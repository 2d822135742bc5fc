---------------------------- MODULE ControlFlow ----------------------------
(***************************************************************************)
(* Control-flow taint (dytan.cpp: Controlflow, PushControl, PopControl).   *)
(*                                                                         *)
(* Controlflow instruments every routine: PushControl before each          *)
(* conditional branch that has an immediate postdominator, and, before the *)
(* first instruction of a block that is one, PopControl with the branches  *)
(* it postdominates, in ascending order (a std::set).  controlTaintMap is  *)
(* one map for the whole process.                                          *)
(*                                                                         *)
(* The program executed is an arbitrary control-flow graph: blocks named   *)
(* by starting address, routines that call each other, instructions that   *)
(* set the flags.  A conditional branch is named by its block.             *)
(***************************************************************************)
EXTENDS Naturals, Sequences

CONSTANTS
  Block,      \* starting addresses of basic blocks
  Entry,      \* blocks a routine starts with
  Succ,       \* block -> blocks it may continue with; {} returns
  Branch,     \* blocks that end in a conditional branch
  Ipdom,      \* branch -> {starting address of its postdominator block}, or
              \* {} when getPostDominator is NULL (no call is inserted)
  Special,    \* the addresses (1, 2, 4, 5) the graph gives the nodes that
              \* stand for calls and returns; no instruction is there
  Mark,
  MaxDepth,   \* bound on nested calls
  Recursion   \* whether a routine may be entered while it is active

ASSUME GraphAssumption ==
  /\ Block \subseteq Nat /\ Special \subseteq Nat \ Block
  /\ Entry \subseteq Block /\ Branch \subseteq Block
  /\ Succ \in [Block -> SUBSET Block]
  /\ Ipdom \in [Branch -> {{}} \cup {{a} : a \in Block \cup Special}]

(* Each block is in the graph of one routine, with its successors and its  *)
(* postdominator: Controlflow builds one graph for each routine.  A jump   *)
(* into another routine counts as a call of it and a return.               *)
Divides(routine) ==
  /\ \A e \in Entry : routine[e] = e
  /\ \A b \in Block : \A c \in Succ[b] : routine[c] = routine[b]
  /\ \A b \in Branch : \A p \in Ipdom[b] \cap Block : routine[p] = routine[b]

ASSUME RoutineAssumption == \E routine \in [Block -> Entry] : Divides(routine)
ASSUME BoundAssumption == MaxDepth \in Nat \ {0} /\ Recursion \in BOOLEAN

VARIABLES
  stack,            \* activations of routines, the running one last
  flags,            \* regTaintMap[REG_RFLAGS]
  controlTaintMap   \* branch -> marks, for the branches that have an entry

vars == <<stack, flags, controlTaintMap>>

(* An activation: where it is, and as history which branches it is inside, *)
(* from the branch to its postdominator, with the marks they tested.       *)
Activation ==
  [entry : Entry, block : Block, begun : BOOLEAN,
   active : [Branch -> SUBSET Mark]]

Called(e) ==
  [entry |-> e, block |-> e, begun |-> FALSE, active |-> [b \in Branch |-> {}]]
-----------------------------------------------------------------------------
Marks(map) == UNION {map[b] : b \in DOMAIN map}

(* controls[ipdomAddr]: the branches whose postdominator starts at addr.   *)
controls(addr) == {b \in Branch : addr \in Ipdom[b]}

Depth == Len(stack)
Running == stack[Depth]
Continue(activation) == stack' = [stack EXCEPT ![Depth] = activation]

Init ==
  /\ \E e \in Entry : stack = <<Called(e)>>
  /\ flags = {}
  /\ controlTaintMap = [b \in {} |-> {}]

(* PopControl returns at the first argument that has no entry.             *)
Popped(args) ==
  {b \in args : \A c \in args : c <= b => c \in DOMAIN controlTaintMap}

(* Mutant: the loop over the arguments starts with the second.             *)
PopControl_SkipsFirst(args) ==
  LET first == {b \in args : \A c \in args : b <= c}
  IN  controlTaintMap' =
        [b \in DOMAIN controlTaintMap \ (Popped(args) \ first) |->
           controlTaintMap[b]]

PopControl(args) ==
  controlTaintMap' =
    [b \in DOMAIN controlTaintMap \ Popped(args) |-> controlTaintMap[b]]

(* The first instruction of the block.                                     *)
BeginBlock ==
  /\ ~Running.begun
  /\ PopControl(controls(Running.block))
  /\ Continue([Running EXCEPT !.begun = TRUE,
                 !.active = [b \in Branch |->
                   IF b \in controls(Running.block) THEN {} ELSE @[b]]])
  /\ UNCHANGED flags

(* An instruction computes the flags from operands with marks operands;    *)
(* SetTaintForRegister adds the control taint.                             *)
SetFlags(operands) ==
  /\ Running.begun
  /\ flags' = operands \cup Marks(controlTaintMap)
  /\ UNCHANGED <<stack, controlTaintMap>>

Jump(next, active) ==
  Continue([Running EXCEPT !.block = next, !.begun = FALSE, !.active = active])

FallThrough(next) ==
  /\ Running.begun /\ Running.block \notin Branch
  /\ next \in Succ[Running.block]
  /\ Jump(next, Running.active)
  /\ UNCHANGED <<flags, controlTaintMap>>

(* Mutant: a branch that has an entry already keeps it as it is.           *)
PushControl_KeepsOld(b) ==
  controlTaintMap' =
    IF flags = {} \/ b \in DOMAIN controlTaintMap THEN controlTaintMap
    ELSE [c \in DOMAIN controlTaintMap \cup {b} |->
            IF c = b THEN flags ELSE controlTaintMap[c]]

(* Mutant: the entry is made for the postdominator, not for the branch.    *)
PushControl_AtPostDominator(b) ==
  controlTaintMap' =
    IF flags = {} THEN controlTaintMap
    ELSE [c \in DOMAIN controlTaintMap \cup Ipdom[b] |->
            IF c \in DOMAIN controlTaintMap THEN controlTaintMap[c] ELSE flags]

(* PushControl(addr): nothing when the flags carry no mark.                *)
PushControl(b) ==
  controlTaintMap' =
    IF flags = {} THEN controlTaintMap
    ELSE [c \in DOMAIN controlTaintMap \cup {b} |->
            IF c \notin DOMAIN controlTaintMap THEN flags
            ELSE IF c = b THEN controlTaintMap[c] \cup flags
            ELSE controlTaintMap[c]]

(* The conditional branch at the end of the block is taken to next.        *)
TakeBranch(next) ==
  LET b == Running.block IN
  /\ Running.begun /\ b \in Branch
  /\ next \in Succ[b]
  /\ IF Ipdom[b] = {} THEN UNCHANGED controlTaintMap ELSE PushControl(b)
  /\ Jump(next, [Running.active EXCEPT ![b] =
                   IF Ipdom[b] = {} THEN @ ELSE @ \cup flags])
  /\ UNCHANGED flags

CallRoutine(e) ==
  /\ Running.begun /\ Depth < MaxDepth
  /\ Recursion \/ \A i \in 1 .. Depth : stack[i].entry # e
  /\ stack' = Append(stack, Called(e))
  /\ UNCHANGED <<flags, controlTaintMap>>

(* The routine returns; the branches it was inside end with it.            *)
ReturnRoutine ==
  /\ Running.begun /\ Succ[Running.block] = {}
  /\ Depth > 1
  /\ stack' = SubSeq(stack, 1, Depth - 1)
  /\ UNCHANGED <<flags, controlTaintMap>>

Next ==
  \/ BeginBlock
  \/ \E operands \in SUBSET Mark : SetFlags(operands)
  \/ \E next \in Block : FallThrough(next) \/ TakeBranch(next)
  \/ \E e \in Entry : CallRoutine(e)
  \/ ReturnRoutine

Spec == Init /\ [][Next]_vars
-----------------------------------------------------------------------------
(* Types; and PushControl makes entries for branches only, which are what  *)
(* PopControl is later called with.                                        *)
TypeOK ==
  /\ stack \in Seq(Activation) /\ stack # <<>>
  /\ flags \subseteq Mark
  /\ DOMAIN controlTaintMap \subseteq Branch
  /\ controlTaintMap \in [DOMAIN controlTaintMap -> SUBSET Mark]

(* The marks of the branches some activation is inside.                    *)
Active(b) == UNION {stack[i].active[b] : i \in 1 .. Depth}

(* Every way from b to a return passes its postdominator: what b leads to  *)
(* before it stays in a set of blocks that do not return.                  *)
PostDominated(b) ==
  \E between \in SUBSET Block :
    /\ Succ[b] \subseteq between
    /\ \A x \in between \ Ipdom[b] : Succ[x] # {} /\ Succ[x] \subseteq between

(* Branches whose entry PopControl may fail to erase: the postdominator is *)
(* a special node, where no PopControl can be inserted, a lower branch     *)
(* shares it, or the block recorded as postdominator can be avoided.       *)
MayStay ==
  {b \in Branch :
     \/ Ipdom[b] \cap Special # {}
     \/ \E c \in Branch : c < b /\ Ipdom[c] = Ipdom[b]
     \/ ~PostDominated(b)}

(* While execution is between a branch on tainted flags and the branch's   *)
(* postdominator, calls to other routines included, the marks stay in      *)
(* controlTaintMap and so reach everything that is written.                *)
ActiveMarksKept ==
  \A b \in Branch : Active(b) # {} =>
    b \in DOMAIN controlTaintMap /\ Active(b) \subseteq controlTaintMap[b]

(* An entry outlives its branch only where PopControl was cut short by a   *)
(* lower branch with the same postdominator, was never inserted, or was    *)
(* inserted in a block that is not on every way; all other entries hold    *)
(* exactly the marks that are active.                                      *)
StaleOnlyIfShared ==
  \A b \in DOMAIN controlTaintMap \ MayStay : controlTaintMap[b] = Active(b)
=============================================================================
