---------------------------- MODULE RoutineGraph ----------------------------
(***************************************************************************)
(* The control-flow graph of one routine (RoutineGraph.H): mapper flags    *)
(* branches and targets, BlockBuilder goes over the instructions from the  *)
(* second on and groups them into blocks, BranchIns makes the edges of an  *)
(* instruction that ends a block.  Then the postdominator tree is built.   *)
(*                                                                         *)
(* A block is named by the address it is made for; the node that stands    *)
(* for the callee or target of an instruction by minus its address.        *)
(* endingAddress, body and allBlocks are written and never read, and are   *)
(* left out, as is the name of the routine called.                         *)
(***************************************************************************)
EXTENDS PostDominance

CONSTANTS
  Routines,   \* lists of instructions
  Base        \* address before the first instruction

(* call, icall, ijmp: a direct or indirect call, an indirect branch.       *)
Instruction ==
  [op : {"plain", "jmp", "jcc", "call", "icall", "ijmp", "ret"}, target : Nat]

Address(i) == Base + i
Special(i) == -Address(i)

(* Any list of instructions is a routine.  Code has no addresses as low as *)
(* the flags of mapper; every address a block may be made for is a node.   *)
ASSUME RoutineAssumption ==
  /\ Base \in Nat /\ Base >= 5
  /\ \A r \in Routines :
       /\ r \in Seq(Instruction) /\ Len(r) > 0
       /\ \A i \in 1 .. Len(r) :
            /\ {Address(i), Address(i + 1), Special(i), r[i].target} \subseteq Node
            /\ r[i].target > 5

VARIABLES
  routine,
  position,       \* of currentIns
  addressMap,     \* address -> block, for the addresses that have one
  successors,     \* block -> blocks
  startingAddress

building == <<routine, position, addressMap, successors, startingAddress>>
vars == <<phase, graph, currentBlock, tree, building>>
-----------------------------------------------------------------------------
(* mapper.                                                                 *)
HasFallThrough(ins) == ins.op \in {"plain", "jcc", "call", "icall"}

branches(i) ==
  LET ins == routine[i]
      flag == CASE ins.op \in {"jmp", "jcc"} -> {ins.target}
                [] ins.op = "call"  -> {1}
                [] ins.op = "ret"   -> {2}
                [] ins.op = "icall" -> {4}
                [] ins.op = "ijmp"  -> {5}
                [] OTHER            -> {}
  IN  IF flag # {} /\ HasFallThrough(ins) THEN flag \cup {Address(i + 1)} ELSE flag

targets == (UNION {branches(i) : i \in DOMAIN routine}) \ {1, 2, 4, 5}
-----------------------------------------------------------------------------
(* Get_BasicBlock_At: the block of an address that has one, else a new one *)
Get_BasicBlock_At(a) == IF a \in DOMAIN addressMap THEN addressMap[a] ELSE a

(* new BasicBlock() for those of the nodes that do not exist, in order.    *)
Allocated(nodes) ==
  LET First(x) == CHOOSE j \in DOMAIN nodes :
                    nodes[j] = x /\ \A k \in 1 .. j - 1 : nodes[k] # x
      Earlier(x) == DOMAIN heap \cup {nodes[k] : k \in 1 .. First(x)}
  IN  [x \in DOMAIN heap \cup Range(nodes) |->
         IF x \in DOMAIN heap THEN heap[x] ELSE layout[Cardinality(Earlier(x))]]

(* addressMap after block is entered for a, and blocks for the addresses   *)
(* asked that had none.                                                    *)
Entered(a, block, asked) ==
  [t \in {a} \cup DOMAIN addressMap \cup asked |->
     IF t = a THEN block ELSE Get_BasicBlock_At(t)]

Link(edges, from, to) ==
  [b \in Node |-> IF b \in from THEN edges[b] \cup to ELSE edges[b]]

Init ==
  /\ routine \in Routines /\ layout \in Layouts
  /\ phase = "build" /\ position = 2
  /\ currentBlock = Address(1)
  /\ addressMap = [a \in {Address(1), ReturnNode} |-> a]
  /\ heap = [b \in {Address(1), ReturnNode} |->
               layout[IF b = ReturnNode THEN 2 ELSE 1]]
  /\ startingAddress =
       [b \in Node |-> IF b \in {Address(1), ReturnNode} THEN b ELSE 0]
  /\ predecessors = [b \in Node |-> {}]
  /\ successors = [b \in Node |-> {}]
  /\ InitTree
-----------------------------------------------------------------------------
(* Whether instruction i starts a block, the block it is in, and where     *)
(* that starts.                                                            *)
Starts(i) == currentBlock = NULL \/ Address(i) \in targets
BlockOf(i) == IF Starts(i) THEN Get_BasicBlock_At(Address(i)) ELSE currentBlock

(* Mutant: a block that begins at a target is not given its address.       *)
Start_OnlyAfterBranch(i, block) ==
  IF currentBlock = NULL THEN Address(i) ELSE startingAddress[block]

Start(i, block) == IF Starts(i) THEN Address(i) ELSE startingAddress[block]

(* BranchIns, for instruction i, the last of block.  The flag is the least *)
(* of branches(i).  First the addresses it asks blocks for, in order: a    *)
(* jump to the start of its own block also gets an edge to the next        *)
(* instruction.                                                            *)
Flag(i) == Min(branches(i))

Asked(i, block) ==
  LET next == Address(i + 1) IN
  CASE Flag(i) \in {1, 4} -> <<next>>
    [] Flag(i) \in {2, 5} -> << >>
    [] OTHER ->
         <<Flag(i)>> \o
           IF branches(i) # {Flag(i)} THEN <<Max(branches(i))>>
           ELSE IF Flag(i) = Start(i, block) THEN <<next>> ELSE << >>

(* The node it makes for a callee or an unknown target.                    *)
Made(i) == IF Flag(i) \in {1, 4, 5} THEN <<Special(i)>> ELSE << >>

Reached(i, block) ==
  {Get_BasicBlock_At(a) : a \in Range(Asked(i, block))}
    \cup (IF Flag(i) = 2 THEN {ReturnNode} ELSE {})

(* Mutant: back pointers are made for one target of a conditional branch.  *)
Backward_OneTarget(i, block, preds) ==
  Link(preds,
       IF Cardinality(Reached(i, block)) > 1 THEN {Max(Reached(i, block))}
       ELSE Reached(i, block) \cup Range(Made(i)),
       {block})

(* Back pointers lead to the caller, not through the node of the call;     *)
(* front pointers go through it.                                           *)
Backward(i, block, preds) ==
  Link(preds, Reached(i, block) \cup Range(Made(i)), {block})

Forward(i, block, succs) ==
  IF Flag(i) \in {1, 4}
  THEN Link(Link(succs, {block}, {Special(i)}), {Special(i)}, Reached(i, block))
  ELSE Link(succs, {block}, Reached(i, block) \cup Range(Made(i)))
-----------------------------------------------------------------------------
(* BranchIns takes INS_Next of a call, and of a jump to the start of its   *)
(* own block.  Behind the last instruction there is none, and what Pin     *)
(* answers is not known: there BlockBuilder goes no further here.          *)
TakesNext(i, block) ==
  branches(i) # {} /\ (Flag(i) \in {1, 4} \/ branches(i) = {Start(i, block)})

NoNext ==
  /\ phase = "build" /\ position = Len(routine)
  /\ TakesNext(position, BlockOf(position))

(* One iteration of BlockBuilder.                                          *)
BuildBlock ==
  LET i     == position
      a     == Address(i)
      block == BlockOf(i)
      ends  == branches(i) # {}
      (* falls into a target from the block before *)
      flow  == IF currentBlock # NULL /\ a \in targets THEN {currentBlock} ELSE {}
      preds == Link(predecessors, {block}, flow)
      succs == Link(successors, flow, {block})
  IN
  /\ phase = "build" /\ i <= Len(routine) /\ ~NoNext
  /\ position' = i + 1
  /\ startingAddress' = [startingAddress EXCEPT ![block] = Start(i, block)]
  /\ IF ends
     THEN /\ predecessors' = Backward(i, block, preds)
          /\ successors' = Forward(i, block, succs)
          /\ addressMap' = Entered(a, block, Range(Asked(i, block)))
          /\ heap' = Allocated(<<block>> \o Made(i) \o
                      [k \in DOMAIN Asked(i, block) |->
                         Get_BasicBlock_At(Asked(i, block)[k])])
          /\ currentBlock' = NULL
     ELSE /\ predecessors' = preds
          /\ successors' = succs
          /\ addressMap' = Entered(a, block, {})
          /\ heap' = Allocated(<<block>>)
          /\ currentBlock' = block
  /\ UNCHANGED <<phase, layout, routine, tree>>

BuildTree ==
  /\ phase = "build" /\ position > Len(routine)
  /\ StartTree
  /\ UNCHANGED <<graph, building>>

(* The graph is complete and Controlflow reads it, or the builder went no  *)
(* further.                                                                *)
Finished == (phase = "done" \/ NoNext) /\ UNCHANGED vars

Next ==
  \/ BuildBlock
  \/ BuildTree
  \/ TreeStep /\ UNCHANGED building
  \/ Finished

Spec == Init /\ [][Next]_vars
-----------------------------------------------------------------------------
(* Types; and the keys of the maps tell blocks apart: a block of the tree  *)
(* has its own starting address.                                           *)
TypeOK ==
  /\ phase \in {"build", "tree", "done", "failed"}
  /\ DOMAIN heap \subseteq Node
  /\ addressMap \in [DOMAIN addressMap -> DOMAIN heap]
  /\ currentBlock \in DOMAIN heap \cup {NULL}
  /\ \A b \in Node :
       /\ predecessors[b] \subseteq DOMAIN heap /\ successors[b] \subseteq DOMAIN heap
       /\ PostDominator[b] \in DOMAIN heap \cup {NULL}
       /\ PostDominator[b] # NULL => startingAddress[b] = b

(* Where control goes from instruction i inside the routine.  A call comes *)
(* back; an indirect branch is not known to stay.                          *)
Steps(i) ==
  CASE routine[i].op \in {"plain", "call", "icall"} -> {Address(i + 1)}
    [] routine[i].op = "jmp" -> {routine[i].target}
    [] routine[i].op = "jcc" -> {routine[i].target, Address(i + 1)}
    [] routine[i].op = "ret" -> {ReturnNode}
    [] OTHER -> {}

(* The departures of the builder: the first instruction never counts as a  *)
(* branch, an instruction that falls out of the routine leads nowhere, and *)
(* a jump to the start of its own block falls through.                     *)
Assumed(i) ==
  IF i = 1 \/ routine[i].op = "plain"
  THEN IF i < Len(routine) THEN {Address(i + 1)} ELSE {}
  ELSE IF routine[i].op = "jmp"
          /\ addressMap[routine[i].target] = addressMap[Address(i)]
       THEN {routine[i].target, Address(i + 1)}
       ELSE Steps(i)

(* The graph the postdominators are computed on has exactly the edges of   *)
(* the routine's control flow: one from the block of an instruction to     *)
(* every block that starts where the instruction leads.                    *)
EdgesExact ==
  phase # "build" =>
    \A x, y \in Range(addressMap) :
      x \in predecessors[y] <=>
        \E i \in DOMAIN routine : addressMap[Address(i)] = x /\ y \in Assumed(i)

(* The search ends, loops in the routine or not: every step leaves less    *)
(* work, as a block enters the queue only when it gets its first parent.   *)
SearchProgresses ==
  [][phase = "tree" /\ phase' = "tree" => Work' < Work]_vars
=============================================================================
