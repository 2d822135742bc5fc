------------------------- MODULE ControlFlowProofs -------------------------
(***************************************************************************)
(* Theorems about ControlFlow, for every control-flow graph: types, and,   *)
(* when no routine is entered while it is active, that the marks of the    *)
(* branches execution is inside are in controlTaintMap, and that no other  *)
(* marks are there but those of MayStay's branches.                        *)
(***************************************************************************)
EXTENDS ControlFlow, SequenceTheorems, TLAPS

(* The routine of a block.                                                 *)
Routine == CHOOSE routine \in [Block -> Entry] : Divides(routine)

(* An activation stays in its routine, and so do the branches it is inside.*)
Confined(activation) ==
  /\ Routine[activation.block] = activation.entry
  /\ \A b \in Branch : activation.active[b] # {} =>
       Routine[b] = activation.entry

(* The blocks an activation inside b may be at, if b's postdominator is a  *)
(* block on all its ways.                                                  *)
Between(b) ==
  CHOOSE between \in SUBSET Block :
    /\ Succ[b] \subseteq between
    /\ \A x \in between \ Ipdom[b] : Succ[x] # {} /\ Succ[x] \subseteq between

NotPassed(activation) ==
  \A b \in Branch \ MayStay : activation.active[b] # {} =>
    /\ activation.block \in Between(b)
    /\ activation.block \in Ipdom[b] => ~activation.begun

(* Every routine is active at most once.                                   *)
OneActivation ==
  \A i, j \in 1 .. Depth : stack[i].entry = stack[j].entry => i = j

Located == \A i \in 1 .. Depth : Confined(stack[i]) /\ NotPassed(stack[i])

IInv ==
  /\ TypeOK
  /\ OneActivation
  /\ Located
  /\ ActiveMarksKept
  /\ StaleOnlyIfShared
-----------------------------------------------------------------------------
(* The choices are made from what the assumptions say exists.              *)
LEMMA RoutineDivides == Routine \in [Block -> Entry] /\ Divides(Routine)
  BY RoutineAssumption DEF Routine

(* Between a branch and its postdominator execution has a successor and    *)
(* stays between the two until it meets the postdominator.                 *)
LEMMA BetweenCloses ==
  ASSUME NEW b \in Branch, PostDominated(b)
  PROVE  /\ Between(b) \subseteq Block
         /\ Succ[b] \subseteq Between(b)
         /\ \A x \in Between(b) \ Ipdom[b] :
              Succ[x] # {} /\ Succ[x] \subseteq Between(b)
  BY DEF Between, PostDominated

(* A mark is active for a branch when some activation has it.              *)
LEMMA ActiveMark ==
  ASSUME NEW b, NEW m
  PROVE  m \in Active(b) <=> \E i \in 1 .. Depth : m \in stack[i].active[b]
  BY DEF Active

(* A step that replaces the running activation.                            *)
LEMMA ContinueStack ==
  ASSUME TypeOK, NEW a \in Activation, Continue(a)
  PROVE  /\ stack' \in Seq(Activation) /\ stack' # <<>>
         /\ Depth' = Depth /\ Depth \in Nat \ {0} /\ Depth \in 1 .. Depth
         /\ stack'[Depth] = a
         /\ \A i \in 1 .. Depth : i # Depth => stack'[i] = stack[i]
  <1>1. stack \in Seq(Activation) /\ stack # <<>>
    BY DEF TypeOK
  <1>2. Depth \in Nat \ {0} /\ Depth \in 1 .. Depth
    BY <1>1, EmptySeq, SMT DEF Depth
  <1>3. stack' = [stack EXCEPT ![Depth] = a]
    BY DEF Continue
  <1>4. stack' \in Seq(Activation) /\ Len(stack') = Len(stack)
    BY <1>1, <1>2, <1>3, ExceptSeq DEF Depth
  <1>5. DOMAIN stack = 1 .. Depth
    BY <1>1, <1>2 DEF Depth
  <1>6. stack'[Depth] = a /\ \A i \in 1 .. Depth : i # Depth => stack'[i] = stack[i]
    BY <1>2, <1>3, <1>5
  <1>7. Depth' = Depth
    BY <1>4 DEF Depth
  <1> QED BY <1>2, <1>4, <1>6, <1>7 DEF Depth

(* There is a running activation, and it is the last of the stack.         *)
LEMMA RunningType ==
  ASSUME TypeOK
  PROVE  /\ Depth \in Nat \ {0} /\ Depth \in 1 .. Depth
         /\ Running \in Activation
         /\ \A i \in 1 .. Depth : stack[i] \in Activation
  BY EmptySeq DEF TypeOK, Depth, Running

(* PopControl and PushControl keep the map's types.                        *)
LEMMA PopControlType ==
  ASSUME TypeOK, NEW args, PopControl(args)
  PROVE  /\ DOMAIN controlTaintMap' \subseteq Branch
         /\ controlTaintMap' \in [DOMAIN controlTaintMap' -> SUBSET Mark]
  BY DEF TypeOK, PopControl

(* PushControl leaves entries of marks, for branches only.                 *)
LEMMA PushControlType ==
  ASSUME TypeOK, NEW b \in Branch, PushControl(b)
  PROVE  /\ DOMAIN controlTaintMap' \subseteq Branch
         /\ controlTaintMap' \in [DOMAIN controlTaintMap' -> SUBSET Mark]
  BY DEF TypeOK, PushControl

(* The activations that BeginBlock and a jump continue with.               *)
Begun ==
  [Running EXCEPT !.begun = TRUE,
     !.active = [b \in Branch |->
       IF b \in controls(Running.block) THEN {} ELSE @[b]]]

Jumped(next, active) ==
  [Running EXCEPT !.block = next, !.begun = FALSE, !.active = active]

(* Starting a block ends the branches it postdominates, and nothing else.  *)
LEMMA BegunType ==
  ASSUME TypeOK
  PROVE  /\ Begun \in Activation
         /\ Begun.entry = Running.entry /\ Begun.block = Running.block
         /\ \A b \in Branch : Begun.active[b] =
              IF b \in controls(Running.block) THEN {} ELSE Running.active[b]
  BY RunningType DEF Activation, Begun

(* What jumping to a block changes in the running activation.              *)
LEMMA JumpType ==
  ASSUME TypeOK, NEW next \in Block, NEW active \in [Branch -> SUBSET Mark]
  PROVE  /\ Jumped(next, active) \in Activation
         /\ Jumped(next, active).entry = Running.entry
         /\ Jumped(next, active).block = next
         /\ Jumped(next, active).begun = FALSE
         /\ Jumped(next, active).active = active
  BY RunningType DEF Activation, Jumped

(* A branch with a postdominator becomes active with the marks of the      *)
(* flags; no other branch changes.                                         *)
LEMMA BranchActive ==
  ASSUME TypeOK, Running.block \in Branch, NEW active,
         active = [Running.active EXCEPT ![Running.block] =
                     IF Ipdom[Running.block] = {} THEN @ ELSE @ \cup flags]
  PROVE  /\ active \in [Branch -> SUBSET Mark]
         /\ \A b \in Branch : b # Running.block => active[b] = Running.active[b]
         /\ active[Running.block] =
              IF Ipdom[Running.block] = {} THEN Running.active[Running.block]
              ELSE Running.active[Running.block] \cup flags
  BY RunningType DEF Activation, TypeOK

(* A call leaves the activations below as they are.                        *)
LEMMA CallStack ==
  ASSUME TypeOK, NEW e \in Entry, stack' = Append(stack, Called(e))
  PROVE  /\ stack' \in Seq(Activation) /\ stack' # <<>>
         /\ Depth \in Nat \ {0} /\ Depth' = Depth + 1
         /\ stack'[Depth + 1] = Called(e)
         /\ \A i \in 1 .. Depth : stack'[i] = stack[i]
  <1>1. Called(e) \in Activation
    BY GraphAssumption DEF Called, Activation
  <1>2. stack \in Seq(Activation)
    BY DEF TypeOK
  <1> QED BY <1>1, <1>2, RunningType, AppendProperties DEF Depth

(* The first elements of a sequence.                                       *)
LEMMA Prefix ==
  ASSUME NEW S, NEW s \in Seq(S), NEW n \in 1 .. Len(s)
  PROVE  /\ SubSeq(s, 1, n) \in Seq(S) /\ SubSeq(s, 1, n) # <<>>
         /\ Len(SubSeq(s, 1, n)) = n
         /\ \A i \in 1 .. n : SubSeq(s, 1, n)[i] = s[i]
  <1>. DEFINE t == SubSeq(s, 1, n)
  <1>1. n \in Int /\ 1 <= n /\ \A i \in 1 .. n : s[i] \in S
    BY LenProperties, ElementOfSeq
  <1>2. /\ t \in Seq(S)
        /\ Len(t) = IF 1 <= n THEN n - 1 + 1 ELSE 0
        /\ \A i \in 1 .. n - 1 + 1 : t[i] = s[1 + i - 1]
    BY <1>1, SubSeqProperties
  <1>. HIDE DEF t
  <1>3. Len(t) = n /\ t # <<>>
    BY <1>1, <1>2, EmptySeq
  <1>4. ASSUME NEW i \in 1 .. n PROVE t[i] = s[i]
    <2>1. i \in Int /\ i \in 1 .. n - 1 + 1 /\ 1 + i - 1 = i
      BY <1>1
    <2> QED BY <2>1, <1>2
  <1> QED BY <1>2, <1>3, <1>4 DEF t

(* A return removes the last activation and leaves the others.             *)
LEMMA ReturnStack ==
  ASSUME TypeOK, Depth > 1, stack' = SubSeq(stack, 1, Depth - 1)
  PROVE  /\ stack' \in Seq(Activation) /\ stack' # <<>>
         /\ Depth \in Nat \ {0} /\ Depth' = Depth - 1
         /\ \A i \in 1 .. Depth - 1 : stack'[i] = stack[i]
  <1>1. Depth \in Nat \ {0} /\ Depth - 1 \in 1 .. Len(stack)
    BY RunningType DEF Depth
  <1>2. stack \in Seq(Activation)
    BY DEF TypeOK
  <1> QED BY <1>1, <1>2, Prefix DEF Depth
-----------------------------------------------------------------------------
(* Execution starts well typed.                                            *)
LEMMA TypeInit == Init => TypeOK
  <1> SUFFICES ASSUME Init PROVE TypeOK
    OBVIOUS
  <1>1. PICK e \in Entry : stack = <<Called(e)>>
    BY DEF Init
  <1>2. Called(e) \in Activation
    BY GraphAssumption DEF Called, Activation
  <1>3. stack \in Seq(Activation) /\ stack # <<>>
    BY <1>1, <1>2
  <1> QED BY <1>3 DEF Init, TypeOK

(* Every step preserves the types, recursive calls included.               *)
LEMMA TypeStep == TypeOK /\ [Next]_vars => TypeOK'
  <1> SUFFICES ASSUME TypeOK, [Next]_vars PROVE TypeOK'
    OBVIOUS
  <1>1. CASE BeginBlock
    <2>1. Begun \in Activation
      BY BegunType
    <2>2. Continue(Begun) /\ PopControl(controls(Running.block)) /\ UNCHANGED flags
      BY <1>1 DEF BeginBlock, Begun
    <2> QED BY <2>1, <2>2, ContinueStack, PopControlType DEF TypeOK
  <1>2. ASSUME NEW operands \in SUBSET Mark, SetFlags(operands) PROVE TypeOK'
    BY <1>2 DEF SetFlags, TypeOK, Marks
  <1>3. ASSUME NEW next \in Block, FallThrough(next) PROVE TypeOK'
    <2>1. Running.active \in [Branch -> SUBSET Mark]
      BY RunningType DEF Activation
    <2>2. Jumped(next, Running.active) \in Activation
      BY <2>1, JumpType
    <2>3. Continue(Jumped(next, Running.active)) /\ UNCHANGED <<flags, controlTaintMap>>
      BY <1>3 DEF FallThrough, Jump, Jumped
    <2> QED BY <2>2, <2>3, ContinueStack DEF TypeOK
  <1>4. ASSUME NEW next \in Block, TakeBranch(next) PROVE TypeOK'
    <2>. DEFINE active == [Running.active EXCEPT ![Running.block] =
                             IF Ipdom[Running.block] = {} THEN @ ELSE @ \cup flags]
    <2>1. Running.block \in Branch /\ active \in [Branch -> SUBSET Mark]
      BY <1>4, BranchActive DEF TakeBranch
    <2>2. Jumped(next, active) \in Activation
      <3>. HIDE DEF active
      <3> QED BY <2>1, JumpType
    <2>3. /\ Continue(Jumped(next, active)) /\ UNCHANGED flags
          /\ IF Ipdom[Running.block] = {} THEN UNCHANGED controlTaintMap
             ELSE PushControl(Running.block)
      BY <1>4 DEF TakeBranch, Jump, Jumped
    <2>. HIDE DEF active
    <2>4. /\ DOMAIN controlTaintMap' \subseteq Branch
          /\ controlTaintMap' \in [DOMAIN controlTaintMap' -> SUBSET Mark]
      BY <2>1, <2>3, PushControlType DEF TypeOK
    <2> QED BY <2>2, <2>3, <2>4, ContinueStack DEF TypeOK
  <1>5. ASSUME NEW e \in Entry, CallRoutine(e) PROVE TypeOK'
    BY <1>5, CallStack DEF CallRoutine, TypeOK
  <1>6. CASE ReturnRoutine
    BY <1>6, ReturnStack DEF ReturnRoutine, TypeOK
  <1>7. CASE UNCHANGED vars
    BY <1>7 DEF vars, TypeOK
  <1> QED BY <1>1, <1>2, <1>3, <1>4, <1>5, <1>6, <1>7 DEF Next

(* Types for every graph: PushControl makes entries for branches only,     *)
(* whatever is called and wherever execution goes.                         *)
THEOREM ControlTypeCorrect == Spec => []TypeOK
  BY TypeInit, TypeStep, PTL DEF Spec
-----------------------------------------------------------------------------
(* A step of the running activation that stays in the routine and between  *)
(* its branches and their postdominators.                                  *)
LEMMA ContinueLocated ==
  ASSUME TypeOK, OneActivation, Located,
         NEW a \in Activation, Continue(a),
         a.entry = Running.entry, Confined(a), NotPassed(a)
  PROVE  OneActivation' /\ Located'
  <1>1. /\ Depth' = Depth /\ Depth \in 1 .. Depth /\ stack'[Depth] = a
        /\ \A i \in 1 .. Depth : i # Depth => stack'[i] = stack[i]
    BY ContinueStack
  <1>2. \A i \in 1 .. Depth : stack'[i].entry = stack[i].entry
    BY <1>1 DEF Running
  <1>3. OneActivation'
    BY <1>1, <1>2 DEF OneActivation
  <1>4. \A i \in 1 .. Depth : Confined(stack'[i]) /\ NotPassed(stack'[i])
    BY <1>1 DEF Located
  <1> QED BY <1>1, <1>3, <1>4 DEF Located

(* The marks a step of the running activation makes active.                *)
LEMMA ContinueActive ==
  ASSUME TypeOK, NEW a \in Activation, Continue(a), NEW b \in Branch
  PROVE  /\ Running.active[b] \subseteq Active(b)
         /\ \A m \in Active(b)' : m \in Active(b) \/ m \in a.active[b]
         /\ a.active[b] \subseteq Active(b)'
         /\ \A m \in Active(b) : m \in Active(b)' \/ m \in Running.active[b]
  <1>1. /\ Depth' = Depth /\ Depth \in 1 .. Depth /\ stack'[Depth] = a
        /\ \A i \in 1 .. Depth : i # Depth => stack'[i] = stack[i]
    BY ContinueStack
  <1>2. \A m : m \in Active(b) <=> \E i \in 1 .. Depth : m \in stack[i].active[b]
    BY ActiveMark
  <1>3. \A m : m \in Active(b)' <=> \E i \in 1 .. Depth : m \in stack'[i].active[b]
    BY <1>1 DEF Active
  <1>4. \A i \in 1 .. Depth : stack'[i].active[b] =
          IF i = Depth THEN a.active[b] ELSE stack[i].active[b]
    BY <1>1
  <1>5. Running.active[b] = stack[Depth].active[b]
    BY DEF Running
  <1> QED BY <1>1, <1>2, <1>3, <1>4, <1>5

(* Between a branch that is certain to be popped and its postdominator an  *)
(* activation does not return, and a step keeps it there.                  *)
LEMMA StaysBetween ==
  ASSUME TypeOK, Located, NEW b \in Branch \ MayStay,
         Running.active[b] # {}, Running.begun
  PROVE  /\ Running.block \in Between(b) /\ Running.block \notin Ipdom[b]
         /\ Succ[Running.block] # {}
         /\ Succ[Running.block] \subseteq Between(b)
  <1>1. NotPassed(Running)
    BY RunningType DEF Located, Running
  <1>2. PostDominated(b)
    BY DEF MayStay
  <1> QED BY <1>1, <1>2, BetweenCloses DEF NotPassed

(* A jump to a successor, with no branch made active but the one at the    *)
(* end of the block.                                                       *)
LEMMA JumpLocated ==
  ASSUME TypeOK, OneActivation, Located, Running.begun,
         NEW next \in Block, next \in Succ[Running.block],
         NEW active \in [Branch -> SUBSET Mark],
         \A b \in Branch : b # Running.block => active[b] = Running.active[b],
         Jump(next, active)
  PROVE  OneActivation' /\ Located'
  <1>. DEFINE a == Jumped(next, active)
  <1>1. /\ a \in Activation /\ a.entry = Running.entry /\ a.block = next
        /\ a.begun = FALSE /\ a.active = active
    BY JumpType, ZenonT(30)
  <1>2. Continue(a)
    BY DEF Jump, Jumped
  <1>. HIDE DEF a
  <1>3. Running \in Activation /\ Running.block \in Block /\ Confined(Running)
    BY RunningType DEF Located, Running, Activation
  <1>4. Confined(a)
    <2>1. Routine[next] = Routine[Running.block]
      BY <1>3, RoutineDivides DEF Divides
    <2> QED BY <1>1, <1>3, <2>1 DEF Confined
  <1>5. NotPassed(a)
    <2> SUFFICES ASSUME NEW b \in Branch \ MayStay, active[b] # {}
                 PROVE  next \in Between(b)
      BY <1>1 DEF NotPassed
    <2>1. CASE b = Running.block
      <3>1. PostDominated(b)
        BY DEF MayStay
      <3> QED BY <2>1, <3>1, BetweenCloses
    <2>2. CASE b # Running.block
      BY <2>2, StaysBetween
    <2> QED BY <2>1, <2>2
  <1> QED BY <1>1, <1>2, <1>4, <1>5, ContinueLocated

(* The pops at the start of a block leave every activation between its     *)
(* active branches and their postdominators.                               *)
LEMMA BeginLocated ==
  ASSUME TypeOK, OneActivation, Located, BeginBlock
  PROVE  OneActivation' /\ Located'
  <1>1. /\ Begun \in Activation
        /\ Begun.entry = Running.entry /\ Begun.block = Running.block
        /\ \A b \in Branch : Begun.active[b] =
             IF b \in controls(Running.block) THEN {} ELSE Running.active[b]
    BY BegunType
  <1>2. Continue(Begun)
    BY DEF BeginBlock, Begun
  <1>3. Confined(Running) /\ NotPassed(Running)
    BY RunningType DEF Located, Running
  <1>4. Confined(Begun)
    BY <1>1, <1>3 DEF Confined
  <1>5. NotPassed(Begun)
    BY <1>1, <1>3 DEF NotPassed, controls
  <1> QED BY <1>1, <1>2, <1>4, <1>5, ContinueLocated

(* A call of a routine that is not active leaves the callers where they    *)
(* are.                                                                    *)
LEMMA CallLocated ==
  ASSUME TypeOK, OneActivation, Located, Recursion = FALSE,
         NEW e \in Entry, CallRoutine(e)
  PROVE  OneActivation' /\ Located'
  <1>1. /\ Depth \in Nat \ {0} /\ Depth' = Depth + 1
        /\ stack'[Depth + 1] = Called(e)
        /\ \A i \in 1 .. Depth : stack'[i] = stack[i]
    BY CallStack DEF CallRoutine
  <1>2. \A i \in 1 .. Depth : stack[i].entry # e
    BY DEF CallRoutine
  <1>3. \A i \in 1 .. Depth + 1 : i \in 1 .. Depth \/ i = Depth + 1
    BY <1>1
  <1>4. OneActivation'
    BY <1>1, <1>2, <1>3 DEF OneActivation, Called
  <1>5. Confined(Called(e)) /\ NotPassed(Called(e))
    BY RoutineDivides DEF Confined, NotPassed, Called, Divides
  <1>6. \A i \in 1 .. Depth + 1 : Confined(stack'[i]) /\ NotPassed(stack'[i])
    BY <1>1, <1>3, <1>5 DEF Located
  <1> QED BY <1>1, <1>4, <1>6 DEF Located

(* A return leaves the callers where they are.                             *)
LEMMA ReturnLocated ==
  ASSUME TypeOK, OneActivation, Located, ReturnRoutine
  PROVE  OneActivation' /\ Located'
  <1>1. /\ Depth \in Nat \ {0} /\ Depth' = Depth - 1
        /\ \A i \in 1 .. Depth - 1 : stack'[i] = stack[i]
    BY ReturnStack DEF ReturnRoutine
  <1>2. \A i \in 1 .. Depth - 1 : i \in 1 .. Depth
    BY <1>1
  <1> QED BY <1>1, <1>2 DEF OneActivation, Located
-----------------------------------------------------------------------------
(* At the postdominator of a branch no activation is inside it any more:   *)
(* the running one leaves it, and no other is in the same routine.         *)
LEMMA BeginActive ==
  ASSUME TypeOK, OneActivation, Located, BeginBlock, NEW b \in Branch
  PROVE  Active(b)' = IF b \in controls(Running.block) THEN {} ELSE Active(b)
  <1>1. /\ Begun \in Activation
        /\ Begun.active[b] = IF b \in controls(Running.block) THEN {}
                         ELSE Running.active[b]
    BY BegunType
  <1>2. Continue(Begun)
    BY DEF BeginBlock, Begun
  <1>3. /\ Depth' = Depth /\ Depth \in 1 .. Depth /\ stack'[Depth] = Begun
        /\ \A i \in 1 .. Depth : i # Depth => stack'[i] = stack[i]
    BY <1>1, <1>2, ContinueStack
  <1>4. CASE b \in controls(Running.block)
    <2>1. Running.block \in Ipdom[b] \cap Block /\ Routine[Running.block] = Running.entry
      BY <1>4, RunningType DEF controls, Located, Confined, Running, Activation
    <2>2. Routine[b] = Running.entry
      BY <2>1, RoutineDivides DEF Divides
    <2>3. ASSUME NEW i \in 1 .. Depth PROVE stack'[i].active[b] = {}
      <3>1. CASE i = Depth
        BY <1>1, <1>3, <1>4, <3>1
      <3>2. CASE i # Depth
        BY <1>3, <2>2, <3>2 DEF OneActivation, Located, Confined, Running
      <3> QED BY <3>1, <3>2
    <2> QED BY <1>3, <1>4, <2>3 DEF Active
  <1>5. CASE b \notin controls(Running.block)
    BY <1>1, <1>2, <1>5, ContinueActive
  <1> QED BY <1>4, <1>5

(* The pops at the start of a block take the marks of the branches that    *)
(* end there, and only those.                                              *)
LEMMA BeginKept ==
  ASSUME TypeOK, OneActivation, Located, ActiveMarksKept, StaleOnlyIfShared,
         BeginBlock
  PROVE  ActiveMarksKept' /\ StaleOnlyIfShared'
  <1>. DEFINE args == controls(Running.block)
  <1>1. /\ DOMAIN controlTaintMap' = DOMAIN controlTaintMap \ Popped(args)
        /\ \A b \in DOMAIN controlTaintMap' : controlTaintMap'[b] = controlTaintMap[b]
    BY DEF BeginBlock, PopControl
  <1>2. \A b \in Branch : Active(b)' = IF b \in args THEN {} ELSE Active(b)
    BY BeginActive
  <1>3. Popped(args) \subseteq args
    BY DEF Popped
  <1>4. ActiveMarksKept'
    BY <1>1, <1>2, <1>3 DEF ActiveMarksKept
  <1>5. ASSUME NEW b \in DOMAIN controlTaintMap \ MayStay, b \in args
        PROVE  b \in Popped(args)
    <2>1. b \in Branch /\ Ipdom[b] = {Running.block}
      BY <1>5, GraphAssumption DEF controls
    <2>2. \A c \in args : c \in Branch /\ Ipdom[c] = {Running.block}
      BY GraphAssumption DEF controls
    <2>3. \A c \in args : ~(c < b)
      BY <2>1, <2>2 DEF MayStay
    <2>4. \A c \in args : c <= b => c = b
      <3>1. \A c \in Branch : c \in Nat
        BY GraphAssumption
      <3> QED BY <2>1, <2>2, <2>3, <3>1
    <2> QED BY <1>5, <2>4 DEF Popped
  <1>6. StaleOnlyIfShared'
    <2> SUFFICES ASSUME NEW b \in DOMAIN controlTaintMap' \ MayStay
                 PROVE  controlTaintMap'[b] = Active(b)'
      BY DEF StaleOnlyIfShared
    <2>1. b \in Branch /\ b \in DOMAIN controlTaintMap /\ b \notin args
      BY <1>1, <1>5 DEF TypeOK
    <2> QED BY <1>1, <1>2, <2>1 DEF StaleOnlyIfShared
  <1> QED BY <1>4, <1>6

(* A branch on tainted flags makes their marks active and its entry hold   *)
(* them; without an entry nothing was active.                              *)
LEMMA BranchKept ==
  ASSUME TypeOK, Located, ActiveMarksKept, StaleOnlyIfShared,
         NEW next \in Block, TakeBranch(next)
  PROVE  ActiveMarksKept' /\ StaleOnlyIfShared'
  <1>1. PICK b \in Branch : b = Running.block
    BY DEF TakeBranch
  <1>. DEFINE active == [Running.active EXCEPT ![b] =
                           IF Ipdom[b] = {} THEN @ ELSE @ \cup flags]
              a == Jumped(next, active)
  <1>2. /\ active \in [Branch -> SUBSET Mark]
        /\ \A c \in Branch : c # b => active[c] = Running.active[c]
        /\ active[b] = IF Ipdom[b] = {} THEN Running.active[b]
                       ELSE Running.active[b] \cup flags
    BY <1>1, BranchActive
  <1>3. a \in Activation /\ a.active = active
    <2>1. active \in [Branch -> SUBSET Mark]
      BY <1>2
    <2>. HIDE DEF active
    <2> QED BY <2>1, JumpType
  <1>4. /\ Continue(a)
        /\ IF Ipdom[b] = {} THEN UNCHANGED controlTaintMap ELSE PushControl(b)
    BY <1>1 DEF TakeBranch, Jump, Jumped
  <1>. HIDE DEF a, active
  <1>5. \A c \in Branch :
          Active(c)' = IF c = b /\ Ipdom[b] # {} THEN Active(c) \cup flags
                       ELSE Active(c)
    <2> SUFFICES ASSUME NEW c \in Branch
                 PROVE  Active(c)' = IF c = b /\ Ipdom[b] # {}
                                     THEN Active(c) \cup flags ELSE Active(c)
      OBVIOUS
    <2>1. /\ Running.active[c] \subseteq Active(c)
          /\ \A m \in Active(c)' : m \in Active(c) \/ m \in a.active[c]
          /\ a.active[c] \subseteq Active(c)'
          /\ \A m \in Active(c) : m \in Active(c)' \/ m \in Running.active[c]
      BY <1>3, <1>4, ContinueActive
    <2>2. a.active[c] = IF c = b /\ Ipdom[b] # {} THEN Running.active[c] \cup flags
                        ELSE Running.active[c]
      BY <1>2, <1>3
    <2> QED BY <2>1, <2>2
  <1>6. CASE Ipdom[b] = {} \/ flags = {}
    <2>1. UNCHANGED controlTaintMap /\ \A c \in Branch : Active(c)' = Active(c)
      BY <1>4, <1>5, <1>6 DEF PushControl
    <2>2. DOMAIN controlTaintMap \subseteq Branch
      BY DEF TypeOK
    <2> QED BY <2>1, <2>2 DEF ActiveMarksKept, StaleOnlyIfShared
  <1>7. CASE Ipdom[b] # {} /\ flags # {}
    <2>1. /\ DOMAIN controlTaintMap' = DOMAIN controlTaintMap \cup {b}
          /\ \A c \in DOMAIN controlTaintMap : c # b =>
               controlTaintMap'[c] = controlTaintMap[c]
          /\ controlTaintMap'[b] = IF b \in DOMAIN controlTaintMap
                                   THEN controlTaintMap[b] \cup flags ELSE flags
      BY <1>4, <1>7 DEF PushControl
    <2>2. /\ \A c \in Branch : c # b => Active(c)' = Active(c)
          /\ Active(b)' = Active(b) \cup flags
      <3>1. \A c \in Branch :
              Active(c)' = IF c = b THEN Active(c) \cup flags ELSE Active(c)
        BY <1>5, <1>7
      <3> QED BY <1>1, <3>1
    <2>3. b \notin DOMAIN controlTaintMap => Active(b) = {}
      BY <1>1 DEF ActiveMarksKept
    <2>4. DOMAIN controlTaintMap \subseteq Branch
      BY DEF TypeOK
    <2>5. ActiveMarksKept'
      BY <1>1, <2>1, <2>2, <2>3 DEF ActiveMarksKept
    <2>6. StaleOnlyIfShared'
      BY <1>1, <2>1, <2>2, <2>3, <2>4 DEF StaleOnlyIfShared
    <2> QED BY <2>5, <2>6
  <1> QED BY <1>6, <1>7

(* A call touches no entry.                                                *)
LEMMA CallKept ==
  ASSUME TypeOK, ActiveMarksKept, StaleOnlyIfShared,
         NEW e \in Entry, CallRoutine(e)
  PROVE  ActiveMarksKept' /\ StaleOnlyIfShared'
  <1>1. /\ Depth \in Nat \ {0} /\ Depth' = Depth + 1
        /\ stack'[Depth + 1] = Called(e)
        /\ \A i \in 1 .. Depth : stack'[i] = stack[i]
    BY CallStack DEF CallRoutine
  <1>2. \A i \in 1 .. Depth + 1 : i \in 1 .. Depth \/ i = Depth + 1
    BY <1>1
  <1>3. \A b \in Branch : Called(e).active[b] = {}
    BY DEF Called
  <1>4. \A i \in 1 .. Depth : i \in 1 .. Depth + 1
    BY <1>1
  <1>5. ASSUME NEW b \in Branch PROVE Active(b)' = Active(b)
    <2>1. \A m : m \in Active(b)' <=>
                   \E i \in 1 .. Depth + 1 : m \in stack'[i].active[b]
      BY <1>1 DEF Active
    <2> QED BY <1>1, <1>2, <1>3, <1>4, <2>1, ActiveMark
  <1>6. UNCHANGED controlTaintMap /\ DOMAIN controlTaintMap \subseteq Branch
    BY DEF CallRoutine, TypeOK
  <1> QED BY <1>5, <1>6 DEF ActiveMarksKept, StaleOnlyIfShared

(* A routine that returns is inside no branch that is certain to be popped.*)
LEMMA ReturnKept ==
  ASSUME TypeOK, Located, ActiveMarksKept, StaleOnlyIfShared, ReturnRoutine
  PROVE  ActiveMarksKept' /\ StaleOnlyIfShared'
  <1>1. /\ Depth \in Nat \ {0} /\ Depth' = Depth - 1
        /\ \A i \in 1 .. Depth - 1 : stack'[i] = stack[i]
    BY ReturnStack DEF ReturnRoutine
  <1>2. /\ \A i \in 1 .. Depth : i \in 1 .. Depth - 1 \/ i = Depth
        /\ \A i \in 1 .. Depth - 1 : i \in 1 .. Depth
    BY <1>1
  <1>3. \A b, m : m \in Active(b)' <=>
                    \E i \in 1 .. Depth - 1 : m \in stack'[i].active[b]
    BY <1>1 DEF Active
  <1>4. \A b : Active(b)' \subseteq Active(b)
    BY <1>1, <1>2, <1>3, ActiveMark
  <1>5. ASSUME NEW b \in Branch \ MayStay PROVE Active(b)' = Active(b)
    <2>1. Running.active[b] = {}
      BY StaysBetween DEF ReturnRoutine
    <2> QED BY <1>1, <1>2, <1>3, <2>1, ActiveMark DEF Running
  <1>6. UNCHANGED controlTaintMap /\ DOMAIN controlTaintMap \subseteq Branch
    BY DEF ReturnRoutine, TypeOK
  <1>7. ActiveMarksKept'
    BY <1>4, <1>6 DEF ActiveMarksKept
  <1>8. StaleOnlyIfShared'
    BY <1>5, <1>6 DEF StaleOnlyIfShared
  <1> QED BY <1>7, <1>8
-----------------------------------------------------------------------------
(* The invariant holds initially.                                          *)
LEMMA IInvInit == Init => IInv
  <1> SUFFICES ASSUME Init PROVE IInv
    OBVIOUS
  <1>1. PICK e \in Entry : stack = <<Called(e)>>
    BY DEF Init
  <1>2. Depth = 1 /\ stack[1] = Called(e)
    BY <1>1 DEF Depth
  <1>3. Confined(Called(e)) /\ NotPassed(Called(e))
    BY RoutineDivides DEF Confined, NotPassed, Called, Divides
  <1>4. OneActivation /\ Located
    BY <1>2, <1>3 DEF OneActivation, Located
  <1>5. \A b \in Branch : Active(b) = {}
    BY <1>2 DEF Active, Called
  <1>6. ActiveMarksKept /\ StaleOnlyIfShared
    BY <1>5 DEF ActiveMarksKept, StaleOnlyIfShared, Init
  <1> QED BY <1>4, <1>6, TypeInit DEF IInv

(* Without recursive calls every step preserves the invariant.             *)
LEMMA IInvStep ==
  ASSUME Recursion = FALSE
  PROVE  IInv /\ [Next]_vars => IInv'
  <1> SUFFICES ASSUME IInv, [Next]_vars PROVE IInv'
    OBVIOUS
  <1>. USE DEF IInv
  <1>1. TypeOK'
    BY TypeStep
  <1>2. CASE BeginBlock
    BY <1>1, <1>2, BeginLocated, BeginKept
  <1>3. ASSUME NEW operands \in SUBSET Mark, SetFlags(operands) PROVE IInv'
    BY <1>1, <1>3 DEF SetFlags, OneActivation, Located, ActiveMarksKept,
                      StaleOnlyIfShared, Active, Depth
  <1>4. ASSUME NEW next \in Block, FallThrough(next) PROVE IInv'
    <2>1. Running.active \in [Branch -> SUBSET Mark]
      BY RunningType DEF Activation
    <2>2. OneActivation' /\ Located'
      BY <1>4, <2>1, JumpLocated DEF FallThrough
    <2>3. /\ Jumped(next, Running.active) \in Activation
          /\ Jumped(next, Running.active).active = Running.active
      BY <2>1, JumpType
    <2>4. Continue(Jumped(next, Running.active))
      BY <1>4 DEF FallThrough, Jump, Jumped
    <2>5. \A b \in Branch : Active(b)' = Active(b)
      BY <2>3, <2>4, ContinueActive
    <2>6. UNCHANGED controlTaintMap /\ DOMAIN controlTaintMap \subseteq Branch
      BY <1>4 DEF FallThrough, TypeOK
    <2>7. ActiveMarksKept' /\ StaleOnlyIfShared'
      BY <2>5, <2>6 DEF ActiveMarksKept, StaleOnlyIfShared
    <2> QED BY <1>1, <2>2, <2>7
  <1>5. ASSUME NEW next \in Block, TakeBranch(next) PROVE IInv'
    <2>. DEFINE active == [Running.active EXCEPT ![Running.block] =
                             IF Ipdom[Running.block] = {} THEN @ ELSE @ \cup flags]
    <2>1. /\ active \in [Branch -> SUBSET Mark]
          /\ \A b \in Branch : b # Running.block => active[b] = Running.active[b]
      BY <1>5, BranchActive DEF TakeBranch
    <2>2. Running.begun /\ next \in Succ[Running.block] /\ Jump(next, active)
      BY <1>5 DEF TakeBranch
    <2>. HIDE DEF active
    <2>3. OneActivation' /\ Located'
      BY <2>1, <2>2, JumpLocated
    <2> QED BY <1>1, <1>5, <2>3, BranchKept
  <1>6. ASSUME NEW e \in Entry, CallRoutine(e) PROVE IInv'
    BY <1>1, <1>6, CallLocated, CallKept
  <1>7. CASE ReturnRoutine
    BY <1>1, <1>7, ReturnLocated, ReturnKept
  <1>8. CASE UNCHANGED vars
    BY <1>1, <1>8 DEF vars, OneActivation, Located, ActiveMarksKept,
                      StaleOnlyIfShared, Active, Depth
  <1> QED BY <1>2, <1>3, <1>4, <1>5, <1>6, <1>7, <1>8 DEF Next

(* As long as no routine is entered while it is active, the marks of every *)
(* branch that execution is inside are in controlTaintMap: neither the     *)
(* pops of other branches nor those of called routines take them away.     *)
THEOREM MarksStayActive ==
  ASSUME Recursion = FALSE
  PROVE  Spec => []ActiveMarksKept
  <1>1. IInv => ActiveMarksKept
    BY DEF IInv
  <1> QED BY <1>1, IInvInit, IInvStep, PTL DEF Spec

(* Under the same condition an entry of controlTaintMap outlives its       *)
(* branch only for the reasons MayStay gives.                              *)
THEOREM MarksEndAtPostDominator ==
  ASSUME Recursion = FALSE
  PROVE  Spec => []StaleOnlyIfShared
  <1>1. IInv => StaleOnlyIfShared
    BY DEF IInv
  <1> QED BY <1>1, IInvInit, IInvStep, PTL DEF Spec
=============================================================================
