----------------------- MODULE InstructionFlowProofs -----------------------
(***************************************************************************)
(* InstructionFlow implements TaintFlow for one thread and instructions    *)
(* that conform, with any operands, registers, memory and marks.           *)
(*                                                                         *)
(* 1. What a call does to a configuration: the marks of every location,    *)
(*    branch and scratch set (Effect), and what a list of calls does       *)
(*    (Runs).                                                              *)
(* 2. What a handler's statements do, a return or an abort included        *)
(*    (Yields): loads gather the marks of the sources in scratch sets      *)
(*    (Fetched, Gathered), stores spread them (Stored).                    *)
(* 3. So many loads, then so many stores, make a flow (Form...): every     *)
(*    handler makes the one TaintFlow announces (...Does, HandlerFlow).    *)
(* 4. The analysis routines of TaintEngine have these effects              *)
(*    (CallEffect), so the steps of InstructionFlow simulate TaintFlow's.  *)
(***************************************************************************)
EXTENDS InstructionFlow, TaintEngineProofs

-----------------------------------------------------------------------------
(* What analysis calls do to the marks.  A location or branch without an   *)
(* entry is one without marks, as in TaintFlow.                            *)

Location == ({"reg"} \X REG) \cup ({"mem"} \X ADDRINT)

Config == [loc : [Location -> SUBSET Mark], control : [CODE -> SUBSET Mark],
           scratch : [Scratch -> SUBSET Mark]]

Open(A) == UNION {A.control[c] : c \in CODE}
Marked(A, L) == UNION {A.loc[l] : l \in L}
Union(A, from) == (UNION {A.scratch[s] : s \in from}) \cup Open(A)

(* Scratch set s is given marks, locations in T are, or are cleared.       *)
Loaded(A, B, s, marks) ==
  /\ B.loc = A.loc /\ B.control = A.control /\ B.scratch[s] = marks
  /\ \A x \in Scratch \ {s} : B.scratch[x] = A.scratch[x]

Wrote(A, B, T, marks) ==
  /\ B.control = A.control /\ B.scratch = A.scratch
  /\ \A l \in Location : B.loc[l] = IF l \in T THEN marks ELSE A.loc[l]

Cleared(A, B, T) ==
  /\ B.control = A.control /\ B.scratch = A.scratch
  /\ \A l \in Location : IF l \in T THEN B.loc[l] \in {{}, Open(A)}
                                    ELSE B.loc[l] = A.loc[l]

InReg(r) == {<<"reg", r>>}
InMem(S) == {"mem"} \X S

(* Storing to r reaches its parts; the stack pointers stay clean.          *)
Reached(r) ==
  {"reg"} \X (IF r \in {"ESP", "EBP"} THEN {} ELSE {r} \cup SubRegisters(r))

Effect(c, A, B) ==
  /\ c.op = "ClearTaintSet" => Loaded(A, B, c.set, {})
  /\ c.op = "TaintForRegister" => Loaded(A, B, c.set, Marked(A, InReg(c.reg)))
  /\ c.op = "TaintForMemory" => Loaded(A, B, c.set, Marked(A, InMem(c.mem)))
  /\ c.op = "SetTaintForRegister" => Wrote(A, B, Reached(c.reg), Union(A, c.from))
  /\ c.op = "SetTaintForMemory" => Wrote(A, B, InMem(c.mem), Union(A, c.from))
  /\ c.op = "ClearTaintForRegister" => Cleared(A, B, InReg(c.reg))
  /\ c.op = "ClearTaintForMemory" => Cleared(A, B, InMem(c.mem))
  /\ c.op = "PushControl" =>
       /\ B.loc = A.loc /\ B.scratch = A.scratch
       /\ \A x \in CODE : B.control[x] =
            A.control[x] \cup (IF x = c.addr THEN A.loc[<<"reg", "RFLAGS">>] ELSE {})
  /\ c.op = "PopControl" /\ Len(c.addrs) = 1 =>
       /\ B.loc = A.loc /\ B.scratch = A.scratch
       /\ \A x \in CODE : B.control[x] = IF x = c.addrs[1] THEN {} ELSE A.control[x]

(* The calls of a list run one after the other.                            *)
Runs(calls, A, B) ==
  \E tr \in [0 .. Len(calls) -> Config] :
    /\ tr[0] = A /\ tr[Len(calls)] = B
    /\ \A i \in 1 .. Len(calls) : Effect(calls[i], tr[i - 1], tr[i])

(* No call changes nothing.                                                *)
LEMMA RunsNone ==
  ASSUME NEW A \in Config
  PROVE  /\ Runs(<<>>, A, A)
         /\ \A B : Runs(<<>>, A, B) => B = A
  <1>1. Len(<<>>) = 0 /\ 1 .. 0 = {}
    OBVIOUS
  <1> DEFINE tr == [i \in 0 .. 0 |-> A]
  <1>2. tr \in [0 .. 0 -> Config] /\ tr[0] = A
    OBVIOUS
  <1> HIDE DEF tr
  <1>3. Runs(<<>>, A, A)
    BY <1>1, <1>2 DEF Runs
  <1>4. \A B : Runs(<<>>, A, B) => B = A
    BY <1>1 DEF Runs
  <1> QED BY <1>3, <1>4

(* One more call at the end.                                               *)
LEMMA RunsMore ==
  ASSUME NEW s \in Seq(Call), NEW c \in Call,
         NEW A \in Config, NEW B \in Config, NEW C \in Config,
         Runs(s, A, B), Effect(c, B, C)
  PROVE  Runs(s \o <<c>>, A, C)
  <1> DEFINE n == Len(s)
  <1>1. n \in Nat /\ Len(s \o <<c>>) = n + 1 /\ (s \o <<c>>)[n + 1] = c
        /\ \A i \in 1 .. n : (s \o <<c>>)[i] = s[i]
    OBVIOUS
  <1>2. PICK tr \in [0 .. n -> Config] :
          /\ tr[0] = A /\ tr[n] = B
          /\ \A i \in 1 .. n : Effect(s[i], tr[i - 1], tr[i])
    BY DEF Runs
  <1> DEFINE ur == [i \in 0 .. n + 1 |-> IF i = n + 1 THEN C ELSE tr[i]]
  <1>3. ur \in [0 .. n + 1 -> Config] /\ ur[0] = A /\ ur[n + 1] = C
        /\ \A i \in 0 .. n : ur[i] = tr[i]
    BY <1>1, <1>2
  <1> HIDE DEF n, ur
  <1>4. \A i \in 1 .. n + 1 : Effect((s \o <<c>>)[i], ur[i - 1], ur[i])
    <2> SUFFICES ASSUME NEW i \in 1 .. n + 1
                 PROVE  Effect((s \o <<c>>)[i], ur[i - 1], ur[i])
      OBVIOUS
    <2>1. CASE i = n + 1
      <3>1. i - 1 = n /\ ur[i - 1] = B /\ ur[i] = C /\ (s \o <<c>>)[i] = c
        BY <1>1, <1>2, <1>3, <2>1
      <3> QED BY <3>1
    <2>2. CASE i # n + 1
      <3>1. /\ i \in 1 .. n /\ ur[i - 1] = tr[i - 1] /\ ur[i] = tr[i]
            /\ (s \o <<c>>)[i] = s[i]
        BY <1>1, <1>3, <2>2
      <3> QED BY <1>2, <3>1
    <2> QED BY <2>1, <2>2
  <1> QED BY <1>1, <1>3, <1>4, Zenon DEF Runs

(* The first call of a run.                                                *)
LEMMA RunsFirst ==
  ASSUME NEW s \in Seq(Call), NEW c \in Call,
         NEW A \in Config, NEW C, Runs(<<c>> \o s, A, C)
  PROVE  \E B \in Config : Effect(c, A, B) /\ Runs(s, B, C)
  <1> DEFINE n == Len(s)
             u == <<c>> \o s
  <1>1. n \in Nat /\ Len(u) = n + 1 /\ u[1] = c
        /\ \A i \in 1 .. n : u[i + 1] = s[i]
    OBVIOUS
  <1> HIDE DEF u, n
  <1>2. PICK tr \in [0 .. n + 1 -> Config] :
          /\ tr[0] = A /\ tr[n + 1] = C
          /\ \A i \in 1 .. n + 1 : Effect(u[i], tr[i - 1], tr[i])
    BY <1>1 DEF Runs, u
  <1> DEFINE ur == [i \in 0 .. n |-> tr[i + 1]]
  <1>3. ur \in [0 .. n -> Config] /\ ur[0] = tr[1] /\ ur[n] = C
        /\ \A i \in 1 .. n : ur[i] = tr[i + 1] /\ ur[i - 1] = tr[i]
    BY <1>1, <1>2
  <1> HIDE DEF ur
  <1>4. \A i \in 1 .. n : Effect(s[i], ur[i - 1], ur[i])
    <2> SUFFICES ASSUME NEW i \in 1 .. n
                 PROVE  Effect(s[i], ur[i - 1], ur[i])
      OBVIOUS
    <2>1. i + 1 \in 1 .. n + 1 /\ (i + 1) - 1 = i /\ u[i + 1] = s[i]
      BY <1>1
    <2>2. Effect(u[i + 1], tr[(i + 1) - 1], tr[i + 1])
      BY <1>2, <2>1
    <2> QED BY <1>3, <2>1, <2>2
  <1>5. Runs(s, tr[1], C)
    BY <1>3, <1>4, Zenon DEF Runs, n
  <1>6. tr[1] \in Config /\ Effect(c, A, tr[1])
    <2>1. 1 \in 1 .. n + 1 /\ 1 - 1 = 0
      BY <1>1
    <2>2. Effect(u[1], tr[1 - 1], tr[1])
      BY <1>2, <2>1
    <2> QED BY <1>1, <1>2, <2>1, <2>2, SMTT(30)
  <1> QED BY <1>5, <1>6

-----------------------------------------------------------------------------
(* What a handler inserts, statement by statement.                         *)

(* Inserted without its CHOOSE: f is the first return or abort.            *)
LEMMA InsertedUntil ==
  ASSUME NEW s \in Seq(Statement), NEW f \in DOMAIN s, Stop(s[f]),
         \A j \in DOMAIN s : j < f => ~Stop(s[j])
  PROVE  Inserted(s) = IF s[f].op = "abort" THEN <<Abort>> ELSE SubSeq(s, 1, f - 1)
  <1> DEFINE stops == {i \in DOMAIN s : s[i].op \in {"return", "abort"}}
             first == CHOOSE i \in stops : \A j \in stops : i <= j
  <1>1. Len(s) \in Nat /\ DOMAIN s = 1 .. Len(s)
    OBVIOUS
  <1>2. f \in stops /\ \A j \in stops : f <= j
    <2> SUFFICES ASSUME NEW j \in stops PROVE f <= j
      BY DEF Stop
    <2>1. ~(j < f)
      BY DEF Stop
    <2> QED BY <1>1, <2>1
  <1>3. first \in stops /\ \A j \in stops : first <= j
    BY <1>2, Zenon
  <1>4. first = f
    <2>1. first <= f /\ f <= first
      BY <1>2, <1>3
    <2>2. first \in Nat /\ f \in Nat
      BY <1>1, <1>3
    <2> HIDE DEF first
    <2> QED BY <2>1, <2>2
  <1>5. Inserted(s) = CASE stops = {} -> s
                        [] stops # {} /\ s[first].op = "abort" -> <<Abort>>
                        [] OTHER -> SubSeq(s, 1, first - 1)
    BY Zenon DEF Inserted
  <1> HIDE DEF first, stops
  <1> QED BY <1>2, <1>4, <1>5

(* A handler that neither returns nor aborts inserts all its calls.        *)
LEMMA InsertedAll ==
  ASSUME NEW s \in Seq(Statement), \A j \in DOMAIN s : ~Stop(s[j])
  PROVE  Inserted(s) = s
  <1> DEFINE stops == {i \in DOMAIN s : s[i].op \in {"return", "abort"}}
  <1>1. stops = {}
    BY DEF Stop
  <1> QED BY <1>1, Zenon DEF Inserted

(* A list of statements with a stop has a first one.                       *)
LEMMA FirstStop ==
  ASSUME NEW s \in Seq(Statement), \E j \in DOMAIN s : Stop(s[j])
  PROVE  \E f \in DOMAIN s : Stop(s[f]) /\ \A j \in DOMAIN s : j < f => ~Stop(s[j])
  <1> DEFINE S == {j \in DOMAIN s : Stop(s[j])}
  <1>1. S \in SUBSET Nat /\ S # {} /\ DOMAIN s \subseteq Nat
    OBVIOUS
  <1>2. PICK f \in S : \A j \in S : f <= j
    BY <1>1, SmallestStop
  <1> QED BY <1>1, <1>2

(* Calls are no stops, the other statements are.                           *)
LEMMA StatementKinds ==
  ASSUME NEW c \in Statement
  PROVE  /\ c = Return => Stop(c) /\ c.op = "return"
         /\ c = Abort => Stop(c) /\ c.op = "abort"
         /\ c \in Call <=> ~Stop(c)
         /\ c \in Call => c # Return /\ c # Abort
         /\ c \in Call \/ c = Return \/ c = Abort
  <1>1. c \in Call => c.op \notin {"return", "abort"}
    BY DEF Call
  <1>2. Return.op = "return" /\ Abort.op = "abort"
    BY DEF Return, Abort
  <1> QED BY <1>1, <1>2 DEF Statement, Stop

(* A list of calls holds no abort.                                         *)
LEMMA NoAbort ==
  ASSUME NEW s \in Seq(Call)
  PROVE  s # <<Abort>>
  <1>1. Abort \notin Call
    BY DEF Call, Abort
  <1> QED BY <1>1

(* The first statement of a list.                                          *)
LEMMA InsertedFirst ==
  ASSUME NEW s \in Seq(Statement), NEW c \in Statement
  PROVE  /\ c = Return => Inserted(<<c>> \o s) = <<>>
         /\ c = Abort => Inserted(<<c>> \o s) = <<Abort>>
         /\ c \in Call /\ Inserted(<<c>> \o s) # <<Abort>> =>
              /\ Inserted(s) # <<Abort>> /\ Inserted(s) \in Seq(Call)
              /\ Inserted(<<c>> \o s) = <<c>> \o Inserted(s)
  <1> DEFINE u == <<c>> \o s
             n == Len(s)
  <1>1. /\ u \in Seq(Statement) /\ n \in Nat /\ Len(u) = n + 1
        /\ DOMAIN u = 1 .. n + 1 /\ DOMAIN s = 1 .. n
        /\ u[1] = c /\ \A i \in 1 .. n : u[i + 1] = s[i]
    OBVIOUS
  <1>2. CASE c \notin Call
    <2>1. Stop(u[1]) /\ \A j \in DOMAIN u : j < 1 => ~Stop(u[j])
      BY <1>1, <1>2, StatementKinds
    <2>2. 1 \in DOMAIN u /\ SubSeq(u, 1, 1 - 1) = <<>>
      BY <1>1
    <2>3. Inserted(u) = IF u[1].op = "abort" THEN <<Abort>> ELSE SubSeq(u, 1, 1 - 1)
      BY <1>1, <2>1, <2>2, InsertedUntil
    <2> HIDE DEF u
    <2> QED BY <1>1, <1>2, <2>2, <2>3, StatementKinds DEF u
  <1>3. CASE c \in Call /\ \A j \in DOMAIN s : ~Stop(s[j])
    <2>1. Inserted(s) = s
      BY <1>3, InsertedAll
    <2>2. \A j \in DOMAIN u : ~Stop(u[j])
      <3> SUFFICES ASSUME NEW j \in DOMAIN u PROVE ~Stop(u[j])
        OBVIOUS
      <3>1. CASE j = 1
        BY <1>1, <1>3, <3>1, StatementKinds
      <3>2. CASE j # 1
        <4>1. j - 1 \in 1 .. n /\ (j - 1) + 1 = j
          BY <1>1, <3>2
        <4>2. u[j] = s[j - 1]
          BY <1>1, <4>1
        <4> QED BY <1>1, <1>3, <4>1, <4>2
      <3> QED BY <3>1, <3>2
    <2>3. Inserted(u) = u
      BY <1>1, <2>2, InsertedAll
    <2>4. \A i \in 1 .. n : s[i] \in Call
      BY <1>1, <1>3, StatementKinds
    <2>5. s \in Seq(Call)
      BY <1>1, <2>4
    <2>7. s # <<Abort>>
      BY <2>5, NoAbort
    <2> QED BY <1>3, <2>1, <2>3, <2>5, <2>7, StatementKinds
  <1>4. CASE c \in Call /\ \E j \in DOMAIN s : Stop(s[j])
    <2>1. PICK f \in DOMAIN s : Stop(s[f]) /\ \A j \in DOMAIN s : j < f => ~Stop(s[j])
      BY <1>4, FirstStop, Zenon
    <2>2. f \in 1 .. n /\ f + 1 \in DOMAIN u /\ u[f + 1] = s[f] /\ (f + 1) - 1 = f
      BY <1>1
    <2>3. \A j \in DOMAIN u : j < f + 1 => ~Stop(u[j])
      <3> SUFFICES ASSUME NEW j \in DOMAIN u, j < f + 1 PROVE ~Stop(u[j])
        OBVIOUS
      <3>1. CASE j = 1
        BY <1>1, <1>4, <3>1, StatementKinds
      <3>2. CASE j # 1
        <4>1. j - 1 \in 1 .. n /\ (j - 1) + 1 = j /\ j - 1 < f
          BY <1>1, <2>2, <3>2
        <4>2. u[j] = s[j - 1]
          BY <1>1, <4>1
        <4> QED BY <1>1, <2>1, <4>1, <4>2
      <3> QED BY <3>1, <3>2
    <2>4. Inserted(u) = IF s[f].op = "abort" THEN <<Abort>> ELSE SubSeq(u, 1, f)
      <3>1. Inserted(u) = IF u[f + 1].op = "abort" THEN <<Abort>>
                                                   ELSE SubSeq(u, 1, (f + 1) - 1)
        BY <1>1, <2>1, <2>2, <2>3, InsertedUntil
      <3> QED BY <2>2, <3>1
    <2>5. Inserted(s) = IF s[f].op = "abort" THEN <<Abort>> ELSE SubSeq(s, 1, f - 1)
      BY <2>1, InsertedUntil
    <2>6. SubSeq(u, 1, f) = <<c>> \o SubSeq(s, 1, f - 1)
      <3> DEFINE a == SubSeq(u, 1, f)
                 b == SubSeq(s, 1, f - 1)
      <3>1. /\ Len(a) = f /\ \A i \in 1 .. f : a[i] = u[i]
            /\ a \in Seq(Statement) /\ f \in Nat
        BY <1>1, <2>2
      <3>2. /\ Len(b) = f - 1 /\ \A i \in 1 .. f - 1 : b[i] = s[i]
            /\ b \in Seq(Statement)
        BY <1>1, <2>2
      <3> HIDE DEF a, b
      <3>3. /\ <<c>> \o b \in Seq(Statement) /\ Len(<<c>> \o b) = f /\ (<<c>> \o b)[1] = c
            /\ \A i \in 1 .. f - 1 : (<<c>> \o b)[i + 1] = s[i]
        BY <3>1, <3>2
      <3>4. ASSUME NEW i \in 1 .. f PROVE a[i] = (<<c>> \o b)[i]
        <4>1. CASE i = 1
          BY <1>1, <3>1, <3>3, <4>1
        <4>2. CASE i # 1
          <5>1. i - 1 \in 1 .. f - 1 /\ (i - 1) + 1 = i /\ i - 1 \in 1 .. n
            BY <1>1, <2>2, <4>2
          <5>2. a[i] = u[i] /\ u[(i - 1) + 1] = s[i - 1]
                /\ (<<c>> \o b)[(i - 1) + 1] = s[i - 1]
            BY <1>1, <3>1, <3>3, <5>1
          <5> QED BY <5>1, <5>2
        <4> QED BY <4>1, <4>2
      <3>5. a = <<c>> \o b
        BY <3>1, <3>3, <3>4
      <3> QED BY <3>5 DEF a, b
    <2>7. \A j \in 1 .. f - 1 : s[j] \in Call
      BY <1>1, <2>1, <2>2, StatementKinds
    <2>8. SubSeq(s, 1, f - 1) \in Seq(Call)
      <3>1. SubSeq(s, 1, f - 1) = [j \in 1 .. f - 1 |-> s[j]]
        BY <1>1, <2>2
      <3>2. f - 1 \in Nat
        BY <2>2
      <3> QED BY <2>7, <3>1, <3>2
    <2>10. SubSeq(s, 1, f - 1) # <<Abort>>
      BY <2>8, NoAbort
    <2> HIDE DEF u
    <2> QED BY <1>4, <2>4, <2>5, <2>6, <2>8, <2>10, StatementKinds DEF u
  <1> QED BY <1>2, <1>3, <1>4

-----------------------------------------------------------------------------
(* Statements s take A to C, and return early iff U.                       *)
Yields(s, U, A, C) ==
  /\ s \in Seq(Statement) /\ Inserted(s) # <<Abort>>
  /\ Returns(s) <=> U
  /\ Runs(Inserted(s), A, C)

(* No statement changes nothing.                                           *)
LEMMA YieldsNone ==
  ASSUME NEW U, NEW A \in Config, NEW C, Yields(<<>>, U, A, C)
  PROVE  C = A /\ ~U
  <1>1. Inserted(<<>>) = <<>>
    <2>1. DOMAIN <<>> = {} /\ <<>> \in Seq(Statement)
      OBVIOUS
    <2> QED BY <2>1, InsertedAll, Zenon
  <1>2. ~Returns(<<>>)
    BY DEF Returns
  <1> QED BY <1>1, <1>2, RunsNone DEF Yields

(* The first statement runs first; a return is the last one.               *)
LEMMA YieldsFirst ==
  ASSUME NEW s \in Seq(Statement), NEW c \in Statement, NEW U \in BOOLEAN,
         NEW A \in Config, NEW C, Yields(<<c>> \o s, U, A, C)
  PROVE  /\ c # Abort
         /\ c = Return => U /\ C = A
         /\ c \in Call => \E B \in Config : Effect(c, A, B) /\ Yields(s, U, B, C)
  <1> DEFINE u == <<c>> \o s
  <1>1. c # Abort
    BY InsertedFirst DEF Yields
  <1>2. ASSUME c = Return PROVE U /\ C = A
    <2>1. Inserted(u) = <<>>
      BY <1>2, InsertedFirst
    <2>2. 1 \in DOMAIN u /\ u[1] = c
      OBVIOUS
    <2>3. Returns(u)
      BY <1>2, <2>2, Zenon DEF Returns
    <2> HIDE DEF u
    <2>4. Yields(u, U, A, C)
      BY DEF u
    <2> QED BY <2>1, <2>3, <2>4, RunsNone DEF Yields
  <1>3. ASSUME c \in Call
        PROVE  \E B \in Config : Effect(c, A, B) /\ Yields(s, U, B, C)
    <2>1. /\ Inserted(s) # <<Abort>> /\ Inserted(s) \in Seq(Call)
          /\ Inserted(u) = <<c>> \o Inserted(s)
      BY <1>3, InsertedFirst DEF Yields
    <2>2. PICK B \in Config : Effect(c, A, B) /\ Runs(Inserted(s), B, C)
      BY <1>3, <2>1, RunsFirst DEF Yields
    <2>3. Returns(u) <=> Returns(s)
      <3>1. /\ Len(s) \in Nat /\ DOMAIN s = 1 .. Len(s) /\ DOMAIN u = 1 .. Len(s) + 1
            /\ u[1] = c /\ \A i \in 1 .. Len(s) : u[i + 1] = s[i]
        OBVIOUS
      <3>2. c # Return
        BY <1>3, StatementKinds
      <3> HIDE DEF u
      <3>3. ASSUME NEW i \in DOMAIN s, s[i] = Return PROVE Returns(u)
        <4>1. i + 1 \in DOMAIN u /\ u[i + 1] = s[i]
          BY <3>1
        <4> QED BY <3>3, <4>1, Zenon DEF Returns
      <3>4. ASSUME NEW i \in DOMAIN u, u[i] = Return PROVE Returns(s)
        <4>1. i # 1
          BY <3>1, <3>2, <3>4
        <4>2. i - 1 \in DOMAIN s /\ (i - 1) + 1 = i
          BY <3>1, <4>1
        <4>3. s[i - 1] = Return
          BY <3>1, <3>4, <4>2
        <4> QED BY <4>2, <4>3, Zenon DEF Returns
      <3> QED BY <3>3, <3>4 DEF Returns
    <2> HIDE DEF u
    <2>4. Yields(u, U, A, C)
      BY DEF u
    <2> QED BY <2>1, <2>2, <2>3, <2>4 DEF Yields
  <1> QED BY <1>1, <1>2, <1>3

(* The statements handlers are made of.                                    *)
LEMMA BlockTypes ==
  ASSUME NEW ins \in Instruction
  PROVE  /\ <<Abort>> \in Seq(Statement) /\ <<>> \in Seq(Statement)
         /\ \A r \in REG, s \in Scratch : LoadReg(r, s) \in Seq(Statement)
         /\ \A m \in SUBSET ADDRINT, s \in Scratch : LoadMem(m, s) \in Seq(Statement)
         /\ \A i, kinds : \A s \in Scratch :
              LoadOperand(ins, i, s, kinds) \in Seq(Statement)
         /\ \A r \in REG, from \in SUBSET Scratch : SetReg(r, from) \in Seq(Statement)
         /\ \A m \in SUBSET ADDRINT, from \in SUBSET Scratch :
              SetMem(m, from) \in Seq(Statement)
         /\ \A i : \A from \in SUBSET Scratch :
              SetOperand(ins, i, from) \in Seq(Statement)
         /\ \A from \in SUBSET Scratch : SetFlags(from) \in Seq(Statement)
         /\ \A r \in REG : ClearReg(r) \in Seq(Statement)
         /\ \A m \in SUBSET ADDRINT : ClearMem(m) \in Seq(Statement)
  <1>1. \A A, B, s : Feed(A, s, B) => s \in Seq(Statement)
    BY DEF Feed
  <1>2. Feed({}, <<Abort>>, {}) /\ Feed({}, <<>>, {})
    BY FeedStop, FeedNothing
  <1>3. \A r \in REG, s \in Scratch : Feed({}, LoadReg(r, s), {})
    BY FeedLoad, Zenon
  <1>4. \A m \in SUBSET ADDRINT, s \in Scratch : Feed({}, LoadMem(m, s), {})
    <2> SUFFICES ASSUME NEW m \in SUBSET ADDRINT, NEW s \in Scratch
                 PROVE  Feed({}, LoadMem(m, s), {})
      OBVIOUS
    <2>1. PICK r : r \in REG
      BY RegAssumption DEF NamedRegisters
    <2> QED BY <2>1, FeedLoad
  <1>5. \A i, kinds : \A s \in Scratch : Feed({}, LoadOperand(ins, i, s, kinds), {})
    BY FeedOperand
  <1>6. \A r \in REG, from \in SUBSET Scratch : Feed(Scratch, SetReg(r, from), {})
    BY FeedStore, Zenon
  <1>7. \A m \in SUBSET ADDRINT, from \in SUBSET Scratch : Feed(Scratch, SetMem(m, from), {})
    <2> SUFFICES ASSUME NEW m \in SUBSET ADDRINT, NEW from \in SUBSET Scratch
                 PROVE  Feed(Scratch, SetMem(m, from), {})
      OBVIOUS
    <2>1. PICK r : r \in REG
      BY RegAssumption DEF NamedRegisters
    <2> QED BY <2>1, FeedStore
  <1>8. \A i : \A from \in SUBSET Scratch :
          Feed(Scratch, SetOperand(ins, i, from), {}) /\ Feed(Scratch, SetFlags(from), {})
    BY StoreOperand
  <1>9. \A r \in REG : Feed({}, ClearReg(r), {})
    BY FeedClear
  <1>10. \A m \in SUBSET ADDRINT : Feed({}, ClearMem(m), {})
    <2> SUFFICES ASSUME NEW m \in SUBSET ADDRINT PROVE Feed({}, ClearMem(m), {})
      OBVIOUS
    <2>1. PICK r : r \in REG
      BY RegAssumption DEF NamedRegisters
    <2> QED BY <2>1, FeedClear
  <1> QED BY <1>1, <1>2, <1>3, <1>4, <1>5, <1>6, <1>7, <1>8, <1>9, <1>10

(* Lists of statements are read from the left.                             *)
LEMMA Regroup ==
  ASSUME NEW a \in Seq(Statement), NEW b \in Seq(Statement)
  PROVE  a \o b \in Seq(Statement) /\ a \o <<>> \in Seq(Statement)
  OBVIOUS

(* The statements of a handler, grouped to be taken one by one.            *)
LEMMA YieldsChain2 ==
  ASSUME NEW a \in Seq(Statement), NEW b \in Seq(Statement), NEW U, NEW A, NEW C,
         Yields(a \o b, U, A, C)
  PROVE  Yields(a \o (b \o <<>>), U, A, C)
  <1>1. b \o <<>> = b
    OBVIOUS
  <1> QED BY <1>1, Zenon

(* The same for three blocks.                                              *)
LEMMA YieldsChain3 ==
  ASSUME NEW a \in Seq(Statement), NEW b \in Seq(Statement),
         NEW c \in Seq(Statement), NEW U, NEW A, NEW C,
         Yields(a \o b \o c, U, A, C)
  PROVE  Yields(a \o (b \o (c \o <<>>)), U, A, C)
  <1> DEFINE h == a \o b
             g == c \o <<>>
  <1>1. h \in Seq(Statement)
    OBVIOUS
  <1>2. g \in Seq(Statement)
    <2> QED BY Regroup
  <1>3. Yields(h \o g, U, A, C)
    <2> HIDE DEF h
    <2>1. Yields(h \o c, U, A, C)
      BY DEF h
    <2> QED BY <1>1, <2>1, YieldsChain2, Zenon
  <1>4. h \o g = a \o (b \o g)
    <2> HIDE DEF g
    <2> QED BY <1>2, SMTT(60)
  <1> QED BY <1>3, <1>4, Zenon

(* The same for four blocks.                                               *)
LEMMA YieldsChain4 ==
  ASSUME NEW a \in Seq(Statement), NEW b \in Seq(Statement),
         NEW c \in Seq(Statement), NEW d \in Seq(Statement), NEW U, NEW A, NEW C,
         Yields(a \o b \o c \o d, U, A, C)
  PROVE  Yields(a \o (b \o (c \o (d \o <<>>))), U, A, C)
  <1> DEFINE h == a \o b
             g == c \o (d \o <<>>)
  <1>1. h \in Seq(Statement)
    OBVIOUS
  <1>2. g \in Seq(Statement)
    <2>1. d \o <<>> \in Seq(Statement)
      BY Regroup
    <2> QED BY <2>1, Regroup
  <1>3. Yields(h \o g, U, A, C)
    <2> HIDE DEF h
    <2>1. Yields(h \o c \o d, U, A, C)
      BY DEF h
    <2> QED BY <1>1, <2>1, YieldsChain3, Zenon
  <1>4. h \o g = a \o (b \o g)
    <2> HIDE DEF g
    <2> QED BY <1>2, SMTT(60)
  <1> QED BY <1>3, <1>4, Zenon

(* The same for five blocks.                                               *)
LEMMA YieldsChain5 ==
  ASSUME NEW a \in Seq(Statement), NEW b \in Seq(Statement),
         NEW c \in Seq(Statement), NEW d \in Seq(Statement),
         NEW e \in Seq(Statement), NEW U, NEW A, NEW C,
         Yields(a \o b \o c \o d \o e, U, A, C)
  PROVE  Yields(a \o (b \o (c \o (d \o (e \o <<>>)))), U, A, C)
  <1> DEFINE h == a \o b
             g == c \o (d \o (e \o <<>>))
  <1>1. h \in Seq(Statement)
    OBVIOUS
  <1>2. g \in Seq(Statement)
    <2>1. e \o <<>> \in Seq(Statement)
      BY Regroup
    <2>2. d \o (e \o <<>>) \in Seq(Statement)
      BY <2>1, Regroup
    <2> QED BY <2>2, Regroup
  <1>3. Yields(h \o g, U, A, C)
    <2> HIDE DEF h
    <2>1. Yields(h \o c \o d \o e, U, A, C)
      BY DEF h
    <2> QED BY <1>1, <2>1, YieldsChain4, Zenon
  <1>4. h \o g = a \o (b \o g)
    <2> HIDE DEF g
    <2> QED BY <1>2, SMTT(60)
  <1> QED BY <1>3, <1>4, Zenon

(* The same for six blocks.                                                *)
LEMMA YieldsChain6 ==
  ASSUME NEW a \in Seq(Statement), NEW b \in Seq(Statement),
         NEW c \in Seq(Statement), NEW d \in Seq(Statement),
         NEW e \in Seq(Statement), NEW f \in Seq(Statement), NEW U, NEW A, NEW C,
         Yields(a \o b \o c \o d \o e \o f, U, A, C)
  PROVE  Yields(a \o (b \o (c \o (d \o (e \o (f \o <<>>))))), U, A, C)
  <1> DEFINE h == a \o b
             g == c \o (d \o (e \o (f \o <<>>)))
  <1>1. h \in Seq(Statement)
    OBVIOUS
  <1>2. g \in Seq(Statement)
    <2>1. f \o <<>> \in Seq(Statement)
      BY Regroup
    <2>2. e \o (f \o <<>>) \in Seq(Statement)
      BY <2>1, Regroup
    <2>3. d \o (e \o (f \o <<>>)) \in Seq(Statement)
      BY <2>2, Regroup
    <2> QED BY <2>3, Regroup
  <1>3. Yields(h \o g, U, A, C)
    <2> HIDE DEF h
    <2>1. Yields(h \o c \o d \o e \o f, U, A, C)
      BY DEF h
    <2> QED BY <1>1, <2>1, YieldsChain5, Zenon
  <1>4. h \o g = a \o (b \o g)
    <2> HIDE DEF g
    <2> QED BY <1>2, SMTT(60)
  <1> QED BY <1>3, <1>4, Zenon

-----------------------------------------------------------------------------
(* What a handler has done so far.                                         *)

(* Marks of locations X of A were loaded into s, nothing else changed: L   *)
(* is the configuration before, B the one after.                           *)
Same(A, L) == L.loc = A.loc /\ L.control = A.control

Fetched(A, L, B, s, X) ==
  /\ Same(A, B) /\ B.scratch[s] = Marked(A, X)
  /\ \A x \in Scratch \ {s} : B.scratch[x] = L.scratch[x]

(* The flows F from A's marks have been made, and nothing else.            *)
FlowsTo(F, A, B) ==
  \A l \in Location :
    IF \E f \in F : l \in Abstract!Targets(f)
    THEN \E f \in F : /\ l \in Abstract!Targets(f)
                      /\ B.loc[l] \in IF f.clear THEN {{}, Open(A)}
                                      ELSE {Marked(A, f.from) \cup Open(A)}
    ELSE B.loc[l] = A.loc[l]

Stored(F, A, L, B) ==
  B.scratch = L.scratch /\ B.control = A.control /\ FlowsTo(F, A, B)

(* The scratch sets from hold together the marks of X.                     *)
Gathered(A, L, from, X) == (UNION {L.scratch[s] : s \in from}) = Marked(A, X)

Goal(U, F, A, C) == C.control = A.control /\ FlowsTo(IF U THEN {} ELSE F, A, C)

Assign(to, from) == Abstract!Assign(to, from)
Clear(to) == Abstract!Clear(to)

(* Locations as TaintFlow writes them.                                     *)
LEMMA SameLocations ==
  ASSUME NEW r, NEW S
  PROVE  Abstract!InReg(r) = InReg(r) /\ Abstract!InMem(S) = InMem(S)
  BY DEF Abstract!InReg, Abstract!InMem, InReg, InMem

(* Where a flow goes.                                                      *)
LEMMA FlowFields ==
  ASSUME NEW to, NEW from
  PROVE  /\ Assign(to, from).from = from /\ Assign(to, from).to = to
         /\ ~Assign(to, from).clear /\ Clear(to).clear /\ Clear(to).to = to
         /\ Abstract!Targets(Clear(to)) = to
  BY DEF Assign, Clear, Abstract!Assign, Abstract!Clear, Abstract!Targets

(* SetTaintForRegister reaches what TaintFlow says it does.                *)
LEMMA TargetsOfRegister ==
  ASSUME NEW r, NEW from
  PROVE  Abstract!Targets(Assign(InReg(r), from)) = Reached(r)
  <1>1. Abstract!Parts(r) = SubRegisters(r)
    BY DEF Abstract!Parts, SubRegisters
  <1>2. r \in {"ESP", "EBP"} => SubRegisters(r) = {}
    BY DEF SubRegisters
  <1> DEFINE to == InReg(r)
             parts == UNION {Abstract!InReg(p) :
                               p \in UNION {Abstract!Parts(l[2]) : l \in {k \in to : k[1] = "reg"}}}
  <1>3. Abstract!Targets(Assign(to, from)) =
          {l \in to : l \notin Abstract!InReg("ESP") \cup Abstract!InReg("EBP")} \cup parts
    BY FlowFields DEF Abstract!Targets
  <1>4. UNION {Abstract!Parts(l[2]) : l \in {k \in to : k[1] = "reg"}} = Abstract!Parts(r)
    <2>1. {k \in to : k[1] = "reg"} = {<<"reg", r>>}
      BY DEF InReg
    <2>2. {Abstract!Parts(l[2]) : l \in {<<"reg", r>>}} = {Abstract!Parts(r)}
      OBVIOUS
    <2> QED BY <2>1, <2>2
  <1>5. parts = {"reg"} \X SubRegisters(r)
    BY <1>1, <1>4 DEF Abstract!InReg
  <1>6. {l \in to : l \notin Abstract!InReg("ESP") \cup Abstract!InReg("EBP")} =
          IF r \in {"ESP", "EBP"} THEN {} ELSE to
    BY DEF Abstract!InReg, InReg
  <1> HIDE DEF parts
  <1> QED BY <1>2, <1>3, <1>5, <1>6 DEF InReg, Reached

(* A flow to memory reaches these bytes.                                   *)
LEMMA TargetsOfMemory ==
  ASSUME NEW S, NEW from
  PROVE  Abstract!Targets(Assign(InMem(S), from)) = InMem(S)
  BY FlowFields DEF Abstract!Targets, Abstract!InReg, InMem

(* A flow to two sets of locations reaches both.                           *)
LEMMA TargetsOfUnion ==
  ASSUME NEW T1, NEW T2, NEW from
  PROVE  Abstract!Targets(Assign(T1 \cup T2, from)) =
           Abstract!Targets(Assign(T1, from)) \cup Abstract!Targets(Assign(T2, from))
  BY FlowFields DEF Abstract!Targets

(* Two flows from the same locations are one.                              *)
LEMMA FlowJoin ==
  ASSUME NEW F, NEW T1, NEW T2, NEW X, NEW A, NEW B,
         FlowsTo(F \cup {Assign(T1, X)} \cup {Assign(T2, X)}, A, B)
  PROVE  FlowsTo(F \cup {Assign(T1 \cup T2, X)}, A, B)
  <1> DEFINE a1 == Assign(T1, X)
             a2 == Assign(T2, X)
             b  == Assign(T1 \cup T2, X)
  <1>1. /\ Abstract!Targets(b) = Abstract!Targets(a1) \cup Abstract!Targets(a2)
        /\ a1.from = X /\ a2.from = X /\ b.from = X /\ ~a1.clear /\ ~a2.clear /\ ~b.clear
    BY FlowFields, TargetsOfUnion
  <1> HIDE DEF a1, a2, b
  <1>2. FlowsTo(F \cup {a1} \cup {a2}, A, B)
    BY DEF a1, a2
  <1>3. FlowsTo(F \cup {b}, A, B)
    <2> SUFFICES ASSUME NEW l \in Location
                 PROVE
           IF \E f \in F \cup {b} : l \in Abstract!Targets(f)
           THEN \E f \in F \cup {b} :
                  /\ l \in Abstract!Targets(f)
                  /\ B.loc[l] \in IF f.clear THEN {{}, Open(A)}
                                  ELSE {Marked(A, f.from) \cup Open(A)}
           ELSE B.loc[l] = A.loc[l]
      BY DEF FlowsTo
    <2> QED BY <1>1, <1>2 DEF FlowsTo
  <1> QED BY <1>3 DEF b

(* Marks of several locations.                                             *)
LEMMA MarkedUnion ==
  ASSUME NEW A, NEW X, NEW Y
  PROVE  Marked(A, X \cup Y) = Marked(A, X) \cup Marked(A, Y) /\ Marked(A, {}) = {}
  BY DEF Marked

(* An instruction that stores nothing.                                     *)
LEMMA StoredNone ==
  ASSUME NEW A, NEW L, Same(A, L)
  PROVE  Stored({}, A, L, L)
  BY DEF Stored, FlowsTo, Same

(* One store of gathered marks, one clear.                                 *)
LEMMA StoredWrite ==
  ASSUME NEW F, NEW A, NEW L, NEW B, NEW C, NEW to, NEW X, NEW from,
         Stored(F, A, L, B), Gathered(A, L, from, X),
         Wrote(B, C, Abstract!Targets(Assign(to, X)), Union(B, from))
  PROVE  Stored(F \cup {Assign(to, X)}, A, L, C)
  <1>1. Union(B, from) = Marked(A, X) \cup Open(A)
    BY DEF Union, Stored, Gathered, Open
  <1>2. C.scratch = L.scratch /\ C.control = A.control
    BY DEF Wrote, Stored
  <1>3. FlowsTo(F \cup {Assign(to, X)}, A, C)
    <2> SUFFICES ASSUME NEW l \in Location
                 PROVE
           IF \E f \in F \cup {Assign(to, X)} : l \in Abstract!Targets(f)
           THEN \E f \in F \cup {Assign(to, X)} :
                  /\ l \in Abstract!Targets(f)
                  /\ C.loc[l] \in IF f.clear THEN {{}, Open(A)}
                                  ELSE {Marked(A, f.from) \cup Open(A)}
           ELSE C.loc[l] = A.loc[l]
      BY DEF FlowsTo
    <2>1. CASE l \in Abstract!Targets(Assign(to, X))
      <3>1. C.loc[l] = Marked(A, X) \cup Open(A)
        BY <1>1, <2>1 DEF Wrote
      <3> HIDE DEF Assign
      <3> QED BY <2>1, <3>1, FlowFields
    <2>2. CASE l \notin Abstract!Targets(Assign(to, X))
      <3>1. C.loc[l] = B.loc[l]
        BY <2>2 DEF Wrote
      <3> QED BY <2>2, <3>1 DEF Stored, FlowsTo
    <2> QED BY <2>1, <2>2
  <1> QED BY <1>2, <1>3 DEF Stored

(* One clear after the stores made so far.                                 *)
LEMMA StoredClear ==
  ASSUME NEW F, NEW A, NEW L, NEW B, NEW C, NEW to,
         Stored(F, A, L, B), Cleared(B, C, to)
  PROVE  Stored(F \cup {Clear(to)}, A, L, C)
  <1>1. Open(B) = Open(A)
    BY DEF Stored, Open
  <1>2. C.scratch = L.scratch /\ C.control = A.control
    BY DEF Cleared, Stored
  <1>3. FlowsTo(F \cup {Clear(to)}, A, C)
    <2> SUFFICES ASSUME NEW l \in Location
                 PROVE
           IF \E f \in F \cup {Clear(to)} : l \in Abstract!Targets(f)
           THEN \E f \in F \cup {Clear(to)} :
                  /\ l \in Abstract!Targets(f)
                  /\ C.loc[l] \in IF f.clear THEN {{}, Open(A)}
                                  ELSE {Marked(A, f.from) \cup Open(A)}
           ELSE C.loc[l] = A.loc[l]
      BY DEF FlowsTo
    <2>1. CASE l \in to
      <3>1. C.loc[l] \in {{}, Open(A)}
        BY <1>1, <2>1 DEF Cleared
      <3>2. Clear(to).clear /\ Abstract!Targets(Clear(to)) = to
        BY FlowFields
      <3> HIDE DEF Clear
      <3> QED BY <2>1, <3>1, <3>2
    <2>2. CASE l \notin to
      <3>1. C.loc[l] = B.loc[l] /\ l \notin Abstract!Targets(Clear(to))
        BY <2>2, FlowFields DEF Cleared
      <3> QED BY <2>2, <3>1 DEF Stored, FlowsTo
    <2> QED BY <2>1, <2>2
  <1> QED BY <1>2, <1>3 DEF Stored
-----------------------------------------------------------------------------
(* One statement of a handler at a time.  Each lemma takes what follows it *)
(* as rest.                                                                *)

FetchedThen(A, L, s, X, rest, U, C) ==
  \E B \in Config : Fetched(A, L, B, s, X) /\ Yields(rest, U, B, C)

(* Marks of locations are loaded into a scratch set.                       *)
LEMMA FetchCall ==
  ASSUME NEW c \in Call, NEW s \in Scratch, NEW X, NEW rest \in Seq(Statement),
         NEW U \in BOOLEAN, NEW A \in Config, NEW L \in Config, NEW C, Same(A, L),
         \A B : Effect(c, L, B) => Loaded(L, B, s, Marked(L, X)),
         Yields(<<c>> \o rest, U, L, C)
  PROVE  FetchedThen(A, L, s, X, rest, U, C)
  <1>1. c \in Statement
    BY DEF Statement
  <1>2. PICK B \in Config : Effect(c, L, B) /\ Yields(rest, U, B, C)
    BY <1>1, YieldsFirst
  <1>3. Loaded(L, B, s, Marked(L, X))
    BY <1>2
  <1>4. Marked(L, X) = Marked(A, X)
    BY DEF Marked, Same
  <1>5. Fetched(A, L, B, s, X)
    BY <1>3, <1>4 DEF Fetched, Loaded, Same
  <1> QED BY <1>2, <1>5 DEF FetchedThen

(* The marks of a register are loaded.                                     *)
LEMMA FetchReg ==
  ASSUME NEW r \in REG, NEW s \in Scratch, NEW rest \in Seq(Statement),
         NEW U \in BOOLEAN, NEW A \in Config, NEW L \in Config, NEW C, Same(A, L),
         Yields(LoadReg(r, s) \o rest, U, L, C)
  PROVE  FetchedThen(A, L, s, InReg(r), rest, U, C)
  <1> DEFINE c == [op |-> "TaintForRegister", reg |-> r, set |-> s]
  <1>1. c \in Call /\ c.op = "TaintForRegister" /\ c.reg = r /\ c.set = s
    BY DEF Call
  <1>2. Yields(<<c>> \o rest, U, L, C)
    BY DEF LoadReg
  <1> HIDE DEF c
  <1>3. \A B : Effect(c, L, B) => Loaded(L, B, s, Marked(L, InReg(r)))
    BY <1>1 DEF Effect
  <1> QED BY <1>1, <1>2, <1>3, FetchCall

(* An immediate operand has no marks: the scratch set is cleared.          *)
LEMMA FetchNothing ==
  ASSUME NEW s \in Scratch, NEW rest \in Seq(Statement),
         NEW U \in BOOLEAN, NEW A \in Config, NEW L \in Config, NEW C, Same(A, L),
         Yields(ClearSet(s) \o rest, U, L, C)
  PROVE  FetchedThen(A, L, s, {}, rest, U, C)
  <1> DEFINE c == [op |-> "ClearTaintSet", set |-> s]
  <1>1. c \in Call /\ c.op = "ClearTaintSet" /\ c.set = s
    BY DEF Call
  <1>2. Yields(<<c>> \o rest, U, L, C)
    BY DEF ClearSet
  <1> HIDE DEF c
  <1>3. \A B : Effect(c, L, B) => Loaded(L, B, s, Marked(L, {}))
    BY <1>1, MarkedUnion DEF Effect
  <1> QED BY <1>1, <1>2, <1>3, FetchCall

(* A memory operand Pin knows no address of ends the handler.              *)
LEMMA FetchMem ==
  ASSUME NEW m \in SUBSET ADDRINT, NEW s \in Scratch, NEW rest \in Seq(Statement),
         NEW U \in BOOLEAN, NEW A \in Config, NEW L \in Config, NEW C, Same(A, L),
         Yields(LoadMem(m, s) \o rest, U, L, C)
  PROVE  \/ U /\ C = L
         \/ m # {} /\ FetchedThen(A, L, s, InMem(m), rest, U, C)
  <1>1. CASE m = {}
    <2>1. Yields(<<Return>> \o rest, U, L, C) /\ Return \in Statement
      BY <1>1 DEF LoadMem, Statement
    <2> QED BY <2>1, YieldsFirst
  <1>2. CASE m # {}
    <2> DEFINE c == [op |-> "TaintForMemory", mem |-> m, set |-> s]
    <2>1. c \in Call /\ c.op = "TaintForMemory" /\ c.mem = m /\ c.set = s
      BY DEF Call
    <2>2. Yields(<<c>> \o rest, U, L, C)
      BY <1>2 DEF LoadMem
    <2> HIDE DEF c
    <2>3. \A B : Effect(c, L, B) => Loaded(L, B, s, Marked(L, InMem(m)))
      BY <2>1 DEF Effect
    <2> QED BY <1>2, <2>1, <2>2, <2>3, FetchCall
  <1> QED BY <1>1, <1>2

(* An operand has the kind TaintFlow reads.                                *)
LEMMA ReadOperand ==
  ASSUME NEW ins \in Instruction, NEW i
  PROVE  /\ Kind(ins, i) = "reg" =>
              /\ Abstract!Read(ins, i) = InReg(INS_OperandReg(ins, i))
              /\ Abstract!Written(ins, i) = InReg(INS_OperandReg(ins, i))
         /\ Kind(ins, i) = "mem" =>
              /\ Abstract!Read(ins, i) = InMem(ins.read)
              /\ Abstract!Written(ins, i) = InMem(ins.write)
              /\ \E j \in DOMAIN ins.opnd : ins.opnd[j].kind = "mem"
         /\ Kind(ins, i) \notin {"reg", "mem"} => Abstract!Read(ins, i) = {}
         /\ Kind(ins, i) \in {"reg", "mem", "imm", "none"}
         /\ Abstract!OperandIs(ins, i, "reg") <=> Kind(ins, i) = "reg"
  <1>1. \A j \in DOMAIN ins.opnd : ins.opnd[j].kind \in {"reg", "mem", "imm"}
    <2> SUFFICES ASSUME NEW j \in DOMAIN ins.opnd
                 PROVE  ins.opnd[j].kind \in {"reg", "mem", "imm"}
      OBVIOUS
    <2>1. ins.opnd[j] \in Operand
      BY DEF Instruction
    <2> QED BY <2>1 DEF Operand
  <1>2. \A k : Abstract!OperandIs(ins, i, k) <=> i \in DOMAIN ins.opnd /\ ins.opnd[i].kind = k
    BY DEF Abstract!OperandIs
  <1>3. \A k \in {"reg", "mem", "imm"} : Abstract!OperandIs(ins, i, k) <=> Kind(ins, i) = k
    BY <1>1, <1>2 DEF Kind
  <1>4. Kind(ins, i) \in {"reg", "mem", "imm", "none"}
    BY <1>1 DEF Kind
  <1>5. Kind(ins, i) = "mem" => \E j \in DOMAIN ins.opnd : ins.opnd[j].kind = "mem"
    BY DEF Kind
  <1>6. Kind(ins, i) = "reg" => INS_OperandReg(ins, i) = ins.opnd[i].reg
    BY DEF INS_OperandReg
  <1>7. \A r, S : Abstract!InReg(r) = InReg(r) /\ Abstract!InMem(S) = InMem(S)
    BY SameLocations
  <1> QED
    BY <1>3, <1>4, <1>5, <1>6, <1>7 DEF Abstract!Read, Abstract!Written

(* The marks of operand i are loaded, or the handler ends.                 *)
LEMMA FetchOperand ==
  ASSUME NEW ins \in Instruction, NEW i, NEW kinds \in SUBSET RMI,
         NEW s \in Scratch, NEW rest \in Seq(Statement),
         NEW U \in BOOLEAN, NEW A \in Config, NEW L \in Config, NEW C, Same(A, L),
         Yields(LoadOperand(ins, i, s, kinds) \o rest, U, L, C)
  PROVE  /\ Kind(ins, i) \in kinds
         /\ \/ U /\ C = L
            \/ /\ Kind(ins, i) = "mem" => ins.read # {}
               /\ FetchedThen(A, L, s, Abstract!Read(ins, i), rest, U, C)
  <1>1. Kind(ins, i) \in kinds
    <2> SUFFICES ASSUME Kind(ins, i) \notin kinds PROVE FALSE
      OBVIOUS
    <2>1. Yields(<<Abort>> \o rest, U, L, C) /\ Abort \in Statement
      BY DEF LoadOperand, Statement
    <2> QED BY <2>1, YieldsFirst
  <1>2. CASE Kind(ins, i) = "reg"
    <2>1. LoadOperand(ins, i, s, kinds) = LoadReg(INS_OperandReg(ins, i), s)
      BY <1>1, <1>2 DEF LoadOperand
    <2> QED BY <1>1, <1>2, <2>1, FetchReg, ReadOperand, Facts
  <1>3. CASE Kind(ins, i) = "mem"
    <2>1. LoadOperand(ins, i, s, kinds) = LoadMem(ins.read, s)
      BY <1>1, <1>3 DEF LoadOperand
    <2> QED BY <1>1, <1>3, <2>1, FetchMem, ReadOperand, Facts
  <1>4. CASE Kind(ins, i) \notin {"reg", "mem"}
    <2>1. LoadOperand(ins, i, s, kinds) = ClearSet(s)
      BY <1>1, <1>4 DEF LoadOperand
    <2>2. Abstract!Read(ins, i) = {}
      BY <1>4, ReadOperand
    <2> QED BY <1>1, <1>4, <2>1, <2>2, FetchNothing
  <1> QED BY <1>2, <1>3, <1>4

(* What one, two or three scratch sets hold together.                      *)
LEMMA GatheredOne ==
  ASSUME NEW A, NEW L, NEW s, NEW X, L.scratch[s] = Marked(A, X)
  PROVE  Gathered(A, L, {s}, X)
  <1>1. UNION {L.scratch[x] : x \in {s}} = L.scratch[s]
    OBVIOUS
  <1> QED BY <1>1 DEF Gathered

(* Two scratch sets hold the marks of both sources.                        *)
LEMMA GatheredTwo ==
  ASSUME NEW A, NEW L, NEW s, NEW t, NEW X, NEW Y,
         L.scratch[s] = Marked(A, X), L.scratch[t] = Marked(A, Y)
  PROVE  Gathered(A, L, {s, t}, X \cup Y)
  <1>1. UNION {L.scratch[x] : x \in {s, t}} = L.scratch[s] \cup L.scratch[t]
    OBVIOUS
  <1> QED BY <1>1, MarkedUnion DEF Gathered

(* Three scratch sets hold the marks of all sources.                       *)
LEMMA GatheredThree ==
  ASSUME NEW A, NEW L, NEW s, NEW t, NEW u, NEW X, NEW Y, NEW Z,
         L.scratch[s] = Marked(A, X), L.scratch[t] = Marked(A, Y),
         L.scratch[u] = Marked(A, Z)
  PROVE  Gathered(A, L, {s, t, u}, X \cup Y \cup Z)
  <1>1. UNION {L.scratch[x] : x \in {s, t, u}}
          = L.scratch[s] \cup L.scratch[t] \cup L.scratch[u]
    OBVIOUS
  <1>2. Marked(A, X \cup Y \cup Z) = Marked(A, X) \cup Marked(A, Y) \cup Marked(A, Z)
    BY DEF Marked
  <1> QED BY <1>1, <1>2 DEF Gathered

StoredThen(F, A, L, rest, U, C) ==
  \E D \in Config : Stored(F, A, L, D) /\ Yields(rest, U, D, C)

(* Gathered marks are stored in a register.                                *)
LEMMA PutReg ==
  ASSUME NEW r \in REG, NEW from \in SUBSET Scratch, NEW rest \in Seq(Statement),
         NEW U \in BOOLEAN, NEW F, NEW A \in Config, NEW L \in Config,
         NEW B \in Config, NEW C, NEW X,
         Stored(F, A, L, B), Gathered(A, L, from, X),
         Yields(SetReg(r, from) \o rest, U, B, C)
  PROVE  StoredThen(F \cup {Assign(InReg(r), X)}, A, L, rest, U, C)
  <1> DEFINE c == [op |-> "SetTaintForRegister", reg |-> r, from |-> from]
  <1>1. c \in Call /\ c.op = "SetTaintForRegister" /\ c.reg = r /\ c.from = from
    BY DEF Call
  <1>2. Yields(<<c>> \o rest, U, B, C)
    BY DEF SetReg
  <1> HIDE DEF c
  <1>3. c \in Statement
    BY <1>1 DEF Statement
  <1>4. PICK D \in Config : Effect(c, B, D) /\ Yields(rest, U, D, C)
    BY <1>1, <1>2, <1>3, YieldsFirst
  <1>5. Wrote(B, D, Reached(r), Union(B, from))
    BY <1>1, <1>4 DEF Effect
  <1>6. Wrote(B, D, Abstract!Targets(Assign(InReg(r), X)), Union(B, from))
    BY <1>5, TargetsOfRegister
  <1> QED BY <1>4, <1>6, StoredWrite DEF StoredThen

(* In memory, unless Pin knows no address.                                 *)
LEMMA PutMem ==
  ASSUME NEW m \in SUBSET ADDRINT, NEW from \in SUBSET Scratch,
         NEW rest \in Seq(Statement),
         NEW U \in BOOLEAN, NEW F, NEW A \in Config, NEW L \in Config,
         NEW B \in Config, NEW C, NEW X,
         Stored(F, A, L, B), Gathered(A, L, from, X),
         Yields(SetMem(m, from) \o rest, U, B, C)
  PROVE  \/ m = {} /\ U /\ C = B
         \/ StoredThen(F \cup {Assign(InMem(m), X)}, A, L, rest, U, C)
  <1>1. CASE m = {}
    <2>1. Yields(<<Return>> \o rest, U, B, C) /\ Return \in Statement
      BY <1>1 DEF SetMem, Statement
    <2> QED BY <1>1, <2>1, YieldsFirst
  <1>2. CASE m # {}
    <2> DEFINE c == [op |-> "SetTaintForMemory", mem |-> m, from |-> from]
    <2>1. c \in Call /\ c.op = "SetTaintForMemory" /\ c.mem = m /\ c.from = from
      BY DEF Call
    <2>2. Yields(<<c>> \o rest, U, B, C)
      BY <1>2 DEF SetMem
    <2> HIDE DEF c
    <2>3. c \in Statement
      BY <2>1 DEF Statement
    <2>4. PICK D \in Config : Effect(c, B, D) /\ Yields(rest, U, D, C)
      BY <2>1, <2>2, <2>3, YieldsFirst
    <2>5. Wrote(B, D, InMem(m), Union(B, from))
      BY <2>1, <2>4 DEF Effect
    <2>6. Wrote(B, D, Abstract!Targets(Assign(InMem(m), X)), Union(B, from))
      BY <2>5, TargetsOfMemory
    <2> QED BY <2>4, <2>6, StoredWrite DEF StoredThen
  <1> QED BY <1>1, <1>2

(* A store to an operand; without an address the handler returns.          *)
LEMMA PutOperand ==
  ASSUME NEW ins \in Instruction, NEW i,
         NEW from \in SUBSET Scratch, NEW rest \in Seq(Statement),
         NEW U \in BOOLEAN, NEW F, NEW A \in Config, NEW L \in Config,
         NEW B \in Config, NEW C, NEW X,
         Stored(F, A, L, B), Gathered(A, L, from, X),
         Yields(SetOperand(ins, i, from) \o rest, U, B, C)
  PROVE  \/ Kind(ins, i) = "mem" /\ ins.write = {} /\ U /\ C = B
         \/ StoredThen(F \cup {Assign(Abstract!Written(ins, i), X)}, A, L, rest, U, C)
  <1>1. CASE Kind(ins, i) = "reg"
    <2>1. SetOperand(ins, i, from) = SetReg(INS_OperandReg(ins, i), from)
      BY <1>1 DEF SetOperand
    <2>2. /\ Abstract!Written(ins, i) = InReg(INS_OperandReg(ins, i))
          /\ INS_OperandReg(ins, i) \in REG
      BY <1>1, ReadOperand, Facts
    <2> QED BY <2>1, <2>2, PutReg
  <1>2. CASE Kind(ins, i) = "mem"
    <2>1. SetOperand(ins, i, from) = SetMem(ins.write, from)
      BY <1>2 DEF SetOperand
    <2>2. Abstract!Written(ins, i) = InMem(ins.write) /\ ins.write \in SUBSET ADDRINT
      BY <1>2, ReadOperand, Facts
    <2> QED BY <1>2, <2>1, <2>2, PutMem
  <1>3. CASE Kind(ins, i) \notin {"reg", "mem"}
    <2>1. Yields(<<Abort>> \o rest, U, B, C) /\ Abort \in Statement
      BY <1>3 DEF SetOperand, Statement
    <2> QED BY <2>1, YieldsFirst
  <1> QED BY <1>1, <1>2, <1>3

(* A register or a range of memory is cleared.                             *)
LEMMA WipeReg ==
  ASSUME NEW r \in REG, NEW rest \in Seq(Statement),
         NEW U \in BOOLEAN, NEW F, NEW A \in Config, NEW L \in Config,
         NEW B \in Config, NEW C,
         Stored(F, A, L, B), Yields(ClearReg(r) \o rest, U, B, C)
  PROVE  StoredThen(F \cup {Clear(InReg(r))}, A, L, rest, U, C)
  <1> DEFINE c == [op |-> "ClearTaintForRegister", reg |-> r]
  <1>1. c \in Call /\ c.op = "ClearTaintForRegister" /\ c.reg = r
    BY DEF Call
  <1>2. Yields(<<c>> \o rest, U, B, C)
    BY DEF ClearReg
  <1> HIDE DEF c
  <1>3. c \in Statement
    BY <1>1 DEF Statement
  <1>4. PICK D \in Config : Effect(c, B, D) /\ Yields(rest, U, D, C)
    BY <1>1, <1>2, <1>3, YieldsFirst
  <1>5. Cleared(B, D, InReg(r))
    BY <1>1, <1>4 DEF Effect
  <1> QED BY <1>4, <1>5, StoredClear DEF StoredThen

(* A clear of memory.                                                      *)
LEMMA WipeMem ==
  ASSUME NEW m \in SUBSET ADDRINT, NEW rest \in Seq(Statement),
         NEW U \in BOOLEAN, NEW F, NEW A \in Config, NEW L \in Config,
         NEW B \in Config, NEW C,
         Stored(F, A, L, B), Yields(ClearMem(m) \o rest, U, B, C)
  PROVE  StoredThen(F \cup {Clear(InMem(m))}, A, L, rest, U, C)
  <1> DEFINE c == [op |-> "ClearTaintForMemory", mem |-> m]
  <1>1. c \in Call /\ c.op = "ClearTaintForMemory" /\ c.mem = m
    BY DEF Call
  <1>2. Yields(<<c>> \o rest, U, B, C)
    BY DEF ClearMem
  <1> HIDE DEF c
  <1>3. c \in Statement
    BY <1>1 DEF Statement
  <1>4. PICK D \in Config : Effect(c, B, D) /\ Yields(rest, U, D, C)
    BY <1>1, <1>2, <1>3, YieldsFirst
  <1>5. Cleared(B, D, InMem(m))
    BY <1>1, <1>4 DEF Effect
  <1> QED BY <1>4, <1>5, StoredClear DEF StoredThen

(* The handler is done.                                                    *)
LEMMA StoredGoal ==
  ASSUME NEW U \in BOOLEAN, NEW F, NEW A \in Config, NEW L \in Config,
         NEW B \in Config, NEW C, Stored(F, A, L, B), Yields(<<>>, U, B, C)
  PROVE  Goal(U, F, A, C)
  BY YieldsNone DEF Goal, Stored

(* A handler that returns before it has stored anything.                   *)
LEMMA EarlyGoal ==
  ASSUME NEW U, U, NEW F, NEW A, NEW C, Same(A, C)
  PROVE  Goal(U, F, A, C)
  BY DEF Goal, FlowsTo, Same

(* Before the first load nothing has changed.                              *)
LEMMA SelfSame ==
  ASSUME NEW A
  PROVE  Same(A, A)
  BY DEF Same

(* What a fetch leaves of the scratch sets filled before it.               *)
LEMMA FetchedKeeps ==
  ASSUME NEW A, NEW L, NEW B, NEW s, NEW X, Fetched(A, L, B, s, X)
  PROVE  /\ Same(A, B) /\ B.scratch[s] = Marked(A, X)
         /\ \A x \in Scratch : x # s => B.scratch[x] = L.scratch[x]
  BY DEF Fetched

(* The names TaintFlow has for the flags.                                  *)
LEMMA FlagsNamed ==
  ASSUME NEW ins, NEW X
  PROVE  /\ Abstract!Flags = InReg("RFLAGS")
         /\ Abstract!DestAndFlags(ins, X) =
              {Assign(Abstract!Written(ins, 1) \cup InReg("RFLAGS"), X)}
  <1>1. Abstract!Flags = InReg("RFLAGS")
    BY SameLocations DEF Abstract!Flags
  <1> QED BY <1>1 DEF Abstract!DestAndFlags, Assign

FetchedPair(A, s, X, t, Y, rest, U, C) ==
  \E L \in Config :
    /\ Same(A, L) /\ Yields(rest, U, L, C)
    /\ L.scratch[s] = Marked(A, X) /\ L.scratch[t] = Marked(A, Y)

(* Two operands are loaded, one after the other.                           *)
LEMMA FetchPair ==
  ASSUME NEW ins \in Instruction, NEW i, NEW j,
         NEW K \in SUBSET RMI, NEW M \in SUBSET RMI,
         NEW s \in Scratch, NEW t \in Scratch, s # t,
         NEW rest \in Seq(Statement), NEW U \in BOOLEAN, NEW A \in Config, NEW C,
         Yields(LoadOperand(ins, i, s, K) \o (LoadOperand(ins, j, t, M) \o rest), U, A, C)
  PROVE  \/ U /\ Same(A, C)
         \/ /\ Kind(ins, i) \in K /\ Kind(ins, j) \in M
            /\ Kind(ins, i) = "mem" \/ Kind(ins, j) = "mem" => ins.read # {}
            /\ FetchedPair(A, s, Abstract!Read(ins, i), t, Abstract!Read(ins, j),
                           rest, U, C)
  <1>1. LoadOperand(ins, j, t, M) \in Seq(Statement)
    BY BlockTypes, Zenon
  <1>2. LoadOperand(ins, j, t, M) \o rest \in Seq(Statement)
    BY <1>1
  <1> SUFFICES ASSUME ~(U /\ Same(A, C))
               PROVE
         /\ Kind(ins, i) \in K /\ Kind(ins, j) \in M
         /\ Kind(ins, i) = "mem" \/ Kind(ins, j) = "mem" => ins.read # {}
         /\ FetchedPair(A, s, Abstract!Read(ins, i), t, Abstract!Read(ins, j),
                        rest, U, C)
    OBVIOUS
  <1>3. /\ Kind(ins, i) \in K
        /\ \/ U /\ C = A
           \/ /\ Kind(ins, i) = "mem" => ins.read # {}
              /\ FetchedThen(A, A, s, Abstract!Read(ins, i),
                             LoadOperand(ins, j, t, M) \o rest, U, C)
    BY <1>2, SelfSame, FetchOperand
  <1>4. PICK B \in Config : /\ Fetched(A, A, B, s, Abstract!Read(ins, i))
                            /\ Yields(LoadOperand(ins, j, t, M) \o rest, U, B, C)
    BY <1>3, SelfSame DEF FetchedThen
  <1>5. Same(A, B) /\ B.scratch[s] = Marked(A, Abstract!Read(ins, i))
    BY <1>4, FetchedKeeps
  <1>6. /\ Kind(ins, j) \in M /\ (Kind(ins, j) = "mem" => ins.read # {})
        /\ FetchedThen(A, B, t, Abstract!Read(ins, j), rest, U, C)
    BY <1>4, <1>5, FetchOperand
  <1>7. PICK L \in Config : /\ Fetched(A, B, L, t, Abstract!Read(ins, j))
                            /\ Yields(rest, U, L, C)
    BY <1>6 DEF FetchedThen
  <1>8. /\ Same(A, L) /\ L.scratch[t] = Marked(A, Abstract!Read(ins, j))
        /\ L.scratch[s] = B.scratch[s]
    BY <1>7, FetchedKeeps
  <1> QED BY <1>3, <1>5, <1>6, <1>7, <1>8, SelfSame DEF FetchedPair
-----------------------------------------------------------------------------
(* Handlers that load a few scratch sets and store their union.            *)

Fetches(a, s, X) ==
  /\ a \in Seq(Statement) /\ s \in Scratch
  /\ \A rest \in Seq(Statement), U \in BOOLEAN, A \in Config, L \in Config : \A C :
       Same(A, L) /\ Yields(a \o rest, U, L, C)
         => (U /\ C = L) \/ FetchedThen(A, L, s, X, rest, U, C)

Puts(a, from, to) ==
  /\ a \in Seq(Statement) /\ from \in SUBSET Scratch
  /\ \A rest \in Seq(Statement), U \in BOOLEAN,
        A \in Config, L \in Config, B \in Config : \A F, C, X :
       Stored(F, A, L, B) /\ Gathered(A, L, from, X) /\ Yields(a \o rest, U, B, C)
         => (U /\ C = B) \/ StoredThen(F \cup {Assign(to, X)}, A, L, rest, U, C)

(* No address is needed.                                                   *)
Writes(a, from, to) ==
  /\ a \in Seq(Statement) /\ from \in SUBSET Scratch
  /\ \A rest \in Seq(Statement), U \in BOOLEAN,
        A \in Config, L \in Config, B \in Config : \A F, C, X :
       Stored(F, A, L, B) /\ Gathered(A, L, from, X) /\ Yields(a \o rest, U, B, C)
         => StoredThen(F \cup {Assign(to, X)}, A, L, rest, U, C)

Wipes(a, to) ==
  /\ a \in Seq(Statement)
  /\ \A rest \in Seq(Statement), U \in BOOLEAN,
        A \in Config, L \in Config, B \in Config : \A F, C :
       Stored(F, A, L, B) /\ Yields(a \o rest, U, B, C)
         => StoredThen(F \cup {Clear(to)}, A, L, rest, U, C)

(* The statements that load and the ones that store.                       *)
LEMMA Fetching ==
  ASSUME NEW ins \in Instruction, NEW s \in Scratch
  PROVE  /\ \A r \in REG : Fetches(LoadReg(r, s), s, InReg(r))
         /\ \A m \in SUBSET ADDRINT : Fetches(LoadMem(m, s), s, InMem(m))
         /\ \A i : \A K \in SUBSET RMI :
              Fetches(LoadOperand(ins, i, s, K), s, Abstract!Read(ins, i))
  <1>1. ASSUME NEW r \in REG PROVE Fetches(LoadReg(r, s), s, InReg(r))
    BY FetchReg, BlockTypes DEF Fetches
  <1>2. ASSUME NEW m \in SUBSET ADDRINT PROVE Fetches(LoadMem(m, s), s, InMem(m))
    BY FetchMem, BlockTypes DEF Fetches
  <1>3. ASSUME NEW i, NEW K \in SUBSET RMI
        PROVE  Fetches(LoadOperand(ins, i, s, K), s, Abstract!Read(ins, i))
    BY FetchOperand, BlockTypes DEF Fetches
  <1> QED BY <1>1, <1>2, <1>3

(* Which statements store to what.                                         *)
LEMMA Putting ==
  ASSUME NEW ins \in Instruction, NEW from \in SUBSET Scratch
  PROVE  /\ \A r \in REG : Puts(SetReg(r, from), from, InReg(r))
         /\ \A m \in SUBSET ADDRINT : Puts(SetMem(m, from), from, InMem(m))
         /\ \A i : Puts(SetOperand(ins, i, from), from, Abstract!Written(ins, i))
         /\ Puts(SetFlags(from), from, Abstract!Flags)
         /\ \A r \in REG : Writes(SetReg(r, from), from, InReg(r))
         /\ Writes(SetFlags(from), from, Abstract!Flags)
  <1>1. ASSUME NEW r \in REG PROVE Puts(SetReg(r, from), from, InReg(r))
    BY PutReg, BlockTypes DEF Puts
  <1>2. ASSUME NEW m \in SUBSET ADDRINT PROVE Puts(SetMem(m, from), from, InMem(m))
    BY PutMem, BlockTypes DEF Puts
  <1>3. ASSUME NEW i PROVE Puts(SetOperand(ins, i, from), from, Abstract!Written(ins, i))
    <2> SUFFICES ASSUME NEW rest \in Seq(Statement), NEW U \in BOOLEAN, NEW A \in Config,
                        NEW L \in Config, NEW B \in Config, NEW F, NEW C, NEW X,
                        Stored(F, A, L, B), Gathered(A, L, from, X),
                        Yields(SetOperand(ins, i, from) \o rest, U, B, C)
                 PROVE  (U /\ C = B) \/
                        StoredThen(F \cup {Assign(Abstract!Written(ins, i), X)}, A, L, rest, U, C)
      BY BlockTypes DEF Puts
    <2>1. \/ Kind(ins, i) = "mem" /\ ins.write = {} /\ U /\ C = B
          \/ StoredThen(F \cup {Assign(Abstract!Written(ins, i), X)}, A, L, rest, U, C)
      BY PutOperand
    <2> QED BY <2>1
  <1>4. Puts(SetFlags(from), from, Abstract!Flags)
    <2>1. "RFLAGS" \in REG /\ SetFlags(from) = SetReg("RFLAGS", from)
      BY Facts DEF SetFlags
    <2> QED BY <1>1, <2>1, FlagsNamed
  <1>5. ASSUME NEW r \in REG PROVE Writes(SetReg(r, from), from, InReg(r))
    BY PutReg, BlockTypes DEF Writes
  <1>6. Writes(SetFlags(from), from, Abstract!Flags)
    <2>1. "RFLAGS" \in REG /\ SetFlags(from) = SetReg("RFLAGS", from)
      BY Facts DEF SetFlags
    <2> QED BY <1>5, <2>1, FlagsNamed
  <1> QED BY <1>1, <1>2, <1>3, <1>4, <1>5, <1>6

(* The statements that clear.                                              *)
LEMMA Wiping ==
  ASSUME NEW ins \in Instruction
  PROVE  /\ \A r \in REG : Wipes(ClearReg(r), InReg(r))
         /\ \A m \in SUBSET ADDRINT : Wipes(ClearMem(m), InMem(m))
  <1>1. ASSUME NEW r \in REG PROVE Wipes(ClearReg(r), InReg(r))
    BY WipeReg, BlockTypes DEF Wipes
  <1>2. ASSUME NEW m \in SUBSET ADDRINT PROVE Wipes(ClearMem(m), InMem(m))
    BY WipeMem, BlockTypes DEF Wipes
  <1> QED BY <1>1, <1>2

(* One, two or three loads.                                                *)
LEMMA Fetch1 ==
  ASSUME NEW a, NEW s, NEW X, Fetches(a, s, X), NEW rest \in Seq(Statement),
         NEW U \in BOOLEAN, NEW A \in Config, NEW C, Yields(a \o rest, U, A, C)
  PROVE  \/ U /\ Same(A, C)
         \/ \E L \in Config :
              Same(A, L) /\ Yields(rest, U, L, C) /\ L.scratch[s] = Marked(A, X)
  <1>1. Same(A, A)
    BY SelfSame
  <1>2. (U /\ C = A) \/ FetchedThen(A, A, s, X, rest, U, C)
    BY <1>1 DEF Fetches
  <1> QED BY <1>1, <1>2, FetchedKeeps DEF FetchedThen

(* Two loads, of which the second spares what the first one loaded.        *)
LEMMA Fetch2 ==
  ASSUME NEW a, NEW s, NEW X, Fetches(a, s, X),
         NEW b, NEW t, NEW Y, Fetches(b, t, Y), s # t, NEW rest \in Seq(Statement),
         NEW U \in BOOLEAN, NEW A \in Config, NEW C, Yields(a \o (b \o rest), U, A, C)
  PROVE  (U /\ Same(A, C)) \/ FetchedPair(A, s, X, t, Y, rest, U, C)
  <1> DEFINE after == b \o rest
  <1>1. after \in Seq(Statement) /\ s \in Scratch
    BY Regroup DEF Fetches
  <1> HIDE DEF after
  <1>2. \/ U /\ Same(A, C)
        \/ \E L \in Config :
             Same(A, L) /\ Yields(after, U, L, C) /\ L.scratch[s] = Marked(A, X)
    <2>1. Yields(a \o after, U, A, C)
      BY DEF after
    <2> QED BY <1>1, <2>1, Fetch1
  <1>3. ASSUME NEW L \in Config, Same(A, L), Yields(after, U, L, C),
               L.scratch[s] = Marked(A, X)
        PROVE  (U /\ Same(A, C)) \/ FetchedPair(A, s, X, t, Y, rest, U, C)
    <2>1. Yields(b \o rest, U, L, C)
      BY <1>3 DEF after
    <2>2. (U /\ C = L) \/ FetchedThen(A, L, t, Y, rest, U, C)
      BY <1>3, <2>1 DEF Fetches
    <2> QED BY <1>1, <1>3, <2>2, FetchedKeeps DEF FetchedThen, FetchedPair
  <1> QED BY <1>2, <1>3

FetchedThree(A, s, X, t, Y, u, Z, rest, U, C) ==
  \E L \in Config :
    /\ Same(A, L) /\ Yields(rest, U, L, C)
    /\ L.scratch[s] = Marked(A, X) /\ L.scratch[t] = Marked(A, Y)
    /\ L.scratch[u] = Marked(A, Z)

(* Three loads.                                                            *)
LEMMA Fetch3 ==
  ASSUME NEW a, NEW s, NEW X, Fetches(a, s, X),
         NEW b, NEW t, NEW Y, Fetches(b, t, Y), s # t,
         NEW c, NEW u, NEW Z, Fetches(c, u, Z), u # s, u # t, NEW rest \in Seq(Statement),
         NEW U \in BOOLEAN, NEW A \in Config, NEW C, Yields(a \o (b \o (c \o rest)), U, A, C)
  PROVE  (U /\ Same(A, C)) \/ FetchedThree(A, s, X, t, Y, u, Z, rest, U, C)
  <1> DEFINE after == c \o rest
  <1>1. after \in Seq(Statement) /\ s \in Scratch /\ t \in Scratch
    BY Regroup DEF Fetches
  <1> HIDE DEF after
  <1>2. (U /\ Same(A, C)) \/ FetchedPair(A, s, X, t, Y, after, U, C)
    <2>1. Yields(a \o (b \o after), U, A, C)
      BY DEF after
    <2> QED BY <1>1, <2>1, Fetch2
  <1>3. ASSUME NEW L \in Config, Same(A, L), Yields(after, U, L, C),
               L.scratch[s] = Marked(A, X), L.scratch[t] = Marked(A, Y)
        PROVE  (U /\ Same(A, C)) \/ FetchedThree(A, s, X, t, Y, u, Z, rest, U, C)
    <2>1. Yields(c \o rest, U, L, C)
      BY <1>3 DEF after
    <2>2. (U /\ C = L) \/ FetchedThen(A, L, u, Z, rest, U, C)
      BY <1>3, <2>1 DEF Fetches
    <2> QED BY <1>1, <1>3, <2>2, FetchedKeeps DEF FetchedThen, FetchedThree
  <1> QED BY <1>2, <1>3 DEF FetchedPair

(* The first store, the next ones, and the end of the handler.             *)
LEMMA PutFirst ==
  ASSUME NEW a, NEW from, NEW to, Puts(a, from, to), NEW rest \in Seq(Statement),
         NEW U \in BOOLEAN, NEW A \in Config, NEW L \in Config, NEW C, NEW X,
         Same(A, L), Gathered(A, L, from, X), Yields(a \o rest, U, L, C)
  PROVE  (U /\ Same(A, C)) \/ StoredThen({Assign(to, X)}, A, L, rest, U, C)
  <1>1. Stored({}, A, L, L) /\ {} \cup {Assign(to, X)} = {Assign(to, X)}
    BY StoredNone
  <1>2. (U /\ C = L) \/ StoredThen({} \cup {Assign(to, X)}, A, L, rest, U, C)
    BY <1>1 DEF Puts
  <1> QED BY <1>1, <1>2

(* One more store.                                                         *)
LEMMA PutNext ==
  ASSUME NEW a, NEW from, NEW to, Writes(a, from, to), NEW rest \in Seq(Statement),
         NEW U \in BOOLEAN, NEW A \in Config, NEW L \in Config, NEW C, NEW F, NEW X,
         Gathered(A, L, from, X), StoredThen(F, A, L, a \o rest, U, C)
  PROVE  StoredThen(F \cup {Assign(to, X)}, A, L, rest, U, C)
  <1>1. PICK D \in Config : Stored(F, A, L, D) /\ Yields(a \o rest, U, D, C)
    BY DEF StoredThen
  <1> QED BY <1>1 DEF Writes

(* One more clear.                                                         *)
LEMMA WipeNext ==
  ASSUME NEW a, NEW to, Wipes(a, to), NEW rest \in Seq(Statement),
         NEW U \in BOOLEAN, NEW A \in Config, NEW L \in Config, NEW C, NEW F,
         StoredThen(F, A, L, a \o rest, U, C)
  PROVE  StoredThen(F \cup {Clear(to)}, A, L, rest, U, C)
  <1>1. PICK D \in Config : Stored(F, A, L, D) /\ Yields(a \o rest, U, D, C)
    BY DEF StoredThen
  <1> QED BY <1>1 DEF Wipes

(* After the last store the flow is made.                                  *)
LEMMA PutLast ==
  ASSUME NEW U \in BOOLEAN, NEW A \in Config, NEW L \in Config, NEW C, NEW F,
         StoredThen(F, A, L, <<>>, U, C)
  PROVE  Goal(U, F, A, C)
  BY StoredGoal DEF StoredThen

(* Two flows from the same locations are one.                              *)
LEMMA GoalJoin ==
  ASSUME NEW U \in BOOLEAN, NEW F, NEW A, NEW C, NEW T1, NEW T2, NEW X,
         Goal(U, F \cup {Assign(T1, X)} \cup {Assign(T2, X)}, A, C)
  PROVE  Goal(U, F \cup {Assign(T1 \cup T2, X)}, A, C)
  BY FlowJoin DEF Goal

(* The same for a handler that makes no other flow.                        *)
LEMMA GoalJoin2 ==
  ASSUME NEW U \in BOOLEAN, NEW A, NEW C, NEW T1, NEW T2, NEW X,
         Goal(U, {Assign(T1, X)} \cup {Assign(T2, X)}, A, C)
  PROVE  Goal(U, {Assign(T1 \cup T2, X)}, A, C)
  <1> DEFINE f == Assign(T1, X)
             g == Assign(T2, X)
             h == Assign(T1 \cup T2, X)
  <1>1. {} \cup {f} \cup {g} = {f} \cup {g} /\ {} \cup {h} = {h}
    <2> HIDE DEF f, g, h
    <2> QED OBVIOUS
  <1>2. Goal(U, {} \cup {f} \cup {g}, A, C)
    BY <1>1
  <1>3. Goal(U, {} \cup {h}, A, C)
    BY <1>2, GoalJoin
  <1> QED BY <1>1, <1>3
-----------------------------------------------------------------------------
(* Handlers load, then store.  G holds the configurations before and after *)
(* the loads; U: the operands are unaddressable, and the handler returns   *)
(* early then and only then.                                               *)

Does(s, U, F) ==
  \A A \in Config : \A C : Yields(s, U, A, C) => Goal(U, F, A, C)

Finishes(rest, U, G, F) ==
  \A A \in Config, L \in Config : \A C :
    <<A, L>> \in G /\ Yields(rest, U, L, C) => Goal(U, F, A, C)

Gathers(G, from, X) ==
  \A A \in Config, L \in Config : <<A, L>> \in G => Same(A, L) /\ Gathered(A, L, from, X)

(* The scratch sets s, t, u hold the marks of X, Y, Z.                     *)
Holding(s, X) ==
  {AL \in Config \X Config :
     Same(AL[1], AL[2]) /\ AL[2].scratch[s] = Marked(AL[1], X)}

Holding2(s, X, t, Y) == Holding(s, X) \cap Holding(t, Y)
Holding3(s, X, t, Y, u, Z) == Holding2(s, X, t, Y) \cap Holding(u, Z)

(* What the scratch sets hold together after the loads.                    *)
LEMMA HoldingGathers ==
  ASSUME NEW s, NEW t, NEW u, NEW X, NEW Y, NEW Z
  PROVE  /\ Gathers(Holding(s, X), {s}, X)
         /\ Gathers(Holding2(s, X, t, Y), {s}, X)
         /\ Gathers(Holding2(s, X, t, Y), {s, t}, X \cup Y)
         /\ Gathers(Holding3(s, X, t, Y, u, Z), {t}, Y)
         /\ Gathers(Holding3(s, X, t, Y, u, Z), {s, t, u}, X \cup Y \cup Z)
  <1>1. \A r, V : \A A \in Config, L \in Config :
          <<A, L>> \in Holding(r, V) <=> Same(A, L) /\ L.scratch[r] = Marked(A, V)
    BY DEF Holding
  <1>2. \A A \in Config, L \in Config :
          <<A, L>> \in Holding2(s, X, t, Y) <=>
            <<A, L>> \in Holding(s, X) /\ <<A, L>> \in Holding(t, Y)
    BY DEF Holding2
  <1>3. \A A \in Config, L \in Config :
          <<A, L>> \in Holding3(s, X, t, Y, u, Z) <=>
            <<A, L>> \in Holding2(s, X, t, Y) /\ <<A, L>> \in Holding(u, Z)
    BY DEF Holding3
  <1>4. Gathers(Holding(s, X), {s}, X)
    BY <1>1, GatheredOne DEF Gathers
  <1>5. Gathers(Holding2(s, X, t, Y), {s}, X)
    BY <1>1, <1>2, GatheredOne DEF Gathers
  <1>6. Gathers(Holding2(s, X, t, Y), {s, t}, X \cup Y)
    BY <1>1, <1>2, GatheredTwo DEF Gathers
  <1>7. Gathers(Holding3(s, X, t, Y, u, Z), {t}, Y)
    BY <1>1, <1>2, <1>3, GatheredOne, ZenonT(30) DEF Gathers
  <1>8. Gathers(Holding3(s, X, t, Y, u, Z), {s, t, u}, X \cup Y \cup Z)
    <2> SUFFICES ASSUME NEW A \in Config, NEW L \in Config,
                        <<A, L>> \in Holding3(s, X, t, Y, u, Z)
                 PROVE  Same(A, L) /\ Gathered(A, L, {s, t, u}, X \cup Y \cup Z)
      BY DEF Gathers
    <2>1. /\ Same(A, L) /\ L.scratch[s] = Marked(A, X) /\ L.scratch[t] = Marked(A, Y)
          /\ L.scratch[u] = Marked(A, Z)
      BY <1>1, <1>2, <1>3
    <2> QED BY <2>1, GatheredThree
  <1> QED BY <1>4, <1>5, <1>6, <1>7, <1>8

(* One, two or three loads.                                                *)
LEMMA Load1 ==
  ASSUME NEW a, NEW s, NEW X, Fetches(a, s, X), NEW rest \in Seq(Statement),
         NEW U \in BOOLEAN, NEW F, Finishes(rest, U, Holding(s, X), F),
         NEW A \in Config, NEW C, Yields(a \o rest, U, A, C)
  PROVE  Goal(U, F, A, C)
  <1>1. \/ U /\ Same(A, C)
        \/ \E L \in Config :
             Same(A, L) /\ Yields(rest, U, L, C) /\ L.scratch[s] = Marked(A, X)
    BY Fetch1
  <1>2. ASSUME NEW L \in Config, Same(A, L), Yields(rest, U, L, C),
               L.scratch[s] = Marked(A, X)
        PROVE  Goal(U, F, A, C)
    <2>1. <<A, L>> \in Holding(s, X)
      BY <1>2 DEF Holding
    <2> QED BY <1>2, <2>1 DEF Finishes
  <1> QED BY <1>1, <1>2, EarlyGoal

(* Two loads, then the rest of the handler.                                *)
LEMMA Load2 ==
  ASSUME NEW a, NEW s, NEW X, Fetches(a, s, X),
         NEW b, NEW t, NEW Y, Fetches(b, t, Y), s # t, NEW rest \in Seq(Statement),
         NEW U \in BOOLEAN, NEW F, Finishes(rest, U, Holding2(s, X, t, Y), F),
         NEW A \in Config, NEW C, Yields(a \o (b \o rest), U, A, C)
  PROVE  Goal(U, F, A, C)
  <1>1. (U /\ Same(A, C)) \/ FetchedPair(A, s, X, t, Y, rest, U, C)
    BY Fetch2
  <1>2. ASSUME NEW L \in Config, Same(A, L), Yields(rest, U, L, C),
               L.scratch[s] = Marked(A, X), L.scratch[t] = Marked(A, Y)
        PROVE  Goal(U, F, A, C)
    <2>1. <<A, L>> \in Holding(s, X) /\ <<A, L>> \in Holding(t, Y)
      BY <1>2 DEF Holding
    <2> QED BY <1>2, <2>1 DEF Finishes, Holding2
  <1> QED BY <1>1, <1>2, EarlyGoal DEF FetchedPair

(* Three loads, then the rest of the handler.                              *)
LEMMA Load3 ==
  ASSUME NEW a, NEW s, NEW X, Fetches(a, s, X),
         NEW b, NEW t, NEW Y, Fetches(b, t, Y), s # t,
         NEW c, NEW u, NEW Z, Fetches(c, u, Z), u # s, u # t, NEW rest \in Seq(Statement),
         NEW U \in BOOLEAN, NEW F, Finishes(rest, U, Holding3(s, X, t, Y, u, Z), F),
         NEW A \in Config, NEW C, Yields(a \o (b \o (c \o rest)), U, A, C)
  PROVE  Goal(U, F, A, C)
  <1>1. (U /\ Same(A, C)) \/ FetchedThree(A, s, X, t, Y, u, Z, rest, U, C)
    BY Fetch3
  <1>2. ASSUME NEW L \in Config, Same(A, L), Yields(rest, U, L, C),
               L.scratch[s] = Marked(A, X), L.scratch[t] = Marked(A, Y),
               L.scratch[u] = Marked(A, Z)
        PROVE  Goal(U, F, A, C)
    <2>1. /\ <<A, L>> \in Holding(s, X) /\ <<A, L>> \in Holding(t, Y)
          /\ <<A, L>> \in Holding(u, Z)
      BY <1>2 DEF Holding
    <2> QED BY <1>2, <2>1 DEF Finishes, Holding2, Holding3
  <1> QED BY <1>1, <1>2, EarlyGoal DEF FetchedThree

(* The stores, one after the other: F has been stored so far, and the rest *)
(* of the handler makes it H.                                              *)
Continues(rest, U, G, F, H) ==
  \A A \in Config, L \in Config : \A C :
    <<A, L>> \in G /\ StoredThen(F, A, L, rest, U, C) => Goal(U, H, A, C)

(* The end of a handler.                                                   *)
LEMMA ContinuesEnd ==
  ASSUME NEW U \in BOOLEAN, NEW G, NEW F
  PROVE  Continues(<<>>, U, G, F, F)
  <1> SUFFICES ASSUME NEW A \in Config, NEW L \in Config, NEW C,
                      StoredThen(F, A, L, <<>>, U, C)
               PROVE  Goal(U, F, A, C)
    BY DEF Continues
  <1> QED BY PutLast

(* A store, then the rest of the handler.                                  *)
LEMMA ContinuesWrite ==
  ASSUME NEW a, NEW from, NEW to, Writes(a, from, to), NEW rest \in Seq(Statement),
         NEW U \in BOOLEAN, NEW G, NEW F, NEW H, NEW X, Gathers(G, from, X),
         Continues(rest, U, G, F \cup {Assign(to, X)}, H)
  PROVE  Continues(a \o rest, U, G, F, H)
  <1> SUFFICES ASSUME NEW A \in Config, NEW L \in Config, NEW C, <<A, L>> \in G,
                      StoredThen(F, A, L, a \o rest, U, C)
               PROVE  Goal(U, H, A, C)
    BY DEF Continues
  <1>1. Gathered(A, L, from, X)
    BY DEF Gathers
  <1>2. StoredThen(F \cup {Assign(to, X)}, A, L, rest, U, C)
    BY <1>1, PutNext
  <1> QED BY <1>2 DEF Continues

(* A clear, then the rest of the handler.                                  *)
LEMMA ContinuesWipe ==
  ASSUME NEW a, NEW to, Wipes(a, to), NEW rest \in Seq(Statement),
         NEW U \in BOOLEAN, NEW G, NEW F, NEW H,
         Continues(rest, U, G, F \cup {Clear(to)}, H)
  PROVE  Continues(a \o rest, U, G, F, H)
  <1> SUFFICES ASSUME NEW A \in Config, NEW L \in Config, NEW C, <<A, L>> \in G,
                      StoredThen(F, A, L, a \o rest, U, C)
               PROVE  Goal(U, H, A, C)
    BY DEF Continues
  <1>1. StoredThen(F \cup {Clear(to)}, A, L, rest, U, C)
    BY WipeNext
  <1> QED BY <1>1 DEF Continues

(* The first store, which may find no address.                             *)
LEMMA FinishesPut ==
  ASSUME NEW a, NEW from, NEW to, Puts(a, from, to), NEW rest \in Seq(Statement),
         NEW U \in BOOLEAN, NEW G, NEW H, NEW X, Gathers(G, from, X),
         Continues(rest, U, G, {Assign(to, X)}, H)
  PROVE  Finishes(a \o rest, U, G, H)
  <1> SUFFICES ASSUME NEW A \in Config, NEW L \in Config, NEW C, <<A, L>> \in G,
                      Yields(a \o rest, U, L, C)
               PROVE  Goal(U, H, A, C)
    BY DEF Finishes
  <1>1. Same(A, L) /\ Gathered(A, L, from, X)
    BY DEF Gathers
  <1>2. (U /\ Same(A, C)) \/ StoredThen({Assign(to, X)}, A, L, rest, U, C)
    BY <1>1, PutFirst
  <1> QED BY <1>2, EarlyGoal DEF Continues

(* The first store of a handler is a clear.                                *)
LEMMA FinishesWipe ==
  ASSUME NEW a, NEW to, Wipes(a, to), NEW rest \in Seq(Statement),
         NEW U \in BOOLEAN, NEW G, NEW H, \A A, L : <<A, L>> \in G => Same(A, L),
         Continues(rest, U, G, {Clear(to)}, H)
  PROVE  Finishes(a \o rest, U, G, H)
  <1> SUFFICES ASSUME NEW A \in Config, NEW L \in Config, NEW C, <<A, L>> \in G,
                      Yields(a \o rest, U, L, C)
               PROVE  Goal(U, H, A, C)
    BY DEF Finishes
  <1>1. Stored({}, A, L, L) /\ {} \cup {Clear(to)} = {Clear(to)}
    BY StoredNone
  <1>2. StoredThen({} \cup {Clear(to)}, A, L, rest, U, C)
    BY <1>1 DEF Wipes
  <1> QED BY <1>1, <1>2 DEF Continues
-----------------------------------------------------------------------------
(* The endings handlers have.                                              *)
LEMMA EndPut ==
  ASSUME NEW a, NEW from, NEW to, Puts(a, from, to), NEW X, NEW G, Gathers(G, from, X),
         NEW U \in BOOLEAN
  PROVE  Finishes(a \o <<>>, U, G, {Assign(to, X)})
  <1> DEFINE end == <<>>
  <1>1. end \in Seq(Statement) /\ Continues(end, U, G, {Assign(to, X)}, {Assign(to, X)})
    BY ContinuesEnd
  <1> HIDE DEF end
  <1>2. Finishes(a \o end, U, G, {Assign(to, X)})
    BY <1>1, FinishesPut
  <1> QED BY <1>2 DEF end

(* A handler ends with a store.                                            *)
LEMMA EndWrite ==
  ASSUME NEW b, NEW fromB, NEW toB, Writes(b, fromB, toB), NEW Y, NEW G,
         Gathers(G, fromB, Y), NEW U \in BOOLEAN, NEW F
  PROVE  /\ b \o <<>> \in Seq(Statement)
         /\ Continues(b \o <<>>, U, G, F, F \cup {Assign(toB, Y)})
  <1> DEFINE end == <<>>
             H == F \cup {Assign(toB, Y)}
  <1>1. end \in Seq(Statement) /\ Continues(end, U, G, H, H)
    BY ContinuesEnd
  <1>2. b \o end \in Seq(Statement)
    BY Regroup DEF Writes
  <1> HIDE DEF end
  <1>3. Continues(b \o end, U, G, F, H)
    BY <1>1, ContinuesWrite
  <1> QED BY <1>2, <1>3 DEF end

(* A handler ends with a clear.                                            *)
LEMMA EndWipe ==
  ASSUME NEW b, NEW toB, Wipes(b, toB), NEW G, NEW U \in BOOLEAN, NEW F
  PROVE  /\ b \o <<>> \in Seq(Statement)
         /\ Continues(b \o <<>>, U, G, F, F \cup {Clear(toB)})
  <1> DEFINE end == <<>>
             H == F \cup {Clear(toB)}
  <1>1. end \in Seq(Statement) /\ Continues(end, U, G, H, H)
    BY ContinuesEnd
  <1>2. b \o end \in Seq(Statement)
    BY Regroup DEF Wipes
  <1> HIDE DEF end
  <1>3. Continues(b \o end, U, G, F, H)
    BY <1>1, ContinuesWipe
  <1> QED BY <1>2, <1>3 DEF end

(* One more write before an ending.                                        *)
LEMMA WriteThen ==
  ASSUME NEW b, NEW fromB, NEW toB, Writes(b, fromB, toB), NEW Y, NEW G,
         Gathers(G, fromB, Y), NEW rest \in Seq(Statement),
         NEW U \in BOOLEAN, NEW F, NEW H, Continues(rest, U, G, F \cup {Assign(toB, Y)}, H)
  PROVE  /\ b \o rest \in Seq(Statement)
         /\ Continues(b \o rest, U, G, F, H)
  <1>1. Continues(b \o rest, U, G, F, H)
    BY ContinuesWrite
  <1>2. b \in Seq(Statement)
    BY DEF Writes
  <1> QED BY <1>1, <1>2, Regroup

(* Two stores.                                                             *)
LEMMA EndPutWrite ==
  ASSUME NEW a, NEW from, NEW to, Puts(a, from, to),
         NEW b, NEW fromB, NEW toB, Writes(b, fromB, toB),
         NEW X, NEW Y, NEW G, Gathers(G, from, X), Gathers(G, fromB, Y), NEW U \in BOOLEAN
  PROVE  Finishes(a \o (b \o <<>>), U, G, {Assign(to, X)} \cup {Assign(toB, Y)})
  <1> DEFINE rest == b \o <<>>
             H == {Assign(to, X)} \cup {Assign(toB, Y)}
  <1>1. rest \in Seq(Statement) /\ Continues(rest, U, G, {Assign(to, X)}, H)
    BY EndWrite
  <1> HIDE DEF rest, H
  <1>2. Finishes(a \o rest, U, G, H)
    BY <1>1, FinishesPut
  <1> QED BY <1>2 DEF rest, H

(* Three stores.                                                           *)
LEMMA EndPutWriteWrite ==
  ASSUME NEW a, NEW from, NEW to, Puts(a, from, to),
         NEW b, NEW fromB, NEW toB, Writes(b, fromB, toB),
         NEW c, NEW fromC, NEW toC, Writes(c, fromC, toC),
         NEW X, NEW Y, NEW Z, NEW G, Gathers(G, from, X), Gathers(G, fromB, Y),
         Gathers(G, fromC, Z), NEW U \in BOOLEAN
  PROVE  Finishes(a \o (b \o (c \o <<>>)), U, G,
                  {Assign(to, X)} \cup {Assign(toB, Y)} \cup {Assign(toC, Z)})
  <1> DEFINE last == c \o <<>>
             rest == b \o last
             F == {Assign(to, X)} \cup {Assign(toB, Y)}
             H == F \cup {Assign(toC, Z)}
  <1>1. last \in Seq(Statement) /\ Continues(last, U, G, F, H)
    <2> HIDE DEF F
    <2> QED BY EndWrite
  <1> HIDE DEF last, H
  <1>2. rest \in Seq(Statement) /\ Continues(rest, U, G, {Assign(to, X)}, H)
    BY <1>1, WriteThen
  <1> HIDE DEF rest
  <1>3. Finishes(a \o rest, U, G, H)
    BY <1>2, FinishesPut
  <1> QED BY <1>3 DEF rest, last, H, F

(* Two stores and a clear.                                                 *)
LEMMA EndPutWriteWipe ==
  ASSUME NEW a, NEW from, NEW to, Puts(a, from, to),
         NEW b, NEW fromB, NEW toB, Writes(b, fromB, toB), NEW c, NEW toC, Wipes(c, toC),
         NEW X, NEW Y, NEW G, Gathers(G, from, X), Gathers(G, fromB, Y), NEW U \in BOOLEAN
  PROVE  Finishes(a \o (b \o (c \o <<>>)), U, G,
                  {Assign(to, X)} \cup {Assign(toB, Y)} \cup {Clear(toC)})
  <1> DEFINE last == c \o <<>>
             rest == b \o last
             F == {Assign(to, X)} \cup {Assign(toB, Y)}
             H == F \cup {Clear(toC)}
  <1>1. last \in Seq(Statement) /\ Continues(last, U, G, F, H)
    <2> HIDE DEF F
    <2> QED BY EndWipe
  <1> HIDE DEF last, H
  <1>2. rest \in Seq(Statement) /\ Continues(rest, U, G, {Assign(to, X)}, H)
    BY <1>1, WriteThen
  <1> HIDE DEF rest
  <1>3. Finishes(a \o rest, U, G, H)
    BY <1>2, FinishesPut
  <1> QED BY <1>3 DEF rest, last, H, F

(* A clear and a store.                                                    *)
LEMMA EndWipeWrite ==
  ASSUME NEW a, NEW to, Wipes(a, to), NEW b, NEW fromB, NEW toB, Writes(b, fromB, toB),
         NEW Y, NEW G, Gathers(G, fromB, Y), \A A, L : <<A, L>> \in G => Same(A, L),
         NEW U \in BOOLEAN
  PROVE  Finishes(a \o (b \o <<>>), U, G, {Clear(to)} \cup {Assign(toB, Y)})
  <1> DEFINE rest == b \o <<>>
             H == {Clear(to)} \cup {Assign(toB, Y)}
  <1>1. rest \in Seq(Statement) /\ Continues(rest, U, G, {Clear(to)}, H)
    BY EndWrite
  <1> HIDE DEF rest, H
  <1>2. Finishes(a \o rest, U, G, H)
    BY <1>1, FinishesWipe
  <1> QED BY <1>2 DEF rest, H
-----------------------------------------------------------------------------
(* The forms handlers have: so many loads, then so many stores.            *)

(* Blocks are lists of statements.                                         *)
LEMMA BlockSeq ==
  ASSUME NEW a
  PROVE  /\ \A s, X : Fetches(a, s, X) => a \in Seq(Statement) /\ s \in Scratch
         /\ \A from, to : Puts(a, from, to) => a \in Seq(Statement)
         /\ \A from, to : Writes(a, from, to) => a \in Seq(Statement)
         /\ \A to : Wipes(a, to) => a \in Seq(Statement)
  <1>1. \A s, X : Fetches(a, s, X) => a \in Seq(Statement) /\ s \in Scratch
    BY Zenon DEF Fetches
  <1>2. \A from, to : Puts(a, from, to) => a \in Seq(Statement)
    BY Zenon DEF Puts
  <1>3. \A from, to : Writes(a, from, to) => a \in Seq(Statement)
    BY Zenon DEF Writes
  <1>4. \A to : Wipes(a, to) => a \in Seq(Statement)
    BY Zenon DEF Wipes
  <1> QED BY <1>1, <1>2, <1>3, <1>4

(* One load, one store.                                                    *)
LEMMA Form11 ==
  ASSUME NEW a, NEW s, NEW X, Fetches(a, s, X), NEW b, NEW to, Puts(b, {s}, to),
         NEW U \in BOOLEAN
  PROVE  Does(a \o b, U, {Assign(to, X)})
  <1> DEFINE rest == b \o <<>>
             H == {Assign(to, X)}
  <1> SUFFICES ASSUME NEW A \in Config, NEW C, Yields(a \o b, U, A, C)
               PROVE  Goal(U, H, A, C)
    BY DEF Does
  <1>1. a \in Seq(Statement) /\ b \in Seq(Statement)
    BY BlockSeq
  <1>2. rest \in Seq(Statement) /\ Yields(a \o rest, U, A, C)
    BY <1>1, YieldsChain2, Regroup, Zenon
  <1>3. Gathers(Holding(s, X), {s}, X)
    BY HoldingGathers
  <1>4. Finishes(rest, U, Holding(s, X), H)
    BY <1>3, EndPut
  <1> HIDE DEF rest, H
  <1> QED BY <1>2, <1>4, Load1

(* Two loads, one store.                                                   *)
LEMMA Form21 ==
  ASSUME NEW a, NEW s, NEW X, Fetches(a, s, X), NEW b, NEW t, NEW Y, Fetches(b, t, Y),
         s # t, NEW c, NEW from, NEW to, Puts(c, from, to), NEW Z,
         Gathers(Holding2(s, X, t, Y), from, Z), NEW U \in BOOLEAN
  PROVE  Does(a \o b \o c, U, {Assign(to, Z)})
  <1> DEFINE rest == c \o <<>>
             H == {Assign(to, Z)}
  <1> SUFFICES ASSUME NEW A \in Config, NEW C, Yields(a \o b \o c, U, A, C)
               PROVE  Goal(U, H, A, C)
    BY DEF Does
  <1>1. a \in Seq(Statement) /\ b \in Seq(Statement) /\ c \in Seq(Statement)
    BY BlockSeq
  <1>2. rest \in Seq(Statement) /\ Yields(a \o (b \o rest), U, A, C)
    BY <1>1, YieldsChain3, Regroup, Zenon
  <1>4. Finishes(rest, U, Holding2(s, X, t, Y), H)
    BY EndPut
  <1> HIDE DEF rest, H
  <1> QED BY <1>2, <1>4, Load2

(* Three loads, one store.                                                 *)
LEMMA Form31 ==
  ASSUME NEW a, NEW s, NEW X, Fetches(a, s, X), NEW b, NEW t, NEW Y, Fetches(b, t, Y),
         s # t, NEW c, NEW u, NEW V, Fetches(c, u, V), u # s, u # t,
         NEW d, NEW from, NEW to, Puts(d, from, to), NEW Z,
         Gathers(Holding3(s, X, t, Y, u, V), from, Z), NEW U \in BOOLEAN
  PROVE  Does(a \o b \o c \o d, U, {Assign(to, Z)})
  <1> DEFINE rest == d \o <<>>
             H == {Assign(to, Z)}
  <1> SUFFICES ASSUME NEW A \in Config, NEW C, Yields(a \o b \o c \o d, U, A, C)
               PROVE  Goal(U, H, A, C)
    BY DEF Does
  <1>1. /\ a \in Seq(Statement) /\ b \in Seq(Statement) /\ c \in Seq(Statement)
        /\ d \in Seq(Statement)
    BY BlockSeq
  <1>2. rest \in Seq(Statement) /\ Yields(a \o (b \o (c \o rest)), U, A, C)
    BY <1>1, YieldsChain4, Regroup, Zenon
  <1>4. Finishes(rest, U, Holding3(s, X, t, Y, u, V), H)
    BY EndPut
  <1> HIDE DEF rest, H
  <1> QED BY <1>2, <1>4, Load3

(* Two loads, two stores.                                                  *)
LEMMA Form22 ==
  ASSUME NEW a, NEW s, NEW X, Fetches(a, s, X), NEW b, NEW t, NEW Y, Fetches(b, t, Y),
         s # t, NEW c, NEW from, NEW to, Puts(c, from, to),
         NEW d, NEW toD, Writes(d, from, toD), NEW Z,
         Gathers(Holding2(s, X, t, Y), from, Z), NEW U \in BOOLEAN
  PROVE  Does(a \o b \o c \o d, U, {Assign(to \cup toD, Z)})
  <1> DEFINE rest == c \o (d \o <<>>)
             H == {Assign(to, Z)} \cup {Assign(toD, Z)}
  <1> SUFFICES ASSUME NEW A \in Config, NEW C, Yields(a \o b \o c \o d, U, A, C)
               PROVE  Goal(U, {Assign(to \cup toD, Z)}, A, C)
    BY DEF Does
  <1>1. /\ a \in Seq(Statement) /\ b \in Seq(Statement) /\ c \in Seq(Statement)
        /\ d \in Seq(Statement)
    BY BlockSeq
  <1>2. rest \in Seq(Statement) /\ Yields(a \o (b \o rest), U, A, C)
    <2>1. d \o <<>> \in Seq(Statement)
      BY <1>1, Regroup
    <2> QED BY <1>1, <2>1, YieldsChain4, Regroup, Zenon
  <1>4. Finishes(rest, U, Holding2(s, X, t, Y), H)
    BY EndPutWrite
  <1> HIDE DEF rest, H
  <1>5. Goal(U, H, A, C)
    BY <1>2, <1>4, Load2
  <1> QED BY <1>5, GoalJoin2 DEF H

(* Three loads, two stores.                                                *)
LEMMA Form32 ==
  ASSUME NEW a, NEW s, NEW X, Fetches(a, s, X), NEW b, NEW t, NEW Y, Fetches(b, t, Y),
         s # t, NEW c, NEW u, NEW V, Fetches(c, u, V), u # s, u # t,
         NEW d, NEW from, NEW to, Puts(d, from, to),
         NEW e, NEW toE, Writes(e, from, toE), NEW Z,
         Gathers(Holding3(s, X, t, Y, u, V), from, Z), NEW U \in BOOLEAN
  PROVE  Does(a \o b \o c \o d \o e, U, {Assign(to \cup toE, Z)})
  <1> DEFINE rest == d \o (e \o <<>>)
             H == {Assign(to, Z)} \cup {Assign(toE, Z)}
  <1> SUFFICES ASSUME NEW A \in Config, NEW C, Yields(a \o b \o c \o d \o e, U, A, C)
               PROVE  Goal(U, {Assign(to \cup toE, Z)}, A, C)
    BY DEF Does
  <1>1. /\ a \in Seq(Statement) /\ b \in Seq(Statement) /\ c \in Seq(Statement)
        /\ d \in Seq(Statement) /\ e \in Seq(Statement)
    BY BlockSeq
  <1>2. rest \in Seq(Statement) /\ Yields(a \o (b \o (c \o rest)), U, A, C)
    <2>1. e \o <<>> \in Seq(Statement)
      BY <1>1, Regroup
    <2> QED BY <1>1, <2>1, YieldsChain5, Regroup, Zenon
  <1>4. Finishes(rest, U, Holding3(s, X, t, Y, u, V), H)
    BY EndPutWrite
  <1> HIDE DEF rest, H
  <1>5. Goal(U, H, A, C)
    BY <1>2, <1>4, Load3
  <1> QED BY <1>5, GoalJoin2 DEF H

(* Two loads, two stores and a clear.                                      *)
LEMMA Form2Wipe ==
  ASSUME NEW a, NEW s, NEW X, Fetches(a, s, X), NEW b, NEW t, NEW Y, Fetches(b, t, Y),
         s # t, NEW c, NEW to, Wipes(c, to), NEW d, NEW from, NEW toD, Writes(d, from, toD),
         NEW Z, Gathers(Holding2(s, X, t, Y), from, Z), NEW U \in BOOLEAN
  PROVE  Does(a \o b \o c \o d, U, {Clear(to)} \cup {Assign(toD, Z)})
  <1> DEFINE rest == c \o (d \o <<>>)
             H == {Clear(to)} \cup {Assign(toD, Z)}
             G == Holding2(s, X, t, Y)
  <1> SUFFICES ASSUME NEW A \in Config, NEW C, Yields(a \o b \o c \o d, U, A, C)
               PROVE  Goal(U, H, A, C)
    BY DEF Does
  <1>1. /\ a \in Seq(Statement) /\ b \in Seq(Statement) /\ c \in Seq(Statement)
        /\ d \in Seq(Statement)
    BY BlockSeq
  <1>2. rest \in Seq(Statement) /\ Yields(a \o (b \o rest), U, A, C)
    <2>1. d \o <<>> \in Seq(Statement)
      BY <1>1, Regroup
    <2> QED BY <1>1, <2>1, YieldsChain4, Regroup, Zenon
  <1>3. \A B, L : <<B, L>> \in G => Same(B, L)
    BY DEF Holding2, Holding
  <1>4. Finishes(rest, U, G, H)
    <2> HIDE DEF G
    <2>1. Gathers(G, from, Z)
      BY DEF G
    <2> QED BY <1>3, <2>1, EndWipeWrite
  <1> HIDE DEF rest, H
  <1> QED BY <1>2, <1>4, Load2

(* Two loads, three stores.                                                *)
LEMMA Form23 ==
  ASSUME NEW a, NEW s, NEW X, Fetches(a, s, X), NEW b, NEW t, NEW Y, Fetches(b, t, Y),
         s # t, NEW c, NEW from, NEW to, Puts(c, from, to),
         NEW d, NEW fromD, NEW toD, Writes(d, fromD, toD),
         NEW e, NEW toE, Writes(e, from, toE), NEW Z, NEW V,
         Gathers(Holding2(s, X, t, Y), from, Z), Gathers(Holding2(s, X, t, Y), fromD, V),
         NEW U \in BOOLEAN
  PROVE  Does(a \o b \o c \o d \o e, U,
              {Assign(to, Z)} \cup {Assign(toD, V)} \cup {Assign(toE, Z)})
  <1> DEFINE rest == c \o (d \o (e \o <<>>))
             H == {Assign(to, Z)} \cup {Assign(toD, V)} \cup {Assign(toE, Z)}
  <1> SUFFICES ASSUME NEW A \in Config, NEW C, Yields(a \o b \o c \o d \o e, U, A, C)
               PROVE  Goal(U, H, A, C)
    BY DEF Does
  <1>1. /\ a \in Seq(Statement) /\ b \in Seq(Statement) /\ c \in Seq(Statement)
        /\ d \in Seq(Statement) /\ e \in Seq(Statement)
    BY BlockSeq
  <1>2. rest \in Seq(Statement) /\ Yields(a \o (b \o rest), U, A, C)
    <2>1. e \o <<>> \in Seq(Statement)
      BY <1>1, Regroup
    <2>2. d \o (e \o <<>>) \in Seq(Statement)
      BY <1>1, <2>1, Regroup
    <2> QED BY <1>1, <2>2, YieldsChain5, Regroup, Zenon
  <1>4. Finishes(rest, U, Holding2(s, X, t, Y), H)
    BY EndPutWriteWrite
  <1> HIDE DEF rest, H
  <1> QED BY <1>2, <1>4, Load2

(* Three loads, two stores and a clear.                                    *)
LEMMA Form3Wipe ==
  ASSUME NEW a, NEW s, NEW X, Fetches(a, s, X), NEW b, NEW t, NEW Y, Fetches(b, t, Y),
         s # t, NEW c, NEW u, NEW V, Fetches(c, u, V), u # s, u # t,
         NEW d, NEW from, NEW to, Puts(d, from, to),
         NEW e, NEW toE, Writes(e, from, toE), NEW f, NEW toF, Wipes(f, toF), NEW Z,
         Gathers(Holding3(s, X, t, Y, u, V), from, Z), NEW U \in BOOLEAN
  PROVE  Does(a \o b \o c \o d \o e \o f, U,
              {Assign(to, Z)} \cup {Assign(toE, Z)} \cup {Clear(toF)})
  <1> DEFINE rest == d \o (e \o (f \o <<>>))
             H == {Assign(to, Z)} \cup {Assign(toE, Z)} \cup {Clear(toF)}
  <1> SUFFICES ASSUME NEW A \in Config, NEW C, Yields(a \o b \o c \o d \o e \o f, U, A, C)
               PROVE  Goal(U, H, A, C)
    BY DEF Does
  <1>1. /\ a \in Seq(Statement) /\ b \in Seq(Statement) /\ c \in Seq(Statement)
        /\ d \in Seq(Statement) /\ e \in Seq(Statement) /\ f \in Seq(Statement)
    BY BlockSeq
  <1>2. rest \in Seq(Statement) /\ Yields(a \o (b \o (c \o rest)), U, A, C)
    <2>1. f \o <<>> \in Seq(Statement)
      BY <1>1, Regroup
    <2>2. e \o (f \o <<>>) \in Seq(Statement)
      BY <1>1, <2>1, Regroup
    <2> QED BY <1>1, <2>2, YieldsChain6, Regroup, Zenon
  <1>4. Finishes(rest, U, Holding3(s, X, t, Y, u, V), H)
    BY EndPutWriteWipe
  <1> HIDE DEF rest, H
  <1> QED BY <1>2, <1>4, Load3
-----------------------------------------------------------------------------
(* The handlers, one after the other.                                      *)

(* The kinds of operands handlers provide for.                             *)
LEMMA Kinds ==
  /\ RM \in SUBSET RMI /\ RI \in SUBSET RMI /\ RMI \in SUBSET RMI
  /\ {"reg"} \in SUBSET RMI /\ {"mem"} \in SUBSET RMI /\ {"imm"} \in SUBSET RMI
  BY DEF RM, RI, RMI

(* dest, eflags <- union(dest, src), the operands loaded into s and t.     *)
LEMMA BinaryDoes ==
  ASSUME NEW ins \in Instruction, NEW U \in BOOLEAN,
         NEW s \in Scratch, NEW t \in Scratch, s # t,
         NEW K \in SUBSET RMI, NEW M \in SUBSET RMI
  PROVE  Does(LoadOperand(ins, 1, s, K) \o LoadOperand(ins, 2, t, M)
              \o SetOperand(ins, 1, {s, t}) \o SetFlags({s, t}), U,
              Abstract!DestAndFlags(ins, Abstract!Read(ins, 1) \cup Abstract!Read(ins, 2)))
  <1> DEFINE a == LoadOperand(ins, 1, s, K)
             b == LoadOperand(ins, 2, t, M)
             c == SetOperand(ins, 1, {s, t})
             d == SetFlags({s, t})
             X == Abstract!Read(ins, 1)
             Y == Abstract!Read(ins, 2)
             W == Abstract!Written(ins, 1)
  <1>1. Fetches(a, s, X) /\ Fetches(b, t, Y)
    BY Fetching
  <1>2. {s, t} \in SUBSET Scratch
    OBVIOUS
  <1>3. Puts(c, {s, t}, W) /\ Writes(d, {s, t}, Abstract!Flags)
    BY <1>2, Putting
  <1> HIDE DEF a, b, c, d, X, Y, W
  <1>4. Gathers(Holding2(s, X, t, Y), {s, t}, X \cup Y)
    BY HoldingGathers
  <1>5. Does(a \o b \o c \o d, U, {Assign(W \cup Abstract!Flags, X \cup Y)})
    BY <1>1, <1>3, <1>4, Form22
  <1> QED BY <1>5, FlagsNamed DEF a, b, c, d, X, Y, W

(* ADD, AND, OR, SUB: dest, eflags <- union(dest, src).                    *)
LEMMA ADDDoes ==
  ASSUME NEW ins \in Instruction, NEW U \in BOOLEAN
  PROVE  Does(Instrument_ADD(ins), U,
              Abstract!DestAndFlags(ins, Abstract!Read(ins, 1) \cup Abstract!Read(ins, 2)))
  <1>1. "dest" \in Scratch /\ "src" \in Scratch /\ "dest" # "src"
    BY DEF Scratch
  <1> QED BY <1>1, Kinds, BinaryDoes DEF Instrument_ADD

(* Shifts: an immediate or a register for the count.                       *)
LEMMA SARDoes ==
  ASSUME NEW ins \in Instruction, NEW U \in BOOLEAN
  PROVE  Does(Instrument_SAR(ins), U,
              Abstract!DestAndFlags(ins, Abstract!Read(ins, 1) \cup Abstract!Read(ins, 2)))
  <1>1. "dest" \in Scratch /\ "cnt" \in Scratch /\ "dest" # "cnt"
    BY DEF Scratch
  <1> QED BY <1>1, Kinds, BinaryDoes DEF Instrument_SAR

(* The second operand of XOR may be the first.                             *)
LEMMA XORDoes ==
  ASSUME NEW ins \in Instruction, NEW U \in BOOLEAN
  PROVE  /\ ~SameRegister(ins) =>
              Does(Instrument_XOR(ins), U,
                Abstract!DestAndFlags(ins, Abstract!Read(ins, 1) \cup Abstract!Read(ins, 2)))
         /\ SameRegister(ins) =>
              Does(Instrument_XOR(ins), U,
                {Clear(Abstract!Read(ins, 1))} \cup {Assign(Abstract!Flags, Abstract!Read(ins, 1))})
  <1>1. /\ "dest" \in Scratch /\ "src" \in Scratch /\ "dest" # "src"
        /\ {"dest", "src"} \in SUBSET Scratch
    BY DEF Scratch
  <1>2. CASE ~SameRegister(ins)
    BY <1>1, <1>2, Kinds, BinaryDoes DEF Instrument_XOR
  <1>3. CASE SameRegister(ins)
    <2> DEFINE r == INS_OperandReg(ins, 1)
               a == LoadOperand(ins, 1, "dest", RM)
               b == LoadOperand(ins, 2, "src", RMI)
               c == ClearReg(r)
               d == SetFlags({"dest", "src"})
               X == Abstract!Read(ins, 1)
    <2>1. r \in REG /\ X = InReg(r) /\ Abstract!Read(ins, 2) = X
      BY <1>3, ReadOperand, Facts DEF SameRegister
    <2>2. Fetches(a, "dest", X) /\ Fetches(b, "src", Abstract!Read(ins, 2))
      BY <1>1, Kinds, Fetching
    <2>3. Wipes(c, X) /\ Writes(d, {"dest", "src"}, Abstract!Flags)
      BY <1>1, <2>1, Putting, Wiping
    <2>4. Instrument_XOR(ins) = a \o b \o c \o d
      BY <1>3 DEF Instrument_XOR
    <2> HIDE DEF a, b, c, d, X
    <2>5. Gathers(Holding2("dest", X, "src", X), {"dest", "src"}, X)
      <3>1. Gathers(Holding2("dest", X, "src", X), {"dest", "src"}, X \cup X)
        BY HoldingGathers
      <3> QED BY <3>1
    <2>6. Does(a \o b \o c \o d, U, {Clear(X)} \cup {Assign(Abstract!Flags, X)})
      BY <1>1, <2>1, <2>2, <2>3, <2>5, Form2Wipe
    <2> QED BY <1>3, <2>4, <2>6 DEF X
  <1> QED BY <1>2, <1>3

(* Only the flags are written.                                             *)
LEMMA CompareDoes ==
  ASSUME NEW ins \in Instruction, NEW U \in BOOLEAN,
         NEW K \in SUBSET RMI, NEW M \in SUBSET RMI
  PROVE  Does(LoadOperand(ins, 1, "dest", K) \o LoadOperand(ins, 2, "src", M)
              \o SetFlags({"dest", "src"}), U,
              {Assign(Abstract!Flags, Abstract!Read(ins, 1) \cup Abstract!Read(ins, 2))})
  <1> DEFINE D == {"dest", "src"}
             a == LoadOperand(ins, 1, "dest", K)
             b == LoadOperand(ins, 2, "src", M)
             c == SetFlags(D)
             X == Abstract!Read(ins, 1)
             Y == Abstract!Read(ins, 2)
             Z == X \cup Y
             to == Abstract!Flags
  <1>1. "dest" \in Scratch /\ "src" \in Scratch /\ "dest" # "src" /\ D \in SUBSET Scratch
    BY DEF Scratch
  <1>2. Fetches(a, "dest", X) /\ Fetches(b, "src", Y)
    BY <1>1, Fetching
  <1>3. Puts(c, D, to)
    BY <1>1, Putting
  <1> HIDE DEF a, b, c, X, Y, to
  <1>4. Gathers(Holding2("dest", X, "src", Y), D, Z)
    BY HoldingGathers
  <1> HIDE DEF D, Z
  <1>5. Does(a \o b \o c, U, {Assign(to, Z)})
    BY <1>1, <1>2, <1>3, <1>4, Form21
  <1> QED BY <1>5 DEF a, b, c, D, X, Y, Z, to

(* One operand goes to the flags.                                          *)
LEMMA UnaryDoes ==
  ASSUME NEW ins \in Instruction, NEW U \in BOOLEAN
  PROVE  Does(LoadOperand(ins, 1, "dest", RM) \o SetFlags({"dest"}), U,
              {Assign(Abstract!Flags, Abstract!Read(ins, 1))})
  <1> DEFINE a == LoadOperand(ins, 1, "dest", RM)
             b == SetFlags({"dest"})
             X == Abstract!Read(ins, 1)
  <1>1. "dest" \in Scratch /\ {"dest"} \in SUBSET Scratch
    BY DEF Scratch
  <1>2. Fetches(a, "dest", X) /\ Puts(b, {"dest"}, Abstract!Flags)
    BY <1>1, Kinds, Fetching, Putting
  <1> HIDE DEF a, b, X
  <1>3. Does(a \o b, U, {Assign(Abstract!Flags, X)})
    BY <1>2, Form11
  <1> QED BY <1>3 DEF a, b, X

(* Flows from the same locations are one, and so are clears.               *)
LEMMA DoesJoin ==
  ASSUME NEW s, NEW U \in BOOLEAN, NEW F, NEW T1, NEW T2, NEW X
  PROVE  /\ Does(s, U, F \cup {Assign(T1, X)} \cup {Assign(T2, X)})
              => Does(s, U, F \cup {Assign(T1 \cup T2, X)})
         /\ Does(s, U, {Assign(T1, X)} \cup {Assign(T2, X)})
              => Does(s, U, {Assign(T1 \cup T2, X)})
  <1>1. ASSUME Does(s, U, F \cup {Assign(T1, X)} \cup {Assign(T2, X)})
        PROVE  Does(s, U, F \cup {Assign(T1 \cup T2, X)})
    BY <1>1, GoalJoin DEF Does
  <1>2. ASSUME Does(s, U, {Assign(T1, X)} \cup {Assign(T2, X)})
        PROVE  Does(s, U, {Assign(T1 \cup T2, X)})
    BY <1>2, GoalJoin2 DEF Does
  <1> QED BY <1>1, <1>2

(* ADC and SBB: eflags is a source too.                                    *)
LEMMA ADCDoes ==
  ASSUME NEW ins \in Instruction, NEW U \in BOOLEAN
  PROVE  Does(Instrument_ADC(ins), U,
              Abstract!DestAndFlags(ins, Abstract!Read(ins, 1) \cup Abstract!Read(ins, 2)
                                           \cup Abstract!Flags))
  <1> DEFINE D == {"dest", "src", "eflags"}
             a == LoadOperand(ins, 1, "dest", RM)
             b == LoadOperand(ins, 2, "src", RMI)
             c == LoadReg("RFLAGS", "eflags")
             d == SetOperand(ins, 1, D)
             e == SetFlags(D)
             X == Abstract!Read(ins, 1)
             Y == Abstract!Read(ins, 2)
             V == Abstract!Flags
             Z == X \cup Y \cup V
             W == Abstract!Written(ins, 1)
  <1>1. /\ "dest" \in Scratch /\ "src" \in Scratch /\ "eflags" \in Scratch
        /\ "dest" # "src" /\ "eflags" # "dest" /\ "eflags" # "src"
        /\ D \in SUBSET Scratch
    BY DEF Scratch
  <1>2. Fetches(a, "dest", X) /\ Fetches(b, "src", Y) /\ Fetches(c, "eflags", V)
    BY <1>1, Kinds, Fetching, Facts, FlagsNamed
  <1>3. Puts(d, D, W) /\ Writes(e, D, V)
    BY <1>1, Putting
  <1> HIDE DEF a, b, c, d, e, X, Y, V, W
  <1>4. Gathers(Holding3("dest", X, "src", Y, "eflags", V), D, Z)
    BY HoldingGathers
  <1> HIDE DEF D, Z
  <1>5. Does(a \o b \o c \o d \o e, U, {Assign(W \cup V, Z)})
    BY <1>1, <1>2, <1>3, <1>4, Form32
  <1> QED BY <1>5, FlagsNamed DEF a, b, c, d, e, D, X, Y, V, W, Z, Instrument_ADC

(* SHLD and SHRD: three operands into the first and eflags.                *)
LEMMA SHLDDoes ==
  ASSUME NEW ins \in Instruction, NEW U \in BOOLEAN,
         Kind(ins, 2) = "reg", Kind(ins, 3) # "reg"
  PROVE  Does(Instrument_SHLD(ins), U,
              Abstract!DestAndFlags(ins, Abstract!Read(ins, 1) \cup Abstract!Read(ins, 2)
                                           \cup Abstract!Read(ins, 3)))
  <1> DEFINE D == {"dest", "src", "cnt"}
             r == INS_OperandReg(ins, 2)
             a == LoadOperand(ins, 1, "dest", RM)
             b == LoadReg(r, "cnt")
             c == LoadOperand(ins, 3, "src", {"imm"})
             d == SetOperand(ins, 1, D)
             e == SetFlags(D)
             X == Abstract!Read(ins, 1)
             Y == Abstract!Read(ins, 2)
             V == Abstract!Read(ins, 3)
             Z == X \cup Y \cup V
             W == Abstract!Written(ins, 1)
             to == Abstract!Flags
  <1>1. /\ "dest" \in Scratch /\ "src" \in Scratch /\ "cnt" \in Scratch
        /\ "dest" # "cnt" /\ "src" # "dest" /\ "src" # "cnt"
        /\ D \in SUBSET Scratch /\ D = {"dest", "cnt", "src"}
    BY DEF Scratch
  <1>2. r \in REG /\ Y = InReg(r)
    BY ReadOperand, Facts
  <1>3. Instrument_SHLD(ins) = a \o b \o c \o d \o e
    BY DEF Instrument_SHLD
  <1>4. Fetches(a, "dest", X) /\ Fetches(b, "cnt", Y) /\ Fetches(c, "src", V)
    BY <1>1, <1>2, Kinds, Fetching
  <1>5. Puts(d, D, W) /\ Writes(e, D, to)
    BY <1>1, Putting
  <1> HIDE DEF a, b, c, d, e, X, Y, V, W, to
  <1>6. Gathers(Holding3("dest", X, "cnt", Y, "src", V), D, Z)
    BY <1>1, HoldingGathers
  <1> HIDE DEF D, Z
  <1>7. Does(a \o b \o c \o d \o e, U, {Assign(W \cup to, Z)})
    BY <1>1, <1>4, <1>5, <1>6, Form32
  <1> QED BY <1>3, <1>7, FlagsNamed DEF X, Y, V, W, Z, to

(* Another width than 32 is 64.                                            *)
LEMMA Wide ==
  ASSUME NEW ins \in Instruction, ins.width # 32
  PROVE  /\ Accumulators(ins.width) = [ax |-> "RAX", dx |-> "RDX", flags |-> "RFLAGS",
                                       axs |-> "rax", dxs |-> "rdx"]
         /\ Abstract!Accumulator(ins) = InReg("RAX") /\ Abstract!Extension(ins) = InReg("RDX")
  BY SameLocations DEF Accumulators, Abstract!Accumulator, Abstract!Extension

(* An abort leads nowhere.                                                 *)
LEMMA DoesAbort ==
  ASSUME NEW U \in BOOLEAN, NEW F
  PROVE  Does(<<Abort>>, U, F)
  <1> SUFFICES ASSUME NEW A \in Config, NEW C, Yields(<<Abort>>, U, A, C)
               PROVE  FALSE
    BY DEF Does
  <1> DEFINE rest == <<>>
  <1>1. Abort \in Statement /\ rest \in Seq(Statement) /\ <<Abort>> = <<Abort>> \o rest
    BY DEF Statement
  <1> HIDE DEF rest
  <1>2. Yields(<<Abort>> \o rest, U, A, C)
    BY <1>1
  <1> QED BY <1>1, <1>2, YieldsFirst

(* Nothing runs after an abort.                                            *)
LEMMA FinishesAbort ==
  ASSUME NEW rest \in Seq(Statement), NEW U \in BOOLEAN, NEW G, NEW F
  PROVE  Finishes(<<Abort>> \o rest, U, G, F)
  <1>1. Abort \in Statement
    BY DEF Statement
  <1> QED BY <1>1, YieldsFirst DEF Finishes

(* MUL: the accumulator and the operand into both halves.                  *)
LEMMA MULDoes ==
  ASSUME NEW ins \in Instruction, NEW U \in BOOLEAN, ins.width # 32
  PROVE  Does(Instrument_MUL(ins), U,
              {Assign(Abstract!Accumulator(ins) \cup Abstract!Extension(ins) \cup Abstract!Flags,
                      Abstract!Accumulator(ins) \cup Abstract!Read(ins, 1))})
  <1> DEFINE D == {"rax", "src"}
             a == LoadOperand(ins, 1, "src", RM)
             b == LoadReg("RAX", "rax")
             c == SetReg("RAX", D)
             d == SetReg("RDX", D)
             e == SetReg("RFLAGS", D)
             X == Abstract!Read(ins, 1)
             Y == Abstract!Accumulator(ins)
             T == Abstract!Extension(ins)
             V == Abstract!Flags
             Z == Y \cup X
  <1>1. CASE ins.width # 64
    <2>1. Instrument_MUL(ins) = <<Abort>>
      BY <1>1 DEF Instrument_MUL
    <2> QED BY <2>1, DoesAbort
  <1>2. CASE ins.width = 64
    <2>1. Instrument_MUL(ins) = a \o b \o c \o d \o e
      <3> DEFINE acc == Accumulators(ins.width)
      <3>1. acc.ax = "RAX" /\ acc.dx = "RDX" /\ acc.flags = "RFLAGS" /\ acc.axs = "rax"
        BY Wide
      <3>2. Instrument_MUL(ins) =
              LoadOperand(ins, 1, "src", RM) \o LoadReg(acc.ax, acc.axs)
              \o SetReg(acc.ax, {acc.axs, "src"}) \o SetReg(acc.dx, {acc.axs, "src"})
              \o SetReg(acc.flags, {acc.axs, "src"})
        BY <1>2 DEF Instrument_MUL
      <3> HIDE DEF acc
      <3> QED BY <3>1, <3>2
    <2>2. "src" \in Scratch /\ "rax" \in Scratch /\ "src" # "rax" /\ D \in SUBSET Scratch
          /\ D = {"src", "rax"}
      BY DEF Scratch
    <2>3. Fetches(a, "src", X) /\ Fetches(b, "rax", Y)
      BY <2>2, Kinds, Fetching, Facts, Wide
    <2>4. Puts(c, D, Y) /\ Writes(d, D, T) /\ Writes(e, D, V)
      BY <2>2, Putting, Facts, Wide, FlagsNamed
    <2> HIDE DEF a, b, c, d, e, X, Y, T, V
    <2>5. Gathers(Holding2("src", X, "rax", Y), D, Z)
      <3>1. Gathers(Holding2("src", X, "rax", Y), {"src", "rax"}, X \cup Y) /\ X \cup Y = Z
        BY HoldingGathers
      <3> QED BY <2>2, <3>1
    <2> HIDE DEF D, Z
    <2>6. Does(a \o b \o c \o d \o e, U, {Assign(Y, Z)} \cup {Assign(T, Z)} \cup {Assign(V, Z)})
      BY <2>2, <2>3, <2>4, <2>5, Form23
    <2>7. Does(a \o b \o c \o d \o e, U, {Assign(Y \cup (T \cup V), Z)})
      <3>1. Does(a \o b \o c \o d \o e, U, {Assign(Y, Z)} \cup {Assign(T \cup V, Z)})
        BY <2>6, DoesJoin
      <3> QED BY <3>1, DoesJoin
    <2>8. Y \cup (T \cup V) = Y \cup T \cup V
      OBVIOUS
    <2> QED BY <2>1, <2>7, <2>8 DEF X, Y, T, V, Z
  <1> QED BY <1>1, <1>2

(* The same loads of the accumulators in two orders: DIV and IDIV.         *)
DivideFlow(ins) ==
  {Assign(Abstract!Accumulator(ins) \cup Abstract!Extension(ins),
          Abstract!Accumulator(ins) \cup Abstract!Extension(ins) \cup Abstract!Read(ins, 1)),
   Clear(Abstract!Flags)}

(* DIV and IDIV: both halves and the operand, and eflags cleared.          *)
LEMMA DIVDoes ==
  ASSUME NEW ins \in Instruction, NEW U \in BOOLEAN, ins.width # 32
  PROVE  Does(Instrument_DIV(ins), U, DivideFlow(ins))
         /\ Does(Instrument_IDIV(ins), U, DivideFlow(ins))
  <1> DEFINE D == {"rax", "rdx", "src"}
             a == LoadOperand(ins, 1, "src", RM)
             b == LoadReg("RAX", "rax")
             c == LoadReg("RDX", "rdx")
             d == SetReg("RAX", D)
             e == SetReg("RDX", D)
             f == ClearReg("RFLAGS")
             X == Abstract!Read(ins, 1)
             Y == Abstract!Accumulator(ins)
             T == Abstract!Extension(ins)
             V == Abstract!Flags
             Z == Y \cup T \cup X
  <1>1. CASE ins.width # 64
    <2>1. Instrument_DIV(ins) = <<Abort>> /\ Instrument_IDIV(ins) = <<Abort>>
      BY <1>1 DEF Instrument_DIV, Instrument_IDIV
    <2> QED BY <2>1, DoesAbort
  <1>2. CASE ins.width = 64
    <2>1. /\ Instrument_DIV(ins) = a \o b \o c \o d \o e \o f
          /\ Instrument_IDIV(ins) = a \o c \o b \o d \o e \o f
      <3> DEFINE acc == Accumulators(ins.width)
                 all == {acc.axs, acc.dxs, "src"}
      <3>1. /\ acc.ax = "RAX" /\ acc.dx = "RDX" /\ acc.flags = "RFLAGS"
            /\ acc.axs = "rax" /\ acc.dxs = "rdx"
        BY Wide
      <3>2. /\ Instrument_DIV(ins) =
                LoadOperand(ins, 1, "src", RM) \o LoadReg(acc.ax, acc.axs)
                \o LoadReg(acc.dx, acc.dxs)
                \o SetReg(acc.ax, all) \o SetReg(acc.dx, all) \o ClearReg(acc.flags)
            /\ Instrument_IDIV(ins) =
                LoadOperand(ins, 1, "src", RM) \o LoadReg(acc.dx, acc.dxs)
                \o LoadReg(acc.ax, acc.axs)
                \o SetReg(acc.ax, all) \o SetReg(acc.dx, all) \o ClearReg(acc.flags)
        BY <1>2 DEF Instrument_DIV, Instrument_IDIV
      <3> HIDE DEF acc
      <3> QED BY <3>1, <3>2
    <2>2. /\ "src" \in Scratch /\ "rax" \in Scratch /\ "rdx" \in Scratch
          /\ "src" # "rax" /\ "rax" # "src" /\ "rdx" # "src" /\ "rdx" # "rax"
          /\ "src" # "rdx" /\ "rax" # "rdx"
          /\ D \in SUBSET Scratch /\ D = {"src", "rax", "rdx"} /\ D = {"src", "rdx", "rax"}
      BY DEF Scratch
    <2>3. Fetches(a, "src", X) /\ Fetches(b, "rax", Y) /\ Fetches(c, "rdx", T)
      BY <2>2, Kinds, Fetching, Facts, Wide
    <2>4. Puts(d, D, Y) /\ Writes(e, D, T) /\ Wipes(f, V)
      BY <2>2, Putting, Wiping, Facts, Wide, FlagsNamed
    <2> HIDE DEF a, b, c, d, e, f, X, Y, T, V
    <2>5. Gathers(Holding3("src", X, "rax", Y, "rdx", T), D, Z)
      <3>1. Gathers(Holding3("src", X, "rax", Y, "rdx", T), {"src", "rax", "rdx"}, X \cup Y \cup T)
            /\ X \cup Y \cup T = Z
        BY HoldingGathers
      <3> QED BY <2>2, <3>1
    <2>6. Gathers(Holding3("src", X, "rdx", T, "rax", Y), D, Z)
      <3>1. Gathers(Holding3("src", X, "rdx", T, "rax", Y), {"src", "rdx", "rax"}, X \cup T \cup Y)
            /\ X \cup T \cup Y = Z
        BY HoldingGathers
      <3> QED BY <2>2, <3>1
    <2> HIDE DEF D, Z
    <2>7. Does(a \o b \o c \o d \o e \o f, U, {Assign(Y, Z)} \cup {Assign(T, Z)} \cup {Clear(V)})
      BY <2>2, <2>3, <2>4, <2>5, Form3Wipe
    <2>8. Does(a \o c \o b \o d \o e \o f, U, {Assign(Y, Z)} \cup {Assign(T, Z)} \cup {Clear(V)})
      BY <2>2, <2>3, <2>4, <2>6, Form3Wipe
    <2>9. ASSUME NEW s, Does(s, U, {Assign(Y, Z)} \cup {Assign(T, Z)} \cup {Clear(V)})
          PROVE  Does(s, U, {Assign(Y \cup T, Z), Clear(V)})
      <3> DEFINE g == Clear(V)
                 h == Assign(Y, Z)
                 i == Assign(T, Z)
                 j == Assign(Y \cup T, Z)
      <3>1. {h} \cup {i} \cup {g} = {g} \cup {h} \cup {i} /\ {g} \cup {j} = {j, g}
        <4> HIDE DEF g, h, i, j
        <4> QED OBVIOUS
      <3>2. Does(s, U, {g} \cup {Assign(Y, Z)} \cup {Assign(T, Z)})
        BY <2>9, <3>1
      <3> HIDE DEF g
      <3>3. Does(s, U, {g} \cup {Assign(Y \cup T, Z)})
        BY <3>2, DoesJoin
      <3> QED BY <3>1, <3>3 DEF g
    <2>10. /\ Does(Instrument_DIV(ins), U, {Assign(Y \cup T, Z), Clear(V)})
           /\ Does(Instrument_IDIV(ins), U, {Assign(Y \cup T, Z), Clear(V)})
      BY <2>1, <2>7, <2>8, <2>9
    <2> QED BY <2>10 DEF X, Y, T, V, Z, DivideFlow
  <1> QED BY <1>1, <1>2

(* IMUL with two or three operands.                                        *)
LEMMA IMULDoes ==
  ASSUME NEW ins \in Instruction, NEW U \in BOOLEAN,
         Kind(ins, 1) = "reg", Kind(ins, 2) # "reg", ins.explicit # 1
  PROVE  Does(Instrument_IMUL(ins), U,
              Abstract!DestAndFlags(ins, Abstract!Read(ins, 1) \cup Abstract!Read(ins, 2)))
  <1>1. CASE ins.explicit \notin {2, 3}
    <2>1. Instrument_IMUL(ins) = <<Abort>>
      BY <1>1 DEF Instrument_IMUL
    <2> QED BY <2>1, DoesAbort
  <1>2. CASE ins.explicit \in {2, 3}
    <2> DEFINE K == IF ins.explicit = 2 THEN RMI ELSE RM
               r == INS_OperandReg(ins, 1)
    <2>1. K \in SUBSET RMI
      BY Kinds
    <2> HIDE DEF K
    <2>2. Instrument_IMUL(ins) =
            LoadReg(r, "dest") \o LoadOperand(ins, 2, "src", K)
            \o SetReg(r, {"dest", "src"}) \o SetFlags({"dest", "src"})
      BY <1>2 DEF Instrument_IMUL, IMULSource, K
    <2>3. LoadReg(r, "dest") = LoadOperand(ins, 1, "dest", RM)
      BY DEF LoadOperand, RM
    <2>4. SetReg(r, {"dest", "src"}) = SetOperand(ins, 1, {"dest", "src"})
      BY DEF SetOperand
    <2>5. "dest" \in Scratch /\ "src" \in Scratch /\ "dest" # "src"
      BY DEF Scratch
    <2>6. Does(LoadOperand(ins, 1, "dest", RM) \o LoadOperand(ins, 2, "src", K)
               \o SetOperand(ins, 1, {"dest", "src"}) \o SetFlags({"dest", "src"}), U,
            Abstract!DestAndFlags(ins, Abstract!Read(ins, 1) \cup Abstract!Read(ins, 2)))
      BY <2>1, <2>5, Kinds, BinaryDoes
    <2> QED BY <2>2, <2>3, <2>4, <2>6
  <1> QED BY <1>1, <1>2

(* XADD needs a register for its second operand, and aborts otherwise.     *)
LEMMA XADDDoes ==
  ASSUME NEW ins \in Instruction, NEW U \in BOOLEAN
  PROVE  Does(Instrument_XADD(ins), U,
              {Assign(Abstract!Written(ins, 1) \cup Abstract!Flags,
                      Abstract!Read(ins, 1) \cup Abstract!Read(ins, 2)),
               Assign(Abstract!Written(ins, 2), Abstract!Read(ins, 1))})
  <1> DEFINE D == {"dest", "src"}
             r == INS_OperandReg(ins, 2)
             a == LoadOperand(ins, 1, "dest", RM)
             b == LoadOperand(ins, 2, "src", {"reg"})
             c == SetOperand(ins, 1, D)
             d == SetReg(r, {"dest"})
             e == SetFlags(D)
             X == Abstract!Read(ins, 1)
             Y == Abstract!Read(ins, 2)
             W == Abstract!Written(ins, 1)
             T == Abstract!Written(ins, 2)
             V == Abstract!Flags
             Z == X \cup Y
             H == {Assign(W \cup V, Z), Assign(T, X)}
  <1>1. Instrument_XADD(ins) = a \o b \o c \o d \o e
    BY DEF Instrument_XADD
  <1>2. /\ "dest" \in Scratch /\ "src" \in Scratch /\ "dest" # "src"
        /\ D \in SUBSET Scratch /\ {"dest"} \in SUBSET Scratch
    BY DEF Scratch
  <1>3. Fetches(a, "dest", X) /\ Fetches(b, "src", Y)
    BY <1>2, Kinds, Fetching
  <1>4. Puts(c, D, W) /\ Writes(e, D, V) /\ Writes(d, {"dest"}, InReg(r))
    BY <1>2, Putting, Facts
  <1>5. CASE Kind(ins, 2) = "reg"
    <2>1. T = InReg(r)
      BY <1>5, ReadOperand
    <2>2. Writes(d, {"dest"}, T)
      BY <1>4, <2>1
    <2> HIDE DEF a, b, c, d, e, X, Y, W, T, V
    <2>3. /\ Gathers(Holding2("dest", X, "src", Y), D, Z)
          /\ Gathers(Holding2("dest", X, "src", Y), {"dest"}, X)
      BY HoldingGathers
    <2> HIDE DEF D, Z
    <2>4. Does(a \o b \o c \o d \o e, U, {Assign(W, Z)} \cup {Assign(T, X)} \cup {Assign(V, Z)})
      BY <1>2, <1>3, <1>4, <2>2, <2>3, Form23
    <2>5. Does(a \o b \o c \o d \o e, U, H)
      <3> DEFINE g == Assign(T, X)
                 h == Assign(W, Z)
                 i == Assign(V, Z)
                 j == Assign(W \cup V, Z)
      <3>1. {h} \cup {g} \cup {i} = {g} \cup {h} \cup {i} /\ {g} \cup {j} = {j, g}
        <4> HIDE DEF g, h, i, j
        <4> QED OBVIOUS
      <3>2. Does(a \o b \o c \o d \o e, U, {g} \cup {Assign(W, Z)} \cup {Assign(V, Z)})
        BY <2>4, <3>1
      <3> HIDE DEF g
      <3>3. Does(a \o b \o c \o d \o e, U, {g} \cup {Assign(W \cup V, Z)})
        BY <3>2, DoesJoin
      <3> QED BY <3>1, <3>3 DEF g
    <2> QED BY <1>1, <2>5 DEF H, X, Y, W, T, V, Z
  <1>6. CASE Kind(ins, 2) # "reg"
    <2>1. b = <<Abort>>
      BY <1>6 DEF LoadOperand
    <2>2. /\ a \in Seq(Statement) /\ b \in Seq(Statement) /\ c \in Seq(Statement)
          /\ d \in Seq(Statement) /\ e \in Seq(Statement)
      BY <1>3, <1>4, BlockSeq
    <2> HIDE DEF a, b, c, d, e, X, H
    <2> DEFINE rest == c \o (d \o (e \o <<>>))
    <2>3. rest \in Seq(Statement)
      <3>1. e \o <<>> \in Seq(Statement)
        BY <2>2, Regroup
      <3>2. d \o (e \o <<>>) \in Seq(Statement)
        BY <2>2, <3>1, Regroup
      <3> QED BY <2>2, <3>2, Regroup
    <2>4. ASSUME NEW A \in Config, NEW C, Yields(a \o b \o c \o d \o e, U, A, C)
          PROVE  Goal(U, H, A, C)
      <3>1. Yields(a \o (b \o rest), U, A, C)
        BY <2>2, <2>4, YieldsChain5, Zenon
      <3> HIDE DEF rest
      <3> DEFINE after == b \o rest
      <3>2. after \in Seq(Statement)
        BY <2>2, <2>3, Regroup
      <3>3. Finishes(after, U, Holding("dest", X), H)
        BY <2>1, <2>3, FinishesAbort
      <3> HIDE DEF after
      <3>4. Yields(a \o after, U, A, C)
        BY <3>1 DEF after
      <3> QED BY <1>3, <3>2, <3>3, <3>4, Load1
    <2>5. Does(a \o b \o c \o d \o e, U, H)
      BY <2>4 DEF Does
    <2> QED BY <1>1, <2>5 DEF H, X
  <1> QED BY <1>5, <1>6

(* The second store of XCHG finds its address if the loads did.            *)
LEMMA WritesIf ==
  ASSUME NEW a, NEW from, NEW to, Puts(a, from, to), NEW rest \in Seq(Statement),
         NEW U \in BOOLEAN, ~U, NEW G, NEW F, NEW H, NEW X, Gathers(G, from, X),
         Continues(rest, U, G, F \cup {Assign(to, X)}, H)
  PROVE  Continues(a \o rest, U, G, F, H)
  <1> SUFFICES ASSUME NEW A \in Config, NEW L \in Config, NEW C, <<A, L>> \in G,
                      StoredThen(F, A, L, a \o rest, U, C)
               PROVE  Goal(U, H, A, C)
    BY DEF Continues
  <1>1. Gathered(A, L, from, X)
    BY DEF Gathers
  <1>2. PICK D \in Config : Stored(F, A, L, D) /\ Yields(a \o rest, U, D, C)
    BY DEF StoredThen
  <1>3. (U /\ C = D) \/ StoredThen(F \cup {Assign(to, X)}, A, L, rest, U, C)
    BY <1>1, <1>2 DEF Puts
  <1> QED BY <1>3 DEF Continues

(* Two stores of which each may find no address.                           *)
LEMMA EndPutPut ==
  ASSUME NEW a, NEW from, NEW to, Puts(a, from, to),
         NEW b, NEW fromB, NEW toB, Puts(b, fromB, toB),
         NEW X, NEW Y, NEW G, Gathers(G, from, X), Gathers(G, fromB, Y), NEW U \in BOOLEAN,
         U => Writes(b, fromB, toB)
  PROVE  Finishes(a \o (b \o <<>>), U, G, {Assign(to, X)} \cup {Assign(toB, Y)})
  <1>1. CASE U
    <2>1. Writes(b, fromB, toB)
      BY <1>1
    <2> QED BY <2>1, EndPutWrite
  <1>2. CASE ~U
    <2> DEFINE end == <<>>
               rest == b \o end
               H == {Assign(to, X)} \cup {Assign(toB, Y)}
    <2>1. b \in Seq(Statement) /\ end \in Seq(Statement)
      BY BlockSeq
    <2>2. Continues(end, U, G, H, H)
      <3> HIDE DEF H
      <3> QED BY ContinuesEnd
    <2>3. rest \in Seq(Statement)
      BY <2>1, Regroup
    <2> HIDE DEF end
    <2>4. Continues(rest, U, G, {Assign(to, X)}, H)
      BY <1>2, <2>1, <2>2, WritesIf
    <2> HIDE DEF rest, H
    <2>5. Finishes(a \o rest, U, G, H)
      BY <2>3, <2>4, FinishesPut
    <2> QED BY <2>5 DEF rest, H, end
  <1> QED BY <1>1, <1>2

(* XCHG: both operands are loaded before either is stored.                 *)
LEMMA XCHGDoes ==
  ASSUME NEW ins \in Instruction, NEW U \in BOOLEAN, ins.iclass = "XCHG",
         U => Abstract!Unaddressable(ins)
  PROVE  Does(Instrument_XCHG(ins), U,
              {Assign(Abstract!Written(ins, 1), Abstract!Read(ins, 2)),
               Assign(Abstract!Written(ins, 2), Abstract!Read(ins, 1))})
  <1> DEFINE a == LoadOperand(ins, 1, "dest", RM)
             b == LoadOperand(ins, 2, "src", RM)
             c == SetOperand(ins, 1, {"src"})
             d == SetOperand(ins, 2, {"dest"})
             X == Abstract!Read(ins, 1)
             Y == Abstract!Read(ins, 2)
             W == Abstract!Written(ins, 1)
             T == Abstract!Written(ins, 2)
             G == Holding2("dest", X, "src", Y)
             H == {Assign(W, Y)} \cup {Assign(T, X)}
             rest == c \o (d \o <<>>)
  <1>1. Instrument_XCHG(ins) = a \o b \o c \o d
    BY DEF Instrument_XCHG
  <1>2. /\ "dest" \in Scratch /\ "src" \in Scratch /\ "dest" # "src"
        /\ {"dest"} \in SUBSET Scratch /\ {"src"} \in SUBSET Scratch
    BY DEF Scratch
  <1>3. Puts(c, {"src"}, W) /\ Puts(d, {"dest"}, T)
    BY <1>2, Putting
  <1>4. /\ a \in Seq(Statement) /\ b \in Seq(Statement) /\ c \in Seq(Statement)
        /\ d \in Seq(Statement)
    BY <1>2, <1>3, BlockTypes, BlockSeq
  <1>5. Gathers(G, {"src"}, Y) /\ Gathers(G, {"dest"}, X)
    <2>1. Gathers(G, {"dest"}, X)
      BY HoldingGathers
    <2>2. Holding2("dest", X, "src", Y) = Holding2("src", Y, "dest", X)
      BY DEF Holding2
    <2>3. Gathers(Holding2("src", Y, "dest", X), {"src"}, Y)
      BY HoldingGathers
    <2> QED BY <2>1, <2>2, <2>3
  <1>6. Kind(ins, 2) = "reg" => Writes(d, {"dest"}, T)
    <2> SUFFICES ASSUME Kind(ins, 2) = "reg" PROVE Writes(d, {"dest"}, T)
      OBVIOUS
    <2>1. d = SetReg(INS_OperandReg(ins, 2), {"dest"}) /\ T = InReg(INS_OperandReg(ins, 2))
      BY ReadOperand DEF SetOperand
    <2> QED BY <1>2, <2>1, Putting, Facts
  <1>7. ASSUME NEW A \in Config, NEW C, Yields(a \o b \o c \o d, U, A, C)
        PROVE  Goal(U, H, A, C)
    <2> HIDE DEF c, d, X, Y, W, T, H
    <2>1. rest \in Seq(Statement) /\ Yields(a \o (b \o rest), U, A, C)
      <3>1. d \o <<>> \in Seq(Statement)
        BY <1>4, Regroup
      <3>2. rest \in Seq(Statement)
        BY <1>4, <3>1, Regroup
      <3> HIDE DEF a, b
      <3>3. Yields(a \o (b \o rest), U, A, C)
        BY <1>4, <1>7, YieldsChain4, Zenon
      <3> QED BY <3>2, <3>3
    <2> HIDE DEF rest
    <2>2. \/ U /\ Same(A, C)
          \/ /\ Kind(ins, 1) \in RM /\ Kind(ins, 2) \in RM
             /\ Kind(ins, 1) = "mem" \/ Kind(ins, 2) = "mem" => ins.read # {}
             /\ FetchedPair(A, "dest", Abstract!Read(ins, 1), "src", Abstract!Read(ins, 2),
                            rest, U, C)
      <3>1. RM \in SUBSET RMI
        BY Kinds
      <3>2. "dest" \in Scratch /\ "src" \in Scratch /\ "dest" # "src"
        BY <1>2
      <3> QED BY <2>1, <3>1, <3>2, FetchPair, ZenonT(30)
    <2>3. CASE U /\ Same(A, C)
      BY <2>3, EarlyGoal
    <2>4. CASE /\ Kind(ins, 2) \in RM
               /\ Kind(ins, 2) = "mem" => ins.read # {}
               /\ FetchedPair(A, "dest", X, "src", Y, rest, U, C)
      <3>1. U => Kind(ins, 2) = "reg"
        BY <2>4 DEF Abstract!Unaddressable, RM
      <3>2. Finishes(rest, U, G, H)
        <4> HIDE DEF G
        <4> QED BY <1>3, <1>5, <1>6, <3>1, EndPutPut DEF H, rest
      <3>3. PICK L \in Config :
              /\ Same(A, L) /\ Yields(rest, U, L, C)
              /\ L.scratch["dest"] = Marked(A, X) /\ L.scratch["src"] = Marked(A, Y)
        BY <2>4 DEF FetchedPair
      <3>4. <<A, L>> \in G
        BY <3>3 DEF Holding2, Holding
      <3> QED BY <3>2, <3>3, <3>4 DEF Finishes
    <2> QED BY <2>2, <2>3, <2>4 DEF X, Y
  <1>8. Does(Instrument_XCHG(ins), U, H)
    BY <1>1, <1>7 DEF Does
  <1>9. H = {Assign(W, Y), Assign(T, X)}
    OBVIOUS
  <1> QED BY <1>8, <1>9

(* A location or an operand goes to another.                               *)
LEMMA MOVDoes ==
  ASSUME NEW ins \in Instruction, NEW U \in BOOLEAN
  PROVE  /\ Does(Instrument_MOV(ins), U,
                 {Assign(Abstract!Written(ins, 1), Abstract!Read(ins, 2))})
         /\ Does(Instrument_MOVDQU(ins), U,
                 {Assign(Abstract!Written(ins, 1), Abstract!Read(ins, 2))})
  <1> DEFINE b == SetOperand(ins, 1, {"src"})
             X == Abstract!Read(ins, 2)
             W == Abstract!Written(ins, 1)
  <1>1. "src" \in Scratch /\ {"src"} \in SUBSET Scratch
    BY DEF Scratch
  <1>2. Puts(b, {"src"}, W)
    BY <1>1, Putting
  <1>3. ASSUME NEW K \in SUBSET RMI
        PROVE  Does(LoadOperand(ins, 2, "src", K) \o b, U, {Assign(W, X)})
    <2> DEFINE a == LoadOperand(ins, 2, "src", K)
    <2>1. Fetches(a, "src", X)
      BY <1>1, Fetching
    <2> HIDE DEF a, b, X, W
    <2>2. Does(a \o b, U, {Assign(W, X)})
      BY <1>2, <2>1, Form11
    <2> QED BY <2>2 DEF a
  <1>4. RMI \in SUBSET RMI /\ RM \in SUBSET RMI
    BY Kinds
  <1>5. /\ Does(LoadOperand(ins, 2, "src", RMI) \o b, U, {Assign(W, X)})
        /\ Does(LoadOperand(ins, 2, "src", RM) \o b, U, {Assign(W, X)})
    BY <1>3, <1>4
  <1> QED BY <1>5 DEF Instrument_MOV, Instrument_MOVDQU

(* LDDQU: memory into a register.                                          *)
LEMMA LDDQUDoes ==
  ASSUME NEW ins \in Instruction, NEW U \in BOOLEAN
  PROVE  Does(Instrument_LDDQU(ins), U,
              {Assign(Abstract!Written(ins, 1), Abstract!Read(ins, 2))})
  <1> DEFINE a == LoadOperand(ins, 2, "src", {"mem"})
             b == IF Kind(ins, 1) = "reg" THEN SetReg(INS_OperandReg(ins, 1), {"src"})
                                          ELSE <<Abort>>
             X == Abstract!Read(ins, 2)
             W == Abstract!Written(ins, 1)
  <1>1. "src" \in Scratch /\ {"src"} \in SUBSET Scratch
    BY DEF Scratch
  <1>2. Fetches(a, "src", X)
    BY <1>1, Kinds, Fetching
  <1>3. Puts(b, {"src"}, W)
    <2>1. CASE Kind(ins, 1) = "reg"
      <3>1. b = SetOperand(ins, 1, {"src"})
        BY <2>1 DEF SetOperand
      <3> QED BY <1>1, <3>1, Putting
    <2>2. CASE Kind(ins, 1) # "reg"
      <3>1. b = <<Abort>>
        BY <2>2
      <3>2. Abort \in Statement /\ <<Abort>> \in Seq(Statement)
        BY DEF Statement
      <3> HIDE DEF b
      <3> QED BY <1>1, <3>1, <3>2, YieldsFirst DEF Puts
    <2> QED BY <2>1, <2>2
  <1> HIDE DEF a, b, X, W
  <1>4. Does(a \o b, U, {Assign(W, X)})
    BY <1>2, <1>3, Form11
  <1> QED BY <1>4 DEF a, b, X, W, Instrument_LDDQU

(* LEA: the registers of the address, not the bytes at it.                 *)
LEMMA LEADoes ==
  ASSUME NEW ins \in Instruction, NEW U \in BOOLEAN,
         Kind(ins, 1) = "reg", Kind(ins, 2) = "mem"
  PROVE  Does(Instrument_LEA(ins), U,
              {Assign(Abstract!Read(ins, 1),
                      InReg(ins.opnd[2].base) \cup InReg(ins.opnd[2].index))})
  <1> DEFINE D == {"base", "idx"}
             p == INS_OperandMemoryBaseReg(ins, 2)
             q == INS_OperandMemoryIndexReg(ins, 2)
             r == INS_OperandReg(ins, 1)
             a == LoadReg(p, "base")
             b == LoadReg(q, "idx")
             c == SetReg(r, D)
             X == InReg(p)
             Y == InReg(q)
             Z == X \cup Y
             W == Abstract!Read(ins, 1)
  <1>1. "base" \in Scratch /\ "idx" \in Scratch /\ "base" # "idx" /\ D \in SUBSET Scratch
    BY DEF Scratch
  <1>2. p \in REG /\ q \in REG /\ r \in REG
    BY Facts
  <1>3. p = ins.opnd[2].base /\ q = ins.opnd[2].index
    BY DEF INS_OperandMemoryBaseReg, INS_OperandMemoryIndexReg
  <1>4. W = InReg(r)
    BY ReadOperand
  <1> HIDE DEF p, q, r
  <1>5. Fetches(a, "base", X) /\ Fetches(b, "idx", Y) /\ Puts(c, D, W)
    BY <1>1, <1>2, <1>4, Fetching, Putting
  <1>6. Instrument_LEA(ins) = a \o b \o c
    BY DEF Instrument_LEA, p, q, r
  <1> HIDE DEF a, b, c, X, Y, W
  <1>7. Gathers(Holding2("base", X, "idx", Y), D, Z)
    BY HoldingGathers
  <1> HIDE DEF D, Z
  <1>8. Does(a \o b \o c, U, {Assign(W, Z)})
    BY <1>1, <1>5, <1>7, Form21
  <1> QED BY <1>3, <1>6, <1>8 DEF X, Y, Z, W

(* PUSH, POP and PUSHFD: an operand to memory, or from it.                 *)
LEMMA StackDoes ==
  ASSUME NEW ins \in Instruction, NEW U \in BOOLEAN
  PROVE  /\ Does(Instrument_PUSH(ins), U, {Assign(InMem(ins.write), Abstract!Read(ins, 1))})
         /\ Does(Instrument_POP(ins), U, {Assign(Abstract!Written(ins, 1), InMem(ins.read))})
         /\ Does(Instrument_PUSHFD(ins), U, {Assign(InMem(ins.write), Abstract!Flags)})
  <1> DEFINE a == LoadOperand(ins, 1, "src", RMI)
             b == LoadMem(ins.read, "src")
             c == LoadReg("RFLAGS", "src")
             d == SetMem(ins.write, {"src"})
             e == SetOperand(ins, 1, {"src"})
             X == Abstract!Read(ins, 1)
             Y == InMem(ins.read)
             V == Abstract!Flags
             W == InMem(ins.write)
             T == Abstract!Written(ins, 1)
  <1>1. "src" \in Scratch /\ {"src"} \in SUBSET Scratch
    BY DEF Scratch
  <1>2. Fetches(a, "src", X) /\ Fetches(b, "src", Y) /\ Fetches(c, "src", V)
    BY <1>1, Kinds, Fetching, Facts, FlagsNamed
  <1>3. Puts(d, {"src"}, W) /\ Puts(e, {"src"}, T)
    BY <1>1, Putting, Facts
  <1>4. /\ Instrument_PUSH(ins) = a \o d /\ Instrument_POP(ins) = b \o e
        /\ Instrument_PUSHFD(ins) = c \o d
    BY DEF Instrument_PUSH, Instrument_POP, Instrument_PUSHFD
  <1> HIDE DEF a, b, c, d, e, X, Y, V, W, T
  <1>5. Does(a \o d, U, {Assign(W, X)})
    BY <1>2, <1>3, Form11
  <1>6. Does(b \o e, U, {Assign(T, Y)})
    BY <1>2, <1>3, Form11
  <1>7. Does(c \o d, U, {Assign(W, V)})
    BY <1>2, <1>3, Form11
  <1> QED BY <1>4, <1>5, <1>6, <1>7 DEF X, Y, V, W, T

(* CWDE and CDQ: the accumulator into the wider or the second one.         *)
LEMMA ExtendDoes ==
  ASSUME NEW ins \in Instruction, NEW U \in BOOLEAN
  PROVE  /\ Does(Instrument_CWDE(ins), U, {Assign(InReg("EAX"), InReg("AX"))})
         /\ Does(Instrument_CDQ(ins), U,
                 {Assign(Abstract!Extension(ins), Abstract!Accumulator(ins))})
  <1>1. /\ "dest" \in Scratch /\ {"dest"} \in SUBSET Scratch
        /\ "eax" \in Scratch /\ {"eax"} \in SUBSET Scratch
        /\ "rax" \in Scratch /\ {"rax"} \in SUBSET Scratch
    BY DEF Scratch
  <1>2. ASSUME NEW q \in REG, NEW r \in REG, NEW s \in Scratch
        PROVE  Does(LoadReg(q, s) \o SetReg(r, {s}), U, {Assign(InReg(r), InReg(q))})
    <2> DEFINE a == LoadReg(q, s)
               b == SetReg(r, {s})
               X == InReg(q)
               W == InReg(r)
    <2>1. Fetches(a, s, X) /\ Puts(b, {s}, W)
      BY Fetching, Putting
    <2> HIDE DEF a, b, X, W
    <2>2. Does(a \o b, U, {Assign(W, X)})
      BY <2>1, Form11
    <2> QED BY <2>2 DEF a, b, X, W
  <1>3. Does(Instrument_CWDE(ins), U, {Assign(InReg("EAX"), InReg("AX"))})
    BY <1>1, <1>2, Facts DEF Instrument_CWDE
  <1>4. CASE ins.width \notin {32, 64}
    <2>1. Instrument_CDQ(ins) = <<Abort>>
      BY <1>4 DEF Instrument_CDQ
    <2> QED BY <1>3, <2>1, DoesAbort
  <1>5. CASE ins.width = 32
    <2>1. Instrument_CDQ(ins) = LoadReg("EAX", "eax") \o SetReg("EDX", {"eax"})
      BY <1>5 DEF Instrument_CDQ, Accumulators
    <2>2. /\ Abstract!Accumulator(ins) = InReg("EAX")
          /\ Abstract!Extension(ins) = InReg("EDX")
      BY <1>5, SameLocations DEF Abstract!Accumulator, Abstract!Extension
    <2>3. "EAX" \in REG /\ "EDX" \in REG
      BY Facts
    <2>4. Does(LoadReg("EAX", "eax") \o SetReg("EDX", {"eax"}), U,
               {Assign(InReg("EDX"), InReg("EAX"))})
      BY <1>1, <1>2, <2>3
    <2> QED BY <1>3, <2>1, <2>2, <2>4
  <1>6. CASE ins.width = 64
    <2>1. Instrument_CDQ(ins) = LoadReg("RAX", "rax") \o SetReg("RDX", {"rax"})
      BY <1>6 DEF Instrument_CDQ, Accumulators
    <2>2. /\ Abstract!Accumulator(ins) = InReg("RAX")
          /\ Abstract!Extension(ins) = InReg("RDX")
      BY <1>6, SameLocations DEF Abstract!Accumulator, Abstract!Extension
    <2>3. "RAX" \in REG /\ "RDX" \in REG
      BY Facts
    <2>4. Does(LoadReg("RAX", "rax") \o SetReg("RDX", {"rax"}), U,
               {Assign(InReg("RDX"), InReg("RAX"))})
      BY <1>1, <1>2, <2>3
    <2> QED BY <1>3, <2>1, <2>2, <2>4
  <1> QED BY <1>4, <1>5, <1>6

(* SETcc of a register: dest <- eflags.                                    *)
LEMMA SETccDoes ==
  ASSUME NEW ins \in Instruction, NEW U \in BOOLEAN, Kind(ins, 1) = "reg"
  PROVE  Does(Instrument_SETcc(ins), U, {Assign(Abstract!Written(ins, 1), Abstract!Flags)})
  <1> DEFINE a == LoadReg("RFLAGS", "src")
             b == SetOperand(ins, 1, {"src"})
             W == Abstract!Written(ins, 1)
             V == Abstract!Flags
  <1>1. "src" \in Scratch /\ {"src"} \in SUBSET Scratch
    BY DEF Scratch
  <1>2. Fetches(a, "src", V) /\ Puts(b, {"src"}, W)
    BY <1>1, Fetching, Putting, Facts, FlagsNamed
  <1>3. Instrument_SETcc(ins) = a \o b
    BY DEF Instrument_SETcc, SetOperand
  <1> HIDE DEF a, b, V, W
  <1>4. Does(a \o b, U, {Assign(W, V)})
    BY <1>2, Form11
  <1> QED BY <1>3, <1>4 DEF V, W

(* CMPXCHG of registers: the comparison decides on the destination.        *)
LEMMA CMPXCHGDoes ==
  ASSUME NEW ins \in Instruction, NEW U \in BOOLEAN,
         Kind(ins, 1) = "reg", Kind(ins, 2) = "reg", Kind(ins, 3) = "reg"
  PROVE  Does(Instrument_CMPXCHG(ins), U,
              {Assign(Abstract!Written(ins, IF ins.equal THEN 1 ELSE 3), Abstract!Read(ins, 2))})
  <1> DEFINE p == INS_OperandReg(ins, 2)
             q == INS_OperandReg(ins, 3)
             n == IF ins.equal THEN 1 ELSE 3
             a == LoadOperand(ins, 1, "dest", RM)
             b == LoadReg(p, "src")
             c == LoadReg(q, "eax")
             d == SetOperand(ins, n, {"src"})
             X == Abstract!Read(ins, 1)
             Y == Abstract!Read(ins, 2)
             V == Abstract!Read(ins, 3)
             W == Abstract!Written(ins, n)
             D == {"src"}
  <1>1. CASE ins.width \notin {32, 64}
    <2>1. Instrument_CMPXCHG(ins) = <<Abort>>
      BY <1>1 DEF Instrument_CMPXCHG
    <2> QED BY <2>1, DoesAbort
  <1>2. CASE ins.width \in {32, 64}
    <2>1. Kind(ins, n) = "reg"
      OBVIOUS
    <2>2. d = SetReg(INS_OperandReg(ins, n), D)
      BY <2>1 DEF SetOperand
    <2>3. Instrument_CMPXCHG(ins) = a \o b \o c \o d
      <3>1. CASE ins.equal
        BY <1>2, <2>2, <3>1 DEF Instrument_CMPXCHG
      <3>2. CASE ~ins.equal
        BY <1>2, <2>2, <3>2 DEF Instrument_CMPXCHG
      <3> QED BY <3>1, <3>2
    <2>4. /\ "dest" \in Scratch /\ "src" \in Scratch /\ "eax" \in Scratch
          /\ "dest" # "src" /\ "eax" # "dest" /\ "eax" # "src" /\ D \in SUBSET Scratch
      BY DEF Scratch
    <2>5. p \in REG /\ q \in REG /\ Y = InReg(p) /\ V = InReg(q)
      BY ReadOperand, Facts
    <2>6. Fetches(a, "dest", X) /\ Fetches(b, "src", Y) /\ Fetches(c, "eax", V)
      BY <2>4, <2>5, Kinds, Fetching
    <2>7. Puts(d, D, W)
      BY <2>4, Putting
    <2> HIDE DEF a, b, c, d, X, Y, V, W
    <2>8. Gathers(Holding3("dest", X, "src", Y, "eax", V), D, Y)
      BY HoldingGathers
    <2> HIDE DEF D
    <2>9. Does(a \o b \o c \o d, U, {Assign(W, Y)})
      BY <2>4, <2>6, <2>7, <2>8, Form31
    <2> QED BY <2>3, <2>9 DEF Y, W, n
  <1> QED BY <1>1, <1>2

(* rep counts with ecx, which taints what MOVS stores.                     *)
LEMMA MOVSDoes ==
  ASSUME NEW ins \in Instruction, NEW U \in BOOLEAN
  PROVE  Does(Instrument_MOVS(ins), U,
              {Assign(InMem(ins.write),
                      InMem(ins.read) \cup (IF ins.rep THEN InReg("ECX") ELSE {}))})
  <1> DEFINE D == {"src", "dest"}
             E == {"src", "dest", "cnt"}
             a == LoadMem(ins.read, "dest")
             b == LoadMem(ins.read, "src")
             c == LoadReg("ECX", "cnt")
             d == SetMem(ins.write, E)
             e == SetMem(ins.write, D)
             X == InMem(ins.read)
             V == InReg("ECX")
             W == InMem(ins.write)
             Z == X \cup V
  <1>1. /\ "dest" \in Scratch /\ "src" \in Scratch /\ "cnt" \in Scratch
        /\ "dest" # "src" /\ "cnt" # "dest" /\ "cnt" # "src"
        /\ D \in SUBSET Scratch /\ D = {"dest", "src"}
        /\ E \in SUBSET Scratch /\ E = {"dest", "src", "cnt"}
    BY DEF Scratch
  <1>2. Fetches(a, "dest", X) /\ Fetches(b, "src", X) /\ Fetches(c, "cnt", V)
    BY <1>1, Fetching, Facts
  <1>3. Puts(d, E, W) /\ Puts(e, D, W)
    BY <1>1, Putting, Facts
  <1>4. /\ ins.rep => Instrument_MOVS(ins) = a \o b \o (c \o d)
        /\ ~ins.rep => Instrument_MOVS(ins) = a \o b \o e
    BY DEF Instrument_MOVS
  <1>5. /\ a \in Seq(Statement) /\ b \in Seq(Statement) /\ c \in Seq(Statement)
        /\ d \in Seq(Statement)
    BY <1>2, <1>3, BlockSeq
  <1> HIDE DEF a, b, c, d, e, X, V, W
  <1>6. a \o b \o (c \o d) = a \o b \o c \o d
    <2> DEFINE h == a \o b
    <2>1. h \in Seq(Statement)
      BY <1>5
    <2> HIDE DEF h
    <2>2. h \o (c \o d) = (h \o c) \o d
      BY <1>5, <2>1, SMTT(60)
    <2> QED BY <2>2 DEF h
  <1>7. Gathers(Holding2("dest", X, "src", X), D, X)
    <2>1. Gathers(Holding2("dest", X, "src", X), {"dest", "src"}, X \cup X) /\ X \cup X = X
      BY HoldingGathers
    <2> QED BY <1>1, <2>1
  <1>8. Gathers(Holding3("dest", X, "src", X, "cnt", V), E, Z)
    <2>1. /\ Gathers(Holding3("dest", X, "src", X, "cnt", V), {"dest", "src", "cnt"},
                     X \cup X \cup V)
          /\ X \cup X \cup V = Z
      BY HoldingGathers
    <2> QED BY <1>1, <2>1
  <1> HIDE DEF D, E, Z
  <1>9. Does(a \o b \o e, U, {Assign(W, X)})
    BY <1>1, <1>2, <1>3, <1>7, Form21
  <1>10. Does(a \o b \o c \o d, U, {Assign(W, Z)})
    BY <1>1, <1>2, <1>3, <1>8, Form31
  <1>11. CASE ins.rep
    <2>1. Does(Instrument_MOVS(ins), U, {Assign(W, Z)})
      BY <1>4, <1>6, <1>10, <1>11
    <2> QED BY <1>11, <2>1 DEF X, V, W, Z
  <1>12. CASE ~ins.rep
    <2>1. Does(Instrument_MOVS(ins), U, {Assign(W, X \cup {})})
      <3>1. X \cup {} = X
        OBVIOUS
      <3> QED BY <1>4, <1>9, <1>12, <3>1
    <2> QED BY <1>12, <2>1 DEF X, W
  <1> QED BY <1>11, <1>12

(* CMPSB: eflags <- both bytes.                                            *)
LEMMA CMPSBDoes ==
  ASSUME NEW ins \in Instruction, NEW U \in BOOLEAN
  PROVE  Does(Instrument_CMPSB(ins), U, {Assign(Abstract!Flags, InMem(ins.read \cup ins.read2))})
  <1> DEFINE D == {"dest", "src"}
             a == LoadMem(ins.read, "dest")
             b == LoadMem(ins.read2, "src")
             c == SetFlags(D)
             X == InMem(ins.read)
             Y == InMem(ins.read2)
             Z == X \cup Y
             W == Abstract!Flags
  <1>1. /\ "dest" \in Scratch /\ "src" \in Scratch /\ "dest" # "src" /\ D \in SUBSET Scratch
    BY DEF Scratch
  <1>2. Fetches(a, "dest", X) /\ Fetches(b, "src", Y) /\ Puts(c, D, W)
    BY <1>1, Fetching, Putting, Facts
  <1>3. InMem(ins.read \cup ins.read2) = Z
    BY DEF InMem
  <1>4. Instrument_CMPSB(ins) = a \o b \o c
    BY DEF Instrument_CMPSB
  <1> HIDE DEF a, b, c, X, Y, W
  <1>5. Gathers(Holding2("dest", X, "src", Y), D, Z)
    BY HoldingGathers
  <1> HIDE DEF D, Z
  <1>6. Does(a \o b \o c, U, {Assign(W, Z)})
    BY <1>1, <1>2, <1>5, Form21
  <1> QED BY <1>3, <1>4, <1>6 DEF W

(* STOSB and STOSD: al or ax into memory.                                  *)
LEMMA STOSDoes ==
  ASSUME NEW ins \in Instruction, NEW U \in BOOLEAN
  PROVE  /\ Does(Instrument_STOSB(ins), U, {Assign(InMem(ins.write), InReg("AL"))})
         /\ Does(Instrument_STOSD(ins), U, {Assign(InMem(ins.write), InReg("AX"))})
  <1> DEFINE D == {"eax"}
             b == LoadReg("EDI", "src")
             c == SetMem(ins.write, D)
             Y == InReg("EDI")
             W == InMem(ins.write)
  <1>1. /\ "eax" \in Scratch /\ "src" \in Scratch /\ "eax" # "src" /\ D \in SUBSET Scratch
    BY DEF Scratch
  <1>2. Fetches(b, "src", Y) /\ Puts(c, D, W)
    BY <1>1, Fetching, Putting, Facts
  <1>3. ASSUME NEW r \in REG
        PROVE  Does(LoadReg(r, "eax") \o b \o c, U, {Assign(W, InReg(r))})
    <2> DEFINE a == LoadReg(r, "eax")
               X == InReg(r)
    <2>1. Fetches(a, "eax", X)
      BY <1>1, Fetching
    <2> HIDE DEF a, b, c, X, Y, W
    <2>2. Gathers(Holding2("eax", X, "src", Y), D, X)
      BY HoldingGathers
    <2> HIDE DEF D
    <2>3. Does(a \o b \o c, U, {Assign(W, X)})
      BY <1>1, <1>2, <2>1, <2>2, Form21
    <2> QED BY <2>3 DEF a, X
  <1>4. "AL" \in REG /\ "AX" \in REG
    BY Facts
  <1>5. /\ Does(LoadReg("AL", "eax") \o b \o c, U, {Assign(W, InReg("AL"))})
        /\ Does(LoadReg("AX", "eax") \o b \o c, U, {Assign(W, InReg("AX"))})
    BY <1>3, <1>4
  <1> QED BY <1>5 DEF Instrument_STOSB, Instrument_STOSD

(* rep adds ecx to what SCASB stores to.                                   *)
LEMMA SCASBDoes ==
  ASSUME NEW ins \in Instruction, NEW U \in BOOLEAN
  PROVE  Does(Instrument_SCASB(ins), U,
              {Assign(Abstract!Flags \cup (IF ins.rep THEN InReg("ECX") ELSE {}),
                      InMem(ins.read) \cup InReg("AL"))})
  <1> DEFINE D == {"src", "eax"}
             a == LoadMem(ins.read, "src")
             b == LoadReg("AL", "eax")
             c == SetFlags(D)
             d == SetReg("ECX", D)
             X == InMem(ins.read)
             Y == InReg("AL")
             Z == X \cup Y
             V == Abstract!Flags
             T == InReg("ECX")
  <1>1. /\ "src" \in Scratch /\ "eax" \in Scratch /\ "src" # "eax" /\ D \in SUBSET Scratch
    BY DEF Scratch
  <1>2. Fetches(a, "src", X) /\ Fetches(b, "eax", Y)
    BY <1>1, Fetching, Facts
  <1>3. Puts(c, D, V) /\ Writes(d, D, T)
    BY <1>1, Putting, Facts
  <1>4. /\ a \in Seq(Statement) /\ b \in Seq(Statement) /\ c \in Seq(Statement)
    BY <1>2, <1>3, BlockSeq
  <1>5. Instrument_SCASB(ins) = a \o b \o c \o (IF ins.rep THEN d ELSE <<>>)
    BY DEF Instrument_SCASB
  <1> HIDE DEF a, b, c, d, X, Y, T, V
  <1>6. a \o b \o c \o <<>> = a \o b \o c
    <2> DEFINE h == a \o b \o c
    <2>1. h \in Seq(Statement)
      BY <1>4
    <2> HIDE DEF h
    <2>2. h \o <<>> = h
      BY <2>1
    <2> QED BY <2>2 DEF h
  <1>7. Gathers(Holding2("src", X, "eax", Y), D, Z)
    BY HoldingGathers
  <1> HIDE DEF D, Z
  <1>8. Does(a \o b \o c \o d, U, {Assign(V \cup T, Z)})
    BY <1>1, <1>2, <1>3, <1>7, Form22
  <1>9. Does(a \o b \o c, U, {Assign(V, Z)})
    BY <1>1, <1>2, <1>3, <1>7, Form21
  <1>10. CASE ins.rep
    <2>1. Does(Instrument_SCASB(ins), U, {Assign(V \cup T, Z)})
      BY <1>5, <1>8, <1>10
    <2> QED BY <1>10, <2>1 DEF V, T, X, Y, Z
  <1>11. CASE ~ins.rep
    <2>1. Does(Instrument_SCASB(ins), U, {Assign(V \cup {}, Z)})
      <3>1. V \cup {} = V
        OBVIOUS
      <3> QED BY <1>5, <1>6, <1>9, <1>11, <3>1
    <2> QED BY <1>11, <2>1 DEF V, X, Y, Z
  <1> QED BY <1>10, <1>11

(* Clearing two sets of locations is clearing their union.                 *)
LEMMA ClearJoin ==
  ASSUME NEW F, NEW T1, NEW T2, NEW A, NEW B, FlowsTo(F \cup {Clear(T1)} \cup {Clear(T2)}, A, B)
  PROVE  FlowsTo(F \cup {Clear(T1 \cup T2)}, A, B)
  <1> DEFINE g1 == Clear(T1)
             g2 == Clear(T2)
             h  == Clear(T1 \cup T2)
  <1>1. /\ Abstract!Targets(g1) = T1 /\ Abstract!Targets(g2) = T2
        /\ Abstract!Targets(h) = T1 \cup T2 /\ g1.clear /\ g2.clear /\ h.clear
    BY FlowFields
  <1>2. FlowsTo(F \cup {g1} \cup {g2}, A, B)
    OBVIOUS
  <1> HIDE DEF g1, g2, h
  <1>3. FlowsTo(F \cup {h}, A, B)
    <2> SUFFICES ASSUME NEW l \in Location
                 PROVE
           IF \E f \in F \cup {h} : l \in Abstract!Targets(f)
           THEN \E f \in F \cup {h} :
                  /\ l \in Abstract!Targets(f)
                  /\ B.loc[l] \in IF f.clear THEN {{}, Open(A)}
                                  ELSE {Marked(A, f.from) \cup Open(A)}
           ELSE B.loc[l] = A.loc[l]
      BY DEF FlowsTo
    <2>1. CASE \E f \in F : l \in Abstract!Targets(f) /\ B.loc[l] \in
                               IF f.clear THEN {{}, Open(A)}
                               ELSE {Marked(A, f.from) \cup Open(A)}
      BY <2>1
    <2>2. CASE l \in T1 \cup T2 /\ B.loc[l] \in {{}, Open(A)}
      BY <1>1, <2>2
    <2>3. CASE l \notin T1 \cup T2 /\ B.loc[l] = A.loc[l]
               /\ ~\E f \in F : l \in Abstract!Targets(f)
      BY <1>1, <2>3
    <2>4. CASE \E f \in F \cup {g1} \cup {g2} : l \in Abstract!Targets(f)
      <3>1. PICK f \in F \cup {g1} \cup {g2} :
              /\ l \in Abstract!Targets(f)
              /\ B.loc[l] \in IF f.clear THEN {{}, Open(A)}
                              ELSE {Marked(A, f.from) \cup Open(A)}
        BY <1>2, <2>4 DEF FlowsTo
      <3>2. CASE f \in F
        BY <2>1, <3>1, <3>2
      <3>3. CASE f \in {g1, g2}
        BY <1>1, <2>2, <3>1, <3>3
      <3> QED BY <3>2, <3>3
    <2>5. CASE ~\E f \in F \cup {g1} \cup {g2} : l \in Abstract!Targets(f)
      <3>1. B.loc[l] = A.loc[l]
        BY <1>2, <2>5 DEF FlowsTo
      <3> QED BY <1>1, <2>3, <2>5, <3>1
    <2> QED BY <2>4, <2>5
  <1> QED BY <1>3 DEF h

(* Two clears, one after the other.                                        *)
LEMMA WipesBoth ==
  ASSUME NEW a, NEW to, Wipes(a, to), NEW b, NEW toB, Wipes(b, toB)
  PROVE  Wipes(a \o b, to \cup toB)
  <1>1. a \in Seq(Statement) /\ b \in Seq(Statement)
    BY BlockSeq
  <1>2. a \o b \in Seq(Statement)
    BY <1>1, Regroup
  <1>3. ASSUME NEW rest \in Seq(Statement), NEW U \in BOOLEAN,
               NEW A \in Config, NEW L \in Config, NEW B \in Config, NEW F, NEW C,
               Stored(F, A, L, B), Yields(a \o b \o rest, U, B, C)
        PROVE  StoredThen(F \cup {Clear(to \cup toB)}, A, L, rest, U, C)
    <2> DEFINE after == b \o rest
    <2>1. after \in Seq(Statement) /\ a \o b \o rest = a \o after
      <3>1. after \in Seq(Statement)
        BY <1>1, Regroup
      <3>2. a \o b \o rest = a \o (b \o rest)
        BY <1>1, SMTT(60)
      <3> QED BY <3>1, <3>2
    <2> HIDE DEF after
    <2>2. StoredThen(F \cup {Clear(to)}, A, L, after, U, C)
      <3>1. Yields(a \o after, U, B, C)
        BY <1>3, <2>1
      <3> QED BY <1>3, <2>1, <3>1 DEF Wipes
    <2> DEFINE E == F \cup {Clear(to)}
    <2>3. StoredThen(E, A, L, b \o rest, U, C)
      BY <2>2 DEF after
    <2> HIDE DEF E
    <2>4. StoredThen(E \cup {Clear(toB)}, A, L, rest, U, C)
      BY <2>3, WipeNext
    <2>5. PICK D \in Config : Stored(E \cup {Clear(toB)}, A, L, D) /\ Yields(rest, U, D, C)
      BY <2>4 DEF StoredThen
    <2>6. FlowsTo(F \cup {Clear(to \cup toB)}, A, D)
      BY <2>5, ClearJoin DEF Stored, E
    <2>7. Stored(F \cup {Clear(to \cup toB)}, A, L, D)
      BY <2>5, <2>6 DEF Stored
    <2> QED BY <2>5, <2>7 DEF StoredThen
  <1> QED BY <1>2, <1>3 DEF Wipes

(* Handlers that only clear.                                               *)
LEMMA Wipe1Does ==
  ASSUME NEW a, NEW to, Wipes(a, to), NEW U \in BOOLEAN
  PROVE  Does(a, U, {Clear(to)})
  <1> DEFINE G == {<<A, A>> : A \in Config}
             end == <<>>
  <1>1. a \in Seq(Statement) /\ end \in Seq(Statement) /\ a \o end = a
    <2>1. a \in Seq(Statement)
      BY BlockSeq
    <2> QED BY <2>1
  <1>2. Continues(end, U, G, {Clear(to)}, {Clear(to)})
    BY ContinuesEnd
  <1>3. \A A, L : <<A, L>> \in G => Same(A, L)
    BY DEF Same
  <1>4. \A A \in Config : <<A, A>> \in G
    OBVIOUS
  <1> HIDE DEF G, end
  <1>5. Finishes(a \o end, U, G, {Clear(to)})
    BY <1>1, <1>2, <1>3, FinishesWipe
  <1> QED BY <1>1, <1>4, <1>5 DEF Finishes, Does

(* Handlers that only clear.                                               *)
LEMMA WipeDoes ==
  ASSUME NEW ins \in Instruction, NEW U \in BOOLEAN
  PROVE  /\ Does(Instrument_BSF(ins), U, {Clear(InReg(INS_OperandReg(ins, 1)))})
         /\ Does(Instrument_CLD(ins), U, {Clear(Abstract!Flags)})
         /\ Does(Instrument_RDTSC(ins), U, {Clear(InReg("EAX") \cup InReg("EDX"))})
         /\ Does(Instrument_CPUID(ins), U,
                 {Clear(InReg("EAX") \cup InReg("EBX") \cup InReg("ECX") \cup InReg("EDX"))})
         /\ Does(Instrument_FNSTCW(ins), U, {Clear(InMem(ins.write))})
  <1>1. ASSUME NEW r \in REG PROVE Wipes(ClearReg(r), InReg(r))
    BY <1>1, Wiping
  <1>2. Does(Instrument_BSF(ins), U, {Clear(InReg(INS_OperandReg(ins, 1)))})
    <2>1. INS_OperandReg(ins, 1) \in REG
      BY Facts
    <2>2. Wipes(ClearReg(INS_OperandReg(ins, 1)), InReg(INS_OperandReg(ins, 1)))
      BY <1>1, <2>1
    <2> QED BY <2>2, Wipe1Does DEF Instrument_BSF
  <1>3. /\ "EAX" \in REG /\ "EBX" \in REG /\ "ECX" \in REG /\ "EDX" \in REG
        /\ "RFLAGS" \in REG
    BY Facts
  <1>4. Does(Instrument_CLD(ins), U, {Clear(Abstract!Flags)})
    <2>1. Wipes(ClearReg("RFLAGS"), InReg("RFLAGS"))
      BY <1>1, <1>3
    <2> QED BY <2>1, Wipe1Does, FlagsNamed DEF Instrument_CLD
  <1> DEFINE a == ClearReg("EAX")
             b == ClearReg("EBX")
             c == ClearReg("ECX")
             d == ClearReg("EDX")
             X == InReg("EAX")
             Y == InReg("EBX")
             V == InReg("ECX")
             W == InReg("EDX")
  <1>5. Wipes(a, X) /\ Wipes(b, Y) /\ Wipes(c, V) /\ Wipes(d, W)
    BY <1>1, <1>3
  <1>6. Instrument_RDTSC(ins) = a \o d /\ Instrument_CPUID(ins) = a \o b \o c \o d
    BY DEF Instrument_RDTSC, Instrument_CPUID
  <1> HIDE DEF a, b, c, d, X, Y, V, W
  <1>7. Does(a \o d, U, {Clear(X \cup W)})
    <2>1. Wipes(a \o d, X \cup W)
      BY <1>5, WipesBoth
    <2> QED BY <2>1, Wipe1Does
  <1>8. Does(a \o b \o c \o d, U, {Clear(X \cup Y \cup V \cup W)})
    <2>1. Wipes(a \o b, X \cup Y)
      BY <1>5, WipesBoth
    <2>2. Wipes(a \o b \o c, X \cup Y \cup V)
      BY <1>5, <2>1, WipesBoth
    <2>3. Wipes(a \o b \o c \o d, X \cup Y \cup V \cup W)
      BY <1>5, <2>2, WipesBoth
    <2> QED BY <2>3, Wipe1Does
  <1>9. Does(Instrument_FNSTCW(ins), U, {Clear(InMem(ins.write))})
    <2>1. Wipes(ClearMem(ins.write), InMem(ins.write))
      BY Wiping, Facts
    <2> QED BY <2>1, Wipe1Does DEF Instrument_FNSTCW
  <1> QED BY <1>2, <1>4, <1>6, <1>7, <1>8, <1>9 DEF X, Y, V, W

(* Handlers that insert nothing.                                           *)
LEMMA NothingDoes ==
  ASSUME NEW U \in BOOLEAN
  PROVE  Does(<<>>, U, {})
  <1> SUFFICES ASSUME NEW A \in Config, NEW C, Yields(<<>>, U, A, C)
               PROVE  Goal(U, {}, A, C)
    BY DEF Does
  <1>1. C = A
    BY YieldsNone
  <1> QED BY <1>1 DEF Goal, FlowsTo
-----------------------------------------------------------------------------
(* Every handler does what is announced for its instruction.               *)
Announced(ins, U) == Does(instrument_functions(ins), U, Abstract!Documented(ins))

(* The handlers with one form.                                             *)
LEMMA PlainDoes ==
  ASSUME NEW ins \in Instruction, NEW U \in BOOLEAN
  PROVE
    /\ ins.iclass \in {"ADD", "AND", "OR", "SUB"} => Announced(ins, U)
    /\ ins.iclass \in {"ADC", "SBB"} => Announced(ins, U)
    /\ ins.iclass \in {"DEC", "INC", "NEG"} => Announced(ins, U)
    /\ ins.iclass \in {"SAR", "SHL", "SHR"} => Announced(ins, U)
    /\ ins.iclass \in {"MOV", "MOVZX", "MOVSX"} => Announced(ins, U)
    /\ ins.iclass \in {"MOVDQU"} => Announced(ins, U)
    /\ ins.iclass \in {"LDDQU"} => Announced(ins, U)
    /\ ins.iclass \in {"PUSH"} => Announced(ins, U)
    /\ ins.iclass \in {"POP"} => Announced(ins, U)
    /\ ins.iclass \in {"PUSHFD"} => Announced(ins, U)
    /\ ins.iclass \in {"CWDE"} => Announced(ins, U)
    /\ ins.iclass \in {"CDQ"} => Announced(ins, U)
    /\ ins.iclass \in {"MOVSB", "MOVSW", "MOVSD"} => Announced(ins, U)
    /\ ins.iclass \in {"CMPSB"} => Announced(ins, U)
    /\ ins.iclass \in {"STOSB"} => Announced(ins, U)
    /\ ins.iclass \in {"STOSD"} => Announced(ins, U)
    /\ ins.iclass \in {"SCASB"} => Announced(ins, U)
    /\ ins.iclass \in {"CLD", "STD"} => Announced(ins, U)
    /\ ins.iclass \in {"RDTSC"} => Announced(ins, U)
    /\ ins.iclass \in {"FNSTCW", "STMXCSR"} => Announced(ins, U)
    /\ ins.iclass \in {"XADD"} => Announced(ins, U)
  <1>1. ASSUME ins.iclass \in {"ADD", "AND", "OR", "SUB"} PROVE Announced(ins, U)
    <2>1. instrument_functions(ins) = Instrument_ADD(ins)
      BY <1>1 DEF instrument_functions, SETccClass, EmptyClass
    <2>2. Abstract!Documented(ins) =
          Abstract!DestAndFlags(ins, Abstract!Read(ins, 1) \cup Abstract!Read(ins, 2))
      BY <1>1, SameLocations DEF Abstract!Documented, Abstract!TwoOperand, Abstract!Compare,
        Abstract!Move, Abstract!Setcc, Assign, Clear
    <2> QED BY <2>1, <2>2, ADDDoes DEF Announced
  <1>2. ASSUME ins.iclass \in {"ADC", "SBB"} PROVE Announced(ins, U)
    <2>1. instrument_functions(ins) = Instrument_ADC(ins)
      BY <1>2 DEF instrument_functions, SETccClass, EmptyClass
    <2>2. Abstract!Documented(ins) =
          Abstract!DestAndFlags(ins, Abstract!Read(ins, 1) \cup Abstract!Read(ins, 2)
                                           \cup Abstract!Flags)
      BY <1>2, SameLocations DEF Abstract!Documented, Abstract!TwoOperand, Abstract!Compare,
        Abstract!Move, Abstract!Setcc, Assign, Clear
    <2> QED BY <2>1, <2>2, ADCDoes DEF Announced
  <1>3. ASSUME ins.iclass \in {"DEC", "INC", "NEG"} PROVE Announced(ins, U)
    <2>1. instrument_functions(ins) = LoadOperand(ins, 1, "dest", RM) \o SetFlags({"dest"})
      BY <1>3 DEF instrument_functions, SETccClass, EmptyClass, Instrument_DEC, Instrument_NEG
    <2>2. Abstract!Documented(ins) =
          {Assign(Abstract!Flags, Abstract!Read(ins, 1))}
      BY <1>3, SameLocations DEF Abstract!Documented, Abstract!TwoOperand, Abstract!Compare,
        Abstract!Move, Abstract!Setcc, Assign, Clear
    <2> QED BY <2>1, <2>2, UnaryDoes DEF Announced
  <1>4. ASSUME ins.iclass \in {"SAR", "SHL", "SHR"} PROVE Announced(ins, U)
    <2>1. instrument_functions(ins) = Instrument_SAR(ins)
      BY <1>4 DEF instrument_functions, SETccClass, EmptyClass
    <2>2. Abstract!Documented(ins) =
          Abstract!DestAndFlags(ins, Abstract!Read(ins, 1) \cup Abstract!Read(ins, 2))
      BY <1>4, SameLocations DEF Abstract!Documented, Abstract!TwoOperand, Abstract!Compare,
        Abstract!Move, Abstract!Setcc, Assign, Clear
    <2> QED BY <2>1, <2>2, SARDoes DEF Announced
  <1>5. ASSUME ins.iclass \in {"MOV", "MOVZX", "MOVSX"} PROVE Announced(ins, U)
    <2>1. instrument_functions(ins) = Instrument_MOV(ins)
      BY <1>5 DEF instrument_functions, SETccClass, EmptyClass
    <2>2. Abstract!Documented(ins) =
          {Assign(Abstract!Written(ins, 1), Abstract!Read(ins, 2))}
      BY <1>5, SameLocations DEF Abstract!Documented, Abstract!TwoOperand, Abstract!Compare,
        Abstract!Move, Abstract!Setcc, Assign, Clear
    <2> QED BY <2>1, <2>2, MOVDoes DEF Announced
  <1>6. ASSUME ins.iclass \in {"MOVDQU"} PROVE Announced(ins, U)
    <2>1. instrument_functions(ins) = Instrument_MOVDQU(ins)
      BY <1>6 DEF instrument_functions, SETccClass, EmptyClass
    <2>2. Abstract!Documented(ins) =
          {Assign(Abstract!Written(ins, 1), Abstract!Read(ins, 2))}
      BY <1>6, SameLocations DEF Abstract!Documented, Abstract!TwoOperand, Abstract!Compare,
        Abstract!Move, Abstract!Setcc, Assign, Clear
    <2> QED BY <2>1, <2>2, MOVDoes DEF Announced
  <1>7. ASSUME ins.iclass \in {"LDDQU"} PROVE Announced(ins, U)
    <2>1. instrument_functions(ins) = Instrument_LDDQU(ins)
      BY <1>7 DEF instrument_functions, SETccClass, EmptyClass
    <2>2. Abstract!Documented(ins) =
          {Assign(Abstract!Written(ins, 1), Abstract!Read(ins, 2))}
      BY <1>7, SameLocations DEF Abstract!Documented, Abstract!TwoOperand, Abstract!Compare,
        Abstract!Move, Abstract!Setcc, Assign, Clear
    <2> QED BY <2>1, <2>2, LDDQUDoes DEF Announced
  <1>8. ASSUME ins.iclass \in {"PUSH"} PROVE Announced(ins, U)
    <2>1. instrument_functions(ins) = Instrument_PUSH(ins)
      BY <1>8 DEF instrument_functions, SETccClass, EmptyClass
    <2>2. Abstract!Documented(ins) =
          {Assign(InMem(ins.write), Abstract!Read(ins, 1))}
      BY <1>8, SameLocations DEF Abstract!Documented, Abstract!TwoOperand, Abstract!Compare,
        Abstract!Move, Abstract!Setcc, Assign, Clear
    <2> QED BY <2>1, <2>2, StackDoes DEF Announced
  <1>9. ASSUME ins.iclass \in {"POP"} PROVE Announced(ins, U)
    <2>1. instrument_functions(ins) = Instrument_POP(ins)
      BY <1>9 DEF instrument_functions, SETccClass, EmptyClass
    <2>2. Abstract!Documented(ins) =
          {Assign(Abstract!Written(ins, 1), InMem(ins.read))}
      BY <1>9, SameLocations DEF Abstract!Documented, Abstract!TwoOperand, Abstract!Compare,
        Abstract!Move, Abstract!Setcc, Assign, Clear
    <2> QED BY <2>1, <2>2, StackDoes DEF Announced
  <1>10. ASSUME ins.iclass \in {"PUSHFD"} PROVE Announced(ins, U)
    <2>1. instrument_functions(ins) = Instrument_PUSHFD(ins)
      BY <1>10 DEF instrument_functions, SETccClass, EmptyClass
    <2>2. Abstract!Documented(ins) =
          {Assign(InMem(ins.write), Abstract!Flags)}
      BY <1>10, SameLocations DEF Abstract!Documented, Abstract!TwoOperand, Abstract!Compare,
        Abstract!Move, Abstract!Setcc, Assign, Clear
    <2> QED BY <2>1, <2>2, StackDoes DEF Announced
  <1>11. ASSUME ins.iclass \in {"CWDE"} PROVE Announced(ins, U)
    <2>1. instrument_functions(ins) = Instrument_CWDE(ins)
      BY <1>11 DEF instrument_functions, SETccClass, EmptyClass
    <2>2. Abstract!Documented(ins) =
          {Assign(InReg("EAX"), InReg("AX"))}
      BY <1>11, SameLocations DEF Abstract!Documented, Abstract!TwoOperand, Abstract!Compare,
        Abstract!Move, Abstract!Setcc, Assign, Clear
    <2> QED BY <2>1, <2>2, ExtendDoes DEF Announced
  <1>12. ASSUME ins.iclass \in {"CDQ"} PROVE Announced(ins, U)
    <2>1. instrument_functions(ins) = Instrument_CDQ(ins)
      BY <1>12 DEF instrument_functions, SETccClass, EmptyClass
    <2>2. Abstract!Documented(ins) =
          {Assign(Abstract!Extension(ins), Abstract!Accumulator(ins))}
      BY <1>12, SameLocations DEF Abstract!Documented, Abstract!TwoOperand, Abstract!Compare,
        Abstract!Move, Abstract!Setcc, Assign, Clear
    <2> QED BY <2>1, <2>2, ExtendDoes DEF Announced
  <1>13. ASSUME ins.iclass \in {"MOVSB", "MOVSW", "MOVSD"} PROVE Announced(ins, U)
    <2>1. instrument_functions(ins) = Instrument_MOVS(ins)
      BY <1>13 DEF instrument_functions, SETccClass, EmptyClass
    <2>2. Abstract!Documented(ins) =
          {Assign(InMem(ins.write),
                  InMem(ins.read) \cup (IF ins.rep THEN InReg("ECX") ELSE {}))}
      BY <1>13, SameLocations DEF Abstract!Documented, Abstract!TwoOperand, Abstract!Compare,
        Abstract!Move, Abstract!Setcc, Assign, Clear
    <2> QED BY <2>1, <2>2, MOVSDoes DEF Announced
  <1>14. ASSUME ins.iclass \in {"CMPSB"} PROVE Announced(ins, U)
    <2>1. instrument_functions(ins) = Instrument_CMPSB(ins)
      BY <1>14 DEF instrument_functions, SETccClass, EmptyClass
    <2>2. Abstract!Documented(ins) =
          {Assign(Abstract!Flags, InMem(ins.read \cup ins.read2))}
      BY <1>14, SameLocations DEF Abstract!Documented, Abstract!TwoOperand, Abstract!Compare,
        Abstract!Move, Abstract!Setcc, Assign, Clear
    <2> QED BY <2>1, <2>2, CMPSBDoes DEF Announced
  <1>15. ASSUME ins.iclass \in {"STOSB"} PROVE Announced(ins, U)
    <2>1. instrument_functions(ins) = Instrument_STOSB(ins)
      BY <1>15 DEF instrument_functions, SETccClass, EmptyClass
    <2>2. Abstract!Documented(ins) =
          {Assign(InMem(ins.write), InReg("AL"))}
      BY <1>15, SameLocations DEF Abstract!Documented, Abstract!TwoOperand, Abstract!Compare,
        Abstract!Move, Abstract!Setcc, Assign, Clear
    <2> QED BY <2>1, <2>2, STOSDoes DEF Announced
  <1>16. ASSUME ins.iclass \in {"STOSD"} PROVE Announced(ins, U)
    <2>1. instrument_functions(ins) = Instrument_STOSD(ins)
      BY <1>16 DEF instrument_functions, SETccClass, EmptyClass
    <2>2. Abstract!Documented(ins) =
          {Assign(InMem(ins.write), InReg("AX"))}
      BY <1>16, SameLocations DEF Abstract!Documented, Abstract!TwoOperand, Abstract!Compare,
        Abstract!Move, Abstract!Setcc, Assign, Clear
    <2> QED BY <2>1, <2>2, STOSDoes DEF Announced
  <1>17. ASSUME ins.iclass \in {"SCASB"} PROVE Announced(ins, U)
    <2>1. instrument_functions(ins) = Instrument_SCASB(ins)
      BY <1>17 DEF instrument_functions, SETccClass, EmptyClass
    <2>2. Abstract!Documented(ins) =
          {Assign(Abstract!Flags \cup (IF ins.rep THEN InReg("ECX") ELSE {}),
                  InMem(ins.read) \cup InReg("AL"))}
      <3>1. /\ Abstract!InReg("ECX") = InReg("ECX") /\ Abstract!InReg("AL") = InReg("AL")
            /\ Abstract!InMem(ins.read) = InMem(ins.read)
        BY SameLocations
      <3> QED BY <1>17, <3>1 DEF Abstract!Documented, Abstract!TwoOperand, Abstract!Compare,
        Abstract!Move, Abstract!Setcc, Assign, Clear
    <2> QED BY <2>1, <2>2, SCASBDoes DEF Announced
  <1>18. ASSUME ins.iclass \in {"CLD", "STD"} PROVE Announced(ins, U)
    <2>1. instrument_functions(ins) = Instrument_CLD(ins)
      BY <1>18 DEF instrument_functions, SETccClass, EmptyClass
    <2>2. Abstract!Documented(ins) =
          {Clear(Abstract!Flags)}
      BY <1>18, SameLocations DEF Abstract!Documented, Abstract!TwoOperand, Abstract!Compare,
        Abstract!Move, Abstract!Setcc, Assign, Clear
    <2> QED BY <2>1, <2>2, WipeDoes DEF Announced
  <1>19. ASSUME ins.iclass \in {"RDTSC"} PROVE Announced(ins, U)
    <2>1. instrument_functions(ins) = Instrument_RDTSC(ins)
      BY <1>19 DEF instrument_functions, SETccClass, EmptyClass
    <2>2. Abstract!Documented(ins) =
          {Clear(InReg("EAX") \cup InReg("EDX"))}
      BY <1>19, SameLocations DEF Abstract!Documented, Abstract!TwoOperand, Abstract!Compare,
        Abstract!Move, Abstract!Setcc, Assign, Clear
    <2> QED BY <2>1, <2>2, WipeDoes DEF Announced
  <1>20. ASSUME ins.iclass \in {"FNSTCW", "STMXCSR"} PROVE Announced(ins, U)
    <2>1. instrument_functions(ins) = Instrument_FNSTCW(ins)
      BY <1>20 DEF instrument_functions, SETccClass, EmptyClass
    <2>2. Abstract!Documented(ins) =
          {Clear(InMem(ins.write))}
      BY <1>20, SameLocations DEF Abstract!Documented, Abstract!TwoOperand, Abstract!Compare,
        Abstract!Move, Abstract!Setcc, Assign, Clear
    <2> QED BY <2>1, <2>2, WipeDoes DEF Announced
  <1>21. ASSUME ins.iclass \in {"XADD"} PROVE Announced(ins, U)
    <2>1. instrument_functions(ins) = Instrument_XADD(ins)
      BY <1>21 DEF instrument_functions, SETccClass, EmptyClass
    <2>2. Abstract!Documented(ins) =
          {Assign(Abstract!Written(ins, 1) \cup Abstract!Flags,
                  Abstract!Read(ins, 1) \cup Abstract!Read(ins, 2)),
           Assign(Abstract!Written(ins, 2), Abstract!Read(ins, 1))}
      BY <1>21, SameLocations DEF Abstract!Documented, Abstract!TwoOperand, Abstract!Compare,
        Abstract!Move, Abstract!Setcc, Assign, Clear
    <2> QED BY <2>1, <2>2, XADDDoes DEF Announced
  <1> QED BY <1>1, <1>2, <1>3, <1>4, <1>5, <1>6, <1>7, <1>8, <1>9, <1>10, <1>11, <1>12,
             <1>13, <1>14, <1>15, <1>16, <1>17, <1>18, <1>19, <1>20, <1>21

(* The handlers that are announced for some forms of operands only.        *)
LEMMA ConformingDoes ==
  ASSUME NEW ins \in Instruction, Conforms(ins), NEW U \in BOOLEAN
  PROVE
    /\ ins.iclass = "XOR" => Announced(ins, U)
    /\ ins.iclass \in {"CMP", "TEST"} => Announced(ins, U)
    /\ ins.iclass \in {"MUL", "DIV", "IDIV", "IMUL"} => Announced(ins, U)
    /\ ins.iclass \in {"SHLD", "SHRD", "BSF", "BSR", "LEA"} => Announced(ins, U)
    /\ ins.iclass = "XCHG" /\ (U => Abstract!Unaddressable(ins)) => Announced(ins, U)
    /\ ins.iclass \in SETccClass \cup {"CMPXCHG", "CPUID", "FNSTSW"} => Announced(ins, U)
  <1> DEFINE X == Abstract!Read(ins, 1)
             Y == Abstract!Read(ins, 2)
  <1>1. ASSUME ins.iclass = "XOR" PROVE Announced(ins, U)
    <2>1. instrument_functions(ins) = Instrument_XOR(ins)
      BY <1>1 DEF instrument_functions, SETccClass, EmptyClass
    <2> DEFINE same == /\ Abstract!OperandIs(ins, 1, "reg") /\ Abstract!OperandIs(ins, 2, "reg")
                       /\ X = Y
    <2>2. same <=> SameRegister(ins)
      <3>1. \A i : Abstract!OperandIs(ins, i, "reg") <=> Kind(ins, i) = "reg"
        BY DEF Abstract!OperandIs, Kind
      <3>2. /\ Kind(ins, 1) = "reg" => X = InReg(INS_OperandReg(ins, 1))
            /\ Kind(ins, 2) = "reg" => Y = InReg(INS_OperandReg(ins, 2))
        BY ReadOperand
      <3>3. ASSUME NEW q, NEW r, InReg(q) = InReg(r) PROVE q = r
        <4>1. <<"reg", q>> \in InReg(q) /\ \A l \in InReg(r) : l = <<"reg", r>>
          BY DEF InReg
        <4>2. <<"reg", q>> = <<"reg", r>>
          BY <3>3, <4>1
        <4> QED BY <4>2
      <3> HIDE DEF X, Y
      <3> QED BY <3>1, <3>2, <3>3 DEF SameRegister
    <2>3. Abstract!Documented(ins) =
            IF same THEN {Clear(X), Assign(Abstract!Flags, X)}
                    ELSE Abstract!DestAndFlags(ins, X \cup Y)
      BY <1>1 DEF Abstract!Documented, Abstract!TwoOperand, Abstract!Compare,
        Abstract!Move, Abstract!Setcc, Assign, Clear
    <2> HIDE DEF same
    <2>4. CASE SameRegister(ins)
      <3>1. {Clear(X)} \cup {Assign(Abstract!Flags, X)} = {Clear(X), Assign(Abstract!Flags, X)}
        OBVIOUS
      <3>2. Does(Instrument_XOR(ins), U, {Clear(X)} \cup {Assign(Abstract!Flags, X)})
        BY <2>4, XORDoes
      <3> QED BY <2>1, <2>2, <2>3, <2>4, <3>1, <3>2 DEF Announced
    <2>5. CASE ~SameRegister(ins)
      <3>1. Does(Instrument_XOR(ins), U, Abstract!DestAndFlags(ins, X \cup Y))
        BY <2>5, XORDoes
      <3> QED BY <2>1, <2>2, <2>3, <2>5, <3>1 DEF Announced
    <2> QED BY <2>4, <2>5
  <1>2. ASSUME ins.iclass \in {"CMP", "TEST"} PROVE Announced(ins, U)
    <2>1. Abstract!Documented(ins) = {Assign(Abstract!Flags, X \cup Y)}
      BY <1>2 DEF Abstract!Documented, Abstract!TwoOperand, Abstract!Compare,
        Abstract!Move, Abstract!Setcc, Assign
    <2>2. RM \in SUBSET RMI /\ RI \in SUBSET RMI /\ RMI \in SUBSET RMI
      BY Kinds
    <2>3. /\ Does(Instrument_CMP(ins), U, {Assign(Abstract!Flags, X \cup Y)})
          /\ Does(Instrument_TEST(ins), U, {Assign(Abstract!Flags, X \cup Y)})
      BY <2>2, CompareDoes DEF Instrument_CMP, Instrument_TEST
    <2>4. instrument_functions(ins) \in {Instrument_CMP(ins), Instrument_TEST(ins)}
      BY <1>2 DEF instrument_functions, SETccClass, EmptyClass
    <2> QED BY <2>1, <2>3, <2>4 DEF Announced
  <1>3. ASSUME ins.iclass \in {"MUL", "DIV", "IDIV", "IMUL"} PROVE Announced(ins, U)
    <2>1. CASE ins.iclass = "MUL" \/ (ins.iclass = "IMUL" /\ ins.explicit = 1)
      <3>1. ins.width # 32
        BY <2>1 DEF Conforms
      <3>2. instrument_functions(ins) = Instrument_MUL(ins)
        BY <2>1 DEF instrument_functions, Instrument_IMUL, SETccClass, EmptyClass
      <3>3. Abstract!Documented(ins) =
              {Assign(Abstract!Accumulator(ins) \cup Abstract!Extension(ins) \cup Abstract!Flags,
                      Abstract!Accumulator(ins) \cup X)}
        BY <2>1 DEF Abstract!Documented, Abstract!TwoOperand, Abstract!Compare,
        Abstract!Move, Abstract!Setcc, Assign
      <3> QED BY <3>1, <3>2, <3>3, MULDoes DEF Announced
    <2>2. CASE ins.iclass = "IMUL" /\ ins.explicit # 1
      <3>1. Kind(ins, 1) = "reg" /\ Kind(ins, 2) # "reg"
        BY <2>2 DEF Conforms
      <3>2. instrument_functions(ins) = Instrument_IMUL(ins)
        BY <2>2 DEF instrument_functions, SETccClass, EmptyClass
      <3>3. Abstract!Documented(ins) = Abstract!DestAndFlags(ins, X \cup Y)
        BY <2>2 DEF Abstract!Documented, Abstract!TwoOperand, Abstract!Compare,
        Abstract!Move, Abstract!Setcc
      <3> QED BY <2>2, <3>1, <3>2, <3>3, IMULDoes DEF Announced
    <2>3. CASE ins.iclass \in {"DIV", "IDIV"}
      <3>1. ins.width # 32
        BY <2>3 DEF Conforms
      <3>2. instrument_functions(ins) \in {Instrument_DIV(ins), Instrument_IDIV(ins)}
        BY <2>3 DEF instrument_functions, SETccClass, EmptyClass
      <3>3. Abstract!Documented(ins) = DivideFlow(ins)
        BY <2>3 DEF Abstract!Documented, Abstract!TwoOperand, Abstract!Compare,
        Abstract!Move, Abstract!Setcc, Assign, Clear, DivideFlow
      <3> QED BY <3>1, <3>2, <3>3, DIVDoes DEF Announced
    <2> QED BY <1>3, <2>1, <2>2, <2>3
  <1>4. ASSUME ins.iclass \in {"SHLD", "SHRD"} PROVE Announced(ins, U)
    <2>1. Kind(ins, 2) = "reg" /\ Kind(ins, 3) # "reg"
      BY <1>4 DEF Conforms
    <2>2. instrument_functions(ins) = Instrument_SHLD(ins)
      BY <1>4 DEF instrument_functions, SETccClass, EmptyClass
    <2>3. Abstract!Documented(ins) =
            Abstract!DestAndFlags(ins, X \cup Y \cup Abstract!Read(ins, 3))
      BY <1>4 DEF Abstract!Documented, Abstract!TwoOperand, Abstract!Compare,
        Abstract!Move, Abstract!Setcc
    <2> QED BY <2>1, <2>2, <2>3, SHLDDoes DEF Announced
  <1>5. ASSUME ins.iclass \in {"BSF", "BSR"} PROVE Announced(ins, U)
    <2>1. Kind(ins, 1) = "reg"
      BY <1>5 DEF Conforms
    <2>2. X = InReg(INS_OperandReg(ins, 1))
      BY <2>1, ReadOperand
    <2>3. instrument_functions(ins) = Instrument_BSF(ins)
      BY <1>5 DEF instrument_functions, SETccClass, EmptyClass
    <2>4. Abstract!Documented(ins) = {Clear(X)}
      BY <1>5 DEF Abstract!Documented, Abstract!TwoOperand, Abstract!Compare,
        Abstract!Move, Abstract!Setcc, Clear
    <2> QED BY <2>2, <2>3, <2>4, WipeDoes DEF Announced
  <1>6. ASSUME ins.iclass = "LEA" PROVE Announced(ins, U)
    <2>1. Kind(ins, 1) = "reg" /\ Kind(ins, 2) = "mem"
      BY <1>6 DEF Conforms
    <2>2. instrument_functions(ins) = Instrument_LEA(ins)
      BY <1>6 DEF instrument_functions, SETccClass, EmptyClass
    <2>3. Abstract!Documented(ins) =
            {Assign(X, InReg(ins.opnd[2].base) \cup InReg(ins.opnd[2].index))}
      BY <1>6, SameLocations DEF Abstract!Documented, Abstract!TwoOperand, Abstract!Compare,
        Abstract!Move, Abstract!Setcc, Assign
    <2> QED BY <2>1, <2>2, <2>3, LEADoes DEF Announced
  <1>7. ASSUME ins.iclass = "XCHG", U => Abstract!Unaddressable(ins) PROVE Announced(ins, U)
    <2>1. instrument_functions(ins) = Instrument_XCHG(ins)
      BY <1>7 DEF instrument_functions, SETccClass, EmptyClass
    <2>2. Abstract!Documented(ins) =
            {Assign(Abstract!Written(ins, 1), Y), Assign(Abstract!Written(ins, 2), X)}
      BY <1>7 DEF Abstract!Documented, Abstract!TwoOperand, Abstract!Compare,
        Abstract!Move, Abstract!Setcc, Assign
    <2> QED BY <1>7, <2>1, <2>2, XCHGDoes DEF Announced
  <1>8. ASSUME ins.iclass \in SETccClass PROVE Announced(ins, U)
    <2>1. Kind(ins, 1) = "reg"
      BY <1>8 DEF Conforms
    <2>2. instrument_functions(ins) = Instrument_SETcc(ins)
      BY <1>8 DEF instrument_functions, SETccClass, EmptyClass
    <2>3. Abstract!Documented(ins) = {Assign(Abstract!Written(ins, 1), Abstract!Flags)}
      BY <1>8 DEF Abstract!Documented, Abstract!TwoOperand, Abstract!Compare,
        Abstract!Move, Abstract!Setcc, SETccClass, Assign
    <2> QED BY <2>1, <2>2, <2>3, SETccDoes DEF Announced
  <1>9. ASSUME ins.iclass = "CMPXCHG" PROVE Announced(ins, U)
    <2>1. Kind(ins, 1) = "reg" /\ Kind(ins, 2) = "reg" /\ Kind(ins, 3) = "reg"
      BY <1>9 DEF Conforms
    <2>2. instrument_functions(ins) = Instrument_CMPXCHG(ins)
      BY <1>9 DEF instrument_functions, SETccClass, EmptyClass
    <2>3. Abstract!Documented(ins) =
            {Assign(Abstract!Written(ins, IF ins.equal THEN 1 ELSE 3), Y)}
      BY <1>9 DEF Abstract!Documented, Abstract!TwoOperand, Abstract!Compare,
        Abstract!Move, Abstract!Setcc, Assign
    <2> QED BY <2>1, <2>2, <2>3, CMPXCHGDoes DEF Announced
  <1>10. ASSUME ins.iclass = "CPUID" PROVE Announced(ins, U)
    <2> DEFINE all == InReg("EAX") \cup InReg("EBX") \cup InReg("ECX") \cup InReg("EDX")
    <2>1. instrument_functions(ins) = Instrument_CPUID(ins)
      BY <1>10 DEF instrument_functions, SETccClass, EmptyClass
    <2>2. UNION {Abstract!InReg(r) : r \in {"EAX", "EBX", "ECX", "EDX"}} = all
      BY DEF Abstract!InReg, InReg
    <2>3. Abstract!Documented(ins) =
            {Clear(UNION {Abstract!InReg(r) : r \in {"EAX", "EBX", "ECX", "EDX"}})}
      BY <1>10 DEF Abstract!Documented, Abstract!TwoOperand, Abstract!Compare,
        Abstract!Move, Abstract!Setcc, Clear
    <2> HIDE DEF all
    <2>4. Abstract!Documented(ins) = {Clear(all)}
      BY <2>2, <2>3
    <2>5. Does(Instrument_CPUID(ins), U, {Clear(all)})
      BY WipeDoes DEF all
    <2> QED BY <2>1, <2>4, <2>5 DEF Announced
  <1>11. ASSUME ins.iclass = "FNSTSW" PROVE Announced(ins, U)
    <2>1. instrument_functions(ins) = Instrument_FNSTSW(ins)
      BY <1>11 DEF instrument_functions, SETccClass, EmptyClass
    <2>2. Abstract!Documented(ins) = IF Kind(ins, 1) = "reg" THEN {Clear(X)} ELSE {}
      BY <1>11 DEF Abstract!Documented, Abstract!TwoOperand, Abstract!Compare,
        Abstract!Move, Abstract!Setcc, Clear, Kind, Abstract!OperandIs
    <2>3. CASE Kind(ins, 1) = "reg"
      <3>1. X = InReg(INS_OperandReg(ins, 1))
        BY <2>3, ReadOperand
      <3>2. instrument_functions(ins) = Instrument_BSF(ins)
        BY <2>1, <2>3 DEF Instrument_FNSTSW, Instrument_BSF
      <3> QED BY <2>2, <2>3, <3>1, <3>2, WipeDoes DEF Announced
    <2>4. CASE Kind(ins, 1) # "reg"
      <3>1. instrument_functions(ins) = <<>> /\ Abstract!Documented(ins) = {}
        BY <2>1, <2>2, <2>4 DEF Instrument_FNSTSW
      <3> QED BY <3>1, NothingDoes DEF Announced
    <2> QED BY <2>3, <2>4
  <1> QED BY <1>1, <1>2, <1>3, <1>4, <1>5, <1>6, <1>7, <1>8, <1>9, <1>10, <1>11

(* No other handler inserts anything, and nothing is announced for it.     *)
LEMMA HandlerDoes ==
  ASSUME NEW ins \in Instruction, Conforms(ins), NEW U \in BOOLEAN,
         ins.iclass = "XCHG" => (U => Abstract!Unaddressable(ins))
  PROVE  Announced(ins, U)
  <1> DEFINE plain == {"ADD", "AND", "OR", "SUB", "ADC", "SBB", "DEC", "INC", "NEG", "SAR",
               "SHL", "SHR", "MOV", "MOVZX", "MOVSX", "MOVDQU", "LDDQU", "PUSH", "POP",
               "PUSHFD", "CWDE", "CDQ", "MOVSB", "MOVSW", "MOVSD", "CMPSB", "STOSB", "STOSD",
               "SCASB", "CLD", "STD", "RDTSC", "FNSTCW", "STMXCSR", "XADD"}
             some == {"XOR", "CMP", "TEST", "MUL", "DIV", "IDIV", "IMUL", "SHLD", "SHRD",
               "BSF", "BSR", "LEA", "XCHG", "CMPXCHG", "CPUID", "FNSTSW"} \cup SETccClass
  <1>1. CASE ins.iclass \in plain
    BY <1>1, PlainDoes
  <1>2. CASE ins.iclass \in some
    BY <1>2, ConformingDoes
  <1>3. CASE ins.iclass \notin plain \cup some
    <2>1. ins.iclass # "POPFD"
      BY DEF Conforms
    <2>2. instrument_functions(ins) = <<>>
      BY <1>3, <2>1 DEF instrument_functions, EmptyHandler, UnimplementedInstruction
    <2>3. Abstract!Documented(ins) = {}
      BY <1>3, <2>1 DEF Abstract!Documented, Abstract!TwoOperand, Abstract!Compare,
        Abstract!Move, Abstract!Setcc, SETccClass
    <2> QED BY <2>2, <2>3, NothingDoes DEF Announced
  <1> QED BY <1>1, <1>2, <1>3

(* The calls a conforming handler inserts make, run from any state,         *)
(* the flow its comments announce: each store gathers what its sources     *)
(* held before the first call, residue of the scratch sets has no effect,  *)
(* and the open branches stay as they are.                                 *)
THEOREM HandlerFlow ==
  ASSUME NEW ins \in Instruction, Conforms(ins), Dataflow(ins) # <<Abort>>,
         NEW A \in Config, NEW C, Runs(Dataflow(ins), A, C)
  PROVE  C.control = A.control /\ FlowsTo(Abstract!Flow(ins), A, C)
  <1> DEFINE h == instrument_functions(ins)
             U == Returns(h)
             D == Abstract!Documented(ins)
  <1>1. U \in BOOLEAN /\ (D # {} => (U <=> Abstract!Unaddressable(ins)))
    BY DEF Conforms, Returns
  <1>2. ins.iclass = "XCHG" => D # {}
    BY DEF Abstract!Documented, Abstract!TwoOperand, Abstract!Compare, Abstract!Move,
      Abstract!Setcc
  <1>3. h \in Seq(Statement)
    BY HandlersLoadFirst DEF Feed
  <1> HIDE DEF U, D
  <1>4. Does(h, U, D)
    <2>1. Announced(ins, U)
      BY <1>1, <1>2, HandlerDoes
    <2> QED BY <2>1 DEF Announced, D
  <1>5. Yields(h, U, A, C)
    BY <1>3 DEF Yields, Dataflow, U
  <1>6. Goal(U, D, A, C)
    BY <1>4, <1>5 DEF Does
  <1>7. (IF U THEN {} ELSE D) = Abstract!Flow(ins)
    BY <1>1 DEF Abstract!Flow, D
  <1> QED BY <1>6, <1>7 DEF Goal
-----------------------------------------------------------------------------
(* The configuration that maps and scratch sets amount to.                 *)
MapsOK(reg, mem, control, sets) ==
  /\ IsMap(reg, REG, SUBSET Mark) /\ IsMap(mem, ADDRINT, SUBSET Mark)
  /\ IsMap(control, CODE, SUBSET Mark) /\ sets \in [Scratch -> SUBSET Mark]

Of(reg, mem, control, sets) ==
  [loc |-> [l \in Location |-> IF l[1] = "reg" THEN Get(reg, l[2]) ELSE Get(mem, l[2])],
   control |-> Total(control, CODE), scratch |-> sets]

(* What a lookup yields.                                                   *)
LEMMA GetType ==
  ASSUME NEW map, NEW K, IsMap(map, K, SUBSET Mark), NEW k
  PROVE  Get(map, k) \in SUBSET Mark
  BY DEF IsMap, Get

(* The configuration, location by location.                                *)
LEMMA OfIs ==
  ASSUME NEW reg, NEW mem, NEW control, NEW sets, MapsOK(reg, mem, control, sets)
  PROVE  LET A == Of(reg, mem, control, sets) IN
         /\ A \in Config /\ A.scratch = sets
         /\ \A r \in REG : A.loc[<<"reg", r>>] = Get(reg, r)
         /\ \A a \in ADDRINT : A.loc[<<"mem", a>>] = Get(mem, a)
         /\ \A c \in CODE : A.control[c] = Get(control, c)
         /\ Open(A) = Marks(control)
         /\ \A r \in REG : Marked(A, InReg(r)) = Get(reg, r)
         /\ \A m \in SUBSET ADDRINT : Marked(A, InMem(m)) = UNION {Get(mem, a) : a \in m}
  <1> DEFINE A == Of(reg, mem, control, sets)
  <1>1. /\ A.loc = [l \in Location |-> IF l[1] = "reg" THEN Get(reg, l[2]) ELSE Get(mem, l[2])]
        /\ A.control = [c \in CODE |-> Get(control, c)] /\ A.scratch = sets
        /\ A = [loc |-> A.loc, control |-> A.control, scratch |-> A.scratch]
    BY DEF Of, Total
  <1>2. \A k : Get(reg, k) \in SUBSET Mark /\ Get(mem, k) \in SUBSET Mark
                /\ Get(control, k) \in SUBSET Mark
    BY GetType DEF MapsOK
  <1> HIDE DEF A
  <1>3. A \in Config
    BY <1>1, <1>2 DEF Config, MapsOK
  <1>4. /\ \A r \in REG : A.loc[<<"reg", r>>] = Get(reg, r)
        /\ \A a \in ADDRINT : A.loc[<<"mem", a>>] = Get(mem, a)
        /\ \A c \in CODE : A.control[c] = Get(control, c)
    BY <1>1 DEF Location
  <1>5. Open(A) = Marks(control)
    <2>1. \A c : c \in DOMAIN control => c \in CODE
      BY DEF MapsOK, IsMap
    <2> QED BY <1>4, <2>1 DEF Open, Marks, Get
  <1>6. \A r \in REG : Marked(A, InReg(r)) = Get(reg, r)
    BY <1>4 DEF Marked, InReg
  <1>7. ASSUME NEW m \in SUBSET ADDRINT
        PROVE  Marked(A, InMem(m)) = UNION {Get(mem, a) : a \in m}
    <2>1. ASSUME NEW l \in InMem(m) PROVE \E a \in m : A.loc[l] = Get(mem, a)
      <3>1. PICK a \in m : l = <<"mem", a>>
        BY DEF InMem
      <3> QED BY <1>4, <3>1
    <2>2. ASSUME NEW a \in m PROVE \E l \in InMem(m) : A.loc[l] = Get(mem, a)
      <3>1. <<"mem", a>> \in InMem(m)
        BY DEF InMem
      <3> QED BY <1>4, <3>1
    <2>3. Marked(A, InMem(m)) \subseteq UNION {Get(mem, a) : a \in m}
      BY <2>1, Zenon DEF Marked
    <2>4. UNION {Get(mem, a) : a \in m} \subseteq Marked(A, InMem(m))
      BY <2>2, Zenon DEF Marked
    <2> QED BY <2>3, <2>4
  <1> QED BY <1>1, <1>3, <1>4, <1>5, <1>6, <1>7 DEF A

(* Writing some keys of a map.                                             *)
LEMMA GetPut ==
  ASSUME NEW map, NEW K, NEW v, NEW k
  PROVE  /\ Get(Put(map, K, v), k) = IF k \in K THEN v ELSE Get(map, k)
         /\ Get(Erase(map, K), k) = IF k \in K THEN {} ELSE Get(map, k)
  BY DEF Get, Put, Erase

Now == Of(regTaintMap, memTaintMap, controlTaintMap, scratch)
Then == Of(before.reg, before.mem, before.control, scratch)

(* A location is a register or a byte.                                     *)
LEMMA LocationIs ==
  ASSUME NEW l \in Location
  PROVE  \/ \E r \in REG : l = <<"reg", r>>
         \/ \E a \in ADDRINT : l = <<"mem", a>>
  BY DEF Location

-----------------------------------------------------------------------------
(* What the analysis calls do to the configuration.                        *)

(* The configuration before and after a step.                              *)
LEMMA NowIs ==
  ASSUME TypeOK
  PROVE  /\ Now \in Config /\ Now.scratch = scratch
         /\ \A r \in REG : Now.loc[<<"reg", r>>] = Get(regTaintMap, r)
         /\ \A a \in ADDRINT : Now.loc[<<"mem", a>>] = Get(memTaintMap, a)
         /\ \A c \in CODE : Now.control[c] = Get(controlTaintMap, c)
         /\ Open(Now) = ControlTaint
         /\ \A r \in REG : Marked(Now, InReg(r)) = Get(regTaintMap, r)
         /\ \A m \in SUBSET ADDRINT :
              Marked(Now, InMem(m)) = UNION {Get(memTaintMap, a) : a \in m}
         /\ \A from : Union(Now, from) = Combined(from)
  <1>1. MapsOK(regTaintMap, memTaintMap, controlTaintMap, scratch)
    BY DEF MapsOK, TypeOK
  <1>2. Now \in Config /\ Now.scratch = scratch /\ Open(Now) = ControlTaint
    BY <1>1, OfIs DEF Now, ControlTaint
  <1>3. \A from : Union(Now, from) = Combined(from)
    BY <1>2 DEF Union, Combined
  <1> QED BY <1>1, <1>2, <1>3, OfIs DEF Now

(* The routines that fill a scratch set.                                   *)
LEMMA LoadEffect ==
  ASSUME TypeOK, TypeOK', NEW t \in Thread,
         ClearTaintSet(t) \/ TaintForRegister(t) \/ TaintForMemory(t)
  PROVE  Effect(Head(todo[t]), Now, Now')
  <1> DEFINE c == Head(todo[t])
  <1>1. PICK op \in {"ClearTaintSet", "TaintForRegister", "TaintForMemory"} : At(t, op)
    BY DEF ClearTaintSet, TaintForRegister, TaintForMemory
  <1>2. c \in Call /\ c.op = op
    BY <1>1, NextCall
  <1>3. c.set \in Scratch
    BY <1>1, <1>2, CallArguments
  <1> DEFINE marks == IF op = "ClearTaintSet" THEN {}
                      ELSE IF op = "TaintForRegister" THEN Get(regTaintMap, c.reg)
                      ELSE UNION {Get(memTaintMap, a) : a \in c.mem}
  <1>4. Load(t, c.set, marks)
    BY <1>1, <1>2 DEF At, ClearTaintSet, TaintForRegister, TaintForMemory
  <1>5. /\ scratch' = [scratch EXCEPT ![c.set] = marks]
        /\ UNCHANGED <<regTaintMap, memTaintMap, controlTaintMap>>
    BY <1>4 DEF Load, maps
  <1>6. /\ op = "ClearTaintSet" => marks = {}
        /\ op = "TaintForRegister" => marks = Marked(Now, InReg(c.reg))
        /\ op = "TaintForMemory" => marks = Marked(Now, InMem(c.mem))
    BY <1>2, CallArguments, NowIs
  <1> HIDE DEF c, marks
  <1>7. Loaded(Now, Now', c.set, marks)
    <2>1. Now'.loc = Now.loc /\ Now'.control = Now.control
      BY <1>5 DEF Now, Of
    <2>2. Now'.scratch = scratch' /\ Now.scratch = scratch
      BY NowIs DEF Now, Of
    <2> QED BY <1>3, <1>5, <2>1, <2>2 DEF Loaded, TypeOK
  <1>8. Effect(c, Now, Now')
    BY <1>1, <1>2, <1>6, <1>7 DEF Effect
  <1> QED BY <1>8 DEF c

(* A step that changes one map leaves the rest of the configuration.       *)
LEMMA OtherParts ==
  ASSUME TypeOK, TypeOK', UNCHANGED scratch
  PROVE  /\ Now'.scratch = Now.scratch
         /\ UNCHANGED controlTaintMap => Now'.control = Now.control
         /\ UNCHANGED <<regTaintMap, memTaintMap>> => Now'.loc = Now.loc
         /\ Now' \in Config
         /\ \A r \in REG : Now.loc[<<"reg", r>>] = Get(regTaintMap, r)
                           /\ Now'.loc[<<"reg", r>>] = Get(regTaintMap', r)
         /\ \A a \in ADDRINT : Now.loc[<<"mem", a>>] = Get(memTaintMap, a)
                           /\ Now'.loc[<<"mem", a>>] = Get(memTaintMap', a)
         /\ \A x \in CODE : Now.control[x] = Get(controlTaintMap, x)
                           /\ Now'.control[x] = Get(controlTaintMap', x)
  <1>1. MapsOK(regTaintMap, memTaintMap, controlTaintMap, scratch)
    BY DEF MapsOK, TypeOK
  <1>2. MapsOK(regTaintMap', memTaintMap', controlTaintMap', scratch')
    BY DEF MapsOK, TypeOK
  <1>3. Now' = Of(regTaintMap', memTaintMap', controlTaintMap', scratch')
    BY DEF Now, Of
  <1>4. /\ Now' \in Config /\ Now'.scratch = scratch'
        /\ \A r \in REG : Now'.loc[<<"reg", r>>] = Get(regTaintMap', r)
        /\ \A a \in ADDRINT : Now'.loc[<<"mem", a>>] = Get(memTaintMap', a)
        /\ \A x \in CODE : Now'.control[x] = Get(controlTaintMap', x)
    BY <1>2, <1>3, OfIs
  <1>5. /\ UNCHANGED controlTaintMap => Now'.control = Now.control
        /\ UNCHANGED <<regTaintMap, memTaintMap>> => Now'.loc = Now.loc
    BY DEF Now, Of
  <1> QED BY <1>1, <1>4, <1>5, NowIs

(* The register map is written.                                            *)
LEMMA SetRegisterEffect ==
  ASSUME TypeOK, TypeOK', NEW t \in Thread, SetTaintForRegister(t)
  PROVE  Effect(Head(todo[t]), Now, Now')
  <1> DEFINE c == Head(todo[t])
             K == IF c.reg \in {"ESP", "EBP"} THEN {} ELSE {c.reg} \cup SubRegisters(c.reg)
             v == Combined(c.from)
  <1>1. c \in Call /\ c.op = "SetTaintForRegister"
    BY NextCall DEF SetTaintForRegister
  <1>2. /\ UNCHANGED <<scratch, memTaintMap, controlTaintMap>>
        /\ regTaintMap' = IF c.reg \in {"ESP", "EBP"} THEN regTaintMap
                          ELSE Put(regTaintMap, {c.reg} \cup SubRegisters(c.reg), v)
    BY DEF SetTaintForRegister
  <1>3. v = Union(Now, c.from)
    BY NowIs
  <1>4. Reached(c.reg) = {"reg"} \X K
    BY DEF Reached
  <1>5. \A r : Get(regTaintMap', r) = IF r \in K THEN v ELSE Get(regTaintMap, r)
    BY <1>2, GetPut
  <1> HIDE DEF c, K, v
  <1>6. Wrote(Now, Now', Reached(c.reg), v)
    <2>1. ASSUME NEW l \in Location
          PROVE  Now'.loc[l] = IF l \in Reached(c.reg) THEN v ELSE Now.loc[l]
      <3>1. CASE \E r \in REG : l = <<"reg", r>>
        <4>1. PICK r \in REG : l = <<"reg", r>>
          BY <3>1
        <4>2. l \in Reached(c.reg) <=> r \in K
          BY <1>4, <4>1
        <4> QED BY <1>2, <1>5, <4>1, <4>2, OtherParts
      <3>2. CASE \E a \in ADDRINT : l = <<"mem", a>>
        <4>1. PICK a \in ADDRINT : l = <<"mem", a>>
          BY <3>2
        <4>2. l \notin Reached(c.reg)
          BY <1>4, <4>1
        <4> QED BY <1>2, <4>1, <4>2, OtherParts
      <3> QED BY <3>1, <3>2, LocationIs
    <2> QED BY <1>2, <2>1, OtherParts DEF Wrote
  <1>7. Effect(c, Now, Now')
    BY <1>1, <1>3, <1>6 DEF Effect
  <1> QED BY <1>7 DEF c

(* A register without an entry is left alone, one with an entry keeps the  *)
(* control taint.                                                          *)
LEMMA ClearRegisterEffect ==
  ASSUME TypeOK, TypeOK', NEW t \in Thread, ClearTaintForRegister(t)
  PROVE  Effect(Head(todo[t]), Now, Now')
  <1> DEFINE c == Head(todo[t])
             K == {c.reg} \cap DOMAIN regTaintMap
  <1>1. c \in Call /\ c.op = "ClearTaintForRegister"
    BY NextCall DEF ClearTaintForRegister
  <1>2. /\ UNCHANGED <<scratch, memTaintMap, controlTaintMap>>
        /\ regTaintMap' = Put(regTaintMap, K, ControlTaint)
    BY DEF ClearTaintForRegister
  <1>3. ControlTaint = Open(Now)
    BY NowIs
  <1>4. \A r : Get(regTaintMap', r) = IF r \in K THEN ControlTaint ELSE Get(regTaintMap, r)
    BY <1>2, GetPut
  <1>5. \A r : r \in K => r = c.reg
    OBVIOUS
  <1>6. \A r : r = c.reg /\ r \notin K => Get(regTaintMap, r) = {}
    BY DEF Get
  <1> HIDE DEF c, K
  <1>7. Cleared(Now, Now', InReg(c.reg))
    <2>1. ASSUME NEW l \in Location
          PROVE  IF l \in InReg(c.reg) THEN Now'.loc[l] \in {{}, Open(Now)}
                                       ELSE Now'.loc[l] = Now.loc[l]
      <3>1. CASE \E r \in REG : l = <<"reg", r>>
        <4>1. PICK r \in REG : l = <<"reg", r>>
          BY <3>1
        <4>2. l \in InReg(c.reg) <=> r = c.reg
          BY <4>1 DEF InReg
        <4>3. Now'.loc[l] = Get(regTaintMap', r) /\ Now.loc[l] = Get(regTaintMap, r)
          BY <1>2, <4>1, OtherParts
        <4> QED BY <1>3, <1>4, <1>5, <1>6, <4>2, <4>3
      <3>2. CASE \E a \in ADDRINT : l = <<"mem", a>>
        <4>1. PICK a \in ADDRINT : l = <<"mem", a>>
          BY <3>2
        <4>2. l \notin InReg(c.reg)
          BY <4>1 DEF InReg
        <4> QED BY <1>2, <4>1, <4>2, OtherParts
      <3> QED BY <3>1, <3>2, LocationIs
    <2> QED BY <1>2, <2>1, OtherParts DEF Cleared
  <1>8. Effect(c, Now, Now')
    BY <1>1, <1>7 DEF Effect
  <1> QED BY <1>8 DEF c

(* The memory map is written.                                              *)
LEMMA SetMemoryEffect ==
  ASSUME TypeOK, TypeOK', NEW t \in Thread, SetTaintForMemory(t)
  PROVE  Effect(Head(todo[t]), Now, Now')
  <1> DEFINE c == Head(todo[t])
             v == Combined(c.from)
  <1>1. c \in Call /\ c.op = "SetTaintForMemory"
    BY NextCall DEF SetTaintForMemory
  <1>2. /\ UNCHANGED <<scratch, regTaintMap, controlTaintMap>>
        /\ memTaintMap' = Put(memTaintMap, c.mem, v)
    BY DEF SetTaintForMemory
  <1>3. v = Union(Now, c.from)
    BY NowIs
  <1>5. \A a : Get(memTaintMap', a) = IF a \in c.mem THEN v ELSE Get(memTaintMap, a)
    BY <1>2, GetPut
  <1> HIDE DEF c, v
  <1>6. Wrote(Now, Now', InMem(c.mem), v)
    <2>1. ASSUME NEW l \in Location
          PROVE  Now'.loc[l] = IF l \in InMem(c.mem) THEN v ELSE Now.loc[l]
      <3>1. CASE \E r \in REG : l = <<"reg", r>>
        <4>1. PICK r \in REG : l = <<"reg", r>>
          BY <3>1
        <4>2. l \notin InMem(c.mem)
          BY <4>1 DEF InMem
        <4> QED BY <1>2, <4>1, <4>2, OtherParts
      <3>2. CASE \E a \in ADDRINT : l = <<"mem", a>>
        <4>1. PICK a \in ADDRINT : l = <<"mem", a>>
          BY <3>2
        <4>2. l \in InMem(c.mem) <=> a \in c.mem
          BY <4>1 DEF InMem
        <4> QED BY <1>2, <1>5, <4>1, <4>2, OtherParts
      <3> QED BY <3>1, <3>2, LocationIs
    <2> QED BY <1>2, <2>1, OtherParts DEF Wrote
  <1>7. Effect(c, Now, Now')
    BY <1>1, <1>3, <1>6 DEF Effect
  <1> QED BY <1>7 DEF c

(* The same for bytes.                                                     *)
LEMMA ClearMemoryEffect ==
  ASSUME TypeOK, TypeOK', NEW t \in Thread, ClearTaintForMemory(t)
  PROVE  Effect(Head(todo[t]), Now, Now')
  <1> DEFINE c == Head(todo[t])
             K == c.mem \cap DOMAIN memTaintMap
  <1>1. c \in Call /\ c.op = "ClearTaintForMemory"
    BY NextCall DEF ClearTaintForMemory
  <1>2. /\ UNCHANGED <<scratch, regTaintMap, controlTaintMap>>
        /\ memTaintMap' = Put(memTaintMap, K, ControlTaint)
    BY DEF ClearTaintForMemory
  <1>3. ControlTaint = Open(Now)
    BY NowIs
  <1>4. \A a : Get(memTaintMap', a) = IF a \in K THEN ControlTaint ELSE Get(memTaintMap, a)
    BY <1>2, GetPut
  <1>5. \A a : a \in K => a \in c.mem
    OBVIOUS
  <1>6. \A a : a \in c.mem /\ a \notin K => Get(memTaintMap, a) = {}
    BY DEF Get
  <1> HIDE DEF c, K
  <1>7. Cleared(Now, Now', InMem(c.mem))
    <2>1. ASSUME NEW l \in Location
          PROVE  IF l \in InMem(c.mem) THEN Now'.loc[l] \in {{}, Open(Now)}
                                       ELSE Now'.loc[l] = Now.loc[l]
      <3>1. CASE \E r \in REG : l = <<"reg", r>>
        <4>1. PICK r \in REG : l = <<"reg", r>>
          BY <3>1
        <4>2. l \notin InMem(c.mem)
          BY <4>1 DEF InMem
        <4> QED BY <1>2, <4>1, <4>2, OtherParts
      <3>2. CASE \E a \in ADDRINT : l = <<"mem", a>>
        <4>1. PICK a \in ADDRINT : l = <<"mem", a>>
          BY <3>2
        <4>2. l \in InMem(c.mem) <=> a \in c.mem
          BY <4>1 DEF InMem
        <4>3. Now'.loc[l] = Get(memTaintMap', a) /\ Now.loc[l] = Get(memTaintMap, a)
          BY <1>2, <4>1, OtherParts
        <4> QED BY <1>3, <1>4, <1>5, <1>6, <4>2, <4>3
      <3> QED BY <3>1, <3>2, LocationIs
    <2> QED BY <1>2, <2>1, OtherParts DEF Cleared
  <1>8. Effect(c, Now, Now')
    BY <1>1, <1>7 DEF Effect
  <1> QED BY <1>8 DEF c

(* A branch is opened, or closed.                                          *)
LEMMA ControlEffect ==
  ASSUME TypeOK, TypeOK', NEW t \in Thread, PushControl(t) \/ PopControl(t)
  PROVE  Effect(Head(todo[t]), Now, Now')
  <1> DEFINE c == Head(todo[t])
  <1>1. UNCHANGED <<scratch, regTaintMap, memTaintMap>>
    BY DEF PushControl, PopControl
  <1>2. Now'.loc = Now.loc /\ Now'.scratch = Now.scratch
    BY <1>1, OtherParts
  <1>3. CASE PushControl(t)
    <2> DEFINE flags == Get(regTaintMap, "RFLAGS")
               old == Get(controlTaintMap, c.addr)
    <2>1. c \in Call /\ c.op = "PushControl"
      BY <1>3, NextCall DEF PushControl
    <2>2. controlTaintMap' = IF flags = {} THEN controlTaintMap
                             ELSE Put(controlTaintMap, {c.addr}, old \cup flags)
      BY <1>3 DEF PushControl
    <2>3. flags = Now.loc[<<"reg", "RFLAGS">>]
      <3>1. "RFLAGS" \in REG
        BY RegAssumption DEF NamedRegisters
      <3> QED BY <3>1, NowIs
    <2> HIDE DEF c, flags
    <2>4. \A x : Get(controlTaintMap', x) =
                   Get(controlTaintMap, x) \cup (IF x = c.addr THEN flags ELSE {})
      <3>1. CASE flags = {}
        BY <2>2, <3>1
      <3>2. CASE flags # {}
        <4>1. \A x : Get(controlTaintMap', x) =
                       IF x \in {c.addr} THEN old \cup flags ELSE Get(controlTaintMap, x)
          BY <2>2, <3>2, GetPut
        <4> QED BY <4>1
      <3> QED BY <3>1, <3>2
    <2>5. \A x \in CODE : Now'.control[x] =
            Now.control[x] \cup (IF x = c.addr THEN Now.loc[<<"reg", "RFLAGS">>] ELSE {})
      BY <1>1, <2>3, <2>4, OtherParts
    <2>6. Effect(c, Now, Now')
      BY <1>2, <2>1, <2>5 DEF Effect
    <2> QED BY <2>6 DEF c
  <1>4. CASE PopControl(t)
    <2>1. c \in Call /\ c.op = "PopControl"
      BY <1>4, NextCall DEF PopControl
    <2>2. controlTaintMap' = Erase(controlTaintMap, Popped(c.addrs))
      BY <1>4 DEF PopControl
    <2>3. c.addrs \in Seq(CODE)
      BY <2>1, CallArguments
    <2> HIDE DEF c
    <2>4. ASSUME Len(c.addrs) = 1
          PROVE  \A x \in CODE : Now'.control[x] = IF x = c.addrs[1] THEN {} ELSE Now.control[x]
      <3>1. \A x : x \in Popped(c.addrs) =>
                     x = c.addrs[1]
        BY <2>3, <2>4 DEF Popped
      <3>2. c.addrs[1] \in DOMAIN controlTaintMap => c.addrs[1] \in Popped(c.addrs)
        <4>1. 1 \in DOMAIN c.addrs /\ \A k \in 1 .. 1 : k = 1
          BY <2>3, <2>4
        <4> QED BY <4>1 DEF Popped
      <3>3. ASSUME NEW x \in CODE
            PROVE  Now'.control[x] = IF x = c.addrs[1] THEN {} ELSE Now.control[x]
        <4>1. Now'.control[x] = Get(controlTaintMap', x)
              /\ Now.control[x] = Get(controlTaintMap, x)
          BY <1>1, OtherParts
        <4>2. Get(controlTaintMap', x) =
                IF x \in Popped(c.addrs) THEN {} ELSE Get(controlTaintMap, x)
          BY <2>2 DEF Get, Erase
        <4>3. x \notin DOMAIN controlTaintMap => Get(controlTaintMap, x) = {}
          BY DEF Get
        <4> QED BY <3>1, <3>2, <4>1, <4>2, <4>3
      <3> QED BY <3>3
    <2>5. Effect(c, Now, Now')
      BY <1>2, <2>1, <2>4 DEF Effect
    <2> QED BY <2>5 DEF c
  <1> QED BY <1>3, <1>4

(* Every analysis routine has the effect of its call.                      *)
LEMMA CallEffect ==
  ASSUME TypeOK, TypeOK', NEW t \in Thread, AnalysisCall(t)
  PROVE  Effect(Head(todo[t]), Now, Now')
  BY LoadEffect, SetRegisterEffect, ClearRegisterEffect, SetMemoryEffect,
     ClearMemoryEffect, ControlEffect DEF AnalysisCall

(* The branches PushControl and PopControl leave open before ins.          *)
ControlDone(ins, A, B) ==
  /\ B.loc = A.loc
  /\ \A c \in CODE : B.control[c] =
       IF \E i \in DOMAIN ins.pop : ins.pop[i] = c THEN {}
       ELSE A.control[c] \cup (IF c \in ins.push THEN A.loc[<<"reg", "RFLAGS">>] ELSE {})

PushCalls(push) ==
  IF push = {} THEN <<>>
  ELSE <<[op |-> "PushControl", addr |-> CHOOSE a \in push : TRUE]>>
PopCalls(pop) == IF pop = <<>> THEN <<>> ELSE <<[op |-> "PopControl", addrs |-> pop]>>

(* PushControl, if it was inserted, adds the marks of the flags.           *)
LEMMA PushRuns ==
  ASSUME NEW push \in SUBSET CODE, \A x, y \in push : x = y, NEW d \in Seq(Call),
         NEW A \in Config, NEW C,
         Runs(PushCalls(push) \o d, A, C)
  PROVE  \E B \in Config :
           /\ B.loc = A.loc /\ Runs(d, B, C)
           /\ \A c \in CODE : B.control[c] =
                A.control[c] \cup (IF c \in push THEN A.loc[<<"reg", "RFLAGS">>] ELSE {})
  <1>1. CASE push = {}
    <2>1. <<>> \o d = d
      OBVIOUS
    <2>2. Runs(d, A, C)
      BY <1>1, <2>1 DEF PushCalls
    <2>3. \A c \in CODE : A.control[c] =
            A.control[c] \cup (IF c \in push THEN A.loc[<<"reg", "RFLAGS">>] ELSE {})
      BY <1>1
    <2> QED BY <2>2, <2>3, Zenon
  <1>2. CASE push # {}
    <2> DEFINE a == CHOOSE x \in push : TRUE
               k == [op |-> "PushControl", addr |-> a]
    <2>1. a \in push
      BY <1>2
    <2> HIDE DEF a
    <2>2. k \in Call /\ k.op = "PushControl" /\ k.addr = a
      BY <2>1 DEF Call
    <2>3. Runs(<<k>> \o d, A, C)
      BY <1>2 DEF a, PushCalls
    <2> HIDE DEF k
    <2>4. PICK B \in Config : Effect(k, A, B) /\ Runs(d, B, C)
      BY <2>2, <2>3, RunsFirst
    <2>5. \A c : c = a <=> c \in push
      BY <2>1
    <2>6. B.loc = A.loc /\ \A c \in CODE : B.control[c] =
            A.control[c] \cup (IF c = a THEN A.loc[<<"reg", "RFLAGS">>] ELSE {})
      BY <2>2, <2>4 DEF Effect
    <2>7. \A c \in CODE : B.control[c] =
            A.control[c] \cup (IF c \in push THEN A.loc[<<"reg", "RFLAGS">>] ELSE {})
      BY <2>5, <2>6
    <2> QED BY <2>4, <2>6, <2>7
  <1> QED BY <1>1, <1>2

(* PopControl of one branch, if it was inserted, closes it.                *)
LEMMA PopRuns ==
  ASSUME NEW pop \in Seq(CODE), Len(pop) <= 1, NEW d \in Seq(Call),
         NEW A \in Config, NEW C,
         Runs(PopCalls(pop) \o d, A, C)
  PROVE  \E B \in Config :
           /\ B.loc = A.loc /\ Runs(d, B, C)
           /\ \A c \in CODE : B.control[c] =
                IF \E i \in DOMAIN pop : pop[i] = c THEN {} ELSE A.control[c]
  <1>1. CASE pop = <<>>
    <2>1. <<>> \o d = d /\ DOMAIN pop = {}
      BY <1>1
    <2>2. Runs(d, A, C)
      BY <1>1, <2>1 DEF PopCalls
    <2> QED BY <2>1, <2>2
  <1>2. CASE pop # <<>>
    <2> DEFINE k == [op |-> "PopControl", addrs |-> pop]
    <2>1. DOMAIN pop = {1} /\ Len(pop) = 1
      <3>1. Len(pop) \in Nat /\ Len(pop) # 0 /\ DOMAIN pop = 1 .. Len(pop)
        BY <1>2
      <3>2. Len(pop) = 1
        BY <3>1
      <3> QED BY <3>1, <3>2
    <2>2. k \in Call /\ k.op = "PopControl" /\ k.addrs = pop
      BY DEF Call
    <2>3. Runs(<<k>> \o d, A, C)
      BY <1>2 DEF PopCalls
    <2> HIDE DEF k
    <2>4. PICK B \in Config : Effect(k, A, B) /\ Runs(d, B, C)
      BY <2>2, <2>3, RunsFirst
    <2>5. B.loc = A.loc /\ \A c \in CODE : B.control[c] =
            IF c = pop[1] THEN {} ELSE A.control[c]
      BY <2>1, <2>2, <2>4 DEF Effect
    <2>6. \A c : (\E i \in DOMAIN pop : pop[i] = c) <=> c = pop[1]
      BY <2>1
    <2> QED BY <2>4, <2>5, <2>6
  <1> QED BY <1>1, <1>2

(* The calls of Controlflow precede the ones of the handler.               *)
LEMMA ControlRuns ==
  ASSUME NEW ins \in Instruction, Conforms(ins), NEW d \in Seq(Call),
         NEW A \in Config, NEW C, Runs(ControlCalls(ins) \o d, A, C)
  PROVE  \E B \in Config : ControlDone(ins, A, B) /\ Runs(d, B, C)
  <1> DEFINE P == PushCalls(ins.push)
             Q == PopCalls(ins.pop)
  <1>1. ins.push \in SUBSET CODE /\ ins.pop \in Seq(CODE)
    BY DEF Instruction
  <1>2. (\A x, y \in ins.push : x = y) /\ Len(ins.pop) <= 1
    BY DEF Conforms
  <1>3. P \in Seq(Call) /\ Q \in Seq(Call)
    <2>1. ASSUME ins.push # {} PROVE (CHOOSE a \in ins.push : TRUE) \in CODE
      BY <1>1, <2>1
    <2>2. ins.push # {} => [op |-> "PushControl", addr |-> CHOOSE a \in ins.push : TRUE] \in Call
      BY <2>1 DEF Call
    <2>3. [op |-> "PopControl", addrs |-> ins.pop] \in Call
      BY <1>1 DEF Call
    <2> QED BY <2>2, <2>3 DEF PushCalls, PopCalls
  <1>4. ControlCalls(ins) = P \o Q
    BY Zenon DEF ControlCalls, PushCalls, PopCalls
  <1>5. PICK B \in Config :
           /\ B.loc = A.loc /\ Runs(Q \o d, B, C)
           /\ \A c \in CODE : B.control[c] =
                A.control[c] \cup (IF c \in ins.push THEN A.loc[<<"reg", "RFLAGS">>] ELSE {})
    <2> HIDE DEF P, Q
    <2>1. Q \o d \in Seq(Call)
      BY <1>3
    <2>2. Runs(P \o (Q \o d), A, C)
      <3>1. (P \o Q) \o d = P \o (Q \o d)
        BY <1>3
      <3> QED BY <1>4, <3>1
    <2> DEFINE rest == Q \o d
               push == ins.push
    <2>3. /\ rest \in Seq(Call) /\ Runs(PushCalls(push) \o rest, A, C)
          /\ push \in SUBSET CODE /\ \A x, y \in push : x = y
      BY <1>1, <1>2, <2>1, <2>2 DEF P
    <2> HIDE DEF rest, push
    <2>4. \E B \in Config :
           /\ B.loc = A.loc /\ Runs(rest, B, C)
           /\ \A c \in CODE : B.control[c] =
                A.control[c] \cup (IF c \in push THEN A.loc[<<"reg", "RFLAGS">>] ELSE {})
      BY <2>3, PushRuns
    <2> QED BY <2>4 DEF rest, push
  <1>6. PICK D \in Config :
           /\ D.loc = B.loc /\ Runs(d, D, C)
           /\ \A c \in CODE : D.control[c] =
                IF \E i \in DOMAIN ins.pop : ins.pop[i] = c THEN {} ELSE B.control[c]
    BY <1>1, <1>2, <1>5, PopRuns DEF Q
  <1> HIDE DEF P, Q
  <1>7. ControlDone(ins, A, D)
    BY <1>5, <1>6 DEF ControlDone
  <1> QED BY <1>6, <1>7

(* All the calls before an instruction: the branches change, then the flow *)
(* is made.                                                                *)
LEMMA InstructionRuns ==
  ASSUME NEW ins \in Instruction, Conforms(ins), Dataflow(ins) # <<Abort>>,
         NEW A \in Config, NEW C, Runs(ControlCalls(ins) \o Dataflow(ins), A, C)
  PROVE  \E B \in Config : /\ ControlDone(ins, A, B) /\ C.control = B.control
                           /\ FlowsTo(Abstract!Flow(ins), B, C)
  <1>1. Dataflow(ins) \in Seq(Call)
    BY DataflowCalls
  <1>2. PICK B \in Config : ControlDone(ins, A, B) /\ Runs(Dataflow(ins), B, C)
    BY <1>1, ControlRuns
  <1>3. C.control = B.control /\ FlowsTo(Abstract!Flow(ins), B, C)
    BY <1>2, HandlerFlow
  <1> QED BY <1>2, <1>3

(* A flow takes marks from registers and bytes only.                       *)
LEMMA FlowSources ==
  ASSUME NEW ins \in Instruction, Conforms(ins)
  PROVE  \A f \in Abstract!Flow(ins) : f.from \subseteq Location
  <1>1. /\ \A r \in REG : Abstract!InReg(r) \subseteq Location
        /\ \A S \in SUBSET ADDRINT : Abstract!InMem(S) \subseteq Location
    BY DEF Abstract!InReg, Abstract!InMem, Location
  <1>2. /\ ins.read \in SUBSET ADDRINT /\ ins.read2 \in SUBSET ADDRINT
        /\ ins.write \in SUBSET ADDRINT /\ ins.read \cup ins.read2 \in SUBSET ADDRINT
    BY DEF Instruction
  <1>3. \A r \in NamedRegisters : r \in REG
    BY RegAssumption
  <1>4. \A i \in DOMAIN ins.opnd : ins.opnd[i] \in Operand
    BY DEF Instruction
  <1>5. \A i : Abstract!Read(ins, i) \subseteq Location
    <2> SUFFICES ASSUME NEW i PROVE Abstract!Read(ins, i) \subseteq Location
      OBVIOUS
    <2>1. Abstract!OperandIs(ins, i, "reg") => ins.opnd[i].reg \in REG
      BY <1>4 DEF Abstract!OperandIs, Operand
    <2> QED BY <1>1, <1>2, <2>1 DEF Abstract!Read
  <1>6. /\ Abstract!Flags \subseteq Location /\ Abstract!Accumulator(ins) \subseteq Location
        /\ Abstract!Extension(ins) \subseteq Location
        /\ Abstract!InReg("AX") \subseteq Location /\ Abstract!InReg("AL") \subseteq Location
        /\ Abstract!InReg("ECX") \subseteq Location
    <2>1. /\ "RFLAGS" \in REG /\ "EAX" \in REG /\ "RAX" \in REG /\ "EDX" \in REG
          /\ "RDX" \in REG /\ "AX" \in REG /\ "AL" \in REG /\ "ECX" \in REG
      BY <1>3 DEF NamedRegisters
    <2> QED BY <1>1, <2>1 DEF Abstract!Flags, Abstract!Accumulator, Abstract!Extension
  <1>7. /\ Abstract!InMem(ins.read) \subseteq Location
        /\ Abstract!InMem(ins.read \cup ins.read2) \subseteq Location
    BY <1>1, <1>2
  <1>8. ins.iclass = "LEA" =>
          /\ Abstract!InReg(ins.opnd[2].base) \subseteq Location
          /\ Abstract!InReg(ins.opnd[2].index) \subseteq Location
    <2> SUFFICES ASSUME ins.iclass = "LEA"
                 PROVE  ins.opnd[2].base \in REG /\ ins.opnd[2].index \in REG
      BY <1>1
    <2>1. Kind(ins, 2) = "mem"
      BY DEF Conforms
    <2>2. 2 \in DOMAIN ins.opnd /\ ins.opnd[2].kind = "mem"
      BY <2>1 DEF Kind
    <2> QED BY <1>4, <2>2 DEF Operand
  <1> DEFINE Sound(D) == \A f \in D : f.from \subseteq Location
             a(T, X) == {Abstract!Assign(T, X)}
             k(T) == {Abstract!Clear(T)}
  <1>9. \A T, X : X \subseteq Location => Sound({Abstract!Assign(T, X)})
    BY DEF Abstract!Assign
  <1>10. \A T : Sound({Abstract!Clear(T)})
    BY DEF Abstract!Clear
  <1>11. \A T, X, T2, X2 : X \subseteq Location /\ X2 \subseteq Location =>
            Sound({Abstract!Assign(T, X), Abstract!Assign(T2, X2)})
    BY DEF Abstract!Assign
  <1>12. \A T, X, T2 : X \subseteq Location =>
            /\ Sound({Abstract!Assign(T, X), Abstract!Clear(T2)})
            /\ Sound({Abstract!Clear(T2), Abstract!Assign(T, X)})
    BY DEF Abstract!Assign, Abstract!Clear
  <1>13. Sound({})
    OBVIOUS
  <1>14. \A X : X \subseteq Location => Sound(Abstract!DestAndFlags(ins, X))
    BY <1>9 DEF Abstract!DestAndFlags
  <1>15. \A X, Y : X \subseteq Location /\ Y \subseteq Location => X \cup Y \subseteq Location
    OBVIOUS
  <1> HIDE DEF Sound
  <1>16. Sound(Abstract!Documented(ins))
    BY <1>5, <1>6, <1>7, <1>8, <1>9, <1>10, <1>11, <1>12, <1>13, <1>14, <1>15
      DEF Abstract!Documented
  <1> QED BY <1>13, <1>16 DEF Abstract!Flow, Sound
-----------------------------------------------------------------------------
(* The state of TaintFlow is the configuration when the last instruction   *)
(* retired.                                                                *)
LEMMA ThenIs ==
  ASSUME TypeOK, MapsOK(before.reg, before.mem, before.control, scratch)
  PROVE  /\ Then \in Config
         /\ \A l \in Location : Abstract!Taint(l) = Then.loc[l]
         /\ \A c \in CODE : Total(before.control, CODE)[c] = Then.control[c]
         /\ Total(before.reg, REG)["RFLAGS"] = Then.loc[<<"reg", "RFLAGS">>]
  <1>1. /\ Then \in Config
        /\ \A r \in REG : Then.loc[<<"reg", r>>] = Get(before.reg, r)
        /\ \A a \in ADDRINT : Then.loc[<<"mem", a>>] = Get(before.mem, a)
        /\ \A c \in CODE : Then.control[c] = Get(before.control, c)
    BY OfIs DEF Then
  <1>2. /\ \A r \in REG : Total(before.reg, REG)[r] = Get(before.reg, r)
        /\ \A a \in ADDRINT : Total(before.mem, ADDRINT)[a] = Get(before.mem, a)
        /\ \A c \in CODE : Total(before.control, CODE)[c] = Get(before.control, c)
    BY DEF Total
  <1>3. ASSUME NEW l \in Location PROVE Abstract!Taint(l) = Then.loc[l]
    <2>1. CASE \E r \in REG : l = <<"reg", r>>
      <3>1. PICK r \in REG : l = <<"reg", r>>
        BY <2>1
      <3>2. l[1] = "reg" /\ l[2] = r
        BY <3>1
      <3>3. Abstract!Taint(l) = Total(before.reg, REG)[r]
        BY <3>2 DEF Abstract!Taint
      <3> QED BY <1>1, <1>2, <3>1, <3>3
    <2>2. CASE \E a \in ADDRINT : l = <<"mem", a>>
      <3>1. PICK a \in ADDRINT : l = <<"mem", a>>
        BY <2>2
      <3>2. l[1] = "mem" /\ l[2] = a
        BY <3>1
      <3>3. Abstract!Taint(l) = Total(before.mem, ADDRINT)[a]
        BY <3>2 DEF Abstract!Taint
      <3> QED BY <1>1, <1>2, <3>1, <3>3
    <2> QED BY <2>1, <2>2, LocationIs
  <1>4. "RFLAGS" \in REG
    BY RegAssumption DEF NamedRegisters
  <1> QED BY <1>1, <1>2, <1>3, <1>4

(* A location has, after the flow, marks TaintFlow allows it.              *)
LEMMA AfterFlow ==
  ASSUME NEW ins \in Instruction, Conforms(ins),
         TypeOK, MapsOK(before.reg, before.mem, before.control, scratch),
         NEW B \in Config, NEW C, B.loc = Then.loc, FlowsTo(Abstract!Flow(ins), B, C),
         NEW l \in Location
  PROVE  C.loc[l] \in Abstract!After(l, ins, Open(B))
  <1> DEFINE F == Abstract!Flow(ins)
             flows == {f \in F : l \in Abstract!Targets(f)}
             V(f) == IF f.clear THEN {{}, Open(B)}
                     ELSE {(UNION {Abstract!Taint(k) : k \in f.from}) \cup Open(B)}
  <1>1. Abstract!After(l, ins, Open(B)) =
          IF flows = {} THEN {Abstract!Taint(l)} ELSE UNION {V(f) : f \in flows}
    BY DEF Abstract!After
  <1>2. \A k \in Location : Abstract!Taint(k) = B.loc[k]
    BY ThenIs
  <1>3. \A f \in F : (UNION {Abstract!Taint(k) : k \in f.from}) = Marked(B, f.from)
    <2> SUFFICES ASSUME NEW f \in F
                 PROVE  (UNION {Abstract!Taint(k) : k \in f.from}) = Marked(B, f.from)
      OBVIOUS
    <2>1. f.from \subseteq Location
      BY FlowSources
    <2>2. \A k \in f.from : Abstract!Taint(k) = B.loc[k]
      BY <1>2, <2>1
    <2> QED BY <2>2 DEF Marked
  <1> HIDE DEF F
  <1>4. CASE \E f \in F : l \in Abstract!Targets(f)
    <2>1. PICK f \in F : /\ l \in Abstract!Targets(f)
                         /\ C.loc[l] \in IF f.clear THEN {{}, Open(B)}
                                         ELSE {Marked(B, f.from) \cup Open(B)}
      BY <1>4 DEF FlowsTo, F
    <2>2. f \in flows /\ C.loc[l] \in V(f)
      BY <1>3, <2>1
    <2> HIDE DEF V, flows
    <2> QED BY <1>1, <2>2
  <1>5. CASE ~\E f \in F : l \in Abstract!Targets(f)
    <2>1. flows = {} /\ C.loc[l] = B.loc[l]
      BY <1>5 DEF FlowsTo, F
    <2> HIDE DEF V, flows
    <2> QED BY <1>1, <1>2, <2>1
  <1> QED BY <1>4, <1>5

(* The calls of ins have all run: the maps have become what TaintFlow      *)
(* makes of the ones before.                                               *)
LEMMA Completed ==
  ASSUME NEW ins \in Instruction, Conforms(ins), Dataflow(ins) # <<Abort>>,
         TypeOK, MapsOK(before.reg, before.mem, before.control, scratch),
         NEW S \in Config, S.loc = Then.loc, S.control = Then.control,
         Runs(ControlCalls(ins) \o Dataflow(ins), S, Now),
         before' = Snapshot, insn = {ins}, insn' = {}
  PROVE  Abstract!Complete
  <1>1. PICK B \in Config : /\ ControlDone(ins, S, B) /\ Now.control = B.control
                            /\ FlowsTo(Abstract!Flow(ins), B, Now)
    BY InstructionRuns
  <1>2. before'.reg = regTaintMap /\ before'.mem = memTaintMap
        /\ before'.control = controlTaintMap
    BY DEF Snapshot
  <1> DEFINE reg == Total(regTaintMap, REG)
             mem == Total(memTaintMap, ADDRINT)
             control == Total(controlTaintMap, CODE)
  <1>3. /\ \A r \in REG : reg[r] = Now.loc[<<"reg", r>>]
        /\ \A a \in ADDRINT : mem[a] = Now.loc[<<"mem", a>>]
        /\ control = [c \in CODE |-> control[c]]
        /\ \A c \in CODE : control[c] = Now.control[c]
    BY NowIs DEF Total
  <1>4. /\ Total(before.reg, REG)' = reg /\ Total(before.mem, ADDRINT)' = mem
        /\ Total(before.control, CODE)' = control
    BY <1>2 DEF Total
  <1> HIDE DEF reg, mem, control
  <1>5. control = Abstract!ControlAfter(ins)
    <2>1. ASSUME NEW c \in CODE
          PROVE  control[c] =
            IF \E i \in DOMAIN ins.pop : ins.pop[i] = c THEN {}
            ELSE Total(before.control, CODE)[c]
                 \cup (IF c \in ins.push THEN Total(before.reg, REG)["RFLAGS"] ELSE {})
      <3>1. /\ Total(before.control, CODE)[c] = S.control[c]
            /\ Total(before.reg, REG)["RFLAGS"] = S.loc[<<"reg", "RFLAGS">>]
        BY ThenIs
      <3>2. control[c] = B.control[c]
        BY <1>1, <1>3
      <3>3. B.control[c] =
              IF \E i \in DOMAIN ins.pop : ins.pop[i] = c THEN {}
              ELSE S.control[c] \cup (IF c \in ins.push THEN S.loc[<<"reg", "RFLAGS">>] ELSE {})
        BY <1>1 DEF ControlDone
      <3> QED BY <3>1, <3>2, <3>3
    <2> QED BY <1>3, <2>1 DEF Abstract!ControlAfter
  <1>6. (UNION {control[c] : c \in CODE}) = Open(B)
    BY <1>1, <1>3 DEF Open
  <1>7. B.loc = Then.loc
    BY <1>1 DEF ControlDone
  <1>8. \A r \in REG : reg[r] \in Abstract!After(<<"reg", r>>, ins, Open(B))
    <2> SUFFICES ASSUME NEW r \in REG
                 PROVE  reg[r] \in Abstract!After(<<"reg", r>>, ins, Open(B))
      OBVIOUS
    <2>1. <<"reg", r>> \in Location
      BY DEF Location
    <2> QED BY <1>1, <1>3, <1>7, <2>1, AfterFlow
  <1>9. \A a \in ADDRINT : mem[a] \in Abstract!After(<<"mem", a>>, ins, Open(B))
    <2> SUFFICES ASSUME NEW a \in ADDRINT
                 PROVE  mem[a] \in Abstract!After(<<"mem", a>>, ins, Open(B))
      OBVIOUS
    <2>1. <<"mem", a>> \in Location
      BY DEF Location
    <2> QED BY <1>1, <1>3, <1>7, <2>1, AfterFlow
  <1> QED BY <1>4, <1>5, <1>6, <1>8, <1>9 DEF Abstract!Complete
-----------------------------------------------------------------------------
(* Thread t has run done, the calls of ins that are no longer to do.       *)
Progress(ins, t) ==
  \E done \in Seq(Call), S \in Config :
    /\ S.loc = Then.loc /\ S.control = Then.control
    /\ done \o todo[t] = ControlCalls(ins) \o Dataflow(ins)
    /\ Runs(done, S, Now)

(* Inductive: before are the maps ins started from, and the calls done so  *)
(* far lead from there to the maps and scratch sets of now.                *)
FlowInv ==
  /\ TypeOK
  /\ MapsOK(before.reg, before.mem, before.control, scratch)
  /\ insn = {} =>
       before = Snapshot /\ \A t \in Thread : todo[t] = <<>>
  /\ insn # {} => \E ins \in Instructions :
       /\ insn = {ins}
       /\ ~aborted => Dataflow(ins) # <<Abort>> /\ \A t \in Thread : Progress(ins, t)

(* The invariant holds before the first instruction.                       *)
LEMMA FlowInvInit == FlowInit => FlowInv
  <1> SUFFICES ASSUME FlowInit PROVE FlowInv
    OBVIOUS
  <1>1. MapsOK(before.reg, before.mem, before.control, scratch)
    BY DEF FlowInit, Snapshot, MapsOK, TypeOK
  <1> QED BY <1>1 DEF FlowInit, FlowInv

(* An instruction starts: nothing is done yet.                             *)
LEMMA FlowInvStart ==
  ASSUME FlowInv, NEW t \in Thread, NEW ins \in Instructions, Start(t, ins),
         \A u \in Thread : u = t
  PROVE  FlowInv'
  <1>1. Execute(t, ins) /\ insn = {} /\ insn' = {ins} /\ before' = before
    BY DEF Start
  <1>2. TypeOK /\ TypeOK'
    BY <1>1, ExecuteType DEF FlowInv
  <1>3. UNCHANGED <<regTaintMap, memTaintMap, controlTaintMap, scratch>>
    BY <1>1 DEF Execute, maps
  <1>4. MapsOK(before.reg, before.mem, before.control, scratch)'
    BY <1>1, <1>3 DEF FlowInv
  <1>5. Now' = Now /\ Then' = Then /\ Then = Now
    BY <1>1, <1>3 DEF Now, Then, FlowInv, Snapshot
  <1>6. CASE Dataflow(ins) = <<Abort>>
    <2>1. aborted'
      BY <1>1, <1>6 DEF Execute
    <2> QED BY <1>1, <1>2, <1>4, <2>1 DEF FlowInv
  <1>7. CASE Dataflow(ins) # <<Abort>>
    <2> DEFINE calls == ControlCalls(ins) \o Dataflow(ins)
    <2>1. todo'[t] = calls
      BY <1>1, <1>2, <1>7 DEF Execute, TypeOK
    <2>2. calls \in Seq(Call)
      BY <1>7, ControlCallsType, DataflowCalls, InstructionsAssumption
    <2> HIDE DEF calls
    <2>3. <<>> \o todo'[t] = calls /\ <<>> \in Seq(Call)
      BY <2>1, <2>2
    <2>4. Now \in Config /\ Runs(<<>>, Now, Now)
      BY <1>2, NowIs, RunsNone
    <2>5. Progress(ins, t)'
      BY <1>5, <2>3, <2>4 DEF Progress, calls
    <2>6. \A u \in Thread : Progress(ins, u)'
      BY <2>5
    <2> QED BY <1>1, <1>2, <1>4, <1>7, <2>6 DEF FlowInv
  <1> QED BY <1>6, <1>7

(* A call moves from the list still to do to the list done.                *)
LEMMA Shift ==
  ASSUME NEW s \in Seq(Call), NEW c \in Call, NEW r \in Seq(Call)
  PROVE  (s \o <<c>>) \o r = s \o (<<c>> \o r)
  OBVIOUS

(* An analysis call: one more is done.                                     *)
LEMMA FlowInvCall ==
  ASSUME FlowInv, NEW t \in Thread, AnalysisCall(t), UNCHANGED <<insn, before>>,
         \A u \in Thread : u = t
  PROVE  FlowInv'
  <1> DEFINE c == Head(todo[t])
  <1>1. TypeOK /\ TypeOK'
    BY AnalysisCallType DEF FlowInv
  <1>2. PICK op : At(t, op) /\ Advance(t)
    BY DEF AnalysisCall, ClearTaintSet, TaintForRegister, TaintForMemory, Load,
       SetTaintForRegister, ClearTaintForRegister, SetTaintForMemory,
       ClearTaintForMemory, PushControl, PopControl
  <1>3. ~aborted /\ aborted' = aborted /\ todo[t] # <<>>
    BY <1>2 DEF At, Advance
  <1>4. c \in Call /\ todo[t] \in Seq(Call) /\ todo'[t] = Tail(todo[t])
    BY <1>1, <1>2, NextCall DEF Advance, TypeOK
  <1>5. Effect(c, Now, Now')
    BY <1>1, CallEffect
  <1>6. Now \in Config /\ Now' \in Config
    <2>1. MapsOK(regTaintMap', memTaintMap', controlTaintMap', scratch')
      BY <1>1 DEF MapsOK, TypeOK
    <2>2. Now' = Of(regTaintMap', memTaintMap', controlTaintMap', scratch')
      BY DEF Now, Of
    <2> QED BY <1>1, <2>1, <2>2, NowIs, OfIs
  <1>7. MapsOK(before.reg, before.mem, before.control, scratch)'
    BY <1>1 DEF FlowInv, MapsOK, TypeOK
  <1>8. Then'.loc = Then.loc /\ Then'.control = Then.control
    BY DEF Then, Of
  <1>9. insn # {}
    BY <1>3 DEF FlowInv
  <1>10. PICK ins \in Instructions :
           insn = {ins} /\ Dataflow(ins) # <<Abort>> /\ Progress(ins, t)
    BY <1>3, <1>9 DEF FlowInv
  <1>11. PICK done \in Seq(Call), S \in Config :
           /\ S.loc = Then.loc /\ S.control = Then.control
           /\ done \o todo[t] = ControlCalls(ins) \o Dataflow(ins)
           /\ Runs(done, S, Now)
    BY <1>10 DEF Progress
  <1> DEFINE more == done \o <<c>>
  <1>12. more \in Seq(Call) /\ more \o todo'[t] = done \o todo[t]
    <2>1. todo[t] = <<c>> \o Tail(todo[t]) /\ Tail(todo[t]) \in Seq(Call)
      BY <1>3, <1>4
    <2> HIDE DEF c
    <2>2. (done \o <<c>>) \o Tail(todo[t]) = done \o (<<c>> \o Tail(todo[t]))
      BY <1>4, <2>1, Shift
    <2>3. more \in Seq(Call)
      BY <1>4
    <2>4. more \o todo'[t] = (done \o <<c>>) \o Tail(todo[t])
      BY <1>4
    <2> HIDE DEF more
    <2> QED BY <2>1, <2>2, <2>3, <2>4
  <1> HIDE DEF c
  <1>13. Runs(more, S, Now')
    BY <1>4, <1>5, <1>6, <1>11, RunsMore
  <1> HIDE DEF more
  <1>14. Progress(ins, t)'
    BY <1>8, <1>11, <1>12, <1>13 DEF Progress
  <1>15. \A u \in Thread : Progress(ins, u)'
    BY <1>14
  <1> QED BY <1>1, <1>7, <1>10, <1>15 DEF FlowInv

(* An instruction retires: the maps are the ones before the next.          *)
LEMMA FlowInvRetire ==
  ASSUME FlowInv, NEW t \in Thread, Retire(t), \A u \in Thread : u = t
  PROVE  FlowInv'
  <1>1. /\ UNCHANGED vars /\ insn' = {} /\ before' = Snapshot /\ todo[t] = <<>>
    BY DEF Retire, Idle
  <1>2. TypeOK'
    BY <1>1 DEF FlowInv, TypeOK, vars
  <1>3. Snapshot' = Snapshot /\ \A u \in Thread : todo'[u] = <<>>
    BY <1>1 DEF Snapshot, vars
  <1>4. MapsOK(before.reg, before.mem, before.control, scratch)'
    BY <1>1, <1>2, <1>3 DEF MapsOK, TypeOK, Snapshot
  <1> QED BY <1>1, <1>2, <1>3, <1>4 DEF FlowInv

(* A step that changes nothing.                                            *)
LEMMA FlowInvStutter == FlowInv /\ UNCHANGED ivars => FlowInv'
  <1> SUFFICES ASSUME FlowInv, UNCHANGED ivars PROVE FlowInv'
    OBVIOUS
  <1>1. /\ UNCHANGED <<regTaintMap, memTaintMap, controlTaintMap, tagMemoryMap, scratch>>
        /\ UNCHANGED <<todo, current, aborted, issued, loaded, insn, before>>
    BY DEF ivars, vars
  <1>2. TypeOK'
    BY <1>1 DEF FlowInv, TypeOK
  <1>3. MapsOK(before.reg, before.mem, before.control, scratch)'
    BY <1>1 DEF FlowInv
  <1>4. Now' = Now /\ Then' = Then /\ Snapshot' = Snapshot
    BY <1>1 DEF Now, Then, Snapshot
  <1>5. \A ins, t : Progress(ins, t)' <=> Progress(ins, t)
    BY <1>1, <1>4 DEF Progress
  <1> QED BY <1>1, <1>2, <1>3, <1>4, <1>5 DEF FlowInv

(* Every step of the only thread preserves the invariant.                  *)
LEMMA FlowInvNext ==
  ASSUME \A t, u \in Thread : t = u
  PROVE  FlowInv /\ [FlowNext]_ivars => FlowInv'
  <1> SUFFICES ASSUME FlowInv, [FlowNext]_ivars PROVE FlowInv'
    OBVIOUS
  <1>1. CASE FlowNext
    <2>1. PICK t \in Thread : \/ \E ins \in Instructions : Start(t, ins)
                              \/ AnalysisCall(t) /\ UNCHANGED <<insn, before>>
                              \/ Retire(t)
      BY <1>1 DEF FlowNext
    <2>2. \A u \in Thread : u = t
      OBVIOUS
    <2>3. ASSUME NEW ins \in Instructions, Start(t, ins) PROVE FlowInv'
      BY <2>2, <2>3, FlowInvStart
    <2>4. CASE AnalysisCall(t) /\ UNCHANGED <<insn, before>>
      BY <2>2, <2>4, FlowInvCall
    <2>5. CASE Retire(t)
      BY <2>2, <2>5, FlowInvRetire
    <2> QED BY <2>1, <2>3, <2>4, <2>5
  <1>2. CASE UNCHANGED ivars
    BY <1>2, FlowInvStutter
  <1> QED BY <1>1, <1>2

(* Any marks the maps hold are marks TaintFlow may start from.             *)
LEMMA FlowInitMaps == FlowInit => Abstract!Init
  <1> SUFFICES ASSUME FlowInit PROVE Abstract!Init
    OBVIOUS
  <1>1. before.reg = regTaintMap /\ before.mem = memTaintMap /\ before.control = controlTaintMap
    BY DEF FlowInit, Snapshot
  <1>2. /\ \A k : Get(before.reg, k) \in SUBSET Mark
        /\ \A k : Get(before.mem, k) \in SUBSET Mark
        /\ \A k : Get(before.control, k) \in SUBSET Mark
    BY <1>1, GetType DEF FlowInit, TypeOK
  <1>3. /\ Total(before.reg, REG) \in [REG -> SUBSET Mark]
        /\ Total(before.mem, ADDRINT) \in [ADDRINT -> SUBSET Mark]
        /\ Total(before.control, CODE) \in [CODE -> SUBSET Mark]
    BY <1>2 DEF Total
  <1> QED BY <1>3 DEF FlowInit, Abstract!Init

(* Starting an instruction begins one in TaintFlow, its calls are no step  *)
(* there, and retiring completes it.                                       *)
LEMMA FlowNextMaps ==
  ASSUME \A t, u \in Thread : t = u, \A ins \in Instructions : Conforms(ins)
  PROVE  FlowInv /\ [FlowNext]_ivars => [Abstract!Next]_(Abstract!flowVars)
  <1> SUFFICES ASSUME FlowInv, [FlowNext]_ivars
               PROVE  Abstract!Next \/ UNCHANGED Abstract!flowVars
    OBVIOUS
  <1>1. ASSUME UNCHANGED <<insn, before>> PROVE UNCHANGED Abstract!flowVars
    BY <1>1 DEF Abstract!flowVars, Total
  <1>2. CASE FlowNext
    <2>1. PICK t \in Thread : \/ \E ins \in Instructions : Start(t, ins)
                              \/ AnalysisCall(t) /\ UNCHANGED <<insn, before>>
                              \/ Retire(t)
      BY <1>2 DEF FlowNext
    <2>2. ASSUME NEW ins \in Instructions, Start(t, ins) PROVE Abstract!Begin
      <3>1. insn = {} /\ insn' = {ins} /\ before' = before
        BY <2>2 DEF Start
      <3> QED BY <3>1 DEF Abstract!Begin, Total
    <2>3. CASE Retire(t)
      <3>1. insn # {} /\ ~aborted /\ todo[t] = <<>> /\ insn' = {} /\ before' = Snapshot
        BY <2>3 DEF Retire, Idle
      <3>2. PICK ins \in Instructions :
              insn = {ins} /\ Dataflow(ins) # <<Abort>> /\ Progress(ins, t)
        BY <3>1 DEF FlowInv
      <3>3. PICK done \in Seq(Call), S \in Config :
              /\ S.loc = Then.loc /\ S.control = Then.control
              /\ done \o todo[t] = ControlCalls(ins) \o Dataflow(ins)
              /\ Runs(done, S, Now)
        BY <3>2 DEF Progress
      <3>4. done \o todo[t] = done
        BY <3>1
      <3>5. Runs(ControlCalls(ins) \o Dataflow(ins), S, Now)
        BY <3>3, <3>4
      <3>6. ins \in Instruction /\ Conforms(ins)
        BY InstructionsAssumption
      <3>7. TypeOK /\ MapsOK(before.reg, before.mem, before.control, scratch)
        BY DEF FlowInv
      <3>8. Abstract!Complete
        BY <3>1, <3>2, <3>3, <3>5, <3>6, <3>7, Completed
      <3> QED BY <3>8 DEF Abstract!Next
    <2> QED BY <1>1, <2>1, <2>2, <2>3 DEF Abstract!Next
  <1>3. CASE UNCHANGED ivars
    BY <1>1, <1>3 DEF ivars
  <1> QED BY <1>2, <1>3

(* The calls instrument_functions.c and Controlflow insert before an       *)
(* instruction amount, executed by one thread, to one step of the          *)
(* information flow the handlers' comments announce: every destination     *)
(* gets the marks its sources had before the instruction and those of the  *)
(* open branches, a clear leaves nothing else, and no other register or    *)
(* byte changes, whatever the shared scratch sets held. For instructions   *)
(* with any operands and addresses whose handlers conform (Conforms names  *)
(* the forms that deviate from their comments).                            *)
THEOREM HandlersImplementTaintFlow ==
  ASSUME \A t, u \in Thread : t = u, \A ins \in Instructions : Conforms(ins)
  PROVE  FlowSpec => ImplementsTaintFlow
  <1>1. FlowInit => FlowInv
    BY FlowInvInit
  <1>2. FlowInv /\ [FlowNext]_ivars => FlowInv'
    BY FlowInvNext
  <1>3. FlowInit => Abstract!Init
    BY FlowInitMaps
  <1>4. FlowInv /\ [FlowNext]_ivars => [Abstract!Next]_(Abstract!flowVars)
    BY FlowNextMaps
  <1> QED BY <1>1, <1>2, <1>3, <1>4, PTL DEF FlowSpec, ImplementsTaintFlow, Abstract!Spec
=============================================================================
