--------------------------- MODULE MCRoutineGraph ---------------------------
(***************************************************************************)
(* RoutineGraph for short routines of all kinds of instruction, longer     *)
(* ones that branch at every step, and some shapes compilers produce.      *)
(***************************************************************************)
EXTENDS RoutineGraph

MCBase == 10
Outside == 30
Behind == 8
MCNode ==
  {ReturnNode, Behind, Outside} \cup 11 .. 19 \cup {-11, -12, -13, -14, -15, -16, -17, -18}

No(op) == [op |-> op, target |-> Outside]
jmp(i) == [op |-> "jmp", target |-> IF i = 0 THEN Outside ELSE Address(i)]
jcc(i) == [op |-> "jcc", target |-> IF i = 0 THEN Outside ELSE Address(i)]
plain  == No("plain")
call   == No("call")
ret    == No("ret")

OneOf(n) ==
  {No(op) : op \in {"plain", "ret", "call", "icall", "ijmp"}}
    \cup {jmp(i) : i \in 0 .. n} \cup {jcc(i) : i \in 0 .. n}

Short ==
  {<<a, b, c, d>> : a \in {plain, call, jcc(4)}, b \in OneOf(4), c \in OneOf(4),
                    d \in {ret, jcc(2), No("ijmp")}}

Branching ==
  {<<plain, jcc(a), jcc(b), jcc(c), d, ret>> :
     a \in {3, 5, 6}, b \in {1, 2, 5, 6}, c \in 1 .. 6, d \in {plain, ret, jmp(2), jmp(3)}}

(* if (x) goto out; if (y) goto out; if (z) f(); return 1; out: return 0.  *)
TwoReturns == <<plain, jcc(7), jcc(7), jcc(6), call, ret, ret>>

(* while (x) { if (y) f(); do g(); while (z); } return.                    *)
NestedLoops == <<plain, jcc(8), jcc(5), call, call, jcc(5), jmp(2), ret>>

(* if (x) goto in; while (y) { f(); in: g(); } return.                     *)
IntoLoop == <<plain, jcc(5), jcc(7), call, call, jmp(3), ret>>

(* A jump to the address after the last instruction, which falls there.    *)
FallsOut == <<plain, jcc(5), plain, plain>>

(* The last instruction is a jump back, in the block or out of it, a jump  *)
(* to another routine, or a call that does not return.                     *)
Ending ==
  {<<a, b, c, d>> : a \in {plain, call}, b \in {plain, jcc(4), jcc(0)},
                    c \in {plain, call, jcc(2)},
                    d \in {call, No("icall")} \cup {jmp(i) : i \in 0 .. 4}
                          \cup {[op |-> op, target |-> Behind] : op \in {"jmp", "jcc"}}}
    \cup {<<ret>>, <<jmp(1)>>, <<call>>}

MCRoutines ==
  Short \cup Branching \cup Ending \cup {TwoReturns, NestedLoops, IntoLoop, FallsOut}
EarlyOut == {TwoReturns}

Ascending == [k \in 1 .. Cardinality(MCNode) |-> k]
Descending == [k \in 1 .. Cardinality(MCNode) |-> Cardinality(MCNode) - k]
MCLayouts == {Ascending, Descending}
FreshHeap == {Ascending}
=============================================================================
