-------------------------- MODULE InstructionFlow --------------------------
(***************************************************************************)
(* The instructions of one thread, executed one after the other: the       *)
(* analysis calls inserted before an instruction all run, then the         *)
(* instruction itself does (Retire).  Shown to implement TaintFlow: the    *)
(* sequence of calls a handler inserts amounts to the one information flow *)
(* its comments announce, whatever the shared scratch sets held before.    *)
(***************************************************************************)
EXTENDS TaintEngine

VARIABLES
  insn,    \* {the instruction whose calls are running}, or {}
  before   \* the maps when the last instruction retired

ivars == <<vars, insn, before>>

Snapshot == [reg |-> regTaintMap, mem |-> memTaintMap, control |-> controlTaintMap]

Start(t, ins) ==
  /\ insn = {}
  /\ Execute(t, ins)
  /\ insn' = {ins}
  /\ UNCHANGED before

Retire(t) ==
  /\ insn # {}
  /\ Idle(t)
  /\ insn' = {}
  /\ before' = Snapshot
  /\ UNCHANGED vars

(* An instruction may find any marks in the maps and in the scratch sets.  *)
FlowInit ==
  /\ TypeOK
  /\ todo = [t \in Thread |-> <<>>]
  /\ insn = {}
  /\ before = Snapshot

FlowNext ==
  \E t \in Thread :
    \/ \E ins \in Instructions : Start(t, ins)
    \/ AnalysisCall(t) /\ UNCHANGED <<insn, before>>
    \/ Retire(t)

FlowSpec == FlowInit /\ [][FlowNext]_ivars
-----------------------------------------------------------------------------
Total(map, K) == [k \in K |-> Get(map, k)]

Abstract == INSTANCE TaintFlow WITH
  regTaint     <- Total(before.reg, REG),
  memTaint     <- Total(before.mem, ADDRINT),
  controlTaint <- Total(before.control, CODE)

(* The instructions whose handlers are expected to do what their comments  *)
(* say.  A handler bails out where Pin cannot tell the memory accessed and *)
(* nowhere else; the operands are those the instruction has; and the forms *)
(* are left out whose handler deviates from its comment: SETcc and CMPXCHG *)
(* with memory, IMUL with a register source, SHLD and SHRD with a register *)
(* count, 32-bit MUL and DIV, POPFD, and PopControl with several branches. *)
Returns(s) == \E i \in DOMAIN s : s[i] = Return

Conforms(ins) ==
  /\ Abstract!Documented(ins) # {} =>
       (Returns(instrument_functions(ins)) <=> Abstract!Unaddressable(ins))
  /\ ins.iclass \in SETccClass \cup {"CMPXCHG", "LEA", "BSF", "BSR"} =>
       Kind(ins, 1) = "reg"
  /\ ins.iclass = "CMPXCHG" => Kind(ins, 2) = "reg" /\ Kind(ins, 3) = "reg"
  /\ ins.iclass = "LEA" => Kind(ins, 2) = "mem"
  /\ ins.iclass = "IMUL" /\ ins.explicit # 1 =>
       Kind(ins, 1) = "reg" /\ Kind(ins, 2) # "reg"
  /\ ins.iclass \in {"SHLD", "SHRD"} => Kind(ins, 2) = "reg" /\ Kind(ins, 3) # "reg"
  /\ ins.iclass \in {"MUL", "DIV", "IDIV"} \/ (ins.iclass = "IMUL" /\ ins.explicit = 1)
       => ins.width # 32
  /\ ins.iclass # "POPFD"
  /\ \A a, b \in ins.push : a = b
  /\ Len(ins.pop) <= 1

(* The calls inserted by the handler of an instruction move taint exactly  *)
(* as the handler's comments say: every destination gets the union of its  *)
(* sources' marks before the instruction and of the open branches' marks,  *)
(* and no other register or byte changes.                                  *)
ImplementsTaintFlow == Abstract!Spec
=============================================================================
