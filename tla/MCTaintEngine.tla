--------------------------- MODULE MCTaintEngine ---------------------------
(***************************************************************************)
(* TaintEngine with a small program: two bytes, one conditional branch,    *)
(* and one instruction for each kind of analysis call.  The number of      *)
(* instructions and system calls all threads together begin is bounded by  *)
(* MaxEvents.                                                              *)
(***************************************************************************)
EXTENDS TaintEngine, TLC

CONSTANT MaxEvents

VARIABLE events

MCvars == <<vars, events>>

MCREG == NamedRegisters
MCADDRINT == {10, 11}
MCCODE == {100}
MCSourceMark == {-1, 1, 3}
MClow32 == [a \in MCADDRINT |-> a]

Reg(r) == [kind |-> "reg", reg |-> r]
Mem    == [kind |-> "mem", base |-> "INVALID", index |-> "INVALID"]
Imm    == [kind |-> "imm"]

Insn(class, opnd) ==
  [iclass |-> class, opnd |-> opnd, explicit |-> Len(opnd), width |-> 32,
   read |-> {}, read2 |-> {}, write |-> {}, rep |-> FALSE, equal |-> FALSE,
   push |-> {}, pop |-> <<>>]

(* mov edi, [10]; add edi, 1; mov [10..11], edi; jcc; bsf edi; fnstcw [11];*)
(* test edi, [imm] at the branch's postdominator; mul with a 16-bit operand*)
Load10   == [Insn("MOV", <<Reg("EDI"), Mem>>) EXCEPT !.read = {10}]
AddImm   == Insn("ADD", <<Reg("EDI"), Imm>>)
Store    == [Insn("MOV", <<Mem, Reg("EDI")>>) EXCEPT !.write = {10, 11}]
Branch   == [Insn("Jcc", <<>>) EXCEPT !.push = {100}]
ClearEdi == Insn("BSF", <<Reg("EDI"), Imm>>)
StoreCw  == [Insn("FNSTCW", <<Mem>>) EXCEPT !.write = {11}]
Join     == [Insn("NOP", <<>>) EXCEPT !.pop = <<100>>]
Unknown  == [Insn("MUL", <<Reg("EDI")>>) EXCEPT !.width = 16]

MCInstructions ==
  {Load10, AddImm, Store, Branch, ClearEdi, StoreCw, Join, Unknown}

(* Two threads that both do mov edi, [10] / mov [10..11], edi.             *)
CopyInstructions == {Load10, Store}

Symmetry == Permutations(Thread)

Count == events < MaxEvents /\ events' = events + 1

MCInit == Init /\ events = 0

MCNext ==
  \E t \in Thread :
    \/ \E ins \in Instructions : Execute(t, ins) /\ Count
    \/ AnalysisCall(t) /\ UNCHANGED events
    \/ \E mem \in SourceRange, mark \in SourceMark :
         SetNewTaintForMemory(t, mem, mark) /\ Count
    \/ \E mem \in KernelRange : EraseTaint(t, mem) /\ Count

MCSpec == MCInit /\ [][MCNext]_MCvars
=============================================================================
