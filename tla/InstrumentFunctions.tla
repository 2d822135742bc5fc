------------------------ MODULE InstrumentFunctions ------------------------
(***************************************************************************)
(* instrument_functions.c: for each opcode, the analysis calls Dytan       *)
(* inserts before the instruction.  A handler is the sequence of its       *)
(* statements (insert a call, return, abort); Inserted keeps what a        *)
(* handler has inserted when it returns.  The build modelled is 64-bit     *)
(* (__WORDSIZE is not 32) without IMPLICIT, as shipped.                    *)
(***************************************************************************)
EXTENDS AnalysisCalls

-----------------------------------------------------------------------------
(* Statements handlers are made of.  Operands count from 1 here.           *)

Kind(ins, i) == IF i \in DOMAIN ins.opnd THEN ins.opnd[i].kind ELSE "none"

INS_OperandReg(ins, i) ==
  IF Kind(ins, i) = "reg" THEN ins.opnd[i].reg ELSE "INVALID"

INS_OperandMemoryBaseReg(ins, i) ==
  IF Kind(ins, i) = "mem" THEN ins.opnd[i].base ELSE "INVALID"

INS_OperandMemoryIndexReg(ins, i) ==
  IF Kind(ins, i) = "mem" THEN ins.opnd[i].index ELSE "INVALID"

LoadReg(r, s) == <<[op |-> "TaintForRegister", reg |-> r, set |-> s]>>

ClearSet(s) == <<[op |-> "ClearTaintSet", set |-> s]>>

LoadMem(mem, s) ==
  IF mem = {} THEN <<Return>>
              ELSE <<[op |-> "TaintForMemory", mem |-> mem, set |-> s]>>

SetReg(r, from) ==
  <<[op |-> "SetTaintForRegister", reg |-> r, from |-> from]>>

SetMem(mem, from) ==
  IF mem = {} THEN <<Return>>
              ELSE <<[op |-> "SetTaintForMemory", mem |-> mem, from |-> from]>>

SetFlags(from) == SetReg("RFLAGS", from)

ClearReg(r) == <<[op |-> "ClearTaintForRegister", reg |-> r]>>

ClearMem(mem) == <<[op |-> "ClearTaintForMemory", mem |-> mem]>>

(* Mutant: an immediate has no taint, so nothing is loaded for it.         *)
LoadOperand_SkipsImmediate(ins, i, s, kinds) ==
  CASE Kind(ins, i) \notin kinds -> <<Abort>>
    [] Kind(ins, i) \in kinds /\ Kind(ins, i) = "reg"
         -> LoadReg(INS_OperandReg(ins, i), s)
    [] Kind(ins, i) \in kinds /\ Kind(ins, i) = "mem" -> LoadMem(ins.read, s)
    [] OTHER -> <<>>

(* The taint of operand i into scratch set s; an operand of another kind   *)
(* than the handler provides for aborts the tool.                          *)
LoadOperand(ins, i, s, kinds) ==
  CASE Kind(ins, i) \notin kinds -> <<Abort>>
    [] Kind(ins, i) \in kinds /\ Kind(ins, i) = "reg"
         -> LoadReg(INS_OperandReg(ins, i), s)
    [] Kind(ins, i) \in kinds /\ Kind(ins, i) = "mem" -> LoadMem(ins.read, s)
    [] OTHER -> ClearSet(s)

(* Operand i <- union of the scratch sets from.                            *)
SetOperand(ins, i, from) ==
  CASE Kind(ins, i) = "reg" -> SetReg(INS_OperandReg(ins, i), from)
    [] Kind(ins, i) = "mem" -> SetMem(ins.write, from)
    [] OTHER -> <<Abort>>

RM  == {"reg", "mem"}
RI  == {"reg", "imm"}
RMI == {"reg", "mem", "imm"}
-----------------------------------------------------------------------------
(* Arithmetic and logic.                                                   *)

Instrument_ADD(ins) ==
  LoadOperand(ins, 1, "dest", RM) \o LoadOperand(ins, 2, "src", RMI)
  \o SetOperand(ins, 1, {"dest", "src"}) \o SetFlags({"dest", "src"})

Instrument_ADC(ins) ==
  LoadOperand(ins, 1, "dest", RM) \o LoadOperand(ins, 2, "src", RMI)
  \o LoadReg("RFLAGS", "eflags")
  \o SetOperand(ins, 1, {"dest", "src", "eflags"})
  \o SetFlags({"dest", "src", "eflags"})

SameRegister(ins) ==
  /\ Kind(ins, 1) = "reg" /\ Kind(ins, 2) = "reg"
  /\ INS_OperandReg(ins, 1) = INS_OperandReg(ins, 2)

Instrument_XOR(ins) ==
  LoadOperand(ins, 1, "dest", RM) \o LoadOperand(ins, 2, "src", RMI)
  \o (IF SameRegister(ins) THEN ClearReg(INS_OperandReg(ins, 1))
                           ELSE SetOperand(ins, 1, {"dest", "src"}))
  \o SetFlags({"dest", "src"})

Instrument_CMP(ins) ==
  LoadOperand(ins, 1, "dest", RM) \o LoadOperand(ins, 2, "src", RMI)
  \o SetFlags({"dest", "src"})

Instrument_TEST(ins) ==
  LoadOperand(ins, 1, "dest", RM) \o LoadOperand(ins, 2, "src", RI)
  \o SetFlags({"dest", "src"})

(* DEC, INC and NEG leave the taint of their operand alone.                *)
Instrument_DEC(ins) == LoadOperand(ins, 1, "dest", RM) \o SetFlags({"dest"})

Instrument_NEG(ins) == LoadOperand(ins, 1, "dest", RM) \o SetFlags({"dest"})

(* The accumulator pair MUL, DIV and IDIV work on: registers, the scratch  *)
(* sets they are loaded into, and the flags register named for the width.  *)
Accumulators(width) ==
  IF width = 32
  THEN [ax |-> "EAX", dx |-> "EDX", flags |-> "EFLAGS", axs |-> "eax", dxs |-> "edx"]
  ELSE [ax |-> "RAX", dx |-> "RDX", flags |-> "RFLAGS", axs |-> "rax", dxs |-> "rdx"]

Instrument_MUL(ins) ==
  LET acc == Accumulators(ins.width)
  IN  IF ins.width \notin {32, 64} THEN <<Abort>>
      ELSE LoadOperand(ins, 1, "src", RM) \o LoadReg(acc.ax, acc.axs)
           \o SetReg(acc.ax, {acc.axs, "src"}) \o SetReg(acc.dx, {acc.axs, "src"})
           \o SetReg(acc.flags, {acc.axs, "src"})

(* The two- and three-operand forms; for a register source the code loads  *)
(* operand 0 again instead of operand 1.                                   *)
IMULSource(ins, kinds) ==
  IF Kind(ins, 2) = "reg" THEN LoadReg(INS_OperandReg(ins, 1), "src")
                          ELSE LoadOperand(ins, 2, "src", kinds)

Instrument_IMUL(ins) ==
  CASE ins.explicit = 1 -> Instrument_MUL(ins)
    [] ins.explicit \in {2, 3} ->
         LoadReg(INS_OperandReg(ins, 1), "dest")
         \o IMULSource(ins, IF ins.explicit = 2 THEN RMI ELSE RM)
         \o SetReg(INS_OperandReg(ins, 1), {"dest", "src"})
         \o SetFlags({"dest", "src"})
    [] OTHER -> <<Abort>>

Instrument_DIV(ins) ==
  LET acc == Accumulators(ins.width)
      all == {acc.axs, acc.dxs, "src"}
  IN  IF ins.width \notin {32, 64} THEN <<Abort>>
      ELSE LoadOperand(ins, 1, "src", RM)
           \o LoadReg(acc.ax, acc.axs) \o LoadReg(acc.dx, acc.dxs)
           \o SetReg(acc.ax, all) \o SetReg(acc.dx, all) \o ClearReg(acc.flags)

(* IDIV loads the accumulators in the other order.                         *)
Instrument_IDIV(ins) ==
  LET acc == Accumulators(ins.width)
      all == {acc.axs, acc.dxs, "src"}
  IN  IF ins.width \notin {32, 64} THEN <<Abort>>
      ELSE LoadOperand(ins, 1, "src", RM)
           \o LoadReg(acc.dx, acc.dxs) \o LoadReg(acc.ax, acc.axs)
           \o SetReg(acc.ax, all) \o SetReg(acc.dx, all) \o ClearReg(acc.flags)

Instrument_SAR(ins) ==
  LoadOperand(ins, 1, "dest", RM) \o LoadOperand(ins, 2, "cnt", RI)
  \o SetOperand(ins, 1, {"dest", "cnt"}) \o SetFlags({"dest", "cnt"})

(* A register count is "loaded" from operand 0.                            *)
Instrument_SHLD(ins) ==
  LoadOperand(ins, 1, "dest", RM) \o LoadReg(INS_OperandReg(ins, 2), "cnt")
  \o (IF Kind(ins, 3) = "reg" THEN LoadReg(INS_OperandReg(ins, 1), "src")
                              ELSE LoadOperand(ins, 3, "src", {"imm"}))
  \o SetOperand(ins, 1, {"dest", "src", "cnt"})
  \o SetFlags({"dest", "src", "cnt"})

Instrument_XADD(ins) ==
  LoadOperand(ins, 1, "dest", RM) \o LoadOperand(ins, 2, "src", {"reg"})
  \o SetOperand(ins, 1, {"dest", "src"})
  \o SetReg(INS_OperandReg(ins, 2), {"dest"})
  \o SetFlags({"dest", "src"})

(* BSF and BSR.                                                            *)
Instrument_BSF(ins) == ClearReg(INS_OperandReg(ins, 1))
-----------------------------------------------------------------------------
(* Data movement.                                                          *)

Instrument_MOV(ins) ==
  LoadOperand(ins, 2, "src", RMI) \o SetOperand(ins, 1, {"src"})

Instrument_MOVDQU(ins) ==
  LoadOperand(ins, 2, "src", RM) \o SetOperand(ins, 1, {"src"})

Instrument_LDDQU(ins) ==
  LoadOperand(ins, 2, "src", {"mem"})
  \o (IF Kind(ins, 1) = "reg" THEN SetReg(INS_OperandReg(ins, 1), {"src"})
                              ELSE <<Abort>>)

Instrument_LEA(ins) ==
  LoadReg(INS_OperandMemoryBaseReg(ins, 2), "base")
  \o LoadReg(INS_OperandMemoryIndexReg(ins, 2), "idx")
  \o SetReg(INS_OperandReg(ins, 1), {"base", "idx"})

Instrument_PUSH(ins) ==
  LoadOperand(ins, 1, "src", RMI) \o SetMem(ins.write, {"src"})

Instrument_POP(ins) == LoadMem(ins.read, "src") \o SetOperand(ins, 1, {"src"})

Instrument_PUSHFD(ins) == LoadReg("RFLAGS", "src") \o SetMem(ins.write, {"src"})

(* The second call reads the flags into src; none writes the flags.        *)
Instrument_POPFD(ins) == LoadMem(ins.read, "src") \o LoadReg("RFLAGS", "src")

(* Mutant: the second load comes after the first store.                    *)
Instrument_XCHG_Sequential(ins) ==
  LoadOperand(ins, 2, "src", RM) \o SetOperand(ins, 1, {"src"})
  \o LoadOperand(ins, 1, "dest", RM) \o SetOperand(ins, 2, {"dest"})

Instrument_XCHG(ins) ==
  LoadOperand(ins, 1, "dest", RM) \o LoadOperand(ins, 2, "src", RM)
  \o SetOperand(ins, 1, {"src"}) \o SetOperand(ins, 2, {"dest"})

(* The Then-calls that run in this execution.  With a memory operand both  *)
(* guards test for equality (CheckEqual_m_r, CheckNotEqual_m_r).           *)
Instrument_CMPXCHG(ins) ==
  IF ins.width \notin {32, 64} THEN <<Abort>>
  ELSE LoadOperand(ins, 1, "dest", RM)
       \o LoadReg(INS_OperandReg(ins, 2), "src")
       \o LoadReg(INS_OperandReg(ins, 3), "eax")
       \o (CASE Kind(ins, 1) = "reg" /\ ins.equal
                  -> SetReg(INS_OperandReg(ins, 1), {"src"})
             [] Kind(ins, 1) = "reg" /\ ~ins.equal
                  -> SetReg(INS_OperandReg(ins, 3), {"src"})
             [] Kind(ins, 1) # "reg" /\ ins.equal
                  -> SetMem(ins.write, {"src"})
                     \o SetReg(INS_OperandReg(ins, 3), {"src"})
             [] OTHER -> <<>>)

Instrument_CWDE(ins) == LoadReg("AX", "dest") \o SetReg("EAX", {"dest"})

Instrument_CDQ(ins) ==
  LET acc == Accumulators(ins.width)
  IN  IF ins.width \notin {32, 64} THEN <<Abort>>
      ELSE LoadReg(acc.ax, acc.axs) \o SetReg(acc.dx, {acc.axs})

(* A memory destination receives the scratch set base, which this handler  *)
(* never loads.                                                            *)
Instrument_SETcc(ins) ==
  LoadReg("RFLAGS", "src")
  \o (CASE Kind(ins, 1) = "reg" -> SetReg(INS_OperandReg(ins, 1), {"src"})
        [] Kind(ins, 1) = "mem" -> SetMem(ins.write, {"base"})
        [] OTHER -> <<Abort>>)
-----------------------------------------------------------------------------
(* String instructions.                                                    *)

Instrument_MOVS(ins) ==
  LoadMem(ins.read, "dest") \o LoadMem(ins.read, "src")
  \o (IF ins.rep
      THEN LoadReg("ECX", "cnt") \o SetMem(ins.write, {"src", "dest", "cnt"})
      ELSE SetMem(ins.write, {"src", "dest"}))

Instrument_CMPSB(ins) ==
  LoadMem(ins.read, "dest") \o LoadMem(ins.read2, "src")
  \o SetFlags({"dest", "src"})

Instrument_STOSB(ins) ==
  LoadReg("AL", "eax") \o LoadReg("EDI", "src") \o SetMem(ins.write, {"eax"})

Instrument_STOSD(ins) ==
  LoadReg("AX", "eax") \o LoadReg("EDI", "src") \o SetMem(ins.write, {"eax"})

Instrument_SCASB(ins) ==
  LoadMem(ins.read, "src") \o LoadReg("AL", "eax") \o SetFlags({"src", "eax"})
  \o (IF ins.rep THEN SetReg("ECX", {"src", "eax"}) ELSE <<>>)
-----------------------------------------------------------------------------
(* Instructions whose result depends on no operand.                        *)

Instrument_CLD(ins) == ClearReg("RFLAGS")

Instrument_RDTSC(ins) == ClearReg("EAX") \o ClearReg("EDX")

Instrument_CPUID(ins) ==
  ClearReg("EAX") \o ClearReg("EBX") \o ClearReg("ECX") \o ClearReg("EDX")

Instrument_FNSTCW(ins) == ClearMem(ins.write)

Instrument_FNSTSW(ins) ==
  IF Kind(ins, 1) = "reg" THEN ClearReg(INS_OperandReg(ins, 1)) ELSE <<>>

(* Jcc, PAUSE, SAHF, LAHF, RET, LEAVE, INT, CALL, JMP, HLT, BT, NOP, BSWAP,*)
(* NOT, ROL, ROR and the floating-point handlers insert nothing.           *)
EmptyHandler(ins) == <<>>

(* The default entry of the dispatch table; its abort() is commented out.  *)
UnimplementedInstruction(ins) == <<>>
-----------------------------------------------------------------------------
SETccClass ==
  {"SETB", "SETNB", "SETZ", "SETNZ", "SETBE", "SETNBE", "SETS", "SETL",
   "SETNL", "SETLE", "SETNLE"}

EmptyClass ==
  {"Jcc", "PAUSE", "SAHF", "LAHF", "RET_NEAR", "LEAVE", "INT", "CALL_NEAR",
   "JMP", "HLT", "BT", "NOP", "BSWAP", "NOT", "ROL", "ROR", "LDMXCSR", "FP"}

(* The dispatch table instrument_functions, indexed by opcode.             *)
instrument_functions(ins) ==
  CASE ins.iclass \in {"ADD", "AND", "OR", "SUB"} -> Instrument_ADD(ins)
    [] ins.iclass \in {"ADC", "SBB"}              -> Instrument_ADC(ins)
    [] ins.iclass = "XOR"                         -> Instrument_XOR(ins)
    [] ins.iclass = "CMP"                         -> Instrument_CMP(ins)
    [] ins.iclass = "TEST"                        -> Instrument_TEST(ins)
    [] ins.iclass \in {"DEC", "INC"}              -> Instrument_DEC(ins)
    [] ins.iclass = "NEG"                         -> Instrument_NEG(ins)
    [] ins.iclass = "MUL"                         -> Instrument_MUL(ins)
    [] ins.iclass = "IMUL"                        -> Instrument_IMUL(ins)
    [] ins.iclass = "DIV"                         -> Instrument_DIV(ins)
    [] ins.iclass = "IDIV"                        -> Instrument_IDIV(ins)
    [] ins.iclass \in {"SAR", "SHL", "SHR"}       -> Instrument_SAR(ins)
    [] ins.iclass \in {"SHLD", "SHRD"}            -> Instrument_SHLD(ins)
    [] ins.iclass = "XADD"                        -> Instrument_XADD(ins)
    [] ins.iclass \in {"BSF", "BSR"}              -> Instrument_BSF(ins)
    [] ins.iclass \in {"MOV", "MOVZX", "MOVSX"}   -> Instrument_MOV(ins)
    [] ins.iclass = "MOVDQU"                      -> Instrument_MOVDQU(ins)
    [] ins.iclass = "LDDQU"                       -> Instrument_LDDQU(ins)
    [] ins.iclass = "LEA"                         -> Instrument_LEA(ins)
    [] ins.iclass = "PUSH"                        -> Instrument_PUSH(ins)
    [] ins.iclass = "POP"                         -> Instrument_POP(ins)
    [] ins.iclass = "PUSHFD"                      -> Instrument_PUSHFD(ins)
    [] ins.iclass = "POPFD"                       -> Instrument_POPFD(ins)
    [] ins.iclass = "XCHG"                        -> Instrument_XCHG(ins)
    [] ins.iclass = "CMPXCHG"                     -> Instrument_CMPXCHG(ins)
    [] ins.iclass = "CWDE"                        -> Instrument_CWDE(ins)
    [] ins.iclass = "CDQ"                         -> Instrument_CDQ(ins)
    [] ins.iclass \in SETccClass                  -> Instrument_SETcc(ins)
    [] ins.iclass \in {"MOVSB", "MOVSW", "MOVSD"} -> Instrument_MOVS(ins)
    [] ins.iclass = "CMPSB"                       -> Instrument_CMPSB(ins)
    [] ins.iclass = "STOSB"                       -> Instrument_STOSB(ins)
    [] ins.iclass = "STOSD"                       -> Instrument_STOSD(ins)
    [] ins.iclass = "SCASB"                       -> Instrument_SCASB(ins)
    [] ins.iclass \in {"CLD", "STD"}              -> Instrument_CLD(ins)
    [] ins.iclass = "RDTSC"                       -> Instrument_RDTSC(ins)
    [] ins.iclass = "CPUID"                       -> Instrument_CPUID(ins)
    [] ins.iclass \in {"FNSTCW", "STMXCSR"}       -> Instrument_FNSTCW(ins)
    [] ins.iclass = "FNSTSW"                      -> Instrument_FNSTSW(ins)
    [] ins.iclass \in EmptyClass                  -> EmptyHandler(ins)
    [] OTHER                                      -> UnimplementedInstruction(ins)

(* What the statements s of a handler have inserted when it ends: all that *)
(* precedes its first return; an abort() ends the tool instead.            *)
Inserted(s) ==
  LET stops == {i \in DOMAIN s : s[i].op \in {"return", "abort"}}
      first == CHOOSE i \in stops : \A j \in stops : i <= j
  IN  CASE stops = {} -> s
        [] stops # {} /\ s[first].op = "abort" -> <<Abort>>
        [] OTHER -> SubSeq(s, 1, first - 1)

(* Dataflow: the handler of the instruction's opcode.                      *)
Dataflow(ins) == Inserted(instrument_functions(ins))

(* Controlflow's calls for the instruction; inserted by the routine-level  *)
(* callback, so they precede Dataflow's.                                   *)
ControlCalls(ins) ==
  (IF ins.push = {} THEN <<>>
   ELSE <<[op |-> "PushControl", addr |-> CHOOSE a \in ins.push : TRUE]>>)
  \o (IF ins.pop = <<>> THEN <<>>
      ELSE <<[op |-> "PopControl", addrs |-> ins.pop]>>)
=============================================================================
