----------------------------- MODULE TaintFlow -----------------------------
(***************************************************************************)
(* What Dytan promises of one instruction: the information flow of its     *)
(* handler's comments ("dest, eflags <- union(dest, src)"), applied in one *)
(* step to the state before the instruction.  There are no scratch sets,   *)
(* no analysis calls and no order of loads and stores here, and a location *)
(* without an entry is simply one without marks.                           *)
(***************************************************************************)
EXTENDS AnalysisCalls

CONSTANTS Instructions, Mark

VARIABLES
  insn,          \* {the instruction being executed}, or {} between two
  regTaint,      \* marks of each register
  memTaint,      \* marks of each byte
  controlTaint   \* marks of each conditional branch that is open

flowVars == <<insn, regTaint, memTaint, controlTaint>>
-----------------------------------------------------------------------------
(* Locations, and the ones an operand stands for.                          *)

InReg(r) == {<<"reg", r>>}
InMem(A) == {"mem"} \X A
Flags    == InReg("RFLAGS")

OperandIs(ins, i, kind) == i \in DOMAIN ins.opnd /\ ins.opnd[i].kind = kind

Read(ins, i) ==
  CASE OperandIs(ins, i, "reg") -> InReg(ins.opnd[i].reg)
    [] OperandIs(ins, i, "mem") -> InMem(ins.read)
    [] OTHER -> {}

Written(ins, i) ==
  IF OperandIs(ins, i, "reg") THEN InReg(ins.opnd[i].reg) ELSE InMem(ins.write)

(* to <- union of from;  to <- clear                                       *)
Assign(to, from) == [to |-> to, from |-> from, clear |-> FALSE]
Clear(to)        == [to |-> to, from |-> {}, clear |-> TRUE]

(* eax / rax and edx / rdx, by operand width.                              *)
Accumulator(ins) == InReg(IF ins.width = 32 THEN "EAX" ELSE "RAX")
Extension(ins)   == InReg(IF ins.width = 32 THEN "EDX" ELSE "RDX")

TwoOperand == {"ADD", "AND", "OR", "SUB", "SAR", "SHL", "SHR"}
Compare    == {"CMP", "TEST"}
Move       == {"MOV", "MOVZX", "MOVSX", "MOVDQU", "LDDQU"}
Setcc      == {"SETB", "SETNB", "SETZ", "SETNZ", "SETBE", "SETNBE", "SETS",
               "SETL", "SETNL", "SETLE", "SETNLE"}

(* dest <- dest, src, eflags and the like: operands, more sources.         *)
DestAndFlags(ins, from) == {Assign(Written(ins, 1) \cup Flags, from)}

Documented(ins) ==
  LET dest == Read(ins, 1)
      src  == Read(ins, 2)
      same == OperandIs(ins, 1, "reg") /\ OperandIs(ins, 2, "reg") /\ dest = src
  IN
  CASE ins.iclass \in TwoOperand     -> DestAndFlags(ins, dest \cup src)
    [] ins.iclass \in {"ADC", "SBB"} -> DestAndFlags(ins, dest \cup src \cup Flags)
    [] ins.iclass = "XOR" /\ ~same   -> DestAndFlags(ins, dest \cup src)
    [] ins.iclass = "XOR" /\ same    -> {Clear(dest), Assign(Flags, dest)}
    [] ins.iclass \in Compare        -> {Assign(Flags, dest \cup src)}
    [] ins.iclass \in {"INC", "DEC", "NEG"} -> {Assign(Flags, dest)}
    [] ins.iclass = "MUL" \/ (ins.iclass = "IMUL" /\ ins.explicit = 1)
         -> {Assign(Accumulator(ins) \cup Extension(ins) \cup Flags,
                    Accumulator(ins) \cup dest)}
    [] ins.iclass = "IMUL" /\ ins.explicit # 1 -> DestAndFlags(ins, dest \cup src)
    [] ins.iclass \in {"DIV", "IDIV"}
         -> {Assign(Accumulator(ins) \cup Extension(ins),
                    Accumulator(ins) \cup Extension(ins) \cup dest),
             Clear(Flags)}
    [] ins.iclass \in {"SHLD", "SHRD"}
         -> DestAndFlags(ins, dest \cup src \cup Read(ins, 3))
    [] ins.iclass = "XADD"
         -> {Assign(Written(ins, 1) \cup Flags, dest \cup src),
             Assign(Written(ins, 2), dest)}
    [] ins.iclass \in {"BSF", "BSR"} -> {Clear(dest)}
    [] ins.iclass \in Move           -> {Assign(Written(ins, 1), src)}
    [] ins.iclass = "LEA"
         -> {Assign(dest, InReg(ins.opnd[2].base) \cup InReg(ins.opnd[2].index))}
    [] ins.iclass = "PUSH"           -> {Assign(InMem(ins.write), dest)}
    [] ins.iclass = "POP"            -> {Assign(Written(ins, 1), InMem(ins.read))}
    [] ins.iclass = "PUSHFD"         -> {Assign(InMem(ins.write), Flags)}
    [] ins.iclass = "POPFD"          -> {Assign(Flags, InMem(ins.read))}
    [] ins.iclass = "XCHG"
         -> {Assign(Written(ins, 1), src), Assign(Written(ins, 2), dest)}
    [] ins.iclass = "CMPXCHG"
         -> {Assign(Written(ins, IF ins.equal THEN 1 ELSE 3), src)}
    [] ins.iclass = "CWDE"           -> {Assign(InReg("EAX"), InReg("AX"))}
    [] ins.iclass = "CDQ"            -> {Assign(Extension(ins), Accumulator(ins))}
    [] ins.iclass \in Setcc          -> {Assign(Written(ins, 1), Flags)}
    [] ins.iclass \in {"MOVSB", "MOVSW", "MOVSD"}
         -> {Assign(InMem(ins.write),
                    InMem(ins.read) \cup (IF ins.rep THEN InReg("ECX") ELSE {}))}
    [] ins.iclass = "CMPSB"  -> {Assign(Flags, InMem(ins.read \cup ins.read2))}
    [] ins.iclass = "STOSB"  -> {Assign(InMem(ins.write), InReg("AL"))}
    [] ins.iclass = "STOSD"  -> {Assign(InMem(ins.write), InReg("AX"))}
    [] ins.iclass = "SCASB"
         -> {Assign(Flags \cup (IF ins.rep THEN InReg("ECX") ELSE {}),
                    InMem(ins.read) \cup InReg("AL"))}
    [] ins.iclass \in {"CLD", "STD"} -> {Clear(Flags)}
    [] ins.iclass = "RDTSC"  -> {Clear(InReg("EAX") \cup InReg("EDX"))}
    [] ins.iclass = "CPUID"
         -> {Clear(UNION {InReg(r) : r \in {"EAX", "EBX", "ECX", "EDX"}})}
    [] ins.iclass \in {"FNSTCW", "STMXCSR"} -> {Clear(InMem(ins.write))}
    [] ins.iclass = "FNSTSW" /\ OperandIs(ins, 1, "reg") -> {Clear(dest)}
    [] OTHER -> {}

(* "Pin know that the operand is a memory reference but can't figure out   *)
(* exactly what memory is being accessed.  In this case we bail".          *)
Unaddressable(ins) ==
  /\ ins.iclass # "LEA"
  /\ \E i \in DOMAIN ins.opnd : ins.opnd[i].kind = "mem"
  /\ ins.read \cup ins.write = {}

Flow(ins) == IF Unaddressable(ins) THEN {} ELSE Documented(ins)
-----------------------------------------------------------------------------
(* Writing a register writes its parts; the stack pointers stay clean.     *)
Parts(r) ==
  CASE r = "EAX"  -> {"AX", "AH", "AL"}  [] r = "EBX" -> {"BX", "BH", "BL"}
    [] r = "ECX"  -> {"CX", "CH", "CL"}  [] r = "EDX" -> {"DX", "DH", "DL"}
    [] r = "R15D" -> {"R15W", "R15B"}    [] OTHER -> {}

Targets(f) ==
  IF f.clear THEN f.to
  ELSE {l \in f.to : l \notin InReg("ESP") \cup InReg("EBP")}
       \cup UNION {InReg(p) : p \in UNION {Parts(l[2]) : l \in {k \in f.to : k[1] = "reg"}}}

Taint(l) == IF l[1] = "reg" THEN regTaint[l[2]] ELSE memTaint[l[2]]

(* The marks location l may have after ins, when control is the union of   *)
(* the marks of the branches then open.  A clear leaves the control taint, *)
(* or nothing where nothing was.                                           *)
After(l, ins, control) ==
  LET flows == {f \in Flow(ins) : l \in Targets(f)}
  IN  IF flows = {} THEN {Taint(l)}
      ELSE UNION {IF f.clear THEN {{}, control}
                  ELSE {(UNION {Taint(k) : k \in f.from}) \cup control} : f \in flows}

(* Branches opened and closed before ins.                                  *)
ControlAfter(ins) ==
  [c \in CODE |->
     IF \E i \in DOMAIN ins.pop : ins.pop[i] = c THEN {}
     ELSE controlTaint[c] \cup (IF c \in ins.push THEN regTaint["RFLAGS"] ELSE {})]

Begin ==
  /\ insn = {}
  /\ \E ins \in Instructions : insn' = {ins}
  /\ UNCHANGED <<regTaint, memTaint, controlTaint>>

Complete ==
  \E ins \in insn :
    /\ insn' = {}
    /\ controlTaint' = ControlAfter(ins)
    /\ LET control == UNION {controlTaint'[c] : c \in CODE}
       IN  /\ \A r \in REG : regTaint'[r] \in After(<<"reg", r>>, ins, control)
           /\ \A a \in ADDRINT : memTaint'[a] \in After(<<"mem", a>>, ins, control)

Init ==
  /\ insn = {}
  /\ regTaint \in [REG -> SUBSET Mark]
  /\ memTaint \in [ADDRINT -> SUBSET Mark]
  /\ controlTaint \in [CODE -> SUBSET Mark]

Next == Begin \/ Complete

Spec == Init /\ [][Next]_flowVars
=============================================================================
