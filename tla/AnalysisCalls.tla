--------------------------- MODULE AnalysisCalls ---------------------------
(***************************************************************************)
(* The vocabulary shared by Dytan's instrumentation routines and by the    *)
(* analysis routines they insert: registers, the global scratch bitsets,   *)
(* instructions as Pin presents them, and analysis calls.                  *)
(*                                                                         *)
(* Instrumentation (instrument_functions.c, Controlflow in dytan.cpp) runs *)
(* once per instruction and inserts a list of calls before it; the calls   *)
(* run each time the instruction is executed.  An instruction record here  *)
(* is one EXECUTION: the operands are static, the addresses it touches     *)
(* (IARG_MEMORYREAD_EA ...) and the outcome of CMPXCHG's comparison are    *)
(* those of this execution.                                                *)
(***************************************************************************)
EXTENDS Naturals, Sequences

CONSTANTS
  REG,      \* Pin's register enumeration (any set holding NamedRegisters)
  ADDRINT,  \* addresses of data bytes
  CODE      \* addresses of instructions (the keys of controlTaintMap)

(* The registers the code names explicitly.                                *)
NamedRegisters ==
  {"INVALID", "EAX", "AX", "AH", "AL", "EBX", "BX", "BH", "BL",
   "ECX", "CX", "CH", "CL", "EDX", "DX", "DH", "DL", "R15D", "R15W", "R15B",
   "ESP", "EBP", "EDI", "RAX", "RDX", "EFLAGS", "RFLAGS"}

ASSUME RegAssumption == NamedRegisters \subseteq REG

(* The global bitsets through which the calls of one instruction pass      *)
(* taint marks to each other; one copy for the whole process.              *)
Scratch == {"dest", "src", "eax", "edx", "base", "idx", "eflags", "cnt",
            "rax", "rdx", "rflags"}

(* What an operand is to INS_OperandIsReg/IsMemory/IsImmediate, and the    *)
(* registers a memory operand is addressed with (REG_INVALID when none).   *)
Operand ==
       [kind : {"reg"}, reg : REG]
  \cup [kind : {"mem"}, base : REG, index : REG]
  \cup [kind : {"imm"}]

(* opnd      operands in Pin's order, implicit ones last                   *)
(* explicit  how many of them are not implicit (INS_OperandIsImplicit)     *)
(* read      bytes read; empty iff ~INS_IsMemoryRead                       *)
(* read2     bytes of the second memory read (CMPSB)                       *)
(* write     bytes written; empty iff ~INS_IsMemoryWrite                   *)
(* rep       INS_HasRealRep / INS_RepPrefix / INS_RepnePrefix              *)
(* equal     CMPXCHG: operand 0 equals the accumulator in this execution   *)
(* push      the call PushControl(a) Controlflow put before it, or none    *)
(* pop       the arguments of the call PopControl put before it            *)
Instruction ==
  [iclass : STRING, opnd : Seq(Operand), explicit : Nat, width : Nat,
   read : SUBSET ADDRINT, read2 : SUBSET ADDRINT, write : SUBSET ADDRINT,
   rep : BOOLEAN, equal : BOOLEAN, push : SUBSET CODE, pop : Seq(CODE)]

(* The calls instrumentation may insert, with their arguments.             *)
Call ==
       [op : {"ClearTaintSet"}, set : Scratch]
  \cup [op : {"TaintForRegister"}, reg : REG, set : Scratch]
  \cup [op : {"TaintForMemory"}, mem : SUBSET ADDRINT, set : Scratch]
  \cup [op : {"SetTaintForRegister"}, reg : REG, from : SUBSET Scratch]
  \cup [op : {"SetTaintForMemory"}, mem : SUBSET ADDRINT, from : SUBSET Scratch]
  \cup [op : {"ClearTaintForRegister"}, reg : REG]
  \cup [op : {"ClearTaintForMemory"}, mem : SUBSET ADDRINT]
  \cup [op : {"PushControl"}, addr : CODE]
  \cup [op : {"PopControl"}, addrs : Seq(CODE)]

(* Two things an instrumentation routine does besides inserting a call.    *)
Return == [op |-> "return"]
Abort  == [op |-> "abort"]

Statement == Call \cup {Return, Abort}
=============================================================================
