---------------------------- MODULE TaintEngine ----------------------------
(***************************************************************************)
(* dytan.cpp: the taint maps of the process and the analysis routines that *)
(* change them.                                                            *)
(*                                                                         *)
(* All maps and all scratch bitsets are globals shared by every            *)
(* application thread, and no analysis routine takes a lock.  A thread     *)
(* reaches an instruction (Execute) and then runs the calls instrumenta-   *)
(* tion inserted before it one by one; calls of different threads          *)
(* interleave.  One analysis routine is one step.                          *)
(*                                                                         *)
(* Between two instructions a thread may return from a system call, where  *)
(* taint sources (SetNewTaintForMemory) and the system call handlers that  *)
(* drop taint (EraseTaint) run.                                            *)
(***************************************************************************)
EXTENDS InstrumentFunctions, TaintMaps, Integers

CONSTANTS
  Thread,                 \* application threads
  Instructions,           \* executions of instructions the program may do
  NUMBER_OF_TAINT_MARKS,
  INT_MAX,                \* of the generator's int counter
  SourceRange,            \* byte ranges a taint source may taint
  SourceMark,             \* taint_mark arguments; -1 asks the generator
  KernelRange             \* byte ranges system call handlers clean

ASSUME InstructionsAssumption == Instructions \subseteq Instruction
ASSUME MarksAssumption == NUMBER_OF_TAINT_MARKS \in Nat \ {0}
ASSUME IntAssumption == INT_MAX \in Nat \ {0}
ASSUME SourceAssumption ==
  /\ SourceRange \subseteq SUBSET ADDRINT
  /\ SourceMark \subseteq Int
  /\ KernelRange \subseteq SUBSET ADDRINT

ASSUME AddressAssumption == low32 \in [ADDRINT -> Nat]

Mark == 0 .. NUMBER_OF_TAINT_MARKS - 1

VARIABLES
  regTaintMap,      \* REG  -> marks, a std::map: absent keys are distinct
  memTaintMap,      \* byte -> marks
  controlTaintMap,  \* conditional branch -> marks of the flags it tested
  scratch,          \* the global bitsets dest, src, eax, ...
  tagMemoryMap,     \* mark -> byte -> "listed" / "deleted" (TagMemoryMap)
  todo,             \* analysis calls each thread has still to run
  current,          \* TaintGenerator::_current
  aborted           \* abort() or a failed assert has ended the process

(* History, read by the properties only: the marks written to the taint    *)
(* assignment log, and which scratch sets a thread loaded for its present  *)
(* instruction and nobody has overwritten since.                           *)
VARIABLES issued, loaded

maps == <<regTaintMap, memTaintMap, controlTaintMap, tagMemoryMap>>
vars == <<regTaintMap, memTaintMap, controlTaintMap, tagMemoryMap, scratch,
          todo, current, aborted, issued, loaded>>
-----------------------------------------------------------------------------
(* The union of the control taint of all open branches.                    *)
ControlTaint == Marks(controlTaintMap)

(* The union of the bitsets passed as varargs, and the control taint.      *)
Combined(from) == (UNION {scratch[s] : s \in from}) \cup ControlTaint
-----------------------------------------------------------------------------
Init ==
  /\ regTaintMap = <<>> /\ memTaintMap = <<>> /\ controlTaintMap = <<>>
  /\ tagMemoryMap = [m \in Mark |-> <<>>]
  /\ scratch = [s \in Scratch |-> {}]
  /\ todo = [t \in Thread |-> <<>>]
  /\ current = 1
  /\ aborted = FALSE
  /\ issued = {} /\ loaded = {}

Idle(t) == ~aborted /\ todo[t] = <<>>

(* Thread t is about to run a call of routine op.                          *)
At(t, op) == ~aborted /\ todo[t] # <<>> /\ Head(todo[t]).op = op

Advance(t) ==
  /\ todo' = [todo EXCEPT ![t] = Tail(@)]
  /\ UNCHANGED <<current, aborted, issued>>

(* Thread t reaches instruction ins: the calls inserted before it are due. *)
(* The abort of a handler that does not know the operands happens when the *)
(* instruction is first instrumented.                                      *)
Execute(t, ins) ==
  /\ Idle(t)
  /\ LET calls == ControlCalls(ins) \o Dataflow(ins)
         fatal == Dataflow(ins) = <<Abort>>
     IN  /\ aborted' = fatal
         /\ todo' = IF fatal THEN todo ELSE [todo EXCEPT ![t] = calls]
  /\ loaded' = loaded \ ({t} \X Scratch)
  /\ UNCHANGED <<maps, scratch, current, issued>>
-----------------------------------------------------------------------------
(* Analysis routines that fill a scratch set.                              *)

Load(t, s, marks) ==
  /\ scratch' = [scratch EXCEPT ![s] = marks]
  /\ loaded' = (loaded \ (Thread \X {s})) \cup {<<t, s>>}
  /\ Advance(t)
  /\ UNCHANGED maps

ClearTaintSet(t) ==
  /\ At(t, "ClearTaintSet")
  /\ Load(t, Head(todo[t]).set, {})

TaintForRegister(t) ==
  /\ At(t, "TaintForRegister")
  /\ LET call == Head(todo[t])
     IN  Load(t, call.set, Get(regTaintMap, call.reg))

TaintForMemory(t) ==
  /\ At(t, "TaintForMemory")
  /\ LET call == Head(todo[t])
     IN  Load(t, call.set, UNION {Get(memTaintMap, a) : a \in call.mem})
-----------------------------------------------------------------------------
(* Analysis routines that change the register map.                         *)

SubRegisters(r) ==
  CASE r = "R15D" -> {"R15W", "R15B"}
    [] r = "EAX"  -> {"AX", "AH", "AL"}
    [] r = "EBX"  -> {"BX", "BH", "BL"}
    [] r = "ECX"  -> {"CX", "CH", "CL"}
    [] r = "EDX"  -> {"DX", "DH", "DL"}
    [] OTHER      -> {}

SetTaintForRegister(t) ==
  /\ At(t, "SetTaintForRegister")
  /\ LET call == Head(todo[t])
     IN  regTaintMap' =
           IF call.reg \in {"ESP", "EBP"} THEN regTaintMap
           ELSE Put(regTaintMap, {call.reg} \cup SubRegisters(call.reg),
                    Combined(call.from))
  /\ Advance(t)
  /\ UNCHANGED <<memTaintMap, controlTaintMap, tagMemoryMap, scratch, loaded>>

(* Mutant: clears the entry and forgets the control taint.                 *)
ClearTaintForRegister_NoControl(t) ==
  /\ At(t, "ClearTaintForRegister")
  /\ LET call == Head(todo[t])
     IN  regTaintMap' = Put(regTaintMap, {call.reg} \cap DOMAIN regTaintMap, {})
  /\ Advance(t)
  /\ UNCHANGED <<memTaintMap, controlTaintMap, tagMemoryMap, scratch, loaded>>

(* Only an entry that exists is overwritten, with the control taint.       *)
ClearTaintForRegister(t) ==
  /\ At(t, "ClearTaintForRegister")
  /\ LET call == Head(todo[t])
     IN  regTaintMap' =
           Put(regTaintMap, {call.reg} \cap DOMAIN regTaintMap, ControlTaint)
  /\ Advance(t)
  /\ UNCHANGED <<memTaintMap, controlTaintMap, tagMemoryMap, scratch, loaded>>
-----------------------------------------------------------------------------
(* Analysis routines that change the memory map.                           *)

SetTaintForMemory(t) ==
  /\ At(t, "SetTaintForMemory")
  /\ LET call == Head(todo[t])
         tmp  == Combined(call.from)
     IN  /\ tagMemoryMap' =
              [m \in Mark |-> TagUpdate(tagMemoryMap[m], call.mem, m \in tmp)]
         /\ memTaintMap' = Put(memTaintMap, call.mem, tmp)
  /\ Advance(t)
  /\ UNCHANGED <<regTaintMap, controlTaintMap, scratch, loaded>>

ClearTaintForMemory(t) ==
  /\ At(t, "ClearTaintForMemory")
  /\ LET call == Head(todo[t])
     IN  memTaintMap' =
           Put(memTaintMap, call.mem \cap DOMAIN memTaintMap, ControlTaint)
  /\ Advance(t)
  /\ UNCHANGED <<regTaintMap, controlTaintMap, tagMemoryMap, scratch, loaded>>
-----------------------------------------------------------------------------
(* Control taint.                                                          *)

PushControl(t) ==
  /\ At(t, "PushControl")
  /\ LET addr  == Head(todo[t]).addr
         flags == Get(regTaintMap, "RFLAGS")
     IN  controlTaintMap' =
           IF flags = {} THEN controlTaintMap
           ELSE Put(controlTaintMap, {addr}, Get(controlTaintMap, addr) \cup flags)
  /\ Advance(t)
  /\ UNCHANGED <<regTaintMap, memTaintMap, tagMemoryMap, scratch, loaded>>

(* The keys PopControl erases: it returns at the first argument that is    *)
(* not in the map.                                                         *)
Popped(addrs) ==
  {addrs[i] : i \in {j \in DOMAIN addrs :
                       \A k \in 1 .. j : addrs[k] \in DOMAIN controlTaintMap}}

PopControl(t) ==
  /\ At(t, "PopControl")
  /\ controlTaintMap' = Erase(controlTaintMap, Popped(Head(todo[t]).addrs))
  /\ Advance(t)
  /\ UNCHANGED <<regTaintMap, memTaintMap, tagMemoryMap, scratch, loaded>>
-----------------------------------------------------------------------------
(* Taint sources and system call handlers.                                 *)

(* ++_current on an int; the compiled code wraps around.                   *)
Increment(c) == IF c = INT_MAX THEN -INT_MAX - 1 ELSE c + 1

(* C's %, which takes the sign of the dividend.                            *)
Remainder(c, n) == IF c >= 0 THEN c % n ELSE -((-c) % n)

nextTaintMark == Remainder(Increment(current), NUMBER_OF_TAINT_MARKS)

(* Mutant: the assert lets pos = nbits pass.                               *)
InBitset_OffByOne(mark) == mark \in 0 .. NUMBER_OF_TAINT_MARKS

(* bitset_set_bit asserts pos < nbits on a size_t.                         *)
InBitset(mark) == mark \in Mark

(* Mutant: only marks of the generator reach the assignment log.           *)
SetNewTaintForMemory_LogsGenerated(t, mem, taint_mark) ==
  /\ Idle(t)
  /\ LET mark == IF taint_mark = -1 THEN nextTaintMark ELSE taint_mark
     IN  /\ current' = IF taint_mark = -1 THEN Increment(current) ELSE current
         /\ aborted' = ~InBitset(mark)
         /\ IF InBitset(mark)
            THEN /\ memTaintMap' = Put(memTaintMap, mem, {mark})
                 /\ issued' = IF taint_mark = -1 THEN issued \cup {mark} ELSE issued
            ELSE UNCHANGED <<memTaintMap, issued>>
  /\ UNCHANGED <<regTaintMap, controlTaintMap, tagMemoryMap, scratch, todo, loaded>>

SetNewTaintForMemory(t, mem, taint_mark) ==
  /\ Idle(t)
  /\ LET mark == IF taint_mark = -1 THEN nextTaintMark ELSE taint_mark
     IN  /\ current' = IF taint_mark = -1 THEN Increment(current) ELSE current
         /\ aborted' = ~InBitset(mark)
         /\ IF InBitset(mark)
            THEN /\ memTaintMap' = Put(memTaintMap, mem, {mark})
                 /\ issued' = issued \cup {mark}
            ELSE UNCHANGED <<memTaintMap, issued>>
  /\ UNCHANGED <<regTaintMap, controlTaintMap, tagMemoryMap, scratch, todo, loaded>>

(* FSTAT64, GETDENTS64, GETTIMEOFDAY, LSTAT64, MMAP, READLINK, SIGACTION,  *)
(* STAT64, TIME, UNAME ...: the kernel wrote the bytes of mem.             *)
EraseTaint(t, mem) ==
  /\ Idle(t)
  /\ memTaintMap' = Erase(memTaintMap, mem)
  /\ UNCHANGED <<regTaintMap, controlTaintMap, tagMemoryMap, scratch, todo,
                 current, aborted, issued, loaded>>
-----------------------------------------------------------------------------
AnalysisCall(t) ==
  \/ ClearTaintSet(t)
  \/ TaintForRegister(t)
  \/ TaintForMemory(t)
  \/ SetTaintForRegister(t)
  \/ ClearTaintForRegister(t)
  \/ SetTaintForMemory(t)
  \/ ClearTaintForMemory(t)
  \/ PushControl(t)
  \/ PopControl(t)

Next ==
  \E t \in Thread :
    \/ \E ins \in Instructions : Execute(t, ins)
    \/ AnalysisCall(t)
    \/ \E mem \in SourceRange, mark \in SourceMark :
         SetNewTaintForMemory(t, mem, mark)
    \/ \E mem \in KernelRange : EraseTaint(t, mem)

Spec == Init /\ [][Next]_vars
-----------------------------------------------------------------------------
(* Properties.                                                             *)

(* Types; and whatever mark a source asks for or the generator's counter   *)
(* yields, no bit outside the bitsets (bitset_set_bit's assertion) is set. *)
TypeOK ==
  /\ IsMap(regTaintMap, REG, SUBSET Mark)
  /\ IsMap(memTaintMap, ADDRINT, SUBSET Mark)
  /\ IsMap(controlTaintMap, CODE, SUBSET Mark)
  /\ DOMAIN tagMemoryMap = Mark
  /\ \A m \in Mark : IsMap(tagMemoryMap[m], ADDRINT, {"listed", "deleted"})
  /\ scratch \in [Scratch -> SUBSET Mark]
  /\ todo \in [Thread -> Seq(Call)]
  /\ current \in -INT_MAX - 1 .. INT_MAX
  /\ aborted \in BOOLEAN
  /\ issued \subseteq Mark
  /\ loaded \subseteq Thread \X Scratch

(* Every mark found in a register, a byte, an open branch or a scratch     *)
(* bitset, and every mark with a list in tagMemoryMap, was given out by a  *)
(* taint source and is in the taint assignment log: propagation by any     *)
(* number of threads, residual scratch values included, invents none.      *)
NoMarkFromNowhere ==
  /\ Marks(regTaintMap) \cup Marks(memTaintMap) \cup ControlTaint \subseteq issued
  /\ \A s \in Scratch : scratch[s] \subseteq issued
  /\ \A m \in Mark : DOMAIN tagMemoryMap[m] # {} => m \in issued

(* A register or memory range is given the union of scratch sets this      *)
(* thread loaded for this very instruction: never what another instruction *)
(* or another thread left in the shared bitsets ("since src is a shared    *)
(* global it may have a residual value", instrument_functions.c:250).      *)
StoresOwnLoads ==
  \A t \in Thread :
    At(t, "SetTaintForRegister") \/ At(t, "SetTaintForMemory") =>
      \A s \in Head(todo[t]).from : <<t, s>> \in loaded

(* Whatever an analysis call changes in the register or the memory map     *)
(* carries the control taint of all branches open at that moment, cleared  *)
(* entries included.                                                       *)
StoresAbsorbControl ==
  [][todo' # todo =>
       /\ \A r \in DOMAIN regTaintMap' :
            Get(regTaintMap, r) # regTaintMap'[r] => ControlTaint \subseteq regTaintMap'[r]
       /\ \A a \in DOMAIN memTaintMap' :
            Get(memTaintMap, a) # memTaintMap'[a] => ControlTaint \subseteq memTaintMap'[a]
    ]_vars
=============================================================================
