------------------------- MODULE TaintEngineProofs -------------------------
(***************************************************************************)
(* What the handlers of instrument_functions.c insert, for every           *)
(* instruction: a list of well-formed analysis calls, or abort().  And the *)
(* properties of TaintEngine, which runs these calls, for any number of    *)
(* threads and marks, any memory and any program.                          *)
(***************************************************************************)
EXTENDS TaintEngine, WellFoundedInduction, TLAPS

-----------------------------------------------------------------------------
(* The handlers.                                                           *)

(* INS_OperandReg and its companions return a register for every operand,  *)
(* REG_INVALID included.                                                   *)
LEMMA OperandRegisters ==
  ASSUME NEW ins \in Instruction, NEW i
  PROVE  /\ INS_OperandReg(ins, i) \in REG
         /\ INS_OperandMemoryBaseReg(ins, i) \in REG
         /\ INS_OperandMemoryIndexReg(ins, i) \in REG
<1>1. "INVALID" \in REG
  BY RegAssumption DEF NamedRegisters
<1>2. CASE i \in DOMAIN ins.opnd
  <2>1. ins.opnd[i] \in Operand
    BY <1>2 DEF Instruction
  <2> QED
    BY <1>1, <1>2, <2>1 DEF Operand, INS_OperandReg,
       INS_OperandMemoryBaseReg, INS_OperandMemoryIndexReg, Kind
<1>3. CASE i \notin DOMAIN ins.opnd
  BY <1>1, <1>3 DEF INS_OperandReg, INS_OperandMemoryBaseReg,
     INS_OperandMemoryIndexReg, Kind
<1> QED
  BY <1>2, <1>3

-----------------------------------------------------------------------------
(* Handlers load before they store.  Feed(A, s, B) is read like a Hoare    *)
(* triple: when the scratch sets in A hold what this instruction loaded,   *)
(* every store among the statements s uses loaded sets only, and after s   *)
(* the sets in B are loaded.  After a return or an abort nothing runs, so  *)
(* everything holds there.                                                 *)

Stop(c) == c.op \in {"return", "abort"}
LoadsSet(c, x) ==
  c.op \in {"ClearTaintSet", "TaintForRegister", "TaintForMemory"} /\ c.set = x
Stores(c) == c.op \in {"SetTaintForRegister", "SetTaintForMemory"}

(* A statement before position i of s loads x.                             *)
Supplied(s, i, x) ==
  \E j \in DOMAIN s : j < i /\ (Stop(s[j]) \/ LoadsSet(s[j], x))

Fed(s, A) ==
  \A i \in DOMAIN s : Stores(s[i]) =>
    \A x \in s[i].from : x \in A \/ Supplied(s, i, x)

Feed(A, s, B) ==
  /\ s \in Seq(Statement)
  /\ Fed(s, A)
  /\ \A x \in B : x \in A \/ Supplied(s, Len(s) + 1, x)

(* Composition.                                                            *)
LEMMA Chain ==
  ASSUME NEW A, NEW B, NEW C, NEW s, NEW t, Feed(A, s, B), Feed(B, t, C)
  PROVE  Feed(A, s \o t, C)
<1> DEFINE u == s \o t
<1>1. /\ s \in Seq(Statement) /\ t \in Seq(Statement)
      /\ u \in Seq(Statement)
      /\ Len(s) \in Nat /\ Len(t) \in Nat /\ Len(u) = Len(s) + Len(t)
  BY DEF Feed
<1>2. /\ DOMAIN s = 1 .. Len(s) /\ DOMAIN t = 1 .. Len(t)
      /\ DOMAIN u = 1 .. Len(s) + Len(t)
  BY <1>1
<1>3. \A i \in DOMAIN s : i \in DOMAIN u /\ u[i] = s[i]
  BY <1>1, <1>2
<1>4. \A i \in DOMAIN t : Len(s) + i \in DOMAIN u /\ u[Len(s) + i] = t[i]
  BY <1>1, <1>2
<1>5. ASSUME NEW x, NEW i \in Nat, Supplied(s, i, x)
      PROVE  Supplied(u, i, x)
  BY <1>3, <1>5 DEF Supplied
<1>6. ASSUME NEW x, NEW i \in Nat, Supplied(t, i, x)
      PROVE  Supplied(u, Len(s) + i, x)
  <2>1. PICK j \in DOMAIN t : j < i /\ (Stop(t[j]) \/ LoadsSet(t[j], x))
    BY <1>6 DEF Supplied
  <2>2. Len(s) + j < Len(s) + i
    BY <2>1, <1>1, <1>2
  <2> QED
    BY <2>1, <2>2, <1>4 DEF Supplied
<1>7. ASSUME NEW x \in B, NEW i \in Nat, i > Len(s)
      PROVE  x \in A \/ Supplied(u, i, x)
  <2>1. CASE x \in A
    BY <2>1
  <2>2. CASE Supplied(s, Len(s) + 1, x)
    <3>1. PICK j \in DOMAIN s : Stop(s[j]) \/ LoadsSet(s[j], x)
      BY <2>2 DEF Supplied
    <3>2. j < i
      BY <1>2, <1>1, <1>7
    <3> QED
      BY <3>1, <3>2, <1>3 DEF Supplied
  <2> QED
    BY <2>1, <2>2 DEF Feed
<1>8. Fed(u, A)
  <2> SUFFICES ASSUME NEW i \in DOMAIN u, Stores(u[i]), NEW x \in u[i].from
               PROVE  x \in A \/ Supplied(u, i, x)
    BY DEF Fed
  <2>1. CASE i \in DOMAIN s
    <3>1. x \in A \/ Supplied(s, i, x)
      BY <2>1, <1>3 DEF Feed, Fed
    <3> QED
      BY <3>1, <2>1, <1>2, <1>5
  <2>2. CASE i \notin DOMAIN s
    <3> DEFINE k == i - Len(s)
    <3>1. k \in DOMAIN t /\ i = Len(s) + k /\ k \in Nat /\ i \in Nat /\ i > Len(s)
      BY <2>2, <1>1, <1>2
    <3>2. u[i] = t[k]
      BY <3>1, <1>4
    <3>3. x \in B \/ Supplied(t, k, x)
      BY <3>1, <3>2 DEF Feed, Fed
    <3>4. CASE Supplied(t, k, x)
      BY <3>1, <3>4, <1>6
    <3>5. CASE x \in B
      BY <3>1, <3>5, <1>7
    <3> QED
      BY <3>3, <3>4, <3>5
  <2> QED
    BY <2>1, <2>2
<1>9. ASSUME NEW x \in C
      PROVE  x \in A \/ Supplied(u, Len(u) + 1, x)
  <2>1. x \in B \/ Supplied(t, Len(t) + 1, x)
    BY DEF Feed
  <2>2. CASE Supplied(t, Len(t) + 1, x)
    <3>1. Supplied(u, Len(s) + (Len(t) + 1), x)
      BY <2>2, <1>6, <1>1
    <3>2. Len(s) + (Len(t) + 1) = Len(u) + 1
      BY <1>1
    <3> QED
      BY <3>1, <3>2
  <2>3. CASE x \in B
    <3>1. Len(u) + 1 \in Nat /\ Len(u) + 1 > Len(s)
      BY <1>1
    <3> QED
      BY <2>3, <3>1, <1>7
  <2> QED
    BY <2>1, <2>2, <2>3
<1> QED
  BY <1>1, <1>8, <1>9 DEF Feed

(* A one-statement list.                                                   *)
LEMMA FeedSingle ==
  ASSUME NEW A, NEW B, NEW c \in Statement,
         Stores(c) => c.from \subseteq A,
         \A x \in B : x \in A \/ Stop(c) \/ LoadsSet(c, x)
  PROVE  Feed(A, <<c>>, B)
<1> DEFINE s == <<c>>
<1>1. s \in Seq(Statement) /\ Len(s) = 1 /\ DOMAIN s = {1} /\ s[1] = c
  OBVIOUS
<1>2. Fed(s, A)
  BY <1>1 DEF Fed
<1>3. \A x \in B : x \in A \/ Supplied(s, Len(s) + 1, x)
  BY <1>1 DEF Supplied
<1> QED
  BY <1>1, <1>2, <1>3 DEF Feed

(* No statement at all.                                                     *)
LEMMA FeedNothing ==
  ASSUME NEW A, NEW B, B \subseteq A
  PROVE  Feed(A, <<>>, B)
  BY DEF Feed, Fed

(* A return or an abort.                                                    *)
LEMMA FeedStop ==
  ASSUME NEW A, NEW B
  PROVE  Feed(A, <<Return>>, B) /\ Feed(A, <<Abort>>, B)
<1>1. /\ Return \in Statement /\ Stop(Return) /\ ~Stores(Return)
      /\ Abort \in Statement /\ Stop(Abort) /\ ~Stores(Abort)
  BY DEF Statement, Return, Abort, Stop, Stores
<1> QED
  BY <1>1, FeedSingle

(* Statements that load scratch set x.                                      *)
LEMMA FeedLoad ==
  ASSUME NEW A, NEW B, NEW r \in REG, NEW x \in Scratch,
         NEW mem \in SUBSET ADDRINT, B \subseteq A \cup {x}
  PROVE  /\ Feed(A, LoadReg(r, x), B)
         /\ Feed(A, ClearSet(x), B)
         /\ Feed(A, LoadMem(mem, x), B)
<1> DEFINE byReg == [op |-> "TaintForRegister", reg |-> r, set |-> x]
           byMem == [op |-> "TaintForMemory", mem |-> mem, set |-> x]
           clear == [op |-> "ClearTaintSet", set |-> x]
<1>1. byReg \in Statement /\ byMem \in Statement /\ clear \in Statement
  BY DEF Statement, Call
<1>2. /\ LoadsSet(byReg, x) /\ LoadsSet(byMem, x) /\ LoadsSet(clear, x)
      /\ ~Stores(byReg) /\ ~Stores(byMem) /\ ~Stores(clear)
  BY DEF LoadsSet, Stores
<1>3. Feed(A, <<byReg>>, B)
  BY <1>1, <1>2, FeedSingle
<1>4. Feed(A, <<byMem>>, B)
  BY <1>1, <1>2, FeedSingle
<1>5. Feed(A, <<clear>>, B)
  BY <1>1, <1>2, FeedSingle
<1> QED
  BY <1>3, <1>4, <1>5, FeedStop DEF LoadReg, LoadMem, ClearSet

(* Statements that store scratch sets loaded before.                        *)
LEMMA FeedStore ==
  ASSUME NEW A, NEW B, NEW r \in REG, NEW from \in SUBSET Scratch,
         NEW mem \in SUBSET ADDRINT, from \subseteq A, B \subseteq A
  PROVE  /\ Feed(A, SetReg(r, from), B)
         /\ Feed(A, SetMem(mem, from), B)
<1> DEFINE toReg == [op |-> "SetTaintForRegister", reg |-> r, from |-> from]
           toMem == [op |-> "SetTaintForMemory", mem |-> mem, from |-> from]
<1>1. toReg \in Statement /\ toMem \in Statement
  BY DEF Statement, Call
<1>2. Feed(A, <<toReg>>, B)
  BY <1>1, FeedSingle
<1>3. Feed(A, <<toMem>>, B)
  BY <1>1, FeedSingle
<1> QED
  BY <1>2, <1>3, FeedStop DEF SetReg, SetMem

(* Statements that clear a register or bytes.                               *)
LEMMA FeedClear ==
  ASSUME NEW A, NEW B, NEW r \in REG, NEW mem \in SUBSET ADDRINT, B \subseteq A
  PROVE  /\ Feed(A, ClearReg(r), B)
         /\ Feed(A, ClearMem(mem), B)
<1> DEFINE reg == [op |-> "ClearTaintForRegister", reg |-> r]
           bytes == [op |-> "ClearTaintForMemory", mem |-> mem]
<1>1. reg \in Statement /\ bytes \in Statement /\ ~Stores(reg) /\ ~Stores(bytes)
  BY DEF Statement, Call, Stores
<1> QED
  BY <1>1, FeedSingle DEF ClearReg, ClearMem

(* Loading and storing an operand, and the flags.                          *)
LEMMA FeedOperand ==
  ASSUME NEW A, NEW B, NEW ins \in Instruction, NEW i, NEW kinds,
         NEW x \in Scratch, B \subseteq A \cup {x}
  PROVE  Feed(A, LoadOperand(ins, i, x, kinds), B)
<1>1. ins.read \in SUBSET ADDRINT /\ INS_OperandReg(ins, i) \in REG
  BY OperandRegisters DEF Instruction
<1>2. /\ Feed(A, LoadReg(INS_OperandReg(ins, i), x), B)
      /\ Feed(A, ClearSet(x), B)
      /\ Feed(A, LoadMem(ins.read, x), B)
      /\ Feed(A, <<Abort>>, B)
  BY <1>1, FeedLoad, FeedStop
<1> QED
  BY <1>2, Zenon DEF LoadOperand

(* Storing to an operand or to the flags.                                   *)
LEMMA StoreOperand ==
  ASSUME NEW A, NEW B, NEW ins \in Instruction, NEW i,
         NEW from \in SUBSET Scratch, from \subseteq A, B \subseteq A
  PROVE  /\ Feed(A, SetOperand(ins, i, from), B)
         /\ Feed(A, SetReg(INS_OperandReg(ins, i), from), B)
         /\ Feed(A, SetFlags(from), B)
<1>1. /\ ins.write \in SUBSET ADDRINT
      /\ INS_OperandReg(ins, i) \in REG /\ "RFLAGS" \in REG
  BY OperandRegisters, RegAssumption DEF Instruction, NamedRegisters
<1>2. /\ Feed(A, SetReg(INS_OperandReg(ins, i), from), B)
      /\ Feed(A, SetReg("RFLAGS", from), B)
      /\ Feed(A, SetMem(ins.write, from), B)
      /\ Feed(A, <<Abort>>, B)
  BY <1>1, FeedStore, FeedStop
<1>3. Feed(A, SetOperand(ins, i, from), B)
  BY <1>2, Zenon DEF SetOperand
<1> QED
  BY <1>2, <1>3 DEF SetFlags

(* Instruction fields the handlers use, and the registers they name.       *)
LEMMA Facts ==
  ASSUME NEW ins \in Instruction
  PROVE  /\ ins.read \in SUBSET ADDRINT /\ ins.read2 \in SUBSET ADDRINT
         /\ ins.write \in SUBSET ADDRINT
         /\ \A i : /\ INS_OperandReg(ins, i) \in REG
                   /\ INS_OperandMemoryBaseReg(ins, i) \in REG
                   /\ INS_OperandMemoryIndexReg(ins, i) \in REG
         /\ NamedRegisters \subseteq REG
         /\ "EAX" \in REG /\ "AX" \in REG /\ "AL" \in REG /\ "EBX" \in REG
         /\ "ECX" \in REG /\ "EDX" \in REG /\ "EDI" \in REG /\ "RAX" \in REG
         /\ "RDX" \in REG /\ "RFLAGS" \in REG /\ "EFLAGS" \in REG
  BY OperandRegisters, RegAssumption DEF Instruction, NamedRegisters

(* Handlers that end in dest, eflags <- union(...).                       *)
LEMMA FeedBinary ==
  ASSUME NEW ins \in Instruction
  PROVE  /\ Feed({}, Instrument_ADD(ins), {})
         /\ Feed({}, Instrument_ADC(ins), {})
         /\ Feed({}, Instrument_SAR(ins), {})
         /\ Feed({}, Instrument_XADD(ins), {})
         /\ Feed({}, Instrument_CMP(ins), {})
         /\ Feed({}, Instrument_TEST(ins), {})
         /\ Feed({}, Instrument_DEC(ins), {})
         /\ Feed({}, Instrument_NEG(ins), {})
<1>1. Feed({}, Instrument_ADD(ins), {})
  <2>1. Feed({}, LoadOperand(ins, 1, "dest", RM), {"dest"})
    BY FeedOperand DEF Scratch
  <2>2. Feed({"dest"}, LoadOperand(ins, 2, "src", RMI), {"dest", "src"})
    BY FeedOperand DEF Scratch
  <2>3. Feed({"dest", "src"}, SetOperand(ins, 1, {"dest", "src"}), {"dest", "src"})
    BY StoreOperand DEF Scratch
  <2>4. Feed({"dest", "src"}, SetFlags({"dest", "src"}), {})
    BY StoreOperand DEF Scratch
  <2> QED
    BY <2>1, <2>2, <2>3, <2>4, Chain DEF Instrument_ADD
<1>2. Feed({}, Instrument_ADC(ins), {})
  <2>1. Feed({}, LoadOperand(ins, 1, "dest", RM), {"dest"})
    BY FeedOperand DEF Scratch
  <2>2. Feed({"dest"}, LoadOperand(ins, 2, "src", RMI), {"dest", "src"})
    BY FeedOperand DEF Scratch
  <2>3. Feed({"dest", "src"}, LoadReg("RFLAGS", "eflags"), {"dest", "src", "eflags"})
    BY Facts, FeedLoad DEF Scratch
  <2>4. Feed({"dest", "src", "eflags"}, SetOperand(ins, 1, {"dest", "src", "eflags"}), {"dest", "src", "eflags"})
    BY StoreOperand DEF Scratch
  <2>5. Feed({"dest", "src", "eflags"}, SetFlags({"dest", "src", "eflags"}), {})
    BY StoreOperand DEF Scratch
  <2> QED
    BY <2>1, <2>2, <2>3, <2>4, <2>5, Chain DEF Instrument_ADC
<1>3. Feed({}, Instrument_SAR(ins), {})
  <2>1. Feed({}, LoadOperand(ins, 1, "dest", RM), {"dest"})
    BY FeedOperand DEF Scratch
  <2>2. Feed({"dest"}, LoadOperand(ins, 2, "cnt", RI), {"dest", "cnt"})
    BY FeedOperand DEF Scratch
  <2>3. Feed({"dest", "cnt"}, SetOperand(ins, 1, {"dest", "cnt"}), {"dest", "cnt"})
    BY StoreOperand DEF Scratch
  <2>4. Feed({"dest", "cnt"}, SetFlags({"dest", "cnt"}), {})
    BY StoreOperand DEF Scratch
  <2> QED
    BY <2>1, <2>2, <2>3, <2>4, Chain DEF Instrument_SAR
<1>4. Feed({}, Instrument_XADD(ins), {})
  <2>1. Feed({}, LoadOperand(ins, 1, "dest", RM), {"dest"})
    BY FeedOperand DEF Scratch
  <2>2. Feed({"dest"}, LoadOperand(ins, 2, "src", {"reg"}), {"dest", "src"})
    BY FeedOperand DEF Scratch
  <2>3. Feed({"dest", "src"}, SetOperand(ins, 1, {"dest", "src"}), {"dest", "src"})
    BY StoreOperand DEF Scratch
  <2>4. Feed({"dest", "src"}, SetReg(INS_OperandReg(ins, 2), {"dest"}), {"dest", "src"})
    BY StoreOperand DEF Scratch
  <2>5. Feed({"dest", "src"}, SetFlags({"dest", "src"}), {})
    BY StoreOperand DEF Scratch
  <2> QED
    BY <2>1, <2>2, <2>3, <2>4, <2>5, Chain DEF Instrument_XADD
<1>5. Feed({}, Instrument_CMP(ins), {})
  <2>1. Feed({}, LoadOperand(ins, 1, "dest", RM), {"dest"})
    BY FeedOperand DEF Scratch
  <2>2. Feed({"dest"}, LoadOperand(ins, 2, "src", RMI), {"dest", "src"})
    BY FeedOperand DEF Scratch
  <2>3. Feed({"dest", "src"}, SetFlags({"dest", "src"}), {})
    BY StoreOperand DEF Scratch
  <2> QED
    BY <2>1, <2>2, <2>3, Chain DEF Instrument_CMP
<1>6. Feed({}, Instrument_TEST(ins), {})
  <2>1. Feed({}, LoadOperand(ins, 1, "dest", RM), {"dest"})
    BY FeedOperand DEF Scratch
  <2>2. Feed({"dest"}, LoadOperand(ins, 2, "src", RI), {"dest", "src"})
    BY FeedOperand DEF Scratch
  <2>3. Feed({"dest", "src"}, SetFlags({"dest", "src"}), {})
    BY StoreOperand DEF Scratch
  <2> QED
    BY <2>1, <2>2, <2>3, Chain DEF Instrument_TEST
<1>7. Feed({}, Instrument_DEC(ins), {})
  <2>1. Feed({}, LoadOperand(ins, 1, "dest", RM), {"dest"})
    BY FeedOperand DEF Scratch
  <2>2. Feed({"dest"}, SetFlags({"dest"}), {})
    BY StoreOperand DEF Scratch
  <2> QED
    BY <2>1, <2>2, Chain DEF Instrument_DEC
<1>8. Feed({}, Instrument_NEG(ins), {})
  <2>1. Feed({}, LoadOperand(ins, 1, "dest", RM), {"dest"})
    BY FeedOperand DEF Scratch
  <2>2. Feed({"dest"}, SetFlags({"dest"}), {})
    BY StoreOperand DEF Scratch
  <2> QED
    BY <2>1, <2>2, Chain DEF Instrument_NEG
<1> QED
  BY <1>1, <1>2, <1>3, <1>4, <1>5, <1>6, <1>7, <1>8

(* Handlers that move data.                                                *)
LEMMA FeedMove ==
  ASSUME NEW ins \in Instruction
  PROVE  /\ Feed({}, Instrument_MOV(ins), {})
         /\ Feed({}, Instrument_MOVDQU(ins), {})
         /\ Feed({}, Instrument_LEA(ins), {})
         /\ Feed({}, Instrument_PUSH(ins), {})
         /\ Feed({}, Instrument_POP(ins), {})
         /\ Feed({}, Instrument_PUSHFD(ins), {})
         /\ Feed({}, Instrument_POPFD(ins), {})
         /\ Feed({}, Instrument_XCHG(ins), {})
         /\ Feed({}, Instrument_CWDE(ins), {})
         /\ Feed({}, Instrument_CMPSB(ins), {})
         /\ Feed({}, Instrument_STOSB(ins), {})
         /\ Feed({}, Instrument_STOSD(ins), {})
<1>1. Feed({}, Instrument_MOV(ins), {})
  <2>1. Feed({}, LoadOperand(ins, 2, "src", RMI), {"src"})
    BY FeedOperand DEF Scratch
  <2>2. Feed({"src"}, SetOperand(ins, 1, {"src"}), {})
    BY StoreOperand DEF Scratch
  <2> QED
    BY <2>1, <2>2, Chain DEF Instrument_MOV
<1>2. Feed({}, Instrument_MOVDQU(ins), {})
  <2>1. Feed({}, LoadOperand(ins, 2, "src", RM), {"src"})
    BY FeedOperand DEF Scratch
  <2>2. Feed({"src"}, SetOperand(ins, 1, {"src"}), {})
    BY StoreOperand DEF Scratch
  <2> QED
    BY <2>1, <2>2, Chain DEF Instrument_MOVDQU
<1>3. Feed({}, Instrument_LEA(ins), {})
  <2>1. Feed({}, LoadReg(INS_OperandMemoryBaseReg(ins, 2), "base"), {"base"})
    BY Facts, FeedLoad DEF Scratch
  <2>2. Feed({"base"}, LoadReg(INS_OperandMemoryIndexReg(ins, 2), "idx"), {"base", "idx"})
    BY Facts, FeedLoad DEF Scratch
  <2>3. Feed({"base", "idx"}, SetReg(INS_OperandReg(ins, 1), {"base", "idx"}), {})
    BY StoreOperand DEF Scratch
  <2> QED
    BY <2>1, <2>2, <2>3, Chain DEF Instrument_LEA
<1>4. Feed({}, Instrument_PUSH(ins), {})
  <2>1. Feed({}, LoadOperand(ins, 1, "src", RMI), {"src"})
    BY FeedOperand DEF Scratch
  <2>2. Feed({"src"}, SetMem(ins.write, {"src"}), {})
    BY Facts, FeedStore DEF Scratch
  <2> QED
    BY <2>1, <2>2, Chain DEF Instrument_PUSH
<1>5. Feed({}, Instrument_POP(ins), {})
  <2>1. Feed({}, LoadMem(ins.read, "src"), {"src"})
    BY Facts, FeedLoad DEF Scratch
  <2>2. Feed({"src"}, SetOperand(ins, 1, {"src"}), {})
    BY StoreOperand DEF Scratch
  <2> QED
    BY <2>1, <2>2, Chain DEF Instrument_POP
<1>6. Feed({}, Instrument_PUSHFD(ins), {})
  <2>1. Feed({}, LoadReg("RFLAGS", "src"), {"src"})
    BY Facts, FeedLoad DEF Scratch
  <2>2. Feed({"src"}, SetMem(ins.write, {"src"}), {})
    BY Facts, FeedStore DEF Scratch
  <2> QED
    BY <2>1, <2>2, Chain DEF Instrument_PUSHFD
<1>7. Feed({}, Instrument_POPFD(ins), {})
  <2>1. Feed({}, LoadMem(ins.read, "src"), {"src"})
    BY Facts, FeedLoad DEF Scratch
  <2>2. Feed({"src"}, LoadReg("RFLAGS", "src"), {})
    BY Facts, FeedLoad DEF Scratch
  <2> QED
    BY <2>1, <2>2, Chain DEF Instrument_POPFD
<1>8. Feed({}, Instrument_XCHG(ins), {})
  <2>1. Feed({}, LoadOperand(ins, 1, "dest", RM), {"dest"})
    BY FeedOperand DEF Scratch
  <2>2. Feed({"dest"}, LoadOperand(ins, 2, "src", RM), {"dest", "src"})
    BY FeedOperand DEF Scratch
  <2>3. Feed({"dest", "src"}, SetOperand(ins, 1, {"src"}), {"dest", "src"})
    BY StoreOperand DEF Scratch
  <2>4. Feed({"dest", "src"}, SetOperand(ins, 2, {"dest"}), {})
    BY StoreOperand DEF Scratch
  <2> QED
    BY <2>1, <2>2, <2>3, <2>4, Chain DEF Instrument_XCHG
<1>9. Feed({}, Instrument_CWDE(ins), {})
  <2>1. Feed({}, LoadReg("AX", "dest"), {"dest"})
    BY Facts, FeedLoad DEF Scratch
  <2>2. Feed({"dest"}, SetReg("EAX", {"dest"}), {})
    BY Facts, FeedStore DEF Scratch
  <2> QED
    BY <2>1, <2>2, Chain DEF Instrument_CWDE
<1>10. Feed({}, Instrument_CMPSB(ins), {})
  <2>1. Feed({}, LoadMem(ins.read, "dest"), {"dest"})
    BY Facts, FeedLoad DEF Scratch
  <2>2. Feed({"dest"}, LoadMem(ins.read2, "src"), {"dest", "src"})
    BY Facts, FeedLoad DEF Scratch
  <2>3. Feed({"dest", "src"}, SetFlags({"dest", "src"}), {})
    BY StoreOperand DEF Scratch
  <2> QED
    BY <2>1, <2>2, <2>3, Chain DEF Instrument_CMPSB
<1>11. Feed({}, Instrument_STOSB(ins), {})
  <2>1. Feed({}, LoadReg("AL", "eax"), {"eax"})
    BY Facts, FeedLoad DEF Scratch
  <2>2. Feed({"eax"}, LoadReg("EDI", "src"), {"eax", "src"})
    BY Facts, FeedLoad DEF Scratch
  <2>3. Feed({"eax", "src"}, SetMem(ins.write, {"eax"}), {})
    BY Facts, FeedStore DEF Scratch
  <2> QED
    BY <2>1, <2>2, <2>3, Chain DEF Instrument_STOSB
<1>12. Feed({}, Instrument_STOSD(ins), {})
  <2>1. Feed({}, LoadReg("AX", "eax"), {"eax"})
    BY Facts, FeedLoad DEF Scratch
  <2>2. Feed({"eax"}, LoadReg("EDI", "src"), {"eax", "src"})
    BY Facts, FeedLoad DEF Scratch
  <2>3. Feed({"eax", "src"}, SetMem(ins.write, {"eax"}), {})
    BY Facts, FeedStore DEF Scratch
  <2> QED
    BY <2>1, <2>2, <2>3, Chain DEF Instrument_STOSD
<1> QED
  BY <1>1, <1>2, <1>3, <1>4, <1>5, <1>6, <1>7, <1>8, <1>9, <1>10, <1>11, <1>12

(* Handlers that load nothing.                                             *)
LEMMA FeedConstant ==
  ASSUME NEW ins \in Instruction
  PROVE  /\ Feed({}, Instrument_CLD(ins), {})
         /\ Feed({}, Instrument_RDTSC(ins), {})
         /\ Feed({}, Instrument_CPUID(ins), {})
         /\ Feed({}, Instrument_FNSTCW(ins), {})
         /\ Feed({}, Instrument_BSF(ins), {})
         /\ Feed({}, Instrument_FNSTSW(ins), {})
<1>1. Feed({}, Instrument_CLD(ins), {})
  <2>1. Feed({}, ClearReg("RFLAGS"), {})
    BY Facts, FeedClear
  <2> QED
    BY <2>1 DEF Instrument_CLD
<1>2. Feed({}, Instrument_RDTSC(ins), {})
  <2>1. Feed({}, ClearReg("EAX"), {})
    BY Facts, FeedClear
  <2>2. Feed({}, ClearReg("EDX"), {})
    BY Facts, FeedClear
  <2> QED
    BY <2>1, <2>2, Chain DEF Instrument_RDTSC
<1>3. Feed({}, Instrument_CPUID(ins), {})
  <2>1. Feed({}, ClearReg("EAX"), {})
    BY Facts, FeedClear
  <2>2. Feed({}, ClearReg("EBX"), {})
    BY Facts, FeedClear
  <2>3. Feed({}, ClearReg("ECX"), {})
    BY Facts, FeedClear
  <2>4. Feed({}, ClearReg("EDX"), {})
    BY Facts, FeedClear
  <2> QED
    BY <2>1, <2>2, <2>3, <2>4, Chain DEF Instrument_CPUID
<1>4. Feed({}, Instrument_FNSTCW(ins), {})
  <2>1. Feed({}, ClearMem(ins.write), {})
    BY Facts, FeedClear
  <2> QED
    BY <2>1 DEF Instrument_FNSTCW
<1>5. Feed({}, Instrument_BSF(ins), {})
  <2>1. Feed({}, ClearReg(INS_OperandReg(ins, 1)), {})
    BY Facts, FeedClear
  <2> QED
    BY <2>1 DEF Instrument_BSF
<1>6. Feed({}, Instrument_FNSTSW(ins), {})
  BY Facts, FeedClear, FeedNothing DEF Instrument_FNSTSW
<1> QED
  BY <1>1, <1>2, <1>3, <1>4, <1>5, <1>6

(* MUL, DIV, IDIV and CDQ: the accumulators and their scratch sets.        *)
LEMMA FeedAccumulator ==
  ASSUME NEW ins \in Instruction
  PROVE  /\ Feed({}, Instrument_MUL(ins), {})
         /\ Feed({}, Instrument_DIV(ins), {})
         /\ Feed({}, Instrument_IDIV(ins), {})
         /\ Feed({}, Instrument_CDQ(ins), {})
<1> DEFINE acc == Accumulators(ins.width)
           ax  == {acc.axs, "src"}
           all == {acc.axs, acc.dxs, "src"}
<1>1. /\ acc.ax \in REG /\ acc.dx \in REG /\ acc.flags \in REG
      /\ acc.axs \in Scratch /\ acc.dxs \in Scratch /\ "src" \in Scratch
  BY Facts DEF Accumulators, Scratch
<1> HIDE DEF acc
<1>2. Feed({}, LoadOperand(ins, 1, "src", RM), {"src"})
  BY <1>1, FeedOperand
<1>3. Feed({}, <<Abort>>, {})
  BY FeedStop
<1>4. Feed({}, Instrument_MUL(ins), {})
  <2>1. Feed({"src"}, LoadReg(acc.ax, acc.axs), ax)
    BY <1>1, Facts, FeedLoad
  <2>2. Feed(ax, SetReg(acc.ax, ax), ax)
    BY <1>1, Facts, FeedStore
  <2>3. Feed(ax, SetReg(acc.dx, ax), ax)
    BY <1>1, Facts, FeedStore
  <2>4. Feed(ax, SetReg(acc.flags, ax), {})
    BY <1>1, Facts, FeedStore
  <2> HIDE DEF ax
  <2>5. Feed({}, LoadOperand(ins, 1, "src", RM) \o LoadReg(acc.ax, acc.axs)
                 \o SetReg(acc.ax, ax) \o SetReg(acc.dx, ax)
                 \o SetReg(acc.flags, ax), {})
    BY <1>2, <2>1, <2>2, <2>3, <2>4, Chain
  <2> QED
    BY <1>3, <2>5, Zenon DEF Instrument_MUL, acc, ax
<1>5. /\ Feed(all, SetReg(acc.ax, all), all)
      /\ Feed(all, SetReg(acc.dx, all), all)
      /\ Feed(all, ClearReg(acc.flags), {})
  BY <1>1, Facts, FeedStore, FeedClear
<1>6. Feed({}, Instrument_DIV(ins), {})
  <2>1. Feed({"src"}, LoadReg(acc.ax, acc.axs), ax)
    BY <1>1, Facts, FeedLoad
  <2>2. Feed(ax, LoadReg(acc.dx, acc.dxs), all)
    BY <1>1, Facts, FeedLoad
  <2> HIDE DEF ax, all
  <2>3. Feed({}, LoadOperand(ins, 1, "src", RM)
                 \o LoadReg(acc.ax, acc.axs) \o LoadReg(acc.dx, acc.dxs)
                 \o SetReg(acc.ax, all) \o SetReg(acc.dx, all)
                 \o ClearReg(acc.flags), {})
    BY <1>2, <1>5, <2>1, <2>2, Chain
  <2> QED
    BY <1>3, <2>3, Zenon DEF Instrument_DIV, acc, all
<1>7. Feed({}, Instrument_IDIV(ins), {})
  <2>1. Feed({"src"}, LoadReg(acc.dx, acc.dxs), {acc.dxs, "src"})
    BY <1>1, Facts, FeedLoad
  <2>2. Feed({acc.dxs, "src"}, LoadReg(acc.ax, acc.axs), all)
    BY <1>1, Facts, FeedLoad
  <2> HIDE DEF all
  <2>3. Feed({}, LoadOperand(ins, 1, "src", RM)
                 \o LoadReg(acc.dx, acc.dxs) \o LoadReg(acc.ax, acc.axs)
                 \o SetReg(acc.ax, all) \o SetReg(acc.dx, all)
                 \o ClearReg(acc.flags), {})
    BY <1>2, <1>5, <2>1, <2>2, Chain
  <2> QED
    BY <1>3, <2>3, Zenon DEF Instrument_IDIV, acc, all
<1>8. Feed({}, Instrument_CDQ(ins), {})
  <2>1. Feed({}, LoadReg(acc.ax, acc.axs), {acc.axs})
    BY <1>1, Facts, FeedLoad
  <2>2. Feed({acc.axs}, SetReg(acc.dx, {acc.axs}), {})
    BY <1>1, Facts, FeedStore
  <2>3. Feed({}, LoadReg(acc.ax, acc.axs) \o SetReg(acc.dx, {acc.axs}), {})
    BY <2>1, <2>2, Chain
  <2> QED
    BY <1>3, <2>3, Zenon DEF Instrument_CDQ, acc
<1> QED
  BY <1>4, <1>6, <1>7, <1>8

(* Handlers that look at the kind of their operands.                       *)
LEMMA FeedByKind ==
  ASSUME NEW ins \in Instruction
  PROVE  /\ Feed({}, Instrument_XOR(ins), {})
         /\ Feed({}, Instrument_IMUL(ins), {})
         /\ Feed({}, Instrument_SHLD(ins), {})
         /\ Feed({}, Instrument_LDDQU(ins), {})
         /\ Feed({}, Instrument_CMPXCHG(ins), {})
         /\ Feed({}, Instrument_MOVS(ins), {})
         /\ Feed({}, Instrument_SCASB(ins), {})
<1> DEFINE DS  == {"dest", "src"}
           DSC == {"dest", "src", "cnt"}
           DSE == {"dest", "src", "eax"}
<1>1. /\ Feed({}, LoadOperand(ins, 1, "dest", RM), {"dest"})
      /\ Feed({"dest"}, LoadOperand(ins, 2, "src", RMI), DS)
      /\ Feed(DS, SetOperand(ins, 1, DS), DS)
      /\ Feed(DS, SetFlags(DS), {})
  BY FeedOperand, StoreOperand DEF Scratch
<1>2. Feed({}, <<Abort>>, {})
  BY FeedStop
<1>3. Feed({}, Instrument_XOR(ins), {})
  <2>1. Feed(DS, ClearReg(INS_OperandReg(ins, 1)), DS)
    BY Facts, FeedClear
  <2> DEFINE store == IF SameRegister(ins) THEN ClearReg(INS_OperandReg(ins, 1))
                                           ELSE SetOperand(ins, 1, DS)
  <2>2. Feed(DS, store, DS)
    BY <1>1, <2>1, Zenon
  <2> HIDE DEF store
  <2>3. Feed({}, LoadOperand(ins, 1, "dest", RM) \o LoadOperand(ins, 2, "src", RMI)
                 \o store \o SetFlags(DS), {})
    BY <1>1, <2>2, Chain
  <2> QED
    BY <2>3, Zenon DEF Instrument_XOR, store
<1>4. Feed({}, Instrument_IMUL(ins), {})
  <2> DEFINE kinds == IF ins.explicit = 2 THEN RMI ELSE RM
             long  == LoadReg(INS_OperandReg(ins, 1), "dest") \o IMULSource(ins, kinds)
                      \o SetReg(INS_OperandReg(ins, 1), DS) \o SetFlags(DS)
  <2>1. Feed({}, LoadReg(INS_OperandReg(ins, 1), "dest"), {"dest"})
    BY Facts, FeedLoad DEF Scratch
  <2>2. /\ Feed({"dest"}, LoadReg(INS_OperandReg(ins, 1), "src"), DS)
        /\ Feed({"dest"}, LoadOperand(ins, 2, "src", kinds), DS)
    BY Facts, FeedLoad, FeedOperand DEF Scratch
  <2>3. Feed({"dest"}, IMULSource(ins, kinds), DS)
    BY <2>2, Zenon DEF IMULSource
  <2>4. Feed(DS, SetReg(INS_OperandReg(ins, 1), DS), DS)
    BY StoreOperand DEF Scratch
  <2>5. Feed({}, long, {})
    BY <1>1, <2>1, <2>3, <2>4, Chain
  <2>6. Feed({}, Instrument_MUL(ins), {})
    BY FeedAccumulator
  <2> HIDE DEF long
  <2>7. Instrument_IMUL(ins) = CASE ins.explicit = 1 -> Instrument_MUL(ins)
                                 [] ins.explicit \in {2, 3} -> long
                                 [] OTHER -> <<Abort>>
    BY DEF Instrument_IMUL, long
  <2> QED
    BY <1>2, <2>5, <2>6, <2>7
<1>5. Feed({}, Instrument_SHLD(ins), {})
  <2> DEFINE count == IF Kind(ins, 3) = "reg"
                      THEN LoadReg(INS_OperandReg(ins, 1), "src")
                      ELSE LoadOperand(ins, 3, "src", {"imm"})
  <2>1. Feed({"dest"}, LoadReg(INS_OperandReg(ins, 2), "cnt"), {"dest", "cnt"})
    BY Facts, FeedLoad DEF Scratch
  <2>2. /\ Feed({"dest", "cnt"}, LoadReg(INS_OperandReg(ins, 1), "src"), DSC)
        /\ Feed({"dest", "cnt"}, LoadOperand(ins, 3, "src", {"imm"}), DSC)
    BY Facts, FeedLoad, FeedOperand DEF Scratch
  <2>3. Feed({"dest", "cnt"}, count, DSC)
    BY <2>2, Zenon
  <2>4. Feed(DSC, SetOperand(ins, 1, DSC), DSC) /\ Feed(DSC, SetFlags(DSC), {})
    BY StoreOperand DEF Scratch
  <2> HIDE DEF count
  <2>5. Feed({}, LoadOperand(ins, 1, "dest", RM)
                 \o LoadReg(INS_OperandReg(ins, 2), "cnt") \o count
                 \o SetOperand(ins, 1, DSC) \o SetFlags(DSC), {})
    BY <1>1, <2>1, <2>3, <2>4, Chain
  <2> QED
    BY <2>5, Zenon DEF Instrument_SHLD, count
<1>6. Feed({}, Instrument_LDDQU(ins), {})
  <2>1. Feed({}, LoadOperand(ins, 2, "src", {"mem"}), {"src"})
    BY FeedOperand DEF Scratch
  <2>2. /\ Feed({"src"}, SetReg(INS_OperandReg(ins, 1), {"src"}), {})
        /\ Feed({"src"}, <<Abort>>, {})
    BY StoreOperand, FeedStop DEF Scratch
  <2>3. Feed({"src"}, IF Kind(ins, 1) = "reg"
                      THEN SetReg(INS_OperandReg(ins, 1), {"src"})
                      ELSE <<Abort>>, {})
    BY <2>2, Zenon
  <2> QED
    BY <2>1, <2>3, Chain DEF Instrument_LDDQU
<1>7. Feed({}, Instrument_CMPXCHG(ins), {})
  <2> DEFINE store ==
        CASE Kind(ins, 1) = "reg" /\ ins.equal
               -> SetReg(INS_OperandReg(ins, 1), {"src"})
          [] Kind(ins, 1) = "reg" /\ ~ins.equal
               -> SetReg(INS_OperandReg(ins, 3), {"src"})
          [] Kind(ins, 1) # "reg" /\ ins.equal
               -> SetMem(ins.write, {"src"})
                  \o SetReg(INS_OperandReg(ins, 3), {"src"})
          [] OTHER -> <<>>
  <2>1. /\ Feed({"dest"}, LoadReg(INS_OperandReg(ins, 2), "src"), DS)
        /\ Feed(DS, LoadReg(INS_OperandReg(ins, 3), "eax"), DSE)
    BY Facts, FeedLoad DEF Scratch
  <2>2. /\ Feed(DSE, SetReg(INS_OperandReg(ins, 1), {"src"}), {})
        /\ Feed(DSE, SetReg(INS_OperandReg(ins, 3), {"src"}), {})
        /\ Feed(DSE, SetMem(ins.write, {"src"}), DSE)
        /\ Feed(DSE, <<>>, {})
    BY Facts, FeedStore, FeedNothing DEF Scratch
  <2>3. Feed(DSE, SetMem(ins.write, {"src"})
                  \o SetReg(INS_OperandReg(ins, 3), {"src"}), {})
    BY <2>2, Chain
  <2>4. Feed(DSE, store, {})
    BY <2>2, <2>3, Zenon
  <2> HIDE DEF store
  <2>5. Feed({}, LoadOperand(ins, 1, "dest", RM)
                 \o LoadReg(INS_OperandReg(ins, 2), "src")
                 \o LoadReg(INS_OperandReg(ins, 3), "eax") \o store, {})
    BY <1>1, <2>1, <2>4, Chain
  <2> QED
    BY <1>2, <2>5, Zenon DEF Instrument_CMPXCHG, store
<1>8. Feed({}, Instrument_MOVS(ins), {})
  <2>1. /\ Feed({}, LoadMem(ins.read, "dest"), {"dest"})
        /\ Feed({"dest"}, LoadMem(ins.read, "src"), DS)
        /\ Feed(DS, LoadReg("ECX", "cnt"), {"src", "dest", "cnt"})
    BY Facts, FeedLoad DEF Scratch
  <2>2. /\ Feed({"src", "dest", "cnt"}, SetMem(ins.write, {"src", "dest", "cnt"}), {})
        /\ Feed(DS, SetMem(ins.write, {"src", "dest"}), {})
    BY Facts, FeedStore DEF Scratch
  <2> DEFINE store ==
        IF ins.rep
        THEN LoadReg("ECX", "cnt") \o SetMem(ins.write, {"src", "dest", "cnt"})
        ELSE SetMem(ins.write, {"src", "dest"})
  <2>3. Feed(DS, LoadReg("ECX", "cnt") \o SetMem(ins.write, {"src", "dest", "cnt"}), {})
    BY <2>1, <2>2, Chain
  <2>4. Feed(DS, store, {})
    BY <2>2, <2>3, Zenon
  <2> HIDE DEF store
  <2>5. Feed({}, LoadMem(ins.read, "dest") \o LoadMem(ins.read, "src") \o store, {})
    BY <2>1, <2>4, Chain
  <2> QED
    BY <2>5, Zenon DEF Instrument_MOVS, store
<1>9. Feed({}, Instrument_SCASB(ins), {})
  <2> DEFINE SE == {"src", "eax"}
             count == IF ins.rep THEN SetReg("ECX", SE) ELSE <<>>
  <2>1. /\ Feed({}, LoadMem(ins.read, "src"), {"src"})
        /\ Feed({"src"}, LoadReg("AL", "eax"), SE)
    BY Facts, FeedLoad DEF Scratch
  <2>2. /\ Feed(SE, SetFlags(SE), SE)
        /\ Feed(SE, SetReg("ECX", SE), {})
        /\ Feed(SE, <<>>, {})
    BY Facts, FeedStore, StoreOperand, FeedNothing DEF Scratch
  <2>3. Feed(SE, count, {})
    BY <2>2, Zenon
  <2> HIDE DEF count
  <2>4. Feed({}, LoadMem(ins.read, "src") \o LoadReg("AL", "eax")
                 \o SetFlags(SE) \o count, {})
    BY <2>1, <2>2, <2>3, Chain
  <2> QED
    BY <2>4, Zenon DEF Instrument_SCASB, count
<1> QED
  BY <1>3, <1>4, <1>5, <1>6, <1>7, <1>8, <1>9

(* More may be loaded beforehand.                                          *)
LEMMA FeedWeaken ==
  ASSUME NEW A, NEW A2, NEW B, NEW s, A \subseteq A2, Feed(A, s, B)
  PROVE  Feed(A2, s, B)
  BY DEF Feed, Fed

(* SETcc with a memory operand stores the scratch set base.                *)
SETccToMemory(ins) == ins.iclass \in SETccClass /\ Kind(ins, 1) = "mem"

(* SETcc is fine with a register operand, and with a memory operand only   *)
(* if base happens to be loaded.                                           *)
LEMMA FeedSETcc ==
  ASSUME NEW ins \in Instruction
  PROVE  /\ Kind(ins, 1) # "mem" => Feed({}, Instrument_SETcc(ins), {})
         /\ Feed({"base"}, Instrument_SETcc(ins), {})
<1> DEFINE store ==
      CASE Kind(ins, 1) = "reg" -> SetReg(INS_OperandReg(ins, 1), {"src"})
        [] Kind(ins, 1) = "mem" -> SetMem(ins.write, {"base"})
        [] OTHER -> <<Abort>>
<1>1. /\ Feed({}, LoadReg("RFLAGS", "src"), {"src"})
      /\ Feed({"base"}, LoadReg("RFLAGS", "src"), {"src", "base"})
  BY Facts, FeedLoad DEF Scratch
<1>2. /\ Feed({"src"}, SetReg(INS_OperandReg(ins, 1), {"src"}), {})
      /\ Feed({"src", "base"}, SetReg(INS_OperandReg(ins, 1), {"src"}), {})
      /\ Feed({"src", "base"}, SetMem(ins.write, {"base"}), {})
      /\ Feed({"src"}, <<Abort>>, {})
      /\ Feed({"src", "base"}, <<Abort>>, {})
  BY Facts, FeedStore, FeedStop DEF Scratch
<1>3. Kind(ins, 1) # "mem" => Feed({"src"}, store, {})
  BY <1>2, Zenon
<1>4. Feed({"src", "base"}, store, {})
  BY <1>2, Zenon
<1> HIDE DEF store
<1>5. Instrument_SETcc(ins) = LoadReg("RFLAGS", "src") \o store
  BY Zenon DEF Instrument_SETcc, store
<1> QED
  BY <1>1, <1>3, <1>4, <1>5, Chain

(* Handlers that insert nothing.                                           *)
LEMMA FeedEmpty ==
  ASSUME NEW ins
  PROVE  Feed({}, EmptyHandler(ins), {}) /\ Feed({}, UnimplementedInstruction(ins), {})
  BY FeedNothing DEF EmptyHandler, UnimplementedInstruction

(* For every instruction, its handler stores only scratch sets it has      *)
(* loaded before; SETcc with a memory operand is the one exception.        *)
THEOREM HandlersLoadFirst ==
  ASSUME NEW ins \in Instruction
  PROVE  /\ ~SETccToMemory(ins) => Feed({}, instrument_functions(ins), {})
         /\ Feed({"base"}, instrument_functions(ins), {})
<1>1. ASSUME ~SETccToMemory(ins)
      PROVE  Feed({}, instrument_functions(ins), {})
  BY <1>1, FeedBinary, FeedMove, FeedConstant, FeedAccumulator, FeedByKind,
     FeedSETcc, FeedEmpty, Zenon DEF instrument_functions, SETccToMemory
<1>2. ASSUME SETccToMemory(ins)
      PROVE  Feed({"base"}, instrument_functions(ins), {})
  <2>1. \A s : Feed({}, s, {}) => Feed({"base"}, s, {})
    BY FeedWeaken
  <2> QED
    BY <2>1, FeedBinary, FeedMove, FeedConstant, FeedAccumulator, FeedByKind,
       FeedSETcc, FeedEmpty, ZenonT(60) DEF instrument_functions
<1> QED
  BY <1>1, <1>2, FeedWeaken

(* A non-empty set of positions has a least one.                           *)
LEMMA SmallestStop ==
  ASSUME NEW S \in SUBSET Nat, S # {}
  PROVE  \E i \in S : \A j \in S : i <= j
<1> DEFINE R == {ss \in Nat \X Nat : ss[1] < ss[2]}
<1>1. IsWellFoundedOn(R, Nat)
  BY NatLessThanWellFounded DEF OpToRel
<1>2. \E i \in S : \A j \in S : ~(<<j, i>> \in R)
  BY <1>1, WFMin
<1>3. \A i \in S, j \in S : <<j, i>> \in R <=> j < i
  OBVIOUS
<1> HIDE DEF R
<1>4. \E i \in S : \A j \in S : ~(j < i)
  BY <1>2, <1>3
<1> QED
  BY <1>4

(* What Inserted keeps of a handler's statements is a list of analysis     *)
(* calls (or abort()), and what held of the statements holds of it.        *)
LEMMA InsertedCalls ==
  ASSUME NEW A, NEW s, Feed(A, s, {}), Inserted(s) # <<Abort>>
  PROVE  Inserted(s) \in Seq(Call) /\ Fed(Inserted(s), A)
<1> DEFINE stops == {i \in DOMAIN s : s[i].op \in {"return", "abort"}}
           first == CHOOSE i \in stops : \A j \in stops : i <= j
<1>1. s \in Seq(Statement) /\ Fed(s, A) /\ Len(s) \in Nat /\ DOMAIN s = 1 .. Len(s)
  BY DEF Feed
<1>2. ASSUME NEW i \in DOMAIN s, ~Stop(s[i])
      PROVE  s[i] \in Call
  BY <1>1, <1>2 DEF Statement, Stop, Return, Abort
<1>3. CASE stops = {}
  <2>1. Inserted(s) = s
    BY <1>3 DEF Inserted
  <2>2. \A i \in 1 .. Len(s) : s[i] \in Call
    BY <1>1, <1>2, <1>3 DEF Stop
  <2> QED
    BY <1>1, <2>1, <2>2
<1>4. CASE stops # {}
  <2>1. first \in stops /\ \A j \in stops : first <= j
    <3>1. stops \subseteq Nat
      BY <1>1
    <3>2. \E i \in stops : \A j \in stops : i <= j
      BY <3>1, <1>4, SmallestStop
    <3> QED
      BY <3>2, Zenon
  <2> HIDE DEF first
  <2> DEFINE u == SubSeq(s, 1, first - 1)
  <2>2. Inserted(s) = u
    BY <1>4, Zenon DEF Inserted, first
  <2>3. first \in 1 .. Len(s) /\ first - 1 \in 0 .. Len(s)
    BY <1>1, <2>1
  <2>4. /\ Len(u) = first - 1 /\ DOMAIN u = 1 .. first - 1
        /\ \A i \in 1 .. first - 1 : u[i] = s[i]
    BY <1>1, <2>3
  <2>5. \A i \in 1 .. first - 1 : i \in DOMAIN s /\ ~Stop(s[i])
    BY <1>1, <2>1, <2>3 DEF Stop
  <2>6. u \in Seq(Call)
    <3>1. \A i \in 1 .. first - 1 : u[i] \in Call
      BY <1>2, <2>4, <2>5
    <3>2. u = [i \in 1 .. first - 1 |-> s[i]]
      BY <1>1, <2>3
    <3> QED
      BY <2>3, <2>4, <3>1, <3>2
  <2>7. Fed(u, A)
    <3> SUFFICES ASSUME NEW i \in DOMAIN u, Stores(u[i]), NEW x \in u[i].from, x \notin A
                 PROVE  Supplied(u, i, x)
      BY DEF Fed
    <3>1. Supplied(s, i, x)
      BY <1>1, <2>4, <2>5 DEF Fed
    <3>2. PICK j \in DOMAIN s : j < i /\ (Stop(s[j]) \/ LoadsSet(s[j], x))
      BY <3>1 DEF Supplied
    <3>3. j \in DOMAIN u /\ u[j] = s[j]
      BY <1>1, <2>3, <2>4, <3>2
    <3> QED
      BY <3>2, <3>3 DEF Supplied
  <2> QED
    BY <2>2, <2>6, <2>7
<1> QED
  BY <1>3, <1>4

(* Every instruction is either unknown to its handler, which aborts, or    *)
(* gets a list of analysis calls with well-formed arguments that loads     *)
(* before it stores.                                                       *)
THEOREM DataflowCalls ==
  ASSUME NEW ins \in Instruction, Dataflow(ins) # <<Abort>>
  PROVE  /\ Dataflow(ins) \in Seq(Call)
         /\ ~SETccToMemory(ins) => Fed(Dataflow(ins), {})
  BY HandlersLoadFirst, InsertedCalls DEF Dataflow

-----------------------------------------------------------------------------
(* Facts about maps.                                                       *)

(* Inserting keys into a std::map.                                          *)
LEMMA PutMap ==
  ASSUME NEW K, NEW V, NEW map, IsMap(map, K, V), NEW S \in SUBSET K, NEW v \in V
  PROVE  /\ IsMap(Put(map, S, v), K, V)
         /\ DOMAIN Put(map, S, v) = DOMAIN map \cup S
         /\ \A k \in DOMAIN map \cup S :
              Put(map, S, v)[k] = IF k \in S THEN v ELSE map[k]
  BY DEF IsMap, Put

(* Erasing keys from a std::map.                                            *)
LEMMA EraseMap ==
  ASSUME NEW K, NEW V, NEW map, IsMap(map, K, V), NEW S
  PROVE  /\ IsMap(Erase(map, S), K, V)
         /\ DOMAIN Erase(map, S) = DOMAIN map \ S
         /\ \A k \in DOMAIN map \ S : Erase(map, S)[k] = map[k]
  BY DEF IsMap, Erase

(* A lookup yields marks of the map.                                        *)
LEMMA MarksIn ==
  ASSUME NEW K, NEW M, NEW map, IsMap(map, K, SUBSET M)
  PROVE  /\ Marks(map) \in SUBSET M
         /\ \A k : Get(map, k) \in SUBSET M /\ Get(map, k) \subseteq Marks(map)
  BY DEF IsMap, Marks, Get

(* Inserting brings no marks but the inserted ones.                         *)
LEMMA MarksPut ==
  ASSUME NEW map, NEW S, NEW v
  PROVE  Marks(Put(map, S, v)) \subseteq Marks(map) \cup v
<1>1. \A k \in DOMAIN map \cup S : Put(map, S, v)[k] \subseteq Marks(map) \cup v
  BY DEF Marks, Put
<1>2. DOMAIN Put(map, S, v) = DOMAIN map \cup S
  BY DEF Put
<1> QED
  BY <1>1, <1>2 DEF Marks

(* Erasing brings no marks.                                                 *)
LEMMA MarksErase ==
  ASSUME NEW map, NEW S
  PROVE  Marks(Erase(map, S)) \subseteq Marks(map)
<1>1. /\ DOMAIN Erase(map, S) = DOMAIN map \ S
      /\ \A k \in DOMAIN map \ S : Erase(map, S)[k] = map[k]
  BY DEF Erase
<1> QED
  BY <1>1 DEF Marks

(* An empty map.                                                           *)
LEMMA EmptyMap ==
  ASSUME NEW K, NEW V
  PROVE  IsMap(<<>>, K, V) /\ DOMAIN <<>> = {} /\ Marks(<<>>) = {}
  BY DEF IsMap, Marks

(* SetTaintForMemory keeps every list of tagMemoryMap well formed, and     *)
(* starts a list only for a mark it stores.                                *)
LEMMA TagUpdateList ==
  ASSUME NEW K, NEW list, IsMap(list, K, {"listed", "deleted"}),
         NEW mem \in SUBSET K, NEW stored \in BOOLEAN
  PROVE  /\ IsMap(TagUpdate(list, mem, stored), K, {"listed", "deleted"})
         /\ ~stored => DOMAIN TagUpdate(list, mem, stored) = DOMAIN list
<1> DEFINE V == {"listed", "deleted"}
           add == mem \ Flagged(list, mem)
           del == mem \cap DOMAIN list
<1>1. add \in SUBSET K /\ del \in SUBSET K /\ "listed" \in V /\ "deleted" \in V
  OBVIOUS
<1>2. IsMap(list, K, V)
  OBVIOUS
<1>3. TagUpdate(list, mem, stored) =
        IF stored THEN Put(list, add, "listed") ELSE Put(list, del, "deleted")
  BY DEF TagUpdate
<1>4. DOMAIN list \cup del = DOMAIN list
  OBVIOUS
<1> HIDE DEF V, add, del
<1>5. /\ IsMap(Put(list, add, "listed"), K, V)
      /\ IsMap(Put(list, del, "deleted"), K, V)
      /\ DOMAIN Put(list, del, "deleted") = DOMAIN list
  BY <1>1, <1>2, <1>4 DEF IsMap, Put
<1> QED
  BY <1>3, <1>5 DEF V
-----------------------------------------------------------------------------
(* Facts about calls.                                                      *)

(* Each analysis routine gets arguments of the kind it expects.             *)
LEMMA CallArguments ==
  ASSUME NEW c \in Call
  PROVE  /\ c.op = "ClearTaintSet" => c.set \in Scratch
         /\ c.op = "TaintForRegister" => c.reg \in REG /\ c.set \in Scratch
         /\ c.op = "TaintForMemory" => c.mem \in SUBSET ADDRINT /\ c.set \in Scratch
         /\ c.op = "SetTaintForRegister" => c.reg \in REG /\ c.from \in SUBSET Scratch
         /\ c.op = "SetTaintForMemory" =>
              c.mem \in SUBSET ADDRINT /\ c.from \in SUBSET Scratch
         /\ c.op = "ClearTaintForRegister" => c.reg \in REG
         /\ c.op = "ClearTaintForMemory" => c.mem \in SUBSET ADDRINT
         /\ c.op = "PushControl" => c.addr \in CODE
         /\ c.op = "PopControl" => c.addrs \in Seq(CODE)
  BY DEF Call

(* Controlflow's calls are well formed and store nothing.                  *)
LEMMA ControlCallsType ==
  ASSUME NEW ins \in Instruction
  PROVE  /\ ControlCalls(ins) \in Seq(Call)
         /\ \A i \in DOMAIN ControlCalls(ins) :
              ControlCalls(ins)[i].op \in {"PushControl", "PopControl"}
<1> DEFINE a == CHOOSE x \in ins.push : TRUE
           p == [op |-> "PushControl", addr |-> a]
           q == [op |-> "PopControl", addrs |-> ins.pop]
           P == IF ins.push = {} THEN <<>> ELSE <<p>>
           Q == IF ins.pop = <<>> THEN <<>> ELSE <<q>>
<1>1. ins.push \in SUBSET CODE /\ ins.pop \in Seq(CODE)
  BY DEF Instruction
<1>2. ins.push # {} => a \in CODE
  BY <1>1
<1> HIDE DEF a
<1>3. P \in Seq(Call)
  <2>1. ins.push # {} => p \in Call
    BY <1>2 DEF Call
  <2> QED
    BY <2>1
<1>4. Q \in Seq(Call)
  <2>1. q \in Call
    BY <1>1 DEF Call
  <2> QED
    BY <2>1
<1>5. \A i \in DOMAIN P : P[i].op = "PushControl"
  OBVIOUS
<1>6. \A i \in DOMAIN Q : Q[i].op = "PopControl"
  OBVIOUS
<1>7. ControlCalls(ins) = P \o Q
  BY Zenon DEF ControlCalls, a
<1> HIDE DEF P, Q
<1> QED
  BY <1>3, <1>4, <1>5, <1>6, <1>7

(* SetTaintForRegister writes registers only.                               *)
LEMMA SubRegistersType ==
  ASSUME NEW r \in REG
  PROVE  {r} \cup SubRegisters(r) \in SUBSET REG
<1>1. /\ {"R15W", "R15B"} \subseteq REG
      /\ {"AX", "AH", "AL"} \subseteq REG
      /\ {"BX", "BH", "BL"} \subseteq REG
      /\ {"CX", "CH", "CL"} \subseteq REG
      /\ {"DX", "DH", "DL"} \subseteq REG
      /\ {} \subseteq REG
  BY RegAssumption DEF NamedRegisters
<1>2. SubRegisters(r) \subseteq REG
  BY <1>1, Zenon DEF SubRegisters
<1> QED
  BY <1>2
-----------------------------------------------------------------------------
(* The call thread t is about to run, and what Advance leaves.             *)
LEMMA NextCall ==
  ASSUME TypeOK, NEW t \in Thread, NEW op, At(t, op)
  PROVE  /\ Head(todo[t]) \in Call
         /\ Head(todo[t]).op = op
         /\ Tail(todo[t]) \in Seq(Call)
  BY DEF TypeOK, At

(* A call that ends leaves a list of calls.                                 *)
LEMMA AdvanceType ==
  ASSUME TypeOK, NEW t \in Thread, NEW op, At(t, op), Advance(t)
  PROVE  /\ todo' \in [Thread -> Seq(Call)]
         /\ current' \in -INT_MAX - 1 .. INT_MAX
         /\ aborted' \in BOOLEAN
         /\ issued' \subseteq Mark
<1>1. todo' \in [Thread -> Seq(Call)]
  BY NextCall DEF TypeOK, Advance
<1> QED
  BY <1>1 DEF TypeOK, Advance

(* The maps hold marks.                                                    *)
LEMMA MapTypes ==
  ASSUME TypeOK
  PROVE  /\ IsMap(regTaintMap, REG, SUBSET Mark)
         /\ IsMap(memTaintMap, ADDRINT, SUBSET Mark)
         /\ IsMap(controlTaintMap, CODE, SUBSET Mark)
  BY DEF TypeOK

(* The marks a store writes.                                               *)
LEMMA CombinedType ==
  ASSUME TypeOK, NEW from \in SUBSET Scratch
  PROVE  /\ ControlTaint \in SUBSET Mark
         /\ Combined(from) \in SUBSET Mark
         /\ ControlTaint \subseteq Combined(from)
<1>2. Marks(controlTaintMap) \in SUBSET Mark
  BY MapTypes, MarksIn, Zenon
<1>3. ControlTaint \in SUBSET Mark
  BY <1>2 DEF ControlTaint
<1>4. scratch \in [Scratch -> SUBSET Mark]
  BY DEF TypeOK
<1>5. \A x \in from : scratch[x] \subseteq Mark
  BY <1>4
<1> DEFINE U == UNION {scratch[x] : x \in from}
<1>6. U \subseteq Mark
  BY <1>5
<1>7. Combined(from) = U \cup ControlTaint
  BY Zenon DEF Combined
<1> HIDE DEF U
<1> QED
  BY <1>3, <1>6, <1>7

(* Filling a scratch set preserves types.                                   *)
LEMMA LoadType ==
  ASSUME TypeOK, NEW t \in Thread, NEW op, At(t, op),
         NEW s \in Scratch, NEW marks \in SUBSET Mark, Load(t, s, marks)
  PROVE  TypeOK'
<1>1. /\ todo' \in [Thread -> Seq(Call)]
      /\ current' \in -INT_MAX - 1 .. INT_MAX
      /\ aborted' \in BOOLEAN
      /\ issued' \subseteq Mark
  BY AdvanceType DEF Load
<1>2. scratch' \in [Scratch -> SUBSET Mark]
  BY DEF TypeOK, Load
<1>3. loaded' \subseteq Thread \X Scratch
  BY DEF TypeOK, Load
<1> QED
  BY <1>1, <1>2, <1>3 DEF TypeOK, Load, maps

(* Instrumentation inserts well-formed calls only.                          *)
LEMMA ExecuteType ==
  ASSUME TypeOK, NEW t \in Thread, NEW ins \in Instructions, Execute(t, ins)
  PROVE  TypeOK'
<1>1. ins \in Instruction
  BY InstructionsAssumption
<1>2. todo' \in [Thread -> Seq(Call)] /\ aborted' \in BOOLEAN
  <2>1. CASE Dataflow(ins) = <<Abort>>
    BY <2>1 DEF Execute, TypeOK
  <2>2. CASE Dataflow(ins) # <<Abort>>
    <3>1. ControlCalls(ins) \o Dataflow(ins) \in Seq(Call)
      BY <1>1, <2>2, ControlCallsType, DataflowCalls
    <3> QED
      BY <2>2, <3>1 DEF Execute, TypeOK
  <2> QED
    BY <2>1, <2>2
<1>3. loaded' \subseteq Thread \X Scratch
  BY DEF Execute, TypeOK
<1> QED
  BY <1>2, <1>3 DEF Execute, TypeOK, maps

(* Every analysis routine preserves types.                                  *)
LEMMA AnalysisCallType ==
  ASSUME TypeOK, NEW t \in Thread, AnalysisCall(t)
  PROVE  TypeOK'
<1> DEFINE call == Head(todo[t])
<1>1. CASE ClearTaintSet(t)
  <2>1. At(t, "ClearTaintSet") /\ call.set \in Scratch
    BY <1>1, NextCall, CallArguments DEF ClearTaintSet
  <2> QED
    BY <1>1, <2>1, LoadType DEF ClearTaintSet
<1>2. CASE TaintForRegister(t)
  <2>1. At(t, "TaintForRegister") /\ call.set \in Scratch
    BY <1>2, NextCall, CallArguments DEF TaintForRegister
  <2>2. Get(regTaintMap, call.reg) \in SUBSET Mark
    BY MarksIn DEF TypeOK
  <2> QED
    BY <1>2, <2>1, <2>2, LoadType DEF TaintForRegister
<1>3. CASE TaintForMemory(t)
  <2>1. At(t, "TaintForMemory") /\ call.set \in Scratch
    BY <1>3, NextCall, CallArguments DEF TaintForMemory
  <2>2. \A a : Get(memTaintMap, a) \in SUBSET Mark
    BY MarksIn DEF TypeOK
  <2>3. UNION {Get(memTaintMap, a) : a \in call.mem} \in SUBSET Mark
    BY <2>2
  <2> QED
    BY <1>3, <2>1, <2>3, LoadType DEF TaintForMemory
<1>4. CASE SetTaintForRegister(t)
  <2>1. /\ At(t, "SetTaintForRegister") /\ Advance(t)
        /\ call.reg \in REG /\ call.from \in SUBSET Scratch
    BY <1>4, NextCall, CallArguments DEF SetTaintForRegister
  <2>2. IsMap(Put(regTaintMap, {call.reg} \cup SubRegisters(call.reg),
                  Combined(call.from)), REG, SUBSET Mark)
    <3>1. {call.reg} \cup SubRegisters(call.reg) \in SUBSET REG
      BY <2>1, SubRegistersType
    <3>2. Combined(call.from) \in SUBSET Mark
      BY <2>1, CombinedType
    <3> QED
      BY <3>1, <3>2, MapTypes DEF IsMap, Put
  <2>3. IsMap(regTaintMap', REG, SUBSET Mark)
    BY <1>4, <2>2 DEF SetTaintForRegister, TypeOK
  <2> QED
    BY <1>4, <2>1, <2>3, AdvanceType DEF SetTaintForRegister, TypeOK
<1>5. CASE ClearTaintForRegister(t)
  <2>1. At(t, "ClearTaintForRegister") /\ Advance(t) /\ call.reg \in REG
    BY <1>5, NextCall, CallArguments DEF ClearTaintForRegister
  <2>2. ControlTaint \in SUBSET Mark
    BY CombinedType
  <2>3. {call.reg} \cap DOMAIN regTaintMap \in SUBSET REG
    BY <2>1
  <2>4. IsMap(regTaintMap', REG, SUBSET Mark)
    <3>1. IsMap(Put(regTaintMap, {call.reg} \cap DOMAIN regTaintMap, ControlTaint),
                REG, SUBSET Mark)
      BY <2>2, <2>3, MapTypes DEF IsMap, Put
    <3> QED
      BY <1>5, <3>1, Zenon DEF ClearTaintForRegister
  <2> QED
    BY <1>5, <2>1, <2>4, AdvanceType DEF ClearTaintForRegister, TypeOK
<1>6. CASE SetTaintForMemory(t)
  <2> DEFINE tmp == Combined(call.from)
  <2>1. /\ At(t, "SetTaintForMemory") /\ Advance(t)
        /\ call.mem \in SUBSET ADDRINT /\ call.from \in SUBSET Scratch
    BY <1>6, NextCall, CallArguments DEF SetTaintForMemory
  <2>2. tmp \in SUBSET Mark
    BY <2>1, CombinedType
  <2>3. IsMap(memTaintMap', ADDRINT, SUBSET Mark)
    <3>1. IsMap(Put(memTaintMap, call.mem, tmp), ADDRINT, SUBSET Mark)
      BY <2>1, <2>2, MapTypes DEF IsMap, Put
    <3> QED
      BY <1>6, <3>1, Zenon DEF SetTaintForMemory
  <2>4. ASSUME NEW m \in Mark
        PROVE  IsMap(tagMemoryMap'[m], ADDRINT, {"listed", "deleted"})
    <3>1. tagMemoryMap'[m] = TagUpdate(tagMemoryMap[m], call.mem, m \in tmp)
      BY <1>6 DEF SetTaintForMemory
    <3>2. IsMap(tagMemoryMap[m], ADDRINT, {"listed", "deleted"})
      BY DEF TypeOK
    <3>3. IsMap(TagUpdate(tagMemoryMap[m], call.mem, m \in tmp),
                ADDRINT, {"listed", "deleted"})
      <4> DEFINE stored == m \in tmp
      <4>1. stored \in BOOLEAN
        OBVIOUS
      <4> HIDE DEF stored
      <4>2. IsMap(TagUpdate(tagMemoryMap[m], call.mem, stored),
                  ADDRINT, {"listed", "deleted"})
        BY <2>1, <3>2, <4>1, TagUpdateList, Zenon
      <4> QED
        BY <4>2 DEF stored
    <3> QED
      BY <3>1, <3>3
  <2>5. DOMAIN tagMemoryMap' = Mark
    BY <1>6 DEF SetTaintForMemory
  <2> QED
    BY <1>6, <2>1, <2>3, <2>4, <2>5, AdvanceType DEF SetTaintForMemory, TypeOK
<1>7. CASE ClearTaintForMemory(t)
  <2>1. At(t, "ClearTaintForMemory") /\ Advance(t) /\ call.mem \in SUBSET ADDRINT
    BY <1>7, NextCall, CallArguments DEF ClearTaintForMemory
  <2>2. ControlTaint \in SUBSET Mark
    BY CombinedType
  <2>3. call.mem \cap DOMAIN memTaintMap \in SUBSET ADDRINT
    BY <2>1
  <2>4. IsMap(memTaintMap', ADDRINT, SUBSET Mark)
    <3>1. IsMap(Put(memTaintMap, call.mem \cap DOMAIN memTaintMap, ControlTaint),
                ADDRINT, SUBSET Mark)
      BY <2>2, <2>3, MapTypes DEF IsMap, Put
    <3> QED
      BY <1>7, <3>1, Zenon DEF ClearTaintForMemory
  <2> QED
    BY <1>7, <2>1, <2>4, AdvanceType DEF ClearTaintForMemory, TypeOK
<1>8. CASE PushControl(t)
  <2> DEFINE flags == Get(regTaintMap, "RFLAGS")
  <2>1. At(t, "PushControl") /\ Advance(t) /\ {call.addr} \in SUBSET CODE
    BY <1>8, NextCall, CallArguments DEF PushControl
  <2>2. Get(controlTaintMap, call.addr) \cup flags \in SUBSET Mark
    <3>1. Get(controlTaintMap, call.addr) \in SUBSET Mark /\ flags \in SUBSET Mark
      BY MarksIn DEF TypeOK
    <3> QED
      BY <3>1
  <2>3. IsMap(Put(controlTaintMap, {call.addr},
                  Get(controlTaintMap, call.addr) \cup flags), CODE, SUBSET Mark)
    BY <2>1, <2>2, MapTypes DEF IsMap, Put
  <2>4. IsMap(controlTaintMap', CODE, SUBSET Mark)
    BY <1>8, <2>3 DEF PushControl, TypeOK
  <2> QED
    BY <1>8, <2>1, <2>4, AdvanceType DEF PushControl, TypeOK
<1>9. CASE PopControl(t)
  <2>1. At(t, "PopControl") /\ Advance(t)
    BY <1>9 DEF PopControl
  <2>2. IsMap(controlTaintMap', CODE, SUBSET Mark)
    BY <1>9, EraseMap DEF PopControl, TypeOK
  <2> QED
    BY <1>9, <2>1, <2>2, AdvanceType DEF PopControl, TypeOK
<1> QED
  BY <1>1, <1>2, <1>3, <1>4, <1>5, <1>6, <1>7, <1>8, <1>9 DEF AnalysisCall

(* A taint source stores only marks the bitset has room for.                *)
LEMMA SourceType ==
  ASSUME TypeOK, NEW t \in Thread, NEW mem \in SourceRange, NEW mark \in SourceMark,
         SetNewTaintForMemory(t, mem, mark)
  PROVE  TypeOK'
<1> DEFINE m == IF mark = -1 THEN nextTaintMark ELSE mark
<1>1. current' \in -INT_MAX - 1 .. INT_MAX /\ aborted' \in BOOLEAN
  BY IntAssumption DEF SetNewTaintForMemory, Increment, TypeOK
<1>2. CASE InBitset(m)
  <2>1. {m} \in SUBSET Mark /\ mem \in SUBSET ADDRINT
    BY <1>2, SourceAssumption DEF InBitset
  <2>2. memTaintMap' = Put(memTaintMap, mem, {m}) /\ issued' = issued \cup {m}
    BY <1>2 DEF SetNewTaintForMemory
  <2> HIDE DEF m
  <2>3. IsMap(memTaintMap', ADDRINT, SUBSET Mark) /\ issued' \subseteq Mark
    <3>1. IsMap(Put(memTaintMap, mem, {m}), ADDRINT, SUBSET Mark)
      BY <2>1, MapTypes DEF IsMap, Put
    <3> QED
      BY <2>1, <2>2, <3>1 DEF TypeOK
  <2> QED
    BY <1>1, <2>3 DEF SetNewTaintForMemory, TypeOK
<1>3. CASE ~InBitset(m)
  <2>1. UNCHANGED <<memTaintMap, issued>>
    BY <1>3 DEF SetNewTaintForMemory
  <2> QED
    BY <1>1, <2>1 DEF SetNewTaintForMemory, TypeOK
<1> QED
  BY <1>2, <1>3

(* A system call handler that drops taint preserves types.                  *)
LEMMA EraseType ==
  ASSUME TypeOK, NEW t \in Thread, NEW mem \in KernelRange, EraseTaint(t, mem)
  PROVE  TypeOK'
<1>1. IsMap(memTaintMap', ADDRINT, SUBSET Mark)
  BY EraseMap DEF EraseTaint, TypeOK
<1> QED
  BY <1>1 DEF EraseTaint, TypeOK

(* Type correctness: calls have arguments of the right kind, the maps and  *)
(* bitsets hold marks the bitsets have room for, and the generator's       *)
(* counter stays an int.                                                   *)
THEOREM TypeCorrect == Spec => []TypeOK
<1>1. Init => TypeOK
  <2> SUFFICES ASSUME Init PROVE TypeOK
    OBVIOUS
  <2>1. \A K, V : IsMap(<<>>, K, V)
    BY EmptyMap
  <2>2. todo \in [Thread -> Seq(Call)]
    BY DEF Init
  <2>3. current \in -INT_MAX - 1 .. INT_MAX
    BY IntAssumption DEF Init
  <2> QED
    BY <2>1, <2>2, <2>3 DEF Init, TypeOK
<1>2. TypeOK /\ [Next]_vars => TypeOK'
  <2> SUFFICES ASSUME TypeOK, [Next]_vars PROVE TypeOK'
    OBVIOUS
  <2>1. CASE Next
    BY <2>1, ExecuteType, AnalysisCallType, SourceType, EraseType DEF Next
  <2>2. CASE UNCHANGED vars
    BY <2>2 DEF TypeOK, vars
  <2> QED
    BY <2>1, <2>2
<1> QED
  BY <1>1, <1>2, PTL DEF Spec
-----------------------------------------------------------------------------
(* No mark from nowhere.                                                   *)

(* What a map, or a set of scratch bitsets, passes on was given out.       *)
LEMMA ReadIssued ==
  ASSUME NoMarkFromNowhere
  PROVE  /\ \A k : Get(regTaintMap, k) \subseteq issued
         /\ \A k : Get(memTaintMap, k) \subseteq issued
         /\ \A k : Get(controlTaintMap, k) \subseteq issued
         /\ ControlTaint \subseteq issued
         /\ \A from \in SUBSET Scratch : Combined(from) \subseteq issued
<1>1. \A map, k : Get(map, k) \subseteq Marks(map)
  BY DEF Get, Marks
<1>2. /\ Marks(regTaintMap) \subseteq issued
      /\ Marks(memTaintMap) \subseteq issued
      /\ Marks(controlTaintMap) \subseteq issued
      /\ ControlTaint \subseteq issued
      /\ \A s \in Scratch : scratch[s] \subseteq issued
  BY DEF NoMarkFromNowhere, ControlTaint
<1>3. ASSUME NEW from \in SUBSET Scratch
      PROVE  Combined(from) \subseteq issued
  <2> DEFINE U == UNION {scratch[x] : x \in from}
  <2>1. U \subseteq issued
    BY <1>2
  <2>2. Combined(from) = U \cup ControlTaint
    BY Zenon DEF Combined
  <2> HIDE DEF U
  <2> QED
    BY <1>2, <2>1, <2>2
<1> QED
  BY <1>1, <1>2, <1>3, Zenon

(* Filling a scratch set with marks given out.                              *)
LEMMA LoadIssued ==
  ASSUME TypeOK, NoMarkFromNowhere, NEW t \in Thread, NEW x \in Scratch, NEW marks,
         marks \subseteq issued, Load(t, x, marks)
  PROVE  NoMarkFromNowhere'
<1>1. \A s \in Scratch : scratch'[s] \subseteq issued'
  BY DEF TypeOK, Load, Advance, NoMarkFromNowhere
<1> QED
  BY <1>1 DEF Load, Advance, maps, NoMarkFromNowhere, ControlTaint

(* No analysis routine invents a mark.                                      *)
LEMMA AnalysisCallIssued ==
  ASSUME TypeOK, NoMarkFromNowhere, NEW t \in Thread, AnalysisCall(t)
  PROVE  NoMarkFromNowhere'
<1> DEFINE call == Head(todo[t])
<1>1. CASE ClearTaintSet(t)
  <2>1. call.set \in Scratch
    BY <1>1, NextCall, CallArguments DEF ClearTaintSet
  <2> QED
    BY <1>1, <2>1, LoadIssued DEF ClearTaintSet
<1>2. CASE TaintForRegister(t)
  <2>1. call.set \in Scratch
    BY <1>2, NextCall, CallArguments DEF TaintForRegister
  <2>2. Get(regTaintMap, call.reg) \subseteq issued
    BY ReadIssued
  <2> QED
    BY <1>2, <2>1, <2>2, LoadIssued DEF TaintForRegister
<1>3. CASE TaintForMemory(t)
  <2>1. call.set \in Scratch
    BY <1>3, NextCall, CallArguments DEF TaintForMemory
  <2>2. \A a : Get(memTaintMap, a) \subseteq issued
    BY ReadIssued
  <2>3. UNION {Get(memTaintMap, a) : a \in call.mem} \subseteq issued
    BY <2>2
  <2> QED
    BY <1>3, <2>1, <2>3, LoadIssued DEF TaintForMemory
<1>4. CASE SetTaintForRegister(t)
  <2>1. Advance(t) /\ call.from \in SUBSET Scratch
    BY <1>4, NextCall, CallArguments DEF SetTaintForRegister
  <2>2. Combined(call.from) \subseteq issued
    BY <2>1, ReadIssued
  <2>3. Marks(Put(regTaintMap, {call.reg} \cup SubRegisters(call.reg),
                  Combined(call.from)))
          \subseteq Marks(regTaintMap) \cup Combined(call.from)
    BY MarksPut
  <2>4. Marks(regTaintMap') \subseteq issued
    BY <1>4, <2>2, <2>3 DEF SetTaintForRegister, NoMarkFromNowhere
  <2> QED
    BY <1>4, <2>1, <2>4
    DEF SetTaintForRegister, Advance, NoMarkFromNowhere, ControlTaint
<1>5. CASE ClearTaintForRegister(t)
  <2>1. Marks(regTaintMap') \subseteq Marks(regTaintMap) \cup ControlTaint
    BY <1>5, MarksPut DEF ClearTaintForRegister
  <2> QED
    BY <1>5, <2>1
    DEF ClearTaintForRegister, Advance, NoMarkFromNowhere, ControlTaint
<1>6. CASE SetTaintForMemory(t)
  <2> DEFINE tmp == Combined(call.from)
  <2>1. /\ Advance(t) /\ call.from \in SUBSET Scratch
        /\ call.mem \in SUBSET ADDRINT
    BY <1>6, NextCall, CallArguments DEF SetTaintForMemory
  <2>2. tmp \subseteq issued
    BY <2>1, ReadIssued
  <2>3. Marks(memTaintMap') \subseteq Marks(memTaintMap) \cup tmp
    BY <1>6, MarksPut DEF SetTaintForMemory
  <2>4. ASSUME NEW m \in Mark, DOMAIN tagMemoryMap'[m] # {}
        PROVE  m \in issued
    <3>1. CASE m \in tmp
      BY <3>1, <2>2
    <3>2. CASE m \notin tmp
      <4>1. tagMemoryMap'[m] =
              Put(tagMemoryMap[m], call.mem \cap DOMAIN tagMemoryMap[m], "deleted")
        BY <1>6, <3>2 DEF SetTaintForMemory, TagUpdate
      <4>2. DOMAIN tagMemoryMap'[m] = DOMAIN tagMemoryMap[m]
        BY <4>1 DEF Put
      <4> QED
        BY <2>4, <4>1, <4>2 DEF NoMarkFromNowhere
    <3> QED
      BY <3>1, <3>2
  <2> QED
    BY <1>6, <2>1, <2>2, <2>3, <2>4
    DEF SetTaintForMemory, Advance, NoMarkFromNowhere, ControlTaint
<1>7. CASE ClearTaintForMemory(t)
  <2>1. Marks(memTaintMap') \subseteq Marks(memTaintMap) \cup ControlTaint
    BY <1>7, MarksPut DEF ClearTaintForMemory
  <2> QED
    BY <1>7, <2>1
    DEF ClearTaintForMemory, Advance, NoMarkFromNowhere, ControlTaint
<1>8. CASE PushControl(t)
  <2> DEFINE addr  == call.addr
             flags == Get(regTaintMap, "RFLAGS")
             new   == Get(controlTaintMap, addr) \cup flags
  <2>1. new \subseteq issued
    BY ReadIssued
  <2>2. Marks(Put(controlTaintMap, {addr}, new)) \subseteq Marks(controlTaintMap) \cup new
    BY MarksPut
  <2>3. controlTaintMap' \in {controlTaintMap, Put(controlTaintMap, {addr}, new)}
    BY <1>8 DEF PushControl
  <2>4. Marks(controlTaintMap') \subseteq issued
    BY <2>1, <2>2, <2>3 DEF NoMarkFromNowhere, ControlTaint
  <2> QED
    BY <1>8, <2>4 DEF PushControl, Advance, NoMarkFromNowhere, ControlTaint
<1>9. CASE PopControl(t)
  <2>1. Marks(controlTaintMap') \subseteq Marks(controlTaintMap)
    BY <1>9, MarksErase DEF PopControl
  <2> QED
    BY <1>9, <2>1 DEF PopControl, Advance, NoMarkFromNowhere, ControlTaint
<1> QED
  BY <1>1, <1>2, <1>3, <1>4, <1>5, <1>6, <1>7, <1>8, <1>9 DEF AnalysisCall

(* Reaching an instruction invents no mark; a source logs the one it stores.*)
LEMMA OtherStepsIssued ==
  ASSUME TypeOK, NoMarkFromNowhere, Next, \A t \in Thread : ~AnalysisCall(t)
  PROVE  NoMarkFromNowhere'
<1>1. PICK t \in Thread :
        \/ \E ins \in Instructions : Execute(t, ins)
        \/ \E mem \in SourceRange, mark \in SourceMark :
             SetNewTaintForMemory(t, mem, mark)
        \/ \E mem \in KernelRange : EraseTaint(t, mem)
  BY DEF Next
<1>2. ASSUME NEW ins \in Instructions, Execute(t, ins)
      PROVE  NoMarkFromNowhere'
  BY <1>2 DEF Execute, maps, NoMarkFromNowhere, ControlTaint
<1>3. ASSUME NEW mem \in SourceRange, NEW mark \in SourceMark,
             SetNewTaintForMemory(t, mem, mark)
      PROVE  NoMarkFromNowhere'
  <2> DEFINE m == IF mark = -1 THEN nextTaintMark ELSE mark
  <2>1. CASE InBitset(m)
    <3>1. memTaintMap' = Put(memTaintMap, mem, {m}) /\ issued' = issued \cup {m}
      BY <1>3, <2>1 DEF SetNewTaintForMemory
    <3> HIDE DEF m
    <3>2. Marks(memTaintMap') \subseteq Marks(memTaintMap) \cup {m}
      BY <3>1, MarksPut
    <3> QED
      BY <1>3, <3>1, <3>2 DEF SetNewTaintForMemory, NoMarkFromNowhere, ControlTaint
  <2>2. CASE ~InBitset(m)
    <3>1. UNCHANGED <<memTaintMap, issued>>
      BY <1>3, <2>2 DEF SetNewTaintForMemory
    <3> QED
      BY <1>3, <3>1 DEF SetNewTaintForMemory, NoMarkFromNowhere, ControlTaint
  <2> QED
    BY <2>1, <2>2
<1>4. ASSUME NEW mem \in KernelRange, EraseTaint(t, mem)
      PROVE  NoMarkFromNowhere'
  <2>1. Marks(memTaintMap') \subseteq Marks(memTaintMap)
    BY <1>4, MarksErase DEF EraseTaint
  <2> QED
    BY <1>4, <2>1 DEF EraseTaint, NoMarkFromNowhere, ControlTaint
<1> QED
  BY <1>1, <1>2, <1>3, <1>4

(* Whatever the threads run and however their analysis calls interleave,   *)
(* a mark is found only where a source's log can explain it.               *)
THEOREM NoMarkInvented == Spec => []NoMarkFromNowhere
<1>1. Init => NoMarkFromNowhere
  <2> SUFFICES ASSUME Init PROVE NoMarkFromNowhere
    OBVIOUS
  <2>1. Marks(<<>>) = {} /\ DOMAIN <<>> = {}
    BY DEF Marks
  <2> QED
    BY <2>1 DEF Init, NoMarkFromNowhere, ControlTaint
<1>2. TypeOK /\ NoMarkFromNowhere /\ [Next]_vars => NoMarkFromNowhere'
  <2> SUFFICES ASSUME TypeOK, NoMarkFromNowhere, [Next]_vars
               PROVE  NoMarkFromNowhere'
    OBVIOUS
  <2>1. CASE Next
    BY <2>1, AnalysisCallIssued, OtherStepsIssued
  <2>2. CASE UNCHANGED vars
    BY <2>2 DEF vars, NoMarkFromNowhere, ControlTaint
  <2> QED
    BY <2>1, <2>2
<1> QED
  BY <1>1, <1>2, TypeCorrect, PTL DEF Spec
-----------------------------------------------------------------------------
(* Control taint.                                                          *)

(* An entry Put changes holds the new value.                               *)
LEMMA PutChange ==
  ASSUME NEW map, NEW S, NEW v, NEW c, c \subseteq v,
         NEW k \in DOMAIN Put(map, S, v), Get(map, k) # Put(map, S, v)[k]
  PROVE  c \subseteq Put(map, S, v)[k]
  BY DEF Put, Get

(* Every entry of the register or memory map that an analysis call changes *)
(* carries the control taint of all open branches, however the calls of    *)
(* the threads interleave.                                                 *)
THEOREM ControlAbsorbed == Spec => StoresAbsorbControl
<1> DEFINE RegOK == \A r \in DOMAIN regTaintMap' :
                      Get(regTaintMap, r) # regTaintMap'[r] =>
                        ControlTaint \subseteq regTaintMap'[r]
           MemOK == \A a \in DOMAIN memTaintMap' :
                      Get(memTaintMap, a) # memTaintMap'[a] =>
                        ControlTaint \subseteq memTaintMap'[a]
<1>1. UNCHANGED regTaintMap => RegOK
  BY DEF Get
<1>2. UNCHANGED memTaintMap => MemOK
  BY DEF Get
<1>3. TypeOK /\ Next /\ todo' # todo => RegOK /\ MemOK
  <2> SUFFICES ASSUME TypeOK, todo' # todo, NEW t \in Thread,
                      \/ \E ins \in Instructions : Execute(t, ins)
                      \/ AnalysisCall(t)
               PROVE  RegOK /\ MemOK
    BY DEF Next, SetNewTaintForMemory, EraseTaint
  <2> DEFINE call == Head(todo[t])
  <2>1. CASE SetTaintForRegister(t)
    <3>1. call.from \in SUBSET Scratch /\ UNCHANGED memTaintMap
      BY <2>1, NextCall, CallArguments DEF SetTaintForRegister
    <3>2. ControlTaint \subseteq Combined(call.from)
      BY <3>1, CombinedType
    <3>3. \/ UNCHANGED regTaintMap
          \/ regTaintMap' = Put(regTaintMap, {call.reg} \cup SubRegisters(call.reg),
                                Combined(call.from))
      BY <2>1 DEF SetTaintForRegister
    <3>4. RegOK
      BY <3>2, <3>3, <1>1, PutChange
    <3> QED
      BY <3>1, <3>4, <1>2
  <2>2. CASE ClearTaintForRegister(t)
    <3>1. RegOK
      BY <2>2, PutChange DEF ClearTaintForRegister
    <3> QED
      BY <2>2, <3>1, <1>2 DEF ClearTaintForRegister
  <2>3. CASE SetTaintForMemory(t)
    <3>1. call.from \in SUBSET Scratch /\ UNCHANGED regTaintMap
      BY <2>3, NextCall, CallArguments DEF SetTaintForMemory
    <3>2. ControlTaint \subseteq Combined(call.from)
      BY <3>1, CombinedType
    <3>3. memTaintMap' = Put(memTaintMap, call.mem, Combined(call.from))
      BY <2>3 DEF SetTaintForMemory
    <3>4. MemOK
      BY <3>2, <3>3, PutChange
    <3> QED
      BY <3>1, <3>4, <1>1
  <2>4. CASE ClearTaintForMemory(t)
    <3>1. MemOK
      BY <2>4, PutChange DEF ClearTaintForMemory
    <3> QED
      BY <2>4, <3>1, <1>1 DEF ClearTaintForMemory
  <2>5. CASE \/ ClearTaintSet(t) \/ TaintForRegister(t) \/ TaintForMemory(t)
             \/ PushControl(t) \/ PopControl(t)
             \/ \E ins \in Instructions : Execute(t, ins)
    <3>1. UNCHANGED <<regTaintMap, memTaintMap>>
      BY <2>5 DEF ClearTaintSet, TaintForRegister, TaintForMemory, Load, maps,
                  PushControl, PopControl, Execute
    <3> QED
      BY <3>1, <1>1, <1>2
  <2> QED
    BY <2>1, <2>2, <2>3, <2>4, <2>5 DEF AnalysisCall
<1>4. TypeOK /\ [Next]_vars => [todo' # todo => RegOK /\ MemOK]_vars
  BY <1>3
<1> QED
  BY <1>4, TypeCorrect, PTL DEF Spec, StoresAbsorbControl
-----------------------------------------------------------------------------
(* One thread.                                                             *)

(* What thread t has loaded for its present instruction.                   *)
Own(t) == {x \in Scratch : <<t, x>> \in loaded}

(* The rest of a list of calls, once its head has run.                     *)
LEMMA FedTail ==
  ASSUME NEW s \in Seq(Call), s # <<>>, NEW A, NEW A2, Fed(s, A), A \subseteq A2,
         \A y : LoadsSet(Head(s), y) => y \in A2
  PROVE  Fed(Tail(s), A2)
<1>1. /\ Len(s) \in Nat /\ DOMAIN s = 1 .. Len(s) /\ Len(s) >= 1
      /\ DOMAIN Tail(s) = 1 .. Len(s) - 1
      /\ Head(s) = s[1]
      /\ \A i \in 1 .. Len(s) - 1 : i + 1 \in DOMAIN s /\ Tail(s)[i] = s[i + 1]
  OBVIOUS
<1> SUFFICES ASSUME NEW i \in 1 .. Len(s) - 1, Stores(s[i + 1]),
                    NEW y \in s[i + 1].from, y \notin A2
             PROVE  Supplied(Tail(s), i, y)
  BY <1>1 DEF Fed
<1>2. PICK j \in DOMAIN s : j < i + 1 /\ (Stop(s[j]) \/ LoadsSet(s[j], y))
  BY <1>1 DEF Fed, Supplied
<1>3. ~Stop(s[1])
  <2>1. s[1] \in Call
    BY <1>1
  <2> QED
    BY <2>1 DEF Stop, Call
<1>4. j # 1
  BY <1>1, <1>2, <1>3
<1> DEFINE k == j - 1
<1>5. k \in DOMAIN Tail(s) /\ k < i /\ Tail(s)[k] = s[j]
  BY <1>1, <1>2, <1>4
<1> QED
  BY <1>2, <1>5 DEF Supplied

(* A fresh instruction's calls store only what they load.                  *)
LEMMA FreshFed ==
  ASSUME NEW ins \in Instruction, Dataflow(ins) # <<Abort>>, ~SETccToMemory(ins)
  PROVE  Fed(ControlCalls(ins) \o Dataflow(ins), {})
<1> DEFINE c == ControlCalls(ins)
           d == Dataflow(ins)
<1>1. c \in Seq(Call) /\ d \in Seq(Call) /\ Fed(d, {})
  BY ControlCallsType, DataflowCalls
<1>2. \A i \in DOMAIN c : ~Stores(c[i])
  BY ControlCallsType DEF Stores
<1> HIDE DEF c, d
<1>3. c \in Seq(Statement) /\ d \in Seq(Statement)
  BY <1>1 DEF Statement
<1>4. Feed({}, c, {}) /\ Feed({}, d, {})
  BY <1>1, <1>2, <1>3 DEF Feed, Fed
<1>5. Feed({}, c \o d, {})
  BY <1>4, Chain
<1> QED
  BY <1>5 DEF Feed, c, d

(* The inductive invariant: what is left to run stores only what has been  *)
(* loaded or will be loaded first.                                         *)
Obligations == \A t \in Thread : Fed(todo[t], Own(t))

(* With one application thread, and no SETcc into memory, an instruction's *)
(* stores use what the same instruction loaded, although the scratch       *)
(* bitsets are globals that keep residual values.                          *)
THEOREM OneThreadStoresOwnLoads ==
  ASSUME \A t, u \in Thread : t = u,
         \A ins \in Instructions : ~SETccToMemory(ins)
  PROVE  Spec => []StoresOwnLoads
<1>1. Init => Obligations
  BY DEF Init, Obligations, Fed
<1>2. TypeOK /\ Obligations /\ [Next]_vars => Obligations'
  <2> SUFFICES ASSUME TypeOK, Obligations, [Next]_vars, NEW t \in Thread
               PROVE  Fed(todo'[t], Own(t)')
    BY DEF Obligations
  <2>0. Fed(todo[t], Own(t)) /\ todo[t] \in Seq(Call)
    BY DEF Obligations, TypeOK
  <2> DEFINE call == Head(todo[t])
  <2>1. ASSUME Advance(t), todo[t] # <<>>, Own(t) \subseteq Own(t)',
               \A y : LoadsSet(call, y) => y \in Own(t)'
        PROVE  Fed(todo'[t], Own(t)')
    <3>1. todo'[t] = Tail(todo[t])
      BY <2>1 DEF Advance, TypeOK
    <3> QED
      BY <2>0, <2>1, <3>1, FedTail
  <2>2. ASSUME NEW x \in Scratch, NEW marks, Load(t, x, marks), call.set = x,
               todo[t] # <<>>
        PROVE  Fed(todo'[t], Own(t)')
    <3>1. Own(t) \subseteq Own(t)' /\ x \in Own(t)'
      BY <2>2 DEF Load, Own
    <3>2. \A y : LoadsSet(call, y) => y = x
      BY <2>2 DEF LoadsSet
    <3> QED
      BY <2>1, <2>2, <3>1, <3>2 DEF Load
  <2>3. ASSUME NEW op, At(t, op), Advance(t), UNCHANGED loaded,
               op \notin {"ClearTaintSet", "TaintForRegister", "TaintForMemory"}
        PROVE  Fed(todo'[t], Own(t)')
    <3>1. \A y : ~LoadsSet(call, y)
      BY <2>3 DEF At, LoadsSet
    <3>2. Own(t)' = Own(t)
      BY <2>3 DEF Own
    <3> QED
      BY <2>1, <2>3, <3>1, <3>2 DEF At
  <2>4. CASE ClearTaintSet(t)
    <3>1. call.set \in Scratch
      BY <2>4, NextCall, CallArguments DEF ClearTaintSet
    <3> QED
      BY <2>2, <2>4, <3>1 DEF ClearTaintSet, At
  <2>5. CASE TaintForRegister(t)
    <3>1. call.set \in Scratch
      BY <2>5, NextCall, CallArguments DEF TaintForRegister
    <3> QED
      BY <2>2, <2>5, <3>1 DEF TaintForRegister, At
  <2>6. CASE TaintForMemory(t)
    <3>1. call.set \in Scratch
      BY <2>6, NextCall, CallArguments DEF TaintForMemory
    <3> QED
      BY <2>2, <2>6, <3>1 DEF TaintForMemory, At
  <2>7. CASE \/ SetTaintForRegister(t) \/ ClearTaintForRegister(t)
             \/ SetTaintForMemory(t) \/ ClearTaintForMemory(t)
             \/ PushControl(t) \/ PopControl(t)
    BY <2>3, <2>7 DEF SetTaintForRegister, ClearTaintForRegister,
       SetTaintForMemory, ClearTaintForMemory, PushControl, PopControl
  <2>8. ASSUME NEW ins \in Instructions, Execute(t, ins)
        PROVE  Fed(todo'[t], Own(t)')
    <3>1. CASE Dataflow(ins) = <<Abort>>
      <4>1. todo'[t] = <<>>
        BY <2>8, <3>1 DEF Execute, Idle
      <4> QED
        BY <4>1 DEF Fed
    <3>2. CASE Dataflow(ins) # <<Abort>>
      <4>1. todo'[t] = ControlCalls(ins) \o Dataflow(ins)
        BY <2>8, <3>2 DEF Execute, TypeOK
      <4>2. Fed(ControlCalls(ins) \o Dataflow(ins), {})
        BY <3>2, FreshFed, InstructionsAssumption
      <4> QED
        BY <4>1, <4>2 DEF Fed
    <3> QED
      BY <3>1, <3>2
  <2>9. CASE UNCHANGED <<todo, loaded>>
    BY <2>0, <2>9 DEF Own
  <2>10. CASE Next
    <3>1. PICK u \in Thread :
            \/ \E ins \in Instructions : Execute(u, ins)
            \/ AnalysisCall(u)
            \/ \E mem \in SourceRange, mark \in SourceMark :
                 SetNewTaintForMemory(u, mem, mark)
            \/ \E mem \in KernelRange : EraseTaint(u, mem)
      BY <2>10 DEF Next
    <3>2. u = t
      OBVIOUS
    <3> QED
      BY <2>4, <2>5, <2>6, <2>7, <2>8, <2>9, <3>1, <3>2
      DEF AnalysisCall, SetNewTaintForMemory, EraseTaint
  <2> QED
    BY <2>9, <2>10 DEF vars
<1>3. TypeOK /\ Obligations => StoresOwnLoads
  <2> SUFFICES ASSUME TypeOK, Obligations, NEW t \in Thread,
                      At(t, "SetTaintForRegister") \/ At(t, "SetTaintForMemory"),
                      NEW x \in Head(todo[t]).from
               PROVE  <<t, x>> \in loaded
    BY DEF StoresOwnLoads
  <2>1. /\ todo[t] \in Seq(Call) /\ 1 \in DOMAIN todo[t]
        /\ todo[t][1] = Head(todo[t]) /\ Stores(todo[t][1])
    BY DEF TypeOK, At, Stores
  <2>2. ~Supplied(todo[t], 1, x)
    BY <2>1 DEF Supplied
  <2>3. x \in Own(t)
    BY <2>1, <2>2 DEF Obligations, Fed
  <2> QED
    BY <2>3 DEF Own
<1> QED
  BY <1>1, <1>2, <1>3, TypeCorrect, PTL DEF Spec
=============================================================================
