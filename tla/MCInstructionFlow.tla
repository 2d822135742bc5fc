------------------------- MODULE MCInstructionFlow -------------------------
(***************************************************************************)
(* InstructionFlow for one instruction of every form the handlers treat as *)
(* their comments say (Conforming), executed from states in which each     *)
(* register and byte carries a mark of its own or none, a branch is open   *)
(* or not, and the scratch sets hold a mark left by some earlier           *)
(* instruction.                                                            *)
(***************************************************************************)
EXTENDS InstructionFlow

VARIABLE started   \* one instruction per behaviour

MCREG == NamedRegisters
MCADDRINT == 1 .. 3
MCCODE == {100, 101}
MClow32 == [a \in MCADDRINT |-> a]

-----------------------------------------------------------------------------
(* Forms of instructions.                                                  *)

R(r) == [kind |-> "reg", reg |-> r]
M    == [kind |-> "mem", base |-> "EDI", index |-> "EDI"]
I    == [kind |-> "imm"]

Form(class, opnd, read, write) ==
  [iclass |-> class, opnd |-> opnd, explicit |-> Len(opnd), width |-> 32,
   read |-> read, read2 |-> {}, write |-> write, rep |-> FALSE, equal |-> FALSE,
   push |-> {}, pop |-> <<>>]

Here  == {1, 2}
There == {3}

(* Forms of class whose first operand is read and written.                 *)
RegDest(class) ==
  {Form(class, <<R("EBX"), R("EDX")>>, {}, {}), Form(class, <<R("EAX"), I>>, {}, {})}
RegMem(class) == {Form(class, <<R("EAX"), M>>, Here, {}), Form(class, <<R("EAX"), M>>, {}, {})}
MemDest(class) ==
  {Form(class, <<M, R("EDX")>>, Here, Here), Form(class, <<M, I>>, Here, Here),
   Form(class, <<M, R("EDX")>>, {}, {})}
Binary(class) == RegDest(class) \cup RegMem(class) \cup MemDest(class)
Unary(class, dest) ==
  {Form(class, <<R("EBX")>>, {}, {}), Form(class, <<M>>, Here, dest),
   Form(class, <<M>>, {}, {})}

Moves(class) ==
  RegDest(class) \cup RegMem(class)
  \cup {Form(class, <<M, R("EDX")>>, {}, Here), Form(class, <<M, I>>, {}, Here)}

Conforming ==
  UNION {Binary(c) : c \in {"ADD", "ADC", "XOR"}}
  \cup UNION {Unary(c, Here) : c \in {"INC", "NEG"}}
  \cup Moves("MOV")
  \cup {[i EXCEPT !.write = {}] : i \in Binary("CMP")}
  \cup {[i EXCEPT !.width = 64] : i \in Unary("MUL", {}) \cup Unary("IMUL", {})}
  \cup {[i EXCEPT !.width = w] : i \in Unary("IDIV", {}) , w \in {64}}
  \cup {[i EXCEPT !.width = w] : i \in Unary("DIV", {}) , w \in {64}}
  \cup RegDest("TEST") \cup MemDest("TEST")
  \cup RegMem("IMUL") \cup {Form("IMUL", <<R("EAX"), M, I>>, Here, {})}
  \cup RegDest("SAR") \cup {Form("SAR", <<M, R("CL")>>, Here, Here)}
  \cup {Form("SHLD", <<R("EBX"), R("EDX"), I>>, {}, {}),
        Form("SHRD", <<M, R("EDX"), I>>, Here, Here)}
  \cup {Form("XADD", <<R("EBX"), R("EDX")>>, {}, {}),
        Form("XADD", <<M, R("EDX")>>, Here, Here),
        Form("XCHG", <<R("EBX"), R("EDX")>>, {}, {}),
        Form("XCHG", <<M, R("EDX")>>, Here, Here),
        Form("XCHG", <<R("EDX"), M>>, Here, Here)}
  \cup {[Form("CMPXCHG", <<R("EBX"), R("EDX"), R("EAX")>>, {}, {}) EXCEPT !.equal = e]
          : e \in BOOLEAN}
  \cup {Form("XOR", <<R("EDX"), R("EDX")>>, {}, {}),
        Form("ADD", <<R("ESP"), R("EDX")>>, {}, {}),
        Form("MOV", <<R("R15D"), R("EDX")>>, {}, {}),
        Form("MOVDQU", <<M, R("EDX")>>, {}, Here),
        Form("MOVDQU", <<R("EDI"), M>>, Here, {}),
        Form("LDDQU", <<R("EDI"), M>>, Here, {}),
        Form("LEA", <<R("EBX"), M>>, {}, {}),
        Form("LEA", <<R("EBX"), [M EXCEPT !.index = "INVALID"]>>, {}, {}),
        Form("BSF", <<R("EBX"), R("EDX")>>, {}, {})}
  \cup {Form("PUSH", <<R("EBX")>>, {}, There), Form("PUSH", <<M>>, Here, There),
        Form("PUSH", <<I>>, {}, There),
        Form("POP", <<R("EBX")>>, Here, {}), Form("POP", <<M>>, Here, There),
        Form("PUSHFD", <<>>, {}, There)}
  \cup {Form("CWDE", <<>>, {}, {}), Form("CDQ", <<>>, {}, {}),
        [Form("CDQ", <<>>, {}, {}) EXCEPT !.width = 64],
        Form("SETZ", <<R("AL")>>, {}, {})}
  \cup {[Form("MOVSB", <<>>, Here, There) EXCEPT !.rep = b] : b \in BOOLEAN}
  \cup {[Form("SCASB", <<>>, Here, {}) EXCEPT !.rep = b] : b \in BOOLEAN}
  \cup {[Form("CMPSB", <<>>, Here, {}) EXCEPT !.read2 = There],
        Form("STOSB", <<>>, {}, There), Form("STOSD", <<>>, {}, There)}
  \cup {Form("CLD", <<>>, {}, {}), Form("RDTSC", <<>>, {}, {}),
        Form("CPUID", <<>>, {}, {}), Form("FNSTCW", <<M>>, {}, Here),
        Form("FNSTSW", <<R("AX")>>, {}, {}), Form("FNSTSW", <<M>>, {}, Here),
        Form("NOP", <<>>, {}, {}), Form("FSCALE", <<>>, {}, {})}
  \cup {[Form("Jcc", <<>>, {}, {}) EXCEPT !.push = {101}],
        [Form("Jcc", <<>>, {}, {}) EXCEPT !.push = {100}],
        [Form("MOV", <<R("EBX"), I>>, {}, {}) EXCEPT !.pop = <<100>>],
        [Form("MOV", <<R("EBX"), I>>, {}, {}) EXCEPT !.pop = <<101>>]}

ASSUME FormsConform == \A ins \in Conforming : Conforms(ins)

-----------------------------------------------------------------------------
RegisterSeq == <<"EAX", "AX", "AL", "EBX", "ECX", "CL", "EDX", "RAX", "RDX",
                 "EDI", "R15D", "RFLAGS">>

Locations ==
  {<<"reg", RegisterSeq[i]>> : i \in DOMAIN RegisterSeq} \cup {"mem"} \X MCADDRINT

(* Marks 2 .. 16, one for each location; 1 is an open branch's, 0 what the *)
(* scratch sets hold.                                                      *)
OwnMark(l) ==
  IF l[1] = "mem" THEN 13 + l[2]
  ELSE 1 + CHOOSE i \in DOMAIN RegisterSeq : RegisterSeq[i] = l[2]

Tainted ==
  {{}, Locations} \cup {{l} : l \in Locations} \cup {Locations \ {l} : l \in Locations}

(* A location without marks has no entry (empty = FALSE) or an empty one.  *)
InitialMap(kind, D, empty) ==
  LET held == IF empty THEN Locations ELSE D
  IN  [k \in {l[2] : l \in {m \in held : m[1] = kind}} |->
         IF <<kind, k>> \in D THEN {OwnMark(<<kind, k>>)} ELSE {}]

MCInit ==
  /\ \E D \in Tainted, empty \in BOOLEAN :
       /\ regTaintMap = InitialMap("reg", D, empty)
       /\ memTaintMap = InitialMap("mem", D, empty)
  /\ controlTaintMap \in {[c \in {} |-> {}], [c \in {100} |-> {1}]}
  /\ tagMemoryMap = [m \in Mark |-> <<>>]
  /\ scratch = [s \in Scratch |-> IF s = "rflags" THEN {} ELSE {0}]
  /\ todo = [t \in Thread |-> <<>>]
  /\ current = 17 /\ aborted = FALSE
  /\ issued = Mark /\ loaded = {}
  /\ insn = {} /\ before = Snapshot /\ started = FALSE

MCNext ==
  /\ insn = {} => ~started
  /\ FlowNext
  /\ started' = TRUE

MCSpec == MCInit /\ [][MCNext]_<<ivars, started>>
=============================================================================
