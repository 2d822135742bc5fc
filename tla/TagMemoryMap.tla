---------------------------- MODULE TagMemoryMap ----------------------------
(***************************************************************************)
(* tagMemoryMap (dytan.cpp): for each taint mark, the linked list of the   *)
(* bytes it was stored to.  SetTaintForMemory appends an entry when the    *)
(* mark is stored to a byte, and an entry with isCleared set when          *)
(* something without the mark is; when the program's main function ends,   *)
(* dump_taints unlinks the deleted bytes and prints the rest.  The lists   *)
(* of different marks never interact, so one of them is modelled.          *)
(*                                                                         *)
(* Nothing else that changes the marks of memory touches the lists: not    *)
(* ClearTaintForMemory, the handlers that erase what the kernel writes,    *)
(* the sources that hand out marks, or DYTAN_tag.                          *)
(*                                                                         *)
(* Every list ends in a spare node that `new memlist' leaves uninitialised *)
(* but for its next pointer; dump_taints reads that node's other fields.   *)
(***************************************************************************)
EXTENDS TaintMaps, SequencesExt

CONSTANTS
  ADDRINT,       \* addresses of bytes, ordered as numbers
  WrittenRange,  \* the byte ranges SetTaintForMemory is called for
  ChangedRange,  \* the sets of bytes whose marks others change at once
  MaxLength      \* bound on the entries of the list

ASSUME AddressAssumption ==
  /\ ADDRINT \subseteq Nat /\ low32 \in [ADDRINT -> Nat]
  /\ WrittenRange \subseteq SUBSET ADDRINT
  /\ \A mem \in WrittenRange : IsFiniteSet(mem)
  /\ ChangedRange \subseteq SUBSET ADDRINT
ASSUME LengthAssumption == MaxLength \in Nat

VARIABLES
  phase,      \* "run", "dump" (unlinking deleted bytes), "printed"
  memlist,    \* the list; without its spare node in phase "run"
  pre,        \* dump_taints' preCurrentElement, as a position
  carried,    \* the bytes that carry the mark in memTaintMap
  written,    \* history: byte -> what SetTaintForMemory stored to it so far:
              \* "never" the mark, the mark ever since ("kept"), or, after it,
              \* something without it ("dropped")
  unrecorded, \* history: the bytes whose marks something else changed last
  atExit      \* history: the list, with its spare node, when main ended

marks == <<carried, written, unrecorded>>
vars  == <<phase, memlist, pre, marks, atExit>>

Entry == [memAddress : ADDRINT, isCleared : BOOLEAN]

Listed(a)  == [memAddress |-> a, isCleared |-> FALSE]
Cleared(a) == [memAddress |-> a, isCleared |-> TRUE]

(* The members of S, addresses or positions, as a loop comes upon them.    *)
InOrder(S) ==
  CHOOSE s \in [1 .. Cardinality(S) -> S] :
    Range(s) = S /\ \A i, j \in DOMAIN s : i < j => s[i] < s[j]

Addresses(list) == {list[i].memAddress : i \in DOMAIN list}

Init ==
  /\ phase = "run" /\ memlist = <<>> /\ pre = 1
  /\ carried = {} /\ unrecorded = {} /\ atExit = <<>>
  /\ written = [a \in ADDRINT |-> "never"]
-----------------------------------------------------------------------------
(* Mutant: addrFlag is never set.                                          *)
AddressesToAdd_NoFlags(mem) == mem

(* SetTaintForMemory, the mark being stored: addrFlag[i] is set for the    *)
(* entries at distance i, cast to int, from the start of the range.        *)
AddressesToAdd(mem) ==
  {a \in mem : \A b \in Addresses(memlist) : low32[b] # low32[a]}

StoreMark(mem) ==
  LET added == InOrder(AddressesToAdd(mem))
  IN  /\ phase = "run"
      /\ Len(memlist) + Len(added) <= MaxLength
      /\ memlist' = memlist \o [i \in DOMAIN added |-> Listed(added[i])]
      /\ carried' = carried \cup mem
      /\ unrecorded' = unrecorded \ mem
      /\ written' = [a \in ADDRINT |->
                       IF a \in mem /\ written[a] = "never" THEN "kept" ELSE written[a]]
      /\ UNCHANGED <<phase, pre, atExit>>

(* The last later entry for the byte of entry i says it is deleted.        *)
HasTwin(i) ==
  LET later == {j \in i + 1 .. Len(memlist) : memlist[j].memAddress = memlist[i].memAddress}
  IN  later # {} /\ memlist[Max(later)].isCleared

(* Mutant: the later entries are not consulted.                            *)
ToDelete_Always(mem) ==
  {i \in DOMAIN memlist : memlist[i].memAddress \in mem /\ ~memlist[i].isCleared}

(* Mutant: only the first byte of the range is looked for.                 *)
ToDelete_FirstByte(mem) ==
  {i \in DOMAIN memlist :
     memlist[i].memAddress = Min(mem) /\ ~memlist[i].isCleared /\ ~HasTwin(i)}

(* The mark not being stored: entries of the range not deleted so far.     *)
ToDelete(mem) ==
  {i \in DOMAIN memlist :
     memlist[i].memAddress \in mem /\ ~memlist[i].isCleared /\ ~HasTwin(i)}

StoreOther(mem) ==
  LET order == InOrder(ToDelete(mem))
  IN  /\ phase = "run"
      /\ Len(memlist) + Len(order) <= MaxLength
      /\ memlist' =
           memlist \o [i \in DOMAIN order |-> Cleared(memlist[order[i]].memAddress)]
      /\ carried' = carried \ mem
      /\ unrecorded' = unrecorded \ mem
      /\ written' = [a \in ADDRINT |->
                       IF a \in mem /\ written[a] = "kept" THEN "dropped" ELSE written[a]]
      /\ UNCHANGED <<phase, pre, atExit>>

(* The marks of mem change without SetTaintForMemory: ClearTaintForMemory  *)
(* gives the bytes of the range that have an entry the control taint, a    *)
(* system call handler erases them, a source or DYTAN_tag gives them a     *)
(* mark, which may be this one.                                            *)
ChangeMarks(mem, mark) ==
  /\ phase = "run"
  /\ carried' = IF mark THEN carried \cup mem ELSE carried \ mem
  /\ unrecorded' = unrecorded \cup mem
  /\ UNCHANGED <<phase, memlist, pre, written, atExit>>
-----------------------------------------------------------------------------
(* dump_taints.  The spare node holds whatever was in the heap.  The       *)
(* histories of the marks are of no more use.                              *)
BeginDump(spare) ==
  /\ phase = "run" /\ phase' = "dump"
  /\ memlist' = Append(memlist, spare)
  /\ atExit' = memlist'
  /\ unrecorded' = {} /\ written' = [a \in ADDRINT |-> "never"]
  /\ UNCHANGED <<pre, carried>>

(* Mutant: isCleared is not tested.                                        *)
Matches_AnyEntry ==
  {k \in pre + 2 .. Len(memlist) : memlist[k].memAddress = memlist[pre + 1].memAddress}

(* Positions after pre of a cleared node for the address of the node that  *)
(* follows pre (currentElement); the spare node is looked at too.          *)
Matches ==
  {k \in pre + 1 .. Len(memlist) :
     memlist[k].memAddress = memlist[pre + 1].memAddress /\ memlist[k].isCleared}

(* Mutant: flag keeps its value from the previous round of the loop.       *)
KeepCurrent_StaleFlag ==
  /\ phase = "dump" /\ pre < Len(memlist)
  /\ memlist[pre].isCleared \/ Matches = {}
  /\ pre' = IF memlist = atExit THEN pre + 1 ELSE pre
  /\ UNCHANGED <<phase, memlist, marks, atExit>>

(* No deletion of the current element is found: on to the next.            *)
KeepCurrent ==
  /\ phase = "dump" /\ pre < Len(memlist)
  /\ memlist[pre].isCleared \/ Matches = {}
  /\ pre' = pre + 1
  /\ UNCHANGED <<phase, memlist, marks, atExit>>

(* Mutant: the loop moves on after unlinking as well.                      *)
UnlinkCurrent_MovesOn ==
  /\ phase = "dump" /\ pre < Len(memlist)
  /\ ~memlist[pre].isCleared /\ Matches # {}
  /\ memlist' = RemoveAt(memlist, pre + 1)
  /\ pre' = pre + 1
  /\ UNCHANGED <<phase, marks, atExit>>

(* currentElement is unlinked, and with it the node that says so, unless   *)
(* that is the very next node: its predecessor is then currentElement,     *)
(* already out of the list, and the node stays for the next round.         *)
UnlinkCurrent ==
  /\ phase = "dump" /\ pre < Len(memlist)
  /\ ~memlist[pre].isCleared /\ Matches # {}
  /\ LET k == Min(Matches)
     IN  memlist' = IF k <= pre + 2 THEN RemoveAt(memlist, pre + 1)
                    ELSE RemoveAt(RemoveAt(memlist, k), pre + 1)
  /\ UNCHANGED <<phase, pre, marks, atExit>>

(* preCurrentElement->next is NULL; all nodes but the last are printed.    *)
PrintTags ==
  /\ phase = "dump" /\ pre = Len(memlist)
  /\ phase' = "printed"
  /\ UNCHANGED <<memlist, pre, marks, atExit>>

DumpStep == KeepCurrent \/ UnlinkCurrent \/ PrintTags

Next ==
  \/ \E mem \in WrittenRange : StoreMark(mem) \/ StoreOther(mem)
  \/ \E mem \in ChangedRange, mark \in BOOLEAN : ChangeMarks(mem, mark)
  \/ \E spare \in Entry : BeginDump(spare)
  \/ DumpStep

(* The loop of dump_taints is sequential code: it runs until it is done.   *)
Spec == Init /\ [][Next]_vars /\ WF_vars(DumpStep)
-----------------------------------------------------------------------------
(* Types; and dump_taints never follows the next pointer of the last node: *)
(* preCurrentElement is a node of the list throughout.                     *)
TypeOK ==
  /\ phase \in {"run", "dump", "printed"}
  /\ memlist \in Seq(Entry) /\ atExit \in Seq(Entry)
  /\ IF phase = "run" THEN pre = 1 ELSE pre \in DOMAIN memlist
  /\ carried \subseteq ADDRINT /\ unrecorded \subseteq ADDRINT
  /\ written \in [ADDRINT -> {"never", "kept", "dropped"}]

(* What the list records, as TaintEngine has it.                           *)
Status(list) ==
  [a \in Addresses(list) |->
     IF \E i \in DOMAIN list : list[i] = Cleared(a) THEN "deleted" ELSE "listed"]

(* Until the dump, SetTaintForMemory changes the list as it changes        *)
(* tagMemoryMap in TaintEngine, and nothing else changes it.               *)
ImplementsTagUpdate ==
  [][phase' = "run" =>
       \/ \E mem \in ChangedRange, mark \in BOOLEAN :
            /\ carried' = IF mark THEN carried \cup mem ELSE carried \ mem
            /\ unrecorded' = unrecorded \cup mem
            /\ Status(memlist') = Status(memlist)
       \/ \E mem \in WrittenRange, stored \in BOOLEAN :
            /\ carried' = IF stored THEN carried \cup mem ELSE carried \ mem
            /\ unrecorded' = unrecorded \ mem
            /\ Status(memlist') = TagUpdate(Status(memlist), mem, stored)]_vars

(* A byte has at most one entry and at most one deletion, which follows it;*)
(* so a list never holds more than two nodes per byte.                     *)
OneEntryPerByte ==
  phase = "run" =>
    \A i, j \in DOMAIN memlist :
      i < j /\ memlist[i].memAddress = memlist[j].memAddress =>
        ~memlist[i].isCleared /\ memlist[j].isCleared

(* How far the list can be trusted.  The bytes listed and not deleted are  *)
(* those to which every store since the first with the mark had the mark,  *)
(* but for a byte whose entry one with the same low 32 bits stood in the   *)
(* way of.  So a listed byte carries the mark, unless something that       *)
(* leaves the lists alone changed its marks last; and a byte that carries  *)
(* it, put there by SetTaintForMemory, is missing only if it was once      *)
(* deleted, or for the low bits.                                           *)
ListingDelimited ==
  phase = "run" =>
    LET IsListed(a) == a \in Addresses(memlist) /\ Status(memlist)[a] = "listed"
        Blocked(a)  == \E b \in Addresses(memlist) \ {a} : low32[b] = low32[a]
    IN  \A a \in ADDRINT :
          /\ IsListed(a) => written[a] = "kept" /\ a \in carried \cup unrecorded
          /\ a \in carried \ unrecorded =>
               IsListed(a) \/ written[a] = "dropped" \/ Blocked(a)

Printed == Addresses(SubSeq(memlist, 1, Len(memlist) - 1))
Final   == SubSeq(atExit, 1, Len(atExit) - 1)

(* The dump omits no byte that is listed, provided the isCleared field of  *)
(* the uninitialised spare node happens to be zero; and of the deleted     *)
(* ones it prints none but the first the list ever held.                   *)
DumpIsAccurate ==
  phase = "printed" =>
    /\ ~Last(atExit).isCleared =>
         \A a \in Addresses(Final) : Status(Final)[a] = "listed" => a \in Printed
    /\ \A a \in Printed : Status(Final)[a] = "deleted" => a = Final[1].memAddress

(* dump_taints ends, whatever the spare node holds.                        *)
DumpEnds == phase = "dump" ~> phase = "printed"
=============================================================================
