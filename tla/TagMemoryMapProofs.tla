------------------------- MODULE TagMemoryMapProofs -------------------------
(***************************************************************************)
(* Theorems about TagMemoryMap, for any addresses and any ranges written.  *)
(*                                                                         *)
(* While the program runs, the list of a mark is well-formed: at most one  *)
(* entry for a byte, and then at most one deletion.  From there on the     *)
(* dump is followed through an embedding of what is left of the list in    *)
(* the list it began with.                                                 *)
(***************************************************************************)
EXTENDS TagMemoryMap, FiniteSetTheorems, NaturalsInduction, WellFoundedInduction,
        TLAPS

(* OneEntryPerByte and what DumpIsAccurate needs beside it, of any list.   *)
OneEach(list) ==
  \A i, j \in DOMAIN list :
    i < j /\ list[i].memAddress = list[j].memAddress =>
      ~list[i].isCleared /\ list[j].isCleared

Preceded(list) ==
  \A j \in DOMAIN list : list[j].isCleared =>
    \E i \in DOMAIN list : i < j /\ list[i] = Listed(list[j].memAddress)

HasCleared(list, a) == \E i \in DOMAIN list : list[i] = Cleared(a)

(* What the entries say of the stores w made so far; which bytes carry the *)
(* mark, c, those u aside that something else changed last.                *)
Recorded(list, w, c, u) ==
  /\ \A a \in Addresses(list) : w[a] = IF HasCleared(list, a) THEN "dropped" ELSE "kept"
  /\ \A a \in ADDRINT : w[a] # "never" => \E b \in Addresses(list) : low32[b] = low32[a]
  /\ \A a \in ADDRINT : w[a] = "kept" => a \in c \cup u
  /\ \A a \in c \ u : w[a] # "never"

RunInv ==
  phase = "run" =>
    /\ pre = 1
    /\ OneEach(memlist) /\ Preceded(memlist)
    /\ Recorded(memlist, written, carried, unrecorded)

(* list is what is left of old; kept tells where its nodes were.           *)
Embeds(kept, list, old) ==
  /\ kept \in [DOMAIN list -> DOMAIN old]
  /\ \A i, j \in DOMAIN list : i < j => kept[i] < kept[j]
  /\ \A i \in DOMAIN list : list[i] = old[kept[i]]
  /\ 1 \in DOMAIN list /\ kept[1] = 1

InFinal(p) == p \in DOMAIN atExit /\ p < Len(atExit)

(* A deletion leaves the list no earlier than the entry it is for, the     *)
(* first node excepted.                                                    *)
DeletionKept(kept) ==
  \A p, q \in DOMAIN atExit :
    /\ InFinal(p) /\ InFinal(q) /\ p > 1 /\ p \in Range(kept)
    /\ ~atExit[p].isCleared
    /\ atExit[q] = Cleared(atExit[p].memAddress)
    => q \in Range(kept)

(* With a spare node that reads as not cleared, neither that node nor an   *)
(* entry without a deletion ever leaves the list.                          *)
ListedKept(kept) ==
  ~atExit[Len(atExit)].isCleared =>
    /\ Len(atExit) \in Range(kept)
    /\ \A p \in DOMAIN atExit :
         InFinal(p) =>
           \/ p \in Range(kept)
           \/ \E q \in DOMAIN atExit :
                InFinal(q) /\ atExit[q] = Cleared(atExit[p].memAddress)

(* No deletion of a node the loop has passed is in the list.               *)
PassedStay ==
  \A i \in 2 .. pre, k \in DOMAIN memlist :
    ~(memlist[k].isCleared /\ memlist[k].memAddress = memlist[i].memAddress)

(* The list at exit, without the spare node, was well-formed.              *)
ExitInv ==
  /\ Len(atExit) >= 1
  /\ \A i, j \in DOMAIN atExit :
       InFinal(i) /\ InFinal(j) /\ i < j /\ atExit[i].memAddress = atExit[j].memAddress
         => ~atExit[i].isCleared /\ atExit[j].isCleared
  /\ \A j \in DOMAIN atExit : InFinal(j) /\ atExit[j].isCleared =>
       \E i \in DOMAIN atExit : i < j /\ atExit[i] = Listed(atExit[j].memAddress)

DumpInv ==
  phase # "run" =>
    /\ ExitInv
    /\ pre \in DOMAIN memlist
    /\ PassedStay
    /\ \E kept \in [DOMAIN memlist -> DOMAIN atExit] :
         Embeds(kept, memlist, atExit) /\ DeletionKept(kept) /\ ListedKept(kept)
    /\ phase = "printed" => pre = Len(memlist)

IInv == TypeOK /\ RunInv /\ DumpInv
-----------------------------------------------------------------------------
(* Arithmetic and sequences.  Every set of natural numbers has a least     *)
(* element.                                                                *)
LEMMA Least ==
  ASSUME NEW T \in SUBSET Nat, T # {}
  PROVE  \E x \in T : \A y \in T : x <= y
  <1>1. PICK x \in T : \A y \in T : ~(<<y, x>> \in OpToRel(<, Nat))
    BY NatLessThanWellFounded, WFMin
  <1>2. \A y \in T : ~(y < x)
    BY <1>1 DEF OpToRel
  <1> QED BY <1>2

Ordered(s, S) ==
  /\ s \in [1 .. Cardinality(S) -> S]
  /\ Range(s) = S
  /\ \A i, j \in DOMAIN s : i < j => s[i] < s[j]

(* A smallest set of numbers that could not be put in order would have a   *)
(* least element, and the others could be put in order and follow it.      *)
LEMMA OrderExists ==
  ASSUME NEW S0 \in SUBSET Nat, IsFiniteSet(S0)
  PROVE  \E s : Ordered(s, S0)
  <1> DEFINE Bad == {n \in Nat : \E S \in SUBSET Nat :
                       IsFiniteSet(S) /\ Cardinality(S) = n /\ ~\E s : Ordered(s, S)}
  <1>1. SUFFICES Bad = {}
    BY FS_CardinalityType
  <1>2. SUFFICES ASSUME Bad # {} PROVE FALSE
    OBVIOUS
  <1>3. PICK n \in Bad : \A k \in Bad : n <= k
    <2>1. Bad \in SUBSET Nat
      OBVIOUS
    <2> QED BY <1>2, <2>1, Least
  <1>4. PICK S \in SUBSET Nat :
          IsFiniteSet(S) /\ Cardinality(S) = n /\ ~\E s : Ordered(s, S)
    BY <1>3
  <1>5. S # {}
    <2>1. SUFFICES ASSUME S = {} PROVE FALSE
      OBVIOUS
    <2>2. Cardinality(S) = 0
      BY <2>1, FS_EmptySet
    <2>3. Ordered(<< >>, S)
      BY <2>1, <2>2 DEF Ordered, Range
    <2> QED BY <1>4, <2>3
  <1>6. PICK x \in S : \A y \in S : x <= y
    BY <1>5, Least
  <1>7. PICK T : T = S \ {x}
    OBVIOUS
  <1>8. IsFiniteSet(T) /\ Cardinality(T) = n - 1 /\ T \in SUBSET Nat /\ n - 1 \in Nat
    <2>1. IsFiniteSet(T) /\ Cardinality(T) = Cardinality(S) - 1
      BY <1>4, <1>6, <1>7, FS_RemoveElement
    <2>2. Cardinality(T) \in Nat
      BY <2>1, FS_CardinalityType
    <2> QED BY <1>4, <1>7, <2>1, <2>2
  <1>9. PICK t : Ordered(t, T)
    <2>1. n - 1 \notin Bad
      BY <1>3, <1>8
    <2> QED BY <1>8, <2>1
  <1>10. PICK s : s = [i \in 1 .. n |-> IF i = 1 THEN x ELSE t[i - 1]]
    OBVIOUS
  <1>11. t \in [1 .. n - 1 -> T] /\ Range(t) = T
         /\ \A i, j \in 1 .. n - 1 : i < j => t[i] < t[j]
    BY <1>8, <1>9 DEF Ordered
  <1>12. n \in Nat /\ n >= 1
    BY <1>3, <1>8
  <1>13. s \in [1 .. n -> S]
    BY <1>6, <1>7, <1>10, <1>11, <1>12
  <1>14. \A i, j \in 1 .. n : i < j => s[i] < s[j]
    <2> SUFFICES ASSUME NEW i \in 1 .. n, NEW j \in 1 .. n, i < j PROVE s[i] < s[j]
      OBVIOUS
    <2>1. j - 1 \in 1 .. n - 1 /\ s[j] = t[j - 1] /\ t[j - 1] \in T
      <3>1. j - 1 \in 1 .. n - 1 /\ j # 1
        BY <1>12
      <3> QED BY <1>10, <1>11, <3>1
    <2>2. CASE i = 1
      <3>1. s[i] = x
        BY <1>10, <1>12, <2>2
      <3>2. s[j] \in S /\ s[j] # x
        BY <1>7, <2>1
      <3>3. x <= s[j] /\ x \in Nat /\ s[j] \in Nat
        BY <1>4, <1>6, <3>2
      <3> QED BY <3>1, <3>2, <3>3
    <2>3. CASE i # 1
      <3>1. i - 1 \in 1 .. n - 1 /\ s[i] = t[i - 1] /\ i - 1 < j - 1
        BY <1>10, <1>12, <2>3
      <3> QED BY <1>11, <2>1, <3>1
    <2> QED BY <2>2, <2>3
  <1>15. Range(s) = S
    <2>1. \A y \in S : \E i \in 1 .. n : s[i] = y
      <3> SUFFICES ASSUME NEW y \in S PROVE \E i \in 1 .. n : s[i] = y
        OBVIOUS
      <3>1. CASE y = x
        BY <1>10, <1>12, <3>1
      <3>2. CASE y # x
        <4>1. PICK k \in 1 .. n - 1 : t[k] = y
          BY <1>7, <1>11, <3>2 DEF Range
        <4>2. k + 1 \in 1 .. n /\ k + 1 # 1 /\ (k + 1) - 1 = k
          BY <1>12
        <4>3. s[k + 1] = y
          BY <1>10, <4>1, <4>2
        <4> QED BY <4>2, <4>3
      <3> QED BY <3>1, <3>2
    <2> QED BY <1>13, <2>1 DEF Range
  <1>16. Ordered(s, S)
    BY <1>4, <1>13, <1>14, <1>15 DEF Ordered
  <1> QED BY <1>4, <1>16

(* The loop over a range visits each byte of it once.                      *)
LEMMA InOrderFacts ==
  ASSUME NEW S \in SUBSET Nat, IsFiniteSet(S)
  PROVE  /\ Cardinality(S) \in Nat
         /\ InOrder(S) \in [1 .. Cardinality(S) -> S]
         /\ Range(InOrder(S)) = S
         /\ \A i, j \in 1 .. Cardinality(S) : InOrder(S)[i] = InOrder(S)[j] => i = j
  <1>1. Cardinality(S) \in Nat
    BY FS_CardinalityType
  <1>2. \E s : Ordered(s, S)
    BY OrderExists
  <1>3. Ordered(InOrder(S), S)
    BY <1>2 DEF Ordered, InOrder
  <1>4. PICK s : s = InOrder(S)
    OBVIOUS
  <1>5. s \in [1 .. Cardinality(S) -> S]
        /\ \A i, j \in 1 .. Cardinality(S) : i < j => s[i] < s[j]
    BY <1>3, <1>4 DEF Ordered
  <1>6. \A i, j \in 1 .. Cardinality(S) : s[i] = s[j] => i = j
    <2> SUFFICES ASSUME NEW i \in 1 .. Cardinality(S), NEW j \in 1 .. Cardinality(S),
                        s[i] = s[j], i # j
                 PROVE  FALSE
      OBVIOUS
    <2>1. s[i] \in Nat /\ s[j] \in Nat
      BY <1>5
    <2>2. i < j \/ j < i
      BY <1>1
    <2> QED BY <1>5, <2>1, <2>2
  <1> QED BY <1>1, <1>3, <1>4, <1>6 DEF Ordered

(* An entry and a deletion, by their fields.                               *)
LEMMA EntryFacts ==
  /\ \A a \in ADDRINT : Listed(a) \in Entry /\ Cleared(a) \in Entry
  /\ \A a : Listed(a).memAddress = a /\ ~Listed(a).isCleared
  /\ \A a : Cleared(a).memAddress = a /\ Cleared(a).isCleared
  /\ \A e \in Entry : \A a :
       /\ e = Cleared(a) <=> e.memAddress = a /\ e.isCleared
       /\ e = Listed(a) <=> e.memAddress = a /\ ~e.isCleared
  BY DEF Entry, Listed, Cleared

(* The bytes that have a node.                                             *)
LEMMA AddressIn ==
  ASSUME NEW L, NEW a
  PROVE  a \in Addresses(L) <=> \E k \in DOMAIN L : L[k].memAddress = a
  BY DEF Addresses

(* The nodes of a list.                                                    *)
LEMMA ListFacts ==
  ASSUME NEW L \in Seq(Entry)
  PROVE  /\ DOMAIN L = 1 .. Len(L) /\ Len(L) \in Nat
         /\ \A k \in DOMAIN L : L[k] \in Entry /\ L[k].memAddress \in ADDRINT
  <1>1. \A k \in 1 .. Len(L) : L[k] \in Entry
    OBVIOUS
  <1>2. \A e \in Entry : e.memAddress \in ADDRINT
    BY DEF Entry
  <1> QED BY <1>1, <1>2

(* The list N is L with the entries e at its end.                          *)
Extends(N, L, n, e) ==
  /\ Len(N) = Len(L) + n
  /\ \A k \in DOMAIN L : k \in DOMAIN N /\ N[k] = L[k]
  /\ \A k \in 1 .. n : Len(L) + k \in DOMAIN N /\ N[Len(L) + k] = e[k]
  /\ \A k \in DOMAIN N :
       \/ k \in DOMAIN L /\ N[k] = L[k]
       \/ \E i \in 1 .. n : k = Len(L) + i /\ N[k] = e[i]

(* Concatenation, as Extends describes it.                                 *)
LEMMA Extension ==
  ASSUME NEW L \in Seq(Entry), NEW n \in Nat, NEW e \in [1 .. n -> Entry]
  PROVE  L \o e \in Seq(Entry) /\ Extends(L \o e, L, n, e)
  <1>1. e \in Seq(Entry) /\ Len(e) = n
    OBVIOUS
  <1>2. PICK f \in Seq(Entry) : f = e /\ Len(f) = n
    BY <1>1
  <1>3. /\ L \o f \in Seq(Entry)
        /\ Len(L \o f) = Len(L) + Len(f)
        /\ \A k \in 1 .. Len(L) + Len(f) :
             (L \o f)[k] = IF k <= Len(L) THEN L[k] ELSE f[k - Len(L)]
    OBVIOUS
  <1>4. PICK N \in Seq(Entry) : N = L \o f
    BY <1>3
  <1>5. /\ Len(N) = Len(L) + n
        /\ DOMAIN N = 1 .. Len(N) /\ DOMAIN L = 1 .. Len(L) /\ Len(L) \in Nat
        /\ \A k \in 1 .. Len(L) + n : N[k] = IF k <= Len(L) THEN L[k] ELSE e[k - Len(L)]
    BY <1>2, <1>3, <1>4, ListFacts
  <1>6. \A k \in DOMAIN L : k \in DOMAIN N /\ N[k] = L[k]
    BY <1>5
  <1>7. ASSUME NEW k \in 1 .. n
        PROVE  Len(L) + k \in DOMAIN N /\ N[Len(L) + k] = e[k]
    <2>1. Len(L) + k \in 1 .. Len(L) + n /\ ~(Len(L) + k <= Len(L))
          /\ (Len(L) + k) - Len(L) = k
      BY <1>5
    <2> QED BY <1>5, <2>1
  <1>8. ASSUME NEW k \in DOMAIN N, k \notin DOMAIN L
        PROVE  \E i \in 1 .. n : k = Len(L) + i /\ N[k] = e[i]
    <2>1. k - Len(L) \in 1 .. n /\ k = Len(L) + (k - Len(L)) /\ ~(k <= Len(L))
      BY <1>5, <1>8
    <2>2. N[k] = e[k - Len(L)]
      BY <1>5, <2>1
    <2> QED BY <2>1, <2>2
  <1>9. Extends(N, L, n, e)
    BY <1>5, <1>6, <1>7, <1>8 DEF Extends
  <1> QED BY <1>2, <1>4, <1>9

(* Entries for bytes that have none are added.                             *)
ListedAdded(N, L, S, n, s, e) ==
  /\ L \in Seq(Entry) /\ OneEach(L) /\ Preceded(L)
  /\ S \in SUBSET ADDRINT /\ S \cap Addresses(L) = {}
  /\ n \in Nat /\ s \in [1 .. n -> S] /\ Range(s) = S
  /\ \A i, j \in 1 .. n : s[i] = s[j] => i = j
  /\ e \in [1 .. n -> Entry] /\ \A i \in 1 .. n : e[i] = Listed(s[i])
  /\ N \in Seq(Entry) /\ Extends(N, L, n, e)

(* Listing bytes that have no node: each still has one entry at most, and  *)
(* no deletion is added.                                                   *)
LEMMA AddListed ==
  ASSUME NEW N, NEW L, NEW S, NEW n, NEW s, NEW e, ListedAdded(N, L, S, n, s, e)
  PROVE  /\ OneEach(N) /\ Preceded(N)
         /\ Addresses(N) = Addresses(L) \cup S
         /\ \A a : HasCleared(N, a) <=> HasCleared(L, a)
  <1> USE DEF ListedAdded
  <1>4. /\ N \in Seq(Entry) /\ Len(N) = Len(L) + n
        /\ \A k \in DOMAIN L : k \in DOMAIN N /\ N[k] = L[k]
        /\ \A k \in 1 .. n : Len(L) + k \in DOMAIN N /\ N[Len(L) + k] = e[k]
        /\ \A k \in DOMAIN N :
             \/ k \in DOMAIN L /\ N[k] = L[k]
             \/ \E i \in 1 .. n : k = Len(L) + i /\ N[k] = e[i]
    BY DEF Extends
  <1>5. \A i \in 1 .. n : e[i].memAddress = s[i] /\ ~e[i].isCleared /\ s[i] \in S
    BY EntryFacts
  <1>6. \A k \in DOMAIN L : L[k].memAddress \notin S
    BY DEF Addresses
  <1>7. DOMAIN L = 1 .. Len(L) /\ Len(L) \in Nat /\ DOMAIN N \subseteq Nat
    BY <1>4
  <1>8. OneEach(N)
    <2> SUFFICES ASSUME NEW i \in DOMAIN N, NEW j \in DOMAIN N, i < j,
                        N[i].memAddress = N[j].memAddress
                 PROVE  ~N[i].isCleared /\ N[j].isCleared
      BY DEF OneEach
    <2>1. CASE i \in DOMAIN L /\ j \in DOMAIN L
      BY <1>4, <2>1 DEF OneEach
    <2>2. CASE i \notin DOMAIN L
      <3>1. PICK x \in 1 .. n : i = Len(L) + x /\ N[i] = e[x]
        BY <1>4, <2>2
      <3>2. j \notin DOMAIN L
        BY <1>7, <3>1
      <3>3. PICK y \in 1 .. n : j = Len(L) + y /\ N[j] = e[y]
        BY <1>4, <3>2
      <3>4. s[x] = s[y]
        BY <1>5, <3>1, <3>3
      <3> QED BY <3>1, <3>3, <3>4, <1>7
    <2>3. CASE i \in DOMAIN L /\ j \notin DOMAIN L
      <3>1. PICK y \in 1 .. n : N[j] = e[y]
        BY <1>4, <2>3
      <3> QED BY <1>4, <1>5, <1>6, <2>3, <3>1
    <2> QED BY <2>1, <2>2, <2>3
  <1>9. Preceded(N)
    <2> SUFFICES ASSUME NEW j \in DOMAIN N, N[j].isCleared
                 PROVE  \E i \in DOMAIN N : i < j /\ N[i] = Listed(N[j].memAddress)
      BY DEF Preceded
    <2>1. j \in DOMAIN L /\ N[j] = L[j]
      BY <1>4, <1>5
    <2>2. PICK i \in DOMAIN L : i < j /\ L[i] = Listed(L[j].memAddress)
      BY <2>1 DEF Preceded
    <2> QED BY <1>4, <2>1, <2>2
  <1>10. Addresses(N) = Addresses(L) \cup S
    <2>1. ASSUME NEW k \in DOMAIN N PROVE N[k].memAddress \in Addresses(L) \cup S
      <3>1. CASE k \in DOMAIN L
        BY <1>4, <3>1 DEF Addresses
      <3>2. CASE k \notin DOMAIN L
        BY <1>4, <1>5, <3>2
      <3> QED BY <3>1, <3>2
    <2>2. ASSUME NEW k \in DOMAIN L PROVE L[k].memAddress \in Addresses(N)
      BY <1>4 DEF Addresses
    <2>3. ASSUME NEW a \in S PROVE a \in Addresses(N)
      <3>1. PICK k \in 1 .. n : s[k] = a
        BY DEF Range
      <3>2. Len(L) + k \in DOMAIN N /\ N[Len(L) + k].memAddress = a
        BY <1>4, <1>5, <3>1
      <3> QED BY <3>2 DEF Addresses
    <2>4. Addresses(N) \subseteq Addresses(L) \cup S
      BY <2>1 DEF Addresses
    <2>5. ASSUME NEW a \in Addresses(L) PROVE a \in Addresses(N)
      <3>1. PICK k \in DOMAIN L : a = L[k].memAddress
        BY DEF Addresses
      <3> QED BY <2>2, <3>1
    <2> QED BY <2>3, <2>4, <2>5
  <1>11. ASSUME NEW a PROVE HasCleared(N, a) <=> HasCleared(L, a)
    <2>1. \A i \in 1 .. n : e[i] # Cleared(a)
      BY <1>5, EntryFacts
    <2>2. HasCleared(L, a) => HasCleared(N, a)
      BY <1>4 DEF HasCleared
    <2>3. ASSUME NEW k \in DOMAIN N, N[k] = Cleared(a) PROVE HasCleared(L, a)
      <3>1. k \in DOMAIN L /\ N[k] = L[k]
        BY <1>4, <2>1, <2>3
      <3> QED BY <2>3, <3>1 DEF HasCleared
    <2> QED BY <2>2, <2>3 DEF HasCleared
  <1> QED BY <1>4, <1>8, <1>9, <1>10, <1>11

(* Deletions for entries of L that have none are added.                    *)
ClearedAdded(N, L, D, n, s, e) ==
  /\ L \in Seq(Entry) /\ OneEach(L) /\ Preceded(L)
  /\ D \in SUBSET DOMAIN L
  /\ \A i \in D : ~L[i].isCleared /\ ~HasCleared(L, L[i].memAddress)
  /\ n \in Nat /\ s \in [1 .. n -> D] /\ Range(s) = D
  /\ \A i, j \in 1 .. n : s[i] = s[j] => i = j
  /\ e \in [1 .. n -> Entry] /\ \A i \in 1 .. n : e[i] = Cleared(L[s[i]].memAddress)
  /\ N \in Seq(Entry) /\ Extends(N, L, n, e)

(* Deleting bytes that are listed: each deletion follows the entry it      *)
(* deletes, and no entry is added.                                         *)
LEMMA AddCleared ==
  ASSUME NEW N, NEW L, NEW D, NEW n, NEW s, NEW e, ClearedAdded(N, L, D, n, s, e)
  PROVE  /\ OneEach(N) /\ Preceded(N)
         /\ Addresses(N) = Addresses(L)
         /\ \A a : HasCleared(N, a) <=>
                     HasCleared(L, a) \/ \E i \in D : L[i].memAddress = a
  <1> USE DEF ClearedAdded
  <1>4. /\ N \in Seq(Entry) /\ Len(N) = Len(L) + n
        /\ \A k \in DOMAIN L : k \in DOMAIN N /\ N[k] = L[k]
        /\ \A k \in 1 .. n : Len(L) + k \in DOMAIN N /\ N[Len(L) + k] = e[k]
        /\ \A k \in DOMAIN N :
             \/ k \in DOMAIN L /\ N[k] = L[k]
             \/ \E i \in 1 .. n : k = Len(L) + i /\ N[k] = e[i]
    BY DEF Extends
  <1>5. \A i \in 1 .. n : /\ e[i].memAddress = L[s[i]].memAddress /\ e[i].isCleared
                          /\ s[i] \in DOMAIN L /\ s[i] \in D
    BY EntryFacts
  <1>6. \A i, j \in D : L[i].memAddress = L[j].memAddress => i = j
    <2> SUFFICES ASSUME NEW i \in D, NEW j \in D, L[i].memAddress = L[j].memAddress,
                        i # j
                 PROVE  FALSE
      OBVIOUS
    <2>1. i < j \/ j < i
      OBVIOUS
    <2> QED BY <2>1 DEF OneEach
  <1>7. DOMAIN L = 1 .. Len(L) /\ Len(L) \in Nat /\ DOMAIN N \subseteq Nat
    BY <1>4
  <1>8. OneEach(N)
    <2> SUFFICES ASSUME NEW i \in DOMAIN N, NEW j \in DOMAIN N, i < j,
                        N[i].memAddress = N[j].memAddress
                 PROVE  ~N[i].isCleared /\ N[j].isCleared
      BY DEF OneEach
    <2>1. CASE i \in DOMAIN L /\ j \in DOMAIN L
      BY <1>4, <2>1 DEF OneEach
    <2>2. CASE i \notin DOMAIN L
      <3>1. PICK x \in 1 .. n : i = Len(L) + x /\ N[i] = e[x]
        BY <1>4, <2>2
      <3>2. j \notin DOMAIN L
        BY <1>7, <3>1
      <3>3. PICK y \in 1 .. n : j = Len(L) + y /\ N[j] = e[y]
        BY <1>4, <3>2
      <3>4. s[x] = s[y]
        BY <1>5, <1>6, <3>1, <3>3
      <3> QED BY <3>1, <3>3, <3>4, <1>7
    <2>3. CASE i \in DOMAIN L /\ j \notin DOMAIN L
      <3>1. PICK y \in 1 .. n : N[j] = e[y]
        BY <1>4, <2>3
      <3>2. N[j].isCleared /\ L[i].memAddress = L[s[y]].memAddress /\ N[i] = L[i]
        BY <1>4, <1>5, <2>3, <3>1, SMTT(30)
      <3>3. ~HasCleared(L, L[i].memAddress)
        BY <1>5, <3>2
      <3>4. ~L[i].isCleared
        BY <2>3, <3>3, EntryFacts DEF HasCleared
      <3> QED BY <3>2, <3>4
    <2> QED BY <2>1, <2>2, <2>3
  <1>9. Preceded(N)
    <2> SUFFICES ASSUME NEW j \in DOMAIN N, N[j].isCleared
                 PROVE  \E i \in DOMAIN N : i < j /\ N[i] = Listed(N[j].memAddress)
      BY DEF Preceded
    <2>1. CASE j \in DOMAIN L
      <3>1. PICK i \in DOMAIN L : i < j /\ L[i] = Listed(L[j].memAddress)
        BY <1>4, <2>1 DEF Preceded
      <3> QED BY <1>4, <2>1, <3>1
    <2>2. CASE j \notin DOMAIN L
      <3>1. PICK y \in 1 .. n : j = Len(L) + y /\ N[j] = e[y]
        BY <1>4, <2>2
      <3>2. s[y] \in DOMAIN L /\ s[y] < j
        BY <1>5, <1>7, <3>1
      <3>3. L[s[y]] = Listed(L[s[y]].memAddress)
        <4>1. L[s[y]] \in Entry /\ ~L[s[y]].isCleared
          BY <1>5, ListFacts
        <4> QED BY <4>1, EntryFacts
      <3>4. s[y] \in DOMAIN N /\ N[s[y]] = L[s[y]]
        BY <1>4, <3>2
      <3>5. N[j].memAddress = L[s[y]].memAddress
        BY <1>5, <3>1
      <3> QED BY <3>2, <3>3, <3>4, <3>5
    <2> QED BY <2>1, <2>2
  <1>10. Addresses(N) = Addresses(L)
    <2>1. ASSUME NEW k \in DOMAIN N PROVE N[k].memAddress \in Addresses(L)
      <3>1. CASE k \in DOMAIN L
        BY <1>4, <3>1 DEF Addresses
      <3>2. CASE k \notin DOMAIN L
        <4>1. PICK i \in 1 .. n : N[k] = e[i]
          BY <1>4, <3>2
        <4>2. N[k].memAddress = L[s[i]].memAddress /\ s[i] \in DOMAIN L
          BY <1>5, <4>1
        <4> QED BY <4>2 DEF Addresses
      <3> QED BY <3>1, <3>2
    <2>2. ASSUME NEW k \in DOMAIN L PROVE L[k].memAddress \in Addresses(N)
      BY <1>4 DEF Addresses
    <2> QED BY <2>1, <2>2, SMTT(30) DEF Addresses
  <1>11. ASSUME NEW a
         PROVE  HasCleared(N, a) <=> HasCleared(L, a) \/ \E i \in D : L[i].memAddress = a
    <2>1. HasCleared(L, a) => HasCleared(N, a)
      BY <1>4 DEF HasCleared
    <2>2. ASSUME NEW i \in D, L[i].memAddress = a PROVE HasCleared(N, a)
      <3>1. PICK k \in 1 .. n : s[k] = i
        BY DEF Range
      <3>2. N[Len(L) + k] = Cleared(a) /\ Len(L) + k \in DOMAIN N
        BY <1>4, <2>2, <3>1
      <3> QED BY <3>2 DEF HasCleared
    <2>3. ASSUME HasCleared(N, a), ~HasCleared(L, a)
          PROVE  \E i \in D : L[i].memAddress = a
      <3>1. PICK k \in DOMAIN N : N[k] = Cleared(a)
        BY <2>3 DEF HasCleared
      <3>2. k \notin DOMAIN L
        BY <1>4, <2>3, <3>1 DEF HasCleared
      <3>3. PICK y \in 1 .. n : N[k] = e[y]
        BY <1>4, <3>2
      <3>4. e[y] = Cleared(a)
        BY <3>1, <3>3
      <3>5. e[y].memAddress = a
        BY <3>4 DEF Cleared
      <3> QED BY <1>5, <3>5
    <2> QED BY <2>1, <2>2, <2>3
  <1> QED BY <1>4, <1>8, <1>9, <1>10, <1>11

(* The search of the later entries of a byte tells whether it is deleted.  *)
LEMMA TwinIsDeletion ==
  ASSUME memlist \in Seq(Entry), OneEach(memlist),
         NEW i \in DOMAIN memlist, ~memlist[i].isCleared
  PROVE  HasTwin(i) <=> HasCleared(memlist, memlist[i].memAddress)
  <1>1. PICK later : later = {j \in i + 1 .. Len(memlist) :
                                memlist[j].memAddress = memlist[i].memAddress}
    OBVIOUS
  <1>2. HasTwin(i) <=> later # {} /\ memlist[Max(later)].isCleared
    BY <1>1 DEF HasTwin
  <1>3. DOMAIN memlist = 1 .. Len(memlist) /\ Len(memlist) \in Nat
        /\ \A k \in DOMAIN memlist : memlist[k] \in Entry
    BY ListFacts
  <1>4. ASSUME NEW j \in later
        PROVE  j \in DOMAIN memlist /\ i < j /\ memlist[j].isCleared
               /\ memlist[j].memAddress = memlist[i].memAddress
    BY <1>1, <1>3, <1>4 DEF OneEach
  <1>5. ASSUME NEW j \in later PROVE later = {j}
    <2>1. ASSUME NEW k \in later, k # j PROVE FALSE
      <3>1. j < k \/ k < j
        BY <1>3, <1>4, <1>5, <2>1
      <3> QED BY <1>4, <1>5, <2>1, <3>1 DEF OneEach
    <2> QED BY <1>5, <2>1
  <1>6. ASSUME NEW j \in later PROVE Max(later) = j
    <2>1. j \in Int
      BY <1>3, <1>4, <1>6
    <2> QED BY <1>5, <1>6, <2>1 DEF Max
  <1>7. HasTwin(i) <=> later # {}
    BY <1>2, <1>4, <1>6
  <1>8. ASSUME NEW j \in later PROVE HasCleared(memlist, memlist[i].memAddress)
    <2>1. memlist[j] = Cleared(memlist[i].memAddress)
      BY <1>3, <1>4, <1>8, EntryFacts
    <2> QED BY <1>4, <1>8, <2>1 DEF HasCleared
  <1>9. ASSUME HasCleared(memlist, memlist[i].memAddress) PROVE later # {}
    <2>1. PICK j \in DOMAIN memlist : memlist[j] = Cleared(memlist[i].memAddress)
      BY <1>9 DEF HasCleared
    <2>2. memlist[j].isCleared /\ memlist[j].memAddress = memlist[i].memAddress
      BY <2>1 DEF Cleared
    <2>3. i < j
      <3>1. i # j
        BY <2>2
      <3>2. ~(j < i)
        BY <2>2 DEF OneEach
      <3> QED BY <1>3, <3>1, <3>2
    <2> QED BY <1>1, <1>3, <2>2, <2>3
  <1> QED BY <1>7, <1>8, <1>9

(* A mark is stored to mem: bytes not flagged get an entry.                *)
LEMMA StoreMarkList ==
  ASSUME IInv, NEW mem \in WrittenRange, StoreMark(mem)
  PROVE  /\ memlist' \in Seq(Entry) /\ OneEach(memlist') /\ Preceded(memlist')
         /\ Addresses(memlist') = Addresses(memlist) \cup AddressesToAdd(mem)
         /\ \A a : HasCleared(memlist', a) <=> HasCleared(memlist, a)
  <1>1. /\ phase = "run" /\ memlist \in Seq(Entry)
        /\ OneEach(memlist) /\ Preceded(memlist)
    BY DEF StoreMark, IInv, TypeOK, RunInv
  <1>2. PICK S : S = AddressesToAdd(mem)
    OBVIOUS
  <1>3. /\ S \in SUBSET ADDRINT /\ S \in SUBSET Nat /\ S \in SUBSET mem
        /\ S \cap Addresses(memlist) = {}
    BY <1>2, AddressAssumption DEF AddressesToAdd
  <1>4. IsFiniteSet(S)
    <2>1. IsFiniteSet(mem)
      BY AddressAssumption
    <2> QED BY <1>3, <2>1, FS_Subset
  <1>5. PICK n : n = Cardinality(S)
    OBVIOUS
  <1>6. PICK s : s = InOrder(S)
    OBVIOUS
  <1>7. /\ n \in Nat /\ s \in [1 .. n -> S] /\ Range(s) = S
        /\ \A i, j \in 1 .. n : s[i] = s[j] => i = j
    BY <1>3, <1>4, <1>5, <1>6, InOrderFacts
  <1>8. PICK e : e = [i \in 1 .. n |-> Listed(s[i])]
    OBVIOUS
  <1>9. e \in [1 .. n -> Entry] /\ \A i \in 1 .. n : e[i] = Listed(s[i])
    BY <1>3, <1>7, <1>8, EntryFacts
  <1>10. memlist' = memlist \o e
    <2>1. memlist' = memlist \o [i \in DOMAIN s |-> Listed(s[i])]
      BY <1>2, <1>6 DEF StoreMark
    <2>2. DOMAIN s = 1 .. n
      BY <1>7
    <2> QED BY <1>8, <2>1, <2>2
  <1>11. memlist' \in Seq(Entry) /\ Extends(memlist', memlist, n, e)
    BY <1>1, <1>7, <1>9, <1>10, Extension
  <1>12. PICK L \in Seq(Entry) : L = memlist
    BY <1>1
  <1>13. PICK N \in Seq(Entry) : N = memlist'
    BY <1>11
  <1>14. OneEach(L) /\ Preceded(L) /\ S \cap Addresses(L) = {} /\ Extends(N, L, n, e)
    BY <1>1, <1>3, <1>11, <1>12, <1>13
  <1>15. /\ OneEach(N) /\ Preceded(N) /\ Addresses(N) = Addresses(L) \cup S
         /\ \A a : HasCleared(N, a) <=> HasCleared(L, a)
    <2>1. ListedAdded(N, L, S, n, s, e)
      BY <1>3, <1>7, <1>9, <1>14 DEF ListedAdded
    <2> QED BY <2>1, AddListed
  <1> QED BY <1>2, <1>12, <1>13, <1>15

(* Something without the mark is stored to mem: the bytes that are listed  *)
(* get a deletion.                                                         *)
LEMMA StoreOtherList ==
  ASSUME IInv, NEW mem \in WrittenRange, StoreOther(mem)
  PROVE  /\ memlist' \in Seq(Entry) /\ OneEach(memlist') /\ Preceded(memlist')
         /\ Addresses(memlist') = Addresses(memlist)
         /\ \A a : HasCleared(memlist', a) <=>
                     HasCleared(memlist, a) \/ a \in mem \cap Addresses(memlist)
  <1>1. /\ phase = "run" /\ memlist \in Seq(Entry)
        /\ OneEach(memlist) /\ Preceded(memlist)
    BY DEF StoreOther, IInv, TypeOK, RunInv
  <1>2. PICK D : D = ToDelete(mem)
    OBVIOUS
  <1>3. DOMAIN memlist = 1 .. Len(memlist) /\ Len(memlist) \in Nat
        /\ \A k \in DOMAIN memlist :
             memlist[k] \in Entry /\ memlist[k].memAddress \in ADDRINT
    BY <1>1, ListFacts
  <1>4. D \in SUBSET DOMAIN memlist
    BY <1>2 DEF ToDelete
  <1>5. \A i \in DOMAIN memlist :
          i \in D <=> memlist[i].memAddress \in mem /\ ~memlist[i].isCleared
                        /\ ~HasCleared(memlist, memlist[i].memAddress)
    BY <1>1, <1>2, TwinIsDeletion DEF ToDelete
  <1>6. IsFiniteSet(D) /\ D \in SUBSET Nat
    <2>1. IsFiniteSet(1 .. Len(memlist))
      BY <1>3, FS_Interval
    <2> QED BY <1>3, <1>4, <2>1, FS_Subset
  <1>7. PICK n : n = Cardinality(D)
    OBVIOUS
  <1>8. PICK s : s = InOrder(D)
    OBVIOUS
  <1>9. /\ n \in Nat /\ s \in [1 .. n -> D] /\ Range(s) = D
        /\ \A i, j \in 1 .. n : s[i] = s[j] => i = j
    BY <1>6, <1>7, <1>8, InOrderFacts
  <1>10. PICK e : e = [i \in 1 .. n |-> Cleared(memlist[s[i]].memAddress)]
    OBVIOUS
  <1>11. /\ e \in [1 .. n -> Entry]
         /\ \A i \in 1 .. n : e[i] = Cleared(memlist[s[i]].memAddress)
    <2>1. \A i \in 1 .. n : memlist[s[i]].memAddress \in ADDRINT
      BY <1>3, <1>4, <1>9
    <2> QED BY <1>10, <2>1, EntryFacts
  <1>12. memlist' = memlist \o e
    <2>1. memlist' = memlist \o [i \in DOMAIN s |-> Cleared(memlist[s[i]].memAddress)]
      BY <1>2, <1>8 DEF StoreOther
    <2>2. DOMAIN s = 1 .. n
      BY <1>9
    <2> QED BY <1>10, <2>1, <2>2
  <1>13. memlist' \in Seq(Entry) /\ Extends(memlist', memlist, n, e)
    BY <1>1, <1>9, <1>11, <1>12, Extension
  <1>14. /\ OneEach(memlist') /\ Preceded(memlist')
         /\ Addresses(memlist') = Addresses(memlist)
         /\ \A a : HasCleared(memlist', a) <=>
              HasCleared(memlist, a) \/ \E i \in D : memlist[i].memAddress = a
    <2>1. PICK L \in Seq(Entry) : L = memlist
      BY <1>1
    <2>2. PICK N \in Seq(Entry) : N = memlist'
      BY <1>13
    <2>3. /\ OneEach(L) /\ Preceded(L) /\ D \in SUBSET DOMAIN L /\ Extends(N, L, n, e)
          /\ \A i \in D : ~L[i].isCleared /\ ~HasCleared(L, L[i].memAddress)
          /\ \A i \in 1 .. n : e[i] = Cleared(L[s[i]].memAddress)
      BY <1>1, <1>4, <1>5, <1>11, <1>13, <2>1, <2>2
    <2>4. ClearedAdded(N, L, D, n, s, e)
      BY <1>9, <1>11, <2>3 DEF ClearedAdded
    <2>5. /\ OneEach(N) /\ Preceded(N) /\ Addresses(N) = Addresses(L)
          /\ \A a : HasCleared(N, a) <=>
               HasCleared(L, a) \/ \E i \in D : L[i].memAddress = a
      BY <2>4, AddCleared
    <2> QED BY <2>1, <2>2, <2>5
  <1>15. ASSUME NEW a, ~HasCleared(memlist, a)
         PROVE  (\E i \in D : memlist[i].memAddress = a)
                  <=> a \in mem \cap Addresses(memlist)
    <2>1. \A i \in DOMAIN memlist : memlist[i].memAddress = a => ~memlist[i].isCleared
      <3> SUFFICES ASSUME NEW i \in DOMAIN memlist, memlist[i].memAddress = a,
                          memlist[i].isCleared
                   PROVE  FALSE
        OBVIOUS
      <3>1. memlist[i] = Cleared(a)
        BY <1>3, EntryFacts
      <3> QED BY <1>15, <3>1 DEF HasCleared
    <2>2. \A i \in DOMAIN memlist :
            memlist[i].memAddress = a => (i \in D <=> a \in mem)
      BY <1>5, <1>15, <2>1
    <2>3. a \in Addresses(memlist) <=> \E i \in DOMAIN memlist : memlist[i].memAddress = a
      BY AddressIn
    <2> QED BY <1>4, <2>2, <2>3
  <1> QED BY <1>13, <1>14, <1>15

(* The abstract status of a byte, by the nodes it has.                     *)
LEMMA StatusOf ==
  ASSUME NEW L
  PROVE  Status(L) = [a \in Addresses(L) |->
                        IF HasCleared(L, a) THEN "deleted" ELSE "listed"]
  BY DEF Status, HasCleared

(* The two ways the list changes while the program runs.                   *)
LEMMA MarkStep ==
  ASSUME IInv, NEW mem \in WrittenRange, StoreMark(mem)
  PROVE  /\ IInv'
         /\ Status(memlist') = TagUpdate(Status(memlist), mem, TRUE)
  <1>1. /\ phase = "run" /\ phase' = "run" /\ carried' = carried \cup mem
        /\ unrecorded' = unrecorded \ mem
        /\ written' = [a \in ADDRINT |->
                         IF a \in mem /\ written[a] = "never" THEN "kept" ELSE written[a]]
        /\ UNCHANGED <<pre, atExit>>
    BY DEF StoreMark
  <1>2. PICK S : S = AddressesToAdd(mem)
    OBVIOUS
  <1>3. PICK L : L = memlist
    OBVIOUS
  <1>4. PICK N : N = memlist'
    OBVIOUS
  <1>5. /\ N \in Seq(Entry) /\ OneEach(N) /\ Preceded(N)
        /\ Addresses(N) = Addresses(L) \cup S
        /\ \A a : HasCleared(N, a) <=> HasCleared(L, a)
    BY <1>2, <1>3, <1>4, StoreMarkList
  <1>6. S = {a \in mem : \A b \in Addresses(L) : low32[b] # low32[a]}
    BY <1>2, <1>3 DEF AddressesToAdd
  <1>7. /\ Recorded(L, written, carried, unrecorded)
        /\ carried \subseteq ADDRINT /\ unrecorded \subseteq ADDRINT /\ mem \subseteq ADDRINT
        /\ L \in Seq(Entry) /\ written \in [ADDRINT -> {"never", "kept", "dropped"}]
    BY <1>1, <1>3, AddressAssumption DEF IInv, RunInv, TypeOK
  <1>8. Recorded(N, written', carried', unrecorded')
    <2>1. PICK w : w = written'
      OBVIOUS
    <2>2. \A a \in ADDRINT :
            w[a] = IF a \in mem /\ written[a] = "never" THEN "kept" ELSE written[a]
      BY <1>1, <2>1
    <2>3. Addresses(L) \subseteq ADDRINT
      BY <1>7, ListFacts DEF Addresses
    <2>4. ASSUME NEW a \in Addresses(N)
          PROVE  w[a] = IF HasCleared(N, a) THEN "dropped" ELSE "kept"
      <3>1. CASE a \in Addresses(L)
        <4>1. written[a] = IF HasCleared(L, a) THEN "dropped" ELSE "kept"
          BY <1>7, <3>1 DEF Recorded
        <4> QED BY <1>5, <2>2, <2>3, <3>1, <4>1
      <3>2. CASE a \notin Addresses(L)
        <4>1. a \in mem /\ a \in ADDRINT /\ \A b \in Addresses(L) : low32[b] # low32[a]
          BY <1>5, <1>6, <1>7, <3>2
        <4>2. written[a] = "never"
          BY <1>7, <4>1 DEF Recorded
        <4>3. ~HasCleared(L, a)
          BY <3>2, AddressIn, EntryFacts DEF HasCleared
        <4> QED BY <1>5, <2>2, <4>1, <4>2, <4>3
      <3> QED BY <3>1, <3>2
    <2>5. ASSUME NEW a \in ADDRINT, w[a] # "never"
          PROVE  \E b \in Addresses(N) : low32[b] = low32[a]
      <3>1. CASE a \in mem
        BY <1>5, <1>6, <3>1
      <3>2. CASE a \notin mem
        <4>1. written[a] # "never"
          BY <2>2, <2>5, <3>2
        <4> QED BY <1>5, <1>7, <4>1 DEF Recorded
      <3> QED BY <3>1, <3>2
    <2>6. \A a \in ADDRINT : w[a] = "kept" => a \in carried' \cup unrecorded'
      BY <1>1, <1>7, <2>2 DEF Recorded
    <2>7. \A a \in carried' \ unrecorded' : w[a] # "never"
      BY <1>1, <1>7, <2>2 DEF Recorded
    <2> QED BY <2>1, <2>4, <2>5, <2>6, <2>7 DEF Recorded
  <1>9. TypeOK'
    BY <1>1, <1>4, <1>5, <1>7 DEF IInv, TypeOK
  <1>10. RunInv'
    BY <1>1, <1>4, <1>5, <1>8 DEF IInv, RunInv
  <1>11. DumpInv'
    BY <1>1 DEF DumpInv
  <1>12. Status(N) = TagUpdate(Status(L), mem, TRUE)
    <2>1. DOMAIN Status(L) = Addresses(L)
      BY StatusOf
    <2>2. mem \ Flagged(Status(L), mem) = S
      BY <1>6, <2>1 DEF Flagged
    <2>3. TagUpdate(Status(L), mem, TRUE) =
            [k \in Addresses(L) \cup S |-> IF k \in S THEN "listed" ELSE Status(L)[k]]
      BY <2>1, <2>2 DEF TagUpdate, Put
    <2>4. \A a \in S : ~HasCleared(N, a)
      <3> SUFFICES ASSUME NEW a \in S, HasCleared(L, a) PROVE FALSE
        BY <1>5
      <3>1. PICK i \in DOMAIN L : L[i] = Cleared(a)
        BY DEF HasCleared
      <3>2. L[i].memAddress = a
        BY <3>1 DEF Cleared
      <3>3. a \in Addresses(L)
        BY <3>2, AddressIn
      <3> QED BY <1>6, <3>3
    <2>5. \A k \in Addresses(L) \cup S :
            (IF HasCleared(N, k) THEN "deleted" ELSE "listed")
              = IF k \in S THEN "listed" ELSE Status(L)[k]
      BY <1>5, <2>4, StatusOf
    <2>6. Status(N) = [k \in Addresses(L) \cup S |->
                         IF HasCleared(N, k) THEN "deleted" ELSE "listed"]
      BY <1>5, StatusOf
    <2> QED BY <2>3, <2>5, <2>6
  <1> QED BY <1>3, <1>4, <1>9, <1>10, <1>11, <1>12 DEF IInv

(* A store without the mark preserves the invariant and is a step of the   *)
(* abstract map.                                                           *)
LEMMA OtherStep ==
  ASSUME IInv, NEW mem \in WrittenRange, StoreOther(mem)
  PROVE  /\ IInv'
         /\ Status(memlist') = TagUpdate(Status(memlist), mem, FALSE)
  <1>1. /\ phase = "run" /\ phase' = "run" /\ carried' = carried \ mem
        /\ unrecorded' = unrecorded \ mem
        /\ written' = [a \in ADDRINT |->
                         IF a \in mem /\ written[a] = "kept" THEN "dropped" ELSE written[a]]
        /\ UNCHANGED <<pre, atExit>>
    BY DEF StoreOther
  <1>2. PICK L : L = memlist
    OBVIOUS
  <1>3. PICK N : N = memlist'
    OBVIOUS
  <1>4. /\ N \in Seq(Entry) /\ OneEach(N) /\ Preceded(N)
        /\ Addresses(N) = Addresses(L)
        /\ \A a : HasCleared(N, a) <=> HasCleared(L, a) \/ a \in mem \cap Addresses(L)
    BY <1>2, <1>3, StoreOtherList
  <1>5. /\ Recorded(L, written, carried, unrecorded)
        /\ carried \subseteq ADDRINT /\ unrecorded \subseteq ADDRINT
        /\ L \in Seq(Entry) /\ written \in [ADDRINT -> {"never", "kept", "dropped"}]
    BY <1>1, <1>2 DEF IInv, RunInv, TypeOK
  <1>6. Recorded(N, written', carried', unrecorded')
    <2>1. PICK w : w = written'
      OBVIOUS
    <2>2. \A a \in ADDRINT :
            w[a] = IF a \in mem /\ written[a] = "kept" THEN "dropped" ELSE written[a]
      BY <1>1, <2>1
    <2>3. Addresses(L) \subseteq ADDRINT
      BY <1>5, ListFacts DEF Addresses
    <2>4. ASSUME NEW a \in Addresses(N)
          PROVE  w[a] = IF HasCleared(N, a) THEN "dropped" ELSE "kept"
      <3>1. /\ written[a] = IF HasCleared(L, a) THEN "dropped" ELSE "kept"
            /\ a \in Addresses(L) /\ a \in ADDRINT
        BY <1>4, <1>5, <2>3 DEF Recorded
      <3>2. HasCleared(N, a) <=> HasCleared(L, a) \/ a \in mem
        BY <1>4, <3>1
      <3> QED BY <2>2, <3>1, <3>2
    <2>5. ASSUME NEW a \in ADDRINT, w[a] # "never"
          PROVE  \E b \in Addresses(N) : low32[b] = low32[a]
      <3>1. written[a] # "never"
        BY <2>2, <2>5
      <3> QED BY <1>4, <1>5, <3>1 DEF Recorded
    <2>6. \A a \in ADDRINT : w[a] = "kept" => a \in carried' \cup unrecorded'
      BY <1>1, <1>5, <2>2 DEF Recorded
    <2>7. \A a \in carried' \ unrecorded' : w[a] # "never"
      BY <1>1, <1>5, <2>2 DEF Recorded
    <2> QED BY <2>1, <2>4, <2>5, <2>6, <2>7 DEF Recorded
  <1>7. TypeOK'
    BY <1>1, <1>3, <1>4, <1>5 DEF IInv, TypeOK
  <1>8. RunInv'
    BY <1>1, <1>3, <1>4, <1>6 DEF IInv, RunInv
  <1>9. DumpInv'
    BY <1>1 DEF DumpInv
  <1>10. Status(N) = TagUpdate(Status(L), mem, FALSE)
    <2>1. PICK D : D = mem \cap Addresses(L)
      OBVIOUS
    <2>2. DOMAIN Status(L) = Addresses(L)
      BY StatusOf
    <2>3. TagUpdate(Status(L), mem, FALSE) =
            [k \in Addresses(L) |-> IF k \in D THEN "deleted" ELSE Status(L)[k]]
      BY <2>1, <2>2 DEF TagUpdate, Put
    <2>4. \A k \in Addresses(L) :
            (IF HasCleared(N, k) THEN "deleted" ELSE "listed")
              = IF k \in D THEN "deleted" ELSE Status(L)[k]
      BY <1>4, <2>1, StatusOf
    <2>5. Status(N) = [k \in Addresses(L) |->
                         IF HasCleared(N, k) THEN "deleted" ELSE "listed"]
      BY <1>4, StatusOf
    <2> QED BY <2>3, <2>4, <2>5
  <1> QED BY <1>2, <1>3, <1>7, <1>8, <1>9, <1>10 DEF IInv

(* Marks change in another way: the list and what it says of the stores    *)
(* stay, and the bytes are set apart.                                      *)
LEMMA ChangeStep ==
  ASSUME IInv, NEW mem \in ChangedRange, NEW mark \in BOOLEAN, ChangeMarks(mem, mark)
  PROVE  IInv'
  <1>1. /\ phase = "run" /\ unrecorded' = unrecorded \cup mem
        /\ carried' = carried \cup mem \/ carried' = carried \ mem
        /\ UNCHANGED <<phase, memlist, pre, written, atExit>>
    BY DEF ChangeMarks
  <1>2. mem \subseteq ADDRINT
    BY AddressAssumption
  <1>3. TypeOK'
    BY <1>1, <1>2 DEF IInv, TypeOK
  <1>4. Recorded(memlist, written, carried', unrecorded')
    <2>1. Recorded(memlist, written, carried, unrecorded)
      BY <1>1 DEF IInv, RunInv
    <2>2. carried \cup unrecorded \subseteq carried' \cup unrecorded'
      BY <1>1
    <2>3. carried' \ unrecorded' \subseteq carried \ unrecorded
      BY <1>1
    <2> QED BY <2>1, <2>2, <2>3 DEF Recorded
  <1>5. RunInv'
    BY <1>1, <1>4 DEF IInv, RunInv
  <1> QED BY <1>1, <1>3, <1>5 DEF IInv, DumpInv
-----------------------------------------------------------------------------
(* The dump begins: everything is there, and nothing has been passed.      *)
LEMMA BeginStep ==
  ASSUME IInv, NEW spare \in Entry, BeginDump(spare)
  PROVE  IInv'
  <1>1. /\ phase = "run" /\ phase' = "dump" /\ atExit' = memlist'
        /\ memlist' = Append(memlist, spare) /\ UNCHANGED <<pre, carried>>
        /\ unrecorded' = {} /\ written' = [a \in ADDRINT |-> "never"]
    BY DEF BeginDump
  <1>2. PICK L \in Seq(Entry) : L = memlist
    BY DEF IInv, TypeOK
  <1>3. PICK n \in Nat : n = Len(L)
    OBVIOUS
  <1>4. PICK N \in Seq(Entry) : N = memlist' /\ Len(N) = n + 1
    <2>1. Append(L, spare) \in Seq(Entry) /\ Len(Append(L, spare)) = Len(L) + 1
      OBVIOUS
    <2> QED BY <1>1, <1>2, <1>3, <2>1
  <1>5. /\ DOMAIN L = 1 .. n /\ DOMAIN N = 1 .. n + 1
        /\ \A i \in 1 .. n : N[i] = L[i]
    <2>1. \A i \in 1 .. Len(L) : Append(L, spare)[i] = L[i]
      OBVIOUS
    <2>2. N = Append(L, spare)
      BY <1>1, <1>2, <1>4
    <2> QED BY <1>3, <1>4, <2>1, <2>2, ListFacts
  <1>6. OneEach(L) /\ Preceded(L) /\ pre = 1 /\ pre' = 1
    BY <1>1, <1>2 DEF IInv, RunInv
  <1>7. ExitInv'
    <2>1. Len(N) >= 1
      BY <1>4
    <2>2. ASSUME NEW i \in DOMAIN N, NEW j \in DOMAIN N, i < Len(N), j < Len(N), i < j,
                 N[i].memAddress = N[j].memAddress
          PROVE  ~N[i].isCleared /\ N[j].isCleared
      <3>1. i \in DOMAIN L /\ j \in DOMAIN L /\ N[i] = L[i] /\ N[j] = L[j]
        BY <1>4, <1>5, <2>2
      <3> QED BY <1>6, <2>2, <3>1 DEF OneEach
    <2>3. ASSUME NEW j \in DOMAIN N, j < Len(N), N[j].isCleared
          PROVE  \E i \in DOMAIN N : i < j /\ N[i] = Listed(N[j].memAddress)
      <3>1. j \in DOMAIN L /\ N[j] = L[j]
        BY <1>4, <1>5, <2>3
      <3>2. PICK i \in DOMAIN L : i < j /\ L[i] = Listed(L[j].memAddress)
        BY <1>6, <2>3, <3>1 DEF Preceded
      <3> QED BY <1>5, <3>1, <3>2
    <2> QED BY <1>1, <1>4, <2>1, <2>2, <2>3 DEF ExitInv, InFinal
  <1>8. PICK kept : kept = [i \in 1 .. n + 1 |-> i]
    OBVIOUS
  <1>9. /\ kept \in [DOMAIN N -> DOMAIN N] /\ Range(kept) = DOMAIN N
        /\ \A i \in 1 .. n + 1 : kept[i] = i
    BY <1>5, <1>8 DEF Range
  <1>10. Embeds(kept, N, N)
    BY <1>5, <1>9 DEF Embeds
  <1>11. DeletionKept(kept)'
    BY <1>1, <1>4, <1>9 DEF DeletionKept, InFinal
  <1>12. ListedKept(kept)'
    <2>1. Len(N) \in DOMAIN N
      BY <1>4, <1>5
    <2> QED BY <1>1, <1>4, <1>9, <2>1 DEF ListedKept, InFinal
  <1>13. PassedStay'
    BY <1>6 DEF PassedStay
  <1>14. pre' \in DOMAIN memlist'
    BY <1>4, <1>5, <1>6
  <1>15. DumpInv'
    BY <1>1, <1>4, <1>7, <1>9, <1>10, <1>11, <1>12, <1>13, <1>14 DEF DumpInv
  <1>16. RunInv'
    BY <1>1 DEF RunInv
  <1>17. TypeOK'
    BY <1>1, <1>4, <1>14 DEF IInv, TypeOK
  <1> QED BY <1>15, <1>16, <1>17 DEF IInv

(* What a dump step may rely on.                                           *)
LEMMA DumpFacts ==
  ASSUME IInv, phase = "dump"
  PROVE  /\ memlist \in Seq(Entry) /\ atExit \in Seq(Entry)
         /\ DOMAIN memlist = 1 .. Len(memlist) /\ Len(memlist) \in Nat
         /\ DOMAIN atExit = 1 .. Len(atExit) /\ Len(atExit) \in Nat
         /\ \A k \in DOMAIN memlist : memlist[k] \in Entry
         /\ \A k \in DOMAIN atExit : atExit[k] \in Entry
         /\ ExitInv /\ PassedStay /\ pre \in DOMAIN memlist
         /\ carried \subseteq ADDRINT
         /\ \E kept \in [DOMAIN memlist -> DOMAIN atExit] :
              Embeds(kept, memlist, atExit) /\ DeletionKept(kept) /\ ListedKept(kept)
  BY ListFacts DEF IInv, TypeOK, DumpInv

(* The first node of a list of two or more is an entry.                    *)
LEMMA FirstIsListed ==
  ASSUME IInv, phase = "dump", pre < Len(memlist)
  PROVE  ~memlist[1].isCleared
  <1>1. PICK kept \in [DOMAIN memlist -> DOMAIN atExit] : Embeds(kept, memlist, atExit)
    BY DumpFacts
  <1>2. /\ 1 \in DOMAIN memlist /\ 2 \in DOMAIN memlist
        /\ DOMAIN atExit = 1 .. Len(atExit) /\ Len(atExit) \in Nat
    BY DumpFacts
  <1>3. kept[1] = 1 /\ kept[1] < kept[2] /\ memlist[1] = atExit[1]
        /\ kept[2] \in DOMAIN atExit
    BY <1>1, <1>2 DEF Embeds
  <1>4. InFinal(1)
    BY <1>2, <1>3 DEF InFinal
  <1>5. \A i \in DOMAIN atExit : ~(i < 1)
    BY <1>2
  <1>6. ExitInv
    BY DumpFacts
  <1> QED BY <1>3, <1>4, <1>5, <1>6 DEF ExitInv, InFinal

(* dump_taints passes a node: what it has passed stays.                    *)
LEMMA KeepStep ==
  ASSUME IInv, KeepCurrent
  PROVE  IInv'
  <1>1. /\ phase = "dump" /\ phase' = "dump" /\ pre < Len(memlist) /\ pre' = pre + 1
        /\ memlist[pre].isCleared \/ Matches = {}
        /\ UNCHANGED <<memlist, carried, written, unrecorded, atExit>>
    BY DEF KeepCurrent, marks
  <1>2. /\ DOMAIN memlist = 1 .. Len(memlist) /\ Len(memlist) \in Nat
        /\ PassedStay /\ pre \in 1 .. Len(memlist)
    BY <1>1, DumpFacts
  <1>3. \A k \in 1 .. pre : ~memlist[k].isCleared
    <2> SUFFICES ASSUME NEW k \in 1 .. pre PROVE ~memlist[k].isCleared
      OBVIOUS
    <2>1. CASE k = 1
      BY <1>1, <2>1, FirstIsListed
    <2>2. CASE k # 1
      <3>1. k \in 2 .. pre /\ k \in DOMAIN memlist
        BY <1>2, <2>2
      <3> QED BY <1>2, <3>1 DEF PassedStay
    <2> QED BY <2>1, <2>2
  <1>4. Matches = {}
    BY <1>1, <1>2, <1>3
  <1>5. PassedStay'
    <2> SUFFICES ASSUME NEW i \in 2 .. pre + 1, NEW k \in DOMAIN memlist,
                        memlist[k].isCleared, memlist[k].memAddress = memlist[i].memAddress
                 PROVE  FALSE
      BY <1>1 DEF PassedStay
    <2>1. CASE i \in 2 .. pre
      BY <1>2, <2>1 DEF PassedStay
    <2>2. CASE i = pre + 1
      <3>1. k \in pre + 1 .. Len(memlist)
        BY <1>2, <1>3
      <3> QED BY <1>4, <2>2, <3>1 DEF Matches
    <2> QED BY <1>2, <2>1, <2>2
  <1>6. pre' \in DOMAIN memlist'
    BY <1>1, <1>2
  <1>7. ExitInv' /\ \A kept : (Embeds(kept, memlist, atExit) => Embeds(kept, memlist', atExit'))
                              /\ (DeletionKept(kept) => DeletionKept(kept)')
                              /\ (ListedKept(kept) => ListedKept(kept)')
    BY <1>1, DumpFacts DEF ExitInv, InFinal, DeletionKept, ListedKept
  <1>8. DumpInv'
    BY <1>1, <1>5, <1>6, <1>7, DumpFacts DEF DumpInv
  <1>9. RunInv' /\ TypeOK'
    BY <1>1, <1>6 DEF RunInv, IInv, TypeOK
  <1> QED BY <1>8, <1>9 DEF IInv

(* R is the list L without its node j.                                     *)
Without(R, L, j) ==
  /\ R \in Seq(Entry) /\ Len(R) = Len(L) - 1
  /\ \A i \in 1 .. Len(L) - 1 : R[i] = IF i < j THEN L[i] ELSE L[i + 1]

(* RemoveAt, as Without describes it.                                      *)
LEMMA Removal ==
  ASSUME NEW L \in Seq(Entry), NEW j \in DOMAIN L
  PROVE  Without(RemoveAt(L, j), L, j)
  <1>1. PICK n \in Nat : n = Len(L) /\ DOMAIN L = 1 .. n /\ j \in 1 .. n
    BY ListFacts
  <1>2. PICK A : A = SubSeq(L, 1, j - 1)
    OBVIOUS
  <1>3. PICK B : B = SubSeq(L, j + 1, n)
    OBVIOUS
  <1>4. A \in Seq(Entry) /\ Len(A) = j - 1 /\ \A i \in 1 .. j - 1 : A[i] = L[i]
    BY <1>1, <1>2
  <1>5. B \in Seq(Entry) /\ Len(B) = n - j /\ \A i \in 1 .. n - j : B[i] = L[j + i]
    BY <1>1, <1>3
  <1>6. PICK R : R = A \o B
    OBVIOUS
  <1>7. /\ R \in Seq(Entry) /\ Len(R) = (j - 1) + (n - j)
        /\ \A i \in 1 .. (j - 1) + (n - j) :
             R[i] = IF i <= j - 1 THEN A[i] ELSE B[i - (j - 1)]
    <2>1. A \in Seq(Entry) /\ B \in Seq(Entry)
      BY <1>4, <1>5
    <2>2. /\ R \in Seq(Entry) /\ Len(R) = Len(A) + Len(B)
          /\ \A i \in 1 .. Len(A) + Len(B) :
               R[i] = IF i <= Len(A) THEN A[i] ELSE B[i - Len(A)]
      BY <2>1, <1>6
    <2>3. Len(A) = j - 1 /\ Len(B) = n - j
      BY <1>4, <1>5
    <2> QED BY <2>2, <2>3
  <1>8. (j - 1) + (n - j) = n - 1
    BY <1>1
  <1>9. ASSUME NEW i \in 1 .. n - 1
        PROVE  R[i] = IF i < j THEN L[i] ELSE L[i + 1]
    <2>1. CASE i < j
      BY <1>1, <1>4, <1>7, <1>8, <2>1
    <2>2. CASE ~(i < j)
      <3>1. i - (j - 1) \in 1 .. n - j /\ j + (i - (j - 1)) = i + 1 /\ ~(i <= j - 1)
        BY <1>1, <2>2
      <3> QED BY <1>5, <1>7, <1>8, <2>2, <3>1
    <2> QED BY <2>1, <2>2
  <1>10. R = RemoveAt(L, j)
    BY <1>1, <1>2, <1>3, <1>6 DEF RemoveAt
  <1> QED BY <1>1, <1>7, <1>8, <1>9, <1>10 DEF Without

(* An embedding survives the removal of a node other than the first.       *)
LEMMA EmbedsWithout ==
  ASSUME NEW L \in Seq(Entry), NEW O \in Seq(Entry), NEW kept, Embeds(kept, L, O),
         NEW j \in DOMAIN L, j > 1, NEW R, Without(R, L, j)
  PROVE  \E left : /\ Embeds(left, R, O)
                   /\ Range(left) = Range(kept) \ {kept[j]}
                   /\ \A i \in 1 .. j - 1 : left[i] = kept[i]
  <1>1. PICK n \in Nat : n = Len(L) /\ DOMAIN L = 1 .. n /\ j \in 2 .. n
    BY ListFacts
  <1>2. /\ R \in Seq(Entry) /\ Len(R) = n - 1 /\ DOMAIN R = 1 .. n - 1
        /\ \A i \in 1 .. n - 1 : R[i] = IF i < j THEN L[i] ELSE L[i + 1]
    BY <1>1, ListFacts DEF Without
  <1>3. /\ kept \in [1 .. n -> DOMAIN O] /\ kept[1] = 1
        /\ \A i, k \in 1 .. n : i < k => kept[i] < kept[k]
        /\ \A i \in 1 .. n : L[i] = O[kept[i]]
    BY <1>1 DEF Embeds
  <1>4. PICK left : left = [i \in 1 .. n - 1 |-> IF i < j THEN kept[i] ELSE kept[i + 1]]
    OBVIOUS
  <1>5. \A i \in 1 .. n - 1 :
          /\ left[i] = IF i < j THEN kept[i] ELSE kept[i + 1]
          /\ i \in 1 .. n /\ i + 1 \in 1 .. n
    BY <1>1, <1>4
  <1>6. left \in [1 .. n - 1 -> DOMAIN O]
    BY <1>3, <1>4, <1>5
  <1>7. ASSUME NEW i \in 1 .. n - 1, NEW k \in 1 .. n - 1, i < k
        PROVE  left[i] < left[k]
    <2>1. CASE k < j
      BY <1>3, <1>5, <1>7, <2>1, <1>1
    <2>2. CASE ~(k < j) /\ i < j
      <3>1. i < k + 1
        BY <1>7
      <3> QED BY <1>3, <1>5, <2>2, <3>1
    <2>3. CASE ~(k < j) /\ ~(i < j)
      <3>1. i + 1 < k + 1
        BY <1>7
      <3> QED BY <1>3, <1>5, <2>3, <3>1
    <2> QED BY <1>1, <1>7, <2>1, <2>2, <2>3
  <1>8. ASSUME NEW i \in 1 .. n - 1 PROVE R[i] = O[left[i]]
    <2>1. CASE i < j
      <3>1. R[i] = L[i] /\ left[i] = kept[i] /\ i \in 1 .. n
        BY <1>2, <1>5, <2>1
      <3> QED BY <1>3, <3>1
    <2>2. CASE ~(i < j)
      <3>1. R[i] = L[i + 1] /\ left[i] = kept[i + 1] /\ i + 1 \in 1 .. n
        BY <1>2, <1>5, <2>2
      <3> QED BY <1>3, <3>1
    <2> QED BY <2>1, <2>2
  <1>9. 1 \in 1 .. n - 1 /\ left[1] = 1
    BY <1>1, <1>3, <1>5
  <1>10. Embeds(left, R, O)
    BY <1>2, <1>6, <1>7, <1>8, <1>9 DEF Embeds
  <1>11. \A i \in 1 .. j - 1 : left[i] = kept[i]
    BY <1>1, <1>5
  <1>12. Range(left) = Range(kept) \ {kept[j]}
    <2>1. ASSUME NEW i \in 1 .. n - 1 PROVE left[i] \in Range(kept) \ {kept[j]}
      <3>1. PICK k \in 1 .. n : left[i] = kept[k] /\ k # j
        <4>1. i < j => left[i] = kept[i] /\ i \in 1 .. n /\ i # j
          BY <1>1, <1>5
        <4>2. ~(i < j) => left[i] = kept[i + 1] /\ i + 1 \in 1 .. n
          BY <1>5
        <4>3. ~(i < j) => i + 1 # j
          BY <1>1
        <4> QED BY <4>1, <4>2, <4>3
      <3>2. kept[k] # kept[j]
        <4>1. k < j \/ j < k
          BY <1>1, <3>1
        <4>2. kept[k] < kept[j] \/ kept[j] < kept[k]
          BY <1>1, <1>3, <4>1
        <4>3. kept[j] \in Int /\ kept[k] \in Int
          BY <1>1, <1>3, ListFacts
        <4> QED BY <4>2, <4>3
      <3> QED BY <1>3, <3>1, <3>2 DEF Range
    <2>2. ASSUME NEW k \in 1 .. n, k # j PROVE kept[k] \in Range(left)
      <3>1. CASE k < j
        <4>1. k \in 1 .. n - 1 /\ left[k] = kept[k]
          BY <1>1, <1>5, <3>1
        <4> QED BY <1>6, <4>1 DEF Range
      <3>2. CASE ~(k < j)
        <4>1. k - 1 \in 1 .. n - 1 /\ ~(k - 1 < j) /\ (k - 1) + 1 = k
          BY <1>1, <2>2, <3>2
        <4>2. left[k - 1] = kept[k]
          BY <1>5, <4>1
        <4> QED BY <1>6, <4>1, <4>2 DEF Range
      <3> QED BY <3>1, <3>2
    <2>3. Range(left) \subseteq Range(kept) \ {kept[j]}
      BY <1>6, <2>1 DEF Range
    <2>4. Range(kept) \ {kept[j]} \subseteq Range(left)
      BY <1>3, <2>2 DEF Range
    <2> QED BY <2>3, <2>4
  <1> QED BY <1>10, <1>11, <1>12

(* Unlinking takes the current node c, and perhaps its deletion k, off the *)
(* list; the nodes passed stay where they are.                             *)
Unlinking(kept, c, k) ==
  /\ c \in DOMAIN memlist /\ k \in DOMAIN memlist /\ c <= k
  /\ memlist[k] = Cleared(memlist[c].memAddress)
  /\ memlist[c].isCleared <=> k = c
  /\ memlist' \in Seq(Entry) /\ pre \in DOMAIN memlist'
  /\ \E left, G :
       /\ Embeds(left, memlist', atExit)
       /\ G \in {{c}, {c, k}}
       /\ Range(left) = Range(kept) \ {kept[g] : g \in G}
       /\ \A i \in 1 .. pre : left[i] = kept[i]

(* What dump_taints removes: a node, alone or with the first deletion of   *)
(* the same byte that is not before it.                                    *)
LEMMA Unlinked ==
  ASSUME IInv, UnlinkCurrent, NEW kept, Embeds(kept, memlist, atExit),
         NEW c, c = pre + 1, NEW k, k = Min(Matches)
  PROVE  Unlinking(kept, c, k)
  <1>1. /\ phase = "dump" /\ pre < Len(memlist) /\ Matches # {}
        /\ memlist' = IF k <= pre + 2 THEN RemoveAt(memlist, pre + 1)
                      ELSE RemoveAt(RemoveAt(memlist, k), pre + 1)
    BY DEF UnlinkCurrent
  <1>2. PICK L \in Seq(Entry) : L = memlist
    BY <1>1, DumpFacts
  <1>3. PICK n \in Nat : n = Len(L) /\ DOMAIN L = 1 .. n
    BY ListFacts
  <1>4. /\ pre \in 1 .. n /\ pre < n /\ c \in 2 .. n /\ atExit \in Seq(Entry)
        /\ c = pre + 1
    BY <1>1, <1>2, <1>3, DumpFacts
  <1>5. \A m : m \in Matches <=>
                 m \in c .. n /\ L[m].memAddress = L[c].memAddress /\ L[m].isCleared
    BY <1>2, <1>3, <1>4 DEF Matches
  <1>6. k \in Matches /\ \A m \in Matches : k <= m
    <2>1. Matches \in SUBSET Nat
      BY <1>4, <1>5
    <2>2. \E x \in Matches : \A y \in Matches : x <= y
      BY <1>1, <2>1, Least
    <2> QED BY <2>2 DEF Min
  <1>7. /\ k \in c .. n /\ L[k] = Cleared(L[c].memAddress)
        /\ L[c].isCleared <=> k = c
    <2>1. k \in c .. n /\ L[k].memAddress = L[c].memAddress /\ L[k].isCleared
      BY <1>5, <1>6
    <2>2. L[k] \in Entry
      BY <1>3, <1>4, <2>1
    <2>3. L[k] = Cleared(L[c].memAddress)
      BY <2>1, <2>2, EntryFacts
    <2>4. L[c].isCleared => c \in Matches
      BY <1>4, <1>5
    <2> QED BY <1>4, <1>6, <2>1, <2>3, <2>4
  <1>8. Embeds(kept, L, atExit) /\ c \in DOMAIN L /\ k \in DOMAIN L /\ c > 1 /\ c <= k
        /\ c \in Nat /\ k \in Nat
    BY <1>2, <1>3, <1>4, <1>7
  <1>9. /\ memlist' \in Seq(Entry) /\ pre \in DOMAIN memlist'
        /\ \E left, G : /\ Embeds(left, memlist', atExit)
                        /\ G \in {{c}, {c, k}}
                        /\ Range(left) = Range(kept) \ {kept[g] : g \in G}
                        /\ \A i \in 1 .. pre : left[i] = kept[i]
    <2>1. CASE k <= pre + 2
      <3>1. PICK R : R = RemoveAt(L, c)
        OBVIOUS
      <3>2. Without(R, L, c)
        BY <1>8, <3>1, Removal
      <3>3. PICK left : /\ Embeds(left, R, atExit)
                        /\ Range(left) = Range(kept) \ {kept[c]}
                        /\ \A i \in 1 .. c - 1 : left[i] = kept[i]
        BY <1>4, <1>8, <3>2, EmbedsWithout
      <3>4. R = memlist' /\ R \in Seq(Entry)
        BY <1>1, <1>2, <1>4, <2>1, <3>1, <3>2 DEF Without
      <3>5. pre \in DOMAIN R
        BY <1>3, <1>4, <3>2, ListFacts DEF Without
      <3>6. {kept[g] : g \in {c}} = {kept[c]} /\ c - 1 = pre
        BY <1>4
      <3> QED BY <3>3, <3>4, <3>5, <3>6
    <2>2. CASE ~(k <= pre + 2)
      <3>1. PICK Q : Q = RemoveAt(L, k)
        OBVIOUS
      <3>2. Without(Q, L, k) /\ Q \in Seq(Entry) /\ Len(Q) = n - 1
        BY <1>3, <1>8, <3>1, Removal DEF Without
      <3>3. PICK mid : /\ Embeds(mid, Q, atExit)
                       /\ Range(mid) = Range(kept) \ {kept[k]}
                       /\ \A i \in 1 .. k - 1 : mid[i] = kept[i]
        BY <1>4, <1>8, <3>2, EmbedsWithout
      <3>4. c \in 1 .. k - 1 /\ c \in 1 .. n - 1 /\ pre \in 1 .. n - 2
            /\ 1 .. c - 1 \subseteq 1 .. k - 1 /\ c - 1 = pre
        BY <1>4, <1>7, <2>2
      <3>5. DOMAIN Q = 1 .. n - 1 /\ c \in DOMAIN Q
        BY <3>2, <3>4, ListFacts
      <3>6. PICK R : R = RemoveAt(Q, c)
        OBVIOUS
      <3>7. Without(R, Q, c)
        BY <3>2, <3>5, <3>6, Removal
      <3>8. PICK left : /\ Embeds(left, R, atExit)
                        /\ Range(left) = Range(mid) \ {mid[c]}
                        /\ \A i \in 1 .. c - 1 : left[i] = mid[i]
        <4>1. /\ Q \in Seq(Entry) /\ atExit \in Seq(Entry) /\ Embeds(mid, Q, atExit)
              /\ c \in DOMAIN Q /\ c > 1 /\ Without(R, Q, c)
          BY <1>4, <1>8, <3>2, <3>3, <3>5, <3>7
        <4> QED BY <4>1, EmbedsWithout, SMTT(60)
      <3>9. R = memlist' /\ R \in Seq(Entry)
        BY <1>1, <1>2, <1>4, <2>2, <3>1, <3>6, <3>7 DEF Without
      <3>10. pre \in DOMAIN R
        <4>1. Len(R) = n - 2
          BY <1>3, <3>2, <3>7 DEF Without
        <4> QED BY <3>4, <3>9, <4>1, ListFacts
      <3>11. mid[c] = kept[c]
        BY <3>3, <3>4
      <3>12. Range(left) = Range(kept) \ {kept[g] : g \in {c, k}}
        BY <3>3, <3>8, <3>11
      <3>13. \A i \in 1 .. pre : left[i] = kept[i]
        BY <3>3, <3>4, <3>8
      <3> QED BY <3>8, <3>9, <3>10, <3>12, <3>13
    <2> QED BY <2>1, <2>2
  <1> QED BY <1>2, <1>7, <1>8, <1>9 DEF Unlinking

(* Removing a pair leaves the rest embedded in the list at exit.           *)
LEMMA UnlinkStep ==
  ASSUME IInv, UnlinkCurrent
  PROVE  IInv'
  <1>1. /\ phase = "dump" /\ phase' = "dump"
        /\ UNCHANGED <<pre, carried, written, unrecorded, atExit>>
    BY DEF UnlinkCurrent, marks
  <1>2. PICK kept \in [DOMAIN memlist -> DOMAIN atExit] :
          Embeds(kept, memlist, atExit) /\ DeletionKept(kept) /\ ListedKept(kept)
    BY <1>1, DumpFacts
  <1>3. PICK c : c = pre + 1
    OBVIOUS
  <1>4. PICK k : k = Min(Matches)
    OBVIOUS
  <1>5. /\ c \in DOMAIN memlist /\ k \in DOMAIN memlist /\ c <= k
        /\ memlist[k] = Cleared(memlist[c].memAddress)
        /\ memlist[c].isCleared <=> k = c
        /\ memlist' \in Seq(Entry) /\ pre \in DOMAIN memlist'
        /\ \E left, G :
             /\ Embeds(left, memlist', atExit)
             /\ G \in {{c}, {c, k}}
             /\ Range(left) = Range(kept) \ {kept[g] : g \in G}
             /\ \A i \in 1 .. pre : left[i] = kept[i]
    <2>1. Unlinking(kept, c, k)
      BY <1>2, <1>3, <1>4, Unlinked
    <2> QED BY <2>1 DEF Unlinking
  <1>6. PICK left, G :
          /\ Embeds(left, memlist', atExit)
          /\ G \in {{c}, {c, k}}
          /\ Range(left) = Range(kept) \ {kept[g] : g \in G}
          /\ \A i \in 1 .. pre : left[i] = kept[i]
    BY <1>5
  <1>7. /\ DOMAIN memlist = 1 .. Len(memlist) /\ Len(memlist) \in Nat
        /\ DOMAIN atExit = 1 .. Len(atExit) /\ Len(atExit) \in Nat
        /\ \A i \in DOMAIN memlist : memlist[i] \in Entry
        /\ \A i \in DOMAIN atExit : atExit[i] \in Entry
        /\ ExitInv /\ PassedStay /\ pre \in DOMAIN memlist
    BY <1>1, DumpFacts
  <1>8. /\ \A i, j \in DOMAIN memlist : i < j => kept[i] < kept[j]
        /\ \A i \in DOMAIN memlist : memlist[i] = atExit[kept[i]]
        /\ kept[1] = 1 /\ 1 \in DOMAIN memlist
    BY <1>2 DEF Embeds
  <1>9. /\ left \in [DOMAIN memlist' -> DOMAIN atExit]
        /\ \A i \in DOMAIN memlist' : memlist'[i] = atExit[left[i]]
    BY <1>6 DEF Embeds
  <1>10. \A x : x \in Range(kept) <=> \E i \in DOMAIN memlist : x = kept[i]
    BY <1>2 DEF Range
  <1>11. \A x : x \in Range(left) <=>
                  \E i \in DOMAIN memlist : x = kept[i] /\ \A g \in G : x # kept[g]
    BY <1>6, <1>10
  <1>12. memlist[k].isCleared /\ memlist[k].memAddress = memlist[c].memAddress
    BY <1>5, EntryFacts
  <1>13. PassedStay'
    <2> SUFFICES ASSUME NEW i \in 2 .. pre, NEW m \in DOMAIN memlist',
                        memlist'[m].isCleared,
                        memlist'[m].memAddress = memlist'[i].memAddress
                 PROVE  FALSE
      BY <1>1 DEF PassedStay
    <2>1. i \in DOMAIN memlist' /\ i \in DOMAIN memlist /\ i \in 1 .. pre
      BY <1>5, <1>7, ListFacts
    <2>2. memlist'[i] = memlist[i]
      BY <1>6, <1>8, <1>9, <2>1
    <2>3. left[m] \in Range(left)
      BY <1>9 DEF Range
    <2>4. PICK j \in DOMAIN memlist : left[m] = kept[j]
      BY <1>11, <2>3
    <2>5. memlist'[m] = memlist[j]
      BY <1>8, <1>9, <2>4
    <2> QED BY <1>7, <2>2, <2>5 DEF PassedStay
  <1>14. DeletionKept(left)'
    <2> SUFFICES ASSUME NEW p \in DOMAIN atExit, NEW q \in DOMAIN atExit,
                        InFinal(p), InFinal(q), p > 1, p \in Range(left),
                        ~atExit[p].isCleared,
                        atExit[q] = Cleared(atExit[p].memAddress),
                        q \notin Range(left)
                 PROVE  FALSE
      BY <1>1 DEF DeletionKept, InFinal
    <2>1. PICK i \in DOMAIN memlist : p = kept[i] /\ \A g \in G : p # kept[g]
      BY <1>11
    <2>2. p \in Range(kept)
      BY <1>10, <2>1
    <2>3. q \in Range(kept)
      BY <1>2, <2>2 DEF DeletionKept
    <2>4. PICK g \in G : q = kept[g]
      BY <1>10, <1>11, <2>3
    <2>5. g \in DOMAIN memlist /\ g \in {c, k}
      BY <1>5, <1>6
    <2>6. atExit[q].isCleared /\ atExit[q].memAddress = atExit[p].memAddress
      BY EntryFacts
    <2>7. memlist[i] = atExit[p] /\ memlist[g] = atExit[q]
      BY <1>8, <2>1, <2>4, <2>5
    <2>8. CASE k = c
      <3>1. g = c
        BY <2>5, <2>8
      <3>2. i < c
        <4>1. ~(c < i)
          <5>1. SUFFICES ASSUME c < i PROVE FALSE
            OBVIOUS
          <5>2. q < p
            BY <1>5, <1>8, <2>1, <2>4, <3>1, <5>1
          <5> QED BY <1>7, <2>6, <5>2 DEF ExitInv
        <4>2. i # c
          BY <2>6, <2>7, <3>1
        <4> QED BY <1>5, <1>7, <4>1, <4>2
      <3>3. i # 1
        BY <1>8, <2>1
      <3>4. i \in 2 .. pre
        BY <1>3, <1>7, <3>2, <3>3
      <3> QED BY <1>7, <2>5, <2>6, <2>7, <3>4 DEF PassedStay
    <2>9. CASE k # c
      <3>1. ~memlist[c].isCleared /\ c < k
        BY <1>5, <1>7, <2>9
      <3>2. g = k
        BY <2>5, <2>6, <2>7, <3>1
      <3>3. PICK r \in DOMAIN atExit : r = kept[c] /\ atExit[r] = memlist[c] /\ r < q
        BY <1>2, <1>5, <1>8, <2>4, <3>1, <3>2
      <3>4. InFinal(r)
        BY <1>7, <3>3 DEF InFinal
      <3>5. atExit[r].memAddress = atExit[p].memAddress /\ ~atExit[r].isCleared
        BY <1>12, <2>6, <2>7, <3>1, <3>2, <3>3
      <3>6. r = p
        <4>1. ~(r < p) /\ ~(p < r)
          BY <1>7, <3>4, <3>5 DEF ExitInv
        <4> QED BY <1>7, <4>1
      <3>7. c \in G
        BY <1>6
      <3> QED BY <2>1, <3>3, <3>6, <3>7
    <2> QED BY <2>8, <2>9
  <1>15. ListedKept(left)'
    <2> SUFFICES ASSUME ~atExit[Len(atExit)].isCleared
                 PROVE  /\ Len(atExit) \in Range(left)
                        /\ \A p \in DOMAIN atExit : InFinal(p) =>
                             \/ p \in Range(left)
                             \/ \E q \in DOMAIN atExit :
                                  InFinal(q) /\ atExit[q] = Cleared(atExit[p].memAddress)
      BY <1>1 DEF ListedKept, InFinal
    <2>1. /\ Len(atExit) \in Range(kept)
          /\ \A p \in DOMAIN atExit : InFinal(p) =>
               \/ p \in Range(kept)
               \/ \E q \in DOMAIN atExit :
                    InFinal(q) /\ atExit[q] = Cleared(atExit[p].memAddress)
      BY <1>2 DEF ListedKept
    <2>2. kept[k] \in DOMAIN atExit /\ atExit[kept[k]] = memlist[k]
          /\ kept[c] \in DOMAIN atExit /\ atExit[kept[c]] = memlist[c]
      BY <1>2, <1>5, <1>8
    <2>3. kept[k] # Len(atExit)
      BY <1>12, <2>2
    <2>4. InFinal(kept[k])
      BY <1>7, <2>2, <2>3 DEF InFinal
    <2>5. k = c \/ kept[c] < kept[k]
      BY <1>5, <1>7, <1>8
    <2>6. kept[c] # Len(atExit)
      BY <1>7, <2>2, <2>3, <2>5
    <2>7. Len(atExit) \in Range(left)
      BY <1>6, <1>10, <1>11, <2>1, <2>3, <2>6
    <2>8. ASSUME NEW p \in DOMAIN atExit, InFinal(p), p \in Range(kept),
                 p \notin Range(left)
          PROVE  \E q \in DOMAIN atExit :
                   InFinal(q) /\ atExit[q] = Cleared(atExit[p].memAddress)
      <3>1. p = kept[c] \/ p = kept[k]
        BY <1>6, <1>10, <1>11, <2>8
      <3>2. atExit[p].memAddress = memlist[c].memAddress
        BY <1>12, <2>2, <3>1
      <3> QED BY <1>5, <2>2, <2>4, <3>2
    <2> QED BY <2>1, <2>7, <2>8
  <1>16. ExitInv' /\ pre' \in DOMAIN memlist' /\ atExit' = atExit
    BY <1>1, <1>5, <1>7 DEF ExitInv, InFinal
  <1>17. Embeds(left, memlist', atExit')
    BY <1>6, <1>16
  <1>18. DumpInv'
    BY <1>1, <1>9, <1>13, <1>14, <1>15, <1>16, <1>17 DEF DumpInv
  <1>19. RunInv' /\ TypeOK'
    BY <1>1, <1>5 DEF RunInv, IInv, TypeOK
  <1> QED BY <1>18, <1>19 DEF IInv

(* The end of the loop.                                                    *)
LEMMA PrintStep ==
  ASSUME IInv, PrintTags
  PROVE  IInv'
  <1>1. /\ phase = "dump" /\ phase' = "printed" /\ pre = Len(memlist)
        /\ UNCHANGED <<memlist, pre, carried, written, unrecorded, atExit>>
    BY DEF PrintTags, marks
  <1>2. ExitInv' /\ PassedStay' /\
        \A kept : /\ Embeds(kept, memlist, atExit) => Embeds(kept, memlist', atExit')
                  /\ DeletionKept(kept) => DeletionKept(kept)'
                  /\ ListedKept(kept) => ListedKept(kept)'
    BY <1>1, DumpFacts DEF ExitInv, InFinal, DeletionKept, ListedKept, PassedStay
  <1>3. DumpInv'
    BY <1>1, <1>2, DumpFacts DEF DumpInv
  <1>4. RunInv' /\ TypeOK'
    BY <1>1 DEF RunInv, IInv, TypeOK
  <1> QED BY <1>3, <1>4 DEF IInv
-----------------------------------------------------------------------------
(* The invariant holds initially.                                          *)
LEMMA IInvInit == Init => IInv
  <1> SUFFICES ASSUME Init PROVE IInv
    OBVIOUS
  <1>1. /\ phase = "run" /\ memlist = << >> /\ pre = 1 /\ carried = {} /\ atExit = << >>
        /\ unrecorded = {} /\ written = [a \in ADDRINT |-> "never"]
    BY DEF Init
  <1>2. << >> \in Seq(Entry) /\ DOMAIN memlist = {}
    BY <1>1
  <1>3. TypeOK
    BY <1>1, <1>2 DEF TypeOK
  <1>4. RunInv
    BY <1>1, <1>2 DEF RunInv, OneEach, Preceded, Recorded, Addresses
  <1> QED BY <1>1, <1>3, <1>4 DEF IInv, DumpInv

(* Every step of the program and of the dump preserves the invariant.      *)
LEMMA IInvStep == IInv /\ [Next]_vars => IInv'
  <1> SUFFICES ASSUME IInv, [Next]_vars PROVE IInv'
    OBVIOUS
  <1>1. ASSUME NEW mem \in WrittenRange, StoreMark(mem) PROVE IInv'
    BY <1>1, MarkStep
  <1>2. ASSUME NEW mem \in WrittenRange, StoreOther(mem) PROVE IInv'
    BY <1>2, OtherStep
  <1>3. ASSUME NEW spare \in Entry, BeginDump(spare) PROVE IInv'
    BY <1>3, BeginStep
  <1>4. CASE KeepCurrent
    BY <1>4, KeepStep
  <1>5. CASE UnlinkCurrent
    BY <1>5, UnlinkStep
  <1>6. CASE PrintTags
    BY <1>6, PrintStep
  <1>7. CASE UNCHANGED vars
    BY <1>7 DEF vars, marks, IInv, TypeOK, RunInv, DumpInv, ExitInv, InFinal, PassedStay,
                DeletionKept, ListedKept
  <1>8. ASSUME NEW mem \in ChangedRange, NEW mark \in BOOLEAN, ChangeMarks(mem, mark)
        PROVE  IInv'
    BY <1>8, ChangeStep
  <1> QED BY <1>1, <1>2, <1>3, <1>4, <1>5, <1>6, <1>7, <1>8 DEF Next, DumpStep

(* The invariant holds in every reachable state.                           *)
LEMMA Invariance == Spec => []IInv
  BY IInvInit, IInvStep, PTL DEF Spec

(* The tag list and dump_taints' position in it are well typed: the loop   *)
(* of dump_taints never follows the next pointer of the last node.         *)
THEOREM TagsTypeCorrect == Spec => []TypeOK
  <1>1. IInv => TypeOK
    BY DEF IInv
  <1> QED BY <1>1, Invariance, PTL

(* SetTaintForMemory never lists a byte twice, nor deletes it twice, for   *)
(* any sequence of writes to any overlapping ranges.                       *)
THEOREM ListedOnce == Spec => []OneEntryPerByte
  <1>1. IInv => OneEntryPerByte
    BY DEF IInv, RunInv, OneEach, OneEntryPerByte
  <1> QED BY <1>1, Invariance, PTL

(* The bytes that SetTaintForMemory has listed and not deleted are those   *)
(* to which every store since the first with the mark had the mark.  They  *)
(* carry it unless something that leaves the lists alone changed them      *)
(* last; and a byte that got it from SetTaintForMemory is missing only if  *)
(* it was once deleted, or if one with the same low half is listed.        *)
THEOREM ListedIsDelimited == Spec => []ListingDelimited
  <1>1. IInv => ListingDelimited
    <2> SUFFICES ASSUME IInv, phase = "run" PROVE ListingDelimited
      BY DEF ListingDelimited
    <2> DEFINE IsListed(a) == a \in Addresses(memlist) /\ Status(memlist)[a] = "listed"
               Blocked(a)  == \E b \in Addresses(memlist) \ {a} : low32[b] = low32[a]
    <2>1. Recorded(memlist, written, carried, unrecorded)
          /\ written \in [ADDRINT -> {"never", "kept", "dropped"}]
      BY DEF IInv, RunInv, TypeOK
    <2>2. \A a \in Addresses(memlist) :
            IsListed(a) <=> ~HasCleared(memlist, a)
      BY StatusOf
    <2>3. ASSUME NEW a \in ADDRINT, IsListed(a)
          PROVE  written[a] = "kept" /\ a \in carried \cup unrecorded
      BY <2>1, <2>2, <2>3 DEF Recorded
    <2>4. ASSUME NEW a \in ADDRINT, a \in carried \ unrecorded, ~IsListed(a), ~Blocked(a)
          PROVE  written[a] = "dropped"
      <3>1. written[a] # "never"
        BY <2>1, <2>4 DEF Recorded
      <3>2. PICK b \in Addresses(memlist) : low32[b] = low32[a]
        BY <2>1, <3>1 DEF Recorded
      <3>3. a \in Addresses(memlist)
        BY <2>4, <3>2
      <3>4. HasCleared(memlist, a)
        BY <2>2, <2>4, <3>3
      <3> QED BY <2>1, <3>3, <3>4 DEF Recorded
    <2> QED BY <2>3, <2>4 DEF ListingDelimited
  <1> QED BY <1>1, Invariance, PTL

(* The list without its last node.                                         *)
LEMMA FrontOf ==
  ASSUME NEW L \in Seq(Entry), Len(L) >= 1, NEW F, F = SubSeq(L, 1, Len(L) - 1)
  PROVE  /\ DOMAIN F = 1 .. Len(L) - 1
         /\ \A i \in 1 .. Len(L) - 1 : F[i] = L[i]
  OBVIOUS

(* dump_taints prints every byte that is listed, if the spare node reads   *)
(* as not cleared, and of the deleted ones none but the first of the list. *)
THEOREM DumpAccurate == Spec => []DumpIsAccurate
  <1>1. ASSUME IInv, phase = "printed" PROVE DumpIsAccurate
    <2>1. /\ memlist \in Seq(Entry) /\ atExit \in Seq(Entry)
          /\ ExitInv /\ PassedStay /\ pre = Len(memlist) /\ pre \in DOMAIN memlist
      BY <1>1 DEF IInv, TypeOK, DumpInv
    <2>2. PICK kept \in [DOMAIN memlist -> DOMAIN atExit] :
            Embeds(kept, memlist, atExit) /\ DeletionKept(kept) /\ ListedKept(kept)
      BY <1>1 DEF IInv, DumpInv
    <2>3. PICK n \in Nat : n = Len(memlist) /\ DOMAIN memlist = 1 .. n /\ n >= 1
      BY <2>1, ListFacts
    <2>4. PICK x \in Nat : x = Len(atExit) /\ DOMAIN atExit = 1 .. x /\ x >= 1
      BY <2>1, ListFacts DEF ExitInv
    <2>5. PICK F : F = Final
      OBVIOUS
    <2>6. DOMAIN F = 1 .. x - 1 /\ \A i \in 1 .. x - 1 : F[i] = atExit[i]
      BY <2>1, <2>4, <2>5, FrontOf DEF Final
    <2>7. \A a : a \in Printed <=> \E i \in 1 .. n - 1 : memlist[i].memAddress = a
      <3>1. PICK P : P = SubSeq(memlist, 1, Len(memlist) - 1)
        OBVIOUS
      <3>2. DOMAIN P = 1 .. n - 1 /\ \A i \in 1 .. n - 1 : P[i] = memlist[i]
        BY <2>1, <2>3, <3>1, FrontOf
      <3>3. Printed = Addresses(P)
        BY <3>1 DEF Printed
      <3> QED BY <3>2, <3>3, AddressIn
    <2>8. /\ \A i, j \in 1 .. n : i < j => kept[i] < kept[j]
          /\ \A i \in 1 .. n : memlist[i] = atExit[kept[i]] /\ kept[i] \in 1 .. x
          /\ kept[1] = 1
      BY <2>2, <2>3, <2>4 DEF Embeds
    <2>9. \A i \in 1 .. n - 1 : kept[i] \in 1 .. x - 1
      <3> SUFFICES ASSUME NEW i \in 1 .. n - 1 PROVE kept[i] \in 1 .. x - 1
        OBVIOUS
      <3>1. i \in 1 .. n /\ n \in 1 .. n /\ i < n
        BY <2>3
      <3>2. kept[i] < kept[n] /\ kept[n] \in 1 .. x /\ kept[i] \in 1 .. x
        BY <2>8, <3>1
      <3> QED BY <3>2
    <2>10. \A a \in Addresses(F) :
             Status(F)[a] = IF HasCleared(F, a) THEN "deleted" ELSE "listed"
      BY StatusOf
    <2>11. ASSUME ~Last(atExit).isCleared, NEW a \in Addresses(F),
                  Status(F)[a] = "listed"
           PROVE  a \in Printed
      <3>1. PICK p \in 1 .. x - 1 : atExit[p].memAddress = a
        BY <2>6, <2>11, AddressIn
      <3>2. InFinal(p) /\ p \in DOMAIN atExit
        BY <2>4, <3>1 DEF InFinal
      <3>3. ~HasCleared(F, a)
        BY <2>10, <2>11
      <3>4. ASSUME NEW q \in DOMAIN atExit, InFinal(q), atExit[q] = Cleared(a)
            PROVE  FALSE
        <4>1. q \in 1 .. x - 1
          BY <2>4, <3>4 DEF InFinal
        <4> QED BY <2>6, <3>3, <3>4, <4>1 DEF HasCleared
      <3>5. Len(atExit) \in Range(kept) /\ p \in Range(kept)
        BY <2>2, <2>11, <3>1, <3>2, <3>4 DEF ListedKept, Last
      <3>6. PICK i \in 1 .. n, j \in 1 .. n : p = kept[i] /\ x = kept[j]
        BY <2>2, <2>3, <2>4, <3>5 DEF Range
      <3>7. i # n
        <4>1. SUFFICES ASSUME i = n PROVE FALSE
          OBVIOUS
        <4>2. j < i \/ j = i
          BY <4>1
        <4>3. x < p \/ x = p
          BY <2>8, <3>6, <4>2
        <4> QED BY <3>1, <4>3
      <3>8. i \in 1 .. n - 1 /\ memlist[i].memAddress = a
        BY <2>8, <3>1, <3>6, <3>7
      <3> QED BY <2>7, <3>8
    <2>12. ASSUME NEW a \in Printed, Status(F)[a] = "deleted"
           PROVE  a = F[1].memAddress
      <3>1. PICK i \in 1 .. n - 1 : memlist[i].memAddress = a
        BY <2>7, <2>12
      <3>2. PICK p \in 1 .. x - 1 : p = kept[i] /\ atExit[p] = memlist[i] /\ F[p] = atExit[p]
        BY <2>6, <2>8, <2>9
      <3>3. a \in Addresses(F)
        BY <2>6, <3>1, <3>2, AddressIn
      <3>4. HasCleared(F, a)
        BY <2>10, <2>12, <3>3
      <3>5. PICK q \in 1 .. x - 1 : atExit[q] = Cleared(a)
        BY <2>6, <3>4 DEF HasCleared
      <3>6. CASE i = 1
        <4>1. p = 1
          BY <2>8, <3>2, <3>6
        <4> QED BY <3>1, <3>2, <4>1
      <3>7. CASE i # 1
        <4>1. i \in 2 .. pre /\ i \in DOMAIN memlist /\ 1 \in 1 .. n /\ i \in 1 .. n /\ 1 < i
          BY <2>1, <2>3, <3>7
        <4>2. ~memlist[i].isCleared
          BY <2>1, <4>1 DEF PassedStay
        <4>3. p > 1
          BY <2>8, <3>2, <4>1
        <4>4. InFinal(p) /\ InFinal(q) /\ p \in DOMAIN atExit /\ q \in DOMAIN atExit
          BY <2>4 DEF InFinal
        <4>5. p \in Range(kept)
          BY <2>2, <3>2, <4>1 DEF Range
        <4>6. q \in Range(kept)
          BY <2>2, <3>1, <3>2, <3>5, <4>2, <4>3, <4>4, <4>5 DEF DeletionKept
        <4>7. PICK k \in DOMAIN memlist : q = kept[k]
          BY <2>2, <4>6 DEF Range
        <4>8. memlist[k] = Cleared(a)
          BY <2>3, <2>8, <3>5, <4>7
        <4>9. memlist[k].isCleared /\ memlist[k].memAddress = memlist[i].memAddress
          BY <3>1, <4>8, EntryFacts
        <4> QED BY <2>1, <4>1, <4>9 DEF PassedStay
      <3> QED BY <3>6, <3>7
    <2> QED BY <2>5, <2>11, <2>12 DEF DumpIsAccurate
  <1>2. IInv => DumpIsAccurate
    BY <1>1 DEF DumpIsAccurate
  <1> QED BY <1>2, Invariance, PTL

(* While the program runs, every store of SetTaintForMemory changes the    *)
(* linked list as it changes the map of listed and deleted bytes that the  *)
(* engine is modelled with, and no other change of marks changes it.       *)
THEOREM TagListImplementsMap == Spec => ImplementsTagUpdate
  <1> DEFINE Stored ==
        \E mem \in WrittenRange, stored \in BOOLEAN :
          /\ carried' = IF stored THEN carried \cup mem ELSE carried \ mem
          /\ unrecorded' = unrecorded \ mem
          /\ Status(memlist') = TagUpdate(Status(memlist), mem, stored)
      Changed ==
        \E mem \in ChangedRange, mark \in BOOLEAN :
          /\ carried' = IF mark THEN carried \cup mem ELSE carried \ mem
          /\ unrecorded' = unrecorded \cup mem
          /\ Status(memlist') = Status(memlist)
      Update == phase' = "run" => Changed \/ Stored
  <1>1. ASSUME IInv, [Next]_vars PROVE [Update]_vars
    <2>1. ASSUME NEW mem \in WrittenRange, StoreMark(mem) PROVE Update
      <3>1. Status(memlist') = TagUpdate(Status(memlist), mem, TRUE)
        BY <1>1, <2>1, MarkStep
      <3>2. carried' = carried \cup mem /\ unrecorded' = unrecorded \ mem
        BY <2>1 DEF StoreMark
      <3> QED BY <3>1, <3>2
    <2>2. ASSUME NEW mem \in WrittenRange, StoreOther(mem) PROVE Update
      <3>1. Status(memlist') = TagUpdate(Status(memlist), mem, FALSE)
        BY <1>1, <2>2, OtherStep
      <3>2. carried' = carried \ mem /\ unrecorded' = unrecorded \ mem
        BY <2>2 DEF StoreOther
      <3> QED BY <3>1, <3>2
    <2>3. ASSUME NEW spare \in Entry, BeginDump(spare) PROVE Update
      BY <2>3 DEF BeginDump
    <2>4. CASE DumpStep
      BY <2>4 DEF DumpStep, KeepCurrent, UnlinkCurrent, PrintTags
    <2>5. CASE UNCHANGED vars
      BY <2>5
    <2>6. ASSUME NEW mem \in ChangedRange, NEW mark \in BOOLEAN, ChangeMarks(mem, mark)
          PROVE  Update
      <3>1. /\ carried' = IF mark THEN carried \cup mem ELSE carried \ mem
            /\ unrecorded' = unrecorded \cup mem /\ memlist' = memlist
        BY <2>6 DEF ChangeMarks
      <3>2. Status(memlist') = Status(memlist)
        BY <3>1
      <3> QED BY <3>1, <3>2
    <2> QED BY <1>1, <2>1, <2>2, <2>3, <2>4, <2>5, <2>6 DEF Next
  <1> QED BY <1>1, Invariance, PTL DEF Spec, ImplementsTagUpdate
=============================================================================
