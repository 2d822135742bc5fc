----------------------------- MODULE TaintMaps -----------------------------
(***************************************************************************)
(* std::map as a function whose domain is the set of keys, and what        *)
(* tagMemoryMap records about one mark.                                    *)
(***************************************************************************)
CONSTANT low32   \* address -> its low 32 bits

IsMap(map, K, V) == DOMAIN map \subseteq K /\ map \in [DOMAIN map -> V]

Get(map, k) == IF k \in DOMAIN map THEN map[k] ELSE {}

Put(map, K, v) ==
  [k \in DOMAIN map \cup K |-> IF k \in K THEN v ELSE map[k]]

Erase(map, K) == [k \in DOMAIN map \ K |-> map[k]]

Marks(map) == UNION {map[k] : k \in DOMAIN map}
-----------------------------------------------------------------------------
(* The list of one mark holds, for a byte, no entry, an entry (listed), or *)
(* an entry and a later one with isCleared set (deleted).                  *)

(* The bytes of mem whose position in the range equals, as an int, the     *)
(* distance of an entry of list from the start of the range.               *)
Flagged(list, mem) ==
  {a \in mem : \E b \in DOMAIN list : low32[b] = low32[a]}

(* SetTaintForMemory on mem: a mark that is stored is listed for the bytes *)
(* not flagged; one that is not is deleted for the bytes it is listed for. *)
TagUpdate(list, mem, stored) ==
  IF stored THEN Put(list, mem \ Flagged(list, mem), "listed")
            ELSE Put(list, mem \cap DOMAIN list, "deleted")
=============================================================================
