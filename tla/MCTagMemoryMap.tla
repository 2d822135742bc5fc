--------------------------- MODULE MCTagMemoryMap ---------------------------
(***************************************************************************)
(* Four bytes written singly and in pairs.  Byte 5 is 2^32 above byte 1:   *)
(* their low halves are the same.  The marks of byte 1, alone or with 2,   *)
(* change in other ways as well.                                           *)
(***************************************************************************)
EXTENDS TagMemoryMap

MCADDRINT == {1, 2, 3, 5}
MClow32   == [a \in MCADDRINT |-> IF a = 5 THEN 1 ELSE a]
MCRange   == {{1}, {2}, {1, 2}, {2, 3}, {5}}
MCChanged == {{1}, {1, 2}}
=============================================================================
