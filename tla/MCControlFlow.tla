--------------------------- MODULE MCControlFlow ---------------------------
(***************************************************************************)
(* ControlFlow for a routine with a loop around two nested conditionals    *)
(* that join in one block, and one branch whose arms both return, which    *)
(* calls a routine with a conditional of its own.                          *)
(*                                                                         *)
(*    10 -> 11 12    11 -> 12 13    12 -> 13    13 -> 10 14                *)
(*    14 -> 15 16    15, 16 return                                         *)
(*    20 -> 21 22    21 -> 22       22 returns                             *)
(***************************************************************************)
EXTENDS ControlFlow

MCBlock == 10 .. 16 \cup 20 .. 22
MCEntry == {10, 20}
MCSucc == [b \in MCBlock |->
  CASE b = 10 -> {11, 12} [] b = 11 -> {12, 13} [] b = 12 -> {13}
    [] b = 13 -> {10, 14} [] b = 14 -> {15, 16}
    [] b = 20 -> {21, 22} [] b = 21 -> {22} [] OTHER -> {}]
MCBranch == {10, 11, 13, 14, 20}
MCReturnNode == 2
MCIpdom == [b \in MCBranch |->
  CASE b \in {10, 11} -> {13} [] b = 13 -> {14} [] b = 14 -> {MCReturnNode}
    [] OTHER -> {22}]

-----------------------------------------------------------------------------
(* MCIpdom is what the definition says: P is the set of blocks on every    *)
(* path from b to the return node, and the immediate one is the block of P *)
(* all others of P postdominate as well.                                   *)
Edges(b) == IF MCSucc[b] = {} THEN {MCReturnNode} ELSE MCSucc[b]

Reaches(from, avoid) ==
  LET Grow[n \in 0 .. 10] ==
        IF n = 0 THEN {from}
        ELSE Grow[n - 1] \cup
             UNION {Edges(b) : b \in Grow[n - 1] \ {avoid, MCReturnNode}}
  IN  Grow[10]

PostDominators(b) ==
  {p \in (MCBlock \cup {MCReturnNode}) \ {b} :
     p = MCReturnNode \/ MCReturnNode \notin Reaches(b, p)}

ASSUME IpdomIsImmediate ==
  \A b \in MCBranch : \A p \in MCIpdom[b] :
    /\ p \in PostDominators(b)
    /\ \A q \in PostDominators(b) \ {p} : q \in PostDominators(p)
=============================================================================
