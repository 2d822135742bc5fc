---------------------------- MODULE MCPathSource ----------------------------
(***************************************************************************)
(* Two threads with a buffer each, two descriptors, and a file for each    *)
(* granularity.  Bytes 1 and 2 of the PerOffset input are to be marked, so *)
(* a read can end, and the next one start, inside the range.               *)
(***************************************************************************)
EXTENDS PathSource

CONSTANTS t1, t2, A, B, C

MCCalls ==
  (t1 :> {"open", "close", "read"}) @@ (t2 :> {"open", "dup"})
MCBuffer == (t1 :> 10) @@ (t2 :> 20)
MCSources ==
  << [file |-> {A}, all |-> FALSE, granularity |-> "PerByte"],
     [file |-> {B}, all |-> FALSE, granularity |-> "PerRead"],
     [file |-> {C}, all |-> FALSE, granularity |-> "PerOffset"] >>
MCRanges == << <<1, 2>> >>

(* The arguments of a call that is over are dead: SysBefore overwrites the *)
(* slot of the thread before SysAfter reads it.                            *)
LiveState ==
  <<kernel, phase, activeFileDescriptors, taint,
    [t \in Thread |-> IF phase[t] = "app" THEN << >>
                      ELSE <<call[t], ret[t], pendingSyscalls[t]>>]>>
=============================================================================
