----------------------------- MODULE MCSources -----------------------------
(***************************************************************************)
(* Sources with sixteen addresses: NULL and what is near it, the program's *)
(* memory, and the last ones, which stand for negative numbers.            *)
(***************************************************************************)
EXTENDS Sources, TLC

MCMemory == 4 .. 8
MCBuffer == {4, 6}
MCsizeof ==
  [o \in Objects |->
     CASE o \in {"stat64", "sigaction"} -> 3 [] o \in {"time_t", "timezone"} -> 1
       [] OTHER -> 2]
MCkernelSize ==
  [o \in Objects |-> IF o \in {"sigaction", "sigset_t"} THEN 1 ELSE MCsizeof[o]]

(* argc on the stack, and argv[0], a string longer than the pointer to it. *)
MCArguments == <<<<5, 1>>, <<7, 2>>, <<8, 1>>>>

h1 == [ip |-> 1, port |-> 2]
h2 == [ip |-> 2, port |-> 1]
MCHost == {h1, h2}
Host1 == [address |-> h1, granularity |-> "PerByte"]
Host2 == [address |-> h2, granularity |-> "PerRead"]
Config(w, all, hosts) == [wordSize |-> w, observeEverything |-> all, hosts |-> hosts]
MCConfigurations ==
  {Config(64, FALSE, <<Host1>>), Config(32, TRUE, << >>), Config(32, FALSE, <<Host1, Host2>>)}
NameSymmetry == Permutations(Name)

(* Every step writes last, and none reads it.                              *)
WithoutLast ==
  <<conf, socketToAddress, memTaintMap, current, stopped, tagMap, main, peer, origin, replaced>>
OneHost == {Config(32, FALSE, <<Host1>>)}
=============================================================================
