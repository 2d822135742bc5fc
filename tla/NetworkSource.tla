--------------------------- MODULE NetworkSource ---------------------------
(***************************************************************************)
(* Network connections as taint sources: NetworkMonitor                    *)
(* (monitor_network.cpp) and NetworkTaintSource                            *)
(* (taint_source_network.cpp), for one thread.                             *)
(*                                                                         *)
(* A configuration is the word size of the build, whether the section says *)
(* "*" (observeEverything, and then no address is observed) and the hosts  *)
(* it lists, each with its granularity.  The observer registered for "*"   *)
(* (allObserver) and the default one are stored and never called.          *)
(***************************************************************************)
EXTENDS SyscallHandlers, Sequences, FiniteSets

CONSTANTS
  Configurations,
  Fd,
  Host,        \* records with ip and port
  Marks        \* _max of the TaintGenerator

ASSUME NetworkAssumption ==
  /\ Marks \in Nat \ {0} /\ Fd \subseteq Nat
  /\ Host \subseteq [ip : Nat, port : Int]
  /\ Configurations \subseteq
       [wordSize : {32, 64}, observeEverything : BOOLEAN,
        hosts : Seq([address : Host, granularity : {"PerByte", "PerRead"}])]
  /\ \A c \in Configurations : c.observeEverything => c.hosts = << >>

VARIABLES
  conf,
  socketToAddress,   \* descriptor -> address
  memTaintMap,       \* address -> marks
  current,           \* marks the generator has handed out
  stopped            \* "no", "abort", "undefined" (end() or a deleted object
                     \* dereferenced) or "null" (NULL dereferenced)

(* A std::map after new entries were assigned, and after keys were erased. *)
Assign(map, new) ==
  [k \in DOMAIN new \cup DOMAIN map |-> IF k \in DOMAIN new THEN new[k] ELSE map[k]]
Erase(map, keys) == [k \in DOMAIN map \ keys |-> map[k]]

(* The map and the generator, as a callback finds and leaves them.         *)
Taint == [map |-> memTaintMap, count |-> current]
Becomes(t) == memTaintMap' = t.map /\ current' = t.count
-----------------------------------------------------------------------------
(* Mutant: the generator wraps around one mark too early.                  *)
nextTaintMark_EarlyWrap(count) == (count + 2) % (Marks - 1)

(* Mutant: marks are numbered from one.                                    *)
nextTaintMark_FromOne(count) == ((count + 1) % Marks) + 1

(* The mark given after count others; _current starts at 1.                *)
nextTaintMark(count) == (count + 2) % Marks

networkReadCallbackPerByte(t, start, length) ==
  LET bytes == Loop(start, length)
  IN  [map |-> Assign(t.map, [a \in bytes |-> {nextTaintMark(t.count + (a - start))}]),
       count |-> t.count + Cardinality(bytes)]

networkReadCallbackPerRead(t, start, length) ==
  [map |-> Assign(t.map, [a \in Loop(start, length) |-> {nextTaintMark(t.count)}]),
   count |-> t.count + 1]
-----------------------------------------------------------------------------
(* NetworkAddress_cmp; two addresses can each be less than the other.      *)
Less(a, b) == a.ip < b.ip \/ a.port < b.port

Observed == {conf.hosts[i].address : i \in DOMAIN conf.hosts}

(* The answers addressObservers.find(a) != end() may give.  A key that the *)
(* comparison orders both ways with another may be missed.                 *)
Find(a) ==
  IF a \notin Observed THEN {FALSE}
  ELSE IF \E k \in Observed : Less(a, k) /\ Less(k, a) THEN BOOLEAN ELSE {TRUE}

(* The observers of address run in the order they were added.              *)
Notified(address, start, length) ==
  LET observers == SelectSeq(conf.hosts, LAMBDA h : h.address = address)
      Run[k \in 0 .. Len(observers)] ==
        IF k = 0 THEN Taint
        ELSE IF observers[k].granularity = "PerByte"
        THEN networkReadCallbackPerByte(Run[k - 1], start, length)
        ELSE networkReadCallbackPerRead(Run[k - 1], start, length)
  IN  Run[Len(observers)]

(* The result of find is not compared with end().                          *)
notifyForRead(address, start, length) ==
  \E found \in Find(address) :
    IF found THEN Becomes(Notified(address, start, length)) /\ UNCHANGED stopped
    ELSE stopped' = "undefined" /\ UNCHANGED <<memTaintMap, current>>
-----------------------------------------------------------------------------
(* Mutant: every socket is saved.                                          *)
Saved_Always(sock, address) == {Assign(socketToAddress, [s \in {sock} |-> address])}

(* socketToAddress after CONNECT or RECVFROM, which save the socket when   *)
(* its address is observed and everything is; CONNECT does so whether or   *)
(* not the call succeeded.                                                 *)
Saved(sock, address) ==
  {IF found /\ conf.observeEverything
   THEN Assign(socketToAddress, [s \in {sock} |-> address]) ELSE socketToAddress :
     found \in Find(address)}

ConnectCallback(sock, address) ==
  /\ socketToAddress' \in Saved(sock, address)
  /\ UNCHANGED <<memTaintMap, current, stopped>>

(* operator[] makes an entry with address 0 when there is none.            *)
NoAddress == [ip |-> 0, port |-> 0]
Lookup(map, sock) == Assign([s \in {sock} |-> NoAddress], map)

(* RECV, which RECVFROM goes on with; saved is socketToAddress.            *)
RecvCallback(saved, sock, buf, ret) ==
  IF sock \notin DOMAIN saved /\ ~conf.observeEverything
  THEN socketToAddress' = saved /\ UNCHANGED <<memTaintMap, current, stopped>>
  ELSE /\ socketToAddress' = Lookup(saved, sock)
       /\ notifyForRead(Lookup(saved, sock)[sock], buf, ret)

(* RECVFROM reads the address through src_addr without a test for NULL,    *)
(* and whether or not the kernel has filled it.                            *)
RecvfromCallback(sock, given, address, buf, ret) ==
  \/ given /\ \E saved \in Saved(sock, address) : RecvCallback(saved, sock, buf, ret)
  \/ /\ ~given /\ stopped' = "null"
     /\ UNCHANGED <<socketToAddress, memTaintMap, current>>

readNetworkCallback(fd, buf, ret) ==
  /\ IF ret = Modulus - 1 \/ fd \notin DOMAIN socketToAddress
     THEN UNCHANGED <<memTaintMap, current, stopped>>
     ELSE notifyForRead(socketToAddress[fd], buf, ret)
  /\ UNCHANGED socketToAddress

closeNetworkCallback(fd, ret) ==
  /\ socketToAddress' =
       IF ret = Modulus - 1 THEN socketToAddress
       ELSE Erase(socketToAddress, {fd})
  /\ UNCHANGED <<memTaintMap, current, stopped>>

(* The default case of the switch over socketcalls: recvmsg and later ones *)
UnhandledSocketcall ==
  /\ stopped' = "abort"
  /\ UNCHANGED <<socketToAddress, memTaintMap, current>>

(* activate: the 64-bit build does not observe socketcall.                 *)
Socketcall(callback) ==
  IF conf.wordSize = 32 THEN callback
  ELSE UNCHANGED <<socketToAddress, memTaintMap, current, stopped>>
=============================================================================
