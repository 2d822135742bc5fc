--------------------------- MODULE SourcesProofs ---------------------------
(***************************************************************************)
(* Theorems about Sources, for every configuration, memory layout, sizes   *)
(* of objects and number of marks.                                         *)
(***************************************************************************)
EXTENDS Sources, WellFoundedInduction, TLAPS

(* No configuration leaves a socket in the monitor's map that it could     *)
(* find an observer for: "*" is given without hosts, and with hosts but    *)
(* without "*" no socket is saved.                                         *)
SocketsIgnored == stopped # "undefined" => DOMAIN socketToAddress = {}

(* Types, with what TypeOK leaves to the order of events: marks are handed *)
(* out up to the bound, and then those of main's arguments.                *)
TypeInv ==
  /\ TypeOK
  /\ conf \in Configurations
  /\ current \in Nat
  /\ current <= IF main = "before" THEN MaxMarks ELSE MaxMarks + Len(Arguments)
  /\ DOMAIN tagMap \subseteq Name
  /\ \A name \in DOMAIN tagMap : tagMap[name] \in 0 .. Marks - 1
  /\ DOMAIN peer \subseteq Fd /\ \A fd \in DOMAIN peer : peer[fd] \in Host

(* A byte that was last tagged has the one mark of its name.               *)
TaggedBytes ==
  \A a \in DOMAIN origin : \A name \in Name : origin[a] = <<"tag", name>> =>
    name \in DOMAIN tagMap /\ memTaintMap[a] = {tagMap[name]}

(* The marks handed out so far.                                            *)
Used == {nextTaintMark(k) : k \in 0 .. current - 1}

(* Until marks are reused: bytes and names have marks that were handed     *)
(* out, a mark is of one origin, and that of a name is of that name alone. *)
FirstRound ==
  current <= Marks =>
    /\ \A a \in DOMAIN memTaintMap : memTaintMap[a] \subseteq Used
    /\ \A name \in DOMAIN tagMap :
         /\ tagMap[name] \in Used
         /\ \A a \in DOMAIN memTaintMap :
              tagMap[name] \in memTaintMap[a] => origin[a] = <<"tag", name>>
         /\ \A other \in DOMAIN tagMap : tagMap[name] = tagMap[other] => name = other
    /\ \A a, b \in DOMAIN memTaintMap :
         memTaintMap[a] \cap memTaintMap[b] # {} => origin[a] = origin[b]

IInv ==
  /\ TypeInv
  /\ SocketsIgnored
  /\ UndefinedOnlyForAll
  /\ StaleOnlyUncleared
  /\ TaggedBytes
  /\ FirstRound
-----------------------------------------------------------------------------
(* Arithmetic.  Every set of natural numbers has a least element.          *)
LEMMA Least ==
  ASSUME NEW T \in SUBSET Nat, T # {}
  PROVE  \E x \in T : \A y \in T : x <= y
  <1>1. PICK x \in T : \A y \in T : ~(<<y, x>> \in OpToRel(<, Nat))
    BY NatLessThanWellFounded, WFMin
  <1>2. \A y \in T : ~(y < x)
    BY <1>1 DEF OpToRel
  <1> QED BY <1>2

(* A remainder is below the modulus, and a number below it is its own.     *)
LEMMA ModFacts ==
  ASSUME NEW M \in Nat \ {0}, NEW x \in Nat
  PROVE  x % M \in 0 .. M - 1 /\ x % M <= x /\ (x < M => x % M = x)
  OBVIOUS

(* A sum that wraps once.                                                  *)
LEMMA ModWrap ==
  ASSUME NEW M \in Nat \ {0}, NEW x \in M .. 2 * M - 1
  PROVE  x % M = x - M
  OBVIOUS

(* Division with remainder.                                                *)
LEMMA Division ==
  ASSUME NEW M \in Nat \ {0}, NEW x \in Nat
  PROVE  \E q \in Int : x = M * q + (x % M)
  <1>1. x = M * (x \div M) + (x % M) /\ x \div M \in Int
    OBVIOUS
  <1> QED BY <1>1

(* Numbers less than the modulus apart have different remainders: the      *)
(* generator repeats no mark before it has used all.                       *)
LEMMA ModDistinct ==
  ASSUME NEW M \in Nat \ {0}, NEW x \in Nat, NEW y \in Nat,
         x < y, y < x + M
  PROVE  x % M # y % M
  <1> SUFFICES ASSUME x % M = y % M PROVE FALSE
    OBVIOUS
  <1>1. PICK p \in Int : x = M * p + (x % M)
    BY Division
  <1>2. PICK q \in Int : y = M * q + (y % M)
    BY Division
  <1>. DEFINE r == x % M
  <1>3. r \in Int /\ x = M * p + r /\ y = M * q + r
    BY <1>1, <1>2
  <1>. HIDE DEF r
  <1>4. M * (q - p) = y - x
    BY <1>3
  <1>5. PICK d \in Int : d = q - p
    OBVIOUS
  <1>6. M * d > 0 /\ M * d < M
    BY <1>4, <1>5
  <1>7. d > 0
    BY <1>6
  <1>8. d < 1
    BY <1>6
  <1> QED BY <1>7, <1>8

(* The generator hands out Marks different marks before it starts again.   *)
LEMMA FreshMark ==
  ASSUME NEW j \in Nat, NEW k \in Nat, j < k, k < Marks
  PROVE  nextTaintMark(j) # nextTaintMark(k)
  <1>1. Marks \in Nat \ {0}
    BY NetworkAssumption
  <1>2. (j + 2) % Marks # (k + 2) % Marks
    <2>1. j + 2 \in Nat /\ k + 2 \in Nat /\ j + 2 < k + 2 /\ k + 2 < (j + 2) + Marks
      BY <1>1
    <2> QED BY <1>1, <2>1, ModDistinct
  <1> QED BY <1>2 DEF nextTaintMark

(* A mark is a bit of the bitset.                                          *)
LEMMA MarkType ==
  ASSUME NEW k \in Nat
  PROVE  nextTaintMark(k) \in 0 .. Marks - 1
  <1>1. Marks \in Nat \ {0} /\ k + 2 \in Nat
    BY NetworkAssumption
  <1>2. (k + 2) % Marks \in 0 .. Marks - 1
    BY <1>1, ModFacts
  <1> QED BY <1>2 DEF nextTaintMark

(* A loop from start to start + size covers the bytes in between, and      *)
(* nothing if the sum wraps around.                                        *)
LEMMA LoopBytes ==
  ASSUME NEW start \in ADDRINT, NEW size \in Nat
  PROVE  /\ Loop(start, size) \subseteq Bytes(start, size)
         /\ start + size < Modulus => Loop(start, size) = Bytes(start, size)
  <1>1. Modulus \in Nat \ {0} /\ start \in Nat /\ start + size \in Nat
    BY SizeAssumption DEF ADDRINT
  <1>. DEFINE e == (start + size) % Modulus
  <1>2. e <= start + size /\ (start + size < Modulus => e = start + size) /\ e \in Int
    <2>1. PICK x \in Nat : x = start + size
      BY <1>1
    <2>2. x % Modulus \in 0 .. Modulus - 1 /\ x % Modulus <= x
          /\ (x < Modulus => x % Modulus = x)
      BY <1>1, ModFacts
    <2> QED BY <1>1, <2>1, <2>2
  <1>3. Loop(start, size) = {addr \in ADDRINT : start <= addr /\ addr < e}
    BY DEF Loop
  <1>. HIDE DEF e
  <1> QED BY <1>1, <1>2, <1>3 DEF Bytes, ADDRINT

(* The loop of the handlers does not run when the end of the range wraps   *)
(* to a smaller address.                                                   *)
LEMMA LoopWraps ==
  ASSUME NEW start \in ADDRINT, NEW size \in ADDRINT, start + size >= Modulus
  PROVE  Loop(start, size) = {}
  <1>1. Modulus \in Nat \ {0} /\ start \in Nat /\ size \in Nat
        /\ start + size \in Modulus .. 2 * Modulus - 1 /\ size < Modulus
    BY SizeAssumption DEF ADDRINT
  <1>2. (start + size) % Modulus = start + size - Modulus
    <2>1. PICK x \in Modulus .. 2 * Modulus - 1 : x = start + size
      BY <1>1
    <2>2. x % Modulus = x - Modulus
      BY <1>1, ModWrap
    <2> QED BY <1>1, <2>1, <2>2
  <1> QED BY <1>1, <1>2 DEF Loop, ADDRINT
-----------------------------------------------------------------------------
(* Maps.                                                                   *)
LEMMA EraseMap ==
  ASSUME NEW map, NEW keys
  PROVE  /\ DOMAIN Erase(map, keys) = DOMAIN map \ keys
         /\ \A k \in DOMAIN map \ keys : Erase(map, keys)[k] = map[k]
  BY DEF Erase
-----------------------------------------------------------------------------
(* Sockets.  With "*" there are no hosts, so no address is found.          *)
LEMMA NothingFound ==
  ASSUME conf \in Configurations, conf.observeEverything, NEW a
  PROVE  Find(a) = {FALSE}
  <1>1. conf.hosts = << >>
    BY NetworkAssumption
  <1>2. Observed = {}
    BY <1>1 DEF Observed
  <1> QED BY <1>2 DEF Find

(* So no socket is ever saved.                                             *)
LEMMA NothingSaved ==
  ASSUME conf \in Configurations, NEW sock, NEW a, NEW saved \in Saved(sock, a)
  PROVE  saved = socketToAddress
  <1>1. PICK found \in Find(a) :
          saved = IF found /\ conf.observeEverything
                  THEN Assign(socketToAddress, [s \in {sock} |-> a])
                  ELSE socketToAddress
    BY DEF Saved
  <1> QED BY <1>1, NothingFound

(* What a socket call may do: nothing to the marks, and it stops the tool  *)
(* for the reasons UndefinedOnlyForAll gives.                              *)
Harmless ==
  /\ UNCHANGED <<memTaintMap, current>>
  /\ DOMAIN socketToAddress' \subseteq Fd
  /\ stopped' # "undefined" => DOMAIN socketToAddress' = {}
  /\ stopped' \in {"no", "abort", "undefined", "null"}
  /\ stopped' = "undefined" => conf.observeEverything \/ main = "after"

(* A receive on a socket that is not saved marks nothing.                  *)
LEMMA RecvHarmless ==
  ASSUME conf \in Configurations, DOMAIN socketToAddress = {}, stopped = "no",
         NEW sock \in Fd, NEW buf, NEW ret,
         RecvCallback(socketToAddress, sock, buf, ret)
  PROVE  Harmless
  <1>0. conf.observeEverything \in BOOLEAN
    BY NetworkAssumption
  <1>1. CASE ~conf.observeEverything
    BY <1>1 DEF RecvCallback, Harmless
  <1>2. CASE conf.observeEverything
    <2>1. DOMAIN Lookup(socketToAddress, sock) = {sock}
      BY DEF Lookup, Assign
    <2>2. PICK address :
            /\ notifyForRead(address, buf, ret)
            /\ socketToAddress' = Lookup(socketToAddress, sock)
      BY <1>2 DEF RecvCallback
    <2>3. Find(address) = {FALSE}
      BY <1>2, NothingFound
    <2>4. stopped' = "undefined" /\ UNCHANGED <<memTaintMap, current>>
      BY <2>2, <2>3 DEF notifyForRead
    <2> QED BY <1>2, <2>1, <2>2, <2>4 DEF Harmless
  <1> QED BY <1>0, <1>1, <1>2

(* Using the deleted monitor as if it were alive marks nothing either.     *)
LEMMA DeletedHarmless ==
  ASSUME DOMAIN socketToAddress = {}, Deleted
  PROVE  Harmless
  BY DEF Deleted, Harmless

SocketCalls ==
  \/ \E fd \in Fd, a \in Host, ok \in BOOLEAN : Connect(fd, a, ok)
  \/ \E fd \in Fd, b \in Buffer, n \in Lengths \cup {Failed} :
       \/ Recv(fd, b, n)
       \/ ReadSocket(fd, b, n)
       \/ \E a \in Host, given \in BOOLEAN : Recvfrom(fd, given, a, b, n)
  \/ \E fd \in Fd, ret \in {0, Failed} : CloseSocket(fd, ret)
  \/ UnlistedSocketcall

(* Each of them is a call on a socket.                                     *)
LEMMA SocketCallsAreCalls ==
  ASSUME SocketCalls
  PROVE  \E from, wrote : SocketCall(from, wrote)
  <1>1. ASSUME NEW fd, NEW given, NEW a, NEW b, NEW n, Recvfrom(fd, given, a, b, n)
        PROVE  \E from, wrote : SocketCall(from, wrote)
    BY <1>1, Zenon DEF Recvfrom
  <1>2. ASSUME NEW fd, NEW a, NEW ok, Connect(fd, a, ok)
        PROVE  \E from, wrote : SocketCall(from, wrote)
    BY <1>2, Zenon DEF Connect
  <1>3. ASSUME NEW fd, NEW b, NEW n, Recv(fd, b, n) \/ ReadSocket(fd, b, n)
        PROVE  \E from, wrote : SocketCall(from, wrote)
    BY <1>3, Zenon DEF Recv, ReadSocket
  <1>4. ASSUME NEW fd, NEW ret, CloseSocket(fd, ret)
        PROVE  \E from, wrote : SocketCall(from, wrote)
    BY <1>4, Zenon DEF CloseSocket
  <1>5. ASSUME UnlistedSocketcall
        PROVE  \E from, wrote : SocketCall(from, wrote)
    BY <1>5, Zenon DEF UnlistedSocketcall
  <1> QED BY <1>1, <1>2, <1>3, <1>4, <1>5, Zenon DEF SocketCalls

(* No callback of the network monitor marks anything.                      *)
LEMMA SocketCallsHarmless ==
  ASSUME TypeInv, SocketsIgnored, stopped = "no",
         SocketCalls
  PROVE  Harmless
  <1>1. conf \in Configurations /\ DOMAIN socketToAddress = {}
    BY DEF TypeInv, SocketsIgnored
  <1>2. UNCHANGED <<socketToAddress, memTaintMap, current, stopped>> => Harmless
    BY <1>1 DEF Harmless
  <1>3. ASSUME NEW fd \in Fd, NEW a \in Host, NEW ok \in BOOLEAN, Connect(fd, a, ok)
        PROVE  Harmless
    <2>1. ConnectCallback(fd, a) => Harmless
      BY <1>1, <1>2, NothingSaved DEF ConnectCallback
    <2> QED BY <1>1, <1>2, <1>3, <2>1, DeletedHarmless DEF Connect, Socketcall
  <1>4. ASSUME NEW fd \in Fd, NEW b, NEW n, Recv(fd, b, n)
        PROVE  Harmless
    BY <1>1, <1>2, <1>4, RecvHarmless, DeletedHarmless DEF Recv, Socketcall
  <1>5. ASSUME NEW fd \in Fd, NEW b, NEW n, ReadSocket(fd, b, n)
        PROVE  Harmless
    BY <1>1, <1>2, <1>5, DeletedHarmless DEF ReadSocket, readNetworkCallback
  <1>6. ASSUME NEW fd \in Fd, NEW given, NEW a, NEW b, NEW n,
               Recvfrom(fd, given, a, b, n)
        PROVE  Harmless
    <2>1. (\E saved \in Saved(fd, a) : RecvCallback(saved, fd, b, n)) => Harmless
      BY <1>1, NothingSaved, RecvHarmless
    <2>2. stopped' = "null" /\ UNCHANGED <<socketToAddress, memTaintMap, current>>
            => Harmless
      BY <1>1 DEF Harmless
    <2>3. RecvfromCallback(fd, given, a, b, n) => Harmless
      BY <2>1, <2>2 DEF RecvfromCallback
    <2> QED BY <1>1, <1>2, <1>6, <2>3, DeletedHarmless DEF Recvfrom, Socketcall
  <1>7. ASSUME NEW fd \in Fd, NEW ret, CloseSocket(fd, ret)
        PROVE  Harmless
    <2>1. closeNetworkCallback(fd, ret) => Harmless
      <3> SUFFICES ASSUME closeNetworkCallback(fd, ret) PROVE Harmless
        OBVIOUS
      <3>1. DOMAIN socketToAddress' = {} /\ UNCHANGED <<memTaintMap, current, stopped>>
        BY <1>1 DEF closeNetworkCallback, Erase
      <3> QED BY <3>1 DEF Harmless
    <2> QED BY <1>1, <1>7, <2>1, DeletedHarmless DEF CloseSocket
  <1>8. ASSUME UnlistedSocketcall
        PROVE  Harmless
    BY <1>1, <1>2, <1>8 DEF UnlistedSocketcall, Socketcall, UnhandledSocketcall,
                            Harmless
  <1> QED BY <1>3, <1>4, <1>5, <1>6, <1>7, <1>8 DEF SocketCalls
-----------------------------------------------------------------------------
(* System calls.  A handler's loop over an object covers the object, and,  *)
(* from NULL or from a command of fcntl, no data of the program.           *)
LEMMA BufferFacts ==
  ASSUME NEW b \in Buffer, NEW o \in Objects
  PROVE  /\ b \in ADDRINT /\ b \in Nat /\ b > 0
         /\ sizeof[o] \in Nat /\ kernelSize[o] \in Nat /\ kernelSize[o] <= sizeof[o]
         /\ b + sizeof[o] < Modulus /\ b + MaxLength < Modulus - 1
         /\ MaxLength \in Nat /\ Modulus \in Nat \ {0}
  <1>1. b \in Memory /\ b \in ADDRINT /\ b # 0
    BY MemoryAssumption DEF NULL
  <1>2. b + sizeof[o] < Modulus /\ b + MaxLength < Modulus - 1
    BY <1>1, MemoryAssumption
  <1> QED BY <1>1, <1>2, MemoryAssumption, SizeAssumption DEF ADDRINT

(* The loop over an object in a buffer covers what the kernel writes.      *)
LEMMA ObjectLoop ==
  ASSUME NEW b \in Buffer, NEW o \in Objects
  PROVE  /\ Loop(b, sizeof[o]) = Bytes(b, sizeof[o])
         /\ Bytes(b, kernelSize[o]) \subseteq Loop(b, sizeof[o])
  <1>1. Loop(b, sizeof[o]) = Bytes(b, sizeof[o])
    BY BufferFacts, LoopBytes
  <1>2. Bytes(b, kernelSize[o]) \subseteq Bytes(b, sizeof[o])
    BY BufferFacts DEF Bytes
  <1> QED BY <1>1, <1>2

(* NULL and the commands of fcntl, taken for addresses, reach no data.     *)
LEMMA NoDataLoop ==
  ASSUME NEW start \in Command \cup {NULL}, NEW o \in Objects
  PROVE  Loop(start, sizeof[o]) \cap Memory = {}
  <1> SUFFICES ASSUME NEW a \in Memory, a \in Loop(start, sizeof[o]) PROVE FALSE
    OBVIOUS
  <1>1. /\ Modulus \in Nat \ {0} /\ sizeof[o] \in Nat /\ a \in Nat
        /\ start \in Nat /\ start + sizeof[o] <= a
    <2>1. a \in ADDRINT /\ sizeof[o] \in Nat
      BY MemoryAssumption, SizeAssumption
    <2>2. Command \subseteq 0 .. a - sizeof[o] /\ sizeof[o] <= a
      BY MemoryAssumption
    <2>3. start \in 0 .. a - sizeof[o]
      BY <2>1, <2>2 DEF NULL, ADDRINT
    <2> QED BY <2>1, <2>2, <2>3, SizeAssumption DEF ADDRINT
  <1>2. a < (start + sizeof[o]) % Modulus
    BY DEF Loop
  <1>3. (start + sizeof[o]) % Modulus <= start + sizeof[o]
    <2>1. PICK x \in Nat : x = start + sizeof[o]
      BY <1>1
    <2>2. x % Modulus <= x
      BY <1>1, ModFacts
    <2> QED BY <2>1, <2>2
  <1>4. (start + sizeof[o]) % Modulus \in Int
    BY <1>1
  <1> QED BY <1>1, <1>2, <1>3, <1>4

(* What the handlers must do for a call that was given buffer, and in      *)
(* which the kernel wrote wrote: clear it within the buffer, if they claim *)
(* to, and nothing outside.                                                *)
Clears(args, buffer, wrote) ==
  /\ args.num \in ClearTaint => wrote \cap buffer \subseteq Erased(args)
  /\ args.num # "rt_sigaction" => Erased(args) \cap Memory \subseteq buffer

(* The calls that fill one object, and the argument that points to it.     *)
LEMMA FilledCases ==
  ASSUME NEW c \in Filled
  PROVE  \/ c.num \in {"stat", "lstat", "fstat"} /\ c.object = "stat64" /\ c.at = 1
         \/ c.num = "rt_sigaction" /\ c.object = "sigaction" /\ c.at = 2
         \/ c.num = "rt_sigprocmask" /\ c.object = "sigset_t" /\ c.at = 2
         \/ c.num = "time" /\ c.object = "time_t" /\ c.at = 0
         \/ c.num = "uname" /\ c.object = "utsname" /\ c.at = 0
  <1>1. \/ c \in [num : {"stat", "lstat", "fstat"}, object : {"stat64"}, at : {1},
                  optional : {FALSE}]
        \/ c = [num |-> "rt_sigaction", object |-> "sigaction", at |-> 2, optional |-> TRUE]
        \/ c = [num |-> "rt_sigprocmask", object |-> "sigset_t", at |-> 2, optional |-> TRUE]
        \/ c = [num |-> "time", object |-> "time_t", at |-> 0, optional |-> TRUE]
        \/ c = [num |-> "uname", object |-> "utsname", at |-> 0, optional |-> FALSE]
    BY Zenon DEF Filled
  <1>2. ASSUME c \in [num : {"stat", "lstat", "fstat"}, object : {"stat64"}, at : {1},
                      optional : {FALSE}]
        PROVE  c.num \in {"stat", "lstat", "fstat"} /\ c.object = "stat64" /\ c.at = 1
    BY <1>2
  <1>3. ASSUME NEW num, NEW object, NEW at, NEW optional,
               c = [num |-> num, object |-> object, at |-> at, optional |-> optional]
        PROVE  c.num = num /\ c.object = object /\ c.at = at
    BY <1>3
  <1> QED BY <1>1, <1>2, <1>3, Zenon

(* stat, rt_sigaction, rt_sigprocmask, time and uname.                     *)
LEMMA FillObjectClears ==
  ASSUME NEW c \in Filled, NEW b \in Buffer \cup {NULL}, NEW ok \in BOOLEAN,
         FillObject(c, b, ok)
  PROVE  \E args, buffer, wrote :
           SystemCall(args, buffer, wrote) /\ Clears(args, buffer, wrote)
  <1>. DEFINE size == IF c.num = "rt_sigaction" THEN kernelSize[c.object]
                      ELSE sizeof[c.object]
              Arg(k) == IF c.at = k THEN b ELSE 0
              args == Args(c.num, Arg(0), Arg(1), Arg(2), IF ok THEN 0 ELSE Failed)
              buffer == IF b = NULL THEN {} ELSE Bytes(b, size)
              wrote == IF b = NULL \/ ~ok THEN {} ELSE Bytes(b, kernelSize[c.object])
  <1>1. SystemCall(args, buffer, wrote)
    BY DEF FillObject
  <1>2. c.object \in Objects
    BY FilledCases DEF Objects
  <1>3. Erased(args) = Loop(b, sizeof[c.object]) \/ (b = NULL /\ Erased(args) = {})
    <2>1. CASE c.num \in {"stat", "lstat", "fstat"}
      <3>1. c.at = 1 /\ c.object = "stat64"
        BY <2>1, FilledCases
      <3> QED BY <2>1, <3>1 DEF Erased, Args, Handle_FSTAT64, Handle_LSTAT64,
                                Handle_STAT64
    <2>2. CASE c.num = "rt_sigaction"
      <3>1. c.at = 2 /\ c.object = "sigaction"
        BY <2>2, FilledCases
      <3> QED BY <2>2, <3>1 DEF Erased, Args, Handle_RT_SIGACTION
    <2>3. CASE c.num = "rt_sigprocmask"
      <3>1. c.at = 2 /\ c.object = "sigset_t"
        BY <2>3, FilledCases
      <3> QED BY <2>3, <3>1 DEF Erased, Args, Handle_RT_SIGPROCMASK
    <2>4. CASE c.num = "time"
      <3>1. c.at = 0 /\ c.object = "time_t"
        BY <2>4, FilledCases
      <3> QED BY <2>4, <3>1 DEF Erased, Args, Handle_TIME
    <2>5. CASE c.num = "uname"
      <3>1. c.at = 0 /\ c.object = "utsname"
        BY <2>5, FilledCases
      <3> QED BY <2>5, <3>1 DEF Erased, Args, Handle_UNAME
    <2> QED BY <2>1, <2>2, <2>3, <2>4, <2>5, FilledCases
  <1>4. args.num = c.num
    BY DEF Args
  <1>. HIDE DEF args
  <1>5. CASE b = NULL
    <2>1. Loop(b, sizeof[c.object]) \cap Memory = {}
      BY <1>2, <1>5, NoDataLoop
    <2>2. Erased(args) \cap Memory = {} /\ wrote = {}
      BY <1>3, <1>5, <2>1
    <2> QED BY <1>1, <2>2 DEF Clears
  <1>6. CASE b # NULL
    <2>1. b \in Buffer /\ Erased(args) = Loop(b, sizeof[c.object])
      BY <1>3, <1>6
    <2>2. /\ Erased(args) = Bytes(b, sizeof[c.object])
          /\ Bytes(b, kernelSize[c.object]) \subseteq Erased(args)
      BY <1>2, <2>1, ObjectLoop
    <2>3. wrote \subseteq Erased(args)
      BY <2>2
    <2>4. c.num # "rt_sigaction" => buffer = Erased(args)
      BY <1>6, <2>2
    <2> QED BY <1>1, <1>4, <2>3, <2>4 DEF Clears
  <1> QED BY <1>5, <1>6

(* gettimeofday, with either pointer NULL.                                 *)
LEMMA GettimeofdayClears ==
  ASSUME NEW tv \in Buffer \cup {NULL}, NEW tz \in Buffer \cup {NULL},
         Gettimeofday(tv, tz)
  PROVE  \E args, buffer, wrote :
           SystemCall(args, buffer, wrote) /\ Clears(args, buffer, wrote)
  <1>. DEFINE args == Args("gettimeofday", tv, tz, 0, 0)
              Given(b, o) == IF b = NULL THEN {} ELSE Bytes(b, sizeof[o])
              given == Given(tv, "timeval") \cup Given(tz, "timezone")
  <1>1. SystemCall(args, given, given)
    BY DEF Gettimeofday
  <1>2. Erased(args) = Loop(tv, sizeof["timeval"]) \cup Loop(tz, sizeof["timezone"])
    BY DEF Erased, Args, Handle_GETTIMEOFDAY
  <1>3. ASSUME NEW b \in Buffer \cup {NULL}, NEW o \in Objects
        PROVE  /\ Given(b, o) \subseteq Loop(b, sizeof[o])
               /\ Loop(b, sizeof[o]) \cap Memory \subseteq Given(b, o)
    <2>1. CASE b = NULL
      BY <2>1, NoDataLoop
    <2>2. CASE b # NULL
      BY <2>2, ObjectLoop
    <2> QED BY <2>1, <2>2
  <1>4. "timeval" \in Objects /\ "timezone" \in Objects
    BY DEF Objects
  <1>. HIDE DEF Given, args
  <1>5. Clears(args, given, given)
    BY <1>2, <1>3, <1>4 DEF Clears
  <1> QED BY <1>1, <1>5

(* fcntl, whose command the handler takes for an address.                  *)
LEMMA FcntlClears ==
  ASSUME NEW cmd \in Command, NEW b, NEW n, NEW ret, Fcntl(cmd, b, n, ret)
  PROVE  \E args, buffer, wrote :
           SystemCall(args, buffer, wrote) /\ Clears(args, buffer, wrote)
  <1>. DEFINE args == Args("fcntl", 0, cmd, b, ret)
              wrote == IF ret = Failed THEN {} ELSE Bytes(b, n)
  <1>1. SystemCall(args, Bytes(b, n), wrote)
    BY DEF Fcntl
  <1>2. Erased(args) = Loop(cmd, sizeof["stat64"]) /\ args.num \notin ClearTaint
    BY DEF Erased, Args, Handle_FSTAT64, ClearTaint
  <1>3. Erased(args) \cap Memory = {}
    BY <1>2, NoDataLoop DEF Objects
  <1> QED BY <1>1, <1>2, <1>3 DEF Clears

(* The calls whose handler is empty erase nothing.                         *)
LEMMA SilentClears ==
  ASSUME \/ \E num \in Silent, b \in Buffer, n \in Lengths : FillSilently(num, b, n)
         \/ \E b \in Buffer, size \in Lengths : Munmap(b, size)
  PROVE  \E args, buffer, wrote :
           SystemCall(args, buffer, wrote) /\ Clears(args, buffer, wrote)
  <1>1. PICK num, arg0, arg1, arg2, ret, buffer, wrote :
          /\ num \in Silent \cup {"munmap"}
          /\ SystemCall(Args(num, arg0, arg1, arg2, ret), buffer, wrote)
    BY DEF FillSilently, Munmap
  <1>. DEFINE args == Args(num, arg0, arg1, arg2, ret)
  <1>2. args.num \notin ClearTaint /\ Erased(args) = {}
    BY <1>1 DEF Silent, ClearTaint, Erased, Args
  <1>3. Clears(args, buffer, wrote)
    BY <1>2 DEF Clears
  <1> QED BY <1>1, <1>3

(* getdents64 and readlink, whose result is the length.                    *)
LEMMA FillBufferClears ==
  ASSUME NEW num \in {"getdents64", "readlink"}, NEW b \in Buffer,
         NEW size \in Lengths, NEW n \in Lengths \cup {Failed},
         FillBuffer(num, b, size, n)
  PROVE  \E args, buffer, wrote :
           SystemCall(args, buffer, wrote) /\ Clears(args, buffer, wrote)
  <1>. DEFINE args == Args(num, 0, b, size, n)
              wrote == IF n = Failed THEN {} ELSE Bytes(b, n)
  <1>1. SystemCall(args, Bytes(b, size), wrote) /\ (n <= size \/ n = Failed)
    BY DEF FillBuffer
  <1>2. /\ b \in ADDRINT /\ b \in Nat /\ b > 0 /\ b + MaxLength < Modulus - 1
        /\ MaxLength \in Nat /\ Modulus \in Nat \ {0} /\ size \in Nat /\ size <= MaxLength
    BY BufferFacts DEF Objects, Lengths
  <1>3. \A k \in Lengths : Loop(b, k) = Bytes(b, k)
    BY <1>2, LoopBytes DEF Lengths
  <1>4. n # Failed => Bytes(b, n) \subseteq Bytes(b, size)
    BY <1>1, <1>2 DEF Bytes, Lengths
  <1>5. CASE num = "getdents64"
    <2>1. Erased(args) = Bytes(b, size)
      BY <1>3, <1>5 DEF Erased, Args, Handle_GETDENTS64
    <2> QED BY <1>1, <1>4, <2>1 DEF Clears
  <1>6. CASE num = "readlink" /\ n # Failed
    <2>1. Erased(args) = Bytes(b, n)
      BY <1>3, <1>6 DEF Erased, Args, Handle_READLINK
    <2> QED BY <1>1, <1>4, <1>6, <2>1 DEF Clears
  <1>7. CASE num = "readlink" /\ n = Failed
    <2>1. n \in ADDRINT /\ b + n >= Modulus
      BY <1>2, <1>7 DEF Failed, ADDRINT
    <2>2. Erased(args) = {}
      BY <1>2, <1>7, <2>1, LoopWraps DEF Erased, Args, Handle_READLINK
    <2> QED BY <1>1, <1>7, <2>2 DEF Clears
  <1> QED BY <1>5, <1>6, <1>7

(* mmap, whose result is the address.                                      *)
LEMMA MmapClears ==
  ASSUME NEW size \in Lengths,
         (\E b \in Buffer : Mmap(b, size)) \/ MmapFails(size)
  PROVE  \E args, buffer, wrote :
           SystemCall(args, buffer, wrote) /\ Clears(args, buffer, wrote)
  <1>1. ASSUME NEW b \in Buffer, Mmap(b, size)
        PROVE  \E args, buffer, wrote :
                 SystemCall(args, buffer, wrote) /\ Clears(args, buffer, wrote)
    <2>. DEFINE args == Args("mmap", 0, size, 0, b)
    <2>1. SystemCall(args, Bytes(b, size), Pages(b, size))
      BY <1>1 DEF Mmap
    <2>2. /\ b \in ADDRINT /\ b \in Nat /\ b + MaxLength < Modulus - 1
          /\ MaxLength \in Nat /\ Modulus \in Nat \ {0} /\ size \in Nat /\ size <= MaxLength
      BY BufferFacts DEF Objects, Lengths
    <2>3. Erased(args) = Bytes(b, size)
      BY <2>2, LoopBytes DEF Erased, Args, Handle_MMAP
    <2> QED BY <2>1, <2>3 DEF Clears
  <1>2. ASSUME MmapFails(size)
        PROVE  \E args, buffer, wrote :
                 SystemCall(args, buffer, wrote) /\ Clears(args, buffer, wrote)
    <2>. DEFINE args == Args("mmap", 0, size, 0, Failed)
    <2>1. SystemCall(args, {}, {})
      BY <1>2 DEF MmapFails
    <2>2. Erased(args) = Loop(Failed, size)
      BY DEF Erased, Args, Handle_MMAP
    <2>3. Erased(args) \cap Memory = {}
      <3> SUFFICES ASSUME NEW a \in Memory PROVE a \notin Erased(args)
        OBVIOUS
      <3>1. a \in ADDRINT /\ a + MaxLength < Modulus - 1 /\ MaxLength \in Nat
            /\ Modulus \in Nat \ {0}
        <4>1. "stat64" \in Objects
          BY DEF Objects
        <4> QED BY <4>1, MemoryAssumption, SizeAssumption
      <3>2. Failed \in Int /\ a < Failed
        BY <3>1 DEF Failed, ADDRINT
      <3> QED BY <2>2, <3>1, <3>2 DEF Loop, ADDRINT
    <2> QED BY <2>1, <2>3 DEF Clears
  <1> QED BY <1>1, <1>2

(* The system calls that are not about sockets.                            *)
SystemCalls ==
  \/ \E c \in Filled, b \in Buffer \cup {NULL}, ok \in BOOLEAN : FillObject(c, b, ok)
  \/ \E tv, tz \in Buffer \cup {NULL} : Gettimeofday(tv, tz)
  \/ \E cmd \in Command, b \in Buffer, n \in Lengths, ret \in {0, Failed} :
        Fcntl(cmd, b, n, ret)
  \/ \E num \in {"getdents64", "readlink"}, b \in Buffer, size \in Lengths,
        n \in Lengths \cup {Failed} : FillBuffer(num, b, size, n)
  \/ \E num \in Silent, b \in Buffer, n \in Lengths : FillSilently(num, b, n)
  \/ \E b \in Buffer, size \in Lengths : Mmap(b, size) \/ Munmap(b, size)
  \/ \E size \in Lengths : MmapFails(size)

(* Every handler that claims to clear erases what the kernel wrote in the  *)
(* caller's buffer, and none erases outside it but that of rt_sigaction.   *)
LEMMA SystemCallsClear ==
  ASSUME SystemCalls
  PROVE  \E args, buffer, wrote :
           SystemCall(args, buffer, wrote) /\ Clears(args, buffer, wrote)
  BY FillObjectClears, GettimeofdayClears, FcntlClears, FillBufferClears, SilentClears,
     MmapClears DEF SystemCalls

(* The steps in the groups that the proofs treat alike.                    *)
LEMMA NextCases ==
  ASSUME Next
  PROVE  \/ SystemCalls
         \/ \E b \in Buffer, size \in Lengths, name \in Name : DYTAN_tag(b, size, name)
         \/ EnterMain
         \/ main_wrapper_func_end
         \/ SocketCalls
  BY DEF Next, SystemCalls, SocketCalls
-----------------------------------------------------------------------------
(* Bytes that lose their marks.                                            *)
LEMMA ErasesStep ==
  ASSUME TypeInv, SocketsIgnored, Next
  PROVE  ~last'.sigaction =>
           DOMAIN memTaintMap \ DOMAIN memTaintMap' \subseteq last'.buffer
  <1> SUFFICES ASSUME ~last'.sigaction
               PROVE  DOMAIN memTaintMap \ DOMAIN memTaintMap' \subseteq last'.buffer
    OBVIOUS
  <1>1. ASSUME SystemCalls
        PROVE  DOMAIN memTaintMap \ DOMAIN memTaintMap' \subseteq last'.buffer
    <2>1. PICK args, buffer, wrote :
            SystemCall(args, buffer, wrote) /\ Clears(args, buffer, wrote)
      BY <1>1, SystemCallsClear
    <2>2. DOMAIN memTaintMap' = DOMAIN memTaintMap \ Erased(args)
      BY <2>1, EraseMap DEF SystemCall
    <2>3. last'.buffer = buffer /\ args.num # "rt_sigaction"
      BY <2>1 DEF SystemCall, Request
    <2>4. DOMAIN memTaintMap \subseteq Memory
      BY DEF TypeInv, TypeOK
    <2> QED BY <2>1, <2>2, <2>3, <2>4 DEF Clears
  <1>2. ASSUME NEW b, NEW size, NEW name, DYTAN_tag(b, size, name)
        PROVE  DOMAIN memTaintMap \subseteq DOMAIN memTaintMap'
    BY <1>2 DEF DYTAN_tag, AssignTagToByteRange, Deleted, Assign
  <1>3. ASSUME EnterMain
        PROVE  DOMAIN memTaintMap \subseteq DOMAIN memTaintMap'
    BY <1>3 DEF EnterMain, main_wrapper_func, Assign
  <1>4. ASSUME main_wrapper_func_end
        PROVE  DOMAIN memTaintMap \subseteq DOMAIN memTaintMap'
    BY <1>4 DEF main_wrapper_func_end
  <1>5. ASSUME SocketCalls
        PROVE  DOMAIN memTaintMap \subseteq DOMAIN memTaintMap'
    <2>1. stopped = "no"
      <3>1. \E from, wrote : SocketCall(from, wrote)
        BY <1>5, SocketCallsAreCalls
      <3> QED BY <3>1 DEF SocketCall
    <2> QED BY <1>5, <2>1, SocketCallsHarmless DEF Harmless
  <1> QED BY <1>1, <1>2, <1>3, <1>4, <1>5, NextCases
-----------------------------------------------------------------------------
(* The bound of TypeOK.                                                    *)
LEMMA CurrentBound ==
  ASSUME NEW c \in Configurations, NEW k \in Nat, k <= MaxMarks + Len(Arguments)
  PROVE  /\ k \in 0 .. MaxMarks + MaxLength * (Len(c.hosts) + 1) + Len(Arguments)
         /\ Len(Arguments) \in Nat /\ MaxMarks \in Nat
  <1>1. Len(c.hosts) \in Nat
    BY NetworkAssumption
  <1>2. MaxLength \in Nat /\ MaxMarks \in Nat /\ Len(Arguments) \in Nat
    BY MemoryAssumption
  <1>3. PICK n \in Nat : n = Len(c.hosts) + 1
    BY <1>1
  <1>4. MaxLength * n \in Nat
    BY <1>2
  <1>5. PICK p \in Nat : p = MaxLength * (Len(c.hosts) + 1)
    BY <1>3, <1>4
  <1> QED BY <1>2, <1>5

(* Bytes that get marks are no longer marked for data that was replaced.   *)
LEMMA MarkedBytesFresh ==
  ASSUME IInv, NEW keys, replaced' = Erase(replaced, keys),
         DOMAIN memTaintMap \subseteq DOMAIN memTaintMap'
  PROVE  StaleOnlyUncleared' /\ DOMAIN replaced' \subseteq DOMAIN memTaintMap'
  <1>1. /\ DOMAIN replaced' = DOMAIN replaced \ keys
        /\ \A a \in DOMAIN replaced' : replaced'[a] = replaced[a]
    BY DEF Erase
  <1>2. DOMAIN replaced \subseteq DOMAIN memTaintMap
    BY DEF IInv, TypeInv, TypeOK
  <1> QED BY <1>1, <1>2 DEF IInv, StaleOnlyUncleared

(* A call clears bytes: every invariant speaks of the bytes that remain.   *)
LEMMA SystemStep ==
  ASSUME IInv, SystemCalls
  PROVE  IInv'
  <1>1. PICK args, buffer, wrote :
          SystemCall(args, buffer, wrote) /\ Clears(args, buffer, wrote)
    BY SystemCallsClear
  <1>2. /\ DOMAIN memTaintMap' = DOMAIN memTaintMap \ Erased(args)
        /\ \A a \in DOMAIN memTaintMap' : memTaintMap'[a] = memTaintMap[a]
        /\ DOMAIN origin' = DOMAIN origin \ Erased(args)
        /\ \A a \in DOMAIN origin' : origin'[a] = origin[a]
    BY <1>1 DEF SystemCall, Erase
  <1>3. UNCHANGED <<conf, socketToAddress, current, stopped, tagMap, main, peer>>
    BY <1>1 DEF SystemCall
  <1>9. /\ DOMAIN replaced' \subseteq DOMAIN memTaintMap'
        /\ \A a \in DOMAIN replaced' :
             replaced'[a] = IF a \in wrote THEN args.num \in ClearTaint /\ a \in buffer
                            ELSE replaced[a]
        /\ \A a \in DOMAIN replaced' : a \in wrote \/ a \in DOMAIN replaced
    BY <1>1 DEF SystemCall, KernelWrote
  <1>4. TypeInv'
    <2>1. TypeOK'
      BY <1>2, <1>3, <1>9 DEF IInv, TypeInv, TypeOK
    <2> QED BY <2>1, <1>3 DEF IInv, TypeInv
  <1>5. SocketsIgnored' /\ UndefinedOnlyForAll'
    BY <1>3 DEF IInv, SocketsIgnored, UndefinedOnlyForAll
  <1>6. StaleOnlyUncleared'
    <2> SUFFICES ASSUME NEW a \in DOMAIN replaced' PROVE ~replaced'[a]
      BY DEF StaleOnlyUncleared
    <2>1. CASE a \in wrote
      <3>1. a \notin Erased(args)
        BY <1>2, <1>9
      <3>2. ~(args.num \in ClearTaint /\ a \in buffer)
        BY <1>1, <2>1, <3>1 DEF Clears
      <3> QED BY <1>9, <2>1, <3>2
    <2>2. CASE a \notin wrote
      BY <1>9, <2>2 DEF IInv, StaleOnlyUncleared
    <2> QED BY <2>1, <2>2
  <1>7. TaggedBytes'
    BY <1>2, <1>3 DEF IInv, TaggedBytes, TypeInv, TypeOK
  <1>8. FirstRound'
    <2>1. Used' = Used
      BY <1>3 DEF Used
    <2> QED BY <1>2, <1>3, <2>1 DEF IInv, FirstRound, TypeInv, TypeOK
  <1> QED BY <1>4, <1>5, <1>6, <1>7, <1>8 DEF IInv

(* The calls on sockets preserve the invariant.                            *)
LEMMA SocketStep ==
  ASSUME IInv, SocketCalls
  PROVE  IInv'
  <1>1. PICK from, wrote : SocketCall(from, wrote)
    BY SocketCallsAreCalls
  <1>2. Harmless
    BY <1>1, SocketCallsHarmless DEF IInv, SocketCall
  <1>3. UNCHANGED <<conf, memTaintMap, current, tagMap, main>>
    BY <1>1, <1>2 DEF SocketCall, Harmless
  <1>4. DOMAIN origin' = DOMAIN origin /\ \A a \in DOMAIN origin : origin'[a] = origin[a]
    <2>1. MarkedAnew = {}
      BY <1>3 DEF MarkedAnew
    <2> QED BY <1>1, <1>3, <2>1 DEF SocketCall, IInv, TypeInv, TypeOK
  <1>10. /\ DOMAIN replaced' \subseteq DOMAIN memTaintMap'
         /\ \A a \in DOMAIN replaced' : ~replaced'[a]
    <2>1. KernelWrote("socket", wrote, wrote, MarkedAnew) /\ "socket" \notin ClearTaint
      BY <1>1 DEF SocketCall, ClearTaint
    <2> QED BY <2>1 DEF KernelWrote, IInv, StaleOnlyUncleared
  <1>5. DOMAIN peer' \subseteq Fd /\ \A fd \in DOMAIN peer' : peer'[fd] \in Host
    BY DEF SocketCalls, Connect, Recv, ReadSocket, Recvfrom, CloseSocket,
           UnlistedSocketcall, Assign, Erase, IInv, TypeInv
  <1>6. TypeInv'
    <2>1. TypeOK'
      BY <1>2, <1>3, <1>4, <1>10 DEF IInv, TypeInv, TypeOK, Harmless
    <2> QED BY <1>3, <1>5, <2>1 DEF IInv, TypeInv
  <1>7. SocketsIgnored' /\ UndefinedOnlyForAll'
    BY <1>2, <1>3 DEF SocketsIgnored, UndefinedOnlyForAll, Harmless
  <1>8. StaleOnlyUncleared'
    BY <1>10 DEF StaleOnlyUncleared
  <1>9. TaggedBytes' /\ FirstRound'
    <2>1. Used' = Used
      BY <1>3 DEF Used
    <2> QED BY <1>3, <1>4, <2>1 DEF IInv, TaggedBytes, FirstRound, TypeInv, TypeOK
  <1> QED BY <1>6, <1>7, <1>8, <1>9 DEF IInv

(* The end of main preserves the invariant.                                *)
LEMMA EndMainStep ==
  ASSUME IInv, main_wrapper_func_end
  PROVE  IInv'
  <1>1. /\ UNCHANGED <<conf, socketToAddress, memTaintMap, current, stopped, tagMap,
                       peer, origin, replaced>>
        /\ main = "inside" /\ main' = "after" /\ last' = NoCall /\ stopped = "no"
    BY DEF main_wrapper_func_end
  <1>2. TypeInv'
    <2>1. TypeOK'
      BY <1>1 DEF IInv, TypeInv, TypeOK
    <2> QED BY <1>1, <2>1 DEF IInv, TypeInv
  <1>3. SocketsIgnored' /\ UndefinedOnlyForAll'
    BY <1>1 DEF IInv, SocketsIgnored, UndefinedOnlyForAll
  <1>4. StaleOnlyUncleared'
    BY <1>1 DEF IInv, StaleOnlyUncleared
  <1>5. TaggedBytes' /\ FirstRound'
    <2>1. Used' = Used
      BY <1>1 DEF Used
    <2> QED BY <1>1, <2>1 DEF IInv, TaggedBytes, FirstRound
  <1> QED BY <1>2, <1>3, <1>4, <1>5 DEF IInv
-----------------------------------------------------------------------------
(* Marks handed out.                                                       *)
LEMMA UsedGrows ==
  ASSUME current \in Nat, current' \in Nat, current <= current'
  PROVE  /\ Used \subseteq Used'
         /\ \A k \in Nat : k < current' => nextTaintMark(k) \in Used'
  <1>1. PICK c \in Nat, d \in Nat : c = current /\ d = current'
    OBVIOUS
  <1>2. c <= d
    BY <1>1
  <1>3. /\ \A k \in 0 .. c - 1 : k \in 0 .. d - 1
        /\ \A k \in Nat : k < d => k \in 0 .. d - 1
    BY <1>2
  <1>4. Used = {nextTaintMark(k) : k \in 0 .. c - 1}
    BY <1>1 DEF Used
  <1>5. Used' = {nextTaintMark(k) : k \in 0 .. d - 1}
    BY <1>1 DEF Used, nextTaintMark
  <1> QED BY <1>1, <1>3, <1>4, <1>5

(* In the first round a mark not yet drawn is on no byte.                  *)
LEMMA NotUsed ==
  ASSUME current \in Nat, NEW k \in Nat, current <= k, k < Marks
  PROVE  nextTaintMark(k) \notin Used
  <1>1. \A j \in 0 .. current - 1 : j \in Nat /\ j < k
    OBVIOUS
  <1> QED BY <1>1, FreshMark DEF Used

(* A name is given to bytes.  A new name gets a mark that was not handed   *)
(* out, one that has a mark already is the only one with it.               *)
LEMMA TagStep ==
  ASSUME IInv, NEW b \in Buffer, NEW size \in Lengths, NEW name \in Name,
         DYTAN_tag(b, size, name), AssignTagToByteRange(b, size, name),
         origin' = Assign(origin, [a \in Loop(b, size) |-> <<"tag", name>>]),
         replaced' = Erase(replaced, Loop(b, size)),
         UNCHANGED <<socketToAddress, stopped>>
  PROVE  IInv'
  <1>. DEFINE bytes == Loop(b, size)
  <1>0. PICK mark : mark = IF name \notin DOMAIN tagMap THEN nextTaintMark(current)
                           ELSE tagMap[name]
    OBVIOUS
  <1>1. /\ DOMAIN tagMap' = DOMAIN tagMap \cup {name} /\ tagMap'[name] = mark
        /\ \A n \in DOMAIN tagMap : tagMap'[n] = tagMap[n]
    BY <1>0 DEF AssignTagToByteRange, Assign
  <1>2. /\ DOMAIN memTaintMap' = DOMAIN memTaintMap \cup bytes
        /\ \A a \in bytes : memTaintMap'[a] = {mark}
        /\ \A a \in DOMAIN memTaintMap \ bytes : memTaintMap'[a] = memTaintMap[a]
    BY <1>0 DEF AssignTagToByteRange, Assign
  <1>3. /\ DOMAIN origin' = DOMAIN origin \cup bytes
        /\ \A a \in bytes : origin'[a] = <<"tag", name>>
        /\ \A a \in DOMAIN origin \ bytes : origin'[a] = origin[a]
    BY DEF Assign
  <1>4. /\ current' = IF name \notin DOMAIN tagMap THEN current + 1 ELSE current
        /\ current < MaxMarks
        /\ last' = NoCall /\ UNCHANGED <<conf, main, peer, socketToAddress, stopped>>
    BY DEF AssignTagToByteRange, DYTAN_tag
  <1>5. current \in Nat /\ MaxMarks \in Nat /\ Len(Arguments) \in Nat
        /\ conf \in Configurations /\ DOMAIN origin = DOMAIN memTaintMap
    BY CurrentBound, MemoryAssumption DEF IInv, TypeInv, TypeOK
  <1>6. current' \in Nat /\ current <= current' /\ current' <= MaxMarks
        /\ current' <= MaxMarks + Len(Arguments)
    BY <1>4, <1>5
  <1>7. bytes \subseteq Memory
    <2>1. b \in ADDRINT /\ b \in Nat /\ size \in Nat /\ size <= MaxLength /\ MaxLength \in Nat
      BY BufferFacts DEF Objects, Lengths
    <2>2. bytes \subseteq Bytes(b, size)
      BY <2>1, LoopBytes
    <2>3. Bytes(b, size) \subseteq b .. b + MaxLength - 1
      BY <2>1 DEF Bytes
    <2> QED BY <2>2, <2>3, MemoryAssumption
  <1>. HIDE DEF bytes
  <1>8. SocketsIgnored' /\ UndefinedOnlyForAll'
    BY <1>4 DEF IInv, SocketsIgnored, UndefinedOnlyForAll
  <1>13. StaleOnlyUncleared' /\ DOMAIN replaced' \subseteq DOMAIN memTaintMap'
    BY <1>2, MarkedBytesFresh
  <1>9. TaggedBytes'
    <2> SUFFICES ASSUME NEW a \in DOMAIN origin', NEW n \in Name,
                        origin'[a] = <<"tag", n>>
                 PROVE  n \in DOMAIN tagMap' /\ memTaintMap'[a] = {tagMap'[n]}
      BY DEF TaggedBytes
    <2>1. CASE a \in bytes
      <3>1. <<"tag", n>> = <<"tag", name>>
        BY <1>3, <2>1
      <3>2. n = name
        BY <3>1
      <3> QED BY <1>1, <1>2, <2>1, <3>2
    <2>2. CASE a \notin bytes
      <3>1. a \in DOMAIN origin /\ origin[a] = <<"tag", n>>
        BY <1>3, <2>2
      <3>2. n \in DOMAIN tagMap /\ memTaintMap[a] = {tagMap[n]}
        BY <3>1 DEF IInv, TaggedBytes
      <3> QED BY <1>1, <1>2, <1>5, <2>2, <3>1, <3>2
    <2> QED BY <2>1, <2>2
  <1>10. mark \in 0 .. Marks - 1
    BY <1>0, <1>5, MarkType DEF IInv, TypeInv
  <1>11. TypeInv'
    <2>1. current' \in 0 .. MaxMarks + MaxLength * (Len(conf'.hosts) + 1) + Len(Arguments)
      BY <1>4, <1>5, <1>6, CurrentBound
    <2>2. DOMAIN memTaintMap' \subseteq Memory /\ DOMAIN origin' = DOMAIN memTaintMap'
      BY <1>2, <1>3, <1>5, <1>7 DEF IInv, TypeInv, TypeOK
    <2>3. \A a \in DOMAIN memTaintMap' : memTaintMap'[a] \subseteq 0 .. Marks - 1
      BY <1>2, <1>10 DEF IInv, TypeInv, TypeOK
    <2>4. TypeOK'
      BY <1>4, <1>13, <2>1, <2>2, <2>3 DEF IInv, TypeInv, TypeOK
    <2>5. \A n \in DOMAIN tagMap' : tagMap'[n] \in 0 .. Marks - 1
      BY <1>1, <1>10 DEF IInv, TypeInv
    <2> QED BY <1>1, <1>4, <1>6, <2>4, <2>5 DEF IInv, TypeInv
  <1>12. FirstRound'
    <2> SUFFICES ASSUME current' <= Marks
                 PROVE  FirstRound'
      BY DEF FirstRound
    <2>1. current <= Marks
      BY <1>5, <1>6, NetworkAssumption
    <2>2. Used \subseteq Used' /\ \A k \in Nat : k < current' => nextTaintMark(k) \in Used'
      BY <1>5, <1>6, UsedGrows
    <2>3. /\ \A a \in DOMAIN memTaintMap : memTaintMap[a] \subseteq Used
          /\ \A n \in DOMAIN tagMap :
               /\ tagMap[n] \in Used
               /\ \A a \in DOMAIN memTaintMap :
                    tagMap[n] \in memTaintMap[a] => origin[a] = <<"tag", n>>
               /\ \A other \in DOMAIN tagMap : tagMap[n] = tagMap[other] => n = other
          /\ \A a, c \in DOMAIN memTaintMap :
               memTaintMap[a] \cap memTaintMap[c] # {} => origin[a] = origin[c]
      BY <2>1 DEF IInv, FirstRound
    <2>4. mark \in Used' /\ (name \notin DOMAIN tagMap => mark \notin Used)
      <3>1. CASE name \in DOMAIN tagMap
        BY <1>0, <2>2, <2>3, <3>1
      <3>2. CASE name \notin DOMAIN tagMap
        <4>1. mark = nextTaintMark(current) /\ current < current' /\ current < Marks
          BY <1>0, <1>4, <1>5, <3>2, NetworkAssumption
        <4> QED BY <1>5, <2>2, <4>1, NotUsed
      <3> QED BY <3>1, <3>2
    <2>5. \A a \in DOMAIN memTaintMap : mark \in memTaintMap[a] => origin[a] = <<"tag", name>>
      BY <1>0, <2>3, <2>4
    <2>6. \A n \in DOMAIN tagMap : tagMap[n] = mark => n = name
      BY <1>0, <2>3, <2>4
    <2>7. \A a \in DOMAIN memTaintMap' : memTaintMap'[a] \subseteq Used'
      BY <1>2, <2>2, <2>3, <2>4
    <2>8. \A n \in DOMAIN tagMap' :
            /\ tagMap'[n] \in Used'
            /\ \A a \in DOMAIN memTaintMap' :
                 tagMap'[n] \in memTaintMap'[a] => origin'[a] = <<"tag", n>>
            /\ \A other \in DOMAIN tagMap' : tagMap'[n] = tagMap'[other] => n = other
      <3> SUFFICES ASSUME NEW n \in DOMAIN tagMap'
                   PROVE  /\ tagMap'[n] \in Used'
                          /\ \A a \in DOMAIN memTaintMap' :
                               tagMap'[n] \in memTaintMap'[a] => origin'[a] = <<"tag", n>>
                          /\ \A other \in DOMAIN tagMap' :
                               tagMap'[n] = tagMap'[other] => n = other
        OBVIOUS
      <3>1. tagMap'[n] \in Used'
        BY <1>1, <2>2, <2>3, <2>4
      <3>2. \A other \in DOMAIN tagMap' : tagMap'[n] = tagMap'[other] => n = other
        BY <1>1, <2>3, <2>6
      <3>3. ASSUME NEW a \in DOMAIN memTaintMap', tagMap'[n] \in memTaintMap'[a]
            PROVE  origin'[a] = <<"tag", n>>
        <4>1. CASE a \in bytes
          <5>1. tagMap'[n] = mark
            BY <1>2, <3>3, <4>1
          <5>2. n = name
            BY <1>1, <2>6, <5>1
          <5> QED BY <1>3, <4>1, <5>2
        <4>2. CASE a \notin bytes
          <5>1. /\ a \in DOMAIN memTaintMap /\ memTaintMap'[a] = memTaintMap[a]
                /\ origin'[a] = origin[a]
            BY <1>2, <1>3, <1>5, <4>2
          <5>2. CASE n = name
            BY <1>1, <2>5, <3>3, <5>1, <5>2
          <5>3. CASE n # name
            BY <1>1, <2>3, <3>3, <5>1, <5>3
          <5> QED BY <5>2, <5>3
        <4> QED BY <4>1, <4>2
      <3> QED BY <3>1, <3>2, <3>3
    <2>9. ASSUME NEW a \in DOMAIN memTaintMap', NEW c \in DOMAIN memTaintMap',
                 NEW m \in memTaintMap'[a], m \in memTaintMap'[c]
          PROVE  origin'[a] = origin'[c]
      <3>1. \A x \in DOMAIN memTaintMap' \ bytes :
              /\ x \in DOMAIN memTaintMap /\ memTaintMap'[x] = memTaintMap[x]
              /\ origin'[x] = origin[x]
        BY <1>2, <1>3, <1>5
      <3>2. CASE a \in bytes
        <4>1. m = mark /\ origin'[a] = <<"tag", name>>
          BY <1>2, <1>3, <2>9, <3>2
        <4>2. origin'[c] = <<"tag", name>>
          BY <1>3, <2>5, <2>9, <3>1, <4>1
        <4> QED BY <4>1, <4>2
      <3>3. CASE c \in bytes
        <4>1. m = mark /\ origin'[c] = <<"tag", name>>
          BY <1>2, <1>3, <2>9, <3>3
        <4>2. origin'[a] = <<"tag", name>>
          BY <1>3, <2>5, <2>9, <3>1, <4>1
        <4> QED BY <4>1, <4>2
      <3>4. CASE a \notin bytes /\ c \notin bytes
        BY <2>3, <2>9, <3>1, <3>4
      <3> QED BY <3>2, <3>3, <3>4
    <2>10. \A a, c \in DOMAIN memTaintMap' :
             memTaintMap'[a] \cap memTaintMap'[c] # {} => origin'[a] = origin'[c]
      BY <2>9
    <2> QED BY <2>7, <2>8, <2>10 DEF FirstRound
  <1> QED BY <1>8, <1>9, <1>11, <1>12, <1>13 DEF IInv
-----------------------------------------------------------------------------
(* A byte in some argument's range is in a last one.                       *)
LEMMA LatestExists ==
  ASSUME NEW i \in DOMAIN Arguments, NEW a \in ArgumentBytes(i)
  PROVE  LatestArgument(a) \in DOMAIN Arguments
  <1>1. DOMAIN Arguments = 1 .. Len(Arguments) /\ Len(Arguments) \in Nat
    BY MemoryAssumption
  <1>. DEFINE Gap(j) == Len(Arguments) - j
              T == {n \in Nat : \E j \in DOMAIN Arguments :
                                  a \in ArgumentBytes(j) /\ n = Gap(j)}
  <1>2. \A j \in DOMAIN Arguments : Gap(j) \in Nat
    BY <1>1
  <1>3. Gap(i) \in T
    BY <1>2
  <1>4. PICK x \in T : \A y \in T : x <= y
    BY <1>3, Least
  <1>5. PICK j \in DOMAIN Arguments : a \in ArgumentBytes(j) /\ x = Gap(j)
    OBVIOUS
  <1>6. ASSUME NEW k \in DOMAIN Arguments, k > j PROVE a \notin ArgumentBytes(k)
    <2> SUFFICES ASSUME a \in ArgumentBytes(k) PROVE FALSE
      OBVIOUS
    <2>1. Gap(k) \in T
      BY <1>2
    <2>2. x <= Gap(k)
      BY <1>4, <2>1
    <2>3. j \in Int /\ k \in Int
      BY <1>1
    <2> QED BY <1>1, <1>5, <1>6, <2>2, <2>3
  <1> QED BY <1>5, <1>6 DEF LatestArgument

(* The wrapper of main marks data of the program only.                     *)
LEMMA ArgumentsInMemory ==
  ASSUME NEW i \in DOMAIN Arguments
  PROVE  ArgumentBytes(i) \subseteq Memory
  <1>1. Arguments[i] \in ADDRINT \X Nat
    BY MemoryAssumption
  <1>2. Arguments[i][1] \in ADDRINT /\ Arguments[i][2] \in Nat
    BY <1>1
  <1>3. ArgumentBytes(i) \subseteq Bytes(Arguments[i][1], Arguments[i][2])
    BY <1>2, LoopBytes DEF ArgumentBytes
  <1> QED BY <1>3, MemoryAssumption DEF Bytes

(* The arguments of main get marks that were not handed out before.        *)
LEMMA MainStep ==
  ASSUME IInv, EnterMain
  PROVE  IInv'
  <1>. DEFINE covered == UNION {ArgumentBytes(i) : i \in DOMAIN Arguments}
              Latest(a) == LatestArgument(a)
  <1>1. /\ DOMAIN memTaintMap' = DOMAIN memTaintMap \cup covered
        /\ \A a \in covered : memTaintMap'[a] = {nextTaintMark(current + Latest(a) - 1)}
        /\ \A a \in DOMAIN memTaintMap \ covered : memTaintMap'[a] = memTaintMap[a]
    BY DEF EnterMain, main_wrapper_func, Assign
  <1>2. /\ DOMAIN origin' = DOMAIN origin \cup covered
        /\ \A a \in covered : origin'[a] = <<"argument", Latest(a)>>
        /\ \A a \in DOMAIN origin \ covered : origin'[a] = origin[a]
    BY DEF EnterMain, main_wrapper_func, Assign
  <1>3. /\ current' = current + Len(Arguments) /\ main = "before" /\ main' = "inside"
        /\ last' = NoCall /\ UNCHANGED <<conf, socketToAddress, stopped, tagMap, peer>>
        /\ stopped = "no"
    BY DEF EnterMain, main_wrapper_func
  <1>4. /\ current \in Nat /\ current <= MaxMarks /\ MaxMarks \in Nat
        /\ Len(Arguments) \in Nat /\ conf \in Configurations
        /\ DOMAIN origin = DOMAIN memTaintMap
    BY <1>3, MemoryAssumption DEF IInv, TypeInv, TypeOK
  <1>5. \A a \in covered : Latest(a) \in 1 .. Len(Arguments)
    BY LatestExists, MemoryAssumption
  <1>6. covered \subseteq Memory
    BY ArgumentsInMemory
  <1>. HIDE DEF covered, Latest
  <1>7. /\ current' \in Nat /\ current <= current'
        /\ current' <= MaxMarks + Len(Arguments)
    BY <1>3, <1>4
  <1>8. \A a \in covered : /\ current + Latest(a) - 1 \in Nat
                           /\ current <= current + Latest(a) - 1
                           /\ current + Latest(a) - 1 < current'
    BY <1>3, <1>4, <1>5
  <1>9. SocketsIgnored' /\ UndefinedOnlyForAll'
    BY <1>3 DEF IInv, SocketsIgnored, UndefinedOnlyForAll
  <1>13. StaleOnlyUncleared' /\ DOMAIN replaced' \subseteq DOMAIN memTaintMap'
    <2>1. replaced' = Erase(replaced, covered)
      BY DEF EnterMain, main_wrapper_func, covered
    <2> QED BY <1>1, <2>1, MarkedBytesFresh
  <1>10. TypeInv'
    <2>1. current' \in 0 .. MaxMarks + MaxLength * (Len(conf'.hosts) + 1) + Len(Arguments)
      BY <1>3, <1>4, <1>7, CurrentBound
    <2>2. DOMAIN memTaintMap' \subseteq Memory /\ DOMAIN origin' = DOMAIN memTaintMap'
      BY <1>1, <1>2, <1>4, <1>6 DEF IInv, TypeInv, TypeOK
    <2>3. \A a \in covered : memTaintMap'[a] \subseteq 0 .. Marks - 1
      BY <1>1, <1>8, MarkType
    <2>4. \A a \in DOMAIN memTaintMap' : memTaintMap'[a] \subseteq 0 .. Marks - 1
      BY <1>1, <2>3 DEF IInv, TypeInv, TypeOK
    <2>5. TypeOK'
      BY <1>3, <1>13, <2>1, <2>2, <2>4 DEF IInv, TypeInv, TypeOK
    <2> QED BY <1>3, <1>7, <2>5 DEF IInv, TypeInv
  <1>11. TaggedBytes'
    <2> SUFFICES ASSUME NEW a \in DOMAIN origin', NEW n \in Name,
                        origin'[a] = <<"tag", n>>
                 PROVE  n \in DOMAIN tagMap' /\ memTaintMap'[a] = {tagMap'[n]}
      BY DEF TaggedBytes
    <2>1. a \notin covered
      <3> SUFFICES ASSUME a \in covered PROVE FALSE
        OBVIOUS
      <3>1. <<"tag", n>> = <<"argument", Latest(a)>>
        BY <1>2
      <3>2. "tag" = "argument"
        BY <3>1
      <3> QED BY <3>2
    <2>2. a \in DOMAIN origin /\ origin[a] = <<"tag", n>>
      BY <1>2, <2>1
    <2> QED BY <1>1, <1>3, <1>4, <2>1, <2>2 DEF IInv, TaggedBytes
  <1>12. FirstRound'
    <2> SUFFICES ASSUME current' <= Marks
                 PROVE  FirstRound'
      BY DEF FirstRound
    <2>1. current <= Marks /\ Marks \in Nat
      BY <1>4, <1>7, NetworkAssumption
    <2>2. Used \subseteq Used' /\ \A k \in Nat : k < current' => nextTaintMark(k) \in Used'
      BY <1>4, <1>7, UsedGrows
    <2>3. /\ \A a \in DOMAIN memTaintMap : memTaintMap[a] \subseteq Used
          /\ \A n \in DOMAIN tagMap :
               /\ tagMap[n] \in Used
               /\ \A a \in DOMAIN memTaintMap :
                    tagMap[n] \in memTaintMap[a] => origin[a] = <<"tag", n>>
               /\ \A other \in DOMAIN tagMap : tagMap[n] = tagMap[other] => n = other
          /\ \A a, c \in DOMAIN memTaintMap :
               memTaintMap[a] \cap memTaintMap[c] # {} => origin[a] = origin[c]
      BY <2>1 DEF IInv, FirstRound
    <2>4. ASSUME NEW a \in covered, NEW m \in memTaintMap'[a]
          PROVE  m \notin Used /\ m \in Used'
      <3>1. PICK k \in Nat : k = current + Latest(a) - 1
        BY <1>8
      <3>2. current <= k /\ k < current' /\ k < Marks
        BY <1>7, <1>8, <2>1, <3>1
      <3>3. m = nextTaintMark(k)
        BY <1>1, <2>4, <3>1
      <3> QED BY <1>4, <2>2, <3>2, <3>3, NotUsed
    <2>5. ASSUME NEW a \in covered, NEW c \in covered,
                 NEW m \in memTaintMap'[a], m \in memTaintMap'[c]
          PROVE  origin'[a] = origin'[c]
      <3>1. PICK j \in Nat, k \in Nat :
              j = current + Latest(a) - 1 /\ k = current + Latest(c) - 1
        BY <1>8
      <3>2. j < Marks /\ k < Marks
        BY <1>7, <1>8, <2>1, <3>1
      <3>3. nextTaintMark(j) = nextTaintMark(k)
        BY <1>1, <2>5, <3>1
      <3>4. j = k
        BY <3>2, <3>3, FreshMark
      <3>5. Latest(a) = Latest(c)
        BY <1>4, <1>5, <3>1, <3>4
      <3> QED BY <1>2, <3>5
    <2>6. \A x \in DOMAIN memTaintMap' \ covered :
            /\ x \in DOMAIN memTaintMap /\ memTaintMap'[x] = memTaintMap[x]
            /\ origin'[x] = origin[x]
      BY <1>1, <1>2, <1>4
    <2>7. \A a \in DOMAIN memTaintMap' : memTaintMap'[a] \subseteq Used'
      BY <2>2, <2>3, <2>4, <2>6
    <2>8. \A n \in DOMAIN tagMap' :
            /\ tagMap'[n] \in Used'
            /\ \A a \in DOMAIN memTaintMap' :
                 tagMap'[n] \in memTaintMap'[a] => origin'[a] = <<"tag", n>>
            /\ \A other \in DOMAIN tagMap' : tagMap'[n] = tagMap'[other] => n = other
      BY <1>3, <2>2, <2>3, <2>4, <2>6
    <2>9. ASSUME NEW a \in DOMAIN memTaintMap', NEW c \in DOMAIN memTaintMap',
                 NEW m \in memTaintMap'[a], m \in memTaintMap'[c]
          PROVE  origin'[a] = origin'[c]
      <3>1. CASE a \in covered /\ c \in covered
        BY <2>5, <2>9, <3>1
      <3>2. CASE a \in covered /\ c \notin covered
        BY <2>3, <2>4, <2>6, <2>9, <3>2
      <3>3. CASE a \notin covered /\ c \in covered
        BY <2>3, <2>4, <2>6, <2>9, <3>3
      <3>4. CASE a \notin covered /\ c \notin covered
        BY <2>3, <2>6, <2>9, <3>4
      <3> QED BY <3>1, <3>2, <3>3, <3>4
    <2>10. \A a, c \in DOMAIN memTaintMap' :
             memTaintMap'[a] \cap memTaintMap'[c] # {} => origin'[a] = origin'[c]
      BY <2>9
    <2> QED BY <2>7, <2>8, <2>10 DEF FirstRound
  <1> QED BY <1>9, <1>10, <1>11, <1>12, <1>13 DEF IInv
-----------------------------------------------------------------------------
(* The invariant holds initially.                                          *)
LEMMA IInvInit == Init => IInv
  <1> SUFFICES ASSUME Init PROVE IInv
    OBVIOUS
  <1>1. /\ conf \in Configurations /\ current = 0 /\ stopped = "no" /\ main = "before"
        /\ DOMAIN socketToAddress = {} /\ DOMAIN memTaintMap = {} /\ DOMAIN origin = {}
        /\ DOMAIN tagMap = {} /\ DOMAIN peer = {} /\ DOMAIN replaced = {}
    BY DEF Init
  <1>2. MaxMarks \in Nat /\ Len(Arguments) \in Nat
    BY MemoryAssumption
  <1>3. TypeInv
    <2>1. current \in 0 .. MaxMarks + MaxLength * (Len(conf.hosts) + 1) + Len(Arguments)
      BY <1>1, <1>2, CurrentBound
    <2>2. TypeOK
      BY <1>1, <2>1 DEF TypeOK
    <2> QED BY <1>1, <1>2, <2>2 DEF TypeInv
  <1>4. StaleOnlyUncleared
    BY <1>1 DEF StaleOnlyUncleared
  <1> QED BY <1>1, <1>3, <1>4 DEF IInv, SocketsIgnored, UndefinedOnlyForAll,
                                  TaggedBytes, FirstRound

(* Every step preserves the invariant.                                     *)
LEMMA IInvStep == IInv /\ [Next]_vars => IInv'
  <1> SUFFICES ASSUME IInv, [Next]_vars PROVE IInv'
    OBVIOUS
  <1>1. ASSUME NEW b \in Buffer, NEW size \in Lengths, NEW name \in Name,
               DYTAN_tag(b, size, name)
        PROVE  IInv'
    <2>1. CASE AssignTagToByteRange(b, size, name)
               /\ origin' = Assign(origin, [a \in Loop(b, size) |-> <<"tag", name>>])
               /\ replaced' = Erase(replaced, Loop(b, size))
               /\ UNCHANGED <<socketToAddress, stopped>>
      BY <1>1, <2>1, TagStep
    <2>2. CASE Deleted /\ UNCHANGED <<tagMap, origin, replaced>>
      <3>1. /\ UNCHANGED <<conf, main, peer, socketToAddress, memTaintMap, current,
                           tagMap, origin, replaced>>
            /\ main = "after" /\ stopped' = "undefined"
        BY <1>1, <2>2 DEF Deleted, DYTAN_tag
      <3>2. TypeInv'
        <4>1. TypeOK'
          BY <3>1 DEF IInv, TypeInv, TypeOK
        <4> QED BY <3>1, <4>1 DEF IInv, TypeInv
      <3>3. SocketsIgnored' /\ UndefinedOnlyForAll' /\ StaleOnlyUncleared'
        BY <3>1 DEF IInv, SocketsIgnored, UndefinedOnlyForAll, StaleOnlyUncleared
      <3>4. TaggedBytes' /\ FirstRound'
        <4>1. Used' = Used
          BY <3>1 DEF Used
        <4> QED BY <3>1, <4>1 DEF IInv, TaggedBytes, FirstRound
      <3> QED BY <3>2, <3>3, <3>4 DEF IInv
    <2> QED BY <1>1, <2>1, <2>2 DEF DYTAN_tag
  <1>2. CASE UNCHANGED vars
    <2>1. Used' = Used
      BY <1>2 DEF Used, vars
    <2>2. TypeInv'
      <3>1. TypeOK'
        BY <1>2 DEF IInv, TypeInv, TypeOK, vars
      <3> QED BY <1>2, <3>1 DEF IInv, TypeInv, vars
    <2> QED BY <1>2, <2>1, <2>2 DEF IInv, vars, SocketsIgnored, UndefinedOnlyForAll,
               StaleOnlyUncleared, TaggedBytes, FirstRound
  <1> QED BY <1>1, <1>2, SystemStep, SocketStep, MainStep, EndMainStep, NextCases

(* The invariant holds in every reachable state.                           *)
LEMMA Invariance == Spec => []IInv
  BY IInvInit, IInvStep, PTL DEF Spec

(* Types: marks are bits of the bitset, whatever draws them in whatever    *)
(* order, and only bytes of the program's memory are ever marked.          *)
THEOREM SourcesTypeCorrect == Spec => []TypeOK
  <1>1. IInv => TypeOK
    BY DEF IInv, TypeInv
  <1> QED BY <1>1, Invariance, PTL

(* In the buffer of a call whose handler claims to clear taint no byte the *)
(* kernel wrote keeps older marks, for any sizes of the objects and pages, *)
(* whether or not the call succeeded, and whatever was called before.      *)
THEOREM HandlersClear == Spec => []StaleOnlyUncleared
  <1>1. IInv => StaleOnlyUncleared
    BY DEF IInv
  <1> QED BY <1>1, Invariance, PTL

(* The end of the map is dereferenced only with "*" configured, and what   *)
(* was deleted is used only after main.                                    *)
THEOREM UndefinedBehaviour == Spec => []UndefinedOnlyForAll
  <1>1. IInv => UndefinedOnlyForAll
    BY DEF IInv
  <1> QED BY <1>1, Invariance, PTL

(* No configuration marks what is received from a socket: as long as the   *)
(* behaviour is defined, the monitor knows no socket.                      *)
THEOREM NoSocketObserved == Spec => []SocketsIgnored
  <1>1. IInv => SocketsIgnored
    BY DEF IInv
  <1> QED BY <1>1, Invariance, PTL

(* Until the generator starts again, bytes share a mark only if they were  *)
(* given it by one name or one argument.                                   *)
THEOREM OriginsTold == Spec => []MarksTellOrigins
  <1>1. IInv => MarksTellOrigins
    BY DEF IInv, FirstRound, MarksTellOrigins
  <1> QED BY <1>1, Invariance, PTL

(* Bytes tagged with one name are displayed with its mark and no other,    *)
(* also after marks are reused.                                            *)
THEOREM NamesDisplayed == Spec => []DisplayShowsName
  <1>1. IInv => DisplayShowsName
    <2> SUFFICES ASSUME IInv, NEW name \in Name, NEW b \in Memory,
                        NEW size \in 1 .. MaxLength,
                        \A a \in Bytes(b, size) :
                          a \in DOMAIN origin /\ origin[a] = <<"tag", name>>
                 PROVE  DisplayTagsForByteRange(b, size) = {tagMap[name]}
      BY DEF DisplayShowsName
    <2>1. /\ MaxLength \in Nat /\ b \in ADDRINT /\ b \in Nat /\ size \in Nat /\ size > 0
          /\ Modulus \in Nat \ {0} /\ b + size < Modulus
      <3>1. "stat64" \in Objects
        BY DEF Objects
      <3> QED BY <3>1, MemoryAssumption, SizeAssumption DEF ADDRINT
    <2>2. Loop(b, size) = Bytes(b, size) /\ b \in Bytes(b, size)
      BY <2>1, LoopBytes DEF Bytes
    <2>3. \A a \in Bytes(b, size) : a \in DOMAIN memTaintMap /\ memTaintMap[a] = {tagMap[name]}
      BY DEF IInv, TaggedBytes, TypeInv, TypeOK
    <2> QED BY <2>2, <2>3 DEF DisplayTagsForByteRange
  <1> QED BY <1>1, Invariance, PTL

(* A byte loses its marks only in a buffer the call was given: no length,  *)
(* address or command that is not one is taken for a range of the memory.  *)
THEOREM HandlersEraseOnlyBuffer == Spec => ErasesOnlyBuffer
  <1>1. IInv /\ [Next]_vars =>
          [~last'.sigaction =>
             DOMAIN memTaintMap \ DOMAIN memTaintMap' \subseteq last'.buffer]_vars
    BY ErasesStep DEF IInv
  <1> QED BY <1>1, Invariance, PTL DEF Spec, ErasesOnlyBuffer
=============================================================================
