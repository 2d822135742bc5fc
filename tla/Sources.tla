------------------------------ MODULE Sources ------------------------------
(***************************************************************************)
(* What changes the marks of memory besides instructions and files, in a   *)
(* program of one thread: system calls, whether their handler erases marks *)
(* (SyscallHandlers) or has an empty body, sockets (NetworkSource), the    *)
(* functions a program calls to tag memory (replace_functions.cpp) and the *)
(* wrappers of main (taint_func_args.cpp).  They share memTaintMap and the *)
(* generator, which the wrapper at the end of main deletes with the        *)
(* network source, while the program goes on to its exit handlers.         *)
(*                                                                         *)
(* A system call is one step: with one thread nothing happens between its  *)
(* entry and its exit but what the kernel does.  Which pages are mapped is *)
(* not kept track of: a call that is given others fails, and to fail is    *)
(* among its outcomes.  DYTAN_set_trace switches the log on and off, and   *)
(* is left out.                                                            *)
(***************************************************************************)
EXTENDS NetworkSource

CONSTANTS
  Memory,        \* addresses the program may have data at
  Buffer,        \* start addresses it gives to calls
  MaxLength,     \* bound on the length of a buffer it chooses
  Command,       \* second arguments of fcntl
  PageSize,      \* bytes of a page
  kernelSize,    \* object -> bytes the kernel writes
  Name,          \* names given to DYTAN_tag
  Arguments,     \* main's arguments as ranges <<address, size>>: argc, and
                 \* from &argv[i] on as many bytes as argv[i] is long
  MaxMarks       \* bound on the marks handed out

ASSUME MemoryAssumption ==
  /\ Memory \subseteq ADDRINT \ {NULL} /\ Buffer \subseteq Memory
  (* the pages at 0 and those of the kernel hold no data of the program *)
  /\ \A a \in Memory, o \in Objects :
       /\ Command \subseteq 0 .. a - sizeof[o] /\ sizeof[o] <= a
       /\ a + sizeof[o] < Modulus /\ a + MaxLength < Modulus - 1
  (* the C library's objects have room for what the kernel writes *)
  /\ kernelSize \in [Objects -> Nat]
  /\ \A o \in Objects : kernelSize[o] <= sizeof[o]
  /\ \A o \in Objects, b \in Buffer : b .. b + kernelSize[o] - 1 \subseteq Memory
  /\ \A b \in Buffer : b .. b + MaxLength - 1 \subseteq Memory
  /\ Arguments \in Seq(ADDRINT \X Nat)
  /\ \A i \in DOMAIN Arguments :
       Arguments[i][1] .. Arguments[i][1] + Arguments[i][2] - 1 \subseteq Memory
  /\ MaxMarks \in Nat /\ MaxLength \in Nat /\ PageSize \in Nat \ {0}

(* No peer has the address 0.0.0.0:0.                                      *)
ASSUME HostAssumption == NoAddress \notin Host

VARIABLES
  tagMap,        \* name -> mark
  main,          \* "before", "inside" or "after"
  peer,          \* kernel: socket -> address of the other side
  origin,        \* history: byte -> what gave it its marks
  replaced,      \* history: byte the kernel has replaced the data of since
                 \* it got its marks -> whether the handler of the latest
                 \* such call claims to clear it
  last           \* history: the latest system call

vars == <<conf, socketToAddress, memTaintMap, current, stopped, tagMap, main,
          peer, origin, replaced, last>>

(* A system call: the bytes of the buffers it was given, and for a read of *)
(* a socket those the kernel wrote and the address they are from.          *)
Request(num, buffer, wrote, from) ==
  [sigaction |-> num = "rt_sigaction", buffer |-> buffer, wrote |-> wrote, from |-> from]
NoCall == Request("none", {}, {}, NoAddress)

Args(num, arg0, arg1, arg2, ret) ==
  [num |-> num, arg0 |-> arg0, arg1 |-> arg1, arg2 |-> arg2, ret |-> ret]

Init ==
  /\ conf \in Configurations
  /\ socketToAddress = << >> /\ memTaintMap = << >> /\ current = 0
  /\ stopped = "no" /\ tagMap = << >> /\ main = "before"
  /\ peer = << >> /\ origin = << >> /\ replaced = << >>
  /\ last = NoCall
-----------------------------------------------------------------------------
Failed == Modulus - 1     \* -1

(* Code that uses the generator or the network source after main may still *)
(* find what was there, or find something else, as here.                   *)
Deleted ==
  /\ main = "after" /\ stopped' = "undefined"
  /\ UNCHANGED <<socketToAddress, memTaintMap, current>>

Bytes(start, size) == start .. start + size - 1
Lengths == 0 .. MaxLength

(* The kernel replaced the data of wrote, in a call that was given buffer; *)
(* the bytes of marked got marks of their own.                             *)
KernelWrote(num, buffer, wrote, marked) ==
  replaced' = [a \in ((DOMAIN replaced \cup wrote) \ marked) \cap DOMAIN memTaintMap' |->
                 IF a \in wrote
                 THEN num \in ClearTaint /\ a \in buffer ELSE replaced[a]]

(* The kernel does the call, and its handler erases marks or does nothing. *)
SystemCall(args, buffer, wrote) ==
  /\ stopped = "no"
  /\ last' = Request(args.num, buffer, {}, NoAddress)
  /\ memTaintMap' = Erase(memTaintMap, Erased(args))
  /\ origin' = Erase(origin, Erased(args))
  /\ KernelWrote(args.num, buffer, wrote, {})
  /\ UNCHANGED <<conf, socketToAddress, current, stopped, tagMap, main, peer>>

(* The calls that fill one object: which, by which argument it is given,   *)
(* and whether that may be NULL.                                           *)
Filled ==
  [num : {"stat", "lstat", "fstat"}, object : {"stat64"}, at : {1}, optional : {FALSE}]
    \cup {[num |-> "rt_sigaction", object |-> "sigaction", at |-> 2, optional |-> TRUE],
          [num |-> "rt_sigprocmask", object |-> "sigset_t", at |-> 2, optional |-> TRUE],
          [num |-> "time", object |-> "time_t", at |-> 0, optional |-> TRUE],
          [num |-> "uname", object |-> "utsname", at |-> 0, optional |-> FALSE]}

(* rt_sigaction is given an object of the kernel's type, the others one of *)
(* the C library's.                                                        *)
FillObject(c, b, ok) ==
  LET size == IF c.num = "rt_sigaction" THEN kernelSize[c.object] ELSE sizeof[c.object]
      Arg(k) == IF c.at = k THEN b ELSE 0
  IN  /\ b = NULL => c.optional \/ ~ok
      /\ SystemCall(Args(c.num, Arg(0), Arg(1), Arg(2), IF ok THEN 0 ELSE Failed),
                    IF b = NULL THEN {} ELSE Bytes(b, size),
                    IF b = NULL \/ ~ok THEN {} ELSE Bytes(b, kernelSize[c.object]))

Gettimeofday(tv, tz) ==
  LET given == (IF tv = NULL THEN {} ELSE Bytes(tv, sizeof["timeval"]))
                 \cup (IF tz = NULL THEN {} ELSE Bytes(tz, sizeof["timezone"]))
  IN  SystemCall(Args("gettimeofday", tv, tz, 0, 0), given, given)

(* F_GETLK and the like have the kernel write n bytes at the third         *)
(* argument.                                                               *)
Fcntl(cmd, b, n, ret) ==
  SystemCall(Args("fcntl", 0, cmd, b, ret), Bytes(b, n),
             IF ret = Failed THEN {} ELSE Bytes(b, n))

(* n bytes are written, or none and the result is an error.                *)
FillBuffer(num, b, size, n) ==
  /\ n <= size \/ n = Failed
  /\ SystemCall(Args(num, 0, b, size, n), Bytes(b, size),
                IF n = Failed THEN {} ELSE Bytes(b, n))

(* Calls with an empty handler, or with none, in which the kernel writes n *)
(* bytes: what ioctl returns, the revents of poll, a file that no source   *)
(* observes; _llseek, set_thread_area and calls main adds no observer for  *)
(* are alike.                                                              *)
Silent == {"ioctl", "poll", "read"}

FillSilently(num, b, n) == SystemCall(Args(num, 0, b, n, n), Bytes(b, n), Bytes(b, n))

(* New pages at b, however much of the last was asked for; or MAP_FAILED.  *)
Pages(b, size) == Bytes(b, PageSize * ((size + PageSize - 1) \div PageSize))

Mmap(b, size) ==
  /\ size > 0 /\ b % PageSize = 0
  /\ SystemCall(Args("mmap", 0, size, 0, b), Bytes(b, size), Pages(b, size))

MmapFails(size) == SystemCall(Args("mmap", 0, size, 0, Failed), {}, {})

(* The pages are gone; what is mapped there next has other data.           *)
Munmap(b, size) ==
  /\ size > 0 /\ b % PageSize = 0
  /\ SystemCall(Args("munmap", b, size, 0, 0), Bytes(b, size), Pages(b, size))
-----------------------------------------------------------------------------
(* Mutant: a name gets a new mark whenever it is used.                     *)
AssignTagToByteRange_Renews(start, size, name) ==
  LET mark == nextTaintMark(current)
  IN  /\ tagMap' = Assign(tagMap, [n \in {name} |-> mark])
      /\ current' = current + 1
      /\ memTaintMap' = Assign(memTaintMap, [a \in Loop(start, size) |-> {mark}])

(* A name gets a mark when it is first used.                               *)
AssignTagToByteRange(start, size, name) ==
  LET new  == name \notin DOMAIN tagMap
      mark == IF new THEN nextTaintMark(current) ELSE tagMap[name]
  IN  /\ tagMap' = Assign(tagMap, [n \in {name} |-> mark])
      /\ current' = IF new THEN current + 1 ELSE current
      /\ memTaintMap' = Assign(memTaintMap, [a \in Loop(start, size) |-> {mark}])

DYTAN_tag(start, size, name) ==
  /\ stopped = "no" /\ current < MaxMarks
  /\ \/ /\ AssignTagToByteRange(start, size, name)
        /\ origin' = Assign(origin, [a \in Loop(start, size) |-> <<"tag", name>>])
        /\ replaced' = Erase(replaced, Loop(start, size))
        /\ UNCHANGED <<socketToAddress, stopped>>
     \/ name \notin DOMAIN tagMap /\ Deleted /\ UNCHANGED <<tagMap, origin, replaced>>
  /\ last' = NoCall
  /\ UNCHANGED <<conf, main, peer>>

(* DYTAN_display prints these marks; no branch is active here, so the      *)
(* control taint it adds is empty.                                         *)
DisplayTagsForByteRange(start, size) ==
  UNION {memTaintMap[a] : a \in Loop(start, size) \cap DOMAIN memTaintMap}

(* SetNewTaintForMemory for argc and then for each element of argv: later  *)
(* ranges overwrite earlier ones.                                          *)
ArgumentBytes(i) == Loop(Arguments[i][1], Arguments[i][2])

LatestArgument(a) ==
  CHOOSE i \in DOMAIN Arguments :
    /\ a \in ArgumentBytes(i)
    /\ \A j \in DOMAIN Arguments : j > i => a \notin ArgumentBytes(j)

main_wrapper_func ==
  LET covered == UNION {ArgumentBytes(i) : i \in DOMAIN Arguments}
  IN  /\ memTaintMap' = Assign(memTaintMap,
           [a \in covered |-> {nextTaintMark(current + LatestArgument(a) - 1)}])
      /\ current' = current + Len(Arguments)
      /\ origin' = Assign(origin, [a \in covered |-> <<"argument", LatestArgument(a)>>])
      /\ replaced' = Erase(replaced, covered)

EnterMain ==
  /\ stopped = "no" /\ main = "before"
  /\ main_wrapper_func
  /\ main' = "inside"
  /\ last' = NoCall
  /\ UNCHANGED <<conf, socketToAddress, stopped, tagMap, peer>>

(* The dump is in TagMemoryMap; cleanup is what the definition Deleted     *)
(* shows from now on.                                                      *)
main_wrapper_func_end ==
  /\ stopped = "no" /\ main = "inside"
  /\ main' = "after"
  /\ last' = NoCall
  /\ UNCHANGED <<conf, socketToAddress, memTaintMap, current, stopped, tagMap, peer,
                 origin, replaced>>
-----------------------------------------------------------------------------
(* Sockets.  The marks a read gives are of its own.                        *)
MarkedAnew ==
  {a \in DOMAIN memTaintMap' : a \notin DOMAIN memTaintMap \/ memTaintMap'[a] # memTaintMap[a]}

SocketCall(from, wrote) ==
  /\ stopped = "no" /\ current < MaxMarks
  /\ last' = Request("socket", wrote, wrote, from)
  /\ origin' = [a \in DOMAIN memTaintMap' |->
                  IF a \in MarkedAnew THEN <<"network", current, a>> ELSE origin[a]]
  /\ KernelWrote("socket", wrote, wrote, MarkedAnew)
  /\ UNCHANGED <<conf, tagMap, main>>

Connect(fd, a, ok) ==
  /\ Socketcall(ConnectCallback(fd, a) \/ Deleted)
  /\ SocketCall(NoAddress, {})
  /\ peer' = IF ok THEN Assign(peer, [s \in {fd} |-> a]) ELSE peer

Received(b, n) == IF n = Failed THEN {} ELSE Bytes(b, n)

Recv(fd, b, n) ==
  /\ fd \in DOMAIN peer
  /\ Socketcall(RecvCallback(socketToAddress, fd, b, n) \/ Deleted)
  /\ SocketCall(peer[fd], Received(b, n))
  /\ UNCHANGED peer

(* a is the sender of a datagram, or what the object src_addr points to    *)
(* happens to hold when the kernel does not fill it, as on a connected     *)
(* stream; src_addr may also be NULL.                                      *)
Recvfrom(fd, given, a, b, n) ==
  /\ Socketcall(RecvfromCallback(fd, given, a, b, n) \/ (given /\ Deleted))
  /\ SocketCall(IF fd \in DOMAIN peer THEN peer[fd] ELSE a, Received(b, n))
  /\ UNCHANGED peer

ReadSocket(fd, b, n) ==
  /\ fd \in DOMAIN peer
  /\ readNetworkCallback(fd, b, n) \/ (n # Failed /\ Deleted)
  /\ SocketCall(peer[fd], Received(b, n))
  /\ UNCHANGED peer

CloseSocket(fd, ret) ==
  /\ fd \in DOMAIN peer
  /\ closeNetworkCallback(fd, ret) \/ (ret # Failed /\ Deleted)
  /\ SocketCall(NoAddress, {})
  /\ peer' = IF ret = Failed THEN peer ELSE Erase(peer, {fd})

(* Handle_SOCKETCALL, which runs as well, accepts recvmsg and aborts at    *)
(* the others.                                                             *)
UnlistedSocketcall ==
  /\ Socketcall(UnhandledSocketcall)
  /\ SocketCall(NoAddress, {})
  /\ UNCHANGED peer
-----------------------------------------------------------------------------
Next ==
  \/ \E c \in Filled, b \in Buffer \cup {NULL}, ok \in BOOLEAN : FillObject(c, b, ok)
  \/ \E tv, tz \in Buffer \cup {NULL} : Gettimeofday(tv, tz)
  \/ \E cmd \in Command, b \in Buffer, n \in Lengths, ret \in {0, Failed} :
        Fcntl(cmd, b, n, ret)
  \/ \E num \in {"getdents64", "readlink"}, b \in Buffer, size \in Lengths,
        n \in Lengths \cup {Failed} : FillBuffer(num, b, size, n)
  \/ \E num \in Silent, b \in Buffer, n \in Lengths : FillSilently(num, b, n)
  \/ \E b \in Buffer, size \in Lengths : Mmap(b, size) \/ Munmap(b, size)
  \/ \E size \in Lengths : MmapFails(size)
  \/ \E b \in Buffer, size \in Lengths, name \in Name : DYTAN_tag(b, size, name)
  \/ EnterMain
  \/ main_wrapper_func_end
  \/ \E fd \in Fd, a \in Host, ok \in BOOLEAN : Connect(fd, a, ok)
  \/ \E fd \in Fd, b \in Buffer, n \in Lengths \cup {Failed} :
        \/ Recv(fd, b, n)
        \/ ReadSocket(fd, b, n)
        \/ \E a \in Host, given \in BOOLEAN : Recvfrom(fd, given, a, b, n)
  \/ \E fd \in Fd, ret \in {0, Failed} : CloseSocket(fd, ret)
  \/ UnlistedSocketcall

Spec == Init /\ [][Next]_vars
-----------------------------------------------------------------------------
(* Types; a mark is a bit of a bitset of Marks bits.                       *)
TypeOK ==
  /\ DOMAIN memTaintMap \subseteq Memory /\ DOMAIN origin = DOMAIN memTaintMap
  /\ \A a \in DOMAIN memTaintMap : memTaintMap[a] \subseteq 0 .. Marks - 1
  /\ DOMAIN socketToAddress \subseteq Fd
  /\ DOMAIN replaced \subseteq DOMAIN memTaintMap
  /\ stopped \in {"no", "abort", "undefined", "null"}
  /\ main \in {"before", "inside", "after"}
  /\ current \in 0 .. MaxMarks + MaxLength * (Len(conf.hosts) + 1) + Len(Arguments)

(* Marks outlive the data they were given for, replaced by the kernel,     *)
(* only where no handler claims to clear them (the comment "Clear taint",  *)
(* syscall_functions.cpp:119), or past the length mmap was asked for: the  *)
(* page is new as a whole, and Handle_MMAP loops over the length.  What a  *)
(* call with such a handler leaves in its buffer has no older marks,       *)
(* whichever calls replaced the data before.                               *)
StaleOnlyUncleared ==
  \A a \in DOMAIN replaced : ~replaced[a]

(* A byte loses its marks only when it lies in a buffer the call was       *)
(* given: not for an error used as a length or an address, a NULL pointer, *)
(* or the command of fcntl.  rt_sigaction is the exception: its handler    *)
(* takes the C library's struct for the kernel's, which is shorter.        *)
ErasesOnlyBuffer ==
  [][~last'.sigaction =>
       DOMAIN memTaintMap \ DOMAIN memTaintMap' \subseteq last'.buffer]_vars

(* "after all marks have been used, Dytan starts reassigning them"         *)
(* (README:66): until then bytes share a mark only if one name, argument   *)
(* or read gave it to both.                                                *)
MarksTellOrigins ==
  current <= Marks =>
    \A a, b \in DOMAIN memTaintMap :
      memTaintMap[a] \cap memTaintMap[b] # {} => origin[a] = origin[b]

(* Bytes tagged with one name, in however many calls, are displayed with   *)
(* the one mark of that name.                                              *)
DisplayShowsName ==
  \A name \in Name, b \in Memory, size \in 1 .. MaxLength :
    (\A a \in Bytes(b, size) : a \in DOMAIN origin /\ origin[a] = <<"tag", name>>) =>
      DisplayTagsForByteRange(b, size) = {tagMap[name]}

(* Until main ends, the unchecked result of find is end() only when "*" is *)
(* configured: a socket in socketToAddress has an address that is          *)
(* observed.  After main no generator and no monitor may be used.  The     *)
(* NULL that recvfrom may be given, and RECVFROM dereferences in every     *)
(* 32-bit configuration, is an outcome of its own.                         *)
UndefinedOnlyForAll ==
  stopped = "undefined" => conf.observeEverything \/ main = "after"

=============================================================================
