----------------------------- MODULE PathSource -----------------------------
(***************************************************************************)
(* Files as taint sources: SyscallMonitor (include/syscall_monitor.H),     *)
(* PathMonitor (monitor_path.cpp) and PathTaintSource                      *)
(* (taint_source_path.cpp).                                                *)
(*                                                                         *)
(* A system call of a thread is three steps.  SysBefore stores the         *)
(* arguments under the thread's id, the kernel does the call, SysAfter     *)
(* fetches the arguments and runs the observers of the call.  The lock of  *)
(* the monitor makes each of SysBefore and SysAfter one step; it is not    *)
(* held in between, so calls of other threads come there.                  *)
(*                                                                         *)
(* The observers of open, close and read are those of one PathMonitor per  *)
(* configured source, in the order of the configuration.  dup is observed  *)
(* by Handle_DUP alone, which writes openFiles; nothing reads openFiles,   *)
(* and it is left out.                                                     *)
(***************************************************************************)
EXTENDS Integers, SequencesExt

CONSTANTS
  Thread,
  Fd,          \* descriptors the kernel may hand out
  Path,
  Calls,       \* thread -> system calls it makes
  Buffer,      \* thread -> start address of the buffer it reads into
  MaxRead,     \* bound on the bytes of one read
  Sources,     \* the <source type="path"> sections: file, all ("*"),
               \* granularity
  Ranges,      \* datFile: pairs <<start, end>>
  Marks,       \* _max of the TaintGenerator
  MaxCount     \* bound on the bytes that PerOffset observers count

ASSUME SourceAssumption ==
  Sources \in Seq([file : SUBSET Path, all : BOOLEAN,
                   granularity : {"PerByte", "PerRead", "PerOffset"}])
ASSUME BoundAssumption ==
  /\ Marks \in Nat \ {0} /\ MaxRead \in Nat /\ MaxCount \in Nat
  /\ Ranges \in Seq(Nat \X Nat)
  /\ Buffer \in [Thread -> Nat]
  /\ Calls \in [Thread -> SUBSET {"open", "close", "read", "dup"}]
  /\ Fd \subseteq Nat

VARIABLES
  files,                  \* the kernel's descriptors: path, and how they
                          \* came to be ("open", "dup")
  known,                  \* descriptors the program holds and is not closing
  phase, call, ret,       \* of each thread's system call
  pendingSyscalls,        \* thread -> arguments, for threads that did a call
  activeFileDescriptors,  \* of each source's monitor: descriptor -> path
  memTaintMap, current, count,
  aborted,                \* bitset_set_bit's assertion failed
  reused                  \* history: descriptors opened while a close of the
                          \* same number was not yet reported
kernel == <<files, known, reused>>
taint  == <<memTaintMap, current, count, aborted>>
vars   == <<kernel, phase, call, ret, pendingSyscalls, activeFileDescriptors,
            taint>>

(* map[k] = v, for a std::map.                                             *)
Assign(map, k, v) == [x \in DOMAIN map \cup {k} |-> IF x = k THEN v ELSE map[x]]

Monitor == 1 .. Len(Sources)
Bytes(t) == Buffer[t] .. Buffer[t] + MaxRead - 1
Address == UNION {Bytes(t) : t \in Thread}
Error == -1

OpenFile(p)   == [num |-> "open", path |-> p]
CloseFile(fd) == [num |-> "close", fd |-> fd]
ReadFile(fd, buf) == [num |-> "read", fd |-> fd, buf |-> buf]
Duplicate(fd) == [num |-> "dup", fd |-> fd]

(* What a well-behaved program may ask for: it uses a descriptor from the  *)
(* return of the call that made it until it closes it, and does not close  *)
(* one that a thread is using.                                             *)
InUse(fd) ==
  \E t \in Thread : phase[t] # "app" /\ call[t].num \in {"read", "dup"}
                      /\ call[t].fd = fd
Requests(t) ==
  {args \in {OpenFile(p) : p \in Path}
               \cup {CloseFile(fd) : fd \in {f \in known : ~InUse(f)}}
               \cup {ReadFile(fd, Buffer[t]) : fd \in known}
               \cup {Duplicate(fd) : fd \in known} : args.num \in Calls[t]}

Init ==
  /\ files = << >> /\ known = {} /\ reused = {}
  /\ phase = [t \in Thread |-> "app"]
  /\ call = [t \in Thread |-> Duplicate(0)]
  /\ ret = [t \in Thread |-> 0]
  /\ pendingSyscalls = << >>
  /\ activeFileDescriptors = [m \in Monitor |-> << >>]
  /\ memTaintMap = << >> /\ current = 1 % Marks /\ count = -1
  /\ aborted = FALSE
-----------------------------------------------------------------------------
(* Mutant: one slot for the process, not one per thread.                   *)
beginSyscall_OneSlot(t, args) ==
  pendingSyscalls' = [s \in Thread |-> args]

beginSyscall(t, args) ==
  pendingSyscalls' = Assign(pendingSyscalls, t, args)

SysBefore(t, args) ==
  /\ ~aborted /\ phase[t] = "app"
  /\ beginSyscall(t, args)
  /\ phase' = [phase EXCEPT ![t] = "entered"]
  /\ call' = [call EXCEPT ![t] = args]
  /\ known' = IF args.num = "close" THEN known \ {args.fd} ELSE known
  /\ UNCHANGED <<files, reused, ret, activeFileDescriptors, taint>>
-----------------------------------------------------------------------------
(* The kernel.  A new descriptor is any that is free.                      *)
Returns(t, value) ==
  /\ ~aborted /\ phase[t] = "entered"
  /\ phase' = [phase EXCEPT ![t] = "returned"]
  /\ ret' = [ret EXCEPT ![t] = value]
  /\ UNCHANGED <<known, call, pendingSyscalls, activeFileDescriptors, taint>>

CloseUnreported(fd) ==
  \E t \in Thread : phase[t] = "returned" /\ call[t] = CloseFile(fd)

NewDescriptor(t, fd, how, p) ==
  /\ fd \in Fd \ DOMAIN files
  /\ Returns(t, fd)
  /\ files' = Assign(files, fd, [path |-> p, how |-> how])
  /\ reused' = IF CloseUnreported(fd) THEN reused \cup {fd} ELSE reused \ {fd}

KernelOpen(t, fd) ==
  call[t].num = "open" /\ NewDescriptor(t, fd, "open", call[t].path)

KernelDup(t, fd) ==
  call[t].num = "dup" /\ NewDescriptor(t, fd, "dup", files[call[t].fd].path)

KernelClose(t) ==
  /\ call[t].num = "close"
  /\ Returns(t, 0)
  /\ files' = Restrict(files, DOMAIN files \ {call[t].fd})
  /\ UNCHANGED reused

(* The observer of a source is called for its files, or, with "*", for any.*)
Observes(source, p) == source.all \/ p \in source.file

Counted(p) ==
  \E m \in Monitor :
    Observes(Sources[m], p) /\ Sources[m].granularity = "PerOffset"

(* Up to MaxRead bytes, 0 at the end of the file.                          *)
KernelRead(t, n) ==
  /\ call[t].num = "read"
  /\ count + n <= MaxCount \/ ~Counted(files[call[t].fd].path)
  /\ Returns(t, n) /\ UNCHANGED <<files, reused>>

KernelFails(t) ==
  call[t].num \in {"open", "read", "dup"} /\ Returns(t, Error)
    /\ UNCHANGED <<files, reused>>
-----------------------------------------------------------------------------
(* The read observers, on the record of what they change.                  *)
Taint == [mem |-> memTaintMap, current |-> current, count |-> count,
          aborted |-> aborted]

(* Mutant: the mark is returned without the modulo.                        *)
nextTaintMark_NoModulo(cur) == cur + 1

(* The counter is kept modulo _max, which is all a mark depends on.        *)
nextTaintMark(cur) == (cur + 1) % Marks

(* mem with the marks given to bytes.                                      *)
Marked(mem, marks) ==
  [a \in DOMAIN mem \cup DOMAIN marks |->
     IF a \in DOMAIN marks THEN {marks[a]} ELSE mem[a]]

Read(args, n) == args.buf .. args.buf + n - 1

(* Mutant: all bytes of a read get the mark of the first.                  *)
PerByte_OneMark(m, args, n) ==
  LET mark == nextTaintMark(m.current)
  IN  [m EXCEPT !.current = mark,
                !.mem = Marked(@, [a \in Read(args, n) |-> mark])]

(* The marks of the bytes follow one another.                              *)
pathSourceReadCallbackPerByte(m, args, n) ==
  IF n <= 0 THEN m
  ELSE LET Mark(a) == nextTaintMark(m.current + (a - args.buf))
       IN  [m EXCEPT !.current = nextTaintMark(m.current + (n - 1)),
                     !.mem = Marked(@, [a \in Read(args, n) |-> Mark(a)])]

pathSourceReadCallbackPerRead(m, args, n) ==
  IF n <= 0 THEN m
  ELSE LET mark == nextTaintMark(m.current)
       IN  [m EXCEPT !.current = mark,
                     !.mem = Marked(@, [a \in Read(args, n) |-> mark])]

(* start[index] and end[index]; past the last range the arrays hold 0.     *)
RangeAt(index) == IF index < Len(Ranges) THEN Ranges[index + 1] ELSE <<0, 0>>

(* One byte of a read, at address a: r also has index and tag.             *)
OffsetByte(r, a) ==
  LET pos   == r.count + 1
      range == RangeAt(r.index)
      fresh == pos = range[1]
      cur   == IF fresh THEN nextTaintMark(r.current) ELSE r.current
      tag   == IF fresh THEN cur ELSE r.tag
  IN  IF r.aborted THEN r
      ELSE IF pos < range[1] \/ pos > range[2] THEN [r EXCEPT !.count = pos]
      ELSE [count   |-> pos, current |-> cur, tag |-> tag,
            index   |-> IF pos = range[2] THEN r.index + 1 ELSE r.index,
            aborted |-> tag = -1,
            mem     |-> IF tag = -1 THEN r.mem ELSE Assign(r.mem, a, {tag})]

(* count is static; index, flag and tag start afresh with every read.  A   *)
(* byte inside a range whose start came in an earlier read has tag -1.     *)
OffsetLoop(m, args, n) ==
  LET After[k \in 0 .. n] ==
        IF k = 0 THEN [index |-> 0, tag |-> -1, mem |-> m.mem, current |-> m.current,
                       count |-> m.count, aborted |-> m.aborted]
        ELSE OffsetByte(After[k - 1], args.buf + (k - 1))
  IN  After

pathSourceReadCallbackPerOffset(m, args, n) ==
  LET done == OffsetLoop(m, args, n)[n]
  IN  [mem |-> done.mem, current |-> done.current, count |-> done.count,
       aborted |-> done.aborted]

notifyForRead(m, source, active, args, n) ==
  IF args.fd \notin DOMAIN active \/ ~Observes(source, active[args.fd]) THEN m
  ELSE CASE source.granularity = "PerByte" ->
              pathSourceReadCallbackPerByte(m, args, n)
         [] source.granularity = "PerRead" ->
              pathSourceReadCallbackPerRead(m, args, n)
         [] source.granularity = "PerOffset" ->
              pathSourceReadCallbackPerOffset(m, args, n)
-----------------------------------------------------------------------------
(* endSyscall: what the observers do with arguments args and result n.     *)
openCallback(args, n) ==
  /\ activeFileDescriptors' =
       IF n = Error THEN activeFileDescriptors
       ELSE [m \in Monitor |-> Assign(activeFileDescriptors[m], n, args.path)]
  /\ UNCHANGED taint

(* Mutant: a close that succeeded is taken for one that failed.            *)
closeCallback_IfFailed(args, n) ==
  /\ activeFileDescriptors' =
       IF n # Error THEN activeFileDescriptors
       ELSE [m \in Monitor |->
               Restrict(activeFileDescriptors[m],
                        DOMAIN activeFileDescriptors[m] \ {args.fd})]
  /\ UNCHANGED taint

closeCallback(args, n) ==
  /\ activeFileDescriptors' =
       IF n = Error THEN activeFileDescriptors
       ELSE [m \in Monitor |->
               Restrict(activeFileDescriptors[m],
                        DOMAIN activeFileDescriptors[m] \ {args.fd})]
  /\ UNCHANGED taint

(* The read callbacks of the monitors, one after the other.                *)
Notified(args, n) ==
  LET After[i \in 0 .. Len(Sources)] ==
        IF i = 0 THEN Taint
        ELSE IF After[i - 1].aborted THEN After[i - 1]
        ELSE notifyForRead(After[i - 1], Sources[i], activeFileDescriptors[i], args, n)
  IN  After

readCallback(args, n) ==
  LET done == IF n = Error THEN Taint ELSE Notified(args, n)[Len(Sources)]
  IN  /\ memTaintMap' = done.mem /\ current' = done.current
      /\ count' = done.count /\ aborted' = done.aborted
      /\ UNCHANGED activeFileDescriptors

endSyscall(t) ==
  LET args == pendingSyscalls[t]
  IN  \/ args.num = "open"  /\ openCallback(args, ret[t])
      \/ args.num = "close" /\ closeCallback(args, ret[t])
      \/ args.num = "read"  /\ readCallback(args, ret[t])
      \/ args.num = "dup"   /\ UNCHANGED <<activeFileDescriptors, taint>>

(* The program has the result when SysAfter is done.                       *)
SysAfter(t) ==
  /\ ~aborted /\ phase[t] = "returned"
  /\ endSyscall(t)
  /\ phase' = [phase EXCEPT ![t] = "app"]
  /\ ret' = [ret EXCEPT ![t] = 0]
  /\ known' = IF call[t].num \in {"open", "dup"} /\ ret[t] # Error
              THEN known \cup {ret[t]} ELSE known
  /\ UNCHANGED <<files, reused, call, pendingSyscalls>>

Next ==
  \E t \in Thread :
    \/ \E args \in Requests(t) : SysBefore(t, args)
    \/ \E fd \in Fd : KernelOpen(t, fd) \/ KernelDup(t, fd)
    \/ KernelClose(t)
    \/ \E n \in 0 .. MaxRead : KernelRead(t, n)
    \/ KernelFails(t)
    \/ SysAfter(t)

Spec == Init /\ [][Next]_vars
-----------------------------------------------------------------------------
Args ==
  [num : {"open"}, path : Path] \cup [num : {"close", "dup"}, fd : Fd \cup {0}]
    \cup [num : {"read"}, fd : Fd, buf : {Buffer[t] : t \in Thread}]

(* Descriptors in the tables are numbers the kernel handed out, marks on   *)
(* bytes are numbers below _max, and only bytes of read buffers are marked.*)
TypeOK ==
  /\ DOMAIN files \subseteq Fd /\ known \subseteq DOMAIN files
  /\ reused \subseteq Fd
  /\ phase \in [Thread -> {"app", "entered", "returned"}]
  /\ call \in [Thread -> Args]
  /\ ret \in [Thread -> Fd \cup (Error .. MaxRead)]
  /\ DOMAIN pendingSyscalls \subseteq Thread
  /\ \A t \in DOMAIN pendingSyscalls : pendingSyscalls[t] \in Args
  /\ DOMAIN activeFileDescriptors = Monitor
  /\ \A m \in Monitor :
       /\ DOMAIN activeFileDescriptors[m] \subseteq Fd
       /\ \A fd \in DOMAIN activeFileDescriptors[m] :
            activeFileDescriptors[m][fd] \in Path
  /\ DOMAIN memTaintMap \subseteq Address
  /\ \A a \in DOMAIN memTaintMap :
       \E mark \in 0 .. Marks - 1 : memTaintMap[a] = {mark}
  /\ current \in 0 .. Marks - 1 /\ count \in Int /\ aborted \in BOOLEAN

(* PathMonitor's table never takes one file for another: an entry names    *)
(* the file the kernel has open under that number, except while a close of *)
(* that number has happened and is not yet reported by closeCallback.      *)
EntryFollowsKernel ==
  \A m \in Monitor : \A fd \in DOMAIN activeFileDescriptors[m] :
    \/ CloseUnreported(fd)
    \/ fd \in DOMAIN files /\ files[fd].path = activeFileDescriptors[m][fd]

Opened == {fd \in known : files[fd].how = "open"}

(* A descriptor that the program opened and holds is in every monitor's    *)
(* table, unless its number was handed out before the close that freed it  *)
(* was reported: closeCallback removes no other open file's descriptor.    *)
LostOnlyByReuse ==
  \A fd \in Opened \ reused, m \in Monitor :
    fd \in DOMAIN activeFileDescriptors[m]

(* What openCallback and closeCallback say of themselves: the descriptor   *)
(* of an opened file is in the table until that file is closed.            *)
OpenedIsActive ==
  \A fd \in Opened, m \in Monitor : fd \in DOMAIN activeFileDescriptors[m]

(* The bytes a completed read of thread t filled.                          *)
Filled(t) == Buffer[t] .. Buffer[t] + ret[t] - 1

(* A source that is the only one to observe the file t has read.           *)
OnlyObserver(t, m) ==
  LET p == files[call[t].fd].path
  IN  /\ Observes(Sources[m], p)
      /\ \A o \in Monitor \ {m} : ~Observes(Sources[o], p)

(* Without a range, for want of conf_offset.dat, byte 0 is taken for one.  *)
InRange(pos) ==
  \/ \E i \in DOMAIN Ranges : Ranges[i][1] <= pos /\ pos <= Ranges[i][2]
  \/ Ranges = << >> /\ pos = 0

(* The step leaves the marks of the bytes of mem as they are.              *)
Kept(mem) ==
  \A a \in mem :
    /\ a \in DOMAIN memTaintMap' <=> a \in DOMAIN memTaintMap
    /\ a \in DOMAIN memTaintMap => memTaintMap'[a] = memTaintMap[a]

MarkedBy(source, t) ==
  LET buf == Filled(t)
  IN  CASE source.granularity = "PerByte" ->
             /\ buf \subseteq DOMAIN memTaintMap'
             /\ \A a, b \in buf : a < b /\ b < a + Marks =>
                  memTaintMap'[a] # memTaintMap'[b]
        [] source.granularity = "PerRead" ->
             /\ buf \subseteq DOMAIN memTaintMap'
             /\ \A a, b \in buf : memTaintMap'[a] = memTaintMap'[b]
        [] source.granularity = "PerOffset" ->
             Kept({a \in buf : ~InRange(count + 1 + a - Buffer[t])})

(* SysAfter of a read marks bytes of the reading thread's buffer only, and *)
(* if the file is observed by one source, the way its granularity says:    *)
(* PerByte, a different mark on each byte (as far as there are marks);     *)
(* PerRead, one mark on all bytes; PerOffset, only bytes whose number in   *)
(* the input is in a range of conf_offset.dat.                             *)
BufferMarked ==
  [][\A t \in Thread :
       phase[t] = "returned" /\ phase'[t] = "app" =>
         IF call[t].num # "read" THEN Kept(Address)
         ELSE /\ Kept(Address \ Filled(t))
              /\ ret[t] > 0 /\ call[t].fd \in Opened \ reused =>
                   \A m \in Monitor :
                     OnlyObserver(t, m) => MarkedBy(Sources[m], t)]_vars
=============================================================================
