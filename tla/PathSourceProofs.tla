-------------------------- MODULE PathSourceProofs --------------------------
(***************************************************************************)
(* Theorems about PathSource: the descriptor tables of the monitors and    *)
(* the kernel's, for any number of threads, descriptors, paths and         *)
(* sources, and for any order of the steps of their calls.                 *)
(***************************************************************************)
EXTENDS PathSource, WellFoundedInduction, TLAPS

(* The result of t's call is a new descriptor that t does not know of yet. *)
Fresh(t) ==
  phase[t] = "returned" /\ call[t].num \in {"open", "dup"} /\ ret[t] # Error

(* t has asked for its descriptor to be closed; it is still open.          *)
Closing(t) == phase[t] = "entered" /\ call[t].num = "close"

(* The part of TypeOK that is about calls, and what beginSyscall stored    *)
(* for them.                                                               *)
CallsTyped ==
  /\ phase \in [Thread -> {"app", "entered", "returned"}]
  /\ call \in [Thread -> Args]
  /\ ret \in [Thread -> Fd \cup (Error .. MaxRead)]
  /\ DOMAIN files \subseteq Fd
  /\ DOMAIN activeFileDescriptors = Monitor
  /\ \A t \in Thread : phase[t] # "app" =>
       t \in DOMAIN pendingSyscalls /\ pendingSyscalls[t] = call[t]
  /\ \A t \in Thread : phase[t] = "returned" /\ call[t].num = "close" => ret[t] = 0

(* A descriptor that is open is known to the program, or one thread is     *)
(* about to learn of it, or one thread is closing it, and only one of      *)
(* these.                                                                  *)
OneOwner ==
  /\ known \subseteq DOMAIN files
  /\ \A t \in Thread : Fresh(t) => ret[t] \in DOMAIN files \ known
  /\ \A t \in Thread : Closing(t) => call[t].fd \in DOMAIN files \ known
  /\ \A s, t \in Thread : Fresh(s) /\ Fresh(t) /\ ret[s] = ret[t] => s = t
  /\ \A s, t \in Thread : Closing(s) /\ Closing(t) /\ call[s].fd = call[t].fd => s = t
  /\ \A s, t \in Thread : Fresh(s) /\ Closing(t) => ret[s] # call[t].fd

(* Until it is reported, a new descriptor is what it was when the kernel   *)
(* made it.                                                                *)
FreshIsNew ==
  \A t \in Thread : Fresh(t) =>
    IF call[t].num = "open" THEN files[ret[t]].path = call[t].path
    ELSE files[ret[t]].how = "dup"

(* A descriptor not handed out before the close that freed it was reported *)
(* is not waiting for the report of a close.                               *)
ReusedKnown == \A fd \in DOMAIN files \ reused : ~CloseUnreported(fd)

IInv ==
  /\ CallsTyped
  /\ OneOwner
  /\ FreshIsNew
  /\ ReusedKnown
  /\ EntryFollowsKernel
  /\ LostOnlyByReuse
-----------------------------------------------------------------------------
(* Arguments as records.                                                   *)
LEMMA CloseArgs ==
  ASSUME NEW args \in Args, NEW fd
  PROVE  args = CloseFile(fd) <=> args.num = "close" /\ args.fd = fd
  BY DEF Args, CloseFile

(* A thread closes only descriptors the application knows.                 *)
LEMMA RequestArgs ==
  ASSUME NEW t \in Thread, NEW args \in Requests(t), known \subseteq Fd
  PROVE  /\ args \in Args
         /\ args.num = "close" => args.fd \in known
         /\ args.num = "read" => args.buf = Buffer[t]
         /\ args.num \in {"open", "close", "read", "dup"}
  <1>1. \/ \E p \in Path : args = OpenFile(p)
        \/ \E fd \in known : args = CloseFile(fd)
        \/ \E fd \in known : args = ReadFile(fd, Buffer[t])
        \/ \E fd \in known : args = Duplicate(fd)
    BY DEF Requests
  <1>2. CASE \E p \in Path : args = OpenFile(p)
    BY <1>2 DEF OpenFile, Args
  <1>3. CASE \E fd \in known : args = CloseFile(fd)
    BY <1>3 DEF CloseFile, Args
  <1>4. CASE \E fd \in known : args = ReadFile(fd, Buffer[t])
    BY <1>4 DEF ReadFile, Args
  <1>5. CASE \E fd \in known : args = Duplicate(fd)
    BY <1>5 DEF Duplicate, Args
  <1> QED BY <1>1, <1>2, <1>3, <1>4, <1>5

(* The program enters a call.  A descriptor it closes it no longer knows.  *)
LEMMA BeforeStep ==
  ASSUME IInv, NEW t \in Thread, NEW args \in Requests(t), SysBefore(t, args)
  PROVE  IInv'
  <1>1. /\ args \in Args
        /\ args.num = "close" => args.fd \in known
    <2>1. known \subseteq Fd
      BY DEF IInv, CallsTyped, OneOwner
    <2> QED BY <2>1, RequestArgs
  <1>2. /\ phase[t] = "app" /\ phase' = [phase EXCEPT ![t] = "entered"]
        /\ call' = [call EXCEPT ![t] = args]
        /\ pendingSyscalls' = Assign(pendingSyscalls, t, args)
        /\ known' = IF args.num = "close" THEN known \ {args.fd} ELSE known
        /\ UNCHANGED <<files, reused, ret, activeFileDescriptors>>
    BY DEF SysBefore, beginSyscall
  <1>3. /\ phase'[t] = "entered" /\ call'[t] = args
        /\ \A s \in Thread : s # t => phase'[s] = phase[s] /\ call'[s] = call[s]
    BY <1>2 DEF IInv, CallsTyped
  <1>4. /\ ~Fresh(t)' /\ ~Fresh(t) /\ ~Closing(t)
        /\ Closing(t)' <=> args.num = "close"
        /\ \A s \in Thread : s # t => (Fresh(s)' <=> Fresh(s)) /\ (Closing(s)' <=> Closing(s))
    BY <1>2, <1>3 DEF Fresh, Closing
  <1>5. ASSUME NEW fd PROVE CloseUnreported(fd)' <=> CloseUnreported(fd)
    <2>1. \A s \in Thread : phase'[s] = "returned" <=> phase[s] = "returned"
      BY <1>2, <1>3
    <2>2. \A s \in Thread : phase[s] = "returned" => call'[s] = call[s]
      BY <1>2, <1>3
    <2> QED BY <2>1, <2>2 DEF CloseUnreported
  <1>6. CallsTyped'
    BY <1>1, <1>2, <1>3 DEF IInv, CallsTyped, Assign
  <1>7. OneOwner'
    <2>1. known' \subseteq known
      BY <1>2
    <2>2. known' \subseteq DOMAIN files'
      BY <1>2, <2>1 DEF IInv, OneOwner
    <2>3. \A s \in Thread : Fresh(s)' => ret'[s] \in DOMAIN files' \ known'
      BY <1>2, <1>4, <2>1 DEF IInv, OneOwner
    <2>4. \A s \in Thread : Closing(s)' => call'[s].fd \in DOMAIN files' \ known'
      BY <1>1, <1>2, <1>3, <1>4, <2>1 DEF IInv, OneOwner
    <2>5. \A r, s \in Thread : Fresh(r)' /\ Fresh(s)' /\ ret'[r] = ret'[s] => r = s
      BY <1>2, <1>4 DEF IInv, OneOwner
    <2>6. \A r, s \in Thread :
            Closing(r)' /\ Closing(s)' /\ call'[r].fd = call'[s].fd => r = s
      BY <1>1, <1>3, <1>4 DEF IInv, OneOwner
    <2>7. \A r, s \in Thread : Fresh(r)' /\ Closing(s)' => ret'[r] # call'[s].fd
      BY <1>1, <1>2, <1>3, <1>4 DEF IInv, OneOwner
    <2> QED BY <2>2, <2>3, <2>4, <2>5, <2>6, <2>7 DEF OneOwner
  <1>8. FreshIsNew'
    BY <1>2, <1>3, <1>4 DEF IInv, FreshIsNew
  <1>9. ReusedKnown' /\ EntryFollowsKernel'
    BY <1>2, <1>5 DEF IInv, ReusedKnown, EntryFollowsKernel
  <1>10. LostOnlyByReuse'
    BY <1>2 DEF IInv, LostOnlyByReuse, Opened
  <1> QED BY <1>6, <1>7, <1>8, <1>9, <1>10 DEF IInv

(* The kernel hands out a descriptor that is free, so nobody owns it.      *)
LEMMA NewDescriptorStep ==
  ASSUME IInv, NEW t \in Thread, NEW fd \in Fd, NEW how, NEW p,
         NewDescriptor(t, fd, how, p),
         \/ call[t].num = "open" /\ p = call[t].path
         \/ call[t].num = "dup" /\ how = "dup"
  PROVE  IInv'
  <1>1. /\ fd \notin DOMAIN files /\ phase[t] = "entered"
        /\ phase' = [phase EXCEPT ![t] = "returned"]
        /\ ret' = [ret EXCEPT ![t] = fd]
        /\ UNCHANGED <<known, call, pendingSyscalls, activeFileDescriptors>>
        /\ reused' = IF CloseUnreported(fd) THEN reused \cup {fd} ELSE reused \ {fd}
    BY DEF NewDescriptor, Returns
  <1>2. /\ DOMAIN files' = DOMAIN files \cup {fd}
        /\ files'[fd].path = p /\ files'[fd].how = how
        /\ \A g \in DOMAIN files : files'[g] = files[g]
    BY <1>1 DEF NewDescriptor, Assign
  <1>3. /\ phase'[t] = "returned" /\ ret'[t] = fd
        /\ \A s \in Thread : s # t => phase'[s] = phase[s] /\ ret'[s] = ret[s]
    BY <1>1 DEF IInv, CallsTyped
  <1>4. /\ ~Fresh(t) /\ ~Closing(t) /\ ~Closing(t)'
        /\ \A s \in Thread : s # t => (Fresh(s)' <=> Fresh(s)) /\ (Closing(s)' <=> Closing(s))
    BY <1>1, <1>3 DEF Fresh, Closing
  <1>5. \A g : CloseUnreported(g)' <=> CloseUnreported(g)
    <2>1. \A g : call[t] # CloseFile(g)
      BY DEF CloseFile
    <2> QED BY <1>1, <1>3, <2>1 DEF CloseUnreported
  <1>6. CallsTyped'
    BY <1>1, <1>2, <1>3 DEF IInv, CallsTyped
  <1>7. OneOwner'
    <2>1. known' \subseteq DOMAIN files'
      BY <1>1, <1>2 DEF IInv, OneOwner
    <2>2. \A s \in Thread : Fresh(s)' => ret'[s] \in DOMAIN files' \ known'
      BY <1>1, <1>2, <1>3, <1>4 DEF IInv, OneOwner
    <2>3. \A s \in Thread : Closing(s)' => call'[s].fd \in DOMAIN files' \ known'
      BY <1>1, <1>2, <1>4 DEF IInv, OneOwner
    <2>4. \A r, s \in Thread : Fresh(r)' /\ Fresh(s)' /\ ret'[r] = ret'[s] => r = s
      BY <1>1, <1>3, <1>4 DEF IInv, OneOwner
    <2>5. \A r, s \in Thread :
            Closing(r)' /\ Closing(s)' /\ call'[r].fd = call'[s].fd => r = s
      BY <1>1, <1>4 DEF IInv, OneOwner
    <2>6. \A r, s \in Thread : Fresh(r)' /\ Closing(s)' => ret'[r] # call'[s].fd
      BY <1>1, <1>3, <1>4 DEF IInv, OneOwner
    <2> QED BY <2>1, <2>2, <2>3, <2>4, <2>5, <2>6 DEF OneOwner
  <1>8. FreshIsNew'
    <2>1. \A s \in Thread : s # t /\ Fresh(s) => ret[s] \in DOMAIN files
      BY DEF IInv, OneOwner
    <2> QED BY <1>1, <1>2, <1>3, <1>4, <2>1 DEF IInv, FreshIsNew
  <1>9. ReusedKnown'
    BY <1>1, <1>2, <1>5 DEF IInv, ReusedKnown
  <1>10. EntryFollowsKernel'
    BY <1>1, <1>2, <1>5 DEF IInv, EntryFollowsKernel
  <1>11. LostOnlyByReuse'
    <2>1. \A g \in known : g # fd /\ g \in DOMAIN files
      BY <1>1 DEF IInv, OneOwner
    <2> QED BY <1>1, <1>2, <2>1 DEF IInv, LostOnlyByReuse, Opened
  <1> QED BY <1>6, <1>7, <1>8, <1>9, <1>10, <1>11 DEF IInv

(* The kernel closes a descriptor; its entries are stale until the report. *)
LEMMA CloseStep ==
  ASSUME IInv, NEW t \in Thread, KernelClose(t)
  PROVE  IInv'
  <1>1. /\ call[t].num = "close" /\ phase[t] = "entered"
        /\ phase' = [phase EXCEPT ![t] = "returned"]
        /\ ret' = [ret EXCEPT ![t] = 0]
        /\ UNCHANGED <<known, call, pendingSyscalls, activeFileDescriptors, reused>>
    BY DEF KernelClose, Returns
  <1>2. PICK fd : fd = call[t].fd
    OBVIOUS
  <1>3. /\ DOMAIN files' = DOMAIN files \ {fd}
        /\ \A g \in DOMAIN files' : files'[g] = files[g]
    BY <1>2 DEF KernelClose, Restrict
  <1>4. /\ phase'[t] = "returned" /\ ret'[t] = 0
        /\ \A s \in Thread : s # t => phase'[s] = phase[s] /\ ret'[s] = ret[s]
    BY <1>1 DEF IInv, CallsTyped
  <1>5. /\ ~Fresh(t) /\ ~Fresh(t)' /\ Closing(t) /\ ~Closing(t)'
        /\ \A s \in Thread : s # t => (Fresh(s)' <=> Fresh(s)) /\ (Closing(s)' <=> Closing(s))
    BY <1>1, <1>4 DEF Fresh, Closing
  <1>6. call[t] = CloseFile(fd)
    BY <1>1, <1>2, CloseArgs DEF IInv, CallsTyped
  <1>7. /\ CloseUnreported(fd)'
        /\ \A g : CloseUnreported(g) => CloseUnreported(g)'
        /\ \A g : g # fd /\ CloseUnreported(g)' => CloseUnreported(g)
    <2>1. \A g : g # fd => call[t] # CloseFile(g)
      BY <1>6 DEF CloseFile
    <2>2. \A s \in Thread : phase[s] = "returned" => phase'[s] = "returned"
      BY <1>4
    <2>3. \A g : CloseUnreported(g)' <=>
                   \E s \in Thread : phase'[s] = "returned" /\ call[s] = CloseFile(g)
      BY <1>1 DEF CloseUnreported
    <2> QED BY <1>4, <1>6, <2>1, <2>2, <2>3 DEF CloseUnreported
  <1>8. fd \in DOMAIN files \ known
    BY <1>2, <1>5 DEF IInv, OneOwner
  <1>9. CallsTyped'
    <2>1. 0 \in Fd \cup (Error .. MaxRead)
      BY BoundAssumption DEF Error
    <2> QED BY <1>1, <1>3, <1>4, <2>1 DEF IInv, CallsTyped
  <1>10. OneOwner'
    <2>1. known' \subseteq DOMAIN files'
      BY <1>1, <1>3, <1>8 DEF IInv, OneOwner
    <2>2. \A s \in Thread : Fresh(s)' => ret'[s] \in DOMAIN files' \ known'
      BY <1>1, <1>2, <1>3, <1>4, <1>5 DEF IInv, OneOwner
    <2>3. \A s \in Thread : Closing(s)' => call'[s].fd \in DOMAIN files' \ known'
      BY <1>1, <1>2, <1>3, <1>5 DEF IInv, OneOwner
    <2>4. \A r, s \in Thread : Fresh(r)' /\ Fresh(s)' /\ ret'[r] = ret'[s] => r = s
      BY <1>1, <1>4, <1>5 DEF IInv, OneOwner
    <2>5. \A r, s \in Thread :
            Closing(r)' /\ Closing(s)' /\ call'[r].fd = call'[s].fd => r = s
      BY <1>1, <1>5 DEF IInv, OneOwner
    <2>6. \A r, s \in Thread : Fresh(r)' /\ Closing(s)' => ret'[r] # call'[s].fd
      BY <1>1, <1>4, <1>5 DEF IInv, OneOwner
    <2> QED BY <2>1, <2>2, <2>3, <2>4, <2>5, <2>6 DEF OneOwner
  <1>11. FreshIsNew'
    <2>1. \A s \in Thread : Fresh(s)' => ret'[s] \in DOMAIN files'
      BY <1>10 DEF OneOwner
    <2> QED BY <1>1, <1>3, <1>4, <1>5, <2>1 DEF IInv, FreshIsNew
  <1>12. ReusedKnown'
    BY <1>1, <1>3, <1>7 DEF IInv, ReusedKnown
  <1>13. EntryFollowsKernel'
    <2>1. \A g \in DOMAIN files : g # fd => g \in DOMAIN files' /\ files'[g] = files[g]
      BY <1>3
    <2> QED BY <1>1, <1>7, <2>1 DEF IInv, EntryFollowsKernel
  <1>14. LostOnlyByReuse'
    <2>1. \A g \in known : g \in DOMAIN files'
      BY <1>1, <1>10 DEF OneOwner
    <2> QED BY <1>1, <1>3, <2>1 DEF IInv, LostOnlyByReuse, Opened
  <1> QED BY <1>9, <1>10, <1>11, <1>12, <1>13, <1>14 DEF IInv

(* The kernel returns from a call that changes no descriptor.              *)
LEMMA ReturnStep ==
  ASSUME IInv, NEW t \in Thread, NEW n \in Error .. MaxRead,
         Returns(t, n), UNCHANGED <<files, reused>>,
         call[t].num = "read" \/ (call[t].num \in {"open", "dup"} /\ n = Error)
  PROVE  IInv'
  <1>1. /\ phase[t] = "entered" /\ phase' = [phase EXCEPT ![t] = "returned"]
        /\ ret' = [ret EXCEPT ![t] = n]
        /\ UNCHANGED <<known, call, pendingSyscalls, activeFileDescriptors, files, reused>>
    BY DEF Returns
  <1>2. /\ phase'[t] = "returned" /\ ret'[t] = n
        /\ \A s \in Thread : s # t => phase'[s] = phase[s] /\ ret'[s] = ret[s]
    BY <1>1 DEF IInv, CallsTyped
  <1>3. /\ ~Fresh(t) /\ ~Fresh(t)' /\ ~Closing(t) /\ ~Closing(t)'
        /\ \A s \in Thread : s # t => (Fresh(s)' <=> Fresh(s)) /\ (Closing(s)' <=> Closing(s))
    BY <1>1, <1>2 DEF Fresh, Closing
  <1>4. \A g : CloseUnreported(g)' <=> CloseUnreported(g)
    <2>1. \A g : call[t] # CloseFile(g)
      BY DEF CloseFile
    <2> QED BY <1>1, <1>2, <2>1 DEF CloseUnreported
  <1>5. CallsTyped'
    BY <1>1, <1>2 DEF IInv, CallsTyped
  <1>6. OneOwner' /\ FreshIsNew'
    BY <1>1, <1>2, <1>3 DEF IInv, OneOwner, FreshIsNew
  <1>7. ReusedKnown' /\ EntryFollowsKernel'
    BY <1>1, <1>4 DEF IInv, ReusedKnown, EntryFollowsKernel
  <1>8. LostOnlyByReuse'
    BY <1>1 DEF IInv, LostOnlyByReuse, Opened
  <1> QED BY <1>5, <1>6, <1>7, <1>8 DEF IInv

(* What the report of a call does to the tables, by the call.              *)
LEMMA EndSyscall ==
  ASSUME IInv, NEW t \in Thread, phase[t] = "returned", endSyscall(t)
  PROVE  /\ DOMAIN activeFileDescriptors' = Monitor
         /\ call[t].num = "open" /\ ret[t] # Error => \A m \in Monitor :
              activeFileDescriptors'[m] =
                Assign(activeFileDescriptors[m], ret[t], call[t].path)
         /\ call[t].num = "close" => \A m \in Monitor :
              activeFileDescriptors'[m] =
                Restrict(activeFileDescriptors[m],
                         DOMAIN activeFileDescriptors[m] \ {call[t].fd})
         /\ call[t].num \in {"read", "dup"} \/ ret[t] = Error =>
              activeFileDescriptors' = activeFileDescriptors
  <1>1. pendingSyscalls[t] = call[t] /\ DOMAIN activeFileDescriptors = Monitor
    BY DEF IInv, CallsTyped
  <1>2. call[t].num = "close" => ret[t] = 0 /\ ret[t] # Error
    BY DEF IInv, CallsTyped, Error
  <1>3. CASE call[t].num = "open" /\ openCallback(call[t], ret[t])
    BY <1>1, <1>3 DEF openCallback
  <1>4. CASE call[t].num = "close" /\ closeCallback(call[t], ret[t])
    BY <1>1, <1>2, <1>4 DEF closeCallback
  <1>5. CASE call[t].num = "read" /\ readCallback(call[t], ret[t])
    BY <1>1, <1>5 DEF readCallback
  <1>6. CASE call[t].num = "dup" /\ UNCHANGED activeFileDescriptors
    BY <1>1, <1>6
  <1> QED BY <1>1, <1>3, <1>4, <1>5, <1>6 DEF endSyscall

(* The monitors learn of the call, and then the program.  An open adds the *)
(* file the kernel has open; a close removes the number that was closed,   *)
(* which is open again only if it was reused.                              *)
LEMMA AfterStep ==
  ASSUME IInv, NEW t \in Thread, SysAfter(t)
  PROVE  IInv'
  <1>1. /\ phase[t] = "returned" /\ phase' = [phase EXCEPT ![t] = "app"]
        /\ ret' = [ret EXCEPT ![t] = 0]
        /\ known' = IF call[t].num \in {"open", "dup"} /\ ret[t] # Error
                    THEN known \cup {ret[t]} ELSE known
        /\ UNCHANGED <<files, reused, call, pendingSyscalls>>
    BY DEF SysAfter
  <1>2. /\ phase'[t] = "app" /\ ret'[t] = 0
        /\ \A s \in Thread : s # t => phase'[s] = phase[s] /\ ret'[s] = ret[s]
    BY <1>1 DEF IInv, CallsTyped
  <1>3. /\ ~Fresh(t)' /\ ~Closing(t) /\ ~Closing(t)'
        /\ Fresh(t) <=> call[t].num \in {"open", "dup"} /\ ret[t] # Error
        /\ \A s \in Thread : s # t => (Fresh(s)' <=> Fresh(s)) /\ (Closing(s)' <=> Closing(s))
    BY <1>1, <1>2 DEF Fresh, Closing
  <1>4. /\ \A g : CloseUnreported(g)' => CloseUnreported(g)
        /\ \A g : CloseUnreported(g) /\ call[t] # CloseFile(g) => CloseUnreported(g)'
    <2>1. \A g : CloseUnreported(g)' <=>
                   \E s \in Thread : phase'[s] = "returned" /\ call[s] = CloseFile(g)
      BY <1>1 DEF CloseUnreported
    <2> QED BY <1>2, <2>1 DEF CloseUnreported
  <1>5. /\ DOMAIN activeFileDescriptors' = Monitor
        /\ call[t].num = "open" /\ ret[t] # Error => \A m \in Monitor :
             activeFileDescriptors'[m] =
               Assign(activeFileDescriptors[m], ret[t], call[t].path)
        /\ call[t].num = "close" => \A m \in Monitor :
             activeFileDescriptors'[m] =
               Restrict(activeFileDescriptors[m],
                        DOMAIN activeFileDescriptors[m] \ {call[t].fd})
        /\ call[t].num \in {"read", "dup"} \/ ret[t] = Error =>
             activeFileDescriptors' = activeFileDescriptors
    BY <1>1, EndSyscall DEF SysAfter
  <1>6. CallsTyped'
    <2>1. 0 \in Fd \cup (Error .. MaxRead)
      BY BoundAssumption DEF Error
    <2> QED BY <1>1, <1>2, <1>5, <2>1 DEF IInv, CallsTyped
  <1>7. known' = IF Fresh(t) THEN known \cup {ret[t]} ELSE known
    BY <1>1, <1>3
  <1>8. OneOwner'
    <2>1. known' \subseteq DOMAIN files'
      BY <1>1, <1>7 DEF IInv, OneOwner
    <2>2. \A s \in Thread : Fresh(s)' => ret'[s] \in DOMAIN files' \ known'
      BY <1>1, <1>2, <1>3, <1>7 DEF IInv, OneOwner
    <2>3. \A s \in Thread : Closing(s)' => call'[s].fd \in DOMAIN files' \ known'
      BY <1>1, <1>3, <1>7 DEF IInv, OneOwner
    <2>4. \A r, s \in Thread : Fresh(r)' /\ Fresh(s)' /\ ret'[r] = ret'[s] => r = s
      BY <1>2, <1>3 DEF IInv, OneOwner
    <2>5. \A r, s \in Thread :
            Closing(r)' /\ Closing(s)' /\ call'[r].fd = call'[s].fd => r = s
      BY <1>1, <1>3 DEF IInv, OneOwner
    <2>6. \A r, s \in Thread : Fresh(r)' /\ Closing(s)' => ret'[r] # call'[s].fd
      BY <1>1, <1>2, <1>3 DEF IInv, OneOwner
    <2> QED BY <2>1, <2>2, <2>3, <2>4, <2>5, <2>6 DEF OneOwner
  <1>9. FreshIsNew'
    BY <1>1, <1>2, <1>3 DEF IInv, FreshIsNew
  <1>10. ReusedKnown'
    BY <1>1, <1>4 DEF IInv, ReusedKnown
  <1>11. call[t] \in Args /\ call[t].num \in {"open", "close", "read", "dup"}
    <2>1. call[t] \in Args
      BY DEF IInv, CallsTyped
    <2> QED BY <2>1 DEF Args
  <1>12. CASE call[t].num = "open" /\ ret[t] # Error
    <2>1. \A g : call[t] # CloseFile(g)
      BY <1>12 DEF CloseFile
    <2>2. /\ Fresh(t) /\ ret[t] \in DOMAIN files
          /\ files[ret[t]].path = call[t].path
      BY <1>3, <1>12 DEF IInv, OneOwner, FreshIsNew
    <2>3. \A m \in Monitor :
            /\ DOMAIN activeFileDescriptors'[m] =
                 DOMAIN activeFileDescriptors[m] \cup {ret[t]}
            /\ activeFileDescriptors'[m][ret[t]] = call[t].path
            /\ \A g \in DOMAIN activeFileDescriptors[m] : g # ret[t] =>
                 activeFileDescriptors'[m][g] = activeFileDescriptors[m][g]
      <3> SUFFICES ASSUME NEW m \in Monitor
                   PROVE  /\ DOMAIN activeFileDescriptors'[m] =
                               DOMAIN activeFileDescriptors[m] \cup {ret[t]}
                          /\ activeFileDescriptors'[m][ret[t]] = call[t].path
                          /\ \A g \in DOMAIN activeFileDescriptors[m] : g # ret[t] =>
                               activeFileDescriptors'[m][g] = activeFileDescriptors[m][g]
        OBVIOUS
      <3>1. activeFileDescriptors'[m] = Assign(activeFileDescriptors[m], ret[t], call[t].path)
        BY <1>5, <1>12
      <3> QED BY <3>1 DEF Assign
    <2>4. EntryFollowsKernel'
      BY <1>1, <1>4, <2>1, <2>2, <2>3 DEF IInv, EntryFollowsKernel
    <2>5. LostOnlyByReuse'
      BY <1>1, <1>7, <2>2, <2>3 DEF IInv, LostOnlyByReuse, Opened
    <2> QED BY <1>6, <1>8, <1>9, <1>10, <2>4, <2>5 DEF IInv
  <1>13. CASE call[t].num = "close"
    <2>1. PICK fd : fd = call[t].fd
      OBVIOUS
    <2>2. call[t] = CloseFile(fd) /\ CloseUnreported(fd) /\ ~Fresh(t)
      BY <1>1, <1>3, <1>11, <1>13, <2>1, CloseArgs DEF CloseUnreported
    <2>3. \A g : g # fd => call[t] # CloseFile(g)
      BY <2>2 DEF CloseFile
    <2>4. \A m \in Monitor :
            /\ DOMAIN activeFileDescriptors'[m] = DOMAIN activeFileDescriptors[m] \ {fd}
            /\ \A g \in DOMAIN activeFileDescriptors'[m] :
                 activeFileDescriptors'[m][g] = activeFileDescriptors[m][g]
      BY <1>5, <1>13, <2>1, ZenonT(30) DEF Restrict
    <2>5. EntryFollowsKernel'
      <3> SUFFICES ASSUME NEW m \in Monitor, NEW g \in DOMAIN activeFileDescriptors'[m]
                   PROVE  \/ CloseUnreported(g)'
                          \/ g \in DOMAIN files'
                               /\ files'[g].path = activeFileDescriptors'[m][g]
        BY DEF EntryFollowsKernel
      <3>1. /\ g # fd /\ g \in DOMAIN activeFileDescriptors[m]
            /\ activeFileDescriptors'[m][g] = activeFileDescriptors[m][g]
        BY <2>4
      <3>2. CloseUnreported(g) => CloseUnreported(g)'
        BY <1>4, <2>3, <3>1
      <3> QED BY <1>1, <3>1, <3>2 DEF IInv, EntryFollowsKernel
    <2>6. LostOnlyByReuse'
      <3>1. \A g \in Opened \ reused : g # fd
        BY <2>2 DEF IInv, OneOwner, ReusedKnown, Opened
      <3>2. Opened' = Opened
        BY <1>1, <1>7, <2>2 DEF Opened
      <3> QED BY <1>1, <2>4, <3>1, <3>2 DEF IInv, LostOnlyByReuse
    <2> QED BY <1>6, <1>8, <1>9, <1>10, <2>5, <2>6 DEF IInv
  <1>14. CASE call[t].num \in {"read", "dup"} \/ (call[t].num = "open" /\ ret[t] = Error)
    <2>1. \A g : call[t] # CloseFile(g)
      BY <1>14 DEF CloseFile
    <2>2. UNCHANGED activeFileDescriptors
      BY <1>5, <1>14
    <2>3. EntryFollowsKernel'
      BY <1>1, <1>4, <2>1, <2>2 DEF IInv, EntryFollowsKernel
    <2>4. Opened' \subseteq Opened
      <3>1. Fresh(t) => files[ret[t]].how = "dup"
        BY <1>3, <1>14 DEF IInv, FreshIsNew
      <3> QED BY <1>1, <1>7, <3>1 DEF Opened
    <2>5. LostOnlyByReuse'
      BY <1>1, <2>2, <2>4 DEF IInv, LostOnlyByReuse
    <2> QED BY <1>6, <1>8, <1>9, <1>10, <2>3, <2>5 DEF IInv
  <1> QED BY <1>11, <1>12, <1>13, <1>14
-----------------------------------------------------------------------------
(* The invariant holds initially.                                          *)
LEMMA IInvInit == Init => IInv
  <1> SUFFICES ASSUME Init PROVE IInv
    OBVIOUS
  <1>1. /\ files = << >> /\ known = {} /\ reused = {}
        /\ phase = [t \in Thread |-> "app"]
        /\ call = [t \in Thread |-> Duplicate(0)]
        /\ ret = [t \in Thread |-> 0]
        /\ activeFileDescriptors = [m \in Monitor |-> << >>]
    BY DEF Init
  <1>2. DOMAIN files = {} /\ \A m \in Monitor : DOMAIN activeFileDescriptors[m] = {}
    BY <1>1
  <1>3. Duplicate(0) \in Args /\ 0 \in Fd \cup (Error .. MaxRead)
    BY BoundAssumption DEF Duplicate, Args, Error
  <1>4. CallsTyped
    BY <1>1, <1>2, <1>3 DEF CallsTyped
  <1>5. OneOwner /\ FreshIsNew /\ ReusedKnown
    BY <1>1, <1>2 DEF OneOwner, FreshIsNew, ReusedKnown, Fresh, Closing
  <1>6. EntryFollowsKernel /\ LostOnlyByReuse
    BY <1>1, <1>2 DEF EntryFollowsKernel, LostOnlyByReuse, Opened
  <1> QED BY <1>4, <1>5, <1>6 DEF IInv

(* Every step of every thread, of the kernel and of the monitors preserves *)
(* the invariant.                                                          *)
LEMMA IInvStep == IInv /\ [Next]_vars => IInv'
  <1> SUFFICES ASSUME IInv, [Next]_vars PROVE IInv'
    OBVIOUS
  <1>1. ASSUME NEW t \in Thread, NEW args \in Requests(t), SysBefore(t, args)
        PROVE  IInv'
    BY <1>1, BeforeStep
  <1>2. ASSUME NEW t \in Thread, NEW fd \in Fd, KernelOpen(t, fd)
        PROVE  IInv'
    BY <1>2, NewDescriptorStep DEF KernelOpen
  <1>3. ASSUME NEW t \in Thread, NEW fd \in Fd, KernelDup(t, fd)
        PROVE  IInv'
    BY <1>3, NewDescriptorStep DEF KernelDup
  <1>4. ASSUME NEW t \in Thread, KernelClose(t)
        PROVE  IInv'
    BY <1>4, CloseStep
  <1>5. ASSUME NEW t \in Thread, NEW n \in 0 .. MaxRead, KernelRead(t, n)
        PROVE  IInv'
    <2>1. n \in Error .. MaxRead
      BY BoundAssumption DEF Error
    <2> QED BY <1>5, <2>1, ReturnStep DEF KernelRead
  <1>6. ASSUME NEW t \in Thread, KernelFails(t)
        PROVE  IInv'
    <2>1. Error \in Error .. MaxRead
      BY BoundAssumption DEF Error
    <2> QED BY <1>6, <2>1, ReturnStep DEF KernelFails
  <1>7. ASSUME NEW t \in Thread, SysAfter(t)
        PROVE  IInv'
    BY <1>7, AfterStep
  <1>8. CASE UNCHANGED vars
    BY <1>8 DEF vars, kernel, IInv, CallsTyped, OneOwner, FreshIsNew, ReusedKnown,
                EntryFollowsKernel, LostOnlyByReuse, Opened, Fresh, Closing,
                CloseUnreported
  <1> QED BY <1>1, <1>2, <1>3, <1>4, <1>5, <1>6, <1>7, <1>8 DEF Next

(* An entry of activeFileDescriptors names the file that the kernel has    *)
(* open under that number, except between a close and closeCallback, for   *)
(* any threads whose system calls interleave in any way.                   *)
THEOREM EntriesFollowKernel == Spec => []EntryFollowsKernel
  <1>1. IInv => EntryFollowsKernel
    BY DEF IInv
  <1> QED BY <1>1, IInvInit, IInvStep, PTL DEF Spec

(* closeCallback removes the entry of an open file in one case only: the   *)
(* kernel handed the number out again before the close was reported.       *)
THEOREM OnlyReuseLoses == Spec => []LostOnlyByReuse
  <1>1. IInv => LostOnlyByReuse
    BY DEF IInv
  <1> QED BY <1>1, IInvInit, IInvStep, PTL DEF Spec
-----------------------------------------------------------------------------
(* Every set of natural numbers has a least element.                       *)
LEMMA Least ==
  ASSUME NEW T \in SUBSET Nat, T # {}
  PROVE  \E x \in T : \A y \in T : x <= y
  <1>1. PICK x \in T : \A y \in T : ~(<<y, x>> \in OpToRel(<, Nat))
    BY NatLessThanWellFounded, WFMin
  <1>2. \A y \in T : ~(y < x)
    BY <1>1 DEF OpToRel
  <1> QED BY <1>2

(* A set with 0 and every successor up to N has all numbers up to N.       *)
LEMMA Upward ==
  ASSUME NEW N \in Nat, NEW T, 0 \in T, \A k \in 1 .. N : k - 1 \in T => k \in T
  PROVE  \A k \in 0 .. N : k \in T
  <1> DEFINE U == {k \in 0 .. N : k \notin T}
  <1> SUFFICES ASSUME U # {} PROVE FALSE
    OBVIOUS
  <1>1. PICK k \in U : \A y \in U : k <= y
    <2>1. U \in SUBSET Nat
      OBVIOUS
    <2> HIDE DEF U
    <2> QED BY <2>1, Least
  <1>2. k \in 1 .. N
    OBVIOUS
  <1>3. k - 1 \notin U
    BY <1>1, <1>2
  <1> QED BY <1>2, <1>3

(* g is base and then what the N functions F make of it, one after another.*)
Follows(g, base, N, F) == g[0] = base /\ \A k \in 1 .. N : g[k] = F[k][g[k - 1]]

(* A function of S to itself for each step can be followed for N steps.    *)
LEMMA Iterates ==
  ASSUME NEW S, NEW base \in S, NEW N \in Nat, NEW F \in [1 .. N -> [S -> S]]
  PROVE  \E g \in [0 .. N -> S] : Follows(g, base, N, F)
  <1> DEFINE T == {m \in 0 .. N : \E g \in [0 .. m -> S] : Follows(g, base, m, F)}
  <1>1. 0 \in T
    <2>1. /\ [k \in 0 .. 0 |-> base] \in [0 .. 0 -> S]
          /\ Follows([k \in 0 .. 0 |-> base], base, 0, F)
      BY DEF Follows
    <2>2. \E g \in [0 .. 0 -> S] : Follows(g, base, 0, F)
      BY <2>1
    <2> QED BY <2>2
  <1>2. ASSUME NEW m \in 1 .. N, m - 1 \in T PROVE m \in T
    <2>1. PICK g \in [0 .. m - 1 -> S] : Follows(g, base, m - 1, F)
      BY <1>2
    <2> DEFINE h == [k \in 0 .. m |-> IF k < m THEN g[k] ELSE F[m][g[m - 1]]]
    <2>2. g[m - 1] \in S /\ F[m][g[m - 1]] \in S
      BY <2>1
    <2>3. h \in [0 .. m -> S]
      BY <2>2
    <2>4. Follows(h, base, m, F)
      <3>1. h[0] = base
        BY <2>1 DEF Follows
      <3>2. ASSUME NEW k \in 1 .. m PROVE h[k] = F[k][h[k - 1]]
        <4>1. CASE k < m
          BY <4>1, <2>1 DEF Follows
        <4>2. CASE k = m
          BY <4>2
        <4> QED BY <4>1, <4>2
      <3> HIDE DEF h
      <3> QED BY <3>1, <3>2 DEF Follows
    <2> HIDE DEF h
    <2>5. \E f \in [0 .. m -> S] : Follows(f, base, m, F)
      BY <2>3, <2>4
    <2> QED BY <2>5
  <1>3. \A m \in 0 .. N : m \in T
    BY <1>1, <1>2, Upward
  <1> QED BY <1>3

(* Division with remainder.                                                *)
LEMMA Division ==
  ASSUME NEW M \in Nat \ {0}, NEW x \in Nat
  PROVE  x % M \in 0 .. M - 1 /\ \E q \in Int : x = M * q + (x % M)
  <1>1. x = M * (x \div M) + (x % M) /\ x \div M \in Int /\ x % M \in 0 .. M - 1
    OBVIOUS
  <1> QED BY <1>1

(* Numbers less than the modulus apart have different remainders.          *)
LEMMA ModDistinct ==
  ASSUME NEW M \in Nat \ {0}, NEW x \in Nat, NEW y \in Nat, x < y, y < x + M
  PROVE  x % M # y % M
  <1> SUFFICES ASSUME x % M = y % M PROVE FALSE
    OBVIOUS
  <1>1. PICK p \in Int : x = M * p + (x % M)
    BY Division
  <1>2. PICK q \in Int : y = M * q + (y % M)
    BY Division
  <1> DEFINE r == x % M
  <1>3. r \in Int /\ x = M * p + r /\ y = M * q + r
    BY <1>1, <1>2
  <1> HIDE DEF r
  <1>4. PICK d \in Int : d = q - p
    OBVIOUS
  <1>5. M * d > 0 /\ M * d < M
    <2>1. M * (q - p) = y - x
      BY <1>3
    <2> QED BY <2>1, <1>4
  <1>6. d > 0
    BY <1>5
  <1>7. d < 1
    BY <1>5
  <1> QED BY <1>6, <1>7

(* A mark is a number below _max.                                          *)
LEMMA MarkType ==
  ASSUME NEW k \in Nat
  PROVE  nextTaintMark(k) \in 0 .. Marks - 1
  <1>1. Marks \in Nat \ {0} /\ k + 1 \in Nat
    BY BoundAssumption
  <1>2. (k + 1) % Marks \in 0 .. Marks - 1
    BY <1>1, Division
  <1> QED BY <1>2 DEF nextTaintMark
-----------------------------------------------------------------------------
(* Maps from bytes of read buffers to sets of one mark.                    *)
Mem == UNION {[D -> {{k} : k \in 0 .. Marks - 1}] : D \in SUBSET Address}

(* What the read observers work on, and PerOffset's loop.                  *)
TaintState ==
  [mem : Mem, current : 0 .. Marks - 1, count : {c \in Int : c >= -1}, aborted : BOOLEAN]

LoopState ==
  [index : Nat, tag : -1 .. Marks - 1, mem : Mem, current : 0 .. Marks - 1,
   count : {c \in Int : c >= -1}, aborted : BOOLEAN]

(* y is x but for the bytes of W.                                          *)
SameBut(x, y, W) ==
  \A a \in Address \ W :
    (a \in DOMAIN y <=> a \in DOMAIN x) /\ (a \in DOMAIN x => y[a] = x[a])

(* Mem by its members' values.                                             *)
LEMMA MemFacts ==
  ASSUME NEW x
  PROVE  x \in Mem <=>
           /\ x = [a \in DOMAIN x |-> x[a]] /\ DOMAIN x \subseteq Address
           /\ \A a \in DOMAIN x : \E k \in 0 .. Marks - 1 : x[a] = {k}
  <1> DEFINE V == {{k} : k \in 0 .. Marks - 1}
  <1>1. ASSUME x \in Mem
        PROVE  /\ x = [a \in DOMAIN x |-> x[a]] /\ DOMAIN x \subseteq Address
               /\ \A a \in DOMAIN x : \E k \in 0 .. Marks - 1 : x[a] = {k}
    <2>1. PICK D \in SUBSET Address : x \in [D -> V]
      BY <1>1 DEF Mem
    <2> QED BY <2>1
  <1>2. ASSUME x = [a \in DOMAIN x |-> x[a]], DOMAIN x \subseteq Address,
               \A a \in DOMAIN x : \E k \in 0 .. Marks - 1 : x[a] = {k}
        PROVE  x \in Mem
    <2>1. x \in [DOMAIN x -> V]
      BY <1>2
    <2> QED BY <1>2, <2>1 DEF Mem
  <1> QED BY <1>1, <1>2

(* A byte gets a mark.                                                     *)
LEMMA AssignMem ==
  ASSUME NEW x \in Mem, NEW a \in Address, NEW k \in 0 .. Marks - 1
  PROVE  /\ Assign(x, a, {k}) \in Mem
         /\ DOMAIN Assign(x, a, {k}) = DOMAIN x \cup {a}
         /\ \A b \in DOMAIN x \ {a} : Assign(x, a, {k})[b] = x[b]
  <1> DEFINE y == Assign(x, a, {k})
  <1>1. /\ y = [b \in DOMAIN y |-> y[b]] /\ DOMAIN y = DOMAIN x \cup {a}
        /\ y[a] = {k} /\ \A b \in DOMAIN x \ {a} : y[b] = x[b]
    BY DEF Assign
  <1>2. DOMAIN x \subseteq Address
          /\ \A b \in DOMAIN x : \E j \in 0 .. Marks - 1 : x[b] = {j}
    BY MemFacts
  <1> HIDE DEF y
  <1>3. DOMAIN y \subseteq Address /\ \A b \in DOMAIN y : \E j \in 0 .. Marks - 1 : y[b] = {j}
    BY <1>1, <1>2
  <1>4. y \in Mem
    BY <1>1, <1>3, MemFacts
  <1> QED BY <1>1, <1>4 DEF y

(* Bytes get a mark each.                                                  *)
LEMMA MarkedMem ==
  ASSUME NEW x \in Mem, NEW B \in SUBSET Address, NEW marks \in [B -> 0 .. Marks - 1]
  PROVE  /\ Marked(x, marks) \in Mem /\ DOMAIN Marked(x, marks) = DOMAIN x \cup B
         /\ \A a \in B : Marked(x, marks)[a] = {marks[a]}
         /\ SameBut(x, Marked(x, marks), B)
  <1> DEFINE y == Marked(x, marks)
  <1>1. /\ y = [b \in DOMAIN y |-> y[b]] /\ DOMAIN y = DOMAIN x \cup B
        /\ \A b \in B : y[b] = {marks[b]}
        /\ \A b \in DOMAIN x \ B : y[b] = x[b]
    BY DEF Marked
  <1>2. DOMAIN x \subseteq Address
          /\ \A b \in DOMAIN x : \E j \in 0 .. Marks - 1 : x[b] = {j}
    BY MemFacts
  <1> HIDE DEF y
  <1>3. DOMAIN y \subseteq Address /\ \A b \in DOMAIN y : \E j \in 0 .. Marks - 1 : y[b] = {j}
    BY <1>1, <1>2
  <1>4. y \in Mem
    BY <1>1, <1>3, MemFacts
  <1>5. SameBut(x, y, B)
    BY <1>1 DEF SameBut
  <1> QED BY <1>1, <1>4, <1>5 DEF y

(* A range of datFile, with numbers for bounds.                            *)
LEMMA RangeType ==
  ASSUME NEW index \in Nat
  PROVE  /\ RangeAt(index)[1] \in Nat /\ RangeAt(index)[2] \in Nat
         /\ \A pos \in Int :
              RangeAt(index)[1] <= pos /\ pos <= RangeAt(index)[2] =>
                InRange(pos) \/ (pos = 0 /\ index > 0)
  <1>1. Ranges \in Seq(Nat \X Nat)
    BY BoundAssumption
  <1>2. CASE index < Len(Ranges)
    <2>1. index + 1 \in DOMAIN Ranges /\ RangeAt(index) = Ranges[index + 1]
      BY <1>1, <1>2 DEF RangeAt
    <2>2. Ranges[index + 1] \in Nat \X Nat
      BY <1>1, <2>1
    <2> QED BY <2>1, <2>2 DEF InRange
  <1>3. CASE ~(index < Len(Ranges))
    <2>1. RangeAt(index) = <<0, 0>>
      BY <1>3 DEF RangeAt
    <2>2. index = 0 => Ranges = << >>
      BY <1>1, <1>3
    <2> QED BY <2>1, <2>2 DEF InRange
  <1> QED BY <1>2, <1>3

(* One byte of PerOffset: it counts, and is marked only inside a range.    *)
LEMMA OffsetByteFacts ==
  ASSUME NEW r \in LoopState, NEW a \in Address
  PROVE  /\ OffsetByte(r, a) \in LoopState
         /\ r.aborted => OffsetByte(r, a) = r
         /\ ~r.aborted => OffsetByte(r, a).count = r.count + 1
         /\ SameBut(r.mem, OffsetByte(r, a).mem, {a})
         /\ ~InRange(r.count + 1) /\ (r.count = -1 => r.index = 0) =>
              OffsetByte(r, a).mem = r.mem
  <1> DEFINE pos == r.count + 1
             range == RangeAt(r.index)
             fresh == pos = range[1]
             cur == IF fresh THEN nextTaintMark(r.current) ELSE r.current
             tag == IF fresh THEN cur ELSE r.tag
  <1>1. /\ r.index \in Nat /\ r.tag \in -1 .. Marks - 1 /\ r.mem \in Mem
        /\ r.current \in 0 .. Marks - 1 /\ r.count \in Int /\ r.count >= -1
        /\ r.aborted \in BOOLEAN /\ Marks \in Nat \ {0}
    BY BoundAssumption DEF LoopState
  <1>2. /\ range[1] \in Nat /\ range[2] \in Nat /\ pos \in Nat
        /\ range[1] <= pos /\ pos <= range[2] => InRange(pos) \/ (pos = 0 /\ r.index > 0)
    <2>1. pos \in Int /\ pos \in Nat
      BY <1>1
    <2> QED BY <1>1, <2>1, RangeType
  <1>3. cur \in 0 .. Marks - 1 /\ tag \in -1 .. Marks - 1
    <2>1. r.current \in Nat
      BY <1>1
    <2>2. nextTaintMark(r.current) \in 0 .. Marks - 1
      BY <2>1, MarkType
    <2> QED BY <1>1, <2>2
  <1>4. \A x : SameBut(x, x, {a})
    BY DEF SameBut
  <1>5. OffsetByte(r, a) =
          IF r.aborted THEN r
          ELSE IF pos < range[1] \/ pos > range[2] THEN [r EXCEPT !.count = pos]
          ELSE [count   |-> pos, current |-> cur, tag |-> tag,
                index   |-> IF pos = range[2] THEN r.index + 1 ELSE r.index,
                aborted |-> tag = -1,
                mem     |-> IF tag = -1 THEN r.mem ELSE Assign(r.mem, a, {tag})]
    BY DEF OffsetByte
  <1> HIDE DEF pos, range, cur, tag, fresh
  <1>6. CASE r.aborted
    BY <1>4, <1>5, <1>6
  <1>7. CASE ~r.aborted /\ (pos < range[1] \/ pos > range[2])
    <2>1. OffsetByte(r, a) = [r EXCEPT !.count = pos]
      BY <1>5, <1>7
    <2>2. OffsetByte(r, a) \in LoopState /\ OffsetByte(r, a).count = pos
            /\ OffsetByte(r, a).mem = r.mem
      BY <1>2, <2>1 DEF LoopState
    <2> QED BY <1>4, <1>7, <2>2 DEF pos
  <1>8. CASE ~r.aborted /\ ~(pos < range[1] \/ pos > range[2])
    <2> DEFINE mem == IF tag = -1 THEN r.mem ELSE Assign(r.mem, a, {tag})
               index == IF pos = range[2] THEN r.index + 1 ELSE r.index
    <2>1. mem \in Mem /\ SameBut(r.mem, mem, {a})
      <3>1. CASE tag = -1
        BY <3>1, <1>1, <1>4
      <3>2. CASE tag # -1
        <4>1. tag \in 0 .. Marks - 1
          BY <3>2, <1>3
        <4>2. /\ Assign(r.mem, a, {tag}) \in Mem
              /\ DOMAIN Assign(r.mem, a, {tag}) = DOMAIN r.mem \cup {a}
              /\ \A b \in DOMAIN r.mem \ {a} : Assign(r.mem, a, {tag})[b] = r.mem[b]
          BY <1>1, <4>1, AssignMem
        <4> QED BY <3>2, <4>2 DEF SameBut
      <3> QED BY <3>1, <3>2
    <2>2. index \in Nat
      BY <1>1
    <2> HIDE DEF mem, index
    <2> DEFINE failed == (tag = -1)
    <2>3. /\ OffsetByte(r, a) = [count |-> pos, current |-> cur, tag |-> tag,
                                 index |-> index, aborted |-> failed, mem |-> mem]
          /\ failed \in BOOLEAN
      BY <1>5, <1>8 DEF mem, index
    <2> HIDE DEF failed
    <2>4. /\ OffsetByte(r, a) \in LoopState /\ OffsetByte(r, a).count = pos
          /\ OffsetByte(r, a).mem = mem
      BY <1>2, <1>3, <2>1, <2>2, <2>3 DEF LoopState
    <2>5. InRange(pos) \/ (pos = 0 /\ r.index > 0)
      BY <1>2, <1>8
    <2> QED BY <1>1, <1>8, <2>1, <2>4, <2>5 DEF pos
  <1> QED BY <1>6, <1>7, <1>8

(* The addresses of a read.                                                *)
LEMMA ReadBytes ==
  ASSUME NEW t \in Thread, NEW n \in 0 .. MaxRead, NEW args, args.buf = Buffer[t]
  PROVE  /\ Read(args, n) \subseteq Address /\ args.buf \in Nat
         /\ \A k \in 1 .. n : args.buf + (k - 1) \in Read(args, n)
  <1>1. args.buf \in Nat /\ MaxRead \in Nat
    BY BoundAssumption
  <1>2. Read(args, n) \subseteq Bytes(t)
    BY <1>1 DEF Read, Bytes
  <1>3. Read(args, n) \subseteq Address
    BY <1>2 DEF Address
  <1>4. \A k \in 1 .. n : args.buf + (k - 1) \in Read(args, n)
    BY <1>1 DEF Read
  <1> QED BY <1>1, <1>3, <1>4

(* PerOffset's loop, byte by byte: the k-th byte is the one numbered       *)
(* count + k of the input, and only bytes in a range are marked.           *)
LEMMA OffsetLoopFacts ==
  ASSUME NEW t \in Thread, NEW n \in 0 .. MaxRead, NEW args, args.buf = Buffer[t],
         NEW m \in TaintState, ~m.aborted
  PROVE  /\ OffsetLoop(m, args, n)[n] \in LoopState
         /\ SameBut(m.mem, OffsetLoop(m, args, n)[n].mem,
                    {a \in Read(args, n) : InRange(m.count + 1 + a - Buffer[t])})
  <1> DEFINE base == [index |-> 0, tag |-> -1, mem |-> m.mem, current |-> m.current,
                      count |-> m.count, aborted |-> m.aborted]
             At(k) == args.buf + (k - 1)
             L == OffsetLoop(m, args, n)
             F == [k \in 1 .. n |-> [r \in LoopState |-> OffsetByte(r, At(k))]]
  <1>1. n \in Nat /\ Marks \in Nat \ {0}
    BY BoundAssumption
  <1>2. base \in LoopState /\ base.count = m.count /\ base.index = 0 /\ base.mem = m.mem
          /\ base.aborted = m.aborted /\ m.count \in Int /\ m.count >= -1
    BY <1>1 DEF LoopState, TaintState
  <1>3. \A k \in 1 .. n : At(k) \in Address /\ At(k) \in Read(args, n)
    BY ReadBytes
  <1>4. args.buf \in Nat
    BY ReadBytes
  <1> HIDE DEF base, At
  <1>5. F \in [1 .. n -> [LoopState -> LoopState]]
    BY <1>3, OffsetByteFacts
  <1>6. PICK g \in [0 .. n -> LoopState] :
          g[0] = base /\ \A k \in 1 .. n : g[k] = F[k][g[k - 1]]
    <2> HIDE DEF F
    <2>1. base \in LoopState /\ n \in Nat
      BY <1>1, <1>2
    <2>2. \E g \in [0 .. n -> LoopState] : Follows(g, base, n, F)
      BY <1>5, <2>1, Iterates
    <2> QED BY <2>2 DEF Follows
  <1>7. L = CHOOSE f : f = [k \in 0 .. n |-> IF k = 0 THEN base ELSE OffsetByte(f[k - 1], At(k))]
    BY DEF OffsetLoop, base, At
  <1>8. g = [k \in 0 .. n |-> IF k = 0 THEN base ELSE OffsetByte(g[k - 1], At(k))]
    <2>1. ASSUME NEW k \in 0 .. n
          PROVE  g[k] = IF k = 0 THEN base ELSE OffsetByte(g[k - 1], At(k))
      <3>1. CASE k = 0
        BY <3>1, <1>6
      <3>2. CASE k # 0
        <4>1. k \in 1 .. n /\ g[k - 1] \in LoopState
          BY <3>2
        <4>2. g[k] = F[k][g[k - 1]]
          BY <4>1, <1>6
        <4> QED BY <3>2, <4>1, <4>2
      <3> QED BY <3>1, <3>2
    <2> QED BY <2>1
  <1>9. L = [k \in 0 .. n |-> IF k = 0 THEN base ELSE OffsetByte(L[k - 1], At(k))]
    <2> HIDE DEF L
    <2> QED BY <1>7, <1>8
  <1> HIDE DEF L, F
  <1> DEFINE W(k) == {a \in Read(args, k) : InRange(m.count + 1 + a - Buffer[t])}
             T == {k \in 0 .. n :
                     /\ L[k] \in LoopState
                     /\ ~L[k].aborted => L[k].count = m.count + k
                     /\ k = 0 => L[k].index = 0
                     /\ SameBut(m.mem, L[k].mem, W(k))}
  <1>10. 0 \in T
    <2>1. L[0] = base
      BY <1>1, <1>9
    <2>2. SameBut(m.mem, base.mem, W(0))
      BY <1>2 DEF SameBut
    <2> HIDE DEF W
    <2> QED BY <1>1, <1>2, <2>1, <2>2
  <1>11. ASSUME NEW k \in 1 .. n, k - 1 \in T PROVE k \in T
    <2>1. /\ L[k - 1] \in LoopState
          /\ ~L[k - 1].aborted => L[k - 1].count = m.count + (k - 1)
          /\ k - 1 = 0 => L[k - 1].index = 0
          /\ SameBut(m.mem, L[k - 1].mem, W(k - 1))
      BY <1>11
    <2>2. L[k] = OffsetByte(L[k - 1], At(k))
      BY <1>9
    <2>3. /\ L[k] \in LoopState
          /\ L[k - 1].aborted => L[k] = L[k - 1]
          /\ ~L[k - 1].aborted => L[k].count = L[k - 1].count + 1
          /\ SameBut(L[k - 1].mem, L[k].mem, {At(k)})
          /\ ~InRange(L[k - 1].count + 1) /\ (L[k - 1].count = -1 => L[k - 1].index = 0) =>
               L[k].mem = L[k - 1].mem
      BY <1>3, <2>1, <2>2, OffsetByteFacts
    <2>4. ~L[k].aborted => L[k].count = m.count + k
      BY <1>2, <2>1, <2>3
    <2>5. k # 0
      OBVIOUS
    <2>6. W(k - 1) \subseteq W(k)
      BY <1>4 DEF Read
    <2>7. ASSUME At(k) \notin W(k) PROVE L[k].mem = L[k - 1].mem
      <3>1. CASE L[k - 1].aborted
        BY <3>1, <2>3
      <3>2. CASE ~L[k - 1].aborted
        <4>1. At(k) \in Read(args, k) /\ m.count + 1 + At(k) - Buffer[t] = m.count + k
          BY <1>2, <1>4 DEF Read, At
        <4>2. ~InRange(m.count + k)
          BY <2>7, <4>1
        <4>3. L[k - 1].count + 1 = m.count + k
          BY <1>2, <2>1, <3>2
        <4>4. L[k - 1].count = -1 => k - 1 = 0
          BY <1>2, <2>1, <3>2
        <4> QED BY <2>1, <2>3, <4>2, <4>3, <4>4
      <3> QED BY <3>1, <3>2
    <2>8. SameBut(m.mem, L[k].mem, W(k))
      <3> HIDE DEF W
      <3>1. CASE At(k) \in W(k)
        BY <3>1, <2>1, <2>3, <2>6 DEF SameBut
      <3>2. CASE At(k) \notin W(k)
        BY <3>2, <2>1, <2>6, <2>7 DEF SameBut
      <3> QED BY <3>1, <3>2
    <2> HIDE DEF W
    <2> QED BY <2>3, <2>4, <2>5, <2>8
  <1>12. \A k \in 0 .. n : k \in T
    <2> HIDE DEF T
    <2> QED BY <1>1, <1>10, <1>11, Upward
  <1>13. n \in 0 .. n
    BY <1>1
  <1>14. L[n] \in LoopState /\ SameBut(m.mem, L[n].mem, W(n))
    BY <1>12, <1>13
  <1> QED BY <1>14 DEF L

(* PerByte gives each byte of the read a mark, the next one each time.     *)
LEMMA PerByteFacts ==
  ASSUME NEW t \in Thread, NEW n \in 1 .. MaxRead, NEW args, args.buf = Buffer[t],
         NEW m \in TaintState, NEW res, res = pathSourceReadCallbackPerByte(m, args, n)
  PROVE  /\ res \in TaintState
         /\ SameBut(m.mem, res.mem, Read(args, n)) /\ Read(args, n) \subseteq DOMAIN res.mem
         /\ \A a, b \in Read(args, n) : a < b /\ b < a + Marks => res.mem[a] # res.mem[b]
  <1>1. /\ n \in Nat /\ n > 0 /\ n \in 0 .. MaxRead /\ Marks \in Nat \ {0}
        /\ m.current \in Nat /\ m.mem \in Mem
    BY BoundAssumption DEF TaintState
  <1>2. Read(args, n) \in SUBSET Address /\ args.buf \in Nat
    BY <1>1, ReadBytes
  <1> DEFINE Mark(a) == nextTaintMark(m.current + (a - args.buf))
             marks == [a \in Read(args, n) |-> Mark(a)]
             last == nextTaintMark(m.current + (n - 1))
  <1>3. last \in 0 .. Marks - 1
    <2>1. m.current + (n - 1) \in Nat
      BY <1>1
    <2> QED BY <2>1, MarkType
  <1>4. \A a \in Read(args, n) : m.current + (a - args.buf) \in Nat
    BY <1>1, <1>2 DEF Read
  <1>5. marks \in [Read(args, n) -> 0 .. Marks - 1]
    <2>1. \A a \in Read(args, n) : Mark(a) \in 0 .. Marks - 1
      BY <1>4, MarkType
    <2> HIDE DEF Mark
    <2> QED BY <2>1
  <1>6. ASSUME NEW a \in Read(args, n), NEW b \in Read(args, n), a < b, b < a + Marks
        PROVE  Mark(a) # Mark(b)
    <2>1. PICK x \in Nat, y \in Nat : /\ x = m.current + (a - args.buf) + 1
                                     /\ y = m.current + (b - args.buf) + 1
      BY <1>4
    <2>2. x < y /\ y < x + Marks
      BY <1>1, <1>2, <1>6, <2>1 DEF Read
    <2>3. x % Marks # y % Marks
      BY <1>1, <2>2, ModDistinct
    <2> QED BY <2>1, <2>3 DEF nextTaintMark
  <1>7. res = [m EXCEPT !.current = last, !.mem = Marked(@, marks)]
    BY <1>1 DEF pathSourceReadCallbackPerByte
  <1>8. \A a \in Read(args, n) : marks[a] = Mark(a)
    OBVIOUS
  <1> HIDE DEF Mark, marks, last
  <1>9. /\ Marked(m.mem, marks) \in Mem
        /\ DOMAIN Marked(m.mem, marks) = DOMAIN m.mem \cup Read(args, n)
        /\ \A a \in Read(args, n) : Marked(m.mem, marks)[a] = {marks[a]}
        /\ SameBut(m.mem, Marked(m.mem, marks), Read(args, n))
    BY <1>1, <1>2, <1>5, MarkedMem
  <1>10. res \in TaintState /\ res.mem = Marked(m.mem, marks)
    BY <1>3, <1>7, <1>9 DEF TaintState
  <1>11. \A a, b \in Read(args, n) : a < b /\ b < a + Marks => res.mem[a] # res.mem[b]
    BY <1>6, <1>8, <1>9, <1>10
  <1> QED BY <1>9, <1>10, <1>11

(* PerRead gives all bytes of the read the next mark.                      *)
LEMMA PerReadFacts ==
  ASSUME NEW t \in Thread, NEW n \in 1 .. MaxRead, NEW args, args.buf = Buffer[t],
         NEW m \in TaintState, NEW res, res = pathSourceReadCallbackPerRead(m, args, n)
  PROVE  /\ res \in TaintState
         /\ SameBut(m.mem, res.mem, Read(args, n)) /\ Read(args, n) \subseteq DOMAIN res.mem
         /\ \A a, b \in Read(args, n) : res.mem[a] = res.mem[b]
  <1>1. /\ n \in Nat /\ n > 0 /\ n \in 0 .. MaxRead /\ m.current \in Nat /\ m.mem \in Mem
    BY BoundAssumption DEF TaintState
  <1>2. Read(args, n) \in SUBSET Address
    BY <1>1, ReadBytes
  <1> DEFINE mark == nextTaintMark(m.current)
             marks == [a \in Read(args, n) |-> mark]
  <1>3. mark \in 0 .. Marks - 1
    BY <1>1, MarkType
  <1>4. res = [m EXCEPT !.current = mark, !.mem = Marked(@, marks)]
    BY <1>1 DEF pathSourceReadCallbackPerRead
  <1> HIDE DEF mark
  <1>5. marks \in [Read(args, n) -> 0 .. Marks - 1] /\ \A a \in Read(args, n) : marks[a] = mark
    BY <1>3
  <1> HIDE DEF marks
  <1>6. /\ Marked(m.mem, marks) \in Mem
        /\ DOMAIN Marked(m.mem, marks) = DOMAIN m.mem \cup Read(args, n)
        /\ \A a \in Read(args, n) : Marked(m.mem, marks)[a] = {marks[a]}
        /\ SameBut(m.mem, Marked(m.mem, marks), Read(args, n))
    BY <1>1, <1>2, <1>5, MarkedMem
  <1>7. res \in TaintState /\ res.mem = Marked(m.mem, marks)
    BY <1>3, <1>4, <1>6 DEF TaintState
  <1> QED BY <1>5, <1>6, <1>7

(* PerOffset marks only bytes of the read whose number is in a range.      *)
LEMMA PerOffsetFacts ==
  ASSUME NEW t \in Thread, NEW n \in 0 .. MaxRead, NEW args, args.buf = Buffer[t],
         NEW m \in TaintState, ~m.aborted,
         NEW res, res = pathSourceReadCallbackPerOffset(m, args, n)
  PROVE  /\ res \in TaintState
         /\ SameBut(m.mem, res.mem,
                    {a \in Read(args, n) : InRange(m.count + 1 + a - Buffer[t])})
         /\ SameBut(m.mem, res.mem, Read(args, n))
  <1>1. PICK done : done = OffsetLoop(m, args, n)[n]
    OBVIOUS
  <1>2. /\ done \in LoopState
        /\ SameBut(m.mem, done.mem,
                   {a \in Read(args, n) : InRange(m.count + 1 + a - Buffer[t])})
    BY <1>1, OffsetLoopFacts
  <1>3. res = [mem |-> done.mem, current |-> done.current, count |-> done.count,
               aborted |-> done.aborted]
    BY <1>1 DEF pathSourceReadCallbackPerOffset
  <1>4. res \in TaintState /\ res.mem = done.mem
    BY <1>2, <1>3 DEF TaintState, LoopState
  <1>5. SameBut(m.mem, res.mem, Read(args, n))
    BY <1>2, <1>4 DEF SameBut
  <1> QED BY <1>2, <1>4, <1>5

(* What MarkedBy says of a read, on the records before and after it.       *)
MarkedAs(source, m, res, args, n) ==
  LET buf == Read(args, n)
  IN  /\ source.granularity = "PerByte" =>
           /\ buf \subseteq DOMAIN res.mem
           /\ \A a, b \in buf : a < b /\ b < a + Marks => res.mem[a] # res.mem[b]
      /\ source.granularity = "PerRead" =>
           /\ buf \subseteq DOMAIN res.mem
           /\ \A a, b \in buf : res.mem[a] = res.mem[b]
      /\ source.granularity = "PerOffset" =>
           SameBut(m.mem, res.mem, {a \in buf : InRange(m.count + 1 + a - args.buf)})

Granularity == {"PerByte", "PerRead", "PerOffset"}

(* What one monitor does with a read: nothing if the descriptor is not in  *)
(* its table or the file not in its source.                                *)
LEMMA NotifyFacts ==
  ASSUME NEW t \in Thread, NEW n \in 0 .. MaxRead, NEW args, args.buf = Buffer[t],
         NEW m \in TaintState, ~m.aborted, NEW source, source.granularity \in Granularity,
         NEW active, NEW res, res = notifyForRead(m, source, active, args, n)
  PROVE  /\ res \in TaintState
         /\ SameBut(m.mem, res.mem, Read(args, n))
         /\ args.fd \notin DOMAIN active \/ ~Observes(source, active[args.fd]) => res = m
         /\ args.fd \in DOMAIN active /\ Observes(source, active[args.fd]) /\ n > 0 =>
              MarkedAs(source, m, res, args, n)
  <1>0. \A W : SameBut(m.mem, m.mem, W)
    BY DEF SameBut
  <1>1. CASE args.fd \notin DOMAIN active \/ ~Observes(source, active[args.fd])
    BY <1>0, <1>1 DEF notifyForRead
  <1>2. CASE args.fd \in DOMAIN active /\ Observes(source, active[args.fd])
    <2>0. n \in Int
      OBVIOUS
    <2>1. CASE source.granularity = "PerByte"
      <3>1. res = pathSourceReadCallbackPerByte(m, args, n)
        BY <1>2, <2>1 DEF notifyForRead
      <3>2. CASE n > 0
        <4>1. n \in 1 .. MaxRead
          BY <3>2
        <4>2. /\ res \in TaintState
              /\ SameBut(m.mem, res.mem, Read(args, n)) /\ Read(args, n) \subseteq DOMAIN res.mem
              /\ \A a, b \in Read(args, n) : a < b /\ b < a + Marks => res.mem[a] # res.mem[b]
          BY <3>1, <4>1, PerByteFacts
        <4> QED BY <1>2, <2>1, <4>2 DEF MarkedAs
      <3>3. CASE ~(n > 0)
        <4>1. res = m
          BY <2>0, <3>1, <3>3 DEF pathSourceReadCallbackPerByte
        <4> QED BY <1>0, <1>2, <3>3, <4>1
      <3> QED BY <3>2, <3>3
    <2>2. CASE source.granularity = "PerRead"
      <3>1. res = pathSourceReadCallbackPerRead(m, args, n)
        BY <1>2, <2>2 DEF notifyForRead
      <3>2. CASE n > 0
        <4>1. n \in 1 .. MaxRead
          BY <3>2
        <4>2. /\ res \in TaintState
              /\ SameBut(m.mem, res.mem, Read(args, n)) /\ Read(args, n) \subseteq DOMAIN res.mem
              /\ \A a, b \in Read(args, n) : res.mem[a] = res.mem[b]
          BY <3>1, <4>1, PerReadFacts
        <4> QED BY <1>2, <2>2, <4>2 DEF MarkedAs
      <3>3. CASE ~(n > 0)
        <4>1. res = m
          BY <2>0, <3>1, <3>3 DEF pathSourceReadCallbackPerRead
        <4> QED BY <1>0, <1>2, <3>3, <4>1
      <3> QED BY <3>2, <3>3
    <2>3. CASE source.granularity = "PerOffset"
      <3>1. res = pathSourceReadCallbackPerOffset(m, args, n)
        BY <1>2, <2>3 DEF notifyForRead
      <3>2. /\ res \in TaintState
            /\ SameBut(m.mem, res.mem,
                       {a \in Read(args, n) : InRange(m.count + 1 + a - Buffer[t])})
            /\ SameBut(m.mem, res.mem, Read(args, n))
        BY <3>1, PerOffsetFacts
      <3> QED BY <1>2, <2>3, <3>2 DEF MarkedAs
    <2> QED BY <2>1, <2>2, <2>3 DEF Granularity
  <1> QED BY <1>1, <1>2

(* Every source has one of the three granularities.                        *)
LEMMA GranularityType ==
  Len(Sources) \in Nat /\ \A i \in Monitor : Sources[i].granularity \in Granularity
  <1>1. PICK R : R = [file : SUBSET Path, all : BOOLEAN, granularity : Granularity]
    OBVIOUS
  <1>2. Sources \in Seq(R)
    BY <1>1, SourceAssumption DEF Granularity
  <1>3. Len(Sources) \in Nat /\ \A i \in Monitor : Sources[i] \in R
    BY <1>2 DEF Monitor
  <1>4. \A r \in R : r.granularity \in Granularity
    BY <1>1
  <1> QED BY <1>3, <1>4

(* What the monitor of source i makes of state m of the taint maps.        *)
Notify(m, i, args, n) ==
  IF m.aborted THEN m
  ELSE notifyForRead(m, Sources[i], activeFileDescriptors[i], args, n)

(* The monitors one after the other: the result is typed and differs in    *)
(* bytes of the read only; if one source observes the file, it is what     *)
(* that one makes of it.                                                   *)
LEMMA NotifiedFacts ==
  ASSUME NEW t \in Thread, NEW n \in 0 .. MaxRead, NEW args, args.buf = Buffer[t],
         Taint \in TaintState, ~aborted
  PROVE  /\ Notified(args, n)[Len(Sources)] \in TaintState
         /\ SameBut(memTaintMap, Notified(args, n)[Len(Sources)].mem, Read(args, n))
         /\ \A o \in Monitor :
              (\A i \in Monitor \ {o} :
                 args.fd \in DOMAIN activeFileDescriptors[i] =>
                   ~Observes(Sources[i], activeFileDescriptors[i][args.fd]))
              => Notified(args, n)[Len(Sources)] =
                   notifyForRead(Taint, Sources[o], activeFileDescriptors[o], args, n)
  <1> DEFINE N == Len(Sources)
             A == Notified(args, n)
             F == [i \in 1 .. N |-> [m \in TaintState |-> Notify(m, i, args, n)]]
             One(i) == notifyForRead(Taint, Sources[i], activeFileDescriptors[i], args, n)
  <1>1. N \in Nat /\ \A i \in 1 .. N : Sources[i].granularity \in Granularity
    BY GranularityType DEF Monitor
  <1>2. Taint.mem = memTaintMap /\ ~Taint.aborted
    BY DEF Taint
  <1>3. ASSUME NEW i \in 1 .. N, NEW m \in TaintState
        PROVE  /\ Notify(m, i, args, n) \in TaintState
               /\ SameBut(m.mem, Notify(m, i, args, n).mem, Read(args, n))
    <2>1. CASE m.aborted
      BY <2>1 DEF Notify, SameBut
    <2>2. CASE ~m.aborted
      <3>1. Notify(m, i, args, n) = notifyForRead(m, Sources[i], activeFileDescriptors[i], args, n)
        BY <2>2 DEF Notify
      <3> QED BY <1>1, <2>2, <3>1, NotifyFacts
    <2> QED BY <2>1, <2>2
  <1>4. F \in [1 .. N -> [TaintState -> TaintState]]
    BY <1>3
  <1>5. PICK g \in [0 .. N -> TaintState] :
          g[0] = Taint /\ \A i \in 1 .. N : g[i] = F[i][g[i - 1]]
    <2> HIDE DEF F, N
    <2>1. \E g \in [0 .. N -> TaintState] : Follows(g, Taint, N, F)
      BY <1>1, <1>4, Iterates
    <2> QED BY <2>1 DEF Follows
  <1>6. A = CHOOSE f : f = [i \in 0 .. N |-> IF i = 0 THEN Taint ELSE Notify(f[i - 1], i, args, n)]
    BY DEF Notified, Notify
  <1>7. g = [i \in 0 .. N |-> IF i = 0 THEN Taint ELSE Notify(g[i - 1], i, args, n)]
    <2> HIDE DEF N
    <2>1. ASSUME NEW i \in 0 .. N
          PROVE  g[i] = IF i = 0 THEN Taint ELSE Notify(g[i - 1], i, args, n)
      <3>1. CASE i = 0
        BY <3>1, <1>5
      <3>2. CASE i # 0
        <4>1. i \in 1 .. N /\ g[i - 1] \in TaintState
          BY <1>1, <3>2
        <4>2. g[i] = F[i][g[i - 1]]
          BY <4>1, <1>5
        <4> QED BY <3>2, <4>1, <4>2
      <3> QED BY <3>1, <3>2
    <2> QED BY <2>1
  <1>8. A = [i \in 0 .. N |-> IF i = 0 THEN Taint ELSE Notify(A[i - 1], i, args, n)]
    <2> HIDE DEF A
    <2> QED BY <1>6, <1>7
  <1> HIDE DEF A, F, N
  <1>9. A[0] = Taint /\ \A i \in 1 .. N : A[i] = Notify(A[i - 1], i, args, n)
    BY <1>1, <1>8
  <1> DEFINE T == {i \in 0 .. N : A[i] \in TaintState /\ SameBut(memTaintMap, A[i].mem, Read(args, n))}
  <1>10. 0 \in T
    BY <1>1, <1>2, <1>9 DEF SameBut
  <1>11. ASSUME NEW i \in 1 .. N, i - 1 \in T PROVE i \in T
    <2>1. A[i - 1] \in TaintState /\ SameBut(memTaintMap, A[i - 1].mem, Read(args, n))
      BY <1>11
    <2>2. A[i] \in TaintState /\ SameBut(A[i - 1].mem, A[i].mem, Read(args, n))
      BY <1>3, <1>9, <2>1
    <2>3. SameBut(memTaintMap, A[i].mem, Read(args, n))
      BY <2>1, <2>2 DEF SameBut
    <2>4. i \in 0 .. N
      OBVIOUS
    <2> QED BY <2>2, <2>3, <2>4
  <1>12. \A i \in 0 .. N : i \in T
    <2> HIDE DEF T
    <2> QED BY <1>1, <1>10, <1>11, Upward
  <1>13. A[N] \in TaintState /\ SameBut(memTaintMap, A[N].mem, Read(args, n))
    <2>1. N \in 0 .. N
      BY <1>1
    <2> QED BY <1>12, <2>1
  <1>14. ASSUME NEW o \in Monitor,
                \A i \in Monitor \ {o} :
                  args.fd \in DOMAIN activeFileDescriptors[i] =>
                    ~Observes(Sources[i], activeFileDescriptors[i][args.fd])
         PROVE  A[N] = One(o)
    <2>1. o \in 1 .. N
      BY DEF Monitor, N
    <2>2. ASSUME NEW i \in 1 .. N, i # o, NEW m \in TaintState
          PROVE  Notify(m, i, args, n) = m
      <3>1. i \in Monitor \ {o}
        BY <2>2 DEF Monitor, N
      <3>2. args.fd \notin DOMAIN activeFileDescriptors[i]
              \/ ~Observes(Sources[i], activeFileDescriptors[i][args.fd])
        BY <1>14, <3>1
      <3> QED BY <3>2 DEF Notify, notifyForRead
    <2> HIDE DEF One
    <2> DEFINE U == {i \in 0 .. N : A[i] = IF i < o THEN Taint ELSE One(o)}
    <2>3. 0 \in U
      BY <1>1, <1>9, <2>1
    <2>4. ASSUME NEW i \in 1 .. N, i - 1 \in U PROVE i \in U
      <3>1. A[i - 1] = (IF i - 1 < o THEN Taint ELSE One(o)) /\ i \in 0 .. N
        BY <2>4
      <3>2. A[i - 1] \in TaintState
        <4>1. i - 1 \in 0 .. N
          BY <1>1
        <4> QED BY <1>12, <4>1
      <3>3. A[i] = Notify(A[i - 1], i, args, n)
        BY <1>9
      <3>4. CASE i # o
        <4>1. A[i] = A[i - 1]
          BY <2>2, <3>2, <3>3, <3>4
        <4>2. (i - 1 < o) <=> (i < o)
          BY <2>1, <3>4
        <4> QED BY <3>1, <4>1, <4>2
      <3>5. CASE i = o
        <4>1. A[i - 1] = Taint
          BY <2>1, <3>1, <3>5
        <4>2. A[i] = One(o)
          BY <1>2, <3>3, <3>5, <4>1 DEF Notify, One
        <4> QED BY <2>1, <3>1, <3>5, <4>2
      <3> QED BY <3>4, <3>5
    <2>5. N \in U
      <3>1. N \in 0 .. N
        BY <1>1
      <3> HIDE DEF U
      <3> QED BY <1>1, <2>3, <2>4, <3>1, Upward
    <2> QED BY <1>1, <2>1, <2>5
  <1> QED BY <1>13, <1>14 DEF A, N
-----------------------------------------------------------------------------
(* The rest of TypeOK, and what is known of a read: it is into the         *)
(* thread's own buffer, and its result is a number of bytes or an error.   *)
TypedInv ==
  /\ reused \subseteq Fd
  /\ DOMAIN pendingSyscalls \subseteq Thread
  /\ \A t \in DOMAIN pendingSyscalls : pendingSyscalls[t] \in Args
  /\ \A m \in Monitor :
       /\ DOMAIN activeFileDescriptors[m] \subseteq Fd
       /\ \A fd \in DOMAIN activeFileDescriptors[m] : activeFileDescriptors[m][fd] \in Path
  /\ Taint \in TaintState
  /\ \A t \in Thread : phase[t] # "app" /\ call[t].num = "read" => call[t].buf = Buffer[t]
  /\ \A t \in Thread :
       phase[t] = "returned" /\ call[t].num = "read" => ret[t] \in Error .. MaxRead

(* A read's arguments and result when it is reported.                      *)
LEMMA ReadReported ==
  ASSUME IInv, TypedInv, NEW t \in Thread, SysAfter(t), call[t].num = "read"
  PROVE  /\ call[t].buf = Buffer[t] /\ Buffer[t] \in Nat /\ ~aborted
         /\ \/ ret[t] = Error /\ Taint' = Taint /\ Filled(t) = {}
            \/ /\ ret[t] \in 0 .. MaxRead /\ Filled(t) = Read(call[t], ret[t])
               /\ Taint' = Notified(call[t], ret[t])[Len(Sources)]
  <1>1. phase[t] = "returned" /\ ~aborted /\ endSyscall(t) /\ pendingSyscalls[t] = call[t]
    BY DEF SysAfter, IInv, CallsTyped
  <1>2. call[t].buf = Buffer[t] /\ ret[t] \in Error .. MaxRead /\ Buffer[t] \in Nat
    BY <1>1, BoundAssumption DEF TypedInv
  <1>3. readCallback(call[t], ret[t])
    BY <1>1 DEF endSyscall
  <1>4. CASE ret[t] = Error
    <2>1. Taint' = Taint
      BY <1>3, <1>4 DEF readCallback, Taint
    <2>2. Filled(t) = {}
      BY <1>2, <1>4 DEF Filled, Error
    <2> QED BY <1>1, <1>2, <1>4, <2>1, <2>2
  <1>5. CASE ret[t] # Error
    <2>1. ret[t] \in 0 .. MaxRead
      BY <1>2, <1>5, BoundAssumption DEF Error
    <2>2. PICK done : done = Notified(call[t], ret[t])[Len(Sources)]
      OBVIOUS
    <2>3. /\ memTaintMap' = done.mem /\ current' = done.current
          /\ count' = done.count /\ aborted' = done.aborted
      BY <1>3, <1>5, <2>2 DEF readCallback
    <2>4. done \in TaintState
      BY <1>1, <1>2, <2>1, <2>2, NotifiedFacts DEF TypedInv
    <2>5. Taint' = done
      BY <2>3, <2>4 DEF Taint, TaintState
    <2>6. Filled(t) = Read(call[t], ret[t])
      BY <1>2 DEF Filled, Read
    <2> QED BY <1>1, <1>2, <2>1, <2>2, <2>5, <2>6
  <1> QED BY <1>4, <1>5

(* Only the report of a read changes the taint maps.                       *)
LEMMA OtherReported ==
  ASSUME IInv, NEW t \in Thread, SysAfter(t), call[t].num # "read"
  PROVE  UNCHANGED taint
  <1>1. endSyscall(t) /\ pendingSyscalls[t] = call[t]
    BY DEF SysAfter, IInv, CallsTyped
  <1> QED BY <1>1 DEF endSyscall, openCallback, closeCallback

(* The rest of TypeOK holds initially.                                     *)
LEMMA TypedInit == Init => TypedInv
  <1> SUFFICES ASSUME Init PROVE TypedInv
    OBVIOUS
  <1>1. /\ reused = {} /\ phase = [t \in Thread |-> "app"] /\ pendingSyscalls = << >>
        /\ activeFileDescriptors = [m \in Monitor |-> << >>]
        /\ memTaintMap = << >> /\ current = 1 % Marks
    BY DEF Init
  <1>2. DOMAIN pendingSyscalls = {} /\ \A m \in Monitor : DOMAIN activeFileDescriptors[m] = {}
    BY <1>1
  <1>3. current \in 0 .. Marks - 1
    <2>1. Marks \in Nat \ {0} /\ 1 \in Nat
      BY BoundAssumption
    <2> QED BY <1>1, <2>1, Division
  <1>4. memTaintMap \in Mem
    <2>1. DOMAIN memTaintMap = {} /\ memTaintMap = [a \in DOMAIN memTaintMap |-> memTaintMap[a]]
      BY <1>1
    <2> QED BY <2>1, MemFacts
  <1>5. Taint \in TaintState
    <2>1. count = -1 /\ aborted \in BOOLEAN
      BY DEF Init
    <2> QED BY <1>3, <1>4, <2>1 DEF Taint, TaintState
  <1> QED BY <1>1, <1>2, <1>5 DEF TypedInv

(* SysAfter keeps the rest of TypeOK.                                      *)
LEMMA TypedAfter ==
  ASSUME IInv, TypedInv, NEW t \in Thread, SysAfter(t)
  PROVE  TypedInv'
  <1>1. /\ phase[t] = "returned" /\ phase' = [phase EXCEPT ![t] = "app"]
        /\ ret' = [ret EXCEPT ![t] = 0] /\ endSyscall(t)
        /\ UNCHANGED <<files, reused, call, pendingSyscalls>>
    BY DEF SysAfter
  <1>2. /\ phase'[t] = "app"
        /\ \A s \in Thread : s # t => phase'[s] = phase[s] /\ ret'[s] = ret[s]
    BY <1>1 DEF IInv, CallsTyped
  <1>3. /\ \A s \in Thread : phase'[s] # "app" /\ call'[s].num = "read" => call'[s].buf = Buffer[s]
        /\ \A s \in Thread :
             phase'[s] = "returned" /\ call'[s].num = "read" => ret'[s] \in Error .. MaxRead
    BY <1>1, <1>2 DEF TypedInv
  <1>4. Taint' \in TaintState
    <2>1. CASE call[t].num = "read"
      BY <2>1, ReadReported, NotifiedFacts DEF TypedInv
    <2>2. CASE call[t].num # "read"
      BY <2>2, OtherReported DEF TypedInv, Taint, taint
    <2> QED BY <2>1, <2>2
  <1>5. \A m \in Monitor :
          /\ DOMAIN activeFileDescriptors'[m] \subseteq Fd
          /\ \A fd \in DOMAIN activeFileDescriptors'[m] : activeFileDescriptors'[m][fd] \in Path
    <2>1. call[t] \in Args
      BY DEF IInv, CallsTyped
    <2>2. CASE call[t].num = "open" /\ ret[t] # Error
      <3>1. call[t].path \in Path
        BY <2>1, <2>2 DEF Args
      <3>2. ret[t] \in Fd
        BY <1>1, <2>2 DEF IInv, CallsTyped, OneOwner, Fresh
      <3>3. \A m \in Monitor : activeFileDescriptors'[m] =
                                Assign(activeFileDescriptors[m], ret[t], call[t].path)
        BY <1>1, <2>2, EndSyscall
      <3>4. ASSUME NEW m \in Monitor
            PROVE  /\ DOMAIN activeFileDescriptors'[m] = DOMAIN activeFileDescriptors[m] \cup {ret[t]}
                   /\ \A fd \in DOMAIN activeFileDescriptors'[m] :
                        activeFileDescriptors'[m][fd] =
                          IF fd = ret[t] THEN call[t].path ELSE activeFileDescriptors[m][fd]
        <4>1. PICK x, y : x = activeFileDescriptors[m] /\ y = activeFileDescriptors'[m]
          OBVIOUS
        <4>2. y = Assign(x, ret[t], call[t].path)
          BY <3>3, <4>1
        <4>3. /\ DOMAIN y = DOMAIN x \cup {ret[t]}
              /\ \A fd \in DOMAIN y : y[fd] = IF fd = ret[t] THEN call[t].path ELSE x[fd]
          BY <4>2 DEF Assign
        <4> QED BY <4>1, <4>3
      <3> QED BY <3>1, <3>2, <3>4 DEF TypedInv
    <2>3. CASE call[t].num = "close"
      <3>1. \A m \in Monitor : activeFileDescriptors'[m] =
              Restrict(activeFileDescriptors[m],
                       DOMAIN activeFileDescriptors[m] \ {call[t].fd})
        BY <1>1, <2>3, EndSyscall
      <3>2. ASSUME NEW m \in Monitor
            PROVE  /\ DOMAIN activeFileDescriptors'[m] \subseteq DOMAIN activeFileDescriptors[m]
                   /\ \A fd \in DOMAIN activeFileDescriptors'[m] :
                        activeFileDescriptors'[m][fd] = activeFileDescriptors[m][fd]
        BY <3>1 DEF Restrict
      <3> QED BY <3>2 DEF TypedInv
    <2>4. CASE call[t].num \in {"read", "dup"} \/ (call[t].num = "open" /\ ret[t] = Error)
      <3>1. activeFileDescriptors' = activeFileDescriptors
        BY <1>1, <2>4, EndSyscall
      <3> QED BY <3>1 DEF TypedInv
    <2> QED BY <2>1, <2>2, <2>3, <2>4 DEF Args
  <1> QED BY <1>1, <1>3, <1>4, <1>5 DEF TypedInv

(* The kernel's steps keep the rest of TypeOK.                             *)
LEMMA TypedReturns ==
  ASSUME IInv, TypedInv, NEW t \in Thread, NEW v, Returns(t, v), reused' \subseteq Fd,
         call[t].num = "read" => v \in Error .. MaxRead
  PROVE  TypedInv'
  <1>1. /\ phase[t] = "entered" /\ phase' = [phase EXCEPT ![t] = "returned"]
        /\ ret' = [ret EXCEPT ![t] = v]
        /\ UNCHANGED <<call, pendingSyscalls, activeFileDescriptors, taint>>
    BY DEF Returns
  <1>2. /\ phase'[t] = "returned" /\ ret'[t] = v
        /\ \A s \in Thread : s # t => phase'[s] = phase[s] /\ ret'[s] = ret[s]
    BY <1>1 DEF IInv, CallsTyped
  <1>3. Taint' = Taint
    BY <1>1 DEF taint, Taint
  <1> QED BY <1>1, <1>2, <1>3 DEF TypedInv

(* SysBefore keeps the rest of TypeOK.                                     *)
LEMMA TypedBefore ==
  ASSUME IInv, TypedInv, NEW t \in Thread, NEW args \in Requests(t), SysBefore(t, args)
  PROVE  TypedInv'
  <1>1. args \in Args /\ (args.num = "read" => args.buf = Buffer[t])
    <2>1. known \subseteq Fd
      BY DEF IInv, CallsTyped, OneOwner
    <2> QED BY <2>1, RequestArgs
  <1>2. /\ phase' = [phase EXCEPT ![t] = "entered"]
        /\ call' = [call EXCEPT ![t] = args]
        /\ pendingSyscalls' = Assign(pendingSyscalls, t, args)
        /\ UNCHANGED <<reused, ret, activeFileDescriptors, taint>>
    BY DEF SysBefore, beginSyscall
  <1>3. /\ phase'[t] = "entered" /\ call'[t] = args
        /\ \A s \in Thread : s # t => phase'[s] = phase[s] /\ call'[s] = call[s]
    BY <1>2 DEF IInv, CallsTyped
  <1>4. Taint' = Taint
    BY <1>2 DEF taint, Taint
  <1>5. /\ DOMAIN pendingSyscalls' \subseteq Thread
        /\ \A s \in DOMAIN pendingSyscalls' : pendingSyscalls'[s] \in Args
    BY <1>1, <1>2 DEF TypedInv, Assign
  <1>6. /\ \A s \in Thread : phase'[s] # "app" /\ call'[s].num = "read" => call'[s].buf = Buffer[s]
        /\ \A s \in Thread :
             phase'[s] = "returned" /\ call'[s].num = "read" => ret'[s] \in Error .. MaxRead
    BY <1>1, <1>2, <1>3 DEF TypedInv
  <1> QED BY <1>2, <1>4, <1>5, <1>6 DEF TypedInv

(* Every step keeps the rest of TypeOK.                                    *)
LEMMA TypedStep == IInv /\ TypedInv /\ [Next]_vars => TypedInv'
  <1> SUFFICES ASSUME IInv, TypedInv, [Next]_vars PROVE TypedInv'
    OBVIOUS
  <1>1. ASSUME NEW t \in Thread, NEW args \in Requests(t), SysBefore(t, args)
        PROVE  TypedInv'
    BY <1>1, TypedBefore
  <1>2. ASSUME NEW t \in Thread, NEW fd \in Fd, KernelOpen(t, fd) \/ KernelDup(t, fd)
        PROVE  TypedInv'
    <2>1. Returns(t, fd) /\ reused' \subseteq reused \cup {fd} /\ call[t].num # "read"
      BY <1>2 DEF KernelOpen, KernelDup, NewDescriptor
    <2>2. reused' \subseteq Fd
      BY <2>1 DEF TypedInv
    <2> QED BY <2>1, <2>2, TypedReturns
  <1>3. ASSUME NEW t \in Thread, KernelClose(t)
        PROVE  TypedInv'
    <2>1. Returns(t, 0) /\ reused' = reused /\ call[t].num # "read"
      BY <1>3 DEF KernelClose
    <2>2. reused' \subseteq Fd
      BY <2>1 DEF TypedInv
    <2> QED BY <2>1, <2>2, TypedReturns
  <1>4. ASSUME NEW t \in Thread, NEW n \in 0 .. MaxRead, KernelRead(t, n)
        PROVE  TypedInv'
    <2>1. Returns(t, n) /\ reused' \subseteq Fd /\ n \in Error .. MaxRead
      BY <1>4, BoundAssumption DEF KernelRead, TypedInv, Error
    <2> QED BY <2>1, TypedReturns
  <1>5. ASSUME NEW t \in Thread, KernelFails(t)
        PROVE  TypedInv'
    <2>1. Returns(t, Error) /\ reused' \subseteq Fd /\ Error \in Error .. MaxRead
      BY <1>5, BoundAssumption DEF KernelFails, TypedInv, Error
    <2> QED BY <2>1, TypedReturns
  <1>6. ASSUME NEW t \in Thread, SysAfter(t)
        PROVE  TypedInv'
    BY <1>6, TypedAfter
  <1>7. CASE UNCHANGED vars
    BY <1>7 DEF vars, kernel, taint, TypedInv, Taint
  <1> QED BY <1>1, <1>2, <1>3, <1>4, <1>5, <1>6, <1>7 DEF Next

(* The tables, the calls and the marks are what TypeOK says, whatever the  *)
(* sources, the ranges and the number of marks: every mark on a byte is    *)
(* below _max, and only bytes of read buffers have one.                    *)
THEOREM PathTypeCorrect == Spec => []TypeOK
  <1>1. ASSUME IInv, TypedInv PROVE TypeOK
    <2>1. /\ memTaintMap \in Mem /\ current \in 0 .. Marks - 1
          /\ count \in Int /\ aborted \in BOOLEAN
      BY <1>1 DEF TypedInv, TaintState, Taint
    <2>2. /\ DOMAIN memTaintMap \subseteq Address
          /\ \A a \in DOMAIN memTaintMap : \E mark \in 0 .. Marks - 1 : memTaintMap[a] = {mark}
      BY <2>1, MemFacts
    <2> QED BY <1>1, <2>1, <2>2 DEF TypeOK, IInv, CallsTyped, OneOwner, TypedInv
  <1>2. Init => IInv /\ TypedInv
    BY IInvInit, TypedInit
  <1>3. IInv /\ TypedInv /\ [Next]_vars => (IInv /\ TypedInv)'
    BY IInvStep, TypedStep
  <1> QED BY <1>1, <1>2, <1>3, PTL DEF Spec

(* The steps of thread t that end a call are SysAfter(t).                  *)
LEMMA OnlyAfterEnds ==
  ASSUME IInv, [Next]_vars, NEW t \in Thread, phase[t] = "returned", phase'[t] = "app"
  PROVE  SysAfter(t)
  <1>0. phase \in [Thread -> {"app", "entered", "returned"}]
    BY DEF IInv, CallsTyped
  <1>1. ASSUME NEW s \in Thread, NEW args, SysBefore(s, args) PROVE FALSE
    BY <1>0, <1>1 DEF SysBefore
  <1>2. ASSUME NEW s \in Thread, NEW v, Returns(s, v) PROVE FALSE
    BY <1>0, <1>2 DEF Returns
  <1>3. ASSUME NEW s \in Thread, SysAfter(s) PROVE SysAfter(t)
    <2>1. s = t
      BY <1>0, <1>3 DEF SysAfter
    <2> QED BY <1>3, <2>1
  <1>4. CASE UNCHANGED vars
    BY <1>4 DEF vars
  <1>5. CASE Next
    <2>1. PICK s \in Thread :
            \/ \E args \in Requests(s) : SysBefore(s, args)
            \/ \E fd \in Fd : KernelOpen(s, fd) \/ KernelDup(s, fd)
            \/ KernelClose(s)
            \/ \E n \in 0 .. MaxRead : KernelRead(s, n)
            \/ KernelFails(s)
            \/ SysAfter(s)
      BY <1>5 DEF Next
    <2>2. \A fd \in Fd : ~(KernelOpen(s, fd) \/ KernelDup(s, fd))
      BY <1>2 DEF KernelOpen, KernelDup, NewDescriptor
    <2>3. ~KernelClose(s) /\ ~KernelFails(s) /\ \A n \in 0 .. MaxRead : ~KernelRead(s, n)
      BY <1>2 DEF KernelClose, KernelFails, KernelRead
    <2> QED BY <1>1, <1>3, <2>1, <2>2, <2>3
  <1> QED BY <1>4, <1>5

(* A file that the program opened and that is not reused is in the tables  *)
(* under its own name, so the monitors of other sources leave it alone.    *)
LEMMA ObservedAs ==
  ASSUME IInv, NEW t \in Thread, call[t].fd \in Opened \ reused,
         NEW m \in Monitor, OnlyObserver(t, m)
  PROVE  /\ call[t].fd \in DOMAIN activeFileDescriptors[m]
         /\ Observes(Sources[m], activeFileDescriptors[m][call[t].fd])
         /\ \A i \in Monitor \ {m} :
              call[t].fd \in DOMAIN activeFileDescriptors[i] =>
                ~Observes(Sources[i], activeFileDescriptors[i][call[t].fd])
  <1>1. PICK fd : fd = call[t].fd
    OBVIOUS
  <1>2. fd \in DOMAIN files \ reused
    BY <1>1 DEF Opened, IInv, OneOwner
  <1>3. ~CloseUnreported(fd)
    BY <1>2 DEF IInv, ReusedKnown
  <1>4. \A i \in Monitor : fd \in DOMAIN activeFileDescriptors[i] =>
          activeFileDescriptors[i][fd] = files[fd].path
    BY <1>3 DEF IInv, EntryFollowsKernel
  <1>5. fd \in DOMAIN activeFileDescriptors[m]
    BY <1>1 DEF IInv, LostOnlyByReuse
  <1> QED BY <1>1, <1>4, <1>5 DEF OnlyObserver

(* What a step that reports t's call does to the marks.                    *)
MarksStep(t) ==
  IF call[t].num # "read" THEN Kept(Address)
  ELSE /\ Kept(Address \ Filled(t))
       /\ ret[t] > 0 /\ call[t].fd \in Opened \ reused =>
            \A m \in Monitor : OnlyObserver(t, m) => MarkedBy(Sources[m], t)

(* Kept, from SameBut.                                                     *)
LEMMA KeptSame ==
  ASSUME NEW W, SameBut(memTaintMap, memTaintMap', W), NEW M \in SUBSET (Address \ W)
  PROVE  Kept(M)
  BY DEF SameBut, Kept

(* The report of t's call marks what BufferMarked says.                    *)
LEMMA ReportMarks ==
  ASSUME IInv, TypedInv, NEW t \in Thread, SysAfter(t)
  PROVE  MarksStep(t)
  <1>1. CASE call[t].num # "read"
    <2>1. memTaintMap' = memTaintMap
      BY <1>1, OtherReported DEF taint
    <2> QED BY <1>1, <2>1 DEF MarksStep, Kept
  <1>2. CASE call[t].num = "read"
    <2>1. /\ call[t].buf = Buffer[t] /\ Buffer[t] \in Nat /\ ~aborted
          /\ \/ ret[t] = Error /\ Taint' = Taint /\ Filled(t) = {}
             \/ /\ ret[t] \in 0 .. MaxRead /\ Filled(t) = Read(call[t], ret[t])
                /\ Taint' = Notified(call[t], ret[t])[Len(Sources)]
      BY <1>2, ReadReported
    <2>2. Taint \in TaintState
      BY DEF TypedInv
    <2>3. Taint.mem = memTaintMap /\ Taint'.mem = memTaintMap' /\ Taint.count = count
      BY DEF Taint
    <2>4. CASE ret[t] = Error /\ Taint' = Taint /\ Filled(t) = {}
      <3>1. memTaintMap' = memTaintMap /\ ~(ret[t] > 0)
        BY <2>3, <2>4 DEF Error
      <3> QED BY <1>2, <3>1 DEF MarksStep, Kept
    <2>5. CASE /\ ret[t] \in 0 .. MaxRead /\ Filled(t) = Read(call[t], ret[t])
               /\ Taint' = Notified(call[t], ret[t])[Len(Sources)]
      <3>1. SameBut(memTaintMap, memTaintMap', Read(call[t], ret[t]))
        BY <2>1, <2>2, <2>3, <2>5, NotifiedFacts
      <3>2. Kept(Address \ Filled(t))
        BY <2>5, <3>1, KeptSame
      <3>3. ASSUME ret[t] > 0, call[t].fd \in Opened \ reused,
                   NEW m \in Monitor, OnlyObserver(t, m)
            PROVE  MarkedBy(Sources[m], t)
        <4>1. /\ call[t].fd \in DOMAIN activeFileDescriptors[m]
              /\ Observes(Sources[m], activeFileDescriptors[m][call[t].fd])
              /\ \A i \in Monitor \ {m} :
                   call[t].fd \in DOMAIN activeFileDescriptors[i] =>
                     ~Observes(Sources[i], activeFileDescriptors[i][call[t].fd])
          BY <3>3, ObservedAs
        <4>2. Taint' = notifyForRead(Taint, Sources[m], activeFileDescriptors[m], call[t], ret[t])
          BY <2>1, <2>2, <2>5, <4>1, NotifiedFacts
        <4>3. Sources[m].granularity \in Granularity
          BY GranularityType
        <4>4. MarkedAs(Sources[m], Taint, Taint', call[t], ret[t])
          <5>1. ~Taint.aborted
            BY <2>1 DEF Taint
          <5>2. PICK res : res = Taint'
            OBVIOUS
          <5>3. MarkedAs(Sources[m], Taint, res, call[t], ret[t])
            BY <2>1, <2>2, <2>5, <3>3, <4>1, <4>2, <4>3, <5>1, <5>2, NotifyFacts
          <5> QED BY <5>2, <5>3
        <4>5. CASE Sources[m].granularity = "PerByte"
          BY <2>3, <2>5, <4>4, <4>5 DEF MarkedAs, MarkedBy
        <4>6. CASE Sources[m].granularity = "PerRead"
          BY <2>3, <2>5, <4>4, <4>6 DEF MarkedAs, MarkedBy
        <4>7. CASE Sources[m].granularity = "PerOffset"
          <5> DEFINE In == {a \in Filled(t) : InRange(count + 1 + a - Buffer[t])}
                     Out == {a \in Filled(t) : ~InRange(count + 1 + a - Buffer[t])}
          <5>1. SameBut(memTaintMap, memTaintMap', In)
            BY <2>1, <2>3, <2>5, <4>4, <4>7 DEF MarkedAs
          <5>2. Out \in SUBSET (Address \ In)
            <6>1. Filled(t) \subseteq Address
              BY <2>1, <2>5, ReadBytes
            <6> QED BY <6>1
          <5> HIDE DEF In
          <5>3. Kept(Out)
            BY <5>1, <5>2, KeptSame
          <5> QED BY <4>7, <5>3 DEF MarkedBy
        <4> QED BY <4>3, <4>5, <4>6, <4>7 DEF Granularity
      <3> QED BY <1>2, <3>2, <3>3 DEF MarksStep
    <2> QED BY <2>1, <2>4, <2>5
  <1> QED BY <1>1, <1>2

(* The report of a read marks bytes of the reading thread's buffer only,   *)
(* and those the way the granularity of the file's source says, for any    *)
(* sources, ranges and number of marks and any interleaving of the calls.  *)
THEOREM ReadsMarkTheirBuffer == Spec => BufferMarked
  <1>1. ASSUME IInv, TypedInv, [Next]_vars
        PROVE  [\A t \in Thread :
                  phase[t] = "returned" /\ phase'[t] = "app" => MarksStep(t)]_vars
    BY <1>1, OnlyAfterEnds, ReportMarks
  <1>2. Init => IInv /\ TypedInv
    BY IInvInit, TypedInit
  <1>3. IInv /\ TypedInv /\ [Next]_vars => (IInv /\ TypedInv)'
    BY IInvStep, TypedStep
  <1> QED BY <1>1, <1>2, <1>3, PTL DEF Spec, BufferMarked, MarksStep
=============================================================================
