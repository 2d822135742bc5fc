# Dytan: specifications, model checking and proofs

Dytan is a Pin tool for dynamic taint analysis. It attaches sets of taint marks
to registers and bytes of a running program, creates marks where data enters
(files, sockets, function arguments), propagates them at every instruction and,
on request, along control dependences, and dumps at the end of `main` which
bytes ever carried which mark. This directory holds TLA+ modules for the parts
that carry that logic, TLC configurations that check them on small instances,
and TLAPS proofs for instances of any size.

The build modelled is the one the makefile gives: Linux, 64 bit, `TRACE`
defined, `IMPLICIT` and `TARGET_WINDOWS` not. The network source does nothing
there that could be observed, so `Sources` has the word size in its
configuration and covers the 32-bit build as well.

## Inventory

| Part | State | Operations | Hard behaviour | What makes it correct |
|---|---|---|---|---|
| Instruction handlers (`instrument_functions.c`, dispatch table in `dytan.cpp`) | none of their own | one `Instrument_*` per instruction class: a list of analysis calls | order of loads and stores, operands that load nothing, early `return`, `abort` | the calls amount to the flow the handler's comment announces; a call stores only what its instruction loaded |
| Taint maps and analysis routines (`dytan.cpp`) | `regTaintMap`, `memTaintMap`, `controlTaintMap`, `tagMemoryMap`, shared scratch bitsets `dest`, `src`, `eax` ... | `TaintFor*`, `SetTaintFor*`, `ClearTaintFor*`, `PushControl`, `PopControl`, `SetNewTaintForMemory` | globals used by all threads without a lock; sub-registers; control taint in every store | no mark is invented; every store takes the control taint in; bits stay inside the bitset |
| Control flow (`Controlflow`, `PushControl`, `PopControl`) | `controlTaintMap`, keyed by branch address | push at a branch on tainted flags, pop at its postdominator | several branches with one postdominator, postdominators without code, recursion | a branch's marks are active exactly from the branch to its postdominator |
| Tag lists and dump (`SetTaintForMemory`, `dump_taints`) | a linked list per mark with a spare node at the end | append, append a deletion, unlink pairs, print | uninitialised spare node, two unlinks in one step, 32-bit distances | the list follows what `SetTaintForMemory` stored; the dump prints what the list says |
| System call monitor (`syscall_monitor.H`) | `pendingSyscalls` per thread, observers per call, a lock | `beginSyscall`, `endSyscall` | the kernel acts between the two; calls of other threads in between | observers see the arguments of the call that ends |
| File source (`monitor_path.cpp`, `taint_source_path.cpp`) | `activeFileDescriptors`, mark generator, `static count` | open, close and read callbacks; PerByte, PerRead, PerOffset | descriptor numbers reused between a close and its callback; ranges split over reads | the table agrees with the kernel's; a read marks its own buffer as configured |
| Mark generator (`taint_generator.h`), bitset (`bitset.cpp`) | `_current`; words of bits | `nextTaintMark`; set, test, union | wrap-around, `int` overflow, bounds assertion | marks below the number of marks |
| System call handlers (`syscall_functions.cpp`) | `openFiles` (written, never read) | erase the marks of what the kernel wrote | failed calls, NULL pointers, results used as lengths or addresses, sizes of objects | where a handler says that it clears taint, what the kernel wrote keeps no older mark; nothing outside the buffer loses one |
| Network source (`monitor_network.cpp`, `taint_source_network.cpp`) | `socketToAddress`, `addressObservers` | connect, recvfrom, recv, read, close callbacks | a comparison that is no strict order, `find` not compared with `end()`, use after `cleanup` | reads from a listed host are marked |
| Replacement functions, wrappers of `main` (`replace_functions.cpp`, `taint_func_args.cpp`) | `tagMap`; the generator all sources share | tag, display; entry and end of `main` | marks drawn by several sources in any order; the sources are deleted while the program still runs | a mark tells where a byte is from, until marks are reused |
| Graphs (`RoutineGraph.H`, `BasicBlock.H`) | blocks, edges, `PostDominator`, `postDominated` | flag branches and targets, build blocks, add a predecessor | order of the heap, blocks that move in the tree, keys left by `operator[]`, loops | the graph has the edges of the code; the search ends; the block found postdominates |
| Configuration (`config_parser.cpp`), start-up (`main`) | configuration records | parsing, registration | | |

`PROJECT.json` lists the parts with their modules, and every hazard with the
line where it bites and the properties that watch it.

Interaction: Pin calls `Dataflow` and `Controlflow` when it meets code; they ask
the handlers which analysis calls to insert. At run time each application
thread runs the inserted calls before each instruction, on the shared maps. At
system calls Pin calls `SysBefore` and `SysAfter`; the monitor's observers (the
sources and the handlers) change `memTaintMap`.

## Modules

| Module | Models |
|---|---|
| `AnalysisCalls` | operands, instructions and analysis calls as records; an instruction also carries what Pin knows of it (bytes read and written, whether it is REP, branches to push and pop) |
| `InstrumentFunctions` | every handler as an operator from an instruction to its list of calls (`return` and `abort` cut the list), `Dataflow` and the dispatch table |
| `TaintMaps` | `std::map` as a partial function, and the abstract tag list of one mark: a byte is absent, listed or deleted |
| `TaintEngine` | the maps, one action per analysis routine, sources and kernel writes; `todo[t]` is the list of calls thread `t` still has to run for its instruction |
| `TaintFlow` | abstract specification: the flow the comments announce, applied in one step |
| `InstructionFlow` | `TaintEngine` one instruction at a time, mapped to `TaintFlow`; `Conforms` says of which instructions this is expected |
| `ControlFlow` | push and pop over an arbitrary control-flow graph with calls; `active` is a history variable that records inside which branches each activation is |
| `TagMemoryMap` | the linked list of one mark node by node, the changes of marks that leave it alone (`ChangeMarks`), and the dump loop step by step; `written` and `unrecorded` are history variables |
| `PathSource` | monitor, descriptor tables and read observers; a call is entry, kernel and exit, each one step |
| `PostDominance` | the postdominator tree: one step for each predecessor added and each block taken from the queue; maps keyed by starting address, with the NULL entries that `operator[]` leaves |
| `RoutineGraph` | extends `PostDominance` with the graph it works on: `mapper` as `branches` and `targets`, one step for each instruction `BlockBuilder` passes; it stops where `BranchIns` asks for an instruction behind the last one (`NoNext`) |
| `SyscallHandlers` | every handler that erases marks, as an operator from arguments and result to the addresses erased; `ClearTaint` lists the calls whose handler announces it |
| `NetworkSource` | the network monitor's map and callbacks, over `SyscallHandlers`' address arithmetic |
| `Sources` | composes the two with the tagging functions and the wrappers of `main`, on one `memTaintMap` and one generator; `origin` (which source gave a byte its marks), `replaced` (whether the kernel has replaced the data since, and with what kind of handler) and `last` (the latest call) are history variables |
| `TaintEngineProofs` (with `InstrumentFunctions`), `InstructionFlowProofs`, `ControlFlowProofs`, `TagMemoryMapProofs`, `PathSourceProofs`, `SourcesProofs`, `RoutineGraphProofs`, `PostDominanceProofs` | theorems about the module each is named after |
| `MC*` | instances for TLC |

Correspondence. Variables have the names of the globals they stand for. A
bitset is the set of its bits; `bitset_set_bit`'s assertion is kept (an abort
sets `aborted`, after which nothing happens). One analysis routine is one step:
Pin's calls hold no lock, and a race inside `std::map` itself has no outcome
that could be enumerated, so finer interleavings are left out and named as a
hazard. In `PathSource` the monitor's lock makes `SysBefore` and `SysAfter` one
step each. Log output, timing and text formatting are left out. Pin, the kernel
and the application are environment: their actions allow what the code in
`src/` relies on. In `PathSource` the application is well behaved: it uses a
descriptor from the return of the call that made it until it closes it, does not
close one in use, and closing an open descriptor succeeds; a failed call returns
-1, the value the callbacks test for.

In `Sources` there is one thread and a system call is one step. An address is a
number below `Modulus`, so that a result of -1 used as a length or an address
wraps as it does in C. The pages near 0 and the last ones hold no data of the
program (`MemoryAssumption`). Using an object that `cleanup` has deleted is a
choice: it works as before, or the outcome is "undefined" and the model stops.
`recvfrom` may be given NULL for the sender's address; its callback dereferences
it (`monitor_network.cpp:211-214`), and the model stops with the outcome "null".

The kernel also writes where no handler clears: `FillSilently` stands for calls
with an empty handler (`ioctl`, `poll`, a `read` of a file no source observes) or
none, and `Munmap` for pages that go away. `Mmap` replaces whole pages
(`PageSize`), while its handler loops over the length asked for. `fcntl` can
have the kernel write at its third argument (`F_GETLK`), which its handler,
`fstat`'s, knows nothing of. Which pages are mapped is not kept track of: a call
given others fails, and failing is among its outcomes.

In `RoutineGraph` blocks are named by the address they are made for; `heap` has
the address `malloc` gave each, which orders the sets of predecessors. The
layouts are constants: ascending addresses, as a fresh heap gives, and
descending ones, as a free list may. `ControlFlow` takes postdominators as
constants, and its runs are about taint that ends at the block
recorded; `PostDominatorsKept` says how that block relates to the true one.

`TaintEngine` keeps tag lists abstract (`TagUpdate` of `TaintMaps`);
`TagMemoryMap` shows that the linked list implements that abstraction
(`ImplementsTagUpdate`). Lists and marks are separate state: in both modules only
`SetTaintForMemory` changes a list, while `ClearTaintForMemory`, the handlers,
`DYTAN_tag` and the sources change marks alone. `carried` is the
marks, `memlist` the list, and `ListingDelimited` says how far they agree.
`TaintEngine` models the `int` counter of the generator
with its overflow; `PathSource` keeps only the counter modulo the number of
marks, which is all a mark depends on before the overflow.

## Runs

| Run | Shows |
|---|---|
| `engine` | two threads, eight kinds of instruction, sources and kernel writes: types, no invented mark, control taint in every store |
| `handlers` | every form of instruction that behaves as its comment says, one at a time, from states in which every location has a mark of its own or none and the scratch bitsets hold residue: refinement of `TaintFlow` |
| `control` | a loop around two nested conditionals with one join, a branch whose arms return, and a routine it calls: marks stay while active; what may stay longer |
| `tags` | four bytes (two with equal low halves) stored singly and in pairs, and two whose marks change in other ways in between; then the dump with every content of the spare node |
| `routine` | all routines of four instructions from a menu, six-instruction ones that branch at every step, three shapes of loops and early exits, one that falls out of its end, and ones that end in a call or a jump, into the routine or out of it, on two heap layouts: the edges are those of the code up to three departures (`EdgesExact`, see below), every walk ends at the return node (`WalksEnd`), every true postdominator stays among a block's ancestors (`PostDominatorsKept`), and every step leaves less to do (`SearchProgresses`) |
| `sources` | calls that write memory with and without a handler that clears (also failing, and with NULL), pages mapped and unmapped, sockets in three configurations, tags, entry and end of `main`: marks outlive replaced data only where no handler claims to clear them or behind `mmap`'s length (`StaleOnlyUncleared`), nothing outside a buffer is erased, marks tell origins until they are reused, a name is displayed with its one mark, and `end()` is dereferenced only where "*" is configured, deleted objects only after `main` (`UndefinedOnlyForAll`; the NULL of `recvfrom` is apart from both) |
| `paths` | two threads, two descriptors, a file of each granularity, a range that can be split over two reads |
| `race` | violated: two threads run `mov edi,[10]; mov [10],edi`, and one stores what the other loaded into the shared bitset |
| `recursion` | violated: a recursive activation pops the entry of the outer one |
| `fd_reuse` | violated: a close reported late removes the descriptor of a file opened meanwhile under the same number |
| `postdominator` | violated: on `if (x) goto out; if (y) goto out; if (z) f(); return 1; out: return 0` a block keeps a parent that some of its paths avoid |
| `network` | violated: with one host listed, what is received from it is not marked |

Each violated run states what a comment or a message of the code says, and
`PROJECT.json` quotes it. The passing runs check what is true in spite of it:
`StaleOnlyIfShared` says exactly which entries may stay, `LostOnlyByReuse` which
descriptors may be lost, `ListingDelimited` how far a tag list can be trusted,
`StaleOnlyUncleared` where old marks may stay, `DumpIsAccurate` which deleted byte may be printed,
`PostDominatorsKept` that a wrong postdominator is never past the right one (so
control taint ends early there, not late), and `handlers` covers all forms but
those of the deviations below. A mutant of the model breaks every property of
every passing run; the mutants stand next to the definition they change.

Other deviations from comments and documents, modelled as the code has them:

* Handlers, left out of the forms that `handlers` compares: IMUL with a register
  source loads operand 0 twice and never the source; SETcc to memory stores
  `base`, which it did not load; POPFD loads the stack and stores nothing;
  CMPXCHG with memory tests the condition with the comparison inverted; SHLD and
  SHRD read the count from operand 0; MUL and DIV of 32 bits write EFLAGS where
  all other handlers write RFLAGS; an unsupported instruction is logged and does
  not abort.
* `PopControl` returns at the first branch without an entry and leaves those of
  its later arguments behind (`MayStay`); the dump prints the head of a list
  although it is deleted (`DumpIsAccurate`).
* The tag lists record what `SetTaintForMemory` stores and nothing else. A clear,
  a handler's erasure, `DYTAN_tag` and the marks a source hands out
  leave them alone, so the dump names bytes that have lost the mark and misses
  bytes that carry it. A byte once listed and deleted is not listed again.
* `BlockBuilder` never looks at the first instruction as a branch, gives a jump
  to the start of its own block a fall-through edge, and makes no edge for a last
  instruction that falls out of the routine, also when a jump made a block for
  the address behind it. `EdgesExact` compares the graph with the code as changed
  by these three departures (`Assumed`): it says that there is no other, not that
  they are right. `BranchIns` takes the address of the next instruction for
  granted at a call and at a jump to the start of its own block; where that is
  the last instruction of the routine, what Pin answers is not known, and the
  properties say nothing of what follows. A former
  parent keeps its child in `immediatelyPostDominated`. A block that only leads
  to an indirect branch has no postdominator.
* `rt_sigaction`'s handler erases as many bytes as the C library's struct has,
  more than the kernel writes; `fcntl` is given the handler of `fstat`, which is
  harmless because commands are not addresses of data. The handlers erase also
  when the call failed. `ioctl`, `poll`, `read` and `munmap` have empty handlers
  although memory changes, and `mmap` clears the length asked for, not the pages:
  marks of earlier data stay there until a call with a handler, a source or a
  store replaces them.
* In the 32-bit build `recvfrom` with NULL for the sender's address, as is usual
  on a connected socket, dereferences that NULL in every configuration.
* With "*" configured for the network, the first receive on any socket
  dereferences `end()`; the observer registered for "*" is never called.
  `recvmsg` aborts the tool in the 32-bit build. Together with `network` this
  means that no configuration marks data from a socket: the two read callbacks
  of `taint_source_network.cpp` are modelled and never reached.
* A PerOffset source without ranges, because `conf_offset.dat` is missing or
  empty, takes byte 0 for one: `datFile` is zero (`InRange`; the proof of
  `BufferMarked` needs it).
* `main_wrapper_func` marks from `&argv[i]`, the place of the pointer, as many
  bytes as the string has, not the string.

Bounds and why they suffice:

* `engine`: `MaxEvents = 7` instructions or system calls in all, enough for
  source, load, branch, store, clear, join and a late store by either thread;
  `INT_MAX = 2` and three marks let the counter wrap and overflow. Symmetry in
  the threads is sound: no property names one.
* `handlers`: one instruction per behaviour, since the property is about one
  instruction from any state; two bytes read, one elsewhere.
* `control`: two marks, two activations. Recursion is a constant: off in the
  passing run and on in `recursion`. The postdominators of the instance are
  checked against their definition by an assumption (`IpdomIsImmediate`).
* `tags`: `MaxLength = 8` nodes, two for each byte, the most `OneEntryPerByte`
  allows. Byte 1, alone and with byte 2, has its marks changed by others: so it
  happens to a byte with and without a twin of equal low half, and to part of a
  range that is stored as a whole.
* `paths`: two bytes per read, two marks, `MaxCount = 2`: bytes 0 to 2 of the
  counted input, so that a read ends and the next starts inside the range. One
  thread opens, closes and reads, the other opens and duplicates, so opens and
  duplications of one thread fall anywhere in the calls of the other. Reads of
  two threads at once are left out: their callbacks run one after the other
  under the monitor's lock. A view forgets the arguments of calls that are
  over; `SysBefore` overwrites them before anything reads them.

* `routine`: routines of one to eight instructions; blocks have up to four
  predecessors, and the search moves blocks several times. Deadlock is checked:
  the builder stops only at `NoNext` and the search only at its end (`Finished`).
* `sources`: sixteen addresses, of which five hold data; two buffers, which overlap
  for the larger objects; lengths 0 to 2 with pages of two bytes, so that a page
  is mapped in part and in full; four marks, while two names and
  three arguments draw five, so that the counter wraps (`MaxMarks = 4` bounds what
  is drawn otherwise); one socket, which is enough because the maps are keyed by it and no
  property relates two; two hosts that the comparison orders both ways. Symmetry
  in the names is sound: no property names one. A view forgets `last`, which every
  step overwrites and only `ErasesOnlyBuffer` looks at, within the step.

`CHECK_DEADLOCK FALSE` in the other runs: a run may stop because the program aborted, its dump is
printed, the program ended, or a bound was reached.

Fairness: only `TagMemoryMap` assumes any, `WF_vars(DumpStep)`. The dump is one
sequential loop without waiting, so it is always able to take its next step and
the operating system runs it. That the search of `RoutineGraph` ends is stated
without fairness, as a measure that every step decreases. Nothing else in the models must happen, and none
of the other properties needs fairness.

## Proofs

`TaintEngineProofs` proves of the handlers, for every instruction with any operands:

* `HandlersLoadFirst`: a handler's calls store only scratch bitsets that an
  earlier call of the same list loaded or cleared; `SETcc` to memory is the one
  exception, and for it `base` is the only one missing. The argument gives each
  building block (load an operand, store an operand) what it needs and what it
  provides (`Feed`), and composes these along the concatenations of each handler.
* `DataflowCalls`: what `Dataflow` inserts is a well-formed list of calls.

and of the engine, for any threads, registers, addresses, instructions
and number of marks:

* `TypeCorrect`: `Spec => []TypeOK`. `TypeOK` is inductive given `DataflowCalls`.
* `NoMarkInvented`: `Spec => []NoMarkFromNowhere`. Inductive together with
  `TypeOK`: loads copy marks to scratch bitsets, stores copy unions of these and
  of the control map, and only sources add to the marks handed out.
* `ControlAbsorbed`: `Spec => StoresAbsorbControl`, action by action.
* `OneThreadStoresOwnLoads`: with a single thread and no `SETcc` to memory,
  `Spec => []StoresOwnLoads`. Not inductive as it stands: the strengthening
  `Obligations` says that the whole rest of the list is fed by what the thread
  has loaded, which `HandlersLoadFirst` gives when an instruction starts and each
  call preserves. Run `race` shows that the assumption of one thread is needed;
  `HandlersLoadFirst` says why the other one is.

`InstructionFlowProofs` proves that the handlers do what their comments say, for
any registers, addresses, branches, marks and scratch residue:

* `HandlerFlow`: from any state, the calls a conforming handler inserts move taint
  exactly as `TaintFlow` announces.
* `HandlersImplementTaintFlow`: `FlowSpec => ImplementsTaintFlow`, with one thread
  and conforming instructions. The run `handlers` takes `FlowNext` one instruction far
  from chosen states; the theorem is about any well-typed state and any number of
  instructions.

The argument:

  1. A call's effect is a relation between configurations, the marks of every
     location, branch and scratch bitset (`Effect`); a list of calls composes them
     (`Runs`, a trace, so that no recursion is needed).
  2. Statement by statement: a load adds a scratch bitset that holds its source's
     marks from before the instruction, a store adds one flow to those made so far
     (`Stored`), and a `return` ends the handler (`Yields`): conforming handlers
     return where Pin does not know the memory accessed, and then nothing has been
     stored. The later loads of a handler must not overwrite the bitsets of the
     earlier ones, and no store may come before a load of what it writes: this is
     where XCHG and XADD could fail.
  3. Handlers have few forms (so many loads, then so many stores: `Form11` to
     `Form3Wipe`), and every handler is an instance of one, for every kind of
     operand it accepts; for the others it aborts, or `Conforms` excludes them.
  4. Each analysis routine has the effect of its call on the maps (`CallEffect`).
     Here a register or byte without an entry and one with an empty entry are the
     same, which is why a clear leaves the control taint or nothing.
  5. The inductive invariant `FlowInv`: what a thread has done of the list and what
     it has still to do make up the calls of its instruction, and the first part
     leads from the maps at the start (`before`) to those of now. Starting an
     instruction maps to `Begin`, a call to a stutter, retiring to `Complete`.

  One thread is assumed because two share the scratch bitsets (run `race`), and
  `Conforms` because the handlers listed under the deviations above do something
  else. That the instructions of the run conform is an assumption TLC evaluates
  (`FormsConform`); a mutant that stores XCHG's first operand early breaks the
  refinement there.

`ControlFlowProofs` proves, for any control-flow graphs, branches, recorded
postdominators and depth of calls:

* `ControlTypeCorrect`: `Spec => []TypeOK`, recursion included.
* `MarksStayActive` and `MarksEndAtPostDominator`: with `Recursion = FALSE`,
  `Spec => []ActiveMarksKept` and `Spec => []StaleOnlyIfShared`. Neither is
  inductive. That a pop takes no mark another activation still needs holds
  because no two activations are of one routine (`OneActivation`) and an
  activation, with all branches it is inside, stays in its routine (`Confined`);
  that a branch is popped before its routine returns holds because execution
  stays among the blocks between the branch and its postdominator until it meets
  the latter (`NotPassed`, over a set `Between` whose existence is the definition
  of `PostDominated`). Assumed: successors and postdominators stay inside a
  routine (`RoutineAssumption`: one graph is built per routine). Run `recursion`
  shows that the hypothesis on recursion is needed. That a recorded postdominator
  may be avoidable, the third reason of `MayStay`, is what run `postdominator`
  shows to happen.

`TagMemoryMapProofs` proves, for any addresses, any finite ranges written in any
order, and any content of the spare node:

* `TagsTypeCorrect`, `ListedOnce`, `ListedIsDelimited`: `TypeOK`,
  `OneEntryPerByte`, `ListingDelimited`. While the program runs the list is
  well-formed (`RunInv`): at most one entry and one deletion for a byte, the
  deletion after its entry. What the list says of a byte is what
  `SetTaintForMemory` has stored to it (`Recorded`); the marks follow both that
  and the changes the list does not see.
* `DumpAccurate`: `Spec => []DumpIsAccurate`. The dump unlinks nodes as it goes,
  so its invariant `DumpInv` follows what is left through an embedding `kept` in
  the list as it was at exit: a deletion stays at least as long as its entry, the
  first node apart; a listed byte and the spare node stay; and no deletion is
  left for a node the loop has passed.
* `TagListImplementsMap`: `Spec => ImplementsTagUpdate`, every step of the list
  is a step of the map of listed and deleted bytes that `TaintEngine` uses, and
  changes of marks by others are stutters of it.

`PathSourceProofs` proves, for any threads, descriptors, paths and sources:

* `EntriesFollowKernel`, `OnlyReuseLoses`: `Spec => []EntryFollowsKernel` and
  `Spec => []LostOnlyByReuse`. The strengthening says that an open descriptor has
  one owner (`OneOwner`: the program, the thread that is about to learn of it, or
  the one that is closing it), that a new one is unchanged until it is reported
  (`FreshIsNew`), and that only descriptors in `reused` are open while a close of
  their number waits for its report (`ReusedKnown`).
* `PathTypeCorrect`, `ReadsMarkTheirBuffer`: `Spec => []TypeOK` and
  `Spec => BufferMarked`, also for any ranges and number of marks. Loop and chain
  of observers are recursive functions; `Iterates` shows, by induction on a set of
  numbers (`Upward`, from the least element of a set), that such a function exists
  and takes every step, and `OffsetLoopFacts` and `NotifiedFacts` follow it byte by
  byte and source by source. `TypedInv` adds that a read in progress is into the
  thread's own buffer. A file with one source is left alone by the other sources
  because the tables name it correctly, which is the invariant of the theorems
  before.

`SourcesProofs` proves, for any configuration, memory layout, sizes of objects
and number of marks:

* `SourcesTypeCorrect`, `HandlersClear`, `HandlersEraseOnlyBuffer`: `TypeOK`,
  `StaleOnlyUncleared`, `ErasesOnlyBuffer`. Each handler's loop is shown to cover
  what the kernel wrote in the buffer of the call, whatever marks calls without a
  handler left there, and to leave the program's other data alone when its
  bounds are NULL, -1, or a command of `fcntl`; the arithmetic wraps.
* `NoSocketObserved`: no socket ever enters the monitor's map while the
  behaviour is defined, so no configuration marks what is received; with it
  `UndefinedBehaviour` (`UndefinedOnlyForAll`), which is about `end()` and deleted
  objects: nothing keeps `recvfrom`'s NULL from being dereferenced.
* `OriginsTold` (`MarksTellOrigins`) and `NamesDisplayed` (`DisplayShowsName`).
  The first needs `FirstRound`: until the counter wraps every mark in use was
  drawn, has one origin, and belongs to one name if to any. The second needs
  `TaggedBytes`, which holds after the wrap too.

  Assumed (`MemoryAssumption`): no data of the program within an object's size of
  either end of the address space, arguments of `main` in its memory, and objects
  of the C library at least as large as what the kernel writes.

`RoutineGraphProofs` proves, for any list of instructions, any order of the heap
and any set of nodes, as far as the builder gets (`NoNext`):

* `RoutineTypeCorrect`: `Spec => []TypeOK`.
* `EdgesAreThoseOfTheCode`: `Spec => []EdgesExact`, the departures of `Assumed`
  included, of which the proof needs all three. The invariant `EdgeInv` says
  which edges exist while instructions are still to come (`Led`): those of a
  branch once it is passed, the one into a target once the target is. It rests on
  every target being mapped to the block named after it, and on blocks beginning
  at the start, at targets and after branches only (`BlockHead`).
* `WalksReachReturn`: `Spec => []WalksEnd`. Parents change while the tree grows,
  so the invariant `TreeInv` gives every block a rank, the order of first
  placement: a parent, and a block in whose `postDominated` another is, comes
  earlier, and a block moves only to one in whose `postDominated` it is. Walks
  therefore descend and end at the root.
* `TreeIsFinished`: `Spec => SearchProgresses`.

  Assumed (`RoutineAssumption`): a routine has an instruction, and code lies above
  the addresses 1 to 5, which `mapper` uses as flags; `NodeAssumption`: finitely
  many nodes, and addresses of the heap that differ. How a routine ends, and
  where its jumps lead, is not restricted.

`PostDominanceProofs` builds on the invariants of `RoutineGraphProofs` and proves,
under the same assumptions:

* `PostDominatorsStay`: `Spec => []PostDominatorsKept`. The argument, in the order
  of the module:
  1. The ancestors of a block are the least set closed under parents
     (`Ancestors`), which `addPredecessorAsPostDominated` walks; it stops at the
     nearest block that the old and the new ancestors share (`CommonIsNearest`).
  2. `Returning(g, b)` is a least fixpoint, reached after at most as many steps as
     there are nodes (`ReturningReaches`). So a set of blocks that contains the
     return node, and with a block every predecessor but `b`, holds all blocks
     with a path to it around `b`; no induction over paths is needed.
  3. Blocks are runs of consecutive instructions (`Grouped`), hence a block leads
     to at most two others (`TwoSuccessors`): only its last instruction branches.
  4. A block is therefore met at most twice, first when it is placed and then
     once more when it may move (`SearchInv`, `MetOnce`).
  5. So a block met once is in the `postDominated` maps of exactly its proper
     ancestors, wherever these moved meanwhile (`MapsExact`), and the second
     meeting finds the nearest common ancestor. For a third meeting this need not
     hold: the move erases keys up to the root, and `operator[]` leaves NULL
     entries behind.
  6. The inductive invariant `KeepInv` adds that a block has a path to the return
     node around everything that is not its ancestor (`PathsAround`, from which
     the property follows), and that a path around an ancestor is one for all
     blocks below it (`PathsPassDown`).

  The theorem thus rests on a property of the graph that nothing in `BasicBlock.H`
  states. On graphs with three successors of one block, simulations of the same
  search drop postdominators; no run shows it, because `BlockBuilder` makes no such
  graph. Resolving indirect jumps to their targets would.

Other assumptions used are the named `ASSUME`s of the modules (types of the
constants).

Only model-checked: the liveness property `DumpEnds`; fairness is outside the
prover's reach.

## Not modelled

* The deprecated dominator tree of `BasicBlock.H`, which nothing builds.
* The return-value source: it is constructed and given no function.
* XML parsing and option handling: input and output.
* `ConstantTaintGenerator` (one mark for everything).
* The default observer of the monitor, an uninitialised pointer in the 64-bit
  build: what a call through it does cannot be enumerated.
* Words and masks of the bitset; it stands for the set of its bits.
* What Pin answers for the instruction behind the last one of a routine
  (`NoNext`), and what a dereferenced NULL leads to.
* The old `mmap` of the 32-bit build, which has its arguments in memory.
* The deletion of the file source at the end of `main` (that of the network
  source and the generator is in `Sources`), and closes that fail.
* Torn `std::map` operations of two threads.
* The sample tools, backup files and `penumbra.cpp`, which are not linked into
  Dytan.

## Plan

1. Done: handlers, engine, control flow, tag lists, file source, graphs and
   postdominators, system call handlers, network source, tagging functions and
   wrappers of `main`; the theorems above.
2. Next models: `Bitset` (words against sets), shutdown of the file source.
