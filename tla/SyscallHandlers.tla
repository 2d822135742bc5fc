-------------------------- MODULE SyscallHandlers --------------------------
(***************************************************************************)
(* The handlers of syscall_functions.cpp that "clear taint": the addresses *)
(* each erases from memTaintMap, as a function of the arguments and the    *)
(* result of the call.  None of them looks at whether the call succeeded.  *)
(* The other handlers have an empty body, or write openFiles, which is     *)
(* never read.                                                             *)
(*                                                                         *)
(* ADDRINT has Modulus values, an error result is a small negative number, *)
(* that is one of the last of them.                                        *)
(***************************************************************************)
EXTENDS Integers

CONSTANTS
  Modulus,     \* 2^64
  sizeof       \* object -> bytes the compiler gives it

Objects == {"stat64", "timeval", "timezone", "sigaction", "sigset_t", "time_t",
            "utsname"}

ASSUME SizeAssumption == Modulus \in Nat \ {0} /\ sizeof \in [Objects -> Nat]

ADDRINT == 0 .. Modulus - 1
NULL == 0

(* for (addr = start; addr < end; addr++), end computed with wrap-around.  *)
Loop(start, size) ==
  {addr \in ADDRINT : start <= addr /\ addr < (start + size) % Modulus}

Handle_FSTAT64(args) == Loop(args.arg1, sizeof["stat64"])
Handle_LSTAT64(args) == Loop(args.arg1, sizeof["stat64"])
Handle_STAT64(args)  == Loop(args.arg1, sizeof["stat64"])
Handle_GETDENTS64(args) == Loop(args.arg1, args.arg2)

Handle_GETTIMEOFDAY(args) ==
  Loop(args.arg0, sizeof["timeval"]) \cup Loop(args.arg1, sizeof["timezone"])

(* Mutant: the length is rounded up to whole words of four bytes.          *)
Handle_MMAP_Rounded(args) == Loop(args.ret, 4 * ((args.arg1 + 3) \div 4))

Handle_MMAP(args) == Loop(args.ret, args.arg1)

(* Mutant: the last byte is taken for a null character and left out.       *)
Handle_READLINK_NoLast(args) == Loop(args.arg1, args.ret - 1)

Handle_READLINK(args) == Loop(args.arg1, args.ret)

Handle_RT_SIGACTION(args) ==
  IF args.arg2 = NULL THEN {} ELSE Loop(args.arg2, sizeof["sigaction"])

Handle_RT_SIGPROCMASK(args) ==
  IF args.arg2 = NULL THEN {} ELSE Loop(args.arg2, sizeof["sigset_t"])

Handle_TIME(args) ==
  IF args.arg0 = NULL THEN {} ELSE Loop(args.arg0, sizeof["time_t"])

Handle_UNAME(args) == Loop(args.arg0, sizeof["utsname"])

(* The calls whose handler announces, in the comment above it, to "clear   *)
(* taint" where the kernel writes.  fcntl is not one of them: it has the   *)
(* observer of fstat, which knows nothing of fcntl's arguments.            *)
ClearTaint ==
  {"fstat", "lstat", "stat", "getdents64", "gettimeofday", "mmap", "readlink",
   "rt_sigaction", "rt_sigprocmask", "time", "uname"}

(* The observers that main adds; stat, lstat, fstat, fcntl and mmap stand  *)
(* for the 32-bit stat64, ... and mmap2 too (the old mmap of that build,   *)
(* which has its arguments in memory, is left out).  fcntl, whose second   *)
(* argument is a command and not an address, has the observer of fstat.    *)
Erased(args) ==
  CASE args.num \in {"fcntl", "fstat"} -> Handle_FSTAT64(args)
    [] args.num = "lstat"          -> Handle_LSTAT64(args)
    [] args.num = "stat"           -> Handle_STAT64(args)
    [] args.num = "getdents64"     -> Handle_GETDENTS64(args)
    [] args.num = "gettimeofday"   -> Handle_GETTIMEOFDAY(args)
    [] args.num = "mmap"           -> Handle_MMAP(args)
    [] args.num = "readlink"       -> Handle_READLINK(args)
    [] args.num = "rt_sigaction"   -> Handle_RT_SIGACTION(args)
    [] args.num = "rt_sigprocmask" -> Handle_RT_SIGPROCMASK(args)
    [] args.num = "time"           -> Handle_TIME(args)
    [] args.num = "uname"          -> Handle_UNAME(args)
    [] OTHER                       -> {}
=============================================================================
