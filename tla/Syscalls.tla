------------------------------ MODULE Syscalls ------------------------------
(***************************************************************************)
(* The interposed system calls.  The kernel does not fault on a page that  *)
(* smash has protected: it fails with EFAULT.  A wrapper therefore calls,  *)
(* and on EFAULT touches the pages of its arguments in user mode (which    *)
(* enters the fault handler and opens them) and calls again, a bounded     *)
(* number of times; or, where libc makes the call out of reach, touches    *)
(* the pages once beforehand.                                              *)
(*                                                                         *)
(* SyscallTable says what the kernel and each wrapper touch.  The          *)
(* compressor may protect a page of the heap at any moment.  On Linux      *)
(* the real function is looked up on the first call, behind a flag that    *)
(* all wrappers and threads share.                                         *)
(***************************************************************************)
EXTENDS Naturals

CONSTANTS
  Threads,
  Wrappers,    \* what each wrapper does: the table of SyscallTable
  Names,       \* the wrappers that are called, a subset of DOMAIN Wrappers
  MaxAttempts, \* retryWithDecompress: 8
  MaxCalls,    \* bound: calls made in all
  None         \* no call in progress

VARIABLES
  resolving,   \* g_resolving_syscalls
  resolved,    \* the names whose real_##name is not null
  calls,       \* calls made so far
  call,        \* per thread: the name called, or None
  pc,          \* per thread: where the wrapper is
  page,        \* per thread: what the arguments' pages are
  attempt,     \* per thread: attempt
  result,      \* per thread: what the last system call returned
  closings     \* history, per thread: times a page was closed, saturating

vars ==
  <<resolving, resolved, calls, call, pc, page, attempt, result, closings>>

-----------------------------------------------------------------------------

Protections == {"none", "read", "rw"}
PageKinds == Protections \cup {"own", "bad"}
Arguments(n) ==
  LET d == Wrappers[n] IN d.reads \cup d.writes

TypeOK ==
  /\ resolving \in BOOLEAN
  /\ resolved \subseteq Names
  /\ calls \in 0..MaxCalls
  /\ call \in [Threads -> Names \cup {None}]
  /\ pc \in [Threads -> {"idle", "resolve", "claim", "dlsym", "raw",
                         "before", "call", "walk", "done", "crashed"}]
  /\ \A t \in Threads : /\ DOMAIN page[t] = IF call[t] = None THEN {}
                                             ELSE Arguments(call[t])
                        /\ \A a \in DOMAIN page[t] : page[t][a] \in PageKinds
  /\ attempt \in [Threads -> 0..MaxAttempts]
  /\ result \in [Threads -> {"none", "ok", "EFAULT", "rawEFAULT",
                             "failed"}]
  /\ closings \in [Threads -> 0..MaxAttempts]

Init ==
  /\ resolving = FALSE /\ resolved = {} /\ calls = 0
  /\ call = [t \in Threads |-> None]
  /\ pc = [t \in Threads |-> "idle"]
  /\ page = [t \in Threads |-> <<>>]
  /\ attempt = [t \in Threads |-> 0]
  /\ result = [t \in Threads |-> "none"]
  /\ closings = [t \in Threads |-> 0]

\* "own" is memory smash does not manage, "bad" an unmapped address.
Enter(t) ==
  /\ pc[t] = "idle"
  /\ calls < MaxCalls
  /\ calls' = calls + 1
  /\ \E n \in Names :
       /\ call' = [call EXCEPT ![t] = n]
       /\ page' \in {[page EXCEPT ![t] = f] : f \in [Arguments(n) -> PageKinds]}
       /\ pc' = [pc EXCEPT ![t] = IF \/ Wrappers[n].unresolved = "never"
                                     \/ n \in resolved
                                  THEN "before" ELSE "resolve"]
  /\ UNCHANGED <<resolving, resolved, attempt, result, closings>>

-----------------------------------------------------------------------------
(* SMASH_LAZY_RESOLVE.                                                     *)

\* Another lookup is under way: whether an outer one of this thread or one of
\* another thread, the real function stays unknown.
SkipResolve(t) ==
  /\ pc[t] = "resolve" /\ resolving
  /\ IF Wrappers[call[t]].unresolved = "syscall"
     THEN pc' = [pc EXCEPT ![t] = "raw"] /\ UNCHANGED result
     ELSE /\ pc' = [pc EXCEPT ![t] = "done"]
          /\ result' = [result EXCEPT ![t] = "failed"]
  /\ UNCHANGED <<resolving, resolved, calls, call, page, attempt, closings>>

SeeFree(t) ==
  /\ pc[t] = "resolve" /\ ~resolving
  /\ pc' = [pc EXCEPT ![t] = "claim"]
  /\ UNCHANGED <<resolving, resolved, calls, call, page, attempt, result, closings>>

Claim(t) ==
  /\ pc[t] = "claim"
  /\ resolving' = TRUE
  /\ pc' = [pc EXCEPT ![t] = "dlsym"]
  /\ UNCHANGED <<resolved, calls, call, page, attempt, result, closings>>

Dlsym(t) ==
  /\ pc[t] = "dlsym"
  /\ resolved' = resolved \cup {call[t]}
  /\ resolving' = FALSE
  /\ pc' = [pc EXCEPT ![t] = "before"]
  /\ UNCHANGED <<calls, call, page, attempt, result, closings>>

-----------------------------------------------------------------------------
(* The call itself.                                                        *)

Readable == {"read", "rw", "own"}
Writable == {"rw", "own"}

KernelOk(t) ==
  LET d == Wrappers[call[t]] IN
  /\ \A a \in d.reads : page[t][a] \in Readable
  /\ \A a \in d.writes : page[t][a] \in Writable

\* A fault on a closed page makes it writable again.  warmPages reads and
\* writes pages of the heap and skips the others.
Peeked(t, args) ==
  [a \in DOMAIN page[t] |->
     IF a \in args /\ page[t][a] = "none" THEN "rw" ELSE page[t][a]]
Touched(pages, args) ==
  [a \in DOMAIN pages |->
     IF a \in args /\ pages[a] \in Protections THEN "rw" ELSE pages[a]]
Crashes(t, args) == \E a \in args : page[t][a] = "bad"

\* if (!real_##name) return syscall(...): once, without a retry.
RawCall(t) ==
  /\ pc[t] = "raw"
  /\ result' = [result EXCEPT ![t] = IF KernelOk(t) THEN "ok" ELSE "rawEFAULT"]
  /\ pc' = [pc EXCEPT ![t] = "done"]
  /\ UNCHANGED <<resolving, resolved, calls, call, page, attempt, closings>>

\* What a wrapper does before the first call.  User code that reads through a
\* bad pointer dies of it.
Before(t) ==
  /\ pc[t] = "before"
  /\ LET d == Wrappers[call[t]] IN
     /\ page' = [page EXCEPT ![t] = Touched(Peeked(t, d.pre), d.warm)]
     /\ pc' = [pc EXCEPT ![t] =
                  IF Crashes(t, d.pre) THEN "crashed" ELSE "call"]
  /\ UNCHANGED <<resolving, resolved, calls, call, attempt, result, closings>>

\* One retry short.
CallKernelMutant(t) ==
  /\ pc[t] = "call"
  /\ result' = [result EXCEPT ![t] = IF KernelOk(t) THEN "ok" ELSE "EFAULT"]
  /\ pc' = [pc EXCEPT ![t] =
       IF /\ ~KernelOk(t)
          /\ Wrappers[call[t]].retry
          /\ attempt[t] + 1 < MaxAttempts
       THEN "walk" ELSE "done"]
  /\ UNCHANGED <<resolving, resolved, calls, call, page, attempt, closings>>

CallKernel(t) ==
  /\ pc[t] = "call"
  /\ result' = [result EXCEPT ![t] = IF KernelOk(t) THEN "ok" ELSE "EFAULT"]
  /\ pc' = [pc EXCEPT ![t] =
       IF /\ ~KernelOk(t)
          /\ Wrappers[call[t]].retry
          /\ attempt[t] < MaxAttempts
       THEN "walk" ELSE "done"]
  /\ UNCHANGED <<resolving, resolved, calls, call, page, attempt, closings>>

Walk(t) ==
  /\ pc[t] = "walk"
  /\ LET d == Wrappers[call[t]]
         peek == IF d.gated /\ \A a \in d.walk : page[t][a] \notin Protections
                 THEN {} ELSE d.peek IN
     /\ page' = [page EXCEPT ![t] = Touched(Peeked(t, peek), d.walk)]
     /\ pc' = [pc EXCEPT ![t] = IF Crashes(t, peek) THEN "crashed" ELSE "call"]
  /\ attempt' = [attempt EXCEPT ![t] = @ + 1]
  /\ UNCHANGED <<resolving, resolved, calls, call, result, closings>>

Return(t) ==
  /\ pc[t] = "done"
  /\ pc' = [pc EXCEPT ![t] = "idle"]
  /\ call' = [call EXCEPT ![t] = None]
  /\ page' = [page EXCEPT ![t] = <<>>]
  /\ attempt' = [attempt EXCEPT ![t] = 0]
  /\ result' = [result EXCEPT ![t] = "none"]
  /\ closings' = [closings EXCEPT ![t] = 0]
  /\ UNCHANGED <<resolving, resolved, calls>>

\* The compressor protects a page of the heap (to watch it, or having
\* compressed it) while a call is in progress.
Protect(t, a) ==
  /\ pc[t] \notin {"idle", "done", "crashed"}
  /\ \E p \in {"read", "none"} :
       /\ page[t][a] = "rw" \/ (page[t][a] = "read" /\ p = "none")
       /\ page' = [page EXCEPT ![t][a] = p]
  /\ closings' = [closings EXCEPT ![t] = IF @ < MaxAttempts THEN @ + 1 ELSE @]
  /\ UNCHANGED <<resolving, resolved, calls, call, pc, attempt, result>>

Step(t) ==
  \/ SkipResolve(t) \/ SeeFree(t) \/ Claim(t) \/ Dlsym(t)
  \/ RawCall(t) \/ Before(t) \/ CallKernel(t) \/ Walk(t) \/ Return(t)

Next ==
  \E t \in Threads :
    Enter(t) \/ Step(t) \/ \E a \in DOMAIN page[t] : Protect(t, a)

Spec == Init /\ [][Next]_vars
FairSpec == Spec /\ \A t \in Threads : WF_vars(Step(t))

-----------------------------------------------------------------------------

\* Everything the kernel touches is opened by the walk (or, without a retry,
\* by the warming), or is only read and was read by the wrapper.
Covered(d) ==
  LET opened == IF d.retry THEN d.walk ELSE d.warm IN
  /\ d.writes \subseteq opened
  /\ d.reads \subseteq opened \cup d.peek

\* A table where that is enough: a wrapper that covers its arguments reads its
\* vector at every walk, not only when the walk has a page to touch, and one
\* without a retry reads or touches beforehand what the kernel reads.
Fits ==
  \A n \in Names :
    LET d == Wrappers[n] IN
    Covered(d) => ~d.gated /\ (d.retry \/ d.reads \subseteq d.warm \cup d.pre)

\* A wrapper that covers its arguments reports EFAULT for mapped arguments only
\* if the compressor closed one of their pages once per retry
\* (retryWithDecompress), or once since the warming where nothing is retried.
NoSpuriousFault ==
  \A t \in Threads :
    (/\ pc[t] = "done" /\ result[t] = "EFAULT"
     /\ Covered(Wrappers[call[t]])
     /\ \A a \in DOMAIN page[t] : page[t][a] # "bad")
    => closings[t] >= IF Wrappers[call[t]].retry THEN MaxAttempts ELSE 1

InCall(t) == pc[t] \notin {"idle", "crashed"}

\* A call ends, one way or the other, however often the compressor closes its
\* pages and whatever pointers it was given: the retries are bounded.
EveryCallEnds ==
  \A t \in Threads : InCall(t) ~> ~InCall(t)

=============================================================================
