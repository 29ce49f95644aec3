---------------------------- MODULE PageLifecycle ----------------------------
(***************************************************************************)
(* The life of the pages of one slab span: application threads that        *)
(* allocate, free, load and store; the SIGSEGV handler that repairs what   *)
(* they fault on; the compressor's workers that monitor, compress, reclaim *)
(* and sweep; the allocator that retires the span when its last slot is    *)
(* freed; and the shutdown drain.                                          *)
(*                                                                         *)
(* A page is a function from slots to values.  Its backing (phys) is what  *)
(* a load sees when the protection allows one; its blob is the compressed  *)
(* copy; mem is a history variable: the value the application stored last. *)
(* Each page has a worker of its own.  The code gives a worker a range of  *)
(* pages and puts a barrier between phases, so its schedules are a subset  *)
(* of the ones here.                                                       *)
(***************************************************************************)
EXTENDS Naturals, FiniteSets

CONSTANTS
  Pages,          \* the pages of the span
  Slots,          \* the object slots of a page
  Threads,        \* application threads
  Values,         \* what a slot can hold
  Zero,           \* the value a fresh or dropped page reads as
  Undef,          \* mem of a slot that is free or not yet written
  NoBlob,         \* compressed_[i] of a page without one
  NoOne, Worker,  \* lock owners that are not application threads
  NoAccess,       \* acc of a thread that is not accessing memory
  Deferred,       \* isDeferredReclaimMode(): shadow pages, Phase B
  SoftDirty,      \* soft-dirty tracking replaces Phase 3
  Incompressible, \* the ratio gate or the blob store may reject a page
  SelfMem,        \* /proc/self/mem is usable
  VmaCap,         \* mprotect and mmap may fail with ENOMEM
  Shutdown        \* stop() may be called

PageContents == [Slots -> Values]

ASSUME ValueAssumption == Zero \in Values /\ Undef \notin Values
ASSUME BlobAssumption == NoBlob \notin PageContents
ASSUME OwnerAssumption ==
  Worker \notin Threads /\ NoOne \notin Threads /\ Worker # NoOne
ASSUME ModeAssumption ==
  {Deferred, SoftDirty, Incompressible, SelfMem, VmaCap, Shutdown} \subseteq BOOLEAN

VARIABLES
  state,    \* PageStateTable
  lock,     \* PageLockTable: who holds the page's spinlock
  prot,     \* protection of the mapping
  phys,     \* backing contents
  blob,     \* compressed_[i], decompressed
  pending,  \* deferred_pending_[i]
  live,     \* slots handed out (clear bits of the span's bitmap)
  mem,      \* history: last value stored by the application
  span,     \* inUse, retiring (slab lock held by the freeing thread) or empty
  wpc,      \* per page: where the page's compressor worker is
  buf,      \* per page: the worker's snapshot (worker.page_buf)
  tpc,      \* per thread: where it is
  acc,      \* per thread: the load or store it is executing
  todo,     \* per thread: pages left to prefetch or to release
  life,     \* running, draining or stopped (fault handler uninstalled)
  drained,  \* pages the shutdown drain has walked
  crashed   \* a SIGSEGV was delivered that smash does not handle

pageVars == <<state, lock, prot, phys, blob, pending>>
appVars == <<live, mem, span>>
workerVars == <<wpc, buf>>
threadVars == <<tpc, acc, todo>>
lifeVars == <<life, drained, crashed>>
vars == <<pageVars, appVars, workerVars, threadVars, lifeVars>>

States == {"EMPTY", "ACTIVE", "COMPRESSED", "COMPRESSING",
           "ACTIVE_MONITORING", "COMPRESSED_SHADOW"}
Prots == {"NONE", "READ", "RW"}
WorkerSteps == {"idle", "protRead3", "apply3", "decide", "arm", "relock",
                "snapshot", "verify", "gate", "copyBack", "listed",
                "compare", "drop", "drain"}
ThreadSteps == {"idle", "access", "fault", "handle", "flip", "copy",
                "prefetch", "retire"}
Access == [page : Pages, slot : Slots, val : Values \cup {Undef}]
ZeroPage == [s \in Slots |-> Zero]

ASSUME AccessAssumption == NoAccess \notin Access

TypeOK ==
  /\ state \in [Pages -> States]
  /\ lock \in [Pages -> Threads \cup {Worker, NoOne}]
  /\ prot \in [Pages -> Prots]
  /\ phys \in [Pages -> PageContents]
  /\ blob \in [Pages -> PageContents \cup {NoBlob}]
  /\ pending \in [Pages -> BOOLEAN]
  /\ live \in SUBSET (Pages \X Slots)
  /\ mem \in [Pages -> [Slots -> Values \cup {Undef}]]
  /\ span \in {"inUse", "retiring", "empty"}
  /\ wpc \in [Pages -> WorkerSteps]
  /\ buf \in [Pages -> PageContents]
  /\ tpc \in [Threads -> ThreadSteps]
  /\ acc \in [Threads -> Access \cup {NoAccess}]
  /\ todo \in [Threads -> SUBSET Pages]
  /\ life \in {"running", "draining", "stopped"}
  /\ drained \in SUBSET Pages
  /\ crashed \in BOOLEAN

\* Slab::allocateNewSpan has committed the span and set its pages ACTIVE.
Init ==
  /\ state = [p \in Pages |-> "ACTIVE"]
  /\ lock = [p \in Pages |-> NoOne]
  /\ prot = [p \in Pages |-> "RW"]
  /\ phys = [p \in Pages |-> ZeroPage]
  /\ blob = [p \in Pages |-> NoBlob]
  /\ pending = [p \in Pages |-> FALSE]
  /\ live = {}
  /\ mem = [p \in Pages |-> [s \in Slots |-> Undef]]
  /\ span = "inUse"
  /\ wpc = [p \in Pages |-> "idle"]
  /\ buf = [p \in Pages |-> ZeroPage]
  /\ tpc = [t \in Threads |-> "idle"]
  /\ acc = [t \in Threads |-> NoAccess]
  /\ todo = [t \in Threads |-> {}]
  /\ life = "running"
  /\ drained = {}
  /\ crashed = FALSE

\* mprotect(2): the protections page p may have after a call that asks for q.
\* Past vm.max_map_count the call fails and the old protection stays.
Mprotect(p, q) == IF VmaCap THEN {q, prot[p]} ELSE {q}

\* Thread t, and the worker of page p, are at step pc of a process still alive.
At(t, pc) == ~crashed /\ tpc[t] = pc
Doing(p, pc) == ~crashed /\ wpc[p] = pc

-----------------------------------------------------------------------------
(* Application threads and the allocator.                                  *)

\* Slab::allocate: take a free slot; an empty span is put back in service
\* first (recommitEmptySpan), which rewrites the page states and nothing else.
AllocSlot(p, s) ==
  /\ ~crashed
  /\ span # "retiring"
  /\ <<p, s>> \notin live
  /\ live' = live \cup {<<p, s>>}
  /\ span' = "inUse"
  /\ state' = IF span = "empty" THEN [q \in Pages |-> "ACTIVE"] ELSE state
  /\ UNCHANGED <<lock, prot, phys, blob, pending, mem, workerVars, threadVars,
                 lifeVars>>

\* Slab::deallocateOne: the slot's bit is set without touching the page; the
\* thread that frees the last slot goes on to retire the span.
FreeSlot(t, p, s) ==
  /\ At(t, "idle")
  /\ span = "inUse"
  /\ <<p, s>> \in live
  /\ \A u \in Threads : acc[u] # NoAccess => <<acc[u].page, acc[u].slot>> # <<p, s>>
  /\ live' = live \ {<<p, s>>}
  /\ mem' = [mem EXCEPT ![p][s] = Undef]
  /\ IF live' = {}
       THEN /\ span' = "retiring"
            /\ tpc' = [tpc EXCEPT ![t] = "retire"]
            /\ todo' = [todo EXCEPT ![t] = Pages]
       ELSE UNCHANGED <<span, tpc, todo>>
  /\ UNCHANGED <<pageVars, workerVars, acc, lifeVars>>

\* Mutant: a freed page keeps its blob.
ReleasePageKeepsBlob(t, p) ==
  /\ At(t, "retire")
  /\ p \in todo[t]
  /\ lock[p] = NoOne
  /\ pending' = [pending EXCEPT ![p] = FALSE]
  /\ UNCHANGED blob
  /\ state' = [state EXCEPT ![p] = "EMPTY"]
  /\ todo' = [todo EXCEPT ![t] = @ \ {p}]
  /\ UNCHANGED <<lock, prot, phys, appVars, workerVars, tpc, acc, lifeVars>>

\* releaseCompressedPages, one page: under the page lock, forget the blob and
\* the pending bit and mark the page EMPTY.  The protection is left alone.
ReleasePage(t, p) ==
  /\ At(t, "retire")
  /\ p \in todo[t]
  /\ lock[p] = NoOne
  /\ pending' = [pending EXCEPT ![p] = FALSE]
  /\ blob' = [blob EXCEPT ![p] = NoBlob]
  /\ state' = [state EXCEPT ![p] = "EMPTY"]
  /\ todo' = [todo EXCEPT ![t] = @ \ {p}]
  /\ UNCHANGED <<lock, prot, phys, appVars, workerVars, tpc, acc, lifeVars>>

\* The rest of retireEmptySpan: keep the span resident, or, over the resident
\* limit, decommit it at once (decommitEmptySpan).
RetireSpan(t) ==
  /\ At(t, "retire")
  /\ todo[t] = {}
  /\ span' = "empty"
  /\ tpc' = [tpc EXCEPT ![t] = "idle"]
  /\ \E decommit \in BOOLEAN :
       phys' = IF decommit THEN [p \in Pages |-> ZeroPage] ELSE phys
  /\ UNCHANGED <<state, lock, prot, blob, pending, live, mem, workerVars, acc,
                 todo, lifeVars>>

\* Slab::purgeResidentEmpty, from the compressor's tick.
PurgeResidentEmpty ==
  /\ ~crashed
  /\ life = "running"
  /\ span = "empty"
  /\ phys' = [p \in Pages |-> ZeroPage]
  /\ UNCHANGED <<state, lock, prot, blob, pending, appVars, workerVars,
                 threadVars, lifeVars>>

\* A thread starts a load (val = Undef) or a store into a slot it owns.
BeginAccess(t, a) ==
  /\ At(t, "idle")
  /\ <<a.page, a.slot>> \in live
  /\ tpc' = [tpc EXCEPT ![t] = "access"]
  /\ acc' = [acc EXCEPT ![t] = a]
  /\ UNCHANGED <<pageVars, appVars, workerVars, todo, lifeVars>>

Permitted(a) == prot[a.page] = "RW" \/ (a.val = Undef /\ prot[a.page] = "READ")

\* The hardware lets the access through.
CompleteAccess(t) ==
  /\ At(t, "access")
  /\ Permitted(acc[t])
  /\ IF acc[t].val = Undef
       THEN UNCHANGED <<phys, mem>>
       ELSE /\ phys' = [phys EXCEPT ![acc[t].page][acc[t].slot] = acc[t].val]
            /\ mem' = [mem EXCEPT ![acc[t].page][acc[t].slot] = acc[t].val]
  /\ tpc' = [tpc EXCEPT ![t] = "idle"]
  /\ acc' = [acc EXCEPT ![t] = NoAccess]
  /\ UNCHANGED <<state, lock, prot, blob, pending, live, span, workerVars, todo,
                 lifeVars>>

\* The access faults: the signal handler runs, unless stop() has uninstalled it.
TakeFault(t) ==
  /\ At(t, "access")
  /\ ~Permitted(acc[t])
  /\ IF life = "stopped"
       THEN crashed' = TRUE /\ UNCHANGED tpc
       ELSE tpc' = [tpc EXCEPT ![t] = "fault"] /\ UNCHANGED crashed
  /\ UNCHANGED <<pageVars, appVars, workerVars, acc, todo, life, drained>>

-----------------------------------------------------------------------------
(* CompressorThread::handleFault.                                          *)

\* The page lock is taken and the state read.  default: an EMPTY page is not a
\* fault smash can repair, the signal goes to the old handler.
LockForFault(t) ==
  LET p == acc[t].page IN
  /\ At(t, "fault")
  /\ lock[p] = NoOne
  /\ IF state[p] = "EMPTY"
       THEN crashed' = TRUE /\ UNCHANGED <<lock, tpc>>
       ELSE /\ lock' = [lock EXCEPT ![p] = t]
            /\ tpc' = [tpc EXCEPT ![t] = "handle"]
            /\ UNCHANGED crashed
  /\ UNCHANGED <<state, prot, phys, blob, pending, appVars, workerVars, acc,
                 todo, life, drained>>

\* Mutant: the page is always made writable before the bytes are in place.
BeginRestoreOpenFirst(t, p) ==
  \/ /\ prot' = [prot EXCEPT ![p] = "RW"]
     /\ tpc' = [tpc EXCEPT ![t] = "copy"]
     /\ UNCHANGED phys
  \/ /\ VmaCap
     /\ prot' = [prot EXCEPT ![p] = "RW"]
     /\ phys' = [phys EXCEPT ![p] = ZeroPage]
     /\ tpc' = [tpc EXCEPT ![t] = "copy"]

\* restorePageContents, up to the point where the page becomes accessible: the
\* bytes go in through /proc/self/mem under the old protection ("flip" comes
\* next), or, on the fallback, the page is made writable first ("copy" next).
\* At the VMA cap the fallback may have to remap the page, which zeroes it.
BeginRestore(t, p) ==
  \/ /\ SelfMem
     /\ phys' = [phys EXCEPT ![p] = blob[p]]
     /\ tpc' = [tpc EXCEPT ![t] = "flip"]
     /\ UNCHANGED prot
  \/ /\ ~SelfMem
     /\ prot' = [prot EXCEPT ![p] = "RW"]
     /\ tpc' = [tpc EXCEPT ![t] = "copy"]
     /\ UNCHANGED phys
  \/ /\ VmaCap
     /\ prot' = [prot EXCEPT ![p] = "RW"]
     /\ phys' = [phys EXCEPT ![p] = ZeroPage]
     /\ tpc' = [tpc EXCEPT ![t] = "copy"]

\* case COMPRESSED, up to the restore.
FaultCompressed(t) ==
  LET p == acc[t].page IN
  /\ At(t, "handle")
  /\ state[p] = "COMPRESSED"
  /\ BeginRestore(t, p)
  /\ pending' = [pending EXCEPT ![p] = FALSE]
  /\ UNCHANGED <<state, lock, blob, appVars, workerVars, acc, todo, lifeVars>>

\* Mutant: the error path forgets the unlock.
FaultCompressedFailsLocked(t) ==
  LET p == acc[t].page IN
  /\ VmaCap
  /\ At(t, "handle")
  /\ state[p] = "COMPRESSED"
  /\ phys' = IF SelfMem THEN [phys EXCEPT ![p] = blob[p]] ELSE phys
  /\ UNCHANGED lock
  /\ tpc' = [tpc EXCEPT ![t] = "access"]
  /\ UNCHANGED <<state, prot, blob, pending, appVars, workerVars, acc, todo,
                 lifeVars>>

\* Mutant: the error path has already cleared the pending bit.
FaultCompressedFailsForgotten(t) ==
  LET p == acc[t].page IN
  /\ VmaCap
  /\ At(t, "handle")
  /\ state[p] = "COMPRESSED"
  /\ phys' = IF SelfMem THEN [phys EXCEPT ![p] = blob[p]] ELSE phys
  /\ lock' = [lock EXCEPT ![p] = NoOne]
  /\ pending' = [pending EXCEPT ![p] = FALSE]
  /\ tpc' = [tpc EXCEPT ![t] = "access"]
  /\ UNCHANGED <<state, prot, blob, appVars, workerVars, acc, todo, lifeVars>>

\* case COMPRESSED when no restore makes the page accessible: the blob and the
\* pending bit are kept and the access faults again.
FaultCompressedFails(t) ==
  LET p == acc[t].page IN
  /\ VmaCap
  /\ At(t, "handle")
  /\ state[p] = "COMPRESSED"
  /\ phys' = IF SelfMem THEN [phys EXCEPT ![p] = blob[p]] ELSE phys
  /\ lock' = [lock EXCEPT ![p] = NoOne]
  /\ tpc' = [tpc EXCEPT ![t] = "access"]
  /\ UNCHANGED <<state, prot, blob, pending, appVars, workerVars, acc, todo,
                 lifeVars>>

\* The end of a restore, in the handler and in prefetchAdjacent: the page is
\* readable and current, the blob is released, the page is ACTIVE again.
FinishRestore(t, p) ==
  /\ At(t, "flip") \/ At(t, "copy")
  /\ lock[p] = t
  /\ phys' = IF tpc[t] = "copy" THEN [phys EXCEPT ![p] = blob[p]] ELSE phys
  /\ prot' = [prot EXCEPT ![p] = "RW"]
  /\ blob' = [blob EXCEPT ![p] = NoBlob]
  /\ state' = [state EXCEPT ![p] = "ACTIVE"]
  /\ lock' = [lock EXCEPT ![p] = NoOne]
  /\ tpc' = [tpc EXCEPT ![t] = "prefetch"]
  /\ todo' = IF p = acc[t].page THEN [todo EXCEPT ![t] = Pages \ {p}] ELSE todo
  /\ UNCHANGED <<pending, appVars, workerVars, acc, lifeVars>>

\* prefetchAdjacent, one neighbour: restored if its lock is free, it is
\* COMPRESSED and it has a blob in a store.  The pending bit is not cleared.
PrefetchPage(t, p) ==
  /\ At(t, "prefetch")
  /\ p \in todo[t]
  /\ lock[p] = NoOne
  /\ state[p] = "COMPRESSED"
  /\ blob[p] # ZeroPage
  /\ lock' = [lock EXCEPT ![p] = t]
  /\ todo' = [todo EXCEPT ![t] = @ \ {p}]
  /\ BeginRestore(t, p)
  /\ UNCHANGED <<state, blob, pending, appVars, workerVars, acc, lifeVars>>

\* A neighbour is passed over: busy, not compressed, or no fault slot free.
SkipPrefetch(t, p) ==
  /\ At(t, "prefetch")
  /\ p \in todo[t]
  /\ todo' = [todo EXCEPT ![t] = @ \ {p}]
  /\ UNCHANGED <<pageVars, appVars, workerVars, tpc, acc, lifeVars>>

\* The handler returns and the instruction is executed again.
ResumeAccess(t) ==
  /\ At(t, "prefetch")
  /\ todo[t] = {}
  /\ tpc' = [tpc EXCEPT ![t] = "access"]
  /\ UNCHANGED <<pageVars, appVars, workerVars, acc, todo, lifeVars>>

\* case COMPRESSING: give the page back to the application.
FaultCompressing(t) ==
  LET p == acc[t].page IN
  /\ At(t, "handle")
  /\ state[p] = "COMPRESSING"
  /\ \/ /\ \E q \in Mprotect(p, "RW") : prot' = [prot EXCEPT ![p] = q]
        /\ UNCHANGED phys
     \/ /\ VmaCap
        /\ prot' = [prot EXCEPT ![p] = "RW"]
        /\ phys' = [phys EXCEPT ![p] = ZeroPage]
  /\ state' = [state EXCEPT ![p] = "ACTIVE"]
  /\ lock' = [lock EXCEPT ![p] = NoOne]
  /\ tpc' = [tpc EXCEPT ![t] = "access"]
  /\ UNCHANGED <<blob, pending, appVars, workerVars, acc, todo, lifeVars>>

\* Mutant: an ACTIVE page is taken for one that is already open.
FaultResidentMonitoredOnly(t) ==
  LET p == acc[t].page IN
  /\ At(t, "handle")
  /\ state[p] \in {"ACTIVE", "ACTIVE_MONITORING"}
  /\ \E q \in (IF state[p] = "ACTIVE" THEN {prot[p]} ELSE Mprotect(p, "RW")) :
       /\ prot' = [prot EXCEPT ![p] = q]
       /\ state' = IF q = "RW" THEN [state EXCEPT ![p] = "ACTIVE"] ELSE state
  /\ lock' = [lock EXCEPT ![p] = NoOne]
  /\ tpc' = [tpc EXCEPT ![t] = "access"]
  /\ UNCHANGED <<phys, blob, pending, appVars, workerVars, acc, todo, lifeVars>>

\* cases ACTIVE_MONITORING and ACTIVE: makeResidentPageWritable.
FaultResident(t) ==
  LET p == acc[t].page IN
  /\ At(t, "handle")
  /\ state[p] \in {"ACTIVE", "ACTIVE_MONITORING"}
  /\ \E q \in Mprotect(p, "RW") :
       /\ prot' = [prot EXCEPT ![p] = q]
       /\ state' = IF q = "RW" THEN [state EXCEPT ![p] = "ACTIVE"] ELSE state
  /\ lock' = [lock EXCEPT ![p] = NoOne]
  /\ tpc' = [tpc EXCEPT ![t] = "access"]
  /\ UNCHANGED <<phys, blob, pending, appVars, workerVars, acc, todo, lifeVars>>

\* case COMPRESSED_SHADOW: the page is current, the blob is not; drop the blob.
FaultShadow(t) ==
  LET p == acc[t].page IN
  /\ At(t, "handle")
  /\ state[p] = "COMPRESSED_SHADOW"
  /\ \E q \in Mprotect(p, "RW") : prot' = [prot EXCEPT ![p] = q]
  /\ blob' = [blob EXCEPT ![p] = NoBlob]
  /\ state' = [state EXCEPT ![p] = "ACTIVE"]
  /\ lock' = [lock EXCEPT ![p] = NoOne]
  /\ tpc' = [tpc EXCEPT ![t] = "access"]
  /\ UNCHANGED <<phys, pending, appVars, workerVars, acc, todo, lifeVars>>

-----------------------------------------------------------------------------
(* The compressor's workers.                                               *)

\* A worker takes up page p.
Turn(p) == life = "running" /\ Doing(p, "idle")

\* The worker of p leaves the page in state st, unlocks it and moves on.
Leave(p, st) ==
  /\ state' = [state EXCEPT ![p] = st]
  /\ lock' = [lock EXCEPT ![p] = NoOne]
  /\ wpc' = [wpc EXCEPT ![p] = "idle"]
  /\ buf' = [buf EXCEPT ![p] = ZeroPage]

\* phase3Range: claim an ACTIVE page for monitoring (a CAS, no lock).
MonitorPage(p) ==
  /\ ~SoftDirty
  /\ Turn(p)
  /\ state[p] = "ACTIVE"
  /\ state' = [state EXCEPT ![p] = "ACTIVE_MONITORING"]
  /\ wpc' = [wpc EXCEPT ![p] = "protRead3"]
  /\ UNCHANGED <<lock, prot, phys, blob, pending, appVars, buf, threadVars,
                 lifeVars>>

\* flushPhase3Run, check under the lock.  The lock is gone when mprotect runs.
\* Out of VMA budget the claim is undone instead.
CheckMonitored(p) ==
  /\ Doing(p, "protRead3")
  /\ lock[p] = NoOne
  /\ \E budget \in BOOLEAN :
       IF state[p] = "ACTIVE_MONITORING"
         THEN /\ wpc' = [wpc EXCEPT ![p] = IF budget THEN "apply3" ELSE "idle"]
              /\ state' = IF budget THEN state ELSE [state EXCEPT ![p] = "ACTIVE"]
         ELSE /\ wpc' = [wpc EXCEPT ![p] = "idle"]
              /\ UNCHANGED state
  /\ UNCHANGED <<lock, prot, phys, blob, pending, appVars, buf, threadVars,
                 lifeVars>>

\* flushPhase3Run, mprotect(PROT_READ); a failure undoes the claim.
ProtectMonitored(p) ==
  /\ Doing(p, "apply3")
  /\ \/ /\ prot' = [prot EXCEPT ![p] = "READ"]
        /\ UNCHANGED state
     \/ /\ VmaCap
        /\ lock[p] = NoOne
        /\ state' = IF state[p] = "ACTIVE_MONITORING"
                      THEN [state EXCEPT ![p] = "ACTIVE"] ELSE state
        /\ UNCHANGED prot
  /\ wpc' = [wpc EXCEPT ![p] = "idle"]
  /\ UNCHANGED <<lock, phys, blob, pending, appVars, buf, threadVars, lifeVars>>

\* escalateToDeepMonitoring: PROT_READ becomes PROT_NONE.
Escalate(p) ==
  /\ Turn(p)
  /\ lock[p] = NoOne
  /\ state[p] = "ACTIVE_MONITORING"
  /\ \E q \in Mprotect(p, "NONE") : prot' = [prot EXCEPT ![p] = q]
  /\ UNCHANGED <<state, lock, phys, blob, pending, appVars, workerVars,
                 threadVars, lifeVars>>

\* compressPage: lock, check that the page is still eligible, mark it.
StartCompress(p) ==
  /\ Turn(p)
  /\ lock[p] = NoOne
  /\ state[p] \in {"ACTIVE", "ACTIVE_MONITORING"}
  /\ lock' = [lock EXCEPT ![p] = Worker]
  /\ state' = [state EXCEPT ![p] = "COMPRESSING"]
  /\ wpc' = [wpc EXCEPT ![p] = "decide"]
  /\ UNCHANGED <<prot, phys, blob, pending, appVars, buf, threadVars, lifeVars>>

\* The ROI model or the tier choice turns the page down.  Its protection, which
\* monitoring may have tightened, stays as it is.
RejectCompress(p) ==
  /\ Doing(p, "decide")
  /\ Leave(p, "ACTIVE")
  /\ UNCHANGED <<prot, phys, blob, pending, appVars, threadVars, lifeVars>>

\* Mutant: deferred mode snapshots the page under the protection it has.
PrepareSnapshotAsIs(p) ==
  /\ Doing(p, "decide")
  /\ IF Deferred
       THEN /\ UNCHANGED prot
            /\ wpc' = [wpc EXCEPT ![p] = "snapshot"]
            /\ UNCHANGED lock
       ELSE /\ lock' = [lock EXCEPT ![p] = NoOne]
            /\ wpc' = [wpc EXCEPT ![p] = "arm"]
            /\ UNCHANGED prot
  /\ UNCHANGED <<state, phys, blob, pending, appVars, buf, threadVars, lifeVars>>

\* Mutant: deferred mode gives up the lock as well.
PrepareSnapshotUnlocked(p) ==
  /\ Doing(p, "decide")
  /\ IF Deferred
       THEN /\ \E q \in Mprotect(p, "RW") : prot' = [prot EXCEPT ![p] = q]
            /\ wpc' = [wpc EXCEPT ![p] = "snapshot"]
            /\ lock' = [lock EXCEPT ![p] = NoOne]
       ELSE /\ lock' = [lock EXCEPT ![p] = NoOne]
            /\ wpc' = [wpc EXCEPT ![p] = "arm"]
            /\ UNCHANGED prot
  /\ UNCHANGED <<state, phys, blob, pending, appVars, buf, threadVars, lifeVars>>

\* Deferred mode opens the page before the snapshot; standard mode drops the
\* lock to tighten the protection without blocking a faulting thread.
PrepareSnapshot(p) ==
  /\ Doing(p, "decide")
  /\ IF Deferred
       THEN /\ \E q \in Mprotect(p, "RW") : prot' = [prot EXCEPT ![p] = q]
            /\ wpc' = [wpc EXCEPT ![p] = "snapshot"]
            /\ UNCHANGED lock
       ELSE /\ lock' = [lock EXCEPT ![p] = NoOne]
            /\ wpc' = [wpc EXCEPT ![p] = "arm"]
            /\ UNCHANGED prot
  /\ UNCHANGED <<state, phys, blob, pending, appVars, buf, threadVars, lifeVars>>

\* Standard mode: mprotect(PROT_READ), without the lock and without a check.
ArmReadOnly(p) ==
  /\ Doing(p, "arm")
  /\ \E q \in Mprotect(p, "READ") : prot' = [prot EXCEPT ![p] = q]
  /\ wpc' = [wpc EXCEPT ![p] = "relock"]
  /\ UNCHANGED <<state, lock, phys, blob, pending, appVars, buf, threadVars,
                 lifeVars>>

\* Mutant: the state is not checked again after the unlocked window.
RelockUnchecked(p) ==
  /\ Doing(p, "relock")
  /\ lock[p] = NoOne
  /\ IF state[p] # "EMPTY"
       THEN /\ lock' = [lock EXCEPT ![p] = Worker]
            /\ wpc' = [wpc EXCEPT ![p] = "snapshot"]
            /\ UNCHANGED <<state, prot, buf>>
       ELSE /\ \E q \in Mprotect(p, "RW") : prot' = [prot EXCEPT ![p] = q]
            /\ Leave(p, state[p])
  /\ UNCHANGED <<phys, blob, pending, appVars, threadVars, lifeVars>>

\* Standard mode: lock again; if the page changed hands meanwhile, open it up.
Relock(p) ==
  /\ Doing(p, "relock")
  /\ lock[p] = NoOne
  /\ IF state[p] = "COMPRESSING"
       THEN /\ lock' = [lock EXCEPT ![p] = Worker]
            /\ wpc' = [wpc EXCEPT ![p] = "snapshot"]
            /\ UNCHANGED <<state, prot, buf>>
       ELSE /\ \E q \in Mprotect(p, "RW") : prot' = [prot EXCEPT ![p] = q]
            /\ Leave(p, state[p])
  /\ UNCHANGED <<phys, blob, pending, appVars, threadVars, lifeVars>>

\* memcpy of the page into worker.page_buf.  A page left PROT_NONE by a failed
\* mprotect makes the worker fault on a lock it holds, which is fatal.
Snapshot(p) ==
  /\ Doing(p, "snapshot")
  /\ IF prot[p] = "NONE"
       THEN crashed' = TRUE /\ UNCHANGED <<wpc, buf>>
       ELSE /\ buf' = [buf EXCEPT ![p] = phys[p]]
            /\ wpc' = [wpc EXCEPT ![p] = "verify"]
            /\ UNCHANGED crashed
  /\ UNCHANGED <<pageVars, appVars, threadVars, life, drained>>

\* Mutant: the bitmap is read the wrong way round.
ZeroLiveSlots(p) ==
  [s \in Slots |-> IF <<p, s>> \in live THEN Zero ELSE buf[p][s]]

\* zeroFreeSlots: the snapshot without what freed objects left behind.
ZeroFreeSlots(p) ==
  [s \in Slots |-> IF <<p, s>> \in live THEN buf[p][s] ELSE Zero]

\* The second read differs from the snapshot: a store got in, try another tick.
VerifyFails(p) ==
  /\ Doing(p, "verify")
  /\ phys[p] # buf[p]
  /\ IF Deferred
       THEN UNCHANGED prot
       ELSE \E q \in Mprotect(p, "RW") : prot' = [prot EXCEPT ![p] = q]
  /\ Leave(p, "ACTIVE")
  /\ UNCHANGED <<phys, blob, pending, appVars, threadVars, lifeVars>>

VerifyPasses(p) ==
  /\ Doing(p, "verify")
  /\ phys[p] = buf[p]
  /\ buf' = [buf EXCEPT ![p] = ZeroFreeSlots(p)]
  /\ wpc' = [wpc EXCEPT ![p] = "gate"]
  /\ UNCHANGED <<pageVars, appVars, threadVars, lifeVars>>

\* The ratio gate, or a full blob store.  Standard mode makes the page writable
\* here and copies the snapshot over it in the next step.
GateFails(p) ==
  /\ Incompressible
  /\ Doing(p, "gate")
  /\ buf[p] # ZeroPage
  /\ IF Deferred
       THEN Leave(p, "ACTIVE") /\ UNCHANGED <<prot, phys>>
       ELSE /\ \/ /\ \E q \in Mprotect(p, "RW") : prot' = [prot EXCEPT ![p] = q]
                  /\ UNCHANGED phys
               \/ /\ VmaCap
                  /\ prot' = [prot EXCEPT ![p] = "RW"]
                  /\ phys' = [phys EXCEPT ![p] = ZeroPage]
            /\ wpc' = [wpc EXCEPT ![p] = "copyBack"]
            /\ UNCHANGED <<state, lock, buf>>
  /\ UNCHANGED <<blob, pending, appVars, threadVars, lifeVars>>

\* The memcpy of the snapshot over the live page.
CopyBack(p) ==
  /\ Doing(p, "copyBack")
  /\ IF prot[p] # "RW"
       THEN crashed' = TRUE /\ UNCHANGED <<state, lock, wpc, buf, phys>>
       ELSE /\ phys' = [phys EXCEPT ![p] = buf[p]]
            /\ Leave(p, "ACTIVE")
            /\ UNCHANGED crashed
  /\ UNCHANGED <<prot, blob, pending, appVars, threadVars, life, drained>>

\* The blob is recorded.  Deferred mode leaves the page open as a shadow;
\* standard mode leaves it read-only on the worker's pending list.
CommitBlob(p) ==
  /\ Doing(p, "gate")
  /\ blob' = [blob EXCEPT ![p] = buf[p]]
  /\ buf' = [buf EXCEPT ![p] = ZeroPage]
  /\ lock' = [lock EXCEPT ![p] = NoOne]
  /\ state' = [state EXCEPT ![p] =
                 IF Deferred THEN "COMPRESSED_SHADOW" ELSE "COMPRESSED"]
  /\ wpc' = [wpc EXCEPT ![p] = IF Deferred THEN "idle" ELSE "listed"]
  /\ UNCHANGED <<prot, phys, pending, appVars, threadVars, lifeVars>>

\* flushPhase2PendingProt: queue the page for the sweeper if still COMPRESSED.
FlushPending(p) ==
  /\ Doing(p, "listed")
  /\ lock[p] = NoOne
  /\ pending' = IF state[p] = "COMPRESSED"
                  THEN [pending EXCEPT ![p] = TRUE] ELSE pending
  /\ wpc' = [wpc EXCEPT ![p] = "idle"]
  /\ UNCHANGED <<state, lock, prot, phys, blob, appVars, buf, threadVars, lifeVars>>

\* Mutant: the sweep clears the bits it finds without a look at the state.
ClearPendingUnchecked(p) ==
  /\ Turn(p)
  /\ pending[p]
  /\ lock[p] = NoOne
  /\ pending' = [pending EXCEPT ![p] = FALSE]
  /\ UNCHANGED <<state, lock, prot, phys, blob, appVars, workerVars, threadVars,
                 lifeVars>>

\* sweepDeferredMadvise finds a pending bit on a page that has moved on.
ClearStalePending(p) ==
  /\ Turn(p)
  /\ pending[p]
  /\ lock[p] = NoOne
  /\ state[p] # "COMPRESSED"
  /\ pending' = [pending EXCEPT ![p] = FALSE]
  /\ UNCHANGED <<state, lock, prot, phys, blob, appVars, workerVars, threadVars,
                 lifeVars>>

\* sweepDeferredMadvise: close the page; a failed mprotect falls back to a
\* remap, whose result is not looked at either.
SweepPage(p) ==
  /\ Turn(p)
  /\ pending[p]
  /\ lock[p] = NoOne
  /\ state[p] = "COMPRESSED"
  /\ lock' = [lock EXCEPT ![p] = Worker]
  /\ pending' = [pending EXCEPT ![p] = FALSE]
  /\ \E q \in Mprotect(p, "NONE") : prot' = [prot EXCEPT ![p] = q]
  /\ wpc' = [wpc EXCEPT ![p] = "drop"]
  /\ UNCHANGED <<state, phys, blob, appVars, buf, threadVars, lifeVars>>

\* reclaimShadowRange (Phase B): close the page to stores, then compare.
StartReclaim(p) ==
  /\ Turn(p)
  /\ lock[p] = NoOne
  /\ state[p] = "COMPRESSED_SHADOW"
  /\ lock' = [lock EXCEPT ![p] = Worker]
  /\ \E q \in Mprotect(p, "READ") : prot' = [prot EXCEPT ![p] = q]
  /\ wpc' = [wpc EXCEPT ![p] = "compare"]
  /\ UNCHANGED <<state, phys, blob, pending, appVars, buf, threadVars, lifeVars>>

\* No fault slot to decompress into: open the page again, keep the shadow.
PostponeReclaim(p) ==
  /\ Doing(p, "compare")
  /\ \E q \in Mprotect(p, "RW") : prot' = [prot EXCEPT ![p] = q]
  /\ Leave(p, state[p])
  /\ UNCHANGED <<phys, blob, pending, appVars, threadVars, lifeVars>>

\* Mutant: the discarded shadow is left marked as compressed.
DiscardShadowAsCompressed(p) ==
  /\ Doing(p, "compare")
  /\ phys[p] # blob[p]
  /\ blob' = [blob EXCEPT ![p] = NoBlob]
  /\ \E q \in Mprotect(p, "RW") : prot' = [prot EXCEPT ![p] = q]
  /\ Leave(p, "COMPRESSED")
  /\ UNCHANGED <<phys, pending, appVars, threadVars, lifeVars>>

\* The page was written since the snapshot: the blob is discarded.
DiscardShadow(p) ==
  /\ Doing(p, "compare")
  /\ phys[p] # blob[p]
  /\ blob' = [blob EXCEPT ![p] = NoBlob]
  /\ \E q \in Mprotect(p, "RW") : prot' = [prot EXCEPT ![p] = q]
  /\ Leave(p, "ACTIVE")
  /\ UNCHANGED <<phys, pending, appVars, threadVars, lifeVars>>

\* Mutant: Phase B without the comparison.
ConfirmShadowUnverified(p) ==
  /\ Doing(p, "compare")
  /\ \E q \in Mprotect(p, "NONE") : prot' = [prot EXCEPT ![p] = q]
  /\ state' = [state EXCEPT ![p] = "COMPRESSED"]
  /\ wpc' = [wpc EXCEPT ![p] = "drop"]
  /\ UNCHANGED <<lock, phys, blob, pending, appVars, buf, threadVars, lifeVars>>

\* Mutant: Phase B without the mprotect(PROT_NONE).
ConfirmShadowOpen(p) ==
  /\ Doing(p, "compare")
  /\ phys[p] = blob[p]
  /\ UNCHANGED prot
  /\ state' = [state EXCEPT ![p] = "COMPRESSED"]
  /\ wpc' = [wpc EXCEPT ![p] = "drop"]
  /\ UNCHANGED <<lock, phys, blob, pending, appVars, buf, threadVars, lifeVars>>

\* The page is unchanged: PROT_NONE, COMPRESSED, then the madvise.
ConfirmShadow(p) ==
  /\ Doing(p, "compare")
  /\ phys[p] = blob[p]
  /\ \E q \in Mprotect(p, "NONE") : prot' = [prot EXCEPT ![p] = q]
  /\ state' = [state EXCEPT ![p] = "COMPRESSED"]
  /\ wpc' = [wpc EXCEPT ![p] = "drop"]
  /\ UNCHANGED <<lock, phys, blob, pending, appVars, buf, threadVars, lifeVars>>

\* madvise(MADV_DONTNEED) and unlock, after Phase B or the sweep.
DropBacking(p) ==
  /\ Doing(p, "drop")
  /\ phys' = [phys EXCEPT ![p] = ZeroPage]
  /\ Leave(p, state[p])
  /\ UNCHANGED <<prot, blob, pending, appVars, threadVars, lifeVars>>

-----------------------------------------------------------------------------
(* CompressorThread::stop.                                                 *)

\* running_ = false and the joins: every worker has finished its phase.
StopCompressor ==
  /\ Shutdown /\ ~crashed
  /\ life = "running"
  /\ \A p \in Pages : wpc[p] = "idle"
  /\ life' = "draining"
  /\ UNCHANGED <<pageVars, appVars, workerVars, threadVars, drained, crashed>>

\* drainAllForShutdown: a COMPRESSED or COMPRESSED_SHADOW page gets its blob
\* written back ...
DrainRestore(p) ==
  /\ life = "draining" /\ ~crashed
  /\ p \notin drained
  /\ lock[p] = NoOne
  /\ state[p] \in {"COMPRESSED", "COMPRESSED_SHADOW"}
  /\ lock' = [lock EXCEPT ![p] = Worker]
  /\ drained' = drained \cup {p}
  /\ IF SelfMem
       THEN phys' = [phys EXCEPT ![p] = blob[p]] /\ UNCHANGED prot
       ELSE prot' = [prot EXCEPT ![p] = "RW"] /\ UNCHANGED phys
  /\ wpc' = [wpc EXCEPT ![p] = "drain"]
  /\ UNCHANGED <<state, blob, pending, appVars, buf, threadVars, life, crashed>>

\* ... and becomes a plain page (or, past the VMA cap, stays as it is).
DrainFinish(p) ==
  /\ Doing(p, "drain")
  /\ \/ /\ phys' = IF SelfMem THEN phys ELSE [phys EXCEPT ![p] = blob[p]]
        /\ prot' = [prot EXCEPT ![p] = "RW"]
        /\ pending' = [pending EXCEPT ![p] = FALSE]
        /\ blob' = [blob EXCEPT ![p] = NoBlob]
        /\ Leave(p, "ACTIVE")
     \/ /\ VmaCap
        /\ Leave(p, state[p])
        /\ UNCHANGED <<phys, prot, pending, blob>>
  /\ UNCHANGED <<appVars, threadVars, lifeVars>>

\* The drain's other pages: a monitored page is opened, a page whose lock is
\* taken or that is ACTIVE or EMPTY is passed over.
DrainOther(p) ==
  /\ life = "draining" /\ ~crashed
  /\ p \notin drained
  /\ lock[p] # NoOne \/ state[p] \notin {"COMPRESSED", "COMPRESSED_SHADOW"}
  /\ drained' = drained \cup {p}
  /\ IF lock[p] = NoOne /\ state[p] = "ACTIVE_MONITORING"
       THEN \E q \in Mprotect(p, "RW") :
              /\ prot' = [prot EXCEPT ![p] = q]
              /\ state' = IF q = "RW" THEN [state EXCEPT ![p] = "ACTIVE"] ELSE state
       ELSE UNCHANGED <<prot, state>>
  /\ UNCHANGED <<lock, phys, blob, pending, appVars, workerVars, threadVars,
                 life, crashed>>

\* FaultHandler::stop: the old signal dispositions are put back.
UninstallHandler ==
  /\ life = "draining" /\ ~crashed
  /\ drained = Pages
  /\ \A p \in Pages : wpc[p] = "idle"
  /\ life' = "stopped"
  /\ UNCHANGED <<pageVars, appVars, workerVars, threadVars, drained, crashed>>

-----------------------------------------------------------------------------
HandlerStep(t) ==
  \/ LockForFault(t)
  \/ FaultCompressed(t)
  \/ FaultCompressedFails(t)
  \/ \E p \in Pages : FinishRestore(t, p)
  \/ \E p \in Pages : PrefetchPage(t, p)
  \/ \E p \in Pages : SkipPrefetch(t, p)
  \/ ResumeAccess(t)
  \/ FaultCompressing(t)
  \/ FaultResident(t)
  \/ FaultShadow(t)

ThreadStep(t) ==
  \/ \E p \in Pages, s \in Slots : FreeSlot(t, p, s)
  \/ \E p \in Pages : ReleasePage(t, p)
  \/ RetireSpan(t)
  \/ \E a \in Access : BeginAccess(t, a)
  \/ CompleteAccess(t)
  \/ TakeFault(t)
  \/ HandlerStep(t)

CompressStep(p) ==
  \/ StartCompress(p)
  \/ RejectCompress(p)
  \/ PrepareSnapshot(p)
  \/ ArmReadOnly(p)
  \/ Relock(p)
  \/ Snapshot(p)
  \/ VerifyFails(p)
  \/ VerifyPasses(p)
  \/ GateFails(p)
  \/ CopyBack(p)
  \/ CommitBlob(p)
  \/ FlushPending(p)

WorkerStep(p) ==
  \/ MonitorPage(p)
  \/ CheckMonitored(p)
  \/ ProtectMonitored(p)
  \/ Escalate(p)
  \/ CompressStep(p)
  \/ ClearStalePending(p)
  \/ SweepPage(p)
  \/ StartReclaim(p)
  \/ PostponeReclaim(p)
  \/ DiscardShadow(p)
  \/ ConfirmShadow(p)
  \/ DropBacking(p)

StopStep ==
  \/ StopCompressor
  \/ \E p \in Pages : DrainRestore(p)
  \/ \E p \in Pages : DrainFinish(p)
  \/ \E p \in Pages : DrainOther(p)
  \/ UninstallHandler

Next ==
  \/ \E p \in Pages, s \in Slots : AllocSlot(p, s)
  \/ PurgeResidentEmpty
  \/ \E t \in Threads : ThreadStep(t)
  \/ \E p \in Pages : WorkerStep(p)
  \/ StopStep

Spec == Init /\ [][Next]_vars

-----------------------------------------------------------------------------
(* Properties.                                                             *)

\* Slot s of page p holds application data.
Holds(p, s) == mem[p][s] # Undef

\* A load the hardware lets through returns the last value stored there,
\* whatever the compressor, the handler and the allocator are doing: a page is
\* never readable while its backing is stale, dropped or half restored
\* (restorePageContents, the FixAv order of Phase B, the sweep).
ReadsSeeLastStore ==
  \A p \in Pages, s \in Slots :
    Holds(p, s) /\ prot[p] # "NONE" => phys[p][s] = mem[p][s]

\* Behind PROT_NONE nothing is lost: handleFault will produce the last value
\* stored, from the blob of a COMPRESSED page and from the backing of any other.
NothingLost ==
  \A p \in Pages, s \in Slots :
    Holds(p, s) /\ prot[p] = "NONE" =>
      IF state[p] = "COMPRESSED"
        THEN blob[p] # NoBlob /\ blob[p][s] = mem[p][s]
        ELSE phys[p][s] = mem[p][s]

\* Every fault on a live object is one that handleFault repairs: the handler
\* never meets an EMPTY page and no worker faults on a page it has locked.
NoFatalFault == ~crashed

\* A COMPRESSED page that nobody is restoring is closed to stores, so the blob
\* cannot go stale behind the application's back (pending list, sweep, Phase B).
CompressedNeverWritable ==
  \A p \in Pages : state[p] = "COMPRESSED" /\ lock[p] = NoOne => prot[p] # "RW"

\* Every path through the handler, the workers and the drain gives its page lock
\* back, the failing mprotects included: a held lock has an owner that is inside
\* a critical section on that page, so no later fault spins for ever.
NoLockLeak ==
  \A p \in Pages :
    /\ lock[p] = Worker =>
         wpc[p] \in {"decide", "snapshot", "verify", "gate", "copyBack",
                     "compare", "drop", "drain"}
    /\ \A t \in Threads : lock[p] = t =>
         \/ tpc[t] \in {"handle", "flip", "copy"} /\ p = acc[t].page
         \/ tpc[t] \in {"flip", "copy"} /\ p \notin todo[t]

\* A page has a blob exactly while it is COMPRESSED or COMPRESSED_SHADOW: none
\* is leaked when a page leaves these states (releaseBlob on every path), and
\* none is missing when a fault needs it.
BlobMatchesState ==
  \A p \in Pages :
    blob[p] # NoBlob <=> state[p] \in {"COMPRESSED", "COMPRESSED_SHADOW"}

\* The claim at decommitPages: a page holding application data is decommitted
\* only once it is PROT_NONE (Phase B and the sweep, FixAv order).
DecommitOnlyClosed ==
  \A p \in Pages : wpc[p] = "drop" => prot[p] = "NONE"

\* The claim at handleFault's COMPRESSING case: the compressor holds the page
\* lock for as long as the page is COMPRESSING, so the case is never taken.
CompressingIsLocked ==
  \A p \in Pages : state[p] = "COMPRESSING" => lock[p] = Worker

\* No compressed page is forgotten: as long as it is closed to stores and its
\* lock is free, its memory has been given back, or it is on the worker's pending
\* list or has its pending bit, so that the sweep will give it back.  A bit left
\* behind by prefetchAdjacent does no harm (flushPhase2PendingProt,
\* sweepDeferredMadvise, Phase B, handleFault).  The exception is a restore
\* through /proc/self/mem whose mprotect then fails at the mapping limit: it
\* leaves the page resident and nothing queues it again.
CompressedIsReclaimed ==
  \A p \in Pages :
    /\ state[p] = "COMPRESSED" /\ lock[p] = NoOne
    /\ prot[p] # "RW"
    /\ ~(VmaCap /\ SelfMem)
    => phys[p] = ZeroPage \/ pending[p] \/ wpc[p] = "listed"

\* The claim at drainAllForShutdown: once stop() is done every page is plain
\* read-write memory.
StoppedMeansPlain ==
  life = "stopped" => \A p \in Pages : prot[p] = "RW"

\* What the application can read of page p, directly or through the handler.
Source(p) ==
  IF prot[p] = "NONE" /\ state[p] = "COMPRESSED" THEN blob[p] ELSE phys[p]

Recovered ==
  [p \in Pages |-> [s \in Slots |-> IF Holds(p, s) THEN Source(p)[s] ELSE Undef]]

Flat == INSTANCE FlatMemory WITH contents <- Recovered

\* Compression is transparent: seen through Recovered, the span behaves like
\* ordinary memory, which changes only when the store a thread has issued
\* completes or a slot is freed, whatever compressPage, Phase B, the sweep,
\* handleFault, prefetchAdjacent and the span's retirement do meanwhile.
FlatSpec == Flat!Spec

\* A worker between the start and the end of an operation on page p.
InFlight(p) == wpc[p] # "idle" /\ WorkerStep(p)

\* Scheduling: threads run, and a spinlock that is free again and again is taken.
Fairness ==
  /\ \A t \in Threads :
       /\ WF_vars(TakeFault(t))
       /\ WF_vars(CompleteAccess(t))
       /\ SF_vars(HandlerStep(t))
  /\ \A p \in Pages : SF_vars(InFlight(p))

FairSpec == Spec /\ Fairness

\* No worker takes up a page.
LeftAlone == \A p \in Pages : wpc[p] = "idle" => wpc'[p] = "idle"

\* Every load and store completes if the compressor leaves the pages alone from
\* some point on: no fault is retried for ever, no page lock is kept for ever,
\* and the handler's cases cover every state they meet.  (A page that is taken
\* up again before each retry can hold up an access; cold_count_ restarting at
\* 0 makes the compressor wait some ticks, a timing that is not modelled.)
AccessCompletes ==
  <>[][LeftAlone]_vars => \A t \in Threads : tpc[t] = "access" ~> tpc[t] = "idle"
=============================================================================
