------------------------ MODULE PageLifecycleProofs -------------------------
(***************************************************************************)
(* What holds of the life of a page whatever fails: the types, that locks  *)
(* are given back, that blobs match states, and in deferred mode that a    *)
(* page being compressed is out of everybody's reach.  Nothing is assumed: *)
(* mprotect may fail, /proc/self/mem may be missing and the process may    *)
(* shut down.                                                              *)
(*                                                                         *)
(* First the structural invariant, and that every step keeps its parts:    *)
(* who holds which page lock, what each position of a thread or a worker   *)
(* means, and what the states and blobs of pages say.                      *)
(***************************************************************************)
EXTENDS PageLifecycle, TLAPS

\* The worker steps that hold the page lock.
LockedSteps == {"decide", "snapshot", "verify", "gate", "copyBack", "compare",
                "drop", "drain"}

\* A page lock is held by the worker exactly in its locked steps, by a thread
\* only inside the handler, and a thread holds at most one.
LockInv ==
  /\ \A p \in Pages : lock[p] = Worker <=> wpc[p] \in LockedSteps
  /\ \A p \in Pages, t \in Threads : lock[p] = t =>
       /\ tpc[t] \in {"handle", "flip", "copy"}
       /\ tpc[t] = "handle" => p = acc[t].page
       /\ p \notin todo[t]
  /\ \A t \in Threads : tpc[t] = "handle" => lock[acc[t].page] = t
  /\ \A p, q \in Pages : lock[p] \in Threads /\ lock[p] = lock[q] => p = q

\* What a thread's position says of its access and its list of pages.
ThreadInv ==
  \A t \in Threads :
    /\ tpc[t] \in {"idle", "retire"} <=> acc[t] = NoAccess
    /\ tpc[t] \in {"idle", "access", "fault", "handle"} => todo[t] = {}

\* What the position of a page's worker, or of the thread restoring it, says of
\* its state, and when it has a blob.
StateInv ==
  /\ \A p \in Pages :
       /\ wpc[p] \in {"decide", "snapshot", "verify", "gate", "copyBack"} =>
            state[p] = "COMPRESSING"
       /\ wpc[p] = "compare" => state[p] = "COMPRESSED_SHADOW"
       /\ wpc[p] = "drop" => state[p] = "COMPRESSED"
       /\ wpc[p] = "drain" => state[p] \in {"COMPRESSED", "COMPRESSED_SHADOW"}
       /\ wpc[p] \in {"protRead3", "apply3", "arm", "relock"} =>
            state[p] \notin {"COMPRESSED", "COMPRESSED_SHADOW"}
  /\ \A p \in Pages, t \in Threads :
       lock[p] = t /\ tpc[t] \in {"flip", "copy"} => state[p] = "COMPRESSED"
  /\ BlobMatchesState

\* Pages are EMPTY only while the span is out of service, and one thread at most
\* is taking it out.
SpanInv ==
  /\ \A p \in Pages : state[p] = "EMPTY" => span # "inUse"
  /\ span = "empty" => \A p \in Pages : state[p] = "EMPTY"
  /\ \A t \in Threads : tpc[t] = "retire" =>
       /\ span = "retiring"
       /\ \A p \in Pages \ todo[t] : state[p] = "EMPTY"
  /\ \A t, u \in Threads : tpc[t] = "retire" /\ tpc[u] = "retire" => t = u

StructInv == TypeOK /\ LockInv /\ ThreadInv /\ StateInv /\ SpanInv

-----------------------------------------------------------------------------
(* The steps by actor: a lemma about Next has one part for each.           *)

AppStep ==
  \/ \E p \in Pages, s \in Slots : AllocSlot(p, s)
  \/ PurgeResidentEmpty
  \/ \E t \in Threads :
       \/ \E p \in Pages, s \in Slots : FreeSlot(t, p, s)
       \/ \E p \in Pages : ReleasePage(t, p)
       \/ RetireSpan(t)
       \/ \E a \in Access : BeginAccess(t, a)
       \/ CompleteAccess(t)
       \/ TakeFault(t)

FaultStep == \E t \in Threads : HandlerStep(t)

PhaseStep == \E p \in Pages : CompressStep(p)

OtherStep ==
  \/ \E p \in Pages :
       \/ MonitorPage(p) \/ CheckMonitored(p) \/ ProtectMonitored(p) \/ Escalate(p)
       \/ ClearStalePending(p) \/ SweepPage(p) \/ StartReclaim(p)
       \/ PostponeReclaim(p) \/ DiscardShadow(p) \/ ConfirmShadow(p)
       \/ DropBacking(p)
  \/ StopStep

\* Every step is a step of one of these actors.
LEMMA StepCases == Next => AppStep \/ FaultStep \/ PhaseStep \/ OtherStep
BY Zenon DEF Next, ThreadStep, WorkerStep, AppStep, FaultStep, PhaseStep, OtherStep

-----------------------------------------------------------------------------
(* Helper facts.                                                           *)

\* A thread that is accessing memory has a page, a slot and a value.
LEMMA AccessType ==
  ASSUME TypeOK, ThreadInv, NEW t \in Threads, tpc[t] \notin {"idle", "retire"}
  PROVE  /\ acc[t] \in Access
         /\ acc[t].page \in Pages
         /\ acc[t].slot \in Slots
         /\ acc[t].val \in Values \cup {Undef}
<1>1. acc[t] # NoAccess
  BY Zenon DEF ThreadInv
<1>2. acc[t] \in Access
  BY <1>1, Zenon DEF TypeOK
<1> QED
  BY <1>2, Zenon DEF Access

\* Leave gives up a lock the worker may hold, and no thread's.
LEMMA LeaveLock ==
  ASSUME TypeOK, LockInv, NEW p \in Pages, NEW st, Leave(p, st),
         lock[p] \notin Threads, UNCHANGED <<tpc, acc, todo>>
  PROVE  LockInv'
BY OwnerAssumption DEF TypeOK, LockInv, LockedSteps, Leave

-----------------------------------------------------------------------------
(* The locks of pages.                                                     *)

\* Who holds which lock, at steps of the application.
LEMMA LockApp ==
  ASSUME StructInv, AppStep PROVE LockInv'
<1> USE DEF At, Doing, pageVars, appVars, workerVars, threadVars, lifeVars
<1>0. TypeOK /\ LockInv /\ ThreadInv
  BY Zenon DEF StructInv
<1>1. ASSUME \/ \E p \in Pages, s \in Slots : AllocSlot(p, s)
             \/ PurgeResidentEmpty
      PROVE  LockInv'
  BY <1>0, <1>1, Zenon DEF LockInv, AllocSlot, PurgeResidentEmpty
<1>2. ASSUME NEW t \in Threads, NEW p \in Pages, NEW s \in Slots, FreeSlot(t, p, s)
      PROVE  LockInv'
  <2>1. lock' = lock /\ wpc' = wpc /\ acc' = acc /\ tpc[t] = "idle"
    BY <1>2, Zenon DEF FreeSlot
  <2>2. \/ tpc' = [tpc EXCEPT ![t] = "retire"] /\ todo' = [todo EXCEPT ![t] = Pages]
        \/ tpc' = tpc /\ todo' = todo
    BY <1>2, Zenon DEF FreeSlot
  <2>3. tpc \in [Threads -> ThreadSteps] /\ todo \in [Threads -> SUBSET Pages]
    BY <1>0, Zenon DEF TypeOK
  <2>4. \A q \in Pages : lock[q] # t
    BY <1>0, <2>1, Zenon DEF LockInv
  <2>5. \A u \in Threads : u # t => tpc'[u] = tpc[u] /\ todo'[u] = todo[u]
    BY <2>2, <2>3, Zenon
  <2>6. tpc'[t] # "handle"
    BY <2>1, <2>2, <2>3, Zenon
  <2> QED
    BY <1>0, <2>1, <2>4, <2>5, <2>6 DEF LockInv
<1>3. ASSUME NEW t \in Threads, NEW p \in Pages, ReleasePage(t, p)
      PROVE  LockInv'
  BY <1>0, <1>3 DEF LockInv, ReleasePage
<1>4. ASSUME NEW t \in Threads, RetireSpan(t) PROVE LockInv'
  BY <1>0, <1>4 DEF LockInv, RetireSpan
<1>5. ASSUME NEW t \in Threads, NEW a \in Access, BeginAccess(t, a)
      PROVE  LockInv'
  BY <1>0, <1>5 DEF LockInv, BeginAccess
<1>6. ASSUME NEW t \in Threads, CompleteAccess(t) PROVE LockInv'
  BY <1>0, <1>6 DEF LockInv, CompleteAccess
<1>7. ASSUME NEW t \in Threads, TakeFault(t) PROVE LockInv'
  BY <1>0, <1>7, SMT, SMTT(30) DEF LockInv, LockedSteps, TypeOK, TakeFault
<1> QED
  BY <1>1, <1>2, <1>3, <1>4, <1>5, <1>6, <1>7, Zenon
     DEF AppStep

\* Who holds which lock, at the fault handler.
LEMMA LockFault ==
  ASSUME StructInv, FaultStep PROVE LockInv'
<1> USE DEF At, Doing, pageVars, appVars, workerVars, threadVars, lifeVars
<1>0. TypeOK /\ LockInv /\ ThreadInv
  BY Zenon DEF StructInv
<1>1. ASSUME NEW t \in Threads, LockForFault(t) PROVE LockInv'
  <2>1. CASE state[acc[t].page] = "EMPTY"
    BY <1>0, <1>1, <2>1, ZenonT(40) DEF LockForFault, LockInv
  <2>2. CASE state[acc[t].page] # "EMPTY"
    <3>1. /\ tpc[t] = "fault" /\ lock[acc[t].page] = NoOne
          /\ lock' = [lock EXCEPT ![acc[t].page] = t]
          /\ tpc' = [tpc EXCEPT ![t] = "handle"]
          /\ UNCHANGED <<wpc, acc, todo>>
      BY <1>1, <2>2, Zenon DEF LockForFault
    <3>2. acc[t].page \in Pages /\ todo[t] = {} /\ \A p \in Pages : lock[p] # t
      BY <1>0, <3>1, AccessType, Zenon DEF ThreadInv, LockInv
    <3> QED
      BY <1>0, <3>1, <3>2, OwnerAssumption DEF TypeOK, LockInv
  <2> QED
    BY <2>1, <2>2, Zenon
<1>2. ASSUME NEW t \in Threads, FaultCompressed(t) PROVE LockInv'
  <2>1. /\ tpc[t] = "handle" /\ UNCHANGED <<lock, wpc, acc, todo>>
        /\ tpc' = [tpc EXCEPT ![t] = "flip"] \/ tpc' = [tpc EXCEPT ![t] = "copy"]
    BY <1>2, Zenon DEF FaultCompressed, BeginRestore
  <2> QED
    BY <1>0, <2>1 DEF TypeOK, LockInv
<1>3. ASSUME NEW t \in Threads, FaultCompressedFails(t) PROVE LockInv'
  BY <1>0, <1>3, OwnerAssumption DEF LockInv, TypeOK, FaultCompressedFails
<1>4. ASSUME NEW t \in Threads, NEW p \in Pages, FinishRestore(t, p)
       PROVE  LockInv'
  BY <1>0, <1>4, OwnerAssumption DEF LockInv, TypeOK, FinishRestore
<1>5. ASSUME NEW t \in Threads, NEW p \in Pages, PrefetchPage(t, p)
       PROVE  LockInv'
  <2>1. /\ tpc[t] = "prefetch" /\ lock[p] = NoOne /\ UNCHANGED <<wpc, acc>>
        /\ lock' = [lock EXCEPT ![p] = t]
        /\ todo' = [todo EXCEPT ![t] = @ \ {p}]
        /\ tpc' = [tpc EXCEPT ![t] = "flip"] \/ tpc' = [tpc EXCEPT ![t] = "copy"]
    BY <1>5, Zenon DEF PrefetchPage, BeginRestore
  <2>2. \A q \in Pages : lock[q] # t
    BY <1>0, <2>1, Zenon DEF LockInv
  <2> QED
    BY <1>0, <2>1, <2>2, OwnerAssumption DEF TypeOK, LockInv
<1>6. ASSUME NEW t \in Threads, NEW p \in Pages, SkipPrefetch(t, p)
       PROVE  LockInv'
  BY <1>0, <1>6 DEF LockInv, SkipPrefetch
<1>7. ASSUME NEW t \in Threads, ResumeAccess(t) PROVE LockInv'
  BY <1>0, <1>7, SMT, SMTT(30) DEF LockInv, ResumeAccess
<1>8. ASSUME NEW t \in Threads, FaultCompressing(t) PROVE LockInv'
  BY <1>0, <1>8, OwnerAssumption, SMT, SMTT(30) DEF LockInv, TypeOK, FaultCompressing
<1>9. ASSUME NEW t \in Threads, FaultResident(t) PROVE LockInv'
  BY <1>0, <1>9, OwnerAssumption, SMT, SMTT(30) DEF LockInv, TypeOK, FaultResident
<1>10. ASSUME NEW t \in Threads, FaultShadow(t) PROVE LockInv'
  BY <1>0, <1>10, OwnerAssumption DEF LockInv, TypeOK, FaultShadow
<1> QED
  BY <1>1, <1>2, <1>3, <1>4, <1>5, <1>6, <1>7, <1>8, <1>9, <1>10, Zenon
     DEF FaultStep, HandlerStep

\* Who holds which lock, at compressPage.
LEMMA LockPhase ==
  ASSUME StructInv, PhaseStep PROVE LockInv'
<1> USE DEF At, Doing, pageVars, appVars, workerVars, threadVars, lifeVars
<1>0. TypeOK /\ LockInv /\ ThreadInv
  BY Zenon DEF StructInv
<1>1. ASSUME NEW p \in Pages, StartCompress(p) PROVE LockInv'
  BY <1>0, <1>1, OwnerAssumption DEF LockInv, LockedSteps, TypeOK,
       StartCompress
<1>2. ASSUME NEW p \in Pages, RejectCompress(p) PROVE LockInv'
  BY <1>0, <1>2, OwnerAssumption DEF LockInv, LockedSteps, TypeOK,
       RejectCompress, Leave
<1>3. ASSUME NEW p \in Pages, PrepareSnapshot(p) PROVE LockInv'
  <2>1. wpc[p] = "decide" /\ lock[p] = Worker /\ UNCHANGED <<tpc, acc, todo>>
    BY <1>0, <1>3, Zenon DEF PrepareSnapshot, LockInv, LockedSteps
  <2>2. CASE lock' = lock /\ wpc' = [wpc EXCEPT ![p] = "snapshot"]
    BY <1>0, <2>1, <2>2 DEF LockInv, LockedSteps
  <2>3. CASE lock' = [lock EXCEPT ![p] = NoOne] /\ wpc' = [wpc EXCEPT ![p] = "arm"]
    BY <1>0, <2>1, <2>3, OwnerAssumption DEF TypeOK, LockInv, LockedSteps
  <2> QED
    BY <1>3, <2>2, <2>3, Zenon DEF PrepareSnapshot
<1>4. ASSUME NEW p \in Pages, ArmReadOnly(p) PROVE LockInv'
  BY <1>0, <1>4 DEF LockInv, LockedSteps, ArmReadOnly
<1>5. ASSUME NEW p \in Pages, Relock(p) PROVE LockInv'
  <2>1. lock[p] = NoOne /\ wpc[p] = "relock" /\ UNCHANGED <<tpc, acc, todo>>
    BY <1>5, Zenon DEF Relock
  <2>2. CASE state[p] = "COMPRESSING"
    <3>1. lock' = [lock EXCEPT ![p] = Worker] /\ wpc' = [wpc EXCEPT ![p] = "snapshot"]
      BY <1>5, <2>2, Zenon DEF Relock
    <3> QED
      BY <1>0, <2>1, <3>1, OwnerAssumption DEF TypeOK, LockInv, LockedSteps
  <2>3. CASE state[p] # "COMPRESSING"
    BY <1>0, <1>5, <2>1, <2>3, LeaveLock, OwnerAssumption, Zenon DEF Relock
  <2> QED
    BY <2>2, <2>3, Zenon
<1>6. ASSUME NEW p \in Pages, Snapshot(p) PROVE LockInv'
  BY <1>0, <1>6, ZenonT(40) DEF LockInv, LockedSteps, TypeOK, Snapshot
<1>7. ASSUME NEW p \in Pages, VerifyFails(p) PROVE LockInv'
  BY <1>0, <1>7, OwnerAssumption DEF LockInv, LockedSteps, TypeOK, VerifyFails,
       Leave
<1>8. ASSUME NEW p \in Pages, VerifyPasses(p) PROVE LockInv'
  BY <1>0, <1>8 DEF LockInv, LockedSteps, VerifyPasses
<1>9. ASSUME NEW p \in Pages, GateFails(p) PROVE LockInv'
  <2>1. wpc[p] = "gate" /\ lock[p] = Worker /\ UNCHANGED <<tpc, acc, todo>>
    BY <1>0, <1>9, Zenon DEF GateFails, LockInv, LockedSteps
  <2>2. Leave(p, "ACTIVE") \/ (lock' = lock /\ wpc' = [wpc EXCEPT ![p] = "copyBack"])
    BY <1>9, Zenon DEF GateFails
  <2>3. CASE Leave(p, "ACTIVE")
    BY <1>0, <2>1, <2>3, LeaveLock, OwnerAssumption, Zenon
  <2>4. CASE lock' = lock /\ wpc' = [wpc EXCEPT ![p] = "copyBack"]
    BY <1>0, <2>1, <2>4 DEF LockInv, LockedSteps
  <2> QED
    BY <2>2, <2>3, <2>4, Zenon
<1>10. ASSUME NEW p \in Pages, CopyBack(p) PROVE LockInv'
  <2>1. lock[p] = Worker /\ UNCHANGED <<tpc, acc, todo>>
    BY <1>0, <1>10, Zenon DEF CopyBack, LockInv, LockedSteps
  <2>2. Leave(p, "ACTIVE") \/ UNCHANGED <<lock, wpc>>
    BY <1>10, Zenon DEF CopyBack
  <2>3. CASE Leave(p, "ACTIVE")
    BY <1>0, <2>1, <2>3, LeaveLock, OwnerAssumption, Zenon
  <2>4. CASE UNCHANGED <<lock, wpc>>
    BY <1>0, <2>1, <2>4, Zenon DEF LockInv
  <2> QED
    BY <2>2, <2>3, <2>4, Zenon
<1>11. ASSUME NEW p \in Pages, CommitBlob(p) PROVE LockInv'
  BY <1>0, <1>11, OwnerAssumption, SMT, SMTT(30) DEF LockInv, LockedSteps, TypeOK, CommitBlob
<1>12. ASSUME NEW p \in Pages, FlushPending(p) PROVE LockInv'
  BY <1>0, <1>12 DEF LockInv, LockedSteps, FlushPending
<1> QED
  BY <1>1, <1>2, <1>3, <1>4, <1>5, <1>6, <1>7, <1>8, <1>9, <1>10, <1>11, <1>12, Zenon
     DEF PhaseStep, CompressStep

\* Who holds which lock, at the other work of the compressor, and the shutdown.
LEMMA LockOther ==
  ASSUME StructInv, OtherStep PROVE LockInv'
<1> USE DEF At, Doing, pageVars, appVars, workerVars, threadVars, lifeVars
<1>0. TypeOK /\ LockInv /\ ThreadInv
  BY Zenon DEF StructInv
<1>1. ASSUME \/ \E p \in Pages : Escalate(p) \/ ClearStalePending(p)
             \/ \E p \in Pages : DrainOther(p)
             \/ StopCompressor
             \/ UninstallHandler
      PROVE  LockInv'
  BY <1>0, <1>1, ZenonT(40) DEF LockInv, Escalate, ClearStalePending,
     StopCompressor, DrainOther, UninstallHandler
<1>2. ASSUME NEW p \in Pages, MonitorPage(p) PROVE LockInv'
  BY <1>0, <1>2, OwnerAssumption DEF LockInv, LockedSteps, MonitorPage, Turn
<1>3. ASSUME NEW p \in Pages, CheckMonitored(p) PROVE LockInv'
  BY <1>0, <1>3, OwnerAssumption DEF LockInv, LockedSteps, TypeOK,
       CheckMonitored
<1>4. ASSUME NEW p \in Pages, ProtectMonitored(p) PROVE LockInv'
  BY <1>0, <1>4 DEF LockInv, LockedSteps, ProtectMonitored
<1>5. ASSUME NEW p \in Pages, SweepPage(p) PROVE LockInv'
  BY <1>0, <1>5, OwnerAssumption, SMT, SMTT(30) DEF LockInv, LockedSteps, TypeOK, SweepPage
<1>6. ASSUME NEW p \in Pages, StartReclaim(p) PROVE LockInv'
  BY <1>0, <1>6, OwnerAssumption, SMT, SMTT(30) DEF LockInv, LockedSteps, TypeOK, StartReclaim
<1>7. ASSUME NEW p \in Pages, PostponeReclaim(p) PROVE LockInv'
  BY <1>0, <1>7, OwnerAssumption, SMT, SMTT(30) DEF LockInv, LockedSteps, TypeOK,
       PostponeReclaim, Leave
<1>8. ASSUME NEW p \in Pages, DiscardShadow(p) PROVE LockInv'
  BY <1>0, <1>8, OwnerAssumption, SMT, SMTT(30) DEF LockInv, LockedSteps, TypeOK,
       DiscardShadow, Leave
<1>9. ASSUME NEW p \in Pages, ConfirmShadow(p) PROVE LockInv'
  BY <1>0, <1>9, SMT, SMTT(30) DEF LockInv, LockedSteps, ConfirmShadow
<1>10. ASSUME NEW p \in Pages, DropBacking(p) PROVE LockInv'
  BY <1>0, <1>10, OwnerAssumption, SMT, SMTT(30) DEF LockInv, LockedSteps, TypeOK,
       DropBacking, Leave
<1>11. ASSUME NEW p \in Pages, DrainRestore(p) PROVE LockInv'
  BY <1>0, <1>11, OwnerAssumption DEF LockInv, LockedSteps, TypeOK,
       DrainRestore
<1>12. ASSUME NEW p \in Pages, DrainFinish(p) PROVE LockInv'
  <2>1. lock[p] = Worker /\ UNCHANGED <<tpc, acc, todo>>
    BY <1>0, <1>12, Zenon DEF DrainFinish, LockInv, LockedSteps
  <2>2. Leave(p, "ACTIVE") \/ Leave(p, state[p])
    BY <1>12, Zenon DEF DrainFinish
  <2> QED
    BY <1>0, <2>1, <2>2, LeaveLock, OwnerAssumption, Zenon
<1> QED
  BY <1>1, <1>2, <1>3, <1>4, <1>5, <1>6, <1>7, <1>8, <1>9, <1>10, <1>11, <1>12, Zenon
     DEF OtherStep, StopStep

\* Every step keeps the lock discipline.
LEMMA LockStep ==
  ASSUME StructInv, [Next]_vars PROVE LockInv'
<1> USE DEF At, Doing, pageVars, appVars, workerVars, threadVars, lifeVars
<1>0. TypeOK /\ LockInv /\ ThreadInv
  BY Zenon DEF StructInv
<1>1. CASE UNCHANGED vars
  BY <1>0, <1>1, Zenon DEF vars, LockInv
<1> QED
  BY <1>1, LockApp, LockFault, LockPhase, LockOther, StepCases, Zenon

-----------------------------------------------------------------------------
(* The positions of threads.                                               *)

\* What the position of a thread says, at steps of the application.
LEMMA ThreadApp ==
  ASSUME StructInv, AppStep PROVE ThreadInv'
<1> USE DEF At, Doing, pageVars, appVars, workerVars, threadVars, lifeVars
<1>0. TypeOK /\ LockInv /\ ThreadInv
  BY Zenon DEF StructInv
<1>1. ASSUME \/ \E p \in Pages, s \in Slots : AllocSlot(p, s)
             \/ PurgeResidentEmpty
      PROVE  ThreadInv'
  BY <1>0, <1>1, Zenon DEF ThreadInv, AllocSlot, PurgeResidentEmpty
<1>2. ASSUME NEW t \in Threads, NEW p \in Pages, NEW s \in Slots, FreeSlot(t, p, s)
      PROVE  ThreadInv'
  BY <1>0, <1>2, ZenonT(40) DEF ThreadInv, TypeOK, FreeSlot
<1>3. ASSUME NEW t \in Threads, NEW p \in Pages, ReleasePage(t, p)
      PROVE  ThreadInv'
  BY <1>0, <1>3 DEF ThreadInv, ReleasePage
<1>4. ASSUME NEW t \in Threads, RetireSpan(t) PROVE ThreadInv'
  BY <1>0, <1>4 DEF ThreadInv, RetireSpan
<1>5. ASSUME NEW t \in Threads, NEW a \in Access, BeginAccess(t, a)
      PROVE  ThreadInv'
  BY <1>0, <1>5, AccessAssumption, Zenon DEF ThreadInv, TypeOK, BeginAccess
<1>6. ASSUME NEW t \in Threads, CompleteAccess(t) PROVE ThreadInv'
  BY <1>0, <1>6, Zenon DEF ThreadInv, TypeOK, CompleteAccess
<1>7. ASSUME NEW t \in Threads, TakeFault(t) PROVE ThreadInv'
  BY <1>0, <1>7, Zenon DEF ThreadInv, TypeOK, TakeFault
<1> QED
  BY <1>1, <1>2, <1>3, <1>4, <1>5, <1>6, <1>7, Zenon
     DEF AppStep

\* What the position of a thread says, at the fault handler.
LEMMA ThreadFault ==
  ASSUME StructInv, FaultStep PROVE ThreadInv'
<1> USE DEF At, Doing, pageVars, appVars, workerVars, threadVars, lifeVars
<1>0. TypeOK /\ LockInv /\ ThreadInv
  BY Zenon DEF StructInv
<1>1. ASSUME NEW t \in Threads, LockForFault(t) PROVE ThreadInv'
  BY <1>0, <1>1, ZenonT(40) DEF ThreadInv, TypeOK, LockForFault
<1>2. ASSUME NEW t \in Threads, FaultCompressed(t) PROVE ThreadInv'
  BY <1>0, <1>2, SMT, SMTT(30) DEF ThreadInv, TypeOK, FaultCompressed, BeginRestore
<1>3. ASSUME NEW t \in Threads, FaultCompressedFails(t) PROVE ThreadInv'
  BY <1>0, <1>3 DEF ThreadInv, FaultCompressedFails
<1>4. ASSUME NEW t \in Threads, NEW p \in Pages, FinishRestore(t, p)
       PROVE  ThreadInv'
  BY <1>0, <1>4 DEF ThreadInv, FinishRestore
<1>5. ASSUME NEW t \in Threads, NEW p \in Pages, PrefetchPage(t, p)
       PROVE  ThreadInv'
  BY <1>0, <1>5 DEF ThreadInv, TypeOK, PrefetchPage, BeginRestore
<1>6. ASSUME NEW t \in Threads, NEW p \in Pages, SkipPrefetch(t, p)
       PROVE  ThreadInv'
  BY <1>0, <1>6, SMT, SMTT(30) DEF ThreadInv, SkipPrefetch
<1>7. ASSUME NEW t \in Threads, ResumeAccess(t) PROVE ThreadInv'
  BY <1>0, <1>7, SMT, SMTT(30) DEF ThreadInv, ResumeAccess
<1>8. ASSUME NEW t \in Threads, FaultCompressing(t) PROVE ThreadInv'
  BY <1>0, <1>8, SMT, SMTT(30) DEF ThreadInv, FaultCompressing
<1>9. ASSUME NEW t \in Threads, FaultResident(t) PROVE ThreadInv'
  BY <1>0, <1>9, SMT, SMTT(30) DEF ThreadInv, FaultResident
<1>10. ASSUME NEW t \in Threads, FaultShadow(t) PROVE ThreadInv'
  BY <1>0, <1>10 DEF ThreadInv, FaultShadow
<1> QED
  BY <1>1, <1>2, <1>3, <1>4, <1>5, <1>6, <1>7, <1>8, <1>9, <1>10, Zenon
     DEF FaultStep, HandlerStep

\* What the position of a thread says, at compressPage.
LEMMA ThreadPhase ==
  ASSUME StructInv, PhaseStep PROVE ThreadInv'
<1> USE DEF At, Doing, pageVars, appVars, workerVars, threadVars, lifeVars
<1>0. TypeOK /\ LockInv /\ ThreadInv
  BY Zenon DEF StructInv
<1>1. ASSUME \/ \E p \in Pages : StartCompress(p) \/ RejectCompress(p)
             \/ \E p \in Pages : PrepareSnapshot(p) \/ ArmReadOnly(p)
             \/ \E p \in Pages : Relock(p) \/ Snapshot(p) \/ VerifyFails(p)
             \/ \E p \in Pages : VerifyPasses(p) \/ GateFails(p)
             \/ \E p \in Pages : CopyBack(p) \/ CommitBlob(p)
             \/ \E p \in Pages : FlushPending(p)
      PROVE  ThreadInv'
  BY <1>0, <1>1, Zenon DEF ThreadInv, StartCompress, RejectCompress,
     PrepareSnapshot, ArmReadOnly, Relock, Snapshot, VerifyFails,
     VerifyPasses, GateFails, CopyBack, CommitBlob, FlushPending
<1> QED
  BY <1>1, Zenon
     DEF PhaseStep, CompressStep

\* What the position of a thread says, at the other work of the compressor, and the shutdown.
LEMMA ThreadOther ==
  ASSUME StructInv, OtherStep PROVE ThreadInv'
<1> USE DEF At, Doing, pageVars, appVars, workerVars, threadVars, lifeVars
<1>0. TypeOK /\ LockInv /\ ThreadInv
  BY Zenon DEF StructInv
<1>1. ASSUME \/ \E p \in Pages : MonitorPage(p) \/ CheckMonitored(p)
             \/ \E p \in Pages : ProtectMonitored(p) \/ Escalate(p)
             \/ \E p \in Pages : ClearStalePending(p) \/ SweepPage(p)
             \/ \E p \in Pages : StartReclaim(p) \/ PostponeReclaim(p)
             \/ \E p \in Pages : DiscardShadow(p) \/ ConfirmShadow(p)
             \/ \E p \in Pages : DropBacking(p) \/ DrainRestore(p)
             \/ \E p \in Pages : DrainFinish(p) \/ DrainOther(p)
             \/ StopCompressor
             \/ UninstallHandler
      PROVE  ThreadInv'
  BY <1>0, <1>1, Zenon DEF ThreadInv, MonitorPage, CheckMonitored,
     ProtectMonitored, Escalate, ClearStalePending, SweepPage, StartReclaim,
     PostponeReclaim, DiscardShadow, ConfirmShadow, DropBacking,
     StopCompressor, DrainRestore, DrainFinish, DrainOther, UninstallHandler
<1> QED
  BY <1>1, Zenon
     DEF OtherStep, StopStep

\* Every step keeps the threads' accesses and page lists in order.
LEMMA ThreadInvStep ==
  ASSUME StructInv, [Next]_vars PROVE ThreadInv'
<1> USE DEF At, Doing, pageVars, appVars, workerVars, threadVars, lifeVars
<1>0. TypeOK /\ LockInv /\ ThreadInv
  BY Zenon DEF StructInv
<1>1. CASE UNCHANGED vars
  BY <1>0, <1>1, Zenon DEF vars, ThreadInv
<1> QED
  BY <1>1, ThreadApp, ThreadFault, ThreadPhase, ThreadOther, StepCases, Zenon

-----------------------------------------------------------------------------
(* The states of pages.                                                    *)

\* What the states of pages say, at steps of the application.
LEMMA StateApp ==
  ASSUME StructInv, AppStep PROVE StateInv'
<1> USE DEF At, Doing, pageVars, appVars, workerVars, threadVars, lifeVars
<1>0. TypeOK /\ LockInv /\ ThreadInv /\ StateInv /\ SpanInv
  BY Zenon DEF StructInv
<1>1. ASSUME NEW p \in Pages, NEW s \in Slots, AllocSlot(p, s) PROVE StateInv'
  <2>1. CASE span = "empty"
    <3>1. \A q \in Pages : state[q] = "EMPTY" /\ state'[q] = "ACTIVE"
      BY <1>0, <1>1, <2>1, Zenon DEF AllocSlot, SpanInv
    <3>2. UNCHANGED <<lock, blob, wpc, tpc>>
      BY <1>1, Zenon DEF AllocSlot
    <3> QED
      BY <1>0, <3>1, <3>2, Zenon DEF StateInv, BlobMatchesState
  <2>2. CASE span # "empty"
    BY <1>0, <1>1, <2>2, Zenon DEF AllocSlot, StateInv, BlobMatchesState
  <2> QED
    BY <2>1, <2>2, Zenon
<1>2. ASSUME PurgeResidentEmpty PROVE StateInv'
  BY <1>0, <1>2, Zenon DEF StateInv, BlobMatchesState, PurgeResidentEmpty
<1>3. ASSUME NEW t \in Threads, NEW p \in Pages, NEW s \in Slots, FreeSlot(t, p, s)
      PROVE  StateInv'
  BY <1>0, <1>3, ZenonT(40) DEF StateInv, BlobMatchesState, TypeOK, FreeSlot
<1>4. ASSUME NEW t \in Threads, NEW p \in Pages, ReleasePage(t, p)
      PROVE  StateInv'
  BY <1>0, <1>4, OwnerAssumption, SMT, SMTT(30) DEF StateInv, BlobMatchesState, TypeOK,
       LockInv, LockedSteps, ReleasePage
<1>5. ASSUME NEW t \in Threads, RetireSpan(t) PROVE StateInv'
  BY <1>0, <1>5, SMT, SMTT(30) DEF StateInv, BlobMatchesState, RetireSpan
<1>6. ASSUME NEW t \in Threads, NEW a \in Access, BeginAccess(t, a)
      PROVE  StateInv'
  BY <1>0, <1>6, SMT, SMTT(30) DEF StateInv, BlobMatchesState, BeginAccess
<1>7. ASSUME NEW t \in Threads, CompleteAccess(t) PROVE StateInv'
  BY <1>0, <1>7, SMT, SMTT(30) DEF StateInv, BlobMatchesState, CompleteAccess
<1>8. ASSUME NEW t \in Threads, TakeFault(t) PROVE StateInv'
  BY <1>0, <1>8, ZenonT(40) DEF StateInv, BlobMatchesState, TypeOK, TakeFault
<1> QED
  BY <1>1, <1>2, <1>3, <1>4, <1>5, <1>6, <1>7, <1>8, Zenon
     DEF AppStep

\* What the states of pages say, at the fault handler.
LEMMA StateFault ==
  ASSUME StructInv, FaultStep PROVE StateInv'
<1> USE DEF At, Doing, pageVars, appVars, workerVars, threadVars, lifeVars
<1>0. TypeOK /\ LockInv /\ ThreadInv /\ StateInv /\ SpanInv
  BY Zenon DEF StructInv
<1>1. ASSUME NEW t \in Threads, LockForFault(t) PROVE StateInv'
  <2>1. UNCHANGED <<state, blob, wpc>> /\ tpc[t] = "fault"
    BY <1>1, Zenon DEF LockForFault
  <2>2. CASE UNCHANGED <<lock, tpc>>
    BY <1>0, <2>1, <2>2, Zenon DEF StateInv, BlobMatchesState
  <2>3. CASE lock' = [lock EXCEPT ![acc[t].page] = t] /\ tpc' = [tpc EXCEPT ![t] = "handle"]
    <3>1. acc[t].page \in Pages
      BY <1>0, <2>1, AccessType, ZenonT(40)
    <3> QED
      BY <1>0, <2>1, <2>3, <3>1 DEF StateInv, BlobMatchesState
  <2> QED
    BY <1>1, <2>2, <2>3, Zenon DEF LockForFault
<1>2. ASSUME NEW t \in Threads, FaultCompressed(t) PROVE StateInv'
  BY <1>0, <1>2, SMT, SMTT(30) DEF StateInv, BlobMatchesState, TypeOK, LockInv,
       FaultCompressed, BeginRestore
<1>3. ASSUME NEW t \in Threads, FaultCompressedFails(t) PROVE StateInv'
  BY <1>0, <1>3, SMT, SMTT(30) DEF StateInv, BlobMatchesState, FaultCompressedFails
<1>4. ASSUME NEW t \in Threads, NEW p \in Pages, FinishRestore(t, p)
       PROVE  StateInv'
  BY <1>0, <1>4, OwnerAssumption, SMT, SMTT(30) DEF StateInv, BlobMatchesState, TypeOK,
       LockInv, LockedSteps, FinishRestore
<1>5. ASSUME NEW t \in Threads, NEW p \in Pages, PrefetchPage(t, p)
       PROVE  StateInv'
  BY <1>0, <1>5 DEF StateInv, BlobMatchesState, TypeOK, LockInv, PrefetchPage,
       BeginRestore
<1>6. ASSUME NEW t \in Threads, NEW p \in Pages, SkipPrefetch(t, p)
       PROVE  StateInv'
  BY <1>0, <1>6, Zenon DEF StateInv, BlobMatchesState, SkipPrefetch
<1>7. ASSUME NEW t \in Threads, ResumeAccess(t) PROVE StateInv'
  BY <1>0, <1>7, SMT, SMTT(30) DEF StateInv, BlobMatchesState, ResumeAccess
<1>8. ASSUME NEW t \in Threads, FaultCompressing(t) PROVE StateInv'
  BY <1>0, <1>8, OwnerAssumption, SMT, SMTT(30) DEF StateInv, BlobMatchesState, LockInv,
       LockedSteps, FaultCompressing
<1>9. ASSUME NEW t \in Threads, FaultResident(t) PROVE StateInv'
  BY <1>0, <1>9, OwnerAssumption, SMT, SMTT(30) DEF StateInv, BlobMatchesState, FaultResident
<1>10. ASSUME NEW t \in Threads, FaultShadow(t) PROVE StateInv'
  BY <1>0, <1>10, OwnerAssumption, SMT, SMTT(30) DEF StateInv, BlobMatchesState, TypeOK,
       LockInv, LockedSteps, FaultShadow
<1> QED
  BY <1>1, <1>2, <1>3, <1>4, <1>5, <1>6, <1>7, <1>8, <1>9, <1>10, Zenon
     DEF FaultStep, HandlerStep

\* What the states of pages say, at compressPage.
LEMMA StatePhase ==
  ASSUME StructInv, PhaseStep PROVE StateInv'
<1> USE DEF At, Doing, pageVars, appVars, workerVars, threadVars, lifeVars
<1>0. TypeOK /\ LockInv /\ ThreadInv /\ StateInv /\ SpanInv
  BY Zenon DEF StructInv
<1>1. ASSUME NEW p \in Pages, StartCompress(p) PROVE StateInv'
  <2>1. /\ lock[p] = NoOne /\ state[p] \in {"ACTIVE", "ACTIVE_MONITORING"}
        /\ lock' = [lock EXCEPT ![p] = Worker]
        /\ state' = [state EXCEPT ![p] = "COMPRESSING"]
        /\ wpc' = [wpc EXCEPT ![p] = "decide"]
        /\ blob' = blob /\ tpc' = tpc
    BY <1>1, Zenon DEF StartCompress
  <2>2. /\ lock'[p] = Worker /\ state'[p] = "COMPRESSING" /\ wpc'[p] = "decide"
        /\ \A q \in Pages \ {p} :
             lock'[q] = lock[q] /\ state'[q] = state[q] /\ wpc'[q] = wpc[q]
    BY <1>0, <2>1, Zenon DEF TypeOK
  <2>3. blob[p] = NoBlob /\ BlobMatchesState'
    BY <1>0, <2>1, <2>2, Zenon DEF StateInv, BlobMatchesState
  <2>4. \A t \in Threads : Worker # t
    BY OwnerAssumption, Zenon
  <2> QED
    BY <1>0, <2>1, <2>2, <2>3, <2>4 DEF StateInv
<1>2. ASSUME NEW p \in Pages, RejectCompress(p) PROVE StateInv'
  BY <1>0, <1>2, OwnerAssumption, ZenonT(40) DEF StateInv, BlobMatchesState, TypeOK,
       RejectCompress, Leave
<1>3. ASSUME NEW p \in Pages, PrepareSnapshot(p) PROVE StateInv'
  <2>1. /\ wpc[p] = "decide" /\ state' = state /\ blob' = blob /\ tpc' = tpc
        /\ \/ lock' = lock /\ wpc' = [wpc EXCEPT ![p] = "snapshot"]
           \/ /\ lock' = [lock EXCEPT ![p] = NoOne]
              /\ wpc' = [wpc EXCEPT ![p] = "arm"]
    BY <1>3, Zenon DEF PrepareSnapshot
  <2>2. /\ wpc'[p] \in {"snapshot", "arm"} /\ lock'[p] \in {lock[p], NoOne}
        /\ \A q \in Pages \ {p} : lock'[q] = lock[q] /\ wpc'[q] = wpc[q]
    BY <1>0, <2>1, ZenonT(40) DEF TypeOK
  <2>3. state[p] = "COMPRESSING" /\ BlobMatchesState'
    BY <1>0, <2>1, Zenon DEF StateInv, BlobMatchesState
  <2>4. \A t \in Threads : NoOne # t
    BY OwnerAssumption, Zenon
  <2> QED
    BY <1>0, <2>1, <2>2, <2>3, <2>4 DEF StateInv
<1>4. ASSUME NEW p \in Pages, ArmReadOnly(p) PROVE StateInv'
  BY <1>0, <1>4 DEF StateInv, BlobMatchesState, ArmReadOnly
<1>5. ASSUME NEW p \in Pages, Relock(p) PROVE StateInv'
  <2>1. wpc[p] = "relock" /\ lock[p] = NoOne /\ UNCHANGED <<blob, tpc>> /\ state' = state
    BY <1>0, <1>5, ZenonT(40) DEF Relock, Leave, TypeOK
  <2>2. \/ /\ state[p] = "COMPRESSING" /\ wpc' = [wpc EXCEPT ![p] = "snapshot"]
           /\ lock' = [lock EXCEPT ![p] = Worker]
        \/ wpc' = [wpc EXCEPT ![p] = "idle"] /\ lock' = [lock EXCEPT ![p] = NoOne]
    BY <1>5, Zenon DEF Relock, Leave
  <2>3. CASE /\ state[p] = "COMPRESSING" /\ wpc' = [wpc EXCEPT ![p] = "snapshot"]
             /\ lock' = [lock EXCEPT ![p] = Worker]
    BY <1>0, <2>1, <2>3, OwnerAssumption, SMT, SMTT(30) DEF StateInv, BlobMatchesState
  <2>4. CASE wpc' = [wpc EXCEPT ![p] = "idle"] /\ lock' = [lock EXCEPT ![p] = NoOne]
    BY <1>0, <2>1, <2>4, OwnerAssumption, SMT, SMTT(30) DEF StateInv, BlobMatchesState
  <2> QED
    BY <2>2, <2>3, <2>4, Zenon
<1>6. ASSUME NEW p \in Pages, Snapshot(p) PROVE StateInv'
  BY <1>0, <1>6, SMT, SMTT(30) DEF StateInv, BlobMatchesState, TypeOK, Snapshot
<1>7. ASSUME NEW p \in Pages, VerifyFails(p) PROVE StateInv'
  BY <1>0, <1>7, OwnerAssumption, ZenonT(40) DEF StateInv, BlobMatchesState, TypeOK,
       VerifyFails, Leave
<1>8. ASSUME NEW p \in Pages, VerifyPasses(p) PROVE StateInv'
  BY <1>0, <1>8 DEF StateInv, BlobMatchesState, VerifyPasses
<1>9. ASSUME NEW p \in Pages, GateFails(p) PROVE StateInv'
  <2>1. wpc[p] = "gate" /\ UNCHANGED <<blob, tpc>>
    BY <1>9, Zenon DEF GateFails
  <2>2. CASE /\ state' = [state EXCEPT ![p] = "ACTIVE"] /\ wpc' = [wpc EXCEPT ![p] = "idle"]
             /\ lock' = [lock EXCEPT ![p] = NoOne]
    BY <1>0, <2>1, <2>2, OwnerAssumption, ZenonT(40) DEF TypeOK, StateInv, BlobMatchesState
  <2>3. CASE wpc' = [wpc EXCEPT ![p] = "copyBack"] /\ UNCHANGED <<state, lock>>
    BY <1>0, <2>1, <2>3 DEF StateInv, BlobMatchesState
  <2> QED
    BY <1>9, <2>2, <2>3, Zenon DEF GateFails, Leave
<1>10. ASSUME NEW p \in Pages, CopyBack(p) PROVE StateInv'
  <2>1. wpc[p] = "copyBack" /\ UNCHANGED <<blob, tpc>>
    BY <1>10, Zenon DEF CopyBack
  <2>2. CASE /\ state' = [state EXCEPT ![p] = "ACTIVE"] /\ wpc' = [wpc EXCEPT ![p] = "idle"]
             /\ lock' = [lock EXCEPT ![p] = NoOne]
    BY <1>0, <2>1, <2>2, OwnerAssumption, ZenonT(40) DEF TypeOK, StateInv, BlobMatchesState
  <2>3. CASE UNCHANGED <<state, lock, wpc>>
    BY <1>0, <2>1, <2>3, Zenon DEF StateInv, BlobMatchesState
  <2> QED
    BY <1>10, <2>2, <2>3, Zenon DEF CopyBack, Leave
<1>11. ASSUME NEW p \in Pages, CommitBlob(p) PROVE StateInv'
  <2>1. /\ wpc[p] = "gate" /\ UNCHANGED tpc
        /\ blob' = [blob EXCEPT ![p] = buf[p]] /\ buf[p] # NoBlob
        /\ lock' = [lock EXCEPT ![p] = NoOne]
    BY <1>0, <1>11, BlobAssumption DEF CommitBlob, TypeOK
  <2>2. /\ state' = [state EXCEPT ![p] = IF Deferred THEN "COMPRESSED_SHADOW" ELSE "COMPRESSED"]
        /\ wpc' = [wpc EXCEPT ![p] = IF Deferred THEN "idle" ELSE "listed"]
    BY <1>11, Zenon DEF CommitBlob
  <2>3. CASE Deferred
    BY <1>0, <2>1, <2>2, <2>3, OwnerAssumption, ZenonT(40) DEF TypeOK, StateInv,
         BlobMatchesState
  <2>4. CASE ~Deferred
    BY <1>0, <2>1, <2>2, <2>4, OwnerAssumption, ZenonT(40) DEF TypeOK, StateInv,
         BlobMatchesState
  <2> QED
    BY <2>3, <2>4, Zenon
<1>12. ASSUME NEW p \in Pages, FlushPending(p) PROVE StateInv'
  BY <1>0, <1>12 DEF StateInv, BlobMatchesState, FlushPending
<1> QED
  BY <1>1, <1>2, <1>3, <1>4, <1>5, <1>6, <1>7, <1>8, <1>9, <1>10, <1>11, <1>12, Zenon
     DEF PhaseStep, CompressStep

\* What the states of pages say, at the other work of the compressor, and the shutdown.
LEMMA StateOther ==
  ASSUME StructInv, OtherStep PROVE StateInv'
<1> USE DEF At, Doing, pageVars, appVars, workerVars, threadVars, lifeVars
<1>0. TypeOK /\ LockInv /\ ThreadInv /\ StateInv /\ SpanInv
  BY Zenon DEF StructInv
<1>1. ASSUME \/ \E p \in Pages : Escalate(p) \/ ClearStalePending(p)
             \/ StopCompressor
             \/ UninstallHandler
      PROVE  StateInv'
  BY <1>0, <1>1, ZenonT(40) DEF StateInv, BlobMatchesState, Escalate,
       ClearStalePending, StopCompressor, UninstallHandler
<1>2. ASSUME NEW p \in Pages, MonitorPage(p) PROVE StateInv'
  BY <1>0, <1>2 DEF StateInv, BlobMatchesState, MonitorPage
<1>3. ASSUME NEW p \in Pages, CheckMonitored(p) PROVE StateInv'
  <2>1. wpc[p] = "protRead3" /\ UNCHANGED <<lock, blob, tpc>>
    BY <1>3, ZenonT(40) DEF CheckMonitored
  <2>2. CASE wpc' = [wpc EXCEPT ![p] = "apply3"] /\ state' = state
    BY <1>0, <2>1, <2>2 DEF StateInv, BlobMatchesState
  <2>3. CASE wpc' = [wpc EXCEPT ![p] = "idle"] /\ state' = state
    BY <1>0, <2>1, <2>3, SMT, SMTT(30) DEF StateInv, BlobMatchesState
  <2>4. CASE /\ wpc' = [wpc EXCEPT ![p] = "idle"] /\ state[p] = "ACTIVE_MONITORING"
             /\ state' = [state EXCEPT ![p] = "ACTIVE"]
    BY <1>0, <2>1, <2>4, SMT, SMTT(30) DEF StateInv, BlobMatchesState
  <2> QED
    BY <1>3, <2>2, <2>3, <2>4, Zenon DEF CheckMonitored
<1>4. ASSUME NEW p \in Pages, ProtectMonitored(p) PROVE StateInv'
  BY <1>0, <1>4, SMT, SMTT(30) DEF StateInv, BlobMatchesState, TypeOK, ProtectMonitored
<1>5. ASSUME NEW p \in Pages, SweepPage(p) PROVE StateInv'
  BY <1>0, <1>5 DEF StateInv, BlobMatchesState, SweepPage
<1>6. ASSUME NEW p \in Pages, StartReclaim(p) PROVE StateInv'
  BY <1>0, <1>6, OwnerAssumption DEF StateInv, BlobMatchesState, StartReclaim
<1>7. ASSUME NEW p \in Pages, PostponeReclaim(p) PROVE StateInv'
  BY <1>0, <1>7, OwnerAssumption, SMT, SMTT(30) DEF StateInv, BlobMatchesState,
       PostponeReclaim, Leave
<1>8. ASSUME NEW p \in Pages, DiscardShadow(p) PROVE StateInv'
  BY <1>0, <1>8, OwnerAssumption, ZenonT(40) DEF StateInv, BlobMatchesState, TypeOK,
       DiscardShadow, Leave
<1>9. ASSUME NEW p \in Pages, ConfirmShadow(p) PROVE StateInv'
  BY <1>0, <1>9, ZenonT(40) DEF StateInv, BlobMatchesState, TypeOK, ConfirmShadow
<1>10. ASSUME NEW p \in Pages, DropBacking(p) PROVE StateInv'
  BY <1>0, <1>10 DEF StateInv, BlobMatchesState, DropBacking, Leave
<1>11. ASSUME NEW p \in Pages, DrainRestore(p) PROVE StateInv'
  BY <1>0, <1>11, OwnerAssumption DEF StateInv, BlobMatchesState, DrainRestore
<1>12. ASSUME NEW p \in Pages, DrainFinish(p) PROVE StateInv'
  <2>1. wpc[p] = "drain" /\ UNCHANGED tpc /\ wpc' = [wpc EXCEPT ![p] = "idle"] /\ lock' = [lock EXCEPT ![p] = NoOne]
    BY <1>12, Zenon DEF DrainFinish, Leave
  <2>2. \/ state' = [state EXCEPT ![p] = "ACTIVE"] /\ blob' = [blob EXCEPT ![p] = NoBlob]
        \/ state' = state /\ blob' = blob
    BY <1>0, <1>12 DEF DrainFinish, Leave, TypeOK
  <2>3. CASE state' = [state EXCEPT ![p] = "ACTIVE"] /\ blob' = [blob EXCEPT ![p] = NoBlob]
    BY <1>0, <2>1, <2>3, OwnerAssumption, ZenonT(40) DEF TypeOK, StateInv, BlobMatchesState
  <2>4. CASE state' = state /\ blob' = blob
    BY <1>0, <2>1, <2>4, OwnerAssumption, SMT, SMTT(30) DEF StateInv, BlobMatchesState
  <2> QED
    BY <2>2, <2>3, <2>4, Zenon
<1>13. ASSUME NEW p \in Pages, DrainOther(p) PROVE StateInv'
  BY <1>0, <1>13, OwnerAssumption DEF StateInv, BlobMatchesState, TypeOK,
       LockInv, DrainOther
<1> QED
  BY <1>1, <1>2, <1>3, <1>4, <1>5, <1>6, <1>7, <1>8, <1>9, <1>10, <1>11,
     <1>12, <1>13, Zenon
     DEF OtherStep, StopStep

\* Every step keeps states and blobs in line with who works on the page.
LEMMA StateStep ==
  ASSUME StructInv, [Next]_vars PROVE StateInv'
<1> USE DEF At, Doing, pageVars, appVars, workerVars, threadVars, lifeVars
<1>0. TypeOK /\ LockInv /\ ThreadInv /\ StateInv /\ SpanInv
  BY Zenon DEF StructInv
<1>1. CASE UNCHANGED vars
  BY <1>0, <1>1, Zenon DEF vars, StateInv, BlobMatchesState
<1> QED
  BY <1>1, StateApp, StateFault, StatePhase, StateOther, StepCases, Zenon

-----------------------------------------------------------------------------
(* The span.                                                               *)

\* When pages are EMPTY, at steps of the application.
LEMMA SpanApp ==
  ASSUME StructInv, AppStep PROVE SpanInv'
<1> USE DEF At, Doing, pageVars, appVars, workerVars, threadVars, lifeVars
<1>0. TypeOK /\ LockInv /\ ThreadInv /\ StateInv /\ SpanInv
  BY Zenon DEF StructInv
<1>1. ASSUME NEW p \in Pages, NEW s \in Slots, AllocSlot(p, s) PROVE SpanInv'
  BY <1>0, <1>1, Zenon DEF SpanInv, TypeOK, AllocSlot
<1>2. ASSUME PurgeResidentEmpty PROVE SpanInv'
  BY <1>0, <1>2, Zenon DEF SpanInv, PurgeResidentEmpty
<1>3. ASSUME NEW t \in Threads, NEW p \in Pages, NEW s \in Slots, FreeSlot(t, p, s)
      PROVE  SpanInv'
  BY <1>0, <1>3, SMT, SMTT(30) DEF SpanInv, TypeOK, FreeSlot
<1>4. ASSUME NEW t \in Threads, NEW p \in Pages, ReleasePage(t, p)
      PROVE  SpanInv'
  BY <1>0, <1>4, ZenonT(40) DEF SpanInv, TypeOK, ReleasePage
<1>5. ASSUME NEW t \in Threads, RetireSpan(t) PROVE SpanInv'
  BY <1>0, <1>5, Zenon DEF SpanInv, TypeOK, RetireSpan
<1>6. ASSUME NEW t \in Threads, NEW a \in Access, BeginAccess(t, a)
      PROVE  SpanInv'
  <2>1. /\ tpc' = [tpc EXCEPT ![t] = "access"]
        /\ UNCHANGED <<state, span, todo>>
    BY <1>6, Zenon DEF BeginAccess
  <2>2. \A u \in Threads : tpc'[u] = "retire" => tpc[u] = "retire"
    BY <1>0, <2>1, ZenonT(40) DEF TypeOK
  <2> QED
    BY <1>0, <2>1, <2>2, ZenonT(40) DEF SpanInv
<1>7. ASSUME NEW t \in Threads, CompleteAccess(t) PROVE SpanInv'
  BY <1>0, <1>7, SMT, SMTT(30) DEF SpanInv, CompleteAccess
<1>8. ASSUME NEW t \in Threads, TakeFault(t) PROVE SpanInv'
  BY <1>0, <1>8, SMT, SMTT(30) DEF SpanInv, TypeOK, TakeFault
<1> QED
  BY <1>1, <1>2, <1>3, <1>4, <1>5, <1>6, <1>7, <1>8, Zenon
     DEF AppStep

\* When pages are EMPTY, at the fault handler.
LEMMA SpanFault ==
  ASSUME StructInv, FaultStep PROVE SpanInv'
<1> USE DEF At, Doing, pageVars, appVars, workerVars, threadVars, lifeVars
<1>0. TypeOK /\ LockInv /\ ThreadInv /\ StateInv /\ SpanInv
  BY Zenon DEF StructInv
<1>1. ASSUME NEW t \in Threads, LockForFault(t) PROVE SpanInv'
  BY <1>0, <1>1, SMT, SMTT(30) DEF SpanInv, TypeOK, LockForFault
<1>2. ASSUME NEW t \in Threads, FaultCompressed(t) PROVE SpanInv'
  BY <1>0, <1>2, SMT, SMTT(30) DEF SpanInv, TypeOK, FaultCompressed, BeginRestore
<1>3. ASSUME NEW t \in Threads, FaultCompressedFails(t) PROVE SpanInv'
  BY <1>0, <1>3, SMT, SMTT(30) DEF SpanInv, FaultCompressedFails
<1>4. ASSUME NEW t \in Threads, NEW p \in Pages, FinishRestore(t, p)
       PROVE  SpanInv'
  BY <1>0, <1>4, SMT, SMTT(30) DEF SpanInv, StateInv, FinishRestore
<1>5. ASSUME NEW t \in Threads, NEW p \in Pages, PrefetchPage(t, p)
       PROVE  SpanInv'
  BY <1>0, <1>5 DEF SpanInv, TypeOK, PrefetchPage, BeginRestore
<1>6. ASSUME NEW t \in Threads, NEW p \in Pages, SkipPrefetch(t, p)
       PROVE  SpanInv'
  BY <1>0, <1>6, SMT, SMTT(30) DEF SpanInv, SkipPrefetch
<1>7. ASSUME NEW t \in Threads, ResumeAccess(t) PROVE SpanInv'
  BY <1>0, <1>7, SMT, SMTT(30) DEF SpanInv, ResumeAccess
<1>8. ASSUME NEW t \in Threads, FaultCompressing(t) PROVE SpanInv'
  BY <1>0, <1>8, SMT, SMTT(30) DEF SpanInv, FaultCompressing
<1>9. ASSUME NEW t \in Threads, FaultResident(t) PROVE SpanInv'
  BY <1>0, <1>9, SMT, SMTT(30) DEF SpanInv, FaultResident
<1>10. ASSUME NEW t \in Threads, FaultShadow(t) PROVE SpanInv'
  BY <1>0, <1>10 DEF SpanInv, FaultShadow
<1> QED
  BY <1>1, <1>2, <1>3, <1>4, <1>5, <1>6, <1>7, <1>8, <1>9, <1>10, Zenon
     DEF FaultStep, HandlerStep

\* When pages are EMPTY, at compressPage.
LEMMA SpanPhase ==
  ASSUME StructInv, PhaseStep PROVE SpanInv'
<1> USE DEF At, Doing, pageVars, appVars, workerVars, threadVars, lifeVars
<1>0. TypeOK /\ LockInv /\ ThreadInv /\ StateInv /\ SpanInv
  BY Zenon DEF StructInv
<1>1. ASSUME \/ \E p \in Pages : PrepareSnapshot(p) \/ ArmReadOnly(p)
             \/ \E p \in Pages : Snapshot(p) \/ VerifyPasses(p)
             \/ \E p \in Pages : FlushPending(p)
      PROVE  SpanInv'
  <2>1. state' = state /\ span' = span /\ tpc' = tpc /\ todo' = todo
    BY <1>1, ZenonT(40) DEF PrepareSnapshot, ArmReadOnly, Snapshot, VerifyPasses,
       FlushPending
  <2> QED
    BY <1>0, <2>1, Zenon DEF SpanInv
<1>2. ASSUME NEW p \in Pages, StartCompress(p) PROVE SpanInv'
  BY <1>0, <1>2, SMT, SMTT(30) DEF SpanInv, StartCompress
<1>3. ASSUME NEW p \in Pages, RejectCompress(p) PROVE SpanInv'
  BY <1>0, <1>3, SMT, SMTT(30) DEF SpanInv, StateInv, RejectCompress, Leave
<1>4. ASSUME NEW p \in Pages, Relock(p) PROVE SpanInv'
  BY <1>0, <1>4, SMT, SMTT(30) DEF SpanInv, TypeOK, Relock, Leave
<1>5. ASSUME NEW p \in Pages, VerifyFails(p) PROVE SpanInv'
  BY <1>0, <1>5, SMT, SMTT(30) DEF SpanInv, StateInv, VerifyFails, Leave
<1>6. ASSUME NEW p \in Pages, GateFails(p) PROVE SpanInv'
  BY <1>0, <1>6, SMT, SMTT(30) DEF SpanInv, TypeOK, StateInv, GateFails, Leave
<1>7. ASSUME NEW p \in Pages, CopyBack(p) PROVE SpanInv'
  BY <1>0, <1>7, SMT, SMTT(30) DEF SpanInv, TypeOK, StateInv, CopyBack, Leave
<1>8. ASSUME NEW p \in Pages, CommitBlob(p) PROVE SpanInv'
  BY <1>0, <1>8 DEF SpanInv, StateInv, CommitBlob
<1> QED
  BY <1>1, <1>2, <1>3, <1>4, <1>5, <1>6, <1>7, <1>8, Zenon
     DEF PhaseStep, CompressStep

\* When pages are EMPTY, at the other work of the compressor, and the shutdown.
LEMMA SpanOther ==
  ASSUME StructInv, OtherStep PROVE SpanInv'
<1> USE DEF At, Doing, pageVars, appVars, workerVars, threadVars, lifeVars
<1>0. TypeOK /\ LockInv /\ ThreadInv /\ StateInv /\ SpanInv
  BY Zenon DEF StructInv
<1>1. ASSUME \/ \E p \in Pages : Escalate(p) \/ ClearStalePending(p)
             \/ \E p \in Pages : SweepPage(p) \/ StartReclaim(p)
             \/ \E p \in Pages : DrainRestore(p)
             \/ StopCompressor
             \/ UninstallHandler
      PROVE  SpanInv'
  BY <1>0, <1>1, Zenon DEF SpanInv, Escalate, ClearStalePending, SweepPage,
     StartReclaim, StopCompressor, DrainRestore, UninstallHandler
<1>2. ASSUME NEW p \in Pages, MonitorPage(p) PROVE SpanInv'
  BY <1>0, <1>2, SMT, SMTT(30) DEF SpanInv, MonitorPage
<1>3. ASSUME NEW p \in Pages, CheckMonitored(p) PROVE SpanInv'
  BY <1>0, <1>3 DEF SpanInv, TypeOK, CheckMonitored
<1>4. ASSUME NEW p \in Pages, ProtectMonitored(p) PROVE SpanInv'
  BY <1>0, <1>4, ZenonT(40) DEF SpanInv, TypeOK, ProtectMonitored
<1>5. ASSUME NEW p \in Pages, PostponeReclaim(p) PROVE SpanInv'
  BY <1>0, <1>5, SMT, SMTT(30) DEF SpanInv, PostponeReclaim, Leave
<1>6. ASSUME NEW p \in Pages, DiscardShadow(p) PROVE SpanInv'
  BY <1>0, <1>6, SMT, SMTT(30) DEF SpanInv, StateInv, DiscardShadow, Leave
<1>7. ASSUME NEW p \in Pages, ConfirmShadow(p) PROVE SpanInv'
  BY <1>0, <1>7, SMT, SMTT(30) DEF SpanInv, StateInv, ConfirmShadow
<1>8. ASSUME NEW p \in Pages, DropBacking(p) PROVE SpanInv'
  BY <1>0, <1>8, SMT, SMTT(30) DEF SpanInv, DropBacking, Leave
<1>9. ASSUME NEW p \in Pages, DrainFinish(p) PROVE SpanInv'
  <2>1. /\ state[p] \in {"COMPRESSED", "COMPRESSED_SHADOW"} /\ UNCHANGED <<tpc, todo, span>>
        /\ state' = [state EXCEPT ![p] = "ACTIVE"] \/ state' = state
    BY <1>0, <1>9, SMT, SMTT(30) DEF DrainFinish, Leave, TypeOK, StateInv
  <2> QED
    BY <1>0, <2>1, ZenonT(40) DEF TypeOK, SpanInv
<1>10. ASSUME NEW p \in Pages, DrainOther(p) PROVE SpanInv'
  BY <1>0, <1>10 DEF SpanInv, TypeOK, DrainOther
<1> QED
  BY <1>1, <1>2, <1>3, <1>4, <1>5, <1>6, <1>7, <1>8, <1>9, <1>10, Zenon
     DEF OtherStep, StopStep

\* Every step keeps EMPTY pages out of a span in service.
LEMMA SpanStep ==
  ASSUME StructInv, [Next]_vars PROVE SpanInv'
<1> USE DEF At, Doing, pageVars, appVars, workerVars, threadVars, lifeVars
<1>0. TypeOK /\ LockInv /\ ThreadInv /\ StateInv /\ SpanInv
  BY Zenon DEF StructInv
<1>1. CASE UNCHANGED vars
  BY <1>0, <1>1, Zenon DEF vars, SpanInv
<1> QED
  BY <1>1, SpanApp, SpanFault, SpanPhase, SpanOther, StepCases, Zenon


-----------------------------------------------------------------------------
(* The types, and the conclusions.                                         *)


\* The names the program counters, states and protections range over.
LEMMA Names ==
  /\ "EMPTY" \in States /\ "ACTIVE" \in States /\ "COMPRESSED" \in States
  /\ "COMPRESSING" \in States /\ "ACTIVE_MONITORING" \in States /\ "COMPRESSED_SHADOW" \in States
  /\ "NONE" \in Prots /\ "READ" \in Prots /\ "RW" \in Prots
  /\ "idle" \in WorkerSteps /\ "protRead3" \in WorkerSteps /\ "apply3" \in WorkerSteps
  /\ "decide" \in WorkerSteps /\ "arm" \in WorkerSteps /\ "relock" \in WorkerSteps
  /\ "snapshot" \in WorkerSteps /\ "verify" \in WorkerSteps /\ "gate" \in WorkerSteps
  /\ "copyBack" \in WorkerSteps /\ "listed" \in WorkerSteps /\ "compare" \in WorkerSteps
  /\ "drop" \in WorkerSteps /\ "drain" \in WorkerSteps
  /\ "idle" \in ThreadSteps /\ "access" \in ThreadSteps /\ "fault" \in ThreadSteps
  /\ "handle" \in ThreadSteps /\ "flip" \in ThreadSteps /\ "copy" \in ThreadSteps
  /\ "prefetch" \in ThreadSteps /\ "retire" \in ThreadSteps
BY Zenon DEF States, Prots, WorkerSteps, ThreadSteps

\* A fresh page has contents.
LEMMA ZeroPageType == ZeroPage \in PageContents
BY ValueAssumption, Zenon DEF ZeroPage, PageContents

\* Zeroing the free slots of a snapshot gives contents.
LEMMA ZeroFreeSlotsType ==
  ASSUME TypeOK, NEW p \in Pages PROVE ZeroFreeSlots(p) \in PageContents
BY ValueAssumption DEF ZeroFreeSlots, TypeOK, PageContents

\* Whether an mprotect succeeds or not, the protection stays one of the three.
LEMMA MprotectType ==
  ASSUME TypeOK, NEW p \in Pages, NEW q \in Prots PROVE Mprotect(p, q) \subseteq Prots
BY Zenon DEF Mprotect, TypeOK

\* The protections keep their type.
LEMMA MprotectStep ==
  ASSUME TypeOK, NEW p \in Pages, NEW q \in Prots,
         \E r \in Mprotect(p, q) : prot' = [prot EXCEPT ![p] = r]
  PROVE  prot' \in [Pages -> Prots]
BY MprotectType DEF TypeOK

\* A page that is COMPRESSED or a shadow has its contents in a blob.
LEMMA BlobType ==
  ASSUME TypeOK, StateInv, NEW p \in Pages,
         state[p] \in {"COMPRESSED", "COMPRESSED_SHADOW"}
  PROVE  blob[p] \in PageContents
<1>1. blob[p] # NoBlob
  BY Zenon DEF StateInv, BlobMatchesState
<1> QED
  BY <1>1, Zenon DEF TypeOK

\* Leave keeps the types of the four variables it assigns.
LEMMA LeaveType ==
  ASSUME TypeOK, NEW p \in Pages, NEW st \in States, Leave(p, st)
  PROVE  /\ state' \in [Pages -> States]
         /\ lock' \in [Pages -> Threads \cup {Worker, NoOne}]
         /\ wpc' \in [Pages -> WorkerSteps]
         /\ buf' \in [Pages -> PageContents]
<1>1. state' \in [Pages -> States]
  BY Zenon DEF TypeOK, Leave
<1>2. lock' \in [Pages -> Threads \cup {Worker, NoOne}]
  BY Zenon DEF TypeOK, Leave
<1>3. wpc' \in [Pages -> WorkerSteps]
  BY Names, Zenon DEF TypeOK, Leave
<1>4. buf' \in [Pages -> PageContents]
  BY ZeroPageType, Zenon DEF TypeOK, Leave
<1> QED
  BY <1>1, <1>2, <1>3, <1>4, Zenon

\* A page with one slot overwritten is a page.
LEMMA StoreType ==
  ASSUME NEW f, NEW V, f \in [Pages -> [Slots -> V]],
         NEW p \in Pages, NEW s \in Slots, NEW v \in V
  PROVE  [f EXCEPT ![p][s] = v] \in [Pages -> [Slots -> V]]
<1>1. [f[p] EXCEPT ![s] = v] \in [Slots -> V]
  OBVIOUS
<1>2. [f EXCEPT ![p][s] = v] = [f EXCEPT ![p] = [f[p] EXCEPT ![s] = v]]
  OBVIOUS
<1> QED
  BY <1>1, <1>2, Zenon

\* The initial states satisfy the structural invariant.
LEMMA StructInit == Init => StructInv
<1> SUFFICES ASSUME Init PROVE StructInv
  OBVIOUS
<1>1. TypeOK
  BY ZeroPageType, Zenon DEF Init, TypeOK, States, Prots, WorkerSteps, ThreadSteps
<1>2. LockInv /\ ThreadInv /\ StateInv /\ SpanInv
  BY OwnerAssumption, Zenon DEF Init, LockInv, LockedSteps, ThreadInv, StateInv,
       BlobMatchesState, SpanInv
<1> QED
  BY <1>1, <1>2, Zenon DEF StructInv

-----------------------------------------------------------------------------
(* The types.                                                              *)

\* The types, at steps of the application.
LEMMA TypeApp ==
  ASSUME StructInv, AppStep PROVE TypeOK'
<1> USE Names, ZeroPageType DEF At, Doing, pageVars, appVars, workerVars, threadVars, lifeVars
<1>0. TypeOK /\ ThreadInv /\ StateInv
  BY ZenonT(40) DEF StructInv
<1>1. ASSUME NEW p \in Pages, NEW s \in Slots, AllocSlot(p, s) PROVE TypeOK'
  BY <1>0, <1>1 DEF TypeOK, AllocSlot
<1>2. ASSUME PurgeResidentEmpty PROVE TypeOK'
  BY <1>0, <1>2, Zenon DEF TypeOK, PurgeResidentEmpty
<1>3. ASSUME NEW t \in Threads, NEW p \in Pages, NEW s \in Slots, FreeSlot(t, p, s)
      PROVE  TypeOK'
  <2>1. CASE live \ {<<p, s>>} = {}
    BY <1>0, <1>3, <2>1, ZenonT(40) DEF TypeOK, FreeSlot
  <2>2. CASE ~(live \ {<<p, s>>} = {})
    BY <1>0, <1>3, <2>2, Zenon DEF TypeOK, FreeSlot
  <2> QED
    BY <2>1, <2>2, Zenon
<1>4. ASSUME NEW t \in Threads, NEW p \in Pages, ReleasePage(t, p)
      PROVE  TypeOK'
  BY <1>0, <1>4, Zenon DEF TypeOK, ReleasePage
<1>5. ASSUME NEW t \in Threads, RetireSpan(t) PROVE TypeOK'
  BY <1>0, <1>5, ZenonT(40) DEF TypeOK, RetireSpan
<1>6. ASSUME NEW t \in Threads, NEW a \in Access, BeginAccess(t, a)
      PROVE  TypeOK'
  BY <1>0, <1>6, Zenon DEF TypeOK, BeginAccess
<1>7. ASSUME NEW t \in Threads, CompleteAccess(t) PROVE TypeOK'
  <2>1. acc[t].page \in Pages /\ acc[t].slot \in Slots /\ acc[t].val \in Values \cup {Undef}
    BY <1>0, <1>7, AccessType, Zenon DEF CompleteAccess
  <2>2. CASE acc[t].val = Undef
    BY <1>0, <1>7, <2>2, Zenon DEF TypeOK, CompleteAccess
  <2>3. CASE acc[t].val # Undef
    <3>1. phys' \in [Pages -> PageContents]
      <4>1. phys' = [phys EXCEPT ![acc[t].page][acc[t].slot] = acc[t].val] /\ acc[t].val \in Values
        BY <1>7, <2>1, <2>3, Zenon DEF CompleteAccess
      <4>2. phys \in [Pages -> [Slots -> Values]]
        BY <1>0, Zenon DEF TypeOK, PageContents
      <4> QED
        BY <2>1, <4>1, <4>2, StoreType, Zenon DEF PageContents
    <3>2. mem' \in [Pages -> [Slots -> Values \cup {Undef}]]
      <4>1. mem' = [mem EXCEPT ![acc[t].page][acc[t].slot] = acc[t].val]
        BY <1>7, <2>3, Zenon DEF CompleteAccess
      <4>2. mem \in [Pages -> [Slots -> Values \cup {Undef}]]
        BY <1>0, Zenon DEF TypeOK
      <4> QED
        BY <2>1, <4>1, <4>2, StoreType, Zenon
    <3> QED
      BY <1>0, <1>7, <3>1, <3>2, Zenon DEF TypeOK, CompleteAccess
  <2> QED
    BY <2>2, <2>3, Zenon
<1>8. ASSUME NEW t \in Threads, TakeFault(t) PROVE TypeOK'
  BY <1>0, <1>8, Zenon DEF TypeOK, TakeFault
<1> QED
  BY <1>1, <1>2, <1>3, <1>4, <1>5, <1>6, <1>7, <1>8, Zenon
     DEF AppStep

\* The types, at the fault handler.
LEMMA TypeFault ==
  ASSUME StructInv, FaultStep PROVE TypeOK'
<1> USE Names, ZeroPageType DEF At, Doing, pageVars, appVars, workerVars, threadVars, lifeVars
<1>0. TypeOK /\ ThreadInv /\ StateInv
  BY Zenon DEF StructInv
<1>1. ASSUME NEW t \in Threads, LockForFault(t) PROVE TypeOK'
  <2>1. lock' \in [Pages -> Threads \cup {Worker, NoOne}]
    BY <1>0, <1>1, SMT, SMTT(30) DEF TypeOK, LockForFault
  <2>2. tpc' \in [Threads -> ThreadSteps]
    BY <1>0, <1>1, Zenon DEF TypeOK, LockForFault
  <2>3. crashed' \in BOOLEAN
    BY <1>0, <1>1, Zenon DEF TypeOK, LockForFault
  <2> QED
    BY <1>0, <1>1, <2>1, <2>2, <2>3, Zenon DEF TypeOK, LockForFault
<1>2. ASSUME NEW t \in Threads, FaultCompressed(t) PROVE TypeOK'
  <2>1. acc[t].page \in Pages /\ blob[acc[t].page] \in PageContents
    BY <1>0, <1>2, AccessType, BlobType, Zenon DEF FaultCompressed
  <2>2. phys' \in [Pages -> PageContents] /\ prot' \in [Pages -> Prots] /\ tpc' \in [Threads -> ThreadSteps]
    <3>1. CASE phys' = [phys EXCEPT ![acc[t].page] = blob[acc[t].page]] /\ tpc' = [tpc EXCEPT ![t] = "flip"] /\ prot' = prot
      BY <1>0, <2>1, <3>1, Zenon DEF TypeOK
    <3>2. CASE prot' = [prot EXCEPT ![acc[t].page] = "RW"] /\ tpc' = [tpc EXCEPT ![t] = "copy"] /\ phys' = phys
      BY <1>0, <2>1, <3>2, Zenon DEF TypeOK
    <3>3. CASE prot' = [prot EXCEPT ![acc[t].page] = "RW"] /\ tpc' = [tpc EXCEPT ![t] = "copy"] /\ phys' = [phys EXCEPT ![acc[t].page] = ZeroPage]
      BY <1>0, <2>1, <3>3, Zenon DEF TypeOK
    <3> QED
      BY <1>2, <3>1, <3>2, <3>3, Zenon DEF FaultCompressed, BeginRestore
  <2> QED
    BY <1>0, <1>2, <2>2, Zenon DEF TypeOK, FaultCompressed
<1>3. ASSUME NEW t \in Threads, FaultCompressedFails(t) PROVE TypeOK'
  BY <1>0, <1>3, AccessType, BlobType, Zenon DEF TypeOK, FaultCompressedFails
<1>4. ASSUME NEW t \in Threads, NEW p \in Pages, FinishRestore(t, p)
       PROVE  TypeOK'
  <2>1. blob[p] \in PageContents
    BY <1>0, <1>4, BlobType, Zenon DEF FinishRestore, StateInv
  <2>2. phys' \in [Pages -> PageContents]
    BY <1>0, <1>4, <2>1, Zenon DEF TypeOK, FinishRestore
  <2> QED
    BY <1>0, <1>4, <2>2, Zenon DEF TypeOK, FinishRestore
<1>5. ASSUME NEW t \in Threads, NEW p \in Pages, PrefetchPage(t, p)
       PROVE  TypeOK'
  <2>1. p \in Pages /\ blob[p] \in PageContents
    BY <1>0, <1>5, AccessType, BlobType, Zenon DEF PrefetchPage
  <2>2. phys' \in [Pages -> PageContents] /\ prot' \in [Pages -> Prots] /\ tpc' \in [Threads -> ThreadSteps]
    <3>1. CASE phys' = [phys EXCEPT ![p] = blob[p]] /\ tpc' = [tpc EXCEPT ![t] = "flip"] /\ prot' = prot
      BY <1>0, <2>1, <3>1, Zenon DEF TypeOK
    <3>2. CASE prot' = [prot EXCEPT ![p] = "RW"] /\ tpc' = [tpc EXCEPT ![t] = "copy"] /\ phys' = phys
      BY <1>0, <2>1, <3>2, Zenon DEF TypeOK
    <3>3. CASE prot' = [prot EXCEPT ![p] = "RW"] /\ tpc' = [tpc EXCEPT ![t] = "copy"] /\ phys' = [phys EXCEPT ![p] = ZeroPage]
      BY <1>0, <2>1, <3>3, Zenon DEF TypeOK
    <3> QED
      BY <1>5, <3>1, <3>2, <3>3, Zenon DEF PrefetchPage, BeginRestore
  <2> QED
    BY <1>0, <1>5, <2>2, Zenon DEF TypeOK, PrefetchPage
<1>6. ASSUME NEW t \in Threads, NEW p \in Pages, SkipPrefetch(t, p)
       PROVE  TypeOK'
  BY <1>0, <1>6, Zenon DEF TypeOK, SkipPrefetch
<1>7. ASSUME NEW t \in Threads, ResumeAccess(t) PROVE TypeOK'
  BY <1>0, <1>7, Zenon DEF TypeOK, ResumeAccess
<1>8. ASSUME NEW t \in Threads, FaultCompressing(t) PROVE TypeOK'
  <2>1. acc[t].page \in Pages
    BY <1>0, <1>8, AccessType, Zenon DEF FaultCompressing
  <2>2. phys' \in [Pages -> PageContents]
    BY <1>0, <1>8, <2>1, Zenon DEF TypeOK, FaultCompressing
  <2>3. prot' \in [Pages -> Prots]
    <3>1. \/ \E q \in Mprotect(acc[t].page, "RW") : prot' = [prot EXCEPT ![acc[t].page] = q]
          \/ prot' = [prot EXCEPT ![acc[t].page] = "RW"]
      BY <1>8, Zenon DEF FaultCompressing
    <3> QED
      BY <1>0, <2>1, <3>1, MprotectStep, ZenonT(40) DEF TypeOK
  <2> QED
    BY <1>0, <1>8, <2>2, <2>3, Zenon DEF TypeOK, FaultCompressing
<1>9. ASSUME NEW t \in Threads, FaultResident(t) PROVE TypeOK'
  <2>1. acc[t].page \in Pages
    BY <1>0, <1>9, AccessType, Zenon DEF FaultResident
  <2>2. Mprotect(acc[t].page, "RW") \subseteq Prots
    BY <1>0, <2>1, MprotectType, Zenon
  <2> QED
    BY <1>0, <1>9, <2>1, <2>2 DEF TypeOK, FaultResident
<1>10. ASSUME NEW t \in Threads, FaultShadow(t) PROVE TypeOK'
  <2>1. acc[t].page \in Pages
    BY <1>0, <1>10, AccessType, Zenon DEF FaultShadow
  <2>2. Mprotect(acc[t].page, "RW") \subseteq Prots
    BY <1>0, <2>1, MprotectType, Zenon
  <2> QED
    BY <1>0, <1>10, <2>1, <2>2, Zenon DEF TypeOK, FaultShadow
<1> QED
  BY <1>1, <1>2, <1>3, <1>4, <1>5, <1>6, <1>7, <1>8, <1>9, <1>10, Zenon
     DEF FaultStep, HandlerStep

\* The types, at compressPage.
LEMMA TypePhase ==
  ASSUME StructInv, PhaseStep PROVE TypeOK'
<1> USE Names, ZeroPageType DEF At, Doing, pageVars, appVars, workerVars, threadVars, lifeVars
<1>0. TypeOK /\ ThreadInv /\ StateInv
  BY Zenon DEF StructInv
<1>1. ASSUME NEW p \in Pages, StartCompress(p) PROVE TypeOK'
  BY <1>0, <1>1, Zenon DEF TypeOK, StartCompress
<1>2. ASSUME NEW p \in Pages, RejectCompress(p) PROVE TypeOK'
  BY <1>0, <1>2, Zenon DEF TypeOK, RejectCompress, Leave
<1>3. ASSUME NEW p \in Pages, PrepareSnapshot(p) PROVE TypeOK'
  <2>1. prot' \in [Pages -> Prots]
    <3>1. (\E q \in Mprotect(p, "RW") : prot' = [prot EXCEPT ![p] = q]) \/ prot' = prot
      BY <1>3, Zenon DEF PrepareSnapshot
    <3> QED
      BY <1>0, <3>1, MprotectStep, Zenon DEF TypeOK
  <2>2. lock' \in [Pages -> Threads \cup {Worker, NoOne}]
    BY <1>0, <1>3, Zenon DEF TypeOK, PrepareSnapshot
  <2>3. wpc' \in [Pages -> WorkerSteps]
    BY <1>0, <1>3, ZenonT(40) DEF TypeOK, PrepareSnapshot
  <2> QED
    BY <1>0, <1>3, <2>1, <2>2, <2>3, Zenon DEF TypeOK, PrepareSnapshot
<1>4. ASSUME NEW p \in Pages, ArmReadOnly(p) PROVE TypeOK'
  BY <1>0, <1>4, MprotectType, ZenonT(40) DEF TypeOK, ArmReadOnly
<1>5. ASSUME NEW p \in Pages, Relock(p) PROVE TypeOK'
  <2>1. CASE state[p] = "COMPRESSING"
    BY <1>0, <1>5, <2>1, ZenonT(40) DEF TypeOK, Relock
  <2>2. CASE state[p] # "COMPRESSING"
    <3>1. Leave(p, state[p]) /\ state[p] \in States
      BY <1>0, <1>5, <2>2, Zenon DEF TypeOK, Relock
    <3>2. prot' \in [Pages -> Prots]
      <4>1. \E q \in Mprotect(p, "RW") : prot' = [prot EXCEPT ![p] = q]
        BY <1>5, <2>2, Zenon DEF Relock
      <4> QED
        BY Zenon, <1>0, <4>1, MprotectStep
    <3> QED
      BY <1>0, <1>5, <3>1, <3>2, LeaveType, Zenon DEF TypeOK, Relock
  <2> QED
    BY <2>1, <2>2, Zenon
<1>6. ASSUME NEW p \in Pages, Snapshot(p) PROVE TypeOK'
  <2>1. buf' \in [Pages -> PageContents]
    BY <1>0, <1>6, ZenonT(40) DEF TypeOK, Snapshot
  <2>2. wpc' \in [Pages -> WorkerSteps]
    BY <1>0, <1>6, ZenonT(40) DEF TypeOK, Snapshot
  <2>3. crashed' \in BOOLEAN
    BY <1>0, <1>6, Zenon DEF TypeOK, Snapshot
  <2> QED
    BY <1>0, <1>6, <2>1, <2>2, <2>3, Zenon DEF TypeOK, Snapshot
<1>7. ASSUME NEW p \in Pages, VerifyFails(p) PROVE TypeOK'
  <2>1. prot' \in [Pages -> Prots]
    <3>1. (\E q \in Mprotect(p, "RW") : prot' = [prot EXCEPT ![p] = q]) \/ prot' = prot
      BY <1>7, Zenon DEF VerifyFails
    <3> QED
      BY <1>0, <3>1, MprotectStep, Zenon DEF TypeOK
  <2> QED
    BY <1>0, <1>7, <2>1, LeaveType, Zenon DEF TypeOK, VerifyFails
<1>8. ASSUME NEW p \in Pages, VerifyPasses(p) PROVE TypeOK'
  BY <1>0, <1>8, ZeroFreeSlotsType, Zenon DEF TypeOK, VerifyPasses
<1>9. ASSUME NEW p \in Pages, GateFails(p) PROVE TypeOK'
  <2>1. CASE Deferred
    <3>1. Leave(p, "ACTIVE") /\ UNCHANGED <<prot, phys>>
      BY <1>9, <2>1, Zenon DEF GateFails
    <3> QED
      BY <1>0, <1>9, <3>1, LeaveType, Zenon DEF TypeOK, GateFails
  <2>2. CASE ~Deferred
    <3>1. phys' \in [Pages -> PageContents]
      BY <1>0, <1>9, <2>2, ZenonT(40) DEF TypeOK, GateFails
    <3>2. prot' \in [Pages -> Prots]
      <4>1. \/ \E q \in Mprotect(p, "RW") : prot' = [prot EXCEPT ![p] = q]
            \/ prot' = [prot EXCEPT ![p] = "RW"]
        BY <1>9, <2>2, Zenon DEF GateFails
      <4> QED
        BY <1>0, <4>1, MprotectStep, Zenon DEF TypeOK
    <3>3. wpc' = [wpc EXCEPT ![p] = "copyBack"] /\ UNCHANGED <<state, lock, buf>>
      BY <1>9, <2>2, Zenon DEF GateFails
    <3> QED
      BY <1>0, <1>9, <3>1, <3>2, <3>3, Zenon DEF TypeOK, GateFails
  <2> QED
    BY <2>1, <2>2, Zenon
<1>10. ASSUME NEW p \in Pages, CopyBack(p) PROVE TypeOK'
  <2>1. CASE prot[p] = "RW"
    <3>1. Leave(p, "ACTIVE") /\ crashed' = crashed
      BY <1>10, <2>1, Zenon DEF CopyBack
    <3>2. phys' \in [Pages -> PageContents]
      BY <1>0, <1>10, <2>1, Zenon DEF TypeOK, CopyBack
    <3> QED
      BY <1>0, <1>10, <3>1, <3>2, LeaveType, Zenon DEF TypeOK, CopyBack
  <2>2. CASE prot[p] # "RW"
    BY <1>0, <1>10, <2>2, Zenon DEF TypeOK, CopyBack
  <2> QED
    BY <2>1, <2>2, Zenon
<1>11. ASSUME NEW p \in Pages, CommitBlob(p) PROVE TypeOK'
  BY <1>0, <1>11, Zenon DEF TypeOK, CommitBlob
<1>12. ASSUME NEW p \in Pages, FlushPending(p) PROVE TypeOK'
  BY <1>0, <1>12, Zenon DEF TypeOK, FlushPending
<1> QED
  BY <1>1, <1>2, <1>3, <1>4, <1>5, <1>6, <1>7, <1>8, <1>9, <1>10, <1>11, <1>12, Zenon
     DEF PhaseStep, CompressStep

\* The types, at the other work of the compressor, and the shutdown.
LEMMA TypeOther ==
  ASSUME StructInv, OtherStep PROVE TypeOK'
<1> USE Names, ZeroPageType DEF At, Doing, pageVars, appVars, workerVars, threadVars, lifeVars
<1>0. TypeOK /\ ThreadInv /\ StateInv
  BY Zenon DEF StructInv
<1>t. /\ wpc \in [Pages -> WorkerSteps] /\ state \in [Pages -> States]
      /\ prot \in [Pages -> Prots]
  BY <1>0, Zenon DEF TypeOK
<1>1. ASSUME NEW p \in Pages, MonitorPage(p) PROVE TypeOK'
  BY <1>0, <1>1, Zenon DEF TypeOK, MonitorPage
<1>2. ASSUME NEW p \in Pages, CheckMonitored(p) PROVE TypeOK'
  <2>1. /\ wpc' \in {[wpc EXCEPT ![p] = "apply3"], [wpc EXCEPT ![p] = "idle"]}
        /\ state' \in {state, [state EXCEPT ![p] = "ACTIVE"]}
    BY <1>2, Zenon DEF CheckMonitored
  <2>2. wpc' \in [Pages -> WorkerSteps] /\ state' \in [Pages -> States]
    BY <1>t, <2>1, ZenonT(40)
  <2>3. UNCHANGED <<lock, prot, phys, blob, pending, appVars, buf, threadVars,
                    lifeVars>>
    BY <1>2, Zenon DEF CheckMonitored
  <2> QED
    BY <1>0, <2>2, <2>3, Zenon DEF TypeOK
<1>3. ASSUME NEW p \in Pages, ProtectMonitored(p) PROVE TypeOK'
  <2>1. /\ wpc' = [wpc EXCEPT ![p] = "idle"]
        /\ state' \in {state, [state EXCEPT ![p] = "ACTIVE"]}
        /\ prot' \in {prot, [prot EXCEPT ![p] = "READ"]}
    BY <1>3, Zenon DEF ProtectMonitored
  <2>2. /\ wpc' \in [Pages -> WorkerSteps] /\ state' \in [Pages -> States]
        /\ prot' \in [Pages -> Prots]
    BY <1>t, <2>1, ZenonT(40)
  <2>3. UNCHANGED <<lock, phys, blob, pending, appVars, buf, threadVars, lifeVars>>
    BY <1>3, Zenon DEF ProtectMonitored
  <2> QED
    BY <1>0, <2>2, <2>3, Zenon DEF TypeOK
<1>4. ASSUME NEW p \in Pages, Escalate(p) PROVE TypeOK'
  BY <1>0, <1>4, MprotectType, ZenonT(40) DEF TypeOK, Escalate, Turn
<1>5. ASSUME NEW p \in Pages, ClearStalePending(p) PROVE TypeOK'
  BY <1>0, <1>5, ZenonT(40) DEF TypeOK, ClearStalePending
<1>6. ASSUME NEW p \in Pages, SweepPage(p) PROVE TypeOK'
  <2>1. /\ lock' = [lock EXCEPT ![p] = Worker] /\ wpc' = [wpc EXCEPT ![p] = "drop"]
        /\ pending' = [pending EXCEPT ![p] = FALSE]
        /\ \E q \in Prots : prot' = [prot EXCEPT ![p] = q]
    BY <1>0, <1>6, MprotectType, Zenon DEF SweepPage
  <2>2. UNCHANGED <<state, phys, blob, appVars, buf, threadVars, lifeVars>>
    BY <1>6, Zenon DEF SweepPage
  <2>3. prot' \in [Pages -> Prots] /\ wpc' \in [Pages -> WorkerSteps]
    BY <1>t, <2>1, Zenon
  <2>4. pending' \in [Pages -> BOOLEAN]
    BY <1>0, <2>1, Zenon DEF TypeOK
  <2> QED
    BY <1>0, <2>1, <2>2, <2>3, <2>4, Zenon DEF TypeOK
<1>7. ASSUME NEW p \in Pages, StartReclaim(p) PROVE TypeOK'
  BY <1>0, <1>7, MprotectType, ZenonT(40) DEF TypeOK, StartReclaim, Turn
<1>8. ASSUME NEW p \in Pages, PostponeReclaim(p) PROVE TypeOK'
  BY <1>0, <1>8, MprotectType, ZenonT(40) DEF TypeOK, PostponeReclaim, Leave
<1>9. ASSUME NEW p \in Pages, DiscardShadow(p) PROVE TypeOK'
  BY <1>0, <1>9, MprotectType, BlobType, ZenonT(40) DEF TypeOK, DiscardShadow, Leave
<1>10. ASSUME NEW p \in Pages, ConfirmShadow(p) PROVE TypeOK'
  BY <1>0, <1>10, MprotectType, BlobType, ZenonT(40) DEF TypeOK, ConfirmShadow
<1>11. ASSUME NEW p \in Pages, DropBacking(p) PROVE TypeOK'
  BY <1>0, <1>11, Zenon DEF TypeOK, DropBacking, Leave
<1>12. ASSUME StopCompressor PROVE TypeOK'
  BY <1>0, <1>12, Zenon DEF TypeOK, StopCompressor
<1>13. ASSUME NEW p \in Pages, DrainRestore(p) PROVE TypeOK'
  BY <1>0, <1>13, BlobType, Zenon DEF TypeOK, DrainRestore
<1>14. ASSUME NEW p \in Pages, DrainFinish(p) PROVE TypeOK'
  <2>1. blob[p] \in PageContents /\ state[p] \in States
    BY <1>0, <1>14, BlobType, Zenon DEF DrainFinish, StateInv
  <2>2. phys' \in [Pages -> PageContents]
    BY <1>0, <1>14, <2>1, ZenonT(40) DEF TypeOK, DrainFinish
  <2>3. prot' \in [Pages -> Prots]
    BY <1>0, <1>14, SMT, ZenonT(40), SMTT(30) DEF TypeOK, DrainFinish
  <2>4. pending' \in [Pages -> BOOLEAN]
    BY <1>0, <1>14, Zenon DEF TypeOK, DrainFinish
  <2>5. blob' \in [Pages -> PageContents \cup {NoBlob}]
    BY <1>0, <1>14, Zenon DEF TypeOK, DrainFinish
  <2>6. Leave(p, "ACTIVE") \/ Leave(p, state[p])
    BY <1>14, Zenon DEF DrainFinish
  <2> QED
    BY <1>0, <1>14, <2>1, <2>2, <2>3, <2>4, <2>5, <2>6, LeaveType, Zenon DEF TypeOK, DrainFinish
<1>15. ASSUME NEW p \in Pages, DrainOther(p) PROVE TypeOK'
  <2>1. CASE lock[p] = NoOne /\ state[p] = "ACTIVE_MONITORING"
    <3>1. PICK q \in Prots : /\ prot' = [prot EXCEPT ![p] = q]
                            /\ state' = IF q = "RW" THEN [state EXCEPT ![p] = "ACTIVE"] ELSE state
      BY <1>0, <1>15, <2>1, MprotectType, Zenon DEF DrainOther
    <3>2. prot' \in [Pages -> Prots] /\ state' \in [Pages -> States]
      BY <1>0, <3>1, Zenon DEF TypeOK
    <3> QED
      BY <1>0, <1>15, <3>2, Zenon DEF TypeOK, DrainOther
  <2>2. CASE ~(lock[p] = NoOne /\ state[p] = "ACTIVE_MONITORING")
    BY <1>0, <1>15, <2>2, Zenon DEF TypeOK, DrainOther
  <2> QED
    BY <2>1, <2>2, Zenon
<1>16. ASSUME UninstallHandler PROVE TypeOK'
  BY <1>0, <1>16, Zenon DEF TypeOK, UninstallHandler
<1> QED
  BY <1>1, <1>2, <1>3, <1>4, <1>5, <1>6, <1>7, <1>8, <1>9, <1>10, <1>11,
     <1>12, <1>13, <1>14, <1>15, <1>16, Zenon
     DEF OtherStep, StopStep

\* Every step keeps the types.
LEMMA TypeStep ==
  ASSUME StructInv, [Next]_vars PROVE TypeOK'
<1> USE Names, ZeroPageType DEF At, Doing, pageVars, appVars, workerVars, threadVars, lifeVars
<1>0. TypeOK /\ ThreadInv /\ StateInv
  BY Zenon DEF StructInv
<1>1. CASE UNCHANGED vars
  BY <1>0, <1>1, Zenon DEF vars, TypeOK
<1> QED
  BY <1>1, TypeApp, TypeFault, TypePhase, TypeOther, StepCases, Zenon

-----------------------------------------------------------------------------
(* Deferred mode.                                                          *)

\* COMPRESSING pages, at steps of the application.
LEMMA CompressingApp ==
  ASSUME Deferred, StructInv, CompressingIsLocked, AppStep PROVE CompressingIsLocked'
<1> USE DEF At, Doing, pageVars, appVars, workerVars, threadVars, lifeVars
<1>0. TypeOK /\ LockInv /\ StateInv /\ CompressingIsLocked
  BY Zenon DEF StructInv
<1>1. ASSUME \/ PurgeResidentEmpty
             \/ \E t \in Threads, p \in Pages, s \in Slots : FreeSlot(t, p, s)
             \/ \E t \in Threads : RetireSpan(t) \/ CompleteAccess(t)
             \/ \E t \in Threads : TakeFault(t)
             \/ \E t \in Threads, a \in Access : BeginAccess(t, a)
      PROVE  CompressingIsLocked'
  BY <1>0, <1>1, Zenon, Zenon DEF CompressingIsLocked, PurgeResidentEmpty, FreeSlot,
     RetireSpan, BeginAccess, CompleteAccess, TakeFault
<1>2. ASSUME NEW p \in Pages, NEW s \in Slots, AllocSlot(p, s)
      PROVE  CompressingIsLocked'
  BY <1>0, <1>2, Zenon DEF CompressingIsLocked, TypeOK, AllocSlot
<1>3. ASSUME NEW t \in Threads, NEW p \in Pages, ReleasePage(t, p)
      PROVE  CompressingIsLocked'
  BY <1>0, <1>3, Zenon DEF CompressingIsLocked, TypeOK, ReleasePage
<1> QED
  BY <1>1, <1>2, <1>3, Zenon
     DEF AppStep

\* COMPRESSING pages, at the fault handler.
LEMMA CompressingFault ==
  ASSUME Deferred, StructInv, CompressingIsLocked, FaultStep PROVE CompressingIsLocked'
<1> USE DEF At, Doing, pageVars, appVars, workerVars, threadVars, lifeVars
<1>0. TypeOK /\ LockInv /\ StateInv /\ CompressingIsLocked
  BY Zenon DEF StructInv
<1>1. ASSUME \/ \E t \in Threads : FaultCompressed(t) \/ ResumeAccess(t)
             \/ \E t \in Threads, p \in Pages : SkipPrefetch(t, p)
      PROVE  CompressingIsLocked'
  BY <1>0, <1>1, Zenon DEF CompressingIsLocked, FaultCompressed,
     SkipPrefetch, ResumeAccess
<1>2. ASSUME NEW t \in Threads, LockForFault(t) PROVE CompressingIsLocked'
  BY <1>0, <1>2, OwnerAssumption, ZenonT(40) DEF CompressingIsLocked, TypeOK, LockForFault
<1>3. ASSUME NEW t \in Threads, FaultCompressedFails(t)
       PROVE  CompressingIsLocked'
  BY <1>0, <1>3, Zenon DEF CompressingIsLocked, TypeOK, FaultCompressedFails
<1>4. ASSUME NEW t \in Threads, NEW p \in Pages, FinishRestore(t, p)
       PROVE  CompressingIsLocked'
  BY <1>0, <1>4, Zenon DEF CompressingIsLocked, TypeOK, FinishRestore
<1>5. ASSUME NEW t \in Threads, NEW p \in Pages, PrefetchPage(t, p)
       PROVE  CompressingIsLocked'
  BY <1>0, <1>5, Zenon DEF CompressingIsLocked, TypeOK, PrefetchPage, BeginRestore
<1>6. ASSUME NEW t \in Threads, FaultCompressing(t)
       PROVE  CompressingIsLocked'
  BY <1>0, <1>6, Zenon DEF CompressingIsLocked, TypeOK, FaultCompressing
<1>7. ASSUME NEW t \in Threads, FaultResident(t) PROVE CompressingIsLocked'
  BY <1>0, <1>7, ZenonT(40) DEF CompressingIsLocked, TypeOK, FaultResident
<1>8. ASSUME NEW t \in Threads, FaultShadow(t) PROVE CompressingIsLocked'
  BY <1>0, <1>8, Zenon DEF CompressingIsLocked, TypeOK, FaultShadow
<1> QED
  BY <1>1, <1>2, <1>3, <1>4, <1>5, <1>6, <1>7, <1>8, Zenon
     DEF FaultStep, HandlerStep

\* COMPRESSING pages, at compressPage.
LEMMA CompressingPhase ==
  ASSUME Deferred, StructInv, CompressingIsLocked, PhaseStep PROVE CompressingIsLocked'
<1> USE DEF At, Doing, pageVars, appVars, workerVars, threadVars, lifeVars
<1>0. TypeOK /\ LockInv /\ StateInv /\ CompressingIsLocked
  BY Zenon DEF StructInv
<1>1. ASSUME \/ \E p \in Pages : ArmReadOnly(p) \/ Snapshot(p)
             \/ \E p \in Pages : VerifyPasses(p) \/ FlushPending(p)
      PROVE  CompressingIsLocked'
  BY <1>0, <1>1, Zenon DEF CompressingIsLocked, ArmReadOnly, Snapshot,
     VerifyPasses, FlushPending
<1>2. ASSUME NEW p \in Pages, StartCompress(p) PROVE CompressingIsLocked'
  BY <1>0, <1>2, Zenon DEF CompressingIsLocked, TypeOK, StartCompress
<1>3. ASSUME NEW p \in Pages, RejectCompress(p) PROVE CompressingIsLocked'
  BY <1>0, <1>3, Zenon DEF CompressingIsLocked, TypeOK, RejectCompress, Leave
<1>4. ASSUME NEW p \in Pages, PrepareSnapshot(p) PROVE CompressingIsLocked'
  <2>1. UNCHANGED <<state, lock>>
    BY <1>4, Zenon DEF PrepareSnapshot
  <2> QED
    BY <1>0, <2>1, Zenon DEF CompressingIsLocked
<1>5. ASSUME NEW p \in Pages, Relock(p) PROVE CompressingIsLocked'
  BY <1>0, <1>5 DEF CompressingIsLocked, TypeOK, Relock, Leave
<1>6. ASSUME NEW p \in Pages, VerifyFails(p) PROVE CompressingIsLocked'
  BY <1>0, <1>6, Zenon DEF CompressingIsLocked, TypeOK, VerifyFails, Leave
<1>7. ASSUME NEW p \in Pages, GateFails(p) PROVE CompressingIsLocked'
  <2>1. Leave(p, "ACTIVE")
    BY <1>7, Zenon DEF GateFails
  <2> QED
    BY <1>0, <2>1, Zenon DEF TypeOK, CompressingIsLocked, Leave
<1>8. ASSUME NEW p \in Pages, CopyBack(p) PROVE CompressingIsLocked'
  BY <1>0, <1>8, ZenonT(40) DEF CompressingIsLocked, TypeOK, CopyBack, Leave
<1>9. ASSUME NEW p \in Pages, CommitBlob(p) PROVE CompressingIsLocked'
  BY <1>0, <1>9, Zenon DEF CompressingIsLocked, TypeOK, CommitBlob
<1> QED
  BY <1>1, <1>2, <1>3, <1>4, <1>5, <1>6, <1>7, <1>8, <1>9, Zenon
     DEF PhaseStep, CompressStep

\* COMPRESSING pages, at the other work of the compressor, and the shutdown.
LEMMA CompressingOther ==
  ASSUME Deferred, StructInv, CompressingIsLocked, OtherStep PROVE CompressingIsLocked'
<1> USE DEF At, Doing, pageVars, appVars, workerVars, threadVars, lifeVars
<1>0. TypeOK /\ LockInv /\ StateInv /\ CompressingIsLocked
  BY Zenon DEF StructInv
<1>1. ASSUME \/ \E p \in Pages : Escalate(p) \/ ClearStalePending(p)
             \/ StopCompressor
             \/ UninstallHandler
      PROVE  CompressingIsLocked'
  BY <1>0, <1>1, Zenon DEF CompressingIsLocked, Escalate, ClearStalePending,
     StopCompressor, UninstallHandler
<1>2. ASSUME NEW p \in Pages, MonitorPage(p) PROVE CompressingIsLocked'
  BY <1>0, <1>2, Zenon DEF CompressingIsLocked, TypeOK, MonitorPage
<1>3. ASSUME NEW p \in Pages, CheckMonitored(p) PROVE CompressingIsLocked'
  BY <1>0, <1>3, Zenon DEF CompressingIsLocked, TypeOK, CheckMonitored
<1>4. ASSUME NEW p \in Pages, ProtectMonitored(p) PROVE CompressingIsLocked'
  BY <1>0, <1>4, Zenon DEF CompressingIsLocked, TypeOK, ProtectMonitored
<1>5. ASSUME NEW p \in Pages, SweepPage(p) PROVE CompressingIsLocked'
  BY <1>0, <1>5, Zenon DEF CompressingIsLocked, TypeOK, SweepPage
<1>6. ASSUME NEW p \in Pages, StartReclaim(p) PROVE CompressingIsLocked'
  BY <1>0, <1>6, Zenon DEF CompressingIsLocked, TypeOK, StartReclaim
<1>7. ASSUME NEW p \in Pages, PostponeReclaim(p) PROVE CompressingIsLocked'
  BY <1>0, <1>7 DEF CompressingIsLocked, StateInv, PostponeReclaim, Leave
<1>8. ASSUME NEW p \in Pages, DiscardShadow(p) PROVE CompressingIsLocked'
  BY <1>0, <1>8, Zenon DEF CompressingIsLocked, TypeOK, DiscardShadow, Leave
<1>9. ASSUME NEW p \in Pages, ConfirmShadow(p) PROVE CompressingIsLocked'
  BY <1>0, <1>9, Zenon DEF CompressingIsLocked, TypeOK, ConfirmShadow
<1>10. ASSUME NEW p \in Pages, DropBacking(p) PROVE CompressingIsLocked'
  BY <1>0, <1>10 DEF CompressingIsLocked, StateInv, DropBacking, Leave
<1>11. ASSUME NEW p \in Pages, DrainRestore(p) PROVE CompressingIsLocked'
  BY <1>0, <1>11, Zenon DEF CompressingIsLocked, TypeOK, DrainRestore
<1>12. ASSUME NEW p \in Pages, DrainFinish(p) PROVE CompressingIsLocked'
  <2>1. state[p] # "COMPRESSING"
    BY <1>0, <1>12, Zenon DEF DrainFinish, StateInv
  <2>2. /\ lock' = [lock EXCEPT ![p] = NoOne]
        /\ state' = [state EXCEPT ![p] = "ACTIVE"] \/ state' = [state EXCEPT ![p] = state[p]]
    BY <1>12, Zenon DEF DrainFinish, Leave
  <2> QED
    BY <1>0, <2>1, <2>2, Zenon DEF TypeOK, CompressingIsLocked
<1>13. ASSUME NEW p \in Pages, DrainOther(p) PROVE CompressingIsLocked'
  BY <1>0, <1>13, ZenonT(40) DEF CompressingIsLocked, TypeOK, DrainOther
<1> QED
  BY <1>1, <1>2, <1>3, <1>4, <1>5, <1>6, <1>7, <1>8, <1>9, <1>10, <1>11,
     <1>12, <1>13, Zenon
     DEF OtherStep, StopStep

\* In deferred mode every step keeps a page locked while it is COMPRESSING.
LEMMA CompressingStep ==
  ASSUME Deferred, StructInv, CompressingIsLocked, [Next]_vars PROVE CompressingIsLocked'
<1> USE DEF At, Doing, pageVars, appVars, workerVars, threadVars, lifeVars
<1>0. TypeOK /\ LockInv /\ StateInv /\ CompressingIsLocked
  BY Zenon DEF StructInv
<1>1. CASE UNCHANGED vars
  BY <1>0, <1>1, Zenon DEF vars, CompressingIsLocked
<1> QED
  BY <1>1, CompressingApp, CompressingFault, CompressingPhase,
     CompressingOther, StepCases, Zenon

-----------------------------------------------------------------------------
(* The theorems.                                                           *)

\* StructInv is inductive.
LEMMA StructStep == StructInv /\ [Next]_vars => StructInv'
<1> SUFFICES ASSUME StructInv, [Next]_vars PROVE StructInv'
  OBVIOUS
<1> QED
  BY TypeStep, LockStep, ThreadInvStep, StateStep, SpanStep, Zenon DEF StructInv

\* Locks, thread positions, page states, blobs and the span agree in every
\* reachable state, also when mprotect fails and while stop() drains the pages.
THEOREM Structure == Spec => []StructInv
BY StructInit, StructStep, PTL DEF Spec

\* Every variable keeps its type.
THEOREM TypeCorrect == Spec => []TypeOK
<1>1. StructInv => TypeOK
  BY Zenon DEF StructInv
<1> QED
  BY <1>1, Structure, PTL

\* A page lock that is held has an owner inside a critical section on that
\* page: handleFault, prefetchAdjacent, compressPage, Phase B, the sweep and
\* the drain give their locks back on every path, failing calls included.
THEOREM LocksGivenBack == Spec => []NoLockLeak
<1>1. StructInv => NoLockLeak
  <2> SUFFICES ASSUME StructInv PROVE NoLockLeak
    OBVIOUS
  <2>1. ASSUME NEW p \in Pages, lock[p] = Worker
        PROVE  wpc[p] \in {"decide", "snapshot", "verify", "gate", "copyBack",
                           "compare", "drop", "drain"}
    BY <2>1, Zenon DEF StructInv, LockInv, LockedSteps
  <2>2. ASSUME NEW p \in Pages, NEW t \in Threads, lock[p] = t
        PROVE  \/ tpc[t] \in {"handle", "flip", "copy"} /\ p = acc[t].page
               \/ tpc[t] \in {"flip", "copy"} /\ p \notin todo[t]
    BY <2>2, Zenon DEF StructInv, LockInv
  <2> QED
    BY <2>1, <2>2, Zenon DEF NoLockLeak
<1> QED
  BY <1>1, Structure, PTL

\* A page has a blob exactly while it is COMPRESSED or COMPRESSED_SHADOW:
\* releaseBlob is called on every way out of these states and only there.
THEOREM BlobsMatchStates == Spec => []BlobMatchesState
<1>1. StructInv => BlobMatchesState
  BY Zenon DEF StructInv, StateInv
<1> QED
  BY <1>1, Structure, PTL

\* In deferred mode a COMPRESSING page is locked by the compressor, so the
\* COMPRESSING case of handleFault is never taken.
THEOREM CompressingUnreachable ==
  ASSUME Deferred PROVE Spec => []CompressingIsLocked
<1>1. Init => CompressingIsLocked
  BY Zenon DEF Init, CompressingIsLocked
<1>2. StructInv /\ CompressingIsLocked /\ [Next]_vars => CompressingIsLocked'
  BY CompressingStep, Zenon
<1> QED
  BY <1>1, <1>2, Structure, PTL DEF Spec

=============================================================================
