--------------------------- MODULE PageProtProofs ---------------------------
(***************************************************************************)
(* How far a page is open: proofs about PageLifecycle that need mprotect   *)
(* to succeed and nothing else.  They hold in both modes, with and without *)
(* /proc/self/mem, with pages that cannot be stored, and, except for       *)
(* FaultsSurvived, while the process is shutting down.  Run v_decommit     *)
(* shows what happens without the assumption.  NothingForgotten, about the *)
(* pages still to be reclaimed, does without it where it can.              *)
(***************************************************************************)
EXTENDS PageLifecycleProofs

\* Application data is in allocated slots of a span in service.
OwnerInv ==
  /\ \A p \in Pages, s \in Slots : Holds(p, s) => <<p, s>> \in live
  /\ \A t \in Threads : acc[t] # NoAccess => <<acc[t].page, acc[t].slot>> \in live
  /\ live # {} => span = "inUse"

\* How far a page is open where a worker relies on it: a COMPRESSED page that
\* nobody has locked, a page about to be dropped, one whose snapshot is taken,
\* and one that the snapshot is copied back to.
ClosedInv ==
  \A p \in Pages :
    /\ state[p] = "COMPRESSED" /\ lock[p] = NoOne => prot[p] # "RW"
    /\ wpc[p] = "drop" => prot[p] = "NONE"
    /\ wpc[p] = "relock" /\ state[p] = "COMPRESSING" => prot[p] = "READ"
    /\ wpc[p] \in {"snapshot", "verify", "gate"} =>
         IF Deferred THEN prot[p] # "NONE" ELSE prot[p] = "READ"
    /\ wpc[p] = "copyBack" => prot[p] = "RW"

\* A COMPRESSED page that nobody is restoring, reclaiming or draining: a handler
\* that has taken its lock may still give it back as it is.
Resting(p) ==
  /\ state[p] = "COMPRESSED"
  /\ lock[p] = NoOne \/ \E t \in Threads : lock[p] = t /\ tpc[t] = "handle"

\* Such a page is reclaimed or queued; the drain opens a page before it can fail.
QueuedAt(p) ==
  /\ Resting(p) /\ prot[p] # "RW" =>
       phys[p] = ZeroPage \/ pending[p] \/ wpc[p] = "listed"
  /\ wpc[p] = "drain" /\ ~SelfMem => prot[p] = "RW"

QueuedInv == \A p \in Pages : QueuedAt(p)

\* No thread meets a fault that is not repaired.
AliveInv == life = "running" /\ ~crashed

-----------------------------------------------------------------------------
(* Helper facts.                                                           *)

\* Below the limit on mappings an mprotect does what it is asked.
LEMMA PlainMprotect == ASSUME ~VmaCap, NEW p, NEW q PROVE Mprotect(p, q) = {q}
BY Zenon DEF Mprotect

\* A restore begins under the page lock: other pages keep their protection.
LEMMA PlainRestore ==
  ASSUME ~VmaCap, TypeOK, NEW t, NEW p \in Pages, BeginRestore(t, p)
  PROVE  \A q \in Pages : q # p => prot'[q] = prot[q]
BY Zenon DEF BeginRestore, TypeOK

-----------------------------------------------------------------------------
(* Who owns the data.                                                      *)

\* Application data is in allocated slots, at steps of the application.
LEMMA OwnerApp ==
  ASSUME StructInv, OwnerInv, AppStep PROVE OwnerInv'
<1> USE DEF At, Doing, pageVars, appVars, workerVars, threadVars, lifeVars
<1>0. TypeOK /\ ThreadInv /\ SpanInv /\ OwnerInv
  BY Zenon DEF StructInv
<1>1. ASSUME \/ PurgeResidentEmpty
             \/ \E t \in Threads, p \in Pages : ReleasePage(t, p)
             \/ \E t \in Threads : TakeFault(t)
      PROVE  OwnerInv'
  BY <1>0, <1>1, Zenon DEF OwnerInv, Holds, PurgeResidentEmpty, ReleasePage,
       TakeFault
<1>2. ASSUME NEW p \in Pages, NEW s \in Slots, AllocSlot(p, s) PROVE OwnerInv'
  BY <1>0, <1>2, Zenon DEF OwnerInv, Holds, AllocSlot
<1>3. ASSUME NEW t \in Threads, NEW p \in Pages, NEW s \in Slots, FreeSlot(t, p, s)
      PROVE  OwnerInv'
  BY <1>0, <1>3, Zenon DEF OwnerInv, Holds, TypeOK, FreeSlot
<1>4. ASSUME NEW t \in Threads, RetireSpan(t) PROVE OwnerInv'
  <2>1. live = {} /\ UNCHANGED <<live, mem, acc>>
    BY <1>0, <1>4, Zenon DEF RetireSpan, OwnerInv, SpanInv
  <2> QED
    BY <1>0, <2>1, Zenon DEF OwnerInv, Holds
<1>5. ASSUME NEW t \in Threads, NEW a \in Access, BeginAccess(t, a)
      PROVE  OwnerInv'
  BY <1>0, <1>5, SMT, SMTT(30) DEF OwnerInv, Holds, BeginAccess
<1>6. ASSUME NEW t \in Threads, CompleteAccess(t) PROVE OwnerInv'
  <2>1. /\ <<acc[t].page, acc[t].slot>> \in live /\ UNCHANGED <<live, span>>
        /\ acc' = [acc EXCEPT ![t] = NoAccess]
    BY <1>0, <1>6, Zenon DEF CompleteAccess, OwnerInv, ThreadInv
  <2>2. \A u \in Threads : acc'[u] # NoAccess => <<acc'[u].page, acc'[u].slot>> \in live'
    BY <1>0, <2>1, SMT, SMTT(30) DEF OwnerInv
  <2>3. \A p \in Pages, s \in Slots : Holds(p, s)' => <<p, s>> \in live'
    <3>1. CASE mem' = mem
      BY <1>0, <2>1, <3>1, Zenon DEF OwnerInv, Holds
    <3>2. CASE mem' = [mem EXCEPT ![acc[t].page][acc[t].slot] = acc[t].val]
      <4>1. ASSUME NEW p \in Pages, NEW s \in Slots, <<p, s>> # <<acc[t].page, acc[t].slot>>
            PROVE  mem'[p][s] = mem[p][s]
        BY <1>0, <3>2, <4>1, SMT, SMTT(30) DEF TypeOK
      <4> QED
        BY <1>0, <2>1, <4>1, Zenon DEF OwnerInv, Holds
    <3> QED
      BY <1>6, <3>1, <3>2, Zenon DEF CompleteAccess
  <2> QED
    BY <1>0, <2>1, <2>2, <2>3, Zenon DEF OwnerInv
<1> QED
  BY <1>1, <1>2, <1>3, <1>4, <1>5, <1>6, Zenon
     DEF AppStep

\* Application data is in allocated slots, at the fault handler.
LEMMA OwnerFault ==
  ASSUME StructInv, OwnerInv, FaultStep PROVE OwnerInv'
<1> USE DEF At, Doing, pageVars, appVars, workerVars, threadVars, lifeVars
<1>0. TypeOK /\ ThreadInv /\ SpanInv /\ OwnerInv
  BY Zenon DEF StructInv
<1>1. ASSUME \/ \E t \in Threads : LockForFault(t) \/ FaultCompressed(t)
             \/ \E t \in Threads : FaultCompressedFails(t) \/ ResumeAccess(t)
             \/ \E t \in Threads : FaultCompressing(t) \/ FaultResident(t)
             \/ \E t \in Threads : FaultShadow(t)
             \/ \E t \in Threads, p \in Pages : FinishRestore(t, p)
             \/ \E t \in Threads, p \in Pages : PrefetchPage(t, p)
             \/ \E t \in Threads, p \in Pages : SkipPrefetch(t, p)
      PROVE  OwnerInv'
  BY <1>0, <1>1, Zenon DEF OwnerInv, Holds, LockForFault, FaultCompressed,
       FaultCompressedFails, FinishRestore, PrefetchPage, SkipPrefetch,
       ResumeAccess, FaultCompressing, FaultResident, FaultShadow
<1> QED
  BY <1>1, Zenon
     DEF FaultStep, HandlerStep

\* Application data is in allocated slots, at compressPage.
LEMMA OwnerPhase ==
  ASSUME StructInv, OwnerInv, PhaseStep PROVE OwnerInv'
<1> USE DEF At, Doing, pageVars, appVars, workerVars, threadVars, lifeVars
<1>0. TypeOK /\ ThreadInv /\ SpanInv /\ OwnerInv
  BY Zenon DEF StructInv
<1>1. ASSUME \/ \E p \in Pages : StartCompress(p) \/ RejectCompress(p)
             \/ \E p \in Pages : PrepareSnapshot(p) \/ ArmReadOnly(p)
             \/ \E p \in Pages : Relock(p) \/ Snapshot(p) \/ VerifyFails(p)
             \/ \E p \in Pages : VerifyPasses(p) \/ GateFails(p)
             \/ \E p \in Pages : CopyBack(p) \/ CommitBlob(p)
             \/ \E p \in Pages : FlushPending(p)
      PROVE  OwnerInv'
  BY <1>0, <1>1, Zenon DEF OwnerInv, Holds, StartCompress, RejectCompress,
       PrepareSnapshot, ArmReadOnly, Relock, Snapshot, VerifyFails,
       VerifyPasses, GateFails, CopyBack, CommitBlob, FlushPending
<1> QED
  BY <1>1, Zenon
     DEF PhaseStep, CompressStep

\* Application data is in allocated slots, at the other work of the compressor.
LEMMA OwnerOther ==
  ASSUME StructInv, OwnerInv, OtherStep PROVE OwnerInv'
<1> USE DEF At, Doing, pageVars, appVars, workerVars, threadVars, lifeVars
<1>0. TypeOK /\ ThreadInv /\ SpanInv /\ OwnerInv
  BY Zenon DEF StructInv
<1>1. ASSUME \/ \E p \in Pages : MonitorPage(p) \/ CheckMonitored(p)
             \/ \E p \in Pages : ProtectMonitored(p) \/ Escalate(p)
             \/ \E p \in Pages : ClearStalePending(p) \/ SweepPage(p)
             \/ \E p \in Pages : StartReclaim(p) \/ PostponeReclaim(p)
             \/ \E p \in Pages : DiscardShadow(p) \/ ConfirmShadow(p)
             \/ \E p \in Pages : DropBacking(p) \/ DrainRestore(p)
             \/ \E p \in Pages : DrainFinish(p) \/ DrainOther(p)
             \/ StopCompressor
             \/ UninstallHandler
      PROVE  OwnerInv'
  BY <1>0, <1>1, Zenon DEF OwnerInv, Holds, MonitorPage, CheckMonitored,
       ProtectMonitored, Escalate, ClearStalePending, SweepPage, StartReclaim,
       PostponeReclaim, DiscardShadow, ConfirmShadow, DropBacking,
       StopCompressor, DrainRestore, DrainFinish, DrainOther, UninstallHandler
<1> QED
  BY <1>1, Zenon
     DEF OtherStep, StopStep

\* Every step keeps application data in allocated slots.
LEMMA OwnerStep ==
  ASSUME StructInv, OwnerInv, [Next]_vars PROVE OwnerInv'
<1> USE DEF At, Doing, pageVars, appVars, workerVars, threadVars, lifeVars
<1>0. TypeOK /\ ThreadInv /\ SpanInv /\ OwnerInv
  BY Zenon DEF StructInv
<1>1. CASE UNCHANGED vars
  BY <1>0, <1>1, Zenon DEF vars, OwnerInv, Holds
<1> QED
  BY <1>1, OwnerApp, OwnerFault, OwnerPhase, OwnerOther, StepCases, Zenon

\* Whatever fails, application data is in allocated slots of a span in service,
\* and so are the slots that threads access (allocate, deallocateOne,
\* retireEmptySpan).
THEOREM Ownership == Spec => [](StructInv /\ OwnerInv)
<1>1. Init => OwnerInv
  BY DEF Init, OwnerInv, Holds
<1>2. StructInv /\ OwnerInv /\ [Next]_vars => OwnerInv'
  BY OwnerStep, Zenon
<1> QED
  BY <1>1, <1>2, Structure, PTL DEF Spec

-----------------------------------------------------------------------------
(* How far a page is open.                                                 *)

\* Pages are as closed as their workers rely on, at steps of the application.
LEMMA ClosedApp ==
  ASSUME ~VmaCap, StructInv, ClosedInv, AppStep PROVE ClosedInv'
<1> USE DEF At, Doing, pageVars, appVars, workerVars, threadVars, lifeVars
<1>0. ~VmaCap /\ TypeOK /\ LockInv /\ ThreadInv /\ StateInv /\ ClosedInv
  BY Zenon DEF StructInv
<1>1. ASSUME \/ PurgeResidentEmpty
             \/ \E t \in Threads : RetireSpan(t) \/ TakeFault(t)
      PROVE  ClosedInv'
  BY <1>0, <1>1, SMT, SMTT(30) DEF ClosedInv, PurgeResidentEmpty, RetireSpan, TakeFault
<1>2. ASSUME NEW p \in Pages, NEW s \in Slots, AllocSlot(p, s) PROVE ClosedInv'
  BY <1>0, <1>2, Zenon DEF ClosedInv, AllocSlot
<1>3. ASSUME NEW t \in Threads, NEW p \in Pages, NEW s \in Slots, FreeSlot(t, p, s)
      PROVE  ClosedInv'
  BY <1>0, <1>3, Zenon DEF ClosedInv, FreeSlot
<1>4. ASSUME NEW t \in Threads, NEW p \in Pages, ReleasePage(t, p)
      PROVE  ClosedInv'
  BY <1>0, <1>4, OwnerAssumption, SMT, SMTT(30) DEF ClosedInv, ReleasePage
<1>5. ASSUME NEW t \in Threads, NEW a \in Access, BeginAccess(t, a)
      PROVE  ClosedInv'
  BY <1>0, <1>5, Zenon DEF ClosedInv, BeginAccess
<1>6. ASSUME NEW t \in Threads, CompleteAccess(t) PROVE ClosedInv'
  BY <1>0, <1>6, Zenon DEF ClosedInv, CompleteAccess
<1> QED
  BY <1>1, <1>2, <1>3, <1>4, <1>5, <1>6, Zenon
     DEF AppStep

\* Pages are as closed as their workers rely on, at the fault handler.
LEMMA ClosedFault ==
  ASSUME ~VmaCap, StructInv, ClosedInv, FaultStep PROVE ClosedInv'
<1> USE DEF At, Doing, pageVars, appVars, workerVars, threadVars, lifeVars
<1>0. ~VmaCap /\ TypeOK /\ LockInv /\ ThreadInv /\ StateInv /\ ClosedInv
  BY Zenon DEF StructInv
<1>1. ASSUME \/ \E t \in Threads, p \in Pages : SkipPrefetch(t, p)
             \/ \E t \in Threads : ResumeAccess(t)
      PROVE  ClosedInv'
  BY <1>0, <1>1, SMT, SMTT(30) DEF ClosedInv, SkipPrefetch, ResumeAccess
<1>2. ASSUME NEW t \in Threads, LockForFault(t) PROVE ClosedInv'
  BY <1>0, <1>2, OwnerAssumption, SMT, ZenonT(40) DEF ClosedInv, TypeOK, Access, LockForFault
<1>3. ASSUME NEW t \in Threads, FaultCompressed(t) PROVE ClosedInv'
  <2> DEFINE p == acc[t].page
  <2>1. p \in Pages /\ lock[p] = t /\ state[p] = "COMPRESSED"
    BY <1>0, <1>3, ZenonT(40) DEF FaultCompressed, TypeOK, LockInv, ThreadInv, Access
  <2>2. UNCHANGED <<state, lock, wpc>> /\ \A q \in Pages : q # p => prot'[q] = prot[q]
    BY <1>0, <1>3, <2>1, PlainRestore, Zenon DEF FaultCompressed
  <2>3. wpc[p] \notin LockedSteps /\ lock[p] # NoOne /\ wpc[p] # "relock"
    BY <1>0, <2>1, OwnerAssumption, SMT, SMTT(30) DEF LockInv, StateInv
  <2> QED
    BY <1>0, <2>1, <2>2, <2>3, SMT, ZenonT(40) DEF ClosedInv, LockedSteps
<1>4. ASSUME NEW t \in Threads, FaultCompressedFails(t) PROVE ClosedInv'
  BY <1>0, <1>4, OwnerAssumption, Zenon DEF Access, FaultCompressedFails
<1>5. ASSUME NEW t \in Threads, NEW p \in Pages, FinishRestore(t, p)
       PROVE  ClosedInv'
  BY <1>0, <1>5, OwnerAssumption, SMT, SMTT(30) DEF ClosedInv, TypeOK, LockInv, LockedSteps,
       FinishRestore
<1>6. ASSUME NEW t \in Threads, NEW p \in Pages, PrefetchPage(t, p)
       PROVE  ClosedInv'
  <2>1. UNCHANGED <<state, wpc>> /\ \A q \in Pages : q # p => prot'[q] = prot[q] /\ lock'[q] = lock[q]
    BY <1>0, <1>6, PlainRestore, Zenon DEF PrefetchPage, TypeOK
  <2>2. lock[p] = NoOne /\ lock'[p] = t /\ state[p] = "COMPRESSED"
    BY <1>0, <1>6, Zenon DEF PrefetchPage, TypeOK
  <2>3. wpc[p] \notin LockedSteps /\ lock'[p] # NoOne /\ wpc[p] # "relock"
    BY <1>0, <2>2, OwnerAssumption, Zenon DEF LockInv, StateInv
  <2> QED
    BY <1>0, <2>1, <2>2, <2>3, SMT, ZenonT(40) DEF ClosedInv, LockedSteps
<1>7. ASSUME NEW t \in Threads, FaultCompressing(t) PROVE ClosedInv'
  BY <1>0, <1>7, OwnerAssumption, PlainMprotect, SMT, SMTT(30) DEF ClosedInv, TypeOK, LockInv,
       LockedSteps, Access, FaultCompressing
<1>8. ASSUME NEW t \in Threads, FaultResident(t) PROVE ClosedInv'
  BY <1>0, <1>8, OwnerAssumption, PlainMprotect, SMT, SMTT(30) DEF ClosedInv, LockInv,
       LockedSteps, Access, FaultResident
<1>9. ASSUME NEW t \in Threads, FaultShadow(t) PROVE ClosedInv'
  BY <1>0, <1>9, OwnerAssumption, PlainMprotect, SMT, SMTT(30) DEF ClosedInv, LockInv,
       LockedSteps, Access, FaultShadow
<1> QED
  BY <1>1, <1>2, <1>3, <1>4, <1>5, <1>6, <1>7, <1>8, <1>9, Zenon
     DEF FaultStep, HandlerStep

\* Pages are as closed as their workers rely on, at compressPage.
LEMMA ClosedPhase ==
  ASSUME ~VmaCap, StructInv, ClosedInv, PhaseStep PROVE ClosedInv'
<1> USE DEF At, Doing, pageVars, appVars, workerVars, threadVars, lifeVars
<1>0. ~VmaCap /\ TypeOK /\ LockInv /\ ThreadInv /\ StateInv /\ ClosedInv
  BY Zenon DEF StructInv
<1>1. ASSUME NEW p \in Pages, StartCompress(p) PROVE ClosedInv'
  BY <1>0, <1>1, OwnerAssumption, SMT, SMTT(30) DEF ClosedInv, Turn, StartCompress
<1>2. ASSUME NEW p \in Pages, RejectCompress(p) PROVE ClosedInv'
  BY <1>0, <1>2, OwnerAssumption, SMT, SMTT(30) DEF ClosedInv, StateInv, RejectCompress, Leave
<1>3. ASSUME NEW p \in Pages, PrepareSnapshot(p) PROVE ClosedInv'
  <2>1. state[p] = "COMPRESSING" /\ state' = state
    BY <1>0, <1>3, Zenon DEF PrepareSnapshot, StateInv
  <2>2. CASE Deferred
    <3>1. /\ prot' = [prot EXCEPT ![p] = "RW"] /\ wpc' = [wpc EXCEPT ![p] = "snapshot"]
          /\ lock' = lock
      BY <1>3, <2>2, PlainMprotect, SMT, SMTT(30) DEF PrepareSnapshot
    <3> QED
      BY <1>0, <2>1, <2>2, <3>1, Zenon DEF TypeOK, ClosedInv
  <2>3. CASE ~Deferred
    <3>1. /\ prot' = prot /\ wpc' = [wpc EXCEPT ![p] = "arm"]
          /\ lock' = [lock EXCEPT ![p] = NoOne]
      BY <1>3, <2>3, Zenon DEF PrepareSnapshot
    <3> QED
      BY <1>0, <2>1, <2>3, <3>1, SMT, SMTT(30) DEF ClosedInv
  <2> QED
    BY <2>2, <2>3, Zenon
<1>4. ASSUME NEW p \in Pages, ArmReadOnly(p) PROVE ClosedInv'
  BY <1>0, <1>4, OwnerAssumption, PlainMprotect, SMT, SMTT(30) DEF ClosedInv, TypeOK,
       ArmReadOnly
<1>5. ASSUME NEW p \in Pages, Relock(p) PROVE ClosedInv'
  BY <1>0, <1>5, OwnerAssumption, PlainMprotect, SMT, SMTT(30) DEF ClosedInv, TypeOK,
       StateInv, Relock, Leave
<1>6. ASSUME NEW p \in Pages, Snapshot(p) PROVE ClosedInv'
  BY <1>0, <1>6, OwnerAssumption, SMT, SMTT(30) DEF ClosedInv, TypeOK, Snapshot
<1>7. ASSUME NEW p \in Pages, VerifyFails(p) PROVE ClosedInv'
  BY <1>0, <1>7, OwnerAssumption, PlainMprotect, SMT, SMTT(30) DEF ClosedInv, TypeOK,
       VerifyFails, Leave
<1>8. ASSUME NEW p \in Pages, VerifyPasses(p) PROVE ClosedInv'
  BY <1>0, <1>8, SMT, SMTT(30) DEF ClosedInv, VerifyPasses
<1>9. ASSUME NEW p \in Pages, GateFails(p) PROVE ClosedInv'
  BY <1>0, <1>9, OwnerAssumption, PlainMprotect, SMT, SMTT(30) DEF ClosedInv, TypeOK, LockInv,
       LockedSteps, GateFails, Leave
<1>10. ASSUME NEW p \in Pages, CopyBack(p) PROVE ClosedInv'
  BY <1>0, <1>10, OwnerAssumption, SMT, SMTT(30) DEF ClosedInv, TypeOK, CopyBack, Leave
<1>11. ASSUME NEW p \in Pages, CommitBlob(p) PROVE ClosedInv'
  BY <1>0, <1>11, OwnerAssumption, SMT, SMTT(30) DEF ClosedInv, StateInv, CommitBlob
<1>12. ASSUME NEW p \in Pages, FlushPending(p) PROVE ClosedInv'
  BY <1>0, <1>12, OwnerAssumption, SMT, SMTT(30) DEF ClosedInv, FlushPending
<1> QED
  BY <1>1, <1>2, <1>3, <1>4, <1>5, <1>6, <1>7, <1>8, <1>9, <1>10, <1>11, <1>12, ZenonT(40)
     DEF PhaseStep, CompressStep

\* Pages are as closed as their workers rely on, at the other work of the compressor.
LEMMA ClosedOther ==
  ASSUME ~VmaCap, StructInv, ClosedInv, OtherStep PROVE ClosedInv'
<1> USE DEF At, Doing, pageVars, appVars, workerVars, threadVars, lifeVars
<1>0. ~VmaCap /\ TypeOK /\ LockInv /\ ThreadInv /\ StateInv /\ ClosedInv
  BY Zenon DEF StructInv
<1>1. ASSUME \/ \E p \in Pages : ClearStalePending(p)
             \/ StopCompressor
             \/ UninstallHandler
      PROVE  ClosedInv'
  BY <1>0, <1>1, SMT, ZenonT(40) DEF ClosedInv, ClearStalePending, StopCompressor,
     UninstallHandler
<1>2. ASSUME NEW p \in Pages, MonitorPage(p) PROVE ClosedInv'
  BY <1>0, <1>2, OwnerAssumption, SMT, SMTT(30) DEF ClosedInv, Turn, MonitorPage
<1>3. ASSUME NEW p \in Pages, CheckMonitored(p) PROVE ClosedInv'
  BY <1>0, <1>3, OwnerAssumption, SMT, SMTT(30) DEF ClosedInv, TypeOK, CheckMonitored
<1>4. ASSUME NEW p \in Pages, ProtectMonitored(p) PROVE ClosedInv'
  BY <1>0, <1>4, OwnerAssumption, SMT, SMTT(30) DEF ClosedInv, TypeOK, ProtectMonitored
<1>5. ASSUME NEW p \in Pages, Escalate(p) PROVE ClosedInv'
  BY <1>0, <1>5, OwnerAssumption, PlainMprotect, SMT, SMTT(30) DEF ClosedInv, Turn, Escalate
<1>6. ASSUME NEW p \in Pages, SweepPage(p) PROVE ClosedInv'
  BY <1>0, <1>6, OwnerAssumption, PlainMprotect, SMT, SMTT(30) DEF ClosedInv, TypeOK, Turn,
       SweepPage
<1>7. ASSUME NEW p \in Pages, StartReclaim(p) PROVE ClosedInv'
  BY <1>0, <1>7, OwnerAssumption, PlainMprotect, SMT, SMTT(30) DEF ClosedInv, Turn,
       StartReclaim
<1>8. ASSUME NEW p \in Pages, PostponeReclaim(p) PROVE ClosedInv'
  BY <1>0, <1>8, OwnerAssumption, PlainMprotect, SMT, SMTT(30) DEF ClosedInv, StateInv,
       PostponeReclaim, Leave
<1>9. ASSUME NEW p \in Pages, DiscardShadow(p) PROVE ClosedInv'
  BY <1>0, <1>9, OwnerAssumption, PlainMprotect, SMT, SMTT(30) DEF ClosedInv, StateInv,
       DiscardShadow, Leave
<1>10. ASSUME NEW p \in Pages, ConfirmShadow(p) PROVE ClosedInv'
  BY <1>0, <1>10, OwnerAssumption, PlainMprotect, SMT, SMTT(30) DEF ClosedInv, TypeOK,
       ConfirmShadow
<1>11. ASSUME NEW p \in Pages, DropBacking(p) PROVE ClosedInv'
  BY <1>0, <1>11, OwnerAssumption, SMT, SMTT(30) DEF ClosedInv, DropBacking, Leave
<1>12. ASSUME NEW p \in Pages, DrainRestore(p) PROVE ClosedInv'
  BY <1>0, <1>12, OwnerAssumption, SMT, SMTT(30) DEF ClosedInv, TypeOK, DrainRestore
<1>13. ASSUME NEW p \in Pages, DrainFinish(p) PROVE ClosedInv'
  <2>1. state[p] \in {"COMPRESSED", "COMPRESSED_SHADOW"} /\ wpc[p] = "drain"
    BY <1>0, <1>13, Zenon DEF DrainFinish, StateInv
  <2>2. /\ state' = [state EXCEPT ![p] = "ACTIVE"] /\ lock' = [lock EXCEPT ![p] = NoOne]
        /\ wpc' = [wpc EXCEPT ![p] = "idle"] /\ prot' = [prot EXCEPT ![p] = "RW"]
    BY <1>0, <1>13, Zenon DEF DrainFinish, Leave
  <2> QED
    BY <1>0, <2>1, <2>2, SMT, ZenonT(40) DEF ClosedInv, TypeOK
<1>14. ASSUME NEW p \in Pages, DrainOther(p) PROVE ClosedInv'
  BY <1>0, <1>14, OwnerAssumption, PlainMprotect, SMT, SMTT(30) DEF ClosedInv, TypeOK,
       LockInv, LockedSteps, DrainOther
<1> QED
  BY <1>1, <1>2, <1>3, <1>4, <1>5, <1>6, <1>7, <1>8, <1>9, <1>10, <1>11,
     <1>12, <1>13, <1>14, Zenon
     DEF OtherStep, StopStep

\* Every step keeps pages as closed as their workers rely on.
LEMMA ClosedStep ==
  ASSUME ~VmaCap, StructInv, ClosedInv, [Next]_vars PROVE ClosedInv'
<1> USE DEF At, Doing, pageVars, appVars, workerVars, threadVars, lifeVars
<1>0. ~VmaCap /\ TypeOK /\ LockInv /\ ThreadInv /\ StateInv /\ ClosedInv
  BY Zenon DEF StructInv
<1>1. CASE UNCHANGED vars
  BY <1>0, <1>1, Zenon DEF vars, ClosedInv
<1> QED
  BY <1>1, ClosedApp, ClosedFault, ClosedPhase, ClosedOther, StepCases, Zenon

\* Below the limit on mappings pages are as closed as their workers rely on.
THEOREM Closedness == ASSUME ~VmaCap PROVE Spec => [](StructInv /\ ClosedInv)
<1>1. Init => ClosedInv
  BY Zenon DEF Init, ClosedInv
<1>2. StructInv /\ ClosedInv /\ [Next]_vars => ClosedInv'
  BY ClosedStep, Zenon
<1> QED
  BY <1>1, <1>2, Structure, PTL DEF Spec

\* As long as mprotect succeeds only closed pages are decommitted, in Phase B and
\* in the sweep, also while the process is shutting down (the comment at
\* decommitPages; v_decommit shows that it fails at the limit on mappings).
THEOREM DecommitsAreClosed == ASSUME ~VmaCap PROVE Spec => []DecommitOnlyClosed
<1>1. ClosedInv => DecommitOnlyClosed
  BY Zenon DEF ClosedInv, DecommitOnlyClosed
<1> QED
  BY <1>1, Closedness, PTL

\* As long as mprotect succeeds a COMPRESSED page is closed to stores whenever its
\* lock is free, with and without /proc/self/mem and during the shutdown drain,
\* so that its blob cannot go stale (compressPage, Phase B, handleFault, the
\* drain).
THEOREM BlobsStayCurrent == ASSUME ~VmaCap PROVE Spec => []CompressedNeverWritable
<1>1. ClosedInv => CompressedNeverWritable
  BY Zenon DEF ClosedInv, CompressedNeverWritable
<1> QED
  BY <1>1, Closedness, PTL

-----------------------------------------------------------------------------
(* Faults.                                                                 *)

\* No fault is fatal, at steps of the application.
LEMMA AliveApp ==
  ASSUME ~VmaCap, ~Shutdown, StructInv, OwnerInv, ClosedInv, AliveInv, AppStep PROVE AliveInv'
<1> USE DEF At, Doing, pageVars, appVars, workerVars, threadVars, lifeVars
<1>0. ~Shutdown /\ TypeOK /\ ThreadInv /\ SpanInv /\ OwnerInv /\ ClosedInv /\ AliveInv
  BY Zenon DEF StructInv
<1>1. ASSUME \/ \E p \in Pages, s \in Slots : AllocSlot(p, s)
             \/ PurgeResidentEmpty
             \/ \E t \in Threads, p \in Pages, s \in Slots : FreeSlot(t, p, s)
             \/ \E t \in Threads, p \in Pages : ReleasePage(t, p)
             \/ \E t \in Threads : RetireSpan(t) \/ CompleteAccess(t)
             \/ \E t \in Threads, a \in Access : BeginAccess(t, a)
      PROVE  AliveInv'
  <2>1. life' = life /\ crashed' = crashed
    BY <1>1, Zenon DEF AllocSlot, PurgeResidentEmpty, FreeSlot, ReleasePage,
       RetireSpan, BeginAccess, CompleteAccess
  <2> QED
    BY <1>0, <2>1, Zenon DEF AliveInv
<1>2. ASSUME NEW t \in Threads, TakeFault(t) PROVE AliveInv'
  BY <1>0, <1>2, Zenon DEF AliveInv, TakeFault
<1> QED
  BY <1>1, <1>2, Zenon
     DEF AppStep

\* No fault is fatal, at the fault handler.
LEMMA AliveFault ==
  ASSUME ~VmaCap, ~Shutdown, StructInv, OwnerInv, ClosedInv, AliveInv, FaultStep PROVE AliveInv'
<1> USE DEF At, Doing, pageVars, appVars, workerVars, threadVars, lifeVars
<1>0. ~Shutdown /\ TypeOK /\ ThreadInv /\ SpanInv /\ OwnerInv /\ ClosedInv /\ AliveInv
  BY Zenon DEF StructInv
<1>1. ASSUME \/ \E t \in Threads : FaultCompressed(t)
             \/ \E t \in Threads : FaultCompressedFails(t) \/ ResumeAccess(t)
             \/ \E t \in Threads : FaultCompressing(t) \/ FaultResident(t)
             \/ \E t \in Threads : FaultShadow(t)
             \/ \E t \in Threads, p \in Pages : FinishRestore(t, p)
             \/ \E t \in Threads, p \in Pages : PrefetchPage(t, p)
             \/ \E t \in Threads, p \in Pages : SkipPrefetch(t, p)
      PROVE  AliveInv'
  <2>1. life' = life /\ crashed' = crashed
    BY <1>1, Zenon DEF FaultCompressed, FaultCompressedFails, FinishRestore,
       PrefetchPage, SkipPrefetch, ResumeAccess, FaultCompressing,
       FaultResident, FaultShadow
  <2> QED
    BY <1>0, <2>1, Zenon DEF AliveInv
<1>2. ASSUME NEW t \in Threads, LockForFault(t) PROVE AliveInv'
  <2> DEFINE p == acc[t].page
  <2>1. acc[t] # NoAccess /\ acc[t] \in Access
    BY <1>0, <1>2, Zenon DEF LockForFault, ThreadInv, TypeOK
  <2>2. p \in Pages /\ span = "inUse"
    BY <1>0, <2>1, Zenon DEF OwnerInv, Access
  <2>3. state[p] # "EMPTY"
    BY <1>0, <2>2, Zenon DEF SpanInv
  <2> QED
    BY <1>0, <1>2, <2>3, Zenon DEF LockForFault, AliveInv
<1> QED
  BY <1>1, <1>2, Zenon
     DEF FaultStep, HandlerStep

\* No fault is fatal, at compressPage.
LEMMA AlivePhase ==
  ASSUME ~VmaCap, ~Shutdown, StructInv, OwnerInv, ClosedInv, AliveInv, PhaseStep PROVE AliveInv'
<1> USE DEF At, Doing, pageVars, appVars, workerVars, threadVars, lifeVars
<1>0. ~Shutdown /\ TypeOK /\ ThreadInv /\ SpanInv /\ OwnerInv /\ ClosedInv /\ AliveInv
  BY Zenon DEF StructInv
<1>1. ASSUME \/ \E p \in Pages : StartCompress(p) \/ RejectCompress(p)
             \/ \E p \in Pages : PrepareSnapshot(p) \/ ArmReadOnly(p)
             \/ \E p \in Pages : Relock(p) \/ VerifyFails(p)
             \/ \E p \in Pages : VerifyPasses(p) \/ GateFails(p)
             \/ \E p \in Pages : CommitBlob(p) \/ FlushPending(p)
      PROVE  AliveInv'
  <2>1. life' = life /\ crashed' = crashed
    BY <1>1, Zenon DEF StartCompress, RejectCompress, PrepareSnapshot,
       ArmReadOnly, Relock, VerifyFails, VerifyPasses, GateFails, CommitBlob,
       FlushPending
  <2> QED
    BY <1>0, <2>1, Zenon DEF AliveInv
<1>2. ASSUME NEW p \in Pages, Snapshot(p) PROVE AliveInv'
  <2>1. prot[p] # "NONE"
    BY <1>0, <1>2, Zenon DEF Snapshot, ClosedInv
  <2> QED
    BY <1>0, <1>2, <2>1, Zenon DEF Snapshot, AliveInv
<1>3. ASSUME NEW p \in Pages, CopyBack(p) PROVE AliveInv'
  <2>1. prot[p] = "RW"
    BY <1>0, <1>3, Zenon DEF CopyBack, ClosedInv
  <2> QED
    BY <1>0, <1>3, <2>1, Zenon DEF CopyBack, AliveInv
<1> QED
  BY <1>1, <1>2, <1>3, Zenon
     DEF PhaseStep, CompressStep

\* No fault is fatal, at the other work of the compressor.
LEMMA AliveOther ==
  ASSUME ~VmaCap, ~Shutdown, StructInv, OwnerInv, ClosedInv, AliveInv, OtherStep PROVE AliveInv'
<1> USE DEF At, Doing, pageVars, appVars, workerVars, threadVars, lifeVars
<1>0. ~Shutdown /\ TypeOK /\ ThreadInv /\ SpanInv /\ OwnerInv /\ ClosedInv /\ AliveInv
  BY Zenon DEF StructInv
<1>1. ASSUME \/ \E p \in Pages : MonitorPage(p) \/ CheckMonitored(p)
             \/ \E p \in Pages : ProtectMonitored(p) \/ Escalate(p)
             \/ \E p \in Pages : ClearStalePending(p) \/ SweepPage(p)
             \/ \E p \in Pages : StartReclaim(p) \/ PostponeReclaim(p)
             \/ \E p \in Pages : DiscardShadow(p) \/ ConfirmShadow(p)
             \/ \E p \in Pages : DropBacking(p) \/ DrainRestore(p)
             \/ \E p \in Pages : DrainFinish(p) \/ DrainOther(p)
      PROVE  AliveInv'
  <2>1. life' = life /\ crashed' = crashed
    BY <1>1, Zenon DEF MonitorPage, CheckMonitored, ProtectMonitored,
       Escalate, ClearStalePending, SweepPage, StartReclaim, PostponeReclaim,
       DiscardShadow, ConfirmShadow, DropBacking, DrainRestore, DrainFinish,
       DrainOther
  <2> QED
    BY <1>0, <2>1, Zenon DEF AliveInv
<1>2. ASSUME StopCompressor PROVE AliveInv'
  BY <1>0, <1>2, Zenon DEF AliveInv, StopCompressor
<1>3. ASSUME UninstallHandler PROVE AliveInv'
  BY <1>0, <1>3, Zenon DEF AliveInv, UninstallHandler
<1> QED
  BY <1>1, <1>2, <1>3, Zenon
     DEF OtherStep, StopStep

\* Every step of a running process whose mprotects succeed keeps it alive.
LEMMA AliveStep ==
  ASSUME ~VmaCap, ~Shutdown, StructInv, OwnerInv, ClosedInv, AliveInv, [Next]_vars PROVE AliveInv'
<1> USE DEF At, Doing, pageVars, appVars, workerVars, threadVars, lifeVars
<1>0. ~Shutdown /\ TypeOK /\ ThreadInv /\ SpanInv /\ OwnerInv /\ ClosedInv /\ AliveInv
  BY Zenon DEF StructInv
<1>1. CASE UNCHANGED vars
  BY <1>0, <1>1, Zenon DEF vars, AliveInv
<1> QED
  BY <1>1, AliveApp, AliveFault, AlivePhase, AliveOther, StepCases, Zenon

\* As long as mprotect succeeds and the process is not shutting down no fault is
\* fatal: the handler never meets an EMPTY page and no worker faults on a page it
\* has locked, also without /proc/self/mem and with pages that standard mode
\* cannot store (handleFault, compressPage).
THEOREM FaultsSurvived == ASSUME ~VmaCap, ~Shutdown PROVE Spec => []NoFatalFault
<1>1. Init => AliveInv
  BY Zenon DEF Init, AliveInv
<1>2. StructInv /\ OwnerInv /\ ClosedInv /\ AliveInv /\ [Next]_vars => AliveInv'
  BY AliveStep, Zenon
<1>3. AliveInv => NoFatalFault
  BY Zenon DEF AliveInv, NoFatalFault
<1> QED
  BY <1>1, <1>2, <1>3, Ownership, Closedness, PTL DEF Spec

-----------------------------------------------------------------------------
(* The pending list.                                                       *)

\* The step leaves every page but p alone.
Elsewhere(p) ==
  \A q \in Pages \ {p} :
    /\ state'[q] = state[q] /\ lock'[q] = lock[q] /\ prot'[q] = prot[q]
    /\ phys'[q] = phys[q] /\ pending'[q] = pending[q] /\ wpc'[q] = wpc[q]

\* No thread comes to handle a fault on a page other than p.
NoHandler(p) ==
  \A q \in Pages \ {p}, t \in Threads :
    lock[q] = t /\ tpc'[t] = "handle" => tpc[t] = "handle"

\* Compressed pages are queued, at a step that leaves other pages than p alone.
LEMMA QueuedElsewhere ==
  ASSUME QueuedInv, NEW p \in Pages, Elsewhere(p), NoHandler(p), QueuedAt(p)'
  PROVE  QueuedInv'
<1> SUFFICES ASSUME NEW q \in Pages, q # p PROVE QueuedAt(q)'
  BY Zenon DEF QueuedInv
<1>1. /\ state'[q] = state[q] /\ lock'[q] = lock[q] /\ prot'[q] = prot[q]
      /\ phys'[q] = phys[q] /\ pending'[q] = pending[q] /\ wpc'[q] = wpc[q]
  BY Zenon DEF Elsewhere
<1>2. Resting(q)' => Resting(q)
  BY <1>1, Zenon DEF Resting, NoHandler
<1>3. QueuedAt(q)
  BY Zenon DEF QueuedInv
<1> QED
  BY <1>1, <1>2, <1>3, Zenon DEF QueuedAt, ZeroPage

\* Compressed pages are queued, at a step that only drops or stores contents.
LEMMA QueuedSame ==
  ASSUME QueuedInv, UNCHANGED <<state, lock, prot, pending, wpc>>,
         \A q \in Pages : phys'[q] = phys[q] \/ phys'[q] = ZeroPage \/ prot[q] = "RW",
         \A t \in Threads : tpc'[t] = "handle" => tpc[t] = "handle"
  PROVE  QueuedInv'
<1> SUFFICES ASSUME NEW q \in Pages PROVE QueuedAt(q)'
  BY Zenon DEF QueuedInv
<1>1. Resting(q)' => Resting(q)
  BY Zenon DEF Resting
<1>2. QueuedAt(q)
  BY Zenon DEF QueuedInv
<1> QED
  BY <1>1, <1>2, Zenon DEF QueuedAt, ZeroPage

\* A page that is not COMPRESSED, or that the worker has locked, is not resting.
LEMMA QueuedAway ==
  ASSUME NEW p \in Pages, state'[p] # "COMPRESSED" \/ lock'[p] = Worker, wpc'[p] # "drain"
  PROVE  QueuedAt(p)'
BY OwnerAssumption, Zenon DEF QueuedAt, Resting

\* Neither is a page that a thread is restoring.
LEMMA QueuedRestored ==
  ASSUME NEW p \in Pages, NEW t \in Threads, lock'[p] = t, tpc'[t] # "handle",
         wpc'[p] # "drain"
  PROVE  QueuedAt(p)'
BY OwnerAssumption, Zenon DEF QueuedAt, Resting

\* The drain of a page holds its lock.
LEMMA DrainLocked ==
  ASSUME LockInv, NEW p \in Pages, lock[p] # Worker PROVE wpc[p] # "drain"
BY Zenon DEF LockInv, LockedSteps

\* Compressed pages are queued, at a step of the worker of page p.
LEMMA QuietElsewhere ==
  ASSUME QueuedInv, NEW p \in Pages, Elsewhere(p), UNCHANGED tpc, QueuedAt(p)'
  PROVE  QueuedInv'
BY QueuedElsewhere, Zenon DEF NoHandler

\* Compressed pages are queued, at steps of the application.
LEMMA QueuedApp ==
  ASSUME ~(VmaCap /\ SelfMem), StructInv, QueuedInv, AppStep PROVE QueuedInv'
<1> USE DEF At, Doing, pageVars, appVars, workerVars, threadVars, lifeVars
<1>0. TypeOK /\ LockInv /\ ThreadInv /\ StateInv /\ QueuedInv
  BY Zenon DEF StructInv
<1>1. ASSUME NEW p \in Pages, NEW s \in Slots, AllocSlot(p, s) PROVE QueuedInv'
  <2>1. UNCHANGED <<lock, prot, phys, pending, wpc, tpc>>
    BY <1>1, Zenon DEF AllocSlot
  <2>2. \A q \in Pages : state'[q] = "COMPRESSED" => state[q] = "COMPRESSED"
    BY <1>1, Zenon DEF AllocSlot
  <2>3. \A q \in Pages : Resting(q)' => Resting(q)
    BY <2>1, <2>2, Zenon DEF Resting
  <2> QED
    BY <1>0, <2>1, <2>3, Zenon DEF QueuedInv, QueuedAt, ZeroPage
<1>2. ASSUME PurgeResidentEmpty PROVE QueuedInv'
  <2>1. UNCHANGED <<state, lock, prot, pending, wpc>>
    BY <1>2, Zenon DEF PurgeResidentEmpty
  <2>2. \A q \in Pages : phys'[q] = phys[q] \/ phys'[q] = ZeroPage \/ prot[q] = "RW"
    BY <1>2, Zenon DEF PurgeResidentEmpty
  <2>3. \A u \in Threads : tpc'[u] = "handle" => tpc[u] = "handle"
    BY <1>0, <1>2, ZenonT(40) DEF PurgeResidentEmpty, TypeOK
  <2> QED
    BY <1>0, <2>1, <2>2, <2>3, QueuedSame, Zenon
<1>3. ASSUME NEW t \in Threads, NEW p \in Pages, NEW s \in Slots, FreeSlot(t, p, s) PROVE QueuedInv'
  <2>1. UNCHANGED <<state, lock, prot, pending, wpc>>
    BY <1>3, Zenon DEF FreeSlot
  <2>2. \A q \in Pages : phys'[q] = phys[q] \/ phys'[q] = ZeroPage \/ prot[q] = "RW"
    BY <1>3, Zenon DEF FreeSlot
  <2>3. \A u \in Threads : tpc'[u] = "handle" => tpc[u] = "handle"
    BY <1>0, <1>3, ZenonT(40) DEF FreeSlot, TypeOK
  <2> QED
    BY <1>0, <2>1, <2>2, <2>3, QueuedSame, Zenon
<1>4. ASSUME NEW t \in Threads, NEW p \in Pages, ReleasePage(t, p) PROVE QueuedInv'
  <2>1. Elsewhere(p) /\ NoHandler(p)
    BY <1>0, <1>4, Zenon DEF Elsewhere, NoHandler, ReleasePage, TypeOK
  <2>2. wpc'[p] # "drain"
    BY <1>0, <1>4, DrainLocked, OwnerAssumption, Zenon DEF ReleasePage
  <2>3. state'[p] # "COMPRESSED"
    BY <1>0, <1>4, Zenon DEF ReleasePage, TypeOK
  <2> QED
    BY <1>0, <2>1, <2>2, <2>3, QueuedAway, QueuedElsewhere, Zenon
<1>5. ASSUME NEW t \in Threads, RetireSpan(t) PROVE QueuedInv'
  <2>1. UNCHANGED <<state, lock, prot, pending, wpc>>
    BY <1>5, Zenon DEF RetireSpan
  <2>2. \A q \in Pages : phys'[q] = phys[q] \/ phys'[q] = ZeroPage \/ prot[q] = "RW"
    BY <1>5, Zenon DEF RetireSpan
  <2>3. \A u \in Threads : tpc'[u] = "handle" => tpc[u] = "handle"
    BY <1>0, <1>5, ZenonT(40) DEF RetireSpan, TypeOK
  <2> QED
    BY <1>0, <2>1, <2>2, <2>3, QueuedSame, Zenon
<1>6. ASSUME NEW t \in Threads, NEW a \in Access, BeginAccess(t, a) PROVE QueuedInv'
  <2>1. UNCHANGED <<state, lock, prot, pending, wpc>>
    BY <1>6, Zenon DEF BeginAccess
  <2>2. \A q \in Pages : phys'[q] = phys[q] \/ phys'[q] = ZeroPage \/ prot[q] = "RW"
    BY <1>6, Zenon DEF BeginAccess
  <2>3. \A u \in Threads : tpc'[u] = "handle" => tpc[u] = "handle"
    BY <1>0, <1>6, ZenonT(40) DEF BeginAccess, TypeOK
  <2> QED
    BY <1>0, <2>1, <2>2, <2>3, QueuedSame, Zenon
<1>7. ASSUME NEW t \in Threads, CompleteAccess(t) PROVE QueuedInv'
  <2>1. UNCHANGED <<state, lock, prot, pending, wpc>>
    BY <1>7, Zenon DEF CompleteAccess
  <2>2. \A q \in Pages : phys'[q] = phys[q] \/ phys'[q] = ZeroPage \/ prot[q] = "RW"
    <3>1. phys' = phys \/ prot[acc[t].page] = "RW"
      BY <1>7, Zenon DEF CompleteAccess, Permitted
    <3>2. \A q \in Pages : q # acc[t].page => phys'[q] = phys[q]
      <4>1. phys' = phys \/ phys' = [phys EXCEPT ![acc[t].page][acc[t].slot] = acc[t].val]
        BY <1>7, Zenon DEF CompleteAccess
      <4> QED
        BY <1>0, <4>1, Zenon DEF TypeOK
    <3> QED
      BY <3>1, <3>2, Zenon
  <2>3. \A u \in Threads : tpc'[u] = "handle" => tpc[u] = "handle"
    BY <1>0, <1>7, ZenonT(40) DEF CompleteAccess, TypeOK
  <2> QED
    BY <1>0, <2>1, <2>2, <2>3, QueuedSame, Zenon
<1>8. ASSUME NEW t \in Threads, TakeFault(t) PROVE QueuedInv'
  <2>1. UNCHANGED <<state, lock, prot, pending, wpc>>
    BY <1>8, Zenon DEF TakeFault
  <2>2. \A q \in Pages : phys'[q] = phys[q] \/ phys'[q] = ZeroPage \/ prot[q] = "RW"
    BY <1>8, Zenon DEF TakeFault
  <2>3. \A u \in Threads : tpc'[u] = "handle" => tpc[u] = "handle"
    BY <1>0, <1>8, ZenonT(40) DEF TakeFault, TypeOK
  <2> QED
    BY <1>0, <2>1, <2>2, <2>3, QueuedSame, Zenon
<1> QED
  BY <1>1, <1>2, <1>3, <1>4, <1>5, <1>6, <1>7, <1>8, Zenon DEF AppStep

\* Compressed pages are queued, at the fault handler.
LEMMA QueuedFault ==
  ASSUME ~(VmaCap /\ SelfMem), StructInv, QueuedInv, FaultStep PROVE QueuedInv'
<1> USE DEF At, Doing, pageVars, appVars, workerVars, threadVars, lifeVars
<1>0. TypeOK /\ LockInv /\ ThreadInv /\ StateInv /\ QueuedInv
  BY Zenon DEF StructInv
<1>a. ASSUME NEW t \in Threads, At(t, "handle")
      PROVE  \E p \in Pages : p = acc[t].page /\ lock[p] = t /\ wpc[p] # "drain"
  <2>1. acc[t].page \in Pages
    BY <1>0, <1>a, AccessType, Zenon
  <2>2. lock[acc[t].page] = t
    BY <1>0, <1>a, Zenon DEF LockInv
  <2> QED
    BY <1>0, <2>1, <2>2, DrainLocked, OwnerAssumption, Zenon
<1>1. ASSUME NEW t \in Threads, LockForFault(t) PROVE QueuedInv'
  <2>1. PICK p \in Pages : p = acc[t].page
    BY <1>0, <1>1, AccessType, Zenon DEF LockForFault
  <2>2. tpc[t] = "fault" /\ lock[p] = NoOne /\ UNCHANGED <<state, prot, phys, pending, wpc>>
    BY <1>1, <2>1, Zenon DEF LockForFault
  <2>3. Elsewhere(p)
    BY <1>0, <1>1, <2>1, Zenon DEF LockForFault, Elsewhere, TypeOK
  <2>4. \A q \in Pages : lock[q] # t
    BY <1>0, <2>2, Zenon DEF LockInv
  <2>5. \A u \in Threads : u # t => tpc'[u] = tpc[u]
    BY <1>0, <1>1, Zenon DEF LockForFault, TypeOK
  <2>6. NoHandler(p)
    BY <2>4, <2>5, Zenon DEF NoHandler
  <2>7. Resting(p)' => Resting(p)
    BY <2>2, Zenon DEF Resting
  <2>8. QueuedAt(p)'
    BY <1>0, <2>2, <2>7, Zenon DEF QueuedInv, QueuedAt, ZeroPage
  <2> QED
    BY <1>0, <2>3, <2>6, <2>8, QueuedElsewhere, Zenon
<1>2. ASSUME NEW t \in Threads, FaultCompressed(t) PROVE QueuedInv'
  <2>1. PICK p \in Pages : p = acc[t].page /\ lock[p] = t /\ wpc[p] # "drain"
    BY <1>a, <1>2, Zenon DEF FaultCompressed
  <2>2. Elsewhere(p)
    BY <1>0, <1>2, <2>1, Zenon DEF FaultCompressed, BeginRestore, Elsewhere, TypeOK
  <2>3. tpc'[t] # "handle" /\ \A u \in Threads : u # t => tpc'[u] = tpc[u]
    BY <1>0, <1>2, Zenon DEF FaultCompressed, BeginRestore, TypeOK
  <2>4. NoHandler(p)
    BY <2>3, Zenon DEF NoHandler
  <2>5. UNCHANGED <<lock, wpc>>
    BY <1>2, Zenon DEF FaultCompressed
  <2> QED
    BY <1>0, <2>1, <2>2, <2>3, <2>4, <2>5, QueuedRestored, QueuedElsewhere, Zenon
<1>3. ASSUME NEW t \in Threads, FaultCompressedFails(t) PROVE QueuedInv'
  <2>1. PICK p \in Pages : p = acc[t].page /\ lock[p] = t /\ wpc[p] # "drain"
    BY <1>a, <1>3, Zenon DEF FaultCompressedFails
  <2>2. /\ tpc[t] = "handle" /\ state[p] = "COMPRESSED"
        /\ UNCHANGED <<state, prot, phys, pending, wpc>>
        /\ lock' = [lock EXCEPT ![p] = NoOne]
    BY <1>3, <2>1, Zenon DEF FaultCompressedFails
  <2>3. Elsewhere(p)
    BY <1>0, <2>2, Zenon DEF Elsewhere, TypeOK
  <2>4. NoHandler(p)
    BY <1>0, <1>3, ZenonT(40) DEF FaultCompressedFails, NoHandler, TypeOK
  <2>5. Resting(p)
    BY <2>1, <2>2, Zenon DEF Resting
  <2>6. QueuedAt(p)'
    BY <1>0, <2>1, <2>2, <2>5, Zenon DEF QueuedInv, QueuedAt, ZeroPage
  <2> QED
    BY <1>0, <2>3, <2>4, <2>6, QueuedElsewhere, Zenon
<1>4. ASSUME NEW t \in Threads, NEW p \in Pages, FinishRestore(t, p) PROVE QueuedInv'
  <2>1. Elsewhere(p)
    BY <1>0, <1>4, Zenon DEF FinishRestore, Elsewhere, TypeOK
  <2>2. NoHandler(p)
    BY <1>0, <1>4, ZenonT(40) DEF FinishRestore, NoHandler, TypeOK
  <2>3. state'[p] # "COMPRESSED"
    BY <1>0, <1>4, Zenon DEF FinishRestore, TypeOK
  <2>4. wpc'[p] # "drain"
    BY <1>0, <1>4, DrainLocked, OwnerAssumption, Zenon DEF FinishRestore
  <2> QED
    BY <1>0, <2>1, <2>2, <2>3, <2>4, QueuedAway, QueuedElsewhere, Zenon
<1>5. ASSUME NEW t \in Threads, NEW p \in Pages, PrefetchPage(t, p) PROVE QueuedInv'
  <2>1. Elsewhere(p)
    BY <1>0, <1>5, Zenon DEF PrefetchPage, BeginRestore, Elsewhere, TypeOK
  <2>2. tpc'[t] # "handle" /\ \A u \in Threads : u # t => tpc'[u] = tpc[u]
    BY <1>0, <1>5, Zenon DEF PrefetchPage, BeginRestore, TypeOK
  <2>3. NoHandler(p)
    BY <2>2, Zenon DEF NoHandler
  <2>4. lock'[p] = t
    BY <1>0, <1>5, Zenon DEF PrefetchPage, TypeOK
  <2>5. wpc'[p] # "drain"
    BY <1>0, <1>5, DrainLocked, OwnerAssumption, Zenon DEF PrefetchPage
  <2> QED
    BY <1>0, <2>1, <2>2, <2>3, <2>4, <2>5, QueuedRestored, QueuedElsewhere, Zenon
<1>6. ASSUME NEW t \in Threads, NEW p \in Pages, SkipPrefetch(t, p) PROVE QueuedInv'
  <2>1. UNCHANGED <<state, lock, prot, pending, wpc>>
    BY <1>6, Zenon DEF SkipPrefetch
  <2>2. \A q \in Pages : phys'[q] = phys[q] \/ phys'[q] = ZeroPage \/ prot[q] = "RW"
    BY <1>6, Zenon DEF SkipPrefetch
  <2>3. \A u \in Threads : tpc'[u] = "handle" => tpc[u] = "handle"
    BY <1>0, <1>6, ZenonT(40) DEF SkipPrefetch, TypeOK
  <2> QED
    BY <1>0, <2>1, <2>2, <2>3, QueuedSame, Zenon
<1>7. ASSUME NEW t \in Threads, ResumeAccess(t) PROVE QueuedInv'
  <2>1. UNCHANGED <<state, lock, prot, pending, wpc>>
    BY <1>7, Zenon DEF ResumeAccess
  <2>2. \A q \in Pages : phys'[q] = phys[q] \/ phys'[q] = ZeroPage \/ prot[q] = "RW"
    BY <1>7, Zenon DEF ResumeAccess
  <2>3. \A u \in Threads : tpc'[u] = "handle" => tpc[u] = "handle"
    BY <1>0, <1>7, ZenonT(40) DEF ResumeAccess, TypeOK
  <2> QED
    BY <1>0, <2>1, <2>2, <2>3, QueuedSame, Zenon
<1>8. ASSUME NEW t \in Threads, FaultCompressing(t) PROVE QueuedInv'
  <2>1. PICK p \in Pages : p = acc[t].page /\ lock[p] = t /\ wpc[p] # "drain"
    BY <1>a, <1>8, Zenon DEF FaultCompressing
  <2>2. Elsewhere(p)
    BY <1>0, <1>8, <2>1, ZenonT(40) DEF FaultCompressing, Elsewhere, TypeOK
  <2>3. NoHandler(p)
    BY <1>0, <1>8, ZenonT(40) DEF FaultCompressing, NoHandler, TypeOK
  <2>4. state'[p] # "COMPRESSED" /\ wpc'[p] # "drain"
    BY <1>0, <1>8, <2>1, Zenon DEF FaultCompressing, TypeOK
  <2> QED
    BY <1>0, <2>2, <2>3, <2>4, QueuedAway, QueuedElsewhere, Zenon
<1>9. ASSUME NEW t \in Threads, FaultResident(t) PROVE QueuedInv'
  <2>1. PICK p \in Pages : p = acc[t].page /\ lock[p] = t /\ wpc[p] # "drain"
    BY <1>a, <1>9, Zenon DEF FaultResident
  <2>2. Elsewhere(p)
    <3>1. state' = state \/ state' = [state EXCEPT ![p] = "ACTIVE"]
      BY <1>9, <2>1, Zenon DEF FaultResident
    <3>2. \A q \in Pages \ {p} : state'[q] = state[q]
      BY <1>0, <3>1, Zenon DEF TypeOK
    <3>3. \A q \in Pages \ {p} : prot'[q] = prot[q]
      BY <1>0, <1>9, <2>1, ZenonT(40) DEF FaultResident, TypeOK
    <3>4. \A q \in Pages \ {p} : lock'[q] = lock[q] /\ wpc'[q] = wpc[q]
      BY <1>0, <1>9, <2>1, ZenonT(40) DEF FaultResident, TypeOK
    <3>5. UNCHANGED <<phys, pending>>
      BY <1>9, Zenon DEF FaultResident
    <3> QED
      BY <3>2, <3>3, <3>4, <3>5, Zenon DEF Elsewhere
  <2>3. NoHandler(p)
    BY <1>0, <1>9, ZenonT(40) DEF FaultResident, NoHandler, TypeOK
  <2>4. state'[p] # "COMPRESSED" /\ wpc'[p] # "drain"
    BY <1>0, <1>9, <2>1, Zenon DEF FaultResident, TypeOK
  <2> QED
    BY <1>0, <2>2, <2>3, <2>4, QueuedAway, QueuedElsewhere, Zenon
<1>10. ASSUME NEW t \in Threads, FaultShadow(t) PROVE QueuedInv'
  <2>1. PICK p \in Pages : p = acc[t].page /\ lock[p] = t /\ wpc[p] # "drain"
    BY <1>a, <1>10, Zenon DEF FaultShadow
  <2>2. Elsewhere(p)
    BY <1>0, <1>10, <2>1, ZenonT(40) DEF FaultShadow, Elsewhere, TypeOK
  <2>3. NoHandler(p)
    BY <1>0, <1>10, ZenonT(40) DEF FaultShadow, NoHandler, TypeOK
  <2>4. state'[p] # "COMPRESSED" /\ wpc'[p] # "drain"
    BY <1>0, <1>10, <2>1, Zenon DEF FaultShadow, TypeOK
  <2> QED
    BY <1>0, <2>2, <2>3, <2>4, QueuedAway, QueuedElsewhere, Zenon
<1> QED
  BY <1>1, <1>2, <1>3, <1>4, <1>5, <1>6, <1>7, <1>8, <1>9, <1>10, Zenon
     DEF FaultStep, HandlerStep

\* Compressed pages are queued, at compressPage.
LEMMA QueuedPhase ==
  ASSUME ~(VmaCap /\ SelfMem), StructInv, QueuedInv, PhaseStep PROVE QueuedInv'
<1> USE DEF At, Doing, pageVars, appVars, workerVars, threadVars, lifeVars
<1>0. TypeOK /\ LockInv /\ ThreadInv /\ StateInv /\ QueuedInv
  BY Zenon DEF StructInv
<1>1. ASSUME NEW p \in Pages, StartCompress(p) PROVE QueuedInv'
  <2>1. Elsewhere(p) /\ UNCHANGED tpc
    BY <1>0, <1>1, ZenonT(40) DEF StartCompress, Elsewhere, TypeOK
  <2>2. state'[p] # "COMPRESSED" /\ wpc'[p] # "drain"
    BY <1>0, <1>1, ZenonT(40) DEF StartCompress, TypeOK
  <2> QED
    BY <1>0, <2>1, <2>2, QueuedAway, QuietElsewhere, Zenon
<1>2. ASSUME NEW p \in Pages, RejectCompress(p) PROVE QueuedInv'
  <2>1. Elsewhere(p) /\ UNCHANGED tpc
    BY <1>0, <1>2, ZenonT(40) DEF RejectCompress, Leave, Elsewhere, TypeOK
  <2>2. state'[p] # "COMPRESSED" /\ wpc'[p] # "drain"
    BY <1>0, <1>2, ZenonT(40) DEF RejectCompress, Leave, TypeOK
  <2> QED
    BY <1>0, <2>1, <2>2, QueuedAway, QuietElsewhere, Zenon
<1>3. ASSUME NEW p \in Pages, PrepareSnapshot(p) PROVE QueuedInv'
  <2>1. Elsewhere(p) /\ UNCHANGED tpc
    BY <1>0, <1>3, ZenonT(40) DEF PrepareSnapshot, Elsewhere, TypeOK
  <2>2. state'[p] # "COMPRESSED" /\ wpc'[p] # "drain"
    BY <1>0, <1>3, ZenonT(40) DEF PrepareSnapshot, TypeOK, StateInv
  <2> QED
    BY <1>0, <2>1, <2>2, QueuedAway, QuietElsewhere, Zenon
<1>4. ASSUME NEW p \in Pages, ArmReadOnly(p) PROVE QueuedInv'
  <2>1. Elsewhere(p) /\ UNCHANGED tpc
    BY <1>0, <1>4, ZenonT(40) DEF ArmReadOnly, Elsewhere, TypeOK
  <2>2. state'[p] # "COMPRESSED" /\ wpc'[p] # "drain"
    BY <1>0, <1>4, ZenonT(40) DEF ArmReadOnly, TypeOK, StateInv
  <2> QED
    BY <1>0, <2>1, <2>2, QueuedAway, QuietElsewhere, Zenon
<1>5. ASSUME NEW p \in Pages, Relock(p) PROVE QueuedInv'
  <2>1. Elsewhere(p) /\ UNCHANGED tpc
    BY <1>0, <1>5, ZenonT(40) DEF Relock, Leave, Elsewhere, TypeOK
  <2>2. state'[p] # "COMPRESSED" /\ wpc'[p] # "drain"
    BY <1>0, <1>5, ZenonT(40) DEF Relock, Leave, TypeOK, StateInv
  <2> QED
    BY <1>0, <2>1, <2>2, QueuedAway, QuietElsewhere, Zenon
<1>6. ASSUME NEW p \in Pages, Snapshot(p) PROVE QueuedInv'
  <2>1. Elsewhere(p) /\ UNCHANGED tpc
    BY <1>0, <1>6, ZenonT(40) DEF Snapshot, Elsewhere, TypeOK
  <2>2. state'[p] # "COMPRESSED" /\ wpc'[p] # "drain"
    BY <1>0, <1>6, ZenonT(40) DEF Snapshot, TypeOK, StateInv
  <2> QED
    BY <1>0, <2>1, <2>2, QueuedAway, QuietElsewhere, Zenon
<1>7. ASSUME NEW p \in Pages, VerifyFails(p) PROVE QueuedInv'
  <2>1. Elsewhere(p) /\ UNCHANGED tpc
    BY <1>0, <1>7, ZenonT(40) DEF VerifyFails, Leave, Elsewhere, TypeOK
  <2>2. state'[p] # "COMPRESSED" /\ wpc'[p] # "drain"
    BY <1>0, <1>7, ZenonT(40) DEF VerifyFails, Leave, TypeOK
  <2> QED
    BY <1>0, <2>1, <2>2, QueuedAway, QuietElsewhere, Zenon
<1>8. ASSUME NEW p \in Pages, VerifyPasses(p) PROVE QueuedInv'
  <2>1. Elsewhere(p) /\ UNCHANGED tpc
    BY <1>0, <1>8, ZenonT(40) DEF VerifyPasses, Elsewhere, TypeOK
  <2>2. state'[p] # "COMPRESSED" /\ wpc'[p] # "drain"
    BY <1>0, <1>8, ZenonT(40) DEF VerifyPasses, TypeOK, StateInv
  <2> QED
    BY <1>0, <2>1, <2>2, QueuedAway, QuietElsewhere, Zenon
<1>9. ASSUME NEW p \in Pages, GateFails(p) PROVE QueuedInv'
  <2>1. Elsewhere(p) /\ UNCHANGED tpc
    BY <1>0, <1>9, ZenonT(40) DEF GateFails, Leave, Elsewhere, TypeOK
  <2>2. state'[p] # "COMPRESSED" /\ wpc'[p] # "drain"
    BY <1>0, <1>9, ZenonT(40) DEF GateFails, Leave, TypeOK, StateInv
  <2> QED
    BY <1>0, <2>1, <2>2, QueuedAway, QuietElsewhere, Zenon
<1>10. ASSUME NEW p \in Pages, CopyBack(p) PROVE QueuedInv'
  <2>1. Elsewhere(p) /\ UNCHANGED tpc
    BY <1>0, <1>10, ZenonT(40) DEF CopyBack, Leave, Elsewhere, TypeOK
  <2>2. state'[p] # "COMPRESSED" /\ wpc'[p] # "drain"
    BY <1>0, <1>10, ZenonT(40) DEF CopyBack, Leave, TypeOK, StateInv
  <2> QED
    BY <1>0, <2>1, <2>2, QueuedAway, QuietElsewhere, Zenon
<1>11. ASSUME NEW p \in Pages, CommitBlob(p) PROVE QueuedInv'
  <2>1. Elsewhere(p) /\ UNCHANGED tpc
    BY <1>0, <1>11, ZenonT(40) DEF CommitBlob, Elsewhere, TypeOK
  <2>2. QueuedAt(p)'
    <3>1. wpc'[p] # "drain" /\ (state'[p] = "COMPRESSED" => wpc'[p] = "listed")
      BY <1>0, <1>11, Zenon DEF CommitBlob, TypeOK
    <3> QED
      BY <3>1, Zenon DEF QueuedAt, Resting
  <2> QED
    BY <1>0, <2>1, <2>2, QuietElsewhere, Zenon
<1>12. ASSUME NEW p \in Pages, FlushPending(p) PROVE QueuedInv'
  <2>1. Elsewhere(p) /\ UNCHANGED tpc
    BY <1>0, <1>12, ZenonT(40) DEF FlushPending, Elsewhere, TypeOK
  <2>2. QueuedAt(p)'
    <3>1. wpc'[p] # "drain" /\ (state'[p] = "COMPRESSED" => pending'[p])
      BY <1>0, <1>12, Zenon DEF FlushPending, TypeOK
    <3> QED
      BY <3>1, Zenon DEF QueuedAt, Resting
  <2> QED
    BY <1>0, <2>1, <2>2, QuietElsewhere, Zenon
<1> QED
  BY <1>1, <1>2, <1>3, <1>4, <1>5, <1>6, <1>7, <1>8, <1>9, <1>10, <1>11, <1>12,
     Zenon DEF PhaseStep, CompressStep

\* Compressed pages are queued, at the other work of the compressor.
LEMMA QueuedOther ==
  ASSUME ~(VmaCap /\ SelfMem), StructInv, QueuedInv, OtherStep PROVE QueuedInv'
<1> USE DEF At, Doing, pageVars, appVars, workerVars, threadVars, lifeVars
<1>0. TypeOK /\ LockInv /\ ThreadInv /\ StateInv /\ QueuedInv
  BY Zenon DEF StructInv
<1>1. ASSUME NEW p \in Pages, MonitorPage(p) PROVE QueuedInv'
  <2>1. Elsewhere(p) /\ UNCHANGED tpc
    BY <1>0, <1>1, ZenonT(40) DEF MonitorPage, Elsewhere, TypeOK
  <2>2. state'[p] # "COMPRESSED" /\ wpc'[p] # "drain"
    BY <1>0, <1>1, ZenonT(40) DEF MonitorPage, TypeOK
  <2> QED
    BY <1>0, <2>1, <2>2, QueuedAway, QuietElsewhere, Zenon
<1>2. ASSUME NEW p \in Pages, CheckMonitored(p) PROVE QueuedInv'
  <2>1. Elsewhere(p) /\ UNCHANGED tpc
    BY <1>0, <1>2, ZenonT(40) DEF CheckMonitored, Elsewhere, TypeOK
  <2>2. state'[p] # "COMPRESSED" /\ wpc'[p] # "drain"
    BY <1>0, <1>2, ZenonT(40) DEF CheckMonitored, TypeOK, StateInv
  <2> QED
    BY <1>0, <2>1, <2>2, QueuedAway, QuietElsewhere, Zenon
<1>3. ASSUME NEW p \in Pages, ProtectMonitored(p) PROVE QueuedInv'
  <2>1. Elsewhere(p) /\ UNCHANGED tpc
    BY <1>0, <1>3, ZenonT(40) DEF ProtectMonitored, Elsewhere, TypeOK
  <2>2. state'[p] # "COMPRESSED" /\ wpc'[p] # "drain"
    BY <1>0, <1>3, ZenonT(40) DEF ProtectMonitored, TypeOK, StateInv
  <2> QED
    BY <1>0, <2>1, <2>2, QueuedAway, QuietElsewhere, Zenon
<1>4. ASSUME NEW p \in Pages, Escalate(p) PROVE QueuedInv'
  <2>1. Elsewhere(p) /\ UNCHANGED tpc
    BY <1>0, <1>4, ZenonT(40) DEF Escalate, Turn, Elsewhere, TypeOK
  <2>2. state'[p] # "COMPRESSED" /\ wpc'[p] # "drain"
    BY <1>0, <1>4, ZenonT(40) DEF Escalate, Turn, TypeOK
  <2> QED
    BY <1>0, <2>1, <2>2, QueuedAway, QuietElsewhere, Zenon
<1>5. ASSUME NEW p \in Pages, ClearStalePending(p) PROVE QueuedInv'
  <2>1. Elsewhere(p) /\ UNCHANGED tpc
    BY <1>0, <1>5, ZenonT(40) DEF ClearStalePending, Turn, Elsewhere, TypeOK
  <2>2. state'[p] # "COMPRESSED" /\ wpc'[p] # "drain"
    BY <1>0, <1>5, ZenonT(40) DEF ClearStalePending, Turn, TypeOK
  <2> QED
    BY <1>0, <2>1, <2>2, QueuedAway, QuietElsewhere, Zenon
<1>6. ASSUME NEW p \in Pages, SweepPage(p) PROVE QueuedInv'
  <2>1. Elsewhere(p) /\ UNCHANGED tpc
    BY <1>0, <1>6, ZenonT(40) DEF SweepPage, Elsewhere, TypeOK
  <2>2. lock'[p] = Worker /\ wpc'[p] # "drain"
    BY <1>0, <1>6, Zenon DEF SweepPage, TypeOK
  <2> QED
    BY <1>0, <2>1, <2>2, QueuedAway, QuietElsewhere, Zenon
<1>7. ASSUME NEW p \in Pages, StartReclaim(p) PROVE QueuedInv'
  <2>1. Elsewhere(p) /\ UNCHANGED tpc
    BY <1>0, <1>7, ZenonT(40) DEF StartReclaim, Elsewhere, TypeOK
  <2>2. state'[p] # "COMPRESSED" /\ wpc'[p] # "drain"
    BY <1>0, <1>7, ZenonT(40) DEF StartReclaim, TypeOK
  <2> QED
    BY <1>0, <2>1, <2>2, QueuedAway, QuietElsewhere, Zenon
<1>8. ASSUME NEW p \in Pages, PostponeReclaim(p) PROVE QueuedInv'
  <2>1. Elsewhere(p) /\ UNCHANGED tpc
    BY <1>0, <1>8, ZenonT(40) DEF PostponeReclaim, Leave, Elsewhere, TypeOK
  <2>2. state'[p] # "COMPRESSED" /\ wpc'[p] # "drain"
    BY <1>0, <1>8, ZenonT(40) DEF PostponeReclaim, Leave, TypeOK, StateInv
  <2> QED
    BY <1>0, <2>1, <2>2, QueuedAway, QuietElsewhere, Zenon
<1>9. ASSUME NEW p \in Pages, DiscardShadow(p) PROVE QueuedInv'
  <2>1. Elsewhere(p) /\ UNCHANGED tpc
    BY <1>0, <1>9, ZenonT(40) DEF DiscardShadow, Leave, Elsewhere, TypeOK
  <2>2. state'[p] # "COMPRESSED" /\ wpc'[p] # "drain"
    BY <1>0, <1>9, ZenonT(40) DEF DiscardShadow, Leave, TypeOK
  <2> QED
    BY <1>0, <2>1, <2>2, QueuedAway, QuietElsewhere, Zenon
<1>10. ASSUME NEW p \in Pages, ConfirmShadow(p) PROVE QueuedInv'
  <2>1. Elsewhere(p) /\ UNCHANGED tpc
    BY <1>0, <1>10, ZenonT(40) DEF ConfirmShadow, Elsewhere, TypeOK
  <2>2. lock'[p] = Worker /\ wpc'[p] # "drain"
    BY <1>0, <1>10, Zenon DEF ConfirmShadow, TypeOK, LockInv, LockedSteps
  <2> QED
    BY <1>0, <2>1, <2>2, QueuedAway, QuietElsewhere, Zenon
<1>11. ASSUME NEW p \in Pages, DropBacking(p) PROVE QueuedInv'
  <2>1. Elsewhere(p) /\ UNCHANGED tpc
    BY <1>0, <1>11, ZenonT(40) DEF DropBacking, Leave, Elsewhere, TypeOK
  <2>2. QueuedAt(p)'
    <3>1. phys'[p] = ZeroPage /\ wpc'[p] # "drain"
      BY <1>0, <1>11, Zenon DEF DropBacking, Leave, TypeOK
    <3> QED
      BY <3>1, Zenon DEF QueuedAt, ZeroPage
  <2> QED
    BY <1>0, <2>1, <2>2, QuietElsewhere, Zenon
<1>12. ASSUME NEW p \in Pages, DrainRestore(p) PROVE QueuedInv'
  <2>1. Elsewhere(p) /\ UNCHANGED tpc
    BY <1>0, <1>12, ZenonT(40) DEF DrainRestore, Elsewhere, TypeOK
  <2>2. QueuedAt(p)'
    <3>1. lock'[p] = Worker /\ (~SelfMem => prot'[p] = "RW")
      BY <1>0, <1>12, Zenon DEF DrainRestore, TypeOK
    <3> QED
      BY <3>1, OwnerAssumption, Zenon DEF QueuedAt, Resting
  <2> QED
    BY <1>0, <2>1, <2>2, QuietElsewhere, Zenon
<1>13. ASSUME NEW p \in Pages, DrainFinish(p) PROVE QueuedInv'
  <2>1. Elsewhere(p) /\ UNCHANGED tpc
    <3>1. UNCHANGED tpc
      BY <1>13, Zenon DEF DrainFinish
    <3>2. CASE VmaCap /\ Leave(p, state[p]) /\ UNCHANGED <<phys, prot, pending>>
      BY <1>0, <3>2, <3>1, ZenonT(40) DEF Leave, Elsewhere, TypeOK
    <3>3. CASE /\ phys' = IF SelfMem THEN phys ELSE [phys EXCEPT ![p] = blob[p]]
               /\ prot' = [prot EXCEPT ![p] = "RW"]
               /\ pending' = [pending EXCEPT ![p] = FALSE]
               /\ Leave(p, "ACTIVE")
      <4>1. \A q \in Pages \ {p} : phys'[q] = phys[q]
        BY <1>0, <3>3, ZenonT(40) DEF TypeOK
      <4> QED
        BY <1>0, <3>3, <3>1, <4>1, ZenonT(40) DEF Leave, Elsewhere, TypeOK
    <3> QED
      BY <1>13, <3>2, <3>3, <3>1, Zenon DEF DrainFinish
  <2>2. QueuedAt(p)'
    <3>1. wpc'[p] # "drain"
      BY <1>0, <1>13, Zenon DEF DrainFinish, Leave, TypeOK
    <3>2. state'[p] # "COMPRESSED" \/ prot'[p] = "RW"
      <4>1. CASE VmaCap /\ UNCHANGED prot
        <5>1. QueuedAt(p) /\ wpc[p] = "drain" /\ ~SelfMem
          BY <1>0, <1>13, <4>1, Zenon DEF DrainFinish, QueuedInv
        <5> QED
          BY <4>1, <5>1, Zenon DEF QueuedAt
      <4>2. CASE state' = [state EXCEPT ![p] = "ACTIVE"]
        BY <1>0, <4>2, Zenon DEF TypeOK
      <4> QED
        BY <1>13, <4>1, <4>2, Zenon DEF DrainFinish, Leave
    <3> QED
      BY <3>1, <3>2, Zenon DEF QueuedAt, Resting
  <2> QED
    BY <1>0, <2>1, <2>2, QuietElsewhere, Zenon
<1>14. ASSUME NEW p \in Pages, DrainOther(p) PROVE QueuedInv'
  <2>1. Elsewhere(p) /\ UNCHANGED <<lock, wpc, phys, pending, tpc>>
    BY <1>0, <1>14, ZenonT(40) DEF DrainOther, Elsewhere, TypeOK
  <2>2. CASE UNCHANGED <<prot, state>>
    BY <1>0, <2>1, <2>2, QueuedSame, Zenon
  <2>3. CASE lock[p] = NoOne /\ state[p] = "ACTIVE_MONITORING"
    <3>1. wpc'[p] # "drain"
      BY <1>0, <2>1, <2>3, DrainLocked, OwnerAssumption, Zenon
    <3>2. state'[p] # "COMPRESSED"
      BY <1>0, <1>14, <2>3, Zenon DEF DrainOther, TypeOK
    <3> QED
      BY <1>0, <2>1, <3>1, <3>2, QueuedAway, QuietElsewhere, Zenon
  <2> QED
    BY <1>14, <2>2, <2>3, Zenon DEF DrainOther
<1>15. ASSUME StopCompressor \/ UninstallHandler PROVE QueuedInv'
  <2>1. UNCHANGED <<state, lock, prot, phys, pending, wpc, tpc>>
    BY <1>15, Zenon DEF StopCompressor, UninstallHandler
  <2> QED
    BY <1>0, <2>1, QueuedSame, Zenon
<1> QED
  BY <1>1, <1>2, <1>3, <1>4, <1>5, <1>6, <1>7, <1>8, <1>9, <1>10, <1>11,
     <1>12, <1>13, <1>14, <1>15, Zenon DEF OtherStep, StopStep

\* Every step keeps compressed pages queued.
LEMMA QueuedStep ==
  ASSUME ~(VmaCap /\ SelfMem), StructInv, QueuedInv, [Next]_vars PROVE QueuedInv'
<1>1. CASE UNCHANGED vars
  <2>1. UNCHANGED <<state, lock, prot, phys, pending, wpc, tpc>>
    BY <1>1, Zenon DEF vars, pageVars, workerVars, threadVars
  <2> QED
    BY <2>1, QueuedSame, Zenon
<1> QED
  BY <1>1, QueuedApp, QueuedFault, QueuedPhase, QueuedOther, StepCases, Zenon

\* No compressed page is forgotten, in either mode, with any number of neighbours
\* whose pending bits prefetchAdjacent leaves behind, and during the drain; also
\* when mprotect fails, unless pages are restored through /proc/self/mem
\* (flushPhase2PendingProt, sweepDeferredMadvise, Phase B, handleFault).
THEOREM NothingForgotten == Spec => []CompressedIsReclaimed
<1>1. CASE VmaCap /\ SelfMem
  <2>1. CompressedIsReclaimed
    BY <1>1, Zenon DEF CompressedIsReclaimed
  <2> QED
    BY <2>1, PTL
<1>2. CASE ~(VmaCap /\ SelfMem)
  <2>1. Init => QueuedInv
    BY Zenon DEF Init, QueuedInv, QueuedAt, Resting
  <2>2. StructInv /\ QueuedInv /\ [Next]_vars => QueuedInv'
    BY <1>2, QueuedStep, Zenon
  <2>3. QueuedInv => CompressedIsReclaimed
    BY Zenon DEF QueuedInv, QueuedAt, Resting, CompressedIsReclaimed
  <2> QED
    BY <2>1, <2>2, <2>3, Structure, PTL DEF Spec
<1> QED
  BY <1>1, <1>2, Zenon
=============================================================================
