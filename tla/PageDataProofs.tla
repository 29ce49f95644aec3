-------------------------- MODULE PageDataProofs --------------------------
(***************************************************************************)
(* Compression is transparent: proofs that PageLifecycle loses no store,   *)
(* shows no stale value and implements FlatMemory, for any number of       *)
(* pages, slots, threads and values.  They hold under Benign; the runs     *)
(* v_copyback, v_drain_data, v_drain_plain and v_decommit show that they   *)
(* fail without it.                                                        *)
(***************************************************************************)
EXTENDS PageProtProofs

\* mprotect succeeds, /proc/self/mem is usable, the process is not shutting
\* down, and standard mode meets no page it cannot store.
Benign == ~VmaCap /\ ~Shutdown /\ SelfMem /\ (Deferred \/ ~Incompressible)

\* How far each page is open at each step.
ProtInv ==
  \A p \in Pages :
    /\ state[p] = "COMPRESSED" => prot[p] # "RW"
    /\ wpc[p] = "drop" => prot[p] = "NONE"
    /\ wpc[p] = "compare" => prot[p] = "READ"
    /\ wpc[p] = "relock" /\ state[p] = "COMPRESSING" => prot[p] = "READ"
    /\ wpc[p] \in {"snapshot", "verify", "gate"} =>
         IF Deferred THEN prot[p] # "NONE" ELSE prot[p] = "READ"
    /\ state[p] = "COMPRESSED_SHADOW" => Deferred

\* Where the application's data is: in the backing, except behind a COMPRESSED
\* page, which has it in its blob; standard mode has it in the snapshot too.
Placed ==
  \A p \in Pages, s \in Slots : Holds(p, s) =>
    /\ state[p] # "COMPRESSED" \/ prot[p] # "NONE" => phys[p][s] = mem[p][s]
    /\ state[p] = "COMPRESSED" => blob[p][s] = mem[p][s]
    /\ wpc[p] = "gate" /\ ~Deferred => buf[p][s] = mem[p][s]

\* A thread about to open a page has written the blob into it.
Restoring ==
  \A p \in Pages, t \in Threads :
    lock[p] = t /\ tpc[t] = "flip" => phys[p] = blob[p]

\* Steps that never happen.
QuietInv ==
  /\ life = "running" /\ ~crashed
  /\ \A p \in Pages : wpc[p] \notin {"copyBack", "drain"}
  /\ \A t \in Threads : tpc[t] # "copy"

DataInv == OwnerInv /\ ProtInv /\ Placed /\ Restoring /\ QuietInv

-----------------------------------------------------------------------------
(* Helper facts.                                                           *)

\* Under Benign an mprotect does what it is asked.
LEMMA BenignMprotect ==
  ASSUME Benign, NEW p, NEW q PROVE Mprotect(p, q) = {q}
BY Zenon DEF Benign, Mprotect

\* Under Benign the bytes go in through /proc/self/mem, behind the protection.
LEMMA BenignRestore ==
  ASSUME Benign, NEW t, NEW p, BeginRestore(t, p)
  PROVE  /\ phys' = [phys EXCEPT ![p] = blob[p]]
         /\ tpc' = [tpc EXCEPT ![t] = "flip"]
         /\ prot' = prot
BY Zenon DEF Benign, BeginRestore

\* A span out of service holds no application data.
LEMMA NothingHeld ==
  ASSUME OwnerInv, span # "inUse", NEW p \in Pages, NEW s \in Slots PROVE ~Holds(p, s)
BY Zenon DEF OwnerInv

\* The initial states satisfy the data invariant.
LEMMA DataInit == Benign /\ Init => DataInv
<1> SUFFICES ASSUME Benign, Init PROVE DataInv
  OBVIOUS
<1>1. OwnerInv
  BY Zenon DEF Init, OwnerInv, Holds
<1>2. ProtInv
  BY Zenon DEF Init, ProtInv
<1>3. Placed
  BY Zenon DEF Init, Placed, Holds
<1>4. Restoring
  BY OwnerAssumption, Zenon DEF Init, Restoring
<1>5. QuietInv
  BY Zenon DEF Init, QuietInv
<1> QED
  BY <1>1, <1>2, <1>3, <1>4, <1>5, Zenon DEF DataInv

\* Pages are as open as their states say, at steps of the application.
LEMMA ProtApp ==
  ASSUME Benign, StructInv, DataInv, AppStep PROVE ProtInv'
<1> USE DEF At, Doing, pageVars, appVars, workerVars, threadVars, lifeVars
<1>0. TypeOK /\ LockInv /\ ThreadInv /\ StateInv /\ SpanInv /\ ProtInv /\ QuietInv
  BY Zenon DEF StructInv, DataInv
<1>1. ASSUME \/ PurgeResidentEmpty
             \/ \E t \in Threads, p \in Pages, s \in Slots : FreeSlot(t, p, s)
             \/ \E t \in Threads : RetireSpan(t) \/ CompleteAccess(t)
             \/ \E t \in Threads : TakeFault(t)
             \/ \E t \in Threads, a \in Access : BeginAccess(t, a)
      PROVE  ProtInv'
  <2>1. UNCHANGED <<state, wpc, prot>>
    BY <1>1, Zenon DEF PurgeResidentEmpty, FreeSlot, RetireSpan, BeginAccess,
       CompleteAccess, TakeFault
  <2> QED
    BY <1>0, <2>1, Zenon DEF ProtInv
<1>2. ASSUME NEW p \in Pages, NEW s \in Slots, AllocSlot(p, s) PROVE ProtInv'
  BY <1>0, <1>2, Zenon DEF ProtInv, AllocSlot
<1>3. ASSUME NEW t \in Threads, NEW p \in Pages, ReleasePage(t, p)
      PROVE  ProtInv'
  BY <1>0, <1>3, SMT, SMTT(30) DEF ProtInv, ReleasePage
<1> QED
  BY <1>1, <1>2, <1>3, Zenon
     DEF AppStep

\* Pages are as open as their states say, at the fault handler.
LEMMA ProtFault ==
  ASSUME Benign, StructInv, DataInv, FaultStep PROVE ProtInv'
<1> USE DEF At, Doing, pageVars, appVars, workerVars, threadVars, lifeVars
<1>0. TypeOK /\ LockInv /\ ThreadInv /\ StateInv /\ SpanInv /\ ProtInv /\ QuietInv
  BY Zenon DEF StructInv, DataInv
<1>1. ASSUME \/ \E t \in Threads : LockForFault(t) \/ FaultCompressedFails(t)
             \/ \E t \in Threads : ResumeAccess(t)
             \/ \E t \in Threads, p \in Pages : SkipPrefetch(t, p)
      PROVE  ProtInv'
  <2>1. UNCHANGED <<state, wpc, prot>>
    BY <1>1, Zenon DEF LockForFault, FaultCompressedFails, SkipPrefetch,
       ResumeAccess
  <2> QED
    BY <1>0, <2>1, Zenon DEF ProtInv
<1>2. ASSUME NEW t \in Threads, FaultCompressed(t) PROVE ProtInv'
  <2>1. UNCHANGED <<prot, state, wpc>>
    BY <1>2, BenignRestore, Zenon DEF FaultCompressed
  <2> QED
    BY <1>0, <2>1, Zenon DEF ProtInv
<1>3. ASSUME NEW t \in Threads, NEW p \in Pages, FinishRestore(t, p)
       PROVE  ProtInv'
  BY <1>0, <1>3, OwnerAssumption, SMT, SMTT(30) DEF ProtInv, TypeOK, LockInv, LockedSteps,
       FinishRestore
<1>4. ASSUME NEW t \in Threads, NEW p \in Pages, PrefetchPage(t, p)
       PROVE  ProtInv'
  <2>1. UNCHANGED <<prot, state, wpc>>
    BY <1>4, BenignRestore, Zenon DEF PrefetchPage
  <2> QED
    BY <1>0, <2>1, Zenon DEF ProtInv
<1>5. ASSUME NEW t \in Threads, FaultCompressing(t) PROVE ProtInv'
  BY <1>0, <1>5, OwnerAssumption, SMT, SMTT(30) DEF ProtInv, TypeOK, LockInv, LockedSteps,
       FaultCompressing
<1>6. ASSUME NEW t \in Threads, FaultResident(t) PROVE ProtInv'
  BY <1>0, <1>6, SMT, SMTT(30) DEF ProtInv, StateInv, FaultResident
<1>7. ASSUME NEW t \in Threads, FaultShadow(t) PROVE ProtInv'
  BY <1>0, <1>7, OwnerAssumption, SMT, SMTT(30) DEF ProtInv, LockInv, LockedSteps, FaultShadow
<1> QED
  BY <1>1, <1>2, <1>3, <1>4, <1>5, <1>6, <1>7, Zenon
     DEF FaultStep, HandlerStep

\* Pages are as open as their states say, at compressPage.
LEMMA ProtPhase ==
  ASSUME Benign, StructInv, DataInv, PhaseStep PROVE ProtInv'
<1> USE DEF At, Doing, pageVars, appVars, workerVars, threadVars, lifeVars
<1>0. TypeOK /\ LockInv /\ ThreadInv /\ StateInv /\ SpanInv /\ ProtInv /\ QuietInv
  BY Zenon DEF StructInv, DataInv
<1>1. ASSUME NEW p \in Pages, StartCompress(p) PROVE ProtInv'
  BY <1>0, <1>1, SMT, ZenonT(40) DEF ProtInv, TypeOK, StartCompress
<1>2. ASSUME NEW p \in Pages, RejectCompress(p) PROVE ProtInv'
  BY <1>0, <1>2, SMT, SMTT(30) DEF ProtInv, RejectCompress, Leave
<1>3. ASSUME NEW p \in Pages, PrepareSnapshot(p) PROVE ProtInv'
  <2>1. state[p] = "COMPRESSING" /\ state' = state
    BY <1>0, <1>3, Zenon DEF PrepareSnapshot, StateInv
  <2>2. CASE Deferred
    <3>1. prot' = [prot EXCEPT ![p] = "RW"] /\ wpc' = [wpc EXCEPT ![p] = "snapshot"]
      BY <1>3, <2>2, BenignMprotect, SMT, ZenonT(40) DEF PrepareSnapshot
    <3> QED
      BY <1>0, <2>1, <2>2, <3>1, Zenon DEF TypeOK, ProtInv
  <2>3. CASE ~Deferred
    <3>1. prot' = prot /\ wpc' = [wpc EXCEPT ![p] = "arm"]
      BY <1>3, <2>3, Zenon DEF PrepareSnapshot
    <3> QED
      BY <1>0, <2>1, <2>3, <3>1, SMT, SMTT(30) DEF ProtInv
  <2> QED
    BY <2>2, <2>3, Zenon
<1>4. ASSUME NEW p \in Pages, ArmReadOnly(p) PROVE ProtInv'
  BY <1>0, <1>4, OwnerAssumption, BenignMprotect, BenignRestore, SMT, SMTT(30) DEF ProtInv,
       TypeOK, ArmReadOnly
<1>5. ASSUME NEW p \in Pages, Relock(p) PROVE ProtInv'
  BY <1>0, <1>5, SMT, SMTT(30) DEF ProtInv, TypeOK, StateInv, Relock, Leave
<1>6. ASSUME NEW p \in Pages, Snapshot(p) PROVE ProtInv'
  BY <1>0, <1>6, SMT, ZenonT(40) DEF ProtInv, TypeOK, Snapshot
<1>7. ASSUME NEW p \in Pages, VerifyFails(p) PROVE ProtInv'
  BY <1>0, <1>7, SMT, ZenonT(40) DEF ProtInv, TypeOK, VerifyFails, Leave
<1>8. ASSUME NEW p \in Pages, VerifyPasses(p) PROVE ProtInv'
  BY <1>0, <1>8, SMT, SMTT(30) DEF ProtInv, VerifyPasses
<1>9. ASSUME NEW p \in Pages, GateFails(p) PROVE ProtInv'
  BY <1>0, <1>9, SMT, SMTT(30) DEF ProtInv, TypeOK, StateInv, GateFails, Leave
<1>10. ASSUME NEW p \in Pages, CopyBack(p) PROVE ProtInv'
  BY <1>0, <1>10, SMT, SMTT(30) DEF ProtInv, TypeOK, CopyBack, Leave
<1>11. ASSUME NEW p \in Pages, CommitBlob(p) PROVE ProtInv'
  BY <1>0, <1>11, SMT, SMTT(30) DEF ProtInv, CommitBlob
<1>12. ASSUME NEW p \in Pages, FlushPending(p) PROVE ProtInv'
  BY <1>0, <1>12, SMT, SMTT(30) DEF ProtInv, FlushPending
<1> QED
  BY <1>1, <1>2, <1>3, <1>4, <1>5, <1>6, <1>7, <1>8, <1>9, <1>10, <1>11, <1>12, ZenonT(40)
     DEF PhaseStep, CompressStep

\* Pages are as open as their states say, at the other work of the compressor.
LEMMA ProtOther ==
  ASSUME Benign, StructInv, DataInv, OtherStep PROVE ProtInv'
<1> USE DEF At, Doing, pageVars, appVars, workerVars, threadVars, lifeVars
<1>0. TypeOK /\ LockInv /\ ThreadInv /\ StateInv /\ SpanInv /\ ProtInv /\ QuietInv
  BY Zenon DEF StructInv, DataInv
<1>1. ASSUME \/ \E p \in Pages : ClearStalePending(p)
             \/ StopCompressor
             \/ UninstallHandler
      PROVE  ProtInv'
  <2>1. UNCHANGED <<state, wpc, prot>>
    BY <1>1, Zenon DEF ClearStalePending, StopCompressor, UninstallHandler
  <2> QED
    BY <1>0, <2>1, Zenon DEF ProtInv
<1>2. ASSUME NEW p \in Pages, MonitorPage(p) PROVE ProtInv'
  BY <1>0, <1>2, SMT, SMTT(30) DEF ProtInv, MonitorPage
<1>3. ASSUME NEW p \in Pages, CheckMonitored(p) PROVE ProtInv'
  BY <1>0, <1>3, SMT, SMTT(30) DEF ProtInv, TypeOK, CheckMonitored
<1>4. ASSUME NEW p \in Pages, ProtectMonitored(p) PROVE ProtInv'
  BY <1>0, <1>4, SMT, SMTT(30) DEF ProtInv, TypeOK, ProtectMonitored
<1>5. ASSUME NEW p \in Pages, Escalate(p) PROVE ProtInv'
  BY <1>0, <1>5, SMT, SMTT(30) DEF ProtInv, StateInv, Escalate
<1>6. ASSUME NEW p \in Pages, SweepPage(p) PROVE ProtInv'
  BY <1>0, <1>6, OwnerAssumption, BenignMprotect, BenignRestore, SMT, SMTT(30) DEF ProtInv,
       TypeOK, SweepPage, Turn
<1>7. ASSUME NEW p \in Pages, StartReclaim(p) PROVE ProtInv'
  BY <1>0, <1>7, OwnerAssumption, BenignMprotect, BenignRestore, SMT, SMTT(30) DEF ProtInv,
       TypeOK, StartReclaim, Turn
<1>8. ASSUME NEW p \in Pages, PostponeReclaim(p) PROVE ProtInv'
  BY <1>0, <1>8, SMT, SMTT(30) DEF ProtInv, TypeOK, StateInv, PostponeReclaim, Leave
<1>9. ASSUME NEW p \in Pages, DiscardShadow(p) PROVE ProtInv'
  BY <1>0, <1>9, SMT, ZenonT(40) DEF ProtInv, TypeOK, DiscardShadow, Leave
<1>10. ASSUME NEW p \in Pages, ConfirmShadow(p) PROVE ProtInv'
  BY <1>0, <1>10, OwnerAssumption, BenignMprotect, BenignRestore, SMT, SMTT(30) DEF ProtInv,
       TypeOK, ConfirmShadow
<1>11. ASSUME NEW p \in Pages, DropBacking(p) PROVE ProtInv'
  BY <1>0, <1>11, SMT, SMTT(30) DEF ProtInv, DropBacking, Leave
<1>12. ASSUME NEW p \in Pages, DrainRestore(p) PROVE ProtInv'
  BY <1>0, <1>12, Zenon DEF QuietInv, DrainRestore
<1>13. ASSUME NEW p \in Pages, DrainFinish(p) PROVE ProtInv'
  BY <1>0, <1>13, SMT, SMTT(30) DEF ProtInv, TypeOK, DrainFinish, Leave
<1>14. ASSUME NEW p \in Pages, DrainOther(p) PROVE ProtInv'
  BY <1>0, <1>14, Zenon DEF QuietInv, DrainOther
<1> QED
  BY <1>1, <1>2, <1>3, <1>4, <1>5, <1>6, <1>7, <1>8, <1>9, <1>10, <1>11,
     <1>12, <1>13, <1>14, Zenon
     DEF OtherStep, StopStep

\* Every step keeps pages as closed as their state requires.
LEMMA ProtStep ==
  ASSUME Benign, StructInv, DataInv, [Next]_vars PROVE ProtInv'
<1> USE DEF At, Doing, pageVars, appVars, workerVars, threadVars, lifeVars
<1>0. TypeOK /\ LockInv /\ ThreadInv /\ StateInv /\ SpanInv /\ ProtInv /\ QuietInv
  BY Zenon DEF StructInv, DataInv
<1>1. CASE UNCHANGED vars
  BY <1>0, <1>1, Zenon DEF vars, ProtInv
<1> QED
  BY <1>1, ProtApp, ProtFault, ProtPhase, ProtOther, StepCases, Zenon

\* The data of a page is where its state says, at steps of the application.
LEMMA PlacedApp ==
  ASSUME Benign, StructInv, DataInv, AppStep PROVE Placed'
<1> USE DEF At, Doing, pageVars, appVars, workerVars, threadVars, lifeVars
<1>0. TypeOK /\ LockInv /\ ThreadInv /\ StateInv /\ SpanInv /\ OwnerInv /\ ProtInv /\ Placed /\ Restoring /\ QuietInv
  BY Zenon DEF StructInv, DataInv
<1>1. ASSUME \/ \E t \in Threads, a \in Access : BeginAccess(t, a)
             \/ \E t \in Threads : TakeFault(t)
      PROVE  Placed'
  <2>1. UNCHANGED <<state, prot, phys, blob, buf, wpc, mem>>
    BY <1>1, Zenon DEF BeginAccess, TakeFault
  <2> QED
    BY <1>0, <2>1, Zenon DEF Placed, Holds
<1>2. ASSUME NEW p \in Pages, NEW s \in Slots, AllocSlot(p, s) PROVE Placed'
  <2>1. mem' = mem
    BY <1>2, Zenon DEF AllocSlot
  <2>2. CASE span = "empty"
    BY <1>0, <2>1, <2>2, NothingHeld, Zenon DEF Placed, Holds
  <2>3. CASE span # "empty"
    BY <1>0, <1>2, <2>3, Zenon DEF AllocSlot, Placed, Holds
  <2> QED
    BY <2>2, <2>3, Zenon
<1>3. ASSUME PurgeResidentEmpty PROVE Placed'
  <2>1. mem' = mem /\ span # "inUse"
    BY <1>0, <1>3, Zenon DEF PurgeResidentEmpty
  <2> QED
    BY <1>0, <2>1, NothingHeld, Zenon DEF Placed, Holds
<1>4. ASSUME NEW t \in Threads, NEW p \in Pages, NEW s \in Slots, FreeSlot(t, p, s)
      PROVE  Placed'
  BY <1>0, <1>4, SMT, SMTT(30) DEF Placed, Holds, FreeSlot
<1>5. ASSUME NEW t \in Threads, NEW p \in Pages, ReleasePage(t, p)
      PROVE  Placed'
  <2>1. mem' = mem /\ span # "inUse"
    BY <1>0, <1>5, Zenon DEF ReleasePage, SpanInv
  <2> QED
    BY <1>0, <2>1, NothingHeld, Zenon DEF Placed, Holds
<1>6. ASSUME NEW t \in Threads, RetireSpan(t) PROVE Placed'
  <2>1. mem' = mem /\ span # "inUse"
    BY <1>0, <1>6, Zenon DEF RetireSpan, SpanInv
  <2> QED
    BY <1>0, <2>1, NothingHeld, Zenon DEF Placed, Holds
<1>7. ASSUME NEW t \in Threads, CompleteAccess(t) PROVE Placed'
  <2>1. /\ acc[t].page \in Pages /\ acc[t].slot \in Slots
        /\ UNCHANGED <<state, prot, blob, wpc, buf>>
    BY <1>0, <1>7, AccessType, Zenon DEF CompleteAccess
  <2>2. CASE acc[t].val = Undef
    BY <1>0, <1>7, <2>1, <2>2, SMT, SMTT(30) DEF CompleteAccess, Placed, Holds
  <2>3. CASE acc[t].val # Undef
    <3>1. /\ phys' = [phys EXCEPT ![acc[t].page][acc[t].slot] = acc[t].val]
          /\ mem' = [mem EXCEPT ![acc[t].page][acc[t].slot] = acc[t].val]
          /\ prot[acc[t].page] = "RW"
      BY <1>7, <2>3, Zenon DEF CompleteAccess, Permitted
    <3>2. state[acc[t].page] # "COMPRESSED" /\ ~(wpc[acc[t].page] = "gate" /\ ~Deferred)
      BY <1>0, <2>1, <3>1, Zenon DEF ProtInv
    <3>3. ASSUME NEW p \in Pages, NEW s \in Slots, <<p, s>> # <<acc[t].page, acc[t].slot>>
          PROVE  mem'[p][s] = mem[p][s] /\ phys'[p][s] = phys[p][s]
      BY <1>0, <3>1, <3>3, SMT, SMTT(30) DEF TypeOK, PageContents
    <3>4. mem'[acc[t].page][acc[t].slot] = phys'[acc[t].page][acc[t].slot]
      BY <1>0, <2>1, <3>1, Zenon DEF TypeOK, PageContents
    <3> QED
      BY <1>0, <2>1, <3>2, <3>3, <3>4, SMT, SMTT(30) DEF Placed, Holds
  <2> QED
    BY <2>2, <2>3, Zenon
<1> QED
  BY <1>1, <1>2, <1>3, <1>4, <1>5, <1>6, <1>7, Zenon
     DEF AppStep

\* The data of a page is where its state says, at the fault handler.
LEMMA PlacedFault ==
  ASSUME Benign, StructInv, DataInv, FaultStep PROVE Placed'
<1> USE DEF At, Doing, pageVars, appVars, workerVars, threadVars, lifeVars
<1>0. TypeOK /\ LockInv /\ ThreadInv /\ StateInv /\ SpanInv /\ OwnerInv /\ ProtInv /\ Placed /\ Restoring /\ QuietInv
  BY Zenon DEF StructInv, DataInv
<1>1. ASSUME \/ \E t \in Threads : LockForFault(t) \/ ResumeAccess(t)
             \/ \E t \in Threads, p \in Pages : SkipPrefetch(t, p)
      PROVE  Placed'
  <2>1. UNCHANGED <<state, prot, phys, blob, buf, wpc, mem>>
    BY <1>1, Zenon DEF LockForFault, SkipPrefetch, ResumeAccess
  <2> QED
    BY <1>0, <2>1, Zenon DEF Placed, Holds
<1>2. ASSUME NEW t \in Threads, FaultCompressed(t) PROVE Placed'
  <2>1. /\ acc[t].page \in Pages /\ state[acc[t].page] = "COMPRESSED"
        /\ phys' = [phys EXCEPT ![acc[t].page] = blob[acc[t].page]]
        /\ UNCHANGED <<state, prot, blob, mem, wpc, buf>>
    BY <1>0, <1>2, AccessType, BenignRestore, ZenonT(40) DEF FaultCompressed
  <2> QED
    BY <1>0, <2>1, SMT, SMTT(30) DEF Placed, Holds
<1>3. ASSUME NEW t \in Threads, FaultCompressedFails(t) PROVE Placed'
  BY <1>0, <1>3, SMT, SMTT(30) DEF Placed, Holds, FaultCompressedFails
<1>4. ASSUME NEW t \in Threads, NEW p \in Pages, FinishRestore(t, p)
       PROVE  Placed'
  <2>1. state[p] = "COMPRESSED" /\ phys[p] = blob[p] /\ tpc[t] = "flip"
    BY <1>0, <1>4, Zenon DEF FinishRestore, StateInv, Restoring, QuietInv
  <2>2. /\ state' = [state EXCEPT ![p] = "ACTIVE"] /\ blob' = [blob EXCEPT ![p] = NoBlob]
        /\ prot' = [prot EXCEPT ![p] = "RW"] /\ UNCHANGED <<phys, mem, wpc, buf>>
    BY <1>4, <2>1, Zenon DEF FinishRestore
  <2> QED
    BY <1>0, <2>1, <2>2, SMT, SMTT(30) DEF TypeOK, Placed, Holds
<1>5. ASSUME NEW t \in Threads, NEW p \in Pages, PrefetchPage(t, p)
       PROVE  Placed'
  <2>1. /\ state[p] = "COMPRESSED"
        /\ phys' = [phys EXCEPT ![p] = blob[p]]
        /\ UNCHANGED <<state, prot, blob, mem, wpc, buf>>
    BY <1>5, BenignRestore, Zenon DEF PrefetchPage
  <2> QED
    BY <1>0, <2>1, SMT, SMTT(30) DEF Placed, Holds
<1>6. ASSUME NEW t \in Threads, FaultCompressing(t) PROVE Placed'
  <2>1. /\ acc[t].page \in Pages /\ state[acc[t].page] = "COMPRESSING"
        /\ state' = [state EXCEPT ![acc[t].page] = "ACTIVE"]
        /\ prot' = [prot EXCEPT ![acc[t].page] = "RW"]
        /\ UNCHANGED <<phys, blob, mem, wpc, buf>>
    BY <1>0, <1>6, AccessType, BenignMprotect, SMT, SMTT(30) DEF FaultCompressing, Benign
  <2> QED
    BY <1>0, <2>1, SMT, SMTT(30) DEF Placed, Holds
<1>7. ASSUME NEW t \in Threads, FaultResident(t) PROVE Placed'
  BY <1>0, <1>7, SMT, SMTT(30) DEF Placed, Holds, FaultResident
<1>8. ASSUME NEW t \in Threads, FaultShadow(t) PROVE Placed'
  BY <1>0, <1>8, SMT, SMTT(30) DEF Placed, Holds, FaultShadow
<1> QED
  BY <1>1, <1>2, <1>3, <1>4, <1>5, <1>6, <1>7, <1>8, ZenonT(40)
     DEF FaultStep, HandlerStep

\* The data of a page is where its state says, at compressPage.
LEMMA PlacedPhase ==
  ASSUME Benign, StructInv, DataInv, PhaseStep PROVE Placed'
<1> USE DEF At, Doing, pageVars, appVars, workerVars, threadVars, lifeVars
<1>0. TypeOK /\ LockInv /\ ThreadInv /\ StateInv /\ SpanInv /\ OwnerInv /\ ProtInv /\ Placed /\ Restoring /\ QuietInv
  BY Zenon DEF StructInv, DataInv
<1>1. ASSUME NEW p \in Pages, StartCompress(p) PROVE Placed'
  BY <1>0, <1>1, SMT, SMTT(30) DEF Placed, Holds, StartCompress
<1>2. ASSUME NEW p \in Pages, RejectCompress(p) PROVE Placed'
  BY <1>0, <1>2, SMT, SMTT(30) DEF Placed, Holds, StateInv, RejectCompress, Leave
<1>3. ASSUME NEW p \in Pages, PrepareSnapshot(p) PROVE Placed'
  <2>1. UNCHANGED <<state, phys, blob, buf, mem>> /\ state[p] = "COMPRESSING"
    BY <1>0, <1>3, Zenon DEF PrepareSnapshot, StateInv
  <2>2. \A q \in Pages \ {p} : prot'[q] = prot[q]
    BY <1>0, <1>3, Zenon DEF PrepareSnapshot, TypeOK
  <2>3. \A q \in Pages : wpc'[q] = "gate" => wpc[q] = "gate"
    BY <1>0, <1>3, ZenonT(40) DEF PrepareSnapshot, TypeOK
  <2> QED
    BY <1>0, <2>1, <2>2, <2>3, SMT, ZenonT(40) DEF Placed, Holds
<1>4. ASSUME NEW p \in Pages, ArmReadOnly(p) PROVE Placed'
  BY <1>0, <1>4, SMT, SMTT(30) DEF Placed, Holds, StateInv, ArmReadOnly
<1>5. ASSUME NEW p \in Pages, Relock(p) PROVE Placed'
  BY <1>0, <1>5, SMT, SMTT(30) DEF Placed, Holds, TypeOK, ProtInv, StateInv, Relock, Leave
<1>6. ASSUME NEW p \in Pages, Snapshot(p) PROVE Placed'
  <2>1. UNCHANGED <<state, prot, phys, blob, mem>> /\ prot[p] # "NONE"
    BY <1>0, <1>6, Zenon DEF Snapshot, ProtInv
  <2>2. wpc' = [wpc EXCEPT ![p] = "verify"] /\ buf' = [buf EXCEPT ![p] = phys[p]]
    BY <1>6, <2>1, ZenonT(40) DEF Snapshot
  <2> QED
    BY <1>0, <2>1, <2>2, SMT, SMTT(30) DEF Placed, Holds
<1>7. ASSUME NEW p \in Pages, VerifyFails(p) PROVE Placed'
  BY <1>0, <1>7, SMT, SMTT(30) DEF Placed, Holds, TypeOK, StateInv, VerifyFails, Leave
<1>8. ASSUME NEW p \in Pages, VerifyPasses(p) PROVE Placed'
  <2>1. /\ UNCHANGED <<state, prot, phys, blob, mem>> /\ phys[p] = buf[p]
        /\ wpc' = [wpc EXCEPT ![p] = "gate"] /\ buf' = [buf EXCEPT ![p] = ZeroFreeSlots(p)]
        /\ state[p] = "COMPRESSING"
    BY <1>0, <1>8, Zenon DEF VerifyPasses, StateInv
  <2>2. \A s \in Slots : Holds(p, s) => ZeroFreeSlots(p)[s] = mem[p][s]
    BY <1>0, <2>1, Zenon DEF ZeroFreeSlots, OwnerInv, Placed
  <2> QED
    BY <1>0, <2>1, <2>2, SMT, SMTT(30) DEF Placed, Holds
<1>9. ASSUME NEW p \in Pages, GateFails(p) PROVE Placed'
  <2>1. /\ state' = [state EXCEPT ![p] = "ACTIVE"] /\ wpc' = [wpc EXCEPT ![p] = "idle"]
        /\ UNCHANGED <<prot, phys, blob, mem>> /\ buf' = [buf EXCEPT ![p] = ZeroPage]
    BY <1>9, Zenon DEF GateFails, Leave, Benign
  <2>2. state[p] = "COMPRESSING"
    BY <1>0, <1>9, Zenon DEF GateFails, StateInv
  <2> QED
    BY <1>0, <2>1, <2>2, SMT, ZenonT(40) DEF TypeOK, Placed, Holds
<1>10. ASSUME NEW p \in Pages, CopyBack(p) PROVE Placed'
  BY <1>0, <1>10, ZenonT(40) DEF CopyBack, QuietInv
<1>11. ASSUME NEW p \in Pages, CommitBlob(p) PROVE Placed'
  <2>1. /\ wpc[p] = "gate" /\ state[p] = "COMPRESSING"
        /\ UNCHANGED <<prot, phys, mem>>
    BY <1>0, <1>11, Zenon DEF CommitBlob, StateInv
  <2>2. /\ blob'[p] = buf[p] /\ wpc'[p] # "gate"
        /\ state'[p] = IF Deferred THEN "COMPRESSED_SHADOW" ELSE "COMPRESSED"
        /\ \A q \in Pages \ {p} : /\ state'[q] = state[q] /\ blob'[q] = blob[q]
                                  /\ wpc'[q] = wpc[q] /\ buf'[q] = buf[q]
    BY <1>0, <1>11, SMT, ZenonT(40) DEF TypeOK, CommitBlob
  <2> QED
    BY <1>0, <2>1, <2>2, SMT, SMTT(30) DEF Placed, Holds
<1>12. ASSUME NEW p \in Pages, FlushPending(p) PROVE Placed'
  BY <1>0, <1>12, SMT, SMTT(30) DEF Placed, Holds, FlushPending
<1> QED
  BY <1>1, <1>2, <1>3, <1>4, <1>5, <1>6, <1>7, <1>8, <1>9, <1>10, <1>11, <1>12, Zenon
     DEF PhaseStep, CompressStep

\* The data of a page is where its state says, at the other work of the compressor.
LEMMA PlacedOther ==
  ASSUME Benign, StructInv, DataInv, OtherStep PROVE Placed'
<1> USE DEF At, Doing, pageVars, appVars, workerVars, threadVars, lifeVars
<1>0. TypeOK /\ LockInv /\ ThreadInv /\ StateInv /\ SpanInv /\ OwnerInv /\ ProtInv /\ Placed /\ Restoring /\ QuietInv
  BY Zenon DEF StructInv, DataInv
<1>1. ASSUME \/ \E p \in Pages : ClearStalePending(p)
             \/ StopCompressor
             \/ UninstallHandler
      PROVE  Placed'
  <2>1. UNCHANGED <<state, prot, phys, blob, buf, wpc, mem>>
    BY <1>1, Zenon DEF ClearStalePending, StopCompressor, UninstallHandler
  <2> QED
    BY <1>0, <2>1, Zenon DEF Placed, Holds
<1>2. ASSUME NEW p \in Pages, MonitorPage(p) PROVE Placed'
  BY <1>0, <1>2, SMT, SMTT(30) DEF Placed, Holds, MonitorPage
<1>3. ASSUME NEW p \in Pages, CheckMonitored(p) PROVE Placed'
  BY <1>0, <1>3, SMT, SMTT(30) DEF Placed, Holds, TypeOK, CheckMonitored
<1>4. ASSUME NEW p \in Pages, ProtectMonitored(p) PROVE Placed'
  BY <1>0, <1>4, SMT, SMTT(30) DEF Placed, Holds, TypeOK, StateInv, ProtectMonitored
<1>5. ASSUME NEW p \in Pages, Escalate(p) PROVE Placed'
  BY <1>0, <1>5, SMT, SMTT(30) DEF Placed, Holds, Escalate
<1>6. ASSUME NEW p \in Pages, SweepPage(p) PROVE Placed'
  BY <1>0, <1>6, OwnerAssumption, BenignMprotect, SMT, SMTT(30) DEF Placed, Holds, SweepPage,
       Turn
<1>7. ASSUME NEW p \in Pages, StartReclaim(p) PROVE Placed'
  BY <1>0, <1>7, SMT, SMTT(30) DEF Placed, Holds, StartReclaim
<1>8. ASSUME NEW p \in Pages, PostponeReclaim(p) PROVE Placed'
  BY <1>0, <1>8, SMT, SMTT(30) DEF Placed, Holds, StateInv, PostponeReclaim, Leave
<1>9. ASSUME NEW p \in Pages, DiscardShadow(p) PROVE Placed'
  BY <1>0, <1>9, SMT, SMTT(30) DEF Placed, Holds, StateInv, DiscardShadow, Leave
<1>10. ASSUME NEW p \in Pages, ConfirmShadow(p) PROVE Placed'
  BY <1>0, <1>10, SMT, SMTT(30) DEF Placed, Holds, ConfirmShadow
<1>11. ASSUME NEW p \in Pages, DropBacking(p) PROVE Placed'
  BY <1>0, <1>11, SMT, SMTT(30) DEF Placed, Holds, ProtInv, StateInv, DropBacking, Leave
<1>12. ASSUME NEW p \in Pages, DrainRestore(p) PROVE Placed'
  BY <1>0, <1>12, Zenon DEF DrainRestore, QuietInv
<1>13. ASSUME NEW p \in Pages, DrainFinish(p) PROVE Placed'
  BY <1>0, <1>13, Zenon DEF DrainFinish, QuietInv
<1>14. ASSUME NEW p \in Pages, DrainOther(p) PROVE Placed'
  BY <1>0, <1>14, Zenon DEF DrainOther, QuietInv
<1> QED
  BY <1>1, <1>2, <1>3, <1>4, <1>5, <1>6, <1>7, <1>8, <1>9, <1>10, <1>11,
     <1>12, <1>13, <1>14, Zenon
     DEF OtherStep, StopStep

\* Every step keeps the application's data where the page's state says it is.
LEMMA PlacedStep ==
  ASSUME Benign, StructInv, DataInv, [Next]_vars PROVE Placed'
<1> USE DEF At, Doing, pageVars, appVars, workerVars, threadVars, lifeVars
<1>0. TypeOK /\ LockInv /\ ThreadInv /\ StateInv /\ SpanInv /\ OwnerInv /\ ProtInv /\ Placed /\ Restoring /\ QuietInv
  BY Zenon DEF StructInv, DataInv
<1>1. CASE UNCHANGED vars
  BY <1>0, <1>1, Zenon DEF vars, Placed, Holds
<1> QED
  BY <1>1, PlacedApp, PlacedFault, PlacedPhase, PlacedOther, StepCases, Zenon

\* A page being restored, at steps of the application.
LEMMA RestoringApp ==
  ASSUME Benign, StructInv, DataInv, AppStep PROVE Restoring'
<1> USE DEF At, Doing, pageVars, appVars, workerVars, threadVars, lifeVars
<1>0. TypeOK /\ LockInv /\ ThreadInv /\ StateInv /\ SpanInv /\ OwnerInv /\ ProtInv /\ Placed /\ Restoring /\ QuietInv
  BY Zenon DEF StructInv, DataInv
<1>1. ASSUME NEW p \in Pages, NEW s \in Slots, AllocSlot(p, s)
      PROVE  Restoring'
  BY <1>0, <1>1, Zenon DEF Restoring, AllocSlot
<1>2. ASSUME PurgeResidentEmpty PROVE Restoring'
  <2>1. UNCHANGED <<lock, tpc>> /\ \A p \in Pages : state[p] = "EMPTY"
    BY <1>0, <1>2, Zenon DEF PurgeResidentEmpty, SpanInv
  <2> QED
    BY <1>0, <2>1, Zenon DEF Restoring, StateInv
<1>3. ASSUME NEW t \in Threads, NEW p \in Pages, NEW s \in Slots, FreeSlot(t, p, s)
      PROVE  Restoring'
  BY <1>0, <1>3, SMT, SMTT(30) DEF Restoring, TypeOK, FreeSlot
<1>4. ASSUME NEW t \in Threads, NEW p \in Pages, ReleasePage(t, p)
      PROVE  Restoring'
  BY <1>0, <1>4, OwnerAssumption, SMT, SMTT(30) DEF Restoring, ReleasePage
<1>5. ASSUME NEW t \in Threads, RetireSpan(t) PROVE Restoring'
  <2>1. lock' = lock /\ tpc' = [tpc EXCEPT ![t] = "idle"] /\ \A p \in Pages : state[p] = "EMPTY"
    BY <1>0, <1>5, Zenon DEF RetireSpan, SpanInv
  <2> QED
    BY <1>0, <2>1, SMT, SMTT(30) DEF Restoring, StateInv
<1>6. ASSUME NEW t \in Threads, NEW a \in Access, BeginAccess(t, a)
      PROVE  Restoring'
  BY <1>0, <1>6, SMT, SMTT(30) DEF Restoring, BeginAccess
<1>7. ASSUME NEW t \in Threads, CompleteAccess(t) PROVE Restoring'
  <2>1. UNCHANGED <<lock, blob>> /\ tpc' = [tpc EXCEPT ![t] = "idle"]
    BY <1>7, Zenon DEF CompleteAccess
  <2>2. ASSUME NEW p \in Pages, NEW u \in Threads, lock[p] = u, tpc[u] = "flip"
        PROVE  phys'[p] = phys[p]
    <3>1. prot[p] # "RW"
      BY <1>0, <2>2, Zenon DEF StateInv, ProtInv
    <3>2. phys' = phys \/ (prot[acc[t].page] = "RW" /\ phys' = [phys EXCEPT ![acc[t].page][acc[t].slot] = acc[t].val])
      BY <1>7, Zenon DEF CompleteAccess, Permitted
    <3> QED
      BY <1>0, <3>1, <3>2, Zenon DEF TypeOK
  <2> QED
    BY <1>0, <2>1, <2>2, SMT, SMTT(30) DEF Restoring
<1>8. ASSUME NEW t \in Threads, TakeFault(t) PROVE Restoring'
  BY <1>0, <1>8, SMT, ZenonT(40) DEF Restoring, TypeOK, TakeFault
<1> QED
  BY <1>1, <1>2, <1>3, <1>4, <1>5, <1>6, <1>7, <1>8, ZenonT(40)
     DEF AppStep

\* A page being restored, at the fault handler.
LEMMA RestoringFault ==
  ASSUME Benign, StructInv, DataInv, FaultStep PROVE Restoring'
<1> USE DEF At, Doing, pageVars, appVars, workerVars, threadVars, lifeVars
<1>0. TypeOK /\ LockInv /\ ThreadInv /\ StateInv /\ SpanInv /\ OwnerInv /\ ProtInv /\ Placed /\ Restoring /\ QuietInv
  BY Zenon DEF StructInv, DataInv
<1>1. ASSUME NEW t \in Threads, LockForFault(t) PROVE Restoring'
  BY <1>0, <1>1, SMT, SMTT(30) DEF Restoring, TypeOK, LockForFault
<1>2. ASSUME NEW t \in Threads, FaultCompressed(t) PROVE Restoring'
  BY <1>0, <1>2, SMT, SMTT(30) DEF Restoring, TypeOK, LockInv, FaultCompressed, BeginRestore
<1>3. ASSUME NEW t \in Threads, FaultCompressedFails(t) PROVE Restoring'
  BY <1>0, <1>3, OwnerAssumption, SMT, SMTT(30) DEF Restoring, FaultCompressedFails
<1>4. ASSUME NEW t \in Threads, NEW p \in Pages, FinishRestore(t, p)
       PROVE  Restoring'
  BY <1>0, <1>4, OwnerAssumption, SMT, ZenonT(40) DEF Restoring, TypeOK, FinishRestore
<1>5. ASSUME NEW t \in Threads, NEW p \in Pages, PrefetchPage(t, p)
       PROVE  Restoring'
  <2>1. /\ lock' = [lock EXCEPT ![p] = t] /\ tpc' = [tpc EXCEPT ![t] = "flip"]
        /\ phys' = [phys EXCEPT ![p] = blob[p]] /\ blob' = blob /\ tpc[t] = "prefetch"
    BY <1>5, BenignRestore, Zenon DEF PrefetchPage
  <2>2. \A q \in Pages : lock[q] # t
    BY <1>0, <2>1, Zenon DEF LockInv
  <2> QED
    BY <1>0, <2>1, <2>2, Zenon DEF TypeOK, Restoring
<1>6. ASSUME NEW t \in Threads, NEW p \in Pages, SkipPrefetch(t, p)
       PROVE  Restoring'
  BY <1>0, <1>6, Zenon DEF Restoring, SkipPrefetch
<1>7. ASSUME NEW t \in Threads, ResumeAccess(t) PROVE Restoring'
  BY <1>0, <1>7, SMT, SMTT(30) DEF Restoring, ResumeAccess
<1>8. ASSUME NEW t \in Threads, FaultCompressing(t) PROVE Restoring'
  BY <1>0, <1>8, OwnerAssumption, SMT, ZenonT(40) DEF Restoring, TypeOK, FaultCompressing
<1>9. ASSUME NEW t \in Threads, FaultResident(t) PROVE Restoring'
  BY <1>0, <1>9, OwnerAssumption, SMT, SMTT(30) DEF Restoring, FaultResident
<1>10. ASSUME NEW t \in Threads, FaultShadow(t) PROVE Restoring'
  BY <1>0, <1>10, OwnerAssumption, SMT, SMTT(30) DEF Restoring, LockInv, FaultShadow
<1> QED
  BY <1>1, <1>2, <1>3, <1>4, <1>5, <1>6, <1>7, <1>8, <1>9, <1>10, ZenonT(40)
     DEF FaultStep, HandlerStep

\* A page being restored, at compressPage.
LEMMA RestoringPhase ==
  ASSUME Benign, StructInv, DataInv, PhaseStep PROVE Restoring'
<1> USE DEF At, Doing, pageVars, appVars, workerVars, threadVars, lifeVars
<1>0. TypeOK /\ LockInv /\ ThreadInv /\ StateInv /\ SpanInv /\ OwnerInv /\ ProtInv /\ Placed /\ Restoring /\ QuietInv
  BY Zenon DEF StructInv, DataInv
<1>1. ASSUME \/ \E p \in Pages : ArmReadOnly(p) \/ Snapshot(p)
             \/ \E p \in Pages : VerifyPasses(p) \/ FlushPending(p)
      PROVE  Restoring'
  <2>1. UNCHANGED <<lock, tpc, phys, blob>>
    BY <1>1, ZenonT(40) DEF ArmReadOnly, Snapshot, VerifyPasses, FlushPending
  <2> QED
    BY <1>0, <2>1, Zenon DEF Restoring
<1>2. ASSUME NEW p \in Pages, StartCompress(p) PROVE Restoring'
  BY <1>0, <1>2, OwnerAssumption, SMT, SMTT(30) DEF Restoring, StartCompress
<1>3. ASSUME NEW p \in Pages, RejectCompress(p) PROVE Restoring'
  BY <1>0, <1>3, OwnerAssumption, SMT, SMTT(30) DEF Restoring, RejectCompress, Leave
<1>4. ASSUME NEW p \in Pages, PrepareSnapshot(p) PROVE Restoring'
  <2>1. UNCHANGED <<phys, blob, tpc>> /\ (lock' = lock \/ lock' = [lock EXCEPT ![p] = NoOne])
    BY <1>4, Zenon DEF PrepareSnapshot
  <2> QED
    BY <1>0, <2>1, OwnerAssumption, SMT, ZenonT(40) DEF TypeOK, Restoring
<1>5. ASSUME NEW p \in Pages, Relock(p) PROVE Restoring'
  <2>1. UNCHANGED <<phys, blob, tpc>>
    BY <1>5, Zenon DEF Relock
  <2>2. lock' = [lock EXCEPT ![p] = Worker] \/ lock' = [lock EXCEPT ![p] = NoOne]
    BY <1>5, Zenon DEF Relock, Leave
  <2> QED
    BY <1>0, <2>1, <2>2, OwnerAssumption, ZenonT(40) DEF TypeOK, Restoring
<1>6. ASSUME NEW p \in Pages, VerifyFails(p) PROVE Restoring'
  BY <1>0, <1>6, OwnerAssumption, SMT, SMTT(30) DEF Restoring, VerifyFails, Leave
<1>7. ASSUME NEW p \in Pages, GateFails(p) PROVE Restoring'
  <2>1. UNCHANGED <<phys, blob, tpc>> /\ lock' = [lock EXCEPT ![p] = NoOne]
    BY <1>7, Zenon DEF GateFails, Leave, Benign
  <2> QED
    BY <1>0, <2>1, OwnerAssumption, SMT, SMTT(30) DEF Restoring
<1>8. ASSUME NEW p \in Pages, CopyBack(p) PROVE Restoring'
  BY <1>0, <1>8, ZenonT(40) DEF CopyBack, QuietInv
<1>9. ASSUME NEW p \in Pages, CommitBlob(p) PROVE Restoring'
  BY <1>0, <1>9, OwnerAssumption, SMT, SMTT(30) DEF Restoring, LockInv, LockedSteps,
       CommitBlob
<1> QED
  BY <1>1, <1>2, <1>3, <1>4, <1>5, <1>6, <1>7, <1>8, <1>9, Zenon
     DEF PhaseStep, CompressStep

\* A page being restored, at the other work of the compressor.
LEMMA RestoringOther ==
  ASSUME Benign, StructInv, DataInv, OtherStep PROVE Restoring'
<1> USE DEF At, Doing, pageVars, appVars, workerVars, threadVars, lifeVars
<1>0. TypeOK /\ LockInv /\ ThreadInv /\ StateInv /\ SpanInv /\ OwnerInv /\ ProtInv /\ Placed /\ Restoring /\ QuietInv
  BY Zenon DEF StructInv, DataInv
<1>1. ASSUME \/ \E p \in Pages : MonitorPage(p) \/ CheckMonitored(p)
             \/ \E p \in Pages : ProtectMonitored(p) \/ Escalate(p)
             \/ \E p \in Pages : ClearStalePending(p) \/ ConfirmShadow(p)
             \/ \E p \in Pages : DrainOther(p)
             \/ StopCompressor
             \/ UninstallHandler
      PROVE  Restoring'
  <2>1. UNCHANGED <<lock, tpc, phys, blob>>
    BY <1>1, ZenonT(40) DEF MonitorPage, CheckMonitored, ProtectMonitored,
       Escalate, ClearStalePending, ConfirmShadow, StopCompressor,
       DrainOther, UninstallHandler
  <2> QED
    BY <1>0, <2>1, Zenon DEF Restoring
<1>2. ASSUME NEW p \in Pages, SweepPage(p) PROVE Restoring'
  BY <1>0, <1>2, OwnerAssumption, SMT, SMTT(30) DEF Restoring, SweepPage
<1>3. ASSUME NEW p \in Pages, StartReclaim(p) PROVE Restoring'
  BY <1>0, <1>3, OwnerAssumption, SMT, SMTT(30) DEF Restoring, StartReclaim
<1>4. ASSUME NEW p \in Pages, PostponeReclaim(p) PROVE Restoring'
  BY <1>0, <1>4, OwnerAssumption, SMT, SMTT(30) DEF Restoring, PostponeReclaim, Leave
<1>5. ASSUME NEW p \in Pages, DiscardShadow(p) PROVE Restoring'
  BY <1>0, <1>5, OwnerAssumption, SMT, SMTT(30) DEF Restoring, DiscardShadow, Leave
<1>6. ASSUME NEW p \in Pages, DropBacking(p) PROVE Restoring'
  BY <1>0, <1>6, OwnerAssumption, SMT, SMTT(30) DEF Restoring, LockInv, LockedSteps,
       DropBacking, Leave
<1>7. ASSUME NEW p \in Pages, DrainRestore(p) PROVE Restoring'
  BY <1>0, <1>7, Zenon DEF QuietInv, DrainRestore
<1>8. ASSUME NEW p \in Pages, DrainFinish(p) PROVE Restoring'
  BY <1>0, <1>8, ZenonT(40) DEF QuietInv, DrainFinish
<1> QED
  BY <1>1, <1>2, <1>3, <1>4, <1>5, <1>6, <1>7, <1>8, ZenonT(40)
     DEF OtherStep, StopStep

\* A page that is about to be opened keeps the contents of its blob.
LEMMA RestoringStep ==
  ASSUME Benign, StructInv, DataInv, [Next]_vars PROVE Restoring'
<1> USE DEF At, Doing, pageVars, appVars, workerVars, threadVars, lifeVars
<1>0. TypeOK /\ LockInv /\ ThreadInv /\ StateInv /\ SpanInv /\ OwnerInv /\ ProtInv /\ Placed /\ Restoring /\ QuietInv
  BY Zenon DEF StructInv, DataInv
<1>1. CASE UNCHANGED vars
  BY <1>0, <1>1, Zenon DEF vars, Restoring
<1> QED
  BY <1>1, RestoringApp, RestoringFault, RestoringPhase, RestoringOther,
     StepCases, Zenon

\* Nothing unusual happens, at steps of the application.
LEMMA QuietApp ==
  ASSUME Benign, StructInv, DataInv, AppStep PROVE QuietInv'
<1> USE DEF At, Doing, pageVars, appVars, workerVars, threadVars, lifeVars
<1>0. TypeOK /\ ThreadInv /\ SpanInv /\ OwnerInv /\ ProtInv /\ QuietInv
  BY Zenon DEF StructInv, DataInv
<1>1. ASSUME \/ \E p \in Pages, s \in Slots : AllocSlot(p, s)
             \/ PurgeResidentEmpty
             \/ \E t \in Threads, p \in Pages : ReleasePage(t, p)
      PROVE  QuietInv'
  <2>1. UNCHANGED <<life, crashed, wpc, tpc>>
    BY <1>1, ZenonT(40) DEF AllocSlot, PurgeResidentEmpty, ReleasePage
  <2> QED
    BY <1>0, <2>1, Zenon DEF QuietInv
<1>2. ASSUME NEW t \in Threads, NEW p \in Pages, NEW s \in Slots, FreeSlot(t, p, s)
      PROVE  QuietInv'
  BY <1>0, <1>2, SMT, ZenonT(40) DEF QuietInv, TypeOK, FreeSlot
<1>3. ASSUME NEW t \in Threads, RetireSpan(t) PROVE QuietInv'
  BY <1>0, <1>3, SMT, SMTT(30) DEF QuietInv, RetireSpan
<1>4. ASSUME NEW t \in Threads, NEW a \in Access, BeginAccess(t, a)
      PROVE  QuietInv'
  BY <1>0, <1>4, SMT, SMTT(30) DEF QuietInv, BeginAccess
<1>5. ASSUME NEW t \in Threads, CompleteAccess(t) PROVE QuietInv'
  BY <1>0, <1>5, SMT, SMTT(30) DEF QuietInv, CompleteAccess
<1>6. ASSUME NEW t \in Threads, TakeFault(t) PROVE QuietInv'
  BY <1>0, <1>6, ZenonT(40) DEF QuietInv, TypeOK, TakeFault
<1> QED
  BY <1>1, <1>2, <1>3, <1>4, <1>5, <1>6, Zenon
     DEF AppStep

\* Nothing unusual happens, at the fault handler.
LEMMA QuietFault ==
  ASSUME Benign, StructInv, DataInv, FaultStep PROVE QuietInv'
<1> USE DEF At, Doing, pageVars, appVars, workerVars, threadVars, lifeVars
<1>0. TypeOK /\ ThreadInv /\ SpanInv /\ OwnerInv /\ ProtInv /\ QuietInv
  BY Zenon DEF StructInv, DataInv
<1>1. ASSUME NEW t \in Threads, LockForFault(t) PROVE QuietInv'
  <2>1. tpc[t] = "fault" /\ UNCHANGED <<life, wpc>>
    BY <1>1, Zenon DEF LockForFault
  <2>2. state[acc[t].page] # "EMPTY"
    <3>1. acc[t].page \in Pages /\ acc[t] # NoAccess
      BY <1>0, <2>1, AccessType, Zenon DEF ThreadInv
    <3> QED
      BY <1>0, <3>1, Zenon DEF OwnerInv, SpanInv
  <2>3. tpc' = [tpc EXCEPT ![t] = "handle"] /\ crashed' = crashed
    BY <1>1, <2>2, ZenonT(40) DEF LockForFault
  <2> QED
    BY <1>0, <2>1, <2>3, SMT, SMTT(30) DEF QuietInv
<1>2. ASSUME NEW t \in Threads, FaultCompressed(t) PROVE QuietInv'
  BY <1>0, <1>2, SMT, ZenonT(40) DEF QuietInv, TypeOK, Benign, FaultCompressed, BeginRestore
<1>3. ASSUME NEW t \in Threads, FaultCompressedFails(t) PROVE QuietInv'
  BY <1>0, <1>3, Zenon DEF QuietInv, TypeOK, FaultCompressedFails
<1>4. ASSUME NEW t \in Threads, NEW p \in Pages, FinishRestore(t, p)
       PROVE  QuietInv'
  BY <1>0, <1>4, SMT, SMTT(30) DEF QuietInv, FinishRestore
<1>5. ASSUME NEW t \in Threads, NEW p \in Pages, PrefetchPage(t, p)
       PROVE  QuietInv'
  BY <1>0, <1>5, SMT, ZenonT(40) DEF QuietInv, TypeOK, Benign, PrefetchPage, BeginRestore
<1>6. ASSUME NEW t \in Threads, NEW p \in Pages, SkipPrefetch(t, p)
       PROVE  QuietInv'
  BY <1>0, <1>6, Zenon DEF QuietInv, SkipPrefetch
<1>7. ASSUME NEW t \in Threads, ResumeAccess(t) PROVE QuietInv'
  BY <1>0, <1>7, SMT, SMTT(30) DEF QuietInv, ResumeAccess
<1>8. ASSUME NEW t \in Threads, FaultCompressing(t) PROVE QuietInv'
  BY <1>0, <1>8, SMT, SMTT(30) DEF QuietInv, FaultCompressing
<1>9. ASSUME NEW t \in Threads, FaultResident(t) PROVE QuietInv'
  BY <1>0, <1>9, SMT, SMTT(30) DEF QuietInv, FaultResident
<1>10. ASSUME NEW t \in Threads, FaultShadow(t) PROVE QuietInv'
  BY <1>0, <1>10, SMT, SMTT(30) DEF QuietInv, FaultShadow
<1> QED
  BY <1>1, <1>2, <1>3, <1>4, <1>5, <1>6, <1>7, <1>8, <1>9, <1>10, Zenon
     DEF FaultStep, HandlerStep

\* Nothing unusual happens, at a step of the worker of a page to a usual place.
LEMMA QuietFrame ==
  ASSUME TypeOK, QuietInv, UNCHANGED <<life, crashed, tpc>>, NEW p \in Pages, NEW w,
         w \notin {"copyBack", "drain"}, wpc' = [wpc EXCEPT ![p] = w]
  PROVE  QuietInv'
<1>1. \A q \in Pages : wpc'[q] \notin {"copyBack", "drain"}
  BY ZenonT(40) DEF TypeOK, QuietInv
<1> QED
  BY <1>1, Zenon DEF QuietInv

\* Nothing unusual happens, at compressPage.
LEMMA QuietPhase ==
  ASSUME Benign, StructInv, DataInv, PhaseStep PROVE QuietInv'
<1> USE DEF At, Doing, pageVars, appVars, workerVars, threadVars, lifeVars
<1>0. TypeOK /\ ThreadInv /\ SpanInv /\ OwnerInv /\ ProtInv /\ QuietInv
  BY Zenon DEF StructInv, DataInv
<1>1. ASSUME NEW p \in Pages, StartCompress(p) PROVE QuietInv'
  <2>1. UNCHANGED <<life, crashed, tpc>> /\ wpc' = [wpc EXCEPT ![p] = "decide"]
    BY <1>1, Zenon DEF StartCompress
  <2> QED
    BY <1>0, <2>1, QuietFrame, Zenon
<1>2. ASSUME NEW p \in Pages, RejectCompress(p) PROVE QuietInv'
  <2>1. UNCHANGED <<life, crashed, tpc>> /\ wpc' = [wpc EXCEPT ![p] = "idle"]
    BY <1>2, ZenonT(40) DEF RejectCompress, Leave
  <2> QED
    BY <1>0, <2>1, QuietFrame, Zenon
<1>3. ASSUME NEW p \in Pages, PrepareSnapshot(p) PROVE QuietInv'
  BY <1>0, <1>3, SMT, ZenonT(40) DEF QuietInv, TypeOK, PrepareSnapshot
<1>4. ASSUME NEW p \in Pages, ArmReadOnly(p) PROVE QuietInv'
  <2>1. UNCHANGED <<life, crashed, tpc>> /\ wpc' = [wpc EXCEPT ![p] = "relock"]
    BY <1>4, ZenonT(40) DEF ArmReadOnly
  <2> QED
    BY <1>0, <2>1, QuietFrame, Zenon
<1>5. ASSUME NEW p \in Pages, Relock(p) PROVE QuietInv'
  BY <1>0, <1>5, SMT, ZenonT(40) DEF QuietInv, TypeOK, Relock, Leave
<1>6. ASSUME NEW p \in Pages, Snapshot(p) PROVE QuietInv'
  <2>1. prot[p] # "NONE"
    BY <1>0, <1>6, Zenon DEF Snapshot, ProtInv
  <2>2. wpc' = [wpc EXCEPT ![p] = "verify"] /\ crashed' = crashed /\ UNCHANGED <<life, tpc>>
    BY <1>6, <2>1, Zenon DEF Snapshot
  <2> QED
    BY <1>0, <2>2, QuietFrame, Zenon
<1>7. ASSUME NEW p \in Pages, VerifyFails(p) PROVE QuietInv'
  <2>1. UNCHANGED <<life, crashed, tpc>> /\ wpc' = [wpc EXCEPT ![p] = "idle"]
    BY <1>7, Zenon DEF VerifyFails, Leave
  <2> QED
    BY <1>0, <2>1, QuietFrame, Zenon
<1>8. ASSUME NEW p \in Pages, VerifyPasses(p) PROVE QuietInv'
  <2>1. UNCHANGED <<life, crashed, tpc>> /\ wpc' = [wpc EXCEPT ![p] = "gate"]
    BY <1>8, ZenonT(40) DEF VerifyPasses
  <2> QED
    BY <1>0, <2>1, QuietFrame, Zenon
<1>9. ASSUME NEW p \in Pages, GateFails(p) PROVE QuietInv'
  BY <1>0, <1>9, SMT, ZenonT(40) DEF QuietInv, TypeOK, Benign, GateFails, Leave
<1>10. ASSUME NEW p \in Pages, CopyBack(p) PROVE QuietInv'
  BY <1>0, <1>10, Zenon DEF QuietInv, CopyBack, Leave
<1>11. ASSUME NEW p \in Pages, CommitBlob(p) PROVE QuietInv'
  BY <1>0, <1>11, SMT, SMTT(30) DEF QuietInv, CommitBlob
<1>12. ASSUME NEW p \in Pages, FlushPending(p) PROVE QuietInv'
  <2>1. UNCHANGED <<life, crashed, tpc>> /\ wpc' = [wpc EXCEPT ![p] = "idle"]
    BY <1>12, Zenon DEF FlushPending
  <2> QED
    BY <1>0, <2>1, QuietFrame, Zenon
<1> QED
  BY <1>1, <1>2, <1>3, <1>4, <1>5, <1>6, <1>7, <1>8, <1>9, <1>10, <1>11, <1>12, Zenon
     DEF PhaseStep, CompressStep

\* Nothing unusual happens, at the other work of the compressor.
LEMMA QuietOther ==
  ASSUME Benign, StructInv, DataInv, OtherStep PROVE QuietInv'
<1> USE DEF At, Doing, pageVars, appVars, workerVars, threadVars, lifeVars
<1>0. TypeOK /\ ThreadInv /\ SpanInv /\ OwnerInv /\ ProtInv /\ QuietInv
  BY Zenon DEF StructInv, DataInv
<1>1. ASSUME \/ \E p \in Pages : Escalate(p) \/ ClearStalePending(p)
             \/ \E p \in Pages : DrainOther(p)
      PROVE  QuietInv'
  <2>1. UNCHANGED <<life, crashed, wpc, tpc>>
    BY <1>1, Zenon DEF Escalate, ClearStalePending, DrainOther
  <2> QED
    BY <1>0, <2>1, Zenon DEF QuietInv
<1>2. ASSUME NEW p \in Pages, MonitorPage(p) PROVE QuietInv'
  <2>1. UNCHANGED <<life, crashed, tpc>> /\ wpc' = [wpc EXCEPT ![p] = "protRead3"]
    BY <1>2, Zenon DEF MonitorPage
  <2> QED
    BY <1>0, <2>1, QuietFrame, Zenon
<1>3. ASSUME NEW p \in Pages, CheckMonitored(p) PROVE QuietInv'
  BY <1>0, <1>3, SMT, ZenonT(40) DEF QuietInv, TypeOK, CheckMonitored
<1>4. ASSUME NEW p \in Pages, ProtectMonitored(p) PROVE QuietInv'
  <2>1. UNCHANGED <<life, crashed, tpc>> /\ wpc' = [wpc EXCEPT ![p] = "idle"]
    BY <1>4, Zenon DEF ProtectMonitored
  <2> QED
    BY <1>0, <2>1, QuietFrame, Zenon
<1>5. ASSUME NEW p \in Pages, SweepPage(p) PROVE QuietInv'
  <2>1. UNCHANGED <<life, crashed, tpc>> /\ wpc' = [wpc EXCEPT ![p] = "drop"]
    BY <1>5, Zenon DEF SweepPage
  <2> QED
    BY <1>0, <2>1, QuietFrame, Zenon
<1>6. ASSUME NEW p \in Pages, StartReclaim(p) PROVE QuietInv'
  <2>1. UNCHANGED <<life, crashed, tpc>> /\ wpc' = [wpc EXCEPT ![p] = "compare"]
    BY <1>6, Zenon DEF StartReclaim
  <2> QED
    BY <1>0, <2>1, QuietFrame, Zenon
<1>7. ASSUME NEW p \in Pages, PostponeReclaim(p) PROVE QuietInv'
  <2>1. UNCHANGED <<life, crashed, tpc>> /\ wpc' = [wpc EXCEPT ![p] = "idle"]
    BY <1>7, Zenon DEF PostponeReclaim, Leave
  <2> QED
    BY <1>0, <2>1, QuietFrame, Zenon
<1>8. ASSUME NEW p \in Pages, DiscardShadow(p) PROVE QuietInv'
  <2>1. UNCHANGED <<life, crashed, tpc>> /\ wpc' = [wpc EXCEPT ![p] = "idle"]
    BY <1>8, Zenon DEF DiscardShadow, Leave
  <2> QED
    BY <1>0, <2>1, QuietFrame, Zenon
<1>9. ASSUME NEW p \in Pages, ConfirmShadow(p) PROVE QuietInv'
  <2>1. UNCHANGED <<life, crashed, tpc>> /\ wpc' = [wpc EXCEPT ![p] = "drop"]
    BY <1>9, Zenon DEF ConfirmShadow
  <2> QED
    BY <1>0, <2>1, QuietFrame, Zenon
<1>10. ASSUME NEW p \in Pages, DropBacking(p) PROVE QuietInv'
  <2>1. UNCHANGED <<life, crashed, tpc>> /\ wpc' = [wpc EXCEPT ![p] = "idle"]
    BY <1>10, Zenon DEF DropBacking, Leave
  <2> QED
    BY <1>0, <2>1, QuietFrame, Zenon
<1>11. ASSUME StopCompressor PROVE QuietInv'
  BY <1>0, <1>11, Zenon DEF Benign, StopCompressor
<1>12. ASSUME NEW p \in Pages, DrainRestore(p) PROVE QuietInv'
  BY <1>0, <1>12, Zenon DEF QuietInv, DrainRestore
<1>13. ASSUME NEW p \in Pages, DrainFinish(p) PROVE QuietInv'
  BY <1>0, <1>13, Zenon DEF QuietInv, DrainFinish, Leave
<1>14. ASSUME UninstallHandler PROVE QuietInv'
  BY <1>0, <1>14, Zenon DEF QuietInv, UninstallHandler
<1> QED
  BY <1>1, <1>2, <1>3, <1>4, <1>5, <1>6, <1>7, <1>8, <1>9, <1>10, <1>11,
     <1>12, <1>13, <1>14, ZenonT(40)
     DEF OtherStep, StopStep

\* The steps that Benign excludes do not happen.
LEMMA QuietStep ==
  ASSUME Benign, StructInv, DataInv, [Next]_vars PROVE QuietInv'
<1> USE DEF At, Doing, pageVars, appVars, workerVars, threadVars, lifeVars
<1>0. TypeOK /\ ThreadInv /\ SpanInv /\ OwnerInv /\ ProtInv /\ QuietInv
  BY Zenon DEF StructInv, DataInv
<1>1. CASE UNCHANGED vars
  BY <1>0, <1>1, Zenon DEF vars, QuietInv
<1> QED
  BY <1>1, QuietApp, QuietFault, QuietPhase, QuietOther, StepCases, Zenon

-----------------------------------------------------------------------------
(* Theorems under Benign.                                                  *)

\* StructInv and DataInv together are inductive.
LEMMA DataStep ==
  Benign /\ StructInv /\ DataInv /\ [Next]_vars => DataInv'
<1> SUFFICES ASSUME Benign, StructInv, DataInv, [Next]_vars PROVE DataInv'
  OBVIOUS
<1> QED
  BY OwnerStep, ProtStep, PlacedStep, RestoringStep, QuietStep, Zenon DEF DataInv

\* Every reachable state keeps the application's data where the state of its
\* page says it is.
THEOREM DataPlaced == ASSUME Benign PROVE Spec => [](StructInv /\ DataInv)
<1>1. Init => DataInv
  BY DataInit, Zenon
<1>2. StructInv /\ DataInv /\ [Next]_vars => DataInv'
  BY DataStep, Zenon
<1> QED
  BY <1>1, <1>2, Structure, PTL DEF Spec

\* A load that the hardware lets through returns the last value stored, whatever
\* the compressor, the fault handler and the allocator are doing to the page.
THEOREM LoadsAreFresh == ASSUME Benign PROVE Spec => []ReadsSeeLastStore
<1>1. DataInv => ReadsSeeLastStore
  BY Zenon DEF DataInv, Placed, ReadsSeeLastStore
<1> QED
  BY <1>1, DataPlaced, PTL

\* Behind PROT_NONE the last value stored is in the blob of a COMPRESSED page
\* and in the backing of any other, which is where handleFault takes it from.
THEOREM NoStoreIsLost == ASSUME Benign PROVE Spec => []NothingLost
<1>1. StructInv /\ DataInv => NothingLost
  BY Zenon DEF StructInv, StateInv, BlobMatchesState, DataInv, Placed, NothingLost
<1> QED
  BY <1>1, DataPlaced, PTL

\* No fault is fatal, the blob of a COMPRESSED page cannot go stale, and only a
\* closed page is decommitted (handleFault, the pending list, Phase B, sweep).
THEOREM FaultsAreRepaired ==
  ASSUME Benign
  PROVE  Spec => [](NoFatalFault /\ CompressedNeverWritable /\ DecommitOnlyClosed)
<1>1. DataInv => NoFatalFault /\ CompressedNeverWritable /\ DecommitOnlyClosed
  BY Zenon DEF DataInv, QuietInv, ProtInv, NoFatalFault, CompressedNeverWritable,
       DecommitOnlyClosed
<1> QED
  BY <1>1, DataPlaced, PTL

-----------------------------------------------------------------------------
(* Refinement of FlatMemory.                                               *)

\* What the application can read is what it stored.
LEMMA RecoveredIsMem == StructInv /\ DataInv => Recovered = mem
<1> SUFFICES ASSUME StructInv, DataInv PROVE Recovered = mem
  OBVIOUS
<1>1. mem \in [Pages -> [Slots -> Values \cup {Undef}]]
  BY Zenon DEF StructInv, TypeOK
<1>2. ASSUME NEW p \in Pages, NEW s \in Slots, Holds(p, s)
      PROVE  Source(p)[s] = mem[p][s]
  BY <1>2, Zenon DEF DataInv, Placed, Source
<1>3. ASSUME NEW p \in Pages
      PROVE  [s \in Slots |-> IF Holds(p, s) THEN Source(p)[s] ELSE Undef] = mem[p]
  BY <1>1, <1>2, Zenon DEF Holds
<1> QED
  BY <1>1, <1>3, Zenon DEF Recovered

\* The steps that change what is allocated, stored or being accessed.
FlatSteps ==
  \/ UNCHANGED <<live, mem, acc>>
  \/ \E p \in Pages, s \in Slots : AllocSlot(p, s)
  \/ \E t \in Threads, p \in Pages, s \in Slots : FreeSlot(t, p, s)
  \/ \E t \in Threads : CompleteAccess(t)
  \/ \E t \in Threads, a \in Access : BeginAccess(t, a)

\* No step of the compressor, the fault handler, the span's retirement or the
\* shutdown changes what is allocated, stored or being accessed.
LEMMA ApplicationSteps ==
  ASSUME [Next]_vars PROVE FlatSteps
<1> USE DEF FlatSteps, appVars, threadVars
<1>1. ASSUME AppStep PROVE FlatSteps
  BY <1>1, Zenon DEF AppStep, PurgeResidentEmpty, ReleasePage, RetireSpan, TakeFault
<1>2. ASSUME FaultStep PROVE UNCHANGED <<live, mem, acc>>
  BY <1>2, Zenon DEF FaultStep, HandlerStep, LockForFault, FaultCompressed,
     FaultCompressedFails, FinishRestore, PrefetchPage, SkipPrefetch,
     ResumeAccess, FaultCompressing, FaultResident, FaultShadow
<1>3. ASSUME PhaseStep PROVE UNCHANGED <<live, mem, acc>>
  BY <1>3, ZenonT(40) DEF PhaseStep, CompressStep, StartCompress, RejectCompress,
     PrepareSnapshot, ArmReadOnly, Relock, Snapshot, VerifyFails,
     VerifyPasses, GateFails, CopyBack, CommitBlob, FlushPending
<1>4. ASSUME OtherStep PROVE UNCHANGED <<live, mem, acc>>
  BY <1>4, Zenon DEF OtherStep, StopStep, MonitorPage, CheckMonitored,
     ProtectMonitored, Escalate, ClearStalePending, SweepPage, StartReclaim,
     PostponeReclaim, DiscardShadow, ConfirmShadow, DropBacking,
     StopCompressor, DrainRestore, DrainFinish, DrainOther, UninstallHandler
<1>5. CASE UNCHANGED vars
  BY <1>5, Zenon DEF vars
<1> QED
  BY <1>1, <1>2, <1>3, <1>4, <1>5, StepCases, Zenon

\* Compression is transparent: the paged span, seen through Recovered,
\* implements memory that changes only by a free or by the completion of a store
\* that a thread has issued.
THEOREM ImplementsFlatMemory == ASSUME Benign PROVE Spec => FlatSpec
<1>1. Init /\ StructInv /\ DataInv => Flat!Init
  <2> SUFFICES ASSUME Init, StructInv, DataInv PROVE Flat!Init
    OBVIOUS
  <2>1. Recovered = mem
    BY RecoveredIsMem, Zenon
  <2> QED
    BY <2>1, Zenon DEF Init, Flat!Init
<1>2. (StructInv /\ DataInv => Recovered = mem)'
  BY RecoveredIsMem, PTL
<1>3. StructInv /\ DataInv /\ (StructInv /\ DataInv)' /\ [Next]_vars
        => [Flat!Next]_<<live, acc, Recovered>>
  <2> SUFFICES ASSUME StructInv, DataInv, (StructInv /\ DataInv)', [Next]_vars
               PROVE  [Flat!Next]_<<live, acc, Recovered>>
    OBVIOUS
  <2>0. Recovered = mem /\ Recovered' = mem'
    BY <1>2, RecoveredIsMem, Zenon
  <2>1. CASE UNCHANGED <<live, mem, acc>>
    BY <2>0, <2>1, Zenon
  <2>2. ASSUME NEW p \in Pages, NEW s \in Slots, AllocSlot(p, s) PROVE Flat!Next
    <3>1. Flat!Alloc(p, s)
      BY <2>0, <2>2, Zenon DEF AllocSlot, Flat!Alloc, threadVars
    <3> QED
      BY <3>1, Zenon DEF Flat!Next
  <2>3. ASSUME NEW t \in Threads, NEW p \in Pages, NEW s \in Slots,
               FreeSlot(t, p, s)
        PROVE  Flat!Next
    <3>1. Flat!Free(p, s)
      BY <2>0, <2>3, Zenon DEF FreeSlot, Flat!Free
    <3> QED
      BY <3>1, Zenon DEF Flat!Next
  <2>4. ASSUME NEW t \in Threads, NEW a \in Access, BeginAccess(t, a)
        PROVE  Flat!Next
    <3>1. acc[t] = NoAccess
      BY <2>4, Zenon DEF BeginAccess, At, StructInv, ThreadInv
    <3>2. Flat!Begin(t, a)
      BY <2>0, <2>4, <3>1, Zenon DEF BeginAccess, Flat!Begin, appVars
    <3> QED
      BY <3>2, Zenon DEF Flat!Next, Flat!Access, Access
  <2>5. ASSUME NEW t \in Threads, CompleteAccess(t) PROVE Flat!Next
    <3>1. acc[t] # NoAccess
      BY <2>5, Zenon DEF CompleteAccess, At, StructInv, ThreadInv
    <3>2. Flat!Complete(t)
      BY <2>0, <2>5, <3>1, Zenon DEF CompleteAccess, Flat!Complete
    <3> QED
      BY <3>2, Zenon DEF Flat!Next
  <2> QED
    BY <2>0, <2>1, <2>2, <2>3, <2>4, <2>5, ApplicationSteps, Zenon DEF FlatSteps
<1> QED
  BY <1>1, <1>3, DataPlaced, PTL DEF Spec, FlatSpec, Flat!Spec
=============================================================================
