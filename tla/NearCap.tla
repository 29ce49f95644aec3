------------------------------ MODULE NearCap -------------------------------
(***************************************************************************)
(* Restoring pages near vm.max_map_count.  A process has a limited number  *)
(* of mappings (VMAs), and a page whose protection differs from its        *)
(* neighbours' takes one or two more; an mprotect that would exceed the    *)
(* limit fails.  A fault then cannot open its page alone and opens the run *)
(* of pages around it (restoreNearCap), or the whole mapping               *)
(* (restoreWholeVma).  The compressor stops short of the limit by a margin *)
(* and notes when it is near.                                              *)
(*                                                                         *)
(* The default mode: a cold page becomes a shadow (open, with a blob),     *)
(* which is reclaimed (closed, memory gone) if it still equals the blob.   *)
(* Here the protections are exact, and of a page's contents we know only   *)
(* where they are; the races of one page are PageLifecycle's subject, so   *)
(* compressing and reclaiming a page is one step, under its lock.  Each    *)
(* page is a span of its own, so that nothing is prefetched.               *)
(***************************************************************************)
EXTENDS Integers, FiniteSets, FiniteSetsExt

CONSTANTS
  N,            \* pages of the arena
  Committed,    \* committed pages: the ones after are reserved, PROT_NONE
  Cap,          \* vm.max_map_count
  Margin,       \* cfg_vma_margin_
  Limits,       \* kNearCapVmaPages, ...Mid, ...Max
  Threads,
  Slots,        \* kFaultSlotCount
  MaxOthers,    \* bound: mappings outside the arena
  MaxWork,      \* bound: what the compressor does in a behaviour
  None

VARIABLES
  prot, state, blob, lock,
  mem,          \* the memory: "gone", as in the "blob", or "new" (also: no blob)
  others,       \* the mappings outside the arena
  estimate,     \* vma_estimate_
  near,         \* vma_near_cap_
  tick, vmaNow, \* the compressor: its phase, its count or budget
  slots,        \* free fault slots
  work,         \* what the compressor has done
  pc, page,     \* per thread
  store,        \* per thread: the access is a store
  range         \* per thread: the pages it restores along with its own

pageVars == <<prot, state, blob, lock, mem>>
capVars == <<others, estimate, near>>
tickVars == <<tick, vmaNow, work>>
threadVars == <<pc, page, store, range>>
vars == <<pageVars, capVars, tickVars, slots, threadVars>>

Pages == 0..N - 1
Live == 0..Committed - 1

Splits(f) == Cardinality({p \in Pages \ {0} : f[p] # f[p - 1]})
Vmas == others + 1 + Splits(prot)

\* mprotect: it fails if the mappings become more than the limit allows.
Opened(S) == [p \in Pages |-> IF p \in S THEN "rw" ELSE prot[p]]
With(p, q) == [prot EXCEPT ![p] = q]
Fits(f) == Splits(f) <= Splits(prot) \/ others + 1 + Splits(f) <= Cap

TypeOK ==
  /\ prot \in [Pages -> {"none", "read", "rw"}]
  /\ state \in [Pages -> {"EMPTY", "ACTIVE", "ACTIVE_MONITORING",
                          "COMPRESSED_SHADOW", "COMPRESSED"}]
  /\ blob \in [Pages -> BOOLEAN] /\ mem \in [Pages -> {"gone", "blob", "new"}]
  /\ lock \in [Pages -> Threads \cup {None}]
  /\ others \in 0..MaxOthers /\ Vmas <= Cap /\ near \in BOOLEAN
  /\ tick \in {"idle", "reclaim", "phases"}
  /\ slots \in 0..Slots /\ work \in 0..MaxWork
  /\ page \in [Threads -> Pages] /\ store \in [Threads -> BOOLEAN]
  /\ \A t \in Threads : range[t] \subseteq Pages

ProtOf(st) ==
  CASE st = "ACTIVE" -> "rw"
    [] st \in {"ACTIVE_MONITORING", "COMPRESSED_SHADOW"} -> "read"
    [] st \in {"COMPRESSED", "EMPTY"} -> "none"

\* A heap the compressor has been at work on, short of the margin.
Init ==
  /\ \E s \in [Live -> {"ACTIVE", "ACTIVE_MONITORING", "COMPRESSED"}] :
       state = [p \in Pages |-> IF p \in Live THEN s[p] ELSE "EMPTY"]
  /\ prot = [p \in Pages |-> ProtOf(state[p])]
  /\ Splits(prot) < Cap - Margin
  /\ blob = [p \in Pages |-> state[p] = "COMPRESSED"]
  /\ mem = [p \in Pages |-> IF state[p] = "COMPRESSED" THEN "gone" ELSE "new"]
  /\ lock = [p \in Pages |-> None]
  /\ others = 0 /\ estimate = 0 /\ near = FALSE
  /\ tick = "idle" /\ vmaNow = 0 /\ work = 0
  /\ slots = Slots
  /\ pc = [t \in Threads |-> "idle"] /\ page = [t \in Threads |-> 0]
  /\ store = [t \in Threads |-> FALSE] /\ range = [t \in Threads |-> {}]

Goto(t, place) == pc' = [pc EXCEPT ![t] = place]

\* The application maps files and stacks.
Mmap ==
  /\ others < MaxOthers /\ Vmas < Cap
  /\ others' = others + 1
  /\ UNCHANGED <<pageVars, estimate, near, tickVars, slots, threadVars>>

-----------------------------------------------------------------------------
(* The compressor's tick.                                                  *)

\* The VMA-cap guard: near the limit the phases are skipped.
StartTick ==
  /\ tick = "idle"
  /\ estimate' = Vmas
  /\ near' = (Vmas + Margin >= Cap)
  /\ tick' = IF near' THEN "idle" ELSE "reclaim"
  /\ vmaNow' = IF near' THEN 0 ELSE Vmas
  /\ UNCHANGED <<pageVars, others, work, slots, threadVars>>

\* reclaimShadowRange: the page is closed to stores and compared; its blob goes,
\* or its memory does.  Bound: what is mapped between the tick's count and the
\* mprotect is less than the margin (8192); what happens when it is more is in
\* PageLifecycle.
Reclaim(p) ==
  /\ tick = "reclaim" /\ vmaNow < Cap - Margin /\ work < MaxWork
  /\ state[p] = "COMPRESSED_SHADOW" /\ lock[p] = None /\ slots > 0
  /\ Fits(With(p, "read")) /\ Fits(With(p, "none"))
  /\ IF mem[p] = "blob"
     THEN /\ prot' = With(p, "none")
          /\ mem' = [mem EXCEPT ![p] = "gone"]
          /\ state' = [state EXCEPT ![p] = "COMPRESSED"]
          /\ vmaNow' = vmaNow + 1
          /\ UNCHANGED blob
     ELSE /\ prot' = With(p, "rw")
          /\ state' = [state EXCEPT ![p] = "ACTIVE"]
          /\ blob' = [blob EXCEPT ![p] = FALSE]
          /\ UNCHANGED <<mem, vmaNow>>
  /\ work' = work + 1
  /\ UNCHANGED <<lock, capVars, tick, slots, threadVars>>

\* The budget of phases 2 and 3 is armed from a fresh count.
ArmBudget ==
  /\ tick = "reclaim"
  /\ tick' = "phases"
  /\ vmaNow' = Cap - Margin - Vmas
  /\ UNCHANGED <<pageVars, capVars, work, slots, threadVars>>

\* phase2Range, compressPage: the page is opened, and gets a blob.
Shadow(p) ==
  LET cost == IF state[p] = "ACTIVE_MONITORING" THEN 2 ELSE 0 IN
  /\ tick = "phases" /\ vmaNow >= cost /\ work < MaxWork
  /\ state[p] \in {"ACTIVE", "ACTIVE_MONITORING"} /\ lock[p] = None
  /\ vmaNow' = vmaNow - cost
  /\ work' = work + 1
  /\ prot' = IF Fits(With(p, "rw")) THEN With(p, "rw") ELSE prot
  /\ state' = [state EXCEPT ![p] = "COMPRESSED_SHADOW"]
  /\ blob' = [blob EXCEPT ![p] = TRUE]
  /\ mem' = [mem EXCEPT ![p] = "blob"]
  /\ UNCHANGED <<lock, capVars, tick, slots, threadVars>>

\* phase3Range, flushPhase3Run: a run becomes PROT_READ, or stays ACTIVE.
Monitor(p, q) ==
  LET f == [k \in Pages |-> IF k \in p..q THEN "read" ELSE prot[k]] IN
  /\ tick = "phases" /\ vmaNow >= 2 /\ work < MaxWork
  /\ \A k \in p..q : state[k] = "ACTIVE" /\ lock[k] = None
  /\ vmaNow' = vmaNow - 2
  /\ work' = work + 1
  /\ IF Fits(f)
     THEN /\ prot' = f
          /\ state' = [k \in Pages |->
                         IF k \in p..q THEN "ACTIVE_MONITORING" ELSE state[k]]
     ELSE UNCHANGED <<prot, state>>
  /\ UNCHANGED <<blob, lock, mem, capVars, tick, slots, threadVars>>

EndTick ==
  /\ tick = "phases"
  /\ tick' = "idle" /\ vmaNow' = 0
  /\ UNCHANGED <<pageVars, capVars, work, slots, threadVars>>

-----------------------------------------------------------------------------
(* An access, and the fault handler.                                       *)

Start(t, p) ==
  /\ pc[t] = "idle" /\ p \in Live
  /\ page' = [page EXCEPT ![t] = p]
  /\ \E s \in BOOLEAN : store' = [store EXCEPT ![t] = s]
  /\ Goto(t, "access")
  /\ UNCHANGED <<pageVars, capVars, tickVars, slots, range>>

Permitted(t) ==
  prot[page[t]] = "rw" \/ (prot[page[t]] = "read" /\ ~store[t])

Access(t) ==
  /\ pc[t] = "access"
  /\ IF Permitted(t)
     THEN /\ Goto(t, "idle")
          /\ mem' = IF store[t] THEN [mem EXCEPT ![page[t]] = "new"] ELSE mem
          /\ page' = [page EXCEPT ![t] = 0] /\ store' = [store EXCEPT ![t] = FALSE]
     ELSE Goto(t, "fault") /\ UNCHANGED <<mem, page, store>>
  /\ UNCHANGED <<prot, state, blob, lock, capVars, tickVars, slots, range>>

\* handleFault: a shadow is dropped at once, whether or not the page opens.
LockPage(t) ==
  LET p == page[t] IN
  /\ pc[t] = "fault" /\ lock[p] = None
  /\ IF state[p] = "COMPRESSED_SHADOW"
     THEN /\ prot' = IF Fits(With(p, "rw")) THEN With(p, "rw") ELSE prot
          /\ blob' = [blob EXCEPT ![p] = FALSE]
          /\ mem' = [mem EXCEPT ![p] = "new"]
          /\ state' = [state EXCEPT ![p] = "ACTIVE"]
          /\ Goto(t, "access")
          /\ UNCHANGED lock
     ELSE /\ lock' = [lock EXCEPT ![p] = t]
          /\ Goto(t, IF state[p] = "COMPRESSED" THEN "slot" ELSE "near")
          /\ UNCHANGED <<prot, blob, mem, state>>
  /\ UNCHANGED <<capVars, tickVars, slots, page, store, range>>

\* The wait for a fault slot, whose buffer the page is decompressed into.
AcquireSlot(t) ==
  /\ pc[t] = "slot" /\ slots > 0
  /\ slots' = slots - 1
  /\ Goto(t, "near")
  /\ UNCHANGED <<pageVars, capVars, tickVars, page, store, range>>

Inaccessible == {"COMPRESSED", "ACTIVE_MONITORING"}
InaccessibleNeighbors(p) ==
  Cardinality({q \in {p - 1, p + 1} \cap Live : state[q] \in Inaccessible})

NearCapVmaLimit ==
  LET headroom == Cap - estimate IN
  CASE headroom > Margin \div 2 -> Limits[1]
    [] headroom <= Margin \div 2 /\ headroom > Margin \div 4 -> Limits[2]
    [] OTHER -> Limits[3]

\* restoreNearCap: the pages in p's state next to it, at most limit each way,
\* and of those the whole run, or the ones up to its nearer end; {} if neither
\* end is in reach or there is no other page.
NearRange(p) ==
  LET cls == state[p]
      limit == NearCapVmaLimit
      l == Min({a \in 0..p : p - a <= limit /\ \A q \in a..p : state[q] = cls})
      r == Max({b \in p..Committed - 1 :
                  b - p <= limit /\ \A q \in p..b : state[q] = cls})
      leftEnd == l = 0 \/ state[l - 1] # cls
      rightEnd == r = Committed - 1 \/ state[r + 1] # cls
      run == CASE leftEnd /\ rightEnd /\ r - l <= limit -> l..r
               [] leftEnd /\ ~(rightEnd /\ r - l <= limit)
                  /\ (~rightEnd \/ p - l <= r - p) -> l..p
               [] rightEnd /\ ~(leftEnd /\ (r - l <= limit \/ p - l <= r - p)) -> p..r
               [] OTHER -> {}
  IN IF cls \in Inaccessible /\ Cardinality(run) >= 2 THEN run ELSE {}

\* findVma: the mapping of page p.
WholeVma(p) ==
  {q \in Pages : \A k \in (IF q < p THEN q..p ELSE p..q) : prot[k] = prot[p]}

\* restoreRange takes the locks of the other pages, or none of them.
Lockable(p, S) ==
  \A q \in S \ {p} : lock[q] = None /\ state[q] # "EMPTY"
LockAll(t, S) == lock' = [q \in Pages |-> IF q \in S THEN t ELSE lock[q]]

TryNear(t) ==
  LET p == page[t]
      S == IF InaccessibleNeighbors(p) > 0 /\ near THEN NearRange(p) ELSE {} IN
  /\ pc[t] = "near"
  /\ IF S # {} /\ Lockable(p, S)
     THEN LockAll(t, S) /\ range' = [range EXCEPT ![t] = S] /\ Goto(t, "nearRange")
     ELSE Goto(t, "single") /\ UNCHANGED <<lock, range>>
  /\ UNCHANGED <<prot, state, blob, mem, capVars, tickVars, slots, page, store>>

\* restorePageContents, or the mprotect of makeResidentPageWritable: the bytes
\* first, then the protection.  noteFaultSplits counts the new mappings.
TrySingle(t) ==
  LET p == page[t]
      split == InaccessibleNeighbors(p) IN
  /\ pc[t] = "single"
  /\ mem' = IF state[p] = "COMPRESSED" THEN [mem EXCEPT ![p] = "blob"] ELSE mem
  /\ IF Fits(With(p, "rw"))
     THEN /\ prot' = With(p, "rw")
          /\ estimate' = IF estimate > 0 THEN Min({Cap, estimate + split}) ELSE estimate
          /\ near' = (near \/ (estimate > 0 /\ split > 0 /\ estimate' >= Cap - Margin))
          /\ Goto(t, "done")
     ELSE Goto(t, "whole") /\ UNCHANGED <<prot, estimate, near>>
  /\ UNCHANGED <<state, blob, lock, others, tickVars, slots, page, store, range>>

TryWhole(t) ==
  LET p == page[t]
      S == WholeVma(p) IN
  /\ pc[t] = "whole"
  /\ IF Lockable(p, S)
     THEN LockAll(t, S) /\ range' = [range EXCEPT ![t] = S] /\ Goto(t, "wholeRange")
     ELSE Goto(t, "giveup") /\ UNCHANGED <<lock, range>>
  /\ UNCHANGED <<prot, state, blob, mem, capVars, tickVars, slots, page, store>>

\* Drops the blobs before it knows that the pages open.
RestoreRangeMutant(t) ==
  LET S == range[t]
      closed == {q \in S : state[q] = "COMPRESSED"}
      ok == closed \subseteq {page[t]} \/ slots > 0 IN
  /\ pc[t] \in {"nearRange", "wholeRange"}
  /\ mem' = [q \in Pages |-> IF ok /\ q \in closed THEN "blob" ELSE mem[q]]
  /\ blob' = [q \in Pages |-> blob[q] /\ q \notin S \ {page[t]}]
  /\ IF ok /\ Fits(Opened(S))
     THEN prot' = Opened(S) /\ Goto(t, "finish") /\ UNCHANGED <<lock, range>>
     ELSE /\ lock' = [q \in Pages |-> IF q \in S \ {page[t]} THEN None ELSE lock[q]]
          /\ range' = [range EXCEPT ![t] = {}]
          /\ Goto(t, IF pc[t] = "nearRange" THEN "single" ELSE "giveup")
          /\ UNCHANGED prot
  /\ UNCHANGED <<state, capVars, tickVars, slots, page, store>>

\* restoreRange: the compressed pages are filled through a second fault slot,
\* then one mprotect opens them all.
RestoreRange(t) ==
  LET S == range[t]
      closed == {q \in S : state[q] = "COMPRESSED"}
      ok == closed \subseteq {page[t]} \/ slots > 0 IN
  /\ pc[t] \in {"nearRange", "wholeRange"}
  /\ mem' = [q \in Pages |-> IF ok /\ q \in closed THEN "blob" ELSE mem[q]]
  /\ IF ok /\ Fits(Opened(S))
     THEN prot' = Opened(S) /\ Goto(t, "finish") /\ UNCHANGED <<lock, range>>
     ELSE /\ lock' = [q \in Pages |-> IF q \in S \ {page[t]} THEN None ELSE lock[q]]
          /\ range' = [range EXCEPT ![t] = {}]
          /\ Goto(t, IF pc[t] = "nearRange" THEN "single" ELSE "giveup")
          /\ UNCHANGED prot
  /\ UNCHANGED <<state, blob, capVars, tickVars, slots, page, store>>

\* The other pages of the range are finalized and unlocked.
FinishRange(t) ==
  LET S == range[t] \ {page[t]} IN
  /\ pc[t] = "finish"
  /\ state' = [q \in Pages |-> IF q \in S THEN "ACTIVE" ELSE state[q]]
  /\ blob' = [q \in Pages |-> blob[q] /\ q \notin S]
  /\ mem' = [q \in Pages |-> IF q \in S THEN "new" ELSE mem[q]]
  /\ lock' = [q \in Pages |-> IF q \in S THEN None ELSE lock[q]]
  /\ range' = [range EXCEPT ![t] = {}]
  /\ Goto(t, "done")
  /\ UNCHANGED <<prot, capVars, tickVars, slots, page, store>>

\* The end of handleFault: finalized, or left as it was for the next fault.
HeldSlot(t) == IF state[page[t]] = "COMPRESSED" THEN 1 ELSE 0
Finish(t) ==
  /\ pc[t] = "done"
  /\ slots' = slots + HeldSlot(t)
  /\ blob' = [blob EXCEPT ![page[t]] = FALSE]
  /\ mem' = [mem EXCEPT ![page[t]] = "new"]
  /\ state' = [state EXCEPT ![page[t]] = "ACTIVE"]
  /\ lock' = [lock EXCEPT ![page[t]] = None]
  /\ Goto(t, "access")
  /\ UNCHANGED <<prot, capVars, tickVars, page, store, range>>

GiveUp(t) ==
  /\ pc[t] = "giveup"
  /\ slots' = slots + HeldSlot(t)
  /\ lock' = [lock EXCEPT ![page[t]] = None]
  /\ Goto(t, "access")
  /\ UNCHANGED <<prot, state, blob, mem, capVars, tickVars, page, store, range>>

ThreadStep(t) ==
  \/ Access(t) \/ LockPage(t) \/ AcquireSlot(t) \/ TryNear(t) \/ TrySingle(t)
  \/ TryWhole(t) \/ RestoreRange(t) \/ FinishRange(t) \/ Finish(t) \/ GiveUp(t)

Phases ==
  \E p \in Live : Reclaim(p) \/ Shadow(p) \/ \E q \in p..Committed - 1 : Monitor(p, q)

Next ==
  \/ Mmap
  \/ StartTick \/ Phases \/ ArmBudget \/ EndTick
  \/ \E t \in Threads : ThreadStep(t) \/ \E p \in Live : Start(t, p)

Spec == Init /\ [][Next]_vars

\* Threads run, and the coordinator's loop goes on ticking.
FairSpec ==
  /\ Spec
  /\ \A t \in Threads : WF_vars(ThreadStep(t))
  /\ WF_vars(StartTick) /\ WF_vars(ArmBudget) /\ WF_vars(EndTick)

-----------------------------------------------------------------------------

\* Whatever restoreRange opens or gives up on, and at whichever limit: a page
\* whose memory is gone keeps its blob and is closed, and no blob that a store
\* has overtaken is restored; a page's blob is dropped exactly when the page is
\* open again, and no page is left closed in a state that no fault repairs; no
\* fault slot is lost.
CapRestoreSound ==
  /\ \A p \in Live :
       /\ mem[p] = "gone" => blob[p] /\ prot[p] = "none" /\ state[p] = "COMPRESSED"
       /\ state[p] = "COMPRESSED" =>
            mem[p] # "new" \/ \E t \in Threads : p \in range[t] \cup {page[t]} /\ lock[p] = t
       /\ lock[p] = None =>
            /\ blob[p] <=> state[p] \in {"COMPRESSED", "COMPRESSED_SHADOW"}
            /\ prot[p] = "none" <=> state[p] = "COMPRESSED"
  /\ slots + Cardinality({t \in Threads :
       /\ pc[t] \in {"near", "single", "whole", "nearRange", "wholeRange", "finish",
                     "done", "giveup"}
       /\ state[page[t]] = "COMPRESSED"}) = Slots

Accessing(t) == pc[t] # "idle"

\* An access completes, also at the limit: what the mprotect of one page cannot
\* do, the restore of its run or of its mapping does.
AtCapCompletes ==
  \A t \in Threads : Accessing(t) ~> ~Accessing(t)

=============================================================================
