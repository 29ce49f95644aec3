----------------------------- MODULE ColdPolicy -----------------------------
(***************************************************************************)
(* Which page is compressed, and when: the saturating counters behind      *)
(* phase 1 and phase 2 of the compressor.  cold_count_ counts the ticks    *)
(* without an observed access, compress_fail_count_ the failures of the    *)
(* ratio gate, recompress_count_ the faults on the compressed page, and a  *)
(* moving average of the last biases the fresh pages of the same bucket.   *)
(* All of them are plain bytes that the tick, the fault handler and the    *)
(* allocator write without a common lock.                                  *)
(*                                                                         *)
(* An access counts here when something observes it: a fault, or the       *)
(* soft-dirty bit.  What the page holds and how it is protected is in      *)
(* PageLifecycle.                                                          *)
(***************************************************************************)
EXTENDS Integers, FiniteSets

CONSTANTS
  Pages,
  Floor,         \* cold_ticks_floor
  Saturated,     \* the largest byte (255)
  MaxShift,      \* kMaxBackoffShift
  MaxFloor,      \* kMaxEffectiveFloorTicks
  DecayTicks,    \* kRcDecayColdTicks
  Unit,          \* the fixed point of the average, and the bias threshold (256)
  Profiles,      \* the profile classes of the bucket, a subset of ProfileClasses
  RoiTicks,      \* the cold count from which the bucket's ROI meets the threshold
  SoftDirty,     \* soft-dirty tracking replaces phase 3
  Deferred       \* isDeferredReclaimMode: phase 2 leaves shadows, phase B reclaims

ProfileClasses == {"none", "stable", "thrash2", "thrash4", "thrash8", "skip"}
Nothing == << >>
Width == Unit * (Saturated + 1)          \* uint16_t
MaxBudget == 2 * Cardinality(Pages)      \* no tick charges a page more than twice

VARIABLES
  profile,       \* the bucket's profile, from an earlier run
  state, cold, rc, fails, accessed, dirty,
  ema, cnt,      \* bucket_rc_ema_x256_, bucket_rc_count_ (0 or more)
  counting,      \* per page: a fault has unlocked the page and has still to count
  tick, todo,    \* the tick's phase and the pages it has still to visit
  seen,          \* what phase 1 has loaded of cold_count_
  budget,        \* vma_budget_, in protection changes (0 when spent)
  idle, since,   \* ticks since the last observed access, since the last failure, as
                 \* far as a property looks back (Floor, MaxFloor)
  torn,          \* phase 1 has stored over a reset of cold_count_
  quiet          \* the application touches nothing any more

counters == <<cold, rc, fails, ema, cnt>>
ticking == <<tick, todo, seen, budget>>
ghosts == <<idle, since, torn>>
vars == <<profile, state, counters, accessed, dirty, counting, ticking, ghosts, quiet>>

Least(a, b) == IF a < b THEN a ELSE b
Inc(x) == Least(x + 1, Saturated)
Live(p) == state[p] \in {"ACTIVE", "ACTIVE_MONITORING"}

Byte == 0..Saturated
TypeOK ==
  /\ profile \in ProfileClasses
  /\ state \in [Pages -> {"EMPTY", "ACTIVE", "ACTIVE_MONITORING", "COMPRESSED",
                           "COMPRESSED_SHADOW"}]
  /\ cold \in [Pages -> Byte] /\ rc \in [Pages -> Byte] /\ fails \in [Pages -> Byte]
  /\ accessed \in [Pages -> BOOLEAN] /\ dirty \in [Pages -> BOOLEAN]
  /\ ema \in 0..Width - 1 /\ cnt \in {0, 1}
  /\ counting \in [Pages -> BOOLEAN] /\ seen \in {Nothing} \cup (Pages \X Byte)
  /\ tick \in {"idle", "phase1", "phaseB", "phase2"} /\ todo \subseteq Pages
  /\ budget \in 0..MaxBudget

Init ==
  /\ profile \in Profiles
  /\ state = [p \in Pages |-> "ACTIVE"]
  /\ cold = [p \in Pages |-> 0] /\ rc = [p \in Pages |-> 0]
  /\ fails = [p \in Pages |-> 0]
  /\ accessed = [p \in Pages |-> FALSE] /\ dirty = [p \in Pages |-> FALSE]
  /\ ema = 0 /\ cnt = 0 /\ counting = [p \in Pages |-> FALSE]
  /\ tick = "idle" /\ todo = {} /\ seen = Nothing /\ budget = 0
  /\ idle = [p \in Pages |-> 0] /\ since = [p \in Pages |-> MaxFloor]
  /\ torn = [p \in Pages |-> FALSE] /\ quiet = FALSE

ResetCold(p) ==
  /\ cold' = [cold EXCEPT ![p] = 0]
  /\ torn' = [torn EXCEPT ![p] = FALSE]

SetState(p, st) == state' = [state EXCEPT ![p] = st]

-----------------------------------------------------------------------------
(* The application: faults, writes, allocation, release                    *)

\* A fault on a compressed page: the part of handleFault under the page lock.
FaultCompressed(p) ==
  /\ ~quiet /\ state[p] = "COMPRESSED" /\ ~counting[p]
  /\ SetState(p, "ACTIVE")
  /\ ResetCold(p)
  /\ fails' = [fails EXCEPT ![p] = 0]
  /\ idle' = [idle EXCEPT ![p] = 0]
  /\ counting' = [counting EXCEPT ![p] = TRUE]
  /\ UNCHANGED <<profile, rc, ema, cnt, accessed, dirty, ticking, since, quiet>>

\* After the unlock: the page's recompression count and the bucket's average,
\* one step with a weight of 1/4, truncated towards zero, in 16 bits.
Average(old, sample) ==
  LET d == sample - old
  IN (old + (IF d >= 0 THEN d \div 4 ELSE -((-d) \div 4))) % Width

CountRefault(p) ==
  LET sample == ((rc[p] + 1) * Unit) % Width
  IN /\ counting[p]
     /\ rc' = [rc EXCEPT ![p] = Inc(@)]
     /\ ema' = IF cnt = 0 THEN sample ELSE Average(ema, sample)
     /\ cnt' = 1
     /\ counting' = [counting EXCEPT ![p] = FALSE]
     /\ UNCHANGED <<profile, state, cold, fails, accessed, dirty, ticking, ghosts, quiet>>

\* A write that faulted before phase 2 compressed the page, and whose handler
\* gets the page lock after: the shadow is dropped, the bucket hears nothing.
FaultShadow(p) ==
  /\ ~quiet /\ state[p] = "COMPRESSED_SHADOW"
  /\ SetState(p, "ACTIVE")
  /\ ResetCold(p)
  /\ fails' = [fails EXCEPT ![p] = 0]
  /\ rc' = [rc EXCEPT ![p] = Inc(@)]
  /\ idle' = [idle EXCEPT ![p] = 0]
  /\ UNCHANGED <<profile, ema, cnt, accessed, dirty, counting, ticking, since, quiet>>

\* A fault on another page brings this one back too (prefetchAdjacent, and the
\* run restored at the limit on mappings).
Prefetched(p) ==
  /\ ~quiet /\ state[p] \in {"COMPRESSED", "COMPRESSED_SHADOW"}
  /\ SetState(p, "ACTIVE")
  /\ ResetCold(p)
  /\ UNCHANGED <<profile, rc, fails, ema, cnt, accessed, dirty, counting, ticking, idle,
                 since, quiet>>

\* A write to a resident page: a fault if it is monitored (as is a read once
\* phase 2 has escalated), a dirty bit otherwise.
Write(p) ==
  /\ ~quiet
  /\ \/ /\ state[p] = "ACTIVE_MONITORING"
        /\ accessed' = [accessed EXCEPT ![p] = TRUE]
        /\ SetState(p, "ACTIVE")
        /\ idle' = [idle EXCEPT ![p] = 0]
        /\ UNCHANGED dirty
     \/ /\ state[p] \in {"ACTIVE", "COMPRESSED_SHADOW"} /\ SoftDirty
        /\ dirty' = [dirty EXCEPT ![p] = TRUE]
        /\ UNCHANGED <<accessed, state, idle>>
  /\ UNCHANGED <<profile, counters, counting, ticking, since, torn, quiet>>

\* Span::allocate hands out a slot of the page, whatever the page's state
\* (resetColdCountForSlot).
AllocateSlot(p) ==
  /\ ~quiet /\ state[p] # "EMPTY"
  /\ ResetCold(p)
  /\ idle' = [idle EXCEPT ![p] = 0]
  /\ UNCHANGED <<profile, state, rc, fails, ema, cnt, accessed, dirty, counting, ticking,
                 since, quiet>>

\* releaseCompressedPages, then the page's next use.
Release(p) ==
  /\ ~quiet /\ state[p] # "EMPTY"
  /\ SetState(p, "EMPTY")
  /\ ResetCold(p)
  /\ rc' = [rc EXCEPT ![p] = 0] /\ fails' = [fails EXCEPT ![p] = 0]
  /\ accessed' = [accessed EXCEPT ![p] = FALSE]
  /\ idle' = [idle EXCEPT ![p] = 0] /\ since' = [since EXCEPT ![p] = MaxFloor]
  /\ UNCHANGED <<profile, ema, cnt, dirty, counting, ticking, quiet>>

Reuse(p) ==
  /\ state[p] = "EMPTY"
  /\ SetState(p, "ACTIVE")
  /\ ResetCold(p)
  /\ UNCHANGED <<profile, rc, fails, ema, cnt, accessed, dirty, counting, ticking, idle,
                 since, quiet>>

GoQuiet ==
  /\ ~quiet /\ quiet' = TRUE
  /\ UNCHANGED <<profile, state, counters, accessed, dirty, counting, ticking, ghosts>>

-----------------------------------------------------------------------------
(* The tick                                                                *)

\* readSoftDirty, then phase 1.
StartTick ==
  /\ tick = "idle" /\ tick' = "phase1" /\ todo' = Pages
  /\ accessed' = [p \in Pages |-> accessed[p] \/ (SoftDirty /\ dirty[p])]
  /\ idle' = [p \in Pages |-> IF SoftDirty /\ dirty[p] THEN 0 ELSE idle[p]]
  /\ UNCHANGED <<profile, state, counters, dirty, counting, seen, budget, since, torn,
                 quiet>>

\* Phase 1 on an accessed page.
Phase1Accessed(p) ==
  /\ tick = "phase1" /\ p \in todo /\ seen = Nothing
  /\ Live(p) /\ accessed[p]
  /\ ResetCold(p)
  /\ fails' = [fails EXCEPT ![p] = 0]
  /\ accessed' = [accessed EXCEPT ![p] = FALSE]
  /\ since' = [since EXCEPT ![p] = Least(@ + 1, MaxFloor)]
  /\ todo' = todo \ {p}
  /\ UNCHANGED <<profile, state, rc, ema, cnt, dirty, counting, tick, seen, budget, idle,
                 quiet>>

\* Phase 1 on an untouched or a compressed page loads the counter ...
Phase1Load(p) ==
  /\ tick = "phase1" /\ p \in todo /\ seen = Nothing
  /\ (Live(p) /\ ~accessed[p]) \/ state[p] = "COMPRESSED"
  /\ seen' = <<p, cold[p]>>
  /\ UNCHANGED <<profile, state, counters, accessed, dirty, counting, tick, todo, budget,
                 ghosts, quiet>>

\* decayRecompressCount
Decayed(count, cc) ==
  IF cc = Saturated THEN 0
  ELSE IF cc >= DecayTicks /\ cc % DecayTicks = 0 /\ count > 0 THEN count - 1
  ELSE count

\* ... and stores it, one more, whatever it has become meanwhile.
Phase1Store(p) ==
  LET cc == Inc(seen[2])
  IN /\ tick = "phase1" /\ seen # Nothing /\ seen[1] = p
     /\ cold' = [cold EXCEPT ![p] = cc]
     /\ rc' = [rc EXCEPT ![p] = Decayed(@, cc)]
     /\ torn' = [torn EXCEPT ![p] = @ \/ seen[2] > cold[p]]
     /\ idle' = [idle EXCEPT ![p] = Least(@ + 1, Floor)]
     /\ since' = [since EXCEPT ![p] = Least(@ + 1, MaxFloor)]
     /\ seen' = Nothing
     /\ todo' = todo \ {p}
     /\ UNCHANGED <<profile, state, fails, ema, cnt, accessed, dirty, counting, tick,
                    budget, quiet>>

\* A shadow is in neither branch of phase 1: its counter stands still.
Phase1Pass(p) ==
  /\ tick = "phase1" /\ p \in todo /\ seen = Nothing
  /\ state[p] \in {"EMPTY", "COMPRESSED_SHADOW"}
  /\ todo' = todo \ {p}
  /\ UNCHANGED <<profile, state, counters, accessed, dirty, counting, tick, seen, budget,
                 ghosts, quiet>>

Phase1Done ==
  /\ tick = "phase1" /\ todo = {} /\ tick' = "phaseB"
  /\ UNCHANGED <<profile, state, counters, accessed, dirty, counting, todo, seen, budget,
                 ghosts, quiet>>

\* Too near the limit on mappings, or too early in the process: defer_phases.
DeferPhases ==
  /\ tick = "phase1" /\ todo = {} /\ tick' = "idle"
  /\ dirty' = [p \in Pages |-> FALSE]
  /\ UNCHANGED <<profile, state, counters, accessed, counting, todo, seen, budget, ghosts,
                 quiet>>

\* Phase B reclaims a shadow, or drops it if the page has changed.  It may also
\* leave it: too young, locked, or too many mappings.
ReclaimShadow(p) ==
  /\ tick = "phaseB" /\ state[p] = "COMPRESSED_SHADOW"
  /\ \/ /\ SetState(p, "COMPRESSED")
        /\ UNCHANGED <<cold, fails, idle, torn>>
     \/ /\ SetState(p, "ACTIVE")
        /\ ResetCold(p)
        /\ fails' = [fails EXCEPT ![p] = 0]
        /\ idle' = [idle EXCEPT ![p] = 0]
  /\ UNCHANGED <<profile, rc, ema, cnt, accessed, dirty, counting, ticking, since, quiet>>

\* The budget for phases 2 and 3, from the number of mappings there are now.
ArmBudget(n) ==
  /\ tick = "phaseB"
  /\ budget' = n
  /\ tick' = "phase2" /\ todo' = Pages
  /\ UNCHANGED <<profile, state, counters, accessed, dirty, counting, seen, ghosts, quiet>>

\* Phase 2: how long the page must have been cold.
ProfileFloor ==
  CASE profile = "stable" -> IF Floor \div 4 < 1 THEN 1 ELSE Floor \div 4
    [] profile = "thrash2" -> Least(Floor * 2, MaxFloor)
    [] profile = "thrash4" -> Least(Floor * 4, MaxFloor)
    [] profile = "thrash8" -> Least(Floor * 8, MaxFloor)
    [] OTHER -> Floor

Bias == IF ema >= Unit THEN 1 ELSE 0
\* Failures of the gate do not count.
ShiftMutant(p) == Least(rc[p] + Bias, MaxShift)

Shift(p) == Least(rc[p] + Bias + fails[p], MaxShift)
EffectiveFloor(p) == Least(ProfileFloor * 2^Shift(p), MaxFloor)

Candidate(p) == cold[p] >= Floor /\ Live(p) /\ profile # "skip"

\* escalateToDeepMonitoring: from now on a read of the page faults as well.
Escalates(p) ==
  Candidate(p) /\ cold[p] = ProfileFloor /\ state[p] = "ACTIVE_MONITORING"

\* cold_count_ and the effective floor let the page be tried.
Eligible(p) ==
  Candidate(p) /\ cold[p] > ProfileFloor /\ cold[p] >= EffectiveFloor(p)

\* The snapshot changes the page's protection, except that of a writable page
\* in deferred mode.
Charges(p) == state[p] = "ACTIVE_MONITORING" \/ ~Deferred
Affordable(p) == Charges(p) => budget > 0

\* compressPage is called.
TryPage(p) ==
  /\ tick = "phase2" /\ p \in todo /\ Eligible(p) /\ Affordable(p)
  /\ budget' = IF Charges(p) THEN budget - 1 ELSE budget
  /\ todo' = todo \ {p}
  /\ UNCHANGED <<profile, rc, ema, cnt, accessed, dirty, counting, tick, seen, idle, quiet>>

\* The floor once more, and the return on the investment.
ShouldCompress(p) == cold[p] >= Floor /\ cold[p] >= RoiTicks

\* The codec runs.
Compress(p) ==
  /\ TryPage(p) /\ ShouldCompress(p)
  /\ \/ /\ SetState(p, IF Deferred THEN "COMPRESSED_SHADOW" ELSE "COMPRESSED")
        /\ UNCHANGED <<cold, fails, since, torn>>
     \/ /\ fails' = [fails EXCEPT ![p] = Inc(@)]     \* the ratio gate
        /\ ResetCold(p)
        /\ SetState(p, "ACTIVE")
        /\ since' = [since EXCEPT ![p] = 0]

\* The return on the investment is too small, no tier is chosen or there is no
\* memory for the blob: the page is no longer monitored, and nothing is counted.
\* In deferred mode the page may also be locked.
Decline(p) ==
  /\ TryPage(p)
  /\ SetState(p, "ACTIVE") \/ (Deferred /\ UNCHANGED state)
  /\ UNCHANGED <<cold, fails, since, torn>>

\* Phase 2 moves on, at most escalating; a spent budget stays spent.
Phase2Pass(p) ==
  /\ tick = "phase2" /\ p \in todo
  /\ ~Eligible(p) \/ ~Affordable(p)
  /\ budget' = IF Escalates(p) /\ budget > 0 THEN budget - 1 ELSE budget
  /\ todo' = todo \ {p}
  /\ UNCHANGED <<profile, state, counters, accessed, dirty, counting, tick, seen, ghosts,
                 quiet>>

\* Phase 3 monitors the live pages as far as the budget goes, or the soft-dirty
\* bits are cleared.
EndTick ==
  /\ tick = "phase2" /\ todo = {}
  /\ tick' = "idle"
  /\ LET plain == {p \in Pages : ~SoftDirty /\ state[p] = "ACTIVE"}
     IN \E new \in SUBSET plain :
          /\ budget = 0 => new = {}
          /\ budget >= Cardinality(plain) => new = plain
          /\ state' = [p \in Pages |-> IF p \in new THEN "ACTIVE_MONITORING" ELSE state[p]]
  /\ dirty' = [p \in Pages |-> FALSE]
  /\ budget' = 0
  /\ UNCHANGED <<profile, counters, accessed, counting, todo, seen, ghosts, quiet>>

TickStep ==
  \/ StartTick \/ Phase1Done \/ DeferPhases \/ EndTick
  \/ \E n \in 0..MaxBudget : ArmBudget(n)
  \/ \E p \in Pages : \/ Phase1Accessed(p) \/ Phase1Load(p) \/ Phase1Store(p)
                      \/ Phase1Pass(p) \/ ReclaimShadow(p)
                      \/ Compress(p) \/ Decline(p) \/ Phase2Pass(p)

AppStep(p) ==
  \/ FaultCompressed(p) \/ FaultShadow(p) \/ Prefetched(p)
  \/ Write(p) \/ AllocateSlot(p) \/ Release(p) \/ Reuse(p)

Next ==
  \/ TickStep \/ GoQuiet
  \/ \E p \in Pages : AppStep(p) \/ CountRefault(p)

Spec == Init /\ [][Next]_vars

\* What the compressor needs of its surroundings, not always but again and again:
\* a tick that is not deferred, with mappings to spare, and a page that compressPage
\* does not decline.
FairSpec ==
  /\ Spec
  /\ WF_vars(TickStep)
  /\ SF_vars(Phase1Done) /\ SF_vars(ArmBudget(MaxBudget))
  /\ \A p \in Pages : /\ WF_vars(CountRefault(p)) /\ WF_vars(Reuse(p))
                      /\ SF_vars(Compress(p))

-----------------------------------------------------------------------------

\* Attempts are spaced.  A page is tried only after cold_ticks_floor ticks
\* without an observed access, with two exceptions: an access after phase 1 of
\* the same tick, which no counter shows yet, and an increment that phase 1 has
\* stored over a reset by a fault or an allocation (phase1Range, handleFault,
\* resetColdCountForSlot, shouldCompress).  And after k failures of the ratio
\* gate the next attempt on an untouched page comes no earlier than
\* min(profile_floor * 2^k, kMaxEffectiveFloorTicks) later (compressPage's gate
\* failure, phase2Range's back-off).
SpacedStep ==
  \A p \in Pages : Compress(p) =>
    /\ accessed[p] \/ torn[p] \/ idle[p] >= Floor
    /\ fails[p] > 0 =>
         \/ torn[p]
         \/ since[p] >= Least(ProfileFloor * 2^Least(fails[p], MaxShift), MaxFloor)

AttemptsSpaced == [][SpacedStep]_vars

\* The average of a bucket in which a page was ever faulted back keeps its fresh
\* pages biased: with the back-off on, as it is by default, the streak a page must
\* idle through decays recompress_count_ so far that the 16-bit sample
\* (rc + 1) * 256 never wraps (handleFault, phase1Range, phase2Range).
BiasSticks == cnt > 0 => ema >= Unit

Untried(p) ==
  /\ quiet /\ profile # "skip"
  /\ Live(p) \/ state[p] = "EMPTY"
  /\ since[p] # 0

\* An idle page is tried again and again until it is compressed: no back-off
\* puts the required streak out of reach of the saturating counter, as long as
\* ticks are not deferred for ever, mappings are to spare now and then and the
\* return estimate does not decline the page for ever (phase2Range).
IdleIsTried ==
  \A p \in Pages : Untried(p) ~> ~Untried(p)

=============================================================================
