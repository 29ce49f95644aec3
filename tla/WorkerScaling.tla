---------------------------- MODULE WorkerScaling ----------------------------
(***************************************************************************)
(* How many compressor workers the next tick gets (adaptWorkerCount and    *)
(* cpuPressureWorkerCap in compressor_thread.h), and when phase 3 is       *)
(* skipped.  Both averages are unsigned fixed-point numbers moved by a     *)
(* quarter of a signed difference, which C truncates toward zero.  The     *)
(* code has 32 bits and 8 of fraction; here the width and the fraction are *)
(* constants.                                                              *)
(***************************************************************************)
EXTENDS Integers

CONSTANTS Word,       \* values of an unsigned word (2^32)
          Scale,      \* the fixed point's one (256)
          MaxWorkers, \* kMaxCompressorWorkers
          StartWorkers,  \* kCompressorWorkers
          SampleTicks,   \* kCpuPressureSampleTicks
          Procs,         \* sysconf(_SC_NPROCESSORS_ONLN)
          SkipAfter,     \* SMASH_PHASE3_SKIP_THRESHOLD, 0 when off
          Loads,         \* pages found eligible in one tick
          Threads,       \* live threads of the process beyond the compressor's
          LoadAverages   \* rounded one-minute load averages

VARIABLES lambda, mu,    \* lambda_ema_, mu_ema_
          active,        \* active_workers_
          helpers,       \* helpers_created_
          cap, age,      \* cpu_pressure_cached_cap_, cpu_pressure_sample_age_
          idle,          \* phase3_idle_ticks_
          skipped,       \* ticks in a row whose phase 3 was skipped
          quiet          \* has the application stopped leaving pages to compress

vars == <<lambda, mu, active, helpers, cap, age, idle, skipped, quiet>>

Words == 0 .. Word - 1

TypeOK ==
    /\ lambda \in Words /\ mu \in Words /\ mu # 0
    /\ active \in 1 .. MaxWorkers /\ helpers \in 0 .. MaxWorkers - 1
    /\ cap \in Int /\ age \in 0 .. SampleTicks + 1
    /\ idle \in Nat /\ skipped \in Nat /\ quiet \in BOOLEAN

\* start() creates every helper it can.  The sample's age starts out past its
\* limit, so that the first tick takes one.
Init ==
    /\ lambda = 0 /\ mu = Scale
    /\ active = StartWorkers /\ helpers \in 0 .. MaxWorkers - 1
    /\ cap = 0 /\ age = SampleTicks + 1
    /\ idle = 0 /\ skipped = 0 /\ quiet = FALSE

(***************************************************************************)
(* Machine arithmetic                                                      *)
(***************************************************************************)
Unsigned(x) == x % Word
Signed(x) == IF x >= Word \div 2 THEN x - Word ELSE x
Quarter(d) == IF d >= 0 THEN d \div 4 ELSE -((-d) \div 4)
CeilDiv(a, b) == Unsigned(a + b - 1) \div b
Smaller(a, b) == IF a < b THEN a ELSE b

\* The average takes a quarter of the distance to the sample.
Moved(ema, sample) == Unsigned(ema + Quarter(Signed(sample) - Signed(ema)))

(***************************************************************************)
(* cpuPressureWorkerCap: zero means no cap.  The sample is SampleTicks old *)
(* at most; a thread count that cannot be read lifts the cap.              *)
(***************************************************************************)
FreshCap(threads, load) ==
    LET app == IF threads < 1 THEN 1 ELSE threads
        pressure == IF load > app THEN load - app ELSE 0
        free == Procs - app - pressure
    IN  IF free < 1 THEN 1 ELSE free

NextCaps ==
    IF age < SampleTicks THEN {cap}
    ELSE {0} \cup {FreshCap(threads, load) : threads \in Threads, load \in LoadAverages}

(***************************************************************************)
(* One tick                                                                *)
(***************************************************************************)
\* Mutant: the quotient is rounded down.
NeededMutant(l, m) ==
    IF l = 0 THEN 1 ELSE IF l \div m < 1 THEN 1 ELSE Smaller(l \div m, MaxWorkers)

Needed(l, m) ==
    IF l = 0 THEN 1 ELSE IF CeilDiv(l, m) < 1 THEN 1 ELSE Smaller(CeilDiv(l, m), MaxWorkers)

\* Phase 3 is left out in idle ticks past the threshold, except each
\* threshold-th one.
SkipsPhase3(n) == SkipAfter > 0 /\ n > SkipAfter /\ n % SkipAfter # 0

Phase3(eligible, compressed) ==
    LET n == IF SkipAfter > 0 /\ eligible = 0 /\ compressed = 0 THEN idle + 1 ELSE 0
    IN  /\ idle' = IF n > 3 * SkipAfter THEN n - SkipAfter ELSE n  \* equal modulo the threshold
        /\ skipped' = IF SkipsPhase3(n) THEN skipped + 1 ELSE 0

AdaptWorkerCount(eligible, compressed, c, created) ==
    LET rate == (compressed + active - 1) \div active
        l == Moved(lambda, Unsigned(eligible * Scale))
        m == IF compressed = 0 THEN mu ELSE Moved(mu, Unsigned(rate * Scale))
        n == IF c > 0 THEN Smaller(Needed(l, IF m = 0 THEN 1 ELSE m), c)
                      ELSE Needed(l, IF m = 0 THEN 1 ELSE m)
    IN  /\ lambda' = l
        /\ mu' = IF m = 0 THEN 1 ELSE m
        /\ cap' = c
        /\ age' = IF age < SampleTicks THEN age + 1 ELSE 0
        /\ helpers' = IF helpers >= n - 1 THEN helpers ELSE Smaller(helpers + created, n - 1)
        /\ active' = Smaller(n, helpers' + 1)

\* pthread_create makes none, or all, of the helpers that are still missing.
Tick ==
    \E eligible \in IF quiet THEN {0} ELSE Loads :
    \E compressed \in {0, eligible \div 2, eligible}, c \in NextCaps, created \in {0, MaxWorkers} :
        /\ Phase3(eligible, compressed)
        /\ AdaptWorkerCount(eligible, compressed, c, created)
        /\ UNCHANGED quiet

GoQuiet ==
    /\ ~quiet /\ quiet' = TRUE
    /\ UNCHANGED <<lambda, mu, active, helpers, cap, age, idle, skipped>>

Next == Tick \/ GoQuiet

Spec == Init /\ [][Next]_vars

FairSpec == Spec /\ WF_vars(Tick)

(***************************************************************************)
(* Properties                                                              *)
(***************************************************************************)
\* The count the coordinator dispatches with is sound whatever the averages
\* have gone through: threads for it exist (once the first tick has set it),
\* the load cap is kept, the service rate never falls under one page per
\* worker and tick, enough workers run for the measured rate unless a limit
\* stops them ("total service rate must meet arrival rate"), and phase 3 is
\* looked at again before SkipAfter idle ticks have passed.
ScalingSound ==
    /\ mu >= Scale
    /\ age > SampleTicks \/ active <= helpers + 1
    /\ cap > 0 => active <= cap
    /\ \/ active * mu >= lambda
       \/ active = MaxWorkers \/ active = cap \/ active = helpers + 1
    /\ skipped > 0 => skipped < SkipAfter

Overstaffed == quiet /\ active > 1

\* "no work -> 1 worker is enough": when nothing is left to compress the
\* extra workers are let go.
IdleShrinks == Overstaffed ~> ~Overstaffed
=============================================================================
