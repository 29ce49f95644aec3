---------------------------- MODULE TickDispatch ----------------------------
(***************************************************************************)
(* The compressor's threads: a coordinator that runs one tick at a time    *)
(* and dispatches each phase of it to a pool of helpers, fork() with its   *)
(* atfork handlers, and stop().                                            *)
(*                                                                         *)
(* Helpers and coordinator talk through a generation counter, a phase      *)
(* number and a worker count, all but the first plain variables.  What a   *)
(* phase does to the pages is PageLifecycle's subject; here it is a time   *)
(* during which a thread is at "run".  After fork() the model follows the  *)
(* parent or the child.                                                    *)
(***************************************************************************)
EXTENDS Naturals, Sequences

CONSTANTS
  MaxHelpers,      \* kMaxHelpers
  InitialWorkers,  \* kCompressorWorkers, in 1..MaxHelpers + 1
  WorkerCounts,    \* what adaptWorkerCount may compute, within 1..MaxHelpers + 1
  ShadowMode,      \* isDeferredReclaimMode(): the tick has a Phase B
  CreateFails,     \* pthread_create may fail with EAGAIN
  PauseTimesOut,   \* a tick may outlast the 50 ms pauseForFork waits
  MayStop,         \* stop() may be called
  MaxGen,          \* bound: a tick starts only if its phases fit below this
  MaxForks         \* bound: how often the model follows a child

VARIABLES
  started,  \* compression_started_
  running,  \* running_
  paused,   \* paused_
  inTick,   \* in_tick_
  gen,      \* work_gen_
  phase,    \* current_phase_
  active,   \* active_workers_
  created,  \* helpers_created_
  done,     \* helper_done_gen_
  cpc,      \* coordinator: where it is, "none" without a thread
  left,     \* coordinator: phases of this tick still to dispatch
  nw,       \* coordinator: dispatch's worker count, 1 if it runs alone
  hpc,      \* helpers: where they are
  last,     \* helpers: last_gen
  hphase,   \* helpers: the phase a helper at "run" executes
  worked,   \* history: the last generation for which a helper did its share
  counted,  \* history: the last generation whose dispatch counted the helper
  fpc,      \* the forking thread: idle, waiting (pauseForFork), forked, or
            \* hurried: it forks because its wait has reached the cap
  spc,      \* the stopping thread: idle, joining or stopped
  forks     \* children followed so far

flags == <<started, running, paused, inTick>>
pool == <<gen, phase, active, created>>
coord == <<cpc, left, nw>>
helpers == <<hpc, last, hphase, worked, done, counted>>
control == <<fpc, spc, forks>>
vars == <<flags, pool, coord, helpers, control>>

Helpers == 0..MaxHelpers - 1
Phases == {1, 2, 3, 4}

TypeOK ==
  /\ {started, running, paused, inTick} \subseteq BOOLEAN
  /\ gen \in 0..MaxGen
  /\ phase \in Phases \cup {0}
  /\ active \in 1..MaxHelpers + 1
  /\ created \in 0..MaxHelpers
  /\ done \in [Helpers -> 0..MaxGen]
  /\ cpc \in {"none", "sleep", "check", "tick", "run", "wait", "exited"}
  /\ left \in Seq(Phases) /\ Len(left) <= 4
  /\ nw \in 1..MaxHelpers + 1
  /\ hpc \in [Helpers -> {"none", "poll", "decide", "run", "ack", "exited"}]
  /\ last \in [Helpers -> 0..MaxGen]
  /\ hphase \in [Helpers -> Phases \cup {0}]
  /\ worked \in [Helpers -> 0..MaxGen]
  /\ counted \in [Helpers -> 0..MaxGen]
  /\ fpc \in {"idle", "waiting", "forked", "hurried"}
  /\ spc \in {"idle", "joining", "stopped"}
  /\ forks \in 0..MaxForks

Init ==
  /\ started = FALSE /\ running = FALSE /\ paused = FALSE /\ inTick = FALSE
  /\ gen = 0 /\ phase = 0 /\ active = InitialWorkers /\ created = 0
  /\ cpc = "none" /\ left = <<>> /\ nw = 1
  /\ hpc = [h \in Helpers |-> "none"]
  /\ last = [h \in Helpers |-> 0]
  /\ hphase = [h \in Helpers |-> 0]
  /\ worked = [h \in Helpers |-> 0]
  /\ counted = [h \in Helpers |-> 0]
  /\ done = [h \in Helpers |-> 0]
  /\ fpc = "idle" /\ spc = "idle" /\ forks = 0

\* start(), on the first allocation or thread creation: as many helpers as the
\* system grants, then the coordinator; without one the helpers are let go.
Start ==
  /\ ~started
  /\ spc = "idle"
  /\ started' = TRUE
  /\ created' \in IF CreateFails THEN 0..MaxHelpers ELSE {MaxHelpers}
  /\ hpc' = [h \in Helpers |-> IF h < created' THEN "poll" ELSE "none"]
  /\ \E coordinator \in IF CreateFails THEN BOOLEAN ELSE {TRUE} :
       /\ running' = coordinator
       /\ cpc' = IF coordinator THEN "sleep" ELSE "none"
  /\ UNCHANGED <<paused, inTick, gen, phase, active, left, nw, last, hphase,
                 worked, done, counted, control>>

-----------------------------------------------------------------------------
(* coordEntry, tick and dispatch.                                          *)

CoordExit ==
  /\ cpc = "sleep"
  /\ ~running
  /\ cpc' = "exited"
  /\ UNCHANGED <<flags, pool, left, nw, helpers, control>>

\* The sleep is over: publish in_tick_ first ...
CoordWake ==
  /\ cpc = "sleep"
  /\ running
  /\ gen + 4 <= MaxGen
  /\ inTick' = TRUE
  /\ cpc' = "check"
  /\ UNCHANGED <<started, running, paused, pool, left, nw, helpers, control>>

\* The phases of a tick: Phase 1; unless phases are deferred, Phase B in shadow
\* mode and Phase 2; and Phase 3 unless monitoring is off.
TickPhases ==
  {<<1>>} \cup
  {<<1>> \o (IF ShadowMode THEN <<4>> ELSE <<>>) \o <<2>> \o monitor :
     monitor \in {<<>>, <<3>>}}

\* Mutant: the tick goes ahead whatever paused_ says.
CoordCheckBlind ==
  /\ cpc = "check"
  /\ left' \in TickPhases
  /\ cpc' = "tick"
  /\ UNCHANGED <<flags, pool, nw, helpers, control>>

\* Mutant: a skipped tick leaves in_tick_ set.
CoordCheckKeepsInTick ==
  /\ cpc = "check"
  /\ cpc' = IF paused THEN "sleep" ELSE "tick"
  /\ left' \in IF paused THEN {left} ELSE TickPhases
  /\ UNCHANGED <<flags, pool, nw, helpers, control>>

\* ... then look at paused_.
CoordCheck ==
  /\ cpc = "check"
  /\ IF paused
       THEN /\ inTick' = FALSE
            /\ cpc' = "sleep"
            /\ UNCHANGED left
       ELSE /\ left' \in TickPhases
            /\ cpc' = "tick"
            /\ UNCHANGED inTick
  /\ UNCHANGED <<started, running, paused, pool, nw, helpers, control>>

\* dispatch, up to the coordinator's own share.
Dispatch ==
  /\ cpc = "tick"
  /\ left # <<>>
  /\ left' = Tail(left)
  /\ cpc' = "run"
  /\ IF running /\ active > 1
       THEN /\ nw' = active
            /\ phase' = Head(left)
            /\ gen' = gen + 1
            /\ counted' = [h \in Helpers |-> IF h + 1 < active THEN gen + 1 ELSE counted[h]]
       ELSE nw' = 1 /\ UNCHANGED <<phase, gen, counted>>
  /\ UNCHANGED <<flags, active, created, hpc, last, hphase, worked, done, control>>

\* The coordinator's share is done.
RunOwnRange ==
  /\ cpc = "run"
  /\ cpc' = IF nw > 1 THEN "wait" ELSE "tick"
  /\ UNCHANGED <<flags, pool, left, nw, helpers, control>>

\* The spin on helper_done_gen_ of the active helpers is over.
AwaitHelpers ==
  /\ cpc = "wait"
  /\ \A h \in Helpers : h + 1 < nw => done[h] >= gen
  /\ cpc' = "tick"
  /\ UNCHANGED <<flags, pool, left, nw, helpers, control>>

\* Mutant: the count is not clamped from below.
EndTickUnclamped ==
  /\ cpc = "tick"
  /\ left = <<>>
  /\ \E n \in WorkerCounts : active' = n - 1
  /\ inTick' = FALSE
  /\ cpc' = "sleep"
  /\ UNCHANGED <<started, running, paused, gen, phase, created, left, nw, helpers,
                 control>>

\* adaptWorkerCount sets the count for the next tick and creates the helpers it
\* lacks, as far as the system lets it; the sweep; in_tick_ = false.
EndTick ==
  /\ cpc = "tick"
  /\ left = <<>>
  /\ \E n \in WorkerCounts, more \in 0..MaxHelpers :
       /\ more >= created
       /\ more = created \/ more < n
       /\ ~CreateFails => more + 1 >= n
       /\ created' = more
       /\ hpc' = [h \in Helpers |-> IF h \in created..more - 1 THEN "poll" ELSE hpc[h]]
       /\ active' = IF n > more + 1 THEN more + 1 ELSE n
  /\ inTick' = FALSE
  /\ cpc' = "sleep"
  /\ UNCHANGED <<started, running, paused, gen, phase, left, nw, last, hphase,
                 worked, done, counted, control>>

-----------------------------------------------------------------------------
(* helperEntry.                                                            *)

HelperExit(h) ==
  /\ hpc[h] = "poll"
  /\ ~running
  /\ hpc' = [hpc EXCEPT ![h] = "exited"]
  /\ UNCHANGED <<flags, pool, coord, last, hphase, worked, done, counted, control>>

\* A new generation ends the wait on work_waker_ (or its 100 ms timeout does).
HelperSees(h) ==
  /\ hpc[h] = "poll"
  /\ running
  /\ gen # last[h]
  /\ last' = [last EXCEPT ![h] = gen]
  /\ hpc' = [hpc EXCEPT ![h] = "decide"]
  /\ UNCHANGED <<flags, pool, coord, hphase, worked, done, counted, control>>

\* active_workers_ and current_phase_ are read as they are now.
HelperDecides(h) ==
  /\ hpc[h] = "decide"
  /\ IF h + 1 < active
       THEN /\ hpc' = [hpc EXCEPT ![h] = "run"]
            /\ hphase' = [hphase EXCEPT ![h] = phase]
       ELSE /\ hpc' = [hpc EXCEPT ![h] = "ack"]
            /\ UNCHANGED hphase
  /\ UNCHANGED <<flags, pool, coord, last, worked, done, counted, control>>

HelperRuns(h) ==
  /\ hpc[h] = "run"
  /\ hpc' = [hpc EXCEPT ![h] = "ack"]
  /\ worked' = [worked EXCEPT ![h] = last[h]]
  /\ UNCHANGED <<flags, pool, coord, last, hphase, done, counted, control>>

HelperAcks(h) ==
  /\ hpc[h] = "ack"
  /\ done' = [done EXCEPT ![h] = last[h]]
  /\ hpc' = [hpc EXCEPT ![h] = "poll"]
  /\ UNCHANGED <<flags, pool, coord, last, hphase, worked, counted, control>>

-----------------------------------------------------------------------------
(* fork() and stop().                                                      *)

\* pauseForFork: paused_ is set, then in_tick_ is watched.
ForkPrepare ==
  /\ fpc = "idle"
  /\ spc = "idle"
  /\ started
  /\ paused' = TRUE
  /\ fpc' = "waiting"
  /\ UNCHANGED <<started, running, inTick, pool, coord, helpers, spc, forks>>

\* in_tick_ is clear, or the wait has reached its cap: fork() goes ahead.
ForkProceeds ==
  /\ fpc = "waiting"
  /\ inTick => PauseTimesOut
  /\ fpc' = IF inTick THEN "hurried" ELSE "forked"
  /\ UNCHANGED <<flags, pool, coord, helpers, spc, forks>>

\* resumeAfterFork, in the parent.
ForkParent ==
  /\ fpc \in {"forked", "hurried"}
  /\ paused' = FALSE
  /\ fpc' = "idle"
  /\ UNCHANGED <<started, running, inTick, pool, coord, helpers, spc, forks>>

\* Mutant: the child keeps the parent's acknowledgements.
ForkChildKeepsDone ==
  /\ fpc \in {"forked", "hurried"}
  /\ forks < MaxForks
  /\ started' = FALSE /\ running' = FALSE /\ paused' = FALSE /\ inTick' = FALSE
  /\ gen' = 0 /\ phase' = 0 /\ active' = InitialWorkers /\ created' = 0
  /\ cpc' = "none" /\ left' = <<>> /\ nw' = 1
  /\ hpc' = [h \in Helpers |-> "none"]
  /\ last' = [h \in Helpers |-> 0]
  /\ hphase' = [h \in Helpers |-> 0]
  /\ worked' = [h \in Helpers |-> 0]
  /\ counted' = [h \in Helpers |-> 0]
  /\ fpc' = "idle" /\ spc' = "idle" /\ forks' = forks + 1
  /\ UNCHANGED done

\* resetForFork, in the child: no thread but the caller survives.
ForkChild ==
  /\ fpc \in {"forked", "hurried"}
  /\ forks < MaxForks
  /\ started' = FALSE /\ running' = FALSE /\ paused' = FALSE /\ inTick' = FALSE
  /\ gen' = 0 /\ phase' = 0 /\ active' = InitialWorkers /\ created' = 0
  /\ cpc' = "none" /\ left' = <<>> /\ nw' = 1
  /\ hpc' = [h \in Helpers |-> "none"]
  /\ last' = [h \in Helpers |-> 0]
  /\ hphase' = [h \in Helpers |-> 0]
  /\ worked' = [h \in Helpers |-> 0]
  /\ counted' = [h \in Helpers |-> 0]
  /\ done' = [h \in Helpers |-> 0]
  /\ fpc' = "idle" /\ spc' = "idle" /\ forks' = forks + 1

\* stop(): an early return unless running_.
StopCalled ==
  /\ MayStop
  /\ spc = "idle"
  /\ started
  /\ running
  /\ running' = FALSE
  /\ spc' = "joining"
  /\ UNCHANGED <<started, paused, inTick, pool, coord, helpers, fpc, forks>>

\* Mutant: only the helpers in use are joined.
StopJoinsActive ==
  /\ spc = "joining"
  /\ cpc = "exited"
  /\ \A h \in Helpers : h + 1 < active => hpc[h] = "exited"
  /\ spc' = "stopped"
  /\ UNCHANGED <<flags, pool, coord, helpers, fpc, forks>>

\* The joins return; what follows (drain, handler) is PageLifecycle's.
StopJoins ==
  /\ spc = "joining"
  /\ cpc = "exited"
  /\ \A h \in Helpers : h < created => hpc[h] = "exited"
  /\ spc' = "stopped"
  /\ UNCHANGED <<flags, pool, coord, helpers, fpc, forks>>

-----------------------------------------------------------------------------
CoordStep ==
  CoordExit \/ CoordWake \/ CoordCheck \/ Dispatch \/ RunOwnRange
  \/ AwaitHelpers \/ EndTick

HelperStep(h) ==
  HelperExit(h) \/ HelperSees(h) \/ HelperDecides(h) \/ HelperRuns(h)
  \/ HelperAcks(h)

ForkStep == ForkPrepare \/ ForkProceeds \/ ForkParent \/ ForkChild

Next ==
  \/ Start
  \/ CoordStep
  \/ \E h \in Helpers : HelperStep(h)
  \/ ForkStep
  \/ StopCalled
  \/ StopJoins

Spec == Init /\ [][Next]_vars

-----------------------------------------------------------------------------
(* Properties.                                                             *)

\* The dispatch barrier is complete: when the coordinator goes on to the next
\* step of the tick, every helper counted in the dispatch has executed its range
\* for this generation, also after the pool was resized and in a forked child.
EveryShareDone ==
  cpc = "tick" => \A h \in Helpers : h + 1 < nw => worked[h] = gen

\* A helper that executes a phase for a generation whose dispatch did not count
\* it.  helperEntry starts with last_gen = 0 and parks only once it has seen the
\* generation, so a helper that adaptWorkerCount creates, or puts to use before
\* it has looked, executes current_phase_ at once and on its own.
Late(h) == hpc[h] = "run" /\ last[h] # counted[h]

\* The dispatch barrier is tight for the helpers it counts: such a helper
\* executes a phase only while the coordinator is inside the dispatch of that
\* phase ("helpers park here between dispatches"), however the pool is resized.
\* The one helper outside a dispatch is a late one.
PhaseBarrier ==
  \A h \in Helpers :
    hpc[h] = "run" /\ ~Late(h) =>
      cpc \in {"run", "wait"} /\ last[h] = gen /\ hphase[h] = phase

\* A fork that did not run into the cap of pauseForFork finds the coordinator
\* outside its tick and every helper but the late ones idle ("the child never
\* inherits a half-done tick"): pauseForFork and coordEntry agree on who goes
\* first.  Of a hurried fork, and of the late helpers, in_tick_ says nothing.
ForkOutsideTick ==
  fpc = "forked" =>
    /\ cpc \notin {"tick", "run", "wait"}
    /\ \A h \in Helpers : hpc[h] = "run" => Late(h)

\* When stop() drains the pages no thread of the compressor is left that could
\* change them.
JoinedMeansQuiet ==
  spc = "stopped" => cpc = "exited" /\ \A h \in Helpers : hpc[h] \in {"none", "exited"}

\* Threads are scheduled.  pauseForFork looks every millisecond and the
\* coordinator sleeps a second between ticks, so a clear in_tick_ is seen.
Fairness ==
  /\ WF_vars(CoordStep)
  /\ \A h \in Helpers : WF_vars(HelperStep(h))
  /\ SF_vars(ForkProceeds) /\ WF_vars(ForkParent)
  /\ WF_vars(StopJoins)

FairSpec == Spec /\ Fairness

InTick == cpc \notin {"none", "sleep", "exited"}
ForkWaits == fpc = "waiting"

\* Every tick ends: the spin of dispatch on its helpers is never for ever.
TickEnds == InTick ~> ~InTick

\* A thread in pauseForFork gets to fork: ticks end and the coordinator does
\* not start another one past a set paused_.
ForkProceedsEventually == ForkWaits ~> ~ForkWaits

\* stop() returns ("fast shutdown response").
StopReturns == spc = "joining" ~> spc = "stopped"
=============================================================================
