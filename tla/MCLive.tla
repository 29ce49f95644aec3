------------------------------- MODULE MCLive -------------------------------
(***************************************************************************)
(* Liveness of the components, on instances small enough for TLC.          *)
(* A behaviour picks one instance, in unit, and is a behaviour of that     *)
(* instance: its variables are x1, x2, ... in the order in which the       *)
(* component declares them, and those left over stay 0.  The number of     *)
(* states is the sum over the instances.                                   *)
(***************************************************************************)
EXTENDS Naturals

CONSTANTS None, Node, a1, b1, b2, d1, d2, p1, r1, t1, t2, w1

VARIABLES unit, x1, x2, x3, x4, x5, x6, x7, x8, x9, x10, x11, x12, x13, x14,
          x15, x16, x17, x18, x19, x20, x21, x22, x23, x24, x25, x26, x27

vars == <<unit, x1, x2, x3, x4, x5, x6, x7, x8, x9, x10, x11, x12, x13, x14,
          x15, x16, x17, x18, x19, x20, x21, x22, x23, x24, x25, x26, x27>>

-----------------------------------------------------------------------------
(* The instances, by component                                             *)

\* TickDispatch.
SteadyLive == INSTANCE TickDispatch WITH MaxHelpers <- 1, InitialWorkers <- 2,
  WorkerCounts <- {1, 2}, ShadowMode <- TRUE, CreateFails <- FALSE,
  PauseTimesOut <- FALSE, MayStop <- FALSE, MaxGen <- 8, MaxForks <- 1,
  started <- x1, running <- x2, paused <- x3, inTick <- x4, gen <- x5,
  phase <- x6, active <- x7, created <- x8, done <- x9, cpc <- x10,
  left <- x11, nw <- x12, hpc <- x13, last <- x14, hphase <- x15,
  worked <- x16, counted <- x17, fpc <- x18, spc <- x19, forks <- x20

\* VmRegion.
RunsLive == INSTANCE VmRegion WITH Threads <- {t1, t2}, Contig <- 2,
  Sizes <- {1}, Chunk <- 0, CreateFails <- TRUE, CommitFails <- TRUE,
  MayFork <- TRUE, MaxAllocs <- 2,
  next <- x1, committed <- x2, committer <- x3, free <- x4, queue <- x5,
  running <- x6, drainer <- x7, batch <- x8, pc <- x9, n <- x10, start <- x11,
  left <- x12, page <- x13, owned <- x14, lost <- x15, refused <- x16,
  allocs <- x17

\* Bootstrap.
BootLive == INSTANCE Bootstrap WITH Threads <- {t1, t2}, Sizes <- {1, 3},
  Align <- 2, PageBytes <- 2, InitialSize <- 4, ExpandSize <- 4,
  MaxRegions <- 2, Bases <- {0, 10}, ReserveFails <- TRUE, MayFork <- TRUE,
  MaxAllocs <- 2,
  ready <- x1, regions <- x2, lo <- x3, hi <- x4, lock <- x5, pc <- x6,
  call <- x7, blocks <- x8, allocs <- x9

\* SlabHeap.
SharedLive == INSTANCE SlabHeap WITH Threads <- {t1, t2}, Arenas <- {a1},
  Ranges <- {r1}, MaxSpans <- 1, Slots <- {1, 2}, Cap <- 0, Depth <- 1,
  Batch <- 2, Magazine <- FALSE, MaxMagazines <- 1, NodeCap <- 1,
  MaxResident <- 1, MaxTick <- 0,
  slab <- x1, span <- x2, made <- x3, pageMap <- x4, state <- x5, kept <- x6,
  resident <- x7, tick <- x8, lock <- x9, pending <- x10, depth <- x11,
  mags <- x12, cache <- x13, live <- x14, pc <- x15, arena <- x16,
  nodes <- x17, work <- x18, got <- x19, turned <- x20

\* LargeBlocks.
LargeLive == INSTANCE LargeBlocks WITH Threads <- {t1}, Blocks <- {b1, b2},
  Descriptors <- {d1, d2}, Sizes <- {1, 2}, MaxPages <- 2, VmPages <- 2,
  CacheDepth <- 1, MaxBytes <- 2, CommitFails <- TRUE, MaxAllocs <- 2,
  block <- x1, arena <- x2, closed <- x3, refused <- x4, fresh <- x5,
  anyCompressed <- x6, desc <- x7, used <- x8, top <- x9, nextFree <- x10,
  pageMap <- x11, bucket <- x12, age <- x13, bytes <- x14, live <- x15,
  pc <- x16, size <- x17, mem <- x18, d <- x19, seen <- x20, seenNext <- x21,
  zeroed <- x22, nowAge <- x23, tpc <- x24, tsize <- x25, victims <- x26,
  allocs <- x27

Table == INSTANCE SyscallTable

\* Syscalls.
PairLive == INSTANCE Syscalls WITH Threads <- {t1},
  Wrappers <- Table!Wrappers, Names <- {"read", "fread", "readv"},
  MaxAttempts <- 2, MaxCalls <- 1,
  resolving <- x1, resolved <- x2, calls <- x3, call <- x4, pc <- x5,
  page <- x6, attempt <- x7, result <- x8, closings <- x9

\* BlobStores.
TiersLive == INSTANCE BlobStores WITH Pages <- {0, 1}, Workers <- {w1},
  Shards <- 1, Capacity <- 3, AnonRegions <- 2, SpillSlots <- 1, Sizes <- {1},
  DeepTier <- TRUE, MayFork <- FALSE, Node <- Node,
  region <- x1, chain <- x2, cell <- x3, blob <- x4, tier <- x5, ready <- x6,
  initDone <- x7, generation <- x8, raced <- x9, wild <- x10,
  spilledCount <- x11, locked <- x12, pc <- x13, page <- x14, old <- x15,
  size <- x16, forked <- x17, childBlob <- x18, childTodo <- x19, gone <- x20

\* FaultChain: no other handler, nested faults.
Signals1 == INSTANCE FaultChain WITH Threads <- {t1, t2},
  Original <- "default", PageSignal <- "SEGV", Reclaims <- {"SEGV"},
  Accesses <- {"touch", "wild", "raise"}, Installed <- {}, Mach <- FALSE,
  DepthGuarded <- TRUE, Nested <- 3, MayStop <- FALSE, MaxFrames <- 5,
  disp <- x1, old <- x2, running <- x3, instance <- x4, shuttingDown <- x5,
  stack <- x6, depth <- x7, status <- x8, tick <- x9, stale <- x10,
  stopper <- x11

\* FaultChain: a handler that does not chain, stop().
Signals3 == INSTANCE FaultChain WITH Threads <- {t1, t2}, Original <- "app",
  PageSignal <- "SEGV", Reclaims <- {"SEGV"},
  Accesses <- {"touch", "wild", "raise"}, Installed <- {"app"}, Mach <- FALSE,
  DepthGuarded <- TRUE, Nested <- 0, MayStop <- TRUE, MaxFrames <- 4,
  disp <- x1, old <- x2, running <- x3, instance <- x4, shuttingDown <- x5,
  stack <- x6, depth <- x7, status <- x8, tick <- x9, stale <- x10,
  stopper <- x11

\* FaultChain: the Mach listener.
Signals4 == INSTANCE FaultChain WITH Threads <- {t1, t2},
  Original <- "ignore", PageSignal <- "BUS", Reclaims <- {"SEGV", "BUS"},
  Accesses <- {"touch", "wild", "raise"}, Installed <- {}, Mach <- TRUE,
  DepthGuarded <- FALSE, Nested <- 0, MayStop <- TRUE, MaxFrames <- 4,
  disp <- x1, old <- x2, running <- x3, instance <- x4, shuttingDown <- x5,
  stack <- x6, depth <- x7, status <- x8, tick <- x9, stale <- x10,
  stopper <- x11

\* ColdPolicy.
ColdLive == INSTANCE ColdPolicy WITH Pages <- {p1}, Floor <- 1,
  Saturated <- 3, MaxShift <- 1, MaxFloor <- 2, DecayTicks <- 2, Unit <- 4,
  Profiles <- {"none"}, RoiTicks <- 2, SoftDirty <- FALSE, Deferred <- TRUE,
  profile <- x1, state <- x2, cold <- x3, rc <- x4, fails <- x5,
  accessed <- x6, dirty <- x7, ema <- x8, cnt <- x9, counting <- x10,
  tick <- x11, todo <- x12, seen <- x13, budget <- x14, idle <- x15,
  since <- x16, torn <- x17, quiet <- x18

\* NearCap: no mapping has more pages than there are slots.
CapLive == INSTANCE NearCap WITH N <- 3, Committed <- 3, Cap <- 3,
  Margin <- 1, Limits <- <<1, 2, 4>>, Threads <- {t1}, Slots <- 3,
  MaxOthers <- 1, MaxWork <- 1,
  prot <- x1, state <- x2, blob <- x3, lock <- x4, mem <- x5, others <- x6,
  estimate <- x7, near <- x8, tick <- x9, vmaNow <- x10, slots <- x11,
  work <- x12, pc <- x13, page <- x14, store <- x15, range <- x16

\* ProfileFile.
SaveLive == INSTANCE ProfileFile WITH Procs <- {t1, t2}, Workers <- {1},
  Buckets <- 1, Window <- 1, HintMin <- 1, LockFails <- FALSE,
  DiskFull <- FALSE, MaxRuns <- 2,
  path <- x1, tmp <- x2, holder <- x3, pc <- x4, stats <- x5, hint <- x6,
  hot <- x7, skipExt <- x8, mine <- x9, locked <- x10, best <- x11,
  runs <- x12

\* WorkerScaling.
AdaptLive == INSTANCE WorkerScaling WITH Word <- 32, Scale <- 4,
  MaxWorkers <- 3, StartWorkers <- 2, SampleTicks <- 1, Procs <- 4,
  SkipAfter <- 0, Loads <- {0, 3}, Threads <- {2}, LoadAverages <- {0},
  lambda <- x1, mu <- x2, active <- x3, helpers <- x4, cap <- x5, age <- x6,
  idle <- x7, skipped <- x8, quiet <- x9

-----------------------------------------------------------------------------
(* A step of the chosen instance; nothing else moves                       *)

Zero20 == x21 = 0 /\ x22 = 0 /\ x23 = 0 /\ x24 = 0 /\ x25 = 0 /\ x26 = 0
  /\ x27 = 0
Zero18 == x19 = 0 /\ x20 = 0 /\ Zero20
Zero17 == x18 = 0 /\ Zero18
Zero16 == x17 = 0 /\ Zero17
Zero12 == x13 = 0 /\ x14 = 0 /\ x15 = 0 /\ x16 = 0 /\ Zero16
Zero11 == x12 = 0 /\ Zero12
Zero9 == x10 = 0 /\ x11 = 0 /\ Zero11
Rest27 == UNCHANGED unit
Rest20 == UNCHANGED <<x21, x22, x23, x24, x25, x26, x27>> /\ Rest27
Rest18 == UNCHANGED <<x19, x20>> /\ Rest20
Rest17 == UNCHANGED <<x18>> /\ Rest18
Rest16 == UNCHANGED <<x17>> /\ Rest17
Rest12 == UNCHANGED <<x13, x14, x15, x16>> /\ Rest16
Rest11 == UNCHANGED <<x12>> /\ Rest12
Rest9 == UNCHANGED <<x10, x11>> /\ Rest11

Init ==
  \/ unit = "SteadyLive" /\ SteadyLive!Init /\ Zero20
  \/ unit = "RunsLive" /\ RunsLive!Init /\ Zero17
  \/ unit = "BootLive" /\ BootLive!Init /\ Zero9
  \/ unit = "SharedLive" /\ SharedLive!Init /\ Zero20
  \/ unit = "LargeLive" /\ LargeLive!Init
  \/ unit = "PairLive" /\ PairLive!Init /\ Zero9
  \/ unit = "TiersLive" /\ TiersLive!Init /\ Zero20
  \/ unit = "Signals1" /\ Signals1!Init /\ Zero11
  \/ unit = "Signals3" /\ Signals3!Init /\ Zero11
  \/ unit = "Signals4" /\ Signals4!Init /\ Zero11
  \/ unit = "ColdLive" /\ ColdLive!Init /\ Zero18
  \/ unit = "CapLive" /\ CapLive!Init /\ Zero16
  \/ unit = "SaveLive" /\ SaveLive!Init /\ Zero12
  \/ unit = "AdaptLive" /\ AdaptLive!Init /\ Zero9

Next ==
  \/ unit = "SteadyLive" /\ SteadyLive!Next /\ Rest20
  \/ unit = "RunsLive" /\ RunsLive!Next /\ Rest17
  \/ unit = "BootLive" /\ BootLive!Next /\ Rest9
  \/ unit = "SharedLive" /\ SharedLive!Next /\ Rest20
  \/ unit = "LargeLive" /\ LargeLive!Next /\ Rest27
  \/ unit = "PairLive" /\ PairLive!Next /\ Rest9
  \/ unit = "TiersLive" /\ TiersLive!Next /\ Rest20
  \/ unit = "Signals1" /\ Signals1!Next /\ Rest11
  \/ unit = "Signals3" /\ Signals3!Next /\ Rest11
  \/ unit = "Signals4" /\ Signals4!Next /\ Rest11
  \/ unit = "ColdLive" /\ ColdLive!Next /\ Rest18
  \/ unit = "CapLive" /\ CapLive!Next /\ Rest16
  \/ unit = "SaveLive" /\ SaveLive!Next /\ Rest12
  \/ unit = "AdaptLive" /\ AdaptLive!Next /\ Rest9

Spec == Init /\ [][Next]_vars

(***************************************************************************)
(* Liveness.  A behaviour is of one instance, so that weak fairness of a   *)
(* disjunction over the instances is that of the chosen one.  Threads and  *)
(* ticks that can go on do.  A lock, a page that waits for the worker's visit*)
(* and a moment between two ticks are got by whoever keeps asking (strong  *)
(* fairness).                                                              *)
(***************************************************************************)

\* A thread of the application, inside a call that does not wait for a lock.
CallerStep(t) ==
  \/ unit = "PairLive" /\ t = t1 /\ PairLive!Step(t) /\ Rest9
  \/ unit = "SharedLive" /\ SharedLive!ThreadStep(t) /\ Rest20
  \/ unit = "RunsLive" /\ RunsLive!CallStep(t) /\ Rest17
  \/ unit = "Signals1" /\ Signals1!HandlerStep(t) /\ Rest11
  \/ unit = "Signals3" /\ Signals3!HandlerStep(t) /\ Rest11
  \/ unit = "Signals4" /\ Signals4!HandlerStep(t) /\ Rest11
  \/ unit = "CapLive" /\ t = t1 /\ CapLive!ThreadStep(t) /\ Rest16
  \/ unit = "SaveLive" /\ SaveLive!Save(t) /\ Rest12
  \/ unit = "SteadyLive" /\ t = t1 /\ SteadyLive!ForkParent /\ Rest20

\* The coordinator's tick, a worker, or the decommit thread.
WorkStep ==
  \/ unit = "SteadyLive" /\ SteadyLive!CoordStep /\ Rest20
  \/ unit = "RunsLive" /\ RunsLive!DrainerStep /\ Rest17
  \/ unit = "LargeLive" /\ LargeLive!TickStep /\ Rest27
  \/ unit = "TiersLive" /\ TiersLive!WorkerStep(w1) /\ Rest20
  \/ unit = "ColdLive" /\ ColdLive!TickStep /\ Rest18
  \/ unit = "CapLive" /\ CapLive!StartTick /\ Rest16
  \/ unit = "AdaptLive" /\ AdaptLive!Tick /\ Rest9
  \/ unit = "Signals3" /\ Signals3!TickStep /\ Rest11

\* What else goes on by itself.
OtherStep(i) ==
  \/ unit = "SteadyLive" /\ i = 0 /\ SteadyLive!HelperStep(i) /\ Rest20
  \/ unit = "ColdLive" /\ i = 0 /\ ColdLive!CountRefault(p1) /\ Rest18
  \/ unit = "ColdLive" /\ i = 1 /\ ColdLive!Reuse(p1) /\ Rest18
  \/ unit = "CapLive" /\ i = 0 /\ CapLive!ArmBudget /\ Rest16
  \/ unit = "CapLive" /\ i = 1 /\ CapLive!EndTick /\ Rest16

\* What is not always possible, but again and again.
ContestedStep(i) ==
  \/ unit = "BootLive" /\ i = 0 /\ BootLive!AllocStep(t1) /\ Rest9
  \/ unit = "BootLive" /\ i = 1 /\ BootLive!AllocStep(t2) /\ Rest9
  \/ unit = "TiersLive" /\ i \in 0..1 /\ TiersLive!Visit(w1, i) /\ Rest20
  \/ unit = "SteadyLive" /\ i = 0 /\ SteadyLive!ForkProceeds /\ Rest20
  \/ unit = "ColdLive" /\ i = 0 /\ ColdLive!Phase1Done /\ Rest18
  \/ unit = "ColdLive" /\ i = 1 /\ ColdLive!ArmBudget(2) /\ Rest18
  \/ unit = "ColdLive" /\ i = 2 /\ ColdLive!Compress(p1) /\ Rest18

LiveSpec ==
  /\ Spec
  /\ \A t \in {t1, t2} : WF_vars(CallerStep(t))
  /\ WF_vars(WorkStep)
  /\ \A i \in 0..1 : WF_vars(OtherStep(i))
  /\ \A i \in 0..2 : SF_vars(ContestedStep(i))

\* Thread t waits for a call to end: EveryCallEnds, AllocationReturns,
\* LockReleased, HandlerLeft, AtCapCompletes, SaveEnds and
\* ForkProceedsEventually.
Waiting(t) ==
  \/ unit = "PairLive" /\ t = t1 /\ PairLive!InCall(t)
  \/ unit = "BootLive" /\ BootLive!Allocating(t)
  \/ unit = "SharedLive" /\ SharedLive!Owner(a1, t)
  \/ unit = "Signals1" /\ Signals1!InHandler(t)
  \/ unit = "Signals3" /\ Signals3!InHandler(t)
  \/ unit = "Signals4" /\ Signals4!InHandler(t)
  \/ unit = "CapLive" /\ t = t1 /\ CapLive!Accessing(t)
  \/ unit = "SaveLive" /\ SaveLive!Saving(t)
  \/ unit = "SteadyLive" /\ t = t1 /\ SteadyLive!ForkWaits

\* What a thread of the application waits for comes: a wrapped system call
\* ends, a bootstrap allocation returns, a slab's lock is given back, a signal
\* handler is left, an access at the limit on mappings completes, a profile is
\* saved, and fork() gets past a tick.
CallsEnd == \A t \in {t1, t2} : Waiting(t) ~> ~Waiting(t)

\* Something for the compressor to do: TickEnds, IdleIsTried, IdleShrinks,
\* IdleBlocksReturn, ReleasedComesBack and HandlerReclaimed.
Owed(i) ==
  \/ unit = "SteadyLive" /\ i = 0 /\ SteadyLive!InTick
  \/ unit = "ColdLive" /\ i = 0 /\ ColdLive!Untried(p1)
  \/ unit = "AdaptLive" /\ i = 0 /\ AdaptLive!Overstaffed
  \/ unit = "LargeLive" /\ LargeLive!Idle(i + 1)
  \/ unit = "RunsLive" /\ RunsLive!Queued(i)
  \/ unit = "Signals3" /\ i = 0 /\ Signals3!Displaced

Draining == unit = "RunsLive" => RunsLive!Draining
SpillUsable(p) == unit = "TiersLive" /\ TiersLive!SpillUsable(p)
Spilled(p) == unit = "TiersLive" /\ TiersLive!Spilled(p)

\* What the compressor owes the program happens: every tick ends while it is not
\* stopped and its helpers could be created, an idle page is tried, extra workers
\* are let go when there is no work, an idle bucket of large blocks is purged, a
\* handler installed over smash's is displaced again, a released run reaches a
\* free list if from some time on there is a decommit thread, and a very cold
\* page that stays compressed is spilled if from some time on the file has room
\* for it.
BackgroundWorks ==
  /\ <>[]Draining => \A i \in 0..1 : Owed(i) ~> ~Owed(i)
  /\ \A p \in 0..1 : <>[]SpillUsable(p) => <>Spilled(p)
=============================================================================
