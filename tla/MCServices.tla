----------------------------- MODULE MCServices -----------------------------
(***************************************************************************)
(* The components around the pages, on instances small enough for TLC.     *)
(* A behaviour picks one instance, in unit, and is a behaviour of that     *)
(* instance: its variables are x1, x2, ... in the order in which the       *)
(* component declares them, and those left over stay 0.  The number of     *)
(* states is the sum over the instances.                                   *)
(***************************************************************************)
EXTENDS Naturals

CONSTANTS None, a1, a2, p1, p2, t1, t2

VARIABLES unit, x1, x2, x3, x4, x5, x6, x7, x8, x9, x10, x11, x12, x13, x14,
          x15, x16, x17, x18, x19, x20, x21, x22, x23

vars == <<unit, x1, x2, x3, x4, x5, x6, x7, x8, x9, x10, x11, x12, x13, x14,
          x15, x16, x17, x18, x19, x20, x21, x22, x23>>

-----------------------------------------------------------------------------
(* The instances, by component                                             *)

\* TickDispatch: two helpers, any count, threads that cannot be made, a tick
\* that outlasts pauseForFork, stop().
Scaling == INSTANCE TickDispatch WITH MaxHelpers <- 2, InitialWorkers <- 2,
  WorkerCounts <- {1, 2, 3}, ShadowMode <- TRUE, CreateFails <- TRUE,
  PauseTimesOut <- TRUE, MayStop <- TRUE, MaxGen <- 8, MaxForks <- 1,
  started <- x1, running <- x2, paused <- x3, inTick <- x4, gen <- x5,
  phase <- x6, active <- x7, created <- x8, done <- x9, cpc <- x10,
  left <- x11, nw <- x12, hpc <- x13, last <- x14, hphase <- x15,
  worked <- x16, counted <- x17, fpc <- x18, spc <- x19, forks <- x20

Table == INSTANCE SyscallTable

\* Syscalls: one call of each shape.
Every == INSTANCE Syscalls WITH Threads <- {t1}, Wrappers <- Table!Wrappers,
  Names <- Table!Shapes, MaxAttempts <- 2, MaxCalls <- 1,
  resolving <- x1, resolved <- x2, calls <- x3, call <- x4, pc <- x5,
  page <- x6, attempt <- x7, result <- x8, closings <- x9

\* The wrappers of the repository meet what SyscallsProofs asks of a table.
ASSUME TableFits == Every!Fits

\* Syscalls: two threads.
Pair == INSTANCE Syscalls WITH Threads <- {t1, t2},
  Wrappers <- Table!Wrappers, Names <- {"read", "fread"}, MaxAttempts <- 2,
  MaxCalls <- 2,
  resolving <- x1, resolved <- x2, calls <- x3, call <- x4, pc <- x5,
  page <- x6, attempt <- x7, result <- x8, closings <- x9

\* ExternalPages: mappings that stay where they are.
Mapped == INSTANCE ExternalPages WITH Addrs <- {a1, a2}, Threads <- {t1, t2},
  MaxSlots <- 2, MayRemap <- FALSE, MaxMaps <- 3, NoAddr <- None,
  mapped <- x1, open <- x2, mem <- x3, written <- x4, refused <- x5,
  key <- x6, idx <- x7, slotNext <- x8, count <- x9, reverse <- x10,
  state <- x11, lock <- x12, blob <- x13, pc <- x14, arg <- x15, to <- x16,
  slot <- x17, wpc <- x18, wi <- x19, waddr <- x20, wbuf <- x21, maps <- x22,
  bad <- x23

\* ExternalPages: mremap over tracked pages.
Remapped == INSTANCE ExternalPages WITH Addrs <- {a1, a2},
  Threads <- {t1, t2}, MaxSlots <- 2, MayRemap <- TRUE, MaxMaps <- 2,
  NoAddr <- None,
  mapped <- x1, open <- x2, mem <- x3, written <- x4, refused <- x5,
  key <- x6, idx <- x7, slotNext <- x8, count <- x9, reverse <- x10,
  state <- x11, lock <- x12, blob <- x13, pc <- x14, arg <- x15, to <- x16,
  slot <- x17, wpc <- x18, wi <- x19, waddr <- x20, wbuf <- x21, maps <- x22,
  bad <- x23

\* FaultChain: no other handler, nested faults.
Signals1 == INSTANCE FaultChain WITH Threads <- {t1, t2},
  Original <- "default", PageSignal <- "SEGV", Reclaims <- {"SEGV"},
  Accesses <- {"touch", "wild", "raise"}, Installed <- {}, Mach <- FALSE,
  DepthGuarded <- TRUE, Nested <- 3, MayStop <- FALSE, MaxFrames <- 5,
  disp <- x1, old <- x2, running <- x3, instance <- x4, shuttingDown <- x5,
  stack <- x6, depth <- x7, status <- x8, tick <- x9, stale <- x10,
  stopper <- x11

\* FaultChain: a chaining handler is installed later.
Signals2 == INSTANCE FaultChain WITH Threads <- {t1, t2}, Original <- "app",
  PageSignal <- "SEGV", Reclaims <- {"SEGV"},
  Accesses <- {"touch", "wild", "raise"}, Installed <- {"chain"},
  Mach <- FALSE, DepthGuarded <- TRUE, Nested <- 1, MayStop <- FALSE,
  MaxFrames <- 6,
  disp <- x1, old <- x2, running <- x3, instance <- x4, shuttingDown <- x5,
  stack <- x6, depth <- x7, status <- x8, tick <- x9, stale <- x10,
  stopper <- x11

\* FaultChain: a handler that does not chain, stop().
Signals3 == INSTANCE FaultChain WITH Threads <- {t1, t2}, Original <- "app",
  PageSignal <- "SEGV", Reclaims <- {"SEGV"},
  Accesses <- {"touch", "wild", "raise"}, Installed <- {"app"}, Mach <- FALSE,
  DepthGuarded <- TRUE, Nested <- 0, MayStop <- TRUE, MaxFrames <- 4,
  disp <- x1, old <- x2, running <- x3, instance <- x4, shuttingDown <- x5,
  stack <- x6, depth <- x7, status <- x8, tick <- x9, stale <- x10,
  stopper <- x11

\* FaultChain: the Mach listener.
Signals4 == INSTANCE FaultChain WITH Threads <- {t1, t2},
  Original <- "ignore", PageSignal <- "BUS", Reclaims <- {"SEGV", "BUS"},
  Accesses <- {"touch", "wild", "raise"}, Installed <- {}, Mach <- TRUE,
  DepthGuarded <- FALSE, Nested <- 0, MayStop <- TRUE, MaxFrames <- 4,
  disp <- x1, old <- x2, running <- x3, instance <- x4, shuttingDown <- x5,
  stack <- x6, depth <- x7, status <- x8, tick <- x9, stale <- x10,
  stopper <- x11

\* FaultChain: both signals are taken back, without the nesting guard.
Signals5 == INSTANCE FaultChain WITH Threads <- {t1}, Original <- "default",
  PageSignal <- "BUS", Reclaims <- {"SEGV", "BUS"},
  Accesses <- {"touch", "wild", "raise"}, Installed <- {"app", "chain"},
  Mach <- FALSE, DepthGuarded <- FALSE, Nested <- 0, MayStop <- TRUE,
  MaxFrames <- 3,
  disp <- x1, old <- x2, running <- x3, instance <- x4, shuttingDown <- x5,
  stack <- x6, depth <- x7, status <- x8, tick <- x9, stale <- x10,
  stopper <- x11

\* ColdPolicy: soft-dirty tracking.
SoftCold == INSTANCE ColdPolicy WITH Pages <- {p1}, Floor <- 2,
  Saturated <- 7, MaxShift <- 2, MaxFloor <- 5, DecayTicks <- 3, Unit <- 4,
  Profiles <- {"none", "thrash8"}, RoiTicks <- 4, SoftDirty <- TRUE,
  Deferred <- TRUE,
  profile <- x1, state <- x2, cold <- x3, rc <- x4, fails <- x5,
  accessed <- x6, dirty <- x7, ema <- x8, cnt <- x9, counting <- x10,
  tick <- x11, todo <- x12, seen <- x13, budget <- x14, idle <- x15,
  since <- x16, torn <- x17, quiet <- x18

\* ColdPolicy: monitoring by faults.
FaultCold == INSTANCE ColdPolicy WITH Pages <- {p1}, Floor <- 2,
  Saturated <- 5, MaxShift <- 2, MaxFloor <- 4, DecayTicks <- 3, Unit <- 4,
  Profiles <- {"stable", "skip"}, RoiTicks <- 0, SoftDirty <- FALSE,
  Deferred <- FALSE,
  profile <- x1, state <- x2, cold <- x3, rc <- x4, fails <- x5,
  accessed <- x6, dirty <- x7, ema <- x8, cnt <- x9, counting <- x10,
  tick <- x11, todo <- x12, seen <- x13, budget <- x14, idle <- x15,
  since <- x16, torn <- x17, quiet <- x18

\* NearCap: one thread, one slot, the compressor at work.
Crowded == INSTANCE NearCap WITH N <- 3, Committed <- 3, Cap <- 4,
  Margin <- 1, Limits <- <<1, 2, 4>>, Threads <- {t1}, Slots <- 1,
  MaxOthers <- 2, MaxWork <- 2,
  prot <- x1, state <- x2, blob <- x3, lock <- x4, mem <- x5, others <- x6,
  estimate <- x7, near <- x8, tick <- x9, vmaNow <- x10, slots <- x11,
  work <- x12, pc <- x13, page <- x14, store <- x15, range <- x16

\* NearCap: two threads.
Contended == INSTANCE NearCap WITH N <- 3, Committed <- 3, Cap <- 3,
  Margin <- 1, Limits <- <<1, 2, 4>>, Threads <- {t1, t2}, Slots <- 2,
  MaxOthers <- 1, MaxWork <- 0,
  prot <- x1, state <- x2, blob <- x3, lock <- x4, mem <- x5, others <- x6,
  estimate <- x7, near <- x8, tick <- x9, vmaNow <- x10, slots <- x11,
  work <- x12, pc <- x13, page <- x14, store <- x15, range <- x16

\* ProfileFile: two processes.
Saves == INSTANCE ProfileFile WITH Procs <- {p1, p2}, Workers <- {1},
  Buckets <- 2, Window <- 2, HintMin <- 2, LockFails <- FALSE,
  DiskFull <- FALSE, MaxRuns <- 2,
  path <- x1, tmp <- x2, holder <- x3, pc <- x4, stats <- x5, hint <- x6,
  hot <- x7, skipExt <- x8, mine <- x9, locked <- x10, best <- x11,
  runs <- x12

\* ProfileFile: one process without a lock file.
Alone == INSTANCE ProfileFile WITH Procs <- {p1}, Workers <- {1},
  Buckets <- 1, Window <- 2, HintMin <- 2, LockFails <- TRUE,
  DiskFull <- FALSE, MaxRuns <- 3,
  path <- x1, tmp <- x2, holder <- x3, pc <- x4, stats <- x5, hint <- x6,
  hot <- x7, skipExt <- x8, mine <- x9, locked <- x10, best <- x11,
  runs <- x12

\* WorkerScaling.
Adapt == INSTANCE WorkerScaling WITH Word <- 64, Scale <- 4, MaxWorkers <- 3,
  StartWorkers <- 2, SampleTicks <- 1, Procs <- 4, SkipAfter <- 2,
  Loads <- {0, 1, 6}, Threads <- {2}, LoadAverages <- {0, 3},
  lambda <- x1, mu <- x2, active <- x3, helpers <- x4, cap <- x5, age <- x6,
  idle <- x7, skipped <- x8, quiet <- x9

-----------------------------------------------------------------------------
(* A step of the chosen instance; nothing else moves                       *)

Zero20 == x21 = 0 /\ x22 = 0 /\ x23 = 0
Zero18 == x19 = 0 /\ x20 = 0 /\ Zero20
Zero16 == x17 = 0 /\ x18 = 0 /\ Zero18
Zero12 == x13 = 0 /\ x14 = 0 /\ x15 = 0 /\ x16 = 0 /\ Zero16
Zero11 == x12 = 0 /\ Zero12
Zero9 == x10 = 0 /\ x11 = 0 /\ Zero11
Rest23 == UNCHANGED unit
Rest20 == UNCHANGED <<x21, x22, x23>> /\ Rest23
Rest18 == UNCHANGED <<x19, x20>> /\ Rest20
Rest16 == UNCHANGED <<x17, x18>> /\ Rest18
Rest12 == UNCHANGED <<x13, x14, x15, x16>> /\ Rest16
Rest11 == UNCHANGED <<x12>> /\ Rest12
Rest9 == UNCHANGED <<x10, x11>> /\ Rest11

Init ==
  \/ unit = "Scaling" /\ Scaling!Init /\ Zero20
  \/ unit = "Every" /\ Every!Init /\ Zero9
  \/ unit = "Pair" /\ Pair!Init /\ Zero9
  \/ unit = "Mapped" /\ Mapped!Init
  \/ unit = "Remapped" /\ Remapped!Init
  \/ unit = "Signals1" /\ Signals1!Init /\ Zero11
  \/ unit = "Signals2" /\ Signals2!Init /\ Zero11
  \/ unit = "Signals3" /\ Signals3!Init /\ Zero11
  \/ unit = "Signals4" /\ Signals4!Init /\ Zero11
  \/ unit = "Signals5" /\ Signals5!Init /\ Zero11
  \/ unit = "SoftCold" /\ SoftCold!Init /\ Zero18
  \/ unit = "FaultCold" /\ FaultCold!Init /\ Zero18
  \/ unit = "Crowded" /\ Crowded!Init /\ Zero16
  \/ unit = "Contended" /\ Contended!Init /\ Zero16
  \/ unit = "Saves" /\ Saves!Init /\ Zero12
  \/ unit = "Alone" /\ Alone!Init /\ Zero12
  \/ unit = "Adapt" /\ Adapt!Init /\ Zero9

Next ==
  \/ unit = "Scaling" /\ Scaling!Next /\ Rest20
  \/ unit = "Every" /\ Every!Next /\ Rest9
  \/ unit = "Pair" /\ Pair!Next /\ Rest9
  \/ unit = "Mapped" /\ Mapped!Next /\ Rest23
  \/ unit = "Remapped" /\ Remapped!Next /\ Rest23
  \/ unit = "Signals1" /\ Signals1!Next /\ Rest11
  \/ unit = "Signals2" /\ Signals2!Next /\ Rest11
  \/ unit = "Signals3" /\ Signals3!Next /\ Rest11
  \/ unit = "Signals4" /\ Signals4!Next /\ Rest11
  \/ unit = "Signals5" /\ Signals5!Next /\ Rest11
  \/ unit = "SoftCold" /\ SoftCold!Next /\ Rest18
  \/ unit = "FaultCold" /\ FaultCold!Next /\ Rest18
  \/ unit = "Crowded" /\ Crowded!Next /\ Rest16
  \/ unit = "Contended" /\ Contended!Next /\ Rest16
  \/ unit = "Saves" /\ Saves!Next /\ Rest12
  \/ unit = "Alone" /\ Alone!Next /\ Rest12
  \/ unit = "Adapt" /\ Adapt!Next /\ Rest9

Spec == Init /\ [][Next]_vars

(***************************************************************************)
(* Properties of the services around the pages.                            *)
(***************************************************************************)

\* The variables of the other components stay in their types.
ServicesTyped ==
  /\ unit = "Scaling" => Scaling!TypeOK
  /\ unit = "Every" => Every!TypeOK
  /\ unit = "Pair" => Pair!TypeOK
  /\ unit = "Mapped" => Mapped!TypeOK
  /\ unit = "Remapped" => Remapped!TypeOK
  /\ unit = "Signals1" => Signals1!TypeOK
  /\ unit = "Signals2" => Signals2!TypeOK
  /\ unit = "Signals3" => Signals3!TypeOK
  /\ unit = "Signals4" => Signals4!TypeOK
  /\ unit = "Signals5" => Signals5!TypeOK
  /\ unit = "SoftCold" => SoftCold!TypeOK
  /\ unit = "FaultCold" => FaultCold!TypeOK
  /\ unit = "Crowded" => Crowded!TypeOK
  /\ unit = "Contended" => Contended!TypeOK
  /\ unit = "Saves" => Saves!TypeOK
  /\ unit = "Alone" => Alone!TypeOK
  /\ unit = "Adapt" => Adapt!TypeOK

\* When dispatch returns, every helper it counted has done its range of the
\* phase, and a helper at work is in the coordinator's phase and generation
\* unless the dispatch did not count it (dispatch, helperEntry,
\* adaptWorkerCount).
DispatchSound ==
  /\ unit = "Scaling" => Scaling!EveryShareDone /\ Scaling!PhaseBarrier

\* When stop() drains the pages no thread of the compressor is left that could
\* change them.
JoinedMeansQuiet ==
  /\ unit = "Scaling" => Scaling!JoinedMeansQuiet

\* A fork whose pause did not reach its cap is outside the ticks, and the only
\* helper it may meet at work is one that adaptWorkerCount put to work after the
\* last dispatch (pauseForFork, coordEntry).
ForkOutsideTick ==
  /\ unit = "Scaling" => Scaling!ForkOutsideTick

\* A wrapped system call with good pointers, all of which its wrapper walks,
\* fails with EFAULT only if the compressor closed its pages before every
\* attempt (retryWithDecompress).
NoSpuriousFault ==
  /\ unit = "Every" => Every!NoSpuriousFault
  /\ unit = "Pair" => Pair!NoSpuriousFault

\* An index and an address of a tracked mapping name each other; and, where
\* nothing is mapped over a mapping, a worker never reads or gives back a page
\* that was unmapped, and a mapped page holds what was last written there, in
\* memory or under the index its address now has, unless its munmap failed
\* (trackExternalPage, untrackExternalPageLocked, the munmap wrapper).
MappingsIntact ==
  /\ unit = "Mapped" => Mapped!IndexAndAddressAgree
  /\ unit = "Remapped" => Remapped!IndexAndAddressAgree
  /\ unit = "Mapped" => Mapped!MappingsIntact

\* An access to a page smash has closed ends the process only where a handler
\* that does not chain has replaced smash's and no tick has taken the place
\* back; no handler is its own predecessor, but for one of two signals that are
\* taken back together; and a callback that keeps faulting ends at the depth
\* limit where no handler chains back (fault_handler.h).
FaultsHandled ==
  /\ unit = "Signals1" =>
       Signals1!HandlersSound /\ Signals1!SmashFaultFatalWhenDisplaced
  /\ unit = "Signals2" =>
       Signals2!HandlersSound /\ Signals2!SmashFaultFatalWhenDisplaced
  /\ unit = "Signals3" =>
       Signals3!HandlersSound /\ Signals3!SmashFaultFatalWhenDisplaced
  /\ unit = "Signals4" =>
       Signals4!HandlersSound /\ Signals4!SmashFaultFatalWhenDisplaced
  /\ unit = "Signals5" =>
       Signals5!HandlersSound /\ Signals5!SmashFaultFatalWhenDisplaced

\* A page is tried only after the floor of ticks without an observed access,
\* but for two exceptions that ColdPolicy names, and a bucket that thrashed
\* stays biased (phase1Range, phase2Range, handleFault).
AttemptsSpaced ==
  /\ [](unit = "SoftCold" => SoftCold!BiasSticks)
  /\ [][unit = "SoftCold" => SoftCold!SpacedStep]_vars
  /\ [](unit = "FaultCold" => FaultCold!BiasSticks)
  /\ [][unit = "FaultCold" => FaultCold!SpacedStep]_vars

\* At the kernel's limit on mappings, whatever restoreRange opens or gives up
\* on, a page whose memory is gone keeps its blob and is closed, and no blob
\* that a store may have outdated is kept (handleFault, restoreRange, the
\* reclaim budget).
CapRestoreSound ==
  /\ unit = "Crowded" => Crowded!CapRestoreSound
  /\ unit = "Contended" => Contended!CapRestoreSound

\* The profile under its name is complete and no bucket of it rests on fewer
\* samples than some finished save left, whatever processes save, crash or
\* start in between (saveProfileFile), on a disk with room and, where there are
\* two of them, with a lock file that opens.
SavesAccumulate ==
  /\ unit = "Saves" => Saves!SavesAccumulate
  /\ unit = "Alone" => Alone!SavesAccumulate

\* The worker count that the tick dispatches with is backed by threads, under
\* the cap, and meets the measured arrival rate unless a limit stops it
\* (adaptWorkerCount).
ScalingSound ==
  /\ unit = "Adapt" => Adapt!ScalingSound
=============================================================================
