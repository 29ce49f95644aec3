# smash in TLA+

smash is a `malloc` that compresses the pages an application has not touched for
a while, closes them with `mprotect`, drops their backing, and brings them back
from a SIGSEGV handler. This directory models its parts in TLA+: the life of a
page between compressor, fault handler, allocator and application; the
compressor's threads; the allocators; the stores; and what surrounds them, such as
wrapped system calls, signal handlers and the kernel's limit on mappings. TLC
checks small instances of all of them. TLAPS proves the main results about pages,
the compressor's threads, tracked mappings, the profile file and the wrapped
system calls for any number of pages, threads, helpers, addresses, processes
and values.

Paths below are relative to `src/src/`. `C` stands for
`compress/compressor_thread.h`.

## The system and its modules

| Part | Source | Module |
|---|---|---|
| Page life cycle | `C`, `vm/page_state.h`, `vm/platform_mem.h` | `PageLifecycle`, over the abstract `FlatMemory` |
| Restores at the limit on mappings | `C` (`restoreRange`, `restoreNearCap`, `restoreWholeVma`) | `NearCap` |
| Tick dispatch, fork, stop | `C`, `util/waker.h` | `TickDispatch` |
| Worker count | `C` (`adaptWorkerCount`) | `WorkerScaling` |
| Cold-page policy | `C` (`phase1Range`, `phase2Range`), `compress/compression_roi.h` | `ColdPolicy` |
| Blob tiers and stores | `compress/compress_store.h`, `compress/spill_store.h`, `C` | `BlobStores` |
| Dictionaries | `compress/compress_engine.h`, `C` | `Dictionaries` |
| Profile file | `C` (`loadProfileFile`, `saveProfileFile`) | `ProfileFile` |
| Fault handler | `vm/fault_handler.h` | `FaultChain` |
| Arena | `vm/vm_region.h` | `VmRegion` |
| Tracked external mappings | `vm/vm_region.h`, the `mmap` wrappers | `ExternalPages` |
| System call wrappers | `linux_syscall_wrappers.cpp`, `vm/syscall_compat.h`, `smash_heap.cpp` | `SyscallTable`, `Syscalls` |
| Slabs and spans | `core/slab.h`, `core/span.h` | `SlabHeap` |
| Large blocks | `core/large_alloc.h`, `core/span.h` | `LargeBlocks` |
| Bootstrap allocator | `core/bootstrap_alloc.h` | `Bootstrap` |
| Size arithmetic | `core/size_classes.h`, `core/span.h`, `core/large_alloc.h` | `SizeMath` |
| Heap front end | `smash_heap.h` | `HeapFront` |
| Thread states and caches | `smash_heap.h`, `core/thread_cache.h` | `ThreadStates` |
| Call-site arenas | `smash_heap.h` | `CallSites` |
| Compress-only library | `compress_only/` | `MeasureOnly` |

How the parts meet: an application thread loads and stores without any lock. The
compressor's workers look at pages under a per-page spinlock, one page at a
time. A worker may close a page (`PROT_READ`, `PROT_NONE`), copy it, store a
blob and drop the backing. An access that the hardware refuses enters
`handleFault`, which takes the page lock and repairs the page according to its
state; a COMPRESSED page also restores up to two neighbours. `free` of a span's
last slot releases blobs and makes the pages EMPTY. `stop()` ends the threads,
walks all pages to make them plain memory, and removes the handler.

There are two modes. *Deferred* (the default) keeps a compressed page writable
as COMPRESSED_SHADOW and verifies, closes and drops it in a later tick's Phase
B. *Standard* (`SMASH_DEFERRED_RECLAIM=0`) makes the page read-only for the
snapshot, marks it COMPRESSED, and a sweep closes and drops it later. Both are
modelled, with the defaults of the other switches (`FixAv` order, chunked
Phase 2, deferred madvise).

What is hard about it:

- The application's stores race the snapshot; nothing but page protection and a
  second comparison orders them.
- The lock is dropped around `mprotect` in `compressPage` (standard mode) and
  `flushPhase3Run`, and the state is looked at again afterwards, or not.
- `mprotect` fails at the kernel's limit of mappings, in the middle of
  everything; some results are not looked at.
- A span may be retired and reused while a worker is busy with one of its pages.
- The dispatch barrier uses plain variables that parked helpers read late.
- `fork()` and `stop()` arrive at any time, and `fork()` waits only 50 ms.
- Free lists, descriptors, indices and dictionaries are found again through
  tables that another thread changes without the lock of the page.

`PROJECT.json` lists these hazards with their lines and the properties that
cover them, and the lines every definition translates.

## What the modules model

**`FlatMemory`** is the abstract specification: slots that can be allocated,
freed and accessed, and that keep the last value stored. A store has two steps,
issued and completed, and contents change only when a store that a thread has
issued completes, or by a free; so a stale blob that puts an old value back is
not a behaviour of `FlatMemory`. It knows nothing of pages being closed or
compressed.

**`PageLifecycle`** is one span.

- Pages: `state` (PageStateTable), `lock`, `prot`, `phys` (backing), `blob`
  (what `compressed_[i]` decodes to), `pending` (`deferred_pending_`).
- Allocator: `live` (slots handed out), `span`. `mem` is a history variable, the
  last value the application stored in each slot.
- Workers: `wpc[p]` and `buf[p]`, where the worker of page `p` is and its
  snapshot. The code assigns each page to one worker in a tick, and a worker
  deals with a page at a time, so a worker per page allows every interleaving
  of the code and more.
- Threads: `tpc`, `acc` (the load or store being executed), `todo` (pages still
  to prefetch or to release).
- `life`, `drained`, `crashed`: shutdown, and the process having died.

An action ends where another actor can see a difference: at a lock or unlock, a
change of protection, a copy, an access. So `compressPage` is
`StartCompress`, then `RejectCompress` or `PrepareSnapshot`, in standard mode
`ArmReadOnly` and `Relock` (the unlocked window), `Snapshot`, `VerifyFails` or
`VerifyPasses`, and `GateFails` (with `CopyBack`) or `CommitBlob`. `handleFault`
is `LockForFault` and one action per case; the COMPRESSED case is
`FaultCompressed` (bytes go in), `FinishRestore` (the page opens),
`PrefetchPage`, `SkipPrefetch` and `ResumeAccess`. Phase B is `StartReclaim`,
then `PostponeReclaim`, `DiscardShadow`, or `ConfirmShadow` and `DropBacking`.
Contents are abstract: a page is a function from slots to values, and a blob is
the contents it decodes to, with the free slots zeroed as `zeroFreeSlots` does.
Which page is chosen when is left open, so any policy is covered. A copy of a
page is one step; the verify that follows it compares again, which is what makes
a copy torn by a store detectable in the code.

**`TickDispatch`** is the coordinator, the helpers, a forking and a stopping
thread. A phase is a time during which a thread is at `run`; what it does to
pages is `PageLifecycle`'s matter. `Dispatch`, `RunOwnRange`, `AwaitHelpers` are
`dispatch`; `HelperSees`, `HelperDecides`, `HelperRuns`, `HelperAcks` are one
round of `helperEntry`, which reads `active_workers_` and `current_phase_` only
in `HelperDecides`. After `fork()` the model follows the parent or the child.
`JoinedMeansQuiet` joins the two models: `PageLifecycle` starts its drain when no
worker is in flight, and `TickDispatch` shows that `stop()` reaches its drain
only then.

The other modules, by their state and what a step of each is:

- **`NearCap`**: the protections of a few pages, the number of mappings they
  make, and a limit. A thread's fault tries to open its page, then the run
  around it, then the whole mapping, one `mprotect` at a time; the compressor
  measures how near the limit is and budgets its reclaims.
- **`WorkerScaling`**: the fixed-point averages of arrivals and service with
  their width, the cap from the machine's load, and the worker count of the
  next tick.
- **`ColdPolicy`**: the byte counters of a page (`cold_count_`,
  `compress_fail_count_`, `recompress_count_`), its bucket's moving average, and
  the floor computed from them. A tick is phase 1, Phase B for shadows, and phase 2
  with a budget of mappings, or it defers the last two. It visits pages one by one
  while faults, prefetches and the allocator write the same bytes; an increment of
  phase 1 is a load and a store.
- **`BlobStores`**: free lists and bump pointers of the anonymous and the spill
  store, the tier of a page's blob, and a worker between its unlock of a page
  and its store operation. `ensureSpillReady` reads and sets its flag in steps of
  their own. A forked child copies its spilled blobs while the parent runs on.
- **`Dictionaries`**: sample buffers and dictionary per size class, the class
  the page map gives for a page now, and the class its blob was written with.
- **`ProfileFile`**: the file under its name, the temporary files, the flock, and
  processes that load, collect, merge, write, rename and may die anywhere.
- **`FaultChain`**: the installed handler of each signal, what smash remembers as
  its predecessor, a stack of handler frames per thread, the tick that takes
  signals back, and `stop()`.
- **`VmRegion`**: who has each page of the arena (a caller, the decommit queue,
  the decommit thread, a free run, nobody yet), whether it is open and has memory
  behind it, the bump index and the commit watermark. Every commit may fail.
- **`ExternalPages`**: the hash from address to index, the reverse table, page
  locks, a worker, and threads inside `mmap`, `munmap` (which the kernel may
  refuse) and `mremap`. Each atomic access of `trackExternalPage` is a step.
- **`SyscallTable`** and **`Syscalls`**: for each interposed function what the
  kernel reads and writes and what the wrapper walks, warms and retries; then one
  call as a sequence of resolution, raw call, walk and retry against a compressor
  that closes pages.
- **`SlabHeap`**: spans with bitmaps, the lists they are on, thread caches, the
  stack of deferred frees with its depth counter, magazines, resident empty
  spans.
- **`LargeBlocks`**: blocks, their Span descriptors, the lock-free stack of
  descriptors (each load and compare-exchange is a step), and the cache, whose
  blocks are reopened by a commit that may fail.
- **`Bootstrap`**: regions, offsets, the commit watermark, `owns()`.
- **`SizeMath`**: the size classes, the reciprocal division, the buckets of the
  large cache, widening and `setRange`, next to their plain definitions. The
  64-bit product of `slotOf` and its shift by 40 are computed in digits of ten
  bits, since TLC's integers have 32.
- **`HeapFront`**: where a block came from, what was asked and what it reports;
  every entry point in every mode.
- **`ThreadStates`**: a thread's state, cache, lean entry (`g_fast_tc`) and
  destructor round, the pools they come from, fork.
- **`CallSites`**: the image table, the shared hash cache, whose entries are written
  by two plain stores, the memo per thread, and images that come and go.
- **`MeasureOnly`**: the page table of the compress-only library with its weak
  exchange, the state of `dlsym`, the static buffer.

## Runs

Components that do not interact in the code are checked in one TLC run: a
behaviour of **`MCHeap`**, **`MCServices`** or **`MCLive`** picks an instance of one
component, by `unit`, and is a behaviour of that instance, whose variables are
`x1, x2, ...`. The state space is the sum of the instances', and each property
of the run says for which instances it holds. **`MCPageLifecycle`** lets a
behaviour of `PageLifecycle` choose between deferred and standard mode, and adds
thread symmetry.

| Run | Instances and bounds | Checks |
|---|---|---|
| `pages` | 1 page, 2 slots, 2 threads, 3 values; deferred mode with pages that may not compress, and standard mode | no load is stale, no store lost, no fault fatal, only closed pages are decommitted, COMPRESSED pages are closed to stores and none is forgotten by the sweep, and refinement of `FlatMemory` |
| `vma_cap` | 2 pages, 1 slot, 1 thread, 2 values | every `mprotect` and `mmap` may fail, pages may not be storable, `/proc/self/mem` is missing, `stop()` may come: locks and blobs are given back, and no compressed page is left resident and unqueued |
| `progress_span` | 2 pages, 1 slot, 1 thread, 2 values, deferred mode, fair | the handler never meets a COMPRESSING page, and an access completes once the compressor leaves the pages alone |
| `heap` | 23 instances in `MCHeap` | one property per allocator component, from `PagesInOnePlace` to `MeasureSound` |
| `services` | 17 instances in `MCServices` | dispatch, joins and forks of `TickDispatch`; system calls, tracked mappings, signal handlers, the limit on mappings, the profile, the policy and the worker count |
| `live` | 14 instances in `MCLive`, fair | the application's calls end and the compressor's work gets done |
| `v_*` | as small as shows the case | one counterexample each, see Findings |

Why the bounds of the page runs are enough to be interesting: the protocol is per
page, and a second page matters only for prefetch and retirement, which
`progress_span` has and the theorems cover for any number of pages; two slots let a
store hit a slot other than the one being watched, and let a free slot be zeroed
beside a live one; two threads let a fault race another access and a free; three
values distinguish a fresh page, an old value and a new one. For dispatch, two
helpers and a count from one to three contain a parked helper that becomes active
and one that stays parked; eight generations are two full ticks, so that state
left by the first meets the second. Of the instances in `MCHeap` and `MCServices`,
each component that is shared has one with two threads, workers or processes;
others of its instances may have one, for a larger table or another regime
(magazines, resident spans, tiers). The tables are so small that they fill, and at
least one resource runs out. A component with several regimes (magazines or not,
thread-specific data or `thread_local`, signal handlers or the Mach listener) has
an instance for each. `HeapFront` has one thread: it keeps no shared state of its
own.

**What a passing property leaves out.** Most cases in which the code falls short of
its intention are in the instances, and the property says what then still holds:

| Property | The case that is in the instance | What holds of it |
|---|---|---|
| `RunsStayClean`, `LargeBlocksSound` | a commit whose failure is ignored (`vm/vm_region.h:186`, `core/large_alloc.h:336`) | only a run or block whose opening was asked for and refused is recycled closed |
| `BlobsIntact` | two workers in the set-up of the spill file (C:3951-3953); a child whose parent releases a spilled blob first (C:1031-1039), or that has no room (C:1056-1059) | nothing else loses or changes a blob |
| `SiteKeepsArena` | two threads on one entry of the hash cache (`smash_heap.h:674-675`); an address that was code of two images | the hash is that of some address of the slot, or of the address in one of its images |
| `MeasureSound` | spurious failures of the weak exchange (`compress_only/co_interpose_linux.cpp:57`) | a page is counted once more for each, and not oftener |
| `FaultsHandled` | a handler in smash's place that does not chain; `stop()`; a signal that was passed on; two signals taken back together | an access to a closed page is fatal in these cases only |
| `DispatchSound`, `ForkOutsideTick` | helpers created or put to use between dispatches; a wait of `pauseForFork` that times out | helpers that a dispatch counts are in it; a fork that did not give up is outside the tick |
| `MappingsIntact` | a `munmap` that the kernel refuses | no other page loses its data |
| `AttemptsSpaced` | an increment of phase 1 stored over a reset; an access that no counter shows yet | every other attempt keeps its distance |
| `CompressedIsReclaimed` | `mprotect` failing (`vma_cap`, without `/proc/self/mem`) | every compressed page is reclaimed or queued |

These instances are bounded so as to leave a case out in which the property fails:

- `VmRegion` and `LargeBlocks`: `PagesInOnePlace` holds where no request is longer
  than two others together, and `DescriptorsExclusive` where fewer than three large
  blocks exist at a time. Beyond are the runs `v_bump` and `v_descriptor`.
- `pages`: `/proc/self/mem` can be written, `mprotect` succeeds, `stop()` is not
  called, and standard mode meets no page it cannot store. Beyond are `v_copyback`,
  `v_decommit` and `v_drain_data`, and the restore that opens a page before its bytes
  are in (C:3291). `progress_span` is in deferred mode.
- `CapLive` of `NearCap`, `SteadyLive` of `TickDispatch` (no `stop()`, helpers can be
  created), `Mapped` of `ExternalPages` (no mapping over a mapping), `Saves` of
  `ProfileFile` (the lock file opens and the disk has room): see "Further
  disagreements".
- `BlobStores` forks while no worker is in the middle of an operation, which is what
  `pauseForFork` waits for, up to its 50 ms.
- `ColdPolicy` has the back-off on, which is the default. With
  `SMASH_RECOMPRESS_BACKOFF=0` and a floor below `kRcDecayColdTicks` the count of
  recompressions is not held down, and the 16-bit sample of C:6005 can wrap.

Deadlock is checked in the page runs except `vma_cap`, where the process may die
of a fault. In `heap`, `services` and `live` it is not:
their instances end when the bounded number of allocations, calls or saves is
used up, or with the process.

**Fairness.** In `PageLifecycle`: threads run (weak fairness of accesses and of
entering the handler); a spinlock that is free again and again is taken in the
end (strong fairness of the handler's steps and of a worker inside an
operation). Workers need not start anything. The code's spinlock is not a fair
lock; strong fairness says that a spinning thread wins once in a while, which the
pauses between a worker's visits justify. `AccessCompletes` assumes
that the compressor leaves the pages alone from some point on: a page that is
closed again before each retry can hold up an access, and the code excludes that
by time (`cold_count_` starts at 0 again). In `MCLive`: threads inside a call, the
tick, the helpers and the decommit thread run (weak fairness). Strong fairness is
given to a lock that is asked for again and again, to a worker's visit of a page
whose lock is free again and again, and to a thread in `pauseForFork`, which
looks every millisecond and so sees an `in_tick_` that is clear for the second
between two ticks. In `ColdLive` it says that ticks are not deferred for ever, that
there are mappings to spare now and then, and that `compressPage`, whose return
estimate is a free choice, does not decline a page every time; that an idle page is
tried is then a question of the counters and the floor alone.

## Findings

Each of these has a run that TLC ends with a counterexample.

| Run | What |
|---|---|
| `v_drain_data` | The shutdown drain writes the blob over a COMPRESSED_SHADOW page, which the application may have written to since (C:5496). |
| `v_copyback` | Standard mode opens a page it could not store before it copies the snapshot back, so that a store in between is undone (C:2320). |
| `v_decommit` | Phase B ignores a failed `mprotect(PROT_NONE)` and drops a readable page (C:3039). |
| `v_stop_hang` | `stop()` during a dispatch: a helper exits without acknowledging, the coordinator spins for ever, the join does not return (C:2891). |
| `v_bump` | Two requests that overrun the arena take their bumps of `next_page_` back one after the other; a small request in between gets pages above the pointer, and the next bump hands them out again (`vm/vm_region.h:523-525`). Two threads suffice. |
| `v_descriptor` | A pop of the descriptor stack is overtaken by two pops and a push of the same head, and its compare-and-swap succeeds all the same: the head is now a descriptor in use, which the next pop clears under its block (`core/span.h:460-468`). Two threads and three large blocks suffice. |

### Further disagreements

These show when a property is checked with other constants than the runs have.
The first two are about configurations, and the theorems below carry the
hypothesis that excludes them:

- `CompressingIsLocked` fails with `Deferred = FALSE`: standard mode unlocks a
  COMPRESSING page for its `mprotect` (C:2107), so the case of `handleFault` that
  the comment at C:6037 calls unreachable can be reached. In deferred mode the
  comment is right, and proved.
- `MappingsIntact` fails with `MayRemap = TRUE`: `mremap` and `MAP_FIXED` replace a
  mapping before its page is untracked, so the locked untracking that
  `vm/vm_region.h:782-791` describes comes too late for the worker.

These are exceptions that the properties state, against a comment in the code:

- "Helpers park here between dispatches" (C:1077): a parked helper that is slow to
  wake reads an `active_workers_` that `adaptWorkerCount` has raised since, and
  executes the phase it finds, outside a dispatch (C:4774-4789). So does a helper
  created after the first dispatch, whose `last_gen` is 0; `start()` creates all it
  can, so that is the exception. Page locks keep the data safe.
- "The child never inherits a half-done tick" (C:968): `pauseForFork` gives up after
  50 ms (C:984).
- "Safe - pages are decommitted and PROT_RW" (`vm/vm_region.h:191`): not when
  `commitPages` failed.
- "Collisions just cause re-lookup" (`smash_heap.h:530`): a key can stand with the
  hash of another address, and is then served from the cache. Nor is anything
  forgotten at `dlclose`.
- "Any state transition out of COMPRESSED clears the bit FIRST" (C:394):
  `prefetchAdjacent` leaves the pending bit set. It is harmless, since the sweep
  looks at the state again (`CompressedIsReclaimed`).
- A restore through `/proc/self/mem` whose `mprotect` fails at the limit on mappings
  leaves a COMPRESSED page resident, and nothing queues it again. This is the
  exception in `CompressedIsReclaimed`.
- `munmap` untracks its pages before the kernel has unmapped them
  (`linux_syscall_wrappers.cpp:1240-1241`). When the kernel refuses, a compressed
  page is mapped, closed and out of reach.
- `fault_handler.h`: `shutting_down_` stays set after a signal that was passed on,
  also if the process survives, and the handler is not taken back from then on
  (267-273, 533). Where two signals are taken back together, smash's own handler is
  saved as the predecessor of one of them (542-558). A thread in the handler when
  `stop()` takes the instance away dies of its fault. A handler that chains back to
  smash's recurses on a fault that neither handles, as the note at 235-239 says; the
  depth limit is checked where none chains back.
- `realloc` of a block of the static buffer hands it to the C library's `realloc`
  (`compress_only/co_interpose_linux.cpp:138-140`), which aborts; the model ends
  there.

The others:

- `StoppedMeansPlain` fails with the constants of `v_drain_data`, against the comment
  at C:5460: `flushPhase3Run` can protect a page that is ACTIVE again; the drain
  skips it (C:5508), and it is still protected when the handler is gone.
- `TickEnds` fails with `CreateFails = TRUE`: with no helper created
  `active_workers_` is still 2 (C:5282), and the dispatch waits for ever. With
  `MayStop = TRUE` it fails as in `v_stop_hang`.
- `NearCap`: the comment at C:3328-3330 says that changing a whole mapping
  succeeds at the limit. The restore gives up when the mapping has more pages
  than there are fault slots, and when it reaches into EMPTY pages (C:3522), and
  then the access faults for ever. `CapLive` has slots for all its pages and no
  EMPTY ones.
- `BlobStores`: in a build without the deep tier phase 2 accepts `kTierFast` as
  terminal (C:1444-1446), but `maybeSpillPage` checks again and refuses it
  (C:4040-4041), so that nothing is spilled.
- `ProfileFile`: "the empty-heap parent can never wipe real data" (C:5066) does not
  hold when the disk is full: no result of the writes is looked at and the short
  file is renamed over the profile (C:5103-5132). Nor does it when two processes
  cannot open the lock file (C:5069-5070).
- `Syscalls`: a wrapper that runs while another thread is inside `dlsym` makes the
  raw call without a retry; the comment at `linux_syscall_wrappers.cpp:53-55` says
  that no page is compressed then, which is true of the start only.
- `WorkerScaling`: the cap computed for a loaded machine is not the
  "(nproc - 1)" of the comment at C:4612.

## Proofs

Eight modules. All theorems are for any sets of pages, slots, threads, values,
addresses, processes and wrappers and any number of helpers, generations, forks
and retries.

### Pages: `PageLifecycleProofs`

No assumption beyond those on the constants (the special values differ from
ordinary ones, the switches are Boolean): both modes, every call failing,
shutdown. First comes the structural invariant with one lemma per conjunct and
kind of actor (application, handler, `compressPage`, the rest), then the theorems.

- `Structure`: `StructInv` is inductive. The properties of interest,
  `NoLockLeak` and `BlobMatchesState`, are not: that a lock is given back
  depends on the owner's position (`LockInv`), on threads' accesses
  (`ThreadInv`), and, for pages being restored or released, on states
  (`StateInv`) and on the span's service (`SpanInv`). Their conjunction with
  `TypeOK` is.
- `TypeCorrect`, `LocksGivenBack`, `BlobsMatchStates` follow.
- `CompressingUnreachable`: in deferred mode the comment at C:6037 is right.

### How far pages are open: `PageProtProofs`

- `Ownership`, without assumption: data is in allocated slots of a span in
  service, and so is what threads access (`OwnerInv`).
- `DecommitsAreClosed` and `BlobsStayCurrent` need only that `mprotect` succeeds
  (`~VmaCap`), and hold in both modes, without `/proc/self/mem`, with pages that
  cannot be stored and during the drain. `DecommitOnlyClosed` speaks of a page
  about to be dropped and `CompressedNeverWritable` of a COMPRESSED one whose
  lock is free; `ClosedInv` adds what leads there: a page between `ArmReadOnly`
  and `Relock` is read-only as long as it is still COMPRESSING, and a page whose
  snapshot is being verified has not been opened. `v_decommit` is what happens
  at the limit on mappings.
- `FaultsSurvived` needs also that the process is not shutting down. That no
  handler meets an EMPTY page follows from `Ownership`; that no worker faults on
  a page it has locked, from `ClosedInv`.
- `NothingForgotten` (`CompressedIsReclaimed`), without assumption: both modes, any
  number of neighbours, the drain, and every call failing. `QueuedInv` extends the
  property to a page that a thread in the handler has locked and not yet touched,
  and adds that the drain opens a page before it can fail.

### Data: `PageDataProofs`

Assumes `Benign`: `mprotect` succeeds, `/proc/self/mem` can be written, `stop()`
is not called, and standard mode meets no page it cannot store. Each part is
needed: the data findings above are what happens without it (the restore that
falls back from `/proc/self/mem` opens the page before the bytes are in). The
inductive invariant adds `DataInv`:

- `OwnerInv`, from above;
- `ProtInv`: how far a page is open at each state and each step, locked or not;
- `Placed`: the backing holds the application's data unless the page is
  COMPRESSED and closed, the blob does when it is COMPRESSED, and the standard
  mode's snapshot does when it is about to become the blob;
- `Restoring`: a page about to be opened has its blob's contents;
- `QuietInv`: the steps that `Benign` rules out do not happen.

A shadow's blob is in none of these: it may be stale, and Phase B compares it
under `PROT_READ` before it counts. From `DataInv` follow `LoadsAreFresh`,
`NoStoreIsLost` and `FaultsAreRepaired`. `ImplementsFlatMemory` is the
refinement: `DataInv` gives `Recovered = mem` (`RecoveredIsMem`), and only
allocation, free and the two ends of an access change `live`, `mem` and `acc`
(`ApplicationSteps`).

### The limit on mappings: `NearCapProofs`

Assumes `Sized`: the limit, the margin, the budgets and the number of fault slots
are counts, there is a page, and the set of threads is finite.

- `CapRestores` (`CapRestoreSound`) holds wherever the limit lies and whichever
  `mprotect` it refuses. `CapRestoreSound` speaks of pages whose lock is free;
  while a range is opened page after page and finalized afterwards, that the two
  agree again at the end depends on who holds what. So `CapInv` adds: the state,
  the protection, the blob and the memory of a page agree, locked or not
  (`PageInv`); a COMPRESSED page is open only to the thread that is about to
  finalize it (`OpenInv`); a thread has locked its page and its range and nothing
  else, and what it is about to finalize is open (`ThreadInv`); and a thread past
  `acquireFaultSlot` with a page to restore holds one of the slots (`SlotInv`).
  The slots are counted with the cardinality of a set of threads, hence the
  finiteness.

### Dispatch: `TickDispatchProofs`

Assumes `Sized`, what `config.h` and the clamp of `adaptWorkerCount` guarantee of
the sizes.

- `TickTyped`, `SharesDone` and `StopLeavesNobody` (`TypeOK`, `EveryShareDone`,
  `JoinedMeansQuiet`) hold with the count changing at will, threads that cannot
  be created, forks that do not wait, and `stop()`. `TickInv` adds that a helper
  exists exactly below `created` (`PoolInv`), that a helper that is not busy has
  acknowledged the last generation it saw, and that a helper counted in the
  dispatch which has seen its generation is about to run it or has
  (`AckInv`), and that a tick has room for its generations (`GenRoom`, which is
  about the model's bound).
- `PhasesApart` (`PhaseBarrier`) and `ForksBetweenTicks` (`ForkOutsideTick`) hold under
  the same assumption, with the pool resized at will. `CountInv` says that a helper
  owes an acknowledgement only for the generation being dispatched, and only if
  that dispatch counted it; `counted` records the last generation whose dispatch
  did. `ForkInv` is the handshake of `paused_` and `in_tick_`.

### Tracked mappings: `ExternalPagesProofs`

Assume `Named`, that the special names differ from ordinary ones.

- `AddressesHaveIndices` (`IndexAndAddressAgree`) holds with `mremap` and
  `MAP_FIXED`. The invariant `IndexInv` says that an address is one thread's
  business at a time (`ThreadInv`, which is what the kernel's `mmap` guarantees),
  that a slot has one user (`SlotInv`), that the two tables name each other but
  for an entry being made (`TableInv`), and that a slot in use has an address
  (`StateInv`).
- `MappingsKept` (`MappingsIntact`) needs that the application neither mremaps a
  mapping nor maps over one.
  `MapInv` says that what is tracked is mapped, `DataInv` where the data of a
  mapped page is, in memory or under its index, also halfway through a
  compression, and `RefusedInv` that a page the kernel refused to unmap has no
  index and gets none. Without the hypothesis it is false (see above).

### The profile file: `ProfileFileProofs`

Assumes `Sized`: there is a worker, workers are numbered, the window is a count,
and no file is mistaken for a missing one.

- `ProfileTyped` (`TypeOK`) holds with a lock file that cannot be opened, a full
  disk, and processes that die at any step.
- `SavesKept` (`SavesAccumulate`) needs `Reliable`: the lock can be taken and the
  disk is not full. Without either it is false (see above). What the file holds
  depends on what the saving process read before; so `ProfileInv` adds that at
  most one process is between its lock and its unlock (`LockInv`), that what it
  is about to write has at least the samples it collected and, once merged,
  those of every finished save (`MineInv`), and that a readable file under the
  name is complete (`PathInv`). That `Collected` has a value at all, a worker
  with the most samples who is the first to have them, is `SpeakerExists`.

### System calls: `SyscallsProofs`

The theorems are about any table of wrappers with `Sized` (at least one attempt;
the switches of a wrapper are Boolean) and `Fits`: a wrapper that covers its
arguments reads its vector at each walk, and one without a retry touches
beforehand what the kernel reads. TLC evaluates `Fits` on the repository's wrappers
at each run of `services`.

- `SyscallsTyped` (`TypeOK`).
- `FaultsAreOutruns` (`NoSpuriousFault`): a covered call that ends with EFAULT has
  been outrun, once per attempt. The invariant, one formula per thread, keeps an
  account (`Paid`): each attempt but the last has been paid for by a page that the
  compressor closed, and the last one too unless the pages are open.

### Layout, and what is only model-checked

A step lemma has one step per action; actions that leave a conjunct's variables
alone share one. Where an action of `ExternalPages` has several outcomes the
proof splits it into named branches first (`Branches`). A step in
`ExternalPagesProofs` and `NearCapProofs` first says what the action does to the
variables at hand and then, in a leaf of its own, why the conjunct still holds;
steps that leave a conjunct alone go through one lemma (`FreshFrame`, `MapFrame`,
`DataFrame`, `RefusedFrame`, `QuietFrame`, `CountFrame`). The lemmas are divided
over modules by subject because the time a proof takes grows with the number of
steps in its module.

Only model-checked:

- liveness (`AccessCompletes`, `CallsEnd`, `BackgroundWorks`), which needs fairness
  and `ENABLED`;
- that the mappings stay below the limit (`TypeOK` of `NearCap`), which rests on
  how many mappings a run of `mprotect` calls can add, a count over the pages'
  protections;
- the other components of `heap` and `services`. Those that fold over
  sequences and free lists (`SlabHeap`, `BlobStores`) need induction over data,
  which is out of the prover's reach; `SizeMath` is defined by recursion; the
  rest has no proof yet;
- `VmRegion` and `LargeBlocks`, whose invariants are false beyond the bounds of
  their instances, and the other cases of the findings.

## Not modelled

- Codecs (`compress_engine.h`, `wkdm.h`): functions on 4 KiB of bytes.
- The return estimate of `compression_roi.h` in floating point: `ColdPolicy`
  leaves it a free choice that can only refuse.
- The Windows branches, and the debugging modes of the arena.
- Alignment above a page and `lockAll` for fork in `LargeAlloc`.
- Weak memory: a store is visible at once. The code's barriers
  (`membarrierSyncCore`, `SMASH_PROT_READ_BARRIER`) are about stores that retire
  late, which would need a model of store buffers.
- Statistics, logging, formatting, and the forwarding shims.
