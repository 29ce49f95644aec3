------------------------------- MODULE MCHeap -------------------------------
(***************************************************************************)
(* The heap and the stores, on instances small enough for TLC.             *)
(* A behaviour picks one instance, in unit, and is a behaviour of that     *)
(* instance: its variables are x1, x2, ... in the order in which the       *)
(* component declares them, and those left over stay 0.  The number of     *)
(* states is the sum over the instances.                                   *)
(***************************************************************************)
EXTENDS Naturals

CONSTANTS None, Node, a1, a2, b1, b2, b3, c1, c2, c3, d1, d2, d3, i1, i2, p1,
          p2, r1, r2, s1, s2, t1, t2, w1, w2

VARIABLES unit, x1, x2, x3, x4, x5, x6, x7, x8, x9, x10, x11, x12, x13, x14,
          x15, x16, x17, x18, x19, x20, x21, x22, x23, x24, x25, x26, x27

vars == <<unit, x1, x2, x3, x4, x5, x6, x7, x8, x9, x10, x11, x12, x13, x14,
          x15, x16, x17, x18, x19, x20, x21, x22, x23, x24, x25, x26, x27>>

-----------------------------------------------------------------------------
(* The instances, by component                                             *)

\* VmRegion: runs of different lengths, a decommit thread that may fail, fork.
Runs == INSTANCE VmRegion WITH Threads <- {t1, t2}, Contig <- 3,
  Sizes <- {1, 2}, Chunk <- 0, CreateFails <- TRUE, CommitFails <- TRUE,
  MayFork <- TRUE, MaxAllocs <- 2,
  next <- x1, committed <- x2, committer <- x3, free <- x4, queue <- x5,
  running <- x6, drainer <- x7, batch <- x8, pc <- x9, n <- x10, start <- x11,
  left <- x12, page <- x13, owned <- x14, lost <- x15, refused <- x16,
  allocs <- x17

\* VmRegion: the watermark moves in chunks.
Chunks == INSTANCE VmRegion WITH Threads <- {t1, t2}, Contig <- 5,
  Sizes <- {2}, Chunk <- 3, CreateFails <- TRUE, CommitFails <- TRUE,
  MayFork <- FALSE, MaxAllocs <- 3,
  next <- x1, committed <- x2, committer <- x3, free <- x4, queue <- x5,
  running <- x6, drainer <- x7, batch <- x8, pc <- x9, n <- x10, start <- x11,
  left <- x12, page <- x13, owned <- x14, lost <- x15, refused <- x16,
  allocs <- x17

\* Bootstrap.
Boot == INSTANCE Bootstrap WITH Threads <- {t1, t2}, Sizes <- {1, 3},
  Align <- 2, PageBytes <- 2, InitialSize <- 4, ExpandSize <- 4,
  MaxRegions <- 3, Bases <- {0, 10, 20}, ReserveFails <- TRUE,
  MayFork <- TRUE, MaxAllocs <- 3,
  ready <- x1, regions <- x2, lo <- x3, hi <- x4, lock <- x5, pc <- x6,
  call <- x7, blocks <- x8, allocs <- x9

\* SlabHeap: two threads on one span.
Shared == INSTANCE SlabHeap WITH Threads <- {t1, t2}, Arenas <- {a1},
  Ranges <- {r1}, MaxSpans <- 1, Slots <- {1, 2, 3}, Cap <- 0, Depth <- 2,
  Batch <- 2, Magazine <- FALSE, MaxMagazines <- 1, NodeCap <- 1,
  MaxResident <- 1, MaxTick <- 0,
  slab <- x1, span <- x2, made <- x3, pageMap <- x4, state <- x5, kept <- x6,
  resident <- x7, tick <- x8, lock <- x9, pending <- x10, depth <- x11,
  mags <- x12, cache <- x13, live <- x14, pc <- x15, arena <- x16,
  nodes <- x17, work <- x18, got <- x19, turned <- x20

\* SlabHeap: two arenas, magazines.
Magazines == INSTANCE SlabHeap WITH Threads <- {t1}, Arenas <- {a1, a2},
  Ranges <- {r1, r2}, MaxSpans <- 2, Slots <- {1, 2}, Cap <- 0, Depth <- 2,
  Batch <- 2, Magazine <- TRUE, MaxMagazines <- 1, NodeCap <- 1,
  MaxResident <- 1, MaxTick <- 0,
  slab <- x1, span <- x2, made <- x3, pageMap <- x4, state <- x5, kept <- x6,
  resident <- x7, tick <- x8, lock <- x9, pending <- x10, depth <- x11,
  mags <- x12, cache <- x13, live <- x14, pc <- x15, arena <- x16,
  nodes <- x17, work <- x18, got <- x19, turned <- x20

\* SlabHeap: empty spans kept and given up.
Resident == INSTANCE SlabHeap WITH Threads <- {t1}, Arenas <- {a1},
  Ranges <- {r1, r2}, MaxSpans <- 2, Slots <- {1, 2}, Cap <- 1, Depth <- 1,
  Batch <- 2, Magazine <- FALSE, MaxMagazines <- 1, NodeCap <- 1,
  MaxResident <- 1, MaxTick <- 2,
  slab <- x1, span <- x2, made <- x3, pageMap <- x4, state <- x5, kept <- x6,
  resident <- x7, tick <- x8, lock <- x9, pending <- x10, depth <- x11,
  mags <- x12, cache <- x13, live <- x14, pc <- x15, arena <- x16,
  nodes <- x17, work <- x18, got <- x19, turned <- x20

\* LargeBlocks.
Large == INSTANCE LargeBlocks WITH Threads <- {t1, t2},
  Blocks <- {b1, b2, b3}, Descriptors <- {d1, d2, d3}, Sizes <- {1, 2, 3},
  MaxPages <- 2, VmPages <- 2, CacheDepth <- 1, MaxBytes <- 2,
  CommitFails <- TRUE, MaxAllocs <- 2,
  block <- x1, arena <- x2, closed <- x3, refused <- x4, fresh <- x5,
  anyCompressed <- x6, desc <- x7, used <- x8, top <- x9, nextFree <- x10,
  pageMap <- x11, bucket <- x12, age <- x13, bytes <- x14, live <- x15,
  pc <- x16, size <- x17, mem <- x18, d <- x19, seen <- x20, seenNext <- x21,
  zeroed <- x22, nowAge <- x23, tpc <- x24, tsize <- x25, victims <- x26,
  allocs <- x27

\* LargeBlocks: descriptors that two threads pop.
Popped == INSTANCE LargeBlocks WITH Threads <- {t1, t2}, Blocks <- {b1, b2},
  Descriptors <- {d1, d2, d3}, Sizes <- {3}, MaxPages <- 2, VmPages <- 2,
  CacheDepth <- 1, MaxBytes <- 2, CommitFails <- TRUE, MaxAllocs <- 3,
  block <- x1, arena <- x2, closed <- x3, refused <- x4, fresh <- x5,
  anyCompressed <- x6, desc <- x7, used <- x8, top <- x9, nextFree <- x10,
  pageMap <- x11, bucket <- x12, age <- x13, bytes <- x14, live <- x15,
  pc <- x16, size <- x17, mem <- x18, d <- x19, seen <- x20, seenNext <- x21,
  zeroed <- x22, nowAge <- x23, tpc <- x24, tsize <- x25, victims <- x26,
  allocs <- x27

\* SizeMath.
Arithmetic == INSTANCE SizeMath WITH PageSize <- 4096, MaxInput <- 16400,
  MaxPages <- 2048, MaxCap <- 4, L2Size <- 4,
  n <- x1

\* HeapFront.
Front == INSTANCE HeapFront WITH Classes <- {2, 4}, PageSize <- 8,
  Threshold <- 3, Requests <- {0, 1, 3, 4, 5, 9, 12, 16}, Blocks <- {b1},
  Null <- None,
  mode <- x1, arena <- x2, dl <- x3, resolved <- x4, cached <- x5,
  block <- x6, bad <- x7

\* ThreadStates: thread-specific data.
Keyed == INSTANCE ThreadStates WITH Threads <- {t1, t2}, States <- {s1, s2},
  Caches <- {c1, c2, c3}, Tsd <- TRUE, Rounds <- 2, MayFork <- TRUE,
  Null <- None,
  pc <- x1, ret <- x2, hooked <- x3, slot <- x4, key <- x5, round <- x6,
  ts <- x7, tsFree <- x8, tsMade <- x9, cache <- x10, fast <- x11,
  pool <- x12, tcMade <- x13, full <- x14, inits <- x15, started <- x16,
  running <- x17, forked <- x18

\* ThreadStates: thread_local.
Native == INSTANCE ThreadStates WITH Threads <- {t1, t2}, States <- {s1, s2},
  Caches <- {c1, c2, c3}, Tsd <- FALSE, Rounds <- 2, MayFork <- TRUE,
  Null <- None,
  pc <- x1, ret <- x2, hooked <- x3, slot <- x4, key <- x5, round <- x6,
  ts <- x7, tsFree <- x8, tsMade <- x9, cache <- x10, fast <- x11,
  pool <- x12, tcMade <- x13, full <- x14, inits <- x15, started <- x16,
  running <- x17, forked <- x18

\* ThreadStates: too few states.
Scarce == INSTANCE ThreadStates WITH Threads <- {t1, t2}, States <- {s1},
  Caches <- {c1, c2, c3}, Tsd <- TRUE, Rounds <- 2, MayFork <- TRUE,
  Null <- None,
  pc <- x1, ret <- x2, hooked <- x3, slot <- x4, key <- x5, round <- x6,
  ts <- x7, tsFree <- x8, tsMade <- x9, cache <- x10, fast <- x11,
  pool <- x12, tcMade <- x13, full <- x14, inits <- x15, started <- x16,
  running <- x17, forked <- x18

\* CallSites: images that are opened, two stack depths.
Images2 == INSTANCE CallSites WITH Threads <- <<t1>>, Images <- {i1, i2},
  Length <- 2, Bases <- {1, 3, 4}, Jit <- {9}, Classes <- {0, 1},
  CacheSize <- 2, MemoSize <- 2, Depths <- {0, 1}, Cpus <- {}, Arenas <- 512,
  MayUnload <- FALSE,
  loaded <- x1, table <- x2, cache <- x3, memo <- x4, pc <- x5, ra <- x6,
  sc <- x7, hash <- x8, answer <- x9, homes <- x10, raced <- x11

\* CallSites: two threads on one cache slot, an image that comes back elsewhere.
Reloads == INSTANCE CallSites WITH Threads <- <<t1, t2>>, Images <- {i1},
  Length <- 2, Bases <- {1, 2}, Jit <- {}, Classes <- {1}, CacheSize <- 1,
  MemoSize <- 1, Depths <- {0}, Cpus <- {}, Arenas <- 512, MayUnload <- TRUE,
  loaded <- x1, table <- x2, cache <- x3, memo <- x4, pc <- x5, ra <- x6,
  sc <- x7, hash <- x8, answer <- x9, homes <- x10, raced <- x11

\* CallSites: arenas by CPU.
Lanes2 == INSTANCE CallSites WITH Threads <- <<t1, t2>>, Images <- {i1},
  Length <- 2, Bases <- {1}, Jit <- {}, Classes <- {0, 1}, CacheSize <- 2,
  MemoSize <- 1, Depths <- {0}, Cpus <- {0, 1}, Arenas <- 512,
  MayUnload <- FALSE,
  loaded <- x1, table <- x2, cache <- x3, memo <- x4, pc <- x5, ra <- x6,
  sc <- x7, hash <- x8, answer <- x9, homes <- x10, raced <- x11

\* BlobStores: both stores, recompression.
Tiers2 == INSTANCE BlobStores WITH Pages <- {0, 1}, Workers <- {w1},
  Shards <- 1, Capacity <- 3, AnonRegions <- 2, SpillSlots <- 1,
  Sizes <- {1, 2}, DeepTier <- TRUE, MayFork <- FALSE, Node <- Node,
  region <- x1, chain <- x2, cell <- x3, blob <- x4, tier <- x5, ready <- x6,
  initDone <- x7, generation <- x8, raced <- x9, wild <- x10,
  spilledCount <- x11, locked <- x12, pc <- x13, page <- x14, old <- x15,
  size <- x16, forked <- x17, childBlob <- x18, childTodo <- x19, gone <- x20

\* BlobStores: two workers set up the spill file.
Spillers == INSTANCE BlobStores WITH Pages <- {0, 1}, Workers <- {w1, w2},
  Shards <- 1, Capacity <- 3, AnonRegions <- 1, SpillSlots <- 1, Sizes <- {1},
  DeepTier <- TRUE, MayFork <- FALSE, Node <- Node,
  region <- x1, chain <- x2, cell <- x3, blob <- x4, tier <- x5, ready <- x6,
  initDone <- x7, generation <- x8, raced <- x9, wild <- x10,
  spilledCount <- x11, locked <- x12, pc <- x13, page <- x14, old <- x15,
  size <- x16, forked <- x17, childBlob <- x18, childTodo <- x19, gone <- x20

\* BlobStores: fork.
Forked == INSTANCE BlobStores WITH Pages <- {0, 1}, Workers <- {w1},
  Shards <- 1, Capacity <- 3, AnonRegions <- 1, SpillSlots <- 1,
  Sizes <- {1, 2}, DeepTier <- TRUE, MayFork <- TRUE, Node <- Node,
  region <- x1, chain <- x2, cell <- x3, blob <- x4, tier <- x5, ready <- x6,
  initDone <- x7, generation <- x8, raced <- x9, wild <- x10,
  spilledCount <- x11, locked <- x12, pc <- x13, page <- x14, old <- x15,
  size <- x16, forked <- x17, childBlob <- x18, childTodo <- x19, gone <- x20

\* BlobStores: three pages in one store.
Packed == INSTANCE BlobStores WITH Pages <- {0, 1, 2}, Workers <- {},
  Shards <- 1, Capacity <- 5, AnonRegions <- 2, SpillSlots <- 1,
  Sizes <- {1, 2, 3}, DeepTier <- FALSE, MayFork <- FALSE, Node <- Node,
  region <- x1, chain <- x2, cell <- x3, blob <- x4, tier <- x5, ready <- x6,
  initDone <- x7, generation <- x8, raced <- x9, wild <- x10,
  spilledCount <- x11, locked <- x12, pc <- x13, page <- x14, old <- x15,
  size <- x16, forked <- x17, childBlob <- x18, childTodo <- x19, gone <- x20

\* Dictionaries: a page that changes span.
OnePage == INSTANCE Dictionaries WITH Workers <- {w1, w2}, Pages <- {p1},
  Classes <- {0, 1}, Target <- 1, MaxDicts <- 2, CountMod <- 3, MaxTicks <- 2,
  MaxSpans <- 3,
  dict <- x1, num <- x2, filled <- x3, trained <- x4, span <- x5, need <- x6,
  blob <- x7, lock <- x8, job <- x9, phase <- x10, ticks <- x11, spans <- x12,
  lost <- x13

\* Dictionaries: two workers on two pages.
TwoPages == INSTANCE Dictionaries WITH Workers <- {w1, w2}, Pages <- {p1, p2},
  Classes <- {0, 1}, Target <- 1, MaxDicts <- 1, CountMod <- 3, MaxTicks <- 1,
  MaxSpans <- 1,
  dict <- x1, num <- x2, filled <- x3, trained <- x4, span <- x5, need <- x6,
  blob <- x7, lock <- x8, job <- x9, phase <- x10, ticks <- x11, spans <- x12,
  lost <- x13

\* MeasureOnly.
Measure == INSTANCE MeasureOnly WITH Threads <- {t1, t2}, Pages <- {1, 3},
  Cap <- 2, Probes <- 2, Buf <- 3, MaxSpurious <- 1, MaxCalls <- 3,
  slots <- x1, count <- x2, inited <- x3, inDlsym <- x4, real <- x5,
  off <- x6, job <- x7, blocks <- x8, calls <- x9, scan <- x10, seen <- x11,
  skips <- x12, aborted <- x13

-----------------------------------------------------------------------------
(* A step of the chosen instance; nothing else moves                       *)

Zero20 == x21 = 0 /\ x22 = 0 /\ x23 = 0 /\ x24 = 0 /\ x25 = 0 /\ x26 = 0
  /\ x27 = 0
Zero18 == x19 = 0 /\ x20 = 0 /\ Zero20
Zero17 == x18 = 0 /\ Zero18
Zero13 == x14 = 0 /\ x15 = 0 /\ x16 = 0 /\ x17 = 0 /\ Zero17
Zero11 == x12 = 0 /\ x13 = 0 /\ Zero13
Zero9 == x10 = 0 /\ x11 = 0 /\ Zero11
Zero7 == x8 = 0 /\ x9 = 0 /\ Zero9
Zero1 == x2 = 0 /\ x3 = 0 /\ x4 = 0 /\ x5 = 0 /\ x6 = 0 /\ x7 = 0 /\ Zero7
Rest27 == UNCHANGED unit
Rest20 == UNCHANGED <<x21, x22, x23, x24, x25, x26, x27>> /\ Rest27
Rest18 == UNCHANGED <<x19, x20>> /\ Rest20
Rest17 == UNCHANGED <<x18>> /\ Rest18
Rest13 == UNCHANGED <<x14, x15, x16, x17>> /\ Rest17
Rest11 == UNCHANGED <<x12, x13>> /\ Rest13
Rest9 == UNCHANGED <<x10, x11>> /\ Rest11
Rest7 == UNCHANGED <<x8, x9>> /\ Rest9
Rest1 == UNCHANGED <<x2, x3, x4, x5, x6, x7>> /\ Rest7

Init ==
  \/ unit = "Runs" /\ Runs!Init /\ Zero17
  \/ unit = "Chunks" /\ Chunks!Init /\ Zero17
  \/ unit = "Boot" /\ Boot!Init /\ Zero9
  \/ unit = "Shared" /\ Shared!Init /\ Zero20
  \/ unit = "Magazines" /\ Magazines!Init /\ Zero20
  \/ unit = "Resident" /\ Resident!Init /\ Zero20
  \/ unit = "Large" /\ Large!Init
  \/ unit = "Popped" /\ Popped!Init
  \/ unit = "Arithmetic" /\ Arithmetic!Init /\ Zero1
  \/ unit = "Front" /\ Front!Init /\ Zero7
  \/ unit = "Keyed" /\ Keyed!Init /\ Zero18
  \/ unit = "Native" /\ Native!Init /\ Zero18
  \/ unit = "Scarce" /\ Scarce!Init /\ Zero18
  \/ unit = "Images2" /\ Images2!Init /\ Zero11
  \/ unit = "Reloads" /\ Reloads!Init /\ Zero11
  \/ unit = "Lanes2" /\ Lanes2!Init /\ Zero11
  \/ unit = "Tiers2" /\ Tiers2!Init /\ Zero20
  \/ unit = "Spillers" /\ Spillers!Init /\ Zero20
  \/ unit = "Forked" /\ Forked!Init /\ Zero20
  \/ unit = "Packed" /\ Packed!Init /\ Zero20
  \/ unit = "OnePage" /\ OnePage!Init /\ Zero13
  \/ unit = "TwoPages" /\ TwoPages!Init /\ Zero13
  \/ unit = "Measure" /\ Measure!Init /\ Zero13

Next ==
  \/ unit = "Runs" /\ Runs!Next /\ Rest17
  \/ unit = "Chunks" /\ Chunks!Next /\ Rest17
  \/ unit = "Boot" /\ Boot!Next /\ Rest9
  \/ unit = "Shared" /\ Shared!Next /\ Rest20
  \/ unit = "Magazines" /\ Magazines!Next /\ Rest20
  \/ unit = "Resident" /\ Resident!Next /\ Rest20
  \/ unit = "Large" /\ Large!Next /\ Rest27
  \/ unit = "Popped" /\ Popped!Next /\ Rest27
  \/ unit = "Arithmetic" /\ Arithmetic!Next /\ Rest1
  \/ unit = "Front" /\ Front!Next /\ Rest7
  \/ unit = "Keyed" /\ Keyed!Next /\ Rest18
  \/ unit = "Native" /\ Native!Next /\ Rest18
  \/ unit = "Scarce" /\ Scarce!Next /\ Rest18
  \/ unit = "Images2" /\ Images2!Next /\ Rest11
  \/ unit = "Reloads" /\ Reloads!Next /\ Rest11
  \/ unit = "Lanes2" /\ Lanes2!Next /\ Rest11
  \/ unit = "Tiers2" /\ Tiers2!Next /\ Rest20
  \/ unit = "Spillers" /\ Spillers!Next /\ Rest20
  \/ unit = "Forked" /\ Forked!Next /\ Rest20
  \/ unit = "Packed" /\ Packed!Next /\ Rest20
  \/ unit = "OnePage" /\ OnePage!Next /\ Rest13
  \/ unit = "TwoPages" /\ TwoPages!Next /\ Rest13
  \/ unit = "Measure" /\ Measure!Next /\ Rest13

Spec == Init /\ [][Next]_vars

(***************************************************************************)
(* Properties of the components, each on its instances.                    *)
(***************************************************************************)

\* The variables of the components stay in their types.
HeapTyped ==
  /\ unit = "Runs" => Runs!TypeOK
  /\ unit = "Chunks" => Chunks!TypeOK
  /\ unit = "Boot" => Boot!TypeOK
  /\ unit = "Shared" => Shared!TypeOK
  /\ unit = "Magazines" => Magazines!TypeOK
  /\ unit = "Resident" => Resident!TypeOK
  /\ unit = "Large" => Large!TypeOK
  /\ unit = "Popped" => Popped!TypeOK
  /\ unit = "Front" => Front!TypeOK
  /\ unit = "Keyed" => Keyed!TypeOK
  /\ unit = "Native" => Native!TypeOK
  /\ unit = "Scarce" => Scarce!TypeOK
  /\ unit = "Images2" => Images2!TypeOK
  /\ unit = "Reloads" => Reloads!TypeOK
  /\ unit = "Lanes2" => Lanes2!TypeOK
  /\ unit = "Tiers2" => Tiers2!TypeOK
  /\ unit = "Spillers" => Spillers!TypeOK
  /\ unit = "Forked" => Forked!TypeOK
  /\ unit = "Packed" => Packed!TypeOK
  /\ unit = "OnePage" => OnePage!TypeOK
  /\ unit = "TwoPages" => TwoPages!TypeOK
  /\ unit = "Measure" => Measure!TypeOK

\* A page of the arena is handed out once, queued for decommit, in a free run
\* or past the watermark, never two of these (allocatePages, releasePages, the
\* decommit thread, the fork handlers).
PagesInOnePlace ==
  /\ unit = "Runs" => Runs!PagesInOnePlace
  /\ unit = "Chunks" => Chunks!PagesInOnePlace

\* A run on a free list has no memory behind it and is open, and one that is
\* handed out can be accessed, but for pages that commitPages was asked to open
\* and could not, a result nobody looks at; and while a run is handed out no
\* commit of the watermark and no decommit for an earlier owner reaches it
\* (processDecommitEntry, ensureCommitted).
RunsStayClean ==
  /\ [](unit = "Runs" => Runs!RunsClean)
  /\ [][unit = "Runs" => Runs!CleanStep]_vars
  /\ [](unit = "Chunks" => Chunks!RunsClean)
  /\ [][unit = "Chunks" => Chunks!CleanStep]_vars

\* A slot of a span is in one place: the application's, a thread's cache, the
\* pending queue, a magazine or free in the span's bitmap; the lists a span is
\* on agree with its bitmap; and the pending queue stays within its bound
\* while threads race on its depth (allocateBatch, deallocateBatchDeferred,
\* drainPending).
SlotsAccounted ==
  /\ unit = "Shared" =>
       /\ Shared!SlotInOnePlace
       /\ Shared!ListsMatchBitmaps
       /\ Shared!PendingBounded
  /\ unit = "Magazines" =>
       /\ Magazines!SlotInOnePlace
       /\ Magazines!ListsMatchBitmaps
       /\ Magazines!PendingBounded
  /\ unit = "Resident" =>
       /\ Resident!SlotInOnePlace
       /\ Resident!ListsMatchBitmaps
       /\ Resident!PendingBounded

\* The span a batch was resolved to when it was freed is still the span of its
\* pages when it is applied, and the pages of an object in use are neither
\* dropped nor EMPTY (drainRangeToSlabs, pushPending, purgeResidentEmpty,
\* recommitEmptySpan).
SpanOutlivesObjects ==
  /\ unit = "Shared" => Shared!SpanOutlivesObjects
  /\ unit = "Magazines" => Magazines!SpanOutlivesObjects
  /\ unit = "Resident" => Resident!SpanOutlivesObjects

\* A Span descriptor describes one block in use, or a cached one, or is in one
\* thread's hands, or spare, and says the block's true size; a cached block is
\* open unless commitPages refused to open it, one reported as zeroed is zero,
\* and bytes_ is what is cached (LargeAlloc, LargeBlockCache, the lock-free
\* descriptor stack), where fewer than three blocks exist at a time.
LargeBlocksSound ==
  /\ unit = "Large" => Large!DescriptorsExclusive /\ Large!CacheSound
  /\ unit = "Popped" => Popped!DescriptorsExclusive /\ Popped!CacheSound

\* What the bootstrap allocator hands out is committed, inside one region, not
\* handed out twice, and recognised by owns(), while regions are added by
\* racing threads and across fork().
BlocksUsable ==
  /\ unit = "Boot" => Boot!BlocksUsable

\* The size classes, the division by a precomputed reciprocal, the cache's
\* buckets, a widened span's bitmap and the page map's ranges are what their
\* plain definitions give.
SizesExact ==
  /\ unit = "Arithmetic" => Arithmetic!SizesExact

\* A block has room for what was asked and reports at least that size, realloc
\* copies all of it and nothing beyond, calloc's bytes are zero, and no block
\* goes to an allocator it did not come from (smash_heap.h).
BlocksFaithful ==
  /\ unit = "Front" => Front!BlocksFaithful

\* Two threads never share a state or a cache, nor does a thread's lean entry
\* lead to a cache it has given back, whatever threads start, end and fork; and a
\* cache whose thread has ended is given back, unless its destructors went on
\* allocating (thread states, xxthread_cleanup).
ThreadsApart ==
  /\ unit = "Keyed" => Keyed!ThreadsApart /\ Keyed!AllComesBack
  /\ unit = "Native" => Native!ThreadsApart /\ Native!AllComesBack
  /\ unit = "Scarce" => Scarce!ThreadsApart /\ Scarce!AllComesBack

\* A call site gets the arena of its offset in its image, through the cache and
\* the memo, wherever the image is loaded; in a cache slot that two threads used
\* at once, that of some address of the slot (call-site hashing).
SiteKeepsArena ==
  /\ unit = "Images2" => Images2!SiteKeepsArena
  /\ unit = "Reloads" => Reloads!SiteKeepsArena
  /\ unit = "Lanes2" => Lanes2!SiteKeepsArena

\* A stored blob keeps its bytes while its page needs it, in either store,
\* through splits, reuse, recompression, spilling and fork, unless two workers
\* set the spill file up at once; a forked child has its own copies, but for blobs
\* that the parent released or the child had no room for; and no space of a store
\* is lost or counted twice (CompressStore, SpillStore, resetForFork).
BlobsIntact ==
  /\ unit = "Tiers2" => Tiers2!BlobsIntact /\ Tiers2!SpaceAccounted
  /\ unit = "Spillers" => Spillers!BlobsIntact /\ Spillers!SpaceAccounted
  /\ unit = "Forked" =>
       Forked!BlobsIntact /\ Forked!ChildHasBlobs /\ Forked!SpaceAccounted
  /\ unit = "Packed" => Packed!BlobsIntact /\ Packed!SpaceAccounted

\* A page the application has stored to is only restored from a blob that the
\* dictionary now found for it can read; no sample is copied past its buffer,
\* and a dictionary is trained from complete samples only (collectDictSample,
\* trainDictionaries).
DictionariesSound ==
  /\ unit = "OnePage" => OnePage!DictionariesSound
  /\ unit = "TwoPages" => TwoPages!DictionariesSound

\* The compress-only library counts a page once, and once more for every
\* spurious failure of the weak exchange, and never hands out a part of its
\* static buffer twice (PageTracker, the static calloc).
MeasureSound ==
  /\ unit = "Measure" => Measure!MeasureSound
=============================================================================
