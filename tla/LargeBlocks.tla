---------------------------- MODULE LargeBlocks -----------------------------
(***************************************************************************)
(* Large allocations: LargeAlloc with its cache of freed blocks, and the   *)
(* lock-free stack of span descriptors they take from and return to.       *)
(*                                                                         *)
(* Sizes are rounded page counts; up to 8 pages the rounding grid has all  *)
(* of them (SizeMath has the grid).  A block of VmPages or more is placed  *)
(* in the arena, or mapped directly like a smaller one when the arena has  *)
(* no room.  Only the age of a bucket matters, up to kIdleTicks, not the   *)
(* tick itself.                                                            *)
(***************************************************************************)
EXTENDS Integers, Sequences, FiniteSets, SequencesExt

CONSTANTS
  Threads,
  Blocks,       \* page-range names that the system can give
  Descriptors,  \* span descriptors that the bootstrap allocator can give
  Sizes,        \* page counts asked for
  MaxPages,     \* LargeBlockCache::kMaxPages
  VmPages,      \* kLargeAllocVmThreshold
  CacheDepth,   \* kDepth
  MaxBytes,     \* maxBytes(), in pages
  CommitFails,  \* mprotect may refuse to open a block (the limit on mappings)
  MaxAllocs,    \* bound: calls of allocate
  None

VARIABLES
  block,        \* per block: its size, 0 when it is not mapped
  arena,        \* inContigArena: the blocks placed in the arena
  closed,       \* the blocks with a page that is closed
  refused,      \* history: closed blocks that a commitPages failed to open
  fresh,        \* the blocks that are all zero
  anyCompressed,\* g_any_page_compressed
  desc,         \* per descriptor: the block it describes and its size
  used,         \* descriptors taken from the bootstrap allocator
  top, nextFree,\* the stack of free descriptors
  pageMap,      \* block -> descriptor
  bucket, age,  \* per size: the cached descriptors, ticks since last_use
  bytes,        \* bytes_, in pages
  live,         \* the blocks of the application
  pc, size, mem, d, seen, seenNext, zeroed, nowAge,  \* per thread
  tpc, tsize, victims,                               \* onTick
  allocs

kernel == <<block, arena, closed, refused, fresh, anyCompressed>>
stack == <<desc, used, top, nextFree>>
cacheVars == <<bucket, age, bytes>>
thread == <<pc, size, mem, d, seen, seenNext, zeroed, nowAge>>
ticker == <<tpc, tsize, victims>>
vars == <<kernel, stack, pageMap, cacheVars, live, thread, ticker, allocs>>

kIdleTicks == 2
Buckets == 1..MaxPages
Actors == Threads \cup {"tick"}
Nothing == [base |-> None, pages |-> 0]

TypeOK ==
  /\ block \in [Blocks -> Nat]
  /\ refused \subseteq closed /\ closed \subseteq arena /\ arena \subseteq Blocks
  /\ fresh \subseteq Blocks /\ anyCompressed \in BOOLEAN
  /\ used \subseteq Descriptors /\ top \in Descriptors \cup {None}
  /\ nextFree \in [Descriptors -> Descriptors \cup {None}]
  /\ pageMap \in [Blocks -> Descriptors \cup {None}]
  /\ \A b \in Buckets : Range(bucket[b]) \subseteq Descriptors
                        /\ Len(bucket[b]) <= CacheDepth
  /\ age \in [Buckets -> 0..kIdleTicks] /\ bytes \in Nat
  /\ live \subseteq Blocks /\ allocs \in 0..MaxAllocs

Init ==
  /\ block = [x \in Blocks |-> 0] /\ arena = {} /\ fresh = {}
  /\ closed = {} /\ refused = {}
  /\ anyCompressed = FALSE
  /\ desc = [x \in Descriptors |-> Nothing] /\ used = {}
  /\ top = None /\ nextFree = [x \in Descriptors |-> None]
  /\ pageMap = [x \in Blocks |-> None]
  /\ bucket = [b \in Buckets |-> << >>] /\ age = [b \in Buckets |-> 0] /\ bytes = 0
  /\ live = {}
  /\ pc = [t \in Actors |-> "idle"] /\ size = [t \in Threads |-> 0]
  /\ mem = [t \in Threads |-> None] /\ d = [t \in Actors |-> None]
  /\ seen = [t \in Actors |-> None] /\ seenNext = [t \in Threads |-> None]
  /\ zeroed = [t \in Threads |-> FALSE] /\ nowAge = [t \in Threads |-> 0]
  /\ tpc = "idle" /\ tsize = 0 /\ victims = << >> /\ allocs = 0

Goto(t, place) == pc' = [pc EXCEPT ![t] = place]
IsVm(n) == n >= VmPages

-----------------------------------------------------------------------------
(* allocate                                                                *)

Allocate(t, n) ==
  /\ pc[t] = "idle" /\ allocs < MaxAllocs
  /\ allocs' = allocs + 1
  /\ size' = [size EXCEPT ![t] = n]
  /\ zeroed' = [zeroed EXCEPT ![t] = FALSE]
  /\ Goto(t, IF n <= MaxPages THEN "pop" ELSE "map")
  /\ UNCHANGED <<kernel, stack, pageMap, cacheVars, live, mem, d, seen, seenNext,
                 nowAge, ticker>>

\* A larger block is registered with the size that was asked for.
PopMutant(t) ==
  /\ pc[t] = "pop"
  /\ LET tries == {b \in Buckets : b \in size[t]..size[t] + 2 /\ bucket[b] # << >>}
         b == CHOOSE x \in tries : \A y \in tries : x <= y
     IN IF tries = {}
        THEN Goto(t, "map") /\ UNCHANGED <<bucket, bytes, d, mem>>
        ELSE /\ d' = [d EXCEPT ![t] = Last(bucket[b])]
             /\ mem' = [mem EXCEPT ![t] = desc[Last(bucket[b])].base]
             /\ bucket' = [bucket EXCEPT ![b] = Front(@)]
             /\ bytes' = bytes - b
             /\ Goto(t, "register")
  /\ UNCHANGED <<kernel, stack, pageMap, age, live, size, seen, seenNext, zeroed,
                 nowAge, ticker, allocs>>

\* pop(rounded) for the size, then for the next two larger ones.
Pop(t) ==
  /\ pc[t] = "pop"
  /\ LET tries == {b \in Buckets : b \in size[t]..size[t] + 2 /\ bucket[b] # << >>}
         b == CHOOSE x \in tries : \A y \in tries : x <= y
     IN IF tries = {}
        THEN Goto(t, "map") /\ UNCHANGED <<bucket, bytes, d, mem, size>>
        ELSE /\ d' = [d EXCEPT ![t] = Last(bucket[b])]
             /\ mem' = [mem EXCEPT ![t] = desc[Last(bucket[b])].base]
             /\ bucket' = [bucket EXCEPT ![b] = Front(@)]
             /\ bytes' = bytes - b
             /\ size' = [size EXCEPT ![t] = b]
             /\ Goto(t, "register")
  /\ UNCHANGED <<kernel, stack, pageMap, age, live, seen, seenNext, zeroed, nowAge,
                 ticker, allocs>>

\* Which free range the system gives makes no difference.
Unmapped == {x \in Blocks : block[x] = 0}

\* A run of the arena, its contents unknown and not open if the arena could
\* not commit it; or a fresh mapping, also when the arena is full; or null.
Map(t) ==
  /\ pc[t] = "map"
  /\ \/ /\ Unmapped # {}
        /\ \E x \in {CHOOSE y \in Unmapped : TRUE} :
           \E inArena \in IF IsVm(size[t]) THEN BOOLEAN ELSE {FALSE} :
           \E shut \in IF inArena /\ CommitFails THEN {{}, {x}} ELSE {{}} :
             /\ block' = [block EXCEPT ![x] = size[t]]
             /\ mem' = [mem EXCEPT ![t] = x]
             /\ zeroed' = [zeroed EXCEPT ![t] = ~inArena]
             /\ arena' = IF inArena THEN arena \cup {x} ELSE arena
             /\ fresh' = IF inArena THEN fresh ELSE fresh \cup {x}
             /\ closed' = closed \cup shut /\ refused' = refused \cup shut
        /\ Goto(t, "descriptor")
     \/ /\ Unmapped = {}
        /\ Goto(t, "idle")
        /\ UNCHANGED <<block, arena, closed, refused, fresh, zeroed, mem>>
  /\ UNCHANGED <<anyCompressed, stack, pageMap, cacheVars, live, size, d, seen,
                 seenNext, nowAge, ticker, allocs>>

\* newSpanDescriptor: the head and its next are read, then compared and swapped.
ReadTop(t) ==
  /\ pc[t] = "descriptor"
  /\ \/ /\ top = None
        /\ Descriptors \ used # {}
        /\ LET x == CHOOSE y \in Descriptors \ used : TRUE
           IN d' = [d EXCEPT ![t] = x] /\ used' = used \cup {x}
        /\ Goto(t, "register")
        /\ UNCHANGED seen
     \/ /\ top # None
        /\ seen' = [seen EXCEPT ![t] = top]
        /\ Goto(t, "next")
        /\ UNCHANGED <<d, used>>
  /\ UNCHANGED <<kernel, desc, top, nextFree, pageMap, cacheVars, live, size, mem,
                 seenNext, zeroed, nowAge, ticker, allocs>>

ReadNext(t) ==
  /\ pc[t] = "next"
  /\ seenNext' = [seenNext EXCEPT ![t] = nextFree[seen[t]]]
  /\ Goto(t, "swap")
  /\ UNCHANGED <<kernel, stack, pageMap, cacheVars, live, size, mem, d, seen, zeroed,
                 nowAge, ticker, allocs>>

SwapTop(t) ==
  /\ pc[t] = "swap"
  /\ IF top = seen[t]
     THEN /\ top' = seenNext[t]
          /\ d' = [d EXCEPT ![t] = seen[t]]
          /\ desc' = [desc EXCEPT ![seen[t]] = Nothing]
          /\ nextFree' = [nextFree EXCEPT ![seen[t]] = None]
          /\ Goto(t, "register")
     ELSE Goto(t, "descriptor") /\ UNCHANGED <<top, d, desc, nextFree>>
  /\ seen' = [seen EXCEPT ![t] = None]
  /\ seenNext' = [seenNext EXCEPT ![t] = None]
  /\ UNCHANGED <<kernel, used, pageMap, cacheVars, live, size, mem, zeroed, nowAge,
                 ticker, allocs>>

\* initLarge, page_map_->set, return; the application writes its block.
Register(t) ==
  /\ pc[t] = "register"
  /\ desc' = [desc EXCEPT ![d[t]] = [base |-> mem[t], pages |-> size[t]]]
  /\ pageMap' = [pageMap EXCEPT ![mem[t]] = d[t]]
  /\ live' = live \cup {mem[t]}
  /\ fresh' = fresh \ {mem[t]}
  /\ d' = [d EXCEPT ![t] = None] /\ mem' = [mem EXCEPT ![t] = None]
  /\ Goto(t, "idle")
  /\ UNCHANGED <<block, arena, closed, refused, anyCompressed, used, top, nextFree,
                 cacheVars, size, seen, seenNext, zeroed, nowAge, ticker, allocs>>

-----------------------------------------------------------------------------
(* deallocate                                                              *)

\* The span is found, its page-map entry cleared; a block of the arena leaves
\* the compressor's tracking.
Deallocate(t, x) ==
  /\ pc[t] = "idle" /\ x \in live
  /\ live' = live \ {x}
  /\ d' = [d EXCEPT ![t] = pageMap[x]]
  /\ mem' = [mem EXCEPT ![t] = desc[pageMap[x]].base]
  /\ size' = [size EXCEPT ![t] = desc[pageMap[x]].pages]
  /\ pageMap' = [pageMap EXCEPT ![desc[pageMap[x]].base] = None]
  /\ nowAge' = [nowAge EXCEPT ![t] = 0]
  /\ LET n == desc[pageMap[x]].pages
     IN Goto(t, IF n > MaxPages THEN "release"
                ELSE IF x \in arena THEN "accept" ELSE "check")
  /\ UNCHANGED <<kernel, stack, cacheVars, seen, seenNext, zeroed, ticker, allocs>>

\* A block of the arena that may be cached is opened again if anything was ever
\* compressed; the result of commitPages is not looked at.
CanAccept(t) ==
  /\ pc[t] = "accept"
  /\ \/ /\ bytes + size[t] > MaxBytes
        /\ Goto(t, "release")
        /\ UNCHANGED <<closed, refused>>
     \/ /\ bytes + size[t] <= MaxBytes
        /\ \E still \in IF CommitFails THEN {{}, {mem[t]} \cap closed} ELSE {{}} :
             IF anyCompressed
             THEN /\ closed' = (closed \ {mem[t]}) \cup still
                  /\ refused' = (refused \ {mem[t]}) \cup still
             ELSE UNCHANGED <<closed, refused>>
        /\ Goto(t, "check")
  /\ UNCHANGED <<block, arena, fresh, anyCompressed, stack, pageMap, cacheVars, live,
                 size, mem, d, seen, seenNext, zeroed, nowAge, ticker, allocs>>

\* push looks at the byte cap again, before it takes the bucket's lock.
PushCheck(t) ==
  /\ pc[t] = "check"
  /\ Goto(t, IF bytes + size[t] > MaxBytes THEN "release" ELSE "push")
  /\ UNCHANGED <<kernel, stack, pageMap, cacheVars, live, size, mem, d, seen,
                 seenNext, zeroed, nowAge, ticker, allocs>>

\* One block too many fits in a bucket.
PushMutant(t) ==
  /\ pc[t] = "push"
  /\ IF Len(bucket[size[t]]) > CacheDepth
     THEN Goto(t, "release") /\ UNCHANGED <<cacheVars, d, mem>>
     ELSE /\ bucket' = [bucket EXCEPT ![size[t]] = Append(@, d[t])]
          /\ age' = [age EXCEPT ![size[t]] = nowAge[t]]
          /\ bytes' = bytes + size[t]
          /\ d' = [d EXCEPT ![t] = None] /\ mem' = [mem EXCEPT ![t] = None]
          /\ Goto(t, "idle")
  /\ UNCHANGED <<kernel, stack, pageMap, live, size, seen, seenNext, zeroed, nowAge,
                 ticker, allocs>>

Push(t) ==
  /\ pc[t] = "push"
  /\ IF Len(bucket[size[t]]) >= CacheDepth
     THEN Goto(t, "release") /\ UNCHANGED <<cacheVars, d, mem>>
     ELSE /\ bucket' = [bucket EXCEPT ![size[t]] = Append(@, d[t])]
          /\ age' = [age EXCEPT ![size[t]] = nowAge[t]]
          /\ bytes' = bytes + size[t]
          /\ d' = [d EXCEPT ![t] = None] /\ mem' = [mem EXCEPT ![t] = None]
          /\ Goto(t, "idle")
  /\ UNCHANGED <<kernel, stack, pageMap, live, size, seen, seenNext, zeroed, nowAge,
                 ticker, allocs>>

\* releasePages or unmapPages.
Release(x) ==
  /\ block' = [block EXCEPT ![x] = 0]
  /\ arena' = arena \ {x} /\ fresh' = fresh \ {x}
  /\ closed' = closed \ {x} /\ refused' = refused \ {x}

ReleaseBlock(t) ==
  /\ pc[t] = "release"
  /\ Release(mem[t])
  /\ mem' = [mem EXCEPT ![t] = None]
  /\ Goto(t, "readTop")
  /\ UNCHANGED <<anyCompressed, stack, pageMap, cacheVars, live, size, d, seen,
                 seenNext, zeroed, nowAge, ticker, allocs>>

\* recycleSpanDescriptor, for a thread or for the tick.
RecycleRead(t) ==
  /\ pc[t] = "readTop"
  /\ seen' = [seen EXCEPT ![t] = top]
  /\ nextFree' = [nextFree EXCEPT ![d[t]] = top]
  /\ Goto(t, "pushTop")
  /\ UNCHANGED <<kernel, desc, used, top, pageMap, cacheVars, live, size, mem, d,
                 seenNext, zeroed, nowAge, ticker, allocs>>

RecycleSwap(t) ==
  /\ pc[t] = "pushTop"
  /\ IF top = seen[t]
     THEN /\ top' = d[t]
          /\ d' = [d EXCEPT ![t] = None]
          /\ Goto(t, "idle")
     ELSE Goto(t, "readTop") /\ UNCHANGED <<top, d>>
  /\ seen' = [seen EXCEPT ![t] = None]
  /\ UNCHANGED <<kernel, desc, used, nextFree, pageMap, cacheVars, live, size, mem,
                 seenNext, zeroed, nowAge, ticker, allocs>>

-----------------------------------------------------------------------------
(* onTick: every bucket grows older, then purgeIdle visits them.           *)

Older(n) == IF n < kIdleTicks THEN n + 1 ELSE n

OnTick ==
  /\ tpc = "idle"
  /\ age' = [b \in Buckets |-> Older(age[b])]
  /\ nowAge' = [t \in Threads |-> IF pc[t] \in {"accept", "check", "push"}
                                  THEN Older(nowAge[t]) ELSE nowAge[t]]
  /\ IF bytes = 0 THEN UNCHANGED <<tpc, tsize>>
     ELSE tpc' = "bucket" /\ tsize' = 1
  /\ UNCHANGED <<kernel, stack, pageMap, bucket, bytes, live, pc, size, mem, d, seen,
                 seenNext, zeroed, victims, allocs>>

\* The visit stops at the first bucket that is not idle.
PurgeBucketMutant ==
  /\ tpc = "bucket"
  /\ IF tsize > MaxPages \/ bucket[tsize] = << >> \/ age[tsize] < kIdleTicks
     THEN tpc' = "idle" /\ tsize' = 0 /\ UNCHANGED <<bucket, victims>>
     ELSE /\ victims' = bucket[tsize]
          /\ bucket' = [bucket EXCEPT ![tsize] = << >>]
          /\ tpc' = "bytes"
          /\ UNCHANGED tsize
  /\ UNCHANGED <<kernel, stack, pageMap, age, bytes, live, thread, allocs>>

\* The bucket's blocks are taken under its lock, the bytes after it.
PurgeBucket ==
  /\ tpc = "bucket"
  /\ IF tsize > MaxPages
     THEN tpc' = "idle" /\ tsize' = 0 /\ UNCHANGED <<bucket, victims>>
     ELSE IF bucket[tsize] = << >> \/ age[tsize] < kIdleTicks
     THEN tsize' = tsize + 1 /\ UNCHANGED <<tpc, bucket, victims>>
     ELSE /\ victims' = bucket[tsize]
          /\ bucket' = [bucket EXCEPT ![tsize] = << >>]
          /\ tpc' = "bytes"
          /\ UNCHANGED tsize
  /\ UNCHANGED <<kernel, stack, pageMap, age, bytes, live, thread, allocs>>

PurgeBytes ==
  /\ tpc = "bytes"
  /\ bytes' = bytes - Len(victims) * tsize
  /\ tpc' = "victims"
  /\ UNCHANGED <<kernel, stack, pageMap, bucket, age, live, thread, tsize, victims,
                 allocs>>

PurgeVictim ==
  /\ tpc = "victims" /\ pc["tick"] = "idle"
  /\ IF victims = << >>
     THEN /\ tpc' = "bucket" /\ tsize' = tsize + 1
          /\ UNCHANGED <<block, arena, closed, refused, fresh, d, pc, victims>>
     ELSE /\ Release(desc[Head(victims)].base)
          /\ d' = [d EXCEPT !["tick"] = Head(victims)]
          /\ Goto("tick", "readTop")
          /\ victims' = Tail(victims)
          /\ UNCHANGED <<tpc, tsize>>
  /\ UNCHANGED <<anyCompressed, stack, pageMap, cacheVars, live, size, mem, seen,
                 seenNext, zeroed, nowAge, allocs>>

\* The compressor closes a page of a live block of the arena; a fault opens it
\* (markActiveIfVm has made its pages ACTIVE, so the handler does).
Close(x) ==
  /\ x \in live \cap arena
  /\ \/ x \notin closed /\ closed' = closed \cup {x} /\ anyCompressed' = TRUE
        /\ UNCHANGED refused
     \/ x \in closed /\ closed' = closed \ {x} /\ refused' = refused \ {x}
        /\ UNCHANGED anyCompressed
  /\ UNCHANGED <<block, arena, fresh, stack, pageMap, cacheVars, live, thread,
                 ticker, allocs>>

TickStep ==
  \/ OnTick \/ PurgeBucket \/ PurgeBytes \/ PurgeVictim
  \/ RecycleRead("tick") \/ RecycleSwap("tick")
CallStep(t) ==
  \/ Pop(t) \/ Map(t) \/ ReadTop(t) \/ ReadNext(t) \/ SwapTop(t)
  \/ Register(t) \/ CanAccept(t) \/ PushCheck(t) \/ Push(t)
  \/ ReleaseBlock(t)
  \/ RecycleRead(t) \/ RecycleSwap(t)

Next ==
  \/ \E t \in Threads : \/ \E n \in Sizes : Allocate(t, n)
                        \/ \E x \in live : Deallocate(t, x)
                        \/ CallStep(t)
  \/ TickStep
  \/ \E x \in Blocks : Close(x)

Spec == Init /\ [][Next]_vars

\* The compressor keeps ticking.
FairSpec == Spec /\ WF_vars(TickStep)

-----------------------------------------------------------------------------

CachedDescs == UNION {Range(bucket[b]) : b \in Buckets} \cup Range(victims)
InUse == {pageMap[x] : x \in live}
Handling == {d[t] : t \in Actors} \ {None}

\* The descriptor that the page map has for a live block says the block's true
\* base and size: "The Span contains page_count so we can compute the full range
\* from just the base" (LargeAlloc::allocate), and the free relies on it.
SpanDescribesBlock ==
  \A x \in live : desc[pageMap[x]] = [base |-> x, pages |-> block[x]]

\* A descriptor serves one purpose at a time: it describes one block of the
\* application, or one cached block, or is in one thread's hands, or is on the
\* stack; and it describes its block (newSpanDescriptor, recycleSpanDescriptor).
\* It holds while no thread pops two descriptors and pushes the first back
\* between another's read of the head and its compare-and-swap, which takes five
\* calls of allocate.
DescriptorsExclusive ==
  /\ Cardinality(InUse) = Cardinality(live) /\ None \notin InUse
  /\ InUse \cap CachedDescs = {} /\ InUse \cap Handling = {}
  /\ CachedDescs \cap Handling = {}
  /\ top \notin InUse \cup CachedDescs \cup Handling
  /\ \A t, u \in Actors : t # u /\ d[t] # None => d[t] # d[u]
  /\ SpanDescribesBlock
  /\ \A b \in Buckets : \A e \in Range(bucket[b]) :
       desc[e].pages = b /\ block[desc[e].base] = b

\* A cached block is open although pages of it were closed when it was freed:
\* LargeAlloc::deallocate reopens it, wherever it was placed and whether or not
\* another thread compresses for the first time meanwhile.  The exception is a
\* block that commitPages was asked to open and could not, because the result is
\* not looked at (large_alloc.h:336); it is handed out closed.  A block reported as
\* zeroed, which calloc does not clear, is all zero.  The byte count is that of
\* the cached blocks and those being purged, and exceeds the cap by no more than
\* what the other threads had found room for (push, purgeIdle).
CacheSound ==
  LET held == FoldLeft(LAMBDA n, b : n + b * Len(bucket[b]), 0,
                       [b \in Buckets |-> b])
  IN /\ \A b \in Buckets : \A e \in Range(bucket[b]) :
          desc[e].base \notin closed \ refused
     /\ \A t \in Threads : pc[t] = "register" /\ zeroed[t] => mem[t] \in fresh
     /\ bytes = held + (IF tpc = "bytes" THEN tsize * Len(victims) ELSE 0)
     /\ bytes <= MaxBytes + (Cardinality(Threads) - 1) * MaxPages

Idle(b) == bucket[b] # << >> /\ age[b] = kIdleTicks

\* A bucket that has been idle for kIdleTicks ticks is purged, or freed into or
\* emptied by a thread, while the compressor ticks (purgeIdle).
IdleBlocksReturn ==
  \A b \in Buckets : Idle(b) ~> ~Idle(b)

=============================================================================
