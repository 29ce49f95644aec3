----------------------------- MODULE Bootstrap -----------------------------
(***************************************************************************)
(* BootstrapAlloc (src/core/bootstrap_alloc.h): the bump allocator all of  *)
(* the heap's own metadata comes from.  Regions are reserved address       *)
(* space; an allocation bumps a region's offset without a lock and commits *)
(* the pages it reaches under expand_lock_, which also guards the addition *)
(* of a region.  owns() tells free() which pointers came from here.        *)
(*                                                                         *)
(* A step is one atomic access of the code, or a critical section of       *)
(* expand_lock_ between two accesses that another thread can observe.      *)
(***************************************************************************)
EXTENDS Integers, Sequences, FiniteSets

CONSTANTS
  Threads,
  Sizes,        \* request sizes
  Align,        \* alignment of every request
  PageBytes,    \* page size
  InitialSize,  \* kBootstrapInitialSize
  ExpandSize,   \* kBootstrapExpandSize
  MaxRegions,   \* kBootstrapMaxRegions
  Bases,        \* addresses at which the kernel may place a region
  ReserveFails, \* TRUE: vm::reservePages may fail
  MayFork,
  MaxAllocs,    \* Bound: allocations of a behaviour
  None

VARIABLES
  ready,     \* instance(): 0 = uninit, 1 = initializing, 2 = ready
  regions,   \* regions_[0..num_regions_-1]
  lo, hi,    \* bounds_lo_, bounds_hi_
  lock,      \* expand_lock_: its holder, or None
  pc,
  call,      \* the allocation in progress: size, region index, offset read
  blocks,    \* ghost: the blocks returned, as [base, size, region]
  allocs

vars == <<ready, regions, lo, hi, lock, pc, call, blocks, allocs>>

-----------------------------------------------------------------------------

MaxAddress == 1000

RoundUp(m, a) == ((m + a - 1) \div a) * a

Region == [base : Bases, capacity : Nat, offset : Nat, committed : Nat]

Idle == [size |-> 0, i |-> 0, off |-> 0]

Locked(t) == lock = t

TypeOK ==
  /\ ready \in 0..2
  /\ regions \in Seq(Region) /\ Len(regions) <= MaxRegions
  /\ lo \in Bases \cup {MaxAddress} /\ hi \in 0..MaxAddress
  /\ lock \in Threads \cup {None}
  /\ \A t \in Threads : call[t] \in [size : Sizes \cup {0}, i : 0..MaxRegions, off : Nat]
  /\ allocs \in 0..MaxAllocs

Init ==
  /\ ready = 0
  /\ regions = << >>
  /\ lo = MaxAddress /\ hi = 0
  /\ lock = None
  /\ pc = [t \in Threads |-> "idle"]
  /\ call = [t \in Threads |-> Idle]
  /\ blocks = {}
  /\ allocs = 0

Goto(t, p) == pc' = [pc EXCEPT ![t] = p]

-----------------------------------------------------------------------------
(* instance(): the first caller constructs, the others spin. *)

Allocate(t) ==
  /\ pc[t] = "idle" /\ allocs < MaxAllocs
  /\ allocs' = allocs + 1
  /\ \E s \in Sizes :
       call' = [call EXCEPT ![t] = [size |-> s, i |-> Len(regions), off |-> 0]]
  /\ ready' = IF ready = 0 THEN 1 ELSE ready
  /\ Goto(t, CASE ready = 0 -> "add" [] ready = 1 -> "spin" [] OTHER -> "scan")
  /\ UNCHANGED <<regions, lo, hi, lock, blocks>>

Spin(t) ==
  /\ pc[t] = "spin" /\ ready = 2
  /\ call' = [call EXCEPT ![t].i = Len(regions)]
  /\ Goto(t, "scan")
  /\ UNCHANGED <<ready, regions, lo, hi, lock, blocks, allocs>>

-----------------------------------------------------------------------------
(* tryAllocFrom: read the offset, check the capacity, swap in the new end. *)

\* allocate(): newest region first; past the oldest, expand under the lock.
Scan(t) ==
  /\ pc[t] = "scan"
  /\ IF call[t].i > 0
     THEN /\ call' = [call EXCEPT ![t].off = regions[call[t].i].offset]
          /\ Goto(t, "swap")
          /\ UNCHANGED lock
     ELSE /\ lock = None
          /\ lock' = t
          /\ call' = [call EXCEPT ![t].i = Len(regions)]
          /\ Goto(t, IF Len(regions) > 0 THEN "recheck" ELSE "add")
  /\ UNCHANGED <<ready, regions, lo, hi, blocks, allocs>>

\* expandAndAllocate: another thread may have expanded while this one waited.
Recheck(t) ==
  /\ pc[t] = "recheck"
  /\ call' = [call EXCEPT ![t].off = regions[call[t].i].offset]
  /\ Goto(t, "swap")
  /\ UNCHANGED <<ready, regions, lo, hi, lock, blocks, allocs>>

AlignedEnd(t) == RoundUp(call[t].off, Align) + call[t].size

\* The region is full: try an older one, or, with the lock held, add one (the
\* region just added always has room).
NoRoom(t) ==
  /\ pc[t] = "swap" /\ AlignedEnd(t) > regions[call[t].i].capacity
  /\ IF Locked(t)
     THEN /\ Goto(t, "add")
          /\ UNCHANGED call
     ELSE /\ call' = [call EXCEPT ![t].i = @ - 1]
          /\ Goto(t, "scan")
  /\ UNCHANGED <<ready, regions, lo, hi, lock, blocks, allocs>>

\* Bumps by a store: two threads that read the same offset get the same block.
SwapMutant(t) ==
  /\ pc[t] = "swap" /\ AlignedEnd(t) <= regions[call[t].i].capacity
  /\ regions' = [regions EXCEPT ![call[t].i].offset = AlignedEnd(t)]
  /\ Goto(t, "commit")
  /\ UNCHANGED <<ready, lo, hi, lock, call, blocks, allocs>>

Swap(t) ==
  /\ pc[t] = "swap" /\ AlignedEnd(t) <= regions[call[t].i].capacity
  /\ IF regions[call[t].i].offset = call[t].off
     THEN /\ regions' = [regions EXCEPT ![call[t].i].offset = AlignedEnd(t)]
          /\ Goto(t, "commit")
          /\ UNCHANGED call
     ELSE /\ call' = [call EXCEPT ![t].off = regions[call[t].i].offset]
          /\ UNCHANGED <<regions, pc>>
  /\ UNCHANGED <<ready, lo, hi, lock, blocks, allocs>>

\* commitLocked: up to the page end, never past the capacity.
Committed(r, end) ==
  LET target == RoundUp(end, PageBytes)
      capped == IF target > r.capacity THEN r.capacity ELSE target
  IN  IF r.committed >= capped THEN r.committed ELSE capped

Returned(t) ==
  [base |-> RoundUp(call[t].off, Align), size |-> call[t].size, region |-> call[t].i]

\* ensureCommitted, and the return to the caller.  A commit waits for the lock
\* unless expandAndAllocate already holds it.
Commit(t) ==
  /\ pc[t] = "commit"
  /\ \/ AlignedEnd(t) <= regions[call[t].i].committed
     \/ lock \in {None, t}
  /\ regions' = [regions EXCEPT ![call[t].i].committed =
                   IF AlignedEnd(t) <= @ THEN @
                   ELSE Committed(regions[call[t].i], AlignedEnd(t))]
  /\ blocks' = blocks \cup {Returned(t)}
  /\ lock' = IF Locked(t) THEN None ELSE lock
  /\ call' = [call EXCEPT ![t] = Idle]
  /\ Goto(t, "idle")
  /\ UNCHANGED <<ready, lo, hi, allocs>>

-----------------------------------------------------------------------------
(* addRegion, from the constructor or from expandAndAllocate. *)

NewCapacity(t) ==
  IF ready = 1 THEN InitialSize
  ELSE IF call[t].size + Align > ExpandSize THEN call[t].size + Align ELSE ExpandSize

\* The new region, as num_regions_ publishes it.
AddRegion(t) ==
  /\ pc[t] = "add" /\ Len(regions) < MaxRegions
  /\ \E b \in Bases :
       /\ \A r \in DOMAIN regions :
            b >= regions[r].base + regions[r].capacity \/ b + NewCapacity(t) <= regions[r].base
       /\ regions' = Append(regions,
            [base |-> b, capacity |-> NewCapacity(t), offset |-> 0, committed |-> 0])
  /\ call' = [call EXCEPT ![t].i = Len(regions) + 1, ![t].off = 0]
  /\ Goto(t, "lower")
  /\ UNCHANGED <<ready, lo, hi, lock, blocks, allocs>>

\* No address space, or no room in regions_: allocate() returns nullptr.
AddFails(t) ==
  /\ pc[t] = "add"
  /\ ReserveFails \/ Len(regions) = MaxRegions
  /\ IF ready = 1
     THEN /\ ready' = 2
          /\ call' = [call EXCEPT ![t].i = 0]
          /\ Goto(t, "scan")
          /\ UNCHANGED lock
     ELSE /\ lock' = None
          /\ call' = [call EXCEPT ![t] = Idle]
          /\ Goto(t, "idle")
          /\ UNCHANGED ready
  /\ UNCHANGED <<regions, lo, hi, blocks, allocs>>

ExtendLow(t) ==
  /\ pc[t] = "lower"
  /\ lo' = IF regions[call[t].i].base < lo THEN regions[call[t].i].base ELSE lo
  /\ Goto(t, "upper")
  /\ UNCHANGED <<ready, regions, hi, lock, call, blocks, allocs>>

\* The constructor is done and instance() becomes ready, or expandAndAllocate
\* allocates from the new region.
ExtendHigh(t) ==
  /\ pc[t] = "upper"
  /\ LET end == regions[call[t].i].base + regions[call[t].i].capacity
     IN  hi' = IF end > hi THEN end ELSE hi
  /\ ready' = 2
  /\ call' = [call EXCEPT ![t].off = regions[call[t].i].offset]
  /\ Goto(t, IF ready = 1 THEN "scan" ELSE "swap")
  /\ UNCHANGED <<regions, lo, lock, blocks, allocs>>

-----------------------------------------------------------------------------
(* fork(): the prepare handler takes the lock last, the child releases it. *)

\* The child keeps only the forking thread; the others stop where they were.
Fork(t) ==
  /\ MayFork /\ pc[t] = "idle" /\ ready = 2
  /\ lock = None
  /\ pc' = [u \in Threads |-> IF u = t THEN "idle" ELSE "gone"]
  /\ UNCHANGED <<ready, regions, lo, hi, lock, call, blocks, allocs>>

-----------------------------------------------------------------------------

\* The steps of an allocation once it has begun.
AllocStep(t) ==
  \/ Spin(t) \/ Scan(t) \/ Recheck(t) \/ NoRoom(t) \/ Swap(t) \/ Commit(t)
  \/ AddRegion(t) \/ AddFails(t) \/ ExtendLow(t) \/ ExtendHigh(t)

Next == \E t \in Threads : Allocate(t) \/ AllocStep(t) \/ Fork(t)

Spec == Init /\ [][Next]_vars

\* A thread inside an allocation keeps running; a waiter gets the spinlock when
\* it is free often enough.
FairSpec == Spec /\ \A t \in Threads : SF_vars(AllocStep(t))

-----------------------------------------------------------------------------

Address(b) == regions[b.region].base + b.base

Owns(p) ==
  /\ p >= lo /\ p < hi
  /\ \E r \in DOMAIN regions :
       p >= regions[r].base /\ p < regions[r].base + regions[r].capacity

\* Blocks can be used and freed.  No two overlap and every byte of a returned
\* block is committed, also when several threads bump one region or wait for one
\* commit ("mprotect must complete before any thread may write to the
\* newly-committed range", ensureCommitted).  And free() recognises every
\* returned block, whatever order the kernel placed the regions in, also while
\* another thread has published a region and not yet extended the bounds: a block
\* of that region needs a commit, which waits for the lock addRegion's caller
\* holds ("a stale bound just causes an extra (correct) loop iteration in
\* owns()", addRegion).
BlocksUsable ==
  /\ \A b \in blocks : b.base + b.size <= regions[b.region].committed
  /\ \A b, c \in blocks :
       b # c /\ b.region = c.region =>
         b.base + b.size <= c.base \/ c.base + c.size <= b.base
  /\ \A b \in blocks : Owns(Address(b))

Allocating(t) == pc[t] \notin {"idle", "gone"}

\* Every allocation returns, with a block or without: growing the allocator never
\* waits for itself, and a child of fork() never waits for a lock whose owner it
\* does not have (bootstrap_alloc.h, ensureCommitted and atforkPrepare).
AllocationReturns ==
  \A t \in Threads : Allocating(t) ~> ~Allocating(t)

=============================================================================
