------------------------------ MODULE SlabHeap ------------------------------
(***************************************************************************)
(* Small objects of one size class: the threads' caches, one slab per      *)
(* arena with its lists of partial, full and empty spans, the stack of     *)
(* frees deferred because the slab's lock was taken, the magazine depot,   *)
(* and the map from a page range to its span.                              *)
(*                                                                         *)
(* A span covers one page range; which of its free slots an allocation     *)
(* takes depends on racy reads of the compressor's counters (warm, cooling *)
(* or compressed page), so it is any of them.  A thread's cache is one     *)
(* lane, shared by all arenas (arenas beyond kCacheLanes share lanes).     *)
(***************************************************************************)
EXTENDS Integers, Sequences, FiniteSets, SequencesExt

CONSTANTS
  Threads, Arenas,
  Ranges,       \* page ranges of a span's size that the region can give
  MaxSpans,     \* bound: spans made
  Slots,        \* 1..n, the slots of a span
  Cap,          \* slots of a new span in use at first; 0: all of them
  Depth,        \* kPerLaneDepth
  Batch,        \* objects per refill
  Magazine,     \* SMASH_MAGAZINE=1
  MaxMagazines, \* kMaxMagazines
  NodeCap,      \* kPendingNodeCap
  MaxResident,  \* residentEmptyMaxBytes(), in spans
  MaxTick,      \* bound: ticks
  None

VARIABLES
  slab,         \* per arena: partial and empty lists, full set
  span,         \* per span: its range, arena, free slots and counters
  made,         \* spans made so far
  pageMap,      \* range -> span, 0 for none
  state,        \* page state of a range, EMPTY or ACTIVE
  kept,         \* the objects whose contents are still in memory
  resident,     \* resident_empty_bytes_, in spans
  tick,         \* slab_tick_
  lock,         \* per slab: the holder of lock_
  pending,      \* per slab: the stack of deferred batches
  depth,        \* per slab: pending_depth_
  mags,         \* per slab: the magazines
  cache, live,  \* the objects in a thread's cache, and in the application
  pc, arena,    \* per thread: where it is, the slab it works on
  nodes,        \* per thread: batches taken off the pending stack
  work,         \* per thread: the batches of a drain, by arena
  got,          \* per thread: objects of a refill, or the one being freed
  turned        \* per thread: the refill has switched to an empty span

heap == <<slab, span, made, pageMap, state, kept, resident>>
shared == <<lock, pending, depth, mags, cache, live>>
local == <<pc, arena, nodes, work, got, turned>>
vars == <<heap, tick, shared, local>>

Spans == 1..MaxSpans
Objects == Ranges \X Slots
ObjectsIn(r) == {r} \X Slots
InitialSlots == IF Cap = 0 THEN Slots ELSE 1..Cap
Full(sp) == sp.allocated = sp.objects

TypeOK ==
  /\ \A a \in Arenas : /\ Range(slab[a].partial) \subseteq 1..made
                       /\ Range(slab[a].empty) \subseteq 1..made
                       /\ slab[a].full \subseteq 1..made
  /\ made \in 0..MaxSpans /\ pageMap \in [Ranges -> 0..MaxSpans]
  /\ state \in [Ranges -> {"EMPTY", "ACTIVE"}]
  /\ kept \subseteq Objects /\ live \subseteq Objects
  /\ resident \in 0..MaxSpans /\ tick \in 0..MaxTick
  /\ lock \in [Arenas -> Threads \cup {None}]
  /\ \A a \in Arenas : depth[a] \in -Cardinality(Threads)..NodeCap + Cardinality(Threads)
  /\ \A t \in Threads : Range(cache[t]) \subseteq Objects /\ Len(cache[t]) <= Depth
  /\ pc \in [Threads -> {"idle", "refill", "lock", "drain", "outer", "inner",
                         "dispatch", "try", "wait", "apply", "count"}]

NewSpan(r, a) ==
  [range |-> r, arena |-> a, free |-> InitialSlots, allocated |-> 0,
   objects |-> Cardinality(InitialSlots), capped |-> Cap # 0,
   resident |-> FALSE, since |-> 0]

Init ==
  /\ slab = [a \in Arenas |-> [partial |-> << >>, full |-> {}, empty |-> << >>]]
  /\ span = << >> /\ made = 0
  /\ pageMap = [r \in Ranges |-> 0] /\ state = [r \in Ranges |-> "EMPTY"]
  /\ kept = {} /\ resident = 0 /\ tick = 0
  /\ lock = [a \in Arenas |-> None]
  /\ pending = [a \in Arenas |-> << >>] /\ depth = [a \in Arenas |-> 0]
  /\ mags = [a \in Arenas |-> << >>]
  /\ cache = [t \in Threads |-> << >>] /\ live = {}
  /\ pc = [t \in Threads |-> "idle"] /\ arena = [t \in Threads |-> None]
  /\ nodes = [t \in Threads |-> << >>] /\ work = [t \in Threads |-> << >>]
  /\ got = [t \in Threads |-> << >>] /\ turned = [t \in Threads |-> FALSE]

Goto(t, place) == pc' = [pc EXCEPT ![t] = place]
Without(q, s) == SelectSeq(q, LAMBDA x : x # s)

-----------------------------------------------------------------------------
(* What one free does to the slab (deallocateOne, retireEmptySpan), as a   *)
(* function of the heap, so that a batch is a fold.                        *)

Heap == [slab |-> slab, span |-> span, state |-> state, kept |-> kept,
         resident |-> resident]

Becomes(h) ==
  /\ slab' = h.slab /\ span' = h.span /\ state' = h.state
  /\ kept' = h.kept /\ resident' = h.resident

\* Past the cap the memory goes at once; else the span stays resident a while.
RetireEmptySpan(h, s) ==
  LET r == h.span[s].range
      gone == [h EXCEPT !.state[r] = "EMPTY"]
  IN IF h.resident + 1 > MaxResident
     THEN [gone EXCEPT !.kept = @ \ ObjectsIn(r)]
     ELSE [gone EXCEPT !.span[s].resident = TRUE, !.span[s].since = tick,
                       !.resident = @ + 1]

SpanDeallocate(sp, slot) ==
  [sp EXCEPT !.free = @ \cup {slot}, !.allocated = @ - 1]

DeallocateOne(h, o, s) ==
  LET a == h.span[s].arena
      wasFull == Full(h.span[s])
      h1 == [h EXCEPT !.span[s] = SpanDeallocate(@, o[2])]
  IN IF wasFull
     THEN [h1 EXCEPT !.slab[a].full = @ \ {s}, !.slab[a].partial = <<s>> \o @]
     ELSE IF h1.span[s].allocated = 0
     THEN [RetireEmptySpan(h1, s) EXCEPT !.slab[a].partial = Without(@, s),
                                         !.slab[a].empty = <<s>> \o @]
     ELSE h1

\* A batch carries its objects with the spans they were resolved to.
DeallocateBatch(h, batch) ==
  FoldLeft(LAMBDA g, x : IF x.span = 0 THEN g ELSE DeallocateOne(g, x.obj, x.span),
           h, batch)

Resolve(objs) == [i \in DOMAIN objs |-> [obj |-> objs[i], span |-> pageMap[objs[i][1]]]]

ClearResident(h, s) ==
  IF h.span[s].resident
  THEN [h EXCEPT !.span[s].resident = FALSE, !.resident = @ - 1] ELSE h

\* The pages stay EMPTY.
ReuseEmptyMutant(h, a) ==
  LET s == Head(h.slab[a].empty)
  IN [ClearResident(h, s) EXCEPT !.slab[a].empty = Tail(@),
                                 !.slab[a].partial = <<s>> \o @]

\* The front of the empty list goes back into service (recommitEmptySpan).
ReuseEmpty(h, a) ==
  LET s == Head(h.slab[a].empty)
  IN [ClearResident(h, s) EXCEPT !.slab[a].empty = Tail(@),
                                 !.slab[a].partial = <<s>> \o @,
                                 !.state[h.span[s].range] = "ACTIVE"]

-----------------------------------------------------------------------------
(* malloc                                                                  *)

\* An object goes to the application, which will write it.
HandOut(o) == live' = live \cup {o} /\ kept' = kept \cup {o}

MallocCached(t) ==
  /\ pc[t] = "idle" /\ cache[t] # << >>
  /\ HandOut(Last(cache[t]))
  /\ cache' = [cache EXCEPT ![t] = Front(@)]
  /\ UNCHANGED <<slab, span, made, pageMap, state, resident, tick, lock, pending,
                 depth, mags, local>>

MallocMiss(t, a) ==
  /\ pc[t] = "idle" /\ cache[t] = << >>
  /\ arena' = [arena EXCEPT ![t] = a]
  /\ Goto(t, IF Magazine THEN "refill" ELSE "lock")
  /\ UNCHANGED <<heap, tick, shared, nodes, work, got, turned>>

\* The objects a refill got: the last is returned, the rest cached.
Refilled(t, objs) ==
  /\ IF objs = << >> THEN UNCHANGED <<live, kept, cache>>
     ELSE /\ HandOut(Last(objs))
          /\ cache' = [cache EXCEPT ![t] = Front(objs)]
  /\ Goto(t, "idle")
  /\ arena' = [arena EXCEPT ![t] = None]

MagazinePop(t) ==
  /\ pc[t] = "refill"
  /\ LET a == arena[t] IN
     IF mags[a] = << >>
     THEN Goto(t, "lock") /\ UNCHANGED <<mags, live, kept, cache, arena>>
     ELSE /\ Refilled(t, [i \in DOMAIN Head(mags[a]) |-> Head(mags[a])[i].obj])
          /\ mags' = [mags EXCEPT ![a] = Tail(@)]
  /\ UNCHANGED <<slab, span, made, pageMap, state, resident, tick, lock, pending,
                 depth, nodes, work, got, turned>>

LockSlab(t) ==
  /\ pc[t] \in {"lock", "wait"}
  /\ lock[arena[t]] = None
  /\ lock' = [lock EXCEPT ![arena[t]] = t]
  /\ Goto(t, "drain")
  /\ UNCHANGED <<heap, tick, pending, depth, mags, cache, live, arena, nodes,
                 work, got, turned>>

\* drainPending: the whole stack is taken in one exchange.
TakePending(t) ==
  /\ pc[t] = "drain" /\ nodes[t] = << >>
  /\ IF pending[arena[t]] = << >>
     THEN /\ Goto(t, IF work[t] = << >> THEN "outer" ELSE "apply")
          /\ UNCHANGED <<pending, nodes>>
     ELSE /\ nodes' = [nodes EXCEPT ![t] = pending[arena[t]]]
          /\ pending' = [pending EXCEPT ![arena[t]] = << >>]
          /\ UNCHANGED pc
  /\ UNCHANGED <<heap, tick, lock, depth, mags, cache, live, arena, work, got,
                 turned>>

ApplyNode(t) ==
  /\ pc[t] = "drain" /\ nodes[t] # << >>
  /\ Becomes(DeallocateBatch(Heap, Head(nodes[t])))
  /\ depth' = [depth EXCEPT ![arena[t]] = @ - 1]
  /\ nodes' = [nodes EXCEPT ![t] = Tail(@)]
  /\ Goto(t, IF Len(nodes[t]) > 1 THEN "drain"
             ELSE IF work[t] = << >> THEN "outer" ELSE "apply")
  /\ UNCHANGED <<made, pageMap, tick, lock, pending, mags, cache, live, arena,
                 work, got, turned>>

\* allocateBatch, the outer loop: the front partial span, an empty one, a new
\* one, or none; maybeWiden may lift its cap.
Widen(s) ==
  LET more == Slots \ InitialSlots IN
  {[sp EXCEPT !.free = @ \cup more, !.objects = @ + Cardinality(more),
              !.capped = FALSE] : sp \in {x \in {span[s]} : x.capped}}

RefillUnlock(t) ==
  /\ lock' = [lock EXCEPT ![arena[t]] = None]
  /\ got' = [got EXCEPT ![t] = << >>]
  /\ turned' = [turned EXCEPT ![t] = FALSE]
  /\ Refilled(t, got[t])

RefillFront(t) ==
  /\ pc[t] = "outer" /\ Len(got[t]) < Batch
  /\ slab[arena[t]].partial # << >>
  /\ \/ UNCHANGED span
     \/ \E sp \in Widen(Head(slab[arena[t]].partial)) :
          span' = [span EXCEPT ![Head(slab[arena[t]].partial)] = sp]
  /\ Goto(t, "inner")
  /\ UNCHANGED <<slab, made, pageMap, state, kept, resident, tick, shared, arena,
                 nodes, work, got, turned>>

RefillEmpty(t) ==
  /\ pc[t] = "outer" /\ Len(got[t]) < Batch
  /\ slab[arena[t]].partial = << >> /\ slab[arena[t]].empty # << >>
  /\ Becomes(ReuseEmpty(Heap, arena[t]))
  /\ UNCHANGED <<made, pageMap, tick, shared, local>>

\* allocateNewSpan
RefillNew(t, r) ==
  /\ pc[t] = "outer" /\ Len(got[t]) < Batch
  /\ slab[arena[t]].partial = << >> /\ slab[arena[t]].empty = << >>
  /\ pageMap[r] = 0 /\ made < MaxSpans
  /\ made' = made + 1
  /\ span' = Append(span, NewSpan(r, arena[t]))
  /\ pageMap' = [pageMap EXCEPT ![r] = made + 1]
  /\ state' = [state EXCEPT ![r] = "ACTIVE"]
  /\ slab' = [slab EXCEPT ![arena[t]].partial = <<made + 1>>]
  /\ UNCHANGED <<kept, resident, tick, shared, local>>

\* The batch is complete, or the region has no pages left.
RefillEnd(t) ==
  /\ pc[t] = "outer"
  /\ \/ Len(got[t]) = Batch
     \/ /\ slab[arena[t]].partial = << >> /\ slab[arena[t]].empty = << >>
        /\ made = MaxSpans \/ \A r \in Ranges : pageMap[r] # 0
  /\ RefillUnlock(t)
  /\ UNCHANGED <<slab, span, made, pageMap, state, resident, tick, pending, depth,
                 mags, nodes, work>>

\* The inner loop takes free slots of the front span, ...
TakeSlot(t, slot) ==
  LET s == Head(slab[arena[t]].partial) IN
  /\ pc[t] = "inner" /\ Len(got[t]) < Batch
  /\ slot \in span[s].free
  /\ span' = [span EXCEPT ![s].free = @ \ {slot}, ![s].allocated = @ + 1]
  /\ got' = [got EXCEPT ![t] = Append(@, <<span[s].range, slot>>)]
  /\ UNCHANGED <<slab, made, pageMap, state, kept, resident, tick, shared, pc,
                 arena, nodes, work, turned>>

\* ... or, once a refill, leaves a span without warm slots for an empty one (a
\* span just taken into service is warm: resetColdCounts); ...
Redirect(t) ==
  LET a == arena[t]
      s == Head(slab[a].partial)
      turn == [Heap EXCEPT !.slab[a].partial = Append(Tail(@), s)]
  IN /\ pc[t] = "inner" /\ Len(got[t]) < Batch
     /\ span[s].free # {} /\ span[s].allocated > 0
     /\ ~turned[t] /\ slab[a].empty # << >>
     /\ Becomes(ReuseEmpty(turn, a))
     /\ turned' = [turned EXCEPT ![t] = TRUE]
     /\ Goto(t, "outer")
     /\ UNCHANGED <<made, pageMap, tick, shared, arena, nodes, work, got>>

\* ... and moves a span it has filled to the full list.
InnerEnd(t) ==
  LET a == arena[t]
      s == Head(slab[a].partial)
  IN /\ pc[t] = "inner"
     /\ Len(got[t]) = Batch \/ span[s].free = {}
     /\ IF Full(span[s])
        THEN slab' = [slab EXCEPT ![a].partial = Tail(@), ![a].full = @ \cup {s}]
        ELSE UNCHANGED slab
     /\ Goto(t, "outer")
     /\ UNCHANGED <<span, made, pageMap, state, kept, resident, tick, shared, arena,
                    nodes, work, got, turned>>

-----------------------------------------------------------------------------
(* free, and the exit of a thread                                          *)

FreeCached(t, o) ==
  /\ pc[t] = "idle" /\ o \in live /\ Len(cache[t]) < Depth
  /\ live' = live \ {o}
  /\ cache' = [cache EXCEPT ![t] = Append(@, o)]
  /\ UNCHANGED <<heap, tick, lock, pending, depth, mags, local>>

\* drainRangeToSlabs: one batch for each arena that has objects in the range.
ByArena(objs) ==
  LET batch(a) == SelectSeq(Resolve(objs), LAMBDA x : span[x.span].arena = a)
  IN SelectSeq([i \in 1..Cardinality(Arenas) |->
                  LET a == SetToSeq(Arenas)[i] IN [arena |-> a, batch |-> batch(a)]],
               LAMBDA w : w.batch # << >>)

\* The drained half begins one object too low.
FreeDrainMutant(t, o) ==
  /\ pc[t] = "idle" /\ o \in live /\ Len(cache[t]) = Depth
  /\ LET start == Depth - (Depth \div 2)
     IN /\ work' = [work EXCEPT ![t] = ByArena(SubSeq(cache[t], start, Depth))]
        /\ cache' = [cache EXCEPT ![t] = SubSeq(@, 1, start)]
  /\ live' = live \ {o}
  /\ got' = [got EXCEPT ![t] = <<o>>]
  /\ Goto(t, "dispatch")
  /\ UNCHANGED <<heap, tick, lock, pending, depth, mags, arena, nodes, turned>>

\* The lane is full: its upper half is drained, then the object is cached.
FreeDrain(t, o) ==
  /\ pc[t] = "idle" /\ o \in live /\ Len(cache[t]) = Depth
  /\ LET some == IF Depth \div 2 = 0 THEN Depth ELSE Depth \div 2
         start == Depth - some
     IN /\ work' = [work EXCEPT ![t] = ByArena(SubSeq(cache[t], start + 1, Depth))]
        /\ cache' = [cache EXCEPT ![t] = SubSeq(@, 1, start)]
  /\ live' = live \ {o}
  /\ got' = [got EXCEPT ![t] = <<o>>]
  /\ Goto(t, "dispatch")
  /\ UNCHANGED <<heap, tick, lock, pending, depth, mags, arena, nodes, turned>>

\* threadCleanup: drainAll.
ThreadExit(t) ==
  /\ pc[t] = "idle" /\ cache[t] # << >>
  /\ work' = [work EXCEPT ![t] = ByArena(cache[t])]
  /\ cache' = [cache EXCEPT ![t] = << >>]
  /\ Goto(t, "dispatch")
  /\ UNCHANGED <<heap, tick, lock, pending, depth, mags, live, arena, nodes, got,
                 turned>>

DrainDone(t) ==
  /\ pc[t] = "dispatch" /\ work[t] = << >>
  /\ cache' = [cache EXCEPT ![t] = @ \o got[t]]
  /\ got' = [got EXCEPT ![t] = << >>]
  /\ arena' = [arena EXCEPT ![t] = None]
  /\ Goto(t, "idle")
  /\ UNCHANGED <<heap, tick, lock, pending, depth, mags, live, nodes, work, turned>>

\* pending_depth_ is unsigned: a negative depth here is a huge one there.
\* dispatchToSlab: a magazine if the depot has room, else the slab; a stack of
\* deferred frees that is too deep makes the caller wait for the lock.
Dispatch(t) ==
  /\ pc[t] = "dispatch" /\ work[t] # << >>
  /\ LET w == Head(work[t]) IN
     /\ arena' = [arena EXCEPT ![t] = w.arena]
     /\ IF Magazine /\ Len(mags[w.arena]) < MaxMagazines
        THEN /\ mags' = [mags EXCEPT ![w.arena] = <<w.batch>> \o @]
             /\ work' = [work EXCEPT ![t] = Tail(@)]
             /\ UNCHANGED pc
        ELSE /\ Goto(t, IF depth[w.arena] \in 0..NodeCap - 1 THEN "try" ELSE "wait")
             /\ UNCHANGED <<mags, work>>
  /\ UNCHANGED <<heap, tick, lock, pending, depth, cache, live, nodes, got, turned>>

\* tryLock, or push the batch and let a later holder apply it.
TryLock(t) ==
  /\ pc[t] = "try" /\ lock[arena[t]] = None
  /\ lock' = [lock EXCEPT ![arena[t]] = t]
  /\ Goto(t, "drain")
  /\ UNCHANGED <<heap, tick, pending, depth, mags, cache, live, arena, nodes,
                 work, got, turned>>

PushPending(t) ==
  /\ pc[t] = "try" /\ lock[arena[t]] # None
  /\ pending' = [pending EXCEPT ![arena[t]] = <<Head(work[t]).batch>> \o @]
  /\ work' = [work EXCEPT ![t] = Tail(@)]
  /\ Goto(t, "count")
  /\ UNCHANGED <<heap, tick, lock, depth, mags, cache, live, arena, nodes, got,
                 turned>>

CountPending(t) ==
  /\ pc[t] = "count"
  /\ depth' = [depth EXCEPT ![arena[t]] = @ + 1]
  /\ Goto(t, "dispatch")
  /\ UNCHANGED <<heap, tick, lock, pending, mags, cache, live, arena, nodes, work,
                 got, turned>>

ApplyBatch(t) ==
  /\ pc[t] = "apply"
  /\ Becomes(DeallocateBatch(Heap, Head(work[t]).batch))
  /\ lock' = [lock EXCEPT ![arena[t]] = None]
  /\ work' = [work EXCEPT ![t] = Tail(@)]
  /\ Goto(t, "dispatch")
  /\ UNCHANGED <<made, pageMap, tick, pending, depth, mags, cache, live, arena,
                 nodes, got, turned>>

-----------------------------------------------------------------------------
(* The compressor's tick: advanceTick, then purgeResidentEmpty per slab.   *)

kResidentEmptyTicks == 2

Tick ==
  /\ tick < MaxTick /\ tick' = tick + 1
  /\ UNCHANGED <<heap, shared, local>>

PurgeResidentEmpty(a) ==
  LET due == {s \in Range(slab[a].empty) :
                span[s].resident /\ tick - span[s].since >= kResidentEmptyTicks}
  IN /\ lock[a] = None /\ due # {}
     /\ span' = [s \in DOMAIN span |->
          IF s \in due THEN [span[s] EXCEPT !.resident = FALSE] ELSE span[s]]
     /\ resident' = resident - Cardinality(due)
     /\ kept' = kept \ UNION {ObjectsIn(span[s].range) : s \in due}
     /\ UNCHANGED <<slab, made, pageMap, state, tick, shared, local>>

\* scavenge: deferred frees and magazines first, then every empty span leaves
\* its range to the region.
Scavenge(a) ==
  LET h == FoldLeft(DeallocateBatch, Heap, pending[a] \o mags[a])
      gone == Range(h.slab[a].empty)
      ranges == {h.span[s].range : s \in gone}
  IN /\ lock[a] = None
     /\ pending[a] \o mags[a] # << >> \/ slab[a].empty # << >>
     /\ pending' = [pending EXCEPT ![a] = << >>]
     /\ depth' = [depth EXCEPT ![a] = @ - Len(pending[a])]
     /\ mags' = [mags EXCEPT ![a] = << >>]
     /\ slab' = [h.slab EXCEPT ![a].empty = << >>]
     /\ span' = [s \in DOMAIN span |->
          IF s \in gone THEN [h.span[s] EXCEPT !.resident = FALSE] ELSE h.span[s]]
     /\ resident' = h.resident - Cardinality({s \in gone : h.span[s].resident})
     /\ pageMap' = [r \in Ranges |-> IF r \in ranges THEN 0 ELSE pageMap[r]]
     /\ state' = h.state
     /\ kept' = h.kept \ UNION {ObjectsIn(r) : r \in ranges}
     /\ UNCHANGED <<made, tick, lock, cache, live, local>>

ThreadStep(t) ==
  \/ MagazinePop(t) \/ LockSlab(t) \/ TakePending(t) \/ ApplyNode(t)
  \/ RefillFront(t) \/ RefillEmpty(t) \/ (\E r \in Ranges : RefillNew(t, r))
  \/ RefillEnd(t) \/ (\E slot \in Slots : TakeSlot(t, slot)) \/ Redirect(t)
  \/ InnerEnd(t) \/ DrainDone(t) \/ Dispatch(t) \/ TryLock(t) \/ PushPending(t)
  \/ CountPending(t) \/ ApplyBatch(t)

Next ==
  \/ \E t \in Threads : \/ MallocCached(t) \/ ThreadExit(t) \/ ThreadStep(t)
                        \/ \E a \in Arenas : MallocMiss(t, a)
                        \/ \E o \in live : FreeCached(t, o) \/ FreeDrain(t, o)
  \/ Tick
  \/ \E a \in Arenas : PurgeResidentEmpty(a) \/ Scavenge(a)

Spec == Init /\ [][Next]_vars

\* A thread inside malloc or free keeps running.
FairSpec == Spec /\ \A t \in Threads : WF_vars(ThreadStep(t))

-----------------------------------------------------------------------------

Bag(q) == [i \in DOMAIN q |-> q[i].obj]
Outside(a) ==
  {<<"pending", a, i, Bag(pending[a][i])>> : i \in DOMAIN pending[a]}
    \cup {<<"mags", a, i, Bag(mags[a][i])>> : i \in DOMAIN mags[a]}
Held(t) ==
  {<<"cache", t, 0, cache[t]>>, <<"got", t, 0, got[t]>>}
    \cup {<<"nodes", t, i, Bag(nodes[t][i])>> : i \in DOMAIN nodes[t]}
    \cup {<<"work", t, i, Bag(work[t][i].batch)>> : i \in DOMAIN work[t]}

\* The places where an object is between the application and its span.
Places == UNION {Outside(a) : a \in Arenas} \cup UNION {Held(t) : t \in Threads}
PlacesOf(o) == {<<p, i>> \in Places \X (1..Cardinality(Objects)) :
                  i \in DOMAIN p[4] /\ p[4][i] = o}

\* A slot of a span in service is in exactly one place: free in its span's
\* bitmap, with the application, or once in one cache, magazine, deferred batch
\* or refill.  So no object is handed out twice and none is lost on the way from
\* one thread's free to another's malloc.
SlotInOnePlace ==
  \A r \in {x \in Ranges : pageMap[x] # 0} :
    LET sp == span[pageMap[r]] IN
    \A slot \in IF sp.capped THEN InitialSlots ELSE Slots :
      Cardinality(PlacesOf(<<r, slot>>))
        + (IF slot \in sp.free THEN 1 ELSE 0)
        + (IF <<r, slot>> \in live THEN 1 ELSE 0) = 1

\* A span outlives its objects.  The span a batch was resolved to when it was
\* freed is still the span of its pages when it is applied, however long it was
\* deferred (drainRangeToSlabs, pushPending); and the pages of an object the
\* application holds are not dropped and stay known to the compressor: an empty
\* span is decommitted only while it is empty, and is ACTIVE before it is used
\* again (purgeResidentEmpty, retireEmptySpan, recommitEmptySpan).
SpanOutlivesObjects ==
  /\ \A a \in Arenas : \A b \in Range(pending[a]) \cup Range(mags[a]) :
       \A x \in Range(b) : x.span # 0 /\ pageMap[x.obj[1]] = x.span
  /\ \A t \in Threads : \A w \in Range(work[t]) : \A x \in Range(w.batch) :
       x.span # 0 /\ pageMap[x.obj[1]] = x.span
  /\ \A o \in live : pageMap[o[1]] # 0 /\ o \in kept /\ state[o[1]] = "ACTIVE"

\* While no thread is inside the slab, its lists say what the bitmaps say: a full
\* span is in the full list, an empty one in the empty list (but for a span of a
\* single slot, which goes from full to partial and stays there), and the
\* counters match; the resident spans are the ones that are counted.
ListsMatchBitmaps ==
  /\ \A a \in {x \in Arenas : lock[x] = None} :
       /\ \A s \in slab[a].full : span[s].free = {}
       /\ \A s \in Range(slab[a].partial) : span[s].free # {} /\
            (span[s].objects > 1 => span[s].allocated > 0)
       /\ \A s \in Range(slab[a].empty) : span[s].allocated = 0
       /\ \A s \in slab[a].full \cup Range(slab[a].partial \o slab[a].empty) :
            span[s].allocated = span[s].objects - Cardinality(span[s].free)
  /\ resident = Cardinality({s \in 1..made : span[s].resident})
  /\ \A s \in 1..made : span[s].resident =>
       s \in Range(slab[span[s].arena].empty)

\* The stack of deferred batches stays within the cap plus one batch per thread
\* that had read the depth before the others pushed, although the depth is
\* counted after the push and may pass below zero (deallocateBatchDeferred).
PendingBounded ==
  \A a \in Arenas : Len(pending[a]) <= NodeCap + Cardinality(Threads) - 1

Owner(a, t) == lock[a] = t

\* A thread that takes a slab's lock gives it back: the refill's loops end,
\* redirected or not, and so do the drains (allocateBatch, drainPending).
LockReleased ==
  \A a \in Arenas, t \in Threads : Owner(a, t) ~> ~Owner(a, t)

=============================================================================
