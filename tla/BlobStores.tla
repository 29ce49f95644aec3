----------------------------- MODULE BlobStores -----------------------------
(***************************************************************************)
(* Where compressed pages live: CompressStore (anonymous memory) and       *)
(* SpillStore (a shared file mapping), the compressor's moves of a blob    *)
(* from one to the other, the fault that takes it back, and the copy a     *)
(* forked child makes of its spilled blobs.                                *)
(*                                                                         *)
(* Sizes are in units of the 16-byte alignment, so a free slot is either   *)
(* taken whole or split.  A store operation is one step (it holds its      *)
(* shard's lock) and so is what the compressor does to a page under the    *)
(* page's lock; what it does after the unlock is a step of its own.        *)
(* ensureSpillReady reads and writes plain flags, each access a step.  Two *)
(* workers can pass it together; then the second mapping replaces the      *)
(* first, and what releasing a blob of the first does is undefined: the    *)
(* model notes it in wild and follows the stores no further.               *)
(***************************************************************************)
EXTENDS Integers, Sequences, FiniteSets, SequencesExt, FiniteSetsExt

CONSTANTS
  Pages,        \* page indices
  Workers,      \* compressor workers
  Shards,       \* kCompressStoreShards
  Capacity,     \* units of a region (kRegionSize)
  AnonRegions,  \* bound: regions that mmap can give
  SpillSlots,   \* regions in the spill file
  Sizes,        \* compressed sizes
  DeepTier,     \* kDeepTierEnabled
  MayFork,      \* the process forks once
  Node,         \* the free-list node at the head of a free slot
  None

\* "child" is the forked child's copy of the anonymous store.
Stores == {"anon", "spill", "child"}
kDataStart == 1
Regions(s) == 1..(IF s = "spill" THEN SpillSlots ELSE AnonRegions)

VARIABLES
  region,       \* per store and region: offset, live_bytes, free list
  chain,        \* per store and shard: its regions, the current one first
  cell,         \* per store and region: the page whose blob is in each unit
  blob,         \* compressed_: where a page's blob is, None if it has none
  tier,         \* page_tier_
  ready, initDone, generation,   \* spill_.ready(), spill_init_done_, mappings made
  raced,                         \* history: a worker took a set-up another had taken
  wild,                          \* a blob was released into a mapping it is not in
  spilledCount,
  locked,                        \* pages whose lock a recompression holds
  pc, page, old, size,           \* per worker; size # 0 in a recompression
  forked, childBlob, childTodo,  \* the child's compressed_, what it has to copy
  gone                           \* history: of these, blobs the parent has released

storeVars == <<region, chain, cell>>
pageVars == <<blob, tier>>
spillVars == <<ready, initDone, generation, raced, wild>>
workerVars == <<locked, pc, page, old, size>>
childVars == <<forked, childBlob, childTodo, gone>>
vars == <<storeVars, pageVars, spillVars, spilledCount, workerVars, childVars>>

FreshRegion == [off |-> kDataStart, live |-> 0, free |-> << >>]
NoData == [u \in kDataStart..Capacity - 1 |-> None]
Shard(p) == p % Shards
Tiers == {"none", "fast", "tried", "deep", "spilled"}

TypeOK ==
  /\ \A s \in Stores : \A r \in Regions(s) :
       /\ region[s][r].off \in kDataStart..Capacity /\ region[s][r].live \in 0..Capacity
       /\ cell[s][r] \in [kDataStart..Capacity - 1 -> Pages \cup {None, Node}]
  /\ \A s \in Stores : \A k \in 0..Shards - 1 : Range(chain[s][k]) \subseteq Regions(s)
  /\ \A p \in Pages : blob[p] = None \/ blob[p].store \in Stores
  /\ tier \in [Pages -> Tiers]
  /\ {ready, initDone, raced, wild} \subseteq BOOLEAN
  /\ forked \in {"no", "copying", "done"} /\ childTodo \cup gone \subseteq Pages

\* CompressStore::init gives each shard a region.
Init ==
  /\ region = [s \in Stores |-> [r \in Regions(s) |-> FreshRegion]]
  /\ chain = [s \in Stores |-> [k \in 0..Shards - 1 |->
                IF s = "spill" THEN << >> ELSE <<k + 1>>]]
  /\ cell = [s \in Stores |-> [r \in Regions(s) |-> NoData]]
  /\ blob = [p \in Pages |-> None] /\ tier = [p \in Pages |-> "none"]
  /\ ready = FALSE /\ initDone = FALSE /\ generation = 0
  /\ raced = FALSE /\ wild = FALSE
  /\ spilledCount = 0
  /\ pc = [w \in Workers |-> "idle"] /\ page = [w \in Workers |-> None]
  /\ old = [w \in Workers |-> None] /\ size = [w \in Workers |-> 0]
  /\ locked = {}
  /\ forked = "no" /\ childBlob = [p \in Pages |-> None]
  /\ childTodo = {} /\ gone = {}

-----------------------------------------------------------------------------
(* The two stores                                                          *)

\* tryFreeList: the first free slot that is large enough, 0 if none is.
FreeSlot(s, r, n) == SelectInSeq(region[s][r].free, LAMBDA f : f.size >= n)

\* The rest of the slot begins one unit too low.
SplitSlotMutant(free, i, n) ==
  IF free[i].size = n THEN RemoveAt(free, i)
  ELSE ReplaceAt(free, i, [at |-> free[i].at + n - 1, size |-> free[i].size - n])

\* The tail of a larger slot stays on the list.
SplitSlot(free, i, n) ==
  IF free[i].size = n THEN RemoveAt(free, i)
  ELSE ReplaceAt(free, i, [at |-> free[i].at + n, size |-> free[i].size - n])

\* The current region is bumped; an older one only after it was reset.
CanBump(s, k, i, n) ==
  LET r == region[s][chain[s][k][i]]
  IN /\ r.off + n <= Capacity
     /\ i = 1 \/ (r.live = 0 /\ r.off = kDataStart)

\* newRegion: mmap, or the next slot of the file; 0 when there is none left.
NewRegion(s) ==
  LET taken == UNION {Range(chain[s][k]) : k \in 0..Shards - 1}
      left == Regions(s) \ taken
  IN IF left = {} THEN 0 ELSE Min(left)

\* Where bumpAlloc puts n units: the region and the unit, or None.
BumpAlloc(s, k, n) ==
  LET c == chain[s][k]
      fits == {i \in DOMAIN c : FreeSlot(s, c[i], n) # 0 \/ CanBump(s, k, i, n)}
      r == c[Min(fits)]
      f == FreeSlot(s, r, n)
  IN IF fits # {}
     THEN [store |-> s, gen |-> generation, reg |-> r, size |-> n,
           at |-> IF f # 0 THEN region[s][r].free[f].at ELSE region[s][r].off]
     ELSE IF NewRegion(s) # 0
     THEN [store |-> s, gen |-> generation, reg |-> NewRegion(s), size |-> n,
           at |-> kDataStart]
     ELSE None

Units(b) == b.at..b.at + b.size - 1

\* store: the slot is taken and the blob's bytes are written.
StoreAt(b, k, p) ==
  LET r == region[b.store][b.reg]
      f == SelectInSeq(r.free, LAMBDA x : x.at = b.at)
      isNew == b.reg \notin Range(chain[b.store][k])
      after == IF isNew THEN [FreshRegion EXCEPT !.off = b.at + b.size, !.live = b.size]
               ELSE IF f # 0
               THEN [r EXCEPT !.free = SplitSlot(@, f, b.size), !.live = @ + b.size]
               ELSE [r EXCEPT !.off = b.at + b.size, !.live = @ + b.size]
      tail == IF f # 0 /\ r.free[f].size > b.size THEN {b.at + b.size} ELSE {}
  IN /\ region' = [region EXCEPT ![b.store][b.reg] = after]
     /\ chain' = IF isNew THEN [chain EXCEPT ![b.store][k] = <<b.reg>> \o @] ELSE chain
     /\ cell' = [cell EXCEPT ![b.store][b.reg] =
                   [u \in DOMAIN @ |-> IF u \in Units(b) THEN p
                                       ELSE IF u \in tail THEN Node ELSE @[u]]]

\* release: the region is decommitted (or the file punched) when it empties,
\* else the slot goes to its free list, the list's node in its first bytes.
Release(b) ==
  LET r == region[b.store][b.reg]
  IN IF r.live <= b.size
     THEN /\ region' = [region EXCEPT ![b.store][b.reg] =
                          [FreshRegion EXCEPT !.live = r.live - b.size]]
          /\ cell' = [cell EXCEPT ![b.store][b.reg] = NoData]
     ELSE /\ region' = [region EXCEPT ![b.store][b.reg] =
                          [r EXCEPT !.live = @ - b.size,
                             !.free = <<[at |-> b.at, size |-> b.size]>> \o @]]
          /\ cell' = [cell EXCEPT ![b.store][b.reg][b.at] = Node]

-----------------------------------------------------------------------------
(* The pages                                                               *)

\* A spilled blob in the mapping that a second set-up replaced.
Stale(b) == b.store = "spill" /\ b.gen # generation

\* compressPage stores the blob; without room the page stays as it was.  In a
\* build with the deep tier the fast one may already have been passed over.
Compress(p, n) ==
  LET b == BumpAlloc("anon", Shard(p), n)
  IN /\ blob[p] = None /\ b # None
     /\ StoreAt(b, Shard(p), p)
     /\ blob' = [blob EXCEPT ![p] = b]
     /\ \E t \in {"fast"} \cup (IF DeepTier THEN {"deep"} ELSE {}) :
          tier' = [tier EXCEPT ![p] = t]
     /\ UNCHANGED <<spillVars, spilledCount, workerVars, childVars>>

\* A fault decompresses the page and releaseBlob's the blob.
Fault(p) ==
  /\ blob[p] # None /\ p \notin locked
  /\ IF Stale(blob[p])
     THEN wild' = TRUE /\ UNCHANGED <<region, cell>>
     ELSE Release(blob[p]) /\ UNCHANGED wild
  /\ blob' = [blob EXCEPT ![p] = None]
  /\ tier' = [tier EXCEPT ![p] = "none"]
  /\ spilledCount' = IF tier[p] = "spilled" THEN spilledCount - 1 ELSE spilledCount
  /\ gone' = IF blob[p].store = "spill" THEN gone \cup ({p} \cap childTodo) ELSE gone
  /\ UNCHANGED <<chain, ready, initDone, generation, raced, workerVars,
                 forked, childBlob, childTodo>>

-----------------------------------------------------------------------------
(* The workers' visit of a very cold page                                  *)

Goto(w, place) ==
  /\ pc' = [pc EXCEPT ![w] = place]
  /\ page' = IF place = "idle" THEN [page EXCEPT ![w] = None] ELSE page
Upgradable(p) == DeepTier /\ tier[p] = "fast"
Terminal(p) == tier[p] \in {"deep", "tried"} \/ (~DeepTier /\ tier[p] = "fast")

\* Each page is in the range of one worker.
Visit(w, p) ==
  /\ pc[w] = "idle" /\ blob[p] # None /\ \A v \in Workers : page[v] # p
  /\ Upgradable(p) \/ Terminal(p)
  /\ pc' = [pc EXCEPT ![w] = IF Upgradable(p) THEN "recompress" ELSE "ensure"]
  /\ page' = [page EXCEPT ![w] = p]
  /\ UNCHANGED <<storeVars, pageVars, spillVars, spilledCount, locked, old, size,
                 childVars>>

AfterEnsure(w, ok) ==
  IF size[w] # 0 THEN IF ok THEN "store" ELSE "storeAnon"
  ELSE IF ok THEN "spill" ELSE "idle"

\* ensureSpillReady: spill_.ready(), and then spill_init_done_.
EnsureSpillReady(w) ==
  /\ \/ pc[w] = "ensure" /\ Goto(w, IF ready THEN AfterEnsure(w, TRUE) ELSE "flag")
     \/ pc[w] = "flag" /\ Goto(w, IF initDone THEN AfterEnsure(w, FALSE) ELSE "take")
  /\ UNCHANGED <<storeVars, pageVars, spillVars, spilledCount, locked, old, size,
                 childVars>>

\* spill_init_done_ = true.
TakeSetUp(w) ==
  /\ pc[w] = "take"
  /\ initDone' = TRUE
  /\ raced' = (raced \/ initDone)
  /\ Goto(w, "setup")
  /\ UNCHANGED <<storeVars, pageVars, ready, generation, wild, spilledCount, locked,
                 old, size, childVars>>

\* The file is made and mapped, or something fails for good.
SetUpSpill(w) ==
  /\ pc[w] = "setup"
  /\ \/ /\ ready' = TRUE
        /\ generation' = generation + 1
        /\ region' = [region EXCEPT !["spill"] = [r \in Regions("spill") |-> FreshRegion]]
        /\ chain' = [chain EXCEPT !["spill"] = [k \in 0..Shards - 1 |-> << >>]]
        /\ cell' = [cell EXCEPT !["spill"] = [r \in Regions("spill") |-> NoData]]
        /\ Goto(w, AfterEnsure(w, TRUE))
     \/ Goto(w, AfterEnsure(w, FALSE)) /\ UNCHANGED <<storeVars, ready, generation>>
  /\ UNCHANGED <<pageVars, initDone, raced, wild, spilledCount, locked, old, size,
                 childVars>>

\* maybeSpillPage under the page's lock (a contended page is left for later):
\* the blob is copied to the file and the page points there.
MaybeSpillPage(w) ==
  LET p == page[w]
      b == BumpAlloc("spill", Shard(p), blob[p].size)
      applies == p \notin locked /\ blob[p] # None /\ tier[p] \in {"deep", "tried"}
  IN /\ pc[w] = "spill"
     /\ IF ~applies \/ b = None
        THEN Goto(w, "idle") /\ UNCHANGED <<storeVars, pageVars, spilledCount, old>>
        ELSE /\ StoreAt(b, Shard(p), p)
             /\ blob' = [blob EXCEPT ![p] = b]
             /\ tier' = [tier EXCEPT ![p] = "spilled"]
             /\ spilledCount' = spilledCount + 1
             /\ old' = [old EXCEPT ![w] = blob[p]]
             /\ Goto(w, "release")
     /\ UNCHANGED <<spillVars, locked, size, childVars>>

\* recompressPage under the page's lock: the blob has the deep algorithm already,
\* or too little is gained, or the spill file is tried first for a smaller blob.
RecompressPage(w, n) ==
  LET p == page[w]
  IN /\ pc[w] = "recompress" /\ p \notin locked
     /\ \/ /\ blob[p] = None
           /\ Goto(w, "idle")
           /\ UNCHANGED <<tier, locked, size>>
        \/ /\ blob[p] # None
           /\ \/ tier' = [tier EXCEPT ![p] = "deep"]
              \/ n >= blob[p].size /\ tier' = [tier EXCEPT ![p] = "tried"]
           /\ Goto(w, "idle")
           /\ UNCHANGED <<locked, size>>
        \/ /\ blob[p] # None /\ n < blob[p].size
           /\ locked' = locked \cup {p}
           /\ size' = [size EXCEPT ![w] = n]
           /\ Goto(w, "ensure")
           /\ UNCHANGED tier
     /\ UNCHANGED <<storeVars, blob, spillVars, spilledCount, old, childVars>>

StoreRecompressed(w) ==
  LET p == page[w]
      inFile == IF pc[w] = "store" THEN BumpAlloc("spill", Shard(p), size[w]) ELSE None
      b == IF inFile # None THEN inFile ELSE BumpAlloc("anon", Shard(p), size[w])
  IN /\ pc[w] \in {"store", "storeAnon"}
     /\ IF b = None
        THEN Goto(w, "idle") /\ UNCHANGED <<storeVars, pageVars, spilledCount, old>>
        ELSE /\ StoreAt(b, Shard(p), p)
             /\ blob' = [blob EXCEPT ![p] = b]
             /\ tier' = [tier EXCEPT ![p] = IF inFile # None THEN "spilled" ELSE "deep"]
             /\ spilledCount' = spilledCount + (IF inFile # None THEN 1 ELSE 0)
             /\ old' = [old EXCEPT ![w] = blob[p]]
             /\ Goto(w, "release")
     /\ size' = [size EXCEPT ![w] = 0]
     /\ locked' = locked \ {p}
     /\ UNCHANGED <<spillVars, childVars>>

\* The old blob is released after the unlock.
ReleaseOld(w) ==
  /\ pc[w] = "release"
  /\ Release(old[w])
  /\ old' = [old EXCEPT ![w] = None]
  /\ Goto(w, "idle")
  /\ UNCHANGED <<chain, pageVars, spillVars, spilledCount, locked, size,
                 childVars>>

-----------------------------------------------------------------------------
(* fork, the workers being between ticks (TickDispatch has the fork that   *)
(* gave up waiting for that).  The child's memory is a copy, but it shares *)
(* the file with the parent, which runs on, until resetForFork is through. *)

InChild(b) == IF b # None /\ b.store = "anon" THEN [b EXCEPT !.store = "child"] ELSE b

Fork ==
  /\ MayFork /\ forked = "no" /\ \A w \in Workers : pc[w] = "idle"
  /\ forked' = "copying"
  /\ region' = [region EXCEPT !["child"] = region["anon"]]
  /\ chain' = [chain EXCEPT !["child"] = chain["anon"]]
  /\ cell' = [cell EXCEPT !["child"] = cell["anon"]]
  /\ childBlob' = [p \in Pages |-> InChild(blob[p])]
  /\ childTodo' = IF ready /\ spilledCount > 0
                  THEN {p \in Pages : tier[p] = "spilled" /\ ~Stale(blob[p])} ELSE {}
  /\ UNCHANGED <<pageVars, spillVars, spilledCount, workerVars, gone>>

\* The bytes now in the file are copied; Node stands for any that are not the
\* page's.  Without room the page goes on pointing into the file.
ChildCopy ==
  /\ forked = "copying" /\ childTodo # {}
  /\ LET p == Min(childTodo)
         b == childBlob[p]
         dst == BumpAlloc("child", Shard(p), b.size)
         whole == \A u \in Units(b) : cell["spill"][b.reg][u] = p
     IN /\ childTodo' = childTodo \ {p}
        /\ IF dst = None THEN UNCHANGED <<storeVars, childBlob>>
           ELSE /\ StoreAt(dst, Shard(p), IF whole THEN p ELSE Node)
                /\ childBlob' = [childBlob EXCEPT ![p] = dst]
  /\ UNCHANGED <<pageVars, spillVars, spilledCount, workerVars, forked, gone>>

\* The child's mapping of the file is undone.
ChildDone ==
  /\ forked = "copying" /\ childTodo = {}
  /\ forked' = "done"
  /\ UNCHANGED <<storeVars, pageVars, spillVars, spilledCount, workerVars, childBlob,
                 childTodo, gone>>

-----------------------------------------------------------------------------

WorkerStep(w) ==
  \/ EnsureSpillReady(w) \/ TakeSetUp(w) \/ SetUpSpill(w)
  \/ MaybeSpillPage(w) \/ StoreRecompressed(w) \/ ReleaseOld(w)
  \/ \E n \in Sizes : RecompressPage(w, n)

Next ==
  \/ \E p \in Pages : Fault(p) \/ \E n \in Sizes : Compress(p, n)
  \/ \E w \in Workers : WorkerStep(w) \/ \E p \in Pages : Visit(w, p)
  \/ Fork \/ ChildCopy \/ ChildDone

Spec == Init /\ [][Next]_vars

\* Every tick visits every page.
FairSpec ==
  /\ Spec
  /\ \A w \in Workers : WF_vars(WorkerStep(w))
  /\ \A p \in Pages : SF_vars(\E w \in Workers : Visit(w, p))
  /\ WF_vars(ChildCopy \/ ChildDone)

-----------------------------------------------------------------------------

\* The blobs in a store.
Held(s) ==
  {b \in IF s = "child" THEN {childBlob[p] : p \in Pages}
         ELSE {blob[p] : p \in Pages} \cup {old[w] : w \in Workers} :
     b # None /\ b.store = s /\ ~Stale(b)}

Bytes(b) == {cell[b.store][b.reg][u] : u \in Units(b)}

\* The bytes of a page's blob are the ones compressed from that page: no other
\* blob, free-list node or reset of the region overwrites them while the page
\* points at them (bumpAlloc, tryFreeList, release, resetRegion).  A spilled blob
\* lies in the mapping the SpillStore now has, by which release finds its region,
\* unless two workers both read spill_init_done_ before either had set it: the
\* flag is a plain bool, and phase 2 runs on several workers (C:3949-3953).
BlobsIntact ==
  /\ ~wild => \A p \in Pages :
       blob[p] # None /\ ~Stale(blob[p]) => Bytes(blob[p]) = {p}
  /\ \A p \in Pages : tier[p] = "spilled" => blob[p].store = "spill"
  /\ (\E p \in Pages : blob[p] # None /\ Stale(blob[p])) \/ wild => raced

\* After resetForFork a child's page has its own blob in the child's anonymous
\* store, with two exceptions that the code leaves open: the parent, which
\* runs on, released the blob before the child had copied it (a fault of the
\* page in the parent, C:1031-1039), or the child's store had no room for it and
\* the page points into the file that is unmapped (C:1056-1059).  Nothing else
\* the parent does in the shared file reaches a blob that the child has yet to
\* copy.
ChildHasBlobs ==
  ~raced /\ forked = "done" =>
    \A p \in Pages : childBlob[p] # None =>
      IF childBlob[p].store = "child" THEN Bytes(childBlob[p]) = {p} \/ p \in gone
      ELSE BumpAlloc("child", Shard(p), childBlob[p].size) = None

\* live_bytes of a region is the size of the blobs in it, so it is reset exactly
\* when it is empty; blobs and free slots tile the region up to its offset; and
\* spilled_count_, by which a forked child decides whether there is anything to
\* copy, is the number of spilled pages (store, release, releaseBlob).
SpaceAccounted ==
  /\ \A s \in Stores : \A r \in Regions(s) :
       LET here == {b \in Held(s) : b.reg = r}
           slots == {[at |-> b.at, size |-> b.size] : b \in here}
                      \cup Range(region[s][r].free)
           used == UNION {x.at..x.at + x.size - 1 : x \in slots}
       IN /\ region[s][r].live = MapThenSumSet(LAMBDA b : b.size, here)
          /\ used = kDataStart..region[s][r].off - 1
          /\ Cardinality(used) = MapThenSumSet(LAMBDA x : x.size, slots)
  /\ spilledCount = Cardinality({p \in Pages : tier[p] = "spilled"})

\* The spill file can be had and has room for the page's blob.
SpillUsable(p) ==
  /\ blob[p] # None /\ ~(initDone /\ ~ready)
  /\ tier[p] = "spilled" \/ BumpAlloc("spill", Shard(p), blob[p].size) # None

Spilled(p) == tier[p] = "spilled"

\* A very cold page that stays compressed is moved to the spill file while the
\* file can be had and has room for it (phase2Range, maybeSpillPage).
VeryColdIsSpilled ==
  \A p \in Pages : <>[]SpillUsable(p) => <>Spilled(p)

=============================================================================
