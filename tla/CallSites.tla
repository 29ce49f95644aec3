----------------------------- MODULE CallSites -----------------------------
(***************************************************************************)
(* Which arena a call site allocates from.  The return address becomes an  *)
(* offset in its image (so that the answer survives address randomisation) *)
(* and the offset a hash.  Three tables stand in front of the work: a      *)
(* table of the loaded images, replaced when an address is in none of      *)
(* them; a cache from return address to hash that all threads read and     *)
(* write without synchronisation; and a memo per thread from (return       *)
(* address, size class) to arena.  Images come and go meanwhile.           *)
(*                                                                         *)
(* The hash functions are modelled without collisions, so that an arena    *)
(* tells which inputs it was computed from.  Routing to cold sub-arenas is *)
(* a build option and left out.                                            *)
(***************************************************************************)
EXTENDS Naturals, Sequences, FiniteSets, FiniteSetsExt, SequencesExt

CONSTANTS
  Threads,   \* a sequence of them is numbered by tid
  Images,    \* bound: the images
  Length,    \* bound: addresses of code in an image
  Bases,     \* bound: where images can be mapped
  Jit,       \* addresses of code in no image
  Classes,   \* size classes; 0 stands for a large block, which has none
  CacheSize, \* kStableBucketCacheSize
  MemoSize,  \* kArenaMemoSlots
  Depths,    \* stack-depth buckets that call sites are reached at
  Cpus,      \* the CPUs if cpuArenaHash(), else empty
  Arenas,    \* getArenaMask() + 1
  MayUnload, \* whether the program calls dlclose
  None

VARIABLES
  loaded,    \* per image: its base, or None
  table,     \* image_table_: ranges in order of their start
  cache,     \* stable_bucket_cache_
  memo,      \* g_arena_memo, per thread
  pc, ra, sc, hash, \* per thread: the call in progress
  answer,    \* history, per thread: the last arena, with its call
  homes,     \* history, per address: the bases of images it was code of
  raced      \* history: cache slots used while another thread wrote to them

vars == <<loaded, table, cache, memo, pc, ra, sc, hash, answer, homes, raced>>

tid(t) == CHOOSE i \in DOMAIN Threads : Threads[i] = t
ThreadSet == Range(Threads)

Span(base) == base..(base + Length - 1)
Addresses == Jit \cup UNION {Span(b) : b \in Bases}

TypeOK ==
  /\ loaded \in [Images -> Bases \cup {None}]
  /\ \A i \in DOMAIN table : table[i].lo \in Nat /\ table[i].hi \in Nat
  /\ cache \in [0..CacheSize - 1 -> [ra : Nat, hash : Nat]]
  /\ \A t \in ThreadSet : \A i \in 0..MemoSize - 1 :
       memo[t][i] = None \/ memo[t][i].arena \in 0..Arenas - 1
  /\ pc \in [ThreadSet -> {"idle", "probe", "hit", "find", "rebuild",
                           "storeHash", "storeKey", "route"}]
  /\ homes \in [Addresses -> SUBSET Bases] /\ raced \subseteq 0..CacheSize - 1

Init ==
  /\ loaded = [i \in Images |-> None]
  /\ table = <<>>
  /\ cache = [i \in 0..CacheSize - 1 |-> [ra |-> 0, hash |-> 0]]
  /\ memo = [t \in ThreadSet |-> [i \in 0..MemoSize - 1 |-> None]]
  /\ pc = [t \in ThreadSet |-> "idle"]
  /\ ra = [t \in ThreadSet |-> 0] /\ sc = [t \in ThreadSet |-> 0]
  /\ hash = [t \in ThreadSet |-> 0]
  /\ answer = [t \in ThreadSet |-> None]
  /\ homes = [a \in Addresses |-> {}] /\ raced = {}

-----------------------------------------------------------------------------
(* Hashes and slots.                                                       *)

Code == UNION {Span(loaded[i]) : i \in {j \in Images : loaded[j] # None}}

\* The images are one after the other, so that one base covers an address.
BaseOf(a) ==
  IF a \in Code
  THEN CHOOSE b \in Bases : a \in Span(b) /\ \E i \in Images : loaded[i] = b
  ELSE None

OffsetHash(o) == (5 * o + 3) % 16
LowBits(a) == a % 16
SlotOf(a) == a % CacheSize
MemoSlot(a, c) == (a + c) % MemoSize

\* callsiteArenaSlow's mix of the hash, the stack depth, the size class and the
\* lane; callsiteArenaForLarge's of the hash and the lane.
ArenaOf(h, c, dep, lane) ==
  LET mixed == IF c = 0 THEN 0 ELSE Cardinality(Depths) * c + dep
  IN ((h * (Cardinality(Depths) * (Max(Classes) + 1)) + mixed) * 4 + lane) % Arenas

\* The thread's number, or the CPU it happens to run on.
Lanes(t, c) == IF c = 0 \/ Cpus = {} THEN {tid(t)} ELSE Cpus

Set(f, t, v) == [f EXCEPT ![t] = v]

-----------------------------------------------------------------------------
(* callsiteArena, callsiteArenaSlow, callsiteArenaForLarge.                *)

Memoised(t, a, c) ==
  LET m == memo[t][MemoSlot(a, c)] IN c # 0 /\ m # None /\ m.key = <<a, c>>

Others(t, places) ==
  {u \in ThreadSet : /\ pc[u] \in places /\ ra[u] # ra[t]
                     /\ SlotOf(ra[u]) = SlotOf(ra[t])}

\* malloc with return address a.
Call(t, a, c) ==
  /\ pc[t] = "idle"
  /\ a \in Code \cup Jit
  /\ IF Memoised(t, a, c)
     THEN /\ answer' = Set(answer, t, [ra |-> a, sc |-> c,
                                       arena |-> memo[t][MemoSlot(a, c)].arena])
          /\ UNCHANGED <<pc, ra, sc>>
     ELSE /\ pc' = Set(pc, t, "probe")
          /\ ra' = Set(ra, t, a) /\ sc' = Set(sc, t, c)
          /\ answer' = Set(answer, t, None)
  /\ UNCHANGED <<loaded, table, cache, memo, hash, homes, raced>>

\* stableCallsiteHash: the key is read, then the hash.
Probe(t) ==
  /\ pc[t] = "probe"
  /\ pc' = Set(pc, t, IF cache[SlotOf(ra[t])].ra = ra[t] THEN "hit" ELSE "find")
  /\ raced' = IF Others(t, {"storeKey"}) = {} THEN raced
              ELSE raced \cup {SlotOf(ra[t])}
  /\ UNCHANGED <<loaded, table, cache, memo, ra, sc, hash, answer, homes>>

Hit(t) ==
  /\ pc[t] = "hit"
  /\ hash' = Set(hash, t, cache[SlotOf(ra[t])].hash)
  /\ pc' = Set(pc, t, "route")
  /\ UNCHANGED <<loaded, table, cache, memo, ra, sc, answer, homes, raced>>

\* An address just behind an image taken for the image's.
FindImageBaseMutant(tab, a) ==
  LET below == {i \in DOMAIN tab : tab[i].lo <= a} IN
  IF below = {} \/ a > tab[Max(below)].hi THEN None ELSE tab[Max(below)].lo

\* The last range that starts at or below the address, if it reaches that far.
FindImageBase(tab, a) ==
  LET below == {i \in DOMAIN tab : tab[i].lo <= a} IN
  IF below = {} \/ a >= tab[Max(below)].hi THEN None ELSE tab[Max(below)].lo

Find(t) ==
  /\ pc[t] = "find"
  /\ LET base == FindImageBase(table, ra[t]) IN
     IF base = None THEN pc' = Set(pc, t, "rebuild") /\ UNCHANGED hash
     ELSE /\ hash' = Set(hash, t, OffsetHash(ra[t] - base))
          /\ pc' = Set(pc, t, "storeHash")
  /\ UNCHANGED <<loaded, table, cache, memo, ra, sc, answer, homes, raced>>

\* rebuildImageTable, whose allocation may fail, another search, and dladdr.
Ranges == {[lo |-> loaded[i], hi |-> loaded[i] + Length] :
             i \in {j \in Images : loaded[j] # None}}
Rebuild(t) ==
  /\ pc[t] = "rebuild"
  /\ table' \in {table, SetToSortSeq(Ranges, LAMBDA r, s : r.lo < s.lo)}
  /\ LET found == FindImageBase(table', ra[t])
         base == IF found = None THEN BaseOf(ra[t]) ELSE found IN
     hash' = Set(hash, t, IF base = None THEN LowBits(ra[t])
                          ELSE OffsetHash(ra[t] - base))
  /\ pc' = Set(pc, t, "storeHash")
  /\ UNCHANGED <<loaded, cache, memo, ra, sc, answer, homes, raced>>

StoreHash(t) ==
  /\ pc[t] = "storeHash"
  /\ cache' = [cache EXCEPT ![SlotOf(ra[t])].hash = hash[t]]
  /\ pc' = Set(pc, t, "storeKey")
  /\ raced' = IF Others(t, {"storeKey", "hit"}) = {} THEN raced
              ELSE raced \cup {SlotOf(ra[t])}
  /\ UNCHANGED <<loaded, table, memo, ra, sc, hash, answer, homes>>

StoreKey(t) ==
  /\ pc[t] = "storeKey"
  /\ cache' = [cache EXCEPT ![SlotOf(ra[t])].ra = ra[t]]
  /\ pc' = Set(pc, t, "route")
  /\ UNCHANGED <<loaded, table, memo, ra, sc, hash, answer, homes, raced>>

Route(t) ==
  /\ pc[t] = "route"
  /\ \E dep \in Depths, lane \in Lanes(t, sc[t]) :
     LET arena == ArenaOf(hash[t], sc[t], dep, lane) IN
     /\ answer' = Set(answer, t, [ra |-> ra[t], sc |-> sc[t], arena |-> arena])
     /\ memo' = IF sc[t] = 0 THEN memo
                ELSE [memo EXCEPT ![t][MemoSlot(ra[t], sc[t])] =
                        [key |-> <<ra[t], sc[t]>>, arena |-> arena]]
  /\ pc' = Set(pc, t, "idle")
  /\ ra' = Set(ra, t, 0) /\ sc' = Set(sc, t, 0) /\ hash' = Set(hash, t, 0)
  /\ UNCHANGED <<loaded, table, cache, homes, raced>>

-----------------------------------------------------------------------------
(* dlopen and dlclose.                                                     *)

Load(i, b) ==
  /\ loaded[i] = None
  /\ Span(b) \cap (Code \cup Jit) = {}
  /\ loaded' = [loaded EXCEPT ![i] = b]
  /\ homes' = [a \in Addresses |-> IF a \in Span(b) THEN homes[a] \cup {b} ELSE homes[a]]
  /\ UNCHANGED <<table, cache, memo, pc, ra, sc, hash, answer, raced>>

Unload(i) ==
  /\ MayUnload
  /\ loaded[i] # None
  /\ \A t \in ThreadSet : pc[t] # "idle" => ra[t] \notin Span(loaded[i])
  /\ loaded' = [loaded EXCEPT ![i] = None]
  /\ answer' = [t \in ThreadSet |-> None]
  /\ UNCHANGED <<table, cache, memo, pc, ra, sc, hash, homes, raced>>

Step(t) ==
  \/ Probe(t) \/ Hit(t) \/ Find(t) \/ Rebuild(t) \/ StoreHash(t) \/ StoreKey(t)
  \/ Route(t)

Next ==
  \/ \E t \in ThreadSet :
       Step(t) \/ \E a \in Code \cup Jit, c \in Classes : Call(t, a, c)
  \/ \E i \in Images : Unload(i) \/ \E b \in Bases : Load(i, b)

Spec == Init /\ [][Next]_vars

-----------------------------------------------------------------------------

HashesOf(a) ==
  {OffsetHash(a - b) : b \in homes[a]} \cup {LowBits(j) : j \in Jit \cap {a}}

\* The arena of an allocation is the one that the offset of its call site in its
\* image gives, for the size class, the thread or CPU and a stack depth at which
\* the site was reached: whatever images were opened in between and whatever was
\* evicted from the memo and the cache.  Two things the code does not keep out.
\* An address that has been code of two images may get the hash of either, since
\* nothing is forgotten at dlclose.  And in a cache slot that one thread read or
\* wrote while another wrote to it, the key of one address can stand with the
\* hash of another, and be served from then on (smash_heap.h:674-675; the comment
\* at 530 says that collisions just cause re-lookup); but then, too, the hash is
\* that of an address of the same slot, never anything else.
SiteKeepsArena ==
  \A t \in ThreadSet :
    answer[t] # None =>
      LET a == answer[t].ra
          c == answer[t].sc
          sources == IF SlotOf(a) \in raced
                     THEN {b \in Addresses : SlotOf(b) = SlotOf(a)} ELSE {a}
      IN \E h \in UNION {HashesOf(b) : b \in sources}, dep \in Depths,
            lane \in Lanes(t, c) : answer[t].arena = ArenaOf(h, c, dep, lane)

=============================================================================
