------------------------------ MODULE HeapFront ------------------------------
(***************************************************************************)
(* The front of the heap: which allocator serves a request and which one   *)
(* gets a block back.  A block's home is a slab, the large allocator or    *)
(* the system's allocator; what is done with it later is decided from its  *)
(* address alone (a Span is found for it or not), from the mode the        *)
(* environment asked for and from the calling thread.                      *)
(*                                                                         *)
(* Sizes are small numbers that keep the order of the real ones.  The      *)
(* allocators behind the front are SlabHeap and LargeBlocks; here each     *)
(* returns a block or fails.  Blocks of BootstrapAlloc never reach a       *)
(* caller of malloc and are left out, and so are the tracking of blocks    *)
(* in compress-only mode (ExternalPages) and the call sites (CallSites).   *)
(***************************************************************************)
EXTENDS Integers

CONSTANTS
  Classes,    \* the size classes' sizes; the largest is kMaxSmallSize
  PageSize,   \* kPageSize
  Threshold,  \* largeOnlyThreshold()
  Requests,   \* bound: the sizes asked for
  Blocks,     \* bound: names for the blocks in use at once
  Null        \* the null pointer

VARIABLES
  mode,       \* which of the environment's modes is on
  arena,      \* VmRegion::init succeeded: slabs lie in the contiguous arena
  dl,         \* dlsym can be used
  resolved,   \* g_system_alloc is filled in
  cached,     \* per thread: it has a ThreadCache
  block,      \* per name: the block, or Null
  bad         \* history: what a call did wrong

vars == <<mode, arena, dl, resolved, cached, block, bad>>

Modes == {"full", "largeOnly", "eagerZero", "compressOnly", "passthrough"}
Threads == {"app", "compressor"}
Homes == {"slab", "large", "system"}

MaxSmall == CHOOSE c \in Classes : \A d \in Classes : d <= c
Smaller(a, b) == IF a < b THEN a ELSE b

\* home: whose the block is.  cap: the bytes it has.  size: large_size, or the
\* class.  asked: the bytes its holder asked for and has written.
BlockType ==
  [home : Homes, cap : Nat, size : Nat, asked : Nat]

TypeOK ==
  /\ mode \in Modes /\ arena \in BOOLEAN /\ dl \in BOOLEAN
  /\ resolved \in BOOLEAN /\ cached \in [Threads -> BOOLEAN]
  /\ \A b \in Blocks : block[b] = Null \/ block[b] \in BlockType
  /\ bad \subseteq {"system", "data", "overrun", "zero", "lost"}

\* The dynamic linker may have allocated from the system before smash came up.
Init ==
  /\ mode \in Modes
  /\ arena \in BOOLEAN
  /\ dl = FALSE /\ resolved = FALSE
  /\ cached = [t \in Threads |-> FALSE]
  /\ \E early \in {Null} \cup
                  {[home |-> "system", cap |-> n, size |-> n, asked |-> n] :
                     n \in Requests \ {0}} :
       block = [b \in Blocks |->
                  IF b = CHOOSE first \in Blocks : TRUE THEN early ELSE Null]
  /\ bad = {}

\* constructor(50): resolve().  Before it dlsym may not be usable, and what it
\* leaves unresolved is tried again by the calls that need it.
ResolveEarly ==
  /\ ~dl
  /\ dl' = TRUE
  /\ resolved' \in {TRUE, resolved}
  /\ UNCHANGED <<mode, arena, cached, block, bad>>

\* threadInit and threadCleanup.
ThreadInit(t) ==
  /\ mode # "compressOnly"
  /\ ~cached[t]
  /\ cached' = [cached EXCEPT ![t] = TRUE]
  /\ UNCHANGED <<mode, arena, dl, resolved, block, bad>>

ThreadCleanup(t) ==
  /\ mode # "compressOnly"
  /\ cached[t]
  /\ cached' = [cached EXCEPT ![t] = FALSE]
  /\ UNCHANGED <<mode, arena, dl, resolved, block, bad>>

-----------------------------------------------------------------------------
(* What the allocators return: a set of blocks, Null among them.           *)

fullMallocPath == mode = "full"

\* g_fast_tc is published with the thread cache, in full mode only.
Lean(t) == cached[t] /\ fullMallocPath

\* g_system_alloc after a lazy resolve().
Resolvable == resolved \/ dl

New(home, cap, size, zero) ==
  [home |-> home, cap |-> cap, size |-> size, zero |-> zero]

classSize(n) ==
  CHOOSE c \in Classes : n <= c /\ \A d \in Classes : n <= d => c <= d
Pages(n) == ((n + PageSize - 1) \div PageSize) * PageSize

FromSystem(n, ok) ==
  {Null} \cup IF ok THEN {New("system", n, n, 0)} ELSE {}
FromSlab(n, zero) ==
  {Null, New("slab", classSize(n), classSize(n), IF zero THEN classSize(n) ELSE 0)}
\* A block from the cache holds old data, a fresh mapping is zero.
FromLarge(n) ==
  {Null} \cup {New("large", Pages(n), n, z) : z \in {0, Pages(n)}}

Zeroed(results, n) ==
  {IF r = Null THEN Null ELSE [r EXCEPT !.zero = n] : r \in results}

\* Whether a call of mallocSlow goes to the system, resolving it first.
SmallPassesThrough(n) == mode = "largeOnly" /\ n <= Threshold
AsksSystem(t, n) ==
  \/ mode = "passthrough"
  \/ t = "compressor"
  \/ SmallPassesThrough(IF n = 0 THEN 1 ELSE n)

\* SmashHeap::mallocSlow.
MallocSlow(t, n0) ==
  LET n == IF n0 = 0 THEN 1 ELSE n0 IN
  IF mode = "passthrough" \/ t = "compressor" THEN FromSystem(n0, Resolvable)
  ELSE IF mode = "compressOnly" THEN FromSystem(n0, resolved)
  ELSE IF SmallPassesThrough(n) /\ Resolvable THEN FromSystem(n, TRUE)
  ELSE IF n <= MaxSmall THEN FromSlab(n, mode = "eagerZero")
  ELSE IF mode = "eagerZero" THEN Zeroed(FromLarge(n), n)
  ELSE FromLarge(n)

\* SmashHeap::malloc: a thread that has a cache takes small blocks from it,
\* whatever thread it is.
UsesCache(t, n) == fullMallocPath /\ n \in 1..MaxSmall /\ cached[t]
Malloc(t, n) ==
  IF UsesCache(t, n)
  THEN (FromSlab(n, FALSE) \ {Null}) \cup MallocSlow(t, n)
  ELSE MallocSlow(t, n)

\* Which thread caches and which system functions exist after that call.
CachesAfterMalloc(t, n) ==
  LET m == IF n = 0 THEN 1 ELSE n IN
  IF \/ mode \in {"passthrough", "compressOnly"} \/ t = "compressor"
     \/ (SmallPassesThrough(m) /\ Resolvable) \/ m > MaxSmall
  THEN cached ELSE [cached EXCEPT ![t] = TRUE]
ResolvedAfterMalloc(t, n, r) ==
  IF AsksSystem(t, n) /\ (r = Null \/ r.home # "slab")
  THEN Resolvable ELSE resolved

-----------------------------------------------------------------------------
(* Allocating calls.                                                       *)

HasSpan(b) == block[b].home \in {"slab", "large"}

Called == UNCHANGED <<mode, arena, dl>>

\* The caller names the block it got and writes what it asked for.
Hand(r, n) ==
  IF r = Null THEN UNCHANGED block
  ELSE /\ \E b \in Blocks : block[b] = Null
       /\ block' = [block EXCEPT ![CHOOSE b \in Blocks : block[b] = Null] =
            [home |-> r.home, cap |-> r.cap, size |-> r.size, asked |-> n]]

DoMalloc(t, n) ==
  /\ Called
  /\ \E r \in Malloc(t, n) :
       /\ Hand(r, n)
       /\ bad' = bad \cup (IF r # Null /\ mode = "eagerZero" /\ t = "app"
                              /\ r.zero < n THEN {"zero"} ELSE {})
       /\ resolved' = ResolvedAfterMalloc(t, n, r)
  /\ cached' = CachesAfterMalloc(t, n)

\* memalign with an alignment above kMinAlignment (below it, it is malloc).
DoMemalign(t, n0) ==
  LET n == IF n0 = 0 THEN 1 ELSE n0 IN
  /\ Called
  /\ \E r \in
       IF mode = "passthrough" THEN FromSystem(n0, Resolvable)
       ELSE IF mode = "compressOnly" THEN FromSystem(n0, resolved)
       ELSE (IF SmallPassesThrough(n)
             THEN FromSystem(n, Resolvable) \ {Null} ELSE {}) \cup FromLarge(n) :
       Hand(r, n0)
  /\ resolved' = IF mode = "passthrough" \/ SmallPassesThrough(n)
                 THEN Resolvable ELSE resolved
  /\ UNCHANGED <<cached, bad>>

\* calloc: a large block is cleared unless the allocator says it is fresh.
Calloc(t, n) ==
  IF mode = "passthrough" THEN Zeroed(FromSystem(n, Resolvable), n)
  ELSE IF mode = "compressOnly" \/ (SmallPassesThrough(n) /\ resolved)
  THEN Zeroed(FromSystem(n, resolved), n)
  ELSE IF n > MaxSmall /\ fullMallocPath
  THEN {IF r # Null /\ r.zero < n THEN [r EXCEPT !.zero = n] ELSE r :
          r \in FromLarge(n)}
  ELSE Zeroed(Malloc(t, n), n)

DoCalloc(t, n) ==
  /\ Called
  /\ \E r \in Calloc(t, n) :
       /\ Hand(r, n)
       /\ bad' = bad \cup (IF r # Null /\ r.zero < n THEN {"zero"} ELSE {})
       /\ IF \/ mode \in {"passthrough", "compressOnly"}
             \/ SmallPassesThrough(n) /\ resolved
             \/ n > MaxSmall /\ fullMallocPath
          THEN /\ resolved' = IF mode = "passthrough" THEN Resolvable ELSE resolved
               /\ UNCHANGED cached
          ELSE /\ resolved' = ResolvedAfterMalloc(t, n, r)
               /\ cached' = CachesAfterMalloc(t, n)

-----------------------------------------------------------------------------
(* free.                                                                   *)

\* Giving a block to the system's free that is not the system's, or losing one
\* that is.
ToSystem(b, ok) ==
  IF block[b].home # "system" THEN {"system"}
  ELSE IF ~ok THEN {"lost"} ELSE {}

\* The lean entry and free() take a small block into the thread's cache and
\* hand a large one back; freeSlow does the rest, making a cache if need be.
Freed(b, ok) ==
  IF mode = "compressOnly" THEN ToSystem(b, resolved)
  ELSE IF HasSpan(b) THEN {}
  ELSE ToSystem(b, ok)

CachesAfterFree(t, b) ==
  IF mode # "compressOnly" /\ block[b].home = "slab"
  THEN [cached EXCEPT ![t] = TRUE] ELSE cached
ResolvedAfterFree(b) ==
  IF mode # "compressOnly" /\ ~HasSpan(b) THEN Resolvable ELSE resolved

DoFree(t, b) ==
  /\ block[b] # Null
  /\ Called
  /\ bad' = bad \cup Freed(b, Resolvable)
  /\ block' = [block EXCEPT ![b] = Null]
  /\ cached' = CachesAfterFree(t, b)
  /\ resolved' = ResolvedAfterFree(b)

-----------------------------------------------------------------------------
(* realloc.                                                                *)

\* In place when the block fits the request and the request fills half of it.
InPlace(b, n) ==
  IF block[b].home = "large"
  THEN n <= block[b].cap /\ n > MaxSmall /\ n >= block[b].cap \div 2
  ELSE n <= block[b].size /\ n >= block[b].size \div 2

\* large_size left alone.
GrowInPlaceMutant(b, n) ==
  block' = [block EXCEPT ![b].asked = n]

GrowInPlace(b, n) ==
  block' = [block EXCEPT ![b].asked = n,
                         ![b].size = IF block[b].home = "large" THEN n ELSE @]

\* malloc, memcpy of the smaller size, free: what the copy may damage.
Copy(b, r, n) ==
  LET count == Smaller(block[b].size, n) IN
  (IF count > r.cap \/ count > block[b].cap THEN {"overrun"} ELSE {})
  \cup (IF count < Smaller(block[b].asked, n) THEN {"data"} ELSE {})

Moved(b, r, n) ==
  IF r = Null THEN UNCHANGED <<block, bad>>
  ELSE /\ block' = [block EXCEPT ![b] =
             [home |-> r.home, cap |-> r.cap, size |-> r.size, asked |-> n]]
       /\ bad' = bad \cup Copy(b, r, n) \cup Freed(b, Resolvable)

\* The system's realloc, given a block of its own, keeps the data itself.
SystemRealloc(b, n, ok) ==
  IF ~ok THEN UNCHANGED <<block, bad>>
  ELSE /\ bad' = IF block[b].home = "system" THEN bad ELSE bad \cup {"system"}
       /\ \/ UNCHANGED block
          \/ block' = [block EXCEPT ![b] =
                IF n = 0 THEN Null
                ELSE [home |-> "system", cap |-> n, size |-> n, asked |-> n]]

\* Passthrough would copy a block of smash's to the system's.
DoReallocPassing(b, n) ==
  /\ mode = "passthrough"
  /\ block[b] # Null
  /\ Called
  /\ IF HasSpan(b) THEN \E r \in FromSystem(n, Resolvable) : Moved(b, r, n)
     ELSE SystemRealloc(b, n, Resolvable)
  /\ resolved' = Resolvable
  /\ UNCHANGED cached

DoReallocTracked(b, n) ==
  /\ mode = "compressOnly"
  /\ block[b] # Null
  /\ Called
  /\ SystemRealloc(b, n, resolved)
  /\ UNCHANGED <<cached, resolved>>

DoReallocForeign(b, n) ==
  /\ mode \notin {"passthrough", "compressOnly"}
  /\ block[b] # Null /\ n # 0 /\ ~HasSpan(b)
  /\ Called
  /\ SystemRealloc(b, n, Resolvable)
  /\ resolved' = Resolvable
  /\ UNCHANGED cached

\* A block of smash's.  realloc(p, 0) is free(p), see DoFree.
DoRealloc(t, b, n) ==
  /\ mode \notin {"passthrough", "compressOnly"}
  /\ block[b] # Null /\ n # 0 /\ HasSpan(b)
  /\ Called
  /\ IF InPlace(b, n)
     THEN GrowInPlace(b, n) /\ UNCHANGED <<cached, resolved, bad>>
     ELSE /\ \E r \in Malloc(t, n) :
               /\ Moved(b, r, n)
               /\ resolved' = ResolvedAfterMalloc(t, n, r)
          /\ cached' = CachesAfterMalloc(t, n)

\* The lean entries: a thread that has a cache, a page tagged small (in the
\* arena), a small request.  What they cannot do falls to the calls above.
LeanMalloc(t, n) ==
  /\ Lean(t) /\ n \in 1..MaxSmall
  /\ Called
  /\ Hand(New("slab", classSize(n), classSize(n), 0), n)
  /\ UNCHANGED <<cached, resolved, bad>>

LeanCalloc(t, n) ==
  /\ Lean(t) /\ n \in 1..MaxSmall
  /\ Called
  /\ \E r \in Zeroed(Malloc(t, n), n) :
       /\ Hand(r, n)
       /\ bad' = bad \cup (IF r # Null /\ r.zero < n THEN {"zero"} ELSE {})
       /\ resolved' = ResolvedAfterMalloc(t, n, r)
  /\ UNCHANGED cached

LeanFree(t, b) ==
  /\ block[b] # Null
  /\ Lean(t) /\ arena /\ block[b].home = "slab"
  /\ Called
  /\ block' = [block EXCEPT ![b] = Null]
  /\ UNCHANGED <<cached, resolved, bad>>

LeanRealloc(t, b, n) ==
  /\ block[b] # Null
  /\ Lean(t) /\ arena /\ block[b].home = "slab" /\ n \in 1..MaxSmall
  /\ Called
  /\ IF n <= block[b].cap /\ n >= block[b].cap \div 2
     THEN block' = [block EXCEPT ![b].asked = n] /\ UNCHANGED <<resolved, bad>>
     ELSE \E r \in Malloc(t, n) : /\ Moved(b, r, n)
                                  /\ resolved' = ResolvedAfterMalloc(t, n, r)
  /\ UNCHANGED cached

\* malloc_usable_size.
GetSize(b) ==
  IF mode = "compressOnly" THEN 0
  ELSE IF mode = "passthrough" \/ ~HasSpan(b)
  THEN IF Resolvable THEN block[b].cap ELSE 0
  ELSE block[b].size

DoGetSize(t, b) ==
  /\ block[b] # Null
  /\ Called
  /\ resolved' = IF mode = "passthrough" \/ (mode # "compressOnly" /\ ~HasSpan(b))
                 THEN Resolvable ELSE resolved
  /\ bad' = bad \cup (IF /\ mode = "passthrough" /\ HasSpan(b)
                      THEN {"system"} ELSE {})
  /\ UNCHANGED <<block, cached>>

-----------------------------------------------------------------------------

Next ==
  \/ ResolveEarly
  \/ \E t \in Threads :
       \/ ThreadInit(t) \/ ThreadCleanup(t)
       \/ \E n \in Requests :
            \/ DoMalloc(t, n) \/ DoMemalign(t, n) \/ DoCalloc(t, n)
            \/ LeanMalloc(t, n) \/ LeanCalloc(t, n)
       \/ \E b \in Blocks :
            \/ DoFree(t, b) \/ DoGetSize(t, b) \/ LeanFree(t, b)
            \/ \E n \in Requests : DoRealloc(t, b, n) \/ LeanRealloc(t, b, n)
  \/ \E b \in Blocks, n \in Requests :
       DoReallocPassing(b, n) \/ DoReallocTracked(b, n) \/ DoReallocForeign(b, n)

Spec == Init /\ [][Next]_vars

-----------------------------------------------------------------------------

\* Whatever the mode, the thread and the moment smash came up: a block holds
\* what was asked for; its reported size covers that, so that a later realloc
\* copies all of it and nothing beyond either block; calloc's and eager-zero's
\* bytes are zero; and no block goes to an allocator it did not come from.
BlocksFaithful ==
  /\ \A b \in Blocks : block[b] # Null =>
       /\ block[b].asked <= block[b].cap
       /\ mode # "compressOnly" /\ (HasSpan(b) \/ Resolvable)
            => GetSize(b) >= block[b].asked
  /\ bad \subseteq {"lost"}

=============================================================================
