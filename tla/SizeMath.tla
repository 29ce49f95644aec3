------------------------------ MODULE SizeMath ------------------------------
(***************************************************************************)
(* The pure arithmetic the heap is built on: request size to size class,   *)
(* span geometry, the multiplication that replaces a division on free, the *)
(* rounding grid and bucket index of the large block cache, the per-page   *)
(* slot cap, and the batched write of the two-level page map.              *)
(*                                                                         *)
(* Each is translated as written and compared with the definition it       *)
(* stands for.  The one variable walks the inputs.                         *)
(***************************************************************************)
EXTENDS Integers, Sequences, FiniteSets

CONSTANTS
  PageSize,    \* kPageSize
  MaxInput,    \* Bound: the largest input walked
  MaxPages,    \* LargeBlockCache::kMaxPages
  MaxCap,      \* Bound: the largest per-page cap tried
  L2Size       \* kPageMapL2Size, scaled down

VARIABLE n     \* the input under test: a size, a page count or a class

-----------------------------------------------------------------------------

kTargetObjectsPerSpan == 64
kMaxSpanPages == 8
kMaxSmallSize == 16384
kNumClasses == 36

\* floor(log2(x)): 63 - clz(x)
Log2(x) == CHOOSE b \in 0..30 : 2^b <= x /\ x < 2^(b + 1)

CeilDiv(a, b) == (a + b - 1) \div b

LeastOf(S) == CHOOSE x \in S : \A y \in S : x <= y

Lesser(a, b) == IF a < b THEN a ELSE b

-----------------------------------------------------------------------------
(* Size classes: eight steps of 16, then four steps per power of two. *)

kClassSizes ==
  [c \in 0..kNumClasses - 1 |->
     IF c < 8 THEN 16 * (c + 1)
     ELSE LET base == 128 * 2^((c - 8) \div 4)
          IN  base + (base \div 4) * (((c - 8) % 4) + 1)]

\* computeClassInfo: pages and objects of a span of this class
ClassPages(c) ==
  LET wanted == CeilDiv(kTargetObjectsPerSpan * kClassSizes[c], PageSize)
  IN  IF wanted < 1 THEN 1 ELSE Lesser(wanted, kMaxSpanPages)

ClassObjects(c) == (ClassPages(c) * PageSize) \div kClassSizes[c]

\* buildSmallLookup: entry idx serves every size in (16*(idx-1), 16*idx]
kSmallLookup ==
  [idx \in 0..64 |->
     LET most == IF idx = 0 THEN 1 ELSE 16 * idx
     IN  LeastOf({c \in DOMAIN kClassSizes : kClassSizes[c] >= most})]

\* Off by one in the group: floor(log2(size)) instead of floor(log2(size-1)).
SizeToClassMutant(size) ==
  LET bits == Log2(size)
  IN  IF size <= 1024 THEN kSmallLookup[(size + 15) \div 16]
      ELSE IF size <= kMaxSmallSize
      THEN 20 + (bits - 10) * 4 + ((size - 2^bits) \div 2^(bits - 2))
      ELSE kNumClasses

SizeToClass(size) ==
  LET s == IF size = 0 THEN 1 ELSE size
      bits == Log2(s - 1)
  IN  IF s <= 1024 THEN kSmallLookup[(s + 15) \div 16]
      ELSE IF s <= kMaxSmallSize
      THEN 20 + (bits - 10) * 4 + ((s - 2^bits - 1) \div 2^(bits - 2))
      ELSE kNumClasses

-----------------------------------------------------------------------------
(* Span::slotOf: offset / object_size as a multiplication and a shift, in   *)
(* 64 bits: numbers are sequences of 10-bit digits, the highest first, and  *)
(* kDivShift = 40 drops four of them.                                       *)

Radix == 1024

\* x / d, digit by digit; r is the remainder of the digits before.
RECURSIVE Quotient(_, _, _)
Quotient(x, d, r) ==
  IF x = <<>> THEN <<>>
  ELSE LET v == r * Radix + Head(x)
       IN  <<v \div d>> \o Quotient(Tail(x), d, v % d)

\* (k * x) >> (10 * Len(x))
RECURSIVE CarryOut(_, _)
CarryOut(x, k) ==
  IF x = <<>> THEN 0 ELSE (k * Head(x) + CarryOut(Tail(x), k)) \div Radix

\* ((1 << kDivShift) + object_size - 1) / object_size
DivMagic(c) ==
  LET d == kClassSizes[c]
  IN  Quotient(<<1, 0, 0, (d - 1) \div Radix, (d - 1) % Radix>>, d, 0)

SlotOf(magic, offset) == offset * Head(magic) + CarryOut(Tail(magic), offset)

-----------------------------------------------------------------------------
(* LargeBlockCache: the grid has eight sizes per power of two. *)

RoundPages(m) ==
  IF m <= 8 THEN m
  ELSE LET step == 2^(Log2(m - 1) - 3) IN CeilDiv(m, step) * step

NextRounded(r) == IF r < 8 THEN r + 1 ELSE r + 2^(Log2(r) - 3)

BucketOf(r) ==
  IF r <= 8 THEN r - 1
  ELSE LET b == Log2(r - 1) IN 8 + (b - 3) * 8 + (r \div 2^(b - 3)) - 9

\* The number of buckets the compile-time loop counts.
RECURSIVE CountGrid(_)
CountGrid(r) ==
  IF r > MaxPages THEN 0
  ELSE 1 + CountGrid(IF r <= 8 THEN r + 1 ELSE r + 2^(Log2(r) - 3))

kUsedBuckets == CountGrid(1)

-----------------------------------------------------------------------------
(* The per-page cap: the free slots of a fresh span, and of a span widened. *)

FirstOn(c, p) == CeilDiv(p * PageSize, kClassSizes[c])

AvailOn(c, p) ==
  LET next == Lesser(FirstOn(c, p + 1), ClassObjects(c))
  IN  IF next > FirstOn(c, p) THEN next - FirstOn(c, p) ELSE 0

SlotsOn(c, p, lo, hi) ==
  {FirstOn(c, p) + i : i \in Lesser(AvailOn(c, p), lo)..Lesser(AvailOn(c, p), hi) - 1}

\* Span::init: the bitmap, as the set of slots that may be allocated
InitSlots(c, cap) ==
  IF cap = 0 \/ kClassSizes[c] >= PageSize THEN 0..ClassObjects(c) - 1
  ELSE LET some == UNION {SlotsOn(c, p, 0, cap) : p \in 0..ClassPages(c) - 1}
       IN  IF some = {} THEN {0} ELSE some

\* Span::widenCap
Widened(c, slots, cur, cap) ==
  IF kClassSizes[c] >= PageSize \/ cur = 0 \/ (cap # 0 /\ cap <= cur) THEN slots
  ELSE slots \cup UNION {SlotsOn(c, p, cur, IF cap = 0 THEN ClassObjects(c) ELSE cap)
                           : p \in 0..ClassPages(c) - 1}

-----------------------------------------------------------------------------
(* PageMap::setRange: table by table, filling each to its end or the run's. *)

\* l2_end
Fill(page, last) ==
  LET l2 == page % L2Size
  IN  IF l2 + (last - page) < L2Size - 1 THEN l2 + (last - page) ELSE L2Size - 1

RECURSIVE SetRange(_, _)
SetRange(page, last) ==
  IF page > last THEN {}
  ELSE LET l2 == page % L2Size
           end == Fill(page, last)
       IN  {<<page \div L2Size, s>> : s \in l2..end} \cup SetRange(page + end - l2 + 1, last)

-----------------------------------------------------------------------------

Init == n = 0

Walk == n < MaxInput /\ n' = n + 1

Next == Walk

Spec == Init /\ [][Next]_n

-----------------------------------------------------------------------------

\* sizeToClass returns the smallest class that holds the request, for every
\* small size on both sides of the table's end and of every power of two, and
\* kNumClasses beyond (size_classes.h, sizeToClass).
ClassIsTightest ==
  SizeToClass(n) =
    IF n > kMaxSmallSize THEN kNumClasses
    ELSE LeastOf({c \in DOMAIN kClassSizes : kClassSizes[c] >= n})

\* The multiplication that free() uses gives the slot that holds the offset,
\* for every offset inside a span of every class (span.h, slotOf).
SlotOfIsQuotient ==
  n < kNumClasses =>
    LET magic == DivMagic(n)
    IN  \A offset \in 0..ClassPages(n) * PageSize - 1 :
          SlotOf(magic, offset) = offset \div kClassSizes[n]

\* Rounding a page count goes to the next size of the grid, never past it, the
\* walk of the purge visits exactly the sizes rounding produces, and consecutive
\* sizes have consecutive buckets inside the bucket array, so no two sizes ever
\* share a bucket (large_alloc.h, roundPages, nextRounded, bucketOf).
BucketsFollowGrid ==
  n \in 1..MaxPages =>
    LET r == RoundPages(n)
    IN  /\ n <= r /\ 8 * (r - n) < n
        /\ RoundPages(r) = r
        /\ RoundPages(r + 1) = NextRounded(r)
        /\ BucketOf(NextRounded(r)) = BucketOf(r) + 1
        /\ r <= MaxPages /\ BucketOf(r) < kUsedBuckets

\* A capped span has at most cap slots starting on each page and never a slot
\* past its end, and widening a span's cap makes usable exactly the slots a
\* fresh span with the wider cap would have (span.h, init and widenCap).
WideningIsFreshInit ==
  n < kNumClasses =>
    \A cur \in 1..MaxCap, cap \in 0..MaxCap :
      LET slots == InitSlots(n, cur)
      IN  /\ slots \subseteq 0..ClassObjects(n) - 1
          /\ kClassSizes[n] < PageSize =>
               \A p \in 0..ClassPages(n) - 1 :
                 Cardinality({s \in slots : (s * kClassSizes[n]) \div PageSize = p}) <= cur
          /\ cap = 0 \/ cap > cur => Widened(n, slots, cur, cap) = InitSlots(n, cap)

\* The batched write touches exactly the entries that one write per page would,
\* also when the run crosses tables ("Correctness is identical to looping
\* set()", page_map.h, setRange).
SetRangeIsLoop ==
  n < 3 * L2Size =>
    \A count \in 0..3 * L2Size :
      SetRange(n, n + count - 1) =
        {<<page \div L2Size, page % L2Size>> : page \in n..n + count - 1}

\* All of the shortcuts above give what the plain definition gives, for every
\* input in range (sizeToClass, slotOf, bucketOf, widenCap, setRange).
SizesExact ==
  /\ ClassIsTightest
  /\ SlotOfIsQuotient
  /\ BucketsFollowGrid
  /\ WideningIsFreshInit
  /\ SetRangeIsLoop

=============================================================================
