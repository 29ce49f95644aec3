SPECIFICATION Spec

CONSTANTS
  Threads = {t1, t2}
  Blocks = {b1, b2, b3}
  Descriptors = {d1, d2, d3}
  Sizes = {3}
  MaxPages = 2
  VmPages = 2
  CacheDepth = 1
  MaxBytes = 2
  CommitFails = FALSE
  MaxAllocs = 6
  None = None

INVARIANTS
  SpanDescribesBlock

CHECK_DEADLOCK FALSE
