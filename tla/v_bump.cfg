SPECIFICATION Spec

CONSTANTS
  Threads = {t1, t2}
  Contig = 3
  Sizes = {1, 3}
  Chunk = 0
  CreateFails = FALSE
  CommitFails = FALSE
  MayFork = FALSE
  MaxAllocs = 5
  None = None

INVARIANTS
  NoOverlap

CHECK_DEADLOCK FALSE
