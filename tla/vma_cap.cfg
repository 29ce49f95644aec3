SPECIFICATION Spec

CONSTANTS
  Pages = {p1, p2}
  Slots = {s1}
  Threads = {t1}
  Values = {v0, v1}
  Zero = v0
  Undef = Undef
  NoBlob = NoBlob
  NoOne = NoOne
  Worker = Worker
  NoAccess = NoAccess
  Deferred = FALSE
  SoftDirty = TRUE
  Incompressible = TRUE
  SelfMem = FALSE
  VmaCap = TRUE
  Shutdown = TRUE

INVARIANTS
  NoLockLeak
  BlobMatchesState
  CompressedIsReclaimed

CHECK_DEADLOCK FALSE
