SPECIFICATION FairSpec

CONSTANTS
  Pages = {p1, p2}
  Slots = {s1}
  Threads = {t1}
  Values = {v0, v1}
  Zero = v0
  Undef = Undef
  NoBlob = NoBlob
  NoOne = NoOne
  Worker = Worker
  NoAccess = NoAccess
  Deferred = TRUE
  SoftDirty = FALSE
  Incompressible = TRUE
  SelfMem = TRUE
  VmaCap = FALSE
  Shutdown = FALSE

INVARIANTS
  CompressingIsLocked

PROPERTIES
  AccessCompletes
