SPECIFICATION Spec

CONSTANTS
  Pages = {p1}
  Slots = {s1}
  Threads = {t1}
  Values = {v0, v1}
  Zero = v0
  Undef = Undef
  NoBlob = NoBlob
  NoOne = NoOne
  Worker = Worker
  NoAccess = NoAccess
  Deferred = TRUE
  SoftDirty = FALSE
  Incompressible = FALSE
  SelfMem = TRUE
  VmaCap = TRUE
  Shutdown = FALSE

INVARIANTS
  DecommitOnlyClosed
