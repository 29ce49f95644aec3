SPECIFICATION ModesSpec

CONSTANTS
  Modes = {"configured", "standard"}
  Pages = {p1}
  Slots = {s1, s2}
  Threads = {t1, t2}
  Values = {v0, v1, v2}
  Zero = v0
  Undef = Undef
  NoBlob = NoBlob
  NoOne = NoOne
  Worker = Worker
  NoAccess = NoAccess
  Deferred = TRUE
  SoftDirty = FALSE
  Incompressible = TRUE
  SelfMem = TRUE
  VmaCap = FALSE
  Shutdown = FALSE

SYMMETRY ThreadSymmetry

INVARIANTS
  TypeOK
  ReadsSeeLastStore
  NothingLost
  NoFatalFault
  DecommitOnlyClosed
  CompressedNeverWritable
  CompressedIsReclaimed

PROPERTIES
  FlatSpec
