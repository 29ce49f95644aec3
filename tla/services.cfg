SPECIFICATION Spec

CONSTANTS
  None = None
  a1 = a1
  a2 = a2
  p1 = p1
  p2 = p2
  t1 = t1
  t2 = t2

INVARIANTS
  ServicesTyped
  DispatchSound
  JoinedMeansQuiet
  ForkOutsideTick
  NoSpuriousFault
  MappingsIntact
  FaultsHandled
  CapRestoreSound
  SavesAccumulate
  ScalingSound

PROPERTIES
  AttemptsSpaced

CHECK_DEADLOCK FALSE
