SPECIFICATION Spec

CONSTANTS
  None = None
  Node = Node
  a1 = a1
  a2 = a2
  b1 = b1
  b2 = b2
  b3 = b3
  c1 = c1
  c2 = c2
  c3 = c3
  d1 = d1
  d2 = d2
  d3 = d3
  i1 = i1
  i2 = i2
  p1 = p1
  p2 = p2
  r1 = r1
  r2 = r2
  s1 = s1
  s2 = s2
  t1 = t1
  t2 = t2
  w1 = w1
  w2 = w2

INVARIANTS
  HeapTyped
  PagesInOnePlace
  SlotsAccounted
  SpanOutlivesObjects
  LargeBlocksSound
  BlocksUsable
  SizesExact
  BlocksFaithful
  ThreadsApart
  SiteKeepsArena
  BlobsIntact
  DictionariesSound
  MeasureSound

PROPERTIES
  RunsStayClean

CHECK_DEADLOCK FALSE
