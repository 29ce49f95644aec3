SPECIFICATION LiveSpec

CONSTANTS
  None = None
  Node = Node
  a1 = a1
  b1 = b1
  b2 = b2
  d1 = d1
  d2 = d2
  p1 = p1
  r1 = r1
  t1 = t1
  t2 = t2
  w1 = w1

PROPERTIES
  CallsEnd
  BackgroundWorks

CHECK_DEADLOCK FALSE
