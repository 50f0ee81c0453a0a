SPECIFICATION NetFairSpec
CONSTANTS
  a = a
  b = b
  Node = {a, b}
  NoApi = {}
  Mail <- AtoB
  MaxStarts <- TwoOne
  MaxKeys = 6
INVARIANTS
  NetTypeOK
PROPERTIES
  NewcomerLinked
  QueuedArrives
CHECK_DEADLOCK FALSE
