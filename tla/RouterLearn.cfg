SPECIFICATION FairSpec
CONSTANTS
  a = a
  b = b
  c = c
  d = d
  None = None
  Node <- Four
  Origin = {a}
  Mortal = {}
  MaxHops = 3
  MaxSeq = 2
  StaleAfter = 1
  MaxTime = 0
  InitSess <- Mutual
  Links = {}
  Bundles = {}
PROPERTIES
  NeighboursLearned
CHECK_DEADLOCK FALSE
