SPECIFICATION Spec
CONSTANTS
  a = a
  b = b
  c = c
  d = d
  None = None
  Node <- Four
  Origin = {a}
  Mortal = {b}
  MaxHops = 3
  MaxSeq = 2
  StaleAfter = 1
  MaxTime = 2
  InitSess <- Ring
  Links <- Later
  Bundles <- Verifier
INVARIANTS
  TypeOK
  LoopFree
  OneForwardPerRound
  OneHopIsNeighbour
PROPERTIES
  PurgeKeepsAnswers
CHECK_DEADLOCK FALSE
