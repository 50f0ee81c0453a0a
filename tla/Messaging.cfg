SPECIFICATION FairSpec
CONSTANTS
  p1 = p1
  p2 = p2
  Peer = {p1, p2}
  None = None
  MaxMsgs = 1
  MaxFrags = 3
  Totals <- TwoLengths
  MaxBufs = 1
  MaxRetries = 2
  MaxRestarts = 1
  MaxKeys = 1
INVARIANTS
  TypeOK
  Integrity
  FreshAckSound
PROPERTIES
  Resolves
CHECK_DEADLOCK FALSE
