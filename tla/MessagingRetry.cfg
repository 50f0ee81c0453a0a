SPECIFICATION RetrySpec
CONSTANTS
  p1 = p1
  p2 = p2
  Peer = {p1}
  None = None
  MaxMsgs = 1
  MaxFrags = 2
  Totals <- OneLength
  MaxBufs = 1
  MaxRetries = 3
  MaxRestarts = 0
  MaxKeys = 1
PROPERTIES
  RetriesDeliver
CHECK_DEADLOCK FALSE
