SPECIFICATION FairSpec
CONSTANTS
  p = p
  q = q
  Peer = {p, q}
  None = None
  Message <- Messages
  Oversize <- Large
  MaxQueue = 2
  TTL = 1
  MaxTime = 1
  MaxFailures = 1
INVARIANTS
  TypeOK
  NoSilentLoss
  ResentByFailureOnly
  OldestFirst
PROPERTIES
  OutboxSpec
  QueuedGoesOut
