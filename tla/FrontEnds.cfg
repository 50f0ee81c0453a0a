SPECIFICATION Spec
CONSTANTS
  p = p
  q = q
  Peer = {p, q}
  Client = {c}
  None = None
  Typed <- Spellings
  Limit = 2
  Window = 1
  MaxQueue = 1
  LockAfter = 2
  MaxMsg = 2
  MaxTime = 2
INVARIANTS
  TypeOK
  Recorded
  RightPeer
  PromptFresh
PROPERTIES
  WindowExact
CHECK_DEADLOCK FALSE
