SPECIFICATION Spec
CONSTANTS
  Passphrase = {w1, w2}
  Peer = {p, q}
  None = None
  MaxSalts = 2
  MaxRows = 3
  MaxTime = 3
  MaxAge = 1
INVARIANTS
  TypeOK
  Readable
  NeverLockedOut
PROPERTIES
  SavedStays
CHECK_DEADLOCK FALSE
