SPECIFICATION FairSpec
CONSTANTS
  a = a
  b = b
  x = x
  y = y
  Node = {a, b}
  Attempt = {x, y}
  Call <- Crossing
  None = None
  Responder = Responder
INVARIANTS
  TypeOK
  KeyConfirmed
  TrueMeansBoth
  NoStaleEntry
PROPERTIES
  ConnectReturns
