SPECIFICATION Spec
CONSTANTS
  a = a
  b = b
  x = x
  y = y
  Node = {a, b}
  Attempt = {x, y}
  Call <- OneEach
  None = None
  Responder = Responder
INVARIANTS
  KeysMatch
