SPECIFICATION FairSpec
CONSTANTS
  o = o
  b = b
  c = c
  no = no
  nb = nb
  Device = {o, b, c}
  Name = {no, nb}
  None = None
  Own = o
  NameOf <- MCNameOf
  MaxTasks = 2
INVARIANTS
  TypeOK
  CallbacksPaired
PROPERTIES
  StayFound
