SPECIFICATION Spec
CONSTANTS
  proc1 = proc1
  proc2 = proc2
  word1 = word1
  word2 = word2
  Proc = {proc1, proc2}
  Passphrase = {word1, word2}
  None = None
  Absent = Absent
  Torn = Torn
  MaxDev = 2
SYMMETRY Symmetry
INVARIANTS
  TypeOK
  WipeIsFinal
  NothingLost
  SameDevice
  StoresOneDevice
