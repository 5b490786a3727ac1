SPECIFICATION Spec
CONSTANTS
  o1 = o1
  o2 = o2
  a = a
  b = b
  x = x
  Owners = {o1, o2}
  None = None
  Capsules = {a, b, x}
  Valid = {a, b}
  Size <- MCSize
  SlotPages = 3
  MaxChunk = 3
  Lease = 2
  PauseTimeout = 1
  MaxId = 2
  MaxGen = 2
  Erased = Erased
  Bad = Bad
INVARIANTS
  RunsOnOwnState
  GiveUpKeepsOld
PROPERTIES
  KeepsPromise
SYMMETRY OwnerSymmetry
