SPECIFICATION Spec
CONSTANTS
  o1 = o1
  o2 = o2
  a = a
  b = b
  x = x
  Owners = {o1, o2}
  None = None
  Capsules = {a, b, x}
  Valid = {a, b}
  Size <- MCSize
  SlotPages = 3
  MaxChunk = 3
  PauseTimeout = 1
  Width = 4
  Erased = Erased
  Bad = Bad
  PromptPark = TRUE
INVARIANTS
  FlashQuiescent
  SketchIsSound
  StatusIsTrue
PROPERTIES
  KeepsPromise
SYMMETRY OwnerSymmetry
