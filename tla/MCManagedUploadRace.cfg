SPECIFICATION Spec
CONSTANTS
  o1 = o1
  o2 = o2
  a = a
  b = b
  x = x
  Owners = {o1}
  None = None
  Capsules = {a, b}
  Valid = {a, b}
  Size <- MCSize
  SlotPages = 3
  MaxChunk = 3
  PauseTimeout = 1
  Width = 4
  Erased = Erased
  Bad = Bad
  PromptPark = FALSE
INVARIANTS
  FlashQuiescent
