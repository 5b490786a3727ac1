SPECIFICATION MCSpec
CONSTANTS
  o1 = o1
  o2 = o2
  good = good
  other = other
  bench = bench
  Owners = {o1, o2}
  None = None
  Capsules = {good, other}
  Valid = {good}
  Size <- MCSize
  MaxId = 2
  Links = {1, 2}
  Image = good
  MaxBoots = 2
  Conns = {c1, c2}
INVARIANTS
  ConfirmedIsMine
  IntentSurvives
  PassedIsTrue
SYMMETRY OwnerSymmetry
CHECK_DEADLOCK FALSE
