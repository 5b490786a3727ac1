SPECIFICATION FairSpec
CONSTANTS
  o = o
  a = a
  None = None
  Erased = Erased
  Bad = Bad
PROPERTIES
  CommitResolves
  InstallConfirms
  StageEnds
