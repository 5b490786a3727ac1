SPECIFICATION MCSpec
CONSTANTS
  Profiles = {"application", "peer"}
  Peer = "peer"
  MaxEdits = 2
  MaxBuilds = 3
  Exclusive = TRUE
  Commands = {k1, k2}
  None = None
INVARIANTS
  CurrentReportIsTrue
  
  ReleasedImagesAreVerified
  FailureLeavesNoOlderSuccess
  
  AcceptedIsProven
  ExportIsOneBuild
SYMMETRY CommandSymmetry
CHECK_DEADLOCK FALSE
