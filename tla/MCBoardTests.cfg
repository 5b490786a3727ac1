SPECIFICATION MCSpec
INVARIANTS
  BenchPassedIsExact
  SmokePassedIsExact
  PassedWithoutLoss
  PassesAreAttachments
CHECK_DEADLOCK FALSE
