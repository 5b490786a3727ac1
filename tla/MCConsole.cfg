SPECIFICATION FairSpec
CONSTANTS
  Owners = {1, 2}
  RingBytes = 1
  QueueBytes = 1
  MaxTenure = 3
  MaxStops = 1
INVARIANTS
  NoOldOutput
  PresentInputKept
PROPERTIES
  OpenIsServed
  RefinesFifo
