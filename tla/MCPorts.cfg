SPECIFICATION MCSpec
CONSTANTS
  Clients = {c1, c2}
  NoClient = NoClient
  Slots = {1}
  Outside = 0
  OfferTicks = 2
  LeaseTicks = 3
  DeclineTicks = 2
  MaxQueue = 2
  Owners = {1}
  RxCapacity = 4
  Reserve = 3
  TxFifo = 2
  PeerHold = 1
  Window = 3
  EventMax = 2
  MaxSent = 6
  MaxNoise = 5
INVARIANTS
  NoSharedAddress
  OfferIsKept
  DeclinedIsUnused
  EchoNeverOverruns
  LossIsSeen
  NothingInherited
  ClosingIsOrderly
SYMMETRY ClientSymmetry
CHECK_DEADLOCK FALSE
