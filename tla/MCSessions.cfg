SPECIFICATION MCSpec
CONSTANTS
  Byte <- MCByte
  Zero = 0
  Header = 2
  Prefix = 1
  MaxPayload = 3
  Chunk = 2
  MinOffer = 2
  MaxOffer = 4
  Fields <- MCFields
  Streams <- MCStreams
  o1 = o1
  o2 = o2
  Owners = {o1, o2}
  NoOwner = NoOwner
  Frames = {"hello", "open", "close", "query", "serial", "malformed", "unparsable", "begin", "finish", "mismatch", "commit", "abort"}
  OutputUnits = 1
  StreamBytes = 1
  QueueBytes = 1
  MaxData = 1
  MaxTenure = 2
INVARIANTS
  UploadExcludesConsole
  OwnerKnows
  NoForeignBytes
  TurnsAlternate
  InStep
SYMMETRY SlotSymmetry
CHECK_DEADLOCK FALSE
