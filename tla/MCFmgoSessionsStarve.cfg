SPECIFICATION SessionSpec
CONSTANTS
  o1 = o1
  o2 = o2
  Owners = {o1}
  NoOwner = NoOwner
  Frames = {"hello", "open", "close", "query", "serial", "event", "malformed", "unparsable", "schema", "chunk", "begin", "finish", "mismatch", "commit", "abort"}
  OutputUnits = 2
  StreamBytes = 1
  QueueBytes = 2
  MaxData = 2
  MaxTenure = 2
INVARIANTS
  RepliesAlternate
