SPECIFICATION Spec
CONSTANTS
    Conns = {c1}
    None = None
    BodyLen = 1
    MaxItems = 3
    MaxPacket = 2
    Width = 4
    Wrap = 4
    LastTick = 4
    Receive = 2
    Respond = 1
    Park = 1
    Busy = 2
    Late = 2
    Wake = 3
    Jobs = {}
    MaxBoots = 0
INVARIANTS
    TimeoutIsLate
