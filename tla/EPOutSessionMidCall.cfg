CONSTANTS
    PacketSize = 2
    Packets = 2
    StreamLen = 9
    MaxLen = 2
    MidCall = TRUE
SPECIFICATION SessionSafety
INVARIANT CopyLoopUndisturbed
