CONSTANTS
    PacketSize = 2
    Packets = 2
    StreamLen = 11
    MaxLen = 3
    MidCall = FALSE
SPECIFICATION SessionSpec
INVARIANTS TypeOK DmaSafe SessionNoLostWakeup AvailableTrue
PROPERTIES ReadyBankConstant RecvHonoursAvailable SessionStream SessionHostServed
