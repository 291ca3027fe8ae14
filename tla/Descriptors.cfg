CONSTANTS
    Module <- MCModule
    Chars <- MCChars
    MaxPacket = 64
SPECIFICATION Spec
INVARIANTS AnswerWhole ConfigurationParses
PROPERTY TransferEnds
