CONSTANTS
    InitialWait = 3
    RetryWait = 4
    Poll = 2
    Settle = 1
    Boot = 2
    ReadTimeout = 1
    NUL = NUL
    Mark = Mark
    Char = Char
    Blank = Blank
    MaxRx = 2
    MaxLen = 2
    Word = 5
SPECIFICATION Spec
INVARIANTS BytesKept InBuffer
PROPERTIES RetryQuiet CallReturns Reconnects
