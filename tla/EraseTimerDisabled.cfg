CONSTANTS
    WordMax = 15
    EraseDelay = 3
    Uptime = 20
SPECIFICATION Spec
INVARIANT DisabledNeverErases
CHECK_DEADLOCK FALSE
