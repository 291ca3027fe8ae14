CONSTANTS
    WordMax = 15
    EraseDelay = 3
    Uptime = 14
SPECIFICATION Spec
INVARIANTS EraseFollowsTouch CancelHolds
PROPERTY TouchErases
CHECK_DEADLOCK FALSE
