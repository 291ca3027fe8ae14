CONSTANTS
    Width = 4
    Ports = 1
    UsedPins = {0, 1, 2}
    Functions = {2, 3}
SPECIFICATION Spec
INVARIANTS FunctionAssigned ModeHeld
