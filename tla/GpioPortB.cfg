CONSTANTS
    Width = 4
    Ports = 2
    UsedPins = {0, 4}
    Functions = {2, 3}
SPECIFICATION Spec
INVARIANT FunctionAssigned
