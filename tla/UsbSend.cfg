CONSTANTS
    MaxCall = 3
    MaxChunks = 6
    Timeout = 2
SPECIFICATION Spec
INVARIANTS LossReported StaleNotSent OneTimeout
PROPERTIES PortSpec SendReturns
