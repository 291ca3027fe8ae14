CONSTANTS
    MaxCount = 3
    Speeds = {1, 2, 3, 4}
    RiseTime = 90
SPECIFICATION Spec
INVARIANTS WriteDelivered ReadComplete WriteReleases SpeedKnown RateAsAsked
PROPERTY CallReturns
