SPECIFICATION Spec
CONSTANTS
    Devices <- MCDevices
    Signals = {"pair", "ir"}
    MaxCalls = 3
    MaxSpurious = 1
INVARIANTS
    StopStops
    SubscribersServed
    NotIrAndImage
PROPERTIES
    FramesKeepComing
    DestructorReturns
CHECK_DEADLOCK FALSE
