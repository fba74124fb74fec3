CONSTANTS
    p1 = p1
    p2 = p2
    None = None
    Callers <- MCCallers
    PipeCap <- MCPipeCap
    MaxFaults <- MCMaxFaults
SPECIFICATION SubHalSpec
INVARIANTS
    SubHalTypeOK
    WaitsOnlyWhenIdle
    NeverBlindPoll
PROPERTIES
    OneShot
    FingerIsSeen
    DisarmedThreadRests
    DisarmedSensorIsJoined
    EventsHaveACallback
