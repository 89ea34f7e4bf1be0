SPECIFICATION FairSpec
CONSTANTS
    RequestNum = 3
    InitialWindowSize = 3
    MaxRexmitLimit = 1
    CongestionControlEnabled = TRUE
    VeryLargeWindow = 1000
    Scale = 2
INVARIANTS
    OnePlace
    TimerForEveryRequestInWindow
    NoIdleWindow
    GetsMatchTimeouts
    KarnMeasurement
PROPERTIES
    EveryRequestSettled
    ImplementsService
