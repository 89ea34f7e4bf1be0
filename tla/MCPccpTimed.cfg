SPECIFICATION TimedSpec
CONSTANTS
    RequestNum = 3
    InitialWindowSize = 2
    MaxRexmitLimit = 1
    CongestionControlEnabled = TRUE
    VeryLargeWindow = 1000
    Scale = 2
    StartTime = 0
    MinRexmitTimeout = 2
    MaxRexmitTimeout = 4
    InitialRttvar = 1
    Horizon = 8
INVARIANTS
    EstimatesBounded
    MeasuredFromItsGet
    SettledInTime
PROPERTY NotGivenUpEarly
