SPECIFICATION FairSpec
CONSTANTS
    Capacity = 2
    PitLength = {0, 1, 8}
    PitCapacity = 2
    Algorithm = "PCCP"
    Unit = 20
    WqInverse = 8
    G = 4
    CI_FREE = 1
    CI_BUSY = 6
    CI_CONG = 12
    MaxIdle = 2
INVARIANTS
    IndexBounded
PROPERTIES
    LevelsRiseGradually
    CongestionSignalled
    CongestionForgotten
