SPECIFICATION FairSpec
CONSTANTS
    c = c
    r = r
    x = x
    p = p
    s1 = s1
    Node = {c, r, x, p}
    Neighbours <- Diamond
    Sid = {s1}
    Provider <- FromP
    Consumer = {c}
    Stored = {s1}
    Fragments = 1
    HopLimit = 1
    CacheTtl = 3
    TC = 1
    Flood = FALSE
    MaxGets = 1
    PitExpires = FALSE
    RoutesExpire = FALSE
    Lossy = FALSE
INVARIANTS
    DataRelayedOnce
    RoutesLoopFree
PROPERTY RequestAnswered
