SPECIFICATION FairSpec
CONSTANTS
    c = c
    r = r
    x = x
    p = p
    s1 = s1
    Node = {c, p}
    Neighbours <- Pair
    Sid = {s1}
    Provider <- FromP
    Consumer = {c, p}
    Stored = {}
    Fragments = 1
    HopLimit = 2
    CacheTtl = 3
    TC = 1
    Flood = TRUE
    MaxGets = 2
    PitExpires = TRUE
    RoutesExpire = TRUE
    Lossy = TRUE
INVARIANT GetsAggregated
PROPERTY FallsSilent
