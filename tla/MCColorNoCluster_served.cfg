SPECIFICATION Spec
CONSTANTS
    c = c
    r = r
    x = x
    p = p
    s1 = s1
    Node = {c, r, x, p}
    Neighbours <- Star
    Sid = {s1}
    Provider <- FromP
    Consumer = {c, x}
    Stored = {s1}
    Fragments = 1
    HopLimit = 2
    CacheTtl = 3
    TC = 1
    Flood = FALSE
    MaxGets = 2
    PitExpires = FALSE
    RoutesExpire = FALSE
    Lossy = FALSE
PROPERTY EveryPendingGetServed
