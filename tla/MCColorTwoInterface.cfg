SPECIFICATION FairSpec
CONSTANTS
    m = m
    h = h
    p = p
    s1 = s1
    Node = {m, h, p}
    InRange <- OneCluster
    Sid = {s1}
    Provider <- FromP
    Consumer = {m}
    FirstHeads = {h}
    Fragments = 1
    HopLimit = 2
    CacheTtl = 8
    TC = 1
    Flood = FALSE
    MaxGets = 2
    Electable = {p}
    MaxFaults = 1
INVARIANTS
    DataRelayedOnce
    GetsAggregated
PROPERTIES
    
    RequestAnswered
