SPECIFICATION FairSpec
CONSTANTS
    n1 = n1
    n2 = n2
    n3 = n3
    d1 = d1
    Neighbour <- Neighbours
    Dest = {d1}
    Quality = {1, 2, 3}
    Ttl = {1, 2}
    MaxTime = 3
INVARIANTS
    BetterAndBetter
    LookupProgress
PROPERTIES
    RoutesOnlyExtended
    ExpiredAreErased
