SPECIFICATION FairSpec
CONSTANTS
    n1 = n1
    n2 = n2
    self = self
    c0 = c0
    c1 = c1
    c2 = c2
    s1 = s1
    Sid = {s1}
    Nid = {n1, n2}
    Nonce = {c1, c2}
    OwnNonce = c0
    Self = self
    ForwardTtl = 1
    ConsumerTtl = 2
    MaxTime = 4
INVARIANTS
    TimerForEverySid
    ForwardedLiveTheirTime
PROPERTIES
    EntriesGoAway
    ImplementsPending
