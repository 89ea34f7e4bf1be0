SPECIFICATION FairSpec
CONSTANTS
    Node = {1, 2, 3}
    Link <- MCLink
    Nid <- MCNid
    WaitingTime = 2
    CollectTime = 2
    Interval = 1
    HelloTime = 2
    NbClearInterval = 2
    Retry = 3
    OneSecond = 5
INVARIANTS
    TimersMatchState
PROPERTIES
    EveryNodeServed
    HeadsForgotten
    ImplementsRoles
