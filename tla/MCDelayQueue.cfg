SPECIFICATION FairSpec
CONSTANTS
    p1 = p1
    p2 = p2
    p3 = p3
    Packet <- Packets
    Delay = {1, 2, 3}
    TC = 2
    MaxHeard = 3
    MaxTime = 3
INVARIANTS
    TimerAtHead
    InOrder
    NotSentInVain
PROPERTIES
    EveryPacketPopped
