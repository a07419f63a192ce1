SPECIFICATION FairSpec
CONSTANTS
    MaxMessages = 5
    MaxPausing = 1
    Window = 2
    High = 2
    Low = 1
    AutoAck = TRUE
    FlowErrors = TRUE
    Receivers = {r1}
    Usages = {{"sync"}, {"async"}, {"async", "pause"}}
    Panicking = {2}
    MaxCalls = 1
CHECK_DEADLOCK FALSE
INVARIANT NoMessageLostUnlessRaced
INVARIANT FlowIsNotStarved
INVARIANT AckedMeansDelivered
PROPERTY EveryWaitEnds
