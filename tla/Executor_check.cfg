SPECIFICATION FairSpec
CONSTANTS
    Tasks = {t1, t2, t3}
    Terminators = {q1, q2}
    DefaultSize = 1
    Runner = Runner
    NoTask = NoTask
CHECK_DEADLOCK FALSE
INVARIANT NoSendOnClosedChannel
INVARIANT AwaitTerminationWaitsForAll
PROPERTY ImplementsEventQueue
PROPERTY CallsReturnUnlessResizing
