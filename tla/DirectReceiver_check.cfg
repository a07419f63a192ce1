SPECIFICATION FairSpec
CONSTANTS
    MaxMessages = 4
    Capacity = 2
    Strategies = {"dropLatest", "dropOldest"}
    Receivers = {r1}
    MaxCalls = 1
CHECK_DEADLOCK FALSE
INVARIANT EmptySignalIsRight
INVARIANT DiscardIsReported
INVARIANT MetricsCountEveryDiscard
PROPERTY TerminationCompletes
