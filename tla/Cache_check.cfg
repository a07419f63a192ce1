SPECIFICATION CacheFairSpec
CONSTANTS
    Requests = {r1, r2}
    ByChannel = {r1}
    Pointers = {"p1", "p2"}
    None = None
    MaxOutstandingCacheRequests = 1
CHECK_DEADLOCK FALSE
INVARIANT ResponsesNeverBlock
INVARIANT NoPanicUnlessOvertaken
PROPERTY EveryRequestAnswered
