SPECIFICATION FairSpec
CONSTANTS
    Messages = {m1, m2}
    Capacity = 1
    Strategies = {"wait"}
    TermKinds = {"graceful", "timed", "down"}
    StaleToken = {FALSE}
    NoMsg = NoMsg
CHECK_DEADLOCK FALSE
PROPERTY TerminationCompletes
PROPERTY PublishReturns
