SPECIFICATION FairSpec
CONSTANTS
    Starters = {s1, s2}
    Terminators = {t1, t2}
    Down = Down
CHECK_DEADLOCK FALSE
INVARIANT OneOwner
INVARIANT TerminateReturnsAfterTermination
PROPERTY StateOnlyAdvances
PROPERTY CallsReturn
