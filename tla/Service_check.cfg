SPECIFICATION ServiceFairSpec
CONSTANTS
    Starters = {s1}
    Terminators = {}
    Down = Down
    Connectors = {c1, c2}
    Disconnectors = {d1}
    Listeners = {l1}
CHECK_DEADLOCK FALSE
INVARIANT OrderlyShutdown
INVARIANT ConnectedWorks
PROPERTY EveryCallReturns
