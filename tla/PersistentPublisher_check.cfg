SPECIFICATION FairSpec
CONSTANTS
    Messages = {m1, m2}
    Setups <- MCSetups
    TermKinds = {"forever", "timed", "down"}
    NoMsg = NoMsg
CHECK_DEADLOCK FALSE
INVARIANT AcceptedIsResolved
INVARIANT NilMeansSettled
INVARIANT CompleteSignalledOnce
PROPERTY EveryWaitEnds
