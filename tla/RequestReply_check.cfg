SPECIFICATION FairSpec
CONSTANTS
    r1 = r1
    r2 = r2
    Requests = {r1, r2}
    Patient = {r2}
    Setups <- MCSetups
    TermKinds = {"forever", "timed", "down"}
    MaxReplies = 1
    MaxBlocks = 1
    NoReq = NoReq
CHECK_DEADLOCK FALSE
INVARIANT NoPanicWhenBuffered
INVARIANT GracefulTerminateWaitsForReplies
 
