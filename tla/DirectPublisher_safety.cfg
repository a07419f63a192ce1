SPECIFICATION Spec
CONSTANTS
    Messages = {m1, m2, m3}
    Capacity = 2
    Strategies = {"direct", "reject", "wait"}
    TermKinds = {"graceful", "timed", "down"}
    StaleToken = {TRUE, FALSE}
    NoMsg = NoMsg
CHECK_DEADLOCK FALSE
SYMMETRY Symmetry
INVARIANT SubmitNeverFull
INVARIANT TaskPopsOwnMessageUnlessInterrupted
INVARIANT WireInPublishOrder
INVARIANT TerminateCountsUndelivered
INVARIANT ReadinessNotLostUnbuffered
