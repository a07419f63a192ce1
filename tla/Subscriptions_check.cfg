SPECIFICATION FairSpec
CONSTANTS
    Topics = {"t1", "t2"}
    Initial = {"t1", "t2"}
    Calls <- MCCalls
    OpOf <- MCOpOf
    TopicOf <- MCTopicOf
    Kinds = {"direct", "persistent"}
CHECK_DEADLOCK FALSE
INVARIANT SessionThreadNeverBlocks
INVARIANT NoSubscriptionLeft
PROPERTY EveryWaitEnds
