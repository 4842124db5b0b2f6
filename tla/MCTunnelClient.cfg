SPECIFICATION FairSpec
CONSTANTS
    BaseDelay = 1
    MaxDelay = 5
    MaxDials = 4
INVARIANTS DirsOwned SessionsClosed
PROPERTIES DialsBackOff CancelEndsStart KeepsTrying
CHECK_DEADLOCK FALSE
