SPECIFICATION FairSpec
CONSTANTS
    Sessions = {s1}
    Others = {o1}
    Calls = {w1}
    SizeCap = 1
    MaxSessions = 1
    BufCap = 1
    Chunks = 2
INVARIANTS ClosedOnce SlotsOwned OutputDelivered LastSizeApplied
PROPERTIES DisconnectFreesSlot NothingLeaks
CHECK_DEADLOCK FALSE
