SPECIFICATION FairCacheSpec
CONSTANTS
    Keys = {k1, k2}
    Callers = {c1, c2}
    Ttl = 2
    ClientTimeout = 2
    MaxEntries = 1
INVARIANTS Fresh
PROPERTIES CallsReturn ExpiredLeave
