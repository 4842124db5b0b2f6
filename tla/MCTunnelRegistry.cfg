SPECIFICATION FairSpec
CONSTANTS
    c1 = c1
    c2 = c2
    a1 = a1
    a2 = a2
    a3 = a3
    Clusters = {c1, c2}
    Agents = {a1, a2, a3}
    Sentinel = sentinel
    Deployed <- OwnAgents
    Rpcs = {r1, r2}
    Octet = 2
    UintMod = 16
    HashKey <- LastIndexHash
    FailThreshold = 2
    MaxRegistrations = 4
INVARIANTS HostsAccounted NoStaleUsers NeverAnonymous CredentialsMatch
PROPERTIES DeadClusterRemoved
CHECK_DEADLOCK FALSE
