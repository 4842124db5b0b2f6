SPECIFICATION Spec
CONSTANTS
    c1 = c1
    c2 = c2
    a1 = a1
    a2 = a2
    a3 = a3
    Clusters = {c1, c2}
    Agents = {a1, a2}
    Sentinel = sentinel
    Deployed <- OneAgentEach
    Rpcs = {r1, r2}
    Octet = 1
    UintMod = 4
    HashKey <- LastIndexHash
    FailThreshold = 1
    MaxRegistrations = 4
PROPERTIES NotLostOnReRegister ImplementsDirectory
CHECK_DEADLOCK FALSE
