SPECIFICATION Spec
CONSTANTS
    c1 = c1
    c2 = c2
    a1 = a1
    a2 = a2
    a3 = a3
    Clusters = {c1, c2}
    Agents = {a1, a2}
    Sentinel = sentinel
    Deployed <- OneAgentEach
    Rpcs = {r1}
    Octet = 2
    UintMod = 16
    HashKey <- LastIndexHash
    FailThreshold = 3
    MaxRegistrations = 3
PROPERTIES ReRegistrationSurvivesRound
CHECK_DEADLOCK FALSE
