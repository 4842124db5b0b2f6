SPECIFICATION FairIdentitySpec
CONSTANTS
    MaxStarts = 3
    MaxFaults = 2
    TTL = 1
    ClockSkew = 1
    TicksPerSecond = 2
    MaxTime = 5
    Users = {"user", ""}
    Names = {"c", "C!"}
    ValidNames = {"c"}
    Backdate = 1
    CertValidity = 3
    ServerValidity = 4
    CAValidity = 5
INVARIANTS CAStays TokensSurviveRestarts AgentsReconnect
PROPERTIES Recovers
CHECK_DEADLOCK FALSE
