SPECIFICATION FairLifeSpec
CONSTANTS
    Files <- MCFiles
    CRDs <- MCCRDs
    Defines <- MCDefines
    MaxFailures = 2
    Releases = {1, 2, 3}
    Others = {9}
    MaxFaults = 1
    MaxUpgrades = 2
INVARIANTS ServesComplete
PROPERTIES Completes Converges
CHECK_DEADLOCK FALSE
