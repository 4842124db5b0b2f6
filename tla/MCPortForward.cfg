SPECIFICATION FairForwardSpec
CONSTANTS
    Writers = {w1, w2}
    PodChunks = 2
INVARIANTS HelpersEndFirst
PROPERTIES CleanupEndsForward
CHECK_DEADLOCK FALSE
