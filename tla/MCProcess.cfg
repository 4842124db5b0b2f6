SPECIFICATION FairSpec
CONSTANTS
    Conns = {c1, c2}
    Peers = {p1, p2}
INVARIANTS NothingLeft ServesReady
PROPERTIES Exits
CHECK_DEADLOCK FALSE
