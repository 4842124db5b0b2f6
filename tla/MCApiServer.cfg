SPECIFICATION FairSpec
CONSTANTS
    Users = {"user"}
    Replicas = {0, 1}
    MaxVersion = 3
    MaxChunks = 3
INVARIANTS ToldWhatHappened EventsInOrder EndsHonestly
PROPERTIES NoLostUpdate StreamsEnd
CHECK_DEADLOCK FALSE
