SPECIFICATION FairSpec
CONSTANTS
    WindowSize = 2
    BufSize = 1
    File <- Text3
    Fates = {"dropped", "flipped"}
    MaxFaults = 2
    MAX_TRIES = 3
    WINDOW_TRIES = 3
    Timely = TRUE
    MaxTimeouts = 8
    Opens = {TRUE}
    ReadFails = FALSE
    Patient = TRUE
INVARIANTS
    BlameTakesLosses
    TriesAccounted
PROPERTIES
    Delivered
    ServerEnds
CHECK_DEADLOCK FALSE
