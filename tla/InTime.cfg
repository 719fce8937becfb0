SPECIFICATION Spec
CONSTANTS
    WindowSize = 3
    BufSize = 3
    File <- Text9
    Fates = {"dropped", "flipped"}
    MaxFaults = 3
    MAX_TRIES = 2
    WINDOW_TRIES = 3
    Timely = TRUE
    MaxTimeouts = 5
    Opens = {TRUE, FALSE}
    ReadFails = TRUE
    Patient = FALSE
INVARIANTS
    SrejAnswerable
    SrejOnce
    SrejRecorded
    NamedOnce
    WindowKept
    OneGap
    OneLossIntact
    TwoLossesIntact
PROPERTIES
    IntactWhileSeen
CHECK_DEADLOCK FALSE
