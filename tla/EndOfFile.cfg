SPECIFICATION Spec
CONSTANTS
    WindowSize = 3
    BufSize = 3
    File <- Text4
    Fates = {}
    MaxFaults = 0
    MAX_TRIES = 2
    WINDOW_TRIES = 2
    Timely = TRUE
    MaxTimeouts = 3
    Opens = {TRUE}
    ReadFails = FALSE
    Patient = TRUE
INVARIANTS
    NoExtra
CHECK_DEADLOCK FALSE
