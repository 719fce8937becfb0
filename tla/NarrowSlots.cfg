SPECIFICATION Spec
CONSTANTS
    WindowSize = 2
    BufSize = 1
    File <- Text9
    Fates = {"dropped"}
    MaxFaults = 2
    MAX_TRIES = 2
    WINDOW_TRIES = 2
    Timely = TRUE
    MaxTimeouts = 5
    Opens = {TRUE}
    ReadFails = FALSE
    Patient = TRUE
INVARIANTS
    OutputIntact
CHECK_DEADLOCK FALSE
