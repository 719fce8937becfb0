SPECIFICATION Spec
CONSTANTS
    WindowSize = 2
    BufSize = 1
    File <- Text2
    Fates = {"dropped"}
    MaxFaults = 1
    MAX_TRIES = 2
    WINDOW_TRIES = 2
    Timely = TRUE
    MaxTimeouts = 5
    Opens = {TRUE, FALSE}
    ReadFails = FALSE
    Patient = TRUE
INVARIANTS
    OpenFailureReported
CHECK_DEADLOCK FALSE
