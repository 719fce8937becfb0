SPECIFICATION Spec
CONSTANTS
    WindowSize = 2
    BufSize = 2
    File <- Ragged
    Fates = {"late", "twice"}
    MaxFaults = 2
    MAX_TRIES = 1
    WINDOW_TRIES = 3
    Timely = FALSE
    MaxTimeouts = 2
    Opens = {TRUE}
    ReadFails = FALSE
    Patient = TRUE
INVARIANTS
    AckNeverAhead
    DataFaithful
    CloseOnlyWhenComplete
PROPERTIES
    ImplementsCopy
CHECK_DEADLOCK FALSE
