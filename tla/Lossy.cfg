SPECIFICATION Spec
CONSTANTS
    WindowSize = 2
    BufSize = 2
    File <- Ragged
    Fates = {"dropped", "flipped"}
    MaxFaults = 2
    MAX_TRIES = 2
    WINDOW_TRIES = 2
    Timely = FALSE
    MaxTimeouts = 3
    Opens = {TRUE, FALSE}
    ReadFails = TRUE
    Patient = FALSE
INVARIANTS
    TypeOK
    AckNeverAhead
    DataFaithful
    InReceiverWindow
    CloseOnlyWhenComplete
    SavedWhole
    TriesBounded
    Inductive
PROPERTIES
    WindowNeverRetreats
    ImplementsCopy
CHECK_DEADLOCK FALSE
