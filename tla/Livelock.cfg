SPECIFICATION FairSpec
CONSTANTS
    Clients = {c1}
    Children = {k1, k2, k3}
    Listener = Listener
    MAX_TRIES = 2
    Lookups = {TRUE}
    Fates = {}
    MaxFaults <- NoFaults
    AnswerFates = {"flipped"}
    Timely = TRUE
    Patient = TRUE
PROPERTIES
    ClientEnds
CHECK_DEADLOCK FALSE
