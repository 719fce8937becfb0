SPECIFICATION FairSpec
CONSTANTS
    Clients = {c1, c2}
    Children = {k1, k2, k3}
    Listener = Listener
    MAX_TRIES = 2
    Lookups = {TRUE, FALSE}
    Fates = {"dropped", "flipped", "late"}
    MaxFaults <- OneUnlucky
    AnswerFates = {"sent", "dropped"}
    Timely = TRUE
    Patient = TRUE
INVARIANTS
    TypeOK
    Inductive
    Accounts
    Handover
    NoResponseTakesLosses
PROPERTIES
    ClientEnds
    OrphansEnd
CHECK_DEADLOCK FALSE
