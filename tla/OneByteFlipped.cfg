SPECIFICATION Spec
CONSTANTS
    Base = 4
    MAX_LEN = 10
    MaxData = 4
    SeqNums <- SomeSeqNums
    FlagValues <- SomeFlags
INVARIANTS
    RoundTrip
    FlipCaught
CHECK_DEADLOCK FALSE
