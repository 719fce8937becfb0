SPECIFICATION Spec
CONSTANTS
    Cases <- PromiseCases
    Clock = {4, 5}
    Parts = 2
    Children = {c1, c2}
    MaxSends = 3
    Draws = 5
INVARIANTS
    SomePromiseKept
CHECK_DEADLOCK FALSE
