SPECIFICATION Spec
CONSTANTS
    Cases <- AllCases
    Clock = {4, 5}
    Parts = 2
    Children = {c1, c2}
    MaxSends = 3
    Draws = 5
INVARIANTS
    EnvironmentWins
    DropListObeyed
    ChildrenShareLuck
CHECK_DEADLOCK FALSE
