SPECIFICATION Spec
CONSTANTS
    Calls = {c1, c2}
    Objectives = {o1, o2}
    Budgets = {1}
    Costs = {1}
    MaxGoals = 2
    MaxUsed = 1
    MaxCommits = 2
    MaxTroubles = 2
    None = None
SYMMETRY Symmetry
INVARIANTS
    TypeOK
    BudgetStops
    CommitsOnce
    OwnCommitsStand
PROPERTIES
    RoundsShowSavedBoards
    JudgesWhatItSaw
