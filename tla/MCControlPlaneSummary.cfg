SPECIFICATION Spec
CONSTANTS
    Calls = {c1, c2}
    Objectives = {o1, o2}
    Budgets = {1}
    Costs = {1}
    MaxGoals = 1
    MaxUsed = 1
    MaxCommits = 1
    MaxTroubles = 1
    None = None
PROPERTIES
    RequestsShowSavedBoards
