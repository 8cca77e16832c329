SPECIFICATION FairSpec
CONSTANTS
    i1 = i1
    i2 = i2
    r1 = r1
    r2 = r2
    r3 = r3
    Instances = {i1, i2}
    Requests = {r1, r2, r3}
    Estimate = 3
    Ceiling = 4
    Costs = {1, 4}
    Budgets = {0, 2}
    Window = 2
    Holds = {2}
    Mishaps = 1
INVARIANTS
    DayKept
    FleetShare
    HintHonest
PROPERTIES
    Reopens
