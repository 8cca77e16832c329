CONSTANTS
    r1 = r1
    d1 = d1
    t1 = t1
    s1 = s1
    Requests = {r1, d1}
    Keyed = {r1}
    Texts = {t1}
    TextOf <- MCTextOf
    NoOne = NoOne
    Windows = {1, 2}
    Sweeps = {s1}
    Mishaps = 1
    Switches = 2
SPECIFICATION FairSpec
CHECK_DEADLOCK FALSE
INVARIANTS
    OptOutHolds
    CallsAccounted
    NothingAfterDeletion
PROPERTIES
    FreshKept
    WindowHonoured
    DeliveriesProcessed
