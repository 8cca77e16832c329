CONSTANTS
    b1 = b1
    b2 = b2
    b3 = b3
    Extractions = {b1, b2, b3}
    Bulk = {b1, b2, b3}
    Troubled = {b1}
    MaxRetries = 2
    MaxConcurrency = 2
    Period = 2
SPECIFICATION FairSpec
INVARIANTS
    DegradedIsHonest
    TokensTold
PROPERTIES
    RateKept
    EveryCallEnds
