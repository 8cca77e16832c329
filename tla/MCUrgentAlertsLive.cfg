CONSTANTS
    e1 = e1
    e2 = e2
    e3 = e3
    r1 = r1
    r2 = r2
    Reviews = {r1, r2}
    Evals = {e1, e2}
    ReviewOf <- MCReviewOf
    Sweeps = {s1}
    Tokens = {t1, t2, t3}
    NoToken = NoToken
    MaxPerWindow = 1
    Overruns = 1
    Mishaps = 1
    Changes = 0
SPECIFICATION FairSpec
CHECK_DEADLOCK FALSE
PROPERTIES
    DeferredIsDelivered
