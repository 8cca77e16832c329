CONSTANTS
    c1 = c1
    c2 = c2
    c3 = c3
    t1 = t1
    t2 = t2
    N = 2
    Contents = {c1, c2, c3}
    Texts = {t1, t2}
    TextOf <- MCTextOf
    Hidden = Hidden
    Nothing = Nothing
    Old = {}
    PerPage = 1
    MaxEnqueue = 1
    PageLimits = {2, 3}
    Strikes = 2
    StrikesMass = 3
    MassMin = 1
    KnownOrder = TRUE
    Mishaps = 2
SPECIFICATION FewStartsSpec
INVARIANTS
    StrikesEarned
    TrackedIsKept
    NoOrphans
PROPERTIES
    RetiredFairly
    Converges
