SPECIFICATION Spec
CONSTANTS
    r1 = r1
    r2 = r2
    s1 = s1
    s2 = s2
    Reviews = {r1, r2}
    Sweeps = {s1, s2}
    Mishaps = 1
    Changes = 1
INVARIANTS
    NothingPassedOver
    MailedOnce
    GatesRespected
SYMMETRY Symmetry
