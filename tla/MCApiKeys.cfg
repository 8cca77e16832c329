SPECIFICATION KeysSpec
CONSTANTS
    c1 = c1
    c2 = c2
    c3 = c3
    a1 = a1
    a2 = a2
    a3 = a3
    k1 = k1
    k2 = k2
    k3 = k3
    k4 = k4
    Keys = {k1, k2, k3, k4}
    FirstKey = k1
    Callers = {c1, c2, c3}
    Clerks = {a1, a2, a3}
    Quotas = {1, 2}
    DefaultQuota = 1
    LastMonth = 1
    NoKey = NoKey
    Nobody = Nobody
SYMMETRY KeysSymmetry
INVARIANTS
    QuotaKept
    OneForOne
PROPERTIES
    ImplementsRegister
CHECK_DEADLOCK FALSE
