CONSTANTS
    b1 = b1
    b2 = b2
    b3 = b3
    b4 = b4
    i1 = i1
    i2 = i2
    tenant1 = tenant1
    tenant2 = tenant2
    Borrowers = {b1, b2, b3, b4, i1, i2}
    Inner = {i1, i2}
    Keeper <- MCKeeper
    Conns = {c1, c2, c3, c4}
    Tenants = {tenant1, tenant2}
    TenantOf <- MCTenantOf
    MaxConn = 2
    NoConn = NoConn
    NoTenant = NoTenant
SPECIFICATION NestedSpec
SYMMETRY ConnSymmetry
INVARIANTS
    BoundedOpen
    NoLostWakeup
    StuckOnlyWhenFull
PROPERTIES
    ImplementsLending
