CONSTANTS
    m1 = m1
    m2 = m2
    t1 = t1
    t2 = t2
    Monitors = {m1, m2}
    Incidents = {i1}
    NoMonitor = NoMonitor
    Tenants = {t1, t2}
    Channels = {c1, c2}
    TenantOf <- MCTenantOf
    OwnerOf <- MCOwnerOf
    ListLimit = 1
    MaxFaults = 2
    NoAlert = NoAlert
SPECIFICATION Spec
INVARIANTS
    RecoveryFollowsDown
    RepeatedOnlyAfterFault
PROPERTIES
    AlertNeverLost
CHECK_DEADLOCK FALSE
