CONSTANTS
    m1 = m1
    m2 = m2
    t1 = t1
    t2 = t2
    Monitors = {m1, m2}
    Incidents = {i1, i2}
    NoMonitor = NoMonitor
    Tenants = {t1, t2}
    Channels = {c1}
    TenantOf <- MCTenantOf
    OwnerOf <- MCOwnerOf
    ListLimit = 1
    MaxFaults = 1
    NoAlert = NoAlert
SPECIFICATION FairSpec
INVARIANTS
    TypeOK
PROPERTIES
    ImplementsIncidentTable
    EverythingSettles
CHECK_DEADLOCK FALSE
