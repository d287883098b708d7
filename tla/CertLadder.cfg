CONSTANTS
    Monitors = {m1}
    Channels = {c1, c2}
    Expiries = {3, 4}
    certWarnDays = 2
    certUrgentDays = 1
    ListLimit = 1
    Horizon = 4
    MaxRecorded = 3
    MaxFaults = 1
    NoCert = NoCert
    NoRow = NoRow
    NoWarning = NoWarning
SPECIFICATION FairSpec
INVARIANTS
    TypeOK
    RepeatsHaveCause
PROPERTIES
    LadderDescends
    LastWarningComes
CHECK_DEADLOCK FALSE
