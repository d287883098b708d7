CONSTANTS
    Monitors = {m1}
    Heartbeats = {m1}
    Slow = {}
    Incidents = {i1, i2, i3}
    URLs = {u1}
    Workers = {w1, w2}
    QueueCap = 1
    Thresholds = {1, 2}
    FailCap = 2
    NoMonitor = NoMonitor
    NoJob = NoJob
    Keep = Keep
SPECIFICATION FairSpec
INVARIANTS
    TypeOK
    OpenMeansDown
    SnapshotKnowsIncident
PROPERTIES
    ImplementsIncidentTable
    Recovers
    Detects
CHECK_DEADLOCK FALSE
