CONSTANTS
    Monitors = {m1}
    Heartbeats = {}
    Slow = {}
    Incidents = {i1, i2}
    URLs = {u1}
    Workers = {w1, w2}
    QueueCap = 1
    Thresholds = {2}
    FailCap = 2
    NoMonitor = NoMonitor
    NoJob = NoJob
    Keep = Keep
SPECIFICATION Spec
INVARIANT PausedHasNoOpenIncident
CHECK_DEADLOCK FALSE
