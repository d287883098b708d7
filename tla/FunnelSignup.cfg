CONSTANTS
    MaxFaults = 1
    NoData = NoData
SPECIFICATION Spec
INVARIANT SignupIsRecorded
CHECK_DEADLOCK FALSE
