CONSTANTS
    Channels = {oncall, team}
    MaxRequests = 2
    MaxClicks = 2
    MaxFaults = 1
    NoData = NoData
    NoRequest = NoRequest
    NoChannel = NoChannel
SPECIFICATION FairSpec
INVARIANTS
    DialogNamesTheRemoval
    TestTellsItsOutcome
    RemovedStaysGone
PROPERTIES
    SilenceIsWarned
CHECK_DEADLOCK FALSE
