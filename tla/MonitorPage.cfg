CONSTANTS
    Fields = {url}
    Values = {a, b}
    first = a
    FirstConfig <- MCFirstConfig
    MaxStamp = 2
    MaxRequests = 2
    MaxFaults = 1
    NoRow = NoRow
    Failed = Failed
    NoRequest = NoRequest
SPECIFICATION FairSpec
INVARIANTS
    TypeOK
    OwnChangesAreShown
PROPERTIES
    UntouchedFieldsAreKept
    PageCatchesUp
CHECK_DEADLOCK FALSE
