CONSTANTS
    Sites = {ours, theirs}
    MaxRequests = 2
    MaxClicks = 4
    NoSite = NoSite
    NoRequest = NoRequest
SPECIFICATION FairSpec
INVARIANTS
    QuietAfterDecline
    ScansCarryNewTokens
    AnswersAreOfTheLastSubmission
PROPERTY BusyEnds
CHECK_DEADLOCK FALSE
