CONSTANTS
    alice1 = alice1
    alice2 = alice2
    alice3 = alice3
    bob1 = bob1
    carol1 = carol1
    alice = alice
    bob = bob
    carol = carol
    Requests = {alice1, alice2, alice3, bob1, carol1}
    MeRequests = {alice1, alice2, bob1, carol1}
    Subs = {alice, bob, carol}
    LockKeys = {1, 2}
    Bases = {"info", "info-2"}
    Slugs = {"info", "info-2", "info-3", "info-2-2", "info-2-3"}
    SubOf <- MCSubOf
    BaseOf <- MCBaseOf
    HashOf <- MCHashOf
    Candidate <- MCCandidate
    SlugLimit = 2
    PoolSize = 2
    MaxFaults = 2
    NoTenant = NoTenant
SPECIFICATION FairSpec
INVARIANTS
    TypeOK
    OneTenantEach
    WholeWorkspace
    AnswersAgree
    NoGaps
PROPERTIES
    KnownStaysKnown
    EveryRequestEnds
CHECK_DEADLOCK FALSE
