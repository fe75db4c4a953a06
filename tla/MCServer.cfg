CONSTANTS
    r1 = r1
    r2 = r2
    r3 = r3
    c1 = c1
    c2 = c2
    u1 = u1
    u2 = u2
    NoRow = NoRow
    Request <- MCRequests
    CampaignId <- MCCampaigns
    UserAddress <- MCUsers
    Key <- MCUsers
    NonceTTL = 1
    JwtExpiry = 1
    SecretConfigured = FALSE
    MaxTime = 2
    MaxFaults = 1
    MaxCrashes = 1
    MaxRestarts = 1
    Scenarios <- MCScenarios
CHECK_DEADLOCK FALSE
SPECIFICATION FairSpec
INVARIANTS
    TypeOK
    OneTokenPerNonce
    ClaimAnsweredOnce
    OrderOfOneRequest
    AnsweredBeforeExit
PROPERTIES
    HealthAnswers
    ShutdownCompletes
    RefinesAtomicApi
