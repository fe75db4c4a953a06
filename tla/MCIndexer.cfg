CONSTANTS
    c1 = c1
    c2 = c2
    u1 = u1
    NoRow = NoRow
    p1 = p1
    p2 = p2
    CampaignId <- MCCampaigns
    UserAddress <- MCUsers
    Poll <- MCPolls
    Logs <- MCLogs
    BatchLimit = 2
    MaxEventRetries = 2
    MaxFaults = 2
    MaxCrashes = 1
    MaxResets = 1
CHECK_DEADLOCK FALSE
SPECIFICATION FairSpec
INVARIANTS
    TypeOK
    CoveredEventsLeaveATrace
    RecordsFollowEffects
    SerialPollsMatchChain
PROPERTIES
    CatchesUp
    RefinesIngestion
