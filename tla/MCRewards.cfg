CONSTANTS
    rewards = rewards
    u1 = u1
    u2 = u2
    None = None
    Rewards = rewards
    Address <- MCAddress
    Users <- MCUsers
    Merchants <- MCMerchants
    Timelock = 2
    WasmHash <- MCWasmHash
    InitialWasm = w0
    AdminsArgs <- Nothing
    MaxU64 = 30000
    OneX = 10000
    SecondsPerDay = 1
    MaxStrayCount = 0
    Deployments <- MCDeployments
    MaxI128 = 60000
    MaxTime = 3
    MaxCampaigns = 2
    RewardArgs <- MCRewardArgs
    ExpirationArgs <- MCExpirationArgs
    VestingDaysArgs <- MCVestingDaysArgs
    AmountArgs <- Nothing
    AllowanceArgs <- Nothing
    MultiSigArgs <- Nothing
CHECK_DEADLOCK FALSE
SPECIFICATION Spec
INVARIANTS
    TypeOK
    VestingOnSchedule
    GrantWithinMultiplier
    EarlyClaimNeverWorse
    CounterCoversClaims
PROPERTIES
    ClaimIsForever
    TermsKept
    RefinesLedger
