CONSTANTS
    rewards = rewards
    u1 = u1
    u2 = u2
    None = None
    Rewards = rewards
    Address <- MCAddress
    Users <- MCUsers
    Merchants <- Nothing
    Timelock = 2
    WasmHash <- MCWasmHash
    InitialWasm = w0
    AdminsArgs <- Nothing
    MaxU64 = 3
    OneX = 1
    SecondsPerDay = 2
    MaxStrayCount = 2
    Deployments <- MCTokenDeployments
    MaxI128 = 2
    MaxTime = 1
    MaxCampaigns = 1
    RewardArgs <- MCOneReward
    ExpirationArgs <- MCOneExpiration
    VestingDaysArgs <- MCVestingDaysArgs
    AmountArgs <- MCAmountArgs
    AllowanceArgs <- MCAllowanceArgs
    MultiSigArgs <- MCMultiSigArgs
CHECK_DEADLOCK FALSE
SPECIFICATION Spec
PROPERTIES
    TokensFollowRecords
