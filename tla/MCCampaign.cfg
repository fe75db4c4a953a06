CONSTANTS
    a1 = a1
    a2 = a2
    w0 = w0
    w1 = w1
    w2 = w2
    None = None
    Address <- MCAddress
    MaxU64 = 3
    Timelock = 2
    WasmHash <- MCWasmHash
    InitialWasm = w0
    MaxTime = 3
    MaxCampaigns = 2
    RewardArgs <- MCRewardArgs
    ExpirationArgs <- MCExpirationArgs
    VestingDaysArgs <- MCVestingDaysArgs
    AdminsArgs <- MCAdminsArgs
SPECIFICATION Spec
INVARIANT TypeOK
PROPERTIES
    IssuedTermsImmutable
    UpgradeNeedsQuorumAndDelay
