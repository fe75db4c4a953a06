CONSTANTS
    a1 = a1
    a2 = a2
    c1 = c1
    c2 = c2
    id = id
    claims = claims
    None = None
    Nothing = Nothing
    Account <- MCAccounts
    CampaignId <- MCCampaignIds
    Scenarios <- MCScenarios
    MaxCalls = 2
    MaxRefresh = 1
    TimeBound = 2
    MaxPolls = 2
    HistoryPages <- MCHistoryPages
    Days = {7, 30}
    FirstDays = 30
    Rewards <- MCRewards
    DateRanges <- MCDateRanges
    Campaigns <- MCCampaigns
    PageSize = 1
    ListedCampaigns <- MCCampaigns
    MerchantOf <- MCMerchantOf
    SortKey <- MCSortKeys
    FirstSortKey = id
    Column <- MCColumn
    Inputs <- MCInputs
    Searches <- MCSearches
    TablePageSize = 1
CHECK_DEADLOCK FALSE
SPECIFICATION FairSpec
INVARIANTS
    TypeOK
    ReportsAreTrue
    StaleOnlyByRace
PROPERTIES
    BalanceRecovers
    ButtonsComeBack
