CONSTANTS
    a1 = a1
    a2 = a2
    None = None
    Address <- MCAddress
    MaxI128 = 2
    AmountArgs <- MCAmountArgs
    AllowanceArgs <- MCAllowanceArgs
    MultiSigArgs <- MCMultiSigArgs
SPECIFICATION Spec
INVARIANT SupplyMatchesBalances
