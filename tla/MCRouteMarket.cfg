CONSTANTS
    FeeRateDenominator = 20
    FeeBpsDenominator = 20
    LamportsPerSol = 20
    StableScale = 7
    BaseFeeLamports = 3
    ComputeUnitLimit = 4
    MicroPerLamport = 3
    ConfidenceDenominator = 10
    MaxConfidence = 2
    MaxExponent = 1
    MaxPriceAge = 2
    MaxFutureSkew = 1
    MaxRaw = 250
    Now = 5
    MaxTrades = 3
    TradeAmounts = {1, 11}
    DollarSizes = {2, 5}
    Markets <- MCMarkets
    PriceAccounts <- MCPriceAccounts
    SampleSets <- MCSampleSets
SPECIFICATION Spec
INVARIANTS TypeOK NoFreeLunch BuysFitTheirBudget RoutesEndInTheAnchor CostsCoverLamports SizesStayWithinDollars
PROPERTIES ProductNeverShrinks
CHECK_DEADLOCK FALSE
