\* A walk through up to four of five arrays, the pool moving once under it.
CONSTANTS
    FeePrecision = 1000
    MaxFeeRate = 100
    VariableFeeDenominator = 20
    BasisPointMax = 10
    LimitOrderFeeShare = 5
    PriceOne = 4
    MaxU32 = 1000
    MaxU64 = 1023
    MaxU128 = 1048575
    MaxBinPerArray = 2
    BinArrayMinIndex <- MCMinIndex
    BinArrayMaxIndex = 2
    InternalBitmapMinIndex <- MCInternalMinIndex
    InternalBitmapMaxIndex = 1
    MaxAccounts = 20
    MaxTransactionBytes = 760
    PoolStates <- MCPoolStates
    Amounts = {0, 1, 7, 9, 13, 20, 40}
    Provided <- MCProvided
    LookupTables <- MCLookupTables
    MaxSlot = 2
    MaxGeneration = 4
SPECIFICATION Spec
INVARIANTS
    TypeOK
    FeesFitTheRest
    FillsAreHonest
    NoArrayIsSkipped
    MessageSaysWhatIsPlanned
    ContentionIsWhatIsWritten
CHECK_DEADLOCK FALSE
