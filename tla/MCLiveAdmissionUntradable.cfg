CONSTANTS
    raydium = raydium
    pumpswap = pumpswap
    orca = orca
    meteora = meteora
    solUsdc = solUsdc
    Pools <- MCPools
    Venue <- MCVenue
    Pair <- MCPair
    ExactPair = solUsdc
    MaxSlot = 3
    OrderedStream = TRUE
    MaxObservations <- MCMaxObservations
SPECIFICATION Spec
INVARIANT UntradablePoolIsNotQuoted
CHECK_DEADLOCK FALSE
