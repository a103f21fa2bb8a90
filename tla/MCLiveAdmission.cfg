CONSTANTS
    raydium = raydium
    pumpswap = pumpswap
    orca = orca
    meteora = meteora
    solUsdc = solUsdc
    Pools <- MCPools
    Venue <- MCVenue
    Pair <- MCPair
    ExactPair = solUsdc
    MaxSlot = 3
    OrderedStream = FALSE
    MaxObservations <- MCMaxObservations
SPECIFICATION Spec
INVARIANTS
    TypeOK
    RoutesAreQuotable
    NewestStateWins
    InitialRoutesSurvive
CHECK_DEADLOCK FALSE
