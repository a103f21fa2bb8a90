\* Two observations of a pool on a chain of two slots; all four venues.
CONSTANTS
    MaxU64 = 100
    MaxFeeBps = 10
    FeeConfigBump = 1
    TickArraySize = 2
    AnchorMints <- MCAnchorMints
    MaxBinPerArray = 2
    BinArrayMinIndex <- MCMinIndex
    BinArrayMaxIndex = 2
    InternalBitmapMinIndex <- MCInternalMinIndex
    InternalBitmapMaxIndex = 1
    MaxArraysPerDirection = 2
    Worlds <- MCWorlds
    Times = {1, 2}
    MaxObservations = 2
    MaxRetries = 1
    Timeout = 2
    MaxSlot = 2
    MaxPings = 1

SPECIFICATION Spec

\* An observation ends, and the loop is not entered again.
CHECK_DEADLOCK FALSE

INVARIANT TypeOK

PROPERTIES
    ImplementsPoolView
    PreparedNeverGoesBack
    ObservationEnds
