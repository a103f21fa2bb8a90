CONSTANTS
    A = A
    B = B
    p1 = p1
    p2 = p2
    p3 = p3
    sol = sol
    usdc = usdc
    Routes = {A, B}
    LegsOf <- MCLegsOf
    SupportedPools = {p1, p2, p3}
    Forward = 1
    Mints = {sol, usdc}
    Kinds <- MCKinds
    MaxSlot = 5
    MaxLedger = 3
    PageLimit = 1
    MaxPages = 3
    MaxFetches = 2
    MaxPolls = 1
    FreshNodes = TRUE
SPECIFICATION Spec
INVARIANTS
    TypeOK
    CompleteHistoryIsTotal
    IncompleteHasCause
PROPERTIES
    ImplementsOracle
CHECK_DEADLOCK FALSE
