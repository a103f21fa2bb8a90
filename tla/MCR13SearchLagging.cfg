CONSTANTS
    A = A
    B = B
    p1 = p1
    p2 = p2
    p3 = p3
    sol = sol
    usdc = usdc
    Routes = {A, B}
    LegsOf <- MCLegsOf
    SupportedPools = {p1, p2, p3}
    Forward = 1
    Mints = {sol, usdc}
    Kinds <- FewKinds
    MaxSlot = 4
    MaxLedger = 3
    PageLimit = 2
    MaxPages = 2
    MaxFetches = 1
    MaxPolls = 2
    FreshNodes = FALSE
SPECIFICATION FairSpec
INVARIANTS
    FoundIsReal
PROPERTIES
    SearchEnds
CHECK_DEADLOCK FALSE
