CONSTANTS
    Routes = 2
    Sizes = 2
    Capacity = 7
    MaxTime = 1
    Monotonic = TRUE
    Outcomes = {"nonpositive", "positive", "error"}
SPECIFICATION Spec
INVARIANTS TypeOK AcceptedJournalsAreWhole SealedJournalsReplay CompletedJournalsLoad
CHECK_DEADLOCK FALSE
