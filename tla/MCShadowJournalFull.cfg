\* More candidates than lines, and a clock that may step back.
CONSTANTS
    Routes = 2
    Sizes = 2
    Capacity = 5
    MaxTime = 1
    Monotonic = FALSE
    Outcomes = {"positive"}
SPECIFICATION Spec
INVARIANTS AcceptedJournalsAreWhole RoomToSeal
CHECK_DEADLOCK FALSE
