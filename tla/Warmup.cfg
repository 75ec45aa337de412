\* Ticks and an engagement race while workers die and the lane moves.
SPECIFICATION Spec
CONSTANTS
    Workers = {w1, w2}
    Receipts = {r1}
    Volume = 3
    LaneVolume = 1
    PairCap = 2
    MaxRetry = 1
    MaxFaults = 2
    MaxMoves = 2
CHECK_DEADLOCK FALSE
INVARIANTS
    DuplicatesArePaidFor
    CountersAgree
    PairBudgetHolds
PROPERTIES
    EventuallyEngaged
