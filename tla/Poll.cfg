SPECIFICATION FairSpec
CONSTANTS
    w1 = w1
    w2 = w2
    Workers = {w1, w2}
    Kind <- OldThenNew
    NOld = 1
    Batch = 1
    PageSize = 1
    Ladder <- Rungs
    MaxTasks = 1
    MaxFaults = 1
    MaxChurn = 1
INVARIANTS
    NothingSkipped
    OldMailUntouched
PROPERTY EveryMessageHeard
