SPECIFICATION FairSpec
CONSTANTS
    r1 = r1
    w1 = w1
    w2 = w2
    None = None
    Replies = {r1}
    Workers = {w1, w2}
    Lease = 2
    LeaseGrace = 1
    Overdue = 1
    Timeout = 1
    MaxDelay = 1
    DedupWindow = 1
    MaxOutstanding = 1
    Outcomes = {"accepted", "rejected", "ambiguous"}
    MaxTasks = 2
    MaxFaults = 3
    MaxChurn = 1
INVARIANTS
    RepliesArePaidFor
PROPERTIES
    UndoIsHonoured
    ImplementsOutbox
    EveryReplySettles
