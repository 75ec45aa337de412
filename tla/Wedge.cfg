SPECIFICATION Spec
CONSTANTS
    e1 = e1
    w1 = w1
    w2 = w2
    a = a
    b = b
    None = None
    Enrollments = {e1}
    Workers = {w1, w2}
    Mailboxes = {a, b}
    Pool = {a, b}
    CampaignMailbox = b
    NSteps = 3
    Lease = 2
    Timeout = 1
    Grace = 2
    MaxDelay = 0
    MinInterval = 0
    Outcomes = {"accepted", "permanent"}
    MaxTasks = 1
    MaxFaults = 1
    MaxChurn = 0
INVARIANT FailedRowHasAdvancedCursor
