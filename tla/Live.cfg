SPECIFICATION FairSpec
CONSTANTS
    e1 = e1
    w1 = w1
    w2 = w2
    a = a
    b = b
    None = None
    Enrollments = {e1}
    Workers = {w1, w2}
    Mailboxes = {a, b}
    Pool = {a}
    CampaignMailbox = b
    NSteps = 2
    Lease = 2
    Timeout = 1
    Grace = 0
    MaxDelay = 1
    MinInterval = 1
    Outcomes = {"accepted", "transient", "timeout"}
    MaxTasks = 1
    MaxFaults = 1
    MaxChurn = 1
PROPERTY EveryEnrollmentEnds
