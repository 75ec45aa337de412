SPECIFICATION Spec
SYMMETRY Symmetry
CONSTANTS
    e1 = e1
    w1 = w1
    w2 = w2
    a = a
    b = b
    None = None
    Enrollments = {e1}
    Workers = {w1, w2}
    Mailboxes = {a, b}
    Pool = {a, b}
    CampaignMailbox = b
    NSteps = 2
    Lease = 2
    Timeout = 1
    Grace = 1
    MaxDelay = 0
    MinInterval = 0
    Outcomes = {"accepted", "transient", "timeout", "permanent", "severed"}
    MaxTasks = 1
    MaxFaults = 2
    MaxChurn = 1
INVARIANTS
    ClaimExclusive
    DuplicatesArePaidFor
    InOrder
    OneVoice
    AtMostOneAfterStop
PROPERTY TerminalIsFinal
    ImplementsStepDelivery
