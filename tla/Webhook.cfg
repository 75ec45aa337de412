SPECIFICATION FairSpec
CONSTANTS
    p1 = p1
    t1 = t1
    t2 = t2
    None = None
    Endpoints = {p1}
    Slots = {t1, t2}
    MaxAttempts = 3
    Backoff <- MCBackoff
    MaxRetry = 1
    ReplayRetry = 2
    RetryDelay = 1
    Timeout = 1
    Outcomes = {"ok", "refused", "hidden", "blocked"}
    MaxFaults = 2
    MaxRefusals = 1
    MaxEchoes = 1
    MaxChurn = 1
INVARIANTS
    PendingHasATask
    ReceiptsArePaidFor
    GivesUpOnlyAfterTrying
PROPERTIES
    EveryDeliverySettles
