SPECIFICATION FairSpec
CONSTANTS
    q1 = q1
    q2 = q2
    k1 = k1
    h1 = h1
    h2 = h2
    w1 = w1
    w2 = w2
    None = None
    Requests = {q1, q2}
    Keys = {k1}
    Hashes = {h1, h2}
    Asks <- SameKey
    Workers = {w1, w2}
    ann = ann
    Addresses = {ann}
    To <- Once
    Cc <- Once
    Bcc <- Nobody
    Lease = 1
    LeaseGrace = 0
    Timeout = 0
    MaxDelay = 1
    MaxTasks = 1
    MaxFaults = 1
    MaxChurn = 1
INVARIANTS
    RunsOncePerKey
    CopiesArePaidFor
    SentMeansEveryone
PROPERTIES
    ReplayIsFaithful
    EveryComposeSettles
