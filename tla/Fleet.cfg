SPECIFICATION Spec
CONSTANTS
    None = None
    Shared = Shared
    Refused = Refused
    c1 = c1
    c2 = c2
    Workers = {1, 2}
    Mailboxes = {1, 2}
    Callers = {c1, c2}
    ProviderOf <- MCProviderOf
    LiveWindow = 1
    CallTimeout = 1
    PurgeAge = 3
    RowLimit = 2
    Sweep = 2
    MaxEvents = 1
    Shifting = {1, 2}
    TargetLoad = 2
    ProviderCrowdTarget = 2
    ResidencyFloor = 2
    MinScoreMargin = 10
    MaxMoves = 2
    MaxMovesPerDestination = 1
INVARIANTS
    NoOrphanedPin
PROPERTIES
    StaysPut
