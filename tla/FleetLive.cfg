SPECIFICATION FairSpec
CONSTANTS
    None = None
    Shared = Shared
    Refused = Refused
    c1 = c1
    Workers = {1, 2}
    Mailboxes = {1, 2}
    Callers = {c1}
    ProviderOf <- MCProviderOf
    LiveWindow = 1
    CallTimeout = 1
    PurgeAge = 3
    RowLimit = 1
    Sweep = 1
    MaxEvents = 2
    Shifting = {}
    TargetLoad = 2
    ProviderCrowdTarget = 2
    ResidencyFloor = 1
    MinScoreMargin = 10
    MaxMoves = 2
    MaxMovesPerDestination = 1
PROPERTIES
    FindsAHome
    ComesToRest
