SPECIFICATION Spec
SYMMETRY Symmetry
CONSTANTS
    t1 = t1
    t2 = t2
    b1 = b1
    p1 = p1
    Browsers = {b1}
    Tabs = {t1, t2}
    BrowserOf <- OneBrowser
    Replicas = {p1}
    CacheTTL = 2
    LoadTime = 1
    MaxSessions = 3
    MaxFaults = 1
    MaxChurn = 1
    MaxLoads = 1
INVARIANTS
    OneSuccessor
    EndedStaysEnded
    HonouredBriefly
    StaysSignedIn
