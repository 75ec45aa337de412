\* Two sweeps race on one address while its operator edits it.
SPECIFICATION LaneSpec
CONSTANTS
    Evaluators = {e1, e2}
    Cooldown = 2
    PausedDwell = 2
    ThrottledDwell = 1
    Grace = 1
    Bands = {0, 2}
    Findings = {"asserted", "paused"}
    MaxReports = 1
SYMMETRY Symmetry
CHECK_DEADLOCK FALSE
INVARIANTS
    DegradedIsSealed
    CooldownServed
    ContainmentIsAnchored
PROPERTIES
    RecoveryIsGradual
