SPECIFICATION Spec
CONSTANTS
    Processes = {p1, p2}
    MaxPerMinute = 1
    Times = {0, 60, 61}
    MaxAlerts = 8
    MaxTroubles = 2
INVARIANTS
    OverrunBounded
CHECK_DEADLOCK FALSE
