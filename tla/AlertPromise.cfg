SPECIFICATION Spec
CONSTANTS
    Processes = {p1}
    MaxPerMinute = 1
    Times = {0, 1, 60, 61, 62}
    MaxAlerts = 5
    MaxTroubles = 1
INVARIANTS
    LimitKept
CHECK_DEADLOCK FALSE
