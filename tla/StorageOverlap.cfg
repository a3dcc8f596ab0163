SPECIFICATION Spec
CONSTANTS
    Procs = {p1, p2}
    Commands <- OverlapCommands
    Stored <- OverlapStored
    Overlap = TRUE
    Faults = {FALSE}
    MaxRuns = 2
INVARIANTS
    SavedSessionsStay
CHECK_DEADLOCK FALSE
