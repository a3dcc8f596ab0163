SPECIFICATION Spec
CONSTANTS
    Procs = {p1}
    Commands <- AllCommands
    Stored <- MCStored
    Overlap = FALSE
    Faults = {FALSE, TRUE}
    MaxRuns = 3
INVARIANTS
    RecordsUnique
    DetailsFollowSession
    HistoryHasWorkspace
    OneActiveWorkspace
    WorkspaceLimitKept
PROPERTIES
    ImplementsStore
    PresenceKept
CHECK_DEADLOCK FALSE
