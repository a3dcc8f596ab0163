SPECIFICATION Spec
CONSTANTS
    Hosts = {h1, h2}
    Requests <- AnyRequests
    MaxScanTime = 2
    MaxOversleep = 2
    MaxCycles = 4
INVARIANTS
    EventsTellHosts
    NoticeEveryThirdFailure
    WakeMeansLate
PROPERTIES
    BackoffSlowsDown
    LimitReached
