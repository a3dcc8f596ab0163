SPECIFICATION Spec
CONSTANTS
    NoTarget = NoTarget
    Hosts = {h1, h2, h3}
    Ports <- TwoPorts
    Requests <- SmallRequests
    MaxConcurrency = 2
    MaxHosts = 3
    MaxServices = 1
INVARIANTS
    TypeOK
    StageIndexInRange
    GaugeNeverMovesBack
    StagesDistinguished
    EventsInsideTheirStage
    ResultsFollowHosts
    CompletedScanIsWhole
    WorkersBounded
    LateWorkBounded
PROPERTIES
    CancelTakesEffect
    ImplementsLifecycle
