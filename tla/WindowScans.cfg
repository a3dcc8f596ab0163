SPECIFICATION Spec
CONSTANTS
    Hosts = {1, 2}
    Ports = {80}
    Adapters = {0, 1}
    Launches <- Both
    MaxThreads = 3
    MaxQueue = 1
INVARIANTS
    RowsAndDevicesAgree
    FindingsCurrent
    SelectionShown
    StatusSettles
