CONSTANTS
    x = x  y = y  z = z  m = m  n = n  pc1 = pc1  tv = tv  None = None
    Addresses = {x, y, z}
    Macs = {m, n}
    Names = {pc1, tv}
    Token <- MCToken
    Policies <- MCPolicies
    Batches <- MCBatches
    MaxReports = 4
SPECIFICATION Spec
INVARIANTS SharedMacWasRepeated EveryObservationPlaced SameIdSameToken ChangesReplay
PROPERTY NothingForgotten
CHECK_DEADLOCK FALSE
