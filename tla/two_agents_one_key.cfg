SPECIFICATION Spec
CONSTANTS
    a1 = a1  a2 = a2  b1 = b1  p1 = p1  p2 = p2  T = T  k1 = k1
    RoutingDecision = RoutingDecision
    SystemRouter = SystemRouter
    NoKey = NoKey
    Agents = {a1, a2}
    Processes = {p1}
    ProcessOf <- MCProcessOf
    Types = {T}
    Keys = {k1}
    Routed <- MCRouted
    MaxBatch = 1
    Faults = {}
    MaxEvents = 2
    MaxParents = 0
    MaxFaults = 0
INVARIANTS
    OneEventPerKey
