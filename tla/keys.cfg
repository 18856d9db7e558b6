SPECIFICATION Spec
CONSTANTS
    a1 = a1  a2 = a2  b1 = b1  p1 = p1  p2 = p2  T = T  k1 = k1
    RoutingDecision = RoutingDecision
    SystemRouter = SystemRouter
    NoKey = NoKey
    Agents = {a1, b1}
    Processes = {p1, p2}
    ProcessOf <- MCProcessOf
    Types = {T}
    Keys = {k1}
    Routed <- MCRouted
    MaxBatch = 0
    Faults = {"rollback", "graph"}
    MaxEvents = 3
    MaxParents = 0
    MaxFaults = 2
INVARIANTS
    OneEventPerKey
    ReturnedCarriesKey
