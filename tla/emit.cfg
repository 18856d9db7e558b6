SPECIFICATION Spec
CONSTANTS
    a1 = a1  a2 = a2  b1 = b1  p1 = p1  p2 = p2  T = T  k1 = k1
    RoutingDecision = RoutingDecision
    SystemRouter = SystemRouter
    NoKey = NoKey
    Agents = {a1, a2}
    Processes = {p1}
    ProcessOf <- MCProcessOf
    Types = {T, RoutingDecision}
    Keys = {k1}
    Routed <- MCRouted
    MaxBatch = 2
    Faults = {"rollback", "unacked", "crash", "graph"}
    MaxEvents = 2
    MaxParents = 1
    MaxFaults = 1
INVARIANTS
    TypeOK
    KeysLeadToTheirEvents
    SeenIsStored
    DecisionsAreSound
    FreshReturnIsSettled
PROPERTIES
    ImplementsEventLog
