SPECIFICATION Spec
CONSTANTS
    a1 = a1  a2 = a2  s1 = s1  s2 = s2  n1 = n1
    Any = Any
    Agents = {a1, a2}
    ScopeOf <- MCScopeOf
    Entities = {n1}
    PageSize = 1
    DefaultLimit = 2
    ReplayLimit = 3
    MaxTime = 1
    MaxEvents = 1
    MaxOrphans = 0
INVARIANTS
    AnsweredIsReturned
