SPECIFICATION FairSpec
CONSTANTS
    e1 = e1  e2 = e2  n1 = n1  n2 = n2
    NoEntity = NoEntity
    Events = {e1, e2}
    Entities = {n1, n2}
    EntityOf <- MCEntityOf
    ParentsOf <- MCParentsOf
    Relations <- MCRelations
    Others = {e1, n2}
    Unwritable = {n2}
    MaxRetries = 3
    Threshold = 5
    ResetAfter = 2
INVARIANTS
    TypeOK
    BreakerTracksFailures
PROPERTIES
    QuietWhileOpen
    ImplementsProjection
    BreakerRecovers
