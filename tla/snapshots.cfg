SPECIFICATION Spec
CONSTANTS
    a1 = a1  a2 = a2  n1 = n1  n2 = n2  r1 = r1
    BELONGS_TO = BELONGS_TO  received = received  validated = validated
    Never = Never  Unset = Unset
    Agents = {a1, a2}
    EntityIds = {n1, n2}
    Versions = {1, 2}
    Attributes <- MCAttributes
    Drafts <- MCDrafts
    RelationIds = {r1}
    RelationTypes = {BELONGS_TO}
    Relations <- MCRelations
    Faults = {"rollback", "unacked", "crash", "graph"}
    MaxTime = 1
    MaxHeld = 1
    MaxFaults = 1
INVARIANTS
    TypeOK
    SavedIsStored
    GraphShowsStored
PROPERTIES
    AnswersSettle
