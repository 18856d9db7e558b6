SPECIFICATION Spec
CONSTANTS
    READ = READ  WRITE = WRITE  finance = finance  T = T
    reader = reader  writer = writer  freeze = freeze  close = close
    id = id  amount = amount
    Agents = {a1, a2}
    RoleDrafts <- MCRoleDrafts
    RuleDrafts <- MCRuleDrafts
    Schemas <- MCSchemas
    Chain <- MCChain
    Scopes = {finance, legal}
    Permissions = {READ, WRITE}
    AllScopes = AllScopes
    EventTypes = {T}
    NoType = NoType
    DefaultDeny = TRUE
    AuditSize = 1
    MaxRules = 2
    SchemaTypes = {T}
    NoSchema = NoSchema
    DataFields = {id, amount, note}
    MaxStored = 2
    Measured = {emit, project_event}
    Projections = {project_event}
    Connect = connect
    FailureSize = 2
    SampleSize = 2
    Window = 2
    MaxAttempts = 4
    Names = {user, password}
    Values = {v1}
    NoValue = NoValue
    Unloaded = Unloaded
    AccessSize = 2
    MaxVersions = 3
    MaxRetries = 3
    NoDriver = NoDriver
    MaxDrivers = 3
INVARIANTS
    OneShapePerSchema
    RateNeverOverstates
    KeptIsLatest
    JsonIsOneVersion
    AvailableIsConnected
    OnlyHeldIsOpen
PROPERTIES
    DecisionIsGrounded
    NewRoleGrantsNothing
