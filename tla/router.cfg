SPECIFICATION Spec
CONSTANTS
    T = T  Text = Text  amount = amount  billed = billed  audit = audit  large = large  c1 = c1
    RoutingDecision = RoutingDecision
    Absent = Absent
    None = None
    Types = {T, RoutingDecision}
    Numbers = {1, 5, 7}
    Payloads <- MCPayloads
    Drafts <- MCDrafts
    Callbacks = {c1}
    MaxEvents = 2
    MaxRules = 3
    MaxSubscriptions = 2
INVARIANTS
    TypeOK
    MatchIsRobust
    EmitsNest
PROPERTIES
    DecisionIsBest
    SubscribersCalledOnce
