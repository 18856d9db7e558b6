--------------------------- MODULE Services_proofs ---------------------------
(* The services that live in the memory of one process, each by itself, for any
   number of agents, roles, rules, schemas and secrets and any bounds. *)
EXTENDS AccessPolicy, SchemaRegistry, Metrics, Secrets, Lifecycle, Lists_proofs, TLAPS

(* Connections: where a connect has come to, and what it has established. *)
LifecycleInv ==
    /\ created \in Nat /\ drivers \subseteq 1 .. created
    /\ pools = IF pool THEN 1 ELSE 0
    /\ at.step \in {"idle", "pool", "schema", "graph", "verify"}
    /\ at.step = "pool" => at.next.step \in {"schema", "idle"}
    /\ at.step \in {"graph", "verify"} => connected
    /\ at.step = "verify" => driver \in drivers
    /\ AvailableIsConnected
    /\ OnlyHeldIsOpen

LEMMA LifecycleStep ==
    ASSUME NoDriver \notin Nat, LifecycleInv, [LifecycleNext]_lifecycleVars
    PROVE  LifecycleInv'
<1> USE DEF LifecycleInv, AvailableIsConnected, OnlyHeldIsOpen, Resting, poolVars,
            driverVars
<1>1. ASSUME NEW step \in {"schema", "idle"}, Begin(step)
      PROVE  LifecycleInv'
  BY <1>1 DEF Begin
<1>2. CASE HavePool
  BY <1>2 DEF HavePool
<1>3. CASE OpenPool
  BY <1>3 DEF OpenPool, NeedsPool
<1>4. CASE PoolRefused
  BY <1>4 DEF PoolRefused
<1>5. CASE InitSchema
  BY <1>5 DEF InitSchema
<1>6. CASE InitSchemaRaises
  BY <1>6 DEF InitSchemaRaises
<1>7. CASE CreateDriver
  <2>1. created' = created + 1 /\ created' \in Nat /\ created' # NoDriver
    BY <1>7 DEF CreateDriver
  <2>2. drivers' \subseteq 1 .. created' /\ driver' \in drivers'
    BY <1>7, <2>1 DEF CreateDriver
  <2>3. ~replaced' => drivers' = {driver'} \ {NoDriver}
    BY <1>7, <2>1 DEF CreateDriver
  <2> QED BY <1>7, <2>1, <2>2, <2>3 DEF CreateDriver
<1>8. CASE Verified
  BY <1>8 DEF Verified
<1>9. CASE GraphUnavailable
  BY <1>9 DEF GraphUnavailable
<1>10. ASSUME NEW fails \in BOOLEAN, Close(fails)
       PROVE  LifecycleInv'
  <2>1. ~available' /\ at' = at /\ at.step = "idle"
    BY <1>10 DEF Close, BecomeUnavailable
  <2>2. pools' = IF pool' THEN 1 ELSE 0
    BY <1>10 DEF Close
  <2>3. drivers' \subseteq drivers /\ (~replaced' => drivers' = {driver'} \ {NoDriver})
    BY <1>10 DEF Close
  <2> QED BY <1>10, <2>1, <2>2, <2>3 DEF Close
<1>11. CASE UNCHANGED lifecycleVars
  BY <1>11 DEF lifecycleVars
<1> QED
  BY <1>1, <1>2, <1>3, <1>4, <1>5, <1>6, <1>7, <1>8, <1>9, <1>10, <1>11
     DEF LifecycleNext

LEMMA LifecycleInvariant ==
    ASSUME NoDriver \notin Nat
    PROVE  LifecycleInit /\ [][LifecycleNext]_lifecycleVars => []LifecycleInv
<1>1. LifecycleInit => LifecycleInv
  BY DEF LifecycleInit, LifecycleInv, AvailableIsConnected, OnlyHeldIsOpen, Resting
<1>2. LifecycleInv /\ [LifecycleNext]_lifecycleVars => LifecycleInv'
  BY LifecycleStep
<1> QED BY <1>1, <1>2, PTL

(* However connects, failures, operations and closes follow each other, an
   available projector has an open driver, of a context that is connected. *)
THEOREM AvailableHasDriver ==
    ASSUME NoDriver \notin Nat
    PROVE  LifecycleInit /\ [][LifecycleNext]_lifecycleVars => []AvailableIsConnected
<1>1. LifecycleInv => AvailableIsConnected
  BY DEF LifecycleInv
<1> QED BY <1>1, LifecycleInvariant, PTL

(* No failed or repeated connect and no operation after close opens a pool that
   close will not close, nor a driver, as long as none is replaced. *)
THEOREM NothingOpenUnheld ==
    ASSUME NoDriver \notin Nat
    PROVE  LifecycleInit /\ [][LifecycleNext]_lifecycleVars => []OnlyHeldIsOpen
<1>1. LifecycleInv => OnlyHeldIsOpen
  BY DEF LifecycleInv
<1> QED BY <1>1, LifecycleInvariant, PTL

------------------------------------------------------------------------------
(* Roles: only roles that exist are assigned. *)
AssignedExist ==
    /\ agent_roles \in [Agents -> SUBSET RoleNames]
    /\ \A a \in Agents : agent_roles[a] \subseteq DOMAIN roles

LEMMA RolesStep ==
    ASSUME AssignedExist, [PolicyNext]_policyVars
    PROVE  AssignedExist'
<1>1. ASSUME NEW r \in RoleDrafts, AddRole(r)
      PROVE  AssignedExist'
  BY <1>1 DEF AssignedExist, AddRole
<1>2. ASSUME NEW n \in RoleNames, RemoveRole(n)
      PROVE  AssignedExist'
  BY <1>2 DEF AssignedExist, RemoveRole, Unassigned
<1>3. ASSUME NEW a \in Agents, NEW n \in RoleNames,
             AssignRole(a, n) \/ RemoveRoleAssignment(a, n)
      PROVE  AssignedExist'
  BY <1>3 DEF AssignedExist, AssignRole, RemoveRoleAssignment
<1>4. ASSUME UNCHANGED <<roles, agent_roles>>
      PROVE  AssignedExist'
  BY <1>4 DEF AssignedExist
<1> QED
  BY <1>1, <1>2, <1>3, <1>4
     DEF PolicyNext, AddAccessRule, RemoveAccessRule, CanAccess, policyVars

(* A role that is added under a name that has none grants nobody anything, also
   when that name was assigned before. *)
THEOREM NewRolesGrantNothing ==
    PolicyInit /\ [][PolicyNext]_policyVars => NewRoleGrantsNothing
<1>1. PolicyInit => AssignedExist
  BY DEF PolicyInit, AssignedExist
<1>2. AssignedExist /\ [PolicyNext]_policyVars => AssignedExist'
  BY RolesStep
<1>3. AssignedExist /\ [PolicyNext]_policyVars =>
          [\A n \in DOMAIN roles' \ DOMAIN roles :
             \A a \in Agents, s \in Scopes, p \in Permissions :
                 n \notin Granting(a, s, p)']_policyVars
  <2> SUFFICES ASSUME AssignedExist, PolicyNext,
                      NEW n \in DOMAIN roles' \ DOMAIN roles, NEW a \in Agents,
                      NEW s \in Scopes, NEW p \in Permissions
               PROVE  n \notin Granting(a, s, p)'
    OBVIOUS
  <2>1. \E r \in RoleDrafts : AddRole(r)
    BY DEF PolicyNext, RemoveRole, AssignRole, RemoveRoleAssignment, AddAccessRule,
           RemoveAccessRule, CanAccess
  <2>2. agent_roles' = agent_roles
    BY <2>1 DEF AddRole
  <2> QED BY <2>2 DEF Granting, AssignedExist
<1> QED BY <1>1, <1>2, <1>3, PTL DEF NewRoleGrantsNothing

------------------------------------------------------------------------------
(* Decisions: the rules are in order, the older first among those of a priority,
   and all of them older than the next one. *)
Rules == [draft : RuleDrafts, priority : Int, age : Nat]
Entries == [agent_id : Agents, scope : Scopes, action : Permissions,
            event_type : EventTypes \cup {NoType}, allowed : BOOLEAN]

PolicyInv ==
    /\ added \in Nat
    /\ rules \in Seq(Rules)
    /\ InOrder(rules)
    /\ \A i \in DOMAIN rules : rules[i].age < added
    /\ audit_log \in Seq(Entries)

MatchingRules(s, p, t) ==
    {i \in DOMAIN rules : RuleMatches(rules[i].draft, s, p, t)}

LEMMA RuleAdded ==
    ASSUME PolicyInv, NEW d \in RuleDrafts, AddAccessRule(d)
    PROVE  PolicyInv'
<1> DEFINE r == [draft |-> d, priority |-> d.priority, age |-> added]
<1>1. r \in Rules /\ r.age = added /\ (\A q \in Rules : q.priority \in Int)
  BY PolicyAssumption DEF PolicyInv, Rules
<1>2. /\ Inserted(rules, r) \in Seq(Rules)
      /\ InOrder(Inserted(rules, r))
      /\ \A i \in DOMAIN Inserted(rules, r) :
            \/ Inserted(rules, r)[i] = r
            \/ \E j \in DOMAIN rules : Inserted(rules, r)[i] = rules[j]
  <2>1. /\ rules \in Seq(Rules) /\ InOrder(rules)
        /\ \A i \in DOMAIN rules : rules[i].age < r.age
    BY <1>1 DEF PolicyInv
  <2> HIDE DEF r
  <2> QED BY <1>1, <2>1, InsertedStaysInOrder
<1>3. /\ rules' = Inserted(rules, r) /\ added' = added + 1
      /\ audit_log' = audit_log
  BY DEF AddAccessRule
<1>4. ASSUME NEW i \in DOMAIN rules'
      PROVE  rules'[i].age < added'
  <2> HIDE DEF r
  <2>1. CASE rules'[i] = r
    BY <1>1, <1>3, <2>1 DEF PolicyInv
  <2>2. ASSUME NEW j \in DOMAIN rules, rules'[i] = rules[j]
        PROVE  rules'[i].age < added'
    <3>1. rules[j] \in Rules /\ rules[j].age < added /\ added \in Nat
      BY DEF PolicyInv
    <3>2. rules[j].age \in Nat
      BY <3>1 DEF Rules
    <3> QED BY <1>3, <2>2, <3>1, <3>2
  <2> QED BY <1>2, <1>3, <2>1, <2>2
<1>5. added' \in Nat /\ rules' \in Seq(Rules) /\ InOrder(rules')
  BY <1>2, <1>3 DEF PolicyInv
<1>6. audit_log' \in Seq(Entries)
  BY <1>3 DEF PolicyInv
<1> QED BY <1>4, <1>5, <1>6 DEF PolicyInv

LEMMA RuleRemoved ==
    ASSUME PolicyInv, NEW name, RemoveAccessRule(name)
    PROVE  PolicyInv'
<1> DEFINE P == {i \in DOMAIN rules : rules[i].draft.name # name}
<1>1. rules \in Seq(Rules) /\ InOrder(rules) /\ P \in SUBSET DOMAIN rules
  BY DEF PolicyInv
<1>2. rules' = Kept(rules, P) /\ added' = added /\ audit_log' = audit_log
  BY DEF RemoveAccessRule
<1> HIDE DEF P
<1>3. /\ rules' \in Seq(Rules) /\ InOrder(rules')
      /\ DOMAIN rules' = 1 .. Cardinality(P)
  BY <1>1, <1>2, KeptIsSeq, KeptStaysInOrder
<1>4. IsFiniteSet(P) /\ P \subseteq Int
  BY <1>1, Positions
<1>5. ASSUME NEW k \in DOMAIN rules'
      PROVE  rules'[k].age < added'
  <2>1. PICK i \in P : Rank(P, i) = k
    BY <1>3, <1>4, RankFills
  <2>2. rules'[k] = rules[i] /\ i \in DOMAIN rules
    BY <1>1, <1>2, <1>4, <2>1, KeptAt
  <2> QED BY <1>2, <2>2 DEF PolicyInv
<1> QED BY <1>2, <1>3, <1>5 DEF PolicyInv

(* What a call of can_access appends to the log. *)
LEMMA Audited ==
    ASSUME PolicyInv, NEW a \in Agents, NEW s \in Scopes, NEW p \in Permissions,
           NEW t \in EventTypes \cup {NoType}, CanAccess(a, s, p, t)
    PROVE  /\ audit_log' \in Seq(Entries)
           /\ audit_log'[Len(audit_log')] =
                 [agent_id |-> a, scope |-> s, action |-> p, event_type |-> t,
                  allowed |-> Decide(a, s, p, t)]
<1> DEFINE e == [agent_id |-> a, scope |-> s, action |-> p, event_type |-> t,
                 allowed |-> Decide(a, s, p, t)]
           log == Append(audit_log, e)
<1>1. Decide(a, s, p, t) \in BOOLEAN
  <2> DEFINE M == MatchingRules(s, p, t)
  <2>1. CASE M = {}
    BY <2>1, Zenon DEF Decide, MatchingRules
  <2>2. CASE M # {}
    <3> DEFINE f == CHOOSE i \in M : \A j \in M : i <= j
    <3>1. rules \in Seq(Rules) /\ InOrder(rules) /\ M \in SUBSET DOMAIN rules
      BY DEF PolicyInv, MatchingRules
    <3>2. f \in M
      <4> HIDE DEF M
      <4> QED BY <2>2, <3>1, FirstPrecedes
    <3>3. rules[f].draft \in RuleDrafts
      <4>1. \A i \in M : rules[i] \in Rules
        BY <3>1
      <4>2. \A r \in Rules : r.draft \in RuleDrafts
        BY DEF Rules
      <4> HIDE DEF f, M
      <4> QED BY <3>2, <4>1, <4>2
    <3>4. Decide(a, s, p, t) = rules[f].draft.allow
      BY <2>2, Zenon DEF Decide, FirstAllows, MatchingRules
    <3> QED BY <3>3, <3>4, PolicyAssumption
  <2> QED BY <2>1, <2>2
<1>2. e \in Entries
  BY <1>1 DEF Entries
<1>3. audit_log' = Latest(log, AuditSize)
  BY DEF CanAccess
<1> HIDE DEF e
<1>4. /\ log \in Seq(Entries) /\ Len(log) = Len(audit_log) + 1
      /\ Len(audit_log) \in Nat /\ log[Len(log)] = e
  BY <1>2, AppendProperties DEF PolicyInv
<1> HIDE DEF log
<1>5. /\ Latest(log, AuditSize) \in Seq(Entries)
      /\ Len(Latest(log, AuditSize)) = IF Len(log) < AuditSize THEN Len(log) ELSE AuditSize
      /\ \A i \in 1 .. Len(Latest(log, AuditSize)) :
            Latest(log, AuditSize)[i] = log[Len(log) - Len(Latest(log, AuditSize)) + i]
  BY <1>4, LatestIsEnd, PolicyAssumption
<1>6. /\ audit_log' \in Seq(Entries)
      /\ Len(audit_log') = IF Len(log) < AuditSize THEN Len(log) ELSE AuditSize
      /\ \A i \in 1 .. Len(audit_log') :
            audit_log'[i] = log[Len(log) - Len(audit_log') + i]
  BY <1>3, <1>5
<1>7. /\ Len(audit_log') \in 1 .. Len(audit_log')
      /\ Len(log) - Len(audit_log') + Len(audit_log') = Len(log)
  BY <1>4, <1>6, PolicyAssumption
<1>8. audit_log'[Len(audit_log')] = e
  BY <1>4, <1>6, <1>7
<1> QED BY <1>6, <1>8 DEF e

LEMMA PolicyStep ==
    ASSUME PolicyInv, [PolicyNext]_policyVars
    PROVE  PolicyInv'
<1>1. ASSUME UNCHANGED <<rules, added, audit_log>>
      PROVE  PolicyInv'
  BY <1>1 DEF PolicyInv, InOrder, Precedes
<1>2. ASSUME NEW d \in RuleDrafts, AddAccessRule(d)
      PROVE  PolicyInv'
  BY <1>2, RuleAdded
<1>3. ASSUME NEW n \in RuleNames, RemoveAccessRule(n)
      PROVE  PolicyInv'
  BY <1>3, RuleRemoved
<1>4. ASSUME NEW a \in Agents, NEW s \in Scopes, NEW p \in Permissions,
             NEW t \in EventTypes \cup {NoType}, CanAccess(a, s, p, t)
      PROVE  PolicyInv'
  <2>1. audit_log' \in Seq(Entries)
    BY <1>4, Audited
  <2>2. rules' = rules /\ added' = added
    BY <1>4 DEF CanAccess
  <2> QED BY <2>1, <2>2 DEF PolicyInv, InOrder, Precedes
<1> QED
  BY <1>1, <1>2, <1>3, <1>4
     DEF PolicyNext, AddRole, RemoveRole, AssignRole, RemoveRoleAssignment, policyVars

(* The first matching rule is one that precedes every other, so it allows if and
   only if a matching rule that allows precedes all that deny. *)
LEMMA DecideIsGrounded ==
    ASSUME PolicyInv, NEW a, NEW s, NEW p, NEW t
    PROVE  LET matching == {r \in {rules[i] : i \in DOMAIN rules} :
                               RuleMatches(r.draft, s, p, t)}
           IN  Decide(a, s, p, t) <=>
                 \/ \E r \in matching :
                       /\ r.draft.allow
                       /\ \A q \in matching : ~q.draft.allow => Precedes(r, q)
                 \/ /\ matching = {}
                    /\ Granting(a, s, p) # {} \/ ~DefaultDeny
<1> DEFINE M == MatchingRules(s, p, t)
           R == {r \in {rules[i] : i \in DOMAIN rules} : RuleMatches(r.draft, s, p, t)}
           Allowing == \E r \in R : /\ r.draft.allow
                                    /\ \A q \in R : ~q.draft.allow => Precedes(r, q)
<1>1. \A r : r \in R <=> \E i \in M : r = rules[i]
  BY Zenon DEF MatchingRules
<1>2. CASE M = {}
  <2>1. R = {} /\ ~Allowing
    BY <1>1, <1>2, Zenon
  <2>2. Decide(a, s, p, t) = (Granting(a, s, p) # {} \/ ~DefaultDeny)
    BY <1>2, Zenon DEF Decide, MatchingRules
  <2> QED BY <2>1, <2>2, Zenon
<1>3. CASE M # {}
  <2> DEFINE f == CHOOSE i \in M : \A j \in M : i <= j
  <2>1. rules \in Seq(Rules) /\ InOrder(rules) /\ M \in SUBSET DOMAIN rules
    BY DEF PolicyInv, MatchingRules
  <2>2. f \in M /\ \A j \in M : j = f \/ Precedes(rules[f], rules[j])
    <3> HIDE DEF M
    <3> QED BY <1>3, <2>1, FirstPrecedes
  <2>3. Decide(a, s, p, t) = rules[f].draft.allow
    BY <1>3, Zenon DEF Decide, FirstAllows, MatchingRules
  <2> HIDE DEF M, f
  <2>4. R # {} /\ rules[f] \in R
    BY <1>1, <2>2, Zenon
  <2>5. ASSUME NEW r \in R
        PROVE  r = rules[f] \/ Precedes(rules[f], r)
    <3>1. PICK i \in M : r = rules[i]
      BY <1>1, Zenon
    <3> QED BY <2>2, <3>1, Zenon
  <2>6. ASSUME NEW r \in R, Precedes(rules[f], r)
        PROVE  ~Precedes(r, rules[f])
    <3>1. r \in Rules /\ rules[f] \in Rules
      BY <1>1, <2>1, <2>2
    <3>2. /\ r.priority \in Int /\ rules[f].priority \in Int
          /\ r.age \in Nat /\ rules[f].age \in Nat
      BY <3>1 DEF Rules
    <3> QED BY <2>6, <3>2 DEF Precedes
  <2> HIDE DEF R
  <2>7. Allowing <=> rules[f].draft.allow
    <3>1. ASSUME rules[f].draft.allow PROVE Allowing
      BY <2>4, <2>5, <3>1, Zenon
    <3>2. ASSUME ~rules[f].draft.allow, NEW r \in R, r.draft.allow,
                 \A q \in R : ~q.draft.allow => Precedes(r, q)
          PROVE  FALSE
      <4>1. Precedes(r, rules[f]) /\ r # rules[f]
        BY <2>4, <3>2, Zenon
      <4> QED BY <2>5, <2>6, <4>1, Zenon
    <3> QED BY <3>1, <3>2, Zenon
  <2> QED BY <2>3, <2>4, <2>7, Zenon DEF R
<1> QED BY <1>2, <1>3, Zenon

(* Every decision the log receives is grounded in the rules, roles and default of
   that moment, in whatever order rules of whatever priorities were added and
   removed before, and however short the log is. *)
THEOREM DecisionsAreGrounded ==
    PolicyInit /\ [][PolicyNext]_policyVars => DecisionIsGrounded
<1>1. PolicyInit => PolicyInv
  <2>1. <<>> \in Seq(Rules) /\ <<>> \in Seq(Entries) /\ DOMAIN <<>> = {}
    OBVIOUS
  <2> QED BY <2>1 DEF PolicyInit, PolicyInv, InOrder
<1>2. PolicyInv /\ [PolicyNext]_policyVars => PolicyInv'
  BY PolicyStep
<1>3. PolicyInv /\ [PolicyNext]_policyVars =>
        [audit_log' # audit_log =>
          LET e == audit_log'[Len(audit_log')]
              matching == {r \in {rules[i] : i \in DOMAIN rules} :
                              RuleMatches(r.draft, e.scope, e.action, e.event_type)}
              Before(r, s) == \/ r.priority > s.priority
                              \/ /\ r.priority = s.priority
                                 /\ r.age < s.age
          IN  e.allowed <=>
                \/ \E r \in matching : /\ r.draft.allow
                                       /\ \A s \in matching : ~s.draft.allow => Before(r, s)
                \/ /\ matching = {}
                   /\ Granting(e.agent_id, e.scope, e.action) # {} \/ ~DefaultDeny]_policyVars
  <2> SUFFICES ASSUME PolicyInv, PolicyNext, audit_log' # audit_log,
                      NEW e, e = audit_log'[Len(audit_log')]
               PROVE  LET matching == {r \in {rules[i] : i \in DOMAIN rules} :
                                 RuleMatches(r.draft, e.scope, e.action, e.event_type)}
                      IN  e.allowed <=>
                            \/ \E r \in matching :
                                  /\ r.draft.allow
                                  /\ \A q \in matching : ~q.draft.allow => Precedes(r, q)
                            \/ /\ matching = {}
                               /\ \/ Granting(e.agent_id, e.scope, e.action) # {}
                                  \/ ~DefaultDeny
    BY Zenon DEF Precedes
  <2>1. PICK a \in Agents, s \in Scopes, p \in Permissions,
             t \in EventTypes \cup {NoType} : CanAccess(a, s, p, t)
    BY DEF PolicyNext, AddRole, RemoveRole, AssignRole, RemoveRoleAssignment,
           AddAccessRule, RemoveAccessRule
  <2>2. e = [agent_id |-> a, scope |-> s, action |-> p, event_type |-> t,
             allowed |-> Decide(a, s, p, t)]
    BY <2>1, Audited
  <2>3. /\ e.agent_id = a /\ e.scope = s /\ e.action = p /\ e.event_type = t
        /\ e.allowed = Decide(a, s, p, t)
    BY <2>2
  <2> QED BY <2>3, DecideIsGrounded, Zenon
<1> QED BY <1>1, <1>2, <1>3, PTL DEF DecisionIsGrounded

------------------------------------------------------------------------------
(* Metrics: what is kept is the end of what an unbounded log would hold, and no
   success is missing from the count. *)
Attempts == [operation : Operations, ok : BOOLEAN, at : Nat]
Stamps == [operation : Operations, at : Nat]

Stamped == [i \in DOMAIN attempts |-> [operation |-> attempts[i].operation,
                                       at |-> attempts[i].at]]
Numbers == [i \in DOMAIN attempts |-> i]
AttemptsOf(o) == {i \in DOMAIN attempts : attempts[i].operation = o}
Succeeded(o) == {i \in AttemptsOf(o) : attempts[i].ok}

MetricsInv ==
    /\ clock \in Nat /\ attempts \in Seq(Attempts)
    /\ successes \in [Operations -> Nat]
    /\ \A o \in Operations : Cardinality(Succeeded(o)) <= successes[o]
    /\ failures = Latest(Kept(Stamped, Reported), FailureSize)
    /\ histograms = [o \in Measured |-> Latest(Kept(Numbers, AttemptsOf(o)), SampleSize)]

(* What an attempt adds to the history, by position. *)
LEMMA Attempted ==
    ASSUME MetricsInv, NEW o \in Operations, NEW ok \in BOOLEAN, Attempt(o, ok),
           NEW n, n = Len(attempts) + 1
    PROVE  /\ attempts' \in Seq(Attempts) /\ DOMAIN attempts' = DOMAIN attempts \cup {n}
           /\ n \in Nat /\ n \notin DOMAIN attempts
           /\ attempts'[n] = [operation |-> o, ok |-> ok, at |-> clock]
           /\ \A i \in DOMAIN attempts : attempts'[i] = attempts[i]
<1> DEFINE x == [operation |-> o, ok |-> ok, at |-> clock]
<1>1. x \in Attempts /\ attempts \in Seq(Attempts)
  BY DEF MetricsInv, Attempts
<1>2. attempts' = Append(attempts, x)
  BY DEF Attempt
<1> HIDE DEF x
<1>3. Len(attempts) \in Nat /\ DOMAIN attempts = 1 .. Len(attempts)
  BY <1>1
<1>4. /\ attempts' \in Seq(Attempts) /\ Len(attempts') = n /\ attempts'[n] = x
      /\ \A i \in 1 .. Len(attempts) : attempts'[i] = attempts[i]
  BY <1>1, <1>2, AppendProperties
<1>5. DOMAIN attempts' = 1 .. n
  BY <1>4
<1> QED BY <1>3, <1>4, <1>5 DEF x

LEMMA Measurements ==
    ASSUME MetricsInv
    PROVE  /\ Stamped \in Seq(Stamps) /\ Len(Stamped) = Len(attempts)
           /\ Numbers \in Seq(Nat) /\ Len(Numbers) = Len(attempts)
           /\ DOMAIN attempts = 1 .. Len(attempts) /\ Len(attempts) \in Nat
           /\ \A i \in DOMAIN attempts : attempts[i] \in Attempts
<1>1. /\ Len(attempts) \in Nat /\ DOMAIN attempts = 1 .. Len(attempts)
      /\ \A i \in DOMAIN attempts : attempts[i] \in Attempts
  BY DEF MetricsInv
<1>2. ASSUME NEW i \in DOMAIN attempts
      PROVE  [operation |-> attempts[i].operation, at |-> attempts[i].at] \in Stamps
  BY <1>1 DEF Attempts, Stamps
<1>3. Stamped \in [1 .. Len(attempts) -> Stamps] /\ Numbers \in [1 .. Len(attempts) -> Nat]
  BY <1>1, <1>2 DEF Stamped, Numbers
<1> QED BY <1>1, <1>3

(* The failures kept follow the history. *)
LEMMA FailuresFollow ==
    ASSUME MetricsInv, NEW o \in Operations, NEW ok \in BOOLEAN, Attempt(o, ok),
           IF ~ok /\ o \in Projections \cup {Connect} THEN RecordFailure(o)
           ELSE UNCHANGED failures
    PROVE  failures' = Latest(Kept(Stamped, Reported), FailureSize)'
<1> DEFINE x == [operation |-> o, at |-> clock]
<1>1. PICK n : n = Len(attempts) + 1
  OBVIOUS
<1>2. /\ DOMAIN attempts' = DOMAIN attempts \cup {n} /\ n \in Nat
      /\ n \notin DOMAIN attempts
      /\ attempts'[n] = [operation |-> o, ok |-> ok, at |-> clock]
      /\ \A i \in DOMAIN attempts : attempts'[i] = attempts[i]
  BY <1>1, Attempted
<1>3. /\ Stamped \in Seq(Stamps) /\ Len(Stamped) + 1 = n
      /\ DOMAIN Stamped = DOMAIN attempts /\ x \in Stamps
  BY <1>1, Measurements DEF Stamps, Stamped, MetricsInv
<1>4. Stamped' = Append(Stamped, x)
  <2>1. DOMAIN Stamped' = DOMAIN attempts' /\ DOMAIN Append(Stamped, x) = DOMAIN attempts'
    BY <1>1, <1>2, <1>3, Measurements DEF Stamped
  <2>2. ASSUME NEW i \in DOMAIN attempts'
        PROVE  Stamped'[i] = Append(Stamped, x)[i]
    <3>1. CASE i = n
      BY <1>2, <1>3, <3>1 DEF Stamped
    <3>2. CASE i \in DOMAIN attempts
      <4>1. Append(Stamped, x)[i] = Stamped[i]
        BY <1>3, <3>2
      <4> QED BY <1>2, <3>2, <4>1 DEF Stamped
    <3> QED BY <1>2, <3>1, <3>2
  <2>3. Stamped' = [i \in DOMAIN Stamped' |-> Stamped'[i]]
    BY DEF Stamped
  <2>4. Append(Stamped, x) = [i \in DOMAIN Append(Stamped, x) |-> Append(Stamped, x)[i]]
    BY <1>3
  <2> QED BY <2>1, <2>2, <2>3, <2>4
<1>5. Reported \in SUBSET DOMAIN Stamped /\ FailureSize \in Nat \ {0}
  BY <1>3, MetricsAssumption DEF Reported
<1>6. /\ Latest(Kept(Append(Stamped, x), Reported), FailureSize)
           = Latest(Kept(Stamped, Reported), FailureSize)
      /\ Latest(Kept(Append(Stamped, x), Reported \cup {Len(Stamped) + 1}), FailureSize)
           = Latest(Append(Latest(Kept(Stamped, Reported), FailureSize), x), FailureSize)
  <2>1. LogGrows(Stamps)
    BY LatestKeptAppend
  <2> HIDE DEF x
  <2> QED BY <1>3, <1>5, <2>1 DEF LogGrows
<1>7. CASE ~ok /\ o \in Projections \cup {Connect}
  <2>1. Reported' = Reported \cup {Len(Stamped) + 1}
    BY <1>2, <1>3, <1>7 DEF Reported
  <2>2. failures' = Latest(Append(Latest(Kept(Stamped, Reported), FailureSize), x), FailureSize)
    BY <1>7 DEF RecordFailure, MetricsInv
  <2> QED BY <1>4, <1>6, <2>1, <2>2
<1>8. CASE ~(~ok /\ o \in Projections \cup {Connect})
  <2>1. Reported' = Reported
    BY <1>2, <1>8 DEF Reported
  <2>2. failures' = Latest(Kept(Stamped, Reported), FailureSize)
    BY <1>8 DEF MetricsInv
  <2> QED BY <1>4, <1>6, <2>1, <2>2
<1> QED BY <1>7, <1>8

(* So do the durations of every measured operation. *)
LEMMA HistogramsFollow ==
    ASSUME MetricsInv, NEW o \in Operations, NEW ok \in BOOLEAN, Attempt(o, ok),
           IF o \in Measured THEN Measure(o) ELSE UNCHANGED histograms
    PROVE  histograms' = [q \in Measured |-> Latest(Kept(Numbers, AttemptsOf(q)), SampleSize)]'
<1>1. PICK n : n = Len(attempts) + 1
  OBVIOUS
<1>2. /\ DOMAIN attempts' = DOMAIN attempts \cup {n} /\ n \in Nat
      /\ n \notin DOMAIN attempts
      /\ attempts'[n] = [operation |-> o, ok |-> ok, at |-> clock]
      /\ \A i \in DOMAIN attempts : attempts'[i] = attempts[i]
  BY <1>1, Attempted
<1>3. /\ Numbers \in Seq(Nat) /\ Len(Numbers) + 1 = n
      /\ DOMAIN Numbers = DOMAIN attempts
  BY <1>1, Measurements DEF Numbers
<1>4. Numbers' = Append(Numbers, n)
  <2>1. DOMAIN Numbers' = DOMAIN attempts' /\ DOMAIN Append(Numbers, n) = DOMAIN attempts'
    BY <1>1, <1>2, <1>3, Measurements DEF Numbers
  <2>2. ASSUME NEW i \in DOMAIN attempts'
        PROVE  Numbers'[i] = i /\ Append(Numbers, n)[i] = i
    <3>1. CASE i = n
      BY <1>2, <1>3, <3>1 DEF Numbers
    <3>2. CASE i \in DOMAIN attempts
      <4>1. Append(Numbers, n)[i] = Numbers[i]
        BY <1>3, <3>2
      <4> QED BY <1>2, <3>2, <4>1 DEF Numbers
    <3> QED BY <1>2, <3>1, <3>2
  <2>3. Numbers' = [i \in DOMAIN Numbers' |-> Numbers'[i]]
    BY DEF Numbers
  <2>4. Append(Numbers, n) = [i \in DOMAIN Append(Numbers, n) |-> Append(Numbers, n)[i]]
    <3>1. Append(Numbers, n) \in Seq(Nat)
      BY <1>2, <1>3
    <3>2. \A t \in Seq(Nat) : t = [i \in DOMAIN t |-> t[i]]
      OBVIOUS
    <3> QED BY <3>1, <3>2
  <2> QED BY <2>1, <2>2, <2>3, <2>4
<1>5. /\ \A q : AttemptsOf(q) \in SUBSET DOMAIN Numbers
      /\ SampleSize \in Nat \ {0}
  BY <1>3, MetricsAssumption DEF AttemptsOf
<1>6. ASSUME NEW q \in Measured
      PROVE  histograms'[q] = Latest(Kept(Numbers, AttemptsOf(q)), SampleSize)'
  <2> DEFINE P == AttemptsOf(q)
  <2>1. histograms[q] = Latest(Kept(Numbers, P), SampleSize)
    BY DEF MetricsInv
  <2>2. P \in SUBSET DOMAIN Numbers
    BY <1>5
  <2>3. /\ Latest(Kept(Append(Numbers, n), P), SampleSize)
             = Latest(Kept(Numbers, P), SampleSize)
        /\ Latest(Kept(Append(Numbers, n), P \cup {Len(Numbers) + 1}), SampleSize)
             = Latest(Append(Latest(Kept(Numbers, P), SampleSize), n), SampleSize)
    <3>1. LogGrows(Nat) /\ n \in Nat /\ Numbers \in Seq(Nat)
      BY <1>2, <1>3, LatestKeptAppend
    <3>2. SampleSize \in Nat \ {0} /\ P \in SUBSET DOMAIN Numbers
      BY <1>5, <2>2
    <3> HIDE DEF P
    <3> QED BY <3>1, <3>2, Zenon DEF LogGrows
  <2>4. CASE q = o
    <3>1. AttemptsOf(q)' = AttemptsOf(q) \cup {Len(Numbers) + 1}
      BY <1>2, <1>3, <2>4 DEF AttemptsOf
    <3>2. histograms'[q] = Latest(Append(Latest(Kept(Numbers, AttemptsOf(q)), SampleSize), n),
                                  SampleSize)
      BY <1>1, <2>1, <2>4 DEF Measure, MetricsInv
    <3> QED BY <1>4, <2>3, <3>1, <3>2
  <2>5. CASE q # o
    <3>1. AttemptsOf(q)' = AttemptsOf(q)
      BY <1>2, <2>5 DEF AttemptsOf
    <3>2. histograms'[q] = histograms[q]
      BY <2>5 DEF Measure, MetricsInv
    <3> QED BY <1>4, <2>1, <2>3, <3>1, <3>2
  <2> QED BY <2>4, <2>5
<1>7. histograms' = [q \in Measured |-> histograms'[q]]
  BY DEF Measure, MetricsInv
<1> QED BY <1>6, <1>7

(* Every success is counted, once or twice. *)
LEMMA SuccessesFollow ==
    ASSUME MetricsInv, NEW o \in Operations, NEW ok \in BOOLEAN, Attempt(o, ok),
           NEW times \in Nat \ {0},
           IF ok THEN RecordSuccess(o, times) ELSE UNCHANGED successes
    PROVE  /\ successes' \in [Operations -> Nat]
           /\ \A q \in Operations : Cardinality(Succeeded(q)') <= successes'[q]
<1>1. PICK n : n = Len(attempts) + 1
  OBVIOUS
<1>2. /\ DOMAIN attempts' = DOMAIN attempts \cup {n}
      /\ n \notin DOMAIN attempts
      /\ attempts'[n] = [operation |-> o, ok |-> ok, at |-> clock]
      /\ \A i \in DOMAIN attempts : attempts'[i] = attempts[i]
  BY <1>1, Attempted
<1>3. successes' \in [Operations -> Nat]
  BY DEF RecordSuccess, MetricsInv
<1>4. ASSUME NEW q \in Operations
      PROVE  Cardinality(Succeeded(q)') <= successes'[q]
  <2>1. successes[q] \in Nat /\ Cardinality(Succeeded(q)) <= successes[q]
    BY DEF MetricsInv
  <2>2. Succeeded(q) \in SUBSET DOMAIN attempts /\ attempts \in Seq(Attempts)
    BY DEF Succeeded, AttemptsOf, MetricsInv
  <2>3. IsFiniteSet(Succeeded(q)) /\ Cardinality(Succeeded(q)) \in Nat
    BY <2>2, Positions
  <2>4. CASE q = o /\ ok
    <3>1. Succeeded(q)' = Succeeded(q) \cup {n}
      <4>1. n \in Succeeded(q)'
        <5>1. n \in DOMAIN attempts' /\ attempts'[n].operation = q
          BY <1>2, <2>4
        <5>2. attempts'[n].ok = ok
          BY <1>2
        <5> QED BY <2>4, <5>1, <5>2, Zenon DEF Succeeded, AttemptsOf
      <4>2. \A i \in DOMAIN attempts : i \in Succeeded(q)' <=> i \in Succeeded(q)
        BY <1>2 DEF Succeeded, AttemptsOf
      <4>3. \A i \in Succeeded(q)' : i \in DOMAIN attempts \/ i = n
        BY <1>2 DEF Succeeded, AttemptsOf
      <4> QED BY <2>2, <4>1, <4>2, <4>3
    <3>2. Cardinality(Succeeded(q) \cup {n}) = Cardinality(Succeeded(q)) + 1
      BY <1>2, <2>2, <2>3, FS_AddElement
    <3>3. successes'[q] = successes[q] + times
      BY <2>4 DEF RecordSuccess, MetricsInv
    <3> QED BY <2>1, <2>3, <3>1, <3>2, <3>3
  <2>5. CASE ~(q = o /\ ok)
    <3>1. Succeeded(q)' = Succeeded(q)
      <4>1. n \notin Succeeded(q)'
        BY <1>2, <2>5 DEF Succeeded, AttemptsOf
      <4>2. \A i \in DOMAIN attempts : i \in Succeeded(q)' <=> i \in Succeeded(q)
        BY <1>2 DEF Succeeded, AttemptsOf
      <4>3. \A i \in Succeeded(q)' : i \in DOMAIN attempts
        BY <1>2, <4>1 DEF Succeeded, AttemptsOf
      <4> QED BY <2>2, <4>2, <4>3
    <3>2. successes'[q] = successes[q]
      BY <2>5 DEF RecordSuccess, MetricsInv
    <3> QED BY <2>1, <3>1, <3>2
  <2> QED BY <2>4, <2>5
<1> QED BY <1>3, <1>4

LEMMA MetricsStep ==
    ASSUME MetricsInv, [MetricsNext]_metricVars
    PROVE  MetricsInv'
<1>1. ASSUME NEW o \in Operations, NEW ok \in BOOLEAN, NEW times \in Nat \ {0},
             Attempt(o, ok),
             IF o \in Measured THEN Measure(o) ELSE UNCHANGED histograms,
             IF ~ok /\ o \in Projections \cup {Connect} THEN RecordFailure(o)
             ELSE UNCHANGED failures,
             IF ok THEN RecordSuccess(o, times) ELSE UNCHANGED successes
      PROVE  MetricsInv'
  <2>1. clock' = clock /\ clock' \in Nat
    BY <1>1 DEF Attempt, MetricsInv
  <2>2. attempts' \in Seq(Attempts)
    BY <1>1, Attempted
  <2>3. /\ successes' \in [Operations -> Nat]
        /\ \A q \in Operations : Cardinality(Succeeded(q)') <= successes'[q]
    BY <1>1, SuccessesFollow
  <2>4. failures' = Latest(Kept(Stamped, Reported), FailureSize)'
    BY <1>1, FailuresFollow
  <2>5. histograms' = [q \in Measured |-> Latest(Kept(Numbers, AttemptsOf(q)), SampleSize)]'
    BY <1>1, HistogramsFollow
  <2> QED BY <2>1, <2>2, <2>3, <2>4, <2>5 DEF MetricsInv
<1>2. ASSUME NEW o \in Operations, AttemptSucceeds(o)
      PROVE  MetricsInv'
  <2> DEFINE times == IF o \in Projections THEN 2 ELSE 1
  <2>1. times \in Nat \ {0} /\ TRUE \in BOOLEAN
    OBVIOUS
  <2>2. /\ Attempt(o, TRUE) /\ RecordSuccess(o, times) /\ UNCHANGED failures
        /\ IF o \in Measured THEN Measure(o) ELSE UNCHANGED histograms
    BY <1>2, Zenon DEF AttemptSucceeds
  <2> HIDE DEF times
  <2> QED BY <1>1, <2>1, <2>2
<1>3. ASSUME NEW o \in Operations, AttemptFails(o)
      PROVE  MetricsInv'
  <2>1. /\ Attempt(o, FALSE) /\ UNCHANGED successes
        /\ IF o \in Measured THEN Measure(o) ELSE UNCHANGED histograms
        /\ IF o \in Projections \cup {Connect} THEN RecordFailure(o) ELSE UNCHANGED failures
    BY <1>3, Zenon DEF AttemptFails
  <2>2. 1 \in Nat \ {0} /\ FALSE \in BOOLEAN
    OBVIOUS
  <2> QED BY <1>1, <2>1, <2>2
<1>4. CASE ClockTick
  <2>1. clock' \in Nat /\ UNCHANGED <<successes, failures, histograms, attempts>>
    BY <1>4 DEF ClockTick, MetricsInv
  <2> QED BY <2>1 DEF MetricsInv, Stamped, Numbers, Reported, Succeeded, AttemptsOf
<1>5. CASE Reset
  <2>1. /\ attempts' = <<>> /\ failures' = <<>> /\ clock' \in Nat
        /\ successes' = [o \in Operations |-> 0]
        /\ histograms' = [o \in Measured |-> <<>>]
    BY <1>5 DEF Reset, MetricsInv
  <2>2. Reported' = {} /\ \A o : AttemptsOf(o)' = {} /\ Succeeded(o)' = {}
    BY <2>1 DEF Reported, AttemptsOf, Succeeded
  <2>3. /\ \A t : Latest(Kept(t, {}), FailureSize) = <<>>
        /\ \A t : Latest(Kept(t, {}), SampleSize) = <<>>
        /\ Cardinality({}) = 0
    BY NothingKept, MetricsAssumption, FS_EmptySet
  <2>4. failures' = Latest(Kept(Stamped, Reported), FailureSize)'
    BY <2>1, <2>2, <2>3
  <2>5. histograms' = [o \in Measured |-> Latest(Kept(Numbers, AttemptsOf(o)), SampleSize)]'
    BY <2>1, <2>2, <2>3
  <2>6. /\ successes' \in [Operations -> Nat] /\ attempts' \in Seq(Attempts)
        /\ \A o \in Operations : Cardinality(Succeeded(o)') <= successes'[o]
    <3>1. ASSUME NEW o \in Operations
          PROVE  Cardinality(Succeeded(o)') = 0 /\ successes'[o] = 0
      <4>1. Succeeded(o)' = {}
        BY <2>2, Zenon
      <4> QED BY <2>1, <2>3, <4>1
    <3>2. <<>> \in Seq(Attempts) /\ 0 \in Nat
      OBVIOUS
    <3> QED BY <2>1, <3>1, <3>2
  <2> QED BY <2>1, <2>4, <2>5, <2>6 DEF MetricsInv
<1>6. CASE UNCHANGED metricVars
  BY <1>6 DEF metricVars, MetricsInv, Stamped, Numbers, Reported, Succeeded, AttemptsOf
<1> QED BY <1>2, <1>3, <1>4, <1>5, <1>6 DEF MetricsNext

LEMMA MetricsInvariant ==
    MetricsInit /\ [][MetricsNext]_metricVars => []MetricsInv
<1>1. MetricsInit => MetricsInv
  <2> SUFFICES ASSUME MetricsInit PROVE MetricsInv
    OBVIOUS
  <2>1. /\ attempts = <<>> /\ failures = <<>> /\ clock \in Nat
        /\ successes = [o \in Operations |-> 0]
        /\ histograms = [o \in Measured |-> <<>>]
    BY DEF MetricsInit
  <2>2. Reported = {} /\ \A o : AttemptsOf(o) = {} /\ Succeeded(o) = {}
    BY <2>1 DEF Reported, AttemptsOf, Succeeded
  <2>3. /\ \A t : Latest(Kept(t, {}), FailureSize) = <<>>
        /\ \A t : Latest(Kept(t, {}), SampleSize) = <<>>
        /\ Cardinality({}) = 0
    BY NothingKept, MetricsAssumption, FS_EmptySet
  <2>4. failures = Latest(Kept(Stamped, Reported), FailureSize)
    BY <2>1, <2>2, <2>3
  <2>5. histograms = [o \in Measured |-> Latest(Kept(Numbers, AttemptsOf(o)), SampleSize)]
    BY <2>1, <2>2, <2>3
  <2>6. ASSUME NEW o \in Operations
        PROVE  Cardinality(Succeeded(o)) = 0 /\ successes[o] = 0
    <3>1. Succeeded(o) = {}
      BY <2>2, Zenon
    <3> QED BY <2>1, <2>3, <3>1
  <2>7. successes \in [Operations -> Nat] /\ <<>> \in Seq(Attempts)
    BY <2>1
  <2> QED BY <2>1, <2>4, <2>5, <2>6, <2>7 DEF MetricsInv
<1>2. MetricsInv /\ [MetricsNext]_metricVars => MetricsInv'
  BY MetricsStep
<1> QED BY <1>1, <1>2, PTL

(* What a bounded log of the kept elements holds: those of the last ranks. *)
LEMMA LatestKept ==
    ASSUME NEW S, NEW s \in Seq(S), NEW P \in SUBSET DOMAIN s, NEW n \in Nat \ {0},
           NEW l, l = Latest(Kept(s, P), n), NEW m, m = Cardinality(P)
    PROVE  /\ l \in Seq(S) /\ m \in Nat /\ Len(l) \in 0 .. m
           /\ Len(l) = IF m < n THEN m ELSE n
           /\ \A i \in DOMAIN l : \E p \in P : Rank(P, p) = m - Len(l) + i /\ l[i] = s[p]
<1> DEFINE k == Kept(s, P)
<1>1. IsFiniteSet(P) /\ P \subseteq Int /\ m \in Nat
  BY Positions
<1>2. k \in Seq(S) /\ Len(k) = m
  BY KeptIsSeq
<1>3. /\ l \in Seq(S) /\ Len(l) = IF m < n THEN m ELSE n
      /\ \A i \in 1 .. Len(l) : l[i] = k[m - Len(l) + i]
  <2> HIDE DEF k
  <2>1. \A t \in Seq(S) :
           /\ Latest(t, n) \in Seq(S)
           /\ Len(Latest(t, n)) = IF Len(t) < n THEN Len(t) ELSE n
           /\ \A i \in 1 .. Len(Latest(t, n)) :
                 Latest(t, n)[i] = t[Len(t) - Len(Latest(t, n)) + i]
    BY LatestIsEnd
  <2>2. l = Latest(k, n)
    BY DEF k
  <2> QED BY <1>2, <2>1, <2>2
<1>4. ASSUME NEW i \in DOMAIN l
      PROVE  \E p \in P : Rank(P, p) = m - Len(l) + i /\ l[i] = s[p]
  <2>1. i \in 1 .. Len(l) /\ m - Len(l) + i \in 1 .. m
    BY <1>1, <1>3
  <2>2. PICK p \in P : Rank(P, p) = m - Len(l) + i
    BY <1>1, <2>1, RankFills
  <2>3. k[m - Len(l) + i] = s[p]
    BY <1>1, <2>2, KeptAt
  <2> QED BY <1>3, <2>1, <2>2, <2>3
<1>5. Len(l) \in 0 .. m
  BY <1>1, <1>3
<1> QED BY <1>1, <1>3, <1>4, <1>5

LEMMA FailuresAreReported ==
    ASSUME MetricsInv, NEW m, m = Cardinality(Reported)
    PROVE  /\ failures \in Seq(Stamps) /\ m \in Nat /\ Len(failures) \in 0 .. m
           /\ Len(failures) = IF m < FailureSize THEN m ELSE FailureSize
           /\ \A i \in DOMAIN failures : \E p \in Reported :
                 /\ Rank(Reported, p) = m - Len(failures) + i
                 /\ failures[i] = [operation |-> attempts[p].operation, at |-> attempts[p].at]
<1>1. /\ Stamped \in Seq(Stamps) /\ Reported \in SUBSET DOMAIN Stamped
      /\ FailureSize \in Nat \ {0}
  BY Measurements, MetricsAssumption DEF Reported, Stamped
<1>2. failures = Latest(Kept(Stamped, Reported), FailureSize)
  BY DEF MetricsInv
<1>3. /\ failures \in Seq(Stamps) /\ m \in Nat /\ Len(failures) \in 0 .. m
      /\ Len(failures) = IF m < FailureSize THEN m ELSE FailureSize
      /\ \A i \in DOMAIN failures : \E p \in Reported :
            Rank(Reported, p) = m - Len(failures) + i /\ failures[i] = Stamped[p]
  BY <1>1, <1>2, LatestKept
<1>4. \A p \in Reported :
         Stamped[p] = [operation |-> attempts[p].operation, at |-> attempts[p].at]
  BY DEF Stamped, Reported
<1> QED BY <1>3, <1>4

(* The bounded lists hold the end of what happened: the failures of all the
   projections and connects, and the durations of each operation. *)
THEOREM LatestIsKept ==
    MetricsInit /\ [][MetricsNext]_metricVars => []KeptIsLatest
<1>1. ASSUME MetricsInv PROVE KeptIsLatest
  <2> DEFINE m == Cardinality(Reported)
             reported == Kept(attempts, Reported)
  <2>1. /\ failures \in Seq(Stamps) /\ m \in Nat /\ Len(failures) \in 0 .. m
        /\ Len(failures) = IF m < FailureSize THEN m ELSE FailureSize
        /\ \A i \in DOMAIN failures : \E p \in Reported :
              /\ Rank(Reported, p) = m - Len(failures) + i
              /\ failures[i] = [operation |-> attempts[p].operation, at |-> attempts[p].at]
    BY <1>1, FailuresAreReported
  <2>2. attempts \in Seq(Attempts) /\ Reported \in SUBSET DOMAIN attempts
    BY <1>1 DEF MetricsInv, Reported
  <2>3. IsFiniteSet(Reported) /\ Reported \subseteq Int /\ Len(reported) = m
    BY <2>2, Positions, KeptIsSeq
  <2>4. ASSUME NEW i \in DOMAIN failures
        PROVE  failures[i] = [operation |-> reported[m - Len(failures) + i].operation,
                              at |-> reported[m - Len(failures) + i].at]
    <3>1. PICK p \in Reported :
              /\ Rank(Reported, p) = m - Len(failures) + i
              /\ failures[i] = [operation |-> attempts[p].operation, at |-> attempts[p].at]
      BY <2>1
    <3>2. reported[Rank(Reported, p)] = attempts[p]
      BY <2>3, KeptAt
    <3> QED BY <3>1, <3>2, Zenon
  <2>5. ASSUME NEW o \in Measured, NEW i \in DOMAIN attempts, attempts[i].operation = o
        PROVE  \/ \E j \in DOMAIN histograms[o] : histograms[o][j] = i
               \/ /\ Len(histograms[o]) = SampleSize
                  /\ \A j \in DOMAIN histograms[o] : histograms[o][j] > i
    <3> DEFINE P == AttemptsOf(o)
               c == Cardinality(P)
               h == histograms[o]
               k == Rank(P, i)
    <3>1. /\ Numbers \in Seq(Nat) /\ P \in SUBSET DOMAIN Numbers /\ i \in P
          /\ SampleSize \in Nat \ {0}
      BY <1>1, <2>5, Measurements, MetricsAssumption DEF AttemptsOf, Numbers
    <3>2. h = Latest(Kept(Numbers, P), SampleSize)
      BY <1>1 DEF MetricsInv
    <3> HIDE DEF P, h
    <3>3. /\ h \in Seq(Nat) /\ c \in Nat /\ Len(h) \in 0 .. c
          /\ Len(h) = IF c < SampleSize THEN c ELSE SampleSize
          /\ \A j \in DOMAIN h : \E p \in P :
                Rank(P, p) = c - Len(h) + j /\ h[j] = Numbers[p]
      BY <3>1, <3>2, LatestKept
    <3>4. IsFiniteSet(P) /\ P \subseteq Int
      BY <3>1, Positions
    <3>5. k \in 1 .. c
      BY <3>1, <3>4, Below
    <3>6. ASSUME NEW j \in DOMAIN h
          PROVE  h[j] \in P /\ Rank(P, h[j]) = c - Len(h) + j
      <4>1. PICK p \in P : Rank(P, p) = c - Len(h) + j /\ h[j] = Numbers[p]
        BY <3>3
      <4>2. Numbers[p] = p
        BY <3>1, <4>1 DEF Numbers
      <4> QED BY <4>1, <4>2
    <3> HIDE DEF c, k
    <3>7. CASE k > c - Len(h)
      <4>1. k - (c - Len(h)) \in DOMAIN h
        BY <3>3, <3>5, <3>7
      <4>2. PICK j \in DOMAIN h : j = k - (c - Len(h))
        BY <4>1
      <4>3. h[j] \in P /\ Rank(P, h[j]) = k
        BY <3>3, <3>5, <3>6, <4>2
      <4>4. ~(h[j] < i) /\ ~(i < h[j])
        BY <3>1, <3>4, <3>5, <4>3, RankRises DEF k
      <4>5. h[j] = i
        BY <3>1, <3>4, <4>3, <4>4
      <4> QED BY <4>5 DEF h
    <3>8. CASE ~(k > c - Len(h))
      <4>1. Len(h) = SampleSize
        BY <3>1, <3>3, <3>5, <3>8
      <4>2. ASSUME NEW j \in DOMAIN h
            PROVE  h[j] > i
        <5>1. j \in Nat \ {0} /\ h[j] \in P /\ Rank(P, h[j]) = c - Len(h) + j
          BY <3>3, <3>6
        <5>2. Rank(P, h[j]) > k
          BY <3>3, <3>5, <3>8, <5>1
        <5>3. k \in Int /\ Rank(P, i) = k
          BY <3>5 DEF k
        <5>4. h[j] # i
          BY <5>2, <5>3
        <5>5. h[j] < i => Rank(P, h[j]) < Rank(P, i)
          BY <3>1, <3>4, <5>1, RankRises
        <5>6. Rank(P, h[j]) \in Int
          BY <3>3, <5>1
        <5> QED BY <3>1, <3>4, <5>1, <5>2, <5>3, <5>4, <5>5, <5>6
      <4> QED BY <4>1, <4>2 DEF h
    <3> QED BY <3>7, <3>8
  <2> HIDE DEF m
  <2> QED BY <2>1, <2>3, <2>4, <2>5 DEF KeptIsLatest
<1> QED BY <1>1, MetricsInvariant, PTL

(* With at most the failures and at least the successes, a rate is at most the
   share of the failures. *)
LEMMA Share ==
    ASSUME NEW F \in Nat, NEW f \in Nat, NEW k \in Nat, NEW s \in Nat, F <= f, k <= s
    PROVE  F * (f + k) <= f * (F + s)
<1>1. PICK d \in Nat : f = F + d
  <2>1. f - F \in Nat /\ f = F + (f - F)
    OBVIOUS
  <2> QED BY <2>1
<1>2. PICK e \in Nat : s = k + e
  <2>1. s - k \in Nat /\ s = k + (s - k)
    OBVIOUS
  <2> QED BY <2>1
<1>3. f * (F + s) = F * (f + k) + (d * k + f * e)
  BY <1>1, <1>2
<1>4. d * k \in Nat /\ f * e \in Nat /\ F * (f + k) \in Nat
  BY <1>1, <1>2
<1> QED BY <1>3, <1>4

(* The failures kept of a window are some of its failures. *)
LEMMA RecentAreFailed ==
    ASSUME MetricsInv, NEW o \in Operations,
           NEW failed, failed = {i \in InWindow(attempts, o) : ~attempts[i].ok},
           IsFiniteSet(failed)
    PROVE  RecentFailures(o) \in Nat /\ RecentFailures(o) <= Cardinality(failed)
<1> DEFINE m == Cardinality(Reported)
           Source(i, p) == /\ Rank(Reported, p) = m - Len(failures) + i
                           /\ failures[i] = [operation |-> attempts[p].operation,
                                             at |-> attempts[p].at]
           g == [i \in InWindow(failures, o) |-> CHOOSE p \in Reported : Source(i, p)]
<1>1. /\ failures \in Seq(Stamps) /\ m \in Nat /\ Len(failures) \in 0 .. m
      /\ \A i \in DOMAIN failures : \E p \in Reported : Source(i, p)
  BY FailuresAreReported
<1>2. InWindow(failures, o) \in SUBSET DOMAIN failures
  BY DEF InWindow
<1>3. ASSUME NEW i \in InWindow(failures, o)
      PROVE  g[i] \in Reported /\ Source(i, g[i])
  <2>1. \E p \in Reported : Source(i, p)
    BY <1>1, <1>2
  <2> HIDE DEF Source
  <2> QED BY <2>1
<1>4. ASSUME NEW i \in InWindow(failures, o)
      PROVE  g[i] \in failed
  <2>1. /\ g[i] \in DOMAIN attempts /\ ~attempts[g[i]].ok
        /\ failures[i].operation = attempts[g[i]].operation
        /\ failures[i].at = attempts[g[i]].at
    <3>1. g[i] \in Reported /\ Source(i, g[i])
      BY <1>3
    <3> HIDE DEF g
    <3> QED BY <3>1 DEF Reported
  <2>2. failures[i].operation = o /\ failures[i].at + Window > clock
    BY DEF InWindow
  <2> HIDE DEF g
  <2> QED BY <2>1, <2>2 DEF InWindow
<1>5. ASSUME NEW i \in InWindow(failures, o), NEW j \in InWindow(failures, o), g[i] = g[j]
      PROVE  i = j
  <2>1. m - Len(failures) + i = m - Len(failures) + j
    BY <1>3, <1>5
  <2>2. i \in Int /\ j \in Int
    BY <1>1, <1>2
  <2> HIDE DEF m
  <2> QED BY <1>1, <2>1, <2>2
<1>6. g \in Injection(InWindow(failures, o), failed)
  BY <1>4, <1>5 DEF Injection, IsInjective
<1>7. Cardinality(InWindow(failures, o)) <= Cardinality(failed)
  BY <1>6, FS_Injection
<1>8. Cardinality(InWindow(failures, o)) \in Nat
  BY <1>1, <1>2, Positions
<1> QED BY <1>7, <1>8 DEF RecentFailures

(* A failure rate is at most the share of failures among the attempts of the
   window, whichever failures the list has lost and however often a success was
   counted. *)
THEOREM RatesNeverOverstate ==
    MetricsInit /\ [][MetricsNext]_metricVars => []RateNeverOverstates
<1>1. ASSUME MetricsInv, NEW o \in Operations,
             NEW failed, failed = {i \in InWindow(attempts, o) : ~attempts[i].ok}
      PROVE  RecentFailures(o) * Cardinality(InWindow(attempts, o))
                <= Cardinality(failed) * Total(o)
  <2> DEFINE rest == InWindow(attempts, o) \ failed
  <2>1. /\ attempts \in Seq(Attempts) /\ InWindow(attempts, o) \in SUBSET DOMAIN attempts
        /\ failed \in SUBSET DOMAIN attempts /\ rest \in SUBSET DOMAIN attempts
        /\ Succeeded(o) \in SUBSET DOMAIN attempts
    BY <1>1 DEF MetricsInv, InWindow, Succeeded, AttemptsOf
  <2>2. IsFiniteSet(failed) /\ Cardinality(failed) \in Nat
    BY <2>1, Positions
  <2>3. IsFiniteSet(rest) /\ Cardinality(rest) \in Nat
    BY <2>1, Positions
  <2>4. IsFiniteSet(Succeeded(o)) /\ Cardinality(Succeeded(o)) \in Nat
    BY <2>1, Positions
  <2>5. rest \subseteq Succeeded(o)
    BY <1>1 DEF InWindow, Succeeded, AttemptsOf
  <2>6. InWindow(attempts, o) = failed \cup rest /\ failed \cap rest = {}
    BY <1>1
  <2>7. successes[o] \in Nat /\ Cardinality(Succeeded(o)) <= successes[o]
    BY <1>1 DEF MetricsInv
  <2> HIDE DEF rest
  <2>8. Cardinality(rest) <= successes[o]
    BY <2>3, <2>4, <2>5, <2>7, FS_Subset
  <2>9. Cardinality(InWindow(attempts, o)) = Cardinality(failed) + Cardinality(rest)
    <3>1. Cardinality({}) = 0
      BY FS_EmptySet
    <3>2. Cardinality(failed \cup rest) =
             Cardinality(failed) + Cardinality(rest) - Cardinality(failed \cap rest)
      BY <2>2, <2>3, FS_Union
    <3>3. Cardinality(failed \cap rest) = 0
      BY <2>6, <3>1
    <3>4. Cardinality(failed \cup rest) = Cardinality(failed) + Cardinality(rest)
      BY <2>2, <2>3, <3>2, <3>3
    <3> QED BY <2>6, <3>4
  <2>10. RecentFailures(o) \in Nat /\ RecentFailures(o) <= Cardinality(failed)
    BY <1>1, <2>2, RecentAreFailed
  <2>11. RecentFailures(o) * (Cardinality(failed) + Cardinality(rest))
            <= Cardinality(failed) * (RecentFailures(o) + successes[o])
    BY <2>2, <2>3, <2>7, <2>8, <2>10, Share
  <2> QED BY <2>9, <2>11 DEF Total
<1>2. MetricsInv => RateNeverOverstates
  BY <1>1 DEF RateNeverOverstates
<1> QED BY <1>2, MetricsInvariant, PTL

------------------------------------------------------------------------------
(* Secrets: the JSON provider answers from its cache, which is one of the
   contents the file has had. *)
JsonInv ==
    /\ source["json"] \in versions /\ versions \subseteq Contents
    /\ "json" \in DOMAIN source
    /\ cache = Unloaded => served = {}
    /\ cache # Unloaded => /\ cache \in versions
                           /\ \A x \in served : cache[x[1]] = x[2]

(* What the JSON provider answers in a call is what the call leaves cached. *)
LEMMA ServedIsCached ==
    ASSUME Unloaded \notin Contents, Chain \in Seq({"env", "file", "json"}),
           JsonInv, NEW name \in Names, NEW unreadable, Lookup(name, unreadable),
           NEW i \in Answering(name, unreadable), Chain[i] = "json"
    PROVE  /\ cache' \in versions /\ (cache # Unloaded => cache' = cache)
           /\ cache'[name] = Reading(Chain[i], name, unreadable)
<1>1. CASE cache # Unloaded
  <2>1. cache' = cache
    BY <1>1 DEF Lookup, Load
  <2> QED BY <1>1, <2>1 DEF JsonInv, Reading
<1>2. CASE cache = Unloaded
  <2>1. Reading("json", name, unreadable) # NoValue
    BY DEF Answering
  <2>2. "json" \notin unreadable /\ Reading("json", name, unreadable) = source["json"][name]
    BY <1>2, <2>1 DEF Reading
  <2>3. DOMAIN Chain \subseteq Nat /\ i \in DOMAIN Chain
    BY DEF Answering
  <2>4. \A k \in Answering(name, unreadable) : i <= k
    <3> SUFFICES ASSUME NEW k \in Answering(name, unreadable), k < i PROVE FALSE
      BY <2>3 DEF Answering
    <3>1. k \in 1 .. i - 1
      BY <2>3 DEF Answering
    <3> QED BY <3>1 DEF Answering
  <2>5. "json" \in Asked(name, unreadable)
    BY <2>3, <2>4 DEF Asked
  <2>6. cache' = source["json"]
    BY <1>2, <2>2, <2>5 DEF Lookup, Load
  <2> QED BY <1>2, <2>2, <2>6 DEF JsonInv
<1> QED BY <1>1, <1>2

LEMMA LookupKeeps ==
    ASSUME Unloaded \notin Contents, Chain \in Seq({"env", "file", "json"}),
           JsonInv, NEW name \in Names, NEW unreadable, Lookup(name, unreadable)
    PROVE  JsonInv'
<1>1. source' = source /\ versions' = versions
  BY DEF Lookup
<1>2. served' = served \cup
         {<<name, Reading(Chain[i], name, unreadable)>> :
             i \in {j \in Answering(name, unreadable) : Chain[j] = "json"}}
  BY DEF Lookup
<1>3. CASE \E i \in Answering(name, unreadable) : Chain[i] = "json"
  <2>1. cache' \in versions /\ (cache # Unloaded => cache' = cache)
    BY <1>3, ServedIsCached
  <2>2. ASSUME NEW x \in served'
        PROVE  cache'[x[1]] = x[2]
    <3>1. CASE x \in served
      BY <2>1, <3>1 DEF JsonInv
    <3>2. ASSUME NEW i \in Answering(name, unreadable), Chain[i] = "json",
                 x = <<name, Reading(Chain[i], name, unreadable)>>
          PROVE  cache'[x[1]] = x[2]
      <4>1. cache'[name] = Reading(Chain[i], name, unreadable)
        BY <3>2, ServedIsCached
      <4> QED BY <3>2, <4>1
    <3> QED BY <1>2, <3>1, <3>2
  <2>3. cache' # Unloaded
    BY <2>1 DEF JsonInv
  <2> QED BY <1>1, <2>1, <2>2, <2>3 DEF JsonInv
<1>4. CASE ~\E i \in Answering(name, unreadable) : Chain[i] = "json"
  <2>1. served' = served
    BY <1>2, <1>4
  <2>2. \/ cache' = cache
        \/ cache = Unloaded /\ cache' = source["json"]
    BY DEF Lookup, Load
  <2> QED BY <1>1, <2>1, <2>2 DEF JsonInv
<1> QED BY <1>3, <1>4

(* All that the JSON provider ever answers comes from one version of its file,
   in whatever order it is rewritten, unreadable and read, and wherever in the
   chain the provider stands. *)
THEOREM JsonOneVersion ==
    ASSUME Unloaded \notin Contents, Chain \in Seq({"env", "file", "json"})
    PROVE  SecretsInit /\ [][SecretsNext]_secretVars => []JsonIsOneVersion
<1>1. SecretsInit => JsonInv
  BY DEF SecretsInit, JsonInv, Nothing, Contents
<1>2. JsonInv /\ [SecretsNext]_secretVars => JsonInv'
  <2> SUFFICES ASSUME JsonInv, [SecretsNext]_secretVars PROVE JsonInv'
    OBVIOUS
  <2>1. ASSUME NEW p \in {Chain[i] : i \in DOMAIN Chain}, NEW content \in Contents,
               Rewrite(p, content)
        PROVE  JsonInv'
    BY <2>1 DEF Rewrite, JsonInv
  <2>2. ASSUME NEW name \in Names, NEW unreadable \in SUBSET {"file", "json"},
               GetSecret(name, unreadable) \/ Require(name, unreadable)
        PROVE  JsonInv'
    <3>1. Lookup(name, unreadable)
      BY <2>2 DEF GetSecret, Require
    <3> QED BY <3>1, LookupKeeps
  <2>3. CASE UNCHANGED secretVars
    BY <2>3 DEF secretVars, JsonInv
  <2> QED BY <2>1, <2>2, <2>3 DEF SecretsNext
<1>3. JsonInv => JsonIsOneVersion
  BY DEF JsonInv, JsonIsOneVersion
<1> QED BY <1>1, <1>2, <1>3, PTL

------------------------------------------------------------------------------
(* Schemas: what emit stores under one has its fields, and others only if it
   allows them. *)
FieldsFollow ==
    \A r \in saved : r.how = "emit" /\ r.schema # NoSchema =>
        /\ FieldsOf(r.schema) \subseteq r.fields
        /\ r.schema.extra # "allow" => r.fields = FieldsOf(r.schema)

(* What emit stores under a registration has all of its fields, and one shape where
   unknown fields are not allowed: whatever classes are registered, strictly or
   not, taken back and registered again, and whatever batch_emit stores beside. *)
THEOREM OneShape == SchemaInit /\ [][SchemaNext]_schemaVars => []OneShapePerSchema
<1>1. SchemaInit => FieldsFollow
  BY DEF SchemaInit, FieldsFollow
<1>2. FieldsFollow /\ [SchemaNext]_schemaVars => FieldsFollow'
  <2> SUFFICES ASSUME FieldsFollow, [SchemaNext]_schemaVars PROVE FieldsFollow'
    OBVIOUS
  <2>1. ASSUME NEW t \in SchemaTypes, NEW d \in Data, EmitValidated(t, d)
        PROVE  FieldsFollow'
    BY <2>1 DEF EmitValidated, Store, Validated, FieldsFollow
  <2>2. ASSUME NEW t \in SchemaTypes, NEW d \in Data, BatchEmitAsGiven(t, d)
        PROVE  FieldsFollow'
    BY <2>2 DEF BatchEmitAsGiven, Store, FieldsFollow
  <2>3. ASSUME saved' = saved
        PROVE  FieldsFollow'
    BY <2>3 DEF FieldsFollow
  <2> QED
    BY <2>1, <2>2, <2>3
       DEF SchemaNext, Register, RegisterByMode, Unregister, SetStrictMode, schemaVars
<1>3. FieldsFollow => OneShapePerSchema
  BY DEF FieldsFollow, OneShapePerSchema
<1> QED BY <1>1, <1>2, <1>3, PTL
===============================================================================
