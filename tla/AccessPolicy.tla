---------------------------- MODULE AccessPolicy -----------------------------
(* The AccessPolicy of crewcontext/security.py, as ProcessContext.check_access
   uses it: roles, their assignment to agents, rules by priority and the log of
   decisions. *)
EXTENDS Integers, Sequences, FiniteSets, Lists

CONSTANTS
    Agents, Scopes, Permissions,
    AllScopes,      \* the scope "*" of a role or a rule
    EventTypes,     \* event types a caller may ask about
    NoType,         \* it asks about none, as check_access does
    RoleDrafts,     \* roles that may be added: name, permissions, scopes
    RuleDrafts,     \* rules: name, scopes, permissions, event_types, allow, priority
    DefaultDeny,    \* default_deny
    AuditSize,      \* entries the audit log keeps, 1000
    MaxRules        \* bound: rules added

(* AccessRule and AccessPolicy: a priority is an int, allow and default_deny are
   bools, and some entries are kept. *)
ASSUME PolicyAssumption ==
    /\ \A d \in RuleDrafts : d.priority \in Int /\ d.allow \in BOOLEAN
    /\ DefaultDeny \in BOOLEAN
    /\ AuditSize \in Nat \ {0}

VARIABLES
    roles,        \* _roles: name -> role
    agent_roles,  \* _agent_roles
    rules,        \* _rules, each with its order of insertion
    added,        \* rules added so far
    audit_log     \* _audit_log

policyVars == <<roles, agent_roles, rules, added, audit_log>>

RoleNames == {r.name : r \in RoleDrafts}
RuleNames == {r.name : r \in RuleDrafts}

PolicyInit == /\ roles = <<>>
              /\ agent_roles = [a \in Agents |-> {}]
              /\ rules = <<>> /\ added = 0
              /\ audit_log = <<>>

------------------------------------------------------------------------------
AddRole(role) ==
    /\ roles' = [n \in DOMAIN roles \cup {role.name} |->
                    IF n = role.name THEN role ELSE roles[n]]
    /\ UNCHANGED <<agent_roles, rules, added, audit_log>>

\* Mutant: the assignments of a removed role stay.
UnassignedNobody(name) == agent_roles
Unassigned(name) == [a \in Agents |-> agent_roles[a] \ {name}]

RemoveRole(name) ==
    /\ name \in DOMAIN roles
    /\ roles' = [n \in DOMAIN roles \ {name} |-> roles[n]]
    /\ agent_roles' = Unassigned(name)
    /\ UNCHANGED <<rules, added, audit_log>>

(* Assigning an unknown role does nothing. *)
AssignRole(a, name) ==
    /\ name \in DOMAIN roles
    /\ agent_roles' = [agent_roles EXCEPT ![a] = @ \cup {name}]
    /\ UNCHANGED <<roles, rules, added, audit_log>>

RemoveRoleAssignment(a, name) ==
    /\ agent_roles' = [agent_roles EXCEPT ![a] = @ \ {name}]
    /\ UNCHANGED <<roles, rules, added, audit_log>>

(* append, and a stable sort by descending priority of a list that was sorted. *)
AddAccessRule(d) ==
    /\ added < MaxRules
    /\ rules' = Inserted(rules, [draft |-> d, priority |-> d.priority, age |-> added])
    /\ added' = added + 1
    /\ UNCHANGED <<roles, agent_roles, audit_log>>

RemoveAccessRule(name) ==
    /\ rules' = Kept(rules, {i \in DOMAIN rules : rules[i].draft.name # name})
    /\ UNCHANGED <<roles, agent_roles, added, audit_log>>

------------------------------------------------------------------------------
(* AccessRule.matches, for a context without a role: no scopes mean all, no
   permissions mean none. *)
RuleMatches(d, scope, permission, event_type) ==
    /\ d.scopes # {} => {scope, AllScopes} \cap d.scopes # {}
    /\ permission \in d.permissions
    /\ d.event_types # {} => event_type \in d.event_types

Granting(a, scope, permission) ==
    {n \in agent_roles[a] \cap DOMAIN roles :
        /\ permission \in roles[n].permissions
        /\ {scope, AllScopes} \cap roles[n].scopes # {}}

\* Mutant: any rule that allows wins.
AnyAllows(matching) == \E i \in matching : rules[i].draft.allow
FirstAllows(matching) ==
    rules[CHOOSE i \in matching : \A j \in matching : i <= j].draft.allow

(* The first matching rule decides, else a role, else the default. *)
Decide(a, scope, permission, event_type) ==
    LET matching == {i \in DOMAIN rules :
                        RuleMatches(rules[i].draft, scope, permission, event_type)}
    IN  IF matching # {} THEN FirstAllows(matching)
        ELSE Granting(a, scope, permission) # {} \/ ~DefaultDeny

CanAccess(a, scope, permission, event_type) ==
    /\ audit_log' = Latest(Append(audit_log,
                       [agent_id |-> a, scope |-> scope, action |-> permission,
                        event_type |-> event_type,
                        allowed |-> Decide(a, scope, permission, event_type)]),
                    AuditSize)
    /\ UNCHANGED <<roles, agent_roles, rules, added>>

PolicyNext ==
    \/ \E r \in RoleDrafts : AddRole(r)
    \/ \E n \in RoleNames : RemoveRole(n)
    \/ \E a \in Agents, n \in RoleNames : AssignRole(a, n) \/ RemoveRoleAssignment(a, n)
    \/ \E d \in RuleDrafts : AddAccessRule(d)
    \/ \E n \in RuleNames : RemoveAccessRule(n)
    \/ \E a \in Agents, s \in Scopes, p \in Permissions, t \in EventTypes \cup {NoType} :
          CanAccess(a, s, p, t)

------------------------------------------------------------------------------
(* A decision that is logged is an allowing one exactly when a matching rule
   allows and no denying one comes before it, by priority or, among equals, by
   age; or when no rule matches and an assigned role or the default allows. *)
DecisionIsGrounded ==
    [][audit_log' # audit_log =>
          LET e == audit_log'[Len(audit_log')]
              matching == {r \in {rules[i] : i \in DOMAIN rules} :
                              RuleMatches(r.draft, e.scope, e.action, e.event_type)}
              Before(r, s) == \/ r.priority > s.priority
                              \/ /\ r.priority = s.priority
                                 /\ r.age < s.age
          IN  e.allowed <=>
                \/ \E r \in matching : /\ r.draft.allow
                                       /\ \A s \in matching : ~s.draft.allow => Before(r, s)
                \/ /\ matching = {}
                   /\ Granting(e.agent_id, e.scope, e.action) # {} \/ ~DefaultDeny]_policyVars

(* Adding a role under a new name grants nobody anything before it is assigned,
   also when a role of that name was assigned once and removed. *)
NewRoleGrantsNothing ==
    [][\A n \in DOMAIN roles' \ DOMAIN roles :
          \A a \in Agents, s \in Scopes, p \in Permissions :
              n \notin Granting(a, s, p)']_policyVars
===============================================================================
