------------------------------- MODULE Router --------------------------------
(* The PolicyRouter of crewcontext/router.py and the last steps of emit
   (crewcontext/context.py), which call it: a stored event is announced to its
   subscribers one by one and then evaluated against the rules.  Whoever runs
   between two calls of the library, the caller or a subscriber that was called
   back, may emit again, subscribe and change the rules, so emits nest. *)
EXTENDS Integers, Sequences, FiniteSets, Lists

CONSTANTS
    Types,             \* event types
    RoutingDecision,   \* the internal type, "routing.decision"
    Numbers,           \* values of a field that compare with a threshold
    Absent, None,      \* a field that is not there; the value None
    Payloads,          \* data of events: functions from fields to values
    Drafts,            \* what callers pass to add_rule
    Callbacks,         \* subscribers
    MaxEvents,         \* bound: events a behaviour emits
    MaxRules,          \* bound: rules it adds
    MaxSubscriptions   \* bound: subscriptions it makes

(* A condition is a predicate of the library; one that a caller wrote is like
   one of them: true, false or raising. *)
Operators == {"event_type_is", "data_field_gt", "data_field_eq", "data_field_ne",
              "data_fields_differ"}

ASSUME RouterAssumption ==
    /\ RoutingDecision \in Types
    /\ Numbers \subseteq Int /\ {Absent, None} \cap Numbers = {}
    /\ \A d \in Drafts : /\ d.combine \in {"all_of", "any_of", "none_of"}
                         /\ d.priority \in Int
                         /\ d.conditions \in Seq({d.conditions[i] :
                                                      i \in DOMAIN d.conditions})
                         /\ \A i \in DOMAIN d.conditions :
                               d.conditions[i].op \in Operators
    /\ {MaxEvents, MaxRules, MaxSubscriptions} \subseteq Nat

VARIABLES
    rules,          \* _rules, each with its order of insertion
    added,          \* rules added so far
    subscriptions,  \* _subscriptions: type -> list of callbacks
    stack,          \* the emits under way, the innermost last
    log             \* what happened to events, in order

vars == <<rules, added, subscriptions, stack, log>>

NoRule == [name |-> None]

Init == /\ rules = <<>> /\ added = 0
        /\ subscriptions = [t \in Types |-> <<>>]
        /\ stack = <<>>
        /\ log = <<>>

------------------------------------------------------------------------------
(* Conditions: what a predicate says of an event. *)
Verdict(b) == IF b THEN "true" ELSE "false"

(* data.get(field) *)
Get(e, f) == IF e.data[f] = Absent THEN None ELSE e.data[f]

Check(c, e) ==
    CASE c.op = "event_type_is" -> Verdict(e.type = c.arg)
      [] c.op = "data_field_gt" ->
            IF Get(e, c.field) = None THEN "false"
            ELSE IF Get(e, c.field) \notin Numbers THEN "raises"
            ELSE Verdict(Get(e, c.field) > c.arg)
      [] c.op = "data_field_eq" -> Verdict(Get(e, c.field) = c.arg)
      [] c.op = "data_field_ne" -> Verdict(e.data[c.field] \notin {Absent, c.arg})
      [] c.op = "data_fields_differ" ->
            Verdict(/\ Get(e, c.field) # None /\ Get(e, c.arg) # None
                    /\ Get(e, c.field) # Get(e, c.arg))

(* all() and any() stop at the first verdict that decides, or raises. *)
FirstOtherThan(v, verdicts) ==
    IF \A i \in DOMAIN verdicts : verdicts[i] = v THEN v
    ELSE verdicts[CHOOSE i \in DOMAIN verdicts :
                     /\ verdicts[i] # v
                     /\ \A j \in 1 .. i - 1 : verdicts[j] = v]

\* Mutant: what is not true counts as false.
NegateAll(verdict) == Verdict(verdict # "true")

(* not any(...) raises what any(...) raises. *)
Negate(verdict) == IF verdict = "raises" THEN verdict ELSE Verdict(verdict = "false")

Outcome(rule, e) ==
    LET verdicts == [i \in DOMAIN rule.conditions |-> Check(rule.conditions[i], e)]
    IN  CASE rule.combine = "all_of"  -> FirstOtherThan("true", verdicts)
          [] rule.combine = "any_of"  -> FirstOtherThan("false", verdicts)
          [] rule.combine = "none_of" -> Negate(FirstOtherThan("false", verdicts))

Candidates(e) ==
    {i \in DOMAIN rules : rules[i].enabled /\ Outcome(rules[i], e) = "true"}

(* The first enabled rule whose condition is true; one that raises is skipped,
   and internal types match none. *)
Evaluate(e) ==
    IF e.type = RoutingDecision \/ Candidates(e) = {} THEN NoRule
    ELSE rules[CHOOSE i \in Candidates(e) : \A j \in Candidates(e) : i <= j]

------------------------------------------------------------------------------
(* The caller's code runs, or that of the subscriber called last. *)
Top == stack[Len(stack)]

\* Mutant: the context is used by a second thread.
AnyCode == TRUE
UserCode == stack # <<>> => Top.step = "callback"

Record(kind, e, by) == log' = Append(log, [kind |-> kind, event |-> e, by |-> by])
Entries(kind) == {i \in DOMAIN log : log[i].kind = kind}

(* A second rule of the same name is added like any other. *)
AddRule(d) ==
    /\ UserCode
    /\ added < MaxRules
    /\ rules' = Inserted(rules, [name |-> d.name, combine |-> d.combine,
                                 priority |-> d.priority, conditions |-> d.conditions,
                                 enabled |-> TRUE, age |-> added])
    /\ added' = added + 1
    /\ UNCHANGED <<subscriptions, stack, log>>

RemoveRule(name) ==
    /\ UserCode
    /\ rules' = Kept(rules, {i \in DOMAIN rules : rules[i].name # name})
    /\ UNCHANGED <<added, subscriptions, stack, log>>

(* enable_rule and disable_rule: every rule of the name. *)
SwitchRule(name, enabled) ==
    /\ UserCode
    /\ rules' = [i \in DOMAIN rules |->
                    IF rules[i].name = name
                    THEN [rules[i] EXCEPT !.enabled = enabled] ELSE rules[i]]
    /\ UNCHANGED <<added, subscriptions, stack, log>>

Subscribed == UNION {{<<t, i>> : i \in DOMAIN subscriptions[t]} : t \in Types}

Subscribe(type, callback) ==
    /\ UserCode
    /\ Cardinality(Subscribed) < MaxSubscriptions
    /\ subscriptions' = [subscriptions EXCEPT ![type] = Append(@, callback)]
    /\ UNCHANGED <<rules, added, stack, log>>

------------------------------------------------------------------------------
(* emit, from the commit of the event on.  One that is refused before leaves
   nothing here: the code that called it goes on. *)
Emit(type, data) ==
    LET e == [id |-> Cardinality(Entries("stored")) + 1, type |-> type, data |-> data]
    IN  /\ UserCode
        /\ e.id <= MaxEvents
        /\ stack' = Append(stack, [event |-> e, step |-> "notify", next |-> 1])
        /\ Record("stored", e, None)
        /\ UNCHANGED <<rules, added, subscriptions>>

(* The frame of the emit in progress goes on. *)
Continue(step, next) ==
    stack' = [stack EXCEPT ![Len(stack)] =
                 [event |-> Top.event, step |-> step, next |-> next]]

(* The emit in progress ends; a subscriber that called it goes on. *)
Pop == stack' = SubSeq(stack, 1, Len(stack) - 1)

Notifying == stack # <<>> /\ Top.step = "notify"

(* for callback in the list, which is live: what is subscribed meanwhile is
   called too. *)
CallSubscriber ==
    LET list == subscriptions[Top.event.type]
    IN  /\ Notifying
        /\ Top.next <= Len(list)
        /\ Record("called", Top.event, list[Top.next])
        /\ Continue("callback", Top.next)
        /\ UNCHANGED <<rules, added, subscriptions>>

\* Mutants: what a callback raises ends the loop; it ends the emit.
ResumeAtEnd == Continue("notify", Len(subscriptions[Top.event.type]) + 1)
ResumeCaller == Pop
Resume == Continue("notify", Top.next + 1)

(* A callback returns, or raises, perhaps what a nested emit raised: that is
   logged, and left out of the names returned, which emit ignores. *)
CallbackEnds ==
    /\ stack # <<>> /\ Top.step = "callback"
    /\ Resume
    /\ UNCHANGED <<rules, added, subscriptions, log>>

Notified == Notifying /\ Top.next > Len(subscriptions[Top.event.type])

(* All were called: evaluate, and _persist_routing_decision if a rule matches,
   which does not come back here: decisions notify nobody. *)
Route ==
    /\ Notified
    /\ LET rule == Evaluate(Top.event)
       IN  Record(IF rule = NoRule THEN "undecided" ELSE "decided", Top.event, rule)
    /\ Pop
    /\ UNCHANGED <<rules, added, subscriptions>>

(* The decision cannot be saved: emit raises, of an event that is stored. *)
DecisionRefused ==
    /\ Notified
    /\ Evaluate(Top.event) # NoRule
    /\ Record("refused", Top.event, NoRule)
    /\ Pop
    /\ UNCHANGED <<rules, added, subscriptions>>

Next == \/ \E d \in Drafts : AddRule(d)
        \/ \E d \in Drafts : RemoveRule(d.name)
        \/ \E d \in Drafts, b \in BOOLEAN : SwitchRule(d.name, b)
        \/ \E t \in Types, c \in Callbacks : Subscribe(t, c)
        \/ \E t \in Types, data \in Payloads : Emit(t, data)
        \/ CallSubscriber \/ CallbackEnds
        \/ Route \/ DecisionRefused

Spec == Init /\ [][Next]_vars

------------------------------------------------------------------------------
(* The lists and the stack stay of their shapes; only the innermost emit can be
   past the call of a subscriber. *)
TypeOK ==
    /\ \A i \in DOMAIN rules : rules[i].enabled \in BOOLEAN /\ rules[i].age < added
    /\ \A t \in Types : \A i \in DOMAIN subscriptions[t] :
          subscriptions[t][i] \in Callbacks
    /\ \A i \in DOMAIN stack :
          /\ stack[i].event.id <= MaxEvents /\ stack[i].next \in Nat \ {0}
          /\ stack[i].step = "callback" \/ (i = Len(stack) /\ stack[i].step = "notify")
    /\ \A i \in DOMAIN log :
          log[i].kind \in {"stored", "called", "decided", "undecided", "refused"}

(* "Rules are evaluated in strict priority order (highest first)", "stable sort
   on insertion order": whatever was added, removed and switched before, also by
   the event's own subscribers, a decision is that of the matching enabled rule
   of the highest priority, the oldest of several; and an event without one is
   internal or matches no enabled rule, whichever others raise. *)
DecisionIsBest ==
    [][\A i \in DOMAIN log' \ DOMAIN log :
          LET entry == log'[i]
              matching == {r \in {rules[j] : j \in DOMAIN rules} :
                              r.enabled /\ Outcome(r, entry.event) = "true"}
          IN  /\ entry.kind = "decided" =>
                    /\ entry.by \in matching
                    /\ \A r \in matching :
                          \/ entry.by.priority > r.priority
                          \/ /\ entry.by.priority = r.priority
                             /\ entry.by.age <= r.age
              /\ entry.kind = "undecided" =>
                    entry.event.type = RoutingDecision \/ matching = {}]_vars

(* What a rule says when its conditions are true and false as in truth. *)
Combined(rule, truth) ==
    CASE rule.combine = "all_of" -> \A i \in DOMAIN truth : truth[i]
      [] rule.combine = "any_of" -> \E i \in DOMAIN truth : truth[i]
      [] rule.combine = "none_of" -> \A i \in DOMAIN truth : ~truth[i]

(* No decision rests on a condition that raised: whichever truth value each of
   those is given, the rule of a decision matches its event. *)
MatchIsRobust ==
    \A i \in Entries("decided") :
        LET rule == log[i].by
            says == [j \in DOMAIN rule.conditions |->
                        Check(rule.conditions[j], log[i].event)]
        IN  \A truth \in [DOMAIN says -> BOOLEAN] :
                (\A j \in DOMAIN says :
                    says[j] # "raises" => truth[j] = (says[j] = "true"))
                => Combined(rule, truth)

CallsOf(e) == {i \in Entries("called") : log[i].event = e}
Called(e) == Kept([i \in DOMAIN log |-> log[i].by], CallsOf(e))

(* When an event is evaluated each subscription to its type was called exactly
   once and in order: those made while it was announced as well, and those that
   come after one that raised. *)
SubscribersCalledOnce ==
    [][\A i \in DOMAIN log' \ DOMAIN log :
          log'[i].kind \in {"decided", "undecided", "refused"} =>
              Called(log'[i].event) = subscriptions[log'[i].event.type]]_vars

EvaluatedAt(e) == {i \in DOMAIN log : /\ log[i].event = e
                                     /\ log[i].kind \notin {"stored", "called"}}

(* Emits of subscribers nest: an event is evaluated after the events its own
   subscribers emitted, and once the outermost call is over each stored event was
   evaluated exactly once, whatever its subscribers raised and whichever nested
   emit failed. *)
EmitsNest ==
    /\ \A i \in Entries("stored") :
          \A j \in Entries("stored"), k \in EvaluatedAt(log[i].event) :
              i < j /\ j < k => \E l \in EvaluatedAt(log[j].event) : l < k
    /\ stack = <<>> => \A i \in Entries("stored") :
                          Cardinality(EvaluatedAt(log[i].event)) = 1
===============================================================================
