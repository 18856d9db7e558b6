---------------------------- MODULE Router_proofs ----------------------------
(* The router for any event types, rules, payloads and subscribers, and emits
   nested to any depth. *)
EXTENDS Router, Lists_proofs

Event == [id : Nat \ {0}, type : Types, data : Payloads]

Rule == [name : {d.name : d \in Drafts}, combine : {"all_of", "any_of", "none_of"},
         priority : Int, conditions : {d.conditions : d \in Drafts},
         enabled : BOOLEAN, age : Nat]

Frame == [event : Event, step : {"notify", "callback"}, next : Nat \ {0}]

Entry == [kind : {"stored", "called", "decided", "undecided", "refused"},
          event : Event, by : Callbacks \cup Rule \cup {None, NoRule}]

Shapes == /\ rules \in Seq(Rule) /\ added \in Nat
          /\ subscriptions \in [Types -> Seq(Callbacks)]
          /\ stack \in Seq(Frame)
          /\ log \in Seq(Entry)

(* The rules are sorted, the older first among equals. *)
RulesInOrder == /\ InOrder(rules)
                /\ \A i \in DOMAIN rules : rules[i].age < added

(* A decision is that of a rule that matches. *)
DecidedByMatch ==
    \A i \in Entries("decided") :
        log[i].by \in Rule /\ Outcome(log[i].by, log[i].event) = "true"

(* Events are numbered in the order they are stored in. *)
Numbered ==
    /\ \A i \in DOMAIN log : log[i].event.id <= Cardinality(Entries("stored"))
    /\ \A i, j \in Entries("stored") : i < j => log[i].event.id < log[j].event.id

(* An emit further in is of a later event, and called by a subscriber. *)
Nested ==
    \A i \in DOMAIN stack :
        /\ stack[i].event.id <= MaxEvents
        /\ stack[i].event.id <= Cardinality(Entries("stored"))
        /\ stack[i].step = "callback" \/ i = Len(stack)
        /\ \A j \in 1 .. i - 1 : stack[j].event.id < stack[i].event.id

(* Of the subscribers to its type an emit under way has called the first ones. *)
Reached(f) == IF f.step = "callback" THEN f.next ELSE f.next - 1
CalledSoFar ==
    \A i \in DOMAIN stack : \A f \in {stack[i]} :
        LET list == subscriptions[f.event.type]
        IN  /\ Reached(f) <= Len(list)
            /\ Called(f.event) = SubSeq(list, 1, Reached(f))

(* A stored event is evaluated once, when its emit is over. *)
UnderWay(e) == \E i \in DOMAIN stack : stack[i].event = e
Settled ==
    \A i \in Entries("stored") : \A e \in {log[i].event} :
        IF UnderWay(e) THEN EvaluatedAt(e) = {} ELSE \E k : EvaluatedAt(e) = {k}

(* The first half of EmitsNest, which does not depend on the stack. *)
InnerFirst ==
    \A i, j \in Entries("stored") : \A e \in {log[i].event}, d \in {log[j].event} :
        \A k \in EvaluatedAt(e) :
            i < j /\ j < k => \E l \in EvaluatedAt(d) : l < k

IInv == /\ Shapes /\ RulesInOrder /\ DecidedByMatch /\ Numbered /\ Nested
        /\ CalledSoFar /\ Settled /\ InnerFirst

------------------------------------------------------------------------------
(* What an entry that is recorded changes in what the log says of an event. *)

LEMMA Grows ==
    ASSUME log \in Seq(Entry), NEW kind, NEW e, NEW by,
           [kind |-> kind, event |-> e, by |-> by] \in Entry,
           Record(kind, e, by)
    PROVE  /\ log' \in Seq(Entry)
           /\ Len(log') = Len(log) + 1
           /\ DOMAIN log' = 1 .. Len(log) + 1
           /\ \A i \in DOMAIN log : log'[i] = log[i]
           /\ log'[Len(log) + 1] = [kind |-> kind, event |-> e, by |-> by]
BY DEF Record

LEMMA EntriesGrow ==
    ASSUME log \in Seq(Entry), NEW kind, NEW e, NEW by,
           [kind |-> kind, event |-> e, by |-> by] \in Entry,
           Record(kind, e, by)
    PROVE  /\ \A k : k # kind => Entries(k)' = Entries(k)
           /\ Entries(kind)' = Entries(kind) \cup {Len(log) + 1}
           /\ kind \notin {"stored", "called"} =>
                EvaluatedAt(e)' = EvaluatedAt(e) \cup {Len(log) + 1}
           /\ \A x : x # e \/ kind \in {"stored", "called"} =>
                EvaluatedAt(x)' = EvaluatedAt(x)
<1> DEFINE n == Len(log) + 1
<1>1. /\ DOMAIN log' = DOMAIN log \cup {n}
      /\ n \notin DOMAIN log
      /\ \A i \in DOMAIN log : log'[i] = log[i]
      /\ log'[n].kind = kind /\ log'[n].event = e
  <2>1. DOMAIN log = 1 .. Len(log) /\ Len(log) \in Nat
    OBVIOUS
  <2>2. /\ DOMAIN log' = 1 .. Len(log) + 1
        /\ \A i \in DOMAIN log : log'[i] = log[i]
        /\ log'[n] = [kind |-> kind, event |-> e, by |-> by]
    BY Grows
  <2> QED BY <2>1, <2>2
<1> HIDE DEF n
<1>2. \A k : k # kind => Entries(k)' = Entries(k)
  BY <1>1 DEF Entries
<1>3. Entries(kind)' = Entries(kind) \cup {n}
  BY <1>1 DEF Entries
<1>4. kind \notin {"stored", "called"} => EvaluatedAt(e)' = EvaluatedAt(e) \cup {n}
  BY <1>1 DEF EvaluatedAt
<1>5. \A x : x # e \/ kind \in {"stored", "called"} => EvaluatedAt(x)' = EvaluatedAt(x)
  BY <1>1 DEF EvaluatedAt
<1> QED BY <1>2, <1>3, <1>4, <1>5 DEF n

LEMMA CalledGrows ==
    ASSUME log \in Seq(Entry), NEW kind, NEW e, NEW by,
           [kind |-> kind, event |-> e, by |-> by] \in Entry,
           Record(kind, e, by)
    PROVE  /\ kind = "called" => Called(e)' = Append(Called(e), by)
           /\ \A x : x # e \/ kind # "called" => Called(x)' = Called(x)
<1> DEFINE n == Len(log) + 1
           By == Callbacks \cup Rule \cup {None, NoRule}
           bys == [i \in DOMAIN log |-> log[i].by]
           bys2 == [i \in DOMAIN log' |-> log'[i].by]
<1>1. /\ DOMAIN log' = DOMAIN log \cup {n}
      /\ n \notin DOMAIN log
      /\ \A i \in DOMAIN log : log'[i] = log[i]
      /\ log'[n].kind = kind /\ log'[n].event = e /\ log'[n].by = by
  <2>1. DOMAIN log = 1 .. Len(log) /\ Len(log) \in Nat
    OBVIOUS
  <2>2. /\ DOMAIN log' = 1 .. Len(log) + 1
        /\ \A i \in DOMAIN log : log'[i] = log[i]
        /\ log'[n] = [kind |-> kind, event |-> e, by |-> by]
    BY Grows
  <2> QED BY <2>1, <2>2
<1>2. bys \in Seq(By) /\ Len(bys) = Len(log) /\ DOMAIN bys = DOMAIN log
  <2>1. \A i \in DOMAIN log : log[i].by \in By
    <3> HIDE DEF By
    <3>1. \A x \in Entry : x.by \in By
      BY DEF Entry, By
    <3> QED BY <3>1
  <2>2. DOMAIN log = 1 .. Len(log) /\ Len(log) \in Nat
    OBVIOUS
  <2>3. bys \in [1 .. Len(log) -> By]
    <3> HIDE DEF By
    <3> QED BY <2>1, <2>2
  <2> HIDE DEF By, bys
  <2>4. bys \in Seq(By) /\ Len(bys) = Len(log)
    BY <2>2, <2>3
  <2> QED BY <2>2, <2>3, <2>4
<1>3. by \in By
  BY DEF Entry
<1>4. bys2 = Append(bys, by)
  <2>1. bys2 \in Seq(By) /\ Len(bys2) = n
    <3>1. log' \in Seq(Entry) /\ Len(log') = n
      BY Grows
    <3>2. DOMAIN log' = 1 .. n /\ n \in Nat
      BY <3>1
    <3>3. \A i \in DOMAIN log' : log'[i].by \in By
      <4> HIDE DEF By
      <4>1. \A x \in Entry : x.by \in By
        BY DEF Entry, By
      <4> QED BY <3>1, <4>1
    <3>4. bys2 \in [1 .. n -> By]
      <4> HIDE DEF By, n
      <4> QED BY <3>2, <3>3
    <3> HIDE DEF By, bys2, n
    <3> QED BY <3>2, <3>4
  <2>2. Append(bys, by) \in Seq(By) /\ Len(Append(bys, by)) = n
    BY <1>2, <1>3
  <2>3. \A i \in 1 .. n : bys2[i] = Append(bys, by)[i]
    BY <1>1, <1>2, <1>3
  <2> HIDE DEF bys, bys2, By, n
  <2> QED BY <2>1, <2>2, <2>3, SeqEqual
<1>5. \A x : CallsOf(x) \in SUBSET DOMAIN bys
  BY <1>2 DEF CallsOf, Entries
<1> HIDE DEF n, bys, bys2, By
<1>6. \A P \in SUBSET DOMAIN bys :
         /\ Kept(Append(bys, by), P) = Kept(bys, P)
         /\ Kept(Append(bys, by), P \cup {Len(bys) + 1}) = Append(Kept(bys, P), by)
  <2> TAKE P \in SUBSET DOMAIN bys
  <2>1. bys \in Seq(By) /\ by \in By
    BY <1>2, <1>3
  <2>2. \A S : \A s \in Seq(S) : \A Q \in SUBSET DOMAIN s : \A x \in S :
           /\ Kept(Append(s, x), Q) = Kept(s, Q)
           /\ Kept(Append(s, x), Q \cup {Len(s) + 1}) = Append(Kept(s, Q), x)
    BY KeptAppend
  <2>3. \A s \in Seq(By) : \A Q \in SUBSET DOMAIN s : \A x \in By :
           /\ Kept(Append(s, x), Q) = Kept(s, Q)
           /\ Kept(Append(s, x), Q \cup {Len(s) + 1}) = Append(Kept(s, Q), x)
    BY <2>2
  <2> QED BY <2>1, <2>3
<1>7. ASSUME kind = "called"
      PROVE  Called(e)' = Append(Called(e), by)
  <2>1. CallsOf(e)' = CallsOf(e) \cup {n}
    BY <1>1, <1>7 DEF CallsOf, Entries
  <2>2. Kept(Append(bys, by), CallsOf(e) \cup {Len(bys) + 1})
            = Append(Kept(bys, CallsOf(e)), by)
    BY <1>5, <1>6
  <2>3. Kept(bys2, CallsOf(e)') = Append(Kept(bys, CallsOf(e)), by)
    BY <2>1, <2>2, <1>2, <1>4 DEF n
  <2> QED BY <2>3 DEF Called, bys, bys2
<1>8. ASSUME NEW x, x # e \/ kind # "called"
      PROVE  Called(x)' = Called(x)
  <2>1. CallsOf(x)' = CallsOf(x)
    BY <1>1, <1>8 DEF CallsOf, Entries
  <2>2. Kept(Append(bys, by), CallsOf(x)) = Kept(bys, CallsOf(x))
    BY <1>5, <1>6
  <2>3. Kept(bys2, CallsOf(x)') = Kept(bys, CallsOf(x))
    BY <2>1, <2>2, <1>4
  <2> QED BY <2>3 DEF Called, bys, bys2
<1> QED BY <1>7, <1>8

------------------------------------------------------------------------------
(* The rules stay sorted, whoever changes them. *)

LEMMA RuleIsAdded ==
    ASSUME Shapes, RulesInOrder, NEW d \in Drafts, AddRule(d)
    PROVE  rules' \in Seq(Rule) /\ added' \in Nat /\ RulesInOrder'
<1> DEFINE r == [name |-> d.name, combine |-> d.combine, priority |-> d.priority,
                 conditions |-> d.conditions, enabled |-> TRUE, age |-> added]
<1>1. r \in Rule
  BY RouterAssumption DEF Rule, Shapes
<1>2. rules \in Seq(Rule) /\ added \in Nat /\ r.age = added
  BY DEF Shapes
<1>3. \A q \in Rule : q.priority \in Int
  BY DEF Rule
<1>4. InOrder(rules) /\ \A i \in DOMAIN rules : rules[i].age < r.age
  BY <1>2 DEF RulesInOrder
<1>5. rules' = Inserted(rules, r) /\ added' = added + 1
  BY DEF AddRule
<1> HIDE DEF r
<1>6. /\ rules' \in Seq(Rule)
      /\ InOrder(rules')
      /\ \A i \in DOMAIN rules' : rules'[i] = r \/ \E j \in DOMAIN rules : rules'[i] = rules[j]
  BY <1>1, <1>2, <1>3, <1>4, <1>5, InsertedStaysInOrder
<1>7. \A i \in DOMAIN rules' : rules'[i].age < added'
  <2> TAKE i \in DOMAIN rules'
  <2>1. CASE rules'[i] = r
    BY <2>1, <1>2, <1>5
  <2>2. CASE \E j \in DOMAIN rules : rules'[i] = rules[j]
    <3>1. PICK j \in DOMAIN rules : rules'[i] = rules[j]
      BY <2>2
    <3>2. rules[j].age < added /\ rules[j].age \in Nat
      <4>1. rules[j] \in Rule
        BY <1>2
      <4> QED BY <4>1, <1>2, <1>4 DEF Rule
    <3> QED BY <3>1, <3>2, <1>2, <1>5
  <2> QED BY <2>1, <2>2, <1>6
<1> QED BY <1>2, <1>5, <1>6, <1>7 DEF RulesInOrder

LEMMA RulesAreRemoved ==
    ASSUME Shapes, RulesInOrder, NEW name, RemoveRule(name)
    PROVE  rules' \in Seq(Rule) /\ added' \in Nat /\ RulesInOrder'
<1> DEFINE P == {i \in DOMAIN rules : rules[i].name # name}
<1>1. rules \in Seq(Rule) /\ P \in SUBSET DOMAIN rules
  BY DEF Shapes
<1>2. rules' = Kept(rules, P) /\ added' = added
  BY DEF RemoveRule
<1> HIDE DEF P
<1>3. rules' \in Seq(Rule) /\ DOMAIN rules' = 1 .. Cardinality(P)
  BY <1>1, <1>2, KeptIsSeq
<1>4. InOrder(rules')
  BY <1>1, <1>2, KeptStaysInOrder DEF RulesInOrder
<1>5. ASSUME NEW k \in DOMAIN rules'
      PROVE  rules'[k].age < added'
  <2>1. IsFiniteSet(P) /\ P \subseteq Int
    BY <1>1, Positions
  <2>2. PICK i \in P : Rank(P, i) = k
    BY <2>1, <1>3, RankFills
  <2>3. rules'[k] = rules[i] /\ i \in DOMAIN rules
    BY <2>1, <2>2, <1>1, <1>2, KeptAt
  <2> QED BY <2>3, <1>2 DEF RulesInOrder
<1> QED BY <1>2, <1>3, <1>4, <1>5 DEF Shapes, RulesInOrder

LEMMA RulesAreSwitched ==
    ASSUME Shapes, RulesInOrder, NEW name, NEW enabled \in BOOLEAN,
           SwitchRule(name, enabled)
    PROVE  rules' \in Seq(Rule) /\ added' \in Nat /\ RulesInOrder'
<1>1. /\ rules \in Seq(Rule)
      /\ rules' = [i \in DOMAIN rules |->
                      IF rules[i].name = name
                      THEN [rules[i] EXCEPT !.enabled = enabled] ELSE rules[i]]
      /\ added' = added
  BY DEF SwitchRule, Shapes
<1>2. ASSUME NEW r \in Rule
      PROVE  /\ [r EXCEPT !.enabled = enabled] \in Rule
             /\ [r EXCEPT !.enabled = enabled].priority = r.priority
             /\ [r EXCEPT !.enabled = enabled].age = r.age
  BY DEF Rule
<1>3. ASSUME NEW i \in DOMAIN rules
      PROVE  /\ rules'[i] \in Rule
             /\ rules'[i].priority = rules[i].priority
             /\ rules'[i].age = rules[i].age
  <2>1. rules[i] \in Rule
    BY <1>1
  <2> QED BY <2>1, <1>1, <1>2
<1>4. DOMAIN rules' = DOMAIN rules
  BY <1>1
<1>5. rules' \in Seq(Rule)
  <2>1. DOMAIN rules = 1 .. Len(rules) /\ Len(rules) \in Nat
    BY <1>1
  <2>2. rules' \in [1 .. Len(rules) -> Rule]
    BY <2>1, <1>1, <1>3
  <2> QED BY <2>1, <2>2
<1> QED BY <1>1, <1>3, <1>4, <1>5 DEF RulesInOrder, InOrder, Precedes, Shapes

------------------------------------------------------------------------------
(* The outcome of a rule for an event, and why it does not rest on conditions
   that raise. *)

LEMMA VerdictOfCheck ==
    ASSUME NEW c, c.op \in Operators, NEW e
    PROVE  Check(c, e) \in {"true", "false", "raises"}
BY DEF Check, Verdict, Operators

LEMMA FirstOther ==
    ASSUME NEW v, NEW V, NEW verdicts \in Seq(V)
    PROVE  \/ FirstOtherThan(v, verdicts) = v /\ \A i \in DOMAIN verdicts : verdicts[i] = v
           \/ \E i \in DOMAIN verdicts : /\ verdicts[i] # v
                                         /\ FirstOtherThan(v, verdicts) = verdicts[i]
<1> DEFINE P == {i \in DOMAIN verdicts : verdicts[i] # v}
<1>1. CASE P = {}
  BY <1>1 DEF FirstOtherThan
<1>2. CASE P # {}
  <2>1. IsFiniteSet(P) /\ P \subseteq Int
    <3>1. P \in SUBSET DOMAIN verdicts
      OBVIOUS
    <3> HIDE DEF P
    <3> QED BY <3>1, Positions
  <2>2. PICK i \in P : \A j \in P : i <= j
    <3> HIDE DEF P
    <3> QED BY <1>2, <2>1, FirstPosition
  <2>3. \A j \in 1 .. i - 1 : verdicts[j] = v
    <3> SUFFICES ASSUME NEW j \in 1 .. i - 1, verdicts[j] # v
                 PROVE  FALSE
      OBVIOUS
    <3>1. j \in P /\ ~(i <= j)
      OBVIOUS
    <3> QED BY <2>2, <3>1
  <2>4. \E k \in DOMAIN verdicts : /\ verdicts[k] # v
                                   /\ \A j \in 1 .. k - 1 : verdicts[j] = v
    BY <2>2, <2>3
  <2>5. ~ \A k \in DOMAIN verdicts : verdicts[k] = v
    BY <2>2
  <2> QED BY <2>4, <2>5 DEF FirstOtherThan
<1> QED BY <1>1, <1>2

LEMMA ConditionsOfRule ==
    ASSUME NEW r \in Rule
    PROVE  /\ r.conditions \in Seq({r.conditions[i] : i \in DOMAIN r.conditions})
           /\ \A i \in DOMAIN r.conditions : r.conditions[i].op \in Operators
<1>1. PICK d \in Drafts : r.conditions = d.conditions
  BY DEF Rule
<1> QED BY <1>1, RouterAssumption

LEMMA MatchHolds ==
    ASSUME NEW r \in Rule, NEW e, Outcome(r, e) = "true",
           NEW truth \in [DOMAIN r.conditions -> BOOLEAN],
           \A i \in DOMAIN r.conditions :
              Check(r.conditions[i], e) # "raises" =>
                  truth[i] = (Check(r.conditions[i], e) = "true")
    PROVE  Combined(r, truth)
<1> DEFINE verdicts == [i \in DOMAIN r.conditions |-> Check(r.conditions[i], e)]
           V == {"true", "false", "raises"}
<1>1. verdicts \in Seq(V) /\ DOMAIN verdicts = DOMAIN r.conditions
  <2>1. /\ DOMAIN r.conditions = 1 .. Len(r.conditions)
        /\ Len(r.conditions) \in Nat
    BY ConditionsOfRule
  <2>2. \A i \in DOMAIN r.conditions : Check(r.conditions[i], e) \in V
    BY ConditionsOfRule, VerdictOfCheck
  <2>3. verdicts \in [1 .. Len(r.conditions) -> V]
    <3> HIDE DEF V
    <3> QED BY <2>1, <2>2
  <2> QED BY <2>1, <2>3
<1>2. \A i \in DOMAIN truth : verdicts[i] # "raises" => truth[i] = (verdicts[i] = "true")
  OBVIOUS
<1>3. DOMAIN truth = DOMAIN verdicts
  OBVIOUS
<1>4. r.combine \in {"all_of", "any_of", "none_of"}
  BY DEF Rule
<1>5. Outcome(r, e) =
         CASE r.combine = "all_of"  -> FirstOtherThan("true", verdicts)
           [] r.combine = "any_of"  -> FirstOtherThan("false", verdicts)
           [] r.combine = "none_of" -> Negate(FirstOtherThan("false", verdicts))
  BY DEF Outcome
<1>6. \A i \in DOMAIN truth : truth[i] \in BOOLEAN
  OBVIOUS
<1> HIDE DEF verdicts, V
<1>7. CASE r.combine = "all_of"
  <2>1. FirstOtherThan("true", verdicts) = "true"
    BY <1>5, <1>7
  <2>2. \A i \in DOMAIN verdicts : verdicts[i] = "true"
    BY <1>1, <2>1, FirstOther
  <2> QED BY <1>2, <1>3, <1>7, <2>2 DEF Combined
<1>8. CASE r.combine = "any_of"
  <2>1. FirstOtherThan("false", verdicts) = "true"
    BY <1>5, <1>8
  <2>2. \E i \in DOMAIN verdicts : verdicts[i] = "true"
    BY <1>1, <2>1, FirstOther
  <2> QED BY <1>2, <1>3, <1>8, <2>2 DEF Combined
<1>9. CASE r.combine = "none_of"
  <2>1. FirstOtherThan("false", verdicts) = "false"
    BY <1>5, <1>9 DEF Negate, Verdict
  <2>2. \A i \in DOMAIN verdicts : verdicts[i] = "false"
    BY <1>1, <2>1, FirstOther
  <2> QED BY <1>2, <1>3, <1>9, <2>2 DEF Combined
<1> QED BY <1>4, <1>7, <1>8, <1>9

(* What evaluate returns: the best of the enabled rules that match, or no rule,
   of an internal event or when none matches. *)
LEMMA EvaluatedToBest ==
    ASSUME Shapes, RulesInOrder, NEW e
    PROVE  \/ /\ Evaluate(e) = NoRule
              /\ e.type = RoutingDecision \/ Candidates(e) = {}
           \/ /\ Evaluate(e) # NoRule /\ Evaluate(e) \in Rule
              /\ \E f \in Candidates(e) :
                    /\ Evaluate(e) = rules[f]
                    /\ \A j \in Candidates(e) : j = f \/ Precedes(rules[f], rules[j])
<1>1. CASE e.type = RoutingDecision \/ Candidates(e) = {}
  BY <1>1 DEF Evaluate
<1>2. CASE ~(e.type = RoutingDecision \/ Candidates(e) = {})
  <2> DEFINE f == CHOOSE i \in Candidates(e) : \A j \in Candidates(e) : i <= j
  <2>1. Evaluate(e) = rules[f]
    BY <1>2 DEF Evaluate
  <2>2. rules \in Seq(Rule) /\ InOrder(rules)
    BY DEF Shapes, RulesInOrder
  <2>3. Candidates(e) \in SUBSET DOMAIN rules
    BY DEF Candidates
  <2>4. f \in Candidates(e) /\ \A j \in Candidates(e) : j = f \/ Precedes(rules[f], rules[j])
    BY <1>2, <2>2, <2>3, FirstPrecedes
  <2> HIDE DEF f
  <2>5. rules[f] \in Rule
    BY <2>2, <2>3, <2>4
  <2>6. NoRule \notin Rule
    BY DEF NoRule, Rule
  <2> QED BY <2>1, <2>4, <2>5, <2>6
<1> QED BY <1>1, <1>2

------------------------------------------------------------------------------
(* The stack of the emits under way. *)

LEMMA TopFrame ==
    ASSUME Shapes, stack # <<>>
    PROVE  /\ Len(stack) \in DOMAIN stack /\ Len(stack) \in Nat \ {0}
           /\ Top = stack[Len(stack)] /\ Top \in Frame
           /\ Top.event \in Event /\ Top.event.type \in Types
           /\ Top.next \in Nat \ {0}
<1>1. stack \in Seq(Frame)
  BY DEF Shapes
<1>2. Len(stack) \in DOMAIN stack /\ Len(stack) \in Nat \ {0}
  BY <1>1
<1>3. Top \in Frame
  BY <1>1, <1>2 DEF Top
<1> QED BY <1>2, <1>3 DEF Top, Frame, Event

LEMMA FrameContinues ==
    ASSUME Shapes, stack # <<>>, NEW step \in {"notify", "callback"},
           NEW next \in Nat \ {0}, Continue(step, next)
    PROVE  /\ stack' \in Seq(Frame) /\ Len(stack') = Len(stack)
           /\ DOMAIN stack' = DOMAIN stack
           /\ \A i \in DOMAIN stack : i # Len(stack) => stack'[i] = stack[i]
           /\ stack'[Len(stack)] = [event |-> Top.event, step |-> step, next |-> next]
           /\ \A i \in DOMAIN stack : stack'[i].event = stack[i].event
<1> DEFINE f == [event |-> Top.event, step |-> step, next |-> next]
<1>1. stack \in Seq(Frame) /\ Len(stack) \in DOMAIN stack /\ f \in Frame
  BY TopFrame DEF Shapes, Frame
<1>2. stack' = [stack EXCEPT ![Len(stack)] = f]
  BY DEF Continue
<1>3. f.event = stack[Len(stack)].event
  BY DEF Top
<1> HIDE DEF f
<1>4. stack' \in Seq(Frame) /\ Len(stack') = Len(stack) /\ DOMAIN stack' = DOMAIN stack
  BY <1>1, <1>2
<1> QED BY <1>1, <1>2, <1>3, <1>4 DEF f

LEMMA FramePops ==
    ASSUME Shapes, stack # <<>>, Pop
    PROVE  /\ stack' \in Seq(Frame)
           /\ DOMAIN stack' = DOMAIN stack \ {Len(stack)}
           /\ Len(stack') = Len(stack) - 1
           /\ \A i \in DOMAIN stack' : stack'[i] = stack[i]
<1>1. stack \in Seq(Frame) /\ Len(stack) \in Nat \ {0}
  BY TopFrame DEF Shapes
<1>2. /\ stack' \in Seq(Frame) /\ Len(stack') = Len(stack) - 1
      /\ \A i \in 1 .. Len(stack) - 1 : stack'[i] = stack[i]
  <2> DEFINE n == Len(stack) - 1
  <2>1. n \in 0 .. Len(stack) /\ 1 \in 1 .. Len(stack) + 1
    BY <1>1
  <2>2. stack' = SubSeq(stack, 1, n)
    BY DEF Pop
  <2>3. \A i \in 1 .. n : stack[i] \in Frame
    BY <1>1
  <2> HIDE DEF n
  <2>4. stack' \in Seq(Frame) /\ Len(stack') = n /\ \A i \in 1 .. n : stack'[i] = stack[i]
    BY <1>1, <2>1, <2>2, <2>3
  <2> QED BY <2>4 DEF n
<1>3. DOMAIN stack = 1 .. Len(stack) /\ DOMAIN stack' = 1 .. Len(stack')
  BY <1>1, <1>2
<1>4. DOMAIN stack' = DOMAIN stack \ {Len(stack)}
  BY <1>1, <1>2, <1>3
<1> QED BY <1>1, <1>2, <1>3, <1>4

(* Two emits under way are of different events. *)
LEMMA FramesDiffer ==
    ASSUME Shapes, Nested, NEW i \in DOMAIN stack, NEW j \in DOMAIN stack,
           stack[i].event = stack[j].event
    PROVE  i = j
<1> SUFFICES ASSUME i # j PROVE FALSE
  OBVIOUS
<1>1. stack \in Seq(Frame)
  BY DEF Shapes
<1>2. i \in Nat /\ j \in Nat /\ i >= 1 /\ j >= 1 /\ (i < j \/ j < i)
  BY <1>1
<1>3. stack[i].event.id \in Nat
  <2>1. stack[i] \in Frame
    BY <1>1
  <2> QED BY <2>1 DEF Frame, Event
<1>4. CASE i < j
  <2>1. i \in 1 .. j - 1
    BY <1>2, <1>4
  <2>2. stack[i].event.id < stack[j].event.id
    BY <2>1 DEF Nested
  <2> QED BY <2>2, <1>3
<1>5. CASE j < i
  <2>1. j \in 1 .. i - 1
    BY <1>2, <1>5
  <2>2. stack[j].event.id < stack[i].event.id
    BY <2>1 DEF Nested
  <2> QED BY <2>2, <1>3
<1> QED BY <1>2, <1>4, <1>5

LEMMA StoredIsCounted ==
    ASSUME Shapes
    PROVE  /\ IsFiniteSet(Entries("stored")) /\ Cardinality(Entries("stored")) \in Nat
           /\ Entries("stored") \in SUBSET DOMAIN log
           /\ Len(log) + 1 \notin Entries("stored")
<1>1. log \in Seq(Entry)
  BY DEF Shapes
<1>2. Entries("stored") \in SUBSET DOMAIN log
  BY DEF Entries
<1>3. IsFiniteSet(Entries("stored")) /\ Cardinality(Entries("stored")) \in Nat
  BY <1>1, <1>2, Positions
<1>4. Len(log) + 1 \notin DOMAIN log
  BY <1>1
<1> QED BY <1>2, <1>3, <1>4

------------------------------------------------------------------------------
(* The steps of an emit. *)

LogInv == /\ log \in Seq(Entry) /\ stack \in Seq(Frame)
          /\ Numbered /\ Nested /\ CalledSoFar /\ Settled /\ InnerFirst

LEMMA EmitStep ==
    ASSUME IInv, NEW type \in Types, NEW data \in Payloads, Emit(type, data)
    PROVE  LogInv'
<1> DEFINE c == Cardinality(Entries("stored"))
           n == Len(log) + 1
<1>0. PICK e : e = [id |-> c + 1, type |-> type, data |-> data]
  OBVIOUS
<1> DEFINE f == [event |-> e, step |-> "notify", next |-> 1]
<1>1. c \in Nat /\ IsFiniteSet(Entries("stored")) /\ n \notin Entries("stored")
  BY StoredIsCounted DEF IInv
<1>2. /\ UserCode /\ e.id <= MaxEvents
      /\ stack' = Append(stack, f)
      /\ Record("stored", e, None)
      /\ subscriptions' = subscriptions
  BY <1>0 DEF Emit
<1>3. /\ e \in Event /\ f \in Frame
      /\ [kind |-> "stored", event |-> e, by |-> None] \in Entry
  BY <1>0, <1>1 DEF Event, Frame, Entry
<1>4. e.id = c + 1 /\ f.event = e /\ f.step = "notify" /\ f.next = 1
  BY <1>0
<1>5. log \in Seq(Entry) /\ stack \in Seq(Frame)
  BY DEF IInv, Shapes
<1> HIDE DEF f
<1>6. /\ log' \in Seq(Entry) /\ DOMAIN log' = DOMAIN log \cup {n}
      /\ n \notin DOMAIN log /\ \A i \in DOMAIN log : i < n
      /\ \A i \in DOMAIN log : log'[i] = log[i]
      /\ log'[n].kind = "stored" /\ log'[n].event = e
  <2>1. DOMAIN log = 1 .. Len(log) /\ Len(log) \in Nat
    BY <1>5
  <2>2. /\ log' \in Seq(Entry)
        /\ DOMAIN log' = 1 .. Len(log) + 1
        /\ \A i \in DOMAIN log : log'[i] = log[i]
        /\ log'[n] = [kind |-> "stored", event |-> e, by |-> None]
    BY <1>2, <1>3, <1>5, Grows
  <2> QED BY <2>1, <2>2
<1>7. /\ Entries("stored")' = Entries("stored") \cup {n}
      /\ \A x : EvaluatedAt(x)' = EvaluatedAt(x)
      /\ \A x : Called(x)' = Called(x)
  <2>1. /\ Entries("stored")' = Entries("stored") \cup {n}
        /\ \A x : EvaluatedAt(x)' = EvaluatedAt(x)
    BY <1>2, <1>3, <1>5, EntriesGrow
  <2>2. \A x : Called(x)' = Called(x)
    BY <1>2, <1>3, <1>5, CalledGrows
  <2> QED BY <2>1, <2>2
<1>8. Cardinality(Entries("stored"))' = c + 1
  <2>1. Cardinality(Entries("stored") \cup {n}) = c + 1
    <3> HIDE DEF n
    <3> QED BY <1>1, FS_AddElement
  <2> QED BY <1>7, <2>1
<1>9. \A i \in DOMAIN log : log[i].event.id <= c /\ log[i].event.id \in Nat
                            /\ log[i].event # e
  <2> TAKE i \in DOMAIN log
  <2>1. log[i].event.id <= c
    BY DEF IInv, Numbered
  <2>2. log[i].event.id \in Nat
    <3>1. log[i] \in Entry
      BY <1>5
    <3> QED BY <3>1 DEF Entry, Event
  <2> QED BY <2>1, <2>2, <1>1, <1>4
<1>10. EvaluatedAt(e) = {} /\ Called(e) = << >>
  <2>1. EvaluatedAt(e) = {} /\ CallsOf(e) = {}
    BY <1>9 DEF EvaluatedAt, CallsOf, Entries
  <2>2. Cardinality(CallsOf(e)) = 0
    BY <2>1, FS_EmptySet
  <2> QED BY <2>1, <2>2 DEF Called, Kept
<1> DEFINE m == Len(stack) + 1
<1>11. /\ stack' \in Seq(Frame) /\ Len(stack') = m /\ m \in Nat
       /\ DOMAIN stack' = DOMAIN stack \cup {m}
       /\ DOMAIN stack = 1 .. Len(stack) /\ Len(stack) \in Nat
       /\ \A i \in DOMAIN stack : i # m /\ stack'[i] = stack[i]
       /\ stack'[m] = f
  BY <1>2, <1>3, <1>5
<1> HIDE DEF c, n, m
<1>12. Numbered'
  <2>1. \A i \in DOMAIN log' : log'[i].event.id <= c + 1
    BY <1>1, <1>4, <1>6, <1>9
  <2>2. ASSUME NEW i \in Entries("stored")', NEW j \in Entries("stored")', i < j
        PROVE  log'[i].event.id < log'[j].event.id
    <3>1. i \in DOMAIN log' /\ j \in DOMAIN log'
      BY DEF Entries
    <3>2. n \in Nat /\ \A k \in DOMAIN log : k \in Nat
      BY <1>5 DEF n
    <3>3. i \in DOMAIN log /\ i \in Entries("stored")
      BY <3>1, <3>2, <1>6, <1>7, <2>2
    <3>4. CASE j = n
      BY <3>3, <3>4, <1>1, <1>4, <1>6, <1>9
    <3>5. CASE j # n
      <4>1. j \in Entries("stored") /\ j \in DOMAIN log
        BY <3>1, <3>5, <1>6, <1>7
      <4> QED BY <4>1, <3>3, <2>2, <1>6 DEF IInv, Numbered
    <3> QED BY <3>4, <3>5
  <2> QED BY <2>1, <2>2, <1>8 DEF Numbered
<1>13. Nested'
  <2>1. ASSUME NEW i \in DOMAIN stack
        PROVE  /\ stack'[i].event.id <= MaxEvents /\ stack'[i].event.id <= c + 1
               /\ stack'[i].step = "callback"
               /\ stack[i].event.id < e.id
               /\ \A j \in 1 .. i - 1 : stack'[j].event.id < stack'[i].event.id
    <3>1. stack'[i] = stack[i] /\ \A j \in 1 .. i - 1 : stack'[j] = stack[j]
      BY <1>11
    <3>2. /\ stack[i].event.id <= MaxEvents /\ stack[i].event.id <= c
          /\ stack[i].step = "callback" \/ i = Len(stack)
          /\ \A j \in 1 .. i - 1 : stack[j].event.id < stack[i].event.id
      BY DEF IInv, Nested, c
    <3>3. stack[i].event.id \in Nat
      <4>1. stack[i] \in Frame
        BY <1>5
      <4> QED BY <4>1 DEF Frame, Event
    <3>4. stack[Len(stack)].step = "callback"
      <4>1. stack # <<>>
        BY <1>11
      <4> QED BY <4>1, <1>2 DEF UserCode, Top
    <3> QED BY <3>1, <3>2, <3>3, <3>4, <1>1, <1>4
  <2>2. \A j \in 1 .. m - 1 : stack'[j].event.id < e.id
    BY <2>1, <1>11 DEF m
  <2>3. /\ stack'[m].event.id <= MaxEvents /\ stack'[m].event.id <= c + 1
        /\ \A j \in 1 .. m - 1 : stack'[j].event.id < stack'[m].event.id
    BY <2>2, <1>1, <1>2, <1>4, <1>11
  <2> QED BY <2>1, <2>3, <1>8, <1>11 DEF Nested
<1>14. CalledSoFar'
  <2> SUFFICES ASSUME NEW i \in DOMAIN stack', NEW g, g = stack'[i]
               PROVE  /\ Reached(g) <= Len(subscriptions'[g.event.type])
                      /\ Called(g.event)' = SubSeq(subscriptions'[g.event.type], 1, Reached(g))
    BY DEF CalledSoFar, Reached
  <2>1. CASE i \in DOMAIN stack
    <3>1. g = stack[i]
      BY <2>1, <1>11
    <3>2. /\ Reached(g) <= Len(subscriptions[g.event.type])
          /\ Called(g.event) = SubSeq(subscriptions[g.event.type], 1, Reached(g))
      BY <2>1, <3>1 DEF IInv, CalledSoFar
    <3>3. Called(g.event)' = Called(g.event)
      BY <1>7
    <3> QED BY <3>2, <3>3, <1>2
  <2>2. CASE i = m
    <3>1. g = f /\ g.event = e /\ Reached(g) = 0
      BY <2>2, <1>4, <1>11 DEF Reached
    <3>2. subscriptions[e.type] \in Seq(Callbacks)
      BY <1>3 DEF IInv, Shapes, Event
    <3>3. SubSeq(subscriptions[e.type], 1, 0) = << >> /\ 0 <= Len(subscriptions[e.type])
      BY <3>2
    <3>4. Called(e)' = Called(e)
      BY <1>7
    <3> QED BY <3>1, <3>3, <3>4, <1>2, <1>10
  <2> QED BY <2>1, <2>2, <1>11
<1>15. Settled'
  <2> SUFFICES ASSUME NEW i \in Entries("stored")', NEW x, x = log'[i].event
               PROVE  IF UnderWay(x)' THEN EvaluatedAt(x)' = {}
                      ELSE \E k : EvaluatedAt(x)' = {k}
    BY DEF Settled
  <2>1. CASE i = n
    <3>1. x = e /\ UnderWay(x)'
      BY <2>1, <1>4, <1>6, <1>11 DEF UnderWay
    <3> QED BY <3>1, <1>7, <1>10
  <2>2. CASE i # n
    <3>1. i \in Entries("stored") /\ i \in DOMAIN log /\ x = log[i].event
      BY <2>2, <1>6, <1>7 DEF Entries
    <3>2. UnderWay(x)' <=> UnderWay(x)
      BY <3>1, <1>4, <1>9, <1>11 DEF UnderWay
    <3>3. EvaluatedAt(x)' = EvaluatedAt(x)
      BY <1>7
    <3> QED BY <3>1, <3>2, <3>3 DEF IInv, Settled
  <2> QED BY <2>1, <2>2
<1>16. InnerFirst'
  <2> SUFFICES ASSUME NEW i \in Entries("stored")', NEW j \in Entries("stored")',
                      NEW x, x = log'[i].event, NEW y, y = log'[j].event,
                      NEW k \in EvaluatedAt(x)', i < j, j < k
               PROVE  \E l \in EvaluatedAt(y)' : l < k
    BY DEF InnerFirst
  <2>1. EvaluatedAt(x)' = EvaluatedAt(x) /\ EvaluatedAt(y)' = EvaluatedAt(y)
    BY <1>7
  <2>2. k \in EvaluatedAt(x) /\ k \in DOMAIN log
    BY <2>1 DEF EvaluatedAt
  <2>3. i # n
    BY <2>2, <1>6, <1>10
  <2>4. j # n
    <3>1. k < n /\ k \in Nat /\ n \in Nat
      BY <2>2, <1>5, <1>6 DEF n
    <3> QED BY <3>1
  <2>5. /\ i \in Entries("stored") /\ j \in Entries("stored")
        /\ x = log[i].event /\ y = log[j].event
    BY <2>3, <2>4, <1>6, <1>7 DEF Entries
  <2> QED BY <2>1, <2>2, <2>5 DEF IInv, InnerFirst
<1> QED BY <1>6, <1>11, <1>12, <1>13, <1>14, <1>15, <1>16 DEF LogInv

(* What an entry leaves alone that is about an event already stored. *)
LEMMA StoredStay ==
    ASSUME IInv, NEW kind, kind # "stored", NEW e, NEW by,
           [kind |-> kind, event |-> e, by |-> by] \in Entry,
           e.id <= Cardinality(Entries("stored")), Record(kind, e, by)
    PROVE  /\ Numbered' /\ log' \in Seq(Entry)
           /\ Entries("stored")' = Entries("stored")
           /\ \A i \in Entries("stored") : i \in DOMAIN log /\ log'[i] = log[i]
<1> DEFINE n == Len(log) + 1
<1>1. log \in Seq(Entry)
  BY DEF IInv, Shapes
<1>2. /\ log' \in Seq(Entry) /\ DOMAIN log' = DOMAIN log \cup {n}
      /\ \A i \in DOMAIN log : log'[i] = log[i]
      /\ log'[n].event = e
  <2>1. DOMAIN log = 1 .. Len(log) /\ Len(log) \in Nat
    BY <1>1
  <2>2. /\ log' \in Seq(Entry)
        /\ DOMAIN log' = 1 .. Len(log) + 1
        /\ \A i \in DOMAIN log : log'[i] = log[i]
        /\ log'[n] = [kind |-> kind, event |-> e, by |-> by]
    BY <1>1, Grows
  <2> QED BY <2>1, <2>2
<1>3. Entries("stored")' = Entries("stored")
  BY <1>1, EntriesGrow
<1>4. \A i \in Entries("stored") : i \in DOMAIN log /\ log'[i] = log[i]
  BY <1>2 DEF Entries
<1>5. Numbered'
  <2> HIDE DEF n
  <2>1. \A i \in DOMAIN log' : log'[i].event.id <= Cardinality(Entries("stored"))
    BY <1>2 DEF IInv, Numbered
  <2>2. \A i, j \in Entries("stored") : i < j => log'[i].event.id < log'[j].event.id
    BY <1>4 DEF IInv, Numbered
  <2> QED BY <2>1, <2>2, <1>3 DEF Numbered
<1> QED BY <1>2, <1>3, <1>4, <1>5

(* Going on with the innermost emit leaves the stack nested and settles nothing. *)
LEMMA ContinueStep ==
    ASSUME IInv, stack # <<>>, NEW step \in {"notify", "callback"},
           NEW next \in Nat \ {0}, Continue(step, next),
           Entries("stored")' = Entries("stored"),
           \A i \in Entries("stored") : log'[i] = log[i],
           \A x : EvaluatedAt(x)' = EvaluatedAt(x)
    PROVE  Nested' /\ Settled' /\ InnerFirst'
<1>1. /\ Len(stack') = Len(stack) /\ DOMAIN stack' = DOMAIN stack
      /\ \A i \in DOMAIN stack : /\ stack'[i].event = stack[i].event
                                 /\ i # Len(stack) => stack'[i] = stack[i]
  BY FrameContinues DEF IInv
<1>2. Nested'
  <2>1. ASSUME NEW i \in DOMAIN stack
        PROVE  /\ stack'[i].event.id <= MaxEvents
               /\ stack'[i].event.id <= Cardinality(Entries("stored"))
               /\ stack'[i].step = "callback" \/ i = Len(stack)
               /\ \A j \in 1 .. i - 1 : stack'[j].event.id < stack'[i].event.id
    <3>1. 1 .. i - 1 \subseteq DOMAIN stack
      <4>1. stack \in Seq(Frame)
        BY DEF IInv, Shapes
      <4> QED BY <4>1
    <3> QED BY <3>1, <1>1 DEF IInv, Nested
  <2> QED BY <2>1, <1>1 DEF Nested
<1>3. \A x : UnderWay(x)' <=> UnderWay(x)
  BY <1>1 DEF UnderWay
<1>4. Settled'
  <2> SUFFICES ASSUME NEW i \in Entries("stored")', NEW x, x = log'[i].event
               PROVE  IF UnderWay(x)' THEN EvaluatedAt(x)' = {}
                      ELSE \E k : EvaluatedAt(x)' = {k}
    BY DEF Settled
  <2>1. i \in Entries("stored") /\ x = log[i].event
    OBVIOUS
  <2>2. (UnderWay(x)' <=> UnderWay(x)) /\ EvaluatedAt(x)' = EvaluatedAt(x)
    BY <1>3
  <2> QED BY <2>1, <2>2 DEF IInv, Settled
<1>5. InnerFirst'
  <2> SUFFICES ASSUME NEW i \in Entries("stored")', NEW j \in Entries("stored")',
                      NEW x, x = log'[i].event, NEW y, y = log'[j].event,
                      NEW k \in EvaluatedAt(x)', i < j, j < k
               PROVE  \E l \in EvaluatedAt(y)' : l < k
    BY DEF InnerFirst
  <2>1. /\ i \in Entries("stored") /\ j \in Entries("stored")
        /\ x = log[i].event /\ y = log[j].event
    OBVIOUS
  <2>2. EvaluatedAt(x)' = EvaluatedAt(x) /\ EvaluatedAt(y)' = EvaluatedAt(y)
    OBVIOUS
  <2> QED BY <2>1, <2>2 DEF IInv, InnerFirst
<1> QED BY <1>2, <1>4, <1>5

LEMMA CallSubscriberStep ==
    ASSUME IInv, CallSubscriber
    PROVE  LogInv'
<1>0. PICK e, next, by : e = Top.event /\ next = Top.next
                         /\ by = subscriptions[Top.event.type][Top.next]
  OBVIOUS
<1> DEFINE list == subscriptions[e.type]
           h == Len(stack)
<1>1. /\ stack # <<>> /\ Top.step = "notify" /\ next <= Len(list)
      /\ Record("called", e, by)
      /\ Continue("callback", next)
      /\ subscriptions' = subscriptions
  BY <1>0 DEF CallSubscriber, Notifying
<1>2. /\ h \in DOMAIN stack /\ e = stack[h].event /\ e \in Event
      /\ next \in Nat \ {0} /\ list \in Seq(Callbacks) /\ e.type \in Types
      /\ Reached(stack[h]) = next - 1
  <2>1. Shapes
    BY DEF IInv
  <2>2. e.type \in Types /\ h \in DOMAIN stack /\ Top = stack[h] /\ next \in Nat \ {0}
        /\ e \in Event
    BY <1>0, <1>1, <2>1, TopFrame
  <2> QED BY <1>0, <1>1, <2>1, <2>2 DEF Shapes, Reached
<1>3. by = list[next] /\ by \in Callbacks
  BY <1>0, <1>1, <1>2
<1>4. [kind |-> "called", event |-> e, by |-> by] \in Entry
  BY <1>2, <1>3 DEF Entry
<1>5. log \in Seq(Entry)
  BY DEF IInv, Shapes
<1>6. e.id <= Cardinality(Entries("stored"))
  BY <1>2 DEF IInv, Nested
<1>7. /\ Numbered' /\ log' \in Seq(Entry)
      /\ Entries("stored")' = Entries("stored")
      /\ \A i \in Entries("stored") : log'[i] = log[i]
  BY <1>1, <1>4, <1>6, StoredStay
<1>8. \A x : EvaluatedAt(x)' = EvaluatedAt(x)
  BY <1>1, <1>4, <1>5, EntriesGrow
<1>9. /\ Called(e)' = Append(Called(e), by)
      /\ \A x : x # e => Called(x)' = Called(x)
  BY <1>1, <1>4, <1>5, CalledGrows
<1>10. Nested' /\ Settled' /\ InnerFirst'
  BY <1>1, <1>2, <1>7, <1>8, ContinueStep
<1>11. /\ stack' \in Seq(Frame) /\ Len(stack') = h /\ DOMAIN stack' = DOMAIN stack
       /\ \A i \in DOMAIN stack : i # h => stack'[i] = stack[i]
       /\ stack'[h] = [event |-> e, step |-> "callback", next |-> next]
  BY <1>0, <1>1, <1>2, FrameContinues DEF IInv
<1>12. CalledSoFar'
  <2> SUFFICES ASSUME NEW i \in DOMAIN stack', NEW g, g = stack'[i]
               PROVE  /\ Reached(g) <= Len(subscriptions'[g.event.type])
                      /\ Called(g.event)' = SubSeq(subscriptions'[g.event.type], 1, Reached(g))
    BY DEF CalledSoFar, Reached
  <2>1. CASE i = h
    <3>1. g.event = e /\ Reached(g) = next
      BY <2>1, <1>11 DEF Reached
    <3>2. Called(e) = SubSeq(list, 1, next - 1)
      BY <1>2 DEF IInv, CalledSoFar
    <3>3. Append(SubSeq(list, 1, next - 1), list[next]) = SubSeq(list, 1, next)
      BY <1>1, <1>2
    <3> QED BY <3>1, <3>2, <3>3, <1>1, <1>3, <1>9
  <2>2. CASE i # h
    <3>1. i \in DOMAIN stack /\ g = stack[i]
      BY <2>2, <1>11
    <3>2. g.event # e
      BY <3>1, <2>2, <1>2, FramesDiffer DEF IInv
    <3>3. Called(g.event)' = Called(g.event)
      BY <3>2, <1>9
    <3>4. /\ Reached(g) <= Len(subscriptions[g.event.type])
          /\ Called(g.event) = SubSeq(subscriptions[g.event.type], 1, Reached(g))
      BY <3>1 DEF IInv, CalledSoFar
    <3> QED BY <3>3, <3>4, <1>1
  <2> QED BY <2>1, <2>2
<1> QED BY <1>7, <1>10, <1>11, <1>12 DEF LogInv

LEMMA CallbackEndsStep ==
    ASSUME IInv, CallbackEnds
    PROVE  LogInv'
<1>0. PICK e, next : e = Top.event /\ next = Top.next
  OBVIOUS
<1> DEFINE h == Len(stack)
<1>1. /\ stack # <<>> /\ Top.step = "callback" /\ Continue("notify", next + 1)
      /\ subscriptions' = subscriptions /\ log' = log
  BY <1>0 DEF CallbackEnds, Resume
<1>2. /\ h \in DOMAIN stack /\ stack[h].event = e
      /\ next \in Nat \ {0} /\ Reached(stack[h]) = next
  BY <1>0, <1>1, TopFrame DEF IInv, Reached
<1>3. /\ Entries("stored")' = Entries("stored")
      /\ \A x : EvaluatedAt(x)' = EvaluatedAt(x) /\ Called(x)' = Called(x)
  BY <1>1 DEF Entries, EvaluatedAt, Called, CallsOf
<1>4. next + 1 \in Nat \ {0}
  BY <1>2
<1>5. Nested' /\ Settled' /\ InnerFirst'
  BY <1>1, <1>3, <1>4, ContinueStep
<1>6. /\ stack' \in Seq(Frame) /\ Len(stack') = h /\ DOMAIN stack' = DOMAIN stack
      /\ \A i \in DOMAIN stack : i # h => stack'[i] = stack[i]
      /\ stack'[h] = [event |-> e, step |-> "notify", next |-> next + 1]
  BY <1>0, <1>1, <1>4, FrameContinues DEF IInv
<1>7. CalledSoFar'
  <2> SUFFICES ASSUME NEW i \in DOMAIN stack', NEW g, g = stack'[i]
               PROVE  /\ Reached(g) <= Len(subscriptions'[g.event.type])
                      /\ Called(g.event)' = SubSeq(subscriptions'[g.event.type], 1, Reached(g))
    BY DEF CalledSoFar, Reached
  <2>1. PICK f : f = stack[i]
    OBVIOUS
  <2>2. f.event = g.event /\ Reached(f) = Reached(g)
    <3>1. CASE i = h
      BY <3>1, <2>1, <1>2, <1>6 DEF Reached
    <3>2. CASE i # h
      BY <3>2, <2>1, <1>6
    <3> QED BY <3>1, <3>2
  <2>3. /\ Reached(f) <= Len(subscriptions[f.event.type])
        /\ Called(f.event) = SubSeq(subscriptions[f.event.type], 1, Reached(f))
    BY <2>1, <1>6 DEF IInv, CalledSoFar
  <2>4. Called(g.event)' = Called(g.event)
    BY <1>3
  <2> QED BY <2>2, <2>3, <2>4, <1>1
<1>8. Numbered' /\ log' \in Seq(Entry)
  BY <1>1, <1>3 DEF IInv, Shapes, Numbered
<1> QED BY <1>5, <1>6, <1>7, <1>8 DEF LogInv

(* The innermost emit is over: its event is evaluated, and after all that were
   stored since. *)
LEMMA EvaluatedStep ==
    ASSUME IInv, stack # <<>>, NEW kind \in {"decided", "undecided", "refused"},
           NEW by \in Rule \cup {NoRule}, Record(kind, Top.event, by), Pop,
           subscriptions' = subscriptions
    PROVE  LogInv'
<1>0. PICK e : e = Top.event
  OBVIOUS
<1> DEFINE n == Len(log) + 1
           h == Len(stack)
<1>1. /\ h \in DOMAIN stack /\ h \in Nat \ {0} /\ stack[h].event = e /\ e \in Event
      /\ e.id <= Cardinality(Entries("stored")) /\ e.id \in Nat
  <2>1. h \in DOMAIN stack /\ h \in Nat \ {0} /\ stack[h].event = e /\ e \in Event
    BY <1>0, TopFrame DEF IInv
  <2> QED BY <2>1 DEF IInv, Nested, Event
<1>2. Record(kind, e, by) /\ [kind |-> kind, event |-> e, by |-> by] \in Entry
  BY <1>0, <1>1 DEF Entry
<1>3. log \in Seq(Entry) /\ stack \in Seq(Frame)
  BY DEF IInv, Shapes
<1>4. /\ Numbered' /\ log' \in Seq(Entry)
      /\ Entries("stored")' = Entries("stored")
      /\ \A i \in Entries("stored") : i \in DOMAIN log /\ log'[i] = log[i]
  BY <1>1, <1>2, StoredStay
<1>5. /\ EvaluatedAt(e)' = EvaluatedAt(e) \cup {n}
      /\ \A x : x # e => EvaluatedAt(x)' = EvaluatedAt(x)
  BY <1>2, <1>3, EntriesGrow
<1>6. \A x : Called(x)' = Called(x)
  BY <1>2, <1>3, CalledGrows
<1>7. /\ stack' \in Seq(Frame) /\ DOMAIN stack' = DOMAIN stack \ {h}
      /\ Len(stack') = h - 1
      /\ \A i \in DOMAIN stack' : stack'[i] = stack[i]
  BY FramePops DEF IInv
<1>8. DOMAIN stack = 1 .. h /\ DOMAIN stack' = 1 .. h - 1
  BY <1>3, <1>7
<1>9. \A i \in DOMAIN stack' : i \in DOMAIN stack /\ stack[i].event # e
  BY <1>1, <1>7, FramesDiffer DEF IInv
<1>10. Nested'
  <2>1. ASSUME NEW i \in DOMAIN stack'
        PROVE  /\ stack'[i].event.id <= MaxEvents
               /\ stack'[i].event.id <= Cardinality(Entries("stored"))
               /\ stack'[i].step = "callback"
               /\ \A j \in 1 .. i - 1 : stack'[j].event.id < stack'[i].event.id
    <3>1. 1 .. i - 1 \subseteq DOMAIN stack' /\ i \in DOMAIN stack /\ i # h
      BY <1>1, <1>8
    <3> QED BY <3>1, <1>7 DEF IInv, Nested
  <2> QED BY <2>1, <1>4 DEF Nested
<1>11. CalledSoFar'
  <2> SUFFICES ASSUME NEW i \in DOMAIN stack', NEW g, g = stack'[i]
               PROVE  /\ Reached(g) <= Len(subscriptions'[g.event.type])
                      /\ Called(g.event)' = SubSeq(subscriptions'[g.event.type], 1, Reached(g))
    BY DEF CalledSoFar, Reached
  <2>1. i \in DOMAIN stack /\ g = stack[i]
    BY <1>7, <1>9
  <2>2. /\ Reached(g) <= Len(subscriptions[g.event.type])
        /\ Called(g.event) = SubSeq(subscriptions[g.event.type], 1, Reached(g))
    BY <2>1 DEF IInv, CalledSoFar
  <2>3. Called(g.event)' = Called(g.event)
    BY <1>6
  <2> QED BY <2>2, <2>3
<1>12. \A x : x # e => (UnderWay(x)' <=> UnderWay(x))
  BY <1>1, <1>7 DEF UnderWay
<1>13. Settled'
  <2> SUFFICES ASSUME NEW i \in Entries("stored")', NEW x, x = log'[i].event
               PROVE  IF UnderWay(x)' THEN EvaluatedAt(x)' = {}
                      ELSE \E k : EvaluatedAt(x)' = {k}
    BY DEF Settled
  <2>1. i \in Entries("stored") /\ x = log[i].event
    BY <1>4
  <2>2. IF UnderWay(x) THEN EvaluatedAt(x) = {} ELSE \E k : EvaluatedAt(x) = {k}
    BY <2>1 DEF IInv, Settled
  <2>3. CASE x = e
    <3>1. UnderWay(e)
      BY <1>1 DEF UnderWay
    <3>2. ~UnderWay(e)'
      BY <1>7, <1>9 DEF UnderWay
    <3>3. EvaluatedAt(e)' = {n}
      BY <3>1, <2>2, <2>3, <1>5
    <3> QED BY <3>2, <3>3, <2>3
  <2>4. CASE x # e
    BY <2>2, <2>4, <1>5, <1>12
  <2> QED BY <2>3, <2>4
<1>14. InnerFirst'
  <2> SUFFICES ASSUME NEW i \in Entries("stored")', NEW j \in Entries("stored")',
                      NEW x, x = log'[i].event, NEW y, y = log'[j].event,
                      NEW k \in EvaluatedAt(x)', i < j, j < k
               PROVE  \E l \in EvaluatedAt(y)' : l < k
    BY DEF InnerFirst
  <2>1. /\ i \in Entries("stored") /\ j \in Entries("stored")
        /\ x = log[i].event /\ y = log[j].event
    BY <1>4
  <2>2. EvaluatedAt(y) \subseteq EvaluatedAt(y)'
    BY <1>5
  <2>3. CASE k \in EvaluatedAt(x)
    <3>1. \E l \in EvaluatedAt(y) : l < k
      BY <2>1, <2>3 DEF IInv, InnerFirst
    <3> QED BY <3>1, <2>2
  <2>4. CASE k \notin EvaluatedAt(x)
    <3>1. x = e /\ k = n
      BY <2>4, <1>5
    <3>2. y.id > e.id /\ y.id \in Nat
      <4>1. y.id > e.id
        BY <2>1, <3>1 DEF IInv, Numbered
      <4>2. log[j] \in Entry
        BY <2>1, <1>3, <1>4
      <4> QED BY <4>1, <4>2, <2>1 DEF Entry, Event
    <3>3. ~UnderWay(y)
      <4> SUFFICES ASSUME NEW f \in DOMAIN stack, stack[f].event = y
                   PROVE  FALSE
        BY DEF UnderWay
      <4>1. f = h \/ f \in 1 .. h - 1
        BY <1>1, <1>8
      <4>2. f \in 1 .. h - 1 => stack[f].event.id < stack[h].event.id
        BY <1>1 DEF IInv, Nested
      <4>3. y.id <= e.id
        BY <4>1, <4>2, <3>2, <1>1
      <4> QED BY <4>3, <3>2, <1>1
    <3>4. PICK l : EvaluatedAt(y) = {l}
      BY <2>1, <3>3 DEF IInv, Settled
    <3>5. l \in DOMAIN log
      BY <3>4 DEF EvaluatedAt
    <3>6. l < n
      BY <3>5, <1>3
    <3> QED BY <3>1, <3>4, <3>6, <2>2
  <2> QED BY <2>3, <2>4
<1> QED BY <1>4, <1>7, <1>10, <1>11, <1>13, <1>14 DEF LogInv

LEMMA OnlyLogAndStack ==
    ASSUME IInv, log' = log, stack' = stack
    PROVE  Numbered' /\ Nested' /\ Settled' /\ InnerFirst'
<1>1. Entries("stored")' = Entries("stored")
  BY DEF Entries
<1>2. Numbered' /\ Nested'
  BY <1>1 DEF IInv, Numbered, Nested
<1>3. \A x : EvaluatedAt(x)' = EvaluatedAt(x) /\ UnderWay(x)' = UnderWay(x)
  BY DEF EvaluatedAt, UnderWay
<1>4. Settled'
  <2> SUFFICES ASSUME NEW i \in Entries("stored")', NEW x, x = log'[i].event
               PROVE  IF UnderWay(x)' THEN EvaluatedAt(x)' = {}
                      ELSE \E k : EvaluatedAt(x)' = {k}
    BY DEF Settled
  <2>1. i \in Entries("stored") /\ x = log[i].event
    BY <1>1
  <2> QED BY <2>1, <1>3 DEF IInv, Settled
<1>5. InnerFirst'
  <2> SUFFICES ASSUME NEW i \in Entries("stored")', NEW j \in Entries("stored")',
                      NEW x, x = log'[i].event, NEW y, y = log'[j].event,
                      NEW k \in EvaluatedAt(x)', i < j, j < k
               PROVE  \E l \in EvaluatedAt(y)' : l < k
    BY DEF InnerFirst
  <2>1. /\ i \in Entries("stored") /\ j \in Entries("stored")
        /\ x = log[i].event /\ y = log[j].event
    BY <1>1
  <2>2. EvaluatedAt(x)' = EvaluatedAt(x) /\ EvaluatedAt(y)' = EvaluatedAt(y)
    BY <1>3
  <2> QED BY <2>1, <2>2 DEF IInv, InnerFirst
<1> QED BY <1>2, <1>4, <1>5

(* A subscription comes after those that emits under way have reached. *)
LEMMA SubscribeStep ==
    ASSUME IInv, NEW type \in Types, NEW callback \in Callbacks,
           Subscribe(type, callback)
    PROVE  LogInv' /\ subscriptions' \in [Types -> Seq(Callbacks)]
<1>1. /\ subscriptions' = [subscriptions EXCEPT ![type] = Append(@, callback)]
      /\ stack' = stack /\ log' = log
      /\ subscriptions \in [Types -> Seq(Callbacks)]
      /\ stack \in Seq(Frame) /\ log \in Seq(Entry)
  BY DEF Subscribe, IInv, Shapes
<1>2. subscriptions' \in [Types -> Seq(Callbacks)]
  BY <1>1
<1>3. /\ Entries("stored")' = Entries("stored")
      /\ \A x : /\ EvaluatedAt(x)' = EvaluatedAt(x) /\ Called(x)' = Called(x)
                /\ UnderWay(x)' = UnderWay(x)
  BY <1>1 DEF Entries, EvaluatedAt, Called, CallsOf, UnderWay
<1>4. CalledSoFar'
  <2> SUFFICES ASSUME NEW i \in DOMAIN stack', NEW g, g = stack'[i]
               PROVE  /\ Reached(g) <= Len(subscriptions'[g.event.type])
                      /\ Called(g.event)' = SubSeq(subscriptions'[g.event.type], 1, Reached(g))
    BY DEF CalledSoFar, Reached
  <2> DEFINE list == subscriptions[g.event.type]
  <2>1. i \in DOMAIN stack /\ g = stack[i]
    BY <1>1
  <2>2. g \in Frame /\ g.event.type \in Types /\ Reached(g) \in Nat
    <3>1. g \in Frame
      BY <2>1, <1>1
    <3> QED BY <3>1 DEF Frame, Event, Reached
  <2>3. list \in Seq(Callbacks)
    BY <2>2, <1>1
  <2>4. Reached(g) <= Len(list) /\ Called(g.event) = SubSeq(list, 1, Reached(g))
    BY <2>1 DEF IInv, CalledSoFar
  <2>5. subscriptions'[g.event.type] \in {list, Append(list, callback)}
    BY <1>1, <2>2
  <2>6. /\ Len(Append(list, callback)) = Len(list) + 1
        /\ SubSeq(Append(list, callback), 1, Reached(g)) = SubSeq(list, 1, Reached(g))
    BY <2>2, <2>3, <2>4
  <2>7. Called(g.event)' = Called(g.event)
    BY <1>3
  <2>8. CASE subscriptions'[g.event.type] = list
    BY <2>4, <2>7, <2>8
  <2>9. CASE subscriptions'[g.event.type] = Append(list, callback)
    <3>1. Len(list) \in Nat
      BY <2>3
    <3> HIDE DEF list
    <3> QED BY <2>2, <2>4, <2>6, <2>7, <2>9, <3>1
  <2> QED BY <2>5, <2>8, <2>9
<1>5. Numbered' /\ Nested' /\ Settled' /\ InnerFirst'
  BY <1>1, OnlyLogAndStack
<1> QED BY <1>1, <1>2, <1>4, <1>5 DEF LogInv

LEMMA LogUntouched ==
    ASSUME IInv, UNCHANGED <<subscriptions, stack, log>>
    PROVE  LogInv' /\ subscriptions' \in [Types -> Seq(Callbacks)]
<1>1. Numbered' /\ Nested' /\ Settled' /\ InnerFirst'
  BY OnlyLogAndStack
<1>2. CalledSoFar'
  <2> SUFFICES ASSUME NEW i \in DOMAIN stack', NEW g, g = stack'[i]
               PROVE  /\ Reached(g) <= Len(subscriptions'[g.event.type])
                      /\ Called(g.event)' = SubSeq(subscriptions'[g.event.type], 1, Reached(g))
    BY DEF CalledSoFar, Reached
  <2>1. Called(g.event)' = Called(g.event)
    BY DEF Called, CallsOf, Entries
  <2> QED BY <2>1 DEF IInv, CalledSoFar
<1> QED BY <1>1, <1>2 DEF LogInv, IInv, Shapes

(* An entry that is no decision, or is that of a matching rule. *)
LEMMA DecidedStep ==
    ASSUME IInv, NEW kind, NEW e, NEW by,
           [kind |-> kind, event |-> e, by |-> by] \in Entry, Record(kind, e, by),
           kind = "decided" => by \in Rule /\ Outcome(by, e) = "true"
    PROVE  DecidedByMatch'
<1> DEFINE n == Len(log) + 1
<1>1. log \in Seq(Entry)
  BY DEF IInv, Shapes
<1>2. /\ \A i \in DOMAIN log : log'[i] = log[i]
      /\ log'[n] = [kind |-> kind, event |-> e, by |-> by]
  BY <1>1, Grows
<1>3. \A i \in Entries("decided")' : i \in Entries("decided") \/ (i = n /\ kind = "decided")
  BY <1>1, EntriesGrow
<1> HIDE DEF n
<1> SUFFICES ASSUME NEW i \in Entries("decided")'
             PROVE  log'[i].by \in Rule /\ Outcome(log'[i].by, log'[i].event) = "true"
  BY DEF DecidedByMatch
<1>4. CASE i \in Entries("decided")
  <2>1. log'[i] = log[i]
    BY <1>2, <1>4 DEF Entries
  <2> QED BY <1>4, <2>1 DEF IInv, DecidedByMatch
<1>5. CASE i = n /\ kind = "decided"
  BY <1>2, <1>5
<1> QED BY <1>3, <1>4, <1>5

(* What Route finds: the event on top, and the rule of it if any. *)
LEMMA RouteFinds ==
    ASSUME IInv, Notified, NEW e, e = Top.event, NEW rule, rule = Evaluate(e)
    PROVE  /\ stack # <<>> /\ e \in Event
           /\ rule \in Rule \cup {NoRule}
           /\ rule # NoRule => rule \in Rule /\ Outcome(rule, e) = "true"
<1>1. stack # <<>> /\ e \in Event
  BY TopFrame DEF IInv, Notified, Notifying
<1>2. \/ rule = NoRule
      \/ rule \in Rule /\ \E f \in Candidates(e) : rule = rules[f]
  BY EvaluatedToBest DEF IInv
<1> QED BY <1>1, <1>2 DEF Candidates

LEMMA RouteStep ==
    ASSUME IInv, Route \/ DecisionRefused
    PROVE  LogInv' /\ DecidedByMatch'
<1>1. PICK e : e = Top.event
  OBVIOUS
<1>2. PICK rule : rule = Evaluate(e)
  OBVIOUS
<1>3. PICK kind \in {"decided", "undecided", "refused"}, by \in {rule, NoRule} :
         /\ Record(kind, e, by) /\ (kind = "decided" => by = rule /\ rule # NoRule)
  <2>1. CASE Route
    <3>1. Record(IF rule = NoRule THEN "undecided" ELSE "decided", e, rule)
      BY <2>1, <1>1, <1>2 DEF Route
    <3> QED BY <3>1
  <2>2. CASE DecisionRefused
    BY <2>2, <1>1 DEF DecisionRefused
  <2> QED BY <2>1, <2>2
<1>4. Notified /\ Pop /\ subscriptions' = subscriptions
  BY DEF Route, DecisionRefused
<1>5. /\ stack # <<>> /\ e \in Event /\ by \in Rule \cup {NoRule}
      /\ kind = "decided" => by \in Rule /\ Outcome(by, e) = "true"
  BY <1>1, <1>2, <1>3, <1>4, RouteFinds
<1>6. [kind |-> kind, event |-> e, by |-> by] \in Entry
  BY <1>5 DEF Entry
<1>7. LogInv'
  BY <1>1, <1>3, <1>4, <1>5, EvaluatedStep
<1>8. DecidedByMatch'
  BY <1>3, <1>5, <1>6, DecidedStep
<1> QED BY <1>7, <1>8

------------------------------------------------------------------------------
(* The inductive invariant. *)

LEMMA InitHolds ==
    ASSUME Init
    PROVE  IInv
<1>1. Shapes
  BY DEF Init, Shapes
<1>2. log = <<>> /\ stack = <<>> /\ rules = <<>>
  BY DEF Init
<1>3. DOMAIN log = {} /\ DOMAIN stack = {} /\ DOMAIN rules = {}
  BY <1>2
<1>4. \A k : Entries(k) = {}
  BY <1>3 DEF Entries
<1>5. RulesInOrder /\ DecidedByMatch /\ Numbered
  BY <1>3, <1>4 DEF RulesInOrder, InOrder, DecidedByMatch, Numbered
<1>6. Nested /\ CalledSoFar /\ Settled /\ InnerFirst
  BY <1>3, <1>4 DEF Nested, CalledSoFar, Settled, InnerFirst
<1> QED BY <1>1, <1>5, <1>6 DEF IInv

LEMMA NextHolds ==
    ASSUME IInv, [Next]_vars
    PROVE  IInv'
<1> USE DEF IInv
<1>a. Shapes /\ RulesInOrder
  OBVIOUS
<1>b. ASSUME rules' \in Seq(Rule) /\ added' \in Nat /\ RulesInOrder',
             UNCHANGED <<subscriptions, stack, log>>
      PROVE  IInv'
  <2>1. LogInv' /\ subscriptions' \in [Types -> Seq(Callbacks)]
    BY <1>b, LogUntouched
  <2>2. DecidedByMatch'
    BY <1>b DEF DecidedByMatch, Entries
  <2> QED BY <1>b, <2>1, <2>2 DEF LogInv, Shapes
<1>c. ASSUME LogInv', DecidedByMatch', UNCHANGED <<rules, added>>,
             subscriptions' \in [Types -> Seq(Callbacks)]
      PROVE  IInv'
  <2>1. RulesInOrder'
    BY <1>c, <1>a DEF RulesInOrder, InOrder
  <2> QED BY <1>a, <1>c, <2>1 DEF LogInv, Shapes
<1> HIDE DEF IInv
<1>1. ASSUME NEW d \in Drafts, AddRule(d)
      PROVE  IInv'
  <2>1. rules' \in Seq(Rule) /\ added' \in Nat /\ RulesInOrder'
    BY <1>1, <1>a, RuleIsAdded
  <2> QED BY <1>1, <1>b, <2>1 DEF AddRule
<1>2. ASSUME NEW d \in Drafts, RemoveRule(d.name)
      PROVE  IInv'
  <2>1. rules' \in Seq(Rule) /\ added' \in Nat /\ RulesInOrder'
    BY <1>2, <1>a, RulesAreRemoved
  <2> QED BY <1>2, <1>b, <2>1 DEF RemoveRule
<1>3. ASSUME NEW d \in Drafts, NEW b \in BOOLEAN, SwitchRule(d.name, b)
      PROVE  IInv'
  <2>1. rules' \in Seq(Rule) /\ added' \in Nat /\ RulesInOrder'
    BY <1>3, <1>a, RulesAreSwitched
  <2> QED BY <1>3, <1>b, <2>1 DEF SwitchRule
<1>4. ASSUME NEW t \in Types, NEW c \in Callbacks, Subscribe(t, c)
      PROVE  IInv'
  <2>1. LogInv' /\ subscriptions' \in [Types -> Seq(Callbacks)]
    BY <1>4, SubscribeStep
  <2>2. log' = log /\ UNCHANGED <<rules, added>>
    BY <1>4 DEF Subscribe
  <2>3. DecidedByMatch'
    BY <2>2 DEF IInv, DecidedByMatch, Entries
  <2> QED BY <1>c, <2>1, <2>2, <2>3
<1>5. ASSUME NEW t \in Types, NEW data \in Payloads, Emit(t, data)
      PROVE  IInv'
  <2>1. LogInv'
    BY <1>5, EmitStep
  <2>2. /\ UNCHANGED <<rules, added, subscriptions>>
        /\ \E e \in Event : Record("stored", e, None)
    BY <1>5, <1>a, StoredIsCounted DEF Emit, Event
  <2>3. DecidedByMatch'
    BY <2>2, DecidedStep DEF Entry
  <2> QED BY <1>a, <1>c, <2>1, <2>2, <2>3 DEF Shapes
<1>6. ASSUME CallSubscriber
      PROVE  IInv'
  <2>1. LogInv'
    BY <1>6, CallSubscriberStep
  <2>2. PICK e, by : e = Top.event /\ by = subscriptions[Top.event.type][Top.next]
    OBVIOUS
  <2>3. /\ UNCHANGED <<rules, added, subscriptions>> /\ Record("called", e, by)
        /\ stack # <<>> /\ Top.next <= Len(subscriptions[e.type])
    BY <1>6, <2>2 DEF CallSubscriber, Notifying
  <2>4. e \in Event /\ by \in Callbacks
    <3>1. e \in Event /\ e.type \in Types /\ Top.next \in Nat \ {0}
      BY <1>a, <2>2, <2>3, TopFrame
    <3>2. subscriptions[e.type] \in Seq(Callbacks)
      BY <1>a, <3>1 DEF Shapes
    <3> QED BY <2>2, <2>3, <3>1, <3>2
  <2>5. DecidedByMatch'
    BY <2>3, <2>4, DecidedStep DEF Entry
  <2> QED BY <1>a, <1>c, <2>1, <2>3, <2>5 DEF Shapes
<1>7. ASSUME CallbackEnds
      PROVE  IInv'
  <2>1. LogInv'
    BY <1>7, CallbackEndsStep
  <2>2. log' = log /\ UNCHANGED <<rules, added, subscriptions>>
    BY <1>7 DEF CallbackEnds
  <2>3. DecidedByMatch'
    BY <2>2 DEF IInv, DecidedByMatch, Entries
  <2> QED BY <1>a, <1>c, <2>1, <2>2, <2>3 DEF Shapes
<1>8. ASSUME Route \/ DecisionRefused
      PROVE  IInv'
  <2>1. LogInv' /\ DecidedByMatch'
    BY <1>8, RouteStep
  <2>2. UNCHANGED <<rules, added, subscriptions>>
    BY <1>8 DEF Route, DecisionRefused
  <2> QED BY <1>a, <1>c, <2>1, <2>2 DEF Shapes
<1>9. CASE UNCHANGED vars
  <2>1. UNCHANGED <<rules, added>> /\ UNCHANGED <<subscriptions, stack, log>>
    BY <1>9 DEF vars
  <2>2. RulesInOrder'
    BY <1>a, <2>1 DEF RulesInOrder, InOrder
  <2> QED BY <1>a, <1>b, <2>1, <2>2 DEF Shapes
<1> QED BY <1>1, <1>2, <1>3, <1>4, <1>5, <1>6, <1>7, <1>8, <1>9 DEF Next

(* In every behaviour of the router the inductive invariant holds. *)
THEOREM Invariance == Spec => []IInv
BY InitHolds, NextHolds, PTL DEF Spec

------------------------------------------------------------------------------
(* The properties. *)

(* Type correctness: the lists and the stack keep their shapes, and only the
   innermost emit can be past the call of a subscriber. *)
THEOREM TypeCorrect == Spec => []TypeOK
<1>1. IInv => TypeOK
  <2> SUFFICES ASSUME IInv PROVE TypeOK
    OBVIOUS
  <2>1. Shapes /\ RulesInOrder /\ Nested
    BY DEF IInv
  <2>2. \A i \in DOMAIN rules : rules[i] \in Rule
    BY <2>1 DEF Shapes
  <2>3. \A t \in Types : \A i \in DOMAIN subscriptions[t] : subscriptions[t][i] \in Callbacks
    BY <2>1 DEF Shapes
  <2>4. \A i \in DOMAIN stack : stack[i] \in Frame
    BY <2>1 DEF Shapes
  <2>5. \A i \in DOMAIN log : log[i] \in Entry
    BY <2>1 DEF Shapes
  <2>6. \A i \in DOMAIN rules : rules[i].enabled \in BOOLEAN /\ rules[i].age < added
    BY <2>1, <2>2 DEF Rule, RulesInOrder
  <2>7. \A i \in DOMAIN stack :
           /\ stack[i].event.id <= MaxEvents /\ stack[i].next \in Nat \ {0}
           /\ stack[i].step = "callback" \/ (i = Len(stack) /\ stack[i].step = "notify")
    BY <2>1, <2>4 DEF Frame, Nested
  <2>8. \A i \in DOMAIN log :
           log[i].kind \in {"stored", "called", "decided", "undecided", "refused"}
    BY <2>5 DEF Entry
  <2> QED BY <2>3, <2>6, <2>7, <2>8 DEF TypeOK
<1> QED BY <1>1, Invariance, PTL

(* No decision rests on a condition that raised: the rule of a decision matches
   its event whichever truth those conditions are given. *)
THEOREM MatchesAreRobust == Spec => []MatchIsRobust
<1>1. IInv => MatchIsRobust
  <2> DEFINE says(i) == [j \in DOMAIN log[i].by.conditions |->
                            Check(log[i].by.conditions[j], log[i].event)]
  <2>1. ASSUME IInv, NEW i \in Entries("decided"),
               NEW truth \in [DOMAIN says(i) -> BOOLEAN],
               \A j \in DOMAIN says(i) :
                  says(i)[j] # "raises" => truth[j] = (says(i)[j] = "true")
        PROVE  Combined(log[i].by, truth)
    <3>1. PICK r, e : r = log[i].by /\ e = log[i].event
      OBVIOUS
    <3>2. r \in Rule /\ Outcome(r, e) = "true"
      BY <2>1, <3>1 DEF IInv, DecidedByMatch
    <3>3. DOMAIN says(i) = DOMAIN r.conditions
      BY <3>1
    <3>4. truth \in [DOMAIN r.conditions -> BOOLEAN]
      BY <2>1, <3>3
    <3>5. \A j \in DOMAIN r.conditions :
             Check(r.conditions[j], e) # "raises" =>
                 truth[j] = (Check(r.conditions[j], e) = "true")
      <4> TAKE j \in DOMAIN r.conditions
      <4>1. says(i)[j] = Check(r.conditions[j], e)
        BY <3>1
      <4> HIDE DEF says
      <4> QED BY <2>1, <3>3, <4>1
    <3> QED BY <3>1, <3>2, <3>4, <3>5, MatchHolds
  <2>2. IInv => \A i \in Entries("decided") :
                   \A truth \in [DOMAIN says(i) -> BOOLEAN] :
                       (\A j \in DOMAIN says(i) :
                           says(i)[j] # "raises" => truth[j] = (says(i)[j] = "true"))
                       => Combined(log[i].by, truth)
    <3> HIDE DEF says
    <3> QED BY <2>1
  <2> QED BY <2>2, Zenon DEF MatchIsRobust
<1> QED BY <1>1, Invariance, PTL

(* An event is evaluated after those its own subscribers emitted, and once the
   outermost call is over every stored event was evaluated exactly once. *)
THEOREM EmitsAreNested == Spec => []EmitsNest
<1>1. IInv => EmitsNest
  <2> SUFFICES ASSUME IInv PROVE EmitsNest
    OBVIOUS
  <2>1. \A i \in Entries("stored") :
           \A j \in Entries("stored"), k \in EvaluatedAt(log[i].event) :
               i < j /\ j < k => \E l \in EvaluatedAt(log[j].event) : l < k
    BY DEF IInv, InnerFirst
  <2>2. ASSUME stack = <<>>, NEW i \in Entries("stored")
        PROVE  Cardinality(EvaluatedAt(log[i].event)) = 1
    <3>1. ~UnderWay(log[i].event)
      BY <2>2 DEF UnderWay
    <3>2. PICK k : EvaluatedAt(log[i].event) = {k}
      BY <3>1 DEF IInv, Settled
    <3> QED BY <3>2, FS_Singleton
  <2> QED BY <2>1, <2>2 DEF EmitsNest
<1> QED BY <1>1, Invariance, PTL

(* The entries a step adds: of an event that is stored, of a subscriber that is
   called, or of the evaluation of the event on top. *)
LEMMA EntryIsAdded ==
    ASSUME IInv, [Next]_vars, NEW i \in DOMAIN log' \ DOMAIN log
    PROVE  \/ log'[i].kind \in {"stored", "called"}
           \/ /\ Notified /\ log'[i].event = Top.event
              /\ \/ log'[i].kind = "refused"
                 \/ /\ log'[i].by = Evaluate(Top.event)
                    /\ log'[i].kind = IF Evaluate(Top.event) = NoRule THEN "undecided"
                                      ELSE "decided"
<1>1. log \in Seq(Entry)
  BY DEF IInv, Shapes
<1>2. ASSUME NEW kind, NEW e, NEW by, Record(kind, e, by)
      PROVE  log'[i] = [kind |-> kind, event |-> e, by |-> by]
  <2>1. log' = Append(log, [kind |-> kind, event |-> e, by |-> by])
    BY <1>2 DEF Record
  <2>2. i = Len(log) + 1
    BY <1>1, <2>1
  <2> QED BY <1>1, <2>1, <2>2
<1>3. log' # log
  OBVIOUS
<1>4. \/ \E t \in Types, data \in Payloads : Emit(t, data)
      \/ CallSubscriber \/ Route \/ DecisionRefused
  BY <1>3 DEF Next, vars, AddRule, RemoveRule, SwitchRule, Subscribe, CallbackEnds
<1>5. CASE \E t \in Types, data \in Payloads : Emit(t, data)
  <2>1. \E e : Record("stored", e, None)
    BY <1>5 DEF Emit
  <2> QED BY <2>1, <1>2
<1>6. CASE CallSubscriber
  <2>1. \E e, by : Record("called", e, by)
    BY <1>6 DEF CallSubscriber
  <2> QED BY <2>1, <1>2
<1>7. CASE Route
  <2>1. /\ Notified
        /\ Record(IF Evaluate(Top.event) = NoRule THEN "undecided" ELSE "decided",
                  Top.event, Evaluate(Top.event))
    BY <1>7 DEF Route
  <2> QED BY <2>1, <1>2
<1>8. CASE DecisionRefused
  <2>1. Notified /\ Record("refused", Top.event, NoRule)
    BY <1>8 DEF DecisionRefused
  <2> QED BY <2>1, <1>2
<1> QED BY <1>4, <1>5, <1>6, <1>7, <1>8

(* A decision is that of the matching enabled rule of the highest priority, the
   oldest of several, and an event is left without one only if it is internal or
   no enabled rule matches. *)
THEOREM DecisionsAreBest == Spec => DecisionIsBest
<1>1. ASSUME IInv, [Next]_vars, NEW i \in DOMAIN log' \ DOMAIN log,
             NEW entry, entry = log'[i], NEW matching,
             matching = {r \in {rules[j] : j \in DOMAIN rules} :
                            r.enabled /\ Outcome(r, entry.event) = "true"}
      PROVE  /\ entry.kind = "decided" =>
                    /\ entry.by \in matching
                    /\ \A r \in matching :
                          \/ entry.by.priority > r.priority
                          \/ /\ entry.by.priority = r.priority
                             /\ entry.by.age <= r.age
             /\ entry.kind = "undecided" =>
                    entry.event.type = RoutingDecision \/ matching = {}
  <2>1. Shapes /\ RulesInOrder
    BY <1>1 DEF IInv
  <2>2. PICK e : e = Top.event
    OBVIOUS
  <2>3. \/ entry.kind \in {"stored", "called", "refused"}
        \/ /\ entry.event = e /\ entry.by = Evaluate(e)
           /\ entry.kind = IF Evaluate(e) = NoRule THEN "undecided" ELSE "decided"
    BY <1>1, <2>2, EntryIsAdded
  <2>4. CASE entry.kind \in {"stored", "called", "refused"}
    BY <2>4
  <2>5. CASE /\ entry.event = e /\ entry.by = Evaluate(e)
             /\ entry.kind = IF Evaluate(e) = NoRule THEN "undecided" ELSE "decided"
    <3>1. \A r \in matching : \E j \in Candidates(e) : r = rules[j]
      BY <1>1, <2>5 DEF Candidates
    <3>2. \A j \in Candidates(e) : rules[j] \in matching /\ rules[j].age \in Int
      <4>1. \A j \in DOMAIN rules : rules[j].age \in Int
        <5>1. \A j \in DOMAIN rules : rules[j] \in Rule
          BY <2>1 DEF Shapes
        <5> QED BY <5>1 DEF Rule
      <4> QED BY <4>1, <1>1, <2>5 DEF Candidates
    <3>3. CASE /\ Evaluate(e) = NoRule
               /\ e.type = RoutingDecision \/ Candidates(e) = {}
      BY <3>1, <3>3, <2>5
    <3>4. CASE /\ Evaluate(e) # NoRule
               /\ \E f \in Candidates(e) :
                    /\ Evaluate(e) = rules[f]
                    /\ \A j \in Candidates(e) : j = f \/ Precedes(rules[f], rules[j])
      <4>1. PICK f \in Candidates(e) :
                    /\ Evaluate(e) = rules[f]
                    /\ \A j \in Candidates(e) : j = f \/ Precedes(rules[f], rules[j])
        BY <3>4
      <4>2. entry.kind = "decided" /\ entry.by = rules[f] /\ entry.by \in matching
        BY <2>5, <3>2, <3>4, <4>1
      <4>3. ASSUME NEW r \in matching
            PROVE  \/ rules[f].priority > r.priority
                   \/ /\ rules[f].priority = r.priority
                      /\ rules[f].age <= r.age
        <5>1. PICK j \in Candidates(e) : r = rules[j]
          BY <3>1
        <5>2. j = f \/ Precedes(rules[f], r)
          BY <4>1, <5>1
        <5> QED BY <5>1, <5>2, <3>2 DEF Precedes
      <4> QED BY <4>2, <4>3
    <3> QED BY <2>1, <3>3, <3>4, EvaluatedToBest
  <2> QED BY <2>3, <2>4, <2>5
<1>2. IInv /\ [Next]_vars => [\A i \in DOMAIN log' \ DOMAIN log :
          LET entry == log'[i]
              matching == {r \in {rules[j] : j \in DOMAIN rules} :
                              r.enabled /\ Outcome(r, entry.event) = "true"}
          IN  /\ entry.kind = "decided" =>
                    /\ entry.by \in matching
                    /\ \A r \in matching :
                          \/ entry.by.priority > r.priority
                          \/ /\ entry.by.priority = r.priority
                             /\ entry.by.age <= r.age
              /\ entry.kind = "undecided" =>
                    entry.event.type = RoutingDecision \/ matching = {}]_vars
  BY <1>1
<1> QED BY <1>2, Invariance, PTL DEF Spec, DecisionIsBest

(* When an event is evaluated each subscription to its type was called exactly
   once and in order, those made meanwhile and those after one that raised. *)
THEOREM SubscribersAreCalledOnce == Spec => SubscribersCalledOnce
<1>1. ASSUME IInv, [Next]_vars, NEW i \in DOMAIN log' \ DOMAIN log,
             log'[i].kind \in {"decided", "undecided", "refused"}
      PROVE  Called(log'[i].event) = subscriptions[log'[i].event.type]
  <2>1. Notified /\ log'[i].event = Top.event
    BY <1>1, EntryIsAdded
  <2>2. PICK f : f = Top
    OBVIOUS
  <2>3. /\ stack # <<>> /\ f.step = "notify"
        /\ f.next > Len(subscriptions[f.event.type])
    BY <2>1, <2>2 DEF Notified, Notifying
  <2>4. /\ Len(stack) \in DOMAIN stack /\ f = stack[Len(stack)]
        /\ f.event.type \in Types /\ f.next \in Nat
    BY <1>1, <2>2, <2>3, TopFrame DEF IInv
  <2>5. subscriptions[f.event.type] \in Seq(Callbacks)
    BY <1>1, <2>4 DEF IInv, Shapes
  <2>6. /\ Reached(f) = f.next - 1 /\ Reached(f) <= Len(subscriptions[f.event.type])
        /\ Called(f.event) = SubSeq(subscriptions[f.event.type], 1, Reached(f))
    BY <1>1, <2>3, <2>4 DEF IInv, CalledSoFar, Reached
  <2>7. Reached(f) = Len(subscriptions[f.event.type])
    BY <2>3, <2>4, <2>5, <2>6
  <2>8. SubSeq(subscriptions[f.event.type], 1, Len(subscriptions[f.event.type]))
            = subscriptions[f.event.type]
    BY <2>5, SubSeqFull
  <2> QED BY <2>1, <2>2, <2>6, <2>7, <2>8
<1>2. IInv /\ [Next]_vars => [\A i \in DOMAIN log' \ DOMAIN log :
          log'[i].kind \in {"decided", "undecided", "refused"} =>
              Called(log'[i].event) = subscriptions[log'[i].event.type]]_vars
  BY <1>1
<1> QED BY <1>2, Invariance, PTL DEF Spec, SubscribersCalledOnce
===============================================================================
