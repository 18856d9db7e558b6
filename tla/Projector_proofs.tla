---------------------------- MODULE Projector_proofs ----------------------------
(* What the projector and its circuit breaker guarantee for every set of events,
   entities and relations, every number of retries and every threshold. *)
EXTENDS Projector, SequenceTheorems, TLAPS

(* The statements that some operation runs. *)
Statements == {create_event_node(e) : e \in Events}
              \cup {create_entity_node(n) : n \in Entities}
              \cup {link_event_to_entity(e, n) : e \in Events, n \in Entities}
              \cup {link_causal(p, c) : p \in Events, c \in Events}
              \cup {create_typed_relation(r) : r \in Relations}

(* What a statement of an operation matches and another merges, the other merges
   before it and without a node to match. *)
Ordered(statements) ==
    \A i, j \in 1 .. Len(statements) :
        statements[i].match \cap statements[j].merge # {}
            => j < i /\ statements[j].match = {}

(* The operations are never empty, and in such an order. *)
WellFormed(statements) ==
    /\ statements \in Seq(Statements)
    /\ statements # <<>>
    /\ Ordered(statements)

(* All that the call in progress, or the last one, merges. *)
Own == UNION {op[i].merge : i \in 1 .. Len(op)}

(* The effect of a statement is in the graph, if its nodes were there when the
   call began or are nodes that the call merges. *)
Merged(s) == s.match \subseteq began \cup Own => s.merge \subseteq graph

(* The state of a call, between and during attempts. *)
CallInv ==
    /\ op = <<>> \/ WellFormed(op)
    /\ began \subseteq graph
    /\ pc # "idle" => op # <<>> /\ ~returned
    /\ pc = "run" =>
          /\ attempt < MaxRetries
          /\ ~breaker_open
          /\ todo \in Seq(Statements) /\ todo # <<>>
          /\ Len(todo) <= Len(op)
          /\ \A i \in 1 .. Len(todo) : todo[i] = op[Len(op) - Len(todo) + i]
          /\ \A i \in 1 .. Len(op) - Len(todo) : Merged(op[i])
    /\ pc = "idle" /\ returned => \A i \in 1 .. Len(op) : Merged(op[i])

(* The inductive invariant. *)
IInv == TypeOK /\ CallInv /\ BreakerTracksFailures

------------------------------------------------------------------------------
(* The statements and the operations. *)

(* No statement matches what it merges itself. *)
LEMMA StatementsApart == \A s \in Statements : s.match \cap s.merge = {}
<1>1. \A e, n : EventNode(e) # EntityNode(n)
  BY DEF EventNode, EntityNode
<1>2. \A e : Len(EventNode(e)) = 2 /\ Len(EntityNode(e)) = 2
  BY DEF EventNode, EntityNode
<1>3. \A t, x, y : Len(Relationship(t, x, y)) = 3
  BY DEF Relationship
<1>4. \A e \in Events, n \in Entities :
         link_event_to_entity(e, n).match \cap link_event_to_entity(e, n).merge = {}
  BY <1>1, <1>2, <1>3 DEF link_event_to_entity
<1>5. \A p \in Events, c \in Events : link_causal(p, c).match \cap link_causal(p, c).merge = {}
  BY <1>2, <1>3 DEF link_causal
<1>6. \A q \in Relations :
         create_typed_relation(q).match \cap create_typed_relation(q).merge = {}
  BY <1>2, <1>3 DEF create_typed_relation
<1> QED BY <1>4, <1>5, <1>6 DEF Statements, create_event_node, create_entity_node

(* An operation of one statement is well formed. *)
LEMMA SingleWellFormed ==
    ASSUME NEW s \in Statements PROVE WellFormed(<<s>>)
  BY StatementsApart DEF WellFormed, Ordered

(* What project_event runs: the node, then its entity, then its causes. *)
LEMMA EventWellFormed ==
    ASSUME NEW e \in Events PROVE WellFormed(project_event(e))
<1> DEFINE node == <<create_event_node(e)>>
           entity == IF EntityOf[e] = NoEntity THEN <<>>
                     ELSE <<link_event_to_entity(e, EntityOf[e])>>
           causes == [i \in DOMAIN ParentsOf[e] |-> link_causal(ParentsOf[e][i], e)]
<1>1. node \in Seq(Statements) /\ Len(node) = 1 /\ node[1] = create_event_node(e)
  BY DEF Statements
<1>2. /\ entity \in Seq(Statements) /\ Len(entity) \in {0, 1}
      /\ \A i \in 1 .. Len(entity) : entity[i] = link_event_to_entity(e, EntityOf[e])
  <2>1. CASE EntityOf[e] = NoEntity
    BY <2>1
  <2>2. CASE EntityOf[e] # NoEntity
    <3>1. EntityOf[e] \in Entities
      BY <2>2, ConstantsAssumption DEF ConstantsAssumption
    <3>2. link_event_to_entity(e, EntityOf[e]) \in Statements
      BY <3>1 DEF Statements
    <3>3. entity = <<link_event_to_entity(e, EntityOf[e])>>
      BY <2>2
    <3> QED BY <3>2, <3>3
  <2> QED BY <2>1, <2>2
<1>3. ParentsOf[e] \in Seq(Events)
  BY ConstantsAssumption DEF ConstantsAssumption
<1>4. /\ causes \in Seq(Statements)
      /\ \A i \in 1 .. Len(causes) : \E p \in Events : causes[i] = link_causal(p, e)
  <2>1. /\ Len(ParentsOf[e]) \in Nat /\ DOMAIN ParentsOf[e] = 1 .. Len(ParentsOf[e])
        /\ \A i \in 1 .. Len(ParentsOf[e]) : ParentsOf[e][i] \in Events
    BY <1>3
  <2>2. \A i \in 1 .. Len(ParentsOf[e]) : link_causal(ParentsOf[e][i], e) \in Statements
    BY <2>1 DEF Statements
  <2>3. causes \in [1 .. Len(ParentsOf[e]) -> Statements]
    BY <2>1, <2>2
  <2>4. causes \in Seq(Statements) /\ Len(causes) = Len(ParentsOf[e])
    BY <2>1, <2>3
  <2> QED BY <2>1, <2>4
<1> HIDE DEF node, entity, causes
<1>5. /\ node \o entity \in Seq(Statements)
      /\ Len(node \o entity) = 1 + Len(entity)
      /\ (node \o entity)[1] = create_event_node(e)
      /\ \A i \in 2 .. 1 + Len(entity) :
            i = 2 /\ (node \o entity)[i] = link_event_to_entity(e, EntityOf[e])
  BY <1>1, <1>2, ConcatProperties
<1> DEFINE all == (node \o entity) \o causes
<1>6. /\ all \in Seq(Statements)
      /\ Len(all) = 1 + Len(entity) + Len(causes)
      /\ all[1] = create_event_node(e)
      /\ \A i \in 2 .. 1 + Len(entity) : i = 2 /\ all[i] = link_event_to_entity(e, EntityOf[e])
      /\ \A i \in 2 + Len(entity) .. Len(all) : \E p \in Events : all[i] = link_causal(p, e)
  <2> DEFINE first == node \o entity
  <2>1. /\ first \in Seq(Statements) /\ Len(first) = 1 + Len(entity)
        /\ Len(entity) \in Nat /\ Len(causes) \in Nat
    BY <1>2, <1>4, <1>5
  <2>2. /\ all \in Seq(Statements) /\ Len(all) = Len(first) + Len(causes)
        /\ \A i \in 1 .. Len(first) + Len(causes) :
              all[i] = IF i <= Len(first) THEN first[i] ELSE causes[i - Len(first)]
    BY <1>4, <2>1, ConcatProperties
  <2> HIDE DEF all
  <2>3. \A i \in 1 .. 1 + Len(entity) : all[i] = first[i]
    BY <2>1, <2>2
  <2>4. ASSUME NEW i \in 2 + Len(entity) .. Len(all)
        PROVE  \E p \in Events : all[i] = link_causal(p, e)
    <3>1. i - Len(first) \in 1 .. Len(causes) /\ all[i] = causes[i - Len(first)]
      BY <2>1, <2>2
    <3> QED BY <1>4, <3>1
  <2> QED BY <1>5, <2>1, <2>2, <2>3, <2>4
<1>7. project_event(e) = all
  BY DEF project_event, all, node, entity, causes
<1> HIDE DEF all
<1>8. all[1].match = {}
  BY <1>6 DEF create_event_node
<1>9. \A i \in 2 .. Len(all) : i \in 2 .. 1 + Len(entity) \/ i \in 2 + Len(entity) .. Len(all)
  BY <1>2, <1>6
<1>10. \A i \in 2 .. Len(all) : /\ \A x \in all[i].match : \E c : x = EventNode(c)
                              /\ \A y \in all[i].merge : \A c : y # EventNode(c)
  <2>1. /\ \A c, n : EventNode(c) # EntityNode(n)
        /\ \A c, t, x, y : EventNode(c) # Relationship(t, x, y)
    <3>1. \A c, t, x, y : Len(EventNode(c)) = 2 /\ Len(Relationship(t, x, y)) = 3
      BY DEF EventNode, Relationship
    <3>2. \A c, n : EventNode(c)[1] = "Event" /\ EntityNode(n)[1] = "Entity"
      BY DEF EventNode, EntityNode
    <3> QED BY <3>1, <3>2
  <2>2. \A n : /\ \A x \in link_event_to_entity(e, n).match : \E c : x = EventNode(c)
              /\ \A y \in link_event_to_entity(e, n).merge : \A c : y # EventNode(c)
    BY <2>1 DEF link_event_to_entity
  <2>3. \A p : /\ \A x \in link_causal(p, e).match : \E c : x = EventNode(c)
              /\ \A y \in link_causal(p, e).merge : \A c : y # EventNode(c)
    BY <2>1 DEF link_causal
  <2> QED BY <1>6, <1>9, <2>2, <2>3
<1>11. Ordered(all)
  <2> SUFFICES ASSUME NEW i \in 1 .. Len(all), NEW j \in 1 .. Len(all),
                      NEW x \in all[i].match \cap all[j].merge
               PROVE  j < i /\ all[j].match = {}
    BY DEF Ordered
  <2>1. i # 1
    BY <1>8
  <2>2. i \in 2 .. Len(all)
    BY <1>6, <2>1
  <2>3. \E c : x = EventNode(c)
    BY <1>10, <2>2
  <2>4. j \notin 2 .. Len(all)
    BY <1>10, <2>3
  <2>5. j = 1
    BY <1>6, <2>4
  <2> QED BY <1>8, <2>2, <2>5
<1>12. all # <<>>
  BY <1>2, <1>4, <1>6
<1> QED BY <1>6, <1>7, <1>11, <1>12 DEF WellFormed

(* So is every operation. *)
LEMMA OperationsWellFormed == \A statements \in Operations : WellFormed(statements)
<1>1. \A n \in Entities : WellFormed(project_entity(n))
  BY SingleWellFormed DEF project_entity, Statements
<1>2. \A r \in Relations : WellFormed(project_relation(r))
  BY SingleWellFormed DEF project_relation, Statements
<1> QED BY <1>1, <1>2, EventWellFormed DEF Operations

------------------------------------------------------------------------------
(* The invariant. *)

(* Bounds are positive. *)
LEMMA Bounds == /\ MaxRetries \in Nat /\ MaxRetries > 0
                /\ Threshold \in Nat /\ Threshold > 0
                /\ ResetAfter \in Nat /\ ResetAfter > 0
  BY ConstantsAssumption DEF ConstantsAssumption

(* The empty sequence is the one of length 0. *)
LEMMA EmptyLen == ASSUME NEW S, NEW s \in Seq(S) PROVE s = <<>> <=> Len(s) = 0
  BY EmptySeq

(* The statement an attempt has come to. *)
LEMMA NextStatement ==
    ASSUME CallInv, pc = "run"
    PROVE  /\ Head(todo) \in Statements
           /\ Len(op) \in Nat
           /\ Len(todo) \in 1 .. Len(op)
           /\ Head(todo) = op[Len(op) - Len(todo) + 1]
           /\ Tail(todo) \in Seq(Statements)
           /\ Len(Tail(todo)) = Len(todo) - 1
           /\ \A i \in 1 .. Len(Tail(todo)) : Tail(todo)[i] = todo[i + 1]
<1>1. /\ todo \in Seq(Statements) /\ todo # <<>>
      /\ Len(todo) <= Len(op)
      /\ op \in Seq(Statements)
      /\ \A i \in 1 .. Len(todo) : todo[i] = op[Len(op) - Len(todo) + i]
  BY DEF CallInv, WellFormed
<1>2. Len(op) \in Nat /\ Len(todo) \in 1 .. Len(op)
  BY <1>1
<1>3. Head(todo) = todo[1]
  BY <1>1
<1> QED BY <1>1, <1>2, <1>3, HeadTailProperties

(* What is merged stays so while the graph grows. *)
LEMMA MergedStays ==
    ASSUME NEW s, Merged(s), graph \subseteq graph', UNCHANGED <<op, began>>
    PROVE  Merged(s)'
  BY DEF Merged, Own

(* The statements that ran before stay merged when the next one runs, and it is
   merged then. *)
LEMMA RunMerges ==
    ASSUME CallInv, pc = "run", graph' = Run(Head(todo)), UNCHANGED <<op, began>>
    PROVE  \A i \in 1 .. Len(op) - Len(todo) + 1 : Merged(op[i])'
<1>1. PICK k \in 1 .. Len(op) : /\ k = Len(op) - Len(todo) + 1
                                /\ Head(todo) = op[k]
  BY NextStatement
<1>2. \A i \in 1 .. k - 1 : Merged(op[i])
  BY <1>1, NextStatement DEF CallInv
<1>3. graph' = IF op[k].match \subseteq graph THEN graph \cup op[k].merge ELSE graph
  BY <1>1 DEF Run
<1>4. graph \subseteq graph'
  BY <1>3
<1>5. ASSUME op[k].match \subseteq began \cup Own PROVE op[k].match \subseteq graph
  <2> SUFFICES ASSUME NEW x \in op[k].match PROVE x \in graph
    OBVIOUS
  <2>1. CASE x \in began
    BY <2>1 DEF CallInv
  <2>2. CASE x \notin began
    <3>1. PICK j \in 1 .. Len(op) : x \in op[j].merge
      BY <1>5, <2>2 DEF Own
    <3>2. j < k /\ op[j].match = {}
      BY <1>1, <3>1, NextStatement DEF CallInv, WellFormed, Ordered
    <3>3. Merged(op[j])
      BY <1>1, <1>2, <3>2, NextStatement
    <3>4. op[j].merge \subseteq graph
      BY <3>2, <3>3 DEF Merged
    <3> QED BY <3>1, <3>4
  <2> QED BY <2>1, <2>2
<1>6. Merged(op[k])'
  <2> SUFFICES ASSUME op[k].match \subseteq began \cup Own PROVE op[k].merge \subseteq graph'
    BY DEF Merged, Own
  <2> QED BY <1>3, <1>5
<1>7. ASSUME NEW i \in 1 .. k - 1 PROVE Merged(op[i])'
  BY <1>2, <1>4, MergedStays
<1>8. \A i \in 1 .. k : i = k \/ i \in 1 .. k - 1
  BY <1>1, NextStatement
<1> QED BY <1>1, <1>6, <1>7, <1>8

(* A step of the surroundings, or of the connection, during a call or not. *)
LEMMA Undisturbed ==
    ASSUME CallInv, UNCHANGED <<pc, attempt, op, todo, returned, began>>,
           graph \subseteq graph', breaker_open' = breaker_open
    PROVE  CallInv'
<1>1. \A i : Merged(op[i]) => Merged(op[i])'
  BY MergedStays
<1> QED BY <1>1 DEF CallInv

(* Every step keeps the state of the call. *)
LEMMA CallKept ==
    ASSUME TypeOK, CallInv, [Next]_vars
    PROVE  CallInv'
<1> USE DEF breaker, call
<1>1. CASE \/ Connect \/ Close \/ Tick \/ GoDown \/ ComeUp \/ OthersProject
           \/ UNCHANGED vars
  BY <1>1, Undisturbed DEF Connect, Close, Tick, GoDown, ComeUp, OthersProject, vars
<1>2. ASSUME NEW statements \in Operations, Begin(statements) PROVE CallInv'
  <2>1. WellFormed(op)'
    BY <1>2, OperationsWellFormed DEF Begin, WellFormed, Ordered
  <2>2. op' # <<>>
    BY <2>1 DEF WellFormed
  <2>3. returned' = FALSE /\ pc' # "run" /\ began' = graph'
    BY <1>2 DEF Begin
  <2> QED BY <2>1, <2>2, <2>3 DEF CallInv
<1>3. CASE StartAttempt
  <2>1. /\ todo' = op /\ UNCHANGED <<op, graph, attempt, returned, began>>
        /\ pc' = "run" /\ breaker_open' = FALSE /\ attempt < MaxRetries
        /\ op # <<>> /\ WellFormed(op) /\ ~returned /\ began \subseteq graph
    BY <1>3 DEF StartAttempt, ShouldRetry, CallInv
  <2>2. op \in Seq(Statements) /\ Len(op) \in Nat
    BY <2>1 DEF WellFormed
  <2>3. WellFormed(op)'
    BY <2>1 DEF WellFormed, Ordered
  <2>4. \A i \in 1 .. Len(op') - Len(todo') : Merged(op[i])'
    BY <2>1, <2>2
  <2> QED BY <2>1, <2>2, <2>3, <2>4 DEF CallInv
<1>4. CASE GiveUp
  <2>1. UNCHANGED <<graph, op, returned, began>> /\ pc = "attempt" /\ pc' = "idle"
    BY <1>4 DEF GiveUp
  <2>2. ~returned
    BY <2>1 DEF CallInv
  <2> QED BY <2>1, <2>2 DEF CallInv, WellFormed, Ordered
<1>5. CASE RunStatement
  <2>1. /\ pc = "run" /\ graph' = Run(Head(todo)) /\ todo' = Tail(todo)
        /\ UNCHANGED <<op, attempt, began>> /\ graph \subseteq graph'
    BY <1>5 DEF RunStatement, Run
  <2>2. \A i \in 1 .. Len(op) - Len(todo) + 1 : Merged(op[i])'
    BY <2>1, RunMerges
  <2>3. WellFormed(op)' /\ began' \subseteq graph' /\ op' # <<>>
    BY <2>1 DEF CallInv, WellFormed, Ordered
  <2>4. CASE todo' # <<>>
    <3>1. /\ pc' = "run" /\ returned' = FALSE
          /\ attempt' < MaxRetries /\ ~breaker_open'
      BY <1>5, <2>4 DEF RunStatement, CallInv
    <3>2. \A i \in 1 .. Len(op') - Len(todo') : Merged(op[i])'
      BY <2>1, <2>2, NextStatement
    <3>3. \A i \in 1 .. Len(todo') : todo'[i] = op'[Len(op') - Len(todo') + i]
      <4>1. \A i \in 1 .. Len(todo) : todo[i] = op[Len(op) - Len(todo) + i]
        BY <2>1 DEF CallInv
      <4> QED BY <2>1, <4>1, NextStatement
    <3> QED BY <2>1, <2>3, <2>4, <3>1, <3>2, <3>3, NextStatement DEF CallInv
  <2>5. CASE todo' = <<>>
    <3>1. Len(todo) = 1
      <4>1. Len(Tail(todo)) = Len(todo) - 1 /\ Len(todo) \in 1 .. Len(op) /\ Len(op) \in Nat
        BY <2>1, NextStatement
      <4>2. Len(Tail(todo)) = 0
        BY <2>1, <2>5, NextStatement, EmptyLen
      <4> QED BY <4>1, <4>2
    <3>2. \A i \in 1 .. Len(op') : Merged(op[i])'
      BY <2>1, <2>2, <3>1, NextStatement
    <3>3. pc' = "idle"
      BY <1>5, <2>5 DEF RunStatement
    <3> QED BY <2>3, <3>2, <3>3 DEF CallInv
  <2> QED BY <2>4, <2>5
<1>6. CASE StatementRaises
  <2>1. /\ pc = "run" /\ pc' = "attempt" /\ UNCHANGED <<op, returned, began>>
        /\ graph' \in {graph, Run(Head(todo))}
    BY <1>6 DEF StatementRaises, Outcomes
  <2>2. graph \subseteq graph'
    BY <2>1 DEF Run
  <2> QED BY <2>1, <2>2 DEF CallInv, WellFormed, Ordered
<1> QED BY <1>1, <1>2, <1>3, <1>4, <1>5, <1>6 DEF Next, Step

(* The flags are set, and copied, but never computed. *)
Flags == /\ up \in BOOLEAN /\ available \in BOOLEAN
         /\ breaker_open \in BOOLEAN /\ returned \in BOOLEAN

LEMMA FlagsKept ==
    ASSUME Flags, [Next]_vars PROVE Flags'
<1> USE DEF Flags, breaker, call
<1>1. CASE \/ Connect \/ Close \/ Tick \/ GoDown \/ ComeUp \/ OthersProject
           \/ UNCHANGED vars
  BY <1>1, Zenon DEF Connect, Close, Tick, GoDown, ComeUp, OthersProject, vars
<1>2. ASSUME NEW statements \in Operations, Begin(statements) PROVE Flags'
  BY <1>2, Zenon DEF Begin
<1>3. CASE StartAttempt \/ GiveUp
  BY <1>3, Zenon DEF StartAttempt, GiveUp
<1>4. CASE RunStatement \/ StatementRaises
  BY <1>4, Zenon DEF RunStatement, StatementRaises
<1> QED BY <1>1, <1>2, <1>3, <1>4 DEF Next, Step

(* The numbers and the step stay within their bounds. *)
Counts == /\ consecutive_failures \in 0 .. Threshold
          /\ cooldown \in 0 .. ResetAfter
          /\ pc \in {"idle", "attempt", "run"}
          /\ attempt \in 0 .. MaxRetries

LEMMA CountsKept ==
    ASSUME Counts, CallInv, [Next]_vars PROVE Counts'
<1> USE Bounds DEF Counts, breaker, call
<1>1. CASE \/ Connect \/ Close \/ Tick \/ GoDown \/ ComeUp \/ OthersProject
           \/ UNCHANGED vars
  BY <1>1 DEF Connect, Close, Tick, GoDown, ComeUp, OthersProject, vars
<1>2. ASSUME NEW statements \in Operations, Begin(statements) PROVE Counts'
  BY <1>2 DEF Begin
<1>3. CASE StartAttempt \/ GiveUp
  BY <1>3 DEF StartAttempt, GiveUp
<1>4. CASE RunStatement
  BY <1>4 DEF RunStatement
<1>5. CASE StatementRaises
  <2>1. attempt < MaxRetries
    BY <1>5 DEF StatementRaises, CallInv
  <2> QED BY <1>5, <2>1 DEF StatementRaises
<1> QED BY <1>1, <1>2, <1>3, <1>4, <1>5 DEF Next, Step

(* So every step keeps the types of the projector's fields. *)
LEMMA TypesKept ==
    ASSUME TypeOK, CallInv, [Next]_vars
    PROVE  TypeOK'
<1>1. TypeOK <=> Flags /\ Counts
  BY Zenon DEF TypeOK, Flags, Counts
<1>2. Flags' /\ Counts'
  BY <1>1, FlagsKept, CountsKept
<1>3. TypeOK'
  BY <1>2, Zenon DEF TypeOK, Flags, Counts
<1> QED BY <1>3

(* Failures close no breaker, and what opens it is their count. *)
LEMMA BreakerKept ==
    ASSUME TypeOK, CallInv, BreakerTracksFailures, [Next]_vars
    PROVE  BreakerTracksFailures'
<1> USE Bounds DEF TypeOK, BreakerTracksFailures, breaker, call
<1>1. CASE Connect \/ Close
  BY <1>1 DEF Connect, Close
<1>2. CASE Tick \/ GoDown \/ ComeUp \/ OthersProject \/ UNCHANGED vars
  BY <1>2 DEF Tick, GoDown, ComeUp, OthersProject, vars
<1>3. ASSUME NEW statements \in Operations, Begin(statements) PROVE BreakerTracksFailures'
  BY <1>3 DEF Begin
<1>4. CASE StartAttempt \/ GiveUp
  BY <1>4 DEF StartAttempt, GiveUp
<1>5. CASE RunStatement
  BY <1>5 DEF RunStatement
<1>6. CASE StatementRaises
  BY <1>6 DEF StatementRaises
<1> QED BY <1>1, <1>2, <1>3, <1>4, <1>5, <1>6 DEF Next, Step

(* In every state of the projector its call is at a state it can be in, and the
   breaker tracks the failures. *)
THEOREM Invariance == Spec => []IInv
<1>1. Init => IInv
  <2> SUFFICES ASSUME Init PROVE IInv
    OBVIOUS
  <2>1. TypeOK /\ BreakerTracksFailures /\ CallInv
    <3>1. up \in BOOLEAN /\ available \in BOOLEAN /\ breaker_open \in BOOLEAN
          /\ returned \in BOOLEAN
      BY Zenon DEF Init
    <3> QED BY <3>1, Bounds DEF Init, TypeOK, BreakerTracksFailures, CallInv
  <2> QED BY <2>1 DEF IInv
<1>2. IInv /\ [Next]_vars => IInv'
  BY CallKept, TypesKept, BreakerKept DEF IInv
<1> QED BY <1>1, <1>2, PTL DEF Spec

(* The fields keep their types: the count of failures never passes the threshold,
   nor the attempts MaxRetries. *)
THEOREM TypeCorrect == Spec => []TypeOK
<1>1. IInv => TypeOK
  BY DEF IInv
<1> QED BY <1>1, Invariance, PTL

(* Whenever the count of failures is at the threshold and no attempt runs, the
   breaker is open. *)
THEOREM BreakerOpens == Spec => []BreakerTracksFailures
<1>1. IInv => BreakerTracksFailures
  BY DEF IInv
<1> QED BY <1>1, Invariance, PTL

(* What the call in progress, or the last one, has added to the graph it found:
   the effect of some of its statements, all of it. *)
Footprint ==
    /\ found \subseteq graph
    /\ \A x \in graph \ found : \E s \in {op[i] : i \in DOMAIN op} :
          x \in s.merge /\ s.match \subseteq graph /\ s.merge \subseteq graph

(* A statement of the call that runs adds all that it merges, or nothing. *)
LEMMA FootprintGrows ==
    ASSUME Footprint, NEW s \in {op[i] : i \in DOMAIN op}, graph' \in {graph, Run(s)},
           UNCHANGED <<op, found>>
    PROVE  Footprint'
<1>1. graph \subseteq graph' /\ found' \subseteq graph'
  BY DEF Footprint, Run
<1>2. ASSUME NEW x \in graph' \ found'
      PROVE  \E r \in {op[i] : i \in DOMAIN op} :
                x \in r.merge /\ r.match \subseteq graph' /\ r.merge \subseteq graph'
  <2>1. CASE x \in graph
    <3>1. PICK r \in {op[i] : i \in DOMAIN op} :
              x \in r.merge /\ r.match \subseteq graph /\ r.merge \subseteq graph
      BY <2>1 DEF Footprint
    <3> QED BY <1>1, <3>1
  <2>2. CASE x \notin graph
    <3>1. s.match \subseteq graph /\ graph' = graph \cup s.merge
      BY <2>2 DEF Run
    <3> QED BY <2>2, <3>1
  <2> QED BY <2>1, <2>2
<1> QED BY <1>1, <1>2 DEF Footprint

(* The statement that runs is one of the call. *)
LEMMA HeadOfCall ==
    ASSUME IInv, pc = "run"
    PROVE  Head(todo) \in {op[i] : i \in DOMAIN op}
<1>1. PICK k : /\ Len(op) \in Nat /\ k = Len(op) - Len(todo) + 1
               /\ Len(todo) \in 1 .. Len(op) /\ Head(todo) = op[k]
  BY NextStatement DEF IInv
<1>2. op \in Seq(Statements)
  BY NextStatement DEF IInv, CallInv, WellFormed
<1>3. DOMAIN op = 1 .. Len(op) /\ k \in 1 .. Len(op)
  BY <1>1, <1>2
<1> QED BY <1>1, <1>3

LEMMA FootprintKept ==
    ASSUME IInv, Footprint, [Next]_vars
    PROVE  Footprint'
<1>1. CASE UNCHANGED <<graph, op, found>>
  BY <1>1 DEF Footprint
<1>2. ASSUME NEW statements \in Operations, Begin(statements)
      PROVE  Footprint'
  BY <1>2 DEF Begin, Footprint
<1>3. CASE RunStatement \/ StatementRaises
  <2>1. /\ pc = "run" /\ graph' \in {graph, Run(Head(todo))} /\ UNCHANGED <<op, found>>
    BY <1>3 DEF RunStatement, StatementRaises, Outcomes
  <2> QED BY <2>1, HeadOfCall, FootprintGrows
<1>4. CASE OthersProject
  <2>1. PICK node : graph' = graph \cup {node} /\ found' = found \cup {node}
    BY <1>4 DEF OthersProject
  <2>2. op' = op
    BY <1>4 DEF OthersProject
  <2>3. ASSUME NEW x \in graph' \ found'
        PROVE  \E s \in {op[i] : i \in DOMAIN op} :
                  x \in s.merge /\ s.match \subseteq graph' /\ s.merge \subseteq graph'
    <3>1. x \in graph \ found
      BY <2>1, <2>3
    <3>2. PICK s \in {op[i] : i \in DOMAIN op} :
              x \in s.merge /\ s.match \subseteq graph /\ s.merge \subseteq graph
      BY <3>1 DEF Footprint
    <3> QED BY <2>1, <3>2
  <2> QED BY <2>1, <2>2, <2>3 DEF Footprint
<1> QED
  BY <1>1, <1>2, <1>3, <1>4
     DEF Next, Step, Connect, Close, StartAttempt, GiveUp, Tick, GoDown, ComeUp, call, vars

(* A graph g that exceeds what was there before by the effect of some of the
   statements S is the effect of a part of them. *)
LEMMA PartialEffect ==
    ASSUME NEW S, NEW before, NEW g, before \subseteq g,
           \A x \in g \ before : \E s \in S :
              x \in s.merge /\ s.match \subseteq g /\ s.merge \subseteq g
    PROVE  g = before \cup UNION {s.merge : s \in
                  {r \in S : r.match \subseteq g /\ r.merge \subseteq g}}
<1> DEFINE e == before \cup UNION {s.merge : s \in
                   {r \in S : r.match \subseteq g /\ r.merge \subseteq g}}
<1>1. ASSUME NEW x \in g PROVE x \in e
  OBVIOUS
<1>2. ASSUME NEW x \in e PROVE x \in g
  OBVIOUS
<1> QED BY <1>1, <1>2

(* The part of the call that is in the graph when it ends. *)
Done == {s \in {op[i] : i \in DOMAIN op} : s.match \subseteq graph /\ s.merge \subseteq graph}

(* It is all that the call has added. *)
LEMMA DoneIsTheEffect ==
    ASSUME Footprint PROVE graph = found \cup UNION {s.merge : s \in Done}
<1> DEFINE S == {op[i] : i \in DOMAIN op}
<1>1. /\ found \subseteq graph
      /\ \A x \in graph \ found : \E s \in S :
           x \in s.merge /\ s.match \subseteq graph /\ s.merge \subseteq graph
  BY DEF Footprint
<1>2. Done = {s \in S : s.match \subseteq graph /\ s.merge \subseteq graph}
  BY DEF Done
<1> HIDE DEF S
<1> QED BY <1>1, <1>2, PartialEffect

(* After a call that returned True nothing is missing from it. *)
LEMMA DoneIsComplete ==
    ASSUME CallInv, pc = "idle", returned, op # <<>>
    PROVE  \A s \in {op[i] : i \in DOMAIN op} :
              s.match \subseteq began \cup UNION {t.merge : t \in Done} => s \in Done
<1>1. op \in Seq(Statements) /\ began \subseteq graph
  BY DEF CallInv, WellFormed
<1>2. DOMAIN op = 1 .. Len(op)
  BY <1>1
<1>3. UNION {t.merge : t \in Done} \subseteq Own \cap graph
  <2> SUFFICES ASSUME NEW t \in Done PROVE t.merge \subseteq Own \cap graph
    OBVIOUS
  <2>1. PICK i \in 1 .. Len(op) : t = op[i]
    BY <1>2 DEF Done
  <2> QED BY <2>1 DEF Done, Own
<1> SUFFICES ASSUME NEW i \in 1 .. Len(op),
                    op[i].match \subseteq began \cup UNION {t.merge : t \in Done}
             PROVE  op[i] \in Done
  BY <1>2
<1>4. op[i].match \subseteq began \cup Own /\ op[i].match \subseteq graph
  BY <1>1, <1>3
<1>5. op[i].merge \subseteq graph
  BY <1>4 DEF CallInv, Merged
<1> QED BY <1>2, <1>4, <1>5 DEF Done

(* Whatever fails, and whatever others write meanwhile, a projection is the one
   step that its caller sees of it: all that could be merged was when it returns
   True, and otherwise some part. *)
THEOREM ImplementsContract == Spec => ImplementsProjection
<1> DEFINE cGraph == IF pc = "idle" THEN graph ELSE found
           cCall == IF pc = "idle" THEN {} ELSE {op[i] : i \in DOMAIN op}
<1>1. Init => Contract!Init /\ Footprint
  BY DEF Init, Contract!Init, Footprint
<1>2. IInv /\ Footprint /\ [Next]_vars => Footprint'
  BY FootprintKept
<1> DEFINE Whole == graph = found \cup UNION {s.merge : s \in Done}
           Finished == CallInv /\ pc = "idle" /\ returned /\ op # <<>>
           NothingMissing == \A s \in {op[i] : i \in DOMAIN op} :
               s.match \subseteq began \cup UNION {t.merge : t \in Done} => s \in Done
<1>3. Footprint => Whole
  BY DoneIsTheEffect
<1>4. Footprint' => Whole'
  BY <1>3, PTL
<1>5. Finished => NothingMissing
  BY DoneIsComplete
<1>6. Finished' => NothingMissing'
  BY <1>5, PTL
<1>7. IInv /\ Footprint /\ Footprint' /\ IInv' /\ [Next]_vars =>
        [Contract!Next]_<<cGraph, cCall, began, returned>>
  <2> SUFFICES ASSUME IInv, Footprint, Footprint', IInv', [Next]_vars
               PROVE  [Contract!Next]_<<cGraph, cCall, began, returned>>
    OBVIOUS
  <2>1. CASE UNCHANGED <<pc, graph, op, found, began, returned>>
    BY <2>1
  <2>2. ASSUME NEW statements \in Operations, Begin(statements)
        PROVE  Contract!Refused \/ Contract!Call(statements)
    <3>1. /\ pc = "idle" /\ op' = statements /\ returned' = FALSE /\ began' = graph
          /\ found' = graph /\ graph' = graph /\ pc' \in {"attempt", "idle"}
      BY <2>2 DEF Begin
    <3>2. CASE pc' = "idle"
      BY <3>1, <3>2 DEF Contract!Refused
    <3>3. CASE pc' = "attempt"
      BY <3>1, <3>3 DEF Contract!Call, Contract!StatementsOf
    <3> QED BY <3>1, <3>2, <3>3
  <2>3. ASSUME pc # "idle", pc' # "idle", UNCHANGED <<op, found, began, returned>>
        PROVE  UNCHANGED <<cGraph, cCall, began, returned>>
    BY <2>3
  <2>4. pc # "idle" => cCall # {}
    <3> SUFFICES ASSUME pc # "idle" PROVE {op[i] : i \in DOMAIN op} # {}
      OBVIOUS
    <3>1. op \in Seq(Statements) /\ op # <<>>
      BY DEF IInv, CallInv, WellFormed
    <3>2. 1 \in DOMAIN op
      BY <3>1
    <3> QED BY <3>2
  <2>5. ASSUME pc # "idle", pc' = "idle", UNCHANGED <<op, found, began>>
        PROVE  /\ Done' \in SUBSET cCall
               /\ \A s \in Done' : s.match \subseteq graph'
               /\ graph' = found \cup UNION {s.merge : s \in Done'}
    <3>1. graph' = found' \cup UNION {s.merge : s \in Done'}
      BY <1>4
    <3> QED BY <2>5, <3>1 DEF Done
  <2>6. CASE GiveUp
    <3>1. pc # "idle" /\ pc' = "idle" /\ UNCHANGED <<graph, op, found, began, returned>>
      BY <2>6 DEF GiveUp
    <3>2. returned = FALSE
      BY <3>1 DEF IInv, CallInv, TypeOK
    <3>3. Contract!GivesUp
      BY <2>4, <2>5, <3>1, <3>2 DEF Contract!GivesUp, Contract!Effect
    <3> QED BY <3>3 DEF Contract!Next
  <2>7. CASE RunStatement /\ pc' = "idle"
    <3>1. pc # "idle" /\ returned' = TRUE /\ UNCHANGED <<op, found, began>>
      BY <2>7 DEF RunStatement
    <3>2. \A s \in cCall : s.match \subseteq began \cup UNION {t.merge : t \in Done'} => s \in Done'
      <4>1. CallInv' /\ op # <<>>
        BY <3>1 DEF IInv, CallInv
      <4> QED BY <1>6, <2>7, <3>1, <4>1
    <3>3. Contract!Succeeds
      BY <2>4, <2>5, <2>7, <3>1, <3>2 DEF Contract!Succeeds, Contract!Effect, Contract!Complete
    <3> QED BY <3>3 DEF Contract!Next
  <2>8. CASE OthersProject
    <3>1. PICK node \in Foreign : graph' = graph \cup {node} /\ found' = found \cup {node}
      BY <2>8 DEF OthersProject
    <3>2. UNCHANGED <<pc, op, returned, began>>
      BY <2>8 DEF OthersProject
    <3>3. cGraph' = cGraph \cup {node}
      BY <3>1, <3>2
    <3>4. Contract!OthersProject
      BY <3>2, <3>3 DEF Contract!OthersProject
    <3> QED BY <3>4 DEF Contract!Next
  <2> QED BY <2>1, <2>2, <2>3, <2>6, <2>7, <2>8 DEF Next, Step, Connect, Close, StartAttempt,
             RunStatement, StatementRaises, Tick, GoDown, ComeUp, call, vars, Contract!Next
<1> QED BY <1>1, <1>2, <1>7, Invariance, PTL
        DEF Spec, ImplementsProjection, Contract!Spec

(* While the breaker is open and its reset time has not passed, no attempt runs:
   the breaker is closed before one begins, and only the failure that ends one
   opens it. *)
THEOREM OpenIsQuiet == Spec => QuietWhileOpen
<1>1. IInv /\ [Next]_vars => [breaker_open /\ cooldown > 0 => pc' # "run"]_vars
  <2> SUFFICES ASSUME IInv, Next, breaker_open, cooldown > 0 PROVE pc' # "run"
    BY DEF vars
  <2>1. pc # "run"
    BY DEF IInv, CallInv
  <2>2. ~StartAttempt
    BY DEF StartAttempt, ShouldRetry
  <2> QED BY <2>1, <2>2 DEF Next, Step, Connect, Close, Begin, GiveUp, RunStatement,
                            StatementRaises, Tick, GoDown, ComeUp, OthersProject, call
<1> QED BY <1>1, Invariance, PTL DEF Spec, QuietWhileOpen
===============================================================================
