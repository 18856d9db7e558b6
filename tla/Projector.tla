------------------------------ MODULE Projector ------------------------------
(* projection/projector.py over projection/neo4j.py: how one Neo4jProjector,
   called by the single thread of its ProcessContext, retries a projection and
   stops trying behind a circuit breaker.  Every Cypher statement runs in a
   transaction of its own, so a projection can stop between any two of them, and
   any of them may raise: because Neo4j is down, because it aborts a transaction
   that deadlocks with another agent's, or because the text built from the caller's
   data is no Cypher, which no repetition mends.  ProcessContext abstracts all of
   this to Project and ProjectGivesUp. *)
EXTENDS Naturals, Sequences

CONSTANTS
    Events, Entities,  \* identifiers
    NoEntity,          \* an event without entity_id
    EntityOf,          \* Event.entity_id
    ParentsOf,         \* Event.parent_ids
    Relations,         \* <<type, from_entity_id, to_entity_id>>
    Others,            \* events and entities that other agents' projectors project
    Unwritable,        \* those whose data Neo4j refuses, and such relations
    MaxRetries,        \* max_retries
    Threshold,         \* consecutive failures that open the breaker
    ResetAfter         \* how long it stays open, in ticks of the clock

ASSUME ConstantsAssumption ==
    /\ NoEntity \notin Entities
    /\ EntityOf \in [Events -> Entities \cup {NoEntity}]
    /\ ParentsOf \in [Events -> Seq(Events)]
    /\ Others \subseteq Events \cup Entities
    /\ Unwritable \subseteq Events \cup Entities \cup Relations
    /\ {MaxRetries, Threshold, ResetAfter} \subseteq Nat \ {0}

VARIABLES
    graph,      \* the nodes and relationships of the Neo4j database
    up,         \* whether Neo4j answers
    available,  \* _available
    consecutive_failures,  \* _consecutive_failures, not told apart once it
                           \* has reached Threshold
    breaker_open,          \* _circuit_breaker_open
    cooldown,   \* ticks until time.time() > _circuit_breaker_reset_time
    pc,         \* "idle", or where the project_* call in progress is
    attempt,    \* the loop variable
    op,         \* the statements of the current or last call
    todo,       \* those its current attempt still has to run
    returned,   \* what the last call returned
    began,      \* the graph when the last call began; only properties read it
    found       \* began and what others added since; only properties read it

breaker == <<consecutive_failures, breaker_open, cooldown>>
call == <<pc, attempt, op, todo, returned, began, found>>
vars == <<graph, up, available, breaker, call>>

------------------------------------------------------------------------------
(* Cypher statements: when everything matched is there, everything merged is
   created if absent; when it is not, the statement does nothing, silently. *)
EventNode(e) == <<"Event", e>>
EntityNode(n) == <<"Entity", n>>
(* A relationship: its type and the two nodes it connects. *)
Relationship(type, from, to) == <<type, from, to>>

create_event_node(e) == [match |-> {}, merge |-> {EventNode(e)}]
create_entity_node(n) == [match |-> {}, merge |-> {EntityNode(n)}]
link_event_to_entity(e, n) ==
    [match |-> {EventNode(e)},
     merge |-> {EntityNode(n), Relationship("AFFECTS", EventNode(e), EntityNode(n))}]
link_causal(p, c) ==
    [match |-> {EventNode(p), EventNode(c)},
     merge |-> {Relationship("CAUSED", EventNode(p), EventNode(c))}]
create_typed_relation(r) ==
    [match |-> {EntityNode(r[2]), EntityNode(r[3])},
     merge |-> {Relationship(r[1], EntityNode(r[2]), EntityNode(r[3]))}]

(* Nodes and relationships are SET with a property per key of the caller's data,
   whose name goes into the text as it is. *)
Refused == {create_event_node(e) : e \in Events \cap Unwritable}
           \cup {create_entity_node(n) : n \in Entities \cap Unwritable}
           \cup {create_typed_relation(r) : r \in Relations \cap Unwritable}

Run(s) == IF s.match \subseteq graph THEN graph \cup s.merge ELSE graph

\* Mutant: the entity is linked before the event is there.
project_event_linked_first(e) ==
    (IF EntityOf[e] = NoEntity THEN <<>> ELSE <<link_event_to_entity(e, EntityOf[e])>>)
    \o <<create_event_node(e)>>
    \o [i \in DOMAIN ParentsOf[e] |-> link_causal(ParentsOf[e][i], e)]

(* The body of each project_* attempt. *)
project_event(e) ==
    <<create_event_node(e)>>
    \o (IF EntityOf[e] = NoEntity THEN <<>>
        ELSE <<link_event_to_entity(e, EntityOf[e])>>)
    \o [i \in DOMAIN ParentsOf[e] |-> link_causal(ParentsOf[e][i], e)]
project_entity(n) == <<create_entity_node(n)>>
project_relation(r) == <<create_typed_relation(r)>>

Operations == {project_event(e) : e \in Events}
              \cup {project_entity(n) : n \in Entities}
              \cup {project_relation(r) : r \in Relations}

(* Of what others write, only nodes are ever matched here. *)
Foreign == {EventNode(e) : e \in Events \cap Others}
           \cup {EntityNode(n) : n \in Entities \cap Others}

Init == /\ graph \in SUBSET Foreign
        /\ up \in BOOLEAN
        /\ available = FALSE
        /\ consecutive_failures = 0 /\ breaker_open = FALSE /\ cooldown = 0
        /\ pc = "idle" /\ attempt = 0 /\ op = <<>> /\ todo = <<>>
        /\ returned = FALSE
        /\ began = graph /\ found = graph

------------------------------------------------------------------------------
(* connect forgets the failures counted so far but leaves an open breaker
   open. *)
Connect ==
    /\ pc = "idle"
    /\ available' = up
    /\ consecutive_failures' = IF up THEN 0 ELSE consecutive_failures
    /\ UNCHANGED <<graph, up, breaker_open, cooldown, call>>

Close ==
    /\ pc = "idle"
    /\ available' = FALSE
    /\ UNCHANGED <<graph, up, breaker, call>>

(* A project_* call begins; without a connection it returns False at once. *)
Begin(statements) ==
    /\ pc = "idle"
    /\ op' = statements
    /\ attempt' = 0
    /\ todo' = <<>>
    /\ returned' = FALSE
    /\ began' = graph
    /\ found' = graph
    /\ pc' = IF available THEN "attempt" ELSE "idle"
    /\ UNCHANGED <<graph, up, available, breaker>>

\* Mutants: no bound on attempts; no look at the breaker; no reset time.
ShouldRetryForever == breaker_open => cooldown = 0
ShouldRetryBlindly == attempt < MaxRetries
ShouldRetryNeverResets == attempt < MaxRetries /\ ~breaker_open

(* _should_retry: an open breaker is closed by the first attempt after its
   reset time. *)
ShouldRetry == /\ attempt < MaxRetries
               /\ breaker_open => cooldown = 0

StartAttempt ==
    /\ pc = "attempt"
    /\ ShouldRetry
    /\ breaker_open' = FALSE
    /\ cooldown' = 0
    /\ todo' = op
    /\ pc' = "run"
    /\ UNCHANGED <<graph, up, available, consecutive_failures, attempt, op,
                   returned, began, found>>

GiveUp ==
    /\ pc = "attempt"
    /\ ~ShouldRetry
    /\ pc' = "idle"
    /\ UNCHANGED <<graph, up, available, breaker, attempt, op, todo, returned,
                   began, found>>

\* Mutant: an error of the driver is not noticed.
RunStatementUnchecked ==
    /\ pc = "run"
    /\ graph' = IF up THEN Run(Head(todo)) ELSE graph
    /\ todo' = Tail(todo)
    /\ returned' = (todo' = <<>>)
    /\ pc' = IF todo' = <<>> THEN "idle" ELSE "run"
    /\ UNCHANGED <<up, available, breaker, attempt, op, began, found>>

\* Mutant: a success does not reset the count.
RunStatementCounting ==
    /\ pc = "run"
    /\ up /\ Head(todo) \notin Refused
    /\ graph' = Run(Head(todo))
    /\ todo' = Tail(todo)
    /\ returned' = (todo' = <<>>)
    /\ pc' = IF todo' = <<>> THEN "idle" ELSE "run"
    /\ UNCHANGED <<up, available, breaker, attempt, op, began, found>>

(* A statement succeeds, and after the last one _handle_success. *)
RunStatement ==
    /\ pc = "run"
    /\ up /\ Head(todo) \notin Refused
    /\ graph' = Run(Head(todo))
    /\ todo' = Tail(todo)
    /\ IF todo' # <<>>
         THEN UNCHANGED <<breaker, pc, returned>>
         ELSE /\ consecutive_failures' = 0
              /\ breaker_open' = FALSE
              /\ cooldown' = 0
              /\ returned' = TRUE
              /\ pc' = "idle"
    /\ UNCHANGED <<up, available, attempt, op, began, found>>

(* What a statement that raises may have done: all or nothing, and nothing when
   it is refused. *)
Outcomes(s) == {graph} \cup (IF s \in Refused THEN {} ELSE {Run(s)})

\* Mutant: = where the code has >=, so only the fifth failure opens the breaker.
StatementRaisesOpensOnce ==
    /\ pc = "run"
    /\ graph' \in Outcomes(Head(todo))
    /\ IF consecutive_failures + 1 = Threshold
         THEN /\ consecutive_failures' = Threshold
              /\ breaker_open' = TRUE
              /\ cooldown' = ResetAfter
         ELSE /\ consecutive_failures' =
                     IF consecutive_failures = Threshold THEN Threshold
                                                         ELSE consecutive_failures + 1
              /\ UNCHANGED <<breaker_open, cooldown>>
    /\ attempt' = attempt + 1
    /\ todo' = <<>>
    /\ pc' = "attempt"
    /\ UNCHANGED <<up, available, op, returned, began, found>>

(* A statement raises, for whatever reason, perhaps after it took effect:
   _handle_failure. *)
StatementRaises ==
    /\ pc = "run"
    /\ graph' \in Outcomes(Head(todo))
    /\ IF consecutive_failures + 1 >= Threshold
         THEN /\ consecutive_failures' = Threshold
              /\ breaker_open' = TRUE
              /\ cooldown' = ResetAfter
         ELSE /\ consecutive_failures' = consecutive_failures + 1
              /\ UNCHANGED <<breaker_open, cooldown>>
    /\ attempt' = attempt + 1
    /\ todo' = <<>>
    /\ pc' = "attempt"
    /\ UNCHANGED <<up, available, op, returned, began, found>>

------------------------------------------------------------------------------
(* The surroundings: the clock, Neo4j going down and coming back, and others. *)
Tick == /\ cooldown > 0
        /\ cooldown' = cooldown - 1
        /\ UNCHANGED <<graph, up, available, consecutive_failures, breaker_open,
                       call>>

GoDown == up /\ up' = FALSE /\ UNCHANGED <<graph, available, breaker, call>>
ComeUp == ~up /\ up' = TRUE /\ UNCHANGED <<graph, available, breaker, call>>

OthersProject ==
    /\ \E node \in Foreign \ graph :
           /\ graph' = graph \cup {node}
           /\ found' = found \cup {node}
    /\ UNCHANGED <<up, available, breaker, pc, attempt, op, todo, returned, began>>

Step == StartAttempt \/ GiveUp \/ RunStatement \/ StatementRaises

Next == \/ Connect \/ Close
        \/ \E statements \in Operations : Begin(statements)
        \/ Step
        \/ Tick \/ GoDown \/ ComeUp \/ OthersProject

Spec == Init /\ [][Next]_vars

(* Time passes, and a call that has begun runs on. *)
FairSpec == Spec /\ WF_vars(Step) /\ WF_vars(Tick)

------------------------------------------------------------------------------
(* The projector's fields stay of their declared types. *)
TypeOK == /\ up \in BOOLEAN /\ available \in BOOLEAN
          /\ consecutive_failures \in 0 .. Threshold
          /\ breaker_open \in BOOLEAN
          /\ cooldown \in 0 .. ResetAfter
          /\ pc \in {"idle", "attempt", "run"}
          /\ attempt \in 0 .. MaxRetries
          /\ returned \in BOOLEAN

(* Between attempts the breaker is open whenever the count has reached the
   threshold: nothing but a success or a new connection makes a failing
   projector forget, so after the reset time one failure reopens it. *)
BreakerTracksFailures ==
    pc # "run" /\ consecutive_failures >= Threshold => breaker_open

(* While the breaker is open and its reset time has not passed, no statement of
   a projection reaches Neo4j. *)
QuietWhileOpen ==
    [][breaker_open /\ cooldown > 0 => pc' # "run"]_vars

(* A call is one step of its contract, although it takes several attempts of
   several transactions and others write between them: True means that it merged
   all whose nodes were there to match when it began or that it merged itself;
   otherwise it leaves a part of it, and never anything else. *)
Contract == INSTANCE Projection WITH
    graph <- IF pc = "idle" THEN graph ELSE found,
    call <- IF pc = "idle" THEN {} ELSE {op[i] : i \in DOMAIN op},
    answer <- returned
ImplementsProjection == Contract!Spec

(* Data that Neo4j refuses fails on every attempt, MaxRetries times a call, and
   the next success must forget that.  So if the projector, connected, is called
   again and again while Neo4j stays up, and in the end only refused statements
   raise and a call that has one only follows a call that succeeded, then the
   breaker closes and stays closed.  (Two such calls in a row open it, and
   whatever is projected until the reset time is lost.) *)
HasRefused(statements) == \E i \in DOMAIN statements : statements[i] \in Refused
BreakerRecovers ==
    /\ <>[](up /\ available)
    /\ []<>(pc = "attempt")
    /\ <>[][StatementRaises => Head(todo) \in Refused]_vars
    /\ <>[][\A statements \in Operations :
               Begin(statements) /\ HasRefused(statements) => returned]_vars
    => <>[]~breaker_open
===============================================================================
