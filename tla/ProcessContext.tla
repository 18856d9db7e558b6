--------------------------- MODULE ProcessContext ---------------------------
(* The emit pipeline of crewcontext/context.py: agents, each a ProcessContext
   of its own with its own router, share the PostgreSQL tables written by
   store/postgres.py and the Neo4j graph written through the projector.  A call
   is a sequence of steps, one per statement that touches shared state, and the
   steps of different agents interleave.  A database transaction takes effect
   atomically, at its commit. *)
EXTENDS Naturals, FiniteSets

CONSTANTS
    Agents,           \* callers, one ProcessContext each
    Processes,        \* business processes
    ProcessOf,        \* ProcessContext.process_id of an agent
    Types,            \* event types a caller may emit
    RoutingDecision,  \* the internal type "routing.decision"
    SystemRouter,     \* the agent_id of routing decisions, "system.router"
    Keys, NoKey,      \* idempotency keys, and their absence
    Routed,           \* <<agent, type>>: some enabled rule of the agent matches
    MaxBatch,         \* _MAX_BATCH_SIZE
    Faults,           \* the kinds of failure that may happen, of FaultKinds
    MaxEvents,        \* bound: no event is constructed from this id on
    MaxParents,       \* bound: parents named by one emit
    MaxFaults         \* bound: failures in a behaviour

(* rollback: the database refuses a lookup or a save, which leaves nothing;
   unacked: the connection is lost before the commit is answered; crash: the
   caller's process dies; graph: a projection gives up part-way. *)
FaultKinds == {"rollback", "unacked", "crash", "graph"}

ASSUME ConstantsAssumption ==
    /\ ProcessOf \in [Agents -> Processes]
    /\ SystemRouter \notin Agents
    /\ NoKey \notin Keys
    /\ Routed \subseteq Agents \X (Types \cup {RoutingDecision})
    /\ MaxBatch \in Nat /\ MaxEvents \in Nat
    /\ MaxParents \in Nat /\ MaxFaults \in Nat
    /\ Faults \subseteq FaultKinds

VARIABLES
    events,            \* table events
    causal_links,      \* table causal_links: <<parent, child>>
    idempotency_keys,  \* table idempotency_keys
    orphans,           \* transactions whose client no longer waits for them
    nodes, edges,      \* the graph: :Event nodes and :CAUSED edges
    notified,          \* events some subscriber callback was called with
    known,             \* events whose Event object some caller holds
    nextId,            \* generate_id: identifiers are fresh, and so ordered
    faults,            \* failures so far
    pc,                \* the step each agent's call is at
    request,           \* the arguments of its call
    tx,                \* the transaction it writes and then projects
    result             \* the Event objects its call will return

store == <<events, causal_links, idempotency_keys, orphans>>
graph == <<nodes, edges>>
local == <<pc, request, tx, result>>
vars == <<store, graph, notified, known, nextId, faults, local>>

------------------------------------------------------------------------------
(* Rows, transactions and Event objects.  Event ids stand in the order
   generate_id produced them. *)
EventRow == [id : Nat, type : Types \cup {RoutingDecision},
             process_id : Processes, agent_id : Agents \cup {SystemRouter},
             idempotency_key : Keys \cup {NoKey}]
KeyRow == [process_id : Processes, idempotency_key : Keys, event_id : Nat]
Transaction == [rows : SUBSET EventRow, links : SUBSET (Nat \X Nat),
                keys : SUBSET KeyRow]
Event == [id : Nat, parent_ids : SUBSET Nat]
Request == [type : Types \cup {RoutingDecision}, key : Keys \cup {NoKey}, parents : SUBSET Nat]

IdsOf(rows) == {r.id : r \in rows}
NoTx == [rows |-> {}, links |-> {}, keys |-> {}]
NoRequest == [type |-> RoutingDecision, key |-> NoKey, parents |-> {}]

Row(id, type, process, agent, key) ==
    [id |-> id, type |-> type, process_id |-> process, agent_id |-> agent,
     idempotency_key |-> key]

\* Mutants: the empty key is inserted too; no key is inserted at all.
SaveEventAnyKey(row, parents) ==
    [rows |-> {row}, links |-> parents \X {row.id},
     keys |-> {[process_id |-> row.process_id,
                idempotency_key |-> row.idempotency_key, event_id |-> row.id]}]
SaveEventNoKey(row, parents) ==
    [rows |-> {row}, links |-> parents \X {row.id}, keys |-> {}]

(* The statements of save_event: the event, its key if it has one, its causal
   links. *)
SaveEvent(row, parents) ==
    [rows |-> {row},
     links |-> parents \X {row.id},
     keys |-> IF row.idempotency_key = NoKey THEN {}
              ELSE {[process_id |-> row.process_id,
                     idempotency_key |-> row.idempotency_key,
                     event_id |-> row.id]}]

(* The statements of save_events: the rows only, all or nothing. *)
SaveEvents(rows) == [rows |-> rows, links |-> {}, keys |-> {}]

SameKey(k, l) == /\ k.process_id = l.process_id
                 /\ k.idempotency_key = l.idempotency_key

\* Mutant: ON CONFLICT DO UPDATE.
InsertKeysOverwriting(t) == t.keys \cup
    {l \in idempotency_keys : \A k \in t.keys : ~SameKey(k, l)}

(* INSERT INTO idempotency_keys ... ON CONFLICT DO NOTHING: a key that is
   bound stays bound to the event it has, and no error is raised. *)
InsertKeys(t) == idempotency_keys \cup
    {k \in t.keys : \A l \in idempotency_keys : ~SameKey(k, l)}

(* Every causal link references stored events (the REFERENCES clauses). *)
LinksResolve(t) ==
    \A l \in t.links : l[1] \in IdsOf(events \cup t.rows)

(* COMMIT of a transaction. *)
Commit(t) ==
    /\ LinksResolve(t)
    /\ events' = events \cup t.rows
    /\ causal_links' = causal_links \cup t.links
    /\ idempotency_keys' = InsertKeys(t)

Fault(kind) == /\ kind \in Faults
               /\ faults < MaxFaults
               /\ faults' = faults + 1

(* The call is over, by return or by exception. *)
Leave(a) == /\ pc' = [pc EXCEPT ![a] = "idle"]
            /\ request' = [request EXCEPT ![a] = NoRequest]
            /\ tx' = [tx EXCEPT ![a] = NoTx]
            /\ result' = [result EXCEPT ![a] = {}]

Goto(a, step) == pc' = [pc EXCEPT ![a] = step]

Init == /\ events = {} /\ causal_links = {} /\ idempotency_keys = {}
        /\ orphans = {}
        /\ nodes = {} /\ edges = {}
        /\ notified = {} /\ known = {}
        /\ nextId = 1
        /\ faults = 0
        /\ pc = [a \in Agents |-> "idle"]
        /\ request = [a \in Agents |-> NoRequest]
        /\ tx = [a \in Agents |-> NoTx]
        /\ result = [a \in Agents |-> {}]

------------------------------------------------------------------------------
(* emit *)

(* A caller may name as causes any events whose Event objects it holds. *)
ParentSets == {ps \in SUBSET known : Cardinality(ps) <= MaxParents}

Emit(a, type, key, parents) ==
    /\ pc[a] = "idle"
    /\ request' = [request EXCEPT ![a] =
                      [type |-> type, key |-> key, parents |-> parents]]
    /\ Goto(a, IF key = NoKey THEN "construct" ELSE "lookup")
    /\ UNCHANGED <<store, graph, notified, known, nextId, faults, tx, result>>

\* Mutant: the lookup forgets the process.
ReturnExistingOfAnyProcess(a) ==
    /\ pc[a] = "lookup"
    /\ \E k \in idempotency_keys :
           /\ k.idempotency_key = request[a].key
           /\ result' = [result EXCEPT ![a] =
                            {[id |-> k.event_id, parent_ids |-> {}]}]
    /\ Goto(a, "returned")
    /\ UNCHANGED <<store, graph, notified, known, nextId, faults, request, tx>>

(* The caller's key is bound: emit returns an Event rebuilt from the row it is
   bound to, which carries no parent_ids. *)
ReturnExisting(a) ==
    /\ pc[a] = "lookup"
    /\ \E k \in idempotency_keys :
           /\ k.process_id = ProcessOf[a]
           /\ k.idempotency_key = request[a].key
           /\ result' = [result EXCEPT ![a] =
                            {[id |-> k.event_id, parent_ids |-> {}]}]
    /\ Goto(a, "returned")
    /\ UNCHANGED <<store, graph, notified, known, nextId, faults, request, tx>>

MissKey(a) ==
    /\ pc[a] = "lookup"
    /\ \A k \in idempotency_keys :
           ~(/\ k.process_id = ProcessOf[a]
             /\ k.idempotency_key = request[a].key)
    /\ Goto(a, "construct")
    /\ UNCHANGED <<store, graph, notified, known, nextId, faults,
                   request, tx, result>>

(* The lookup fails, so emit raises. *)
LookupRaises(a) ==
    /\ pc[a] = "lookup"
    /\ Fault("rollback")
    /\ Leave(a)
    /\ UNCHANGED <<store, graph, notified, known, nextId>>

(* The registered schema refuses the data: emit raises. *)
RejectInvalid(a) ==
    /\ pc[a] = "construct"
    /\ Leave(a)
    /\ UNCHANGED <<store, graph, notified, known, nextId, faults>>

\* Mutant: subscribers are notified before the event is saved.
ConstructNotifiesFirst(a) ==
    /\ pc[a] = "construct"
    /\ nextId <= MaxEvents
    /\ nextId' = nextId + 1
    /\ notified' = notified \cup {nextId}
    /\ tx' = [tx EXCEPT ![a] =
                 SaveEvent(Row(nextId, request[a].type, ProcessOf[a], a,
                               request[a].key), request[a].parents)]
    /\ result' = [result EXCEPT ![a] =
                     {[id |-> nextId, parent_ids |-> request[a].parents]}]
    /\ Goto(a, "save")
    /\ UNCHANGED <<store, graph, known, faults, request>>

\* Mutant: the projection comes before the save.
ConstructProjectsFirst(a) ==
    /\ pc[a] = "construct"
    /\ nextId <= MaxEvents
    /\ nextId' = nextId + 1
    /\ nodes' = nodes \cup {nextId}
    /\ tx' = [tx EXCEPT ![a] =
                 SaveEvent(Row(nextId, request[a].type, ProcessOf[a], a,
                               request[a].key), request[a].parents)]
    /\ result' = [result EXCEPT ![a] =
                     {[id |-> nextId, parent_ids |-> request[a].parents]}]
    /\ Goto(a, "save")
    /\ UNCHANGED <<store, edges, notified, known, faults, request>>

Construct(a) ==
    /\ pc[a] = "construct"
    /\ nextId <= MaxEvents
    /\ nextId' = nextId + 1
    /\ tx' = [tx EXCEPT ![a] =
                 SaveEvent(Row(nextId, request[a].type, ProcessOf[a], a,
                               request[a].key), request[a].parents)]
    /\ result' = [result EXCEPT ![a] =
                     {[id |-> nextId, parent_ids |-> request[a].parents]}]
    /\ Goto(a, "save")
    /\ UNCHANGED <<store, graph, notified, known, faults, request>>

------------------------------------------------------------------------------
(* The writes, shared by emit, _persist_routing_decision and batch_emit. *)
SavePoints == {"save", "save_decision", "save_batch"}
ProjectPoints == {"project", "project_decision", "project_batch"}

AfterSave(step) == CASE step = "save"          -> "project"
                     [] step = "save_decision" -> "project_decision"
                     [] step = "save_batch"    -> "project_batch"

\* Mutant: emit does not notify.
AfterProjectSilent(step) == IF step = "project" THEN "route" ELSE "returned"
AfterProject(step) == IF step = "project" THEN "notify" ELSE "returned"

TooLarge(t) == Cardinality(t.rows) > MaxBatch

(* save_events raises on too many events before it touches the database; on
   none at all it returns (the transaction is then NoTx). *)
RefuseBatch(a) ==
    /\ pc[a] = "save_batch"
    /\ TooLarge(tx[a])
    /\ Leave(a)
    /\ UNCHANGED <<store, graph, notified, known, nextId, faults>>

Writes(a) == /\ pc[a] \in SavePoints
             /\ pc[a] = "save_batch" => ~TooLarge(tx[a])

(* A transaction reaches its COMMIT unless an orphan holds the row of one of
   its keys: its INSERT waits for that orphan to end. *)
ReachesCommit(a) ==
    /\ Writes(a)
    /\ \A o \in orphans : \A k \in o.keys, l \in tx[a].keys : ~SameKey(k, l)

\* Mutant: a save that finds its key bound, no ON CONFLICT DO NOTHING, is repeated.
SaveRepeated(a) ==
    /\ ReachesCommit(a)
    /\ IF \E k \in idempotency_keys, l \in tx[a].keys : SameKey(k, l)
         THEN UNCHANGED <<events, causal_links, idempotency_keys, pc>>
         ELSE Commit(tx[a]) /\ Goto(a, AfterSave(pc[a]))
    /\ UNCHANGED <<orphans, graph, notified, known, nextId, faults,
                   request, tx, result>>

Save(a) ==
    /\ ReachesCommit(a)
    /\ Commit(tx[a])
    /\ Goto(a, AfterSave(pc[a]))
    /\ UNCHANGED <<orphans, graph, notified, known, nextId, faults,
                   request, tx, result>>

\* Mutant: every statement commits by itself, so a failure leaves the key behind.
SaveRollsBackAllButKey(a) ==
    /\ Writes(a)
    /\ tx[a] # NoTx
    /\ Fault("rollback")
    /\ idempotency_keys' = InsertKeys(tx[a])
    /\ Leave(a)
    /\ UNCHANGED <<events, causal_links, orphans, graph, notified, known, nextId>>

(* The database refuses the transaction, the caller's connection is lost before
   COMMIT, or a reference does not resolve: nothing is stored, the call
   raises. *)
SaveRollsBack(a) ==
    /\ Writes(a)
    /\ tx[a] # NoTx
    /\ IF LinksResolve(tx[a]) THEN Fault("rollback") ELSE UNCHANGED faults
    /\ Leave(a)
    /\ UNCHANGED <<store, graph, notified, known, nextId>>

(* The connection is lost after COMMIT was sent: the call raises, and the
   server ends the transaction later, one way or the other. *)
SaveUnacknowledged(a) ==
    /\ ReachesCommit(a)
    /\ tx[a] # NoTx
    /\ Fault("unacked")
    /\ orphans' = orphans \cup {tx[a]}
    /\ Leave(a)
    /\ UNCHANGED <<events, causal_links, idempotency_keys, graph, notified,
                   known, nextId>>

OrphanCommits(t) ==
    /\ Commit(t)
    /\ orphans' = orphans \ {t}
    /\ UNCHANGED <<graph, notified, known, nextId, faults, local>>

OrphanAborts(t) ==
    /\ orphans' = orphans \ {t}
    /\ UNCHANGED <<events, causal_links, idempotency_keys, graph, notified,
                   known, nextId, faults, local>>

(* project_event: MERGE the node, then for each parent MATCH both nodes and
   MERGE the edge, which does nothing when the parent was never projected. *)
Project(a) ==
    /\ pc[a] \in ProjectPoints
    /\ nodes' = nodes \cup IdsOf(tx[a].rows)
    /\ edges' = edges \cup {l \in tx[a].links : l[1] \in nodes'}
    /\ Goto(a, AfterProject(pc[a]))
    /\ UNCHANGED <<store, notified, known, nextId, faults, request, tx, result>>

\* Mutant: a failed projection is raised to the caller.
ProjectRaises(a) ==
    /\ pc[a] \in ProjectPoints
    /\ Fault("graph")
    /\ Leave(a)
    /\ UNCHANGED <<store, graph, notified, known, nextId>>

(* The projector is not connected, its circuit breaker is open or its retries
   ran out, after some of the statements; the call goes on. *)
ProjectGivesUp(a) ==
    /\ pc[a] \in ProjectPoints
    /\ Fault("graph")
    /\ \E ns \in SUBSET IdsOf(tx[a].rows) :
           /\ nodes' = nodes \cup ns
           /\ \E ls \in SUBSET {l \in tx[a].links : {l[1], l[2]} \subseteq nodes'} :
                  edges' = edges \cup ls
    /\ Goto(a, AfterProject(pc[a]))
    /\ UNCHANGED <<store, notified, known, nextId, request, tx, result>>

------------------------------------------------------------------------------
(* What follows a committed emit. *)

(* notify_subscribers: every callback of the agent's router for the type is
   called with the Event object; what a callback raises is swallowed. *)
Notify(a) ==
    /\ pc[a] = "notify"
    /\ notified' = notified \cup IdsOf(tx[a].rows)
    /\ known' = known \cup IdsOf(tx[a].rows)
    /\ Goto(a, "route")
    /\ UNCHANGED <<store, graph, nextId, faults, request, tx, result>>

\* Mutant: no recursion guard.
MatchesInternal(a, row) == <<a, row.type>> \in Routed

(* PolicyRouter.evaluate: internal types match no rule. *)
Matches(a, row) == /\ row.type # RoutingDecision
                   /\ <<a, row.type>> \in Routed

\* Mutant: the decision names itself as its cause.
RouteToItself(a) ==
    /\ pc[a] = "route"
    /\ \E row \in tx[a].rows :
           /\ Matches(a, row)
           /\ tx' = [tx EXCEPT ![a] =
                        SaveEvent(Row(nextId, RoutingDecision, ProcessOf[a],
                                      SystemRouter, NoKey), {nextId})]
    /\ nextId' = nextId + 1
    /\ Goto(a, "save_decision")
    /\ UNCHANGED <<store, graph, notified, known, faults, request, result>>

(* A rule matches: _persist_routing_decision builds a child event. *)
RouteToDecision(a) ==
    /\ pc[a] = "route"
    /\ \E row \in tx[a].rows :
           /\ Matches(a, row)
           /\ tx' = [tx EXCEPT ![a] =
                        SaveEvent(Row(nextId, RoutingDecision, ProcessOf[a],
                                      SystemRouter, NoKey), {row.id})]
    /\ nextId' = nextId + 1
    /\ Goto(a, "save_decision")
    /\ UNCHANGED <<store, graph, notified, known, faults, request, result>>

RouteNowhere(a) ==
    /\ pc[a] = "route"
    /\ \A row \in tx[a].rows : ~Matches(a, row)
    /\ Goto(a, "returned")
    /\ UNCHANGED <<store, graph, notified, known, nextId, faults,
                   request, tx, result>>

Return(a) ==
    /\ pc[a] = "returned"
    /\ known' = known \cup IdsOf(result[a])
    /\ Leave(a)
    /\ UNCHANGED <<store, graph, notified, nextId, faults>>

------------------------------------------------------------------------------
(* batch_emit: no schema, no key, no causes, no subscribers, no routing. *)
BatchEmit(a, n, types) ==
    LET rows == {Row(nextId + i - 1, types[i], ProcessOf[a], a, NoKey) :
                    i \in 1 .. n}
    IN  /\ pc[a] = "idle"
        /\ nextId <= MaxEvents
        /\ nextId' = nextId + n
        /\ tx' = [tx EXCEPT ![a] = SaveEvents(rows)]
        /\ result' = [result EXCEPT ![a] =
                         {[id |-> r.id, parent_ids |-> {}] : r \in rows}]
        /\ Goto(a, "save_batch")
        /\ UNCHANGED <<store, graph, notified, known, faults, request>>

(* The agent's process dies.  A transaction whose COMMIT was on its way
   outlives it. *)
Crash(a) ==
    /\ pc[a] # "idle"
    /\ Fault("crash")
    /\ \/ UNCHANGED orphans
       \/ /\ ReachesCommit(a)
          /\ tx[a] # NoTx
          /\ orphans' = orphans \cup {tx[a]}
    /\ Leave(a)
    /\ UNCHANGED <<events, causal_links, idempotency_keys, graph, notified,
                   known, nextId>>

------------------------------------------------------------------------------
(* The steps a call takes by itself once it has begun. *)
Step(a) == \/ ReturnExisting(a) \/ MissKey(a) \/ LookupRaises(a)
           \/ RejectInvalid(a) \/ Construct(a)
           \/ RefuseBatch(a) \/ Save(a)
           \/ SaveRollsBack(a) \/ SaveUnacknowledged(a)
           \/ Project(a) \/ ProjectGivesUp(a)
           \/ Notify(a) \/ RouteToDecision(a) \/ RouteNowhere(a)
           \/ Return(a)

Call(a) == \/ \E type \in Types, key \in Keys \cup {NoKey}, ps \in ParentSets :
                 Emit(a, type, key, ps)
           \/ \E n \in 0 .. MaxBatch + 1 :
                 \E types \in [1 .. n -> Types] : BatchEmit(a, n, types)

Server == \E t \in orphans : OrphanCommits(t) \/ OrphanAborts(t)

Next == \/ \E a \in Agents : Call(a) \/ Step(a) \/ Crash(a)
        \/ Server

Spec == Init /\ [][Next]_vars

(* A call runs to its end in its thread, and PostgreSQL ends every transaction. *)
Fairness == /\ \A a \in Agents : WF_vars(Step(a))
            /\ WF_vars(Server)

FairSpec == Spec /\ Fairness

------------------------------------------------------------------------------
(* The tables and the graph stay of their declared shapes. *)
TypeOK ==
    /\ events \subseteq EventRow
    /\ causal_links \subseteq Nat \X Nat
    /\ idempotency_keys \subseteq KeyRow
    /\ orphans \subseteq Transaction
    /\ nodes \subseteq Nat /\ edges \subseteq Nat \X Nat
    /\ notified \subseteq Nat /\ known \subseteq Nat
    /\ nextId \in Nat /\ faults \in Nat
    /\ pc \in [Agents -> {"idle", "lookup", "construct", "notify", "route",
                          "returned"} \cup SavePoints \cup ProjectPoints]
    /\ request \in [Agents -> Request]
    /\ tx \in [Agents -> Transaction]
    /\ result \in [Agents -> SUBSET Event]

(* save_event binds a key and stores its event in one transaction, so whatever
   interleaves, fails or dies, the event a key leads to is stored and was
   emitted with that key in that process. *)
KeysLeadToTheirEvents ==
    \A k \in idempotency_keys :
        \E r \in events : /\ r.id = k.event_id
                          /\ r.process_id = k.process_id
                          /\ r.idempotency_key = k.idempotency_key

(* Projection follows the commit, retries and gives up part-way, so the graph
   may lag behind the store; it never runs ahead of it: every node is a stored
   event and every :CAUSED edge a stored causal link between two nodes. *)
GraphWithinStore == /\ nodes \subseteq IdsOf(events)
                    /\ edges \subseteq causal_links \cap (nodes \X nodes)

(* Subscribers and callers only ever see events that are stored, even when
   saves fail or are never acknowledged. *)
SeenIsStored ==
    /\ notified \cup known \subseteq IdsOf(events)
    /\ \A a \in Agents : pc[a] = "returned" => IdsOf(result[a]) \subseteq IdsOf(events)

DecisionsOn(id) == {r \in events : /\ r.agent_id = SystemRouter
                                  /\ <<id, r.id>> \in causal_links}

(* Every routing decision is the child of exactly one event, which matches a
   rule of the agent that emitted it and is no decision itself; and no event is
   decided twice, whatever is retried after a failure. *)
DecisionsAreSound ==
    /\ \A d \in events : d.agent_id = SystemRouter =>
          \E r \in events : /\ {l \in causal_links : l[2] = d.id} = {<<r.id, d.id>>}
                            /\ r.type # RoutingDecision
                            /\ <<r.agent_id, r.type>> \in Routed
    /\ \A id \in IdsOf(events) : Cardinality(DecisionsOn(id)) <= 1

(* A key is emitted at most once in its process.  emit looks the key up and
   inserts it in two transactions, so this needs callers that do not overlap. *)
OneEventPerKey ==
    \A r, s \in events : /\ r.idempotency_key # NoKey
                         /\ r.idempotency_key = s.idempotency_key
                         /\ r.process_id = s.process_id
                         => r = s

(* A call with a key returns an event that was emitted with that key in the
   agent's own process, by whomever: keys of different processes do not mix. *)
ReturnedCarriesKey ==
    \A a \in Agents : \A e \in result[a] :
        pc[a] = "returned" /\ request[a].key # NoKey =>
            \E r \in events : /\ r.id = e.id
                              /\ r.idempotency_key = request[a].key
                              /\ r.process_id = ProcessOf[a]

(* A call that constructed its event does not return before the event is
   notified and, when it matches a rule, its decision is stored.  (A caller's own
   routing.decision without a key or causes looks like the request of a call that is
   over or a batch, NoRequest, and is not looked at.) *)
FreshReturnIsSettled ==
    \A a \in Agents :
        pc[a] = "returned" /\ tx[a] # NoTx /\ request[a] # NoRequest =>
            \A e \in result[a] :
                /\ e.id \in notified
                /\ Matches(a, request[a]) => DecisionsOn(e.id) # {}

(* What the documentation says and the code does not keep.
   api-reference.md: "If a rule matches, a routing.decision event is emitted
   automatically"; a keyed retry returns the stored event and routes nothing. *)
KeyedReturnIsRouted ==
    \A a \in Agents : \A e \in result[a], r \in events :
        pc[a] = "returned" /\ request[a].key # NoKey
            /\ r.id = e.id /\ Matches(a, r) => DecisionsOn(e.id) # {}

------------------------------------------------------------------------------
(* No call hangs, also when its INSERT of a key waits for a transaction whose
   client is gone. *)
CallsEnd == \A a \in Agents : (pc[a] # "idle") ~> (pc[a] = "idle")

(* Once an event of emit is committed and matches a rule, its decision is stored
   or handed to the server by a save whose answer is lost, unless a save is
   refused or the agent dies; a failing graph does not stop it. *)
MatchLeadsToDecision ==
    \A a \in Agents : \A id \in 1 .. MaxEvents :
        (pc[a] = "project" /\ id \in IdsOf(tx[a].rows) /\ Matches(a, request[a]))
            ~> \/ DecisionsOn(id) # {}
               \/ \E o \in orphans : id \in {l[1] : l \in o.links}

------------------------------------------------------------------------------
(* The inductive invariant behind the safety properties. *)

(* A transaction that has not committed: its rows are new, its links lead from
   stored events to them, and it has at most one key, that of a row of its. *)
Unsaved(t) ==
    /\ \A r \in t.rows : r.id < nextId /\ r.id \notin IdsOf(events)
    /\ t.links \subseteq IdsOf(events) \X IdsOf(t.rows)
    /\ \A k \in t.keys : /\ \A l \in t.keys : k = l
                         /\ \E r \in t.rows :
                               /\ r.id = k.event_id
                               /\ r.process_id = k.process_id
                               /\ r.idempotency_key = k.idempotency_key

(* A transaction that has. *)
Saved(t) == /\ IdsOf(t.rows) \subseteq IdsOf(events)
            /\ t.links \subseteq causal_links \cap (IdsOf(events) \X IdsOf(t.rows))

Disjoint(t, u) == IdsOf(t.rows) \cap IdsOf(u.rows) = {}

CallInv(a) ==
    /\ request[a].parents \subseteq IdsOf(events)
    /\ pc[a] \in SavePoints => Unsaved(tx[a])
    /\ pc[a] \in ProjectPoints \cup {"notify", "route"} => Saved(tx[a])
    /\ pc[a] \in {"save", "save_batch"} =>
          IdsOf(result[a]) \subseteq IdsOf(tx[a].rows)
    /\ pc[a] \in ProjectPoints \cup {"notify", "route", "save_decision", "returned"}
          => IdsOf(result[a]) \subseteq IdsOf(events)

StoreInv ==
    /\ \A r \in events : r.id < nextId
    /\ causal_links \subseteq IdsOf(events) \X IdsOf(events)
    /\ notified \cup known \subseteq IdsOf(events)
    /\ KeysLeadToTheirEvents
    /\ GraphWithinStore

(* No two transactions under way write the same event. *)
InFlightInv ==
    /\ \A o \in orphans : /\ Unsaved(o)
                          /\ \A p \in orphans : o # p => Disjoint(o, p)
                          /\ \A a \in Agents :
                                pc[a] \in SavePoints => Disjoint(o, tx[a])
    /\ \A a, b \in Agents :
          a # b /\ pc[a] \in SavePoints /\ pc[b] \in SavePoints
              => Disjoint(tx[a], tx[b])

(* Holds initially and is kept by every step; TypeCorrect gives TypeOK. *)
IInv == StoreInv /\ InFlightInv /\ \A a \in Agents : CallInv(a)

(* Two conditions under which emitting a key is not a race: one agent per
   process, and every client waits for its commit. *)
SoleCallers == \A a, b \in Agents : ProcessOf[a] = ProcessOf[b] => a = b
CommitsAwaited == Faults \cap {"unacked", "crash"} = {}

Emitted(process, key) ==
    \E r \in events : r.process_id = process /\ r.idempotency_key = key

(* The inductive invariant behind OneEventPerKey, under these conditions: an
   agent that has missed its key is the only one that could emit it. *)
KeyInv ==
    /\ orphans = {}
    /\ OneEventPerKey
    /\ \A r \in events : r.idempotency_key # NoKey =>
          \E k \in idempotency_keys : /\ k.process_id = r.process_id
                                     /\ k.idempotency_key = r.idempotency_key
    /\ \A a \in Agents :
          /\ pc[a] \in {"construct", "save"} /\ request[a].key # NoKey =>
                ~Emitted(ProcessOf[a], request[a].key)
          /\ pc[a] = "save" =>
                \A r \in tx[a].rows :
                    /\ \A s \in tx[a].rows : r = s
                    /\ r.process_id = ProcessOf[a]
                    /\ r.idempotency_key = request[a].key
                    /\ r.idempotency_key # NoKey => \E k \in tx[a].keys :
                          /\ k.process_id = r.process_id
                          /\ k.idempotency_key = r.idempotency_key
          /\ pc[a] \in {"save_decision", "save_batch"} =>
                \A r \in tx[a].rows : r.idempotency_key = NoKey

------------------------------------------------------------------------------
Log == INSTANCE EventLog WITH
           Ids <- Nat, KeyIds <- Processes \X Keys,
           log <- IdsOf(events), links <- causal_links,
           bindings <- {<<<<k.process_id, k.idempotency_key>>, k.event_id>> :
                           k \in idempotency_keys}

(* The pipeline, with everything that interleaves and fails in it, keeps the
   contract of the Store: every step appends one transaction or leaves the
   tables alone. *)
ImplementsEventLog == Log!Spec

(* The causal links form a DAG, whatever callers name as causes. *)
CausalDAG == Log!Acyclic
===============================================================================
