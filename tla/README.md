# CrewContext in TLA+

CrewContext records what the agents of a business process do as an append-only
log of events in PostgreSQL, mirrors it into a Neo4j graph, calls subscribers
and applies routing rules.  This directory holds a TLA+ model of its core, the
TLC configurations that check it on small instances, and TLAPS proofs of what
matters most for instances of any size.  Paths below are relative to
`crewcontext/` of the repository.

## The system

| Component | State | Operations | Talks to |
|---|---|---|---|
| `ProcessContext` (context.py), one per agent | its router, schema registry, metrics, query audit log | `emit`, `batch_emit`, `save_entity`, `save_relation`, queries, replay, `subscribe`, `connect`/`close` | everything below |
| `PostgresStore` (store/postgres.py), contract `Store` (store/base.py) | tables `events`, `causal_links`, `idempotency_keys`, `entities`, `relations`; a connection pool | one transaction per method | PostgreSQL |
| `Neo4jProjector` (projection/projector.py) | `_available`, failure count, circuit breaker | `project_event/entity/relation`, `connect`, `close` | `Neo4jStore` |
| `Neo4jStore` (projection/neo4j.py) | the graph | one Cypher statement per method | Neo4j |
| `PolicyRouter` (router.py) | rules, subscriptions | `add/remove/enable/disable_rule`, `evaluate`, `subscribe`, `notify_subscribers` | callbacks |
| `SchemaRegistry` (schema.py) | schemas by event type, strict mode | `register`, `validate` | - |
| `MetricsCollector` (metrics.py) | counters, histograms, recent failures | `record_*`, `measure_time`, `get_failure_rate`, `reset` | fed by store, projector, `emit` |
| `AccessPolicy` (security.py) | roles, assignments, rules, audit log | `add/remove_role`, `assign_role`, `add/remove_rule`, `can_access` | asked by `check_access` only |
| `SecretsManager` (secrets.py) | required names, access log; a provider's cache | `get`, `require` | environment, files |
| `HealthChecker` (health.py) | its list of probes | `check_all` | probes |

What is hard about it:

* **Interleaving.** Each agent has a `ProcessContext`, perhaps a process, of its
  own; they share PostgreSQL and Neo4j and no lock.  Within one context a single
  thread runs (nothing in the repository shares one between threads).
* **Several writes without a transaction around them.** `emit` looks a key up,
  saves, projects, notifies, routes and saves again: three database
  transactions and any number of Cypher transactions.  An agent may die, or any
  of them fail, in between.
* **Unknown outcomes.** A connection lost after `COMMIT` was sent leaves a
  transaction that may still commit while the caller already retries.
* **Best effort.** Projection retries, gives up, and stops trying behind a
  circuit breaker; nothing repeats a projection that was given up.

What makes each component correct:

* *Store*: events are never changed; links and keys refer to stored events; a
  key is bound once; the causal links form a DAG.
* *Pipeline*: subscribers and callers see stored events only; the graph never
  runs ahead of the store; a key is emitted once; a matching event gets exactly
  one routing decision, and decisions none; no call hangs.
* *Projector*: a success means the statements took effect, also when others
  write to the graph meanwhile; an open breaker is quiet, and what keeps failing
  for one entity does not keep it open.
* *Entities and queries*: a version is written once and the graph shows it; a
  query as of T is repeatable once no snapshot dated by then is still to be saved;
  a timeline is complete.
* *Router*: the highest enabled match wins, ties by insertion; each subscriber
  is called once, before the event is evaluated, also when emits nest.
* *Connections*: what is open is what `close` will close; a projector that calls
  itself available has a driver.
* *Services*: a denial is never overruled from below; a failure rate never cries
  wolf; a bounded log keeps what is recent; what one schema let through has its
  fields, and no others unless it allows them; secrets that belong together stay
  together.

`PROJECT.json` lists the hazards behind these at their lines.

## Modules

| Module | Models | Checked by | Proved in |
|---|---|---|---|
| `EventLog` | the contract of `Store`: one relational action `Append` | through `ProcessContext` | `EventLog_proofs` |
| `ProcessContext` | `emit`, `batch_emit`, `_persist_routing_decision`, the store's transactions, projection as one step that may stop part-way | `MCProcessContext` | `ProcessContext_proofs` |
| `Projection` | the contract of a `project_*` call: one step, with all its effect or a part | through `Projector` | `Projector_proofs`, `ProcessContext_proofs` |
| `Projector` | `Neo4jProjector` over `Neo4jStore`, statement by statement | `MCProjector` | `Projector_proofs` |
| `Router` | `PolicyRouter` and the part of `emit` after the commit, with callbacks that call the library again | `MCRouter` | `Router_proofs` |
| `History` | events with their times, `query_events`, and the queries of `ProcessContext` over it | `MCHistory` | `History_proofs` |
| `EntityStore` | `save_entity`, `save_relation`, `get_entity` as of a moment, the tables `entities` and `relations` and their projection | `MCEntityStore` | `EntityStore_proofs` |
| `Lifecycle` | `connect` and `close`: the pool, its retries, the driver | `MCServices` | `Services_proofs` |
| `AccessPolicy`, `SchemaRegistry`, `Metrics`, `Secrets` | the services of the same names | `MCServices` | `Services_proofs` |
| `Lists` | what the code does to lists: bound a log to its latest entries, filter, append and sort by priority | `MCRouter`, `MCServices` | `Lists_proofs` |

`ProcessContext` implements `EventLog` (`ImplementsEventLog`): log = the ids in
table `events`, links = `causal_links`, bindings = the rows of
`idempotency_keys`.

`Projector` implements `Projection` (`ImplementsProjection`): while a call is
under way its caller sees the graph as the call found it, with what others have
added since, and when it ends one step of the contract.  `True` means that the call
merged every statement whose nodes were there when it began or that it merged
itself (`Complete`); a node that somebody else adds during the call may come too
late for it, and its edge is then missing although the call succeeded.

`ProcessContext` takes a projection as one step, and `GraphByContract` shows that
step to be the contract's: `Project` has the effect that `Succeeds` asks for, over
the graph that it finds, and `ProjectGivesUp` that of `GivesUp`, some of the
statements.  An edge that a successful call missed because its parent's node came
too late is thus a `ProjectGivesUp` there; nothing in `ProcessContext` depends on
which of the two it was, since its callers drop the answer, and it records neither
calls nor answers of the projector.  No other step touches the graph.  A batch,
which the code projects in a call per event, is one step of `ProcessContext` and
one list of statements there.

### ProcessContext

State: the three tables; `orphans`, transactions whose client is gone but that
the server has not ended; the graph's event nodes and `:CAUSED` edges; the sets
of events subscribers have been `notified` of and callers `known` to hold; and
per agent the step its call is at (`pc`), its arguments (`request`), the
transaction under way (`tx`) and the Event objects to return (`result`).

| Code | Actions |
|---|---|
| context.py:358-380, look the key up | `ReturnExisting`, `MissKey`, `LookupRaises` |
| :383, validate | `RejectInvalid` |
| :385-398, build the Event | `Construct` |
| :401, `save_event`; :442, `save_events`; :465 | `Save`, `SaveRollsBack`, `SaveUnacknowledged`, `RefuseBatch` |
| the server, for a client that is gone | `OrphanCommits`, `OrphanAborts` |
| :404-405, :445-447, :466-467, project | `Project`, `ProjectGivesUp` |
| :408, notify | `Notify` |
| :411-413 and :451-464, route | `RouteToDecision`, `RouteNowhere` |
| :417 | `Return` |
| :419-440 | `BatchEmit` |
| the agent's process dies | `Crash` |

Abstractions, each with its reason:

* A transaction is one step, at its COMMIT: PostgreSQL isolates it.  The one
  thing of its inside that others can feel is kept: `INSERT ... ON CONFLICT DO
  NOTHING` of a key waits for another transaction in flight with the same key
  (`ReachesCommit`).  Two live calls may race to `Save`; the order in which they
  take that step is the order of their commits.
* Ids are numbers in the order `generate_id` produced them, for ids are fresh
  (UUIDs); nothing compares them but for equality.  `ON CONFLICT (id)` therefore
  never applies to events.
* A rule's condition is a predicate on the event; `Routed` says for each agent
  and type whether any enabled rule holds, over every such table.
  Which of several rules wins is not visible here.
* A callback of a subscriber only looks at the event; those that emit in turn,
  subscribe or change rules are the subject of `Router`.
* An agent names as causes only events whose Event objects somebody holds
  (`known`), since `caused_by` takes Event objects.
* `data`, scopes, entities, timestamps and metadata are left out: no property
  here depends on them (`History` has times, scopes and entities, `Router` data).

### Projector

State: the graph as a set of nodes and relationships; whether Neo4j answers;
`_available`; the failure count (values above the threshold are not told apart,
since the code only compares with `>=`); the breaker and the ticks until its
reset time; and the call in progress.  A statement is a pair of what it
`match`es and what it `merge`s; unmatched, it does nothing, without an error, as
in Cypher.  A relationship is its type and its two nodes, so that a relation
between entities may have the type that the causes of events have.

A statement may raise at any time (`StatementRaises`), whether Neo4j is down, aborts
a transaction that deadlocks with another agent's, or answers too late, and it may
have taken effect (`Outcomes`).  The statements of `Refused` always raise: keys of
the caller's data are written into the text of a statement (neo4j.py:118-123,
:129-133, :176-180), so data of some events, entities and relations (`Unwritable`)
make no Cypher.
`Others` are events and entities that other agents' projectors project, at any time
(`OthersProject`); of what they write only nodes are modelled, since no statement
matches relationships.  `began` is the graph when the last call began and `found` the
same with what others have added since; only properties read them.

### EntityStore

State: the tables `entities` and `relations`; `orphans` as above; the graph's
`:Entity` nodes, their properties and the relationships; the clock; per agent the
Entity objects it has built (`held`), the step of its call and what it saves; and, to state what callers may rely on,
what each call that returned had to save.

| Code | Actions |
|---|---|
| models.py:27-39, `valid_from` defaults to the present | `BuildEntity`, `ForgetEntity` |
| context.py:505, :519 | `SaveEntity`, `SaveRelation` |
| store/postgres.py:313-331, :365-384 | `Save`, `SaveRollsBack`, `SaveUnacknowledged` |
| the server, for a client that is gone | `OrphanCommits`, `OrphanAborts` |
| projection/projector.py:172-246, neo4j.py:126-189 | `Project`, `ProjectFails` (an attempt may have taken effect; the call returns whatever became of it) |
| neo4j.py:142, of an `emit` | `LinkEvent` |
| the agent's process dies | `Crash` |

An Entity is dated when it is built, with the present or as its caller says
(`Drafts` are the arguments each agent may use), and saved at any later time, once
more after an error, or never.  All agents have one clock, which may stand still
over any number of steps.  Attributes are the scalar ones, which are those the graph
gets; types, scopes and provenance are left out, as are the attributes of relations.
A projector that is absent or has given up behaves as one whose attempt failed.

### Router

State: `rules` in evaluation order, each with the number of rules `added` before
it, so that properties can speak of age; the `subscriptions`; the `stack` of the
emits under way, innermost last, each with its event and its place in
`notify_subscribers`; and the `log` of what happened to events, which only the
properties read.  One thread runs: the caller when the stack is empty, else the
subscriber called last (`UserCode`), and either may use the library.

| Code | Actions |
|---|---|
| router.py:127-162 | `AddRule`, `RemoveRule`, `SwitchRule` (enable, disable) |
| :177-211, :23-90 | operator `Evaluate`, with `Outcome` of a rule and `Check` of a condition |
| :216-237 | `Subscribe`, `CallSubscriber`, `CallbackEnds` |
| context.py:401, :408, :411-413, :451-467 | `Emit` (from the commit on), `Route`, `DecisionRefused` |

Conditions are those router.py:23-90 offers, over fields that may be absent,
`None`, an integer or text (floats, which the code takes as well, compare in the
same way): a comparison of text with a number raises.  A condition
of the caller's own is one of three outcomes, which these cover.  `CallbackEnds`
is a return and a raise at once: the code logs the latter and goes on.

### History

State: the clock, the table `events`, the event each agent has constructed and
not committed, orphaned commits, and the query in progress.

| Code | Actions |
|---|---|
| models.py:18-20, :86-120, context.py:385, :455 | `Construct` (the timestamp is taken here) |
| store/postgres.py:198-224 | `Commit`, `CommitFails`, `CommitUnacknowledged`, `OrphanEnds` |
| :267-308 | operators `Selected`, `Ordered`, `Page` |
| context.py:471-500 and the calls built on them, as far as the audit call at :143 | `Query`, `Timeline`, `Replay`, then `AuditRaises` |
| a reader of the Store with `limit` and `offset` | `StartPaging`, `NextPage` |

All agents have one clock, which may stand still; with clocks that differ,
`CausesComeFirst` and `Settled` would have to allow for the difference.  Rows of
one time come in any order, and in another one at the next query.  Keys, graph
and routing are those of `ProcessContext` and left out here.

### Lifecycle, and the services

`Lifecycle` follows one context through `connect`, `close` and operations that
open the pool on demand, with every step of `connect` failing at will.  The
others are sequential data structures: each operation is one action.
`AccessPolicy` decides from rules, then roles, then the default, and logs it.
`SchemaRegistry` has schemas as sets of required and optional fields with what the
class does about others (`extra`: ignore, forbid or allow), and data as fields that
are there and fields that are invalid.  `Metrics` keeps, beside the
counters and bounded lists of the code, every attempt since the last reset, which
is what its properties compare with.  `Secrets` lets somebody rewrite the sources
between any two calls, and files be unreadable for one call.

These five share nothing in the model: `MCServices` picks one of them initially
(`which`) and steps only that one, so that one run checks them all and its states
are the sum of theirs, not the product.

## Runs

Constants are model values.  Each configuration names its bounds: `MaxEvents`
(no call builds an event from that id on, so a batch or a decision may exceed it
by what it adds), `MaxParents`, `MaxFaults` (failures per behaviour), `MaxBatch`
(`_MAX_BATCH_SIZE`, scaled to 0, 1 or 2; batches of 0, up to the limit and one more
are tried), `MaxHeld` (Entity objects an agent has at a time).  A rule of every agent matches every type, so that the recursion guard
matters; `retry` cases arise because `Emit` may repeat any key.

| Run | Instance | Shows |
|---|---|---|
| `emit` | 2 agents of one process, 1 key, both types, all faults, 1 of them | the store's contract, and what is seen and decided, under any interleaving and failure |
| `causes` | 1 agent, 3 events with up to 2 causes, one key, a failing graph or a lost acknowledgement, fair | the links stay a DAG, the graph stays within the store, every committed match is decided unless its emitter never learnt of the commit, every call ends |
| `keys` | 1 agent in each of 2 processes, same key, 2 failures | a key is emitted once per process and keys of two processes do not mix |
| `breaker` | 2 events, 2 entities and a relation of type `CAUSED` between them; the data of an entity refused; others project an event and an entity; 3 retries, threshold 5, as in the code; reset after 2 ticks; fair | counting, quiet while open; each call is one step of its contract, whatever others write and whenever statements raise; the breaker closes for good once nothing raises but refused data between successes |
| `snapshots` | 2 agents, 3 snapshots of 2 entities, one of them built by both agents and one dated back, a relation, each saved any number of times, all faults, 1 of them, times 0 and 1 | acknowledged snapshots are stored, the graph shows stored data, the answer about a past moment changes only for a snapshot dated by then that is still held, being saved, orphaned, or dated back |
| `router` | 3 rules of 2 names, two of one priority, over all conditions and combinators; 2 events of 3 payloads, 2 subscriptions of one callback | the best match decides at the moment of evaluation, no decision rests on a condition that raised, each subscription is called once, emits nest and none is forgotten |
| `history` | 2 agents with a scope each, 3 events, times 0 to 3, one orphaned commit; limits 2 and 3, pages of 1 | the past becomes final, answers are causal, pages cover a settled moment |
| `services` | each service by itself: 2 agents, 2 roles, 3 rules; 3 schemas of up to 3 fields; 4 attempts with lists of 2; 3 providers of 2 secrets; 3 attempts at the pool and 3 drivers | the eight properties of the services |

Two agents suffice for `emit`: every property relates one call to the tables, or
two calls to each other, and the proofs remove the bound.  One failure suffices
to separate any two consecutive steps; `keys` allows two so that a retry can fail
as well.  Three events are the least whose causes can be joined (the third has two
of them, one of which may cause the other), and with their decisions a call of
`causes` builds on up to five.  The breaker needs five
failures, hence two calls of three attempts: both numbers are the code's own.
In `snapshots` calls are unbounded in number; two moments are the least for one
to be past, and two versions the least for an older one to be saved late.
`router` needs a second event for an emit within another, three rules for one to
come between two, of equal and of other priority, and a second subscription for
one that is made while the first is called.  In `history` three events give a
cause, its effect and one that commits between the two, four times put each
event at a time of its own and the reader after all of them; a limit of 2 cuts
three events off and pages of 1 make the most of them.  The lists of `services`
hold 1 or 2 entries and twice as many are appended, so that each of them
overflows; the window is 2 of 4 ticks, so that failures leave it in both ways.

Four behaviours contradict the documentation or the tests; a run exhibits each:

| Run | Documentation | Code |
|---|---|---|
| `two_agents_one_key` | "Idempotency keys: prevent duplicate event emission" (store/postgres.py:79; also context.py:351, README.md:52) | look-up and insert are two transactions; the INSERT of the key does nothing on conflict, and the event stays |
| `retry_not_routed` | "If a rule matches, a `routing.decision` event is emitted automatically" (docs/api-reference.md:79) | a keyed retry returns before routing |
| `version_lost` | "each mutation creates a new snapshot row" (models.py:30), "Every version is preserved. ... Nothing is lost." (docs/concepts.md:75) | a second snapshot of a version is dropped without an error, and 1 is the default version |
| `query_raises` | "Query events in this process" (context.py:480), `assert stats["events_replayed"] == 2` (tests/test_observability.py:228, skipped without a database) | every query ends in `_audit_query`, which names `timezone`; context.py:15 does not import it |

The flaw of `two_agents_one_key` needs one agent only when the connection was
lost while its COMMIT was under way and it tries again before the server has
ended that transaction.

### Further differences

Met while modelling, and left without a run of their own, because they show at
one place of the code:

* The Event that a keyed retry returns is rebuilt without `parent_ids`
  (context.py:369), though "Duplicate emission returns original event"
  (IMPROVEMENTS.md:33).  `ReturnedCarriesKey` says what holds of it.
* `batch_emit` notifies nobody (context.py:442-448); docs/api-reference.md:257
  says of subscribers "invoked synchronously when a matching event is emitted".
* `project_event` returns True ("Returns True on success", projector.py:124)
  also when the MATCH of a parent that was never projected found nothing
  (neo4j.py:194): that edge is lost.  `Projection!Succeeds` excepts it.
* `project_event`, `project_entity` and `project_relation` count data that is no
  Cypher as failures of Neo4j (projector.py:162, :199, :238).  Two such calls in a
  row, of three attempts each, open the breaker
  although Neo4j is well, and whatever is projected until the reset
  time is lost; and this can happen again and again.  `BreakerRecovers` states its
  conditions accordingly.
* `set_strict_mode` applies to later registrations only, though schema.py:133
  says "for all schemas".
* `AccessRule.roles` ("Roles this rule applies to", security.py:100) is compared
  with the role of the request only if there is one (:117), and `check_access`
  passes none: a rule applies whatever roles it names, so the model has none.
* `timeline` promises "the full ordered event history" and asks for the default
  limit of 1000 (context.py:492-499).
* `connect` of the graph replaces a driver without closing it, and a `with`
  whose `connect` raises leaves the pool open, since `__exit__` is not called.
  `OnlyHeldIsOpen` says what holds.
* `get_failure_rate` counts the failures of five minutes against the successes
  of all times, twice counted for projections (projector.py:111
  and metrics.py:330): it understates.  `RateNeverOverstates` is the
  side that holds.

## Fairness

`ProcessContext!Fairness` is weak fairness of each agent's own steps (its thread
is scheduled; a blocked INSERT does not count as enabled) and of the server's
ending of orphaned transactions.  No fairness makes a call begin, a failure
happen or stop happening.  The run `causes` uses it.  `Projector!FairSpec` is weak fairness
of the call in progress and of the clock: every statement answers or raises in the
end.  The driver is created without a timeout of its own (neo4j.py:42), so this
leans on the network reporting a connection that is dead; a statement that never
answers would hold its call, which is not modelled.  `BreakerRecovers` has further
conditions in its statement: the projector is connected and Neo4j stays up, it is
called again and again, in the end nothing raises but refused statements, and a call
that has one follows a call that succeeded.

## Proofs

The theorems hold under the assumptions of their modules, which only type the
constants: any number of agents, processes, keys and rules, any set of failures,
any limits and times.  Priorities are integers (`PolicyRule` and `AccessRule`
declare them so; the proofs need that of two priorities one is the higher), and
bounds of logs positive.  Every inductive invariant below was checked by TLC on the
instance of its run before it was proved; the runs check what follows from it.

`EventLog_proofs` proves that the contract keeps links and bindings closed
(`NeverDangling`), keys bound once (`BoundOnce`) and the links acyclic
(`AlwaysAcyclic`): a set of events that contains old ones has a source among
them by induction over the steps, since no link enters an old event any more;
one that has only new ones has no link inside at all.

`ProcessContext_proofs` proves type correctness and then `Invariance`.  None of
the safety properties is inductive alone: that a commit keeps
`KeysLeadToTheirEvents` needs to know that the transaction brings the event its
key names; that links refer to stored events needs the events an Event object
stands for to be stored; and all of it must survive the steps of the other
agents and of orphans.  `IInv` has three parts:

* `StoreInv`: what is stored refers to what is stored, ids are below `nextId`,
  the graph is within the store, and what was seen is stored;
* `CallInv(a)`, by the step of a's call: before its commit the transaction is
  `Unsaved` (its rows are new, its links lead from stored events to them, its
  key names a row of its own), after it `Saved`;
* `InFlightInv`: transactions under way, orphans included, are disjoint, so that
  the commit of one leaves the others `Unsaved`.

The lemmas separate a step's effect on the store (`StoreKept`, `StoreCommitted`)
from that on other calls (`OtherCallKept`); `LocalStepKeeps` and `LeavingKeeps`
dispose of most actions.  `KeysLead`, `GraphBehind` and `SeenStored` follow.
`ImplementsLog` shows that a commit is an `Append` (`CommitAppends`) and every
other step a stutter, and `CausesFormDAG` carries acyclicity over from the
contract.

`OnePerKey` states when idempotency does hold: one agent per process
(`SoleCallers`) and no caller that goes on without knowing how its commit ended
(`CommitsAwaited`).  `KeyInv` is inductive under these conditions: an agent past
the look-up is the only one that could emit its key.  The run
`two_agents_one_key` shows that the first cannot be dropped.

`DecisionsAreSound`, `ReturnedCarriesKey` and `FreshReturnIsSettled` take two
more invariants on top of `IInv`.  `CallRecord(a)` is what a call knows of its own
event at each step: which row its transaction has, that its Event object stands
for it, that it has been notified, that a decision is under way or stored.  It
concerns one agent, and others disturb it only by adding rows.  `DecisionInv` is
about all of them: an event has at most one decision, stored or in flight, and
none while its emit has yet to decide.  Both halves are needed because of orphans:
the decision of a dead agent may still be committed, but its emit is then past
`route` and nobody else decides on that event, for ids in flight are disjoint.

`GraphByContract` connects the pipeline with `Projection`: the effects of `Project`
and `ProjectGivesUp` are those of the contract's `Succeeds` and `GivesUp`.  A success
must do all statements whose nodes are in the graph, though `Project` asks only
whether the parent's is: that the child's is follows from `IInv`, by which the links
of a saved transaction lead to its own rows (`Saved`).

`EntityStore_proofs` proves type correctness, and `NothingLost` and
`GraphBehindTables` under `VersionsAgree`: whoever saves a version, or a relation
id, means the same by it.  Neither is inductive alone; `IInv` adds that whatever
is stored, under way or orphaned was meant to be saved by some agent, so that a
row a commit finds in its way has the content it brings, and that a call has
stored its transaction before it projects.  The run `version_lost` shows that the
condition cannot be dropped.  `AnswersAreFinal` does not need it, but its statement is about
settled moments only: those for which every snapshot that agents hold or save, or
that an orphan brings, is dated later (`Settled`).  Rows of such snapshots do not
change the answer (`CommitsLater`), and only an Entity that its caller dates back
unsettles a moment (`OnlyBackDatingUnsettles`), since the clock never runs back
(`TimePasses`).

`History_proofs` proves all four properties of the run `history`.  Every step
adds at most one event to what is stored, under way or orphaned, of the next id
and of the present moment, and stores only what was under way (`StepAdds`); from
this follow `TypeOK` and, since what is under way at a settled moment is younger
than it, `PastIsFinal`.  `CausesComeFirst` adds that the causes of whatever is
under way are stored (`ParentsStored`), so that rows which come after an answer
are no causes of what it has; that a sequence as long as its set and without
repetition has all of it (`OrderedIsOnto`) gives the rest.  For `PagesCover` two
pages must come from one order, although each query may sort anew: without ties
the place of a row is the number of rows that are not later (`PlaceIsCount`),
hence there is one order only (`OneOrder`), and what was read is a prefix of it.

`Projector_proofs` needs to know where an attempt stands (`CallInv`): what is left
to do is the end of the call's statements, and of what was done everything is merged
whose nodes were there when the call began or are merged by the call itself.  That
this survives the rest of the call is not obvious, since a statement passed over for
want of its nodes would fail it as soon as a later one creates them (`MergedStays`);
it rests on the order of the statements of each operation (`Ordered`: none matches
what a later one merges), a lemma about `project_event` for any parents.
`BreakerTracksFailures` and `QuietWhileOpen` follow from an open breaker's being
closed before any attempt.  `ImplementsContract` adds `Footprint`: whatever the graph
has beyond `found` is the whole effect of statements of the call.  The statements in
effect at the end (`Done`) are then the witness that the contract asks for
(`DoneIsTheEffect`, `DoneIsComplete`).

`Lists_proofs` has what the remaining proofs need of lists.  A comprehension is
defined by positions and their ranks (`Kept`) and an insertion by the number of
rules that go before (`Inserted`), not by recursion, so its properties need no
induction over data: ranks are an injection of a set of positions into as many
numbers, hence each number is some position's rank (`RankFills`).  From this come
that filtering keeps elements and order, that an insertion keeps a list of rules
`InOrder` (by descending priority, the older first), and that bounding a log after
each entry is bounding it once (`LatestAppend`).

`Router_proofs` proves the five properties of the run `router` from one `IInv`:
the rules are in order and older than the next one (`RulesInOrder`, for
`DecisionIsBest`); recorded decisions are of matching rules (`DecidedByMatch`, for
`MatchIsRobust`); each emit under way has called the first so many of the
subscriptions to its type, however many were added meanwhile (`CalledSoFar`, for
`SubscribersCalledOnce`); and for `EmitsNest`, emits further in are of later events
(`Numbered`, `Nested`), an event is evaluated exactly once, when its emit is over
(`Settled`), and after those its subscribers emitted (`InnerFirst`).

`Services_proofs` takes each service by itself.  `LifecycleInv` says what each step
of `connect` has established (the value of "no driver" must not be a driver).
`NewRoleGrantsNothing` holds because only roles that exist are assigned,
`DecisionIsGrounded` because the rules are in order, so that the first match
precedes every other (`PolicyInv`, `DecideIsGrounded`).  `MetricsInv` describes the
bounded lists as the ends of unbounded ones, comprehensions over all attempts;
`KeptIsLatest` follows by ranks, and `RateNeverOverstates` since the failures kept
of a window are an injection into its failures (`RecentAreFailed`) and no success
is missing from the count (`Share` does the arithmetic).  `JsonIsOneVersion`: what
was served agrees with the cache, which is a version; for any chain of the three
providers and any value of "not loaded" that is not a content.  `OneShapePerSchema`
needs the fields of what was stored to include those of its schema, and to be no
others unless the schema allows them (`FieldsFollow`).

Model-checked only: liveness (`CallsEnd`, `MatchLeadsToDecision`,
`BreakerRecovers`), which is beyond TLAPS.  Every other property of the passing
runs is stated by a theorem.  Two theorems carry a hypothesis that their run's
instance satisfies and a run of the list above violates: `OnePerKey` and
`NothingLost`, with `GraphBehindTables`.

## Not modelled

* The bodies of `replay_events`, `rebuild_entity_state` and `export_events`:
  each begins with a query that raises, so none of their lines after it runs.
  For the same reason the query audit log is always empty.
* `save_causal_links` of the Store, which nothing calls: it would let a caller
  close a cycle, and the contract `EventLog` is that of what `emit` uses.
* Reads that change nothing: `get_causal_parents`, `get_causal_children`, the
  Cypher queries (projector.py:250-269, which ask neither the breaker nor its reset
  time), the exports of metrics and of the audit log.
* In metrics.py: gauges, tags and percentiles.  The exports look statistics of
  tagged histograms up under the untagged key, and `projector.failure_rate` asks
  for an operation that nothing records; both are wording of a report, not state.
* `encryption.py`: cryptography; its `EncryptedStore` is constructed nowhere and
  assigns to a field of the frozen `Event`.  `health.py` runs the probes it is
  given and keeps nothing.  The vault provider, which needs a service, and
  `SecretsManager.list` and conversions.
* Logging, the CLI, demos and examples are formatting or clients.

## Plan

Done: all modules above with their runs, and proofs of every safety property, action
property and refinement the runs check.  Left:

1. What `Router` promises `ProcessContext` (a table `Routed` of decisions) as a
   contract that `Router` implements.
