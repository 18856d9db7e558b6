----------------------------- MODULE EntityStore -----------------------------
(* Entity snapshots and relations: ProcessContext.save_entity, save_relation and
   get_entity over the tables entities and relations, and their projection.
   Agents build Entity objects and save them, at the same time and as often as they
   like; a call is one transaction, then one Cypher statement that is tried until
   it succeeds or the projector gives up. *)
EXTENDS Naturals, FiniteSets

CONSTANTS
    Agents,
    EntityIds, Versions,
    Attributes,      \* <<name, value>> pairs
    Never,           \* valid_to IS NULL
    Unset,           \* valid_from is left to its default, the present
    Drafts,          \* the arguments with which each agent may build an Entity
    RelationIds, RelationTypes,
    Relations,       \* the relations agents may save
    Faults,          \* the kinds of failure that may happen, of FaultKinds
    MaxTime,         \* bound: the clock stops there
    MaxHeld,         \* bound: Entity objects an agent has at a time
    MaxFaults        \* bound: failures in a behaviour

FaultKinds == {"rollback", "unacked", "crash", "graph"}

Draft == [id : EntityIds, version : Versions, attributes : SUBSET Attributes,
          valid_to : Nat \cup {Never}, valid_from : Nat \cup {Unset}]
Snapshot == [id : EntityIds, version : Versions, attributes : SUBSET Attributes,
             valid_to : Nat \cup {Never}, valid_from : Nat]
Relation == [id : RelationIds, type : RelationTypes,
             from : EntityIds, to : EntityIds]
Transaction == [entities : SUBSET Snapshot, relations : SUBSET Relations]

ASSUME ConstantsAssumption ==
    /\ Versions \subseteq Nat
    /\ \A kv \in Attributes : kv = <<kv[1], kv[2]>>
    /\ Never \notin Nat /\ Unset \notin Nat
    /\ Drafts \in [Agents -> SUBSET Draft]
    /\ Relations \subseteq Relation
    /\ \A r \in Relations : r.from # r.to
    /\ Faults \subseteq FaultKinds
    /\ {MaxTime, MaxHeld, MaxFaults} \subseteq Nat

VARIABLES
    entities,   \* table entities
    relations,  \* table relations
    orphans,    \* transactions whose client no longer waits for them
    nodes,      \* :Entity nodes of the graph, by id
    props,      \* <<id, name, value>>: their a_* properties
    edges,      \* relationships: the relation each was last set from
    now,        \* the clock
    faults,     \* failures so far
    held,       \* the Entity objects each agent has built and may save
    pc,         \* the step each agent's call is at
    tx,         \* what it saves
    returned    \* what calls that returned had to save

tables == <<entities, relations>>
graph == <<nodes, props, edges>>
vars == <<tables, orphans, graph, now, faults, held, pc, tx, returned>>

------------------------------------------------------------------------------
NoTx == [entities |-> {}, relations |-> {}]

SameVersion(r, s) == r.id = s.id /\ r.version = s.version
SameContent(r, s) == /\ SameVersion(r, s)
                     /\ r.attributes = s.attributes /\ r.valid_to = s.valid_to

\* Mutant: ON CONFLICT DO UPDATE.
CommitOverwriting(t) ==
    /\ entities' = {s \in entities : \A r \in t.entities : ~SameVersion(r, s)}
                   \cup t.entities
    /\ relations' = relations \cup t.relations

(* INSERT ... ON CONFLICT (id, version), or (id), DO NOTHING. *)
Commit(t) ==
    /\ entities' = entities \cup
           {r \in t.entities : \A s \in entities : ~SameVersion(r, s)}
    /\ relations' = relations \cup
           {r \in t.relations : \A s \in relations : r.id # s.id}

(* The INSERT waits for an orphan that holds the row with its key. *)
ReachesCommit(t) ==
    \A o \in orphans :
        /\ \A r \in t.entities, s \in o.entities : ~SameVersion(r, s)
        /\ \A r \in t.relations, s \in o.relations : r.id # s.id

SameEnds(r, s) == r.type = s.type /\ r.from = s.from /\ r.to = s.to

(* create_entity_node sets the scalar properties the snapshot has and leaves others.
   create_typed_relation MATCHes both ends and MERGEs by type. *)
Merge(t) ==
    LET matched == {r \in t.relations : {r.from, r.to} \subseteq nodes}
    IN  /\ nodes' = nodes \cup {r.id : r \in t.entities}
        /\ props' = {p \in props : \A r \in t.entities : \A kv \in r.attributes :
                                      ~(p[1] = r.id /\ p[2] = kv[1])}
                    \cup UNION {{<<r.id, kv[1], kv[2]>> : kv \in r.attributes} :
                                  r \in t.entities}
        /\ edges' = {x \in edges : \A r \in matched : ~SameEnds(r, x)} \cup matched

(* get_entity with as_of: of the versions valid then, the highest; a set that
   has its row or is empty. *)
Highest(rows) == {r \in rows : \A s \in rows : s.version <= r.version}

RowsOf(id) == {r \in entities : r.id = id}

\* Mutant: the lower end of the validity is not looked at.
ValidUntil(r, as_of) == r.valid_to = Never \/ r.valid_to > as_of

ValidAt(r, as_of) == /\ r.valid_from <= as_of
                     /\ r.valid_to = Never \/ r.valid_to > as_of

get_entity_as_of(id, as_of) == Highest({r \in RowsOf(id) : ValidAt(r, as_of)})

Init == /\ entities = {} /\ relations = {}
        /\ orphans = {}
        /\ nodes = {} /\ props = {} /\ edges = {}
        /\ now = 0 /\ faults = 0
        /\ held = [a \in Agents |-> {}]
        /\ pc = [a \in Agents |-> "idle"]
        /\ tx = [a \in Agents |-> NoTx]
        /\ returned = {}

------------------------------------------------------------------------------
Fault(kind) == /\ kind \in Faults
               /\ faults < MaxFaults
               /\ faults' = faults + 1

Goto(a, step) == pc' = [pc EXCEPT ![a] = step]

Leave(a) == /\ Goto(a, "idle")
            /\ tx' = [tx EXCEPT ![a] = NoTx]

\* Mutant: the snapshot is not dated.
BuildEntityUndated(a, d) ==
    /\ pc[a] = "idle"
    /\ Cardinality(held[a]) < MaxHeld
    /\ held' = [held EXCEPT ![a] = @ \cup {d}]
    /\ UNCHANGED <<tables, orphans, graph, now, faults, pc, tx, returned>>

(* Entity(...): dated as the caller says, perhaps back, or with the present. *)
BuildEntity(a, d) ==
    /\ pc[a] = "idle"
    /\ Cardinality(held[a]) < MaxHeld
    /\ LET date == IF d.valid_from = Unset THEN now ELSE d.valid_from
       IN  held' = [held EXCEPT ![a] = @ \cup {[d EXCEPT !.valid_from = date]}]
    /\ UNCHANGED <<tables, orphans, graph, now, faults, pc, tx, returned>>

(* The agent does not save it, or not again. *)
ForgetEntity(a, r) ==
    /\ pc[a] = "idle"
    /\ held' = [held EXCEPT ![a] = @ \ {r}]
    /\ UNCHANGED <<tables, orphans, graph, now, faults, pc, tx, returned>>

\* Mutant: the projection comes before the save.
SaveEntityProjectsFirst(a, r) ==
    /\ pc[a] = "idle"
    /\ tx' = [tx EXCEPT ![a] = [entities |-> {r}, relations |-> {}]]
    /\ Goto(a, "save")
    /\ Merge([entities |-> {r}, relations |-> {}])
    /\ UNCHANGED <<tables, orphans, now, faults, held, returned>>

(* save_entity begins; the object may have been saved before, or have failed to. *)
SaveEntity(a, r) ==
    /\ pc[a] = "idle"
    /\ tx' = [tx EXCEPT ![a] = [entities |-> {r}, relations |-> {}]]
    /\ Goto(a, "save")
    /\ UNCHANGED <<tables, orphans, graph, now, faults, held, returned>>

SaveRelation(a, r) ==
    /\ pc[a] = "idle"
    /\ tx' = [tx EXCEPT ![a] = [entities |-> {}, relations |-> {r}]]
    /\ Goto(a, "save")
    /\ UNCHANGED <<tables, orphans, graph, now, faults, held, returned>>

Save(a) ==
    /\ pc[a] = "save"
    /\ ReachesCommit(tx[a])
    /\ Commit(tx[a])
    /\ Goto(a, "project")
    /\ UNCHANGED <<orphans, graph, now, faults, held, tx, returned>>

\* Mutant: the error is swallowed and the call goes on.
SaveRollsBackSwallowed(a) ==
    /\ pc[a] = "save"
    /\ Fault("rollback")
    /\ Goto(a, "project")
    /\ UNCHANGED <<tables, orphans, graph, now, held, tx, returned>>

(* The save fails: the call raises and nothing is stored. *)
SaveRollsBack(a) ==
    /\ pc[a] = "save"
    /\ Fault("rollback")
    /\ Leave(a)
    /\ UNCHANGED <<tables, orphans, graph, now, held, returned>>

(* The connection is lost after COMMIT was sent: the call raises. *)
SaveUnacknowledged(a) ==
    /\ pc[a] = "save"
    /\ ReachesCommit(tx[a])
    /\ Fault("unacked")
    /\ orphans' = orphans \cup {tx[a]}
    /\ Leave(a)
    /\ UNCHANGED <<tables, graph, now, held, returned>>

OrphanCommits(t) ==
    /\ Commit(t)
    /\ orphans' = orphans \ {t}
    /\ UNCHANGED <<graph, now, faults, held, pc, tx, returned>>

OrphanAborts(t) ==
    /\ orphans' = orphans \ {t}
    /\ UNCHANGED <<tables, graph, now, faults, held, pc, tx, returned>>

Return(a) == /\ returned' = returned \cup {tx[a]}
             /\ Leave(a)

Project(a) ==
    /\ pc[a] = "project"
    /\ Merge(tx[a])
    /\ Return(a)
    /\ UNCHANGED <<tables, orphans, now, faults, held>>

(* An attempt fails, after it took effect or before; the projector tries again
   or gives up, and then the call returns all the same. *)
ProjectFails(a) ==
    /\ pc[a] = "project"
    /\ Fault("graph")
    /\ Merge(tx[a]) \/ UNCHANGED graph
    /\ Return(a) \/ UNCHANGED <<pc, tx, returned>>
    /\ UNCHANGED <<tables, orphans, now, held>>

(* emit of an event of an entity makes it a node: link_event_to_entity. *)
LinkEvent(id) ==
    /\ id \notin nodes
    /\ nodes' = nodes \cup {id}
    /\ UNCHANGED <<tables, orphans, props, edges, now, faults, held, pc, tx, returned>>

(* The agent's process dies, perhaps with a COMMIT on its way. *)
Crash(a) ==
    /\ pc[a] # "idle"
    /\ Fault("crash")
    /\ \/ UNCHANGED orphans
       \/ pc[a] = "save" /\ ReachesCommit(tx[a]) /\ orphans' = orphans \cup {tx[a]}
    /\ Leave(a)
    /\ held' = [held EXCEPT ![a] = {}]
    /\ UNCHANGED <<tables, graph, now, returned>>

Tick == /\ now < MaxTime
        /\ now' = now + 1
        /\ UNCHANGED <<tables, orphans, graph, faults, held, pc, tx, returned>>

Next == \/ \E a \in Agents :
              \/ \E d \in Drafts[a] : BuildEntity(a, d)
              \/ \E r \in held[a] : ForgetEntity(a, r) \/ SaveEntity(a, r)
              \/ \E r \in Relations : SaveRelation(a, r)
              \/ Save(a) \/ SaveRollsBack(a) \/ SaveUnacknowledged(a)
              \/ Project(a) \/ ProjectFails(a) \/ Crash(a)
        \/ \E t \in orphans : OrphanCommits(t) \/ OrphanAborts(t)
        \/ \E id \in EntityIds : LinkEvent(id)
        \/ Tick

Spec == Init /\ [][Next]_vars

------------------------------------------------------------------------------
(* The tables and the graph stay of their shapes. *)
TypeOK ==
    /\ entities \subseteq Snapshot /\ relations \subseteq Relations
    /\ orphans \subseteq Transaction
    /\ nodes \subseteq EntityIds
    /\ props \subseteq {<<id, kv[1], kv[2]>> : id \in EntityIds, kv \in Attributes}
    /\ edges \subseteq Relations
    /\ now \in Nat /\ faults \in Nat
    /\ held \in [Agents -> SUBSET Snapshot]
    /\ pc \in [Agents -> {"idle", "save", "project"}]
    /\ tx \in [Agents -> Transaction]
    /\ returned \subseteq Transaction

(* The moment has passed, and no snapshot that may yet become a row is dated then
   or before: none that an agent holds or saves, or that an orphan would store. *)
Later(rows, as_of) == \A r \in rows : as_of < r.valid_from
Settled(as_of) ==
    /\ as_of < now
    /\ \A a \in Agents : /\ Later(held[a], as_of)
                         /\ pc[a] = "save" => Later(tx[a].entities, as_of)
    /\ \A t \in orphans : Later(t.entities, as_of)

BackDated(as_of) == \E a \in Agents : \E d \in Drafts[a] :
                        BuildEntity(a, d) /\ d.valid_from \in 0 .. as_of

(* "What was the state at the time": the answer about a settled moment does not
   change, whatever is saved and however often ("Previous versions are
   preserved"), and nothing but an Entity that its caller dates back unsettles
   it.  A moment that has merely passed is not settled: an Entity is dated when it
   is built, and its row comes whenever somebody saves it, or saves it again, or
   an unacknowledged COMMIT takes effect. *)
AnswersSettle ==
    [][\A id \in EntityIds, as_of \in 0 .. MaxTime : Settled(as_of) =>
          /\ Settled(as_of)' \/ BackDated(as_of)
          /\ get_entity_as_of(id, as_of)' = get_entity_as_of(id, as_of)]_vars

(* "Nothing is lost": what a call that returned had to save is stored. *)
Stored(t) == /\ \A r \in t.entities : \E s \in entities : SameContent(r, s)
             /\ t.relations \subseteq relations
SavedIsStored == \A t \in returned : Stored(t)

(* PostgreSQL is the source of truth: what the graph says of an entity, some
   stored snapshot of it says, and every relationship is a stored relation. *)
GraphShowsStored ==
    /\ \A p \in props : \E r \in entities : r.id = p[1] /\ <<p[2], p[3]>> \in r.attributes
    /\ edges \subseteq relations

------------------------------------------------------------------------------
(* The condition under which saving loses nothing: whoever saves a version, or
   a relation id, means the same by it. *)
VersionsAgree ==
    /\ \A a, b \in Agents : \A d \in Drafts[a], e \in Drafts[b] :
          SameVersion(d, e) => SameContent(d, e)
    /\ \A r, s \in Relations : r.id = s.id => r = s

(* A snapshot that some agent may build. *)
Drafted(r) == \E a \in Agents : \E d \in Drafts[a] : SameContent(r, d)

(* The inductive invariant behind both. *)
IInv ==
    /\ \A r \in entities : Drafted(r)
    /\ \A o \in orphans : \A r \in o.entities : Drafted(r)
    /\ \A a \in Agents :
          /\ \A r \in held[a] \cup tx[a].entities : Drafted(r)
          /\ pc[a] = "project" => Stored(tx[a])
    /\ SavedIsStored
    /\ GraphShowsStored
===============================================================================
