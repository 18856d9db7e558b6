------------------------ MODULE ProcessContext_proofs ------------------------
(* What the emit pipeline guarantees for every number of agents, processes and
   keys, every set of rules and every choice of failures. *)
EXTENDS ProcessContext, FiniteSetTheorems, TLAPS

USE ConstantsAssumption

PCs == {"idle", "lookup", "construct", "notify", "route", "returned",
        "save", "save_decision", "save_batch",
        "project", "project_decision", "project_batch"}

------------------------------------------------------------------------------
(* Shapes of the values the actions build. *)

(* Rows are rows of the table events. *)
LEMMA RowType ==
    ASSUME NEW id \in Nat, NEW type \in Types \cup {RoutingDecision},
           NEW a \in Agents, NEW by \in Agents \cup {SystemRouter},
           NEW key \in Keys \cup {NoKey}
    PROVE  Row(id, type, ProcessOf[a], by, key) \in EventRow
  BY DEF Row, EventRow

(* What save_event writes is a transaction. *)
LEMMA SaveEventType ==
    ASSUME NEW row \in EventRow, NEW parents \in SUBSET Nat
    PROVE  SaveEvent(row, parents) \in Transaction
<1>1. {row} \in SUBSET EventRow /\ parents \X {row.id} \in SUBSET (Nat \X Nat)
  BY DEF EventRow
<1>2. row.idempotency_key # NoKey =>
        {[process_id |-> row.process_id, idempotency_key |-> row.idempotency_key,
          event_id |-> row.id]} \in SUBSET KeyRow
  BY DEF EventRow, KeyRow
<1> QED BY <1>1, <1>2 DEF SaveEvent, Transaction

(* So is nothing at all. *)
LEMMA NoTxType == NoTx \in Transaction
  BY DEF NoTx, Transaction

(* No request is a request. *)
LEMMA NoRequestType == NoRequest \in Request
  BY DEF NoRequest, Request

(* The end of a call resets its state to values of its types. *)
LEMMA LeaveType ==
    ASSUME TypeOK, NEW a \in Agents, Leave(a)
    PROVE  /\ pc' \in [Agents -> PCs]
           /\ request' \in [Agents -> Request]
           /\ tx' \in [Agents -> Transaction]
           /\ result' \in [Agents -> SUBSET Event]
  BY NoTxType, NoRequestType
     DEF Leave, TypeOK, PCs, SavePoints, ProjectPoints

(* A commit keeps the tables of their shapes. *)
LEMMA CommitType ==
    ASSUME TypeOK, NEW t \in Transaction, Commit(t)
    PROVE  /\ events' \subseteq EventRow
           /\ causal_links' \subseteq Nat \X Nat
           /\ idempotency_keys' \subseteq KeyRow
  BY DEF Commit, TypeOK, Transaction, InsertKeys

(* The tables, the graph and the state of every call keep their shapes. *)
THEOREM TypeCorrect == Spec => []TypeOK
<1>1. Init => TypeOK
  BY NoTxType, NoRequestType DEF Init, TypeOK
<1>2. TypeOK /\ [Next]_vars => TypeOK'
  <2> SUFFICES ASSUME TypeOK, [Next]_vars PROVE TypeOK'
    OBVIOUS
  <2> USE DEF TypeOK, SavePoints, ProjectPoints, store, graph, local, Goto
  <2>1. ASSUME NEW a \in Agents, NEW type \in Types, NEW key \in Keys \cup {NoKey},
               NEW ps \in ParentSets, Emit(a, type, key, ps)
        PROVE  TypeOK'
    BY <2>1 DEF Emit, ParentSets, Request
  <2>2. ASSUME NEW a \in Agents, NEW n \in 0 .. MaxBatch + 1,
               NEW types \in [1 .. n -> Types], BatchEmit(a, n, types)
        PROVE  TypeOK'
    <3>1. \A i \in 1 .. n : Row(nextId + i - 1, types[i], ProcessOf[a], a, NoKey)
                              \in EventRow
      BY RowType
    <3>2. nextId' \in Nat
      BY <2>2 DEF BatchEmit
    <3>3. tx'[a] \in Transaction /\ result'[a] \in SUBSET Event
      BY <2>2, <3>1 DEF BatchEmit, SaveEvents, Transaction, Event, EventRow
    <3>4. tx' \in [Agents -> Transaction] /\ result' \in [Agents -> SUBSET Event]
      BY <2>2, <3>3 DEF BatchEmit
    <3> QED BY <2>2, <3>2, <3>4 DEF BatchEmit
  <2>3. ASSUME NEW a \in Agents, ReturnExisting(a) PROVE TypeOK'
    <3>1. result' \in [Agents -> SUBSET Event]
      BY <2>3 DEF ReturnExisting, Event, KeyRow
    <3> QED BY <2>3, <3>1 DEF ReturnExisting
  <2>4. ASSUME NEW a \in Agents, MissKey(a) PROVE TypeOK'
    BY <2>4 DEF MissKey
  <2>5. ASSUME NEW a \in Agents, RejectInvalid(a) PROVE TypeOK'
    BY <2>5, LeaveType DEF RejectInvalid, PCs
  <2>21. ASSUME NEW a \in Agents, LookupRaises(a) PROVE TypeOK'
    BY <2>21, LeaveType DEF LookupRaises, Fault, PCs
  <2>6. ASSUME NEW a \in Agents, Construct(a) PROVE TypeOK'
    <3>1. request[a] \in Request
      OBVIOUS
    <3>2. Row(nextId, request[a].type, ProcessOf[a], a, request[a].key) \in EventRow
      BY <3>1, RowType DEF Request
    <3>3. tx' \in [Agents -> Transaction]
      BY <2>6, <3>1, <3>2, SaveEventType DEF Construct, Request
    <3>4. result' \in [Agents -> SUBSET Event]
      BY <2>6, <3>1 DEF Construct, Request, Event
    <3> QED BY <2>6, <3>3, <3>4 DEF Construct
  <2>7. ASSUME NEW a \in Agents, RefuseBatch(a) PROVE TypeOK'
    BY <2>7, LeaveType DEF RefuseBatch, PCs
  <2>8. ASSUME NEW a \in Agents, Save(a) PROVE TypeOK'
    <3>1. AfterSave(pc[a]) \in PCs
      BY <2>8 DEF Save, ReachesCommit, Writes, AfterSave, PCs
    <3> QED BY <2>8, <3>1, CommitType DEF Save, PCs
  <2>9. ASSUME NEW a \in Agents, SaveRollsBack(a) PROVE TypeOK'
    BY <2>9, LeaveType DEF SaveRollsBack, Fault, PCs
  <2>10. ASSUME NEW a \in Agents, SaveUnacknowledged(a) PROVE TypeOK'
    BY <2>10, LeaveType DEF SaveUnacknowledged, Fault, PCs
  <2>11. ASSUME NEW a \in Agents, Project(a) PROVE TypeOK'
    <3>1. AfterProject(pc[a]) \in PCs
      BY DEF AfterProject, PCs
    <3>2. IdsOf(tx[a].rows) \subseteq Nat /\ tx[a].links \subseteq Nat \X Nat
      BY DEF IdsOf, Transaction, EventRow
    <3> QED BY <2>11, <3>1, <3>2 DEF Project, PCs
  <2>12. ASSUME NEW a \in Agents, ProjectGivesUp(a) PROVE TypeOK'
    <3>1. AfterProject(pc[a]) \in PCs
      BY DEF AfterProject, PCs
    <3>2. IdsOf(tx[a].rows) \subseteq Nat /\ tx[a].links \subseteq Nat \X Nat
      BY DEF IdsOf, Transaction, EventRow
    <3>3. nodes' \subseteq Nat /\ edges' \subseteq Nat \X Nat
      BY <2>12, <3>2 DEF ProjectGivesUp
    <3>4. faults' \in Nat
      BY <2>12 DEF ProjectGivesUp, Fault
    <3> QED BY <2>12, <3>1, <3>3, <3>4 DEF ProjectGivesUp, PCs
  <2>13. ASSUME NEW a \in Agents, Notify(a) PROVE TypeOK'
    <3>1. IdsOf(tx[a].rows) \subseteq Nat
      BY DEF IdsOf, Transaction, EventRow
    <3> QED BY <2>13, <3>1 DEF Notify
  <2>14. ASSUME NEW a \in Agents, RouteToDecision(a) PROVE TypeOK'
    <3>1. PICK row \in tx[a].rows :
            tx' = [tx EXCEPT ![a] =
                     SaveEvent(Row(nextId, RoutingDecision, ProcessOf[a],
                                   SystemRouter, NoKey), {row.id})]
      BY <2>14 DEF RouteToDecision
    <3>2. {row.id} \in SUBSET Nat
      BY DEF Transaction, EventRow
    <3>3. tx' \in [Agents -> Transaction]
      BY <3>1, <3>2, RowType, SaveEventType
    <3> QED BY <2>14, <3>3 DEF RouteToDecision
  <2>15. ASSUME NEW a \in Agents, RouteNowhere(a) PROVE TypeOK'
    BY <2>15 DEF RouteNowhere
  <2>16. ASSUME NEW a \in Agents, Return(a) PROVE TypeOK'
    <3>1. IdsOf(result[a]) \subseteq Nat
      BY DEF IdsOf, Event
    <3> QED BY <2>16, <3>1, LeaveType DEF Return, PCs
  <2>17. ASSUME NEW a \in Agents, Crash(a) PROVE TypeOK'
    BY <2>17, LeaveType DEF Crash, Fault, PCs
  <2>18. ASSUME NEW t \in orphans, OrphanCommits(t) PROVE TypeOK'
    BY <2>18, CommitType DEF OrphanCommits
  <2>19. ASSUME NEW t \in orphans, OrphanAborts(t) PROVE TypeOK'
    BY <2>19 DEF OrphanAborts
  <2>20. CASE UNCHANGED vars
    BY <2>20 DEF vars
  <2> QED BY <2>1, <2>2, <2>3, <2>4, <2>5, <2>6, <2>7, <2>8, <2>9, <2>10, <2>11,
             <2>12, <2>13, <2>14, <2>15, <2>16, <2>17, <2>18, <2>19, <2>20,
             <2>21
          DEF Next, Call, Step, Server
<1> QED BY <1>1, <1>2, PTL DEF Spec

------------------------------------------------------------------------------
(* The inductive invariant.  A step is first shown to keep the invariant of the
   store and of the calls it does not take part in. *)

(* Ids of more rows are more ids. *)
LEMMA IdsGrow ==
    ASSUME NEW R, NEW S, R \subseteq S PROVE IdsOf(R) \subseteq IdsOf(S)
  BY DEF IdsOf

(* What a step may do without disturbing a call that is not its own. *)
Grows == /\ events \subseteq events'
         /\ causal_links \subseteq causal_links'
         /\ nextId' \in Nat /\ nextId <= nextId'

(* What holds of a call other than a keeps holding when a steps. *)
LEMMA OtherCallKept ==
    ASSUME TypeOK, Grows, NEW b \in Agents, CallInv(b),
           pc'[b] = pc[b], request'[b] = request[b], tx'[b] = tx[b],
           result'[b] = result[b],
           pc[b] \in SavePoints => \A r \in tx[b].rows : r.id \notin IdsOf(events')
    PROVE  CallInv(b)'
<1>1. IdsOf(events) \subseteq IdsOf(events')
  BY IdsGrow DEF Grows
<1>2. pc[b] \in SavePoints => Unsaved(tx[b])'
  <2> SUFFICES ASSUME pc[b] \in SavePoints PROVE Unsaved(tx[b])'
    OBVIOUS
  <2>1. \A r \in tx'[b].rows : r.id < nextId' /\ r.id \notin IdsOf(events')
    <3>1. \A r \in tx[b].rows : r.id \in Nat /\ r.id < nextId
      BY DEF CallInv, Unsaved, TypeOK, Transaction, EventRow
    <3> QED BY <3>1 DEF Grows, TypeOK
  <2>2. tx'[b].links \subseteq IdsOf(events') \X IdsOf(tx'[b].rows)
    BY <1>1 DEF CallInv, Unsaved
  <2> QED BY <2>1, <2>2 DEF CallInv, Unsaved
<1>3. pc[b] \in ProjectPoints \cup {"notify", "route"} => Saved(tx[b])'
  BY <1>1 DEF CallInv, Saved, Grows
<1> QED BY <1>1, <1>2, <1>3 DEF CallInv

(* A step that writes no table keeps what is said of the tables. *)
LEMMA StoreKept ==
    ASSUME TypeOK, StoreInv, NEW a \in Agents,
           UNCHANGED <<events, causal_links, idempotency_keys>>,
           nextId' \in Nat, nextId <= nextId',
           (notified \cup known)' \subseteq IdsOf(events),
           GraphWithinStore'
    PROVE  StoreInv'
<1>1. \A r \in events' : r.id < nextId'
  <2>1. \A r \in events : r.id \in Nat /\ r.id < nextId
    BY DEF StoreInv, TypeOK, EventRow
  <2> QED BY <2>1 DEF TypeOK
<1> QED BY <1>1 DEF StoreInv, KeysLeadToTheirEvents

(* Committing an unsaved transaction keeps it too, and saves it. *)
LEMMA StoreCommitted ==
    ASSUME TypeOK, StoreInv, NEW t \in Transaction, Unsaved(t), Commit(t),
           UNCHANGED <<nextId, notified, known, nodes, edges>>
    PROVE  /\ StoreInv' /\ Grows
           /\ IdsOf(events') = IdsOf(events) \cup IdsOf(t.rows)
           /\ t.links \subseteq causal_links'
<1>1. events' = events \cup t.rows /\ causal_links' = causal_links \cup t.links
  BY DEF Commit
<1>2. IdsOf(events') = IdsOf(events) \cup IdsOf(t.rows)
  BY <1>1 DEF IdsOf
<1>3. Grows
  BY <1>1 DEF Grows, TypeOK
<1>4. \A r \in events' : r.id < nextId'
  BY <1>1 DEF StoreInv, Unsaved
<1>5. causal_links' \subseteq IdsOf(events') \X IdsOf(events')
  BY <1>1, <1>2 DEF StoreInv, Unsaved
<1>6. KeysLeadToTheirEvents'
  <2> SUFFICES ASSUME NEW k \in idempotency_keys'
               PROVE  \E r \in events' :
                         /\ r.id = k.event_id
                         /\ r.process_id = k.process_id
                         /\ r.idempotency_key = k.idempotency_key
    BY DEF KeysLeadToTheirEvents
  <2>1. CASE k \in idempotency_keys
    BY <2>1, <1>1 DEF StoreInv, KeysLeadToTheirEvents
  <2>2. CASE k \in t.keys
    BY <2>2, <1>1 DEF Unsaved
  <2> QED BY <2>1, <2>2 DEF Commit, InsertKeys
<1>7. GraphWithinStore'
  BY <1>1, <1>2 DEF StoreInv, GraphWithinStore
<1> QED BY <1>1, <1>2, <1>3, <1>4, <1>5, <1>6, <1>7 DEF StoreInv

(* A step of one call that writes no table and starts no transaction but of
   events it has just named. *)
Local(a) == /\ UNCHANGED store
            /\ nextId' \in Nat /\ nextId <= nextId'
            /\ \A b \in Agents \ {a} : /\ pc'[b] = pc[b] /\ request'[b] = request[b]
                                       /\ tx'[b] = tx[b] /\ result'[b] = result[b]
            /\ pc'[a] \in SavePoints => \A r \in tx'[a].rows : r.id \notin 0 .. (nextId - 1)

(* Such a step keeps the invariant when it keeps that of its own call. *)
LEMMA LocalStepKeeps ==
    ASSUME TypeOK, TypeOK', IInv, NEW a \in Agents, Local(a), StoreInv', CallInv(a)'
    PROVE  IInv'
<1>1. Grows
  BY DEF Local, Grows, store
<1>2. ASSUME NEW b \in Agents, b # a PROVE CallInv(b)'
  <2>1. pc[b] \in SavePoints => \A r \in tx[b].rows : r.id \notin IdsOf(events')
    BY DEF IInv, CallInv, Unsaved, Local, store
  <2> QED BY <1>1, <1>2, <2>1, OtherCallKept DEF IInv, Local
<1>3. \A o \in orphans : Unsaved(o)'
  <2> SUFFICES ASSUME NEW o \in orphans PROVE Unsaved(o)'
    OBVIOUS
  <2>1. \A r \in o.rows : r.id \in Nat /\ r.id < nextId
    BY DEF IInv, InFlightInv, Unsaved, TypeOK, Transaction, EventRow
  <2>2. \A r \in o.rows : r.id < nextId'
    BY <2>1 DEF Local, TypeOK
  <2> QED BY <2>2 DEF IInv, InFlightInv, Unsaved, Local, store
<1>4. \A t \in Transaction :
        (\A r \in t.rows : r.id < nextId) /\ pc'[a] \in SavePoints
            => Disjoint(t, tx'[a])
  BY DEF Disjoint, IdsOf, Local, Transaction, EventRow, TypeOK
<1>5. \A o \in orphans : \A b \in Agents : pc'[b] \in SavePoints => Disjoint(o, tx'[b])
  <2> SUFFICES ASSUME NEW o \in orphans, NEW b \in Agents, pc'[b] \in SavePoints
               PROVE  Disjoint(o, tx'[b])
    OBVIOUS
  <2>1. CASE b = a
    BY <2>1, <1>4 DEF IInv, InFlightInv, Unsaved, TypeOK
  <2>2. CASE b # a
    BY <2>2 DEF IInv, InFlightInv, Local
  <2> QED BY <2>1, <2>2
<1>6. \A b, c \in Agents :
        b # c /\ pc'[b] \in SavePoints /\ pc'[c] \in SavePoints
            => Disjoint(tx'[b], tx'[c])
  <2> SUFFICES ASSUME NEW b \in Agents, NEW c \in Agents, b # c,
                      pc'[b] \in SavePoints, pc'[c] \in SavePoints
               PROVE  Disjoint(tx'[b], tx'[c])
    OBVIOUS
  <2>1. CASE b # a /\ c # a
    BY <2>1 DEF IInv, InFlightInv, Local
  <2>2. CASE c = a
    BY <2>2, <1>4 DEF IInv, CallInv, Unsaved, Local, TypeOK
  <2>3. CASE b = a
    <3>1. Disjoint(tx'[c], tx'[b])
      BY <2>3, <1>4 DEF IInv, CallInv, Unsaved, Local, TypeOK
    <3> QED BY <3>1 DEF Disjoint
  <2> QED BY <2>1, <2>2, <2>3
<1>7. InFlightInv'
  BY <1>3, <1>5, <1>6 DEF InFlightInv, Disjoint, Local, store, IInv
<1> QED BY <1>2, <1>7 DEF IInv

(* The end of a call, by return or by exception. *)
LEMMA LeavingKeeps ==
    ASSUME TypeOK, TypeOK', IInv, NEW a \in Agents, Leave(a),
           UNCHANGED <<store, graph, notified, nextId>>,
           known' \subseteq IdsOf(events)
    PROVE  IInv'
<1> USE DEF store, graph
<1>1. StoreInv'
  <2>1. GraphWithinStore'
    BY DEF IInv, StoreInv, GraphWithinStore
  <2> QED BY <2>1, StoreKept DEF IInv, StoreInv, TypeOK
<1>2. CallInv(a)' /\ Local(a)
  BY DEF Leave, CallInv, Local, NoRequest, SavePoints, ProjectPoints, TypeOK
<1> QED BY <1>1, <1>2, LocalStepKeeps

(* What a transaction of save_event or save_events is before it commits. *)
LEMMA NextIdIsNew ==
    ASSUME TypeOK, IInv PROVE \A n \in Nat : nextId <= n => n \notin IdsOf(events)
<1>1. \A r \in events : r.id \in Nat /\ r.id < nextId
  BY DEF IInv, StoreInv, TypeOK, EventRow
<1> QED BY <1>1 DEF IdsOf, TypeOK

(* save_event under a fresh id, naming stored causes, has not been saved. *)
LEMMA SaveEventUnsaved ==
    ASSUME TypeOK, IInv, NEW row \in EventRow, row.id = nextId,
           NEW parents \in SUBSET IdsOf(events),
           NEW t, t = SaveEvent(row, parents)
    PROVE  /\ IdsOf(t.rows) = {nextId}
           /\ \A r \in t.rows : r.id = nextId
           /\ UNCHANGED events /\ nextId' = nextId + 1 => Unsaved(t)'
<1>1. t.rows = {row} /\ t.links = parents \X {nextId}
  BY DEF SaveEvent
<1>2. \A k \in t.keys : k.event_id = row.id /\ k.process_id = row.process_id
                       /\ k.idempotency_key = row.idempotency_key
  BY DEF SaveEvent
<1>3. \A k, l \in t.keys : k = l
  BY DEF SaveEvent
<1>4. IdsOf(t.rows) = {nextId}
  BY <1>1 DEF IdsOf
<1>5. ASSUME UNCHANGED events, nextId' = nextId + 1 PROVE Unsaved(t)'
  <2>1. \A r \in t.rows : r.id < nextId' /\ r.id \notin IdsOf(events')
    BY <1>1, <1>5, NextIdIsNew DEF TypeOK
  <2>2. t.links \subseteq IdsOf(events') \X IdsOf(t.rows)
    BY <1>1, <1>4, <1>5
  <2> QED BY <1>1, <1>2, <1>3, <2>1, <2>2 DEF Unsaved
<1> QED BY <1>1, <1>4, <1>5

(* Steps that leave the tables alone. *)
LEMMA CallsKeep ==
    ASSUME TypeOK, TypeOK', IInv, NEW a \in Agents, Call(a)
    PROVE  IInv'
<1> USE DEF store, graph, local, Goto
<1>1. StoreInv'
  <2>1. GraphWithinStore'
    BY DEF Call, Emit, BatchEmit, IInv, StoreInv, GraphWithinStore
  <2>2. UNCHANGED <<events, causal_links, idempotency_keys, notified, known>>
    BY DEF Call, Emit, BatchEmit
  <2>3. nextId <= nextId'
    <3>1. ASSUME NEW n \in 0 .. MaxBatch + 1, NEW types \in [1 .. n -> Types],
                 BatchEmit(a, n, types)
          PROVE  \E m \in Nat : nextId' = nextId + m
      <4>1. n \in Nat /\ nextId' = nextId + n
        BY <3>1 DEF BatchEmit
      <4> QED BY <4>1
    <3>2. ASSUME NEW type \in Types, NEW key \in Keys \cup {NoKey}, NEW ps \in ParentSets,
                 Emit(a, type, key, ps)
          PROVE  nextId' = nextId
      BY <3>2 DEF Emit
    <3> QED BY <3>1, <3>2 DEF Call, TypeOK
  <2> QED BY <2>1, <2>2, <2>3, StoreKept DEF IInv, StoreInv, TypeOK
<1>2. ASSUME NEW type \in Types, NEW key \in Keys \cup {NoKey}, NEW ps \in ParentSets,
             Emit(a, type, key, ps)
      PROVE  CallInv(a)' /\ Local(a)
  <2>1. Local(a)
    BY <1>2 DEF Emit, Local, TypeOK, SavePoints
  <2>2. ps \subseteq IdsOf(events)
    BY DEF ParentSets, IInv, StoreInv
  <2>3. pc'[a] \in {"construct", "lookup"} /\ request'[a].parents = ps /\ events' = events
    BY <1>2 DEF Emit, TypeOK
  <2> QED BY <2>1, <2>2, <2>3 DEF CallInv, SavePoints, ProjectPoints
<1>3. ASSUME NEW n \in 0 .. MaxBatch + 1, NEW types \in [1 .. n -> Types],
             BatchEmit(a, n, types)
      PROVE  CallInv(a)' /\ Local(a)
  <2> DEFINE rows == {Row(nextId + i - 1, types[i], ProcessOf[a], a, NoKey) : i \in 1 .. n}
  <2>1. /\ pc'[a] = "save_batch" /\ tx'[a] = SaveEvents(rows)
        /\ result'[a] = {[id |-> r.id, parent_ids |-> {}] : r \in rows}
        /\ request'[a] = request[a] /\ events' = events
    BY <1>3 DEF BatchEmit, TypeOK
  <2>2. \A r \in rows : r.id \in Nat /\ r.id >= nextId /\ r.id < nextId'
    BY <1>3 DEF BatchEmit, Row, TypeOK
  <2>3. Local(a)
    BY <1>3, <2>1, <2>2 DEF BatchEmit, Local, SaveEvents, TypeOK
  <2>4. Unsaved(tx[a])'
    BY <2>1, <2>2, NextIdIsNew DEF SaveEvents, Unsaved
  <2>5. IdsOf(result'[a]) \subseteq IdsOf(tx'[a].rows)
    BY <2>1 DEF SaveEvents, IdsOf
  <2>6. request'[a].parents \subseteq IdsOf(events')
    BY <2>1 DEF IInv, CallInv
  <2> HIDE DEF rows
  <2> QED BY <2>1, <2>3, <2>4, <2>5, <2>6 DEF CallInv, SavePoints, ProjectPoints
<1> QED BY <1>1, <1>2, <1>3, LocalStepKeeps DEF Call

(* Steps of a call that commit and orphan nothing. *)
LEMMA StepsKeep ==
    ASSUME TypeOK, TypeOK', IInv, NEW a \in Agents,
           \/ ReturnExisting(a) \/ MissKey(a) \/ LookupRaises(a) \/ RejectInvalid(a)
           \/ Construct(a) \/ RefuseBatch(a) \/ SaveRollsBack(a) \/ Project(a) \/ ProjectGivesUp(a)
           \/ Notify(a) \/ RouteToDecision(a) \/ RouteNowhere(a) \/ Return(a)
    PROVE  IInv'
<1> USE DEF store, graph, local, Goto
<1> DEFINE StoreStays ==
      /\ UNCHANGED <<events, causal_links, idempotency_keys>>
      /\ nextId <= nextId' /\ GraphWithinStore' /\ notified' \cup known' \subseteq IdsOf(events)
<1>1. ASSUME StoreStays PROVE StoreInv'
  BY <1>1, StoreKept DEF IInv, TypeOK
<1>2. CallInv(a) /\ StoreInv /\ GraphWithinStore
  BY DEF IInv, StoreInv
<1>3. CASE ReturnExisting(a)
  <2>1. PICK k \in idempotency_keys :
          result' = [result EXCEPT ![a] = {[id |-> k.event_id, parent_ids |-> {}]}]
    BY <1>3 DEF ReturnExisting
  <2>2. k.event_id \in IdsOf(events)
    BY <1>2 DEF StoreInv, KeysLeadToTheirEvents, IdsOf
  <2>3. IdsOf(result'[a]) \subseteq IdsOf(events)
    BY <2>1, <2>2 DEF IdsOf, TypeOK
  <2>4. StoreStays
    BY <1>3, <1>2 DEF ReturnExisting, GraphWithinStore, StoreInv, TypeOK
  <2>5. Local(a)
    BY <1>3 DEF ReturnExisting, Local, SavePoints, TypeOK
  <2>6. CallInv(a)'
    BY <1>3, <1>2, <2>3 DEF ReturnExisting, CallInv, SavePoints, ProjectPoints, TypeOK
  <2> QED BY <1>1, <2>4, <2>5, <2>6, LocalStepKeeps
<1>4. CASE MissKey(a)
  <2>1. StoreStays /\ Local(a)
    BY <1>4, <1>2 DEF MissKey, GraphWithinStore, StoreInv, Local, SavePoints, TypeOK
  <2>2. CallInv(a)'
    BY <1>4, <1>2 DEF MissKey, CallInv, SavePoints, ProjectPoints, TypeOK
  <2> QED BY <1>1, <2>1, <2>2, LocalStepKeeps
<1>5. CASE RejectInvalid(a)
  BY <1>5, <1>2, LeavingKeeps DEF RejectInvalid, StoreInv
<1>14. CASE LookupRaises(a)
  BY <1>14, <1>2, LeavingKeeps DEF LookupRaises, StoreInv
<1>6. CASE RefuseBatch(a)
  BY <1>6, <1>2, LeavingKeeps DEF RefuseBatch, StoreInv
<1>7. CASE SaveRollsBack(a)
  BY <1>7, <1>2, LeavingKeeps DEF SaveRollsBack, StoreInv
<1>8. CASE Return(a)
  <2>1. IdsOf(result[a]) \subseteq IdsOf(events)
    BY <1>8, <1>2 DEF Return, CallInv
  <2> QED BY <1>8, <1>2, <2>1, LeavingKeeps DEF Return, StoreInv
<1>9. CASE Construct(a)
  <2> DEFINE row == Row(nextId, request[a].type, ProcessOf[a], a, request[a].key)
  <2>1. row \in EventRow /\ row.id = nextId
    BY RowType DEF TypeOK, Request, Row
  <2>2. request[a].parents \in SUBSET IdsOf(events)
    BY <1>2 DEF CallInv
  <2>3. /\ tx'[a] = SaveEvent(row, request[a].parents) /\ pc'[a] = "save"
        /\ result'[a] = {[id |-> nextId, parent_ids |-> request[a].parents]}
        /\ nextId' = nextId + 1 /\ UNCHANGED <<events, request>>
    BY <1>9 DEF Construct, TypeOK
  <2> HIDE DEF row
  <2>4. Unsaved(tx[a])'
    BY <2>1, <2>2, <2>3, SaveEventUnsaved DEF Unsaved
  <2>5. IdsOf(result'[a]) \subseteq IdsOf(tx'[a].rows)
    <3>1. IdsOf(tx'[a].rows) = {nextId}
      BY <2>1, <2>3 DEF SaveEvent, IdsOf
    <3>2. IdsOf(result'[a]) = {nextId}
      BY <2>3 DEF IdsOf
    <3> QED BY <3>1, <3>2
  <2>6. CallInv(a)'
    BY <1>2, <2>3, <2>4, <2>5 DEF CallInv, ProjectPoints, SavePoints
  <2>7. StoreStays
    BY <1>9, <1>2 DEF Construct, GraphWithinStore, StoreInv, TypeOK
  <2>8. Local(a)
    BY <1>9, <2>1, <2>2, <2>3, SaveEventUnsaved DEF Construct, Local, TypeOK
  <2> QED BY <1>1, <2>6, <2>7, <2>8, LocalStepKeeps
<1>10. CASE Project(a) \/ ProjectGivesUp(a)
  <2>1. /\ IdsOf(tx[a].rows) \subseteq IdsOf(events)
        /\ tx[a].links \subseteq causal_links
        /\ \A l \in tx[a].links : l[2] \in IdsOf(tx[a].rows) /\ l = <<l[1], l[2]>>
    BY <1>10, <1>2 DEF Project, ProjectGivesUp, CallInv, Saved
  <2>2. UNCHANGED <<events, causal_links, idempotency_keys, notified, known, nextId>>
    BY <1>10 DEF Project, ProjectGivesUp
  <2>3. GraphWithinStore'
    <3>1. nodes \subseteq nodes' /\ nodes' \subseteq nodes \cup IdsOf(tx[a].rows)
      BY <1>10 DEF Project, ProjectGivesUp
    <3>2. \A l \in edges' : l \in edges \/ (l \in tx[a].links /\ {l[1], l[2]} \subseteq nodes')
      <4>1. CASE Project(a)
        BY <4>1, <2>1 DEF Project
      <4>2. CASE ProjectGivesUp(a)
        BY <4>2 DEF ProjectGivesUp
      <4> QED BY <1>10, <4>1, <4>2
    <3> QED BY <1>2, <2>1, <2>2, <3>1, <3>2 DEF GraphWithinStore
  <2>4. Local(a)
    BY <1>10, <2>2 DEF Project, ProjectGivesUp, Local, AfterProject, SavePoints, TypeOK
  <2>5. CallInv(a)'
    <3>1. /\ pc[a] \in ProjectPoints
          /\ pc'[a] \in {"notify", "returned"}
          /\ UNCHANGED <<tx, request, result, events, causal_links>>
      BY <1>10 DEF Project, ProjectGivesUp, AfterProject, TypeOK
    <3> QED BY <3>1, <1>2 DEF CallInv, SavePoints, ProjectPoints, Saved
  <2> QED BY <1>1, <1>2, <2>2, <2>3, <2>4, <2>5, LocalStepKeeps DEF StoreInv, TypeOK
<1>11. CASE Notify(a)
  <2>1. IdsOf(tx[a].rows) \subseteq IdsOf(events)
    BY <1>11, <1>2 DEF Notify, CallInv, Saved
  <2>2. StoreStays /\ Local(a)
    BY <1>11, <1>2, <2>1
       DEF Notify, GraphWithinStore, StoreInv, Local, SavePoints, TypeOK
  <2>3. CallInv(a)'
    BY <1>11, <1>2 DEF Notify, CallInv, Saved, SavePoints, ProjectPoints, TypeOK
  <2> QED BY <1>1, <2>2, <2>3, LocalStepKeeps
<1>12. CASE RouteToDecision(a)
  <2>1. PICK r \in tx[a].rows :
          tx' = [tx EXCEPT ![a] =
                   SaveEvent(Row(nextId, RoutingDecision, ProcessOf[a],
                                 SystemRouter, NoKey), {r.id})]
    BY <1>12 DEF RouteToDecision
  <2> DEFINE row == Row(nextId, RoutingDecision, ProcessOf[a], SystemRouter, NoKey)
  <2>2. row \in EventRow /\ row.id = nextId
    BY RowType DEF TypeOK, Row
  <2>3. {r.id} \in SUBSET IdsOf(events)
    BY <1>12, <1>2 DEF RouteToDecision, CallInv, Saved, IdsOf
  <2>4. /\ tx'[a] = SaveEvent(row, {r.id}) /\ pc'[a] = "save_decision"
        /\ nextId' = nextId + 1 /\ UNCHANGED <<events, request, result>>
    BY <1>12, <2>1 DEF RouteToDecision, TypeOK
  <2> HIDE DEF row
  <2>5. Unsaved(tx[a])'
    BY <2>2, <2>3, <2>4, SaveEventUnsaved DEF Unsaved
  <2>6. IdsOf(result[a]) \subseteq IdsOf(events) /\ request[a].parents \subseteq IdsOf(events)
    BY <1>12, <1>2 DEF RouteToDecision, CallInv
  <2>7. CallInv(a)'
    BY <2>4, <2>5, <2>6 DEF CallInv, ProjectPoints, SavePoints
  <2>8. StoreStays
    BY <1>12, <1>2 DEF RouteToDecision, GraphWithinStore, StoreInv, TypeOK
  <2>9. Local(a)
    BY <1>12, <2>2, <2>3, <2>4, SaveEventUnsaved DEF RouteToDecision, Local, TypeOK
  <2> QED BY <1>1, <2>7, <2>8, <2>9, LocalStepKeeps
<1>13. CASE RouteNowhere(a)
  <2>1. StoreStays /\ Local(a)
    BY <1>13, <1>2 DEF RouteNowhere, GraphWithinStore, StoreInv, Local, SavePoints, TypeOK
  <2>2. CallInv(a)'
    BY <1>13, <1>2 DEF RouteNowhere, CallInv, SavePoints, ProjectPoints, TypeOK
  <2> QED BY <1>1, <2>1, <2>2, LocalStepKeeps
<1> QED BY <1>3, <1>4, <1>5, <1>6, <1>7, <1>8, <1>9, <1>10, <1>11, <1>12, <1>13, <1>14

(* A commit by the call itself. *)
LEMMA SaveKeeps ==
    ASSUME TypeOK, TypeOK', IInv, NEW a \in Agents, Save(a)
    PROVE  IInv'
<1> USE DEF store, graph, local, Goto
<1>1. /\ tx[a] \in Transaction /\ Unsaved(tx[a]) /\ Commit(tx[a])
      /\ pc[a] \in SavePoints
      /\ UNCHANGED <<orphans, nodes, edges, notified, known, nextId, request, tx, result>>
  BY DEF Save, ReachesCommit, Writes, IInv, CallInv, TypeOK
<1>2. /\ StoreInv' /\ Grows
      /\ IdsOf(events') = IdsOf(events) \cup IdsOf(tx[a].rows)
      /\ tx[a].links \subseteq causal_links'
  BY <1>1, StoreCommitted DEF IInv
<1>3. ASSUME NEW t \in Transaction, Unsaved(t), Disjoint(t, tx[a])
      PROVE  \A r \in t.rows : r.id \notin IdsOf(events')
  BY <1>2, <1>3 DEF Unsaved, Disjoint, IdsOf
<1>4. ASSUME NEW b \in Agents, b # a PROVE CallInv(b)'
  <2>1. /\ pc'[b] = pc[b] /\ request'[b] = request[b] /\ tx'[b] = tx[b]
        /\ result'[b] = result[b]
    BY <1>4, <1>1 DEF Save, TypeOK
  <2>2. pc[b] \in SavePoints => \A r \in tx[b].rows : r.id \notin IdsOf(events')
    BY <1>1, <1>3, <1>4 DEF IInv, InFlightInv, CallInv, TypeOK
  <2> QED BY <1>2, <2>1, <2>2, OtherCallKept DEF IInv
<1>5. CallInv(a)'
  <2>1. pc'[a] = AfterSave(pc[a])
    BY DEF Save, TypeOK
  <2>2. pc'[a] \in ProjectPoints
    BY <2>1, <1>1 DEF AfterSave, SavePoints, ProjectPoints
  <2>3. Saved(tx[a])'
    <3>1. IdsOf(tx'[a].rows) \subseteq IdsOf(events') /\ IdsOf(events) \subseteq IdsOf(events')
      BY <1>1, <1>2
    <3>2. tx'[a].links \subseteq causal_links' \cap (IdsOf(events') \X IdsOf(tx'[a].rows))
      BY <1>1, <1>2, <3>1 DEF Unsaved
    <3> QED BY <3>1, <3>2 DEF Saved
  <2>4. IdsOf(result'[a]) \subseteq IdsOf(events')
    BY <1>1, <1>2 DEF IInv, CallInv, SavePoints
  <2>5. request'[a].parents \subseteq IdsOf(events')
    BY <1>1, <1>2 DEF IInv, CallInv
  <2> QED BY <2>2, <2>3, <2>4, <2>5 DEF CallInv, SavePoints, ProjectPoints
<1>6. ASSUME NEW o \in orphans PROVE Unsaved(o)'
  <2>1. o \in Transaction /\ Unsaved(o) /\ Disjoint(o, tx[a])
    BY <1>1 DEF IInv, InFlightInv, TypeOK
  <2>2. \A r \in o.rows : r.id \notin IdsOf(events')
    BY <2>1, <1>3
  <2>3. o.links \subseteq IdsOf(events') \X IdsOf(o.rows)
    BY <1>2, <2>1 DEF Unsaved
  <2> QED BY <1>1, <2>1, <2>2, <2>3 DEF Unsaved
<1>7. \A b \in Agents : pc'[b] \in SavePoints => pc[b] \in SavePoints
  BY <1>1 DEF Save, TypeOK
<1>8. InFlightInv'
  BY <1>1, <1>6, <1>7 DEF InFlightInv, IInv, Disjoint
<1> QED BY <1>2, <1>4, <1>5, <1>8 DEF IInv

(* A transaction whose client no longer waits commits. *)
LEMMA OrphanCommitsKeeps ==
    ASSUME TypeOK, TypeOK', IInv, NEW o \in orphans, OrphanCommits(o)
    PROVE  IInv'
<1> USE DEF store, graph, local
<1>1. /\ o \in Transaction /\ Unsaved(o) /\ Commit(o)
      /\ orphans' = orphans \ {o}
      /\ UNCHANGED <<nodes, edges, notified, known, nextId, pc, request, tx, result>>
  BY DEF OrphanCommits, IInv, InFlightInv, TypeOK
<1>2. /\ StoreInv' /\ Grows
      /\ IdsOf(events') = IdsOf(events) \cup IdsOf(o.rows)
  BY <1>1, StoreCommitted DEF IInv
<1>3. ASSUME NEW t \in Transaction, Unsaved(t), Disjoint(o, t)
      PROVE  \A r \in t.rows : r.id \notin IdsOf(events')
  <2>1. \A r \in t.rows : r.id \in IdsOf(t.rows)
    BY DEF IdsOf
  <2> QED BY <1>2, <1>3, <2>1 DEF Unsaved, Disjoint
<1>4. ASSUME NEW b \in Agents PROVE CallInv(b)'
  <2>1. pc[b] \in SavePoints => \A r \in tx[b].rows : r.id \notin IdsOf(events')
    BY <1>1, <1>3 DEF IInv, InFlightInv, CallInv, TypeOK
  <2> QED BY <1>1, <1>2, <2>1, OtherCallKept DEF IInv
<1>5. ASSUME NEW p \in orphans' PROVE Unsaved(p)'
  <2>1. p \in Transaction /\ Unsaved(p) /\ Disjoint(o, p)
    BY <1>1 DEF IInv, InFlightInv, TypeOK
  <2>2. \A r \in p.rows : r.id \notin IdsOf(events')
    BY <2>1, <1>3
  <2>3. p.links \subseteq IdsOf(events') \X IdsOf(p.rows)
    BY <1>2, <2>1 DEF Unsaved
  <2> QED BY <1>1, <2>1, <2>2, <2>3 DEF Unsaved
<1>6. InFlightInv'
  BY <1>1, <1>5 DEF InFlightInv, IInv, Disjoint
<1> QED BY <1>2, <1>4, <1>6 DEF IInv

(* A call ends with its transaction orphaned. *)
LEMMA OrphaningKeeps ==
    ASSUME TypeOK, TypeOK', IInv, NEW a \in Agents, Leave(a), pc[a] \in SavePoints,
           orphans' = orphans \cup {tx[a]},
           UNCHANGED <<events, causal_links, idempotency_keys, graph, notified, known, nextId>>
    PROVE  IInv'
<1> USE DEF graph
<1>1. StoreInv'
  <2>1. GraphWithinStore'
    BY DEF IInv, StoreInv, GraphWithinStore
  <2> QED BY <2>1, StoreKept DEF IInv, StoreInv, TypeOK
<1>2. CallInv(a)'
  BY DEF Leave, CallInv, NoRequest, SavePoints, ProjectPoints, TypeOK
<1>3. ASSUME NEW b \in Agents, b # a PROVE CallInv(b)'
  BY <1>3 DEF Leave, TypeOK, IInv, CallInv, Unsaved, Saved
<1>4. \A b \in Agents : pc'[b] \in SavePoints =>
        b # a /\ pc[b] \in SavePoints /\ tx'[b] = tx[b]
  BY DEF Leave, SavePoints, TypeOK
<1>5. \A p \in orphans' : Unsaved(p)'
  BY DEF IInv, InFlightInv, CallInv, Unsaved
<1>6. \A p \in orphans' : \A q \in orphans' : p # q => Disjoint(p, q)
  BY DEF IInv, InFlightInv, Disjoint
<1>7. \A p \in orphans' : \A b \in Agents : pc'[b] \in SavePoints => Disjoint(p, tx'[b])
  BY <1>4 DEF IInv, InFlightInv, Disjoint
<1>8. InFlightInv'
  BY <1>4, <1>5, <1>6, <1>7 DEF InFlightInv, IInv, Disjoint
<1> QED BY <1>1, <1>2, <1>3, <1>8 DEF IInv

(* Nothing changes, but that some orphan may be gone. *)
LEMMA LessInFlightKeeps ==
    ASSUME IInv, orphans' \subseteq orphans,
           UNCHANGED <<events, causal_links, idempotency_keys, nodes, edges, notified,
                       known, nextId, pc, request, tx, result>>
    PROVE  IInv'
<1>1. StoreInv'
  BY DEF IInv, StoreInv, KeysLeadToTheirEvents, GraphWithinStore
<1>2. ASSUME NEW a \in Agents PROVE CallInv(a)'
  BY DEF IInv, CallInv, Unsaved, Saved
<1>3. InFlightInv'
  BY DEF IInv, InFlightInv, Unsaved, Disjoint
<1> QED BY <1>1, <1>2, <1>3 DEF IInv

(* Every state the pipeline reaches satisfies the inductive invariant IInv: the
   tables are closed, and what is in flight is new to them. *)
THEOREM Invariance == Spec => []IInv
<1>1. Init => IInv
  BY DEF Init, IInv, StoreInv, InFlightInv, CallInv, IdsOf, KeysLeadToTheirEvents,
         GraphWithinStore, SavePoints, ProjectPoints, NoRequest
<1>2. TypeOK /\ TypeOK' /\ IInv /\ [Next]_vars => IInv'
  <2> SUFFICES ASSUME TypeOK, TypeOK', IInv, [Next]_vars PROVE IInv'
    OBVIOUS
  <2>1. ASSUME NEW a \in Agents, Call(a) PROVE IInv'
    BY <2>1, CallsKeep
  <2>2. ASSUME NEW a \in Agents, Step(a) PROVE IInv'
    <3>1. CASE Save(a)
      BY <3>1, SaveKeeps
    <3>2. CASE SaveUnacknowledged(a)
      BY <3>2, OrphaningKeeps DEF SaveUnacknowledged, ReachesCommit, Writes
    <3> QED BY <2>2, <3>1, <3>2, StepsKeep DEF Step
  <2>3. ASSUME NEW a \in Agents, Crash(a) PROVE IInv'
    <3>1. CASE UNCHANGED orphans
      BY <2>3, <3>1, LeavingKeeps DEF Crash, store, IInv, StoreInv
    <3>2. CASE ~UNCHANGED orphans
      BY <2>3, <3>2, OrphaningKeeps DEF Crash, ReachesCommit, Writes
    <3> QED BY <3>1, <3>2
  <2>4. ASSUME NEW t \in orphans, OrphanCommits(t) PROVE IInv'
    BY <2>4, OrphanCommitsKeeps
  <2>5. ASSUME NEW t \in orphans, OrphanAborts(t) PROVE IInv'
    BY <2>5, LessInFlightKeeps DEF OrphanAborts, local, graph
  <2>6. CASE UNCHANGED vars
    BY <2>6, LessInFlightKeeps DEF vars, store, local, graph
  <2> QED BY <2>1, <2>2, <2>3, <2>4, <2>5, <2>6 DEF Next, Server
<1> QED BY <1>1, <1>2, TypeCorrect, PTL DEF Spec

------------------------------------------------------------------------------
(* A key leads to a stored event that was emitted with it, whatever interleaves,
   fails or dies. *)
THEOREM KeysLead == Spec => []KeysLeadToTheirEvents
<1>1. IInv => KeysLeadToTheirEvents
  BY DEF IInv, StoreInv
<1> QED BY <1>1, Invariance, PTL

(* The graph never runs ahead of the store. *)
THEOREM GraphBehind == Spec => []GraphWithinStore
<1>1. IInv => GraphWithinStore
  BY DEF IInv, StoreInv
<1> QED BY <1>1, Invariance, PTL

(* Subscribers and callers see stored events only. *)
THEOREM SeenStored == Spec => []SeenIsStored
<1>1. IInv => SeenIsStored
  BY DEF IInv, StoreInv, CallInv, SeenIsStored
<1> QED BY <1>1, Invariance, PTL

------------------------------------------------------------------------------
(* The pipeline implements the contract of the Store: a commit is an Append. *)
LEMMA CommitAppends ==
    ASSUME TypeOK, IInv, NEW t \in Transaction, Unsaved(t), Commit(t)
    PROVE  Log!Append
<1> DEFINE bindings == {<<<<k.process_id, k.idempotency_key>>, k.event_id>> :
                           k \in idempotency_keys}
<1>1. /\ events' = events \cup t.rows /\ causal_links' = causal_links \cup t.links
      /\ idempotency_keys' = InsertKeys(t)
  BY DEF Commit
<1>2. IdsOf(events') = IdsOf(events) \cup IdsOf(t.rows)
  BY <1>1 DEF IdsOf
<1>3. IdsOf(t.rows) \cap IdsOf(events) = {} /\ IdsOf(t.rows) \subseteq Nat
  <2>1. \A i \in IdsOf(t.rows) : \E r \in t.rows : i = r.id
    BY DEF IdsOf
  <2> QED BY <2>1 DEF Unsaved, Transaction, EventRow
<1>4. IdsOf(events) \subseteq Nat
  BY DEF IdsOf, TypeOK, EventRow
<1>5. causal_links' \ causal_links \subseteq
        IdsOf(events) \X (IdsOf(events') \ IdsOf(events))
  BY <1>1, <1>2, <1>3 DEF Unsaved
<1>6. bindings \subseteq bindings'
  BY <1>1 DEF InsertKeys
<1>7. ASSUME NEW b \in bindings' \ bindings
      PROVE  /\ b \in (Processes \X Keys) \X (IdsOf(events') \ IdsOf(events))
             /\ \A c \in bindings' : b[1] = c[1] => b = c
  <2>1. PICK k \in idempotency_keys' :
          b = <<<<k.process_id, k.idempotency_key>>, k.event_id>>
    BY <1>7
  <2>2. k \in t.keys /\ \A l \in idempotency_keys : ~SameKey(k, l)
    BY <1>1, <1>7, <2>1 DEF InsertKeys
  <2>3. k.event_id \in IdsOf(t.rows) /\ \A l \in t.keys : l = k
    BY <2>2 DEF Unsaved, IdsOf
  <2>4. b \in (Processes \X Keys) \X (IdsOf(events') \ IdsOf(events))
    BY <1>2, <1>3, <2>1, <2>2, <2>3 DEF Transaction, KeyRow
  <2>5. ASSUME NEW c \in bindings', b[1] = c[1] PROVE b = c
    <3>1. PICK l \in idempotency_keys' :
            c = <<<<l.process_id, l.idempotency_key>>, l.event_id>>
      BY <2>5
    <3>2. SameKey(k, l)
      BY <2>1, <2>5, <3>1 DEF SameKey
    <3>3. l \in t.keys
      BY <1>1, <2>2, <3>2 DEF InsertKeys
    <3> QED BY <2>1, <2>3, <3>1, <3>3
  <2> QED BY <2>4, <2>5
<1>8. bindings' \ bindings \subseteq
        (Processes \X Keys) \X (IdsOf(events') \ IdsOf(events))
  BY <1>7
<1> QED BY <1>1, <1>2, <1>3, <1>4, <1>5, <1>6, <1>7, <1>8 DEF Log!Append

(* Every step is one append to the log of events, or none: rows are never
   changed or removed, links point backwards, keys are bound once. *)
THEOREM ImplementsLog == Spec => ImplementsEventLog
<1>1. Init => Log!Init
  BY DEF Init, Log!Init, IdsOf
<1>2. TypeOK /\ IInv /\ [Next]_vars => [Log!Append]_Log!vars
  <2> SUFFICES ASSUME TypeOK, IInv, [Next]_vars PROVE [Log!Append]_Log!vars
    OBVIOUS
  <2> USE DEF store, graph, local
  <2>1. ASSUME UNCHANGED <<events, causal_links, idempotency_keys>>
        PROVE  UNCHANGED Log!vars
    BY <2>1 DEF Log!vars
  <2>2. ASSUME NEW a \in Agents, Save(a) PROVE Log!Append
    BY <2>2, CommitAppends DEF Save, ReachesCommit, Writes, IInv, CallInv, TypeOK
  <2>3. ASSUME NEW t \in orphans, OrphanCommits(t) PROVE Log!Append
    BY <2>3, CommitAppends DEF OrphanCommits, IInv, InFlightInv, TypeOK
  <2>4. ASSUME NEW a \in Agents, Call(a)
        PROVE  UNCHANGED <<events, causal_links, idempotency_keys>>
    BY <2>4 DEF Call, Emit, BatchEmit
  <2>5. ASSUME NEW a \in Agents, Step(a), ~Save(a)
        PROVE  UNCHANGED <<events, causal_links, idempotency_keys>>
    BY <2>5 DEF Step, ReturnExisting, MissKey, LookupRaises, RejectInvalid, Construct, RefuseBatch,
                SaveRollsBack, SaveUnacknowledged, Project, ProjectGivesUp, Notify,
                RouteToDecision, RouteNowhere, Return
  <2>6. ASSUME NEW a \in Agents, Crash(a)
        PROVE  UNCHANGED <<events, causal_links, idempotency_keys>>
    BY <2>6 DEF Crash
  <2>7. ASSUME NEW t \in orphans, OrphanAborts(t)
        PROVE  UNCHANGED <<events, causal_links, idempotency_keys>>
    BY <2>7 DEF OrphanAborts
  <2> QED BY <2>1, <2>2, <2>3, <2>4, <2>5, <2>6, <2>7 DEF Next, Server, vars
<1> QED BY <1>1, <1>2, TypeCorrect, Invariance, PTL DEF Spec, ImplementsEventLog, Log!Spec

(* The causal links of the tables form a DAG, whatever callers name as causes:
   the contract of the Store keeps them one. *)
LogProofs == INSTANCE EventLog_proofs WITH
                 Ids <- Nat, KeyIds <- Processes \X Keys,
                 log <- IdsOf(events), links <- causal_links,
                 bindings <- {<<<<k.process_id, k.idempotency_key>>, k.event_id>> :
                                 k \in idempotency_keys}

THEOREM CausesFormDAG == Spec => []CausalDAG
<1>1. ImplementsEventLog => []CausalDAG
  BY LogProofs!AlwaysAcyclic, PTL
     DEF ImplementsEventLog, CausalDAG, Log!Spec, Log!Init, Log!Append, Log!vars,
         Log!Acyclic, LogProofs!Spec, LogProofs!Init, LogProofs!Append, LogProofs!vars,
         LogProofs!Acyclic
<1> QED BY <1>1, ImplementsLog

------------------------------------------------------------------------------
(* Emitting a key is look-up-then-insert in two transactions.  Where an agent is
   alone in its process and always learns how its commit ended, that is no race. *)

(* A step of a that adds no row leaves the invariant to what it does to a. *)
LEMMA KeyInvLocal ==
    ASSUME TypeOK, KeyInv, NEW a \in Agents,
           UNCHANGED <<events, idempotency_keys, orphans>>,
           \A b \in Agents \ {a} : pc'[b] = pc[b] /\ request'[b] = request[b] /\ tx'[b] = tx[b],
           /\ pc'[a] \in {"construct", "save"} /\ request'[a].key # NoKey =>
                 ~Emitted(ProcessOf[a], request'[a].key)
           /\ pc'[a] = "save" =>
                 \A r \in tx'[a].rows :
                     /\ \A s \in tx'[a].rows : r = s
                     /\ r.process_id = ProcessOf[a]
                     /\ r.idempotency_key = request'[a].key
                     /\ r.idempotency_key # NoKey => \E k \in tx'[a].keys :
                           /\ k.process_id = r.process_id
                           /\ k.idempotency_key = r.idempotency_key
           /\ pc'[a] \in {"save_decision", "save_batch"} =>
                 \A r \in tx'[a].rows : r.idempotency_key = NoKey
    PROVE  KeyInv'
  BY DEF KeyInv, OneEventPerKey, Emitted

(* KeyInv holds where agents are alone in their processes and await commits. *)
THEOREM KeyInvariance ==
    ASSUME SoleCallers, CommitsAwaited PROVE Spec => []KeyInv
<1>1. Init => KeyInv
  BY DEF Init, KeyInv, OneEventPerKey
<1>2. TypeOK /\ KeyInv /\ [Next]_vars => KeyInv'
  <2> SUFFICES ASSUME TypeOK, KeyInv, [Next]_vars PROVE KeyInv'
    OBVIOUS
  <2> USE DEF store, graph, local, Goto
  <2>1. ASSUME NEW a \in Agents, NEW type \in Types, NEW key \in Keys \cup {NoKey},
               NEW ps \in ParentSets, Emit(a, type, key, ps)
        PROVE  KeyInv'
    <3>1. /\ pc'[a] \in {"construct", "lookup"}
          /\ pc'[a] = "construct" => request'[a].key = NoKey
      BY <2>1 DEF Emit, TypeOK
    <3> QED BY <2>1, <3>1, KeyInvLocal DEF Emit, TypeOK
  <2>2. ASSUME NEW a \in Agents, NEW n \in 0 .. MaxBatch + 1,
               NEW types \in [1 .. n -> Types], BatchEmit(a, n, types)
        PROVE  KeyInv'
    <3>1. pc'[a] = "save_batch" /\ \A r \in tx'[a].rows : r.idempotency_key = NoKey
      BY <2>2 DEF BatchEmit, SaveEvents, Row, TypeOK
    <3> QED BY <2>2, <3>1, KeyInvLocal DEF BatchEmit, TypeOK
  <2>3. ASSUME NEW a \in Agents, MissKey(a) PROVE KeyInv'
    <3>1. request[a].key # NoKey => ~Emitted(ProcessOf[a], request[a].key)
      BY <2>3 DEF MissKey, KeyInv, Emitted
    <3>2. pc'[a] = "construct" /\ request' = request
      BY <2>3 DEF MissKey, TypeOK
    <3> QED BY <2>3, <3>1, <3>2, KeyInvLocal DEF MissKey, TypeOK
  <2>4. ASSUME NEW a \in Agents, Construct(a) PROVE KeyInv'
    <3> DEFINE row == Row(nextId, request[a].type, ProcessOf[a], a, request[a].key)
    <3>1. /\ pc'[a] = "save" /\ request' = request
          /\ tx'[a] = SaveEvent(row, request[a].parents)
      BY <2>4 DEF Construct, TypeOK
    <3>2. request[a].key # NoKey => ~Emitted(ProcessOf[a], request[a].key)
      BY <2>4 DEF Construct, KeyInv
    <3>3. row.process_id = ProcessOf[a] /\ row.idempotency_key = request[a].key
      BY DEF Row
    <3> HIDE DEF row
    <3>4. \A r \in tx'[a].rows : r = row
      BY <3>1 DEF SaveEvent
    <3>5. row.idempotency_key # NoKey => \E k \in tx'[a].keys :
             k.process_id = row.process_id /\ k.idempotency_key = row.idempotency_key
      <4> DEFINE k == [process_id |-> row.process_id,
                       idempotency_key |-> row.idempotency_key, event_id |-> row.id]
      <4>1. row.idempotency_key # NoKey => k \in tx'[a].keys
        BY <3>1 DEF SaveEvent
      <4> QED BY <4>1
    <3> QED BY <2>4, <3>1, <3>2, <3>3, <3>4, <3>5, KeyInvLocal DEF Construct, TypeOK
  <2>5. ASSUME NEW a \in Agents, RouteToDecision(a) PROVE KeyInv'
    <3>1. pc'[a] = "save_decision" /\ \A r \in tx'[a].rows : r.idempotency_key = NoKey
      BY <2>5 DEF RouteToDecision, SaveEvent, Row, TypeOK
    <3> QED BY <2>5, <3>1, KeyInvLocal DEF RouteToDecision, TypeOK
  <2>6. ASSUME NEW a \in Agents,
               \/ ReturnExisting(a) \/ LookupRaises(a) \/ RejectInvalid(a) \/ RefuseBatch(a)
               \/ SaveRollsBack(a)
               \/ Project(a) \/ ProjectGivesUp(a) \/ Notify(a) \/ RouteNowhere(a) \/ Return(a)
        PROVE  KeyInv'
    <3>1. pc'[a] \notin {"construct"} \cup SavePoints
      BY <2>6 DEF ReturnExisting, LookupRaises, RejectInvalid, RefuseBatch, SaveRollsBack, Project,
                  ProjectGivesUp, Notify, RouteNowhere, Return, Leave, AfterProject,
                  SavePoints, TypeOK
    <3>2. /\ UNCHANGED <<events, idempotency_keys, orphans>>
          /\ \A b \in Agents \ {a} : pc'[b] = pc[b] /\ request'[b] = request[b] /\ tx'[b] = tx[b]
      BY <2>6 DEF ReturnExisting, LookupRaises, RejectInvalid, RefuseBatch, SaveRollsBack, Project,
                  ProjectGivesUp, Notify, RouteNowhere, Return, Leave, TypeOK
    <3> QED BY <3>1, <3>2, KeyInvLocal DEF SavePoints
  <2>7. ASSUME NEW a \in Agents, Save(a) PROVE KeyInv'
    <3>1. /\ events' = events \cup tx[a].rows /\ idempotency_keys' = InsertKeys(tx[a])
          /\ pc[a] \in SavePoints /\ UNCHANGED <<orphans, request, tx>>
          /\ pc'[a] \in ProjectPoints
          /\ \A b \in Agents \ {a} : pc'[b] = pc[b]
      BY <2>7 DEF Save, ReachesCommit, Writes, Commit, AfterSave, SavePoints, ProjectPoints, TypeOK
    <3>2. \A r \in tx[a].rows : r.idempotency_key # NoKey =>
            /\ pc[a] = "save" /\ r.process_id = ProcessOf[a]
            /\ r.idempotency_key = request[a].key
            /\ \A s \in tx[a].rows : r = s
            /\ ~Emitted(ProcessOf[a], request[a].key)
            /\ \E k \in tx[a].keys : /\ k.process_id = r.process_id
                                     /\ k.idempotency_key = r.idempotency_key
      BY <3>1 DEF KeyInv, SavePoints
    <3>3. OneEventPerKey'
      BY <3>1, <3>2 DEF KeyInv, OneEventPerKey, Emitted
    <3>4. \A r \in events' : r.idempotency_key # NoKey =>
            \E k \in idempotency_keys' : /\ k.process_id = r.process_id
                                        /\ k.idempotency_key = r.idempotency_key
      <4> SUFFICES ASSUME NEW r \in events', r.idempotency_key # NoKey
                   PROVE  \E k \in idempotency_keys' : /\ k.process_id = r.process_id
                                                      /\ k.idempotency_key = r.idempotency_key
        OBVIOUS
      <4>1. CASE r \in events
        BY <3>1, <4>1 DEF KeyInv, InsertKeys
      <4>2. CASE r \in tx[a].rows
        <5>1. PICK k \in tx[a].keys : /\ k.process_id = r.process_id
                                      /\ k.idempotency_key = r.idempotency_key
          BY <3>2, <4>2
        <5> QED BY <3>1, <5>1 DEF InsertKeys, SameKey
      <4> QED BY <3>1, <4>1, <4>2
    <3>5. ASSUME NEW b \in Agents, pc'[b] \in {"construct", "save"}, request'[b].key # NoKey
          PROVE  \A r \in events' : ~(/\ r.process_id = ProcessOf[b]
                                      /\ r.idempotency_key = request'[b].key)
      <4>1. b # a /\ pc'[b] = pc[b]
        BY <3>1, <3>5 DEF ProjectPoints
      <4>2. ~Emitted(ProcessOf[b], request[b].key)
        BY <3>1, <3>5, <4>1 DEF KeyInv
      <4>3. ProcessOf[a] # ProcessOf[b]
        BY <4>1 DEF SoleCallers
      <4> QED BY <3>1, <3>2, <3>5, <4>2, <4>3 DEF Emitted
    <3>6. ASSUME NEW b \in Agents, pc'[b] \in SavePoints
          PROVE  pc'[b] = pc[b]
      BY <3>1, <3>6 DEF SavePoints, ProjectPoints
    <3> QED BY <3>1, <3>3, <3>4, <3>5, <3>6 DEF KeyInv, SavePoints, Emitted
  <2>8. ASSUME NEW a \in Agents, SaveUnacknowledged(a) \/ Crash(a) PROVE FALSE
    BY <2>8 DEF SaveUnacknowledged, Crash, Fault, CommitsAwaited
  <2>9. ASSUME NEW t \in orphans PROVE FALSE
    BY <2>9 DEF KeyInv
  <2>10. CASE UNCHANGED vars
    BY <2>10 DEF vars, KeyInv, OneEventPerKey, Emitted
  <2> QED BY <2>1, <2>2, <2>3, <2>4, <2>5, <2>6, <2>7, <2>8, <2>9, <2>10
          DEF Next, Call, Step, Server
<1> QED BY <1>1, <1>2, TypeCorrect, PTL DEF Spec

(* A key is emitted at most once in its process, under the same conditions. *)
THEOREM OnePerKey ==
    ASSUME SoleCallers, CommitsAwaited PROVE Spec => []OneEventPerKey
<1>1. KeyInv => OneEventPerKey
  BY DEF KeyInv
<1> QED BY <1>1, KeyInvariance, PTL

------------------------------------------------------------------------------
(* The transactions whose COMMIT may still take effect. *)
InFlight == orphans \cup {tx[a] : a \in {b \in Agents : pc[b] \in SavePoints}}

(* Transaction t stores a decision on event id. *)
Decides(t, id) == \E d \in t.rows : d.agent_id = SystemRouter /\ <<id, d.id>> \in t.links

(* A transaction with a decision in it stores nothing else, on one stored event
   that matches a rule. *)
Grounded(t) ==
    (\E d \in t.rows : d.agent_id = SystemRouter) =>
        \E d \in t.rows, r \in events :
            /\ t.rows = {d}
            /\ t.links = {<<r.id, d.id>>}
            /\ r.type # RoutingDecision
            /\ <<r.agent_id, r.type>> \in Routed

(* The steps of emit between the commit of its event and the decision on it. *)
Undecided == {"project", "notify", "route"}

(* What the call of an agent knows of its own event at each of its steps. *)
CallRecord(a) ==
    /\ pc[a] \in {"idle", "lookup", "construct"} => tx[a] = NoTx
    /\ pc[a] \in {"idle", "save_batch", "project_batch"} => request[a] = NoRequest
    /\ pc[a] \in {"save"} \cup Undecided =>
          \E r \in tx[a].rows :
              /\ tx[a].rows = {r}
              /\ r.type = request[a].type
              /\ r.process_id = ProcessOf[a] /\ r.agent_id = a
              /\ r.idempotency_key = request[a].key
              /\ IdsOf(result[a]) = {r.id}
    /\ pc[a] \in Undecided => tx[a].rows \subseteq events
    /\ pc[a] = "save_batch" => \A r \in tx[a].rows : r.agent_id = a
    /\ pc[a] \in {"route", "save_decision", "project_decision"} =>
          IdsOf(result[a]) \subseteq notified
    /\ pc[a] = "save_decision" => \A e \in result[a] : Decides(tx[a], e.id)
    /\ pc[a] = "project_decision" => \A e \in result[a] : DecisionsOn(e.id) # {}
    /\ pc[a] \in {"save_decision", "project_decision", "returned"} /\ request[a].key # NoKey =>
          \A e \in result[a] : \E r \in events : /\ r.id = e.id
                                                /\ r.idempotency_key = request[a].key
                                                /\ r.process_id = ProcessOf[a]
    /\ pc[a] = "returned" /\ tx[a] # NoTx /\ request[a] # NoRequest =>
          \A e \in result[a] :
              /\ e.id \in notified
              /\ Matches(a, request[a]) => DecisionsOn(e.id) # {}

(* A stored decision is the child of one matching event; each event has at most
   one decision, stored or in flight, and none while its emit has yet to decide. *)
DecisionInv ==
    /\ \A d \in events : d.agent_id = SystemRouter =>
          \E r \in events : /\ {l \in causal_links : l[2] = d.id} = {<<r.id, d.id>>}
                            /\ r.type # RoutingDecision
                            /\ <<r.agent_id, r.type>> \in Routed
    /\ \A id \in Nat : \A c, d \in DecisionsOn(id) : c = d
    /\ \A t \in InFlight : /\ Grounded(t)
                           /\ \A id \in Nat : Decides(t, id) => DecisionsOn(id) = {}
    /\ \A t, u \in InFlight : \A id \in Nat : Decides(t, id) /\ Decides(u, id) => t = u
    /\ \A a \in Agents : pc[a] \in Undecided => \A r \in tx[a].rows :
          /\ DecisionsOn(r.id) = {}
          /\ \A t \in InFlight : ~Decides(t, r.id)
    /\ \A a, b \in Agents : a # b /\ pc[a] \in Undecided /\ pc[b] \in Undecided =>
          Disjoint(tx[a], tx[b])

------------------------------------------------------------------------------
(* The record of a call. *)

(* Decisions stay stored. *)
LEMMA DecisionsGrow ==
    ASSUME events \subseteq events', causal_links \subseteq causal_links'
    PROVE  \A id : DecisionsOn(id) \subseteq DecisionsOn(id)'
  BY DEF DecisionsOn

(* What a call knows stays true while others step. *)
LEMMA OtherRecordKept ==
    ASSUME NEW b \in Agents, CallRecord(b), pc'[b] = pc[b], request'[b] = request[b],
           tx'[b] = tx[b], result'[b] = result[b], events \subseteq events',
           causal_links \subseteq causal_links', notified \subseteq notified'
    PROVE  CallRecord(b)'
<1>1. \A id : DecisionsOn(id) # {} => DecisionsOn(id)' # {}
  BY DecisionsGrow
<1> QED BY <1>1 DEF CallRecord, Undecided, Decides, Matches

(* A step of one call grows the tables and leaves the other calls alone. *)
OnlyOf(a) == /\ events \subseteq events' /\ causal_links \subseteq causal_links'
             /\ notified \subseteq notified'
             /\ \A b \in Agents \ {a} : /\ pc'[b] = pc[b] /\ request'[b] = request[b]
                                        /\ tx'[b] = tx[b] /\ result'[b] = result[b]

(* Every step of a call is such a step. *)
LEMMA StepsAreOwn ==
    ASSUME TypeOK, NEW a \in Agents, Call(a) \/ Step(a) \/ Crash(a)
    PROVE  OnlyOf(a)
<1> USE DEF OnlyOf, store, graph, local, Goto, Leave, TypeOK
<1>1. CASE Call(a)
  BY <1>1 DEF Call, Emit, BatchEmit
<1>2. CASE Crash(a)
  BY <1>2 DEF Crash
<1>3. CASE ReturnExisting(a) \/ MissKey(a) \/ LookupRaises(a) \/ RejectInvalid(a) \/ Construct(a)
  BY <1>3 DEF ReturnExisting, MissKey, LookupRaises, RejectInvalid, Construct
<1>4. CASE RefuseBatch(a) \/ Save(a) \/ SaveRollsBack(a) \/ SaveUnacknowledged(a)
  BY <1>4 DEF RefuseBatch, Save, Commit, SaveRollsBack, SaveUnacknowledged
<1>5. CASE Project(a) \/ ProjectGivesUp(a)
  BY <1>5 DEF Project, ProjectGivesUp
<1>6. CASE Notify(a) \/ RouteToDecision(a) \/ RouteNowhere(a) \/ Return(a)
  BY <1>6 DEF Notify, RouteToDecision, RouteNowhere, Return
<1> QED BY <1>1, <1>2, <1>3, <1>4, <1>5, <1>6 DEF Step

(* A call that begins. *)
LEMMA BeginRecords ==
    ASSUME TypeOK, NEW a \in Agents, CallRecord(a), Call(a)
    PROVE  CallRecord(a)'
<1> USE DEF store, graph, local, Goto
<1>1. ASSUME NEW type \in Types, NEW key \in Keys \cup {NoKey},
             NEW ps \in ParentSets, Emit(a, type, key, ps)
      PROVE  CallRecord(a)'
  <2>1. pc'[a] \in {"construct", "lookup"} /\ tx'[a] = NoTx
    BY <1>1 DEF Emit, TypeOK, CallRecord
  <2> QED BY <2>1 DEF CallRecord, Undecided
<1>2. ASSUME NEW n \in 0 .. MaxBatch + 1, NEW types \in [1 .. n -> Types],
             BatchEmit(a, n, types)
      PROVE  CallRecord(a)'
  <2>1. pc'[a] = "save_batch" /\ request'[a] = NoRequest
    BY <1>2 DEF BatchEmit, TypeOK, CallRecord
  <2>2. \A r \in tx'[a].rows : r.agent_id = a
    BY <1>2 DEF BatchEmit, SaveEvents, Row, TypeOK
  <2> QED BY <2>1, <2>2 DEF CallRecord, Undecided
<1> QED BY <1>1, <1>2 DEF Call

(* A call that ends. *)
LEMMA EndRecords ==
    ASSUME TypeOK, NEW a \in Agents, Leave(a)
    PROVE  CallRecord(a)'
<1>1. pc'[a] = "idle" /\ tx'[a] = NoTx /\ request'[a] = NoRequest
  BY DEF Leave, TypeOK
<1> QED BY <1>1 DEF CallRecord, Undecided

(* The look-up of a key, and the construction of the event. *)
LEMMA LookupRecords ==
    ASSUME TypeOK, IInv, NEW a \in Agents, CallRecord(a),
           ReturnExisting(a) \/ MissKey(a) \/ Construct(a)
    PROVE  CallRecord(a)'
<1> USE DEF store, graph, local, Goto
<1>1. CASE ReturnExisting(a)
  <2>1. PICK k \in idempotency_keys :
          /\ k.process_id = ProcessOf[a] /\ k.idempotency_key = request[a].key
          /\ result' = [result EXCEPT ![a] = {[id |-> k.event_id, parent_ids |-> {}]}]
    BY <1>1 DEF ReturnExisting
  <2>2. \E r \in events : /\ r.id = k.event_id
                          /\ r.process_id = k.process_id
                          /\ r.idempotency_key = k.idempotency_key
    BY DEF IInv, StoreInv, KeysLeadToTheirEvents
  <2>3. /\ pc'[a] = "returned" /\ tx'[a] = NoTx
        /\ UNCHANGED <<events, request>>
        /\ result'[a] = {[id |-> k.event_id, parent_ids |-> {}]}
    BY <1>1, <2>1 DEF ReturnExisting, CallRecord, TypeOK
  <2> QED BY <2>1, <2>2, <2>3 DEF CallRecord, Undecided
<1>2. CASE MissKey(a)
  <2>1. pc'[a] = "construct" /\ tx'[a] = NoTx
    BY <1>2 DEF MissKey, CallRecord, TypeOK
  <2> QED BY <2>1 DEF CallRecord, Undecided
<1>3. CASE Construct(a)
  <2> DEFINE row == Row(nextId, request[a].type, ProcessOf[a], a, request[a].key)
  <2>1. /\ pc'[a] = "save" /\ UNCHANGED request
        /\ tx'[a] = SaveEvent(row, request[a].parents)
        /\ result'[a] = {[id |-> nextId, parent_ids |-> request[a].parents]}
    BY <1>3 DEF Construct, TypeOK
  <2>2. /\ row.id = nextId /\ row.type = request[a].type
        /\ row.process_id = ProcessOf[a] /\ row.agent_id = a
        /\ row.idempotency_key = request[a].key
    BY DEF Row
  <2> HIDE DEF row
  <2>3. tx'[a].rows = {row}
    BY <2>1 DEF SaveEvent
  <2>4. IdsOf(result'[a]) = {row.id}
    BY <2>1, <2>2 DEF IdsOf
  <2> QED BY <2>1, <2>2, <2>3, <2>4 DEF CallRecord, Undecided
<1> QED BY <1>1, <1>2, <1>3

(* The commit of what a call writes. *)
LEMMA SaveRecords ==
    ASSUME TypeOK, NEW a \in Agents, CallRecord(a), Save(a)
    PROVE  CallRecord(a)'
<1>1. /\ pc[a] \in SavePoints /\ pc'[a] = AfterSave(pc[a])
      /\ UNCHANGED <<tx, request, result, notified>>
      /\ events' = events \cup tx[a].rows
      /\ causal_links' = causal_links \cup tx[a].links
  BY DEF Save, ReachesCommit, Writes, Goto, Commit, TypeOK, local
<1>2. CASE pc[a] = "save"
  BY <1>1, <1>2 DEF CallRecord, AfterSave, Undecided
<1>3. CASE pc[a] = "save_batch"
  BY <1>1, <1>3 DEF CallRecord, AfterSave, Undecided
<1>4. CASE pc[a] = "save_decision"
  <2>1. \A e \in result[a] : DecisionsOn(e.id)' # {}
    BY <1>1, <1>4 DEF CallRecord, Decides, DecisionsOn
  <2>2. pc'[a] = "project_decision"
    BY <1>1, <1>4 DEF AfterSave
  <2> QED BY <1>1, <1>4, <2>1, <2>2 DEF CallRecord, Undecided
<1> QED BY <1>1, <1>2, <1>3, <1>4 DEF SavePoints

(* What follows the commit. *)
LEMMA AfterSaveRecords ==
    ASSUME TypeOK, NEW a \in Agents, CallRecord(a),
           \/ Project(a) \/ ProjectGivesUp(a) \/ Notify(a)
           \/ RouteToDecision(a) \/ RouteNowhere(a)
    PROVE  CallRecord(a)'
<1> USE DEF store, graph, local, Goto
<1>1. CASE Project(a) \/ ProjectGivesUp(a)
  <2>1. /\ pc[a] \in ProjectPoints /\ pc'[a] = AfterProject(pc[a])
        /\ UNCHANGED <<tx, request, result, notified, events, causal_links>>
    BY <1>1 DEF Project, ProjectGivesUp, TypeOK
  <2>2. CASE pc[a] = "project"
    BY <2>1, <2>2 DEF CallRecord, AfterProject, Undecided
  <2>3. CASE pc[a] = "project_decision"
    <3>1. \A e \in result[a] : e.id \in notified /\ DecisionsOn(e.id)' # {}
      BY <2>1, <2>3 DEF CallRecord, DecisionsOn, IdsOf
    <3> QED BY <2>1, <2>3, <3>1 DEF CallRecord, AfterProject, Undecided
  <2>4. CASE pc[a] = "project_batch"
    BY <2>1, <2>4 DEF CallRecord, AfterProject, Undecided, NoRequest
  <2> QED BY <2>1, <2>2, <2>3, <2>4 DEF ProjectPoints
<1>2. CASE Notify(a)
  <2>1. /\ pc[a] = "notify" /\ pc'[a] = "route"
        /\ UNCHANGED <<tx, request, result, events>>
        /\ notified' = notified \cup IdsOf(tx[a].rows)
    BY <1>2 DEF Notify, TypeOK
  <2>2. PICK r \in tx[a].rows : IdsOf(result[a]) = {r.id}
    BY <2>1 DEF CallRecord, Undecided
  <2>3. IdsOf(result[a]) \subseteq notified'
    BY <2>1, <2>2 DEF IdsOf
  <2> QED BY <2>1, <2>3 DEF CallRecord, Undecided
<1>3. CASE RouteToDecision(a)
  <2>1. PICK r \in tx[a].rows :
          tx' = [tx EXCEPT ![a] =
                   SaveEvent(Row(nextId, RoutingDecision, ProcessOf[a],
                                 SystemRouter, NoKey), {r.id})]
    BY <1>3 DEF RouteToDecision
  <2>2. /\ pc[a] = "route" /\ pc'[a] = "save_decision"
        /\ UNCHANGED <<request, result, events, notified>>
    BY <1>3 DEF RouteToDecision, TypeOK
  <2>3. IdsOf(result[a]) = {r.id} /\ r \in events /\ r.process_id = ProcessOf[a]
        /\ r.idempotency_key = request[a].key
    BY <2>2 DEF CallRecord, Undecided
  <2>4. \A e \in result[a] : e.id = r.id
    BY <2>3 DEF IdsOf
  <2>5. Decides(tx'[a], r.id)
    BY <2>1 DEF Decides, SaveEvent, Row, TypeOK
  <2>6. IdsOf(result[a]) \subseteq notified
    BY <2>2 DEF CallRecord
  <2> QED BY <2>2, <2>3, <2>4, <2>5, <2>6 DEF CallRecord, Undecided
<1>4. CASE RouteNowhere(a)
  <2>1. /\ pc[a] = "route" /\ pc'[a] = "returned"
        /\ UNCHANGED <<tx, request, result, events, notified>>
        /\ \A row \in tx[a].rows : ~Matches(a, row)
    BY <1>4 DEF RouteNowhere, TypeOK
  <2>2. PICK r \in tx[a].rows :
           /\ r.type = request[a].type /\ r \in events
           /\ r.process_id = ProcessOf[a] /\ r.idempotency_key = request[a].key
           /\ IdsOf(result[a]) = {r.id}
    BY <2>1 DEF CallRecord, Undecided
  <2>3. ~Matches(a, request[a])
    BY <2>1, <2>2 DEF Matches
  <2>4. \A e \in result[a] : e.id = r.id /\ e.id \in notified
    BY <2>1, <2>2 DEF CallRecord, IdsOf
  <2> QED BY <2>1, <2>2, <2>3, <2>4 DEF CallRecord, Undecided
<1> QED BY <1>1, <1>2, <1>3, <1>4

(* The records of all calls stay true. *)
LEMMA RecordsKept ==
    ASSUME TypeOK, IInv, \A a \in Agents : CallRecord(a), [Next]_vars
    PROVE  \A a \in Agents : CallRecord(a)'
<1>1. ASSUME NEW a \in Agents, Call(a) \/ Step(a) \/ Crash(a)
      PROVE  \A b \in Agents : CallRecord(b)'
  <2>1. CallRecord(a)'
    <3>1. CASE \/ RejectInvalid(a) \/ LookupRaises(a) \/ RefuseBatch(a) \/ SaveRollsBack(a)
               \/ SaveUnacknowledged(a) \/ Return(a) \/ Crash(a)
      BY <3>1, EndRecords DEF RejectInvalid, LookupRaises, RefuseBatch, SaveRollsBack,
                              SaveUnacknowledged, Return, Crash
    <3> QED BY <1>1, <3>1, BeginRecords, LookupRecords, SaveRecords, AfterSaveRecords DEF Step
  <2>2. OnlyOf(a)
    BY <1>1, StepsAreOwn
  <2> QED BY <2>1, <2>2, OtherRecordKept DEF OnlyOf
<1>2. ASSUME NEW t \in orphans, OrphanCommits(t) \/ OrphanAborts(t)
      PROVE  \A b \in Agents : CallRecord(b)'
  BY <1>2, OtherRecordKept DEF OrphanCommits, OrphanAborts, Commit, local
<1>3. CASE UNCHANGED vars
  BY <1>3, OtherRecordKept DEF vars, store, local
<1> QED BY <1>1, <1>2, <1>3 DEF Next, Server

(* At each of its steps a call's own record holds. *)
THEOREM Records == Spec => [](\A a \in Agents : CallRecord(a))
<1>1. Init => \A a \in Agents : CallRecord(a)
  BY DEF Init, CallRecord, Undecided
<1>2. TypeOK /\ IInv /\ (\A a \in Agents : CallRecord(a)) /\ [Next]_vars
        => (\A a \in Agents : CallRecord(a))'
  BY RecordsKept
<1> QED BY <1>1, <1>2, TypeCorrect, Invariance, PTL DEF Spec

------------------------------------------------------------------------------
(* Decisions. *)

(* Identifiers of events are numbers. *)
LEMMA IdsAreNat == ASSUME TypeOK PROVE IdsOf(events) \subseteq Nat
  BY DEF TypeOK, EventRow, IdsOf

(* What an orphan or a call is about to commit has not been saved. *)
LEMMA InFlightUnsaved ==
    ASSUME TypeOK, IInv, NEW t \in InFlight
    PROVE  t \in Transaction /\ Unsaved(t)
  BY DEF InFlight, TypeOK, IInv, InFlightInv, CallInv

(* A step that stores nothing keeps what is said of decisions, if what it puts
   in flight decides nothing, and no call reaches an undecided event by it. *)
LEMMA NothingDecided ==
    ASSUME DecisionInv, UNCHANGED <<events, causal_links>>,
           \A t \in InFlight' : t \in InFlight \/ \A r \in t.rows : r.agent_id # SystemRouter,
           \A a \in Agents : pc'[a] \in Undecided => pc[a] \in Undecided /\ tx'[a] = tx[a]
    PROVE  DecisionInv'
<1>1. \A id : DecisionsOn(id)' = DecisionsOn(id)
  BY DEF DecisionsOn
<1>2. ASSUME NEW t, NEW id, Decides(t, id)' PROVE Decides(t, id)
  BY <1>2 DEF Decides
<1>3. ASSUME NEW t \in InFlight', t \notin InFlight
      PROVE  Grounded(t)' /\ \A id : ~Decides(t, id)
  BY <1>3 DEF Grounded, Decides
<1>4. ASSUME NEW t, Grounded(t) PROVE Grounded(t)'
  BY <1>4 DEF Grounded
<1>5. \A t \in InFlight' : /\ Grounded(t)'
                           /\ \A id \in Nat : Decides(t, id)' => DecisionsOn(id)' = {}
  BY <1>1, <1>2, <1>3, <1>4 DEF DecisionInv
<1>6. \A t, u \in InFlight' : \A id \in Nat : Decides(t, id)' /\ Decides(u, id)' => t = u
  BY <1>2, <1>3 DEF DecisionInv
<1>7. \A a \in Agents : pc'[a] \in Undecided => \A r \in tx'[a].rows :
          /\ DecisionsOn(r.id)' = {}
          /\ \A t \in InFlight' : ~Decides(t, r.id)'
  BY <1>1, <1>2, <1>3 DEF DecisionInv
<1>8. \A a, b \in Agents : a # b /\ pc'[a] \in Undecided /\ pc'[b] \in Undecided =>
          Disjoint(tx'[a], tx'[b])
  BY DEF DecisionInv
<1>9. \A d \in events' : d.agent_id = SystemRouter =>
          \E r \in events' : /\ {l \in causal_links' : l[2] = d.id} = {<<r.id, d.id>>}
                             /\ r.type # RoutingDecision
                             /\ <<r.agent_id, r.type>> \in Routed
  BY DEF DecisionInv
<1>10. \A id \in Nat : \A c, d \in DecisionsOn(id)' : c = d
  BY <1>1 DEF DecisionInv
<1> QED BY <1>5, <1>6, <1>7, <1>8, <1>9, <1>10 DEF DecisionInv, Disjoint

(* A commit adds to the decisions on an event those that its transaction makes. *)
LEMMA CommitDecides ==
    ASSUME TypeOK, IInv, NEW t \in Transaction, Unsaved(t), Commit(t), NEW id
    PROVE  /\ \A d \in DecisionsOn(id)' : d \in DecisionsOn(id) \/
                (d \in t.rows /\ d.agent_id = SystemRouter /\ <<id, d.id>> \in t.links)
           /\ ~Decides(t, id) => DecisionsOn(id)' = DecisionsOn(id)
<1>1. events' = events \cup t.rows /\ causal_links' = causal_links \cup t.links
  BY DEF Commit
<1>2. \A d \in events : \A l \in t.links : l[2] # d.id
  BY DEF Unsaved, IdsOf
<1>3. \A d \in t.rows : \A l \in causal_links : l[2] # d.id
  BY DEF Unsaved, IdsOf, IInv, StoreInv
<1>4. ASSUME NEW d \in DecisionsOn(id)'
      PROVE  d \in DecisionsOn(id) \/
               (d \in t.rows /\ d.agent_id = SystemRouter /\ <<id, d.id>> \in t.links)
  BY <1>1, <1>2, <1>3 DEF DecisionsOn
<1>5. DecisionsOn(id) \subseteq DecisionsOn(id)'
  BY <1>1, DecisionsGrow
<1> QED BY <1>4, <1>5 DEF Decides

(* A commit by a call that has emitted an event, or of a decision. *)
LEMMA CommitKeepsDecisions ==
    ASSUME TypeOK, IInv, DecisionInv, NEW t \in InFlight, Commit(t),
           \A u \in InFlight' : u \in InFlight /\ Disjoint(u, t),
           \A a \in Agents : pc'[a] \in Undecided =>
              \/ pc[a] \in Undecided /\ tx'[a] = tx[a]
              \/ /\ tx'[a] = t
                 /\ \A r \in t.rows : r.agent_id # SystemRouter
                 /\ \A b \in Agents \ {a} :
                       pc'[b] \in Undecided => pc[b] \in Undecided /\ tx'[b] = tx[b]
    PROVE  DecisionInv'
<1>1. t \in Transaction /\ Unsaved(t)
  BY InFlightUnsaved
<1>2. events' = events \cup t.rows /\ causal_links' = causal_links \cup t.links
  BY DEF Commit
<1>3. ASSUME NEW u, NEW id PROVE Decides(u, id)' <=> Decides(u, id)
  BY DEF Decides
<1>4. \A d \in events' : d.agent_id = SystemRouter =>
          \E r \in events' : /\ {l \in causal_links' : l[2] = d.id} = {<<r.id, d.id>>}
                             /\ r.type # RoutingDecision
                             /\ <<r.agent_id, r.type>> \in Routed
  <2> SUFFICES ASSUME NEW d \in events', d.agent_id = SystemRouter
               PROVE  \E r \in events' :
                         /\ {l \in causal_links' : l[2] = d.id} = {<<r.id, d.id>>}
                         /\ r.type # RoutingDecision
                         /\ <<r.agent_id, r.type>> \in Routed
    OBVIOUS
  <2>1. CASE d \in events
    <3>1. \A l \in t.links : l[2] # d.id
      BY <1>1, <2>1 DEF Unsaved, IdsOf
    <3>2. {l \in causal_links' : l[2] = d.id} = {l \in causal_links : l[2] = d.id}
      BY <1>2, <3>1
    <3>3. PICK r \in events : /\ {l \in causal_links : l[2] = d.id} = {<<r.id, d.id>>}
                              /\ r.type # RoutingDecision
                              /\ <<r.agent_id, r.type>> \in Routed
      BY <2>1 DEF DecisionInv
    <3> QED BY <1>2, <3>2, <3>3
  <2>2. CASE d \in t.rows
    <3>1. \A l \in causal_links : l[2] # d.id
      BY <1>1, <2>2 DEF Unsaved, IdsOf, IInv, StoreInv
    <3>2. {l \in causal_links' : l[2] = d.id} = {l \in t.links : l[2] = d.id}
      BY <1>2, <3>1
    <3>3. PICK c \in t.rows, r \in events :
             /\ t.rows = {c}
             /\ t.links = {<<r.id, c.id>>}
             /\ r.type # RoutingDecision
             /\ <<r.agent_id, r.type>> \in Routed
      BY <2>2 DEF DecisionInv, Grounded
    <3>4. c = d
      BY <2>2, <3>3
    <3>5. {l \in t.links : l[2] = d.id} = {<<r.id, d.id>>}
      BY <3>3, <3>4
    <3> QED BY <1>2, <3>2, <3>3, <3>5
  <2> QED BY <1>2, <2>1, <2>2
<1>5. \A id \in Nat : \A c, d \in DecisionsOn(id)' : c = d
  <2> SUFFICES ASSUME NEW id \in Nat, NEW c \in DecisionsOn(id)', NEW d \in DecisionsOn(id)'
               PROVE  c = d
    OBVIOUS
  <2>1. CASE ~Decides(t, id)
    BY <1>1, <2>1, CommitDecides DEF DecisionInv
  <2>2. CASE Decides(t, id)
    <3>1. DecisionsOn(id) = {}
      BY <2>2 DEF DecisionInv
    <3>2. c \in t.rows /\ d \in t.rows /\ c.agent_id = SystemRouter
      BY <1>1, <3>1, CommitDecides
    <3>3. PICK e \in t.rows : t.rows = {e}
      BY <3>2 DEF DecisionInv, Grounded
    <3> QED BY <3>2, <3>3
  <2> QED BY <2>1, <2>2
<1>6. ASSUME NEW u \in InFlight' PROVE \A id \in Nat : ~(Decides(t, id) /\ Decides(u, id))
  <2> SUFFICES ASSUME NEW id \in Nat, Decides(t, id), Decides(u, id) PROVE FALSE
    OBVIOUS
  <2>1. t = u
    BY <1>6 DEF DecisionInv
  <2>2. \E d \in t.rows : d.id \in IdsOf(t.rows)
    BY DEF Decides, IdsOf
  <2> QED BY <1>6, <2>1, <2>2 DEF Disjoint
<1>7. ASSUME NEW u \in InFlight'
      PROVE  /\ Grounded(u)'
             /\ \A id \in Nat : Decides(u, id)' => DecisionsOn(id)' = {}
  <2>1. Grounded(u)'
    BY <1>2, <1>7 DEF DecisionInv, Grounded
  <2>2. ASSUME NEW id \in Nat, Decides(u, id) PROVE DecisionsOn(id)' = {}
    <3>1. ~Decides(t, id)
      BY <1>6, <1>7, <2>2
    <3>2. DecisionsOn(id) = {}
      BY <1>7, <2>2 DEF DecisionInv
    <3> QED BY <1>1, <3>1, <3>2, CommitDecides
  <2> QED BY <1>3, <2>1, <2>2
<1>8. \A u, v \in InFlight' : \A id \in Nat : Decides(u, id)' /\ Decides(v, id)' => u = v
  BY <1>3 DEF DecisionInv
<1>9. ASSUME NEW a \in Agents, pc[a] \in Undecided, NEW r \in tx[a].rows
      PROVE  DecisionsOn(r.id)' = {} /\ \A u \in InFlight' : ~Decides(u, r.id)'
  <2>1. DecisionsOn(r.id) = {} /\ \A u \in InFlight : ~Decides(u, r.id)
    BY <1>9 DEF DecisionInv
  <2> QED BY <1>1, <1>3, <2>1, CommitDecides
<1>10. ASSUME \A r \in t.rows : r.agent_id # SystemRouter, NEW r \in t.rows
       PROVE  DecisionsOn(r.id)' = {} /\ \A u \in InFlight' : ~Decides(u, r.id)'
  <2>1. r.id \notin IdsOf(events)
    BY <1>1 DEF Unsaved
  <2>2. DecisionsOn(r.id) = {}
    BY <2>1 DEF DecisionsOn, IInv, StoreInv
  <2>3. ~Decides(t, r.id)
    BY <1>10 DEF Decides
  <2>4. \A u \in InFlight : ~Decides(u, r.id)
    BY <2>1, InFlightUnsaved DEF Decides, Unsaved
  <2> QED BY <1>1, <1>3, <2>2, <2>3, <2>4, CommitDecides
<1>11. \A a \in Agents : pc'[a] \in Undecided => \A r \in tx'[a].rows :
          /\ DecisionsOn(r.id)' = {}
          /\ \A u \in InFlight' : ~Decides(u, r.id)'
  BY <1>9, <1>10
<1>12. ASSUME NEW a \in Agents, pc[a] \in Undecided
       PROVE  Disjoint(tx[a], t) /\ Disjoint(t, tx[a])
  <2>1. IdsOf(tx[a].rows) \subseteq IdsOf(events)
    BY <1>12 DEF IInv, CallInv, Saved, Undecided, ProjectPoints
  <2>2. IdsOf(t.rows) \cap IdsOf(events) = {}
    BY <1>1 DEF Unsaved, IdsOf
  <2> QED BY <2>1, <2>2 DEF Disjoint
<1>13. \A a, b \in Agents : a # b /\ pc'[a] \in Undecided /\ pc'[b] \in Undecided =>
          Disjoint(tx'[a], tx'[b])
  BY <1>12 DEF DecisionInv
<1>14. (\A a, b \in Agents : a # b /\ pc[a] \in Undecided /\ pc[b] \in Undecided =>
          Disjoint(tx[a], tx[b]))'
  BY <1>13 DEF Disjoint
<1> QED BY <1>4, <1>5, <1>7, <1>8, <1>11, <1>14 DEF DecisionInv

(* emit turns to the decision on its event. *)
LEMMA RoutingKeepsDecisions ==
    ASSUME TypeOK, IInv, DecisionInv, NEW a \in Agents, CallRecord(a), RouteToDecision(a)
    PROVE  DecisionInv'
<1>1. PICK r \in tx[a].rows :
        /\ Matches(a, r)
        /\ tx' = [tx EXCEPT ![a] =
                    SaveEvent(Row(nextId, RoutingDecision, ProcessOf[a],
                                  SystemRouter, NoKey), {r.id})]
  BY DEF RouteToDecision
<1>0. PICK d, t : /\ d = Row(nextId, RoutingDecision, ProcessOf[a], SystemRouter, NoKey)
                   /\ t = SaveEvent(d, {r.id})
  OBVIOUS
<1>2. /\ t.rows = {d} /\ t.links = {<<r.id, d.id>>} /\ d.agent_id = SystemRouter
  BY <1>0 DEF SaveEvent, Row
<1>3. /\ pc[a] = "route" /\ pc' = [pc EXCEPT ![a] = "save_decision"]
      /\ tx' = [tx EXCEPT ![a] = t]
      /\ UNCHANGED <<events, causal_links, orphans>>
  BY <1>0, <1>1 DEF RouteToDecision, Goto, store
<1>4. r \in events /\ r.type # RoutingDecision /\ <<r.agent_id, r.type>> \in Routed
  BY <1>1, <1>3 DEF CallRecord, Undecided, Matches
<1>5. \A u \in InFlight' : u \in InFlight \/ u = t
  BY <1>3 DEF InFlight, TypeOK, SavePoints
<1>6. \A b \in Agents : pc'[b] \in Undecided =>
        b # a /\ pc[b] \in Undecided /\ tx'[b] = tx[b]
  BY <1>3 DEF TypeOK, Undecided
<1>7. \A id : DecisionsOn(id)' = DecisionsOn(id)
  BY <1>3 DEF DecisionsOn
<1>8. ASSUME NEW u, NEW id PROVE Decides(u, id)' <=> Decides(u, id)
  BY DEF Decides
<1>9. \A id : Decides(t, id) => id = r.id
  BY <1>2 DEF Decides
<1>10. DecisionsOn(r.id) = {} /\ \A u \in InFlight : ~Decides(u, r.id)
  BY <1>3 DEF DecisionInv, Undecided
<1>11. r.id \in Nat
  BY <1>4 DEF TypeOK, EventRow
<1>12. ASSUME NEW u \in InFlight'
       PROVE  /\ Grounded(u)'
              /\ \A id \in Nat : Decides(u, id)' => DecisionsOn(id)' = {}
  <2>1. CASE u = t
    <3>1. Grounded(t)'
      BY <1>2, <1>3, <1>4 DEF Grounded
    <3> QED BY <2>1, <3>1, <1>7, <1>8, <1>9, <1>10
  <2>2. CASE u \in InFlight
    <3>1. Grounded(u)'
      BY <2>2, <1>3 DEF DecisionInv, Grounded
    <3> QED BY <2>2, <3>1, <1>7, <1>8 DEF DecisionInv
  <2> QED BY <1>5, <1>12, <2>1, <2>2
<1>13. \A u, v \in InFlight' : \A id \in Nat : Decides(u, id)' /\ Decides(v, id)' => u = v
  BY <1>5, <1>8, <1>9, <1>10 DEF DecisionInv
<1>14. ASSUME NEW b \in Agents, pc'[b] \in Undecided, NEW s \in tx'[b].rows
       PROVE  DecisionsOn(s.id)' = {} /\ \A u \in InFlight' : ~Decides(u, s.id)'
  <2>1. b # a /\ pc[b] \in Undecided /\ s \in tx[b].rows
    BY <1>6, <1>14
  <2>2. DecisionsOn(s.id) = {} /\ \A u \in InFlight : ~Decides(u, s.id)
    BY <2>1 DEF DecisionInv
  <2>3. Disjoint(tx[a], tx[b])
    BY <1>3, <2>1 DEF DecisionInv, Undecided
  <2>4. s.id # r.id
    BY <2>1, <2>3 DEF Disjoint, IdsOf
  <2> QED BY <1>5, <1>7, <1>8, <1>9, <2>2, <2>4
<1>15. (\A b, c \in Agents : b # c /\ pc[b] \in Undecided /\ pc[c] \in Undecided =>
          Disjoint(tx[b], tx[c]))'
  BY <1>6 DEF DecisionInv, Disjoint
<1>16. (\A c \in events : c.agent_id = SystemRouter =>
          \E s \in events : /\ {l \in causal_links : l[2] = c.id} = {<<s.id, c.id>>}
                            /\ s.type # RoutingDecision
                            /\ <<s.agent_id, s.type>> \in Routed)'
  BY <1>3 DEF DecisionInv
<1>17. \A id \in Nat : \A b, c \in DecisionsOn(id)' : b = c
  BY <1>7 DEF DecisionInv
<1> QED BY <1>12, <1>13, <1>14, <1>15, <1>16, <1>17 DEF DecisionInv

(* Every step keeps the invariant of the decisions. *)
LEMMA DecisionsKept ==
    ASSUME TypeOK, IInv, DecisionInv, \A a \in Agents : CallRecord(a), [Next]_vars
    PROVE  DecisionInv'
<1> USE DEF store, graph, local, Goto
<1>1. ASSUME NEW a \in Agents, Call(a) PROVE DecisionInv'
  <2>1. ASSUME NEW type \in Types, NEW key \in Keys \cup {NoKey},
               NEW ps \in ParentSets, Emit(a, type, key, ps)
        PROVE  DecisionInv'
    <3>1. \A t \in InFlight' : t \in InFlight
      BY <2>1 DEF Emit, InFlight, SavePoints, TypeOK
    <3>2. \A b \in Agents : pc'[b] \in Undecided => pc[b] \in Undecided /\ tx'[b] = tx[b]
      BY <2>1 DEF Emit, Undecided, TypeOK
    <3> QED BY <2>1, <3>1, <3>2, NothingDecided DEF Emit
  <2>2. ASSUME NEW n \in 0 .. MaxBatch + 1, NEW types \in [1 .. n -> Types],
               BatchEmit(a, n, types)
        PROVE  DecisionInv'
    <3>1. \A r \in tx'[a].rows : r.agent_id # SystemRouter
      BY <2>2 DEF BatchEmit, SaveEvents, Row, TypeOK
    <3>2. \A b \in Agents \ {a} : pc'[b] = pc[b] /\ tx'[b] = tx[b]
      BY <2>2 DEF BatchEmit, TypeOK
    <3>3. UNCHANGED <<events, causal_links, orphans>> /\ pc'[a] = "save_batch"
      BY <2>2 DEF BatchEmit, TypeOK
    <3>4. \A t \in InFlight' : t \in InFlight \/ t = tx'[a]
      BY <3>2, <3>3 DEF InFlight
    <3>5. \A b \in Agents : pc'[b] \in Undecided => pc[b] \in Undecided /\ tx'[b] = tx[b]
      BY <3>2, <3>3 DEF Undecided
    <3> QED BY <3>1, <3>3, <3>4, <3>5, NothingDecided
  <2> QED BY <1>1, <2>1, <2>2 DEF Call
<1>2. ASSUME NEW a \in Agents, Leave(a), UNCHANGED <<events, causal_links>>,
             orphans' = orphans \/ (orphans' = orphans \cup {tx[a]} /\ pc[a] \in SavePoints)
      PROVE  DecisionInv'
  <2>1. \A t \in InFlight' : t \in InFlight
    BY <1>2 DEF Leave, InFlight, SavePoints, TypeOK
  <2>2. \A b \in Agents : pc'[b] \in Undecided => pc[b] \in Undecided /\ tx'[b] = tx[b]
    BY <1>2 DEF Leave, Undecided, TypeOK
  <2> QED BY <1>2, <2>1, <2>2, NothingDecided
<1>3. ASSUME NEW a \in Agents,
             \/ ReturnExisting(a) \/ MissKey(a) \/ Project(a) \/ ProjectGivesUp(a)
             \/ Notify(a) \/ RouteNowhere(a)
      PROVE  DecisionInv'
  <2>1. UNCHANGED <<events, causal_links, orphans, tx>>
    BY <1>3 DEF ReturnExisting, MissKey, Project, ProjectGivesUp, Notify, RouteNowhere
  <2>2. \A b \in Agents : /\ pc'[b] \in SavePoints => pc[b] \in SavePoints
                          /\ pc'[b] \in Undecided => pc[b] \in Undecided
    BY <1>3 DEF ReturnExisting, MissKey, Project, ProjectGivesUp, Notify, RouteNowhere,
                AfterProject, SavePoints, ProjectPoints, Undecided, TypeOK
  <2>3. \A t \in InFlight' : t \in InFlight
    BY <2>1, <2>2 DEF InFlight
  <2> QED BY <2>1, <2>2, <2>3, NothingDecided
<1>4. ASSUME NEW a \in Agents, Construct(a) PROVE DecisionInv'
  <2>1. \A r \in tx'[a].rows : r.agent_id # SystemRouter
    BY <1>4 DEF Construct, SaveEvent, Row, TypeOK
  <2>2. \A b \in Agents \ {a} : pc'[b] = pc[b] /\ tx'[b] = tx[b]
    BY <1>4 DEF Construct, TypeOK
  <2>3. UNCHANGED <<events, causal_links, orphans>> /\ pc'[a] = "save"
    BY <1>4 DEF Construct, TypeOK
  <2>4. \A t \in InFlight' : t \in InFlight \/ t = tx'[a]
    BY <2>2, <2>3 DEF InFlight
  <2>5. \A b \in Agents : pc'[b] \in Undecided => pc[b] \in Undecided /\ tx'[b] = tx[b]
    BY <2>2, <2>3 DEF Undecided
  <2> QED BY <2>1, <2>3, <2>4, <2>5, NothingDecided
<1>5. ASSUME NEW a \in Agents, Save(a) PROVE DecisionInv'
  <2>1. /\ pc[a] \in SavePoints /\ Commit(tx[a])
        /\ pc' = [pc EXCEPT ![a] = AfterSave(pc[a])]
        /\ UNCHANGED <<orphans, tx>>
    BY <1>5 DEF Save, ReachesCommit, Writes
  <2>2. pc'[a] \in ProjectPoints
    BY <2>1 DEF AfterSave, SavePoints, ProjectPoints, TypeOK
  <2>3. tx[a] \in InFlight
    BY <2>1 DEF InFlight
  <2>4. ASSUME NEW u \in InFlight' PROVE u \in InFlight /\ Disjoint(u, tx[a])
    <3>1. CASE u \in orphans
      BY <2>1, <3>1 DEF InFlight, IInv, InFlightInv
    <3>2. CASE u \notin orphans
      <4>1. PICK b \in Agents : u = tx[b] /\ pc'[b] \in SavePoints
        BY <2>1, <2>4, <3>2 DEF InFlight
      <4>2. b # a /\ pc[b] \in SavePoints
        BY <2>1, <2>2, <4>1 DEF SavePoints, ProjectPoints, TypeOK
      <4> QED BY <2>1, <4>1, <4>2 DEF InFlight, IInv, InFlightInv
    <3> QED BY <3>1, <3>2
  <2>5. pc'[a] \in Undecided => \A r \in tx[a].rows : r.agent_id # SystemRouter
    <3>1. pc'[a] \in Undecided => pc[a] = "save"
      BY <2>1 DEF AfterSave, SavePoints, Undecided, TypeOK
    <3> QED BY <3>1 DEF CallRecord
  <2>6. \A b \in Agents \ {a} : pc'[b] = pc[b]
    BY <2>1 DEF TypeOK
  <2> QED BY <2>1, <2>3, <2>4, <2>5, <2>6, CommitKeepsDecisions
<1>6. ASSUME NEW a \in Agents, Step(a) PROVE DecisionInv'
  <2>1. CASE \/ LookupRaises(a) \/ RejectInvalid(a) \/ RefuseBatch(a) \/ SaveRollsBack(a)
             \/ SaveUnacknowledged(a) \/ Return(a)
    BY <2>1, <1>2 DEF LookupRaises, RejectInvalid, RefuseBatch, SaveRollsBack,
                      SaveUnacknowledged, ReachesCommit, Writes, Return
  <2> QED BY <1>3, <1>4, <1>5, <1>6, <2>1, RoutingKeepsDecisions DEF Step
<1>7. ASSUME NEW a \in Agents, Crash(a) PROVE DecisionInv'
  BY <1>2, <1>7 DEF Crash, ReachesCommit, Writes
<1>8. ASSUME NEW t \in orphans, OrphanCommits(t) PROVE DecisionInv'
  <2>1. t \in InFlight /\ Commit(t) /\ orphans' = orphans \ {t} /\ UNCHANGED <<pc, tx>>
    BY <1>8 DEF OrphanCommits, InFlight
  <2>2. \A u \in InFlight' : u \in InFlight /\ Disjoint(u, t)
    BY <2>1 DEF InFlight, IInv, InFlightInv, Disjoint
  <2> QED BY <2>1, <2>2, CommitKeepsDecisions
<1>9. ASSUME NEW t \in orphans, OrphanAborts(t) PROVE DecisionInv'
  <2>1. \A u \in InFlight' : u \in InFlight
    BY <1>9 DEF OrphanAborts, InFlight
  <2> QED BY <1>9, <2>1, NothingDecided DEF OrphanAborts
<1>10. CASE UNCHANGED vars
  <2>1. \A u \in InFlight' : u \in InFlight
    BY <1>10 DEF vars, InFlight
  <2> QED BY <1>10, <2>1, NothingDecided DEF vars
<1> QED BY <1>1, <1>6, <1>7, <1>8, <1>9, <1>10 DEF Next, Server

(* Each stored event has at most one decision, stored or in flight, whatever
   agents interleave and whichever commits are never acknowledged. *)
THEOREM DecisionsInvariance == Spec => []DecisionInv
<1>1. Init => DecisionInv
  BY DEF Init, DecisionInv, DecisionsOn, InFlight, SavePoints, Undecided
<1>2. TypeOK /\ IInv /\ DecisionInv /\ (\A a \in Agents : CallRecord(a)) /\ [Next]_vars
        => DecisionInv'
  BY DecisionsKept
<1> QED BY <1>1, <1>2, TypeCorrect, Invariance, Records, PTL DEF Spec

------------------------------------------------------------------------------
(* A set without two different members has at most one. *)
LEMMA AtMostOne ==
    ASSUME NEW S, \A x, y \in S : x = y PROVE Cardinality(S) <= 1
<1>1. CASE S = {}
  BY <1>1, FS_EmptySet
<1>2. CASE S # {}
  <2>1. PICK x \in S : S = {x}
    BY <1>2
  <2> QED BY <2>1, FS_Singleton
<1> QED BY <1>1, <1>2

(* Every decision is the child of one event that matches a rule of its agent, and
   no event is decided twice. *)
THEOREM DecisionsSound == Spec => []DecisionsAreSound
<1>1. TypeOK /\ DecisionInv => DecisionsAreSound
  BY IdsAreNat, AtMostOne DEF DecisionInv, DecisionsAreSound
<1> QED BY <1>1, TypeCorrect, DecisionsInvariance, PTL

(* A call with a key returns an event emitted with it in the agent's process,
   whoever emitted it and whenever. *)
THEOREM ReturnedIsOfKey == Spec => []ReturnedCarriesKey
<1>1. (\A a \in Agents : CallRecord(a)) => ReturnedCarriesKey
  BY DEF CallRecord, ReturnedCarriesKey
<1> QED BY <1>1, Records, PTL

(* A call that constructed its event returns after its subscribers were called
   and, if it matches a rule, after the decision on it was stored. *)
THEOREM FreshIsSettled == Spec => []FreshReturnIsSettled
<1>1. (\A a \in Agents : CallRecord(a)) => FreshReturnIsSettled
  BY DEF CallRecord, FreshReturnIsSettled
<1> QED BY <1>1, Records, PTL

------------------------------------------------------------------------------
(* The projection of an event is a call of the projector: what it does to the
   graph is an effect that the contract Projection allows.  Nodes and
   relationships are told apart by their label; the statements of a call are one
   per event and one per parent. *)
Node(n) == [label |-> "Event", of |-> n]
Caused(l) == [label |-> "CAUSED", of |-> l]
Items == {Node(n) : n \in nodes} \cup {Caused(l) : l \in edges}
MergeNode(n) == [match |-> {}, merge |-> {Node(n)}]
MergeCaused(l) == [match |-> {Node(l[1]), Node(l[2])}, merge |-> {Caused(l)}]
Statements(a) == {MergeNode(n) : n \in IdsOf(tx[a].rows)}
                     \cup {MergeCaused(l) : l \in tx[a].links}

Contract == INSTANCE Projection WITH
                Operations <- {}, Foreign <- {}, graph <- Items, call <- {},
                began <- Items, answer <- FALSE

(* The statements for the nodes ns and the links ls. *)
Part(ns, ls) == {MergeNode(n) : n \in ns} \cup {MergeCaused(l) : l \in ls}

(* Merging some nodes, and then links between nodes that are there, is the effect
   of their statements. *)
LEMMA PartTakesEffect ==
    ASSUME NEW ns, NEW ls, nodes' = nodes \cup ns, edges' = edges \cup ls,
           \A l \in ls : {l[1], l[2]} \subseteq nodes'
    PROVE  Contract!Effect(Part(ns, ls))
<1> DEFINE merged == UNION {s.merge : s \in Part(ns, ls)}
<1>1. \A s \in Part(ns, ls) : s.match \subseteq Items'
  BY DEF Part, Items, MergeNode, MergeCaused
<1>2. ASSUME NEW x \in merged PROVE x \in Items'
  BY <1>2 DEF Part, Items, MergeNode, MergeCaused
<1>3. ASSUME NEW x \in Items' PROVE x \in Items \cup merged
  <2>1. CASE \E n \in nodes : x = Node(n)
    BY <2>1 DEF Items
  <2>2. CASE \E l \in edges : x = Caused(l)
    BY <2>2 DEF Items
  <2>3. CASE \E n \in ns : x = Node(n)
    <3>1. PICK n \in ns : x = Node(n)
      BY <2>3
    <3>2. MergeNode(n) \in Part(ns, ls) /\ x \in MergeNode(n).merge
      BY <3>1 DEF Part, MergeNode
    <3> QED BY <3>2
  <2>4. CASE \E l \in ls : x = Caused(l)
    <3>1. PICK l \in ls : x = Caused(l)
      BY <2>4
    <3>2. MergeCaused(l) \in Part(ns, ls) /\ x \in MergeCaused(l).merge
      BY <3>1 DEF Part, MergeCaused
    <3> QED BY <3>2
  <2> QED BY <1>3, <2>1, <2>2, <2>3, <2>4 DEF Items
<1>4. Items \subseteq Items'
  BY DEF Items
<1>5. Items' = Items \cup merged
  BY <1>2, <1>3, <1>4
<1> QED BY <1>1, <1>5 DEF Contract!Effect

(* An event has its node in the graph exactly if the node is among the items. *)
LEMMA NodeIsItem == \A n : Node(n) \in Items' <=> n \in nodes'
<1>1. \A n, m : Node(n) = Node(m) => n = m
  BY DEF Node
<1>2. \A n, l : Node(n) # Caused(l)
  BY DEF Node, Caused
<1> QED BY <1>1, <1>2 DEF Items

(* A projection that succeeds has an effect, complete over the graph it found, as
   the contract's Succeeds does, one that gives up an effect as its GivesUp does,
   and nothing else touches the graph. *)
GraphStep ==
    /\ \A a \in Agents :
           /\ Project(a) =>
                 \E S \in SUBSET Statements(a) :
                     Contract!Effect(S) /\ Contract!Complete(S, Statements(a), Items)
           /\ ProjectGivesUp(a) =>
                 \E S \in SUBSET Statements(a) : Contract!Effect(S)
    /\ (\A a \in Agents : ~Project(a) /\ ~ProjectGivesUp(a)) => UNCHANGED graph

GraphFollowsContract == [][GraphStep]_vars

(* The two projection actions are those of the contract that the projector is
   shown to implement, with whatever else interleaves and fails. *)
THEOREM GraphByContract == Spec => GraphFollowsContract
<1>1. ASSUME IInv, TypeOK, NEW a \in Agents, Project(a)
      PROVE  \E S \in SUBSET Statements(a) :
                Contract!Effect(S) /\ Contract!Complete(S, Statements(a), Items)
  <2> DEFINE ns == IdsOf(tx[a].rows)
             ls == {l \in tx[a].links : l[1] \in nodes'}
             S  == {s \in Statements(a) : s.match \subseteq Items'}
  <2>1. nodes' = nodes \cup ns /\ edges' = edges \cup ls /\ pc[a] \in ProjectPoints
    BY <1>1 DEF Project
  <2>2. \A l \in tx[a].links : l[2] \in nodes'
    BY <1>1, <2>1 DEF IInv, CallInv, Saved
  <2>3. Contract!Effect(Part(ns, ls))
    BY <2>1, <2>2, PartTakesEffect
  <2>4. ASSUME NEW n PROVE MergeNode(n).match \subseteq Items'
    BY DEF MergeNode
  <2>5. ASSUME NEW l \in tx[a].links
        PROVE  MergeCaused(l).match \subseteq Items' <=> l[1] \in nodes'
    BY <2>2, NodeIsItem DEF MergeCaused
  <2>6. ASSUME NEW s \in S PROVE s \in Part(ns, ls)
    BY <2>5 DEF Statements, Part
  <2>7. ASSUME NEW s \in Part(ns, ls) PROVE s \in S
    BY <2>4, <2>5 DEF Statements, Part
  <2>8. S = Part(ns, ls)
    BY <2>6, <2>7
  <2>9. Contract!Effect(S)
    BY <2>3, <2>8
  <2>10. Items \cup UNION {s.merge : s \in S} = Items'
    BY <2>9 DEF Contract!Effect
  <2>11. Contract!Complete(S, Statements(a), Items)
    BY <2>10 DEF Contract!Complete
  <2>12. S \in SUBSET Statements(a)
    OBVIOUS
  <2> HIDE DEF S
  <2> QED BY <2>9, <2>11, <2>12
<1>2. ASSUME NEW a \in Agents, ProjectGivesUp(a)
      PROVE  \E S \in SUBSET Statements(a) : Contract!Effect(S)
  <2>1. PICK ns \in SUBSET IdsOf(tx[a].rows) :
          /\ nodes' = nodes \cup ns
          /\ \E ls \in SUBSET {l \in tx[a].links : {l[1], l[2]} \subseteq nodes'} :
                 edges' = edges \cup ls
    BY <1>2 DEF ProjectGivesUp
  <2>2. PICK ls \in SUBSET {l \in tx[a].links : {l[1], l[2]} \subseteq nodes'} :
          edges' = edges \cup ls
    BY <2>1
  <2>3. Contract!Effect(Part(ns, ls))
    BY <2>1, <2>2, PartTakesEffect
  <2>4. Part(ns, ls) \subseteq Statements(a)
    BY DEF Part, Statements
  <2> QED BY <2>3, <2>4
<1>3. ASSUME [Next]_vars, \A a \in Agents : ~Project(a) /\ ~ProjectGivesUp(a)
      PROVE  UNCHANGED graph
  <2>1. ASSUME NEW a \in Agents, Call(a) PROVE UNCHANGED graph
    BY <2>1 DEF Call, Emit, BatchEmit
  <2>2. ASSUME NEW a \in Agents, Step(a) PROVE UNCHANGED graph
    BY <1>3, <2>2 DEF Step, ReturnExisting, MissKey, LookupRaises, RejectInvalid,
                Construct, RefuseBatch, Save, SaveRollsBack, SaveUnacknowledged,
                Notify, RouteToDecision, RouteNowhere, Return
  <2>3. ASSUME NEW a \in Agents, Crash(a) PROVE UNCHANGED graph
    BY <2>3 DEF Crash
  <2>4. ASSUME Server PROVE UNCHANGED graph
    BY <2>4 DEF Server, OrphanCommits, OrphanAborts
  <2> QED BY <1>3, <2>1, <2>2, <2>3, <2>4 DEF Next, vars
<1>4. TypeOK /\ IInv /\ [Next]_vars => [GraphStep]_vars
  BY <1>1, <1>2, <1>3 DEF GraphStep
<1> QED BY <1>4, TypeCorrect, Invariance, PTL DEF GraphFollowsContract, Spec
===============================================================================
