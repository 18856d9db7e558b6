-------------------------- MODULE EntityStore_proofs --------------------------
(* Entity snapshots: what EntityStore keeps for any number of agents, snapshots
   and relations, and any failures. *)
EXTENDS EntityStore, TLAPS

(* A commit takes nothing away and adds rows of its transaction only. *)
LEMMA CommitGrows ==
    ASSUME NEW t, Commit(t)
    PROVE  /\ entities \subseteq entities' /\ entities' \subseteq entities \cup t.entities
           /\ relations \subseteq relations'
           /\ relations' \subseteq relations \cup t.relations
BY DEF Commit

(* Merging a well-formed transaction keeps the graph well-formed. *)
LEMMA MergeType ==
    ASSUME TypeOK, NEW t \in Transaction, Merge(t)
    PROVE  /\ nodes' \subseteq EntityIds
           /\ props' \subseteq {<<id, kv[1], kv[2]>> : id \in EntityIds, kv \in Attributes}
           /\ edges' \subseteq Relations
<1>1. /\ t.entities \subseteq Snapshot /\ t.relations \subseteq Relations
      /\ \A r \in t.entities : r.id \in EntityIds /\ r.attributes \subseteq Attributes
  BY DEF Transaction, Snapshot
<1>2. nodes' \subseteq EntityIds
  BY <1>1 DEF Merge, TypeOK
<1>3. ASSUME NEW p \in props'
      PROVE  p \in {<<id, kv[1], kv[2]>> : id \in EntityIds, kv \in Attributes}
  <2>1. CASE p \in props
    BY <2>1 DEF TypeOK
  <2>2. CASE p \notin props
    <3>1. PICK r \in t.entities : \E kv \in r.attributes : p = <<r.id, kv[1], kv[2]>>
      BY <2>2 DEF Merge
    <3> QED BY <3>1, <1>1
  <2> QED BY <2>1, <2>2
<1>4. edges' \subseteq Relations
  BY <1>1 DEF Merge, TypeOK
<1> QED BY <1>2, <1>3, <1>4

(* What BuildEntity builds. *)
Built(d) == LET date == IF d.valid_from = Unset THEN now ELSE d.valid_from
            IN  [d EXCEPT !.valid_from = date]

LEMMA BuiltSnapshot ==
    ASSUME NEW a \in Agents, NEW d \in Drafts[a], now \in Nat
    PROVE  /\ Built(d) \in Snapshot /\ SameContent(Built(d), d)
           /\ d.valid_from \in Nat \cup {Unset}
           /\ Built(d).valid_from = IF d.valid_from = Unset THEN now ELSE d.valid_from
<1>1. d \in Draft
  BY ConstantsAssumption DEF ConstantsAssumption
<1>2. d \in [id : EntityIds, version : Versions, attributes : SUBSET Attributes,
            valid_to : Nat \cup {Never}, valid_from : Nat \cup {Unset}]
  BY <1>1 DEF Draft
<1> QED BY <1>2 DEF Built, Snapshot, SameContent, SameVersion

(* The tables, the graph and the calls stay well-formed. *)
THEOREM TypeCorrect == Spec => []TypeOK
<1>1. Init => TypeOK
  BY DEF Init, TypeOK, NoTx, Transaction
<1>2. TypeOK /\ [Next]_vars => TypeOK'
  <2> SUFFICES ASSUME TypeOK, [Next]_vars PROVE TypeOK'
    OBVIOUS
  <2> USE ConstantsAssumption
  <2>0. NoTx \in Transaction
    BY DEF NoTx, Transaction
  <2>1. ASSUME NEW a \in Agents, NEW d \in Drafts[a], BuildEntity(a, d) PROVE TypeOK'
    <3> DEFINE e == Built(d)
    <3>1. e \in Snapshot
      BY BuiltSnapshot DEF TypeOK
    <3>2. held' = [held EXCEPT ![a] = @ \cup {e}]
      BY <2>1 DEF BuildEntity, Built
    <3> HIDE DEF e
    <3>3. held' \in [Agents -> SUBSET Snapshot]
      BY <3>1, <3>2 DEF TypeOK
    <3> QED BY <2>1, <3>3 DEF BuildEntity, TypeOK, tables, graph
  <2>1a. ASSUME NEW a \in Agents, NEW r \in held[a], ForgetEntity(a, r) PROVE TypeOK'
    <3>1. held' \in [Agents -> SUBSET Snapshot]
      BY <2>1a DEF ForgetEntity, TypeOK
    <3> QED BY <2>1a, <3>1 DEF ForgetEntity, TypeOK, tables, graph
  <2>1b. ASSUME NEW a \in Agents, NEW r \in held[a], SaveEntity(a, r) PROVE TypeOK'
    <3>1. tx' \in [Agents -> Transaction]
      BY <2>1b DEF SaveEntity, Transaction, TypeOK
    <3> QED BY <2>1b, <3>1 DEF SaveEntity, Goto, TypeOK, tables, graph
  <2>2. ASSUME NEW a \in Agents, NEW r \in Relations, SaveRelation(a, r) PROVE TypeOK'
    <3>1. tx' \in [Agents -> Transaction]
      BY <2>2 DEF SaveRelation, NoTx, Transaction, TypeOK
    <3> QED BY <2>2, <3>1 DEF SaveRelation, Goto, TypeOK, tables, graph
  <2>3. ASSUME NEW a \in Agents, Save(a) PROVE TypeOK'
    <3>1. tx[a].entities \subseteq Snapshot /\ tx[a].relations \subseteq Relations
      BY DEF TypeOK, Transaction
    <3>2. entities' \subseteq Snapshot /\ relations' \subseteq Relations
      BY <2>3, <3>1, CommitGrows DEF Save, TypeOK
    <3> QED BY <2>3, <3>2 DEF Save, Goto, TypeOK, graph
  <2>4. ASSUME NEW a \in Agents, SaveRollsBack(a) PROVE TypeOK'
    BY <2>0, <2>4 DEF SaveRollsBack, Fault, Leave, Goto, TypeOK, tables, graph
  <2>5. ASSUME NEW a \in Agents, SaveUnacknowledged(a) PROVE TypeOK'
    BY <2>0, <2>5 DEF SaveUnacknowledged, Fault, Leave, Goto, TypeOK, tables, graph
  <2>6. ASSUME NEW a \in Agents, Project(a) PROVE TypeOK'
    <3>1. tx[a] \in Transaction
      BY DEF TypeOK
    <3>2. /\ nodes' \subseteq EntityIds /\ edges' \subseteq Relations
          /\ props' \subseteq {<<id, kv[1], kv[2]>> : id \in EntityIds, kv \in Attributes}
      BY <2>6, <3>1, MergeType DEF Project
    <3> QED BY <2>0, <2>6, <3>1, <3>2 DEF Project, Return, Leave, Goto, TypeOK, tables
  <2>7. ASSUME NEW a \in Agents, ProjectFails(a) PROVE TypeOK'
    <3>1. tx[a] \in Transaction
      BY DEF TypeOK
    <3>2. /\ nodes' \subseteq EntityIds /\ edges' \subseteq Relations
          /\ props' \subseteq {<<id, kv[1], kv[2]>> : id \in EntityIds, kv \in Attributes}
      <4>1. CASE Merge(tx[a])
        BY <3>1, <4>1, MergeType
      <4>2. CASE UNCHANGED graph
        BY <4>2 DEF graph, TypeOK
      <4> QED BY <2>7, <4>1, <4>2 DEF ProjectFails
    <3>3. /\ pc' \in [Agents -> {"idle", "save", "project"}]
          /\ tx' \in [Agents -> Transaction]
          /\ returned' \subseteq Transaction
      BY <2>0, <2>7, <3>1 DEF ProjectFails, Return, Leave, Goto, TypeOK
    <3> QED BY <2>7, <3>2, <3>3 DEF ProjectFails, Fault, TypeOK, tables
  <2>8. ASSUME NEW a \in Agents, Crash(a) PROVE TypeOK'
    <3>1. held' \in [Agents -> SUBSET Snapshot]
      BY <2>8 DEF Crash, TypeOK
    <3> QED BY <3>1, <2>0, <2>8 DEF Crash, Fault, Leave, Goto, TypeOK, tables, graph
  <2>9. ASSUME NEW t \in orphans, OrphanCommits(t) PROVE TypeOK'
    <3>1. t.entities \subseteq Snapshot /\ t.relations \subseteq Relations
      BY DEF TypeOK, Transaction
    <3>2. entities' \subseteq Snapshot /\ relations' \subseteq Relations
      BY <2>9, <3>1, CommitGrows DEF OrphanCommits, TypeOK
    <3> QED BY <2>9, <3>2 DEF OrphanCommits, TypeOK, graph
  <2>10. ASSUME NEW t \in orphans, OrphanAborts(t) PROVE TypeOK'
    BY <2>10 DEF OrphanAborts, TypeOK, tables, graph
  <2>11. ASSUME NEW id \in EntityIds, LinkEvent(id) PROVE TypeOK'
    BY <2>11 DEF LinkEvent, TypeOK, tables
  <2>12. CASE Tick
    BY <2>12 DEF Tick, TypeOK, tables, graph
  <2>13. CASE UNCHANGED vars
    BY <2>13 DEF vars, TypeOK, tables, graph
  <2> QED BY <2>1, <2>2, <2>3, <2>4, <2>5, <2>6, <2>7, <2>8, <2>9, <2>10, <2>11,
             <2>12, <2>13, <2>1a, <2>1b DEF Next
<1> QED BY <1>1, <1>2, PTL DEF Spec

(* ---------------------------------------------------------------------- *)
(* A commit that finds its snapshots' versions and its relations' ids to mean
   what they mean elsewhere stores everything the transaction has to save. *)
LEMMA CommitStores ==
    ASSUME VersionsAgree, TypeOK, NEW t \in Transaction, Commit(t),
           \A r \in entities : Drafted(r), \A r \in t.entities : Drafted(r)
    PROVE  Stored(t)'
<1>1. ASSUME NEW r \in t.entities PROVE \E s \in entities' : SameContent(r, s)
  <2>1. CASE \A s \in entities : ~SameVersion(r, s)
    <3>1. r \in entities'
      BY <2>1 DEF Commit
    <3> QED BY <3>1 DEF SameContent, SameVersion
  <2>2. CASE \E s \in entities : SameVersion(r, s)
    <3>1. PICK s \in entities : SameVersion(r, s)
      BY <2>2
    <3>2. PICK a \in Agents : \E d \in Drafts[a] : SameContent(r, d)
      BY DEF Drafted
    <3>3. PICK d \in Drafts[a] : SameContent(r, d)
      BY <3>2
    <3>4. PICK b \in Agents : \E e \in Drafts[b] : SameContent(s, e)
      BY DEF Drafted
    <3>5. PICK e \in Drafts[b] : SameContent(s, e)
      BY <3>4
    <3>6. SameVersion(d, e)
      BY <3>1, <3>3, <3>5 DEF SameContent, SameVersion
    <3>7. SameContent(d, e)
      BY <3>6 DEF VersionsAgree
    <3>8. SameContent(r, s)
      BY <3>1, <3>3, <3>5, <3>7 DEF SameContent
    <3>9. s \in entities'
      BY CommitGrows
    <3> QED BY <3>8, <3>9
  <2> QED BY <2>1, <2>2
<1>2. t.relations \subseteq relations'
  <2> SUFFICES ASSUME NEW r \in t.relations PROVE r \in relations'
    OBVIOUS
  <2>1. CASE \A s \in relations : r.id # s.id
    BY <2>1 DEF Commit
  <2>2. CASE \E s \in relations : r.id = s.id
    <3>1. PICK s \in relations : r.id = s.id
      BY <2>2
    <3>2. r \in Relations /\ s \in Relations
      BY DEF TypeOK, Transaction
    <3>3. r = s
      BY <3>1, <3>2 DEF VersionsAgree
    <3> QED BY <3>3, CommitGrows
  <2> QED BY <2>1, <2>2
<1> QED BY <1>1, <1>2 DEF Stored

(* What is stored stays stored while the tables grow. *)
LEMMA StoredStays ==
    ASSUME NEW t, Stored(t), entities \subseteq entities', relations \subseteq relations'
    PROVE  Stored(t)'
BY DEF Stored

(* The graph still shows what is stored when the tables grow under it. *)
LEMMA GraphStaysBehind ==
    ASSUME GraphShowsStored, entities \subseteq entities', relations \subseteq relations',
           UNCHANGED graph
    PROVE  GraphShowsStored'
BY DEF GraphShowsStored, graph

(* Merging a stored transaction shows nothing else. *)
LEMMA MergeShowsStored ==
    ASSUME TypeOK, GraphShowsStored, NEW t \in Transaction, Stored(t), Merge(t),
           UNCHANGED tables
    PROVE  GraphShowsStored'
<1>1. UNCHANGED <<entities, relations>>
  BY DEF tables
<1>2. ASSUME NEW p \in props'
      PROVE  \E r \in entities : r.id = p[1] /\ <<p[2], p[3]>> \in r.attributes
  <2>1. CASE p \in props
    BY <2>1 DEF GraphShowsStored
  <2>2. CASE p \notin props
    <3>0. PICK r \in t.entities : \E kv \in r.attributes : p = <<r.id, kv[1], kv[2]>>
      BY <2>2 DEF Merge
    <3>1. PICK kv \in r.attributes : p = <<r.id, kv[1], kv[2]>>
      BY <3>0
    <3>2. kv = <<kv[1], kv[2]>>
      <4>1. r \in Snapshot
        BY DEF Transaction
      <4>2. kv \in Attributes
        BY <4>1 DEF Snapshot
      <4> QED BY <4>2, ConstantsAssumption
    <3>3. PICK s \in entities : SameContent(r, s)
      BY DEF Stored
    <3>4. s.id = p[1] /\ <<p[2], p[3]>> \in s.attributes
      BY <3>1, <3>2, <3>3 DEF SameContent, SameVersion
    <3> QED BY <3>4
  <2> QED BY <2>1, <2>2
<1>3. edges' \subseteq relations
  BY DEF Merge, GraphShowsStored, Stored
<1> QED BY <1>1, <1>2, <1>3 DEF GraphShowsStored

(* A step that commits nothing and returns nothing keeps the invariant, when the
   calls it touches have nothing left to save or have not saved it yet. *)
LEMMA QuietStepKeeps ==
    ASSUME IInv, UNCHANGED <<tables, graph, returned>>,
           \A o \in orphans' : \A r \in o.entities : Drafted(r),
           \A a \in Agents : \A r \in held'[a] : Drafted(r),
           \A a \in Agents : \/ tx'[a] = tx[a] /\ pc'[a] = pc[a]
                             \/ /\ pc'[a] # "project"
                                /\ \A r \in tx'[a].entities : Drafted(r)
    PROVE  IInv'
<1>1. /\ entities' = entities /\ relations' = relations
      /\ SavedIsStored' /\ GraphShowsStored'
  BY DEF IInv, tables, graph, SavedIsStored, Stored, GraphShowsStored
<1>2. (\A r \in entities : Drafted(r))'
  BY <1>1 DEF IInv, Drafted
<1>3. (\A o \in orphans : \A r \in o.entities : Drafted(r))'
  BY DEF Drafted
<1>4. ASSUME NEW a \in Agents
      PROVE  (/\ \A r \in held[a] \cup tx[a].entities : Drafted(r)
              /\ pc[a] = "project" => Stored(tx[a]))'
  <2>1. CASE tx'[a] = tx[a] /\ pc'[a] = pc[a]
    <3>1. /\ \A r \in held[a] \cup tx[a].entities : Drafted(r)
          /\ pc[a] = "project" => Stored(tx[a])
      BY DEF IInv
    <3> QED BY <1>1, <2>1, <3>1 DEF Stored, Drafted
  <2>2. CASE pc'[a] # "project" /\ \A r \in tx'[a].entities : Drafted(r)
    BY <2>2 DEF Drafted
  <2> QED BY <2>1, <2>2
<1> QED BY <1>1, <1>2, <1>3, <1>4 DEF IInv

(* A commit keeps the invariant, of a's call, which then goes on to project, or
   of a transaction nobody waits for. *)
LEMMA CommitKeeps ==
    ASSUME VersionsAgree, TypeOK, IInv, NEW t \in Transaction, Commit(t),
           \A r \in t.entities : Drafted(r),
           UNCHANGED <<graph, held, tx, returned>>, orphans' \subseteq orphans,
           \A a \in Agents : pc'[a] = pc[a] \/ tx[a] = t
    PROVE  IInv'
<1>1. /\ entities \subseteq entities' /\ entities' \subseteq entities \cup t.entities
      /\ relations \subseteq relations'
  BY CommitGrows
<1>2. /\ \A r \in entities : Drafted(r)
      /\ \A o \in orphans : \A r \in o.entities : Drafted(r)
      /\ SavedIsStored /\ GraphShowsStored
  BY DEF IInv
<1>3. Stored(t)'
  BY <1>2, CommitStores
<1>4. SavedIsStored'
  BY <1>1, <1>2, StoredStays DEF SavedIsStored
<1>5. GraphShowsStored'
  BY <1>1, <1>2, GraphStaysBehind
<1>6. ASSUME NEW a \in Agents
      PROVE  (/\ \A r \in held[a] \cup tx[a].entities : Drafted(r)
              /\ pc[a] = "project" => Stored(tx[a]))'
  <2>1. /\ \A r \in held[a] \cup tx[a].entities : Drafted(r)
        /\ pc[a] = "project" => Stored(tx[a])
    BY DEF IInv
  <2>2. CASE pc'[a] = pc[a] /\ pc[a] = "project"
    <3>1. Stored(tx[a])'
      BY <1>1, <2>1, <2>2, StoredStays
    <3> QED BY <2>1, <3>1 DEF Drafted
  <2>3. CASE pc'[a] = pc[a] /\ pc[a] # "project"
    BY <2>1, <2>3 DEF Drafted
  <2>4. CASE tx[a] = t
    <3>1. tx'[a] = t
      BY <2>4
    <3> QED BY <1>3, <2>1, <2>4, <3>1 DEF Drafted, Stored
  <2> QED BY <2>2, <2>3, <2>4
<1>7. (\A r \in entities : Drafted(r))'
  BY <1>1, <1>2 DEF Drafted
<1>8. (\A o \in orphans : \A r \in o.entities : Drafted(r))'
  BY <1>2 DEF Drafted
<1> QED BY <1>4, <1>5, <1>6, <1>7, <1>8 DEF IInv

(* Only the graph changes. *)
LEMMA StandingStill ==
    ASSUME IInv, UNCHANGED <<tables, orphans, held, pc, tx, returned>>, GraphShowsStored'
    PROVE  IInv'
<1>1. entities' = entities /\ relations' = relations
  BY DEF tables
<1> QED BY <1>1 DEF IInv, Drafted, SavedIsStored, Stored

(* A call whose transaction is stored returns. *)
LEMMA ReturnKeeps ==
    ASSUME TypeOK, IInv, NEW a \in Agents, Stored(tx[a]), Return(a),
           UNCHANGED <<tables, orphans, held>>, GraphShowsStored'
    PROVE  IInv'
<1>1. entities' = entities /\ relations' = relations
  BY DEF tables
<1>2. ASSUME NEW t \in returned' PROVE Stored(t)'
  <2>1. Stored(t)
    BY DEF Return, IInv, SavedIsStored
  <2> QED BY <1>1, <2>1 DEF Stored
<1>3. ASSUME NEW b \in Agents
      PROVE  (/\ \A r \in held[b] \cup tx[b].entities : Drafted(r)
              /\ pc[b] = "project" => Stored(tx[b]))'
  <2>1. CASE b = a
    BY <2>1 DEF Return, Leave, Goto, NoTx, TypeOK, IInv, Drafted
  <2>2. CASE b # a
    <3>1. tx'[b] = tx[b] /\ pc'[b] = pc[b]
      BY <2>2 DEF Return, Leave, Goto, TypeOK
    <3>2. /\ \A r \in held[b] \cup tx[b].entities : Drafted(r)
          /\ pc[b] = "project" => Stored(tx[b])
      BY DEF IInv
    <3> QED BY <1>1, <3>1, <3>2 DEF Stored, Drafted
  <2> QED BY <2>1, <2>2
<1> QED BY <1>1, <1>2, <1>3 DEF IInv, Drafted, SavedIsStored

(* When every version and every relation id means one thing, the invariant holds. *)
THEOREM Invariance == ASSUME VersionsAgree PROVE Spec => []IInv
<1>1. Init => IInv
  BY DEF Init, IInv, NoTx, SavedIsStored, GraphShowsStored
<1>2. TypeOK /\ IInv /\ [Next]_vars => IInv'
  <2> SUFFICES ASSUME TypeOK, IInv, [Next]_vars PROVE IInv'
    OBVIOUS
  <2>0. /\ \A r \in NoTx.entities : Drafted(r)
        /\ \A o \in orphans : o \in Transaction /\ \A r \in o.entities : Drafted(r)
        /\ \A a \in Agents :
              /\ tx[a] \in Transaction
              /\ \A r \in held[a] : Drafted(r)
              /\ \A r \in tx[a].entities : Drafted(r)
              /\ pc[a] = "project" => Stored(tx[a])
        /\ SavedIsStored /\ GraphShowsStored
        /\ pc \in [Agents -> {"idle", "save", "project"}]
        /\ tx \in [Agents -> Transaction]
    BY DEF IInv, NoTx, TypeOK
  <2>1. ASSUME NEW a \in Agents, NEW d \in Drafts[a], BuildEntity(a, d) PROVE IInv'
    <3>1. Drafted(Built(d))
      BY BuiltSnapshot DEF Drafted, TypeOK
    <3>2. held' = [held EXCEPT ![a] = @ \cup {Built(d)}]
      BY <2>1 DEF BuildEntity, Built
    <3>3. \A b \in Agents : \A r \in held'[b] : Drafted(r)
      BY <2>0, <3>1, <3>2 DEF TypeOK
    <3> QED BY <2>0, <2>1, <3>3, QuietStepKeeps DEF BuildEntity
  <2>1a. ASSUME NEW a \in Agents, NEW r \in held[a], ForgetEntity(a, r) PROVE IInv'
    <3>1. \A b \in Agents : \A s \in held'[b] : Drafted(s)
      BY <2>0, <2>1a DEF ForgetEntity, TypeOK
    <3> QED BY <2>0, <2>1a, <3>1, QuietStepKeeps DEF ForgetEntity
  <2>1b. ASSUME NEW a \in Agents, NEW r \in held[a], SaveEntity(a, r) PROVE IInv'
    <3>1. \A b \in Agents : \/ tx'[b] = tx[b] /\ pc'[b] = pc[b]
                            \/ pc'[b] # "project" /\ \A s \in tx'[b].entities : Drafted(s)
      BY <2>0, <2>1b DEF SaveEntity, Goto
    <3> QED BY <2>0, <2>1b, <3>1, QuietStepKeeps DEF SaveEntity
  <2>2. ASSUME NEW a \in Agents, NEW r \in Relations, SaveRelation(a, r) PROVE IInv'
    <3>1. \A b \in Agents : \/ tx'[b] = tx[b] /\ pc'[b] = pc[b]
                            \/ pc'[b] # "project" /\ \A s \in tx'[b].entities : Drafted(s)
      BY <2>0, <2>2 DEF SaveRelation, Goto
    <3> QED BY <2>0, <2>2, <3>1, QuietStepKeeps DEF SaveRelation
  <2>3. ASSUME NEW a \in Agents, Save(a) PROVE IInv'
    <3>1. \A b \in Agents : pc'[b] = pc[b] \/ tx[b] = tx[a]
      BY <2>0, <2>3 DEF Save, Goto
    <3> QED BY <2>0, <2>3, <3>1, CommitKeeps DEF Save
  <2>4. ASSUME NEW a \in Agents, SaveRollsBack(a) PROVE IInv'
    <3>1. \A b \in Agents : \/ tx'[b] = tx[b] /\ pc'[b] = pc[b]
                            \/ pc'[b] # "project" /\ \A r \in tx'[b].entities : Drafted(r)
      BY <2>0, <2>4 DEF SaveRollsBack, Leave, Goto
    <3> QED BY <2>0, <2>4, <3>1, QuietStepKeeps DEF SaveRollsBack
  <2>5. ASSUME NEW a \in Agents, SaveUnacknowledged(a) PROVE IInv'
    <3>1. \A b \in Agents : \/ tx'[b] = tx[b] /\ pc'[b] = pc[b]
                            \/ pc'[b] # "project" /\ \A r \in tx'[b].entities : Drafted(r)
      BY <2>0, <2>5 DEF SaveUnacknowledged, Leave, Goto
    <3> QED BY <2>0, <2>5, <3>1, QuietStepKeeps DEF SaveUnacknowledged
  <2>6. ASSUME NEW a \in Agents, Project(a) PROVE IInv'
    <3>1. UNCHANGED tables /\ Stored(tx[a]) /\ GraphShowsStored'
      BY <2>0, <2>6, MergeShowsStored DEF Project
    <3>2. Return(a) /\ UNCHANGED <<orphans, held>>
      BY <2>6 DEF Project
    <3> QED BY <2>0, <3>1, <3>2, ReturnKeeps
  <2>7. ASSUME NEW a \in Agents, ProjectFails(a) PROVE IInv'
    <3>1. pc[a] = "project" /\ UNCHANGED tables /\ Stored(tx[a]) /\ UNCHANGED <<orphans, held>>
      BY <2>0, <2>7 DEF ProjectFails
    <3>2. GraphShowsStored'
      <4>1. CASE Merge(tx[a])
        BY <2>0, <3>1, <4>1, MergeShowsStored
      <4>2. CASE UNCHANGED graph
        BY <2>0, <3>1, <4>2, GraphStaysBehind DEF tables
      <4> QED BY <2>7, <4>1, <4>2 DEF ProjectFails
    <3>3. CASE Return(a)
      BY <2>0, <3>1, <3>2, <3>3, ReturnKeeps
    <3>4. CASE UNCHANGED <<pc, tx, returned>>
      BY <2>0, <3>1, <3>2, <3>4, StandingStill
    <3> QED BY <2>7, <3>3, <3>4 DEF ProjectFails
  <2>8. ASSUME NEW a \in Agents, Crash(a) PROVE IInv'
    <3>1. \A b \in Agents : \/ tx'[b] = tx[b] /\ pc'[b] = pc[b]
                            \/ pc'[b] # "project" /\ \A r \in tx'[b].entities : Drafted(r)
      BY <2>0, <2>8 DEF Crash, Leave, Goto
    <3>2. \A o \in orphans' : \A r \in o.entities : Drafted(r)
      BY <2>0, <2>8 DEF Crash
    <3>3. \A b \in Agents : \A r \in held'[b] : Drafted(r)
      BY <2>0, <2>8 DEF Crash, TypeOK
    <3> QED BY <2>8, <3>1, <3>2, <3>3, QuietStepKeeps DEF Crash
  <2>9. ASSUME NEW t \in orphans, OrphanCommits(t) PROVE IInv'
    BY <2>0, <2>9, CommitKeeps DEF OrphanCommits
  <2>10. ASSUME NEW t \in orphans, OrphanAborts(t) PROVE IInv'
    BY <2>0, <2>10, QuietStepKeeps DEF OrphanAborts
  <2>11. ASSUME NEW id \in EntityIds, LinkEvent(id) PROVE IInv'
    <3>1. GraphShowsStored'
      BY <2>0, <2>11 DEF LinkEvent, tables, GraphShowsStored
    <3> QED BY <2>11, <3>1, StandingStill DEF LinkEvent
  <2>12. CASE Tick
    BY <2>0, <2>12, QuietStepKeeps DEF Tick
  <2>13. CASE UNCHANGED vars
    BY <2>0, <2>13, QuietStepKeeps DEF vars
  <2> QED BY <2>1, <2>2, <2>3, <2>4, <2>5, <2>6, <2>7, <2>8, <2>9, <2>10, <2>11,
             <2>12, <2>13, <2>1a, <2>1b DEF Next
<1> QED BY <1>1, <1>2, TypeCorrect, PTL DEF Spec

(* "Nothing is lost" where every version means one thing: what a call that
   returned had to save is stored. *)
THEOREM NothingLost == ASSUME VersionsAgree PROVE Spec => []SavedIsStored
<1>1. IInv => SavedIsStored
  BY DEF IInv
<1> QED BY <1>1, Invariance, PTL

(* The graph says nothing of entities that the tables do not, under the same
   condition. *)
THEOREM GraphBehindTables == ASSUME VersionsAgree PROVE Spec => []GraphShowsStored
<1>1. IInv => GraphShowsStored
  BY DEF IInv
<1> QED BY <1>1, Invariance, PTL

(* ---------------------------------------------------------------------- *)
(* Rows that come later than as_of do not change the answer about it. *)
LEMMA LaterRowsDoNotMatter ==
    ASSUME entities \subseteq entities', NEW id, NEW as_of,
           \A r \in entities' \ entities : ~ValidAt(r, as_of)
    PROVE  get_entity_as_of(id, as_of)' = get_entity_as_of(id, as_of)
<1>1. {r \in RowsOf(id)' : ValidAt(r, as_of)} = {r \in RowsOf(id) : ValidAt(r, as_of)}
  BY DEF RowsOf
<1> QED BY <1>1 DEF get_entity_as_of, Highest, ValidAt

(* A commit of later snapshots brings later rows only. *)
LEMMA CommitsLater ==
    ASSUME TypeOK, NEW as_of \in Nat, NEW t \in Transaction,
           Later(t.entities, as_of), Commit(t), NEW id
    PROVE  get_entity_as_of(id, as_of)' = get_entity_as_of(id, as_of)
<1>1. ASSUME NEW r \in entities' \ entities PROVE ~ValidAt(r, as_of)
  <2>1. r \in t.entities
    BY CommitGrows
  <2>2. as_of < r.valid_from /\ r.valid_from \in Nat
    BY <2>1 DEF Later, Transaction, Snapshot
  <2> QED BY <2>2 DEF ValidAt
<1> QED BY <1>1, CommitGrows, LaterRowsDoNotMatter

(* The clock does not go back. *)
LEMMA TimePasses ==
    ASSUME TypeOK, Next PROVE now \in Nat /\ now' \in Nat /\ now <= now'
<1>1. now \in Nat
  BY DEF TypeOK
<1>2. now' = now \/ now' = now + 1
  BY DEF Next, BuildEntity, ForgetEntity, SaveEntity, SaveRelation, Save,
         SaveRollsBack, SaveUnacknowledged, Project, ProjectFails, Crash,
         OrphanCommits, OrphanAborts, LinkEvent, Tick
<1> QED BY <1>1, <1>2

(* A settled moment stays settled, unless an Entity is dated back to it. *)
LEMMA OnlyBackDatingUnsettles ==
    ASSUME TypeOK, Next, NEW as_of \in Nat, Settled(as_of)
    PROVE  Settled(as_of)' \/ BackDated(as_of)
<1> USE DEF Later
<1>1. /\ tx \in [Agents -> Transaction]
      /\ pc \in [Agents -> {"idle", "save", "project"}]
      /\ held \in [Agents -> SUBSET Snapshot]
  BY DEF TypeOK
<1>2. /\ as_of < now'
      /\ \A a \in Agents : Later(held[a], as_of)
      /\ \A a \in Agents : pc[a] = "save" => Later(tx[a].entities, as_of)
      /\ \A t \in orphans : Later(t.entities, as_of)
  BY TimePasses DEF Settled
<1>3. ASSUME \A a \in Agents : Later(held'[a], as_of),
             \A a \in Agents : pc'[a] = "save" => Later(tx'[a].entities, as_of),
             \A t \in orphans' : Later(t.entities, as_of)
      PROVE  Settled(as_of)'
  BY <1>2, <1>3 DEF Settled
<1>4. ASSUME NEW a \in Agents, NEW d \in Drafts[a], BuildEntity(a, d)
      PROVE  Settled(as_of)' \/ BackDated(as_of)
  <2>1. /\ d.valid_from \in Nat \cup {Unset} /\ Unset \notin Nat /\ now \in Nat
        /\ Built(d).valid_from = IF d.valid_from = Unset THEN now ELSE d.valid_from
    BY TimePasses, BuiltSnapshot, ConstantsAssumption DEF ConstantsAssumption
  <2>2. CASE as_of < Built(d).valid_from
    <3>1. held' = [held EXCEPT ![a] = @ \cup {Built(d)}]
      BY <1>4 DEF BuildEntity, Built
    <3>2. \A b \in Agents : Later(held'[b], as_of)
      BY <1>1, <1>2, <2>2, <3>1
    <3> QED BY <1>2, <1>3, <1>4, <3>2 DEF BuildEntity
  <2>3. CASE ~(as_of < Built(d).valid_from)
    <3>1. d.valid_from \in 0 .. as_of
      BY <2>1, <2>3 DEF Settled
    <3> QED BY <1>4, <3>1 DEF BackDated
  <2> QED BY <2>2, <2>3
<1>5. ASSUME NEW a \in Agents, NEW r \in held[a], ForgetEntity(a, r) \/ SaveEntity(a, r)
      PROVE  Settled(as_of)'
  <2>1. \A b \in Agents : Later(held'[b], as_of)
    BY <1>1, <1>2, <1>5 DEF ForgetEntity, SaveEntity
  <2>2. \A b \in Agents : pc'[b] = "save" => Later(tx'[b].entities, as_of)
    BY <1>1, <1>2, <1>5 DEF ForgetEntity, SaveEntity, Goto
  <2> QED BY <1>2, <1>3, <1>5, <2>1, <2>2 DEF ForgetEntity, SaveEntity
<1>6. ASSUME NEW a \in Agents, NEW x \in Relations, SaveRelation(a, x)
      PROVE  Settled(as_of)'
  <2>1. \A b \in Agents : pc'[b] = "save" => Later(tx'[b].entities, as_of)
    BY <1>1, <1>2, <1>6 DEF SaveRelation, Goto
  <2> QED BY <1>2, <1>3, <1>6, <2>1 DEF SaveRelation
<1>7. ASSUME NEW a \in Agents, \/ Save(a) \/ SaveRollsBack(a) \/ SaveUnacknowledged(a)
                               \/ Project(a) \/ ProjectFails(a) \/ Crash(a)
      PROVE  Settled(as_of)'
  <2>1. \A b \in Agents : pc'[b] = "save" => pc[b] = "save" /\ tx'[b] = tx[b]
    BY <1>1, <1>7 DEF Save, SaveRollsBack, SaveUnacknowledged, Project, ProjectFails,
                      Crash, Return, Leave, Goto
  <2>2. \A b \in Agents : held'[b] = held[b] \/ held'[b] = {}
    BY <1>1, <1>7 DEF Save, SaveRollsBack, SaveUnacknowledged, Project, ProjectFails,
                      Crash
  <2>3. orphans' = orphans \/ (pc[a] = "save" /\ orphans' = orphans \cup {tx[a]})
    BY <1>7 DEF Save, SaveRollsBack, SaveUnacknowledged, Project, ProjectFails, Crash
  <2>4. \A o \in orphans' : Later(o.entities, as_of)
    BY <1>2, <2>3
  <2> QED BY <1>2, <1>3, <2>1, <2>2, <2>4
<1>8. ASSUME \/ \E o \in orphans : OrphanCommits(o) \/ OrphanAborts(o)
             \/ \E id \in EntityIds : LinkEvent(id)
             \/ Tick
      PROVE  Settled(as_of)'
  <2>1. orphans' \subseteq orphans /\ pc' = pc /\ tx' = tx /\ held' = held
    BY <1>8 DEF OrphanCommits, OrphanAborts, LinkEvent, Tick
  <2> QED BY <1>2, <1>3, <2>1
<1> QED BY <1>4, <1>5, <1>6, <1>7, <1>8 DEF Next

(* The answer of get_entity about a moment that has passed changes only for a
   snapshot with a date then or before that an agent still holds or saves, or that
   an orphan stores, whatever versions are saved later and by whom; and once there
   is none, only an Entity that its caller dates back makes one. *)
THEOREM AnswersAreFinal == Spec => AnswersSettle
<1>1. TypeOK /\ [Next]_vars =>
        [\A id \in EntityIds, as_of \in 0 .. MaxTime : Settled(as_of) =>
            /\ Settled(as_of)' \/ BackDated(as_of)
            /\ get_entity_as_of(id, as_of)' = get_entity_as_of(id, as_of)]_vars
  <2> SUFFICES ASSUME TypeOK, Next, NEW id \in EntityIds, NEW as_of \in 0 .. MaxTime,
                      Settled(as_of)
               PROVE  /\ Settled(as_of)' \/ BackDated(as_of)
                      /\ get_entity_as_of(id, as_of)' = get_entity_as_of(id, as_of)
    OBVIOUS
  <2>1. as_of \in Nat
    BY ConstantsAssumption DEF ConstantsAssumption
  <2>2. Settled(as_of)' \/ BackDated(as_of)
    BY <2>1, OnlyBackDatingUnsettles
  <2>3. CASE UNCHANGED entities
    <3>1. get_entity_as_of(id, as_of)' = get_entity_as_of(id, as_of)
      BY <2>3, LaterRowsDoNotMatter
    <3> QED BY <2>2, <3>1
  <2>4. ASSUME NEW a \in Agents, Save(a)
        PROVE  get_entity_as_of(id, as_of)' = get_entity_as_of(id, as_of)
    <3>1. tx[a] \in Transaction /\ Later(tx[a].entities, as_of)
      BY <2>4 DEF Save, Settled, TypeOK
    <3> QED BY <2>1, <2>4, <3>1, CommitsLater DEF Save
  <2>5. ASSUME NEW t \in orphans, OrphanCommits(t)
        PROVE  get_entity_as_of(id, as_of)' = get_entity_as_of(id, as_of)
    <3>1. Later(t.entities, as_of) /\ t \in Transaction
      BY DEF Settled, TypeOK
    <3> QED BY <2>1, <2>5, <3>1, CommitsLater DEF OrphanCommits
  <2>6. \/ UNCHANGED entities
        \/ \E a \in Agents : Save(a)
        \/ \E t \in orphans : OrphanCommits(t)
    BY DEF Next, BuildEntity, ForgetEntity, SaveEntity, SaveRelation, SaveRollsBack,
           SaveUnacknowledged, Project, ProjectFails, Crash, OrphanAborts, LinkEvent,
           Tick, tables
  <2> QED BY <2>2, <2>3, <2>4, <2>5, <2>6
<1> QED BY <1>1, TypeCorrect, PTL DEF Spec, AnswersSettle
===============================================================================
