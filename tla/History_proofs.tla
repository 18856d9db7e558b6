--------------------------- MODULE History_proofs ----------------------------
(* Temporal queries: what History keeps for any number of agents, entities and
   scopes, any limits, and clocks and behaviours of any length. *)
EXTENDS History, FiniteSetTheorems, SequenceTheorems, TLAPS

(* What events look like. *)
Rec == [id : Nat \ {0}, entity : Entities, scope : {ScopeOf[a] : a \in Agents},
        timestamp : Nat, parents : SUBSET Nat]

(* The events of a process that are stored or may still come to be. *)
Live == rows \cup (UnderWay \ {NoEvent})

Base ==
    /\ now \in Nat /\ nextId \in Nat \ {0}
    /\ rows \subseteq Rec /\ IsFiniteSet(rows)
    /\ orphans \subseteq Rec
    /\ pending \in [Agents -> Rec \cup {NoEvent}]
    /\ reading.step \in {"idle", "answered", "raised", "paging", "paged"}

Dated == \A r \in Live : r.id < nextId /\ r.timestamp <= now

Unique == \A r, s \in Live : r.id = s.id => r = s

ParentsStored == \A e \in Live : \A p \in e.parents : \E r \in rows : r.id = p

(* An answer is a causal prefix of what was stored when it was given. *)
Answered ==
    reading.step = "answered" =>
        /\ reading.answer \in Seq(rows)
        /\ CausesComeFirst

TimeInv == Base /\ Dated /\ Unique

(* No event is the absence of one. *)
LEMMA EventIsNotNone ==
    ASSUME NEW r \in Rec
    PROVE  r # NoEvent
BY DEF Rec, NoEvent

LEMMA LiveTyped ==
    ASSUME Base
    PROVE  Live \subseteq Rec
BY DEF Live, UnderWay, Base

(* A step adds to the rows what was under way, and to what is live at most one
   event: of the next id and of this moment, caused by stored events. *)
StepAdds ==
    /\ now' \in Nat /\ now <= now'
    /\ rows \subseteq rows' /\ rows' \subseteq Live
    /\ \/ Live' \subseteq Live /\ nextId' = nextId
       \/ \E a \in Agents, n \in Entities, ps \in SUBSET {r.id : r \in rows} :
             /\ Live' \subseteq Live \cup {Event(a, n, ps)}
             /\ nextId' = nextId + 1 /\ now' = now /\ rows' = rows

LEMMA CommitAdds ==
    ASSUME Base, NEW a \in Agents,
           Commit(a) \/ CommitFails(a) \/ CommitUnacknowledged(a)
    PROVE  StepAdds /\ Base'
<1>1. pending' = [pending EXCEPT ![a] = NoEvent] /\ pending[a] # NoEvent
  BY DEF Commit, CommitFails, CommitUnacknowledged
<1>2. pending' \in [Agents -> Rec \cup {NoEvent}]
  BY <1>1 DEF Base
<1>3. pending[a] \in Rec /\ pending[a] \in Live
  BY <1>1 DEF Base, Live, UnderWay
<1>4. now' = now /\ nextId' = nextId /\ reading' = reading
  BY DEF Commit, CommitFails, CommitUnacknowledged
<1>5. \A b \in Agents : pending'[b] \in {pending[b], NoEvent}
  BY <1>1 DEF Base
<1>6. /\ rows' \in {rows, rows \cup {pending[a]}}
      /\ orphans' \in {orphans, orphans \cup {pending[a]}}
  BY DEF Commit, CommitFails, CommitUnacknowledged
<1>7. IsFiniteSet(rows')
  BY <1>6, FS_AddElement DEF Base
<1>8. Live' \subseteq Live
  BY <1>3, <1>5, <1>6 DEF Live, UnderWay
<1>9. rows \subseteq rows' /\ rows' \subseteq Live
  BY <1>3, <1>6 DEF Live
<1>10. StepAdds
  BY <1>4, <1>8, <1>9 DEF StepAdds, Base
<1>11. Base'
  BY <1>2, <1>3, <1>4, <1>6, <1>7 DEF Base
<1> QED BY <1>10, <1>11

LEMMA OrphanAdds ==
    ASSUME Base, NEW e \in orphans, OrphanEnds(e)
    PROVE  StepAdds /\ Base'
<1>1. /\ rows' \in {rows, rows \cup {e}} /\ orphans' \subseteq orphans
      /\ now' = now /\ nextId' = nextId /\ pending' = pending /\ reading' = reading
  BY DEF OrphanEnds
<1>2. e \in Rec /\ e \in Live
  BY EventIsNotNone DEF Base, Live, UnderWay
<1>3. IsFiniteSet(rows')
  BY <1>1, FS_AddElement DEF Base
<1>4. Live' \subseteq Live
  BY <1>1, <1>2 DEF Live, UnderWay
<1>5. StepAdds
  BY <1>1, <1>2, <1>4 DEF StepAdds, Base, Live
<1>6. Base'
  BY <1>1, <1>2, <1>3 DEF Base
<1> QED BY <1>5, <1>6

LEMMA ConstructAdds ==
    ASSUME Base, NEW a \in Agents, NEW n \in Entities,
           NEW ps \in SUBSET {r.id : r \in rows}, Construct(a, n, ps)
    PROVE  StepAdds /\ Base'
<1>1. ps \subseteq Nat
  BY DEF Base, Rec
<1>2. Event(a, n, ps) \in Rec
  BY <1>1 DEF Event, Rec, Base
<1>3. /\ pending' = [pending EXCEPT ![a] = Event(a, n, ps)] /\ nextId' = nextId + 1
      /\ UNCHANGED <<now, rows, orphans, reading>>
  BY DEF Construct
<1>4. pending' \in [Agents -> Rec \cup {NoEvent}]
  BY <1>2, <1>3 DEF Base
<1>5. \A b \in Agents : pending'[b] \in {pending[b], Event(a, n, ps)}
  BY <1>3 DEF Base
<1>6. Live' \subseteq Live \cup {Event(a, n, ps)}
  BY <1>3, <1>5 DEF Live, UnderWay
<1>7. StepAdds
  BY <1>3, <1>6 DEF StepAdds, Base, Live
<1>8. Base'
  BY <1>3, <1>4 DEF Base
<1> QED BY <1>7, <1>8

(* Ticks and queries store nothing. *)
LEMMA OthersAdd ==
    ASSUME Base, now' \in {now, now + 1},
           UNCHANGED <<rows, pending, orphans, nextId>>,
           reading'.step \in {"idle", "answered", "raised", "paging", "paged"}
    PROVE  StepAdds /\ Base'
BY DEF StepAdds, Base, Live, UnderWay

LEMMA NextAdds ==
    ASSUME Base, [Next]_vars
    PROVE  StepAdds /\ Base'
<1>1. CASE Tick
  BY <1>1, OthersAdd DEF Tick, Base
<1>2. ASSUME NEW a \in Agents, NEW n \in Entities,
             NEW ps \in SUBSET {r.id : r \in rows}, Construct(a, n, ps)
      PROVE  StepAdds /\ Base'
  BY <1>2, ConstructAdds
<1>3. ASSUME NEW a \in Agents, Commit(a) \/ CommitFails(a) \/ CommitUnacknowledged(a)
      PROVE  StepAdds /\ Base'
  BY <1>3, CommitAdds
<1>4. ASSUME NEW e \in orphans, OrphanEnds(e)
      PROVE  StepAdds /\ Base'
  BY <1>4, OrphanAdds
<1>5. ASSUME NEW q, Ask(q)
      PROVE  StepAdds /\ Base'
  BY <1>5, OthersAdd DEF Ask
<1>6. CASE AuditRaises \/ EndReading
  BY <1>6, OthersAdd DEF AuditRaises, EndReading, Idle
<1>7. ASSUME NEW t \in Moments, StartPaging(t)
      PROVE  StepAdds /\ Base'
  BY <1>7, OthersAdd DEF StartPaging
<1>8. CASE NextPage
  BY <1>8, OthersAdd DEF NextPage
<1>9. CASE UNCHANGED vars
  BY <1>9, OthersAdd DEF vars, Base
<1> QED
  BY <1>1, <1>2, <1>3, <1>4, <1>5, <1>6, <1>7, <1>8, <1>9 DEF Next, Query, Timeline, Replay

(* Times and ids. *)
LEMMA TimeStep ==
    ASSUME TimeInv, [Next]_vars
    PROVE  TimeInv'
<1> USE DEF TimeInv
<1>1. StepAdds /\ Base'
  BY NextAdds
<1>2. Live \subseteq Rec
  BY LiveTyped
<1>3. CASE Live' \subseteq Live /\ nextId' = nextId
  <2>1. Dated'
    BY <1>1, <1>2, <1>3 DEF Dated, StepAdds, Base, Rec
  <2>2. Unique'
    BY <1>3 DEF Unique
  <2> QED BY <1>1, <2>1, <2>2
<1>4. ASSUME NEW a \in Agents, NEW n \in Entities, NEW ps,
             Live' \subseteq Live \cup {Event(a, n, ps)},
             nextId' = nextId + 1, now' = now
      PROVE  TimeInv'
  <2>1. Event(a, n, ps).id = nextId /\ Event(a, n, ps).timestamp = now
    BY DEF Event
  <2>2. Dated'
    BY <1>2, <1>4, <2>1 DEF Dated, Base, Rec
  <2>3. Unique'
    BY <1>2, <1>4, <2>1 DEF Dated, Unique, Base, Rec
  <2> QED BY <1>1, <2>2, <2>3
<1> QED BY <1>1, <1>3, <1>4 DEF StepAdds

LEMMA TimeInitially ==
    ASSUME Init
    PROVE  TimeInv
<1>1. Live = {}
  BY DEF Init, Live, UnderWay
<1>2. Base
  BY FS_EmptySet DEF Init, Base, Idle
<1> QED BY <1>1, <1>2 DEF TimeInv, Dated, Unique

(* Events are dated by the time that is, and ids are handed out once. *)
THEOREM TypeCorrect == Spec => []TypeOK
<1>1. Init => TimeInv
  BY TimeInitially
<1>2. TimeInv /\ [Next]_vars => TimeInv'
  BY TimeStep
<1>3. TimeInv => TypeOK
  <2> SUFFICES ASSUME TimeInv PROVE TypeOK
    OBVIOUS
  <2>1. Live \subseteq Rec
    BY LiveTyped DEF TimeInv
  <2>2. \A r \in Live : r.id < nextId /\ r.timestamp \in 0 .. now
    BY <2>1 DEF TimeInv, Dated, Base, Rec
  <2> QED BY <2>2 DEF TimeInv, TypeOK, Base, Unique, Live
<1> QED BY <1>1, <1>2, <1>3, PTL DEF Spec

------------------------------------------------------------------------------
(* What is under way after a step was under way before it or is of this moment. *)
LEMMA UnderWayAdds ==
    ASSUME Base, [Next]_vars
    PROVE  \A e \in UnderWay' : \/ e \in UnderWay \cup {NoEvent}
                                \/ e.timestamp = now
<1>1. ASSUME NEW a \in Agents, NEW n \in Entities, NEW ps, Construct(a, n, ps)
      PROVE  \A b \in Agents : \/ pending'[b] = pending[b]
                               \/ pending'[b].timestamp = now
  BY <1>1 DEF Construct, Event, Base
<1>2. ASSUME NEW a \in Agents, Commit(a) \/ CommitFails(a) \/ CommitUnacknowledged(a)
      PROVE  /\ \A b \in Agents : pending'[b] \in {pending[b], NoEvent}
             /\ orphans' \subseteq orphans \cup {pending[a]}
  BY <1>2 DEF Commit, CommitFails, CommitUnacknowledged, Base
<1>3. ASSUME NEW a \in Agents, Commit(a) \/ CommitFails(a) \/ CommitUnacknowledged(a)
      PROVE  UnderWay' \subseteq UnderWay \cup {NoEvent}
  BY <1>2, <1>3 DEF UnderWay
<1>4. ASSUME NEW e \in orphans, OrphanEnds(e)
      PROVE  UnderWay' \subseteq UnderWay
  BY <1>4 DEF OrphanEnds, UnderWay
<1>5. ASSUME NEW a \in Agents, NEW n \in Entities, NEW ps, Construct(a, n, ps)
      PROVE  \A e \in UnderWay' : e \in UnderWay \/ e.timestamp = now
  BY <1>1, <1>5 DEF UnderWay, Construct
<1>6. ASSUME UNCHANGED <<pending, orphans>>
      PROVE  UnderWay' = UnderWay
  BY <1>6 DEF UnderWay
<1> QED
  BY <1>3, <1>4, <1>5, <1>6
     DEF Next, Tick, Query, Timeline, Replay, Ask, StartPaging, NextPage, AuditRaises,
         EndReading, vars

(* The rows of a settled moment. *)
LEMMA SettledStays ==
    ASSUME Base, NEW t \in Moments, Settled(t), [Next]_vars, MaxTime \in Nat
    PROVE  At(t)' = At(t) /\ Settled(t)'
<1>1. StepAdds /\ Base'
  BY NextAdds
<1>2. t \in Nat /\ t < now
  BY DEF Settled, Moments
<1>3. Live \subseteq Rec
  BY LiveTyped
<1>4. \A r \in rows' \ rows : r \in UnderWay /\ r # NoEvent
  BY <1>1 DEF StepAdds, Live
<1>5. \A r \in rows' \ rows : r.timestamp > t /\ r.timestamp \in Nat
  BY <1>1, <1>4 DEF Settled, Base, Rec
<1>6. At(t)' = At(t)
  BY <1>1, <1>2, <1>5 DEF At, StepAdds
<1>7. t < now'
  BY <1>1, <1>2 DEF StepAdds, Base
<1>8. \A e \in UnderWay' : e # NoEvent => e.timestamp > t
  BY <1>2, UnderWayAdds DEF Settled, Base
<1> QED BY <1>6, <1>7, <1>8 DEF Settled

(* Answers about a settled moment are final: no row dated by then is added or
   taken away, and no save that began by then is under way any more. *)
THEOREM PastStays == Spec => PastIsFinal
<1>1. TimeInv /\ [Next]_vars =>
          [\A t \in Moments : Settled(t) => At(t)' = At(t) /\ Settled(t)']_vars
  BY SettledStays, HistoryAssumption DEF TimeInv
<1>2. Init => TimeInv
  BY TimeInitially
<1>3. TimeInv /\ [Next]_vars => TimeInv'
  BY TimeStep
<1> QED BY <1>1, <1>2, <1>3, PTL DEF Spec, PastIsFinal

------------------------------------------------------------------------------
(* A sequence that Ordered offers has every row, and a row of an earlier time
   before one of a later time. *)
LEMMA OrderedIsOnto ==
    ASSUME NEW S, IsFiniteSet(S), NEW s \in Ordered(S)
    PROVE  /\ Cardinality(S) \in Nat
           /\ s \in [1 .. Cardinality(S) -> S]
           /\ \A r \in S : \E i \in 1 .. Cardinality(S) : s[i] = r
<1> DEFINE n == Cardinality(S)
<1>1. n \in Nat
  BY FS_CardinalityType
<1>2. s \in [1 .. n -> S] /\ \A i, j \in 1 .. n : i < j => s[i] # s[j]
  BY DEF Ordered
<1>3. s \in Injection(1 .. n, S)
  <2>1. ASSUME NEW i \in 1 .. n, NEW j \in 1 .. n, s[i] = s[j]
        PROVE  i = j
    BY <1>1, <1>2, <2>1
  <2> QED BY <1>2, <2>1 DEF Injection, IsInjective
<1>4. Cardinality(1 .. n) = n
  BY <1>1, FS_Interval
<1>5. s \in Surjection(1 .. n, S)
  BY <1>3, <1>4, FS_Injection
<1> QED BY <1>1, <1>2, <1>5 DEF Surjection

(* Where a page ends. *)
Last(n, limit, offset) == IF offset + limit < n THEN offset + limit ELSE n

(* The page of an ordered answer, and what it has of it. *)
LEMMA PageOfOrdered ==
    ASSUME NEW S, IsFiniteSet(S), NEW s \in Ordered(S),
           NEW limit \in Nat, NEW offset \in Nat
    PROVE  /\ Page(s, limit, offset) \in Seq(S)
           /\ Len(Page(s, limit, offset)) =
                 IF offset <= Last(Cardinality(S), limit, offset)
                 THEN Last(Cardinality(S), limit, offset) - offset ELSE 0
           /\ \A i \in 1 .. Len(Page(s, limit, offset)) :
                 Page(s, limit, offset)[i] = s[offset + i]
<1> DEFINE n == Cardinality(S)
           last == Last(n, limit, offset)
<1>1. n \in Nat /\ s \in [1 .. n -> S]
  BY OrderedIsOnto
<1>2. Len(s) = n
  BY <1>1
<1>3. Page(s, limit, offset) = SubSeq(s, offset + 1, last)
  BY <1>2 DEF Page, Last
<1>4. \A i \in offset + 1 .. last : s[i] \in S
  BY <1>1 DEF Last
<1>5. /\ SubSeq(s, offset + 1, last) \in Seq(S)
      /\ Len(SubSeq(s, offset + 1, last)) = IF offset + 1 <= last
                                            THEN last - (offset + 1) + 1 ELSE 0
      /\ \A i \in 1 .. last - (offset + 1) + 1 :
            SubSeq(s, offset + 1, last)[i] = s[offset + 1 + i - 1]
  <2>1. offset + 1 \in Int /\ last \in Int
    BY <1>1 DEF Last
  <2> HIDE DEF last
  <2> QED BY <1>4, <2>1, SubSeqProperties
<1> QED BY <1>1, <1>3, <1>5 DEF Last

(* What a query returns is causal at that moment. *)
LEMMA AnswerIsCausal ==
    ASSUME Base, NEW q, q.limit \in Nat, q.offset \in Nat, NEW answer \in Answers(q)
    PROVE  /\ answer \in Seq(rows)
           /\ q.offset = 0 =>
                \A i \in DOMAIN answer : \A r \in Selected(q) :
                    r.timestamp < answer[i].timestamp =>
                        \E j \in 1 .. i - 1 : answer[j] = r
<1> DEFINE S == Selected(q)
           n == Cardinality(S)
<1>1. S \subseteq rows /\ IsFiniteSet(S)
  BY FS_Subset DEF Selected, Base
<1>2. PICK s \in Ordered(S) : answer = Page(s, q.limit, q.offset)
  BY DEF Answers
<1>3. /\ n \in Nat /\ s \in [1 .. n -> S]
      /\ \A r \in S : \E i \in 1 .. n : s[i] = r
  BY <1>1, OrderedIsOnto
<1>4. \A i, j \in 1 .. n : i < j => s[i].timestamp <= s[j].timestamp
  BY <1>3 DEF Ordered
<1>5. /\ answer \in Seq(S)
      /\ Len(answer) <= n
      /\ q.offset = 0 => \A i \in 1 .. Len(answer) : answer[i] = s[i]
  <2> HIDE DEF S
  <2>1. /\ answer \in Seq(S)
        /\ Len(answer) = IF q.offset <= Last(n, q.limit, q.offset)
                         THEN Last(n, q.limit, q.offset) - q.offset ELSE 0
        /\ \A i \in 1 .. Len(answer) : answer[i] = s[q.offset + i]
    BY <1>1, <1>2, PageOfOrdered
  <2>2. Last(n, q.limit, q.offset) \in Nat /\ Last(n, q.limit, q.offset) <= n
    BY <1>3 DEF Last
  <2>3. Len(answer) <= n
    <3> DEFINE last == Last(n, q.limit, q.offset)
    <3> HIDE DEF n, last
    <3> QED BY <1>3, <2>1, <2>2 DEF last
  <2>4. ASSUME q.offset = 0, NEW i \in 1 .. Len(answer)
        PROVE  answer[i] = s[i]
    <3>1. q.offset + i = i
      BY <2>4
    <3> QED BY <2>1, <3>1
  <2> QED BY <2>1, <2>3, <2>4
<1>6. answer \in Seq(rows)
  BY <1>1, <1>5
<1>7. ASSUME q.offset = 0, NEW i \in DOMAIN answer, NEW r \in S,
             r.timestamp < answer[i].timestamp
      PROVE  \E j \in 1 .. i - 1 : answer[j] = r
  <2>1. i \in 1 .. Len(answer) /\ i \in 1 .. n /\ answer[i] = s[i]
    BY <1>3, <1>5, <1>7
  <2>2. PICK j \in 1 .. n : s[j] = r
    BY <1>3
  <2>3. r.timestamp \in Nat /\ s[i].timestamp \in Nat
    BY <1>1, <1>3, <2>1 DEF Base, Rec
  <2>4. j < i
    <3>1. ~(i < j)
      BY <1>4, <1>7, <2>1, <2>2, <2>3
    <3>2. i # j
      BY <1>7, <2>1, <2>2, <2>3
    <3> QED BY <2>1, <3>1, <3>2
  <2>5. answer[j] = r
    BY <1>5, <1>7, <2>1, <2>2, <2>4
  <2> QED BY <2>1, <2>4, <2>5
<1> QED BY <1>6, <1>7

(* Causes are stored before their effects are constructed. *)
LEMMA ParentsStep ==
    ASSUME TimeInv, ParentsStored, [Next]_vars
    PROVE  ParentsStored'
<1>1. StepAdds
  BY NextAdds DEF TimeInv
<1>2. CASE Live' \subseteq Live
  BY <1>1, <1>2 DEF ParentsStored, StepAdds
<1>3. ASSUME NEW a \in Agents, NEW n \in Entities, NEW ps \in SUBSET {r.id : r \in rows},
             Live' \subseteq Live \cup {Event(a, n, ps)}, rows' = rows
      PROVE  ParentsStored'
  <2>1. Event(a, n, ps).parents = ps
    BY DEF Event
  <2> QED BY <1>3, <2>1 DEF ParentsStored
<1> QED BY <1>1, <1>2, <1>3 DEF StepAdds

(* Rows that come after an answer are not causes of what it has. *)
LEMMA AnswerStays ==
    ASSUME TimeInv, ParentsStored, Answered, StepAdds, reading' = reading
    PROVE  Answered'
<1> SUFFICES ASSUME reading.step = "answered" PROVE Answered'
  BY DEF Answered
<1> DEFINE s == reading.answer
           q == reading.query
<1>1. s \in Seq(rows) /\ rows \subseteq rows'
  BY DEF Answered, StepAdds
<1>2. s \in Seq(rows')
  BY <1>1
<1>3. ASSUME q.offset = 0, NEW i \in DOMAIN s, NEW r \in Selected(q)',
             r.id \in s[i].parents, r.timestamp < s[i].timestamp
      PROVE  \E j \in 1 .. i - 1 : s[j] = r
  <2>1. s[i] \in rows /\ s[i] \in Live
    BY <1>1, <1>3 DEF Live
  <2>2. PICK old \in rows : old.id = r.id
    BY <1>3, <2>1 DEF ParentsStored
  <2>3. r \in rows' /\ r \in Live
    BY <1>3 DEF Selected, StepAdds
  <2>4. r \in rows
    BY <2>2, <2>3 DEF TimeInv, Unique, Live
  <2>5. r \in Selected(q)
    BY <1>3, <2>4 DEF Selected
  <2> QED BY <1>3, <2>5 DEF Answered, CausesComeFirst
<1>4. CausesComeFirst'
  BY <1>3 DEF CausesComeFirst
<1> QED BY <1>2, <1>4 DEF Answered

LEMMA AskAnswers ==
    ASSUME Base, NEW q, q.limit \in Nat, q.offset \in Nat, Ask(q)
    PROVE  Answered'
<1>1. PICK s \in Answers(q) :
         reading' = [step |-> "answered", query |-> q, answer |-> s]
  BY DEF Ask
<1>2. rows' = rows
  BY DEF Ask
<1>3. /\ s \in Seq(rows)
      /\ q.offset = 0 =>
           \A i \in DOMAIN s : \A r \in Selected(q) :
               r.timestamp < s[i].timestamp => \E j \in 1 .. i - 1 : s[j] = r
  BY <1>1, AnswerIsCausal
<1>4. reading'.answer = s /\ reading'.query = q /\ Selected(q)' = Selected(q)
  BY <1>1, <1>2 DEF Selected
<1>5. CausesComeFirst'
  BY <1>3, <1>4 DEF CausesComeFirst
<1> QED BY <1>2, <1>3, <1>4, <1>5 DEF Answered

(* In any answer an event comes after those of its causes that belong to the
   answer and are older, and this stays so for as long as the answer is held. *)
THEOREM CausesFirst == Spec => []CausesComeFirst
<1> DEFINE Inv == TimeInv /\ ParentsStored /\ Answered
<1>1. Init => Inv
  <2>1. Init => ParentsStored /\ Answered
    BY DEF Init, ParentsStored, Live, UnderWay, Answered, Idle
  <2> QED BY <2>1, TimeInitially
<1>2. Inv /\ [Next]_vars => Inv'
  <2> SUFFICES ASSUME Inv, [Next]_vars PROVE Inv'
    OBVIOUS
  <2>1. TimeInv' /\ ParentsStored' /\ StepAdds
    BY TimeStep, ParentsStep, NextAdds DEF TimeInv
  <2>2. ASSUME reading' = reading
        PROVE  Answered'
    BY <2>1, <2>2, AnswerStays
  <2>3. ASSUME reading'.step # "answered"
        PROVE  Answered'
    BY <2>3 DEF Answered
  <2>4. ASSUME NEW a \in Agents, NEW n \in Entities, NEW t \in Moments \cup {Any},
               \/ \E o \in 0 .. 1 : Query(a, n, Any, t, o)
               \/ Timeline(n, t)
               \/ Replay(a, n, t)
        PROVE  Answered'
    <3>1. ASSUME NEW sc, NEW limit \in Nat, NEW offset \in Nat,
                 Ask(Filter(n, sc, t, limit, offset))
          PROVE  Answered'
      <4>1. /\ Filter(n, sc, t, limit, offset).limit \in Nat
            /\ Filter(n, sc, t, limit, offset).offset \in Nat
        BY DEF Filter
      <4> QED BY <3>1, <4>1, AskAnswers DEF TimeInv
    <3>2. DefaultLimit \in Nat /\ ReplayLimit \in Nat
      BY HistoryAssumption
    <3> QED BY <2>4, <3>1, <3>2 DEF Query, Timeline, Replay
  <2>5. \/ reading' = reading
        \/ reading'.step # "answered"
        \/ \E a \in Agents, n \in Entities, t \in Moments \cup {Any} :
              \/ \E o \in 0 .. 1 : Query(a, n, Any, t, o)
              \/ Timeline(n, t)
              \/ Replay(a, n, t)
    BY DEF Next, Tick, Construct, Commit, CommitFails, CommitUnacknowledged, OrphanEnds,
           StartPaging, NextPage, AuditRaises, EndReading, Idle, vars
  <2> QED BY <2>1, <2>2, <2>3, <2>4, <2>5
<1>3. Inv => CausesComeFirst
  BY DEF Answered, CausesComeFirst
<1> QED BY <1>1, <1>2, <1>3, PTL DEF Spec

------------------------------------------------------------------------------
(* Rows of different times have one order: the place of a row is the number of
   those that are not later. *)
NoTies(S) == \A r, s \in S : r.timestamp = s.timestamp => r = s
UpTo(S, r) == {q \in S : q.timestamp <= r.timestamp}

LEMMA PlaceIsCount ==
    ASSUME NEW S \in SUBSET Rec, IsFiniteSet(S), NoTies(S), NEW s \in Ordered(S),
           NEW i \in 1 .. Cardinality(S)
    PROVE  Cardinality(UpTo(S, s[i])) = i
<1> DEFINE n == Cardinality(S)
           U == UpTo(S, s[i])
           f == [k \in 1 .. i |-> s[k]]
<1>1. /\ n \in Nat /\ s \in [1 .. n -> S]
      /\ \A r \in S : \E k \in 1 .. n : s[k] = r
  BY OrderedIsOnto
<1>2. \A k, l \in 1 .. n : k < l => s[k] # s[l] /\ s[k].timestamp <= s[l].timestamp
  BY <1>1 DEF Ordered
<1>3. \A r \in S : r.timestamp \in Nat
  BY DEF Rec
<1>4. i \in Nat /\ \A k \in 1 .. i : k \in 1 .. n
  BY <1>1
<1>5. \A k \in 1 .. i : s[k] \in U
  BY <1>1, <1>2, <1>3, <1>4 DEF UpTo
<1>6. f \in Injection(1 .. i, U)
  <2>1. f \in [1 .. i -> U]
    BY <1>5
  <2>2. ASSUME NEW k \in 1 .. i, NEW l \in 1 .. i, f[k] = f[l]
        PROVE  k = l
    <3>1. s[k] = s[l]
      BY <2>2
    <3> QED BY <1>2, <1>4, <3>1
  <2> QED BY <2>1, <2>2 DEF Injection, IsInjective
<1>7. f \in Surjection(1 .. i, U)
  <2>1. ASSUME NEW r \in U
        PROVE  \E k \in 1 .. i : f[k] = r
    <3>1. r \in S /\ r.timestamp <= s[i].timestamp
      BY <2>1 DEF UpTo
    <3>2. PICK k \in 1 .. n : s[k] = r
      BY <1>1, <3>1
    <3>3. k <= i
      <4> SUFFICES ASSUME i < k PROVE FALSE
        BY <1>1, <1>4
      <4>1. s[i] # s[k] /\ s[i].timestamp <= s[k].timestamp
        BY <1>2
      <4>2. s[i].timestamp = s[k].timestamp
        BY <1>1, <1>3, <3>1, <3>2, <4>1
      <4> QED BY <1>1, <4>1, <4>2 DEF NoTies
    <3> QED BY <1>1, <3>2, <3>3
  <2>2. f \in [1 .. i -> U]
    BY <1>5
  <2> QED BY <2>1, <2>2 DEF Surjection
<1>8. IsFiniteSet(U)
  BY FS_Subset DEF UpTo
<1>9. Cardinality(1 .. i) = Cardinality(U)
  <2> HIDE DEF U, f
  <2> QED BY <1>6, <1>7, <1>8, FS_Injection
<1>10. Cardinality(1 .. i) = i
  BY <1>4, FS_Interval
<1> QED BY <1>9, <1>10

LEMMA OneOrder ==
    ASSUME NEW S \in SUBSET Rec, IsFiniteSet(S), NoTies(S),
           NEW s \in Ordered(S), NEW t \in Ordered(S)
    PROVE  s = t
<1> DEFINE n == Cardinality(S)
<1>1. /\ n \in Nat /\ s \in [1 .. n -> S] /\ t \in [1 .. n -> S]
      /\ \A r \in S : \E k \in 1 .. n : t[k] = r
  BY OrderedIsOnto
<1>2. ASSUME NEW i \in 1 .. n
      PROVE  s[i] = t[i]
  <2>1. PICK k \in 1 .. n : t[k] = s[i]
    BY <1>1
  <2>2. Cardinality(UpTo(S, s[i])) = i /\ Cardinality(UpTo(S, t[k])) = k
    BY PlaceIsCount
  <2> QED BY <2>1, <2>2
<1> QED BY <1>1, <1>2

(* A reader who pages through a settled moment has a prefix of that order. *)
Paging ==
    reading.step \in {"paging", "paged"} /\ reading.settled =>
        LET S == At(reading.as_of)
        IN  /\ reading.as_of \in Moments /\ Settled(reading.as_of)
            /\ reading.got \in Seq(rows)
            /\ NoTies(S) =>
                  /\ Len(reading.got) <= Cardinality(S)
                  /\ \A s \in Ordered(S), i \in 1 .. Len(reading.got) :
                        reading.got[i] = s[i]
                  /\ reading.step = "paged" => reading.got \in Ordered(S)

LEMMA PagingStays ==
    ASSUME Base, Paging, [Next]_vars, reading' = reading
    PROVE  Paging'
<1> SUFFICES ASSUME reading.step \in {"paging", "paged"}, reading.settled
             PROVE  Paging'
  BY DEF Paging
<1>1. reading.as_of \in Moments /\ Settled(reading.as_of)
  BY DEF Paging
<1>2. MaxTime \in Nat
  BY HistoryAssumption
<1>3. At(reading.as_of)' = At(reading.as_of) /\ Settled(reading.as_of)'
  <2> DEFINE t == reading.as_of
  <2>1. ASSUME NEW u \in Moments, Settled(u)
        PROVE  At(u)' = At(u) /\ Settled(u)'
    BY <1>2, <2>1, SettledStays
  <2> QED BY <1>1, <2>1
<1>4. rows \subseteq rows'
  BY NextAdds DEF StepAdds
<1> QED BY <1>1, <1>3, <1>4 DEF Paging

LEMMA NextPagePages ==
    ASSUME Base, Paging, NextPage, reading.settled
    PROVE  Paging'
<1> DEFINE t == reading.as_of
           S == At(t)
           n == Cardinality(S)
           got == reading.got
           L == Len(got)
           q == Filter(Any, Any, t, PageSize, L)
<1>1. reading.step = "paging" /\ UNCHANGED <<now, rows, pending, orphans>>
  BY DEF NextPage
<1>2. t \in Moments /\ Settled(t) /\ got \in Seq(rows) /\ L \in Nat
  BY <1>1 DEF Paging
<1>3. t # Any
  BY <1>2, HistoryAssumption DEF Moments
<1>4. q.entity = Any /\ q.scope = Any /\ q.as_of = t /\ q.limit = PageSize /\ q.offset = L
  BY DEF Filter
<1>5. Selected(q) = S
  BY <1>3, <1>4 DEF Selected, At
<1>6. PICK page \in Answers(q) :
         reading' = [step |-> IF Len(page) < PageSize THEN "paged" ELSE "paging",
                     as_of |-> t, got |-> got \o page, settled |-> reading.settled]
  BY DEF NextPage
<1>7. PICK s \in Ordered(S) : page = Page(s, PageSize, L)
  BY <1>4, <1>5, <1>6 DEF Answers
<1>8. S \subseteq rows /\ S \in SUBSET Rec /\ IsFiniteSet(S)
  BY FS_Subset DEF At, Base
<1>9. n \in Nat /\ s \in [1 .. n -> S]
  BY <1>8, OrderedIsOnto
<1>10. /\ page \in Seq(S)
       /\ Len(page) = IF L <= Last(n, PageSize, L) THEN Last(n, PageSize, L) - L ELSE 0
       /\ \A i \in 1 .. Len(page) : page[i] = s[L + i]
  <2> HIDE DEF S, L
  <2>1. PageSize \in Nat
    BY HistoryAssumption
  <2> QED BY <1>2, <1>7, <1>8, <2>1, PageOfOrdered
<1>11. page \in Seq(rows) /\ got \o page \in Seq(rows)
  BY <1>2, <1>8, <1>10
<1>12. /\ Len(got \o page) = L + Len(page)
       /\ \A i \in 1 .. L : (got \o page)[i] = got[i]
       /\ \A i \in L + 1 .. L + Len(page) : (got \o page)[i] = page[i - L]
  BY <1>2, <1>11
<1>13. At(t)' = S /\ Settled(t)' /\ reading'.as_of = t /\ reading'.got = got \o page
  BY <1>1, <1>2, <1>6 DEF At, Settled, UnderWay
<1>14. ASSUME NoTies(S)
       PROVE  /\ Len(got \o page) <= n
              /\ \A u \in Ordered(S), i \in 1 .. Len(got \o page) : (got \o page)[i] = u[i]
              /\ Len(page) < PageSize => got \o page \in Ordered(S)
  <2>1. L <= n /\ \A i \in 1 .. L : got[i] = s[i]
    BY <1>1, <1>14 DEF Paging
  <2>2. PageSize \in Nat
    BY HistoryAssumption
  <2>3. Len(page) = Last(n, PageSize, L) - L /\ Last(n, PageSize, L) <= n
    BY <1>2, <1>9, <1>10, <2>1, <2>2 DEF Last
  <2>4. L + Len(page) <= n
    BY <1>2, <1>9, <1>10, <2>1, <2>2, <2>3 DEF Last
  <2>5. \A i \in 1 .. Len(got \o page) : (got \o page)[i] = s[i]
    <3> SUFFICES ASSUME NEW i \in 1 .. Len(got \o page) PROVE (got \o page)[i] = s[i]
      OBVIOUS
    <3>1. CASE i \in 1 .. L
      BY <1>12, <2>1, <3>1
    <3>2. CASE i \in L + 1 .. L + Len(page)
      <4>1. i - L \in 1 .. Len(page) /\ L + (i - L) = i
        BY <1>2, <1>10, <3>2
      <4>2. (got \o page)[i] = page[i - L]
        BY <1>12, <3>2
      <4>3. page[i - L] = s[L + (i - L)]
        BY <1>10, <4>1
      <4> QED BY <4>1, <4>2, <4>3
    <3>3. i \in 1 .. L \/ i \in L + 1 .. L + Len(page)
      <4>1. Len(page) \in Nat
        BY <1>10
      <4> QED BY <1>2, <1>12, <4>1
    <3> QED BY <3>1, <3>2, <3>3
  <2>6. \A u \in Ordered(S) : u = s
    BY <1>7, <1>8, <1>14, OneOrder
  <2>7. ASSUME Len(page) < PageSize
        PROVE  got \o page = s
    <3>1. L + Len(page) = n
      BY <1>2, <1>9, <2>1, <2>2, <2>3, <2>7 DEF Last
    <3>2. s \in Seq(S) /\ Len(s) = n
      BY <1>9
    <3>3. s \in Seq(rows)
      BY <1>8, <3>2
    <3>4. Len(got \o page) = Len(s)
      BY <1>12, <3>1, <3>2
    <3> HIDE DEF got, S
    <3> QED BY <1>11, <2>5, <3>3, <3>4, SeqEqual
  <2> QED BY <1>7, <1>12, <2>4, <2>5, <2>6, <2>7
<1>15. reading'.step = "paged" => Len(page) < PageSize
  BY <1>6
<1> QED
  <2> HIDE DEF S, got
  <2>1. got \o page \in Seq(rows')
    BY <1>1, <1>11
  <2>2. NoTies(At(t)') =>
            /\ Len(reading'.got) <= Cardinality(At(t)')
            /\ \A u \in Ordered(At(t)'), i \in 1 .. Len(reading'.got) :
                  reading'.got[i] = u[i]
            /\ reading'.step = "paged" => reading'.got \in Ordered(At(t)')
    BY <1>13, <1>14, <1>15
  <2> QED BY <1>2, <1>13, <2>1, <2>2 DEF Paging

(* Paging by limit and offset through a moment that was settled at the start,
   whatever is emitted meanwhile, ends with each of its events once and in order,
   if no two have the same time. *)
THEOREM PagesAreWhole == Spec => []PagesCover
<1> DEFINE Inv == TimeInv /\ Paging
<1>1. Init => Inv
  BY TimeInitially DEF Init, Idle, Paging
<1>2. Inv /\ [Next]_vars => Inv'
  <2> SUFFICES ASSUME Inv, [Next]_vars PROVE Inv'
    OBVIOUS
  <2>1. TimeInv' /\ Base
    BY TimeStep DEF TimeInv
  <2>2. ASSUME reading' = reading
        PROVE  Paging'
    BY <2>1, <2>2, PagingStays
  <2>3. ASSUME reading'.step \notin {"paging", "paged"} \/ ~reading'.settled
        PROVE  Paging'
    BY <2>3 DEF Paging
  <2>4. ASSUME NEW t \in Moments, StartPaging(t)
        PROVE  Paging'
    <3>1. /\ reading'.as_of = t /\ reading'.got = <<>> /\ reading'.step = "paging"
          /\ reading'.settled = Settled(t)
          /\ Settled(t)' = Settled(t) /\ At(t)' = At(t)
      BY <2>4 DEF StartPaging, Settled, UnderWay, At
    <3>2. Cardinality(At(t)) \in Nat
      BY <2>1, FS_Subset, FS_CardinalityType DEF Base, At
    <3> QED BY <3>1, <3>2 DEF Paging
  <2>5. ASSUME NextPage
        PROVE  Paging'
    <3>1. CASE reading.settled
      BY <2>1, <2>5, <3>1, NextPagePages
    <3>2. CASE ~reading.settled
      <4>1. reading'.settled = reading.settled
        BY <2>5 DEF NextPage
      <4> QED BY <2>3, <3>2, <4>1
    <3> QED BY <3>1, <3>2
  <2>6. \/ reading' = reading
        \/ reading'.step \notin {"paging", "paged"}
        \/ NextPage
        \/ \E t \in Moments : StartPaging(t)
    BY DEF Next, Tick, Construct, Commit, CommitFails, CommitUnacknowledged, OrphanEnds,
           Query, Timeline, Replay, Ask, AuditRaises, EndReading, Idle, vars
  <2> QED BY <2>1, <2>2, <2>3, <2>4, <2>5, <2>6
<1>3. Inv => PagesCover
  BY DEF Paging, PagesCover, NoTies
<1> QED BY <1>1, <1>2, <1>3, PTL DEF Spec
===============================================================================
