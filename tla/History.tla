------------------------------- MODULE History -------------------------------
(* Temporal queries over the events of one process: query_events of
   store/postgres.py and the methods of context.py built on it.  Events carry
   the time at which they were constructed, agents commit them later, and a
   commit whose answer is lost may come much later or never. *)
EXTENDS Naturals, Sequences, FiniteSets

CONSTANTS
    Agents,        \* each with a ProcessContext on the same process
    ScopeOf,       \* ProcessContext.scope of an agent
    Entities,      \* what events affect
    Any,           \* a filter or a moment that is not given
    PageSize,      \* the limit of a reader who pages through an answer
    DefaultLimit,  \* limit of query and timeline if none is given, 1000
    ReplayLimit,   \* that of replay_events and export_events, 10000
    MaxTime,       \* bound: the clock stops there
    MaxEvents,     \* bound: events constructed
    MaxOrphans     \* bound: commits whose answer is lost

ASSUME HistoryAssumption ==
    /\ Any \notin Nat /\ Any \notin Entities
    /\ \A a \in Agents : ScopeOf[a] # Any
    /\ {DefaultLimit, ReplayLimit, MaxTime, MaxEvents, MaxOrphans} \subseteq Nat
    /\ PageSize \in Nat \ {0}

VARIABLES
    now,      \* the agents' clock, the same for all; it may stand still
    rows,     \* table events
    pending,  \* per agent, the event it constructed and has not committed
    orphans,  \* events whose COMMIT is under way without a client
    lost,     \* bound: how many there have been
    nextId,
    reading   \* the query in progress; queries change nothing, so one suffices

vars == <<now, rows, pending, orphans, lost, nextId, reading>>

NoEvent == [id |-> 0]
Idle == [step |-> "idle"]

Init == /\ now = 0
        /\ rows = {} /\ orphans = {}
        /\ pending = [a \in Agents |-> NoEvent]
        /\ lost = 0 /\ nextId = 1
        /\ reading = Idle

------------------------------------------------------------------------------
(* What the database answers. *)
Selected(q) ==
    {r \in rows : /\ q.entity \in {Any, r.entity}
                  /\ q.scope \in {Any, r.scope}
                  /\ q.as_of = Any \/ r.timestamp <= q.as_of}

\* Mutant: the newest first.
Newest(S) == {s \in [1 .. Cardinality(S) -> S] :
                 \A i, j \in DOMAIN s :
                     i < j => s[i] # s[j] /\ s[i].timestamp >= s[j].timestamp}

(* ORDER BY timestamp ASC: rows of the same time come in any order, which may be
   another one in the next query. *)
Ordered(S) == {s \in [1 .. Cardinality(S) -> S] :
                  \A i, j \in DOMAIN s :
                      i < j => s[i] # s[j] /\ s[i].timestamp <= s[j].timestamp}

\* Mutant: the first row of a page is the last one of the page before.
PageOverlapping(s, limit, offset) ==
    SubSeq(s, IF offset = 0 THEN 1 ELSE offset,
              IF offset + limit < Len(s) THEN offset + limit ELSE Len(s))

(* LIMIT limit OFFSET offset *)
Page(s, limit, offset) ==
    SubSeq(s, offset + 1, IF offset + limit < Len(s) THEN offset + limit ELSE Len(s))

Answers(q) == {Page(s, q.limit, q.offset) : s \in Ordered(Selected(q))}

------------------------------------------------------------------------------
(* Writing. *)
Tick == /\ now < MaxTime
        /\ now' = now + 1
        /\ UNCHANGED <<rows, pending, orphans, lost, nextId, reading>>

\* Mutants: the default of the timestamp is evaluated once, at import;
\* generate_id repeats itself.
EventAtImport(a, entity, parents) ==
    [id |-> nextId, entity |-> entity, scope |-> ScopeOf[a],
     timestamp |-> 0, parents |-> parents]
EventSameId(a, entity, parents) ==
    [id |-> 1, entity |-> entity, scope |-> ScopeOf[a],
     timestamp |-> now, parents |-> parents]

(* The Event of an emit, or of the decision on one: its timestamp is the time
   of its construction, its causes are events that some caller holds. *)
Event(a, entity, parents) ==
    [id |-> nextId, entity |-> entity, scope |-> ScopeOf[a],
     timestamp |-> now, parents |-> parents]

Construct(a, entity, parents) ==
    /\ pending[a] = NoEvent
    /\ nextId <= MaxEvents
    /\ nextId' = nextId + 1
    /\ pending' = [pending EXCEPT ![a] = Event(a, entity, parents)]
    /\ UNCHANGED <<now, rows, orphans, lost, reading>>

Commit(a) ==
    /\ pending[a] # NoEvent
    /\ rows' = rows \cup {pending[a]}
    /\ pending' = [pending EXCEPT ![a] = NoEvent]
    /\ UNCHANGED <<now, orphans, lost, nextId, reading>>

(* The save is refused, or the agent dies before its COMMIT. *)
CommitFails(a) ==
    /\ pending[a] # NoEvent
    /\ pending' = [pending EXCEPT ![a] = NoEvent]
    /\ UNCHANGED <<now, rows, orphans, lost, nextId, reading>>

(* The connection is lost after COMMIT was sent. *)
CommitUnacknowledged(a) ==
    /\ pending[a] # NoEvent
    /\ lost < MaxOrphans
    /\ lost' = lost + 1
    /\ orphans' = orphans \cup {pending[a]}
    /\ pending' = [pending EXCEPT ![a] = NoEvent]
    /\ UNCHANGED <<now, rows, nextId, reading>>

OrphanEnds(e) ==
    /\ e \in orphans
    /\ orphans' = orphans \ {e}
    /\ rows' \in {rows, rows \cup {e}}
    /\ UNCHANGED <<now, pending, lost, nextId, reading>>

------------------------------------------------------------------------------
(* Reading through a ProcessContext. *)
Ask(q) ==
    /\ reading = Idle
    /\ \E s \in Answers(q) :
           reading' = [step |-> "answered", query |-> q, answer |-> s]
    /\ UNCHANGED <<now, rows, pending, orphans, lost, nextId>>

Filter(entity, scope, as_of, limit, offset) ==
    [entity |-> entity, scope |-> scope, as_of |-> as_of,
     limit |-> limit, offset |-> offset]

(* query: in the agent's own scope if none is given. *)
Query(a, entity, scope, as_of, offset) ==
    Ask(Filter(entity, IF scope = Any THEN ScopeOf[a] ELSE scope, as_of,
               DefaultLimit, offset))

(* timeline, and rebuild_entity_state, which begins with it: of every scope. *)
Timeline(entity, as_of) == Ask(Filter(entity, Any, as_of, DefaultLimit, 0))

(* replay_events and export_events begin with a query. *)
Replay(a, entity, as_of) ==
    Ask(Filter(entity, ScopeOf[a], as_of, ReplayLimit, 0))

(* _audit_query, called with the answer: context.py imports datetime without
   timezone, so the first expression raises NameError and the call ends; no
   entry is ever appended and no caller gets the rows. *)
AuditRaises ==
    /\ reading.step = "answered"
    /\ reading' = [step |-> "raised"]
    /\ UNCHANGED <<now, rows, pending, orphans, lost, nextId>>

(* Whoever asked goes on. *)
EndReading ==
    /\ reading.step \in {"raised", "paged"}
    /\ reading' = Idle
    /\ UNCHANGED <<now, rows, pending, orphans, lost, nextId>>

------------------------------------------------------------------------------
(* Reading through the Store, page by page. *)
UnderWay == {pending[a] : a \in Agents} \cup orphans

(* Time t is past and whatever was constructed by then is committed or gone. *)
Settled(t) == /\ t < now
              /\ \A e \in UnderWay : e # NoEvent => e.timestamp > t

StartPaging(as_of) ==
    /\ reading = Idle
    /\ reading' = [step |-> "paging", as_of |-> as_of, got |-> <<>>,
                   settled |-> Settled(as_of)]
    /\ UNCHANGED <<now, rows, pending, orphans, lost, nextId>>

NextPage ==
    /\ reading.step = "paging"
    /\ \E s \in Answers(Filter(Any, Any, reading.as_of, PageSize, Len(reading.got))) :
           reading' = [step |-> IF Len(s) < PageSize THEN "paged" ELSE "paging",
                       as_of |-> reading.as_of, got |-> reading.got \o s,
                       settled |-> reading.settled]
    /\ UNCHANGED <<now, rows, pending, orphans, lost, nextId>>

------------------------------------------------------------------------------
Moments == 0 .. MaxTime

Next ==
    \/ Tick
    \/ \E a \in Agents, n \in Entities, ps \in SUBSET {r.id : r \in rows} :
           Construct(a, n, ps)
    \/ \E a \in Agents : \/ Commit(a) \/ CommitFails(a) \/ CommitUnacknowledged(a)
    \/ \E e \in orphans : OrphanEnds(e)
    \/ \E a \in Agents, n \in Entities, t \in Moments \cup {Any} :
           \/ \E o \in 0 .. 1 : Query(a, n, Any, t, o)
           \/ Timeline(n, t)
           \/ Replay(a, n, t)
    \/ \E t \in Moments : StartPaging(t)
    \/ NextPage
    \/ AuditRaises \/ EndReading

Spec == Init /\ [][Next]_vars

------------------------------------------------------------------------------
(* Events are dated in the past, whether stored, under way or orphaned, and ids
   are handed out once. *)
TypeOK ==
    /\ now \in Nat /\ nextId \in Nat
    /\ \A r \in rows \cup (UnderWay \ {NoEvent}) :
          r.id < nextId /\ r.timestamp \in 0 .. now
    /\ \A r, s \in rows \cup (UnderWay \ {NoEvent}) : r.id = s.id => r = s
    /\ reading.step \in {"idle", "answered", "raised", "paging", "paged"}

At(t) == {r \in rows : r.timestamp <= t}

(* The answer to a query as of a past moment is final once the saves that began
   by then are over; before that it may still grow, as events are dated before
   they are committed. *)
PastIsFinal ==
    [][\A t \in Moments : Settled(t) => At(t)' = At(t) /\ Settled(t)']_vars

(* Histories are causal: in any answer an event comes after each of its causes
   that the filters let through and that is older, even when LIMIT cuts the
   answer off; a replay never sees an effect whose cause it has not seen.  (A
   cause of the same time may come after its effect.) *)
CausesComeFirst ==
    reading.step = "answered" /\ reading.query.offset = 0 =>
        LET s == reading.answer
        IN  \A i \in DOMAIN s : \A r \in Selected(reading.query) :
                r.id \in s[i].parents /\ r.timestamp < s[i].timestamp =>
                    \E j \in 1 .. i - 1 : s[j] = r

(* Paging through a settled moment by limit and offset, while events are emitted
   between the pages, returns every event once and in order, provided no two
   have the same time. *)
PagesCover ==
    reading.step = "paged" /\ reading.settled
        /\ (\A r, s \in At(reading.as_of) : r.timestamp = s.timestamp => r = s)
        => reading.got \in Ordered(At(reading.as_of))

(* What tests/test_security.py and tests/test_observability.py expect of every
   query that the database answers: the caller gets the rows. *)
AnsweredIsReturned == reading.step # "raised"
===============================================================================
