------------------------------- MODULE EventLog -------------------------------
(* What every storage backend promises its callers (store/base.py, class
   Store, and the DDL of store/postgres.py): an append-only log of events, the
   causal links between them, and the idempotency keys bound to them.  An
   append is one transaction.  Emission, dedup, crashes and the graph are not
   visible here: ProcessContext implements this module. *)
CONSTANTS Ids,     \* event identifiers
          KeyIds   \* (process, idempotency key) pairs

VARIABLES log,      \* the events the store holds
          links,    \* <<parent, child>> causal links
          bindings  \* <<key, event>> idempotency bindings

vars == <<log, links, bindings>>

Init == /\ log = {}
        /\ links = {}
        /\ bindings = {}

(* One transaction: it adds events, links from events stored before to the ones
   it adds, and bindings of keys nobody has bound to the ones it adds. *)
Append ==
    /\ log \subseteq log' /\ log' \subseteq Ids
    /\ links \subseteq links'
    /\ links' \ links \subseteq log \X (log' \ log)
    /\ bindings \subseteq bindings'
    /\ bindings' \ bindings \subseteq KeyIds \X (log' \ log)
    /\ \A b \in bindings' \ bindings, c \in bindings' : b[1] = c[1] => b = c

Spec == Init /\ [][Append]_vars

------------------------------------------------------------------------------
TypeOK == /\ log \subseteq Ids
          /\ links \subseteq Ids \X Ids
          /\ bindings \subseteq KeyIds \X Ids

(* A causal link never dangles, and a key is never bound to an event the store
   does not hold (the REFERENCES clauses of the DDL). *)
NoDangling == /\ links \subseteq log \X log
              /\ \A b \in bindings : b[2] \in log

(* A key is bound to at most one event (PRIMARY KEY (process_id,
   idempotency_key)). *)
KeyBoundOnce == \A b, c \in bindings : b[1] = c[1] => b = c

(* The causal links form a DAG ("Causal links: DAG edges"): every non-empty
   set of events holds one with no parent in the set. *)
Acyclic == \A es \in SUBSET log :
               es # {} => \E e \in es : \A p \in es : <<p, e>> \notin links
===============================================================================
