------------------------------ MODULE Projection ------------------------------
(* What a call of a project_* method promises whoever calls it: the contract of
   projection/projector.py, without retries, connection and circuit breaker.  A
   call that gives up may leave any part of its statements in the graph, and others
   write to the graph all the while.  The actions Project and ProjectGivesUp of
   ProcessContext have effects this contract allows (theorem GraphByContract). *)

CONSTANTS
    Operations,  \* sequences of statements, each with what it matches and merges
    Foreign      \* nodes that other callers may put into the graph

VARIABLES
    graph,   \* nodes and relationships
    call,    \* the statements of the call in progress, {} if there is none
    began,   \* the graph when it began
    answer   \* what the last call returned

StatementsOf(operation) == {operation[i] : i \in DOMAIN operation}

Init == call = {} /\ began = graph /\ answer = FALSE

(* The effect of the statements S, all of whose nodes are there in the end. *)
Effect(S) == /\ \A s \in S : s.match \subseteq graph'
             /\ graph' = graph \cup UNION {s.merge : s \in S}

(* S has every statement whose nodes were there before or are merged by S.  What
   others add meanwhile may come too late. *)
Complete(S, statements, before) ==
    \A s \in statements :
        s.match \subseteq before \cup UNION {t.merge : t \in S} => s \in S

Call(operation) ==
    /\ call = {}
    /\ call' = StatementsOf(operation)
    /\ began' = graph
    /\ answer' = FALSE
    /\ UNCHANGED graph

(* Without a connection it returns at once. *)
Refused == /\ call = {}
           /\ began' = graph
           /\ answer' = FALSE
           /\ UNCHANGED <<graph, call>>

(* True: nothing is missing but what had no node to match. *)
Succeeds == /\ call # {} /\ call' = {}
            /\ answer' = TRUE
            /\ UNCHANGED began
            /\ \E S \in SUBSET call : Effect(S) /\ Complete(S, call, began)

GivesUp == /\ call # {} /\ call' = {}
           /\ answer' = FALSE
           /\ UNCHANGED began
           /\ \E S \in SUBSET call : Effect(S)

OthersProject == /\ \E node \in Foreign : graph' = graph \cup {node}
                 /\ UNCHANGED <<call, began, answer>>

Next == \/ \E operation \in Operations : Call(operation)
        \/ Refused \/ Succeeds \/ GivesUp \/ OthersProject

Spec == Init /\ [][Next]_<<graph, call, began, answer>>
===============================================================================
