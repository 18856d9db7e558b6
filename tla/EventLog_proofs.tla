--------------------------- MODULE EventLog_proofs ---------------------------
(* The contract of the Store keeps what it promises, for every set of events
   and keys. *)
EXTENDS EventLog, TLAPS

(* A causal link joins two stored events and a binding leads to a stored event,
   in every state the contract allows. *)
THEOREM NeverDangling == Spec => []NoDangling
<1>1. Init => NoDangling
  BY DEF Init, NoDangling
<1>2. NoDangling /\ [Append]_vars => NoDangling'
  <2> SUFFICES ASSUME NoDangling, [Append]_vars PROVE NoDangling'
    OBVIOUS
  <2>1. CASE Append
    <3>1. links' \subseteq log' \X log'
      BY <2>1 DEF Append, NoDangling
    <3>2. ASSUME NEW b \in bindings' PROVE b[2] \in log'
      <4>1. CASE b \in bindings
        BY <2>1, <4>1 DEF Append, NoDangling
      <4>2. CASE b \notin bindings
        BY <2>1, <4>2, <3>2 DEF Append
      <4> QED BY <4>1, <4>2
    <3> QED BY <3>1, <3>2 DEF NoDangling
  <2>2. CASE UNCHANGED vars
    BY <2>2 DEF vars, NoDangling
  <2> QED BY <2>1, <2>2
<1> QED BY <1>1, <1>2, PTL DEF Spec

(* A key is bound to at most one event. *)
THEOREM BoundOnce == Spec => []KeyBoundOnce
<1>1. Init => KeyBoundOnce
  BY DEF Init, KeyBoundOnce
<1>2. KeyBoundOnce /\ [Append]_vars => KeyBoundOnce'
  <2> SUFFICES ASSUME KeyBoundOnce, [Append]_vars,
                      NEW b \in bindings', NEW c \in bindings', b[1] = c[1]
               PROVE  b = c
    BY DEF KeyBoundOnce
  <2>1. CASE Append
    <3>1. CASE b \in bindings /\ c \in bindings
      BY <3>1 DEF KeyBoundOnce
    <3>2. CASE b \notin bindings
      BY <2>1, <3>2 DEF Append
    <3>3. CASE c \notin bindings
      BY <2>1, <3>3 DEF Append
    <3> QED BY <3>1, <3>2, <3>3
  <2>2. CASE UNCHANGED vars
    BY <2>2 DEF vars, KeyBoundOnce
  <2> QED BY <2>1, <2>2
<1> QED BY <1>1, <1>2, PTL DEF Spec

(* The causal links form a DAG.  A set of events that holds none of the newest
   transaction's has a source already; otherwise, if it has older events too,
   their source is one of the whole set, for a link never leads from a new
   event; and if it has only new ones, any of them is. *)
THEOREM AlwaysAcyclic == Spec => []Acyclic
<1>1. Init => Acyclic
  BY DEF Init, Acyclic
<1>2. NoDangling /\ Acyclic /\ [Append]_vars => Acyclic'
  <2> SUFFICES ASSUME NoDangling, Acyclic, [Append]_vars,
                      NEW es \in SUBSET log', es # {}
               PROVE  \E e \in es : \A p \in es : <<p, e>> \notin links'
    BY DEF Acyclic
  <2>1. CASE Append
    <3>1. ASSUME NEW p, NEW e, <<p, e>> \in links', e \in log
          PROVE  <<p, e>> \in links /\ p \in log
      BY <2>1, <3>1 DEF Append, NoDangling
    <3>2. ASSUME NEW p, NEW e, <<p, e>> \in links', p \notin log
          PROVE  FALSE
      BY <2>1, <3>2 DEF Append, NoDangling
    <3>3. CASE es \cap log = {}
      BY <3>2, <3>3
    <3>4. CASE es \cap log # {}
      <4>1. PICK e \in es \cap log : \A p \in es \cap log : <<p, e>> \notin links
        BY <3>4 DEF Acyclic
      <4> QED BY <4>1, <3>1
    <3> QED BY <3>3, <3>4
  <2>2. CASE UNCHANGED vars
    BY <2>2 DEF vars, Acyclic
  <2> QED BY <2>1, <2>2
<1> QED BY <1>1, <1>2, NeverDangling, PTL DEF Spec
===============================================================================
