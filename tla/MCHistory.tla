------------------------------ MODULE MCHistory ------------------------------
(* A small instance of History: two agents with a scope each. *)
EXTENDS History

CONSTANTS a1, a2, s1, s2, n1

MCScopeOf == [a \in Agents |-> IF a = a1 THEN s1 ELSE s2]
===============================================================================
