-------------------------- MODULE MCProcessContext --------------------------
(* Small instances of ProcessContext.  Agents a1 and a2 serve process p1, agent
   b1 serves p2; a rule of each agent matches T and, being a catch-all,
   routing.decision too. *)
EXTENDS ProcessContext

CONSTANTS a1, a2, b1, p1, p2, T, k1

MCProcessOf == [a \in Agents |-> IF a = b1 THEN p2 ELSE p1]
MCRouted == Agents \X {T, RoutingDecision}
===============================================================================
