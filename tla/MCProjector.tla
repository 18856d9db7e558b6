----------------------------- MODULE MCProjector -----------------------------
(* Small instances of Projector: e2 affects n1 and was caused by e1; n1 and n2
   are related, by a type that events use too.  Neo4j refuses the data of n2. *)
EXTENDS Projector

CONSTANTS e1, e2, n1, n2

MCEntityOf == [e \in Events |-> IF e = e1 THEN NoEntity ELSE n1]
MCParentsOf == [e \in Events |-> IF e = e2 THEN <<e1>> ELSE <<>>]
MCRelations == {<<"CAUSED", n1, n2>>}
===============================================================================
