---------------------------- MODULE MCEntityStore ----------------------------
(* Small instances of EntityStore: a1 receives an invoice n1 and knows its vendor
   n2, a2 saves the invoice it received too and then validates it, as of the day of
   its receipt; each may save its snapshots again. *)
EXTENDS EntityStore

CONSTANTS a1, a2, n1, n2, r1, BELONGS_TO, received, validated

Invoice(v, s) == [id |-> n1, version |-> v, attributes |-> {<<"status", s>>},
                  valid_to |-> Never, valid_from |-> Unset]
Vendor == [id |-> n2, version |-> 1, attributes |-> {}, valid_to |-> 1,
           valid_from |-> Unset]
Back(d) == [d EXCEPT !.valid_from = 0]

MCAttributes == {"status"} \X {received, validated}
MCRelations == {[id |-> r1, type |-> BELONGS_TO, from |-> n1, to |-> n2]}

(* Each version means one thing. *)
MCDrafts == [a \in Agents |->
                IF a = a1 THEN {Invoice(1, received), Vendor}
                          ELSE {Invoice(1, received), Back(Invoice(2, validated))}]

(* a2 leaves the version at its default, 1. *)
MCDraftsOfVersion1 == [a \in Agents |-> IF a = a1 THEN {Invoice(1, received)}
                                                  ELSE {Invoice(1, validated)}]
===============================================================================
