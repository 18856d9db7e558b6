------------------------------ MODULE MCRouter -------------------------------
(* A small instance of Router: rules of two names, two of them of the same
   priority, over amounts that may be missing or text. *)
EXTENDS Router

CONSTANTS T, Text, amount, billed, audit, large, c1

Payload(a, b) == [f \in {amount, billed} |-> IF f = amount THEN a ELSE b]
MCPayloads == {Payload(7, 5), Payload(Text, None), Payload(Absent, 7)}

Condition(op, arg) == [op |-> op, field |-> amount, arg |-> arg]

MCDrafts == {
    [name |-> large, combine |-> "all_of", priority |-> 1,
     conditions |-> <<Condition("data_field_gt", 5)>>],
    [name |-> audit, combine |-> "none_of", priority |-> 1,
     conditions |-> <<Condition("data_field_eq", 7), Condition("data_field_gt", 5)>>],
    [name |-> audit, combine |-> "any_of", priority |-> 2,
     conditions |-> <<Condition("event_type_is", RoutingDecision),
                      Condition("data_fields_differ", billed),
                      Condition("data_field_ne", 7)>>]}
===============================================================================
