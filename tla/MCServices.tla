----------------------------- MODULE MCServices ------------------------------
(* Small instances of the services that live in the memory of one process and do
   not affect each other.  A behaviour exercises one of them, so that the states
   of the run are the sum, not the product, of theirs. *)
EXTENDS AccessPolicy, SchemaRegistry, Metrics, Secrets, Lifecycle

CONSTANTS READ, WRITE, finance, T, reader, writer, freeze, close, id, amount

VARIABLE which

MCRoleDrafts == {
    [name |-> reader, permissions |-> {READ}, scopes |-> {AllScopes}],
    [name |-> writer, permissions |-> {READ, WRITE}, scopes |-> {finance}]}

MCRuleDrafts == {
    [name |-> freeze, scopes |-> {}, permissions |-> {WRITE}, event_types |-> {},
     allow |-> FALSE, priority |-> 1],
    [name |-> freeze, scopes |-> {finance}, permissions |-> {READ, WRITE},
     event_types |-> {}, allow |-> TRUE, priority |-> 1],
    [name |-> close, scopes |-> {AllScopes}, permissions |-> {WRITE},
     event_types |-> {T}, allow |-> TRUE, priority |-> 2]}

MCSchemas == {[required |-> {id}, optional |-> {}, extra |-> "ignore"],
              [required |-> {id}, optional |-> {amount}, extra |-> "forbid"],
              [required |-> {id}, optional |-> {amount}, extra |-> "allow"]}

MCChain == <<"file", "json", "env">>

Init == /\ which \in {"policy", "schema", "metrics", "secrets", "lifecycle"}
        /\ PolicyInit /\ SchemaInit /\ MetricsInit /\ SecretsInit /\ LifecycleInit

Next ==
    /\ UNCHANGED which
    /\ \/ /\ which = "policy" /\ PolicyNext
          /\ UNCHANGED <<schemaVars, metricVars, secretVars, lifecycleVars>>
       \/ /\ which = "schema" /\ SchemaNext
          /\ UNCHANGED <<policyVars, metricVars, secretVars, lifecycleVars>>
       \/ /\ which = "metrics" /\ MetricsNext
          /\ UNCHANGED <<policyVars, schemaVars, secretVars, lifecycleVars>>
       \/ /\ which = "secrets" /\ SecretsNext
          /\ UNCHANGED <<policyVars, schemaVars, metricVars, lifecycleVars>>
       \/ /\ which = "lifecycle" /\ LifecycleNext
          /\ UNCHANGED <<policyVars, schemaVars, metricVars, secretVars>>

Spec == Init /\ [][Next]_<<which, policyVars, schemaVars, metricVars, secretVars,
                          lifecycleVars>>
===============================================================================
