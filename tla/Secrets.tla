------------------------------- MODULE Secrets -------------------------------
(* The SecretsManager of crewcontext/secrets.py over a chain of providers whose
   sources others change meanwhile: the environment, a directory of files and a
   JSON file, which is read once. *)
EXTENDS Naturals, Sequences, FiniteSets, Lists

CONSTANTS
    Names, Values, NoValue,  \* secrets; None
    Chain,        \* the providers in order, of "env", "file" and "json"
    Unloaded,     \* JsonSecretProvider._cache is None
    AccessSize,   \* entries the access log keeps, 100
    MaxVersions   \* bound: contents the JSON file has had

VARIABLES
    source,      \* what a provider's source holds now: name -> value
    cache,       \* _cache of the JSON provider
    required,    \* _required
    access_log,  \* _access_log
    outcome,     \* how the last call ended
    versions,    \* contents the JSON file has had
    served       \* what the JSON provider has answered

secretVars == <<source, cache, required, access_log, outcome, versions, served>>

Contents == [Names -> Values \cup {NoValue}]

Nothing == [n \in Names |-> NoValue]

SecretsInit == /\ source = [p \in {"env", "file", "json"} |-> Nothing]
               /\ cache = Unloaded
               /\ required = {}
               /\ access_log = <<>>
               /\ outcome = [kind |-> "none"]
               /\ versions = {Nothing}
               /\ served = {}

(* Somebody rewrites a source. *)
Rewrite(p, content) ==
    /\ p = "json" => Cardinality(versions \cup {content}) <= MaxVersions
    /\ source' = [source EXCEPT ![p] = content]
    /\ versions' = IF p = "json" THEN versions \cup {content} ELSE versions
    /\ UNCHANGED <<cache, required, access_log, outcome, served>>

------------------------------------------------------------------------------
(* One call of get.  A file that cannot be read is as good as missing. *)
Reading(p, name, unreadable) ==
    CASE p = "env" -> source[p][name]
      [] p = "file" -> IF p \in unreadable THEN NoValue ELSE source[p][name]
      [] p = "json" -> IF cache # Unloaded THEN cache[name]
                       ELSE IF p \in unreadable THEN NoValue ELSE source[p][name]

(* The provider that answers: the first that has the secret. *)
Answering(name, unreadable) ==
    {i \in DOMAIN Chain :
        /\ Reading(Chain[i], name, unreadable) # NoValue
        /\ \A j \in 1 .. i - 1 : Reading(Chain[j], name, unreadable) = NoValue}

Value(name, unreadable) ==
    IF Answering(name, unreadable) = {} THEN NoValue
    ELSE Reading(Chain[CHOOSE i \in Answering(name, unreadable) : TRUE], name, unreadable)

Asked(name, unreadable) ==
    {Chain[i] : i \in {j \in DOMAIN Chain :
                          \A k \in Answering(name, unreadable) : j <= k}}

\* Mutant: the file is read at every call.
LoadNothing(name, unreadable) == UNCHANGED cache

(* _load: a successful reading is kept, a failed one is tried again. *)
Load(name, unreadable) ==
    cache' = IF cache = Unloaded /\ "json" \in Asked(name, unreadable) \ unreadable
             THEN source["json"] ELSE cache

Lookup(name, unreadable) ==
    /\ Load(name, unreadable)
    /\ access_log' = Latest(Append(access_log,
                        [name |-> name, found |-> Value(name, unreadable) # NoValue]),
                     AccessSize)
    /\ served' = served \cup
          {<<name, Reading(Chain[i], name, unreadable)>> :
              i \in {j \in Answering(name, unreadable) : Chain[j] = "json"}}
    /\ UNCHANGED <<source, versions>>

(* get: a value, else the caller's default unless the name is required. *)
GetSecret(name, unreadable) ==
    LET v == Value(name, unreadable)
    IN  /\ Lookup(name, unreadable)
        /\ outcome' = [kind |-> IF v # NoValue THEN "value"
                                ELSE IF name \in required THEN "raised" ELSE "default",
                       name |-> name]
        /\ UNCHANGED required

(* require, one of its names after the other: it stops at the first that is
   missing, and those before it stay required. *)
Require(name, unreadable) ==
    LET found == Value(name, unreadable) # NoValue
    IN  /\ Lookup(name, unreadable)
        /\ required' = IF found THEN required \cup {name} ELSE required
        /\ outcome' = [kind |-> IF found THEN "value" ELSE "raised", name |-> name]

SecretsNext ==
    \/ \E p \in {Chain[i] : i \in DOMAIN Chain}, content \in Contents : Rewrite(p, content)
    \/ \E name \in Names, unreadable \in SUBSET {"file", "json"} :
           GetSecret(name, unreadable) \/ Require(name, unreadable)

------------------------------------------------------------------------------
(* All that the JSON provider ever answers comes from one version of its file:
   settings that belong together stay together while the file is rewritten. *)
JsonIsOneVersion ==
    \E content \in versions : \A x \in served : content[x[1]] = x[2]

===============================================================================
