--------------------------- MODULE SchemaRegistry ----------------------------
(* The SchemaRegistry of crewcontext/schema.py with the two operations of
   context.py that store data: emit, which validates it, and batch_emit, which
   does not. *)
EXTENDS Naturals, FiniteSets

CONSTANTS
    SchemaTypes,    \* event types
    Schemas,        \* Pydantic classes: required and optional fields, extra, which
                    \* is "ignore" unless the class says "forbid" or "allow"
    NoSchema,       \* nothing is registered
    DataFields,     \* fields that data may have; each is absent, valid or not
    MaxStored       \* bound: events stored

VARIABLES
    schemas,      \* _schemas
    strict_mode,  \* _strict_mode
    saved         \* the data stored, with the schema that was registered

schemaVars == <<schemas, strict_mode, saved>>

(* Data as validation sees it: the fields it has, and those of them whose values
   the schema's types refuse. *)
Data == {d \in [fields : SUBSET DataFields, invalid : SUBSET DataFields] :
            d.invalid \subseteq d.fields}

SchemaInit == /\ schemas = [t \in SchemaTypes |-> NoSchema]
              /\ strict_mode = FALSE
              /\ saved = {}

------------------------------------------------------------------------------
(* register: strict, or by default the registry's mode at this moment, makes a
   subclass that forbids unknown fields; else the class is taken as it is. *)
Register(type, schema, strict) ==
    /\ schemas' = [schemas EXCEPT ![type] =
                      [required |-> schema.required, optional |-> schema.optional,
                       extra |-> IF strict THEN "forbid" ELSE schema.extra]]
    /\ UNCHANGED <<strict_mode, saved>>

RegisterByMode(type, schema) == Register(type, schema, strict_mode)

Unregister(type) ==
    /\ schemas' = [schemas EXCEPT ![type] = NoSchema]
    /\ UNCHANGED <<strict_mode, saved>>

(* It applies to registrations to come; schemas registered before stay. *)
SetStrictMode(strict) ==
    /\ strict_mode' = strict
    /\ UNCHANGED <<schemas, saved>>

FieldsOf(schema) == schema.required \cup schema.optional

Valid(schema, d) ==
    /\ schema.required \subseteq d.fields
    /\ d.invalid \cap FieldsOf(schema) = {}
    /\ schema.extra = "forbid" => d.fields \subseteq FieldsOf(schema)

\* Mutant: the data is checked and then stored as it came.
ValidatedAsGiven(schema, d) == d.fields

(* model_dump: every field of the schema, defaults included, and of unknown fields
   those that a class which allows them has kept. *)
Validated(schema, d) ==
    IF schema = NoSchema THEN d.fields
    ELSE FieldsOf(schema) \cup (IF schema.extra = "allow" THEN d.fields ELSE {})

Store(type, fields, schema, how) ==
    /\ Cardinality(saved) < MaxStored
    /\ saved' = saved \cup {[type |-> type, fields |-> fields, schema |-> schema,
                             how |-> how]}
    /\ UNCHANGED <<schemas, strict_mode>>

(* Invalid data raises, and nothing is stored. *)
EmitValidated(type, d) ==
    /\ schemas[type] # NoSchema => Valid(schemas[type], d)
    /\ Store(type, Validated(schemas[type], d), schemas[type], "emit")

BatchEmitAsGiven(type, d) == Store(type, d.fields, schemas[type], "batch_emit")

SchemaNext ==
    \/ \E t \in SchemaTypes, s \in Schemas, strict \in BOOLEAN : Register(t, s, strict)
    \/ \E t \in SchemaTypes, s \in Schemas : RegisterByMode(t, s)
    \/ \E t \in SchemaTypes : Unregister(t)
    \/ \E strict \in BOOLEAN : SetStrictMode(strict)
    \/ \E t \in SchemaTypes, d \in Data : EmitValidated(t, d) \/ BatchEmitAsGiven(t, d)

------------------------------------------------------------------------------
(* What emit stores under a registration has all of its fields, whatever callers
   pass and however the strict mode is switched meanwhile: readers of such a type
   can rely on them.  And it has one shape, unless the class allows unknown fields
   and the registration did not forbid them.  (batch_emit stores anything.) *)
OneShapePerSchema ==
    \A r \in {x \in saved : x.how = "emit" /\ x.schema # NoSchema} :
        /\ FieldsOf(r.schema) \subseteq r.fields
        /\ \/ r.schema.extra = "allow"
           \/ \A s \in saved : s.how = "emit" /\ s.type = r.type /\ s.schema = r.schema
                                 => s.fields = r.fields
===============================================================================
