-------------------------- MODULE SchemaValidator --------------------------
(***************************************************************************)
(* learn/contract/_validate.py: the JSON-Schema subset every subject       *)
(* payload is checked with, and the guard that keeps the shipped schemas   *)
(* inside that subset.                                                     *)
(*                                                                         *)
(* A JSON value is a record whose kind says which other field it has; a    *)
(* string is a sequence of letters and a pattern the set of strings it     *)
(* finds something in.  A schema is a record whose fields are its          *)
(* keywords.  An error is named by its rule: where it was found and how it *)
(* is worded are left out.                                                 *)
(*                                                                         *)
(* The code recurs over schemas and values.  Here it is a function of the  *)
(* results of the calls it makes, and the constants say that calls end:    *)
(* files are finite, and no $ref reaches itself with the same value (the   *)
(* code ends in a RecursionError there).                                   *)
(***************************************************************************)
EXTENDS Integers, Sequences, SequencesExt

CONSTANTS
    Instances,   \* the JSON values, with every value inside one of them
    Schemas,     \* the schema files that may be asked to judge one
    SIBLINGS,    \* the sibling schema files the loader finds, by name
    Parts,       \* the schemas anywhere in a file, each with its file
    Depth,       \* how deep each of them nests
    Height       \* how deep the calls nest that check a value against one

Has(record, key) == key \in DOMAIN record

Part(s, root) == [schema |-> s, root |-> root]
File(s) == Part(s, s)
Schemata == {p.schema : p \in Parts}
Queries == Instances \X Parts

-----------------------------------------------------------------------------
(* Where schemas nest.                                                     *)

OneIn(s, key) == IF Has(s, key) THEN {s[key]} ELSE {}
AllIn(s, key) == IF Has(s, key) THEN Range(s[key]) ELSE {}

\* additionalProperties is [schema |-> ...] or [allowed |-> FALSE].
ForExtra(s) ==
    IF Has(s, "additionalProperties") /\ Has(s.additionalProperties, "schema")
    THEN {s.additionalProperties.schema} ELSE {}

\* _walk_keyword_value
WalkInto(s) ==
    AllIn(s, "properties") \cup AllIn(s, "defs") \cup AllIn(s, "anyOf")
        \cup OneIn(s, "items") \cup OneIn(s, "not") \cup ForExtra(s)

\* _resolve_ref: a name among the root's own $defs, or a sibling file, which
\* becomes the root of what is inside it.
Resolves(ref, root) ==
    IF ref.local THEN Has(root, "defs") /\ Has(root.defs, ref.name)
                 ELSE Has(SIBLINGS, ref.name)

Target(ref, root) ==
    IF ref.local THEN Part(root.defs[ref.name], root) ELSE File(SIBLINGS[ref.name])

Inside(value) ==
    CASE value.kind = "object" -> Range(value.fields)
      [] value.kind = "array" -> Range(value.elements)
      [] OTHER -> {}

\* The calls that _check may make: what a value itself is held against, and
\* what the values inside it are.
Calls(value, p) ==
    LET s == p.schema
        Within(schemas) == {Part(t, p.root) : t \in schemas}
    IN  ({value} \X Within(AllIn(s, "anyOf") \cup OneIn(s, "not")))
            \cup {<<value, Target(ref, p.root)>> :
                    ref \in {r \in OneIn(s, "ref") : Resolves(r, p.root)}}
            \cup (Inside(value)
                    \X Within(AllIn(s, "properties") \cup ForExtra(s) \cup OneIn(s, "items")))

ASSUME ValidatorAssumption ==
    /\ \A v \in Instances :
        /\ v.kind \in {"integer", "fraction"} => v.floor \in Int
        /\ v.kind = "string" => Len(v.letters) \in Nat
        /\ v.kind = "array" => Len(v.elements) \in Nat
    /\ \A s \in Schemata :
        /\ Has(s, "minLength") => s.minLength \in Nat
        /\ Has(s, "minItems") => s.minItems \in Nat
        /\ Has(s, "minimum") => s.minimum \in Int
    /\ \A s \in Schemas : File(s) \in Parts
    /\ \A p \in Parts : p.root \in Schemata
    /\ \A name \in DOMAIN SIBLINGS : SIBLINGS[name] \in Schemata
    /\ Depth \in [Schemata -> Nat]
    /\ \A s \in Schemata : \A t \in WalkInto(s) : t \in Schemata /\ Depth[t] < Depth[s]
    /\ Height \in [Queries -> Nat]
    /\ \A q \in Queries : \A call \in Calls(q[1], q[2]) :
         call \in Queries /\ Height[call] < Height[q]

VARIABLES
    instance,    \* the payload
    schema,      \* the schema it is held against
    errors       \* what validate returned, {"unchecked"} until it has

validatorVars == <<instance, schema, errors>>

-----------------------------------------------------------------------------
(* The guard.                                                              *)

SUPPORTED_KEYWORDS ==
    {"type", "enum", "const", "pattern", "required", "properties",
     "additionalProperties", "items", "minItems", "minimum", "minLength",
     "anyOf", "not", "ref", "defs", "title"}

WalkKeywords[s \in Schemata] ==
    (DOMAIN s \ SUPPORTED_KEYWORDS) \cup UNION {WalkKeywords[t] : t \in WalkInto(s)}

\* The test suite asserts this of every schema that is shipped.
Guarded(s) ==
    /\ WalkKeywords[s] = {}
    /\ \A name \in DOMAIN SIBLINGS : WalkKeywords[SIBLINGS[name]] = {}

-----------------------------------------------------------------------------
(* The validator.  Found tells what each call that is made appends.        *)

Numeric(value) == value.kind \in {"integer", "fraction"}

MatchesType(value, name) ==
    IF name = "number" THEN Numeric(value) ELSE value.kind = name

\* An if of the code that appends one error.
ErrorIf(wrong, rule) == IF wrong THEN {rule} ELSE {}

CheckRef(Found, value, s, root) ==
    CASE ~Has(s, "ref") -> {}
      [] Has(s, "ref") /\ ~Resolves(s.ref, root) -> {"ref"}
      [] OTHER -> Found[value, Target(s.ref, root)]

TypeMismatch(value, s) ==
    Has(s, "type") /\ \A name \in Range(s.type) : ~MatchesType(value, name)

CheckEnumConst(value, s) ==
    ErrorIf(Has(s, "enum") /\ value \notin Range(s.enum), "enum")
        \cup ErrorIf(Has(s, "const") /\ value # s.const, "const")

CheckString(value, s) ==
    IF value.kind # "string" THEN {}
    ELSE ErrorIf(Has(s, "pattern") /\ value.letters \notin s.pattern, "pattern")
            \cup ErrorIf(Has(s, "minLength") /\ Len(value.letters) < s.minLength,
                         "minLength")

\* A fraction lies half way above its floor, so only the floor counts.
CheckNumeric(value, s) ==
    ErrorIf(Numeric(value) /\ Has(s, "minimum") /\ value.floor < s.minimum, "minimum")

PropertiesOf(s) == IF Has(s, "properties") THEN DOMAIN s.properties ELSE {}

CheckKnown(Found, value, s, root) ==
    UNION {Found[value.fields[key], Part(s.properties[key], root)] :
               key \in DOMAIN value.fields \cap PropertiesOf(s)}

CheckExtra(Found, value, s, root) ==
    LET extra == DOMAIN value.fields \ PropertiesOf(s)
    IN  CASE ~Has(s, "additionalProperties") -> {}
          [] Has(s, "additionalProperties") /\ Has(s.additionalProperties, "schema") ->
                 UNION {Found[value.fields[key], Part(s.additionalProperties.schema, root)] :
                            key \in extra}
          [] OTHER -> ErrorIf(extra # {}, "additionalProperties")

CheckObject(Found, value, s, root) ==
    IF value.kind # "object" THEN {}
    ELSE ErrorIf(Has(s, "required") /\ ~(s.required \subseteq DOMAIN value.fields),
                 "required")
            \cup CheckKnown(Found, value, s, root) \cup CheckExtra(Found, value, s, root)

CheckArray(Found, value, s, root) ==
    IF value.kind # "array" THEN {}
    ELSE ErrorIf(Has(s, "minItems") /\ Len(value.elements) < s.minItems, "minItems")
            \cup IF Has(s, "items")
                   THEN UNION {Found[element, Part(s.items, root)] :
                                   element \in Range(value.elements)}
                   ELSE {}

\* Mutant: one variant that does not fit is enough to refuse.
AnyOfNeedsAll(Found, value, s, root) ==
    ErrorIf(/\ Has(s, "anyOf")
            /\ \E option \in Range(s.anyOf) : Found[value, Part(option, root)] # {},
            "anyOf")

CheckAnyOf(Found, value, s, root) ==
    ErrorIf(/\ Has(s, "anyOf")
            /\ \A option \in Range(s.anyOf) : Found[value, Part(option, root)] # {},
            "anyOf")

CheckNot(Found, value, s, root) ==
    ErrorIf(Has(s, "not") /\ Found[value, Part(s.not, root)] = {}, "not")

\* _check: a wrong type stops the rest of the keywords, but not the $ref.
CheckAll(Found, value, s, root) ==
    CheckRef(Found, value, s, root)
        \cup IF TypeMismatch(value, s) THEN {"type"}
             ELSE UNION {CheckEnumConst(value, s), CheckString(value, s),
                         CheckNumeric(value, s), CheckObject(Found, value, s, root),
                         CheckArray(Found, value, s, root),
                         CheckAnyOf(Found, value, s, root),
                         CheckNot(Found, value, s, root)}

CheckValue[q \in Queries] ==
    CheckAll([call \in Calls(q[1], q[2]) |-> CheckValue[call]], q[1], q[2].schema, q[2].root)

-----------------------------------------------------------------------------

ValidatorInit ==
    /\ instance \in Instances
    /\ schema \in Schemas
    /\ errors = {"unchecked"}

Validate ==
    /\ errors = {"unchecked"}
    /\ errors' = CheckValue[<<instance, File(schema)>>]
    /\ UNCHANGED <<instance, schema>>

ValidatorNext == Validate

ValidatorSpec == ValidatorInit /\ [][ValidatorNext]_validatorVars

-----------------------------------------------------------------------------
(* What a schema says, by the drafts: each keyword allows some values,     *)
(* whatever the other keywords say, and a schema those that all of them    *)
(* allow.  "maximum" stands for the keywords the validator does not know.  *)

AllowsAll(Allowed, value, s, root) ==
    LET fields == DOMAIN value.fields
    IN  /\ Has(s, "type") => \E name \in Range(s.type) : MatchesType(value, name)
        /\ Has(s, "enum") => value \in Range(s.enum)
        /\ Has(s, "const") => value = s.const
        /\ value.kind = "string" =>
            /\ Has(s, "pattern") => value.letters \in s.pattern
            /\ Has(s, "minLength") => Len(value.letters) >= s.minLength
        /\ Numeric(value) =>
            /\ Has(s, "minimum") => value.floor >= s.minimum
            /\ Has(s, "maximum") => value.floor < s.maximum
        /\ value.kind = "object" =>
            /\ Has(s, "required") => s.required \subseteq fields
            /\ \A key \in fields \cap PropertiesOf(s) :
                 <<value.fields[key], Part(s.properties[key], root)>> \in Allowed
            /\ Has(s, "additionalProperties") =>
                 \A key \in fields \ PropertiesOf(s) :
                    /\ Has(s.additionalProperties, "schema")
                    /\ <<value.fields[key], Part(s.additionalProperties.schema, root)>>
                          \in Allowed
        /\ value.kind = "array" =>
            /\ Has(s, "minItems") => Len(value.elements) >= s.minItems
            /\ Has(s, "items") =>
                 \A element \in Range(value.elements) :
                    <<element, Part(s.items, root)>> \in Allowed
        /\ Has(s, "anyOf") =>
            \E option \in Range(s.anyOf) : <<value, Part(option, root)>> \in Allowed
        /\ Has(s, "not") => <<value, Part(s.not, root)>> \notin Allowed
        /\ Has(s, "ref") =>
            Resolves(s.ref, root) /\ <<value, Target(s.ref, root)>> \in Allowed

Allows[q \in Queries] ==
    AllowsAll({call \in Calls(q[1], q[2]) : Allows[call]}, q[1], q[2].schema, q[2].root)

ValidatorTypeOK ==
    /\ instance \in Instances
    /\ schema \in Schemas
    /\ errors \subseteq SUPPORTED_KEYWORDS \cup {"unchecked"}

\* A schema the guard lets through means what it says: validate finds nothing
\* wrong with a payload exactly when the schema, read keyword by keyword,
\* allows it.  It takes the guard to walk everywhere the validator goes and
\* the validator to stop early only where nothing could change the verdict.
GuardedSchemasMeanWhatTheySay ==
    errors # {"unchecked"} /\ Guarded(schema) =>
        (errors = {} <=> Allows[<<instance, File(schema)>>])

=============================================================================
