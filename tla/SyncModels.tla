------------------------------- MODULE SyncModels -------------------------------
(***************************************************************************)
(* scripts/sync_models.py: the Swift structs generated from the Pydantic   *)
(* schemas (`make sync-models`), and the check that they are up to date    *)
(* (`make check-models`).                                                  *)
(*                                                                         *)
(* A developer edits one field of one schema, breaks and repairs modules,  *)
(* and runs the script.  A JSON schema says what it is made of: scalars,   *)
(* open objects, and the models and enums that its $refs name.  A Swift    *)
(* type is a name, or an array of one, and may be optional; a file is a    *)
(* function from struct names to fields.                                   *)
(***************************************************************************)
EXTENDS Sequences, FiniteSets

CONSTANT None

VARIABLES
    edited,    \* the type of NoteOut.meta, and whether it is required
    broken,    \* the schema modules whose import raises
    file,      \* GeneratedModels.swift, None if there is none
    outcome    \* the last command and its exit code

svars == <<edited, broken, file, outcome>>

\* The modules of app/schemas; the package itself imports those it re-exports.
Classes == [notes |-> {"NoteIn", "NoteOut"}, auth |-> {"LoginRequest", "UserOut"},
            pages |-> {"NotePage"}]
Reexported == {"notes", "auth"}
SKIP_SCHEMAS == {"HTTPValidationError", "ValidationError",
                 "RegisterRequest", "LoginRequest", "RefreshRequest"}

Scalars == {"string", "uuid", "date-time", "integer", "number", "boolean"}
Plain(t) == [type |-> "plain", of |-> {t}]
Array(t) == [type |-> "array", of |-> {t}]
AnyOf(ts) == [type |-> "anyOf", of |-> ts]

\* What a $ref may name: a model that is generated, one that is skipped, an enum,
\* which is no BaseModel and never generated.
Referred == {"UserOut", "LoginRequest", "NoteKind"}

\* What a developer may make of NoteOut.meta, and whether it has a default.
FieldTypes ==
    {Plain(t) : t \in Scalars \cup {"object", "any"} \cup Referred}
      \cup {Array(t) : t \in {"string", "any"} \cup Referred}
      \cup {AnyOf({t, "null"}) : t \in {"string", "date-time"} \cup Referred}
      \cup {AnyOf({"integer", "string"}), AnyOf({"integer", "string", "null"})}

\* model_json_schema(): the fields of a class, with `edited` among them.
Fields(c) ==
    CASE c = "NoteOut" -> {[name |-> "id", schema |-> Plain("uuid"), required |-> TRUE],
                           [name |-> "created_at", schema |-> Plain("date-time"), required |-> TRUE],
                           [name |-> "meta", schema |-> edited.schema, required |-> edited.required]}
      [] c = "NoteIn" -> {[name |-> "body", schema |-> AnyOf({"string", "null"}), required |-> FALSE]}
      [] c = "NotePage" -> {[name |-> "notes", schema |-> Array("NoteOut"), required |-> TRUE]}
      [] OTHER -> {[name |-> "email", schema |-> Plain("string"), required |-> TRUE]}

-----------------------------------------------------------------------------
(* The generator *)

\* A module is skipped if it, or the package it is in, cannot be imported.
Imports(m) == m \notin broken /\ Reexported \cap broken = {}

discover_schema_classes ==
    UNION {Classes[m] \ SKIP_SCHEMAS : m \in {n \in DOMAIN Classes : Imports(n)}}

Swift(form, of, required) == [form |-> form, of |-> of, optional |-> ~required]

\* What is emitted for a member: of a $ref, the name it ends in; of an open object,
\* [String: AnyJSON].
Leaf(t) == CASE t = "string" -> "String"   [] t = "uuid" -> "UUID"
             [] t = "date-time" -> "Date"  [] t = "integer" -> "Int"
             [] t = "number" -> "Double"   [] t = "boolean" -> "Bool"
             [] t = "object" -> "DictionaryOfAnyJSON" [] t = "any" -> "AnyJSON"
             [] OTHER -> t

json_schema_to_swift_type(s, required) ==
    LET types == s.of \ {"null"}
        leaf == Leaf(CHOOSE t \in types : TRUE)
    IN  CASE s.type = "plain" -> Swift("one", leaf, required)
          [] s.type = "array" -> Swift("array", leaf, required)
          [] s.type = "anyOf" /\ Cardinality(types) = 1 -> Swift("one", leaf, "null" \notin s.of)
          [] OTHER -> Swift("one", "AnyCodable", FALSE)

\* A property in camel case, and the key it is coded under.
Camel(name) == IF name = "created_at" THEN "createdAt" ELSE name
generate_swift_struct(c) ==
    {[let |-> Camel(f.name), key |-> f.name,
      type |-> json_schema_to_swift_type(f.schema, f.required)] : f \in Fields(c)}

Output == [c \in discover_schema_classes |-> generate_swift_struct(c)]

\* check_sql_drift looks for columns in the CREATE TABLE statements of the
\* migrations, which have none: they call op.create_table. Without a column it
\* gives up, else it warns of the fields that are none.
SqlColumns == {}
check_sql_drift ==
    IF SqlColumns = {} THEN {}
    ELSE UNION {{<<c, f.name>> : f \in {g \in Fields(c) : g.name \notin SqlColumns}} :
                  c \in discover_schema_classes}

-----------------------------------------------------------------------------
(* The commands *)

Init ==
    /\ edited = [schema |-> Plain("string"), required |-> TRUE]
    /\ broken = {} /\ file = None
    /\ outcome = [command |-> "none", exit |-> 0, warned |-> {}]

\* One of the two at a time.
EditField(schema, required) ==
    /\ schema = edited.schema \/ required = edited.required
    /\ edited' = [schema |-> schema, required |-> required]
    /\ outcome' = [command |-> "none", exit |-> 0, warned |-> {}]
    /\ UNCHANGED <<broken, file>>

\* Bound: one module is broken at a time.
EditModule(m) ==
    /\ broken \in {{}, {m}}
    /\ broken' = {m} \ broken
    /\ outcome' = [command |-> "none", exit |-> 0, warned |-> {}]
    /\ UNCHANGED <<edited, file>>

\* With no schema there is nothing to generate: success, whatever the file.
Sync ==
    /\ file' = IF discover_schema_classes = {} THEN file ELSE Output
    /\ outcome' = [command |-> "sync", exit |-> 0, warned |-> check_sql_drift]
    /\ UNCHANGED <<edited, broken>>

\* Slip: --check compares the names of the structs only.
CheckNames ==
    /\ outcome' = [command |-> "check", warned |-> check_sql_drift,
                   exit |-> IF discover_schema_classes = {} THEN 0
                            ELSE IF file = None THEN 1
                            ELSE IF DOMAIN file = DOMAIN Output THEN 0 ELSE 1]
    /\ UNCHANGED <<edited, broken, file>>

Check ==
    /\ outcome' = [command |-> "check", warned |-> check_sql_drift,
                   exit |-> IF discover_schema_classes = {} \/ file = Output THEN 0 ELSE 1]
    /\ UNCHANGED <<edited, broken, file>>

Next ==
    \/ \E schema \in FieldTypes, required \in BOOLEAN : EditField(schema, required)
    \/ \E m \in DOMAIN Classes : EditModule(m)
    \/ Sync \/ Check

Spec == Init /\ [][Next]_svars

-----------------------------------------------------------------------------
(* Properties *)

\* A schema that is made of one thing, which Swift has or a struct is generated for.
Supported(schema) ==
    /\ Cardinality(schema.of \ {"null"}) = 1
    /\ schema.of \subseteq Scalars \cup {"null"} \cup discover_schema_classes

\* swiftc takes a file whose types it knows: the app defines neither AnyCodable nor
\* AnyJSON, and no model of the API by hand.
Known == {"String", "UUID", "Date", "Int", "Double", "Bool"}
Compiles ==
    \A c \in DOMAIN file : \A s \in file[c] : s.type.of \in Known \cup DOMAIN file

\* The JSON a field may have in an answer, and what Codable makes of it: what is
\* absent is as good as null.
Values(f) ==
    {<<f.schema.type, t>> : t \in f.schema.of \cup (IF f.required THEN {} ELSE {"null"})}

Decodes(type, v) ==
    IF v[2] = "null" THEN type.optional
    ELSE type.of = Leaf(v[2]) /\ type.form = IF v[1] = "array" THEN "array" ELSE "one"

\* A check that passes, there being schemas to import, vouches for the file: it has
\* a struct for each of them, it compiles iff the generator supports every field of
\* theirs, and if it does every field decodes, whatever an answer has in it.
CheckedFileDecodes ==
    (outcome.command = "check" /\ outcome.exit = 0 /\ discover_schema_classes # {}) =>
       /\ DOMAIN file = discover_schema_classes
       /\ Compiles <=> \A c \in discover_schema_classes : \A f \in Fields(c) : Supported(f.schema)
       /\ Compiles =>
            \A c \in discover_schema_classes : \A f \in Fields(c) :
               \E s \in file[c] : s.key = f.name /\ \A v \in Values(f) : Decodes(s.type, v)
=============================================================================
