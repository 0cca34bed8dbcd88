---------------------------- MODULE LogRedaction ----------------------------
(***************************************************************************)
(* What the logs keep of a request's body and query: the middleware passes *)
(* a JSON body through safe_log_dict (utils/log_context.py), and the       *)
(* structlog processor mask_sensitive_data (logging_config.py) every event *)
(* with its parameters and that body, and the warning of a rejected body   *)
(* (exception_handlers.py) with the value that was wrong.                  *)
(*                                                                         *)
(* A JSON value is [kind |-> "atom", it |-> ...], a "dict" whose `it` maps *)
(* keys to values, or a "list" whose `it` is a sequence.                   *)
(***************************************************************************)
EXTENDS Naturals, Sequences, SequencesExt

CONSTANTS
    Depth,   \* how deep the values of a body are nested
    KeySets, \* the sets of keys that an object may have
    Lengths  \* the lengths that an array may have

VARIABLES
    body,  \* the body of a request: a JSON value, or why there is none
    query, \* its query parameters
    taken, \* what get_request_body made of the body
    line,  \* the event that is written
    input, \* the value that a validation error names
    warning \* that error, in the event that is written of it

lvars == <<body, query, taken, line, input, warning>>

Keys == {"access_token", "api-key", "tokens_in", "author", "note"}

\* What is said of a body that is not logged is a JSON object too.
ASSUME DepthAssumption == Depth \in Nat \ {0} /\ Lengths \subseteq Nat
ASSUME KeysAssumption == KeySets \subseteq SUBSET Keys /\ {"note"} \in KeySets

(* The words a key splits into, in lower case, and the sensitive fields it *)
(* contains as they are spelled.                                           *)
Words(key) ==
    CASE key = "access_token" -> {"access", "token"}
      [] key = "api-key" -> {"api", "key"}
      [] key = "tokens_in" -> {"tokens", "in"}
      [] OTHER -> {key}
Holds(key) ==
    CASE key \in {"access_token", "tokens_in"} -> {"token"}
      [] key = "author" -> {"auth"}
      [] OTHER -> {}

SAFE_FIELDS == {"tokens_in"}
SensitiveWords == {{"token"}, {"auth"}, {"api", "key"}}

Masked == [kind |-> "atom", it |-> "masked"]
Dict(f) == [kind |-> "dict", it |-> f]
List(s) == [kind |-> "list", it |-> s]

Secret == [kind |-> "atom", it |-> "secret"]
Atoms == [kind : {"atom"}, it : {"plain", "secret", "masked"}]
Around(values) ==
    {Dict(f) : f \in UNION {[keys -> values] : keys \in KeySets}}
        \cup {List(s) : s \in UNION {[1 .. n -> values] : n \in Lengths}}

\* What is nested up to so deep around these atoms.
NestedOver(atoms) ==
    LET nested[n \in 0 .. Depth] ==
            IF n = 0 THEN atoms ELSE atoms \cup Around(nested[n - 1])
    IN  nested
Nested == NestedOver(Atoms)
Values == Nested[Depth]
IsDict(v) == v.kind = "dict"

-----------------------------------------------------------------------------
(* The two passes.  Each calls itself for the dicts inside a dict: `inner`  *)
(* is what these calls give.                                               *)

\* is_sensitive_key
IsSensitiveKey(key) ==
    key \notin SAFE_FIELDS /\ \E words \in SensitiveWords : words \subseteq Words(key)

\* Slip: only what is directly in the dict is looked at.
MaskFlat(v) ==
    Dict([k \in DOMAIN v.it |-> IF IsSensitiveKey(k) THEN Masked ELSE v.it[k]])

\* mask_sensitive_data: into dicts, and into the dicts of a list.
Entered(inner, w) ==
    LET mask(x) == IF IsDict(x) THEN inner[x] ELSE x
    IN  IF w.kind = "list" THEN List([i \in DOMAIN w.it |-> mask(w.it[i])]) ELSE mask(w)
MaskIn(inner, v) ==
    Dict([k \in DOMAIN v.it |->
            IF IsSensitiveKey(k) THEN Masked ELSE Entered(inner, v.it[k])])
Masks[n \in 0 .. Depth] ==
    [v \in Values |-> IF n = 0 THEN v ELSE MaskIn(Masks[n - 1], v)]
MaskDict(v) == MaskIn(Masks[Depth], v)

\* safe_log_dict: by substring, and into dicts only.
SafeIn(inner, v) ==
    Dict([k \in DOMAIN v.it |->
        IF Holds(k) # {} THEN Masked
        ELSE IF IsDict(v.it[k]) THEN inner[v.it[k]] ELSE v.it[k]])
Safes[n \in 0 .. Depth] ==
    [v \in Values |-> IF n = 0 THEN v ELSE SafeIn(Safes[n - 1], v)]
SafeLogDict(v) == Safes[Depth][v]

-----------------------------------------------------------------------------

Nothing == [kind |-> "atom", it |-> "nothing"]
Empty == [kind |-> "empty", it |-> "none"]
Note == Dict([k \in {"note"} |-> [kind |-> "atom", it |-> "plain"]])
Queries == {Dict(f) : f \in UNION {[keys -> Atoms] : keys \in KeySets \ {{}}}}

\* Bodies are JSON of any kind, or no JSON.
LogInit ==
    /\ body \in Values \cup {Empty} \cup
                {[kind |-> k, it |-> "none"] : k \in {"other_type", "invalid"}}
    /\ query \in {Nothing} \cup Queries
    /\ taken = Nothing /\ line = Nothing
    /\ input = Nothing /\ warning = Nothing

\* get_request_body, unless the setting is off: of a body that is too large, or
\* is no JSON object, it makes a note.
Take ==
    /\ taken = Nothing /\ line = Nothing /\ warning = Nothing
    /\ body # Empty
    /\ taken' \in {Note} \cup (IF IsDict(body) THEN {SafeLogDict(body)} ELSE {})
    /\ UNCHANGED <<body, query, line, input, warning>>

\* The route does not accept the JSON it is sent: validation_exception_handler
\* logs what is wrong, and of each error the value itself: the whole body, or
\* that of one field (the schemas are flat).
Reject ==
    /\ line = Nothing /\ warning = Nothing
    /\ body.kind \in {"atom", "dict", "list"}
    /\ input' \in {body} \cup (IF IsDict(body) THEN Range(body.it) ELSE {})
    /\ warning' = MaskDict(Dict([k \in {"input"} |-> input']))
    /\ UNCHANGED <<body, query, taken, line>>

\* The access log writes the request's event.
Write ==
    /\ line = Nothing
    /\ line' = MaskDict(Dict([k \in {"request_body", "query_params"} |->
                   IF k = "query_params" THEN query ELSE taken]))
    /\ UNCHANGED <<body, query, taken, input, warning>>

LogNext == Take \/ Reject \/ Write
LogSpec == LogInit /\ [][LogNext]_lvars

-----------------------------------------------------------------------------
(* Properties.                                                             *)

\* The values in which no secret can be read, wherever one looks.
Clear == NestedOver(Atoms \ {Secret})

\* The values whose secrets the logger guards: each is under a credential's
\* name, reached through objects and through arrays of objects alone.  A secret
\* under another name, and anything in an array of arrays, is not.
GuardedAround(guarded, n) ==
    {v \in Nested[n] :
        CASE IsDict(v) -> \A k \in DOMAIN v.it : IsSensitiveKey(k) \/ v.it[k] \in guarded
          [] v.kind = "list" -> \A i \in DOMAIN v.it :
                             v.it[i] \in IF IsDict(v.it[i]) THEN guarded ELSE Clear[n - 1]
          [] OTHER -> v # Secret}
Guarded[n \in 0 .. Depth] ==
    IF n = 0 THEN Clear[0] ELSE GuardedAround(Guarded[n - 1], n)

ClearValues == Clear[Depth]
GuardedValues == Guarded[Depth]

\* A body whose secrets are guarded leaves none of them in the access line; and
\* a secret can be read in a part of a line exactly when that part was handed
\* to the logger unguarded: the query, what is kept of the body, and the input
\* that a validation error names, which is under no credential's name any more.
\* Of a query every key is in the line, the counts and the words that only
\* resemble a credential with their values.
LineIsRedacted ==
    LET shows(part) == part \notin ClearValues
        guarded(part) == part \in GuardedValues
        written == line.it
    IN  /\ line # Nothing /\ taken # Nothing =>
              /\ shows(written["request_body"]) <=> ~guarded(taken)
              /\ guarded(body) => ~shows(written["request_body"])
        /\ line # Nothing /\ query # Nothing =>
              /\ shows(written["query_params"]) <=> ~guarded(query)
              /\ \A k \in DOMAIN query.it :
                    /\ k \in DOMAIN written["query_params"].it
                    /\ k \in {"tokens_in", "author", "note"} =>
                          written["query_params"].it[k] = query.it[k]
        /\ warning # Nothing => (shows(warning.it["input"]) <=> ~guarded(input))
=============================================================================
