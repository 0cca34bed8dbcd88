---------------------------- MODULE MCAuthLogging ----------------------------
(***************************************************************************)
(* Model-checking instances of the auth routes, whose bodies carry the     *)
(* credentials, and of what the logs keep of a body.  They share no state  *)
(* and are explored one at a time: `part` says which one a behaviour is    *)
(* of.  A request has a query or a body: the logger masks each by itself.  *)
(***************************************************************************)
EXTENDS MCAuthBackend, LogRedaction

VARIABLE part

\* Bodies that are explored: the last level of nesting only under a name that
\* no pass looks at.
Explored ==
    LET low == Nested[Depth - 1]
    IN  low \cup {Dict([k \in {"note"} |-> v]) : v \in low}

LoggingInit ==
    /\ part \in {"auth", "redaction"}
    /\ Init /\ LogInit
    /\ (part # "redaction" => body = Empty)
    /\ (body.kind \in {"atom", "dict", "list"} => body \in Explored)
    /\ (query # Nothing => part = "redaction" /\ body = Empty)

\* The line is written, and nothing is left to do.
Written == line # Nothing /\ UNCHANGED lvars

LoggingNext ==
    \/ part = "auth" /\ Next /\ UNCHANGED <<part, lvars>>
    \/ part = "redaction" /\ (LogNext \/ Written) /\ UNCHANGED <<part, vars>>

LoggingSpec == LoggingInit /\ [][LoggingNext]_<<part, vars, lvars>>
=============================================================================
