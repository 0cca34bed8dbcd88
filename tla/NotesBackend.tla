----------------------------- MODULE NotesBackend -----------------------------
(***************************************************************************)
(* The /me/notes routes of the FastAPI backend over PostgreSQL.            *)
(*                                                                         *)
(* As in AuthBackend a request is one asyncio task with one READ COMMITTED *)
(* transaction, every await ends an action, the response of a success goes *)
(* out before the commit, and an error is rolled back before its response. *)
(* The id of a note is a random uuid, named after the request that creates *)
(* the note; a value of title or body is named after the request that      *)
(* supplied it, and None is the JSON null.                                 *)
(***************************************************************************)
EXTENDS Naturals, FiniteSets

CONSTANTS Requests,   \* the HTTP requests that may arrive
          Users,      \* owners of access tokens
          None,       \* "no value", and null
          MaxNotes,   \* MAX_NOTES_PER_USER
          PoolSize,   \* connections the pool hands out at most
          Faults      \* whether database connections may break

ASSUME RequestsAssumption == IsFiniteSet(Requests)
ASSUME NoneAssumption == None \notin Requests
ASSUME BoundsAssumption == MaxNotes \in Nat \ {0} /\ PoolSize \in Nat \ {0}
ASSUME FaultsAssumption == Faults \in BOOLEAN

VARIABLES pc,      \* pc[r]: the step request r is at
          req,     \* req[r]: what r asks for
          shown,   \* shown[r]: the notes the response of r carries
          resp,    \* resp[r]: the status code sent, 0 before
          tx,      \* tx[r]: the rows r's transaction has written and removed
          notes    \* committed rows of the table notes

vars == <<pc, req, shown, resp, tx, notes>>

Kinds == {"list", "create", "get", "update", "delete"}
Finished == {"committed", "aborted"}
\* The steps at which a request holds a connection and an open transaction.
Working == {"count", "insert", "update", "delete", "select", "answer"}
Steps == {"idle", "connect", "commit"} \cup Working \cup Finished
Codes == {0, 200, 201, 204, 401, 404, 422, 500}

Values == Requests \cup {None}
Note == [id : Requests, user : Users, title : Requests, body : Values]
\* The fields a JSON body supplies; a field may be supplied as null.
Supplied == UNION {[S -> Values] : S \in SUBSET {"title", "body"}}
Request == [kind : Kinds \cup {"none"}, user : Users \cup {None},
            note : Requests \cup {None}, values : Supplied]

\* An update removes the row it replaces; a row that is removed is locked.
Tx == [put : SUBSET Note, gone : SUBSET Requests]
EmptyTx == [put |-> {}, gone |-> {}]

Nothing == [f \in {} |-> None]
Connected == {r \in Requests : pc[r] \in Working \cup {"commit"}}
NotesOf(u) == {n \in notes : n.user = u}
\* The committed rows as the transaction of r changes them.
View(r) == {n \in notes : n.id \notin tx[r].gone} \cup tx[r].put
\* The rows of View that WHERE id = ... AND user_id = ... selects.
Selected(r) == {n \in View(r) : n.id = req[r].note /\ n.user = req[r].user}

-----------------------------------------------------------------------------
Init ==
    /\ pc = [r \in Requests |-> "idle"]
    /\ req = [r \in Requests |->
                [kind |-> "none", user |-> None, note |-> None, values |-> Nothing]]
    /\ shown = [r \in Requests |-> {}]
    /\ resp = [r \in Requests |-> 0]
    /\ tx = [r \in Requests |-> EmptyTx]
    /\ notes = {}

Goto(r, step) == pc' = [pc EXCEPT ![r] = step]

\* Slip: the exception leaves the transaction, and its locks, open.
AbortLeavingOpen(r, code) ==
    /\ Goto(r, "aborted")
    /\ resp' = [resp EXCEPT ![r] = code]
    /\ UNCHANGED <<req, shown, tx, notes>>

\* An exception leaves the handler: get_db rolls back, then the handler of the
\* exception sends the error response.
Abort(r, code) ==
    /\ Goto(r, "aborted")
    /\ resp' = [resp EXCEPT ![r] = code]
    /\ tx' = [tx EXCEPT ![r] = EmptyTx]
    /\ UNCHANGED <<req, shown, notes>>

\* A client asks for a note by an id some response has shown, in its own name.
Arrive(r) ==
    /\ pc[r] = "idle"
    /\ \E u \in Users :
        LET Ask(kind, note, values) ==
                req' = [req EXCEPT ![r] = [kind |-> kind, user |-> u,
                                           note |-> note, values |-> values]]
        IN  \/ Ask("list", None, Nothing)
            \/ \E b \in {r, None} :
                  Ask("create", None, [title |-> r, body |-> b])
            \/ \E n \in {c \in Requests : resp[c] = 201} :
                  \/ \E kind \in {"get", "delete"} : Ask(kind, n, Nothing)
                  \/ \E S \in SUBSET {"title", "body"} :
                        \E v \in [S -> {r, None}] : Ask("update", n, v)
    /\ Goto(r, "connect")
    /\ UNCHANGED <<shown, resp, tx, notes>>

\* Refused before the handler runs: 429 from the limiter, 401 from verify_jwt or
\* 422 from the request schema; 401 stands for the three.
Refused(r) == pc[r] = "connect" /\ Abort(r, 401)

\* The first statement of the handler: update_note runs its UPDATE only when
\* the body supplies a field.
FirstStep(r) ==
    CASE req[r].kind = "create" -> "count"
      [] req[r].kind = "delete" -> "delete"
      [] req[r].kind = "update" /\ req[r].values # Nothing -> "update"
      [] OTHER -> "select"

Connect(r) ==
    /\ pc[r] = "connect"
    /\ Cardinality(Connected) < PoolSize
    /\ Goto(r, FirstStep(r))
    /\ UNCHANGED <<req, shown, resp, tx, notes>>

PoolTimeout(r) ==
    /\ pc[r] = "connect"
    /\ Cardinality(Connected) >= PoolSize
    /\ Abort(r, 500)

-----------------------------------------------------------------------------
(* create *)

\* Slip: the limit compared with > instead of >=.
CountNotesOffByOne(r) ==
    /\ pc[r] = "count"
    /\ Cardinality(NotesOf(req[r].user)) <= MaxNotes
    /\ Goto(r, "insert")
    /\ UNCHANGED <<req, shown, resp, tx, notes>>

CountNotes(r) ==
    /\ pc[r] = "count"
    /\ Cardinality(NotesOf(req[r].user)) < MaxNotes
    /\ Goto(r, "insert")
    /\ UNCHANGED <<req, shown, resp, tx, notes>>

LimitExceeded(r) ==
    /\ pc[r] = "count"
    /\ Cardinality(NotesOf(req[r].user)) >= MaxNotes
    /\ Abort(r, 422)

InsertNote(r) ==
    LET row == [id |-> r, user |-> req[r].user,
                title |-> req[r].values.title, body |-> req[r].values.body]
    IN  /\ pc[r] = "insert"
        /\ tx' = [tx EXCEPT ![r].put = {row}]
        /\ shown' = [shown EXCEPT ![r] = {row}]
        /\ Goto(r, "answer")
        /\ UNCHANGED <<req, resp, notes>>

-----------------------------------------------------------------------------
(* update and delete *)

\* An UPDATE or DELETE waits for the transaction that has changed the row.
RowLockedByOther(r) == \E o \in Requests \ {r} : req[r].note \in tx[o].gone

Rewritten(n, values) ==
    [f \in DOMAIN n |-> IF f \in DOMAIN values THEN values[f] ELSE n[f]]

\* Slip: the row is read and written back without waiting for its lock.
UpdateNoteUnlocked(r) ==
    /\ pc[r] = "update"
    /\ tx' = [tx EXCEPT ![r] = [put |-> {Rewritten(n, req[r].values) : n \in Selected(r)},
                                gone |-> {n.id : n \in Selected(r)}]]
    /\ Goto(r, "select")
    /\ UNCHANGED <<req, shown, resp, notes>>

\* Slip: the column title without its NOT NULL.
UpdateNoteNullable(r) ==
    /\ pc[r] = "update"
    /\ ~RowLockedByOther(r)
    /\ tx' = [tx EXCEPT ![r] = [put |-> {Rewritten(n, req[r].values) : n \in Selected(r)},
                                gone |-> {n.id : n \in Selected(r)}]]
    /\ Goto(r, "select")
    /\ UNCHANGED <<req, shown, resp, notes>>

\* UPDATE ... WHERE id = ... AND user_id = ...: no row matches when the note is gone, is not
\* committed yet or is another user's; the handler does not look at the count.
UpdateNote(r) ==
    /\ pc[r] = "update"
    /\ ~RowLockedByOther(r)
    /\ \A n \in Selected(r) : Rewritten(n, req[r].values).title # None
    /\ tx' = [tx EXCEPT ![r] = [put |-> {Rewritten(n, req[r].values) : n \in Selected(r)},
                                gone |-> {n.id : n \in Selected(r)}]]
    /\ Goto(r, "select")
    /\ UNCHANGED <<req, shown, resp, notes>>

\* "title": null passes the schema and fails the NOT NULL constraint.
TitleNull(r) ==
    /\ pc[r] = "update"
    /\ ~RowLockedByOther(r)
    /\ \E n \in Selected(r) : Rewritten(n, req[r].values).title = None
    /\ Abort(r, 500)

\* Slip: the DELETE does not look at the owner.
DeleteNoteOfAnyone(r) ==
    /\ pc[r] = "delete"
    /\ ~RowLockedByOther(r)
    /\ \E n \in notes : n.id = req[r].note
    /\ tx' = [tx EXCEPT ![r].gone = {req[r].note}]
    /\ Goto(r, "answer")
    /\ UNCHANGED <<req, shown, resp, notes>>

\* Slip: the row is deleted without waiting for its lock.
DeleteNoteUnlocked(r) ==
    /\ pc[r] = "delete"
    /\ Selected(r) # {}
    /\ tx' = [tx EXCEPT ![r].gone = {req[r].note}]
    /\ Goto(r, "answer")
    /\ UNCHANGED <<req, shown, resp, notes>>

DeleteNote(r) ==
    /\ pc[r] = "delete"
    /\ ~RowLockedByOther(r)
    /\ Selected(r) # {}
    /\ tx' = [tx EXCEPT ![r].gone = {req[r].note}]
    /\ Goto(r, "answer")
    /\ UNCHANGED <<req, shown, resp, notes>>

NothingDeleted(r) ==
    /\ pc[r] = "delete"
    /\ ~RowLockedByOther(r)
    /\ Selected(r) = {}
    /\ Abort(r, 404)

-----------------------------------------------------------------------------
(* Reading: list, get, and the get_note that ends update_note *)

ListNotes(r) ==
    /\ pc[r] = "select"
    /\ req[r].kind = "list"
    /\ shown' = [shown EXCEPT ![r] = NotesOf(req[r].user)]
    /\ Goto(r, "answer")
    /\ UNCHANGED <<req, resp, tx, notes>>

\* Slip: get_note selects by the id alone.
NoteFoundOfAnyone(r) ==
    /\ pc[r] = "select"
    /\ req[r].kind # "list"
    /\ \E n \in View(r) : n.id = req[r].note
    /\ shown' = [shown EXCEPT ![r] = {n \in View(r) : n.id = req[r].note}]
    /\ Goto(r, "answer")
    /\ UNCHANGED <<req, resp, tx, notes>>

NoteFound(r) ==
    /\ pc[r] = "select"
    /\ req[r].kind # "list"
    /\ Selected(r) # {}
    /\ shown' = [shown EXCEPT ![r] = Selected(r)]
    /\ Goto(r, "answer")
    /\ UNCHANGED <<req, resp, tx, notes>>

NoteNotFound(r) ==
    /\ pc[r] = "select"
    /\ req[r].kind # "list"
    /\ Selected(r) = {}
    /\ Abort(r, 404)

-----------------------------------------------------------------------------
(* Common to all routes *)

SuccessCode(kind) ==
    IF kind = "create" THEN 201 ELSE IF kind = "delete" THEN 204 ELSE 200

\* The handler returns and the response is sent; the transaction is still open.
Answer(r) ==
    /\ pc[r] = "answer"
    /\ resp' = [resp EXCEPT ![r] = SuccessCode(req[r].kind)]
    /\ Goto(r, "commit")
    /\ UNCHANGED <<req, shown, tx, notes>>

Commit(r) ==
    /\ pc[r] = "commit"
    /\ notes' = View(r)
    /\ tx' = [tx EXCEPT ![r] = EmptyTx]
    /\ Goto(r, "committed")
    /\ UNCHANGED <<req, shown, resp>>

\* The connection breaks, or the server is restarted, under a statement.
StatementFails(r) ==
    /\ Faults
    /\ pc[r] \in Working \ {"answer"}
    /\ Abort(r, 500)

\* The same under COMMIT: the response is out already.
CommitFails(r) ==
    /\ Faults
    /\ pc[r] = "commit"
    /\ Abort(r, resp[r])

\* Every request has been dealt with: the server waits for the next one.
Quiescent ==
    /\ \A r \in Requests : pc[r] \in Finished
    /\ UNCHANGED vars

Handle(r) ==
    \/ Connect(r)
    \/ CountNotes(r) \/ LimitExceeded(r) \/ InsertNote(r)
    \/ UpdateNote(r) \/ TitleNull(r) \/ DeleteNote(r) \/ NothingDeleted(r)
    \/ ListNotes(r) \/ NoteFound(r) \/ NoteNotFound(r)
    \/ Answer(r) \/ Commit(r)

Disturb(r) == Refused(r) \/ PoolTimeout(r) \/ StatementFails(r) \/ CommitFails(r)

Next ==
    \/ \E r \in Requests : Arrive(r) \/ Handle(r) \/ Disturb(r)
    \/ Quiescent

Spec == Init /\ [][Next]_vars

\* The event loop and PostgreSQL serve every request that is not blocked.
FairSpec == Spec /\ \A r \in Requests : WF_vars(Handle(r))

-----------------------------------------------------------------------------
(* Properties *)

\* The state is well typed, the primary key and NOT NULL of the table included.
TypeOK ==
    /\ pc \in [Requests -> Steps]
    /\ req \in [Requests -> Request]
    /\ shown \in [Requests -> SUBSET Note]
    /\ resp \in [Requests -> Codes]
    /\ tx \in [Requests -> Tx]
    /\ notes \subseteq Note
    /\ \A m, n \in notes : m.id = n.id => m = n

\* The creates of a user that have passed the count and are not committed.
Passed(u) == {r \in Requests : /\ req[r].kind = "create" /\ req[r].user = u
                               /\ pc[r] \in {"insert", "answer", "commit"}}

\* The limit is checked without a lock, yet it cannot be overrun without bound:
\* the creates that passed the count before the last free place was taken all
\* hold a connection, so the overrun is at most PoolSize - 1.
OverrunBounded ==
    \A u \in Users :
        Cardinality(NotesOf(u)) + Cardinality(Passed(u)) <= MaxNotes + PoolSize - 1

\* Notes are private: every value stored in a note was supplied by its owner,
\* and a committed note disappears only by a committed delete of its owner.
OwnersAlone ==
    /\ \A n \in notes : /\ req[n.id].user = n.user
                        /\ \A v \in {n.title, n.body} \ {None} : req[v].user = n.user
    /\ \A c \in Requests :
        (pc[c] = "committed" /\ req[c].kind = "create") =>
            \/ \E n \in notes : n.id = c
            \/ \E r \in Requests :
                /\ pc[r] = "committed" /\ req[r].kind = "delete"
                /\ req[r].note = c /\ req[r].user = req[c].user

\* No response shows a note of another user.
OnlyOwnersSee == \A r \in Requests : \A n \in shown[r] : n.user = req[r].user

\* A note is deleted by one request at most: the others wait for its row and
\* answer 404.
DeletedOnce ==
    \A r, s \in Requests :
        (/\ req[r].kind = "delete" /\ req[s].kind = "delete"
         /\ req[r].note = req[s].note
         /\ pc[r] = "committed" /\ pc[s] = "committed") => r = s

\* Every commit is one step of the shelf: nothing is written over that a PATCH
\* did not supply, and nothing comes back.
CreatedIds == {r \in Requests : pc[r] = "committed" /\ req[r].kind = "create"}
Shelf == INSTANCE NoteShelf
            WITH Ids <- Requests, Owners <- Users, shelf <- notes, used <- CreatedIds
ShelfSpec == Shelf!ShelfSpec

-----------------------------------------------------------------------------
(* The inductive invariant of NotesBackendProofs *)

\* The row that a create stores.
RowOf(r) == [id |-> r, user |-> req[r].user,
             title |-> req[r].values.title, body |-> req[r].values.body]

\* What a request supplies, and the steps it goes through, by its kind.
RequestsByKind ==
    \A r \in Requests :
        /\ pc[r] = "idle" <=> req[r].kind = "none"
        /\ pc[r] = "idle" => shown[r] = {}
        /\ pc[r] \in {"count", "insert"} => req[r].kind = "create"
        /\ pc[r] = "update" => req[r].kind = "update"
        /\ pc[r] = "delete" => req[r].kind = "delete"
        /\ pc[r] = "select" => req[r].kind \in {"list", "get", "update"}
        /\ pc[r] # "idle" => req[r].user \in Users
        /\ req[r].kind = "create" =>
              /\ DOMAIN req[r].values = {"title", "body"}
              /\ req[r].values["title"] = r /\ req[r].values["body"] \in {r, None}
        /\ req[r].kind \in {"get", "update", "delete"} =>
              req[r].note \in Requests /\ req[req[r].note].kind = "create"
        /\ req[r].kind = "update" =>
              /\ DOMAIN req[r].values \subseteq {"title", "body"}
              /\ \A f \in DOMAIN req[r].values : req[r].values[f] \in {r, None}
        /\ resp[r] = 201 => req[r].kind = "create"

\* What an open transaction holds: a new note, a new version of a note of its
\* user, or the removal of one.
Staged(r) ==
    /\ tx[r] # EmptyTx => /\ pc[r] \in {"select", "answer", "commit"}
                          /\ req[r].kind \in {"create", "update", "delete"}
    /\ (req[r].kind = "create" /\ pc[r] \in {"answer", "commit"}) =>
          tx[r] = [put |-> {RowOf(r)}, gone |-> {}]
    /\ (req[r].kind = "update" /\ tx[r] # EmptyTx) =>
          \E n \in notes : /\ n.id = req[r].note /\ n.user = req[r].user
                           /\ Rewritten(n, req[r].values).title # None
                           /\ tx[r] = [put |-> {Rewritten(n, req[r].values)},
                                       gone |-> {req[r].note}]
    /\ (req[r].kind = "delete" /\ pc[r] \in {"answer", "commit"}) =>
          /\ tx[r] = [put |-> {}, gone |-> {req[r].note}]
          /\ \E n \in notes : n.id = req[r].note /\ n.user = req[r].user
StagedRows == \A r \in Requests : Staged(r)

RowsLocked ==
    \A r, s \in Requests :
        (/\ req[r].kind \in {"update", "delete"} /\ tx[r] # EmptyTx
         /\ req[s].kind \in {"update", "delete"} /\ tx[s] # EmptyTx
         /\ req[r].note = req[s].note) => r = s

\* A committed note was created by its owner, and not deleted.
CommittedRows ==
    /\ IsFiniteSet(notes)
    /\ \A n \in notes : /\ pc[n.id] = "committed" /\ req[n.id].kind = "create"
                         /\ \A v \in {n.title, n.body} \ {None} : pc[v] # "idle"
    /\ \A r \in Requests : (req[r].kind = "delete" /\ pc[r] = "committed") =>
                              /\ pc[req[r].note] = "committed"
                              /\ \A n \in notes : n.id # req[r].note

PoolBound == Cardinality(Connected) <= PoolSize

IInv ==
    /\ TypeOK /\ RequestsByKind /\ StagedRows /\ RowsLocked /\ CommittedRows
    /\ OwnersAlone /\ OnlyOwnersSee /\ DeletedOnce /\ PoolBound /\ OverrunBounded

-----------------------------------------------------------------------------
\* Every request that has arrived is brought to an end.
AllServed == \A r \in Requests : pc[r] \in Finished \cup {"idle"}
EveryRequestEnds == []<>AllServed

\* "Create a new note, enforcing the per-user limit."
NotesWithinLimit == \A u \in Users : Cardinality(NotesOf(u)) <= MaxNotes

\* "Update a note ... Returns the updated note or None": a PATCH that answers
\* 200 shows the note with the values it supplied.
PatchAnswersUpdated ==
    \A r \in Requests : (req[r].kind = "update" /\ resp[r] = 200) =>
        \A n \in shown[r] : n = Rewritten(n, req[r].values)
=============================================================================
