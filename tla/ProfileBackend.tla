---------------------------- MODULE ProfileBackend ----------------------------
(***************************************************************************)
(* The row of a user in the table profiles: registration creates it, PATCH *)
(* /me/profile changes name and picture, and the events RevenueCat posts   *)
(* to /webhooks/revenuecat change is_pro.                                  *)
(*                                                                         *)
(* Requests run as in AuthBackend: one READ COMMITTED transaction each,    *)
(* begun by the first statement, committed after the response of a         *)
(* success, rolled back before the response of an error.  RevenueCat may   *)
(* post any event at any time and more than once.  A user has the name of  *)
(* the request that registers them, a value that of the request that       *)
(* supplied it.                                                            *)
(***************************************************************************)
EXTENDS Naturals, FiniteSets

CONSTANTS Requests,   \* the HTTP requests that may arrive
          None,       \* null
          PoolSize,   \* connections the pool hands out at most
          Faults      \* whether database connections may break

ASSUME NoneAssumption == None \notin Requests
ASSUME PoolAssumption == PoolSize \in Nat \ {0}
ASSUME FaultsAssumption == Faults \in BOOLEAN

VARIABLES pc,        \* pc[r]: the step request r is at
          req,       \* req[r]: what r asks for
          resp,      \* resp[r]: the status code sent, 0 before
          tx,        \* tx[r]: the row r's transaction has written, if any
          profiles,  \* committed rows of the table profiles
          before,    \* before[r]: the requests answered when r arrived (history)
          wrote      \* the requests that have committed a row (history)

vars == <<pc, req, resp, tx, profiles, before, wrote>>

\* The events by what the webhook does with them: it acts upon those of known
\* type with the uuid of a user; "unnamed" lack app_user_id, "anonymous" carry
\* the id of a device.
Events == {"event", "ignored", "unnamed", "anonymous"}
Kinds == Events \cup {"register", "patch", "read"}
Finished == {"committed", "aborted"}
Working == {"insert", "update", "select", "answer"}
Steps == {"idle", "connect", "commit"} \cup Working \cup Finished
Codes == {0, 200, 201, 401, 404, 422, 500}

Values == Requests \cup {None}
ProfileFields == {"display_name", "avatar_url"}
Profile == [id : Requests, display_name : Values, avatar_url : Values, is_pro : BOOLEAN]
Supplied == (UNION {[S -> Values] : S \in SUBSET ProfileFields})
              \cup [{"is_pro"} -> BOOLEAN] \cup Profile
Request == [kind : Kinds \cup {"none"}, user : Requests \cup {None}, values : Supplied]

Nothing == [f \in {} |-> None]
NewProfile(r, name) == [id |-> r, display_name |-> name, avatar_url |-> None, is_pro |-> FALSE]
\* A PATCH that supplies no value but null counts as empty.
Blank(r) == \A f \in DOMAIN req[r].values : req[r].values[f] = None

Connected == {r \in Requests : pc[r] \in Working \cup {"commit"}}
\* The committed rows as the transaction of r changes them.
View(r) == {p \in profiles : \A q \in tx[r] : q.id # p.id} \cup tx[r]
Selected(r) == {p \in View(r) : p.id = req[r].user}

-----------------------------------------------------------------------------
Init ==
    /\ pc = [r \in Requests |-> "idle"]
    /\ req = [r \in Requests |-> [kind |-> "none", user |-> None, values |-> Nothing]]
    /\ resp = [r \in Requests |-> 0]
    /\ tx = [r \in Requests |-> {}]
    /\ profiles = {}
    /\ before = [r \in Requests |-> {}]
    /\ wrote = {}

Goto(r, step) == pc' = [pc EXCEPT ![r] = step]

Abort(r, code) ==
    /\ Goto(r, "aborted")
    /\ resp' = [resp EXCEPT ![r] = code]
    /\ tx' = [tx EXCEPT ![r] = {}]
    /\ UNCHANGED <<req, profiles, before, wrote>>

\* A user exists for others once their registration is answered, which is
\* before it is committed.
Arrive(r) ==
    LET Ask(kind, u, values) == req' = [req EXCEPT ![r] = [kind |-> kind, user |-> u,
                                                           values |-> values]]
    IN  /\ pc[r] = "idle"
        /\ \/ \E name \in {r, None} : Ask("register", r, NewProfile(r, name))
           \/ \E kind \in Events \ {"event"} : Ask(kind, None, Nothing)
           \/ \E u \in {c \in Requests : resp[c] = 201} :
                \/ Ask("read", u, Nothing)
                \/ \E S \in SUBSET ProfileFields : \E v \in [S -> {r, None}] :
                      Ask("patch", u, v)
                \/ \E is_pro \in BOOLEAN : Ask("event", u, [is_pro |-> is_pro])
        /\ before' = [before EXCEPT ![r] = {a \in Requests : resp[a] \in {200, 201}}]
        /\ Goto(r, "connect")
        /\ UNCHANGED <<resp, tx, profiles, wrote>>

\* 401 stands for what is refused before the handler runs: a token or a webhook
\* secret that is not valid, the rate limit, the request schema.
Refused(r) == pc[r] = "connect" /\ Abort(r, 401)

-----------------------------------------------------------------------------
(* Requests that end before their first statement *)

EventIgnored(r) ==
    /\ pc[r] = "connect"
    /\ req[r].kind = "ignored"
    /\ resp' = [resp EXCEPT ![r] = 200]
    /\ Goto(r, "committed")
    /\ UNCHANGED <<req, tx, profiles, before, wrote>>

MissingAppUserId(r) == pc[r] = "connect" /\ req[r].kind = "unnamed" /\ Abort(r, 422)

\* uuid.UUID raises ValueError, which the handler turns into a 500.
AnonymousAppUserId(r) == pc[r] = "connect" /\ req[r].kind = "anonymous" /\ Abort(r, 500)

NothingToUpdate(r) ==
    pc[r] = "connect" /\ req[r].kind = "patch" /\ Blank(r) /\ Abort(r, 422)

FirstStep(r) ==
    CASE req[r].kind = "register" -> "insert"
      [] req[r].kind \in {"event", "patch"} -> "update"
      [] OTHER -> "select"

Connect(r) ==
    /\ pc[r] = "connect"
    /\ req[r].kind \in {"register", "event", "patch", "read"}
    /\ ~(req[r].kind = "patch" /\ Blank(r))
    /\ Cardinality(Connected) < PoolSize
    /\ Goto(r, FirstStep(r))
    /\ UNCHANGED <<req, resp, tx, profiles, before, wrote>>

PoolTimeout(r) ==
    /\ pc[r] = "connect"
    /\ Cardinality(Connected) >= PoolSize
    /\ Abort(r, 500)

-----------------------------------------------------------------------------
(* create_profile, update_profile and set_pro_status, get_profile *)

InsertProfile(r) ==
    /\ pc[r] = "insert"
    /\ tx' = [tx EXCEPT ![r] = {req[r].values}]
    /\ Goto(r, "answer")
    /\ UNCHANGED <<req, resp, profiles, before, wrote>>

\* An UPDATE waits for the transaction that has updated the row.  A row whose
\* registration is open is not seen, so nothing is waited for.
RowLockedByOther(r) ==
    \E o \in Requests \ {r, req[r].user} : \E p \in tx[o] : p.id = req[r].user

\* Slip: exclude_unset is dropped, and an omitted field is written as null.
RewrittenWhole(p, values) ==
    [f \in DOMAIN p |-> IF f \in DOMAIN values THEN values[f]
                        ELSE IF f \in ProfileFields THEN None ELSE p[f]]

Rewritten(p, values) ==
    [f \in DOMAIN p |-> IF f \in DOMAIN values THEN values[f] ELSE p[f]]

\* Slip: the row that was read is written back whole, without its lock.
UpdateProfileUnlocked(r) ==
    /\ pc[r] = "update"
    /\ tx' = [tx EXCEPT ![r] = {Rewritten(p, req[r].values) : p \in Selected(r)}]
    /\ Goto(r, IF req[r].kind = "event" THEN "answer" ELSE "select")
    /\ UNCHANGED <<req, resp, profiles, before, wrote>>

\* Whether a row matched is not looked at: an event for a profile that is not
\* there, or not committed yet, is answered with 200.
UpdateProfile(r) ==
    /\ pc[r] = "update"
    /\ ~RowLockedByOther(r)
    /\ tx' = [tx EXCEPT ![r] = {Rewritten(p, req[r].values) : p \in Selected(r)}]
    /\ Goto(r, IF req[r].kind = "event" THEN "answer" ELSE "select")
    /\ UNCHANGED <<req, resp, profiles, before, wrote>>

ProfileFound(r) ==
    /\ pc[r] = "select"
    /\ Selected(r) # {}
    /\ Goto(r, "answer")
    /\ UNCHANGED <<req, resp, tx, profiles, before, wrote>>

ProfileNotFound(r) == pc[r] = "select" /\ Selected(r) = {} /\ Abort(r, 404)

-----------------------------------------------------------------------------
(* The exits of get_db *)

Answer(r) ==
    /\ pc[r] = "answer"
    /\ resp' = [resp EXCEPT ![r] = IF req[r].kind = "register" THEN 201 ELSE 200]
    /\ Goto(r, "commit")
    /\ UNCHANGED <<req, tx, profiles, before, wrote>>

\* Slip: the old version of the row is left behind.
CommitAdding(r) ==
    /\ pc[r] = "commit"
    /\ profiles' = profiles \cup tx[r]
    /\ wrote' = IF tx[r] = {} THEN wrote ELSE wrote \cup {r}
    /\ tx' = [tx EXCEPT ![r] = {}]
    /\ Goto(r, "committed")
    /\ UNCHANGED <<req, resp, before>>

Commit(r) ==
    /\ pc[r] = "commit"
    /\ profiles' = View(r)
    /\ wrote' = IF tx[r] = {} THEN wrote ELSE wrote \cup {r}
    /\ tx' = [tx EXCEPT ![r] = {}]
    /\ Goto(r, "committed")
    /\ UNCHANGED <<req, resp, before>>

\* The webhook turns the error of its statement into an HTTPException; get_db
\* rolls back all the same.
StatementFails(r) == Faults /\ pc[r] \in Working \ {"answer"} /\ Abort(r, 500)

\* The response is out: RevenueCat will not post an event again that is lost here.
CommitFails(r) == Faults /\ pc[r] = "commit" /\ Abort(r, resp[r])

Quiescent == (\A r \in Requests : pc[r] \in Finished) /\ UNCHANGED vars

Handle(r) ==
    \/ EventIgnored(r) \/ MissingAppUserId(r) \/ AnonymousAppUserId(r) \/ NothingToUpdate(r)
    \/ Connect(r)
    \/ InsertProfile(r) \/ UpdateProfile(r) \/ ProfileFound(r) \/ ProfileNotFound(r)
    \/ Answer(r) \/ Commit(r)

Disturb(r) == Refused(r) \/ PoolTimeout(r) \/ StatementFails(r) \/ CommitFails(r)

Next ==
    \/ \E r \in Requests : Arrive(r) \/ Handle(r) \/ Disturb(r)
    \/ Quiescent

Spec == Init /\ [][Next]_vars

-----------------------------------------------------------------------------
(* Properties *)

\* The state is well typed, the primary key of profiles included.
TypeOK ==
    /\ pc \in [Requests -> Steps]
    /\ req \in [Requests -> Request]
    /\ resp \in [Requests -> Codes]
    /\ tx \in [Requests -> SUBSET Profile]
    /\ profiles \subseteq Profile
    /\ \A p, q \in profiles : p.id = q.id => p = q
    /\ before \in [Requests -> SUBSET Requests]
    /\ wrote \subseteq Requests

\* The committed requests that supplied the field f of user u.
Writers(u, f) == {r \in wrote : req[r].user = u /\ f \in DOMAIN req[r].values}

\* A caller that waits for each answer is obeyed in order: no field is ever left
\* by a request that was answered before another one, which supplied that field
\* and committed, arrived.  The answer precedes the commit; it is the row lock,
\* held from the UPDATE on, that keeps the order.  In particular is_pro is TRUE
\* only by an event for this user, and not by one that was answered before the
\* event that ended it was posted.
LatestAnsweredWins ==
    \A p \in profiles : \A f \in DOMAIN p :
        \E e \in Writers(p.id, f) :
            /\ p[f] = req[e].values[f]
            /\ \A w \in Writers(p.id, f) : e \notin before[w]

-----------------------------------------------------------------------------
(* The inductive invariant of ProfileBackendProofs *)

Answered(r) == resp[r] \in {200, 201}
Updating(r) == req[r].kind \in {"event", "patch"} /\ tx[r] # {}

\* What a request supplies, and the steps it goes through, by its kind.
RequestsByKind ==
    \A r \in Requests :
        /\ pc[r] = "insert" => req[r].kind = "register"
        /\ pc[r] = "update" => req[r].kind \in {"event", "patch"}
        /\ pc[r] = "select" => req[r].kind \in {"patch", "read"}
        /\ req[r].kind = "register" =>
              req[r].user = r /\ req[r].values \in Profile
                /\ req[r].values.id = r /\ ~req[r].values.is_pro
        /\ req[r].kind \in {"event", "patch", "read"} =>
              req[r].user \in Requests /\ req[req[r].user].kind = "register"
        /\ req[r].kind = "event" =>
              DOMAIN req[r].values = {"is_pro"} /\ req[r].values["is_pro"] \in BOOLEAN
        /\ req[r].kind = "patch" =>
              /\ DOMAIN req[r].values \subseteq ProfileFields
              /\ \A f \in DOMAIN req[r].values : req[r].values[f] \in Values

\* An answer is sent at the end, and is what later requests come after.
AnswersInOrder ==
    \A r \in Requests :
        /\ pc[r] = "idle" => req[r].kind = "none"
        /\ Answered(r) => pc[r] \in {"commit"} \cup Finished
        /\ resp[r] = 201 => req[r].kind = "register"
        /\ r \notin before[r]
        /\ \A a \in before[r] : Answered(a)

\* What an open transaction holds: the profile of its registration, or a new
\* version of the committed one, which it keeps locked.
StagedRows ==
    \A r \in Requests :
        /\ tx[r] # {} => /\ pc[r] \in {"select", "answer", "commit"}
                         /\ req[r].kind \in {"register", "event", "patch"}
        /\ (req[r].kind = "register" /\ pc[r] \in {"answer", "commit"}) =>
              tx[r] = {req[r].values}
        /\ Updating(r) => \E p \in profiles : /\ p.id = req[r].user
                                             /\ tx[r] = {Rewritten(p, req[r].values)}
RowsLocked ==
    \A r, s \in Requests :
        (Updating(r) /\ Updating(s) /\ req[r].user = req[s].user) => r = s

\* A committed row belongs to a registration that has committed.
CommittedRows ==
    /\ \A r \in wrote : /\ pc[r] = "committed" /\ req[r].user \in wrote
                         /\ req[r].kind \in {"register", "event", "patch"}
    /\ \A p \in profiles : p.id \in wrote /\ req[p.id].kind = "register"

\* What a request has answered but not committed is not overtaken.
NotOvertaken ==
    \A e, w \in Requests :
        (Updating(e) /\ e \in before[w] /\ w \in wrote) => req[w].user # req[e].user

IInv ==
    /\ TypeOK /\ RequestsByKind /\ AnswersInOrder /\ StagedRows /\ RowsLocked
    /\ CommittedRows /\ NotOvertaken /\ LatestAnsweredWins

-----------------------------------------------------------------------------
\* Every commit is one step of the cards: PATCH and event do not undo each other,
\* and a PATCH cannot change is_pro.
Cards == INSTANCE ProfileCards WITH Owners <- Requests, cards <- profiles
CardsSpec == Cards!CardsSpec
=============================================================================
