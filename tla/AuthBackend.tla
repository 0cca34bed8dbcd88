----------------------------- MODULE AuthBackend -----------------------------
(***************************************************************************)
(* The /auth routes of the FastAPI backend over PostgreSQL.                *)
(*                                                                         *)
(* A request is one HTTP request, handled by one asyncio task with one     *)
(* session, so one transaction (READ COMMITTED).  Between two awaits the   *)
(* handler runs alone; every await (a statement, a bcrypt thread, sending  *)
(* the response) is a point where other requests run, so each step between *)
(* two awaits is an action.  The session dependency commits after the      *)
(* response has been sent (the locked FastAPI runs the exit of a           *)
(* dependency with yield then) and rolls back before an error response.    *)
(*                                                                         *)
(* The uuid of the account a registration creates and the refresh token a  *)
(* request mints are random and never collide: both are named after the    *)
(* request that draws them.  Passwords are reduced to the verdict of       *)
(* bcrypt, a refresh token to its hash, an access token to the request     *)
(* that signed it.                                                         *)
(***************************************************************************)
EXTENDS Naturals, FiniteSets

CONSTANTS Requests,    \* the HTTP requests that may arrive
          Emails,      \* lower-cased e-mail addresses
          Disabled,    \* addresses whose account an operator has switched off
          None,        \* "no value"
          PoolSize,    \* connections the pool hands out at most
          MaxCrashes,  \* bound on the crashes of the server process
          Faults       \* whether database connections may break

ASSUME RequestsAssumption == IsFiniteSet(Requests)
ASSUME DisabledAssumption == Disabled \subseteq Emails
ASSUME NoneAssumption == None \notin Requests /\ None \notin Emails
ASSUME BoundsAssumption == PoolSize \in Nat \ {0} /\ MaxCrashes \in Nat
ASSUME FaultsAssumption == Faults \in BOOLEAN

VARIABLES pc,        \* pc[r]: the step request r is at
          req,       \* req[r]: what r asks for
          seen,      \* seen[r]: the user id r has read or created
          resp,      \* resp[r]: the status code sent, 0 before
          tx,        \* tx[r]: the uncommitted writes of r's transaction
          users,     \* committed rows of the table users
          profiles,  \* committed rows of profiles, by primary key
          tokens,    \* committed rows of refresh_tokens
          expired,   \* tokens whose expires_at has passed
          crashes    \* crashes so far

db == <<users, profiles, tokens>>
vars == <<pc, req, seen, resp, tx, users, profiles, tokens, expired, crashes>>

Kinds == {"register", "login", "refresh", "logout", "me"}
\* The routes that answer with a new token pair.
Minting == {"register", "login", "refresh"}
Finished == {"committed", "aborted"}
\* The steps at which a request holds a connection and an open transaction.
Working == {"select", "insert_user", "insert_profile", "verify",
            "delete", "mint", "answer"}
Steps == {"idle", "connect", "commit"} \cup Working \cup Finished
Codes == {0, 200, 201, 204, 401, 403, 404, 409, 429, 500}

UserRow  == [id : Requests, email : Emails]
TokenRow == [id : Requests, user : Requests]
Tx == [users : SUBSET UserRow, profiles : SUBSET Requests,
       tokens : SUBSET TokenRow, deleted : SUBSET Requests]
EmptyTx == [users |-> {}, profiles |-> {}, tokens |-> {}, deleted |-> {}]
Request == [kind : Kinds \cup {"none"}, email : Emails \cup {None},
            token : Requests \cup {None}]

Connected == {r \in Requests : pc[r] \in Working \cup {"commit"}}
Live == {k.id : k \in tokens}

-----------------------------------------------------------------------------
Init ==
    /\ pc = [r \in Requests |-> "idle"]
    /\ req = [r \in Requests |-> [kind |-> "none", email |-> None, token |-> None]]
    /\ seen = [r \in Requests |-> None]
    /\ resp = [r \in Requests |-> 0]
    /\ tx = [r \in Requests |-> EmptyTx]
    /\ users = {} /\ profiles = {} /\ tokens = {} /\ expired = {}
    /\ crashes = 0

Goto(r, step) == pc' = [pc EXCEPT ![r] = step]

\* Slip: a session dependency that also commits when the handler raised.
AbortCommitting(r, code) ==
    /\ Goto(r, "aborted")
    /\ resp' = [resp EXCEPT ![r] = code]
    /\ users' = users \cup tx[r].users
    /\ profiles' = profiles \cup tx[r].profiles
    /\ tx' = [tx EXCEPT ![r] = EmptyTx]
    /\ UNCHANGED <<req, seen, tokens, expired, crashes>>

\* Slip: the exception leaves the transaction, and its locks, open.
AbortLeavingOpen(r, code) ==
    /\ Goto(r, "aborted")
    /\ resp' = [resp EXCEPT ![r] = code]
    /\ UNCHANGED <<req, seen, tx, users, profiles, tokens, expired, crashes>>

\* An exception leaves the handler: get_db rolls back, then the handler of the
\* exception sends the error response.
Abort(r, code) ==
    /\ Goto(r, "aborted")
    /\ resp' = [resp EXCEPT ![r] = code]
    /\ tx' = [tx EXCEPT ![r] = EmptyTx]
    /\ UNCHANGED <<req, seen, users, profiles, tokens, expired, crashes>>

\* The token pair minted by t has reached the client.
Received(t) == req[t].kind \in Minting /\ resp[t] \in {200, 201}

Arrive(r) ==
    /\ pc[r] = "idle"
    /\ \/ \E kind \in {"register", "login"}, e \in Emails :
            req' = [req EXCEPT ![r] = [kind |-> kind, email |-> e, token |-> None]]
       \/ \E kind \in Kinds \ {"register", "login"}, t \in Requests :
            /\ Received(t)
            /\ req' = [req EXCEPT ![r] = [kind |-> kind, email |-> None, token |-> t]]
    /\ Goto(r, "connect")
    /\ UNCHANGED <<seen, resp, tx, users, profiles, tokens, expired, crashes>>

\* 429 from the limiter: 5/minute on the decorated routes (register, login and
\* refresh), the default limit of the middleware on the others.
RateLimited(r) == pc[r] = "connect" /\ Abort(r, 429)

\* verify_jwt refuses the access token (it has expired).
Unauthorized(r) ==
    /\ pc[r] = "connect"
    /\ req[r].kind = "me"
    /\ Abort(r, 401)

\* The first statement of the session takes a connection from the pool.
Connect(r) ==
    /\ pc[r] = "connect"
    /\ Cardinality(Connected) < PoolSize
    /\ Goto(r, IF req[r].kind = "logout" THEN "delete" ELSE "select")
    /\ UNCHANGED <<req, seen, resp, tx, users, profiles, tokens, expired, crashes>>

PoolTimeout(r) ==
    /\ pc[r] = "connect"
    /\ Cardinality(Connected) >= PoolSize
    /\ Abort(r, 500)

-----------------------------------------------------------------------------
(* register *)

RegisterSelect(r) ==
    /\ pc[r] = "select"
    /\ req[r].kind = "register"
    /\ \A u \in users : u.email # req[r].email
    /\ Goto(r, "insert_user")
    /\ UNCHANGED <<req, seen, resp, tx, users, profiles, tokens, expired, crashes>>

AlreadyRegistered(r) ==
    /\ pc[r] = "select"
    /\ req[r].kind = "register"
    /\ \E u \in users : u.email = req[r].email
    /\ Abort(r, 409)

\* The unique index on users.email makes the insert wait for every other open
\* transaction that has inserted the address.
EmailLockedByOther(r) ==
    \E o \in Requests \ {r} : \E u \in tx[o].users : u.email = req[r].email

\* Slip: users.email without its unique index.
InsertUserUnindexed(r) ==
    /\ pc[r] = "insert_user"
    /\ tx' = [tx EXCEPT ![r].users = {[id |-> r, email |-> req[r].email]}]
    /\ seen' = [seen EXCEPT ![r] = r]
    /\ Goto(r, "insert_profile")
    /\ UNCHANGED <<req, resp, users, profiles, tokens, expired, crashes>>

\* Slip: create_user commits instead of flushing.
InsertUserAutocommit(r) ==
    /\ pc[r] = "insert_user"
    /\ ~EmailLockedByOther(r)
    /\ \A u \in users : u.email # req[r].email
    /\ users' = users \cup {[id |-> r, email |-> req[r].email]}
    /\ seen' = [seen EXCEPT ![r] = r]
    /\ Goto(r, "insert_profile")
    /\ UNCHANGED <<req, resp, tx, profiles, tokens, expired, crashes>>

InsertUser(r) ==
    /\ pc[r] = "insert_user"
    /\ ~EmailLockedByOther(r)
    /\ \A u \in users : u.email # req[r].email
    /\ tx' = [tx EXCEPT ![r].users = {[id |-> r, email |-> req[r].email]}]
    /\ seen' = [seen EXCEPT ![r] = r]
    /\ Goto(r, "insert_profile")
    /\ UNCHANGED <<req, resp, users, profiles, tokens, expired, crashes>>

\* The flush fails with an IntegrityError, which no handler expects.
UniqueViolation(r) ==
    /\ pc[r] = "insert_user"
    /\ ~EmailLockedByOther(r)
    /\ \E u \in users : u.email = req[r].email
    /\ Abort(r, 500)

InsertProfile(r) ==
    /\ pc[r] = "insert_profile"
    /\ tx' = [tx EXCEPT ![r].profiles = {seen[r]}]
    /\ Goto(r, "mint")
    /\ UNCHANGED <<req, seen, resp, users, profiles, tokens, expired, crashes>>

-----------------------------------------------------------------------------
(* login: the account is read, then bcrypt runs in a thread. *)

LoginSelect(r) ==
    /\ pc[r] = "select"
    /\ req[r].kind = "login"
    /\ \/ \E u \in users : /\ u.email = req[r].email
                           /\ seen' = [seen EXCEPT ![r] = u.id]
       \/ /\ \A u \in users : u.email # req[r].email
          /\ UNCHANGED seen
    /\ Goto(r, "verify")
    /\ UNCHANGED <<req, resp, tx, users, profiles, tokens, expired, crashes>>

\* An unknown account (checked against the dummy hash) or a wrong password.
BadCredentials(r) == pc[r] = "verify" /\ Abort(r, 401)

AccountDisabled(r) ==
    /\ pc[r] = "verify"
    /\ seen[r] # None
    /\ req[r].email \in Disabled
    /\ Abort(r, 403)

\* Slip: an unknown address is not told apart once bcrypt has run.
PasswordOkUnchecked(r) ==
    /\ pc[r] = "verify"
    /\ req[r].email \notin Disabled
    /\ Goto(r, "mint")
    /\ UNCHANGED <<req, seen, resp, tx, users, profiles, tokens, expired, crashes>>

PasswordOk(r) ==
    /\ pc[r] = "verify"
    /\ seen[r] # None
    /\ req[r].email \notin Disabled
    /\ Goto(r, "mint")
    /\ UNCHANGED <<req, seen, resp, tx, users, profiles, tokens, expired, crashes>>

-----------------------------------------------------------------------------
(* refresh and logout *)

Usable(t) == t \in Live /\ t \notin expired

RefreshSelect(r) ==
    /\ pc[r] = "select"
    /\ req[r].kind = "refresh"
    /\ Usable(req[r].token)
    /\ \E k \in tokens : /\ k.id = req[r].token
                         /\ seen' = [seen EXCEPT ![r] = k.user]
    /\ Goto(r, "delete")
    /\ UNCHANGED <<req, resp, tx, users, profiles, tokens, expired, crashes>>

InvalidToken(r) ==
    /\ pc[r] = "select"
    /\ req[r].kind = "refresh"
    /\ ~Usable(req[r].token)
    /\ Abort(r, 401)

\* A DELETE waits while another transaction has the row deleted and open.
RowLockedByOther(r) ==
    \E o \in Requests \ {r} : req[r].token \in tx[o].deleted

\* Slip: the row is taken with SKIP LOCKED, so a held row is left alone.
DeleteTokenSkipLocked(r) ==
    /\ pc[r] = "delete"
    /\ tx' = [tx EXCEPT ![r].deleted =
                 IF RowLockedByOther(r) THEN {} ELSE {req[r].token} \cap Live]
    /\ Goto(r, IF req[r].kind = "refresh" THEN "mint" ELSE "answer")
    /\ UNCHANGED <<req, seen, resp, users, profiles, tokens, expired, crashes>>

\* Slip: the DELETE selects by the owner, so it ends every session of the user.
DeleteTokensOfUser(r) ==
    /\ pc[r] = "delete"
    /\ ~RowLockedByOther(r)
    /\ tx' = [tx EXCEPT ![r].deleted =
                 {k.id : k \in {l \in tokens : l.user = seen[req[r].token]}}]
    /\ Goto(r, IF req[r].kind = "refresh" THEN "mint" ELSE "answer")
    /\ UNCHANGED <<req, seen, resp, users, profiles, tokens, expired, crashes>>

\* DELETE ... WHERE token_hash = ...: no row matches when the row is gone, or
\* not committed yet; the handler does not look at the count.
DeleteToken(r) ==
    /\ pc[r] = "delete"
    /\ ~RowLockedByOther(r)
    /\ tx' = [tx EXCEPT ![r].deleted = {req[r].token} \cap Live]
    /\ Goto(r, IF req[r].kind = "refresh" THEN "mint" ELSE "answer")
    /\ UNCHANGED <<req, seen, resp, users, profiles, tokens, expired, crashes>>

-----------------------------------------------------------------------------
(* /me *)

MeSelect(r) ==
    /\ pc[r] = "select"
    /\ req[r].kind = "me"
    /\ \E u \in users : u.id = seen[req[r].token]
    /\ seen' = [seen EXCEPT ![r] = seen[req[r].token]]
    /\ Goto(r, "answer")
    /\ UNCHANGED <<req, resp, tx, users, profiles, tokens, expired, crashes>>

UserNotFound(r) ==
    /\ pc[r] = "select"
    /\ req[r].kind = "me"
    /\ \A u \in users : u.id # seen[req[r].token]
    /\ Abort(r, 404)

-----------------------------------------------------------------------------
(* Common to all routes *)

\* Slip: the hash that is stored is that of the token presented.
MintTokenPresented(r) ==
    /\ pc[r] = "mint"
    /\ tx' = [tx EXCEPT ![r].tokens =
                 {[id |-> IF req[r].kind = "refresh" THEN req[r].token ELSE r,
                   user |-> seen[r]]}]
    /\ Goto(r, "answer")
    /\ UNCHANGED <<req, seen, resp, users, profiles, tokens, expired, crashes>>

\* _make_token_response and create_refresh_token.
MintToken(r) ==
    /\ pc[r] = "mint"
    /\ tx' = [tx EXCEPT ![r].tokens = {[id |-> r, user |-> seen[r]]}]
    /\ Goto(r, "answer")
    /\ UNCHANGED <<req, seen, resp, users, profiles, tokens, expired, crashes>>

SuccessCode(kind) ==
    IF kind = "register" THEN 201 ELSE IF kind = "logout" THEN 204 ELSE 200

\* The handler returns and the response is sent; the transaction is still open.
Answer(r) ==
    /\ pc[r] = "answer"
    /\ resp' = [resp EXCEPT ![r] = SuccessCode(req[r].kind)]
    /\ Goto(r, "commit")
    /\ UNCHANGED <<req, seen, tx, users, profiles, tokens, expired, crashes>>

Commit(r) ==
    /\ pc[r] = "commit"
    /\ users' = users \cup tx[r].users
    /\ profiles' = profiles \cup tx[r].profiles
    /\ tokens' = {k \in tokens : k.id \notin tx[r].deleted} \cup tx[r].tokens
    /\ tx' = [tx EXCEPT ![r] = EmptyTx]
    /\ Goto(r, "committed")
    /\ UNCHANGED <<req, seen, resp, expired, crashes>>

\* The connection breaks under a statement: the exception rolls back.
StatementFails(r) ==
    /\ Faults
    /\ pc[r] \in Working \ {"answer"}
    /\ Abort(r, 500)

\* The connection breaks under COMMIT: the response is out already.
CommitFails(r) ==
    /\ Faults
    /\ pc[r] = "commit"
    /\ Abort(r, resp[r])

-----------------------------------------------------------------------------
(* The environment *)

\* The server process dies and is restarted: every open transaction is rolled
\* back by PostgreSQL and nothing more is sent.
Crash ==
    LET hit == {r \in Requests : pc[r] \notin {"idle"} \cup Finished}
    IN  /\ crashes < MaxCrashes
        /\ hit # {}
        /\ crashes' = crashes + 1
        /\ pc' = [r \in Requests |-> IF r \in hit THEN "aborted" ELSE pc[r]]
        /\ tx' = [r \in Requests |-> EmptyTx]
        /\ UNCHANGED <<req, seen, resp, users, profiles, tokens, expired>>

Expire(t) ==
    /\ Usable(t)
    /\ expired' = expired \cup {t}
    /\ UNCHANGED <<pc, req, seen, resp, tx, users, profiles, tokens, crashes>>

\* Every request has been dealt with: the server waits for the next one.
Quiescent ==
    /\ \A r \in Requests : pc[r] \in Finished
    /\ UNCHANGED vars

\* What the event loop does for a request that has arrived.
Handle(r) ==
    \/ Connect(r)
    \/ RegisterSelect(r) \/ AlreadyRegistered(r) \/ InsertUser(r)
    \/ UniqueViolation(r) \/ InsertProfile(r)
    \/ LoginSelect(r) \/ BadCredentials(r) \/ AccountDisabled(r) \/ PasswordOk(r)
    \/ RefreshSelect(r) \/ InvalidToken(r) \/ DeleteToken(r)
    \/ MeSelect(r) \/ UserNotFound(r)
    \/ MintToken(r) \/ Answer(r) \/ Commit(r)

Disturb(r) ==
    \/ RateLimited(r) \/ Unauthorized(r) \/ PoolTimeout(r)
    \/ StatementFails(r) \/ CommitFails(r)

Next ==
    \/ \E r \in Requests : Arrive(r) \/ Handle(r) \/ Disturb(r) \/ Expire(r)
    \/ Crash
    \/ Quiescent

Spec == Init /\ [][Next]_vars

\* The event loop and PostgreSQL serve every request that is not blocked.
FairSpec == Spec /\ \A r \in Requests : WF_vars(Handle(r))

-----------------------------------------------------------------------------
(* Properties *)

\* The state is well typed; in particular every staged or committed token
\* names the account it belongs to.
TypeOK ==
    /\ pc \in [Requests -> Steps]
    /\ req \in [Requests -> Request]
    /\ seen \in [Requests -> Requests \cup {None}]
    /\ resp \in [Requests -> Codes]
    /\ tx \in [Requests -> Tx]
    /\ users \subseteq UserRow
    /\ profiles \subseteq Requests
    /\ tokens \subseteq TokenRow
    /\ expired \subseteq Requests
    /\ crashes \in Nat

\* No interleaving of registrations leaves two accounts under one address:
\* the check by SELECT is racy, the unique index behind it is not.
UniqueEmail == \A u, v \in users : u.email = v.email => u = v

\* A registration is all or nothing whatever fails and whenever: an account, its
\* profile and a committed registration exist together or not at all, and no
\* token is left without an account.
AccountsComplete ==
    /\ {u.id : u \in users} = profiles
    /\ profiles = {r \in Requests : pc[r] = "committed" /\ req[r].kind = "register"}
    /\ \A k \in tokens : k.user \in profiles

\* A request answered with an error has left nothing behind: neither rows, nor
\* a held lock, nor a deletion (get_db rolls back before the response).
ErrorsLeaveNoTrace ==
    \A r \in Requests : resp[r] >= 400 =>
        /\ pc[r] = "aborted"
        /\ tx[r] = EmptyTx
        /\ r \notin Live \cup profiles
        /\ \A u \in users : u.id # r

\* A token is dead from the commit of the first refresh that rotated it, even
\* if the delete waited on another refresh or logout that rolled back.
RotatedTokenDead ==
    \A r \in Requests :
        (pc[r] = "committed" /\ req[r].kind = "refresh") => req[r].token \notin Live

\* No session is lost by accident: a committed token stays live until a refresh
\* or a logout of that very token commits (crashes, rollbacks and the requests
\* of other sessions never end it).
OnlyItsOwnRequestsEndASession ==
    \A t \in Requests :
        (pc[t] = "committed" /\ req[t].kind \in Minting) =>
            \/ t \in Live
            \/ \E r \in Requests : /\ pc[r] = "committed"
                                   /\ req[r].kind \in {"refresh", "logout"}
                                   /\ req[r].token = t

\* Every committed transaction is one step of the ledger of accounts and
\* sessions, and nothing else touches it.
MintedAndCommitted == {r \in Requests : pc[r] = "committed" /\ req[r].kind \in Minting}
Ledger == INSTANCE SessionLedger
            WITH Ids <- Requests, accounts <- users, live <- Live,
                 issued <- {[id |-> r, user |-> seen[r]] : r \in MintedAndCommitted}
LedgerSpec == Ledger!LedgerSpec

\* Every request that has arrived is brought to an end: nobody waits for ever
\* for the pool, the unique index or a row lock.
AllServed == \A r \in Requests : pc[r] \in Finished \cup {"idle"}
EveryRequestEnds == []<>AllServed

\* What test_refresh_token_rotation says of a rotated token: it is refused
\* afterwards, so one token has at most one successor.
RotationIsSingleUse ==
    \A r, s \in Requests :
        (/\ pc[r] = "committed" /\ req[r].kind = "refresh"
         /\ pc[s] = "committed" /\ req[s].kind = "refresh"
         /\ req[r].token = req[s].token) => r = s

\* What test_logout_invalidates_token says: after a logout with a token, the
\* token opens nothing any more.
LogoutInvalidates ==
    \A r \in Requests :
        (pc[r] = "committed" /\ req[r].kind = "logout") => req[r].token \notin Live

\* What the route tests say of register: a taken address is a 409, a 500 means
\* that the database was not available.
DuplicateEmailIs409 ==
    \A r \in Requests : req[r].kind = "register" => resp[r] # 500

-----------------------------------------------------------------------------
(* The inductive invariant.  What a transaction has staged, and what is     *)
(* committed, is determined by the steps the requests have reached.         *)

UserStaged    == {"insert_profile", "mint", "answer", "commit"}
ProfileStaged == {"mint", "answer", "commit"}
TokenStaged   == {"answer", "commit"}

\* Each step belongs to the routes that run it.
StepsOfKind ==
    \A r \in Requests :
        /\ req[r].kind = "none" => pc[r] = "idle"
        /\ req[r].kind \in {"register", "login"} => req[r].email \in Emails
        /\ req[r].kind \in {"refresh", "logout", "me"} => req[r].token \in Requests
        /\ pc[r] \in {"insert_user", "insert_profile"} => req[r].kind = "register"
        /\ pc[r] = "verify" => req[r].kind = "login"
        /\ pc[r] = "delete" => req[r].kind \in {"refresh", "logout"}
        /\ pc[r] = "mint" => req[r].kind \in Minting

UsersOf(r) == IF req[r].kind = "register" /\ pc[r] \in UserStaged
              THEN {[id |-> r, email |-> req[r].email]} ELSE {}
ProfilesOf(r) == IF req[r].kind = "register" /\ pc[r] \in ProfileStaged
                 THEN {r} ELSE {}
TokensOf(r) == IF req[r].kind \in Minting /\ pc[r] \in TokenStaged
               THEN {[id |-> r, user |-> seen[r]]} ELSE {}
Deleting(r) == req[r].kind \in {"refresh", "logout"} /\ pc[r] \in ProfileStaged

StagedBy(r) ==
    /\ tx[r].users = UsersOf(r)
    /\ tx[r].profiles = ProfilesOf(r)
    /\ tx[r].tokens = TokensOf(r)
    /\ \A t \in tx[r].deleted : t = req[r].token /\ Deleting(r)
StagedRows == \A r \in Requests : StagedBy(r)

RegisteredRequests ==
    {r \in Requests : pc[r] = "committed" /\ req[r].kind = "register"}

CommittedRows ==
    /\ users = {[id |-> r, email |-> req[r].email] : r \in RegisteredRequests}
    /\ profiles = RegisteredRequests
    /\ tokens \subseteq {[id |-> r, user |-> seen[r]] : r \in MintedAndCommitted}

\* The user a request acts for is registered, or is the one it registers.
SeenBy(r) ==
    /\ pc[r] \in {"idle", "connect", "select"} => seen[r] = None
    /\ (req[r].kind = "register" /\ pc[r] \in UserStaged \cup {"committed"})
          => seen[r] = r
    /\ (req[r].kind = "login" /\ pc[r] \in ProfileStaged \cup {"verify", "committed"})
          => seen[r] \in RegisteredRequests
             \/ (seen[r] = None /\ pc[r] = "verify")
    /\ (req[r].kind = "refresh" /\ pc[r] \in ProfileStaged \cup {"delete", "committed"})
          => /\ req[r].token \in MintedAndCommitted
             /\ seen[r] = seen[req[r].token]
             /\ seen[r] \in RegisteredRequests
SeenUsers == \A r \in Requests : SeenBy(r)

\* A refresh that has deleted its token holds it deleted, or found it dead.
Rotating ==
    \A r \in Requests : req[r].kind = "refresh" =>
        /\ pc[r] \in ProfileStaged =>
              req[r].token \in tx[r].deleted \/ req[r].token \notin Live
        /\ pc[r] = "committed" => req[r].token \notin Live

\* What the unique index keeps apart, counting the uncommitted rows.
EmailsApart ==
    \A r \in Requests : \A u \in tx[r].users :
        /\ \A v \in users : u.email # v.email
        /\ \A s \in Requests \ {r} : \A v \in tx[s].users : u.email # v.email

ErrorsAborted == \A r \in Requests : resp[r] >= 400 => pc[r] = "aborted"

IInv ==
    /\ TypeOK
    /\ StepsOfKind
    /\ StagedRows
    /\ CommittedRows
    /\ SeenUsers
    /\ Rotating
    /\ EmailsApart
    /\ UniqueEmail
    /\ ErrorsAborted
    /\ OnlyItsOwnRequestsEndASession
=============================================================================
