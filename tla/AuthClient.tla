------------------------------ MODULE AuthClient ------------------------------
(***************************************************************************)
(* The session of the iOS app: AuthService, the requests that              *)
(* BackendAPIService retries through it, and the Keychain.                 *)
(*                                                                         *)
(* Everything in the app runs on the main actor, so a step is what runs    *)
(* between two awaits: a task is scheduled, sends its HTTP request, and is *)
(* resumed with the reply.  The backend is reduced to the ledger of live   *)
(* refresh tokens (see SessionLedger): it serves one request at a time.  A *)
(* request may fail before or after it was served, and the app may be      *)
(* killed at any time; the Keychain survives, and so do the requests it    *)
(* had sent.                                                               *)
(*                                                                         *)
(* A token pair has one name, for its access and its refresh token.        *)
(***************************************************************************)
EXTENDS Naturals, FiniteSets

CONSTANTS Tokens,     \* names of the token pairs the backend may issue
          Users,
          Calls,      \* authorized API requests
          Refreshes,  \* refresh tasks
          SignOuts,   \* sign-out tasks
          Restore,    \* the task that restores the session at launch
          None,
          MaxLaunches \* bound on the launches of the app

ASSUME NoneAssumption == None \notin Tokens \cup Users \cup Calls \cup Refreshes
ASSUME LaunchesAssumption == MaxLaunches \in Nat \ {0}
ASSUME RestoreAssumption == Restore \notin Calls

VARIABLES
    keychain,     \* the stored refresh token
    access,       \* AuthService.accessToken; isAuthenticated says access # None
    user,         \* AuthService.userId
    checking,     \* isCheckingInitialSession
    refreshTask,  \* AuthService.refreshTask
    refresh,      \* refresh[r]: the task doRefresh runs in
    waiting,      \* waiting[w]: the refresh task that w awaits
    call,         \* call[c]: an API request
    signIn,       \* the sign-in or registration in flight (isLoading)
    signOut,      \* signOut[o]: a sign-out task
    launches,     \* launches of the app so far
    owner,        \* owner[t]: the user of token t, None before it is issued
    live,         \* the refresh tokens the backend accepts
    stale,        \* the access tokens that have expired
    adrift        \* requests of a killed app that may still reach the backend

app == <<keychain, access, user, checking, refreshTask, refresh, waiting, call,
         signIn, signOut, launches>>
backend == <<owner, live, stale, adrift>>
vars == <<app, backend>>

Waiters == Calls \cup {Restore}
Issued == {t \in Tokens : owner[t] # None}

TaskSteps == {"unused", "scheduled", "sent", "replied", "done"}
CallSteps == {"unused", "sent", "replied", "waiting", "resent", "rereplied", "done"}

NoRefresh == [at |-> "unused", token |-> None, reply |-> None, by |-> None]
NoCall == [at |-> "unused", token |-> None, user |-> None, reply |-> "none",
           acted |-> {}, replaced |-> FALSE]
NoSignIn == [at |-> "unused", user |-> None, reply |-> None]
NoSignOut == [at |-> "unused", token |-> None]

\* What every launch starts from: nothing in memory, restoreSession scheduled.
Volatile ==
    /\ access' = None /\ user' = None /\ checking' = TRUE
    /\ refreshTask' = None
    /\ waiting' = [w \in Waiters |-> None]
    /\ signIn' = NoSignIn

Init ==
    /\ keychain = None
    /\ access = None /\ user = None /\ checking = TRUE
    /\ refreshTask = None
    /\ refresh = [r \in Refreshes |-> NoRefresh]
    /\ waiting = [w \in Waiters |-> None]
    /\ call = [c \in Calls |-> NoCall]
    /\ signIn = NoSignIn
    /\ signOut = [o \in SignOuts |-> NoSignOut]
    /\ launches = 1
    /\ owner = [t \in Tokens |-> None]
    /\ live = {} /\ stale = {} /\ adrift = {}

-----------------------------------------------------------------------------
(* Session state *)

\* Slip: a pair is applied without storing it when one is stored already.
ApplyTokensUnsaved(t) ==
    /\ keychain' = IF keychain = None THEN t ELSE keychain
    /\ access' = t
    /\ user' = owner[t]

\* Slip: the user is set at sign-in only, not by every pair applied.
ApplyTokensKeepingUser(t) ==
    /\ keychain' = t
    /\ access' = t
    /\ user' = IF user = None THEN owner[t] ELSE user

ApplyTokens(t) ==
    /\ keychain' = t
    /\ access' = t
    /\ user' = owner[t]

\* Slip: the stored tokens are left behind.
ClearSessionStateOnly ==
    /\ UNCHANGED keychain
    /\ access' = None
    /\ user' = None

\* Slip: the user is not forgotten.
ClearSessionStateKeepingUser ==
    /\ keychain' = None
    /\ access' = None
    /\ UNCHANGED user

ClearSessionState ==
    /\ keychain' = None
    /\ access' = None
    /\ user' = None

\* The calls in flight when the session passes to another user (history).
NoteReplaced(u) ==
    call' = [c \in Calls |->
               IF call[c].at # "unused" /\ call[c].user # u
               THEN [call[c] EXCEPT !.replaced = TRUE] ELSE call[c]]

-----------------------------------------------------------------------------
(* refreshAccessToken: single flight *)

\* Slip: every caller starts a refresh of its own.
AwaitRefreshUnjoined(w) ==
    \E r \in {s \in Refreshes : refresh[s].at = "unused"} :
        /\ refreshTask' = r
        /\ refresh' = [refresh EXCEPT ![r].at = "scheduled", ![r].by = w]
        /\ waiting' = [waiting EXCEPT ![w] = r]

\* w joins the refresh in flight, or starts one and awaits it.
AwaitRefresh(w) ==
    \/ /\ refreshTask # None
       /\ waiting' = [waiting EXCEPT ![w] = refreshTask]
       /\ UNCHANGED <<refreshTask, refresh>>
    \/ /\ refreshTask = None
       /\ \E r \in {s \in Refreshes : refresh[s].at = "unused"} :
            /\ refreshTask' = r
            /\ refresh' = [refresh EXCEPT ![r].at = "scheduled", ![r].by = w]
            /\ waiting' = [waiting EXCEPT ![w] = r]

\* The refresh w awaits is over; its creator also forgets the task.
Resumed(w) ==
    /\ waiting[w] # None
    /\ refresh[waiting[w]].at = "done"
    /\ refreshTask' = IF refresh[waiting[w]].by = w THEN None ELSE refreshTask
    /\ waiting' = [waiting EXCEPT ![w] = None]

\* doRefresh runs up to its request, or gives up: nothing is stored.
StartRefresh(r) ==
    /\ refresh[r].at = "scheduled"
    /\ \/ /\ keychain # None
          /\ refresh' = [refresh EXCEPT ![r].at = "sent", ![r].token = keychain]
          /\ UNCHANGED <<keychain, access, user>>
       \/ /\ keychain = None
          /\ refresh' = [refresh EXCEPT ![r].at = "done"]
          /\ ClearSessionState
    /\ UNCHANGED <<checking, refreshTask, waiting, call, signIn, signOut, launches, backend>>

\* Slip: a refresh that failed leaves the session as it was.
RefreshFailedKeeping(r) ==
    /\ refresh[r].at = "replied"
    /\ refresh[r].reply = None
    /\ refresh' = [refresh EXCEPT ![r].at = "done"]
    /\ UNCHANGED <<keychain, access, user, checking, refreshTask, waiting, call, signIn,
                   signOut, launches, backend>>

\* Slip: the error path does not complete the task.
RefreshFailedHanging(r) ==
    /\ refresh[r].at = "replied"
    /\ refresh[r].reply = None
    /\ ClearSessionState
    /\ UNCHANGED <<checking, refreshTask, refresh, waiting, call, signIn, signOut, launches,
                   backend>>

\* Any error, be it a 401, a 429 or a lost connection, clears the session.
RefreshFailed(r) ==
    /\ refresh[r].at = "replied"
    /\ refresh[r].reply = None
    /\ refresh' = [refresh EXCEPT ![r].at = "done"]
    /\ ClearSessionState
    /\ UNCHANGED <<checking, refreshTask, waiting, call, signIn, signOut, launches, backend>>

\* Whatever has become of the session meanwhile, the new pair replaces it.
RefreshSucceeded(r) ==
    /\ refresh[r].at = "replied"
    /\ refresh[r].reply # None
    /\ refresh' = [refresh EXCEPT ![r].at = "done"]
    /\ ApplyTokens(refresh[r].reply)
    /\ NoteReplaced(owner[refresh[r].reply])
    /\ UNCHANGED <<checking, refreshTask, waiting, signIn, signOut, launches, backend>>

-----------------------------------------------------------------------------
(* restoreSession, signIn and register, signOut *)

\* Slip: the early return without its defer.
RestoreSessionReturning ==
    /\ checking
    /\ waiting[Restore] = None
    /\ keychain # None
    /\ AwaitRefresh(Restore)
    /\ UNCHANGED <<keychain, access, user, checking, call, signIn, signOut, launches, backend>>

RestoreSession ==
    /\ checking
    /\ waiting[Restore] = None
    /\ \/ /\ keychain = None
          /\ ClearSessionState
          /\ checking' = FALSE
          /\ UNCHANGED <<refreshTask, refresh, waiting>>
       \/ /\ keychain # None
          /\ AwaitRefresh(Restore)
          /\ UNCHANGED <<keychain, access, user, checking>>
    /\ UNCHANGED <<call, signIn, signOut, launches, backend>>

SessionRestored ==
    /\ Resumed(Restore)
    /\ checking' = FALSE
    /\ UNCHANGED <<keychain, access, user, refresh, call, signIn, signOut, launches, backend>>

\* The sign-in sheet is offered while no session is there or looked for, and
\* its button is disabled while a sign-in is in flight.
SignIn(u) ==
    /\ ~checking
    /\ access = None
    /\ signIn.at = "unused"
    /\ signIn' = [at |-> "sent", user |-> u, reply |-> None]
    /\ UNCHANGED <<keychain, access, user, checking, refreshTask, refresh, waiting, call,
                   signOut, launches, backend>>

SignedIn ==
    /\ signIn.at = "replied"
    /\ signIn' = NoSignIn
    /\ \/ /\ signIn.reply = None
          /\ UNCHANGED <<keychain, access, user, call>>
       \/ /\ signIn.reply # None
          /\ ApplyTokens(signIn.reply)
          /\ NoteReplaced(signIn.user)
    /\ UNCHANGED <<checking, refreshTask, refresh, waiting, signOut, launches, backend>>

\* The Sign Out button schedules a task; nothing stops a second tap.
SignOut(o) ==
    /\ access # None
    /\ signOut[o].at = "unused"
    /\ signOut' = [signOut EXCEPT ![o].at = "scheduled"]
    /\ UNCHANGED <<keychain, access, user, checking, refreshTask, refresh, waiting, call,
                   signIn, launches, backend>>

StartSignOut(o) ==
    /\ signOut[o].at = "scheduled"
    /\ \/ /\ keychain # None
          /\ signOut' = [signOut EXCEPT ![o].at = "sent", ![o].token = keychain]
          /\ UNCHANGED <<keychain, access, user>>
       \/ /\ keychain = None
          /\ signOut' = [signOut EXCEPT ![o].at = "done"]
          /\ ClearSessionState
    /\ UNCHANGED <<checking, refreshTask, refresh, waiting, call, signIn, launches, backend>>

\* The reply of /auth/logout, or its error, is ignored.
SignedOut(o) ==
    /\ signOut[o].at = "replied"
    /\ signOut' = [signOut EXCEPT ![o].at = "done"]
    /\ ClearSessionState
    /\ UNCHANGED <<checking, refreshTask, refresh, waiting, call, signIn, launches, backend>>

-----------------------------------------------------------------------------
(* BackendAPIService.request *)

StartCall(c) ==
    /\ access # None
    /\ call[c].at = "unused"
    /\ call' = [call EXCEPT ![c].at = "sent", ![c].token = access, ![c].user = user]
    /\ UNCHANGED <<keychain, access, user, checking, refreshTask, refresh, waiting, signIn,
                   signOut, launches, backend>>

\* Success, or an error other than 401; after the retry any reply is the result.
CallEnds(c) ==
    /\ \/ call[c].at = "replied" /\ call[c].reply # "unauthorized"
       \/ call[c].at = "rereplied"
    /\ call' = [call EXCEPT ![c].at = "done"]
    /\ UNCHANGED <<keychain, access, user, checking, refreshTask, refresh, waiting, signIn,
                   signOut, launches, backend>>

CallUnauthorized(c) ==
    /\ call[c].at = "replied"
    /\ call[c].reply = "unauthorized"
    /\ call' = [call EXCEPT ![c].at = "waiting"]
    /\ AwaitRefresh(c)
    /\ UNCHANGED <<keychain, access, user, checking, signIn, signOut, launches, backend>>

\* With a new token the request is sent once more, without one it fails.
CallRetries(c) ==
    LET new == refresh[waiting[c]].reply
    IN  /\ Resumed(c)
        /\ call' = IF new = None THEN [call EXCEPT ![c].at = "done"]
                   ELSE [call EXCEPT ![c].at = "resent", ![c].token = new]
        /\ UNCHANGED <<keychain, access, user, checking, refresh, signIn, signOut, launches,
                       backend>>

-----------------------------------------------------------------------------
(* The backend and the network *)

Mint(n, u, ended) ==
    /\ n \in Tokens \ Issued
    /\ owner' = [owner EXCEPT ![n] = u]
    /\ live' = (live \ ended) \cup {n}

\* The reply may be lost on its way: the client sees an error.
ServeRefresh(r) ==
    /\ refresh[r].at = "sent"
    /\ refresh[r].token \in live
    /\ \E n \in Tokens :
        /\ Mint(n, owner[refresh[r].token], {refresh[r].token})
        /\ \E reply \in {n, None} :
            refresh' = [refresh EXCEPT ![r].at = "replied", ![r].reply = reply]
    /\ UNCHANGED <<keychain, access, user, checking, refreshTask, waiting, call, signIn,
                   signOut, launches, stale, adrift>>

\* 401, 429, 5xx, no connection, or a timeout of the request.
RejectRefresh(r) ==
    /\ refresh[r].at = "sent"
    /\ refresh' = [refresh EXCEPT ![r].at = "replied"]
    /\ UNCHANGED <<keychain, access, user, checking, refreshTask, waiting, call, signIn,
                   signOut, launches, backend>>

ServeSignIn ==
    /\ signIn.at = "sent"
    /\ \E n \in Tokens :
        /\ Mint(n, signIn.user, {})
        /\ \E reply \in {n, None} :
            signIn' = [signIn EXCEPT !.at = "replied", !.reply = reply]
    /\ UNCHANGED <<keychain, access, user, checking, refreshTask, refresh, waiting, call,
                   signOut, launches, stale, adrift>>

RejectSignIn ==
    /\ signIn.at = "sent"
    /\ signIn' = [signIn EXCEPT !.at = "replied"]
    /\ UNCHANGED <<keychain, access, user, checking, refreshTask, refresh, waiting, call,
                   signOut, launches, backend>>

\* The request is served, or fails on its way.
ServeSignOut(o) ==
    /\ signOut[o].at = "sent"
    /\ signOut' = [signOut EXCEPT ![o].at = "replied"]
    /\ \E ended \in {{}, {signOut[o].token}} : live' = live \ ended
    /\ UNCHANGED <<keychain, access, user, checking, refreshTask, refresh, waiting, call,
                   signIn, launches, owner, stale, adrift>>

\* An access token that has not expired acts for its owner, whatever has become
\* of the session; the reply is then a success, an error, or lost.
ServeCall(c) ==
    /\ call[c].at \in {"sent", "resent"}
    /\ \E reply \in {"ok", "unauthorized", "error"} :
        /\ reply = "ok" => call[c].token \notin stale
        /\ reply = "unauthorized" => call[c].token \in stale
        /\ call' = [call EXCEPT
                      ![c].at = IF @ = "sent" THEN "replied" ELSE "rereplied",
                      ![c].reply = reply,
                      ![c].acted = @ \cup (IF call[c].token \in stale THEN {}
                                           ELSE {owner[call[c].token]})]
    /\ UNCHANGED <<keychain, access, user, checking, refreshTask, refresh, waiting, signIn,
                   signOut, launches, backend>>

ExpireAccess(t) ==
    /\ t \in Issued \ stale
    /\ stale' = stale \cup {t}
    /\ UNCHANGED <<app, owner, live, adrift>>

\* A request the killed app had sent arrives after all; nobody sees the reply.
ServeAdrift(m) ==
    /\ m \in adrift
    /\ adrift' = adrift \ {m}
    /\ IF m.op = "logout" \/ m.token \notin live
       THEN live' = live \ {m.token} /\ UNCHANGED owner
       ELSE \E n \in Tokens : Mint(n, owner[m.token], {m.token})
    /\ UNCHANGED <<app, stale>>

\* The app is killed and launched again.
Kill ==
    /\ launches < MaxLaunches
    /\ launches' = launches + 1
    /\ Volatile
    /\ adrift' = adrift
         \cup {[op |-> "refresh", token |-> refresh[r].token] :
                 r \in {s \in Refreshes : refresh[s].at = "sent"}}
         \cup {[op |-> "logout", token |-> signOut[o].token] :
                 o \in {p \in SignOuts : signOut[p].at = "sent"}}
    /\ refresh' = [r \in Refreshes |-> IF refresh[r].at = "unused" THEN refresh[r]
                                       ELSE [refresh[r] EXCEPT !.at = "done"]]
    /\ call' = [c \in Calls |-> IF call[c].at = "unused" THEN call[c]
                                ELSE [call[c] EXCEPT !.at = "done"]]
    /\ signOut' = [o \in SignOuts |-> IF signOut[o].at = "unused" THEN signOut[o]
                                      ELSE [signOut[o] EXCEPT !.at = "done"]]
    /\ UNCHANGED <<keychain, owner, live, stale>>

-----------------------------------------------------------------------------
(* What each task of the main actor does next *)

RunRestore == RestoreSession \/ SessionRestored
RunRefresh(r) == StartRefresh(r) \/ RefreshFailed(r) \/ RefreshSucceeded(r)
RunSignOut(o) == StartSignOut(o) \/ SignedOut(o)
RunCall(c) == CallEnds(c) \/ CallUnauthorized(c) \/ CallRetries(c)

\* What the user does.
UserActs ==
    \/ \E u \in Users : SignIn(u)
    \/ \E o \in SignOuts : SignOut(o)
    \/ \E c \in Calls : StartCall(c)

\* Jobs in the queue of the main actor, which runs them in order: they run
\* before a reply that the network has yet to bring.
Enqueued ==
    \/ checking /\ waiting[Restore] = None
    \/ \E r \in Refreshes : refresh[r].at = "scheduled"
    \/ \E o \in SignOuts : signOut[o].at = "scheduled"
    \/ \E w \in Waiters : waiting[w] # None /\ refresh[waiting[w]].at = "done"

NetworkRefresh(r) == ~Enqueued /\ (ServeRefresh(r) \/ RejectRefresh(r))
NetworkSignIn == ~Enqueued /\ (ServeSignIn \/ RejectSignIn)
NetworkSignOut(o) == ~Enqueued /\ ServeSignOut(o)
NetworkCall(c) == ~Enqueued /\ ServeCall(c)

Next ==
    \/ RunRestore \/ SignedIn \/ UserActs \/ NetworkSignIn \/ Kill
    \/ \E r \in Refreshes : RunRefresh(r) \/ NetworkRefresh(r)
    \/ \E o \in SignOuts : RunSignOut(o) \/ NetworkSignOut(o)
    \/ \E c \in Calls : RunCall(c) \/ NetworkCall(c)
    \/ \E t \in Tokens : ExpireAccess(t)
    \/ \E m \in adrift : ServeAdrift(m)

Spec == Init /\ [][Next]_vars

\* The main actor runs every job, and URLSession ends every request, with its
\* reply or with an error.  The user need not do anything.
FairSpec ==
    /\ Spec
    /\ WF_vars(RunRestore) /\ WF_vars(SignedIn) /\ WF_vars(NetworkSignIn)
    /\ \A r \in Refreshes : WF_vars(RunRefresh(r)) /\ WF_vars(NetworkRefresh(r))
    /\ \A o \in SignOuts : WF_vars(RunSignOut(o)) /\ WF_vars(NetworkSignOut(o))
    /\ \A c \in Calls : WF_vars(RunCall(c)) /\ WF_vars(NetworkCall(c))

-----------------------------------------------------------------------------
(* Properties *)

RefreshRecord == [at : TaskSteps, token : Tokens \cup {None},
                  reply : Tokens \cup {None}, by : Waiters \cup {None}]
CallRecord == [at : CallSteps, token : Tokens \cup {None}, user : Users \cup {None},
               reply : {"none", "ok", "unauthorized", "error"}, acted : SUBSET Users,
               replaced : BOOLEAN]

\* The state is well typed; a signed-in client knows its user.
TypeOK ==
    /\ keychain \in Tokens \cup {None}
    /\ access \in Tokens \cup {None}
    /\ user \in Users \cup {None}
    /\ (access = None) = (user = None)
    /\ checking \in BOOLEAN
    /\ refreshTask \in Refreshes \cup {None}
    /\ refresh \in [Refreshes -> RefreshRecord]
    /\ waiting \in [Waiters -> Refreshes \cup {None}]
    /\ call \in [Calls -> CallRecord]
    /\ signIn \in [at : TaskSteps, user : Users \cup {None}, reply : Tokens \cup {None}]
    /\ signOut \in [SignOuts -> [at : TaskSteps, token : Tokens \cup {None}]]
    /\ launches \in 1..MaxLaunches
    /\ owner \in [Tokens -> Users \cup {None}]
    /\ live \subseteq Issued
    /\ stale \subseteq Issued
    /\ adrift \subseteq [op : {"refresh", "logout"}, token : Tokens]

\* "Concurrent calls while a refresh is in flight join the same underlying
\* Task": whatever calls, sign-outs and the launch do, at most one runs.
SingleFlight ==
    Cardinality({r \in Refreshes : refresh[r].at \in {"scheduled", "sent", "replied"}}) <= 1

\* Memory and Keychain never tell two stories: signed in, the stored token is
\* the pair in use; signed out, nothing is stored, except until the launch has
\* looked at it.
StoredIsUsed ==
    /\ access # None => keychain = access /\ user = owner[access]
    /\ (access = None /\ ~checking) => keychain = None

\* Signed in and at rest, the client holds a token the backend accepts: no lost
\* reply, kill or late answer leaves it signed in with a dead session.
Resting == /\ \A r \in Refreshes : refresh[r].at \in {"unused", "scheduled", "done"}
           /\ \A o \in SignOuts : signOut[o].at \in {"unused", "scheduled", "done"}
SignedInHoldsLiveToken == (access # None /\ Resting) => keychain \in live

\* A request never acts for another user than the one that started it, unless
\* the session passed to that user while the request was in flight.
ActsForCaller ==
    \A c \in Calls : call[c].acted \subseteq {call[c].user} \/ call[c].replaced

\* Every request ends, and so does the check at launch: nobody awaits a refresh
\* that never finishes.
CallsEnd == []<>(\A c \in Calls : call[c].at \in {"unused", "done"})
LaunchEnds == []<>~checking
=============================================================================
