-------------------------- MODULE AuthClientProofs --------------------------
(* Theorems about AuthClient, for any number of tokens, users, calls,      *)
(* refreshes, sign-outs and launches.                                      *)
EXTENDS AuthClient, FiniteSetTheorems, TLAPS

-----------------------------------------------------------------------------
(* The inductive invariant *)

Active == {"scheduled", "sent", "replied"}

\* What a task holds is a token somebody was issued; a request that was sent
\* carries one.
RefreshHolds(r) ==
    /\ refresh[r].token # None => owner[refresh[r].token] # None
    /\ refresh[r].reply # None => owner[refresh[r].reply] # None
    /\ refresh[r].at = "sent" => refresh[r].token # None
    /\ refresh[r].at \in {"unused", "scheduled", "sent"} => refresh[r].reply = None
CallHolds(c) ==
    call[c].at \notin {"unused", "done"} =>
        call[c].token # None /\ call[c].user # None /\ owner[call[c].token] # None
SignOutHolds(o) ==
    /\ signOut[o].token # None => owner[signOut[o].token] # None
    /\ signOut[o].at = "sent" => signOut[o].token # None

Held ==
    /\ \A r \in Refreshes : RefreshHolds(r)
    /\ \A c \in Calls : CallHolds(c)
    /\ \A o \in SignOuts : SignOutHolds(o)
    /\ \A m \in adrift : owner[m.token] # None
    /\ keychain # None => owner[keychain] # None

\* The sign-in in flight is of its user.
SigningIn ==
    /\ signIn.at \in {"unused", "sent", "replied"}
    /\ signIn.at # "unused" => signIn.user # None
    /\ signIn.at # "replied" => signIn.reply = None
    /\ signIn.reply # None => owner[signIn.reply] = signIn.user

\* Only the task that AuthService knows is active, and it knows the task until
\* the creator of the task has resumed.
OneTask ==
    /\ \A r \in Refreshes : refresh[r].at \in Active => refreshTask = r
    /\ refreshTask # None => refresh[refreshTask].at # "unused"
    /\ \A w \in Waiters :
         waiting[w] # None =>
             /\ refresh[waiting[w]].at # "unused"
             /\ refresh[waiting[w]].by = w => refreshTask = waiting[w]
    /\ refreshTask # None =>
         /\ refresh[refreshTask].by \in Waiters
         /\ waiting[refresh[refreshTask].by] = refreshTask
    /\ \A c \in Calls : waiting[c] # None <=> call[c].at = "waiting"
    /\ waiting[Restore] # None => checking

\* Signed in, the pair in use is the stored one; a stored pair that is not in
\* use is one the launch has still to try, and nobody else acts until it has.
Told ==
    /\ access # None => keychain = access /\ user = owner[access]
    /\ access = None => user = None
    /\ (access = None /\ keychain # None) =>
         /\ checking
         /\ refreshTask = waiting[Restore]
         /\ refreshTask # None => refresh[refreshTask].at # "done"
         /\ \A c \in Calls : call[c].at \in {"unused", "done"}

\* A pair on its way to the client is live, and nobody else holds it.
Fresh(t) ==
    /\ t \in live
    /\ t # keychain
    /\ \A r \in Refreshes : refresh[r].at = "sent" => refresh[r].token # t
    /\ \A o \in SignOuts : signOut[o].at = "sent" => signOut[o].token # t
    /\ \A m \in adrift : m.token # t

InFlight ==
    /\ \A r \in Refreshes :
         (refresh[r].at = "replied" /\ refresh[r].reply # None) =>
             Fresh(refresh[r].reply) /\ refresh[r].reply # signIn.reply
    /\ signIn.reply # None => Fresh(signIn.reply)

\* A token in use that is dead is about to be noticed: its end is a reply that
\* has not been looked at.
DeadIsNoticed ==
    access # None =>
        /\ \A m \in adrift : m.token # keychain
        /\ \/ keychain \in live
           \/ \E r \in Refreshes : refresh[r].at = "replied"
           \/ \E o \in SignOuts : signOut[o].at = "replied"

\* t acts for the user that started c, or the session has changed hands.
For(c, t) == owner[t] = call[c].user \/ call[c].replaced

\* What a call acts with is its user's; and so is the pair of a refresh that has
\* ended, for the calls that await it and for those that may yet join it.
CallsAct ==
    \A c \in Calls :
        /\ call[c].acted \subseteq {call[c].user} \/ call[c].replaced
        /\ call[c].at = "unused" => call[c].acted = {}
        /\ call[c].at \in {"sent", "resent"} => For(c, call[c].token)
        /\ \A r \in Refreshes :
             (/\ refresh[r].at = "done" /\ refresh[r].reply # None
              /\ waiting[c] = r \/ (call[c].at = "replied" /\ refreshTask = r)) =>
                 For(c, refresh[r].reply)

IInv ==
    /\ TypeOK /\ Held /\ SigningIn /\ OneTask /\ Told /\ InFlight /\ DeadIsNoticed
    /\ CallsAct

-----------------------------------------------------------------------------
(* The steps *)

\* The session passes to u: the calls of other users are marked, nothing else.
LEMMA PassedOn ==
    ASSUME TypeOK, NEW u, NoteReplaced(u)
    PROVE  /\ call' \in [Calls -> CallRecord]
           /\ \A c \in Calls : /\ call'[c].at = call[c].at /\ call'[c].token = call[c].token
                               /\ call'[c].user = call[c].user /\ call'[c].acted = call[c].acted
                               /\ call[c].replaced => call'[c].replaced
                               /\ call[c].at # "unused" =>
                                     call[c].user = u \/ call'[c].replaced
<1>1. ASSUME NEW c \in Calls
      PROVE  /\ call'[c] \in CallRecord
             /\ call'[c].at = call[c].at /\ call'[c].token = call[c].token
             /\ call'[c].user = call[c].user /\ call'[c].acted = call[c].acted
             /\ call[c].replaced => call'[c].replaced
             /\ call[c].at # "unused" => call[c].user = u \/ call'[c].replaced
    <2>1. call[c] \in CallRecord
        BY DEF TypeOK
    <2>2. CASE call[c].at # "unused" /\ call[c].user # u
        <3>1. call'[c] = [call[c] EXCEPT !.replaced = TRUE]
            BY <2>2 DEF NoteReplaced
        <3> QED
            BY <2>1, <3>1 DEF CallRecord
    <2>3. CASE ~(call[c].at # "unused" /\ call[c].user # u)
        <3>1. call'[c] = call[c]
            BY <2>3 DEF NoteReplaced
        <3> QED
            BY <2>1, <2>3, <3>1
    <2> QED
        BY <2>2, <2>3
<1>2. call' = [c \in Calls |-> call'[c]]
    BY DEF NoteReplaced
<1> QED
    BY <1>1, <1>2

\* A task moves on, the others stand.
RefreshMoves(r, at, token, reply) ==
    /\ refresh' \in [Refreshes -> RefreshRecord]
    /\ refresh'[r].at = at /\ refresh'[r].token = token
    /\ refresh'[r].reply = reply /\ refresh'[r].by = refresh[r].by
    /\ \A s \in Refreshes \ {r} : refresh'[s] = refresh[s]
CallMoves(c, at, token, u, reply, acted) ==
    /\ call' \in [Calls -> CallRecord]
    /\ call'[c].at = at /\ call'[c].token = token /\ call'[c].user = u
    /\ call'[c].reply = reply /\ call'[c].acted = acted
    /\ call'[c].replaced = call[c].replaced
    /\ \A s \in Calls \ {c} : call'[s] = call[s]
SignOutMoves(o, at, token) ==
    /\ signOut' \in [SignOuts -> [at : TaskSteps, token : Tokens \cup {None}]]
    /\ signOut'[o].at = at /\ signOut'[o].token = token
    /\ \A p \in SignOuts \ {o} : signOut'[p] = signOut[p]

\* A call moves when its record is replaced by another with the same history.
LEMMA CallPut ==
    ASSUME NEW c \in Calls, call \in [Calls -> CallRecord], call'[c] \in CallRecord,
           call' = [call EXCEPT ![c] = call'[c]], call'[c].replaced = call[c].replaced
    PROVE  CallMoves(c, call'[c].at, call'[c].token, call'[c].user, call'[c].reply,
                     call'[c].acted)
    BY DEF CallMoves

\* w joins the refresh in flight, or starts one.
AwaitedBy(w) ==
    /\ waiting' \in [Waiters -> Refreshes \cup {None}]
    /\ waiting'[w] = refreshTask' /\ refreshTask' \in Refreshes /\ refreshTask' # None
    /\ \A v \in Waiters \ {w} : waiting'[v] = waiting[v]
    /\ refresh' \in [Refreshes -> RefreshRecord]
    /\ \A s \in Refreshes :
         /\ refresh'[s].token = refresh[s].token /\ refresh'[s].reply = refresh[s].reply
         /\ \/ refresh'[s].at = refresh[s].at /\ refresh'[s].by = refresh[s].by
            \/ /\ refreshTask = None /\ s = refreshTask'
               /\ refresh[s].at = "unused" /\ refresh'[s].at = "scheduled"
               /\ refresh[s].reply = None /\ refresh'[s].by = w
    /\ refreshTask # None => refreshTask' = refreshTask
    /\ refreshTask = None =>
         /\ refresh[refreshTask'].at = "unused" /\ refresh'[refreshTask'].at = "scheduled"
         /\ refresh'[refreshTask'].by = w

\* w stops waiting, and forgets the task if it created it.
ResumedBy(w) ==
    /\ waiting[w] \in Refreshes /\ waiting[w] # None /\ refresh[waiting[w]].at = "done"
    /\ waiting' \in [Waiters -> Refreshes \cup {None}] /\ waiting'[w] = None
    /\ \A v \in Waiters \ {w} : waiting'[v] = waiting[v]
    /\ refresh[waiting[w]].by = w => refreshTask = waiting[w] /\ refreshTask' = None
    /\ refresh[waiting[w]].by # w => refreshTask' = refreshTask

LEMMA Awaited ==
    ASSUME IInv, NEW w \in Waiters, AwaitRefresh(w)
    PROVE  AwaitedBy(w)
<1> USE DEF IInv, AwaitedBy
<1>1. CASE refreshTask # None
    <2>1. /\ waiting' = [waiting EXCEPT ![w] = refreshTask] /\ refresh' = refresh
          /\ refreshTask' = refreshTask
        BY <1>1 DEF AwaitRefresh
    <2>2. waiting' \in [Waiters -> Refreshes \cup {None}] /\ waiting'[w] = refreshTask
          /\ \A v \in Waiters \ {w} : waiting'[v] = waiting[v]
        BY <2>1 DEF TypeOK
    <2> QED
        BY <1>1, <2>1, <2>2 DEF TypeOK
<1>2. CASE refreshTask = None
    <2>1. PICK r \in Refreshes : /\ refresh[r].at = "unused" /\ refreshTask' = r
                                 /\ refresh' = [refresh EXCEPT ![r].at = "scheduled", ![r].by = w]
                                 /\ waiting' = [waiting EXCEPT ![w] = r]
        BY <1>2 DEF AwaitRefresh
    <2>2. /\ refresh[r] \in RefreshRecord /\ refresh[r].reply = None
          /\ refresh'[r] = [refresh[r] EXCEPT !.at = "scheduled", !.by = w]
          /\ refresh' = [refresh EXCEPT ![r] = refresh'[r]]
        BY <2>1 DEF TypeOK, Held, RefreshHolds
    <2>3. refresh'[r] \in RefreshRecord /\ refresh'[r].at = "scheduled" /\ refresh'[r].by = w
          /\ refresh'[r].token = refresh[r].token /\ refresh'[r].reply = refresh[r].reply
        BY <2>2 DEF RefreshRecord, TaskSteps
    <2>4. waiting' \in [Waiters -> Refreshes \cup {None}] /\ waiting'[w] = r
          /\ \A v \in Waiters \ {w} : waiting'[v] = waiting[v]
        BY <2>1 DEF TypeOK
    <2>5. refresh' \in [Refreshes -> RefreshRecord]
          /\ \A s \in Refreshes \ {r} : refresh'[s] = refresh[s]
        BY <2>2, <2>3 DEF TypeOK
    <2> QED
        BY <1>2, <2>1, <2>2, <2>3, <2>4, <2>5, NoneAssumption
<1> QED
    BY <1>1, <1>2

LEMMA Resumption ==
    ASSUME IInv, NEW w \in Waiters, Resumed(w)
    PROVE  ResumedBy(w)
    BY NoneAssumption DEF IInv, Resumed, TypeOK, OneTask, ResumedBy

\* To await and to resume keep the account of who awaits what.
LEMMA TaskAwaited ==
    ASSUME IInv, NEW w \in Waiters, AwaitedBy(w), waiting[w] = None, UNCHANGED checking,
           \A c \in Calls : call'[c].at = (IF c = w THEN "waiting" ELSE call[c].at),
           w = Restore => checking
    PROVE  OneTask'
<1> USE DEF AwaitedBy
<1>1. OneTask /\ refreshTask \in Refreshes \cup {None} /\ Restore \in Waiters
      /\ \A v \in Waiters : waiting[v] \in Refreshes \cup {None}
    BY DEF IInv, TypeOK, Waiters
<1>2. \A r \in Refreshes : refresh'[r].at \in Active => refreshTask' = r
    BY <1>1, NoneAssumption DEF OneTask, Active
<1>3. refresh'[refreshTask'].at # "unused"
    BY <1>1, NoneAssumption DEF OneTask
<1>4. ASSUME NEW v \in Waiters, waiting'[v] # None
      PROVE  /\ refresh'[waiting'[v]].at # "unused"
             /\ refresh'[waiting'[v]].by = v => refreshTask' = waiting'[v]
    <2>1. CASE v = w
        BY <1>3, <2>1
    <2>2. CASE v # w
        BY <1>1, <1>4, <2>2, NoneAssumption DEF OneTask
    <2> QED
        BY <2>1, <2>2
<1>5. /\ refresh'[refreshTask'].by \in Waiters
      /\ waiting'[refresh'[refreshTask'].by] = refreshTask'
    BY <1>1 DEF OneTask
<1>6. \A c \in Calls : waiting'[c] # None <=> call'[c].at = "waiting"
    BY <1>1 DEF OneTask, Waiters
<1>7. waiting'[Restore] # None => checking'
    BY <1>1 DEF OneTask
<1> QED
    BY <1>2, <1>3, <1>4, <1>5, <1>6, <1>7 DEF OneTask

LEMMA TaskResumed ==
    ASSUME IInv, NEW w \in Waiters, ResumedBy(w), UNCHANGED refresh,
           \A c \in Calls : IF c = w THEN call'[c].at # "waiting" ELSE call'[c].at = call[c].at,
           w = Restore \/ checking' = checking
    PROVE  OneTask'
<1> USE DEF ResumedBy
<1>1. OneTask /\ refreshTask \in Refreshes \cup {None} /\ Restore \in Waiters
      /\ \A v \in Waiters : waiting[v] \in Refreshes \cup {None}
    BY DEF IInv, TypeOK, Waiters
<1>2. \A r \in Refreshes : refresh[r].at \in Active => refreshTask' = r
    BY <1>1 DEF OneTask, Active
<1>3. refreshTask' # None => refreshTask' = refreshTask /\ refresh[refreshTask].by # w
    BY <1>1 DEF OneTask
<1>4. refreshTask' # None =>
         /\ refresh[refreshTask'].at # "unused" /\ refresh[refreshTask'].by \in Waiters
         /\ waiting'[refresh[refreshTask'].by] = refreshTask'
    BY <1>1, <1>3 DEF OneTask
<1>5. ASSUME NEW v \in Waiters, waiting'[v] # None
      PROVE  /\ refresh[waiting'[v]].at # "unused"
             /\ refresh[waiting'[v]].by = v => refreshTask' = waiting'[v]
    <2>1. v # w /\ waiting'[v] = waiting[v]
        BY <1>5
    <2>2. refresh[waiting[v]].by = v => refreshTask = waiting[v]
        BY <1>1, <1>5, <2>1 DEF OneTask
    <2> QED
        BY <1>1, <1>5, <2>1, <2>2 DEF OneTask
<1>6. \A c \in Calls : waiting'[c] # None <=> call'[c].at = "waiting"
    BY <1>1 DEF OneTask, Waiters
<1>7. waiting'[Restore] # None => checking'
    BY <1>1 DEF OneTask
<1> QED
    BY <1>2, <1>4, <1>5, <1>6, <1>7 DEF OneTask

\* A new token is nobody's before it is minted; the others keep their users.
MintedFor(n, u, ended) ==
    /\ owner[n] = None /\ n \notin live
    /\ owner' \in [Tokens -> Users \cup {None}] /\ owner'[n] = u
    /\ \A t \in Tokens : owner[t] # None => owner'[t] = owner[t] /\ t # n
    /\ live' = (live \ ended) \cup {n}
    /\ Issued' = Issued \cup {n} /\ live' \subseteq Issued'

LEMMA Minted ==
    ASSUME TypeOK, NEW n \in Tokens, NEW u \in Users, NEW ended, Mint(n, u, ended)
    PROVE  MintedFor(n, u, ended)
    BY NoneAssumption DEF TypeOK, Mint, Issued, MintedFor

LEMMA StartRefreshSends ==
    ASSUME IInv, NEW r \in Refreshes, StartRefresh(r), keychain # None
    PROVE  IInv'
<1> USE DEF IInv, StartRefresh, backend, RefreshMoves
<1>1. /\ refresh[r].at = "scheduled" /\ refresh[r].reply = None /\ keychain \in Tokens
      /\ UNCHANGED <<keychain, access, user>>
      /\ RefreshMoves(r, "sent", keychain, refresh[r].reply)
    BY NoneAssumption
       DEF TypeOK, RefreshRecord, TaskSteps, Held, RefreshHolds
<1>2. TypeOK'
    BY <1>1 DEF TypeOK, Issued, TaskSteps, CallSteps
<1>3. Held'
    BY <1>1 DEF Held, RefreshHolds, CallHolds, SignOutHolds
<1>4. SigningIn'
    BY DEF SigningIn
<1>5. OneTask'
    BY <1>1 DEF OneTask, Active, TypeOK
<1>6. Told'
    BY <1>1 DEF Told, TypeOK
<1>7. InFlight'
    BY <1>1 DEF InFlight, Fresh
<1>8. DeadIsNoticed'
    BY DEF DeadIsNoticed, TypeOK
<1>9. CallsAct'
    BY <1>1 DEF CallsAct, For
<1> QED
    BY <1>2, <1>3, <1>4, <1>5, <1>6, <1>7, <1>8, <1>9

LEMMA StartRefreshFails ==
    ASSUME IInv, NEW r \in Refreshes, StartRefresh(r), keychain = None
    PROVE  IInv'
<1> USE DEF IInv, StartRefresh, ClearSessionState, backend, RefreshMoves
<1>1. /\ refresh[r].at = "scheduled" /\ refresh[r].reply = None
      /\ keychain' = None /\ access' = None /\ user' = None
      /\ RefreshMoves(r, "done", refresh[r].token, refresh[r].reply)
    <2>1. refresh' = [refresh EXCEPT ![r].at = "done"] /\ refresh[r].at = "scheduled"
        OBVIOUS
    <2>2. refresh \in [Refreshes -> RefreshRecord]
        BY DEF TypeOK
    <2>3. RefreshMoves(r, "done", refresh[r].token, refresh[r].reply)
        <3> HIDE DEF IInv, StartRefresh
        <3> QED
            BY <2>1, <2>2 DEF RefreshRecord, TaskSteps
    <2> QED
        BY <2>1, <2>3 DEF Held, RefreshHolds
<1>2. TypeOK'
    BY <1>1 DEF TypeOK, Issued, TaskSteps, CallSteps
<1>3. Held'
    BY <1>1 DEF Held, RefreshHolds, CallHolds, SignOutHolds
<1>4. SigningIn'
    BY DEF SigningIn
<1>5. OneTask'
    BY <1>1 DEF OneTask, Active, TypeOK
<1>6. Told'
    BY DEF Told
<1>7. InFlight'
    BY <1>1 DEF InFlight, Fresh
<1>8. DeadIsNoticed'
    BY DEF DeadIsNoticed
<1>9. CallsAct'
    BY <1>1 DEF CallsAct, For
<1> QED
    BY <1>2, <1>3, <1>4, <1>5, <1>6, <1>7, <1>8, <1>9

LEMMA RefreshFailedStep ==
    ASSUME IInv, NEW r \in Refreshes, RefreshFailed(r)
    PROVE  IInv'
<1> USE DEF IInv, RefreshFailed, ClearSessionState, backend, RefreshMoves
<1>1. /\ refresh[r].at = "replied" /\ refresh[r].reply = None
      /\ RefreshMoves(r, "done", refresh[r].token, refresh[r].reply)
    <2>1. refresh' = [refresh EXCEPT ![r].at = "done"] /\ refresh[r].at = "replied"
          /\ refresh[r].reply = None
        OBVIOUS
    <2>2. refresh \in [Refreshes -> RefreshRecord]
        BY DEF TypeOK
    <2> HIDE DEF IInv, RefreshFailed
    <2> QED
        BY <2>1, <2>2 DEF RefreshRecord, TaskSteps
<1>2. TypeOK'
    BY <1>1 DEF TypeOK, Issued, TaskSteps, CallSteps
<1>3. Held'
    BY DEF Held, RefreshHolds, CallHolds, SignOutHolds
<1>4. SigningIn'
    BY DEF SigningIn
<1>5. OneTask'
    BY DEF OneTask, Active
<1>6. Told'
    BY DEF Told
<1>7. InFlight'
    BY DEF InFlight, Fresh
<1>8. DeadIsNoticed'
    BY DEF DeadIsNoticed
<1>9. CallsAct'
    BY DEF CallsAct, For
<1> QED
    BY <1>2, <1>3, <1>4, <1>5, <1>6, <1>7, <1>8, <1>9

LEMMA RefreshSucceededStep ==
    ASSUME IInv, NEW r \in Refreshes, RefreshSucceeded(r)
    PROVE  IInv'
<1> USE DEF IInv, RefreshSucceeded, ApplyTokens, backend, RefreshMoves
<1>1. /\ refresh[r].at = "replied" /\ refresh[r].reply # None
      /\ refresh[r].reply \in Tokens /\ owner[refresh[r].reply] \in Users
      /\ RefreshMoves(r, "done", refresh[r].token, refresh[r].reply)
    BY NoneAssumption
       DEF TypeOK, RefreshRecord, TaskSteps, Held, RefreshHolds
<1>2. /\ call' \in [Calls -> CallRecord]
      /\ \A c \in Calls : /\ call'[c].at = call[c].at /\ call'[c].token = call[c].token
                          /\ call'[c].user = call[c].user /\ call'[c].acted = call[c].acted
                          /\ call[c].replaced => call'[c].replaced
                          /\ call[c].at # "unused" =>
                                call[c].user = owner[refresh[r].reply] \/ call'[c].replaced
    BY <1>1, PassedOn
<1>3. /\ Fresh(refresh[r].reply) /\ refresh[r].reply # signIn.reply /\ refreshTask = r
      /\ \A s \in Refreshes \ {r} : refresh[s].at \notin Active
    BY <1>1, NoneAssumption DEF InFlight, OneTask, Active
<1>4. TypeOK'
    BY <1>1, <1>2, <1>3, NoneAssumption DEF TypeOK, Issued, TaskSteps, CallSteps
<1>5. Held'
    BY <1>1, <1>2, <1>3 DEF Held, RefreshHolds, CallHolds, SignOutHolds
<1>6. SigningIn'
    BY DEF SigningIn
<1>7. OneTask'
    BY <1>1, <1>2, <1>3 DEF OneTask, Active
<1>8. Told'
    BY DEF Told
<1>9. InFlight'
    BY <1>1, <1>3 DEF InFlight, Fresh, Active
<1>10. DeadIsNoticed'
    BY <1>1, <1>3 DEF DeadIsNoticed, Fresh
<1>11. CallsAct'
    <2>1. ASSUME NEW c \in Calls, NEW t, For(c, t) PROVE For(c, t)'
        BY <1>2, <2>1 DEF For
    <2>2. \A c \in Calls : call[c].at # "unused" => For(c, refresh[r].reply)'
        BY <1>1, <1>2 DEF For
    <2>3. \A c \in Calls : waiting[c] # None => call[c].at = "waiting"
        BY DEF OneTask
    <2> QED
        BY <1>1, <1>2, <2>1, <2>2, <2>3, NoneAssumption DEF CallsAct
<1> QED
    BY <1>4, <1>5, <1>6, <1>7, <1>8, <1>9, <1>10, <1>11

LEMMA SignInStep ==
    ASSUME IInv, NEW u \in Users, SignIn(u)
    PROVE  IInv'
<1> USE DEF IInv, SignIn, backend
<1>1. /\ ~checking /\ access = None /\ signIn.at = "unused" /\ signIn.reply = None
      /\ signIn'.at = "sent" /\ signIn'.user = u /\ signIn'.reply = None
    BY DEF TypeOK, SigningIn
<1>2. TypeOK'
    BY DEF TypeOK, Issued, TaskSteps, CallSteps
<1>3. Held'
    BY DEF Held, RefreshHolds, CallHolds, SignOutHolds
<1>4. SigningIn'
    BY <1>1, NoneAssumption DEF SigningIn
<1>5. OneTask'
    BY DEF OneTask, Active
<1>6. Told'
    BY DEF Told
<1>7. InFlight'
    BY DEF InFlight, Fresh
<1>8. DeadIsNoticed'
    BY DEF DeadIsNoticed
<1>9. CallsAct'
    BY DEF CallsAct, For
<1> QED
    BY <1>2, <1>3, <1>4, <1>5, <1>6, <1>7, <1>8, <1>9

LEMMA SignedInStep ==
    ASSUME IInv, SignedIn
    PROVE  IInv'
<1> USE DEF IInv, SignedIn, ApplyTokens, backend, NoSignIn
<1>1. /\ signIn.at = "replied" /\ signIn.user \in Users
      /\ signIn'.at = "unused" /\ signIn'.user = None /\ signIn'.reply = None
    BY NoneAssumption DEF TypeOK, SigningIn
<1>2. \/ /\ signIn.reply = None /\ UNCHANGED <<keychain, access, user, call>>
      \/ /\ signIn.reply # None /\ signIn.reply \in Tokens /\ owner[signIn.reply] = signIn.user
         /\ keychain' = signIn.reply /\ access' = signIn.reply /\ user' = signIn.user
         /\ NoteReplaced(signIn.user)
    BY DEF TypeOK, SigningIn
<1>3. /\ call' \in [Calls -> CallRecord]
      /\ \A c \in Calls : /\ call'[c].at = call[c].at /\ call'[c].token = call[c].token
                          /\ call'[c].user = call[c].user /\ call'[c].acted = call[c].acted
                          /\ call[c].replaced => call'[c].replaced
                          /\ (signIn.reply # None /\ call[c].at # "unused") =>
                                call[c].user = signIn.user \/ call'[c].replaced
    BY <1>1, <1>2, PassedOn DEF TypeOK
<1>4. TypeOK'
    BY <1>1, <1>2, <1>3, NoneAssumption DEF TypeOK, Issued, TaskSteps, CallSteps
<1>5. Held'
    BY <1>1, <1>2, <1>3, NoneAssumption DEF Held, RefreshHolds, CallHolds, SignOutHolds
<1>6. SigningIn'
    BY DEF SigningIn
<1>7. OneTask'
    BY <1>1, <1>2, <1>3 DEF OneTask, Active
<1>8. Told'
    BY DEF Told
<1>9. InFlight'
    BY DEF InFlight, Fresh
<1>10. DeadIsNoticed'
    <2>1. CASE signIn.reply = None
        BY <1>2, <2>1 DEF DeadIsNoticed
    <2>2. CASE signIn.reply # None
        BY <1>2, <2>2 DEF DeadIsNoticed, InFlight, Fresh
    <2> QED
        BY <2>1, <2>2
<1>11. CallsAct'
    BY <1>1, <1>2, <1>3 DEF CallsAct, For
<1> QED
    BY <1>4, <1>5, <1>6, <1>7, <1>8, <1>9, <1>10, <1>11

LEMMA SignOutStep ==
    ASSUME IInv, NEW o \in SignOuts, SignOut(o)
    PROVE  IInv'
<1> USE DEF IInv, SignOut, backend
<1>1. TypeOK'
    BY DEF TypeOK, Issued, TaskSteps, CallSteps
<1>2. Held'
    BY DEF Held, RefreshHolds, CallHolds, SignOutHolds
<1>3. SigningIn'
    BY DEF SigningIn
<1>4. OneTask'
    BY DEF OneTask, Active
<1>5. Told'
    BY DEF Told
<1>6. InFlight'
    BY DEF InFlight, Fresh
<1>7. DeadIsNoticed'
    BY DEF DeadIsNoticed
<1>8. CallsAct'
    BY DEF CallsAct, For
<1> QED
    BY <1>1, <1>2, <1>3, <1>4, <1>5, <1>6, <1>7, <1>8

LEMMA StartSignOutSends ==
    ASSUME IInv, NEW o \in SignOuts, StartSignOut(o), keychain # None
    PROVE  IInv'
<1> USE DEF IInv, StartSignOut, backend, SignOutMoves
<1>1. /\ signOut[o].at = "scheduled" /\ keychain \in Tokens
      /\ UNCHANGED <<keychain, access, user>>
      /\ SignOutMoves(o, "sent", keychain)
    <2>1. /\ signOut' = [signOut EXCEPT ![o].at = "sent", ![o].token = keychain]
          /\ signOut[o].at = "scheduled" /\ UNCHANGED <<keychain, access, user>>
        OBVIOUS
    <2>2. /\ signOut \in [SignOuts -> [at : TaskSteps, token : Tokens \cup {None}]]
          /\ keychain \in Tokens
        BY DEF TypeOK
    <2> HIDE DEF IInv, StartSignOut
    <2> QED
        BY <2>1, <2>2 DEF TaskSteps
<1>2. TypeOK'
    BY DEF TypeOK, Issued, TaskSteps, CallSteps
<1>3. Held'
    BY DEF Held, RefreshHolds, CallHolds, SignOutHolds, TypeOK
<1>4. SigningIn'
    BY DEF SigningIn
<1>5. OneTask'
    BY DEF OneTask, Active
<1>6. Told'
    BY DEF Told
<1>7. InFlight'
    <2>1. ASSUME NEW t, Fresh(t) PROVE Fresh(t)'
        BY <1>1, <2>1 DEF Fresh
    <2> QED
        BY <2>1 DEF InFlight
<1>8. DeadIsNoticed'
    BY DEF DeadIsNoticed, TypeOK
<1>9. CallsAct'
    BY DEF CallsAct, For
<1> QED
    BY <1>2, <1>3, <1>4, <1>5, <1>6, <1>7, <1>8, <1>9

LEMMA StartSignOutEnds ==
    ASSUME IInv, NEW o \in SignOuts, StartSignOut(o), keychain = None
    PROVE  IInv'
<1> USE DEF IInv, StartSignOut, ClearSessionState, backend
<1>1. TypeOK'
    BY DEF TypeOK, Issued, TaskSteps, CallSteps
<1>2. Held'
    BY DEF Held, RefreshHolds, CallHolds, SignOutHolds, TypeOK
<1>3. SigningIn'
    BY DEF SigningIn
<1>4. OneTask'
    BY DEF OneTask, Active
<1>5. Told'
    BY DEF Told
<1>6. InFlight'
    <2>1. ASSUME NEW t, Fresh(t), t # None PROVE Fresh(t)'
        BY <2>1 DEF Fresh, TypeOK
    <2> QED
        BY <2>1 DEF InFlight
<1>7. DeadIsNoticed'
    BY DEF DeadIsNoticed
<1>8. CallsAct'
    BY DEF CallsAct, For
<1> QED
    BY <1>1, <1>2, <1>3, <1>4, <1>5, <1>6, <1>7, <1>8

LEMMA SignedOutStep ==
    ASSUME IInv, NEW o \in SignOuts, SignedOut(o)
    PROVE  IInv'
<1> USE DEF IInv, SignedOut, ClearSessionState, backend
<1>1. TypeOK'
    BY DEF TypeOK, Issued, TaskSteps, CallSteps
<1>2. Held'
    BY DEF Held, RefreshHolds, CallHolds, SignOutHolds
<1>3. SigningIn'
    BY DEF SigningIn
<1>4. OneTask'
    BY DEF OneTask, Active
<1>5. Told'
    BY DEF Told
<1>6. InFlight'
    BY DEF InFlight, Fresh
<1>7. DeadIsNoticed'
    BY DEF DeadIsNoticed
<1>8. CallsAct'
    BY DEF CallsAct, For
<1> QED
    BY <1>1, <1>2, <1>3, <1>4, <1>5, <1>6, <1>7, <1>8

LEMMA StartCallStep ==
    ASSUME IInv, NEW c \in Calls, StartCall(c)
    PROVE  IInv'
<1> USE DEF IInv, StartCall, backend, CallMoves
<1>1. /\ access # None /\ call[c].at = "unused" /\ access = keychain
      /\ user = owner[access] /\ user # None /\ access \in Tokens /\ user \in Users
    BY NoneAssumption DEF TypeOK, Told
<1>2. /\ call[c] \in CallRecord
      /\ call'[c] = [call[c] EXCEPT !.at = "sent", !.token = access, !.user = user]
      /\ call' = [call EXCEPT ![c] = call'[c]]
    BY <1>1 DEF TypeOK
<1>3. /\ CallMoves(c, "sent", access,
                   user, call[c].reply,
                   call[c].acted)
    BY <1>1, <1>2, NoneAssumption
       DEF TypeOK, CallRecord, CallSteps
<1>4. TypeOK'
    BY <1>1, <1>2, <1>3 DEF TypeOK, Issued, TaskSteps, CallSteps
<1>5. Held'
    BY <1>1, <1>2, <1>3 DEF Held, RefreshHolds, CallHolds, SignOutHolds
<1>6. SigningIn'
    BY DEF SigningIn
<1>7. OneTask'
    BY DEF OneTask, Active, TypeOK
<1>8. Told'
    BY DEF Told
<1>9. InFlight'
    BY DEF InFlight, Fresh
<1>10. DeadIsNoticed'
    BY DEF DeadIsNoticed
<1>11. CallsAct'
    <2>1. call[c].acted = {} /\ waiting[c] = None
        BY <1>1 DEF CallsAct, OneTask
    <2> QED
        BY <1>1, <1>2, <1>3, <2>1, NoneAssumption DEF CallsAct, For, TypeOK
<1> QED
    BY <1>4, <1>5, <1>6, <1>7, <1>8, <1>9, <1>10, <1>11

LEMMA CallEndsStep ==
    ASSUME IInv, NEW c \in Calls, CallEnds(c)
    PROVE  IInv'
<1> USE DEF IInv, CallEnds, backend, CallMoves
<1>1. call[c].at \in {"replied", "rereplied"}
    BY DEF CallEnds
<1>2. /\ call[c] \in CallRecord /\ call'[c] = [call[c] EXCEPT !.at = "done"]
      /\ call' = [call EXCEPT ![c] = call'[c]]
    BY <1>1 DEF TypeOK
<1>3. /\ CallMoves(c, "done", call[c].token,
                   call[c].user, call[c].reply,
                   call[c].acted)
    BY <1>1, <1>2, NoneAssumption
       DEF TypeOK, CallRecord, CallSteps
<1>4. TypeOK'
    BY <1>1, <1>2, <1>3 DEF TypeOK, Issued, TaskSteps, CallSteps
<1>5. Held'
    BY DEF Held, RefreshHolds, CallHolds, SignOutHolds
<1>6. SigningIn'
    BY DEF SigningIn
<1>7. OneTask'
    BY DEF OneTask, Active
<1>8. Told'
    BY DEF Told
<1>9. InFlight'
    BY DEF InFlight, Fresh
<1>10. DeadIsNoticed'
    BY DEF DeadIsNoticed
<1>11. CallsAct'
    BY DEF CallsAct, For
<1> QED
    BY <1>4, <1>5, <1>6, <1>7, <1>8, <1>9, <1>10, <1>11

LEMMA ServeCallStep ==
    ASSUME IInv, NEW c \in Calls, ServeCall(c), ~Enqueued
    PROVE  IInv'
<1> USE DEF IInv, ServeCall, backend, CallMoves
<1>1. PICK reply \in {"ok", "unauthorized", "error"} :
          call' = [call EXCEPT
                     ![c].at = IF @ = "sent" THEN "replied" ELSE "rereplied",
                     ![c].reply = reply,
                     ![c].acted = @ \cup (IF call[c].token \in stale THEN {}
                                          ELSE {owner[call[c].token]})]
    OBVIOUS
<1>2. /\ call[c].at \in {"sent", "resent"}
      /\ call[c].token \in Tokens /\ owner[call[c].token] \in Users
    BY NoneAssumption
       DEF TypeOK, CallRecord, CallSteps, Held, RefreshHolds, CallHolds
<1>3. PICK did \in SUBSET {owner[call[c].token]} :
          call'[c] = [call[c] EXCEPT
                        !.at = IF call[c].at = "sent" THEN "replied" ELSE "rereplied",
                        !.reply = reply, !.acted = call[c].acted \cup did]
    BY <1>1 DEF TypeOK
<1>4. /\ call' = [call EXCEPT ![c] = call'[c]] /\ call[c] \in CallRecord
      /\ call[c].acted \cup did \in SUBSET Users
    BY <1>1, <1>2 DEF TypeOK, CallRecord
<1>5. PICK at \in CallSteps :
          /\ at = IF call[c].at = "sent" THEN "replied" ELSE "rereplied"
          /\ CallMoves(c, at, call[c].token, call[c].user, reply, call[c].acted \cup did)
    <2>1. PICK at \in CallSteps : at = IF call[c].at = "sent" THEN "replied" ELSE "rereplied"
        BY DEF CallSteps
    <2>2. call'[c] = [call[c] EXCEPT !.at = at, !.reply = reply,
                                     !.acted = call[c].acted \cup did]
        BY <1>3, <2>1
    <2>3. call'[c] \in CallRecord /\ call'[c].replaced = call[c].replaced
          /\ call'[c].at = at /\ call'[c].token = call[c].token
          /\ call'[c].user = call[c].user /\ call'[c].reply = reply
          /\ call'[c].acted = call[c].acted \cup did
        <3>1. reply \in {"ok", "unauthorized", "error"}
            OBVIOUS
        <3> HIDE DEF IInv, ServeCall, CallMoves
        <3> QED
            BY <1>4, <2>1, <2>2, <3>1 DEF CallRecord
    <2>4. call \in [Calls -> CallRecord]
        BY DEF TypeOK
    <2> HIDE DEF IInv, ServeCall, CallMoves
    <2> QED
        BY <1>4, <2>1, <2>3, <2>4, CallPut
<1>6. TypeOK'
    BY <1>1, <1>2, <1>3, <1>4, <1>5 DEF TypeOK, Issued, TaskSteps, CallSteps
<1>7. Held'
    BY DEF Held, RefreshHolds, CallHolds, SignOutHolds, TypeOK
<1>8. SigningIn'
    BY DEF SigningIn
<1>9. OneTask'
    BY DEF OneTask, Active, TypeOK
<1>10. Told'
    BY DEF Told
<1>11. InFlight'
    BY DEF InFlight, Fresh
<1>12. DeadIsNoticed'
    BY DEF DeadIsNoticed
<1>13. CallsAct'
    <2>1. refreshTask # None => refresh[refreshTask].at # "done"
        BY DEF OneTask, Enqueued, TypeOK
    <2>2. For(c, call[c].token) /\ waiting[c] = None
        BY <1>2 DEF CallsAct, OneTask
    <2>3. ASSUME NEW d \in Calls \ {c}, NEW r \in Refreshes, refresh[r].at = "done",
                 refresh[r].reply # None,
                 waiting[d] = r \/ (call[d].at = "replied" /\ refreshTask = r)
          PROVE  For(d, refresh[r].reply)
        BY <2>3 DEF CallsAct
    <2>4. \A d \in Calls \ {c} : call'[d] = call[d]
        BY <1>5
    <2>5. ASSUME NEW d \in Calls, NEW t PROVE For(d, t)' <=> For(d, t)
        BY <1>5, <2>4 DEF For
    <2>6. call'[c].at \in {"replied", "rereplied"}
          /\ call'[c].acted \subseteq call[c].acted \cup {owner[call[c].token]}
          /\ call'[c].user = call[c].user /\ call'[c].replaced = call[c].replaced
        BY <1>5
    <2>7. call'[c].acted \subseteq {call'[c].user} \/ call'[c].replaced
        BY <2>2, <2>6 DEF CallsAct, For
    <2>8. \A r \in Refreshes : refresh[r].at = "done" => refreshTask # r /\ waiting[c] # r
        BY <2>1, <2>2, NoneAssumption
    <2>9. CallsAct /\ UNCHANGED <<refresh, waiting, refreshTask>>
        OBVIOUS
    <2> HIDE DEF IInv, ServeCall, CallMoves
    <2> QED
        BY <2>3, <2>4, <2>5, <2>6, <2>7, <2>8, <2>9 DEF CallsAct
<1> QED
    BY <1>6, <1>7, <1>8, <1>9, <1>10, <1>11, <1>12, <1>13

LEMMA RejectRefreshStep ==
    ASSUME IInv, NEW r \in Refreshes, RejectRefresh(r)
    PROVE  IInv'
<1> USE DEF IInv, RejectRefresh, backend, RefreshMoves
<1>1. /\ refresh[r].at = "sent" /\ refresh[r].reply = None
      /\ RefreshMoves(r, "replied", refresh[r].token, refresh[r].reply)
    BY DEF TypeOK, RefreshRecord, TaskSteps, Held, RefreshHolds
<1>2. TypeOK'
    BY <1>1 DEF TypeOK, Issued, TaskSteps, CallSteps
<1>3. Held'
    BY DEF Held, RefreshHolds, CallHolds, SignOutHolds
<1>4. SigningIn'
    BY DEF SigningIn
<1>5. OneTask'
    BY DEF OneTask, Active
<1>6. Told'
    BY DEF Told
<1>7. InFlight'
    BY <1>1 DEF InFlight, Fresh
<1>8. DeadIsNoticed'
    BY DEF DeadIsNoticed
<1>9. CallsAct'
    BY DEF CallsAct, For
<1> QED
    BY <1>2, <1>3, <1>4, <1>5, <1>6, <1>7, <1>8, <1>9

LEMMA RejectSignInStep ==
    ASSUME IInv, RejectSignIn
    PROVE  IInv'
<1> USE DEF IInv, RejectSignIn, backend
<1>1. TypeOK'
    BY DEF TypeOK, Issued, TaskSteps, CallSteps
<1>2. Held'
    BY DEF Held, RefreshHolds, CallHolds, SignOutHolds
<1>3. SigningIn'
    BY DEF SigningIn
<1>4. OneTask'
    BY DEF OneTask, Active
<1>5. Told'
    BY DEF Told
<1>6. InFlight'
    BY DEF InFlight, Fresh
<1>7. DeadIsNoticed'
    BY DEF DeadIsNoticed
<1>8. CallsAct'
    BY DEF CallsAct, For
<1> QED
    BY <1>1, <1>2, <1>3, <1>4, <1>5, <1>6, <1>7, <1>8

LEMMA ExpireAccessStep ==
    ASSUME IInv, NEW t \in Tokens, ExpireAccess(t)
    PROVE  IInv'
<1> USE DEF IInv, ExpireAccess, app
<1>1. TypeOK'
    BY DEF TypeOK, Issued, TaskSteps, CallSteps
<1>2. Held'
    BY DEF Held, RefreshHolds, CallHolds, SignOutHolds
<1>3. SigningIn'
    BY DEF SigningIn
<1>4. OneTask'
    BY DEF OneTask, Active
<1>5. Told'
    BY DEF Told
<1>6. InFlight'
    BY DEF InFlight, Fresh
<1>7. DeadIsNoticed'
    BY DEF DeadIsNoticed
<1>8. CallsAct'
    BY DEF CallsAct, For
<1> QED
    BY <1>1, <1>2, <1>3, <1>4, <1>5, <1>6, <1>7, <1>8

LEMMA RestoreEnds ==
    ASSUME IInv, RestoreSession, keychain = None
    PROVE  IInv'
<1> USE DEF IInv, RestoreSession, ClearSessionState, backend
<1>1. TypeOK'
    BY DEF TypeOK, Issued, TaskSteps, CallSteps
<1>2. Held'
    BY DEF Held, RefreshHolds, CallHolds, SignOutHolds
<1>3. SigningIn'
    BY DEF SigningIn
<1>4. OneTask'
    BY DEF OneTask, Active
<1>5. Told'
    BY DEF Told
<1>6. InFlight'
    BY DEF InFlight, Fresh
<1>7. DeadIsNoticed'
    BY DEF DeadIsNoticed
<1>8. CallsAct'
    BY DEF CallsAct, For
<1> QED
    BY <1>1, <1>2, <1>3, <1>4, <1>5, <1>6, <1>7, <1>8

LEMMA RestoreAwaits ==
    ASSUME IInv, RestoreSession, keychain # None
    PROVE  IInv'
<1> USE DEF IInv, RestoreSession, backend, AwaitedBy
<1>1. checking /\ waiting[Restore] = None
    OBVIOUS
<1>2. AwaitedBy(Restore)
    BY Awaited DEF Waiters
<1>3. Restore \in Waiters /\ Restore \notin Calls
    BY RestoreAssumption DEF Waiters
<1>4. TypeOK'
    BY <1>1, <1>2, <1>3 DEF TypeOK, Issued, TaskSteps, CallSteps
<1>5. Held'
    <2>1. ASSUME NEW r \in Refreshes PROVE RefreshHolds(r)'
        BY <1>2, NoneAssumption DEF Held, RefreshHolds, TypeOK, RefreshRecord
    <2>2. ASSUME NEW c \in Calls PROVE CallHolds(c)'
        BY <1>2, NoneAssumption DEF Held, CallHolds, TypeOK, CallRecord
    <2>3. ASSUME NEW o \in SignOuts PROVE SignOutHolds(o)'
        BY <1>2, NoneAssumption DEF Held, SignOutHolds, TypeOK
    <2>4. /\ \A m \in adrift' : owner'[m.token] # None
          /\ keychain' # None => owner'[keychain'] # None
        BY <1>2, NoneAssumption DEF Held, TypeOK
    <2> QED
        BY <2>1, <2>2, <2>3, <2>4 DEF Held
<1>6. SigningIn'
    BY DEF SigningIn
<1>7. OneTask'
    BY <1>1, <1>2, <1>3, TaskAwaited
<1>8. Told'
    BY <1>1, <1>2, <1>3 DEF Told
<1>9. InFlight'
    <2>1. ASSUME NEW t, Fresh(t) PROVE Fresh(t)'
        BY <1>2, <2>1 DEF Fresh
    <2>2. \A r \in Refreshes : refresh'[r].at = "replied" =>
             refresh[r].at = "replied" /\ refresh'[r].reply = refresh[r].reply
        BY <1>2
    <2> QED
        BY <2>1, <2>2 DEF InFlight
<1>10. DeadIsNoticed'
    BY <1>1, <1>2, <1>3 DEF DeadIsNoticed
<1>11. CallsAct'
    <2>1. ASSUME NEW d \in Calls, NEW r \in Refreshes, refresh'[r].at = "done",
                 refresh'[r].reply # None,
                 waiting'[d] = r \/ (call[d].at = "replied" /\ refreshTask' = r)
          PROVE  For(d, refresh'[r].reply)
        BY <1>2, <1>3, <2>1 DEF CallsAct, Waiters
    <2>2. \A d \in Calls : \A t : For(d, t)' <=> For(d, t)
        BY DEF For
    <2> QED
        BY <2>1, <2>2 DEF CallsAct
<1> QED
    BY <1>4, <1>5, <1>6, <1>7, <1>8, <1>9, <1>10, <1>11

LEMMA SessionRestoredStep ==
    ASSUME IInv, SessionRestored
    PROVE  IInv'
<1> USE DEF IInv, SessionRestored, backend, ResumedBy
<1>1. Restore \in Waiters /\ \A c \in Calls : c \in Waiters /\ c # Restore
    BY RestoreAssumption DEF Waiters
<1>2. ResumedBy(Restore)
    BY <1>1, Resumption
<1>3. TypeOK'
    BY <1>1, <1>2 DEF TypeOK, Issued, TaskSteps, CallSteps
<1>4. Held'
    BY DEF Held, RefreshHolds, CallHolds, SignOutHolds
<1>5. SigningIn'
    BY DEF SigningIn
<1>6. OneTask'
    BY <1>1, <1>2, TaskResumed
<1>7. Told'
    BY <1>1, <1>2 DEF Told
<1>8. InFlight'
    BY DEF InFlight, Fresh
<1>9. DeadIsNoticed'
    BY DEF DeadIsNoticed
<1>10. CallsAct'
    BY <1>1, <1>2, NoneAssumption DEF CallsAct, For
<1> QED
    BY <1>3, <1>4, <1>5, <1>6, <1>7, <1>8, <1>9, <1>10

LEMMA CallUnauthorizedStep ==
    ASSUME IInv, NEW c \in Calls, CallUnauthorized(c)
    PROVE  IInv'
<1> USE DEF IInv, CallUnauthorized, backend, CallMoves, AwaitedBy
<1>1. call[c].at = "replied"
    BY DEF CallUnauthorized
<1>2. /\ call[c] \in CallRecord /\ call'[c] = [call[c] EXCEPT !.at = "waiting"]
      /\ call' = [call EXCEPT ![c] = call'[c]]
    BY <1>1 DEF TypeOK
<1>3. /\ CallMoves(c, "waiting", call[c].token,
                   call[c].user, call[c].reply,
                   call[c].acted)
    <2>1. call \in [Calls -> CallRecord]
        BY DEF TypeOK
    <2> HIDE DEF IInv, CallUnauthorized
    <2> QED
        BY <1>1, <1>2, <2>1 DEF CallRecord, CallSteps
<1>4. AwaitedBy(c)
    BY Awaited DEF Waiters
<1>5. c \in Waiters /\ Restore # c /\ waiting[c] = None
    BY <1>1, RestoreAssumption DEF Waiters, OneTask
<1>6. TypeOK'
    BY <1>1, <1>2, <1>3, <1>4, <1>5 DEF TypeOK, Issued, TaskSteps, CallSteps
<1>7. Held'
    BY <1>1, <1>2, <1>3, <1>4, <1>5 DEF Held, RefreshHolds, CallHolds, SignOutHolds
<1>8. SigningIn'
    BY DEF SigningIn
<1>9. OneTask'
    BY <1>1, <1>2, <1>3, <1>4, <1>5, TaskAwaited
<1>10. Told'
    BY DEF Told
<1>11. InFlight'
    BY <1>1, <1>2, <1>3, <1>4, <1>5 DEF InFlight, Fresh
<1>12. DeadIsNoticed'
    BY <1>1, <1>2, <1>3, <1>4, <1>5 DEF DeadIsNoticed
<1>13. CallsAct'
    <2>1. ASSUME NEW d \in Calls, NEW r \in Refreshes, refresh'[r].at = "done",
                 refresh'[r].reply # None,
                 waiting'[d] = r \/ (call'[d].at = "replied" /\ refreshTask' = r)
          PROVE  For(d, refresh[r].reply)
        BY <1>1, <1>3, <1>4, <1>5, <2>1 DEF CallsAct, Waiters
    <2>2. ASSUME NEW d \in Calls, NEW t, For(d, t) PROVE For(d, t)'
        BY <1>3, <2>2 DEF For
    <2>3. \A r \in Refreshes : refresh'[r].reply = refresh[r].reply
        BY <1>4
    <2> QED
        BY <1>3, <2>1, <2>2, <2>3 DEF CallsAct
<1> QED
    BY <1>6, <1>7, <1>8, <1>9, <1>10, <1>11, <1>12, <1>13

LEMMA CallRetriesStep ==
    ASSUME IInv, NEW c \in Calls, CallRetries(c)
    PROVE  IInv'
<1> USE DEF IInv, CallRetries, backend, CallMoves, ResumedBy
<1>1. c \in Waiters /\ c # Restore
    BY RestoreAssumption DEF Waiters
<1>2. ResumedBy(c)
    BY <1>1, Resumption
<1>3. PICK at \in {"done", "resent"}, token \in Tokens \cup {None} :
          /\ call'[c] = [call[c] EXCEPT !.at = at, !.token = token]
          /\ call' = [call EXCEPT ![c] = call'[c]]
          /\ at = "resent" => token # None /\ token = refresh[waiting[c]].reply
    <2>1. call[c] \in CallRecord /\ refresh[waiting[c]] \in RefreshRecord
        BY <1>2 DEF TypeOK
    <2>2. CASE refresh[waiting[c]].reply = None
        <3>1. call' = [call EXCEPT ![c].at = "done"]
            BY <2>2
        <3>2. call'[c] = [call[c] EXCEPT !.at = "done"] /\ call' = [call EXCEPT ![c] = call'[c]]
            BY <3>1 DEF TypeOK
        <3>3. call'[c] = [call[c] EXCEPT !.at = "done", !.token = call[c].token]
            BY <2>1, <3>2 DEF CallRecord
        <3>4. call[c].token \in Tokens \cup {None}
            BY <2>1 DEF CallRecord
        <3> QED
            BY <3>2, <3>3, <3>4
    <2>3. CASE refresh[waiting[c]].reply # None
        <3>1. call' = [call EXCEPT ![c].at = "resent", ![c].token = refresh[waiting[c]].reply]
            BY <2>3
        <3> QED
            BY <2>1, <2>3, <3>1 DEF TypeOK, RefreshRecord
    <2> QED
        BY <2>2, <2>3
<1>4. CallMoves(c, at, token, call[c].user, call[c].reply, call[c].acted)
    <2>1. call[c] \in CallRecord
        BY DEF TypeOK
    <2>2. call'[c] \in CallRecord /\ call'[c].replaced = call[c].replaced
          /\ call'[c].at = at /\ call'[c].token = token
          /\ call'[c].user = call[c].user /\ call'[c].reply = call[c].reply
          /\ call'[c].acted = call[c].acted
        <3>1. at \in CallSteps /\ token \in Tokens \cup {None}
            BY DEF CallSteps
        <3> HIDE DEF IInv, CallRetries, CallMoves
        <3> QED
            BY <1>3, <2>1, <3>1 DEF CallRecord
    <2>3. call \in [Calls -> CallRecord]
        BY DEF TypeOK
    <2> HIDE DEF IInv, CallRetries, CallMoves
    <2> QED
        BY <1>3, <2>2, <2>3, CallPut
<1>5. /\ call[c].at = "waiting"
      /\ at = "resent" => For(c, token) /\ owner[token] # None /\ token # None
    BY <1>1, <1>2, <1>3, NoneAssumption DEF CallsAct, OneTask, Held, RefreshHolds, CallHolds
<1>6. TypeOK'
    BY <1>1, <1>2, <1>3, <1>4, <1>5 DEF TypeOK, Issued, TaskSteps, CallSteps
<1>7. Held'
    <2>1. ASSUME NEW d \in Calls PROVE CallHolds(d)'
        BY <1>3, <1>4, <1>5 DEF Held, CallHolds
    <2>2. /\ \A r \in Refreshes : RefreshHolds(r)'
          /\ \A o \in SignOuts : SignOutHolds(o)'
        BY DEF Held, RefreshHolds, SignOutHolds
    <2> QED
        BY <2>1, <2>2 DEF Held
<1>8. SigningIn'
    BY DEF SigningIn
<1>9. OneTask'
    BY <1>1, <1>2, <1>4, TaskResumed
<1>10. Told'
    BY <1>1, <1>2, <1>3, <1>4, <1>5 DEF Told
<1>11. InFlight'
    BY DEF InFlight, Fresh
<1>12. DeadIsNoticed'
    BY DEF DeadIsNoticed
<1>13. CallsAct'
    <2>1. ASSUME NEW d \in Calls, NEW t PROVE For(d, t)' <=> For(d, t)
        BY <1>4 DEF For
    <2>2. ASSUME NEW d \in Calls, NEW r \in Refreshes, refresh[r].at = "done",
                 refresh[r].reply # None,
                 waiting'[d] = r \/ (call'[d].at = "replied" /\ refreshTask' = r)
          PROVE  For(d, refresh[r].reply)
        BY <1>1, <1>2, <1>3, <1>4, <2>2, NoneAssumption DEF CallsAct, Waiters
    <2>3. ASSUME NEW d \in Calls
          PROVE  /\ call'[d].acted = call[d].acted /\ call'[d].user = call[d].user
                 /\ call'[d].replaced = call[d].replaced
                 /\ call'[d].at = "unused" => call[d].at = "unused"
                 /\ call'[d].at \in {"sent", "resent"} => For(d, call'[d].token)
        BY <1>3, <1>4, <1>5 DEF CallsAct
    <2>4. UNCHANGED <<refresh, owner>>
        OBVIOUS
    <2> HIDE DEF CallRetries, CallMoves, ResumedBy
    <2> QED
        BY <2>1, <2>2, <2>3, <2>4 DEF CallsAct
<1> QED
    BY <1>6, <1>7, <1>8, <1>9, <1>10, <1>11, <1>12, <1>13

LEMMA ServeRefreshStep ==
    ASSUME IInv, NEW r \in Refreshes, ServeRefresh(r)
    PROVE  IInv'
<1> USE DEF IInv, ServeRefresh, RefreshMoves, MintedFor
<1>1. PICK n \in Tokens, reply \in Tokens \cup {None} :
          /\ Mint(n, owner[refresh[r].token], {refresh[r].token})
          /\ reply \in {n, None}
          /\ refresh' = [refresh EXCEPT ![r].at = "replied", ![r].reply = reply]
    OBVIOUS
<1>2. refresh[r].at = "sent" /\ refresh[r].token \in Tokens /\ owner[refresh[r].token] \in Users
    BY NoneAssumption DEF TypeOK, RefreshRecord, Held, RefreshHolds, CallHolds
<1>3. MintedFor(n, owner[refresh[r].token], {refresh[r].token})
    BY <1>1, <1>2, Minted
<1>4. RefreshMoves(r, "replied", refresh[r].token, reply)
    <2>1. /\ refresh[r] \in RefreshRecord
          /\ refresh'[r] = [refresh[r] EXCEPT !.at = "replied", !.reply = reply]
          /\ refresh' = [refresh EXCEPT ![r] = refresh'[r]]
        BY <1>1 DEF TypeOK
    <2> QED
        BY <1>1, <2>1 DEF TypeOK, RefreshRecord, TaskSteps
<1>5. TypeOK'
    BY <1>1, <1>2, <1>3, <1>4 DEF TypeOK, Issued, TaskSteps, CallSteps
<1>6. Held'
    <2>1. ASSUME NEW s \in Refreshes PROVE RefreshHolds(s)'
        BY <1>1, <1>2, <1>3, <1>4, NoneAssumption
           DEF Held, RefreshHolds, TypeOK, RefreshRecord
    <2>2. ASSUME NEW c \in Calls PROVE CallHolds(c)'
        BY <1>1, <1>2, <1>3, <1>4, NoneAssumption DEF Held, CallHolds, TypeOK, CallRecord
    <2>3. ASSUME NEW o \in SignOuts PROVE SignOutHolds(o)'
        BY <1>1, <1>2, <1>3, <1>4, NoneAssumption DEF Held, SignOutHolds, TypeOK
    <2>4. /\ \A m \in adrift' : owner'[m.token] # None
          /\ keychain' # None => owner'[keychain'] # None
        BY <1>1, <1>2, <1>3, <1>4, NoneAssumption DEF Held, TypeOK
    <2> QED
        BY <2>1, <2>2, <2>3, <2>4 DEF Held
<1>7. SigningIn'
    BY <1>1, <1>2, <1>3, <1>4 DEF SigningIn, TypeOK
<1>8. OneTask'
    BY DEF OneTask, Active, TypeOK
<1>9. Told'
    BY <1>1, <1>2, <1>3, <1>4 DEF Told, TypeOK
<1>10. InFlight'
    <2>1. ASSUME NEW t \in Tokens, owner[t] # None, Fresh(t), t # refresh[r].token
          PROVE  Fresh(t)'
        BY <1>3, <1>4, <2>1 DEF Fresh
    <2>2. reply = n => Fresh(n)'
        BY <1>1, <1>2, <1>3, <1>4, NoneAssumption
           DEF Fresh, Held, RefreshHolds, SignOutHolds, TypeOK, RefreshRecord
    <2>3. \A s \in Refreshes \ {r} : refresh[s].at # "replied"
        BY <1>2 DEF OneTask, Active
    <2>4. signIn.reply # None => /\ signIn.reply \in Tokens /\ owner[signIn.reply] # None
                                /\ Fresh(signIn.reply) /\ signIn.reply # refresh[r].token
        BY <1>2, NoneAssumption DEF InFlight, SigningIn, TypeOK, Fresh
    <2>5. signIn.reply # None => Fresh(signIn.reply)' /\ signIn.reply # n
        BY <1>3, <2>1, <2>4
    <2> QED
        BY <1>1, <1>4, <2>2, <2>3, <2>5, NoneAssumption DEF InFlight
<1>11. DeadIsNoticed'
    BY DEF DeadIsNoticed, TypeOK
<1>12. CallsAct'
    <2>1. ASSUME NEW c \in Calls, NEW t \in Tokens, owner[t] # None, For(c, t)
          PROVE  For(c, t)'
        BY <1>1, <1>2, <1>3, <1>4, <2>1 DEF For
    <2> QED
        BY <1>1, <1>2, <1>3, <1>4, <2>1, NoneAssumption
           DEF CallsAct, Held, RefreshHolds, CallHolds, TypeOK, RefreshRecord, CallRecord
<1> QED
    BY <1>5, <1>6, <1>7, <1>8, <1>9, <1>10, <1>11, <1>12

LEMMA ServeSignInStep ==
    ASSUME IInv, ServeSignIn
    PROVE  IInv'
<1> USE DEF IInv, ServeSignIn, MintedFor
<1>1. PICK n \in Tokens, reply \in Tokens \cup {None} :
          /\ Mint(n, signIn.user, {})
          /\ reply \in {n, None}
          /\ signIn' = [signIn EXCEPT !.at = "replied", !.reply = reply]
    OBVIOUS
<1>2. /\ signIn.at = "sent" /\ signIn.user \in Users /\ signIn.reply = None
      /\ signIn'.at = "replied" /\ signIn'.user = signIn.user /\ signIn'.reply = reply
    BY <1>1, NoneAssumption DEF TypeOK, SigningIn
<1>3. MintedFor(n, signIn.user, {})
    BY <1>1, <1>2, Minted
<1>4. TypeOK'
    BY <1>1, <1>2, <1>3 DEF TypeOK, Issued, TaskSteps, CallSteps
<1>5. Held'
    <2>1. ASSUME NEW r \in Refreshes PROVE RefreshHolds(r)'
        BY <1>1, <1>2, <1>3, NoneAssumption DEF Held, RefreshHolds, TypeOK, RefreshRecord
    <2>2. ASSUME NEW c \in Calls PROVE CallHolds(c)'
        BY <1>1, <1>2, <1>3, NoneAssumption DEF Held, CallHolds, TypeOK, CallRecord
    <2>3. ASSUME NEW o \in SignOuts PROVE SignOutHolds(o)'
        BY <1>1, <1>2, <1>3, NoneAssumption DEF Held, SignOutHolds, TypeOK
    <2>4. /\ \A m \in adrift' : owner'[m.token] # None
          /\ keychain' # None => owner'[keychain'] # None
        BY <1>1, <1>2, <1>3, NoneAssumption DEF Held, TypeOK
    <2> QED
        BY <2>1, <2>2, <2>3, <2>4 DEF Held
<1>6. SigningIn'
    BY <1>1, <1>2, <1>3 DEF SigningIn
<1>7. OneTask'
    BY DEF OneTask, Active
<1>8. Told'
    BY <1>1, <1>2, <1>3 DEF Told, TypeOK
<1>9. InFlight'
    <2>1. ASSUME NEW t \in Tokens, owner[t] # None, Fresh(t) PROVE Fresh(t)'
        BY <1>1, <1>3, <2>1 DEF Fresh
    <2>2. reply = n => Fresh(n)'
        BY <1>1, <1>3, NoneAssumption
           DEF Fresh, Held, RefreshHolds, SignOutHolds, TypeOK, RefreshRecord
    <2>3. ASSUME NEW r \in Refreshes, refresh[r].at = "replied", refresh[r].reply # None
          PROVE  Fresh(refresh[r].reply)' /\ refresh[r].reply # n
        <3>1. /\ refresh[r].reply \in Tokens /\ owner[refresh[r].reply] # None
              /\ Fresh(refresh[r].reply)
            BY <2>3 DEF InFlight, Held, RefreshHolds, TypeOK, RefreshRecord
        <3> QED
            BY <1>3, <2>1, <3>1
    <2> QED
        BY <1>1, <1>2, <2>2, <2>3, NoneAssumption DEF InFlight
<1>10. DeadIsNoticed'
    BY <1>1, <1>2, <1>3 DEF DeadIsNoticed
<1>11. CallsAct'
    <2>1. ASSUME NEW c \in Calls, NEW t \in Tokens, owner[t] # None, For(c, t)
          PROVE  For(c, t)'
        BY <1>1, <1>2, <1>3, <2>1 DEF For
    <2> QED
        BY <1>1, <1>2, <1>3, <2>1, NoneAssumption
           DEF CallsAct, Held, RefreshHolds, CallHolds, TypeOK, RefreshRecord, CallRecord
<1> QED
    BY <1>4, <1>5, <1>6, <1>7, <1>8, <1>9, <1>10, <1>11

LEMMA ServeSignOutStep ==
    ASSUME IInv, NEW o \in SignOuts, ServeSignOut(o)
    PROVE  IInv'
<1> USE DEF IInv, ServeSignOut, backend
<1>1. TypeOK'
    BY DEF TypeOK, Issued, TaskSteps, CallSteps
<1>2. Held'
    BY DEF Held, RefreshHolds, CallHolds, SignOutHolds
<1>3. SigningIn'
    BY DEF SigningIn
<1>4. OneTask'
    BY DEF OneTask, Active
<1>5. Told'
    BY DEF Told
<1>6. InFlight'
    BY DEF InFlight, Fresh
<1>7. DeadIsNoticed'
    BY DEF DeadIsNoticed, TypeOK
<1>8. CallsAct'
    BY DEF CallsAct, For
<1> QED
    BY <1>1, <1>2, <1>3, <1>4, <1>5, <1>6, <1>7, <1>8

LEMMA AdriftEnds ==
    ASSUME IInv, NEW m \in adrift, ServeAdrift(m), m.op = "logout" \/ m.token \notin live
    PROVE  IInv'
<1> USE DEF IInv, ServeAdrift, app
<1>1. TypeOK'
    BY DEF TypeOK, Issued, TaskSteps, CallSteps
<1>2. Held'
    BY DEF Held, RefreshHolds, CallHolds, SignOutHolds
<1>3. SigningIn'
    BY DEF SigningIn
<1>4. OneTask'
    BY DEF OneTask, Active
<1>5. Told'
    BY DEF Told
<1>6. InFlight'
    BY DEF InFlight, Fresh
<1>7. DeadIsNoticed'
    BY DEF DeadIsNoticed
<1>8. CallsAct'
    BY DEF CallsAct, For
<1> QED
    BY <1>1, <1>2, <1>3, <1>4, <1>5, <1>6, <1>7, <1>8

LEMMA AdriftRefreshes ==
    ASSUME IInv, NEW m \in adrift, ServeAdrift(m), ~(m.op = "logout" \/ m.token \notin live)
    PROVE  IInv'
<1> USE DEF IInv, ServeAdrift, app, MintedFor
<1>1. PICK n \in Tokens : Mint(n, owner[m.token], {m.token}) /\ adrift' = adrift \ {m}
    OBVIOUS
<1>2. m.token \in Tokens /\ owner[m.token] \in Users
    BY NoneAssumption DEF TypeOK, Held, RefreshHolds, CallHolds
<1>3. MintedFor(n, owner[m.token], {m.token})
    BY <1>1, <1>2, Minted
<1>4. TypeOK'
    BY <1>1, <1>2, <1>3 DEF TypeOK, Issued, TaskSteps, CallSteps
<1>5. Held'
    <2>1. ASSUME NEW r \in Refreshes PROVE RefreshHolds(r)'
        BY <1>1, <1>2, <1>3, NoneAssumption DEF Held, RefreshHolds, TypeOK, RefreshRecord
    <2>2. ASSUME NEW c \in Calls PROVE CallHolds(c)'
        BY <1>1, <1>2, <1>3, NoneAssumption DEF Held, CallHolds, TypeOK, CallRecord
    <2>3. ASSUME NEW o \in SignOuts PROVE SignOutHolds(o)'
        BY <1>1, <1>2, <1>3, NoneAssumption DEF Held, SignOutHolds, TypeOK
    <2>4. /\ \A k \in adrift' : owner'[k.token] # None
          /\ keychain' # None => owner'[keychain'] # None
        BY <1>1, <1>2, <1>3, NoneAssumption DEF Held, TypeOK
    <2> QED
        BY <2>1, <2>2, <2>3, <2>4 DEF Held
<1>6. SigningIn'
    BY <1>1, <1>2, <1>3 DEF SigningIn, TypeOK
<1>7. OneTask'
    BY DEF OneTask, Active
<1>8. Told'
    BY <1>1, <1>2, <1>3 DEF Told, TypeOK
<1>9. InFlight'
    BY <1>1, <1>2, <1>3 DEF InFlight, Fresh
<1>10. DeadIsNoticed'
    BY <1>1, <1>2, <1>3 DEF DeadIsNoticed
<1>11. CallsAct'
    <2>1. ASSUME NEW c \in Calls, NEW t \in Tokens, owner[t] # None, For(c, t)
          PROVE  For(c, t)'
        BY <1>1, <1>2, <1>3, <2>1 DEF For
    <2> QED
        BY <1>1, <1>2, <1>3, <2>1, NoneAssumption
           DEF CallsAct, Held, RefreshHolds, CallHolds, TypeOK, RefreshRecord, CallRecord
<1> QED
    BY <1>4, <1>5, <1>6, <1>7, <1>8, <1>9, <1>10, <1>11

LEMMA KillStep ==
    ASSUME IInv, Kill
    PROVE  IInv'
<1> USE DEF IInv, Kill, Volatile, NoSignIn
<1>1. /\ access' = None /\ user' = None /\ checking' = TRUE /\ refreshTask' = None
      /\ launches' \in 1..MaxLaunches
      /\ \A w \in Waiters : waiting'[w] = None
      /\ signIn'.at = "unused" /\ signIn'.user = None /\ signIn'.reply = None
    BY LaunchesAssumption DEF TypeOK
<1>2. /\ refresh' \in [Refreshes -> RefreshRecord]
      /\ \A r \in Refreshes : /\ refresh'[r].at = IF refresh[r].at = "unused" THEN "unused" ELSE "done"
                              /\ refresh'[r].token = refresh[r].token
                              /\ refresh'[r].reply = refresh[r].reply
    BY DEF TypeOK, RefreshRecord, TaskSteps
<1>3. /\ call' \in [Calls -> CallRecord]
      /\ \A c \in Calls : /\ call'[c].at = IF call[c].at = "unused" THEN "unused" ELSE "done"
                          /\ call'[c].token = call[c].token /\ call'[c].user = call[c].user
                          /\ call'[c].acted = call[c].acted /\ call'[c].replaced = call[c].replaced
    <2>1. ASSUME NEW c \in Calls
          PROVE  /\ call'[c] \in CallRecord
                 /\ call'[c].at = IF call[c].at = "unused" THEN "unused" ELSE "done"
                 /\ call'[c].token = call[c].token /\ call'[c].user = call[c].user
                 /\ call'[c].acted = call[c].acted /\ call'[c].replaced = call[c].replaced
        <3>1. call[c] \in CallRecord
            BY DEF TypeOK
        <3> QED
            BY <3>1 DEF CallRecord, CallSteps
    <2>2. call' = [c \in Calls |-> call'[c]]
        OBVIOUS
    <2> QED
        BY <2>1, <2>2
<1>4. /\ signOut' \in [SignOuts -> [at : TaskSteps, token : Tokens \cup {None}]]
      /\ \A o \in SignOuts : /\ signOut'[o].at = IF signOut[o].at = "unused" THEN "unused" ELSE "done"
                             /\ signOut'[o].token = signOut[o].token
    BY DEF TypeOK, TaskSteps
<1>5. \A m \in adrift' : /\ m \in [op : {"refresh", "logout"}, token : Tokens]
                          /\ owner[m.token] # None
    <2> SUFFICES ASSUME NEW m \in adrift'
                 PROVE  /\ m \in [op : {"refresh", "logout"}, token : Tokens]
                        /\ owner[m.token] # None
        OBVIOUS
    <2>1. CASE m \in adrift
        BY <2>1 DEF TypeOK, Held
    <2>2. CASE \E r \in Refreshes : refresh[r].at = "sent"
                   /\ m = [op |-> "refresh", token |-> refresh[r].token]
        BY <2>2 DEF TypeOK, RefreshRecord, Held, RefreshHolds
    <2>3. CASE \E o \in SignOuts : signOut[o].at = "sent"
                   /\ m = [op |-> "logout", token |-> signOut[o].token]
        BY <2>3 DEF TypeOK, Held, SignOutHolds
    <2> QED
        BY <2>1, <2>2, <2>3
<1>6. TypeOK'
    BY <1>1, <1>2, <1>3, <1>4, <1>5 DEF TypeOK, Issued, TaskSteps, CallSteps
<1>7. Held'
    BY DEF Held, RefreshHolds, CallHolds, SignOutHolds
<1>8. SigningIn'
    BY DEF SigningIn
<1>9. OneTask'
    BY DEF OneTask, Active, Waiters
<1>10. Told'
    BY DEF Told, Waiters
<1>11. InFlight'
    BY DEF InFlight, Fresh
<1>12. DeadIsNoticed'
    BY DEF DeadIsNoticed
<1>13. CallsAct'
    <2>1. \A c \in Calls : waiting'[c] = None
        BY <1>1 DEF Waiters
    <2> QED
        BY <1>1, <1>2, <1>3, <2>1, NoneAssumption DEF CallsAct, For
<1> QED
    BY <1>6, <1>7, <1>8, <1>9, <1>10, <1>11, <1>12, <1>13

-----------------------------------------------------------------------------
(* The theorems *)

LEMMA InitInv == Init => IInv
<1> SUFFICES ASSUME Init PROVE IInv
    OBVIOUS
<1> USE NoneAssumption DEF Init, NoRefresh, NoCall, NoSignIn, NoSignOut
<1>1. TypeOK
    BY LaunchesAssumption
       DEF TypeOK, RefreshRecord, CallRecord, TaskSteps, CallSteps, Issued
<1>2. Held
    BY DEF Held, RefreshHolds, CallHolds, SignOutHolds
<1>3. SigningIn /\ Told
    BY DEF SigningIn, Told
<1>4. OneTask
    BY DEF OneTask, Active, Waiters
<1>5. InFlight /\ DeadIsNoticed /\ CallsAct
    BY DEF InFlight, DeadIsNoticed, CallsAct
<1> QED
    BY <1>1, <1>2, <1>3, <1>4, <1>5 DEF IInv

LEMMA NextInv == IInv /\ [Next]_vars => IInv'
<1> SUFFICES ASSUME IInv, [Next]_vars PROVE IInv'
    OBVIOUS
<1>1. CASE RunRestore
    BY <1>1, RestoreEnds, RestoreAwaits, SessionRestoredStep DEF RunRestore
<1>2. CASE SignedIn
    BY <1>2, SignedInStep
<1>3. CASE UserActs
    BY <1>3, SignInStep, SignOutStep, StartCallStep DEF UserActs
<1>4. CASE NetworkSignIn
    BY <1>4, ServeSignInStep, RejectSignInStep DEF NetworkSignIn
<1>5. CASE Kill
    BY <1>5, KillStep
<1>6. CASE \E r \in Refreshes : RunRefresh(r) \/ NetworkRefresh(r)
    BY <1>6, StartRefreshSends, StartRefreshFails, RefreshFailedStep, RefreshSucceededStep,
       ServeRefreshStep, RejectRefreshStep DEF RunRefresh, NetworkRefresh
<1>7. CASE \E o \in SignOuts : RunSignOut(o) \/ NetworkSignOut(o)
    BY <1>7, StartSignOutSends, StartSignOutEnds, SignedOutStep, ServeSignOutStep
       DEF RunSignOut, NetworkSignOut
<1>8. CASE \E c \in Calls : RunCall(c) \/ NetworkCall(c)
    BY <1>8, CallEndsStep, CallUnauthorizedStep, CallRetriesStep, ServeCallStep
       DEF RunCall, NetworkCall
<1>9. CASE \E t \in Tokens : ExpireAccess(t)
    BY <1>9, ExpireAccessStep
<1>10. CASE \E m \in adrift : ServeAdrift(m)
    BY <1>10, AdriftEnds, AdriftRefreshes
<1>11. CASE UNCHANGED vars
    BY <1>11 DEF vars, app, backend, IInv, TypeOK, Issued, Held, RefreshHolds, CallHolds,
       SignOutHolds, SigningIn, OneTask, Told, InFlight, Fresh, DeadIsNoticed, CallsAct, For
<1> QED
    BY <1>1, <1>2, <1>3, <1>4, <1>5, <1>6, <1>7, <1>8, <1>9, <1>10, <1>11 DEF Next

\* In every state the app can reach, memory, Keychain, the tasks in flight and
\* the backend's ledger of tokens fit together.
THEOREM Invariance == Spec => []IInv
    BY InitInv, NextInv, PTL DEF Spec

\* Every variable of the session has its type, and a client that is signed in
\* knows its user.
THEOREM TypeCorrect == Spec => []TypeOK
<1>1. IInv => TypeOK
    BY DEF IInv
<1> QED
    BY <1>1, Invariance, PTL

\* refreshAccessToken is single flight: at most one refresh runs at any time.
THEOREM RefreshesOnce == Spec => []SingleFlight
<1>1. IInv => SingleFlight
    <2> SUFFICES ASSUME IInv PROVE SingleFlight
        OBVIOUS
    <2> DEFINE busy == {r \in Refreshes : refresh[r].at \in {"scheduled", "sent", "replied"}}
    <2>1. busy \subseteq {refreshTask}
        BY DEF IInv, OneTask, Active
    <2>2. IsFiniteSet({refreshTask}) /\ Cardinality({refreshTask}) = 1
        BY FS_Singleton
    <2>3. Cardinality(busy) <= 1
        BY <2>1, <2>2, FS_Subset
    <2> QED
        BY <2>3 DEF SingleFlight
<1> QED
    BY <1>1, Invariance, PTL

\* Memory and Keychain never tell two stories about the session.
THEOREM OneStory == Spec => []StoredIsUsed
<1>1. IInv => StoredIsUsed
    BY DEF IInv, Told, StoredIsUsed
<1> QED
    BY <1>1, Invariance, PTL

\* A client that is signed in and at rest holds a token the backend accepts.
THEOREM SessionsAreAlive == Spec => []SignedInHoldsLiveToken
<1>1. IInv => SignedInHoldsLiveToken
    BY DEF IInv, DeadIsNoticed, SignedInHoldsLiveToken, Resting
<1> QED
    BY <1>1, Invariance, PTL

\* A request of BackendAPIService, retried or not, acts for the user that
\* started it, unless the session changed hands while it was in flight.
THEOREM RequestsActForTheirCaller == Spec => []ActsForCaller
<1>1. IInv => ActsForCaller
    BY DEF IInv, CallsAct, ActsForCaller
<1> QED
    BY <1>1, Invariance, PTL
=============================================================================
