------------------------------- MODULE Purchases -------------------------------
(***************************************************************************)
(* RevenueCat's identity in the iOS app: PurchaseService, and the          *)
(* `.task(id: authService.userId)` of StarterAppApp that keeps it in step  *)
(* with the session.                                                       *)
(*                                                                         *)
(* SwiftUI starts a task whenever the id has changed and cancels the one   *)
(* before without awaiting it; the SDK's calls do not look at              *)
(* cancellation.  The SDK sends its requests one after the other; a log-in *)
(* changes its identity when it is answered, a log-out at once.            *)
(***************************************************************************)
EXTENDS Naturals, Sequences

CONSTANTS Users,
          Anonymous,  \* the identity of a device nobody is logged in on
          Nobody,     \* no user, no customerInfo
          Syncs,      \* runs of the view's task
          Buys        \* purchases and restores

VARIABLES
    user,      \* AuthService.userId
    shown,     \* the id the view's task was last started for; Syncs if never
    sync,      \* sync[s]: the calls of identify and reset
    buy,       \* buy[b]: a call of purchase or restorePurchases
    identity,  \* Purchases.shared.appUserID
    queue,     \* the requests of the SDK that are not answered yet
    info,      \* whose customerInfo the app shows
    offered,   \* availablePackages is not empty
    synced,    \* the last sync that ended was a log-in that succeeded (history)
    entitled   \* the identities to which RevenueCat has written an entitlement

pvars == <<user, shown, sync, buy, identity, queue, info, offered, synced, entitled>>

Identities == Users \cup {Anonymous}
NoSync == [at |-> "unused", as |-> Nobody]
NoBuy == [at |-> "unused", by |-> Nobody, on |-> Nobody, settled |-> FALSE]

Init ==
    /\ user = Nobody /\ shown = Syncs
    /\ sync = [s \in Syncs |-> NoSync]
    /\ buy = [b \in Buys |-> NoBuy]
    /\ identity = Anonymous /\ queue = <<>> /\ info = Nobody
    /\ offered = FALSE /\ synced = FALSE /\ entitled = {}

\* The view shows the user there is, and its task has been started for them.
\* Both are jobs of the main queue and run before the next reply of the network.
Drawn == shown = user /\ \A s \in Syncs : sync[s].at # "scheduled"

\* No task of the view is under way, nor due.
AtRest == Drawn /\ \A s \in Syncs : sync[s].at # "sent"

-----------------------------------------------------------------------------
(* The session and the view *)

\* A sign-in, a sign-out, or a reply that passes the session to another user.
SessionChanges(u) ==
    /\ Drawn
    /\ u # user
    /\ user' = u
    /\ buy' = [b \in Buys |-> [buy[b] EXCEPT !.settled = FALSE]]
    /\ UNCHANGED <<shown, sync, identity, queue, info, offered, synced, entitled>>

\* The view is updated and finds the id changed.
ViewUpdates(s) ==
    /\ shown # user
    /\ sync[s].at = "unused"
    /\ shown' = user
    /\ sync' = [sync EXCEPT ![s].at = "scheduled"]
    /\ UNCHANGED <<user, buy, identity, queue, info, offered, synced, entitled>>

-----------------------------------------------------------------------------
(* identify and reset *)

Identify(s) ==
    /\ sync[s].at = "scheduled"
    /\ user # Nobody
    /\ sync' = [sync EXCEPT ![s] = [at |-> "sent", as |-> user]]
    /\ queue' = Append(queue, [op |-> "logIn", for |-> s, as |-> user])
    /\ UNCHANGED <<user, shown, buy, identity, info, offered, synced, entitled>>

\* The SDK refuses to log an anonymous user out: customerInfo is cleared.
Reset(s) ==
    /\ sync[s].at = "scheduled"
    /\ user = Nobody
    /\ \/ /\ identity = Anonymous
          /\ sync' = [sync EXCEPT ![s].at = "done"]
          /\ info' = Nobody
          /\ synced' = FALSE
          /\ UNCHANGED <<identity, queue>>
       \/ /\ identity # Anonymous
          /\ identity' = Anonymous
          /\ queue' = Append(queue, [op |-> "logOut", for |-> s, as |-> Anonymous])
          /\ sync' = [sync EXCEPT ![s].at = "sent"]
          /\ UNCHANGED <<info, synced>>
    /\ UNCHANGED <<user, shown, buy, offered, entitled>>

\* Slip: a log-in that failed is taken for one that succeeded.
SyncFailsAsSuccess ==
    /\ queue # <<>> /\ Head(queue).op \in {"logIn", "logOut"}
    /\ queue' = Tail(queue)
    /\ sync' = [sync EXCEPT ![Head(queue).for].at = "done"]
    /\ info' = Head(queue).as
    /\ synced' = (Head(queue).op = "logIn")
    /\ UNCHANGED <<user, shown, buy, identity, offered, entitled>>

\* An error of identify is logged and leaves customerInfo as it was.
SyncFails ==
    /\ queue # <<>> /\ Head(queue).op \in {"logIn", "logOut"}
    /\ queue' = Tail(queue)
    /\ sync' = [sync EXCEPT ![Head(queue).for].at = "done"]
    /\ info' = IF Head(queue).op = "logIn" THEN info ELSE Nobody
    /\ synced' = FALSE
    /\ UNCHANGED <<user, shown, buy, identity, offered, entitled>>

SyncSucceeds ==
    /\ queue # <<>> /\ Head(queue).op \in {"logIn", "logOut"}
    /\ queue' = Tail(queue)
    /\ sync' = [sync EXCEPT ![Head(queue).for].at = "done"]
    /\ identity' = IF Head(queue).op = "logIn" THEN Head(queue).as ELSE identity
    /\ info' = Head(queue).as
    /\ synced' = (Head(queue).op = "logIn")
    /\ UNCHANGED <<user, shown, buy, offered, entitled>>

-----------------------------------------------------------------------------
(* The paywall *)

\* loadOfferings, a no-op once it has succeeded.
LoadOfferings ==
    /\ user # Nobody /\ ~offered
    /\ offered' = TRUE
    /\ UNCHANGED <<user, shown, sync, buy, identity, queue, info, synced, entitled>>

\* Slip: the paywall counts as settled as soon as the view's task has started.
StartPurchaseEarly(b) ==
    /\ user # Nobody /\ offered
    /\ \A o \in Buys : buy[o].at \in {"unused", "done"}
    /\ buy[b].at = "unused"
    /\ buy' = [buy EXCEPT ![b] = [at |-> "paying", by |-> user, on |-> Nobody,
                                  settled |-> shown = user]]
    /\ UNCHANGED <<user, shown, sync, identity, queue, info, offered, synced, entitled>>

\* A signed-in user pays or restores; `isLoading` disables the list meanwhile.
StartPurchase(b) ==
    /\ user # Nobody /\ offered
    /\ \A o \in Buys : buy[o].at \in {"unused", "done"}
    /\ buy[b].at = "unused"
    /\ buy' = [buy EXCEPT ![b] = [at |-> "paying", by |-> user, on |-> Nobody,
                                  settled |-> AtRest /\ synced]]
    /\ UNCHANGED <<user, shown, sync, identity, queue, info, offered, synced, entitled>>

\* The App Store has the money: the SDK sends the receipt as who it is now.
Paid(b) ==
    /\ buy[b].at = "paying"
    /\ buy' = [buy EXCEPT ![b].at = "posted", ![b].on = identity]
    /\ queue' = Append(queue, [op |-> "receipt", for |-> b, as |-> identity])
    /\ UNCHANGED <<user, shown, sync, identity, info, offered, synced, entitled>>

\* The user closes the App Store's sheet, or the SDK reports an error.
PurchaseFails(b) ==
    /\ buy[b].at = "paying"
    /\ buy' = [buy EXCEPT ![b].at = "done"]
    /\ UNCHANGED <<user, shown, sync, identity, queue, info, offered, synced, entitled>>

\* RevenueCat takes the receipt; if its reply is lost the SDK reports an error.
ReceiptTaken ==
    /\ queue # <<>> /\ Head(queue).op = "receipt"
    /\ queue' = Tail(queue)
    /\ buy' = [buy EXCEPT ![Head(queue).for].at = "done"]
    /\ entitled' = entitled \cup {Head(queue).as}
    /\ info' \in {info, Head(queue).as}
    /\ UNCHANGED <<user, shown, sync, identity, offered, synced>>

Next ==
    \/ \E u \in Users \cup {Nobody} : SessionChanges(u)
    \/ \E s \in Syncs : ViewUpdates(s) \/ Identify(s) \/ Reset(s)
    \/ SyncFails \/ SyncSucceeds \/ LoadOfferings \/ ReceiptTaken
    \/ \E b \in Buys : StartPurchase(b) \/ Paid(b) \/ PurchaseFails(b)

Spec == Init /\ [][Next]_pvars

-----------------------------------------------------------------------------
(* Properties *)

\* Well typed; the requests of the SDK are those its callers await.
TypeOK ==
    /\ user \in Users \cup {Nobody}
    /\ shown \in Users \cup {Nobody, Syncs}
    /\ sync \in [Syncs -> [at : {"unused", "scheduled", "sent", "done"},
                           as : Users \cup {Nobody}]]
    /\ buy \in [Buys -> [at : {"unused", "paying", "posted", "done"},
                         by : Users \cup {Nobody}, on : Identities \cup {Nobody},
                         settled : BOOLEAN]]
    /\ identity \in Identities /\ info \in Identities \cup {Nobody}
    /\ offered \in BOOLEAN /\ synced \in BOOLEAN /\ entitled \subseteq Identities
    /\ \A s \in Syncs : sync[s].at = "sent" <=>
         \E i \in DOMAIN queue : queue[i].op # "receipt" /\ queue[i].for = s
    /\ \A b \in Buys : buy[b].at = "posted" <=>
         \E i \in DOMAIN queue : queue[i].op = "receipt" /\ queue[i].for = b

\* Whatever sign-ins and sign-outs came in between, once the last log-in has
\* succeeded and no task is left, RevenueCat's identity is the user's, and so is
\* customerInfo unless a receipt was sent as someone else and answered late.
SignedInIsIdentified ==
    (AtRest /\ user # Nobody /\ synced) =>
        /\ identity = user
        /\ info = user \/ \E b \in Buys : buy[b].on \notin {Nobody, user}

\* "Entitlements follow the account": a purchase begun while the identity was
\* settled, in a session that lasts, is written to the account of its user.
EntitlementsFollowTheAccount ==
    \A b \in Buys : (buy[b].settled /\ buy[b].on # Nobody) => buy[b].on = buy[b].by

\* "Runs before any purchase UI can be shown so RC never writes an entitlement
\* to an anonymous device ID."
NeverEntitlesAnonymous == Anonymous \notin entitled
=============================================================================
