---------------------------- MODULE SessionLedger ----------------------------
(***************************************************************************)
(* What the authentication backend promises about its durable state, with  *)
(* no requests, no transactions and no failures: an account comes into     *)
(* being together with its first session, a session is opened only for an  *)
(* account that exists, a rotation hands the session on to a token that    *)
(* was never used before, and a session that has ended never comes back.   *)
(* AuthBackend implements this module; a rotation may start from a session *)
(* that has already ended, because the backend does not stop two           *)
(* refreshes that looked the same token up before either had committed.    *)
(***************************************************************************)

CONSTANTS Ids,      \* names of accounts and of refresh tokens
          Emails

VARIABLES accounts, \* accounts[_] = [id, email]: the registered accounts
          issued,   \* [id, user]: every refresh token ever issued
          live      \* the ids of the tokens that still open a session

lvars == <<accounts, issued, live>>

Fresh(t) == \A k \in issued : k.id # t

Issue(t, u, ended) ==
    /\ Fresh(t)
    /\ issued' = issued \cup {[id |-> t, user |-> u]}
    /\ live' = (live \ ended) \cup {t}

LedgerInit == accounts = {} /\ issued = {} /\ live = {}

Register(u, e) ==
    /\ \A a \in accounts : a.id # u /\ a.email # e
    /\ accounts' = accounts \cup {[id |-> u, email |-> e]}
    /\ Issue(u, u, {})

Login(t, a) ==
    /\ a \in accounts
    /\ Issue(t, a.id, {})
    /\ UNCHANGED accounts

Rotate(t, k) ==
    /\ k \in issued
    /\ Issue(t, k.user, {k.id})
    /\ UNCHANGED accounts

Logout(k) ==
    /\ k \in issued
    /\ live' = live \ {k.id}
    /\ UNCHANGED <<accounts, issued>>

LedgerNext ==
    \/ \E u \in Ids, e \in Emails : Register(u, e)
    \/ \E t \in Ids, a \in accounts : Login(t, a)
    \/ \E t \in Ids, k \in issued : Rotate(t, k)
    \/ \E k \in issued : Logout(k)

LedgerSpec == LedgerInit /\ [][LedgerNext]_lvars

=============================================================================
