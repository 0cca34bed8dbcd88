----------------------------- MODULE MCAuthClient -----------------------------
(***************************************************************************)
(* A model-checking instance of the iOS app: its session (AuthClient), and *)
(* what follows the session, RevenueCat's identity (Purchases) and the     *)
(* list of notes on screen (NotesScreen).  The three share no state but    *)
(* who is signed in, which Purchases and NotesScreen leave open, so they   *)
(* are explored one at a time: `part` says which one a behaviour is of.    *)
(***************************************************************************)
EXTENDS AuthClient, TLC

CONSTANTS Anonymous, Nobody, Syncs, Buys, Ops, Before

\* Nobody is nobody's identity, and no operation wrote what was there before.
ASSUME NobodyAssumption == Nobody \notin Users \cup {Anonymous}
ASSUME BeforeAssumption == Before \notin Ops

VARIABLES part,
          buyer, seen, sync, buy, identity, queue, info, offered, synced, entitled,
          notes, notesError, appeared, server, op, agreed

Store == INSTANCE Purchases WITH user <- buyer, shown <- seen
Screen == INSTANCE NotesScreen WITH Calls <- Ops, call <- op

store_vars == <<buyer, seen, sync, buy, identity, queue, info, offered, synced, entitled>>
screen_vars == <<notes, notesError, appeared, server, op, agreed>>

AppInit ==
    /\ part \in {"session", "store", "screen"}
    /\ Init /\ Store!Init /\ Screen!Init
    /\ part # "screen" => server = <<>>

AppNext ==
    \/ part = "session" /\ Next /\ UNCHANGED <<part, store_vars, screen_vars>>
    \/ part = "store" /\ Store!Next /\ UNCHANGED <<part, vars, screen_vars>>
    \/ part = "screen" /\ Screen!Next /\ UNCHANGED <<part, vars, store_vars>>

AppSpec == AppInit /\ [][AppNext]_<<part, vars, store_vars, screen_vars>>

\* What Purchases promises: see there.
SignedInIsIdentified == Store!SignedInIsIdentified
EntitlementsFollowTheAccount == Store!EntitlementsFollowTheAccount
NeverEntitlesAnonymous == Store!NeverEntitlesAnonymous

\* What NotesScreen promises: see there.
ListAgrees == Screen!ListAgrees

\* Tokens, users and tasks are interchangeable.
ClientSymmetry == Permutations(Tokens) \cup Permutations(Users) \cup Permutations(Calls)
                    \cup Permutations(Refreshes) \cup Permutations(SignOuts)
=============================================================================
