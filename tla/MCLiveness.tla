------------------------------ MODULE MCLiveness ------------------------------
(***************************************************************************)
(* Whether what was begun comes to an end: the auth routes, the notes      *)
(* routes, the iOS client and the trace recorder, one at a time.  `part`   *)
(* says which of them a behaviour is of; the others stay as they start.    *)
(***************************************************************************)
EXTENDS AuthBackend

CONSTANTS Users, MaxNotes,
          Tokens, Calls, Refreshes, SignOuts, Restore, MaxLaunches,
          MaxInterrupts

VARIABLES part,
          note_pc, note_req, note_resp, note_tx, shown, notes,
          keychain, access, user, checking, refreshTask, refresh, waiting, call,
          signIn, signOut, launches, owner, live, stale, adrift,
          args, script, exit, xctrace, rc, output, stop_file, interrupts

Notes == INSTANCE NotesBackend WITH
             pc <- note_pc, req <- note_req, resp <- note_resp, tx <- note_tx
Client == INSTANCE AuthClient
Rec == INSTANCE TraceRecording

note_vars == <<note_pc, note_req, note_resp, note_tx, shown, notes>>
client_vars == <<keychain, access, user, checking, refreshTask, refresh, waiting, call,
                 signIn, signOut, launches, owner, live, stale, adrift>>
recorder_vars == <<args, script, exit, xctrace, rc, output, stop_file, interrupts>>
all == <<part, vars, note_vars, client_vars, recorder_vars>>

PartsInit ==
    /\ part \in {"auth", "notes", "client", "recorder"}
    /\ Init /\ Notes!Init /\ Client!Init /\ Rec!Init
    /\ (part # "recorder" => /\ args.target = "none" /\ ~args.env
                             /\ ~args.stop_file /\ ~args.time_limit
                             /\ output = "none" /\ ~stop_file)

\* A step of one part.
Auth(A) == part = "auth" /\ A /\ UNCHANGED <<part, note_vars, client_vars, recorder_vars>>
Note(A) == part = "notes" /\ A /\ UNCHANGED <<part, vars, client_vars, recorder_vars>>
App(A) == part = "client" /\ A /\ UNCHANGED <<part, vars, note_vars, recorder_vars>>
Recorder(A) == part = "recorder" /\ A /\ UNCHANGED <<part, vars, note_vars, client_vars>>

PartsNext ==
    Auth(Next) \/ Note(Notes!Next) \/ App(Client!Next) \/ Recorder(Rec!Next)

\* The parts with the fairness of their FairSpec.
PartsSpec ==
    /\ PartsInit /\ [][PartsNext]_all
    /\ \A r \in Requests : WF_all(Auth(Handle(r))) /\ WF_all(Note(Notes!Handle(r)))
    /\ WF_all(App(Client!RunRestore)) /\ WF_all(App(Client!SignedIn))
    /\ WF_all(App(Client!NetworkSignIn))
    /\ \A r \in Refreshes : /\ WF_all(App(Client!RunRefresh(r)))
                            /\ WF_all(App(Client!NetworkRefresh(r)))
    /\ \A o \in SignOuts : /\ WF_all(App(Client!RunSignOut(o)))
                           /\ WF_all(App(Client!NetworkSignOut(o)))
    /\ \A c \in Calls : /\ WF_all(App(Client!RunCall(c)))
                        /\ WF_all(App(Client!NetworkCall(c)))
    /\ WF_all(Recorder(Rec!Main))

\* Every request to the auth or the notes routes is brought to an end: nobody
\* waits for ever for the pool, a unique index or a row lock.  (A request arrives
\* once, so there is no end of moments at which none is open.)
RoutesEnd == []<>(AllServed /\ Notes!AllServed)

\* Every API request of the app ends: nobody awaits a refresh for ever.
CallsEnd == Client!CallsEnd

\* The check of the stored session ends after every launch.
LaunchEnds == []<>(part = "client" => ~checking)

\* A recording that is asked to stop ends, and xctrace has ended before it.
StopIsObeyed == Rec!StopIsObeyed
=============================================================================
