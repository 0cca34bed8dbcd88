--------------------------- MODULE MCNotesPipeline ---------------------------
(***************************************************************************)
(* Model-checking instances of the notes routes and of the pipeline that   *)
(* every request goes through.  They share no state and are explored one   *)
(* at a time: `part` says which one a behaviour is of.                     *)
(***************************************************************************)
EXTENDS MCNotesBackend

CONSTANTS Callers, Ips, Window, MaxTime,
          PlainLimit,  \* rate_limit_default
          OwnLimit     \* the limit a route's decorator sets

\* A limit admits something, and a window takes time.
ASSUME LimitsAssumption ==
    /\ PlainLimit \in Nat \ {0} /\ OwnLimit \in Nat \ {0}
    /\ Window \in Nat \ {0} /\ MaxTime \in Nat
ASSUME NoWindowAssumption == None \notin [start : Nat, n : Nat]

VARIABLES part,
          conf, clock, window, asked, answer, admitted

LOCAL INSTANCE Settings

\* The defaults with the limits on, an environment that turns them off, and two
\* that must not start.
StartedWith ==
    {Deployed([v \in {} |-> Unset]),
     Deployed([environment |-> "padded production", rate_limit_enabled |-> "on"]),
     Deployed([jwt_secret |-> "Change-Me"]), Deployed([log_level |-> "verbose"])}

\* A route with the default limit and one with a limit of its own.
Limits == [plain |-> PlainLimit, limited |-> OwnLimit]

Pipeline == INSTANCE RequestPipeline
                WITH req <- asked, Environments <- StartedWith, Users <- Callers, Limit <- Limits

pipeline_vars == <<conf, clock, window, asked, answer, admitted>>

PipelineInit == part \in {"notes", "pipeline"} /\ Init /\ Pipeline!Init

PipelineNext ==
    \/ part = "notes" /\ Next /\ UNCHANGED <<part, pipeline_vars>>
    \/ part = "pipeline" /\ Pipeline!Next /\ UNCHANGED <<part, vars>>

PipelineSpec == PipelineInit /\ [][PipelineNext]_<<part, vars, pipeline_vars>>

\* The properties of the pipeline, stated in its module.
FewerThanTwice == Pipeline!FewerThanTwice
RefusedOnlyWhenFull == Pipeline!RefusedOnlyWhenFull
AnsweredIsTraced == Pipeline!AnsweredIsTraced
=============================================================================
