------------------------------ MODULE MCPlatform ------------------------------
(***************************************************************************)
(* Model-checking instances of the profile routes and the webhook, and of  *)
(* what stands beside them: the migrations, and the tools of the           *)
(* developers.  They share no state and are explored one at a time: `part` *)
(* says which one a behaviour is of, the others stay as they start.        *)
(***************************************************************************)
EXTENDS ProfileBackend, TLC

CONSTANTS MigrationRuns,
          Queries, ShouldTrigger, Runs, Workers, Elsewhere,
          TuneQueries, Positive, Holdout, MaxIterations,
          Questions, MaxTurns,
          Reviewed, Comments, Unsaid, MaxOpen

\* The queries are finitely many, and no set of them is `None`; nor is the text of a
\* right answer.  The runs to review are numbers.  A query runs so many times, and
\* what lies elsewhere is no command of a run.
ASSUME TuneAssumption ==
    IsFiniteSet(TuneQueries) /\ \A passed \in SUBSET TuneQueries : passed # None
ASSUME AnswerAssumption == Questions \in Nat /\ None # "right"
ASSUME RunsAssumption == Runs \in Nat
ASSUME ElsewhereAssumption == Elsewhere \notin Queries \X (1 .. Runs)
ASSUME ReviewedAssumption == IsFiniteSet(Reviewed) /\ Reviewed \subseteq Nat

VARIABLES part,
          version, schema, migration,
          edited, broken, file, outcome,
          run, triggers, results,
          split, current, history, tuning, prompt, output,
          phase, stack, qa_pairs, reply, answers, turns, task_results, report, served,
          outputs, unnumbered, previous, server, feedback, open, page

Alembic == INSTANCE Migrations WITH Runs <- MigrationRuns, run <- migration
Sync == INSTANCE SyncModels
Eval == INSTANCE TriggerEval
Tuning == INSTANCE SkillTuning
Mcp == INSTANCE McpEvaluation WITH results <- task_results
Viewer == INSTANCE ReviewViewer WITH Runs <- Reviewed

alembic_vars == <<version, schema, migration>>
sync_vars == <<edited, broken, file, outcome>>
eval_vars == <<run, triggers, results>>
tuning_vars == <<split, current, history, tuning, prompt, output>>
mcp_vars == <<phase, stack, qa_pairs, reply, answers, turns, task_results, report, served>>
viewer_vars == <<outputs, unnumbered, previous, server, feedback, open, page>>

PlatformInit ==
    /\ part \in {"profiles", "alembic", "sync", "eval", "tuning", "mcp", "viewer"}
    /\ Init /\ Alembic!Init /\ Sync!Init /\ Eval!Init
    /\ Tuning!Init
    /\ (part # "tuning" => split = CHOOSE s \in Tuning!Splits : TRUE)
    /\ Mcp!Init
    /\ Viewer!Init
    /\ (part # "viewer" => outputs = {} /\ unnumbered = {} /\ ~previous)

PlatformNext ==
    /\ UNCHANGED part
    /\ \/ part = "profiles" /\ Next
       \/ part # "profiles" /\ UNCHANGED vars
    /\ \/ part = "alembic" /\ Alembic!Next
       \/ part # "alembic" /\ UNCHANGED alembic_vars
    /\ \/ part = "sync" /\ Sync!Next
       \/ part # "sync" /\ UNCHANGED sync_vars
    /\ \/ part = "eval" /\ Eval!Next
       \/ part # "eval" /\ UNCHANGED eval_vars
    /\ \/ part = "tuning" /\ Tuning!Next
       \/ part # "tuning" /\ UNCHANGED tuning_vars
    /\ \/ part = "mcp" /\ Mcp!Next
       \/ part # "mcp" /\ UNCHANGED mcp_vars
    /\ \/ part = "viewer" /\ Viewer!Next
       \/ part # "viewer" /\ UNCHANGED viewer_vars

PlatformSpec ==
    PlatformInit /\ [][PlatformNext]_<<part, vars, alembic_vars, sync_vars, eval_vars,
                                       tuning_vars, mcp_vars, viewer_vars>>

\* The properties of each part, stated in its module.
SchemaIsOfItsVersion == Alembic!SchemaIsOfItsVersion
CheckedFileDecodes == Sync!CheckedFileDecodes
NothingLeftBehind == Eval!NothingLeftBehind
VerdictIsItsOwnCall == Eval!VerdictIsItsOwnCall
HeldOutJudges == Tuning!HeldOutJudges
FinalWasScored == Tuning!FinalWasScored
ReportIsOfItsConversations == Mcp!ReportIsOfItsConversations
SavedIsShown == Viewer!SavedIsShown
SubmittedStays == Viewer!SubmittedStays

\* Requests are interchangeable.
PlatformSymmetry == Permutations(Requests)
=============================================================================
