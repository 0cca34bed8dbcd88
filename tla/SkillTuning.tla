---------------------------- MODULE SkillTuning ----------------------------
(***************************************************************************)
(* The loop that tunes a skill's description                               *)
(* (.agents/skills/skill-creator/scripts/run_loop.py and                   *)
(* improve_description.py): split the queries into train and test, score   *)
(* the description on both, stop when every train query passes or the      *)
(* iterations are used up, else have claude propose another from the train *)
(* results; recommend the one that did best on the test queries.           *)
(*                                                                         *)
(* A description is the iteration that proposed it (0: the given one) and  *)
(* whether it exceeds the 1024 characters.  Which queries pass under a     *)
(* description is open: TriggerEval models one evaluation.                 *)
(***************************************************************************)
EXTENDS Naturals, Sequences, FiniteSets, FiniteSetsExt, SequencesExt

CONSTANTS
    TuneQueries,    \* the evaluation set
    Positive,       \* those that should trigger the skill
    Holdout,        \* percentage of each kind held out, 0: none
    MaxIterations,
    None

VARIABLES
    split,    \* the train and the test queries
    current,  \* current_description
    history,  \* one entry per iteration
    tuning,   \* where the loop is
    prompt,   \* the last prompt sent to claude
    output    \* what run_loop returns and main saves

tvars == <<split, current, history, tuning, prompt, output>>

Given == [by |-> 0, long |-> FALSE]

(* split_eval_set: at least one query of each kind is held out, if there   *)
(* is one; which ones is up to the shuffle.                                *)
HeldOut(group) ==
    LET asked == (Cardinality(group) * Holdout) \div 100
    IN  kSubset(Min({Cardinality(group), Max({1, asked})}), group)

Splits ==
    IF Holdout = 0 THEN {[train |-> TuneQueries, test |-> {}]}
    ELSE {[train |-> TuneQueries \ (p \cup n), test |-> p \cup n] :
              p \in HeldOut(Positive), n \in HeldOut(TuneQueries \ Positive)}

Init ==
    /\ split \in Splits
    /\ current = Given /\ history = <<>> /\ tuning = "scoring"
    /\ prompt = None /\ output = None

Iteration == Len(history)
Latest == history[Iteration]

\* One evaluation of the current description on all queries, split back into
\* train and test results and entered in the history.
Score ==
    /\ tuning = "scoring"
    /\ \E passed \in SUBSET TuneQueries :
          history' = Append(history,
              [description |-> current,
               train_results |-> passed \cap split.train,
               test_results |-> IF split.test = {} THEN None
                                ELSE passed \cap split.test])
    /\ tuning' = "scored"
    /\ UNCHANGED <<split, current, prompt, output>>

AllPassed == Latest.train_results = split.train

-----------------------------------------------------------------------------
(* improve_description.                                                    *)

\* A history entry without the keys that start with "test_".
Blinded(entry) ==
    [k \in DOMAIN entry \ {"test_results"} |-> entry[k]]

\* The prompt: the train failures of both kinds and the blinded attempts.
PromptNow ==
    LET failed == split.train \ Latest.train_results
    IN  [failedTriggers |-> failed \cap Positive,
         falseTriggers |-> failed \ Positive,
         attempts |-> [i \in DOMAIN history |-> Blinded(history[i])]]

\* Slip: the last proposal is made before the iterations are counted.
MayImproveOnceMore == tuning = "scored" /\ ~AllPassed

MayImprove ==
    tuning = "scored" /\ ~AllPassed /\ Iteration < MaxIterations

\* claude is asked for another description.
Propose ==
    /\ MayImprove
    /\ prompt' = PromptNow
    /\ tuning' = "proposing"
    /\ UNCHANGED <<split, current, history, output>>

Accept(long) ==
    /\ current' = [by |-> Iteration, long |-> long]
    /\ tuning' = IF Iteration < MaxIterations THEN "scoring" ELSE "scored"
    /\ UNCHANGED <<split, history, prompt, output>>

\* Its answer becomes the current description; one that is too long is sent
\* back once, and that second answer is taken as it comes.
Proposed == tuning = "proposing" /\ Accept(FALSE)
Overlong ==
    /\ tuning = "proposing"
    /\ tuning' = "shortening"
    /\ UNCHANGED <<split, current, history, prompt, output>>
Shortened == tuning = "shortening" /\ \E long \in BOOLEAN : Accept(long)

\* A claude that exits with an error or takes over 300 seconds raises out of
\* the loop: what was measured so far is in the live report only.
ClaudeFails ==
    /\ tuning \in {"proposing", "shortening"}
    /\ tuning' = "raised"
    /\ UNCHANGED <<split, current, history, prompt, output>>

-----------------------------------------------------------------------------
(* The end of run_loop.                                                    *)

TestScore(entry) ==
    IF entry.test_results = None THEN 0 ELSE Cardinality(entry.test_results)
TrainScore(entry) == Cardinality(entry.train_results)

\* Slip: the train score decides even when queries were held out.
ScoreByTrain(entry) == TrainScore(entry)

ScoreOf(entry) ==
    IF split.test = {} THEN TrainScore(entry) ELSE TestScore(entry)

\* max(history, key=...): the first of the highest.
BestIndex ==
    CHOOSE i \in DOMAIN history :
        /\ \A k \in DOMAIN history : ScoreOf(history[k]) <= ScoreOf(history[i])
        /\ \A k \in 1 .. i - 1 : ScoreOf(history[k]) < ScoreOf(history[i])

Finish ==
    /\ tuning = "scored"
    /\ AllPassed \/ Iteration >= MaxIterations
    /\ output' = [exit |-> IF AllPassed THEN "all_passed" ELSE "max_iterations",
                  best |-> BestIndex, final |-> current]
    /\ tuning' = "finished"
    /\ UNCHANGED <<split, current, history, prompt>>

Next == \/ Score \/ Propose \/ Proposed \/ Overlong \/ Shortened
        \/ ClaudeFails \/ Finish

Spec == Init /\ [][Next]_tvars

-----------------------------------------------------------------------------
(* Properties.                                                             *)

\* The held-out queries judge and do not teach.  No prompt names one or tells
\* how one went, in its failures or in an attempt of the history ("held-out
\* queries the optimizer hasn't seen", generate_report.py:151); and the
\* recommended description did on them at least as well as every other that
\* was tried, the given one included, a later one being preferred only for a
\* better score (SKILL.md:394).
HeldOutJudges ==
    /\ prompt # None =>
        /\ prompt.failedTriggers \cup prompt.falseTriggers \subseteq split.train
        /\ \A i \in DOMAIN prompt.attempts :
              \A k \in DOMAIN prompt.attempts[i] \ {"description"} :
                  prompt.attempts[i][k] \subseteq split.train
    /\ tuning = "finished" /\ split.test # {} =>
        LET held(i) == Cardinality(history[i].test_results)
        IN  \A i \in DOMAIN history :
                /\ held(i) <= held(output.best)
                /\ i < output.best => held(i) < held(output.best)

\* The description the loop ends with is one it has scored, last, and it
\* never says that all train queries passed of one that failed some.
FinalWasScored ==
    tuning = "finished" =>
        /\ output.final = Latest.description
        /\ output.exit = "all_passed" <=> Latest.train_results = split.train
=============================================================================
