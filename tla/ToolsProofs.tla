------------------------------ MODULE ToolsProofs ------------------------------
(* Theorems about the tools of the developers: TriggerEval, SkillTuning,    *)
(* SyncModels, McpEvaluation and ReviewViewer, for evaluations of any size. *)
EXTENDS MCPlatform, SequenceTheorems, FiniteSetTheorems, WellFoundedInduction, TLAPS

-----------------------------------------------------------------------------
(* The trigger evaluation: every way out of a run cleans up *)

EvalFields == {"phase", "file", "child", "call", "unsaid", "pipe", "pending", "json",
               "verdict", "by"}

EvalTypes ==
    /\ run = [j \in Eval!Jobs |-> run[j]]
    /\ \A j \in Eval!Jobs : DOMAIN run[j] = EvalFields

EvalInv == EvalTypes /\ NothingLeftBehind

\* A step of run j that leaves it as `new`.
LEMMA EvalStepKeeps ==
    ASSUME EvalInv, NEW j \in Eval!Jobs, NEW new, DOMAIN new = EvalFields,
           run' = [run EXCEPT ![j] = new],
           new.phase \in {"done", "gathered"} => ~new.file /\ new.child # "running"
    PROVE  EvalInv'
BY DEF EvalInv, EvalTypes, NothingLeftBehind, Eval!NothingLeftBehind

\* A run that has ended is left with nothing.
LEMMA EndedIsClean ==
    ASSUME EvalInv, NEW j \in Eval!Jobs, NEW verdict, NEW by
    PROVE  /\ DOMAIN Eval!Ended(j, verdict, by) = EvalFields
           /\ ~Eval!Ended(j, verdict, by).file
           /\ Eval!Ended(j, verdict, by).child # "running"
BY DEF EvalInv, EvalTypes, EvalFields, Eval!Ended

LEMMA EvalRunKeeps ==
    ASSUME EvalInv, NEW j \in Eval!Jobs,
           \/ Eval!WriteCommand(j) \/ Eval!Spawn(j) \/ Eval!SpawnFails(j)
           \/ Eval!TimeUp(j) \/ Eval!Poll(j) \/ Eval!NothingReady(j) \/ Eval!ReadChunk(j)
           \/ Eval!EndOfStream(j)
    PROVE  EvalInv'
<1> DEFINE q == run[j]
<1>1. DOMAIN q = EvalFields
    BY DEF EvalInv, EvalTypes
<1>2. CASE Eval!WriteCommand(j)
  <2> DEFINE new == [q EXCEPT !.phase = "written", !.file = TRUE]
  <2>1. run' = [run EXCEPT ![j] = new]
      BY <1>2 DEF Eval!WriteCommand, Eval!Step
  <2>2. DOMAIN new = EvalFields /\ new.phase = "written"
      BY <1>1 DEF EvalFields
  <2> HIDE DEF new
  <2> QED
      BY <2>1, <2>2, EvalStepKeeps
<1>3. CASE Eval!Spawn(j)
  <2>1. PICK call \in Eval!Calls : \E talk \in Eval!Talks(call) :
          run' = [run EXCEPT ![j] = [q EXCEPT !.phase = "watching", !.child = "running",
                                              !.call = call, !.unsaid = talk]]
      BY <1>3 DEF Eval!Spawn, Eval!Step
  <2>2. PICK talk \in Eval!Talks(call) :
          run' = [run EXCEPT ![j] = [q EXCEPT !.phase = "watching", !.child = "running",
                                              !.call = call, !.unsaid = talk]]
      BY <2>1
  <2> DEFINE new == [q EXCEPT !.phase = "watching", !.child = "running",
                              !.call = call, !.unsaid = talk]
  <2>3. DOMAIN new = EvalFields /\ new.phase = "watching"
      BY <1>1 DEF EvalFields
  <2>4. run' = [run EXCEPT ![j] = new]
      BY <2>2
  <2> HIDE DEF new
  <2> QED
      BY <2>3, <2>4, EvalStepKeeps
<1>4. ASSUME NEW verdict, NEW by, run' = [run EXCEPT ![j] = Eval!Ended(j, verdict, by)]
      PROVE  EvalInv'
  <2> DEFINE new == Eval!Ended(j, verdict, by)
  <2>1. DOMAIN new = EvalFields /\ ~new.file /\ new.child # "running"
      BY EndedIsClean
  <2>2. run' = [run EXCEPT ![j] = new]
      BY <1>4
  <2> HIDE DEF new
  <2> QED
      BY <2>1, <2>2, EvalStepKeeps
<1>5. CASE Eval!SpawnFails(j) \/ Eval!TimeUp(j) \/ Eval!EndOfStream(j)
  <2>1. run' = [run EXCEPT ![j] = Eval!Ended(j, FALSE, "cut")]
      BY <1>5 DEF Eval!SpawnFails, Eval!TimeUp, Eval!EndOfStream, Eval!Step
  <2> QED
      BY <2>1, <1>4
<1>6. CASE Eval!Poll(j)
  <2>1. CASE q.child = "exited"
    <3>1. run' = [run EXCEPT ![j] = Eval!Ended(j, FALSE, "cut")]
        BY <1>6, <2>1 DEF Eval!Poll, Eval!Step
    <3> QED
        BY <3>1, <1>4
  <2>2. CASE q.child # "exited"
    <3> DEFINE new == [q EXCEPT !.phase = "polled"]
    <3>1. run' = [run EXCEPT ![j] = new]
        BY <1>6, <2>2 DEF Eval!Poll, Eval!Step
    <3>2. DOMAIN new = EvalFields /\ new.phase = "polled"
        BY <1>1 DEF EvalFields
    <3> HIDE DEF new
    <3> QED
        BY <3>1, <3>2, EvalStepKeeps
  <2> QED
      BY <2>1, <2>2
<1>7. CASE Eval!NothingReady(j)
  <2> DEFINE new == [q EXCEPT !.phase = "watching"]
  <2>1. run' = [run EXCEPT ![j] = new]
      BY <1>7 DEF Eval!NothingReady, Eval!Step
  <2>2. DOMAIN new = EvalFields /\ new.phase = "watching"
      BY <1>1 DEF EvalFields
  <2> HIDE DEF new
  <2> QED
      BY <2>1, <2>2, EvalStepKeeps
<1>8. CASE Eval!ReadChunk(j)
  <2>1. PICK st, n : run' = [run EXCEPT ![j] =
               IF st.answer # {} THEN Eval!Ended(j, TRUE \in st.answer, "answer")
               ELSE [q EXCEPT !.phase = "watching", !.pending = st.pending, !.json = st.json,
                              !.pipe = SubSeq(@, n + 1, Len(@))]]
      BY <1>8 DEF Eval!ReadChunk, Eval!Step
  <2>2. CASE st.answer # {}
    <3>1. run' = [run EXCEPT ![j] = Eval!Ended(j, TRUE \in st.answer, "answer")]
        BY <2>1, <2>2
    <3> QED
        BY <3>1, <1>4
  <2>3. CASE st.answer = {}
    <3> DEFINE new == [q EXCEPT !.phase = "watching", !.pending = st.pending, !.json = st.json,
                                !.pipe = SubSeq(@, n + 1, Len(@))]
    <3>1. run' = [run EXCEPT ![j] = new]
        BY <2>1, <2>3
    <3>2. DOMAIN new = EvalFields /\ new.phase = "watching"
        BY <1>1 DEF EvalFields
    <3> HIDE DEF new
    <3> QED
        BY <3>1, <3>2, EvalStepKeeps
  <2> QED
      BY <2>2, <2>3
<1> QED
    BY <1>2, <1>3, <1>5, <1>6, <1>7, <1>8

\* The child goes on, the parent gathers and reports.
LEMMA EvalRestKeeps ==
    ASSUME EvalInv,
           \/ \E j \in Eval!Jobs : Eval!ChildPrints(j) \/ Eval!ChildExits(j) \/ Eval!Gather(j)
           \/ Eval!Report
    PROVE  EvalInv'
<1>1. ASSUME NEW j \in Eval!Jobs, Eval!ChildPrints(j) PROVE EvalInv'
  <2>1. run' = [run EXCEPT ![j].pipe = @ \o run[j].unsaid, ![j].unsaid = <<>>]
      BY <1>1 DEF Eval!ChildPrints
  <2>2. /\ run' = [k \in Eval!Jobs |-> run'[k]] /\ DOMAIN run'[j] = EvalFields
        /\ run'[j].phase = run[j].phase /\ run'[j].file = run[j].file
        /\ run'[j].child = run[j].child
        /\ \A k \in Eval!Jobs : k # j => run'[k] = run[k]
      BY <2>1 DEF EvalInv, EvalTypes, EvalFields
  <2> QED
      BY <2>2 DEF EvalInv, EvalTypes, NothingLeftBehind, Eval!NothingLeftBehind
<1>2. ASSUME NEW j \in Eval!Jobs, Eval!ChildExits(j) PROVE EvalInv'
  <2>1. run[j].child = "running" /\ run' = [run EXCEPT ![j].child = "exited"]
      BY <1>2 DEF Eval!ChildExits
  <2>2. /\ run' = [k \in Eval!Jobs |-> run'[k]] /\ DOMAIN run'[j] = EvalFields
        /\ run'[j].phase = run[j].phase
        /\ \A k \in Eval!Jobs : k # j => run'[k] = run[k]
      BY <2>1 DEF EvalInv, EvalTypes, EvalFields
  <2> QED
      BY <2>1, <2>2 DEF EvalInv, EvalTypes, NothingLeftBehind, Eval!NothingLeftBehind
<1>3. ASSUME NEW j \in Eval!Jobs, Eval!Gather(j) PROVE EvalInv'
  <2>1. run[j].phase = "done" /\ run' = [run EXCEPT ![j].phase = "gathered"]
      BY <1>3 DEF Eval!Gather
  <2>2. /\ run' = [k \in Eval!Jobs |-> run'[k]] /\ DOMAIN run'[j] = EvalFields
        /\ run'[j].file = run[j].file /\ run'[j].child = run[j].child
        /\ \A k \in Eval!Jobs : k # j => run'[k] = run[k]
      BY <2>1 DEF EvalInv, EvalTypes, EvalFields
  <2> QED
      BY <2>1, <2>2 DEF EvalInv, EvalTypes, NothingLeftBehind, Eval!NothingLeftBehind
<1>4. CASE Eval!Report
    BY <1>4 DEF Eval!Report, EvalInv, EvalTypes, NothingLeftBehind, Eval!NothingLeftBehind
<1> QED
    BY <1>1, <1>2, <1>3, <1>4

LEMMA EvalPart == PlatformSpec => Eval!Init /\ [][Eval!Next]_eval_vars
<1>1. PlatformInit => Eval!Init
    BY DEF PlatformInit
<1>2. [PlatformNext]_<<part, vars, alembic_vars, sync_vars, eval_vars, tuning_vars, mcp_vars,
                       viewer_vars>> => [Eval!Next]_eval_vars
    BY DEF PlatformNext
<1> QED
    BY <1>1, <1>2, PTL DEF PlatformSpec

\* Once a run has its verdict, neither its command nor its claude is left: each way
\* out goes through the clean-up, and nothing starts or writes for it again.
THEOREM PlatformNothingLeftBehind == PlatformSpec => []NothingLeftBehind
<1>1. Eval!Init => EvalInv
    BY DEF Eval!Init, Eval!Idle, EvalInv, EvalTypes, EvalFields, NothingLeftBehind,
           Eval!NothingLeftBehind
<1>2. EvalInv /\ [Eval!Next]_eval_vars => EvalInv'
  <2> SUFFICES ASSUME EvalInv, [Eval!Next]_eval_vars PROVE EvalInv'
      OBVIOUS
  <2>1. CASE UNCHANGED eval_vars
      BY <2>1 DEF eval_vars, EvalInv, EvalTypes, NothingLeftBehind, Eval!NothingLeftBehind
  <2>2. CASE Eval!Next
      BY <2>2, EvalRunKeeps, EvalRestKeeps DEF Eval!Next
  <2> QED
      BY <2>1, <2>2
<1>3. EvalInv => NothingLeftBehind
    BY DEF EvalInv
<1> QED
    BY <1>1, <1>2, <1>3, EvalPart, PTL

-----------------------------------------------------------------------------
(* The tuning of a description *)

Descriptions == [by : Nat, long : BOOLEAN]
Attempts == [description : Descriptions, train_results : SUBSET TuneQueries,
             test_results : (SUBSET TuneQueries) \cup {None}]

\* An entry of the history keeps to its split.
OfItsSplit(entry) ==
    /\ entry.train_results \subseteq split.train
    /\ entry.test_results = None <=> split.test = {}

\* The first of the highest.
BestOf(h, i) ==
    /\ i \in DOMAIN h
    /\ \A k \in DOMAIN h : Tuning!ScoreOf(h[k]) <= Tuning!ScoreOf(h[i])
    /\ \A k \in 1 .. i - 1 : Tuning!ScoreOf(h[k]) < Tuning!ScoreOf(h[i])

TuningInv ==
    /\ current \in Descriptions
    /\ history \in Seq(Attempts)
    /\ \A i \in DOMAIN history : OfItsSplit(history[i])
    /\ tuning \in {"scored", "finished"} => history # <<>>
    /\ tuning = "scored" => history[Len(history)].description = current
    /\ tuning \in {"proposing", "shortening"} => Len(history) < MaxIterations
    /\ history # <<>> => \E i \in DOMAIN history : BestOf(history, i)
    /\ HeldOutJudges
    /\ FinalWasScored

LEMMA ScoresAreNumbers ==
    ASSUME NEW entry \in Attempts, OfItsSplit(entry)
    PROVE  /\ Tuning!ScoreOf(entry) \in Nat
           /\ split.test # {} => Tuning!ScoreOf(entry) = Tuning!Cardinality(entry.test_results)
<1>1. \A S : Tuning!Cardinality(S) = Cardinality(S)
    BY DEF Tuning!Cardinality, Cardinality
<1>2. \A S \in SUBSET TuneQueries : Cardinality(S) \in Nat
    BY TuneAssumption, FS_Subset, FS_CardinalityType
<1>3. CASE split.test = {}
  <2>1. Tuning!ScoreOf(entry) = Cardinality(entry.train_results)
      BY <1>1, <1>3 DEF Tuning!ScoreOf, Tuning!TrainScore
  <2>2. entry.train_results \in SUBSET TuneQueries
      BY DEF Attempts
  <2>3. Tuning!ScoreOf(entry) \in Nat
      BY <2>1, <2>2, <1>2
  <2> QED
      BY <2>3, <1>3
<1>4. CASE split.test # {}
  <2>1. entry.test_results # None /\ entry.test_results \in SUBSET TuneQueries
      BY <1>4 DEF OfItsSplit, Attempts
  <2>2. Tuning!ScoreOf(entry) = Tuning!Cardinality(entry.test_results)
      BY <1>4, <2>1 DEF Tuning!ScoreOf, Tuning!TestScore
  <2> QED
      BY <2>1, <2>2, <1>1, <1>2
<1> QED
    BY <1>3, <1>4

\* One more entry, and there is still a best one.
LEMMA StillABest ==
    ASSUME NEW h \in Seq(Attempts), NEW entry \in Attempts, OfItsSplit(entry),
           \A i \in DOMAIN h : OfItsSplit(h[i]),
           h # <<>> => \E i \in DOMAIN h : BestOf(h, i)
    PROVE  \E i \in DOMAIN Append(h, entry) : BestOf(Append(h, entry), i)
<1> DEFINE longer == Append(h, entry)
           n == Len(h)
           score(i) == Tuning!ScoreOf(longer[i])
<1>1. /\ n \in Nat /\ DOMAIN h = 1 .. n /\ DOMAIN longer = 1 .. n + 1
      /\ \A i \in 1 .. n : longer[i] = h[i]
      /\ longer[n + 1] = entry
    BY AppendProperties, LenProperties
<1>2. \A i \in 1 .. n + 1 : score(i) \in Nat
  <2> SUFFICES ASSUME NEW i \in 1 .. n + 1 PROVE score(i) \in Nat
      OBVIOUS
  <2>1. longer[i] \in Attempts /\ OfItsSplit(longer[i])
    <3>1. CASE i = n + 1
        BY <1>1, <3>1
    <3>2. CASE i # n + 1
      <4>1. i \in 1 .. n
          BY <1>1, <3>2
      <4> QED
          BY <4>1, <1>1, ElementOfSeq
    <3> QED
        BY <3>1, <3>2
  <2> QED
      BY <2>1, ScoresAreNumbers
<1>3. CASE h = <<>>
  <2>1. n = 0
      BY <1>3
  <2> QED
      BY <2>1, <1>1, <1>2 DEF BestOf
<1>4. CASE h # <<>>
  <2>1. PICK b \in DOMAIN h : BestOf(h, b)
      BY <1>4
  <2>2. /\ b \in 1 .. n
        /\ \A k \in 1 .. n : score(k) <= score(b)
        /\ \A k \in 1 .. b - 1 : k \in 1 .. n /\ score(k) < score(b)
      BY <2>1, <1>1 DEF BestOf
  <2> HIDE DEF score
  <2>3. CASE score(b) >= score(n + 1)
    <3>1. \A k \in 1 .. n + 1 : score(k) <= score(b)
        BY <2>2, <2>3, <1>1
    <3>2. b \in DOMAIN longer
        BY <2>2, <1>1
    <3>3. BestOf(longer, b)
        BY <3>1, <3>2, <2>2, <1>1 DEF BestOf, score
    <3> QED
        BY <3>2, <3>3
  <2>4. CASE score(b) < score(n + 1)
    <3>1. n + 1 \in 1 .. n + 1 /\ b \in 1 .. n + 1
        BY <1>1, <2>2
    <3>2. \A k \in 1 .. n : score(k) < score(n + 1)
      <4> SUFFICES ASSUME NEW k \in 1 .. n PROVE score(k) < score(n + 1)
          OBVIOUS
      <4>1. k \in 1 .. n + 1 /\ score(k) <= score(b)
          BY <1>1, <2>2
      <4> QED
          BY <4>1, <3>1, <2>4, <1>2
    <3>3. \A k \in 1 .. n + 1 : score(k) <= score(n + 1)
        BY <3>2, <3>1, <1>1, <1>2
    <3>4. BestOf(longer, n + 1)
        BY <3>1, <3>2, <3>3, <1>1 DEF BestOf, score
    <3> QED
        BY <3>1, <3>4, <1>1
  <2> QED
      BY <2>2, <2>3, <2>4, <1>1, <1>2
<1> QED
    BY <1>3, <1>4

LEMMA ScoreKeeps ==
    ASSUME TuningInv, Tuning!Score
    PROVE  TuningInv'
<1>1. /\ tuning = "scoring" /\ tuning' = "scored"
      /\ split' = split /\ current' = current /\ prompt' = prompt /\ output' = output
    BY DEF Tuning!Score
<1>2. PICK passed \in SUBSET TuneQueries :
        history' = Append(history,
            [description |-> current, train_results |-> passed \cap split.train,
             test_results |-> IF split.test = {} THEN None ELSE passed \cap split.test])
    BY DEF Tuning!Score
<1> DEFINE entry == [description |-> current, train_results |-> passed \cap split.train,
                     test_results |-> IF split.test = {} THEN None ELSE passed \cap split.test]
<1>3. entry.description = current /\ entry.train_results = passed \cap split.train
      /\ entry.test_results = IF split.test = {} THEN None ELSE passed \cap split.test
    OBVIOUS
<1>4. passed \cap split.train \in SUBSET TuneQueries /\ passed \cap split.test \in SUBSET TuneQueries
    OBVIOUS
<1>5. entry \in Attempts /\ OfItsSplit(entry)
  <2>1. passed \cap split.test # None
      BY <1>4, TuneAssumption
  <2>2. entry.test_results \in (SUBSET TuneQueries) \cup {None}
      BY <1>3, <1>4
  <2>3. entry \in Attempts
      BY <1>4, <2>2 DEF Attempts, TuningInv
  <2> QED
      BY <2>1, <2>3, <1>3 DEF OfItsSplit
<1> HIDE DEF entry
<1>6. /\ history \in Seq(Attempts) /\ current \in Descriptions
      /\ \A i \in DOMAIN history : OfItsSplit(history[i])
      /\ history # <<>> => \E i \in DOMAIN history : BestOf(history, i)
    BY DEF TuningInv
<1>7. history' = Append(history, entry)
    BY <1>2 DEF entry
<1>8. /\ history' \in Seq(Attempts) /\ Len(history) \in Nat /\ Len(history') = Len(history) + 1
      /\ history'[Len(history')] = entry /\ DOMAIN history' = 1 .. Len(history) + 1
      /\ DOMAIN history = 1 .. Len(history)
      /\ \A i \in 1 .. Len(history) : history'[i] = history[i]
    BY <1>5, <1>6, <1>7, AppendProperties, LenProperties
<1>9. \A i \in DOMAIN history' : OfItsSplit(history'[i])
    BY <1>5, <1>6, <1>8
<1>10. \E i \in DOMAIN history' : BestOf(history', i)
    BY <1>5, <1>6, <1>7, StillABest
<1>11. history' # <<>>
    BY <1>8, EmptySeq
<1>12. HeldOutJudges' /\ FinalWasScored'
    BY <1>1 DEF TuningInv, HeldOutJudges, FinalWasScored, Tuning!HeldOutJudges,
                Tuning!FinalWasScored
<1>13. (/\ \A i \in DOMAIN history : OfItsSplit(history[i])
        /\ \E i \in DOMAIN history : BestOf(history, i))'
    BY <1>1, <1>9, <1>10 DEF OfItsSplit, BestOf, Tuning!ScoreOf, Tuning!TrainScore,
                             Tuning!TestScore
<1> QED
    BY <1>1, <1>3, <1>6, <1>8, <1>11, <1>12, <1>13 DEF TuningInv

\* The steps that change neither the split nor the history leave these as they are.
SameHistory == UNCHANGED <<split, history>>

LEMMA HistoryKeeps ==
    ASSUME TuningInv, SameHistory
    PROVE  /\ history' \in Seq(Attempts)
           /\ (\A i \in DOMAIN history : OfItsSplit(history[i]))'
           /\ (history # <<>> => \E i \in DOMAIN history : BestOf(history, i))'
BY DEF SameHistory, TuningInv, OfItsSplit, BestOf, Tuning!ScoreOf, Tuning!TrainScore,
       Tuning!TestScore

LEMMA ProposeKeeps ==
    ASSUME TuningInv, Tuning!Propose
    PROVE  TuningInv'
<1>1. /\ tuning = "scored" /\ tuning' = "proposing" /\ Len(history) < MaxIterations
      /\ split' = split /\ history' = history /\ current' = current /\ output' = output
      /\ prompt' = Tuning!PromptNow
    BY DEF Tuning!Propose, Tuning!MayImprove, Tuning!Iteration
<1> DEFINE failed == split.train \ history[Len(history)].train_results
           attempts == [i \in DOMAIN history |-> Tuning!Blinded(history[i])]
<1>2. /\ prompt'.failedTriggers = failed \cap Positive
      /\ prompt'.falseTriggers = failed \ Positive
      /\ prompt'.attempts = attempts
    BY <1>1 DEF Tuning!PromptNow, Tuning!Latest, Tuning!Iteration
<1>3. prompt'.failedTriggers \cup prompt'.falseTriggers \subseteq split.train
    BY <1>2
<1>4. ASSUME NEW i \in DOMAIN history
      PROVE  /\ DOMAIN attempts[i] \ {"description"} = {"train_results"}
             /\ attempts[i]["train_results"] \subseteq split.train
  <2> DEFINE entry == history[i]
  <2>1. entry \in Attempts /\ OfItsSplit(entry)
      BY <1>4, ElementOfSeq, LenProperties DEF TuningInv
  <2>2. DOMAIN entry = {"description", "train_results", "test_results"}
      BY <2>1 DEF Attempts
  <2>3. attempts[i] = [k \in {"description", "train_results"} |-> entry[k]]
      BY <2>2 DEF Tuning!Blinded
  <2> HIDE DEF attempts
  <2>4. attempts[i]["train_results"] = entry.train_results
      BY <2>3
  <2> QED
      BY <2>1, <2>3, <2>4 DEF OfItsSplit
<1>5. HeldOutJudges'
  <2> HIDE DEF attempts
  <2>1. DOMAIN attempts = DOMAIN history
      BY DEF attempts
  <2>2. \A i \in DOMAIN attempts : \A k \in DOMAIN attempts[i] \ {"description"} :
          attempts[i][k] \subseteq split.train
      BY <2>1, <1>4
  <2>3. /\ prompt'.failedTriggers \cup prompt'.falseTriggers \subseteq split'.train
        /\ \A i \in DOMAIN prompt'.attempts : \A k \in DOMAIN prompt'.attempts[i] \ {"description"} :
              prompt'.attempts[i][k] \subseteq split'.train
      BY <2>2, <1>1, <1>2, <1>3
  <2> QED
      BY <2>3, <1>1 DEF HeldOutJudges, Tuning!HeldOutJudges
<1>6. FinalWasScored'
    BY <1>1 DEF FinalWasScored, Tuning!FinalWasScored
<1> QED
    BY <1>1, <1>5, <1>6, HistoryKeeps DEF TuningInv, SameHistory

\* An answer of claude, or none.
LEMMA AnswerKeeps ==
    ASSUME TuningInv,
           Tuning!Proposed \/ Tuning!Overlong \/ Tuning!Shortened \/ Tuning!ClaudeFails
    PROVE  TuningInv'
<1>1. /\ tuning \in {"proposing", "shortening"} /\ Len(history) < MaxIterations
      /\ Len(history) \in Nat /\ current \in Descriptions /\ HeldOutJudges
    BY LenProperties
    DEF TuningInv, Tuning!Proposed, Tuning!Overlong, Tuning!Shortened, Tuning!ClaudeFails
<1>2. /\ split' = split /\ history' = history /\ prompt' = prompt /\ output' = output
      /\ \/ tuning' \in {"shortening", "raised"} /\ current' = current
         \/ /\ tuning' = IF Len(history) < MaxIterations THEN "scoring" ELSE "scored"
            /\ \E long \in BOOLEAN : current' = [by |-> Len(history), long |-> long]
    BY DEF Tuning!Proposed, Tuning!Overlong, Tuning!Shortened, Tuning!ClaudeFails, Tuning!Accept,
           Tuning!Iteration
<1>3. current' \in Descriptions /\ tuning' \in {"shortening", "raised", "scoring"}
    BY <1>1, <1>2 DEF Descriptions
<1>4. HeldOutJudges' /\ FinalWasScored'
    BY <1>1, <1>2, <1>3 DEF HeldOutJudges, Tuning!HeldOutJudges, FinalWasScored,
                            Tuning!FinalWasScored
<1> QED
    BY <1>1, <1>2, <1>3, <1>4, HistoryKeeps DEF TuningInv, SameHistory

LEMMA FinishKeeps ==
    ASSUME TuningInv, Tuning!Finish
    PROVE  TuningInv'
<1>1. /\ tuning = "scored" /\ tuning' = "finished"
      /\ split' = split /\ history' = history /\ current' = current /\ prompt' = prompt
      /\ output' = [exit |-> IF Tuning!AllPassed THEN "all_passed" ELSE "max_iterations",
                    best |-> Tuning!BestIndex, final |-> current]
    BY DEF Tuning!Finish
<1>2. /\ history # <<>> /\ history \in Seq(Attempts) /\ HeldOutJudges
      /\ history[Len(history)].description = current
      /\ \A i \in DOMAIN history : OfItsSplit(history[i])
      /\ \E i \in DOMAIN history : BestOf(history, i)
    BY <1>1 DEF TuningInv
<1> DEFINE b == Tuning!BestIndex
<1>3. b \in DOMAIN history /\ BestOf(history, b)
    BY <1>2 DEF Tuning!BestIndex, BestOf
<1>4. /\ output'.exit = (IF Tuning!AllPassed THEN "all_passed" ELSE "max_iterations")
      /\ output'.best = b /\ output'.final = current
    BY <1>1
<1> HIDE DEF b
<1>5. FinalWasScored'
    BY <1>1, <1>2, <1>4 DEF FinalWasScored, Tuning!FinalWasScored, Tuning!AllPassed,
                            Tuning!Latest, Tuning!Iteration
<1>6. ASSUME split.test # {}
      PROVE  \A i \in DOMAIN history :
               LET held(k) == Tuning!Cardinality(history[k].test_results) IN
               /\ held(i) <= held(b)
               /\ i < b => held(i) < held(b)
  <2>1. \A i \in DOMAIN history :
          Tuning!ScoreOf(history[i]) = Tuning!Cardinality(history[i].test_results)
      BY <1>2, <1>6, ScoresAreNumbers, ElementOfSeq, LenProperties
  <2>2. \A i \in DOMAIN history : i < b => i \in 1 .. b - 1
      BY <1>2, <1>3, LenProperties
  <2> QED
      BY <2>1, <2>2, <1>3 DEF BestOf
<1>7. HeldOutJudges'
    BY <1>1, <1>2, <1>4, <1>6 DEF HeldOutJudges, Tuning!HeldOutJudges
<1> QED
    BY <1>1, <1>5, <1>7, HistoryKeeps DEF TuningInv, SameHistory

LEMMA TuningPart == PlatformSpec => Tuning!Init /\ [][Tuning!Next]_tuning_vars
<1>1. PlatformInit => Tuning!Init
    BY DEF PlatformInit
<1>2. [PlatformNext]_<<part, vars, alembic_vars, sync_vars, eval_vars, tuning_vars, mcp_vars,
                       viewer_vars>> => [Tuning!Next]_tuning_vars
    BY DEF PlatformNext
<1> QED
    BY <1>1, <1>2, PTL DEF PlatformSpec

\* The invariant holds in every state.
THEOREM TuningInductive == PlatformSpec => []TuningInv
<1>1. Tuning!Init => TuningInv
    BY EmptySeq DEF Tuning!Init, Tuning!Given, TuningInv, Descriptions, HeldOutJudges,
                    FinalWasScored, Tuning!HeldOutJudges, Tuning!FinalWasScored
<1>2. TuningInv /\ [Tuning!Next]_tuning_vars => TuningInv'
  <2> SUFFICES ASSUME TuningInv, [Tuning!Next]_tuning_vars PROVE TuningInv'
      OBVIOUS
  <2>1. CASE UNCHANGED tuning_vars
    <3>1. HeldOutJudges' /\ FinalWasScored'
        BY <2>1 DEF TuningInv, tuning_vars, HeldOutJudges, FinalWasScored, Tuning!HeldOutJudges,
                    Tuning!FinalWasScored, Tuning!Latest, Tuning!Iteration
    <3> QED
        BY <2>1, <3>1, HistoryKeeps DEF TuningInv, SameHistory, tuning_vars
  <2>2. CASE Tuning!Next
      BY <2>2, ScoreKeeps, ProposeKeeps, AnswerKeeps, FinishKeeps DEF Tuning!Next
  <2> QED
      BY <2>1, <2>2
<1> QED
    BY <1>1, <1>2, TuningPart, PTL

\* No prompt tells of a held-out query, and the recommended description did on them
\* at least as well as every other: a history that is not empty has a first best.
THEOREM PlatformHeldOutJudges == PlatformSpec => []HeldOutJudges
<1>1. TuningInv => HeldOutJudges
    BY DEF TuningInv
<1> QED
    BY <1>1, TuningInductive, PTL

\* The description the loop ends with was scored last: a proposal is asked for only
\* while there is an iteration left to score it in.
THEOREM PlatformFinalWasScored == PlatformSpec => []FinalWasScored
<1>1. TuningInv => FinalWasScored
    BY DEF TuningInv
<1> QED
    BY <1>1, TuningInductive, PTL

-----------------------------------------------------------------------------
(* The generated Swift models *)

SyncInv ==
    /\ edited.schema \in Sync!FieldTypes /\ edited.required \in BOOLEAN
    /\ (outcome.command = "check" /\ outcome.exit = 0) =>
         Sync!discover_schema_classes = {} \/ file = Sync!Output

\* What a schema may be made of: scalars, open objects, and what a $ref names.
Members == Sync!Scalars \cup {"object", "any"} \cup Sync!Referred \cup {"NoteOut"}

Unions == {Sync!AnyOf({"integer", "string"}), Sync!AnyOf({"integer", "string", "null"})}

\* Every field is one of these, or a union.
Singles(t) == {Sync!Plain(t), Sync!Array(t), Sync!AnyOf({t, "null"})}

LEMMA FieldsAre ==
    ASSUME edited.schema \in Sync!FieldTypes, edited.required \in BOOLEAN,
           NEW c, NEW f \in Sync!Fields(c)
    PROVE  /\ f.required \in BOOLEAN
           /\ f.schema \in Unions \/ \E t \in Members : f.schema \in Singles(t)
<1>1. f.required \in BOOLEAN
  <2> DEFINE record(name, type, required) == [name |-> name, schema |-> type,
                                              required |-> required]
  <2>1. \E name, type : \E required \in BOOLEAN : f = record(name, type, required)
      BY DEF Sync!Fields
  <2> QED
      BY <2>1
<1>2. f.schema \in {Sync!Plain("uuid"), Sync!Plain("date-time"), Sync!Plain("string"),
                    Sync!AnyOf({"string", "null"}), Sync!Array("NoteOut"), edited.schema}
    BY DEF Sync!Fields
<1>3. ASSUME f.schema \in Sync!FieldTypes
      PROVE  f.schema \in Unions \/ \E t \in Members : f.schema \in Singles(t)
  <2>1. \/ \E t \in Members : f.schema = Sync!Plain(t)
        \/ \E t \in Members : f.schema = Sync!Array(t)
        \/ \E t \in Members : f.schema = Sync!AnyOf({t, "null"})
        \/ f.schema \in Unions
      BY <1>3 DEF Sync!FieldTypes, Members, Unions, Sync!Scalars
  <2> QED
      BY <2>1 DEF Singles
<1>4. {"uuid", "date-time", "string", "NoteOut"} \subseteq Members
    BY DEF Members, Sync!Scalars
<1> QED
    BY <1>1, <1>2, <1>3, <1>4 DEF Singles

\* What is emitted for a member is known where the generator supports it.
LEMMA LeafIsKnown ==
    ASSUME NEW t \in Members
    PROVE  /\ Sync!Leaf(t) \in Sync!Known \cup Sync!discover_schema_classes
                <=> t \in Sync!Scalars \cup Sync!discover_schema_classes
           /\ t # "null"
<1> DEFINE found == Sync!discover_schema_classes
<1>1. found \subseteq {"NoteIn", "NoteOut", "UserOut", "NotePage"}
  <2>1. /\ found = UNION {Sync!Classes[m] \ Sync!SKIP_SCHEMAS :
                            m \in {n \in {"notes", "auth", "pages"} : Sync!Imports(n)}}
        /\ Sync!Classes["notes"] = {"NoteIn", "NoteOut"}
        /\ Sync!Classes["auth"] = {"LoginRequest", "UserOut"}
        /\ Sync!Classes["pages"] = {"NotePage"}
      BY DEF Sync!discover_schema_classes, Sync!Classes
  <2> QED
      BY <2>1 DEF Sync!SKIP_SCHEMAS
<1> HIDE DEF found
<1> SUFFICES (Sync!Leaf(t) \in Sync!Known \cup found <=> t \in Sync!Scalars \cup found)
             /\ t # "null"
    BY DEF found
<1>2. CASE t \in Sync!Scalars
    BY <1>2 DEF Sync!Scalars, Sync!Leaf, Sync!Known
<1>3. CASE t \in {"object", "any"}
    BY <1>3, <1>1 DEF Sync!Scalars, Sync!Leaf, Sync!Known
<1>4. CASE t \in Sync!Referred \cup {"NoteOut"}
    BY <1>4, <1>1 DEF Sync!Referred, Sync!Scalars, Sync!Leaf, Sync!Known
<1> QED
    BY <1>2, <1>3, <1>4 DEF Members, found

LEMMA SameCardinalities == \A S : Sync!Cardinality(S) = Cardinality(S)
BY DEF Sync!Cardinality, Cardinality

\* The type of a field that is made of one thing.
LEMMA SingleType ==
    ASSUME NEW t \in Members, NEW declared \in Singles(t), NEW required \in BOOLEAN
    PROVE  LET type == Sync!json_schema_to_swift_type(declared, required) IN
           /\ type.of = Sync!Leaf(t) /\ declared.of \in {{t}, {t, "null"}}
           /\ type.form = IF declared.type = "array" THEN "array" ELSE "one"
           /\ ~required \/ "null" \in declared.of => type.optional
<1> DEFINE type == Sync!json_schema_to_swift_type(declared, required)
<1>1. t # "null"
    BY LeafIsKnown
<1>2. ASSUME NEW form, NEW of, NEW needed \in BOOLEAN
      PROVE  /\ Sync!Swift(form, of, needed).form = form /\ Sync!Swift(form, of, needed).of = of
             /\ Sync!Swift(form, of, needed).optional = ~needed
    BY DEF Sync!Swift
<1>3. (CHOOSE u \in declared.of \ {"null"} : TRUE) = t
  <2>1. declared.of \ {"null"} = {t}
      BY <1>1 DEF Singles, Sync!Plain, Sync!Array, Sync!AnyOf
  <2> QED
      BY <2>1
<1> DEFINE leaf == Sync!Leaf(CHOOSE u \in declared.of \ {"null"} : TRUE)
<1>4. leaf = Sync!Leaf(t)
    BY <1>3
<1>5. /\ declared.type = "plain" => type = Sync!Swift("one", leaf, required)
      /\ declared.type = "array" => type = Sync!Swift("array", leaf, required)
      /\ declared.type = "anyOf" /\ Sync!Cardinality(declared.of \ {"null"}) = 1 =>
           type = Sync!Swift("one", leaf, "null" \notin declared.of)
    BY DEF Sync!json_schema_to_swift_type
<1> HIDE DEF leaf, type
<1>6. CASE declared = Sync!Plain(t)
  <2>1. declared.type = "plain" /\ declared.of = {t} /\ {t} \ {"null"} = {t}
      BY <1>1, <1>6 DEF Sync!Plain
  <2>2. type = Sync!Swift("one", Sync!Leaf(t), required)
      BY <2>1, <1>4, <1>5
  <2>3. type.form = "one" /\ type.of = Sync!Leaf(t) /\ type.optional = ~required
      BY <2>2, <1>2
  <2> QED
      BY <2>1, <2>3, <1>1 DEF type
<1>7. CASE declared = Sync!Array(t)
  <2>1. declared.type = "array" /\ declared.of = {t} /\ {t} \ {"null"} = {t}
      BY <1>1, <1>7 DEF Sync!Array
  <2>2. type = Sync!Swift("array", Sync!Leaf(t), required)
      BY <2>1, <1>4, <1>5
  <2>3. type.form = "array" /\ type.of = Sync!Leaf(t) /\ type.optional = ~required
      BY <2>2, <1>2
  <2> QED
      BY <2>1, <2>3, <1>1 DEF type
<1>8. CASE declared = Sync!AnyOf({t, "null"})
  <2>1. declared.type = "anyOf" /\ declared.of = {t, "null"} /\ {t, "null"} \ {"null"} = {t}
      BY <1>1, <1>8 DEF Sync!AnyOf
  <2>2. Sync!Cardinality({t}) = 1
      BY FS_Singleton, SameCardinalities
  <2>3. type = Sync!Swift("one", Sync!Leaf(t), FALSE)
      BY <2>1, <2>2, <1>4, <1>5
  <2>4. type.form = "one" /\ type.of = Sync!Leaf(t) /\ type.optional
      BY <2>3 DEF Sync!Swift
  <2> QED
      BY <2>1, <2>4 DEF type
<1> QED
    BY <1>6, <1>7, <1>8 DEF Singles, type

\* A union of two is AnyCodable.
LEMMA UnionType ==
    ASSUME NEW declared \in Unions, NEW required \in BOOLEAN
    PROVE  /\ Sync!json_schema_to_swift_type(declared, required).of = "AnyCodable"
           /\ Sync!Cardinality(declared.of \ {"null"}) # 1
<1>1. declared.type = "anyOf" /\ declared.of \ {"null"} = {"integer", "string"}
    BY DEF Unions, Sync!AnyOf
<1>2. Sync!Cardinality({"integer", "string"}) # 1
  <2>1. Cardinality({"integer"}) = 1 /\ IsFiniteSet({"integer"}) /\ "string" \notin {"integer"}
      BY FS_Singleton
  <2>2. Cardinality({"integer"} \cup {"string"}) = 1 + 1
      BY <2>1, FS_AddElement
  <2>3. {"integer", "string"} = {"integer"} \cup {"string"}
      OBVIOUS
  <2> QED
      BY <2>2, <2>3, SameCardinalities
<1>3. Sync!json_schema_to_swift_type(declared, required) = Sync!Swift("one", "AnyCodable", FALSE)
    BY <1>1, <1>2 DEF Sync!json_schema_to_swift_type
<1> QED
    BY <1>1, <1>2, <1>3 DEF Sync!Swift

\* The type of a field is known iff the generator supports its declared; and then
\* whatever the field may hold decodes.
LEMMA FieldDecodes ==
    ASSUME edited.schema \in Sync!FieldTypes, edited.required \in BOOLEAN,
           NEW c, NEW f \in Sync!Fields(c)
    PROVE  LET type == Sync!json_schema_to_swift_type(f.schema, f.required) IN
           /\ type.of \in Sync!Known \cup Sync!discover_schema_classes
                <=> Sync!Supported(f.schema)
           /\ Sync!Supported(f.schema) => \A v \in Sync!Values(f) : Sync!Decodes(type, v)
<1> DEFINE type == Sync!json_schema_to_swift_type(f.schema, f.required)
           found == Sync!discover_schema_classes
<1>1. /\ f.required \in BOOLEAN
      /\ f.schema \in Unions \/ \E t \in Members : f.schema \in Singles(t)
    BY FieldsAre
<1>2. CASE f.schema \in Unions
  <2>1. type.of = "AnyCodable" /\ Sync!Cardinality(f.schema.of \ {"null"}) # 1
      BY <1>1, <1>2, UnionType
  <2>2. "AnyCodable" \notin Sync!Known \cup found
      BY DEF Sync!Known, Sync!discover_schema_classes, Sync!Classes
  <2> HIDE DEF type, found
  <2> QED
      BY <2>1, <2>2 DEF Sync!Supported, type, found
<1>3. CASE \E t \in Members : f.schema \in Singles(t)
  <2>1. PICK t \in Members : f.schema \in Singles(t)
      BY <1>3
  <2>2. /\ type.of = Sync!Leaf(t) /\ f.schema.of \in {{t}, {t, "null"}}
        /\ type.form = IF f.schema.type = "array" THEN "array" ELSE "one"
        /\ ~f.required \/ "null" \in f.schema.of => type.optional
      BY <1>1, <2>1, SingleType
  <2>3. /\ t # "null"
        /\ Sync!Leaf(t) \in Sync!Known \cup found <=> t \in Sync!Scalars \cup found
      BY LeafIsKnown
  <2>4. Sync!Cardinality({t}) = 1 /\ f.schema.of \ {"null"} = {t}
      BY <2>2, <2>3, FS_Singleton, SameCardinalities
  <2> HIDE DEF type, found
  <2>5. Sync!Supported(f.schema) <=> t \in Sync!Scalars \cup found
      BY <2>2, <2>3, <2>4 DEF Sync!Supported, found
  <2>6. ASSUME NEW v \in Sync!Values(f)
        PROVE  Sync!Decodes(type, v)
    <3>1. PICK u \in f.schema.of \cup (IF f.required THEN {} ELSE {"null"}) :
            v = <<f.schema.type, u>>
        BY DEF Sync!Values
    <3>2. v[1] = f.schema.type /\ v[2] = u
        BY <3>1
    <3>3. u = t \/ (u = "null" /\ (~f.required \/ "null" \in f.schema.of))
        BY <2>2, <3>1, <1>1
    <3> QED
        BY <2>2, <2>3, <3>2, <3>3 DEF Sync!Decodes
  <2> QED
      BY <2>2, <2>3, <2>5, <2>6 DEF type, found
<1> QED
    BY <1>1, <1>2, <1>3

\* The file that a passing check has found to be the output.
LEMMA CheckedDecodes == SyncInv => CheckedFileDecodes
<1> DEFINE found == Sync!discover_schema_classes
           type(f) == Sync!json_schema_to_swift_type(f.schema, f.required)
           entry(f) == [let |-> Sync!Camel(f.name), key |-> f.name, type |-> type(f)]
<1> SUFFICES ASSUME SyncInv, outcome.command = "check", outcome.exit = 0, found # {}
             PROVE  /\ DOMAIN file = found
                    /\ Sync!Compiles <=>
                         \A c \in found : \A f \in Sync!Fields(c) : Sync!Supported(f.schema)
                    /\ Sync!Compiles =>
                         \A c \in found : \A f \in Sync!Fields(c) :
                            \E s \in file[c] : /\ s.key = f.name
                                               /\ \A v \in Sync!Values(f) : Sync!Decodes(s.type, v)
    BY DEF CheckedFileDecodes, Sync!CheckedFileDecodes
<1>1. file = Sync!Output /\ edited.schema \in Sync!FieldTypes /\ edited.required \in BOOLEAN
    BY DEF SyncInv
<1>2. DOMAIN file = found /\ \A c \in found : file[c] = {entry(f) : f \in Sync!Fields(c)}
    BY <1>1 DEF Sync!Output, Sync!generate_swift_struct
<1>3. ASSUME NEW c \in found, NEW f \in Sync!Fields(c)
      PROVE  /\ type(f).of \in Sync!Known \cup found <=> Sync!Supported(f.schema)
             /\ Sync!Supported(f.schema) =>
                  \A v \in Sync!Values(f) : Sync!Decodes(type(f), v)
    BY <1>1, FieldDecodes
<1>4. \A f : entry(f).key = f.name /\ entry(f).type = type(f)
    OBVIOUS
<1> HIDE DEF found, type, entry
<1>5. Sync!Compiles <=>
        \A c \in found : \A f \in Sync!Fields(c) : entry(f).type.of \in Sync!Known \cup found
    BY <1>2 DEF Sync!Compiles
<1>6. Sync!Compiles <=>
        \A c \in found : \A f \in Sync!Fields(c) : Sync!Supported(f.schema)
    BY <1>3, <1>4, <1>5
<1>7. ASSUME Sync!Compiles, NEW c \in found, NEW f \in Sync!Fields(c)
      PROVE  \E s \in file[c] : /\ s.key = f.name
                                /\ \A v \in Sync!Values(f) : Sync!Decodes(s.type, v)
  <2>1. \A v \in Sync!Values(f) : Sync!Decodes(type(f), v)
      BY <1>3, <1>6, <1>7
  <2>2. entry(f) \in file[c]
      BY <1>2
  <2> QED
      BY <2>1, <2>2, <1>4
<1> QED
    BY <1>2, <1>6, <1>7

LEMMA SyncPart == PlatformSpec => Sync!Init /\ [][Sync!Next]_sync_vars
<1>1. PlatformInit => Sync!Init
    BY DEF PlatformInit
<1>2. [PlatformNext]_<<part, vars, alembic_vars, sync_vars, eval_vars, tuning_vars, mcp_vars,
                       viewer_vars>> => [Sync!Next]_sync_vars
    BY DEF PlatformNext
<1> QED
    BY <1>1, <1>2, PTL DEF PlatformSpec

\* A check that passes, there being schemas to import, vouches for the file: it has
\* a struct for each, it compiles iff the generator supports every field of theirs,
\* and if it does whatever a field may hold decodes.
THEOREM PlatformCheckedFileDecodes == PlatformSpec => []CheckedFileDecodes
<1>1. Sync!Init => SyncInv
    BY DEF Sync!Init, SyncInv, Sync!FieldTypes, Sync!Scalars
<1>2. SyncInv /\ [Sync!Next]_sync_vars => SyncInv'
  <2> SUFFICES ASSUME SyncInv, [Sync!Next]_sync_vars PROVE SyncInv'
      OBVIOUS
  <2>1. ASSUME UNCHANGED <<edited, broken>>
        PROVE  /\ Sync!discover_schema_classes' = Sync!discover_schema_classes
               /\ Sync!Output' = Sync!Output
      BY <2>1 DEF Sync!discover_schema_classes, Sync!Imports, Sync!Output,
                  Sync!generate_swift_struct, Sync!Fields
  <2>2. CASE UNCHANGED sync_vars
      BY <2>1, <2>2 DEF SyncInv, sync_vars
  <2>3. ASSUME NEW m \in DOMAIN Sync!Classes, Sync!EditModule(m) PROVE SyncInv'
      BY <2>3 DEF SyncInv, Sync!EditModule
  <2>4. ASSUME NEW t \in Sync!FieldTypes, NEW required \in BOOLEAN, Sync!EditField(t, required)
        PROVE  SyncInv'
      BY <2>4 DEF SyncInv, Sync!EditField
  <2>5. CASE Sync!Sync
      BY <2>5 DEF SyncInv, Sync!Sync
  <2>6. CASE Sync!Check
    <3>1. UNCHANGED <<edited, broken, file>>
        BY <2>6 DEF Sync!Check
    <3>2. outcome'.exit = 0 => Sync!discover_schema_classes = {} \/ file = Sync!Output
        BY <2>6 DEF Sync!Check
    <3> QED
        BY <2>1, <3>1, <3>2 DEF SyncInv
  <2> QED
      BY <2>2, <2>3, <2>4, <2>5, <2>6 DEF Sync!Next
<1> QED
    BY <1>1, <1>2, CheckedDecodes, SyncPart, PTL

-----------------------------------------------------------------------------
(* The evaluation of an MCP server *)

Scores == [score : {0, 1}, num_tool_calls : Nat]

\* What the report is to say of question i.
Graded(i) ==
    /\ task_results[i].num_tool_calls = served[i].calls
    /\ task_results[i].score = 1 => Mcp!RightSomewhere(i)
    /\ Len(served[i].said) = 1 => (task_results[i].score = 1 <=> Mcp!RightAtLast(i))

\* A function that adds up the scores of a sequence from its first element on.
Adds1Up(f, rs) ==
    f = [n \in 0 .. Len(rs) |-> IF n = 0 THEN 0 ELSE f[n - 1] + rs[n]["score"]]

RightOnes(rs) == {i \in 1 .. Len(rs) : rs[i].score = 1}

SumsUp(rs) ==
    /\ \E f : Adds1Up(f, rs)
    /\ \A f : Adds1Up(f, rs) => f[Len(rs)] = Cardinality(RightOnes(rs))

McpTypes ==
    /\ qa_pairs \in {0, Questions}
    /\ task_results \in Seq(Scores) /\ Len(task_results) <= qa_pairs
    /\ turns \in Nat
    /\ served = [i \in 1 .. Questions |-> served[i]]
    /\ \A i \in 1 .. Questions : DOMAIN served[i] = {"said", "calls"}

\* Where the evaluation is, and what it knows of the conversation it is in.
McpPlaces ==
    /\ phase \in {"entering", "listing", "reading", "prompting", "calling", "replied",
                  "reporting", "done", "raised"}
    /\ phase \in {"entering", "listing", "reading"} => qa_pairs = 0
    /\ phase \in {"prompting", "calling", "replied"} => Len(task_results) < qa_pairs
    /\ phase \in {"reporting", "done"} => Len(task_results) = qa_pairs
    /\ phase = "replied" => reply \in Mcp!Replies /\ served[Len(task_results) + 1].said = reply.text
    /\ phase \in {"done", "raised"} => stack = <<>>
    /\ phase # "done" => report = None

McpCounts ==
    /\ \A i \in 1 .. Len(task_results) : Graded(i)
    /\ phase \in {"entering", "listing", "reading", "prompting", "calling", "replied"} =>
         \A i \in Len(task_results) + 1 .. Questions :
            served[i].calls = IF i = Len(task_results) + 1 THEN turns ELSE 0
    /\ SumsUp(task_results)

McpInv == McpTypes /\ McpPlaces /\ McpCounts /\ ReportIsOfItsConversations

\* One more score: the sum goes up by it, and so does the number of right ones.
LEMMA OneMoreSums ==
    ASSUME NEW rs \in Seq(Scores), NEW s \in Scores, SumsUp(rs)
    PROVE  SumsUp(Append(rs, s))
<1> DEFINE n == Len(rs)
           longer == Append(rs, s)
<1>1. /\ n \in Nat /\ Len(longer) = n + 1 /\ longer[n + 1] = s
      /\ \A i \in 1 .. n : longer[i] = rs[i]
      /\ s.score \in {0, 1}
    BY AppendProperties, LenProperties DEF Scores
<1>2. \A i \in 1 .. n : rs[i]["score"] = longer[i]["score"]
    BY <1>1
<1>3. longer[n + 1]["score"] = s.score
    BY <1>1
<1>4. RightOnes(rs) = {i \in 1 .. n : rs[i].score = 1} /\ Cardinality(RightOnes(rs)) \in Nat
      /\ IsFiniteSet(RightOnes(rs)) /\ n + 1 \notin RightOnes(rs)
  <2>1. RightOnes(rs) \subseteq 1 .. n /\ n + 1 \notin RightOnes(rs)
      BY <1>1 DEF RightOnes
  <2>2. IsFiniteSet(1 .. n)
      BY <1>1, FS_Interval
  <2>3. IsFiniteSet(RightOnes(rs))
      BY <2>1, <2>2, FS_Subset
  <2> QED
      BY <2>1, <2>3, FS_CardinalityType DEF RightOnes
<1>5. RightOnes(longer) = RightOnes(rs) \cup (IF s.score = 1 THEN {n + 1} ELSE {})
    BY <1>1 DEF RightOnes
<1>6. Cardinality(RightOnes(longer)) = Cardinality(RightOnes(rs)) + s.score
  <2>1. CASE s.score = 1
    <3>1. RightOnes(longer) = RightOnes(rs) \cup {n + 1}
        BY <1>5, <2>1
    <3> QED
        BY <3>1, <2>1, <1>4, FS_AddElement
  <2>2. CASE s.score = 0
    <3>1. RightOnes(longer) = RightOnes(rs)
        BY <1>5, <2>2
    <3> QED
        BY <3>1, <2>2, <1>4
  <2> QED
      BY <2>1, <2>2, <1>1
<1>7. \E f : Adds1Up(f, longer)
  <2>1. PICK g : Adds1Up(g, rs)
      BY DEF SumsUp
  <2> DEFINE f == [i \in 0 .. n + 1 |-> IF i = n + 1 THEN g[n] + s.score ELSE g[i]]
  <2>2. ASSUME NEW i \in 0 .. n + 1
        PROVE  f[i] = IF i = 0 THEN 0 ELSE f[i - 1] + longer[i]["score"]
    <3>1. CASE i = n + 1
      <4>1. i - 1 = n /\ n \in 0 .. n + 1 /\ n # n + 1 /\ i # 0
          BY <3>1, <1>1
      <4>2. f[i] = g[n] + s.score /\ f[n] = g[n]
          BY <4>1, <3>1
      <4> HIDE DEF f
      <4> QED
          BY <4>1, <4>2, <3>1, <1>3
    <3>2. CASE i # n + 1
      <4>1. i \in 0 .. n /\ (i # 0 => i \in 1 .. n /\ i - 1 \in 0 .. n + 1 /\ i - 1 # n + 1)
          BY <3>2, <1>1
      <4>2. g[i] = IF i = 0 THEN 0 ELSE g[i - 1] + rs[i]["score"]
          BY <4>1, <2>1 DEF Adds1Up
      <4>3. f[i] = g[i] /\ (i # 0 => f[i - 1] = g[i - 1])
          BY <4>1, <3>2
      <4> HIDE DEF f
      <4> QED
          BY <4>1, <4>2, <4>3, <1>2
    <3> QED
        BY <3>1, <3>2
  <2>3. f = [i \in 0 .. n + 1 |-> IF i = 0 THEN 0 ELSE f[i - 1] + longer[i]["score"]]
    <3>1. f = [i \in 0 .. n + 1 |-> f[i]]
        OBVIOUS
    <3> HIDE DEF f
    <3> QED
        BY <3>1, <2>2
  <2> QED
      BY <2>3, <1>1 DEF Adds1Up
<1>8. ASSUME NEW f, Adds1Up(f, longer)
      PROVE  f[n + 1] = Cardinality(RightOnes(longer))
  <2>1. f = [i \in 0 .. n + 1 |-> IF i = 0 THEN 0 ELSE f[i - 1] + longer[i]["score"]]
      BY <1>8, <1>1 DEF Adds1Up
  <2> DEFINE g == [i \in 0 .. n |-> f[i]]
  <2>2. ASSUME NEW i \in 0 .. n
        PROVE  g[i] = IF i = 0 THEN 0 ELSE g[i - 1] + rs[i]["score"]
    <3>1. i \in 0 .. n + 1 /\ (i # 0 => i - 1 \in 0 .. n /\ i \in 1 .. n)
        BY <1>1
    <3>2. f[i] = IF i = 0 THEN 0 ELSE f[i - 1] + longer[i]["score"]
        BY <2>1, <3>1
    <3>3. g[i] = f[i] /\ (i # 0 => g[i - 1] = f[i - 1])
        BY <3>1
    <3> HIDE DEF g
    <3> QED
        BY <3>1, <3>2, <3>3, <1>2
  <2>3. g = [i \in 0 .. n |-> IF i = 0 THEN 0 ELSE g[i - 1] + rs[i]["score"]]
    <3>1. g = [i \in 0 .. n |-> g[i]]
        OBVIOUS
    <3> HIDE DEF g
    <3> QED
        BY <3>1, <2>2
  <2>4. g[n] = Cardinality(RightOnes(rs))
      BY <2>3 DEF Adds1Up, SumsUp
  <2>5. f[n] = g[n] /\ n + 1 \in 0 .. n + 1 /\ n + 1 # 0 /\ (n + 1) - 1 = n
      BY <1>1
  <2>6. f[n + 1] = f[n] + longer[n + 1]["score"]
      BY <2>1, <2>5
  <2> QED
      BY <2>4, <2>5, <2>6, <1>3, <1>6
<1> QED
    BY <1>1, <1>7, <1>8 DEF SumsUp

\* A grade is of one score and one conversation.
LEMMA GradeStays ==
    ASSUME NEW i, served'[i] = served[i], task_results'[i] = task_results[i], Graded(i)
    PROVE  Graded(i)'
<1>1. Mcp!RightSomewhere(i)' <=> Mcp!RightSomewhere(i)
    BY DEF Mcp!RightSomewhere
<1>2. Mcp!LastResponse(served[i].said)' = Mcp!LastResponse(served[i].said)
    BY DEF Mcp!LastResponse
<1> QED
    BY <1>1, <1>2 DEF Graded, Mcp!RightAtLast

\* Steps that change nothing the counts are of.
SameCounts == UNCHANGED <<qa_pairs, turns, task_results, served>>

LEMMA CountsKeep ==
    ASSUME McpInv, SameCounts
    PROVE  /\ McpTypes' /\ SumsUp(task_results)'
           /\ (\A i \in 1 .. Len(task_results) : Graded(i))'
<1>1. qa_pairs' = qa_pairs /\ turns' = turns /\ task_results' = task_results /\ served' = served
    BY DEF SameCounts
<1>2. McpTypes'
    BY <1>1 DEF McpInv, McpTypes
<1>3. SumsUp(task_results)'
    BY <1>1 DEF McpInv, McpCounts, SumsUp, RightOnes
<1>4. (\A i \in 1 .. Len(task_results) : Graded(i))'
    BY <1>1, GradeStays DEF McpInv, McpCounts
<1> QED
    BY <1>2, <1>3, <1>4

\* Before the conversations, and when one is broken off.
LEMMA McpAroundKeeps ==
    ASSUME McpInv, Mcp!Enter \/ Mcp!Fails \/ Mcp!ListTools \/ Mcp!NoText
    PROVE  McpInv'
<1>1. /\ qa_pairs' = qa_pairs /\ reply' = reply /\ turns' = turns
      /\ task_results' = task_results /\ report' = report /\ served' = served
      /\ \/ phase = "entering" /\ phase' \in {"entering", "listing"}
         \/ phase = "listing" /\ phase' = "reading"
         \/ phase \in {"entering", "listing", "prompting", "replied", "reporting"}
              /\ phase' = "raised"
              /\ stack' = <<>>
    BY DEF Mcp!Enter, Mcp!Fails, Mcp!ListTools, Mcp!NoText, Mcp!Goes, Mcp!Raises,
           Mcp!Conversation
<1>2. McpPlaces'
    BY <1>1 DEF McpInv, McpPlaces
<1>3. McpCounts'
    BY <1>1, CountsKeep DEF McpInv, McpCounts, SameCounts
<1>4. ReportIsOfItsConversations'
    BY <1>1, <1>2 DEF McpPlaces, ReportIsOfItsConversations, Mcp!ReportIsOfItsConversations
<1> QED
    BY <1>1, <1>2, <1>3, <1>4, CountsKeep DEF McpInv, SameCounts

LEMMA ReadKeeps ==
    ASSUME McpInv, Mcp!Read
    PROVE  McpInv'
<1>1. /\ phase = "reading" /\ qa_pairs' \in {0, Questions}
      /\ phase' = IF qa_pairs' = 0 THEN "reporting" ELSE "prompting"
      /\ turns' = turns /\ reply' = reply /\ task_results' = task_results /\ report' = report
      /\ served' = served
    BY DEF Mcp!Read, Mcp!Goes
<1>2. /\ qa_pairs = 0 /\ Len(task_results) = 0 /\ report = None
      /\ task_results \in Seq(Scores) /\ turns \in Nat
    BY <1>1, LenProperties DEF McpInv, McpTypes, McpPlaces
<1>3. McpTypes'
    BY <1>1, <1>2, AnswerAssumption DEF McpInv, McpTypes
<1>4. McpPlaces'
    BY <1>1, <1>2, AnswerAssumption DEF McpInv, McpPlaces
<1>5. SumsUp(task_results)'
    BY <1>1 DEF McpInv, McpCounts, SumsUp, Adds1Up, RightOnes
<1>6. McpCounts'
    BY <1>1, <1>2, <1>5 DEF McpInv, McpCounts
<1>7. ReportIsOfItsConversations'
    BY <1>1, <1>2 DEF ReportIsOfItsConversations, Mcp!ReportIsOfItsConversations
<1> QED
    BY <1>3, <1>4, <1>6, <1>7 DEF McpInv

\* In a conversation, what is known of those before it stays.
LEMMA InConversation ==
    ASSUME McpInv, phase \in {"prompting", "calling", "replied"}
    PROVE  /\ report = None /\ Questions \in Nat /\ qa_pairs = Questions
           /\ Len(task_results) \in Nat /\ turns \in Nat
           /\ Len(task_results) + 1 \in 1 .. Questions
           /\ Len(task_results) + 1 \notin 1 .. Len(task_results)
           /\ 1 .. Len(task_results) \subseteq 1 .. Questions
           /\ \A i \in Len(task_results) + 1 .. Questions :
                i \in 1 .. Questions
                /\ served[i].calls = IF i = Len(task_results) + 1 THEN turns ELSE 0
<1>1. /\ report = None /\ Len(task_results) < qa_pairs /\ qa_pairs \in {0, Questions}
      /\ task_results \in Seq(Scores) /\ turns \in Nat
      /\ \A i \in Len(task_results) + 1 .. Questions :
           served[i].calls = IF i = Len(task_results) + 1 THEN turns ELSE 0
    BY DEF McpInv, McpTypes, McpPlaces, McpCounts
<1>2. Len(task_results) \in Nat /\ Questions \in Nat
    BY <1>1, LenProperties, AnswerAssumption
<1>3. qa_pairs = Questions
    BY <1>1, <1>2
<1> QED
    BY <1>1, <1>2, <1>3

LEMMA OthersAreGraded ==
    ASSUME McpInv, phase \in {"prompting", "calling", "replied"}, task_results' = task_results,
           \A i \in 1 .. Questions : i # Len(task_results) + 1 => served'[i] = served[i]
    PROVE  (\A i \in 1 .. Len(task_results) : Graded(i))' /\ SumsUp(task_results)'
<1>1. ASSUME NEW i \in 1 .. Len(task_results) PROVE Graded(i)'
  <2>1. served'[i] = served[i]
      BY InConversation
  <2> QED
      BY <2>1, GradeStays DEF McpInv, McpCounts
<1>2. SumsUp(task_results)'
    BY DEF McpInv, McpCounts, SumsUp, Adds1Up, RightOnes
<1> QED
    BY <1>1, <1>2

\* A message of Claude is served in its conversation.
LEMMA PromptKeeps ==
    ASSUME McpInv, Mcp!Prompt
    PROVE  McpInv'
<1> DEFINE c == Len(task_results) + 1
<1>1. /\ phase = "prompting" /\ qa_pairs' = qa_pairs /\ task_results' = task_results
      /\ report' = report /\ turns' = turns
    BY DEF Mcp!Prompt
<1>2. PICK r \in Mcp!Replies :
        /\ reply' = r /\ phase' \in {"calling", "replied"}
        /\ served' = [served EXCEPT ![c].said = r.text]
    BY DEF Mcp!Prompt, Mcp!Goes, Mcp!Current
<1>3. /\ served' = [i \in 1 .. Questions |-> served'[i]]
      /\ DOMAIN served'[c] = {"said", "calls"}
      /\ served'[c].said = r.text /\ served'[c].calls = served[c].calls
      /\ \A i \in 1 .. Questions : i # c => served'[i] = served[i]
    BY <1>1, <1>2, InConversation DEF McpInv, McpTypes
<1>4. McpTypes'
    BY <1>1, <1>3 DEF McpInv, McpTypes
<1>5. McpPlaces'
    BY <1>1, <1>2, <1>3 DEF McpInv, McpPlaces
<1>6. McpCounts'
  <2>1. \A i \in c .. Questions : served'[i].calls = IF i = c THEN turns ELSE 0
      BY <1>1, <1>3, InConversation
  <2> QED
      BY <2>1, <1>1, <1>3, OthersAreGraded DEF McpCounts
<1>7. ReportIsOfItsConversations'
    BY <1>1, <1>2, InConversation
    DEF ReportIsOfItsConversations, Mcp!ReportIsOfItsConversations
<1> QED
    BY <1>4, <1>5, <1>6, <1>7 DEF McpInv

\* Its call is answered, and counted in its conversation.
LEMMA CallToolKeeps ==
    ASSUME McpInv, Mcp!CallTool
    PROVE  McpInv'
<1> DEFINE c == Len(task_results) + 1
<1>1. /\ phase = "calling" /\ phase' = "prompting" /\ qa_pairs' = qa_pairs
      /\ task_results' = task_results /\ report' = report /\ turns' = turns + 1
      /\ served' = [served EXCEPT ![c].calls = @ + 1]
    BY DEF Mcp!CallTool, Mcp!Goes, Mcp!Current
<1>2. c \in 1 .. Questions /\ served[c].calls = turns /\ turns \in Nat
    BY <1>1, InConversation
<1>3. /\ served' = [i \in 1 .. Questions |-> served'[i]]
      /\ DOMAIN served'[c] = {"said", "calls"}
      /\ served'[c].calls = turns'
      /\ \A i \in 1 .. Questions : i # c => served'[i] = served[i]
    BY <1>1, <1>2 DEF McpInv, McpTypes
<1>4. McpTypes'
    BY <1>1, <1>2, <1>3 DEF McpInv, McpTypes
<1>5. McpPlaces'
    BY <1>1, InConversation DEF McpInv, McpPlaces
<1>6. McpCounts'
  <2>1. \A i \in c .. Questions : served'[i].calls = IF i = c THEN turns' ELSE 0
      BY <1>1, <1>3, InConversation
  <2> QED
      BY <2>1, <1>1, <1>3, OthersAreGraded DEF McpCounts
<1>7. ReportIsOfItsConversations'
    BY <1>1, InConversation DEF ReportIsOfItsConversations, Mcp!ReportIsOfItsConversations
<1> QED
    BY <1>4, <1>5, <1>6, <1>7 DEF McpInv

\* A text that has a block, and a last element in the first block unless it is empty.
Blocks(text) ==
    /\ 1 \in DOMAIN text /\ (text[1] # <<>> => Len(text[1]) \in DOMAIN text[1])
    /\ Len(text) = 1 => DOMAIN text = {1}

\* What is extracted is in the message, and its last response if that has one block.
LEMMA Extraction ==
    ASSUME NEW text, Blocks(text)
    PROVE  /\ Mcp!Extracted(text) = "right" =>
                \E b \in DOMAIN text : \E e \in DOMAIN text[b] : text[b][e] = "right"
           /\ Len(text) = 1 =>
                (Mcp!Extracted(text) = "right" <=> Mcp!LastResponse(text) = "right")
<1>1. /\ 1 \in DOMAIN text /\ (text[1] # <<>> => Len(text[1]) \in DOMAIN text[1])
      /\ Len(text) = 1 => DOMAIN text = {1}
    BY DEF Blocks
<1>2. CASE text[1] = <<>>
  <2>1. Mcp!Extracted(text) = None /\ None # "right"
      BY <1>2, AnswerAssumption DEF Mcp!Extracted
  <2>2. ASSUME Len(text) = 1 PROVE Mcp!LastResponse(text) = None
    <3>1. {b \in DOMAIN text : text[b] # <<>>} = {}
        BY <1>1, <1>2, <2>2
    <3> QED
        BY <3>1 DEF Mcp!LastResponse
  <2> QED
      BY <2>1, <2>2
<1>3. CASE text[1] # <<>>
  <2>1. /\ Mcp!Extracted(text) = text[1][Len(text[1])]
        /\ Len(text[1]) \in DOMAIN text[1]
      BY <1>1, <1>3 DEF Mcp!Extracted
  <2>2. ASSUME Len(text) = 1 PROVE Mcp!LastResponse(text) = text[1][Len(text[1])]
    <3> DEFINE saying == {b \in DOMAIN text : text[b] # <<>>}
               first == CHOOSE b \in saying : \A c \in saying : c <= b
    <3>1. saying = {1}
        BY <1>1, <1>3, <2>2
    <3> HIDE DEF saying
    <3>2. first = 1
        BY <3>1
    <3>3. Mcp!LastResponse(text) = text[first][Len(text[first])]
        BY <3>1 DEF Mcp!LastResponse, saying
    <3> QED
        BY <3>2, <3>3
  <2> QED
      BY <1>1, <2>1, <2>2
<1> QED
    BY <1>2, <1>3

\* The score is of what is extracted from this conversation, the calls are its own.
LEMMA ScoredKeeps ==
    ASSUME McpInv, Mcp!Score
    PROVE  McpInv'
<1> DEFINE c == Len(task_results) + 1
           s == [score |-> IF Mcp!Extracted(reply.text) = "right" THEN 1 ELSE 0,
                 num_tool_calls |-> turns]
<1>1. /\ phase = "replied" /\ reply.text # <<>> /\ task_results' = Append(task_results, s)
      /\ phase' = IF Len(task_results') = qa_pairs THEN "reporting" ELSE "prompting"
      /\ turns' = 0 /\ qa_pairs' = qa_pairs /\ report' = report /\ served' = served
    BY DEF Mcp!Score, Mcp!Goes, Mcp!FreshTurns
<1>2. /\ c \in 1 .. Questions /\ served[c].calls = turns /\ turns \in Nat
      /\ served[c].said = reply.text
    BY <1>1, InConversation DEF McpInv, McpPlaces
<1>3. /\ s \in Scores /\ s.num_tool_calls = served[c].calls
      /\ s.score = 1 => Mcp!RightSomewhere(c)
      /\ Len(served[c].said) = 1 => (s.score = 1 <=> Mcp!RightAtLast(c))
  <2>1. Blocks(reply.text)
    <3>1. reply.text \in Mcp!Said \cup {<<<<>>>>} /\ reply.text # <<>>
        BY <1>1 DEF McpInv, McpPlaces, Mcp!Replies, Mcp!Said
    <3>2. /\ Blocks(<<<<"right">>>>) /\ Blocks(<<<<"wrong">>>>) /\ Blocks(<<<<>>>>)
          /\ Blocks(<<<<"wrong", "right">>>>) /\ Blocks(<<<<"right", "wrong">>>>)
        BY DEF Blocks
    <3>3. Blocks(<<<<>>, <<"right">>>>) /\ Blocks(<<<<"right">>, <<"wrong">>>>)
        BY DEF Blocks
    <3> QED
        BY <3>1, <3>2, <3>3 DEF Mcp!Said
  <2>2. s.score = 1 <=> Mcp!Extracted(reply.text) = "right"
      OBVIOUS
  <2> HIDE DEF s
  <2>3. /\ s.score = 1 => Mcp!RightSomewhere(c)
        /\ Len(served[c].said) = 1 => (s.score = 1 <=> Mcp!RightAtLast(c))
      BY <1>1, <1>2, <2>1, <2>2, Extraction DEF Mcp!RightSomewhere, Mcp!RightAtLast
  <2>4. s \in Scores /\ s.num_tool_calls = served[c].calls
      BY <1>2 DEF Scores, s
  <2> QED
      BY <2>3, <2>4
<1> HIDE DEF s
<1>4. /\ task_results \in Seq(Scores) /\ Len(task_results) \in Nat
      /\ task_results' \in Seq(Scores) /\ Len(task_results') = c
      /\ task_results'[c] = s
      /\ \A i \in 1 .. Len(task_results) : task_results'[i] = task_results[i]
    BY <1>1, <1>3, LenProperties, AppendProperties DEF McpInv, McpTypes
<1>5. McpTypes'
    BY <1>1, <1>2, <1>4, InConversation DEF McpInv, McpTypes
<1>6. McpPlaces'
    BY <1>1, <1>2, <1>4, InConversation DEF McpInv, McpPlaces
<1>7. McpCounts'
  <2>1. ASSUME NEW i \in 1 .. c PROVE Graded(i)'
    <3>1. CASE i = c
      <4>1. served' = served /\ task_results'[i] = s
          BY <3>1, <1>1, <1>4
      <4>2. Mcp!RightSomewhere(i)' <=> Mcp!RightSomewhere(i)
          BY <4>1 DEF Mcp!RightSomewhere
      <4>3. Mcp!RightAtLast(i)' <=> Mcp!RightAtLast(i)
          BY <4>1 DEF Mcp!RightAtLast, Mcp!LastResponse
      <4>4. /\ s.num_tool_calls = served[i].calls
            /\ s.score = 1 => Mcp!RightSomewhere(i)
            /\ Len(served[i].said) = 1 => (s.score = 1 <=> Mcp!RightAtLast(i))
          BY <3>1, <1>3
      <4> QED
          BY <4>1, <4>2, <4>3, <4>4 DEF Graded
    <3>2. CASE i # c
      <4>1. i \in 1 .. Len(task_results)
          BY <3>2, <1>4
      <4> QED
          BY <4>1, <1>1, <1>4, GradeStays DEF McpInv, McpCounts
    <3> QED
        BY <3>1, <3>2
  <2>2. \A i \in c + 1 .. Questions : served'[i].calls = 0
      BY <1>1, <1>4, InConversation
  <2>3. SumsUp(task_results')
      BY <1>1, <1>3, <1>4, OneMoreSums DEF McpInv, McpCounts
  <2>4. SumsUp(task_results)'
      BY <2>3 DEF SumsUp, Adds1Up, RightOnes
  <2> QED
      BY <2>1, <2>2, <2>4, <1>1, <1>4 DEF McpCounts
<1>8. ReportIsOfItsConversations'
    BY <1>1, InConversation DEF ReportIsOfItsConversations, Mcp!ReportIsOfItsConversations
<1> QED
    BY <1>5, <1>6, <1>7, <1>8 DEF McpInv

\* A function that adds up the calls of the scores, and one that adds up those made:
\* the same functions, if every score has the calls of its own conversation.
AddsCallsUp(f) ==
    f = [n \in 0 .. Len(task_results) |->
           IF n = 0 THEN 0 ELSE f[n - 1] + task_results[n]["num_tool_calls"]]
AddsMadeUp(f, last) ==
    f = [n \in 0 .. last |-> IF n = 0 THEN 0 ELSE f[n - 1] + served[n].calls]

LEMMA CallsSumUp ==
    ASSUME NEW last \in Nat, Len(task_results) = last, \A i \in 1 .. last : Graded(i)
    PROVE  Mcp!Total("num_tool_calls") = Mcp!CallsMade(last)
<1>1. ASSUME NEW f, NEW n \in 0 .. last
      PROVE  (IF n = 0 THEN 0 ELSE f[n - 1] + task_results[n]["num_tool_calls"])
               = (IF n = 0 THEN 0 ELSE f[n - 1] + served[n].calls)
  <2>1. n = 0 \/ n \in 1 .. last
      OBVIOUS
  <2>2. n \in 1 .. last => task_results[n]["num_tool_calls"] = served[n].calls
      BY DEF Graded
  <2> QED
      BY <2>1, <2>2
<1>2. \A f : AddsCallsUp(f) <=> AddsMadeUp(f, last)
    BY <1>1 DEF AddsCallsUp, AddsMadeUp
<1>3. (CHOOSE f : AddsCallsUp(f)) = (CHOOSE f : AddsMadeUp(f, last))
    BY <1>2, Zenon
<1>4. /\ Mcp!Total("num_tool_calls") = (CHOOSE f : AddsCallsUp(f))[Len(task_results)]
      /\ Mcp!CallsMade(last) = (CHOOSE f : AddsMadeUp(f, last))[last]
    BY DEF Mcp!Total, Mcp!CallsMade, AddsCallsUp, AddsMadeUp
<1> QED
    BY <1>3, <1>4

\* The totals are those of the scores and of the calls made.
LEMMA ReportKeeps ==
    ASSUME McpInv, Mcp!Report
    PROVE  McpInv'
<1>1. /\ phase = "reporting" /\ phase' = "done" /\ stack' = <<>>
      /\ report' = [correct |-> Mcp!Total("score"), total |-> Len(task_results),
                    calls |-> Mcp!Total("num_tool_calls"), tasks |-> task_results]
      /\ qa_pairs' = qa_pairs /\ reply' = reply /\ turns' = turns
      /\ task_results' = task_results /\ served' = served
    BY DEF Mcp!Report, Mcp!Goes
<1>2. /\ Len(task_results) = qa_pairs /\ task_results \in Seq(Scores) /\ SumsUp(task_results)
      /\ \A i \in 1 .. qa_pairs : Graded(i)
    BY <1>1 DEF McpInv, McpTypes, McpPlaces, McpCounts
<1>3. Mcp!Total("score") = Cardinality(RightOnes(task_results))
  <2> DEFINE f == CHOOSE g : Adds1Up(g, task_results)
  <2>1. Adds1Up(f, task_results)
      BY <1>2 DEF SumsUp
  <2>2. Mcp!Total("score") = f[Len(task_results)]
      BY DEF Mcp!Total, Adds1Up
  <2> HIDE DEF f
  <2> QED
      BY <2>1, <2>2, <1>2 DEF SumsUp
<1>4. Mcp!Total("num_tool_calls") = Mcp!CallsMade(qa_pairs)
  <2>1. qa_pairs \in Nat
      BY <1>2, LenProperties
  <2> QED
      BY <2>1, <1>2, CallsSumUp
<1>5. /\ report'.total = qa_pairs /\ report'.tasks = task_results
      /\ report'.correct = Cardinality({i \in 1 .. qa_pairs : task_results[i].score = 1})
      /\ report'.calls = Mcp!CallsMade(qa_pairs)
    BY <1>1, <1>2, <1>3, <1>4 DEF RightOnes
<1>6. Mcp!CallsMade(qa_pairs)' = Mcp!CallsMade(qa_pairs)
    BY <1>1 DEF Mcp!CallsMade
<1>7. ReportIsOfItsConversations'
  <2>1. \A S : Mcp!Cardinality(S) = Cardinality(S)
      BY DEF Mcp!Cardinality, Cardinality
  <2>2. ASSUME NEW i \in 1 .. qa_pairs
        PROVE  /\ task_results[i].num_tool_calls = served'[i].calls
               /\ task_results[i].score = 1 => Mcp!RightSomewhere(i)'
               /\ Len(served'[i].said) = 1 =>
                    (task_results[i].score = 1 <=> Mcp!RightAtLast(i)')
    <3>1. served' = served
        BY <1>1
    <3>2. Mcp!RightSomewhere(i)' <=> Mcp!RightSomewhere(i)
        BY <3>1 DEF Mcp!RightSomewhere
    <3>3. Mcp!RightAtLast(i)' <=> Mcp!RightAtLast(i)
        BY <3>1 DEF Mcp!RightAtLast, Mcp!LastResponse
    <3>4. Graded(i)
        BY <1>2
    <3> QED
        BY <3>1, <3>2, <3>3, <3>4 DEF Graded
  <2> QED
      BY <2>1, <2>2, <1>1, <1>5, <1>6
      DEF ReportIsOfItsConversations, Mcp!ReportIsOfItsConversations
<1>8. McpPlaces'
    BY <1>1, <1>2 DEF McpInv, McpPlaces
<1>9. McpCounts'
    BY <1>1, CountsKeep DEF McpCounts, SameCounts
<1> QED
    BY <1>1, <1>7, <1>8, <1>9, CountsKeep DEF McpInv, SameCounts

LEMMA McpPart == PlatformSpec => Mcp!Init /\ [][Mcp!Next]_mcp_vars
<1>1. PlatformInit => Mcp!Init
    BY DEF PlatformInit
<1>2. [PlatformNext]_<<part, vars, alembic_vars, sync_vars, eval_vars, tuning_vars, mcp_vars,
                       viewer_vars>> => [Mcp!Next]_mcp_vars
    BY DEF PlatformNext
<1> QED
    BY <1>1, <1>2, PTL DEF PlatformSpec

LEMMA NothingSumsUp == SumsUp(<<>>)
<1>1. RightOnes(<<>>) = {} /\ Cardinality({}) = 0
    BY FS_EmptySet DEF RightOnes
<1>2. Adds1Up([n \in 0 .. 0 |-> 0], <<>>)
    BY DEF Adds1Up
<1>3. \A f : Adds1Up(f, <<>>) => f[0] = 0
    BY DEF Adds1Up
<1> QED
    BY <1>1, <1>2, <1>3 DEF SumsUp

\* The report is of the whole file, its totals are those of the scores and of the
\* calls made; a score is of its own conversation, and of the last response in it
\* unless that came in a message of several text blocks.
THEOREM PlatformReportIsOfItsConversations == PlatformSpec => []ReportIsOfItsConversations
<1>1. Mcp!Init => McpInv
  <2> SUFFICES ASSUME Mcp!Init PROVE McpInv
      OBVIOUS
  <2>1. /\ phase = "entering" /\ qa_pairs = 0 /\ turns = 0 /\ task_results = <<>>
        /\ report = None
        /\ served = [i \in 1 .. Questions |-> [said |-> None, calls |-> 0]]
      BY DEF Mcp!Init
  <2>2. McpTypes
      BY <2>1, EmptySeq DEF McpTypes
  <2>3. McpPlaces
      BY <2>1 DEF McpPlaces
  <2>4. McpCounts
      BY <2>1, NothingSumsUp, EmptySeq DEF McpCounts
  <2>5. ReportIsOfItsConversations
      BY <2>1 DEF ReportIsOfItsConversations, Mcp!ReportIsOfItsConversations
  <2> QED
      BY <2>2, <2>3, <2>4, <2>5 DEF McpInv
<1>2. McpInv /\ [Mcp!Next]_mcp_vars => McpInv'
  <2> SUFFICES ASSUME McpInv, [Mcp!Next]_mcp_vars PROVE McpInv'
      OBVIOUS
  <2>1. CASE UNCHANGED mcp_vars
    <3>1. /\ phase' = phase /\ stack' = stack /\ qa_pairs' = qa_pairs /\ reply' = reply
          /\ report' = report /\ task_results' = task_results /\ served' = served
        BY <2>1 DEF mcp_vars
    <3>2. /\ Mcp!CallsMade(qa_pairs)' = Mcp!CallsMade(qa_pairs)
          /\ \A i : Mcp!RightSomewhere(i)' <=> Mcp!RightSomewhere(i)
          /\ \A i : Mcp!RightAtLast(i)' <=> Mcp!RightAtLast(i)
      <4>1. \A text : Mcp!LastResponse(text)' = Mcp!LastResponse(text)
          BY DEF Mcp!LastResponse
      <4> QED
          BY <3>1, <4>1 DEF Mcp!CallsMade, Mcp!RightSomewhere, Mcp!RightAtLast
    <3>3. McpPlaces' /\ ReportIsOfItsConversations'
        BY <3>1, <3>2 DEF McpInv, McpPlaces, ReportIsOfItsConversations,
                          Mcp!ReportIsOfItsConversations
    <3>4. McpCounts'
        BY <2>1, CountsKeep DEF McpInv, McpCounts, SameCounts, mcp_vars
    <3> QED
        BY <2>1, <3>3, <3>4, CountsKeep DEF McpInv, SameCounts, mcp_vars
  <2>2. CASE Mcp!Next
      BY <2>2, McpAroundKeeps, ReadKeeps, PromptKeeps, CallToolKeeps, ScoredKeeps, ReportKeeps
      DEF Mcp!Next
  <2> QED
      BY <2>1, <2>2
<1>3. McpInv => ReportIsOfItsConversations
    BY DEF McpInv
<1> QED
    BY <1>1, <1>2, <1>3, McpPart, PTL

-----------------------------------------------------------------------------
(* The review viewer: the file says what the user said *)

\* A set of natural numbers has a least one.
LEMMA LeastOne ==
    ASSUME NEW T \in SUBSET Nat, T # {}
    PROVE  \E m \in T : \A n \in T : m <= n
<1> DEFINE Less == {ss \in Nat \X Nat : ss[1] < ss[2]}
<1>1. IsWellFoundedOn(Less, Nat)
    BY NatLessThanWellFounded DEF OpToRel
<1>2. ASSUME NEW x \in Nat, NEW y \in Nat, x < y
      PROVE  <<x, y>> \in Less
    <2>1. <<x, y>> \in Nat \X Nat /\ <<x, y>>[1] = x /\ <<x, y>>[2] = y
        OBVIOUS
    <2> QED
        BY <1>2, <2>1, Zenon
<1> HIDE DEF Less
<1>3. PICK x \in T : \A y \in T : ~ (<<y, x>> \in Less)
    BY <1>1, WFMin
<1>4. \A y \in T : ~(y < x)
    BY <1>2, <1>3, Zenon
<1> QED
    BY <1>4

Rising(s, n) == \A i, j \in 1 .. n : i < j => s[i] < s[j]

\* A finite set of numbers can be listed in order: the least one, then the others.
LEMMA Listable ==
    ASSUME NEW S, IsFiniteSet(S), S \subseteq Nat
    PROVE  \E s \in [1 .. Cardinality(S) -> S] : Rising(s, Cardinality(S))
<1> DEFINE Listed(T) == \E s \in [1 .. Cardinality(T) -> T] : Rising(s, Cardinality(T))
           Bad == {n \in Nat : \E T \in SUBSET Nat :
                                  IsFiniteSet(T) /\ Cardinality(T) = n /\ ~Listed(T)}
<1> SUFFICES ASSUME ~Listed(S)
             PROVE  FALSE
    OBVIOUS
<1>1. Cardinality(S) \in Bad
    BY FS_CardinalityType
<1>2. PICK m \in Bad : \A n \in Bad : m <= n
    BY <1>1, LeastOne
<1>3. PICK T \in SUBSET Nat : IsFiniteSet(T) /\ Cardinality(T) = m /\ ~Listed(T)
    BY <1>2
<1>4. T # {}
  <2>1. ASSUME T = {}
        PROVE  Listed(T)
    <3>1. Cardinality(T) = 0
        BY <2>1, FS_EmptySet
    <3>2. 1 .. 0 = {}
        OBVIOUS
    <3>3. [i \in 1 .. 0 |-> 0] \in [1 .. 0 -> T] /\ Rising([i \in 1 .. 0 |-> 0], 0)
        BY <3>2 DEF Rising
    <3> QED
        BY <3>1, <3>3
  <2> QED
      BY <2>1, <1>3
<1>5. PICK least \in T : \A n \in T : least <= n
    BY <1>4, LeastOne
<1> DEFINE U == T \ {least}
<1>6. IsFiniteSet(U) /\ Cardinality(U) = m - 1 /\ m \in Nat /\ m - 1 \in Nat /\ U \subseteq Nat
  <2>1. IsFiniteSet(U) /\ Cardinality(U) = m - 1 /\ m \in Nat
      BY <1>3, FS_RemoveElement
  <2>2. Cardinality(U) \in Nat
      BY <2>1, FS_CardinalityType
  <2> QED
      BY <2>1, <2>2
<1> HIDE DEF U
<1>7. Listed(U)
  <2> HIDE DEF Listed
  <2> QED
      BY <1>2, <1>6
<1>8. PICK s \in [1 .. m - 1 -> U] : Rising(s, m - 1)
    BY <1>6, <1>7
<1> DEFINE l == [i \in 1 .. m |-> IF i = 1 THEN least ELSE s[i - 1]]
<1>9. \A i \in 1 .. m : i # 1 => i - 1 \in 1 .. m - 1
    BY <1>6
<1>10. \A i \in 1 .. m : l[i] = IF i = 1 THEN least ELSE s[i - 1]
    OBVIOUS
<1>11. l \in [1 .. m -> T]
  <2>1. \A i \in 1 .. m : (IF i = 1 THEN least ELSE s[i - 1]) \in T
      BY <1>8, <1>9 DEF U
  <2> QED
      BY <2>1
<1> HIDE DEF l
<1>12. ASSUME NEW i \in 1 .. m, NEW j \in 1 .. m, i < j
       PROVE  l[i] < l[j]
  <2>1. j # 1 /\ j - 1 \in 1 .. m - 1 /\ l[j] = s[j - 1] /\ s[j - 1] \in U
      BY <1>6, <1>8, <1>9, <1>10, <1>12
  <2>2. CASE i = 1
    <3>1. l[i] = least
        BY <2>2, <1>10
    <3>2. l[j] \in T /\ l[j] # least
        BY <2>1 DEF U
    <3>3. least \in Nat /\ l[j] \in Nat /\ least <= l[j]
        BY <3>2, <1>5
    <3> QED
        BY <3>1, <3>2, <3>3
  <2>3. CASE i # 1
    <3>1. i - 1 \in 1 .. m - 1 /\ l[i] = s[i - 1] /\ i - 1 < j - 1
        BY <2>3, <1>6, <1>9, <1>10, <1>12
    <3> QED
        BY <2>1, <3>1, <1>8 DEF Rising
  <2> QED
      BY <2>2, <2>3
<1>13. Listed(T)
    BY <1>3, <1>11, <1>12 DEF Rising
<1> QED
    BY <1>3, <1>13

\* The runs the page lists: each one there is, once.
LEMMA RunsAreListed ==
    ASSUME outputs \subseteq Reviewed
    PROVE  /\ Viewer!find_runs \in Seq(Reviewed) /\ Len(Viewer!find_runs) \in Nat
           /\ DOMAIN Viewer!find_runs = 1 .. Len(Viewer!find_runs)
           /\ \A i, j \in DOMAIN Viewer!find_runs :
                 Viewer!find_runs[i] = Viewer!find_runs[j] => i = j
           /\ {Viewer!find_runs[i] : i \in DOMAIN Viewer!find_runs} = outputs
           /\ outputs # {} => 1 \in DOMAIN Viewer!find_runs
<1> DEFINE n == Cardinality(outputs)
           runs == Viewer!find_runs
           InOrder(s) == \A i, j \in DOMAIN s : i < j => s[i] < s[j]
<1>1. IsFiniteSet(outputs) /\ outputs \subseteq Nat
    BY ReviewedAssumption, FS_Subset
<1>2. n \in Nat
    BY <1>1, FS_CardinalityType
<1>3. Viewer!Cardinality(outputs) = n
    BY DEF Viewer!Cardinality, Cardinality
<1> HIDE DEF n
<1>4. \E s \in [1 .. n -> outputs] : InOrder(s)
  <2>1. PICK s \in [1 .. n -> outputs] : Rising(s, n)
      BY <1>1, Listable DEF n
  <2>2. DOMAIN s = 1 .. n
      OBVIOUS
  <2> QED
      BY <2>1, <2>2 DEF Rising
<1>5. runs = CHOOSE s \in [1 .. n -> outputs] : InOrder(s)
    BY <1>3 DEF Viewer!find_runs
<1> HIDE DEF runs
<1>6. runs \in [1 .. n -> outputs] /\ InOrder(runs)
  <2> HIDE DEF InOrder
  <2> QED
      BY <1>4, <1>5
<1>7. runs \in Seq(Reviewed) /\ Len(runs) = n /\ DOMAIN runs = 1 .. n
  <2>1. \A i \in 1 .. n : runs[i] \in Reviewed
      BY <1>6
  <2>2. runs = [i \in 1 .. n |-> runs[i]] /\ DOMAIN runs = 1 .. n
      BY <1>6
  <2>3. runs \in Seq(Reviewed)
      BY <2>1, <2>2, <1>2, IsASeq
  <2> QED
      BY <2>2, <2>3, <1>2, LenProperties
<1>8. ASSUME NEW i \in 1 .. n, NEW j \in 1 .. n, runs[i] = runs[j]
      PROVE  i = j
  <2>1. runs[i] \in Nat /\ i \in Int /\ j \in Int
    <3>1. i \in Int /\ j \in Int
        BY <1>2
    <3>2. runs[i] \in outputs
        BY <1>6
    <3> QED
        BY <3>1, <3>2, <1>1
  <2>2. ~(i < j) /\ ~(j < i)
      BY <2>1, <1>6, <1>7, <1>8
  <2> QED
      BY <2>1, <2>2
<1>9. ASSUME NEW r \in outputs
      PROVE  \E i \in 1 .. n : runs[i] = r
  <2> SUFFICES ASSUME \A i \in 1 .. n : runs[i] # r
               PROVE  FALSE
      OBVIOUS
  <2> DEFINE U == outputs \ {r}
  <2>1. IsFiniteSet(U) /\ Cardinality(U) = n - 1
      BY <1>1, FS_RemoveElement DEF n
  <2>2. runs \in [1 .. n -> U]
      BY <1>6
  <2>3. IsFiniteSet(1 .. n) /\ Cardinality(1 .. n) = n
      BY <1>2, FS_Interval
  <2> HIDE DEF U
  <2>4. Cardinality(U) < Cardinality(1 .. n)
      BY <2>1, <2>3, <1>2
  <2>5. \E i, j \in 1 .. n : i # j /\ runs[i] = runs[j]
      BY <2>1, <2>2, <2>3, <2>4, FS_PigeonHole
  <2> QED
      BY <2>5, <1>8
<1>10. {runs[i] : i \in 1 .. n} = outputs
    BY <1>6, <1>9
<1>11. outputs # {} => 1 \in 1 .. n
    BY <1>2, <1>9
<1> QED
    BY <1>2, <1>7, <1>8, <1>10, <1>11 DEF runs

Words == Comments \cup {Unsaid}
Maps == [Reviewed -> Words]
Reviews == [status : {"none", "torn", "in_progress", "complete"}, map : Maps,
            of : SUBSET Reviewed]
Connections == [kind : {"page", "feedback", "save", "submit"}, review : Reviews]
Tabs == [status : {"closed", "loading", "fetching", "open", "failed"}, runs : Seq(Reviewed),
         map : Maps, current : Nat, text : Words, timer : BOOLEAN, dialog : BOOLEAN,
         said : Maps, unsaved : BOOLEAN, behind : BOOLEAN]

ViewerTypes ==
    /\ outputs \subseteq Reviewed /\ previous \in BOOLEAN
    /\ server \in {"off", "serving"}
    /\ feedback \in Reviews
    /\ open \in Seq(Connections)
    /\ page \in Tabs

Opened == page.status = "open"
Embedded == page.status \in {"fetching", "open"}
IsPost(q) == q.kind \in {"save", "submit"}
Newest == open[Len(open)]

\* While a page is loaded its own request is the last; while it fetches the comments
\* that request is the first, and POSTs after it leave it behind; an open page has
\* sent POSTs.
QueueShape ==
    /\ server = "serving" => outputs # {}
    /\ open # <<>> => server = "serving"
    /\ page.status \in {"closed", "failed"} => open = <<>>
    /\ Opened => \A i \in 1 .. Len(open) : IsPost(open[i])
    /\ page.status = "loading" =>
         /\ open # <<>> /\ Newest.kind = "page"
         /\ \A i \in 1 .. Len(open) : i # Len(open) => IsPost(open[i])
    /\ page.status = "fetching" =>
         /\ open # <<>> /\ open[1].kind = "feedback"
         /\ \A i \in 1 .. Len(open) : i # 1 => IsPost(open[i])
         /\ ~page.behind => Len(open) = 1

Commented(map) == {r \in Reviewed : map[r] # Unsaid}
Listed == {page.runs[i] : i \in DOMAIN page.runs}

\* The page lists runs there are, each once; and what the file has comments on.
Listing ==
    Embedded =>
        /\ 1 \in DOMAIN page.runs
        /\ \A i, j \in DOMAIN page.runs : page.runs[i] = page.runs[j] => i = j
        /\ Listed \subseteq outputs
        /\ ~Opened => Commented(feedback.map) \subseteq Listed

\* A page that is not there yet says nothing.
BlankAtFirst ==
    page.status = "loading" =>
        /\ page.map = Viewer!NoComments /\ page.said = Viewer!NoComments
        /\ page.text = Unsaid /\ page.current = 1 /\ ~page.timer

\* Nobody comments on a run that is not there.
CommentsOnRuns ==
    /\ Commented(feedback.map) \subseteq outputs
    /\ \A i \in 1 .. Len(open) : Commented(open[i].review.map) \subseteq outputs

\* What the user said is in the map, but for the text in the box, which is too
\* unless the timer runs.
PageTells ==
    Embedded =>
      /\ page.current \in DOMAIN page.runs
      /\ page.said = [page.map EXCEPT ![page.runs[page.current]] = page.text]
      /\ ~page.timer => page.map = page.said
      /\ Commented(page.map) \subseteq Listed

\* The last POST says it, or the file does if that was written, unless the page is
\* behind the file.
LastSays ==
    (Opened /\ ~page.behind /\ ~page.timer) =>
       IF open = <<>> THEN ~page.unsaved => feedback.map = page.said
                      ELSE Newest.review.map = page.said

ViewerInv ==
    /\ ViewerTypes
    /\ QueueShape
    /\ Listing
    /\ BlankAtFirst
    /\ CommentsOnRuns
    /\ PageTells
    /\ LastSays

-----------------------------------------------------------------------------

LEMMA ViewerPart == PlatformSpec => Viewer!Init /\ [][Viewer!Next]_viewer_vars
<1>1. PlatformInit => Viewer!Init
    BY DEF PlatformInit
<1>2. [PlatformNext]_<<part, vars, alembic_vars, sync_vars, eval_vars, tuning_vars, mcp_vars,
                       viewer_vars>> => [Viewer!Next]_viewer_vars
    BY DEF PlatformNext
<1> QED
    BY <1>1, <1>2, PTL DEF PlatformSpec

LEMMA TabFields ==
    ASSUME ViewerTypes
    PROVE  /\ page.status \in {"closed", "loading", "fetching", "open", "failed"}
           /\ page.runs \in Seq(Reviewed) /\ page.map \in Maps /\ page.current \in Nat
           /\ page.text \in Words /\ page.timer \in BOOLEAN /\ page.dialog \in BOOLEAN
           /\ page.said \in Maps /\ page.unsaved \in BOOLEAN /\ page.behind \in BOOLEAN
           /\ DOMAIN page.runs = 1 .. Len(page.runs) /\ Len(page.runs) \in Nat
<1>1. page.runs \in Seq(Reviewed)
    BY DEF ViewerTypes, Tabs
<1> QED
    BY <1>1, LenProperties DEF ViewerTypes, Tabs

\* A queue with one more, and without its first.
LEMMA Queued ==
    ASSUME NEW q \in Seq(Connections), NEW c \in Connections
    PROVE  /\ Append(q, c) \in Seq(Connections) /\ Len(q) \in Nat
           /\ Len(Append(q, c)) = Len(q) + 1 /\ Append(q, c) # <<>>
           /\ \A i \in 1 .. Len(q) : Append(q, c)[i] = q[i]
           /\ Append(q, c)[Len(q) + 1] = c
BY AppendProperties, LenProperties

LEMMA WithoutFirst ==
    ASSUME NEW q \in Seq(Connections), q # <<>>
    PROVE  /\ Tail(q) \in Seq(Connections) /\ Len(q) \in Nat /\ Len(q) >= 1
           /\ Len(Tail(q)) = Len(q) - 1 /\ (Tail(q) = <<>> <=> Len(q) = 1)
           /\ \A i \in 1 .. Len(q) - 1 : Tail(q)[i] = q[i + 1]
           /\ Head(q) = q[1] /\ q[1] \in Connections
<1>1. Len(q) \in Nat /\ Len(q) >= 1
    BY LenProperties, EmptySeq
<1>2. Tail(q) \in Seq(Connections) /\ Len(Tail(q)) = Len(q) - 1
      /\ \A i \in 1 .. Len(Tail(q)) : Tail(q)[i] = q[i + 1]
    BY HeadTailProperties
<1> DEFINE t == Tail(q)
<1>3. t = <<>> <=> Len(q) = 1
  <2>1. t \in Seq(Connections) /\ Len(t) = Len(q) - 1
      BY <1>2
  <2> HIDE DEF t
  <2>2. t = <<>> <=> Len(t) = 0
      BY <2>1, EmptySeq
  <2> QED
      BY <1>1, <2>1, <2>2
<1>4. Head(q) = q[1] /\ q[1] \in Connections
    BY <1>1, ElementOfSeq
<1> QED
    BY <1>1, <1>2, <1>3, <1>4

\* Saying nothing.
LEMMA NothingSaid ==
    /\ Viewer!NoComments \in Maps /\ Commented(Viewer!NoComments) = {}
    /\ \A r \in Reviewed : Viewer!NoComments[r] = Unsaid
    /\ \A why \in {"none", "torn"} :
         Viewer!NoFile(why) \in Reviews /\ Viewer!NoFile(why).map = Viewer!NoComments
    /\ \A kind \in {"page", "feedback"} :
         /\ Viewer!Request(kind, Viewer!NoFile("none")) \in Connections
         /\ Viewer!Request(kind, Viewer!NoFile("none")).kind = kind
         /\ Viewer!Request(kind, Viewer!NoFile("none")).review.map = Viewer!NoComments
<1>1. Viewer!NoComments \in Maps /\ \A r \in Reviewed : Viewer!NoComments[r] = Unsaid
    BY DEF Viewer!NoComments, Maps, Words
<1>2. Commented(Viewer!NoComments) = {}
    BY <1>1 DEF Commented
<1>3. ASSUME NEW why \in {"none", "torn"}
      PROVE  Viewer!NoFile(why) \in Reviews /\ Viewer!NoFile(why).map = Viewer!NoComments
    BY <1>1 DEF Viewer!NoFile, Reviews
<1>4. ASSUME NEW kind \in {"page", "feedback"}
      PROVE  /\ Viewer!Request(kind, Viewer!NoFile("none")) \in Connections
             /\ Viewer!Request(kind, Viewer!NoFile("none")).kind = kind
             /\ Viewer!Request(kind, Viewer!NoFile("none")).review.map = Viewer!NoComments
  <2>1. Viewer!NoFile("none") \in Reviews /\ Viewer!NoFile("none").map = Viewer!NoComments
      BY <1>3
  <2> QED
      BY <2>1 DEF Viewer!Request, Connections
<1> QED
    BY <1>1, <1>2, <1>3, <1>4

LEMMA NoTab ==
    /\ Viewer!NoPage \in Tabs /\ Viewer!NoPage.status = "closed" /\ Viewer!NoPage.runs = <<>>
    /\ Viewer!NoPage.map = Viewer!NoComments /\ Viewer!NoPage.current = 1
    /\ Viewer!NoPage.text = Unsaid /\ Viewer!NoPage.timer = FALSE
    /\ Viewer!NoPage.said = Viewer!NoComments /\ Viewer!NoPage.unsaved = FALSE
<1>1. Viewer!NoComments \in Maps
    BY NothingSaid
<1>2. <<>> \in Seq(Reviewed) /\ Unsaid \in Words
    BY EmptySeq DEF Words
<1> QED
    BY <1>1, <1>2 DEF Viewer!NoPage, Tabs

LEMMA ViewerInitial == Viewer!Init => ViewerInv
<1> SUFFICES ASSUME Viewer!Init
             PROVE  ViewerInv
    OBVIOUS
<1>1. /\ outputs \subseteq Reviewed /\ previous \in BOOLEAN /\ server = "off"
      /\ feedback = Viewer!NoFile("none") /\ open = <<>> /\ page = Viewer!NoPage
    BY DEF Viewer!Init
<1>2. ViewerTypes
    BY <1>1, NothingSaid, NoTab, EmptySeq DEF ViewerTypes
<1>3. page.status = "closed" /\ Commented(feedback.map) = {} /\ Len(open) = 0
    BY <1>1, NothingSaid, NoTab
<1> QED
    BY <1>1, <1>2, <1>3
    DEF ViewerInv, QueueShape, Listing, BlankAtFirst, CommentsOnRuns, PageTells, LastSays, Opened,
        Embedded

\* A run that the page lists.
LEMMA OneOfListed ==
    ASSUME ViewerTypes, NEW k \in DOMAIN page.runs
    PROVE  page.runs[k] \in Listed /\ page.runs[k] \in Reviewed
<1>1. page.runs \in Seq(Reviewed) /\ DOMAIN page.runs = 1 .. Len(page.runs)
    BY TabFields
<1>2. page.runs[k] \in Reviewed
    BY <1>1, ElementOfSeq
<1> QED
    BY <1>2 DEF Listed

\* What a page notes and posts: what the user said.
LEMMA Notes ==
    ASSUME ViewerInv, Embedded
    PROVE  /\ Viewer!Shown = page.runs[page.current] /\ Viewer!Noted = page.said
           /\ page.said \in Maps /\ Commented(page.said) \subseteq Listed
           /\ Listed \subseteq outputs
           /\ Viewer!InProgress \in Reviews /\ Viewer!InProgress.map = page.said
           /\ Viewer!Complete \in Reviews /\ Viewer!Complete.map = page.said
<1>1. Viewer!Shown = page.runs[page.current] /\ Viewer!Noted = page.said
    BY DEF ViewerInv, PageTells, Viewer!Shown, Viewer!Noted
<1>2. page.map \in Maps /\ page.said \in Maps /\ page.text \in Words
    BY TabFields DEF ViewerInv
<1>3. page.runs[page.current] \in Listed /\ page.runs[page.current] \in Reviewed
    BY OneOfListed DEF ViewerInv, PageTells
<1>4. Commented(page.said) \subseteq Listed
  <2>1. \A r \in Reviewed : r # page.runs[page.current] => page.said[r] = page.map[r]
      BY <1>2 DEF ViewerInv, PageTells, Maps
  <2>2. Commented(page.map) \subseteq Listed
      BY DEF ViewerInv, PageTells
  <2> QED
      BY <2>1, <2>2, <1>3 DEF Commented
<1>5. Listed \subseteq outputs /\ outputs \subseteq Reviewed
    BY DEF ViewerInv, Listing, ViewerTypes
<1> DEFINE said == page.said
           noted == {r \in Reviewed : said[r] # Unsaid}
<1>6. Viewer!InProgress = [status |-> "in_progress", map |-> said, of |-> noted]
    BY <1>1 DEF Viewer!InProgress
<1>7. Viewer!ToSet(page.runs) = Listed
    BY DEF Viewer!ToSet, Listed
<1>8. [r \in Reviewed |-> IF r \in Listed THEN said[r] ELSE Unsaid] = said
  <2>1. \A r \in Reviewed : r \notin Listed => said[r] = Unsaid
      BY <1>4 DEF Commented
  <2>2. said = [r \in Reviewed |-> said[r]]
      BY <1>2 DEF Maps
  <2> HIDE DEF said
  <2>3. \A r \in Reviewed : (IF r \in Listed THEN said[r] ELSE Unsaid) = said[r]
      BY <2>1
  <2> QED
      BY <2>2, <2>3
<1>9. Viewer!Complete = [status |-> "complete", map |-> said, of |-> Listed]
    BY <1>1, <1>7, <1>8 DEF Viewer!Complete
<1> HIDE DEF said
<1>10. noted \in SUBSET Reviewed /\ Listed \in SUBSET Reviewed /\ said \in Maps
    BY <1>2, <1>5 DEF said
<1> HIDE DEF noted
<1>11. Viewer!InProgress \in Reviews /\ Viewer!InProgress.map = said
    BY <1>6, <1>10 DEF Reviews
<1>12. Viewer!Complete \in Reviews /\ Viewer!Complete.map = said
    BY <1>9, <1>10 DEF Reviews
<1> QED
    BY <1>1, <1>2, <1>4, <1>5, <1>11, <1>12 DEF said

\* A page sends a POST of what the user said.
LEMMA Posted ==
    ASSUME ViewerInv, Embedded, NEW kind \in {"save", "submit"}, NEW review \in Reviews,
           review.map = page.said, Viewer!Fetch(Viewer!Request(kind, review))
    PROVE  /\ open' \in Seq(Connections)
           /\ \A i \in 1 .. Len(open') : IsPost(open'[i]) \/ (~Opened /\ i = 1)
           /\ ~Opened => open' # <<>> /\ open'[1].kind = "feedback"
           /\ \A i \in 1 .. Len(open') : Commented(open'[i].review.map) \subseteq outputs
           /\ open' # <<>> => server = "serving" /\ open'[Len(open')].review.map = page.said
           /\ open' = <<>> => server = "off"
<1> DEFINE c == Viewer!Request(kind, review)
<1>1. c \in Connections /\ IsPost(c) /\ c.review.map = page.said
    BY DEF Viewer!Request, Connections, IsPost
<1>2. Commented(page.said) \subseteq outputs
    BY Notes
<1>3. /\ open \in Seq(Connections)
      /\ \A i \in 1 .. Len(open) : IsPost(open[i]) \/ (~Opened /\ i = 1)
      /\ ~Opened => open # <<>> /\ open[1].kind = "feedback"
    BY DEF ViewerInv, ViewerTypes, QueueShape, Opened, Embedded
<1>4. \A i \in 1 .. Len(open) : Commented(open[i].review.map) \subseteq outputs
    BY DEF ViewerInv, CommentsOnRuns
<1> HIDE DEF c
<1>5. CASE server = "serving"
  <2>1. open' = Append(open, c)
      BY <1>5 DEF Viewer!Fetch, c
  <2>2. /\ Append(open, c) \in Seq(Connections) /\ Len(open) \in Nat
        /\ Len(Append(open, c)) = Len(open) + 1 /\ Append(open, c) # <<>>
        /\ \A i \in 1 .. Len(open) : Append(open, c)[i] = open[i]
        /\ Append(open, c)[Len(open) + 1] = c
      BY <1>1, <1>3, Queued
  <2> DEFINE more == Append(open, c)
  <2> HIDE DEF more
  <2>3. open' = more
      BY <2>1 DEF more
  <2>4. /\ more \in Seq(Connections) /\ Len(open) \in Nat
        /\ Len(more) = Len(open) + 1 /\ more # <<>>
        /\ \A i \in 1 .. Len(open) : more[i] = open[i]
        /\ more[Len(open) + 1] = c
      BY <2>2 DEF more
  <2>5. \A i \in 1 .. Len(more) : i \in 1 .. Len(open) \/ more[i] = c
      BY <2>4
  <2>6. \A i \in 1 .. Len(more) : IsPost(more[i]) \/ (~Opened /\ i = 1)
      BY <2>4, <2>5, <1>1, <1>3
  <2>8. ~Opened => more[1].kind = "feedback"
    <3>1. open # <<>> => 1 \in 1 .. Len(open)
        BY <1>3, EmptySeq, <2>4
    <3> QED
        BY <3>1, <2>4, <1>3
  <2>7. \A i \in 1 .. Len(more) : Commented(more[i].review.map) \subseteq outputs
      BY <2>4, <2>5, <1>1, <1>2, <1>4
  <2> QED
      BY <2>3, <2>4, <2>6, <2>7, <2>8, <1>1, <1>5
<1>6. CASE server # "serving"
  <2>1. open' = open /\ server = "off" /\ open = <<>>
      BY <1>6 DEF Viewer!Fetch, ViewerInv, ViewerTypes, QueueShape
  <2> QED
      BY <2>1, <1>3, <1>4
<1> QED
    BY <1>5, <1>6

\* The page posts, and goes on with what was said in its map, nothing to be saved.
LEMMA PostKeeps ==
    ASSUME ViewerInv, Embedded, NEW kind \in {"save", "submit"}, NEW review \in Reviews,
           review.map = page.said, Viewer!Fetch(Viewer!Request(kind, review)),
           UNCHANGED <<outputs, unnumbered, previous, server, feedback>>,
           page' \in Tabs, page'.status = page.status, page'.runs = page.runs,
           page'.map = page.said, page'.said = page.said,
           page'.unsaved = (server = "off"), page'.behind = (page.status = "fetching"),
           page'.current \in DOMAIN page.runs,
           page'.text = page.said[page.runs[page'.current]]
    PROVE  ViewerInv'
<1>1. /\ open' \in Seq(Connections)
      /\ \A i \in 1 .. Len(open') : IsPost(open'[i]) \/ (~Opened /\ i = 1)
      /\ ~Opened => open' # <<>> /\ open'[1].kind = "feedback"
      /\ \A i \in 1 .. Len(open') : Commented(open'[i].review.map) \subseteq outputs
      /\ open' # <<>> => server = "serving" /\ open'[Len(open')].review.map = page.said
      /\ open' = <<>> => server = "off"
    BY Posted
<1>2. page.said \in Maps /\ Commented(page.said) \subseteq Listed /\ Listed \subseteq outputs
    BY Notes
<1>3. Listed' = Listed
    BY DEF Listed
<1>4. ViewerTypes'
    BY <1>1 DEF ViewerInv, ViewerTypes
<1>5. QueueShape'
    BY <1>1 DEF ViewerInv, QueueShape, Opened, Embedded, IsPost
<1>6. Listing'
    BY <1>3 DEF ViewerInv, Listing, Opened, Embedded, Commented
<1>7. BlankAtFirst'
    BY DEF BlankAtFirst, Embedded
<1>8. CommentsOnRuns'
    BY <1>1 DEF ViewerInv, CommentsOnRuns, Commented
<1>9. PageTells'
  <2> DEFINE r == page.runs[page'.current]
  <2>1. page.said = [page.said EXCEPT ![r] = page.said[r]]
      BY <1>2 DEF Maps
  <2>2. page'.runs[page'.current] = r /\ page'.text = page.said[r]
      OBVIOUS
  <2> HIDE DEF r
  <2>3. page'.said = [page'.map EXCEPT ![page'.runs[page'.current]] = page'.text]
      BY <2>1, <2>2
  <2>4. Commented(page'.map) \subseteq Listed'
      BY <1>2, <1>3
  <2> QED
      BY <2>3, <2>4 DEF PageTells, Commented
<1>10. LastSays'
    BY <1>1 DEF LastSays, Newest, Opened
<1> QED
    BY <1>4, <1>5, <1>6, <1>7, <1>8, <1>9, <1>10 DEF ViewerInv

LEMMA TimerKeeps ==
    ASSUME ViewerInv, Viewer!TimerFires \/ Viewer!CloseDialog
    PROVE  ViewerInv'
<1> DEFINE said == page.said
<1>1. Embedded /\ UNCHANGED <<outputs, unnumbered, previous, server, feedback>>
    BY DEF Viewer!TimerFires, Viewer!CloseDialog, Viewer!Running, Embedded
<1>2. /\ Viewer!Noted = said /\ said \in Maps
      /\ Viewer!InProgress \in Reviews /\ Viewer!InProgress.map = page.said
    BY <1>1, Notes
<1>3. Viewer!Fetch(Viewer!Request("save", Viewer!InProgress))
    BY DEF Viewer!TimerFires, Viewer!CloseDialog, Viewer!Save
<1>4. page \in Tabs /\ page.current \in DOMAIN page.runs
      /\ page.said = [page.map EXCEPT ![page.runs[page.current]] = page.text]
    BY <1>1 DEF ViewerInv, ViewerTypes, PageTells
<1>5. page.text = page.said[page.runs[page.current]]
  <2>1. page.runs[page.current] \in Reviewed
      BY <1>4, OneOfListed DEF ViewerInv
  <2>2. page.map \in Maps
      BY TabFields DEF ViewerInv
  <2> QED
      BY <2>1, <2>2, <1>4 DEF Maps
<1> HIDE DEF said
<1>6. page' \in Tabs /\ page'.status = page.status /\ page'.runs = page.runs
      /\ page'.map = said /\ page'.said = page.said /\ page'.unsaved = (server = "off")
      /\ page'.current = page.current /\ page'.text = page.text
      /\ page'.behind = (page.status = "fetching")
  <2>1. CASE Viewer!TimerFires
    <3>1. page' = [[page EXCEPT !.timer = FALSE] EXCEPT
                      !.map = said, !.unsaved = server = "off",
                      !.behind = page.status = "fetching"]
        BY <2>1, <1>2 DEF Viewer!TimerFires, Viewer!Save, Viewer!Posted
    <3> QED
        BY <3>1, <1>2, <1>4 DEF Tabs
  <2>2. CASE Viewer!CloseDialog
    <3>1. page' = [[page EXCEPT !.dialog = FALSE] EXCEPT
                      !.map = said, !.unsaved = server = "off",
                      !.behind = page.status = "fetching"]
        BY <2>2, <1>2 DEF Viewer!CloseDialog, Viewer!Save, Viewer!Posted
    <3> QED
        BY <3>1, <1>2, <1>4 DEF Tabs
  <2> QED
      BY <2>1, <2>2
<1> DEFINE review == Viewer!InProgress
<1>7. review \in Reviews /\ review.map = page.said
      /\ Viewer!Fetch(Viewer!Request("save", review))
    BY <1>2, <1>3
<1> HIDE DEF review
<1>8. page'.current \in DOMAIN page.runs /\ page'.text = page.said[page.runs[page'.current]]
    BY <1>4, <1>5, <1>6
<1> QED
    BY <1>1, <1>6, <1>7, <1>8, PostKeeps DEF said

LEMMA SubmitKeeps ==
    ASSUME ViewerInv, Viewer!Submit
    PROVE  ViewerInv'
<1> DEFINE said == page.said
<1>1. Embedded /\ UNCHANGED <<outputs, unnumbered, previous, server, feedback>>
    BY DEF Viewer!Submit, Viewer!Running, Embedded
<1>2. /\ Viewer!Noted = said /\ said \in Maps
      /\ Viewer!Complete \in Reviews /\ Viewer!Complete.map = page.said
    BY <1>1, Notes
<1>4. page \in Tabs /\ page.current \in DOMAIN page.runs
      /\ page.said = [page.map EXCEPT ![page.runs[page.current]] = page.text]
    BY <1>1 DEF ViewerInv, ViewerTypes, PageTells
<1>5. page.text = page.said[page.runs[page.current]]
  <2>1. page.runs[page.current] \in Reviewed
      BY <1>4, OneOfListed DEF ViewerInv
  <2>2. page.map \in Maps
      BY TabFields DEF ViewerInv
  <2> QED
      BY <2>1, <2>2, <1>4 DEF Maps
<1> HIDE DEF said
<1>6. page' \in Tabs /\ page'.status = page.status /\ page'.runs = page.runs
      /\ page'.map = said /\ page'.said = page.said /\ page'.unsaved = (server = "off")
      /\ page'.current = page.current /\ page'.text = page.text
      /\ page'.behind = (page.status = "fetching")
  <2>1. page' = [[page EXCEPT !.dialog = @ \/ server = "off"] EXCEPT
                    !.map = said, !.unsaved = server = "off",
                    !.behind = page.status = "fetching"]
      BY <1>2 DEF Viewer!Submit, Viewer!Posted
  <2> QED
      BY <2>1, <1>2, <1>4 DEF Tabs
<1> DEFINE review == Viewer!Complete
<1>7. review \in Reviews /\ review.map = page.said
      /\ Viewer!Fetch(Viewer!Request("submit", review))
    BY <1>2 DEF Viewer!Submit
<1> HIDE DEF review
<1>8. page'.current \in DOMAIN page.runs /\ page'.text = page.said[page.runs[page'.current]]
    BY <1>4, <1>5, <1>6
<1> QED
    BY <1>1, <1>6, <1>7, <1>8, PostKeeps DEF said

LEMMA NavigateKeeps ==
    ASSUME ViewerInv, NEW to \in DOMAIN page.runs, Viewer!Navigate(to)
    PROVE  ViewerInv'
<1> DEFINE said == page.said
           text == page.map[page.runs[to]]
<1>1. Embedded /\ UNCHANGED <<outputs, unnumbered, previous, server, feedback>>
    BY DEF Viewer!Navigate, Viewer!Running, Embedded
<1>2. /\ Viewer!Noted = said /\ said \in Maps
      /\ Viewer!InProgress \in Reviews /\ Viewer!InProgress.map = page.said
    BY <1>1, Notes
<1>3. page \in Tabs /\ page.current \in DOMAIN page.runs
      /\ page.said = [page.map EXCEPT ![page.runs[page.current]] = page.text]
    BY <1>1 DEF ViewerInv, ViewerTypes, PageTells
<1>4. to # page.current /\ to \in Nat /\ DOMAIN page.runs = 1 .. Len(page.runs)
    BY TabFields DEF ViewerInv, Viewer!Navigate
<1>5. page.runs[to] # page.runs[page.current]
    BY <1>1, <1>3, <1>4 DEF ViewerInv, Listing
<1>6. page.runs[to] \in Reviewed /\ page.map \in Maps
    BY OneOfListed, TabFields DEF ViewerInv
<1>7. text = said[page.runs[to]] /\ text \in Words
    BY <1>3, <1>5, <1>6 DEF Maps
<1>8. page' = [[page EXCEPT !.current = to, !.text = text] EXCEPT
                  !.map = said, !.unsaved = server = "off",
                  !.behind = page.status = "fetching"]
    BY <1>2 DEF Viewer!Navigate, Viewer!Save, Viewer!Posted, Viewer!Turned
<1> HIDE DEF said, text
<1>9. page' \in Tabs /\ page'.status = page.status /\ page'.runs = page.runs
      /\ page'.map = said /\ page'.said = page.said /\ page'.unsaved = (server = "off")
      /\ page'.current = to /\ page'.text = text
      /\ page'.behind = (page.status = "fetching")
    BY <1>2, <1>3, <1>4, <1>7, <1>8 DEF Tabs
<1> DEFINE review == Viewer!InProgress
<1>10. review \in Reviews /\ review.map = page.said
       /\ Viewer!Fetch(Viewer!Request("save", review))
    BY <1>2 DEF Viewer!Navigate, Viewer!Save
<1> HIDE DEF review
<1>11. page'.current \in DOMAIN page.runs /\ page'.text = page.said[page.runs[page'.current]]
    BY <1>7, <1>9 DEF said
<1> QED
    BY <1>1, <1>9, <1>10, <1>11, PostKeeps DEF said

LEMMA TypeKeeps ==
    ASSUME ViewerInv, NEW text \in Words, Viewer!Type(text)
    PROVE  ViewerInv'
<1> DEFINE r == page.runs[page.current]
           saying == [page.said EXCEPT ![r] = text]
<1>1. Opened /\ UNCHANGED <<outputs, unnumbered, previous, server, feedback, open>>
    BY DEF Viewer!Type, Viewer!Running, Opened
<1>2. page \in Tabs /\ page.current \in DOMAIN page.runs /\ page.map \in Maps
      /\ page.said = [page.map EXCEPT ![r] = page.text]
    BY <1>1, TabFields DEF ViewerInv, ViewerTypes, PageTells, Opened, Embedded
<1>3. Viewer!Shown = r /\ r \in Reviewed
    BY <1>2, OneOfListed DEF ViewerInv, Viewer!Shown
<1>4. saying = [page.map EXCEPT ![r] = text] /\ saying \in Maps
  <2>1. page.map \in [Reviewed -> Words] /\ page.text \in Words
      BY <1>2, TabFields DEF ViewerInv, Maps
  <2> QED
      BY <2>1, <1>2, <1>3 DEF Maps
<1>5. page' = [page EXCEPT !.text = text, !.timer = TRUE, !.said = saying]
    BY <1>3 DEF Viewer!Type
<1> HIDE DEF r, saying
<1>6. /\ page' \in Tabs /\ page'.status = page.status /\ page'.runs = page.runs
      /\ page'.map = page.map /\ page'.said = saying /\ page'.current = page.current
      /\ page'.text = text /\ page'.timer = TRUE
    BY <1>2, <1>4, <1>5 DEF Tabs
<1>7. Listed' = Listed /\ Opened'
    BY <1>1, <1>6 DEF Listed, Opened
<1>8. ViewerTypes'
    BY <1>1, <1>6 DEF ViewerInv, ViewerTypes
<1>9. QueueShape'
    BY <1>1, <1>6 DEF ViewerInv, QueueShape, Opened, IsPost
<1>10. Listing'
    BY <1>1, <1>6, <1>7 DEF ViewerInv, Listing, Opened, Embedded, Commented
<1>11. BlankAtFirst'
    BY <1>7 DEF BlankAtFirst, Opened
<1>12. CommentsOnRuns'
    BY <1>1 DEF ViewerInv, CommentsOnRuns, Commented
<1>13. PageTells'
  <2>1. page'.runs[page'.current] = r
      BY <1>6 DEF r
  <2>2. page'.said = [page'.map EXCEPT ![page'.runs[page'.current]] = page'.text]
      BY <2>1, <1>4, <1>6
  <2>3. Commented(page'.map) \subseteq Listed'
      BY <1>1, <1>6, <1>7 DEF ViewerInv, PageTells, Opened, Embedded
  <2> QED
      BY <2>2, <2>3, <1>2, <1>6 DEF PageTells, Commented
<1>14. LastSays'
    BY <1>6 DEF LastSays
<1> QED
    BY <1>8, <1>9, <1>10, <1>11, <1>12, <1>13, <1>14 DEF ViewerInv

LEMMA RunEndsKeeps ==
    ASSUME ViewerInv, NEW r \in Reviewed, Viewer!RunEnds(r)
    PROVE  ViewerInv'
<1>1. /\ outputs' = outputs \cup {r} /\ previous' = previous /\ server' = server
      /\ feedback' = feedback /\ open' = open /\ page' = page
    BY DEF Viewer!RunEnds
<1>2. ViewerTypes'
    BY <1>1 DEF ViewerInv, ViewerTypes
<1>3. QueueShape'
    BY <1>1 DEF ViewerInv, QueueShape, Opened, IsPost, Newest
<1>4. Listed' = Listed
    BY <1>1 DEF Listed
<1>5. Listing'
    BY <1>1, <1>4 DEF ViewerInv, Listing, Opened, Embedded, Commented
<1>6. BlankAtFirst'
    BY <1>1 DEF ViewerInv, BlankAtFirst
<1>7. CommentsOnRuns'
    BY <1>1 DEF ViewerInv, CommentsOnRuns, Commented
<1>8. PageTells'
    BY <1>1, <1>4 DEF ViewerInv, PageTells, Embedded, Commented
<1>9. LastSays'
    BY <1>1 DEF ViewerInv, LastSays, Opened, Newest
<1> QED
    BY <1>2, <1>3, <1>5, <1>6, <1>7, <1>8, <1>9 DEF ViewerInv

\* The page is asked for: POSTs, if any, are before it.
LEMMA LoadKeeps ==
    ASSUME ViewerInv, NEW posts \in Seq(Connections),
           \A i \in 1 .. Len(posts) : /\ IsPost(posts[i])
                                      /\ Commented(posts[i].review.map) \subseteq outputs,
           open' = Append(posts, Viewer!Request("page", Viewer!NoFile("none"))),
           page' = [Viewer!NoPage EXCEPT !.status = "loading"],
           outputs' = outputs, previous' = previous, feedback' = feedback,
           server' = "serving", outputs # {}
    PROVE  ViewerInv'
<1> DEFINE get == Viewer!Request("page", Viewer!NoFile("none"))
           more == Append(posts, get)
<1>1. get \in Connections /\ get.kind = "page" /\ Commented(get.review.map) = {}
    BY NothingSaid
<1> HIDE DEF get
<1>2. /\ more \in Seq(Connections) /\ Len(posts) \in Nat
      /\ Len(more) = Len(posts) + 1 /\ more # <<>>
      /\ \A i \in 1 .. Len(posts) : more[i] = posts[i]
      /\ more[Len(posts) + 1] = get
    BY <1>1, Queued
<1>3. open' = more
    BY DEF get
<1> HIDE DEF more
<1>4. \A i \in 1 .. Len(more) : i \in 1 .. Len(posts) \/ i = Len(more)
    BY <1>2
<1>5. more[Len(more)] = get
    BY <1>2
<1>6. \A i \in 1 .. Len(more) : i # Len(more) => IsPost(more[i])
    BY <1>2, <1>4
<1>7. \A i \in 1 .. Len(more) : Commented(more[i].review.map) \subseteq outputs
    BY <1>1, <1>2, <1>4, <1>5
<1>8. /\ page' \in Tabs /\ page'.status = "loading" /\ page'.map = Viewer!NoComments
      /\ page'.current = 1 /\ page'.text = Unsaid /\ page'.timer = FALSE
      /\ page'.said = Viewer!NoComments
    BY NoTab DEF Tabs
<1>9. ViewerTypes'
    BY <1>2, <1>3, <1>8 DEF ViewerInv, ViewerTypes
<1>10. Newest' = get
    BY <1>3, <1>5 DEF Newest
<1>11. QueueShape'
    BY <1>1, <1>2, <1>3, <1>6, <1>8, <1>10 DEF QueueShape, Opened, IsPost
<1>12. Listing'
    BY <1>8 DEF Listing, Embedded
<1>13. BlankAtFirst'
    BY <1>8 DEF BlankAtFirst, Viewer!NoComments
<1>14. CommentsOnRuns'
    BY <1>3, <1>7 DEF ViewerInv, CommentsOnRuns, Commented
<1>15. PageTells' /\ LastSays'
    BY <1>8 DEF PageTells, LastSays, Opened, Embedded
<1> QED
    BY <1>9, <1>11, <1>12, <1>13, <1>14, <1>15 DEF ViewerInv

LEMMA LaunchKeeps ==
    ASSUME ViewerInv, Viewer!Launch
    PROVE  ViewerInv'
<1> DEFINE none == <<>>
           get == Viewer!Request("page", Viewer!NoFile("none"))
<1>1. none \in Seq(Connections) /\ Len(none) = 0
    BY EmptySeq
<1>2. <<get>> = Append(none, get)
    OBVIOUS
<1>3. open' = <<get>>
    BY DEF Viewer!Launch
<1> HIDE DEF none, get
<1>4. open' = Append(none, get)
    BY <1>2, <1>3
<1>5. /\ page' = [Viewer!NoPage EXCEPT !.status = "loading"]
      /\ outputs' = outputs /\ previous' = previous /\ feedback' = feedback
      /\ server' = "serving" /\ outputs # {}
    BY DEF Viewer!Launch
<1>6. \A i \in 1 .. Len(none) : /\ IsPost(none[i])
                                /\ Commented(none[i].review.map) \subseteq outputs
    BY <1>1
<1> QED
    BY <1>1, <1>4, <1>5, <1>6, LoadKeeps DEF get

LEMMA ReloadKeeps ==
    ASSUME ViewerInv, Viewer!Reload
    PROVE  ViewerInv'
<1> DEFINE get == Viewer!Request("page", Viewer!NoFile("none"))
<1>1. PICK m \in 1 .. Len(open) + 1, n \in 0 .. Len(open) :
         /\ \A i \in m .. n : Viewer!Post(open[i])
         /\ open' = Append(SubSeq(open, m, n), get)
    BY DEF Viewer!Reload
<1>2. open \in Seq(Connections) /\ Len(open) \in Nat /\ m \in Int /\ n \in Int
    BY LenProperties DEF ViewerInv, ViewerTypes
<1>3. \A i \in m .. n : i \in 1 .. Len(open)
    BY <1>2
<1> DEFINE posts == SubSeq(open, m, n)
<1>4. /\ posts \in Seq(Connections) /\ Len(posts) = IF m <= n THEN n - m + 1 ELSE 0
      /\ \A i \in 1 .. n - m + 1 : posts[i] = open[m + i - 1]
  <2>1. \A i \in m .. n : open[i] \in Connections
      BY <1>2, <1>3, ElementOfSeq
  <2> QED
      BY <2>1, <1>2, SubSeqProperties
<1> HIDE DEF posts
<1>5. ASSUME NEW i \in 1 .. Len(posts)
      PROVE  IsPost(posts[i]) /\ Commented(posts[i].review.map) \subseteq outputs
  <2>1. m + i - 1 \in m .. n /\ i \in 1 .. n - m + 1
      BY <1>2, <1>4
  <2>2. IsPost(open[m + i - 1]) /\ Commented(open[m + i - 1].review.map) \subseteq outputs
      BY <2>1, <1>1, <1>3 DEF Viewer!Post, IsPost, ViewerInv, CommentsOnRuns
  <2> QED
      BY <2>1, <2>2, <1>4
<1>6. /\ page' = [Viewer!NoPage EXCEPT !.status = "loading"]
      /\ outputs' = outputs /\ previous' = previous /\ feedback' = feedback
      /\ server' = "serving" /\ outputs # {}
    BY DEF Viewer!Reload, ViewerInv, QueueShape
<1>7. open' = Append(posts, get)
    BY <1>1 DEF posts
<1> HIDE DEF get
<1> QED
    BY <1>4, <1>5, <1>6, <1>7, LoadKeeps DEF get

-----------------------------------------------------------------------------

\* The request the server takes up: that of the page, which is the last; that of the
\* comments, which only early POSTs follow; or a POST.
LEMMA TakenUp ==
    ASSUME ViewerInv, open # <<>>
    PROVE  /\ Head(open) = open[1] /\ Head(open) \in Connections
           /\ Tail(open) \in Seq(Connections) /\ Len(open) \in Nat /\ Len(open) >= 1
           /\ Len(Tail(open)) = Len(open) - 1 /\ (Tail(open) = <<>> <=> Len(open) = 1)
           /\ \A i \in 1 .. Len(open) - 1 : Tail(open)[i] = open[i + 1]
           /\ page.status \in {"loading", "fetching", "open"}
           /\ Commented(Head(open).review.map) \subseteq outputs
           /\ Head(open).kind = "page" => page.status = "loading" /\ Len(open) = 1
           /\ Head(open).kind = "feedback" =>
                 /\ page.status = "fetching" /\ (~page.behind => Len(open) = 1)
                 /\ \A i \in 1 .. Len(open) - 1 : IsPost(Tail(open)[i])
           /\ IsPost(Head(open)) =>
                 /\ page.status \in {"loading", "open"}
                 /\ page.status = "loading" => Len(open) > 1 /\ Newest.kind = "page"
           /\ server = "serving"
<1>1. open \in Seq(Connections)
    BY DEF ViewerInv, ViewerTypes
<1>2. /\ Tail(open) \in Seq(Connections) /\ Len(open) \in Nat /\ Len(open) >= 1
      /\ Len(Tail(open)) = Len(open) - 1 /\ (Tail(open) = <<>> <=> Len(open) = 1)
      /\ \A i \in 1 .. Len(open) - 1 : Tail(open)[i] = open[i + 1]
      /\ Head(open) = open[1] /\ open[1] \in Connections
    BY <1>1, WithoutFirst
<1>3. page.status \in {"loading", "fetching", "open"} /\ server = "serving"
    BY TabFields DEF ViewerInv, QueueShape
<1>4. 1 \in 1 .. Len(open)
    BY <1>2
<1>5. Commented(Head(open).review.map) \subseteq outputs
    BY <1>2, <1>4 DEF ViewerInv, CommentsOnRuns
<1> DEFINE first == Head(open)
           rest == Tail(open)
<1>6. first = open[1] /\ \A i \in 1 .. Len(open) - 1 : rest[i] = open[i + 1]
    BY <1>2
<1> HIDE DEF first, rest
<1>7. CASE page.status = "loading"
  <2>1. Newest.kind = "page" /\ \A i \in 1 .. Len(open) : i # Len(open) => IsPost(open[i])
      BY <1>7 DEF ViewerInv, QueueShape
  <2>2. Len(open) = 1 => Newest = first
      BY <1>6 DEF Newest
  <2>3. Len(open) # 1 => IsPost(first)
      BY <2>1, <1>4, <1>6
  <2>4. /\ first.kind = "page" => Len(open) = 1
        /\ IsPost(first) => Len(open) # 1
        /\ first.kind # "feedback"
      BY <2>1, <2>2, <2>3 DEF IsPost
  <2>5. /\ Head(open).kind = "page" => Len(open) = 1
        /\ IsPost(Head(open)) => Len(open) > 1
        /\ Head(open).kind # "feedback"
      BY <2>4, <1>2 DEF first
  <2> QED
      BY <2>1, <2>5, <1>2, <1>3, <1>5, <1>7
<1>8. CASE page.status = "fetching"
  <2>1. /\ open[1].kind = "feedback" /\ (~page.behind => Len(open) = 1)
        /\ \A i \in 1 .. Len(open) : i # 1 => IsPost(open[i])
      BY <1>8 DEF ViewerInv, QueueShape
  <2>2. ASSUME NEW i \in 1 .. Len(open) - 1 PROVE IsPost(rest[i])
    <3>1. i + 1 \in 1 .. Len(open) /\ i + 1 # 1
        BY <1>2
    <3> QED
        BY <3>1, <2>1, <1>6
  <2> QED
      BY <2>1, <2>2, <1>2, <1>3, <1>5, <1>8 DEF IsPost, rest
<1>9. CASE page.status = "open"
  <2>1. IsPost(open[1])
      BY <1>4, <1>9 DEF ViewerInv, QueueShape, Opened
  <2> QED
      BY <2>1, <1>2, <1>3, <1>5, <1>9 DEF IsPost
<1> QED
    BY <1>3, <1>7, <1>8, <1>9

LEMMA ServeNoPageKeeps ==
    ASSUME ViewerInv, Viewer!ServeNoPage
    PROVE  ViewerInv'
<1>1. /\ open # <<>> /\ Head(open).kind = "page" /\ open' = Tail(open)
      /\ page' = [page EXCEPT !.status = "failed"] /\ outputs' = outputs
      /\ previous' = previous /\ server' = server /\ feedback' = feedback
    BY DEF Viewer!ServeNoPage, Viewer!Serve
<1>2. open' = <<>>
    BY <1>1, TakenUp
<1>3. page' \in Tabs /\ page'.status = "failed"
    BY <1>1 DEF ViewerInv, ViewerTypes, Tabs
<1>4. ViewerTypes'
    BY <1>1, <1>2, <1>3, EmptySeq DEF ViewerInv, ViewerTypes
<1>5. QueueShape'
    BY <1>1, <1>2, <1>3 DEF ViewerInv, QueueShape, Opened
<1>6. Listing' /\ BlankAtFirst' /\ PageTells' /\ LastSays'
    BY <1>3 DEF Listing, BlankAtFirst, PageTells, LastSays, Opened, Embedded
<1>7. CommentsOnRuns'
  <2>1. Len(open') = 0
      BY <1>2
  <2> QED
      BY <2>1, <1>1 DEF ViewerInv, CommentsOnRuns, Commented
<1> QED
    BY <1>4, <1>5, <1>6, <1>7 DEF ViewerInv

LEMMA ServePageKeeps ==
    ASSUME ViewerInv, Viewer!ServePage
    PROVE  ViewerInv'
<1> DEFINE runs == Viewer!find_runs
           get == Viewer!Request("feedback", Viewer!NoFile("none"))
<1>1. /\ open # <<>> /\ Head(open).kind = "page" /\ outputs' = outputs
      /\ previous' = previous /\ server' = server /\ feedback' = feedback
    BY DEF Viewer!ServePage, Viewer!Serve
<1>2. page.status = "loading" /\ Tail(open) = <<>> /\ server = "serving"
    BY <1>1, TakenUp
<1>3. outputs # {} /\ outputs \subseteq Reviewed
    BY <1>2 DEF ViewerInv, QueueShape, ViewerTypes
<1>4. /\ runs \in Seq(Reviewed) /\ 1 \in DOMAIN runs
      /\ \A i, j \in DOMAIN runs : runs[i] = runs[j] => i = j
      /\ {runs[i] : i \in DOMAIN runs} = outputs
    BY <1>3, RunsAreListed
<1>5. /\ page.map = Viewer!NoComments /\ page.said = Viewer!NoComments
      /\ page.text = Unsaid /\ page.current = 1 /\ ~page.timer /\ page \in Tabs
    BY <1>2 DEF ViewerInv, BlankAtFirst, ViewerTypes
<1>6. /\ get \in Connections /\ get.kind = "feedback" /\ Commented(get.review.map) = {}
    BY NothingSaid
<1>7. Commented(Viewer!NoComments) = {} /\ Commented(feedback.map) \subseteq outputs
    BY NothingSaid DEF ViewerInv, CommentsOnRuns
<1>8. Viewer!NoComments = [Viewer!NoComments EXCEPT ![runs[1]] = Unsaid]
  <2>1. runs[1] \in outputs
      BY <1>4
  <2>2. Viewer!NoComments = [r \in Reviewed |-> Unsaid]
      BY DEF Viewer!NoComments
  <2> QED
      BY <2>1, <2>2, <1>3
<1>9. /\ previous => page' = [[page EXCEPT !.runs = runs] EXCEPT !.status = "open",
                                                                 !.behind = TRUE]
                     /\ open' = Tail(open)
      /\ ~previous => page' = [[page EXCEPT !.runs = runs] EXCEPT !.status = "fetching"]
                      /\ open' = Append(Tail(open), get)
    BY DEF Viewer!ServePage
<1> HIDE DEF runs, get
<1>10. /\ page' \in Tabs /\ page'.runs = runs /\ page'.map = page.map
       /\ page'.said = page.said /\ page'.text = page.text /\ page'.current = page.current
       /\ page'.timer = page.timer
       /\ page'.status = IF previous THEN "open" ELSE "fetching"
       /\ previous => page'.behind
  <2> DEFINE embedded == [page EXCEPT !.runs = runs]
  <2>1. previous \in BOOLEAN
      BY DEF ViewerInv, ViewerTypes
  <2>2. /\ embedded \in Tabs /\ embedded.runs = runs /\ embedded.map = page.map
        /\ embedded.said = page.said /\ embedded.text = page.text
        /\ embedded.current = page.current /\ embedded.timer = page.timer
      BY <1>4, <1>5 DEF Tabs
  <2>3. /\ previous => page' = [embedded EXCEPT !.status = "open", !.behind = TRUE]
        /\ ~previous => page' = [embedded EXCEPT !.status = "fetching"]
      BY <1>9
  <2> HIDE DEF embedded
  <2>4. CASE previous
      BY <2>2, <2>3, <2>4 DEF Tabs
  <2>5. CASE ~previous
      BY <2>2, <2>3, <2>5 DEF Tabs
  <2> QED
      BY <2>4, <2>5
<1>11. Listed' = outputs
    BY <1>4, <1>10 DEF Listed
<1>12. Listing' /\ PageTells'
  <2>1. Listing'
      BY <1>1, <1>4, <1>7, <1>10, <1>11 DEF Listing, Commented
  <2>2. PageTells'
      BY <1>4, <1>5, <1>7, <1>8, <1>10 DEF PageTells, Commented
  <2> QED
      BY <2>1, <2>2
<1>13. CASE previous
  <2>1. open' = <<>> /\ Len(open') = 0
    <3>1. open' = Tail(open)
        BY <1>9, <1>13, Zenon
    <3> QED
        BY <3>1, <1>2
  <2>2. page'.status = "open"
      BY <1>10, <1>13
  <2>3. ViewerTypes'
      BY <2>1, <1>1, <1>10, EmptySeq DEF ViewerInv, ViewerTypes
  <2>4. QueueShape'
      BY <2>1, <2>2, <1>1 DEF ViewerInv, QueueShape, Opened
  <2>6. BlankAtFirst'
      BY <2>2 DEF BlankAtFirst
  <2>7. CommentsOnRuns'
      BY <2>1, <1>1, <1>7 DEF CommentsOnRuns, Commented
  <2>9. LastSays'
      BY <1>10, <1>13 DEF LastSays
  <2> QED
      BY <2>3, <2>4, <2>6, <2>7, <2>9, <1>12 DEF ViewerInv
<1>14. CASE ~previous
  <2> DEFINE one == <<get>>
  <2>1. open' = one
    <3>1. Append(<<>>, get) = <<get>>
        OBVIOUS
    <3> QED
        BY <3>1, <1>2, <1>9, <1>14
  <2>2. one \in Seq(Connections) /\ Len(one) = 1 /\ one[1] = get /\ one # <<>>
      BY <1>6
  <2> HIDE DEF one
  <2>4. page'.status = "fetching"
      BY <1>10, <1>14
  <2>5. ViewerTypes'
      BY <2>1, <2>2, <1>1, <1>10 DEF ViewerInv, ViewerTypes
  <2>6. QueueShape'
      BY <2>1, <2>2, <2>4, <1>1, <1>2, <1>3, <1>6 DEF QueueShape, Opened
  <2>8. BlankAtFirst'
      BY <2>4 DEF BlankAtFirst
  <2>9. CommentsOnRuns'
      BY <2>1, <2>2, <1>1, <1>6, <1>7 DEF CommentsOnRuns, Commented
  <2>10. LastSays'
      BY <2>4 DEF LastSays, Opened
  <2> QED
      BY <2>5, <2>6, <2>8, <2>9, <2>10, <1>12 DEF ViewerInv
<1> QED
    BY <1>13, <1>14

\* The page is drawn with some comments; it is behind unless they are those of the
\* file and nothing was posted before.
LEMMA DrawnKeeps ==
    ASSUME ViewerInv, open # <<>>, Head(open).kind = "feedback", open' = Tail(open),
           outputs' = outputs, previous' = previous, server' = server, feedback' = feedback,
           NEW map \in Maps, Commented(map) \subseteq Listed,
           NEW behind \in BOOLEAN, ~behind => ~page.behind /\ map = feedback.map,
           page' = [Viewer!ShowRun0(map) EXCEPT !.behind = behind]
    PROVE  ViewerInv'
<1>1. /\ page.status = "fetching" /\ (~page.behind => Len(open) = 1)
      /\ Tail(open) \in Seq(Connections) /\ Len(open) \in Nat /\ Len(open) >= 1
      /\ Len(Tail(open)) = Len(open) - 1 /\ (Tail(open) = <<>> <=> Len(open) = 1)
      /\ \A i \in 1 .. Len(open) - 1 : Tail(open)[i] = open[i + 1]
      /\ \A i \in 1 .. Len(open) - 1 : IsPost(Tail(open)[i])
      /\ server = "serving"
    BY TakenUp
<1> DEFINE rest == Tail(open)
<1>2. /\ open' = rest /\ rest \in Seq(Connections) /\ Len(rest) = Len(open) - 1
      /\ \A i \in 1 .. Len(rest) : i + 1 \in 1 .. Len(open) /\ rest[i] = open[i + 1]
      /\ \A i \in 1 .. Len(rest) : IsPost(rest[i])
      /\ ~page.behind => rest = <<>>
    BY <1>1
<1> HIDE DEF rest
<1>3. /\ 1 \in DOMAIN page.runs /\ Listed \subseteq outputs
      /\ \A i, j \in DOMAIN page.runs : page.runs[i] = page.runs[j] => i = j
      /\ Commented(feedback.map) \subseteq Listed
    BY <1>1 DEF ViewerInv, Listing, Embedded, Opened
<1>4. page \in Tabs
    BY DEF ViewerInv, ViewerTypes
<1>5. page.runs[1] \in Reviewed
    BY <1>3, OneOfListed DEF ViewerInv
<1>6. page' = [[page EXCEPT !.status = "open", !.map = map, !.said = map,
                            !.text = map[page.runs[1]], !.current = 1] EXCEPT !.behind = behind]
    BY DEF Viewer!ShowRun0
<1>7. map[page.runs[1]] \in Words /\ map = [map EXCEPT ![page.runs[1]] = map[page.runs[1]]]
    BY <1>5 DEF Maps
<1>8. /\ page' \in Tabs /\ page'.status = "open" /\ page'.runs = page.runs
      /\ page'.map = map /\ page'.said = map /\ page'.text = map[page.runs[1]]
      /\ page'.current = 1 /\ page'.behind = behind
  <2> DEFINE text == map[page.runs[1]]
             drawn == [page EXCEPT !.status = "open", !.map = map, !.said = map,
                                   !.text = text, !.current = 1]
  <2>1. text \in Words
      BY <1>7
  <2> HIDE DEF text
  <2>2. /\ drawn \in Tabs /\ drawn.status = "open" /\ drawn.runs = page.runs
        /\ drawn.map = map /\ drawn.said = map /\ drawn.text = text /\ drawn.current = 1
      BY <2>1, <1>4 DEF Tabs
  <2>3. page' = [drawn EXCEPT !.behind = behind]
      BY <1>6 DEF text
  <2> HIDE DEF drawn
  <2> QED
      BY <2>2, <2>3 DEF Tabs, text
<1>9. Listed' = Listed
    BY <1>8 DEF Listed
<1>10. ViewerTypes'
    BY <1>2, <1>8 DEF ViewerInv, ViewerTypes
<1>11. QueueShape'
  <2>1. server' = "serving" /\ outputs' # {}
      BY <1>1 DEF ViewerInv, QueueShape
  <2> QED
      BY <2>1, <1>2, <1>8 DEF QueueShape, Opened, IsPost
<1>12. Listing'
    BY <1>3, <1>8, <1>9 DEF Listing, Commented
<1>13. BlankAtFirst'
    BY <1>8 DEF BlankAtFirst
<1>14. CommentsOnRuns'
    BY <1>2 DEF ViewerInv, CommentsOnRuns, Commented
<1>15. PageTells'
    BY <1>3, <1>7, <1>8, <1>9 DEF PageTells, Commented
<1>16. LastSays'
    BY <1>2, <1>8 DEF LastSays
<1> QED
    BY <1>10, <1>11, <1>12, <1>13, <1>14, <1>15, <1>16 DEF ViewerInv

LEMMA ServeFeedbackKeeps ==
    ASSUME ViewerInv, Viewer!ServeFeedback \/ Viewer!ServeNoFeedback
    PROVE  ViewerInv'
<1>1. /\ open # <<>> /\ Head(open).kind = "feedback" /\ open' = Tail(open)
      /\ outputs' = outputs /\ previous' = previous /\ server' = server
      /\ feedback' = feedback
    BY DEF Viewer!ServeFeedback, Viewer!ServeNoFeedback, Viewer!Serve
<1>2. /\ page \in Tabs /\ page.behind \in BOOLEAN
      /\ feedback.map \in Maps /\ Commented(feedback.map) \subseteq Listed
  <2>1. page.status = "fetching"
      BY <1>1, TakenUp
  <2> QED
      BY <2>1, TabFields DEF ViewerInv, ViewerTypes, Reviews, Listing, Embedded, Opened
<1>3. Viewer!NoComments \in Maps /\ Commented(Viewer!NoComments) \subseteq Listed
    BY NothingSaid
<1>4. CASE Viewer!ServeFeedback
  <2> DEFINE map == feedback.map
             behind == page.behind
  <2>1. page' = [Viewer!ShowRun0(map) EXCEPT !.behind = behind]
    <3>1. page' = Viewer!ShowRun0(map)
        BY <1>4 DEF Viewer!ServeFeedback
    <3>2. Viewer!ShowRun0(map) = [page EXCEPT !.status = "open", !.map = map, !.said = map,
                                     !.text = map[page.runs[1]], !.current = 1]
        BY DEF Viewer!ShowRun0
    <3> HIDE DEF map, behind
    <3> QED
        BY <1>2, <3>1, <3>2 DEF Tabs, behind
  <2>2. map \in Maps /\ Commented(map) \subseteq Listed /\ behind \in BOOLEAN
        /\ (~behind => ~page.behind /\ map = feedback.map)
      BY <1>2
  <2> HIDE DEF map, behind
  <2> QED
      BY <2>1, <2>2, <1>1, DrawnKeeps
<1>5. CASE Viewer!ServeNoFeedback
  <2> DEFINE map == Viewer!NoComments
             behind == TRUE
  <2>1. page' = [Viewer!ShowRun0(map) EXCEPT !.behind = behind]
      BY <1>5 DEF Viewer!ServeNoFeedback, Viewer!DrawnBlank
  <2>2. map \in Maps /\ Commented(map) \subseteq Listed /\ behind \in BOOLEAN
        /\ (~behind => ~page.behind /\ map = feedback.map)
      BY <1>3
  <2> HIDE DEF map, behind
  <2> QED
      BY <2>1, <2>2, <1>1, DrawnKeeps
<1> QED
    BY <1>4, <1>5

\* A POST is answered, its review written or not.
LEMMA PostAnswered ==
    ASSUME ViewerInv, open # <<>>, IsPost(Head(open)), open' = Tail(open),
           NEW kind, NEW failed \in BOOLEAN, page' = Viewer!Answered(kind, failed),
           outputs' = outputs, previous' = previous, server' = server,
           feedback' \in Reviews,
           \/ ~failed /\ feedback' = Head(open).review
           \/ failed /\ Commented(feedback'.map) \subseteq outputs
    PROVE  ViewerInv'
<1> DEFINE rest == Tail(open)
           first == Head(open)
<1>1. /\ first = open[1]
      /\ rest \in Seq(Connections) /\ Len(open) \in Nat /\ Len(open) >= 1
      /\ Len(rest) = Len(open) - 1 /\ (rest = <<>> <=> Len(open) = 1)
      /\ \A i \in 1 .. Len(open) - 1 : rest[i] = open[i + 1]
      /\ page.status \in {"loading", "open"}
      /\ Commented(first.review.map) \subseteq outputs
      /\ page.status = "loading" => Len(open) > 1 /\ Newest.kind = "page"
      /\ server = "serving"
    BY TakenUp
<1>2. open' = rest
    OBVIOUS
<1>3. ~failed => feedback' = first.review
    OBVIOUS
<1> HIDE DEF rest, first
<1>4. rest # <<>> => rest[Len(rest)] = Newest
    BY <1>1 DEF Newest
<1>5. /\ page' \in Tabs /\ page'.status = page.status /\ page'.runs = page.runs
      /\ page'.map = page.map /\ page'.said = page.said /\ page'.text = page.text
      /\ page'.current = page.current /\ page'.timer = page.timer
      /\ page'.behind = page.behind
      /\ Opened => page'.unsaved = failed
  <2>1. page \in Tabs
      BY DEF ViewerInv, ViewerTypes
  <2> QED
      BY <2>1 DEF Tabs, Viewer!Answered, Opened
<1>6. Listed' = Listed /\ Opened' = Opened
    BY <1>5 DEF Listed, Opened
<1>7. ViewerTypes'
    BY <1>1, <1>2, <1>5 DEF ViewerInv, ViewerTypes
<1>8. Newest' = IF rest = <<>> THEN Newest' ELSE Newest
    BY <1>2, <1>4 DEF Newest
<1>9. QueueShape'
  <2>1. ASSUME Opened
        PROVE  \A i \in 1 .. Len(rest) : IsPost(rest[i])
    <3>1. \A i \in 1 .. Len(open) : IsPost(open[i])
        BY <2>1 DEF ViewerInv, QueueShape
    <3> QED
        BY <3>1, <1>1
  <2>2. ASSUME page.status = "loading"
        PROVE  /\ rest # <<>> /\ Newest' = Newest /\ Newest.kind = "page"
               /\ \A i \in 1 .. Len(rest) : i # Len(rest) => IsPost(rest[i])
    <3>1. \A i \in 1 .. Len(open) : i # Len(open) => IsPost(open[i])
        BY <2>2 DEF ViewerInv, QueueShape
    <3> QED
        BY <3>1, <2>2, <1>1, <1>8
  <2>3. server = "serving" => outputs # {}
      BY DEF ViewerInv, QueueShape
  <2> QED
      BY <2>1, <2>2, <2>3, <1>1, <1>2, <1>5, <1>6 DEF QueueShape, IsPost
<1>10. Listing'
  <2>1. Embedded' => Opened
      BY <1>1, <1>5 DEF Embedded, Opened
  <2>2. Opened => Embedded
      BY DEF Opened, Embedded
  <2> QED
      BY <2>1, <2>2, <1>5, <1>6 DEF ViewerInv, Listing
<1>11. BlankAtFirst'
    BY <1>5 DEF ViewerInv, BlankAtFirst, Viewer!NoComments
<1>12. CommentsOnRuns'
  <2>1. \A i \in 1 .. Len(rest) : Commented(rest[i].review.map) \subseteq outputs
    <3>1. \A i \in 1 .. Len(open) : Commented(open[i].review.map) \subseteq outputs
        BY DEF ViewerInv, CommentsOnRuns
    <3> QED
        BY <3>1, <1>1
  <2>2. Commented(feedback'.map) \subseteq outputs
      BY <1>1, <1>3
  <2> QED
      BY <2>1, <2>2, <1>2 DEF CommentsOnRuns, Commented
<1>13. PageTells'
    BY <1>5, <1>6 DEF ViewerInv, PageTells, Embedded, Commented
<1>14. LastSays'
  <2> SUFFICES ASSUME Opened, ~page.behind, ~page.timer
               PROVE  IF rest = <<>> THEN ~failed => feedback'.map = page.said
                                     ELSE Newest'.review.map = page.said
      BY <1>2, <1>5, <1>6 DEF LastSays
  <2>1. Newest.review.map = page.said
      BY DEF ViewerInv, LastSays
  <2>2. rest = <<>> => Newest = first
      BY <1>1 DEF Newest
  <2> QED
      BY <2>1, <2>2, <1>3, <1>8
<1> QED
    BY <1>7, <1>9, <1>10, <1>11, <1>12, <1>13, <1>14 DEF ViewerInv

LEMMA ServeSaveKeeps ==
    ASSUME ViewerInv, NEW kind \in {"save", "submit"}, Viewer!ServeSave(kind)
    PROVE  ViewerInv'
<1>1. /\ open # <<>> /\ IsPost(Head(open)) /\ open' = Tail(open)
      /\ page' = Viewer!Answered(kind, FALSE)
      /\ outputs' = outputs /\ previous' = previous /\ server' = server
      /\ feedback' = Head(open).review
    BY DEF Viewer!ServeSave, Viewer!Serve, IsPost
<1>2. feedback' \in Reviews
    BY <1>1, TakenUp DEF Connections
<1> QED
    BY <1>1, <1>2, PostAnswered

LEMMA SaveFailsKeeps ==
    ASSUME ViewerInv, NEW kind \in {"save", "submit"}, Viewer!SaveFails(kind)
    PROVE  ViewerInv'
<1>1. /\ open # <<>> /\ IsPost(Head(open)) /\ open' = Tail(open)
      /\ page' = Viewer!Answered(kind, TRUE)
      /\ outputs' = outputs /\ previous' = previous /\ server' = server
      /\ feedback' \in {feedback, Viewer!NoFile("torn")}
    BY DEF Viewer!SaveFails, Viewer!Serve, IsPost
<1>2. feedback' \in Reviews /\ Commented(feedback'.map) \subseteq outputs
    BY <1>1, NothingSaid DEF ViewerInv, ViewerTypes, CommentsOnRuns
<1> QED
    BY <1>1, <1>2, PostAnswered

LEMMA StopKeeps ==
    ASSUME ViewerInv, Viewer!Stop
    PROVE  ViewerInv'
<1>1. /\ server' = "off" /\ open' = <<>> /\ outputs' = outputs /\ previous' = previous
      /\ feedback' \in {feedback, Viewer!NoFile("torn")}
      /\ open = <<>> => feedback' = feedback
    BY DEF Viewer!Stop
<1>2. feedback' \in Reviews /\ Commented(feedback'.map) \subseteq outputs
    BY <1>1, NothingSaid DEF ViewerInv, ViewerTypes, CommentsOnRuns
<1>3. page \in Tabs
    BY DEF ViewerInv, ViewerTypes
<1>4. Len(open') = 0
    BY <1>1
<1>5. ASSUME ~Embedded
      PROVE  ViewerInv'
  <2>1. page' \in Tabs /\ page'.status = "failed"
      BY <1>3, <1>5 DEF Viewer!Stop, Embedded, Tabs
  <2>2. ViewerTypes'
      BY <2>1, <1>1, <1>2, EmptySeq DEF ViewerInv, ViewerTypes
  <2>3. QueueShape'
      BY <2>1, <1>1 DEF QueueShape, Opened
  <2>4. Listing' /\ BlankAtFirst' /\ PageTells' /\ LastSays'
      BY <2>1 DEF Listing, BlankAtFirst, PageTells, LastSays, Opened, Embedded
  <2>5. CommentsOnRuns'
      BY <1>1, <1>2, <1>4 DEF CommentsOnRuns, Commented
  <2> QED
      BY <2>2, <2>3, <2>4, <2>5 DEF ViewerInv
<1>6. ASSUME Opened
      PROVE  ViewerInv'
  <2> DEFINE told == page.dialog \/ \E i \in DOMAIN open : open[i].kind = "submit"
             lost == page.unsaved \/ \E i \in DOMAIN open : Viewer!Post(open[i])
  <2>1. page' = [page EXCEPT !.unsaved = lost, !.dialog = told]
      BY <1>6 DEF Viewer!Stop, Viewer!Failed, Opened
  <2>2. told \in BOOLEAN /\ lost \in BOOLEAN
      BY <1>3 DEF Tabs
  <2>3. open # <<>> => lost
    <3>1. open # <<>> => 1 \in DOMAIN open /\ 1 \in 1 .. Len(open)
        BY EmptySeq, LenProperties DEF ViewerInv, ViewerTypes
    <3> QED
        BY <3>1, <1>6 DEF ViewerInv, QueueShape, IsPost, Viewer!Post
  <2>4. page.unsaved => lost
      OBVIOUS
  <2> HIDE DEF told, lost
  <2>5. /\ page' \in Tabs /\ page'.status = page.status /\ page'.runs = page.runs
        /\ page'.map = page.map /\ page'.said = page.said /\ page'.text = page.text
        /\ page'.current = page.current /\ page'.timer = page.timer /\ page'.unsaved = lost
        /\ page'.behind = page.behind
      BY <2>1, <2>2, <1>3 DEF Tabs
  <2>6. Listed' = Listed /\ Opened'
      BY <2>5, <1>6 DEF Listed, Opened
  <2>7. ViewerTypes'
      BY <2>5, <1>1, <1>2, EmptySeq DEF ViewerInv, ViewerTypes
  <2>8. QueueShape'
      BY <2>6, <1>1, <1>4 DEF QueueShape, Opened
  <2>9. Listing'
      BY <2>5, <2>6, <1>1, <1>6 DEF ViewerInv, Listing, Opened, Embedded
  <2>10. BlankAtFirst'
      BY <2>6 DEF BlankAtFirst, Opened
  <2>11. CommentsOnRuns'
      BY <1>1, <1>2, <1>4 DEF CommentsOnRuns, Commented
  <2>12. PageTells'
      BY <2>5, <2>6, <1>6 DEF ViewerInv, PageTells, Opened, Embedded, Commented
  <2>13. LastSays'
    <3> SUFFICES ASSUME ~page.behind, ~page.timer, ~lost
                 PROVE  feedback'.map = page.said
        BY <2>5, <1>1 DEF LastSays
    <3>1. open = <<>> /\ ~page.unsaved /\ feedback' = feedback
        BY <2>3, <2>4, <1>1
    <3> QED
        BY <3>1, <1>6 DEF ViewerInv, LastSays
  <2> QED
      BY <2>7, <2>8, <2>9, <2>10, <2>11, <2>12, <2>13 DEF ViewerInv
<1>7. ASSUME page.status = "fetching"
      PROVE  ViewerInv'
  <2> DEFINE told == page.dialog \/ \E i \in DOMAIN open : open[i].kind = "submit"
             lost == page.unsaved \/ \E i \in DOMAIN open : Viewer!Post(open[i])
             blank == Viewer!NoComments
  <2>1. page' = [[[page EXCEPT !.status = "open", !.map = blank, !.said = blank,
                               !.text = blank[page.runs[1]], !.current = 1]
                    EXCEPT !.behind = TRUE] EXCEPT !.unsaved = lost, !.dialog = told]
      BY <1>7 DEF Viewer!Stop, Viewer!Failed, Viewer!DrawnBlank, Viewer!ShowRun0
  <2>2. /\ 1 \in DOMAIN page.runs /\ Listed \subseteq outputs
        /\ \A i, j \in DOMAIN page.runs : page.runs[i] = page.runs[j] => i = j
      BY <1>7 DEF ViewerInv, Listing, Embedded
  <2>3. page.runs[1] \in Reviewed
      BY <2>2, OneOfListed DEF ViewerInv
  <2>4. blank \in Maps /\ Commented(blank) = {}
      BY NothingSaid
  <2>5. told \in BOOLEAN /\ lost \in BOOLEAN
      BY <1>3 DEF Tabs
  <2> HIDE DEF told, lost, blank
  <2>6. blank[page.runs[1]] \in Words
        /\ blank = [blank EXCEPT ![page.runs[1]] = blank[page.runs[1]]]
      BY <2>3, <2>4 DEF Maps
  <2>7. /\ page' \in Tabs /\ page'.status = "open" /\ page'.runs = page.runs
        /\ page'.map = blank /\ page'.said = blank /\ page'.text = blank[page.runs[1]]
        /\ page'.current = 1 /\ page'.behind
      BY <2>1, <2>4, <2>5, <2>6, <1>3 DEF Tabs
  <2>8. Listed' = Listed
      BY <2>7 DEF Listed
  <2>9. ViewerTypes'
      BY <2>7, <1>1, <1>2, EmptySeq DEF ViewerInv, ViewerTypes
  <2>10. QueueShape' /\ BlankAtFirst'
      BY <2>7, <1>1, <1>4 DEF QueueShape, BlankAtFirst, Opened
  <2>11. Listing'
      BY <2>2, <2>7, <2>8, <1>1 DEF Listing, Opened
  <2>12. CommentsOnRuns'
      BY <1>1, <1>2, <1>4 DEF CommentsOnRuns, Commented
  <2>13. PageTells' /\ LastSays'
      BY <2>2, <2>4, <2>6, <2>7, <2>8 DEF PageTells, LastSays, Commented
  <2> QED
      BY <2>9, <2>10, <2>11, <2>12, <2>13 DEF ViewerInv
<1> QED
    BY <1>5, <1>6, <1>7 DEF Embedded, Opened

LEMMA ViewerStepKeeps ==
    ASSUME ViewerInv, [Viewer!Next]_viewer_vars
    PROVE  ViewerInv'
<1>1. CASE \E r \in Reviewed \ outputs : Viewer!RunEnds(r)
    BY <1>1, RunEndsKeeps
<1>2. CASE \E text \in Viewer!Texts : Viewer!Type(text)
    BY <1>2, TypeKeeps DEF Viewer!Texts, Words
<1>3. CASE \E to \in DOMAIN page.runs : Viewer!Navigate(to)
    BY <1>3, NavigateKeeps
<1>4. CASE Viewer!TimerFires \/ Viewer!CloseDialog
    BY <1>4, TimerKeeps
<1>5. CASE Viewer!Submit
    BY <1>5, SubmitKeeps
<1>6. CASE Viewer!Reload
    BY <1>6, ReloadKeeps
<1>7. CASE Viewer!Launch
    BY <1>7, LaunchKeeps
<1>8. CASE Viewer!Stop
    BY <1>8, StopKeeps
<1>9. CASE Viewer!ServePage
    BY <1>9, ServePageKeeps
<1>10. CASE Viewer!ServeNoPage
    BY <1>10, ServeNoPageKeeps
<1>11. CASE Viewer!ServeFeedback \/ Viewer!ServeNoFeedback
    BY <1>11, ServeFeedbackKeeps
<1>12. CASE \E kind \in {"save", "submit"} : Viewer!ServeSave(kind) \/ Viewer!SaveFails(kind)
    BY <1>12, ServeSaveKeeps, SaveFailsKeeps
<1>13. CASE UNCHANGED viewer_vars
  <2>1. outputs' = outputs /\ previous' = previous /\ server' = server
        /\ feedback' = feedback /\ open' = open /\ page' = page
      BY <1>13 DEF viewer_vars
  <2>2. Listed' = Listed
      BY <2>1 DEF Listed
  <2>3. ViewerTypes' /\ BlankAtFirst'
      BY <2>1 DEF ViewerInv, ViewerTypes, BlankAtFirst, Viewer!NoComments
  <2>4. QueueShape'
      BY <2>1 DEF ViewerInv, QueueShape, Opened, IsPost, Newest
  <2>5. Listing'
      BY <2>1, <2>2 DEF ViewerInv, Listing, Opened, Embedded, Commented
  <2>6. CommentsOnRuns'
      BY <2>1 DEF ViewerInv, CommentsOnRuns, Commented
  <2>7. PageTells'
      BY <2>1, <2>2 DEF ViewerInv, PageTells, Embedded, Commented
  <2>8. LastSays'
      BY <2>1 DEF ViewerInv, LastSays, Opened, Newest
  <2> QED
      BY <2>3, <2>4, <2>5, <2>6, <2>7, <2>8 DEF ViewerInv
<1> QED
    BY <1>1, <1>2, <1>3, <1>4, <1>5, <1>6, <1>7, <1>8, <1>9, <1>10, <1>11, <1>12, <1>13
    DEF Viewer!Next

\* The inductive invariant of the viewer, whatever is typed and wherever it fails,
\* the fetch of the comments included.
THEOREM ViewerInductive == PlatformSpec => []ViewerInv
<1>1. ViewerInv /\ [Viewer!Next]_viewer_vars => ViewerInv'
    BY ViewerStepKeeps
<1> QED
    BY <1>1, ViewerInitial, ViewerPart, PTL

\* "Feedback auto-saves to feedback.json in the workspace": once nothing is under way
\* and the last POST was written, the file has the last the user said of every run,
\* unless the page was drawn without the comments in it and has not posted since.
THEOREM PlatformSavedIsShown == PlatformSpec => []SavedIsShown
<1>1. ViewerInv => SavedIsShown
    BY DEF ViewerInv, LastSays, Opened, SavedIsShown, Viewer!SavedIsShown, Viewer!Settled
<1> QED
    BY <1>1, ViewerInductive, PTL

-----------------------------------------------------------------------------
(* The trigger evaluation: what each run has read of its claude's talk, and *)
(* the counts of the verdicts                                               *)

Targets == Eval!Jobs \cup {Elsewhere}

Choices ==
    {<<>>, <<"Other", Elsewhere>>, <<"Read", Elsewhere>>} \cup {"Skill"} \X Eval!Jobs

Lines ==
    [type : {"start"}, tool : {"none", "Skill", "Read", "Other"}]
        \cup [type : {"delta"}, part : Targets \X {1, 2}]
        \cup [type : {"block_stop", "message_stop", "result"}]
        \cup [type : {"assistant"}, tool : {"Skill", "Read", "Other"}, target : Targets]

\* A tool block for `call`, from line l on.
ToolBlockAt(talk, l, call) ==
    /\ Len(talk) >= l + 4
    /\ talk[l + 1] = [type |-> "start", tool |-> call[1]]
    /\ talk[l + 2] = [type |-> "delta", part |-> <<call[2], 1>>]
    /\ talk[l + 3] = [type |-> "delta", part |-> <<call[2], 2>>]
    /\ talk[l + 4] = [type |-> "block_stop"]

\* What claude says of `call`: after l lines of text comes what tells.
Tells(call, talk, l) ==
    /\ talk \in Seq(Lines) /\ l \in {0, 2} /\ Len(talk) > l
    /\ l = 2 => /\ talk[1] = [type |-> "start", tool |-> "none"]
                /\ talk[2] = [type |-> "block_stop"]
    /\ \/ call = <<>> /\ talk[l + 1] \in [type : {"message_stop", "result"}]
       \/ call # <<>> /\ talk[l + 1] = [type |-> "assistant", tool |-> call[1], target |-> call[2]]
       \/ call # <<>> /\ ToolBlockAt(talk, l, call)

\* How the reader of run j stands when p lines have not told it.
Stands(j, call, talk, l, p, pending, json) ==
    \/ ~pending /\ p \in 0 .. l
    \/ /\ pending /\ call # <<>> /\ call[1] \in {"Skill", "Read"}
       /\ ToolBlockAt(talk, l, call)
       /\ \/ p = l + 1 /\ json = <<>>
          \/ p = l + 2 /\ json = <<<<call[2], 1>>>>
          \/ p = l + 3 /\ json = <<<<call[2], 1>>, <<call[2], 2>>>> /\ call[2] # j

Own(j, call) == call \in {"Skill", "Read"} \X {j}

LEMMA Four ==
    ASSUME NEW S, NEW a \in S, NEW b \in S, NEW c \in S, NEW d \in S, NEW t \in Seq(S)
    PROVE  LET u == <<a, b, c, d>> \o t IN
           /\ u \in Seq(S) /\ Len(u) = Len(t) + 4
           /\ u[1] = a /\ u[2] = b /\ u[3] = c /\ u[4] = d
<1> DEFINE s == <<a, b, c, d>>
           u == s \o t
<1>1. s \in Seq(S) /\ Len(s) = 4 /\ s[1] = a /\ s[2] = b /\ s[3] = c /\ s[4] = d
    OBVIOUS
<1> HIDE DEF s
<1>2. /\ s \o t \in Seq(S) /\ Len(s \o t) = Len(s) + Len(t)
      /\ \A i \in 1 .. Len(s) + Len(t) : (s \o t)[i] =
             IF i <= Len(s) THEN s[i] ELSE t[i - Len(s)]
    BY <1>1, ConcatProperties
<1>3. Len(t) \in Nat
    BY LenProperties
<1>4. u \in Seq(S) /\ Len(u) = Len(t) + 4
      /\ \A i \in 1 .. Len(t) + 4 : u[i] = IF i <= 4 THEN s[i] ELSE t[i - 4]
    BY <1>1, <1>2, <1>3
<1> HIDE DEF u
<1>5. u[1] = a /\ u[2] = b /\ u[3] = c /\ u[4] = d
    BY <1>1, <1>3, <1>4
<1>6. u \in Seq(S) /\ Len(u) = Len(t) + 4
    BY <1>4
<1> QED
    BY <1>5, <1>6 DEF u, s

\* All that claude may print.
LEMMA TalksTell ==
    ASSUME NEW call \in Choices, NEW talk \in Eval!Talks(call)
    PROVE  \E l \in {0, 2} : Tells(call, talk, l)
<1> DEFINE text == [type |-> "start", tool |-> "none"]
           stop == [type |-> "block_stop"]
           over == [type |-> "message_stop"]
           result == [type |-> "result"]
<1>1. text \in Lines /\ stop \in Lines /\ over \in Lines /\ result \in Lines
    BY DEF Lines
<1>2. over \in [type : {"message_stop", "result"}] /\ result \in [type : {"message_stop", "result"}]
    OBVIOUS
<1>3. /\ Eval!TextBlock = <<text, stop>> /\ Eval!Closing = <<over, result>>
    BY DEF Eval!TextBlock, Eval!Closing
<1> DEFINE words == <<text, stop>>
<1>12. words \in Seq(Lines) /\ Len(words) = 2 /\ words[1] = text /\ words[2] = stop
    BY <1>1
<1> HIDE DEF text, stop, over, result
<1> HIDE DEF words
<1> DEFINE closing == <<over, result>>
           end == <<result>>
<1>4. /\ closing \in Seq(Lines) /\ Len(closing) = 2 /\ closing[1] = over
      /\ end \in Seq(Lines) /\ Len(end) = 1 /\ end[1] = result
    BY <1>1
<1> HIDE DEF closing, end
<1>5. ASSUME call = <<>>
      PROVE  \E l \in {0, 2} : Tells(call, talk, l)
  <2>1. talk = words \o closing \/ talk = end
      BY <1>3, <1>5 DEF Eval!Talks, closing, end, result, words
  <2>2. CASE talk = end
    <3>1. Len(talk) = 1 /\ talk[1] = result /\ talk \in Seq(Lines)
        BY <2>2, <1>4
    <3>2. Tells(call, talk, 0)
        BY <3>1, <1>2, <1>5 DEF Tells
    <3> QED
        BY <3>2
  <2>3. CASE talk = words \o closing
    <3> DEFINE u == words \o closing
    <3>0. /\ u \in Seq(Lines) /\ Len(u) = Len(words) + Len(closing)
          /\ \A i \in 1 .. Len(words) + Len(closing) :
                u[i] = IF i <= Len(words) THEN words[i] ELSE closing[i - Len(words)]
        BY <1>4, <1>12, ConcatProperties
    <3> HIDE DEF u
    <3>1. /\ talk \in Seq(Lines) /\ Len(talk) = 4 /\ talk[1] = text /\ talk[2] = stop
          /\ \A i \in 1 .. 2 : talk[i + 2] = closing[i]
        BY <2>3, <1>4, <1>12, <3>0 DEF u
    <3>2. talk[3] = over
        BY <3>1, <1>4
    <3>3. Tells(call, talk, 2)
        BY <3>1, <3>2, <1>2, <1>5 DEF Tells, text, stop
    <3> QED
        BY <3>3
  <2> QED
      BY <2>1, <2>2, <2>3
<1>6. ASSUME call # <<>>
      PROVE  \E l \in {0, 2} : Tells(call, talk, l)
  <2> DEFINE start == [type |-> "start", tool |-> call[1]]
             one == [type |-> "delta", part |-> <<call[2], 1>>]
             two == [type |-> "delta", part |-> <<call[2], 2>>]
             message == [type |-> "assistant", tool |-> call[1], target |-> call[2]]
             block == <<start, one, two, stop>>
             whole == <<message>>
  <2>1. call[1] \in {"Skill", "Read", "Other"} /\ call[2] \in Targets
      BY <1>6 DEF Choices, Targets
  <2>2. start \in Lines /\ one \in Lines /\ two \in Lines /\ message \in Lines
      BY <2>1 DEF Lines
  <2>3. /\ Eval!ToolBlock(call[1], call[2]) = block /\ Eval!Whole(call[1], call[2]) = whole
      BY DEF Eval!ToolBlock, Eval!Whole, stop
  <2>4. \/ talk = block \o whole \o closing \/ talk = words \o block
        \/ talk = whole \o end
    <3> HIDE DEF block, whole
    <3>1. end = <<[type |-> "result"]>> /\ closing = Eval!Closing
        BY <1>3 DEF end, result, closing
    <3>2. words = Eval!TextBlock
        BY <1>3 DEF words
    <3> QED
        BY <3>1, <3>2, <2>3, <1>6 DEF Eval!Talks
  <2> HIDE DEF start, one, two, message
  <2>5. CASE talk = block \o whole \o closing
    <3>1. whole \in Seq(Lines) /\ block \in Seq(Lines)
        BY <1>1, <2>2
    <3> DEFINE rest == whole \o closing
    <3>2. rest \in Seq(Lines) /\ (block \o whole) \o closing = block \o rest
      <4> HIDE DEF block, whole
      <4> QED
          BY <3>1, <1>4, ConcatProperties, ConcatAssociative
    <3>3. Len(rest) \in Nat
        BY <3>2, LenProperties
    <3> HIDE DEF rest
    <3>4. /\ block \o rest \in Seq(Lines) /\ Len(block \o rest) = Len(rest) + 4
          /\ (block \o rest)[1] = start /\ (block \o rest)[2] = one
          /\ (block \o rest)[3] = two /\ (block \o rest)[4] = stop
        BY <3>2, <1>1, <2>2, Four
    <3> DEFINE u == block \o rest
    <3>9. talk = u
        BY <2>5, <3>2
    <3> HIDE DEF block, u
    <3>5. /\ talk \in Seq(Lines) /\ Len(talk) >= 4 /\ Len(talk) > 0 /\ talk[1] = start
          /\ talk[2] = one /\ talk[3] = two /\ talk[4] = stop
        BY <3>3, <3>4, <3>9 DEF u
    <3>6. ToolBlockAt(talk, 0, call)
        BY <3>5 DEF ToolBlockAt, start, one, two, stop
    <3>7. Tells(call, talk, 0)
        BY <3>5, <3>6, <1>6 DEF Tells
    <3> QED
        BY <3>7
  <2>6. CASE talk = words \o block
    <3>1. /\ block \in Seq(Lines) /\ Len(block) = 4 /\ block[1] = start /\ block[2] = one
          /\ block[3] = two /\ block[4] = stop
        BY <1>1, <2>2
    <3> HIDE DEF block
    <3> DEFINE u == words \o block
    <3>0. /\ u \in Seq(Lines) /\ Len(u) = Len(words) + Len(block)
          /\ \A i \in 1 .. Len(words) + Len(block) :
                u[i] = IF i <= Len(words) THEN words[i] ELSE block[i - Len(words)]
        BY <3>1, <1>12, ConcatProperties
    <3> HIDE DEF u
    <3>2. /\ talk \in Seq(Lines) /\ Len(talk) = 6 /\ talk[1] = text /\ talk[2] = stop
          /\ \A i \in 1 .. 4 : talk[i + 2] = block[i]
        BY <2>6, <3>1, <1>12, <3>0 DEF u
    <3>3. talk[3] = start /\ talk[4] = one /\ talk[5] = two /\ talk[6] = stop
        BY <3>1, <3>2
    <3>4. ToolBlockAt(talk, 2, call)
        BY <3>2, <3>3 DEF ToolBlockAt, start, one, two, stop
    <3>5. Tells(call, talk, 2)
        BY <3>2, <3>4, <1>6 DEF Tells, text, stop
    <3> QED
        BY <3>5
  <2>7. CASE talk = whole \o end
    <3>1. whole \in Seq(Lines) /\ Len(whole) = 1 /\ whole[1] = message
        BY <2>2
    <3> HIDE DEF whole
    <3> DEFINE u == whole \o end
    <3>9. u \in Seq(Lines) /\ Len(u) = Len(whole) + Len(end)
          /\ \A i \in 1 .. Len(whole) + Len(end) :
                u[i] = IF i <= Len(whole) THEN whole[i] ELSE end[i - Len(whole)]
        BY <3>1, <1>4, ConcatProperties
    <3> HIDE DEF u
    <3>2. u \in Seq(Lines) /\ Len(u) = 2 /\ u[1] = message
        BY <3>1, <3>9, <1>4
    <3>3. talk \in Seq(Lines) /\ Len(talk) > 0 /\ talk[1] = message
        BY <2>7, <3>2 DEF u
    <3>4. Tells(call, talk, 0)
        BY <3>3, <1>6 DEF Tells, message
    <3> QED
        BY <3>4
  <2> QED
      BY <2>4, <2>5, <2>6, <2>7
<1> QED
    BY <1>5, <1>6

-----------------------------------------------------------------------------

\* When the name of a command stands in what has been read of a tool's input.
LEMMA WhenNamed ==
    ASSUME NEW j \in Eval!Jobs, NEW t \in Targets
    PROVE  /\ ~Eval!Names(j, <<>>) /\ ~Eval!Names(j, <<<<t, 1>>>>)
           /\ Eval!Names(j, <<<<t, 1>>, <<t, 2>>>>) <=> t = j
<1>1. ~Eval!Names(j, <<>>)
    BY DEF Eval!Names, Eval!ToSet
<1>2. Eval!ToSet(<<<<t, 1>>>>) = {<<t, 1>>}
    BY DEF Eval!ToSet
<1>3. Eval!ToSet(<<<<t, 1>>, <<t, 2>>>>) = {<<t, 1>>, <<t, 2>>}
    BY DEF Eval!ToSet
<1> QED
    BY <1>1, <1>2, <1>3 DEF Eval!Names

\* What the reader of run j makes of p lines: it is told, or stands.
ReadSoFar(j, call, talk, l, p, st) ==
    /\ st = [pending |-> st.pending, json |-> st.json, answer |-> st.answer]
    /\ st.pending \in BOOLEAN
    /\ \/ st.answer = {Own(j, call)}
       \/ st.answer = {} /\ Stands(j, call, talk, l, p, st.pending, st.json)

LEMMA Told ==
    ASSUME NEW j, NEW call, NEW talk, NEW l, NEW p, NEW pending \in BOOLEAN, NEW json,
           NEW b, b = Own(j, call), NEW st,
           st = [pending |-> pending, json |-> json, answer |-> {b}]
    PROVE  ReadSoFar(j, call, talk, l, p, st)
BY DEF ReadSoFar

LEMMA NotYetTold ==
    ASSUME NEW j, NEW call, NEW talk, NEW l, NEW p, NEW pending \in BOOLEAN, NEW json,
           Stands(j, call, talk, l, p, pending, json), NEW st,
           st = [pending |-> pending, json |-> json, answer |-> {}]
    PROVE  ReadSoFar(j, call, talk, l, p, st)
BY DEF ReadSoFar

\* One line: it tells the reader whether the call is its own, or leaves it standing.
LEMMA LineTaken ==
    ASSUME NEW j \in Eval!Jobs, NEW call \in Choices, NEW talk, NEW l, Tells(call, talk, l),
           NEW p \in 0 .. Len(talk) - 1, NEW pending \in BOOLEAN, NEW json,
           Stands(j, call, talk, l, p, pending, json), ElsewhereAssumption
    PROVE  ReadSoFar(j, call, talk, l, p + 1,
                     Eval!Absorb(j, [pending |-> pending, json |-> json, answer |-> {}],
                                 talk[p + 1]))
<1> DEFINE st == [pending |-> pending, json |-> json, answer |-> {}]
           ev == talk[p + 1]
           new == Eval!Absorb(j, st, ev)
           Good == ReadSoFar(j, call, talk, l, p + 1, new)
<1> SUFFICES Good
    OBVIOUS
<1>1. call # <<>> => call[1] \in {"Skill", "Read", "Other"} /\ call[2] \in Targets
                     /\ call = <<call[1], call[2]>>
    BY DEF Choices, Targets
<1>2. l \in {0, 2} /\ Len(talk) \in Nat /\ p \in Nat
    BY LenProperties DEF Tells
<1>3. ASSUME NEW b \in BOOLEAN, new = [pending |-> pending, json |-> json, answer |-> {b}],
             b = Own(j, call)
      PROVE  Good
  <2> HIDE DEF new
  <2> QED
      BY <1>3, Told
<1>4. CASE ~pending /\ p < l
  <2>1. p + 1 \in 0 .. l /\ (ev = [type |-> "start", tool |-> "none"] \/ ev = [type |-> "block_stop"])
      BY <1>2, <1>4 DEF Tells
  <2> HIDE DEF ev
  <2>2. new = st
      BY <2>1, <1>4 DEF Eval!Absorb
  <2>3. new = [pending |-> pending, json |-> json, answer |-> {}]
      BY <2>2
  <2>4. Stands(j, call, talk, l, p + 1, pending, json)
      BY <2>1, <1>4 DEF Stands
  <2> HIDE DEF new
  <2> QED
      BY <2>3, <2>4, NotYetTold
<1>5. CASE ~pending /\ p = l
  <2>1. CASE call = <<>>
    <3>1. ev.type \in {"message_stop", "result"}
        BY <2>1, <1>5 DEF Tells, ToolBlockAt
    <3> HIDE DEF ev
    <3>2. new = [pending |-> pending, json |-> json, answer |-> {FALSE}]
        BY <3>1, <1>5 DEF Eval!Absorb
    <3>3. FALSE = Own(j, call)
        BY <2>1 DEF Own
    <3> HIDE DEF new
    <3> QED
        BY <3>2, <3>3, <1>3
  <2>2. CASE call # <<>> /\ ev = [type |-> "assistant", tool |-> call[1], target |-> call[2]]
    <3> DEFINE b == call[1] \in {"Skill", "Read"} /\ call[2] = j
    <3>1. ev.type = "assistant" /\ ev.tool = call[1] /\ ev.target = call[2]
        BY <2>2
    <3> HIDE DEF ev
    <3>2. new = [pending |-> pending, json |-> json,
                 answer |-> {ev.tool \in {"Skill", "Read"} /\ ev.target = j}]
        BY <3>1, <1>5 DEF Eval!Absorb
    <3>3. b = Own(j, call)
        BY <2>2, <1>1 DEF Own
    <3>4. new = [pending |-> pending, json |-> json, answer |-> {b}]
        BY <3>1, <3>2
    <3>5. b \in BOOLEAN
        OBVIOUS
    <3> HIDE DEF b, new
    <3> QED
        BY <3>3, <3>4, <3>5, <1>3
  <2>3. CASE call # <<>> /\ ToolBlockAt(talk, l, call)
    <3>1. ev = [type |-> "start", tool |-> call[1]]
        BY <2>3, <1>5 DEF ToolBlockAt
    <3>2. ev.type = "start" /\ ev.tool = call[1]
        BY <3>1
    <3> HIDE DEF ev
    <3>3. CASE call[1] = "Other"
      <4>1. new = [pending |-> pending, json |-> json, answer |-> {FALSE}]
          BY <3>2, <3>3 DEF Eval!Absorb
      <4>2. FALSE = Own(j, call)
          BY <3>3 DEF Own
      <4> HIDE DEF new
      <4> QED
          BY <4>1, <4>2, <1>3
    <3>4. CASE call[1] \in {"Skill", "Read"}
      <4>1. new = [pending |-> TRUE, json |-> <<>>, answer |-> {}]
          BY <3>2, <3>4 DEF Eval!Absorb
      <4>2. Stands(j, call, talk, l, p + 1, TRUE, <<>>)
          BY <2>3, <3>4, <1>5 DEF Stands
      <4> HIDE DEF new
      <4> QED
          BY <4>1, <4>2, NotYetTold
    <3> QED
        BY <2>3, <3>3, <3>4, <1>1
  <2> QED
      BY <2>1, <2>2, <2>3, <1>5 DEF Tells
<1>6. CASE pending
  <2>1. /\ call # <<>> /\ call[1] \in {"Skill", "Read"} /\ ToolBlockAt(talk, l, call)
        /\ \/ p = l + 1 /\ json = <<>>
           \/ p = l + 2 /\ json = <<<<call[2], 1>>>>
           \/ p = l + 3 /\ json = <<<<call[2], 1>>, <<call[2], 2>>>> /\ call[2] # j
      BY <1>6 DEF Stands
  <2> DEFINE t == call[2]
             j1 == <<<<t, 1>>>>
             j2 == <<<<t, 1>>, <<t, 2>>>>
  <2>2. t \in Targets /\ ~Eval!Names(j, j1) /\ (Eval!Names(j, j2) <=> t = j)
      BY <2>1, <1>1, WhenNamed
  <2>3. j1 = Append(<<>>, <<t, 1>>) /\ j2 = Append(j1, <<t, 2>>)
      OBVIOUS
  <2>4. Own(j, call) <=> t = j
      BY <2>1, <1>1 DEF Own
  <2>5. CASE p = l + 1 /\ json = <<>>
    <3>1. ev = [type |-> "delta", part |-> <<t, 1>>]
        BY <2>1, <2>5, <1>2 DEF ToolBlockAt
    <3>2. ev.type = "delta" /\ ev.part = <<t, 1>>
        BY <3>1
    <3>3. Append(json, ev.part) = j1
        BY <3>2, <2>3, <2>5
    <3> HIDE DEF ev, j1
    <3>4. new = [pending |-> pending, json |-> j1, answer |-> {}]
        BY <3>2, <3>3, <2>2, <1>6 DEF Eval!Absorb
    <3>5. Stands(j, call, talk, l, p + 1, pending, j1)
        BY <2>1, <2>5, <1>2, <1>6 DEF Stands, j1
    <3> HIDE DEF new
    <3> QED
        BY <3>4, <3>5, NotYetTold
  <2>6. CASE p = l + 2 /\ json = j1
    <3>1. ev = [type |-> "delta", part |-> <<t, 2>>]
        BY <2>1, <2>6, <1>2 DEF ToolBlockAt
    <3>2. ev.type = "delta" /\ ev.part = <<t, 2>>
        BY <3>1
    <3>3. Append(json, ev.part) = j2
        BY <3>2, <2>3, <2>6
    <3> HIDE DEF ev, j1, j2
    <3>4. new = [pending |-> pending, json |-> j2,
                 answer |-> IF Eval!Names(j, j2) THEN {TRUE} ELSE {}]
        BY <3>2, <3>3, <1>6 DEF Eval!Absorb
    <3>5. t # j => Stands(j, call, talk, l, p + 1, pending, j2)
        BY <2>1, <2>6, <1>2, <1>6 DEF Stands, j2
    <3> HIDE DEF new
    <3>6. CASE t = j
      <4>1. TRUE = Own(j, call)
          BY <3>6, <2>4 DEF Own
      <4>2. new = [pending |-> pending, json |-> j2, answer |-> {TRUE}]
          BY <3>4, <3>6, <2>2
      <4> QED
          BY <4>1, <4>2, Told
    <3>7. CASE t # j
      <4>1. new = [pending |-> pending, json |-> j2, answer |-> {}]
          BY <3>4, <3>7, <2>2
      <4> QED
          BY <4>1, <3>5, <3>7, NotYetTold
    <3> QED
        BY <3>6, <3>7
  <2>7. CASE p = l + 3 /\ json = j2 /\ t # j
    <3>1. ev = [type |-> "block_stop"]
        BY <2>1, <2>7, <1>2 DEF ToolBlockAt
    <3>2. ev.type = "block_stop"
        BY <3>1
    <3> HIDE DEF ev, j2
    <3>3. new = [pending |-> pending, json |-> json, answer |-> {Eval!Names(j, json)}]
        BY <3>2, <1>6 DEF Eval!Absorb
    <3>4. Eval!Names(j, json) = FALSE
        BY <2>2, <2>7 DEF Eval!Names
    <3>5. FALSE = Own(j, call)
        BY <2>4, <2>7 DEF Own
    <3> HIDE DEF new
    <3>6. new = [pending |-> pending, json |-> json, answer |-> {FALSE}]
        BY <3>3, <3>4
    <3> QED
        BY <3>5, <3>6, <1>3
  <2> QED
      BY <2>1, <2>5, <2>6, <2>7
<1>7. pending \/ p < l \/ p = l
  <2>1. ~pending => p \in 0 .. l
      BY DEF Stands
  <2> QED
      BY <2>1, <1>2
<1> HIDE DEF new
<1> QED
    BY <1>4, <1>5, <1>6, <1>7

\* A function that reads n lines of the pipe of run j, one after the other.
ReadsOn(f, j, n) ==
    f = [k \in 0 .. n |->
            IF k = 0 THEN [pending |-> run[j].pending, json |-> run[j].json, answer |-> {}]
            ELSE Eval!Absorb(j, f[k - 1], run[j].pipe[k])]

LEMMA SomethingReads ==
    ASSUME NEW j, NEW n \in Nat
    PROVE  \E f : ReadsOn(f, j, n)
<1> DEFINE Bad == {m \in Nat : ~ \E f : ReadsOn(f, j, m)}
           first == [pending |-> run[j].pending, json |-> run[j].json, answer |-> {}]
           Next1(f, k) == IF k = 0 THEN first ELSE Eval!Absorb(j, f[k - 1], run[j].pipe[k])
<1> SUFFICES ASSUME n \in Bad
             PROVE  FALSE
    OBVIOUS
<1>1. PICK m \in Bad : \A k \in Bad : m <= k
    BY LeastOne
<1> HIDE DEF first
<1>2. \A f, k : ReadsOn(f, j, k) <=> f = [i \in 0 .. k |-> Next1(f, i)]
    BY DEF ReadsOn, first
<1>3. CASE m = 0
  <2> DEFINE f == [i \in 0 .. 0 |-> first]
  <2>1. \A i \in 0 .. 0 : i = 0
      OBVIOUS
  <2>2. f = [i \in 0 .. 0 |-> Next1(f, i)]
      BY <2>1
  <2> HIDE DEF f, Next1
  <2>3. ReadsOn(f, j, 0)
      BY <2>2, <1>2
  <2> QED
      BY <2>3, <1>3
<1>4. CASE m # 0
  <2>1. m - 1 \in Nat /\ ~(m <= m - 1)
      BY <1>4
  <2>2. PICK g : ReadsOn(g, j, m - 1)
      BY <2>1, <1>1
  <2> DEFINE f == [i \in 0 .. m |-> IF i = m THEN Next1(g, m) ELSE g[i]]
  <2>3. \A i \in 0 .. m : f[i] = IF i = m THEN Next1(g, m) ELSE g[i]
      OBVIOUS
  <2>4. f = [i \in 0 .. m |-> f[i]]
      OBVIOUS
  <2>5. \A i \in 0 .. m - 1 : g[i] = Next1(g, i)
      BY <2>2, <1>2
  <2>6. \A i \in 0 .. m : i # 0 => i - 1 \in 0 .. m /\ i - 1 # m
      BY <2>1
  <2>7. \A i \in 0 .. m : i # m => i \in 0 .. m - 1
      BY <2>1
  <2> HIDE DEF f
  <2>8. ASSUME NEW i \in 0 .. m
        PROVE  f[i] = Next1(f, i)
    <3>1. i # 0 => f[i - 1] = g[i - 1]
        BY <2>3, <2>6
    <3>2. Next1(f, i) = Next1(g, i)
        BY <3>1
    <3> HIDE DEF Next1
    <3> QED
        BY <3>2, <2>3, <2>5, <2>7
  <2>9. f = [i \in 0 .. m |-> Next1(f, i)]
    <3> HIDE DEF Next1
    <3> QED
        BY <2>4, <2>8
  <2> HIDE DEF Next1
  <2> QED
      BY <2>9, <1>2
<1> QED
    BY <1>3, <1>4

\* What is left to read of a talk after p lines of it.
Follows(q, talk, p) ==
    /\ q \in Seq(Lines) /\ Len(q) = Len(talk) - p
    /\ \A i \in 1 .. Len(q) : q[i] = talk[p + i]

\* A chunk: its lines tell the reader whether the call is its own, or leave it standing.
LEMMA ChunkTaken ==
    ASSUME NEW j \in Eval!Jobs, NEW call \in Choices, NEW talk, NEW l, Tells(call, talk, l),
           NEW p \in 0 .. Len(talk), Follows(run[j].pipe, talk, p), run[j].pending \in BOOLEAN,
           Stands(j, call, talk, l, p, run[j].pending, run[j].json),
           NEW n \in 1 .. Len(run[j].pipe)
    PROVE  ReadSoFar(j, call, talk, l, p + n, Eval!Read(j, n))
<1> DEFINE pipe == run[j].pipe
           after == CHOOSE f : ReadsOn(f, j, n)
<1>1. /\ Len(talk) \in Nat /\ Len(pipe) = Len(talk) - p /\ n \in Nat
      /\ \A i \in 1 .. Len(pipe) : pipe[i] = talk[p + i]
    BY LenProperties DEF Tells, Follows
<1>2. ReadsOn(after, j, n)
    BY <1>1, SomethingReads
<1>3. Eval!Read(j, n) = after[n]
    BY DEF Eval!Read, ReadsOn
<1> HIDE DEF after
<1>4. /\ after[0] = [pending |-> run[j].pending, json |-> run[j].json, answer |-> {}]
      /\ \A k \in 1 .. n : after[k] = Eval!Absorb(j, after[k - 1], pipe[k])
  <2> DEFINE At(k) == IF k = 0 THEN [pending |-> run[j].pending, json |-> run[j].json, answer |-> {}]
                      ELSE Eval!Absorb(j, after[k - 1], pipe[k])
  <2>1. after = [k \in 0 .. n |-> At(k)]
      BY <1>2 DEF ReadsOn
  <2>2. \A k \in 0 .. n : after[k] = At(k)
    <3> HIDE DEF At
    <3> QED
        BY <2>1
  <2>3. 0 \in 0 .. n /\ \A k \in 1 .. n : k \in 0 .. n /\ k # 0
      BY <1>1
  <2> QED
      BY <2>2, <2>3
<1> DEFINE Bad == {k \in 0 .. n : ~ReadSoFar(j, call, talk, l, p + k, after[k])}
<1> SUFFICES ASSUME n \in Bad
             PROVE  FALSE
    BY <1>1, <1>3
<1>5. Bad \in SUBSET Nat /\ Bad # {}
    OBVIOUS
<1>6. PICK m \in Bad : \A k \in Bad : m <= k
    BY <1>5, LeastOne
<1>7. m \in 0 .. n /\ ~ReadSoFar(j, call, talk, l, p + m, after[m])
    BY <1>6
<1>8. CASE m = 0
  <2> DEFINE st == after[0]
  <2>1. st = [pending |-> run[j].pending, json |-> run[j].json, answer |-> {}]
      BY <1>4
  <2> HIDE DEF st
  <2>2. ReadSoFar(j, call, talk, l, p, st)
      BY <2>1, NotYetTold
  <2>3. p + m = p /\ after[m] = st
      BY <1>8 DEF st
  <2> QED
      BY <2>2, <2>3, <1>7
<1>9. CASE m # 0
  <2>1. m - 1 \in 0 .. n /\ ~(m <= m - 1) /\ m \in 1 .. n
      BY <1>7, <1>9
  <2>2. ReadSoFar(j, call, talk, l, p + (m - 1), after[m - 1])
      BY <2>1, <1>6
  <2> DEFINE st == after[m - 1]
             k == p + (m - 1)
  <2>3. k \in 0 .. Len(talk) - 1 /\ k + 1 = p + m /\ pipe[m] = talk[k + 1]
    <3>1. m \in 1 .. Len(pipe) /\ p \in Nat /\ m \in Nat
        BY <2>1, <1>1
    <3>2. pipe[m] = talk[p + m] /\ p + m <= Len(talk)
        BY <3>1, <1>1
    <3> QED
        BY <3>1, <3>2, <1>1
  <2>4. after[m] = Eval!Absorb(j, st, talk[k + 1])
      BY <2>1, <2>3, <1>4
  <2>5. /\ st = [pending |-> st.pending, json |-> st.json, answer |-> st.answer]
        /\ st.pending \in BOOLEAN
        /\ \/ st.answer = {Own(j, call)}
           \/ st.answer = {} /\ Stands(j, call, talk, l, k, st.pending, st.json)
      BY <2>2 DEF ReadSoFar
  <2> HIDE DEF st, k
  <2>6. CASE st.answer = {Own(j, call)}
    <3>1. Eval!Absorb(j, st, talk[k + 1]) = st
        BY <2>6 DEF Eval!Absorb
    <3>2. ReadSoFar(j, call, talk, l, p + m, st)
        BY <2>5, <2>6 DEF ReadSoFar
    <3> QED
        BY <3>1, <3>2, <2>4, <1>7
  <2>7. CASE st.answer = {} /\ Stands(j, call, talk, l, k, st.pending, st.json)
    <3>1. PICK pending \in BOOLEAN : pending = st.pending
        BY <2>5
    <3>2. PICK json : json = st.json
        OBVIOUS
    <3>3. st = [pending |-> pending, json |-> json, answer |-> {}]
        BY <2>5, <2>7, <3>1, <3>2
    <3>4. Stands(j, call, talk, l, k, pending, json)
        BY <2>7, <3>1, <3>2
    <3>5. ReadSoFar(j, call, talk, l, k + 1, Eval!Absorb(j, st, talk[k + 1]))
        BY <3>3, <3>4, <2>3, LineTaken, ElsewhereAssumption
    <3> QED
        BY <3>5, <2>3, <2>4, <1>7
  <2> QED
      BY <2>5, <2>6, <2>7
<1> QED
    BY <1>8, <1>9

-----------------------------------------------------------------------------

\* A run that is watched has read its claude's talk up to some line, and it did not tell.
Watched(j, q) ==
    /\ q.call \in Choices /\ q.pending \in BOOLEAN
    /\ \E talk \in Seq(Lines), l \in {0, 2} :
          /\ Tells(q.call, talk, l)
          /\ \E p \in 0 .. Len(talk) :
                /\ Stands(j, q.call, talk, l, p, q.pending, q.json)
                /\ IF q.unsaid = <<>> THEN Follows(q.pipe, talk, p)
                                      ELSE q.unsaid = talk /\ q.pipe = <<>> /\ p = 0

\* The state q of run j: what it has of the talk, and in the end its verdict.
RunIs(j, q) ==
    /\ q.phase \in {"queued", "written", "watching", "polled", "done", "gathered"}
    /\ q.phase \in {"queued", "written"} =>
          /\ q.child = "none" /\ q.pipe = <<>> /\ q.pending = FALSE
    /\ q.phase \in {"watching", "polled"} => Watched(j, q)
    /\ q.phase \in {"done", "gathered"} =>
          q.verdict \in BOOLEAN /\ q.verdict = (q.by = "answer" /\ Own(j, q.call))

GatheredOf(q) == {i \in 1 .. Runs : run[<<q, i>>].phase = "gathered"}
TriggeredOf(q) == {i \in GatheredOf(q) : run[<<q, i>>].verdict}

\* The parent has a verdict of each run that it gathered.
Counted ==
    /\ DOMAIN triggers = {q \in Queries : GatheredOf(q) # {}}
    /\ \A q \in DOMAIN triggers :
          /\ triggers[q] \in Seq(BOOLEAN)
          /\ Len(triggers[q]) = Cardinality(GatheredOf(q))
          /\ Eval!Count(triggers[q]) = Cardinality(TriggeredOf(q))

Reported ==
    results # <<>> =>
        /\ \A j \in Eval!Jobs : run[j].phase = "gathered"
        /\ \A q \in Queries :
              /\ results[q].runs = Runs
              /\ results[q].triggers = Cardinality(TriggeredOf(q))

VerdictInv ==
    /\ EvalInv
    /\ \A j \in Eval!Jobs : RunIs(j, run[j])
    /\ Counted
    /\ Reported

\* The next state of one run.
LEMMA NextOfRun ==
    ASSUME VerdictInv, NEW j \in Eval!Jobs,
           \/ Eval!WriteCommand(j) \/ Eval!Spawn(j) \/ Eval!SpawnFails(j)
           \/ Eval!TimeUp(j) \/ Eval!Poll(j) \/ Eval!NothingReady(j) \/ Eval!ReadChunk(j)
           \/ Eval!EndOfStream(j) \/ Eval!ChildPrints(j) \/ Eval!ChildExits(j)
    PROVE  /\ \E new : run' = [run EXCEPT ![j] = new] /\ RunIs(j, new)
                       /\ new.phase # "gathered"
           /\ run[j].phase # "gathered"
           /\ UNCHANGED <<triggers, results>>
<1> DEFINE q == run[j]
<1>1. DOMAIN q = EvalFields /\ RunIs(j, q)
      /\ (q.phase \in {"done", "gathered"} => q.child # "running")
    BY DEF VerdictInv, EvalInv, EvalTypes, NothingLeftBehind, Eval!NothingLeftBehind
<1>2. ASSUME NEW verdict \in BOOLEAN, NEW by,
             verdict = (by = "answer" /\ Own(j, q.call)),
             run' = [run EXCEPT ![j] = Eval!Ended(j, verdict, by)]
      PROVE  \E new : run' = [run EXCEPT ![j] = new] /\ RunIs(j, new)
                      /\ new.phase # "gathered"
  <2> DEFINE new == Eval!Ended(j, verdict, by)
  <2>1. /\ new.phase = "done" /\ new.verdict = verdict /\ new.by = by
        /\ new.call = IF by = "answer" THEN q.call ELSE <<>>
      BY <1>1 DEF Eval!Ended, EvalFields
  <2>2. run' = [run EXCEPT ![j] = new]
      BY <1>2
  <2> HIDE DEF new
  <2>3. verdict = (by = "answer" /\ Own(j, new.call))
      BY <2>1, <1>2
  <2>4. RunIs(j, new)
      BY <2>1, <2>3 DEF RunIs
  <2> QED
      BY <2>1, <2>2, <2>4
<1>3. CASE Eval!SpawnFails(j) \/ Eval!TimeUp(j) \/ Eval!EndOfStream(j)
  <2>1. run' = [run EXCEPT ![j] = Eval!Ended(j, FALSE, "cut")]
      BY <1>3 DEF Eval!SpawnFails, Eval!TimeUp, Eval!EndOfStream, Eval!Step
  <2>2. q.phase # "gathered" /\ UNCHANGED <<triggers, results>>
      BY <1>3 DEF Eval!SpawnFails, Eval!TimeUp, Eval!EndOfStream, Eval!Step
  <2>3. FALSE = ("cut" = "answer" /\ Own(j, q.call))
      OBVIOUS
  <2> QED
      BY <2>1, <2>2, <2>3, <1>2
<1>4. CASE Eval!WriteCommand(j)
  <2> DEFINE new == [q EXCEPT !.phase = "written", !.file = TRUE]
  <2>1. run' = [run EXCEPT ![j] = new] /\ q.phase = "queued" /\ UNCHANGED <<triggers, results>>
      BY <1>4 DEF Eval!WriteCommand, Eval!Step
  <2>2. new.phase = "written" /\ new.child = q.child /\ new.pipe = q.pipe
        /\ new.pending = q.pending
      BY <1>1 DEF EvalFields
  <2> HIDE DEF new
  <2>3. RunIs(j, new)
      BY <2>1, <2>2, <1>1 DEF RunIs
  <2> QED
      BY <2>1, <2>2, <2>3
<1>5. CASE Eval!Spawn(j)
  <2>11. PICK call \in Eval!Calls : \E talk \in Eval!Talks(call) :
           /\ run' = [run EXCEPT ![j] = [q EXCEPT !.phase = "watching", !.child = "running",
                                                  !.call = call, !.unsaid = talk]]
           /\ q.phase = "written" /\ UNCHANGED <<triggers, results>>
      BY <1>5 DEF Eval!Spawn, Eval!Step
  <2>1. PICK talk \in Eval!Talks(call) :
           /\ run' = [run EXCEPT ![j] = [q EXCEPT !.phase = "watching", !.child = "running",
                                                  !.call = call, !.unsaid = talk]]
           /\ q.phase = "written" /\ UNCHANGED <<triggers, results>>
      BY <2>11
  <2> DEFINE new == [q EXCEPT !.phase = "watching", !.child = "running",
                              !.call = call, !.unsaid = talk]
  <2>2. /\ new.phase = "watching" /\ new.call = call /\ new.unsaid = talk
        /\ new.pipe = q.pipe /\ new.pending = q.pending /\ new.json = q.json
      BY <1>1 DEF EvalFields
  <2>3. run' = [run EXCEPT ![j] = new]
      BY <2>1
  <2> HIDE DEF new
  <2>4. q.pipe = <<>> /\ q.pending = FALSE
      BY <2>1, <1>1 DEF RunIs
  <2>5. call \in Choices
      BY DEF Eval!Calls, Choices
  <2>6. PICK l \in {0, 2} : Tells(call, talk, l)
      BY <2>5, TalksTell
  <2>7. talk \in Seq(Lines) /\ talk # <<>> /\ 0 \in 0 .. Len(talk) /\ 0 \in 0 .. l
    <3>1. talk \in Seq(Lines) /\ Len(talk) > l
        BY <2>6 DEF Tells
    <3>2. Len(talk) \in Nat
        BY <3>1, LenProperties
    <3> QED
        BY <3>1, <3>2
  <2>8. Stands(j, call, talk, l, 0, FALSE, q.json)
      BY <2>7 DEF Stands
  <2>9. Watched(j, new)
      BY <2>2, <2>4, <2>5, <2>6, <2>7, <2>8 DEF Watched
  <2>10. RunIs(j, new)
      BY <2>2, <2>9 DEF RunIs
  <2> QED
      BY <2>1, <2>2, <2>3, <2>10
<1>6. ASSUME NEW next \in {"watching", "polled"}, q.phase \in {"watching", "polled"},
             run' = [run EXCEPT ![j] = [q EXCEPT !.phase = next]]
      PROVE  \E new : run' = [run EXCEPT ![j] = new] /\ RunIs(j, new)
                      /\ new.phase # "gathered"
  <2> DEFINE new == [q EXCEPT !.phase = next]
  <2>1. /\ new.phase = next /\ new.call = q.call /\ new.unsaid = q.unsaid
        /\ new.pipe = q.pipe /\ new.pending = q.pending /\ new.json = q.json
      BY <1>1 DEF EvalFields
  <2>2. run' = [run EXCEPT ![j] = new]
      BY <1>6
  <2> HIDE DEF new
  <2>3. Watched(j, new)
      BY <2>1, <1>1, <1>6 DEF RunIs, Watched
  <2>4. RunIs(j, new)
      BY <2>1, <2>3 DEF RunIs
  <2> QED
      BY <2>1, <2>2, <2>4
<1>7. CASE Eval!Poll(j)
  <2>1. q.phase = "watching" /\ UNCHANGED <<triggers, results>>
      BY <1>7 DEF Eval!Poll, Eval!Step
  <2>2. CASE q.child = "exited"
    <3>1. run' = [run EXCEPT ![j] = Eval!Ended(j, FALSE, "cut")]
        BY <1>7, <2>2 DEF Eval!Poll, Eval!Step
    <3>2. FALSE = ("cut" = "answer" /\ Own(j, q.call))
        OBVIOUS
    <3> QED
        BY <3>1, <3>2, <2>1, <1>2
  <2>3. CASE q.child # "exited"
    <3>1. run' = [run EXCEPT ![j] = [q EXCEPT !.phase = "polled"]]
        BY <1>7, <2>3 DEF Eval!Poll, Eval!Step
    <3> QED
        BY <3>1, <2>1, <1>6
  <2> QED
      BY <2>2, <2>3
<1>8. CASE Eval!NothingReady(j)
  <2>1. /\ q.phase = "polled" /\ UNCHANGED <<triggers, results>>
        /\ run' = [run EXCEPT ![j] = [q EXCEPT !.phase = "watching"]]
      BY <1>8 DEF Eval!NothingReady, Eval!Step
  <2> QED
      BY <2>1, <1>6
<1>9. CASE Eval!ReadChunk(j)
  <2>1. PICK n \in 1 .. Len(q.pipe) :
           /\ q.phase = "polled" /\ UNCHANGED <<triggers, results>>
           /\ run' = [run EXCEPT ![j] =
                IF Eval!Read(j, n).answer # {}
                THEN Eval!Ended(j, TRUE \in Eval!Read(j, n).answer, "answer")
                ELSE [q EXCEPT !.phase = "watching", !.pending = Eval!Read(j, n).pending,
                               !.json = Eval!Read(j, n).json,
                               !.pipe = SubSeq(@, n + 1, Len(@))]]
      BY <1>9 DEF Eval!ReadChunk, Eval!Step
  <2>2. Watched(j, q)
      BY <2>1, <1>1 DEF RunIs
  <2>12. PICK talk \in Seq(Lines), l \in {0, 2} : \E p \in 0 .. Len(talk) :
           /\ Tells(q.call, talk, l) /\ Stands(j, q.call, talk, l, p, q.pending, q.json)
           /\ IF q.unsaid = <<>> THEN Follows(q.pipe, talk, p)
                                 ELSE q.unsaid = talk /\ q.pipe = <<>> /\ p = 0
      BY <2>2 DEF Watched
  <2>3. PICK p \in 0 .. Len(talk) :
           /\ Tells(q.call, talk, l) /\ Stands(j, q.call, talk, l, p, q.pending, q.json)
           /\ IF q.unsaid = <<>> THEN Follows(q.pipe, talk, p)
                                 ELSE q.unsaid = talk /\ q.pipe = <<>> /\ p = 0
      BY <2>12
  <2>4. q.unsaid = <<>> /\ Follows(q.pipe, talk, p)
    <3>1. q.pipe # <<>>
        BY <2>1
    <3> QED
        BY <3>1, <2>3
  <2>5. q.call \in Choices /\ q.pending \in BOOLEAN
      BY <2>2 DEF Watched
  <2> DEFINE st == Eval!Read(j, n)
  <2>6. ReadSoFar(j, q.call, talk, l, p + n, st)
      BY <2>3, <2>4, <2>5, ChunkTaken
  <2> HIDE DEF st
  <2>7. CASE st.answer = {Own(j, q.call)}
    <3> DEFINE verdict == TRUE \in st.answer
    <3>1. verdict = ("answer" = "answer" /\ Own(j, q.call)) /\ verdict \in BOOLEAN
      <4>1. Own(j, q.call) \in BOOLEAN
          BY DEF Own
      <4>2. verdict <=> Own(j, q.call) = TRUE
          BY <2>7
      <4> HIDE DEF verdict
      <4>3. verdict \in BOOLEAN
          BY DEF verdict
      <4> QED
          BY <4>1, <4>2, <4>3
    <3>2. st.answer # {}
        BY <2>7
    <3>3. run' = [run EXCEPT ![j] = Eval!Ended(j, verdict, "answer")]
        BY <3>2, <2>1 DEF st
    <3> HIDE DEF verdict
    <3> QED
        BY <3>1, <3>3, <2>1, <1>2
  <2>8. CASE st.answer = {} /\ Stands(j, q.call, talk, l, p + n, st.pending, st.json)
    <3> DEFINE new == [q EXCEPT !.phase = "watching", !.pending = st.pending,
                                !.json = st.json, !.pipe = SubSeq(@, n + 1, Len(@))]
    <3>1. run' = [run EXCEPT ![j] = new]
        BY <2>1, <2>8 DEF st
    <3>2. /\ new.phase = "watching" /\ new.call = q.call /\ new.unsaid = q.unsaid
          /\ new.pipe = SubSeq(q.pipe, n + 1, Len(q.pipe))
          /\ new.pending = st.pending /\ new.json = st.json
        BY <1>1 DEF EvalFields
    <3> HIDE DEF new
    <3>3. /\ q.pipe \in Seq(Lines) /\ Len(q.pipe) = Len(talk) - p /\ Len(talk) \in Nat
          /\ \A i \in 1 .. Len(q.pipe) : q.pipe[i] = talk[p + i]
        BY <2>4, LenProperties DEF Follows
    <3> DEFINE rest == SubSeq(q.pipe, n + 1, Len(q.pipe))
    <3>4. /\ rest \in Seq(Lines) /\ Len(rest) = Len(q.pipe) - n
          /\ \A i \in 1 .. Len(q.pipe) - n : rest[i] = q.pipe[n + i]
      <4>1. n + 1 \in 1 .. Len(q.pipe) + 1 /\ Len(q.pipe) \in 0 .. Len(q.pipe)
            /\ Len(q.pipe) \in Nat
          BY <3>3
      <4> QED
          BY <4>1, <3>3, SubSeqProperties
    <3> HIDE DEF rest
    <3>5. p + n \in 0 .. Len(talk)
        BY <3>3
    <3>6. Follows(rest, talk, p + n)
      <4>1. \A i \in 1 .. Len(rest) : rest[i] = talk[(p + n) + i]
        <5>1. ASSUME NEW i \in 1 .. Len(rest)
              PROVE  rest[i] = talk[(p + n) + i]
          <6>1. i \in 1 .. Len(q.pipe) - n /\ n + i \in 1 .. Len(q.pipe)
              BY <3>3, <3>4
          <6>2. rest[i] = talk[p + (n + i)]
              BY <6>1, <3>3, <3>4
          <6>3. p + (n + i) = (p + n) + i
              BY <3>3
          <6> QED
              BY <6>2, <6>3
        <5> QED
            BY <5>1
      <4> QED
          BY <4>1, <3>3, <3>4 DEF Follows
    <3>7. st.pending \in BOOLEAN
        BY <2>6 DEF ReadSoFar
    <3>8. Watched(j, new)
        BY <2>3, <2>4, <2>5, <2>8, <3>2, <3>5, <3>6, <3>7 DEF Watched, rest
    <3>9. RunIs(j, new)
        BY <3>2, <3>8 DEF RunIs
    <3> QED
        BY <3>1, <3>2, <3>9, <2>1
  <2> QED
      BY <2>6, <2>7, <2>8 DEF ReadSoFar
<1>10. CASE Eval!ChildPrints(j)
  <2>1. /\ q.child = "running" /\ q.unsaid # <<>> /\ UNCHANGED <<triggers, results>>
        /\ run' = [run EXCEPT ![j].pipe = @ \o run[j].unsaid, ![j].unsaid = <<>>]
      BY <1>10 DEF Eval!ChildPrints
  <2> DEFINE new == [q EXCEPT !.pipe = @ \o q.unsaid, !.unsaid = <<>>]
  <2>2. run' = [run EXCEPT ![j] = new]
      BY <2>1, <1>1 DEF VerdictInv, EvalInv, EvalTypes
  <2>3. /\ new.phase = q.phase /\ new.call = q.call /\ new.unsaid = <<>>
        /\ new.pipe = q.pipe \o q.unsaid /\ new.pending = q.pending /\ new.json = q.json
      BY <1>1 DEF EvalFields
  <2> HIDE DEF new
  <2>4. q.phase \in {"watching", "polled"}
      BY <2>1, <1>1 DEF RunIs
  <2>5. Watched(j, q)
      BY <2>4, <1>1 DEF RunIs
  <2>6. PICK talk \in Seq(Lines), l \in {0, 2} :
           /\ Tells(q.call, talk, l) /\ Stands(j, q.call, talk, l, 0, q.pending, q.json)
           /\ q.unsaid = talk /\ q.pipe = <<>> /\ 0 \in 0 .. Len(talk)
      BY <2>1, <2>5 DEF Watched
  <2>7. new.pipe = talk
      BY <2>3, <2>6, ConcatEmptySeq
  <2>8. Follows(talk, talk, 0)
      BY LenProperties DEF Follows
  <2>9. Watched(j, new)
      BY <2>3, <2>5, <2>6, <2>7, <2>8 DEF Watched
  <2>10. RunIs(j, new)
      BY <2>3, <2>4, <2>9 DEF RunIs
  <2> QED
      BY <2>1, <2>2, <2>3, <2>4, <2>10
<1>11. CASE Eval!ChildExits(j)
  <2>1. /\ q.child = "running" /\ UNCHANGED <<triggers, results>>
        /\ run' = [run EXCEPT ![j].child = "exited"]
      BY <1>11 DEF Eval!ChildExits
  <2> DEFINE new == [q EXCEPT !.child = "exited"]
  <2>2. run' = [run EXCEPT ![j] = new]
      BY <2>1, <1>1 DEF VerdictInv, EvalInv, EvalTypes
  <2>3. /\ new.phase = q.phase /\ new.call = q.call /\ new.unsaid = q.unsaid
        /\ new.pipe = q.pipe /\ new.pending = q.pending /\ new.json = q.json
      BY <1>1 DEF EvalFields
  <2> HIDE DEF new
  <2>4. q.phase \in {"watching", "polled"}
      BY <2>1, <1>1 DEF RunIs
  <2>5. Watched(j, new)
      BY <2>3, <2>4, <1>1 DEF RunIs, Watched
  <2>6. RunIs(j, new)
      BY <2>3, <2>4, <2>5 DEF RunIs
  <2> QED
      BY <2>1, <2>2, <2>3, <2>4, <2>6
<1> QED
    BY <1>3, <1>4, <1>5, <1>7, <1>8, <1>9, <1>10, <1>11

\* The sets that are counted are finite.
LEMMA GatheredFinite ==
    ASSUME NEW q
    PROVE  /\ IsFiniteSet(GatheredOf(q)) /\ Cardinality(GatheredOf(q)) \in Nat
           /\ IsFiniteSet(TriggeredOf(q)) /\ Cardinality(TriggeredOf(q)) \in Nat
<1>1. GatheredOf(q) \subseteq 1 .. Runs /\ TriggeredOf(q) \subseteq 1 .. Runs
    BY DEF GatheredOf, TriggeredOf
<1>2. IsFiniteSet(1 .. Runs)
    BY RunsAssumption, FS_Interval
<1> QED
    BY <1>1, <1>2, FS_Subset, FS_CardinalityType

\* One more verdict is one more counted, if it is that the skill was triggered.
LEMMA OneMoreVerdict ==
    ASSUME NEW verdicts \in Seq(BOOLEAN), NEW verdict \in BOOLEAN
    PROVE  /\ Eval!Count(verdicts) \in Nat /\ Eval!Count(<<>>) = 0
           /\ Append(verdicts, verdict) \in Seq(BOOLEAN)
           /\ Len(Append(verdicts, verdict)) = Len(verdicts) + 1
           /\ Eval!Count(Append(verdicts, verdict)) =
                Eval!Count(verdicts) + IF verdict THEN 1 ELSE 0
<1> DEFINE n == Len(verdicts)
           more == Append(verdicts, verdict)
           of(s) == {i \in DOMAIN s : s[i]}
<1>1. \A s : Eval!Count(s) = Cardinality(of(s))
    BY DEF Eval!Count, Eval!Cardinality, Cardinality
<1>2. /\ n \in Nat /\ more \in Seq(BOOLEAN) /\ Len(more) = n + 1 /\ more[n + 1] = verdict
      /\ \A i \in 1 .. n : more[i] = verdicts[i]
      /\ DOMAIN verdicts = 1 .. n /\ DOMAIN more = 1 .. n + 1
    BY AppendProperties, LenProperties
<1> HIDE DEF more
<1>3. IsFiniteSet(of(verdicts)) /\ n + 1 \notin of(verdicts) /\ Cardinality(of(verdicts)) \in Nat
  <2>1. of(verdicts) \subseteq 1 .. n /\ IsFiniteSet(1 .. n)
      BY <1>2, FS_Interval
  <2>2. IsFiniteSet(of(verdicts))
      BY <2>1, FS_Subset
  <2>3. n + 1 \notin 1 .. n
      BY <1>2
  <2> QED
      BY <2>1, <2>2, <2>3, FS_CardinalityType
<1>4. of(more) = of(verdicts) \cup (IF verdict THEN {n + 1} ELSE {})
  <2>1. ASSUME NEW i
        PROVE  i \in of(more) <=> i \in of(verdicts) \cup (IF verdict THEN {n + 1} ELSE {})
    <3>1. i \in 1 .. n + 1 <=> i \in 1 .. n \/ i = n + 1
        BY <1>2
    <3>2. CASE i = n + 1
        BY <3>1, <3>2, <1>2, <1>3
    <3>3. CASE i # n + 1
        BY <3>1, <3>3, <1>2
    <3> QED
        BY <3>2, <3>3
  <2> HIDE DEF of
  <2> QED
      BY <2>1
<1>5. of(<<>>) = {}
    OBVIOUS
<1>6. Cardinality(of(<<>>)) = 0
    BY <1>5, FS_EmptySet
<1> HIDE DEF of
<1>7. Cardinality(of(more)) = Cardinality(of(verdicts)) + IF verdict THEN 1 ELSE 0
  <2>1. CASE verdict
    <3>1. of(more) = of(verdicts) \cup {n + 1}
        BY <2>1, <1>4
    <3> QED
        BY <3>1, <2>1, <1>3, FS_AddElement
  <2>2. CASE ~verdict
    <3>1. of(more) = of(verdicts)
        BY <2>2, <1>4
    <3> QED
        BY <3>1, <2>2, <1>3
  <2> QED
      BY <2>1, <2>2
<1> QED
    BY <1>1, <1>2, <1>3, <1>6, <1>7 DEF more

\* What a step of a run that is not gathered leaves as it is.
LEMMA SameCount ==
    ASSUME VerdictInv, UNCHANGED <<triggers, results>>,
           \A j \in Eval!Jobs : /\ run'[j].phase = "gathered" <=> run[j].phase = "gathered"
                                /\ run[j].phase = "gathered" => run'[j] = run[j]
    PROVE  Counted' /\ Reported'
<1>1. ASSUME NEW q \in Queries
      PROVE  GatheredOf(q)' = GatheredOf(q) /\ TriggeredOf(q)' = TriggeredOf(q)
  <2>1. \A i \in 1 .. Runs : <<q, i>> \in Eval!Jobs
      BY DEF Eval!Jobs
  <2>2. GatheredOf(q)' = GatheredOf(q)
      BY <2>1 DEF GatheredOf
  <2>3. \A i \in GatheredOf(q) : run'[<<q, i>>].verdict <=> run[<<q, i>>].verdict
      BY <2>1 DEF GatheredOf
  <2> QED
      BY <2>2, <2>3 DEF TriggeredOf
<1>2. Counted'
  <2>1. DOMAIN triggers = {q \in Queries : GatheredOf(q) # {}}
      BY DEF VerdictInv, Counted
  <2>2. DOMAIN triggers' = {q \in Queries : GatheredOf(q)' # {}}
      BY <2>1, <1>1
  <2>3. ASSUME NEW q \in DOMAIN triggers
        PROVE  /\ triggers'[q] \in Seq(BOOLEAN)
               /\ Len(triggers'[q]) = Cardinality(GatheredOf(q)')
               /\ Eval!Count(triggers'[q]) = Cardinality(TriggeredOf(q)')
      BY <2>1, <1>1 DEF VerdictInv, Counted
  <2> QED
      BY <2>2, <2>3 DEF Counted
<1>3. Reported'
    BY <1>1 DEF VerdictInv, Reported
<1> QED
    BY <1>2, <1>3

LEMMA RunKeepsVerdicts ==
    ASSUME VerdictInv, NEW j \in Eval!Jobs,
           \/ Eval!WriteCommand(j) \/ Eval!Spawn(j) \/ Eval!SpawnFails(j)
           \/ Eval!TimeUp(j) \/ Eval!Poll(j) \/ Eval!NothingReady(j) \/ Eval!ReadChunk(j)
           \/ Eval!EndOfStream(j) \/ Eval!ChildPrints(j) \/ Eval!ChildExits(j)
    PROVE  VerdictInv'
<1>1. EvalInv'
    BY EvalRunKeeps, EvalRestKeeps DEF VerdictInv
<1>2. PICK new : run' = [run EXCEPT ![j] = new] /\ RunIs(j, new) /\ new.phase # "gathered"
    BY NextOfRun
<1>3. run[j].phase # "gathered" /\ UNCHANGED <<triggers, results>>
    BY NextOfRun
<1>4. /\ run'[j] = new /\ \A k \in Eval!Jobs : k # j => run'[k] = run[k]
    BY <1>2 DEF VerdictInv, EvalInv, EvalTypes
<1>5. \A k \in Eval!Jobs : RunIs(k, run'[k])
    BY <1>2, <1>4 DEF VerdictInv
<1>6. Counted' /\ Reported'
  <2>1. \A k \in Eval!Jobs : /\ run'[k].phase = "gathered" <=> run[k].phase = "gathered"
                             /\ run[k].phase = "gathered" => run'[k] = run[k]
      BY <1>2, <1>3, <1>4
  <2> QED
      BY <2>1, <1>3, SameCount
<1>7. (\A k \in Eval!Jobs : RunIs(k, run[k]))'
    BY <1>5 DEF RunIs, Watched, Follows, Tells, Stands, ToolBlockAt, Own, Choices, Lines,
                Targets, Eval!Jobs
<1> QED
    BY <1>1, <1>6, <1>7 DEF VerdictInv

LEMMA GatherKeeps ==
    ASSUME VerdictInv, NEW j \in Eval!Jobs, Eval!Gather(j)
    PROVE  VerdictInv'
<1> DEFINE q == j[1]
           i == j[2]
           verdict == run[j].verdict
           new == [run[j] EXCEPT !.phase = "gathered"]
<1>1. q \in Queries /\ i \in 1 .. Runs /\ j = <<q, i>>
    BY DEF Eval!Jobs
<1>2. /\ run[j].phase = "done" /\ run' = [run EXCEPT ![j].phase = "gathered"]
      /\ triggers' = Eval!Taken(q, verdict) /\ results' = results
    BY DEF Eval!Gather
<1>3. DOMAIN run[j] = EvalFields /\ run = [k \in Eval!Jobs |-> run[k]]
    BY DEF VerdictInv, EvalInv, EvalTypes
<1>4. /\ new.phase = "gathered" /\ new.verdict = verdict /\ new.by = run[j].by
      /\ new.call = run[j].call
    BY <1>3 DEF EvalFields
<1>5. run'[j] = new /\ \A k \in Eval!Jobs : k # j => run'[k] = run[k]
    BY <1>2, <1>3
<1> HIDE DEF new
<1>6. verdict \in BOOLEAN /\ RunIs(j, new)
    BY <1>2, <1>4 DEF VerdictInv, RunIs
<1> HIDE DEF verdict
<1>7. EvalInv'
    BY EvalRestKeeps DEF VerdictInv
<1>8. (\A k \in Eval!Jobs : RunIs(k, run[k]))'
  <2>1. \A k \in Eval!Jobs : RunIs(k, run'[k])
      BY <1>5, <1>6 DEF VerdictInv
  <2> QED
      BY <2>1 DEF RunIs, Watched, Follows, Tells, Stands, ToolBlockAt, Own, Choices, Lines,
                  Targets, Eval!Jobs
<1>9. ASSUME NEW p \in Queries, p # q
      PROVE  GatheredOf(p)' = GatheredOf(p) /\ TriggeredOf(p)' = TriggeredOf(p)
  <2>1. \A k \in 1 .. Runs : <<p, k>> \in Eval!Jobs /\ <<p, k>> # j
      BY <1>1, <1>9 DEF Eval!Jobs
  <2>2. \A k \in 1 .. Runs : run'[<<p, k>>] = run[<<p, k>>]
      BY <2>1, <1>5
  <2> QED
      BY <2>2 DEF GatheredOf, TriggeredOf
<1>10. /\ i \notin GatheredOf(q) /\ GatheredOf(q)' = GatheredOf(q) \cup {i}
       /\ TriggeredOf(q)' = TriggeredOf(q) \cup (IF verdict THEN {i} ELSE {})
  <2>1. \A k \in 1 .. Runs : <<q, k>> \in Eval!Jobs /\ (<<q, k>> = j <=> k = i)
      BY <1>1 DEF Eval!Jobs
  <2>2. \A k \in 1 .. Runs : k # i => run'[<<q, k>>] = run[<<q, k>>]
      BY <2>1, <1>5
  <2>3. run'[<<q, i>>] = new /\ run[<<q, i>>].phase = "done"
      BY <1>1, <1>2, <1>5
  <2>4. i \notin GatheredOf(q)
      BY <2>3 DEF GatheredOf
  <2>5. GatheredOf(q)' = GatheredOf(q) \cup {i}
      BY <2>2, <2>3, <1>1, <1>4 DEF GatheredOf
  <2>6. ASSUME NEW k \in 1 .. Runs, k # i
        PROVE  k \in TriggeredOf(q)' <=> k \in TriggeredOf(q)
      BY <2>2, <2>5, <2>6 DEF TriggeredOf
  <2>7. i \in TriggeredOf(q)' <=> verdict
      BY <2>3, <2>5, <1>4 DEF TriggeredOf
  <2>8. TriggeredOf(q)' \subseteq 1 .. Runs /\ TriggeredOf(q) \subseteq 1 .. Runs
        /\ i \notin TriggeredOf(q)
      BY <2>4 DEF TriggeredOf, GatheredOf
  <2> QED
      BY <2>4, <2>5, <2>6, <2>7, <2>8, <1>1
<1>11. /\ Cardinality(GatheredOf(q)') = Cardinality(GatheredOf(q)) + 1
       /\ Cardinality(TriggeredOf(q)') = Cardinality(TriggeredOf(q)) + IF verdict THEN 1 ELSE 0
  <2>1. /\ IsFiniteSet(GatheredOf(q)) /\ IsFiniteSet(TriggeredOf(q))
        /\ Cardinality(TriggeredOf(q)) \in Nat /\ i \notin TriggeredOf(q)
      BY <1>10, GatheredFinite DEF TriggeredOf
  <2>2. Cardinality(GatheredOf(q)') = Cardinality(GatheredOf(q)) + 1
      BY <2>1, <1>10, FS_AddElement
  <2>3. CASE verdict
    <3>1. PICK S : S = TriggeredOf(q)
        OBVIOUS
    <3>2. PICK T : T = TriggeredOf(q)'
        OBVIOUS
    <3>3. T = S \cup {i} /\ IsFiniteSet(S) /\ i \notin S
        BY <2>1, <2>3, <3>1, <3>2, <1>10
    <3>4. Cardinality(T) = Cardinality(S) + 1
        BY <3>3, FS_AddElement
    <3> QED
        BY <2>2, <2>3, <3>1, <3>2, <3>4
  <2>4. CASE ~verdict
      BY <2>1, <2>2, <2>4, <1>10
  <2> QED
      BY <2>3, <2>4
<1> DEFINE held == IF q \in DOMAIN triggers THEN triggers[q] ELSE <<>>
           holds == Append(held, verdict)
<1>12. triggers' = [k \in DOMAIN triggers \cup {q} |-> IF k = q THEN holds ELSE triggers[k]]
    BY <1>2 DEF Eval!Taken, Eval!Gathered
<1>13. /\ held \in Seq(BOOLEAN) /\ Len(held) = Cardinality(GatheredOf(q))
       /\ Eval!Count(held) = Cardinality(TriggeredOf(q))
  <2>1. CASE q \in DOMAIN triggers
      BY <2>1 DEF VerdictInv, Counted
  <2>2. CASE q \notin DOMAIN triggers
    <3>1. GatheredOf(q) = {} /\ TriggeredOf(q) = {}
        BY <2>2, <1>1 DEF VerdictInv, Counted, TriggeredOf
    <3>2. Cardinality(GatheredOf(q)) = 0 /\ Cardinality(TriggeredOf(q)) = 0
        BY <3>1, FS_EmptySet
    <3>3. <<>> \in Seq(BOOLEAN) /\ Len(<<>>) = 0 /\ held = <<>>
        BY <2>2, EmptySeq
    <3>4. Eval!Count(<<>>) = 0
        BY <3>3, OneMoreVerdict
    <3> QED
        BY <3>2, <3>3, <3>4
  <2> QED
      BY <2>1, <2>2
<1> HIDE DEF held
<1>14. /\ holds \in Seq(BOOLEAN) /\ Len(holds) = Cardinality(GatheredOf(q)')
       /\ Eval!Count(holds) = Cardinality(TriggeredOf(q)')
    BY <1>6, <1>11, <1>13, OneMoreVerdict
<1> HIDE DEF holds
<1>15. DOMAIN triggers' = {p \in Queries : GatheredOf(p)' # {}}
  <2>1. DOMAIN triggers' = DOMAIN triggers \cup {q}
      BY <1>12
  <2>2. DOMAIN triggers = {p \in Queries : GatheredOf(p) # {}}
      BY DEF VerdictInv, Counted
  <2>3. ASSUME NEW p \in Queries
        PROVE  p \in DOMAIN triggers' <=> GatheredOf(p)' # {}
      BY <2>1, <2>2, <1>9, <1>10
  <2>4. DOMAIN triggers' \subseteq Queries
      BY <2>1, <2>2, <1>1
  <2> QED
      BY <2>3, <2>4
<1>16. ASSUME NEW p \in DOMAIN triggers'
       PROVE  /\ triggers'[p] \in Seq(BOOLEAN)
              /\ Len(triggers'[p]) = Cardinality(GatheredOf(p)')
              /\ Eval!Count(triggers'[p]) = Cardinality(TriggeredOf(p)')
  <2>1. CASE p = q
    <3>1. triggers'[p] = holds
        BY <2>1, <1>12
    <3> QED
        BY <3>1, <2>1, <1>14
  <2>2. CASE p # q
    <3>1. p \in Queries /\ p \in DOMAIN triggers /\ triggers'[p] = triggers[p]
        BY <2>2, <1>12, <1>15
    <3> QED
        BY <3>1, <2>2, <1>9 DEF VerdictInv, Counted
  <2> QED
      BY <2>1, <2>2
<1>17. Counted'
    BY <1>15, <1>16 DEF Counted
<1>18. Reported'
    BY <1>2 DEF VerdictInv, Reported
<1> QED
    BY <1>7, <1>8, <1>17, <1>18 DEF VerdictInv

LEMMA ReportKeepsVerdicts ==
    ASSUME VerdictInv, Eval!Report
    PROVE  VerdictInv'
<1>1. /\ \A j \in Eval!Jobs : run[j].phase = "gathered"
      /\ results' = [q \in DOMAIN triggers |-> Eval!Scored(q)]
      /\ run' = run /\ triggers' = triggers
    BY DEF Eval!Report
<1>2. EvalInv'
    BY EvalRestKeeps DEF VerdictInv
<1>3. (\A k \in Eval!Jobs : RunIs(k, run[k]))'
  <2>1. \A k \in Eval!Jobs : RunIs(k, run'[k])
      BY <1>1 DEF VerdictInv
  <2> QED
      BY <2>1 DEF RunIs, Watched, Follows, Tells, Stands, ToolBlockAt, Own, Choices, Lines,
                  Targets, Eval!Jobs
<1>4. ASSUME NEW q
      PROVE  GatheredOf(q)' = GatheredOf(q) /\ TriggeredOf(q)' = TriggeredOf(q)
    BY <1>1 DEF GatheredOf, TriggeredOf
<1>5. Counted'
    BY <1>1, <1>4 DEF VerdictInv, Counted
<1>6. DOMAIN triggers = {q \in Queries : GatheredOf(q) # {}}
    BY DEF VerdictInv, Counted
<1>7. \A q \in Queries : GatheredOf(q) = 1 .. Runs
  <2>1. \A q \in Queries, i \in 1 .. Runs : <<q, i>> \in Eval!Jobs
      BY DEF Eval!Jobs
  <2> QED
      BY <2>1, <1>1 DEF GatheredOf
<1>8. ASSUME results' # <<>>, NEW q \in Queries
      PROVE  results'[q].runs = Runs /\ results'[q].triggers = Cardinality(TriggeredOf(q))
  <2>1. Runs # 0
    <3>1. ASSUME Runs = 0
          PROVE  results' = <<>>
      <4>1. DOMAIN triggers = {}
          BY <3>1, <1>6, <1>7
      <4> QED
          BY <4>1, <1>1
    <3> QED
        BY <3>1, <1>8
  <2>2. 1 \in 1 .. Runs
      BY <2>1, RunsAssumption
  <2>3. q \in DOMAIN triggers
      BY <2>2, <1>6, <1>7
  <2>4. results'[q] = Eval!Scored(q)
      BY <2>3, <1>1
  <2>5. /\ Len(triggers[q]) = Cardinality(GatheredOf(q))
        /\ Eval!Count(triggers[q]) = Cardinality(TriggeredOf(q))
      BY <2>3 DEF VerdictInv, Counted
  <2>6. Cardinality(GatheredOf(q)) = Runs
      BY <1>7, RunsAssumption, FS_Interval
  <2>7. Eval!Scored(q).runs = Len(triggers[q]) /\ Eval!Scored(q).triggers = Eval!Count(triggers[q])
      BY DEF Eval!Scored
  <2> QED
      BY <2>4, <2>5, <2>6, <2>7
<1>9. Reported'
    BY <1>1, <1>4, <1>8 DEF Reported
<1> QED
    BY <1>2, <1>3, <1>5, <1>9 DEF VerdictInv

LEMMA VerdictInitial == Eval!Init => VerdictInv
<1> SUFFICES ASSUME Eval!Init
             PROVE  VerdictInv
    OBVIOUS
<1>1. /\ run = [j \in Eval!Jobs |-> Eval!Idle] /\ triggers = [q \in {} |-> <<>>]
      /\ results = <<>>
    BY DEF Eval!Init
<1>2. /\ DOMAIN Eval!Idle = EvalFields /\ Eval!Idle.phase = "queued"
      /\ Eval!Idle.child = "none" /\ Eval!Idle.pipe = <<>> /\ Eval!Idle.pending = FALSE
    BY DEF Eval!Idle, EvalFields
<1>3. \A j \in Eval!Jobs : run[j] = Eval!Idle
    BY <1>1
<1>4. EvalInv
    BY <1>1, <1>2, <1>3 DEF EvalInv, EvalTypes, NothingLeftBehind, Eval!NothingLeftBehind
<1>5. \A j \in Eval!Jobs : RunIs(j, run[j])
    BY <1>2, <1>3 DEF RunIs
<1>6. \A q \in Queries : GatheredOf(q) = {}
  <2>1. \A q \in Queries, i \in 1 .. Runs : <<q, i>> \in Eval!Jobs
      BY DEF Eval!Jobs
  <2> QED
      BY <2>1, <1>2, <1>3 DEF GatheredOf
<1>7. Counted
    BY <1>1, <1>6 DEF Counted
<1> QED
    BY <1>1, <1>4, <1>5, <1>7 DEF VerdictInv, Reported

\* The inductive invariant of the trigger evaluation, for any number of queries, runs
\* and workers: what each run has read of its claude's talk, and what was counted.
THEOREM VerdictInductive == PlatformSpec => []VerdictInv
<1>1. VerdictInv /\ [Eval!Next]_eval_vars => VerdictInv'
  <2> SUFFICES ASSUME VerdictInv, [Eval!Next]_eval_vars
               PROVE  VerdictInv'
      OBVIOUS
  <2>1. CASE UNCHANGED eval_vars
    <3>1. run' = run /\ triggers' = triggers /\ results' = results
        BY <2>1 DEF eval_vars
    <3>2. EvalInv'
        BY <3>1 DEF VerdictInv, EvalInv, EvalTypes, NothingLeftBehind, Eval!NothingLeftBehind
    <3>3. (\A k \in Eval!Jobs : RunIs(k, run[k]))'
      <4>1. \A k \in Eval!Jobs : RunIs(k, run'[k])
          BY <3>1 DEF VerdictInv
      <4> QED
          BY <4>1 DEF RunIs, Watched, Follows, Tells, Stands, ToolBlockAt, Own, Choices,
                      Lines, Targets, Eval!Jobs
    <3>4. Counted' /\ Reported'
        BY <3>1, SameCount
    <3> QED
        BY <3>2, <3>3, <3>4 DEF VerdictInv
  <2>2. CASE Eval!Next
    <3>1. ASSUME NEW j \in Eval!Jobs,
                 \/ Eval!WriteCommand(j) \/ Eval!Spawn(j) \/ Eval!SpawnFails(j)
                 \/ Eval!ChildPrints(j) \/ Eval!ChildExits(j)
                 \/ Eval!TimeUp(j) \/ Eval!Poll(j) \/ Eval!NothingReady(j)
                 \/ Eval!ReadChunk(j) \/ Eval!EndOfStream(j)
          PROVE  VerdictInv'
        BY <3>1, RunKeepsVerdicts
    <3> QED
        BY <2>2, <3>1, GatherKeeps, ReportKeepsVerdicts DEF Eval!Next
  <2> QED
      BY <2>1, <2>2
<1> QED
    BY <1>1, VerdictInitial, EvalPart, PTL

\* A run decided by what claude says counts as triggered if and only if its own claude
\* took its own command first, and the result of a query counts each of its runs so,
\* once, in whatever order they ended.
THEOREM PlatformVerdictIsItsOwnCall == PlatformSpec => []VerdictIsItsOwnCall
<1>1. VerdictInv => VerdictIsItsOwnCall
  <2> SUFFICES ASSUME VerdictInv
               PROVE  VerdictIsItsOwnCall
      OBVIOUS
  <2> DEFINE own(j) == run[j].by = "answer" /\ run[j].call \in {"Skill", "Read"} \X {j}
  <2>1. ASSUME NEW j \in Eval!Jobs, run[j].phase \in {"done", "gathered"}
        PROVE  run[j].verdict = own(j)
      BY <2>1 DEF VerdictInv, RunIs, Own
  <2>2. ASSUME results # <<>>, NEW q \in Queries
        PROVE  /\ results[q].runs = Runs
               /\ results[q].triggers = Cardinality({i \in 1 .. Runs : own(<<q, i>>)})
    <3>1. /\ \A j \in Eval!Jobs : run[j].phase = "gathered"
          /\ results[q].runs = Runs /\ results[q].triggers = Cardinality(TriggeredOf(q))
        BY <2>2 DEF VerdictInv, Reported
    <3>2. \A i \in 1 .. Runs : <<q, i>> \in Eval!Jobs
        BY DEF Eval!Jobs
    <3>3. \A i \in 1 .. Runs : run[<<q, i>>].verdict <=> own(<<q, i>>)
        BY <2>1, <3>1, <3>2
    <3>4. TriggeredOf(q) = {i \in 1 .. Runs : own(<<q, i>>)}
      <4> HIDE DEF own
      <4> QED
          BY <3>1, <3>2, <3>3 DEF TriggeredOf, GatheredOf
    <3> QED
        BY <3>1, <3>4
  <2>3. \A S : Eval!Cardinality(S) = Cardinality(S)
      BY DEF Eval!Cardinality, Cardinality
  <2> QED
      BY <2>1, <2>2, <2>3 DEF VerdictIsItsOwnCall, Eval!VerdictIsItsOwnCall
<1> QED
    BY <1>1, VerdictInductive, PTL

=============================================================================
