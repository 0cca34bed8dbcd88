---------------------------- MODULE TriggerEval ----------------------------
(***************************************************************************)
(* The trigger evaluation of the bundled skill tools                       *)
(* (.agents/skills/skill-creator/scripts/run_eval.py).  Every query runs   *)
(* Runs times; a pool of Workers processes each writes a command file for  *)
(* its run, starts `claude -p` and reads the stream of events it prints    *)
(* until the first tool call tells whether that run's command was taken;   *)
(* the parent gathers the verdicts in the order they arrive.               *)
(*                                                                         *)
(* A run is <<query, index>>; the unique name of its command is the run    *)
(* itself.  `claude` is external: what it prints is one of Talks.          *)
(***************************************************************************)
EXTENDS Naturals, Sequences, FiniteSets, FiniteSetsExt, SequencesExt

CONSTANTS
    Queries,        \* the queries of the evaluation set
    ShouldTrigger,  \* those that should trigger the skill
    Runs,           \* runs_per_query
    Workers,        \* num_workers
    Elsewhere       \* the input of a tool call that names no command

VARIABLES
    run,      \* run[j]: where one run of a query is
    triggers, \* query_triggers: the verdicts gathered per query
    results   \* what run_eval returns, <<>> until it does

evars == <<run, triggers, results>>

Jobs == Queries \X (1 .. Runs)

Idle == [phase |-> "queued", file |-> FALSE, child |-> "none", call |-> <<>>,
         unsaid |-> <<>>, pipe |-> <<>>, pending |-> FALSE, json |-> <<>>,
         verdict |-> FALSE, by |-> "none"]

(* Events: a block of text or of a tool starts, a fragment of the tool's   *)
(* input (a command name comes in two), the block or the message stops,    *)
(* the whole message follows, the answer is complete.                      *)
TextBlock == <<[type |-> "start", tool |-> "none"], [type |-> "block_stop"]>>
Closing == <<[type |-> "message_stop"], [type |-> "result"]>>
ToolBlock(tool, target) ==
    <<[type |-> "start", tool |-> tool],
      [type |-> "delta", part |-> <<target, 1>>],
      [type |-> "delta", part |-> <<target, 2>>],
      [type |-> "block_stop"]>>
Whole(tool, target) ==
    <<[type |-> "assistant", tool |-> tool, target |-> target]>>

(* What claude may print when `call` is its first tool call (<<>>: none):  *)
(* with the partial messages, after some text or not, or the whole message *)
(* only.                                                                   *)
Talks(call) ==
    IF call = <<>>
    THEN {TextBlock \o Closing, <<[type |-> "result"]>>}
    ELSE LET block == ToolBlock(call[1], call[2])
             whole == Whole(call[1], call[2])
         IN  {block \o whole \o Closing, TextBlock \o block,
              whole \o <<[type |-> "result"]>>}

(* The calls open to a claude started now: it lists every command file in  *)
(* the project's .claude/commands, those of the other workers too.  To     *)
(* Read one is to the parser as to call it as a Skill: one stands for both.*)
Calls ==
    {<<>>, <<"Other", Elsewhere>>, <<"Read", Elsewhere>>}
        \cup {"Skill"} \X {k \in Jobs : run[k].file}

-----------------------------------------------------------------------------
(* Reading the stream.                                                     *)

\* Slip: looks for the skill's name, which the copies of all runs share.
NamesAnyCopy(j, json) ==
    \E k \in Jobs : {<<k, 1>>, <<k, 2>>} \subseteq ToSet(json)

\* clean_name in accumulated_json
Names(j, json) == {<<j, 1>>, <<j, 2>>} \subseteq ToSet(json)

\* One line of the stream taken in by the reader of run j.
Absorb(j, st, ev) ==
    LET verdict(b) == [st EXCEPT !.answer = {b}]
        json == IF ev.type = "delta" THEN Append(st.json, ev.part) ELSE st.json
    IN  IF st.answer # {} THEN st ELSE
        CASE ev.type = "start" /\ ev.tool \in {"Skill", "Read"} ->
                [st EXCEPT !.pending = TRUE, !.json = <<>>]
          [] ev.type = "start" /\ ev.tool = "Other" -> verdict(FALSE)
          [] ev.type = "delta" /\ st.pending ->
                [st EXCEPT !.json = json,
                           !.answer = IF Names(j, json) THEN {TRUE} ELSE {}]
          [] ev.type \in {"block_stop", "message_stop"} /\ st.pending ->
                verdict(Names(j, st.json))
          [] ev.type = "message_stop" /\ ~st.pending -> verdict(FALSE)
          [] ev.type = "result" -> verdict(FALSE)
          [] ev.type = "assistant" ->
                verdict(ev.tool \in {"Skill", "Read"} /\ ev.target = j)
          [] OTHER -> st

-----------------------------------------------------------------------------
(* The runs.  A worker waits between two lines only where the code does: a *)
(* poll, then a select and a read of what is in the pipe.                  *)

Init ==
    /\ run = [j \in Jobs |-> Idle]
    /\ triggers = [q \in {} |-> <<>>]
    /\ results = <<>>

Step(j, from, new) ==
    /\ run[j].phase = from
    /\ run' = [run EXCEPT ![j] = new]
    /\ UNCHANGED <<triggers, results>>

Busy == {j \in Jobs : run[j].phase \in {"written", "watching", "polled"}}

\* A free worker takes the next run and writes its command file.
WriteCommand(j) ==
    /\ Cardinality(Busy) < Workers
    /\ Step(j, "queued", [run[j] EXCEPT !.phase = "written", !.file = TRUE])

\* It starts claude, which decides on its first tool call and its words.
Spawn(j) ==
    \E call \in Calls : \E talk \in Talks(call) :
        Step(j, "written", [run[j] EXCEPT !.phase = "watching",
                !.child = "running", !.call = call, !.unsaid = talk])

\* Slip: only the end of the watch by an answer cleans up.
EndedUnclean(j, verdict, by) ==
    [run[j] EXCEPT !.phase = "done", !.verdict = verdict, !.by = by,
        !.file = @ /\ by # "answer",
        !.child = IF by = "answer" THEN "gone" ELSE @,
        !.call = IF by = "answer" THEN @ ELSE <<>>,
        !.unsaid = <<>>, !.pipe = <<>>, !.pending = FALSE, !.json = <<>>]

\* Every way out of the run: kill what still runs, remove the file.  `by`
\* remembers whether it was by an answer, and only then `call` matters.
Ended(j, verdict, by) ==
    [run[j] EXCEPT !.phase = "done", !.verdict = verdict, !.by = by,
        !.file = FALSE, !.child = "gone",
        !.call = IF by = "answer" THEN @ ELSE <<>>,
        !.unsaid = <<>>, !.pipe = <<>>, !.pending = FALSE, !.json = <<>>]

\* No claude on the path: the exception leaves through the finally.
SpawnFails(j) == Step(j, "written", Ended(j, FALSE, "cut"))

\* The child prints what it has to say, or exits, having said it or not.
ChildPrints(j) ==
    /\ run[j].child = "running" /\ run[j].unsaid # <<>>
    /\ run' = [run EXCEPT ![j].pipe = @ \o run[j].unsaid, ![j].unsaid = <<>>]
    /\ UNCHANGED <<triggers, results>>

ChildExits(j) ==
    /\ run[j].child = "running"
    /\ run' = [run EXCEPT ![j].child = "exited"]
    /\ UNCHANGED <<triggers, results>>

\* The head of the loop, at a moment of its own: time is up.
TimeUp(j) == Step(j, "watching", Ended(j, FALSE, "cut"))

\* A child that has exited ends the watch; what it printed since the last
\* read goes into the buffer and is never looked at.
Poll(j) ==
    Step(j, "watching", IF run[j].child = "exited" THEN Ended(j, FALSE, "cut")
                        ELSE [run[j] EXCEPT !.phase = "polled"])

\* Nothing to read within a second.
NothingReady(j) ==
    /\ run[j].pipe = <<>> /\ run[j].child = "running"
    /\ Step(j, "polled", [run[j] EXCEPT !.phase = "watching"])

\* The reader of run j after some lines of what is in the pipe.
Read(j, lines) ==
    LET after[n \in 0 .. lines] ==
            IF n = 0 THEN [pending |-> run[j].pending, json |-> run[j].json, answer |-> {}]
            ELSE Absorb(j, after[n - 1], run[j].pipe[n])
    IN  after[lines]

\* A chunk is read and every line of it is taken in; an empty chunk is the
\* end of the stream.
ReadChunk(j) ==
    \E n \in 1 .. Len(run[j].pipe) :
        LET st == Read(j, n)
        IN  Step(j, "polled",
                 IF st.answer # {} THEN Ended(j, TRUE \in st.answer, "answer")
                 ELSE [run[j] EXCEPT !.phase = "watching",
                         !.pending = st.pending, !.json = st.json,
                         !.pipe = SubSeq(@, n + 1, Len(@))])

EndOfStream(j) ==
    /\ run[j].pipe = <<>> /\ run[j].child = "exited"
    /\ Step(j, "polled", Ended(j, FALSE, "cut"))

-----------------------------------------------------------------------------
(* The parent.                                                             *)

Gathered(q) == IF q \in DOMAIN triggers THEN triggers[q] ELSE <<>>

\* query_triggers with one more verdict; a run that raised counts as FALSE.
Taken(q, verdict) ==
    [k \in DOMAIN triggers \cup {q} |->
        IF k = q THEN Append(Gathered(q), verdict) ELSE triggers[k]]

\* as_completed: the verdicts come in the order the runs end.
Gather(j) ==
    /\ run[j].phase = "done"
    /\ run' = [run EXCEPT ![j].phase = "gathered"]
    /\ triggers' = Taken(j[1], run[j].verdict)
    /\ UNCHANGED results

Count(verdicts) == Cardinality({i \in DOMAIN verdicts : verdicts[i]})

\* A query passes when at least half of its runs triggered, or when fewer
\* did and it should not trigger (trigger_threshold 0.5).
Scored(q) ==
    LET n == Count(triggers[q])
        reached == 2 * n >= Len(triggers[q])
    IN  [triggers |-> n, runs |-> Len(triggers[q]),
         pass |-> reached <=> q \in ShouldTrigger]

Report ==
    /\ results = <<>>
    /\ \A j \in Jobs : run[j].phase = "gathered"
    /\ results' = [q \in DOMAIN triggers |-> Scored(q)]
    /\ UNCHANGED <<run, triggers>>

Next ==
    \/ \E j \in Jobs :
          \/ WriteCommand(j) \/ Spawn(j) \/ SpawnFails(j)
          \/ ChildPrints(j) \/ ChildExits(j)
          \/ TimeUp(j) \/ Poll(j) \/ NothingReady(j) \/ ReadChunk(j)
          \/ EndOfStream(j) \/ Gather(j)
    \/ Report

Spec == Init /\ [][Next]_evars

-----------------------------------------------------------------------------
(* Properties.                                                             *)

\* Once a run has its verdict, neither its command file nor its claude is
\* left, whichever way it ended (the two finally blocks): a later query never
\* finds the command of an earlier one.
NothingLeftBehind ==
    \A j \in Jobs : run[j].phase \in {"done", "gathered"}
                      => ~run[j].file /\ run[j].child # "running"

\* A run that is decided by what claude says counts as triggered if and only if
\* its own claude took its own command first, although the copies the other
\* workers wrote lie beside it; a run that is not, never does.  And the result of
\* a query counts each of its runs so, once, in whatever order the runs of all
\* queries ended.
VerdictIsItsOwnCall ==
    LET own(j) == run[j].by = "answer" /\ run[j].call \in {"Skill", "Read"} \X {j}
    IN  /\ \A j \in Jobs : run[j].phase \in {"done", "gathered"} => run[j].verdict = own(j)
        /\ results # <<>> =>
             \A q \in Queries :
                /\ results[q].runs = Runs
                /\ results[q].triggers = Cardinality({i \in 1 .. Runs : own(<<q, i>>)})
=============================================================================
