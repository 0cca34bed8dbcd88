---------------------------- MODULE McpEvaluation ----------------------------
(***************************************************************************)
(* The evaluation of an MCP server                                         *)
(* (.agents/skills/mcp-builder/scripts/evaluation.py, connections.py): one *)
(* connection to the server, one conversation with Claude per question, in *)
(* which Claude calls the server's tools, one report at the end.           *)
(*                                                                         *)
(* Claude's API and the server are external.  A message of Claude says why *)
(* it stopped, how many tools it wants called and which blocks of text it  *)
(* has; a block is the sequence of the <response> elements in it.          *)
(***************************************************************************)
EXTENDS Naturals, Sequences, FiniteSets

CONSTANTS Questions, \* how many questions the file has
          MaxTurns,  \* bound on Claude's turns that call a tool, per question
          None

VARIABLES
    phase,   \* what main is awaiting, or how it ended
    stack,   \* the contexts on the connection's exit stack
    qa_pairs, \* how many questions were read from the file
    reply,   \* Claude's last message of this conversation, None before the first
    answers, \* the tool results added since
    turns,   \* the tools called in this conversation (tool_metrics)
    results, \* of the questions before this one
    report,  \* what is printed or saved
    served   \* served[i]: the replies to question i, and the calls made (history)

mvars == <<phase, stack, qa_pairs, reply, answers, turns, results, report, served>>

Said == {<<>>, <<<<"right">>>>, <<<<"wrong">>>>, <<<<"wrong", "right">>>>,
         <<<<"right", "wrong">>>>, <<<<>>, <<"right">>>>, <<<<"right">>, <<"wrong">>>>}
Replies ==
    [stop : {"tool_use"}, tools : {1, 2}, text : {<<>>}]
        \cup [stop : {"end_turn"}, tools : {0}, text : Said]
        \cup [stop : {"max_tokens"}, tools : {1}, text : {<<>>, <<<<>>>>}]

Init ==
    /\ phase = "entering" /\ stack = <<>> /\ qa_pairs = 0
    /\ reply = None /\ answers = 0 /\ turns = 0
    /\ results = <<>> /\ report = None
    /\ served = [i \in 1 .. Questions |-> [said |-> None, calls |-> 0]]

Current == Len(results) + 1
Goes(to) == phase' = to
Conversation == <<qa_pairs, reply, answers, turns, results, report, served>>

-----------------------------------------------------------------------------
(* The connection *)

\* __aenter__: the transport, the session on it, its handshake.
Enter ==
    /\ phase = "entering"
    /\ CASE stack = <<>> -> stack' = <<"transport">> /\ Goes("entering")
         [] stack = <<"transport">> -> stack' = <<"transport", "session">> /\ Goes("entering")
         [] OTHER -> UNCHANGED stack /\ Goes("listing")
    /\ UNCHANGED Conversation

\* An exception leaves through the exit stack, from within __aenter__ or the
\* body of `async with connection`; the results so far are lost with it.
Raises == Goes("raised") /\ stack' = <<>>

\* The server does not start, or breaks off; the API fails or refuses; the report
\* cannot be written where --output says.
Fails ==
    /\ phase \in {"entering", "listing", "prompting", "reporting"}
    /\ Raises /\ UNCHANGED Conversation

ListTools == phase = "listing" /\ Goes("reading") /\ UNCHANGED <<stack, Conversation>>

\* parse_evaluation_file: a file that is no XML has no questions.
Read ==
    /\ phase = "reading"
    /\ qa_pairs' \in {0, Questions}
    /\ Goes(IF qa_pairs' = 0 THEN "reporting" ELSE "prompting")
    /\ UNCHANGED <<stack, reply, answers, turns, results, report, served>>

-----------------------------------------------------------------------------
(* agent_loop *)

\* The API takes a conversation in which every tool call has its result.
Prompt ==
    /\ phase = "prompting"
    /\ reply # None => answers = reply.tools
    /\ \E r \in Replies :
         /\ r.stop = "tool_use" => turns < MaxTurns
         /\ reply' = r
         /\ Goes(IF r.stop = "tool_use" THEN "calling" ELSE "replied")
         /\ served' = [served EXCEPT ![Current].said = r.text]
    /\ answers' = 0
    /\ UNCHANGED <<stack, qa_pairs, turns, results, report>>

\* The first call only; whatever comes of it, it is timed and answered.
CallTool ==
    /\ phase = "calling"
    /\ Goes("prompting")
    /\ answers' = 1 /\ turns' = turns + 1
    /\ served' = [served EXCEPT ![Current].calls = @ + 1]
    /\ UNCHANGED <<stack, qa_pairs, reply, results, report>>

-----------------------------------------------------------------------------
(* evaluate_single_task, run_evaluation *)

\* extract_xml_content: the last element of the text, and that is of the first block.
Extracted(text) == IF text[1] = <<>> THEN None ELSE text[1][Len(text[1])]

\* Slip: the metrics are those of the whole evaluation.
FreshTurnsKept == turns

FreshTurns == 0

Score ==
    /\ phase = "replied" /\ reply.text # <<>>
    /\ results' = Append(results, [score |-> IF Extracted(reply.text) = "right" THEN 1 ELSE 0,
                                   num_tool_calls |-> turns])
    /\ Goes(IF Len(results') = qa_pairs THEN "reporting" ELSE "prompting")
    /\ reply' = None /\ answers' = 0 /\ turns' = FreshTurns
    /\ UNCHANGED <<stack, qa_pairs, report, served>>

\* A message without text has no response to look for an element in.
NoText ==
    /\ phase = "replied" /\ reply.text = <<>>
    /\ Raises /\ UNCHANGED Conversation

\* sum(r[key] for r in results)
Total(key) ==
    LET sum[n \in 0 .. Len(results)] == IF n = 0 THEN 0 ELSE sum[n - 1] + results[n][key]
    IN  sum[Len(results)]

Report ==
    /\ phase = "reporting"
    /\ report' = [correct |-> Total("score"), total |-> Len(results),
                  calls |-> Total("num_tool_calls"), tasks |-> results]
    /\ Goes("done") /\ stack' = <<>>
    /\ UNCHANGED <<qa_pairs, reply, answers, turns, results, served>>

Next ==
    \/ Enter \/ Fails \/ ListTools \/ Read \/ Prompt \/ CallTool \/ Score \/ NoText \/ Report

Spec == Init /\ [][Next]_mvars

-----------------------------------------------------------------------------
(* Properties *)

\* Whichever text block it is in, the last response of a message.
LastResponse(text) ==
    LET saying == {b \in DOMAIN text : text[b] # <<>>}
    IN  IF saying = {} THEN None
        ELSE LET last == text[CHOOSE b \in saying : \A c \in saying : c <= b]
             IN  last[Len(last)]

\* The message ends with the right response, as it was asked to; or has one at all.
RightAtLast(i) == LastResponse(served[i].said) = "right"
RightSomewhere(i) ==
    \E b \in DOMAIN served[i].said : \E e \in DOMAIN served[i].said[b] :
       served[i].said[b][e] = "right"

CallsMade(n) ==
    LET made[i \in 0 .. n] == IF i = 0 THEN 0 ELSE made[i - 1] + served[i].calls IN made[n]

\* Whatever the server or Claude did, the evaluation ends with the connection
\* closed; and its report, if there is one, is of the whole file.  Every question has
\* the calls made for it.  It has the score of its own conversation's last response
\* if that came in a message of one text block; of a message of several a point only
\* says that the right response is somewhere in it, since the code reads the first
\* block alone, while the prompt asks for the response last.  The totals are those
\* of the scores and of the calls made.
ReportIsOfItsConversations ==
    /\ phase \in {"done", "raised"} => stack = <<>>
    /\ report # None =>
         /\ report.total = qa_pairs
         /\ report.correct = Cardinality({i \in 1 .. qa_pairs : report.tasks[i].score = 1})
         /\ report.calls = CallsMade(qa_pairs)
         /\ \A i \in 1 .. qa_pairs :
              /\ report.tasks[i].num_tool_calls = served[i].calls
              /\ report.tasks[i].score = 1 => RightSomewhere(i)
              /\ Len(served[i].said) = 1 =>
                   (report.tasks[i].score = 1 <=> RightAtLast(i))
=============================================================================
