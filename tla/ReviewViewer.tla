----------------------------- MODULE ReviewViewer -----------------------------
(***************************************************************************)
(* skill-creator/eval-viewer: generate_review.py serves a page             *)
(* (viewer.html) on which a user comments on the runs of a workspace; the  *)
(* page posts all comments at every save and the server writes them to     *)
(* feedback.json.  A save waits 800 ms after the last key; it is also made *)
(* when the user turns to another run or closes the dialog, and none of    *)
(* these is awaited.  The server (one thread) answers one connection at a  *)
(* time, in the order they were made, may fail to read or to write, and    *)
(* may be killed and started again.  Not modelled: a second tab, the       *)
(* prompt, the outputs and the grades shown with a run, and --static.      *)
(***************************************************************************)
EXTENDS Naturals, Sequences, FiniteSets, SequencesExt

CONSTANTS Runs,      \* directories of the workspace, as the numbers they sort by
          Comments,  \* what the user may say of a run
          Unsaid,
          MaxOpen    \* bound: connections that wait for the server

VARIABLES outputs,     \* the runs that have their outputs by now
          unnumbered,  \* the runs without an eval_id in an eval_metadata.json
          previous,    \* an earlier iteration is shown beside this one
          server,      \* "off" or "serving"
          feedback,    \* what feedback.json says
          open,        \* the connections to the server, the oldest first
          page         \* the tab

rvars == <<outputs, unnumbered, previous, server, feedback, open, page>>

Texts == Comments \cup {Unsaid}
NoComments == [r \in Runs |-> Unsaid]

\* A file that says nothing: there is none, or it does not parse.
NoFile(why) == [status |-> why, map |-> NoComments, of |-> {}]

\* `map` is feedbackMap, Unsaid where it has no entry or one that is filtered out.
\* Not in the code: `said` is what the user last saw or typed for each run, `unsaved`
\* that the last POST was not written, and `behind` that the page was drawn without
\* the comments in the file, or has posted before it was drawn, and not since.
NoPage == [status |-> "closed", runs |-> <<>>, map |-> NoComments, current |-> 1,
           text |-> Unsaid, timer |-> FALSE, dialog |-> FALSE,
           said |-> NoComments, unsaved |-> FALSE, behind |-> FALSE]

Init ==
    /\ outputs \in SUBSET Runs /\ unnumbered \in SUBSET Runs /\ previous \in BOOLEAN
    /\ server = "off" /\ feedback = NoFile("none") /\ open = <<>> /\ page = NoPage

\* runs.sort compares the eval_id of any two runs; None is no number.
SortRaises == outputs \cap unnumbered # {} /\ outputs \ unnumbered # {}

find_runs ==
    CHOOSE runs \in [1 .. Cardinality(outputs) -> outputs] :
       \A i, j \in DOMAIN runs : i < j => runs[i] < runs[j]

RunEnds(r) ==
    /\ outputs' = outputs \cup {r}
    /\ UNCHANGED <<unnumbered, previous, server, feedback, open, page>>

-----------------------------------------------------------------------------
(* The page.                                                               *)

Request(kind, review) == [kind |-> kind, review |-> review]

\* fetch: with no server it fails at once.
Fetch(request) ==
    IF server = "serving"
    THEN Len(open) < MaxOpen /\ open' = Append(open, request)
    ELSE UNCHANGED open

Shown == page.runs[page.current]
Noted == [page.map EXCEPT ![Shown] = page.text]

\* What a POST brings: `of` are the runs it has an entry for.
InProgress == [status |-> "in_progress", map |-> Noted, of |-> {r \in Runs : Noted[r] # Unsaid}]
Complete == [status |-> "complete", map |-> [r \in Runs |->
                 IF r \in ToSet(page.runs) THEN Noted[r] ELSE Unsaid], of |-> ToSet(page.runs)]

\* The page goes on as `next` once it has posted.
Posted(next) ==
    [next EXCEPT !.map = Noted, !.unsaved = server = "off", !.behind = page.status = "fetching"]

\* saveCurrentFeedback, in a page that goes on as `next`.
Save(next) ==
    /\ Fetch(Request("save", InProgress))
    /\ page' = Posted(next)

\* The script of the page runs, from before the comments are fetched.
Running ==
    /\ page.status \in {"fetching", "open"}
    /\ UNCHANGED <<outputs, unnumbered, previous, server, feedback>>

\* Bound: the user types when the page is drawn, and not under the dialog.
Type(text) ==
    /\ Running /\ page.status = "open" /\ ~page.dialog
    /\ text # page.text
    /\ page' = [page EXCEPT !.text = text, !.timer = TRUE, !.said[Shown] = text]
    /\ UNCHANGED open

TimerFires == Running /\ page.timer /\ Save([page EXCEPT !.timer = FALSE])

\* showRun
Turned(to) == [page EXCEPT !.current = to, !.text = page.map[page.runs[to]]]

\* Slip: the text is left to the timer.
NavigateUnsaved(to) ==
    /\ Running /\ to \in {page.current - 1, page.current + 1}
    /\ page' = Turned(to)
    /\ UNCHANGED open

\* By a button or an arrow key, which also works under the dialog and before the
\* page is drawn.
Navigate(to) ==
    /\ Running /\ to \in {page.current - 1, page.current + 1}
    /\ Save(Turned(to))

\* showDoneDialog.  The timer keeps running.
Submit ==
    /\ Running
    /\ Fetch(Request("submit", Complete))
    /\ page' = Posted([page EXCEPT !.dialog = @ \/ server = "off"])

CloseDialog == Running /\ page.dialog /\ Save([page EXCEPT !.dialog = FALSE])

Post(request) == request.kind \in {"save", "submit"}

\* The browser drops what it has not sent, the last of it first, and asks for the
\* page.  The answer to a GET that it has sent goes nowhere.
Reload ==
    /\ page.status # "closed" /\ server = "serving"
    /\ \E m \in 1 .. Len(open) + 1, n \in 0 .. Len(open) :
          /\ n - m + 1 < MaxOpen
          /\ \A i \in 1 .. m - 1 : ~Post(open[i])
          /\ \A i \in m .. n : Post(open[i])
          /\ open' = Append(SubSeq(open, m, n), Request("page", NoFile("none")))
    /\ page' = [NoPage EXCEPT !.status = "loading"]
    /\ UNCHANGED <<outputs, unnumbered, previous, server, feedback>>

-----------------------------------------------------------------------------
(* The server.                                                             *)

\* main: with no run, or runs that do not compare, it ends.  Otherwise it kills
\* what listens on its port (Stop) and opens the page; the user keeps this tab.
Launch ==
    /\ server = "off"
    /\ outputs # {} /\ ~SortRaises
    /\ server' = "serving" /\ open' = <<Request("page", NoFile("none"))>>
    /\ page' = [NoPage EXCEPT !.status = "loading"]
    /\ UNCHANGED <<outputs, unnumbered, previous, feedback>>

Serve(kind) ==
    /\ server = "serving" /\ open # <<>> /\ Head(open).kind = kind
    /\ UNCHANGED <<outputs, unnumbered, previous, server>>

\* The rest of init: the page is drawn with these comments.
ShowRun0(map) ==
    [page EXCEPT !.status = "open", !.map = map, !.said = map,
                 !.text = map[page.runs[1]], !.current = 1]
DrawnBlank == [ShowRun0(NoComments) EXCEPT !.behind = TRUE]

\* do_GET of the page, which lists the workspace anew, and init on the page:
\* beside an earlier iteration it does not ask for the comments.
ServePage ==
    /\ Serve("page") /\ ~SortRaises
    /\ LET embedded == [page EXCEPT !.runs = find_runs] IN
       IF previous
       THEN /\ page' = [embedded EXCEPT !.status = "open", !.behind = TRUE]
            /\ open' = Tail(open)
       ELSE /\ page' = [embedded EXCEPT !.status = "fetching"]
            /\ open' = Append(Tail(open), Request("feedback", NoFile("none")))
    /\ UNCHANGED feedback

\* The handler raises: the connection is closed without an answer.
ServeNoPage ==
    /\ Serve("page") /\ SortRaises
    /\ page' = [page EXCEPT !.status = "failed"]
    /\ open' = Tail(open)
    /\ UNCHANGED feedback

\* do_GET of the comments; of a file that does not parse the page makes none.
ServeFeedback ==
    /\ Serve("feedback")
    /\ page' = ShowRun0(feedback.map)
    /\ open' = Tail(open)
    /\ UNCHANGED feedback

\* read_bytes raises OSError, and the connection is closed without an answer: the
\* page takes it for a first run.
ServeNoFeedback ==
    /\ Serve("feedback")
    /\ page' = DrawnBlank
    /\ open' = Tail(open)
    /\ UNCHANGED feedback

\* The page takes an answer to its POST, an error too, for success.
Answered(kind, failed) ==
    IF page.status = "open"
    THEN [page EXCEPT !.dialog = @ \/ kind = "submit", !.unsaved = failed]
    ELSE page

\* do_POST
ServeSave(kind) ==
    /\ kind \in {"save", "submit"} /\ Serve(kind)
    /\ feedback' = Head(open).review
    /\ page' = Answered(kind, FALSE)
    /\ open' = Tail(open)

\* write_text raises OSError, before or after it has emptied the file.
SaveFails(kind) ==
    /\ kind \in {"save", "submit"} /\ Serve(kind)
    /\ feedback' \in {feedback, NoFile("torn")}
    /\ page' = Answered(kind, TRUE)
    /\ open' = Tail(open)

\* The page after its fetches have failed: a submit shows the dialog all the same.
Failed(tab) ==
    [tab EXCEPT !.unsaved = @ \/ \E i \in DOMAIN open : Post(open[i]),
                !.dialog = @ \/ \E i \in DOMAIN open : open[i].kind = "submit"]

\* Ctrl+C, or kill, which may find the server between emptying the file and
\* writing it.  Every fetch that is under way fails, that of the comments too.
Stop ==
    /\ server = "serving"
    /\ server' = "off" /\ open' = <<>>
    /\ feedback' \in {feedback} \cup
           (IF open # <<>> /\ Post(Head(open)) THEN {NoFile("torn")} ELSE {})
    /\ page' = CASE page.status = "open" -> Failed(page)
                 [] page.status = "fetching" -> Failed(DrawnBlank)
                 [] OTHER -> [page EXCEPT !.status = "failed"]
    /\ UNCHANGED <<outputs, unnumbered, previous>>

Next ==
    \/ \E r \in Runs \ outputs : RunEnds(r)
    \/ \E text \in Texts : Type(text)
    \/ \E to \in DOMAIN page.runs : Navigate(to)
    \/ TimerFires \/ Submit \/ CloseDialog \/ Reload
    \/ Launch \/ Stop
    \/ ServePage \/ ServeNoPage \/ ServeFeedback \/ ServeNoFeedback
    \/ \E kind \in {"save", "submit"} : ServeSave(kind) \/ SaveFails(kind)

Spec == Init /\ [][Next]_rvars

-----------------------------------------------------------------------------
(* Properties.                                                             *)

\* Nothing is under way and the last POST of the page was written.
Settled ==
    /\ page.status = "open" /\ open = <<>> /\ ~page.timer /\ ~page.unsaved

\* "Feedback auto-saves to feedback.json in the workspace": whatever the order of
\* typing, turning, submitting, reloading and restarts, the file then holds the
\* last the user said of every run.  The exception is a page that is `behind`: the
\* file may hold comments that it does not show, until its next save drops them.
SavedIsShown ==
    Settled /\ ~page.behind => feedback.map = page.said

\* "POST once with status: complete - include ALL runs so the model can distinguish
\* "no feedback" (looks good) from "not reviewed"": while the user is told that the
\* review has been saved, the file says that it is complete.
SubmittedStays ==
    Settled /\ page.dialog =>
        feedback.status = "complete" /\ feedback.of = ToSet(page.runs)
=============================================================================
