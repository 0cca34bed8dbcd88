------------------------------ MODULE NotesScreen ------------------------------
(***************************************************************************)
(* The list of notes the iOS app shows: the fetch, create, update and      *)
(* delete of ContentViewModel, started from the controls that ContentView  *)
(* enables.                                                                *)
(*                                                                         *)
(* Each operation sends a request and is resumed with its answer, in any   *)
(* order.  An operation whose answer does not arrive fails; the backend    *)
(* may still serve its request, or never.  A note is known by the call     *)
(* that created it, a title by the call that wrote it.                     *)
(***************************************************************************)
EXTENDS Naturals, Sequences

CONSTANTS Calls,  \* the operations
          Before  \* what wrote the note there was before the screen appeared

VARIABLES
    notes,       \* ContentViewModel.notes
    notesError,  \* ContentViewModel.notesError is set
    appeared,    \* the fetch of the view's task has been started
    server,      \* the user's notes, the newest first, as GET /notes lists them
    call,        \* call[c]: an operation
    agreed       \* the last fetch saw every change made since (history)

nvars == <<notes, notesError, appeared, server, call, agreed>>

Note(id, title) == [id |-> id, title |-> title]
NoCall == [at |-> "unused", op |-> "none", id |-> Before, reply |-> <<>>, clean |-> FALSE]

Open(op) == {c \in Calls : call[c].op = op /\ call[c].at \in {"sent", "answered"}}
Fetches == Open("fetch")
Pending == {c \in Calls : call[c].op # "fetch" /\ call[c].at \in {"sent", "answered", "lost"}}
Listed == {notes[i].id : i \in DOMAIN notes}

Init ==
    /\ notes = <<>> /\ notesError = FALSE /\ appeared = FALSE
    /\ server \in {<<>>, <<Note(Before, Before)>>}
    /\ call = [c \in Calls |-> NoCall]
    /\ agreed = FALSE

Begin(c, op, id) ==
    /\ call[c].at = "unused"
    /\ call' = [call EXCEPT ![c] = [at |-> "sent", op |-> op, id |-> id, reply |-> <<>>,
                                    clean |-> Pending = {}]]
    /\ UNCHANGED <<notes, server, agreed>>

\* At the appearance of the view, and from the Retry button of an error.
FetchNotes(c) ==
    /\ ~appeared \/ notesError
    /\ Begin(c, "fetch", Before)
    /\ appeared' = TRUE /\ notesError' = FALSE

CreateNote(c) ==
    /\ appeared
    /\ Open("create") = {}
    /\ Begin(c, "create", c)
    /\ notesError' = FALSE
    /\ UNCHANGED appeared

\* Its error is another one, updateNoteError.
UpdateNote(c, id) ==
    /\ Open("update") = {}
    /\ Begin(c, "update", id)
    /\ UNCHANGED <<appeared, notesError>>

\* The swipe is never disabled.
DeleteNote(c, id) ==
    /\ Begin(c, "delete", id)
    /\ UNCHANGED <<appeared, notesError>>

-----------------------------------------------------------------------------

\* The backend serves a request: the notes there are then, and its answer.
Has(id) == \E i \in DOMAIN server : server[i].id = id
Without(s, id) ==
    LET kept[n \in 0 .. Len(s)] ==
          IF n = 0 THEN <<>>
          ELSE IF s[n].id # id THEN Append(kept[n - 1], s[n]) ELSE kept[n - 1]
    IN  kept[Len(s)]
Retitled(s, id, title) == [i \in DOMAIN s |-> IF s[i].id = id THEN Note(id, title) ELSE s[i]]

Served(c) ==
    CASE call[c].op = "fetch"  -> [rows |-> server, reply |-> server]
      [] call[c].op = "create" -> [rows |-> <<Note(c, c)>> \o server, reply |-> <<Note(c, c)>>]
      [] call[c].op = "update" -> [rows |-> Retitled(server, call[c].id, c),
                                   reply |-> <<Note(call[c].id, c)>>]
      [] call[c].op = "delete" -> [rows |-> Without(server, call[c].id), reply |-> <<>>]

\* A change spoils the fetches that are open, and, unheard of, the list itself.
Serve(c) ==
    /\ call[c].at \in {"sent", "lost"}
    /\ call[c].op \in {"update", "delete"} => Has(call[c].id)
    /\ server' = Served(c).rows
    /\ call' = [d \in Calls |->
         IF d = c THEN [call[c] EXCEPT !.at = IF @ = "lost" THEN "done" ELSE "answered",
                                       !.reply = Served(c).reply]
         ELSE [call[d] EXCEPT !.clean = @ /\ call[c].op = "fetch"]]
    /\ agreed' = (agreed /\ (call[c].at = "lost" => call[c].op = "fetch"))
    /\ UNCHANGED <<notes, notesError, appeared>>

\* 404: the note is not there, or no longer.
Refuse(c) ==
    /\ call[c].at \in {"sent", "lost"}
    /\ call[c].op \in {"update", "delete"} /\ ~Has(call[c].id)
    /\ call' = [call EXCEPT ![c].at = "done"]
    /\ notesError' = (notesError \/ (call[c].at = "sent" /\ call[c].op = "delete"))
    /\ UNCHANGED <<notes, appeared, server, agreed>>

\* The answer does not arrive: an AppError. The request may be served later.
Lose(c) ==
    /\ call[c].at \in {"sent", "answered"}
    /\ call' = [call EXCEPT ![c].at = IF @ = "sent" THEN "lost" ELSE "done"]
    /\ notesError' = (notesError \/ call[c].op # "update")
    /\ agreed' = (agreed /\ (call[c].at = "answered" => call[c].op = "fetch"))
    /\ UNCHANGED <<notes, appeared, server>>

\* A request that was lost on the way to the backend.
NeverServed(c) ==
    /\ call[c].at = "lost"
    /\ call' = [call EXCEPT ![c].at = "done"]
    /\ UNCHANGED <<notes, notesError, appeared, server, agreed>>

\* Slip: a created note is shown last.
DeliverAtTheEnd(c) ==
    /\ call[c].at = "answered"
    /\ call' = [call EXCEPT ![c].at = "done"]
    /\ notes' = CASE call[c].op = "fetch"  -> call[c].reply
                  [] call[c].op = "create" -> notes \o call[c].reply
                  [] call[c].op = "update" -> Retitled(notes, call[c].id, c)
                  [] call[c].op = "delete" -> Without(notes, call[c].id)
    /\ agreed' = IF call[c].op = "fetch" THEN call[c].clean ELSE agreed
    /\ UNCHANGED <<notesError, appeared, server>>

\* A fetch replaces the list; an update of a note that is no longer listed, and
\* so the removal of one, changes nothing.
Deliver(c) ==
    /\ call[c].at = "answered"
    /\ call' = [call EXCEPT ![c].at = "done"]
    /\ notes' = CASE call[c].op = "fetch"  -> call[c].reply
                  [] call[c].op = "create" -> call[c].reply \o notes
                  [] call[c].op = "update" -> Retitled(notes, call[c].id, c)
                  [] call[c].op = "delete" -> Without(notes, call[c].id)
    /\ agreed' = IF call[c].op = "fetch" THEN call[c].clean ELSE agreed
    /\ UNCHANGED <<notesError, appeared, server>>

Next ==
    \E c \in Calls :
       \/ FetchNotes(c) \/ CreateNote(c)
       \/ \E id \in Listed : UpdateNote(c, id) \/ DeleteNote(c, id)
       \/ Serve(c) \/ Refuse(c) \/ Lose(c) \/ NeverServed(c) \/ Deliver(c)

Spec == Init /\ [][Next]_nvars

-----------------------------------------------------------------------------
(* Properties *)

\* At rest the list is what GET /notes would answer, in its order, if the last
\* fetch overlapped no change and no change has failed since: creates, updates
\* and deletes whose answers crossed leave it right.
ListAgrees ==
    (agreed /\ Fetches = {} /\ Pending = {}) => notes = server
=============================================================================
