------------------------------ MODULE NoteShelf ------------------------------
(***************************************************************************)
(* What the notes routes promise about the stored notes: a note is created *)
(* once, belongs to its creator for ever, changes only in the fields a     *)
(* PATCH supplies, each time in one atomic step from the value it had, and *)
(* never returns once deleted.  NotesBackend implements this module.       *)
(***************************************************************************)
CONSTANTS Ids,      \* names of notes
          Owners,   \* users
          Values    \* values of the fields title and body

VARIABLES shelf,    \* the stored notes
          used      \* the ids of every note ever created

svars == <<shelf, used>>

Note == [id : Ids, user : Owners, title : Values, body : Values]

ShelfInit == shelf = {} /\ used = {}

Create(n) ==
    /\ shelf' = shelf \cup {n}
    /\ n.id \notin used
    /\ used' = used \cup {n.id}

\* One user changes the supplied fields of one of their notes.
Patch(n, supplied) ==
    /\ shelf' = (shelf \ {n}) \cup
                  {[f \in DOMAIN n |-> IF f \in DOMAIN supplied THEN supplied[f]
                                                                 ELSE n[f]]}
    /\ UNCHANGED used

Delete(n) == shelf' = shelf \ {n} /\ UNCHANGED used

Supplied == UNION {[S -> Values] : S \in SUBSET {"title", "body"}}

ShelfNext ==
    \/ \E n \in Note : Create(n)
    \/ \E n \in shelf, supplied \in Supplied : Patch(n, supplied)
    \/ \E n \in shelf : Delete(n)

ShelfSpec == ShelfInit /\ [][ShelfNext]_svars

=============================================================================
