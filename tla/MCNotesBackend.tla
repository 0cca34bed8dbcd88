---------------------------- MODULE MCNotesBackend ----------------------------
(* Model-checking instances of NotesBackend. *)
EXTENDS NotesBackend, TLC

\* Requests are interchangeable, and so are users.
NotesSymmetry == Permutations(Requests) \cup Permutations(Users)
=============================================================================
