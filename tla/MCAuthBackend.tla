---------------------------- MODULE MCAuthBackend ----------------------------
(* Model-checking instances of AuthBackend. *)
EXTENDS AuthBackend, TLC

\* Requests are interchangeable: nothing in the module orders them.
RequestSymmetry == Permutations(Requests)
=============================================================================
