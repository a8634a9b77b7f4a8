------------------------------ MODULE MCNotes ------------------------------
(***************************************************************************)
(* Model checking of Notes.  Requests are interchangeable.                 *)
(***************************************************************************)
EXTENDS Notes, TLC

Symmetry == Permutations(Requests)

============================================================================
