--------------------------- MODULE MCFileStorage ---------------------------
(***************************************************************************)
(* Model checking of FileStorage.  No action tells two requests, tenants,  *)
(* buckets or names apart.                                                 *)
(***************************************************************************)
EXTENDS FileStorage, TLC

Symmetry == Permutations(Requests) \cup Permutations(Tenants)
              \cup Permutations(Buckets) \cup Permutations(Names)

============================================================================
