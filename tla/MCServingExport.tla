--------------------------- MODULE MCServingExport ---------------------------
(* ServingExport on small instances: jobs and assets are interchangeable. *)
EXTENDS ServingExport, TLC

JobSymmetry == Permutations(Jobs) \union Permutations(Assets)
=============================================================================
