---------------------------- MODULE MCOperations ----------------------------
(* The two parts of the operations in one run.                             *)
EXTENDS OperationsParts, MCIncidentApproval

(* Builds and methods are only compared.                                   *)
PartSymmetry == Permutations(Builds) \union Permutations(Methods)
=============================================================================
