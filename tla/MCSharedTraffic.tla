--------------------------- MODULE MCSharedTraffic ---------------------------
(* SharedTraffic with three requests of two tenants; two share a subject. *)
EXTENDS SharedTraffic, TLC

CONSTANTS r1, r2, r3

MCRequests == {r1, r2, r3}
MCPair == {r1, r3}
MCTenant  == (r1 :> "A") @@ (r2 :> "A") @@ (r3 :> "B")
MCSubject == (r1 :> "A/u") @@ (r2 :> "A/u") @@ (r3 :> "B/u")

(* r1 and r2 have the same tenant and subject. *)
PairSymmetry == Permutations({r1, r2})
=============================================================================
