--------------------------- MODULE MCShopifyPipeline ---------------------------
(* ShopifyPipeline on small instances: the runs are interchangeable. *)
EXTENDS ShopifyPipeline, TLC

RunSymmetry == Permutations(Runs)
=============================================================================
