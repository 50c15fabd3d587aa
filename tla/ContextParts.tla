----------------------------- MODULE ContextParts -----------------------------
(***************************************************************************)
(* The three parts of the governed context. They share no state: one of    *)
(* them, chosen at the start, moves.                                       *)
(*   semantics  SemanticCache  the snapshot that a process answers from    *)
(*   cards      CodeContext    cards, their sources and their fingerprints *)
(*   bundle     ContextBundle  the context of one request                  *)
(***************************************************************************)
EXTENDS SemanticCache, CodeContext, ContextBundle

VARIABLE focus     \* the part that moves

contextVars == <<focus, cacheVars, codeVars, bundleVars>>

ContextInit ==
    focus \in {"semantics", "cards", "bundle"} /\ CacheInit /\ CodeInit /\ BundleInit

ContextNext ==
    \/ focus = "semantics" /\ CacheNext /\ UNCHANGED <<focus, codeVars, bundleVars>>
    \/ focus = "cards" /\ CodeNext /\ UNCHANGED <<focus, cacheVars, bundleVars>>
    \/ focus = "bundle" /\ BundleNext /\ UNCHANGED <<focus, cacheVars, codeVars>>

ContextSpec == ContextInit /\ [][ContextNext]_contextVars

-----------------------------------------------------------------------------
(* Type correctness of the three parts.                                    *)
ContextTypeOK == CacheTypeOK /\ CodeTypeOK /\ BundleTypeOK
=============================================================================
