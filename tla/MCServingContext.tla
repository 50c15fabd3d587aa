--------------------------- MODULE MCServingContext ---------------------------
(***************************************************************************)
(* What the platform publishes for others and what the agent reads as its  *)
(* context, which share no state, in one run: TLC chooses at the start     *)
(* which of them moves.                                                    *)
(*   serving    ServingExport  the export of a day's results               *)
(*   semantics, cards, bundle  the parts of ContextParts                   *)
(***************************************************************************)
EXTENDS ContextParts, MCServingExport

CONSTANTS Original     \* what all the files of the cards hold at first

(* Shapes of context_planner_policy.yml: a metric query, an analysis, a    *)
(* lineage query, a diagnosis, an intent without a policy; and, which the  *)
(* loader expects of no policy, code that is required.                     *)
Plan(required, optional) ==
    [s \in ContextSources |-> IF s \in required THEN "required"
                              ELSE IF s \in optional THEN "optional" ELSE "absent"]
MCPolicy == {Plan({"semantic"}, {}), Plan({"semantic", "skill"}, {"code"}),
             Plan({"metadata"}, {"code"}), Plan({"metadata", "runtime"}, {}),
             Plan({}, {}), Plan({"semantic", "code"}, {})}

(* Each part moves from the states it starts in, the others rest in one.   *)
ServingContextInit ==
    /\ focus \in {"serving", "semantics", "cards", "bundle"}
    /\ Init /\ CacheInit /\ CodeInit /\ BundleInit
    /\ \A f \in Files : text[f] = Original
    /\ focus # "semantics" => \A f \in 1..Sources : source[f] = CHOOSE r \in Revisions : TRUE
    /\ focus # "bundle" => plan = Plan({}, {}) /\ target.dataset = NoModel /\ target.related = {}

ServingContextNext ==
    \/ focus = "serving" /\ Next /\ UNCHANGED contextVars
    \/ ContextNext /\ UNCHANGED vars

ServingContextSpec == ServingContextInit /\ [][ServingContextNext]_<<vars, contextVars>>

(* The export jobs are alike, and so are the models whose cards are built. *)
Alike == Permutations(Jobs) \union Permutations(Models)
=============================================================================
