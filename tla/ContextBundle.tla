----------------------------- MODULE ContextBundle -----------------------------
(***************************************************************************)
(* The governed context of one request (agent/context): the loader         *)
(* materializes what the plan requires or blocks the bundle, and afterwards*)
(* the expander adds code, first a card of a model, then an excerpt of its *)
(* SQL, as far as the plan, the number of steps and the budget allow. A    *)
(* bundle is immutable and belongs to its request; a variable stands for   *)
(* the latest one. What a card holds is the matter of CodeContext.         *)
(***************************************************************************)
EXTENDS Integers, Sequences

CONSTANTS CodeModels,
          Policy,         \* intent_context: for each intent what each source is
          InitialTotals,  \* estimates of all that was materialized
          ExcerptSizes,   \* estimates of a card or of an excerpt
          InitialLimit, ExpandedLimit, MaxSteps   \* of context_loader_policy.yml

NoModel == "no model"
ContextSources == {"semantic", "metadata", "runtime", "knowledge", "skill", "code", "memory"}

ASSUME BundleAssumption ==
    /\ NoModel \notin CodeModels
    /\ Policy \subseteq [ContextSources -> {"required", "optional", "absent"}]
    /\ InitialTotals \subseteq Nat /\ ExcerptSizes \subseteq Nat
    /\ InitialLimit \in Nat /\ ExpandedLimit \in Nat /\ MaxSteps \in Nat
    /\ InitialLimit <= ExpandedLimit

VARIABLES
    plan,      \* ContextPlan
    target,    \* the dataset of the route, and the models its metrics rest on
    bundle,    \* ContextBundle
    granted    \* history: the status the loader gave

bundleVars == <<plan, target, bundle, granted>>

NoBundle == [status |-> "none", items |-> [s \in ContextSources |-> "absent"],
             added |-> <<>>, tokens |-> 0, count |-> 0]

BundleInit ==
    /\ plan \in Policy
    /\ target \in [dataset : CodeModels \union {NoModel}, related : SUBSET CodeModels]
    /\ bundle = NoBundle /\ granted = "none"

-----------------------------------------------------------------------------
(* What becomes of a source that is required: runtime and knowledge are    *)
(* left to the executor, code and memory cannot be required.               *)
Outcomes(s) ==
    CASE s \in {"semantic", "skill"}    -> {"loaded", "blocked"}
      [] s = "metadata"                 -> {"loaded", "executor_owned", "blocked"}
      [] s \in {"runtime", "knowledge"} -> {"executor_owned"}
      [] OTHER                          -> {"blocked"}

Required == {s \in ContextSources : plan[s] = "required"}
ItemsOf(outcome) ==
    [s \in ContextSources |-> IF s \in Required THEN outcome[s]
                             ELSE IF plan[s] = "optional" THEN "not_loaded" ELSE "absent"]

(* _finalize: a required failure or too large a total blocks the bundle.   *)
Verdict(items, total) ==
    IF (\E s \in ContextSources : items[s] = "blocked") \/ total > InitialLimit
    THEN "BLOCKED" ELSE "READY"

Load ==
    /\ bundle.status = "none"
    /\ \E outcome \in [Required -> {"loaded", "executor_owned", "blocked"}], total \in InitialTotals :
          /\ \A s \in Required : outcome[s] \in Outcomes(s)
          /\ total > 0 => \E s \in Required : outcome[s] = "loaded"
          /\ bundle' = [NoBundle EXCEPT !.status = Verdict(ItemsOf(outcome), total),
                                        !.items = ItemsOf(outcome), !.tokens = total]
    /\ granted' = bundle'.status
    /\ UNCHANGED <<plan, target>>

(* The plan was made for another route: nothing is loaded.                 *)
LoadMismatched ==
    /\ bundle.status = "none"
    /\ bundle' = [NoBundle EXCEPT !.status = "BLOCKED"] /\ granted' = "BLOCKED"
    /\ UNCHANGED <<plan, target>>

-----------------------------------------------------------------------------
(* _with_warning: what could not be added is no reason to block.           *)
Demoted == IF bundle.status = "READY" THEN "PARTIAL" ELSE bundle.status
Warned == [bundle EXCEPT !.status = Demoted]

AddedCard(m) ==
    \E i \in DOMAIN bundle.added :
       bundle.added[i] = [kind |-> "card", model |-> m, loaded |-> TRUE]

(* _append_loaded replaces the placeholder of the optional source.         *)
AppendLoaded(kind, m, size) ==
    IF bundle.tokens + size > ExpandedLimit
    THEN Warned
    ELSE [bundle EXCEPT
            !.items["code"] = IF @ = "not_loaded" THEN "absent" ELSE @,
            !.added = Append(@, [kind |-> kind, model |-> m, loaded |-> TRUE]),
            !.status = "READY", !.tokens = @ + size, !.count = @ + 1]

AppendFailure(kind, m) ==
    [Warned EXCEPT !.added = Append(@, [kind |-> kind, model |-> m, loaded |-> FALSE]),
                   !.count = @ + 1]

(* A card could be resolved, or an excerpt be cut, or it could not.        *)
AddOrFail(kind, m) ==
    \/ \E size \in ExcerptSizes : bundle' = AppendLoaded(kind, m, size)
    \/ bundle' = AppendFailure(kind, m)

Reasons == {"TRANSFORMATION_LOGIC_REQUIRED", "LINEAGE_EXPLANATION_REQUIRED",
            "MODEL_CONTEXT_CARD_INSUFFICIENT"}

(* _guard_code_expansion.                                                  *)
CardAllowed(reason) ==
    /\ bundle.status \in {"READY", "PARTIAL"}
    /\ plan["code"] = "optional"
    /\ bundle.count < MaxSteps
    /\ reason # "MODEL_CONTEXT_CARD_INSUFFICIENT"

(* _resolve_model: named, or the dataset of the route, or the only model   *)
(* the loaded metrics rest on; never a guess.                              *)
ModelFor(explicit) ==
    IF explicit # NoModel THEN explicit
    ELSE IF target.dataset # NoModel THEN target.dataset
    ELSE IF bundle.items["semantic"] = "loaded" /\ \E m \in CodeModels : target.related = {m}
    THEN CHOOSE m \in CodeModels : target.related = {m}
    ELSE NoModel

(* A card that the bundle has is not loaded again.                         *)
ExpandCode ==
    /\ bundle.status # "none"
    /\ \E reason \in Reasons, explicit \in CodeModels \union {NoModel} :
          LET m == ModelFor(explicit) IN
          \/ /\ ~ CardAllowed(reason) \/ m = NoModel
             /\ bundle' = Warned
          \/ /\ CardAllowed(reason) /\ m # NoModel /\ ~ AddedCard(m)
             /\ AddOrFail("card", m)
    /\ UNCHANGED <<plan, target, granted>>

(* Slip: any card will do.                                                 *)
SomeCardIsThere(m, reason) ==
    /\ reason = "MODEL_CONTEXT_CARD_INSUFFICIENT" /\ plan["code"] # "absent"
    /\ bundle.count < MaxSteps /\ \E other \in CodeModels : AddedCard(other)

RawAllowed(m, reason) ==
    /\ reason = "MODEL_CONTEXT_CARD_INSUFFICIENT"
    /\ plan["code"] # "absent"
    /\ bundle.count < MaxSteps
    /\ AddedCard(m)

ExpandRawCode ==
    /\ bundle.status # "none"
    /\ \E reason \in Reasons, m \in CodeModels :
          \/ ~ RawAllowed(m, reason) /\ bundle' = Warned
          \/ RawAllowed(m, reason) /\ AddOrFail("raw", m)
    /\ UNCHANGED <<plan, target, granted>>

BundleNext == Load \/ LoadMismatched \/ ExpandCode \/ ExpandRawCode

BundleSpec == BundleInit /\ [][BundleNext]_bundleVars

-----------------------------------------------------------------------------
BundleTypeOK ==
    /\ plan \in Policy
    /\ target \in [dataset : CodeModels \union {NoModel}, related : SUBSET CodeModels]
    /\ bundle \in [status : {"none", "READY", "PARTIAL", "BLOCKED"},
                   items : [ContextSources -> {"absent", "not_loaded", "loaded",
                                               "executor_owned", "blocked"}],
                   added : Seq([kind : {"card", "raw"}, model : CodeModels, loaded : BOOLEAN]),
                   tokens : Nat, count : Nat]
    /\ granted \in {"none", "READY", "BLOCKED"}

(* However often code is asked for, and however often it cannot be had, no *)
(* more steps are taken than allowed, and what the model is given stays    *)
(* within the budget.                                                      *)
ExpansionIsBounded ==
    /\ Len(bundle.added) <= MaxSteps
    /\ granted = "READY" => bundle.tokens <= ExpandedLimit

(* Code comes in only where the plan made it optional and the loader let   *)
(* the bundle through, one card for each model, and an excerpt only behind *)
(* the card of its own model.                                              *)
CodeIsEarned ==
    /\ bundle.added # <<>> => plan["code"] = "optional" /\ granted = "READY"
    /\ \A i \in DOMAIN bundle.added :
          LET entry == bundle.added[i] IN
          /\ entry.kind = "raw" =>
                \E j \in 1..(i - 1) :
                   bundle.added[j] = [kind |-> "card", model |-> entry.model, loaded |-> TRUE]
          /\ entry.kind = "card" /\ entry.loaded =>
                \A j \in DOMAIN bundle.added : bundle.added[j] = entry => j = i

(* Optional code never stands in for a required source: what the loader    *)
(* blocked, for a failure, the budget or another's plan, stays blocked, and*)
(* what it let through is not blocked afterwards.                          *)
RefusedStaysRefused ==
    granted # "none" => (granted = "BLOCKED" <=> bundle.status = "BLOCKED")
=============================================================================
