------------------------------- MODULE MCAgent -------------------------------
(* The five parts of the agent in one run, with the plan of a skill.       *)
EXTENDS AgentParts, AnalysisPlanner, TLC

MCFilters == {<<"d", "v">>, <<"d", "w">>, <<"e", "v">>, <<"f", "v">>}
MCLenses == <<"x" :> 1 @@ "y" :> 2, "x" :> 1 @@ "y" :> 1>>
MCTables == {"x" :> 1, "x" :> 2 @@ "y" :> 1}

MCUnits == Compile(
    <<[action |-> "compare_target_metric", n |-> 1],
      [action |-> "compare_companion_metrics", n |-> 1],
      [action |-> "breakdown_by_dimensions", n |-> 2],
      [action |-> "compare_optional_metrics", n |-> 1],
      [action |-> "summarize_ranked_drivers", n |-> 1]>>)

ASSUME SkillAssumption == Transparent

(* What only the analyses read is chosen for them alone.                   *)
MCAgentInit ==
    /\ AgentInit
    /\ focus # "analysis" => \A d \in 1..(Days - 1) : mart[d] = "x" :> 1

(* Of the two kids one rotates; the other one keeps its key until it is    *)
(* retired, and one thread only verifies tokens of it.                     *)
SteadyKid == newest'["b"] = 1 /\ verification'["t2"].token.kid # "b"

(* What a thread decodes from and writes to is its own: it does so at once.*)
DecodeAtOnce ==
    \/ \A t \in Threads : verification[t].at # "decode"
    \/ \E t \in Threads : verification[t].at = "decode" /\ verification'[t].at # "decode"

(* Tenants are all alike, and so are the subjects of each: the first ones  *)
(* that are admitted get the first names.                                  *)
FirstComer ==
    /\ leases' # <<>> => leases'[1].tenant = "A"
    /\ \A n \in DOMAIN leases' :
          (\A m \in 1..(n - 1) : leases'[m].tenant # leases'[n].tenant) => leases'[n].subject = "u"

(* The request of an analysis reads nothing, its answer is not read again: *)
(* what is written before the one or after the other makes no difference.  *)
WhileItRuns ==
    focus = "analysis" => job.at # "done" /\ (job.kind = "none" => job'.kind # "none")

MCAgentSpec ==
    MCAgentInit /\ [][AgentNext /\ SteadyKid /\ DecodeAtOnce /\ FirstComer /\ WhileItRuns]_agentVars
=============================================================================
