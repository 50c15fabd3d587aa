------------------------------ MODULE AgentTurn ------------------------------
(***************************************************************************)
(* One turn of the governed agent (GovernedAgentRuntime, agent/runtime):   *)
(* route, authorize, load context, then either compile a skill into units, *)
(* execute them under the analysis validator's bounded retry, or run the   *)
(* router's tool steps; compose an answer, render and validate it.         *)
(*                                                                         *)
(* A turn keeps nothing for the next one. What a query or a tool returns   *)
(* is the environment's choice.                                            *)
(***************************************************************************)
EXTENDS Integers, Sequences, FiniteSets

CONSTANTS Units,        \* the units the skill compiles to (AnalysisPlanner)
          TurnRetries   \* limits.max_validation_retries

UnitKinds == {"TIME_COMPARISON", "BREAKDOWN", "EVIDENCE_SUMMARY"}

(* A plan is in dependency order, and its summaries are required.          *)
ASSUME PlanAssumption ==
    /\ TurnRetries \in Nat
    /\ Units \in Seq([kind : UnitKinds, required : BOOLEAN, depends : SUBSET Nat])
    /\ \A u \in DOMAIN Units :
          /\ Units[u].depends \subseteq 1..(u - 1)
          /\ Units[u].kind = "EVIDENCE_SUMMARY" => Units[u].required

VARIABLES
    turn,       \* the turn: its place in the chain and what the chain decided
    results,    \* unit_results and attempts: the latest result of each unit
    evidence,   \* evidence_units of each summary, with the attempt they were read from
    outcomes    \* history: what each unit's own executions returned

turnVars == <<turn, results, evidence, outcomes>>

-----------------------------------------------------------------------------
Ids == DOMAIN Units
Required == {u \in Ids : Units[u].required}

-----------------------------------------------------------------------------
(* DeterministicToolRouter.plan: the governed names that are found in a     *)
(* question and the markers it has decide, by the first rule that applies, *)
(* what it is routed to. A date counts as a marker of a query.             *)
Marks == {"sql", "values", "runtime", "lineage", "governance", "entity", "definition",
          "analysis", "query", "knowledge"}
Questions == [metrics : 0..2, datasets : BOOLEAN, entities : BOOLEAN, dimensions : BOOLEAN,
              marks : SUBSET Marks]

RouteTo(intent, status, steps) == [intent |-> intent, status |-> status, steps |-> steps]
NoRoute == RouteTo("UNKNOWN", "BLOCKED", <<>>)
Discovery == RouteTo("METADATA_DISCOVERY", "NEEDS_DISCOVERY", <<"search_metadata">>)
Rule(applies, route) == [applies |-> applies, route |-> route]

(* Words of operation and governance win over those of metrics.            *)
TargetRules(q) ==
    <<Rule("values" \in q.marks /\ q.dimensions /\ q.metrics = 0,
           RouteTo("DIMENSION_VALUE_DISCOVERY", "NEEDS_DISCOVERY", <<>>)),
      Rule("values" \in q.marks /\ q.dimensions,
           RouteTo("DIMENSION_VALUE_DISCOVERY", "PLANNED", <<"get_dimension_values">>)),
      Rule(q.datasets /\ "runtime" \in q.marks,
           RouteTo("RUNTIME_DIAGNOSIS", "PLANNED", <<"get_dataset_context", "get_runtime_context">>)),
      Rule(q.datasets /\ "lineage" \in q.marks,
           RouteTo("LINEAGE_QUERY", "PLANNED", <<"get_lineage_context">>)),
      Rule(q.datasets /\ "governance" \in q.marks,
           RouteTo("DATASET_GOVERNANCE", "PLANNED", <<"get_dataset_context">>)),
      Rule(q.entities /\ "entity" \in q.marks,
           RouteTo("ENTITY_CONTEXT", "PLANNED", <<"get_entity_context">>))>>

MetricRules(q) ==
    LET value == q.metrics > 0 /\ "definition" \notin q.marks IN
    <<Rule("definition" \in q.marks /\ q.metrics = 0, Discovery),
      Rule(value /\ "analysis" \in q.marks, RouteTo("ANALYSIS", "PLANNING_REQUIRED", <<>>)),
      Rule(value /\ "query" \in q.marks,
           RouteTo("METRIC_QUERY", "PLANNED", IF q.metrics > 1 THEN <<"query_semantic_metrics">>
                                              ELSE <<"query_semantic_metric">>)),
      Rule(q.metrics > 0, RouteTo("METRIC_DEFINITION", "PLANNED", <<"get_metric_context">>)),
      Rule("knowledge" \in q.marks,
           RouteTo("KNOWLEDGE_QUERY", "PLANNED", <<"search_knowledge", "fetch_top_knowledge_hits">>)),
      Rule(q.datasets, RouteTo("DATASET_GOVERNANCE", "PLANNED", <<"get_dataset_context">>)),
      Rule(q.entities, RouteTo("ENTITY_CONTEXT", "PLANNED", <<"get_entity_context">>)),
      Rule(TRUE, Discovery)>>

RouteOf(q) ==
    LET rules == TargetRules(q) \o MetricRules(q)
        first == CHOOSE i \in DOMAIN rules :
                     rules[i].applies /\ \A j \in 1..(i - 1) : ~rules[j].applies IN
    IF "sql" \in q.marks THEN NoRoute ELSE rules[first].route

Routes == {RouteOf(q) : q \in Questions}

-----------------------------------------------------------------------------
(* What the tools answer with. GovernedMetadataTools of a governed name:   *)
RegistryOutcomes(tool) ==
    IF tool = "get_metric_context" THEN {"ANSWERED", "BLOCKED", "NOT_FOUND"}
    ELSE {"ANSWERED", "NOT_FOUND"}

(* Its lineage, and the run that nobody claims to know.                    *)
DatasetOutcomes(tool) ==
    IF tool = "get_lineage_context" THEN {"ANSWERED", "BLOCKED", "NOT_FOUND"}
    ELSE {"DEFERRED", "NOT_FOUND"}

(* GovernedKnowledgeTools: without an index there is nothing to search.    *)
KnowledgeOutcomes == {"ANSWERED", "DEFERRED", "NOT_FOUND"}

(* A plan that is not READY is the answer; else MetricFlow is asked, which *)
(* may be switched off, refuse, or return what does not parse.             *)
Executed(planned) == (planned \ {"READY"}) \union {"COMPLETE", "DEFERRED", "BLOCKED", "ERROR"}
ValuePlans == {"READY", "CLARIFICATION_REQUIRED", "BLOCKED"}
QueryPlans == {"READY", "CLARIFICATION_REQUIRED", "BLOCKED", "ERROR"}

ToolOutcomes(tool) ==
    CASE tool \in {"search_metadata", "get_metric_context", "get_entity_context",
                   "get_dataset_context"} -> RegistryOutcomes(tool)
      [] tool \in {"get_lineage_context", "get_runtime_context"} -> DatasetOutcomes(tool)
      [] tool \in {"search_knowledge", "fetch_knowledge"} -> KnowledgeOutcomes
      [] tool = "get_dimension_values" -> Executed(ValuePlans)
      [] OTHER -> Executed(QueryPlans)

StopsOn(tool) ==
    {"BLOCKED", "ERROR"} \union
    (IF tool = "search_metadata" THEN {} ELSE {"DEFERRED", "CLARIFICATION_REQUIRED"})

MapStatus(status, needsDiscovery) ==
    CASE status \in {"ANSWERED", "COMPLETE"} -> "COMPLETE"
      [] status = "NOT_FOUND" -> IF needsDiscovery THEN "NEEDS_DISCOVERY" ELSE "STOPPED"
      [] OTHER -> status

(* GovernedContextPlanner.plan: the sources its policy requires.           *)
RequiredSources(intent) ==
    CASE intent = "ANALYSIS" -> {"SEMANTIC", "SKILL"}
      [] intent \in {"METRIC_QUERY", "METRIC_DEFINITION", "DIMENSION_VALUE_DISCOVERY"} ->
             {"SEMANTIC"}
      [] intent \in {"LINEAGE_QUERY", "DATASET_GOVERNANCE", "ENTITY_CONTEXT",
                     "METADATA_DISCOVERY"} -> {"METADATA"}
      [] intent = "RUNTIME_DIAGNOSIS" -> {"METADATA", "RUNTIME"}
      [] intent = "KNOWLEDGE_QUERY" -> {"KNOWLEDGE"}
      [] OTHER -> {}

(* _executor_owned: what the tools of the route will read themselves.      *)
ExecutorOwned(intent) ==
    {"RUNTIME", "KNOWLEDGE"} \union (IF intent = "METADATA_DISCOVERY" THEN {"METADATA"} ELSE {})

-----------------------------------------------------------------------------
Fresh == [status |-> "none", attempt |-> 0]
NoTurn == [at |-> "idle", route |-> NoRoute, authorized |-> FALSE, context |-> "none",
         round |-> 0, todo |-> {}, decision |-> "none", step |-> 1, search |-> "none",
         final |-> "none", answer |-> "none", status |-> "none"]

TurnInit ==
    /\ turn = NoTurn
    /\ results = [u \in Ids |-> Fresh]
    /\ evidence = [u \in Ids |-> {}]
    /\ outcomes = [u \in Ids |-> <<>>]

Answer(status) == turn' = [turn EXCEPT !.at = "finalize", !.answer = status]

(* run, _run_bound: a fresh turn.                                          *)
Run(route) ==
    /\ turn.at \in {"idle", "done"}
    /\ turn' = [NoTurn EXCEPT !.route = route,
                            !.at = IF route.status = "BLOCKED" THEN "finalize" ELSE "authorize",
                            !.answer = IF route.status = "BLOCKED" THEN "BLOCKED" ELSE "none"]
    /\ results' = [u \in Ids |-> Fresh]
    /\ evidence' = [u \in Ids |-> {}]
    /\ outcomes' = [u \in Ids |-> <<>>]

Authorize(allowed) ==
    /\ turn.at = "authorize"
    /\ turn' = [turn EXCEPT !.authorized = allowed,
                            !.at = IF allowed THEN "context" ELSE "finalize",
                            !.answer = IF allowed THEN "none" ELSE "BLOCKED"]
    /\ UNCHANGED <<results, evidence, outcomes>>

(* _load_semantic: discovery without a metric binds no semantics.          *)
Unbound == turn.route.intent = "DIMENSION_VALUE_DISCOVERY" /\ turn.route.steps = <<>>

(* _load_metadata, _load_skill: what of a route may not be found.          *)
MayBeMissing(intent) == RequiredSources(intent) \ ExecutorOwned(intent)

(* _finalize: a required source is missing, or all of them are too much.   *)
ContextStatus(missing, overBudget) ==
    IF missing # {} \/ Unbound \/ overBudget THEN "BLOCKED" ELSE "READY"

LoadContext(missing, overBudget) ==
    LET status == ContextStatus(missing, overBudget) IN
    /\ turn.at = "context"
    /\ missing \subseteq MayBeMissing(turn.route.intent)
    /\ turn' = [turn EXCEPT
           !.context = status,
           !.at = IF status = "BLOCKED" THEN "finalize"
                  ELSE IF turn.route.intent = "ANALYSIS" THEN "plan" ELSE "tools",
           !.answer = IF status = "BLOCKED" THEN "BLOCKED" ELSE "none",
           !.final = IF turn.route.status = "NEEDS_DISCOVERY" THEN "NEEDS_DISCOVERY"
                     ELSE "COMPLETE"]
    /\ UNCHANGED <<results, evidence, outcomes>>

(* _map_semantic_status: the analysis' plan ends as its query's plan does. *)
PlanStatuses == {"READY", "CLARIFICATION_REQUIRED", "BLOCKED", "ERROR"}

(* GovernedAnalysisPlanner.plan, and the answer to a plan that is not READY. *)
PlanAnalysis(status) ==
    /\ turn.at = "plan"
    /\ IF status = "READY"
       THEN turn' = [turn EXCEPT !.at = "execute", !.todo = Ids]
       ELSE Answer(status)
    /\ UNCHANGED <<results, evidence, outcomes>>

-----------------------------------------------------------------------------
(* execute_with_validation                                                 *)
NextUnit == CHOOSE u \in turn.todo : \A v \in turn.todo : u <= v
Completed(u) == results[u].status = "COMPLETE"
Blocker(u) == \E d \in Units[u].depends : Units[d].required /\ ~Completed(d)
Verified(u) == {<<d, results[d].attempt>> : d \in {d \in Units[u].depends : Completed(d)}}

SkipUnit ==
    LET u == NextUnit IN
    /\ turn.at = "execute" /\ turn.todo # {} /\ Blocker(u)
    /\ results' = [results EXCEPT ![u].status = "SKIPPED"]
    /\ turn' = [turn EXCEPT !.todo = @ \ {u}]
    /\ UNCHANGED <<evidence, outcomes>>

ExecuteUnit(outcome) ==
    LET u == NextUnit
        summary == Units[u].kind = "EVIDENCE_SUMMARY"
        status == IF ~summary THEN outcome
                  ELSE IF Verified(u) = {} THEN "BLOCKED" ELSE "COMPLETE" IN
    /\ turn.at = "execute" /\ turn.todo # {} /\ ~Blocker(u)
    /\ results' = [results EXCEPT ![u] = [status |-> status, attempt |-> @.attempt + 1]]
    /\ evidence' = IF summary THEN [evidence EXCEPT ![u] = Verified(u)] ELSE evidence
    /\ outcomes' = [outcomes EXCEPT ![u] = Append(@, status)]
    /\ turn' = [turn EXCEPT !.todo = @ \ {u}]

ExecutionStatus ==
    LET failed == {results[u].status : u \in {u \in Required : ~Completed(u)}} IN
    IF failed = {} THEN (IF \A u \in Ids : Completed(u) THEN "COMPLETE" ELSE "PARTIAL")
    ELSE IF "BLOCKED" \in failed THEN "BLOCKED"
    ELSE IF "DEFERRED" \in failed THEN "DEFERRED" ELSE "ERROR"

(* _depends_on_any: the units that u depends on, directly or not.          *)
Upstream[u \in Ids] ==
    Units[u].depends \union UNION {Upstream[d] : d \in Units[u].depends}

Retryable == {u \in Required : results[u].status = "ERROR"}

Decision(budget) ==
    LET behind == {u \in Required : /\ results[u].status = "SKIPPED" /\ budget > 0
                                    /\ Upstream[u] \intersect Retryable # {}}
        errors == {u \in Required : ~Completed(u)} \ behind IN
    IF errors \ Retryable # {} THEN "BLOCKED"
    ELSE IF errors # {} THEN (IF budget > 0 THEN "RETRY" ELSE "BLOCKED")
    ELSE "PASS"

(* Slip: the units that failed, without those that waited for them.        *)
ExpandSeedsOnly(seeds) == seeds
(* _expand_dependents: with all that depend on them, directly or not.      *)
Closed(ids) == \A u \in Ids : Units[u].depends \intersect ids # {} => u \in ids
ExpandDependents(seeds) ==
    {u \in Ids : \A ids \in SUBSET Ids : seeds \subseteq ids /\ Closed(ids) => u \in ids}

(* Slip: a retry runs every unit again.                                    *)
RerunAll(seeds) == Ids
Rerun(seeds) == ExpandDependents(seeds)

AnalysisStatus(status) == IF status = "COMPLETE" THEN "ANSWERED" ELSE status

(* compose_analysis: what did not pass is no answer.                       *)
ComposeAnalysis(decision) ==
    IF decision = "BLOCKED" THEN "BLOCKED" ELSE AnalysisStatus(ExecutionStatus)

ValidateRound ==
    LET decision == Decision(TurnRetries - turn.round) IN
    /\ turn.at = "execute" /\ turn.todo = {}
    /\ turn' = IF decision = "RETRY"
               THEN [turn EXCEPT !.decision = decision, !.round = @ + 1,
                                 !.todo = Rerun(Retryable)]
               ELSE [turn EXCEPT !.decision = decision, !.at = "finalize",
                                 !.answer = ComposeAnalysis(decision)]
    /\ UNCHANGED <<results, evidence, outcomes>>

-----------------------------------------------------------------------------
(* GovernedPlanExecutor.execute: the tool steps of the route, in order.    *)
Tool == turn.route.steps[turn.step]

CallTool(status) ==
    LET final == MapStatus(status, turn.route.status = "NEEDS_DISCOVERY") IN
    /\ turn.at = "tools" /\ turn.step <= Len(turn.route.steps)
    /\ Tool # "fetch_top_knowledge_hits"
    /\ status \in ToolOutcomes(Tool)
    /\ turn' = [turn EXCEPT !.final = final,
                            !.search = IF Tool = "search_knowledge" THEN status ELSE @,
                            !.step = IF status \in StopsOn(Tool) THEN Len(turn.route.steps) + 1
                                     ELSE @ + 1]
    /\ UNCHANGED <<results, evidence, outcomes>>

(* The hits of the search, fetched one by one: the last one's status is    *)
(* the step's; no hit ("none") leaves nothing to answer with.              *)
FetchHits(fetched) ==
    /\ turn.at = "tools" /\ turn.step <= Len(turn.route.steps)
    /\ Tool = "fetch_top_knowledge_hits"
    /\ (fetched = "none") <=> (turn.search # "ANSWERED")
    /\ turn' = [turn EXCEPT !.step = @ + 1,
                            !.final = IF fetched = "none" THEN "STOPPED"
                                      ELSE MapStatus(fetched, FALSE)]
    /\ UNCHANGED <<results, evidence, outcomes>>

(* GovernedResponseComposer.compose: the answer's status.                  *)
ToolAnswer(final) ==
    CASE final = "COMPLETE" -> IF turn.route.status = "NEEDS_DISCOVERY" THEN "NEEDS_DISCOVERY"
                               ELSE "ANSWERED"
      [] final = "STOPPED" -> "PARTIAL"
      [] OTHER -> final

ComposeTools ==
    /\ turn.at = "tools" /\ turn.step > Len(turn.route.steps)
    /\ Answer(ToolAnswer(turn.final))
    /\ UNCHANGED <<results, evidence, outcomes>>

(* _finalize: the draft is returned only when the validator accepts it.    *)
Finalize(accepted) ==
    /\ turn.at = "finalize"
    /\ turn' = [turn EXCEPT !.at = "done", !.status = IF accepted THEN turn.answer ELSE "ERROR"]
    /\ UNCHANGED <<results, evidence, outcomes>>

TurnNext ==
    \/ \E route \in Routes : Run(route)
    \/ \E b \in BOOLEAN : Authorize(b) \/ Finalize(b)
    \/ \E missing \in SUBSET {"SEMANTIC", "METADATA", "SKILL"}, b \in BOOLEAN :
           LoadContext(missing, b)
    \/ \E status \in PlanStatuses : PlanAnalysis(status)
    \/ SkipUnit
    \/ \E outcome \in {"COMPLETE", "DEFERRED", "BLOCKED", "ERROR"} : ExecuteUnit(outcome)
    \/ ValidateRound
    \/ \E status \in {"ANSWERED", "COMPLETE", "DEFERRED", "BLOCKED", "ERROR", "NOT_FOUND",
                      "CLARIFICATION_REQUIRED"} : CallTool(status)
    \/ \E fetched \in ToolOutcomes("fetch_knowledge") \union {"none"} : FetchHits(fetched)
    \/ ComposeTools

TurnSpec == TurnInit /\ [][TurnNext]_turnVars

-----------------------------------------------------------------------------
AnswerStatuses == {"ANSWERED", "PARTIAL", "DEFERRED", "BLOCKED", "ERROR", "NEEDS_DISCOVERY",
             "CLARIFICATION_REQUIRED"}

(* Type correctness.                                                       *)
TurnTypeOK ==
    /\ turn.at \in {"idle", "authorize", "context", "plan", "execute", "tools", "finalize",
                    "done"}
    /\ turn.route \in Routes
    /\ turn.round \in 0..TurnRetries
    /\ turn.todo \subseteq Ids
    /\ {turn.answer, turn.status} \subseteq AnswerStatuses \union {"none"}
    /\ \A u \in Ids :
           /\ results[u].status \in {"none", "COMPLETE", "DEFERRED", "BLOCKED", "ERROR", "SKIPPED"}
           /\ results[u].attempt = Len(outcomes[u])
           /\ results[u].attempt <= TurnRetries + 1
           /\ evidence[u] \subseteq Ids \X (1..(TurnRetries + 1))

(* A plan that takes what an optional unit needs as needed by all that use *)
(* it. Without it a unit may complete over an optional unit that waits for *)
(* a retry, and is executed again, complete as it is.                      *)
Transparent ==
    \A u \in Ids : \A d \in Units[u].depends :
        d \notin Required => Units[d].depends \intersect Required \subseteq Units[u].depends

(* Only an error is executed again: a unit that completed, was deferred or *)
(* blocked keeps its result, however many rounds the others take.          *)
OnlyErrorsAreRetried ==
    \A u \in Ids : \A i \in 1..Len(outcomes[u]) - 1 : outcomes[u][i] = "ERROR"

(* An analysis is answered only with every required unit complete, from a  *)
(* summary of exactly the evidence of the results that are reported, and   *)
(* as partial just when an optional unit is missing; it is given up only   *)
(* over a failure of a unit's own, never over a unit that was not tried.   *)
AnalysisOutcomeIsBacked ==
    (turn.at \in {"finalize", "done"} /\ turn.decision # "none") =>
        CASE turn.decision = "PASS" ->
                 /\ turn.authorized /\ turn.context = "READY"
                 /\ \A u \in Required : Completed(u)
                 /\ \A u \in Ids : Units[u].kind = "EVIDENCE_SUMMARY" => evidence[u] = Verified(u)
                 /\ turn.answer = IF \A u \in Ids : Completed(u) THEN "ANSWERED" ELSE "PARTIAL"
          [] turn.decision = "BLOCKED" ->
                 /\ turn.answer = "BLOCKED"
                 /\ \E u \in Required : results[u].status \in {"DEFERRED", "BLOCKED", "ERROR"}
          [] OTHER -> FALSE
=============================================================================
