---------------------------- MODULE AnalysisPlanner ----------------------------
(***************************************************************************)
(* The units a skill compiles to (GovernedAnalysisPlanner.plan,            *)
(* agent/analysis_planner): each step of the skill adds the units of its   *)
(* action, which depend on units before them. A step is a record           *)
(* [action, n], n the dimensions of a breakdown.                           *)
(***************************************************************************)
EXTENDS Integers, Sequences
LOCAL INSTANCE SequencesExt

Unit(kind, required, depends) == [kind |-> kind, required |-> required, depends |-> depends]
First(n) == IF n = 0 THEN {} ELSE {1}

CompileStep(units, step) ==
    LET n == Len(units) IN
    CASE step.action = "compare_target_metric" -> <<Unit("TIME_COMPARISON", TRUE, {})>>
      [] step.action = "compare_companion_metrics" ->
             <<Unit("TIME_COMPARISON", TRUE, IF n = 0 THEN {} ELSE {n})>>
      [] step.action = "breakdown_by_dimensions" ->
             [d \in 1..step.n |-> Unit("BREAKDOWN", TRUE, First(n + d - 1))]
      [] step.action = "compare_optional_metrics" ->
             <<Unit("TIME_COMPARISON", FALSE, First(n))>>
      [] step.action = "summarize_ranked_drivers" ->
             <<Unit("EVIDENCE_SUMMARY", TRUE, 1..n)>>

Compile(skill) == FoldLeft(LAMBDA units, step : units \o CompileStep(units, step), <<>>, skill)
=============================================================================
