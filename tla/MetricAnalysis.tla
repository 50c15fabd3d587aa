---------------------------- MODULE MetricAnalysis ----------------------------
(***************************************************************************)
(* The agent's analyses of one governed metric, each a script of MetricFlow *)
(* queries that run one after the other while the pipeline writes:         *)
(*  - the comparison of two windows (agent/time_context/comparison.py),    *)
(*  - the comparative breakdown by a dimension, ranked or with shares      *)
(*    (agent/breakdown_analysis/analysis.py),                              *)
(*  - the diagnosis of an anomaly: health of the partitions, median        *)
(*    baseline, driver attribution (agent/diagnostic/orchestrator.py,      *)
(*    agent/anomaly_analysis, agent/driver_attribution).                   *)
(*                                                                         *)
(* A mart holds values of cells per business day; a lens maps the cells to *)
(* the members of a dimension, lens 0 is the aggregate over all of them.   *)
(***************************************************************************)
EXTENDS Integers, Sequences, FiniteSets, FiniteSetsExt

CONSTANTS Days,             \* the last business day (bound)
          Cells, Lenses,    \* the members of the cells, one function per dimension
          Tables,           \* what a daily run may write for a day
          Periods,          \* baseline.periods, odd
          WarningPercent,   \* thresholds.default.warning_relative_percent
          MemberLimit,      \* limits.max_members_per_dimension
          MaxRanked,        \* limits.max_ranked_members_per_dimension
          MaxWindow,        \* limits.max_window_days
          MaxBack,          \* how far back a comparison looks (bound)
          MaxCommits        \* writes beside the analysis (bound)

ASSUME AnalysisAssumption ==
    /\ {Days, Periods, WarningPercent, MemberLimit, MaxRanked, MaxWindow} \subseteq Nat \ {0}
    /\ Periods % 2 = 1 /\ MaxCommits \in Nat /\ MaxBack \in 1..Periods
    /\ Lenses \in Seq([Cells -> Nat \ {0}]) /\ Len(Lenses) > 0
    /\ IsFiniteSet(Cells) /\ \A t \in Tables : \A c \in DOMAIN t : c \in Cells /\ t[c] \in Int

VARIABLES
    now,        \* the days before it are overdue, the ones after it have no data
    mart,       \* the metric's mart: the values of each day's cells
    complete,   \* the days of which all marts are materialized
    commits,
    job         \* the analysis under way

pipeline == <<now, mart, complete, commits>>
vars == <<pipeline, job>>

Modes == {"COMPARE", "TOP_ABSOLUTE_CHANGE", "TOP_GROWTH_RATE", "CONTRIBUTION"}
Failures == {"DEFERRED", "BLOCKED", "ERROR"}

NoAnswer == [status |-> "NONE", current |-> 0, reference |-> 0, lenses |-> <<>>]
NoJob == [kind |-> "none", mode |-> "COMPARE", at |-> "idle", additive |-> TRUE,
          first |-> 1, last |-> 1, overdue |-> {}, todo |-> {}, missing |-> {},
          health |-> "UNKNOWN", script |-> <<>>, results |-> <<>>,
          early |-> FALSE, answer |-> NoAnswer]

-----------------------------------------------------------------------------
(* The window of the request, shifted back by whole windows.               *)
Window(back) ==
    LET span == job.last - job.first + 1 IN
    (job.first - back * span)..(job.last - back * span)

Query(back, lens) == [back |-> back, lens |-> lens]
Member(lens, cell) == IF lens = 0 THEN 1 ELSE Lenses[lens][cell]

Total(rows) == MapThenSumSet(LAMBDA g : rows[g], DOMAIN rows)

(* The rows of a query as the mart is now; an additive metric is a sum, of *)
(* the others only matters that they are not.                              *)
Rows(q) ==
    LET entries == {e \in (Window(q.back) \intersect 1..Days) \X Cells : e[2] \in DOMAIN mart[e[1]]}
        of(g) == {e \in entries : Member(q.lens, e[2]) = g}
        value(e) == mart[e[1]][e[2]] IN
    [g \in {Member(q.lens, e[2]) : e \in entries} |->
        IF job.additive THEN Total([e \in of(g) |-> value(e)]) ELSE Max({value(e) : e \in of(g)})]

Result(q, status, rows) == [q |-> q, status |-> status, rows |-> rows]
Complete(r) == r.status = "COMPLETE"
AllComplete(results) == \A i \in DOMAIN results : Complete(results[i])
LastStatus == job.results[Len(job.results)].status

(* _single_metric_value: one row, with a number.                           *)
HasValue(r) == 1 \in DOMAIN r.rows
Value(r) == r.rows[1]

Median(values) ==
    LET below(v) == Cardinality({i \in DOMAIN values : values[i] < v})
        upTo(v)  == Cardinality({i \in DOMAIN values : values[i] <= v}) IN
    values[CHOOSE i \in DOMAIN values :
              /\ 2 * below(values[i]) < Len(values) /\ 2 * upTo(values[i]) > Len(values)
              /\ \A j \in 1..(i - 1) : values[j] # values[i]]

Abs(n) == IF n < 0 THEN -n ELSE n

-----------------------------------------------------------------------------
(* Members of two windows side by side: of an additive metric a missing    *)
(* row is a zero, of another one the change is undefined.                  *)
Side(rows, g) == IF g \in DOMAIN rows THEN rows[g] ELSE 0
Changes(current, reference) ==
    LET members == IF job.additive THEN DOMAIN current \union DOMAIN reference
                   ELSE DOMAIN current \intersect DOMAIN reference IN
    [g \in members |-> Side(current, g) - Side(reference, g)]

CapReached(current, reference) ==
    Cardinality(DOMAIN current) >= MemberLimit \/ Cardinality(DOMAIN reference) >= MemberLimit

(* The MaxRanked first members, by change in the direction of sign.        *)
Ranked(changes, sign) ==
    LET before(h, g) == sign * changes[h] > sign * changes[g]
                        \/ (changes[h] = changes[g] /\ h < g) IN
    {g \in DOMAIN changes : Cardinality({h \in DOMAIN changes : before(h, g)}) < MaxRanked}

(* The MaxRanked first members by growth rate, where it is defined.        *)
RankedByGrowth(changes, reference) ==
    LET eligible == {g \in DOMAIN changes : Side(reference, g) # 0}
        before(h, g) == LET a == changes[h] * reference[g]  b == changes[g] * reference[h] IN
                        a > b \/ (a = b /\ h < g) IN
    {g \in eligible : Cardinality({h \in eligible : before(h, g)}) < MaxRanked}

LensResult(status, changes, ranked) == [status |-> status, changes |-> changes, ranked |-> ranked]
LensFailed(status) == LensResult(status, <<>>, {})

-----------------------------------------------------------------------------
(* The pipeline: a daily run, or a correction of one, overwrites its day   *)
(* in the metric's mart; the day is complete when every mart has it.       *)
Init ==
    /\ now = Days
    /\ \E tables \in [1..(Days - 1) -> Tables] :
          mart = [d \in 1..Days |-> IF d < Days THEN tables[d] ELSE <<>>]
    /\ complete = 1..(Days - 1)
    /\ commits = 0
    /\ job = NoJob

DeadlinePasses == now = Days /\ now' = Days + 1 /\ UNCHANGED <<mart, complete, commits, job>>

CommitMart(d) ==
    /\ commits < MaxCommits
    /\ commits' = commits + 1
    /\ \E t \in Tables : mart' = [mart EXCEPT ![d] = t]
    /\ UNCHANGED <<now, complete, job>>

AllMartsMaterialized(d) ==
    /\ mart[d] # <<>>
    /\ complete' = complete \union {d}
    /\ UNCHANGED <<now, mart, commits, job>>

-----------------------------------------------------------------------------
Start(kind) ==
    /\ job.kind = "none"
    /\ \E last \in 1..Days : \E first \in (last - MaxWindow + 1)..last : \E additive \in BOOLEAN :
          /\ first >= 1
          /\ job' = [NoJob EXCEPT !.kind = kind, !.first = first, !.last = last, !.additive = additive]
    /\ UNCHANGED pipeline

(* snapshot: the time is taken once, ...                                   *)
StartDiagnosis ==
    /\ job.kind = "diagnosis" /\ job.at = "idle"
    /\ job' = [job EXCEPT !.at = "health", !.todo = job.first..job.last,
                          !.overdue = {d \in job.first..job.last : d < now}]
    /\ UNCHANGED pipeline

(* ... then the partitions are inspected day by day.                       *)
InspectDay ==
    /\ job.at = "health" /\ job.todo # {}
    /\ LET d == Min(job.todo) IN
       job' = [job EXCEPT !.todo = @ \ {d}, !.missing = IF d \in complete THEN @ ELSE @ \union {d}]
    /\ UNCHANGED pipeline

(* Slip: a partition that is not due yet is no reason to doubt.            *)
HealthWhenDue == IF job.missing \intersect job.overdue # {} THEN "UNHEALTHY" ELSE "HEALTHY"

Health ==
    IF job.missing \intersect job.overdue # {} THEN "UNHEALTHY"
    ELSE IF job.missing # {} THEN "UNKNOWN" ELSE "HEALTHY"

(* The health is known, or Dagster could not be read: the aggregate of the *)
(* window and of its baselines come next.                                  *)
PlanAnomaly ==
    /\ job.at = "health"
    /\ \E health \in (IF job.todo = {} THEN {Health} ELSE {"UNKNOWN"}) :
          job' = [job EXCEPT !.at = "anomaly", !.todo = {}, !.missing = {}, !.health = health,
                             !.script = [i \in 1..(Periods + 1) |-> Query(i - 1, 0)]]
    /\ UNCHANGED pipeline

PlanComparison ==
    /\ job.kind = "comparison" /\ job.at = "idle"
    /\ \E back \in 1..MaxBack :
          job' = [job EXCEPT !.at = "compare", !.script = <<Query(0, 0), Query(back, 0)>>]
    /\ UNCHANGED pipeline

PlanBreakdown ==
    /\ job.kind = "breakdown" /\ job.at = "idle"
    /\ \E mode \in Modes : \E back \in 1..MaxBack : \E lens \in DOMAIN Lenses :
          job' = IF mode = "CONTRIBUTION" /\ ~job.additive
                 THEN [job EXCEPT !.mode = mode, !.at = "done",
                                  !.answer.status = "CLARIFICATION_REQUIRED"]
                 ELSE [job EXCEPT !.mode = mode, !.at = "breakdown",
                                  !.script = <<Query(0, lens), Query(back, lens)>>]
    /\ UNCHANGED pipeline

(* One query of the script.                                                *)
RunQuery ==
    /\ job.script # <<>>
    /\ LET q == Head(job.script) IN
       job' = [job EXCEPT !.script = Tail(@),
                          !.results = Append(@, Result(q, "COMPLETE", Rows(q))),
                          !.early = @ \/ (q.back = 0 /\ ~(Window(0) \subseteq complete))]
    /\ UNCHANGED pipeline

(* The script from its next query of another lens on.                      *)
NextLens(lens) ==
    LET others == {i \in DOMAIN job.script : job.script[i].lens # lens} IN
    IF others = {} THEN <<>> ELSE SubSeq(job.script, Min(others), Len(job.script))

(* It fails, or its rows cannot be read (no column of the dimension, a     *)
(* member twice): what shares its windows or its lens is not asked.        *)
QueryFails ==
    /\ job.script # <<>>
    /\ LET q == Head(job.script) IN
       \E status \in Failures :
          job' = [job EXCEPT !.script = NextLens(q.lens),
                             !.results = Append(@, Result(q, status, <<>>))]
    /\ UNCHANGED pipeline

Answered(status) == [job EXCEPT !.at = "done", !.results = <<>>, !.answer.status = status]

-----------------------------------------------------------------------------
(* detect, and the branches of GovernedDiagnosticOrchestrator.execute.     *)
Severity(current, baseline) ==
    CASE baseline = 0 /\ current = 0 -> "NORMAL"
      [] baseline = 0 /\ current # 0 -> "UNRESOLVED"
      [] OTHER -> IF 100 * Abs(current - baseline) >= WarningPercent * Abs(baseline)
                  THEN "WARNING" ELSE "NORMAL"

LensScript(reference) ==
    [i \in 1..(2 * Len(Lenses)) |-> Query(IF i % 2 = 1 THEN 0 ELSE reference, (i + 1) \div 2)]

(* _cause_class: whose signal it is, the business's or the pipeline's.     *)
CauseClass(severity) ==
    CASE severity = "NORMAL" -> "NO_ANOMALY"
      [] severity = "WARNING" /\ job.health = "UNHEALTHY" -> "DATA_PIPELINE_SUSPECTED"
      [] severity = "WARNING" /\ job.health = "HEALTHY" -> "BUSINESS_SIGNAL_SUSPECTED"
      [] OTHER -> "UNRESOLVED"

(* The first window of the baseline that has the median.                   *)
ReferenceWindow(values, baseline) ==
    CHOOSE i \in DOMAIN values : values[i] = baseline /\ \A j \in 1..(i - 1) : values[j] # baseline

JudgeAnomaly ==
    LET values   == [i \in 1..(Len(job.results) - 1) |-> Value(job.results[i + 1])]
        current  == Value(job.results[1])
        baseline == Median(values)
        cause    == CauseClass(Severity(current, baseline)) IN
    /\ job.at = "anomaly" /\ job.script = <<>>
    /\ job' = CASE ~AllComplete(job.results) -> Answered(LastStatus)
                [] AllComplete(job.results) /\ \E i \in DOMAIN job.results : ~HasValue(job.results[i])
                   -> Answered("ERROR")
                [] OTHER ->
                   CASE cause = "NO_ANOMALY" -> Answered("NORMAL")
                     [] cause = "BUSINESS_SIGNAL_SUSPECTED"
                        -> [job EXCEPT !.at = "lenses", !.results = <<>>,
                                       !.script = LensScript(ReferenceWindow(values, baseline)),
                                       !.answer.current = current, !.answer.reference = baseline]
                     [] OTHER -> Answered(cause)
    /\ UNCHANGED pipeline

(* Slip: the members' values are taken as they come.                       *)
ReconciledAlways(current, reference) == TRUE

(* _reconcile_additive: both windows still add up to the aggregates.       *)
Reconciled(current, reference) ==
    job.additive => /\ Total(current) = job.answer.current
                    /\ Total(reference) = job.answer.reference

(* The last query of a lens is the second one, or the one that failed.     *)
Lens(l) ==
    LET mine      == {i \in DOMAIN job.results : job.results[i].q.lens = l}
        last      == job.results[Max(mine)]
        current   == job.results[Min(mine)].rows
        reference == last.rows
        changes   == Changes(current, reference)
        sign      == IF job.answer.current > job.answer.reference THEN 1 ELSE -1 IN
    CASE ~Complete(last) -> LensFailed(last.status)
      [] OTHER ->
         IF CapReached(current, reference) \/ ~Reconciled(current, reference)
            \/ Ranked(changes, sign) = {}
         THEN LensFailed("ERROR")
         ELSE LensResult("COMPLETE", changes, Ranked(changes, sign))

AttributeDrivers ==
    LET lenses == [l \in DOMAIN Lenses |-> Lens(l)] IN
    /\ job.at = "lenses" /\ job.script = <<>>
    /\ job' = [Answered(IF AllComplete(lenses) THEN "BUSINESS_DRIVERS_IDENTIFIED" ELSE "PARTIAL")
                  EXCEPT !.answer.lenses = lenses]
    /\ UNCHANGED pipeline

-----------------------------------------------------------------------------
Compare ==
    /\ job.at = "compare" /\ job.script = <<>>
    /\ job' = CASE ~AllComplete(job.results) -> Answered(LastStatus)
                [] AllComplete(job.results) /\ ~(HasValue(job.results[1]) /\ HasValue(job.results[2]))
                   -> Answered("ERROR")
                [] OTHER -> [Answered("COMPLETE") EXCEPT !.answer.current = Value(job.results[1]),
                                                         !.answer.reference = Value(job.results[2])]
    /\ UNCHANGED pipeline

(* execute of a breakdown: the rows, unless shares need the aggregates of  *)
(* both windows first.                                                     *)
Breakdown ==
    LET current   == job.results[1].rows
        reference == job.results[2].rows
        changes   == Changes(current, reference)
        ranked    == CASE job.mode = "TOP_ABSOLUTE_CHANGE" -> Ranked(changes, 1)
                       [] job.mode = "TOP_GROWTH_RATE" -> RankedByGrowth(changes, reference)
                       [] OTHER -> DOMAIN changes
        found     == <<LensResult("COMPLETE", changes, ranked)>> IN
    /\ job.at = "breakdown" /\ job.script = <<>>
    /\ job' = IF ~AllComplete(job.results) THEN Answered(LastStatus)
              ELSE IF CapReached(current, reference) THEN Answered("BLOCKED")
              ELSE IF job.mode = "CONTRIBUTION"
              THEN [job EXCEPT !.at = "totals", !.results = <<>>, !.answer.lenses = found,
                               !.script = <<Query(0, 0), Query(job.results[2].q.back, 0)>>]
              ELSE [Answered("COMPLETE") EXCEPT !.answer.lenses = found]
    /\ UNCHANGED pipeline

(* _apply_contribution: the members' changes add up to the aggregate's.    *)
Contribute ==
    LET refused(status) == [Answered(status) EXCEPT !.answer.lenses = <<>>]
        current == Value(job.results[1])  reference == Value(job.results[2]) IN
    /\ job.at = "totals" /\ job.script = <<>>
    /\ job' = IF ~AllComplete(job.results) THEN refused(LastStatus)
              ELSE IF ~(HasValue(job.results[1]) /\ HasValue(job.results[2])) THEN refused("ERROR")
              ELSE IF Total(job.answer.lenses[1].changes) # current - reference THEN refused("ERROR")
              ELSE [Answered("COMPLETE") EXCEPT !.answer.current = current,
                                                !.answer.reference = reference]
    /\ UNCHANGED pipeline

AnalysisStep ==
    \/ \E kind \in {"diagnosis", "comparison", "breakdown"} : Start(kind)
    \/ StartDiagnosis \/ InspectDay \/ PlanAnomaly \/ JudgeAnomaly \/ AttributeDrivers
    \/ PlanComparison \/ Compare
    \/ PlanBreakdown \/ Breakdown \/ Contribute
    \/ RunQuery \/ QueryFails

Next ==
    \/ DeadlinePasses
    \/ \E d \in 1..Days : CommitMart(d) \/ AllMartsMaterialized(d)
    \/ AnalysisStep

Spec == Init /\ [][Next]_vars

-----------------------------------------------------------------------------
Statuses == {"NONE", "NORMAL", "BUSINESS_DRIVERS_IDENTIFIED", "DATA_PIPELINE_SUSPECTED", "UNRESOLVED",
             "PARTIAL", "COMPLETE", "CLARIFICATION_REQUIRED"} \union Failures

TypeOK ==
    /\ now \in {Days, Days + 1} /\ complete \subseteq 1..Days /\ commits \in 0..MaxCommits
    /\ mart \in [1..Days -> Tables \union {<<>>}]
    /\ job.at \in {"idle", "health", "anomaly", "lenses", "compare", "breakdown", "totals", "done"}
    /\ job.health \in {"HEALTHY", "UNHEALTHY", "UNKNOWN"}
    /\ job.answer.status \in Statuses /\ (job.at = "done") = (job.answer.status # "NONE")

(* The health is read before the first query and the pipeline goes on      *)
(* writing: still, business drivers are only ever named, in whole or in    *)
(* part, from queries of the window that read complete days.               *)
NoDriversOfIncompleteDays ==
    job.answer.status \in {"BUSINESS_DRIVERS_IDENTIFIED", "PARTIAL"} => ~job.early

(* Four queries at four moments: what the members of an additive metric    *)
(* are said to contribute adds up to the change that is reported, however  *)
(* the marts were rewritten between the queries.                           *)
ContributionsAddUp ==
    job.at = "done" /\ job.additive
        /\ (job.kind = "diagnosis" \/ job.mode = "CONTRIBUTION")
    => \A l \in DOMAIN job.answer.lenses :
          Complete(job.answer.lenses[l]) =>
             Total(job.answer.lenses[l].changes) = job.answer.current - job.answer.reference

-----------------------------------------------------------------------------
(* The inductive invariant behind TypeOK and NoDriversOfIncompleteDays.    *)
Drivers == {"BUSINESS_DRIVERS_IDENTIFIED", "PARTIAL"}

AreResults(results) ==
    /\ results \in Seq({results[i] : i \in DOMAIN results})
    /\ \A i \in DOMAIN results : results[i].status \in Failures \union {"COMPLETE"}

(* The rows and lenses of a job may be anything here.                      *)
JobInv ==
    /\ job = [kind |-> job.kind, mode |-> job.mode, at |-> job.at, additive |-> job.additive,
              first |-> job.first, last |-> job.last, overdue |-> job.overdue, todo |-> job.todo,
              missing |-> job.missing, health |-> job.health, script |-> job.script,
              results |-> job.results, early |-> job.early, answer |-> job.answer]
    /\ job.answer = [status |-> job.answer.status, current |-> job.answer.current,
                     reference |-> job.answer.reference, lenses |-> job.answer.lenses]
    /\ job.first \in Int /\ job.last \in Int /\ job.early \in BOOLEAN
    /\ AreResults(job.results)

(* Up to the verdict on the health no query has been asked and every day   *)
(* was or will be inspected; what was complete then stays complete, so no  *)
(* query of a healthy window reads an incomplete day; and only a diagnosis *)
(* of a healthy window comes to the lenses.                                *)
HealthInv ==
    /\ job.at \in {"idle", "health", "done"} => job.script = <<>>
    /\ job.at \in {"idle", "health"} => ~job.early
    /\ job.at = "idle" => job.missing = {}
    /\ job.at = "health" => job.first..job.last \subseteq job.todo \union job.missing \union complete
    /\ job.at \in {"anomaly", "lenses"} /\ job.health = "HEALTHY"
          => job.first..job.last \subseteq complete /\ ~job.early
    /\ job.at = "lenses" => job.health = "HEALTHY"
    /\ job.at # "done" => job.answer.status = "NONE"

-----------------------------------------------------------------------------
(* What more is behind ContributionsAddUp: rows of an additive metric are  *)
(* tables of numbers; each lens has a query left to run or a result; and   *)
(* the lenses of an answer come from the two steps that fill them.         *)
IsTable(rows) == IsFiniteSet(DOMAIN rows) /\ \A g \in DOMAIN rows : rows[g] \in Int

IsSequence(s) == s \in Seq({s[i] : i \in DOMAIN s})

ContributionInv ==
    /\ IsSequence(job.script)
    /\ job.additive => \A i \in DOMAIN job.results : IsTable(job.results[i].rows)
    /\ job.at = "lenses" => \A l \in DOMAIN Lenses :
          \/ \E i \in DOMAIN job.script : job.script[i].lens = l
          \/ \E i \in DOMAIN job.results : job.results[i].q.lens = l
    /\ job.at \notin {"totals", "done"} => job.answer.lenses = <<>>
    /\ job.at = "totals" => DOMAIN job.answer.lenses = {1}
    /\ job.at = "breakdown" => job.kind = "breakdown"
    /\ ContributionsAddUp
=============================================================================
