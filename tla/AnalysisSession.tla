--------------------------- MODULE AnalysisSession ---------------------------
(***************************************************************************)
(* Conversations over one governed query: a clarification that is resumed  *)
(* (agent/clarification), and the analysis session whose follow-ups apply  *)
(* one delta each to a frozen query (agent/analysis_session).              *)
(*                                                                         *)
(* Both states travel through the client, guarded by a checksum, which is  *)
(* modelled as the copy of what it was computed over. A follow-up depends  *)
(* on the state it is given and on no other, so that following one state   *)
(* from every state it can reach covers clients that keep several.         *)
(***************************************************************************)
EXTENDS Integers, Sequences, FiniteSets, Functions

CONSTANTS Metrics, Additive, Spans,
          Filters,        \* the values a dimension may be filtered by: pairs
          MaxTurns,       \* limits.max_turns
          MaxMetrics,     \* limits.max_metrics, of the session and of the planner
          MaxFilters,     \* limits.max_filters, of the session and of the planner
          MaxComparisonWindow  \* limits.max_comparison_window_days

ASSUME SessionAssumption ==
    /\ {MaxTurns, MaxMetrics, MaxFilters, MaxComparisonWindow} \subseteq Nat \ {0}
    /\ \A f \in Filters : f = <<f[1], f[2]>>

VARIABLES
    clarification,  \* the ClarificationContinuation the client holds, or NoClarification
    session,        \* the AnalysisSessionState the client holds, or NoSession
    result          \* the status of the last call

sessionVars == <<clarification, session, result>>

Dimensions == {f[1] : f \in Filters}
Kinds == {"noop", "add_metric", "add_filter", "replace_filter", "remove_filter", "set_comparison",
          "clear_comparison", "compute_comparison", "rank_breakdown", "contribution_analysis"}
ComparisonModes == {"PREVIOUS_PERIOD", "YEAR_OVER_YEAR"}

NoSpec == [metrics |-> <<>>, filters |-> <<>>, groups |-> 0, span |-> 0]
NoSession == [spec |-> NoSpec, origin |-> NoSpec, comparison |-> <<>>, turns |-> 0,
              history |-> <<>>, checksum |-> <<>>]
NoClarification == [base |-> NoSpec, candidates |-> <<>>, checksum |-> <<>>]

Has(filters, dim) == \E i \in DOMAIN filters : filters[i][1] = dim

-----------------------------------------------------------------------------
(* GovernedSemanticQueryPlanner.plan_metrics: the specs it calls READY,    *)
(* with one value for each dimension that is filtered.                     *)
StructuredFilters ==
    {f \in UNION {[1..n -> Filters] : n \in 0..MaxFilters} :
        \A i, j \in DOMAIN f : f[i][1] = f[j][1] => i = j}
Specs ==
    [metrics : {<<x>> : x \in Metrics}, filters : StructuredFilters, groups : 0..2, span : Spans]

(* _fingerprint of the session, and the continuation's payload.            *)
Fingerprint(s) == <<s.origin, s.spec, s.turns, s.history, s.comparison>>
Sealed(s) == [s EXCEPT !.checksum = Fingerprint(s)]
Frozen(c) == [c EXCEPT !.checksum = <<c.base, c.candidates>>]

SessionInit == clarification = NoClarification /\ session = NoSession /\ result = "none"

(* prepare: a value that the planner could not place is frozen with the    *)
(* candidates for it.                                                      *)
Prepare(base, candidates) ==
    /\ candidates # <<>>
    /\ clarification' = Frozen([NoClarification EXCEPT !.base = base, !.candidates = candidates])
    /\ result' = "CLARIFICATION_REQUIRED"
    /\ UNCHANGED session

(* start: revision 1 of a READY plan.                                      *)
Turn(kind, about) == [kind |-> kind, about |-> about]
StartSession(spec) ==
    session' = Sealed([NoSession EXCEPT !.spec = spec, !.origin = spec, !.turns = 1,
                                        !.history = <<Turn("noop", <<>>)>>])

Ask(spec) ==
    /\ StartSession(spec)
    /\ result' = "READY"
    /\ UNCHANGED clarification

(* _select_candidate: a plain yes chooses only a single candidate; a value *)
(* or a dimension must name one of them.                                   *)
Selected(reply) ==
    LET c == clarification.candidates
        named == IF reply.by = "value" THEN {i \in DOMAIN c : c[i][2] = reply.what}
                 ELSE {i \in DOMAIN c : c[i][1] = reply.what} IN
    CASE reply.by = "affirm"  -> IF Len(c) = 1 THEN {1} ELSE {}
      [] reply.by = "ordinal" -> {reply.what} \intersect DOMAIN c
      [] OTHER                -> IF Cardinality(named) = 1 THEN named ELSE {}

Replies ==
    {[by |-> "affirm", what |-> 0]} \union {[by |-> "ordinal", what |-> i] : i \in 1..2}
    \union {[by |-> "value", what |-> v] : v \in {f[2] : f \in Filters}}
    \union {[by |-> "dimension", what |-> d] : d \in Dimensions}

(* resume and _build_ready_plan: a confirmed candidate joins the filters   *)
(* within their limit, and never beside a filter of its dimension. A       *)
(* client that resumes once more starts another session.                   *)
Resume(reply) ==
    LET c == clarification
        chosen == Selected(reply)
        filter == c.candidates[CHOOSE i \in chosen : TRUE] IN
    /\ clarification # NoClarification /\ session = NoSession
    /\ \/ /\ c.checksum = <<c.base, c.candidates>> /\ chosen # {}
          /\ Len(c.base.filters) < MaxFilters /\ ~Has(c.base.filters, filter[1])
          /\ StartSession([c.base EXCEPT !.filters = Append(@, filter)])
          /\ clarification' = NoClarification
          /\ result' = "READY"
       \/ /\ c.checksum = <<c.base, c.candidates>> /\ chosen = {}
          /\ result' = "CLARIFICATION_REQUIRED"
          /\ UNCHANGED <<clarification, session>>
       \/ /\ \/ c.checksum # <<c.base, c.candidates>>
             \/ /\ chosen # {}
                /\ Len(c.base.filters) >= MaxFilters \/ Has(c.base.filters, filter[1])
          /\ result' = "BLOCKED"
          /\ UNCHANGED <<clarification, session>>

Reject ==
    /\ clarification # NoClarification /\ session = NoSession
    /\ clarification' = NoClarification
    /\ result' = "REJECTED"
    /\ UNCHANGED session

-----------------------------------------------------------------------------
(* apply_follow_up: what _validate and the turn budget refuse.             *)
(* Slip: the checksum is not compared.                                     *)
ValidateCountsOnly(s) == s.turns = Len(s.history)
Validate(s) == s.checksum = Fingerprint(s)

Accepts == session # NoSession /\ Validate(session) /\ session.turns < MaxTurns

Refuse ==
    /\ session # NoSession /\ ~Accepts
    /\ result' = "BLOCKED"
    /\ UNCHANGED <<clarification, session>>

(* _state_with_turn: the next revision, whatever becomes of its query      *)
(* (READY stands for DEFERRED and COMPLETE).                               *)
Commit(kind, about, spec, comparison) ==
    /\ session' = Sealed([session EXCEPT
           !.spec = spec, !.comparison = comparison, !.turns = @ + 1,
           !.history = Append(@, Turn(kind, about))])
    /\ result' \in {"READY", "ERROR"}
    /\ UNCHANGED clarification

Stop(status) == result' = status /\ UNCHANGED <<clarification, session>>

(* GovernedTimeComparator.plan and GovernedComparativeBreakdown.plan for a *)
(* comparison c = <<mode, requested_days>> (0: none); mode COMPARE goes to *)
(* the breakdown exactly when the query has one non-time group-by.         *)
PlanStatus(spec, c, mode) ==
    LET single == mode # "COMPARE" => Len(spec.metrics) = 1
        grouped == IF mode = "COMPARE" THEN spec.groups < 2 ELSE spec.groups = 1
        additive == mode = "CONTRIBUTION" => spec.metrics[1] \in Additive
        equal == c[2] \in {0, spec.span} IN
    IF ~single THEN "CLARIFICATION_REQUIRED"
    ELSE IF mode # "COMPARE" /\ (~grouped \/ ~additive) THEN "CLARIFICATION_REQUIRED"
    ELSE IF spec.span > MaxComparisonWindow THEN "BLOCKED"
    ELSE IF ~equal \/ ~grouped THEN "CLARIFICATION_REQUIRED"
    ELSE "READY"

PlanThenCommit(kind, comparison, mode) ==
    LET status == PlanStatus(session.spec, comparison, mode) IN
    IF status = "READY" THEN Commit(kind, comparison, session.spec, comparison) ELSE Stop(status)

ClearComparison ==
    /\ Accepts
    /\ IF session.comparison = <<>> THEN Stop("CLARIFICATION_REQUIRED")
       ELSE /\ session' = Sealed([session EXCEPT
                   !.comparison = <<>>, !.turns = @ + 1,
                   !.history = Append(@, Turn("clear_comparison", <<>>))])
            /\ result' = "READY"
            /\ UNCHANGED clarification

SetComparison(c) == Accepts /\ PlanThenCommit("set_comparison", c, "COMPARE")

(* Ranking and contribution are follow-ups of a comparison.                *)
BreakdownFollowUp(mode) ==
    /\ Accepts /\ session.comparison # <<>>
    /\ PlanThenCommit(IF mode = "CONTRIBUTION" THEN "contribution_analysis" ELSE "rank_breakdown",
                      session.comparison, mode)

ComparisonCompute ==
    /\ Accepts
    /\ IF session.comparison = <<>> THEN Stop("CLARIFICATION_REQUIRED")
       ELSE PlanThenCommit("compute_comparison", session.comparison, "COMPARE")

(* A delta of metrics or filters keeps the comparison.                     *)
CommitSpec(kind, about, spec) ==
    IF Len(spec.metrics) > MaxMetrics \/ Len(spec.filters) > MaxFilters THEN Stop("BLOCKED")
    ELSE Commit(kind, about, spec, session.comparison)

AddMetric(m) ==
    /\ Accepts
    /\ IF m \in Range(session.spec.metrics) THEN Stop("CLARIFICATION_REQUIRED")
       ELSE CommitSpec("add_metric", m, [session.spec EXCEPT !.metrics = Append(@, m)])

(* The filters of other dimensions, in their order.                        *)
Without(filters, dim) ==
    LET kept[n \in 0..Len(filters)] ==
            IF n = 0 THEN <<>>
            ELSE IF filters[n][1] = dim THEN kept[n - 1] ELSE Append(kept[n - 1], filters[n]) IN
    kept[Len(filters)]

RemoveFilter(dim) ==
    /\ Accepts
    /\ IF ~Has(session.spec.filters, dim) THEN Stop("CLARIFICATION_REQUIRED")
       ELSE CommitSpec("remove_filter", dim, [session.spec EXCEPT !.filters = Without(@, dim)])

(* _filter_delta: a filter of a dimension that has one replaces it.        *)
Filtered(filters, filter) ==
    IF Has(filters, filter[1])
    THEN [i \in DOMAIN filters |-> IF filters[i][1] = filter[1] THEN filter ELSE filters[i]]
    ELSE Append(filters, filter)

Filter(filter) ==
    /\ Accepts
    /\ CommitSpec(IF Has(session.spec.filters, filter[1]) THEN "replace_filter" ELSE "add_filter",
                  filter, [session.spec EXCEPT !.filters = Filtered(@, filter)])

(* A follow-up that resolves to no delta, or names raw query syntax.       *)
Unresolved ==
    /\ Accepts
    /\ \E status \in {"CLARIFICATION_REQUIRED", "BLOCKED"} : Stop(status)

(* External: a held state changes on its way without its checksum.         *)
Garble ==
    \/ /\ session # NoSession /\ Validate(session)
       /\ \/ \E f \in Filters : session' = [session EXCEPT !.spec.filters = <<f>>]
          \/ \E c \in {<<>>} \union (ComparisonModes \X {0}) : session' = [session EXCEPT !.comparison = c]
          \/ session' = [session EXCEPT !.turns = 1, !.history = <<session.history[1]>>]
       /\ UNCHANGED <<clarification, result>>
    \/ /\ clarification # NoClarification /\ session = NoSession
       /\ \E f \in Filters : clarification' = [clarification EXCEPT !.candidates = <<f>>]
       /\ UNCHANGED <<session, result>>

SessionNext ==
    \/ /\ session = NoSession /\ clarification = NoClarification
       /\ \E spec \in Specs :
             \/ Ask(spec)
             \/ \E n \in 0..2 : \E c \in [1..n -> Filters] : IsInjective(c) /\ Prepare(spec, c)
    \/ \E reply \in Replies : Resume(reply)
    \/ Reject \/ Refuse \/ ClearComparison \/ ComparisonCompute \/ Unresolved \/ Garble
    \/ \E c \in ComparisonModes \X ({0} \union Spans) :
           (c[1] = "YEAR_OVER_YEAR" => c[2] = 0) /\ SetComparison(c)
    \/ \E mode \in {"CONTRIBUTION", "RANKING"} : BreakdownFollowUp(mode)
    \/ \E m \in Metrics : AddMetric(m)
    \/ \E dim \in Dimensions : RemoveFilter(dim)
    \/ \E filter \in Filters : Filter(filter)

SessionSpec == SessionInit /\ [][SessionNext]_sessionVars

-----------------------------------------------------------------------------
(* A query and its comparison, filters and metrics as sets.                *)
AsSets(spec, comparison) ==
    [metrics |-> Range(spec.metrics), filters |-> Range(spec.filters), comparison |-> comparison]

(* What a session's history says of its query: each turn's delta over the  *)
(* query and comparison before it.                                         *)
Said(state, turn) ==
    CASE turn.kind = "add_metric" -> [state EXCEPT !.metrics = @ \union {turn.about}]
      [] turn.kind \in {"add_filter", "replace_filter"} ->
             [state EXCEPT !.filters = {f \in @ : f[1] # turn.about[1]} \union {turn.about}]
      [] turn.kind = "remove_filter" -> [state EXCEPT !.filters = {f \in @ : f[1] # turn.about}]
      [] turn.kind \in {"set_comparison", "clear_comparison"} ->
             [state EXCEPT !.comparison = turn.about]
      [] OTHER -> state

Replayed(s) ==
    LET said[n \in 0..Len(s.history)] ==
            IF n = 0 THEN AsSets(s.origin, <<>>) ELSE Said(said[n - 1], s.history[n]) IN
    said[Len(s.history)]

(* Type correctness.                                                       *)
SessionTypeOK ==
    /\ result \in {"none", "READY", "ERROR", "BLOCKED", "REJECTED", "CLARIFICATION_REQUIRED"}
    /\ session # NoSession => /\ session.turns \in 1..MaxTurns
                              /\ \A i \in DOMAIN session.history : session.history[i].kind \in Kinds
    /\ clarification # NoClarification => clarification.base \in Specs

(* A session that is accepted is the one its history tells of: the query   *)
(* and comparison are what its turns made of the first query, whatever was *)
(* garbled, refused or left unresolved in between, one turn for each       *)
(* revision; its limits hold and no dimension is filtered twice.           *)
HistoryExplainsTheQuery ==
    (session # NoSession /\ session.checksum = Fingerprint(session)) =>
        LET s == session.spec IN
        /\ session.turns = Len(session.history)
        /\ Replayed(session) = AsSets(s, session.comparison)
        /\ s.groups = session.origin.groups /\ s.span = session.origin.span
        /\ Len(s.metrics) <= MaxMetrics /\ IsInjective(s.metrics)
        /\ Len(s.filters) <= MaxFilters
        /\ \A i, j \in DOMAIN s.filters : s.filters[i][1] = s.filters[j][1] => i = j
=============================================================================
