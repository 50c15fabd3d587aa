--------------------------- MODULE IncidentApproval ---------------------------
(***************************************************************************)
(* From an incomplete partition to an approved action: the drilldown reads *)
(* marts and runs (agent/incident_drilldown), the planner translates the   *)
(* recovery policy's decision into steps (agent/incident_response), humans *)
(* decide over the steps that need them, and the execution authority asks  *)
(* whether an approval still holds (agent/approval_workflow).              *)
(*                                                                         *)
(* Extends Recovery: while evidence is collected, approved and used, the   *)
(* schedule, the sensor, operators and the infrastructure go on.           *)
(***************************************************************************)
EXTENDS Recovery, SequencesExt

CONSTANTS MaxApprovalRequests,  \* limits.max_approval_requests_per_bundle
          MaxBundles            \* bound: the bundles that are prepared

VARIABLES inspection,   \* DagsterIncidentRuntimeProvider.inspect under way
          incident,     \* the last result: the evidence of each partition
          asked,        \* how many cases there were when its inspection began
          cases         \* approval cases, and the versions of each in circulation

incidentVars == <<vars, inspection, incident, asked, cases>>

-----------------------------------------------------------------------------
(* The inspection: partition_deadline_utc, without the sensor's horizon.   *)
PastDeadline == {p \in Partitions : p < day /\ (p < day - 1 \/ stage = "overdue")}

NoInspection == [at |-> "idle", asked |-> 0, todo |-> {}, overdue |-> {}, watched |-> {},
                 healthy |-> TRUE, missing |-> {}, found |-> <<>>]

(* The evidence of p as its runs are read, and what was true just then.    *)
Observed(p) ==
    [overdue |-> p \in inspection.overdue, missing |-> inspection.missing,
     active |-> WithStatus(p, "active"), failed |-> WithStatus(p, "failed"),
     successful |-> WithStatus(p, "success"), auto |-> AutoRuns(p), class |-> failure_class(p), healthy |-> inspection.healthy,
     missed |-> inspection.watched # {} /\ p = Newest(inspection.watched)]

Truth(p) == [complete |-> materialized[p] = Marts,
             watched |-> p \in inspection.watched,
             held |-> WithStatus(p, "active") # {}]

Complete(e) == e.missing = {}

(* RecoveryPolicySnapshot: decide_recovery now, and the reason of it.      *)
Action(e) ==
    IF ~Complete(e) /\ ~e.overdue THEN "wait"
    ELSE decide_recovery([materialized |-> Complete(e), active |-> e.active # {},
                            failed |-> e.failed # {}, successful |-> e.successful # {},
                            class |-> e.class, healthy |-> e.healthy,
                            replays |-> Cardinality(e.auto), missed |-> e.missed])

Reason(e) ==
    CASE Action(e) = "wait" -> IF e.overdue THEN "active_run_owns_partition"
                               ELSE "within_freshness_budget"
      [] Action(e) = "alert_manual" ->
             IF Cardinality(e.auto) >= MaxAutoReplays THEN "auto_replay_budget_exhausted"
             ELSE IF e.successful # {} THEN "successful_run_without_complete_partition"
             ELSE IF e.failed = {} THEN "historical_no_run_requires_manual_backfill"
             ELSE IF e.class = "data_contract" THEN "data_contract_failure"
             ELSE "unknown_failure_class"
      [] OTHER -> Action(e)

-----------------------------------------------------------------------------
(* _plan_partition: the steps, each with the one who may take it.          *)
Step(action, authority, boundary) ==
    [action |-> action, authority |-> authority, boundary |-> boundary]
Sensor(action)   == Step(action, "DAGSTER_RECOVERY_SENSOR", "AUTOMATION_POLICY_OWNED")
RunOwner(action) == Step(action, "DAGSTER_RUN_OWNER", "AUTOMATION_POLICY_OWNED")
Human(action)    == Step(action, "HUMAN_DATA_OPERATOR", "HUMAN_REQUIRED")
Verify == "VERIFY_EXACT_PARTITION_COMPLETION"

Investigation(e) ==
    IF Reason(e) = "data_contract_failure" \/ e.class = "data_contract"
    THEN "INVESTIGATE_DATA_CONTRACT"
    ELSE CASE Reason(e) = "auto_replay_budget_exhausted" -> "INVESTIGATE_REPLAY_EXHAUSTION"
           [] Reason(e) = "successful_run_without_complete_partition" ->
                  "VALIDATE_SUCCESS_WITH_INCOMPLETE_PARTITION"
           [] Reason(e) = "historical_no_run_requires_manual_backfill" ->
                  "REVIEW_HISTORICAL_NO_RUN"
           [] OTHER -> "INVESTIGATE_UNKNOWN_FAILURE"

Blocked == <<Human("MANUAL_INCIDENT_REVIEW")>>

PlanSteps(e) ==
    CASE Action(e) = "wait" ->
            IF e.active \intersect e.auto # {}
            THEN <<Sensor("WAIT_FOR_ACTIVE_RECOVERY"), Sensor(Verify)>>
            ELSE IF e.active # {} THEN <<RunOwner("WAIT_FOR_ACTIVE_RUN"), RunOwner(Verify)>>
            ELSE IF Reason(e) = "within_freshness_budget"
            THEN <<Step("WAIT_FOR_FRESHNESS_DEADLINE", "NONE", "NONE")>>
            ELSE Blocked
      [] Action(e) = "auto_replay" -> <<Sensor("DELEGATE_AUTO_REPLAY"), Sensor(Verify)>>
      [] Action(e) = "alert_and_wait" ->
            <<Step("RESTORE_INFRASTRUCTURE", "PLATFORM_OPERATOR", "HUMAN_REQUIRED"),
              Human("REEVALUATE_RECOVERY_POLICY")>>
      [] Action(e) = "alert_manual" ->
            <<Human(Investigation(e)), Human("APPROVE_MANUAL_BACKFILL"), Human(Verify)>>
      [] OTHER -> Blocked

(* A plan has the incomplete partitions only.                              *)
Planned(found) == {p \in DOMAIN found : ~Complete(found[p].seen)}
HumanSteps(e) == {s \in ToSet(PlanSteps(e)) : s.boundary = "HUMAN_REQUIRED"}

-----------------------------------------------------------------------------
IncidentInit ==
    /\ Init
    /\ inspection = NoInspection
    /\ incident = <<>> /\ asked = 0
    /\ cases = <<>>

(* Now, the health of the infrastructure, ...                              *)
StartInspection ==
    /\ inspection.at = "idle"
    /\ \E first \in Partitions : \E last \in first..Days :
          inspection' = [NoInspection EXCEPT
              !.at = "marts", !.asked = Len(cases), !.todo = first..last,
              !.overdue = PastDeadline, !.watched = Overdue, !.healthy = up]
    /\ UNCHANGED <<vars, incident, asked, cases>>

(* ... and day by day the marts and then the runs.                         *)
InspectMarts ==
    /\ inspection.at = "marts"
    /\ inspection' = [inspection EXCEPT !.at = "runs",
                          !.missing = Marts \ materialized[Oldest(inspection.todo)]]
    /\ UNCHANGED <<vars, incident, asked, cases>>

InspectRuns ==
    LET p     == Oldest(inspection.todo)
        found == [q \in DOMAIN inspection.found \union {p} |->
                     IF q = p THEN [seen |-> Observed(p), true |-> Truth(p)]
                     ELSE inspection.found[q]] IN
    /\ inspection.at = "runs"
    /\ IF inspection.todo = {p}
       THEN inspection' = NoInspection /\ incident' = found /\ asked' = inspection.asked
       ELSE /\ inspection' = [inspection EXCEPT !.at = "marts", !.todo = @ \ {p},
                                                !.missing = {}, !.found = found]
            /\ UNCHANGED <<incident, asked>>
    /\ UNCHANGED <<vars, cases>>

(* _create_case: the request of a step, pending over the evidence for it.  *)
Opened(p, s, e) ==
    [partition |-> p, step |-> s, evidence |-> e, expired |-> FALSE,
     versions |-> {"PENDING"}, granted |-> {}]

(* prepare, over the last result and its plan.  The model follows one case *)
(* of the bundle: its cases are decided apart.                             *)
Prepare ==
    /\ Len(cases) < MaxBundles
    /\ FoldSet(LAMBDA p, n : n + Cardinality(HumanSteps(incident[p].seen)), 0,
               Planned(incident)) <= MaxApprovalRequests
    /\ \E p \in Planned(incident) : \E s \in HumanSteps(incident[p].seen) :
          cases' = Append(cases, Opened(p, s, incident[p].seen))
    /\ UNCHANGED <<vars, inspection, incident, asked>>

TtlElapses(c) ==
    /\ ~cases[c].expired
    /\ cases' = [cases EXCEPT ![c].expired = TRUE]
    /\ UNCHANGED <<vars, inspection, incident, asked>>

(* A case is an immutable value: an event makes a new version of it, and   *)
(* whoever holds the pending one may still decide otherwise.               *)
Appended(c, status) == cases' = [cases EXCEPT ![c].versions = @ \union {status}]

(* approve and reject                                                      *)
Decisions == {"APPROVED", "REJECTED"}

HumanDecision(c) ==
    /\ ~cases[c].expired
    /\ \E status \in Decisions : Appended(c, status)
    /\ UNCHANGED <<vars, inspection, incident, asked>>

Expire(c) ==
    /\ cases[c].expired
    /\ Appended(c, "EXPIRED")
    /\ UNCHANGED <<vars, inspection, incident, asked>>

(* Slip: the action need only be planned again.                            *)
FindPlannedAction(c) ==
    /\ cases[c].partition \in Planned(incident)
    /\ cases[c].step \in HumanSteps(incident[cases[c].partition].seen)

(* _find_current_fingerprint: the same step is planned, on equal evidence. *)
FindCurrentFingerprint(c) ==
    /\ cases[c].partition \in Planned(incident)
    /\ cases[c].step \in HumanSteps(incident[cases[c].partition].seen)
    /\ incident[cases[c].partition].seen = cases[c].evidence

(* validate_for_external_execution answers ELIGIBLE; what the inspection   *)
(* met is recorded.  The authority inspects anew: it must not come with an *)
(* incident that is older than the case.                                   *)
ValidateEligible(c) ==
    /\ "APPROVED" \in cases[c].versions
    /\ asked >= c
    /\ FindCurrentFingerprint(c)
    /\ cases' = [cases EXCEPT ![c].granted = @ \union {incident[cases[c].partition].true}]
    /\ UNCHANGED <<vars, inspection, incident, asked>>

AgentStep ==
    \/ StartInspection \/ InspectMarts \/ InspectRuns
    \/ Prepare
    \/ \E c \in DOMAIN cases :
          TtlElapses(c) \/ HumanDecision(c) \/ Expire(c) \/ ValidateEligible(c)

IncidentNext ==
    \/ Next /\ UNCHANGED <<inspection, incident, asked, cases>>
    \/ AgentStep

IncidentSpec == IncidentInit /\ [][IncidentNext]_incidentVars

-----------------------------------------------------------------------------
Evidence ==
    [overdue : BOOLEAN, missing : SUBSET Marts, active : SUBSET Nat, failed : SUBSET Nat,
     successful : SUBSET Nat, auto : SUBSET Nat, class : Classes \union {"none"},
     healthy : BOOLEAN, missed : BOOLEAN]
Truths == [complete : BOOLEAN, watched : BOOLEAN, held : BOOLEAN]
IsFound(f) == DOMAIN f \subseteq Partitions /\ f \in [DOMAIN f -> [seen : Evidence, true : Truths]]
PlanStep ==
    [action : {"WAIT_FOR_ACTIVE_RECOVERY", "WAIT_FOR_ACTIVE_RUN", "WAIT_FOR_FRESHNESS_DEADLINE",
               "DELEGATE_AUTO_REPLAY", "RESTORE_INFRASTRUCTURE", "REEVALUATE_RECOVERY_POLICY",
               "INVESTIGATE_DATA_CONTRACT", "INVESTIGATE_REPLAY_EXHAUSTION",
               "VALIDATE_SUCCESS_WITH_INCOMPLETE_PARTITION", "REVIEW_HISTORICAL_NO_RUN",
               "INVESTIGATE_UNKNOWN_FAILURE", "APPROVE_MANUAL_BACKFILL",
               "MANUAL_INCIDENT_REVIEW", Verify},
     authority : {"DAGSTER_RECOVERY_SENSOR", "DAGSTER_RUN_OWNER", "PLATFORM_OPERATOR",
                  "HUMAN_DATA_OPERATOR", "NONE"},
     boundary : {"AUTOMATION_POLICY_OWNED", "HUMAN_REQUIRED", "NONE"}]
Case ==
    [partition : Partitions, step : PlanStep, evidence : Evidence,
     expired : BOOLEAN, versions : SUBSET {"PENDING", "APPROVED", "REJECTED", "EXPIRED"}, granted : SUBSET Truths]

IncidentTypeOK ==
    /\ TypeOK
    /\ inspection \in [at : {"idle", "marts", "runs"}, asked : Nat, todo : SUBSET Partitions,
                       overdue : SUBSET Partitions, watched : SUBSET Partitions,
                       healthy : BOOLEAN, missing : SUBSET Marts, found : {inspection.found}]
    /\ IsFound(inspection.found) /\ IsFound(incident)
    /\ inspection.at # "idle" => inspection.todo # {}
    /\ cases \in Seq(Case)
    /\ asked \in 0..Len(cases) /\ inspection.asked \in 0..Len(cases)

(* The reading of marts and runs is no snapshot, and approvals are used    *)
(* long after it: still, when an approved action is found eligible, the    *)
(* partition really was incomplete, and no run held it, at the moment the  *)
(* last inspection read its runs.                                          *)
GrantsAreTrue ==
    \A c \in DOMAIN cases : \A t \in cases[c].granted : ~t.complete /\ ~t.held

(* A step that is delegated to the recovery sensor is one that the sensor  *)
(* will look at (planner.py:161-165: the sensor owns its execution).       *)
DelegatedIsOwned ==
    \A p \in Planned(incident) :
        PlanSteps(incident[p].seen)[1].action = "DELEGATE_AUTO_REPLAY"
            => incident[p].true.watched
-----------------------------------------------------------------------------
(* The inductive invariant behind GrantsAreTrue, in parts.                 *)

(* A run that some evidence saw ended has ended for good.                  *)
StillEnded(p, e) ==
    \A i \in e.failed \union e.successful : i \in DOMAIN runs[p] /\ runs[p][i].status # "active"

EvidenceInv ==
    /\ \A p \in DOMAIN inspection.found : StillEnded(p, inspection.found[p].seen)
    /\ \A p \in DOMAIN incident : StillEnded(p, incident[p].seen)
    /\ \A c \in DOMAIN cases : StillEnded(cases[c].partition, cases[c].evidence)

(* The marts that an inspection found missing are all there when it comes  *)
(* to the runs: then there is a run that no older case has seen end.       *)
MartsInv ==
    inspection.at = "runs" /\ inspection.missing # {} =>
        LET p == Oldest(inspection.todo) IN
        \A c \in 1..inspection.asked :
            cases[c].partition = p /\ materialized[p] = Marts =>
                \E i \in DOMAIN runs[p] :
                    i \notin cases[c].evidence.failed \union cases[c].evidence.successful

(* What was found is true, if it equals what one of the n first cases saw. *)
IsTrue(p, x, n) ==
    /\ x.true.held => x.seen.active # {}
    /\ \A c \in 1..n :
          cases[c].partition = p /\ cases[c].evidence = x.seen =>
              Complete(x.seen) \/ x.seen.active # {} \/ ~x.true.complete

FoundInv ==
    /\ \A p \in DOMAIN inspection.found : IsTrue(p, inspection.found[p], inspection.asked)
    /\ \A p \in DOMAIN incident : IsTrue(p, incident[p], asked)
=============================================================================
