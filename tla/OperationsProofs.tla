--------------------------- MODULE OperationsProofs ---------------------------
(***************************************************************************)
(* Theorems about the two parts of the operations: IncidentApproval, for   *)
(* any number of days, any recovery policy, marts and faults, and any      *)
(* limits of the approval workflow; and Promotion, for any windows,        *)
(* builds, plateau, least number of runs and lifetime of an approval, and  *)
(* any number of measurements, edits, reviews and decisions.               *)
(***************************************************************************)
EXTENDS OperationsParts, RecoveryProofs, WellFoundedInduction

IncidentInv ==
    /\ SensorInv /\ ReplayInv
    /\ IncidentTypeOK /\ EvidenceInv /\ MartsInv /\ FoundInv /\ GrantsAreTrue

-----------------------------------------------------------------------------
(* What inspections, plans and approvals do is a stutter of the recovery.  *)
LEMMA AgentLeavesRecovery == [IncidentNext]_incidentVars => [Next]_vars
  BY DEF IncidentNext, AgentStep, incidentVars, StartInspection, InspectMarts, InspectRuns,
     Prepare, TtlElapses, HumanDecision, Expire, ValidateEligible

(* A run that has ended has ended for good; marts of a partition appear    *)
(* only while a run of it is active.                                       *)
LEMMA RunsGoOn ==
    ASSUME TypeOK, SensorInv, RunsInv, [Next]_vars, NEW p \in Partitions
    PROVE  /\ \A i \in DOMAIN runs[p] :
                 /\ i \in DOMAIN runs'[p]
                 /\ runs'[p][i].status = "active" => runs[p][i].status = "active"
           /\ materialized'[p] # materialized[p]
                 => \E i \in DOMAIN runs[p] : runs[p][i].status = "active"
<1>. DEFINE Kept == \A i \in DOMAIN runs[p] :
                       /\ i \in DOMAIN runs'[p]
                       /\ runs'[p][i].status = "active" => runs[p][i].status = "active"
            Made == materialized'[p] # materialized[p]
                       => \E i \in DOMAIN runs[p] : runs[p][i].status = "active"
<1>0. runs \in [Partitions -> Seq(Run)] /\ materialized \in [Partitions -> SUBSET Marts]
  BY DEF TypeOK
<1>1. ASSUME UNCHANGED runs, UNCHANGED materialized PROVE Kept /\ Made
  BY <1>1
<1>2. ASSUME NEW q \in Partitions, NEW x \in Run, Launch(q, x), UNCHANGED materialized
      PROVE  Kept /\ Made
  <2>1. CASE q = p
    <3>1. /\ DOMAIN runs[p] = 1..Len(runs[p]) /\ Len(runs[p]) \in Nat
          /\ DOMAIN runs'[p] = 1..(Len(runs[p]) + 1)
          /\ \A j \in DOMAIN runs[p] : runs'[p][j] = runs[p][j]
      BY <1>0, <1>2, <2>1, RunLaunched
    <3>. QED  BY <1>2, <3>1
  <2>2. CASE q # p
    <3>1. runs'[p] = runs[p]  BY <1>0, <1>2, <2>2, RunLaunched
    <3>. QED  BY <1>2, <3>1
  <2>. QED  BY <2>1, <2>2
<1>3. ASSUME NEW q \in Partitions, NEW i \in DOMAIN runs[q],
             \/ StepSucceeds(q, i) \/ SparkFails(q, i) \/ DbtFails(q, i) \/ ExtractFails(q, i)
             \/ OperatorCancels(q, i)
      PROVE  Kept /\ Made
  <2>1. PICK y \in Run : Touched(q, i, y)  BY <1>3, StepIsSame
  <2>2. /\ \A r \in Partitions : DOMAIN runs'[r] = DOMAIN runs[r]
        /\ \A r \in Partitions : \A j \in DOMAIN runs[r] :
              runs'[r][j] = IF r = q /\ j = i THEN y ELSE runs[r][j]
    BY <1>0, <2>1, RunChanges DEF Touched
  <2>3. Kept  BY <2>1, <2>2 DEF Touched, SameRun
  <2>4. /\ runs[q][i].status = "active"
        /\ \/ UNCHANGED materialized
           \/ \E S \in SUBSET Marts : materialized' = [materialized EXCEPT ![q] = @ \union S]
    BY <1>3 DEF StepSucceeds, SparkFails, DbtFails, ExtractFails, OperatorCancels
  <2>5. Made  BY <1>0, <2>4
  <2>. QED  BY <2>3, <2>5
<1>4. \A attempt \in Nat : \A basis \in Classes \union {"none", "missed"} :
         \A auto, full \in BOOLEAN : NewRun(auto, attempt, full, basis) \in Run
  <2>1. 1 \in 0..Len(Steps)  BY LenSteps
  <2>. QED  BY <2>1, OneTryMore DEF NewRun, Run
<1>5. CASE NextDay \/ PassDeadline \/ InfrastructureChanges
  BY <1>1, <1>5 DEF NextDay, PassDeadline, InfrastructureChanges
<1>6. CASE ScheduleTick
  <2>1. CASE UNCHANGED runs  BY <1>1, <1>6, <2>1 DEF ScheduleTick
  <2>2. CASE Launch(day - 1, Manual)
    <3>1. day - 1 \in Partitions
      BY <1>6, RecoveryAssumption DEF ScheduleTick, TypeOK, SensorInv, Partitions
    <3>2. Manual \in Run  BY <1>4 DEF Manual
    <3>. QED  BY <1>2, <1>6, <2>2, <3>1, <3>2 DEF ScheduleTick
  <2>. QED  BY <1>6, <2>1, <2>2 DEF ScheduleTick
<1>7. ASSUME NEW q \in Partitions, OperatorRuns(q) PROVE Kept /\ Made
  <2>1. PICK full \in BOOLEAN : Launch(q, [Manual EXCEPT !.full = full])  BY <1>7 DEF OperatorRuns
  <2>2. PICK x : x = [Manual EXCEPT !.full = full]  OBVIOUS
  <2>3. Manual \in Run  BY <1>4 DEF Manual
  <2>4. x \in Run  BY <2>2, <2>3 DEF Run
  <2>. QED  BY <1>2, <1>7, <2>1, <2>2, <2>4 DEF OperatorRuns
<1>8. CASE StartEvaluation \/ ReadMarts \/ DaemonCrashes \/ Decide
  BY <1>1, <1>8 DEF StartEvaluation, ReadMarts, DaemonCrashes, Decide
<1>9. CASE ExecuteRequest
  <2>1. CASE UNCHANGED runs  BY <1>1, <1>9, <2>1 DEF ExecuteRequest
  <2>2. CASE Launch(Oldest(sensor.todo), NewRun(TRUE, sensor.attempt, TRUE, sensor.basis))
    <3>1. sensor.todo \subseteq Nat /\ sensor.todo # {}
      BY <1>9 DEF ExecuteRequest, SensorInv, TypeOK, Partitions
    <3>2. Oldest(sensor.todo) \in Partitions  BY <3>1, OldestType DEF TypeOK
    <3>3. NewRun(TRUE, sensor.attempt, TRUE, sensor.basis) \in Run  BY <1>4 DEF SensorInv
    <3>. QED  BY <1>2, <1>9, <2>2, <3>2, <3>3 DEF ExecuteRequest
  <2>. QED  BY <1>9, <2>1, <2>2 DEF ExecuteRequest
<1>10. CASE UNCHANGED vars  BY <1>1, <1>10 DEF vars
<1>. QED
  BY <1>3, <1>5, <1>6, <1>7, <1>8, <1>9, <1>10 DEF Next, RunStep, SensorStep

-----------------------------------------------------------------------------
(* The steps of a plan.                                                    *)
LEMMA HumanStepsType == ASSUME NEW e PROVE HumanSteps(e) \subseteq PlanStep
<1>1. Human(Investigation(e)) \in PlanStep
  <2>1. Investigation(e) \in
           {"INVESTIGATE_DATA_CONTRACT", "INVESTIGATE_REPLAY_EXHAUSTION",
            "VALIDATE_SUCCESS_WITH_INCOMPLETE_PARTITION", "REVIEW_HISTORICAL_NO_RUN",
            "INVESTIGATE_UNKNOWN_FAILURE"}
    BY DEF Investigation
  <2>. QED  BY <2>1 DEF Human, Step, PlanStep
<1>2. /\ Sensor("WAIT_FOR_ACTIVE_RECOVERY") \in PlanStep /\ Sensor("DELEGATE_AUTO_REPLAY") \in PlanStep
      /\ Sensor(Verify) \in PlanStep /\ RunOwner("WAIT_FOR_ACTIVE_RUN") \in PlanStep
      /\ RunOwner(Verify) \in PlanStep
  BY DEF Sensor, RunOwner, Step, PlanStep
<1>3. /\ Human("REEVALUATE_RECOVERY_POLICY") \in PlanStep /\ Human(Verify) \in PlanStep
      /\ Human("APPROVE_MANUAL_BACKFILL") \in PlanStep /\ Human("MANUAL_INCIDENT_REVIEW") \in PlanStep
      /\ Step("WAIT_FOR_FRESHNESS_DEADLINE", "NONE", "NONE") \in PlanStep
      /\ Step("RESTORE_INFRASTRUCTURE", "PLATFORM_OPERATOR", "HUMAN_REQUIRED") \in PlanStep
  BY DEF Human, Step, PlanStep
<1>4. \/ \E a \in PlanStep : PlanSteps(e) = <<a>>
      \/ \E a, b \in PlanStep : PlanSteps(e) = <<a, b>>
      \/ \E a, b, c \in PlanStep : PlanSteps(e) = <<a, b, c>>
  <2>1. CASE Action(e) = "wait"
    BY <1>2, <1>3, <2>1 DEF PlanSteps, Blocked
  <2>2. CASE Action(e) = "auto_replay"
    BY <1>2, <2>2 DEF PlanSteps
  <2>3. CASE Action(e) = "alert_and_wait"
    BY <1>3, <2>3 DEF PlanSteps
  <2>4. CASE Action(e) = "alert_manual"
    BY <1>1, <1>3, <2>4 DEF PlanSteps
  <2>5. CASE Action(e) \notin {"wait", "auto_replay", "alert_and_wait", "alert_manual"}
    BY <1>3, <2>5 DEF PlanSteps, Blocked
  <2>. QED  BY <2>1, <2>2, <2>3, <2>4, <2>5
<1>. QED  BY <1>4 DEF HumanSteps, ToSet

(* While a run of the partition is active nobody is asked to act.          *)
LEMMA NobodyActsDuringARun ==
    ASSUME NEW e \in Evidence, ~Complete(e), HumanSteps(e) # {}
    PROVE  e.active = {}
<1>. SUFFICES ASSUME e.active # {} PROVE FALSE
  OBVIOUS
<1>1. Action(e) = "wait"
  <2>1. ~Complete(e) /\ (e.active # {}) = TRUE  OBVIOUS
  <2>. QED  BY <2>1 DEF Action, decide_recovery, Complete
<1>2. \/ PlanSteps(e) = <<Sensor("WAIT_FOR_ACTIVE_RECOVERY"), Sensor(Verify)>>
      \/ PlanSteps(e) = <<RunOwner("WAIT_FOR_ACTIVE_RUN"), RunOwner(Verify)>>
  BY <1>1 DEF PlanSteps
<1>3. \A a : Sensor(a).boundary # "HUMAN_REQUIRED" /\ RunOwner(a).boundary # "HUMAN_REQUIRED"
  BY DEF Sensor, RunOwner, Step
<1>. QED  BY <1>2, <1>3 DEF HumanSteps, ToSet

-----------------------------------------------------------------------------
(* Type correctness.                                                       *)

(* What an inspection finds of a partition is well typed.                  *)
LEMMA FindingType ==
    ASSUME IncidentTypeOK, NEW p \in Partitions
    PROVE  Observed(p) \in Evidence /\ Truth(p) \in Truths
<1>1. runs[p] \in Seq(Run) /\ DOMAIN runs[p] \subseteq Nat  BY DEF IncidentTypeOK, TypeOK
<1>2. /\ WithStatus(p, "active") \in SUBSET Nat /\ WithStatus(p, "failed") \in SUBSET Nat
      /\ WithStatus(p, "success") \in SUBSET Nat /\ AutoRuns(p) \in SUBSET Nat
  BY <1>1 DEF WithStatus, AutoRuns
<1>3. failure_class(p) \in Classes \union {"none"}
  <2>1. CASE WithStatus(p, "failed") = {}
    BY <2>1 DEF failure_class
  <2>2. CASE WithStatus(p, "failed") # {}
    <3>1. Len(runs[p]) \in Nat /\ WithStatus(p, "failed") \subseteq 1..Len(runs[p])
      BY <1>1 DEF WithStatus
    <3>2. PICK n : n = Newest(WithStatus(p, "failed"))  OBVIOUS
    <3>3. n \in DOMAIN runs[p]
      <4>1. n \in WithStatus(p, "failed")  BY <2>2, <3>1, <3>2, NewestType
      <4>. QED  BY <4>1 DEF WithStatus
    <3>4. runs[p][n].tag \in Classes \union {"none"}
      <4>1. runs[p][n] \in Run  BY <1>1, <3>3
      <4>. QED  BY <4>1 DEF Run
    <3>5. failure_class(p) = IF runs[p][n].tag = "none" THEN "unknown" ELSE runs[p][n].tag
      BY <2>2, <3>2 DEF failure_class
    <3>. QED  BY <3>4, <3>5 DEF Classes
  <2>. QED  BY <2>1, <2>2
<1>4. inspection.healthy \in BOOLEAN /\ inspection.missing \in SUBSET Marts
  BY DEF IncidentTypeOK
<1>5. PICK o, m :
         /\ o = (p \in inspection.overdue)
         /\ m = (inspection.watched # {} /\ p = Newest(inspection.watched))
  OBVIOUS
<1>9. o \in BOOLEAN /\ m \in BOOLEAN  BY <1>5
<1>6. Observed(p) \in Evidence
  <2>1. Observed(p) =
           [overdue |-> o, missing |-> inspection.missing, active |-> WithStatus(p, "active"),
            failed |-> WithStatus(p, "failed"), successful |-> WithStatus(p, "success"),
            auto |-> AutoRuns(p), class |-> failure_class(p), healthy |-> inspection.healthy,
            missed |-> m]
    BY <1>5 DEF Observed
  <2>. QED  BY <1>2, <1>3, <1>4, <1>9, <2>1 DEF Evidence
<1>7. Truth(p) \in Truths  BY DEF Truth, Truths
<1>. QED  BY <1>6, <1>7

(* A decision, an expiry or a grant changes one case, and neither its      *)
(* partition nor its evidence.                                             *)
LEMMA CaseChanges ==
    ASSUME IncidentTypeOK, NEW c \in DOMAIN cases,
           TtlElapses(c) \/ HumanDecision(c) \/ Expire(c) \/ ValidateEligible(c)
    PROVE  /\ cases' \in Seq(Case) /\ Len(cases') = Len(cases)
           /\ \A d \in DOMAIN cases :
                 /\ cases'[d].partition = cases[d].partition
                 /\ cases'[d].evidence = cases[d].evidence
                 /\ \/ cases'[d].granted = cases[d].granted
                    \/ /\ ValidateEligible(d)
                       /\ cases'[d].granted =
                             cases[d].granted \union {incident[cases[d].partition].true}
           /\ UNCHANGED <<vars, inspection, incident, asked>>
<1>. DEFINE Like(y) == y.partition = cases[c].partition /\ y.evidence = cases[c].evidence
<1>1. cases \in Seq(Case) /\ cases[c] \in Case  BY DEF IncidentTypeOK
<1>2. ASSUME NEW y \in Case, Like(y), cases' = [cases EXCEPT ![c] = y],
             \/ y.granted = cases[c].granted
             \/ /\ ValidateEligible(c)
                /\ y.granted = cases[c].granted \union {incident[cases[c].partition].true}
      PROVE  /\ cases' \in Seq(Case) /\ Len(cases') = Len(cases)
             /\ \A d \in DOMAIN cases :
                   /\ cases'[d].partition = cases[d].partition
                   /\ cases'[d].evidence = cases[d].evidence
                   /\ \/ cases'[d].granted = cases[d].granted
                      \/ /\ ValidateEligible(d)
                         /\ cases'[d].granted =
                               cases[d].granted \union {incident[cases[d].partition].true}
  BY <1>1, <1>2
<1>3. CASE TtlElapses(c)
  <2>1. PICK y : y = [cases[c] EXCEPT !.expired = TRUE]  OBVIOUS
  <2>2. y \in Case /\ Like(y) /\ y.granted = cases[c].granted  BY <1>1, <2>1 DEF Case
  <2>3. cases' = [cases EXCEPT ![c] = y]  BY <1>3, <2>1 DEF TtlElapses
  <2>. QED  BY <1>2, <1>3, <2>2, <2>3 DEF TtlElapses
<1>4. CASE HumanDecision(c) \/ Expire(c)
  <2>1. PICK s \in {"APPROVED", "REJECTED", "EXPIRED"} :
           cases' = [cases EXCEPT ![c].versions = @ \union {s}]
    BY <1>4 DEF HumanDecision, Expire, Decisions, Appended
  <2>2. PICK y : y = [cases[c] EXCEPT !.versions = @ \union {s}]  OBVIOUS
  <2>3. y \in Case /\ Like(y) /\ y.granted = cases[c].granted  BY <1>1, <2>2 DEF Case
  <2>4. cases' = [cases EXCEPT ![c] = y]  BY <2>1, <2>2
  <2>. QED  BY <1>2, <1>4, <2>3, <2>4 DEF HumanDecision, Expire
<1>5. CASE ValidateEligible(c)
  <2>0. incident[cases[c].partition].true \in Truths
    <3>1. cases[c].partition \in DOMAIN incident
      BY <1>5 DEF ValidateEligible, FindCurrentFingerprint, Planned
    <3>. QED  BY <3>1 DEF IncidentTypeOK, IsFound
  <2>1. PICK y : y = [cases[c] EXCEPT !.granted = @ \union {incident[cases[c].partition].true}]
    OBVIOUS
  <2>2. /\ y \in Case /\ Like(y)
        /\ y.granted = cases[c].granted \union {incident[cases[c].partition].true}
    BY <1>1, <2>0, <2>1 DEF Case
  <2>3. cases' = [cases EXCEPT ![c] = y]  BY <1>5, <2>1 DEF ValidateEligible
  <2>. QED  BY <1>2, <1>5, <2>2, <2>3 DEF ValidateEligible
<1>. QED  BY <1>3, <1>4, <1>5

(* A new case, for what the last inspection found of its partition.        *)
LEMMA CasePrepared ==
    ASSUME IncidentTypeOK, Prepare
    PROVE  \E p \in Planned(incident) : \E k \in Case :
              /\ cases' = Append(cases, k)
              /\ k.partition = p /\ k.evidence = incident[p].seen /\ k.granted = {}
<1>0. PICK p \in Planned(incident) : \E s \in HumanSteps(incident[p].seen) :
         cases' = Append(cases, [partition |-> p, step |-> s, evidence |-> incident[p].seen,
                                 expired |-> FALSE, versions |-> {"PENDING"}, granted |-> {}])
  BY DEF Prepare, Opened
<1>1. PICK s \in HumanSteps(incident[p].seen) :
         cases' = Append(cases, [partition |-> p, step |-> s, evidence |-> incident[p].seen,
                                 expired |-> FALSE, versions |-> {"PENDING"}, granted |-> {}])
  BY <1>0
<1>2. p \in Partitions /\ incident[p].seen \in Evidence
  BY DEF Planned, IncidentTypeOK, IsFound
<1>3. s \in PlanStep  BY HumanStepsType
<1>4. PICK k : k = [partition |-> p, step |-> s, evidence |-> incident[p].seen,
                    expired |-> FALSE, versions |-> {"PENDING"}, granted |-> {}]
  OBVIOUS
<1>5. k \in Case /\ k.partition = p /\ k.evidence = incident[p].seen /\ k.granted = {}
  BY <1>2, <1>3, <1>4 DEF Case
<1>. QED  BY <1>1, <1>4, <1>5

(* What an inspection has found when it has read the runs of a partition.  *)
Finds(p) ==
    [q \in DOMAIN inspection.found \union {p} |->
        IF q = p THEN [seen |-> Observed(p), true |-> Truth(p)] ELSE inspection.found[q]]

LEMMA RunsInspected ==
    ASSUME IncidentTypeOK, InspectRuns
    PROVE  \E p \in Partitions :
              /\ p = Oldest(inspection.todo) /\ p \in inspection.todo
              /\ IsFound(Finds(p))
              /\ \/ inspection' = NoInspection /\ incident' = Finds(p) /\ asked' = inspection.asked
                 \/ /\ inspection.todo \ {p} # {}
                    /\ inspection' = [inspection EXCEPT !.at = "marts", !.todo = @ \ {p},
                                                        !.missing = {}, !.found = Finds(p)]
                    /\ UNCHANGED <<incident, asked>>
<1>1. PICK p : p = Oldest(inspection.todo)  OBVIOUS
<1>2. p \in inspection.todo /\ p \in Partitions
  <2>1. inspection.todo \subseteq Nat /\ inspection.todo # {} /\ inspection.todo \subseteq Partitions
    BY DEF InspectRuns, IncidentTypeOK, Partitions
  <2>. QED  BY <1>1, <2>1, OldestType
<1>3. IsFound(Finds(p))
  <2>1. Observed(p) \in Evidence /\ Truth(p) \in Truths  BY <1>2, FindingType
  <2>. QED  BY <1>2, <2>1 DEF IncidentTypeOK, IsFound, Finds
<1>4. \/ inspection' = NoInspection /\ incident' = Finds(p) /\ asked' = inspection.asked
      \/ /\ inspection.todo # {p}
         /\ inspection' = [inspection EXCEPT !.at = "marts", !.todo = @ \ {p},
                                             !.missing = {}, !.found = Finds(p)]
         /\ UNCHANGED <<incident, asked>>
  BY <1>1 DEF InspectRuns, Finds
<1>5. inspection.todo # {p} => inspection.todo \ {p} # {}  BY <1>2
<1>. QED  BY <1>1, <1>2, <1>3, <1>4, <1>5

LEMMA IncidentTypeStep ==
    ASSUME SensorInv, RunsInv, IncidentTypeOK, [IncidentNext]_incidentVars
    PROVE  IncidentTypeOK'
<1>0. TypeOK'
  <2>1. TypeOK  BY DEF IncidentTypeOK
  <2>. QED  BY <2>1, AgentLeavesRecovery, TypeStep
<1>1. CASE UNCHANGED <<inspection, incident, asked, cases>>
  BY <1>0, <1>1 DEF IncidentTypeOK, IsFound
<1>2. CASE StartInspection
  <2>1. PICK first \in Partitions : \E last \in first..Days :
           inspection' = [NoInspection EXCEPT
              !.at = "marts", !.asked = Len(cases), !.todo = first..last,
              !.overdue = PastDeadline, !.watched = Overdue, !.healthy = up]
    BY <1>2 DEF StartInspection
  <2>2. PICK last \in first..Days :
           inspection' = [NoInspection EXCEPT
              !.at = "marts", !.asked = Len(cases), !.todo = first..last,
              !.overdue = PastDeadline, !.watched = Overdue, !.healthy = up]
    BY <2>1
  <2>3. inspection' =
           [at |-> "marts", asked |-> Len(cases), todo |-> first..last, overdue |-> PastDeadline,
            watched |-> Overdue, healthy |-> up, missing |-> {}, found |-> <<>>]
    BY <2>2 DEF NoInspection
  <2>4. /\ first..last \subseteq Partitions /\ first..last # {}
        /\ PastDeadline \subseteq Partitions /\ Overdue \subseteq Partitions
    <3>1. first \in Nat /\ Days \in Nat /\ first >= 1 /\ last \in Nat /\ first <= last /\ last <= Days
      BY RecoveryAssumption DEF Partitions
    <3>2. first \in first..last /\ first..last \subseteq 1..Days  BY <3>1
    <3>. QED  BY <3>2 DEF Partitions, PastDeadline, Overdue
  <2>5. Len(cases) \in Nat /\ up \in BOOLEAN  BY DEF IncidentTypeOK, TypeOK
  <2>6. IsFound(<<>>)  BY DEF IsFound
  <2>7. UNCHANGED <<incident, asked, cases>>  BY <1>2 DEF StartInspection
  <2>8. IsFound(inspection'.found)  BY <2>3, <2>6
  <2>9. /\ inspection' \in [at : {"idle", "marts", "runs"}, asked : Nat, todo : SUBSET Partitions,
                            overdue : SUBSET Partitions, watched : SUBSET Partitions,
                            healthy : BOOLEAN, missing : SUBSET Marts, found : {inspection'.found}]
        /\ inspection'.todo # {} /\ inspection'.asked \in 0..Len(cases)
    BY <2>3, <2>4, <2>5
  <2>. QED  BY <1>0, <2>7, <2>8, <2>9 DEF IncidentTypeOK, IsFound
<1>3. CASE InspectMarts
  <2>1. PICK m \in SUBSET Marts : inspection' = [inspection EXCEPT !.at = "runs", !.missing = m]
    BY <1>3 DEF InspectMarts
  <2>2. /\ inspection'.found = inspection.found /\ inspection'.todo = inspection.todo
        /\ inspection'.asked = inspection.asked /\ inspection.at = "marts"
        /\ inspection' \in [at : {"idle", "marts", "runs"}, asked : Nat, todo : SUBSET Partitions,
                            overdue : SUBSET Partitions, watched : SUBSET Partitions,
                            healthy : BOOLEAN, missing : SUBSET Marts, found : {inspection'.found}]
    BY <1>3, <2>1 DEF InspectMarts, IncidentTypeOK
  <2>3. UNCHANGED <<incident, asked, cases>>  BY <1>3 DEF InspectMarts
  <2>. QED  BY <1>0, <2>2, <2>3 DEF IncidentTypeOK, IsFound
<1>4. CASE InspectRuns
  <2>0. UNCHANGED cases  BY <1>4 DEF InspectRuns
  <2>1. PICK p \in Partitions :
              /\ p = Oldest(inspection.todo) /\ p \in inspection.todo
              /\ IsFound(Finds(p))
              /\ \/ inspection' = NoInspection /\ incident' = Finds(p) /\ asked' = inspection.asked
                 \/ /\ inspection.todo \ {p} # {}
                    /\ inspection' = [inspection EXCEPT !.at = "marts", !.todo = @ \ {p},
                                                        !.missing = {}, !.found = Finds(p)]
                    /\ UNCHANGED <<incident, asked>>
    BY <1>4, RunsInspected
  <2>2. CASE inspection' = NoInspection /\ incident' = Finds(p) /\ asked' = inspection.asked
    <3>1. IsFound(<<>>)  BY DEF IsFound
    <3>2. /\ inspection' \in [at : {"idle", "marts", "runs"}, asked : Nat, todo : SUBSET Partitions,
                              overdue : SUBSET Partitions, watched : SUBSET Partitions,
                              healthy : BOOLEAN, missing : SUBSET Marts,
                              found : {inspection'.found}]
          /\ inspection'.at = "idle" /\ inspection'.asked = 0 /\ inspection'.found = <<>>
      BY <2>2 DEF NoInspection
    <3>3. IsFound(inspection'.found) /\ IsFound(incident')  BY <2>1, <2>2, <3>1, <3>2
    <3>. QED  BY <1>0, <2>0, <2>2, <3>2, <3>3 DEF IncidentTypeOK, IsFound
  <2>3. CASE /\ inspection.todo \ {p} # {}
             /\ inspection' = [inspection EXCEPT !.at = "marts", !.todo = @ \ {p},
                                                 !.missing = {}, !.found = Finds(p)]
             /\ UNCHANGED <<incident, asked>>
    <3>1. /\ inspection' \in [at : {"idle", "marts", "runs"}, asked : Nat, todo : SUBSET Partitions,
                              overdue : SUBSET Partitions, watched : SUBSET Partitions,
                              healthy : BOOLEAN, missing : SUBSET Marts,
                              found : {inspection'.found}]
          /\ inspection'.todo # {} /\ inspection'.asked = inspection.asked
          /\ inspection'.found = Finds(p)
      BY <2>3 DEF IncidentTypeOK
    <3>2. IsFound(inspection'.found) /\ IsFound(incident')
      BY <2>1, <2>3, <3>1 DEF IncidentTypeOK
    <3>. QED  BY <1>0, <2>0, <2>3, <3>1, <3>2 DEF IncidentTypeOK, IsFound
  <2>. QED  BY <2>1, <2>2, <2>3
<1>5. CASE Prepare
  <2>1. PICK k \in Case : cases' = Append(cases, k)  BY <1>5, CasePrepared
  <2>2. cases' \in Seq(Case) /\ Len(cases') = Len(cases) + 1 /\ Len(cases) \in Nat
    BY <2>1 DEF IncidentTypeOK
  <2>3. UNCHANGED <<inspection, incident, asked>>  BY <1>5 DEF Prepare
  <2>. QED  BY <1>0, <2>2, <2>3 DEF IncidentTypeOK, IsFound
<1>6. ASSUME NEW c \in DOMAIN cases,
             TtlElapses(c) \/ HumanDecision(c) \/ Expire(c) \/ ValidateEligible(c)
      PROVE  IncidentTypeOK'
  BY <1>0, <1>6, CaseChanges DEF IncidentTypeOK, IsFound
<1>. QED
  BY <1>1, <1>2, <1>3, <1>4, <1>5, <1>6 DEF IncidentNext, AgentStep, incidentVars

-----------------------------------------------------------------------------
(* Where what is found, and what the cases rest on, comes from.            *)
New(p) == [seen |-> Observed(p), true |-> Truth(p)]

FoundFrom(p) ==
    /\ inspection'.asked = inspection.asked
    /\ \/ p \in DOMAIN inspection.found /\ inspection'.found[p] = inspection.found[p]
       \/ InspectRuns /\ p = Oldest(inspection.todo) /\ inspection'.found[p] = New(p)

IncidentFrom(p) ==
    \/ p \in DOMAIN incident /\ incident'[p] = incident[p] /\ asked' = asked
    \/ /\ asked' = inspection.asked
       /\ \/ p \in DOMAIN inspection.found /\ incident'[p] = inspection.found[p]
          \/ InspectRuns /\ p = Oldest(inspection.todo) /\ incident'[p] = New(p)

SameCase(c) ==
    cases'[c].partition = cases[c].partition /\ cases'[c].evidence = cases[c].evidence

CaseFrom(c) ==
    \/ c \in DOMAIN cases /\ SameCase(c)
    \/ \E p \in DOMAIN incident :
          cases'[c].partition = p /\ cases'[c].evidence = incident[p].seen

LEMMA Origins ==
    ASSUME IncidentTypeOK, [IncidentNext]_incidentVars
    PROVE  /\ \A p \in DOMAIN inspection'.found : FoundFrom(p)
           /\ \A p \in DOMAIN incident' : IncidentFrom(p)
           /\ \A c \in DOMAIN cases' : CaseFrom(c)
           /\ \A c \in DOMAIN cases : c \in DOMAIN cases' /\ SameCase(c)
<1>. DEFINE Founds == \A p \in DOMAIN inspection'.found : FoundFrom(p)
            Incidents == \A p \in DOMAIN incident' : IncidentFrom(p)
            Cases == /\ \A c \in DOMAIN cases' : CaseFrom(c)
                     /\ \A c \in DOMAIN cases : c \in DOMAIN cases' /\ SameCase(c)
<1>1. UNCHANGED inspection => Founds  BY DEF FoundFrom
<1>2. UNCHANGED <<incident, asked>> => Incidents  BY DEF IncidentFrom
<1>3. UNCHANGED cases => Cases  BY DEF CaseFrom, SameCase
<1>4. CASE UNCHANGED <<inspection, incident, asked, cases>>
  BY <1>1, <1>2, <1>3, <1>4
<1>5. CASE StartInspection
  <2>1. inspection'.found = <<>>  BY <1>5 DEF StartInspection, NoInspection
  <2>2. Founds  BY <2>1
  <2>3. UNCHANGED <<incident, asked>> /\ UNCHANGED cases  BY <1>5 DEF StartInspection
  <2>. QED  BY <1>2, <1>3, <2>2, <2>3
<1>6. CASE InspectMarts
  <2>1. inspection'.found = inspection.found /\ inspection'.asked = inspection.asked
    BY <1>6 DEF InspectMarts, IncidentTypeOK
  <2>2. Founds  BY <2>1 DEF FoundFrom
  <2>3. UNCHANGED <<incident, asked>> /\ UNCHANGED cases  BY <1>6 DEF InspectMarts
  <2>. QED  BY <1>2, <1>3, <2>2, <2>3
<1>7. CASE InspectRuns
  <2>1. PICK p \in Partitions :
              /\ p = Oldest(inspection.todo) /\ p \in inspection.todo
              /\ \/ inspection' = NoInspection /\ incident' = Finds(p) /\ asked' = inspection.asked
                 \/ /\ inspection' = [inspection EXCEPT !.at = "marts", !.todo = @ \ {p},
                                                        !.missing = {}, !.found = Finds(p)]
                    /\ UNCHANGED <<incident, asked>>
    BY <1>7, RunsInspected
  <2>2. DOMAIN Finds(p) = DOMAIN inspection.found \union {p}  BY DEF Finds
  <2>3. \A q \in DOMAIN Finds(p) :
           \/ q \in DOMAIN inspection.found /\ Finds(p)[q] = inspection.found[q]
           \/ q = p /\ Finds(p)[q] = New(p)
    BY DEF Finds, New
  <2>4. UNCHANGED cases  BY <1>7 DEF InspectRuns
  <2>5. CASE inspection' = NoInspection /\ incident' = Finds(p) /\ asked' = inspection.asked
    <3>1. Founds  BY <2>5 DEF NoInspection
    <3>2. Incidents  BY <1>7, <2>1, <2>3, <2>5 DEF IncidentFrom
    <3>. QED  BY <1>3, <2>4, <3>1, <3>2
  <2>6. CASE /\ inspection' = [inspection EXCEPT !.at = "marts", !.todo = @ \ {p},
                                                 !.missing = {}, !.found = Finds(p)]
             /\ UNCHANGED <<incident, asked>>
    <3>1. inspection'.found = Finds(p) /\ inspection'.asked = inspection.asked
      BY <2>6 DEF IncidentTypeOK
    <3>2. Founds  BY <1>7, <2>1, <2>3, <3>1 DEF FoundFrom
    <3>. QED  BY <1>2, <1>3, <2>4, <2>6, <3>2
  <2>. QED  BY <2>1, <2>5, <2>6
<1>8. CASE Prepare
  <2>1. PICK p \in Planned(incident), k \in Case :
           cases' = Append(cases, k) /\ k.partition = p /\ k.evidence = incident[p].seen
    BY <1>8, CasePrepared
  <2>2. p \in DOMAIN incident  BY DEF Planned
  <2>3. cases \in Seq(Case)  BY DEF IncidentTypeOK
  <2>4. /\ DOMAIN cases' = DOMAIN cases \union {Len(cases) + 1}
        /\ \A c \in DOMAIN cases : cases'[c] = cases[c]
        /\ cases'[Len(cases) + 1] = k
    BY <2>1, <2>3
  <2>5. Cases  BY <2>1, <2>2, <2>4 DEF CaseFrom, SameCase
  <2>6. UNCHANGED inspection /\ UNCHANGED <<incident, asked>>  BY <1>8 DEF Prepare
  <2>. QED  BY <1>1, <1>2, <2>5, <2>6
<1>9. ASSUME NEW c \in DOMAIN cases,
             TtlElapses(c) \/ HumanDecision(c) \/ Expire(c) \/ ValidateEligible(c)
      PROVE  Founds /\ Incidents /\ Cases
  <2>1. /\ cases' \in Seq(Case) /\ Len(cases') = Len(cases)
        /\ \A d \in DOMAIN cases : SameCase(d)
        /\ UNCHANGED <<inspection, incident, asked>>
    BY <1>9, CaseChanges DEF SameCase
  <2>2. DOMAIN cases' = DOMAIN cases  BY <2>1 DEF IncidentTypeOK
  <2>3. Cases  BY <2>1, <2>2 DEF CaseFrom
  <2>. QED  BY <1>1, <1>2, <2>1, <2>3
<1>. QED
  BY <1>4, <1>5, <1>6, <1>7, <1>8, <1>9 DEF IncidentNext, AgentStep, incidentVars

-----------------------------------------------------------------------------
(* What evidence says of ended runs stays true.                            *)
LEMMA EvidenceStep ==
    ASSUME SensorInv, RunsInv, IncidentTypeOK, EvidenceInv, [IncidentNext]_incidentVars
    PROVE  EvidenceInv'
<1>0. TypeOK /\ [Next]_vars  BY AgentLeavesRecovery DEF IncidentTypeOK
<1>. DEFINE Ended2(p, e) ==
       \A i \in e.failed \union e.successful : i \in DOMAIN runs'[p] /\ runs'[p][i].status # "active"
<1>1. ASSUME NEW p \in Partitions, NEW e, StillEnded(p, e) PROVE Ended2(p, e)
  BY <1>0, <1>1, RunsGoOn DEF StillEnded
<1>2. ASSUME NEW p \in Partitions, InspectRuns PROVE Ended2(p, Observed(p))
  <2>1. UNCHANGED runs  BY <1>2 DEF InspectRuns, vars
  <2>. QED  BY <2>1 DEF Observed, WithStatus
<1>3. /\ DOMAIN inspection.found \subseteq Partitions /\ DOMAIN incident \subseteq Partitions
      /\ \A c \in DOMAIN cases : cases[c].partition \in Partitions
  <2>1. \A c \in DOMAIN cases : cases[c] \in Case  BY DEF IncidentTypeOK
  <2>. QED  BY <2>1 DEF IncidentTypeOK, IsFound, Case
<1>4. IncidentTypeOK'  BY IncidentTypeStep
<1>5. DOMAIN inspection'.found \subseteq Partitions /\ DOMAIN incident' \subseteq Partitions
  BY <1>4 DEF IncidentTypeOK, IsFound
<1>6. ASSUME NEW p \in DOMAIN inspection'.found PROVE Ended2(p, inspection'.found[p].seen)
  <2>1. FoundFrom(p)  BY Origins
  <2>2. CASE p \in DOMAIN inspection.found /\ inspection'.found[p] = inspection.found[p]
    BY <1>1, <1>3, <2>2 DEF EvidenceInv
  <2>3. CASE InspectRuns /\ inspection'.found[p] = New(p)
    <3>1. inspection'.found[p].seen = Observed(p)  BY <2>3 DEF New
    <3>. QED  BY <1>2, <1>5, <2>3, <3>1
  <2>. QED  BY <2>1, <2>2, <2>3 DEF FoundFrom
<1>7. ASSUME NEW p \in DOMAIN incident' PROVE Ended2(p, incident'[p].seen)
  <2>1. IncidentFrom(p)  BY Origins
  <2>2. CASE p \in DOMAIN incident /\ incident'[p] = incident[p]
    BY <1>1, <1>3, <2>2 DEF EvidenceInv
  <2>3. CASE p \in DOMAIN inspection.found /\ incident'[p] = inspection.found[p]
    BY <1>1, <1>3, <2>3 DEF EvidenceInv
  <2>4. CASE InspectRuns /\ incident'[p] = New(p)
    <3>1. incident'[p].seen = Observed(p)  BY <2>4 DEF New
    <3>. QED  BY <1>2, <1>5, <2>4, <3>1
  <2>. QED  BY <2>1, <2>2, <2>3, <2>4 DEF IncidentFrom
<1>8. ASSUME NEW c \in DOMAIN cases' PROVE Ended2(cases'[c].partition, cases'[c].evidence)
  <2>1. CaseFrom(c)  BY Origins
  <2>2. CASE c \in DOMAIN cases /\ SameCase(c)
    BY <1>1, <1>3, <2>2 DEF EvidenceInv, SameCase
  <2>3. ASSUME NEW p \in DOMAIN incident,
               cases'[c].partition = p, cases'[c].evidence = incident[p].seen
        PROVE  Ended2(cases'[c].partition, cases'[c].evidence)
    BY <1>1, <1>3, <2>3 DEF EvidenceInv
  <2>. QED  BY <2>1, <2>2, <2>3 DEF CaseFrom
<1>. QED  BY <1>6, <1>7, <1>8 DEF EvidenceInv, StillEnded

-----------------------------------------------------------------------------
(* While an inspection is between the marts and the runs of a partition.   *)
LEMMA MartsStep ==
    ASSUME SensorInv, RunsInv, IncidentTypeOK, EvidenceInv, MartsInv,
           [IncidentNext]_incidentVars
    PROVE  MartsInv'
<1>0. TypeOK /\ [Next]_vars  BY AgentLeavesRecovery DEF IncidentTypeOK
<1>1. CASE UNCHANGED inspection
  <2>. SUFFICES ASSUME inspection.at = "runs", inspection.missing # {},
                       NEW p, p = Oldest(inspection.todo), NEW c \in 1..inspection.asked,
                       cases'[c].partition = p, materialized'[p] = Marts
                PROVE  \E i \in DOMAIN runs'[p] :
                          i \notin cases'[c].evidence.failed \union cases'[c].evidence.successful
    BY <1>1 DEF MartsInv
  <2>1. c \in DOMAIN cases /\ cases[c] \in Case  BY DEF IncidentTypeOK
  <2>2. cases[c].partition = p /\ cases'[c].evidence = cases[c].evidence
    BY <2>1, Origins DEF SameCase
  <2>3. p \in Partitions  BY <2>1, <2>2 DEF Case
  <2>4. CASE materialized[p] = Marts
    <3>1. PICK i \in DOMAIN runs[p] :
             i \notin cases[c].evidence.failed \union cases[c].evidence.successful
      BY <2>2, <2>4 DEF MartsInv
    <3>. QED  BY <1>0, <2>2, <2>3, <3>1, RunsGoOn
  <2>5. CASE materialized[p] # Marts
    <3>1. PICK i \in DOMAIN runs[p] : runs[p][i].status = "active"
      BY <1>0, <2>3, <2>5, RunsGoOn
    <3>2. i \notin cases[c].evidence.failed \union cases[c].evidence.successful
      BY <2>1, <2>2, <3>1 DEF EvidenceInv, StillEnded
    <3>. QED  BY <1>0, <2>2, <2>3, <3>1, <3>2, RunsGoOn
  <2>. QED  BY <2>4, <2>5
<1>2. CASE StartInspection
  <2>1. inspection'.at = "marts"  BY <1>2 DEF StartInspection, NoInspection
  <2>. QED  BY <2>1 DEF MartsInv
<1>3. CASE InspectMarts
  <2>1. /\ inspection'.todo = inspection.todo
        /\ inspection'.missing = Marts \ materialized[Oldest(inspection.todo)]
    BY <1>3 DEF InspectMarts, IncidentTypeOK
  <2>2. UNCHANGED materialized  BY <1>3 DEF InspectMarts, vars
  <2>. QED  BY <2>1, <2>2 DEF MartsInv
<1>4. CASE InspectRuns
  <2>1. \/ inspection' = NoInspection
        \/ \E p, f : inspection' = [inspection EXCEPT !.at = "marts", !.todo = @ \ {p},
                                                      !.missing = {}, !.found = f]
    BY <1>4, RunsInspected
  <2>2. inspection'.at # "runs"
    <3>1. CASE inspection' = NoInspection  BY <3>1 DEF NoInspection
    <3>2. ASSUME NEW p, NEW f,
                 inspection' = [inspection EXCEPT !.at = "marts", !.todo = @ \ {p},
                                                  !.missing = {}, !.found = f]
          PROVE  inspection'.at = "marts"
      BY <3>2 DEF IncidentTypeOK
    <3>. QED  BY <2>1, <3>1, <3>2
  <2>. QED  BY <2>2 DEF MartsInv
<1>. QED
  BY <1>1, <1>2, <1>3, <1>4 DEF IncidentNext, AgentStep, incidentVars, Prepare, TtlElapses,
     HumanDecision, Expire, Appended, ValidateEligible

(* What the runs show, if an older case saw the same, really was so.       *)
LEMMA NewIsTrue ==
    ASSUME IncidentTypeOK, EvidenceInv, MartsInv, InspectRuns,
           NEW p \in Partitions, p = Oldest(inspection.todo)
    PROVE  IsTrue(p, New(p), inspection.asked)
<1>1. New(p).true.held => New(p).seen.active # {}  BY DEF New, Observed, Truth
<1>2. ASSUME NEW c \in 1..inspection.asked, cases[c].partition = p,
             cases[c].evidence = Observed(p), inspection.missing # {},
             WithStatus(p, "active") = {}
      PROVE  materialized[p] # Marts
  <2>1. /\ cases[c].evidence.failed = WithStatus(p, "failed")
        /\ cases[c].evidence.successful = WithStatus(p, "success")
    BY <1>2 DEF Observed
  <2>2. runs[p] \in Seq(Run)  BY DEF IncidentTypeOK, TypeOK
  <2>3. \A i \in DOMAIN runs[p] : runs[p][i].status \in {"active", "failed", "success"}
    <3>1. \A i \in DOMAIN runs[p] : runs[p][i] \in Run  BY <2>2
    <3>. QED  BY <3>1 DEF Run
  <2>4. \A i \in DOMAIN runs[p] :
           i \in cases[c].evidence.failed \union cases[c].evidence.successful
    BY <1>2, <2>1, <2>3 DEF WithStatus
  <2>5. inspection.at = "runs"  BY DEF InspectRuns
  <2>. QED  BY <1>2, <2>4, <2>5 DEF MartsInv
<1>3. /\ New(p).seen = Observed(p) /\ New(p).seen.active = WithStatus(p, "active")
      /\ New(p).seen.missing = inspection.missing /\ New(p).true.complete = (materialized[p] = Marts)
  BY DEF New, Observed, Truth
<1>. QED  BY <1>1, <1>2, <1>3 DEF IsTrue, Complete

LEMMA FoundStep ==
    ASSUME IncidentTypeOK, EvidenceInv, MartsInv, FoundInv, [IncidentNext]_incidentVars
    PROVE  FoundInv'
<1>. DEFINE True2(p, x, n) ==
       /\ x.true.held => x.seen.active # {}
       /\ \A c \in 1..n :
             cases'[c].partition = p /\ cases'[c].evidence = x.seen =>
                 x.seen.missing = {} \/ x.seen.active # {} \/ ~x.true.complete
<1>1. ASSUME NEW p, NEW x, NEW n \in 0..Len(cases), IsTrue(p, x, n) PROVE True2(p, x, n)
  <2>1. \A c \in 1..n : c \in DOMAIN cases  BY DEF IncidentTypeOK
  <2>2. \A c \in DOMAIN cases : SameCase(c)  BY Origins
  <2>. QED  BY <1>1, <2>1, <2>2 DEF IsTrue, SameCase, Complete
<1>2. asked \in 0..Len(cases) /\ inspection.asked \in 0..Len(cases)  BY DEF IncidentTypeOK
<1>3. ASSUME NEW p, InspectRuns, p = Oldest(inspection.todo)
      PROVE  True2(p, New(p), inspection.asked)
  <2>1. p \in Partitions  BY <1>3, RunsInspected
  <2>2. PICK x : x = New(p)  OBVIOUS
  <2>3. IsTrue(p, x, inspection.asked)  BY <1>3, <2>1, <2>2, NewIsTrue
  <2>. QED  BY <1>1, <1>2, <2>2, <2>3
<1>4. ASSUME NEW p \in DOMAIN inspection'.found
      PROVE  True2(p, inspection'.found[p], inspection'.asked)
  <2>1. FoundFrom(p)  BY Origins
  <2>2. CASE p \in DOMAIN inspection.found /\ inspection'.found[p] = inspection.found[p]
    BY <1>1, <1>2, <2>1, <2>2 DEF FoundInv, FoundFrom
  <2>3. CASE InspectRuns /\ p = Oldest(inspection.todo) /\ inspection'.found[p] = New(p)
    BY <1>3, <2>1, <2>3 DEF FoundFrom
  <2>. QED  BY <2>1, <2>2, <2>3 DEF FoundFrom
<1>5. ASSUME NEW p \in DOMAIN incident' PROVE True2(p, incident'[p], asked')
  <2>1. IncidentFrom(p)  BY Origins
  <2>2. CASE p \in DOMAIN incident /\ incident'[p] = incident[p] /\ asked' = asked
    BY <1>1, <1>2, <2>2 DEF FoundInv
  <2>3. CASE /\ p \in DOMAIN inspection.found /\ incident'[p] = inspection.found[p]
             /\ asked' = inspection.asked
    BY <1>1, <1>2, <2>3 DEF FoundInv
  <2>4. CASE /\ InspectRuns /\ p = Oldest(inspection.todo) /\ incident'[p] = New(p)
             /\ asked' = inspection.asked
    BY <1>3, <2>4
  <2>. QED  BY <2>1, <2>2, <2>3, <2>4 DEF IncidentFrom
<1>. QED  BY <1>4, <1>5 DEF FoundInv, IsTrue, Complete

(* A grant rests on the incident of an inspection that began after its     *)
(* case was prepared, and on evidence that still is that of the case.      *)
LEMMA GrantsStep ==
    ASSUME IncidentTypeOK, FoundInv, GrantsAreTrue, [IncidentNext]_incidentVars
    PROVE  GrantsAreTrue'
<1>1. ASSUME NEW c \in DOMAIN cases, ValidateEligible(c)
      PROVE  LET t == incident[cases[c].partition].true IN ~t.complete /\ ~t.held
  <2>1. PICK p : p = cases[c].partition  OBVIOUS
  <2>2. PICK x : x = incident[p]  OBVIOUS
  <2>3. /\ p \in DOMAIN incident /\ ~Complete(x.seen) /\ HumanSteps(x.seen) # {}
        /\ x.seen = cases[c].evidence /\ c <= asked
    BY <1>1, <2>1, <2>2 DEF ValidateEligible, FindCurrentFingerprint, Planned
  <2>4. x.seen \in Evidence  BY <2>2, <2>3 DEF IncidentTypeOK, IsFound
  <2>5. x.seen.active = {}  BY <2>3, <2>4, NobodyActsDuringARun
  <2>6. c \in 1..asked  BY <2>3 DEF IncidentTypeOK
  <2>7. IsTrue(p, x, asked)  BY <2>2, <2>3 DEF FoundInv
  <2>. QED  BY <2>1, <2>2, <2>3, <2>5, <2>6, <2>7 DEF IsTrue
<1>2. CASE UNCHANGED cases  BY <1>2 DEF GrantsAreTrue
<1>3. CASE Prepare
  <2>1. PICK k \in Case : cases' = Append(cases, k) /\ k.granted = {}  BY <1>3, CasePrepared
  <2>2. /\ DOMAIN cases' = DOMAIN cases \union {Len(cases) + 1}
        /\ \A c \in DOMAIN cases : cases'[c] = cases[c]
        /\ cases'[Len(cases) + 1] = k
    BY <2>1 DEF IncidentTypeOK
  <2>. QED  BY <2>1, <2>2 DEF GrantsAreTrue
<1>4. ASSUME NEW c \in DOMAIN cases,
             TtlElapses(c) \/ HumanDecision(c) \/ Expire(c) \/ ValidateEligible(c)
      PROVE  GrantsAreTrue'
  <2>1. /\ cases' \in Seq(Case) /\ Len(cases') = Len(cases)
        /\ \A d \in DOMAIN cases :
              \/ cases'[d].granted = cases[d].granted
              \/ /\ ValidateEligible(d)
                 /\ cases'[d].granted =
                       cases[d].granted \union {incident[cases[d].partition].true}
    BY <1>4, CaseChanges
  <2>2. DOMAIN cases' = DOMAIN cases  BY <2>1 DEF IncidentTypeOK
  <2>. QED  BY <1>1, <2>1, <2>2 DEF GrantsAreTrue
<1>. QED
  BY <1>2, <1>3, <1>4 DEF IncidentNext, AgentStep, incidentVars, StartInspection, InspectMarts,
     InspectRuns

-----------------------------------------------------------------------------
LEMMA IncidentInitially == IncidentInit => IncidentInv
<1>. SUFFICES ASSUME IncidentInit PROVE IncidentInv
  OBVIOUS
<1>1. TypeOK /\ SensorInv /\ ReplayInv  BY Initially DEF IncidentInit
<1>2. inspection = NoInspection /\ incident = <<>> /\ asked = 0 /\ cases = <<>>
  BY DEF IncidentInit
<1>3. DOMAIN inspection.found = {} /\ DOMAIN incident = {} /\ DOMAIN cases = {}
  BY <1>2 DEF NoInspection
<1>4. IncidentTypeOK
  <2>1. IsFound(<<>>)  BY DEF IsFound
  <2>. QED  BY <1>1, <1>2, <2>1 DEF IncidentTypeOK, NoInspection
<1>5. EvidenceInv /\ FoundInv /\ GrantsAreTrue
  BY <1>3 DEF EvidenceInv, FoundInv, GrantsAreTrue
<1>6. MartsInv  BY <1>2 DEF MartsInv, NoInspection
<1>. QED  BY <1>1, <1>4, <1>5, <1>6 DEF IncidentInv

LEMMA IncidentStep == IncidentInv /\ [IncidentNext]_incidentVars => IncidentInv'
<1>. SUFFICES ASSUME IncidentInv, [IncidentNext]_incidentVars PROVE IncidentInv'
  OBVIOUS
<1>1. TypeOK /\ SensorInv /\ ReplayInv /\ RunsInv  BY DEF IncidentInv, IncidentTypeOK, ReplayInv
<1>2. SensorInv' /\ ReplayInv'  BY <1>1, AgentLeavesRecovery, TypeStep, ReplayStep
<1>. QED
  BY <1>1, <1>2, IncidentTypeStep, EvidenceStep, MartsStep, FoundStep, GrantsStep DEF IncidentInv

(* The inductive invariant of incidents and approvals: what was seen of    *)
(* ended runs stays true, and what an inspection finds again, as an older  *)
(* case saw it, was so at the moment it read the runs.                     *)
THEOREM IncidentInvariant == IncidentSpec => []IncidentInv
  BY IncidentInitially, IncidentStep, PTL DEF IncidentSpec

(* Inspections, plans and approvals never disturb the recovery: everything *)
(* proved of it holds while they go on.                                    *)
THEOREM IncidentsLeaveRecoveryAlone == IncidentSpec => Spec
<1>1. IncidentInit => Init  BY DEF IncidentInit
<1>. QED  BY <1>1, AgentLeavesRecovery, PTL DEF IncidentSpec, Spec

(* Evidence, incidents and cases are well typed, and no case is counted    *)
(* that is not there.                                                      *)
THEOREM IncidentTypeCorrect == IncidentSpec => []IncidentTypeOK
<1>1. IncidentInv => IncidentTypeOK  BY DEF IncidentInv
<1>. QED  BY <1>1, IncidentInvariant, PTL

(* An approved action is found eligible only if its partition really was   *)
(* incomplete and no run held it when the last inspection read its runs.   *)
THEOREM ApprovedActionsAreWarranted == IncidentSpec => []GrantsAreTrue
<1>1. IncidentInv => GrantsAreTrue  BY DEF IncidentInv
<1>. QED  BY <1>1, IncidentInvariant, PTL

-----------------------------------------------------------------------------
(* Promotion: from measurements to a change package.                       *)
PromotionInv == DocumentsInv /\ ProgramInv /\ PackageIsAuthorized

(* Agree: there is one value.                                              *)
LEMMA AgreeIsOne ==
    ASSUME NEW S, IsFiniteSet(S), Agree(S)
    PROVE  \E x : S = {x}
  BY FS_Singleton DEF Agree

LEMMA OneAgrees == \A x : Agree({x})
  BY FS_Singleton DEF Agree

(* What holds of a document stays true as time passes.                     *)
LEMMA DocumentsStay ==
    ASSUME clock \in Nat, clock' \in Nat, clock <= clock'
    PROVE  /\ \A r : IsReview(r) => IsReview(r)'
           /\ \A d : IsDecision(d) => IsDecision(d)'
           /\ \A r : IsRecord(r) => IsRecord(r)'
<1>1. ASSUME NEW r, IsReview(r) PROVE IsReview(r)'
  BY <1>1 DEF IsReview
<1>2. ASSUME NEW d, IsDecision(d) PROVE IsDecision(d)'
  BY <1>1, <1>2 DEF IsDecision
<1>3. ASSUME NEW r, IsRecord(r) PROVE IsRecord(r)'
  <2>1. r.decision.at \in Nat  BY <1>3 DEF IsRecord, IsDecision
  <2>. QED  BY <1>2, <1>3, <2>1 DEF IsRecord
<1>. QED  BY <1>1, <1>2, <1>3

(* A review that is ready is of enough runs of one build and one window.   *)
LEMMA ReviewIsGood ==
    ASSUME DocumentsInv, Review
    PROVE  IsReview(review')
<1>1. PICK reports \in SUBSET lab, runs0 \in SUBSET staging, twice \in BOOLEAN, manifest \in Manifests :
         LET candidates == {r.candidate : r \in reports}
             candidate  == IF Agree(candidates) THEN CHOOSE w \in candidates : TRUE ELSE NoWindow
             base       == BaseStatus(reports, manifest, candidate)
             valid      == StagingValid(runs0, twice, manifest, candidate) IN
         /\ Comparable(reports)
         /\ review' = [kind |-> "review", reports |-> reports, runs |-> runs0, window |-> candidate,
                       at |-> clock,
                       status |-> IF base = "READY" /\ ~valid
                                  THEN "STAGING_CALIBRATION_EVIDENCE_REQUIRED" ELSE base]
  BY DEF Review
<1>. DEFINE candidates == {r.candidate : r \in reports}
            candidate  == IF Agree(candidates) THEN CHOOSE w \in candidates : TRUE ELSE NoWindow
            base       == BaseStatus(reports, manifest, candidate)
            valid      == StagingValid(runs0, twice, manifest, candidate)
<1>2. /\ Cardinality(reports) >= Minimum /\ Agree({e.method : e \in reports})
      /\ review' = [kind |-> "review", reports |-> reports, runs |-> runs0, window |-> candidate,
                    at |-> clock,
                    status |-> IF base = "READY" /\ ~valid
                               THEN "STAGING_CALIBRATION_EVIDENCE_REQUIRED" ELSE base]
  BY <1>1 DEF Comparable
<1>. HIDE DEF candidate, base, valid
<1>3. /\ review'.kind = "review" /\ review'.reports = reports /\ review'.runs = runs0
      /\ review'.window = candidate /\ review'.at = clock
      /\ review'.status = "READY" => base = "READY" /\ valid
  BY <1>2
<1>4. ASSUME base = "READY", valid
      PROVE  /\ Cardinality(reports) >= Minimum /\ Cardinality(runs0) >= Minimum
             /\ Agree({e.build : e \in reports \union runs0})
             /\ {e.candidate : e \in reports} \union {e.window : e \in runs0} = {candidate}
  <2>1. /\ candidate # NoWindow /\ {r.build : r \in reports} = {manifest.build}
    BY <1>4 DEF BaseStatus, Representative, base
  <2>2. /\ Cardinality(runs0) >= Minimum
        /\ \A e \in runs0 : e.build = manifest.build /\ e.window = candidate
    BY <1>4 DEF StagingValid, RunValid, valid
  <2>3. candidates = {candidate}
    <3>1. Agree(candidates)  BY <2>1 DEF candidate
    <3>2. IsFiniteSet(candidates)
      <4>1. IsFiniteSet(reports)  BY FS_Subset DEF DocumentsInv
      <4>2. PICK f : f = [r \in reports |-> r.candidate]  OBVIOUS
      <4>3. f \in Surjection(reports, candidates)  BY <4>2 DEF Surjection
      <4>. QED  BY <4>1, <4>3, FS_Surjection
    <3>3. PICK x : candidates = {x}  BY <3>1, <3>2, AgreeIsOne
    <3>4. candidate \in candidates  BY <3>1, <3>3 DEF candidate
    <3>. QED  BY <3>3, <3>4
  <2>4. {e.build : e \in reports \union runs0} = {manifest.build}
    BY <2>1, <2>2
  <2>5. {e.candidate : e \in reports} \union {e.window : e \in runs0} = {candidate}
    BY <1>2, <2>2, <2>3
  <2>. QED  BY <1>2, <2>2, <2>4, <2>5, OneAgrees
<1>5. clock \in 0..clock  BY DEF DocumentsInv
<1>. QED  BY <1>2, <1>3, <1>4, <1>5, Zenon DEF IsReview

-----------------------------------------------------------------------------
(* The programs: what they have read is theirs.                            *)
LEMMA NoProgramLeft == ASSUME program' = NoProgram PROVE ProgramInv'
  BY DEF ProgramInv, NoProgram, RecordStages, ApprovedStages

LEMMA ProgramStays ==
    ASSUME ProgramInv, clock \in Nat, clock' \in Nat, clock <= clock', UNCHANGED program
    PROVE  ProgramInv'
<1>1. program.at \in RecordStages => IsDecision(program.decision)'
  BY DocumentsStay DEF ProgramInv
<1>2. ASSUME program.at \in {"package_value"} \union ApprovedStages
      PROVE  IsRecord(program.record)' /\ program.now \in program.record.decision.at..clock'
  <2>1. /\ IsRecord(program.record) /\ program.now \in program.record.decision.at..clock
        /\ program.record.decision.at \in Int
    BY <1>2 DEF ProgramInv, IsRecord, IsDecision
  <2>. QED  BY <2>1, DocumentsStay
<1>3. program.at \in ApprovedStages => StillApproved'
  BY DEF ProgramInv, StillApproved, Approvable
<1>4. ASSUME program.at \in {"record_check", "record_write"}
      PROVE  program.decision.at <= clock'
  <2>1. program.decision.at \in Nat /\ program.decision.at <= clock
    BY <1>4 DEF ProgramInv, IsDecision, RecordStages
  <2>. QED  BY <2>1
<1>. QED  BY <1>1, <1>2, <1>3, <1>4 DEF ProgramInv

LEMMA NextRecording ==
    ASSUME UNCHANGED clock,
           NEW at \in RecordStages, NEW d, NEW r, NEW from, NEW bytes,
           program' = [at |-> at, decision |-> d, review |-> r, from |-> from, bytes |-> bytes],
           IsDecision(d), DecisionValid(d, r),
           at \in {"record_check", "record_write"} => d.at <= clock
    PROVE  ProgramInv'
<1>1. /\ program'.at = at /\ program'.decision = d /\ program'.review = r
      /\ program'.from = from /\ program'.bytes = bytes
  OBVIOUS
<1>2. IsDecision(d)'  BY DEF IsDecision, IsReview
<1>3. at \notin {"package_value"} \union ApprovedStages
  BY DEF RecordStages, ApprovedStages
<1>4. ~(program'.at \in {"package_value"} \union ApprovedStages)
  BY <1>1, <1>3
<1>5. program'.at \in RecordStages  BY <1>1
<1>6. program'.at \in {"record_check", "record_write"} => program'.decision.at <= clock'
  BY <1>1
<1>7. IsDecision(program.decision)' /\ DecisionValid(program.decision, program.review)'
  BY <1>1, <1>2 DEF DecisionValid, Approvable
<1>8. program' = [at |-> program'.at, decision |-> program'.decision, review |-> program'.review,
                  from |-> program'.from, bytes |-> program'.bytes]
  BY <1>1
<1>. QED  BY <1>4, <1>5, <1>6, <1>7, <1>8 DEF ProgramInv

LEMMA NextPackaging ==
    ASSUME UNCHANGED clock,
           NEW at \in {"package_value"} \union ApprovedStages,
           NEW rec, NEW r, NEW now, NEW before, NEW text,
           program' = [at |-> at, record |-> rec, review |-> r, now |-> now, before |-> before,
                       text |-> text],
           IsRecord(rec), now \in rec.decision.at..clock,
           at \in ApprovedStages => /\ Approvable(r) /\ rec.review = r
                                    /\ rec.decision.verdict = "APPROVED"
                                    /\ now <= rec.decision.at + Ttl
    PROVE  ProgramInv'
<1>1. /\ program'.at = at /\ program'.record = rec /\ program'.review = r /\ program'.now = now
      /\ program'.before = before /\ program'.text = text
  OBVIOUS
<1>2. IsRecord(rec)'  BY DEF IsRecord, IsDecision, IsReview
<1>3. at \notin RecordStages
  BY DEF RecordStages, ApprovedStages
<1>4. at \in ApprovedStages => StillApproved'
  BY <1>1 DEF StillApproved
<1>5. at \notin {"record_check", "record_write"}  BY <1>3 DEF RecordStages
<1>. QED  BY <1>1, <1>2, <1>3, <1>4, <1>5 DEF ProgramInv

LEMMA RecordingKeeps ==
    ASSUME PromotionInv, StartRecord \/ ReadTargetBytes \/ CheckRecordValue
    PROVE  ProgramInv'
<1>0. ProgramInv /\ DocumentsInv /\ UNCHANGED clock
  BY DEF PromotionInv, StartRecord, ReadTargetBytes, CheckRecordValue, bounds
<1>1. CASE StartRecord
  <2>1. IsDecision(decision) /\ DecisionValid(decision, review)
    BY <1>0, <1>1 DEF StartRecord, DecisionValid, DocumentsInv
  <2>2. PICK from : program' = [at |-> "record_read", decision |-> decision, review |-> review,
                                from |-> from, bytes |-> None]
    BY <1>1 DEF StartRecord
  <2>3. "record_read" \in RecordStages  BY DEF RecordStages
  <2>. QED  BY <1>0, <2>1, <2>2, <2>3, NextRecording
<1>2. CASE ReadTargetBytes /\ program.decision.at <= clock
  <2>1. /\ program.at = "record_read" /\ program' = [program EXCEPT !.at = "record_check", !.bytes = target]
    BY <1>2 DEF ReadTargetBytes
  <2>2. /\ program = [at |-> program.at, decision |-> program.decision, review |-> program.review,
                      from |-> program.from, bytes |-> program.bytes]
        /\ IsDecision(program.decision) /\ DecisionValid(program.decision, program.review)
    BY <1>0, <2>1 DEF ProgramInv, RecordStages
  <2>3. program' = [at |-> "record_check", decision |-> program.decision, review |-> program.review,
                    from |-> program.from, bytes |-> target]
    BY <2>1, <2>2
  <2>4. "record_check" \in RecordStages  BY DEF RecordStages
  <2>. QED  BY <1>0, <1>2, <2>2, <2>3, <2>4, NextRecording
<1>3. CASE CheckRecordValue
  <2>1. /\ program.at = "record_check"
        /\ program' = [program EXCEPT !.at = "record_write"] \/ program' = NoProgram
    BY <1>3 DEF CheckRecordValue
  <2>2. /\ program = [at |-> program.at, decision |-> program.decision, review |-> program.review,
                      from |-> program.from, bytes |-> program.bytes]
        /\ IsDecision(program.decision) /\ DecisionValid(program.decision, program.review)
        /\ program.decision.at <= clock
    BY <1>0, <2>1 DEF ProgramInv, RecordStages
  <2>3. CASE program' = [program EXCEPT !.at = "record_write"]
    <3>1. program' = [at |-> "record_write", decision |-> program.decision, review |-> program.review,
                      from |-> program.from, bytes |-> program.bytes]
      BY <2>2, <2>3
    <3>2. "record_write" \in RecordStages  BY DEF RecordStages
    <3>. QED  BY <1>0, <2>2, <3>1, <3>2, NextRecording
  <2>. QED  BY <2>1, <2>3, NoProgramLeft
<1>4. CASE ReadTargetBytes /\ ~(program.decision.at <= clock)
  BY <1>4, NoProgramLeft DEF ReadTargetBytes
<1>. QED  BY <1>1, <1>2, <1>3, <1>4

LEMMA PackagingKeeps ==
    ASSUME PromotionInv,
           \/ StartPackage \/ RevalidateValue \/ RevalidateBytes \/ ReadText \/ BuildProposal
           \/ CheckUntouched \/ CheckDiff
    PROVE  ProgramInv'
<1>0. ProgramInv /\ DocumentsInv /\ UNCHANGED clock
  BY DEF PromotionInv, StartPackage, RevalidateValue, RevalidateBytes, ReadText, BuildProposal,
         CheckUntouched, CheckDiff
<1>1. CASE StartPackage
  <2>1. /\ IsRecord(record)
        /\ \E before : program' = [at |-> "package_value", record |-> record, review |-> review,
                                   now |-> clock, before |-> before, text |-> None]
    BY <1>0, <1>1 DEF StartPackage, DocumentsInv
  <2>2. clock \in record.decision.at..clock
    BY <1>0, <2>1 DEF IsRecord, IsDecision, DocumentsInv
  <2>3. "package_value" \notin ApprovedStages  BY DEF ApprovedStages
  <2>. QED  BY <1>0, <2>1, <2>2, <2>3, NextPackaging
<1>2. ASSUME program.at \in {"package_value"} \union ApprovedStages,
             NEW at \in ApprovedStages, NEW text,
             \/ program' = [program EXCEPT !.at = at]
             \/ program' = [program EXCEPT !.at = at, !.text = text]
             \/ program' = NoProgram,
             StillApproved
      PROVE  ProgramInv'
  <2>1. /\ program = [at |-> program.at, record |-> program.record, review |-> program.review,
                      now |-> program.now, before |-> program.before, text |-> program.text]
        /\ IsRecord(program.record) /\ program.now \in program.record.decision.at..clock
    BY <1>0, <1>2 DEF ProgramInv
  <2>2. /\ Approvable(program.review) /\ program.record.review = program.review
        /\ program.record.decision.verdict = "APPROVED"
        /\ program.now <= program.record.decision.at + Ttl
    BY <1>2 DEF StillApproved
  <2>3. \/ \E some : program' = [at |-> at, record |-> program.record, review |-> program.review,
                                 now |-> program.now, before |-> program.before, text |-> some]
        \/ program' = NoProgram
    <3>1. CASE program' = [program EXCEPT !.at = at]
      <4>1. program' = [at |-> at, record |-> program.record, review |-> program.review,
                        now |-> program.now, before |-> program.before, text |-> program.text]
        BY <2>1, <3>1
      <4>. QED  BY <4>1
    <3>2. CASE program' = [program EXCEPT !.at = at, !.text = text]
      <4>1. program' = [at |-> at, record |-> program.record, review |-> program.review,
                        now |-> program.now, before |-> program.before, text |-> text]
        BY <2>1, <3>2
      <4>. QED  BY <4>1
    <3>. QED  BY <1>2, <3>1, <3>2
  <2>4. CASE program' = NoProgram
    BY <2>4, NoProgramLeft
  <2>5. ASSUME NEW some, program' = [at |-> at, record |-> program.record, review |-> program.review,
                                     now |-> program.now, before |-> program.before, text |-> some]
        PROVE  ProgramInv'
    <3>1. PICK rec, r, now, before :
             rec = program.record /\ r = program.review /\ now = program.now /\ before = program.before
      OBVIOUS
    <3>2. program' = [at |-> at, record |-> rec, review |-> r, now |-> now, before |-> before,
                      text |-> some]
      BY <2>5, <3>1
    <3>3. /\ IsRecord(rec) /\ now \in rec.decision.at..clock
          /\ Approvable(r) /\ rec.review = r /\ rec.decision.verdict = "APPROVED"
          /\ now <= rec.decision.at + Ttl
      BY <2>1, <2>2, <3>1
    <3>. QED  BY <1>0, <1>2, <3>2, <3>3, NextPackaging
  <2>. QED  BY <2>3, <2>4, <2>5
<1>3. {"package_bytes", "package_text", "package_build", "package_after", "package_diff",
       "package_write"} \subseteq ApprovedStages
  BY DEF ApprovedStages
<1>4. program.at \in ApprovedStages => StillApproved
  BY <1>0 DEF ProgramInv
<1>5. CASE RevalidateValue
  <2>1. CASE StillApproved
    BY <1>2, <1>3, <1>5, <2>1 DEF RevalidateValue, Continue
  <2>2. CASE ~StillApproved
    BY <1>5, <2>2, NoProgramLeft DEF RevalidateValue, Continue
  <2>. QED  BY <2>1, <2>2
<1>6. CASE RevalidateBytes
  BY <1>2, <1>3, <1>4, <1>6 DEF RevalidateBytes, Continue
<1>7. CASE ReadText
  BY <1>2, <1>3, <1>4, <1>7 DEF ReadText
<1>8. CASE BuildProposal
  BY <1>2, <1>3, <1>4, <1>8 DEF BuildProposal, Continue
<1>9. CASE CheckUntouched
  BY <1>2, <1>3, <1>4, <1>9 DEF CheckUntouched, Continue
<1>10. CASE CheckDiff
  BY <1>2, <1>3, <1>4, <1>10 DEF CheckDiff, Continue
<1>. QED  BY <1>1, <1>5, <1>6, <1>7, <1>8, <1>9, <1>10

-----------------------------------------------------------------------------
(* What the programs write.                                                *)
LEMMA RecordIsGood ==
    ASSUME PromotionInv, WriteRecord, record' # record
    PROVE  IsRecord(record')
<1>1. PICK d, r :
         /\ d = program.decision /\ r = program.review
         /\ record' = [kind |-> "record", decision |-> d, review |-> r, from |-> program.from,
                       to |-> r.window, bytes |-> program.bytes]
  BY DEF WriteRecord
<1>2. IsDecision(d) /\ DecisionValid(d, r) /\ d.at <= clock
  BY <1>1 DEF WriteRecord, PromotionInv, ProgramInv, RecordStages
<1>3. /\ record'.kind = "record" /\ record'.decision = d /\ record'.review = r
      /\ record'.to = r.window
  BY <1>1
<1>. QED  BY <1>2, <1>3 DEF IsRecord

LEMMA PackageIsGood ==
    ASSUME PromotionInv, WritePackage
    PROVE  PackageIsAuthorized'
<1>1. CASE package' = package
  BY <1>1 DEF PromotionInv, PackageIsAuthorized
<1>2. CASE package' = Package
  <2>1. PICK rec, d, r : rec = program.record /\ d = rec.decision /\ r = d.review  OBVIOUS
  <2>2. /\ package'.record = rec /\ package'.now = program.now /\ package'.to = rec.to
    BY <1>2, <2>1 DEF Package
  <2>3. /\ IsRecord(rec) /\ program.now \in d.at..clock
        /\ Approvable(rec.review) /\ d.verdict = "APPROVED" /\ program.now <= d.at + Ttl
    BY <2>1 DEF WritePackage, PromotionInv, ProgramInv, ApprovedStages, StillApproved
  <2>4. /\ rec.to = rec.review.window /\ IsDecision(d) /\ d.trusted /\ d.review = rec.review
        /\ d.at >= r.at /\ r = rec.review
    BY <2>1, <2>3 DEF IsRecord, DecisionValid
  <2>5. IsReview(r) /\ r.status = "READY" /\ d.at \in Nat /\ r.at \in Nat /\ clock \in Nat
    BY <2>1, <2>3, <2>4 DEF IsDecision, IsReview, Approvable, PromotionInv, DocumentsInv
  <2>6. d.at \in r.at..program.now
    BY <2>3, <2>4, <2>5
  <2>7. /\ Cardinality(r.reports) >= Minimum /\ Cardinality(r.runs) >= Minimum
        /\ Agree({e.build : e \in r.reports \union r.runs})
        /\ {e.candidate : e \in r.reports} \union {e.window : e \in r.runs} = {rec.to}
        /\ Agree({e.method : e \in r.reports})
    BY <2>4, <2>5 DEF IsReview
  <2>. QED  BY <2>1, <2>2, <2>3, <2>4, <2>6, <2>7 DEF PackageIsAuthorized
<1>. QED  BY <1>1, <1>2 DEF WritePackage

LEMMA EvidenceGrows ==
    ASSUME DocumentsInv, Calibrate \/ RunStaging
    PROVE  IsFiniteSet(lab')
<1>1. CASE Calibrate
  BY <1>1, FS_AddElement DEF Calibrate, DocumentsInv
<1>2. CASE RunStaging
  BY <1>2 DEF RunStaging, DocumentsInv
<1>. QED  BY <1>1, <1>2

-----------------------------------------------------------------------------
LEMMA PromotionInitially == PromotionInit => PromotionInv
  BY FS_EmptySet DEF PromotionInit, PromotionInv, DocumentsInv, ProgramInv, PackageIsAuthorized,
     NoProgram, RecordStages, ApprovedStages

LEMMA PromotionStep == PromotionInv /\ [PromotionNext]_promotionVars => PromotionInv'
<1>. SUFFICES ASSUME PromotionInv, [PromotionNext]_promotionVars PROVE PromotionInv'
  OBVIOUS
<1>0. /\ DocumentsInv /\ ProgramInv /\ PackageIsAuthorized /\ clock \in Nat /\ IsFiniteSet(lab)
  BY DEF PromotionInv, DocumentsInv
<1>1. clock' \in Nat /\ clock <= clock'
  <2>1. CASE Tick  BY <1>0, <2>1 DEF Tick
  <2>2. CASE Calibrate \/ RunStaging \/ Edit \/ Apply \/ UNCHANGED promotionVars
    <3>1. UNCHANGED clock  BY <2>2 DEF Calibrate, RunStaging, Edit, Apply, promotionVars
    <3>. QED  BY <1>0, <3>1
  <2>3. CASE Review \/ DecideReview \/ WriteRecord \/ WritePackage
    <3>1. UNCHANGED clock  BY <2>3, Zenon DEF Review, DecideReview, WriteRecord, WritePackage
    <3>. QED  BY <1>0, <3>1
  <2>4. CASE \/ StartRecord \/ ReadTargetBytes \/ CheckRecordValue
             \/ StartPackage \/ RevalidateValue \/ RevalidateBytes \/ ReadText \/ BuildProposal
             \/ CheckUntouched \/ CheckDiff
    <3>1. UNCHANGED clock
      BY <2>4, Zenon DEF StartRecord, ReadTargetBytes, CheckRecordValue, StartPackage, RevalidateValue,
         RevalidateBytes, ReadText, BuildProposal, CheckUntouched, CheckDiff
    <3>. QED  BY <1>0, <3>1
  <2>. QED  BY <2>1, <2>2, <2>3, <2>4 DEF PromotionNext
<1>2. CASE Calibrate \/ RunStaging \/ Tick \/ Edit \/ Apply \/ UNCHANGED promotionVars
  <2>1. UNCHANGED <<documents, program>>
    BY <1>2 DEF Calibrate, RunStaging, Tick, Edit, Apply, promotionVars
  <2>2. IsFiniteSet(lab')
    BY <1>0, <1>2, EvidenceGrows DEF Tick, Edit, Apply, promotionVars, evidence
  <2>3. DocumentsInv'
    BY <1>0, <1>1, <2>1, <2>2, DocumentsStay DEF DocumentsInv, documents
  <2>4. ProgramInv'  BY <1>0, <1>1, <2>1, ProgramStays
  <2>5. PackageIsAuthorized'  BY <1>0, <2>1 DEF PackageIsAuthorized, documents
  <2>. QED  BY <2>3, <2>4, <2>5 DEF PromotionInv
<1>3. CASE Review
  <2>1. UNCHANGED <<clock, lab, decision, record, package, program>>
    BY <1>3 DEF Review, evidence
  <2>2. DocumentsInv'
    BY <1>0, <1>1, <1>3, <2>1, ReviewIsGood, DocumentsStay DEF DocumentsInv
  <2>3. ProgramInv'  BY <1>0, <1>1, <2>1, ProgramStays
  <2>4. PackageIsAuthorized'  BY <1>0, <2>1 DEF PackageIsAuthorized
  <2>. QED  BY <2>2, <2>3, <2>4 DEF PromotionInv
<1>4. CASE DecideReview
  <2>1. UNCHANGED <<clock, lab, review, record, package, program>>
    BY <1>4 DEF DecideReview, evidence
  <2>2. IsDecision(decision')
    <3>1. PICK verdict \in {"APPROVED", "REJECTED"}, trusted \in BOOLEAN, at \in 0..MaxClock :
             decision' = [kind |-> "decision", verdict |-> verdict, trusted |-> trusted,
                          review |-> review, at |-> at]
      BY <1>4 DEF DecideReview
    <3>2. IsReview(review)  BY <1>0, <1>4 DEF DecideReview, DocumentsInv
    <3>3. at \in Nat  BY PromotionAssumption
    <3>. QED  BY <3>1, <3>2, <3>3 DEF IsDecision
  <2>3. DocumentsInv'
    BY <1>0, <1>1, <2>1, <2>2, DocumentsStay DEF DocumentsInv
  <2>4. ProgramInv'  BY <1>0, <1>1, <2>1, ProgramStays
  <2>5. PackageIsAuthorized'  BY <1>0, <2>1 DEF PackageIsAuthorized
  <2>. QED  BY <2>3, <2>4, <2>5 DEF PromotionInv
<1>5. CASE \/ StartRecord \/ ReadTargetBytes \/ CheckRecordValue
           \/ StartPackage \/ RevalidateValue \/ RevalidateBytes \/ ReadText \/ BuildProposal
           \/ CheckUntouched \/ CheckDiff
  <2>1. UNCHANGED <<clock, lab, review, decision, record, package>>
    BY <1>5 DEF StartRecord, ReadTargetBytes, CheckRecordValue, StartPackage, RevalidateValue,
       RevalidateBytes, ReadText, BuildProposal, CheckUntouched, CheckDiff, evidence, documents
  <2>2. DocumentsInv'
    BY <1>0, <1>1, <2>1, DocumentsStay DEF DocumentsInv
  <2>3. ProgramInv'  BY <1>5, RecordingKeeps, PackagingKeeps
  <2>4. PackageIsAuthorized'  BY <1>0, <2>1 DEF PackageIsAuthorized
  <2>. QED  BY <2>2, <2>3, <2>4 DEF PromotionInv
<1>6. CASE WriteRecord
  <2>1. UNCHANGED <<clock, lab, review, decision, package>> /\ program' = NoProgram
    BY <1>6 DEF WriteRecord, evidence
  <2>2. record' # None => IsRecord(record')
    BY <1>0, <1>6, RecordIsGood DEF DocumentsInv
  <2>3. DocumentsInv'
    BY <1>0, <1>1, <2>1, <2>2, DocumentsStay DEF DocumentsInv
  <2>4. ProgramInv'  BY <2>1, NoProgramLeft
  <2>5. PackageIsAuthorized'  BY <1>0, <2>1 DEF PackageIsAuthorized
  <2>. QED  BY <2>3, <2>4, <2>5 DEF PromotionInv
<1>7. CASE WritePackage
  <2>1. UNCHANGED <<clock, lab, review, decision, record>> /\ program' = NoProgram
    BY <1>7 DEF WritePackage, evidence
  <2>2. DocumentsInv'
    BY <1>0, <1>1, <2>1, DocumentsStay DEF DocumentsInv
  <2>3. ProgramInv'  BY <2>1, NoProgramLeft
  <2>. QED  BY <1>7, <2>2, <2>3, PackageIsGood DEF PromotionInv
<1>. QED  BY <1>2, <1>3, <1>4, <1>5, <1>6, <1>7 DEF PromotionNext

(* The inductive invariant of the promotion: of what the documents were    *)
(* made, and what the program under way has validated of its copies.       *)
THEOREM PromotionInvariant == PromotionSpec => []PromotionInv
  BY PromotionInitially, PromotionStep, PTL DEF PromotionSpec

(* Every change package rests on a trusted approval that was dated neither *)
(* before its review nor after the package, and had not expired when the   *)
(* generator started, of a review of enough runs of one build and method   *)
(* that agree on the window proposed, however reviews, decisions and the   *)
(* policy file are replaced between the programs' steps.                   *)
THEOREM PackagesAreAuthorized == PromotionSpec => []PackageIsAuthorized
<1>1. PromotionInv => PackageIsAuthorized  BY DEF PromotionInv
<1>. QED  BY <1>1, PromotionInvariant, PTL

-----------------------------------------------------------------------------
(* Minima and maxima of finite sets of numbers, from the well-foundedness  *)
(* of <.                                                                   *)
LEMMA MinIsLeast ==
    ASSUME NEW S \in SUBSET Nat, S # {}
    PROVE  Min(S) \in S /\ \A n \in S : Min(S) <= n
<1>1. PICK n \in S : \A m \in S : ~ (<<m, n>> \in OpToRel(<, Nat))
  BY WFMin, NatLessThanWellFounded
<1>2. ASSUME NEW m \in S PROVE n <= m
  <2>. DEFINE pair == <<m, n>>
  <2>1. pair \in Nat \X Nat /\ pair[1] = m /\ pair[2] = n
    OBVIOUS
  <2>2. ~ (pair \in OpToRel(<, Nat))
    BY <1>1
  <2>. HIDE DEF pair
  <2>3. ~ (m < n)
    BY <2>1, <2>2 DEF OpToRel
  <2>. QED  BY <2>3
<1>. QED  BY <1>1, <1>2 DEF Min

LEMMA MaxIsGreatest ==
    ASSUME NEW S \in SUBSET Nat, S # {}, IsFiniteSet(S)
    PROVE  Max(S) \in S /\ \A n \in S : Max(S) >= n
<1>. DEFINE Bad(T) == T \in SUBSET Nat /\ T # {} /\ IsFiniteSet(T) /\ ~ \E m \in T : \A n \in T : m >= n
            Sizes == {Cardinality(T) : T \in {U \in SUBSET Nat : Bad(U)}}
<1>1. \A T : Bad(T) => Cardinality(T) \in Sizes /\ Cardinality(T) \in Nat
  BY FS_CardinalityType
<1>2. CASE \E T : Bad(T)
  <2>1. Sizes \in SUBSET Nat /\ Sizes # {}
    BY <1>1, <1>2
  <2>2. PICK T : Bad(T) /\ Cardinality(T) = Min(Sizes)
    <3>. HIDE DEF Bad
    <3>1. Min(Sizes) \in Sizes
      <4>. HIDE DEF Sizes
      <4>. QED  BY <2>1, MinIsLeast
    <3>. QED  BY <3>1
  <2>3. PICK x \in T : TRUE
    BY <2>2
  <2>. DEFINE rest == T \ {x}
  <2>4. IsFiniteSet(rest) /\ Cardinality(rest) = Cardinality(T) - 1 /\ rest \in SUBSET Nat /\ x \in Nat
    BY <2>2, <2>3, FS_RemoveElement
  <2>5. ~ Bad(rest)
    <3>1. ASSUME Bad(rest) PROVE FALSE
      <4>. HIDE DEF Bad
      <4>1. Cardinality(rest) \in Sizes /\ Cardinality(T) \in Nat
        BY <1>1, <2>2, <3>1
      <4>. HIDE DEF Sizes
      <4>2. Min(Sizes) <= Cardinality(rest)
        BY <2>1, <4>1, MinIsLeast
      <4>. QED  BY <2>2, <2>4, <4>1, <4>2
    <3>. QED  BY <3>1
  <2>6. T = rest \union {x}
    BY <2>3
  <2>7. CASE rest = {}
    BY <2>2, <2>4, <2>6, <2>7
  <2>8. CASE rest # {}
    <3>1. PICK m \in rest : \A n \in rest : m >= n
      BY <2>4, <2>5, <2>8
    <3>. HIDE DEF rest
    <3>2. CASE m >= x
      BY <2>2, <2>4, <2>6, <3>1, <3>2
    <3>3. CASE ~ (m >= x)
      <4>1. \A n \in T : x >= n
        BY <2>4, <2>6, <3>1, <3>3
      <4>. QED  BY <2>2, <2>3, <4>1
    <3>. QED  BY <3>2, <3>3
  <2>. QED  BY <2>7, <2>8
<1>3. CASE ~ \E T : Bad(T)
  <2>1. \E m \in S : \A n \in S : m >= n
    BY <1>3
  <2>. QED  BY <2>1 DEF Max
<1>. QED  BY <1>2, <1>3

(* A calibration selects one of the windows, or none.                      *)
LEMMA SelectedIs ==
    ASSUME NEW eligible \in SUBSET Windows, NEW efficiency \in [Windows -> Efficiencies]
    PROVE  Selected(eligible, efficiency) \in Windows \union {NoWindow}
<1>1. CASE eligible = {}
  BY <1>1 DEF Selected
<1>2. CASE eligible # {}
  <2>. DEFINE measured == {efficiency[w] : w \in eligible}
              best     == Max(measured)
              plateau  == {w \in eligible : 100 * efficiency[w] >= PlateauPercent * best}
  <2>1. IsFiniteSet(measured)
    <3>1. IsFiniteSet(eligible)
      BY PromotionAssumption, FS_Subset
    <3>2. PICK f : f = [w \in eligible |-> efficiency[w]]
      OBVIOUS
    <3>3. f \in Surjection(eligible, measured)
      BY <3>2 DEF Surjection
    <3>. QED  BY <3>1, <3>3, FS_Surjection
  <2>2. measured \in SUBSET Nat /\ measured # {}
    BY <1>2, PromotionAssumption
  <2>3. best \in measured
    <3>. HIDE DEF measured
    <3>. QED  BY <2>1, <2>2, MaxIsGreatest
  <2>4. PICK w \in eligible : efficiency[w] = best
    BY <2>3
  <2>5. best \in Nat
    BY <2>2, <2>3
  <2>. HIDE DEF best
  <2>6. 100 * best >= PlateauPercent * best
    <3>1. PlateauPercent \in 0..100
      BY PromotionAssumption
    <3>. QED  BY <2>5, <3>1
  <2>7. w \in plateau
    BY <2>4, <2>6
  <2>8. plateau \in SUBSET Nat /\ plateau \subseteq Windows
    BY PromotionAssumption
  <2>9. Selected(eligible, efficiency) = Min(plateau)
    BY <1>2 DEF Selected, best
  <2>. HIDE DEF plateau
  <2>. QED  BY <2>7, <2>8, <2>9, MinIsLeast
<1>. QED  BY <1>1, <1>2

(* Windows, and copies of the policy file, stay what they are on their way *)
(* from document to document.                                              *)
TypedReview(r) == r.status = "READY" => r.window \in Windows
TypedRecord(r) == r.bytes \in Targets /\ r.to \in Windows
TextStages == {"package_build", "package_after", "package_diff", "package_write"}

TypedDocuments ==
    /\ review # None => TypedReview(review)
    /\ record # None => TypedRecord(record)
    /\ package # None /\ package.proposal # None => package.proposal \in Targets

TypedProgram ==
    /\ program.at \in RecordStages => TypedReview(program.review)
    /\ program.at \in {"record_check", "record_write"} => program.bytes \in Targets
    /\ program.at \in {"package_value"} \union ApprovedStages => TypedRecord(program.record)
    /\ program.at \in TextStages => program.text \in Targets

PromotionTypeInv == PromotionInv /\ PromotionTypeOK /\ TypedDocuments /\ TypedProgram

LEMMA PromotionTypesInitially == PromotionInit => PromotionTypeInv
<1>. SUFFICES ASSUME PromotionInit PROVE PromotionTypeInv
  OBVIOUS
<1>1. PromotionInv
  BY PromotionInitially
<1>2. target \in Targets
  <2>1. Min(Windows) \in Windows /\ Max(Maxima) \in Maxima
    BY PromotionAssumption, MinIsLeast, MaxIsGreatest
  <2>. QED  BY <2>1 DEF PromotionInit, Targets
<1>3. PromotionTypeOK
  <2>1. clock \in 0..MaxClock /\ edits \in 0..MaxEdits
    BY PromotionAssumption DEF PromotionInit
  <2>. QED  BY <1>2, <2>1 DEF PromotionInit, PromotionTypeOK, None
<1>4. TypedDocuments
  BY DEF PromotionInit, TypedDocuments
<1>5. TypedProgram
  BY DEF PromotionInit, TypedProgram, NoProgram, RecordStages, ApprovedStages, TextStages
<1>. QED  BY <1>1, <1>3, <1>4, <1>5 DEF PromotionTypeInv

(* The window of a review that is ready is the one its reports agree on.   *)
LEMMA ReviewIsTyped ==
    ASSUME PromotionTypeOK, Review
    PROVE  TypedReview(review') /\ review'.kind = "review"
<1>1. PICK reports \in SUBSET lab, runs0 \in SUBSET staging, twice \in BOOLEAN, manifest \in Manifests :
         LET candidates == {r.candidate : r \in reports}
             candidate  == IF Agree(candidates) THEN CHOOSE w \in candidates : TRUE ELSE NoWindow
             base       == BaseStatus(reports, manifest, candidate)
             valid      == StagingValid(runs0, twice, manifest, candidate) IN
         review' = [kind |-> "review", reports |-> reports, runs |-> runs0, window |-> candidate,
                    at |-> clock,
                    status |-> IF base = "READY" /\ ~valid
                               THEN "STAGING_CALIBRATION_EVIDENCE_REQUIRED" ELSE base]
  BY DEF Review
<1>. DEFINE candidates == {r.candidate : r \in reports}
            candidate  == IF Agree(candidates) THEN CHOOSE w \in candidates : TRUE ELSE NoWindow
            base       == BaseStatus(reports, manifest, candidate)
            valid      == StagingValid(runs0, twice, manifest, candidate)
<1>2. review' = [kind |-> "review", reports |-> reports, runs |-> runs0, window |-> candidate,
                 at |-> clock,
                 status |-> IF base = "READY" /\ ~valid
                            THEN "STAGING_CALIBRATION_EVIDENCE_REQUIRED" ELSE base]
  BY <1>1
<1>. HIDE DEF candidate, base, valid
<1>3. review'.kind = "review" /\ review'.window = candidate /\ (review'.status = "READY" => base = "READY")
  BY <1>2
<1>4. base = "READY" => candidate \in Windows
  <2>1. ASSUME base = "READY" PROVE candidate # NoWindow
    BY <2>1 DEF base, BaseStatus
  <2>2. ASSUME candidate # NoWindow PROVE candidate \in Windows
    <3>1. Agree(candidates) /\ candidate = CHOOSE w \in candidates : TRUE
      BY <2>2 DEF candidate
    <3>2. candidates # {}
      BY <3>1, FS_EmptySet DEF Agree
    <3>3. candidate \in candidates
      BY <3>1, <3>2
    <3>4. candidates \subseteq Windows \union {NoWindow}
      BY DEF PromotionTypeOK
    <3>. QED  BY <2>2, <3>3, <3>4
  <2>. QED  BY <2>1, <2>2
<1>. QED  BY <1>3, <1>4 DEF TypedReview

LEMMA CalibrationIsTyped ==
    ASSUME PromotionTypeOK, Calibrate
    PROVE  \A r \in lab' : r.build \in Builds /\ r.candidate \in Windows \union {NoWindow}
<1>1. PICK build \in Builds, method \in Methods, label \in {"lab", "staging"},
           candidate \in Candidates :
         lab' = lab \union {[run |-> Cardinality(lab) + 1, build |-> build, method |-> method,
                             label |-> label, candidate |-> candidate]}
  BY DEF Calibrate
<1>2. candidate \in Windows \union {NoWindow}
  BY SelectedIs DEF Candidates
<1>. QED  BY <1>1, <1>2 DEF PromotionTypeOK

LEMMA StagingIsTyped ==
    ASSUME PromotionTypeOK, RunStaging
    PROVE  \A s \in staging' : s.build \in Builds /\ s.window \in Windows
<1>1. PICK manifest \in Manifests, outcome \in Outcomes :
         /\ manifest.valid
         /\ staging' = staging \union {[run |-> Cardinality(staging) + 1, build |-> manifest.build,
                                        window |-> manifest.window, outcome |-> outcome]}
  BY DEF RunStaging
<1>2. manifest.build \in Builds /\ manifest.window \in Windows
  <2>1. CASE manifest = [valid |-> FALSE]
    <3>1. ~ manifest.valid
      BY <2>1
    <3>. QED  BY <1>1, <3>1
  <2>2. CASE manifest \in [valid : {TRUE}, build : Builds, window : Windows]
    BY <2>2
  <2>. QED  BY <2>1, <2>2 DEF Manifests
<1>. QED  BY <1>1, <1>2 DEF PromotionTypeOK

(* What a program has read stays typed as it goes on.                      *)
LEMMA ProgramIsTyped ==
    ASSUME PromotionTypeInv,
           \/ StartRecord \/ ReadTargetBytes \/ CheckRecordValue
           \/ StartPackage \/ RevalidateValue \/ RevalidateBytes \/ ReadText \/ BuildProposal
           \/ CheckUntouched \/ CheckDiff
    PROVE  TypedProgram'
<1>0. ProgramInv /\ TypedDocuments /\ TypedProgram /\ target \in Targets
  BY DEF PromotionTypeInv, PromotionInv, PromotionTypeOK
<1>. USE DEF RecordStages, ApprovedStages, TextStages
<1>1. CASE program' = NoProgram
  BY <1>1 DEF TypedProgram, NoProgram
<1>2. CASE StartRecord
  <2>1. review # None
    BY <1>2 DEF StartRecord, DecisionValid, Approvable
  <2>2. program'.at = "record_read" /\ program'.review = review
    BY <1>2 DEF StartRecord
  <2>. QED  BY <1>0, <2>1, <2>2 DEF TypedDocuments, TypedProgram
<1>3. CASE ReadTargetBytes /\ program' # NoProgram
  <2>1. /\ program.at = "record_read"
        /\ program' = [program EXCEPT !.at = "record_check", !.bytes = target]
    BY <1>3 DEF ReadTargetBytes
  <2>2. program = [at |-> program.at, decision |-> program.decision, review |-> program.review,
                   from |-> program.from, bytes |-> program.bytes]
    BY <1>0, <2>1 DEF ProgramInv
  <2>3. program' = [at |-> "record_check", decision |-> program.decision, review |-> program.review,
                    from |-> program.from, bytes |-> target]
    BY <2>1, <2>2
  <2>. QED  BY <1>0, <2>1, <2>3 DEF TypedProgram
<1>4. CASE CheckRecordValue /\ program' # NoProgram
  <2>1. program.at = "record_check" /\ program' = [program EXCEPT !.at = "record_write"]
    BY <1>4 DEF CheckRecordValue
  <2>2. program = [at |-> program.at, decision |-> program.decision, review |-> program.review,
                   from |-> program.from, bytes |-> program.bytes]
    BY <1>0, <2>1 DEF ProgramInv
  <2>3. program' = [at |-> "record_write", decision |-> program.decision, review |-> program.review,
                    from |-> program.from, bytes |-> program.bytes]
    BY <2>1, <2>2
  <2>. QED  BY <1>0, <2>1, <2>3 DEF TypedProgram
<1>5. CASE StartPackage
  <2>1. record # None /\ program'.at = "package_value" /\ program'.record = record
    BY <1>5 DEF StartPackage
  <2>. QED  BY <1>0, <2>1 DEF TypedDocuments, TypedProgram
<1>6. CASE ReadText
  <2>1. /\ program.at = "package_text"
        /\ program' = [program EXCEPT !.at = "package_build", !.text = target]
    BY <1>6 DEF ReadText
  <2>2. program = [at |-> program.at, record |-> program.record, review |-> program.review,
                   now |-> program.now, before |-> program.before, text |-> program.text]
    BY <1>0, <2>1 DEF ProgramInv
  <2>3. program' = [at |-> "package_build", record |-> program.record, review |-> program.review,
                    now |-> program.now, before |-> program.before, text |-> target]
    BY <2>1, <2>2
  <2>. QED  BY <1>0, <2>1, <2>3 DEF TypedProgram
<1>7. CASE /\ RevalidateValue \/ RevalidateBytes \/ BuildProposal \/ CheckUntouched \/ CheckDiff
           /\ program' # NoProgram
  <2>1. PICK at \in ApprovedStages :
           /\ program.at \in {"package_value"} \union ApprovedStages
           /\ at \in TextStages => program.at \in TextStages
           /\ program' = [program EXCEPT !.at = at]
    BY <1>7 DEF RevalidateValue, RevalidateBytes, BuildProposal, CheckUntouched, CheckDiff, Continue
  <2>2. program = [at |-> program.at, record |-> program.record, review |-> program.review,
                   now |-> program.now, before |-> program.before, text |-> program.text]
    BY <1>0, <2>1 DEF ProgramInv
  <2>3. program' = [at |-> at, record |-> program.record, review |-> program.review,
                    now |-> program.now, before |-> program.before, text |-> program.text]
    BY <2>1, <2>2
  <2>. QED  BY <1>0, <2>1, <2>3 DEF TypedProgram
<1>. QED  BY <1>1, <1>2, <1>3, <1>4, <1>5, <1>6, <1>7

LEMMA PromotionTypesStep == PromotionTypeInv /\ [PromotionNext]_promotionVars => PromotionTypeInv'
<1>. SUFFICES ASSUME PromotionTypeInv, [PromotionNext]_promotionVars PROVE PromotionTypeInv'
  OBVIOUS
<1>0. PromotionInv /\ PromotionTypeOK /\ TypedDocuments /\ TypedProgram /\ ProgramInv /\ DocumentsInv
  BY DEF PromotionTypeInv, PromotionInv
<1>1. PromotionInv'
  BY <1>0, PromotionStep
<1>2. CASE Calibrate
  <2>1. UNCHANGED <<clock, bounds, target, staging, documents, program>>
    BY <1>2 DEF Calibrate
  <2>. QED  BY <1>0, <1>1, <1>2, <2>1, CalibrationIsTyped
            DEF PromotionTypeInv, PromotionTypeOK, TypedDocuments, TypedProgram, bounds, documents
<1>3. CASE RunStaging
  <2>1. UNCHANGED <<clock, bounds, target, lab, documents, program>>
    BY <1>3 DEF RunStaging
  <2>. QED  BY <1>0, <1>1, <1>3, <2>1, StagingIsTyped
            DEF PromotionTypeInv, PromotionTypeOK, TypedDocuments, TypedProgram, bounds, documents
<1>4. CASE Review
  <2>1. UNCHANGED <<clock, edits, target, evidence, decision, record, package, program>>
    BY <1>4 DEF Review
  <2>. QED  BY <1>0, <1>1, <1>4, <2>1, ReviewIsTyped
            DEF PromotionTypeInv, PromotionTypeOK, TypedDocuments, TypedProgram, evidence
<1>5. CASE DecideReview
  <2>1. UNCHANGED <<clock, edits, target, evidence, review, record, package, program>>
        /\ decision'.kind = "decision"
    BY <1>5 DEF DecideReview
  <2>. QED  BY <1>0, <1>1, <2>1
            DEF PromotionTypeInv, PromotionTypeOK, TypedDocuments, TypedProgram, evidence
<1>6. CASE \/ StartRecord \/ ReadTargetBytes \/ CheckRecordValue
           \/ StartPackage \/ RevalidateValue \/ RevalidateBytes \/ ReadText \/ BuildProposal
           \/ CheckUntouched \/ CheckDiff
  <2>1. UNCHANGED <<clock, bounds, target, evidence, documents>>
    BY <1>6, Zenon DEF StartRecord, ReadTargetBytes, CheckRecordValue, StartPackage, RevalidateValue,
       RevalidateBytes, ReadText, BuildProposal, CheckUntouched, CheckDiff
  <2>2. TypedProgram'
    BY <1>6, ProgramIsTyped
  <2>. QED  BY <1>0, <1>1, <2>1, <2>2
            DEF PromotionTypeInv, PromotionTypeOK, TypedDocuments, evidence, bounds, documents
<1>7. CASE WriteRecord
  <2>1. /\ program.at = "record_write" /\ program' = NoProgram
        /\ UNCHANGED <<clock, bounds, target, evidence, review, decision, package>>
        /\ \/ record' = record
           \/ record' = [kind |-> "record", decision |-> program.decision, review |-> program.review,
                         from |-> program.from, to |-> program.review.window, bytes |-> program.bytes]
    BY <1>7 DEF WriteRecord
  <2>2. record' # None => TypedRecord(record') /\ record'.kind = "record"
    <3>1. CASE record' = record
      BY <1>0, <3>1 DEF TypedDocuments, DocumentsInv, IsRecord
    <3>2. CASE record' = [kind |-> "record", decision |-> program.decision, review |-> program.review,
                          from |-> program.from, to |-> program.review.window, bytes |-> program.bytes]
      <4>1. /\ program.review.status = "READY" /\ program.bytes \in Targets /\ TypedReview(program.review)
        BY <1>0, <2>1 DEF ProgramInv, TypedProgram, RecordStages, DecisionValid, Approvable
      <4>. QED  BY <3>2, <4>1 DEF TypedReview, TypedRecord
    <3>. QED  BY <2>1, <3>1, <3>2
  <2>3. TypedProgram'
    BY <2>1 DEF TypedProgram, NoProgram, RecordStages, ApprovedStages, TextStages
  <2>4. record'.kind \in {"none", "record"}
    BY <2>2 DEF None
  <2>. QED  BY <1>0, <1>1, <2>1, <2>2, <2>3, <2>4
            DEF PromotionTypeInv, PromotionTypeOK, TypedDocuments, TypedRecord, evidence, bounds
<1>8. CASE WritePackage
  <2>1. /\ program.at = "package_write" /\ program' = NoProgram
        /\ UNCHANGED <<clock, bounds, target, evidence, review, decision, record>>
        /\ package' = package \/ package' = Package
    BY <1>8 DEF WritePackage
  <2>2. program.text \in Targets /\ program.record.to \in Windows
    BY <1>0, <2>1 DEF TypedProgram, TypedRecord, ApprovedStages, TextStages
  <2>3. Package.kind = "package" /\ Package.proposal = Proposal
    BY DEF Package
  <2>4. Proposal # None => Proposal \in Targets
    BY <2>2 DEF Proposal, Targets
  <2>5. TypedProgram'
    BY <2>1 DEF TypedProgram, NoProgram, RecordStages, ApprovedStages, TextStages
  <2>6. TypedDocuments' /\ package'.kind \in {"none", "package"}
    <3>1. CASE package' = package
      BY <1>0, <2>1, <3>1 DEF TypedDocuments, PromotionTypeOK
    <3>2. CASE package' = Package
      BY <1>0, <2>1, <2>3, <2>4, <3>2 DEF TypedDocuments
    <3>. QED  BY <2>1, <3>1, <3>2
  <2>. QED  BY <1>0, <1>1, <2>1, <2>5, <2>6 DEF PromotionTypeInv, PromotionTypeOK, evidence, bounds
<1>9. CASE Tick \/ Edit \/ Apply
  <2>1. UNCHANGED <<evidence, documents, program>>
    BY <1>9 DEF Tick, Edit, Apply
  <2>2. clock' \in 0..MaxClock /\ edits' \in 0..MaxEdits
    <3>1. clock \in 0..MaxClock /\ edits \in 0..MaxEdits
      BY <1>0 DEF PromotionTypeOK
    <3>2. MaxClock \in Nat /\ MaxEdits \in Nat
      BY PromotionAssumption
    <3>. QED  BY <1>9, <3>1, <3>2 DEF Tick, Edit, Apply, bounds
  <2>3. target' \in Targets
    <3>1. CASE Tick
      BY <1>0, <3>1 DEF Tick, PromotionTypeOK
    <3>2. CASE Edit
      BY <3>2 DEF Edit
    <3>3. CASE Apply
      BY <1>0, <3>3 DEF Apply, TypedDocuments
    <3>. QED  BY <1>9, <3>1, <3>2, <3>3
  <2>. QED  BY <1>0, <1>1, <2>1, <2>2, <2>3
            DEF PromotionTypeInv, PromotionTypeOK, TypedDocuments, TypedProgram, evidence, documents
<1>10. CASE UNCHANGED promotionVars
  BY <1>0, <1>1, <1>10 DEF promotionVars, PromotionTypeInv, PromotionTypeOK, TypedDocuments, TypedProgram,
     evidence, bounds, documents
<1>. QED  BY <1>2, <1>3, <1>4, <1>5, <1>6, <1>7, <1>8, <1>9, <1>10 DEF PromotionNext

(* Documents and programs are well typed: every window proposed is one of  *)
(* the candidates, and every copy of the policy file is one.               *)
THEOREM PromotionTypeCorrect == PromotionSpec => []PromotionTypeOK
<1>1. PromotionTypeInv => PromotionTypeOK
  BY DEF PromotionTypeInv
<1>. QED  BY <1>1, PromotionTypesInitially, PromotionTypesStep, PTL DEF PromotionSpec

-----------------------------------------------------------------------------
(* How many edits a program that was misled has seen. It finds in the      *)
(* target, by turns, the window it is to change and another one, or the    *)
(* maximum of the record and another one. An application of the package    *)
(* that is there moves the window in one direction and leaves the maximum; *)
(* every other move takes an edit.                                         *)
Count(condition) == IF condition THEN 1 ELSE 0
AppliesTo(from) == package # None /\ package.from = from

(* The window was another one after so many returns; it was the one to be  *)
(* changed after so many returns; the maximum was this after so many moves.*)
SeenAway(from, moves) ==
    edits >= IF AppliesTo(from) THEN moves + Count(target.window = from) ELSE moves + 1
SeenThere(from, moves) ==
    edits >= IF AppliesTo(from) THEN moves ELSE moves + Count(target.window # from)
SeenMaximum(max, moves) == edits >= moves + Count(target.max # max)

(* The value that was read is not that of the bytes that were read.        *)
Torn(r) == r.bytes.window # r.from

RecordMisled ==
    /\ program.at = "record_read" => SeenThere(program.from, 0)
    /\ program.at = "record_check" /\ Torn(program) => SeenAway(program.from, 0)
    /\ program.at = "record_write" /\ Torn(program) => SeenThere(program.from, 1)
    /\ record # None /\ Torn(record) => SeenAway(record.from, 1)

WindowMisled(r) ==
    /\ program.at = "package_bytes" => SeenThere(r.from, 2)
    /\ program.at = "package_text" => SeenAway(r.from, 2)
    /\ program.at = "package_build" /\ program.text.window = r.from => SeenThere(r.from, 3)
    /\ program.at \in {"package_after", "package_diff"} => SeenAway(r.from, 3)
    /\ program.at = "package_write" => SeenThere(r.from, 4)

MaximumMisled(r) ==
    /\ program.at = "package_text" => SeenMaximum(r.bytes.max, 0)
    /\ program.at \in TextStages /\ program.text.max # r.bytes.max =>
          /\ program.at = "package_build" => SeenMaximum(program.text.max, 1)
          /\ program.at \in {"package_after", "package_diff"} => SeenMaximum(r.bytes.max, 2)
          /\ program.at = "package_write" /\ r.to # r.from => SeenMaximum(program.text.max, 3)

PackageMisled ==
    program.at \in {"package_value"} \union ApprovedStages =>
        /\ program.record = record /\ record # None
        /\ program.at \in {"package_after", "package_diff", "package_write"} =>
              program.text.window = record.from /\ record.to <= program.text.max
        /\ Torn(record) => WindowMisled(record)
        /\ MaximumMisled(record)

MisledInv ==
    PromotionTypeInv /\ RecordMisled /\ PackageMisled /\ (edits < 4 => ProposalIsOfItsBase)

(* What a program has seen stays so, whoever edits or applies meanwhile.   *)
LEMMA SeenStays ==
    ASSUME PromotionTypeInv, Edit \/ Apply, NEW from, NEW max, NEW moves \in Nat
    PROVE  /\ SeenAway(from, moves) => SeenAway(from, moves)'
           /\ SeenThere(from, moves) => SeenThere(from, moves)'
           /\ SeenMaximum(max, moves) => SeenMaximum(max, moves)'
<1>1. edits \in Nat /\ package' = package
  BY PromotionAssumption DEF PromotionTypeInv, PromotionTypeOK, Edit, Apply, documents
<1>2. CASE Edit
  <2>1. edits' = edits + 1
    BY <1>2 DEF Edit
  <2>. QED  BY <1>1, <2>1 DEF SeenAway, SeenThere, SeenMaximum, AppliesTo, Count
<1>3. CASE Apply
  <2>1. edits' = edits
    BY <1>3 DEF Apply, bounds
  <2>2. package # None /\ target.window = package.from
    BY <1>3 DEF Apply, ChangesOnlyTheField
  <2>3. target'.max = target.max /\ target'.window # package.from
    <3>1. /\ package.to # package.from
          /\ target' = [target EXCEPT !.window = package.to]
      BY <1>3 DEF Apply, ChangesOnlyTheField
    <3>2. target = [window |-> target.window, max |-> target.max]
      BY DEF PromotionTypeInv, PromotionTypeOK, Targets
    <3>. QED  BY <3>1, <3>2
  <2>4. SeenAway(from, moves) => SeenAway(from, moves)'
    BY <1>1, <2>1, <2>2, <2>3 DEF SeenAway, AppliesTo, Count
  <2>5. SeenThere(from, moves) => SeenThere(from, moves)'
    BY <1>1, <2>1, <2>2, <2>3 DEF SeenThere, AppliesTo, Count
  <2>6. SeenMaximum(max, moves) => SeenMaximum(max, moves)'
    BY <1>1, <2>1, <2>3 DEF SeenMaximum, Count
  <2>. QED  BY <2>4, <2>5, <2>6
<1>. QED  BY <1>2, <1>3

(* The turns: what a program finds now is one more return, or one more     *)
(* move, when it is not what it found before.                              *)
LEMMA SeenTurns ==
    ASSUME edits \in Nat, NEW from, NEW max, NEW moves \in Nat
    PROVE  /\ SeenAway(from, moves) /\ target.window = from => SeenThere(from, moves + 1)
           /\ SeenThere(from, moves) /\ target.window # from => SeenAway(from, moves)
           /\ target.window = from => SeenThere(from, 0)
           /\ SeenMaximum(target.max, 0)
           /\ SeenMaximum(max, moves) /\ target.max # max => SeenMaximum(target.max, moves + 1)
  BY DEF SeenAway, SeenThere, SeenMaximum, Count

LEMMA MisledInitially == PromotionInit => MisledInv
<1>. SUFFICES ASSUME PromotionInit PROVE MisledInv
  OBVIOUS
<1>1. program.at = "idle" /\ record = None /\ package = None
  BY DEF PromotionInit, NoProgram
<1>2. RecordMisled /\ PackageMisled
  BY <1>1 DEF RecordMisled, PackageMisled, ApprovedStages
<1>. QED  BY <1>1, <1>2, PromotionTypesInitially DEF MisledInv, ProposalIsOfItsBase

(* Steps that leave the programs and their files alone.                    *)
LEMMA MisledStays ==
    ASSUME MisledInv, PromotionTypeInv',
           UNCHANGED <<edits, target>> \/ Edit \/ Apply, UNCHANGED <<record, package, program>>
    PROVE  MisledInv'
<1>1. /\ edits \in Nat /\ edits' \in Nat /\ edits <= edits'
  BY PromotionAssumption DEF MisledInv, PromotionTypeInv, PromotionTypeOK, Edit, Apply, bounds
<1>2. ASSUME NEW from, NEW max, NEW moves \in Nat
      PROVE  /\ SeenAway(from, moves) => SeenAway(from, moves)'
             /\ SeenThere(from, moves) => SeenThere(from, moves)'
             /\ SeenMaximum(max, moves) => SeenMaximum(max, moves)'
  <2>1. CASE UNCHANGED <<edits, target>>
    BY <2>1 DEF SeenAway, SeenThere, SeenMaximum, AppliesTo
  <2>. QED  BY <2>1, SeenStays DEF MisledInv
<1>3. RecordMisled'
  BY <1>2 DEF MisledInv, RecordMisled, Torn
<1>4. ASSUME NEW r PROVE (WindowMisled(r) => WindowMisled(r)') /\ (MaximumMisled(r) => MaximumMisled(r)')
  BY <1>2 DEF WindowMisled, MaximumMisled
<1>5. PackageMisled'
  BY <1>4 DEF MisledInv, PackageMisled, Torn
<1>6. (edits < 4 => ProposalIsOfItsBase)'
  BY <1>1 DEF MisledInv, ProposalIsOfItsBase
<1>. QED  BY <1>3, <1>5, <1>6 DEF MisledInv

(* A program goes on: what it holds besides what it has just read stays.   *)
LEMMA GoesOn ==
    ASSUME ProgramInv, NEW at
    PROVE  /\ program.at \in RecordStages => \A read :
                /\ [program EXCEPT !.at = at].at = at
                /\ [program EXCEPT !.at = at].from = program.from
                /\ [program EXCEPT !.at = at].bytes = program.bytes
                /\ [program EXCEPT !.at = at, !.bytes = read].at = at
                /\ [program EXCEPT !.at = at, !.bytes = read].from = program.from
                /\ [program EXCEPT !.at = at, !.bytes = read].bytes = read
           /\ program.at \in {"package_value"} \union ApprovedStages => \A read :
                /\ [program EXCEPT !.at = at].at = at
                /\ [program EXCEPT !.at = at].record = program.record
                /\ [program EXCEPT !.at = at].text = program.text
                /\ [program EXCEPT !.at = at, !.text = read].at = at
                /\ [program EXCEPT !.at = at, !.text = read].record = program.record
                /\ [program EXCEPT !.at = at, !.text = read].text = read
<1>1. CASE program.at \in RecordStages
  <2>1. program = [at |-> program.at, decision |-> program.decision, review |-> program.review,
                   from |-> program.from, bytes |-> program.bytes]
    BY <1>1 DEF ProgramInv
  <2>2. program.at \notin {"package_value"} \union ApprovedStages
    BY <1>1 DEF RecordStages, ApprovedStages
  <2>. QED  BY <2>1, <2>2
<1>2. CASE program.at \in {"package_value"} \union ApprovedStages
  <2>1. program = [at |-> program.at, record |-> program.record, review |-> program.review,
                   now |-> program.now, before |-> program.before, text |-> program.text]
    BY <1>2 DEF ProgramInv
  <2>2. program.at \notin RecordStages
    BY <1>2 DEF RecordStages, ApprovedStages
  <2>. QED  BY <2>1, <2>2
<1>. QED  BY <1>1, <1>2

(* The program ends without a document.                                    *)
LEMMA MisledEnds ==
    ASSUME MisledInv, PromotionTypeInv', UNCHANGED <<edits, target, record, package>>,
           program' = NoProgram
    PROVE  MisledInv'
<1>1. program'.at = "idle"
  BY DEF NoProgram
<1>2. SeenAway(record.from, 1) => SeenAway(record.from, 1)'
  BY DEF SeenAway, AppliesTo
<1>3. RecordMisled'
  BY <1>1, <1>2 DEF MisledInv, RecordMisled, Torn
<1>4. PackageMisled'
  BY <1>1 DEF PackageMisled, ApprovedStages
<1>. QED  BY <1>3, <1>4 DEF MisledInv, ProposalIsOfItsBase

(* The record: its value and its bytes are read by turns.                  *)
LEMMA RecordingMisled ==
    ASSUME MisledInv, PromotionTypeInv', StartRecord \/ ReadTargetBytes \/ CheckRecordValue
    PROVE  MisledInv'
<1>0. /\ UNCHANGED <<edits, target, record, package>> /\ edits \in Nat /\ ProgramInv
  BY PromotionAssumption
     DEF MisledInv, PromotionTypeInv, PromotionInv, PromotionTypeOK, StartRecord, ReadTargetBytes,
         CheckRecordValue, bounds, documents
<1>1. ASSUME NEW from, NEW moves \in Nat
      PROVE  /\ SeenAway(from, moves) => SeenAway(from, moves)'
             /\ SeenThere(from, moves) => SeenThere(from, moves)'
  BY <1>0 DEF SeenAway, SeenThere, AppliesTo
<1>2. (record # None /\ Torn(record) => SeenAway(record.from, 1))'
  BY <1>0, <1>1 DEF MisledInv, RecordMisled, Torn
<1>3. program'.at \in RecordStages /\ RecordMisled' => MisledInv'
  BY <1>0 DEF MisledInv, PackageMisled, ApprovedStages, RecordStages, ProposalIsOfItsBase
<1>4. CASE StartRecord
  <2>1. program'.at = "record_read" /\ program'.from = target.window
    BY <1>4 DEF StartRecord
  <2>2. SeenThere(target.window, 0)'
    BY <1>0, <1>1, SeenTurns
  <2>. QED  BY <1>0, <1>2, <1>3, <2>1, <2>2 DEF RecordMisled, RecordStages
<1>5. CASE ReadTargetBytes /\ program' # NoProgram
  <2>1. /\ program.at = "record_read" /\ program'.at = "record_check"
        /\ program'.from = program.from /\ program'.bytes = target
    BY <1>0, <1>5, GoesOn DEF ReadTargetBytes, RecordStages
  <2>2. target.window # program.from => SeenAway(program.from, 0)
    BY <1>0, <2>1, SeenTurns DEF MisledInv, RecordMisled
  <2>3. (Torn(program) => SeenAway(program.from, 0))'
    BY <1>1, <2>1, <2>2 DEF Torn
  <2>. QED  BY <1>2, <1>3, <2>1, <2>3 DEF RecordMisled, RecordStages
<1>6. CASE CheckRecordValue
  <2>1. CASE program' = NoProgram
    BY <1>0, <2>1, MisledEnds
  <2>2. CASE program' # NoProgram
    <3>1. /\ program.at = "record_check" /\ program'.at = "record_write"
          /\ program'.from = program.from /\ program'.bytes = program.bytes
          /\ target.window = program.from
      BY <1>0, <1>6, <2>2, GoesOn DEF CheckRecordValue, RecordStages
    <3>2. Torn(program) => SeenThere(program.from, 1)
      BY <1>0, <3>1, SeenTurns DEF MisledInv, RecordMisled
    <3>3. (Torn(program) => SeenThere(program.from, 1))'
      BY <1>1, <3>1, <3>2 DEF Torn
    <3>. QED  BY <1>2, <1>3, <3>1, <3>3 DEF RecordMisled, RecordStages
  <2>. QED  BY <2>1, <2>2
<1>7. CASE ReadTargetBytes /\ program' = NoProgram
  BY <1>0, <1>7, MisledEnds
<1>. QED  BY <1>4, <1>5, <1>6, <1>7

LEMMA RecordMisledWrites ==
    ASSUME MisledInv, PromotionTypeInv', WriteRecord
    PROVE  MisledInv'
<1>1. /\ program.at = "record_write" /\ program' = NoProgram
      /\ UNCHANGED <<edits, target, package>> /\ edits \in Nat
  BY PromotionAssumption
     DEF MisledInv, PromotionTypeInv, PromotionTypeOK, WriteRecord, bounds, documents
<1>2. CASE record' = record
  BY <1>1, <1>2, MisledEnds
<1>3. CASE record' # record
  <2>1. /\ target = program.bytes
        /\ record'.from = program.from /\ record'.bytes = program.bytes
    BY <1>3 DEF WriteRecord
  <2>2. Torn(program) => SeenAway(program.from, 1)
    BY <1>1, <2>1, SeenTurns DEF MisledInv, RecordMisled, Torn
  <2>3. SeenAway(program.from, 1) => SeenAway(record.from, 1)'
    BY <1>1, <2>1 DEF SeenAway, AppliesTo
  <2>4. RecordMisled'
    BY <1>1, <2>1, <2>2, <2>3 DEF RecordMisled, Torn, NoProgram
  <2>5. PackageMisled'
    BY <1>1 DEF PackageMisled, ApprovedStages, NoProgram
  <2>. QED  BY <1>1, <2>4, <2>5 DEF MisledInv, ProposalIsOfItsBase
<1>. QED  BY <1>2, <1>3

(* The package: window and maximum are compared by turns with those of the *)
(* record.                                                                 *)
LEMMA PackagingMisled ==
    ASSUME MisledInv, PromotionTypeInv',
           \/ StartPackage \/ RevalidateValue \/ RevalidateBytes \/ ReadText \/ BuildProposal
           \/ CheckUntouched \/ CheckDiff
    PROVE  MisledInv'
<1>0. /\ UNCHANGED <<edits, target, record, package>> /\ edits \in Nat /\ ProgramInv
      /\ target \in Targets
  <2>1. UNCHANGED <<edits, target, record, package>>
    BY DEF StartPackage, RevalidateValue, RevalidateBytes, ReadText, BuildProposal, CheckUntouched,
           CheckDiff, bounds, documents
  <2>2. edits \in Nat /\ ProgramInv /\ target \in Targets
    BY PromotionAssumption DEF MisledInv, PromotionTypeInv, PromotionInv, PromotionTypeOK
  <2>. QED  BY <2>1, <2>2
<1>1. ASSUME NEW from, NEW max, NEW moves \in Nat
      PROVE  /\ SeenAway(from, moves) => SeenAway(from, moves)'
             /\ SeenThere(from, moves) => SeenThere(from, moves)'
             /\ SeenMaximum(max, moves) => SeenMaximum(max, moves)'
  BY <1>0 DEF SeenAway, SeenThere, SeenMaximum, AppliesTo
<1>2. ASSUME program' # NoProgram
      PROVE  \/ StartPackage
             \/ /\ program.at \in {"package_value"} \union ApprovedStages
                /\ program.record = record /\ record # None
                /\ program'.record = record
                /\ program'.at \in ApprovedStages
                /\ ~ ReadText => program'.text = program.text
  <2>1. CASE RevalidateValue \/ RevalidateBytes \/ BuildProposal \/ CheckUntouched \/ CheckDiff
    <3>1. PICK at \in ApprovedStages :
             /\ program.at \in {"package_value"} \union ApprovedStages
             /\ program' = [program EXCEPT !.at = at]
      BY <1>2, <2>1 DEF RevalidateValue, RevalidateBytes, BuildProposal, CheckUntouched, CheckDiff,
                        Continue, ApprovedStages
    <3>. QED  BY <1>0, <3>1, GoesOn DEF MisledInv, PackageMisled
  <2>2. CASE ReadText
    <3>1. /\ program.at \in ApprovedStages /\ "package_build" \in ApprovedStages
          /\ program' = [program EXCEPT !.at = "package_build", !.text = target]
      BY <2>2 DEF ReadText, ApprovedStages
    <3>. QED  BY <1>0, <2>2, <3>1, GoesOn DEF MisledInv, PackageMisled
  <2>. QED  BY <2>1, <2>2
<1>3. ASSUME program' # NoProgram, program'.record = record, record # None,
             program'.at \in {"package_value"} \union ApprovedStages,
             program'.at \in {"package_after", "package_diff", "package_write"} =>
                program'.text.window = record.from /\ record.to <= program'.text.max,
             Torn(record) => WindowMisled(record)', MaximumMisled(record)'
      PROVE  MisledInv'
  <2>1. RecordMisled'
    BY <1>0, <1>1, <1>3 DEF MisledInv, RecordMisled, Torn, ApprovedStages
  <2>2. PackageMisled'
    BY <1>0, <1>3 DEF PackageMisled, Torn, WindowMisled, MaximumMisled
  <2>. QED  BY <1>0, <2>1, <2>2 DEF MisledInv, ProposalIsOfItsBase
<1>4. program' = NoProgram => MisledInv'
  BY <1>0, MisledEnds
<1>5. CASE StartPackage
  <2>1. record # None /\ program'.at = "package_value" /\ program'.record = record
    BY <1>5 DEF StartPackage
  <2>2. WindowMisled(record)' /\ MaximumMisled(record)'
    BY <2>1 DEF WindowMisled, MaximumMisled, TextStages
  <2>. QED  BY <1>3, <1>4, <2>1, <2>2
<1>6. CASE RevalidateValue /\ program' # NoProgram
  <2>1. /\ program.at = "package_value" /\ program'.at = "package_bytes"
        /\ target.window = record.from /\ program.record = record
    BY <1>0, <1>2, <1>6, GoesOn DEF RevalidateValue, Continue, StartPackage
  <2>2. Torn(record) => SeenThere(record.from, 2)
    BY <1>0, <1>2, <1>6, <2>1, SeenTurns DEF MisledInv, RecordMisled, StartPackage
  <2>3. (Torn(record) => WindowMisled(record)') /\ MaximumMisled(record)'
    BY <1>0, <1>1, <2>1, <2>2 DEF WindowMisled, MaximumMisled, TextStages
  <2>. QED  BY <1>2, <1>3, <1>6, <2>1, <2>3 DEF StartPackage
<1>7. CASE RevalidateBytes /\ program' # NoProgram
  <2>1. /\ program.at = "package_bytes" /\ program'.at = "package_text"
        /\ target = record.bytes /\ program.record = record
    BY <1>0, <1>2, <1>7, GoesOn DEF RevalidateBytes, Continue, StartPackage, ApprovedStages
  <2>2. /\ Torn(record) => SeenAway(record.from, 2)
        /\ SeenMaximum(record.bytes.max, 0)
    BY <1>0, <2>1, SeenTurns DEF MisledInv, PackageMisled, WindowMisled, Torn, ApprovedStages
  <2>3. (Torn(record) => WindowMisled(record)') /\ MaximumMisled(record)'
    BY <1>0, <1>1, <2>1, <2>2 DEF WindowMisled, MaximumMisled, TextStages
  <2>. QED  BY <1>2, <1>3, <1>7, <2>1, <2>3 DEF StartPackage
<1>8. CASE ReadText /\ program' # NoProgram
  <2>1. /\ program.at = "package_text" /\ program'.at = "package_build"
        /\ program'.text = target /\ program.record = record
    <3>1. program.at = "package_text" /\ "package_text" \in ApprovedStages
      BY <1>8 DEF ReadText, ApprovedStages
    <3>2. program' = [program EXCEPT !.at = "package_build", !.text = target]
      BY <1>8 DEF ReadText
    <3>. QED  BY <1>0, <3>1, <3>2, GoesOn DEF MisledInv, PackageMisled
  <2>2. /\ Torn(record) /\ target.window = record.from => SeenThere(record.from, 3)
        /\ target.max # record.bytes.max => SeenMaximum(target.max, 1)
    <3>1. /\ Torn(record) => SeenAway(record.from, 2)
          /\ SeenMaximum(record.bytes.max, 0)
      BY <2>1 DEF MisledInv, PackageMisled, WindowMisled, MaximumMisled, ApprovedStages
    <3>. QED  BY <1>0, <3>1 DEF SeenAway, SeenThere, SeenMaximum, Count
  <2>3. (Torn(record) => WindowMisled(record)') /\ MaximumMisled(record)'
    BY <1>0, <1>1, <2>1, <2>2 DEF WindowMisled, MaximumMisled, TextStages
  <2>. QED  BY <1>2, <1>3, <1>8, <2>1, <2>3 DEF StartPackage
<1>9. CASE BuildProposal /\ program' # NoProgram
  <2>1. /\ program.at = "package_build" /\ program'.at = "package_after"
        /\ program'.text = program.text /\ program.record = record
        /\ target = record.bytes /\ program.text.window = record.from
        /\ record.to <= program.text.max
    BY <1>0, <1>2, <1>9, GoesOn DEF BuildProposal, Continue, StartPackage, ReadText, ApprovedStages
  <2>2. /\ Torn(record) => SeenAway(record.from, 3)
        /\ program.text.max # record.bytes.max => SeenMaximum(record.bytes.max, 2)
    <3>1. /\ Torn(record) => SeenThere(record.from, 3)
          /\ program.text.max # record.bytes.max => SeenMaximum(program.text.max, 1)
      BY <2>1 DEF MisledInv, PackageMisled, WindowMisled, MaximumMisled, ApprovedStages, TextStages
    <3>. QED  BY <1>0, <2>1, <3>1 DEF SeenAway, SeenThere, SeenMaximum, Count, Torn
  <2>3. (Torn(record) => WindowMisled(record)') /\ MaximumMisled(record)'
    BY <1>0, <1>1, <2>1, <2>2 DEF WindowMisled, MaximumMisled, TextStages
  <2>. QED  BY <1>2, <1>3, <1>9, <2>1, <2>3 DEF StartPackage
<1>10. CASE CheckUntouched /\ program' # NoProgram
  <2>1. /\ program.at = "package_after" /\ program'.at = "package_diff"
        /\ program'.text = program.text /\ program.record = record
    BY <1>0, <1>2, <1>10, GoesOn
       DEF CheckUntouched, Continue, StartPackage, ReadText, ApprovedStages
  <2>2. /\ Torn(record) => SeenAway(record.from, 3)
        /\ program.text.max # record.bytes.max => SeenMaximum(record.bytes.max, 2)
        /\ program.text.window = record.from /\ record.to <= program.text.max
    BY <2>1 DEF MisledInv, PackageMisled, WindowMisled, MaximumMisled, ApprovedStages, TextStages
  <2>3. (Torn(record) => WindowMisled(record)') /\ MaximumMisled(record)'
    BY <1>0, <1>1, <2>1, <2>2 DEF WindowMisled, MaximumMisled, TextStages
  <2>. QED  BY <1>2, <1>3, <1>10, <2>1, <2>2, <2>3 DEF StartPackage
<1>11. CASE CheckDiff /\ program' # NoProgram
  <2>1. /\ program.at = "package_diff" /\ program'.at = "package_write"
        /\ program'.text = program.text /\ program.record = record
        /\ ChangesOnlyTheField(Package, target)
    BY <1>0, <1>2, <1>11, GoesOn DEF CheckDiff, Continue, StartPackage, ReadText, ApprovedStages
  <2>2. /\ Torn(record) => SeenAway(record.from, 3)
        /\ program.text.max # record.bytes.max => SeenMaximum(record.bytes.max, 2)
        /\ program.text.window = record.from /\ record.to <= program.text.max
    BY <2>1 DEF MisledInv, PackageMisled, WindowMisled, MaximumMisled, ApprovedStages, TextStages
  <2>3. /\ target.window = record.from
        /\ record.to # record.from => target.max = program.text.max
    <3>1. /\ Package.from = record.from /\ Package.to = record.to /\ Package.proposal = Proposal
      BY <2>1 DEF Package
    <3>2. program.text \in Targets
      BY <2>1 DEF MisledInv, PromotionTypeInv, TypedProgram, TextStages
    <3>3. target.window = record.from
      BY <2>1, <3>1 DEF ChangesOnlyTheField
    <3>4. ASSUME record.to # record.from PROVE target.max = program.text.max
      <4>1. [program.text EXCEPT !.window = record.to] = [target EXCEPT !.window = record.to]
        BY <2>1, <3>1, <3>4 DEF ChangesOnlyTheField, Proposal
      <4>2. /\ program.text = [window |-> program.text.window, max |-> program.text.max]
            /\ target = [window |-> target.window, max |-> target.max]
        BY <1>0, <3>2 DEF Targets
      <4>. QED  BY <4>1, <4>2
    <3>. QED  BY <3>3, <3>4
  <2>4. /\ Torn(record) => SeenThere(record.from, 4)
        /\ program.text.max # record.bytes.max /\ record.to # record.from =>
              SeenMaximum(program.text.max, 3)
    BY <1>0, <2>2, <2>3 DEF SeenAway, SeenThere, SeenMaximum, Count
  <2>5. (Torn(record) => WindowMisled(record)') /\ MaximumMisled(record)'
    BY <1>0, <1>1, <2>1, <2>4 DEF WindowMisled, MaximumMisled, TextStages
  <2>. QED  BY <1>2, <1>3, <1>11, <2>1, <2>2, <2>5 DEF StartPackage
<1>. QED  BY <1>4, <1>5, <1>6, <1>7, <1>8, <1>9, <1>10, <1>11

LEMMA PackageMisledWrites ==
    ASSUME MisledInv, PromotionTypeInv', WritePackage
    PROVE  MisledInv'
<1>0. program.at = "package_write" /\ program' = NoProgram /\ UNCHANGED <<edits, target, record>>
  BY DEF WritePackage, bounds
<1>1. /\ program.at = "package_write" /\ program' = NoProgram
      /\ UNCHANGED <<edits, target, record>> /\ edits \in Nat /\ program.record = record
  <2>1. edits \in Nat
    BY PromotionAssumption DEF MisledInv, PromotionTypeInv, PromotionTypeOK
  <2>2. program.record = record
    BY <1>0 DEF MisledInv, PackageMisled, ApprovedStages
  <2>. QED  BY <1>0, <2>1, <2>2
<1>2. CASE package' = package
  BY <1>1, <1>2, MisledEnds
<1>3. CASE package' # package
  <2>1. package' = Package /\ target = record.bytes
    BY <1>1, <1>3 DEF WritePackage, Package
  <2>2. edits < 4 => ~ Torn(record)
    BY <1>1, <2>1
       DEF MisledInv, PackageMisled, WindowMisled, SeenThere, Count, Torn, ApprovedStages
  <2>3. edits < 4 /\ record.to # record.from => program.text.max = record.bytes.max
    BY <1>1, <2>1
       DEF MisledInv, PackageMisled, MaximumMisled, SeenMaximum, Count, ApprovedStages, TextStages
  <2>4. program.text \in Targets /\ record.bytes \in Targets
    BY <1>1 DEF MisledInv, PromotionTypeInv, TypedProgram, TypedRecord, TextStages, ApprovedStages
  <2>5. program.text.window = record.from /\ record.to <= program.text.max
    BY <1>1 DEF MisledInv, PackageMisled, ApprovedStages
  <2>6. /\ package'.before = record.bytes /\ package'.record = record
        /\ package'.from = record.from /\ package'.to = record.to /\ package'.proposal = Proposal
    BY <1>1, <2>1 DEF Package
  <2>7. ASSUME edits < 4, Proposal # None
        PROVE  /\ record.to # record.from /\ program.text = record.bytes
               /\ Proposal = [record.bytes EXCEPT !.window = record.to]
    <3>1. record.to # record.from
      BY <1>1, <2>7 DEF Proposal
    <3>2. program.text = record.bytes
      BY <2>2, <2>3, <2>4, <2>5, <2>7, <3>1 DEF Torn, Targets
    <3>. QED  BY <1>1, <3>1, <3>2 DEF Proposal
  <2>8. (edits < 4 => ProposalIsOfItsBase)'
    BY <1>1, <2>2, <2>5, <2>6, <2>7 DEF ProposalIsOfItsBase, Torn
  <2>9. (record # None /\ Torn(record) => SeenAway(record.from, 1))'
    BY <1>1, <2>2 DEF SeenAway, Count, Torn
  <2>10. RecordMisled' /\ PackageMisled'
    BY <1>1, <2>9 DEF RecordMisled, PackageMisled, ApprovedStages, NoProgram
  <2>. QED  BY <2>8, <2>10 DEF MisledInv
<1>. QED  BY <1>2, <1>3

LEMMA MisledStep == MisledInv /\ [PromotionNext]_promotionVars => MisledInv'
<1>. SUFFICES ASSUME MisledInv, [PromotionNext]_promotionVars PROVE MisledInv'
  OBVIOUS
<1>1. PromotionTypeInv'
  BY PromotionTypesStep DEF MisledInv
<1>2. CASE \/ Calibrate \/ RunStaging \/ Review \/ DecideReview \/ Tick \/ Edit \/ Apply
           \/ UNCHANGED promotionVars
  BY <1>1, <1>2, MisledStays
     DEF Calibrate, RunStaging, Review, DecideReview, Tick, Edit, Apply, promotionVars, bounds, documents
<1>. QED  BY <1>1, <1>2, RecordingMisled, RecordMisledWrites, PackagingMisled, PackageMisledWrites
          DEF PromotionNext

(* The inductive invariant of the reads and of the edits between them.     *)
THEOREM MisledInvariant == PromotionSpec => []MisledInv
  BY MisledInitially, MisledStep, PTL DEF PromotionSpec

(* Whatever is approved, recorded, packaged and applied, and in whatever   *)
(* order others edit the target between the reads: with fewer than four    *)
(* edits every proposal is the file of its record with the approved field  *)
(* changed.                                                                *)
THEOREM ProposalsAreOfTheirBase == PromotionSpec => [](edits < 4 => ProposalIsOfItsBase)
<1>1. MisledInv => (edits < 4 => ProposalIsOfItsBase)
  BY DEF MisledInv
<1>. QED  BY <1>1, MisledInvariant, PTL

-----------------------------------------------------------------------------
(* OperationsParts: neither part disturbs the other, so that whatever is   *)
(* proved of a part holds of both together.                                *)
THEOREM OperationsAreApart == OperationsSpec => IncidentSpec /\ PromotionSpec
<1>1. OperationsInit => IncidentInit /\ PromotionInit
  BY DEF OperationsInit
<1>2. [OperationsNext]_<<focus, incidentVars, promotionVars>> =>
          [IncidentNext]_incidentVars /\ [PromotionNext]_promotionVars
  BY DEF OperationsNext
<1>. QED  BY <1>1, <1>2, PTL DEF OperationsSpec, IncidentSpec, PromotionSpec

(* Type correctness of incidents and of the promotion, together.           *)
THEOREM OperationsTypeCorrect == OperationsSpec => []AllTypesOK
<1>1. IncidentTypeOK /\ PromotionTypeOK => AllTypesOK
  BY DEF AllTypesOK
<1>. QED  BY <1>1, OperationsAreApart, IncidentTypeCorrect, PromotionTypeCorrect, PTL
=============================================================================
