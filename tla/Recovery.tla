------------------------------- MODULE Recovery -------------------------------
(***************************************************************************)
(* Daily partitions under Dagster: runs of shopify_daily_partition_job     *)
(* fail, are classified and retried, and shopify_daily_recovery_sensor     *)
(* replays what its policy proves safe                                     *)
(* (orchestration/dagster/commerce_dagster).                               *)
(*                                                                         *)
(* The partition of day d is complete at the end of that day; its run is   *)
(* due at 00:15 and its consumers' deadline is 01:00 of day d + 1.  The    *)
(* sensor reads marts and runs one after the other, and other actors move  *)
(* in between.                                                             *)
(***************************************************************************)
EXTENDS Integers, Sequences, FiniteSets

CONSTANTS Days,             \* bound: the partitions are 1..Days
          Horizon,          \* SHOPIFY_RECOVERY_HORIZON_DAYS
          MaxAutoReplays,   \* DEFAULT_MAX_AUTO_REPLAYS
          MaxRetries,       \* max_retries of TRANSIENT_RETRY_POLICY
          MaxMishaps,       \* bound: what goes wrong, and what operators do
          Steps,            \* the steps of the job, in order
          Marts,            \* SHOPIFY_DAILY_MART_ASSET_KEYS
          Faults            \* which faults may occur

FaultKinds == {"missed_tick", "infra_down", "extract_error", "tag_error", "cancel"}

ASSUME RecoveryAssumption ==
    /\ Days \in Nat /\ Horizon \in Nat /\ MaxAutoReplays \in Nat
    /\ MaxRetries \in Nat /\ MaxMishaps \in Nat
    /\ Steps \in Seq({"raw", "structured", "dbt"}) /\ Steps # <<>>
    /\ IsFiniteSet(Marts) /\ Marts # {}
    /\ Faults \subseteq FaultKinds

Partitions == 1..Days
ReplaySafe == {"transient_runtime", "infrastructure_unavailable"}
Classes == ReplaySafe \union {"data_contract", "unknown"}

VARIABLES
    day, stage,     \* the clock: "night", "ticked", "overdue" of a day
    up,             \* do the runtime services run?
    runs,           \* of each partition, oldest first
    materialized,   \* marts with a materialization event, of each partition
    sensor,         \* the evaluation under way
    mishaps         \* bounded counter

vars == <<day, stage, up, runs, materialized, sensor, mishaps>>

-----------------------------------------------------------------------------
(* failure_classification.py                                               *)
classify_command_failure(service_running, timed_out) ==
    IF ~service_running THEN "infrastructure_unavailable"
    ELSE IF timed_out THEN "transient_runtime" ELSE "unknown"

classify_dbt_failure(has_results, test_failed) ==
    IF has_results /\ test_failed THEN "data_contract" ELSE "unknown"

allow_step_retry(class) == class \in ReplaySafe

(* automation_policy.py: overdue partitions of the horizon at the time.    *)
Overdue == {p \in Partitions : /\ day - Horizon <= p /\ p < day
                               /\ p < day - 1 \/ stage = "overdue"}

(* The partition keys and the runs read are ordered: the last one of them. *)
Newest(S) == CHOOSE p \in S : \A q \in S : q <= p
Oldest(S) == CHOOSE p \in S : \A q \in S : p <= q

-----------------------------------------------------------------------------
(* recovery_state_current.py: what the sensor reads of a partition's runs. *)
WithStatus(p, s) == {i \in DOMAIN runs[p] : runs[p][i].status = s}
AutoRuns(p) == {i \in DOMAIN runs[p] : runs[p][i].auto}

failure_class(p) ==
    IF WithStatus(p, "failed") = {} THEN "none"
    ELSE LET tag == runs[p][Newest(WithStatus(p, "failed"))].tag
         IN IF tag = "none" THEN "unknown" ELSE tag

Observation(p) ==
    [materialized |-> sensor.missing = {},
     active |-> WithStatus(p, "active") # {},
     failed |-> WithStatus(p, "failed") # {},
     successful |-> WithStatus(p, "success") # {},
     class |-> failure_class(p),
     healthy |-> sensor.healthy,
     replays |-> Cardinality(AutoRuns(p)),
     missed |-> p = sensor.newest]

(* A slip: a run that owns the partition is not looked at.                 *)
decide_regardless(o) ==
    IF o.materialized THEN "no_action"
    ELSE IF ~o.healthy THEN "alert_and_wait"
    ELSE IF o.replays >= MaxAutoReplays \/ o.successful THEN "alert_manual"
    ELSE IF ~o.failed THEN IF o.missed THEN "auto_replay" ELSE "alert_manual"
    ELSE IF o.class \in ReplaySafe THEN "auto_replay" ELSE "alert_manual"

(* A slip: the replays a partition had already are not counted.            *)
decide_without_budget(o) ==
    IF o.materialized THEN "no_action"
    ELSE IF o.active THEN "wait"
    ELSE IF ~o.healthy THEN "alert_and_wait"
    ELSE IF o.successful THEN "alert_manual"
    ELSE IF ~o.failed THEN IF o.missed THEN "auto_replay" ELSE "alert_manual"
    ELSE IF o.class \in ReplaySafe THEN "auto_replay" ELSE "alert_manual"

(* Slips: an unknown class passes for safe; nothing passes for safe.       *)
decide_unknown_safe(o) ==
    IF o.materialized THEN "no_action"
    ELSE IF o.active THEN "wait"
    ELSE IF ~o.healthy THEN "alert_and_wait"
    ELSE IF o.replays >= MaxAutoReplays \/ o.successful THEN "alert_manual"
    ELSE IF ~o.failed THEN IF o.missed THEN "auto_replay" ELSE "alert_manual"
    ELSE IF o.class # "data_contract" THEN "auto_replay" ELSE "alert_manual"
decide_never(o) ==
    IF o.materialized THEN "no_action" ELSE IF o.active THEN "wait" ELSE "alert_manual"

(* decide_recovery of an overdue partition, in the order of its checks.    *)
decide_recovery(o) ==
    IF o.materialized THEN "no_action"
    ELSE IF o.active THEN "wait"
    ELSE IF ~o.healthy THEN "alert_and_wait"
    ELSE IF o.replays >= MaxAutoReplays \/ o.successful THEN "alert_manual"
    ELSE IF ~o.failed THEN IF o.missed THEN "auto_replay" ELSE "alert_manual"
    ELSE IF o.class \in ReplaySafe THEN "auto_replay" ELSE "alert_manual"

-----------------------------------------------------------------------------
(* A run, at its first step.  An automatic replay carries its attempt      *)
(* number, that is its run key.  History: was an attempt of a step found   *)
(* replay-safe, the class of the failure that ended the run, and what the  *)
(* sensor went by when it asked for a replay.                              *)
NewRun(auto, attempt, full, basis) ==
    [status |-> "active", auto |-> auto, attempt |-> attempt, full |-> full,
     step |-> 1, tries |-> 0, tag |-> "none", cause |-> "none",
     evidence |-> FALSE, basis |-> basis]

Manual == NewRun(FALSE, 0, TRUE, "none")

Launch(p, run) == runs' = [runs EXCEPT ![p] = Append(@, run)]

(* What goes wrong, or is done by hand, is counted against a bound.        *)
Mishap == mishaps < MaxMishaps /\ mishaps' = mishaps + 1

Idle == [at |-> "idle", todo |-> {}, newest |-> 0, healthy |-> TRUE, missing |-> {},
         attempt |-> 0, basis |-> "none"]

Init ==
    /\ day = 1 /\ stage = "overdue" /\ up = TRUE
    /\ runs = [p \in Partitions |-> <<>>]
    /\ materialized = [p \in Partitions |-> {}]
    /\ sensor = Idle
    /\ mishaps = 0

(* Midnight; the schedule's tick, that may be missed; the deadline.        *)
NextDay ==
    /\ stage = "overdue" /\ day <= Days
    /\ day' = day + 1 /\ stage' = "night"
    /\ UNCHANGED <<up, runs, materialized, sensor, mishaps>>

ScheduleTick ==
    /\ stage = "night"
    /\ stage' = "ticked"
    /\ \/ Launch(day - 1, Manual) /\ UNCHANGED mishaps
       \/ "missed_tick" \in Faults /\ Mishap /\ UNCHANGED runs
    /\ UNCHANGED <<day, up, materialized, sensor>>

PassDeadline ==
    /\ stage = "ticked"
    /\ stage' = "overdue"
    /\ UNCHANGED <<day, up, runs, materialized, sensor, mishaps>>

InfrastructureChanges ==
    /\ "infra_down" \in Faults
    /\ up' = ~up
    /\ IF up THEN Mishap ELSE UNCHANGED mishaps
    /\ UNCHANGED <<day, stage, runs, materialized, sensor>>

(* An operator starts a run, maybe of a part of the assets, or cancels one.*)
OperatorRuns(p) ==
    /\ p < day
    /\ Mishap
    /\ \E full \in BOOLEAN : Launch(p, [Manual EXCEPT !.full = full])
    /\ UNCHANGED <<day, stage, up, materialized, sensor>>

Ended(run, status, cause) ==
    [run EXCEPT !.status = status, !.cause = cause, !.step = 0, !.tries = 0]

OperatorCancels(p, i) ==
    /\ "cancel" \in Faults
    /\ runs[p][i].status = "active"
    /\ runs' = [runs EXCEPT ![p][i] = Ended(@, "failed", "unknown")]
    /\ Mishap
    /\ UNCHANGED <<day, stage, up, materialized, sensor>>

-----------------------------------------------------------------------------
(* A step of a run ends well; the last one materialized all the marts, or  *)
(* those that were selected.                                               *)
StepSucceeds(p, i) ==
    LET run == runs[p][i] IN
    /\ run.status = "active" /\ up
    /\ IF run.step < Len(Steps)
       THEN /\ runs' = [runs EXCEPT ![p][i].step = @ + 1, ![p][i].tries = 0]
            /\ UNCHANGED materialized
       ELSE /\ runs' = [runs EXCEPT ![p][i] = Ended(@, "success", "none")]
            /\ \E S \in SUBSET Marts :
                  /\ run.full => S = Marts
                  /\ materialized' = [materialized EXCEPT ![p] = @ \union S]
    /\ UNCHANGED <<day, stage, up, sensor, mishaps>>

(* An attempt fails with a class: the run's tag is overwritten, and Dagster*)
(* retries the step if the failure allows it.                              *)
AttemptFails(p, i, class, retry) ==
    LET run  == runs[p][i]
        again == retry /\ run.tries < MaxRetries IN
    \E tag \in {class} \union IF "tag_error" \in Faults THEN {run.tag} ELSE {} :
        LET noted == [run EXCEPT !.tag = tag, !.evidence = @ \/ class \in ReplaySafe]
        IN runs' = [runs EXCEPT ![p][i] = IF again THEN [noted EXCEPT !.tries = @ + 1]
                                          ELSE Ended(noted, "failed", class)]

(* SparkComposeResource._run: exit code or timeout, and then the probe.    *)
SparkFails(p, i) ==
    /\ runs[p][i].status = "active" /\ Steps[runs[p][i].step] # "dbt"
    /\ \E timed_out \in BOOLEAN :
          LET class == classify_command_failure(up, timed_out)
          IN AttemptFails(p, i, class, allow_step_retry(class))
    /\ Mishap
    /\ UNCHANGED <<day, stage, up, materialized, sensor>>

(* execute_classified_dbt: some marts may be there already.                *)
DbtFails(p, i) ==
    /\ runs[p][i].status = "active" /\ Steps[runs[p][i].step] = "dbt"
    /\ \E has_results, test_failed \in BOOLEAN :
          LET class == classify_dbt_failure(has_results, test_failed)
          IN AttemptFails(p, i, class, allow_step_retry(class))
    /\ \E S \in SUBSET Marts : materialized' = [materialized EXCEPT ![p] = @ \union S]
    /\ Mishap
    /\ UNCHANGED <<day, stage, up, sensor>>

(* The source API raises in the raw step: nobody classifies the exception, *)
(* nobody writes a tag, and Dagster's policy retries the step.             *)
ExtractFails(p, i) ==
    LET run == runs[p][i] IN
    /\ "extract_error" \in Faults
    /\ run.status = "active" /\ Steps[run.step] = "raw"
    /\ runs' = [runs EXCEPT ![p][i] =
                   IF run.tries < MaxRetries THEN [run EXCEPT !.tries = @ + 1]
                   ELSE Ended(run, "failed", "unknown")]
    /\ Mishap
    /\ UNCHANGED <<day, stage, up, materialized, sensor>>

-----------------------------------------------------------------------------
(* The sensor: the candidates and the health are read once ...             *)
StartEvaluation ==
    /\ sensor.at = "idle"
    /\ Overdue # {}
    /\ sensor' = [Idle EXCEPT !.at = "marts", !.todo = Overdue, !.healthy = up,
                              !.newest = Newest(Overdue)]
    /\ UNCHANGED <<day, stage, up, runs, materialized, mishaps>>

(* ... and then, candidate by candidate, its marts and its runs.           *)
ReadMarts ==
    /\ sensor.at = "marts"
    /\ sensor' = [sensor EXCEPT !.at = "runs",
                                !.missing = Marts \ materialized[Oldest(sensor.todo)]]
    /\ UNCHANGED <<day, stage, up, runs, materialized, mishaps>>

Decide ==
    LET p == Oldest(sensor.todo)
        o == Observation(p) IN
    /\ sensor.at = "runs"
    /\ sensor' =
          IF decide_recovery(o) = "auto_replay"
          THEN [sensor EXCEPT !.at = "request", !.todo = {p}, !.attempt = o.replays + 1,
                              !.basis = IF ~o.failed THEN "missed"
                                        ELSE runs[p][Newest(WithStatus(p, "failed"))].cause]
          ELSE IF sensor.todo = {p} THEN Idle
          ELSE [sensor EXCEPT !.at = "marts", !.todo = @ \ {p}]
    /\ UNCHANGED <<day, stage, up, runs, materialized, mishaps>>

(* The daemon launches the request, unless a run has its run key; when it  *)
(* dies before the tick is recorded, the same request is executed again.   *)
ExecuteRequest ==
    LET p == Oldest(sensor.todo) IN
    /\ sensor.at = "request"
    /\ IF \E i \in AutoRuns(p) : runs[p][i].attempt = sensor.attempt
       THEN UNCHANGED runs
       ELSE Launch(p, NewRun(TRUE, sensor.attempt, TRUE, sensor.basis))
    /\ \/ sensor' = Idle /\ UNCHANGED mishaps
       \/ UNCHANGED sensor /\ Mishap
    /\ UNCHANGED <<day, stage, up, materialized>>

(* ... and when it dies before the launch the evaluation is lost.          *)
DaemonCrashes ==
    /\ sensor.at # "idle"
    /\ sensor' = Idle
    /\ Mishap
    /\ UNCHANGED <<day, stage, up, runs, materialized>>

SensorStep == StartEvaluation \/ ReadMarts \/ Decide \/ ExecuteRequest

RunStep == \E p \in Partitions : \E i \in DOMAIN runs[p] :
               StepSucceeds(p, i) \/ SparkFails(p, i) \/ DbtFails(p, i) \/ ExtractFails(p, i)

Next ==
    \/ NextDay \/ ScheduleTick \/ PassDeadline
    \/ InfrastructureChanges
    \/ \E p \in Partitions : OperatorRuns(p) \/ \E i \in DOMAIN runs[p] : OperatorCancels(p, i)
    \/ RunStep
    \/ SensorStep
    \/ DaemonCrashes

Spec == Init /\ [][Next]_vars
FairSpec == Spec /\ WF_vars(SensorStep) /\ WF_vars(RunStep)

-----------------------------------------------------------------------------
Run == [status : {"active", "failed", "success"}, auto : BOOLEAN, attempt : Nat,
        full : BOOLEAN, step : 0..Len(Steps), tries : 0..MaxRetries,
        tag : Classes \union {"none"}, cause : Classes \union {"none"},
        evidence : BOOLEAN, basis : Classes \union {"none", "missed"}]

TypeOK ==
    /\ day \in 1..(Days + 1) /\ stage \in {"night", "ticked", "overdue"} /\ up \in BOOLEAN
    /\ runs \in [Partitions -> Seq(Run)]
    /\ materialized \in [Partitions -> SUBSET Marts]
    /\ sensor.todo \subseteq Partitions /\ sensor.missing \subseteq Marts
    /\ mishaps \in 0..MaxMishaps

(* No partition is ever replayed automatically more often than the budget  *)
(* allows, and no attempt twice: not when a request is executed again, nor *)
(* after an evaluation that was lost.                                      *)
ReplaysWithinBudget ==
    \A p \in Partitions :
        /\ Cardinality(AutoRuns(p)) <= MaxAutoReplays
        /\ \A i, j \in AutoRuns(p) : runs[p][i].attempt = runs[p][j].attempt => i = j

(* The replays of a partition do not overlap: the next one waits for the   *)
(* end of the one before it.                                               *)
OneReplayAtATime ==
    \A p \in Partitions : Cardinality(AutoRuns(p) \intersect WithStatus(p, "active")) <= 1

(* A replay rests on structured evidence: some failed attempt of an earlier*)
(* run was classified as replay-safe, or the newest overdue partition had  *)
(* no run at all.                                                          *)
ReplayHasEvidence ==
    \A p \in Partitions : \A i \in AutoRuns(p) :
        runs[p][i].basis # "missed" => \E j \in 1..(i - 1) : runs[p][j].evidence

(* A run that failed for an unknown reason is never replayed automatically *)
(* (failure_classification.py:3-4).                                        *)
ReplayWasSafe ==
    \A p \in Partitions : \A i \in AutoRuns(p) : runs[p][i].basis \in ReplaySafe \union {"missed"}

Recoverable(p) ==
    /\ p \in Overdue /\ up
    /\ materialized[p] # Marts
    /\ WithStatus(p, "active") = {} /\ WithStatus(p, "success") = {}
    /\ Cardinality(AutoRuns(p)) < MaxAutoReplays
    /\ \/ WithStatus(p, "failed") # {} /\ failure_class(p) \in ReplaySafe
       \/ WithStatus(p, "failed") = {} /\ p = Newest(Overdue)

(* A partition that stays recoverable is replayed.                         *)
RecoverableIsReplayed == \A p \in Partitions : Recoverable(p) ~> ~Recoverable(p)
-----------------------------------------------------------------------------
(* The inductive invariant behind the properties of replays, in parts.     *)

(* A new day begins after the first; the evaluation has a candidate, and   *)
(* its reads have the type of their sources.                               *)
SensorInv ==
    /\ stage # "overdue" => day > 1
    /\ sensor \in [at : {"idle", "marts", "runs", "request"}, todo : SUBSET Partitions,
                   newest : Nat, healthy : BOOLEAN, missing : SUBSET Marts, attempt : Nat,
                   basis : Classes \union {"none", "missed"}]
    /\ sensor.at # "idle" => sensor.todo # {}

(* Replays are numbered from 1, each number once, and only the last one    *)
(* may still be active; a replay-safe tag stems from a classified failure. *)
RunsInv ==
    \A p \in Partitions :
        /\ \A i, j \in AutoRuns(p) :
              \/ i = j
              \/ /\ runs[p][i].attempt # runs[p][j].attempt
                 /\ runs[p][i].status # "active" \/ runs[p][j].status # "active"
        /\ \A i \in AutoRuns(p) : runs[p][i].attempt \in 1..MaxAutoReplays
        /\ \A i \in DOMAIN runs[p] : runs[p][i].tag \in ReplaySafe => runs[p][i].evidence

(* A request is for one partition, within the budget, and still rests on   *)
(* what it was made for, whenever it is executed.                          *)
RequestInv ==
    sensor.at = "request" =>
        \E p \in Partitions :
            /\ sensor.todo = {p}
            /\ sensor.attempt \in 1..MaxAutoReplays
            /\ \A i \in AutoRuns(p) : runs[p][i].status = "active"
                                         => runs[p][i].attempt = sensor.attempt
            /\ sensor.basis # "missed" => \E j \in DOMAIN runs[p] : runs[p][j].evidence
=============================================================================
