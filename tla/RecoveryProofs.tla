---------------------------- MODULE RecoveryProofs ----------------------------
(***************************************************************************)
(* Theorems about Recovery, for any number of days, any horizon, budget    *)
(* and retry policy, any steps and marts, and every set of faults.         *)
(***************************************************************************)
EXTENDS Recovery, FiniteSetTheorems, WellFoundedInduction, TLAPS

(* A set of naturals that is not empty has a least element. *)
LEMMA LeastElement ==
    ASSUME NEW S, S \subseteq Nat, S # {}
    PROVE  \E n \in S : \A m \in S : n <= m
<1>. DEFINE R == {p \in Nat \X Nat : p[1] < p[2]}
<1>1. IsWellFoundedOn(R, Nat)  BY NatLessThanWellFounded DEF OpToRel
<1>. HIDE DEF R
<1>2. PICK x \in S : \A y \in S : ~ (<<y, x>> \in R)  BY <1>1, WFMin
<1>3. \A y \in S : ~ (y < x)  BY <1>2 DEF R
<1>. QED  BY <1>3

(* Oldest and Newest choose from the set they are given. *)
LEMMA OldestType ==
    ASSUME NEW S, S \subseteq Nat, S # {}
    PROVE  Oldest(S) \in S
  BY LeastElement DEF Oldest

(* The newest of some numbers is one of them. *)
LEMMA NewestType ==
    ASSUME NEW n \in Nat, NEW S, S \subseteq 1..n, S # {}
    PROVE  Newest(S) \in S
<1>. DEFINE T == {n - x : x \in S}
<1>1. T \subseteq Nat  OBVIOUS
<1>2. \A y \in S : n - y \in T  OBVIOUS
<1>3. \A x \in T : \E z \in S : x = n - z  OBVIOUS
<1>. HIDE DEF T
<1>4. PICK x \in T : \A y \in T : x <= y
  <2>1. T # {}  BY <1>2
  <2>. QED  BY <1>1, <2>1, LeastElement
<1>5. PICK z \in S : x = n - z  BY <1>3
<1>6. \A y \in S : y <= z
  <2>. SUFFICES ASSUME NEW y \in S PROVE y <= z  OBVIOUS
  <2>1. x <= n - y  BY <1>2, <1>4
  <2>. QED  BY <1>5, <2>1
<1>. QED  BY <1>6 DEF Newest

-----------------------------------------------------------------------------
(* The runs after one of them changed, or after a launch. *)
LEMMA RunChanges ==
    ASSUME runs \in [Partitions -> Seq(Run)], NEW p \in Partitions,
           NEW i \in DOMAIN runs[p], NEW x \in Run, runs' = [runs EXCEPT ![p][i] = x]
    PROVE  /\ runs' \in [Partitions -> Seq(Run)]
           /\ \A q \in Partitions : DOMAIN runs'[q] = DOMAIN runs[q]
           /\ \A q \in Partitions : \A j \in DOMAIN runs[q] :
                 runs'[q][j] = IF q = p /\ j = i THEN x ELSE runs[q][j]
<1>1. runs[p] \in Seq(Run) /\ runs' = [runs EXCEPT ![p] = [runs[p] EXCEPT ![i] = x]]  OBVIOUS
<1>2. [runs[p] EXCEPT ![i] = x] \in Seq(Run)  BY <1>1
<1>. QED  BY <1>1, <1>2

(* A launch appends one run and leaves the earlier ones as they are. *)
LEMMA RunLaunched ==
    ASSUME runs \in [Partitions -> Seq(Run)], NEW p \in Partitions, NEW x \in Run, Launch(p, x)
    PROVE  /\ runs' \in [Partitions -> Seq(Run)]
           /\ \A q \in Partitions : q # p => runs'[q] = runs[q]
           /\ DOMAIN runs[p] = 1..Len(runs[p]) /\ Len(runs[p]) \in Nat
           /\ DOMAIN runs'[p] = 1..(Len(runs[p]) + 1)
           /\ \A j \in DOMAIN runs[p] : runs'[p][j] = runs[p][j]
           /\ runs'[p][Len(runs[p]) + 1] = x
<1>1. runs[p] \in Seq(Run) /\ runs' = [runs EXCEPT ![p] = Append(runs[p], x)]  BY DEF Launch
<1>2. Append(runs[p], x) \in Seq(Run)  BY <1>1
<1>. QED  BY <1>1, <1>2

(* What an attempt, a cancellation or the end of a run makes of it. *)
SameRun(x, y) ==
    /\ y \in Run
    /\ y.auto = x.auto /\ y.attempt = x.attempt /\ y.basis = x.basis
    /\ x.evidence => y.evidence
    /\ y.tag \in ReplaySafe => y.evidence
    /\ y.status = "active" => x.status = "active"

Touched(p, i, y) ==
    /\ runs' = [runs EXCEPT ![p][i] = y]
    /\ SameRun(runs[p][i], y)

(* A run has at least one step. *)
LEMMA LenSteps == Len(Steps) \in Nat \ {0}
<1>1. Steps \in Seq({"raw", "structured", "dbt"}) /\ Steps # <<>>  BY RecoveryAssumption
<1>. QED  BY <1>1

(* One try more than the budget is still a number. *)
LEMMA OneTryMore ==
    /\ 0 \in 0..MaxRetries
    /\ \A n \in 0..MaxRetries : n < MaxRetries => n + 1 \in 0..MaxRetries
  BY RecoveryAssumption

(* One step more than a step that is not the last is a step. *)
LEMMA OneStepMore ==
    /\ 0 \in 0..Len(Steps)
    /\ \A n \in 0..Len(Steps) : n < Len(Steps) => n + 1 \in 0..Len(Steps)
  BY LenSteps

(* The end of a run leaves its identity as it is. *)
LEMMA EndedIsSame ==
    ASSUME NEW x \in Run, x.tag \in ReplaySafe => x.evidence,
           NEW s \in {"failed", "success"}, NEW c \in Classes \union {"none"}
    PROVE  SameRun(x, Ended(x, s, c))
<1>1. 0 \in 0..Len(Steps)  BY LenSteps
<1>2. Ended(x, s, c) \in Run  BY <1>1, OneTryMore DEF Run, Ended
<1>. QED  BY <1>2 DEF SameRun, Ended, Run

(* A run whose tries, or step and tries, are counted anew is the same run. *)
LEMMA RecountedIsSame ==
    ASSUME NEW x \in Run, x.tag \in ReplaySafe => x.evidence,
           NEW n \in 0..MaxRetries, NEW k \in 0..Len(Steps)
    PROVE  /\ SameRun(x, [x EXCEPT !.tries = n])
           /\ SameRun(x, [x EXCEPT !.step = k, !.tries = n])
<1>1. [x EXCEPT !.tries = n] \in Run  BY DEF Run
<1>2. [x EXCEPT !.step = k, !.tries = n] \in Run  BY DEF Run
<1>. QED  BY <1>1, <1>2 DEF SameRun, Run

(* An attempt that is noted leaves the identity of its run as it is.       *)
LEMMA NotedIsSame ==
    ASSUME NEW x \in Run, NEW t \in Classes \union {"none"}, NEW e \in BOOLEAN,
           x.evidence => e, t \in ReplaySafe => e
    PROVE  SameRun(x, [x EXCEPT !.tag = t, !.evidence = e])
<1>1. [x EXCEPT !.tag = t, !.evidence = e] \in Run  BY DEF Run
<1>. QED  BY <1>1 DEF SameRun, Run

(* Two fields of a run that are changed inside of the table of runs.       *)
LEMMA EditInPlace ==
    ASSUME NEW f, NEW p \in DOMAIN f, NEW i \in DOMAIN f[p]
    PROVE  [f EXCEPT ![p][i].step = @ + 1, ![p][i].tries = 0]
           = [f EXCEPT ![p][i] = [f[p][i] EXCEPT !.step = f[p][i].step + 1, !.tries = 0]]
  OBVIOUS

(* A step that ends, an attempt that fails and a cancellation leave the    *)
(* identity of a run as it is.                                             *)
LEMMA StepIsSame ==
    ASSUME TypeOK, RunsInv, NEW p \in Partitions, NEW i \in DOMAIN runs[p],
           \/ StepSucceeds(p, i) \/ SparkFails(p, i) \/ DbtFails(p, i) \/ ExtractFails(p, i)
           \/ OperatorCancels(p, i)
    PROVE  \E y \in Run : Touched(p, i, y)
<1>1. runs[p] \in Seq(Run) /\ runs[p][i] \in Run  BY DEF TypeOK
<1>2. runs[p][i].tag \in ReplaySafe => runs[p][i].evidence  BY DEF RunsInv
<1>. DEFINE run == runs[p][i]
<1>3. \A s \in {"failed", "success"} : \A c \in Classes \union {"none"} :
         Ended(run, s, c) \in Run /\ SameRun(run, Ended(run, s, c))
  BY <1>1, <1>2, EndedIsSame DEF SameRun
<1>4. ASSUME NEW class \in Classes, NEW retry, AttemptFails(p, i, class, retry), run.status = "active"
      PROVE  \E y \in Run : Touched(p, i, y)
  <2>1. PICK tag \in {class} \union (IF "tag_error" \in Faults THEN {run.tag} ELSE {}) :
           LET noted == [run EXCEPT !.tag = tag, !.evidence = @ \/ class \in ReplaySafe]
           IN runs' = [runs EXCEPT ![p][i] =
                         IF retry /\ run.tries < MaxRetries THEN [noted EXCEPT !.tries = @ + 1]
                         ELSE Ended(noted, "failed", class)]
    BY <1>4 DEF AttemptFails
  <2>. DEFINE noted == [run EXCEPT !.tag = tag, !.evidence = @ \/ class \in ReplaySafe]
              again == [noted EXCEPT !.tries = @ + 1]
  <2>2. tag \in Classes \union {"none"}  BY <1>1, <2>1 DEF Run
  <2>3. noted \in Run /\ SameRun(run, noted)
    <3>1. (run.evidence \/ class \in ReplaySafe) \in BOOLEAN  BY <1>1 DEF Run
    <3>2. tag \in ReplaySafe => (run.evidence \/ class \in ReplaySafe)  BY <2>1, <1>2
    <3>3. SameRun(run, noted)  BY <1>1, <2>2, <3>1, <3>2, NotedIsSame
    <3>. QED  BY <3>3 DEF SameRun
  <2>4. SameRun(run, Ended(noted, "failed", class)) /\ Ended(noted, "failed", class) \in Run
    <3>1. SameRun(noted, Ended(noted, "failed", class))
      BY <2>3, EndedIsSame DEF SameRun
    <3>. QED  BY <2>3, <3>1 DEF SameRun
  <2>5. ASSUME run.tries < MaxRetries PROVE again \in Run /\ SameRun(run, again)
    <3>1. run.tries + 1 \in 0..MaxRetries  BY <1>1, <2>5, OneTryMore DEF Run
    <3>2. noted.tries = run.tries  BY <1>1 DEF Run
    <3>3. noted.tag \in ReplaySafe => noted.evidence  BY <2>3 DEF SameRun
    <3>4. again = [noted EXCEPT !.tries = run.tries + 1]  BY <3>2
    <3>. HIDE DEF noted, again
    <3>5. SameRun(noted, again)  BY <2>3, <3>1, <3>3, <3>4, OneStepMore, RecountedIsSame
    <3>. QED  BY <2>3, <3>5 DEF SameRun
  <2>. QED  BY <2>1, <2>4, <2>5 DEF Touched
<1>5. CASE StepSucceeds(p, i)
  <2>1. CASE run.step < Len(Steps)
    <3>. DEFINE y == [run EXCEPT !.step = run.step + 1, !.tries = 0]
    <3>1. /\ runs' = [runs EXCEPT ![p][i].step = @ + 1, ![p][i].tries = 0]
          /\ i \in DOMAIN runs[p] /\ p \in DOMAIN runs
      BY <1>5, <2>1 DEF StepSucceeds, TypeOK
    <3>2. runs' = [runs EXCEPT ![p][i] = y]  BY <3>1, EditInPlace
    <3>3. run.step \in 0..Len(Steps)  BY <1>1 DEF Run
    <3>4. run.step + 1 \in 0..Len(Steps)  BY <2>1, <3>3, OneStepMore
    <3>5. SameRun(run, y)  BY <1>1, <1>2, <3>4, OneTryMore, RecountedIsSame
    <3>. QED  BY <3>2, <3>5 DEF Touched, SameRun
  <2>2. CASE ~(run.step < Len(Steps))
    <3>1. runs' = [runs EXCEPT ![p][i] = Ended(run, "success", "none")]
      BY <1>5, <2>2 DEF StepSucceeds
    <3>. QED  BY <1>3, <3>1 DEF Touched
  <2>. QED  BY <2>1, <2>2
<1>6. CASE SparkFails(p, i)
  <2>1. PICK timed_out \in BOOLEAN :
           LET class == classify_command_failure(up, timed_out)
           IN AttemptFails(p, i, class, allow_step_retry(class))
    BY <1>6 DEF SparkFails
  <2>2. classify_command_failure(up, timed_out) \in Classes
    BY DEF classify_command_failure, Classes, ReplaySafe
  <2>. QED  BY <1>4, <1>6, <2>1, <2>2 DEF SparkFails
<1>7. CASE DbtFails(p, i)
  <2>1. PICK has_results \in BOOLEAN, test_failed \in BOOLEAN :
           LET class == classify_dbt_failure(has_results, test_failed)
           IN AttemptFails(p, i, class, allow_step_retry(class))
    BY <1>7 DEF DbtFails
  <2>2. classify_dbt_failure(has_results, test_failed) \in Classes
    BY DEF classify_dbt_failure, Classes
  <2>. QED  BY <1>4, <1>7, <2>1, <2>2 DEF DbtFails
<1>8. CASE ExtractFails(p, i)
  <2>1. CASE run.tries < MaxRetries
    <3>. DEFINE y == [run EXCEPT !.tries = run.tries + 1]
    <3>1. runs' = [runs EXCEPT ![p][i] = y]  BY <1>8, <2>1 DEF ExtractFails
    <3>2. run.tries + 1 \in 0..MaxRetries  BY <1>1, <2>1, OneTryMore DEF Run
    <3>3. 0 \in 0..Len(Steps)  BY OneStepMore
    <3>4. SameRun(run, y)  BY <1>1, <1>2, <3>2, <3>3, RecountedIsSame
    <3>. QED  BY <3>1, <3>4 DEF Touched, SameRun
  <2>2. CASE ~(run.tries < MaxRetries)
    <3>1. runs' = [runs EXCEPT ![p][i] = Ended(run, "failed", "unknown")]
      BY <1>8, <2>2 DEF ExtractFails
    <3>. QED  BY <1>3, <3>1 DEF Touched, Classes
  <2>. QED  BY <2>1, <2>2
<1>9. CASE OperatorCancels(p, i)
  <2>1. runs' = [runs EXCEPT ![p][i] = Ended(run, "failed", "unknown")]
    BY <1>1, <1>9 DEF OperatorCancels, TypeOK
  <2>. QED  BY <1>3, <2>1 DEF Touched, Classes
<1>. QED  BY <1>5, <1>6, <1>7, <1>8, <1>9

-----------------------------------------------------------------------------
(* Every step keeps the types. *)
LEMMA TypeStep == TypeOK /\ SensorInv /\ RunsInv /\ [Next]_vars => TypeOK' /\ SensorInv'
<1>. SUFFICES ASSUME TypeOK, SensorInv, RunsInv, [Next]_vars PROVE TypeOK' /\ SensorInv'
  OBVIOUS
<1>. DEFINE Clock == day \in 1..(Days + 1) /\ stage \in {"night", "ticked", "overdue"} /\ up \in BOOLEAN
                     /\ (stage # "overdue" => day > 1)
            Rest == /\ materialized \in [Partitions -> SUBSET Marts] /\ mishaps \in 0..MaxMishaps
            Sensor == /\ sensor \in [at : {"idle", "marts", "runs", "request"}, todo : SUBSET Partitions,
                           newest : Nat, healthy : BOOLEAN, missing : SUBSET Marts, attempt : Nat,
                           basis : Classes \union {"none", "missed"}]
                      /\ sensor.at # "idle" => sensor.todo # {}
            Typed == runs \in [Partitions -> Seq(Run)]
<1>1. Clock /\ Rest /\ Sensor /\ Typed  BY DEF TypeOK, SensorInv
<1>2. Clock' /\ Rest' /\ Sensor' /\ Typed' => TypeOK' /\ SensorInv'  BY DEF TypeOK, SensorInv
<1>3. Partitions \subseteq Nat /\ Days \in Nat /\ MaxMishaps \in Nat
  BY RecoveryAssumption DEF Partitions
<1>4. (Mishap => mishaps' \in 0..MaxMishaps) /\ (UNCHANGED mishaps => mishaps' \in 0..MaxMishaps)
  BY <1>1, <1>3 DEF Mishap
<1>5. \A attempt \in Nat : \A basis \in Classes \union {"none", "missed"} :
         \A auto, full \in BOOLEAN : NewRun(auto, attempt, full, basis) \in Run
  <2>1. 1 \in 0..Len(Steps)  BY LenSteps
  <2>. QED  BY <2>1, OneTryMore DEF NewRun, Run
<1>6. ASSUME NEW p \in Partitions, NEW x \in Run, Launch(p, x) PROVE Typed'
  BY <1>1, <1>6, RunLaunched
<1>7. ASSUME NEW p \in Partitions, NEW i \in DOMAIN runs[p],
             \/ StepSucceeds(p, i) \/ SparkFails(p, i) \/ DbtFails(p, i) \/ ExtractFails(p, i)
             \/ OperatorCancels(p, i)
      PROVE  Clock' /\ Rest' /\ Sensor' /\ Typed'
  <2>1. PICK y \in Run : Touched(p, i, y)  BY <1>7, StepIsSame
  <2>2. Typed'  BY <1>1, <2>1, RunChanges DEF Touched
  <2>3. Rest'
    <3>1. materialized' \in [Partitions -> SUBSET Marts]
      <4>0. ASSUME NEW S \in SUBSET Marts, materialized' = [materialized EXCEPT ![p] = @ \union S]
            PROVE  materialized' \in [Partitions -> SUBSET Marts]
        BY <1>1, <4>0
      <4>1. CASE StepSucceeds(p, i)
        <5>1. UNCHANGED materialized
              \/ \E S \in SUBSET Marts : materialized' = [materialized EXCEPT ![p] = @ \union S]
          BY <4>1 DEF StepSucceeds
        <5>. QED  BY <1>1, <4>0, <5>1
      <4>2. CASE DbtFails(p, i)
        <5>1. \E S \in SUBSET Marts : materialized' = [materialized EXCEPT ![p] = @ \union S]
          BY <4>2 DEF DbtFails
        <5>. QED  BY <4>0, <5>1
      <4>3. CASE SparkFails(p, i)  BY <1>1, <4>3 DEF SparkFails
      <4>4. CASE ExtractFails(p, i) \/ OperatorCancels(p, i)
        BY <1>1, <4>4 DEF ExtractFails, OperatorCancels
      <4>. QED  BY <1>7, <4>1, <4>2, <4>3, <4>4
    <3>2. mishaps' \in 0..MaxMishaps
      BY <1>4, <1>7 DEF StepSucceeds, SparkFails, DbtFails, ExtractFails, OperatorCancels
    <3>. QED  BY <3>1, <3>2
  <2>4. UNCHANGED <<day, stage, up, sensor>>
    BY <1>7 DEF StepSucceeds, SparkFails, DbtFails, ExtractFails, OperatorCancels
  <2>. QED  BY <1>1, <2>2, <2>3, <2>4
<1>19. /\ UNCHANGED <<day, stage, up>> => Clock'
       /\ UNCHANGED <<materialized, mishaps>> => Rest'
       /\ UNCHANGED sensor => Sensor'
       /\ UNCHANGED runs => Typed'
  BY <1>1
<1>. HIDE DEF Clock, Rest, Sensor, Typed
<1>8. CASE NextDay
  <2>1. Clock'  BY <1>1, <1>3, <1>8 DEF NextDay, Clock
  <2>. QED  BY <1>2, <1>19, <1>8, <2>1 DEF NextDay
<1>9. CASE ScheduleTick
  <2>1. day - 1 \in Partitions  BY <1>1, <1>3, <1>9 DEF ScheduleTick, Partitions, Clock
  <2>2. Manual \in Run  BY <1>5 DEF Manual
  <2>3. Typed'  BY <1>1, <1>6, <1>9, <2>1, <2>2 DEF ScheduleTick, Typed
  <2>4. Clock'  BY <1>1, <1>9 DEF ScheduleTick, Clock
  <2>5. Rest'  BY <1>1, <1>4, <1>9 DEF ScheduleTick, Rest
  <2>. QED  BY <1>2, <1>19, <1>9, <2>3, <2>4, <2>5 DEF ScheduleTick
<1>10. CASE PassDeadline
  <2>1. Clock'  BY <1>1, <1>10 DEF PassDeadline, Clock
  <2>. QED  BY <1>2, <1>19, <1>10, <2>1 DEF PassDeadline
<1>11. CASE InfrastructureChanges
  <2>1. Clock'  BY <1>1, <1>11 DEF InfrastructureChanges, Clock
  <2>2. Rest'  BY <1>1, <1>4, <1>11 DEF InfrastructureChanges, Rest
  <2>. QED  BY <1>2, <1>19, <1>11, <2>1, <2>2 DEF InfrastructureChanges
<1>12. ASSUME NEW p \in Partitions, OperatorRuns(p) PROVE Clock' /\ Rest' /\ Sensor' /\ Typed'
  <2>1. PICK full \in BOOLEAN : Launch(p, [Manual EXCEPT !.full = full])  BY <1>12 DEF OperatorRuns
  <2>2. [Manual EXCEPT !.full = full] \in Run
    <3>1. Manual \in Run  BY <1>5 DEF Manual
    <3>. QED  BY <3>1 DEF Run
  <2>3. Typed'  BY <1>6, <2>1, <2>2 DEF Typed
  <2>4. Rest'  BY <1>1, <1>4, <1>12 DEF OperatorRuns, Rest
  <2>. QED  BY <1>2, <1>19, <1>12, <2>3, <2>4 DEF OperatorRuns
<1>13. CASE StartEvaluation
  <2>1. Overdue \subseteq Partitions /\ Overdue # {}  BY <1>13 DEF Overdue, StartEvaluation
  <2>2. Newest(Overdue) \in Nat
    BY <2>1, <1>3, NewestType DEF Partitions
  <2>3. Sensor'  BY <1>1, <1>13, <2>1, <2>2 DEF StartEvaluation, Idle, Sensor, Clock
  <2>. QED  BY <1>2, <1>19, <1>13, <2>3 DEF StartEvaluation
<1>14. CASE ReadMarts
  <2>1. Sensor'  BY <1>1, <1>14 DEF ReadMarts, Sensor
  <2>. QED  BY <1>2, <1>19, <1>14, <2>1 DEF ReadMarts
<1>15. CASE Decide
  <2>. DEFINE p == Oldest(sensor.todo)
  <2>1. p \in sensor.todo /\ p \in Partitions
    BY <1>1, <1>3, <1>15, OldestType DEF Decide, Sensor
  <2>2. AutoRuns(p) \subseteq 1..Len(runs[p]) /\ WithStatus(p, "failed") \subseteq 1..Len(runs[p])
        /\ Len(runs[p]) \in Nat /\ runs[p] \in Seq(Run)
    <3>1. runs[p] \in Seq(Run)  BY <1>1, <2>1 DEF Typed
    <3>. QED  BY <3>1 DEF AutoRuns, WithStatus
  <2>3. Cardinality(AutoRuns(p)) \in Nat
    <3>1. IsFiniteSet(1..Len(runs[p]))  BY <2>2, FS_Interval
    <3>. QED  BY <2>2, <3>1, FS_Subset, FS_CardinalityType
  <2>4. WithStatus(p, "failed") # {} =>
           runs[p][Newest(WithStatus(p, "failed"))].cause \in Classes \union {"none"}
    <3>1. ASSUME WithStatus(p, "failed") # {} PROVE Newest(WithStatus(p, "failed")) \in 1..Len(runs[p])
      BY <2>2, <3>1, NewestType
    <3>2. \A i \in 1..Len(runs[p]) : runs[p][i] \in Run  BY <2>2
    <3>3. \A x \in Run : x.cause \in Classes \union {"none"}  BY DEF Run
    <3>. QED  BY <3>1, <3>2, <3>3
  <2>5. \/ sensor' = Idle
        \/ sensor' = [sensor EXCEPT !.at = "marts", !.todo = @ \ {p}] /\ sensor.todo # {p}
        \/ \E b \in Classes \union {"none", "missed"} :
              sensor' = [sensor EXCEPT !.at = "request", !.todo = {p},
                            !.attempt = Cardinality(AutoRuns(p)) + 1, !.basis = b]
    <3>1. Observation(p).replays = Cardinality(AutoRuns(p))
          /\ Observation(p).failed = (WithStatus(p, "failed") # {})
      BY DEF Observation
    <3>. QED  BY <1>15, <2>4, <3>1 DEF Decide
  <2>6. Sensor'
    <3>1. CASE sensor' = Idle  BY <3>1 DEF Idle, Sensor
    <3>2. CASE sensor' = [sensor EXCEPT !.at = "marts", !.todo = @ \ {p}] /\ sensor.todo # {p}
      BY <1>1, <2>1, <3>2 DEF Sensor
    <3>3. ASSUME NEW b \in Classes \union {"none", "missed"},
                 sensor' = [sensor EXCEPT !.at = "request", !.todo = {p},
                               !.attempt = Cardinality(AutoRuns(p)) + 1, !.basis = b]
          PROVE  Sensor'
      <4>1. Cardinality(AutoRuns(p)) + 1 \in Nat  BY <2>3
      <4>. QED  BY <1>1, <2>1, <3>3, <4>1 DEF Sensor
    <3>. QED  BY <2>5, <3>1, <3>2, <3>3
  <2>. QED  BY <1>2, <1>19, <1>15, <2>6 DEF Decide
<1>16. CASE ExecuteRequest
  <2>1. Oldest(sensor.todo) \in Partitions  BY <1>1, <1>3, <1>16, OldestType
    DEF ExecuteRequest, Sensor
  <2>2. NewRun(TRUE, sensor.attempt, TRUE, sensor.basis) \in Run  BY <1>1, <1>5 DEF Sensor
  <2>3. Typed'  BY <1>1, <1>6, <1>16, <2>1, <2>2 DEF ExecuteRequest, Typed
  <2>4. Sensor'
    <3>1. CASE sensor' = Idle  BY <3>1 DEF Idle, Sensor
    <3>. QED  BY <1>16, <1>19, <3>1 DEF ExecuteRequest
  <2>5. Rest'  BY <1>1, <1>4, <1>16 DEF ExecuteRequest, Rest
  <2>. QED  BY <1>2, <1>19, <1>16, <2>3, <2>4, <2>5 DEF ExecuteRequest
<1>17. CASE DaemonCrashes
  <2>1. Sensor'  BY <1>17 DEF DaemonCrashes, Idle, Sensor
  <2>2. Rest'  BY <1>1, <1>4, <1>17 DEF DaemonCrashes, Rest
  <2>. QED  BY <1>2, <1>19, <1>17, <2>1, <2>2 DEF DaemonCrashes
<1>18. CASE UNCHANGED vars  BY <1>2, <1>18, <1>19 DEF vars
<1>. QED
  BY <1>2, <1>7, <1>8, <1>9, <1>10, <1>11, <1>12, <1>13, <1>14, <1>15, <1>16, <1>17, <1>18
  DEF Next, RunStep, SensorStep

-----------------------------------------------------------------------------
(* The invariant of the runs and of the request that is under way. *)
ReplayInv == RunsInv /\ RequestInv /\ ReplayHasEvidence

(* What happens to a run leaves the replays and what they rest on as they  *)
(* are.                                                                    *)
LEMMA TouchedKeepsReplays ==
    ASSUME TypeOK, ReplayInv, NEW p \in Partitions, NEW i \in DOMAIN runs[p], NEW y \in Run,
           Touched(p, i, y), UNCHANGED sensor
    PROVE  ReplayInv'
<1>1. /\ runs' \in [Partitions -> Seq(Run)]
      /\ \A q \in Partitions : DOMAIN runs'[q] = DOMAIN runs[q]
      /\ \A q \in Partitions : \A j \in DOMAIN runs[q] :
            runs'[q][j] = IF q = p /\ j = i THEN y ELSE runs[q][j]
  BY RunChanges DEF TypeOK, Touched
<1>2. \A q \in Partitions : \A j \in DOMAIN runs[q] :
         /\ runs'[q][j].auto = runs[q][j].auto
         /\ runs'[q][j].attempt = runs[q][j].attempt
         /\ runs'[q][j].basis = runs[q][j].basis
         /\ runs[q][j].evidence => runs'[q][j].evidence
         /\ runs'[q][j].status = "active" => runs[q][j].status = "active"
         /\ runs'[q][j].tag \in ReplaySafe => runs'[q][j].evidence
  BY <1>1 DEF Touched, SameRun, ReplayInv, RunsInv
<1>3. \A q \in Partitions : AutoRuns(q)' = AutoRuns(q) /\ AutoRuns(q) \subseteq DOMAIN runs[q]
  BY <1>1, <1>2 DEF AutoRuns
<1>4. RunsInv'
  <2>1. ASSUME NEW q \in Partitions, NEW j \in AutoRuns(q), NEW k \in AutoRuns(q), j # k
        PROVE  /\ runs'[q][j].attempt # runs'[q][k].attempt
               /\ runs'[q][j].status # "active" \/ runs'[q][k].status # "active"
    <3>1. /\ runs[q][j].attempt # runs[q][k].attempt
          /\ runs[q][j].status # "active" \/ runs[q][k].status # "active"
      BY <2>1 DEF ReplayInv, RunsInv
    <3>. QED  BY <1>2, <1>3, <3>1
  <2>2. ASSUME NEW q \in Partitions, NEW j \in AutoRuns(q)
        PROVE  runs'[q][j].attempt \in 1..MaxAutoReplays
    BY <1>2, <1>3 DEF ReplayInv, RunsInv
  <2>. QED  BY <1>1, <1>2, <1>3, <2>1, <2>2 DEF RunsInv
<1>5. RequestInv'
  <2>. SUFFICES ASSUME sensor.at = "request" PROVE RequestInv'
    BY DEF RequestInv
  <2>1. PICK q \in Partitions :
           /\ sensor.todo = {q}
           /\ sensor.attempt \in 1..MaxAutoReplays
           /\ \A k \in AutoRuns(q) : runs[q][k].status = "active"
                                        => runs[q][k].attempt = sensor.attempt
           /\ sensor.basis # "missed" => \E j \in DOMAIN runs[q] : runs[q][j].evidence
    BY DEF ReplayInv, RequestInv
  <2>2. \A k \in AutoRuns(q)' : runs'[q][k].status = "active" => runs'[q][k].attempt = sensor.attempt
    BY <1>2, <1>3, <2>1
  <2>3. sensor.basis # "missed" => \E j \in DOMAIN runs'[q] : runs'[q][j].evidence
    BY <1>1, <1>2, <2>1
  <2>. QED  BY <2>1, <2>2, <2>3 DEF RequestInv
<1>6. ReplayHasEvidence'
  <2>. SUFFICES ASSUME NEW q \in Partitions, NEW k \in AutoRuns(q)', runs'[q][k].basis # "missed"
                PROVE  \E j \in 1..(k - 1) : runs'[q][j].evidence
    BY DEF ReplayHasEvidence
  <2>1. PICK j \in 1..(k - 1) : runs[q][j].evidence
    BY <1>2, <1>3 DEF ReplayInv, ReplayHasEvidence
  <2>2. k \in DOMAIN runs[q] /\ DOMAIN runs[q] = 1..Len(runs[q]) /\ Len(runs[q]) \in Nat
    BY <1>3 DEF TypeOK
  <2>3. j \in DOMAIN runs[q]  BY <2>2
  <2>. QED  BY <1>2, <2>1, <2>3
<1>. QED  BY <1>4, <1>5, <1>6 DEF ReplayInv

(* A launch adds a run at the end; if it is a replay, its number is new,   *)
(* no other replay is active, and it rests on an earlier run.              *)
LEMMA LaunchKeepsReplays ==
    ASSUME TypeOK, RunsInv, ReplayHasEvidence, NEW p \in Partitions, NEW x \in Run,
           Launch(p, x), x.tag = "none",
           x.auto => /\ x.attempt \in 1..MaxAutoReplays
                     /\ \A k \in AutoRuns(p) : /\ runs[p][k].attempt # x.attempt
                                               /\ runs[p][k].status # "active"
                     /\ x.basis # "missed" => \E j \in DOMAIN runs[p] : runs[p][j].evidence
    PROVE  RunsInv' /\ ReplayHasEvidence'
<1>. DEFINE n == Len(runs[p]) + 1
<1>1. /\ runs' \in [Partitions -> Seq(Run)]
      /\ \A q \in Partitions : q # p => runs'[q] = runs[q]
      /\ DOMAIN runs[p] = 1..Len(runs[p]) /\ Len(runs[p]) \in Nat
      /\ DOMAIN runs'[p] = 1..n
      /\ \A j \in DOMAIN runs[p] : runs'[p][j] = runs[p][j]
      /\ runs'[p][n] = x
  BY RunLaunched DEF TypeOK
<1>2. DOMAIN runs'[p] = DOMAIN runs[p] \union {n} /\ n \notin DOMAIN runs[p]
  BY <1>1
<1>3. \A q \in Partitions : AutoRuns(q) \subseteq DOMAIN runs[q]  BY DEF AutoRuns
<1>4. \A q \in Partitions : q # p => AutoRuns(q)' = AutoRuns(q)  BY <1>1 DEF AutoRuns
<1>5. AutoRuns(p)' = IF x.auto THEN AutoRuns(p) \union {n} ELSE AutoRuns(p)
  BY <1>1, <1>2 DEF AutoRuns
<1>. HIDE DEF n
<1>6. RunsInv'
  <2>1. ASSUME NEW q \in Partitions, NEW j \in AutoRuns(q)', NEW k \in AutoRuns(q)', j # k
        PROVE  /\ runs'[q][j].attempt # runs'[q][k].attempt
               /\ runs'[q][j].status # "active" \/ runs'[q][k].status # "active"
    <3>1. CASE q # p  BY <1>1, <1>4, <2>1, <3>1 DEF RunsInv
    <3>2. CASE q = p /\ j \in AutoRuns(p) /\ k \in AutoRuns(p)
      BY <1>1, <1>3, <2>1, <3>2 DEF RunsInv
    <3>3. CASE q = p /\ ~ (j \in AutoRuns(p) /\ k \in AutoRuns(p))
      <4>1. x.auto  BY <1>5, <2>1, <3>3
      <4>2. (j = n /\ k \in AutoRuns(p)) \/ (k = n /\ j \in AutoRuns(p))  BY <1>5, <2>1, <3>3
      <4>. QED  BY <1>1, <1>3, <3>3, <4>1, <4>2
    <3>. QED  BY <3>1, <3>2, <3>3
  <2>2. ASSUME NEW q \in Partitions, NEW j \in AutoRuns(q)'
        PROVE  runs'[q][j].attempt \in 1..MaxAutoReplays
    <3>1. CASE q # p  BY <1>1, <1>4, <2>2, <3>1 DEF RunsInv
    <3>2. CASE q = p /\ j \in AutoRuns(p)  BY <1>1, <1>3, <3>2 DEF RunsInv
    <3>3. CASE q = p /\ j \notin AutoRuns(p)
      <4>1. x.auto /\ j = n  BY <1>5, <2>2, <3>3
      <4>. QED  BY <1>1, <3>3, <4>1
    <3>. QED  BY <3>1, <3>2, <3>3
  <2>3. ASSUME NEW q \in Partitions, NEW j \in DOMAIN runs'[q], runs'[q][j].tag \in ReplaySafe
        PROVE  runs'[q][j].evidence
    <3>1. CASE q # p  BY <1>1, <2>3, <3>1 DEF RunsInv
    <3>2. CASE q = p /\ j \in DOMAIN runs[p]  BY <1>1, <2>3, <3>2 DEF RunsInv
    <3>3. CASE q = p /\ j = n  BY <1>1, <2>3, <3>3 DEF ReplaySafe
    <3>. QED  BY <1>2, <2>3, <3>1, <3>2, <3>3
  <2>. QED  BY <2>1, <2>2, <2>3 DEF RunsInv
<1>7. ReplayHasEvidence'
  <2>. SUFFICES ASSUME NEW q \in Partitions, NEW k \in AutoRuns(q)', runs'[q][k].basis # "missed"
                PROVE  \E j \in 1..(k - 1) : runs'[q][j].evidence
    BY DEF ReplayHasEvidence
  <2>1. CASE q # p  BY <1>1, <1>4, <2>1 DEF ReplayHasEvidence
  <2>2. CASE q = p /\ k \in AutoRuns(p)
    <3>1. PICK j \in 1..(k - 1) : runs[p][j].evidence
      BY <1>1, <1>3, <2>2 DEF ReplayHasEvidence
    <3>2. j \in DOMAIN runs[p]  BY <1>1, <1>3, <2>2
    <3>. QED  BY <1>1, <2>2, <3>1, <3>2
  <2>3. CASE q = p /\ k \notin AutoRuns(p)
    <3>1. x.auto /\ k = n  BY <1>5, <2>3
    <3>2. PICK j \in DOMAIN runs[p] : runs[p][j].evidence  BY <1>1, <2>3, <3>1
    <3>3. j \in 1..(k - 1)  BY <1>1, <3>1 DEF n
    <3>. QED  BY <1>1, <2>3, <3>2, <3>3
  <2>. QED  BY <2>1, <2>2, <2>3
<1>. QED  BY <1>6, <1>7

(* A run that somebody starts by hand is no replay. *)
LEMMA ManualLaunchKeepsReplays ==
    ASSUME TypeOK, ReplayInv, NEW p \in Partitions, NEW x \in Run,
           Launch(p, x), x.tag = "none", x.auto = FALSE, UNCHANGED sensor
    PROVE  ReplayInv'
<1>1. RunsInv' /\ ReplayHasEvidence'  BY LaunchKeepsReplays DEF ReplayInv
<1>2. /\ \A q \in Partitions : q # p => runs'[q] = runs[q]
      /\ DOMAIN runs[p] \subseteq DOMAIN runs'[p]
      /\ \A j \in DOMAIN runs[p] : runs'[p][j] = runs[p][j]
      /\ \A j \in DOMAIN runs'[p] : j \in DOMAIN runs[p] \/ runs'[p][j] = x
  <2>1. /\ \A q \in Partitions : q # p => runs'[q] = runs[q]
        /\ DOMAIN runs[p] = 1..Len(runs[p]) /\ Len(runs[p]) \in Nat
        /\ DOMAIN runs'[p] = 1..(Len(runs[p]) + 1)
        /\ \A j \in DOMAIN runs[p] : runs'[p][j] = runs[p][j]
        /\ runs'[p][Len(runs[p]) + 1] = x
    BY RunLaunched DEF TypeOK
  <2>2. DOMAIN runs'[p] = DOMAIN runs[p] \union {Len(runs[p]) + 1}  BY <2>1
  <2>. QED  BY <2>1, <2>2
<1>3. \A q \in Partitions : AutoRuns(q)' = AutoRuns(q) /\ AutoRuns(q) \subseteq DOMAIN runs[q]
  BY <1>2 DEF AutoRuns
<1>4. RequestInv'
  <2>. SUFFICES ASSUME sensor.at = "request" PROVE RequestInv'
    BY DEF RequestInv
  <2>1. PICK q \in Partitions :
           /\ sensor.todo = {q}
           /\ sensor.attempt \in 1..MaxAutoReplays
           /\ \A k \in AutoRuns(q) : runs[q][k].status = "active"
                                        => runs[q][k].attempt = sensor.attempt
           /\ sensor.basis # "missed" => \E j \in DOMAIN runs[q] : runs[q][j].evidence
    BY DEF ReplayInv, RequestInv
  <2>2. \A k \in AutoRuns(q)' : runs'[q][k].status = "active" => runs'[q][k].attempt = sensor.attempt
    BY <1>2, <1>3, <2>1
  <2>3. sensor.basis # "missed" => \E j \in DOMAIN runs'[q] : runs'[q][j].evidence
    BY <1>2, <2>1
  <2>. QED  BY <2>1, <2>2, <2>3 DEF RequestInv
<1>. QED  BY <1>1, <1>4 DEF ReplayInv

(* The decision to replay is only made within the budget, while no run is  *)
(* active, and of a failure that was classified as safe.                   *)
LEMMA DecideKeepsReplays ==
    ASSUME TypeOK, SensorInv, ReplayInv, Decide
    PROVE  ReplayInv'
<1>. DEFINE p == Oldest(sensor.todo)
            o == Observation(p)
<1>1. p \in Partitions
  <2>1. sensor.todo \subseteq Partitions /\ sensor.todo # {} /\ Partitions \subseteq Nat
    BY DEF SensorInv, Decide, Partitions
  <2>. QED  BY <2>1, OldestType
<1>2. UNCHANGED runs  BY DEF Decide
<1>3. RunsInv' /\ ReplayHasEvidence'
  BY <1>2 DEF ReplayInv, RunsInv, ReplayHasEvidence, AutoRuns
<1>4. RequestInv'
  <2>. SUFFICES ASSUME sensor'.at = "request" PROVE RequestInv'
    BY DEF RequestInv
  <2>1. /\ decide_recovery(o) = "auto_replay"
        /\ sensor' = [sensor EXCEPT !.at = "request", !.todo = {p}, !.attempt = o.replays + 1,
                        !.basis = IF ~o.failed THEN "missed"
                                  ELSE runs[p][Newest(WithStatus(p, "failed"))].cause]
    <3>1. sensor.at = "runs"  BY DEF Decide
    <3>. QED  BY <3>1 DEF Decide, Idle, SensorInv
  <2>2. ~o.active /\ ~(o.replays >= MaxAutoReplays) /\ (~o.failed \/ o.class \in ReplaySafe)
    BY <2>1 DEF decide_recovery
  <2>3. /\ o.active = (WithStatus(p, "active") # {}) /\ o.replays = Cardinality(AutoRuns(p))
        /\ o.failed = (WithStatus(p, "failed") # {}) /\ o.class = failure_class(p)
    BY DEF Observation
  <2>4. sensor'.todo = {p} /\ sensor'.attempt = Cardinality(AutoRuns(p)) + 1
    BY <2>1, <2>3 DEF SensorInv
  <2>5. runs[p] \in Seq(Run) /\ Len(runs[p]) \in Nat  BY <1>1 DEF TypeOK
  <2>6. sensor'.attempt \in 1..MaxAutoReplays
    <3>1. IsFiniteSet(1..Len(runs[p]))  BY <2>5, FS_Interval
    <3>2. AutoRuns(p) \subseteq 1..Len(runs[p])  BY <2>5 DEF AutoRuns
    <3>3. Cardinality(AutoRuns(p)) \in Nat  BY <3>1, <3>2, FS_Subset, FS_CardinalityType
    <3>. QED  BY <2>2, <2>3, <2>4, <3>3, RecoveryAssumption
  <2>7. \A k \in AutoRuns(p) : runs[p][k].status # "active"
    BY <2>2, <2>3 DEF WithStatus, AutoRuns
  <2>8. ASSUME sensor'.basis # "missed" PROVE \E j \in DOMAIN runs[p] : runs[p][j].evidence
    <3>1. WithStatus(p, "failed") # {}  BY <2>1, <2>3, <2>8 DEF SensorInv
    <3>2. WithStatus(p, "failed") \subseteq 1..Len(runs[p])  BY <2>5 DEF WithStatus
    <3>3. Newest(WithStatus(p, "failed")) \in WithStatus(p, "failed")
      BY <2>5, <3>1, <3>2, NewestType
    <3>4. failure_class(p) \in ReplaySafe  BY <2>2, <2>3, <3>1
    <3>5. runs[p][Newest(WithStatus(p, "failed"))].tag \in ReplaySafe
      BY <3>1, <3>4 DEF failure_class, ReplaySafe
    <3>6. Newest(WithStatus(p, "failed")) \in DOMAIN runs[p]  BY <3>3 DEF WithStatus
    <3>. QED  BY <1>1, <3>5, <3>6 DEF ReplayInv, RunsInv
  <2>. QED  BY <1>1, <1>2, <2>4, <2>6, <2>7, <2>8 DEF RequestInv, AutoRuns
<1>. QED  BY <1>3, <1>4 DEF ReplayInv

(* The daemon executes a request, maybe a second time: the run key lets    *)
(* it launch only a replay of a new number.                                *)
LEMMA ExecuteKeepsReplays ==
    ASSUME TypeOK, SensorInv, ReplayInv, ExecuteRequest
    PROVE  ReplayInv'
<1>1. PICK p \in Partitions :
         /\ sensor.todo = {p}
         /\ sensor.attempt \in 1..MaxAutoReplays
         /\ \A i \in AutoRuns(p) : runs[p][i].status = "active"
                                      => runs[p][i].attempt = sensor.attempt
         /\ sensor.basis # "missed" => \E j \in DOMAIN runs[p] : runs[p][j].evidence
  BY DEF ReplayInv, RequestInv, ExecuteRequest
<1>2. Oldest(sensor.todo) = p  BY <1>1, OldestType DEF Partitions
<1>. DEFINE x == NewRun(TRUE, sensor.attempt, TRUE, sensor.basis)
<1>3. sensor' = Idle \/ sensor' = sensor  BY DEF ExecuteRequest
<1>4. CASE UNCHANGED runs
  <2>1. RunsInv' /\ ReplayHasEvidence'
    BY <1>4 DEF ReplayInv, RunsInv, ReplayHasEvidence, AutoRuns
  <2>2. RequestInv'  BY <1>3, <1>4 DEF ReplayInv, RequestInv, Idle, AutoRuns
  <2>. QED  BY <2>1, <2>2 DEF ReplayInv
<1>5. CASE Launch(p, x) /\ ~ (\E i \in AutoRuns(p) : runs[p][i].attempt = sensor.attempt)
  <2>1. x \in Run
    <3>1. 1 \in 0..Len(Steps)  BY LenSteps
    <3>. QED  BY <3>1, OneTryMore DEF NewRun, Run, SensorInv
  <2>2. /\ x.tag = "none" /\ x.auto = TRUE /\ x.attempt = sensor.attempt
        /\ x.basis = sensor.basis
    BY DEF NewRun
  <2>3. RunsInv' /\ ReplayHasEvidence'
    BY <1>1, <1>5, <2>1, <2>2, LaunchKeepsReplays DEF ReplayInv
  <2>4. RequestInv'
    <3>1. CASE sensor' = Idle  BY <3>1 DEF RequestInv, Idle
    <3>2. CASE sensor' = sensor
      <4>1. /\ DOMAIN runs[p] = 1..Len(runs[p]) /\ Len(runs[p]) \in Nat
            /\ DOMAIN runs'[p] = 1..(Len(runs[p]) + 1)
            /\ \A j \in DOMAIN runs[p] : runs'[p][j] = runs[p][j]
            /\ runs'[p][Len(runs[p]) + 1] = x
        BY <1>5, <2>1, RunLaunched DEF TypeOK
      <4>2. DOMAIN runs'[p] = DOMAIN runs[p] \union {Len(runs[p]) + 1}  BY <4>1
      <4>3. \A k \in AutoRuns(p)' : runs'[p][k].status = "active"
                                       => runs'[p][k].attempt = sensor.attempt
        BY <1>1, <2>2, <4>1, <4>2 DEF AutoRuns
      <4>4. sensor.basis # "missed" => \E j \in DOMAIN runs'[p] : runs'[p][j].evidence
        BY <1>1, <4>1, <4>2
      <4>. QED  BY <1>1, <3>2, <4>3, <4>4 DEF RequestInv
    <3>. QED  BY <1>3, <3>1, <3>2
  <2>. QED  BY <2>3, <2>4 DEF ReplayInv
<1>. QED  BY <1>2, <1>4, <1>5 DEF ExecuteRequest

(* Every step keeps the invariant of the replays. *)
LEMMA ReplayStep ==
    TypeOK /\ SensorInv /\ ReplayInv /\ [Next]_vars => ReplayInv'
<1>. SUFFICES ASSUME TypeOK, SensorInv, ReplayInv, [Next]_vars PROVE ReplayInv'
  OBVIOUS
<1>1. ASSUME UNCHANGED runs, sensor' = sensor \/ sensor'.at # "request" PROVE ReplayInv'
  <2>1. RunsInv' /\ ReplayHasEvidence'
    BY <1>1 DEF ReplayInv, RunsInv, ReplayHasEvidence, AutoRuns
  <2>2. RequestInv'  BY <1>1 DEF ReplayInv, RequestInv, AutoRuns
  <2>. QED  BY <2>1, <2>2 DEF ReplayInv
<1>2. Manual \in Run /\ Manual.tag = "none" /\ Manual.auto = FALSE
  <2>1. 1 \in 0..Len(Steps)  BY LenSteps
  <2>. QED  BY <2>1, OneTryMore DEF Manual, NewRun, Run
<1>3. ASSUME NEW p \in Partitions, NEW i \in DOMAIN runs[p],
             \/ StepSucceeds(p, i) \/ SparkFails(p, i) \/ DbtFails(p, i) \/ ExtractFails(p, i)
             \/ OperatorCancels(p, i)
      PROVE  ReplayInv'
  <2>1. PICK y \in Run : Touched(p, i, y)  BY <1>3, StepIsSame DEF ReplayInv
  <2>2. UNCHANGED sensor
    BY <1>3 DEF StepSucceeds, SparkFails, DbtFails, ExtractFails, OperatorCancels
  <2>. QED  BY <2>1, <2>2, TouchedKeepsReplays
<1>4. CASE NextDay \/ PassDeadline \/ InfrastructureChanges
  BY <1>1, <1>4 DEF NextDay, PassDeadline, InfrastructureChanges
<1>5. CASE ScheduleTick
  <2>1. CASE UNCHANGED runs  BY <1>1, <1>5, <2>1 DEF ScheduleTick
  <2>2. CASE Launch(day - 1, Manual)
    <3>1. day - 1 \in Partitions
      BY <1>5, RecoveryAssumption DEF ScheduleTick, TypeOK, SensorInv, Partitions
    <3>. QED  BY <1>2, <1>5, <2>2, <3>1, ManualLaunchKeepsReplays DEF ScheduleTick
  <2>. QED  BY <1>5, <2>1, <2>2 DEF ScheduleTick
<1>6. ASSUME NEW p \in Partitions, OperatorRuns(p) PROVE ReplayInv'
  <2>1. PICK full \in BOOLEAN : Launch(p, [Manual EXCEPT !.full = full])  BY <1>6 DEF OperatorRuns
  <2>. DEFINE x == [Manual EXCEPT !.full = full]
  <2>2. x \in Run /\ x.tag = "none" /\ x.auto = FALSE  BY <1>2 DEF Run
  <2>3. UNCHANGED sensor  BY <1>6 DEF OperatorRuns
  <2>. HIDE DEF x
  <2>4. Launch(p, x)  BY <2>1 DEF x
  <2>. QED  BY <2>2, <2>3, <2>4, ManualLaunchKeepsReplays
<1>7. CASE StartEvaluation \/ ReadMarts \/ DaemonCrashes
  <2>1. UNCHANGED runs  BY <1>7 DEF StartEvaluation, ReadMarts, DaemonCrashes
  <2>2. sensor'.at # "request"
    <3>1. CASE StartEvaluation  BY <3>1 DEF StartEvaluation, Idle
    <3>2. CASE ReadMarts
      <4>1. sensor' = [sensor EXCEPT !.at = "runs", !.missing = sensor'.missing]
        BY <3>2 DEF ReadMarts, SensorInv
      <4>. QED  BY <4>1 DEF SensorInv
    <3>3. CASE DaemonCrashes  BY <3>3 DEF DaemonCrashes, Idle
    <3>. QED  BY <1>7, <3>1, <3>2, <3>3
  <2>. QED  BY <1>1, <2>1, <2>2
<1>8. CASE Decide  BY <1>8, DecideKeepsReplays
<1>9. CASE ExecuteRequest  BY <1>9, ExecuteKeepsReplays
<1>10. CASE UNCHANGED vars  BY <1>1, <1>10 DEF vars
<1>. QED
  BY <1>3, <1>4, <1>5, <1>6, <1>7, <1>8, <1>9, <1>10 DEF Next, RunStep, SensorStep

-----------------------------------------------------------------------------
(* The invariant holds initially. *)
LEMMA Initially == Init => TypeOK /\ SensorInv /\ ReplayInv
<1>. SUFFICES ASSUME Init PROVE TypeOK /\ SensorInv /\ ReplayInv
  OBVIOUS
<1>. USE RecoveryAssumption DEF Init, Idle
<1>1. \A p \in Partitions : AutoRuns(p) = {} /\ DOMAIN runs[p] = {}  BY DEF AutoRuns
<1>2. TypeOK  BY DEF TypeOK
<1>3. SensorInv  BY DEF SensorInv
<1>4. ReplayInv  BY <1>1 DEF ReplayInv, RunsInv, RequestInv, ReplayHasEvidence
<1>. QED  BY <1>2, <1>3, <1>4

(* The inductive invariant: types, numbers of replays, and a request that  *)
(* stays within the budget until it is executed.                           *)
THEOREM RecoveryInvariant == Spec => [](TypeOK /\ SensorInv /\ ReplayInv)
<1>1. (TypeOK /\ SensorInv /\ ReplayInv) /\ [Next]_vars => (TypeOK /\ SensorInv /\ ReplayInv)'
  BY TypeStep, ReplayStep DEF ReplayInv
<1>. QED  BY <1>1, Initially, PTL DEF Spec

(* No partition is replayed more often than its budget allows, and no      *)
(* attempt twice, whenever evaluations are lost or requests are executed   *)
(* again.                                                                  *)
THEOREM ReplaysStayWithinBudget == Spec => []ReplaysWithinBudget
<1>1. TypeOK /\ RunsInv => ReplaysWithinBudget
  <2>. SUFFICES ASSUME TypeOK, RunsInv, NEW p \in Partitions
                PROVE  /\ Cardinality(AutoRuns(p)) <= MaxAutoReplays
                       /\ \A i, j \in AutoRuns(p) :
                             runs[p][i].attempt = runs[p][j].attempt => i = j
    BY DEF ReplaysWithinBudget
  <2>. DEFINE f == [i \in AutoRuns(p) |-> runs[p][i].attempt]
  <2>1. \A i, j \in AutoRuns(p) : runs[p][i].attempt = runs[p][j].attempt => i = j
    BY DEF RunsInv
  <2>2. \A i \in AutoRuns(p) : runs[p][i].attempt \in 1..MaxAutoReplays  BY DEF RunsInv
  <2>3. f \in Injection(AutoRuns(p), 1..MaxAutoReplays)
    BY <2>1, <2>2 DEF Injection, IsInjective
  <2>4. IsFiniteSet(1..MaxAutoReplays) /\ Cardinality(1..MaxAutoReplays) = MaxAutoReplays
    BY RecoveryAssumption, FS_Interval
  <2>5. Cardinality(AutoRuns(p)) <= Cardinality(1..MaxAutoReplays)
    BY <2>3, <2>4, FS_Injection
  <2>. QED  BY <2>1, <2>4, <2>5
<1>. QED  BY <1>1, RecoveryInvariant, PTL DEF ReplayInv

(* Two replays of a partition are never active at the same time. *)
THEOREM ReplaysDoNotOverlap == Spec => []OneReplayAtATime
<1>1. TypeOK /\ RunsInv => OneReplayAtATime
  <2>. SUFFICES ASSUME TypeOK, RunsInv, NEW p \in Partitions
                PROVE  Cardinality(AutoRuns(p) \intersect WithStatus(p, "active")) <= 1
    BY DEF OneReplayAtATime
  <2>. DEFINE S == AutoRuns(p) \intersect WithStatus(p, "active")
  <2>1. \A i, j \in S : i = j  BY DEF RunsInv, WithStatus
  <2>2. CASE S = {}  BY <2>2, FS_EmptySet
  <2>3. ASSUME NEW i \in S PROVE Cardinality(S) <= 1
    <3>1. S = {i}  BY <2>1, <2>3
    <3>2. Cardinality({i}) = 1  BY FS_Singleton
    <3>. QED  BY <3>1, <3>2
  <2>. QED  BY <2>2, <2>3
<1>. QED  BY <1>1, RecoveryInvariant, PTL DEF ReplayInv

(* Every replay after a failure rests on an earlier attempt that was       *)
(* classified as replay-safe.                                              *)
THEOREM ReplaysHaveEvidence == Spec => []ReplayHasEvidence
  BY RecoveryInvariant, PTL DEF ReplayInv
=============================================================================
