-------------------------- MODULE ServingExportProofs --------------------------
(***************************************************************************)
(* Theorems about ServingExport, for every set of jobs, regions and        *)
(* required assets, any number of days and retries, and every set of       *)
(* faults.                                                                 *)
(***************************************************************************)
EXTENDS ServingExport, TLAPS

SparkStages == {"none", "header", "keys", "days", "write", "count"} \union Ended

Files == [exists : BOOLEAN, written : BOOLEAN, rows : SUBSET Row]
JobRecords ==
    [at : JobStages, day : BusinessDays, try : 0..MaxRetries, cli : BOOLEAN,
     fd : {"none", "path", "gone"}, result : SUBSET Row, complete : BOOLEAN, own : BOOLEAN]
SparkRecords == [at : SparkStages, result : SUBSET Row, complete : BOOLEAN, own : BOOLEAN]
Publications == [rows : SUBSET Row, clean : BOOLEAN, complete : BOOLEAN]

(* The inductive invariant, job by job and Spark job by Spark job.         *)
(*                                                                         *)
(* A job that has not started has no Spark job: only a start changes the   *)
(* day of a job.                                                           *)
IdleInv ==
    \A j \in Jobs : job[j].at = "idle" =>
        job[j].try = 0 /\ \A n \in 0..MaxRetries : spark[<<j, n>>].at = "none"

(* Readiness that was found stays, and what a query saw of it is handed on.*)
JobReady(m) ==
    ~m.cli => /\ m.at \in {"remove", "query"} => missing_daily_asset_partitions(m.day) = {}
              /\ m.at \in {"open", "fill", "check"} => m.complete
SparkReady(x) == x.at \in {"header", "keys", "days", "write"} => x.complete

(* What is in the file of a job that has had it to itself since it removed *)
(* it, stage by stage, and then in that of the Spark job that reads it.    *)
JobFile(m, file) ==
    m.own => /\ m.at \in {"query", "open", "fill"} => file.rows = {}
             /\ m.at \in {"query", "open"} => ~file.written
             /\ m.at = "fill" => m.fd = "path"
             /\ m.at = "check" /\ file.written => file.rows = m.result
SparkFile(x, d, file) ==
    x.own => /\ x.at \in {"header", "keys", "days", "write"} => file.rows = x.result
             /\ x.at = "write" => \A r \in file.rows : r.day = d

JobsInv == \A j \in Jobs : JobReady(job[j]) /\ JobFile(job[j], csv[job[j].day])
SparksInv ==
    \A s \in Attempts : SparkReady(spark[s]) /\ SparkFile(spark[s], DayOf(s), csv[DayOf(s)])

ServingInv ==
    /\ TypeOK /\ IdleInv /\ JobsInv /\ SparksInv
    /\ PublishedIsOwnResult /\ CompleteDaysOnly

-----------------------------------------------------------------------------
(* TypeOK with names for its records.                                      *)
Typed ==
    /\ mart \in [BusinessDays -> [Regions \union {NoRegion} -> 0..MaxVersions]]
    /\ version \in 0..MaxVersions
    /\ ready \in [BusinessDays -> SUBSET Assets]
    /\ csv \in [BusinessDays -> Files]
    /\ job \in [Jobs -> JobRecords] /\ spark \in [Attempts -> SparkRecords]
    /\ table \subseteq Row /\ published \in [BusinessDays -> Publications]
    /\ \A s \in Attempts : s[2] > job[s[1]].try => spark[s].at = "none"

LEMMA TypeParts == TypeOK => Typed
BY DEF TypeOK, Typed, JobRecords, SparkRecords, Files, Publications, SparkStages

LEMMA TypeFromParts == Typed' => TypeOK'
BY DEF TypeOK, Typed, JobRecords, SparkRecords, Files, Publications, SparkStages

LEMMA NoJobParts ==
    /\ NoJob \in JobRecords /\ ~NoJob.own /\ NoJob.at = "idle" /\ NoJob.try = 0 /\ ~NoJob.cli
<1>1. 1 \in BusinessDays /\ 0 \in 0..MaxRetries  BY ServingAssumption DEF BusinessDays
<1>. QED  BY <1>1 DEF NoJob, JobRecords, JobStages

(* A job that leaves the exporter, or starts over, keeps its day.          *)
LEMMA LeftParts ==
    ASSUME TypeOK, NEW j \in Jobs, NEW at \in JobStages
    PROVE  /\ Left(j, at) \in JobRecords /\ Left(j, at).at = at /\ ~Left(j, at).own
           /\ Left(j, at).day = job[j].day /\ Left(j, at).try = job[j].try
           /\ Left(j, at).cli = job[j].cli
<1>. DEFINE d == job[j].day
            n == job[j].try
            b == job[j].cli
<1>1. d \in BusinessDays /\ n \in 0..MaxRetries /\ b \in BOOLEAN
  BY TypeParts DEF Typed, JobRecords
<1>2. Left(j, at) = [NoJob EXCEPT !.at = at, !.day = d, !.try = n, !.cli = b]  BY DEF Left
<1>. HIDE DEF d, n, b
<1>3. /\ Left(j, at) \in JobRecords /\ Left(j, at).at = at /\ ~Left(j, at).own
      /\ Left(j, at).day = d /\ Left(j, at).try = n /\ Left(j, at).cli = b
  BY <1>1, <1>2, NoJobParts DEF JobRecords
<1>. QED  BY <1>3 DEF d, n, b

LEMMA RetriedParts ==
    ASSUME TypeOK, NEW j \in Jobs
    PROVE  /\ Retried(j) \in JobRecords /\ Retried(j).at \in {"ready", "failed"}
           /\ ~Retried(j).own /\ Retried(j).day = job[j].day
           /\ Retried(j).try >= job[j].try
<1>1. job[j] \in JobRecords /\ job[j].try \in Nat /\ job[j].try >= 0
  BY TypeParts, ServingAssumption DEF Typed, JobRecords
<1>2. CASE ~job[j].cli /\ job[j].try < MaxRetries
  <2>. DEFINE d == job[j].day
              n == job[j].try + 1
  <2>1. Retried(j) = [NoJob EXCEPT !.at = "ready", !.day = d, !.try = n]
    BY <1>2 DEF Retried
  <2>2. n \in 0..MaxRetries /\ n >= job[j].try  BY <1>1, <1>2, ServingAssumption
  <2>3. d \in BusinessDays /\ "ready" \in JobStages  BY <1>1 DEF JobRecords, JobStages
  <2>. HIDE DEF d, n
  <2>4. /\ Retried(j) \in JobRecords /\ Retried(j).at = "ready" /\ ~Retried(j).own
        /\ Retried(j).day = d /\ Retried(j).try = n
    BY <2>1, <2>2, <2>3, NoJobParts DEF JobRecords
  <2>. QED  BY <2>2, <2>4 DEF d
<1>3. CASE ~(~job[j].cli /\ job[j].try < MaxRetries)
  <2>1. Retried(j) = Left(j, "failed")  BY <1>3 DEF Retried
  <2>2. "failed" \in JobStages  BY DEF JobStages
  <2>. QED  BY <1>1, <2>1, <2>2, LeftParts
<1>. QED  BY <1>2, <1>3

(* Touching the file takes the others' ownership and nothing else of them  *)
(* that the invariant speaks of.                                           *)
LEMMA TouchJobs ==
    ASSUME TypeOK, NEW j \in Jobs, NEW mine \in JobRecords, NEW unlinked \in BOOLEAN
    PROVE  /\ JobsAfterTouch(j, mine, unlinked) \in [Jobs -> JobRecords]
           /\ JobsAfterTouch(j, mine, unlinked)[j] = mine
           /\ \A k \in Jobs \ {j} :
                 LET m == JobsAfterTouch(j, mine, unlinked)[k] IN
                 /\ m.at = job[k].at /\ m.day = job[k].day /\ m.try = job[k].try
                 /\ m.cli = job[k].cli /\ m.complete = job[k].complete
                 /\ m.own => m = job[k] /\ m.day # job[j].day
<1>. DEFINE m(k) == JobsAfterTouch(j, mine, unlinked)[k]
            touched(k) == [job[k] EXCEPT !.own = FALSE,
                                         !.fd = IF unlinked /\ @ = "path" THEN "gone" ELSE @]
<1>1. ASSUME NEW k \in Jobs, k # j, job[k].day = job[j].day
      PROVE  /\ m(k) \in JobRecords /\ ~m(k).own
             /\ m(k).at = job[k].at /\ m(k).day = job[k].day /\ m(k).try = job[k].try
             /\ m(k).cli = job[k].cli /\ m(k).complete = job[k].complete
  <2>1. m(k) = touched(k)  BY <1>1 DEF JobsAfterTouch
  <2>2. job[k] \in JobRecords  BY TypeParts DEF Typed
  <2>3. PICK f \in {"none", "path", "gone"} :
             touched(k) = [job[k] EXCEPT !.own = FALSE, !.fd = f]
    BY <2>2 DEF JobRecords
  <2>. DEFINE old == job[k]
              new == m(k)
  <2>4. old \in JobRecords /\ new = [old EXCEPT !.own = FALSE, !.fd = f]
    BY <2>1, <2>2, <2>3
  <2>. HIDE DEF m, touched, old, new
  <2>5. /\ new \in JobRecords /\ ~new.own
        /\ new.at = old.at /\ new.day = old.day /\ new.try = old.try
        /\ new.cli = old.cli /\ new.complete = old.complete
    BY <2>4 DEF JobRecords
  <2>. QED  BY <2>5 DEF old, new
<1>2. ASSUME NEW k \in Jobs, k # j, job[k].day # job[j].day
      PROVE  m(k) = job[k] /\ m(k) \in JobRecords
  BY <1>2, TypeParts DEF Typed, JobsAfterTouch
<1>3. m(j) = mine  BY DEF JobsAfterTouch
<1>4. \A k \in Jobs : m(k) \in JobRecords
  <2>. HIDE DEF m
  <2>. QED  BY <1>1, <1>2, <1>3
<1>5. JobsAfterTouch(j, mine, unlinked) \in [Jobs -> JobRecords]
  <2>1. JobsAfterTouch(j, mine, unlinked) = [k \in Jobs |-> m(k)]  BY DEF JobsAfterTouch
  <2>. HIDE DEF m
  <2>. QED  BY <1>4, <2>1
<1>6. ASSUME NEW k \in Jobs \ {j}
      PROVE  /\ m(k).at = job[k].at /\ m(k).day = job[k].day /\ m(k).try = job[k].try
             /\ m(k).cli = job[k].cli /\ m(k).complete = job[k].complete
             /\ m(k).own => m(k) = job[k] /\ m(k).day # job[j].day
  <2>. HIDE DEF m
  <2>. QED  BY <1>1, <1>2
<1>. QED  BY <1>3, <1>5, <1>6

LEMMA TouchSparks ==
    ASSUME TypeOK, NEW j \in Jobs
    PROVE  /\ SparksAfterTouch(j) \in [Attempts -> SparkRecords]
           /\ \A s \in Attempts :
                 LET x == SparksAfterTouch(j)[s] IN
                 /\ x.at = spark[s].at /\ x.complete = spark[s].complete
                 /\ x.own => x = spark[s] /\ DayOf(s) # job[j].day
<1>. DEFINE x(s) == SparksAfterTouch(j)[s]
<1>1. ASSUME NEW s \in Attempts
      PROVE  /\ x(s) \in SparkRecords
             /\ x(s).at = spark[s].at /\ x(s).complete = spark[s].complete
             /\ x(s).own => x(s) = spark[s] /\ DayOf(s) # job[j].day
  <2>1. spark[s] \in SparkRecords  BY TypeParts DEF Typed
  <2>2. CASE DayOf(s) = job[j].day
    <3>1. x(s) = [spark[s] EXCEPT !.own = FALSE]  BY <2>2 DEF SparksAfterTouch
    <3>2. x(s) = [at |-> spark[s].at, result |-> spark[s].result,
                  complete |-> spark[s].complete, own |-> FALSE]
      BY <2>1, <3>1 DEF SparkRecords
    <3>. HIDE DEF x
    <3>. QED  BY <2>1, <3>2 DEF SparkRecords
  <2>3. CASE DayOf(s) # job[j].day
    <3>1. x(s) = spark[s]  BY <2>3 DEF SparksAfterTouch
    <3>. HIDE DEF x
    <3>. QED  BY <2>1, <2>3, <3>1
  <2>. QED  BY <2>2, <2>3
<1>2. SparksAfterTouch(j) = [s \in Attempts |-> x(s)]  BY DEF SparksAfterTouch
<1>. HIDE DEF x
<1>. QED  BY <1>1, <1>2

-----------------------------------------------------------------------------
(* Which steps of one job alone keep the invariant.                        *)
LEMMA JobMoves ==
    ASSUME ServingInv, NEW j \in Jobs, NEW mine \in JobRecords,
           job' = [job EXCEPT ![j] = mine],
           UNCHANGED <<mart, version, ready, csv, spark, table, published>>,
           mine.at # "idle", mine.try >= job[j].try,
           mine.day = job[j].day \/ job[j].at = "idle",
           JobReady(mine), JobFile(mine, csv[mine.day])
    PROVE  ServingInv'
<1>1. job \in [Jobs -> JobRecords]  BY TypeParts DEF ServingInv, Typed
<1>2. /\ job' \in [Jobs -> JobRecords] /\ job'[j] = mine
      /\ \A k \in Jobs : k # j => job'[k] = job[k]
  BY <1>1
<1>3. /\ mart' = mart /\ version' = version /\ ready' = ready /\ csv' = csv /\ spark' = spark
      /\ table' = table /\ published' = published
  OBVIOUS
<1>4. \A s \in Attempts : DayOf(s)' # DayOf(s) => spark[s].at = "none"
  <2>. SUFFICES ASSUME NEW k \in Jobs, NEW n \in 0..MaxRetries, job'[k].day # job[k].day
                PROVE  spark[<<k, n>>].at = "none"
    BY DEF Attempts, DayOf
  <2>1. k = j /\ job[j].at = "idle"  BY <1>2
  <2>. QED  BY <2>1 DEF ServingInv, IdleInv
<1>5. TypeOK'
  <2>1. \A s \in Attempts : s[2] > job'[s[1]].try => s[2] > job[s[1]].try
    <3>. SUFFICES ASSUME NEW k \in Jobs, NEW n \in 0..MaxRetries, n > job'[k].try
                  PROVE  n > job[k].try
      BY DEF Attempts
    <3>1. job[k].try \in Nat /\ job'[k].try \in Nat  BY <1>1, <1>2 DEF JobRecords
    <3>2. job'[k].try >= job[k].try  BY <1>2, <3>1
    <3>3. n \in Nat  BY ServingAssumption
    <3>. QED  BY <3>1, <3>2, <3>3
  <2>2. Typed'  BY <1>2, <1>3, <2>1, TypeParts DEF ServingInv, Typed
  <2>. QED  BY <2>2, TypeFromParts
<1>6. IdleInv'  BY <1>2, <1>3 DEF ServingInv, IdleInv
<1>7. JobsInv'
  <2>1. \A k \in Jobs : k # j => JobReady(job[k]) /\ JobFile(job[k], csv[job[k].day])
    BY DEF ServingInv, JobsInv
  <2>. QED
    BY <1>2, <1>3, <2>1 DEF JobsInv, JobReady, missing_daily_asset_partitions
<1>8. SparksInv'
  <2>. SUFFICES ASSUME NEW s \in Attempts
                PROVE  SparkReady(spark[s]) /\ SparkFile(spark[s], DayOf(s)', csv[DayOf(s)'])
    BY <1>3 DEF SparksInv
  <2>1. SparkReady(spark[s]) /\ SparkFile(spark[s], DayOf(s), csv[DayOf(s)])
    BY DEF ServingInv, SparksInv
  <2>2. spark[s].at = "none" => SparkFile(spark[s], DayOf(s)', csv[DayOf(s)'])
    BY DEF SparkFile
  <2>3. DayOf(s)' = DayOf(s) => SparkFile(spark[s], DayOf(s)', csv[DayOf(s)'])
    BY <2>1
  <2>. QED  BY <1>4, <2>1, <2>2, <2>3
<1>9. PublishedIsOwnResult' /\ CompleteDaysOnly'
  BY <1>3 DEF ServingInv, PublishedIsOwnResult, CompleteDaysOnly
<1>. QED  BY <1>5, <1>6, <1>7, <1>8, <1>9 DEF ServingInv

(* ... and which of those that touch the file of the day.                  *)
LEMMA TouchMoves ==
    ASSUME ServingInv, NEW j \in Jobs, NEW mine \in JobRecords, NEW unlinked \in BOOLEAN,
           NEW file \in Files,
           csv' = [csv EXCEPT ![job[j].day] = file],
           job' = JobsAfterTouch(j, mine, unlinked),
           spark' = SparksAfterTouch(j),
           UNCHANGED <<mart, version, ready, table, published>>,
           mine.at # "idle", mine.try = job[j].try, mine.day = job[j].day,
           JobReady(mine), JobFile(mine, file)
    PROVE  ServingInv'
<1>1. job \in [Jobs -> JobRecords] /\ csv \in [BusinessDays -> Files]
  BY TypeParts DEF ServingInv, Typed
<1>2. /\ job' \in [Jobs -> JobRecords] /\ job'[j] = mine
      /\ \A k \in Jobs \ {j} :
            /\ job'[k].at = job[k].at /\ job'[k].day = job[k].day /\ job'[k].try = job[k].try
            /\ job'[k].cli = job[k].cli /\ job'[k].complete = job[k].complete
            /\ job'[k].own => job'[k] = job[k] /\ job'[k].day # job[j].day
  BY TouchJobs DEF ServingInv
<1>3. /\ spark' \in [Attempts -> SparkRecords]
      /\ \A s \in Attempts :
            /\ spark'[s].at = spark[s].at /\ spark'[s].complete = spark[s].complete
            /\ spark'[s].own => spark'[s] = spark[s] /\ DayOf(s) # job[j].day
  BY TouchSparks DEF ServingInv
<1>4. /\ mart' = mart /\ version' = version /\ ready' = ready
      /\ table' = table /\ published' = published
  OBVIOUS
<1>5. job[j].day \in BusinessDays  BY <1>1 DEF JobRecords
<1>6. /\ csv' \in [BusinessDays -> Files] /\ csv'[job[j].day] = file
      /\ \A d \in BusinessDays : d # job[j].day => csv'[d] = csv[d]
  BY <1>1, <1>5
<1>7. \A k \in Jobs : /\ job'[k].day = job[k].day /\ job'[k].try = job[k].try
                      /\ job[k].day \in BusinessDays
  BY <1>1, <1>2 DEF JobRecords
<1>8. \A s \in Attempts : DayOf(s)' = DayOf(s) /\ DayOf(s) \in BusinessDays
  BY <1>7 DEF Attempts, DayOf
<1>9. TypeOK'
  <2>1. \A s \in Attempts : s[2] > job'[s[1]].try => spark'[s].at = "none"
    BY <1>3, <1>7 DEF ServingInv, TypeOK, Attempts
  <2>2. Typed'  BY <1>2, <1>3, <1>4, <1>6, <2>1, TypeParts DEF ServingInv, Typed
  <2>. QED  BY <2>2, TypeFromParts
<1>10. IdleInv'
  <2>. SUFFICES ASSUME NEW k \in Jobs, job'[k].at = "idle"
                PROVE  job'[k].try = 0 /\ \A n \in 0..MaxRetries : spark'[<<k, n>>].at = "none"
    BY DEF IdleInv
  <2>1. k # j /\ job[k].at = "idle"  BY <1>2
  <2>2. \A n \in 0..MaxRetries : <<k, n>> \in Attempts  BY DEF Attempts
  <2>. QED  BY <1>3, <1>7, <2>1, <2>2 DEF ServingInv, IdleInv
<1>11. JobsInv'
  <2>. SUFFICES ASSUME NEW k \in Jobs
                PROVE  JobReady(job[k])' /\ JobFile(job[k], csv[job[k].day])'
    BY DEF JobsInv
  <2>1. JobReady(job[k]) /\ JobFile(job[k], csv[job[k].day])  BY DEF ServingInv, JobsInv
  <2>2. JobReady(job[k])'
    BY <1>2, <1>4, <2>1 DEF JobReady, missing_daily_asset_partitions
  <2>3. CASE k = j  BY <1>2, <1>6, <2>2, <2>3 DEF JobFile
  <2>4. CASE k # j
    <3>1. job'[k].own => job'[k] = job[k] /\ csv'[job'[k].day] = csv[job[k].day]
      BY <1>2, <1>6, <1>7, <2>4
    <3>. QED  BY <2>1, <2>2, <3>1 DEF JobFile
  <2>. QED  BY <2>3, <2>4
<1>12. SparksInv'
  <2>. SUFFICES ASSUME NEW s \in Attempts
                PROVE  SparkReady(spark'[s]) /\ SparkFile(spark'[s], DayOf(s)', csv'[DayOf(s)'])
    BY DEF SparksInv
  <2>1. SparkReady(spark[s]) /\ SparkFile(spark[s], DayOf(s), csv[DayOf(s)])
    BY DEF ServingInv, SparksInv
  <2>2. SparkReady(spark'[s])  BY <1>3, <2>1 DEF SparkReady
  <2>3. spark'[s].own => spark'[s] = spark[s] /\ csv'[DayOf(s)] = csv[DayOf(s)]
    BY <1>3, <1>6, <1>8
  <2>4. SparkFile(spark'[s], DayOf(s), csv'[DayOf(s)])  BY <2>1, <2>3 DEF SparkFile
  <2>. QED  BY <1>8, <2>2, <2>4
<1>13. PublishedIsOwnResult' /\ CompleteDaysOnly'
  BY <1>4 DEF ServingInv, PublishedIsOwnResult, CompleteDaysOnly
<1>. QED  BY <1>9, <1>10, <1>11, <1>12, <1>13 DEF ServingInv

(* ... and which steps of one Spark job, whatever it does to the table.    *)
LEMMA SparkMoves ==
    ASSUME ServingInv, NEW s \in Attempts, NEW x \in SparkRecords,
           spark' = [spark EXCEPT ![s] = x], spark[s].at # "none",
           UNCHANGED <<mart, version, ready, csv, job>>,
           SparkReady(x), SparkFile(x, DayOf(s), csv[DayOf(s)]),
           table' \subseteq Row, published' \in [BusinessDays -> Publications],
           PublishedIsOwnResult', CompleteDaysOnly'
    PROVE  ServingInv'
<1>1. spark \in [Attempts -> SparkRecords]  BY TypeParts DEF ServingInv, Typed
<1>2. /\ spark' \in [Attempts -> SparkRecords] /\ spark'[s] = x
      /\ \A t \in Attempts : t # s => spark'[t] = spark[t]
  BY <1>1
<1>3. /\ mart' = mart /\ version' = version /\ ready' = ready /\ csv' = csv /\ job' = job
  OBVIOUS
<1>4. TypeOK'
  <2>1. \A t \in Attempts : t[2] > job[t[1]].try => spark'[t].at = "none"
    BY <1>2 DEF ServingInv, TypeOK
  <2>2. Typed'  BY <1>2, <1>3, <2>1, TypeParts DEF ServingInv, Typed
  <2>. QED  BY <2>2, TypeFromParts
<1>5. IdleInv'
  <2>. SUFFICES ASSUME NEW k \in Jobs, job[k].at = "idle"
                PROVE  job[k].try = 0 /\ \A n \in 0..MaxRetries : spark'[<<k, n>>].at = "none"
    BY <1>3 DEF IdleInv
  <2>1. job[k].try = 0 /\ \A n \in 0..MaxRetries : spark[<<k, n>>].at = "none"
    BY DEF ServingInv, IdleInv
  <2>2. \A n \in 0..MaxRetries : <<k, n>> \in Attempts  BY DEF Attempts
  <2>. QED  BY <1>2, <2>1, <2>2
<1>6. JobsInv'
  BY <1>3 DEF ServingInv, JobsInv, JobReady, missing_daily_asset_partitions
<1>7. SparksInv'
  <2>1. \A t \in Attempts : DayOf(t)' = DayOf(t)  BY <1>3 DEF DayOf
  <2>. QED  BY <1>2, <1>3, <2>1 DEF ServingInv, SparksInv
<1>. QED  BY <1>4, <1>5, <1>6, <1>7 DEF ServingInv

-----------------------------------------------------------------------------
(* What a Spark job remembers when it moves on.                            *)
LEMMA MovedParts ==
    ASSUME TypeOK, NEW s \in Attempts, NEW at \in SparkStages
    PROVE  /\ Moved(s, at) \in SparkRecords /\ Moved(s, at).at = at
           /\ Moved(s, at).own = spark[s].own
           /\ at \in {"header", "keys", "days", "write"} =>
                 Moved(s, at).result = spark[s].result /\ Moved(s, at).complete = spark[s].complete
<1>. DEFINE old == spark[s]
            keep == at \notin Ended \union {"count"}
            result == IF keep THEN old.result ELSE {}
            complete == old.complete /\ keep
<1>1. old \in SparkRecords  BY TypeParts DEF Typed
<1>2. result \in SUBSET Row /\ complete \in BOOLEAN  BY <1>1 DEF SparkRecords
<1>3. at \in {"header", "keys", "days", "write"} => result = old.result /\ complete = old.complete
  <2>1. old.complete \in BOOLEAN  BY <1>1 DEF SparkRecords
  <2>2. at \in {"header", "keys", "days", "write"} => keep  BY DEF Ended
  <2>. QED  BY <2>1, <2>2
<1>4. Moved(s, at) = [old EXCEPT !.at = at, !.result = result, !.complete = complete]
  BY DEF Moved
<1>. HIDE DEF old, result, complete
<1>5. /\ Moved(s, at) \in SparkRecords /\ Moved(s, at).at = at /\ Moved(s, at).own = old.own
      /\ Moved(s, at).result = result /\ Moved(s, at).complete = complete
  BY <1>1, <1>2, <1>4 DEF SparkRecords
<1>. QED  BY <1>3, <1>5 DEF old

LEMMA ReadsMoves ==
    ASSUME ServingInv, NEW s \in Attempts, NEW at \in SparkStages \ {"none"}, NEW ok \in BOOLEAN,
           NEW next \in SparkStages, NEW refused \in Ended,
           Reads(s, at, ok, next, refused),
           next \in {"header", "keys", "days", "write"} => at \in {"header", "keys", "days"},
           ok /\ next = "write" => \A r \in csv[DayOf(s)].rows : r.day = DayOf(s)
    PROVE  ServingInv'
<1>. DEFINE to == IF ~csv[DayOf(s)].exists \/ (at = "header" /\ ~csv[DayOf(s)].written)
                  THEN "error" ELSE IF ok THEN next ELSE refused
            x == Moved(s, to)
<1>1. /\ spark[s].at = at /\ spark' = [spark EXCEPT ![s] = x]
      /\ mart' = mart /\ version' = version /\ ready' = ready /\ csv' = csv /\ job' = job
      /\ table' = table /\ published' = published
  BY DEF Reads
<1>2. to \in SparkStages  BY DEF SparkStages, Ended
<1>3. to \in {"header", "keys", "days", "write"} =>
          to = next /\ ok /\ at \in {"header", "keys", "days"}
  BY DEF Ended
<1>. HIDE DEF to
<1>4. /\ x \in SparkRecords /\ x.at = to /\ x.own = spark[s].own
      /\ to \in {"header", "keys", "days", "write"} =>
            x.result = spark[s].result /\ x.complete = spark[s].complete
  BY <1>2, MovedParts DEF ServingInv
<1>. HIDE DEF x
<1>5. SparkReady(spark[s]) /\ SparkFile(spark[s], DayOf(s), csv[DayOf(s)])
  BY DEF ServingInv, SparksInv
<1>6. SparkReady(x)  BY <1>1, <1>3, <1>4, <1>5 DEF SparkReady
<1>7. SparkFile(x, DayOf(s), csv[DayOf(s)])
  <2>1. to = "write" => \A r \in csv[DayOf(s)].rows : r.day = DayOf(s)
    BY <1>3
  <2>. QED  BY <1>1, <1>3, <1>4, <1>5, <2>1 DEF SparkFile
<1>8. table' \subseteq Row /\ published' \in [BusinessDays -> Publications]
  BY <1>1, TypeParts DEF ServingInv, Typed
<1>9. PublishedIsOwnResult' /\ CompleteDaysOnly'
  BY <1>1 DEF ServingInv, PublishedIsOwnResult, CompleteDaysOnly
<1>. QED  BY <1>1, <1>4, <1>6, <1>7, <1>8, <1>9, SparkMoves

(* The overwrite: the rows of the file replace those of its day.           *)
LEMMA OverwriteStep ==
    ASSUME ServingInv, NEW s \in Attempts, Overwrite(s)
    PROVE  ServingInv'
<1>. DEFINE d == DayOf(s)
            rows == csv[d].rows
            x == Moved(s, "count")
<1>1. /\ spark[s].at = "write" /\ spark' = [spark EXCEPT ![s] = x]
      /\ mart' = mart /\ version' = version /\ ready' = ready /\ csv' = csv /\ job' = job
      /\ table' = {r \in table : r.day # d} \union rows
      /\ published' = [e \in BusinessDays |->
            IF e = d THEN [rows |-> spark[s].result, clean |-> spark[s].own,
                           complete |-> spark[s].complete]
            ELSE [published[e] EXCEPT !.clean = @ /\ \A r \in rows : r.day # e]]
  BY DEF Overwrite
<1>2. /\ spark[s] \in SparkRecords /\ d \in BusinessDays /\ rows \subseteq Row
      /\ table \subseteq Row /\ published \in [BusinessDays -> Publications]
  <2>1. job[s[1]] \in JobRecords /\ spark[s] \in SparkRecords
    BY TypeParts DEF ServingInv, Typed, Attempts
  <2>2. d \in BusinessDays  BY <2>1 DEF JobRecords, DayOf
  <2>3. csv[d] \in Files  BY <2>2, TypeParts DEF ServingInv, Typed
  <2>. QED  BY <2>1, <2>2, <2>3, TypeParts DEF ServingInv, Typed, Files
<1>3. "count" \in SparkStages  BY DEF SparkStages
<1>4. x \in SparkRecords /\ x.at = "count" /\ x.own = spark[s].own
  BY <1>3, MovedParts DEF ServingInv
<1>5. SparkReady(spark[s]) /\ SparkFile(spark[s], d, csv[d])
  BY DEF ServingInv, SparksInv
<1>. HIDE DEF d, rows, x
<1>6. ASSUME NEW e \in BusinessDays, e # d
      PROVE  /\ published'[e] \in Publications
             /\ published'[e].rows = published[e].rows
             /\ published'[e].complete = published[e].complete
             /\ published'[e].clean => published[e].clean /\ \A r \in rows : r.day # e
  <2>. DEFINE clean == published[e].clean /\ \A r \in rows : r.day # e
              old == published[e]
  <2>1. old \in Publications /\ clean \in BOOLEAN  BY <1>2, <1>6 DEF Publications
  <2>2. published'[e] = [old EXCEPT !.clean = clean]  BY <1>1, <1>6
  <2>3. clean => old.clean /\ \A r \in rows : r.day # e  OBVIOUS
  <2>. HIDE DEF clean, old
  <2>4. /\ published'[e] \in Publications /\ published'[e].rows = old.rows
        /\ published'[e].complete = old.complete /\ published'[e].clean = clean
    BY <2>1, <2>2 DEF Publications
  <2>. QED  BY <2>3, <2>4 DEF old
<1>7. /\ published'[d] \in Publications /\ published'[d].rows = spark[s].result
      /\ published'[d].complete = spark[s].complete /\ published'[d].clean = spark[s].own
  BY <1>1, <1>2 DEF Publications, SparkRecords
<1>8. published' \in [BusinessDays -> Publications]
  <2>1. \A e \in BusinessDays : published'[e] \in Publications  BY <1>6, <1>7
  <2>. QED  BY <1>1, <2>1
<1>9. table' \subseteq Row  BY <1>1, <1>2
<1>10. CompleteDaysOnly'
  <2>1. spark[s].complete  BY <1>1, <1>5 DEF SparkReady
  <2>. QED  BY <1>6, <1>7, <2>1 DEF ServingInv, CompleteDaysOnly
<1>11. PublishedIsOwnResult'
  <2>. SUFFICES ASSUME NEW e \in BusinessDays, published'[e].clean
                PROVE  {r \in table' : r.day = e} = published'[e].rows
    BY DEF PublishedIsOwnResult
  <2>1. CASE e = d
    <3>1. rows = spark[s].result /\ \A r \in rows : r.day = d
      BY <1>1, <1>5, <1>7, <2>1 DEF SparkFile, rows
    <3>. QED  BY <1>1, <1>7, <2>1, <3>1
  <2>2. CASE e # d
    <3>1. {r \in table : r.day = e} = published[e].rows /\ \A r \in rows : r.day # e
      BY <1>6, <2>2 DEF ServingInv, PublishedIsOwnResult
    <3>2. {r \in table' : r.day = e} = {r \in table : r.day = e}  BY <1>1, <2>2, <3>1
    <3>. QED  BY <1>6, <2>2, <3>1, <3>2
  <2>. QED  BY <2>1, <2>2
<1>12. SparkReady(x) /\ SparkFile(x, DayOf(s), csv[DayOf(s)])
  BY <1>4 DEF SparkReady, SparkFile
<1>. QED  BY <1>1, <1>4, <1>8, <1>9, <1>10, <1>11, <1>12, SparkMoves

-----------------------------------------------------------------------------
(* The steps of a job that leave the file alone.                           *)
LEMMA QuietJobStep ==
    ASSUME ServingInv, NEW j \in Jobs,
           \/ CheckReadiness(j) \/ ExportDeferred(j) \/ Query(j) \/ MetricFlowFails(j)
           \/ NoCsvWritten(j) \/ CsvIsInvalid(j) \/ SparkReturns(j) \/ ClientTimeout(j)
    PROVE  ServingInv'
<1>. DEFINE m == job[j]
            d == m.day
<1>1. /\ m \in JobRecords /\ job \in [Jobs -> JobRecords]
      /\ \A n \in 0..MaxRetries : n >= n
  BY TypeParts, ServingAssumption DEF ServingInv, Typed
<1>2. JobReady(m) /\ JobFile(m, csv[d])  BY DEF ServingInv, JobsInv
<1>3. ASSUME NEW mine \in JobRecords, job' = [job EXCEPT ![j] = mine],
             mine.at # "idle", mine.day = m.day, mine.try >= m.try,
             JobReady(mine), JobFile(mine, csv[mine.day]),
             UNCHANGED <<mart, version, ready, csv, spark, table, published>>
      PROVE  ServingInv'
  BY <1>3, JobMoves
(* A job that leaves or starts over has no file any more.                  *)
<1>4. ASSUME NEW mine \in JobRecords, job' = [job EXCEPT ![j] = mine],
             mine.at \in {"ready", "done", "failed"}, mine.day = m.day, mine.try >= m.try, ~mine.own,
             UNCHANGED <<mart, version, ready, csv, spark, table, published>>
      PROVE  ServingInv'
  <2>1. JobReady(mine) /\ JobFile(mine, csv[mine.day])
    BY <1>4 DEF JobReady, JobFile
  <2>. QED  BY <1>3, <1>4, <2>1
<1>5. m.try >= m.try  BY <1>1 DEF JobRecords
<1>6. ASSUME NEW a \in {"failed", "done"}, job' = [job EXCEPT ![j] = Left(j, a)],
             UNCHANGED <<mart, version, ready, csv, spark, table, published>>
      PROVE  ServingInv'
  <2>1. a \in JobStages  BY DEF JobStages
  <2>2. PICK mine : mine = Left(j, a)  OBVIOUS
  <2>3. /\ mine \in JobRecords /\ mine.at = a /\ ~mine.own /\ mine.day = m.day
        /\ mine.try = m.try
    BY <2>1, <2>2, LeftParts DEF ServingInv
  <2>. QED  BY <1>4, <1>5, <1>6, <2>2, <2>3
<1>7. ASSUME job' = [job EXCEPT ![j] = Retried(j)],
             UNCHANGED <<mart, version, ready, csv, spark, table, published>>
      PROVE  ServingInv'
  <2>1. PICK mine : mine = Retried(j)  OBVIOUS
  <2>2. /\ mine \in JobRecords /\ mine.at \in {"ready", "failed"} /\ ~mine.own
        /\ mine.day = m.day /\ mine.try >= m.try
    BY <2>1, RetriedParts DEF ServingInv
  <2>. QED  BY <1>4, <1>7, <2>1, <2>2
<1>8. CASE CheckReadiness(j)
  <2>. DEFINE a == IF missing_daily_asset_partitions(d) = {} THEN "remove" ELSE "failed"
  <2>1. PICK mine : mine = [m EXCEPT !.at = a]  OBVIOUS
  <2>2. job' = [job EXCEPT ![j] = mine]  BY <1>1, <1>8, <2>1 DEF CheckReadiness
  <2>3. /\ a \in JobStages /\ a \in {"remove", "failed"}
        /\ a = "remove" => missing_daily_asset_partitions(d) = {}
    BY DEF JobStages
  <2>. HIDE DEF a, m
  <2>4. mine \in JobRecords /\ mine.at = a /\ mine.day = m.day /\ mine.try = m.try
    BY <1>1, <2>1, <2>3 DEF JobRecords
  <2>5. JobReady(mine) /\ JobFile(mine, csv[mine.day])
    BY <2>3, <2>4 DEF JobReady, JobFile
  <2>6. UNCHANGED <<mart, version, ready, csv, spark, table, published>>
    BY <1>8 DEF CheckReadiness
  <2>. QED  BY <1>3, <1>5, <2>2, <2>3, <2>4, <2>5, <2>6
<1>9. CASE Query(j)
  <2>. DEFINE rows == MetricFlowResult(d)
              all == missing_daily_asset_partitions(d) = {}
  <2>1. PICK mine : mine = [m EXCEPT !.at = "open", !.result = rows, !.complete = all]  OBVIOUS
  <2>2. job' = [job EXCEPT ![j] = mine] /\ m.at = "query"  BY <1>1, <1>9, <2>1 DEF Query
  <2>3. rows \in SUBSET Row /\ all \in BOOLEAN /\ "open" \in JobStages
    BY DEF MetricFlowResult, JobStages
  <2>4. ~m.cli => all  BY <1>2, <2>2 DEF JobReady
  <2>. HIDE DEF rows, all, m
  <2>5. /\ mine \in JobRecords /\ mine.at = "open" /\ mine.day = m.day /\ mine.try = m.try
        /\ mine.cli = m.cli /\ mine.complete = all /\ mine.own = m.own
    BY <1>1, <2>1, <2>3 DEF JobRecords
  <2>6. JobReady(mine) /\ JobFile(mine, csv[mine.day])
    BY <1>2, <2>2, <2>4, <2>5 DEF JobReady, JobFile
  <2>7. UNCHANGED <<mart, version, ready, csv, spark, table, published>>
    BY <1>9 DEF Query
  <2>. QED  BY <1>3, <1>5, <2>2, <2>5, <2>6, <2>7
<1>10. CASE NoCsvWritten(j)
  <2>1. PICK mine : mine = [m EXCEPT !.at = "check"]  OBVIOUS
  <2>2. job' = [job EXCEPT ![j] = mine] /\ m.at = "open"
    BY <1>1, <1>10, <2>1 DEF NoCsvWritten
  <2>3. "check" \in JobStages  BY DEF JobStages
  <2>. HIDE DEF m
  <2>4. /\ mine \in JobRecords /\ mine.at = "check" /\ mine.day = m.day /\ mine.try = m.try
        /\ mine.cli = m.cli /\ mine.complete = m.complete /\ mine.own = m.own
    BY <1>1, <2>1, <2>3 DEF JobRecords
  <2>5. JobReady(mine) /\ JobFile(mine, csv[mine.day])
    BY <1>2, <2>2, <2>4 DEF JobReady, JobFile
  <2>6. UNCHANGED <<mart, version, ready, csv, spark, table, published>>
    BY <1>10 DEF NoCsvWritten
  <2>. QED  BY <1>3, <1>5, <2>2, <2>4, <2>5, <2>6
<1>11. CASE ExportDeferred(j) \/ MetricFlowFails(j) \/ CsvIsInvalid(j)
  BY <1>6, <1>11 DEF ExportDeferred, MetricFlowFails, CsvIsInvalid
<1>12. CASE SparkReturns(j)
  <2>1. CASE spark[<<j, job[j].try>>].at = "down"  BY <1>7, <1>12, <2>1 DEF SparkReturns
  <2>2. CASE spark[<<j, job[j].try>>].at # "down"  BY <1>6, <1>12, <2>2 DEF SparkReturns
  <2>. QED  BY <2>1, <2>2
<1>13. CASE ClientTimeout(j)  BY <1>7, <1>13 DEF ClientTimeout
<1>. QED  BY <1>8, <1>9, <1>10, <1>11, <1>12, <1>13

(* A job starts: it has done nothing before.                               *)
LEMMA StartStep ==
    ASSUME ServingInv, NEW j \in Jobs, NEW d \in BusinessDays, NEW cli \in BOOLEAN,
           StartExport(j, d, cli)
    PROVE  ServingInv'
<1>. DEFINE a == IF cli THEN "remove" ELSE "ready"
<1>1. PICK mine : mine = [NoJob EXCEPT !.at = a, !.day = d, !.cli = cli]  OBVIOUS
<1>2. job' = [job EXCEPT ![j] = mine] /\ job[j].at = "idle"  BY <1>1 DEF StartExport
<1>3. a \in JobStages /\ a \in {"remove", "ready"} /\ (a = "remove" => cli)
  BY DEF JobStages
<1>. HIDE DEF a
<1>4. mine \in JobRecords /\ mine.at = a /\ mine.cli = cli /\ mine.try = 0 /\ ~mine.own
  BY <1>1, <1>3, NoJobParts DEF JobRecords
<1>5. job[j].try = 0  BY <1>2 DEF ServingInv, IdleInv
<1>6. JobReady(mine) /\ JobFile(mine, csv[mine.day])
  BY <1>3, <1>4 DEF JobReady, JobFile
<1>7. UNCHANGED <<mart, version, ready, csv, spark, table, published>>
  BY DEF StartExport
<1>8. mine.try >= job[j].try /\ mine.at # "idle"  BY <1>3, <1>4, <1>5
<1>. QED  BY <1>2, <1>4, <1>6, <1>7, <1>8, JobMoves

(* The steps of a job that remove, open or fill the file.                  *)
LEMMA FileStep ==
    ASSUME ServingInv, NEW j \in Jobs, RemoveCsv(j) \/ OpenCsv(j) \/ FillCsv(j)
    PROVE  ServingInv'
<1>. DEFINE m == job[j]
            d == m.day
<1>1. /\ m \in JobRecords /\ d \in BusinessDays /\ job \in [Jobs -> JobRecords]
      /\ csv[d] \in Files /\ csv \in [BusinessDays -> Files]
  BY TypeParts DEF ServingInv, Typed, JobRecords
<1>2. JobReady(m) /\ JobFile(m, csv[d])  BY DEF ServingInv, JobsInv
<1>3. {"query", "fill", "check"} \subseteq JobStages  BY DEF JobStages
<1>4. CASE RemoveCsv(j)
  <2>1. PICK mine : mine = [m EXCEPT !.at = "query", !.own = TRUE, !.fd = "none"]  OBVIOUS
  <2>2. /\ m.at = "remove" /\ csv' = [csv EXCEPT ![d] = NoFile]
        /\ job' = JobsAfterTouch(j, mine, TRUE) /\ spark' = SparksAfterTouch(j)
        /\ UNCHANGED <<mart, version, ready, table, published>>
    BY <1>4, <2>1 DEF RemoveCsv
  <2>3. NoFile \in Files /\ NoFile.rows = {} /\ ~NoFile.written  BY DEF NoFile, Files
  <2>. HIDE DEF m
  <2>4. /\ mine \in JobRecords /\ mine.at = "query" /\ mine.day = m.day /\ mine.try = m.try
        /\ mine.cli = m.cli
    BY <1>1, <1>3, <2>1 DEF JobRecords
  <2>5. JobReady(mine) /\ JobFile(mine, NoFile)
    BY <1>2, <2>2, <2>3, <2>4 DEF JobReady, JobFile
  <2>. QED  BY <2>2, <2>3, <2>4, <2>5, TouchMoves DEF m
<1>5. CASE OpenCsv(j)
  <2>1. PICK mine : mine = [m EXCEPT !.at = "fill", !.fd = "path"]  OBVIOUS
  <2>2. PICK file : file = [NoFile EXCEPT !.exists = TRUE]  OBVIOUS
  <2>3. /\ m.at = "open" /\ csv' = [csv EXCEPT ![d] = file]
        /\ job' = JobsAfterTouch(j, mine, FALSE) /\ spark' = SparksAfterTouch(j)
        /\ UNCHANGED <<mart, version, ready, table, published>>
    BY <1>5, <2>1, <2>2 DEF OpenCsv
  <2>4. file \in Files /\ file.rows = {}  BY <2>2 DEF NoFile, Files
  <2>. HIDE DEF m
  <2>5. /\ mine \in JobRecords /\ mine.at = "fill" /\ mine.day = m.day /\ mine.try = m.try
        /\ mine.cli = m.cli /\ mine.complete = m.complete /\ mine.fd = "path"
    BY <1>1, <1>3, <2>1 DEF JobRecords
  <2>6. JobReady(mine) /\ JobFile(mine, file)
    BY <1>2, <2>3, <2>4, <2>5 DEF JobReady, JobFile
  <2>. QED  BY <2>3, <2>4, <2>5, <2>6, TouchMoves DEF m
<1>6. CASE FillCsv(j)
  <2>1. PICK mine : mine = [m EXCEPT !.at = "check"]  OBVIOUS
  <2>2. m.at = "fill" /\ UNCHANGED <<mart, version, ready, table, published>>
    BY <1>6 DEF FillCsv
  <2>3. /\ mine \in JobRecords /\ mine.at = "check" /\ mine.day = m.day /\ mine.try = m.try
        /\ mine.cli = m.cli /\ mine.complete = m.complete /\ mine.own = m.own
        /\ mine.result = m.result
    <3>. HIDE DEF m
    <3>. QED  BY <1>1, <1>3, <2>1 DEF JobRecords
  <2>4. JobReady(mine)  BY <1>2, <2>2, <2>3 DEF JobReady
  <2>5. CASE m.fd = "gone"
    <3>1. /\ job' = [job EXCEPT ![j] = mine]
          /\ UNCHANGED <<mart, version, ready, csv, spark, table, published>>
      BY <1>6, <2>1, <2>2, <2>5 DEF FillCsv
    <3>2. JobFile(mine, csv[mine.day])  BY <1>2, <2>2, <2>3, <2>5 DEF JobFile
    <3>3. mine.try >= job[j].try  BY <1>1, <2>3 DEF JobRecords
    <3>. QED  BY <2>3, <2>4, <3>1, <3>2, <3>3, JobMoves
  <2>6. CASE m.fd # "gone"
    <3>1. PICK tail \in {{}, csv[d].rows} :
              /\ csv' = [csv EXCEPT ![d] = [exists |-> TRUE, written |-> TRUE,
                                            rows |-> m.result \union tail]]
              /\ job' = JobsAfterTouch(j, mine, FALSE) /\ spark' = SparksAfterTouch(j)
      BY <1>6, <2>1, <2>6 DEF FillCsv
    <3>2. PICK file : file = [exists |-> TRUE, written |-> TRUE, rows |-> m.result \union tail]
      OBVIOUS
    <3>3. file \in Files  BY <1>1, <3>1, <3>2 DEF Files, JobRecords
    <3>4. JobFile(mine, file)
      <4>1. m.own => tail = {}  BY <1>2, <2>2, <3>1 DEF JobFile
      <4>2. file.rows = m.result \union tail  BY <3>2
      <4>. QED  BY <2>3, <4>1, <4>2 DEF JobFile
    <3>5. csv' = [csv EXCEPT ![job[j].day] = file]  BY <3>1, <3>2
    <3>. QED  BY <2>2, <2>3, <2>4, <3>1, <3>3, <3>4, <3>5, TouchMoves
  <2>. QED  BY <2>5, <2>6
<1>. QED  BY <1>4, <1>5, <1>6

(* The file is complete: the job hands it over to a Spark job.             *)
LEMMA SubmitStep ==
    ASSUME ServingInv, NEW j \in Jobs, CsvIsComplete(j)
    PROVE  ServingInv'
<1>. DEFINE m == job[j]
            t == <<j, m.try>>
<1>1. /\ m \in JobRecords /\ job \in [Jobs -> JobRecords] /\ spark \in [Attempts -> SparkRecords]
      /\ m.try \in 0..MaxRetries /\ t \in Attempts
  BY TypeParts DEF ServingInv, Typed, JobRecords, Attempts
<1>2. JobReady(m) /\ JobFile(m, csv[m.day])  BY DEF ServingInv, JobsInv
<1>3. PICK mine : mine = Left(j, "spark")  OBVIOUS
<1>4. PICK x : x = [at |-> "header", result |-> m.result,
                    complete |-> m.complete \/ m.cli, own |-> m.own]
  OBVIOUS
<1>5. /\ m.at = "check" /\ csv[m.day].written
      /\ job' = [job EXCEPT ![j] = mine] /\ spark' = [spark EXCEPT ![t] = x]
      /\ mart' = mart /\ version' = version /\ ready' = ready /\ csv' = csv
      /\ table' = table /\ published' = published
  BY <1>3, <1>4 DEF CsvIsComplete
<1>6. mine \in JobRecords /\ mine.at = "spark" /\ mine.day = m.day /\ mine.try = m.try /\ ~mine.own
  <2>1. "spark" \in JobStages  BY DEF JobStages
  <2>. QED  BY <1>3, <2>1, LeftParts DEF ServingInv
<1>7. /\ x \in SparkRecords /\ x.at = "header" /\ x.own = m.own /\ x.result = m.result
      /\ x.complete = (m.complete \/ m.cli)
  <2>. DEFINE c == m.complete \/ m.cli
  <2>1. c \in BOOLEAN  OBVIOUS
  <2>2. x = [at |-> "header", result |-> m.result, complete |-> c, own |-> m.own]  BY <1>4
  <2>. HIDE DEF c, m
  <2>3. /\ x \in SparkRecords /\ x.at = "header" /\ x.own = m.own /\ x.result = m.result
        /\ x.complete = c
    BY <1>1, <2>1, <2>2 DEF JobRecords, SparkRecords, SparkStages
  <2>. QED  BY <2>3 DEF c
<1>8. x.complete
  <2>1. m.complete \/ m.cli  BY <1>2, <1>5 DEF JobReady
  <2>. QED  BY <1>7, <2>1
<1>9. /\ job' \in [Jobs -> JobRecords] /\ job'[j] = mine
      /\ \A k \in Jobs : k # j => job'[k] = job[k]
  BY <1>1, <1>5, <1>6
<1>10. /\ spark' \in [Attempts -> SparkRecords] /\ spark'[t] = x
       /\ \A s \in Attempts : s # t => spark'[s] = spark[s]
  BY <1>1, <1>5, <1>7
<1>11. \A k \in Jobs : job'[k].day = job[k].day /\ job'[k].try = job[k].try
  BY <1>6, <1>9
<1>. HIDE DEF t
<1>12. \A s \in Attempts : DayOf(s)' = DayOf(s)
  BY <1>11 DEF DayOf, Attempts
<1>13. TypeOK'
  <2>1. ~ t[2] > job[t[1]].try
    <3>1. m.try \in Nat  BY <1>1, ServingAssumption
    <3>. QED  BY <3>1 DEF t
  <2>2. \A s \in Attempts : s[2] > job'[s[1]].try => spark'[s].at = "none"
    <3>. SUFFICES ASSUME NEW s \in Attempts, s[2] > job'[s[1]].try
                  PROVE  spark'[s].at = "none"
      OBVIOUS
    <3>1. s[1] \in Jobs /\ s[2] > job[s[1]].try  BY <1>11 DEF Attempts
    <3>2. spark[s].at = "none"  BY <3>1 DEF ServingInv, TypeOK
    <3>. QED  BY <1>10, <2>1, <3>1, <3>2
  <2>3. Typed'  BY <1>5, <1>9, <1>10, <2>2, TypeParts DEF ServingInv, Typed
  <2>. QED  BY <2>3, TypeFromParts
<1>14. IdleInv'
  <2>. SUFFICES ASSUME NEW k \in Jobs, job'[k].at = "idle"
                PROVE  job'[k].try = 0 /\ \A n \in 0..MaxRetries : spark'[<<k, n>>].at = "none"
    BY DEF IdleInv
  <2>1. k # j /\ job[k].at = "idle"  BY <1>6, <1>9
  <2>2. \A n \in 0..MaxRetries : <<k, n>> \in Attempts /\ <<k, n>> # t
    BY <2>1 DEF Attempts, t
  <2>. QED  BY <1>10, <1>11, <2>1, <2>2 DEF ServingInv, IdleInv
<1>15. JobsInv'
  <2>. SUFFICES ASSUME NEW k \in Jobs
                PROVE  JobReady(job[k])' /\ JobFile(job[k], csv[job[k].day])'
    BY DEF JobsInv
  <2>1. JobReady(job[k]) /\ JobFile(job[k], csv[job[k].day])  BY DEF ServingInv, JobsInv
  <2>2. CASE k = j  BY <1>6, <1>9, <2>2 DEF JobReady, JobFile
  <2>3. CASE k # j
    BY <1>5, <1>9, <2>1, <2>3 DEF JobReady, JobFile, missing_daily_asset_partitions
  <2>. QED  BY <2>2, <2>3
<1>16. SparksInv'
  <2>. SUFFICES ASSUME NEW s \in Attempts
                PROVE  SparkReady(spark'[s]) /\ SparkFile(spark'[s], DayOf(s), csv[DayOf(s)])
    BY <1>5, <1>12 DEF SparksInv
  <2>1. CASE s = t
    <3>1. DayOf(s) = m.day  BY <2>1 DEF DayOf, t
    <3>2. SparkReady(x)  BY <1>8 DEF SparkReady
    <3>3. m.own => csv[m.day].rows = m.result  BY <1>2, <1>5 DEF JobFile
    <3>4. SparkFile(x, m.day, csv[m.day])  BY <1>7, <3>3 DEF SparkFile
    <3>. QED  BY <1>10, <2>1, <3>1, <3>2, <3>4
  <2>2. CASE s # t  BY <1>10, <2>2 DEF ServingInv, SparksInv
  <2>. QED  BY <2>1, <2>2
<1>17. PublishedIsOwnResult' /\ CompleteDaysOnly'
  BY <1>5 DEF ServingInv, PublishedIsOwnResult, CompleteDaysOnly
<1>. QED  BY <1>13, <1>14, <1>15, <1>16, <1>17 DEF ServingInv

-----------------------------------------------------------------------------
(* The marts: what was ready stays ready.                                  *)
LEMMA MartStep ==
    ASSUME ServingInv, NEW d \in BusinessDays, NEW r \in Regions \union {NoRegion},
           \/ RunDiesAfterCommit(d, r)
           \/ \E a \in Assets, v \in 0..MaxVersions : MartCommits(d, a, r, v)
    PROVE  ServingInv'
<1>1. PICK v \in 0..MaxVersions :
          /\ mart' = [mart EXCEPT ![d][r] = v] /\ version' = version + 1
          /\ version' \in 0..MaxVersions
  <2>1. version \in 0..MaxVersions  BY TypeParts DEF ServingInv, Typed
  <2>2. version < MaxVersions /\ version' = version + 1
    BY DEF RunDiesAfterCommit, MartCommits
  <2>3. version' \in 0..MaxVersions  BY <2>1, <2>2, ServingAssumption
  <2>4. \E v \in 0..MaxVersions : mart' = [mart EXCEPT ![d][r] = v]
    <3>1. CASE RunDiesAfterCommit(d, r)
      <4>1. PICK v \in 0..MaxVersions : v = version'  BY <2>3
      <4>2. mart' = [mart EXCEPT ![d][r] = v]  BY <2>2, <3>1, <4>1 DEF RunDiesAfterCommit
      <4>. QED  BY <4>2
    <3>2. ASSUME NEW a \in Assets, NEW v \in 0..MaxVersions, MartCommits(d, a, r, v)
          PROVE  mart' = [mart EXCEPT ![d][r] = v]
      BY <3>2 DEF MartCommits
    <3>. QED  BY <3>1, <3>2
  <2>. QED  BY <2>2, <2>3, <2>4
<1>2. /\ ready' \in [BusinessDays -> SUBSET Assets]
      /\ \A e \in BusinessDays : ready[e] \subseteq ready'[e]
  <2>1. ready \in [BusinessDays -> SUBSET Assets]  BY TypeParts DEF ServingInv, Typed
  <2>2. CASE RunDiesAfterCommit(d, r)  BY <2>1, <2>2 DEF RunDiesAfterCommit
  <2>3. ASSUME NEW a \in Assets, NEW w \in 0..MaxVersions, MartCommits(d, a, r, w)
        PROVE  <1>2!1 /\ <1>2!2
    BY <2>1, <2>3 DEF MartCommits
  <2>. QED  BY <2>2, <2>3
<1>3. /\ csv' = csv /\ job' = job /\ spark' = spark /\ table' = table /\ published' = published
  BY DEF RunDiesAfterCommit, MartCommits
<1>4. TypeOK'
  <2>1. mart' \in [BusinessDays -> [Regions \union {NoRegion} -> 0..MaxVersions]]
    BY <1>1, TypeParts DEF ServingInv, Typed
  <2>2. Typed'  BY <1>1, <1>2, <1>3, <2>1, TypeParts DEF ServingInv, Typed
  <2>. QED  BY <2>2, TypeFromParts
<1>5. JobsInv'
  <2>. SUFFICES ASSUME NEW k \in Jobs
                PROVE  JobReady(job[k])' /\ JobFile(job[k], csv[job[k].day])'
    BY DEF JobsInv
  <2>1. JobReady(job[k]) /\ JobFile(job[k], csv[job[k].day])  BY DEF ServingInv, JobsInv
  <2>2. job[k].day \in BusinessDays  BY TypeParts DEF ServingInv, Typed, JobRecords
  <2>. QED
    BY <1>2, <1>3, <2>1, <2>2 DEF JobReady, JobFile, missing_daily_asset_partitions
<1>6. IdleInv' /\ SparksInv' /\ PublishedIsOwnResult' /\ CompleteDaysOnly'
  <2>1. \A s \in Attempts : DayOf(s)' = DayOf(s)  BY <1>3 DEF DayOf
  <2>2. SparksInv'  BY <1>3, <2>1 DEF ServingInv, SparksInv
  <2>. QED
    BY <1>3, <2>2 DEF ServingInv, IdleInv, PublishedIsOwnResult, CompleteDaysOnly
<1>. QED  BY <1>4, <1>5, <1>6 DEF ServingInv

LEMMA SparkStepKeeps ==
    ASSUME ServingInv, NEW s \in Attempts, SparkStep(s)
    PROVE  ServingInv'
<1>1. {"header", "keys", "days", "write", "count"} \subseteq SparkStages \ {"none"}
  BY DEF SparkStages, Ended
<1>2. CASE CheckHeader(s)
  <2>1. Reads(s, "header", TRUE, "keys", "error")  BY <1>2 DEF CheckHeader
  <2>2. "error" \in Ended  BY DEF Ended
  <2>. QED  BY <1>1, <2>1, <2>2, ReadsMoves
<1>3. CASE CheckKeys(s)
  <2>. DEFINE rows == csv[DayOf(s)].rows
              good == /\ \A r \in rows : r.region # NoRegion
                      /\ \A r, q \in rows : r.day = q.day /\ r.region = q.region => r = q
  <2>0. PICK ok \in BOOLEAN : ok = good  BY Zenon
  <2>1. Reads(s, "keys", ok, "days", "bad_keys")  BY <1>3, <2>0 DEF CheckKeys
  <2>2. "bad_keys" \in Ended  BY DEF Ended
  <2>. QED  BY <1>1, <2>1, <2>2, ReadsMoves
<1>4. CASE CheckDays(s)
  <2>. DEFINE good == \A r \in csv[DayOf(s)].rows : r.day = DayOf(s)
  <2>1. PICK ok \in BOOLEAN : ok = good  OBVIOUS
  <2>2. Reads(s, "days", ok, "write", "bad_days")  BY <1>4, <2>1 DEF CheckDays
  <2>3. "bad_days" \in Ended  BY DEF Ended
  <2>4. ok => \A r \in csv[DayOf(s)].rows : r.day = DayOf(s)  BY <2>1
  <2>. QED  BY <1>1, <2>2, <2>3, <2>4, ReadsMoves
<1>5. CASE Overwrite(s)  BY <1>5, OverwriteStep
<1>6. CASE CountRows(s)
  <2>1. Reads(s, "count", TRUE, "ok", "error")  BY <1>6 DEF CountRows
  <2>2. "error" \in Ended /\ "ok" \in SparkStages  BY DEF Ended, SparkStages
  <2>. QED  BY <1>1, <2>1, <2>2, ReadsMoves
<1>7. CASE OverwriteFails(s) \/ SparkDies(s)
  <2>1. PICK a \in {"error", "down"} : spark' = [spark EXCEPT ![s] = Moved(s, a)]
    BY <1>7 DEF OverwriteFails, SparkDies
  <2>2. PICK x : x = Moved(s, a)  OBVIOUS
  <2>3. a \in SparkStages  BY DEF SparkStages, Ended
  <2>4. x \in SparkRecords /\ x.at = a /\ x.own = spark[s].own
    BY <2>2, <2>3, MovedParts DEF ServingInv
  <2>5. SparkReady(x) /\ SparkFile(x, DayOf(s), csv[DayOf(s)])
    BY <2>4 DEF SparkReady, SparkFile
  <2>6. /\ spark[s].at # "none" /\ UNCHANGED <<mart, version, ready, csv, job>>
        /\ table' = table /\ published' = published
    BY <1>7 DEF OverwriteFails, SparkDies
  <2>7. table' \subseteq Row /\ published' \in [BusinessDays -> Publications]
    BY <2>6, TypeParts DEF ServingInv, Typed
  <2>8. PublishedIsOwnResult' /\ CompleteDaysOnly'
    BY <2>6 DEF ServingInv, PublishedIsOwnResult, CompleteDaysOnly
  <2>. QED  BY <2>1, <2>2, <2>4, <2>5, <2>6, <2>7, <2>8, SparkMoves
<1>. QED  BY <1>2, <1>3, <1>4, <1>5, <1>6, <1>7 DEF SparkStep

(* The inductive invariant holds.                                          *)
THEOREM ServingInvariant == Spec => []ServingInv
<1>1. Init => ServingInv
  <2>. SUFFICES ASSUME Init  PROVE ServingInv
    OBVIOUS
  <2>1. /\ \A j \in Jobs : job[j] = NoJob
        /\ \A s \in Attempts : spark[s] = NoSpark
    BY DEF Init
  <2>2. TypeOK
    <3>1. job \in [Jobs -> JobRecords]  BY NoJobParts DEF Init
    <3>2. spark \in [Attempts -> SparkRecords]
      BY DEF Init, NoSpark, SparkRecords, SparkStages
    <3>3. csv \in [BusinessDays -> Files]  BY DEF Init, NoFile, Files
    <3>4. published \in [BusinessDays -> Publications]  BY DEF Init, Publications
    <3>5. \A s \in Attempts : spark[s].at = "none"  BY <2>1 DEF NoSpark
    <3>6. Typed
      BY <3>1, <3>2, <3>3, <3>4, <3>5, ServingAssumption DEF Init, Typed
    <3>. QED  BY <3>6 DEF TypeOK, Typed, JobRecords, SparkRecords, Files, Publications, SparkStages
  <2>3. IdleInv
    BY <2>1, NoJobParts DEF IdleInv, NoSpark, Attempts
  <2>4. JobsInv
    BY <2>1, NoJobParts DEF JobsInv, JobReady, JobFile
  <2>5. SparksInv
    BY <2>1 DEF SparksInv, SparkReady, SparkFile, NoSpark
  <2>6. PublishedIsOwnResult /\ CompleteDaysOnly
    BY DEF Init, PublishedIsOwnResult, CompleteDaysOnly
  <2>. QED  BY <2>2, <2>3, <2>4, <2>5, <2>6 DEF ServingInv
<1>2. ServingInv /\ [Next]_vars => ServingInv'
  <2>. SUFFICES ASSUME ServingInv, [Next]_vars  PROVE ServingInv'
    OBVIOUS
  <2>1. CASE UNCHANGED vars
    <3>1. /\ mart' = mart /\ version' = version /\ ready' = ready /\ csv' = csv /\ job' = job
          /\ spark' = spark /\ table' = table /\ published' = published
      BY <2>1 DEF vars
    <3>2. \A s \in Attempts : DayOf(s)' = DayOf(s)  BY <3>1 DEF DayOf
    <3>3. TypeOK'
      <4>1. Typed'  BY <3>1, TypeParts DEF ServingInv, Typed
      <4>. QED  BY <4>1, TypeFromParts
    <3>4. SparksInv'  BY <3>1, <3>2 DEF ServingInv, SparksInv
    <3>. QED
      BY <3>1, <3>3, <3>4 DEF ServingInv, IdleInv, JobsInv, JobReady,
         missing_daily_asset_partitions, PublishedIsOwnResult, CompleteDaysOnly
  <2>2. ASSUME NEW j \in Jobs, JobStep(j)  PROVE ServingInv'
    BY <2>2, QuietJobStep, StartStep, FileStep, SubmitStep DEF JobStep
  <2>3. ASSUME NEW s \in Attempts, SparkStep(s)  PROVE ServingInv'
    BY <2>3, SparkStepKeeps
  <2>4. ASSUME NEW d \in BusinessDays, NEW r \in Regions \union {NoRegion},
               \/ RunDiesAfterCommit(d, r)
               \/ \E a \in Assets, v \in 0..MaxVersions : MartCommits(d, a, r, v)
        PROVE  ServingInv'
    BY <2>4, MartStep
  <2>. QED  BY <2>1, <2>2, <2>3, <2>4 DEF Next
<1>. QED  BY <1>1, <1>2, PTL DEF Spec

(* Every variable of the exports keeps its type, and no Spark job runs for *)
(* an attempt that has not been made.                                      *)
THEOREM ServingTypeCorrect == Spec => []TypeOK
<1>1. ServingInv => TypeOK  BY DEF ServingInv
<1>. QED  BY <1>1, ServingInvariant, PTL

(* Whatever exports, orphaned Spark jobs, failures and retries interleave: *)
(* what the table holds of a day is the result of one query of the export  *)
(* that published it, unless another export touched its file.              *)
THEOREM PublishedResultsAreOwn == Spec => []PublishedIsOwnResult
<1>1. ServingInv => PublishedIsOwnResult  BY DEF ServingInv
<1>. QED  BY <1>1, ServingInvariant, PTL

(* The asset never publishes a day whose required marts were not all there *)
(* when it was queried.                                                    *)
THEOREM OnlyCompleteDays == Spec => []CompleteDaysOnly
<1>1. ServingInv => CompleteDaysOnly  BY DEF ServingInv
<1>. QED  BY <1>1, ServingInvariant, PTL
=============================================================================
