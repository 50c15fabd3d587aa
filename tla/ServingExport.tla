----------------------------- MODULE ServingExport -----------------------------
(***************************************************************************)
(* The serving projection of one contract: a job exports the MetricFlow    *)
(* result of a business day to metricflow.csv and a Spark job checks the   *)
(* file and overwrites the day of the Iceberg table with it                *)
(* (serving/exporter.py, serving/jobs/materialize_export.py, the asset     *)
(* bi_daily_executive and serving/export_cli.py).                          *)
(*                                                                         *)
(* All exports of a day share one path.  Spark's DataFrame is lazy: every  *)
(* check, the overwrite and the final count read the file again.  When the *)
(* docker client of a Spark job times out the Spark job itself goes on,    *)
(* and Dagster retries the asset beside it.                                *)
(***************************************************************************)
EXTENDS Integers, FiniteSets

CONSTANTS Jobs,         \* runs of the asset or of export_cli --materialize
          Days,         \* bound: business days are 1..Days
          Regions,      \* values of store__region
          NoRegion,     \* NULL, for stores without a region
          Assets,       \* readiness.required_daily_assets of the contract
          MaxVersions,  \* bound: commits of the marts
          MaxRetries,   \* max_retries of TRANSIENT_RETRY_POLICY
          Faults        \* which faults may occur

FaultKinds == {"deferred", "mf_error", "no_csv", "client_timeout", "spark_down"}

ASSUME ServingAssumption ==
    /\ Days \in Nat \ {0} /\ MaxVersions \in Nat /\ MaxRetries \in Nat
    /\ IsFiniteSet(Regions)
    /\ Faults \subseteq FaultKinds

VARIABLES
    mart,       \* of each day and region: the version of its sales, or 0
    version,    \* commits of the marts so far
    ready,      \* of each day: assets with a materialization event
    csv,        \* of each day: metricflow.csv
    job,        \* the export process of each job
    spark,      \* the Spark job of each attempt of each job
    table,      \* rows of the serving table
    published   \* history: of each day, its last publication

vars == <<mart, version, ready, csv, job, spark, table, published>>

BusinessDays == 1..Days
Attempts == Jobs \X (0..MaxRetries)
Row == [day : BusinessDays, region : Regions \union {NoRegion}, ver : 1..MaxVersions]
DayOf(s) == job[s[1]].day

NoFile == [exists |-> FALSE, written |-> FALSE, rows |-> {}]
NoJob == [at |-> "idle", day |-> 1, try |-> 0, cli |-> FALSE, fd |-> "none",
          result |-> {}, complete |-> FALSE, own |-> FALSE]
(* A job that leaves the exporter keeps what Dagster knows of it.          *)
Left(j, at) == [NoJob EXCEPT !.at = at, !.day = job[j].day, !.try = job[j].try, !.cli = job[j].cli]
NoSpark == [at |-> "none", result |-> {}, complete |-> FALSE, own |-> FALSE]

-----------------------------------------------------------------------------
(* MetricFlow includes the day of --end-time, and the exporter passes the  *)
(* day after the partition's.                                              *)
MetricFlowResult(d) ==
    {r \in Row : r.day \in d..(d + 1) /\ r.ver = mart[r.day][r.region]}

(* missing_daily_asset_partitions: events of exactly this partition.       *)
missing_daily_asset_partitions(d) == Assets \ ready[d]

(* Another export removes or writes the file: no other job of the day has  *)
(* the file to itself any more.                                            *)
JobsAfterTouch(j, mine, unlinked) ==
    [k \in Jobs |->
        IF k = j THEN mine
        ELSE IF job[k].day # job[j].day THEN job[k]
        ELSE [job[k] EXCEPT !.own = FALSE,
                            !.fd = IF unlinked /\ @ = "path" THEN "gone" ELSE @]]
SparksAfterTouch(j) ==
    [s \in Attempts |-> IF DayOf(s) = job[j].day THEN [spark[s] EXCEPT !.own = FALSE]
                        ELSE spark[s]]

Init ==
    /\ mart = [d \in BusinessDays |-> [r \in Regions \union {NoRegion} |-> 0]]
    /\ version = 0
    /\ ready = [d \in BusinessDays |-> {}]
    /\ csv = [d \in BusinessDays |-> NoFile]
    /\ job = [j \in Jobs |-> NoJob]
    /\ spark = [s \in Attempts |-> NoSpark]
    /\ table = {}
    /\ published = [d \in BusinessDays |-> [rows |-> {}, clean |-> TRUE, complete |-> TRUE]]

-----------------------------------------------------------------------------
(* A daily run commits a mart: a region of the day has new sales, or none  *)
(* any more; Dagster records the materialization, unless the run died.     *)
MartCommits(d, a, r, v) ==
    /\ version < MaxVersions
    /\ version' = version + 1
    /\ v \in {0, version + 1} /\ v # mart[d][r]
    /\ mart' = [mart EXCEPT ![d][r] = v]
    /\ ready' = [ready EXCEPT ![d] = @ \union {a}]
    /\ UNCHANGED <<csv, job, spark, table, published>>

RunDiesAfterCommit(d, r) ==
    /\ version < MaxVersions
    /\ version' = version + 1
    /\ mart' = [mart EXCEPT ![d][r] = version + 1]
    /\ UNCHANGED <<ready, csv, job, spark, table, published>>

(* Slip: any recorded asset will do.                                       *)
CheckReadinessAny(j) ==
    /\ job[j].at = "ready"
    /\ job' = [job EXCEPT ![j].at = IF Assets \ missing_daily_asset_partitions(job[j].day) # {}
                                    THEN "remove" ELSE "failed"]
    /\ UNCHANGED <<mart, version, ready, csv, spark, table, published>>

(* The asset refuses a day whose marts are not all there; no retry.        *)
CheckReadiness(j) ==
    /\ job[j].at = "ready"
    /\ job' = [job EXCEPT ![j].at = IF missing_daily_asset_partitions(job[j].day) = {}
                                    THEN "remove" ELSE "failed"]
    /\ UNCHANGED <<mart, version, ready, csv, spark, table, published>>

(* The schedule or an operator starts the asset; export_cli goes straight  *)
(* to the exporter.                                                        *)
StartExport(j, d, cli) ==
    /\ job[j].at = "idle"
    /\ job' = [job EXCEPT ![j] = [NoJob EXCEPT !.at = IF cli THEN "remove" ELSE "ready",
                                               !.day = d, !.cli = cli]]
    /\ UNCHANGED <<mart, version, ready, csv, spark, table, published>>

(* The gate is closed, or MetricFlow is not installed: DEFERRED, no retry. *)
ExportDeferred(j) ==
    /\ "deferred" \in Faults
    /\ job[j].at = "remove"
    /\ job' = [job EXCEPT ![j] = Left(j, "failed")]
    /\ UNCHANGED <<mart, version, ready, csv, spark, table, published>>

(* Slip: a file that is already there is left.                             *)
RemoveNothing(j) ==
    /\ job[j].at = "remove"
    /\ job' = [job EXCEPT ![j].at = "query", ![j].own = TRUE, ![j].fd = "none"]
    /\ UNCHANGED <<mart, version, ready, csv, spark, table, published>>

(* metricflow.csv of an earlier export is unlinked.                        *)
RemoveCsv(j) ==
    /\ job[j].at = "remove"
    /\ csv' = [csv EXCEPT ![job[j].day] = NoFile]
    /\ job' = JobsAfterTouch(j, [job[j] EXCEPT !.at = "query", !.own = TRUE, !.fd = "none"], TRUE)
    /\ spark' = SparksAfterTouch(j)
    /\ UNCHANGED <<mart, version, ready, table, published>>

(* The process mf: it queries, opens the file, which empties it, and       *)
(* writes.                                                                 *)
Query(j) ==
    /\ job[j].at = "query"
    /\ job' = [job EXCEPT ![j].at = "open", ![j].result = MetricFlowResult(job[j].day),
                          ![j].complete = missing_daily_asset_partitions(job[j].day) = {}]
    /\ UNCHANGED <<mart, version, ready, csv, spark, table, published>>

OpenCsv(j) ==
    /\ job[j].at = "open"
    /\ csv' = [csv EXCEPT ![job[j].day] = [NoFile EXCEPT !.exists = TRUE]]
    /\ job' = JobsAfterTouch(j, [job[j] EXCEPT !.at = "fill", !.fd = "path"], FALSE)
    /\ spark' = SparksAfterTouch(j)
    /\ UNCHANGED <<mart, version, ready, table, published>>

(* Two processes that opened one file leave the rows of both, or of one;   *)
(* what is written to an unlinked file is lost.                            *)
FillCsv(j) ==
    LET d == job[j].day
        done == [job[j] EXCEPT !.at = "check"] IN
    /\ job[j].at = "fill"
    /\ IF job[j].fd = "gone"
       THEN job' = [job EXCEPT ![j] = done] /\ UNCHANGED <<csv, spark>>
       ELSE /\ \E tail \in {{}, csv[d].rows} :
                  csv' = [csv EXCEPT ![d] = [exists |-> TRUE, written |-> TRUE,
                                             rows |-> job[j].result \union tail]]
            /\ job' = JobsAfterTouch(j, done, FALSE)
            /\ spark' = SparksAfterTouch(j)
    /\ UNCHANGED <<mart, version, ready, table, published>>

(* mf exits with an error, also on a timeout, which kills it: no retry.    *)
MetricFlowFails(j) ==
    /\ "mf_error" \in Faults
    /\ job[j].at \in {"query", "open", "fill"}
    /\ job' = [job EXCEPT ![j] = Left(j, "failed")]
    /\ UNCHANGED <<mart, version, ready, csv, spark, table, published>>

(* mf reports success and has written no file.                             *)
NoCsvWritten(j) ==
    /\ "no_csv" \in Faults
    /\ job[j].at = "open"
    /\ job' = [job EXCEPT ![j].at = "check"]
    /\ UNCHANGED <<mart, version, ready, csv, spark, table, published>>

(* COMPLETE only if there is a file with the header: spark_submit.         *)
CsvIsComplete(j) ==
    /\ job[j].at = "check"
    /\ csv[job[j].day].written
    /\ job' = [job EXCEPT ![j] = Left(j, "spark")]
    /\ spark' = [spark EXCEPT ![<<j, job[j].try>>] =
                    [at |-> "header", result |-> job[j].result,
                     complete |-> job[j].complete \/ job[j].cli, own |-> job[j].own]]
    /\ UNCHANGED <<mart, version, ready, csv, table, published>>

CsvIsInvalid(j) ==
    /\ job[j].at = "check"
    /\ ~csv[job[j].day].written
    /\ job' = [job EXCEPT ![j] = Left(j, "failed")]
    /\ UNCHANGED <<mart, version, ready, csv, spark, table, published>>

-----------------------------------------------------------------------------
Ended == {"ok", "error", "bad_keys", "bad_days", "down"}

(* The result is remembered until it is published.                         *)
Moved(s, at) ==
    [spark[s] EXCEPT !.at = at,
                     !.result = IF at \in Ended \union {"count"} THEN {} ELSE @,
                     !.complete = @ /\ at \notin Ended \union {"count"}]

(* One read of the file by the Spark job s, and where it goes from there.  *)
(* A file that is missing or empty fails the read of the header, one that  *)
(* has vanished since fails every later read.                              *)
Reads(s, at, ok, next, refused) ==
    LET file == csv[DayOf(s)] IN
    /\ spark[s].at = at
    /\ spark' = [spark EXCEPT ![s] = Moved(s,
                    IF ~file.exists \/ (at = "header" /\ ~file.written) THEN "error"
                    ELSE IF ok THEN next ELSE refused)]
    /\ UNCHANGED <<mart, version, ready, csv, job, table, published>>

CheckHeader(s) == Reads(s, "header", TRUE, "keys", "error")

(* The primary key is not null and unique.                                 *)
CheckKeys(s) ==
    LET rows == csv[DayOf(s)].rows IN
    Reads(s, "keys", /\ \A r \in rows : r.region # NoRegion
                     /\ \A r, q \in rows : r.day = q.day /\ r.region = q.region => r = q,
          "days", "bad_keys")

(* Every row is of the partition.                                          *)
CheckDays(s) ==
    Reads(s, "days", \A r \in csv[DayOf(s)].rows : r.day = DayOf(s), "write", "bad_days")

(* overwrite(filter): one snapshot without the old rows of the day and     *)
(* with every row of the file.                                             *)
Overwrite(s) ==
    LET d == DayOf(s)
        rows == csv[d].rows IN
    /\ spark[s].at = "write"
    /\ csv[d].exists
    /\ spark' = [spark EXCEPT ![s] = Moved(s, "count")]
    /\ table' = {r \in table : r.day # d} \union rows
    /\ published' = [e \in BusinessDays |->
          IF e = d THEN [rows |-> spark[s].result, clean |-> spark[s].own,
                         complete |-> spark[s].complete]
          ELSE [published[e] EXCEPT !.clean = @ /\ \A r \in rows : r.day # e]]
    /\ UNCHANGED <<mart, version, ready, csv, job>>

OverwriteFails(s) ==
    /\ spark[s].at = "write"
    /\ ~csv[DayOf(s)].exists
    /\ spark' = [spark EXCEPT ![s] = Moved(s, "error")]
    /\ UNCHANGED <<mart, version, ready, csv, job, table, published>>

(* count() once more reads the file, and may fail the job that published.  *)
CountRows(s) == Reads(s, "count", TRUE, "ok", "error")

SparkDies(s) ==
    /\ "spark_down" \in Faults
    /\ spark[s].at \in {"header", "keys", "days", "write", "count"}
    /\ spark' = [spark EXCEPT ![s] = Moved(s, "down")]
    /\ UNCHANGED <<mart, version, ready, csv, job, table, published>>

(* A failure of the Spark service or a timeout may be retried: the asset   *)
(* starts over.                                                            *)
Retried(j) ==
    IF ~job[j].cli /\ job[j].try < MaxRetries
    THEN [NoJob EXCEPT !.at = "ready", !.day = job[j].day, !.try = job[j].try + 1]
    ELSE Left(j, "failed")

SparkReturns(j) ==
    LET at == spark[<<j, job[j].try>>].at IN
    /\ job[j].at = "spark"
    /\ at \in Ended
    /\ job' = [job EXCEPT ![j] = IF at = "down" THEN Retried(j)
                                 ELSE Left(j, IF at = "ok" THEN "done" ELSE "failed")]
    /\ UNCHANGED <<mart, version, ready, csv, spark, table, published>>

(* The docker client of the asset is killed, the Spark job is not.         *)
ClientTimeout(j) ==
    /\ "client_timeout" \in Faults
    /\ job[j].at = "spark" /\ ~job[j].cli
    /\ job' = [job EXCEPT ![j] = Retried(j)]
    /\ UNCHANGED <<mart, version, ready, csv, spark, table, published>>

-----------------------------------------------------------------------------
JobStep(j) ==
    \/ \E d \in BusinessDays, cli \in BOOLEAN : StartExport(j, d, cli)
    \/ CheckReadiness(j) \/ ExportDeferred(j) \/ RemoveCsv(j)
    \/ Query(j) \/ OpenCsv(j) \/ FillCsv(j) \/ MetricFlowFails(j) \/ NoCsvWritten(j)
    \/ CsvIsComplete(j) \/ CsvIsInvalid(j) \/ SparkReturns(j) \/ ClientTimeout(j)

SparkStep(s) ==
    \/ CheckHeader(s) \/ CheckKeys(s) \/ CheckDays(s)
    \/ Overwrite(s) \/ OverwriteFails(s) \/ CountRows(s) \/ SparkDies(s)

Next ==
    \/ \E d \in BusinessDays, r \in Regions \union {NoRegion} :
          \/ RunDiesAfterCommit(d, r)
          \/ \E a \in Assets, v \in 0..MaxVersions : MartCommits(d, a, r, v)
    \/ \E j \in Jobs : JobStep(j)
    \/ \E s \in Attempts : SparkStep(s)

Spec == Init /\ [][Next]_vars

-----------------------------------------------------------------------------
JobStages == {"idle", "ready", "remove", "query", "open", "fill", "check", "spark",
              "done", "failed"}

(* The types of all variables.  An attempt that has not been submitted has *)
(* no Spark job, and only a submitted one can be counted as published.     *)
TypeOK ==
    /\ mart \in [BusinessDays -> [Regions \union {NoRegion} -> 0..MaxVersions]]
    /\ version \in 0..MaxVersions
    /\ ready \in [BusinessDays -> SUBSET Assets]
    /\ csv \in [BusinessDays -> [exists : BOOLEAN, written : BOOLEAN, rows : SUBSET Row]]
    /\ job \in [Jobs -> [at : JobStages, day : BusinessDays, try : 0..MaxRetries,
                         cli : BOOLEAN, fd : {"none", "path", "gone"}, result : SUBSET Row,
                         complete : BOOLEAN, own : BOOLEAN]]
    /\ spark \in [Attempts ->
          [at : {"none", "header", "keys", "days", "write", "count"} \union Ended,
           result : SUBSET Row, complete : BOOLEAN, own : BOOLEAN]]
    /\ table \subseteq Row
    /\ published \in [BusinessDays -> [rows : SUBSET Row, clean : BOOLEAN, complete : BOOLEAN]]
    /\ \A s \in Attempts : s[2] > job[s[1]].try => spark[s].at = "none"

(* What the table holds of a day is exactly the result of one query for    *)
(* that day, the one of the export that published it, as long as no other  *)
(* export of the day has touched the file in between: no file of an        *)
(* earlier export, no half written one, no row of a neighbouring day.      *)
(* A later undisturbed export also repairs what a disturbed one left       *)
(* (materialize_export.py:52-54).                                          *)
PublishedIsOwnResult ==
    \A d \in BusinessDays :
        published[d].clean => {r \in table : r.day = d} = published[d].rows

(* What the asset published of a day was queried after every required mart *)
(* of exactly that day had been materialized (serving_readiness.py:3-4);   *)
(* export_cli makes no such promise.                                       *)
CompleteDaysOnly == \A d \in BusinessDays : published[d].complete

(* A day can be exported again: the check of the business date only ever   *)
(* refuses a file that another export has touched (serving/README.md:61).  *)
RerunIsAccepted ==
    \A s \in Attempts : spark[s].at = "bad_days" => ~spark[s].own
=============================================================================
