# A verification of the governed data platform

TLA+ models of the parts of this repository whose correctness hangs on order, failure
and time, with the configurations that check them under TLC and proofs that TLAPS
checks. `PROJECT.json` lists the components, the runs, the mutants that show that each
property can fail, the source lines behind every definition, the findings, the hazards
and the theorems.

Contents: [the system](#1-the-system) · [modules](#2-the-modules-and-the-code) ·
[runs](#3-the-runs) · [findings](#4-what-the-runs-found) · [fairness](#5-fairness) ·
[proofs](#6-what-is-proved) · [limits](#7-known-limits-and-abstractions) ·
[not modelled](#8-what-is-not-modelled) · [plan](#9-plan)

## 1. The system

The platform has two halves. The **data plane** (Kafka and Flink, Dagster, Spark, Iceberg,
dbt) turns behaviour events and Shopify orders into tables, the orders one daily partition
at a time. The **agent plane** (a FastAPI service in several pods) answers questions about
those tables through governed tools; every request passes a traffic guard and is recorded
by a durable audit sink before it is answered. Operators act on the data plane through
incidents and approvals, and on the agent's policy through reviewed change packages.

| Component | State | Operations | Interacts with |
|---|---|---|---|
| Durable audit sink `agent/audit/writer.py` | one file, generations written and durable, the sync leader, the failure flag, receipts of batches | append, await durability, close, (re)open | request threads through one lock and condition; kernel page cache; device |
| Shared traffic guard `agent/api/redis_traffic.py` | rate windows and leases in Redis; per request a lease object with a heartbeat task | admit, renew, release (Lua scripts), heartbeat | Redis over a network that delays and loses; the request handler |
| Request handler `agent/api/main.py` | the runtime's task, the reply | acquire, run the worker thread, time out, answer, release | guard, audit sink, agent runtime |
| Local traffic guard `agent/api/traffic.py` | rate windows and counters in memory | acquire, release | request handler |
| Token verifier `mcp_server/auth/jwt.py` | JWK set cache, cooldown of refreshes, a lock | verify, refresh on an invalid signature | identity provider |
| Agent runtime, router, planner `agent/runtime`, `agent/router`, `agent/analysis_planner` | the turn: route, units and their results, evidence | route, authorize, load context, compile, execute, retry, compose, validate | semantic layer, LLM |
| Governed context `agent/context`, `agent/code_context` | one snapshot of the semantics per process, published cards of models with fingerprints, the bundle of a request | look up, clear, load, publish and compare cards, expand by a card or an excerpt | files of the checkout, CI, the runtime |
| Analysis session and clarification `agent/analysis_session`, `agent/clarification` | a state with a checksum that the client carries | start, resume, follow-up | semantic planner, the client |
| Diagnosis and drivers `agent/diagnostic`, `agent/anomaly_analysis`, `agent/driver_attribution`, `agent/breakdown_analysis` | one analysis: health, windows, queries, lenses | health, baseline, verdict, breakdown, reconciliation | marts, Dagster's events |
| Dagster recovery `orchestration/dagster` | runs with tags, mart materializations, the sensor's evaluation | schedule, retry a step, classify a failure, replay a partition | Spark and dbt, the Dagster daemon, operators |
| Incident response and approval `agent/incident_*`, `agent/approval_workflow` | evidence of an incident, a plan, cases with an audit trail | inspect, plan, prepare, approve, reject, cancel, expire, check | marts, runs, operators |
| Calibration and promotion `acceptance/agent_slo` | summaries, review, decision, record, package, the policy file | calibrate, review, decide, record, package | load tests, humans, editors of the file |
| Shopify pipeline `ingestion/shopify`, `lakehouse/jobs`, `dbt` | landing file, Raw, versions, Current State, marts | extract, load, normalise, build | Shopify, Dagster runs, Iceberg |
| Behaviour stream `ingestion/behavior` | Kafka partitions, Flink keyed state, windows, checkpoints | collect, deduplicate, count, write, restart | clients, Kafka, Iceberg |
| Serving export `serving/` | an exported CSV, a Spark job, the serving table | export, validate, overwrite a partition, retry | MetricFlow, Spark, Dagster |

**Hard behaviour**, and what correctness means for each:

* *Audit sink.* Threads race for the leadership of one `fdatasync` that acknowledges a
  whole batch. A failed `fdatasync` leaves dirty pages clean, so that a later success
  proves nothing. Correct means: what was acknowledged is on the device and stays
  readable, each record is in exactly one batch, nobody sleeps without a leader who will
  wake him, and nobody syncs a closed descriptor.
* *Traffic guards.* A lease expires while a worker runs, a renewal is still under way when
  its lease is released, an answer is lost after the script was executed, a pod dies;
  windows are swept while others are admitted. Correct means: no more workers run than
  there are slots, no more start in a window than the rates allow, a slot is freed at last
  whatever fails, a request that lost its lease gives no answer, and who waits as long as
  he is told is let in.
* *Token verifier.* Keys rotate while threads verify with a cached set and wait for one
  refresh. Correct means: a retired key is forgotten in bounded time, and a genuine token
  is refused only for a stated cause.
* *Agent turn and session.* Units fail and are retried beside others that depend on them;
  a client garbles the state it carries. Correct means: an answer rests on exactly the
  evidence it reports, and a session that is accepted is explained by its history.
* *Governed context.* Threads build one snapshot of files that are edited under them; cards
  are published, interrupted and compared while their sources change; a request asks for code
  over and over. Correct means: a process answers from one snapshot, a card is used only while
  its sources say the same, and neither budget nor plan can be talked around.
* *Diagnosis.* Marts are written while an analysis runs in several queries. Correct means:
  no driver is named from an incomplete window, and contributions add up.
* *Recovery.* The sensor reads marts, then runs, then asks for a replay, while runs end,
  operators act and the daemon dies. Correct means: replays stay within their budget, one
  at a time, and rest on a failure that is known to be safe to repeat.
* *Incident and approval.* Evidence is two reads apart, approvals are used long after it.
  Correct means: an action is granted only where it was really warranted.
* *Promotion.* Files are read several times by several programs while others edit them.
  Correct means: a package changes just what a human approved, of a base he saw.
* *Pipeline.* Windows of different days are read late, repeatedly and out of order, runs
  fail half way, and children of an order have clocks of their own. Correct means: no
  table goes back to an older version, and a day that is done has delivered what the shop
  holds.
* *Stream.* Events are resent, late and out of order; the job restarts from a checkpoint.
  Correct means: what was accepted is not lost, nothing counts twice, and nothing is called
  late without a reason.
* *Serving export.* Two exports share a file, an orphaned Spark job works beside the retry
  of its client. Correct means: what is published is the whole result of its own query.

## 2. The modules and the code

| Module | Models | Kind |
|---|---|---|
| `DurableLog` | what the audit sink promises: submit, persist, acknowledge | abstract specification |
| `AuditSink` | `agent/audit/writer.py`, its file and its device | detailed; implements `DurableLog` |
| `SharedTraffic` | `agent/api/redis_traffic.py` composed with `query_agent` of `agent/api/main.py` and Redis | detailed |
| `LocalTraffic` | `agent/api/traffic.py` | detailed |
| `TokenVerification` | `mcp_server/auth/jwt.py` and the key cache of its library | detailed |
| `AgentTurn` | router, authorization, context, validator's retry, executor, composer; the plan is a parameter | detailed |
| `AnalysisPlanner` | the plan the analysis planner compiles a skill to | algorithm |
| `AnalysisSession` | sessions, follow-ups, clarifications | detailed |
| `MetricAnalysis` | health, anomaly, driver attribution, time comparison and breakdown | detailed |
| `Recovery` | the schedule, runs, `failure_classification.py`, `recovery_policy.py`, `recovery_state_current.py`, `sensors.py` | detailed |
| `IncidentApproval` | drilldown, response planner, approval workflow; extends `Recovery` | composition |
| `Promotion` | calibration, approval records, guardrail change packages | detailed |
| `ShopifyPipeline` | extraction, landing, Raw, `normalize_shopify_orders.py`, canonical and mart models of dbt | detailed |
| `BehaviorStream` | collector, Kafka, the Flink job with its checkpoints | detailed |
| `ServingExport` | readiness, exporter, CSV, the Spark materialization, retries | detailed |
| `SemanticCache` | the snapshot of `agent/context/cached_repository.py` and its lock | detailed |
| `CodeContext` | `agent/code_context`: the builder of cards, their publication, their use | detailed |
| `ContextBundle` | `agent/context/loader.py` and `expansion.py` on one request | detailed |
| `OperationsParts`, `AgentParts`, `ContextParts` | parts that share no state, side by side; their type correctness | composition |
| `MC*` | small sets, symmetry, constraints; `MCOperations`, `MCAgent`, `MCIngestion`, `MCServingContext` check parts that share no state in one run | for TLC |
| `AuditSinkProofs`, `SharedTrafficProofs`, `RecoveryProofs`, `IngestionProofs`, `ServingExportProofs`, `OperationsProofs`, `AgentProofs`, `ContextProofs` | theorems | proofs |

**AuditSink.** A record is numbered by its position in the life of the file; the sink's
generation `g` is record `base + g`. `pc` is a thread's place in `append` and
`_await_durable`; each action is one section under `self._lock`, and `fdatasync` is a
step of its own, outside the lock. `cached`, `dirty` and `disk` are the page cache, the
pages a sync would write, and the device. `SyncFails` writes an arbitrary part of the
dirty pages and leaves none dirty, as Linux does. `dir_entry` is the durability of the
file's name, `name_abandoned` and `lost_with_name` are its history (did the creating process end
before it synced the name, and what a power loss took with such a name), `torn` and `glued` follow an unterminated line. `PowerLoss` and
`ProcessEnds` restart the process on what is left.

**SharedTraffic.** `leases` and `ttl` are the sorted sets of Redis, `rate` the rate
windows, `net` the commands under way. `ExecAdmit`, `ExecRenew` and `ExecRelease` are the
Lua scripts, atomic as Redis makes them, executed at any time after they were sent, also
when the caller has given up (`CallRaises`). The handler's `Respond`, `RequestTimeout` and
`ReleaseWhenTaskFinishes` are the branches of `query_agent`; `Renew`, `Renewed` and
`LeaseLost` are `_heartbeat`. Time is relative: a score is the time that is left, and
`Tick` lets one unit pass for everybody, but only when no sleep or call is due.

**LocalTraffic.** An admission awaits nothing under the guard's lock, so it is one step,
with the sweep, the pruning and the tracking of keys in the order of the code. `Release`
is idempotent as `AdmissionLease.release` is. Time is relative again. A window, a deque of
time stamps in the code, is the set of the leases that left them: a stamp is that of its
lease, and the head is the oldest.

**TokenVerification.** A verification is resolved with the cached key set, may force a
refresh under the lock, and is decoded again; `Provider` publishes and retires keys at any
moment, and `Serve` answers a request with the keys of its own moment. An empty set is cached as
any other, and refuses every token while it lasts (`ResolveFromEmpty`). `retired` and `bare` are
history: how long a key, and how long ago the last of them, has been unpublished.

**AgentTurn.** `turn.at` is the place in `_run_bound`. The router is its list of rules, of
which the first that applies decides: a question is the governed names found in it and the
markers it has (`Questions`), the words that count as a marker are left out. `ToolOutcomes`
are the statuses a tool can return; which of them a query or tool returns, and which
required source of the context is missing, is the environment's choice; what the chain makes
of it (dependencies, skips, statuses, the
decision of the validator, the retry and what it runs again, the mapping of a final status
to an answer) is the code's. `outcomes` is history. The plan is the constant `Units`, so that
theorems hold of every plan in dependency order; the run takes what `AnalysisPlanner!Compile`
makes of a skill. `_expand_dependents`, a loop until nothing changes, is the least set that
is closed under dependents.

**AnalysisSession.** A checksum is the copy of what it was computed over; `Garble` changes
a state on its way without it. Each follow-up is one delta with the refusals before it.

**SemanticCache.** `source` are the contract files, `memo` the entry of the `lru_cache`, `ref`
what each repository instance has bound. A lookup of an unbound instance takes the lock, hits
the memo or reads one file per step (`ReadFile`); a broken file is an exception, nothing is
memoized and the lock is given back. A snapshot is an object: equal contents do not make two of
them one. `builds` is history.

**CodeContext.** A card has three sources: the SQL of its model, the schema file and the
semantic file. The builder reads each once for the facts and once more for the fingerprint, so
`ReadOn` is six steps; `write_text` is `Truncate` and `Fill`, and the script may stop anywhere
(`PublisherEnds`). `resolve` compares the sources one by one (`CompareOne`) or builds a card of
its own; `Edit` changes, adds or removes a file at any time. `quiet` (nobody touched the sources
during the build) and `seen` (the texts that spoke for the card) are history.

**ContextBundle.** `Load` is the loader with its verdict, `ExpandCode` and `ExpandRawCode` are
the two entries of the expander with their refusals, failures and successes, over every policy
and every estimate of size. `added` are the entries the expander appended, `granted` (history)
what the loader had decided.

**MetricAnalysis.** An analysis is a job that reads the marts in separate steps while
`CommitMart` writes them; `complete` are the days with all marts materialized. `CauseClass`
is the verdict on whose signal an anomaly is, and `ReferenceWindow` the baseline window its
drivers are compared with.

**Recovery.** A run has a status, a step, its tries, and the failure tag its attempts
overwrite. `StartEvaluation`, `ReadMarts`, `Decide` and `ExecuteRequest` are one
evaluation of the sensor, with every other actor free to move in between;
`DaemonCrashes` and the second branch of `ExecuteRequest` are a daemon that dies before
or after the launch. `decide_recovery` keeps the order of the checks of the code.
`cause`, `evidence` and `basis` are history.

**IncidentApproval** adds to every step of `Recovery` those of the agent: an inspection
reads marts, then runs, partition by partition; the plan gives each partition an action
and an authority; a case binds a fingerprint of the evidence; a decision, an expiry and a
final check follow at any time. `incident[p].true` and `granted` are history: what was
really the case when the runs were read.

**Promotion** follows a setting from the lab's summaries and the staging evidence through
review, decision, record and package. A decision carries a date of the human's choice, which the
programs compare with those of review and record; a calibration carries its method. Every program is split at each of its reads, because
`Edit`, `Tick` and a new review may come between two reads of the same file.

**ShopifyPipeline.** The shop, `landing`, `raw`, `versions`, `current`, `mart` and `items`
are the tables in the order of the data flow; `run` is each run's stage. Every table is
written by one commit of Iceberg, so every stage is one action; between two stages
anything may happen. The data are two kinds: "order" (orders, line items, discounts and
transactions, which carry their order's clock) and "refund" (refunds and their items,
fulfillments, their items and events, which carry a clock of their own).

**BehaviorStream.** `call` follows the last request for an event from the collector's
producer into Kafka; `job` holds the positions, the deduplication state, the windows and
the output of the Flink job, `saved` the same at the last completed checkpoint. A failure
puts `job` back to `saved` and lets the watermarks start anew.

**ServingExport.** `csv` is the one file per day, `job` the export process, `spark` the
Spark job of each attempt: it outlives a client that timed out. Every read of the file is
a step of its own.

The components meet in few places. The handler of `SharedTraffic` writes its audit record
through the sink before it answers, and both treat the other as a call that returns or
raises; that is why they are separate modules. The steps of `Recovery` are the stages of
`ShopifyPipeline`: the first says when a run is started again, the second what it does to
the tables, and it allows *every* start, failure and retry that the first one may cause.
`IncidentApproval` reads the state of `Recovery` and is composed with it. Where parts share
no state, a run checks them side by side: `focus` says which part moves, the others stay in
one initial state, so that the run is the sum of the parts and not their product.

## 3. The runs

| Run | What it asks | Bounds, and why they do |
|---|---|---|
| `audit` | Do acknowledged records survive (`AckedSurvives`), do batches partition the generations, does every waiter have a leader, does no one sync a closed descriptor? Does the sink implement `DurableLog`? Does every call return (`CallsReturn`)? | 3 threads (a leader, one in its batch, one behind it), 3 records, 1 restart; every fault anywhere, the death of the creating process and a failing sync of its directory included |
| `traffic_capacity` | Do no more workers run than there are slots, do rates hold, does a timed-out worker keep its slot, does a released lease stay released? | 3 requests, two of one tenant, one slot per tenant and two in all; a lease of 3 units with a heartbeat of 1; failing admissions, crashes. Calls take no time here (`OpTimeout = 0`); calls of any length up to `CallsAreShort` are the theorems' (section 6) |
| `traffic_recovery` | Does every slot come back, does every request end, is an answer only given under a lease? | 2 requests, 1 slot; every fault |
| `recovery` | Do replays run one at a time, on evidence? Is a partition that stays recoverable replayed, though an older one is not? | 2 partitions in the horizon, 2 replays, 1 step retry, 2 marts, 2 mishaps, each of which may be a failure, a crash, a cancellation, an outage, a missed tick or a run by hand. The budget is checked in `operations`: with a step retry, every failure that may be replayed costs two mishaps, and a budget of 2 would never be used up here |
| `recovery_unknown` | Is a failure nobody classified never replayed? **No** (see 4) | 1 partition, 2 mishaps |
| `ingestion` | Orders: does no table regress, is a finished day current, do refund items agree with their order, does a run load its own extract, unless another one used the file before it read it? Events: is what was accepted recoverable, does each view count once, is nothing late without a reason? | Orders: 1 order, 2 contents (A, B, A), 2 days of 2 ticks with a lookback of 1, 2 runs of any partition at any time, also of one at once, 3 changes. Events: two of one window and one that makes them late, 2 partitions, 3 requests, 1 mishap |
| `shopify_refunds` | Does every refund reach the marts? **No** (see 4) | 3 changes |
| `serving_context` | Serving: is an undisturbed publication the whole result of its own query? Does the asset publish complete days only? Context: do all instances of a process share a snapshot? Is a card that was built undisturbed used only while it is current? Is every piece of code in a bundle allowed by the plan, the loader and the card before it? | 2 jobs, 2 days, 1 retry with an orphaned Spark job, every fault; 2 threads, 2 instances, 2 files, 2 edits, 1 clear; 2 models, 3 texts of which one makes a card too large, 1 edit; 2 models, 2 steps, all shapes of policy, sizes on both sides of the limits 5 and 8 |
| `serving_rerun` | Can a past day be exported again? **No** (see 4) | 2 days with sales, no fault |
| `operations` | Do replays keep to their budget? Is an approved action granted only where it is warranted? Does a package rest on a live approval, given between review and package, of evidence of one build and one method, and propose the approved change of the file the human saw? | Incident and recovery: 1 day, a budget of 1 and no step retry, so that 2 mishaps are the failure of a run and that of its replay; 5 requests, 1 bundle, each case decided once. Promotion: 2 builds, 2 methods, 2 windows, 2 maxima, 2 runs, 2 edits, 2 reviews, 1 decision of any date, a clock of 2 |
| `incident_unowned` | Is a delegated replay one the sensor will look at? **No** (see 4) | 2 days, a horizon of 1 |
| `agent` | Analysis: no drivers of incomplete days, contributions add up. Turn: only errors are retried, an outcome is backed. Session: history explains the query. Local guard: limits hold, waiting suffices. Tokens: retired keys lapse, a genuine token is refused for cause. | 4 days, 3 periods, windows of at most 2, 2 commits; a skill with every kind of step and 2 retries; 3 turns, 2 metrics, 2 filters; 2 tenants, 2 subjects, rates of 2 per subject and 3 per tenant, 2 slots per tenant and 3 in all, 3 tracked identities, 4 leases, so that each of the limits refuses somebody the others let in (the first comer is given a name, `FirstComer`: tenants and subjects are alike); 2 threads, 2 kids of which one rotates (2 generations) and one only comes and goes (`SteadyKid`), so that a set may lack a kid and may be empty |

Orders of the pipeline never meet in one row, so one is enough; two contents give the
return to an earlier version, which is what `record_hash` makes delicate; two days are the
least in which an order leaves one window for another. In `traffic_capacity` two requests
compete for a tenant's slot while a third competes for the global one. Two events of a
window can be duplicates in time and the third moves the watermark past them; the actions
constraint `ClientsFirst` lets the clients finish first (the collector reads nothing of the
job, so the job finds in Kafka what it would have found later), and `UsefulSteps` leaves
out checkpoints nobody starts from and expiries nobody notices. Runs without liveness use
the symmetry of interchangeable runs, builds, jobs or requests, which no property tells
apart. `CHECK_DEADLOCK FALSE` stands where the program really comes to rest: a process
after its exit hook, requests that have all been handled once, days that are over.

Type correctness, and `ExpansionIsBounded` and `RefusedStaysRefused` of the bundle, are proved
for all values (section 6) and are checked by no run.

Every property of a passing run has a mutant in `PROJECT.json`: the operator of the code
is exchanged for one with a plausible slip (they are the definitions marked "slip"), and
the property is violated.

## 4. What the runs found

1. **An unknown failure may be replayed** (`recovery_unknown`). The class is a tag of the
   run. When a transient attempt is retried and the retry fails in the source API, which
   nobody classifies, the stale tag stays and the sensor takes the run for safe.
   `ReplayHasEvidence` states what does hold: some attempt of the run was transient. This
   needs the production source mode, where the raw step calls the API.
2. **A refund may never reach the marts** (`shopify_refunds`). Orders are read by the
   order's `updatedAt`, refunds and fulfillments are taken into the Current State by their
   own clock. A refund of day 1 whose order is touched on day 2 before day 1 is read is
   outside of day 1's extract and outside of day 2's dbt window (but for the lookback).
   `DoneIsCurrent` states what does hold: a refund whose clock lies in the window of the
   order's day arrives.
3. **A past day cannot be exported again** (`serving_rerun`). The exporter passes the next
   day as MetricFlow's end, which is inclusive; as soon as the next day has sales, the
   check of the business date refuses the file. The README of `serving/` promises the rerun.
4. **A replay is delegated to nobody** (`incident_unowned`). The planner delegates every
   partition whose last run failed transiently to the recovery sensor, also one that is
   older than the sensor's horizon and that it never looks at.

The doc string of `shopify_dbt_window_vars` (`partitions.py`) says that dbt gets the
logical window; the code, and `docs/DAGSTER_PHASE3C_AUTOMATION.md`, give it the effective
one. The model follows the code.

## 5. Fairness

* `AuditSink.FairSpec` (`CallsReturn`): weak fairness of every thread's steps and of
  `close()`. The operating system schedules threads and `fdatasync` returns or fails. No
  fairness for appends, faults, the start of `close()` or restarts: they need not happen.
* `SharedTraffic.FairSpec` (`CapacityIsRecovered`, `RequestsEnd`): weak fairness of time,
  of the event loop's steps for a request, of its heartbeat, of Redis and of the worker
  thread's end. A call that is awaited has a timeout, and so ends. Nothing forces a fault
  or a client.
* `Recovery.FairSpec` (`RecoverableIsReplayed`): weak fairness of the sensor's evaluation
  and of the runs' steps. The daemon evaluates the sensor at an interval, runs are
  executed. No fairness for the clock or for operators; a partition that stops being
  recoverable owes nothing.
* The other modules have no liveness property and no fairness.

## 6. What is proved

Every theorem holds for all values of the constants that meet the module's assumption
(sets of any size, bounds of any height); what is assumed besides is named in the table.

| Theorem | States | Assumes besides |
|---|---|---|
| `AuditSinkProofs!TypeCorrect`, `SinkInvariant` | `Spec => []TypeOK`, `[]SinkInv` | |
| `AckedRecordsAreOnDisk` | `Spec => []AckedIsOnDisk` | |
| `BatchesPartition` | `Spec => []BatchesPartitionGenerations` | |
| `ReceiptsAreThere` | `Spec => []NoReceiptIsMissing` | |
| `NoLostWakeup`, `SyncsUseAnOpenFd` | `Spec => []SleepersHaveALeader`, `[]SyncUsesOpenFd` | |
| `AckedRecordsSurvive` | `Spec => []AckedSurvives` | |
| `SinkImplementsLog` | `Spec => ImplementsLog`, the refinement of `DurableLog` | |
| `SharedTrafficProofs!TrafficTypeCorrect`, `TrafficInvariant` | `Spec => []TypeOK`, the invariant of Redis, handler and network | |
| `LeasesStayWithinCapacity`, `ReleasedSlotsStayReleased` | `Spec => []LeasesWithinCapacity`, `[]ReleasedStaysReleased` | |
| `AnswersAreUnderLease` | `Spec => []AnswerOnlyUnderLease` | `CallsAreShort` |
| `RequestsStayWithinLimits`, `TimedOutWorkersKeepTheirSlots` | `Spec => []WithinLimits`, `[]TimedOutWorkerKeepsSlot` | `CallsAreShort`, no failing renewals |
| `RecoveryProofs!RecoveryInvariant` | types, `SensorInv`, `ReplayInv` | |
| `ReplaysStayWithinBudget`, `ReplaysDoNotOverlap`, `ReplaysHaveEvidence` | `Spec => []ReplaysWithinBudget`, `[]OneReplayAtATime`, `[]ReplayHasEvidence` | |
| `IngestionProofs!PipelineTypeCorrect`, `PipelineNeverRegresses` | `Spec => []TypeOK`, `NeverRegresses` | |
| `RunsLoadTheirOwnExtract`, `PipelineInvariant`, `DoneRunsDeliver`, `RefundItemsFollowOrders` | `Spec => []LoadsOwnExtract`, `[]Delivery`, `[]DoneIsCurrent`, `[]RefundItemsAgree` | |
| `IngestionProofs!StreamTypeCorrect`, `StreamInvariant` | types, `StreamInv` | |
| `AcceptedEventsAreRecoverable`, `ProductViewsAddUp`, `LateEventsHaveAReason` | `StreamSpec => []AcceptedIsRecoverable`, `[]ViewsAddUp`, `[]LateForAReason` | |
| `ServingExportProofs!ServingTypeCorrect`, `ServingInvariant` | types, `ServingInv` | |
| `PublishedResultsAreOwn`, `OnlyCompleteDays` | `Spec => []PublishedIsOwnResult`, `[]CompleteDaysOnly` | |
| `OperationsProofs!OperationsTypeCorrect` | `OperationsSpec => []AllTypesOK` | |
| `OperationsAreApart` | `OperationsSpec => IncidentSpec /\ PromotionSpec` | |
| `IncidentTypeCorrect`, `IncidentInvariant` | types, `IncidentInv` | |
| `IncidentsLeaveRecoveryAlone` | `IncidentSpec => Spec` of `Recovery` | |
| `ApprovedActionsAreWarranted` | `IncidentSpec => []GrantsAreTrue` | |
| `PromotionTypeCorrect`, `PromotionInvariant` | types, `PromotionInv` | |
| `PackagesAreAuthorized` | `PromotionSpec => []PackageIsAuthorized` | |
| `MisledInvariant`, `ProposalsAreOfTheirBase` | `MisledInv`, `PromotionSpec => [](edits < 4 => ProposalIsOfItsBase)` | fewer than 4 edits by others, as stated |
| `AgentProofs!AgentTypeCorrect` | `AgentSpec => []AllTypesOK` | |
| `AgentPartsAreApart` | `AgentSpec` implies the specification of each of the five parts | |
| `AnalysisTypeCorrect`, `AnalysisInvariant` | types, `AnalysisInv` | |
| `DriversComeFromCompleteDays` | `Spec => []NoDriversOfIncompleteDays` | |
| `VerificationTypeCorrect`, `VerificationInvariant` | types, `VerificationInv` | |
| `RetiredKeysAreForgotten`, `GenuineTokensAreAccepted` | `VerificationSpec => []RetiredKeysLapse`, `[]GenuineIsRefusedForCause` | |
| `AdmissionTypeCorrect`, `AdmissionInvariant` | types, `AdmissionInv` | |
| `NoLimitIsExceeded`, `WaitingSuffices` | `AdmissionSpec => []LimitsHold`, `[]RetryAfterSuffices` | |
| `TurnTypeCorrect`, `TurnInvariant` | types, `TurnInv` | |
| `OutcomesAreBacked` | `TurnSpec => []AnalysisOutcomeIsBacked` | |
| `OnlyErrorsRunAgain` | `TurnSpec => []OnlyErrorsAreRetried` | `Transparent` |
| `SessionTypeCorrect`, `SessionInvariant` | types, `SessionInv` | |
| `SessionsAreExplained` | `SessionSpec => []HistoryExplainsTheQuery` | |
| `ContextProofs!ContextTypeCorrect` | `ContextSpec => []ContextTypeOK` | |
| `ContextPartsAreApart` | `ContextSpec` implies the specification of each of the three parts | |
| `CacheInvariant`, `SnapshotsShared` | `CacheInv`, `CacheSpec => []SnapshotsAreShared` | |
| `CodeInvariant`, `QuietCardsStayCurrent` | `CodeInv`, `CodeSpec => []QuietCardsAreCurrent` | |
| `BundleInvariant`, `ExpansionsAreBounded` | `BundleInv`, `BundleSpec => []ExpansionIsBounded` (`MaxSteps` and the budget) | `InitialLimit <= ExpandedLimit` (`BundleAssumption`) |
| `CodeIsAlwaysEarned`, `BlockedStaysBlocked` | `BundleSpec => []CodeIsEarned`, `[]RefusedStaysRefused` | |

An invariant is seldom inductive as it stands. The strengthening is stated in the module it
is about or at the head of its proofs, in named parts, was checked by TLC before it was proved, and has one lemma per
part with one step per action.

**Audit sink.** That an acknowledged record is on disk depends on what the leader does
*between* its two locked sections, when others append, fail and close. `SinkInv` is the
conjunction of

* `LeaderInv`: there is at most one leader, and the flag is set while there is one;
* `CloseInv`: the descriptor is closed only when no leader can hold it;
* `RangeInv`: `durable_generation <= target <= write_generation`, and what a leader noted
  as durable is what is durable;
* `PagesInv`: a record up to the durable generation, or in the range of a leader whose sync
  succeeded, is on the device; every other one is dirty or on the device **unless the
  sink is failed or the leader's sync failed** - the step that makes a later, empty
  success harmless;
* `ReceiptInv`: receipts are of durable generations, and what was acknowledged is durable.

`BatchInv` adds that the receipts of a batch are exactly its range, `NameInv` that a file
with acknowledged records has a durable name, unless the process that created it ended before
it synced the name. The refinement (`LogStep`) maps `submitted` to all records ever
numbered, `durable` to what is on disk, `acked` to itself: an append is a `Submit`, a sync,
even a failed one, and a power loss are a `Persist`, a receipt is an `Ack`, and everything
else stutters.

**Shared traffic.** `RedisInv` says that the scripts keep the sets within their limits,
`HandlerInv` how a request's phase, worker, reply and heartbeat go together, `NetInv` which
commands can be under way in each phase (a renewal may outlive its release; an admission
cannot). These hold whatever fails. `LeaseInv` needs `CallsAreShort`
(`2 * OpTimeout + Heartbeat < Ttl`, met by the defaults): then a lease that nobody knows to
be lost is in force, with more time left than the next renewal takes. `HealthInv`: as long as
no renewal fails, no lease is known to be lost. Together a worker that runs has its lease
(`WorkersHaveLeases`), so the capacity of Redis is that of the pods.

**Recovery.** `SensorInv` types the evaluation under way. `RunsInv`: the replays of a
partition have different attempt numbers within the budget, at most one of them is active,
and a replay-safe tag stems from a classified failure. `RequestInv`: the request under way
is for one partition, within the budget, still has what it rests on, and a replay that is
active at that moment can only be the one it asks for: the run key then makes it harmless
(a daemon that died after the launch asks again).

**Pipeline.** *No regress* rests on two facts: `WinnerIsNotOlder`, a winner is chosen from a
pool that holds the row it replaces, and `MartBehindCurrent`, a mart is never ahead of the
Current State it is copied from. *Delivery* follows the invariant `Delivery`, because a
run's promise must survive all other runs that work between its steps:

* the past: `ShopIsPast`, `RunsArePast` and `NotAhead`, which says of everything extracted,
  landed, in Raw, merged, current or published that its clock is before the shop's clock,
  not after the order's, and that a row as new as the shop has the shop's content
  (`FeedIsPast`, `TablesArePast`);
* the promise: a run *owes* an order last updated on its day (`Owes`). After its extract it
  holds the order's observation, after its load Raw does (`FeedDelivers`, which needs
  `LandingIsOwn`: until another run uses its file, the file holds what the run extracted), after its merge, its Current State, its mart the table holds the shop's
  clock and content (`TablesDeliver`). A retry goes back to a stage whose promise is weaker;
* the stability: an update of an owed order is impossible without ending the debt
  (`NothingIsOwedYet`); what has been delivered stays (`VersionsGrow`, `CurrentGrows`,
  `MartGrows`, `DeliveredStays`).

Nothing is assumed of the order or the overlap of runs, of one partition or of several, of
failures or of retries.

**Stream.** `CoverInv`: an accepted event is in Kafka, and every event in Kafka before the
position is in one of the tables, of the job and of its checkpoint alike, so that a restart
loses nothing. `ViewsInv`: the count of a window that is not published yet, and the
published one after that, is the number of its views in the canonical table, but for windows
reopened after a failure and events whose deduplication state lapsed. `LateInv`: every
watermark goes back to an event that was read, so that a window that is closed was passed
by one.

**Serving export.** `IdleInv`: a job that has not started has no Spark job. `JobsInv`: while
an export has had the file to itself since it removed it, the file holds what its query
wrote; readiness that was found stays. `SparksInv`: the same for each Spark job, those
included that nobody waits for any more.

**Incident.** `EvidenceInv`: evidence names only runs that had ended, and a run never
becomes active again. `MartsInv`: a mart appears only while a run is active; so if later
evidence equals an older case's and no run is active, no run came to its end between the
reading of marts and the reading of runs, although that is no snapshot. `FoundInv` carries
this to cases and grants.

**Promotion.** `ProgramInv` and `DocumentsInv`: each program's private copy of a document
is what it validated when it read it, although the files are replaced under it; a package
is therefore authorized by the documents its generator read, not by those that lie there
when it ends. Type correctness (`PromotionTypeInv`) follows the window and the copies of the
policy file from document to document: a calibration selects one of the candidate windows or
none (`SelectedIs`: the best efficiency is itself on the plateau, since the ratio is at most
one), a review that is ready has such a window, and so has what is made of it, the file an
operator applies included.

That a proposal is of its base (`ProposalIsOfItsBase`) is a matter of counting. A program reads
the target again and again, and compares each reading with something: what it must find is, by
turns, the window that is to be changed and the bytes of the record, so a program that is misled
has seen the window go *away* and come back *there*, several times, or the same of the maximum.
An application of the package that lies there moves the window one way only and leaves the
maximum alone; every other move takes an edit by somebody else. `MisledInv` says, for every place
of a program, how many edits a misled one must have seen by then (`SeenAway`, `SeenThere`,
`SeenMaximum`); a record whose value and bytes were torn apart (`Torn`) takes one or two, a
package that follows from it, or one whose maximum was exchanged, four. So fewer than four edits
cannot break the property. The number is exact: with `MaxEdits = 4` TLC finds the violation. The
run's bound of two is therefore no coincidence of a small instance.

**Analysis.** `JobInv` and `HealthInv`: completeness only grows, a diagnosis queries only
after its verdict on health, so no query of a healthy window reads an incomplete day, and
only a diagnosis of a healthy window comes to the lenses. `ContributionInv`: the rows of an
additive metric are finite tables of numbers, and every lens has a query left to run or a
result, so the lens that is judged is the lens that was asked. A complete lens has been
reconciled with both aggregates, and `TotalOfChanges` says that the changes of the members then
add up to the change of the aggregates, members that appear in one window only included. The
sums are proved about without the library's induction theorems: a smallest set that breaks
a lemma leads to a smaller one (`SmallestSubset`, from the well-foundedness of `<`).

**Tokens.** `PublishedInv`: what is published is the newest generation of its key id.
`AgesInv`: the longer a key has not been published, the less is left of the request or of
the cache that holds it. `GenuineInv`: a key that stays published is in every set that a
thread's own request brings, and after a forced refresh in every later one; a cached set without
any key is no older than the time since the provider published none.

**Local guard.** `LimitsHold` is of the admissions themselves, but the code only looks at its
windows, which are pruned when they are touched, swept now and then and dropped when empty.
`WindowsInv` (`Remembers`) says that a window holds every admission of its identity that still
counts, and nobody else's. `RefusalInv` follows a rejection while nobody is admitted: among the
admissions of its identity is one that leaves by the retry time and without which there is
room; after a rejection for too many identities all have left by then, so the sweep drops all.

**Turn.** `RoundInv`: the units a round has still to come to are closed under dependents, so
what it has settled (`Settled`) is not disturbed by them; the first required unit in plan
order without a result therefore failed of its own, and the summary is of the attempts it
reports. `RetryInv`: no unit is blocked that has run, and what is still to run has failed or
waited. It needs `Transparent`: what depends on an *optional* unit depends on the required
units that one needs. The skill of the repository (`decline_analysis.yml`) is of that form, and
`SkillAssumption` has TLC check it of the run's. `Compile` also yields plans that are not: in a skill that
compares companions after optional metrics, the companion runs while the optional unit waits for
a failed target, completes, and is executed again with the retry of the target
(`executor.py:310`). `AnalysisOutcomeIsBacked` holds of such plans, too.

**Session.** `SessionInv` says that a held state is well formed whatever was garbled in it, and
`Explained` when it is accepted. A turn explains itself (`TurnIsExplained`): what `Said` makes of
the query before is the query after, which needs of each delta what it does to the *sets* of
metrics and filters (`OneMetricMore`, `FilteredIs`, `WithoutIs`), and the replay of a longer
history is the replay of the shorter one and the last turn (`ReplayedMore`). A garbled state is
accepted only if it is the old one (`GarbleKeeps`), because its checksum is over all that is
replayed. `Replayed` and `Without` are recursive functions over a sequence; that such a function
exists and what it returns is proved with a shortest prefix that breaks it (`SayingExists`,
`KeptIs`), from the well-foundedness of `<`.

**Governed context.** *Snapshot:* who builds holds the lock, nobody else does and nothing is
memoized meanwhile (`OneBuilder`); so a completed build is memoized until the next clear
(`BuildsAreCounted`), and everything a process answers from carries the number of the build it is
(`NumberedSnapshots`). *Cards:* who builds undisturbed has read what the files *still* hold
(`ReadsAreCurrent`), facts and fingerprints alike, so a quiet card's fingerprints are those of its
facts, and it stays so while it is published, replaced, truncated and loaded (`FaithfulCards`).
*Bundle:* an entry is a counted step (`StepsAreCounted`), and only a bundle that the loader let
through has one. That matters for excerpts: `expand_raw_code` does not look at the status, but a
bundle that was blocked has no card, and without the card of its model there is no excerpt.

**Compositions.** The parts that one run checks side by side share no state, and each step is of
one part (`OperationsAreApart`, `AgentPartsAreApart`, `ContextPartsAreApart`), so what is proved of a part holds of the
composition. `AllTypesOK` is the conjunction of what is proved of the parts.

*Only model-checked.* Liveness under fairness (`CallsReturn`, `CapacityIsRecovered`,
`RequestsEnd`, `RecoverableIsReplayed`): it needs ENABLED, which the prover does not
support. What `Compile` makes of a skill, which is a RECURSIVE operator. Every other property of
a passing run is stated by a theorem.

## 7. Known limits and abstractions

Properties that hold in a run, or are proved, but not beyond their stated assumptions:

* *Audit sink.* Only the process that creates the file syncs its directory
  (`writer.py:165-171`). If it dies or fails before that, the next process finds the file and
  acknowledges records under a name that is not durable; one power loss may take all of them.
  `AckedSurvives` says that this is the *only* way to lose an acknowledged record
  (`lost_with_name`), and `AckedIsOnDisk` that even then their bytes had been synced. A torn line of a poisoned sink swallows the first record of the
  next process (`writer.py:252`): it is on disk and cannot be read as a line. `close()` may
  poll for ever after a leader raised out of its coalesce window (`writer.py:383`), which
  keeps the role of the leader; `CallsReturn` exempts the failed sink.
* *Shared traffic.* `WithinLimits` fails if a call may take as long as a heartbeat
  (`OpTimeout = Heartbeat = 1, Ttl = 3`): the check `2 * heartbeat < ttl` of the constructor
  leaves no room for the calls themselves (`redis_traffic.py:589`); what is safe is
  `CallsAreShort`. With the defaults (20 s, 1 s, 90 s) it holds. When renewals fail, a
  worker runs on beyond its slot; its answer is withheld.
* *Pipeline.* The landing file `orders-<partition>.jsonl` is one per partition, and it is
  truncated and filled by whoever runs (`assets/lakehouse.py:99`), although the comment above it
  (`:95`) takes it for the run's own. A run whose file another run of its partition used before it
  was read (`disturbed`) may load that one's extract or a part of it, end well, and leave its day
  incomplete. `LoadsOwnExtract`, `DoneIsCurrent` and `Delivery` are about the other runs, whatever
  the disturbed ones load. The sensor does not start overlapping runs (`OneReplayAtATime`), an
  operator can.
* *Serving export.* Two exports of one day that overlap, or an orphan beside a retry, may
  publish a part of a result, since the file is counted and read again
  (`materialize_export.py:50-54`); `PublishedIsOwnResult` is about undisturbed publications
  and about what repairs disturbed ones. A result that the row limit of 10000 cuts off is
  not detected.
* *Stream.* After a failure the watermarks restart, so that a straggler reopens a window
  that was cleaned, and its UPSERT replaces the published count by a smaller one
  (`reopened`), although `job.py:56-59` takes a restart for invisible. An event whose
  deduplication state expired counts twice (`lapsed`). One client clock far ahead makes the
  events of others late.
* *Approval.* Two holders of a pending case can approve and reject it; an approval is not
  used up while the evidence stays the same. Seven partitions with three human steps each
  exceed the limit of 20 actions of one bundle.
* *Promotion.* The build and window of a staging run are copied from the operator's
  manifest, nobody compares the reviewed commit with the head, a file that is changed back
  makes an old approval valid again, the package's validator does not look at the approval's
  expiry, and one approval may yield several packages. Four edits of the target between the
  reads of one program, back and forth, make a proposal of another base than the record's
  (`ProposalsAreOfTheirBase`).
* *Tokens.* The client of the key set caches an answer before it looks at it. After an empty
  answer every token is refused from the cache, without a request, until the lifespan ends, also
  when the keys are published again at once, although the doc string of the class
  (`jwt.py:56`) promises a refresh for an unknown `kid`. `GenuineIsRefusedForCause` names the
  case (`bare`). `Timeout` bounds a request from its start to its answer; the timeout of `urlopen`
  bounds each operation of the socket, so a provider that trickles its answer can exceed
  `jwks_timeout_seconds`, and the bounds are then about the request's real length.
* *Analysis.* Health is that of the target window, not of its baselines; a breakdown's
  contribution reconciles the change, not the totals; a ranking of growth may list declines.
* *Governed context.* The builder takes a card's facts from one reading of a source and its
  fingerprint from a second (`builder.py:79`, `:170`). An edit between the two gives a card with
  facts of the old text and the fingerprint of the new one, which no comparison finds stale,
  although `contracts.py` and `repository.py` of `agent/code_context` promise that an old card is
  void at once; `QuietCardsAreCurrent` is about cards whose sources were left alone while they
  were built. A source that is absent when a card is built has no fingerprint, so nobody
  notices that it appears later. A card is compared once: what changes afterwards, or between two
  of its comparisons, is not seen. A card that the agent derives itself is not compared at all.
  The published file is emptied before it is written; an empty one is an error, but one that was
  cut off before its list of fingerprints would be accepted (`contracts.py:102` takes the list for
  empty). An instance that has bound a snapshot keeps it after a clear, so a process that clears
  may answer from two. `expand_raw_code` trusts the card alone, not the status. Refused and
  over-budget requests are no steps. That `InitialLimit <= ExpandedLimit` holds of the deployed
  policy (5000 and 8000, `context_loader_policy.yml`), the code does not check it; without it an
  expansion could not add anything, but the initial bundle would exceed the expanded limit.
* *Session.* The checksum has no key: it tells accidents, not intent. Two branches of one
  session share their revision numbers. A comparison is kept when a metric is added, and
  that metric's dimensions are not checked again.

Abstractions, by module. *AuditSink*: one sink per process (`writer.py:519` caches one per
path); the mode without `durable_sync` is left out; on power loss a record is on the device
or not, never in part. *SharedTraffic*: the tenant's and the global set of leases get the
same scores and are one; `PEXPIRE` of whole keys and a loss of Redis' own data are left out;
every request is handled once; a client that hangs up does not cancel its handler; the audit
record of the guard is not written. *LocalTraffic*: the policy's environment is its
constants. *TokenVerification*: claims are not looked at; a token is its key. *AgentTurn*:
words and texts; a step's last status stands for all its hits; the composer's limits are
folded into a refused answer; tools do not raise. *AnalysisSession*: resolution of words is
a choice; a year has the same length as the year before. *MetricAnalysis*: one metric,
tolerance 0.0001 as 0, a year ago as an earlier window, environment gates as a deferral;
duplicates and missing columns as a failed query. *Recovery*: a run is a sequence of steps;
the check of the budget takes the bound as a parameter (the deployed value is 1, the runs
also use 2); the freshness of marts is not modelled. *IncidentApproval*: the store of cases
is append-only and its hash chain is left out; environment gates are left open. *Promotion*:
schemas, hashes of texts and privacy checks; time passes and others edit only once there is
a review to approve. *ShopifyPipeline*: an extract is one atomic read, though pages are
fetched one by one; a MERGE is atomic, a conflicting commit is a failed step; two versions
of a key never have the same clock; deletions are not inferred by the code either; an
orphaned Spark job beside its own retry is not modelled. *SemanticCache*: a lookup that reads
files besides the snapshot (datasets, entities, lineage). *CodeContext*: a file is its text, what
is extracted from it is that text; a write is whole or has not happened; a file that disappears
between the test for it and its reading. *ContextBundle*: a card or an excerpt can be had, of some
size, or cannot, whatever limit of `raw_snippet` is the cause; the loader's further statuses
(`ERROR`) are never given; in this repository only tests call the expander. *BehaviorStream*: one item, one
source task per partition, a shuffle that keeps a key's order, a checkpoint that is one with
its Iceberg commit; a job that gives up after its restarts, savepoints and a start without
state are left out. *ServingExport*: the contract's text is not validated.

## 8. What is not modelled

`PROJECT.json` lists every component with a reason. In short: pure text and decimals
(semantic query and its dimensions, prompts, answers), reads without state (serving API, MCP
server, knowledge, audit reader), counters that decide nothing (observability and cost),
declarations that others evaluate (freshness, governance), offline tools (load tests,
evaluations, acceptance drills) and generated or external code. The definitions of the
models stand for 30 % of the repository's implementation lines; most of the rest is of these
kinds.

## 9. Plan

Done: all components whose state is worth a model; every safety property of the passing runs is
proved, `ProposalIsOfItsBase` with the exact number of edits it withstands.

Left to prove: nothing the prover reaches; liveness stays with TLC. Left to model: what
`PROJECT.json` calls "partly" - the mode of the sink without `durable_sync`, several sinks,
pagination and throttling of the extract, reads beside the snapshot.
