--------------------------- MODULE BehaviorStream ---------------------------
(***************************************************************************)
(* The behaviour events: collector (ingestion/behavior/collector), Kafka,  *)
(* and the Flink job (ingestion/behavior/flink) that validates them, drops *)
(* repeated ones, counts product views per window and writes Iceberg.      *)
(*                                                                         *)
(* Kafka and Flink themselves are modelled as the job configures and uses  *)
(* them: a checkpoint saves the positions, the keyed state, the windows    *)
(* and the tables' commits together; watermarks are in no checkpoint.      *)
(* There is one item; times are in units of the model.                     *)
(***************************************************************************)
EXTENDS Integers, Sequences, FiniteSets

CONSTANTS
    Events,            \* event_id, as the SDK assigned them
    TopicPartitions,   \* of the topic, each read by a source of its own
    EventTimes,        \* the times the clients say
    WindowSize, AllowedLateness, OutOfOrderness,
    EventKinds,        \* of events: "view", "other" or "blank"
    MaxRequests,       \* how often clients send, in all
    MaxMishaps,        \* bound on crashes and expired states
    Faults             \* "collector_crash", "job_failure", "state_expiry"

ASSUME StreamAssumption ==
    /\ EventTimes \subseteq Nat /\ IsFiniteSet(Events)
    /\ WindowSize \in Nat \ {0} /\ AllowedLateness \in Nat /\ OutOfOrderness \in Nat
    /\ MaxRequests \in Nat /\ MaxMishaps \in Nat

VARIABLES
    event,             \* what the client says of each event
    home,              \* the partition of its key
    requests,          \* how many there were
    call,              \* the last one for an event, and where its message is
    orphans,           \* messages in the producer's buffer that nobody waits for
    kafka,             \* the partitions
    job,               \* positions, keyed state, windows and output of the job
    saved,             \* the same at the last completed checkpoint
    newest,            \* the newest time a source has seen
    channel,           \* the watermark each source has sent
    idle,              \* sources that are marked idle
    watermark,         \* of the window operator
    mishaps            \* history: bounds crashes and expiries

client == <<event, home>>
collector == <<requests, call, orphans>>
clocks == <<newest, channel, idle, watermark>>
streamVars == <<client, collector, kafka, job, saved, clocks, mishaps>>

-----------------------------------------------------------------------------
Windows == {t \div WindowSize : t \in EventTimes}
WindowOf(e) == event[e].time \div WindowSize
MaxTimestamp(w) == (w + 1) * WindowSize - 1
CleanupTime(w) == MaxTimestamp(w) + AllowedLateness

(* Slip: the events are taken to come in order.                            *)
EagerWatermarkOf(t) == t - 1

(* for_bounded_out_of_orderness, also when no event was seen (-1).         *)
WatermarkOf(t) == t - OutOfOrderness - 1
NoWatermark == WatermarkOf(-1)

LaterTime(a, b) == IF a >= b THEN a ELSE b

(* An event with a blank id passes the collector and not the job.          *)
Valid(e) == event[e].kind # "blank"

(* filter(product_view and item_id) *)
IsProductView(e) == event[e].kind = "view"

EmptyJob ==
    [pos |-> [p \in TopicPartitions |-> 0],
     seen |-> {}, lapsed |-> {},
     counts |-> [w \in Windows |-> 0], timers |-> {}, cleaned |-> {}, reopened |-> {},
     canonical |-> {}, invalid |-> {}, too_late |-> {}, views |-> [w \in Windows |-> 0]]

StreamInit ==
    /\ event \in [Events -> [time : EventTimes, kind : EventKinds]]
    /\ home \in [Events -> TopicPartitions]
    /\ requests = 0 /\ call = [e \in Events |-> "idle"]
    /\ orphans = [e \in Events |-> 0]
    /\ kafka = [p \in TopicPartitions |-> <<>>]
    /\ job = EmptyJob /\ saved = EmptyJob
    /\ newest = [p \in TopicPartitions |-> -1]
    /\ channel = [p \in TopicPartitions |-> NoWatermark]
    /\ idle = {} /\ watermark = NoWatermark
    /\ mishaps = 0

Mishap == mishaps < MaxMishaps /\ mishaps' = mishaps + 1

-----------------------------------------------------------------------------
(* A client sends an event, or sends it again after an error.  produce()   *)
(* only puts the message into the buffer of the process.                   *)
Send(e) ==
    /\ call[e] \in {"idle", "failed"} /\ requests < MaxRequests
    /\ call' = [call EXCEPT ![e] = "buffered"] /\ requests' = requests + 1
    /\ UNCHANGED <<client, orphans, kafka, job, saved, clocks, mishaps>>

Written(e) == kafka' = [kafka EXCEPT ![home[e]] = Append(@, e)]

(* The producer writes the message ...                                     *)
Deliver(e) ==
    /\ call[e] = "buffered"
    /\ call' = [call EXCEPT ![e] = "written"] /\ Written(e)
    /\ UNCHANGED <<client, requests, orphans, job, saved, clocks, mishaps>>

(* ... also when nobody waits for it any more.                             *)
DeliverOrphan(e) ==
    /\ orphans[e] > 0
    /\ orphans' = [orphans EXCEPT ![e] = @ - 1] /\ Written(e)
    /\ UNCHANGED <<client, requests, call, job, saved, clocks, mishaps>>

(* Slip: 202 as soon as the message is in the buffer.                      *)
AcceptAtOnce(e) ==
    /\ call[e] \in {"buffered", "written"}
    /\ call' = [call EXCEPT ![e] = "accepted"]
    /\ UNCHANGED <<client, requests, orphans, kafka, job, saved, clocks, mishaps>>

(* The callback of this very message reported no error: 202.               *)
Accept(e) ==
    /\ call[e] = "written"
    /\ call' = [call EXCEPT ![e] = "accepted"]
    /\ UNCHANGED <<client, requests, orphans, kafka, job, saved, clocks, mishaps>>

(* The callback reported an error, or nothing in time.  After a timeout    *)
(* the message is still in the buffer.                                     *)
PublishFails(e) ==
    /\ call[e] \in {"buffered", "written"}
    /\ call' = [call EXCEPT ![e] = "failed"]
    /\ \E left \in IF call[e] = "buffered" THEN {0, 1} ELSE {0} :
          orphans' = [orphans EXCEPT ![e] = @ + left]
    /\ UNCHANGED <<client, requests, kafka, job, saved, clocks, mishaps>>

(* The process dies with its buffer; whoever waits gets no reply.          *)
CollectorCrashes ==
    /\ "collector_crash" \in Faults
    /\ \E e \in Events : call[e] = "buffered" \/ orphans[e] > 0
    /\ orphans' = [e \in Events |-> 0]
    /\ call' = [e \in Events |-> IF call[e] \in {"buffered", "written"} THEN "failed" ELSE call[e]]
    /\ Mishap
    /\ UNCHANGED <<client, requests, kafka, job, saved, clocks>>

-----------------------------------------------------------------------------
(* Slip: what is late is dropped without a trace.                          *)
CountedOrDropped(j, e) ==
    LET w == WindowOf(e)
        n == j.counts[w] + 1 IN
    IF CleanupTime(w) <= watermark THEN j
    ELSE [j EXCEPT !.counts[w] = n,
                   !.reopened = @ \union ({w} \cap j.cleaned),
                   !.views[w] = IF MaxTimestamp(w) <= watermark THEN n ELSE @,
                   !.timers = IF MaxTimestamp(w) <= watermark THEN @ ELSE @ \union {w}]

(* The window operator: too late, or counted; a late event within the      *)
(* allowance publishes the new count at once, another one sets the timer.  *)
Counted(j, e) ==
    LET w == WindowOf(e)
        n == j.counts[w] + 1 IN
    IF CleanupTime(w) <= watermark THEN [j EXCEPT !.too_late = @ \union {e}]
    ELSE [j EXCEPT !.counts[w] = n,
                   !.reopened = @ \union ({w} \cap j.cleaned),
                   !.views[w] = IF MaxTimestamp(w) <= watermark THEN n ELSE @,
                   !.timers = IF MaxTimestamp(w) <= watermark THEN @ ELSE @ \union {w}]

(* DeduplicateByEventId, then the canonical row, then the window.          *)
Deduplicated(j, e) ==
    IF e \in j.seen THEN j
    ELSE LET first == [j EXCEPT !.seen = @ \union {e}, !.canonical = @ \union {e}] IN
         IF IsProductView(e) THEN Counted(first, e) ELSE first

(* The job reads the next message of a partition.                          *)
Process(p) ==
    /\ job.pos[p] < Len(kafka[p])
    /\ LET e    == kafka[p][job.pos[p] + 1]
           read == [job EXCEPT !.pos[p] = @ + 1] IN
       IF Valid(e)
       THEN /\ job' = Deduplicated(read, e)
            /\ newest' = [newest EXCEPT ![p] = LaterTime(@, event[e].time)]
       ELSE /\ job' = [read EXCEPT !.invalid = @ \union {e}]
            /\ newest' = newest
    /\ UNCHANGED <<client, collector, kafka, saved, channel, idle, watermark, mishaps>>

(* Event time goes on: due timers publish, and windows beyond their        *)
(* allowance are dropped.                                                  *)
Fired(j, now) ==
    LET due  == {w \in j.timers : MaxTimestamp(w) <= now}
        gone == {w \in Windows : j.counts[w] > 0 /\ CleanupTime(w) <= now} IN
    [j EXCEPT !.views = [w \in Windows |-> IF w \in due THEN j.counts[w] ELSE @[w]],
              !.timers = @ \ due,
              !.counts = [w \in Windows |-> IF w \in gone THEN 0 ELSE @[w]],
              !.cleaned = @ \union gone]

AdvanceTo(now) == watermark' = now /\ job' = Fired(job, now)

(* To the least watermark of the sources that are active and caught up.    *)
AdvanceToLeast(sent, asleep) ==
    LET aligned == {p \in TopicPartitions \ asleep : sent[p] >= watermark} IN
    IF aligned = {} THEN AdvanceTo(watermark)
    ELSE \E p \in aligned : (\A q \in aligned : sent[p] <= sent[q]) /\ AdvanceTo(sent[p])

AdvanceToNewest ==
    \E p \in TopicPartitions : /\ \A q \in TopicPartitions : channel[q] <= channel[p]
                              /\ AdvanceTo(channel[p])

(* A source sends its watermark, every so often; only a new watermark ends *)
(* its idleness.                                                           *)
EmitWatermark(p) ==
    /\ WatermarkOf(newest[p]) > channel[p]
    /\ channel' = [channel EXCEPT ![p] = WatermarkOf(newest[p])]
    /\ idle' = idle \ {p}
    /\ AdvanceToLeast(channel', idle')
    /\ UNCHANGED <<client, collector, kafka, saved, newest, mishaps>>

(* with_idleness: the others need not wait for a silent source.  When the  *)
(* last one falls silent, the newest watermark counts.                     *)
GoIdle(p) ==
    /\ p \notin idle
    /\ idle' = idle \union {p}
    /\ IF idle' # TopicPartitions THEN AdvanceToLeast(channel, idle')
       ELSE IF channel[p] = watermark THEN AdvanceToNewest
       ELSE AdvanceTo(watermark)
    /\ UNCHANGED <<client, collector, kafka, saved, newest, channel, mishaps>>

(* The state of the deduplication has a time to live.                      *)
StateExpires(e) ==
    /\ "state_expiry" \in Faults /\ e \in job.seen
    /\ job' = [job EXCEPT !.seen = @ \ {e}, !.lapsed = @ \union {e}]
    /\ Mishap
    /\ UNCHANGED <<client, collector, kafka, saved, clocks>>

(* A checkpoint completes, and the Iceberg sinks commit what came before.  *)
Checkpoint ==
    /\ saved # job
    /\ saved' = job
    /\ UNCHANGED <<client, collector, kafka, job, clocks, mishaps>>

(* The job fails and starts again from the last checkpoint; the watermarks *)
(* start anew.                                                             *)
JobFails ==
    /\ "job_failure" \in Faults
    /\ job' = saved
    /\ newest' = [p \in TopicPartitions |-> -1]
    /\ channel' = [p \in TopicPartitions |-> NoWatermark]
    /\ idle' = {} /\ watermark' = NoWatermark
    /\ Mishap
    /\ UNCHANGED <<client, collector, kafka, saved>>

StreamNext ==
    \/ \E e \in Events : \/ Send(e) \/ Deliver(e) \/ Accept(e) \/ PublishFails(e)
                         \/ DeliverOrphan(e) \/ StateExpires(e)
    \/ CollectorCrashes
    \/ \E p \in TopicPartitions : Process(p) \/ EmitWatermark(p) \/ GoIdle(p)
    \/ Checkpoint \/ JobFails

StreamSpec == StreamInit /\ [][StreamNext]_streamVars

-----------------------------------------------------------------------------
JobState ==
    [pos : [TopicPartitions -> Nat], seen : SUBSET Events, lapsed : SUBSET Events,
     counts : [Windows -> Nat], timers : SUBSET Windows, cleaned : SUBSET Windows,
     reopened : SUBSET Windows, canonical : SUBSET Events, invalid : SUBSET Events,
     too_late : SUBSET Events, views : [Windows -> Nat]]

StreamTypeOK ==
    /\ event \in [Events -> [time : EventTimes, kind : EventKinds]]
    /\ home \in [Events -> TopicPartitions]
    /\ requests \in 0..MaxRequests
    /\ call \in [Events -> {"idle", "buffered", "written", "accepted", "failed"}]
    /\ orphans \in [Events -> Nat] /\ kafka \in [TopicPartitions -> Seq(Events)]
    /\ job \in JobState /\ saved \in JobState
    /\ newest \in [TopicPartitions -> EventTimes \union {-1}]
    /\ channel \in [TopicPartitions -> Int] /\ idle \subseteq TopicPartitions /\ watermark \in Int
    /\ mishaps \in 0..MaxMishaps

Unread(j, e) == \E i \in (j.pos[home[e]] + 1)..Len(kafka[home[e]]) : kafka[home[e]][i] = e

(* An event whose sender got a 202 is in a table of the last checkpoint,   *)
(* or will be read by a job that starts from there: neither a crash of the *)
(* collector nor a failure of the job between any two steps loses it.      *)
AcceptedIsRecoverable ==
    \A e \in Events : call[e] = "accepted" =>
        \/ e \in saved.canonical \union saved.invalid
        \/ Unread(saved, e)

(* Each product view that is a canonical event counts once: in its open or *)
(* published window or as too late, whatever was sent twice, read again    *)
(* after a failure or came late; so too in each checkpoint and the tables. *)
(* Except for windows with an event whose deduplication state expired, and *)
(* for those that a straggler opened again after a failure had reset the   *)
(* watermark.                                                              *)
ViewsAddUp ==
    \A w \in Windows \ job.reopened :
        LET views == {e \in job.canonical : IsProductView(e) /\ WindowOf(e) = w} IN
        views \cap job.lapsed = {} =>
            (IF job.counts[w] > 0 THEN job.counts[w] ELSE job.views[w])
                = Cardinality(views \ job.too_late)

(* An event is only set aside as too late if one that is newer by the      *)
(* whole allowance has been read: no idle or restarted source makes an     *)
(* event late.                                                             *)
LateForAReason ==
    \A e \in job.too_late : \E d \in job.canonical :
        event[d].time >= MaxTimestamp(WindowOf(e)) + AllowedLateness + OutOfOrderness + 1
=============================================================================
