------------------------------ MODULE AuditSink ------------------------------
(***************************************************************************)
(* The process-wide durable audit sink of agent/audit/writer.py: threads   *)
(* append records under one lock, the first thread that needs a device     *)
(* sync becomes the leader, and one fdatasync acknowledges a whole batch.  *)
(*                                                                         *)
(* A record is numbered by its position in the life of the file; the       *)
(* sink's generation g is record  base + g.  The kernel keeps the file in  *)
(* a page cache: a record is `dirty' until a sync writes it, and a FAILED  *)
(* sync leaves an arbitrary part of the dirty pages unwritten and clean,   *)
(* so that a later sync would succeed without writing them.                *)
(***************************************************************************)
EXTENDS Integers, FiniteSets

CONSTANTS Threads,      \* request threads that write audit records
          MaxRecords,   \* bound: records appended in all process lives
          MaxRestarts,  \* bound: process restarts
          Faults        \* which environment faults may occur

FaultKinds == {"append_error", "append_partial", "sync_error",
               "parent_sync_error", "kill", "kill_in_init", "power_loss"}

ASSUME SinkAssumption ==
    /\ MaxRecords \in Nat
    /\ MaxRestarts \in Nat
    /\ Faults \subseteq FaultKinds

VARIABLES
    \* the file, as kernel and device see it
    cached,                  \* records readable through the page cache
    dirty,                   \* cached records a sync would still write
    disk,                    \* records on the device
    dir_entry,               \* the file's name: "none", "cached", "durable"
    torn,                    \* does the file end in an unterminated line?
    glued,                   \* records written straight after a torn line
    \* the sink object
    sink,                    \* "absent", "created" (inside __init__), "up"
    base,                    \* records of earlier process lives
    write_generation, durable_generation, sync_in_progress, failure, closed,
    sync_count,
    generation_event_types,  \* generations whose event type is remembered
    batch_receipts,          \* receipts not yet collected
    closer,                  \* close(): "none", "waiting", "closing_fd", "done"
    \* each thread's place in append() and _await_durable(), and its locals
    pc, generation, previous_durable, target_generation,
    \* history
    acked,                   \* records whose write() returned
    delivered,               \* receipts handed out in this process life
    restarts,
    name_abandoned,          \* did the file's creator end before syncing its name?
    lost_with_name           \* acknowledged records a power loss took with such a name

filevars   == <<cached, dirty, disk, dir_entry, torn, glued>>
genvars    == <<base, write_generation, durable_generation>>
statevars  == <<sync_in_progress, failure, closed, sync_count>>
batchvars  == <<generation_event_types, batch_receipts>>
threadvars == <<pc, generation, previous_durable, target_generation>>
histvars   == <<acked, delivered, restarts, name_abandoned, lost_with_name>>
vars == <<filevars, sink, genvars, statevars, batchvars, closer, threadvars, histvars>>

-----------------------------------------------------------------------------
(* Slip in Receipts: the size is off by one.                               *)
ReceiptsMiscounted(first, last, batch, types) ==
    {[gen |-> g, batch |-> batch, total |-> last - first,
      typed |-> Cardinality(types \intersect (first..last))] : g \in first..last}

(* A receipt names its generation, its batch, the size of the batch and    *)
(* how many of the batch's records were counted under their own type.      *)
Receipts(first, last, batch, types) ==
    {[gen |-> g, batch |-> batch, total |-> last + 1 - first,
      typed |-> Cardinality(types \intersect (first..last))] : g \in first..last}

(* The places of a sync leader, between claiming and giving up the role. *)
Leading == {"coalescing", "syncing", "synced", "sync_failed"}

(* Slips: nobody is notified; a poisoned sink still counts as available.   *)
NobodyNotified == pc
AvailableUntilClosed == ~closed

(* notify_all(): every waiter re-enters the loop of _await_durable. *)
Notified == [u \in Threads |-> IF pc[u] = "waiting" THEN "awaiting" ELSE pc[u]]

Available == ~failure /\ ~closed

Records(last) == (base + 1)..(base + last)

FdOpen == sink = "up" /\ closer # "done"

-----------------------------------------------------------------------------
Init ==
    /\ cached = {} /\ dirty = {} /\ disk = {}
    /\ dir_entry = "none" /\ torn = FALSE /\ glued = {}
    /\ sink = "absent" /\ base = 0
    /\ write_generation = 0 /\ durable_generation = 0
    /\ sync_in_progress = FALSE /\ failure = FALSE /\ closed = FALSE
    /\ sync_count = 0
    /\ generation_event_types = {} /\ batch_receipts = {}
    /\ closer = "none"
    /\ pc = [t \in Threads |-> "idle"]
    /\ generation = [t \in Threads |-> 0]
    /\ previous_durable = [t \in Threads |-> 0]
    /\ target_generation = [t \in Threads |-> 0]
    /\ acked = {} /\ delivered = {} /\ restarts = 0
    /\ name_abandoned = FALSE /\ lost_with_name = {}

(* __init__ opens the file; one that existed before needs no more. *)
OpenExisting ==
    /\ sink = "absent"
    /\ dir_entry # "none"
    /\ sink' = "up"
    /\ UNCHANGED <<filevars, genvars, statevars, batchvars, closer, threadvars, histvars>>

CreateFile ==
    /\ sink = "absent"
    /\ dir_entry = "none"
    /\ dir_entry' = "cached"
    /\ sink' = "created"
    /\ UNCHANGED <<cached, dirty, disk, torn, glued, genvars, statevars, batchvars,
                   closer, threadvars, histvars>>

(* A slip: the parent directory is never synced.                           *)
FsyncParentSkipped ==
    /\ sink = "created"
    /\ sink' = "up"
    /\ UNCHANGED <<filevars, genvars, statevars, batchvars, closer, threadvars, histvars>>

FsyncParent ==
    /\ sink = "created"
    /\ dir_entry' = "durable"
    /\ sink' = "up"
    /\ UNCHANGED <<cached, dirty, disk, torn, glued, genvars, statevars, batchvars,
                   closer, threadvars, histvars>>

(* The constructor raises, no sink is registered, a later write retries,   *)
(* finds the file there, and never syncs its name.                         *)
FsyncParentFails ==
    /\ "parent_sync_error" \in Faults
    /\ sink = "created"
    /\ sink' = "absent"
    /\ name_abandoned' = TRUE
    /\ UNCHANGED <<filevars, genvars, statevars, batchvars, closer, threadvars, acked,
                   delivered, restarts, lost_with_name>>

-----------------------------------------------------------------------------
(* append(): the write, the new generation and its type, under the lock.   *)
(* (A call that finds the sink failed or closed raises and changes nothing.)*)
Append(t) ==
    LET r == base + write_generation + 1 IN
    /\ sink = "up" /\ pc[t] = "idle"
    /\ Available
    /\ r <= MaxRecords
    /\ cached' = cached \union {r}
    /\ dirty' = dirty \union {r}
    /\ glued' = IF torn THEN glued \union {r} ELSE glued
    /\ torn' = FALSE
    /\ write_generation' = write_generation + 1
    /\ generation_event_types' = generation_event_types \union {write_generation + 1}
    /\ generation' = [generation EXCEPT ![t] = write_generation + 1]
    /\ pc' = [pc EXCEPT ![t] = "awaiting"]
    /\ UNCHANGED <<disk, dir_entry, sink, base, durable_generation, statevars,
                   batch_receipts, closer, previous_durable, target_generation, histvars>>

(* os.write raises, or writes a part of the line: the sink is poisoned.    *)
AppendFails(t) ==
    /\ sink = "up" /\ pc[t] = "idle"
    /\ Available
    /\ \/ "append_error" \in Faults /\ torn' = torn
       \/ "append_partial" \in Faults /\ torn' = TRUE
    /\ failure' = TRUE
    /\ pc' = Notified
    /\ UNCHANGED <<cached, dirty, disk, dir_entry, glued, sink, genvars, sync_in_progress,
                   closed, sync_count, batchvars, closer, generation, previous_durable,
                   target_generation, histvars>>

(* _await_durable, one pass of its loop under the lock; three outcomes.    *)
RaiseUnavailable(t) ==
    /\ pc[t] = "awaiting"
    /\ ~Available
    /\ pc' = [pc EXCEPT ![t] = "idle"]
    /\ UNCHANGED <<filevars, sink, genvars, statevars, batchvars, closer, generation,
                   previous_durable, target_generation, histvars>>

(* A durable generation collects its receipt; without one the sink fails.  *)
TakeReceipt(t) ==
    LET mine == {receipt \in batch_receipts : receipt.gen = generation[t]} IN
    /\ pc[t] = "awaiting"
    /\ Available
    /\ durable_generation >= generation[t]
    /\ batch_receipts' = batch_receipts \ mine
    /\ delivered' = delivered \union mine
    /\ acked' = IF mine = {} THEN acked ELSE acked \union {base + generation[t]}
    /\ failure' = (mine = {})
    /\ pc' = [(IF mine = {} THEN Notified ELSE pc) EXCEPT ![t] = "idle"]
    /\ UNCHANGED <<filevars, sink, genvars, sync_in_progress, closed, sync_count,
                   generation_event_types, closer, generation, previous_durable,
                   target_generation, restarts, name_abandoned, lost_with_name>>

BecomeLeaderOrWait(t) ==
    /\ pc[t] = "awaiting"
    /\ Available
    /\ durable_generation < generation[t]
    /\ sync_in_progress' = TRUE
    /\ pc' = [pc EXCEPT ![t] = IF sync_in_progress THEN "waiting" ELSE "coalescing"]
    /\ UNCHANGED <<filevars, sink, genvars, failure, closed, sync_count, batchvars, closer,
                   generation, previous_durable, target_generation, histvars>>

(* The coalesce window is over: the leader takes its snapshot, or raises - *)
(* and then it leaves _sync_in_progress set.                               *)
LeaderRaises(t) ==
    /\ pc[t] = "coalescing"
    /\ ~Available
    /\ pc' = [pc EXCEPT ![t] = "idle"]
    /\ UNCHANGED <<filevars, sink, genvars, statevars, batchvars, closer, generation,
                   previous_durable, target_generation, histvars>>

CaptureTarget(t) ==
    /\ pc[t] = "coalescing"
    /\ Available
    /\ previous_durable' = [previous_durable EXCEPT ![t] = durable_generation]
    /\ target_generation' = [target_generation EXCEPT ![t] = write_generation]
    /\ pc' = [pc EXCEPT ![t] = "syncing"]
    /\ UNCHANGED <<filevars, sink, genvars, statevars, batchvars, closer, generation, histvars>>

(* fdatasync(fd), outside the lock.                                        *)
SyncSucceeds(t) ==
    /\ pc[t] = "syncing"
    /\ disk' = disk \union dirty
    /\ dirty' = {}
    /\ pc' = [pc EXCEPT ![t] = "synced"]
    /\ UNCHANGED <<cached, dir_entry, torn, glued, sink, genvars, statevars, batchvars, closer,
                   generation, previous_durable, target_generation, histvars>>

SyncFails(t) ==
    /\ "sync_error" \in Faults
    /\ pc[t] = "syncing"
    /\ \E written \in SUBSET dirty : disk' = disk \union written
    /\ dirty' = {}
    /\ pc' = [pc EXCEPT ![t] = "sync_failed"]
    /\ UNCHANGED <<cached, dir_entry, torn, glued, sink, genvars, statevars, batchvars, closer,
                   generation, previous_durable, target_generation, histvars>>

(* The except branch: poison the sink, give up the role, wake everybody.   *)
PoisonSink(t) ==
    /\ pc[t] = "sync_failed"
    /\ failure' = TRUE
    /\ sync_in_progress' = FALSE
    /\ pc' = [Notified EXCEPT ![t] = "idle"]
    /\ UNCHANGED <<filevars, sink, genvars, closed, sync_count, batchvars, closer, generation,
                   previous_durable, target_generation, histvars>>

(* A slip: the leader never gives up its role.                             *)
PublishBatchKeepsRole(t) ==
    LET first == previous_durable[t] + 1
        last  == target_generation[t] IN
    /\ pc[t] = "synced"
    /\ sync_count' = sync_count + 1
    /\ batch_receipts' = batch_receipts \union
                         Receipts(first, last, sync_count + 1, generation_event_types)
    /\ generation_event_types' = generation_event_types \ (first..last)
    /\ durable_generation' = last
    /\ pc' = [Notified EXCEPT ![t] = "awaiting"]
    /\ UNCHANGED <<filevars, sink, base, write_generation, sync_in_progress, failure, closed,
                   closer, generation, previous_durable, target_generation, histvars>>

(* The second locked block: one receipt per generation of the batch.       *)
PublishBatch(t) ==
    LET first == previous_durable[t] + 1
        last  == target_generation[t] IN
    /\ pc[t] = "synced"
    /\ sync_count' = sync_count + 1
    /\ batch_receipts' = batch_receipts \union
                         Receipts(first, last, sync_count + 1, generation_event_types)
    /\ generation_event_types' = generation_event_types \ (first..last)
    /\ durable_generation' = IF last > durable_generation THEN last ELSE durable_generation
    /\ sync_in_progress' = FALSE
    /\ pc' = [Notified EXCEPT ![t] = "awaiting"]
    /\ UNCHANGED <<filevars, sink, base, write_generation, failure, closed, closer, generation,
                   previous_durable, target_generation, histvars>>

-----------------------------------------------------------------------------
(* close(), called once by the interpreter's exit hook.                    *)
CloseBegins ==
    /\ sink = "up" /\ closer = "none"
    /\ closer' = "waiting"
    /\ UNCHANGED <<filevars, sink, genvars, statevars, batchvars, threadvars, histvars>>

(* A slip: close() does not wait for the leader.                           *)
CloseMarksAtOnce ==
    /\ closer = "waiting"
    /\ closed' = TRUE
    /\ closer' = "closing_fd"
    /\ pc' = Notified
    /\ UNCHANGED <<filevars, sink, genvars, sync_in_progress, failure, sync_count, batchvars,
                   generation, previous_durable, target_generation, histvars>>

CloseMarks ==
    /\ closer = "waiting"
    /\ ~sync_in_progress
    /\ closed' = TRUE
    /\ closer' = "closing_fd"
    /\ pc' = Notified
    /\ UNCHANGED <<filevars, sink, genvars, sync_in_progress, failure, sync_count, batchvars,
                   generation, previous_durable, target_generation, histvars>>

CloseFd ==
    /\ closer = "closing_fd"
    /\ closer' = "done"
    /\ UNCHANGED <<filevars, sink, genvars, statevars, batchvars, threadvars, histvars>>

-----------------------------------------------------------------------------
(* Bound: a process killed in its constructor is not counted, for that     *)
(* cannot happen again before a power loss.                                *)
CountRestart ==
    /\ restarts < MaxRestarts
    /\ restarts' = restarts + 1

(* A new process: a new sink object on what is left of the file.           *)
NewProcess ==
    /\ sink' = "absent"
    /\ base' = base + write_generation
    /\ write_generation' = 0 /\ durable_generation' = 0
    /\ sync_in_progress' = FALSE /\ failure' = FALSE /\ closed' = FALSE
    /\ sync_count' = 0
    /\ generation_event_types' = {} /\ batch_receipts' = {}
    /\ closer' = "none"
    /\ pc' = [t \in Threads |-> "idle"]
    /\ generation' = [t \in Threads |-> 0]
    /\ previous_durable' = [t \in Threads |-> 0]
    /\ target_generation' = [t \in Threads |-> 0]
    /\ delivered' = {}
    /\ UNCHANGED acked

(* The process ends, after its exit hook or killed: the cache survives.    *)
ProcessEnds ==
    /\ \/ closer = "done" /\ CountRestart
       \/ "kill" \in Faults /\ sink = "up" /\ CountRestart
       \/ "kill_in_init" \in Faults /\ sink = "created" /\ UNCHANGED restarts
    /\ NewProcess
    /\ name_abandoned' = (name_abandoned \/ sink = "created")
    /\ UNCHANGED <<filevars, lost_with_name>>

(* The machine goes down: only the device is left, of the dirty pages an   *)
(* arbitrary part, and of a file whose name was not synced all or nothing. *)
PowerLoss ==
    /\ "power_loss" \in Faults
    /\ CountRestart
    /\ NewProcess
    /\ \E written \in SUBSET dirty : disk' = disk \union written
    /\ dirty' = {}
    /\ \E kept \in BOOLEAN :
          /\ dir_entry = "durable" => kept
          /\ dir_entry = "none" => ~kept
          /\ dir_entry' = IF kept THEN "durable" ELSE "none"
          /\ cached' = IF kept THEN cached \intersect disk' ELSE {}
          /\ torn' \in {torn /\ kept, FALSE}
          /\ lost_with_name' = IF name_abandoned /\ ~kept THEN acked ELSE lost_with_name
    /\ glued' = glued \intersect cached'
    /\ name_abandoned' = FALSE

ThreadStep(t) ==
    \/ RaiseUnavailable(t) \/ TakeReceipt(t) \/ BecomeLeaderOrWait(t)
    \/ LeaderRaises(t) \/ CaptureTarget(t)
    \/ SyncSucceeds(t) \/ SyncFails(t) \/ PoisonSink(t) \/ PublishBatch(t)

CloseStep == CloseMarks \/ CloseFd

Next ==
    \/ OpenExisting \/ CreateFile \/ FsyncParent \/ FsyncParentFails
    \/ \E t \in Threads : Append(t) \/ AppendFails(t) \/ ThreadStep(t)
    \/ CloseBegins \/ CloseStep
    \/ ProcessEnds \/ PowerLoss

Spec == Init /\ [][Next]_vars

(* Threads are scheduled, and every sync and every lock holder returns.    *)
FairSpec == Spec /\ (\A t \in Threads : WF_vars(ThreadStep(t))) /\ WF_vars(CloseStep)

-----------------------------------------------------------------------------
FileTypeOK ==
    /\ cached \subseteq Nat /\ dirty \subseteq Nat /\ disk \subseteq Nat
    /\ glued \subseteq Nat
    /\ dir_entry \in {"none", "cached", "durable"}

FlagTypeOK ==
    /\ torn \in BOOLEAN /\ sync_in_progress \in BOOLEAN
    /\ failure \in BOOLEAN /\ closed \in BOOLEAN

SinkTypeOK ==
    /\ sink \in {"absent", "created", "up"}
    /\ base \in Nat /\ write_generation \in Nat /\ durable_generation \in Nat
    /\ sync_count \in Nat
    /\ closer \in {"none", "waiting", "closing_fd", "done"}

Receipt == [gen : Nat, batch : Nat, total : Nat, typed : Nat]

BatchTypeOK ==
    /\ generation_event_types \subseteq Nat
    /\ batch_receipts \subseteq Receipt /\ delivered \subseteq Receipt

ThreadTypeOK ==
    /\ pc \in [Threads -> {"idle", "awaiting", "waiting"} \union Leading]
    /\ generation \in [Threads -> Nat]
    /\ previous_durable \in [Threads -> Nat]
    /\ target_generation \in [Threads -> Nat]
    /\ acked \subseteq Nat /\ restarts \in Nat
    /\ name_abandoned \in BOOLEAN /\ lost_with_name \subseteq acked

(* Every variable of the file, the sink and the threads stays within the   *)
(* values its code gives it.                                               *)
TypeOK == FileTypeOK /\ FlagTypeOK /\ SinkTypeOK /\ BatchTypeOK /\ ThreadTypeOK

(* A record whose write() returned is on the device: not merely written,   *)
(* not covered by a sync that failed, not counted into a batch whose sync  *)
(* began before its append (writer.py:6-8).                                *)
AckedIsOnDisk == acked \subseteq disk

(* ... and it can still be read after every restart and power loss, but    *)
(* for one loss: only the creating process syncs the file's name           *)
(* (writer.py:165-171), so when that process dies or fails before it does, *)
(* a later one acknowledges records which the next power loss may take     *)
(* together with the name.                                                 *)
AckedSurvives == acked \ lost_with_name \subseteq cached

(* An acknowledged record is a line of the JSONL file of its own: its      *)
(* bytes do not continue the torn line an earlier partial write left.      *)
AckedIsALine == acked \intersect glued = {}

(* The batches partition the generations that became durable: no           *)
(* generation has two receipts, every receipt of a batch says how many     *)
(* generations the batch has, and each was counted under its own type.     *)
BatchesPartitionGenerations ==
    LET all == batch_receipts \union delivered IN
    /\ {r.gen : r \in all} = 1..durable_generation
    /\ \A r, s \in all : r.gen = s.gen => r = s
    /\ \A r \in all : /\ r.total = Cardinality({s \in all : s.batch = r.batch})
                      /\ r.typed = r.total

(* A thread whose generation is durable finds its receipt, unless it gives *)
(* up on a poisoned sink: the "missing durable batch receipt" branch of    *)
(* _await_durable is dead code.                                            *)
NoReceiptIsMissing ==
    \A t \in Threads :
        pc[t] \in {"awaiting", "waiting"} /\ generation[t] <= durable_generation
            => \E r \in batch_receipts : r.gen = generation[t]

(* No lost wakeup: while a thread sleeps in Condition.wait() some leader   *)
(* is still on its way to a notify_all().                                  *)
SleepersHaveALeader ==
    (\E t \in Threads : pc[t] = "waiting") => \E u \in Threads : pc[u] \in Leading

(* The descriptor a leader took out of the lock is open while it syncs.    *)
SyncUsesOpenFd == \A t \in Threads : pc[t] = "syncing" => FdOpen

(* Every call of append() returns or raises, whatever fails; and so does   *)
(* the exit hook on a healthy sink: close() waits only for a leader that   *)
(* is on its way.                                                          *)
CallsReturn ==
    /\ \A t \in Threads : pc[t] # "idle" ~> pc[t] = "idle"
    /\ closer = "waiting" ~> closer # "waiting" \/ failure

-----------------------------------------------------------------------------
(* The inductive invariant behind AckedIsOnDisk, SleepersHaveALeader,      *)
(* SyncUsesOpenFd and the refinement below, in parts.                      *)

(* At most one thread leads, and the flag says so.                         *)
LeaderInv ==
    /\ \A t \in Threads : pc[t] \in Leading => sync_in_progress
    /\ \A t, u \in Threads : pc[t] \in Leading /\ pc[u] \in Leading => t = u
    /\ Available /\ sync_in_progress => \E t \in Threads : pc[t] \in Leading
    /\ \A t \in Threads : pc[t] = "waiting" => Available /\ sync_in_progress

(* Threads work only on an open sink; close() waits for the leader.        *)
CloseInv ==
    /\ \A t \in Threads : pc[t] # "idle" => sink = "up"
    /\ closer \in {"closing_fd", "done"} => closed
    /\ closed => \A t \in Threads : pc[t] \notin Leading

(* Generations and targets lie within what was written.                    *)
RangeInv ==
    /\ base + write_generation <= MaxRecords
    /\ durable_generation <= write_generation
    /\ \A t \in Threads :
          /\ generation[t] <= write_generation
          /\ target_generation[t] <= write_generation
          /\ pc[t] # "idle" => generation[t] >= 1
          /\ pc[t] \in {"syncing", "synced"} => previous_durable[t] = durable_generation
    /\ disk \subseteq 1..(base + write_generation)
    /\ dirty \subseteq 1..(base + write_generation)

(* What a sync still has to write is dirty; only a failed sync drops pages,*)
(* and then no further sync can succeed.                                   *)
PagesInv ==
    /\ ~failure /\ (\A t \in Threads : pc[t] # "sync_failed")
          => Records(write_generation) \subseteq dirty \union disk
    /\ \A t \in Threads :
          /\ pc[t] = "syncing" => Records(target_generation[t]) \subseteq dirty \union disk
          /\ pc[t] = "synced" => Records(target_generation[t]) \subseteq disk
    /\ Records(durable_generation) \subseteq disk

(* Receipts exist for durable generations not yet acknowledged.            *)
ReceiptInv ==
    /\ \A r \in batch_receipts : r.gen <= durable_generation /\ base + r.gen \notin acked
    /\ \A a \in acked : a <= base + durable_generation
    /\ acked \subseteq disk

SinkInv == LeaderInv /\ CloseInv /\ RangeInv /\ PagesInv /\ ReceiptInv

-----------------------------------------------------------------------------
(* The sink keeps the promise of DurableLog: submitted records are those   *)
(* any process ever wrote, durable ones those on the device.               *)
Log == INSTANCE DurableLog WITH Record <- 1..MaxRecords,
                                submitted <- 1..(base + write_generation),
                                durable <- disk
ImplementsLog == Log!Spec
=============================================================================
