----------------------------- MODULE MCIngestion -----------------------------
(***************************************************************************)
(* The two ways data comes in, which share no state, checked in one run:   *)
(* TLC chooses at the start which of them moves.                           *)
(*   orders     ShopifyPipeline  batches of orders and refunds             *)
(*   behavior   BehaviorStream   collector, Kafka and the streaming job    *)
(***************************************************************************)
EXTENDS MCShopifyPipeline, BehaviorStream

VARIABLE focus     \* the part that moves

(* Two events of the first window, one of them perhaps blank, and one that *)
(* makes them late or too late; each of the two partitions, which are      *)
(* interchangeable, gets events.                                           *)
BehaviorInit ==
    /\ event["first"] = [time |-> 0, kind |-> "view"]
    /\ event["second"].time = 0
    /\ event["later"].time > 0 /\ event["later"].kind = "view"
    /\ home["first"] = 1 /\ \E e \in Events : home[e] = 2

(* The part that is idle starts in one fixed state.                        *)
IngestionInit ==
    /\ focus \in {"orders", "behavior"}
    /\ Init
    /\ StreamInit
    /\ focus = "behavior" => BehaviorInit
    /\ focus = "orders" =>
        /\ \A e \in Events : event[e].time = 0 /\ event[e].kind = "view"
        /\ \A e \in Events : home[e] = 1

IngestionNext ==
    \/ focus = "orders" /\ Next /\ UNCHANGED <<focus, streamVars>>
    \/ focus = "behavior" /\ StreamNext /\ UNCHANGED <<focus, vars>>

IngestionSpec == IngestionInit /\ [][IngestionNext]_<<focus, vars, streamVars>>

(* The clients are done before the job starts.  The collector reads        *)
(* nothing of the job, and the job finds in Kafka what it would have found *)
(* later: every state of the job, and of its last checkpoint, is reached.  *)
ClientsFirst ==
    \/ focus = "orders"
    \/ UNCHANGED <<job, saved, newest, channel, idle, watermark>>
       /\ job = EmptyJob /\ saved = EmptyJob /\ idle = {}
    \/ UNCHANGED <<requests, call, orphans, kafka>>
       /\ \A e \in Events : call[e] \notin {"buffered", "written"} /\ orphans[e] = 0

(* No checkpoint after the only failure: nobody would start from it.  And  *)
(* the state of an event only expires if the event is still to be read     *)
(* again: otherwise nobody would ask for it.                               *)
UsefulSteps ==
    focus = "behavior" =>
        /\ saved' = saved \/ mishaps = 0
        /\ \A e \in job'.lapsed \ job.lapsed : Unread(job, e)
=============================================================================
