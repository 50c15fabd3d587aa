--------------------------- MODULE ShopifyPipeline ---------------------------
(***************************************************************************)
(* The data of one partition run: orders are read from Shopify by the day  *)
(* of their last update, land in a file, are appended to Raw, merged into  *)
(* the versions of the Structured Source and, window by window, into the   *)
(* Current State and the marts (ingestion/shopify, lakehouse/jobs, dbt).   *)
(*                                                                         *)
(* Runs of several partitions interleave, fail anywhere, retry a step and  *)
(* are replayed.  The model has two kinds of data.  "order" stands for     *)
(* whatever carries the clock of its order (orders, line items, discounts, *)
(* transactions), "refund" for whatever carries a clock of its own         *)
(* (refunds and their items, fulfillments, their items and events).        *)
(*                                                                         *)
(* Each table is written by one MERGE or append, a commit of Iceberg.      *)
(***************************************************************************)
EXTENDS Integers, FiniteSets, FiniteSetsExt

CONSTANTS Orders,       \* business keys
          Contents,     \* what record_hash tells apart
          Runs,         \* bound: the runs there may ever be
          DayLength,    \* ticks in a day
          Lookback,     \* SHOPIFY_SOURCE_LOOKBACK_MINUTES, in ticks
          Days,         \* bound: the partitions are 1..Days
          MaxUpdates    \* bound: changes made in the shop

ASSUME PipelineAssumption ==
    /\ DayLength \in Nat \ {0} /\ Lookback \in 0..DayLength
    /\ Days \in Nat /\ MaxUpdates \in Nat
    /\ "none" \notin Contents

Kinds == {"order", "refund"}
Partitions == 1..Days
LastTick == Days * DayLength + 1
Times == 0..LastTick                \* 0: never

Stages == {"idle", "extract", "fill", "load", "merge_order", "merge_refund",
           "order_current", "refund_current", "orders_mart", "refunds_mart",
           "refund_items_mart", "success", "failed"}

VARIABLES
    now,        \* the clock of the shop and of Dagster
    shop,       \* the orders: updatedAt, and content and clock of each kind
    updates,    \* bounded counter
    run,        \* of each run: its partition, its stage, what it extracted
    landing,    \* the landing file of each partition
    raw,        \* raw_shopify_order_payload: the observations
    versions,   \* Structured Source: last_source_updated_at of each version
    current,    \* the Current State tables: winning content and its clock
    mart,       \* orders, refunds
    items,      \* refund_items, with what it copies from its order
    loaded,     \* history: observations that a run read back from its file
    disturbed   \* history: runs whose file another run opened or wrote before they read it

vars == <<now, shop, updates, run, landing, raw, versions, current, mart, items, loaded, disturbed>>

-----------------------------------------------------------------------------
DayOf(t) == (t - 1) \div DayLength + 1
Start(p) == (p - 1) * DayLength + 1
End(p)   == p * DayLength + 1

(* The effective window: half-open, with the start moved back.  It is given*)
(* to the reader, to the merge and to dbt alike.                           *)
InWindow(t, p) == t # 0 /\ Start(p) - Lookback <= t /\ t < End(p)

(* What the API returns of an order, and what is kept of it.               *)
Observation(o) == [order |-> o, updated |-> shop[o].updated,
                   content |-> shop[o].content, clock |-> shop[o].clock]

Active(r) == run[r].at \notin {"idle", "success", "failed"}
Done(p) == \E r \in Runs \ disturbed : run[r].partition = p /\ run[r].at = "success"

Row(content, clock) == [content |-> content, clock |-> clock]
NoRow == Row("none", 0)

Later(a, b) == IF a >= b THEN a ELSE b

Init ==
    /\ now = 1
    /\ shop = [o \in Orders |-> [updated |-> 0, content |-> [k \in Kinds |-> "none"],
                                 clock |-> [k \in Kinds |-> 0]]]
    /\ updates = 0
    /\ run = [r \in Runs |-> [at |-> "idle", partition |-> 0, extracted |-> {}]]
    /\ landing = [p \in Partitions |-> {}]
    /\ raw = {}
    /\ versions = [k \in Kinds |-> [o \in Orders |-> [c \in Contents |-> 0]]]
    /\ current = [k \in Kinds |-> [o \in Orders |-> NoRow]]
    /\ mart = [k \in Kinds |-> [o \in Orders |-> NoRow]]
    /\ items = [o \in Orders |-> [content |-> "none", parent |-> "none"]]
    /\ loaded = [r \in Runs |-> {}] /\ disturbed = {}

-----------------------------------------------------------------------------
(* The shop: time passes; a customer or a clerk changes an order, or makes *)
(* or changes a refund, which counts as an update of the order too.        *)
Tick ==
    /\ now < LastTick
    /\ now' = now + 1
    /\ UNCHANGED <<shop, updates, run, landing, raw, versions, current, mart, items, loaded, disturbed>>

Update(o, k, c) ==
    /\ updates < MaxUpdates
    /\ k = "refund" => shop[o].content["order"] # "none"
    /\ shop[o].content[k] # c
    /\ updates' = updates + 1
    /\ shop' = [shop EXCEPT ![o].updated = now, ![o].content[k] = c,
                            ![o].clock = [j \in Kinds |->
                                 IF j \in {"order", k} THEN now ELSE @[j]]]
    /\ UNCHANGED <<now, run, landing, raw, versions, current, mart, items, loaded, disturbed>>

-----------------------------------------------------------------------------
(* A run of a partition whose day is over; others may be under way, for    *)
(* nothing keeps operators, schedule and sensor from launching several.    *)
StartRun(r, p) ==
    /\ run[r].at = "idle" /\ now >= End(p)
    /\ run' = [run EXCEPT ![r].at = "extract", ![r].partition = p]
    /\ UNCHANGED <<now, shop, updates, landing, raw, versions, current, mart, items, loaded, disturbed>>

RunFails(r) ==
    /\ Active(r)
    /\ run' = [run EXCEPT ![r].at = "failed"]
    /\ UNCHANGED <<now, shop, updates, landing, raw, versions, current, mart, items, loaded, disturbed>>

(* An attempt fails and the asset starts over: raw payload, structured     *)
(* source or dbt.                                                          *)
StepRetry(r) ==
    /\ \/ run[r].at \in {"fill", "load"}
          /\ run' = [run EXCEPT ![r].at = "extract"]
       \/ run[r].at = "merge_refund"
          /\ run' = [run EXCEPT ![r].at = "merge_order"]
       \/ run[r].at \in {"refund_current", "orders_mart", "refunds_mart", "refund_items_mart"}
          /\ run' = [run EXCEPT ![r].at = "order_current"]
    /\ UNCHANGED <<now, shop, updates, landing, raw, versions, current, mart, items, loaded, disturbed>>

-----------------------------------------------------------------------------
(* Runs that have the landing file of r's partition in use.                *)
Users(r) == {q \in Runs \ {r} : /\ run[q].partition = run[r].partition
                                /\ run[q].at \in {"fill", "load"}}

(* All pages of the window's orders, in memory; then the landing file of   *)
(* the partition is opened for writing, which empties it for every run.    *)
Extract(r) ==
    LET p == run[r].partition IN
    /\ run[r].at = "extract"
    /\ run' = [run EXCEPT ![r].at = "fill",
                          ![r].extracted = {Observation(o) : o \in
                              {x \in Orders : InWindow(shop[x].updated, p)}}]
    /\ landing' = [landing EXCEPT ![p] = {}]
    /\ disturbed' = (disturbed \ {r}) \union Users(r)
    /\ UNCHANGED <<now, shop, updates, raw, versions, current, mart, items, loaded>>

(* Slip: the extract of a partition that another run landed already is     *)
(* taken for this one's.                                                   *)
FillLandingOnce(r) ==
    /\ run[r].at = "fill"
    /\ landing' = [landing EXCEPT ![run[r].partition] =
                      IF Done(run[r].partition) THEN @ ELSE run[r].extracted]
    /\ run' = [run EXCEPT ![r].at = "load"]
    /\ disturbed' = disturbed \union Users(r)
    /\ UNCHANGED <<now, shop, updates, raw, versions, current, mart, items, loaded>>

(* Two runs that write the file together leave a mixture of whole lines of *)
(* both (a torn line makes the load fail).                                 *)
FillLanding(r) ==
    LET p == run[r].partition IN
    /\ run[r].at = "fill"
    /\ \E file \in IF r \in disturbed THEN SUBSET (landing[p] \union run[r].extracted)
                                      ELSE {run[r].extracted} :
          landing' = [landing EXCEPT ![p] = file]
    /\ run' = [run EXCEPT ![r].at = "load"]
    /\ disturbed' = disturbed \union Users(r)
    /\ UNCHANGED <<now, shop, updates, raw, versions, current, mart, items, loaded>>

(* The Spark job appends what the file holds.                              *)
LoadRaw(r) ==
    LET file == landing[run[r].partition] IN
    /\ run[r].at = "load"
    /\ raw' = raw \union file
    /\ loaded' = [loaded EXCEPT ![r] = file]
    /\ run' = [run EXCEPT ![r].at = "merge_order"]
    /\ UNCHANGED <<now, shop, updates, landing, versions, current, mart, items, disturbed>>

-----------------------------------------------------------------------------
(* Clocks at which Raw observed a version, in the window of the orders.    *)
Observed(k, o, c, p) ==
    {x.clock[k] : x \in {y \in raw : /\ y.order = o /\ y.content[k] = c
                                     /\ InWindow(y.updated, p)}}

(* Slip: a version that is observed again gets the clock of this batch.    *)
MergedOver(k, o, c, p) ==
    IF Observed(k, o, c, p) = {} THEN versions[k][o][c] ELSE Max(Observed(k, o, c, p))

(* merge_source_versions: the greatest clock of a version is kept.         *)
Merged(k, o, c, p) ==
    IF Observed(k, o, c, p) = {} THEN versions[k][o][c]
    ELSE Later(versions[k][o][c], Max(Observed(k, o, c, p)))

MergeVersions(r, k, at, next) ==
    /\ run[r].at = at
    /\ versions' = [versions EXCEPT ![k] = [o \in Orders |-> [c \in Contents |->
                        Merged(k, o, c, run[r].partition)]]]
    /\ run' = [run EXCEPT ![r].at = next]
    /\ UNCHANGED <<now, shop, updates, landing, raw, current, mart, items, loaded, disturbed>>

(* int_shopify__*_canonical: the versions in the window and the row that   *)
(* is there already compete, and the latest clock wins.  Two versions of a *)
(* key never share a clock here, so the secondary clocks are left out.     *)
Candidates(k, o, p) ==
    {Row(c, versions[k][o][c]) : c \in {d \in Contents : InWindow(versions[k][o][d], p)}}

Latest(rows) == CHOOSE x \in rows : \A y \in rows : y.clock <= x.clock

(* Slip: the row that is there already does not take part.                 *)
WinnerOfWindow(k, o, p) ==
    IF Candidates(k, o, p) = {} THEN current[k][o] ELSE Latest(Candidates(k, o, p))

Winner(k, o, p) ==
    IF Candidates(k, o, p) = {} THEN current[k][o]
    ELSE Latest(Candidates(k, o, p) \union {current[k][o]})

BuildCurrent(r, k, at, next) ==
    /\ run[r].at = at
    /\ current' = [current EXCEPT ![k] = [o \in Orders |-> Winner(k, o, run[r].partition)]]
    /\ run' = [run EXCEPT ![r].at = next]
    /\ UNCHANGED <<now, shop, updates, landing, raw, versions, mart, items, loaded, disturbed>>

(* orders.sql, refunds.sql: the current rows in the window.                *)
BuildMart(r, k, at, next) ==
    /\ run[r].at = at
    /\ mart' = [mart EXCEPT ![k] = [o \in Orders |->
                    IF InWindow(current[k][o].clock, run[r].partition) THEN current[k][o] ELSE @[o]]]
    /\ run' = [run EXCEPT ![r].at = next]
    /\ UNCHANGED <<now, shop, updates, landing, raw, versions, current, items, loaded, disturbed>>

(* Slip: only the item's own change makes its row affected.                *)
AffectedByItself(o, p) == InWindow(current["refund"][o].clock, p)

(* refund_items.sql: affected by its own change, its refund's or its       *)
(* order's, and joined with the whole current rows.                        *)
Affected(o, p) ==
    \/ InWindow(current["refund"][o].clock, p)
    \/ InWindow(mart["refund"][o].clock, p)
    \/ InWindow(mart["order"][o].clock, p)

BuildRefundItems(r) ==
    /\ run[r].at = "refund_items_mart"
    /\ items' = [o \in Orders |->
           IF /\ Affected(o, run[r].partition)
              /\ current["refund"][o] # NoRow /\ mart["refund"][o] # NoRow
              /\ mart["order"][o] # NoRow
           THEN [content |-> current["refund"][o].content, parent |-> mart["order"][o].content]
           ELSE items[o]]
    /\ run' = [run EXCEPT ![r].at = "success"]
    /\ UNCHANGED <<now, shop, updates, landing, raw, versions, current, mart, loaded, disturbed>>

RunStep(r) ==
    \/ Extract(r) \/ FillLanding(r) \/ LoadRaw(r)
    \/ MergeVersions(r, "order", "merge_order", "merge_refund")
    \/ MergeVersions(r, "refund", "merge_refund", "order_current")
    \/ BuildCurrent(r, "order", "order_current", "refund_current")
    \/ BuildCurrent(r, "refund", "refund_current", "orders_mart")
    \/ BuildMart(r, "order", "orders_mart", "refunds_mart")
    \/ BuildMart(r, "refund", "refunds_mart", "refund_items_mart")
    \/ BuildRefundItems(r)

Next ==
    \/ Tick
    \/ \E o \in Orders, k \in Kinds, c \in Contents : Update(o, k, c)
    \/ \E r \in Runs : \/ \E p \in Partitions : StartRun(r, p)
                       \/ RunStep(r) \/ StepRetry(r) \/ RunFails(r)

Spec == Init /\ [][Next]_vars

-----------------------------------------------------------------------------
Rows == {x \in [content : Contents \union {"none"}, clock : Times] :
            x.content = "none" <=> x.clock = 0}
Observations ==
    [order : Orders, updated : Times, content : [Kinds -> Contents \union {"none"}],
     clock : [Kinds -> Times]]

ShopTypeOK ==
    /\ now \in 1..LastTick /\ updates \in 0..MaxUpdates
    /\ shop \in [Orders -> [updated : Times, content : [Kinds -> Contents \union {"none"}],
                             clock : [Kinds -> Times]]]

FeedTypeOK ==
    /\ run \in [Runs -> [at : Stages, partition : {0} \union Partitions,
                          extracted : SUBSET Observations]]
    /\ \A r \in Runs : run[r].at # "idle" => run[r].partition \in Partitions
    /\ landing \in [Partitions -> SUBSET Observations]
    /\ raw \subseteq Observations /\ loaded \in [Runs -> SUBSET Observations]
    /\ disturbed \subseteq Runs

TableTypeOK ==
    /\ versions \in [Kinds -> [Orders -> [Contents -> Times]]]
    /\ current \in [Kinds -> [Orders -> Rows]] /\ mart \in [Kinds -> [Orders -> Rows]]
    /\ items \in [Orders -> [content : Contents \union {"none"}, parent : Contents \union {"none"}]]

(* Shop, feed and tables hold what the code gives them; in particular a row*)
(* without content has no clock, and no clock is ahead of the last tick.   *)
TypeOK == ShopTypeOK /\ FeedTypeOK /\ TableTypeOK

(* No run, late, repeated or failed half way, puts an older version of an  *)
(* order or a refund in the place of a newer one, neither in the Current   *)
(* State nor in a mart.                                                    *)
NeverRegresses ==
    [][\A k \in Kinds, o \in Orders :
          /\ current[k][o].clock <= current'[k][o].clock
          /\ mart[k][o].clock <= mart'[k][o].clock]_<<current, mart>>

(* Once a run of the day of an order's last update has succeeded, and had  *)
(* the landing file to itself, the marts show the order as it is in the    *)
(* shop, whatever other runs did or left undone, overlapping ones included:*)
(* and a refund, if its own clock lies in that day's window.               *)
DoneIsCurrent ==
    \A o \in Orders, k \in Kinds :
        LET d == DayOf(shop[o].updated) IN
        shop[o].updated # 0 /\ Done(d) /\ InWindow(shop[o].clock[k], d)
            => mart[k][o] = Row(shop[o].content[k], shop[o].clock[k])

(* What refund_items copies from the order is what orders says, once the   *)
(* day of the order's last update is done.                                 *)
RefundItemsAgree ==
    \A o \in Orders :
        shop[o].updated # 0 /\ Done(DayOf(shop[o].updated)) /\ items[o].content # "none"
            => items[o].parent = mart["order"][o].content

(* A run appends to Raw what it has extracted itself, unless another run   *)
(* of the partition used the landing file meanwhile, which belongs to no   *)
(* run (assets/lakehouse.py:99, against :95); and even then it appends     *)
(* nothing but what was read of the shop for its own partition's window.   *)
LoadsOwnExtract ==
    \A r \in Runs :
        run[r].at \notin {"idle", "extract", "fill", "load", "failed"} =>
            /\ r \notin disturbed => loaded[r] = run[r].extracted
            /\ \A x \in loaded[r] : InWindow(x.updated, run[r].partition)

(* The refunds that were changed or observed again in a run's window are   *)
(* discovered (int_shopify__refunds_canonical.sql:15): when all days up to *)
(* the order's last update are done, refunds shows the shop's refund.      *)
RefundsAreCurrent ==
    \A o \in Orders :
        /\ shop[o].updated # 0 /\ shop[o].clock["refund"] # 0
        /\ \A d \in 1..DayOf(shop[o].updated) : Done(d)
        => mart["refund"][o] = Row(shop[o].content["refund"], shop[o].clock["refund"])
=============================================================================
