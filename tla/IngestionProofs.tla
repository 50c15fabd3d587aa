--------------------------- MODULE IngestionProofs ---------------------------
(***************************************************************************)
(* What is proved of the two ways data comes in: the pipeline of orders    *)
(* and refunds (ShopifyPipeline), and behind it the stream of behaviour    *)
(* events (BehaviorStream).                                                *)
(***************************************************************************)
EXTENDS ShopifyPipeline, BehaviorStream, FiniteSetTheorems,
        WellFoundedInduction, TLAPS


(* The stages of the actions that MergeVersions, BuildCurrent and BuildMart*)
(* stand for, and of what follows them.                                    *)
Building == {"merge_order", "merge_refund", "order_current", "refund_current",
             "orders_mart", "refunds_mart", "refund_items_mart"}

(* A mart row is never ahead of the Current State it is copied from.       *)
MartBehindCurrent ==
    \A k \in Kinds, o \in Orders : mart[k][o].clock <= current[k][o].clock

(* A run that nobody disturbs has the landing file to itself from the      *)
(* moment it opens the file until it has loaded it; and no file ever holds *)
(* what was not read for its partition.                                    *)
LandingIsOwn ==
    /\ \A r \in Runs : run[r].at = "load" /\ r \notin disturbed
                         => landing[run[r].partition] = run[r].extracted
    /\ \A p \in Partitions : \A x \in landing[p] : InWindow(x.updated, p)
    /\ \A r \in Runs : run[r].at \in {"fill", "load"} =>
          \A x \in run[r].extracted : InWindow(x.updated, run[r].partition)
    /\ LoadsOwnExtract

(* What is known of a kind of an order, content c at clock t, is of the    *)
(* past, no newer than the shop, and the shop's content if it is as new.   *)
NotAhead(k, o, c, t) ==
    /\ t < now /\ t <= shop[o].clock[k]
    /\ t # 0 /\ t = shop[o].clock[k] => c = shop[o].content[k]

(* The shop's own clocks: the order's is its last update, a refund's may be*)
(* earlier; and what has a clock has a content.                            *)
ShopIsPast ==
    \A o \in Orders :
        /\ shop[o].updated <= now /\ shop[o].clock["order"] = shop[o].updated
        /\ \A k \in Kinds : shop[o].clock[k] <= shop[o].updated

ClockedHasContent ==
    \A o \in Orders, k \in Kinds : shop[o].clock[k] # 0 => shop[o].content[k] # "none"

(* A run works on a day that is over.                                      *)
RunsArePast == \A r \in Runs : run[r].at # "idle" => End(run[r].partition) <= now

(* ... and so it is with all that is on its way, and in the tables.        *)
KnownIn(S) == \A x \in S : \A k \in Kinds : NotAhead(k, x.order, x.content[k], x.clock[k])
FeedIsPast ==
    /\ KnownIn(raw)
    /\ \A p \in Partitions : KnownIn(landing[p])
    /\ \A r \in Runs : KnownIn(run[r].extracted)

TablesArePast ==
    \A k \in Kinds, o \in Orders :
        /\ \A c \in Contents : NotAhead(k, o, c, versions[k][o][c])
        /\ NotAhead(k, o, current[k][o].content, current[k][o].clock)
        /\ NotAhead(k, o, mart[k][o].content, mart[k][o].clock)

(* Stages in which a run has done its part: and what it has brought as far *)
(* of an order last updated on its day.                                    *)
AfterMart    == [order  |-> {"refunds_mart", "refund_items_mart", "success"},
                 refund |-> {"refund_items_mart", "success"}]
AfterCurrent == [order  |-> AfterMart["order"] \union {"refund_current", "orders_mart"},
                 refund |-> AfterMart["order"] \union {"orders_mart"}]
AfterMerge   == [order  |-> AfterCurrent["order"] \union {"merge_refund", "order_current"},
                 refund |-> AfterCurrent["order"] \union {"order_current"}]
AfterLoad    == AfterMerge["order"] \union {"merge_order"}
AfterExtract == AfterLoad \union {"fill", "load"}

Owes(r, o) == /\ run[r].at # "idle" /\ shop[o].updated # 0
              /\ DayOf(shop[o].updated) = run[r].partition

FeedDelivers ==
    \A r \in Runs, o \in Orders : Owes(r, o) =>
        /\ run[r].at \in AfterExtract => Observation(o) \in run[r].extracted
        /\ run[r].at \in AfterLoad /\ r \notin disturbed => Observation(o) \in raw

TablesDeliver ==
    \A r \in Runs, o \in Orders, k \in Kinds :
        LET c == shop[o].content[k]
            t == shop[o].clock[k] IN
        Owes(r, o) /\ InWindow(t, run[r].partition) /\ r \notin disturbed =>
            /\ run[r].at \in AfterMerge[k] => versions[k][o][c] = t
            /\ run[r].at \in AfterCurrent[k] => current[k][o] = Row(c, t)
            /\ run[r].at \in AfterMart[k] => mart[k][o] = Row(c, t)

(* An item is only built from a refund and a refund item that are there:   *)
(* and where the day of its order is done, it copies the order as it is.   *)
ItemsHaveRows ==
    \A o \in Orders : items[o].content # "none" =>
        current["refund"][o].clock # 0 /\ mart["refund"][o].clock # 0

ItemsDeliver ==
    \A r \in Runs, o \in Orders :
        Owes(r, o) /\ run[r].at = "success" /\ r \notin disturbed /\ items[o].content # "none" =>
            items[o].parent = shop[o].content["order"]

-----------------------------------------------------------------------------
(* A set of naturals with a bound has a greatest element.                  *)
LEMMA GreatestExists ==
    ASSUME NEW n \in Nat, NEW S, S \subseteq 0..n, S # {}
    PROVE  \E x \in S : \A y \in S : y <= x
<1>. DEFINE T == {n - x : x \in S}
            R == {p \in Nat \X Nat : p[1] < p[2]}
<1>1. IsWellFoundedOn(R, Nat)  BY NatLessThanWellFounded DEF OpToRel
<1>2. T \subseteq Nat  OBVIOUS
<1>3. \A y \in S : n - y \in T  OBVIOUS
<1>4. \A x \in T : \E z \in S : x = n - z  OBVIOUS
<1>. HIDE DEF T, R
<1>5. \E x \in T : \A y \in T : ~ (<<y, x>> \in R)
  <2>1. T # {}  BY <1>3
  <2>. QED  BY <1>1, <1>2, <2>1, WFMin
<1>6. PICK x \in T : \A y \in T : ~ (y < x)
  BY <1>2, <1>5 DEF R
<1>7. PICK z \in S : x = n - z  BY <1>4
<1>8. \A y \in S : ~ (n - y < n - z)  BY <1>3, <1>6, <1>7
<1>. QED  BY <1>8

LEMMA LastTickIsNat == LastTick \in Nat /\ LastTick >= 1
<1>1. Days * DayLength \in Nat  BY PipelineAssumption
<1>. QED  BY <1>1 DEF LastTick

(* The greatest of some clocks is one of them.                             *)
LEMMA MaxOfClocks ==
    ASSUME NEW S, S \subseteq Times, S # {}
    PROVE  Max(S) \in S
<1>1. \E x \in S : \A y \in S : y <= x
  BY LastTickIsNat, GreatestExists DEF Times
<1>2. S \subseteq Nat  BY LastTickIsNat DEF Times
<1>3. \E x \in S : \A y \in S : x >= y  BY <1>1, <1>2
<1>. QED  BY <1>3 DEF Max

(* Of some rows, the one that Latest takes has the greatest clock.         *)
LEMMA LatestIsLatest ==
    ASSUME NEW rows, rows \subseteq Rows, rows # {}
    PROVE  Latest(rows) \in rows /\ \A y \in rows : y.clock <= Latest(rows).clock
<1>. DEFINE S == {x.clock : x \in rows}
<1>1. S \subseteq 0..LastTick /\ S # {}  BY DEF Rows, Times
<1>2. PICK c \in S : \A y \in S : y <= c
  <2>. HIDE DEF S
  <2>. QED  BY <1>1, LastTickIsNat, GreatestExists
<1>3. PICK x \in rows : x.clock = c  OBVIOUS
<1>4. \A y \in rows : y.clock <= x.clock  BY <1>2, <1>3
<1>. QED  BY <1>3, <1>4 DEF Latest

(* What is extracted of an order is an observation.                        *)
LEMMA ObservationType ==
    ASSUME ShopTypeOK, NEW o \in Orders
    PROVE  Observation(o) \in Observations
BY DEF ShopTypeOK, Observation, Observations

(* The clock of a merged version is a clock.                               *)
LEMMA MergedType ==
    ASSUME TypeOK, NEW k \in Kinds, NEW o \in Orders, NEW c \in Contents, NEW p
    PROVE  Merged(k, o, c, p) \in Times
<1>1. versions[k][o][c] \in Times  BY DEF TypeOK, TableTypeOK
<1>2. Observed(k, o, c, p) \subseteq Times
  BY DEF TypeOK, FeedTypeOK, Observed, Observations
<1>3. CASE Observed(k, o, c, p) = {}  BY <1>1, <1>3 DEF Merged
<1>4. CASE Observed(k, o, c, p) # {}
  <2>1. Max(Observed(k, o, c, p)) \in Times  BY <1>2, <1>4, MaxOfClocks
  <2>. QED  BY <1>1, <1>4, <2>1 DEF Merged, Later
<1>. QED  BY <1>3, <1>4

(* The winner is a row, and not older than the row that was there: this is *)
(* why no replay of an old window can take a table back.                   *)
LEMMA WinnerIsNotOlder ==
    ASSUME TypeOK, NEW k \in Kinds, NEW o \in Orders, NEW p
    PROVE  Winner(k, o, p) \in Rows /\ current[k][o].clock <= Winner(k, o, p).clock
<1>1. current[k][o] \in Rows  BY DEF TypeOK, TableTypeOK
<1>2. current[k][o].clock \in Nat  BY <1>1, LastTickIsNat DEF Rows, Times
<1>3. CASE Candidates(k, o, p) = {}  BY <1>1, <1>2, <1>3 DEF Winner
<1>4. CASE Candidates(k, o, p) # {}
  <2>1. Candidates(k, o, p) \subseteq Rows
    BY PipelineAssumption DEF Candidates, Row, Rows, InWindow, TypeOK, TableTypeOK
  <2>. DEFINE pool == Candidates(k, o, p) \union {current[k][o]}
  <2>2. pool \subseteq Rows /\ pool # {}  BY <1>1, <2>1
  <2>3. Latest(pool) \in pool /\ \A y \in pool : y.clock <= Latest(pool).clock
    <3>. HIDE DEF pool
    <3>. QED  BY <2>2, LatestIsLatest
  <2>. QED  BY <1>4, <2>2, <2>3 DEF Winner
<1>. QED  BY <1>3, <1>4

-----------------------------------------------------------------------------
(* Every step keeps the shop within its type.                              *)
LEMMA ShopTypeStep == TypeOK /\ [Next]_vars => ShopTypeOK'
<1>. SUFFICES ASSUME TypeOK, [Next]_vars PROVE ShopTypeOK'
  OBVIOUS
<1>1. CASE Tick
  BY <1>1, LastTickIsNat DEF TypeOK, ShopTypeOK, Tick
<1>2. ASSUME NEW o \in Orders, NEW k \in Kinds, NEW c \in Contents, Update(o, k, c)
      PROVE  ShopTypeOK'
  BY <1>2, LastTickIsNat, PipelineAssumption DEF TypeOK, ShopTypeOK, Update, Times, Kinds
<1>3. ASSUME NEW r \in Runs, NEW p \in Partitions, StartRun(r, p)
      PROVE  ShopTypeOK'
  BY <1>3 DEF TypeOK, ShopTypeOK, StartRun
<1>4. ASSUME NEW r \in Runs, RunFails(r)
      PROVE  ShopTypeOK'
  BY <1>4 DEF TypeOK, ShopTypeOK, RunFails
<1>5. ASSUME NEW r \in Runs, StepRetry(r)
      PROVE  ShopTypeOK'
  BY <1>5 DEF TypeOK, ShopTypeOK, StepRetry
<1>6. ASSUME NEW r \in Runs, Extract(r)
      PROVE  ShopTypeOK'
  BY <1>6 DEF TypeOK, ShopTypeOK, Extract
<1>7. ASSUME NEW r \in Runs, FillLanding(r)
      PROVE  ShopTypeOK'
  BY <1>7 DEF TypeOK, ShopTypeOK, FillLanding
<1>8. ASSUME NEW r \in Runs, LoadRaw(r)
      PROVE  ShopTypeOK'
  BY <1>8 DEF TypeOK, ShopTypeOK, LoadRaw
<1>9. ASSUME NEW r \in Runs, NEW k \in Kinds, NEW at \in Building, NEW next \in Building,
             MergeVersions(r, k, at, next)
      PROVE  ShopTypeOK'
  BY <1>9 DEF TypeOK, ShopTypeOK, MergeVersions
<1>10. ASSUME NEW r \in Runs, NEW k \in Kinds, NEW at \in Building, NEW next \in Building,
             BuildCurrent(r, k, at, next)
      PROVE  ShopTypeOK'
  BY <1>10 DEF TypeOK, ShopTypeOK, BuildCurrent
<1>11. ASSUME NEW r \in Runs, NEW k \in Kinds, NEW at \in Building, NEW next \in Building,
             BuildMart(r, k, at, next)
      PROVE  ShopTypeOK'
  BY <1>11 DEF TypeOK, ShopTypeOK, BuildMart
<1>12. ASSUME NEW r \in Runs, BuildRefundItems(r)
      PROVE  ShopTypeOK'
  BY <1>12 DEF TypeOK, ShopTypeOK, BuildRefundItems
<1>13. CASE UNCHANGED vars
  BY <1>13 DEF TypeOK, ShopTypeOK, vars
<1>. QED
  BY <1>1, <1>2, <1>3, <1>4, <1>5, <1>6, <1>7, <1>8, <1>9, <1>10, <1>11, <1>12, <1>13
  DEF Next, RunStep, Kinds, Building

(* ... and the runs, the landing files and Raw.                            *)
LEMMA FeedTypeStep == TypeOK /\ [Next]_vars => FeedTypeOK'
<1>. SUFFICES ASSUME TypeOK, [Next]_vars PROVE FeedTypeOK'
  OBVIOUS
<1>1. CASE Tick
  BY <1>1 DEF TypeOK, FeedTypeOK, Stages, Building, Tick
<1>2. ASSUME NEW o \in Orders, NEW k \in Kinds, NEW c \in Contents, Update(o, k, c)
      PROVE  FeedTypeOK'
  BY <1>2 DEF TypeOK, FeedTypeOK, Stages, Building, Update
<1>3. ASSUME NEW r \in Runs, NEW p \in Partitions, StartRun(r, p)
      PROVE  FeedTypeOK'
  <2>1. run' = [run EXCEPT ![r] = [run[r] EXCEPT !.at = "extract", !.partition = p]]
    BY <1>3 DEF TypeOK, FeedTypeOK, StartRun
  <2>2. [run[r] EXCEPT !.at = "extract", !.partition = p]
            \in [at : Stages, partition : {0} \union Partitions, extracted : SUBSET Observations]
    BY DEF TypeOK, FeedTypeOK, Stages
  <2>3. run' \in [Runs -> [at : Stages, partition : {0} \union Partitions,
                          extracted : SUBSET Observations]]
    BY <2>1, <2>2 DEF TypeOK, FeedTypeOK
  <2>4. \A q \in Runs : run'[q].at # "idle" => run'[q].partition \in Partitions
    BY <2>1 DEF TypeOK, FeedTypeOK
  <2>5. UNCHANGED <<landing, raw, loaded, disturbed>>  BY <1>3 DEF StartRun
  <2>. QED  BY <2>3, <2>4, <2>5 DEF TypeOK, FeedTypeOK
<1>4. ASSUME NEW r \in Runs, RunFails(r)
      PROVE  FeedTypeOK'
  BY <1>4 DEF TypeOK, FeedTypeOK, Stages, Active, RunFails
<1>5. ASSUME NEW r \in Runs, StepRetry(r)
      PROVE  FeedTypeOK'
  <2>1. \E a \in {"extract", "merge_order", "order_current"} : run' = [run EXCEPT ![r].at = a]
    BY <1>5 DEF StepRetry
  <2>2. run[r].at # "idle"  BY <1>5 DEF StepRetry
  <2>3. UNCHANGED <<landing, raw, loaded, disturbed>>  BY <1>5 DEF StepRetry
  <2>4. ASSUME NEW a \in {"extract", "merge_order", "order_current"}, run' = [run EXCEPT ![r].at = a]
        PROVE  FeedTypeOK'
    <3>1. [run[r] EXCEPT !.at = a]
              \in [at : Stages, partition : {0} \union Partitions, extracted : SUBSET Observations]
      BY DEF TypeOK, FeedTypeOK, Stages
    <3>2. run' = [run EXCEPT ![r] = [run[r] EXCEPT !.at = a]]
      BY <2>4 DEF TypeOK, FeedTypeOK
    <3>3. run' \in [Runs -> [at : Stages, partition : {0} \union Partitions,
                            extracted : SUBSET Observations]]
      BY <3>1, <3>2 DEF TypeOK, FeedTypeOK
    <3>4. \A q \in Runs : run'[q].at # "idle" => run'[q].partition \in Partitions
      BY <2>2, <2>4 DEF TypeOK, FeedTypeOK
    <3>. QED  BY <2>3, <3>3, <3>4 DEF TypeOK, FeedTypeOK
  <2>. QED  BY <2>1, <2>4
<1>6. ASSUME NEW r \in Runs, Extract(r)
      PROVE  FeedTypeOK'
  <2>. DEFINE new == {Observation(o) : o \in
                     {x \in Orders : InWindow(shop[x].updated, run[r].partition)}}
  <2>1. new \subseteq Observations  BY ObservationType DEF TypeOK
  <2>2. run' = [run EXCEPT ![r].at = "fill", ![r].extracted = new]
    BY <1>6 DEF Extract
  <2>3. run[r].at # "idle"  BY <1>6 DEF Extract
  <2>. HIDE DEF new
  <2>4. run' \in [Runs -> [at : Stages, partition : {0} \union Partitions,
                          extracted : SUBSET Observations]]
    <3>1. [run[r] EXCEPT !.at = "fill", !.extracted = new]
              \in [at : Stages, partition : {0} \union Partitions, extracted : SUBSET Observations]
      BY <2>1 DEF TypeOK, FeedTypeOK, Stages
    <3>2. run' = [run EXCEPT ![r] = [run[r] EXCEPT !.at = "fill", !.extracted = new]]
      BY <2>2 DEF TypeOK, FeedTypeOK
    <3>. QED  BY <3>1, <3>2 DEF TypeOK, FeedTypeOK
  <2>7. \A q \in Runs : run'[q].at # "idle" => run'[q].partition \in Partitions
    BY <2>2, <2>3 DEF TypeOK, FeedTypeOK
  <2>5. landing' \in [Partitions -> SUBSET Observations]
    BY <1>6 DEF Extract, TypeOK, FeedTypeOK
  <2>6. raw' = raw /\ loaded' = loaded  BY <1>6 DEF Extract
  <2>8. disturbed' \subseteq Runs  BY <1>6 DEF Extract, Users, TypeOK, FeedTypeOK
  <2>. QED  BY <2>4, <2>5, <2>6, <2>7, <2>8 DEF TypeOK, FeedTypeOK
<1>7. ASSUME NEW r \in Runs, FillLanding(r)
      PROVE  FeedTypeOK'
  <2>1. run[r].partition \in Partitions  BY <1>7 DEF FillLanding, TypeOK, FeedTypeOK
  <2>2. PICK file \in SUBSET (landing[run[r].partition] \union run[r].extracted) :
            landing' = [landing EXCEPT ![run[r].partition] = file]
    BY <1>7 DEF FillLanding
  <2>3. landing' \in [Partitions -> SUBSET Observations]
    BY <2>1, <2>2 DEF TypeOK, FeedTypeOK
  <2>4. disturbed' \subseteq Runs  BY <1>7 DEF FillLanding, Users, TypeOK, FeedTypeOK
  <2>. QED  BY <1>7, <2>3, <2>4 DEF TypeOK, FeedTypeOK, Stages, FillLanding
<1>8. ASSUME NEW r \in Runs, LoadRaw(r)
      PROVE  FeedTypeOK'
  BY <1>8 DEF TypeOK, FeedTypeOK, Stages, Building, LoadRaw
<1>9. ASSUME NEW r \in Runs, NEW k \in Kinds, NEW at \in Building, NEW next \in Building,
             MergeVersions(r, k, at, next)
      PROVE  FeedTypeOK'
  BY <1>9 DEF TypeOK, FeedTypeOK, Stages, Building, MergeVersions
<1>10. ASSUME NEW r \in Runs, NEW k \in Kinds, NEW at \in Building, NEW next \in Building,
             BuildCurrent(r, k, at, next)
      PROVE  FeedTypeOK'
  BY <1>10 DEF TypeOK, FeedTypeOK, Stages, Building, BuildCurrent
<1>11. ASSUME NEW r \in Runs, NEW k \in Kinds, NEW at \in Building, NEW next \in Building,
             BuildMart(r, k, at, next)
      PROVE  FeedTypeOK'
  BY <1>11 DEF TypeOK, FeedTypeOK, Stages, Building, BuildMart
<1>12. ASSUME NEW r \in Runs, BuildRefundItems(r)
      PROVE  FeedTypeOK'
  BY <1>12 DEF TypeOK, FeedTypeOK, Stages, Building, BuildRefundItems
<1>13. CASE UNCHANGED vars
  BY <1>13 DEF TypeOK, FeedTypeOK, Stages, Building, vars
<1>. QED
  BY <1>1, <1>2, <1>3, <1>4, <1>5, <1>6, <1>7, <1>8, <1>9, <1>10, <1>11, <1>12, <1>13
  DEF Next, RunStep, Kinds, Building

(* ... and the tables.                                                     *)
LEMMA TableTypeStep == TypeOK /\ [Next]_vars => TableTypeOK'
<1>. SUFFICES ASSUME TypeOK, [Next]_vars PROVE TableTypeOK'
  OBVIOUS
<1>1. CASE Tick
  BY <1>1 DEF TypeOK, TableTypeOK, Tick
<1>2. ASSUME NEW o \in Orders, NEW k \in Kinds, NEW c \in Contents, Update(o, k, c)
      PROVE  TableTypeOK'
  BY <1>2 DEF TypeOK, TableTypeOK, Update
<1>3. ASSUME NEW r \in Runs, NEW p \in Partitions, StartRun(r, p)
      PROVE  TableTypeOK'
  BY <1>3 DEF TypeOK, TableTypeOK, StartRun
<1>4. ASSUME NEW r \in Runs, RunFails(r)
      PROVE  TableTypeOK'
  BY <1>4 DEF TypeOK, TableTypeOK, RunFails
<1>5. ASSUME NEW r \in Runs, StepRetry(r)
      PROVE  TableTypeOK'
  BY <1>5 DEF TypeOK, TableTypeOK, StepRetry
<1>6. ASSUME NEW r \in Runs, Extract(r)
      PROVE  TableTypeOK'
  BY <1>6 DEF TypeOK, TableTypeOK, Extract
<1>7. ASSUME NEW r \in Runs, FillLanding(r)
      PROVE  TableTypeOK'
  BY <1>7 DEF TypeOK, TableTypeOK, FillLanding
<1>8. ASSUME NEW r \in Runs, LoadRaw(r)
      PROVE  TableTypeOK'
  BY <1>8 DEF TypeOK, TableTypeOK, LoadRaw
<1>9. ASSUME NEW r \in Runs, NEW k \in Kinds, NEW at \in Building, NEW next \in Building,
             MergeVersions(r, k, at, next)
      PROVE  TableTypeOK'
  BY <1>9, MergedType DEF TypeOK, TableTypeOK, MergeVersions
<1>10. ASSUME NEW r \in Runs, NEW k \in Kinds, NEW at \in Building, NEW next \in Building,
             BuildCurrent(r, k, at, next)
      PROVE  TableTypeOK'
  BY <1>10, WinnerIsNotOlder DEF TypeOK, TableTypeOK, BuildCurrent
<1>11. ASSUME NEW r \in Runs, NEW k \in Kinds, NEW at \in Building, NEW next \in Building,
             BuildMart(r, k, at, next)
      PROVE  TableTypeOK'
  BY <1>11 DEF TypeOK, TableTypeOK, BuildMart
<1>12. ASSUME NEW r \in Runs, BuildRefundItems(r)
      PROVE  TableTypeOK'
  BY <1>12 DEF TypeOK, TableTypeOK, BuildRefundItems, Rows, Kinds
<1>13. CASE UNCHANGED vars
  BY <1>13 DEF TypeOK, TableTypeOK, vars
<1>. QED
  BY <1>1, <1>2, <1>3, <1>4, <1>5, <1>6, <1>7, <1>8, <1>9, <1>10, <1>11, <1>12, <1>13
  DEF Next, RunStep, Kinds, Building

(* Every variable keeps its type, whatever runs and in whatever order.     *)
THEOREM PipelineTypeCorrect == Spec => []TypeOK
<1>1. Init => TypeOK
  BY LastTickIsNat, PipelineAssumption
  DEF Init, TypeOK, ShopTypeOK, FeedTypeOK, TableTypeOK, Stages, Rows, Row, NoRow, Times
<1>2. TypeOK /\ [Next]_vars => TypeOK'
  BY ShopTypeStep, FeedTypeStep, TableTypeStep DEF TypeOK
<1>. QED  BY <1>1, <1>2, PTL DEF Spec

-----------------------------------------------------------------------------
(* Who writes what: each table has its one action.                         *)
LEMMA WhoLands ==
    [Next]_vars => landing' = landing
                   \/ \E r \in Runs : Extract(r) \/ FillLanding(r)
<1>. SUFFICES ASSUME [Next]_vars, ~ \E r \in Runs : Extract(r) \/ FillLanding(r)
              PROVE  landing' = landing
  OBVIOUS
<1>1. ASSUME NEW r \in Runs, RunStep(r)  PROVE landing' = landing
  BY <1>1 DEF RunStep, LoadRaw, MergeVersions, BuildCurrent, BuildMart,
         BuildRefundItems
<1>2. ASSUME NEW r \in Runs, StepRetry(r) \/ RunFails(r) \/ \E p \in Partitions : StartRun(r, p)
      PROVE  landing' = landing
  BY <1>2 DEF StepRetry, RunFails, StartRun
<1>3. ASSUME NEW s \in Orders, NEW k \in Kinds, NEW c \in Contents, Update(s, k, c)
      PROVE  landing' = landing
  BY <1>3 DEF Update
<1>4. CASE Tick \/ UNCHANGED vars  BY <1>4 DEF Tick, vars
<1>. QED  BY <1>1, <1>2, <1>3, <1>4 DEF Next

LEMMA WhoLoads ==
    [Next]_vars => raw' = raw
                   \/ \E r \in Runs : LoadRaw(r)
<1>. SUFFICES ASSUME [Next]_vars, ~ \E r \in Runs : LoadRaw(r)
              PROVE  raw' = raw
  OBVIOUS
<1>1. ASSUME NEW r \in Runs, RunStep(r)  PROVE raw' = raw
  BY <1>1 DEF RunStep, Extract, FillLanding, MergeVersions, BuildCurrent,
         BuildMart, BuildRefundItems
<1>2. ASSUME NEW r \in Runs, StepRetry(r) \/ RunFails(r) \/ \E p \in Partitions : StartRun(r, p)
      PROVE  raw' = raw
  BY <1>2 DEF StepRetry, RunFails, StartRun
<1>3. ASSUME NEW s \in Orders, NEW k \in Kinds, NEW c \in Contents, Update(s, k, c)
      PROVE  raw' = raw
  BY <1>3 DEF Update
<1>4. CASE Tick \/ UNCHANGED vars  BY <1>4 DEF Tick, vars
<1>. QED  BY <1>1, <1>2, <1>3, <1>4 DEF Next

LEMMA WhoMerges ==
    [Next]_vars => versions' = versions
                   \/ \E r \in Runs, k \in Kinds, at, next \in Building :
                           MergeVersions(r, k, at, next)
<1>. SUFFICES ASSUME [Next]_vars,
                     ~ \E r \in Runs, k \in Kinds, at, next \in Building : MergeVersions(r, k, at, next)
              PROVE  versions' = versions
  OBVIOUS
<1>1. ASSUME NEW r \in Runs, RunStep(r)  PROVE versions' = versions
  <2>1. /\ ~ MergeVersions(r, "order", "merge_order", "merge_refund")
        /\ ~ MergeVersions(r, "refund", "merge_refund", "order_current")
    BY DEF Kinds, Building
  <2>. QED  BY <1>1, <2>1 DEF RunStep, Extract, FillLanding, LoadRaw, BuildCurrent, BuildMart,
         BuildRefundItems
<1>2. ASSUME NEW r \in Runs, StepRetry(r) \/ RunFails(r) \/ \E p \in Partitions : StartRun(r, p)
      PROVE  versions' = versions
  BY <1>2 DEF StepRetry, RunFails, StartRun
<1>3. ASSUME NEW s \in Orders, NEW k \in Kinds, NEW c \in Contents, Update(s, k, c)
      PROVE  versions' = versions
  BY <1>3 DEF Update
<1>4. CASE Tick \/ UNCHANGED vars  BY <1>4 DEF Tick, vars
<1>. QED  BY <1>1, <1>2, <1>3, <1>4 DEF Next

LEMMA WhoWins ==
    [Next]_vars => current' = current
                   \/ \E r \in Runs, k \in Kinds, at, next \in Building :
                           BuildCurrent(r, k, at, next)
<1>. SUFFICES ASSUME [Next]_vars,
                     ~ \E r \in Runs, k \in Kinds, at, next \in Building : BuildCurrent(r, k, at, next)
              PROVE  current' = current
  OBVIOUS
<1>1. ASSUME NEW r \in Runs, RunStep(r)  PROVE current' = current
  <2>1. /\ ~ BuildCurrent(r, "order", "order_current", "refund_current")
        /\ ~ BuildCurrent(r, "refund", "refund_current", "orders_mart")
    BY DEF Kinds, Building
  <2>. QED  BY <1>1, <2>1 DEF RunStep, Extract, FillLanding, LoadRaw, MergeVersions, BuildMart,
         BuildRefundItems
<1>2. ASSUME NEW r \in Runs, StepRetry(r) \/ RunFails(r) \/ \E p \in Partitions : StartRun(r, p)
      PROVE  current' = current
  BY <1>2 DEF StepRetry, RunFails, StartRun
<1>3. ASSUME NEW s \in Orders, NEW k \in Kinds, NEW c \in Contents, Update(s, k, c)
      PROVE  current' = current
  BY <1>3 DEF Update
<1>4. CASE Tick \/ UNCHANGED vars  BY <1>4 DEF Tick, vars
<1>. QED  BY <1>1, <1>2, <1>3, <1>4 DEF Next

LEMMA WhoPublishes ==
    [Next]_vars => mart' = mart
                   \/ \E r \in Runs, k \in Kinds, at, next \in Building :
                           BuildMart(r, k, at, next)
<1>. SUFFICES ASSUME [Next]_vars,
                     ~ \E r \in Runs, k \in Kinds, at, next \in Building : BuildMart(r, k, at, next)
              PROVE  mart' = mart
  OBVIOUS
<1>1. ASSUME NEW r \in Runs, RunStep(r)  PROVE mart' = mart
  <2>1. /\ ~ BuildMart(r, "order", "orders_mart", "refunds_mart")
        /\ ~ BuildMart(r, "refund", "refunds_mart", "refund_items_mart")
    BY DEF Kinds, Building
  <2>. QED  BY <1>1, <2>1 DEF RunStep, Extract, FillLanding, LoadRaw, MergeVersions, BuildCurrent,
         BuildRefundItems
<1>2. ASSUME NEW r \in Runs, StepRetry(r) \/ RunFails(r) \/ \E p \in Partitions : StartRun(r, p)
      PROVE  mart' = mart
  BY <1>2 DEF StepRetry, RunFails, StartRun
<1>3. ASSUME NEW s \in Orders, NEW k \in Kinds, NEW c \in Contents, Update(s, k, c)
      PROVE  mart' = mart
  BY <1>3 DEF Update
<1>4. CASE Tick \/ UNCHANGED vars  BY <1>4 DEF Tick, vars
<1>. QED  BY <1>1, <1>2, <1>3, <1>4 DEF Next

LEMMA WhoSells ==
    [Next]_vars => shop' = shop
                   \/ \E o \in Orders, k \in Kinds, c \in Contents : Update(o, k, c)
<1>. SUFFICES ASSUME [Next]_vars, ~ \E o \in Orders, k \in Kinds, c \in Contents : Update(o, k, c)
              PROVE  shop' = shop
  OBVIOUS
<1>1. ASSUME NEW r \in Runs, RunStep(r)  PROVE shop' = shop
  BY <1>1 DEF RunStep, Extract, FillLanding, LoadRaw, MergeVersions, BuildCurrent,
         BuildMart, BuildRefundItems
<1>2. ASSUME NEW r \in Runs, StepRetry(r) \/ RunFails(r) \/ \E p \in Partitions : StartRun(r, p)
      PROVE  shop' = shop
  BY <1>2 DEF StepRetry, RunFails, StartRun
<1>3. CASE Tick \/ UNCHANGED vars  BY <1>3 DEF Tick, vars
<1>. QED  BY <1>1, <1>2, <1>3 DEF Next

(* A run extracts once at a time, and only Extract does it.                *)
LEMMA WhoExtracts ==
    ASSUME TypeOK, [Next]_vars, NEW r \in Runs
    PROVE  run'[r].extracted = run[r].extracted \/ Extract(r)
<1>. SUFFICES ASSUME ~ Extract(r)  PROVE run'[r].extracted = run[r].extracted
  OBVIOUS
<1>1. ASSUME NEW q \in Runs, RunStep(q)  PROVE run'[r].extracted = run[r].extracted
  <2>1. CASE Extract(q)
    BY <2>1 DEF Extract, TypeOK, FeedTypeOK
  <2>2. CASE FillLanding(q) \/ LoadRaw(q) \/ BuildRefundItems(q)
    BY <2>2 DEF FillLanding, LoadRaw, BuildRefundItems, TypeOK, FeedTypeOK
  <2>3. ASSUME NEW k, NEW at, NEW next,
               MergeVersions(q, k, at, next) \/ BuildCurrent(q, k, at, next) \/ BuildMart(q, k, at, next)
        PROVE  run'[r].extracted = run[r].extracted
    BY <2>3 DEF MergeVersions, BuildCurrent, BuildMart, TypeOK, FeedTypeOK
  <2>. QED  BY <1>1, <2>1, <2>2, <2>3 DEF RunStep
<1>2. ASSUME NEW q \in Runs, StepRetry(q) \/ RunFails(q) \/ \E p \in Partitions : StartRun(q, p)
      PROVE  run'[r].extracted = run[r].extracted
  BY <1>2 DEF StepRetry, RunFails, StartRun, TypeOK, FeedTypeOK
<1>3. ASSUME NEW o \in Orders, NEW k \in Kinds, NEW c \in Contents, Update(o, k, c)
      PROVE  run'[r].extracted = run[r].extracted
  BY <1>3 DEF Update
<1>4. CASE Tick \/ UNCHANGED vars  BY <1>4 DEF Tick, vars
<1>. QED  BY <1>1, <1>2, <1>3, <1>4 DEF Next

-----------------------------------------------------------------------------
(* What a step makes of a version, of a current row, of a mart row.        *)
LEMMA VersionSteps ==
    ASSUME TypeOK, [Next]_vars, NEW k \in Kinds, NEW o \in Orders, NEW c \in Contents
    PROVE  \/ versions'[k][o][c] = versions[k][o][c]
           \/ \E p \in Partitions : versions'[k][o][c] = Merged(k, o, c, p)
<1>1. ASSUME NEW r \in Runs, NEW j \in Kinds, NEW at \in Building, NEW next \in Building,
             MergeVersions(r, j, at, next)
      PROVE  \/ versions'[k][o][c] = versions[k][o][c]
             \/ \E p \in Partitions : versions'[k][o][c] = Merged(k, o, c, p)
  <2>1. run[r].partition \in Partitions
    BY <1>1 DEF MergeVersions, TypeOK, FeedTypeOK, Building
  <2>2. versions'[k][o][c] \in {versions[k][o][c], Merged(k, o, c, run[r].partition)}
    BY <1>1 DEF MergeVersions, TypeOK, TableTypeOK
  <2>. QED  BY <2>1, <2>2
<1>. QED  BY <1>1, WhoMerges

LEMMA CurrentSteps ==
    ASSUME TypeOK, [Next]_vars, NEW k \in Kinds, NEW o \in Orders
    PROVE  \/ current'[k][o] = current[k][o]
           \/ \E p \in Partitions : current'[k][o] = Winner(k, o, p)
<1>1. ASSUME NEW r \in Runs, NEW j \in Kinds, NEW at \in Building, NEW next \in Building,
             BuildCurrent(r, j, at, next)
      PROVE  \/ current'[k][o] = current[k][o]
             \/ \E p \in Partitions : current'[k][o] = Winner(k, o, p)
  <2>1. run[r].partition \in Partitions
    BY <1>1 DEF BuildCurrent, TypeOK, FeedTypeOK, Building
  <2>2. current'[k][o] \in {current[k][o], Winner(k, o, run[r].partition)}
    BY <1>1 DEF BuildCurrent, TypeOK, TableTypeOK
  <2>. QED  BY <2>1, <2>2
<1>. QED  BY <1>1, WhoWins

LEMMA MartSteps ==
    ASSUME TypeOK, [Next]_vars, NEW k \in Kinds, NEW o \in Orders
    PROVE  mart'[k][o] \in {mart[k][o], current[k][o]}
<1>1. ASSUME NEW r \in Runs, NEW j \in Kinds, NEW at \in Building, NEW next \in Building,
             BuildMart(r, j, at, next)
      PROVE  mart'[k][o] \in {mart[k][o], current[k][o]}
  BY <1>1 DEF BuildMart, TypeOK, TableTypeOK
<1>. QED  BY <1>1, WhoPublishes

(* The clocks of the rows, as numbers.                                     *)
LEMMA ClocksAreNat ==
    ASSUME TypeOK, NEW k \in Kinds, NEW o \in Orders
    PROVE  current[k][o].clock \in Nat /\ mart[k][o].clock \in Nat
BY LastTickIsNat DEF TypeOK, TableTypeOK, Rows, Times

(* Whatever the step, no clock goes back.                                  *)
LEMMA VersionsGrow ==
    ASSUME TypeOK, [Next]_vars, NEW k \in Kinds, NEW o \in Orders, NEW c \in Contents
    PROVE  versions[k][o][c] <= versions'[k][o][c] /\ versions'[k][o][c] \in Nat
<1>1. versions[k][o][c] \in Nat  BY LastTickIsNat DEF TypeOK, TableTypeOK, Times
<1>2. ASSUME NEW p  PROVE versions[k][o][c] <= Merged(k, o, c, p) /\ Merged(k, o, c, p) \in Nat
  <2>1. Merged(k, o, c, p) \in Nat  BY MergedType, LastTickIsNat DEF Times
  <2>2. CASE Observed(k, o, c, p) = {}  BY <1>1, <2>2 DEF Merged
  <2>3. CASE Observed(k, o, c, p) # {}
    <3>1. Observed(k, o, c, p) \subseteq Times
      BY DEF TypeOK, FeedTypeOK, Observed, Observations
    <3>2. Max(Observed(k, o, c, p)) \in Nat
      BY <2>3, <3>1, MaxOfClocks, LastTickIsNat DEF Times
    <3>3. Merged(k, o, c, p) = Later(versions[k][o][c], Max(Observed(k, o, c, p)))
      BY <2>3 DEF Merged
    <3>. QED  BY <1>1, <3>2, <3>3 DEF Later
  <2>. QED  BY <2>1, <2>2, <2>3
<1>. QED  BY <1>1, <1>2, VersionSteps

LEMMA CurrentGrows ==
    ASSUME TypeOK, [Next]_vars, NEW k \in Kinds, NEW o \in Orders
    PROVE  current[k][o].clock <= current'[k][o].clock /\ current'[k][o].clock \in Nat
<1>1. current[k][o].clock \in Nat  BY ClocksAreNat
<1>2. \A p : /\ current[k][o].clock <= Winner(k, o, p).clock
             /\ Winner(k, o, p).clock \in Nat
  BY WinnerIsNotOlder, LastTickIsNat DEF Rows, Times
<1>. QED  BY <1>1, <1>2, CurrentSteps

LEMMA MartGrows ==
    ASSUME TypeOK, MartBehindCurrent, [Next]_vars, NEW k \in Kinds, NEW o \in Orders
    PROVE  mart[k][o].clock <= mart'[k][o].clock
BY MartSteps, ClocksAreNat DEF MartBehindCurrent

(* A mart is never ahead of the Current State: a run may raise the latter, *)
(* and copies it into the former.                                          *)
LEMMA MartBehindStep == TypeOK /\ MartBehindCurrent /\ [Next]_vars => MartBehindCurrent'
<1>. SUFFICES ASSUME TypeOK, MartBehindCurrent, [Next]_vars, NEW k \in Kinds, NEW o \in Orders
              PROVE  mart'[k][o].clock <= current'[k][o].clock
  BY DEF MartBehindCurrent
<1>1. mart[k][o].clock <= current[k][o].clock  BY DEF MartBehindCurrent
<1>. QED  BY <1>1, MartSteps, CurrentGrows, ClocksAreNat

(* No step puts an older row in the place of a newer one.                  *)
THEOREM PipelineNeverRegresses == Spec => NeverRegresses
<1>. DEFINE Forward == \A k \in Kinds, o \in Orders :
                          /\ current[k][o].clock <= current'[k][o].clock
                          /\ mart[k][o].clock <= mart'[k][o].clock
<1>1. Init => MartBehindCurrent
  BY DEF Init, MartBehindCurrent, NoRow, Row
<1>2. TypeOK /\ MartBehindCurrent /\ [Next]_vars => [Forward]_<<current, mart>>
  BY CurrentGrows, MartGrows
<1>. QED  BY <1>1, <1>2, PipelineTypeCorrect, MartBehindStep, PTL DEF Spec, NeverRegresses

-----------------------------------------------------------------------------
(* What a run loads, overlapping runs of its partition included.           *)

(* A step that leaves the landing files alone, and lets a run at most start*)
(* over, end or go on with what it has loaded.                             *)
Quiet ==
    /\ UNCHANGED <<landing, loaded, disturbed>>
    /\ \A q \in Runs :
          \/ run'[q] = run[q]
          \/ run'[q].at \in {"extract", "failed"}
          \/ /\ run[q].at \in Building
             /\ run'[q].at \in Building \union {"success"}
             /\ run'[q].partition = run[q].partition /\ run'[q].extracted = run[q].extracted

LEMMA QuietKeepsLanding == LandingIsOwn /\ Quiet => LandingIsOwn'
<1>. SUFFICES ASSUME LandingIsOwn, Quiet  PROVE LandingIsOwn'
  OBVIOUS
<1>1. ASSUME NEW q \in Runs, run'[q].at \in {"fill", "load"}  PROVE run'[q] = run[q]
  BY <1>1 DEF Quiet, Building
<1>2. /\ \A q \in Runs : run'[q].at = "load" /\ q \notin disturbed'
                             => landing'[run'[q].partition] = run'[q].extracted
      /\ \A q \in Runs : run'[q].at \in {"fill", "load"} =>
            \A x \in run'[q].extracted : InWindow(x.updated, run'[q].partition)
  BY <1>1 DEF Quiet, LandingIsOwn
<1>3. \A p \in Partitions : \A x \in landing'[p] : InWindow(x.updated, p)
  BY DEF Quiet, LandingIsOwn
<1>4. LoadsOwnExtract'
  BY DEF Quiet, LandingIsOwn, LoadsOwnExtract, Building
<1>. QED  BY <1>2, <1>3, <1>4 DEF LandingIsOwn, InWindow, Start, End

LEMMA QuietSteps ==
    ASSUME TypeOK, [Next]_vars,
           ~ \E r \in Runs : Extract(r) \/ FillLanding(r) \/ LoadRaw(r)
    PROVE  Quiet
<1>1. CASE Tick \/ UNCHANGED vars  BY <1>1 DEF Tick, vars, Quiet
<1>2. ASSUME NEW o \in Orders, NEW k \in Kinds, NEW c \in Contents, Update(o, k, c)
      PROVE  Quiet
  BY <1>2 DEF Update, Quiet
<1>3. ASSUME NEW r \in Runs, RunFails(r) \/ \E p \in Partitions : StartRun(r, p)
      PROVE  Quiet
  BY <1>3 DEF RunFails, StartRun, Quiet, TypeOK, FeedTypeOK
<1>4. ASSUME NEW r \in Runs, StepRetry(r)  PROVE Quiet
  <2>1. UNCHANGED <<landing, loaded, disturbed>>  BY <1>4 DEF StepRetry
  <2>2. PICK a \in {"extract", "merge_order", "order_current"} :
             /\ run' = [run EXCEPT ![r].at = a]
             /\ a # "extract" => run[r].at \in {"merge_refund", "refund_current", "orders_mart",
                                                "refunds_mart", "refund_items_mart"}
    BY <1>4 DEF StepRetry
  <2>3. \A q \in Runs : /\ q # r => run'[q] = run[q]
                        /\ run'[q].partition = run[q].partition
                        /\ run'[q].extracted = run[q].extracted
    BY <2>2 DEF TypeOK, FeedTypeOK
  <2>4. run'[r].at = a  BY <2>2 DEF TypeOK, FeedTypeOK
  <2>. QED  BY <2>1, <2>2, <2>3, <2>4 DEF Quiet, Building
<1>5. ASSUME NEW r \in Runs, NEW k, NEW at \in Building, NEW next \in Building \union {"success"},
             \/ MergeVersions(r, k, at, next) \/ BuildCurrent(r, k, at, next)
             \/ BuildMart(r, k, at, next)
      PROVE  Quiet
  <2>1. /\ run[r].at = at /\ run' = [run EXCEPT ![r].at = next]
        /\ UNCHANGED <<landing, loaded, disturbed>>
    BY <1>5 DEF MergeVersions, BuildCurrent, BuildMart
  <2>. QED  BY <2>1 DEF Quiet, TypeOK, FeedTypeOK
<1>6. ASSUME NEW r \in Runs, BuildRefundItems(r)  PROVE Quiet
  BY <1>6 DEF BuildRefundItems, Quiet, Building, TypeOK, FeedTypeOK
<1>. QED  BY <1>1, <1>2, <1>3, <1>4, <1>5, <1>6 DEF Next, RunStep, Building

LEMMA LandingIsOwnStep == TypeOK /\ LandingIsOwn /\ [Next]_vars => LandingIsOwn'
<1>. SUFFICES ASSUME TypeOK, LandingIsOwn, [Next]_vars PROVE LandingIsOwn'
  OBVIOUS
<1>1. CASE ~ \E r \in Runs : Extract(r) \/ FillLanding(r) \/ LoadRaw(r)
  BY <1>1, QuietSteps, QuietKeepsLanding
<1>2. ASSUME NEW r \in Runs, Extract(r)  PROVE LandingIsOwn'
  <2>. DEFINE p == run[r].partition
              new == {Observation(o) : o \in {x \in Orders : InWindow(shop[x].updated, p)}}
  <2>1. /\ run[r].at = "extract" /\ p \in Partitions /\ loaded' = loaded
        /\ landing' = [landing EXCEPT ![p] = {}]
        /\ disturbed' = (disturbed \ {r}) \union Users(r)
        /\ \A q \in Runs \ {r} : run'[q] = run[q]
        /\ run'[r].at = "fill" /\ run'[r].partition = p /\ run'[r].extracted = new
    BY <1>2 DEF Extract, TypeOK, FeedTypeOK
  <2>2. \A x \in new : InWindow(x.updated, p)  BY DEF Observation
  <2>. HIDE DEF new
  <2>3. ASSUME NEW q \in Runs, run'[q].at = "load", q \notin disturbed'
        PROVE  landing'[run'[q].partition] = run'[q].extracted
    <3>1. q # r /\ run'[q] = run[q] /\ q \notin disturbed  BY <2>1, <2>3
    <3>2. run[q].partition # p /\ run[q].partition \in Partitions
      BY <2>1, <2>3, <3>1 DEF Users, TypeOK, FeedTypeOK
    <3>3. landing'[run[q].partition] = landing[run[q].partition]
      BY <2>1, <3>2 DEF TypeOK, FeedTypeOK
    <3>. QED  BY <2>3, <3>1, <3>3 DEF LandingIsOwn
  <2>4. \A d \in Partitions : \A x \in landing'[d] : InWindow(x.updated, d)
    BY <2>1 DEF LandingIsOwn, TypeOK, FeedTypeOK
  <2>5. \A q \in Runs : run'[q].at \in {"fill", "load"} =>
            \A x \in run'[q].extracted : InWindow(x.updated, run'[q].partition)
    BY <2>1, <2>2 DEF LandingIsOwn
  <2>6. LoadsOwnExtract'
    BY <2>1 DEF LandingIsOwn, LoadsOwnExtract, InWindow, Start, End
  <2>. QED  BY <2>3, <2>4, <2>5, <2>6 DEF LandingIsOwn, InWindow, Start, End
<1>3. ASSUME NEW r \in Runs, FillLanding(r)  PROVE LandingIsOwn'
  <2>. DEFINE p == run[r].partition
  <2>1. /\ run[r].at = "fill" /\ p \in Partitions /\ loaded' = loaded
        /\ disturbed' = disturbed \union Users(r)
        /\ \A q \in Runs \ {r} : run'[q] = run[q]
        /\ run'[r].at = "load" /\ run'[r].partition = p /\ run'[r].extracted = run[r].extracted
    BY <1>3 DEF FillLanding, TypeOK, FeedTypeOK
  <2>2. PICK file : /\ file \subseteq landing[p] \union run[r].extracted
                    /\ r \notin disturbed => file = run[r].extracted
                    /\ landing' = [landing EXCEPT ![p] = file]
    BY <1>3 DEF FillLanding
  <2>3. ASSUME NEW q \in Runs, run'[q].at = "load", q \notin disturbed'
        PROVE  landing'[run'[q].partition] = run'[q].extracted
    <3>1. q \notin disturbed  BY <2>1, <2>3
    <3>2. CASE q = r  BY <2>1, <2>2, <3>1, <3>2 DEF TypeOK, FeedTypeOK
    <3>3. CASE q # r
      <4>1. run'[q] = run[q]  BY <2>1, <3>3
      <4>2. run[q].partition # p /\ run[q].partition \in Partitions
        BY <2>1, <2>3, <3>3, <4>1 DEF Users, TypeOK, FeedTypeOK
      <4>3. landing'[run[q].partition] = landing[run[q].partition]
        BY <2>2, <4>2 DEF TypeOK, FeedTypeOK
      <4>. QED  BY <2>3, <3>1, <4>1, <4>3 DEF LandingIsOwn
    <3>. QED  BY <3>2, <3>3
  <2>4. \A x \in file : InWindow(x.updated, p)
    BY <2>1, <2>2 DEF LandingIsOwn
  <2>5. \A d \in Partitions : \A x \in landing'[d] : InWindow(x.updated, d)
    BY <2>1, <2>2, <2>4 DEF LandingIsOwn, TypeOK, FeedTypeOK
  <2>6. \A q \in Runs : run'[q].at \in {"fill", "load"} =>
            \A x \in run'[q].extracted : InWindow(x.updated, run'[q].partition)
    BY <2>1 DEF LandingIsOwn
  <2>7. LoadsOwnExtract'
    BY <2>1 DEF LandingIsOwn, LoadsOwnExtract, InWindow, Start, End
  <2>. QED  BY <2>3, <2>5, <2>6, <2>7 DEF LandingIsOwn, InWindow, Start, End
<1>4. ASSUME NEW r \in Runs, LoadRaw(r)  PROVE LandingIsOwn'
  <2>. DEFINE p == run[r].partition
  <2>1. /\ run[r].at = "load" /\ p \in Partitions /\ UNCHANGED <<landing, disturbed>>
        /\ loaded' = [loaded EXCEPT ![r] = landing[p]]
        /\ \A q \in Runs \ {r} : run'[q] = run[q]
        /\ run'[r].at = "merge_order" /\ run'[r].partition = p
        /\ run'[r].extracted = run[r].extracted
    BY <1>4 DEF LoadRaw, TypeOK, FeedTypeOK
  <2>2. \A q \in Runs \ {r} : loaded'[q] = loaded[q]  BY <2>1 DEF TypeOK, FeedTypeOK
  <2>3. loaded'[r] = landing[p]  BY <2>1 DEF TypeOK, FeedTypeOK
  <2>4. /\ r \notin disturbed => landing[p] = run[r].extracted
        /\ \A x \in landing[p] : InWindow(x.updated, p)
    BY <2>1 DEF LandingIsOwn
  <2>5. LoadsOwnExtract'
    <3>. SUFFICES ASSUME NEW q \in Runs,
                         run'[q].at \notin {"idle", "extract", "fill", "load", "failed"}
                  PROVE  /\ q \notin disturbed' => loaded'[q] = run'[q].extracted
                         /\ \A x \in loaded'[q] : InWindow(x.updated, run'[q].partition)
      BY DEF LoadsOwnExtract, InWindow, Start, End
    <3>1. CASE q = r  BY <2>1, <2>3, <2>4, <3>1
    <3>2. CASE q # r  BY <2>1, <2>2, <3>2 DEF LandingIsOwn, LoadsOwnExtract
    <3>. QED  BY <3>1, <3>2
  <2>6. \A q \in Runs : run'[q].at \in {"fill", "load"} => q # r
    BY <2>1
  <2>. QED  BY <2>1, <2>5, <2>6 DEF LandingIsOwn, InWindow, Start, End
<1>. QED  BY <1>1, <1>2, <1>3, <1>4

(* A run whose landing file no other run of the partition touched before   *)
(* it was read loads what it extracted; the others load observations of    *)
(* the partition's window all the same.                                    *)
THEOREM RunsLoadTheirOwnExtract == Spec => []LoadsOwnExtract
<1>1. Init => LandingIsOwn
  BY DEF Init, LandingIsOwn, LoadsOwnExtract
<1>2. TypeOK /\ LandingIsOwn /\ [Next]_vars => LandingIsOwn'
  BY LandingIsOwnStep
<1>3. LandingIsOwn => LoadsOwnExtract
  BY DEF LandingIsOwn
<1>. QED  BY <1>1, <1>2, <1>3, PipelineTypeCorrect, PTL DEF Spec

(* Once loaded, a run does not become undisturbed.                         *)
LEMMA StaysDisturbed ==
    ASSUME TypeOK, [Next]_vars, NEW r \in Runs, r \in disturbed, r \notin disturbed'
    PROVE  run'[r].at = "fill"
<1>1. CASE \E q \in Runs : Extract(q) \/ FillLanding(q) \/ LoadRaw(q)
  BY <1>1 DEF Extract, FillLanding, LoadRaw, TypeOK, FeedTypeOK
<1>2. CASE ~ \E q \in Runs : Extract(q) \/ FillLanding(q) \/ LoadRaw(q)
  BY <1>2, QuietSteps DEF Quiet
<1>. QED  BY <1>1, <1>2

-----------------------------------------------------------------------------
(* A tick lies in its own day, and a day has a beginning and an end.       *)
LEMMA DayBounds ==
    ASSUME NEW t \in Nat, t >= 1
    PROVE  Start(DayOf(t)) <= t /\ t < End(DayOf(t))
<1>. DEFINE q == (t - 1) \div DayLength
<1>1. q \in Int /\ q * DayLength <= t - 1 /\ t - 1 < (q + 1) * DayLength
  BY PipelineAssumption
<1>. QED  BY <1>1, PipelineAssumption DEF Start, End, DayOf

LEMMA WindowEnds ==
    ASSUME NEW p \in Partitions
    PROVE  Start(p) \in Int /\ End(p) \in Int
<1>1. p * DayLength \in Int /\ (p - 1) * DayLength \in Int
  BY PipelineAssumption DEF Partitions
<1>. QED  BY <1>1 DEF Start, End

(* The clocks of the shop are numbers.                                     *)
LEMMA ShopClocks ==
    ASSUME TypeOK, NEW o \in Orders
    PROVE  /\ now \in Nat /\ now >= 1 /\ shop[o].updated \in Nat
           /\ \A k \in Kinds : shop[o].clock[k] \in Nat
BY LastTickIsNat DEF TypeOK, ShopTypeOK, Times

(* Whoever updates the shop does so on a day that no run has begun to read.*)
LEMMA NothingIsOwedYet ==
    ASSUME TypeOK, RunsArePast, NEW r \in Runs,
           NEW o \in Orders, NEW k \in Kinds, NEW c \in Contents, Update(o, k, c)
    PROVE  ~ Owes(r, o)'
<1>. SUFFICES ASSUME Owes(r, o)'  PROVE FALSE
  OBVIOUS
<1>1. shop'[o].updated = now  BY DEF Update, TypeOK, ShopTypeOK
<1>2. run' = run  BY DEF Update
<1>3. run[r].partition \in Partitions /\ End(run[r].partition) <= now
  BY <1>2 DEF Owes, RunsArePast, TypeOK, FeedTypeOK
<1>4. DayOf(now) = run[r].partition  BY <1>1, <1>2 DEF Owes
<1>5. now < End(DayOf(now))  BY ShopClocks, DayBounds
<1>. QED  BY <1>3, <1>4, <1>5, WindowEnds, ShopClocks

(* The shop moves on: what was known of it stays known.                    *)
LEMMA NotAheadStep ==
    ASSUME TypeOK, ShopIsPast, [Next]_vars,
           NEW j \in Kinds, NEW x \in Orders, NEW d, NEW t \in Nat, NotAhead(j, x, d, t)
    PROVE  NotAhead(j, x, d, t)'
<1>1. CASE Tick
  BY <1>1, ShopClocks DEF NotAhead, Tick
<1>2. ASSUME NEW o \in Orders, NEW k \in Kinds, NEW c \in Contents, Update(o, k, c)
      PROVE  NotAhead(j, x, d, t)'
  <2>1. now' = now /\ t < now  BY <1>2 DEF Update, NotAhead
  <2>2. CASE x # o
    <3>1. shop'[x] = shop[x]  BY <1>2, <2>2 DEF Update, TypeOK, ShopTypeOK
    <3>. QED  BY <2>1, <3>1 DEF NotAhead
  <2>3. CASE x = o
    <3>1. \/ shop'[o].clock[j] = now
          \/ shop'[o].clock[j] = shop[o].clock[j] /\ shop'[o].content[j] = shop[o].content[j]
      BY <1>2 DEF Update, TypeOK, ShopTypeOK, Kinds
    <3>. QED  BY <2>1, <2>3, <3>1, ShopClocks DEF NotAhead
  <2>. QED  BY <2>2, <2>3
<1>3. CASE UNCHANGED <<now, shop>>
  BY <1>3 DEF NotAhead
<1>. QED
  BY <1>1, <1>2, <1>3
  DEF Next, RunStep, vars, StartRun, RunFails, StepRetry, Extract, FillLanding, LoadRaw,
      MergeVersions, BuildCurrent, BuildMart, BuildRefundItems

LEMMA ShopIsPastStep == TypeOK /\ ShopIsPast /\ [Next]_vars => ShopIsPast'
<1>. SUFFICES ASSUME TypeOK, ShopIsPast, [Next]_vars PROVE ShopIsPast'
  OBVIOUS
<1>1. CASE Tick
  BY <1>1, ShopClocks DEF ShopIsPast, Tick, Kinds
<1>2. ASSUME NEW o \in Orders, NEW k \in Kinds, NEW c \in Contents, Update(o, k, c)
      PROVE  ShopIsPast'
  <2>. SUFFICES ASSUME NEW x \in Orders, NEW j \in Kinds
                PROVE  /\ shop'[x].updated <= now /\ shop'[x].clock["order"] = shop'[x].updated
                       /\ shop'[x].clock[j] <= shop'[x].updated
    BY <1>2 DEF ShopIsPast, Update
  <2>1. CASE x # o
    BY <1>2, <2>1 DEF ShopIsPast, Update, TypeOK, ShopTypeOK
  <2>2. CASE x = o
    <3>1. /\ shop'[o].updated = now /\ shop'[o].clock["order"] = now
          /\ shop'[o].clock[j] \in {now, shop[o].clock[j]}
      BY <1>2 DEF Update, TypeOK, ShopTypeOK, Kinds
    <3>. QED  BY <2>2, <3>1, ShopClocks DEF ShopIsPast
  <2>. QED  BY <2>1, <2>2
<1>3. CASE UNCHANGED <<now, shop>>
  BY <1>3 DEF ShopIsPast
<1>. QED
  BY <1>1, <1>2, <1>3
  DEF Next, RunStep, vars, StartRun, RunFails, StepRetry, Extract, FillLanding, LoadRaw,
      MergeVersions, BuildCurrent, BuildMart, BuildRefundItems

LEMMA ClockedHasContentStep == TypeOK /\ ClockedHasContent /\ [Next]_vars => ClockedHasContent'
<1>. SUFFICES ASSUME TypeOK, ClockedHasContent, [Next]_vars, NEW x \in Orders, NEW j \in Kinds
              PROVE  shop'[x].clock[j] # 0 => shop'[x].content[j] # "none"
  BY DEF ClockedHasContent
<1>1. ASSUME NEW o \in Orders, NEW k \in Kinds, NEW c \in Contents, Update(o, k, c)
      PROVE  shop'[x].clock[j] # 0 => shop'[x].content[j] # "none"
  <2>1. c # "none"  BY PipelineAssumption
  <2>2. \/ shop'[x].content[j] = c
        \/ shop'[x].content[j] = shop[x].content[j] /\ shop'[x].clock[j] = shop[x].clock[j]
        \/ shop'[x].content[j] = shop[x].content[j] /\ shop[x].content[j] # "none"
    BY <1>1 DEF Update, TypeOK, ShopTypeOK, Kinds
  <2>. QED  BY <2>1, <2>2 DEF ClockedHasContent
<1>2. CASE shop' = shop  BY <1>2 DEF ClockedHasContent
<1>. QED  BY <1>1, <1>2, WhoSells

(* A run begins when its day is over, and the day stays over.              *)
LEMMA RunsArePastStep == TypeOK /\ RunsArePast /\ [Next]_vars => RunsArePast'
<1>. SUFFICES ASSUME TypeOK, RunsArePast, [Next]_vars, NEW r \in Runs, run'[r].at # "idle"
              PROVE  End(run'[r].partition) <= now'
  BY DEF RunsArePast
<1>1. CASE Tick
  <2>1. run'[r] = run[r] /\ now' = now + 1  BY <1>1 DEF Tick
  <2>2. run[r].partition \in Partitions /\ End(run[r].partition) <= now
    BY <2>1 DEF RunsArePast, TypeOK, FeedTypeOK
  <2>3. now \in Nat  BY LastTickIsNat DEF TypeOK, ShopTypeOK
  <2>. QED  BY <2>1, <2>2, <2>3, WindowEnds
<1>2. ASSUME NEW q \in Runs, NEW p \in Partitions, StartRun(q, p)
      PROVE  End(run'[r].partition) <= now'
  <2>1. now' = now /\ End(p) <= now
    BY <1>2, WindowEnds, LastTickIsNat DEF StartRun, TypeOK, ShopTypeOK
  <2>2. \/ run'[r].partition = p
        \/ run'[r] = run[r]
    BY <1>2 DEF StartRun, TypeOK, FeedTypeOK
  <2>. QED  BY <2>1, <2>2 DEF RunsArePast
<1>3. CASE run'[r].partition = run[r].partition /\ run[r].at # "idle" /\ now' = now
  BY <1>3 DEF RunsArePast
<1>4. ASSUME NEW q \in Runs, RunStep(q) \/ StepRetry(q) \/ RunFails(q)
      PROVE  run'[r].partition = run[r].partition /\ run[r].at # "idle" /\ now' = now
  BY <1>4
  DEF RunStep, RunFails, StepRetry, Active, Extract, FillLanding, LoadRaw,
      MergeVersions, BuildCurrent, BuildMart, BuildRefundItems, TypeOK, FeedTypeOK
<1>5. CASE UNCHANGED <<now, run>>  BY <1>3, <1>5
<1>6. ASSUME NEW q \in Runs, RunStep(q) \/ StepRetry(q) \/ RunFails(q)
      PROVE  End(run'[r].partition) <= now'
  BY <1>3, <1>4, <1>6
<1>7. ASSUME NEW o \in Orders, NEW k \in Kinds, NEW c \in Contents, Update(o, k, c)
      PROVE  UNCHANGED <<now, run>>
  BY <1>7 DEF Update
<1>. QED  BY <1>1, <1>2, <1>5, <1>6, <1>7 DEF Next, vars

(* What is extracted of an order is of the past: its window has ended.     *)
LEMMA ExtractIsPast ==
    ASSUME TypeOK, ShopIsPast, RunsArePast, NEW r \in Runs, run[r].at = "extract",
           NEW o \in Orders, InWindow(shop[o].updated, run[r].partition), NEW k \in Kinds
    PROVE  NotAhead(k, o, shop[o].content[k], shop[o].clock[k])
<1>1. run[r].partition \in Partitions /\ End(run[r].partition) <= now
  BY DEF RunsArePast, TypeOK, FeedTypeOK
<1>2. shop[o].updated < End(run[r].partition)  BY DEF InWindow
<1>3. shop[o].clock[k] <= shop[o].updated  BY DEF ShopIsPast
<1>. QED  BY <1>1, <1>2, <1>3, ShopClocks, WindowEnds DEF NotAhead

LEMMA KnownStays ==
    ASSUME TypeOK, ShopIsPast, [Next]_vars, NEW S, S \subseteq Observations, KnownIn(S)
    PROVE  KnownIn(S)'
<1>. SUFFICES ASSUME NEW x \in S, NEW k \in Kinds
              PROVE  NotAhead(k, x.order, x.content[k], x.clock[k])'
  BY DEF KnownIn
<1>1. x.order \in Orders /\ x.clock[k] \in Nat
  BY LastTickIsNat DEF Observations, Times
<1>2. NotAhead(k, x.order, x.content[k], x.clock[k])  BY DEF KnownIn
<1>. QED  BY <1>1, <1>2, NotAheadStep

(* So it is with whatever is on its way to the tables.                     *)
LEMMA FeedIsPastStep ==
    TypeOK /\ ShopIsPast /\ RunsArePast /\ FeedIsPast /\ [Next]_vars => FeedIsPast'
<1>. SUFFICES ASSUME TypeOK, ShopIsPast, RunsArePast, FeedIsPast, [Next]_vars
              PROVE  FeedIsPast'
  OBVIOUS
<1>1. /\ KnownIn(raw) /\ raw \subseteq Observations
      /\ \A p \in Partitions : KnownIn(landing[p]) /\ landing[p] \subseteq Observations
      /\ \A r \in Runs : KnownIn(run[r].extracted) /\ run[r].extracted \subseteq Observations
  BY DEF FeedIsPast, TypeOK, FeedTypeOK
<1>2. \A p \in Partitions : landing'[p] = landing[p]
                            \/ \E r \in Runs : landing'[p] \subseteq landing[p] \union run[r].extracted
  <2>1. ASSUME NEW r \in Runs, Extract(r)
        PROVE  \A p \in Partitions : landing'[p] \subseteq landing[p] \union run[r].extracted
    BY <2>1 DEF Extract, TypeOK, FeedTypeOK
  <2>2. ASSUME NEW r \in Runs, FillLanding(r)
        PROVE  \A p \in Partitions : landing'[p] \subseteq landing[p] \union run[r].extracted
    <3>1. PICK file \in SUBSET (landing[run[r].partition] \union run[r].extracted) :
              landing' = [landing EXCEPT ![run[r].partition] = file]
      BY <2>2 DEF FillLanding
    <3>. QED  BY <3>1 DEF TypeOK, FeedTypeOK
  <2>. QED  BY <2>1, <2>2, WhoLands
<1>3. raw' = raw \/ \E p \in Partitions : raw' = raw \union landing[p]
  <2>1. ASSUME NEW r \in Runs, LoadRaw(r)
        PROVE  \E p \in Partitions : raw' = raw \union landing[p]
    BY <2>1 DEF LoadRaw, TypeOK, FeedTypeOK
  <2>. QED  BY <2>1, WhoLoads
<1>. DEFINE Window(p) == {Observation(o) : o \in {x \in Orders : InWindow(shop[x].updated, p)}}
            NewExtract(r) == run[r].at = "extract" /\ run'[r].extracted = Window(run[r].partition)
<1>4. \A r \in Runs : run'[r].extracted = run[r].extracted \/ NewExtract(r)
  <2>1. ASSUME NEW r \in Runs, Extract(r)  PROVE NewExtract(r)
    BY <2>1 DEF Extract, TypeOK, FeedTypeOK
  <2>. HIDE DEF NewExtract
  <2>. QED  BY <2>1, WhoExtracts
<1>5. ASSUME NEW r \in Runs, run[r].at = "extract"
      PROVE  KnownIn(Window(run[r].partition)) /\ Window(run[r].partition) \subseteq Observations
  <2>1. ASSUME NEW o \in Orders, InWindow(shop[o].updated, run[r].partition), NEW k \in Kinds
        PROVE  NotAhead(k, o, shop[o].content[k], shop[o].clock[k])
    BY <1>5, <2>1, ExtractIsPast
  <2>2. ASSUME NEW o \in Orders
        PROVE  /\ Observation(o) \in Observations /\ Observation(o).order = o
               /\ Observation(o).content = shop[o].content /\ Observation(o).clock = shop[o].clock
    BY ObservationType DEF TypeOK, Observation
  <2>. QED  BY <2>1, <2>2 DEF KnownIn
<1>6. KnownIn(raw)'
  <2>1. KnownIn(raw \union {}) /\ \A p \in Partitions : KnownIn(raw \union landing[p])
    BY <1>1 DEF KnownIn
  <2>2. ASSUME NEW p \in Partitions, NEW S, S = raw \union landing[p], raw' = S
        PROVE  KnownIn(raw)'
    <3>1. KnownIn(S) /\ S \subseteq Observations  BY <1>1, <2>1, <2>2
    <3>. HIDE DEF Window
    <3>2. KnownIn(S)'  BY <3>1, KnownStays
    <3>. QED  BY <2>2, <3>2 DEF KnownIn
  <2>3. ASSUME NEW S, S = raw, raw' = S
        PROVE  KnownIn(raw)'
    <3>1. KnownIn(S)'  BY <1>1, <2>3, KnownStays
    <3>. QED  BY <2>3, <3>1 DEF KnownIn
  <2>. QED  BY <1>3, <2>2, <2>3
<1>7. ASSUME NEW p \in Partitions  PROVE KnownIn(landing[p])'
  <2>1. ASSUME NEW r \in Runs  PROVE KnownIn(landing[p] \union run[r].extracted)
    BY <1>1 DEF KnownIn
  <2>2. ASSUME NEW S, KnownIn(S), S \subseteq Observations, landing'[p] \subseteq S
        PROVE  KnownIn(landing[p])'
    <3>1. KnownIn(S)'  BY <2>2, KnownStays
    <3>. QED  BY <2>2, <3>1 DEF KnownIn
  <2>. QED  BY <1>1, <1>2, <2>1, <2>2
<1>8. ASSUME NEW r \in Runs  PROVE KnownIn(run[r].extracted)'
  <2>1. ASSUME NEW S, KnownIn(S), S \subseteq Observations, run'[r].extracted = S
        PROVE  KnownIn(run[r].extracted)'
    <3>1. KnownIn(S)'  BY <2>1, KnownStays
    <3>. QED  BY <2>1, <3>1 DEF KnownIn
  <2>2. CASE NewExtract(r)  BY <1>5, <2>1, <2>2
  <2>. HIDE DEF NewExtract
  <2>. QED  BY <1>1, <1>4, <2>1, <2>2
<1>. QED  BY <1>6, <1>7, <1>8 DEF FeedIsPast

(* A merged clock is that of the version or of one of its observations.    *)
LEMMA MergedIsPast ==
    ASSUME TypeOK, FeedIsPast, TablesArePast,
           NEW k \in Kinds, NEW o \in Orders, NEW c \in Contents, NEW p
    PROVE  NotAhead(k, o, c, Merged(k, o, c, p))
<1>1. NotAhead(k, o, c, versions[k][o][c])  BY DEF TablesArePast
<1>2. ASSUME NEW t \in Observed(k, o, c, p)  PROVE NotAhead(k, o, c, t)
  BY DEF Observed, FeedIsPast, KnownIn
<1>3. CASE Observed(k, o, c, p) = {}  BY <1>1, <1>3 DEF Merged
<1>4. CASE Observed(k, o, c, p) # {}
  <2>1. Observed(k, o, c, p) \subseteq Times
    BY DEF TypeOK, FeedTypeOK, Observed, Observations
  <2>2. Max(Observed(k, o, c, p)) \in Observed(k, o, c, p)
    BY <1>4, <2>1, MaxOfClocks
  <2>3. Merged(k, o, c, p) \in {versions[k][o][c], Max(Observed(k, o, c, p))}
    BY <1>4 DEF Merged, Later
  <2>4. CASE Merged(k, o, c, p) = versions[k][o][c]  BY <1>1, <2>4
  <2>5. CASE Merged(k, o, c, p) = Max(Observed(k, o, c, p))  BY <1>2, <2>2, <2>5
  <2>. QED  BY <2>3, <2>4, <2>5
<1>. QED  BY <1>3, <1>4

(* A winner is one of the versions or the row that was there.              *)
LEMMA WinnerIsPast ==
    ASSUME TypeOK, TablesArePast, NEW k \in Kinds, NEW o \in Orders, NEW p
    PROVE  NotAhead(k, o, Winner(k, o, p).content, Winner(k, o, p).clock)
<1>1. NotAhead(k, o, current[k][o].content, current[k][o].clock)  BY DEF TablesArePast
<1>2. ASSUME NEW x \in Candidates(k, o, p)  PROVE NotAhead(k, o, x.content, x.clock)
  <2>1. PICK c \in Contents : x = Row(c, versions[k][o][c])  BY DEF Candidates
  <2>2. x.content = c /\ x.clock = versions[k][o][c]  BY <2>1 DEF Row
  <2>. QED  BY <2>2 DEF TablesArePast
<1>3. Winner(k, o, p) \in Candidates(k, o, p) \union {current[k][o]}
  <2>1. Candidates(k, o, p) \subseteq Rows
    BY PipelineAssumption DEF Candidates, Row, Rows, InWindow, TypeOK, TableTypeOK
  <2>. DEFINE pool == Candidates(k, o, p) \union {current[k][o]}
  <2>2. pool \subseteq Rows /\ pool # {}  BY <2>1 DEF TypeOK, TableTypeOK
  <2>3. Latest(pool) \in pool
    <3>. HIDE DEF pool
    <3>. QED  BY <2>2, LatestIsLatest
  <2>. QED  BY <2>3 DEF Winner
<1>. QED  BY <1>1, <1>2, <1>3

(* So no table ever knows what the shop does not.                          *)
LEMMA TablesArePastStep ==
    TypeOK /\ ShopIsPast /\ FeedIsPast /\ TablesArePast /\ [Next]_vars => TablesArePast'
<1>. SUFFICES ASSUME TypeOK, ShopIsPast, FeedIsPast, TablesArePast, [Next]_vars,
                     NEW k \in Kinds, NEW o \in Orders
              PROVE  /\ \A c \in Contents : NotAhead(k, o, c, versions[k][o][c])'
                     /\ NotAhead(k, o, current[k][o].content, current[k][o].clock)'
                     /\ NotAhead(k, o, mart[k][o].content, mart[k][o].clock)'
  BY DEF TablesArePast
<1>1. ASSUME NEW c \in Contents  PROVE NotAhead(k, o, c, versions[k][o][c])'
  <2>1. /\ NotAhead(k, o, c, versions[k][o][c]) /\ versions[k][o][c] \in Nat
        /\ \A p : NotAhead(k, o, c, Merged(k, o, c, p)) /\ Merged(k, o, c, p) \in Nat
    BY MergedIsPast, MergedType, LastTickIsNat
    DEF TablesArePast, TypeOK, TableTypeOK, Times
  <2>2. ASSUME NEW t \in Nat, NotAhead(k, o, c, t), versions'[k][o][c] = t
        PROVE  NotAhead(k, o, c, versions[k][o][c])'
    BY <2>2, NotAheadStep DEF NotAhead
  <2>. QED  BY <2>1, <2>2, VersionSteps
<1>2. ASSUME NEW x \in Rows, NotAhead(k, o, x.content, x.clock)
      PROVE  /\ current'[k][o] = x => NotAhead(k, o, current[k][o].content, current[k][o].clock)'
             /\ mart'[k][o] = x => NotAhead(k, o, mart[k][o].content, mart[k][o].clock)'
  <2>1. x.clock \in Nat  BY LastTickIsNat DEF Rows, Times
  <2>. QED  BY <1>2, <2>1, NotAheadStep DEF NotAhead
<1>3. /\ current[k][o] \in Rows /\ mart[k][o] \in Rows
      /\ NotAhead(k, o, current[k][o].content, current[k][o].clock)
      /\ NotAhead(k, o, mart[k][o].content, mart[k][o].clock)
  BY DEF TablesArePast, TypeOK, TableTypeOK
<1>4. NotAhead(k, o, current[k][o].content, current[k][o].clock)'
  <2>1. CASE current'[k][o] = current[k][o]  BY <1>2, <1>3, <2>1
  <2>2. ASSUME NEW p \in Partitions, current'[k][o] = Winner(k, o, p)
        PROVE  NotAhead(k, o, current[k][o].content, current[k][o].clock)'
    BY <1>2, <2>2, WinnerIsPast, WinnerIsNotOlder
  <2>. QED  BY <2>1, <2>2, CurrentSteps
<1>5. NotAhead(k, o, mart[k][o].content, mart[k][o].clock)'
  BY <1>2, <1>3, MartSteps
<1>. QED  BY <1>1, <1>4, <1>5

-----------------------------------------------------------------------------
(* A run moves by its own steps only.                                      *)
LEMMA OwnStep ==
    ASSUME TypeOK, [Next]_vars, NEW r \in Runs, run'[r] # run[r]
    PROVE  RunStep(r) \/ StepRetry(r) \/ RunFails(r) \/ \E p \in Partitions : StartRun(r, p)
<1>1. ASSUME NEW q \in Runs, q # r, RunStep(q)  PROVE run'[r] = run[r]
  <2>1. CASE Extract(q) \/ FillLanding(q) \/ LoadRaw(q) \/ BuildRefundItems(q)
    BY <1>1, <2>1 DEF Extract, FillLanding, LoadRaw, BuildRefundItems, TypeOK, FeedTypeOK
  <2>2. ASSUME NEW k, NEW at, NEW next,
               MergeVersions(q, k, at, next) \/ BuildCurrent(q, k, at, next) \/ BuildMart(q, k, at, next)
        PROVE  run'[r] = run[r]
    BY <1>1, <2>2 DEF MergeVersions, BuildCurrent, BuildMart, TypeOK, FeedTypeOK
  <2>. QED  BY <1>1, <2>1, <2>2 DEF RunStep
<1>2. ASSUME NEW q \in Runs, q # r,
             StepRetry(q) \/ RunFails(q) \/ \E p \in Partitions : StartRun(q, p)
      PROVE  run'[r] = run[r]
  BY <1>2 DEF StepRetry, RunFails, StartRun, TypeOK, FeedTypeOK
<1>3. ASSUME NEW o \in Orders, NEW k \in Kinds, NEW c \in Contents, Update(o, k, c)
      PROVE  run'[r] = run[r]
  BY <1>3 DEF Update
<1>4. CASE Tick \/ UNCHANGED vars  BY <1>4 DEF Tick, vars
<1>. QED  BY <1>1, <1>2, <1>3, <1>4 DEF Next

(* While a run owes an order to the tables, the order rests in the shop.   *)
LEMMA OwedOrderRests ==
    ASSUME TypeOK, RunsArePast, [Next]_vars, NEW r \in Runs, NEW o \in Orders, Owes(r, o)'
    PROVE  shop'[o] = shop[o]
<1>1. ASSUME NEW x \in Orders, NEW k \in Kinds, NEW c \in Contents, Update(x, k, c)
      PROVE  shop'[o] = shop[o]
  <2>1. x # o  BY <1>1, NothingIsOwedYet
  <2>. QED  BY <1>1, <2>1 DEF Update, TypeOK, ShopTypeOK
<1>. QED  BY <1>1, WhoSells

(* An order owed by a run is in the run's window.                          *)
LEMMA OwedIsInWindow ==
    ASSUME TypeOK, NEW r \in Runs, NEW o \in Orders, Owes(r, o)
    PROVE  InWindow(shop[o].updated, run[r].partition)
<1>. DEFINE t == shop[o].updated
            p == run[r].partition
<1>1. t \in Nat /\ t >= 1 /\ DayOf(t) = p /\ p \in Partitions
  BY ShopClocks DEF Owes, TypeOK, FeedTypeOK
<1>2. Start(p) <= t /\ t < End(p)
  <2>. HIDE DEF t, p
  <2>. QED  BY <1>1, DayBounds
<1>3. Start(p) \in Int /\ Lookback \in Nat  BY <1>1, WindowEnds, PipelineAssumption
<1>. QED  BY <1>1, <1>2, <1>3 DEF InWindow

(* What a run owes, it has extracted, and then loaded.                     *)
LEMMA FeedDeliversStep ==
    TypeOK /\ RunsArePast /\ LandingIsOwn /\ FeedDelivers /\ [Next]_vars => FeedDelivers'
<1>. SUFFICES ASSUME TypeOK, RunsArePast, LandingIsOwn, FeedDelivers, [Next]_vars,
                     NEW r \in Runs, NEW o \in Orders, Owes(r, o)'
              PROVE  /\ run'[r].at \in AfterExtract => Observation(o)' \in run'[r].extracted
                     /\ run'[r].at \in AfterLoad /\ r \notin disturbed' => Observation(o)' \in raw'
  BY DEF FeedDelivers
<1>1. shop'[o] = shop[o]  BY OwedOrderRests
<1>2. Observation(o)' = Observation(o)  BY <1>1 DEF Observation
<1>3. raw \subseteq raw'  BY WhoLoads DEF LoadRaw
<1>14. run'[r].at \in AfterLoad /\ r \notin disturbed' => r \notin disturbed
  BY StaysDisturbed DEF AfterLoad, AfterMerge, AfterCurrent, AfterMart
<1>4. CASE /\ run'[r].at # "idle" => /\ run[r].at # "idle" /\ run'[r].partition = run[r].partition
                                     /\ run'[r].extracted = run[r].extracted
           /\ run'[r].at \in AfterExtract => run[r].at \in AfterExtract
           /\ run'[r].at \in AfterLoad => run[r].at \in AfterLoad
  <2>1. Owes(r, o)  BY <1>1, <1>4 DEF Owes
  <2>. QED  BY <1>2, <1>3, <1>4, <1>14, <2>1 DEF FeedDelivers, Owes
<1>5. CASE Extract(r)
  <2>1. /\ run'[r].partition = run[r].partition /\ run[r].at = "extract" /\ run'[r].at = "fill"
        /\ run'[r].extracted = {Observation(x) : x \in
                                  {y \in Orders : InWindow(shop[y].updated, run[r].partition)}}
    BY <1>5 DEF Extract, TypeOK, FeedTypeOK
  <2>2. Owes(r, o)  BY <1>1, <2>1 DEF Owes
  <2>3. Observation(o) \in run'[r].extracted  BY <2>1, <2>2, OwedIsInWindow
  <2>4. run'[r].at \notin AfterLoad
    BY <2>1 DEF AfterLoad, AfterMerge, AfterCurrent, AfterMart
  <2>. QED  BY <1>2, <2>3, <2>4
<1>6. CASE LoadRaw(r)
  <2>1. /\ run'[r].partition = run[r].partition /\ run'[r].extracted = run[r].extracted
        /\ run[r].at = "load" /\ raw' = raw \union landing[run[r].partition]
    BY <1>6 DEF LoadRaw, TypeOK, FeedTypeOK
  <2>2. Owes(r, o)  BY <1>1, <2>1 DEF Owes
  <2>3. Observation(o) \in run[r].extracted
    BY <2>1, <2>2 DEF FeedDelivers, AfterExtract
  <2>4. r \notin disturbed => landing[run[r].partition] = run[r].extracted
    BY <2>1 DEF LandingIsOwn
  <2>. QED  BY <1>2, <1>14, <2>1, <2>3, <2>4
<1>7. CASE FillLanding(r)
  <2>1. /\ run'[r].partition = run[r].partition /\ run'[r].extracted = run[r].extracted
        /\ run[r].at = "fill" /\ run'[r].at = "load"
    BY <1>7 DEF FillLanding, TypeOK, FeedTypeOK
  <2>2. run[r].at \in AfterExtract /\ run'[r].at \notin AfterLoad
    BY <2>1 DEF AfterExtract, AfterLoad, AfterMerge, AfterCurrent, AfterMart
  <2>. QED  BY <1>4, <2>1, <2>2
<1>8. ASSUME NEW k \in Kinds, NEW at \in Building, NEW next \in Building,
             MergeVersions(r, k, at, next) \/ BuildCurrent(r, k, at, next) \/ BuildMart(r, k, at, next)
      PROVE  /\ run'[r].partition = run[r].partition /\ run'[r].extracted = run[r].extracted
             /\ run[r].at \in AfterLoad
  <2>1. /\ run'[r].partition = run[r].partition /\ run'[r].extracted = run[r].extracted
        /\ run[r].at = at
    BY <1>8 DEF MergeVersions, BuildCurrent, BuildMart, TypeOK, FeedTypeOK
  <2>. QED  BY <2>1 DEF Building, AfterLoad, AfterMerge, AfterCurrent, AfterMart
<1>9. CASE BuildRefundItems(r)
  <2>1. /\ run'[r].partition = run[r].partition /\ run'[r].extracted = run[r].extracted
        /\ run[r].at = "refund_items_mart"
    BY <1>9 DEF BuildRefundItems, TypeOK, FeedTypeOK
  <2>2. run[r].at \in AfterLoad  BY <2>1 DEF AfterLoad, AfterMerge, AfterCurrent, AfterMart
  <2>. QED  BY <1>4, <2>1, <2>2 DEF AfterExtract, AfterLoad
<1>10. CASE StepRetry(r)
  <2>1. /\ run'[r].partition = run[r].partition /\ run'[r].extracted = run[r].extracted
        /\ \/ run'[r].at = "extract" /\ run[r].at # "idle"
           \/ run[r].at \in {"merge_refund", "refund_current", "orders_mart", "refunds_mart",
                             "refund_items_mart"}
    BY <1>10 DEF StepRetry, TypeOK, FeedTypeOK
  <2>2. CASE run'[r].at = "extract" /\ run[r].at # "idle"
    BY <1>4, <2>1, <2>2 DEF AfterExtract, AfterLoad, AfterMerge, AfterCurrent, AfterMart
  <2>3. CASE run[r].at \in {"merge_refund", "refund_current", "orders_mart", "refunds_mart",
                            "refund_items_mart"}
    <3>1. run[r].at \in AfterLoad  BY <2>3 DEF AfterLoad, AfterMerge, AfterCurrent, AfterMart
    <3>. QED  BY <1>4, <2>1, <2>3, <3>1 DEF AfterExtract
  <2>. QED  BY <2>1, <2>2, <2>3
<1>11. CASE RunFails(r) \/ \E p \in Partitions : StartRun(r, p)
  <2>1. run'[r].at \in {"failed", "extract"}
    BY <1>11 DEF RunFails, StartRun, TypeOK, FeedTypeOK
  <2>. QED  BY <2>1 DEF AfterExtract, AfterLoad, AfterMerge, AfterCurrent, AfterMart
<1>12. CASE run'[r] = run[r]  BY <1>4, <1>12 DEF Owes
<1>13. ASSUME NEW k \in Kinds, NEW at \in Building, NEW next \in Building,
              MergeVersions(r, k, at, next) \/ BuildCurrent(r, k, at, next) \/ BuildMart(r, k, at, next)
       PROVE  /\ run'[r].at \in AfterExtract => Observation(o)' \in run'[r].extracted
              /\ run'[r].at \in AfterLoad /\ r \notin disturbed' => Observation(o)' \in raw'
  BY <1>4, <1>8, <1>13 DEF AfterExtract, AfterLoad, AfterMerge, AfterCurrent, AfterMart
<1>. QED
  BY <1>5, <1>6, <1>7, <1>9, <1>10, <1>11, <1>12, <1>13, OwnStep
  DEF RunStep, Kinds, Building

LEMMA MaxIsGreatest ==
    ASSUME NEW S, S \subseteq Times, NEW x \in S
    PROVE  x <= Max(S)
<1>1. \E m \in S : \A y \in S : y <= m
  BY LastTickIsNat, GreatestExists DEF Times
<1>2. S \subseteq Nat  BY LastTickIsNat DEF Times
<1>3. \E m \in S : \A y \in S : m >= y  BY <1>1, <1>2
<1>4. Max(S) \in S /\ \A y \in S : Max(S) >= y  BY <1>3 DEF Max
<1>. QED  BY <1>2, <1>4

(* A run that has loaded an order merges it at the clock of the shop,      *)
LEMMA MergeDelivers ==
    ASSUME TypeOK, FeedIsPast, TablesArePast,
           NEW r \in Runs, NEW o \in Orders, NEW k \in Kinds, Owes(r, o),
           Observation(o) \in raw, shop[o].content[k] \in Contents
    PROVE  Merged(k, o, shop[o].content[k], run[r].partition) = shop[o].clock[k]
<1>. DEFINE c == shop[o].content[k]
            t == shop[o].clock[k]
            S == Observed(k, o, c, run[r].partition)
<1>1. t \in S
  BY OwedIsInWindow DEF Observed, Observation
<1>2. S \subseteq Times
  BY DEF TypeOK, FeedTypeOK, Observed, Observations
<1>3. \A x \in S : x <= t
  BY DEF Observed, FeedIsPast, KnownIn, NotAhead
<1>4. versions[k][o][c] <= t /\ versions[k][o][c] \in Nat
  BY LastTickIsNat DEF TablesArePast, NotAhead, TypeOK, TableTypeOK, Times
<1>5. Max(S) \in S /\ t <= Max(S)
  <2>. HIDE DEF S, t
  <2>. QED  BY <1>1, <1>2, MaxOfClocks, MaxIsGreatest
<1>6. Max(S) = t /\ t \in Nat
  <2>1. S \subseteq Nat  BY <1>2, LastTickIsNat DEF Times
  <2>. DEFINE m == Max(S)
  <2>2. m \in S /\ t <= m  BY <1>5
  <2>3. m <= t  BY <1>3, <2>2
  <2>4. m \in Nat /\ t \in Nat
    <3>. HIDE DEF S, m, t
    <3>. QED  BY <1>1, <2>1, <2>2
  <2>5. m = t
    <3>. HIDE DEF S, m, t
    <3>. QED  BY <2>2, <2>3, <2>4
  <2>. QED  BY <2>4, <2>5
<1>7. Merged(k, o, c, run[r].partition) = Later(versions[k][o][c], Max(S))
  BY <1>1 DEF Merged
<1>. HIDE DEF S, t, c
<1>8. Later(versions[k][o][c], Max(S)) = t
  BY <1>4, <1>6 DEF Later
<1>. QED  BY <1>7, <1>8 DEF c, t

(* ... which then wins,                                                    *)
LEMMA WinnerDelivers ==
    ASSUME TypeOK, TablesArePast, NEW o \in Orders, NEW k \in Kinds, NEW p,
           shop[o].content[k] \in Contents, InWindow(shop[o].clock[k], p),
           versions[k][o][shop[o].content[k]] = shop[o].clock[k]
    PROVE  Winner(k, o, p) = Row(shop[o].content[k], shop[o].clock[k])
<1>. DEFINE c == shop[o].content[k]
            t == shop[o].clock[k]
            w == Winner(k, o, p)
            pool == Candidates(k, o, p) \union {current[k][o]}
<1>1. Row(c, t) \in Candidates(k, o, p)  BY DEF Candidates
<1>2. Candidates(k, o, p) \subseteq Rows
  BY PipelineAssumption DEF Candidates, Row, Rows, InWindow, TypeOK, TableTypeOK
<1>3. pool \subseteq Rows /\ pool # {}  BY <1>2 DEF TypeOK, TableTypeOK
<1>4. \A y \in pool : y.clock <= Latest(pool).clock
  <2>. HIDE DEF pool
  <2>. QED  BY <1>3, LatestIsLatest
<1>5. w = Latest(pool)  BY <1>1 DEF Winner
<1>6. t <= w.clock
  <2>1. Row(c, t) \in pool /\ Row(c, t).clock = t  BY <1>1 DEF Row
  <2>. HIDE DEF pool, w, t
  <2>. QED  BY <1>4, <1>5, <2>1
<1>7. w \in Rows  BY WinnerIsNotOlder
<1>8. NotAhead(k, o, w.content, w.clock)  BY WinnerIsPast
<1>9. t \in Nat /\ t # 0 /\ w.clock \in Nat
  BY <1>7, ShopClocks, LastTickIsNat DEF InWindow, Rows, Times
<1>10. w.clock = t /\ w.content = c  BY <1>6, <1>8, <1>9 DEF NotAhead
<1>. HIDE DEF w, c, t
<1>11. w = [content |-> c, clock |-> t]  BY <1>7, <1>10 DEF Rows
<1>. QED  BY <1>11 DEF w, c, t, Row

(* ... and what is there already is there to stay.                         *)
LEMMA DeliveredStays ==
    ASSUME TypeOK, TypeOK', TablesArePast', MartBehindCurrent, [Next]_vars,
           NEW o \in Orders, NEW k \in Kinds, shop'[o] = shop[o],
           NEW c \in Contents, c = shop[o].content[k], NEW t, t = shop[o].clock[k], t # 0
    PROVE  /\ versions[k][o][c] = t => versions'[k][o][c] = t
           /\ current[k][o] = Row(c, t) => current'[k][o] = Row(c, t)
           /\ mart[k][o] = Row(c, t) => mart'[k][o] = Row(c, t)
<1>1. t \in Nat  BY ShopClocks
<1>2. versions[k][o][c] = t => versions'[k][o][c] = t
  <2>1. versions'[k][o][c] <= t  BY DEF TablesArePast, NotAhead
  <2>. QED  BY <1>1, <2>1, VersionsGrow
<1>3. ASSUME NEW x \in Rows, t <= x.clock, x.clock <= t, x.clock = t => x.content = c
      PROVE  x = Row(c, t)
  <2>1. x.clock = t /\ x.content = c  BY <1>1, <1>3, LastTickIsNat DEF Rows, Times
  <2>2. x = [content |-> c, clock |-> t]  BY <2>1 DEF Rows
  <2>. QED  BY <2>2 DEF Row
<1>4. current[k][o] = Row(c, t) => current'[k][o] = Row(c, t)
  <2>. SUFFICES ASSUME current[k][o] = Row(c, t)  PROVE current'[k][o] = Row(c, t)
    OBVIOUS
  <2>1. t <= current'[k][o].clock  BY CurrentGrows DEF Row
  <2>2. /\ current'[k][o].clock <= t
        /\ current'[k][o].clock = t => current'[k][o].content = c
    BY DEF TablesArePast, NotAhead
  <2>3. current'[k][o] \in Rows  BY DEF TypeOK, TableTypeOK
  <2>. QED  BY <1>3, <2>1, <2>2, <2>3
<1>5. mart[k][o] = Row(c, t) => mart'[k][o] = Row(c, t)
  <2>. SUFFICES ASSUME mart[k][o] = Row(c, t)  PROVE mart'[k][o] = Row(c, t)
    OBVIOUS
  <2>1. t <= mart'[k][o].clock  BY MartGrows DEF Row
  <2>2. /\ mart'[k][o].clock <= t
        /\ mart'[k][o].clock = t => mart'[k][o].content = c
    BY DEF TablesArePast, NotAhead
  <2>3. mart'[k][o] \in Rows  BY DEF TypeOK, TableTypeOK
  <2>. QED  BY <1>3, <2>1, <2>2, <2>3
<1>. QED  BY <1>2, <1>4, <1>5

-----------------------------------------------------------------------------
(* How a run comes to the stages that follow its merge, its Current State, *)
(* its mart of a kind: it is there already, or takes that very step now.   *)
Progress(r, k) ==
    /\ run'[r].at \in AfterLoad => run[r].at # "idle" /\ run'[r].partition = run[r].partition
    /\ run'[r].at \in AfterMerge[k] =>
          \/ run[r].at \in AfterMerge[k]
          \/ run[r].at \in AfterLoad /\ \E at, next \in Building : MergeVersions(r, k, at, next)
    /\ run'[r].at \in AfterCurrent[k] =>
          \/ run[r].at \in AfterCurrent[k]
          \/ run[r].at \in AfterMerge[k] /\ \E at, next \in Building : BuildCurrent(r, k, at, next)
    /\ run'[r].at \in AfterMart[k] =>
          \/ run[r].at \in AfterMart[k]
          \/ run[r].at \in AfterCurrent[k] /\ \E at, next \in Building : BuildMart(r, k, at, next)

LEMMA ProgressStep ==
    ASSUME TypeOK, [Next]_vars, NEW r \in Runs, NEW k \in Kinds
    PROVE  Progress(r, k)
<1>. DEFINE Moves(a, b) == run[r].at = a /\ run'[r].at = b /\ run'[r].partition = run[r].partition
<1>1. CASE run'[r].at \in {"extract", "failed", "fill", "load"}
  BY <1>1 DEF Progress, Kinds, AfterLoad, AfterMerge, AfterCurrent, AfterMart
<1>2. CASE run'[r] = run[r]
  BY <1>2 DEF Progress, Kinds, AfterLoad, AfterMerge, AfterCurrent, AfterMart
<1>3. CASE Extract(r) \/ FillLanding(r) \/ RunFails(r) \/ \E p \in Partitions : StartRun(r, p)
  BY <1>1, <1>3 DEF Extract, FillLanding, RunFails, StartRun, TypeOK, FeedTypeOK
<1>4. CASE LoadRaw(r)
  <2>1. Moves("load", "merge_order")  BY <1>4 DEF LoadRaw, TypeOK, FeedTypeOK
  <2>. QED  BY <2>1 DEF Progress, Kinds, AfterLoad, AfterMerge, AfterCurrent, AfterMart
<1>5. CASE BuildRefundItems(r)
  <2>1. Moves("refund_items_mart", "success")
    BY <1>5 DEF BuildRefundItems, TypeOK, FeedTypeOK
  <2>. QED  BY <2>1 DEF Progress, Kinds, AfterLoad, AfterMerge, AfterCurrent, AfterMart
<1>6. CASE StepRetry(r)
  <2>1. \/ run'[r].at = "extract"
        \/ Moves("merge_refund", "merge_order")
        \/ \E a \in {"refund_current", "orders_mart", "refunds_mart", "refund_items_mart"} :
              Moves(a, "order_current")
    BY <1>6 DEF StepRetry, TypeOK, FeedTypeOK
  <2>2. ASSUME NEW a \in {"refund_current", "orders_mart", "refunds_mart", "refund_items_mart"},
               Moves(a, "order_current")
        PROVE  Progress(r, k)
    BY <2>2 DEF Progress, Kinds, AfterLoad, AfterMerge, AfterCurrent, AfterMart
  <2>3. CASE Moves("merge_refund", "merge_order")
    BY <2>3 DEF Progress, Kinds, AfterLoad, AfterMerge, AfterCurrent, AfterMart
  <2>. QED  BY <1>1, <2>1, <2>2, <2>3
<1>7. CASE MergeVersions(r, "order", "merge_order", "merge_refund")
  <2>1. Moves("merge_order", "merge_refund")
    BY <1>7 DEF MergeVersions, TypeOK, FeedTypeOK
  <2>2. k = "order" => \E at, next \in Building : MergeVersions(r, k, at, next)
    BY <1>7 DEF Building
  <2>. QED  BY <2>1, <2>2 DEF Progress, Kinds, AfterLoad, AfterMerge, AfterCurrent, AfterMart
<1>8. CASE MergeVersions(r, "refund", "merge_refund", "order_current")
  <2>1. Moves("merge_refund", "order_current")
    BY <1>8 DEF MergeVersions, TypeOK, FeedTypeOK
  <2>2. k = "refund" => \E at, next \in Building : MergeVersions(r, k, at, next)
    BY <1>8 DEF Building
  <2>. QED  BY <2>1, <2>2 DEF Progress, Kinds, AfterLoad, AfterMerge, AfterCurrent, AfterMart
<1>9. CASE BuildCurrent(r, "order", "order_current", "refund_current")
  <2>1. Moves("order_current", "refund_current")
    BY <1>9 DEF BuildCurrent, TypeOK, FeedTypeOK
  <2>2. k = "order" => \E at, next \in Building : BuildCurrent(r, k, at, next)
    BY <1>9 DEF Building
  <2>. QED  BY <2>1, <2>2 DEF Progress, Kinds, AfterLoad, AfterMerge, AfterCurrent, AfterMart
<1>10. CASE BuildCurrent(r, "refund", "refund_current", "orders_mart")
  <2>1. Moves("refund_current", "orders_mart")
    BY <1>10 DEF BuildCurrent, TypeOK, FeedTypeOK
  <2>2. k = "refund" => \E at, next \in Building : BuildCurrent(r, k, at, next)
    BY <1>10 DEF Building
  <2>. QED  BY <2>1, <2>2 DEF Progress, Kinds, AfterLoad, AfterMerge, AfterCurrent, AfterMart
<1>11. CASE BuildMart(r, "order", "orders_mart", "refunds_mart")
  <2>1. Moves("orders_mart", "refunds_mart")
    BY <1>11 DEF BuildMart, TypeOK, FeedTypeOK
  <2>2. k = "order" => \E at, next \in Building : BuildMart(r, k, at, next)
    BY <1>11 DEF Building
  <2>. QED  BY <2>1, <2>2 DEF Progress, Kinds, AfterLoad, AfterMerge, AfterCurrent, AfterMart
<1>12. CASE BuildMart(r, "refund", "refunds_mart", "refund_items_mart")
  <2>1. Moves("refunds_mart", "refund_items_mart")
    BY <1>12 DEF BuildMart, TypeOK, FeedTypeOK
  <2>2. k = "refund" => \E at, next \in Building : BuildMart(r, k, at, next)
    BY <1>12 DEF Building
  <2>. QED  BY <2>1, <2>2 DEF Progress, Kinds, AfterLoad, AfterMerge, AfterCurrent, AfterMart
<1>. QED
  BY <1>2, <1>3, <1>4, <1>5, <1>6, <1>7, <1>8, <1>9, <1>10, <1>11, <1>12, OwnStep
  DEF RunStep

(* A run that has done its part for an order has brought it to the table.  *)
LEMMA TablesDeliverStep ==
    ASSUME TypeOK, TypeOK', ClockedHasContent, RunsArePast, FeedIsPast, TablesArePast,
           TablesArePast', MartBehindCurrent, FeedDelivers, TablesDeliver, [Next]_vars
    PROVE  TablesDeliver'
<1>. SUFFICES ASSUME NEW r \in Runs, NEW o \in Orders, NEW k \in Kinds, Owes(r, o)',
                     NEW c, c = shop'[o].content[k], NEW t, t = shop'[o].clock[k],
                     InWindow(t, run'[r].partition), r \notin disturbed'
              PROVE  /\ run'[r].at \in AfterMerge[k] => versions'[k][o][c] = t
                     /\ run'[r].at \in AfterCurrent[k] => current'[k][o] = Row(c, t)
                     /\ run'[r].at \in AfterMart[k] => mart'[k][o] = Row(c, t)
  BY DEF TablesDeliver
<1>. DEFINE p == run[r].partition
<1>1. shop'[o] = shop[o]  BY OwedOrderRests
<1>2. c = shop[o].content[k] /\ t = shop[o].clock[k]  BY <1>1
<1>3. t # 0 /\ c \in Contents
  BY <1>2 DEF InWindow, ClockedHasContent, TypeOK, ShopTypeOK
<1>4. /\ versions[k][o][c] = t => versions'[k][o][c] = t
      /\ current[k][o] = Row(c, t) => current'[k][o] = Row(c, t)
      /\ mart[k][o] = Row(c, t) => mart'[k][o] = Row(c, t)
  BY <1>1, <1>2, <1>3, DeliveredStays
<1>5. Progress(r, k)  BY ProgressStep
<1>6. ASSUME run'[r].at \in AfterLoad
      PROVE  /\ Owes(r, o) /\ run'[r].partition = p /\ InWindow(t, p)
             /\ run[r].at \in AfterLoad => Observation(o) \in raw
             /\ run[r].at \in AfterMerge[k] => versions[k][o][c] = t
             /\ run[r].at \in AfterCurrent[k] => current[k][o] = Row(c, t)
             /\ run[r].at \in AfterMart[k] => mart[k][o] = Row(c, t)
  <2>1. run[r].at # "idle" /\ run'[r].partition = p  BY <1>5, <1>6 DEF Progress
  <2>2. Owes(r, o)  BY <1>1, <2>1 DEF Owes
  <2>3. r \notin disturbed
    BY <1>6, StaysDisturbed DEF AfterLoad, AfterMerge, AfterCurrent, AfterMart
  <2>. QED  BY <1>2, <2>1, <2>2, <2>3 DEF TablesDeliver, FeedDelivers
<1>7. /\ AfterMerge[k] \subseteq AfterLoad /\ AfterCurrent[k] \subseteq AfterLoad
      /\ AfterMart[k] \subseteq AfterLoad
  BY DEF Kinds, AfterLoad, AfterMerge, AfterCurrent, AfterMart
<1>8. ASSUME run'[r].at \in AfterMerge[k]  PROVE versions'[k][o][c] = t
  <2>1. CASE run[r].at \in AfterMerge[k]  BY <1>4, <1>6, <1>7, <1>8, <2>1
  <2>2. ASSUME run[r].at \in AfterLoad, NEW at \in Building, NEW next \in Building,
               MergeVersions(r, k, at, next)
        PROVE  versions'[k][o][c] = t
    <3>1. Owes(r, o) /\ Observation(o) \in raw  BY <1>6, <1>7, <1>8, <2>2
    <3>2. Merged(k, o, c, p) = t  BY <1>2, <1>3, <3>1, MergeDelivers
    <3>3. versions'[k][o][c] = Merged(k, o, c, p)
      BY <1>3, <2>2 DEF MergeVersions, TypeOK, TableTypeOK
    <3>. QED  BY <3>2, <3>3
  <2>. QED  BY <1>5, <1>8, <2>1, <2>2 DEF Progress
<1>9. ASSUME run'[r].at \in AfterCurrent[k]  PROVE current'[k][o] = Row(c, t)
  <2>1. CASE run[r].at \in AfterCurrent[k]  BY <1>4, <1>6, <1>7, <1>9, <2>1
  <2>2. ASSUME run[r].at \in AfterMerge[k], NEW at \in Building, NEW next \in Building,
               BuildCurrent(r, k, at, next)
        PROVE  current'[k][o] = Row(c, t)
    <3>1. versions[k][o][c] = t /\ InWindow(t, p)  BY <1>6, <1>7, <1>9, <2>2
    <3>2. Winner(k, o, p) = Row(c, t)  BY <1>2, <1>3, <3>1, WinnerDelivers
    <3>3. current'[k][o] = Winner(k, o, p)
      BY <2>2 DEF BuildCurrent, TypeOK, TableTypeOK
    <3>. QED  BY <3>2, <3>3
  <2>. QED  BY <1>5, <1>9, <2>1, <2>2 DEF Progress
<1>10. ASSUME run'[r].at \in AfterMart[k]  PROVE mart'[k][o] = Row(c, t)
  <2>1. CASE run[r].at \in AfterMart[k]  BY <1>4, <1>6, <1>7, <1>10, <2>1
  <2>2. ASSUME run[r].at \in AfterCurrent[k], NEW at \in Building, NEW next \in Building,
               BuildMart(r, k, at, next)
        PROVE  mart'[k][o] = Row(c, t)
    <3>1. current[k][o] = Row(c, t) /\ InWindow(t, p)  BY <1>6, <1>7, <1>10, <2>2
    <3>2. current[k][o].clock = t  BY <3>1 DEF Row
    <3>3. mart'[k][o] = current[k][o]
      BY <2>2, <3>1, <3>2 DEF BuildMart, TypeOK, TableTypeOK
    <3>. QED  BY <3>1, <3>3
  <2>. QED  BY <1>5, <1>10, <2>1, <2>2 DEF Progress
<1>. QED  BY <1>8, <1>9, <1>10

-----------------------------------------------------------------------------
LEMMA WhoItemizes ==
    [Next]_vars => items' = items
                   \/ \E r \in Runs : BuildRefundItems(r)
<1>. SUFFICES ASSUME [Next]_vars, ~ \E r \in Runs : BuildRefundItems(r)
              PROVE  items' = items
  OBVIOUS
<1>1. ASSUME NEW r \in Runs, RunStep(r)  PROVE items' = items
  BY <1>1 DEF RunStep, Extract, FillLanding, LoadRaw, MergeVersions, BuildCurrent, BuildMart
<1>2. ASSUME NEW r \in Runs, NEW p \in Partitions, StartRun(r, p)  PROVE items' = items
  BY <1>2 DEF StartRun
<1>3. ASSUME NEW r \in Runs, StepRetry(r) \/ RunFails(r)  PROVE items' = items
  BY <1>3 DEF StepRetry, RunFails
<1>4. ASSUME NEW o \in Orders, NEW k \in Kinds, NEW c \in Contents, Update(o, k, c)
      PROVE  items' = items
  BY <1>4 DEF Update
<1>. QED  BY <1>1, <1>2, <1>3, <1>4 DEF Next, Tick, vars

(* What a build of refund_items leaves of an order's row.                  *)
LEMMA ItemSteps ==
    ASSUME TypeOK, NEW r \in Runs, BuildRefundItems(r), NEW o \in Orders
    PROVE  \/ /\ current["refund"][o] # NoRow /\ mart["refund"][o] # NoRow
              /\ items'[o].parent = mart["order"][o].content
           \/ /\ items'[o] = items[o]
              /\ \/ ~ Affected(o, run[r].partition) \/ mart["order"][o] = NoRow
                 \/ current["refund"][o] = NoRow \/ mart["refund"][o] = NoRow
BY DEF BuildRefundItems

(* A row is there exactly if it has a clock.                               *)
LEMMA RowsHaveClocks ==
    ASSUME NEW x \in Rows
    PROVE  x = NoRow <=> x.clock = 0
<1>1. x.clock = 0 => x = [content |-> "none", clock |-> 0]  BY DEF Rows
<1>. QED  BY <1>1 DEF NoRow, Row

(* Rows that an item was built from do not go away.                        *)
LEMMA ItemsHaveRowsStep ==
    ASSUME TypeOK, TypeOK', MartBehindCurrent, ItemsHaveRows, [Next]_vars
    PROVE  ItemsHaveRows'
<1>. SUFFICES ASSUME NEW o \in Orders, items'[o].content # "none"
              PROVE  current'["refund"][o].clock # 0 /\ mart'["refund"][o].clock # 0
  BY DEF ItemsHaveRows
<1>1. "refund" \in Kinds  BY DEF Kinds
<1>2. current["refund"][o].clock # 0 /\ mart["refund"][o].clock # 0
  <2>1. CASE items' = items  BY <2>1 DEF ItemsHaveRows
  <2>2. ASSUME NEW r \in Runs, BuildRefundItems(r)
        PROVE  current["refund"][o].clock # 0 /\ mart["refund"][o].clock # 0
    <3>1. CASE items'[o] = items[o]  BY <3>1 DEF ItemsHaveRows
    <3>2. CASE current["refund"][o] # NoRow /\ mart["refund"][o] # NoRow
      <4>1. current["refund"][o] \in Rows /\ mart["refund"][o] \in Rows
        BY <1>1 DEF TypeOK, TableTypeOK
      <4>. QED  BY <3>2, <4>1, RowsHaveClocks
    <3>. QED  BY <2>2, <3>1, <3>2, ItemSteps
  <2>. QED  BY <2>1, <2>2, WhoItemizes
<1>3. /\ current["refund"][o].clock \in Nat /\ mart["refund"][o].clock \in Nat
      /\ current'["refund"][o].clock \in Nat /\ mart'["refund"][o].clock \in Nat
  <2>1. /\ current["refund"][o] \in Rows /\ mart["refund"][o] \in Rows
        /\ current'["refund"][o] \in Rows /\ mart'["refund"][o] \in Rows
    BY <1>1 DEF TypeOK, TableTypeOK
  <2>2. \A x \in Rows : x.clock \in Nat  BY LastTickIsNat DEF Rows, Times
  <2>. QED  BY <2>1, <2>2
<1>4. current["refund"][o].clock <= current'["refund"][o].clock
  BY <1>1, CurrentGrows
<1>5. mart["refund"][o].clock <= mart'["refund"][o].clock
  BY <1>1, MartGrows
<1>. QED  BY <1>2, <1>3, <1>4, <1>5

(* A successful run leaves no item of its orders as it was before, and a   *)
(* later build of any partition copies the same order again.               *)
LEMMA ItemsDeliverStep ==
    ASSUME TypeOK, TypeOK', ShopIsPast, RunsArePast, TablesDeliver, ItemsHaveRows, ItemsDeliver,
           [Next]_vars
    PROVE  ItemsDeliver'
<1>. SUFFICES ASSUME NEW r \in Runs, NEW o \in Orders, Owes(r, o)',
                     run'[r].at = "success", r \notin disturbed', items'[o].content # "none"
              PROVE  items'[o].parent = shop'[o].content["order"]
  BY DEF ItemsDeliver
<1>. DEFINE c == shop[o].content["order"]
            t == shop[o].updated
<1>1. shop'[o] = shop[o]  BY OwedOrderRests
<1>2. run[r].at = "success" \/ BuildRefundItems(r)
  <2>1. CASE run'[r] = run[r]  BY <2>1
  <2>2. CASE run'[r] # run[r]
    <3>1. RunStep(r) \/ StepRetry(r) \/ RunFails(r) \/ \E p \in Partitions : StartRun(r, p)
      BY <2>2, OwnStep
    <3>2. StepRetry(r) => run'[r].at \in {"extract", "merge_order", "order_current"}
      BY DEF StepRetry, TypeOK, FeedTypeOK
    <3>3. RunFails(r) => run'[r].at = "failed"  BY DEF RunFails, TypeOK, FeedTypeOK
    <3>4. ASSUME NEW p \in Partitions, StartRun(r, p)  PROVE run'[r].at = "extract"
      BY <3>4 DEF StartRun, TypeOK, FeedTypeOK
    <3>5. (Extract(r) \/ FillLanding(r) \/ LoadRaw(r)) =>
              run'[r].at \in {"fill", "load", "merge_order"}
      BY DEF Extract, FillLanding, LoadRaw, TypeOK, FeedTypeOK
    <3>6. ASSUME NEW k, NEW at, NEW next, next # "success",
                 MergeVersions(r, k, at, next) \/ BuildCurrent(r, k, at, next)
                    \/ BuildMart(r, k, at, next)
          PROVE  run'[r].at = next
      BY <3>6 DEF MergeVersions, BuildCurrent, BuildMart, TypeOK, FeedTypeOK
    <3>. QED  BY <3>1, <3>2, <3>3, <3>4, <3>5, <3>6 DEF RunStep
  <2>. QED  BY <2>1, <2>2
<1>3. run[r].at # "idle" /\ run'[r].partition = run[r].partition
  <2>1. CASE run'[r] = run[r]  BY <2>1
  <2>2. CASE BuildRefundItems(r)  BY <2>2 DEF BuildRefundItems, TypeOK, FeedTypeOK
  <2>3. CASE run[r].at = "success" /\ run'[r] # run[r]
    BY <2>3, OwnStep DEF RunStep, Extract, FillLanding, LoadRaw, MergeVersions, BuildCurrent,
       BuildMart, BuildRefundItems, StepRetry, RunFails, Active, StartRun
  <2>. QED  BY <1>2, <2>1, <2>2, <2>3
<1>4. Owes(r, o) /\ r \notin disturbed  BY <1>1, <1>3, StaysDisturbed DEF Owes
<1>5. mart["order"][o] = Row(c, t) /\ t # 0 /\ InWindow(t, run[r].partition)
  <2>1. "order" \in Kinds /\ shop[o].clock["order"] = t  BY DEF Kinds, ShopIsPast
  <2>2. InWindow(t, run[r].partition)  BY <1>4, OwedIsInWindow
  <2>3. run[r].at \in AfterMart["order"]
    BY <1>2 DEF AfterMart, BuildRefundItems
  <2>. QED  BY <1>4, <2>1, <2>2, <2>3 DEF TablesDeliver, Owes
<1>6. mart["order"][o].content = c /\ mart["order"][o].clock = t  BY <1>5 DEF Row
<1>7. ASSUME NEW q \in Runs, BuildRefundItems(q)
      PROVE  items'[o].parent = c \/ items'[o] = items[o]
  BY <1>6, <1>7, ItemSteps
<1>8. CASE run[r].at = "success"
  <2>1. items'[o] = items[o] => items'[o].parent = c
    BY <1>4, <1>8 DEF ItemsDeliver
  <2>. QED  BY <1>1, <1>7, <2>1, WhoItemizes
<1>9. CASE BuildRefundItems(r)
  <2>1. Affected(o, run[r].partition)  BY <1>5, <1>6 DEF Affected
  <2>2. mart["order"][o] # NoRow  BY <1>5, <1>6 DEF NoRow, Row
  <2>3. items[o].content # "none" =>
            current["refund"][o] # NoRow /\ mart["refund"][o] # NoRow
    BY DEF ItemsHaveRows, NoRow, Row
  <2>. QED  BY <1>1, <1>6, <1>9, <2>1, <2>2, <2>3, ItemSteps
<1>. QED  BY <1>2, <1>8, <1>9

(* The inductive invariant of the pipeline.                                *)
Delivery ==
    /\ TypeOK /\ MartBehindCurrent /\ LandingIsOwn
    /\ ShopIsPast /\ ClockedHasContent /\ RunsArePast /\ FeedIsPast /\ TablesArePast
    /\ FeedDelivers /\ TablesDeliver
    /\ ItemsHaveRows /\ ItemsDeliver

(* It holds whatever overlaps, fails, is retried, replayed or late.        *)
THEOREM PipelineInvariant == Spec => []Delivery
<1>1. Init => Delivery
  <2>. SUFFICES ASSUME Init  PROVE Delivery
    OBVIOUS
  <2>1. TypeOK
    BY LastTickIsNat, PipelineAssumption
    DEF Init, TypeOK, ShopTypeOK, FeedTypeOK, TableTypeOK, Stages, Rows, Row, NoRow, Times
  <2>2. MartBehindCurrent /\ LandingIsOwn
    BY DEF Init, MartBehindCurrent, NoRow, Row, LandingIsOwn, LoadsOwnExtract
  <2>3. ShopIsPast /\ ClockedHasContent /\ RunsArePast
    BY DEF Init, ShopIsPast, ClockedHasContent, RunsArePast, Kinds
  <2>4. FeedIsPast  BY DEF Init, FeedIsPast, KnownIn
  <2>5. TablesArePast
    BY DEF Init, TablesArePast, NotAhead, NoRow, Row
  <2>6. FeedDelivers /\ TablesDeliver  BY DEF Init, FeedDelivers, TablesDeliver, Owes
  <2>7. ItemsHaveRows /\ ItemsDeliver  BY DEF Init, ItemsHaveRows, ItemsDeliver
  <2>. QED  BY <2>1, <2>2, <2>3, <2>4, <2>5, <2>6, <2>7 DEF Delivery
<1>2. Delivery /\ [Next]_vars => Delivery'
  <2>. SUFFICES ASSUME Delivery, [Next]_vars  PROVE Delivery'
    OBVIOUS
  <2>. USE DEF Delivery
  <2>1. TypeOK'  BY ShopTypeStep, FeedTypeStep, TableTypeStep DEF TypeOK
  <2>2. MartBehindCurrent' /\ LandingIsOwn'  BY MartBehindStep, LandingIsOwnStep
  <2>3. ShopIsPast' /\ ClockedHasContent' /\ RunsArePast'
    BY ShopIsPastStep, ClockedHasContentStep, RunsArePastStep
  <2>4. FeedIsPast' /\ TablesArePast'  BY FeedIsPastStep, TablesArePastStep
  <2>5. FeedDelivers'  BY FeedDeliversStep
  <2>6. TablesDeliver'  BY <2>1, <2>4, TablesDeliverStep
  <2>7. ItemsHaveRows' /\ ItemsDeliver'  BY <2>1, ItemsHaveRowsStep, ItemsDeliverStep
  <2>. QED  BY <2>1, <2>2, <2>3, <2>4, <2>5, <2>6, <2>7
<1>. QED  BY <1>1, <1>2, PTL DEF Spec

(* Whatever overlaps, fails, is retried, replayed or late: once a run of   *)
(* the day of an order's last update has succeeded, and no other touched   *)
(* its landing file, the marts show the order as the shop has it.          *)
THEOREM DoneRunsDeliver == Spec => []DoneIsCurrent
<1>1. Delivery => DoneIsCurrent
  <2>. SUFFICES ASSUME Delivery, NEW o \in Orders, NEW k \in Kinds, shop[o].updated # 0,
                       NEW r \in Runs \ disturbed, run[r].partition = DayOf(shop[o].updated),
                       run[r].at = "success", InWindow(shop[o].clock[k], run[r].partition)
                PROVE  mart[k][o] = Row(shop[o].content[k], shop[o].clock[k])
    BY DEF DoneIsCurrent, Done
  <2>1. Owes(r, o)  BY DEF Owes
  <2>2. run[r].at \in AfterMart[k]  BY DEF AfterMart, Kinds
  <2>. QED  BY <2>1, <2>2 DEF Delivery, TablesDeliver
<1>. QED  BY <1>1, PipelineInvariant, PTL

(* A refund item copies what the mart says of its order, once such a run   *)
(* of the day of the order's last update has succeeded: also if the refund *)
(* itself is of another day.                                               *)
THEOREM RefundItemsFollowOrders == Spec => []RefundItemsAgree
<1>1. Delivery => RefundItemsAgree
  <2>. SUFFICES ASSUME Delivery, NEW o \in Orders, shop[o].updated # 0, items[o].content # "none",
                       NEW r \in Runs \ disturbed, run[r].partition = DayOf(shop[o].updated),
                       run[r].at = "success"
                PROVE  items[o].parent = mart["order"][o].content
    BY DEF RefundItemsAgree, Done
  <2>1. Owes(r, o)  BY DEF Owes
  <2>2. items[o].parent = shop[o].content["order"]
    BY <2>1 DEF Delivery, ItemsDeliver
  <2>3. InWindow(shop[o].clock["order"], run[r].partition)
    BY <2>1, OwedIsInWindow DEF Delivery, ShopIsPast
  <2>4. "order" \in Kinds /\ run[r].at \in AfterMart["order"]  BY DEF Kinds, AfterMart
  <2>5. mart["order"][o] = Row(shop[o].content["order"], shop[o].clock["order"])
    BY <2>1, <2>3, <2>4 DEF Delivery, TablesDeliver
  <2>. QED  BY <2>2, <2>5 DEF Row
<1>. QED  BY <1>1, PipelineInvariant, PTL

-----------------------------------------------------------------------------


-----------------------------------------------------------------------------
(* Event time.                                                             *)

(* A window of a non-negative time does not end before 0.                  *)
LEMMA WindowTimes ==
    ASSUME NEW w \in Windows
    PROVE  /\ w \in Nat
           /\ MaxTimestamp(w) \in Nat
           /\ CleanupTime(w) \in Nat
           /\ MaxTimestamp(w) <= CleanupTime(w)
  <1>1. PICK t \in EventTimes : w = t \div WindowSize
    BY DEF Windows
  <1>2. w \in Nat
    BY <1>1, StreamAssumption
  <1>3. (w + 1) * WindowSize \in Nat \ {0}
    BY <1>2, StreamAssumption
  <1>4. QED
    BY <1>2, <1>3, StreamAssumption DEF MaxTimestamp, CleanupTime

LEMMA WindowOfEvent ==
    ASSUME StreamTypeOK, NEW e \in Events
    PROVE  WindowOf(e) \in Windows
  BY DEF StreamTypeOK, WindowOf, Windows

LEMMA WatermarkTimes ==
    ASSUME NEW t \in EventTimes \union {-1}
    PROVE  WatermarkOf(t) \in Int /\ NoWatermark \in Int /\ NoWatermark < 0
           /\ WatermarkOf(t) = t - OutOfOrderness - 1
  BY StreamAssumption DEF WatermarkOf, NoWatermark

LEMMA TimesAreInts ==
    \A t \in EventTimes \union {-1} : t \in Int
  BY StreamAssumption

-----------------------------------------------------------------------------
(* Types.                                                                  *)

LEMMA EmptyJobType ==
    EmptyJob \in JobState
  BY DEF EmptyJob, JobState

LEMMA CountedType ==
    ASSUME StreamTypeOK, NEW j \in JobState, NEW e \in Events
    PROVE  Counted(j, e) \in JobState
  <1> DEFINE w == WindowOf(e)
  <1>1. w \in Windows
    BY WindowOfEvent
  <1> HIDE DEF w
  <1>2. j.counts[w] + 1 \in Nat
    BY <1>1 DEF JobState
  <1>3. CASE CleanupTime(w) <= watermark
    BY <1>3 DEF Counted, JobState, w
  <1>4. CASE ~(CleanupTime(w) <= watermark)
    <2> DEFINE n == j.counts[w] + 1
               c == [j.counts EXCEPT ![w] = n]
               o == j.reopened \union ({w} \cap j.cleaned)
               v == [j.views EXCEPT ![w] = IF MaxTimestamp(w) <= watermark THEN n ELSE @]
               t == IF MaxTimestamp(w) <= watermark THEN j.timers ELSE j.timers \union {w}
    <2>1. Counted(j, e) = [j EXCEPT !.counts = c, !.reopened = o, !.views = v, !.timers = t]
      BY <1>4 DEF Counted, JobState, w
    <2>2. c \in [Windows -> Nat] /\ v \in [Windows -> Nat]
      BY <1>1, <1>2 DEF JobState
    <2>3. o \subseteq Windows /\ t \subseteq Windows
      BY <1>1 DEF JobState
    <2> HIDE DEF n, c, o, v, t
    <2>4. QED
      BY <2>1, <2>2, <2>3 DEF JobState
  <1>5. QED
    BY <1>3, <1>4

(* What counting an event does to each part of the job's state.            *)
LEMMA CountedParts ==
    ASSUME StreamTypeOK, NEW j \in JobState, NEW e \in Events
    PROVE  LET w == WindowOf(e)
               r == Counted(j, e) IN
           /\ r.pos = j.pos /\ r.seen = j.seen /\ r.lapsed = j.lapsed
           /\ r.canonical = j.canonical /\ r.invalid = j.invalid /\ r.cleaned = j.cleaned
           /\ CleanupTime(w) <= watermark =>
                /\ r.too_late = j.too_late \union {e}
                /\ r.counts = j.counts /\ r.reopened = j.reopened
                /\ r.timers = j.timers /\ r.views = j.views
           /\ ~(CleanupTime(w) <= watermark) =>
                /\ r.too_late = j.too_late
                /\ r.counts = [j.counts EXCEPT ![w] = j.counts[w] + 1]
                /\ r.reopened = j.reopened \union ({w} \cap j.cleaned)
                /\ MaxTimestamp(w) <= watermark =>
                     /\ r.views = [j.views EXCEPT ![w] = j.counts[w] + 1]
                     /\ r.timers = j.timers
                /\ ~(MaxTimestamp(w) <= watermark) =>
                     /\ r.views = j.views
                     /\ r.timers = j.timers \union {w}
  <1> DEFINE w == WindowOf(e)
  <1>1. w \in Windows
    BY WindowOfEvent
  <1> HIDE DEF w
  <1>2. CASE CleanupTime(w) <= watermark
    BY <1>2 DEF Counted, JobState, w
  <1>3. CASE ~(CleanupTime(w) <= watermark)
    <2> DEFINE n == j.counts[w] + 1
               c == [j.counts EXCEPT ![w] = n]
               o == j.reopened \union ({w} \cap j.cleaned)
               v == [j.views EXCEPT ![w] = IF MaxTimestamp(w) <= watermark THEN n ELSE @]
               t == IF MaxTimestamp(w) <= watermark THEN j.timers ELSE j.timers \union {w}
    <2>1. Counted(j, e) = [j EXCEPT !.counts = c, !.reopened = o, !.views = v, !.timers = t]
      BY <1>3 DEF Counted, JobState, w
    <2>2. ~(MaxTimestamp(w) <= watermark) => v = j.views
      BY <1>1 DEF JobState
    <2> HIDE DEF n, c, o, v, t
    <2>3. /\ Counted(j, e).counts = c /\ Counted(j, e).reopened = o
          /\ Counted(j, e).views = v /\ Counted(j, e).timers = t
          /\ Counted(j, e).pos = j.pos /\ Counted(j, e).seen = j.seen
          /\ Counted(j, e).lapsed = j.lapsed /\ Counted(j, e).canonical = j.canonical
          /\ Counted(j, e).invalid = j.invalid /\ Counted(j, e).cleaned = j.cleaned
          /\ Counted(j, e).too_late = j.too_late
      BY <2>1 DEF JobState
    <2>4. QED
      BY <1>3, <2>2, <2>3 DEF n, c, o, v, t, w
  <1>4. QED
    BY <1>2, <1>3 DEF w

(* An event that was seen changes nothing; a new one is canonical, and     *)
(* counted if it is a product view.                                        *)
Canonical(j, e) == [j EXCEPT !.seen = @ \union {e}, !.canonical = @ \union {e}]

LEMMA CanonicalParts ==
    ASSUME NEW j \in JobState, NEW e \in Events
    PROVE  /\ Canonical(j, e) \in JobState
           /\ Canonical(j, e).seen = j.seen \union {e}
           /\ Canonical(j, e).canonical = j.canonical \union {e}
           /\ Canonical(j, e).pos = j.pos /\ Canonical(j, e).lapsed = j.lapsed
           /\ Canonical(j, e).counts = j.counts /\ Canonical(j, e).timers = j.timers
           /\ Canonical(j, e).cleaned = j.cleaned /\ Canonical(j, e).reopened = j.reopened
           /\ Canonical(j, e).invalid = j.invalid /\ Canonical(j, e).too_late = j.too_late
           /\ Canonical(j, e).views = j.views
  BY DEF Canonical, JobState

LEMMA DeduplicatedCases ==
    ASSUME NEW j \in JobState, NEW e \in Events
    PROVE  \/ e \in j.seen /\ Deduplicated(j, e) = j
           \/ e \notin j.seen /\ IsProductView(e) /\ Deduplicated(j, e) = Counted(Canonical(j, e), e)
           \/ e \notin j.seen /\ ~IsProductView(e) /\ Deduplicated(j, e) = Canonical(j, e)
  BY DEF Deduplicated, Canonical

LEMMA DeduplicatedType ==
    ASSUME StreamTypeOK, NEW j \in JobState, NEW e \in Events
    PROVE  Deduplicated(j, e) \in JobState
  BY DeduplicatedCases, CanonicalParts, CountedType

(* The job's state after it has moved beyond a message, or set it aside.   *)
MovedOn(j, p) == [j EXCEPT !.pos[p] = @ + 1]
SetAside(j, e) == [j EXCEPT !.invalid = @ \union {e}]

LEMMA MovedOnParts ==
    ASSUME NEW j \in JobState, NEW p \in TopicPartitions
    PROVE  /\ MovedOn(j, p) \in JobState
           /\ MovedOn(j, p).pos = [j.pos EXCEPT ![p] = j.pos[p] + 1]
           /\ MovedOn(j, p).seen = j.seen /\ MovedOn(j, p).canonical = j.canonical
           /\ MovedOn(j, p).lapsed = j.lapsed /\ MovedOn(j, p).invalid = j.invalid
           /\ MovedOn(j, p).counts = j.counts /\ MovedOn(j, p).timers = j.timers
           /\ MovedOn(j, p).cleaned = j.cleaned /\ MovedOn(j, p).reopened = j.reopened
           /\ MovedOn(j, p).too_late = j.too_late /\ MovedOn(j, p).views = j.views
  <1>1. j.pos[p] + 1 \in Nat
    BY DEF JobState
  <1>2. [j.pos EXCEPT ![p] = j.pos[p] + 1] \in [TopicPartitions -> Nat]
    BY <1>1 DEF JobState
  <1>3. MovedOn(j, p) = [j EXCEPT !.pos = [j.pos EXCEPT ![p] = j.pos[p] + 1]]
    BY DEF MovedOn, JobState
  <1>4. QED
    BY <1>2, <1>3 DEF JobState

LEMMA SetAsideParts ==
    ASSUME NEW j \in JobState, NEW e \in Events
    PROVE  /\ SetAside(j, e) \in JobState
           /\ SetAside(j, e).invalid = j.invalid \union {e}
           /\ SetAside(j, e).pos = j.pos /\ SetAside(j, e).lapsed = j.lapsed
           /\ SetAside(j, e).seen = j.seen /\ SetAside(j, e).canonical = j.canonical
           /\ SetAside(j, e).counts = j.counts /\ SetAside(j, e).timers = j.timers
           /\ SetAside(j, e).cleaned = j.cleaned /\ SetAside(j, e).reopened = j.reopened
           /\ SetAside(j, e).too_late = j.too_late /\ SetAside(j, e).views = j.views
  BY DEF SetAside, JobState

Lapsed(j, e) == [j EXCEPT !.seen = @ \ {e}, !.lapsed = @ \union {e}]

LEMMA LapsedParts ==
    ASSUME NEW j \in JobState, NEW e \in Events
    PROVE  /\ Lapsed(j, e) \in JobState
           /\ Lapsed(j, e).seen = j.seen \ {e} /\ Lapsed(j, e).lapsed = j.lapsed \union {e}
           /\ Lapsed(j, e).pos = j.pos /\ Lapsed(j, e).canonical = j.canonical
           /\ Lapsed(j, e).counts = j.counts /\ Lapsed(j, e).timers = j.timers
           /\ Lapsed(j, e).cleaned = j.cleaned /\ Lapsed(j, e).reopened = j.reopened
           /\ Lapsed(j, e).invalid = j.invalid /\ Lapsed(j, e).too_late = j.too_late
           /\ Lapsed(j, e).views = j.views
  BY DEF Lapsed, JobState

(* What a watermark does to each part of the job's state.                  *)
Due(j, instant) == {w \in j.timers : MaxTimestamp(w) <= instant}
Gone(j, instant) == {w \in Windows : j.counts[w] > 0 /\ CleanupTime(w) <= instant}

LEMMA FiredParts ==
    ASSUME NEW j \in JobState, NEW instant
    PROVE  /\ Fired(j, instant) \in JobState
           /\ Fired(j, instant).views =
                [w \in Windows |-> IF w \in Due(j, instant) THEN j.counts[w] ELSE j.views[w]]
           /\ Fired(j, instant).timers = j.timers \ Due(j, instant)
           /\ Fired(j, instant).counts =
                [w \in Windows |-> IF w \in Gone(j, instant) THEN 0 ELSE j.counts[w]]
           /\ Fired(j, instant).cleaned = j.cleaned \union Gone(j, instant)
           /\ Fired(j, instant).pos = j.pos /\ Fired(j, instant).lapsed = j.lapsed
           /\ Fired(j, instant).seen = j.seen /\ Fired(j, instant).canonical = j.canonical
           /\ Fired(j, instant).reopened = j.reopened
           /\ Fired(j, instant).invalid = j.invalid /\ Fired(j, instant).too_late = j.too_late
  <1> DEFINE v == [w \in Windows |-> IF w \in Due(j, instant) THEN j.counts[w] ELSE j.views[w]]
             c == [w \in Windows |-> IF w \in Gone(j, instant) THEN 0 ELSE j.counts[w]]
             t == j.timers \ Due(j, instant)
             l == j.cleaned \union Gone(j, instant)
  <1>1. Fired(j, instant) = [j EXCEPT !.views = v, !.timers = t, !.counts = c, !.cleaned = l]
    BY DEF Fired, Due, Gone
  <1>2. v \in [Windows -> Nat] /\ c \in [Windows -> Nat]
    BY DEF JobState
  <1>3. t \subseteq Windows /\ l \subseteq Windows
    BY DEF JobState, Gone
  <1> HIDE DEF v, c, t, l
  <1>4. Fired(j, instant) \in JobState
    BY <1>1, <1>2, <1>3 DEF JobState
  <1>5. /\ Fired(j, instant).views = v /\ Fired(j, instant).timers = t
        /\ Fired(j, instant).counts = c /\ Fired(j, instant).cleaned = l
        /\ Fired(j, instant).pos = j.pos /\ Fired(j, instant).lapsed = j.lapsed
        /\ Fired(j, instant).seen = j.seen /\ Fired(j, instant).canonical = j.canonical
        /\ Fired(j, instant).reopened = j.reopened
        /\ Fired(j, instant).invalid = j.invalid /\ Fired(j, instant).too_late = j.too_late
    BY <1>1 DEF JobState
  <1>6. QED
    BY <1>4, <1>5 DEF v, c, t, l

-----------------------------------------------------------------------------
(* The steps of the job.                                                   *)

LEMMA ProcessIs ==
    ASSUME StreamTypeOK, NEW p \in TopicPartitions, Process(p)
    PROVE  \E e \in Events :
              /\ job.pos[p] + 1 \in 1..Len(kafka[p]) /\ e = kafka[p][job.pos[p] + 1]
              /\ \/ /\ Valid(e)
                    /\ job' = Deduplicated(MovedOn(job, p), e)
                    /\ newest' = [newest EXCEPT ![p] = LaterTime(newest[p], event[e].time)]
                 \/ /\ ~Valid(e)
                    /\ job' = SetAside(MovedOn(job, p), e)
                    /\ newest' = newest
  <1> DEFINE e == kafka[p][job.pos[p] + 1]
  <1>1. job.pos[p] \in Nat /\ kafka[p] \in Seq(Events)
    BY DEF StreamTypeOK, JobState
  <1>2. job.pos[p] < Len(kafka[p])
    BY DEF Process
  <1>3. Len(kafka[p]) \in Nat
    BY <1>1
  <1>4. job.pos[p] + 1 \in 1..Len(kafka[p])
    BY <1>1, <1>2, <1>3
  <1>5. e \in Events
    BY <1>1, <1>4
  <1>6. \/ /\ Valid(e)
           /\ job' = Deduplicated(MovedOn(job, p), e)
           /\ newest' = [newest EXCEPT ![p] = LaterTime(newest[p], event[e].time)]
        \/ /\ ~Valid(e)
           /\ job' = SetAside(MovedOn(job, p), e)
           /\ newest' = newest
    BY DEF Process, MovedOn, SetAside
  <1>7. QED
    BY <1>4, <1>5, <1>6

(* The watermark only becomes what some source has sent.                   *)
LEMMA AdvanceIs ==
    ASSUME StreamTypeOK, NEW sent \in [TopicPartitions -> Int], NEW asleep,
           \/ AdvanceTo(watermark)
           \/ AdvanceToLeast(sent, asleep)
           \/ AdvanceToNewest /\ sent = channel
    PROVE  \E instant \in Int :
              /\ instant = watermark \/ \E q \in TopicPartitions : instant = sent[q]
              /\ watermark' = instant /\ job' = Fired(job, instant)
  <1>1. watermark \in Int /\ channel \in [TopicPartitions -> Int]
    BY DEF StreamTypeOK
  <1>2. CASE AdvanceTo(watermark)
    BY <1>1, <1>2 DEF AdvanceTo
  <1>3. CASE AdvanceToLeast(sent, asleep)
    <2>1. AdvanceTo(watermark) \/ \E q \in TopicPartitions : AdvanceTo(sent[q])
      BY <1>3 DEF AdvanceToLeast
    <2>2. QED
      BY <1>1, <2>1 DEF AdvanceTo
  <1>4. CASE AdvanceToNewest /\ sent = channel
    <2>1. \E q \in TopicPartitions : AdvanceTo(sent[q])
      BY <1>4 DEF AdvanceToNewest
    <2>2. QED
      BY <1>1, <2>1 DEF AdvanceTo
  <1>5. QED
    BY <1>2, <1>3, <1>4

LEMMA SentIsInt ==
    ASSUME StreamTypeOK, NEW p \in TopicPartitions, EmitWatermark(p)
    PROVE  channel' \in [TopicPartitions -> Int]
  <1>1. newest[p] \in EventTimes \union {-1}
    BY DEF StreamTypeOK
  <1>2. WatermarkOf(newest[p]) \in Int
    BY <1>1, WatermarkTimes
  <1>3. QED
    BY <1>2 DEF StreamTypeOK, EmitWatermark

LEMMA EmitIs ==
    ASSUME StreamTypeOK, NEW p \in TopicPartitions, EmitWatermark(p)
    PROVE  \E instant \in Int :
              /\ instant = watermark \/ \E q \in TopicPartitions : instant = channel'[q]
              /\ watermark' = instant /\ job' = Fired(job, instant)
  <1>1. channel' \in [TopicPartitions -> Int]
    BY SentIsInt
  <1>2. AdvanceToLeast(channel', idle')
    BY DEF EmitWatermark
  <1>3. QED
    BY <1>1, <1>2, AdvanceIs

LEMMA IdleIs ==
    ASSUME StreamTypeOK, NEW p \in TopicPartitions, GoIdle(p)
    PROVE  \E instant \in Int :
              /\ instant = watermark \/ \E q \in TopicPartitions : instant = channel[q]
              /\ watermark' = instant /\ job' = Fired(job, instant)
  <1>1. channel \in [TopicPartitions -> Int]
    BY DEF StreamTypeOK
  <1>2. \/ AdvanceTo(watermark)
        \/ AdvanceToLeast(channel, idle')
        \/ AdvanceToNewest
    BY DEF GoIdle
  <1>3. QED
    BY <1>1, <1>2, AdvanceIs

-----------------------------------------------------------------------------
LEMMA TypeInit ==
    StreamInit => StreamTypeOK
  <1> SUFFICES ASSUME StreamInit
               PROVE  StreamTypeOK
    OBVIOUS
  <1>1. NoWatermark \in Int
    BY WatermarkTimes
  <1>2. kafka \in [TopicPartitions -> Seq(Events)]
    BY DEF StreamInit
  <1>3. QED
    BY <1>1, <1>2, EmptyJobType, StreamAssumption DEF StreamInit, StreamTypeOK

LEMMA TypeWritten ==
    ASSUME StreamTypeOK, NEW e \in Events, Written(e)
    PROVE  kafka' \in [TopicPartitions -> Seq(Events)]
  <1>1. home[e] \in TopicPartitions /\ kafka[home[e]] \in Seq(Events)
    BY DEF StreamTypeOK
  <1>2. Append(kafka[home[e]], e) \in Seq(Events)
    BY <1>1
  <1>3. QED
    BY <1>1, <1>2 DEF StreamTypeOK, Written

LEMMA TypeNext ==
    ASSUME StreamTypeOK, [StreamNext]_streamVars
    PROVE  StreamTypeOK'
  <1> USE StreamAssumption
  <1>1. ASSUME NEW e \in Events, Send(e)
        PROVE  StreamTypeOK'
    BY <1>1 DEF StreamTypeOK, Send, client, clocks
  <1>2. ASSUME NEW e \in Events, Deliver(e)
        PROVE  StreamTypeOK'
    <2>1. kafka' \in [TopicPartitions -> Seq(Events)]
      BY <1>2, TypeWritten DEF Deliver
    <2>2. QED
      BY <1>2, <2>1 DEF StreamTypeOK, Deliver, client, clocks
  <1>3. ASSUME NEW e \in Events, Accept(e)
        PROVE  StreamTypeOK'
    BY <1>3 DEF StreamTypeOK, Accept, client, clocks
  <1>4. ASSUME NEW e \in Events, PublishFails(e)
        PROVE  StreamTypeOK'
    BY <1>4 DEF StreamTypeOK, PublishFails, client, clocks
  <1>5. ASSUME NEW e \in Events, DeliverOrphan(e)
        PROVE  StreamTypeOK'
    <2>1. kafka' \in [TopicPartitions -> Seq(Events)]
      BY <1>5, TypeWritten DEF DeliverOrphan
    <2>2. orphans' \in [Events -> Nat]
      BY <1>5 DEF StreamTypeOK, DeliverOrphan
    <2>3. QED
      BY <1>5, <2>1, <2>2 DEF StreamTypeOK, DeliverOrphan, client, clocks
  <1>6. ASSUME NEW e \in Events, StateExpires(e)
        PROVE  StreamTypeOK'
    <2>1. job' = Lapsed(job, e)
      BY <1>6 DEF StateExpires, Lapsed
    <2>2. job' \in JobState
      BY <2>1, LapsedParts DEF StreamTypeOK
    <2>3. QED
      BY <1>6, <2>2 DEF StreamTypeOK, StateExpires, Mishap, client, collector, clocks
  <1>7. CASE CollectorCrashes
    BY <1>7 DEF StreamTypeOK, CollectorCrashes, Mishap, client, clocks
  <1>8. ASSUME NEW p \in TopicPartitions, Process(p)
        PROVE  StreamTypeOK'
    <2>1. PICK e \in Events :
              \/ job' = Deduplicated(MovedOn(job, p), e)
                 /\ newest' = [newest EXCEPT ![p] = LaterTime(newest[p], event[e].time)]
              \/ job' = SetAside(MovedOn(job, p), e) /\ newest' = newest
      BY <1>8, ProcessIs
    <2>2. job \in JobState
      BY DEF StreamTypeOK
    <2>3. MovedOn(job, p) \in JobState
      BY <2>2, MovedOnParts
    <2>4. Deduplicated(MovedOn(job, p), e) \in JobState
      BY <2>3, DeduplicatedType
    <2>5. SetAside(MovedOn(job, p), e) \in JobState
      BY <2>3, SetAsideParts
    <2>6. job' \in JobState
      BY <2>1, <2>4, <2>5
    <2>7. newest' \in [TopicPartitions -> EventTimes \union {-1}]
      BY <2>1 DEF StreamTypeOK, LaterTime
    <2>8. QED
      BY <1>8, <2>6, <2>7 DEF StreamTypeOK, Process, client, collector
  <1>9. ASSUME NEW p \in TopicPartitions, EmitWatermark(p)
        PROVE  StreamTypeOK'
    <2>1. PICK instant \in Int : watermark' = instant /\ job' = Fired(job, instant)
      BY <1>9, EmitIs
    <2>2. job' \in JobState
      BY <2>1, FiredParts DEF StreamTypeOK
    <2>3. channel' \in [TopicPartitions -> Int]
      BY <1>9, SentIsInt
    <2>4. QED
      BY <1>9, <2>1, <2>2, <2>3 DEF StreamTypeOK, EmitWatermark, client, collector
  <1>10. ASSUME NEW p \in TopicPartitions, GoIdle(p)
         PROVE  StreamTypeOK'
    <2>1. PICK instant \in Int : watermark' = instant /\ job' = Fired(job, instant)
      BY <1>10, IdleIs
    <2>2. job' \in JobState
      BY <2>1, FiredParts DEF StreamTypeOK
    <2>3. QED
      BY <1>10, <2>1, <2>2 DEF StreamTypeOK, GoIdle, client, collector
  <1>11. CASE Checkpoint
    BY <1>11 DEF StreamTypeOK, Checkpoint, client, collector, clocks
  <1>12. CASE JobFails
    <2>1. NoWatermark \in Int
      BY WatermarkTimes
    <2>2. QED
      BY <1>12, <2>1 DEF StreamTypeOK, JobFails, Mishap, client, collector
  <1>13. CASE UNCHANGED streamVars
    BY <1>13 DEF StreamTypeOK, streamVars, client, collector, clocks
  <1>14. QED
    BY <1>1, <1>2, <1>3, <1>4, <1>5, <1>6, <1>7, <1>8, <1>9, <1>10, <1>11, <1>12, <1>13 DEF StreamNext

(* Every reachable state of collector, Kafka and job is well typed.        *)
THEOREM StreamTypeCorrect ==
    StreamSpec => []StreamTypeOK
  <1>1. StreamInit => StreamTypeOK
    BY TypeInit
  <1>2. StreamTypeOK /\ [StreamNext]_streamVars => StreamTypeOK'
    BY TypeNext
  <1>3. QED
    BY <1>1, <1>2, PTL DEF StreamSpec

-----------------------------------------------------------------------------
(* What is in Kafka is in the tables or will be read.                      *)

Messages == \A e \in Events : call[e] \in {"written", "accepted"} =>
                \E i \in 1..Len(kafka[home[e]]) : kafka[home[e]][i] = e

(* A state of the job covers the messages before its positions.            *)
Covers(j) ==
    /\ \A p \in TopicPartitions :
          /\ j.pos[p] <= Len(kafka[p])
          /\ \A i \in 1..j.pos[p] : kafka[p][i] \in j.canonical \union j.invalid
    /\ j.seen \subseteq j.canonical
    /\ j.canonical \ j.seen \subseteq j.lapsed

CoverInv == Messages /\ Covers(job) /\ Covers(saved)

(* Kafka only grows.                                                       *)
LEMMA KafkaGrows ==
    ASSUME StreamTypeOK, [StreamNext]_streamVars, NEW p \in TopicPartitions
    PROVE  /\ Len(kafka'[p]) \in Nat /\ Len(kafka[p]) \in Nat
           /\ Len(kafka[p]) <= Len(kafka'[p])
           /\ \A i \in 1..Len(kafka[p]) : kafka'[p][i] = kafka[p][i]
  <1>1. kafka[p] \in Seq(Events)
    BY DEF StreamTypeOK
  <1>2. kafka' = kafka \/ \E e \in Events : Written(e)
    BY DEF StreamNext, streamVars, Send, Deliver, Accept, PublishFails, DeliverOrphan, StateExpires,
           CollectorCrashes, Process, EmitWatermark, GoIdle, Checkpoint, JobFails, collector
  <1>3. CASE kafka' = kafka
    BY <1>1, <1>3
  <1>4. ASSUME NEW e \in Events, Written(e)
        PROVE  kafka'[p] = kafka[p] \/ kafka'[p] = Append(kafka[p], e)
    BY <1>4 DEF Written, StreamTypeOK
  <1>5. QED
    BY <1>1, <1>2, <1>3, <1>4

LEMMA CoversStays ==
    ASSUME StreamTypeOK, [StreamNext]_streamVars, NEW j \in JobState, Covers(j)
    PROVE  /\ \A p \in TopicPartitions :
                 /\ j.pos[p] <= Len(kafka'[p])
                 /\ \A i \in 1..j.pos[p] : kafka'[p][i] \in j.canonical \union j.invalid
           /\ j.seen \subseteq j.canonical
           /\ j.canonical \ j.seen \subseteq j.lapsed
  <1>1. ASSUME NEW p \in TopicPartitions
        PROVE  /\ j.pos[p] <= Len(kafka'[p])
               /\ \A i \in 1..j.pos[p] : kafka'[p][i] \in j.canonical \union j.invalid
    <2>1. j.pos[p] \in Nat /\ j.pos[p] <= Len(kafka[p])
      BY DEF JobState, Covers
    <2>2. QED
      BY <2>1, KafkaGrows DEF Covers
  <1>2. QED
    BY <1>1 DEF Covers

(* The states that keep what Covers is about.                              *)
LEMMA CoversSame ==
    ASSUME NEW j, NEW k, Covers(j), k.pos = j.pos, k.canonical = j.canonical,
           k.invalid = j.invalid, k.seen = j.seen, k.lapsed = j.lapsed
    PROVE  Covers(k)
  BY DEF Covers

LEMMA CoversCounted ==
    ASSUME StreamTypeOK, NEW j \in JobState, NEW e \in Events, Covers(j)
    PROVE  Covers(Counted(j, e))
  <1>1. /\ Counted(j, e).pos = j.pos /\ Counted(j, e).seen = j.seen
        /\ Counted(j, e).lapsed = j.lapsed /\ Counted(j, e).canonical = j.canonical
        /\ Counted(j, e).invalid = j.invalid
    BY CountedParts
  <1>2. QED
    BY <1>1, CoversSame

LEMMA CoversProcess ==
    ASSUME StreamTypeOK, Covers(job), NEW p \in TopicPartitions, Process(p)
    PROVE  Covers(job')
  <1>1. PICK e \in Events :
            /\ job.pos[p] + 1 \in 1..Len(kafka[p]) /\ e = kafka[p][job.pos[p] + 1]
            /\ \/ job' = Deduplicated(MovedOn(job, p), e)
               \/ job' = SetAside(MovedOn(job, p), e)
    BY ProcessIs
  <1> DEFINE j == MovedOn(job, p)
  <1>2. job \in JobState /\ job.pos \in [TopicPartitions -> Nat]
    BY DEF StreamTypeOK, JobState
  <1>3. /\ j \in JobState /\ j.pos = [job.pos EXCEPT ![p] = job.pos[p] + 1]
        /\ j.seen = job.seen /\ j.canonical = job.canonical
        /\ j.invalid = job.invalid /\ j.lapsed = job.lapsed
    BY <1>2, MovedOnParts
  <1> HIDE DEF j
  <1>4. ASSUME NEW k, k.pos = j.pos, k.seen \subseteq k.canonical,
               k.canonical \ k.seen \subseteq k.lapsed,
               job.canonical \subseteq k.canonical, job.invalid \subseteq k.invalid,
               e \in k.canonical \union k.invalid
        PROVE  Covers(k)
    <2>1. ASSUME NEW q \in TopicPartitions
          PROVE  /\ k.pos[q] <= Len(kafka[q])
                 /\ \A i \in 1..k.pos[q] : kafka[q][i] \in k.canonical \union k.invalid
      <3>1. CASE q = p
        <4>1. k.pos[q] = job.pos[p] + 1 /\ job.pos[p] \in Nat
          BY <1>2, <1>3, <1>4, <3>1
        <4>2. \A i \in 1..job.pos[p] : kafka[p][i] \in k.canonical \union k.invalid
          BY <1>4 DEF Covers
        <4>3. k.pos[q] <= Len(kafka[q])
          BY <1>1, <3>1, <4>1
        <4>4. \A i \in 1..k.pos[q] : i \in 1..job.pos[p] \/ i = job.pos[p] + 1
          BY <4>1
        <4>5. QED
          BY <1>1, <1>4, <3>1, <4>2, <4>3, <4>4
      <3>2. CASE q # p
        <4>1. k.pos[q] = job.pos[q]
          BY <1>2, <1>3, <1>4, <3>2
        <4>2. QED
          BY <1>4, <4>1 DEF Covers
      <3>3. QED
        BY <3>1, <3>2
    <2>2. QED
      BY <1>4, <2>1 DEF Covers
  <1>5. CASE job' = SetAside(j, e)
    <2>1. /\ job'.pos = j.pos /\ job'.seen = job.seen /\ job'.canonical = job.canonical
          /\ job'.lapsed = job.lapsed /\ job'.invalid = job.invalid \union {e}
      BY <1>3, <1>5, SetAsideParts
    <2>2. QED
      BY <1>4, <2>1 DEF Covers
  <1>6. CASE job' = Deduplicated(j, e)
    <2>1. CASE e \in j.seen /\ job' = j
      BY <1>3, <1>4, <2>1 DEF Covers
    <2>2. Covers(Canonical(j, e))
      <3>1. /\ Canonical(j, e).pos = j.pos /\ Canonical(j, e).seen = j.seen \union {e}
            /\ Canonical(j, e).canonical = j.canonical \union {e}
            /\ Canonical(j, e).lapsed = j.lapsed /\ Canonical(j, e).invalid = j.invalid
        BY <1>3, CanonicalParts
      <3>2. QED
        BY <1>3, <1>4, <3>1 DEF Covers
    <2>3. Canonical(j, e) \in JobState
      BY <1>3, CanonicalParts
    <2>4. Covers(Counted(Canonical(j, e), e))
      BY <2>2, <2>3, CoversCounted
    <2>5. \/ e \in j.seen /\ job' = j
          \/ job' = Counted(Canonical(j, e), e)
          \/ job' = Canonical(j, e)
      BY <1>3, <1>6, DeduplicatedCases
    <2>6. QED
      BY <2>1, <2>2, <2>4, <2>5
  <1>7. QED
    BY <1>1, <1>5, <1>6 DEF j

(* No step but reading touches what the job covers.                        *)
LEMMA CoversNext ==
    ASSUME StreamTypeOK, CoverInv, [StreamNext]_streamVars
    PROVE  Covers(job)' /\ Covers(saved)'
  <1> USE DEF CoverInv
  <1>1. job \in JobState /\ saved \in JobState
    BY DEF StreamTypeOK
  <1>2. ASSUME NEW j \in JobState, Covers(j), NEW k,
               k.pos = j.pos, k.canonical = j.canonical, k.invalid = j.invalid,
               k.seen \subseteq j.seen, j.seen \ k.seen \subseteq k.lapsed, j.lapsed \subseteq k.lapsed
        PROVE  /\ \A p \in TopicPartitions :
                     /\ k.pos[p] <= Len(kafka'[p])
                     /\ \A i \in 1..k.pos[p] : kafka'[p][i] \in k.canonical \union k.invalid
               /\ k.seen \subseteq k.canonical
               /\ k.canonical \ k.seen \subseteq k.lapsed
    <2>1. /\ \A p \in TopicPartitions :
                /\ j.pos[p] <= Len(kafka'[p])
                /\ \A i \in 1..j.pos[p] : kafka'[p][i] \in j.canonical \union j.invalid
          /\ j.seen \subseteq j.canonical
          /\ j.canonical \ j.seen \subseteq j.lapsed
      BY <1>2, CoversStays
    <2>2. \A p \in TopicPartitions :
             /\ k.pos[p] <= Len(kafka'[p])
             /\ \A i \in 1..k.pos[p] : kafka'[p][i] \in k.canonical \union k.invalid
      BY <1>2, <2>1
    <2>3. k.seen \subseteq k.canonical /\ k.canonical \ k.seen \subseteq k.lapsed
      BY <1>2, <2>1
    <2>4. QED
      BY <2>2, <2>3
  <1>3. Covers(saved)'
    <2>1. saved' = saved \/ saved' = job
      BY DEF StreamNext, streamVars, Send, Deliver, Accept, PublishFails, DeliverOrphan, StateExpires,
             CollectorCrashes, Process, EmitWatermark, GoIdle, Checkpoint, JobFails
    <2>2. QED
      BY <1>1, <1>2, <2>1 DEF Covers
  <1>4. ASSUME \E p \in TopicPartitions : Process(p)
        PROVE  Covers(job)'
    BY <1>4, CoversProcess DEF Process, Covers
  <1>5. ASSUME \E e \in Events : StateExpires(e)
        PROVE  Covers(job)'
    <2>1. PICK e \in Events : job' = Lapsed(job, e)
      BY <1>5 DEF StateExpires, Lapsed
    <2>2. /\ job'.pos = job.pos /\ job'.canonical = job.canonical /\ job'.invalid = job.invalid
          /\ job'.seen = job.seen \ {e} /\ job'.lapsed = job.lapsed \union {e}
      BY <1>1, <2>1, LapsedParts
    <2>3. QED
      BY <1>1, <1>2, <2>2 DEF Covers
  <1>6. ASSUME \E p \in TopicPartitions : EmitWatermark(p) \/ GoIdle(p)
        PROVE  Covers(job)'
    <2>1. PICK instant \in Int : job' = Fired(job, instant)
      BY <1>6, EmitIs, IdleIs
    <2>2. /\ job'.pos = job.pos /\ job'.canonical = job.canonical /\ job'.invalid = job.invalid
          /\ job'.seen = job.seen /\ job'.lapsed = job.lapsed
      BY <1>1, <2>1, FiredParts
    <2>3. QED
      BY <1>1, <1>2, <2>2 DEF Covers
  <1>7. ASSUME job' = job \/ job' = saved
        PROVE  Covers(job)'
    BY <1>1, <1>2, <1>7 DEF Covers
  <1>8. \/ \E p \in TopicPartitions : Process(p) \/ EmitWatermark(p) \/ GoIdle(p)
        \/ \E e \in Events : StateExpires(e)
        \/ job' = job \/ job' = saved
    BY DEF StreamNext, streamVars, Send, Deliver, Accept, PublishFails, DeliverOrphan,
           CollectorCrashes, Checkpoint, JobFails
  <1>9. QED
    BY <1>3, <1>4, <1>5, <1>6, <1>7, <1>8

(* The producer calls an event written only when its message is in Kafka.  *)
LEMMA MessagesNext ==
    ASSUME StreamTypeOK, Messages, [StreamNext]_streamVars
    PROVE  Messages'
  <1> SUFFICES ASSUME NEW e \in Events, call'[e] \in {"written", "accepted"}
               PROVE  \E i \in 1..Len(kafka'[home[e]]) : kafka'[home[e]][i] = e
    <2>1. home' = home
      BY DEF StreamNext, streamVars, client, Send, Deliver, Accept, PublishFails, DeliverOrphan, StateExpires,
             CollectorCrashes, Process, EmitWatermark, GoIdle, Checkpoint, JobFails
    <2>2. QED
      BY <2>1 DEF Messages
  <1>1. home[e] \in TopicPartitions /\ kafka[home[e]] \in Seq(Events)
    BY DEF StreamTypeOK
  <1>2. CASE call[e] \in {"written", "accepted"}
    <2>1. PICK i \in 1..Len(kafka[home[e]]) : kafka[home[e]][i] = e
      BY <1>2 DEF Messages
    <2>2. kafka'[home[e]][i] = e /\ i \in 1..Len(kafka'[home[e]])
      BY <1>1, <2>1, KafkaGrows
    <2>3. QED
      BY <2>2
  <1>3. CASE call[e] \notin {"written", "accepted"}
    <2>1. Deliver(e)
      <3>1. ASSUME NEW d \in Events, Send(d) \/ Accept(d) \/ PublishFails(d)
            PROVE  call'[e] = call[e] \/ call'[e] \notin {"written", "accepted"} \/ call[e] = "written"
        BY <3>1 DEF Send, Accept, PublishFails, StreamTypeOK
      <3>2. CollectorCrashes => call'[e] = call[e] \/ call'[e] = "failed"
        BY DEF CollectorCrashes
      <3>3. ASSUME NEW d \in Events, Deliver(d)
            PROVE  d = e \/ call'[e] = call[e]
        BY <3>3 DEF Deliver, StreamTypeOK
      <3>4. QED
        BY <1>3, <3>1, <3>2, <3>3
           DEF StreamNext, streamVars, collector, DeliverOrphan, StateExpires, Process, EmitWatermark, GoIdle,
               Checkpoint, JobFails
    <2>2. kafka'[home[e]] = Append(kafka[home[e]], e)
      BY <1>1, <2>1 DEF Deliver, Written, StreamTypeOK
    <2>3. /\ Len(kafka'[home[e]]) = Len(kafka[home[e]]) + 1
          /\ kafka'[home[e]][Len(kafka[home[e]]) + 1] = e
          /\ Len(kafka[home[e]]) \in Nat
      BY <1>1, <2>2
    <2>4. QED
      BY <2>3
  <1>4. QED
    BY <1>2, <1>3

LEMMA CoverInit ==
    StreamInit => CoverInv
  BY DEF StreamInit, CoverInv, Messages, Covers, EmptyJob

(* The message of an accepted event is in Kafka: the positions of the last *)
(* checkpoint are beyond it, and then it is in a table, or before it.      *)
LEMMA CoveredIsRecoverable ==
    StreamTypeOK /\ CoverInv => AcceptedIsRecoverable
  <1> SUFFICES ASSUME StreamTypeOK, CoverInv, NEW e \in Events, call[e] = "accepted",
                      e \notin saved.canonical \union saved.invalid
               PROVE  Unread(saved, e)
    BY DEF AcceptedIsRecoverable
  <1>1. home[e] \in TopicPartitions /\ kafka[home[e]] \in Seq(Events)
    BY DEF StreamTypeOK
  <1>2. PICK i \in 1..Len(kafka[home[e]]) : kafka[home[e]][i] = e
    BY DEF CoverInv, Messages
  <1>3. ~(i \in 1..saved.pos[home[e]])
    BY <1>1, <1>2 DEF CoverInv, Covers
  <1>4. saved.pos[home[e]] \in Nat
    BY <1>1 DEF StreamTypeOK, JobState
  <1>5. i \in (saved.pos[home[e]] + 1)..Len(kafka[home[e]])
    BY <1>1, <1>2, <1>3, <1>4
  <1>6. QED
    BY <1>2, <1>5 DEF Unread

-----------------------------------------------------------------------------
(* Counts and views.                                                       *)

ViewsOf(j, w) == {e \in j.canonical : IsProductView(e) /\ WindowOf(e) = w}
ToCount(j, w) == ViewsOf(j, w) \ j.too_late

(* An open window has counted its views, and has published the count       *)
(* unless its timer is still to do so; a closed one published it before,   *)
(* and one that never opened has nothing to count.                         *)
AddsUpAt(j, w) ==
    /\ j.counts[w] > 0 =>
          /\ j.counts[w] = Cardinality(ToCount(j, w))
          /\ w \notin j.timers => j.views[w] = j.counts[w]
    /\ j.counts[w] = 0 =>
          /\ j.views[w] = Cardinality(ToCount(j, w))
          /\ w \notin j.cleaned => Cardinality(ToCount(j, w)) = 0

AddsUp(j) ==
    /\ j.too_late \subseteq j.canonical
    /\ \A w \in j.timers : j.counts[w] > 0
    /\ \A w \in Windows \ j.reopened : ViewsOf(j, w) \cap j.lapsed = {} => AddsUpAt(j, w)

ViewsInv == AddsUp(job) /\ AddsUp(saved)

(* The states that keep what AddsUp is about, or exempt more of it.        *)
LEMMA AddsUpSame ==
    ASSUME NEW j, NEW k, AddsUp(j), k.canonical = j.canonical, k.too_late = j.too_late,
           k.counts = j.counts, k.timers = j.timers, k.views = j.views, k.cleaned = j.cleaned,
           k.reopened = j.reopened, j.lapsed \subseteq k.lapsed
    PROVE  AddsUp(k)
  BY DEF AddsUp, AddsUpAt, ViewsOf, ToCount

(* Firing publishes what was due and closes only windows that have         *)
(* published.                                                              *)
LEMMA AddsUpFired ==
    ASSUME NEW j \in JobState, AddsUp(j), NEW instant \in Int
    PROVE  AddsUp(Fired(j, instant))
  <1> DEFINE k == Fired(j, instant)
  <1>1. /\ k.views = [w \in Windows |-> IF w \in Due(j, instant) THEN j.counts[w] ELSE j.views[w]]
        /\ k.counts = [w \in Windows |-> IF w \in Gone(j, instant) THEN 0 ELSE j.counts[w]]
        /\ k.timers = j.timers \ Due(j, instant) /\ k.cleaned = j.cleaned \union Gone(j, instant)
        /\ k.lapsed = j.lapsed /\ k.canonical = j.canonical
        /\ k.reopened = j.reopened /\ k.too_late = j.too_late
    BY FiredParts
  <1> HIDE DEF k
  <1>2. j.timers \subseteq Windows /\ j.counts \in [Windows -> Nat]
    BY DEF JobState
  <1>3. ASSUME NEW w \in Gone(j, instant), w \in j.timers
        PROVE  w \in Due(j, instant)
    <2>1. w \in Windows /\ CleanupTime(w) <= instant
      BY DEF Gone
    <2>2. MaxTimestamp(w) <= instant
      BY <2>1, WindowTimes
    <2>3. QED
      BY <1>3, <2>2 DEF Due
  <1>4. \A w \in k.timers : k.counts[w] > 0
    BY <1>1, <1>2, <1>3 DEF AddsUp
  <1>5. ASSUME NEW w \in Windows \ k.reopened, ViewsOf(k, w) \cap k.lapsed = {}
        PROVE  AddsUpAt(k, w)
    <2>1. ViewsOf(k, w) = ViewsOf(j, w) /\ ToCount(k, w) = ToCount(j, w)
      BY <1>1 DEF ViewsOf, ToCount
    <2>2. AddsUpAt(j, w)
      BY <1>1, <1>5, <2>1 DEF AddsUp
    <2>3. j.counts[w] \in Nat
      BY <1>2
    <2>4. CASE w \in Gone(j, instant)
      <3>1. j.counts[w] > 0
        BY <2>4 DEF Gone
      <3>2. k.counts[w] = 0 /\ w \in k.cleaned
        BY <1>1, <2>4
      <3>3. k.views[w] = j.counts[w]
        BY <1>1, <1>3, <2>2, <2>4, <3>1 DEF AddsUpAt
      <3>4. QED
        BY <2>1, <2>2, <3>1, <3>2, <3>3 DEF AddsUpAt
    <2>5. CASE w \notin Gone(j, instant)
      <3>1. k.counts[w] = j.counts[w] /\ j.cleaned \subseteq k.cleaned
        BY <1>1, <2>5
      <3>2. CASE w \in Due(j, instant)
        <4>1. j.counts[w] > 0 /\ k.views[w] = j.counts[w]
          BY <1>1, <3>2 DEF Due, AddsUp
        <4>2. QED
          BY <2>1, <2>2, <2>3, <3>1, <4>1 DEF AddsUpAt
      <3>3. CASE w \notin Due(j, instant)
        <4>1. k.views[w] = j.views[w] /\ (w \in k.timers <=> w \in j.timers)
          BY <1>1, <3>3
        <4>2. w \in j.cleaned => w \in k.cleaned
          BY <1>1
        <4>3. QED
          BY <2>1, <2>2, <3>1, <4>1, <4>2 DEF AddsUpAt
      <3>4. QED
        BY <3>2, <3>3
    <2>6. QED
      BY <2>4, <2>5
  <1>6. k.too_late \subseteq k.canonical
    BY <1>1 DEF AddsUp
  <1>7. AddsUp(k)
    BY <1>4, <1>5, <1>6 DEF AddsUp
  <1>8. QED
    BY <1>7 DEF k

(* An event that is new, or whose state expired, and is no product view.   *)
LEMMA AddsUpCanonical ==
    ASSUME NEW j \in JobState, NEW e \in Events, AddsUp(j), ~IsProductView(e)
    PROVE  AddsUp(Canonical(j, e))
  <1> DEFINE k == Canonical(j, e)
  <1>1. /\ k.canonical = j.canonical \union {e} /\ k.too_late = j.too_late
        /\ k.counts = j.counts /\ k.timers = j.timers /\ k.views = j.views
        /\ k.cleaned = j.cleaned /\ k.reopened = j.reopened /\ k.lapsed = j.lapsed
    BY CanonicalParts
  <1> HIDE DEF k
  <1>2. ASSUME NEW w
        PROVE  ViewsOf(k, w) = ViewsOf(j, w) /\ ToCount(k, w) = ToCount(j, w)
    BY <1>1 DEF ViewsOf, ToCount
  <1>3. AddsUp(k)
    BY <1>1, <1>2 DEF AddsUp, AddsUpAt
  <1>4. QED
    BY <1>3 DEF k

(* A product view is counted once, or set aside, unless its state expired  *)
(* or its window was opened again.                                         *)
LEMMA AddsUpCounted ==
    ASSUME StreamTypeOK, NEW j \in JobState, NEW e \in Events, AddsUp(j),
           j.seen \subseteq j.canonical, j.canonical \ j.seen \subseteq j.lapsed,
           e \notin j.seen, IsProductView(e)
    PROVE  AddsUp(Counted(Canonical(j, e), e))
  <1> DEFINE f == Canonical(j, e)
             k == Counted(f, e)
             v == WindowOf(e)
  <1>1. /\ f \in JobState /\ f.canonical = j.canonical \union {e} /\ f.too_late = j.too_late
        /\ f.counts = j.counts /\ f.timers = j.timers /\ f.views = j.views
        /\ f.cleaned = j.cleaned /\ f.reopened = j.reopened /\ f.lapsed = j.lapsed
    BY CanonicalParts
  <1>2. v \in Windows
    BY WindowOfEvent
  <1>3. /\ k.lapsed = f.lapsed /\ k.canonical = f.canonical /\ k.cleaned = f.cleaned
        /\ CleanupTime(v) <= watermark =>
             /\ k.too_late = f.too_late \union {e}
             /\ k.counts = f.counts /\ k.reopened = f.reopened
             /\ k.timers = f.timers /\ k.views = f.views
        /\ ~(CleanupTime(v) <= watermark) =>
             /\ k.too_late = f.too_late
             /\ k.counts = [f.counts EXCEPT ![v] = f.counts[v] + 1]
             /\ k.reopened = f.reopened \union ({v} \cap f.cleaned)
             /\ MaxTimestamp(v) <= watermark =>
                  /\ k.views = [f.views EXCEPT ![v] = f.counts[v] + 1]
                  /\ k.timers = f.timers
             /\ ~(MaxTimestamp(v) <= watermark) =>
                  /\ k.views = f.views
                  /\ k.timers = f.timers \union {v}
    BY <1>1, CountedParts
  <1> HIDE DEF f, k, v
  <1>4. /\ j.counts \in [Windows -> Nat] /\ j.views \in [Windows -> Nat]
        /\ j.canonical \subseteq Events /\ j.timers \subseteq Windows
    BY DEF JobState
  <1>5. k.too_late \subseteq k.canonical
    BY <1>1, <1>3 DEF AddsUp
  <1>6. \A w \in k.timers : k.counts[w] > 0
    <2>1. \A w \in j.timers : j.counts[w] > 0
      BY DEF AddsUp
    <2>2. CASE CleanupTime(v) <= watermark
      BY <1>1, <1>3, <2>1, <2>2
    <2>3. CASE ~(CleanupTime(v) <= watermark)
      <3>1. k.counts = [j.counts EXCEPT ![v] = j.counts[v] + 1] /\ k.timers \subseteq j.timers \union {v}
        BY <1>1, <1>3, <2>3
      <3>2. QED
        BY <1>2, <1>4, <2>1, <3>1
    <2>4. QED
      BY <2>2, <2>3
  <1>7. ASSUME NEW w \in Windows \ k.reopened, ViewsOf(k, w) \cap k.lapsed = {}, w # v
        PROVE  AddsUpAt(k, w)
    <2>1. ViewsOf(k, w) = ViewsOf(j, w) /\ e \notin ViewsOf(k, w)
      BY <1>1, <1>3, <1>7 DEF ViewsOf, v
    <2>2. ToCount(k, w) = ToCount(j, w)
      BY <1>1, <1>3, <2>1 DEF ToCount
    <2>3. AddsUpAt(j, w)
      BY <1>1, <1>3, <1>7, <2>1 DEF AddsUp
    <2>4. /\ k.counts[w] = j.counts[w] /\ k.views[w] = j.views[w]
          /\ (w \in k.timers <=> w \in j.timers) /\ k.cleaned = j.cleaned
      BY <1>1, <1>2, <1>3, <1>4, <1>7
    <2>5. QED
      BY <2>2, <2>3, <2>4 DEF AddsUpAt
  <1>8. ASSUME v \notin k.reopened, ViewsOf(k, v) \cap k.lapsed = {}
        PROVE  AddsUpAt(k, v)
    <2>1. e \in ViewsOf(k, v)
      BY <1>1, <1>3 DEF ViewsOf, v
    <2>2. e \notin j.canonical
      BY <1>1, <1>3, <1>8, <2>1
    <2>3. e \notin j.too_late
      BY <2>2 DEF AddsUp
    <2>4. ViewsOf(k, v) = ViewsOf(j, v) \union {e} /\ e \notin ViewsOf(j, v)
      BY <1>1, <1>3, <2>1, <2>2 DEF ViewsOf
    <2>5. AddsUpAt(j, v)
      BY <1>1, <1>2, <1>3, <1>8, <2>4 DEF AddsUp
    <2>6. IsFiniteSet(ToCount(j, v)) /\ e \notin ToCount(j, v)
      <3>1. ToCount(j, v) \subseteq Events
        BY <1>4 DEF ToCount, ViewsOf
      <3>2. IsFiniteSet(Events)
        BY StreamAssumption
      <3>3. QED
        BY <2>4, <3>1, <3>2, FS_Subset DEF ToCount
    <2>7. j.counts[v] \in Nat
      BY <1>2, <1>4
    <2>8. CASE CleanupTime(v) <= watermark
      <3>1. ToCount(k, v) = ToCount(j, v)
        BY <1>1, <1>3, <2>3, <2>4, <2>8 DEF ToCount
      <3>2. /\ k.counts = j.counts /\ k.views = j.views
            /\ k.timers = j.timers /\ k.cleaned = j.cleaned
        BY <1>1, <1>3, <2>8
      <3>3. QED
        BY <2>5, <3>1, <3>2 DEF AddsUpAt
    <2>9. CASE ~(CleanupTime(v) <= watermark)
      <3>1. ToCount(k, v) = ToCount(j, v) \union {e}
        BY <1>1, <1>3, <2>3, <2>4, <2>9 DEF ToCount
      <3>2. Cardinality(ToCount(k, v)) = Cardinality(ToCount(j, v)) + 1
        BY <2>6, <3>1, FS_AddElement
      <3>3. k.counts[v] = j.counts[v] + 1
        BY <1>1, <1>2, <1>3, <1>4, <2>9
      <3>4. j.counts[v] = Cardinality(ToCount(j, v))
        <4>1. v \notin j.cleaned
          BY <1>1, <1>3, <1>8, <2>9
        <4>2. QED
          BY <2>5, <2>7, <4>1 DEF AddsUpAt
      <3>5. v \notin k.timers => k.views[v] = j.counts[v] + 1
        BY <1>1, <1>2, <1>3, <1>4, <2>9
      <3>6. QED
        BY <2>7, <3>2, <3>3, <3>4, <3>5 DEF AddsUpAt
    <2>10. QED
      BY <2>8, <2>9
  <1>9. AddsUp(k)
    BY <1>5, <1>6, <1>7, <1>8 DEF AddsUp
  <1>10. QED
    BY <1>9 DEF k, f

LEMMA AddsUpProcess ==
    ASSUME StreamTypeOK, AddsUp(job), Covers(job), NEW p \in TopicPartitions, Process(p)
    PROVE  AddsUp(job')
  <1>1. PICK e \in Events : \/ job' = Deduplicated(MovedOn(job, p), e)
                            \/ job' = SetAside(MovedOn(job, p), e)
    BY ProcessIs
  <1> DEFINE j == MovedOn(job, p)
  <1>2. job \in JobState
    BY DEF StreamTypeOK
  <1>3. /\ j \in JobState /\ j.seen = job.seen /\ j.canonical = job.canonical
        /\ j.lapsed = job.lapsed /\ j.counts = job.counts /\ j.timers = job.timers
        /\ j.cleaned = job.cleaned /\ j.reopened = job.reopened
        /\ j.too_late = job.too_late /\ j.views = job.views
    BY <1>2, MovedOnParts
  <1> HIDE DEF j
  <1>4. AddsUp(j)
    BY <1>3, AddsUpSame
  <1>5. CASE job' = SetAside(j, e)
    <2>1. /\ SetAside(j, e).lapsed = j.lapsed /\ SetAside(j, e).canonical = j.canonical
          /\ SetAside(j, e).counts = j.counts /\ SetAside(j, e).timers = j.timers
          /\ SetAside(j, e).cleaned = j.cleaned /\ SetAside(j, e).reopened = j.reopened
          /\ SetAside(j, e).too_late = j.too_late /\ SetAside(j, e).views = j.views
      BY <1>3, SetAsideParts
    <2>2. AddsUp(SetAside(j, e))
      BY <1>4, <2>1, AddsUpSame
    <2>3. QED
      BY <1>5, <2>2
  <1>6. CASE job' = Deduplicated(j, e)
    <2>1. CASE e \in j.seen /\ job' = j
      BY <1>4, <2>1
    <2>2. CASE e \notin j.seen /\ ~IsProductView(e) /\ job' = Canonical(j, e)
      BY <1>3, <1>4, <2>2, AddsUpCanonical
    <2>3. CASE e \notin j.seen /\ IsProductView(e) /\ job' = Counted(Canonical(j, e), e)
      <3>1. j.seen \subseteq j.canonical /\ j.canonical \ j.seen \subseteq j.lapsed
        BY <1>3 DEF Covers
      <3>2. AddsUp(Counted(Canonical(j, e), e))
        BY <1>3, <1>4, <2>3, <3>1, AddsUpCounted
      <3>3. QED
        BY <2>3, <3>2
    <2>4. QED
      BY <1>3, <1>6, <2>1, <2>2, <2>3, DeduplicatedCases
  <1>7. QED
    BY <1>1, <1>5, <1>6 DEF j

LEMMA ViewsNext ==
    ASSUME StreamTypeOK, CoverInv, ViewsInv, [StreamNext]_streamVars
    PROVE  ViewsInv'
  <1> USE DEF ViewsInv
  <1>1. job \in JobState /\ saved \in JobState
    BY DEF StreamTypeOK
  <1>2. AddsUp(job')
    <2>1. ASSUME NEW p \in TopicPartitions, Process(p)
          PROVE  AddsUp(job')
      BY <2>1, AddsUpProcess DEF CoverInv
    <2>2. ASSUME NEW e \in Events, StateExpires(e)
          PROVE  AddsUp(job')
      <3>1. job' = Lapsed(job, e)
        BY <2>2 DEF StateExpires, Lapsed
      <3>2. /\ Lapsed(job, e).lapsed = job.lapsed \union {e}
            /\ Lapsed(job, e).canonical = job.canonical
            /\ Lapsed(job, e).counts = job.counts /\ Lapsed(job, e).timers = job.timers
            /\ Lapsed(job, e).cleaned = job.cleaned /\ Lapsed(job, e).reopened = job.reopened
            /\ Lapsed(job, e).too_late = job.too_late /\ Lapsed(job, e).views = job.views
        BY <1>1, LapsedParts
      <3>3. AddsUp(Lapsed(job, e))
        BY <3>2, AddsUpSame
      <3>4. QED
        BY <3>1, <3>3
    <2>3. ASSUME NEW p \in TopicPartitions, EmitWatermark(p) \/ GoIdle(p)
          PROVE  AddsUp(job')
      <3>1. PICK instant \in Int : job' = Fired(job, instant)
        BY <2>3, EmitIs, IdleIs
      <3>2. QED
        BY <1>1, <3>1, AddsUpFired
    <2>4. \/ \E p \in TopicPartitions : Process(p) \/ EmitWatermark(p) \/ GoIdle(p)
          \/ \E e \in Events : StateExpires(e)
          \/ job' = job \/ job' = saved
      BY DEF StreamNext, streamVars, Send, Deliver, Accept, PublishFails, DeliverOrphan,
             CollectorCrashes, Checkpoint, JobFails
    <2>5. QED
      BY <2>1, <2>2, <2>3, <2>4
  <1>3. AddsUp(saved')
    <2>1. saved' = saved \/ saved' = job
      BY DEF StreamNext, streamVars, Send, Deliver, Accept, PublishFails, DeliverOrphan, StateExpires,
             CollectorCrashes, Process, EmitWatermark, GoIdle, Checkpoint, JobFails
    <2>2. QED
      BY <2>1
  <1>4. event' = event
    BY DEF StreamNext, streamVars, client, Send, Deliver, Accept, PublishFails, DeliverOrphan, StateExpires,
           CollectorCrashes, Process, EmitWatermark, GoIdle, Checkpoint, JobFails
  <1>5. QED
    BY <1>2, <1>3, <1>4 DEF AddsUp, AddsUpAt, ToCount, ViewsOf, IsProductView, WindowOf

LEMMA ViewsInit ==
    ASSUME StreamInit
    PROVE  ViewsInv
  <1>1. AddsUp(EmptyJob)
    <2>1. ASSUME NEW w \in Windows
          PROVE  AddsUpAt(EmptyJob, w)
      <3>1. ToCount(EmptyJob, w) = {}
        BY DEF ToCount, ViewsOf, EmptyJob
      <3>2. Cardinality(ToCount(EmptyJob, w)) = 0
        BY <3>1, FS_EmptySet
      <3>3. QED
        BY <3>2 DEF AddsUpAt, EmptyJob
    <2>2. EmptyJob.too_late = {} /\ EmptyJob.timers = {}
      BY DEF EmptyJob
    <2>3. QED
      BY <2>1, <2>2 DEF AddsUp
  <1>2. QED
    BY <1>1 DEF StreamInit, ViewsInv

LEMMA CountsAddUp ==
    StreamTypeOK /\ ViewsInv => ViewsAddUp
  <1> SUFFICES ASSUME StreamTypeOK, ViewsInv, NEW w \in Windows \ job.reopened,
                      ViewsOf(job, w) \cap job.lapsed = {}
               PROVE  (IF job.counts[w] > 0 THEN job.counts[w] ELSE job.views[w])
                          = Cardinality(ToCount(job, w))
    BY DEF ViewsAddUp, ViewsOf, ToCount
  <1>1. AddsUpAt(job, w)
    BY DEF ViewsInv, AddsUp
  <1>2. job.counts[w] \in Nat
    BY DEF StreamTypeOK, JobState
  <1>3. QED
    BY <1>1, <1>2 DEF AddsUpAt

-----------------------------------------------------------------------------
(* Lateness.                                                               *)

(* A newer event, by the whole allowance, makes an event too late.         *)
HasReason(j) ==
    \A e \in j.too_late : \E d \in j.canonical :
        event[d].time >= CleanupTime(WindowOf(e)) + OutOfOrderness + 1

(* Every watermark goes back to an event that the job has read.            *)
ClocksInv ==
    /\ \A p \in TopicPartitions :
          /\ newest[p] = -1 \/ \E d \in job.canonical : event[d].time >= newest[p]
          /\ channel[p] <= WatermarkOf(newest[p])
    /\ watermark = NoWatermark \/ \E p \in TopicPartitions : watermark <= WatermarkOf(newest[p])

LateInv == ClocksInv /\ HasReason(job) /\ HasReason(saved)

(* What the watermark has passed was passed by an event.                   *)
LEMMA PassedByAnEvent ==
    ASSUME StreamTypeOK, ClocksInv, NEW w \in Windows, CleanupTime(w) <= watermark
    PROVE  \E d \in job.canonical : event[d].time >= CleanupTime(w) + OutOfOrderness + 1
  <1>1. CleanupTime(w) \in Nat /\ watermark \in Int /\ OutOfOrderness \in Nat
    BY WindowTimes, StreamAssumption DEF StreamTypeOK
  <1>2. NoWatermark \in Int /\ NoWatermark < 0
    BY WatermarkTimes
  <1>3. PICK p \in TopicPartitions : watermark <= WatermarkOf(newest[p])
    BY <1>1, <1>2 DEF ClocksInv
  <1>4. newest[p] \in EventTimes \union {-1} /\ newest[p] \in Int
    BY TimesAreInts DEF StreamTypeOK
  <1>5. newest[p] >= CleanupTime(w) + OutOfOrderness + 1
    BY <1>1, <1>3, <1>4, WatermarkTimes
  <1>6. PICK d \in job.canonical : event[d].time >= newest[p]
    BY <1>1, <1>4, <1>5 DEF ClocksInv
  <1>7. event[d].time \in Nat
    BY StreamAssumption DEF StreamTypeOK, JobState
  <1>8. QED
    BY <1>1, <1>4, <1>5, <1>6, <1>7

(* Reading a message: the event is canonical then, or blank.               *)
LEMMA LateProcess ==
    ASSUME StreamTypeOK, CoverInv, LateInv, NEW p \in TopicPartitions, Process(p)
    PROVE  /\ HasReason(job')
           /\ job.canonical \subseteq job'.canonical
           /\ newest' \in [TopicPartitions -> EventTimes \union {-1}]
           /\ \A q \in TopicPartitions :
                 /\ newest'[q] >= newest[q]
                 /\ newest'[q] = newest[q] \/ \E d \in job'.canonical : event[d].time >= newest'[q]
  <1>1. PICK e \in Events :
            \/ /\ job' = Deduplicated(MovedOn(job, p), e)
               /\ newest' = [newest EXCEPT ![p] = LaterTime(newest[p], event[e].time)]
            \/ job' = SetAside(MovedOn(job, p), e) /\ newest' = newest
    BY ProcessIs
  <1> DEFINE j == MovedOn(job, p)
  <1>2. job \in JobState /\ newest \in [TopicPartitions -> EventTimes \union {-1}] /\ event[e].time \in EventTimes
    BY DEF StreamTypeOK
  <1>3. j \in JobState /\ j.seen = job.seen /\ j.canonical = job.canonical /\ j.too_late = job.too_late
    BY <1>2, MovedOnParts
  <1>4. \A q \in TopicPartitions : newest[q] \in Int
    BY <1>2, TimesAreInts
  <1> HIDE DEF j
  <1>5. CASE job' = SetAside(j, e) /\ newest' = newest
    <2>1. job'.canonical = job.canonical /\ job'.too_late = job.too_late
      BY <1>3, <1>5, SetAsideParts
    <2>2. QED
      BY <1>2, <1>4, <1>5, <2>1 DEF LateInv, HasReason
  <1>6. CASE /\ job' = Deduplicated(j, e)
             /\ newest' = [newest EXCEPT ![p] = LaterTime(newest[p], event[e].time)]
    <2>1. /\ job'.canonical = job.canonical \union {e}
          /\ \/ job'.too_late = job.too_late
             \/ /\ job'.too_late = job.too_late \union {e}
                /\ CleanupTime(WindowOf(e)) <= watermark
      <3>1. Canonical(j, e) \in JobState /\ Canonical(j, e).canonical = j.canonical \union {e}
            /\ Canonical(j, e).too_late = j.too_late
        BY <1>3, CanonicalParts
      <3>2. CASE e \in j.seen /\ job' = j
        <4>1. e \in job.canonical
          BY <1>3, <3>2 DEF CoverInv, Covers
        <4>2. QED
          BY <1>3, <3>2, <4>1
      <3>3. CASE job' = Canonical(j, e)
        BY <1>3, <3>1, <3>3
      <3>4. CASE job' = Counted(Canonical(j, e), e)
        <4> DEFINE f == Canonical(j, e)
        <4>1. f \in JobState
          BY <3>1
        <4> HIDE DEF f
        <4>2. /\ Counted(f, e).canonical = f.canonical
              /\ \/ Counted(f, e).too_late = f.too_late
                 \/ /\ Counted(f, e).too_late = f.too_late \union {e}
                    /\ CleanupTime(WindowOf(e)) <= watermark
          BY <4>1, CountedParts
        <4>3. QED
          BY <1>3, <3>1, <3>4, <4>2 DEF f
      <3>5. QED
        BY <1>3, <1>6, <3>2, <3>3, <3>4, DeduplicatedCases
    <2>2. HasReason(job')
      <3>1. CASE job'.too_late = job.too_late
        BY <2>1, <3>1 DEF LateInv, HasReason
      <3>2. CASE job'.too_late = job.too_late \union {e} /\ CleanupTime(WindowOf(e)) <= watermark
        <4>1. \E d \in job.canonical :
                 event[d].time >= CleanupTime(WindowOf(e)) + OutOfOrderness + 1
          BY <3>2, WindowOfEvent, PassedByAnEvent DEF LateInv
        <4>2. QED
          BY <2>1, <3>2, <4>1 DEF LateInv, HasReason
      <3>3. QED
        BY <2>1, <3>1, <3>2
    <2>3. newest' \in [TopicPartitions -> EventTimes \union {-1}]
      BY <1>2, <1>6 DEF LaterTime
    <2>4. event[e].time \in Int
      BY <1>2, TimesAreInts
    <2>5. ASSUME NEW q \in TopicPartitions
          PROVE  /\ newest'[q] >= newest[q]
                 /\ newest'[q] = newest[q] \/ \E d \in job'.canonical : event[d].time >= newest'[q]
      <3>1. \/ newest'[q] = newest[q]
            \/ newest'[q] = event[e].time /\ event[e].time >= newest[q]
        BY <1>2, <1>4, <1>6, <2>4 DEF LaterTime
      <3>2. QED
        BY <1>4, <2>1, <2>4, <3>1
    <2>6. QED
      BY <2>1, <2>2, <2>3, <2>5
  <1>7. QED
    BY <1>1, <1>5, <1>6 DEF j

LEMMA LateNext ==
    ASSUME StreamTypeOK, CoverInv, LateInv, [StreamNext]_streamVars
    PROVE  LateInv'
  <1> USE DEF LateInv
  <1>1. /\ job \in JobState /\ saved \in JobState /\ watermark \in Int
        /\ newest \in [TopicPartitions -> EventTimes \union {-1}] /\ channel \in [TopicPartitions -> Int]
    BY DEF StreamTypeOK
  <1>2. event' = event
    BY DEF StreamNext, streamVars, client, Send, Deliver, Accept, PublishFails, DeliverOrphan, StateExpires,
           CollectorCrashes, Process, EmitWatermark, GoIdle, Checkpoint, JobFails
  <1>3. \A p \in TopicPartitions : WatermarkOf(newest[p]) \in Int /\ newest[p] \in Int
    BY <1>1, WatermarkTimes, TimesAreInts
  <1>4. HasReason(saved)'
    <2>1. saved' = saved \/ saved' = job
      BY DEF StreamNext, streamVars, Send, Deliver, Accept, PublishFails, DeliverOrphan, StateExpires,
             CollectorCrashes, Process, EmitWatermark, GoIdle, Checkpoint, JobFails
    <2>2. QED
      BY <1>2, <2>1 DEF HasReason, WindowOf
  <1>5. ASSUME NEW p \in TopicPartitions, Process(p)
        PROVE  ClocksInv' /\ HasReason(job)'
    <2>1. /\ HasReason(job')
          /\ job.canonical \subseteq job'.canonical
          /\ newest' \in [TopicPartitions -> EventTimes \union {-1}]
          /\ \A q \in TopicPartitions :
                /\ newest'[q] >= newest[q]
                /\ newest'[q] = newest[q] \/ \E d \in job'.canonical : event[d].time >= newest'[q]
      BY <1>5, LateProcess
    <2>2. HasReason(job)'
      BY <1>2, <2>1 DEF HasReason, WindowOf
    <2>3. channel' = channel /\ watermark' = watermark
      BY <1>5 DEF Process
    <2>4. \A q \in TopicPartitions : WatermarkOf(newest'[q]) \in Int
                                /\ WatermarkOf(newest'[q]) >= WatermarkOf(newest[q])
      <3>1. ASSUME NEW q \in TopicPartitions
            PROVE  /\ WatermarkOf(newest'[q]) \in Int
                   /\ WatermarkOf(newest'[q]) >= WatermarkOf(newest[q])
        <4>1. /\ newest[q] \in EventTimes \union {-1} /\ newest'[q] \in EventTimes \union {-1}
              /\ newest'[q] >= newest[q]
          BY <1>1, <2>1
        <4>2. newest[q] \in Int /\ newest'[q] \in Int
          BY <4>1, TimesAreInts
        <4>3. OutOfOrderness \in Int
          BY StreamAssumption
        <4>4. /\ WatermarkOf(newest[q]) = newest[q] - OutOfOrderness - 1
              /\ WatermarkOf(newest'[q]) = newest'[q] - OutOfOrderness - 1
          BY DEF WatermarkOf
        <4>5. QED
          BY <4>1, <4>2, <4>3, <4>4
      <3>2. QED
        BY <3>1
    <2>5. \A q \in TopicPartitions :
             newest'[q] = -1 \/ \E d \in job'.canonical : event[d].time >= newest'[q]
      BY <2>1 DEF ClocksInv
    <2>6. \A q \in TopicPartitions : channel'[q] <= WatermarkOf(newest'[q])
      BY <1>1, <1>3, <2>3, <2>4 DEF ClocksInv
    <2>7. watermark' = NoWatermark \/ \E q \in TopicPartitions : watermark' <= WatermarkOf(newest'[q])
      BY <1>1, <1>3, <2>3, <2>4 DEF ClocksInv
    <2>8. QED
      BY <1>2, <2>2, <2>5, <2>6, <2>7 DEF ClocksInv
  <1>6. ASSUME NEW p \in TopicPartitions, EmitWatermark(p) \/ GoIdle(p)
        PROVE  ClocksInv' /\ HasReason(job)'
    <2>1. /\ newest' = newest
          /\ channel' = channel \/ channel' = [channel EXCEPT ![p] = WatermarkOf(newest[p])]
      BY <1>6 DEF EmitWatermark, GoIdle
    <2>2. \A q \in TopicPartitions : channel'[q] <= WatermarkOf(newest[q])
      BY <1>1, <1>3, <2>1 DEF ClocksInv
    <2>3. PICK instant \in Int : /\ instant = watermark \/ \E q \in TopicPartitions : instant = channel'[q]
                             /\ watermark' = instant /\ job' = Fired(job, instant)
      <3>1. CASE EmitWatermark(p)
        BY <3>1, EmitIs
      <3>2. CASE GoIdle(p)
        <4>1. channel' = channel
          BY <3>2 DEF GoIdle
        <4>2. QED
          BY <3>2, <4>1, IdleIs
      <3>3. QED
        BY <1>6, <3>1, <3>2
    <2>4. job'.canonical = job.canonical /\ job'.too_late = job.too_late
      BY <1>1, <2>3, FiredParts
    <2>5. HasReason(job)'
      BY <1>2, <2>4 DEF HasReason, WindowOf
    <2>6. watermark' = NoWatermark \/ \E q \in TopicPartitions : watermark' <= WatermarkOf(newest[q])
      BY <2>2, <2>3 DEF ClocksInv
    <2>7. QED
      BY <1>2, <2>1, <2>2, <2>4, <2>5, <2>6 DEF ClocksInv
  <1>7. CASE JobFails
    <2>1. /\ job' = saved /\ newest' = [q \in TopicPartitions |-> -1]
          /\ channel' = [q \in TopicPartitions |-> NoWatermark] /\ watermark' = NoWatermark
      BY <1>7 DEF JobFails
    <2>2. HasReason(job)'
      BY <1>2, <2>1 DEF HasReason, WindowOf
    <2>3. NoWatermark \in Int /\ WatermarkOf(-1) = NoWatermark
      BY WatermarkTimes DEF NoWatermark
    <2>4. QED
      BY <1>4, <2>1, <2>2, <2>3 DEF ClocksInv
  <1>8. ASSUME UNCHANGED <<newest, channel, watermark>>,
               job' = job \/ \E e \in Events : StateExpires(e)
        PROVE  ClocksInv' /\ HasReason(job)'
    <2>1. ASSUME NEW e \in Events, StateExpires(e)
          PROVE  job'.canonical = job.canonical /\ job'.too_late = job.too_late
      <3>1. job' = Lapsed(job, e)
        BY <2>1 DEF StateExpires, Lapsed
      <3>2. QED
        BY <1>1, <3>1, LapsedParts
    <2>2. job'.canonical = job.canonical /\ job'.too_late = job.too_late
      BY <1>8, <2>1
    <2>3. QED
      BY <1>2, <1>8, <2>2 DEF ClocksInv, HasReason, WindowOf
  <1>9. \/ \E p \in TopicPartitions : Process(p) \/ EmitWatermark(p) \/ GoIdle(p)
        \/ JobFails
        \/ /\ UNCHANGED <<newest, channel, watermark>>
           /\ job' = job \/ \E e \in Events : StateExpires(e)
    BY DEF StreamNext, streamVars, clocks, Send, Deliver, Accept, PublishFails, DeliverOrphan,
           StateExpires, CollectorCrashes, Checkpoint
  <1>10. QED
    BY <1>4, <1>5, <1>6, <1>7, <1>8, <1>9

LEMMA LateInit ==
    ASSUME StreamInit
    PROVE  LateInv
  <1>1. NoWatermark \in Int /\ WatermarkOf(-1) = NoWatermark
    BY WatermarkTimes DEF NoWatermark
  <1>2. QED
    BY <1>1 DEF StreamInit, LateInv, ClocksInv, HasReason, EmptyJob

LEMMA LateReasons ==
    StreamTypeOK /\ LateInv => LateForAReason
  <1> SUFFICES ASSUME StreamTypeOK, LateInv, NEW e \in job.too_late
               PROVE  \E d \in job.canonical :
                  event[d].time >= MaxTimestamp(WindowOf(e)) + AllowedLateness + OutOfOrderness + 1
    BY DEF LateForAReason
  <1>1. PICK d \in job.canonical :
            event[d].time >= CleanupTime(WindowOf(e)) + OutOfOrderness + 1
    BY DEF LateInv, HasReason
  <1>2. QED
    BY <1>1 DEF CleanupTime

-----------------------------------------------------------------------------
(* The inductive invariant: the job and the last checkpoint cover what     *)
(* they have read, their counts add up, and every watermark goes back to   *)
(* an event.                                                               *)
StreamInv == StreamTypeOK /\ CoverInv /\ ViewsInv /\ LateInv

THEOREM StreamInvariant ==
    StreamSpec => []StreamInv
  <1>1. StreamInit => StreamInv
    BY TypeInit, CoverInit, ViewsInit, LateInit DEF StreamInv
  <1>2. StreamInv /\ [StreamNext]_streamVars => StreamInv'
    BY TypeNext, CoversNext, MessagesNext, ViewsNext, LateNext DEF StreamInv, CoverInv
  <1>3. QED
    BY <1>1, <1>2, PTL DEF StreamSpec

(* No event that got a 202 is lost: a crash of the collector or a failure  *)
(* of the job between any two steps leaves it in a table of the last       *)
(* checkpoint or before a job that starts from there.                      *)
THEOREM AcceptedEventsAreRecoverable ==
    StreamSpec => []AcceptedIsRecoverable
  BY StreamInvariant, CoveredIsRecoverable, PTL DEF StreamInv

(* Each product view is in its window's count once, whatever was sent      *)
(* twice, read again after a failure or came late, but for windows with    *)
(* expired deduplication state and those opened again after a failure.     *)
THEOREM ProductViewsAddUp ==
    StreamSpec => []ViewsAddUp
  BY StreamInvariant, CountsAddUp, PTL DEF StreamInv

(* No event is set aside as too late but for one that is newer by window,  *)
(* allowance and disorder, whatever sources fall idle or start again.      *)
THEOREM LateEventsHaveAReason ==
    StreamSpec => []LateForAReason
  <1>1. StreamInv => LateForAReason
    BY LateReasons DEF StreamInv
  <1>2. QED
    BY <1>1, StreamInvariant, PTL
=============================================================================
