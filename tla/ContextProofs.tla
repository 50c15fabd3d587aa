----------------------------- MODULE ContextProofs -----------------------------
(***************************************************************************)
(* What is proved of the governed context: of the snapshot of the          *)
(* semantics, of the cards, and of the bundle of one request, for any      *)
(* threads, instances, files, models, plans, sizes and limits.             *)
(***************************************************************************)
EXTENDS ContextParts, TLAPS

-----------------------------------------------------------------------------
(* The snapshot of the semantics.                                          *)

LookupType == {NoLookup} \union [at : {"lock"}, instance : Instances]
              \union [at : {"build"}, instance : Instances, read : 0..Sources,
                      of : [1..Sources -> SourceContents]]
              \union [at : {"bind"}, instance : Instances, found : Snapshots]

(* Who builds holds the lock, nobody else does, and nothing is memoized.   *)
OneBuilder ==
    /\ \A t \in Threads : lookup[t].at = "build" <=> t \in lock
    /\ \A t \in Threads, u \in Threads : t \in lock /\ u \in lock => t = u
    /\ lock # {} => memo = NoSnapshot

(* What has been read can be parsed: Broken would have ended the build.    *)
ReadIsSound ==
    \A t \in Threads : lookup[t].at = "build" =>
        \A f \in 1..lookup[t].read : lookup[t].of[f] \in Revisions

(* A snapshot that was built is memoized until the next clear.             *)
BuildsAreCounted == builds <= cleared + (IF memo = NoSnapshot THEN 0 ELSE 1)

(* The number of a snapshot is that of its build.                          *)
NumberedSnapshots ==
    /\ \A s \in InUse : s.id \in 1..builds
    /\ \A s, r \in InUse : s.id = r.id => s = r

CacheInv ==
    CacheTypeOK /\ OneBuilder /\ ReadIsSound /\ BuildsAreCounted /\ NumberedSnapshots

USE DEF NoLookup, NoSnapshot

LEMMA LookupParts ==
    ASSUME NEW l \in LookupType
    PROVE  /\ l.at \in {"idle", "lock", "build", "bind"}
           /\ l.at = "idle" => l = NoLookup
           /\ l.at # "idle" => l.instance \in Instances
           /\ l.at = "build" => l \in [at : {"build"}, instance : Instances, read : 0..Sources,
                                       of : [1..Sources -> SourceContents]]
           /\ l.at = "bind" => l.found \in Snapshots
  BY DEF LookupType

LEMMA SnapshotsAreSome ==
    NoSnapshot \notin Snapshots /\ \A s \in Snapshots : s # NoSnapshot /\ s.id \in Nat \ {0}
  BY DEF Snapshots

LEMMA CacheInitHolds == CacheInit => CacheInv
  <1> SUFFICES ASSUME CacheInit
               PROVE  CacheInv
    OBVIOUS
  <1>1. CacheTypeOK
    BY CacheAssumption DEF CacheInit, CacheTypeOK, SourceContents
  <1>2. InUse = {}
    BY DEF CacheInit, InUse
  <1>3. QED
    BY <1>1, <1>2 DEF CacheInit, CacheInv, OneBuilder, ReadIsSound, BuildsAreCounted,
                      NumberedSnapshots

(* Whatever keeps the builds, memoizes nothing new and uses no snapshot it *)
(* did not use before keeps the numbers.                                   *)
LEMMA SameSnapshots ==
    ASSUME CacheInv, InUse' \subseteq InUse, builds' = builds
    PROVE  NumberedSnapshots'
  BY DEF CacheInv, NumberedSnapshots

(* Steps of one thread that take what is memoized, or nothing.             *)
LEMMA LookupMoves ==
    ASSUME CacheTypeOK, NEW t \in Threads, NEW l, lookup' = [lookup EXCEPT ![t] = l],
           l.at = "bind" => l.found = memo, memo' = memo, ref' = ref
    PROVE  InUse' \subseteq InUse
  <1>1. lookup' = [u \in Threads |-> IF u = t THEN l ELSE lookup[u]]
    BY DEF CacheTypeOK
  <1>2. QED
    BY <1>1 DEF InUse

LEMMA StartLookupStep ==
    ASSUME CacheInv, NEW t \in Threads, StartLookup(t)
    PROVE  CacheInv'
  <1>1. PICK i \in Instances : lookup' = [lookup EXCEPT ![t] = [at |-> "lock", instance |-> i]]
    BY DEF StartLookup
  <1>2. CacheTypeOK'
    BY <1>1 DEF CacheInv, CacheTypeOK, StartLookup
  <1>3. InUse' \subseteq InUse
    BY <1>1, LookupMoves DEF CacheInv, StartLookup
  <1>4. OneBuilder' /\ ReadIsSound' /\ BuildsAreCounted'
    BY <1>1 DEF CacheInv, CacheTypeOK, OneBuilder, ReadIsSound, BuildsAreCounted, StartLookup
  <1>5. QED
    BY <1>2, <1>3, <1>4, SameSnapshots DEF CacheInv, StartLookup

LEMMA TakeLockStep ==
    ASSUME CacheInv, NEW t \in Threads, TakeLock(t)
    PROVE  CacheInv'
  <1> USE DEF CacheInv
  <1>1. lookup[t].instance \in Instances
    BY LookupParts DEF CacheTypeOK, TakeLock, LookupType
  <1>2. CASE memo # NoSnapshot
    <2>1. lookup' = [lookup EXCEPT ![t] = Found(t, memo)] /\ lock' = lock
      BY <1>2 DEF TakeLock
    <2>2. CacheTypeOK'
      BY <1>1, <1>2, <2>1 DEF CacheTypeOK, TakeLock, Found
    <2>3. InUse' \subseteq InUse
      BY <2>1, LookupMoves DEF TakeLock, Found
    <2>4. OneBuilder' /\ ReadIsSound' /\ BuildsAreCounted'
      BY <2>1 DEF CacheTypeOK, OneBuilder, ReadIsSound, BuildsAreCounted, TakeLock, Found
    <2>5. QED
      BY <2>2, <2>3, <2>4, SameSnapshots DEF TakeLock
  <1>3. CASE memo = NoSnapshot
    <2>1. lookup' = [lookup EXCEPT ![t] = Build(t)] /\ lock' = lock \union {t} /\ lock = {}
      BY <1>3 DEF TakeLock
    <2>2. CacheTypeOK'
      BY <1>1, <2>1, CacheAssumption DEF CacheTypeOK, TakeLock, Build, Reading
    <2>3. InUse' \subseteq InUse
      BY <2>1, LookupMoves DEF TakeLock, Build, Reading
    <2>4. OneBuilder' /\ ReadIsSound' /\ BuildsAreCounted'
      BY <1>3, <2>1 DEF CacheTypeOK, OneBuilder, ReadIsSound, BuildsAreCounted, TakeLock, Build,
           Reading
    <2>5. QED
      BY <2>2, <2>3, <2>4, SameSnapshots DEF TakeLock
  <1>4. QED
    BY <1>2, <1>3

LEMMA ReadFileStep ==
    ASSUME CacheInv, NEW t \in Threads, ReadFile(t)
    PROVE  CacheInv'
  <1> USE DEF CacheInv
  <1> DEFINE f == lookup[t].read + 1
  <1>1. lookup[t] \in [at : {"build"}, instance : Instances, read : 0..Sources,
                       of : [1..Sources -> SourceContents]]
    BY LookupParts DEF CacheTypeOK, ReadFile, LookupType
  <1>2. f \in 1..Sources /\ t \in lock
    BY <1>1, CacheAssumption DEF ReadFile, OneBuilder
  <1>3. CASE source[f] = Broken
    <2>1. lookup' = [lookup EXCEPT ![t] = NoLookup] /\ lock' = lock \ {t}
      BY <1>3 DEF ReadFile
    <2>2. CacheTypeOK'
      BY <2>1 DEF CacheTypeOK, ReadFile
    <2>3. InUse' \subseteq InUse
      BY <2>1, LookupMoves DEF ReadFile
    <2>4. OneBuilder' /\ ReadIsSound' /\ BuildsAreCounted'
      BY <2>1 DEF CacheTypeOK, OneBuilder, ReadIsSound, BuildsAreCounted, ReadFile
    <2>5. QED
      BY <2>2, <2>3, <2>4, SameSnapshots DEF ReadFile
  <1>4. CASE source[f] # Broken
    <2> DEFINE of == [lookup[t].of EXCEPT ![f] = source[f]]
               l == Reading(t, f, of)
    <2>1. lookup' = [lookup EXCEPT ![t] = l] /\ lock' = lock
      BY <1>4 DEF ReadFile
    <2>2. source[f] \in Revisions
      BY <1>2, <1>4 DEF CacheTypeOK, SourceContents
    <2>3. of \in [1..Sources -> SourceContents] /\ of[f] = source[f]
      BY <1>1, <1>2, <2>2 DEF SourceContents
    <2>4. l \in [at : {"build"}, instance : Instances, read : 0..Sources,
                 of : [1..Sources -> SourceContents]]
      BY <1>1, <1>2, <2>3 DEF Reading
    <2>5. l.at = "build" /\ l.read = f /\ l.of = of
      BY DEF Reading
    <2> HIDE DEF l
    <2>6. CacheTypeOK'
      BY <2>1, <2>4 DEF CacheTypeOK, ReadFile
    <2>7. InUse' \subseteq InUse
      BY <2>1, <2>5, LookupMoves DEF ReadFile
    <2>8. OneBuilder' /\ BuildsAreCounted'
      BY <1>2, <2>1, <2>5 DEF CacheTypeOK, OneBuilder, BuildsAreCounted, ReadFile
    <2>9. \A g \in 1..f : l.of[g] \in Revisions
      <3>1. \A g \in 1..lookup[t].read : lookup[t].of[g] \in Revisions
        BY DEF ReadIsSound, ReadFile
      <3>2. \A g \in 1..f : g # f => g \in 1..lookup[t].read /\ of[g] = lookup[t].of[g]
        BY <1>1, <1>2
      <3>3. QED
        BY <2>2, <2>3, <2>5, <3>1, <3>2
    <2>10. ReadIsSound'
      <3>1. lookup' = [u \in Threads |-> IF u = t THEN l ELSE lookup[u]]
        BY <2>1 DEF CacheTypeOK
      <3>2. QED
        BY <2>5, <2>9, <3>1 DEF ReadIsSound
    <2>11. QED
      BY <2>6, <2>7, <2>8, <2>10, SameSnapshots DEF ReadFile
  <1>5. QED
    BY <1>3, <1>4

LEMMA MemoizeStep ==
    ASSUME CacheInv, NEW t \in Threads, Memoize(t)
    PROVE  CacheInv'
  <1> USE DEF CacheInv
  <1> DEFINE built == Snapshot(builds + 1, lookup[t].of)
  <1>1. lookup[t] \in [at : {"build"}, instance : Instances, read : 0..Sources,
                       of : [1..Sources -> SourceContents]]
    BY LookupParts DEF CacheTypeOK, Memoize, LookupType
  <1>2. t \in lock /\ memo = NoSnapshot
    BY DEF OneBuilder, Memoize
  <1>3. built \in Snapshots /\ built.id = builds + 1
    BY <1>1 DEF Snapshot, Snapshots, Memoize, CacheTypeOK, ReadIsSound
  <1>4. /\ lookup' = [u \in Threads |-> IF u = t THEN Found(t, built) ELSE lookup[u]]
        /\ memo' = built /\ builds' = builds + 1 /\ lock' = lock \ {t}
    BY <1>2 DEF Memoize, CacheTypeOK
  <1>5. Found(t, built).at = "bind" /\ Found(t, built).found = built
    BY DEF Found
  <1>6. Found(t, built) \in [at : {"bind"}, instance : Instances, found : Snapshots]
    BY <1>1, <1>3 DEF Found
  <1> HIDE DEF built
  <1>7. CacheTypeOK'
    BY <1>3, <1>4, <1>6 DEF CacheTypeOK, Memoize
  <1>8. lock' = {}
    BY <1>2, <1>4 DEF OneBuilder, CacheTypeOK
  <1>9. OneBuilder'
    BY <1>2, <1>4, <1>5, <1>8 DEF OneBuilder
  <1>10. ReadIsSound'
    BY <1>4, <1>5 DEF ReadIsSound
  <1>11. BuildsAreCounted'
    BY <1>2, <1>3, <1>4, SnapshotsAreSome DEF BuildsAreCounted, CacheTypeOK, Memoize
  <1>12. InUse' \subseteq InUse \union {built}
    BY <1>4, <1>5 DEF InUse, Memoize
  <1>13. NumberedSnapshots'
    BY <1>3, <1>4, <1>12 DEF NumberedSnapshots, CacheTypeOK
  <1>14. QED
    BY <1>7, <1>9, <1>10, <1>11, <1>13

LEMMA BindStep ==
    ASSUME CacheInv, NEW t \in Threads, Bind(t)
    PROVE  CacheInv'
  <1> USE DEF CacheInv
  <1>1. lookup[t].instance \in Instances /\ lookup[t].found \in Snapshots
    BY LookupParts DEF CacheTypeOK, Bind, LookupType
  <1>2. /\ lookup' = [u \in Threads |-> IF u = t THEN NoLookup ELSE lookup[u]]
        /\ ref' = [i \in Instances |-> IF i = lookup[t].instance THEN lookup[t].found ELSE ref[i]]
    BY DEF Bind, CacheTypeOK
  <1>3. CacheTypeOK'
    BY <1>1, <1>2 DEF CacheTypeOK, Bind
  <1>4. OneBuilder' /\ ReadIsSound' /\ BuildsAreCounted'
    BY <1>2 DEF OneBuilder, ReadIsSound, BuildsAreCounted, Bind
  <1>5. InUse' \subseteq InUse
    BY <1>2 DEF InUse, Bind
  <1>6. QED
    BY <1>3, <1>4, <1>5, SameSnapshots DEF Bind

LEMMA ClearStep ==
    ASSUME CacheInv, Clear
    PROVE  CacheInv'
  <1> USE DEF CacheInv
  <1>1. CacheTypeOK'
    BY CacheAssumption DEF CacheTypeOK, Clear
  <1>2. OneBuilder' /\ ReadIsSound'
    BY DEF OneBuilder, ReadIsSound, Clear
  <1>3. BuildsAreCounted'
    BY DEF BuildsAreCounted, Clear, CacheTypeOK
  <1>4. InUse' \subseteq InUse
    BY DEF InUse, Clear
  <1>5. QED
    BY <1>1, <1>2, <1>3, <1>4, SameSnapshots DEF Clear

LEMMA EditSourceStep ==
    ASSUME CacheInv, EditSource
    PROVE  CacheInv'
  <1> USE DEF CacheInv
  <1>1. CacheTypeOK'
    BY CacheAssumption DEF CacheTypeOK, EditSource
  <1>2. OneBuilder' /\ ReadIsSound' /\ BuildsAreCounted' /\ NumberedSnapshots'
    BY DEF OneBuilder, ReadIsSound, BuildsAreCounted, NumberedSnapshots, InUse, EditSource
  <1>3. QED
    BY <1>1, <1>2

(* The inductive invariant: only the holder of the lock builds, while      *)
(* nothing is memoized.                                                    *)
THEOREM CacheInvariant == CacheSpec => []CacheInv
  <1>1. CacheInit => CacheInv
    BY CacheInitHolds
  <1>2. CacheInv /\ [CacheNext]_cacheVars => CacheInv'
    <2> SUFFICES ASSUME CacheInv, [CacheNext]_cacheVars
                 PROVE  CacheInv'
      OBVIOUS
    <2>1. CASE CacheNext
      BY <2>1, StartLookupStep, TakeLockStep, ReadFileStep, MemoizeStep, BindStep, ClearStep,
         EditSourceStep DEF CacheNext
    <2>2. CASE UNCHANGED cacheVars
      BY <2>2 DEF cacheVars, CacheInv, CacheTypeOK, OneBuilder, ReadIsSound, BuildsAreCounted,
                  NumberedSnapshots, InUse
    <2>3. QED
      BY <2>1, <2>2
  <1>3. QED
    BY <1>1, <1>2, PTL DEF CacheSpec

(* However the threads, the edits and the clears meet: all repositories of *)
(* a process answer from one snapshot, and from one more for each clear.   *)
THEOREM SnapshotsShared == CacheSpec => []SnapshotsAreShared
  <1>1. CacheInv => SnapshotsAreShared
    <2> SUFFICES ASSUME CacheInv
                 PROVE  SnapshotsAreShared
      OBVIOUS
    <2>1. builds \in Nat /\ cleared \in Nat
      BY CacheAssumption DEF CacheInv, CacheTypeOK
    <2>2. builds <= cleared + 1
      BY <2>1 DEF CacheInv, BuildsAreCounted
    <2>3. ASSUME cleared = 0, NEW s \in InUse, NEW r \in InUse
          PROVE  s = r
      BY <2>1, <2>2, <2>3 DEF CacheInv, NumberedSnapshots
    <2>4. QED
      BY <2>2, <2>3 DEF CacheInv, NumberedSnapshots, SnapshotsAreShared
  <1>2. QED
    BY <1>1, CacheInvariant, PTL

-----------------------------------------------------------------------------
(* The cards.                                                              *)

ComparingType == [at : {"compare"}, card : Cards, seen : [1..3 -> Contents], step : 0..3]
ResolvedType == [at : {"resolved"}, mode : {"prebuilt", "local"}, card : Cards,
                 seen : [1..3 -> Contents]]

(* Who builds undisturbed has read what the files still hold.              *)
ReadsAreCurrent(w) ==
    w.at = "build" /\ w.card.quiet =>
        \A k \in 1..3 :
           /\ k <= w.step => w.card.facts[k] = text[SourcesOf(w.card.model)[k]]
           /\ k + 3 <= w.step => w.card.prints[k] = text[SourcesOf(w.card.model)[k]]

(* The fingerprints of a quiet card are those of its facts.                *)
Faithful(card) == card.quiet => card.prints = card.facts

FaithfulCards ==
    /\ ci.at \in {"build", "write", "fill"} => \A card \in ci.built : Faithful(card)
    /\ ci.at = "fill" => Faithful(ci.card)
    /\ \A m \in Models : prebuilt[m].kind = "card" => Faithful(prebuilt[m].card)
    /\ agent.at = "compare" => Faithful(agent.card)

CodeInv ==
    /\ CodeTypeOK
    /\ ReadsAreCurrent(ci) /\ ReadsAreCurrent(agent)
    /\ FaithfulCards
    /\ QuietCardsAreCurrent

USE DEF Idle

LEMMA SourcesAreFiles ==
    ASSUME NEW m \in Models, NEW k \in 1..3
    PROVE  SourcesOf(m)[k] \in Files
  <1>1. k = 1 \/ k = 2 \/ k = 3
    OBVIOUS
  <1>2. QED
    BY <1>1 DEF SourcesOf, Files

LEMMA CardParts ==
    ASSUME NEW card \in Cards
    PROVE  /\ card.model \in Models /\ card.quiet \in BOOLEAN
           /\ card.facts \in [1..3 -> Contents] /\ card.prints \in [1..3 -> Contents]
  BY DEF Cards

LEMMA UnbuiltIsCard ==
    ASSUME NEW m \in Models
    PROVE  Unbuilt(m) \in Cards
  BY DEF Unbuilt, Cards, Contents

LEMMA NewBuilders ==
    ASSUME NEW m \in Models, NEW todo \in SUBSET Models, NEW built \in SUBSET Cards
    PROVE  /\ Building(todo, built, Unbuilt(m)) \in Builders
           /\ Building(todo, built, Unbuilt(m)).at = "build"
           /\ Building(todo, built, Unbuilt(m)).built = built
           /\ ReadsAreCurrent(Building(todo, built, Unbuilt(m)))'
           /\ ReadsAreCurrent(Building(todo, built, Unbuilt(m)))
  BY UnbuiltIsCard DEF Building, Builders, ReadsAreCurrent

LEMMA BuilderParts ==
    ASSUME NEW w \in Builders
    PROVE  /\ w.at = "build" /\ w.card \in Cards /\ w.step \in 0..6
           /\ w.todo \in SUBSET Models /\ w.built \in SUBSET Cards
  BY DEF Builders

(* One read of the builder: the file that Source names goes to the facts   *)
(* or to the fingerprints.                                                 *)
LEMMA ReadOnParts ==
    ASSUME NEW w \in Builders, w.step < 6, text \in [Files -> Contents]
    PROVE  /\ ReadOn(w) \in Builders
           /\ ReadOn(w).step = w.step + 1 /\ ReadOn(w).built = w.built
           /\ ReadOn(w).card.model = w.card.model /\ ReadOn(w).card.quiet = w.card.quiet
           /\ ReadOn(w).card.facts =
                IF w.step < 3
                THEN [w.card.facts EXCEPT ![w.step + 1] =
                        text[SourcesOf(w.card.model)[w.step + 1]]]
                ELSE w.card.facts
           /\ ReadOn(w).card.prints =
                IF w.step < 3
                THEN w.card.prints
                ELSE [w.card.prints EXCEPT ![w.step - 2] =
                        text[SourcesOf(w.card.model)[w.step - 2]]]
  <1> DEFINE m == w.card.model
             now == text[Source(w)]
             card == IF w.step < 3 THEN WithFact(w.card, w.step + 1, now)
                     ELSE WithPrint(w.card, w.step - 2, now)
  <1>1. w.card \in Cards /\ w.step \in 0..5 /\ m \in Models
    BY BuilderParts, CardParts
  <1>2. (w.step % 3) + 1 = IF w.step < 3 THEN w.step + 1 ELSE w.step - 2
    <2>1. w.step \in {0, 1, 2, 3, 4, 5}
      BY <1>1
    <2>2. QED
      BY <2>1
  <1>3. (w.step % 3) + 1 \in 1..3
    BY <1>1, <1>2
  <1>4. now \in Contents
    BY <1>1, <1>3, SourcesAreFiles DEF Source
  <1>5. now = text[SourcesOf(m)[IF w.step < 3 THEN w.step + 1 ELSE w.step - 2]]
    BY <1>2 DEF Source
  <1> HIDE DEF now
  <1>6. /\ card \in Cards /\ card.model = m /\ card.quiet = w.card.quiet
        /\ card.facts = IF w.step < 3 THEN [w.card.facts EXCEPT ![w.step + 1] = now]
                        ELSE w.card.facts
        /\ card.prints = IF w.step < 3 THEN w.card.prints
                         ELSE [w.card.prints EXCEPT ![w.step - 2] = now]
    <2>1. w.card.facts \in [1..3 -> Contents] /\ w.card.prints \in [1..3 -> Contents]
      BY <1>1, CardParts
    <2>2. \A k : [w.card.facts EXCEPT ![k] = now] \in [1..3 -> Contents]
      BY <1>4, <2>1
    <2>3. \A k : [w.card.prints EXCEPT ![k] = now] \in [1..3 -> Contents]
      BY <1>4, <2>1
    <2>4. CASE w.step < 3
      BY <1>1, <2>2, <2>4 DEF WithFact, Cards
    <2>5. CASE ~ (w.step < 3)
      BY <1>1, <2>3, <2>5 DEF WithPrint, Cards
    <2>6. QED
      BY <2>4, <2>5
  <1> HIDE DEF card
  <1>7. ReadOn(w) = [w EXCEPT !.step = w.step + 1, !.card = card]
    BY DEF ReadOn, card, now
  <1>8. /\ ReadOn(w) \in Builders /\ ReadOn(w).step = w.step + 1
        /\ ReadOn(w).card = card /\ ReadOn(w).built = w.built
    <2>1. card \in Cards /\ w.step + 1 \in 0..6
      BY <1>1, <1>6
    <2>2. QED
      BY <1>7, <2>1 DEF Builders
  <1>9. CASE w.step < 3
    <2>1. now = text[SourcesOf(m)[w.step + 1]]
      BY <1>5, <1>9
    <2>2. QED
      BY <1>6, <1>8, <1>9, <2>1
  <1>10. CASE ~ (w.step < 3)
    <2>1. now = text[SourcesOf(m)[w.step - 2]]
      BY <1>5, <1>10
    <2>2. QED
      BY <1>6, <1>8, <1>10, <2>1
  <1>11. QED
    BY <1>9, <1>10

(* A read keeps what is current current.                                   *)
LEMMA ReadsStayCurrent ==
    ASSUME NEW w \in Builders, w.step < 6, CodeTypeOK, ReadsAreCurrent(w)
    PROVE  ReadsAreCurrent(ReadOn(w))
  <1> DEFINE r == ReadOn(w)
             m == w.card.model
  <1>1. text \in [Files -> Contents]
    BY DEF CodeTypeOK
  <1>2. w.at = "build" /\ w.card \in Cards /\ w.step \in 0..5
    BY BuilderParts
  <1>3. w.card.facts \in [1..3 -> Contents] /\ w.card.prints \in [1..3 -> Contents]
    BY <1>2, CardParts
  <1>4. SUFFICES ASSUME w.card.quiet, NEW k \in 1..3
                 PROVE  /\ k <= r.step => r.card.facts[k] = text[SourcesOf(m)[k]]
                        /\ k + 3 <= r.step => r.card.prints[k] = text[SourcesOf(m)[k]]
    <2>1. r.card.model = m /\ r.card.quiet = w.card.quiet
      BY <1>1, ReadOnParts
    <2> HIDE DEF r
    <2>2. QED
      BY <1>4, <2>1 DEF ReadsAreCurrent, r, m
  <1>5. /\ k <= w.step => w.card.facts[k] = text[SourcesOf(m)[k]]
        /\ k + 3 <= w.step => w.card.prints[k] = text[SourcesOf(m)[k]]
    BY <1>2, <1>4 DEF ReadsAreCurrent
  <1>6. r.step = w.step + 1
    BY <1>1, ReadOnParts
  <1>7. CASE w.step < 3
    <2>1. r.card.facts = [w.card.facts EXCEPT ![w.step + 1] = text[SourcesOf(m)[w.step + 1]]]
      BY <1>1, <1>7, ReadOnParts
    <2> HIDE DEF r, m
    <2>2. QED
      BY <1>2, <1>3, <1>5, <1>6, <1>7, <2>1
  <1>8. CASE ~ (w.step < 3)
    <2>1. /\ r.card.facts = w.card.facts
          /\ r.card.prints = [w.card.prints EXCEPT ![w.step - 2] = text[SourcesOf(m)[w.step - 2]]]
      BY <1>1, <1>8, ReadOnParts
    <2> HIDE DEF r, m
    <2>2. QED
      BY <1>2, <1>3, <1>5, <1>6, <1>8, <2>1
  <1>9. QED
    BY <1>7, <1>8

(* Six undisturbed reads make a faithful card.                             *)
LEMMA BuiltIsFaithful ==
    ASSUME NEW w \in Builders, w.step = 6, ReadsAreCurrent(w)
    PROVE  w.card \in Cards /\ Faithful(w.card)
  <1>1. w.at = "build" /\ w.card \in Cards
    BY BuilderParts
  <1>2. w.card.facts \in [1..3 -> Contents] /\ w.card.prints \in [1..3 -> Contents]
    BY <1>1, CardParts
  <1>3. ASSUME w.card.quiet
        PROVE  \A k \in 1..3 : w.card.prints[k] = w.card.facts[k]
    BY <1>1, <1>3 DEF ReadsAreCurrent
  <1>4. w.card.quiet => w.card.prints = w.card.facts
    BY <1>2, <1>3
  <1>5. QED
    BY <1>1, <1>4 DEF Faithful

(* What does not build has read nothing that could be out of date.         *)
LEMMA NoReads ==
    ASSUME NEW w, w.at # "build"
    PROVE  ReadsAreCurrent(w)
  BY DEF ReadsAreCurrent

LEMMA CodeInitHolds == CodeInit => CodeInv
  <1> SUFFICES ASSUME CodeInit
               PROVE  CodeInv
    OBVIOUS
  <1>1. CodeTypeOK
    BY CodeAssumption DEF CodeInit, CodeTypeOK, NoCard
  <1>2. ReadsAreCurrent(ci) /\ ReadsAreCurrent(agent)
    BY NoReads DEF CodeInit
  <1>3. FaithfulCards /\ QuietCardsAreCurrent
    BY DEF CodeInit, FaithfulCards, QuietCardsAreCurrent, NoCard
  <1>4. QED
    BY <1>1, <1>2, <1>3 DEF CodeInv

(* The publisher moves, the files and the agent stay.                      *)
PublisherType == {Idle} \union Builders \union [at : {"write"}, built : SUBSET Cards]
                 \union [at : {"fill"}, built : SUBSET Cards, card : Cards]

LEMMA PublisherMoves ==
    ASSUME CodeInv, UNCHANGED <<text, agent, edits>>,
           prebuilt' \in [Models -> {NoCard, Empty} \union [kind : {"card"}, card : Cards]],
           ci' \in PublisherType, ReadsAreCurrent(ci'),
           ci'.at \in {"build", "write", "fill"} => \A card \in ci'.built : Faithful(card),
           ci'.at = "fill" => Faithful(ci'.card),
           \A m \in Models : prebuilt'[m].kind = "card" => Faithful(prebuilt'[m].card)
    PROVE  CodeInv'
  <1> USE DEF CodeInv
  <1>1. CodeTypeOK'
    BY DEF CodeTypeOK, PublisherType
  <1>2. ReadsAreCurrent(ci)' /\ ReadsAreCurrent(agent)'
    BY DEF ReadsAreCurrent
  <1>3. FaithfulCards'
    BY DEF FaithfulCards, Faithful
  <1>4. QuietCardsAreCurrent'
    BY DEF QuietCardsAreCurrent, Current
  <1>5. QED
    BY <1>1, <1>2, <1>3, <1>4

LEMMA PublisherParts ==
    ASSUME CodeTypeOK
    PROVE  /\ ci.at \in {"idle", "build", "write", "fill"}
           /\ ci.at = "idle" => ci = Idle
           /\ ci.at = "build" => ci \in Builders
           /\ ci.at = "write" => ci \in [at : {"write"}, built : SUBSET Cards]
           /\ ci.at = "fill" => ci \in [at : {"fill"}, built : SUBSET Cards, card : Cards]
           /\ prebuilt \in [Models -> {NoCard, Empty} \union [kind : {"card"}, card : Cards]]
  BY DEF CodeTypeOK, Builders

LEMMA StartPublishingStep ==
    ASSUME CodeInv, StartPublishing
    PROVE  CodeInv'
  <1>1. PICK todo \in SUBSET Models \ {{}}, m \in Models : ci' = Building(todo \ {m}, {}, Unbuilt(m))
    BY DEF StartPublishing
  <1>2. todo \ {m} \in SUBSET Models /\ {} \in SUBSET Cards
    OBVIOUS
  <1>3. ci' \in Builders /\ ci'.at = "build" /\ ci'.built = {} /\ ReadsAreCurrent(ci')
    BY <1>1, <1>2, NewBuilders
  <1>4. QED
    BY <1>3, PublisherMoves, PublisherParts
       DEF PublisherType, StartPublishing, CodeInv, FaithfulCards

(* The next model, or, when all are built, the files.                      *)
LEMMA NextCardStep ==
    ASSUME CodeInv, NEW todo \in SUBSET Models, NEW built \in SUBSET Cards,
           \A card \in built : Faithful(card),
           NextCard(todo, built), UNCHANGED <<text, prebuilt, agent, edits>>
    PROVE  CodeInv'
  <1>1. CASE todo = {}
    <2>1. ci' = [at |-> "write", built |-> built]
      BY <1>1 DEF NextCard
    <2>2. ci' \in [at : {"write"}, built : SUBSET Cards] /\ ci'.at = "write" /\ ci'.built = built
      BY <2>1
    <2>3. ReadsAreCurrent(ci')
      BY <2>2, NoReads
    <2>4. QED
      BY <2>2, <2>3, PublisherMoves, PublisherParts DEF PublisherType, CodeInv, FaithfulCards
  <1>2. CASE todo # {}
    <2>1. PICK m \in todo : ci' = Building(todo \ {m}, built, Unbuilt(m))
      BY <1>2 DEF NextCard
    <2>2. m \in Models /\ todo \ {m} \in SUBSET Models
      OBVIOUS
    <2>3. ci' \in Builders /\ ci'.at = "build" /\ ci'.built = built /\ ReadsAreCurrent(ci')
      BY <2>1, <2>2, NewBuilders
    <2>4. QED
      BY <2>3, PublisherMoves, PublisherParts DEF PublisherType, CodeInv, FaithfulCards
  <1>3. QED
    BY <1>1, <1>2

LEMMA PublisherReadsStep ==
    ASSUME CodeInv, PublisherReads
    PROVE  CodeInv'
  <1>1. ci \in Builders /\ ci.step < 6 /\ text \in [Files -> Contents]
    BY PublisherParts DEF PublisherReads, CodeInv, CodeTypeOK
  <1>2. ci' \in Builders /\ ci'.built = ci.built
    BY <1>1, ReadOnParts DEF PublisherReads
  <1>3. ReadsAreCurrent(ci')
    BY <1>1, ReadsStayCurrent DEF PublisherReads, CodeInv
  <1>4. ci'.at = "build" /\ ci.at = "build"
    BY <1>1, <1>2, BuilderParts
  <1>5. QED
    BY <1>2, <1>3, <1>4, PublisherMoves, PublisherParts
       DEF PublisherType, PublisherReads, CodeInv, FaithfulCards

LEMMA PublisherMissesStep ==
    ASSUME CodeInv, PublisherMisses
    PROVE  CodeInv'
  <1>1. ci \in Builders /\ ci.at = "build"
    BY PublisherParts DEF PublisherMisses, CodeInv
  <1>2. ci.todo \in SUBSET Models /\ ci.built \in SUBSET Cards
    BY <1>1, BuilderParts
  <1>3. CASE ci.step = 0
    BY <1>1, <1>2, <1>3, NextCardStep DEF PublisherMisses, CodeInv, FaithfulCards
  <1>4. CASE ci.step # 0
    BY <1>4, NoReads, PublisherMoves, PublisherParts
       DEF PublisherMisses, PublisherType, CodeInv, FaithfulCards
  <1>5. QED
    BY <1>3, <1>4

LEMMA PublisherBuiltStep ==
    ASSUME CodeInv, PublisherBuilt
    PROVE  CodeInv'
  <1>1. ci \in Builders /\ ci.at = "build" /\ ci.step = 6
    BY PublisherParts DEF PublisherBuilt, CodeInv
  <1>2. ci.todo \in SUBSET Models /\ ci.built \in SUBSET Cards
    BY <1>1, BuilderParts
  <1>3. ci.card \in Cards /\ Faithful(ci.card)
    BY <1>1, BuiltIsFaithful DEF CodeInv
  <1>4. ci.built \union {ci.card} \in SUBSET Cards
    BY <1>2, <1>3
  <1>5. \A card \in ci.built \union {ci.card} : Faithful(card)
    BY <1>1, <1>3 DEF CodeInv, FaithfulCards
  <1>6. QED
    BY <1>2, <1>4, <1>5, NextCardStep DEF PublisherBuilt

LEMMA TruncateStep ==
    ASSUME CodeInv, Truncate
    PROVE  CodeInv'
  <1>1. ci \in [at : {"write"}, built : SUBSET Cards] /\ ci.at = "write"
    BY PublisherParts DEF Truncate, CodeInv
  <1>2. PICK card \in ci.built :
          /\ prebuilt' = [prebuilt EXCEPT ![card.model] = Empty]
          /\ ci' = [at |-> "fill", built |-> ci.built \ {card}, card |-> card]
    BY DEF Truncate
  <1>3. card \in Cards /\ ci.built \ {card} \in SUBSET Cards
    BY <1>1
  <1>4. /\ ci' \in [at : {"fill"}, built : SUBSET Cards, card : Cards]
        /\ ci'.at = "fill" /\ ci'.card = card /\ ci'.built = ci.built \ {card}
    BY <1>2, <1>3
  <1>5. ReadsAreCurrent(ci')
    BY <1>4, NoReads
  <1>6. /\ prebuilt' \in [Models -> {NoCard, Empty} \union [kind : {"card"}, card : Cards]]
        /\ \A m \in Models : prebuilt'[m] = prebuilt[m] \/ prebuilt'[m] = Empty
    BY <1>2, PublisherParts DEF CodeInv
  <1>7. \A m \in Models : prebuilt'[m].kind = "card" => Faithful(prebuilt'[m].card)
    BY <1>6 DEF CodeInv, FaithfulCards, Empty
  <1>8. \A c \in ci.built : Faithful(c)
    BY <1>1 DEF CodeInv, FaithfulCards
  <1>9. QED
    BY <1>4, <1>5, <1>6, <1>7, <1>8, PublisherMoves DEF PublisherType, Truncate

LEMMA FillStep ==
    ASSUME CodeInv, Fill
    PROVE  CodeInv'
  <1>1. ci \in [at : {"fill"}, built : SUBSET Cards, card : Cards] /\ ci.at = "fill"
    BY PublisherParts DEF Fill, CodeInv
  <1>2. /\ ci' = [at |-> "write", built |-> ci.built]
        /\ prebuilt' = [prebuilt EXCEPT ![ci.card.model] = Published(ci.card)]
    BY DEF Fill
  <1>3. /\ ci' \in [at : {"write"}, built : SUBSET Cards]
        /\ ci'.at = "write" /\ ci'.built = ci.built
    BY <1>1, <1>2
  <1>4. ReadsAreCurrent(ci')
    BY <1>3, NoReads
  <1>5. Faithful(ci.card) /\ \A c \in ci.built : Faithful(c)
    BY <1>1 DEF CodeInv, FaithfulCards
  <1>6. Published(ci.card) \in [kind : {"card"}, card : Cards] /\ Published(ci.card).card = ci.card
    BY <1>1 DEF Published
  <1>7. /\ prebuilt' \in [Models -> {NoCard, Empty} \union [kind : {"card"}, card : Cards]]
        /\ \A m \in Models : prebuilt'[m] = prebuilt[m] \/ prebuilt'[m] = Published(ci.card)
    BY <1>2, <1>6, PublisherParts DEF CodeInv
  <1>8. \A m \in Models : prebuilt'[m].kind = "card" => Faithful(prebuilt'[m].card)
    BY <1>5, <1>6, <1>7 DEF CodeInv, FaithfulCards
  <1>9. QED
    BY <1>3, <1>4, <1>5, <1>7, <1>8, PublisherMoves DEF PublisherType, Fill

LEMMA PublisherEndsStep ==
    ASSUME CodeInv, PublisherEnds
    PROVE  CodeInv'
  BY NoReads, PublisherMoves, PublisherParts
     DEF PublisherEnds, PublisherType, CodeInv, FaithfulCards

(* The agent moves, the files and the publisher stay.                      *)
AgentType == {Idle} \union Builders \union ComparingType \union ResolvedType

LEMMA ResolverParts ==
    ASSUME CodeTypeOK
    PROVE  /\ agent.at \in {"idle", "build", "compare", "resolved"}
           /\ agent.at = "build" => agent \in Builders
           /\ agent.at = "compare" => agent \in ComparingType
           /\ agent.at = "resolved" => agent \in ResolvedType
  BY DEF CodeTypeOK, Builders, ComparingType, ResolvedType

LEMMA AgentMoves ==
    ASSUME CodeInv, UNCHANGED <<text, prebuilt, ci, edits>>,
           agent' \in AgentType, ReadsAreCurrent(agent'),
           agent'.at = "compare" => Faithful(agent'.card),
           agent'.at = "resolved" /\ agent'.card.quiet => Current(agent')
    PROVE  CodeInv'
  <1> USE DEF CodeInv
  <1>1. CodeTypeOK'
    BY DEF CodeTypeOK, AgentType, ComparingType, ResolvedType
  <1>2. ReadsAreCurrent(ci)' /\ ReadsAreCurrent(agent)'
    BY DEF ReadsAreCurrent
  <1>3. FaithfulCards'
    BY DEF FaithfulCards, Faithful
  <1>4. QuietCardsAreCurrent'
    BY DEF QuietCardsAreCurrent, Current
  <1>5. QED
    BY <1>1, <1>2, <1>3, <1>4

LEMMA AgentRests ==
    ASSUME CodeInv, UNCHANGED <<text, prebuilt, ci, edits>>, agent' = Idle
    PROVE  CodeInv'
  BY NoReads, AgentMoves DEF AgentType

LEMMA StartResolvingStep ==
    ASSUME CodeInv, StartResolving
    PROVE  CodeInv'
  <1>1. PICK m \in Models :
           \/ prebuilt[m].kind = "card" /\ agent' = Comparing(prebuilt[m].card)
           \/ agent' = Building({}, {}, Unbuilt(m))
    BY DEF StartResolving
  <1>2. CASE prebuilt[m].kind = "card" /\ agent' = Comparing(prebuilt[m].card)
    <2>1. prebuilt[m].card \in Cards /\ Faithful(prebuilt[m].card)
      BY <1>2, PublisherParts DEF CodeInv, FaithfulCards, NoCard, Empty
    <2>2. /\ agent' \in ComparingType /\ agent'.at = "compare"
          /\ agent'.card = prebuilt[m].card
      BY <1>2, <2>1 DEF Comparing, ComparingType, Contents
    <2>3. QED
      BY <2>1, <2>2, NoReads, AgentMoves DEF AgentType, StartResolving
  <1>3. CASE agent' = Building({}, {}, Unbuilt(m))
    <2>1. {} \in SUBSET Models /\ {} \in SUBSET Cards
      OBVIOUS
    <2>2. agent' \in Builders /\ agent'.at = "build" /\ ReadsAreCurrent(agent')
      BY <1>3, <2>1, NewBuilders
    <2>3. QED
      BY <2>2, AgentMoves DEF AgentType, StartResolving
  <1>4. QED
    BY <1>1, <1>2, <1>3

LEMMA CompareOneStep ==
    ASSUME CodeInv, CompareOne
    PROVE  CodeInv'
  <1> DEFINE k == agent.step + 1
             t == text[SourcesOf(agent.card.model)[k]]
             seen == [agent.seen EXCEPT ![k] = t]
  <1>1. agent \in ComparingType /\ agent.at = "compare" /\ agent.step < 3
    BY ResolverParts DEF CompareOne, CodeInv
  <1>2. k \in 1..3 /\ agent.card \in Cards /\ agent.card.model \in Models
    BY <1>1, CardParts DEF ComparingType
  <1>3. t \in Contents
    BY <1>2, SourcesAreFiles DEF CodeInv, CodeTypeOK
  <1>4. agent' = [agent EXCEPT !.seen = seen, !.step = k]
    BY <1>1 DEF CompareOne, ComparingType
  <1>5. seen \in [1..3 -> Contents]
    BY <1>1, <1>2, <1>3 DEF ComparingType
  <1> HIDE DEF seen, k
  <1>6. agent' \in ComparingType /\ agent'.at = "compare" /\ agent'.card = agent.card
    <2>1. agent' = [at |-> "compare", card |-> agent.card, seen |-> seen, step |-> k]
      BY <1>1, <1>4 DEF ComparingType
    <2>2. agent.card \in Cards /\ k \in 0..3
      BY <1>2
    <2>3. QED
      BY <1>5, <2>1, <2>2 DEF ComparingType
  <1>7. QED
    BY <1>1, <1>6, NoReads, AgentMoves DEF AgentType, CompareOne, CodeInv, FaithfulCards

LEMMA ComparedStep ==
    ASSUME CodeInv, Compared
    PROVE  CodeInv'
  <1>1. agent \in ComparingType /\ agent.at = "compare"
    BY ResolverParts DEF Compared, CodeInv
  <1>2. CASE Stale(agent.card, agent.seen) \/ TooLarge(agent.card)
    BY <1>2, AgentRests DEF Compared
  <1>3. CASE ~ (Stale(agent.card, agent.seen) \/ TooLarge(agent.card))
    <2>1. agent' = Resolved("prebuilt", agent.card, agent.seen)
      BY <1>3 DEF Compared
    <2>2. /\ agent' \in ResolvedType /\ agent'.at = "resolved"
          /\ agent'.card = agent.card /\ agent'.seen = agent.seen
      BY <1>1, <2>1 DEF ComparingType, Resolved, ResolvedType
    <2>3. \A k \in 1..3 : agent.card.prints[k] = Missing \/ agent.card.prints[k] = agent.seen[k]
      BY <1>3 DEF Stale
    <2>4. agent.card.quiet => agent.card.prints = agent.card.facts
      BY <1>1 DEF CodeInv, FaithfulCards, Faithful
    <2>5. agent'.card.quiet => Current(agent')
      BY <2>2, <2>3, <2>4 DEF Current
    <2>6. QED
      BY <2>2, <2>5, NoReads, AgentMoves DEF AgentType, Compared
  <1>4. QED
    BY <1>2, <1>3

LEMMA AgentReadsStep ==
    ASSUME CodeInv, AgentReads
    PROVE  CodeInv'
  <1>1. agent \in Builders /\ agent.step < 6 /\ text \in [Files -> Contents]
    BY ResolverParts DEF AgentReads, CodeInv, CodeTypeOK
  <1>2. CASE SqlIsGone(agent)
    BY <1>2, AgentRests DEF AgentReads
  <1>3. CASE ~ SqlIsGone(agent)
    <2>1. agent' = ReadOn(agent)
      BY <1>3 DEF AgentReads
    <2>2. agent' \in Builders /\ ReadsAreCurrent(agent')
      BY <1>1, <2>1, ReadOnParts, ReadsStayCurrent DEF CodeInv
    <2>3. QED
      BY <2>2, BuilderParts, AgentMoves DEF AgentType, AgentReads
  <1>4. QED
    BY <1>2, <1>3

LEMMA AgentBuiltStep ==
    ASSUME CodeInv, AgentBuilt
    PROVE  CodeInv'
  <1>1. agent \in Builders /\ agent.step = 6
    BY ResolverParts DEF AgentBuilt, CodeInv
  <1>2. CASE TooLarge(agent.card)
    BY <1>2, AgentRests DEF AgentBuilt
  <1>3. CASE ~ TooLarge(agent.card)
    <2>1. agent' = Resolved("local", agent.card, agent.card.prints)
      BY <1>3 DEF AgentBuilt
    <2>2. agent.card \in Cards /\ Faithful(agent.card)
      BY <1>1, BuiltIsFaithful DEF CodeInv
    <2>3. agent.card.prints \in [1..3 -> Contents]
      BY <2>2, CardParts
    <2>4. /\ agent' \in ResolvedType /\ agent'.at = "resolved"
          /\ agent'.card = agent.card /\ agent'.seen = agent.card.prints
      BY <2>1, <2>2, <2>3 DEF Resolved, ResolvedType
    <2>5. agent'.card.quiet => Current(agent')
      BY <2>2, <2>4 DEF Current, Faithful
    <2>6. QED
      BY <2>4, <2>5, NoReads, AgentMoves DEF AgentType, AgentBuilt
  <1>4. QED
    BY <1>2, <1>3

(* An edit only marks who has read a file of the same card.                *)
LEMMA DisturbedParts ==
    ASSUME NEW w, NEW f
    PROVE  /\ w \in Builders => Disturbed(w, f) \in Builders /\ Disturbed(w, f).built = w.built
                                /\ Disturbed(w, f).step = w.step
           /\ w.at # "build" => Disturbed(w, f) = w
           /\ Disturbed(w, f) = w \/ (w \in Builders => ~ Disturbed(w, f).card.quiet)
  <1>1. CASE w \in Builders
    <2>1. w.card \in Cards
      BY <1>1, BuilderParts
    <2> DEFINE card == [w.card EXCEPT !.quiet = FALSE]
    <2>2. card \in Cards /\ ~ card.quiet
      BY <2>1 DEF Cards
    <2>3. Disturbed(w, f) = w \/ Disturbed(w, f) = [w EXCEPT !.card = card]
      BY DEF Disturbed
    <2> HIDE DEF card
    <2>4. QED
      BY <1>1, <2>2, <2>3, BuilderParts DEF Builders
  <1>2. CASE w \notin Builders
    BY <1>2 DEF Disturbed
  <1>3. QED
    BY <1>1, <1>2

LEMMA EditKeepsReads ==
    ASSUME NEW f \in Files, NEW t \in Contents, text \in [Files -> Contents],
           text' = [text EXCEPT ![f] = t], NEW w \in Builders, ReadsAreCurrent(w),
           Disturbed(w, f).card.quiet, NEW k \in 1..3, k <= w.step
    PROVE  /\ Disturbed(w, f) = w
           /\ text'[SourcesOf(w.card.model)[k]] = text[SourcesOf(w.card.model)[k]]
  <1>1. Disturbed(w, f) = w
    BY DisturbedParts
  <1>2. w.at = "build" /\ w.card \in Cards /\ w.step \in 0..6 /\ w.card.model \in Models
    BY BuilderParts, CardParts
  <1>3. SourcesOf(w.card.model)[k] # f
    <2>1. SUFFICES ASSUME SourcesOf(w.card.model)[k] = f
                   PROVE  FALSE
      OBVIOUS
    <2>2. w.step > 0
      BY <1>2
    <2>3. Disturbed(w, f) = [w EXCEPT !.card.quiet = FALSE]
      BY <1>2, <2>1, <2>2 DEF Disturbed
    <2>4. ~ Disturbed(w, f).card.quiet
      BY <1>2, <2>3 DEF Builders, Cards
    <2>5. QED
      BY <2>4
  <1>4. QED
    BY <1>1, <1>2, <1>3, SourcesAreFiles

LEMMA EditStep ==
    ASSUME CodeInv, Edit
    PROVE  CodeInv'
  <1>1. PICK f \in Files, t \in Contents :
           /\ text' = [text EXCEPT ![f] = t]
           /\ ci' = Disturbed(ci, f) /\ agent' = Disturbed(agent, f)
    BY DEF Edit
  <1>2. /\ ci.at = "build" => ci \in Builders /\ ci' \in Builders /\ ci'.built = ci.built
        /\ ci.at # "build" => ci' = ci
    BY <1>1, PublisherParts, DisturbedParts DEF CodeInv
  <1>3. /\ agent.at = "build" => agent \in Builders /\ agent' \in Builders
        /\ agent.at # "build" => agent' = agent
    BY <1>1, ResolverParts, DisturbedParts DEF CodeInv
  <1>4. CodeTypeOK'
    BY <1>1, <1>2, <1>3, CodeAssumption DEF CodeInv, CodeTypeOK, Edit
  <1>5. ReadsAreCurrent(ci)'
    <2>1. CASE ci.at = "build"
      <3>1. ci \in Builders /\ ReadsAreCurrent(ci) /\ text \in [Files -> Contents]
        BY <1>2, <2>1 DEF CodeInv, CodeTypeOK
      <3>2. ci'.step = ci.step /\ ci.step \in 0..6
        BY <1>1, <3>1, DisturbedParts, BuilderParts
      <3>3. ASSUME ci'.card.quiet, NEW k \in 1..3, k <= ci.step
            PROVE  /\ ci'.card = ci.card
                   /\ text'[SourcesOf(ci.card.model)[k]] = text[SourcesOf(ci.card.model)[k]]
        BY <1>1, <3>1, <3>3, EditKeepsReads
      <3>4. QED
        BY <2>1, <3>1, <3>2, <3>3 DEF ReadsAreCurrent
    <2>2. CASE ci.at # "build"
      BY <1>2, <2>2 DEF ReadsAreCurrent
    <2>3. QED
      BY <2>1, <2>2
  <1>6. ReadsAreCurrent(agent)'
    <2>1. CASE agent.at = "build"
      <3>1. agent \in Builders /\ ReadsAreCurrent(agent) /\ text \in [Files -> Contents]
        BY <1>3, <2>1 DEF CodeInv, CodeTypeOK
      <3>2. agent'.step = agent.step /\ agent.step \in 0..6
        BY <1>1, <3>1, DisturbedParts, BuilderParts
      <3>3. ASSUME agent'.card.quiet, NEW k \in 1..3, k <= agent.step
            PROVE  /\ agent'.card = agent.card
                   /\ text'[SourcesOf(agent.card.model)[k]] = text[SourcesOf(agent.card.model)[k]]
        BY <1>1, <3>1, <3>3, EditKeepsReads
      <3>4. QED
        BY <2>1, <3>1, <3>2, <3>3 DEF ReadsAreCurrent
    <2>2. CASE agent.at # "build"
      BY <1>3, <2>2 DEF ReadsAreCurrent
    <2>3. QED
      BY <2>1, <2>2
  <1>7. FaithfulCards'
    BY <1>2, <1>3, BuilderParts DEF CodeInv, FaithfulCards, Faithful, Edit
  <1>8. QuietCardsAreCurrent'
    BY <1>3, BuilderParts DEF CodeInv, QuietCardsAreCurrent, Current
  <1>9. QED
    BY <1>4, <1>5, <1>6, <1>7, <1>8 DEF CodeInv

(* The inductive invariant: an undisturbed build has read what the files   *)
(* still hold, so the fingerprints of a quiet card are those of its facts, *)
(* wherever the card has got to.                                           *)
THEOREM CodeInvariant == CodeSpec => []CodeInv
  <1>1. CodeInit => CodeInv
    BY CodeInitHolds
  <1>2. CodeInv /\ [CodeNext]_codeVars => CodeInv'
    <2> SUFFICES ASSUME CodeInv, [CodeNext]_codeVars
                 PROVE  CodeInv'
      OBVIOUS
    <2>1. CASE CodeNext
      BY <2>1, StartPublishingStep, PublisherReadsStep, PublisherMissesStep, PublisherBuiltStep,
         TruncateStep, FillStep, PublisherEndsStep, StartResolvingStep, CompareOneStep,
         ComparedStep, AgentReadsStep, AgentBuiltStep, EditStep DEF CodeNext
    <2>2. CASE UNCHANGED codeVars
      BY <2>2 DEF codeVars, CodeInv, CodeTypeOK, ReadsAreCurrent, FaithfulCards, Faithful,
                  QuietCardsAreCurrent, Current
    <2>3. QED
      BY <2>1, <2>2
  <1>3. QED
    BY <1>1, <1>2, PTL DEF CodeSpec

(* No edit, republication or truncation makes the agent use a card that    *)
(* was built undisturbed after its files have changed.                     *)
THEOREM QuietCardsStayCurrent == CodeSpec => []QuietCardsAreCurrent
  <1>1. CodeInv => QuietCardsAreCurrent
    BY DEF CodeInv
  <1>2. QED
    BY <1>1, CodeInvariant, PTL

-----------------------------------------------------------------------------
(* The bundle of a request.                                                *)

Entries == [kind : {"card", "raw"}, model : CodeModels, loaded : BOOLEAN]

(* Every entry is a step, a blocked bundle has none, and what the loader   *)
(* let through is within the budget of the loader.                         *)
StepsAreCounted ==
    /\ bundle.count = Len(bundle.added) /\ bundle.count <= MaxSteps
    /\ bundle.status = "none" <=> granted = "none"
    /\ granted # "READY" => bundle.added = <<>>
    /\ granted = "READY" => bundle.tokens <= ExpandedLimit

BundleInv == BundleTypeOK /\ StepsAreCounted /\ CodeIsEarned /\ RefusedStaysRefused

LEMMA BundleParts ==
    ASSUME BundleTypeOK
    PROVE  /\ bundle.status \in {"none", "READY", "PARTIAL", "BLOCKED"}
           /\ bundle.added \in Seq(Entries)
           /\ bundle.tokens \in Nat /\ bundle.count \in Nat
           /\ Len(bundle.added) \in Nat /\ DOMAIN bundle.added = 1..Len(bundle.added)
           /\ plan \in [ContextSources -> {"required", "optional", "absent"}]
  BY BundleAssumption DEF BundleTypeOK, Entries

LEMMA BundleInitHolds == BundleInit => BundleInv
  <1> SUFFICES ASSUME BundleInit
               PROVE  BundleInv
    OBVIOUS
  <1>1. <<>> \in Seq(Entries) /\ Len(<<>>) = 0 /\ DOMAIN <<>> = {}
    OBVIOUS
  <1>2. BundleTypeOK
    BY <1>1 DEF BundleInit, BundleTypeOK, NoBundle, Entries
  <1>3. StepsAreCounted /\ CodeIsEarned /\ RefusedStaysRefused
    BY <1>1, BundleAssumption
       DEF BundleInit, NoBundle, StepsAreCounted, CodeIsEarned, RefusedStaysRefused
  <1>4. QED
    BY <1>2, <1>3 DEF BundleInv

LEMMA LoadStep ==
    ASSUME BundleInv, Load \/ LoadMismatched
    PROVE  BundleInv'
  <1>1. <<>> \in Seq(Entries) /\ Len(<<>>) = 0 /\ DOMAIN <<>> = {}
    OBVIOUS
  <1>2. CASE Load
    <2>1. PICK outcome \in [Required -> {"loaded", "executor_owned", "blocked"}],
               total \in InitialTotals :
             bundle' = [NoBundle EXCEPT !.status = Verdict(ItemsOf(outcome), total),
                                        !.items = ItemsOf(outcome), !.tokens = total]
      BY <1>2 DEF Load
    <2>2. total \in Nat
      BY BundleAssumption
    <2>3. ItemsOf(outcome) \in [ContextSources -> {"absent", "not_loaded", "loaded",
                                                   "executor_owned", "blocked"}]
      BY DEF ItemsOf, Required
    <2>4. /\ Verdict(ItemsOf(outcome), total) \in {"READY", "BLOCKED"}
          /\ Verdict(ItemsOf(outcome), total) = "READY" => total <= InitialLimit
      BY <2>2, BundleAssumption DEF Verdict
    <2>5. /\ bundle'.status = Verdict(ItemsOf(outcome), total)
          /\ bundle'.items = ItemsOf(outcome) /\ bundle'.tokens = total
          /\ bundle'.added = <<>> /\ bundle'.count = 0
          /\ bundle' = [status |-> bundle'.status, items |-> bundle'.items, added |-> <<>>,
                        tokens |-> total, count |-> 0]
      BY <2>1 DEF NoBundle
    <2>6. granted' = bundle'.status /\ plan' = plan /\ target' = target
      BY <1>2 DEF Load
    <2>7. BundleTypeOK'
      <3>1. <<>> \in Seq([kind : {"card", "raw"}, model : CodeModels, loaded : BOOLEAN])
        BY <1>1 DEF Entries
      <3>2. bundle' \in [status : {"none", "READY", "PARTIAL", "BLOCKED"},
                         items : [ContextSources -> {"absent", "not_loaded", "loaded",
                                                     "executor_owned", "blocked"}],
                         added : Seq([kind : {"card", "raw"}, model : CodeModels,
                                      loaded : BOOLEAN]),
                         tokens : Nat, count : Nat]
        <4> DEFINE status == Verdict(ItemsOf(outcome), total)
                   items == ItemsOf(outcome)
        <4>1. bundle' = [status |-> status, items |-> items, added |-> <<>>,
                         tokens |-> total, count |-> 0]
          BY <2>1 DEF NoBundle
        <4>2. /\ status \in {"none", "READY", "PARTIAL", "BLOCKED"}
              /\ items \in [ContextSources -> {"absent", "not_loaded", "loaded",
                                               "executor_owned", "blocked"}]
          BY <2>3, <2>4
        <4> HIDE DEF status, items
        <4>3. QED
          BY <2>2, <3>1, <4>1, <4>2
      <3>3. QED
        BY <2>4, <2>5, <2>6, <3>2 DEF BundleInv, BundleTypeOK
    <2>8. StepsAreCounted' /\ CodeIsEarned' /\ RefusedStaysRefused'
      BY <1>1, <2>2, <2>4, <2>5, <2>6, BundleAssumption
         DEF StepsAreCounted, CodeIsEarned, RefusedStaysRefused
    <2>9. QED
      BY <2>7, <2>8 DEF BundleInv
  <1>3. CASE LoadMismatched
    <2>1. bundle' = [NoBundle EXCEPT !.status = "BLOCKED"] /\ granted' = "BLOCKED"
          /\ plan' = plan /\ target' = target
      BY <1>3 DEF LoadMismatched
    <2>2. BundleTypeOK'
      BY <1>1, <2>1 DEF BundleInv, BundleTypeOK, NoBundle, Entries
    <2>3. StepsAreCounted' /\ CodeIsEarned' /\ RefusedStaysRefused'
      BY <1>1, <2>1, BundleAssumption
         DEF NoBundle, StepsAreCounted, CodeIsEarned, RefusedStaysRefused
    <2>4. QED
      BY <2>2, <2>3 DEF BundleInv
  <1>4. QED
    BY <1>2, <1>3

(* A warning changes at most READY to PARTIAL.                             *)
LEMMA WarnedParts ==
    ASSUME BundleTypeOK
    PROVE  /\ Warned.status = Demoted /\ Warned.items = bundle.items
           /\ Warned.added = bundle.added /\ Warned.tokens = bundle.tokens
           /\ Warned.count = bundle.count
           /\ Warned = [status |-> Demoted, items |-> bundle.items, added |-> bundle.added,
                        tokens |-> bundle.tokens, count |-> bundle.count]
  BY DEF Warned, BundleTypeOK

LEMMA WarnedStep ==
    ASSUME BundleInv, bundle.status # "none", bundle' = Warned, UNCHANGED <<plan, target, granted>>
    PROVE  BundleInv'
  <1>1. /\ bundle'.added = bundle.added /\ bundle'.tokens = bundle.tokens
        /\ bundle'.count = bundle.count /\ bundle'.status = Demoted
    BY WarnedParts DEF BundleInv
  <1>2. BundleTypeOK'
    BY WarnedParts DEF BundleInv, BundleTypeOK, Demoted
  <1>3. StepsAreCounted' /\ RefusedStaysRefused'
    BY <1>1, BundleParts DEF BundleInv, StepsAreCounted, RefusedStaysRefused, Demoted
  <1>4. CodeIsEarned'
    BY <1>1 DEF BundleInv, CodeIsEarned
  <1>5. QED
    BY <1>2, <1>3, <1>4 DEF BundleInv

(* An entry, loaded or not, is appended to a bundle that the loader let    *)
(* through, as a counted step within the budget.                           *)
LEMMA EntryStep ==
    ASSUME BundleInv, NEW entry \in Entries, granted = "READY", bundle.status # "BLOCKED",
           bundle.count < MaxSteps, plan["code"] = "optional",
           entry.kind = "raw" => AddedCard(entry.model),
           entry.kind = "card" => ~ AddedCard(entry.model),
           UNCHANGED <<plan, target, granted>>, BundleTypeOK',
           bundle'.added = Append(bundle.added, entry), bundle'.count = bundle.count + 1,
           bundle'.tokens <= ExpandedLimit, bundle'.status \in {"READY", "PARTIAL"}
    PROVE  BundleInv'
  <1> DEFINE n == Len(bundle.added)
  <1>1. n \in Nat /\ DOMAIN bundle.added = 1..n /\ bundle.added \in Seq(Entries)
    BY BundleParts DEF BundleInv
  <1>2. /\ Len(bundle'.added) = n + 1 /\ DOMAIN bundle'.added = 1..(n + 1)
        /\ bundle'.added[n + 1] = entry /\ bundle'.added # <<>>
        /\ \A i \in 1..n : bundle'.added[i] = bundle.added[i]
    BY <1>1
  <1>3. StepsAreCounted' /\ RefusedStaysRefused'
    BY <1>1, <1>2, BundleParts, BundleAssumption
       DEF BundleInv, StepsAreCounted, RefusedStaysRefused
  <1> HIDE DEF n
  <1>4. ASSUME NEW i \in 1..(n + 1), bundle'.added[i].kind = "raw"
        PROVE  \E j \in 1..(i - 1) : bundle'.added[j] =
                  [kind |-> "card", model |-> bundle'.added[i].model, loaded |-> TRUE]
    <2>1. CASE i \in 1..n
      <3>1. PICK j \in 1..(i - 1) : bundle.added[j] =
               [kind |-> "card", model |-> bundle.added[i].model, loaded |-> TRUE]
        BY <1>1, <1>2, <1>4, <2>1 DEF BundleInv, CodeIsEarned
      <3>2. j \in 1..n
        BY <1>1, <2>1
      <3>3. QED
        BY <1>2, <2>1, <3>1, <3>2
    <2>2. CASE i = n + 1
      <3>1. PICK j \in 1..n : bundle.added[j] =
               [kind |-> "card", model |-> entry.model, loaded |-> TRUE]
        BY <1>1, <1>2, <1>4, <2>2 DEF AddedCard
      <3>2. j \in 1..(i - 1)
        BY <1>1, <2>2
      <3>3. QED
        BY <1>2, <2>2, <3>1, <3>2
    <2>3. i \in 1..n \/ i = n + 1
      BY <1>1
    <2>4. QED
      BY <2>1, <2>2, <2>3
  <1>5. ASSUME NEW i \in 1..(n + 1), NEW j \in 1..(n + 1), bundle'.added[i].kind = "card",
               bundle'.added[i].loaded, bundle'.added[j] = bundle'.added[i]
        PROVE  j = i
    <2>1. ASSUME NEW k \in 1..n, bundle.added[k] = entry, entry.kind = "card", entry.loaded
          PROVE  FALSE
      <3>1. entry = [kind |-> "card", model |-> entry.model, loaded |-> TRUE]
        BY <2>1 DEF Entries
      <3>2. AddedCard(entry.model)
        BY <1>1, <2>1, <3>1 DEF AddedCard
      <3>3. QED
        BY <2>1, <3>2
    <2>2. CASE i \in 1..n /\ j \in 1..n
      <3>1. /\ bundle.added[i].kind = "card" /\ bundle.added[i].loaded
            /\ bundle.added[j] = bundle.added[i]
        BY <1>2, <1>5, <2>2
      <3>2. QED
        BY <1>1, <2>2, <3>1 DEF BundleInv, CodeIsEarned
    <2>3. CASE i = n + 1 /\ j \in 1..n
      BY <1>2, <1>5, <2>1, <2>3
    <2>4. CASE i \in 1..n /\ j = n + 1
      BY <1>2, <1>5, <2>1, <2>4
    <2>5. CASE i = n + 1 /\ j = n + 1
      BY <2>5
    <2>6. (i \in 1..n \/ i = n + 1) /\ (j \in 1..n \/ j = n + 1)
      BY <1>1
    <2>7. QED
      BY <2>2, <2>3, <2>4, <2>5, <2>6
  <1>6. CodeIsEarned'
    BY <1>2, <1>4, <1>5 DEF CodeIsEarned
  <1>7. QED
    BY <1>3, <1>6 DEF BundleInv

(* What a card or an excerpt may do to a bundle that may be expanded.      *)
LEMMA AddOrFailStep ==
    ASSUME BundleInv, NEW kind \in {"card", "raw"}, NEW m \in CodeModels, AddOrFail(kind, m),
           granted = "READY", bundle.count < MaxSteps, plan["code"] = "optional",
           kind = "raw" => AddedCard(m), kind = "card" => ~ AddedCard(m),
           UNCHANGED <<plan, target, granted>>
    PROVE  BundleInv'
  <1>1. bundle.status \in {"READY", "PARTIAL"} /\ bundle.tokens <= ExpandedLimit
    BY BundleParts DEF BundleInv, StepsAreCounted, RefusedStaysRefused
  <1> DEFINE entry(loaded) == [kind |-> kind, model |-> m, loaded |-> loaded]
  <1>2. \A l \in BOOLEAN : /\ entry(l) \in Entries /\ entry(l).kind = kind
                           /\ entry(l).model = m
                           /\ Append(bundle.added, entry(l)) \in Seq(Entries)
    BY BundleParts DEF BundleInv, Entries
  <1>3. CASE bundle' = AppendFailure(kind, m)
    <2> DEFINE e == entry(FALSE)
    <2>1. bundle' = [status |-> Demoted, items |-> bundle.items,
                     added |-> Append(bundle.added, e), tokens |-> bundle.tokens,
                     count |-> bundle.count + 1]
      BY <1>3, WarnedParts DEF AppendFailure, BundleInv
    <2>2. e \in Entries /\ e.kind = kind /\ e.model = m /\ Append(bundle.added, e) \in Seq(Entries)
      BY <1>2
    <2> HIDE DEF e
    <2>3. BundleTypeOK'
      BY <1>1, <2>1, <2>2, BundleParts DEF BundleInv, BundleTypeOK, Demoted, Entries
    <2>4. QED
      BY <1>1, <2>1, <2>2, <2>3, EntryStep DEF Demoted
  <1>4. ASSUME NEW size \in ExcerptSizes, bundle' = AppendLoaded(kind, m, size)
        PROVE  BundleInv'
    <2>1. size \in Nat
      BY BundleAssumption
    <2>2. CASE bundle.tokens + size > ExpandedLimit
      BY <1>1, <1>4, <2>2, WarnedStep DEF AppendLoaded
    <2>3. CASE ~ (bundle.tokens + size > ExpandedLimit)
      <3> DEFINE e == entry(TRUE)
                 items == [bundle.items EXCEPT !["code"] =
                             IF bundle.items["code"] = "not_loaded" THEN "absent"
                             ELSE bundle.items["code"]]
      <3>1. bundle' = [status |-> "READY", items |-> items,
                       added |-> Append(bundle.added, e), tokens |-> bundle.tokens + size,
                       count |-> bundle.count + 1]
        BY <1>4, <2>3 DEF AppendLoaded, BundleInv, BundleTypeOK
      <3>2. e \in Entries /\ e.kind = kind /\ e.model = m
            /\ Append(bundle.added, e) \in Seq(Entries)
        BY <1>2
      <3>3. items \in [ContextSources -> {"absent", "not_loaded", "loaded",
                                          "executor_owned", "blocked"}]
        BY DEF BundleInv, BundleTypeOK, ContextSources
      <3>4. bundle.tokens + size \in Nat /\ bundle.tokens + size <= ExpandedLimit
        BY <2>1, <2>3, BundleParts, BundleAssumption DEF BundleInv
      <3> HIDE DEF e, items
      <3>5. BundleTypeOK'
        BY <3>1, <3>2, <3>3, <3>4, BundleParts DEF BundleInv, BundleTypeOK, Entries
      <3>6. QED
        BY <1>1, <3>1, <3>2, <3>4, <3>5, EntryStep
    <2>4. QED
      BY <2>2, <2>3
  <1>5. QED
    BY <1>3, <1>4 DEF AddOrFail

LEMMA ModelForIsModel ==
    ASSUME BundleTypeOK, NEW explicit \in CodeModels \union {NoModel}, ModelFor(explicit) # NoModel
    PROVE  ModelFor(explicit) \in CodeModels
  <1>1. CASE explicit # NoModel
    BY <1>1 DEF ModelFor
  <1>2. CASE explicit = NoModel /\ target.dataset # NoModel
    BY <1>2 DEF ModelFor, BundleTypeOK
  <1>3. CASE explicit = NoModel /\ target.dataset = NoModel
    BY <1>3 DEF ModelFor
  <1>4. QED
    BY <1>1, <1>2, <1>3

LEMMA ExpandCodeStep ==
    ASSUME BundleInv, ExpandCode
    PROVE  BundleInv'
  <1>1. PICK reason \in Reasons, explicit \in CodeModels \union {NoModel} :
          \/ bundle' = Warned
          \/ /\ CardAllowed(reason) /\ ModelFor(explicit) # NoModel
             /\ ~ AddedCard(ModelFor(explicit)) /\ AddOrFail("card", ModelFor(explicit))
    BY DEF ExpandCode
  <1>2. CASE bundle' = Warned
    BY <1>2, WarnedStep DEF ExpandCode
  <1>3. CASE /\ CardAllowed(reason) /\ ModelFor(explicit) # NoModel
             /\ ~ AddedCard(ModelFor(explicit)) /\ AddOrFail("card", ModelFor(explicit))
    <2>1. ModelFor(explicit) \in CodeModels
      BY <1>3, ModelForIsModel DEF BundleInv
    <2>2. granted = "READY"
      BY <1>3 DEF BundleInv, BundleTypeOK, StepsAreCounted, RefusedStaysRefused, CardAllowed
    <2>3. QED
      BY <1>3, <2>1, <2>2, AddOrFailStep DEF ExpandCode, CardAllowed
  <1>4. QED
    BY <1>1, <1>2, <1>3

(* Whoever has a card was let through by the loader.                       *)
LEMMA ExpandRawCodeStep ==
    ASSUME BundleInv, ExpandRawCode
    PROVE  BundleInv'
  <1>1. PICK reason \in Reasons, m \in CodeModels :
          \/ bundle' = Warned
          \/ RawAllowed(m, reason) /\ AddOrFail("raw", m)
    BY DEF ExpandRawCode
  <1>2. CASE bundle' = Warned
    BY <1>2, WarnedStep DEF ExpandRawCode
  <1>3. CASE RawAllowed(m, reason) /\ AddOrFail("raw", m)
    <2>1. bundle.added # <<>>
      BY <1>3, BundleParts DEF RawAllowed, AddedCard, BundleInv
    <2>2. granted = "READY" /\ plan["code"] = "optional"
      BY <2>1 DEF BundleInv, StepsAreCounted, CodeIsEarned
    <2>3. QED
      BY <1>3, <2>2, AddOrFailStep DEF ExpandRawCode, RawAllowed
  <1>4. QED
    BY <1>1, <1>2, <1>3

(* The inductive invariant: an entry is a counted step, and only a bundle  *)
(* that the loader let through has one.                                    *)
THEOREM BundleInvariant == BundleSpec => []BundleInv
  <1>1. BundleInit => BundleInv
    BY BundleInitHolds
  <1>2. BundleInv /\ [BundleNext]_bundleVars => BundleInv'
    <2> SUFFICES ASSUME BundleInv, [BundleNext]_bundleVars
                 PROVE  BundleInv'
      OBVIOUS
    <2>1. CASE BundleNext
      BY <2>1, LoadStep, ExpandCodeStep, ExpandRawCodeStep DEF BundleNext
    <2>2. CASE UNCHANGED bundleVars
      BY <2>2 DEF bundleVars, BundleInv, BundleTypeOK, StepsAreCounted, CodeIsEarned,
                  RefusedStaysRefused
    <2>3. QED
      BY <2>1, <2>2
  <1>3. QED
    BY <1>1, <1>2, PTL DEF BundleSpec

(* No sequence of requests for code, refused, failed or served, exceeds    *)
(* the steps or the budget.                                                *)
THEOREM ExpansionsAreBounded == BundleSpec => []ExpansionIsBounded
  <1>1. BundleInv => ExpansionIsBounded
    BY DEF BundleInv, StepsAreCounted, ExpansionIsBounded
  <1>2. QED
    BY <1>1, BundleInvariant, PTL

(* Code comes in only as an option of the plan, one card for each model,   *)
(* and an excerpt only behind the card of its model.                       *)
THEOREM CodeIsAlwaysEarned == BundleSpec => []CodeIsEarned
  <1>1. BundleInv => CodeIsEarned
    BY DEF BundleInv
  <1>2. QED
    BY <1>1, BundleInvariant, PTL

(* No expansion turns a bundle that was blocked into one that is not.      *)
THEOREM BlockedStaysBlocked == BundleSpec => []RefusedStaysRefused
  <1>1. BundleInv => RefusedStaysRefused
    BY DEF BundleInv
  <1>2. QED
    BY <1>1, BundleInvariant, PTL

-----------------------------------------------------------------------------
(* The composition: each part takes its own steps, and they share nothing. *)
THEOREM ContextPartsAreApart == ContextSpec => CacheSpec /\ CodeSpec /\ BundleSpec
  <1>1. ContextInit => CacheInit /\ CodeInit /\ BundleInit
    BY DEF ContextInit
  <1>2. [ContextNext]_contextVars =>
           [CacheNext]_cacheVars /\ [CodeNext]_codeVars /\ [BundleNext]_bundleVars
    BY DEF ContextNext, contextVars
  <1>3. QED
    BY <1>1, <1>2, PTL DEF ContextSpec, CacheSpec, CodeSpec, BundleSpec

(* Every reachable state of the governed context is well typed.            *)
THEOREM ContextTypeCorrect == ContextSpec => []ContextTypeOK
  <1>1. CacheInv /\ CodeInv /\ BundleInv => ContextTypeOK
    BY DEF CacheInv, CodeInv, BundleInv, ContextTypeOK
  <1>2. QED
    BY <1>1, ContextPartsAreApart, CacheInvariant, CodeInvariant, BundleInvariant, PTL

=============================================================================
