------------------------------ MODULE AgentProofs ------------------------------
(***************************************************************************)
(* Theorems about five parts of the agent that share no state: for any     *)
(* windows, marts, tables and dimensions, MetricAnalysis; for any threads, *)
(* kids, rotations, lifespan of the cache, timeout and cooldown,           *)
(* TokenVerification; for any tenants, subjects and limits, LocalTraffic;  *)
(* for any plan of units and any number of retries, AgentTurn; for any     *)
(* metrics, filters, spans and limits, AnalysisSession.                    *)
(***************************************************************************)
EXTENDS AgentParts, SequenceTheorems, FiniteSetTheorems, WellFoundedInduction, TLAPS

-----------------------------------------------------------------------------
(* Sums over finite sets, by a smallest counterexample.                    *)

(* A set of numbers has a least one.                                       *)
LEMMA LeastNumber ==
    ASSUME NEW S \in SUBSET Nat, S # {}
    PROVE  \E n \in S : \A m \in S : n <= m
<1>1. PICK n \in S : \A m \in S : ~ (<<m, n>> \in OpToRel(<, Nat))
  BY WFMin, NatLessThanWellFounded
<1>2. ASSUME NEW m \in S PROVE n <= m
  <2>. DEFINE pair == <<m, n>>
  <2>1. pair \in Nat \X Nat /\ pair[1] = m /\ pair[2] = n
    OBVIOUS
  <2>2. ~ (pair \in OpToRel(<, Nat))
    BY <1>1
  <2>. HIDE DEF pair
  <2>3. ~ (m < n)
    BY <2>1, <2>2 DEF OpToRel
  <2>. QED  BY <2>3
<1>. QED  BY <1>2

(* A bounded set of numbers has a greatest one.                            *)
LEMMA Greatest ==
    ASSUME NEW n \in Nat, NEW S \in SUBSET (1..n), S # {}
    PROVE  \E m \in S : \A k \in S : m >= k
<1>. DEFINE mirrored == {n - k : k \in S}
<1>0. PICK j \in S : TRUE
  OBVIOUS
<1>1. (\A m \in S : n - m \in Nat) /\ n - j \in mirrored
  BY <1>0
<1>2. PICK least \in mirrored : \A m \in mirrored : least <= m
  <2>1. mirrored \in SUBSET Nat
    BY <1>1
  <2>2. mirrored # {}
    BY <1>1
  <2>. HIDE DEF mirrored
  <2>. QED  BY <2>1, <2>2, LeastNumber
<1>3. PICK m \in S : least = n - m
  OBVIOUS
<1>4. \A k \in S : n - m <= n - k
  BY <1>2, <1>3
<1>. QED  BY <1>4

(* The sums h of f over the subsets of D, the elements taken out in the    *)
(* order in which MapThenSumSet takes them.                                *)
One(s) == CHOOSE x \in s : TRUE
Sums(h, f, D) ==
    h = [s \in SUBSET D |-> IF s = {} THEN 0 ELSE f[One(s)] + h[s \ {One(s)}]]

(* A smallest of some subsets, which stands for induction.                 *)
LEMMA SmallestSubset ==
    ASSUME NEW D, IsFiniteSet(D), NEW Bad \in SUBSET (SUBSET D), Bad # {}
    PROVE  \E s \in Bad : \A t \in Bad : Cardinality(s) <= Cardinality(t)
<1>. DEFINE sizes == {Cardinality(s) : s \in Bad}
<1>1. \A s \in Bad : IsFiniteSet(s) /\ Cardinality(s) \in Nat
  BY FS_Subset, FS_CardinalityType
<1>2. sizes \in SUBSET Nat /\ sizes # {}
  BY <1>1
<1>3. PICK n \in sizes : \A m \in sizes : n <= m
  BY <1>2, LeastNumber
<1>4. PICK s \in Bad : n = Cardinality(s)
  BY <1>3
<1>. QED  BY <1>3, <1>4

LEMMA TakenOut ==
    ASSUME NEW D, IsFiniteSet(D), NEW s \in SUBSET D, NEW x \in s
    PROVE  /\ s \ {x} \in SUBSET D /\ Cardinality(s) \in Nat /\ Cardinality(s \ {x}) \in Nat
           /\ Cardinality(s \ {x}) < Cardinality(s)
<1>1. IsFiniteSet(s)
  BY FS_Subset
<1>2. IsFiniteSet(s \ {x}) /\ Cardinality(s \ {x}) = Cardinality(s) - 1
  BY <1>1, FS_RemoveElement
<1>. QED  BY <1>1, <1>2, FS_CardinalityType

SumsUpTo(h, f, D, n) ==
    h = [s \in {s \in SUBSET D : Cardinality(s) <= n} |->
            IF s = {} THEN 0 ELSE f[One(s)] + h[s \ {One(s)}]]

LEMMA SumsExist ==
    ASSUME NEW D, IsFiniteSet(D), NEW f
    PROVE  \E h : Sums(h, f, D)
<1>. DEFINE UpTo(n) == {s \in SUBSET D : Cardinality(s) <= n}
            Bad == {n \in Nat : ~ \E h : SumsUpTo(h, f, D, n)}
<1>1. \A s \in SUBSET D : Cardinality(s) \in Nat
  BY FS_Subset, FS_CardinalityType
<1>2. Bad = {}
  <2>. SUFFICES ASSUME Bad # {} PROVE FALSE
    OBVIOUS
  <2>1. PICK n \in Bad : \A m \in Bad : n <= m
    BY LeastNumber
  <2>2. n # 0
    <3>. DEFINE h == [s \in UpTo(0) |-> 0]
    <3>1. \A s \in UpTo(0) : s = {}
      BY <1>1, FS_Subset, FS_EmptySet
    <3>2. SumsUpTo(h, f, D, 0)
      BY <3>1 DEF SumsUpTo
    <3>. QED  BY <2>1, <3>2
  <2>3. n - 1 \in Nat /\ n - 1 \notin Bad
    BY <2>1, <2>2
  <2>4. PICK h : SumsUpTo(h, f, D, n - 1)
    BY <2>3
  <2>. DEFINE k == [s \in UpTo(n) |-> IF s = {} THEN 0 ELSE f[One(s)] + h[s \ {One(s)}]]
  <2>5. ASSUME NEW s \in UpTo(n), s # {} PROVE k[s \ {One(s)}] = h[s \ {One(s)}]
    <3>1. One(s) \in s
      BY <2>5 DEF One
    <3>. DEFINE t == s \ {One(s)}
    <3>2. t \in SUBSET D /\ Cardinality(t) \in Nat /\ Cardinality(t) < Cardinality(s) /\ Cardinality(s) \in Nat
      BY <3>1, TakenOut
    <3>3. t \in UpTo(n) /\ t \in UpTo(n - 1)
      BY <2>1, <2>5, <3>2
    <3>4. h[t] = IF t = {} THEN 0 ELSE f[One(t)] + h[t \ {One(t)}]
      BY <2>4, <3>3 DEF SumsUpTo
    <3>. HIDE DEF t
    <3>5. k[t] = IF t = {} THEN 0 ELSE f[One(t)] + h[t \ {One(t)}]
      BY <3>3
    <3>. QED  BY <3>4, <3>5 DEF t
  <2>6. SumsUpTo(k, f, D, n)
    BY <2>5 DEF SumsUpTo
  <2>. QED  BY <2>1, <2>6
<1>3. Cardinality(D) \in Nat
  BY <1>1
<1>4. PICK h : SumsUpTo(h, f, D, Cardinality(D))
  BY <1>2, <1>3
<1>5. UpTo(Cardinality(D)) = SUBSET D
  BY FS_Subset
<1>. QED  BY <1>4, <1>5 DEF Sums, SumsUpTo

LEMMA SumsAreNumbers ==
    ASSUME NEW D, IsFiniteSet(D), NEW f, \A x \in D : f[x] \in Int, NEW h, Sums(h, f, D)
    PROVE  \A s \in SUBSET D : h[s] \in Int
<1>s. \A t \in SUBSET D : h[t] = IF t = {} THEN 0 ELSE f[One(t)] + h[t \ {One(t)}]
  BY DEF Sums
<1>. DEFINE Bad == {s \in SUBSET D : h[s] \notin Int}
<1>. SUFFICES ASSUME Bad # {} PROVE FALSE
  OBVIOUS
<1>1. PICK s \in Bad : \A t \in Bad : Cardinality(s) <= Cardinality(t)
  BY SmallestSubset
<1>2. s \in SUBSET D /\ h[s] \notin Int
  OBVIOUS
<1>0. s # {}
  <2>. SUFFICES ASSUME s = {} PROVE FALSE
    OBVIOUS
  <2>1. h[s] = 0
    BY <1>2, <1>s
  <2>. QED  BY <1>2, <2>1
<1>3. One(s) \in s /\ One(s) \in D
  BY <1>0 DEF One
<1>4. s \ {One(s)} \in SUBSET D /\ ~(Cardinality(s) <= Cardinality(s \ {One(s)}))
  BY <1>3, TakenOut
<1>5. h[s \ {One(s)}] \in Int
  BY <1>1, <1>4
<1>6. h[s] = f[One(s)] + h[s \ {One(s)}]
  BY <1>0, <1>2, <1>s
<1>. QED  BY <1>3, <1>5, <1>6

(* Sums depend on the elements that are summed and on nothing else.        *)
LEMMA SumsAgree ==
    ASSUME NEW D, IsFiniteSet(D), NEW f, NEW h, Sums(h, f, D),
           NEW E, NEW e, NEW k, Sums(k, e, E), NEW S \in SUBSET (D \intersect E),
           \A x \in S : f[x] = e[x]
    PROVE  h[S] = k[S]
<1>h. \A t \in SUBSET D : h[t] = IF t = {} THEN 0 ELSE f[One(t)] + h[t \ {One(t)}]
  BY DEF Sums
<1>k. \A t \in SUBSET E : k[t] = IF t = {} THEN 0 ELSE e[One(t)] + k[t \ {One(t)}]
  BY DEF Sums
<1>. DEFINE Bad == {s \in SUBSET S : h[s] # k[s]}
<1>. SUFFICES ASSUME Bad # {} PROVE FALSE
  OBVIOUS
<1>0. IsFiniteSet(S)
  BY FS_Subset
<1>1. PICK s \in Bad : \A t \in Bad : Cardinality(s) <= Cardinality(t)
  BY <1>0, SmallestSubset
<1>2. s \in SUBSET D /\ s \in SUBSET E
  OBVIOUS
<1>3. h[s] = (IF s = {} THEN 0 ELSE f[One(s)] + h[s \ {One(s)}])
      /\ k[s] = (IF s = {} THEN 0 ELSE e[One(s)] + k[s \ {One(s)}])
  BY <1>2, <1>h, <1>k
<1>4. s # {}
  BY <1>1, <1>3
<1>5. One(s) \in s
  BY <1>4 DEF One
<1>6. s \ {One(s)} \in SUBSET S /\ ~(Cardinality(s) <= Cardinality(s \ {One(s)}))
  BY <1>0, <1>5, TakenOut
<1>7. h[s \ {One(s)}] = k[s \ {One(s)}]
  BY <1>1, <1>6
<1>. QED  BY <1>1, <1>3, <1>4, <1>5, <1>7

(* Any element may be taken out first.                                     *)
LEMMA SumTakesOut ==
    ASSUME NEW D, IsFiniteSet(D), NEW f, \A x \in D : f[x] \in Int, NEW h, Sums(h, f, D),
           NEW s0 \in SUBSET D, NEW y0 \in s0
    PROVE  h[s0] = f[y0] + h[s0 \ {y0}]
<1>s. \A t \in SUBSET D : h[t] = IF t = {} THEN 0 ELSE f[One(t)] + h[t \ {One(t)}]
  BY DEF Sums
<1>. DEFINE Bad == {s \in SUBSET D : \E y \in s : h[s] # f[y] + h[s \ {y}]}
<1>. SUFFICES ASSUME Bad # {} PROVE FALSE
  OBVIOUS
<1>1. PICK s \in Bad : \A t \in Bad : Cardinality(s) <= Cardinality(t)
  BY SmallestSubset
<1>2. PICK y \in s : h[s] # f[y] + h[s \ {y}]
  OBVIOUS
<1>. DEFINE x == One(s)
<1>3. x \in s /\ s \in SUBSET D
  BY <1>2 DEF One
<1>4. h[s] = f[x] + h[s \ {x}]
  BY <1>3, <1>s
<1>. HIDE DEF x
<1>5. x # y
  BY <1>2, <1>4
<1>6. /\ s \ {x} \in SUBSET D /\ ~(Cardinality(s) <= Cardinality(s \ {x}))
      /\ s \ {y} \in SUBSET D /\ ~(Cardinality(s) <= Cardinality(s \ {y}))
  BY <1>3, TakenOut
<1>7. h[s \ {x}] = f[y] + h[(s \ {x}) \ {y}]
  BY <1>1, <1>5, <1>6
<1>8. h[s \ {y}] = f[x] + h[(s \ {y}) \ {x}]
  BY <1>1, <1>3, <1>5, <1>6
<1>9. (s \ {x}) \ {y} = (s \ {y}) \ {x} /\ (s \ {x}) \ {y} \in SUBSET D
  BY <1>3
<1>10. f[x] \in Int /\ f[y] \in Int /\ h[(s \ {x}) \ {y}] \in Int
  BY <1>3, <1>9, SumsAreNumbers
<1>. DEFINE rest == h[(s \ {x}) \ {y}]
<1>11. h[s] = f[x] + (f[y] + rest)
  BY <1>4, <1>7
<1>12. h[s \ {y}] = f[x] + rest
  BY <1>8, <1>9
<1>13. rest \in Int
  BY <1>10
<1>. HIDE DEF rest
<1>14. h[s] = f[y] + h[s \ {y}]
  BY <1>10, <1>11, <1>12, <1>13
<1>. QED  BY <1>2, <1>14

LEMMA ZerosDoNotCount ==
    ASSUME NEW D, IsFiniteSet(D), NEW f, \A x \in D : f[x] \in Int, NEW h, Sums(h, f, D),
           NEW Z0 \in SUBSET D, \A z \in Z0 : f[z] = 0
    PROVE  h[D] = h[D \ Z0]
<1>n. \A s \in SUBSET D : h[s] \in Int
  BY SumsAreNumbers
<1>s. ASSUME NEW s \in SUBSET D, NEW y \in s PROVE h[s] = f[y] + h[s \ {y}]
  BY SumTakesOut
<1>. DEFINE Bad == {Z \in SUBSET Z0 : h[D] # h[D \ Z]}
<1>. SUFFICES ASSUME Bad # {} PROVE FALSE
  OBVIOUS
<1>0. IsFiniteSet(Z0)
  BY FS_Subset
<1>1. PICK Z \in Bad : \A t \in Bad : Cardinality(Z) <= Cardinality(t)
  BY <1>0, SmallestSubset
<1>2. PICK z \in Z : TRUE
  <2>1. CASE Z = {}
    <3>1. D \ Z = D
      BY <2>1
    <3>. QED  BY <1>1, <3>1
  <2>. QED  BY <2>1
<1>3. Z \ {z} \in SUBSET Z0 /\ ~(Cardinality(Z) <= Cardinality(Z \ {z}))
  BY <1>0, <1>2, TakenOut
<1>4. h[D] = h[D \ (Z \ {z})]
  <2>1. PICK Y : Y = Z \ {z}
    OBVIOUS
  <2>2. Y \notin Bad /\ Y \in SUBSET Z0
    BY <1>1, <1>3, <2>1
  <2>3. h[D] = h[D \ Y]
    BY <2>2
  <2>. QED  BY <2>1, <2>3
<1>. DEFINE t == D \ (Z \ {z})
<1>5. t \in SUBSET D /\ z \in t /\ t \ {z} = D \ Z /\ f[z] = 0
  <2>1. z \in Z0 /\ z \in D /\ Z \in SUBSET Z0
    BY <1>2
  <2>2. f[z] = 0
    BY <2>1
  <2>3. t \ {z} = D \ Z
    BY <1>2
  <2>4. t \in SUBSET D /\ z \in t
    BY <2>1
  <2>. QED  BY <2>2, <2>3, <2>4
<1>. HIDE DEF t
<1>6. h[t] = f[z] + h[t \ {z}]
  BY <1>5, <1>s
<1>7. h[D \ Z] \in Int
  BY <1>n
<1>8. h[D] = h[t]
  BY <1>4 DEF t
<1>9. h[t \ {z}] = h[D \ Z]
  BY <1>5
<1>10. h[t] = h[D \ Z]
  BY <1>5, <1>6, <1>7, <1>9
<1>. QED  BY <1>1, <1>8, <1>10

LEMMA SumsSubtract ==
    ASSUME NEW D, IsFiniteSet(D), NEW a, NEW b, NEW c,
           \A x \in D : a[x] \in Int /\ b[x] \in Int /\ c[x] = a[x] - b[x],
           NEW ha, Sums(ha, a, D), NEW hb, Sums(hb, b, D), NEW hc, Sums(hc, c, D)
    PROVE  hc[D] = ha[D] - hb[D]
<1>a. \A t \in SUBSET D : ha[t] = IF t = {} THEN 0 ELSE a[One(t)] + ha[t \ {One(t)}]
  BY DEF Sums
<1>b. \A t \in SUBSET D : hb[t] = IF t = {} THEN 0 ELSE b[One(t)] + hb[t \ {One(t)}]
  BY DEF Sums
<1>c. \A t \in SUBSET D : hc[t] = IF t = {} THEN 0 ELSE c[One(t)] + hc[t \ {One(t)}]
  BY DEF Sums
<1>. DEFINE Bad == {s \in SUBSET D : hc[s] # ha[s] - hb[s]}
<1>. SUFFICES ASSUME Bad # {} PROVE FALSE
  OBVIOUS
<1>1. PICK s \in Bad : \A t \in Bad : Cardinality(s) <= Cardinality(t)
  BY SmallestSubset
<1>. DEFINE x == One(s)  r == s \ {One(s)}
<1>2. /\ ha[s] = IF s = {} THEN 0 ELSE a[x] + ha[r]
      /\ hb[s] = IF s = {} THEN 0 ELSE b[x] + hb[r]
      /\ hc[s] = IF s = {} THEN 0 ELSE c[x] + hc[r]
  BY <1>a, <1>b, <1>c
<1>3. s # {}
  BY <1>1, <1>2
<1>4. x \in s /\ x \in D
  BY <1>3 DEF One
<1>5. r \in SUBSET D /\ ~(Cardinality(s) <= Cardinality(r))
  BY <1>4, TakenOut
<1>. HIDE DEF x, r
<1>6. hc[r] = ha[r] - hb[r]
  BY <1>1, <1>5
<1>7. ha[r] \in Int /\ hb[r] \in Int
  BY <1>5, SumsAreNumbers
<1>. QED  BY <1>1, <1>2, <1>3, <1>4, <1>6, <1>7

(* What MapThenSumSet computes of a table.                                 *)
LEMMA TotalIsSum ==
    ASSUME NEW rows, IsFiniteSet(DOMAIN rows)
    PROVE  \E h : Sums(h, rows, DOMAIN rows) /\ Total(rows) = h[DOMAIN rows]
<1>. DEFINE h == CHOOSE h : h = [s \in SUBSET DOMAIN rows |->
                   IF s = {} THEN 0 ELSE rows[CHOOSE x \in s : TRUE] + h[s \ {CHOOSE x \in s : TRUE}]]
<1>1. \E k : k = [s \in SUBSET DOMAIN rows |->
                   IF s = {} THEN 0 ELSE rows[CHOOSE x \in s : TRUE] + k[s \ {CHOOSE x \in s : TRUE}]]
  <2>1. \E k : Sums(k, rows, DOMAIN rows)
    BY SumsExist
  <2>. QED  BY <2>1 DEF Sums, One
<1>2. h = [s \in SUBSET DOMAIN rows |->
                   IF s = {} THEN 0 ELSE rows[CHOOSE x \in s : TRUE] + h[s \ {CHOOSE x \in s : TRUE}]]
  BY <1>1
<1>3. Total(rows) = h[DOMAIN rows]
  BY DEF Total, MapThenSumSet, MapThenFoldSet
<1>. HIDE DEF h
<1>. QED  BY <1>2, <1>3 DEF Sums, One

-----------------------------------------------------------------------------
(* MetricAnalysis.                                                         *)
AnalysisInv == TypeOK /\ JobInv /\ HealthInv /\ NoDriversOfIncompleteDays

(* The constants, as the proofs below use them.                            *)
LEMMA AnalysisConstants == Days \in Nat \ {0} /\ Periods \in Nat /\ MaxWindow \in Nat /\ MaxCommits \in Nat
  BY AnalysisAssumption

(* What a job with a result more has.                                      *)
LEMMA MoreResults ==
    ASSUME JobInv, NEW r, r.status \in Failures \union {"COMPLETE"},
           NEW gathered, gathered = Append(job.results, r)
    PROVE  AreResults(gathered)
<1>. DEFINE S == {job.results[i] : i \in DOMAIN job.results} \union {r}
<1>1. job.results \in Seq(S)
  <2>1. job.results \in Seq({job.results[i] : i \in DOMAIN job.results})  BY DEF JobInv, AreResults
  <2>. QED  BY <2>1, SeqMonotonic
<1>2. /\ gathered \in Seq(S)
      /\ DOMAIN gathered = 1..(Len(job.results) + 1) /\ DOMAIN job.results = 1..Len(job.results)
      /\ Len(job.results) \in Nat
      /\ \A i \in 1..Len(job.results) : gathered[i] = job.results[i]
      /\ gathered[Len(job.results) + 1] = r
  BY <1>1, AppendProperties, LenProperties
<1>3. gathered \in Seq({gathered[i] : i \in DOMAIN gathered})
  BY <1>2, LenProperties
<1>4. ASSUME NEW i \in DOMAIN gathered PROVE gathered[i].status \in Failures \union {"COMPLETE"}
  BY <1>2, <1>4 DEF JobInv, AreResults
<1>. QED  BY <1>3, <1>4 DEF AreResults

LEMMA AnalysisInitially == Init => AnalysisInv
<1>. SUFFICES ASSUME Init PROVE AnalysisInv
  OBVIOUS
<1>1. TypeOK
  <2>1. mart \in [1..Days -> Tables \union {<<>>}]
    <3>1. PICK tables \in [1..(Days - 1) -> Tables] :
             mart = [d \in 1..Days |-> IF d < Days THEN tables[d] ELSE <<>>]
      BY DEF Init
    <3>2. ASSUME NEW d \in 1..Days, d < Days PROVE tables[d] \in Tables
      BY <3>2, AnalysisConstants
    <3>. QED  BY <3>1, <3>2
  <2>. QED  BY <2>1, AnalysisConstants DEF Init, TypeOK, NoJob, NoAnswer, Statuses
<1>2. JobInv
  BY DEF Init, JobInv, AreResults, NoJob, NoAnswer
<1>3. HealthInv /\ NoDriversOfIncompleteDays
  BY DEF Init, HealthInv, NoDriversOfIncompleteDays, NoJob, NoAnswer
<1>. QED  BY <1>1, <1>2, <1>3 DEF AnalysisInv

(* The pipeline only adds to what is complete.                             *)
LEMMA PipelineSteps ==
    ASSUME AnalysisInv, \/ DeadlinePasses
                        \/ \E d \in 1..Days : CommitMart(d) \/ AllMartsMaterialized(d)
    PROVE  AnalysisInv'
<1>1. UNCHANGED job /\ complete \subseteq complete'
  BY DEF DeadlinePasses, CommitMart, AllMartsMaterialized
<1>2. TypeOK'
  BY AnalysisConstants, <1>1 DEF AnalysisInv, TypeOK, DeadlinePasses, CommitMart, AllMartsMaterialized
<1>3. JobInv' /\ HealthInv' /\ NoDriversOfIncompleteDays'
  BY <1>1 DEF AnalysisInv, JobInv, HealthInv, NoDriversOfIncompleteDays
<1>. QED  BY <1>2, <1>3 DEF AnalysisInv

(* A job with the request of the one there is.                             *)
AnswerOf(status, current, reference, lenses) ==
    [status |-> status, current |-> current, reference |-> reference, lenses |-> lenses]
Job(mode, at, overdue, todo, missing, health, script, gathered, early, answer) ==
    [kind |-> job.kind, mode |-> mode, at |-> at, additive |-> job.additive,
     first |-> job.first, last |-> job.last, overdue |-> overdue, todo |-> todo,
     missing |-> missing, health |-> health, script |-> script, results |-> gathered,
     early |-> early, answer |-> answer]

LEMMA JobFields ==
    ASSUME JobInv
    PROVE  /\ job = Job(job.mode, job.at, job.overdue, job.todo, job.missing, job.health,
                        job.script, job.results, job.early, job.answer)
           /\ job.answer = AnswerOf(job.answer.status, job.answer.current, job.answer.reference,
                                  job.answer.lenses)
  BY DEF JobInv, Job, AnswerOf

(* What is left to show of a step that gives some fields new values.       *)
LEMMA NextJob ==
    ASSUME AnalysisInv, UNCHANGED pipeline,
           NEW mode, NEW at, NEW overdue, NEW todo, NEW missing, NEW health, NEW script,
           NEW gathered, NEW early, NEW status, NEW current, NEW reference, NEW lenses,
           job' = Job(mode, at, overdue, todo, missing, health, script, gathered, early,
                      AnswerOf(status, current, reference, lenses)),
           at \in {"idle", "health", "anomaly", "lenses", "compare", "breakdown", "totals", "done"},
           health \in {"HEALTHY", "UNHEALTHY", "UNKNOWN"},
           status \in Statuses, at = "done" <=> status # "NONE",
           early \in BOOLEAN, AreResults(gathered),
           at \in {"idle", "health", "done"} => script = <<>>,
           at \in {"idle", "health"} => ~early,
           at = "idle" => missing = {},
           at = "health" => job.first..job.last \subseteq todo \union missing \union complete,
           at \in {"anomaly", "lenses"} /\ health = "HEALTHY"
              => job.first..job.last \subseteq complete /\ ~early,
           at = "lenses" => health = "HEALTHY",
           status \in Drivers => ~early
    PROVE  AnalysisInv'
<1>1. /\ job'.kind = job.kind /\ job'.mode = mode /\ job'.at = at /\ job'.additive = job.additive
      /\ job'.first = job.first /\ job'.last = job.last /\ job'.overdue = overdue
      /\ job'.todo = todo /\ job'.missing = missing /\ job'.health = health
      /\ job'.script = script /\ job'.results = gathered /\ job'.early = early
      /\ job'.answer = AnswerOf(status, current, reference, lenses)
  BY DEF Job
<1>2. /\ job'.answer.status = status /\ job'.answer.current = current
      /\ job'.answer.reference = reference /\ job'.answer.lenses = lenses
  BY <1>1 DEF AnswerOf
<1>3. JobInv'
  <2>1. job' = [kind |-> job'.kind, mode |-> job'.mode, at |-> job'.at, additive |-> job'.additive,
                first |-> job'.first, last |-> job'.last, overdue |-> job'.overdue,
                todo |-> job'.todo, missing |-> job'.missing, health |-> job'.health,
                script |-> job'.script, results |-> job'.results, early |-> job'.early,
                answer |-> job'.answer]
    BY <1>1 DEF Job
  <2>2. job'.answer = [status |-> job'.answer.status, current |-> job'.answer.current,
                       reference |-> job'.answer.reference, lenses |-> job'.answer.lenses]
    BY <1>1, <1>2 DEF AnswerOf
  <2>3. job'.first \in Int /\ job'.last \in Int /\ job'.early \in BOOLEAN
    BY <1>1 DEF AnalysisInv, JobInv
  <2>4. AreResults(job'.results)
    BY <1>1
  <2>. QED  BY <2>1, <2>2, <2>3, <2>4 DEF JobInv
<1>4. TypeOK'
  BY <1>1, <1>2 DEF AnalysisInv, TypeOK, pipeline
<1>5. HealthInv'
  BY <1>1, <1>2 DEF HealthInv, pipeline
<1>6. NoDriversOfIncompleteDays'
  BY <1>1, <1>2 DEF NoDriversOfIncompleteDays, Drivers
<1>. QED  BY <1>3, <1>4, <1>5, <1>6 DEF AnalysisInv

(* The values a step does not change fit.                                  *)
LEMMA OldValues ==
    ASSUME AnalysisInv
    PROVE  /\ job.health \in {"HEALTHY", "UNHEALTHY", "UNKNOWN"}
           /\ job.answer.status \in Statuses /\ job.at = "done" <=> job.answer.status # "NONE"
           /\ AreResults(job.results) /\ job.early \in BOOLEAN
           /\ job.answer.status \in Drivers => ~job.early
           /\ "NONE" \in Statuses /\ "NONE" \notin Drivers
  BY DEF AnalysisInv, TypeOK, JobInv, NoDriversOfIncompleteDays, Drivers, Statuses

LEMMA StartKeeps ==
    ASSUME AnalysisInv, NEW kind, Start(kind)
    PROVE  AnalysisInv'
<1>1. PICK last \in 1..Days :
         \E first \in (last - MaxWindow + 1)..last : \E additive \in BOOLEAN :
            job' = [NoJob EXCEPT !.kind = kind, !.first = first, !.last = last, !.additive = additive]
  BY DEF Start
<1>2. PICK first \in (last - MaxWindow + 1)..last : \E additive \in BOOLEAN :
         job' = [NoJob EXCEPT !.kind = kind, !.first = first, !.last = last, !.additive = additive]
  BY <1>1
<1>3. PICK additive \in BOOLEAN :
         job' = [NoJob EXCEPT !.kind = kind, !.first = first, !.last = last, !.additive = additive]
  BY <1>2
<1>4. first \in Int /\ last \in Int  BY <1>1, <1>2, AnalysisConstants
<1>5. job' = [kind |-> kind, mode |-> "COMPARE", at |-> "idle", additive |-> additive,
              first |-> first, last |-> last, overdue |-> {}, todo |-> {}, missing |-> {},
              health |-> "UNKNOWN", script |-> <<>>, results |-> <<>>,
              early |-> FALSE, answer |-> NoAnswer]
  BY <1>3 DEF NoJob
<1>6. UNCHANGED <<now, mart, complete, commits>>  BY DEF Start, pipeline
<1>7. JobInv'  BY <1>4, <1>5 DEF JobInv, AreResults, NoAnswer
<1>8. TypeOK'  BY <1>5, <1>6 DEF AnalysisInv, TypeOK, NoAnswer, Statuses
<1>9. HealthInv' /\ NoDriversOfIncompleteDays'
  BY <1>5 DEF HealthInv, NoDriversOfIncompleteDays, NoAnswer
<1>. QED  BY <1>7, <1>8, <1>9 DEF AnalysisInv

LEMMA HealthKeeps ==
    ASSUME AnalysisInv, StartDiagnosis \/ InspectDay
    PROVE  AnalysisInv'
<1>0. JobInv /\ HealthInv  BY DEF AnalysisInv
<1>1. CASE StartDiagnosis
  <2>1. PICK overdue, todo :
           /\ todo = job.first..job.last
           /\ job' = [job EXCEPT !.at = "health", !.todo = todo, !.overdue = overdue]
    BY <1>1 DEF StartDiagnosis
  <2>2. job' = Job(job.mode, "health", overdue, todo, job.missing, job.health,
                   job.script, job.results, job.early, job.answer)
    BY <2>1, JobFields, <1>0 DEF Job
  <2>3. /\ job.script = <<>> /\ ~job.early /\ job.answer.status = "NONE" /\ UNCHANGED pipeline
        /\ job.first..job.last \subseteq todo \union job.missing \union complete
    BY <1>0, <1>1, <2>1 DEF StartDiagnosis, HealthInv
  <2>. QED  BY <1>0, <2>2, <2>3, OldValues, JobFields, NextJob
<1>2. CASE InspectDay
  <2>1. PICK d : job' = [job EXCEPT !.todo = @ \ {d},
                                    !.missing = IF d \in complete THEN @ ELSE @ \union {d}]
    BY <1>2 DEF InspectDay
  <2>2. PICK missing : missing = IF d \in complete THEN job.missing ELSE job.missing \union {d}
    OBVIOUS
  <2>3. job' = Job(job.mode, job.at, job.overdue, job.todo \ {d}, missing, job.health,
                   job.script, job.results, job.early, job.answer)
    BY <2>1, <2>2, JobFields, <1>0 DEF Job
  <2>4. /\ job.script = <<>> /\ ~job.early /\ job.answer.status = "NONE" /\ UNCHANGED pipeline
        /\ job.at = "health"
        /\ job.first..job.last \subseteq (job.todo \ {d}) \union missing \union complete
    BY <1>0, <1>2, <2>2 DEF InspectDay, HealthInv
  <2>. QED  BY <1>0, <2>3, <2>4, OldValues, JobFields, NextJob
<1>. QED  BY <1>1, <1>2

LEMMA PlansKeep ==
    ASSUME AnalysisInv, PlanAnomaly \/ PlanComparison \/ PlanBreakdown
    PROVE  AnalysisInv'
<1>0. JobInv /\ HealthInv  BY DEF AnalysisInv
<1>1. CASE PlanAnomaly
  <2>1. PICK health \in (IF job.todo = {} THEN {Health} ELSE {"UNKNOWN"}) :
           job' = [job EXCEPT !.at = "anomaly", !.todo = {}, !.missing = {}, !.health = health,
                              !.script = [i \in 1..(Periods + 1) |-> Query(i - 1, 0)]]
    BY <1>1 DEF PlanAnomaly
  <2>2. job' = Job(job.mode, "anomaly", job.overdue, {}, {}, health,
                   [i \in 1..(Periods + 1) |-> Query(i - 1, 0)], job.results, job.early, job.answer)
    BY <2>1, JobFields, <1>0 DEF Job
  <2>3. /\ health \in {"HEALTHY", "UNHEALTHY", "UNKNOWN"}
        /\ health = "HEALTHY" => job.todo = {} /\ job.missing = {}
    BY <2>1 DEF Health
  <2>4. ~job.early /\ job.answer.status = "NONE" /\ UNCHANGED pipeline
    BY <1>0, <1>1 DEF PlanAnomaly, HealthInv
  <2>5. health = "HEALTHY" => job.first..job.last \subseteq complete
    BY <1>0, <1>1, <2>3 DEF PlanAnomaly, HealthInv
  <2>. QED  BY <1>0, <2>2, <2>3, <2>4, <2>5, OldValues, JobFields, NextJob
<1>2. CASE PlanComparison
  <2>1. PICK back \in 1..MaxBack :
           job' = [job EXCEPT !.at = "compare", !.script = <<Query(0, 0), Query(back, 0)>>]
    BY <1>2 DEF PlanComparison
  <2>2. job' = Job(job.mode, "compare", job.overdue, job.todo, job.missing, job.health,
                   <<Query(0, 0), Query(back, 0)>>, job.results, job.early, job.answer)
    BY <2>1, JobFields, <1>0 DEF Job
  <2>3. job.answer.status = "NONE" /\ UNCHANGED pipeline
    BY <1>0, <1>2 DEF PlanComparison, HealthInv
  <2>. QED  BY <1>0, <2>2, <2>3, OldValues, JobFields, NextJob
<1>3. CASE PlanBreakdown
  <2>0. job.script = <<>> /\ ~job.early /\ job.answer.status = "NONE" /\ UNCHANGED pipeline
    BY <1>0, <1>3 DEF PlanBreakdown, HealthInv
  <2>1. ASSUME NEW mode, job' = [job EXCEPT !.mode = mode, !.at = "done",
                                            !.answer.status = "CLARIFICATION_REQUIRED"]
        PROVE  AnalysisInv'
    <3>1. job' = Job(mode, "done", job.overdue, job.todo, job.missing, job.health,
                     job.script, job.results, job.early,
                     AnswerOf("CLARIFICATION_REQUIRED", job.answer.current, job.answer.reference,
                            job.answer.lenses))
      BY <2>1, JobFields, <1>0 DEF Job, AnswerOf
    <3>2. "CLARIFICATION_REQUIRED" \in Statuses /\ "CLARIFICATION_REQUIRED" \notin Drivers
      BY DEF Statuses, Drivers
    <3>. QED  BY <2>0, <3>1, <3>2, OldValues, NextJob
  <2>2. ASSUME NEW mode, NEW script, job' = [job EXCEPT !.mode = mode, !.at = "breakdown",
                                                        !.script = script]
        PROVE  AnalysisInv'
    <3>1. job' = Job(mode, "breakdown", job.overdue, job.todo, job.missing, job.health,
                     script, job.results, job.early, job.answer)
      BY <2>2, JobFields, <1>0 DEF Job
    <3>. QED  BY <1>0, <2>0, <3>1, OldValues, JobFields, NextJob
  <2>. QED  BY <1>3, <2>1, <2>2 DEF PlanBreakdown
<1>. QED  BY <1>1, <1>2, <1>3

(* A query: what it reads of the window itself is complete or is noticed.  *)
LEMMA QueriesKeep ==
    ASSUME AnalysisInv, RunQuery \/ QueryFails
    PROVE  AnalysisInv'
<1>0. JobInv /\ HealthInv  BY DEF AnalysisInv
<1>1. /\ job.at \notin {"idle", "health", "done"} /\ UNCHANGED pipeline
      /\ job.answer.status = "NONE"
  BY <1>0 DEF RunQuery, QueryFails, HealthInv
<1>2. ASSUME NEW r, r.status \in Failures \union {"COMPLETE"}, NEW script, NEW early \in BOOLEAN,
             job' = Job(job.mode, job.at, job.overdue, job.todo, job.missing, job.health,
                        script, Append(job.results, r), early, job.answer),
             job.first..job.last \subseteq complete => early = job.early
      PROVE  AnalysisInv'
  <2>1. PICK gathered : gathered = Append(job.results, r)  OBVIOUS
  <2>2. job' = Job(job.mode, job.at, job.overdue, job.todo, job.missing, job.health,
                   script, gathered, early, job.answer)
    BY <1>2, <2>1
  <2>3. AreResults(gathered)
    BY <1>0, <1>2, <2>1, MoreResults
  <2>4. /\ job.at \in {"idle", "health", "anomaly", "lenses", "compare", "breakdown", "totals", "done"}
        /\ job.at = "lenses" => job.health = "HEALTHY"
        /\ job.at \in {"anomaly", "lenses"} /\ job.health = "HEALTHY"
              => job.first..job.last \subseteq complete /\ ~early
    BY <1>0, <1>2 DEF AnalysisInv, TypeOK, HealthInv
  <2>. QED  BY <1>0, <1>1, <2>2, <2>3, <2>4, OldValues, JobFields, NextJob
<1>3. CASE RunQuery
  <2>1. PICK r, script, early :
           /\ r = Result(Head(job.script), "COMPLETE", Rows(Head(job.script)))
           /\ script = Tail(job.script)
           /\ early = (job.early \/ (Head(job.script).back = 0 /\ ~(Window(0) \subseteq complete)))
    OBVIOUS
  <2>2. job' = [job EXCEPT !.script = script, !.results = Append(@, r), !.early = early]
    BY <1>3, <2>1 DEF RunQuery
  <2>6. job' = Job(job.mode, job.at, job.overdue, job.todo, job.missing, job.health,
                   script, Append(job.results, r), early, job.answer)
    BY <2>2, JobFields, <1>0 DEF Job
  <2>3. r.status = "COMPLETE"  BY <2>1 DEF Result
  <2>4. Window(0) = job.first..job.last
    BY <1>0 DEF Window, JobInv
  <2>5. job.early \in BOOLEAN
    BY <1>0 DEF JobInv
  <2>. QED  BY <1>2, <2>1, <2>3, <2>4, <2>5, <2>6
<1>4. CASE QueryFails
  <2>1. PICK status \in Failures :
           job' = [job EXCEPT !.script = NextLens(Head(job.script).lens),
                              !.results = Append(@, Result(Head(job.script), status, <<>>))]
    BY <1>4, Zenon DEF QueryFails
  <2>2. PICK r, script :
           /\ r = Result(Head(job.script), status, <<>>)
           /\ script = NextLens(Head(job.script).lens)
    OBVIOUS
  <2>3. job' = [job EXCEPT !.script = script, !.results = Append(@, r)]
    BY <2>1, <2>2
  <2>4. job' = Job(job.mode, job.at, job.overdue, job.todo, job.missing, job.health,
                   script, Append(job.results, r), job.early, job.answer)
    BY <2>3, JobFields, <1>0 DEF Job
  <2>5. r.status = status  BY <2>2 DEF Result
  <2>6. job.early \in BOOLEAN
    BY <1>0 DEF JobInv
  <2>. QED  BY <1>2, <2>1, <2>4, <2>5, <2>6
<1>. QED  BY <1>3, <1>4

LEMMA NoResults == AreResults(<<>>)
  BY DEF AreResults

(* Answers.                                                                *)
LEMMA AnsweredIs ==
    ASSUME JobInv, NEW status
    PROVE  Answered(status) = Job(job.mode, "done", job.overdue, job.todo, job.missing, job.health,
                                  job.script, <<>>, job.early,
                                  AnswerOf(status, job.answer.current, job.answer.reference,
                                         job.answer.lenses))
<1>1. PICK answer : answer = job.answer  OBVIOUS
<1>2. answer = AnswerOf(answer.status, answer.current, answer.reference, answer.lenses)
  BY <1>1, JobFields
<1>3. [answer EXCEPT !.status = status]
        = AnswerOf(status, answer.current, answer.reference, answer.lenses)
  BY <1>2 DEF AnswerOf
<1>4. Answered(status) = [job EXCEPT !.at = "done", !.results = <<>>,
                                     !.answer = [answer EXCEPT !.status = status]]
  BY <1>1 DEF Answered
<1>. QED  BY <1>1, <1>3, <1>4, JobFields DEF Job

LEMMA AnswerKeeps ==
    ASSUME AnalysisInv, UNCHANGED pipeline, job.script = <<>>,
           NEW status \in Statuses \ {"NONE"}, status \in Drivers => ~job.early,
           NEW current, NEW reference, NEW lenses,
           job' = Job(job.mode, "done", job.overdue, job.todo, job.missing, job.health,
                      job.script, <<>>, job.early, AnswerOf(status, current, reference, lenses))
    PROVE  AnalysisInv'
  BY OldValues, NoResults, NextJob

(* A failed query's status becomes that of the answer.                     *)
LEMMA LastFailed ==
    ASSUME JobInv, ~AllComplete(job.results)
    PROVE  LastStatus \in Statuses \ {"NONE"} /\ LastStatus \notin Drivers
<1>1. PICK i \in DOMAIN job.results : TRUE
  BY DEF AllComplete
<1>2. DOMAIN job.results = 1..Len(job.results) /\ Len(job.results) \in Nat
  <2>1. job.results \in Seq({job.results[j] : j \in DOMAIN job.results})  BY DEF JobInv, AreResults
  <2>. QED  BY <2>1, LenProperties
<1>3. Len(job.results) \in DOMAIN job.results  BY <1>1, <1>2
<1>4. LastStatus \in Failures \union {"COMPLETE"}
  BY <1>3 DEF JobInv, AreResults, LastStatus
<1>. QED  BY <1>4 DEF Failures, Statuses, Drivers

LEMMA JudgeKeeps ==
    ASSUME AnalysisInv, JudgeAnomaly
    PROVE  AnalysisInv'
<1>0. /\ JobInv /\ HealthInv /\ job.script = <<>> /\ UNCHANGED pipeline
      /\ job.at = "anomaly" /\ job.answer.status = "NONE"
  BY DEF AnalysisInv, JudgeAnomaly, HealthInv
<1>1. PICK current, baseline, cause, severity, script :
         /\ cause = CauseClass(severity)
         /\ job' = CASE ~AllComplete(job.results) -> Answered(LastStatus)
                     [] AllComplete(job.results) /\ \E i \in DOMAIN job.results : ~HasValue(job.results[i])
                        -> Answered("ERROR")
                     [] OTHER ->
                        CASE cause = "NO_ANOMALY" -> Answered("NORMAL")
                          [] cause = "BUSINESS_SIGNAL_SUSPECTED"
                             -> [job EXCEPT !.at = "lenses", !.results = <<>>, !.script = script,
                                            !.answer.current = current, !.answer.reference = baseline]
                          [] OTHER -> Answered(cause)
  BY Zenon DEF JudgeAnomaly
<1>2. ASSUME NEW status \in Statuses \ {"NONE"}, status \notin Drivers, job' = Answered(status)
      PROVE  AnalysisInv'
  BY <1>0, <1>2, AnsweredIs, AnswerKeeps
<1>3. CASE /\ job.health = "HEALTHY"
           /\ job' = [job EXCEPT !.at = "lenses", !.results = <<>>, !.script = script,
                                 !.answer.current = current, !.answer.reference = baseline]
  <2>1. job' = Job(job.mode, "lenses", job.overdue, job.todo, job.missing, job.health, script, <<>>,
                   job.early, AnswerOf(job.answer.status, current, baseline, job.answer.lenses))
    BY <1>0, <1>3, JobFields DEF Job, AnswerOf
  <2>2. job.first..job.last \subseteq complete /\ ~job.early
    BY <1>0, <1>3 DEF HealthInv
  <2>. QED  BY <1>0, <1>3, <2>1, <2>2, OldValues, NoResults, NextJob
<1>4. /\ {"ERROR", "NORMAL", "DATA_PIPELINE_SUSPECTED", "UNRESOLVED"} \subseteq Statuses \ {"NONE"}
      /\ {"ERROR", "NORMAL", "DATA_PIPELINE_SUSPECTED", "UNRESOLVED"} \intersect Drivers = {}
  BY DEF Statuses, Drivers, Failures
<1>5. CASE ~AllComplete(job.results)
  BY <1>0, <1>1, <1>2, <1>5, LastFailed
<1>6. CASE AllComplete(job.results)
  <2>0. /\ cause \in {"NO_ANOMALY", "DATA_PIPELINE_SUSPECTED", "BUSINESS_SIGNAL_SUSPECTED", "UNRESOLVED"}
        /\ cause = "BUSINESS_SIGNAL_SUSPECTED" => job.health = "HEALTHY"
    BY <1>1 DEF CauseClass
  <2>1. \/ \E status \in {"ERROR", "NORMAL", "DATA_PIPELINE_SUSPECTED", "UNRESOLVED"} : job' = Answered(status)
        \/ /\ job.health = "HEALTHY"
           /\ job' = [job EXCEPT !.at = "lenses", !.results = <<>>, !.script = script,
                                 !.answer.current = current, !.answer.reference = baseline]
    BY <1>1, <1>6, <2>0
  <2>. QED  BY <1>2, <1>3, <1>4, <2>1
<1>. QED  BY <1>5, <1>6

LEMMA DriversKeep ==
    ASSUME AnalysisInv, AttributeDrivers
    PROVE  AnalysisInv'
<1>0. /\ JobInv /\ HealthInv /\ job.script = <<>> /\ UNCHANGED pipeline /\ job.at = "lenses"
  BY DEF AnalysisInv, AttributeDrivers
<1>1. ~job.early  BY <1>0 DEF HealthInv
<1>2. PICK lenses :
         job' = [Answered(IF AllComplete(lenses) THEN "BUSINESS_DRIVERS_IDENTIFIED" ELSE "PARTIAL")
                    EXCEPT !.answer.lenses = lenses]
  BY Zenon DEF AttributeDrivers
<1>3. PICK status \in Drivers : job' = [Answered(status) EXCEPT !.answer.lenses = lenses]
  BY <1>2 DEF Drivers
<1>4. job' = Job(job.mode, "done", job.overdue, job.todo, job.missing, job.health, job.script, <<>>,
                 job.early, AnswerOf(status, job.answer.current, job.answer.reference, lenses))
  BY <1>0, <1>3, AnsweredIs DEF Job, AnswerOf
<1>5. status \in Statuses \ {"NONE"}  BY DEF Drivers, Statuses
<1>. QED  BY <1>0, <1>1, <1>4, <1>5, AnswerKeeps

LEMMA FoundIs ==
    ASSUME JobInv, NEW current, NEW reference,
           job' = [Answered("COMPLETE") EXCEPT !.answer.current = current,
                                               !.answer.reference = reference]
    PROVE  job' = Job(job.mode, "done", job.overdue, job.todo, job.missing, job.health, job.script, <<>>,
                      job.early, AnswerOf("COMPLETE", current, reference, job.answer.lenses))
<1>1. PICK y : /\ y = Answered("COMPLETE")
               /\ job' = [y EXCEPT !.answer.current = current, !.answer.reference = reference]
  OBVIOUS
<1>2. y = Job(job.mode, "done", job.overdue, job.todo, job.missing, job.health, job.script, <<>>,
              job.early, AnswerOf("COMPLETE", job.answer.current, job.answer.reference,
                                job.answer.lenses))
  BY <1>1, AnsweredIs
<1>3. PICK a, b, lenses :
         /\ a = [b EXCEPT !.current = current, !.reference = reference]
         /\ b = y.answer /\ lenses = job.answer.lenses
  OBVIOUS
<1>4. b.status = "COMPLETE" /\ b.lenses = lenses
      /\ b = [status |-> b.status, current |-> b.current, reference |-> b.reference,
              lenses |-> b.lenses]
  BY <1>2, <1>3 DEF Job, AnswerOf
<1>5. a = AnswerOf("COMPLETE", current, reference, lenses)
  BY <1>3, <1>4 DEF AnswerOf
<1>6. job' = [y EXCEPT !.answer = a]
  BY <1>1, <1>2, <1>3 DEF Job
<1>. QED  BY <1>2, <1>3, <1>5, <1>6 DEF Job

(* The other analyses: a failure, or what was found.                       *)
LEMMA FoundKeeps ==
    ASSUME AnalysisInv, Compare \/ Breakdown \/ Contribute
    PROVE  AnalysisInv'
<1>0. /\ JobInv /\ HealthInv /\ job.script = <<>> /\ UNCHANGED pipeline
      /\ job.at \in {"compare", "breakdown", "totals"} /\ job.answer.status = "NONE"
  BY DEF AnalysisInv, Compare, Breakdown, Contribute, HealthInv
<1>1. /\ {"ERROR", "BLOCKED", "COMPLETE"} \subseteq Statuses \ {"NONE"}
      /\ {"ERROR", "BLOCKED", "COMPLETE"} \intersect Drivers = {}
      /\ ~AllComplete(job.results) => LastStatus \in Statuses \ {"NONE"} /\ LastStatus \notin Drivers
  BY <1>0, LastFailed DEF Statuses, Drivers, Failures
<1>2. ASSUME NEW status \in Statuses \ {"NONE"}, status \notin Drivers, job' = Answered(status)
      PROVE  AnalysisInv'
  BY <1>0, <1>2, AnsweredIs, AnswerKeeps
<1>3. ASSUME NEW status \in Statuses \ {"NONE"}, status \notin Drivers, NEW lenses,
             job' = [Answered(status) EXCEPT !.answer.lenses = lenses]
      PROVE  AnalysisInv'
  <2>1. job' = Job(job.mode, "done", job.overdue, job.todo, job.missing, job.health, job.script, <<>>,
                   job.early, AnswerOf(status, job.answer.current, job.answer.reference, lenses))
    BY <1>0, <1>3, AnsweredIs DEF Job, AnswerOf
  <2>. QED  BY <1>0, <1>3, <2>1, AnswerKeeps
<1>4. ASSUME NEW current, NEW reference,
             job' = [Answered("COMPLETE") EXCEPT !.answer.current = current,
                                                 !.answer.reference = reference]
      PROVE  AnalysisInv'
  <2>1. job' = Job(job.mode, "done", job.overdue, job.todo, job.missing, job.health, job.script, <<>>,
                   job.early, AnswerOf("COMPLETE", current, reference, job.answer.lenses))
    BY <1>0, <1>4, FoundIs
  <2>. QED  BY <1>0, <1>1, <2>1, AnswerKeeps
<1>5. CASE Compare
  <2>1. PICK current, reference :
           job' = CASE ~AllComplete(job.results) -> Answered(LastStatus)
                    [] AllComplete(job.results) /\ ~(HasValue(job.results[1]) /\ HasValue(job.results[2]))
                       -> Answered("ERROR")
                    [] OTHER -> [Answered("COMPLETE") EXCEPT !.answer.current = current,
                                                             !.answer.reference = reference]
    BY <1>5, Zenon DEF Compare
  <2>2. \/ ~AllComplete(job.results) /\ job' = Answered(LastStatus)
        \/ job' = Answered("ERROR")
        \/ job' = [Answered("COMPLETE") EXCEPT !.answer.current = current,
                                               !.answer.reference = reference]
    BY <2>1, Zenon
  <2>. QED  BY <1>1, <1>2, <1>4, <2>2
<1>6. CASE Breakdown
  <2>. DEFINE current   == job.results[1].rows
              reference == job.results[2].rows
              changes   == Changes(current, reference)
              ranked    == CASE job.mode = "TOP_ABSOLUTE_CHANGE" -> Ranked(changes, 1)
                             [] job.mode = "TOP_GROWTH_RATE" -> RankedByGrowth(changes, reference)
                             [] OTHER -> DOMAIN changes
              found     == <<LensResult("COMPLETE", changes, ranked)>>
              script    == <<Query(0, 0), Query(job.results[2].q.back, 0)>>
  <2>1. job' = IF ~AllComplete(job.results) THEN Answered(LastStatus)
               ELSE IF CapReached(current, reference) THEN Answered("BLOCKED")
               ELSE IF job.mode = "CONTRIBUTION"
               THEN [job EXCEPT !.at = "totals", !.results = <<>>, !.answer.lenses = found,
                                !.script = script]
               ELSE [Answered("COMPLETE") EXCEPT !.answer.lenses = found]
    BY <1>6, Zenon DEF Breakdown
  <2>. HIDE DEF current, reference, found, script
  <2>2. \/ ~AllComplete(job.results) /\ job' = Answered(LastStatus)
        \/ job' = Answered("BLOCKED")
        \/ job' = [job EXCEPT !.at = "totals", !.results = <<>>, !.answer.lenses = found,
                              !.script = script]
        \/ job' = [Answered("COMPLETE") EXCEPT !.answer.lenses = found]
    BY <2>1, Zenon
  <2>3. CASE job' = [job EXCEPT !.at = "totals", !.results = <<>>, !.answer.lenses = found,
                                !.script = script]
    <3>1. job' = Job(job.mode, "totals", job.overdue, job.todo, job.missing, job.health, script, <<>>,
                     job.early, AnswerOf(job.answer.status, job.answer.current, job.answer.reference,
                                       found))
      BY <1>0, <2>3, JobFields DEF Job, AnswerOf
    <3>. QED  BY <1>0, <3>1, OldValues, NoResults, NextJob
  <2>. QED  BY <1>1, <1>2, <1>3, <2>2, <2>3
<1>7. CASE Contribute
  <2>1. PICK current, reference :
           job' = IF ~AllComplete(job.results) THEN [Answered(LastStatus) EXCEPT !.answer.lenses = <<>>]
                  ELSE IF ~(HasValue(job.results[1]) /\ HasValue(job.results[2]))
                  THEN [Answered("ERROR") EXCEPT !.answer.lenses = <<>>]
                  ELSE IF Total(job.answer.lenses[1].changes) # current - reference
                  THEN [Answered("ERROR") EXCEPT !.answer.lenses = <<>>]
                  ELSE [Answered("COMPLETE") EXCEPT !.answer.current = current,
                                                    !.answer.reference = reference]
    BY <1>7, Zenon DEF Contribute
  <2>2. \/ ~AllComplete(job.results) /\ job' = [Answered(LastStatus) EXCEPT !.answer.lenses = <<>>]
        \/ job' = [Answered("ERROR") EXCEPT !.answer.lenses = <<>>]
        \/ job' = [Answered("COMPLETE") EXCEPT !.answer.current = current,
                                               !.answer.reference = reference]
    BY <2>1, Zenon
  <2>. QED  BY <1>1, <1>3, <1>4, <2>2
<1>. QED  BY <1>5, <1>6, <1>7

LEMMA AnalysisStepKeeps == AnalysisInv /\ [Next]_vars => AnalysisInv'
<1>. SUFFICES ASSUME AnalysisInv, [Next]_vars PROVE AnalysisInv'
  OBVIOUS
<1>1. CASE UNCHANGED vars
  BY <1>1 DEF vars, pipeline, AnalysisInv, TypeOK, JobInv, HealthInv, NoDriversOfIncompleteDays
<1>2. CASE Next
  BY <1>2, PipelineSteps, StartKeeps, HealthKeeps, PlansKeep, QueriesKeep, JudgeKeeps, DriversKeep,
     FoundKeeps DEF Next, AnalysisStep
<1>. QED  BY <1>1, <1>2

(* The inductive invariant of the analyses: health, completeness and what  *)
(* was read of the window go together while the pipeline writes on.        *)
THEOREM AnalysisInvariant == Spec => []AnalysisInv
  BY AnalysisInitially, AnalysisStepKeeps, PTL DEF Spec

(* Analyses and marts have the types their code gives them, and an answer  *)
(* has a status exactly when the analysis is done.                         *)
THEOREM AnalysisTypeCorrect == Spec => []TypeOK
<1>1. AnalysisInv => TypeOK  BY DEF AnalysisInv
<1>. QED  BY <1>1, AnalysisInvariant, PTL

(* Drivers are only named from a window whose days were complete before    *)
(* the first query read them, whatever is written or falls due meanwhile.  *)
THEOREM DriversComeFromCompleteDays == Spec => []NoDriversOfIncompleteDays
<1>1. AnalysisInv => NoDriversOfIncompleteDays  BY DEF AnalysisInv
<1>. QED  BY <1>1, AnalysisInvariant, PTL

-----------------------------------------------------------------------------
(* What the members of additive metrics contribute.                        *)
LEMMA SideTotal ==
    ASSUME NEW rows, IsTable(rows), NEW D, IsFiniteSet(D), DOMAIN rows \subseteq D,
           NEW side, side = [g \in D |-> Side(rows, g)]
    PROVE  /\ \A g \in D : side[g] \in Int
           /\ \A h : Sums(h, side, D) => h[D] = Total(rows)
<1>1. \A g \in D : side[g] \in Int
  BY DEF IsTable, Side
<1>2. ASSUME NEW h, Sums(h, side, D) PROVE h[D] = Total(rows)
  <2>1. PICK k : Sums(k, rows, DOMAIN rows) /\ Total(rows) = k[DOMAIN rows]
    <3>1. IsFiniteSet(DOMAIN rows)
      BY DEF IsTable
    <3>. QED  BY <3>1, TotalIsSum
  <2>. DEFINE Z == D \ DOMAIN rows
  <2>2. Z \in SUBSET D /\ D \ Z = DOMAIN rows /\ \A z \in Z : side[z] = 0
    BY DEF Side
  <2>. HIDE DEF Z
  <2>3. h[D] = h[D \ Z]
    BY <1>1, <1>2, <2>2, ZerosDoNotCount
  <2>4. h[D] = h[DOMAIN rows]
    BY <2>2, <2>3
  <2>5. DOMAIN rows \in SUBSET (D \intersect DOMAIN rows) /\ \A g \in DOMAIN rows : side[g] = rows[g]
    BY DEF Side
  <2>6. h[DOMAIN rows] = k[DOMAIN rows]
    BY <1>2, <2>1, <2>5, SumsAgree
  <2>. QED  BY <2>1, <2>4, <2>6
<1>. QED  BY <1>1, <1>2

(* The changes of the members add up to the change of the totals.          *)
LEMMA TotalOfChanges ==
    ASSUME job.additive, NEW current, IsTable(current), NEW reference, IsTable(reference)
    PROVE  Total(Changes(current, reference)) = Total(current) - Total(reference)
<1>. DEFINE D == DOMAIN current \union DOMAIN reference
<1>1. IsFiniteSet(D) /\ DOMAIN current \subseteq D /\ DOMAIN reference \subseteq D
  BY FS_Union DEF IsTable
<1>2. PICK a, b, c : /\ a = [g \in D |-> Side(current, g)] /\ b = [g \in D |-> Side(reference, g)]
                     /\ c = Changes(current, reference)
  OBVIOUS
<1>3. DOMAIN c = D /\ \A g \in D : c[g] = a[g] - b[g]
  BY <1>2 DEF Changes
<1>. HIDE DEF D
<1>4. /\ \A g \in D : a[g] \in Int
      /\ \A h : Sums(h, a, D) => h[D] = Total(current)
  BY <1>1, <1>2, SideTotal
<1>5. /\ \A g \in D : b[g] \in Int
      /\ \A h : Sums(h, b, D) => h[D] = Total(reference)
  BY <1>1, <1>2, SideTotal
<1>6. PICK ha : Sums(ha, a, D)
  BY <1>1, SumsExist
<1>7. PICK hb : Sums(hb, b, D)
  BY <1>1, SumsExist
<1>8. PICK hc : Sums(hc, c, DOMAIN c) /\ Total(c) = hc[DOMAIN c]
  BY <1>1, <1>3, TotalIsSum
<1>9. \A g \in D : a[g] \in Int /\ b[g] \in Int /\ c[g] = a[g] - b[g]
  BY <1>3, <1>4, <1>5
<1>10. Sums(hc, c, D) /\ Total(c) = hc[D]
  BY <1>3, <1>8
<1>11. hc[D] = ha[D] - hb[D]
  BY <1>1, <1>6, <1>7, <1>9, <1>10, SumsSubtract
<1>. QED  BY <1>2, <1>4, <1>5, <1>6, <1>7, <1>10, <1>11

(* The rows a query finds of an additive metric are a table.               *)
LEMMA RowsAreTables ==
    ASSUME TypeOK, job.additive, NEW q
    PROVE  IsTable(Rows(q))
<1>. DEFINE entries == {e \in (Window(q.back) \intersect 1..Days) \X Cells : e[2] \in DOMAIN mart[e[1]]}
            of(g) == {e \in entries : Member(q.lens, e[2]) = g}
            value(e) == mart[e[1]][e[2]]
            groups == {Member(q.lens, e[2]) : e \in entries}
<1>1. IsFiniteSet(entries)
  <2>1. IsFiniteSet(1..Days)
    BY FS_Interval, AnalysisConstants
  <2>2. IsFiniteSet((1..Days) \X Cells)
    BY <2>1, FS_Product, AnalysisAssumption
  <2>3. entries \subseteq (1..Days) \X Cells
    OBVIOUS
  <2>. QED  BY <2>2, <2>3, FS_Subset
<1>2. \A e \in entries : value(e) \in Int
  <2>. SUFFICES ASSUME NEW e \in entries PROVE value(e) \in Int
    OBVIOUS
  <2>1. e[1] \in 1..Days /\ e[2] \in DOMAIN mart[e[1]]
    OBVIOUS
  <2>2. mart[e[1]] \in Tables \union {<<>>}
    BY <2>1 DEF TypeOK
  <2>3. mart[e[1]] \in Tables
    BY <2>1, <2>2
  <2>. QED  BY <2>1, <2>3, AnalysisAssumption
<1>3. IsFiniteSet(groups)
  <2>. DEFINE member == [e \in entries |-> Member(q.lens, e[2])]
  <2>1. member \in Surjection(entries, groups)
    BY DEF Surjection
  <2>. QED  BY <1>1, <2>1, FS_Surjection
<1>4. ASSUME NEW g PROVE Total([e \in of(g) |-> value(e)]) \in Int
  <2>1. PICK f : f = [e \in of(g) |-> value(e)]
    OBVIOUS
  <2>2. DOMAIN f = of(g) /\ of(g) \subseteq entries /\ \A e \in DOMAIN f : f[e] \in Int
    BY <1>2, <2>1
  <2>. HIDE DEF of, entries, value
  <2>3. IsFiniteSet(DOMAIN f)
    BY <1>1, <2>2, FS_Subset
  <2>4. PICK h : Sums(h, f, DOMAIN f) /\ Total(f) = h[DOMAIN f]
    BY <2>3, TotalIsSum
  <2>5. \A s \in SUBSET DOMAIN f : h[s] \in Int
    BY <2>2, <2>3, <2>4, SumsAreNumbers
  <2>. QED  BY <2>1, <2>4, <2>5
<1>5. Rows(q) = [g \in groups |-> Total([e \in of(g) |-> value(e)])]
  BY DEF Rows
<1>. HIDE DEF groups, of, value
<1>. QED  BY <1>3, <1>4, <1>5 DEF IsTable

LEMMA ContributionInitially == Init => ContributionInv
  BY EmptySeq DEF Init, NoJob, NoAnswer, ContributionInv, ContributionsAddUp, IsSequence

(* An analysis that ends with the script run has to add up, no more.       *)
LEMMA Ended ==
    ASSUME job'.at = "done", job'.script = <<>>, ContributionsAddUp',
           job'.additive => \A i \in DOMAIN job'.results : IsTable(job'.results[i].rows)
    PROVE  ContributionInv'
  BY EmptySeq DEF ContributionInv, IsSequence

LEMMA EndedWithoutLenses ==
    ASSUME job'.at = "done", job'.script = <<>>, job'.results = <<>>, job'.answer.lenses = <<>>
    PROVE  ContributionInv'
<1>1. ContributionsAddUp'
  BY DEF ContributionsAddUp
<1>. QED  BY <1>1, Ended

LEMMA SequenceOf ==
    ASSUME NEW S, NEW s \in Seq(S)
    PROVE  IsSequence(s)
<1>1. PICK T : T = {s[i] : i \in DOMAIN s}
  OBVIOUS
<1>2. s \in [1..Len(s) -> T] /\ Len(s) \in Nat
  BY <1>1, LenProperties
<1>3. s \in Seq(T)
  BY <1>2
<1>. QED  BY <1>1, <1>3 DEF IsSequence

LEMMA StartsContribute ==
    ASSUME NEW kind, Start(kind)
    PROVE  ContributionInv'
<1>1. /\ job'.at = "idle" /\ job'.script = <<>> /\ job'.results = <<>> /\ job'.answer.lenses = <<>>
  BY DEF Start, NoJob, NoAnswer
<1>. QED  BY <1>1, EmptySeq DEF ContributionInv, ContributionsAddUp, IsSequence

LEMMA PlansContribute ==
    ASSUME AnalysisInv, ContributionInv,
           StartDiagnosis \/ InspectDay \/ PlanAnomaly \/ PlanComparison \/ PlanBreakdown
    PROVE  ContributionInv'
<1>0. /\ JobInv /\ HealthInv
      /\ job.additive => \A i \in DOMAIN job.results : IsTable(job.results[i].rows)
      /\ job.at \in {"idle", "health"} => job.answer.lenses = <<>> /\ job.script = <<>>
  BY DEF AnalysisInv, ContributionInv, HealthInv
<1>1. job.at \in {"idle", "health"}
  BY DEF StartDiagnosis, InspectDay, PlanAnomaly, PlanComparison, PlanBreakdown
<1>2. ASSUME job'.at \in {"health", "anomaly", "compare", "breakdown"}, IsSequence(job'.script),
             job'.results = job.results, job'.kind = job.kind,
             job'.additive = job.additive, job'.answer = job.answer,
             job'.at = "breakdown" => job.kind = "breakdown"
      PROVE  ContributionInv'
  BY <1>0, <1>1, <1>2 DEF ContributionInv, ContributionsAddUp
<1>3. CASE StartDiagnosis \/ InspectDay
  <2>1. /\ job'.at = "health" /\ job'.script = <<>> /\ job'.results = job.results
        /\ job'.kind = job.kind /\ job'.additive = job.additive /\ job'.answer = job.answer
    BY <1>0, <1>3, JobFields DEF Job, StartDiagnosis, InspectDay
  <2>. QED  BY <1>2, <2>1, EmptySeq DEF IsSequence
<1>4. CASE PlanAnomaly
  <2>1. PICK health, script :
           /\ script = [i \in 1..(Periods + 1) |-> Query(i - 1, 0)]
           /\ job' = [job EXCEPT !.at = "anomaly", !.todo = {}, !.missing = {}, !.health = health,
                                 !.script = script]
    BY <1>4 DEF PlanAnomaly
  <2>2. script \in Seq({script[i] : i \in 1..(Periods + 1)})
    BY <2>1, AnalysisConstants
  <2>3. /\ job'.at = "anomaly" /\ job'.script = script /\ job'.results = job.results
        /\ job'.kind = job.kind /\ job'.additive = job.additive /\ job'.answer = job.answer
    BY <1>0, <2>1, JobFields DEF Job
  <2>. QED  BY <1>2, <2>2, <2>3, SequenceOf
<1>5. ASSUME NEW a, NEW b, NEW script, script = <<a, b>>
      PROVE  IsSequence(script)
  <2>1. script \in Seq({a, b})
    BY <1>5
  <2>. QED  BY <2>1, SequenceOf
<1>6. CASE PlanComparison
  <2>1. PICK a, b, script : /\ script = <<a, b>>
                            /\ job' = [job EXCEPT !.at = "compare", !.script = script]
    BY <1>6 DEF PlanComparison
  <2>3. /\ job'.at = "compare" /\ job'.script = script /\ job'.results = job.results
        /\ job'.kind = job.kind /\ job'.additive = job.additive /\ job'.answer = job.answer
    BY <1>0, <2>1, JobFields DEF Job
  <2>4. IsSequence(script)
    BY <1>5, <2>1
  <2>. QED  BY <1>2, <2>3, <2>4
<1>7. CASE PlanBreakdown
  <2>0. job.kind = "breakdown" /\ job.at = "idle"
    BY <1>7 DEF PlanBreakdown
  <2>1. ASSUME NEW mode, NEW back, NEW lens,
               job' = [job EXCEPT !.mode = mode, !.at = "breakdown",
                                  !.script = <<Query(0, lens), Query(back, lens)>>]
        PROVE  ContributionInv'
    <3>1. PICK a, b, script : a = Query(0, lens) /\ b = Query(back, lens) /\ script = <<a, b>>
      OBVIOUS
    <3>2. job' = [job EXCEPT !.mode = mode, !.at = "breakdown", !.script = script]
      BY <2>1, <3>1
    <3>3. /\ job'.at = "breakdown" /\ job'.script = script /\ job'.results = job.results
          /\ job'.kind = job.kind /\ job'.additive = job.additive /\ job'.answer = job.answer
      BY <1>0, <3>2, JobFields DEF Job
    <3>4. IsSequence(script)
      BY <1>5, <3>1
    <3>. QED  BY <1>2, <2>0, <3>3, <3>4
  <2>2. ASSUME NEW mode, job' = [job EXCEPT !.mode = mode, !.at = "done",
                                            !.answer.status = "CLARIFICATION_REQUIRED"]
        PROVE  ContributionInv'
    <3>1. /\ job'.at = "done" /\ job'.script = job.script /\ job'.results = job.results
          /\ job'.additive = job.additive /\ job'.answer.lenses = job.answer.lenses
      BY <1>0, <2>2, JobFields DEF Job, AnswerOf
    <3>2. ContributionsAddUp'
      BY <1>0, <2>0, <3>1 DEF ContributionsAddUp
    <3>. QED  BY <1>0, <2>0, <3>1, <3>2, Ended
  <2>3. PICK mode \in Modes : \E back \in 1..MaxBack : \E lens \in DOMAIN Lenses :
           job' = IF mode = "CONTRIBUTION" /\ ~job.additive
                  THEN [job EXCEPT !.mode = mode, !.at = "done",
                                   !.answer.status = "CLARIFICATION_REQUIRED"]
                  ELSE [job EXCEPT !.mode = mode, !.at = "breakdown",
                                   !.script = <<Query(0, lens), Query(back, lens)>>]
    BY <1>7 DEF PlanBreakdown
  <2>4. PICK back, lens :
           job' = IF mode = "CONTRIBUTION" /\ ~job.additive
                  THEN [job EXCEPT !.mode = mode, !.at = "done",
                                   !.answer.status = "CLARIFICATION_REQUIRED"]
                  ELSE [job EXCEPT !.mode = mode, !.at = "breakdown",
                                   !.script = <<Query(0, lens), Query(back, lens)>>]
    BY <2>3
  <2>5. CASE mode = "CONTRIBUTION" /\ ~job.additive
    BY <2>2, <2>4, <2>5
  <2>6. CASE ~(mode = "CONTRIBUTION" /\ ~job.additive)
    BY <2>1, <2>4, <2>6
  <2>. QED  BY <2>5, <2>6
<1>. QED  BY <1>3, <1>4, <1>6, <1>7

(* The results with one more, the script with one query less, ...          *)
LEMMA Gathered ==
    ASSUME JobInv, NEW r, NEW gathered, gathered = Append(job.results, r)
    PROVE  /\ \A i \in DOMAIN gathered :
                 gathered[i] = r \/ (i \in DOMAIN job.results /\ gathered[i] = job.results[i])
           /\ \A i \in DOMAIN job.results : i \in DOMAIN gathered /\ gathered[i] = job.results[i]
           /\ \E i \in DOMAIN gathered : gathered[i] = r
<1>. DEFINE S == {job.results[i] : i \in DOMAIN job.results} \union {r}
<1>1. job.results \in Seq(S)
  <2>1. job.results \in Seq({job.results[i] : i \in DOMAIN job.results})  BY DEF JobInv, AreResults
  <2>. QED  BY <2>1, SeqMonotonic
<1>2. /\ DOMAIN gathered = 1..(Len(job.results) + 1) /\ DOMAIN job.results = 1..Len(job.results)
      /\ Len(job.results) \in Nat
      /\ \A i \in 1..Len(job.results) : gathered[i] = job.results[i]
      /\ gathered[Len(job.results) + 1] = r
  BY <1>1, AppendProperties, LenProperties
<1>. QED  BY <1>2

LEMMA QueryTaken ==
    ASSUME NEW script, IsSequence(script), script # <<>>,
           NEW rest, rest = Tail(script)
    PROVE  /\ IsSequence(rest)
           /\ \A i \in DOMAIN script : script[i] = Head(script) \/ \E j \in DOMAIN rest : rest[j] = script[i]
<1>1. PICK S : script \in Seq(S)
  BY DEF IsSequence
<1>2. /\ Len(script) \in Nat \ {0} /\ DOMAIN script = 1..Len(script) /\ Head(script) = script[1]
  BY <1>1, LenProperties, EmptySeq
<1>3. /\ rest \in Seq(S) /\ Len(rest) = Len(script) - 1
      /\ \A i \in 1..Len(rest) : rest[i] = script[i + 1]
  BY <1>1, HeadTailProperties
<1>4. DOMAIN rest = 1..Len(rest)
  BY <1>3, LenProperties
<1>5. ASSUME NEW i \in DOMAIN script, i # 1 PROVE \E j \in DOMAIN rest : rest[j] = script[i]
  <2>1. i - 1 \in DOMAIN rest /\ rest[i - 1] = script[(i - 1) + 1] /\ (i - 1) + 1 = i
    BY <1>2, <1>3, <1>4, <1>5
  <2>. QED  BY <2>1
<1>6. IsSequence(rest)
  BY <1>3, SequenceOf
<1>. QED  BY <1>2, <1>5, <1>6

(* ... or from the next lens on.                                           *)
LEMMA LensSkipped ==
    ASSUME IsSequence(job.script),
           NEW lens, NEW rest, rest = NextLens(lens)
    PROVE  /\ IsSequence(rest)
           /\ \A i \in DOMAIN job.script :
                 job.script[i].lens # lens => \E j \in DOMAIN rest : rest[j] = job.script[i]
<1>0. PICK S : job.script \in Seq(S)
  BY DEF IsSequence
<1>1. /\ Len(job.script) \in Nat /\ DOMAIN job.script = 1..Len(job.script)
      /\ \A i \in DOMAIN job.script : job.script[i] \in S
  BY <1>0, LenProperties, ElementOfSeq
<1>2. PICK others : others = {i \in DOMAIN job.script : job.script[i].lens # lens}
  OBVIOUS
<1>3. rest = IF others = {} THEN <<>> ELSE SubSeq(job.script, Min(others), Len(job.script))
  BY <1>2 DEF NextLens
<1>4. CASE others = {}
  BY <1>2, <1>3, <1>4, EmptySeq DEF IsSequence
<1>5. CASE others # {}
  <2>1. others \in SUBSET Nat
    BY <1>1, <1>2
  <2>2. \E n \in others : \A m \in others : n <= m
    BY <1>5, <2>1, LeastNumber
  <2>3. PICK first : first = Min(others)
    OBVIOUS
  <2>4. first \in others /\ \A m \in others : first <= m
    BY <2>2, <2>3 DEF Min
  <2>5. first \in 1..Len(job.script)
    BY <1>1, <1>2, <2>4
  <2>6. /\ rest \in Seq(S) /\ Len(rest) = Len(job.script) - first + 1
        /\ \A i \in 1..(Len(job.script) - first + 1) : rest[i] = job.script[first + i - 1]
    <3>1. rest = SubSeq(job.script, first, Len(job.script))
      BY <1>3, <1>5, <2>3
    <3>2. first \in Int /\ Len(job.script) \in Int /\ first <= Len(job.script)
          /\ \A i \in first..Len(job.script) : job.script[i] \in S
      BY <1>1, <2>5
    <3>. QED  BY <3>1, <3>2, SubSeqProperties
  <2>7. ASSUME NEW i \in DOMAIN job.script, job.script[i].lens # lens
        PROVE  \E j \in DOMAIN rest : rest[j] = job.script[i]
    <3>1. first <= i /\ i \in 1..Len(job.script)
      BY <1>1, <1>2, <2>4, <2>7
    <3>2. PICK j \in 1..(Len(job.script) - first + 1) : first + j - 1 = i
      <4>1. i - first + 1 \in 1..(Len(job.script) - first + 1) /\ first + (i - first + 1) - 1 = i
        BY <1>1, <2>5, <3>1
      <4>. QED  BY <4>1
    <3>3. DOMAIN rest = 1..(Len(job.script) - first + 1)
      BY <2>6, LenProperties
    <3>. QED  BY <2>6, <3>2, <3>3
  <2>8. IsSequence(rest)
    BY <2>6, SequenceOf
  <2>. QED  BY <2>7, <2>8
<1>. QED  BY <1>4, <1>5

LEMMA QueriesContribute ==
    ASSUME AnalysisInv, ContributionInv, RunQuery \/ QueryFails
    PROVE  ContributionInv'
<1>0. /\ JobInv /\ HealthInv /\ TypeOK /\ job.at # "done" /\ job.script # <<>>
      /\ IsSequence(job.script)
  BY DEF AnalysisInv, ContributionInv, HealthInv, RunQuery, QueryFails
<1>1. PICK q : q = Head(job.script)
  OBVIOUS
<1>2. ASSUME NEW r, r.q = q, job.additive => IsTable(r.rows), NEW script,
             IsSequence(script),
             \A i \in DOMAIN job.script :
                job.script[i].lens # q.lens => \E j \in DOMAIN script : script[j] = job.script[i],
             NEW gathered, gathered = Append(job.results, r),
             job'.script = script, job'.results = gathered, job'.at = job.at, job'.kind = job.kind,
             job'.additive = job.additive, job'.answer = job.answer
      PROVE  ContributionInv'
  <2>a. gathered = Append(job.results, r) /\ JobInv
    BY <1>0, <1>2
  <2>0. /\ \A i \in DOMAIN gathered :
              gathered[i] = r \/ (i \in DOMAIN job.results /\ gathered[i] = job.results[i])
        /\ \A i \in DOMAIN job.results : i \in DOMAIN gathered /\ gathered[i] = job.results[i]
        /\ \E i \in DOMAIN gathered : gathered[i] = r
    BY <2>a, Gathered
  <2>1. job'.additive => \A i \in DOMAIN job'.results : IsTable(job'.results[i].rows)
    BY <1>2, <2>0 DEF ContributionInv
  <2>2. job'.at = "lenses" => \A l \in DOMAIN Lenses :
           \/ \E i \in DOMAIN job'.script : job'.script[i].lens = l
           \/ \E i \in DOMAIN job'.results : job'.results[i].q.lens = l
    <3>. SUFFICES ASSUME job'.at = "lenses", NEW l \in DOMAIN Lenses
                  PROVE  \/ \E i \in DOMAIN script : script[i].lens = l
                         \/ \E i \in DOMAIN gathered : gathered[i].q.lens = l
      BY <1>2
    <3>1. CASE q.lens = l
      BY <1>2, <2>0, <3>1
    <3>2. CASE q.lens # l
      <4>1. \/ \E i \in DOMAIN job.script : job.script[i].lens = l
            \/ \E i \in DOMAIN job.results : job.results[i].q.lens = l
        BY <1>2 DEF ContributionInv
      <4>. QED  BY <1>2, <2>0, <3>2, <4>1
    <3>. QED  BY <3>1, <3>2
  <2>3. ContributionsAddUp'
    BY <1>0, <1>2 DEF ContributionsAddUp
  <2>. QED  BY <1>0, <1>2, <2>1, <2>2, <2>3 DEF ContributionInv
<1>3. CASE RunQuery
  <2>1. PICK r, script, early, gathered :
           /\ r = Result(q, "COMPLETE", Rows(q)) /\ script = Tail(job.script)
           /\ early = (job.early \/ (q.back = 0 /\ ~(Window(0) \subseteq complete)))
           /\ gathered = Append(job.results, r)
    OBVIOUS
  <2>2. job' = [job EXCEPT !.script = script, !.results = gathered, !.early = early]
    BY <1>1, <1>3, <2>1 DEF RunQuery
  <2>3. /\ job'.script = script /\ job'.results = gathered /\ job'.at = job.at /\ job'.kind = job.kind
        /\ job'.additive = job.additive /\ job'.answer = job.answer
    BY <1>0, <2>2, JobFields DEF Job
  <2>4. r.q = q /\ r.rows = Rows(q)
    BY <2>1 DEF Result
  <2>5. job.additive => IsTable(r.rows)
    BY <1>0, <2>4, RowsAreTables
  <2>6. /\ IsSequence(script)
        /\ \A i \in DOMAIN job.script :
              job.script[i] = q \/ \E j \in DOMAIN script : script[j] = job.script[i]
    <3>1. IsSequence(job.script) /\ job.script # <<>> /\ script = Tail(job.script)
      BY <1>0, <2>1
    <3>2. \A i \in DOMAIN job.script :
             job.script[i] = Head(job.script) \/ \E j \in DOMAIN script : script[j] = job.script[i]
      BY <3>1, QueryTaken
    <3>3. IsSequence(script)
      BY <3>1, QueryTaken
    <3>. QED  BY <1>1, <3>2, <3>3
  <2>7. \A i \in DOMAIN job.script :
           job.script[i].lens # q.lens => \E j \in DOMAIN script : script[j] = job.script[i]
    BY <2>6
  <2>. QED  BY <1>2, <2>1, <2>3, <2>4, <2>5, <2>6, <2>7
<1>4. CASE QueryFails
  <2>1. PICK status : job' = [job EXCEPT !.script = NextLens(q.lens),
                                         !.results = Append(@, Result(q, status, <<>>))]
    BY <1>1, <1>4, Zenon DEF QueryFails
  <2>2. PICK r, script, gathered :
           /\ r = Result(q, status, <<>>) /\ script = NextLens(q.lens)
           /\ gathered = Append(job.results, r)
    OBVIOUS
  <2>3. job' = [job EXCEPT !.script = script, !.results = gathered]
    BY <2>1, <2>2
  <2>4. /\ job'.script = script /\ job'.results = gathered /\ job'.at = job.at /\ job'.kind = job.kind
        /\ job'.additive = job.additive /\ job'.answer = job.answer
    BY <1>0, <2>3, JobFields DEF Job
  <2>5. r.q = q /\ r.rows = <<>>
    BY <2>2 DEF Result
  <2>6. IsTable(r.rows)
    BY <2>5, FS_EmptySet DEF IsTable
  <2>7. /\ IsSequence(script)
        /\ \A i \in DOMAIN job.script :
              job.script[i].lens # q.lens => \E j \in DOMAIN script : script[j] = job.script[i]
    BY <1>0, <2>2, LensSkipped
  <2>. QED  BY <1>2, <2>2, <2>4, <2>5, <2>6, <2>7
<1>. QED  BY <1>3, <1>4

(* The lenses are asked one after the other.                               *)
LEMMA LensesAsked ==
    ASSUME NEW reference, NEW script, script = LensScript(reference)
    PROVE  /\ IsSequence(script)
           /\ \A l \in DOMAIN Lenses : \E i \in DOMAIN script : script[i].lens = l
<1>1. DOMAIN Lenses = 1..Len(Lenses) /\ Len(Lenses) \in Nat
  BY AnalysisAssumption, LenProperties
<1>2. /\ DOMAIN script = 1..(2 * Len(Lenses))
      /\ \A i \in 1..(2 * Len(Lenses)) : script[i].lens = (i + 1) \div 2
  BY DEF LensScript, Query
<1>3. ASSUME NEW l \in DOMAIN Lenses PROVE \E i \in DOMAIN script : script[i].lens = l
  <2>1. 2 * l \in 1..(2 * Len(Lenses)) /\ (2 * l + 1) \div 2 = l
    BY <1>1
  <2>. QED  BY <1>2, <2>1
<1>4. script \in Seq({script[i] : i \in 1..(2 * Len(Lenses))})
  <2>1. PICK n \in Nat : n = 2 * Len(Lenses)
    BY <1>1
  <2>2. script = [i \in 1..n |-> script[i]]
    BY <2>1 DEF LensScript
  <2>. QED  BY <2>1, <2>2
<1>5. IsSequence(script)
  BY <1>4, SequenceOf
<1>. QED  BY <1>3, <1>5

LEMMA JudgeContributes ==
    ASSUME AnalysisInv, ContributionInv, JudgeAnomaly
    PROVE  ContributionInv'
<1>0. /\ JobInv /\ HealthInv /\ job.script = <<>> /\ job.at = "anomaly" /\ job.answer.lenses = <<>>
  BY DEF AnalysisInv, ContributionInv, JudgeAnomaly
<1>1. PICK current, baseline, cause, reference :
         job' = CASE ~AllComplete(job.results) -> Answered(LastStatus)
                  [] AllComplete(job.results) /\ \E i \in DOMAIN job.results : ~HasValue(job.results[i])
                     -> Answered("ERROR")
                  [] OTHER ->
                     CASE cause = "NO_ANOMALY" -> Answered("NORMAL")
                       [] cause = "BUSINESS_SIGNAL_SUSPECTED"
                          -> [job EXCEPT !.at = "lenses", !.results = <<>>,
                                         !.script = LensScript(reference),
                                         !.answer.current = current, !.answer.reference = baseline]
                       [] OTHER -> Answered(cause)
  BY Zenon DEF JudgeAnomaly
<1>2. ASSUME NEW status, job' = Answered(status) PROVE ContributionInv'
  <2>1. /\ job'.at = "done" /\ job'.script = <<>> /\ job'.results = <<>> /\ job'.answer.lenses = <<>>
    BY <1>0, <1>2, AnsweredIs DEF Job, AnswerOf
  <2>. QED  BY <2>1, EndedWithoutLenses
<1>3. CASE job' = [job EXCEPT !.at = "lenses", !.results = <<>>, !.script = LensScript(reference),
                              !.answer.current = current, !.answer.reference = baseline]
  <2>1. PICK script : script = LensScript(reference)
    OBVIOUS
  <2>2. /\ job'.at = "lenses" /\ job'.results = <<>> /\ job'.script = script
        /\ job'.answer.lenses = job.answer.lenses
    BY <1>0, <1>3, <2>1, JobFields DEF Job, AnswerOf
  <2>3. /\ IsSequence(script)
        /\ \A l \in DOMAIN Lenses : \E i \in DOMAIN script : script[i].lens = l
    BY <2>1, LensesAsked
  <2>. QED  BY <1>0, <2>2, <2>3 DEF ContributionInv, ContributionsAddUp
<1>4. \/ \E status : job' = Answered(status)
      \/ job' = [job EXCEPT !.at = "lenses", !.results = <<>>, !.script = LensScript(reference),
                            !.answer.current = current, !.answer.reference = baseline]
  BY <1>1, Zenon
<1>. QED  BY <1>2, <1>3, <1>4

(* A lens that is complete has been reconciled with the aggregates, ...    *)
LEMMA LensReconciled ==
    ASSUME AnalysisInv, ContributionInv, job.at = "lenses", job.script = <<>>, job.additive,
           NEW l \in DOMAIN Lenses, Complete(Lens(l))
    PROVE  Total(Lens(l).changes) = job.answer.current - job.answer.reference
<1>1. PICK mine : mine = {i \in DOMAIN job.results : job.results[i].q.lens = l}
  OBVIOUS
<1>2. mine # {}
  BY <1>1 DEF ContributionInv
<1>3. mine \in SUBSET (1..Len(job.results)) /\ Len(job.results) \in Nat
  <2>1. job.results \in Seq({job.results[i] : i \in DOMAIN job.results})
    BY DEF AnalysisInv, JobInv, AreResults
  <2>2. DOMAIN job.results = 1..Len(job.results) /\ Len(job.results) \in Nat
    BY <2>1, LenProperties
  <2>. QED  BY <1>1, <2>2
<1>4. Min(mine) \in mine
  <2>1. mine \in SUBSET Nat
    BY <1>3
  <2>2. \E n \in mine : \A m \in mine : n <= m
    BY <1>2, <2>1, LeastNumber
  <2>. QED  BY <2>2 DEF Min
<1>5. Max(mine) \in mine
  <2>1. \E n \in mine : \A m \in mine : n >= m
    BY <1>2, <1>3, Greatest
  <2>. QED  BY <2>1 DEF Max
<1>6. PICK last, current, reference :
         /\ last = job.results[Max(mine)] /\ current = job.results[Min(mine)].rows
         /\ reference = last.rows
  OBVIOUS
<1>7. IsTable(current) /\ IsTable(reference)
  BY <1>1, <1>4, <1>5, <1>6 DEF ContributionInv
<1>8. PICK ranked :
         Lens(l) = CASE ~Complete(last) -> LensFailed(last.status)
                     [] OTHER ->
                        IF CapReached(current, reference) \/ ~Reconciled(current, reference)
                           \/ ranked = {}
                        THEN LensFailed("ERROR")
                        ELSE LensResult("COMPLETE", Changes(current, reference), ranked)
  BY <1>1, <1>6, Zenon DEF Lens
<1>9. ~Complete(LensFailed("ERROR"))
  BY DEF Complete, LensFailed, LensResult
<1>10. ~Complete(last) => ~Complete(LensFailed(last.status))
  BY DEF Complete, LensFailed, LensResult
<1>11. /\ Lens(l) = LensResult("COMPLETE", Changes(current, reference), ranked)
       /\ Reconciled(current, reference)
  <2>1. CASE Complete(last)
    <3>1. Lens(l) = IF CapReached(current, reference) \/ ~Reconciled(current, reference)
                       \/ ranked = {}
                    THEN LensFailed("ERROR")
                    ELSE LensResult("COMPLETE", Changes(current, reference), ranked)
      BY <1>8, <2>1, Zenon
    <3>. QED  BY <1>9, <3>1, Zenon
  <2>2. CASE ~Complete(last)
    <3>1. Lens(l) = LensFailed(last.status)
      BY <1>8, <2>2, Zenon
    <3>. QED  BY <1>10, <2>2, <3>1
  <2>. QED  BY <2>1, <2>2
<1>12. Lens(l).changes = Changes(current, reference)
  BY <1>11 DEF LensResult
<1>13. Total(current) = job.answer.current /\ Total(reference) = job.answer.reference
  BY <1>11 DEF Reconciled
<1>. QED  BY <1>7, <1>12, <1>13, TotalOfChanges

LEMMA DriversContribute ==
    ASSUME AnalysisInv, ContributionInv, AttributeDrivers
    PROVE  ContributionInv'
<1>0. /\ JobInv /\ job.script = <<>> /\ job.at = "lenses"
  BY DEF AnalysisInv, AttributeDrivers
<1>1. PICK status, lenses :
         /\ lenses = [l \in DOMAIN Lenses |-> Lens(l)]
         /\ job' = [Answered(status) EXCEPT !.answer.lenses = lenses]
  BY Zenon DEF AttributeDrivers
<1>2. /\ job'.at = "done" /\ job'.script = <<>> /\ job'.results = <<>>
      /\ job'.additive = job.additive
      /\ job'.answer = AnswerOf(status, job.answer.current, job.answer.reference, lenses)
  BY <1>0, <1>1, AnsweredIs DEF Job, AnswerOf
<1>3. /\ job'.answer.current = job.answer.current /\ job'.answer.reference = job.answer.reference
      /\ job'.answer.lenses = lenses
  BY <1>2 DEF AnswerOf
<1>4. ASSUME job.additive, NEW l \in DOMAIN lenses, Complete(lenses[l])
      PROVE  Total(lenses[l].changes) = job.answer.current - job.answer.reference
  <2>1. l \in DOMAIN Lenses /\ lenses[l] = Lens(l)
    BY <1>1
  <2>. QED  BY <1>0, <1>4, <2>1, LensReconciled
<1>5. ContributionsAddUp'
  BY <1>2, <1>3, <1>4 DEF ContributionsAddUp
<1>. QED  BY <1>2, <1>5, Ended

(* ... and shares are only answered once they add up.                      *)
LEMMA ContributeContributes ==
    ASSUME AnalysisInv, ContributionInv, Contribute
    PROVE  ContributionInv'
<1>0. JobInv /\ job.script = <<>> /\ job.at = "totals" /\ DOMAIN job.answer.lenses = {1}
  BY DEF AnalysisInv, ContributionInv, Contribute
<1>1. PICK current, reference :
         job' = IF ~AllComplete(job.results) THEN [Answered(LastStatus) EXCEPT !.answer.lenses = <<>>]
                ELSE IF ~(HasValue(job.results[1]) /\ HasValue(job.results[2]))
                THEN [Answered("ERROR") EXCEPT !.answer.lenses = <<>>]
                ELSE IF Total(job.answer.lenses[1].changes) # current - reference
                THEN [Answered("ERROR") EXCEPT !.answer.lenses = <<>>]
                ELSE [Answered("COMPLETE") EXCEPT !.answer.current = current,
                                                  !.answer.reference = reference]
  BY Zenon DEF Contribute
<1>2. \/ \E status : job' = [Answered(status) EXCEPT !.answer.lenses = <<>>]
      \/ /\ Total(job.answer.lenses[1].changes) = current - reference
         /\ job' = [Answered("COMPLETE") EXCEPT !.answer.current = current,
                                                !.answer.reference = reference]
  BY <1>1, Zenon
<1>3. ASSUME NEW status, job' = [Answered(status) EXCEPT !.answer.lenses = <<>>]
      PROVE  ContributionInv'
  <2>1. /\ job'.at = "done" /\ job'.script = <<>> /\ job'.results = <<>> /\ job'.answer.lenses = <<>>
    BY <1>0, <1>3, AnsweredIs DEF Job, AnswerOf
  <2>. QED  BY <2>1, EndedWithoutLenses
<1>4. CASE /\ Total(job.answer.lenses[1].changes) = current - reference
           /\ job' = [Answered("COMPLETE") EXCEPT !.answer.current = current,
                                                  !.answer.reference = reference]
  <2>1. PICK lenses : lenses = job.answer.lenses
    OBVIOUS
  <2>2. job' = Job(job.mode, "done", job.overdue, job.todo, job.missing, job.health, job.script, <<>>,
                   job.early, AnswerOf("COMPLETE", current, reference, lenses))
    BY <1>0, <1>4, <2>1, FoundIs
  <2>3. /\ job'.at = "done" /\ job'.script = <<>> /\ job'.results = <<>>
        /\ job'.answer.lenses = lenses /\ job'.answer.current = current
        /\ job'.answer.reference = reference
    <3>1. job'.answer = AnswerOf("COMPLETE", current, reference, lenses)
      BY <2>2 DEF Job
    <3>. QED  BY <1>0, <2>2, <3>1 DEF Job, AnswerOf
  <2>4. ContributionsAddUp'
    BY <1>0, <1>4, <2>1, <2>3 DEF ContributionsAddUp
  <2>. QED  BY <2>3, <2>4, Ended
<1>. QED  BY <1>2, <1>3, <1>4

LEMMA OthersContribute ==
    ASSUME AnalysisInv, ContributionInv, Compare \/ Breakdown
    PROVE  ContributionInv'
<1>0. /\ JobInv /\ job.script = <<>> /\ job.at \in {"compare", "breakdown"}
      /\ job.answer.lenses = <<>>
  BY DEF AnalysisInv, ContributionInv, Compare, Breakdown
<1>1. ASSUME NEW status, job' = Answered(status) PROVE ContributionInv'
  <2>1. /\ job'.at = "done" /\ job'.script = <<>> /\ job'.results = <<>> /\ job'.answer.lenses = <<>>
    BY <1>0, <1>1, AnsweredIs DEF Job, AnswerOf
  <2>. QED  BY <2>1, EndedWithoutLenses
<1>2. CASE Compare
  <2>1. PICK current, reference :
           \/ \E status : job' = Answered(status)
           \/ job' = [Answered("COMPLETE") EXCEPT !.answer.current = current,
                                                  !.answer.reference = reference]
    <3>1. PICK current, reference :
             job' = CASE ~AllComplete(job.results) -> Answered(LastStatus)
                      [] AllComplete(job.results) /\ ~(HasValue(job.results[1]) /\ HasValue(job.results[2]))
                         -> Answered("ERROR")
                      [] OTHER -> [Answered("COMPLETE") EXCEPT !.answer.current = current,
                                                               !.answer.reference = reference]
      BY <1>2, Zenon DEF Compare
    <3>. QED  BY <3>1, Zenon
  <2>2. CASE job' = [Answered("COMPLETE") EXCEPT !.answer.current = current,
                                                 !.answer.reference = reference]
    <3>1. job' = Job(job.mode, "done", job.overdue, job.todo, job.missing, job.health, job.script, <<>>,
                     job.early, AnswerOf("COMPLETE", current, reference, job.answer.lenses))
      BY <1>0, <2>2, FoundIs
    <3>2. /\ job'.at = "done" /\ job'.script = <<>> /\ job'.results = <<>> /\ job'.answer.lenses = <<>>
      <4>1. job'.answer = AnswerOf("COMPLETE", current, reference, job.answer.lenses)
        BY <3>1 DEF Job
      <4>. QED  BY <1>0, <3>1, <4>1 DEF Job, AnswerOf
    <3>. QED  BY <3>2, EndedWithoutLenses
  <2>. QED  BY <1>1, <2>1, <2>2
<1>3. CASE Breakdown
  <2>1. PICK entry, a, b, found, script :
           /\ found = <<entry>> /\ script = <<a, b>>
           /\ job' = IF ~AllComplete(job.results) THEN Answered(LastStatus)
                     ELSE IF CapReached(job.results[1].rows, job.results[2].rows) THEN Answered("BLOCKED")
                     ELSE IF job.mode = "CONTRIBUTION"
                     THEN [job EXCEPT !.at = "totals", !.results = <<>>, !.answer.lenses = found,
                                      !.script = script]
                     ELSE [Answered("COMPLETE") EXCEPT !.answer.lenses = found]
    BY <1>3, Zenon DEF Breakdown
  <2>2. \/ \E status : job' = Answered(status)
        \/ job' = [job EXCEPT !.at = "totals", !.results = <<>>, !.answer.lenses = found,
                              !.script = script]
        \/ job.mode # "CONTRIBUTION" /\ job' = [Answered("COMPLETE") EXCEPT !.answer.lenses = found]
    BY <2>1, Zenon
  <2>3. CASE job' = [job EXCEPT !.at = "totals", !.results = <<>>, !.answer.lenses = found,
                                !.script = script]
    <3>1. /\ job'.at = "totals" /\ job'.results = <<>> /\ job'.script = script
          /\ job'.answer.lenses = found
      BY <1>0, <2>3, JobFields DEF Job, AnswerOf
    <3>2. script \in Seq({a, b})
      BY <2>1
    <3>3. IsSequence(script)
      BY <3>2, SequenceOf
    <3>4. DOMAIN found = {1}
      BY <2>1
    <3>. QED  BY <3>1, <3>3, <3>4 DEF ContributionInv, ContributionsAddUp
  <2>4. CASE job.mode # "CONTRIBUTION" /\ job' = [Answered("COMPLETE") EXCEPT !.answer.lenses = found]
    <3>1. /\ job'.at = "done" /\ job'.script = <<>> /\ job'.results = <<>>
          /\ job'.mode = job.mode /\ job'.kind = job.kind
      BY <1>0, <2>4, AnsweredIs DEF Job, AnswerOf
    <3>2. job.kind = "breakdown"
      BY <1>3 DEF ContributionInv, Breakdown
    <3>3. ContributionsAddUp'
      BY <2>4, <3>1, <3>2 DEF ContributionsAddUp
    <3>. QED  BY <3>1, <3>3, Ended
  <2>. QED  BY <1>1, <2>2, <2>3, <2>4
<1>. QED  BY <1>2, <1>3

LEMMA ContributionStep ==
    AnalysisInv /\ ContributionInv /\ [Next]_vars => ContributionInv'
<1>. SUFFICES ASSUME AnalysisInv, ContributionInv, [Next]_vars PROVE ContributionInv'
  OBVIOUS
<1>1. CASE UNCHANGED job
  BY <1>1 DEF ContributionInv, ContributionsAddUp
<1>2. CASE AnalysisStep
  BY <1>2, StartsContribute, PlansContribute, QueriesContribute, JudgeContributes, DriversContribute,
     ContributeContributes, OthersContribute DEF AnalysisStep
<1>3. UNCHANGED job \/ AnalysisStep
  BY DEF Next, vars, DeadlinePasses, CommitMart, AllMartsMaterialized
<1>. QED  BY <1>1, <1>2, <1>3

(* The inductive invariant of what the members contribute: every lens has  *)
(* its queries, and the rows of additive metrics can be summed.            *)
THEOREM ContributionInvariant == Spec => [](AnalysisInv /\ ContributionInv)
<1>1. Init => AnalysisInv /\ ContributionInv
  BY AnalysisInitially, ContributionInitially
<1>2. AnalysisInv /\ ContributionInv /\ [Next]_vars => (AnalysisInv /\ ContributionInv)'
  BY AnalysisStepKeeps, ContributionStep
<1>. QED  BY <1>1, <1>2, PTL DEF Spec

(* Whatever is written to the marts between the queries, the shares of an  *)
(* additive metric's members that are answered add up to the change that   *)
(* is answered: the queries are reconciled, not trusted.                   *)
THEOREM SharesAddUp == Spec => []ContributionsAddUp
<1>1. ContributionInv => ContributionsAddUp  BY DEF ContributionInv
<1>. QED  BY <1>1, ContributionInvariant, PTL

-----------------------------------------------------------------------------
(* TokenVerification.                                                      *)
VerificationInv == VerificationTypeOK /\ PublishedInv /\ AgesInv /\ GenuineInv

(* One less, but not less than nothing.                                    *)
LEMMA LessType ==
    ASSUME NEW bound \in Nat, NEW left \in 0..bound
    PROVE  Less(left) \in 0..bound /\ (left > 0 => Less(left) = left - 1)
  BY DEF Less

(* The constants, as the proofs below use them.                            *)
LEMMA Constants ==
    /\ Lifespan \in Nat /\ Timeout \in Nat /\ Cooldown \in Nat /\ MaxGeneration \in Nat
    /\ Horizon \in Nat /\ Horizon = Lifespan + Timeout + 1
    /\ 1 \in 1..MaxGeneration /\ 1..MaxGeneration \subseteq 0..MaxGeneration
  BY VerificationAssumption DEF Horizon

(* The published keys have one key of a kid.                               *)
LEMMA PublishedKeys == Published \subseteq Keys /\ OneKeyPerKid(Published)
<1>1. ASSUME NEW k \in Published, NEW l \in Published, k.kid = l.kid PROVE k = l
  BY <1>1 DEF Published, Keys
<1>. QED  BY <1>1 DEF Published, OneKeyPerKid

-----------------------------------------------------------------------------
(* Type correctness.                                                       *)
LEMMA TypeInit == VerificationInit => VerificationTypeOK
<1>. SUFFICES ASSUME VerificationInit PROVE VerificationTypeOK
  OBVIOUS
<1>1. Idle \in Verifications /\ Idle.at = "idle"
  BY Constants DEF Idle, NoToken, Verifications
<1>. QED
  BY <1>1, Constants, PublishedKeys, VerificationAssumption
  DEF VerificationInit, VerificationTypeOK, NoFetch

(* What a step makes of the verification of one thread.                    *)
Becomes(t, v) == verification' = [verification EXCEPT ![t] = v]

(* A step of one thread: its verification stays well typed, and it awaits  *)
(* a request exactly when it holds the lock.                               *)
LEMMA OneThread ==
    ASSUME VerificationTypeOK, NEW t \in Threads, NEW v \in Verifications, Becomes(t, v),
           \/ lock' = lock /\ fetch'.at = fetch.at
           \/ lock \in {t, "free"} /\ lock' = "free" /\ fetch'.at = "none"
           \/ lock \in {t, "free"} /\ lock' = t /\ fetch'.at \in {"sent", "served"},
           v.at \in {"fetching", "refreshing"} <=> lock' = t,
           UNCHANGED <<published, newest, retired, bare>>, cooldown' \in 0..Cooldown,
           cache' \in [keys : SUBSET Keys, left : 0..Lifespan],
           fetch' \in [at : {"none", "sent", "served"}, keys : SUBSET Keys, left : 0..Timeout]
    PROVE  VerificationTypeOK'
<1>1. /\ verification' \in [Threads -> Verifications] /\ verification'[t] = v
      /\ \A u \in Threads : u # t => verification'[u] = verification[u]
  BY DEF Becomes, VerificationTypeOK
<1>2. lock' \in Threads \union {"free"} /\ (lock' = "free" <=> fetch'.at = "none")
  BY VerificationAssumption DEF VerificationTypeOK
<1>3. ASSUME NEW u \in Threads
      PROVE  verification'[u].at \in {"fetching", "refreshing"} <=> lock' = u
  BY <1>1, VerificationAssumption DEF VerificationTypeOK
<1>. QED  BY <1>1, <1>2, <1>3 DEF VerificationTypeOK

(* A request, the end of one, and a cache that was filled.                 *)
LEMMA Fetches ==
    ASSUME VerificationTypeOK
    PROVE  LET Fetch == [at : {"none", "sent", "served"}, keys : SUBSET Keys, left : 0..Timeout] IN
           /\ Request => fetch' \in Fetch /\ fetch'.at = "sent"
           /\ fetch' = NoFetch => fetch' \in Fetch /\ fetch'.at = "none"
           /\ Fetched => cache' \in [keys : SUBSET Keys, left : 0..Lifespan]
           /\ cache' = Empty => cache' \in [keys : SUBSET Keys, left : 0..Lifespan]
  BY Constants DEF Request, NoFetch, Fetched, Empty, VerificationTypeOK

(* The verifications that the actions write.                               *)
LEMMA VerificationsWritten ==
    ASSUME NEW v \in Verifications, NEW k \in Keys, NEW g \in BOOLEAN, NEW h \in 0..Horizon,
           NEW at \in {"idle", "resolve", "fetching", "decode", "invalid", "refreshing",
                       "accepted", "refused"}
    PROVE  /\ [v EXCEPT !.at = at] \in Verifications
           /\ [v EXCEPT !.at = at, !.key = k.generation, !.aged = h] \in Verifications
           /\ [v EXCEPT !.at = at, !.asked = g] \in Verifications
           /\ [v EXCEPT !.asked = g] \in Verifications
           /\ [v EXCEPT !.at = at, !.failed = g] \in Verifications
           /\ [v EXCEPT !.at = at, !.cooled = g] \in Verifications
           /\ [v EXCEPT !.at = at, !.again = g, !.asked = FALSE] \in Verifications
           /\ [v EXCEPT !.genuine = g] \in Verifications
           /\ [v EXCEPT !.at = at, !.bare = h] \in Verifications
<1>1. k.generation \in 0..MaxGeneration  BY Constants DEF Keys
<1>2. [v EXCEPT !.at = at] \in Verifications  BY DEF Verifications
<1>3. [v EXCEPT !.at = at, !.key = k.generation, !.aged = h] \in Verifications
  BY <1>1 DEF Verifications
<1>4. [v EXCEPT !.at = at, !.asked = g] \in Verifications  BY DEF Verifications
<1>5. [v EXCEPT !.asked = g] \in Verifications  BY DEF Verifications
<1>6. [v EXCEPT !.at = at, !.failed = g] \in Verifications  BY DEF Verifications
<1>7. [v EXCEPT !.at = at, !.cooled = g] \in Verifications  BY DEF Verifications
<1>8. [v EXCEPT !.at = at, !.again = g, !.asked = FALSE] \in Verifications  BY DEF Verifications
<1>9. [v EXCEPT !.genuine = g] \in Verifications  BY DEF Verifications
<1>10. [v EXCEPT !.at = at, !.bare = h] \in Verifications  BY DEF Verifications
<1>. QED  BY <1>2, <1>3, <1>4, <1>5, <1>6, <1>7, <1>8, <1>9, <1>10

LEMMA VerificationsStarted ==
    ASSUME NEW k \in Keys, NEW g \in BOOLEAN
    PROVE  [Idle EXCEPT !.at = "resolve", !.token = k, !.genuine = g] \in Verifications
<1>1. NoToken \in {NoToken} /\ 0 \in 0..MaxGeneration /\ {0, Horizon} \subseteq 0..Horizon
  BY Constants
<1>. QED  BY <1>1 DEF Verifications, Idle

(* What each action of a thread makes of its verification.                 *)
LEMMA ThreadSteps ==
    ASSUME VerificationTypeOK, NEW t \in Threads
    PROVE  LET v == verification[t] IN
           /\ Verify(t) => \E k \in Keys, g \in BOOLEAN :
                 /\ g => k \in Published
                 /\ Becomes(t, [Idle EXCEPT !.at = "resolve", !.token = k, !.genuine = g])
           /\ ResolveFromCache(t) => \E k \in Cached(v.token.kid) :
                 Becomes(t, [v EXCEPT !.at = "decode", !.key = k.generation, !.aged = retired[k]])
           /\ ResolveFromEmpty(t) => Becomes(t, [v EXCEPT !.at = "refused", !.bare = bare])
           /\ ResolveByFetch(t) => \E g \in BOOLEAN :
                 Becomes(t, [v EXCEPT !.at = "fetching", !.asked = g])
           /\ Receive(t) =>
                 \/ /\ lock' = "free" /\ fetch' = NoFetch
                    /\ \E k \in fetch.keys : k.kid = v.token.kid /\
                          Becomes(t, [v EXCEPT !.at = "decode", !.key = k.generation, !.aged = retired[k]])
                 \/ Request /\ lock' = lock /\ Becomes(t, [v EXCEPT !.asked = TRUE])
                 \/ /\ \A k \in fetch.keys : k.kid # v.token.kid
                    /\ lock' = "free" /\ fetch' = NoFetch
                    /\ Becomes(t, [v EXCEPT !.at = "refused"])
           /\ FetchFails(t) => Becomes(t, [v EXCEPT !.at = "refused", !.failed = TRUE])
           /\ Decode(t) => \E at \in {"accepted", "refused", "invalid"} :
                 Becomes(t, [v EXCEPT !.at = at])
           /\ RefreshCooling(t) => Becomes(t, [v EXCEPT !.at = "refused", !.cooled = TRUE])
           /\ Refresh(t) => Becomes(t, [v EXCEPT !.at = "refreshing"])
           /\ Refreshed(t) =>
                 \/ Becomes(t, [v EXCEPT !.at = "resolve", !.again = TRUE, !.asked = FALSE])
                 \/ fetch.keys = {} /\ Becomes(t, [v EXCEPT !.at = "refused"])
<1>. DEFINE v == verification[t]
<1>. USE DEF VerificationTypeOK, Becomes
<1>1. ASSUME Verify(t)
      PROVE  \E k \in Keys, g \in BOOLEAN :
                /\ g => k \in Published
                /\ Becomes(t, [Idle EXCEPT !.at = "resolve", !.token = k, !.genuine = g])
  <2>1. PICK k \in Keys :
           Becomes(t, [Idle EXCEPT !.at = "resolve", !.token = k, !.genuine = k \in Published])
    BY <1>1 DEF Verify
  <2>2. CASE k \in Published
    <3>1. (k \in Published) = TRUE  BY <2>2
    <3>. QED  BY <2>1, <2>2, <3>1
  <2>3. CASE k \notin Published
    <3>1. (k \in Published) = FALSE  BY <2>3
    <3>. QED  BY <2>1, <3>1
  <2>. QED  BY <2>2, <2>3
<1>2. ASSUME ResolveFromCache(t)
      PROVE  \E k \in Cached(v.token.kid) :
                Becomes(t, [v EXCEPT !.at = "decode", !.key = k.generation, !.aged = retired[k]])
  BY <1>2 DEF ResolveFromCache, Found
<1>3. ASSUME ResolveByFetch(t)
      PROVE  \E g \in BOOLEAN : Becomes(t, [v EXCEPT !.at = "fetching", !.asked = g])
  <2>1. Becomes(t, [v EXCEPT !.at = "fetching", !.asked = Alive])  BY <1>3 DEF ResolveByFetch
  <2>2. PICK g : g = Alive  OBVIOUS
  <2>3. g \in BOOLEAN  BY <2>2 DEF Alive
  <2>. QED  BY <2>1, <2>2, <2>3
<1>4. ASSUME Receive(t)
      PROVE  \/ /\ lock' = "free" /\ fetch' = NoFetch
                /\ \E k \in fetch.keys : k.kid = v.token.kid /\
                      Becomes(t, [v EXCEPT !.at = "decode", !.key = k.generation, !.aged = retired[k]])
             \/ Request /\ lock' = lock /\ Becomes(t, [v EXCEPT !.asked = TRUE])
             \/ /\ \A k \in fetch.keys : k.kid # v.token.kid
                /\ lock' = "free" /\ fetch' = NoFetch
                /\ Becomes(t, [v EXCEPT !.at = "refused"])
  BY <1>4 DEF Receive
<1>5. FetchFails(t) => Becomes(t, [v EXCEPT !.at = "refused", !.failed = TRUE])
  BY DEF FetchFails
<1>6. Decode(t) => \E at \in {"accepted", "refused", "invalid"} : Becomes(t, [v EXCEPT !.at = at])
  BY DEF Decode
<1>7. RefreshCooling(t) => Becomes(t, [v EXCEPT !.at = "refused", !.cooled = TRUE])
  BY DEF RefreshCooling
<1>8. Refresh(t) => Becomes(t, [v EXCEPT !.at = "refreshing"])
  BY DEF Refresh
<1>9. Refreshed(t) =>
         \/ Becomes(t, [v EXCEPT !.at = "resolve", !.again = TRUE, !.asked = FALSE])
         \/ fetch.keys = {} /\ Becomes(t, [v EXCEPT !.at = "refused"])
  BY DEF Refreshed
<1>10. ResolveFromEmpty(t) => Becomes(t, [v EXCEPT !.at = "refused", !.bare = bare])
  BY DEF ResolveFromEmpty
<1>. QED  BY <1>1, <1>2, <1>3, <1>4, <1>5, <1>6, <1>7, <1>8, <1>9, <1>10

LEMMA TypeStep ==
    ASSUME VerificationTypeOK, [VerificationNext]_verificationVars
    PROVE  VerificationTypeOK'
<1>. USE Constants, VerificationAssumption DEF VerificationTypeOK
<1>0. CASE UNCHANGED verificationVars
  BY <1>0 DEF verificationVars
<1>1. CASE Serve
  BY <1>1, PublishedKeys DEF Serve
<1>2. CASE Provider
  <2>1. published' \in [Kids -> 0..MaxGeneration] /\ newest' \in [Kids -> 1..MaxGeneration]
    BY <1>2 DEF Provider, Rotate, Retire
  <2>2. \A t \in Threads : \E g \in BOOLEAN :
           verification'[t] = [verification[t] EXCEPT !.genuine = g]
    BY <1>2 DEF Provider
  <2>3. ASSUME NEW t \in Threads
        PROVE  verification'[t] \in Verifications /\ verification'[t].at = verification[t].at
    <3>1. PICK g \in BOOLEAN : verification'[t] = [verification[t] EXCEPT !.genuine = g]
      BY <2>2
    <3>2. verification[t] \in Verifications  OBVIOUS
    <3>3. verification'[t] \in Verifications  BY <3>1, <3>2 DEF Verifications
    <3>. QED  BY <3>1, <3>2, <3>3 DEF Verifications
  <2>4. verification' \in [Threads -> Verifications]
    BY <1>2, <2>3 DEF Provider
  <2>5. bare' \in 0..Horizon  BY <1>2 DEF Provider
  <2>. QED  BY <1>2, <2>1, <2>3, <2>4, <2>5 DEF Provider
<1>3. CASE Tick
  <2>1. fetch'.left \in 0..Timeout /\ cache'.left \in 0..Lifespan /\ cooldown' \in 0..Cooldown
    BY <1>3, LessType DEF Tick
  <2>2. retired' \in [Keys -> 0..Horizon]
    <3>1. ASSUME NEW k \in Keys PROVE retired'[k] \in 0..Horizon
      <4>1. retired[k] \in 0..Horizon  OBVIOUS
      <4>. QED  BY <1>3, <4>1 DEF Tick
    <3>. QED  BY <1>3, <3>1 DEF Tick
  <2>3. bare' \in 0..Horizon  BY <1>3 DEF Tick
  <2>. QED  BY <1>3, <2>1, <2>2, <2>3 DEF Tick
<1>4. ASSUME NEW t \in Threads,
             \/ Verify(t) \/ ResolveFromCache(t) \/ ResolveFromEmpty(t) \/ ResolveByFetch(t)
             \/ Receive(t) \/ FetchFails(t) \/ Decode(t) \/ RefreshCooling(t) \/ Refresh(t) \/ Refreshed(t)
      PROVE  VerificationTypeOK'
  <2>. DEFINE v == verification[t]
  <2>0. v \in Verifications /\ (v.at \in {"fetching", "refreshing"} <=> lock = t)
    OBVIOUS
  <2>1. CASE Verify(t)
    <3>1. PICK k \in Keys, g \in BOOLEAN :
             Becomes(t, [Idle EXCEPT !.at = "resolve", !.token = k, !.genuine = g])
      BY <2>1, ThreadSteps
    <3>2. PICK y : y = [Idle EXCEPT !.at = "resolve", !.token = k, !.genuine = g]  OBVIOUS
    <3>3. y.at = "resolve"  BY <3>2 DEF Idle
    <3>4. y \in Verifications  BY <3>2, VerificationsStarted
    <3>. QED  BY <2>0, <2>1, <3>1, <3>2, <3>3, <3>4, OneThread DEF Verify
  <2>2. CASE ResolveFromCache(t)
    <3>1. PICK k \in Cached(v.token.kid) :
             Becomes(t, [v EXCEPT !.at = "decode", !.key = k.generation, !.aged = retired[k]])
      BY <2>2, ThreadSteps
    <3>2. k \in Keys /\ retired[k] \in 0..Horizon  BY DEF Cached
    <3>3. PICK y : y = [v EXCEPT !.at = "decode", !.key = k.generation, !.aged = retired[k]]  OBVIOUS
    <3>4. y \in Verifications  BY <3>2, <3>3, <2>0, VerificationsWritten
    <3>5. y.at = "decode"  BY <3>3, <2>0 DEF Verifications
    <3>. QED  BY <2>0, <2>2, <3>1, <3>3, <3>4, <3>5, OneThread DEF ResolveFromCache
  <2>3. CASE ResolveByFetch(t)
    <3>1. PICK g \in BOOLEAN : Becomes(t, [v EXCEPT !.at = "fetching", !.asked = g])
      BY <2>3, ThreadSteps
    <3>2. PICK y : y = [v EXCEPT !.at = "fetching", !.asked = g]  OBVIOUS
    <3>3. y \in Verifications /\ y.at = "fetching"  BY <3>2, <2>0 DEF Verifications
    <3>4. lock = "free" /\ lock' = t /\ Request /\ UNCHANGED <<published, newest, retired, bare, cache, cooldown>>
      BY <2>3 DEF ResolveByFetch, Acquire
    <3>. QED  BY <2>0, <3>1, <3>2, <3>3, <3>4, Fetches, OneThread
  <2>4. CASE Receive(t)
    <3>0. /\ lock = t /\ v.at = "fetching" /\ UNCHANGED <<published, newest, retired, bare, cooldown>>
          /\ Fetched
      BY <2>4 DEF Receive
    <3>1. CASE /\ lock' = "free" /\ fetch' = NoFetch
               /\ \E k \in fetch.keys : k.kid = v.token.kid /\
                     Becomes(t, [v EXCEPT !.at = "decode", !.key = k.generation, !.aged = retired[k]])
      <4>1. PICK k \in fetch.keys :
               Becomes(t, [v EXCEPT !.at = "decode", !.key = k.generation, !.aged = retired[k]])
        BY <3>1
      <4>2. k \in Keys /\ retired[k] \in 0..Horizon  OBVIOUS
      <4>3. PICK y : y = [v EXCEPT !.at = "decode", !.key = k.generation, !.aged = retired[k]]
        OBVIOUS
      <4>4. y \in Verifications  BY <4>2, <4>3, <2>0, VerificationsWritten
      <4>5. y.at = "decode"  BY <4>3, <2>0 DEF Verifications
      <4>. QED  BY <2>0, <3>0, <3>1, <4>1, <4>3, <4>4, <4>5, Fetches, OneThread
    <3>2. CASE Request /\ lock' = lock /\ Becomes(t, [v EXCEPT !.asked = TRUE])
      <4>1. PICK y : y = [v EXCEPT !.asked = TRUE]  OBVIOUS
      <4>2. y \in Verifications /\ y.at = v.at  BY <4>1, <2>0 DEF Verifications
      <4>. QED  BY <2>0, <3>0, <3>2, <4>1, <4>2, Fetches, OneThread
    <3>3. CASE lock' = "free" /\ fetch' = NoFetch /\ Becomes(t, [v EXCEPT !.at = "refused"])
      <4>1. PICK y : y = [v EXCEPT !.at = "refused"]  OBVIOUS
      <4>2. y \in Verifications /\ y.at = "refused"  BY <4>1, <2>0 DEF Verifications
      <4>. QED  BY <2>0, <3>0, <3>3, <4>1, <4>2, Fetches, OneThread
    <3>. QED  BY <2>4, <3>1, <3>2, <3>3, ThreadSteps
  <2>5. CASE FetchFails(t)
    <3>1. PICK y : y = [v EXCEPT !.at = "refused", !.failed = TRUE]  OBVIOUS
    <3>2. y \in Verifications /\ y.at = "refused"  BY <3>1, <2>0 DEF Verifications
    <3>3. Becomes(t, y)  BY <3>1, <2>5, ThreadSteps
    <3>. QED  BY <2>0, <2>5, <3>2, <3>3, OneThread DEF FetchFails, NoFetch, Empty
  <2>6. CASE Decode(t)
    <3>1. PICK at \in {"accepted", "refused", "invalid"} : Becomes(t, [v EXCEPT !.at = at])
      BY <2>6, ThreadSteps
    <3>2. PICK y : y = [v EXCEPT !.at = at]  OBVIOUS
    <3>3. y \in Verifications /\ y.at = at  BY <3>2, <2>0 DEF Verifications
    <3>. QED  BY <2>0, <2>6, <3>1, <3>2, <3>3, OneThread DEF Decode
  <2>7. CASE RefreshCooling(t)
    <3>1. PICK y : y = [v EXCEPT !.at = "refused", !.cooled = TRUE]  OBVIOUS
    <3>2. y \in Verifications /\ y.at = "refused"  BY <3>1, <2>0 DEF Verifications
    <3>3. Becomes(t, y)  BY <3>1, <2>7, ThreadSteps
    <3>. QED  BY <2>0, <2>7, <3>2, <3>3, OneThread DEF RefreshCooling
  <2>8. CASE Refresh(t)
    <3>1. PICK y : y = [v EXCEPT !.at = "refreshing"]  OBVIOUS
    <3>2. y \in Verifications /\ y.at = "refreshing"  BY <3>1, <2>0 DEF Verifications
    <3>3. Becomes(t, y)  BY <3>1, <2>8, ThreadSteps
    <3>. QED  BY <2>0, <2>8, <3>2, <3>3, OneThread DEF Refresh, Acquire, Request
  <2>9. CASE Refreshed(t)
    <3>1. PICK y : /\ y \in {[v EXCEPT !.at = "resolve", !.again = TRUE, !.asked = FALSE],
                             [v EXCEPT !.at = "refused"]}
                   /\ Becomes(t, y)
      BY <2>9, ThreadSteps
    <3>2. y \in Verifications /\ y.at \in {"resolve", "refused"}  BY <3>1, <2>0 DEF Verifications
    <3>4. cooldown' \in 0..Cooldown /\ cache' \in [keys : SUBSET Keys, left : 0..Lifespan]
      BY <2>9 DEF Refreshed, Fetched, Cooled
    <3>. QED  BY <2>0, <2>9, <3>1, <3>2, <3>4, OneThread DEF Refreshed, NoFetch
  <2>10. CASE ResolveFromEmpty(t)
    <3>1. PICK y : y = [v EXCEPT !.at = "refused", !.bare = bare]  OBVIOUS
    <3>2. y \in Verifications /\ y.at = "refused"  BY <3>1, <2>0 DEF Verifications
    <3>3. Becomes(t, y)  BY <3>1, <2>10, ThreadSteps
    <3>. QED  BY <2>0, <2>10, <3>2, <3>3, OneThread DEF ResolveFromEmpty
  <2>. QED  BY <1>4, <2>1, <2>2, <2>3, <2>4, <2>5, <2>6, <2>7, <2>8, <2>9, <2>10
<1>. QED  BY <1>0, <1>1, <1>2, <1>3, <1>4 DEF VerificationNext

-----------------------------------------------------------------------------
(* What the provider publishes, and for how long it has not.               *)
LEMMA PublishedStep ==
    ASSUME VerificationTypeOK, PublishedInv, [VerificationNext]_verificationVars
    PROVE  PublishedInv'
<1>. USE Constants DEF VerificationTypeOK, PublishedInv
<1>1. CASE Provider
  <2>0. PICK kid \in Kids : Rotate(kid) \/ Retire(kid)  BY <1>1 DEF Provider
  <2>1. \A other \in Kids : /\ published'[other] \in {0, newest'[other]}
                            /\ published'[other] \in {0, published[other]} \/ published'[other] > newest[other]
                            /\ newest'[other] >= newest[other]
    BY <2>0 DEF Rotate, Retire
  <2>2. ASSUME NEW k \in Keys, k \in Published' \/ k.generation > newest'[k.kid]
        PROVE  retired'[k] = 0
    <3>1. k.kid \in Kids /\ k.generation \in 1..MaxGeneration  BY DEF Keys
    <3>2. /\ published'[k.kid] \in {0, published[k.kid]} \/ published'[k.kid] > newest[k.kid]
          /\ newest'[k.kid] >= newest[k.kid]
          /\ newest[k.kid] \in Nat /\ newest'[k.kid] \in Nat /\ published'[k.kid] \in Nat
      BY <2>1, <3>1, TypeStep
    <3>3. ASSUME k \in Published' PROVE k \in Published \/ k.generation > newest[k.kid]
      <4>1. published'[k.kid] = k.generation  BY <3>3 DEF Published
      <4>. QED  BY <3>1, <3>2, <4>1 DEF Published
    <3>4. ASSUME k.generation > newest'[k.kid] PROVE k.generation > newest[k.kid]
      BY <3>1, <3>2, <3>4
    <3>5. k \in Published \/ k.generation > newest[k.kid]  BY <2>2, <3>3, <3>4
    <3>. QED  BY <1>1, <3>5 DEF Provider
  <2>3. \A k \in Kids : published'[k] \in {0, newest'[k]}  BY <2>1
  <2>4. Published' = {} => bare' = 0  BY <1>1 DEF Provider
  <2>. QED  BY <2>2, <2>3, <2>4
<1>2. CASE Tick
  <2>1. ASSUME NEW k \in Keys, k \in Published \/ k.generation > newest[k.kid]
        PROVE  retired'[k] = 0
    BY <1>2, <2>1 DEF Tick
  <2>2. Published' = Published  BY <1>2 DEF Tick, Published
  <2>3. Published = {} => bare' = 0  BY <1>2 DEF Tick
  <2>. QED  BY <1>2, <2>1, <2>2, <2>3 DEF Tick
<1>3. CASE UNCHANGED <<published, newest, retired, bare>>
  BY <1>3 DEF Published
<1>. QED
  BY <1>1, <1>2, <1>3 DEF VerificationNext, verificationVars, Serve, Verify, ResolveFromCache,
     ResolveFromEmpty, ResolveByFetch, Receive, FetchFails, Decode, RefreshCooling, Refresh, Refreshed

(* The ages of the keys that a request brought and that are cached.        *)
LEMMA AgesStep ==
    ASSUME VerificationTypeOK, PublishedInv, AgesInv, [VerificationNext]_verificationVars
    PROVE  AgesInv'
<1>. USE Constants DEF VerificationTypeOK, AgesInv
<1>0. ASSUME UNCHANGED <<retired, bare, fetch, cache, verification>> PROVE AgesInv'
  BY <1>0 DEF OneKeyPerKid, Alive
<1>1. CASE Serve
  <2>1. \A k \in Published : retired[k] = 0  BY DEF PublishedInv, Published
  <2>2. Published = {} => bare = 0  BY DEF PublishedInv
  <2>. QED  BY <1>1, <2>1, <2>2, PublishedKeys DEF Serve, OneKeyPerKid, Alive
<1>2. CASE Provider
  <2>1. \A t \in Threads : verification'[t].aged = verification[t].aged
    BY <1>2 DEF Provider, Verifications
  <2>2. bare' \in {0, bare}  BY <1>2 DEF Provider
  <2>3. UNCHANGED <<retired, cache, fetch>>  BY <1>2 DEF Provider
  <2>4. fetch.at = "served" /\ fetch.keys = {} => bare' + fetch.left <= Timeout
    BY <2>2
  <2>5. Alive /\ cache.keys = {} => bare' + cache.left <= Lifespan + Timeout
    BY <2>2
  <2>. QED  BY <2>1, <2>3, <2>4, <2>5 DEF OneKeyPerKid, Alive
<1>3. CASE Tick
  <2>1. \A k \in Keys : retired'[k] \in Nat /\ retired[k] \in Nat /\ retired'[k] <= retired[k] + 1
    BY <1>3 DEF Tick
  <2>2. /\ fetch'.at = fetch.at /\ fetch'.keys = fetch.keys /\ cache'.keys = cache.keys
        /\ fetch'.left = Less(fetch.left) /\ cache'.left = Less(cache.left)
        /\ fetch.at # "none" => fetch.left > 0
    BY <1>3 DEF Tick
  <2>3. fetch.left \in 0..Timeout /\ cache.left \in 0..Lifespan
    OBVIOUS
  <2>4. fetch'.at = "served" => \A k \in fetch'.keys : retired'[k] + fetch'.left <= Timeout
    BY <2>1, <2>2, <2>3 DEF Less
  <2>5. Alive' => \A k \in cache'.keys : retired'[k] + cache'.left <= Lifespan + Timeout
    BY <2>1, <2>2, <2>3 DEF Less, Alive
  <2>6. bare' \in Nat /\ bare \in Nat /\ bare' <= bare + 1  BY <1>3 DEF Tick
  <2>7. fetch'.at = "served" /\ fetch'.keys = {} => bare' + fetch'.left <= Timeout
    BY <2>2, <2>3, <2>6 DEF Less
  <2>8. Alive' /\ cache'.keys = {} => bare' + cache'.left <= Lifespan + Timeout
    BY <2>2, <2>3, <2>6 DEF Less, Alive
  <2>. QED  BY <1>3, <2>2, <2>4, <2>5, <2>7, <2>8 DEF Tick, OneKeyPerKid
<1>4. ASSUME NEW t \in Threads, NEW v, Becomes(t, v), v.aged <= Lifespan + Timeout,
             UNCHANGED <<retired, bare, cache>>,
             \/ UNCHANGED fetch
             \/ fetch'.at # "served" /\ fetch'.keys = {}
      PROVE  AgesInv'
  <2>1. \A u \in Threads : verification'[u].aged <= Lifespan + Timeout
    BY <1>4 DEF Becomes
  <2>2. /\ Alive' => \A k \in cache'.keys : retired'[k] + cache'.left <= Lifespan + Timeout
        /\ Alive' /\ cache'.keys = {} => bare' + cache'.left <= Lifespan + Timeout
    BY <1>4 DEF Alive
  <2>3. /\ fetch'.at = "served" => \A k \in fetch'.keys : retired'[k] + fetch'.left <= Timeout
        /\ fetch'.at = "served" /\ fetch'.keys = {} => bare' + fetch'.left <= Timeout
    BY <1>4
  <2>4. OneKeyPerKid(fetch'.keys) /\ OneKeyPerKid(cache'.keys)
    BY <1>4 DEF OneKeyPerKid
  <2>. QED  BY <2>1, <2>2, <2>3, <2>4 DEF OneKeyPerKid
<1>5. ASSUME NEW t \in Threads, NEW v, Becomes(t, v), v.aged <= Lifespan + Timeout,
             UNCHANGED <<retired, bare>>, Fetched, fetch.at = "served", fetch'.at # "served" /\ fetch'.keys = {}
      PROVE  AgesInv'
  <2>1. cache'.keys = fetch.keys /\ cache'.left = Lifespan  BY <1>5 DEF Fetched
  <2>2. /\ \A k \in fetch.keys : retired[k] + Lifespan <= Lifespan + Timeout
        /\ fetch.keys = {} => bare + Lifespan <= Lifespan + Timeout
    BY <1>5
  <2>. QED  BY <1>5, <2>1, <2>2 DEF Becomes, OneKeyPerKid
<1>6. ASSUME NEW t \in Threads,
             \/ Verify(t) \/ ResolveFromCache(t) \/ ResolveFromEmpty(t) \/ ResolveByFetch(t)
             \/ Receive(t) \/ FetchFails(t) \/ Decode(t) \/ RefreshCooling(t) \/ Refresh(t) \/ Refreshed(t)
      PROVE  AgesInv'
  <2>. DEFINE v == verification[t]
  <2>0. v \in Verifications /\ v.aged <= Lifespan + Timeout
    OBVIOUS
  <2>. USE DEF Verifications
  <2>1. CASE Verify(t)
    <3>1. PICK k \in Keys, g \in BOOLEAN :
             Becomes(t, [Idle EXCEPT !.at = "resolve", !.token = k, !.genuine = g])
      BY <2>1, ThreadSteps
    <3>2. PICK y : y = [Idle EXCEPT !.at = "resolve", !.token = k, !.genuine = g]  OBVIOUS
    <3>3. y.aged = 0  BY <3>2 DEF Idle
    <3>4. UNCHANGED <<retired, bare, cache>> /\ UNCHANGED fetch  BY <2>1 DEF Verify
    <3>5. y.aged <= Lifespan + Timeout  BY <3>3
    <3>. QED  BY <3>1, <3>2, <3>4, <3>5, <1>4
  <2>2. CASE ResolveFromCache(t)
    <3>1. PICK k \in Cached(v.token.kid) :
             Becomes(t, [v EXCEPT !.at = "decode", !.key = k.generation, !.aged = retired[k]])
      BY <2>2, ThreadSteps
    <3>2. retired[k] <= Lifespan + Timeout  BY <2>2 DEF ResolveFromCache, Cached, Alive
    <3>3. PICK y : y = [v EXCEPT !.at = "decode", !.key = k.generation, !.aged = retired[k]]
      OBVIOUS
    <3>4. y.aged = retired[k]  BY <2>0, <3>3
    <3>5. UNCHANGED <<retired, bare, cache>> /\ UNCHANGED fetch  BY <2>2 DEF ResolveFromCache
    <3>. QED  BY <3>1, <3>2, <3>3, <3>4, <3>5, <1>4
  <2>3. CASE ResolveByFetch(t)
    <3>1. PICK g \in BOOLEAN : Becomes(t, [v EXCEPT !.at = "fetching", !.asked = g])
      BY <2>3, ThreadSteps
    <3>2. [v EXCEPT !.at = "fetching", !.asked = g].aged = v.aged  BY <2>0
    <3>. QED  BY <2>0, <2>3, <3>1, <3>2, <1>4 DEF ResolveByFetch, Request
  <2>4. CASE Receive(t)
    <3>0. UNCHANGED <<retired, bare>> /\ Fetched /\ fetch.at = "served"  BY <2>4 DEF Receive
    <3>1. PICK y : Becomes(t, y) /\ y.aged <= Lifespan + Timeout
      <4>1. ASSUME NEW k \in fetch.keys
            PROVE  [v EXCEPT !.at = "decode", !.key = k.generation, !.aged = retired[k]].aged
                      <= Lifespan + Timeout
        BY <2>0, <3>0
      <4>2. /\ [v EXCEPT !.asked = TRUE].aged = v.aged
            /\ [v EXCEPT !.at = "refused"].aged = v.aged
        BY <2>0
      <4>. QED  BY <2>0, <2>4, <4>1, <4>2, ThreadSteps
    <3>2. fetch'.at # "served" /\ fetch'.keys = {}
      <4>1. fetch' = NoFetch \/ Request  BY <2>4, ThreadSteps
      <4>. QED  BY <4>1 DEF NoFetch, Request
    <3>. QED  BY <3>0, <3>1, <3>2, <1>5
  <2>5. CASE FetchFails(t)
    <3>1. Becomes(t, [v EXCEPT !.at = "refused", !.failed = TRUE])  BY <2>5, ThreadSteps
    <3>2. [v EXCEPT !.at = "refused", !.failed = TRUE].aged = v.aged  BY <2>0
    <3>3. /\ cache'.keys = {} /\ fetch'.keys = {} /\ fetch'.at = "none" /\ UNCHANGED retired
          /\ ~Alive'
      BY <2>5 DEF FetchFails, Empty, NoFetch, Alive
    <3>. QED  BY <2>0, <3>1, <3>2, <3>3 DEF Becomes, OneKeyPerKid
  <2>6. CASE Decode(t)
    <3>1. PICK at \in {"accepted", "refused", "invalid"} : Becomes(t, [v EXCEPT !.at = at])
      BY <2>6, ThreadSteps
    <3>2. PICK y : y = [v EXCEPT !.at = at]  OBVIOUS
    <3>3. y.aged = v.aged  BY <2>0, <3>2
    <3>4. UNCHANGED <<retired, bare, cache>> /\ UNCHANGED fetch  BY <2>6 DEF Decode
    <3>. QED  BY <2>0, <3>1, <3>2, <3>3, <3>4, <1>4
  <2>7. CASE RefreshCooling(t)
    <3>1. Becomes(t, [v EXCEPT !.at = "refused", !.cooled = TRUE])  BY <2>7, ThreadSteps
    <3>2. PICK y : y = [v EXCEPT !.at = "refused", !.cooled = TRUE]  OBVIOUS
    <3>3. y.aged = v.aged  BY <2>0, <3>2
    <3>4. UNCHANGED <<retired, bare, cache>> /\ UNCHANGED fetch  BY <2>7 DEF RefreshCooling
    <3>. QED  BY <2>0, <3>1, <3>2, <3>3, <3>4, <1>4
  <2>8. CASE Refresh(t)
    <3>1. Becomes(t, [v EXCEPT !.at = "refreshing"])  BY <2>8, ThreadSteps
    <3>2. [v EXCEPT !.at = "refreshing"].aged = v.aged  BY <2>0
    <3>. QED  BY <2>0, <2>8, <3>1, <3>2, <1>4 DEF Refresh, Request
  <2>9. CASE Refreshed(t)
    <3>1. PICK y : /\ y \in {[v EXCEPT !.at = "resolve", !.again = TRUE, !.asked = FALSE],
                             [v EXCEPT !.at = "refused"]}
                   /\ Becomes(t, y)
      BY <2>9, ThreadSteps
    <3>2. y.aged = v.aged  BY <2>0, <3>1
    <3>. QED  BY <2>0, <2>9, <3>1, <3>2, <1>5 DEF Refreshed, NoFetch
  <2>10. CASE ResolveFromEmpty(t)
    <3>1. Becomes(t, [v EXCEPT !.at = "refused", !.bare = bare])  BY <2>10, ThreadSteps
    <3>2. PICK y : y = [v EXCEPT !.at = "refused", !.bare = bare]  OBVIOUS
    <3>3. y.aged = v.aged  BY <2>0, <3>2
    <3>4. UNCHANGED <<retired, bare, cache>> /\ UNCHANGED fetch  BY <2>10 DEF ResolveFromEmpty
    <3>. QED  BY <2>0, <3>1, <3>2, <3>3, <3>4, <1>4
  <2>. QED  BY <1>6, <2>1, <2>2, <2>3, <2>4, <2>5, <2>6, <2>7, <2>8, <2>9, <2>10
<1>. QED  BY <1>0, <1>1, <1>2, <1>3, <1>6 DEF VerificationNext, verificationVars

-----------------------------------------------------------------------------
(* A genuine token and the sets of keys: a step of one thread, which ends  *)
(* or starts a request, if it is one, keeps what the others rely on.       *)
LEMMA GenuineOthers ==
    ASSUME VerificationTypeOK, GenuineInv, NEW t \in Threads, NEW v \in Verifications,
           Becomes(t, v), UNCHANGED published,
           \/ UNCHANGED lock /\ UNCHANGED fetch /\ lock # t
           \/ fetch'.at # "served",
           \/ UNCHANGED cache
           \/ cache'.keys = {}
           \/ fetch.at = "served" /\ cache'.keys = fetch.keys,
           v.genuine => /\ v.token \in Published
                        /\ v.again /\ UNCHANGED fetch /\ fetch.at = "served"
                               => v.token \in fetch.keys
                        /\ v.again => cache'.keys = {} \/ v.token \in cache'.keys
                        /\ v.again /\ v.at = "decode" => v.key = v.token.generation
                        /\ v.at = "refused" =>
                              v.failed \/ v.cooled \/ v.bare <= Lifespan + Timeout
    PROVE  GenuineInv'
<1>. USE DEF VerificationTypeOK
<1>1. /\ verification'[t] = v
      /\ \A u \in Threads : u # t => verification'[u] = verification[u]
  BY DEF Becomes
<1>2. Published' = Published  BY DEF Published
<1>3. ASSUME NEW u \in Threads, verification'[u].genuine
      PROVE  LET w == verification'[u] IN
             /\ w.token \in Published'
             /\ fetch'.at = "served" /\ (w.again \/ lock' = u) => w.token \in fetch'.keys
             /\ w.again => cache'.keys = {} \/ w.token \in cache'.keys
             /\ w.again /\ w.at = "decode" => w.key = w.token.generation
             /\ w.at = "refused" => w.failed \/ w.cooled \/ w.bare <= Lifespan + Timeout
  <2>1. CASE u = t
    BY <1>1, <1>2, <1>3, <2>1
  <2>2. CASE u # t
    <3>1. verification'[u] = verification[u] /\ verification[u].genuine  BY <1>1, <1>3, <2>2
    <3>. QED  BY <1>2, <3>1 DEF GenuineInv
  <2>. QED  BY <2>1, <2>2
<1>. QED  BY <1>3 DEF GenuineInv

LEMMA GenuineStep ==
    ASSUME VerificationTypeOK, AgesInv, GenuineInv, [VerificationNext]_verificationVars
    PROVE  GenuineInv'
<1>. USE DEF VerificationTypeOK
<1>0. CASE UNCHANGED verificationVars
  BY <1>0 DEF verificationVars, GenuineInv, Published
<1>1. CASE Serve
  BY <1>1 DEF Serve, GenuineInv, Published
<1>2. CASE Provider
  <2>1. ASSUME NEW t \in Threads
        PROVE  /\ verification'[t].genuine =>
                      /\ verification[t].genuine
                      /\ published'[verification[t].token.kid] = verification[t].token.generation
               /\ verification'[t].at = verification[t].at
               /\ verification'[t].token = verification[t].token
               /\ verification'[t].key = verification[t].key
               /\ verification'[t].again = verification[t].again
               /\ verification'[t].failed = verification[t].failed
               /\ verification'[t].cooled = verification[t].cooled
               /\ verification'[t].bare = verification[t].bare
    BY <1>2 DEF Provider, Verifications
  <2>2. ASSUME NEW t \in Threads, verification'[t].genuine
        PROVE  verification'[t].token \in Published'
    BY <2>1, <2>2 DEF GenuineInv, Published
  <2>3. UNCHANGED <<cache, fetch, lock>>  BY <1>2 DEF Provider
  <2>. QED  BY <2>1, <2>2, <2>3 DEF GenuineInv
<1>3. CASE Tick
  BY <1>3 DEF Tick, GenuineInv, Published
<1>4. ASSUME NEW t \in Threads,
             \/ Verify(t) \/ ResolveFromCache(t) \/ ResolveFromEmpty(t) \/ ResolveByFetch(t)
             \/ Receive(t) \/ FetchFails(t) \/ Decode(t) \/ RefreshCooling(t) \/ Refresh(t) \/ Refreshed(t)
      PROVE  GenuineInv'
  <2>. DEFINE v == verification[t]
  <2>0. /\ v \in Verifications
        /\ v.at \in {"fetching", "refreshing"} <=> lock = t
        /\ v.genuine => /\ v.token \in Published
                        /\ fetch.at = "served" /\ (v.again \/ lock = t) => v.token \in fetch.keys
                        /\ v.again => cache.keys = {} \/ v.token \in cache.keys
                        /\ v.again /\ v.at = "decode" => v.key = v.token.generation
                        /\ v.at = "refused" =>
                              v.failed \/ v.cooled \/ v.bare <= Lifespan + Timeout
    BY DEF GenuineInv
  <2>1. CASE Verify(t)
    <3>1. PICK k \in Keys, g \in BOOLEAN :
             /\ g => k \in Published
             /\ Becomes(t, [Idle EXCEPT !.at = "resolve", !.token = k, !.genuine = g])
      BY <2>1, ThreadSteps
    <3>2. PICK y : y = [Idle EXCEPT !.at = "resolve", !.token = k, !.genuine = g]  OBVIOUS
    <3>3. y \in Verifications  BY <3>2, VerificationsStarted
    <3>4. y.at = "resolve" /\ y.token = k /\ y.genuine = g /\ y.again = FALSE
      BY <3>2 DEF Idle
    <3>5. /\ UNCHANGED published /\ UNCHANGED cache /\ UNCHANGED fetch /\ UNCHANGED lock
          /\ v.at \in {"idle", "accepted", "refused"}
      BY <2>1 DEF Verify
    <3>. QED  BY <2>0, <3>1, <3>2, <3>3, <3>4, <3>5, GenuineOthers
  <2>2. CASE ResolveFromCache(t)
    <3>1. PICK k \in Cached(v.token.kid) :
             Becomes(t, [v EXCEPT !.at = "decode", !.key = k.generation, !.aged = retired[k]])
      BY <2>2, ThreadSteps
    <3>2. k \in Keys /\ retired[k] \in 0..Horizon  BY DEF Cached
    <3>3. PICK y : y = [v EXCEPT !.at = "decode", !.key = k.generation, !.aged = retired[k]]
      OBVIOUS
    <3>4. y \in Verifications  BY <3>2, <3>3, <2>0, VerificationsWritten
    <3>5. /\ y.at = "decode" /\ y.token = v.token /\ y.genuine = v.genuine /\ y.again = v.again
          /\ y.key = k.generation
      BY <3>3, <2>0 DEF Verifications
    <3>6. /\ UNCHANGED published /\ UNCHANGED cache /\ UNCHANGED fetch /\ UNCHANGED lock
          /\ lock = "free"
      BY <2>2 DEF ResolveFromCache
    <3>7. v.genuine /\ v.again => k.generation = v.token.generation
      <4>1. k \in cache.keys /\ k.kid = v.token.kid  BY DEF Cached
      <4>2. v.genuine /\ v.again => v.token \in cache.keys  BY <2>0, <4>1
      <4>. QED  BY <4>1, <4>2 DEF AgesInv, OneKeyPerKid
    <3>8. lock # t  BY <3>6, VerificationAssumption
    <3>. QED  BY <2>0, <3>1, <3>3, <3>4, <3>5, <3>6, <3>7, <3>8, GenuineOthers
  <2>3. CASE ResolveByFetch(t)
    <3>1. PICK g \in BOOLEAN : Becomes(t, [v EXCEPT !.at = "fetching", !.asked = g])
      BY <2>3, ThreadSteps
    <3>2. PICK y : y = [v EXCEPT !.at = "fetching", !.asked = g]  OBVIOUS
    <3>3. y \in Verifications /\ y.at = "fetching" /\ y.token = v.token /\ y.genuine = v.genuine
          /\ y.again = v.again
      BY <3>2, <2>0 DEF Verifications
    <3>4. UNCHANGED published /\ UNCHANGED cache /\ fetch'.at = "sent"
      BY <2>3 DEF ResolveByFetch, Request
    <3>. QED  BY <2>0, <3>1, <3>2, <3>3, <3>4, GenuineOthers
  <2>4. CASE Receive(t)
    <3>0. /\ lock = t /\ fetch.at = "served" /\ UNCHANGED published /\ cache'.keys = fetch.keys
          /\ v.at = "fetching"
      BY <2>4 DEF Receive, Fetched
    <3>1. v.genuine => v.token \in fetch.keys  BY <2>0, <3>0
    <3>2. CASE /\ lock' = "free" /\ fetch' = NoFetch
               /\ \E k \in fetch.keys : k.kid = v.token.kid /\
                     Becomes(t, [v EXCEPT !.at = "decode", !.key = k.generation, !.aged = retired[k]])
      <4>1. PICK k \in fetch.keys : k.kid = v.token.kid /\
               Becomes(t, [v EXCEPT !.at = "decode", !.key = k.generation, !.aged = retired[k]])
        BY <3>2
      <4>2. k \in Keys /\ retired[k] \in 0..Horizon  OBVIOUS
      <4>3. PICK y : y = [v EXCEPT !.at = "decode", !.key = k.generation, !.aged = retired[k]]
        OBVIOUS
      <4>4. y \in Verifications  BY <4>2, <4>3, <2>0, VerificationsWritten
      <4>5. /\ y.at = "decode" /\ y.token = v.token /\ y.genuine = v.genuine /\ y.again = v.again
            /\ y.key = k.generation
        BY <4>3, <2>0 DEF Verifications
      <4>6. v.genuine => k = v.token  BY <3>1, <4>1 DEF AgesInv, OneKeyPerKid
      <4>7. fetch'.at = "none" /\ fetch.at = "served"  BY <3>0, <3>2 DEF NoFetch
      <4>8. Becomes(t, y)  BY <4>1, <4>3
      <4>9. y.genuine => y.token \in Published /\ y.token \in cache'.keys
                         /\ y.key = y.token.generation
        BY <2>0, <3>0, <3>1, <4>5, <4>6
      <4>. QED  BY <3>0, <4>4, <4>5, <4>7, <4>8, <4>9, GenuineOthers
    <3>3. CASE Request /\ lock' = lock /\ Becomes(t, [v EXCEPT !.asked = TRUE])
      <4>1. PICK y : y = [v EXCEPT !.asked = TRUE]  OBVIOUS
      <4>2. /\ y \in Verifications /\ y.at = v.at /\ y.token = v.token /\ y.genuine = v.genuine
            /\ y.again = v.again
        BY <4>1, <2>0 DEF Verifications
      <4>3. fetch'.at = "sent"  BY <3>3 DEF Request
      <4>. QED  BY <2>0, <3>0, <3>1, <3>3, <4>1, <4>2, <4>3, GenuineOthers
    <3>4. CASE /\ \A k \in fetch.keys : k.kid # v.token.kid
               /\ lock' = "free" /\ fetch' = NoFetch /\ Becomes(t, [v EXCEPT !.at = "refused"])
      <4>1. PICK y : y = [v EXCEPT !.at = "refused"]  OBVIOUS
      <4>2. y \in Verifications /\ y.genuine = v.genuine  BY <4>1, <2>0 DEF Verifications
      <4>3. ~ v.genuine  BY <3>1, <3>4
      <4>4. fetch'.at = "none"  BY <3>4 DEF NoFetch
      <4>. QED  BY <3>0, <3>4, <4>1, <4>2, <4>3, <4>4, GenuineOthers
    <3>. QED  BY <2>4, <3>2, <3>3, <3>4, ThreadSteps
  <2>5. CASE FetchFails(t)
    <3>1. PICK y : y = [v EXCEPT !.at = "refused", !.failed = TRUE]  OBVIOUS
    <3>2. /\ y \in Verifications /\ y.at = "refused" /\ y.failed = TRUE /\ y.token = v.token
          /\ y.genuine = v.genuine
      BY <3>1, <2>0 DEF Verifications
    <3>3. Becomes(t, y)  BY <3>1, <2>5, ThreadSteps
    <3>4. UNCHANGED published /\ cache'.keys = {} /\ fetch'.at = "none"
      BY <2>5 DEF FetchFails, Empty, NoFetch
    <3>. QED  BY <2>0, <3>2, <3>3, <3>4, GenuineOthers
  <2>6. CASE Decode(t)
    <3>1. PICK at : /\ at = IF v.key = v.token.generation THEN "accepted"
                            ELSE IF v.again THEN "refused" ELSE "invalid"
                    /\ Becomes(t, [v EXCEPT !.at = at])
      BY <2>6 DEF Decode, Becomes
    <3>2. PICK y : y = [v EXCEPT !.at = at]  OBVIOUS
    <3>3. at \in {"accepted", "refused", "invalid"}  BY <3>1
    <3>4. /\ y \in Verifications /\ y.at = at /\ y.token = v.token /\ y.genuine = v.genuine
          /\ y.again = v.again
      BY <3>2, <3>3, <2>0 DEF Verifications
    <3>5. /\ UNCHANGED published /\ UNCHANGED cache /\ UNCHANGED fetch /\ UNCHANGED lock
          /\ v.at = "decode"
      BY <2>6 DEF Decode
    <3>6. v.genuine => at # "refused"  BY <2>0, <3>1, <3>5
    <3>. QED  BY <2>0, <3>1, <3>2, <3>3, <3>4, <3>5, <3>6, GenuineOthers
  <2>7. CASE RefreshCooling(t)
    <3>1. PICK y : y = [v EXCEPT !.at = "refused", !.cooled = TRUE]  OBVIOUS
    <3>2. /\ y \in Verifications /\ y.at = "refused" /\ y.cooled = TRUE /\ y.token = v.token
          /\ y.genuine = v.genuine /\ y.again = v.again
      BY <3>1, <2>0 DEF Verifications
    <3>3. Becomes(t, y)  BY <3>1, <2>7, ThreadSteps
    <3>4. /\ UNCHANGED published /\ UNCHANGED cache /\ UNCHANGED fetch /\ UNCHANGED lock
          /\ v.at = "invalid"
      BY <2>7 DEF RefreshCooling
    <3>. QED  BY <2>0, <3>2, <3>3, <3>4, GenuineOthers
  <2>8. CASE Refresh(t)
    <3>1. PICK y : y = [v EXCEPT !.at = "refreshing"]  OBVIOUS
    <3>2. /\ y \in Verifications /\ y.at = "refreshing" /\ y.token = v.token
          /\ y.genuine = v.genuine /\ y.again = v.again
      BY <3>1, <2>0 DEF Verifications
    <3>3. Becomes(t, y)  BY <3>1, <2>8, ThreadSteps
    <3>4. UNCHANGED published /\ UNCHANGED cache /\ fetch'.at = "sent"
      BY <2>8 DEF Refresh, Request
    <3>. QED  BY <2>0, <3>2, <3>3, <3>4, GenuineOthers
  <2>9. CASE Refreshed(t)
    <3>1. /\ UNCHANGED published /\ fetch.at = "served" /\ lock = t /\ cache'.keys = fetch.keys
          /\ fetch'.at = "none"
      BY <2>9 DEF Refreshed, Fetched, NoFetch
    <3>2. v.genuine => v.token \in fetch.keys  BY <2>0, <3>1
    <3>3. CASE Becomes(t, [v EXCEPT !.at = "resolve", !.again = TRUE, !.asked = FALSE])
      <4>1. PICK y : y = [v EXCEPT !.at = "resolve", !.again = TRUE, !.asked = FALSE]  OBVIOUS
      <4>2. /\ y \in Verifications /\ y.at = "resolve" /\ y.token = v.token
            /\ y.genuine = v.genuine
        BY <4>1, <2>0 DEF Verifications
      <4>. QED  BY <2>0, <3>1, <3>2, <3>3, <4>1, <4>2, GenuineOthers
    <3>4. CASE fetch.keys = {} /\ Becomes(t, [v EXCEPT !.at = "refused"])
      <4>1. PICK y : y = [v EXCEPT !.at = "refused"]  OBVIOUS
      <4>2. y \in Verifications /\ y.genuine = v.genuine  BY <4>1, <2>0 DEF Verifications
      <4>3. ~ v.genuine  BY <3>2, <3>4
      <4>. QED  BY <3>1, <3>4, <4>1, <4>2, <4>3, GenuineOthers
    <3>. QED  BY <2>9, <3>3, <3>4, ThreadSteps
  <2>10. CASE ResolveFromEmpty(t)
    <3>1. PICK y : y = [v EXCEPT !.at = "refused", !.bare = bare]  OBVIOUS
    <3>2. /\ y \in Verifications /\ y.at = "refused" /\ y.bare = bare /\ y.token = v.token
          /\ y.genuine = v.genuine /\ y.again = v.again
      BY <3>1, <2>0 DEF Verifications
    <3>3. Becomes(t, y)  BY <3>1, <2>10, ThreadSteps
    <3>4. /\ UNCHANGED published /\ UNCHANGED cache /\ UNCHANGED fetch /\ UNCHANGED lock
          /\ v.at = "resolve" /\ cache.keys = {} /\ Alive
      BY <2>10 DEF ResolveFromEmpty
    <3>5. bare <= Lifespan + Timeout  BY <3>4, Constants DEF AgesInv, Alive
    <3>. QED  BY <2>0, <3>2, <3>3, <3>4, <3>5, GenuineOthers
  <2>. QED  BY <1>4, <2>1, <2>2, <2>3, <2>4, <2>5, <2>6, <2>7, <2>8, <2>9, <2>10
<1>. QED  BY <1>0, <1>1, <1>2, <1>3, <1>4 DEF VerificationNext

-----------------------------------------------------------------------------
LEMMA InvariantInit == VerificationInit => VerificationInv
<1>. SUFFICES ASSUME VerificationInit PROVE VerificationInv
  OBVIOUS
<1>1. VerificationTypeOK  BY TypeInit
<1>2. PublishedInv
  <2>1. PICK kid : kid \in Kids  BY VerificationAssumption
  <2>2. [kid |-> kid, generation |-> 1] \in Published
    BY <2>1, Constants DEF VerificationInit, Published, Keys
  <2>. QED  BY <2>2, Constants DEF VerificationInit, PublishedInv
<1>3. AgesInv
  <2>1. \A k \in Keys : retired[k] = 0  BY DEF VerificationInit
  <2>2. cache.keys = Published /\ cache.left = Lifespan /\ fetch.at = "none" /\ fetch.keys = {}
    BY DEF VerificationInit, NoFetch
  <2>3. \A t \in Threads : verification[t].aged = 0  BY DEF VerificationInit, Idle
  <2>4. cache.keys # {}
    <3>1. PICK kid : kid \in Kids  BY VerificationAssumption
    <3>2. [kid |-> kid, generation |-> 1] \in Published
      BY <3>1, Constants DEF VerificationInit, Published, Keys
    <3>. QED  BY <3>2, <2>2
  <2>. QED  BY <2>1, <2>2, <2>3, <2>4, Constants, PublishedKeys DEF AgesInv, OneKeyPerKid
<1>4. GenuineInv
  BY DEF VerificationInit, GenuineInv, Idle
<1>. QED  BY <1>1, <1>2, <1>3, <1>4 DEF VerificationInv

LEMMA InvariantStep == VerificationInv /\ [VerificationNext]_verificationVars => VerificationInv'
  BY TypeStep, PublishedStep, AgesStep, GenuineStep DEF VerificationInv

(* The inductive invariant of the verification of tokens: what of the      *)
(* cache, of the request under way and of the keys each thread looks at    *)
(* goes together while others refresh, fail and rotate keys.               *)
THEOREM VerificationInvariant == VerificationSpec => []VerificationInv
  BY InvariantInit, InvariantStep, PTL DEF VerificationSpec

(* Threads, cache, lock and request have the types their code gives them,  *)
(* and the holder of the lock is the one thread that awaits a request.     *)
THEOREM VerificationTypeCorrect == VerificationSpec => []VerificationTypeOK
<1>1. VerificationInv => VerificationTypeOK  BY DEF VerificationInv
<1>. QED  BY <1>1, VerificationInvariant, PTL

(* No token is accepted by a key that the provider has not published for   *)
(* longer than the lifespan of the cache and the timeout of one request.   *)
THEOREM RetiredKeysAreForgotten == VerificationSpec => []RetiredKeysLapse
<1>1. VerificationInv => RetiredKeysLapse  BY DEF VerificationInv, AgesInv, RetiredKeysLapse
<1>. QED  BY <1>1, VerificationInvariant, PTL

(* A token whose key stays published is refused only after a failed        *)
(* request of its own, within the cooldown of somebody's refresh, or while *)
(* an empty set that the provider has lately answered with is cached.      *)
THEOREM GenuineTokensAreAccepted == VerificationSpec => []GenuineIsRefusedForCause
<1>1. VerificationInv => GenuineIsRefusedForCause
  BY DEF VerificationInv, GenuineInv, GenuineIsRefusedForCause
<1>. QED  BY <1>1, VerificationInvariant, PTL

-----------------------------------------------------------------------------
(* LocalTraffic.                                                           *)
AdmissionInv == AdmissionTypeOK /\ LimitsHold /\ WindowsInv /\ RefusalInv

LEMMA AdmissionConstants ==
    /\ SubjectRpm \in Nat \ {0} /\ TenantRpm \in Nat \ {0} /\ TenantConcurrency \in Nat \ {0}
    /\ GlobalConcurrency \in Nat \ {0} /\ MaxTracked \in Nat \ {0} /\ WindowSeconds \in Nat \ {0}
    /\ CleanupEvery \in Nat \ {0} /\ MaxLeases \in Nat
<1>1. \A n \in {SubjectRpm, TenantRpm, TenantConcurrency, GlobalConcurrency, MaxTracked,
                WindowSeconds, CleanupEvery} : n \in Nat \ {0}
  BY AdmissionAssumption DEF LimitsLoad
<1>. QED  BY <1>1, AdmissionAssumption

(* The leases, and the sets of them that are counted.                      *)
LEMMA Leases ==
    ASSUME AdmissionTypeOK
    PROVE  /\ Len(leases) \in Nat /\ DOMAIN leases = 1..Len(leases)
           /\ IsFiniteSet(DOMAIN leases)
           /\ \A i \in DOMAIN leases :
                 leases[i] \in [tenant : Tenants, subject : Subjects, left : Entries, released : BOOLEAN]
<1>1. leases \in Seq([tenant : Tenants, subject : Subjects, left : Entries, released : BOOLEAN])
  BY DEF AdmissionTypeOK
<1>2. Len(leases) \in Nat /\ DOMAIN leases = 1..Len(leases)
  BY <1>1, LenProperties
<1>3. \A i \in DOMAIN leases :
         leases[i] \in [tenant : Tenants, subject : Subjects, left : Entries, released : BOOLEAN]
  BY <1>1, ElementOfSeq, <1>2
<1>4. IsFiniteSet(DOMAIN leases)
  BY <1>2, FS_Interval
<1>. QED  BY <1>2, <1>3, <1>4

LEMMA Counted ==
    ASSUME IsFiniteSet(DOMAIN leases)
    PROVE  /\ IsFiniteSet(Held) /\ Cardinality(Held) \in Nat
           /\ \A t : /\ IsFiniteSet(HeldBy(t)) /\ Cardinality(HeldBy(t)) \in Nat
                    /\ IsFiniteSet(RecentBy(t)) /\ Cardinality(RecentBy(t)) \in Nat
           /\ \A t, s : IsFiniteSet(RecentOf(t, s)) /\ Cardinality(RecentOf(t, s)) \in Nat
<1>1. \A S : S \subseteq DOMAIN leases => IsFiniteSet(S) /\ Cardinality(S) \in Nat
  BY FS_Subset, FS_CardinalityType
<1>2. /\ Held \subseteq DOMAIN leases
      /\ \A t : HeldBy(t) \subseteq DOMAIN leases /\ RecentBy(t) \subseteq DOMAIN leases
      /\ \A t, s : RecentOf(t, s) \subseteq DOMAIN leases
  BY DEF Held, HeldBy, RecentBy, RecentOf
<1>. QED  BY <1>1, <1>2

(* Sweeping forgets no admission that counts, and no key comes in.         *)
LEMMA CleanupRemembers ==
    ASSUME NEW w, Remembers(w)
    PROVE  Remembers(Cleanup(w)) /\ Tracked(Cleanup(w)) \in Nat /\ Tracked(Cleanup(w)) <= Tracked(w)
<1>. DEFINE v == Cleanup(w)
<1>1. /\ v.subjects = Swept(w.subjects) /\ v.tenants = Swept(w.tenants)
  BY DEF Cleanup
<1>2. /\ DOMAIN v.subjects \subseteq DOMAIN w.subjects
      /\ DOMAIN v.tenants \subseteq DOMAIN w.tenants
  BY <1>1 DEF Swept
<1>3. /\ \A key \in DOMAIN v.subjects : v.subjects[key] = Prune(w.subjects[key])
      /\ \A t \in DOMAIN v.tenants : v.tenants[t] = Prune(w.tenants[t])
  BY <1>1 DEF Swept
<1>4. ASSUME NEW i \in DOMAIN leases, leases[i].left > 0
      PROVE  LET key == <<leases[i].tenant, leases[i].subject>> IN
             /\ key \in DOMAIN v.subjects /\ i \in v.subjects[key]
             /\ key[1] \in DOMAIN v.tenants /\ i \in v.tenants[key[1]]
  <2>. DEFINE key == <<leases[i].tenant, leases[i].subject>>
  <2>1. /\ key \in DOMAIN w.subjects /\ i \in w.subjects[key]
        /\ key[1] \in DOMAIN w.tenants /\ i \in w.tenants[key[1]]
    BY <1>4 DEF Remembers
  <2>2. i \in Prune(w.subjects[key]) /\ i \in Prune(w.tenants[key[1]])
    BY <2>1, <1>4 DEF Prune
  <2>. QED  BY <2>1, <2>2, <1>1 DEF Swept
<1>5. IsFiniteSet(DOMAIN w.subjects) /\ IsFiniteSet(DOMAIN w.tenants)
  BY DEF Remembers
<1>6. /\ IsFiniteSet(DOMAIN v.subjects) /\ Cardinality(DOMAIN v.subjects) <= Cardinality(DOMAIN w.subjects)
      /\ IsFiniteSet(DOMAIN v.tenants) /\ Cardinality(DOMAIN v.tenants) <= Cardinality(DOMAIN w.tenants)
  BY <1>2, <1>5, FS_Subset
<1>7. Remembers(v)
  <2>1. DOMAIN v.subjects \subseteq Identities /\ DOMAIN v.tenants \subseteq Tenants
    BY <1>2 DEF Remembers
  <2>2. ASSUME NEW key \in DOMAIN v.subjects, NEW i \in v.subjects[key]
        PROVE  i \in DOMAIN leases /\ <<leases[i].tenant, leases[i].subject>> = key
    <3>1. key \in DOMAIN w.subjects /\ i \in w.subjects[key]
      BY <1>2, <1>3 DEF Prune
    <3>. QED  BY <3>1 DEF Remembers
  <2>3. ASSUME NEW t \in DOMAIN v.tenants, NEW i \in v.tenants[t]
        PROVE  i \in DOMAIN leases /\ leases[i].tenant = t
    <3>1. t \in DOMAIN w.tenants /\ i \in w.tenants[t]
      BY <1>2, <1>3 DEF Prune
    <3>. QED  BY <3>1 DEF Remembers
  <2>. QED  BY <2>1, <2>2, <2>3, <1>4, <1>6 DEF Remembers
<1>8. /\ Cardinality(DOMAIN v.subjects) \in Nat /\ Cardinality(DOMAIN v.tenants) \in Nat
      /\ Cardinality(DOMAIN w.subjects) \in Nat /\ Cardinality(DOMAIN w.tenants) \in Nat
  BY <1>5, <1>6, FS_CardinalityType
<1>9. Tracked(v) \in Nat /\ Tracked(v) <= Tracked(w)
  BY <1>6, <1>8 DEF Tracked
<1>. QED  BY <1>7, <1>9

LEMMA TrackedIsNumber ==
    ASSUME NEW w, Remembers(w) PROVE Tracked(w) \in Nat
<1>1. IsFiniteSet(DOMAIN w.subjects) /\ IsFiniteSet(DOMAIN w.tenants)
  BY DEF Remembers
<1>. QED  BY <1>1, FS_CardinalityType DEF Tracked

(* So does the sweep before the limit of tracked keys is tested.           *)
LEMMA WindowsForRemembers ==
    ASSUME NEW t, NEW s, WindowsInv
    PROVE  /\ Remembers(WindowsFor(t, s)) /\ Tracked(WindowsFor(t, s)) \in Nat
           /\ Tracked(WindowsFor(t, s)) <= Tracked(windows)
<1>. DEFINE w == IF (admissions + 1) % CleanupEvery = 0 THEN Cleanup(windows) ELSE windows
<1>1. Remembers(windows) /\ Tracked(windows) \in Nat
  BY TrackedIsNumber DEF WindowsInv
<1>2. Remembers(w) /\ Tracked(w) \in Nat /\ Tracked(w) <= Tracked(windows)
  BY <1>1, CleanupRemembers
<1>3. Remembers(Cleanup(w)) /\ Tracked(Cleanup(w)) \in Nat /\ Tracked(Cleanup(w)) <= Tracked(w)
  BY <1>2, CleanupRemembers
<1>4. WindowsFor(t, s) = IF Knows(w, t, s) THEN w ELSE Cleanup(w)
  BY DEF WindowsFor
<1>. HIDE DEF w
<1>. QED  BY <1>1, <1>2, <1>3, <1>4

(* The windows that are compared with the rates are the admissions that    *)
(* still count, and at most two keys come in.                              *)
LEMMA TouchedWindows ==
    ASSUME AdmissionTypeOK, NEW w, Remembers(w), NEW t \in Tenants, NEW s \in Subjects
    PROVE  LET x == Touched(w, t, s) IN
           /\ Remembers(x)
           /\ x.subjects[<<t, s>>] = RecentOf(t, s) /\ x.tenants[t] = RecentBy(t)
           /\ <<t, s>> \in DOMAIN x.subjects /\ t \in DOMAIN x.tenants
           /\ Tracked(x) <= IF Knows(w, t, s) THEN Tracked(w) ELSE Tracked(w) + 2
<1>. DEFINE x == Touched(w, t, s)
            key == <<t, s>>
<1>1. /\ DOMAIN x.subjects = DOMAIN w.subjects \union {key}
      /\ DOMAIN x.tenants = DOMAIN w.tenants \union {t}
  BY DEF Touched, With
<1>2. /\ x.subjects[key] = Prune(Get(w.subjects, key, {}))
      /\ \A k \in DOMAIN w.subjects : k # key => x.subjects[k] = w.subjects[k]
      /\ x.tenants[t] = Prune(Get(w.tenants, t, {}))
      /\ \A k \in DOMAIN w.tenants : k # t => x.tenants[k] = w.tenants[k]
  BY DEF Touched, With
<1>3. x.subjects[key] = RecentOf(t, s)
  <2>1. ASSUME NEW i PROVE i \in Prune(Get(w.subjects, key, {})) <=> i \in RecentOf(t, s)
    <3>1. CASE key \in DOMAIN w.subjects
      <4>1. i \in w.subjects[key] => i \in DOMAIN leases /\ leases[i].tenant = t /\ leases[i].subject = s
        BY <3>1 DEF Remembers
      <4>2. i \in RecentOf(t, s) => i \in w.subjects[key]
        BY DEF Remembers, RecentBy, RecentOf
      <4>. QED  BY <3>1, <4>1, <4>2 DEF Prune, Get, RecentBy, RecentOf
    <3>2. CASE key \notin DOMAIN w.subjects
      <4>1. i \notin RecentOf(t, s)
        BY <3>2 DEF Remembers, RecentBy, RecentOf
      <4>. QED  BY <3>2, <4>1 DEF Prune, Get
    <3>. QED  BY <3>1, <3>2
  <2>. QED  BY <2>1, <1>2
<1>4. x.tenants[t] = RecentBy(t)
  <2>1. ASSUME NEW i PROVE i \in Prune(Get(w.tenants, t, {})) <=> i \in RecentBy(t)
    <3>1. CASE t \in DOMAIN w.tenants
      <4>1. i \in w.tenants[t] => i \in DOMAIN leases /\ leases[i].tenant = t
        BY <3>1 DEF Remembers
      <4>2. i \in RecentBy(t) => i \in w.tenants[t]
        BY DEF Remembers, RecentBy, RecentOf
      <4>3. i \in DOMAIN leases => leases[i].subject \in Subjects
        BY Leases
      <4>. QED  BY <3>1, <4>1, <4>2, <4>3 DEF Prune, Get, RecentBy, RecentOf
    <3>2. CASE t \notin DOMAIN w.tenants
      <4>1. i \notin RecentBy(t)
        BY <3>2 DEF Remembers, RecentBy, RecentOf
      <4>. QED  BY <3>2, <4>1 DEF Prune, Get
    <3>. QED  BY <3>1, <3>2
  <2>. QED  BY <2>1, <1>2
<1>5. key \in DOMAIN x.subjects /\ t \in DOMAIN x.tenants
  BY <1>1
<1>6. /\ IsFiniteSet(DOMAIN w.subjects) /\ IsFiniteSet(DOMAIN w.tenants)
      /\ Cardinality(DOMAIN w.subjects) \in Nat /\ Cardinality(DOMAIN w.tenants) \in Nat
  BY FS_CardinalityType DEF Remembers
<1>7. /\ IsFiniteSet(DOMAIN x.subjects) /\ IsFiniteSet(DOMAIN x.tenants)
      /\ Cardinality(DOMAIN x.subjects) =
            IF key \in DOMAIN w.subjects THEN Cardinality(DOMAIN w.subjects)
            ELSE Cardinality(DOMAIN w.subjects) + 1
      /\ Cardinality(DOMAIN x.tenants) =
            IF t \in DOMAIN w.tenants THEN Cardinality(DOMAIN w.tenants)
            ELSE Cardinality(DOMAIN w.tenants) + 1
  <2>1. /\ IsFiniteSet(DOMAIN w.subjects \union {key})
        /\ Cardinality(DOMAIN w.subjects \union {key}) =
              IF key \in DOMAIN w.subjects THEN Cardinality(DOMAIN w.subjects)
              ELSE Cardinality(DOMAIN w.subjects) + 1
    BY <1>6, FS_AddElement
  <2>2. /\ IsFiniteSet(DOMAIN w.tenants \union {t})
        /\ Cardinality(DOMAIN w.tenants \union {t}) =
              IF t \in DOMAIN w.tenants THEN Cardinality(DOMAIN w.tenants)
              ELSE Cardinality(DOMAIN w.tenants) + 1
    BY <1>6, FS_AddElement
  <2>. QED  BY <1>1, <2>1, <2>2
<1>8. Tracked(x) <= IF Knows(w, t, s) THEN Tracked(w) ELSE Tracked(w) + 2
  BY <1>6, <1>7 DEF Tracked, Knows
<1>9. Remembers(x)
  <2>1. DOMAIN x.subjects \subseteq Identities /\ DOMAIN x.tenants \subseteq Tenants
    BY <1>1 DEF Remembers, Identities
  <2>2. ASSUME NEW i \in DOMAIN leases, leases[i].left > 0
        PROVE  LET k == <<leases[i].tenant, leases[i].subject>> IN
               /\ k \in DOMAIN x.subjects /\ i \in x.subjects[k]
               /\ k[1] \in DOMAIN x.tenants /\ i \in x.tenants[k[1]]
    <3>. DEFINE k == <<leases[i].tenant, leases[i].subject>>
    <3>1. /\ k \in DOMAIN w.subjects /\ i \in w.subjects[k]
          /\ k[1] \in DOMAIN w.tenants /\ i \in w.tenants[k[1]]
      BY <2>2 DEF Remembers
    <3>2. k = key => i \in RecentOf(t, s)
      BY <2>2 DEF RecentBy, RecentOf
    <3>3. k[1] = t => i \in RecentBy(t)
      BY <2>2, Leases DEF RecentBy, RecentOf
    <3>. QED  BY <1>1, <1>2, <1>3, <1>4, <3>1, <3>2, <3>3
  <2>3. ASSUME NEW k \in DOMAIN x.subjects, NEW i \in x.subjects[k]
        PROVE  i \in DOMAIN leases /\ <<leases[i].tenant, leases[i].subject>> = k
    <3>1. CASE k = key
      BY <3>1, <1>3 DEF RecentBy, RecentOf
    <3>2. CASE k # key
      BY <3>2, <1>1, <1>2 DEF Remembers
    <3>. QED  BY <3>1, <3>2
  <2>4. ASSUME NEW k \in DOMAIN x.tenants, NEW i \in x.tenants[k]
        PROVE  i \in DOMAIN leases /\ leases[i].tenant = k
    <3>1. CASE k = t
      BY <3>1, <1>4 DEF RecentBy, RecentOf
    <3>2. CASE k # t
      BY <3>2, <1>1, <1>2 DEF Remembers
    <3>. QED  BY <3>1, <3>2
  <2>. QED  BY <2>1, <2>2, <2>3, <2>4, <1>7 DEF Remembers
<1>. QED  BY <1>3, <1>4, <1>5, <1>8, <1>9

LEMMA AdmissionInitially == AdmissionInit => AdmissionInv
<1>. SUFFICES ASSUME AdmissionInit PROVE AdmissionInv
  OBVIOUS
<1>. USE AdmissionConstants
<1>1. AdmissionTypeOK
  BY DEF AdmissionInit, AdmissionTypeOK
<1>2. /\ Held = {} /\ \A t : HeldBy(t) = {} /\ RecentBy(t) = {}
      /\ \A t, s : RecentOf(t, s) = {}
      /\ Cardinality({}) = 0 /\ IsFiniteSet({})
  <2>1. DOMAIN leases = {}
    BY DEF AdmissionInit
  <2>. QED  BY <2>1, FS_EmptySet DEF Held, HeldBy, RecentBy, RecentOf
<1>3. SlotsAreLeases
  <2>1. global_active = 0 /\ \A t \in Tenants : Get(tenant_active, t, 0) = 0
    BY DEF AdmissionInit, Get
  <2>2. /\ Cardinality(Held) = 0
        /\ \A t \in Tenants : Cardinality(HeldBy(t)) = 0
    BY <1>2
  <2>. QED  BY <2>1, <2>2 DEF SlotsAreLeases
<1>4. WindowsForgetNothing
  <2>1. DOMAIN windows.subjects = {} /\ DOMAIN windows.tenants = {}
    BY DEF AdmissionInit
  <2>2. \A t \in Tenants : Cardinality(RecentBy(t)) = 0
    BY <1>2
  <2>3. \A t \in Tenants, s \in Subjects : Cardinality(RecentOf(t, s)) = 0
    BY <1>2
  <2>4. Tracked(windows) = 0
    BY <1>2, <2>1 DEF Tracked
  <2>. QED  BY <2>2, <2>3, <2>4 DEF WindowsForgetNothing
<1>5. WindowsInv
  BY <1>2 DEF AdmissionInit, WindowsInv, Remembers
<1>6. RefusalInv
  BY DEF AdmissionInit, RefusalInv
<1>. QED  BY <1>1, <1>3, <1>4, <1>5, <1>6 DEF AdmissionInv, LimitsHold

(* What a verdict says of the admissions that still count.                 *)
LEMMA Verdicts ==
    ASSUME AdmissionInv, NEW t \in Tenants, NEW s \in Subjects
    PROVE  LET w == WindowsFor(t, s)
               x == Touched(w, t, s) IN
           /\ Verdict(t, s) = "RATE_LIMIT_TRACKING_CAPACITY" <=> ~Knows(w, t, s) /\ Tracked(w) >= MaxTracked
           /\ Verdict(t, s) = "SUBJECT_RATE_LIMITED" => Cardinality(RecentOf(t, s)) >= SubjectRpm
           /\ Verdict(t, s) = "TENANT_RATE_LIMITED" => Cardinality(RecentBy(t)) >= TenantRpm
           /\ Verdict(t, s) = "admitted" =>
                 /\ Cardinality(RecentOf(t, s)) < SubjectRpm
                 /\ Cardinality(RecentBy(t)) < TenantRpm
                 /\ Get(tenant_active, t, 0) < TenantConcurrency
                 /\ global_active < GlobalConcurrency
           /\ Remembers(w) /\ Remembers(x)
           /\ x.subjects[<<t, s>>] = RecentOf(t, s) /\ x.tenants[t] = RecentBy(t)
           /\ <<t, s>> \in DOMAIN x.subjects /\ t \in DOMAIN x.tenants
           /\ Tracked(w) <= MaxTracked + 1
           /\ Verdict(t, s) # "RATE_LIMIT_TRACKING_CAPACITY" => Tracked(x) <= MaxTracked + 1
<1>. DEFINE w == WindowsFor(t, s)
            x == Touched(w, t, s)
<1>. USE AdmissionConstants
<1>1. /\ AdmissionTypeOK /\ WindowsInv
      /\ Tracked(windows) \in Nat /\ Tracked(windows) <= MaxTracked + 1
  BY TrackedIsNumber DEF AdmissionInv, LimitsHold, WindowsForgetNothing, WindowsInv
<1>2. Remembers(w) /\ Tracked(w) \in Nat /\ Tracked(w) <= MaxTracked + 1
  BY <1>1, WindowsForRemembers
<1>3. /\ Remembers(x)
      /\ x.subjects[<<t, s>>] = RecentOf(t, s) /\ x.tenants[t] = RecentBy(t)
      /\ <<t, s>> \in DOMAIN x.subjects /\ t \in DOMAIN x.tenants
      /\ Tracked(x) <= IF Knows(w, t, s) THEN Tracked(w) ELSE Tracked(w) + 2
  BY <1>1, <1>2, TouchedWindows
<1>4. Verdict(t, s) =
          IF ~Knows(w, t, s) /\ Tracked(w) >= MaxTracked THEN "RATE_LIMIT_TRACKING_CAPACITY"
          ELSE IF Cardinality(RecentOf(t, s)) >= SubjectRpm THEN "SUBJECT_RATE_LIMITED"
          ELSE IF Cardinality(RecentBy(t)) >= TenantRpm THEN "TENANT_RATE_LIMITED"
          ELSE IF Get(tenant_active, t, 0) >= TenantConcurrency THEN "TENANT_CONCURRENCY_LIMIT"
          ELSE IF global_active >= GlobalConcurrency THEN "GLOBAL_CONCURRENCY_LIMIT"
          ELSE "admitted"
  BY <1>3 DEF Verdict
<1>5. /\ Cardinality(RecentOf(t, s)) \in Nat /\ Cardinality(RecentBy(t)) \in Nat
      /\ Get(tenant_active, t, 0) \in Nat /\ global_active \in Nat
  BY <1>1, Leases, Counted DEF AdmissionTypeOK, Get
<1>6. Tracked(x) \in Nat
  BY <1>3, TrackedIsNumber
<1>. HIDE DEF w, x
<1>7. /\ Verdict(t, s) = "RATE_LIMIT_TRACKING_CAPACITY" <=> ~Knows(w, t, s) /\ Tracked(w) >= MaxTracked
      /\ Verdict(t, s) = "SUBJECT_RATE_LIMITED" => Cardinality(RecentOf(t, s)) >= SubjectRpm
      /\ Verdict(t, s) = "TENANT_RATE_LIMITED" => Cardinality(RecentBy(t)) >= TenantRpm
  BY <1>4
<1>8. Verdict(t, s) = "admitted" =>
         /\ Cardinality(RecentOf(t, s)) < SubjectRpm
         /\ Cardinality(RecentBy(t)) < TenantRpm
         /\ Get(tenant_active, t, 0) < TenantConcurrency
         /\ global_active < GlobalConcurrency
  BY <1>4, <1>5
<1>9. Verdict(t, s) # "RATE_LIMIT_TRACKING_CAPACITY" => Tracked(x) <= MaxTracked + 1
  BY <1>2, <1>3, <1>6, <1>7
<1>. QED  BY <1>2, <1>3, <1>7, <1>8, <1>9 DEF w, x

(* Without the head of its window there is room again.                     *)
LEMMA HeadMakesRoom ==
    ASSUME AdmissionTypeOK, NEW S \in SUBSET DOMAIN leases, NEW limit \in Nat \ {0},
           Cardinality(S) = limit
    PROVE  LET n == Oldest(S) IN S # {} /\ n \in S /\ Cardinality(S \ {n}) < limit
<1>1. S \in SUBSET Nat /\ IsFiniteSet(S)
  BY Leases, FS_Subset
<1>2. S # {}
  BY FS_EmptySet
<1>3. \E n \in S : \A m \in S : n <= m
  BY <1>1, <1>2, LeastNumber
<1>4. Oldest(S) \in S
  BY <1>3 DEF Oldest
<1>5. Cardinality(S \ {Oldest(S)}) = limit - 1
  BY <1>1, <1>4, FS_RemoveElement
<1>. QED  BY <1>2, <1>4, <1>5

LEMMA RejectedStep ==
    ASSUME AdmissionInv, NEW t \in Tenants, NEW s \in Subjects, Rejected(t, s),
           admissions' \in 0..(CleanupEvery - 1)
    PROVE  AdmissionInv'
<1>. DEFINE w == WindowsFor(t, s)
            x == Touched(w, t, s)
            code == Verdict(t, s)
            left == Retry(code, x, t, s)
            rejection == [code |-> code, tenant |-> t, subject |-> s, left |-> left]
<1>. USE AdmissionConstants
<1>1. /\ code \in Codes /\ UNCHANGED <<global_active, tenant_active, leases>>
      /\ windows' = IF code = "RATE_LIMIT_TRACKING_CAPACITY" THEN w ELSE x
      /\ refusal' = refusal \/ refusal' = rejection
  BY DEF Rejected
<1>2. AdmissionTypeOK /\ LimitsHold /\ WindowsInv /\ RefusalInv
  BY DEF AdmissionInv
<1>3. /\ code = "SUBJECT_RATE_LIMITED" => Cardinality(RecentOf(t, s)) >= SubjectRpm
      /\ code = "TENANT_RATE_LIMITED" => Cardinality(RecentBy(t)) >= TenantRpm
      /\ Remembers(w) /\ Remembers(x)
      /\ x.subjects[<<t, s>>] = RecentOf(t, s) /\ x.tenants[t] = RecentBy(t)
      /\ Tracked(w) <= MaxTracked + 1
      /\ code # "RATE_LIMIT_TRACKING_CAPACITY" => Tracked(x) <= MaxTracked + 1
  BY Verdicts
<1>4. Remembers(windows') /\ Tracked(windows') <= MaxTracked + 1
  BY <1>1, <1>3
<1>5. WindowsInv'
  BY <1>1, <1>4 DEF WindowsInv, Remembers
<1>6. LimitsHold'
  <2>1. /\ Held' = Held /\ \A k : HeldBy(k)' = HeldBy(k) /\ RecentBy(k)' = RecentBy(k)
        /\ \A k, l : RecentOf(k, l)' = RecentOf(k, l)
    BY <1>1 DEF Held, HeldBy, RecentBy, RecentOf
  <2>2. SlotsAreLeases'
    BY <1>1, <1>2, <2>1 DEF LimitsHold, SlotsAreLeases
  <2>3. WindowsForgetNothing'
    BY <1>2, <1>4, <2>1 DEF LimitsHold, WindowsForgetNothing
  <2>. QED  BY <2>2, <2>3 DEF LimitsHold
<1>7. ASSUME code = "SUBJECT_RATE_LIMITED"
      PROVE  \E i \in DOMAIN leases :
                /\ left = leases[i].left + 1
                /\ Cardinality(RecentOf(t, s) \ {i}) < SubjectRpm
  <2>1. Cardinality(RecentOf(t, s)) = SubjectRpm
    <3>1. Cardinality(RecentOf(t, s)) <= SubjectRpm
      BY <1>2 DEF LimitsHold, WindowsForgetNothing
    <3>2. Cardinality(RecentOf(t, s)) \in Nat
      BY <1>2, Leases, Counted
    <3>. QED  BY <1>3, <1>7, <3>1, <3>2
  <2>2. LET n == Oldest(RecentOf(t, s)) IN
        /\ RecentOf(t, s) # {} /\ n \in DOMAIN leases
        /\ Cardinality(RecentOf(t, s) \ {n}) < SubjectRpm
    <3>1. RecentOf(t, s) \in SUBSET DOMAIN leases
      BY DEF RecentBy, RecentOf
    <3>. QED  BY <1>2, <2>1, <3>1, HeadMakesRoom
  <2>3. left = leases[Oldest(RecentOf(t, s))].left + 1
    BY <1>3, <1>7, <2>2 DEF Retry, RetryAfter
  <2>. QED  BY <2>2, <2>3
<1>8. ASSUME code = "TENANT_RATE_LIMITED"
      PROVE  \E i \in DOMAIN leases :
                /\ left = leases[i].left + 1
                /\ Cardinality(RecentBy(t) \ {i}) < TenantRpm
  <2>1. Cardinality(RecentBy(t)) = TenantRpm
    <3>1. Cardinality(RecentBy(t)) <= TenantRpm
      BY <1>2 DEF LimitsHold, WindowsForgetNothing
    <3>2. Cardinality(RecentBy(t)) \in Nat
      BY <1>2, Leases, Counted
    <3>. QED  BY <1>3, <1>8, <3>1, <3>2
  <2>2. LET n == Oldest(RecentBy(t)) IN
        /\ RecentBy(t) # {} /\ n \in DOMAIN leases
        /\ Cardinality(RecentBy(t) \ {n}) < TenantRpm
    <3>1. RecentBy(t) \in SUBSET DOMAIN leases
      BY DEF RecentBy, RecentOf
    <3>. QED  BY <1>2, <2>1, <3>1, HeadMakesRoom
  <2>3. left = leases[Oldest(RecentBy(t))].left + 1
    BY <1>3, <1>8, <2>2 DEF Retry, RetryAfter
  <2>. QED  BY <2>2, <2>3
<1>9. left \in 0..(WindowSeconds + 1)
  <2>1. \A n \in DOMAIN leases : leases[n].left \in 0..WindowSeconds
    BY <1>2, Leases DEF Entries
  <2>2. CASE code \in {"SUBJECT_RATE_LIMITED", "TENANT_RATE_LIMITED"}
    <3>1. PICK i \in DOMAIN leases : left = leases[i].left + 1
      BY <1>7, <1>8, <2>2
    <3>. QED  BY <2>1, <3>1
  <2>3. CASE code \notin {"SUBJECT_RATE_LIMITED", "TENANT_RATE_LIMITED"}
    BY <2>3 DEF Retry
  <2>. QED  BY <2>2, <2>3
<1>10. AdmissionTypeOK'
  <2>1. /\ DOMAIN windows'.subjects \subseteq Identities /\ DOMAIN windows'.tenants \subseteq Tenants
        /\ \A k \in DOMAIN windows'.subjects : windows'.subjects[k] \subseteq DOMAIN leases
        /\ \A k \in DOMAIN windows'.tenants : windows'.tenants[k] \subseteq DOMAIN leases
    BY <1>4 DEF Remembers
  <2>2. rejection \in [code : Codes, tenant : Tenants, subject : Subjects, left : 0..(WindowSeconds + 1)]
    BY <1>1, <1>9
  <2>. QED  BY <1>1, <1>2, <2>1, <2>2 DEF AdmissionTypeOK
<1>11. RefusalInv'
  <2>1. /\ \A k : RecentBy(k)' = RecentBy(k)
        /\ \A k, l : RecentOf(k, l)' = RecentOf(k, l)
    BY <1>1 DEF RecentBy, RecentOf
  <2>2. CASE refusal' = refusal
    BY <1>1, <1>2, <2>1, <2>2 DEF RefusalInv, MakesRoom, Leaves
  <2>3. CASE refusal' = rejection
    <3>1. /\ refusal'.code = code /\ refusal'.tenant = t /\ refusal'.subject = s /\ refusal'.left = left
          /\ leases' = leases
      BY <1>1, <2>3
    <3>2. \A n \in DOMAIN leases : leases[n].left \in Nat /\ leases[n].left <= WindowSeconds
      BY <1>2, Leases DEF Entries
    <3>3. ASSUME code = "SUBJECT_RATE_LIMITED"
          PROVE  \E i \in DOMAIN leases' : MakesRoom(i, RecentOf(refusal.tenant, refusal.subject), SubjectRpm)'
      <4>1. PICK i \in DOMAIN leases :
               /\ left = leases[i].left + 1
               /\ Cardinality(RecentOf(t, s) \ {i}) < SubjectRpm
        BY <1>7, <3>3
      <4>2. RecentOf(t, s)' = RecentOf(t, s)
        BY <2>1
      <4>3. MakesRoom(i, RecentOf(refusal.tenant, refusal.subject), SubjectRpm)'
        BY <3>1, <3>2, <4>1, <4>2 DEF MakesRoom, Leaves
      <4>. QED  BY <3>1, <4>3
    <3>4. ASSUME code = "TENANT_RATE_LIMITED"
          PROVE  \E i \in DOMAIN leases' : MakesRoom(i, RecentBy(refusal.tenant), TenantRpm)'
      <4>1. PICK i \in DOMAIN leases :
               /\ left = leases[i].left + 1
               /\ Cardinality(RecentBy(t) \ {i}) < TenantRpm
        BY <1>8, <3>4
      <4>2. RecentBy(t)' = RecentBy(t)
        BY <2>1
      <4>3. MakesRoom(i, RecentBy(refusal.tenant), TenantRpm)'
        BY <3>1, <3>2, <4>1, <4>2 DEF MakesRoom, Leaves
      <4>. QED  BY <3>1, <4>3
    <3>5. code = "RATE_LIMIT_TRACKING_CAPACITY" => \A i \in DOMAIN leases' : leases'[i].left <= refusal'.left
      BY <3>1, <3>2 DEF Retry
    <3>. QED  BY <3>1, <3>3, <3>4, <3>5 DEF RefusalInv
  <2>. QED  BY <1>1, <2>2, <2>3
<1>. QED  BY <1>5, <1>6, <1>10, <1>11 DEF AdmissionInv

LEMMA AdmittedStep ==
    ASSUME AdmissionInv, NEW t \in Tenants, NEW s \in Subjects, Admitted(t, s),
           admissions' \in 0..(CleanupEvery - 1)
    PROVE  AdmissionInv'
<1>. DEFINE x == Touched(WindowsFor(t, s), t, s)
            n == Len(leases) + 1
            key == <<t, s>>
            lease == [tenant |-> t, subject |-> s, left |-> WindowSeconds, released |-> FALSE]
<1>. USE AdmissionConstants
<1>1. /\ Len(leases) < MaxLeases /\ Verdict(t, s) = "admitted"
      /\ windows' = [subjects |-> With(x.subjects, key, x.subjects[key] \union {n}),
                     tenants  |-> With(x.tenants, t, x.tenants[t] \union {n})]
      /\ global_active' = global_active + 1
      /\ tenant_active' = With(tenant_active, t, Get(tenant_active, t, 0) + 1)
      /\ leases' = Append(leases, lease) /\ refusal' = None
  BY DEF Admitted
<1>2. AdmissionTypeOK /\ LimitsHold /\ WindowsInv /\ RefusalInv
  BY DEF AdmissionInv
<1>3. /\ Len(leases) \in Nat /\ DOMAIN leases = 1..Len(leases) /\ IsFiniteSet(DOMAIN leases)
      /\ leases \in Seq([tenant : Tenants, subject : Subjects, left : Entries, released : BOOLEAN])
  BY <1>2, Leases DEF AdmissionTypeOK
<1>4. lease \in [tenant : Tenants, subject : Subjects, left : Entries, released : BOOLEAN]
  BY DEF Entries
<1>5. /\ leases' \in Seq([tenant : Tenants, subject : Subjects, left : Entries, released : BOOLEAN])
      /\ Len(leases') = n /\ DOMAIN leases' = 1..n /\ leases'[n] = lease
      /\ \A i \in DOMAIN leases : leases'[i] = leases[i]
      /\ DOMAIN leases' = DOMAIN leases \union {n} /\ n \notin DOMAIN leases
  BY <1>1, <1>3, <1>4, AppendProperties, LenProperties
<1>6. /\ Cardinality(RecentOf(t, s)) < SubjectRpm /\ Cardinality(RecentBy(t)) < TenantRpm
      /\ Get(tenant_active, t, 0) < TenantConcurrency /\ global_active < GlobalConcurrency
      /\ Remembers(x) /\ x.subjects[key] = RecentOf(t, s) /\ x.tenants[t] = RecentBy(t)
      /\ key \in DOMAIN x.subjects /\ t \in DOMAIN x.tenants /\ Tracked(x) <= MaxTracked + 1
  BY <1>1, Verdicts
<1>7. /\ DOMAIN windows'.subjects = DOMAIN x.subjects /\ DOMAIN windows'.tenants = DOMAIN x.tenants
      /\ windows'.subjects[key] = RecentOf(t, s) \union {n}
      /\ \A k \in DOMAIN x.subjects : k # key => windows'.subjects[k] = x.subjects[k]
      /\ windows'.tenants[t] = RecentBy(t) \union {n}
      /\ \A k \in DOMAIN x.tenants : k # t => windows'.tenants[k] = x.tenants[k]
  BY <1>1, <1>6 DEF With
<1>. HIDE DEF n, x, key, lease
<1>15. /\ lease.tenant = t /\ lease.subject = s /\ lease.left > 0 /\ ~lease.released
       /\ leases'[n] = lease /\ \A i \in DOMAIN leases : leases'[i] = leases[i]
       /\ DOMAIN leases' = DOMAIN leases \union {n} /\ n \notin DOMAIN leases
  BY <1>5, AdmissionConstants DEF lease
<1>8. /\ Held' = Held \union {n} /\ n \notin Held
      /\ \A k : k # t => HeldBy(k)' = HeldBy(k)
      /\ HeldBy(t)' = HeldBy(t) \union {n} /\ n \notin HeldBy(t)
  <2>1. Held' = Held \union {n} /\ n \notin Held /\ n \notin HeldBy(t) /\ Held \subseteq DOMAIN leases
    BY <1>15 DEF Held, HeldBy
  <2>2. HeldBy(t)' = HeldBy(t) \union {n}
    BY <1>15, <2>1 DEF HeldBy
  <2>3. ASSUME NEW k, k # t PROVE HeldBy(k)' = HeldBy(k)
    BY <1>15, <2>1, <2>3 DEF HeldBy
  <2>. QED  BY <2>1, <2>2, <2>3
<1>9. /\ \A k : k # t => RecentBy(k)' = RecentBy(k)
      /\ RecentBy(t)' = RecentBy(t) \union {n} /\ n \notin RecentBy(t)
      /\ \A k, l : ~(k = t /\ l = s) => RecentOf(k, l)' = RecentOf(k, l)
      /\ RecentOf(t, s)' = RecentOf(t, s) \union {n} /\ n \notin RecentOf(t, s)
  <2>1. /\ RecentBy(t)' = RecentBy(t) \union {n} /\ n \notin RecentBy(t)
        /\ RecentBy(t) \subseteq DOMAIN leases
    BY <1>15 DEF RecentBy
  <2>2. ASSUME NEW k, k # t PROVE RecentBy(k)' = RecentBy(k)
    BY <1>15, <2>2 DEF RecentBy
  <2>3. RecentOf(t, s)' = RecentOf(t, s) \union {n} /\ n \notin RecentOf(t, s)
    BY <1>15, <2>1 DEF RecentOf
  <2>4. \A k : RecentBy(k) \subseteq DOMAIN leases
    BY DEF RecentBy
  <2>5. ASSUME NEW k, NEW l, ~(k = t /\ l = s) PROVE RecentOf(k, l)' = RecentOf(k, l)
    <3>1. CASE k = t
      BY <1>15, <2>1, <2>4, <2>5, <3>1 DEF RecentOf
    <3>2. CASE k # t
      BY <1>15, <2>2, <2>4, <3>2 DEF RecentOf
    <3>. QED  BY <3>1, <3>2
  <2>. QED  BY <2>1, <2>2, <2>3, <2>5
<1>10. AdmissionTypeOK'
  <2>1. /\ DOMAIN windows'.subjects \subseteq Identities /\ DOMAIN windows'.tenants \subseteq Tenants
    BY <1>6, <1>7 DEF Remembers
  <2>2. ASSUME NEW k \in DOMAIN windows'.subjects PROVE windows'.subjects[k] \subseteq DOMAIN leases'
    <3>1. CASE k = key
      BY <3>1, <1>5, <1>7 DEF RecentOf, RecentBy
    <3>2. CASE k # key
      BY <3>2, <1>5, <1>6, <1>7 DEF Remembers
    <3>. QED  BY <3>1, <3>2
  <2>3. ASSUME NEW k \in DOMAIN windows'.tenants PROVE windows'.tenants[k] \subseteq DOMAIN leases'
    <3>1. CASE k = t
      BY <3>1, <1>5, <1>7 DEF RecentBy
    <3>2. CASE k # t
      BY <3>2, <1>5, <1>6, <1>7 DEF Remembers
    <3>. QED  BY <3>1, <3>2
  <2>4. /\ global_active' \in Nat /\ DOMAIN tenant_active' \subseteq Tenants
        /\ \A k \in DOMAIN tenant_active' : tenant_active'[k] \in Nat \ {0}
    BY <1>1, <1>2 DEF AdmissionTypeOK, With, Get
  <2>5. refusal' = None /\ Len(leases') <= MaxLeases
    BY <1>1, <1>3, <1>5
  <2>. QED  BY <1>5, <2>1, <2>2, <2>3, <2>4, <2>5 DEF AdmissionTypeOK
<1>11. SlotsAreLeases'
  <2>1. /\ global_active = Cardinality(Held) /\ Cardinality(Held) <= GlobalConcurrency
        /\ \A k \in Tenants : Get(tenant_active, k, 0) = Cardinality(HeldBy(k))
        /\ \A k \in Tenants : Cardinality(HeldBy(k)) <= TenantConcurrency
    BY <1>2 DEF LimitsHold, SlotsAreLeases
  <2>2. /\ IsFiniteSet(Held) /\ Cardinality(Held) \in Nat
        /\ \A k : IsFiniteSet(HeldBy(k)) /\ Cardinality(HeldBy(k)) \in Nat
    BY <1>3, Counted
  <2>3. Cardinality(Held') = Cardinality(Held) + 1
    BY <1>8, <2>2, FS_AddElement
  <2>4. Cardinality(HeldBy(t)') = Cardinality(HeldBy(t)) + 1
    BY <1>8, <2>2, FS_AddElement
  <2>5. \A k \in Tenants : Get(tenant_active', k, 0) =
           IF k = t THEN Get(tenant_active, k, 0) + 1 ELSE Get(tenant_active, k, 0)
    BY <1>1 DEF Get, With
  <2>6. ASSUME NEW k \in Tenants
        PROVE  /\ Get(tenant_active', k, 0) = Cardinality(HeldBy(k)')
               /\ Cardinality(HeldBy(k)') <= TenantConcurrency
    <3>1. CASE k = t
      BY <3>1, <1>6, <2>1, <2>2, <2>4, <2>5
    <3>2. CASE k # t
      BY <3>2, <1>8, <2>1, <2>5
    <3>. QED  BY <3>1, <3>2
  <2>7. global_active' = Cardinality(Held') /\ Cardinality(Held') <= GlobalConcurrency
    BY <1>1, <1>6, <2>1, <2>2, <2>3
  <2>. QED  BY <2>6, <2>7 DEF SlotsAreLeases
<1>12. WindowsForgetNothing'
  <2>1. \A k \in Tenants : /\ Cardinality(RecentBy(k)) <= TenantRpm
                           /\ \A l \in Subjects : Cardinality(RecentOf(k, l)) <= SubjectRpm
    BY <1>2 DEF LimitsHold, WindowsForgetNothing
  <2>2. /\ \A k : IsFiniteSet(RecentBy(k)) /\ Cardinality(RecentBy(k)) \in Nat
        /\ \A k, l : IsFiniteSet(RecentOf(k, l)) /\ Cardinality(RecentOf(k, l)) \in Nat
    BY <1>3, Counted
  <2>3. Cardinality(RecentBy(t) \union {n}) <= TenantRpm
    <3>1. Cardinality(RecentBy(t) \union {n}) = Cardinality(RecentBy(t)) + 1
      BY <1>9, <2>2, FS_AddElement
    <3>. QED  BY <1>6, <2>2, <3>1, AdmissionConstants
  <2>4. Cardinality(RecentOf(t, s) \union {n}) <= SubjectRpm
    <3>1. Cardinality(RecentOf(t, s) \union {n}) = Cardinality(RecentOf(t, s)) + 1
      BY <1>9, <2>2, FS_AddElement
    <3>. QED  BY <1>6, <2>2, <3>1, AdmissionConstants
  <2>5. ASSUME NEW k \in Tenants
        PROVE  /\ Cardinality(RecentBy(k)') <= TenantRpm
               /\ \A l \in Subjects : Cardinality(RecentOf(k, l)') <= SubjectRpm
    BY <1>9, <2>1, <2>3, <2>4
  <2>6. Tracked(windows') <= MaxTracked + 1
    BY <1>6, <1>7 DEF Tracked
  <2>. QED  BY <2>5, <2>6 DEF WindowsForgetNothing
<1>13. WindowsInv'
  <2>1. /\ DOMAIN windows'.subjects \subseteq Identities /\ DOMAIN windows'.tenants \subseteq Tenants
        /\ IsFiniteSet(DOMAIN windows'.subjects) /\ IsFiniteSet(DOMAIN windows'.tenants)
    BY <1>6, <1>7 DEF Remembers
  <2>2. ASSUME NEW i \in DOMAIN leases', leases'[i].left > 0
        PROVE  LET k == <<leases'[i].tenant, leases'[i].subject>> IN
               /\ k \in DOMAIN windows'.subjects /\ i \in windows'.subjects[k]
               /\ k[1] \in DOMAIN windows'.tenants /\ i \in windows'.tenants[k[1]]
    <3>1. CASE i = n
      BY <3>1, <1>15, <1>6, <1>7 DEF key
    <3>2. CASE i # n
      <4>1. i \in DOMAIN leases /\ leases'[i] = leases[i]
        BY <3>2, <1>5
      <4>. DEFINE k == <<leases[i].tenant, leases[i].subject>>
      <4>2. /\ k \in DOMAIN x.subjects /\ i \in x.subjects[k]
            /\ k[1] \in DOMAIN x.tenants /\ i \in x.tenants[k[1]]
        BY <4>1, <2>2, <1>6 DEF Remembers
      <4>. QED  BY <4>1, <4>2, <1>6, <1>7
    <3>. QED  BY <3>1, <3>2
  <2>3. ASSUME NEW k \in DOMAIN windows'.subjects, NEW i \in windows'.subjects[k]
        PROVE  i \in DOMAIN leases' /\ <<leases'[i].tenant, leases'[i].subject>> = k
    <3>1. CASE i = n /\ k = key
      BY <3>1, <1>15 DEF key
    <3>2. CASE i \in x.subjects[k]
      <4>1. i \in DOMAIN leases /\ <<leases[i].tenant, leases[i].subject>> = k
        BY <3>2, <1>6, <1>7 DEF Remembers
      <4>. QED  BY <4>1, <1>5
    <3>. QED  BY <3>1, <3>2, <1>6, <1>7
  <2>4. ASSUME NEW k \in DOMAIN windows'.tenants, NEW i \in windows'.tenants[k]
        PROVE  i \in DOMAIN leases' /\ leases'[i].tenant = k
    <3>1. CASE i = n /\ k = t
      BY <3>1, <1>15
    <3>2. CASE i \in x.tenants[k]
      <4>1. i \in DOMAIN leases /\ leases[i].tenant = k
        BY <3>2, <1>6, <1>7 DEF Remembers
      <4>. QED  BY <4>1, <1>5
    <3>. QED  BY <3>1, <3>2, <1>6, <1>7
  <2>. QED  BY <2>1, <2>2, <2>3, <2>4 DEF WindowsInv, Remembers
<1>14. RefusalInv'
  BY <1>1 DEF RefusalInv
<1>. QED  BY <1>10, <1>11, <1>12, <1>13, <1>14 DEF AdmissionInv, LimitsHold

(* A step that admits nobody and writes no window.                         *)
LEMMA SameWindows ==
    ASSUME WindowsInv, windows' = windows, DOMAIN leases' = DOMAIN leases,
           \A j \in DOMAIN leases :
              /\ leases'[j].tenant = leases[j].tenant /\ leases'[j].subject = leases[j].subject
              /\ leases'[j].left > 0 => leases[j].left > 0
    PROVE  WindowsInv'
<1>1. /\ DOMAIN windows'.subjects \subseteq Identities /\ DOMAIN windows'.tenants \subseteq Tenants
      /\ IsFiniteSet(DOMAIN windows'.subjects) /\ IsFiniteSet(DOMAIN windows'.tenants)
  BY DEF WindowsInv, Remembers
<1>2. ASSUME NEW i \in DOMAIN leases', leases'[i].left > 0
      PROVE  LET k == <<leases'[i].tenant, leases'[i].subject>> IN
             /\ k \in DOMAIN windows'.subjects /\ i \in windows'.subjects[k]
             /\ k[1] \in DOMAIN windows'.tenants /\ i \in windows'.tenants[k[1]]
  <2>. DEFINE k == <<leases[i].tenant, leases[i].subject>>
  <2>1. /\ k \in DOMAIN windows.subjects /\ i \in windows.subjects[k]
        /\ k[1] \in DOMAIN windows.tenants /\ i \in windows.tenants[k[1]]
    BY <1>2 DEF WindowsInv, Remembers
  <2>2. <<leases'[i].tenant, leases'[i].subject>> = k
    OBVIOUS
  <2>. HIDE DEF k
  <2>. QED  BY <2>1, <2>2
<1>3. ASSUME NEW k \in DOMAIN windows'.subjects, NEW i \in windows'.subjects[k]
      PROVE  i \in DOMAIN leases' /\ <<leases'[i].tenant, leases'[i].subject>> = k
  <2>1. i \in DOMAIN leases /\ <<leases[i].tenant, leases[i].subject>> = k
    BY DEF WindowsInv, Remembers
  <2>. QED  BY <2>1
<1>4. ASSUME NEW k \in DOMAIN windows'.tenants, NEW i \in windows'.tenants[k]
      PROVE  i \in DOMAIN leases' /\ leases'[i].tenant = k
  <2>1. i \in DOMAIN leases /\ leases[i].tenant = k
    BY DEF WindowsInv, Remembers
  <2>. QED  BY <2>1
<1>. QED  BY <1>1, <1>2, <1>3, <1>4 DEF WindowsInv, Remembers

LEMMA ReleaseStep ==
    ASSUME AdmissionInv, NEW i \in DOMAIN leases, Release(i), NEW t, t = leases[i].tenant
    PROVE  AdmissionInv'
<1>. DEFINE active == Get(tenant_active, t, 0) - 1
            Lease == [tenant : Tenants, subject : Subjects, left : Entries, released : BOOLEAN]
<1>1. /\ ~leases[i].released /\ leases' = [leases EXCEPT ![i].released = TRUE]
      /\ global_active' = IF global_active > 0 THEN global_active - 1 ELSE 0
      /\ tenant_active' = IF active > 0 THEN With(tenant_active, t, active)
                          ELSE [k \in DOMAIN tenant_active \ {t} |-> tenant_active[k]]
      /\ UNCHANGED <<windows, admissions, refusal>>
  BY DEF Release
<1>2. AdmissionTypeOK /\ LimitsHold /\ WindowsInv /\ RefusalInv
  BY DEF AdmissionInv
<1>3. /\ Len(leases) \in Nat /\ DOMAIN leases = 1..Len(leases) /\ IsFiniteSet(DOMAIN leases)
      /\ leases \in Seq(Lease)
      /\ \A j \in DOMAIN leases :
            leases[j] \in Lease
  BY <1>2, Leases DEF AdmissionTypeOK
<1>4. /\ leases' \in Seq(Lease)
      /\ Len(leases') = Len(leases) /\ DOMAIN leases' = DOMAIN leases
  <2>. DEFINE returned == [leases[i] EXCEPT !.released = TRUE]
  <2>1. returned \in Lease /\ leases' = [leases EXCEPT ![i] = returned] /\ i \in 1..Len(leases)
    BY <1>1, <1>3
  <2>. HIDE DEF returned, Lease
  <2>2. leases' \in Seq(Lease) /\ Len(leases') = Len(leases)
    BY <1>3, <2>1, ExceptSeq
  <2>. QED  BY <1>3, <2>2, LenProperties
<1>5. \A j \in DOMAIN leases :
         /\ leases'[j].tenant = leases[j].tenant /\ leases'[j].subject = leases[j].subject
         /\ leases'[j].left = leases[j].left
         /\ leases'[j].released <=> leases[j].released \/ j = i
  BY <1>1, <1>3
<1>6. /\ Held' = Held \ {i} /\ i \in Held
      /\ HeldBy(t)' = HeldBy(t) \ {i} /\ i \in HeldBy(t)
      /\ \A k : k # t => HeldBy(k)' = HeldBy(k)
  BY <1>1, <1>4, <1>5 DEF Held, HeldBy
<1>7. /\ \A k : RecentBy(k)' = RecentBy(k)
      /\ \A k, l : RecentOf(k, l)' = RecentOf(k, l)
  BY <1>4, <1>5 DEF RecentBy, RecentOf
<1>8. t \in Tenants
  BY <1>3
<1>9. /\ global_active = Cardinality(Held) /\ Cardinality(Held) <= GlobalConcurrency
      /\ \A k \in Tenants : /\ Get(tenant_active, k, 0) = Cardinality(HeldBy(k))
                            /\ Cardinality(HeldBy(k)) <= TenantConcurrency
  BY <1>2 DEF LimitsHold, SlotsAreLeases
<1>10. /\ IsFiniteSet(Held) /\ Cardinality(Held) \in Nat
       /\ \A k : IsFiniteSet(HeldBy(k)) /\ Cardinality(HeldBy(k)) \in Nat
  BY <1>3, Counted
<1>11. /\ Cardinality(Held') = Cardinality(Held) - 1 /\ Cardinality(Held') \in Nat
  BY <1>6, <1>10, FS_RemoveElement, FS_CardinalityType
<1>12. /\ Cardinality(HeldBy(t)') = Cardinality(HeldBy(t)) - 1 /\ Cardinality(HeldBy(t)') \in Nat
  BY <1>6, <1>10, FS_RemoveElement, FS_CardinalityType
<1>13. active = Cardinality(HeldBy(t)') /\ active \in Nat
  BY <1>8, <1>9, <1>12
<1>14. SlotsAreLeases'
  <2>1. global_active' = Cardinality(Held') /\ Cardinality(Held') <= GlobalConcurrency
    BY <1>1, <1>9, <1>10, <1>11, AdmissionConstants
  <2>2. ASSUME NEW k \in Tenants
        PROVE  /\ Get(tenant_active', k, 0) = Cardinality(HeldBy(k)')
               /\ Cardinality(HeldBy(k)') <= TenantConcurrency
    <3>1. CASE k = t
      <4>1. Get(tenant_active', t, 0) = active
        BY <1>1, <1>13 DEF Get, With
      <4>2. Cardinality(HeldBy(t)) <= TenantConcurrency /\ Cardinality(HeldBy(t)) \in Nat
        BY <1>8, <1>9, <1>10
      <4>. QED  BY <3>1, <4>1, <4>2, <1>12, <1>13, AdmissionConstants
    <3>2. CASE k # t
      <4>1. Get(tenant_active', k, 0) = Get(tenant_active, k, 0)
        BY <3>2, <1>1 DEF Get, With
      <4>. QED  BY <3>2, <4>1, <1>6, <1>9
    <3>. QED  BY <3>1, <3>2
  <2>. QED  BY <2>1, <2>2 DEF SlotsAreLeases
<1>15. WindowsForgetNothing'
  BY <1>1, <1>2, <1>7 DEF LimitsHold, WindowsForgetNothing
<1>16. AdmissionTypeOK'
  <2>1. /\ global_active' \in Nat /\ DOMAIN tenant_active' \subseteq Tenants
    BY <1>1, <1>2, <1>8 DEF AdmissionTypeOK, With
  <2>2. ASSUME NEW k \in DOMAIN tenant_active' PROVE tenant_active'[k] \in Nat \ {0}
    <3>1. CASE active > 0
      BY <3>1, <1>1, <1>2, <1>13 DEF AdmissionTypeOK, With
    <3>2. CASE ~(active > 0)
      BY <3>2, <1>1, <1>2 DEF AdmissionTypeOK
    <3>. QED  BY <3>1, <3>2
  <2>. QED  BY <1>1, <1>2, <1>4, <2>1, <2>2 DEF AdmissionTypeOK
<1>17. WindowsInv'
  <2>1. /\ windows' = windows /\ DOMAIN leases' = DOMAIN leases
        /\ \A j \in DOMAIN leases : leases'[j].left > 0 => leases[j].left > 0
    BY <1>1, <1>4, <1>5
  <2>. QED  BY <1>2, <1>5, <2>1, SameWindows
<1>18. RefusalInv'
  BY <1>1, <1>2, <1>4, <1>5, <1>7 DEF RefusalInv, MakesRoom, Leaves
<1>. QED  BY <1>14, <1>15, <1>16, <1>17, <1>18 DEF AdmissionInv, LimitsHold

LEMMA TimePassesStep ==
    ASSUME AdmissionInv, TimePasses
    PROVE  AdmissionInv'
<1>. USE AdmissionConstants
<1>1. /\ leases' = [i \in DOMAIN leases |-> [leases[i] EXCEPT !.left = Later(@)]]
      /\ refusal' = IF refusal = None THEN None ELSE [refusal EXCEPT !.left = Later(@)]
      /\ UNCHANGED <<windows, global_active, tenant_active, admissions>>
  BY DEF TimePasses
<1>2. AdmissionTypeOK /\ LimitsHold /\ WindowsInv /\ RefusalInv
  BY DEF AdmissionInv
<1>3. /\ Len(leases) \in Nat /\ DOMAIN leases = 1..Len(leases) /\ IsFiniteSet(DOMAIN leases)
      /\ \A j \in DOMAIN leases :
            leases[j] \in [tenant : Tenants, subject : Subjects, left : Entries, released : BOOLEAN]
  BY <1>2, Leases
<1>4. \A j \in DOMAIN leases :
         /\ leases'[j].tenant = leases[j].tenant /\ leases'[j].subject = leases[j].subject
         /\ leases'[j].left = Later(leases[j].left) /\ leases'[j].released = leases[j].released
         /\ leases'[j] \in [tenant : Tenants, subject : Subjects, left : Entries, released : BOOLEAN]
         /\ leases[j].left \in Nat /\ leases'[j].left \in Nat
  BY <1>1, <1>3 DEF Later, Entries
<1>5. DOMAIN leases' = DOMAIN leases
  BY <1>1
<1>6. /\ leases' \in Seq([tenant : Tenants, subject : Subjects, left : Entries, released : BOOLEAN])
      /\ Len(leases') = Len(leases)
  <2>. DEFINE Lease == [tenant : Tenants, subject : Subjects, left : Entries, released : BOOLEAN]
  <2>1. leases' \in [1..Len(leases) -> Lease]
    BY <1>1, <1>3, <1>4
  <2>. HIDE DEF Lease
  <2>2. leases' \in Seq(Lease)
    BY <2>1, <1>3
  <2>3. Len(leases') = Len(leases)
    BY <1>3, <1>5, <2>2, LenProperties
  <2>. QED  BY <2>2, <2>3 DEF Lease
<1>7. Held' = Held /\ \A k : HeldBy(k)' = HeldBy(k)
  BY <1>4, <1>5 DEF Held, HeldBy
<1>8. /\ \A k : RecentBy(k)' \subseteq RecentBy(k)
      /\ \A k, l : RecentOf(k, l)' \subseteq RecentOf(k, l)
  BY <1>4, <1>5 DEF RecentBy, RecentOf, Later
<1>9. /\ \A k : IsFiniteSet(RecentBy(k)) /\ Cardinality(RecentBy(k)) \in Nat
      /\ \A k, l : IsFiniteSet(RecentOf(k, l)) /\ Cardinality(RecentOf(k, l)) \in Nat
  BY <1>3, Counted
<1>10. SlotsAreLeases'
  BY <1>1, <1>2, <1>7 DEF LimitsHold, SlotsAreLeases
<1>11. WindowsForgetNothing'
  <2>1. \A k \in Tenants : /\ Cardinality(RecentBy(k)) <= TenantRpm
                           /\ \A l \in Subjects : Cardinality(RecentOf(k, l)) <= SubjectRpm
    BY <1>2 DEF LimitsHold, WindowsForgetNothing
  <2>2. /\ \A k : Cardinality(RecentBy(k)') <= Cardinality(RecentBy(k)) /\ Cardinality(RecentBy(k)') \in Nat
        /\ \A k, l : /\ Cardinality(RecentOf(k, l)') <= Cardinality(RecentOf(k, l))
                     /\ Cardinality(RecentOf(k, l)') \in Nat
    BY <1>8, <1>9, FS_Subset, FS_CardinalityType
  <2>3. Tracked(windows') <= MaxTracked + 1
    BY <1>1, <1>2 DEF LimitsHold, WindowsForgetNothing
  <2>4. ASSUME NEW k \in Tenants
        PROVE  /\ Cardinality(RecentBy(k)') <= TenantRpm
               /\ \A l \in Subjects : Cardinality(RecentOf(k, l)') <= SubjectRpm
    BY <1>9, <2>1, <2>2
  <2>. QED  BY <2>3, <2>4 DEF WindowsForgetNothing
<1>12. ASSUME refusal # None
       PROVE  /\ refusal' # None /\ refusal'.code = refusal.code /\ refusal'.tenant = refusal.tenant
              /\ refusal'.subject = refusal.subject /\ refusal'.left = Later(refusal.left)
              /\ refusal.left \in 0..(WindowSeconds + 1)
              /\ refusal' \in [code : Codes, tenant : Tenants, subject : Subjects, left : 0..(WindowSeconds + 1)]
  <2>1. refusal \in [code : Codes, tenant : Tenants, subject : Subjects, left : 0..(WindowSeconds + 1)]
    BY <1>2, <1>12 DEF AdmissionTypeOK
  <2>2. Later(refusal.left) \in 0..(WindowSeconds + 1)
    BY <2>1, AdmissionConstants DEF Later
  <2>3. refusal' = [refusal EXCEPT !.left = Later(refusal.left)]
    BY <1>1, <1>12
  <2>4. /\ refusal'.code = refusal.code /\ refusal'.tenant = refusal.tenant
        /\ refusal'.subject = refusal.subject /\ refusal'.left = Later(refusal.left)
        /\ refusal' \in [code : Codes, tenant : Tenants, subject : Subjects, left : 0..(WindowSeconds + 1)]
    BY <2>1, <2>2, <2>3
  <2>5. refusal' # None
    BY <2>1, <2>4 DEF None, Codes
  <2>. QED  BY <2>1, <2>4, <2>5
<1>13. AdmissionTypeOK'
  <2>1. \/ refusal' = None
        \/ refusal' \in [code : Codes, tenant : Tenants, subject : Subjects, left : 0..(WindowSeconds + 1)]
    BY <1>1, <1>12
  <2>. QED  BY <1>1, <1>2, <1>5, <1>6, <2>1 DEF AdmissionTypeOK
<1>14. WindowsInv'
  <2>1. \A j \in DOMAIN leases : leases'[j].left > 0 => leases[j].left > 0
    BY <1>4 DEF Later
  <2>. QED  BY <1>1, <1>2, <1>4, <1>5, <2>1, SameWindows
<1>15. ASSUME NEW i \in DOMAIN leases, NEW W, NEW V, V \subseteq W, IsFiniteSet(W), NEW limit \in Nat,
              refusal # None, Leaves(i), Cardinality(W \ {i}) < limit
       PROVE  Leaves(i)' /\ Cardinality(V \ {i}) < limit
  <2>1. Leaves(i)'
    BY <1>4, <1>12, <1>15 DEF Leaves, Later
  <2>2. IsFiniteSet(W \ {i}) /\ V \ {i} \in SUBSET (W \ {i})
    BY <1>15, FS_Subset
  <2>3. /\ Cardinality(V \ {i}) <= Cardinality(W \ {i})
        /\ Cardinality(V \ {i}) \in Nat /\ Cardinality(W \ {i}) \in Nat
    BY <2>2, FS_Subset, FS_CardinalityType
  <2>. QED  BY <1>15, <2>1, <2>3
<1>16. RefusalInv'
  <2>1. CASE refusal = None
    BY <1>1, <2>1 DEF RefusalInv
  <2>2. CASE refusal # None
    <3>. DEFINE t == refusal.tenant
                s == refusal.subject
    <3>1. ASSUME refusal.code = "SUBJECT_RATE_LIMITED"
          PROVE  \E i \in DOMAIN leases' : MakesRoom(i, RecentOf(refusal.tenant, refusal.subject), SubjectRpm)'
      <4>1. PICK i \in DOMAIN leases : Leaves(i) /\ Cardinality(RecentOf(t, s) \ {i}) < SubjectRpm
        BY <1>2, <2>2, <3>1 DEF RefusalInv, MakesRoom
      <4>2. RecentOf(refusal.tenant, refusal.subject)' \subseteq RecentOf(t, s) /\ IsFiniteSet(RecentOf(t, s))
        <5>1. refusal'.tenant = t /\ refusal'.subject = s
          BY <1>12, <2>2
        <5>2. \A j \in DOMAIN leases : leases'[j].left > 0 => leases[j].left > 0
          BY <1>4 DEF Later
        <5>3. RecentOf(refusal.tenant, refusal.subject)' \subseteq RecentOf(t, s)
          BY <1>4, <1>5, <5>1, <5>2 DEF RecentOf, RecentBy
        <5>. QED  BY <5>3, <1>9
      <4>3. MakesRoom(i, RecentOf(refusal.tenant, refusal.subject), SubjectRpm)'
        BY <1>15, <2>2, <4>1, <4>2 DEF MakesRoom
      <4>. QED  BY <1>5, <4>3
    <3>2. ASSUME refusal.code = "TENANT_RATE_LIMITED"
          PROVE  \E i \in DOMAIN leases' : MakesRoom(i, RecentBy(refusal.tenant), TenantRpm)'
      <4>1. PICK i \in DOMAIN leases : Leaves(i) /\ Cardinality(RecentBy(t) \ {i}) < TenantRpm
        BY <1>2, <2>2, <3>2 DEF RefusalInv, MakesRoom
      <4>2. RecentBy(refusal.tenant)' \subseteq RecentBy(t) /\ IsFiniteSet(RecentBy(t))
        BY <1>8, <1>9, <1>12, <2>2
      <4>3. MakesRoom(i, RecentBy(refusal.tenant), TenantRpm)'
        BY <1>15, <2>2, <4>1, <4>2 DEF MakesRoom
      <4>. QED  BY <1>5, <4>3
    <3>3. ASSUME refusal.code = "RATE_LIMIT_TRACKING_CAPACITY", NEW i \in DOMAIN leases
          PROVE  leases'[i].left <= refusal'.left
      <4>1. leases[i].left <= refusal.left
        BY <1>2, <2>2, <3>3 DEF RefusalInv
      <4>. QED  BY <1>4, <1>12, <2>2, <4>1 DEF Later
    <3>. QED  BY <1>5, <1>12, <2>2, <3>1, <3>2, <3>3 DEF RefusalInv
  <2>. QED  BY <2>1, <2>2
<1>. QED  BY <1>10, <1>11, <1>13, <1>14, <1>16 DEF AdmissionInv, LimitsHold

(* The inductive invariant of the traffic guard: counters and windows say  *)
(* what the leases say, and a refusal says when its cause ends.            *)
THEOREM AdmissionInvariant == AdmissionSpec => []AdmissionInv
<1>1. AdmissionInit => AdmissionInv
  BY AdmissionInitially
<1>2. AdmissionInv /\ [AdmissionNext]_admissionVars => AdmissionInv'
  <2>. SUFFICES ASSUME AdmissionInv, [AdmissionNext]_admissionVars PROVE AdmissionInv'
    OBVIOUS
  <2>1. ASSUME NEW t \in Tenants, NEW s \in Subjects, AcquireLease(t, s) PROVE AdmissionInv'
    <3>1. admissions' \in 0..(CleanupEvery - 1)
      BY <2>1, AdmissionConstants DEF AcquireLease, AdmissionInv, AdmissionTypeOK
    <3>. QED  BY <2>1, <3>1, RejectedStep, AdmittedStep DEF AcquireLease
  <2>2. ASSUME NEW i \in DOMAIN leases, Release(i) PROVE AdmissionInv'
    BY <2>2, ReleaseStep
  <2>3. CASE TimePasses
    BY <2>3, TimePassesStep
  <2>4. CASE UNCHANGED admissionVars
    <3>. USE <2>4 DEF admissionVars, AdmissionInv
    <3>1. AdmissionTypeOK'
      BY DEF AdmissionTypeOK
    <3>2. LimitsHold'
      BY DEF LimitsHold, SlotsAreLeases, WindowsForgetNothing, Held, HeldBy, RecentBy, RecentOf
    <3>3. WindowsInv'
      BY DEF WindowsInv, Remembers
    <3>4. RefusalInv'
      BY DEF RefusalInv, MakesRoom, Leaves, RecentBy, RecentOf
    <3>. QED  BY <3>1, <3>2, <3>3, <3>4
  <2>. QED  BY <2>1, <2>2, <2>3, <2>4 DEF AdmissionNext
<1>. QED  BY <1>1, <1>2, PTL DEF AdmissionSpec

(* Windows, counters and leases have the types GovernedTrafficGuard gives  *)
(* them.                                                                   *)
THEOREM AdmissionTypeCorrect == AdmissionSpec => []AdmissionTypeOK
<1>1. AdmissionInv => AdmissionTypeOK
  BY DEF AdmissionInv
<1>. QED  BY <1>1, AdmissionInvariant, PTL

(* acquire and release keep slots and rates within their limits, and the   *)
(* sweep forgets no admission that counts, for any tenants and subjects.   *)
THEOREM NoLimitIsExceeded == AdmissionSpec => []LimitsHold
<1>1. AdmissionInv => LimitsHold
  BY DEF AdmissionInv
<1>. QED  BY <1>1, AdmissionInvariant, PTL

LEMMA WhoWaitsIsNotRejected == AdmissionInv => RetryAfterSuffices
<1>. SUFFICES ASSUME AdmissionInv, refusal # None, refusal.left = 0,
                     refusal.code \notin {"TENANT_CONCURRENCY_LIMIT", "GLOBAL_CONCURRENCY_LIMIT"},
                     Verdict(refusal.tenant, refusal.subject) = refusal.code
              PROVE  FALSE
  BY DEF RetryAfterSuffices
<1>. USE AdmissionConstants
<1>. DEFINE t == refusal.tenant
            s == refusal.subject
            w == WindowsFor(t, s)
<1>1. /\ AdmissionTypeOK /\ WindowsInv /\ RefusalInv
      /\ t \in Tenants /\ s \in Subjects /\ refusal.code \in Codes
  BY DEF AdmissionInv, AdmissionTypeOK
<1>2. \A i \in DOMAIN leases : leases[i].left \in Nat
  BY <1>1, Leases DEF Entries
<1>3. /\ Verdict(t, s) = "RATE_LIMIT_TRACKING_CAPACITY" => ~Knows(w, t, s) /\ Tracked(w) >= MaxTracked
      /\ Verdict(t, s) = "SUBJECT_RATE_LIMITED" => Cardinality(RecentOf(t, s)) >= SubjectRpm
      /\ Verdict(t, s) = "TENANT_RATE_LIMITED" => Cardinality(RecentBy(t)) >= TenantRpm
  BY <1>1, Verdicts
<1>4. /\ Cardinality(RecentOf(t, s)) \in Nat /\ Cardinality(RecentBy(t)) \in Nat
  BY <1>1, Leases, Counted
<1>5. CASE refusal.code = "SUBJECT_RATE_LIMITED"
  <2>1. PICK i \in DOMAIN leases : Leaves(i) /\ Cardinality(RecentOf(t, s) \ {i}) < SubjectRpm
    BY <1>1, <1>5 DEF RefusalInv, MakesRoom
  <2>2. RecentOf(t, s) \ {i} = RecentOf(t, s)
    BY <1>2, <2>1 DEF Leaves, RecentOf, RecentBy
  <2>. QED  BY <1>3, <1>4, <1>5, <2>1, <2>2
<1>6. CASE refusal.code = "TENANT_RATE_LIMITED"
  <2>1. PICK i \in DOMAIN leases : Leaves(i) /\ Cardinality(RecentBy(t) \ {i}) < TenantRpm
    BY <1>1, <1>6 DEF RefusalInv, MakesRoom
  <2>2. RecentBy(t) \ {i} = RecentBy(t)
    BY <1>2, <2>1 DEF Leaves, RecentBy
  <2>. QED  BY <1>3, <1>4, <1>6, <2>1, <2>2
<1>7. CASE refusal.code = "RATE_LIMIT_TRACKING_CAPACITY"
  <2>. DEFINE v == IF (admissions + 1) % CleanupEvery = 0 THEN Cleanup(windows) ELSE windows
  <2>1. w = IF Knows(v, t, s) THEN v ELSE Cleanup(v)
    BY DEF WindowsFor
  <2>2. ~Knows(w, t, s) /\ Tracked(w) >= MaxTracked
    BY <1>3, <1>7
  <2>3. w = Cleanup(v)
    BY <2>1, <2>2
  <2>4. \A i \in DOMAIN leases : leases[i].left = 0
    BY <1>1, <1>2, <1>7 DEF RefusalInv
  <2>5. Remembers(v)
    BY <1>1, CleanupRemembers DEF WindowsInv
  <2>6. /\ \A k \in DOMAIN v.subjects : Prune(v.subjects[k]) = {}
        /\ \A k \in DOMAIN v.tenants : Prune(v.tenants[k]) = {}
    BY <2>4, <2>5 DEF Prune, Remembers
  <2>7. DOMAIN w.subjects = {} /\ DOMAIN w.tenants = {}
    <3>1. \A f : (\A k \in DOMAIN f : Prune(f[k]) = {}) => DOMAIN Swept(f) = {}
      BY DEF Swept
    <3>2. w.subjects = Swept(v.subjects) /\ w.tenants = Swept(v.tenants)
      BY <2>3 DEF Cleanup
    <3>. HIDE DEF v, w
    <3>. QED  BY <2>6, <3>1, <3>2
  <2>8. Tracked(w) = 0
    BY <2>7, FS_EmptySet DEF Tracked
  <2>. QED  BY <2>2, <2>8
<1>. QED  BY <1>1, <1>5, <1>6, <1>7 DEF Codes

(* Who waits for the retry_after of a refusal is not refused for the same  *)
(* cause again, unless another request was admitted meanwhile.             *)
THEOREM WaitingSuffices == AdmissionSpec => []RetryAfterSuffices
  BY WhoWaitsIsNotRejected, AdmissionInvariant, PTL

-----------------------------------------------------------------------------
(* AgentTurn.                                                              *)
UnitOutcomes == {"COMPLETE", "DEFERRED", "BLOCKED", "ERROR"}
UnitStatuses == UnitOutcomes \union {"none", "SKIPPED"}
Places == {"idle", "authorize", "context", "plan", "execute", "tools", "finalize", "done"}
Finals == AnswerStatuses \union {"none", "COMPLETE", "STOPPED"}

IsTurn ==
    turn = [at |-> turn.at, route |-> turn.route, authorized |-> turn.authorized,
            context |-> turn.context, round |-> turn.round, todo |-> turn.todo,
            decision |-> turn.decision, step |-> turn.step, search |-> turn.search,
            final |-> turn.final, answer |-> turn.answer, status |-> turn.status]

(* What has been gathered of the units, a failed attempt counted in.       *)
UnitsInv ==
    /\ results \in [Ids -> [status : UnitStatuses, attempt : Nat]]
    /\ evidence \in [Ids -> SUBSET (Ids \X (1..(TurnRetries + 1)))]
    /\ outcomes \in [Ids -> Seq(UnitOutcomes)]
    /\ \A u \in Ids : /\ results[u].attempt = Len(outcomes[u])
                      /\ results[u].attempt <= TurnRetries + 1
                      /\ Completed(u) => results[u].attempt > 0

(* Where a turn is, it has passed what comes before.                       *)
PlaceInv ==
    /\ IsTurn
    /\ turn.at \in Places /\ turn.route \in Routes /\ turn.round \in 0..TurnRetries
    /\ turn.todo \subseteq Ids /\ turn.final \in Finals
    /\ {turn.answer, turn.status} \subseteq AnswerStatuses \union {"none"}
    /\ turn.at \in {"context", "plan", "execute"} => turn.authorized
    /\ turn.at \in {"plan", "execute"} => turn.context = "READY"
    /\ turn.at \in {"authorize", "context", "plan"} =>
           turn.round = 0 /\ \A u \in Ids : results[u] = Fresh
    /\ turn.decision # "none" =>
           /\ turn.at \in {"execute", "finalize", "done"}
           /\ turn.authorized /\ turn.context = "READY"

(* A unit the round has been at is as its dependencies want it.            *)
Settled(u) ==
    IF Blocker(u) THEN results[u].status = "SKIPPED"
    ELSE /\ outcomes[u] # <<>> /\ results[u].status = outcomes[u][Len(outcomes[u])]
         /\ Units[u].kind = "EVIDENCE_SUMMARY" => evidence[u] = Verified(u)

(* A round comes to all that depends on what it comes to.                  *)
RoundInv ==
    turn.at = "execute" =>
        /\ Closed(turn.todo)
        /\ \A u \in Ids : IF u \in turn.todo THEN results[u].attempt <= turn.round
                          ELSE Settled(u) /\ results[u].attempt <= turn.round + 1

TurnInv == UnitsInv /\ PlaceInv /\ RoundInv /\ AnalysisOutcomeIsBacked

(* Under a transparent plan no unit is blocked that has run, and what is   *)
(* still to run has failed or waited.                                      *)
RetryInv ==
    turn.at = "execute" =>
        /\ \A u \in turn.todo :
              /\ ~Completed(u)
              /\ outcomes[u] # <<>> => outcomes[u][Len(outcomes[u])] = "ERROR"
        /\ \A u \in Ids : outcomes[u] # <<>> => ~Blocker(u)

(* A plan depends on what it has, and only backwards.                      *)
LEMMA Backwards ==
    ASSUME NEW u \in Ids
    PROVE  /\ Ids \subseteq Nat
           /\ Units[u].depends \subseteq Ids /\ u \notin Units[u].depends
           /\ \A d \in Units[u].depends : d < u
<1>1. Len(Units) \in Nat /\ Ids = 1..Len(Units)
  BY PlanAssumption, LenProperties DEF Ids
<1>2. Units[u].depends \subseteq 1..(u - 1)
  BY PlanAssumption DEF Ids
<1>. QED  BY <1>1, <1>2

LEMMA TurnConstants == TurnRetries \in Nat
  BY PlanAssumption

-----------------------------------------------------------------------------
LEMMA TurnInitially == TurnInit => TurnInv
<1>. SUFFICES ASSUME TurnInit PROVE TurnInv
  OBVIOUS
<1>1. UnitsInv
  <2>1. <<>> \in Seq(UnitOutcomes) /\ Len(<<>>) = 0
    OBVIOUS
  <2>. QED  BY <2>1, TurnConstants DEF TurnInit, UnitsInv, Fresh, UnitStatuses, Completed
<1>2. PlaceInv
  <2>1. NoRoute \in Routes
    <3>. DEFINE q == [metrics |-> 0, datasets |-> FALSE, entities |-> FALSE, dimensions |-> FALSE,
                      marks |-> {"sql"}]
    <3>1. q \in Questions
      BY DEF Questions, Marks
    <3>2. RouteOf(q) = NoRoute
      BY DEF RouteOf
    <3>. HIDE DEF q
    <3>. QED  BY <3>1, <3>2 DEF Routes
  <2>2. IsTurn
    BY DEF TurnInit, NoTurn, IsTurn
  <2>. QED  BY <2>1, <2>2, TurnConstants
            DEF TurnInit, NoTurn, PlaceInv, Places, Finals
<1>3. RoundInv /\ AnalysisOutcomeIsBacked
  BY DEF TurnInit, NoTurn, RoundInv, AnalysisOutcomeIsBacked
<1>. QED  BY <1>1, <1>2, <1>3 DEF TurnInv

(* A step that leaves the units alone and is not of their execution.       *)
LEMMA UnitsStay ==
    ASSUME UnitsInv, UNCHANGED <<results, evidence, outcomes>>
    PROVE  UnitsInv'
  BY DEF UnitsInv, Completed, Ids

LEMMA RunKeeps ==
    ASSUME TurnInv, NEW route \in Routes, Run(route)
    PROVE  TurnInv'
<1>1. UnitsInv'
  <2>1. <<>> \in Seq(UnitOutcomes) /\ Len(<<>>) = 0
    OBVIOUS
  <2>. QED  BY <2>1, TurnConstants DEF Run, UnitsInv, Fresh, UnitStatuses, Completed
<1>2. PICK at \in {"finalize", "authorize"}, answer \in {"BLOCKED", "none"} :
         turn' = [at |-> at, route |-> route, authorized |-> FALSE, context |-> "none",
                  round |-> 0, todo |-> {}, decision |-> "none", step |-> 1,
                  search |-> "none", final |-> "none", answer |-> answer, status |-> "none"]
  BY DEF Run, NoTurn
<1>3. PlaceInv'
  <2>1. IsTurn'
    BY <1>2 DEF IsTurn
  <2>2. \A u \in Ids : results'[u] = Fresh
    BY DEF Run
  <2>. QED  BY <1>2, <2>1, <2>2, TurnConstants DEF PlaceInv, Places, Finals, AnswerStatuses
<1>4. RoundInv' /\ AnalysisOutcomeIsBacked'
  BY <1>2 DEF RoundInv, AnalysisOutcomeIsBacked
<1>. QED  BY <1>1, <1>3, <1>4 DEF TurnInv

(* A step from place to place that decides nothing of an analysis.         *)
LEMMA PlaceKeeps ==
    ASSUME TurnInv, UNCHANGED <<results, evidence, outcomes>>, turn.decision = "none", IsTurn',
           turn'.at \in Places \ {"execute"}, turn'.route = turn.route,
           turn'.round = turn.round, turn'.todo = turn.todo, turn'.decision = turn.decision,
           turn'.status = turn.status, turn'.final \in Finals,
           turn'.answer \in AnswerStatuses \union {"none"},
           turn'.at \in {"context", "plan"} => turn'.authorized,
           turn'.at = "plan" => turn'.context = "READY",
           turn'.at \in {"authorize", "context", "plan"}
              => turn.at \in {"authorize", "context", "plan"}
    PROVE  TurnInv'
<1>1. UnitsInv'
  BY UnitsStay DEF TurnInv
<1>2. PlaceInv'
  BY DEF TurnInv, PlaceInv
<1>3. RoundInv' /\ AnalysisOutcomeIsBacked'
  BY DEF RoundInv, AnalysisOutcomeIsBacked
<1>. QED  BY <1>1, <1>2, <1>3 DEF TurnInv

LEMMA PreparationKeeps ==
    ASSUME TurnInv,
           \/ \E b \in BOOLEAN : Authorize(b)
           \/ \E missing \in SUBSET {"SEMANTIC", "METADATA", "SKILL"}, b \in BOOLEAN :
                 LoadContext(missing, b)
           \/ \E status \in {"CLARIFICATION_REQUIRED", "BLOCKED", "ERROR"} : PlanAnalysis(status)
    PROVE  TurnInv'
<1>1. IsTurn /\ turn.final \in Finals /\ turn.answer \in AnswerStatuses \union {"none"}
  BY DEF TurnInv, PlaceInv
<1>2. ASSUME NEW b \in BOOLEAN, Authorize(b) PROVE TurnInv'
  <2>1. turn.at = "authorize" /\ turn.decision = "none" /\ UNCHANGED <<results, evidence, outcomes>>
    BY <1>2 DEF Authorize, TurnInv, PlaceInv
  <2>2. turn' = [at |-> IF b THEN "context" ELSE "finalize", route |-> turn.route,
                 authorized |-> b, context |-> turn.context, round |-> turn.round,
                 todo |-> turn.todo, decision |-> turn.decision, step |-> turn.step,
                 search |-> turn.search, final |-> turn.final,
                 answer |-> IF b THEN "none" ELSE "BLOCKED", status |-> turn.status]
    BY <1>1, <1>2 DEF Authorize, IsTurn
  <2>3. IsTurn'
    BY <2>2 DEF IsTurn
  <2>. QED  BY <1>1, <2>1, <2>2, <2>3, PlaceKeeps DEF Places, AnswerStatuses
<1>3. ASSUME NEW missing \in SUBSET {"SEMANTIC", "METADATA", "SKILL"}, NEW b \in BOOLEAN,
             LoadContext(missing, b)
      PROVE  TurnInv'
  <2>1. /\ turn.at = "context" /\ turn.decision = "none" /\ turn.authorized
        /\ UNCHANGED <<results, evidence, outcomes>>
    BY <1>3 DEF LoadContext, TurnInv, PlaceInv
  <2>2. PICK at \in {"finalize", "plan", "tools"}, context \in {"BLOCKED", "READY"},
             final \in {"NEEDS_DISCOVERY", "COMPLETE"}, answer \in {"BLOCKED", "none"} :
          /\ at = "plan" => context = "READY"
          /\ turn' = [turn EXCEPT !.context = context, !.at = at, !.answer = answer,
                                  !.final = final]
    BY <1>3 DEF LoadContext, ContextStatus
  <2>3. turn' = [at |-> at, route |-> turn.route, authorized |-> turn.authorized,
                 context |-> context, round |-> turn.round,
                 todo |-> turn.todo, decision |-> turn.decision, step |-> turn.step,
                 search |-> turn.search, final |-> final, answer |-> answer,
                 status |-> turn.status]
    BY <1>1, <2>2 DEF IsTurn
  <2>4. IsTurn'
    BY <2>3 DEF IsTurn
  <2>. QED  BY <2>1, <2>2, <2>3, <2>4, PlaceKeeps DEF Places, AnswerStatuses, Finals
<1>4. ASSUME NEW status \in {"CLARIFICATION_REQUIRED", "BLOCKED", "ERROR"}, PlanAnalysis(status)
      PROVE  TurnInv'
  <2>1. turn.at = "plan" /\ turn.decision = "none" /\ UNCHANGED <<results, evidence, outcomes>>
    BY <1>4 DEF PlanAnalysis, TurnInv, PlaceInv
  <2>2. turn' = [at |-> "finalize", route |-> turn.route,
                 authorized |-> turn.authorized, context |-> turn.context, round |-> turn.round,
                 todo |-> turn.todo, decision |-> turn.decision, step |-> turn.step,
                 search |-> turn.search, final |-> turn.final,
                 answer |-> status, status |-> turn.status]
    BY <1>1, <1>4 DEF PlanAnalysis, Answer, IsTurn
  <2>3. IsTurn'
    BY <2>2 DEF IsTurn
  <2>. QED  BY <1>1, <2>1, <2>2, <2>3, PlaceKeeps DEF Places, AnswerStatuses
<1>. QED  BY <1>2, <1>3, <1>4

(* The tools.                                                              *)
LEMMA ToolsKeep ==
    ASSUME TurnInv,
           \/ \E status \in {"ANSWERED", "COMPLETE", "DEFERRED", "BLOCKED", "ERROR", "NOT_FOUND",
                             "CLARIFICATION_REQUIRED"} : CallTool(status)
           \/ \E fetched \in ToolOutcomes("fetch_knowledge") \union {"none"} : FetchHits(fetched)
           \/ ComposeTools
    PROVE  TurnInv'
<1>1. /\ IsTurn /\ turn.final \in Finals /\ turn.answer \in AnswerStatuses \union {"none"}
      /\ turn.at = "tools" => turn.decision = "none"
  BY DEF TurnInv, PlaceInv
<1>2. ASSUME NEW status \in {"ANSWERED", "COMPLETE", "DEFERRED", "BLOCKED", "ERROR", "NOT_FOUND",
                             "CLARIFICATION_REQUIRED"}, CallTool(status)
      PROVE  TurnInv'
  <2>1. turn.at = "tools" /\ UNCHANGED <<results, evidence, outcomes>>
    BY <1>2 DEF CallTool
  <2>2. PICK final, search, step : /\ final = MapStatus(status, turn.route.status = "NEEDS_DISCOVERY")
                                   /\ turn' = [turn EXCEPT !.final = final, !.search = search, !.step = step]
    BY <1>2 DEF CallTool
  <2>3. final \in Finals
    BY <2>2 DEF MapStatus, Finals, AnswerStatuses
  <2>4. turn' = [at |-> turn.at, route |-> turn.route, authorized |-> turn.authorized,
                 context |-> turn.context, round |-> turn.round,
                 todo |-> turn.todo, decision |-> turn.decision, step |-> step,
                 search |-> search, final |-> final, answer |-> turn.answer,
                 status |-> turn.status]
    BY <1>1, <2>2 DEF IsTurn
  <2>5. IsTurn'
    BY <2>4 DEF IsTurn
  <2>. QED  BY <1>1, <2>1, <2>3, <2>4, <2>5, PlaceKeeps DEF Places
<1>3. ASSUME NEW fetched \in ToolOutcomes("fetch_knowledge") \union {"none"}, FetchHits(fetched)
      PROVE  TurnInv'
  <2>1. turn.at = "tools" /\ UNCHANGED <<results, evidence, outcomes>>
    BY <1>3 DEF FetchHits
  <2>2. PICK final, step : /\ final = IF fetched = "none" THEN "STOPPED" ELSE MapStatus(fetched, FALSE)
                           /\ turn' = [turn EXCEPT !.step = step, !.final = final]
    BY <1>3 DEF FetchHits
  <2>3. final \in Finals
    <3>1. fetched \in {"ANSWERED", "DEFERRED", "NOT_FOUND", "none"}
      BY DEF ToolOutcomes, KnowledgeOutcomes
    <3>. QED  BY <2>2, <3>1 DEF MapStatus, Finals, AnswerStatuses
  <2>4. turn' = [at |-> turn.at, route |-> turn.route, authorized |-> turn.authorized,
                 context |-> turn.context, round |-> turn.round,
                 todo |-> turn.todo, decision |-> turn.decision, step |-> step,
                 search |-> turn.search, final |-> final, answer |-> turn.answer,
                 status |-> turn.status]
    BY <1>1, <2>2 DEF IsTurn
  <2>5. IsTurn'
    BY <2>4 DEF IsTurn
  <2>. QED  BY <1>1, <2>1, <2>3, <2>4, <2>5, PlaceKeeps DEF Places
<1>4. ASSUME ComposeTools PROVE TurnInv'
  <2>1. turn.at = "tools" /\ UNCHANGED <<results, evidence, outcomes>>
    BY <1>4 DEF ComposeTools
  <2>2. PICK answer : /\ answer = ToolAnswer(turn.final)
                      /\ turn' = [turn EXCEPT !.at = "finalize", !.answer = answer]
    BY <1>4 DEF ComposeTools, Answer
  <2>3. answer \in AnswerStatuses \union {"none"}
    BY <1>1, <2>2 DEF ToolAnswer, Finals, AnswerStatuses
  <2>4. turn' = [at |-> "finalize", route |-> turn.route, authorized |-> turn.authorized,
                 context |-> turn.context, round |-> turn.round,
                 todo |-> turn.todo, decision |-> turn.decision, step |-> turn.step,
                 search |-> turn.search, final |-> turn.final, answer |-> answer,
                 status |-> turn.status]
    BY <1>1, <2>2 DEF IsTurn
  <2>5. IsTurn'
    BY <2>4 DEF IsTurn
  <2>. QED  BY <1>1, <2>1, <2>3, <2>4, <2>5, PlaceKeeps DEF Places
<1>. QED  BY <1>2, <1>3, <1>4

(* The draft may be exchanged for an error, never for another answer.      *)
LEMMA FinalizeKeeps ==
    ASSUME TurnInv, NEW accepted \in BOOLEAN, Finalize(accepted)
    PROVE  TurnInv'
<1>1. IsTurn /\ turn.at = "finalize" /\ UNCHANGED <<results, evidence, outcomes>>
  BY DEF Finalize, TurnInv, PlaceInv
<1>2. turn' = [at |-> "done", route |-> turn.route, authorized |-> turn.authorized,
               context |-> turn.context, round |-> turn.round,
               todo |-> turn.todo, decision |-> turn.decision, step |-> turn.step,
               search |-> turn.search, final |-> turn.final, answer |-> turn.answer,
               status |-> IF accepted THEN turn.answer ELSE "ERROR"]
  BY <1>1 DEF Finalize, IsTurn
<1>3. UnitsInv'
  BY <1>1, UnitsStay DEF TurnInv
<1>4. PlaceInv'
  <2>1. IsTurn'
    BY <1>2 DEF IsTurn
  <2>. QED  BY <1>1, <1>2, <2>1 DEF TurnInv, PlaceInv, Places, AnswerStatuses
<1>5. RoundInv'
  BY <1>2 DEF RoundInv
<1>6. AnalysisOutcomeIsBacked'
  BY <1>1, <1>2 DEF TurnInv, AnalysisOutcomeIsBacked, Required, Ids, Completed, Verified
<1>. QED  BY <1>3, <1>4, <1>5, <1>6 DEF TurnInv

-----------------------------------------------------------------------------
(* The execution of the units.                                             *)

(* What a unit makes of its dependencies is theirs alone.                  *)
LEMMA SameDependencies ==
    ASSUME NEW v \in Ids, \A d \in Units[v].depends : results'[d] = results[d]
    PROVE  Blocker(v)' = Blocker(v) /\ Verified(v)' = Verified(v)
<1>1. \A d \in Units[v].depends : Completed(d)' = Completed(d)
  BY DEF Completed
<1>2. Blocker(v)' = Blocker(v)
  BY <1>1 DEF Blocker
<1>3. {d \in Units[v].depends : Completed(d)'} = {d \in Units[v].depends : Completed(d)}
  BY <1>1
<1>4. Verified(v)' = Verified(v)
  BY <1>3 DEF Verified
<1>. QED  BY <1>2, <1>4

(* A unit that is written leaves what is settled as it is.                 *)
LEMMA OthersStaySettled ==
    ASSUME UnitsInv, Closed(turn.todo), turn.todo \subseteq Ids, NEW u \in turn.todo,
           \A v \in Ids \ {u} : /\ results'[v] = results[v] /\ evidence'[v] = evidence[v]
                               /\ outcomes'[v] = outcomes[v]
    PROVE  /\ Blocker(u)' = Blocker(u) /\ Verified(u)' = Verified(u)
           /\ \A v \in Ids \ turn.todo : Settled(v) => Settled(v)'
<1>1. \A d \in Units[u].depends : results'[d] = results[d]
  BY Backwards
<1>2. ASSUME NEW v \in Ids \ turn.todo, Settled(v) PROVE Settled(v)'
  <2>1. \A d \in Units[v].depends : results'[d] = results[d]
    BY Backwards DEF Closed
  <2>2. Blocker(v)' = Blocker(v) /\ Verified(v)' = Verified(v)
    BY <2>1, SameDependencies
  <2>. QED  BY <1>2, <2>2 DEF Settled
<1>. QED  BY <1>1, <1>2, SameDependencies

(* The unit a round comes to next.                                         *)
LEMMA LeastIsNext ==
    ASSUME turn.todo \subseteq Ids, turn.todo # {}
    PROVE  NextUnit \in turn.todo /\ \A v \in turn.todo : NextUnit <= v
<1>1. turn.todo \subseteq Nat
  BY Backwards
<1>2. \E u \in turn.todo : \A v \in turn.todo : u <= v
  BY <1>1, LeastNumber
<1>. QED  BY <1>2 DEF NextUnit

(* The round goes on with the units that are left.                         *)
LEMMA RoundGoesOn ==
    ASSUME TurnInv, turn.at = "execute", NEW u \in turn.todo,
           \A v \in turn.todo : u <= v,
           \A v \in Ids \ {u} : /\ results'[v] = results[v] /\ evidence'[v] = evidence[v]
                               /\ outcomes'[v] = outcomes[v],
           UnitsInv', turn' = [turn EXCEPT !.todo = @ \ {u}],
           Settled(u)', results'[u].attempt <= turn.round + 1
    PROVE  TurnInv'
<1>1. IsTurn /\ turn.todo \subseteq Ids /\ turn.round \in Nat
  BY TurnConstants DEF TurnInv, PlaceInv
<1>2. turn' = [at |-> turn.at, route |-> turn.route, authorized |-> turn.authorized,
               context |-> turn.context, round |-> turn.round,
               todo |-> turn.todo \ {u}, decision |-> turn.decision, step |-> turn.step,
               search |-> turn.search, final |-> turn.final, answer |-> turn.answer,
               status |-> turn.status]
  BY <1>1 DEF IsTurn
<1>3. PlaceInv'
  <2>1. IsTurn'
    BY <1>2 DEF IsTurn
  <2>. QED  BY <1>2, <2>1 DEF TurnInv, PlaceInv
<1>4. RoundInv'
  <2>1. Closed(turn.todo) /\ \A v \in Ids \ turn.todo : Settled(v)
    BY DEF TurnInv, RoundInv
  <2>2. Closed(turn.todo \ {u})
    <3>1. ASSUME NEW v \in Ids, Units[v].depends \intersect (turn.todo \ {u}) # {} PROVE v \in turn.todo \ {u}
      <4>1. PICK d \in Units[v].depends : d \in turn.todo \ {u}
        BY <3>1
      <4>2. v \in turn.todo
        BY <2>1, <4>1 DEF Closed
      <4>3. d < v /\ u <= d /\ d \in Nat /\ u \in Nat /\ v \in Nat
        BY <1>1, <4>1, Backwards
      <4>4. v # u
        BY <4>3
      <4>. QED  BY <4>2, <4>4
    <3>. QED  BY <3>1 DEF Closed
  <2>3. \A v \in Ids \ turn.todo : Settled(v)'
    BY <1>1, <2>1, OthersStaySettled DEF TurnInv
  <2>4. ASSUME NEW v \in Ids
        PROVE  IF v \in turn'.todo THEN results'[v].attempt <= turn'.round
               ELSE Settled(v)' /\ results'[v].attempt <= turn'.round + 1
    <3>1. CASE v = u
      BY <1>2, <3>1
    <3>2. CASE v # u
      BY <1>2, <2>3, <3>2 DEF TurnInv, RoundInv
    <3>. QED  BY <3>1, <3>2
  <2>5. Closed(turn'.todo)
    BY <1>2, <2>2
  <2>. QED  BY <2>4, <2>5 DEF RoundInv, Closed, Ids
<1>5. AnalysisOutcomeIsBacked'
  BY <1>2 DEF AnalysisOutcomeIsBacked
<1>. QED  BY <1>3, <1>4, <1>5 DEF TurnInv

LEMMA SkipKeeps ==
    ASSUME TurnInv, SkipUnit
    PROVE  TurnInv'
<1>1. PICK u \in turn.todo : u = NextUnit /\ \A v \in turn.todo : u <= v
  BY LeastIsNext DEF SkipUnit, TurnInv, PlaceInv
<1>2. /\ turn.at = "execute" /\ Blocker(u) /\ turn' = [turn EXCEPT !.todo = @ \ {u}]
      /\ results' = [results EXCEPT ![u].status = "SKIPPED"]
      /\ evidence' = evidence /\ outcomes' = outcomes
  BY <1>1 DEF SkipUnit
<1>3. /\ u \in Ids /\ turn.todo \subseteq Ids /\ results \in [Ids -> [status : UnitStatuses, attempt : Nat]]
      /\ turn.round \in Nat /\ Closed(turn.todo) /\ results[u].attempt <= turn.round
  BY <1>1, <1>2, TurnConstants DEF TurnInv, PlaceInv, UnitsInv, RoundInv
<1>4. /\ results' \in [Ids -> [status : UnitStatuses, attempt : Nat]]
      /\ results'[u].status = "SKIPPED" /\ results'[u].attempt = results[u].attempt
      /\ \A v \in Ids \ {u} : results'[v] = results[v]
  BY <1>2, <1>3 DEF UnitStatuses
<1>5. UnitsInv'
  BY <1>2, <1>4 DEF TurnInv, UnitsInv, Completed, Ids
<1>6. Settled(u)'
  <2>1. Blocker(u)'
    BY <1>1, <1>2, <1>3, <1>4, OthersStaySettled DEF TurnInv
  <2>. QED  BY <1>4, <2>1 DEF Settled
<1>7. \A v \in Ids \ {u} : /\ results'[v] = results[v] /\ evidence'[v] = evidence[v]
                            /\ outcomes'[v] = outcomes[v]
  BY <1>2, <1>4
<1>8. results'[u].attempt <= turn.round + 1
  BY <1>3, <1>4
<1>. QED  BY <1>1, <1>2, <1>5, <1>6, <1>7, <1>8, RoundGoesOn

LEMMA ExecuteKeeps ==
    ASSUME TurnInv, NEW outcome \in UnitOutcomes, ExecuteUnit(outcome)
    PROVE  TurnInv'
<1>1. PICK u \in turn.todo : u = NextUnit /\ \A v \in turn.todo : u <= v
  BY LeastIsNext DEF ExecuteUnit, TurnInv, PlaceInv
<1>2. PICK status \in UnitOutcomes :
         /\ turn.at = "execute" /\ ~Blocker(u) /\ turn' = [turn EXCEPT !.todo = @ \ {u}]
         /\ results' = [results EXCEPT ![u] = [status |-> status, attempt |-> @.attempt + 1]]
         /\ evidence' = IF Units[u].kind = "EVIDENCE_SUMMARY"
                        THEN [evidence EXCEPT ![u] = Verified(u)] ELSE evidence
         /\ outcomes' = [outcomes EXCEPT ![u] = Append(@, status)]
  BY <1>1 DEF ExecuteUnit, UnitOutcomes
<1>3. /\ u \in Ids /\ turn.todo \subseteq Ids /\ results \in [Ids -> [status : UnitStatuses, attempt : Nat]]
      /\ evidence \in [Ids -> SUBSET (Ids \X (1..(TurnRetries + 1)))]
      /\ outcomes \in [Ids -> Seq(UnitOutcomes)] /\ results[u].attempt = Len(outcomes[u])
      /\ turn.round \in 0..TurnRetries /\ Closed(turn.todo) /\ results[u].attempt <= turn.round
      /\ UnitsInv
  BY <1>1, <1>2 DEF TurnInv, PlaceInv, UnitsInv, RoundInv
<1>4. results[u].attempt \in Nat /\ outcomes[u] \in Seq(UnitOutcomes) /\ status \in UnitStatuses
  BY <1>3 DEF UnitStatuses
<1>5. Append(outcomes[u], status) \in Seq(UnitOutcomes)
      /\ Len(Append(outcomes[u], status)) = Len(outcomes[u]) + 1
      /\ Append(outcomes[u], status)[Len(outcomes[u]) + 1] = status
      /\ Append(outcomes[u], status) # <<>>
  BY <1>4, AppendProperties
<1>6. Verified(u) \in SUBSET (Ids \X (1..(TurnRetries + 1)))
  <2>1. ASSUME NEW d \in Units[u].depends, Completed(d)
        PROVE  <<d, results[d].attempt>> \in Ids \X (1..(TurnRetries + 1))
    <3>1. d \in Ids
      BY <1>3, Backwards
    <3>2. results[d].attempt \in Nat /\ results[d].attempt > 0 /\ results[d].attempt <= TurnRetries + 1
      BY <1>3, <2>1, <3>1 DEF UnitsInv
    <3>. QED  BY <3>1, <3>2, TurnConstants
  <2>. QED  BY <2>1 DEF Verified
<1>7. /\ results' \in [Ids -> [status : UnitStatuses, attempt : Nat]]
      /\ results'[u].status = status /\ results'[u].attempt = results[u].attempt + 1
      /\ \A v \in Ids \ {u} : results'[v] = results[v]
  <2>. DEFINE next == [status |-> status, attempt |-> results[u].attempt + 1]
  <2>1. next \in [status : UnitStatuses, attempt : Nat] /\ next.status = status
        /\ next.attempt = results[u].attempt + 1
    BY <1>4
  <2>2. results' = [results EXCEPT ![u] = next]
    BY <1>2
  <2>. HIDE DEF next
  <2>. QED  BY <1>3, <2>1, <2>2
<1>8. /\ evidence' \in [Ids -> SUBSET (Ids \X (1..(TurnRetries + 1)))]
      /\ \A v \in Ids \ {u} : evidence'[v] = evidence[v]
      /\ Units[u].kind = "EVIDENCE_SUMMARY" => evidence'[u] = Verified(u)
  <2>. DEFINE Pairs == SUBSET (Ids \X (1..(TurnRetries + 1)))
             seen == Verified(u)
  <2>1. seen \in Pairs /\ evidence \in [Ids -> Pairs]
    BY <1>3, <1>6
  <2>2. evidence' = IF Units[u].kind = "EVIDENCE_SUMMARY" THEN [evidence EXCEPT ![u] = seen] ELSE evidence
    BY <1>2
  <2>3. evidence' \in [Ids -> Pairs] /\ (\A v \in Ids \ {u} : evidence'[v] = evidence[v])
        /\ (Units[u].kind = "EVIDENCE_SUMMARY" => evidence'[u] = seen)
    <3>. HIDE DEF Pairs, seen
    <3>. QED  BY <1>3, <2>1, <2>2
  <2>. QED  BY <2>3
<1>9. /\ outcomes' \in [Ids -> Seq(UnitOutcomes)]
      /\ \A v \in Ids \ {u} : outcomes'[v] = outcomes[v]
      /\ outcomes'[u] # <<>> /\ Len(outcomes'[u]) = Len(outcomes[u]) + 1
      /\ outcomes'[u][Len(outcomes'[u])] = status
  <2>1. outcomes'[u] = Append(outcomes[u], status)
    BY <1>2, <1>3
  <2>2. outcomes' \in [Ids -> Seq(UnitOutcomes)] /\ \A v \in Ids \ {u} : outcomes'[v] = outcomes[v]
    BY <1>2, <1>3, <1>5
  <2>. QED  BY <1>5, <2>1, <2>2
<1>10. UnitsInv'
  <2>1. ASSUME NEW v \in Ids
        PROVE  /\ results'[v].attempt = Len(outcomes'[v])
               /\ results'[v].attempt <= TurnRetries + 1
               /\ Completed(v)' => results'[v].attempt > 0
    <3>1. CASE v = u
      BY <1>3, <1>4, <1>7, <1>9, <3>1, TurnConstants
    <3>2. CASE v # u
      BY <1>3, <1>7, <1>9, <3>2 DEF UnitsInv, Completed
    <3>. QED  BY <3>1, <3>2
  <2>. QED  BY <1>7, <1>8, <1>9, <2>1 DEF UnitsInv, Ids
<1>11. Settled(u)'
  <2>1. ~Blocker(u)' /\ Verified(u)' = Verified(u)
    BY <1>1, <1>2, <1>3, <1>7, <1>8, <1>9, OthersStaySettled
  <2>. QED  BY <1>7, <1>8, <1>9, <2>1 DEF Settled
<1>12. results'[u].attempt <= turn.round + 1
  BY <1>3, <1>4, <1>7
<1>. QED  BY <1>1, <1>2, <1>7, <1>8, <1>9, <1>10, <1>11, <1>12, RoundGoesOn

LEMMA PlanKeeps ==
    ASSUME TurnInv, PlanAnalysis("READY")
    PROVE  TurnInv'
<1>1. /\ IsTurn /\ turn.at = "plan" /\ turn.decision = "none" /\ turn.round = 0
      /\ \A u \in Ids : results[u] = Fresh
      /\ UNCHANGED <<results, evidence, outcomes>>
  BY DEF PlanAnalysis, TurnInv, PlaceInv
<1>2. turn' = [at |-> "execute", route |-> turn.route, authorized |-> turn.authorized,
               context |-> turn.context, round |-> turn.round,
               todo |-> Ids, decision |-> turn.decision, step |-> turn.step,
               search |-> turn.search, final |-> turn.final, answer |-> turn.answer,
               status |-> turn.status]
  BY <1>1 DEF PlanAnalysis, IsTurn
<1>3. UnitsInv'
  BY <1>1, UnitsStay DEF TurnInv
<1>4. PlaceInv'
  <2>1. IsTurn'
    BY <1>2 DEF IsTurn
  <2>. QED  BY <1>1, <1>2, <2>1 DEF TurnInv, PlaceInv, Places
<1>5. RoundInv'
  <2>1. Closed(Ids)
    BY DEF Closed
  <2>. QED  BY <1>1, <1>2, <2>1 DEF RoundInv, Closed, Ids, Fresh
<1>6. AnalysisOutcomeIsBacked'
  BY <1>2 DEF AnalysisOutcomeIsBacked
<1>. QED  BY <1>3, <1>4, <1>5, <1>6 DEF TurnInv

-----------------------------------------------------------------------------
(* The judgement of a round.                                               *)

(* A first required unit without a result has failed of its own.           *)
LEMMA FirstFailure ==
    ASSUME TurnInv, turn.at = "execute", turn.todo = {}, \E u \in Required : ~Completed(u)
    PROVE  \E u \in Required : results[u].status \in {"DEFERRED", "BLOCKED", "ERROR"}
<1>. DEFINE S == {u \in Required : ~Completed(u)}
<1>1. S \in SUBSET Nat /\ S # {} /\ S \subseteq Ids
  BY Backwards DEF Required
<1>2. PICK u \in S : \A v \in S : u <= v
  BY <1>1, LeastNumber
<1>3. u \in Ids /\ u \in Required /\ ~Completed(u) /\ u \in Nat
  BY <1>1, <1>2
<1>4. ~Blocker(u)
  <2>1. ASSUME NEW d \in Units[u].depends, d \in Required, ~Completed(d) PROVE FALSE
    <3>1. d \in S /\ d < u /\ d \in Nat
      BY <1>3, <2>1, Backwards
    <3>. QED  BY <1>2, <1>3, <3>1
  <2>2. \A d \in Units[u].depends : Units[d].required => d \in Required
    BY <1>3, Backwards DEF Required
  <2>. QED  BY <2>1, <2>2 DEF Blocker
<1>5. Settled(u)
  BY <1>3 DEF TurnInv, RoundInv
<1>6. outcomes[u] # <<>> /\ results[u].status = outcomes[u][Len(outcomes[u])]
  BY <1>4, <1>5 DEF Settled
<1>7. outcomes[u] \in Seq(UnitOutcomes)
  BY <1>3 DEF TurnInv, UnitsInv
<1>8. outcomes[u][Len(outcomes[u])] \in UnitOutcomes
  BY <1>6, <1>7, EmptySeq, LenProperties, ElementOfSeq
<1>. QED  BY <1>3, <1>6, <1>8 DEF UnitOutcomes, Completed

(* What a judgement means.                                                 *)
LEMMA Judgement ==
    ASSUME TurnInv, NEW budget \in Int
    PROVE  /\ Decision(budget) \in {"PASS", "RETRY", "BLOCKED"}
           /\ Decision(budget) = "PASS" => \A u \in Required : Completed(u)
           /\ Decision(budget) = "BLOCKED" => \E u \in Required : ~Completed(u)
           /\ Decision(budget) = "RETRY" => budget > 0
<1>. DEFINE behind == {u \in Required : /\ results[u].status = "SKIPPED" /\ budget > 0
                                        /\ Upstream[u] \intersect Retryable # {}}
            errors == {u \in Required : ~Completed(u)} \ behind
<1>1. Decision(budget) = IF errors \ Retryable # {} THEN "BLOCKED"
                         ELSE IF errors # {} THEN (IF budget > 0 THEN "RETRY" ELSE "BLOCKED")
                         ELSE "PASS"
  BY DEF Decision
<1>2. Retryable \subseteq {u \in Required : ~Completed(u)} /\ Retryable \intersect behind = {}
  BY DEF Retryable, Completed
<1>3. ASSUME errors = {} PROVE \A u \in Required : Completed(u)
  <2>1. Retryable = {}
    BY <1>2, <1>3
  <2>2. behind = {}
    BY <2>1
  <2>. QED  BY <1>3, <2>2
<1>. HIDE DEF behind
<1>4. errors # {} => \E u \in Required : ~Completed(u)
  OBVIOUS
<1>. HIDE DEF errors
<1>. QED  BY <1>1, <1>3, <1>4

(* The closure is closed.                                                  *)
LEMMA ExpandedIsClosed ==
    ASSUME NEW seeds \in SUBSET Ids
    PROVE  /\ Closed(ExpandDependents(seeds)) /\ seeds \subseteq ExpandDependents(seeds)
           /\ ExpandDependents(seeds) \subseteq Ids
           /\ \A ids \in SUBSET Ids : seeds \subseteq ids /\ Closed(ids)
                 => ExpandDependents(seeds) \subseteq ids
<1>1. ASSUME NEW u \in Ids, Units[u].depends \intersect ExpandDependents(seeds) # {}
      PROVE  u \in ExpandDependents(seeds)
  <2>1. PICK d \in Units[u].depends : d \in ExpandDependents(seeds)
    BY <1>1
  <2>2. ASSUME NEW ids \in SUBSET Ids, seeds \subseteq ids, Closed(ids) PROVE u \in ids
    <3>1. d \in ids
      BY <2>1, <2>2 DEF ExpandDependents
    <3>. QED  BY <2>1, <2>2, <3>1 DEF Closed
  <2>. QED  BY <2>2 DEF ExpandDependents
<1>2. Closed(ExpandDependents(seeds))
  BY <1>1 DEF Closed
<1>. QED  BY <1>2 DEF ExpandDependents

LEMMA ValidateKeeps ==
    ASSUME TurnInv, ValidateRound
    PROVE  TurnInv'
<1>. DEFINE decision == Decision(TurnRetries - turn.round)
<1>1. /\ IsTurn /\ turn.at = "execute" /\ turn.todo = {} /\ turn.round \in 0..TurnRetries
      /\ turn.authorized /\ turn.context = "READY"
      /\ UNCHANGED <<results, evidence, outcomes>>
      /\ \A u \in Ids : Settled(u) /\ results[u].attempt <= turn.round + 1
  BY DEF ValidateRound, TurnInv, PlaceInv, RoundInv
<1>2. /\ decision \in {"PASS", "RETRY", "BLOCKED"}
      /\ decision = "PASS" => \A u \in Required : Completed(u)
      /\ decision = "BLOCKED" => \E u \in Required : ~Completed(u)
      /\ decision = "RETRY" => TurnRetries - turn.round > 0
  <2>1. TurnRetries - turn.round \in Int
    BY <1>1, TurnConstants
  <2>. QED  BY <2>1, Judgement
<1>3. UnitsInv'
  BY <1>1, UnitsStay DEF TurnInv
<1>4. CASE decision = "RETRY"
  <2>1. turn' = [at |-> turn.at, route |-> turn.route, authorized |-> turn.authorized,
                 context |-> turn.context, round |-> turn.round + 1,
                 todo |-> Rerun(Retryable), decision |-> "RETRY", step |-> turn.step,
                 search |-> turn.search, final |-> turn.final, answer |-> turn.answer,
                 status |-> turn.status]
    BY <1>1, <1>4 DEF ValidateRound, IsTurn
  <2>2. Retryable \in SUBSET Ids
    BY DEF Retryable, Required
  <2>3. Closed(turn'.todo) /\ turn'.todo \subseteq Ids
    BY <2>1, <2>2, ExpandedIsClosed DEF Rerun
  <2>4. turn'.round \in 0..TurnRetries
    BY <1>1, <1>2, <1>4, <2>1, TurnConstants
  <2>5. PlaceInv'
    <3>1. IsTurn'
      BY <2>1 DEF IsTurn
    <3>. QED  BY <1>1, <2>1, <2>3, <2>4, <3>1 DEF TurnInv, PlaceInv
  <2>6. RoundInv'
    <3>1. ASSUME NEW u \in Ids
          PROVE  IF u \in turn'.todo THEN results'[u].attempt <= turn'.round
                 ELSE Settled(u)' /\ results'[u].attempt <= turn'.round + 1
      <4>1. Settled(u)' /\ results'[u].attempt <= turn.round + 1
        BY <1>1 DEF Settled, Blocker, Verified, Completed
      <4>2. results'[u].attempt \in Nat /\ turn.round \in Nat /\ turn'.round = turn.round + 1
        BY <1>1, <1>3, <2>1, TurnConstants DEF UnitsInv, Ids
      <4>. QED  BY <4>1, <4>2
    <3>. QED  BY <2>3, <3>1 DEF RoundInv, Ids, Closed
  <2>7. AnalysisOutcomeIsBacked'
    BY <1>1, <2>1 DEF AnalysisOutcomeIsBacked
  <2>. QED  BY <1>3, <2>5, <2>6, <2>7 DEF TurnInv
<1>5. CASE decision # "RETRY"
  <2>. DEFINE answer == ComposeAnalysis(decision)
  <2>1. turn' = [at |-> "finalize", route |-> turn.route, authorized |-> turn.authorized,
                 context |-> turn.context, round |-> turn.round,
                 todo |-> turn.todo, decision |-> decision, step |-> turn.step,
                 search |-> turn.search, final |-> turn.final, answer |-> answer,
                 status |-> turn.status]
    BY <1>1, <1>5 DEF ValidateRound, IsTurn
  <2>2. answer \in AnswerStatuses
    BY DEF ComposeAnalysis, AnalysisStatus, ExecutionStatus, AnswerStatuses
  <2>3. decision \in {"PASS", "BLOCKED"}
    BY <1>2, <1>5
  <2>4. decision = "PASS" =>
          /\ \A u \in Required : Completed(u)
          /\ \A u \in Ids : Units[u].kind = "EVIDENCE_SUMMARY" => evidence[u] = Verified(u)
          /\ answer = IF \A u \in Ids : Completed(u) THEN "ANSWERED" ELSE "PARTIAL"
    <3>. SUFFICES ASSUME decision = "PASS", \A u \in Required : Completed(u)
                  PROVE  /\ \A u \in Ids : Units[u].kind = "EVIDENCE_SUMMARY" => evidence[u] = Verified(u)
                         /\ answer = IF \A u \in Ids : Completed(u) THEN "ANSWERED" ELSE "PARTIAL"
      BY <1>2
    <3>1. ASSUME NEW u \in Ids, Units[u].kind = "EVIDENCE_SUMMARY" PROVE evidence[u] = Verified(u)
      <4>1. ~Blocker(u)
        BY Backwards DEF Blocker, Required
      <4>. QED  BY <1>1, <3>1, <4>1 DEF Settled
    <3>2. {results[u].status : u \in {u \in Required : ~Completed(u)}} = {}
      OBVIOUS
    <3>3. ExecutionStatus = IF \A u \in Ids : Completed(u) THEN "COMPLETE" ELSE "PARTIAL"
      BY <3>2 DEF ExecutionStatus
    <3>. QED  BY <3>1, <3>3 DEF ComposeAnalysis, AnalysisStatus
  <2>5. decision = "BLOCKED" => /\ answer = "BLOCKED"
                               /\ \E u \in Required : results[u].status \in {"DEFERRED", "BLOCKED", "ERROR"}
    BY <1>1, <1>2, FirstFailure DEF ComposeAnalysis
  <2>. HIDE DEF decision, answer
  <2>6. PlaceInv'
    <3>1. IsTurn'
      BY <2>1 DEF IsTurn
    <3>. QED  BY <1>1, <2>1, <2>2, <3>1 DEF TurnInv, PlaceInv, Places
  <2>7. RoundInv'
    BY <2>1 DEF RoundInv
  <2>8. AnalysisOutcomeIsBacked'
    BY <1>1, <2>1, <2>3, <2>4, <2>5
       DEF AnalysisOutcomeIsBacked, Required, Ids, Completed, Verified
  <2>. QED  BY <1>3, <2>6, <2>7, <2>8 DEF TurnInv
<1>. QED  BY <1>4, <1>5

LEMMA TurnStep == TurnInv /\ [TurnNext]_turnVars => TurnInv'
<1>. SUFFICES ASSUME TurnInv, [TurnNext]_turnVars PROVE TurnInv'
  OBVIOUS
<1>1. CASE UNCHANGED turnVars
  BY <1>1 DEF turnVars, TurnInv, UnitsInv, PlaceInv, IsTurn, RoundInv, AnalysisOutcomeIsBacked,
              Settled, Blocker, Verified, Completed, Closed, Required, Ids
<1>2. CASE TurnNext
  BY <1>2, RunKeeps, PreparationKeeps, PlanKeeps, SkipKeeps, ExecuteKeeps, ValidateKeeps,
     ToolsKeep, FinalizeKeeps
     DEF TurnNext, UnitOutcomes, PlanStatuses
<1>. QED  BY <1>1, <1>2

(* The inductive invariant of a turn, whatever units return.               *)
THEOREM TurnInvariant == TurnSpec => []TurnInv
<1>1. TurnInit => TurnInv  BY TurnInitially
<1>2. TurnInv /\ [TurnNext]_turnVars => TurnInv'  BY TurnStep
<1>. QED  BY <1>1, <1>2, PTL DEF TurnSpec

(* Type correctness of a turn (TurnTypeOK), its attempts within the retry  *)
(* limit of execute_with_validation.                                       *)
THEOREM TurnTypeCorrect == TurnSpec => []TurnTypeOK
<1>1. TurnInv => TurnTypeOK
  BY DEF TurnInv, UnitsInv, PlaceInv, TurnTypeOK, Places, UnitStatuses, UnitOutcomes
<1>. QED  BY <1>1, TurnInvariant, PTL

(* An answer has all its required evidence, of the results it reports, and *)
(* a refusal has a failure of its own behind it.                           *)
THEOREM OutcomesAreBacked == TurnSpec => []AnalysisOutcomeIsBacked
<1>1. TurnInv => AnalysisOutcomeIsBacked  BY DEF TurnInv
<1>. QED  BY <1>1, TurnInvariant, PTL

-----------------------------------------------------------------------------
(* What is run again.                                                      *)

(* A unit that runs or is skipped was not complete, so nothing is blocked  *)
(* that was not.                                                           *)
LEMMA OnceRunNeverBlocked ==
    ASSUME TurnInv, RetryInv, turn.at = "execute", NEW u \in turn.todo,
           \A v \in Ids \ {u} : results'[v] = results[v]
    PROVE  \A v \in Ids : ~Blocker(v) => ~Blocker(v)'
<1>1. ASSUME NEW v \in Ids, ~Blocker(v), NEW d \in Units[v].depends, Units[d].required
      PROVE  Completed(d)'
  <2>1. d \in Ids /\ Completed(d)
    BY <1>1, Backwards DEF Blocker
  <2>2. d # u
    BY <2>1 DEF RetryInv
  <2>. QED  BY <2>1, <2>2 DEF Completed
<1>. QED  BY <1>1 DEF Blocker

LEMMA RetryRoundGoesOn ==
    ASSUME TurnInv, RetryInv, turn.at = "execute", NEW u \in turn.todo,
           turn' = [turn EXCEPT !.todo = @ \ {u}],
           \A v \in Ids \ {u} : results'[v] = results[v] /\ outcomes'[v] = outcomes[v],
           outcomes'[u] # <<>> => ~Blocker(u)
    PROVE  RetryInv'
<1>1. turn'.todo = turn.todo \ {u} /\ turn.todo \subseteq Ids
  BY DEF TurnInv, PlaceInv, IsTurn
<1>2. ASSUME NEW v \in turn'.todo
      PROVE  ~Completed(v)' /\ (outcomes'[v] # <<>> => outcomes'[v][Len(outcomes'[v])] = "ERROR")
  BY <1>1, <1>2 DEF RetryInv, Completed
<1>3. ASSUME NEW v \in Ids, outcomes'[v] # <<>> PROVE ~Blocker(v)'
  <2>1. ~Blocker(v)
    BY <1>3 DEF RetryInv
  <2>. QED  BY <2>1, OnceRunNeverBlocked
<1>. QED  BY <1>2, <1>3 DEF RetryInv, Ids

LEMMA SkipRetries ==
    ASSUME TurnInv, RetryInv, OnlyErrorsAreRetried, SkipUnit
    PROVE  RetryInv' /\ OnlyErrorsAreRetried'
<1>1. PICK u \in turn.todo : u = NextUnit
  BY LeastIsNext DEF SkipUnit, TurnInv, PlaceInv
<1>2. /\ turn.at = "execute" /\ Blocker(u) /\ turn' = [turn EXCEPT !.todo = @ \ {u}]
      /\ results' = [results EXCEPT ![u].status = "SKIPPED"] /\ outcomes' = outcomes
      /\ results \in [Ids -> [status : UnitStatuses, attempt : Nat]] /\ u \in Ids
  BY <1>1 DEF SkipUnit, TurnInv, UnitsInv, PlaceInv
<1>3. \A v \in Ids \ {u} : results'[v] = results[v] /\ outcomes'[v] = outcomes[v]
  BY <1>2
<1>4. outcomes'[u] # <<>> => ~Blocker(u)
  BY <1>2 DEF RetryInv
<1>5. RetryInv'
  BY <1>1, <1>2, <1>3, <1>4, RetryRoundGoesOn
<1>6. OnlyErrorsAreRetried'
  BY <1>2 DEF OnlyErrorsAreRetried, Ids
<1>. QED  BY <1>5, <1>6

LEMMA ExecuteRetries ==
    ASSUME TurnInv, RetryInv, OnlyErrorsAreRetried, NEW outcome \in UnitOutcomes,
           ExecuteUnit(outcome)
    PROVE  RetryInv' /\ OnlyErrorsAreRetried'
<1>1. PICK u \in turn.todo : u = NextUnit
  BY LeastIsNext DEF ExecuteUnit, TurnInv, PlaceInv
<1>2. PICK status \in UnitOutcomes :
         /\ turn.at = "execute" /\ ~Blocker(u) /\ turn' = [turn EXCEPT !.todo = @ \ {u}]
         /\ results' = [results EXCEPT ![u] = [status |-> status, attempt |-> @.attempt + 1]]
         /\ outcomes' = [outcomes EXCEPT ![u] = Append(@, status)]
  BY <1>1 DEF ExecuteUnit, UnitOutcomes
<1>3. /\ results \in [Ids -> [status : UnitStatuses, attempt : Nat]] /\ u \in Ids
      /\ outcomes \in [Ids -> Seq(UnitOutcomes)]
  BY <1>1 DEF TurnInv, UnitsInv, PlaceInv
<1>4. \A v \in Ids \ {u} : results'[v] = results[v] /\ outcomes'[v] = outcomes[v]
  <2>. DEFINE next == [status |-> status, attempt |-> results[u].attempt + 1]
  <2>1. results' = [results EXCEPT ![u] = next]
    BY <1>2
  <2>. HIDE DEF next
  <2>. QED  BY <1>2, <1>3, <2>1
<1>5. RetryInv'
  BY <1>1, <1>2, <1>4, RetryRoundGoesOn
<1>6. OnlyErrorsAreRetried'
  <2>1. outcomes'[u] = Append(outcomes[u], status) /\ outcomes[u] \in Seq(UnitOutcomes)
    BY <1>2, <1>3
  <2>2. /\ Len(outcomes[u]) \in Nat /\ Len(outcomes'[u]) = Len(outcomes[u]) + 1
        /\ \A i \in 1..Len(outcomes[u]) : outcomes'[u][i] = outcomes[u][i]
    BY <2>1, AppendProperties, LenProperties
  <2>3. ASSUME NEW i \in 1..Len(outcomes'[u]) - 1 PROVE outcomes'[u][i] = "ERROR"
    <3>1. i \in 1..Len(outcomes[u]) /\ outcomes'[u][i] = outcomes[u][i]
      BY <2>2
    <3>2. outcomes[u] # <<>>
      BY <2>1, <3>1, EmptySeq
    <3>3. outcomes[u][Len(outcomes[u])] = "ERROR"
      BY <1>1, <1>2, <3>2 DEF RetryInv
    <3>4. CASE i = Len(outcomes[u])
      BY <3>1, <3>3, <3>4
    <3>5. CASE i # Len(outcomes[u])
      BY <1>3, <2>2, <3>1, <3>5 DEF OnlyErrorsAreRetried
    <3>. QED  BY <3>4, <3>5
  <2>4. ASSUME NEW v \in Ids, v # u, NEW i \in 1..Len(outcomes'[v]) - 1
        PROVE  outcomes'[v][i] = "ERROR"
    BY <1>4, <2>4 DEF OnlyErrorsAreRetried
  <2>. QED  BY <2>3, <2>4 DEF OnlyErrorsAreRetried, Ids
<1>. QED  BY <1>5, <1>6

(* What failed and what waits, under a transparent plan, is closed.        *)
LEMMA WaitingIsClosed ==
    ASSUME Transparent, TurnInv, turn.at = "execute", turn.todo = {}
    PROVE  Closed({u \in Ids : Blocker(u)} \union Retryable)
<1>. DEFINE waiting == {u \in Ids : Blocker(u)} \union Retryable
<1>1. ASSUME NEW v \in Ids, NEW u \in Units[v].depends, u \in waiting PROVE Blocker(v)
  <2>1. u \in Ids
    BY Backwards
  <2>2. CASE u \in Retryable
    BY <1>1, <2>2 DEF Retryable, Required, Blocker, Completed
  <2>3. CASE Blocker(u) /\ u \in Required
    <3>1. results[u].status = "SKIPPED"
      BY <2>1, <2>3 DEF TurnInv, RoundInv, Settled
    <3>. QED  BY <1>1, <2>3, <3>1 DEF Required, Blocker, Completed
  <2>4. CASE Blocker(u) /\ u \notin Required
    <3>1. PICK d \in Units[u].depends : Units[d].required /\ ~Completed(d)
      BY <2>4 DEF Blocker
    <3>2. d \in Required
      BY <2>1, <3>1, Backwards DEF Required
    <3>3. d \in Units[v].depends
      BY <1>1, <2>4, <3>1, <3>2 DEF Transparent
    <3>. QED  BY <3>1, <3>3 DEF Blocker
  <2>. QED  BY <1>1, <2>1, <2>2, <2>3, <2>4
<1>. QED  BY <1>1 DEF Closed

LEMMA ValidateRetries ==
    ASSUME Transparent, TurnInv, OnlyErrorsAreRetried, RetryInv, ValidateRound
    PROVE  RetryInv' /\ OnlyErrorsAreRetried'
<1>1. /\ IsTurn /\ turn.at = "execute" /\ turn.todo = {} /\ UNCHANGED <<results, evidence, outcomes>>
      /\ \A u \in Ids : Settled(u)
  BY DEF ValidateRound, TurnInv, PlaceInv, RoundInv
<1>2. OnlyErrorsAreRetried'
  BY <1>1 DEF OnlyErrorsAreRetried, Ids
<1>3. \A u \in Ids : outcomes'[u] # <<>> => ~Blocker(u)'
  BY <1>1 DEF RetryInv, Blocker, Completed
<1>4. ASSUME turn'.at = "execute", NEW u \in turn'.todo
      PROVE  ~Completed(u)' /\ (outcomes'[u] # <<>> => outcomes'[u][Len(outcomes'[u])] = "ERROR")
  <2>. DEFINE waiting == {v \in Ids : Blocker(v)} \union Retryable
  <2>1. turn'.todo = Rerun(Retryable)
    BY <1>1, <1>4 DEF ValidateRound, IsTurn
  <2>2. Retryable \in SUBSET Ids /\ waiting \in SUBSET Ids /\ Retryable \subseteq waiting
    BY DEF Retryable, Required
  <2>3. Closed(waiting)
    BY <1>1, WaitingIsClosed
  <2>. HIDE DEF waiting
  <2>4. u \in waiting /\ u \in Ids
    BY <1>4, <2>1, <2>2, <2>3, ExpandedIsClosed DEF Rerun
  <2>5. CASE Blocker(u)
    <3>1. results[u].status = "SKIPPED" /\ outcomes[u] = <<>>
      BY <1>1, <2>4, <2>5 DEF Settled, RetryInv
    <3>. QED  BY <1>1, <3>1 DEF Completed
  <2>6. CASE ~Blocker(u)
    <3>1. results[u].status = "ERROR" /\ results[u].status = outcomes[u][Len(outcomes[u])]
      BY <1>1, <2>4, <2>6 DEF Settled, waiting, Retryable
    <3>. QED  BY <1>1, <3>1 DEF Completed
  <2>. QED  BY <2>5, <2>6
<1>. QED  BY <1>2, <1>3, <1>4 DEF RetryInv, Ids

(* The steps that are not of an execution.                                 *)
LEMMA OtherRetries ==
    ASSUME TurnInv, OnlyErrorsAreRetried, RetryInv,
           \/ \E route \in Routes : Run(route)
           \/ \E b \in BOOLEAN : Authorize(b) \/ Finalize(b)
           \/ \E missing \in SUBSET {"SEMANTIC", "METADATA", "SKILL"}, b \in BOOLEAN :
                 LoadContext(missing, b)
           \/ \E status \in PlanStatuses : PlanAnalysis(status)
           \/ \E status \in {"ANSWERED", "COMPLETE", "DEFERRED", "BLOCKED", "ERROR", "NOT_FOUND",
                             "CLARIFICATION_REQUIRED"} : CallTool(status)
           \/ \E fetched \in ToolOutcomes("fetch_knowledge") \union {"none"} : FetchHits(fetched)
           \/ ComposeTools
    PROVE  RetryInv' /\ OnlyErrorsAreRetried'
<1>1. IsTurn
  BY DEF TurnInv, PlaceInv
<1>2. ASSUME NEW route \in Routes, Run(route) PROVE RetryInv' /\ OnlyErrorsAreRetried'
  <2>1. turn'.at # "execute" /\ \A u \in Ids : outcomes'[u] = <<>>
    BY <1>2 DEF Run, NoTurn
  <2>2. 1..Len(<<>>) - 1 = {}
    OBVIOUS
  <2>. QED  BY <2>1, <2>2 DEF RetryInv, OnlyErrorsAreRetried, Ids
<1>3. ASSUME PlanAnalysis("READY") PROVE RetryInv' /\ OnlyErrorsAreRetried'
  <2>1. /\ UNCHANGED <<results, evidence, outcomes>> /\ turn'.todo = Ids
        /\ \A u \in Ids : results[u] = Fresh
    BY <1>1, <1>3 DEF PlanAnalysis, TurnInv, PlaceInv, IsTurn
  <2>2. ASSUME NEW u \in Ids PROVE outcomes[u] = <<>> /\ ~Completed(u)
    <3>1. Len(outcomes[u]) = 0 /\ outcomes[u] \in Seq(UnitOutcomes)
      BY <2>1 DEF TurnInv, UnitsInv, Fresh
    <3>2. outcomes[u] = <<>>
      BY <3>1, EmptySeq
    <3>. QED  BY <2>1, <3>2 DEF Fresh, Completed
  <2>. QED  BY <2>1, <2>2 DEF RetryInv, OnlyErrorsAreRetried, Ids, Completed
<1>4. ASSUME UNCHANGED <<results, evidence, outcomes>>, turn'.at # "execute"
      PROVE  RetryInv' /\ OnlyErrorsAreRetried'
  BY <1>4 DEF RetryInv, OnlyErrorsAreRetried, Ids
<1>5. ASSUME NEW b \in BOOLEAN, Authorize(b) \/ Finalize(b)
      PROVE  UNCHANGED <<results, evidence, outcomes>> /\ turn'.at # "execute"
  BY <1>1, <1>5 DEF Authorize, Finalize, IsTurn
<1>6. ASSUME NEW missing \in SUBSET {"SEMANTIC", "METADATA", "SKILL"}, NEW b \in BOOLEAN,
             LoadContext(missing, b)
      PROVE  UNCHANGED <<results, evidence, outcomes>> /\ turn'.at # "execute"
  BY <1>1, <1>6 DEF LoadContext, IsTurn
<1>7. ASSUME NEW status \in {"CLARIFICATION_REQUIRED", "BLOCKED", "ERROR"}, PlanAnalysis(status)
      PROVE  UNCHANGED <<results, evidence, outcomes>> /\ turn'.at # "execute"
  BY <1>1, <1>7 DEF PlanAnalysis, Answer, IsTurn
<1>8. ASSUME \/ \E status \in {"ANSWERED", "COMPLETE", "DEFERRED", "BLOCKED", "ERROR", "NOT_FOUND",
                                "CLARIFICATION_REQUIRED"} : CallTool(status)
             \/ \E fetched \in ToolOutcomes("fetch_knowledge") \union {"none"} : FetchHits(fetched)
             \/ ComposeTools
      PROVE  UNCHANGED <<results, evidence, outcomes>> /\ turn'.at # "execute"
  BY <1>1, <1>8 DEF CallTool, FetchHits, ComposeTools, Answer, IsTurn
<1>. QED  BY <1>2, <1>3, <1>4, <1>5, <1>6, <1>7, <1>8 DEF PlanStatuses

LEMMA RetryStep ==
    ASSUME Transparent
    PROVE  TurnInv /\ RetryInv /\ OnlyErrorsAreRetried /\ [TurnNext]_turnVars
              => RetryInv' /\ OnlyErrorsAreRetried'
<1>. SUFFICES ASSUME TurnInv, RetryInv, OnlyErrorsAreRetried, [TurnNext]_turnVars
              PROVE  RetryInv' /\ OnlyErrorsAreRetried'
  OBVIOUS
<1>1. CASE UNCHANGED turnVars
  BY <1>1 DEF turnVars, RetryInv, OnlyErrorsAreRetried, Blocker, Completed, Ids
<1>2. CASE TurnNext
  BY <1>2, SkipRetries, ExecuteRetries, ValidateRetries, OtherRetries DEF TurnNext, UnitOutcomes
<1>. QED  BY <1>1, <1>2

(* Under a transparent plan only errors are executed again, however many   *)
(* units and rounds there are.                                             *)
THEOREM OnlyErrorsRunAgain ==
    ASSUME Transparent
    PROVE  TurnSpec => []OnlyErrorsAreRetried
<1>1. TurnInit => RetryInv /\ OnlyErrorsAreRetried
  <2>1. 1..Len(<<>>) - 1 = {}
    OBVIOUS
  <2>. QED  BY <2>1 DEF TurnInit, NoTurn, RetryInv, OnlyErrorsAreRetried
<1>2. TurnInv /\ RetryInv /\ OnlyErrorsAreRetried /\ [TurnNext]_turnVars
         => RetryInv' /\ OnlyErrorsAreRetried'
  BY RetryStep
<1>. QED  BY <1>1, <1>2, TurnInvariant, PTL DEF TurnSpec

-----------------------------------------------------------------------------
(* AnalysisSession. Recursion over a sequence is reasoned about with a     *)
(* shortest prefix that breaks a lemma.                                    *)

(* h is what the first n turns of a history said, one after the other.     *)
Saying(h, first, history, n) ==
    h = [k \in 0..n |-> IF k = 0 THEN first ELSE Said(h[k - 1], history[k])]

LEMMA SayingExists ==
    ASSUME NEW first, NEW history, NEW n \in Nat
    PROVE  \E h : Saying(h, first, history, n)
<1>. DEFINE Bad == {k \in Nat : ~ \E h : Saying(h, first, history, k)}
<1>1. CASE Bad = {}
  BY <1>1
<1>2. CASE Bad # {}
  <2>1. PICK k \in Bad : \A m \in Bad : k <= m
    <3>1. Bad \in SUBSET Nat  OBVIOUS
    <3>. HIDE DEF Bad
    <3>. QED  BY <1>2, <3>1, LeastNumber
  <2>2. k # 0
    <3>1. Saying([m \in 0..0 |-> first], first, history, 0)
      BY DEF Saying
    <3>. QED  BY <3>1
  <2>3. k - 1 \in Nat /\ ~ (k - 1 \in Bad)
    BY <2>1, <2>2
  <2>4. PICK h : Saying(h, first, history, k - 1)
    BY <2>3
  <2>. DEFINE g == [m \in 0..k |-> IF m = k THEN Said(h[k - 1], history[k]) ELSE h[m]]
  <2>5. ASSUME NEW m \in 0..k
        PROVE  g[m] = IF m = 0 THEN first ELSE Said(g[m - 1], history[m])
    <3>1. CASE m = k
      <4>1. k - 1 \in 0..k /\ k - 1 # k  BY <2>3
      <4>2. g[k - 1] = h[k - 1]  BY <4>1
      <4>. QED  BY <2>2, <3>1, <4>2
    <3>2. CASE m # k
      <4>1. m \in 0..(k - 1) /\ (m # 0 => m - 1 \in 0..k /\ m - 1 # k)  BY <2>3, <3>2
      <4>2. h[m] = IF m = 0 THEN first ELSE Said(h[m - 1], history[m])
        BY <2>4, <4>1 DEF Saying
      <4>. QED  BY <3>2, <4>1, <4>2
    <3>. QED  BY <3>1, <3>2
  <2>6. g = [m \in 0..k |-> g[m]]  OBVIOUS
  <2>. HIDE DEF g
  <2>7. g = [m \in 0..k |-> IF m = 0 THEN first ELSE Said(g[m - 1], history[m])]
    BY <2>5, <2>6
  <2>8. Saying(g, first, history, k)
    BY <2>7 DEF Saying
  <2>. QED  BY <2>1, <2>8
<1>. QED  BY <1>1, <1>2

(* What was said is said again after a longer history.                     *)
LEMMA SayingGoesOn ==
    ASSUME NEW first, NEW history, NEW longer, NEW n \in Nat, NEW m \in Nat, n <= m,
           \A k \in 1..n : longer[k] = history[k],
           NEW h, Saying(h, first, history, n), NEW g, Saying(g, first, longer, m)
    PROVE  h[n] = g[n]
<1>. DEFINE Bad == {k \in 0..n : h[k] # g[k]}
<1>1. CASE Bad = {}
  BY <1>1
<1>2. CASE Bad # {}
  <2>1. PICK k \in Bad : \A i \in Bad : k <= i
    <3>1. Bad \in SUBSET Nat  OBVIOUS
    <3>. HIDE DEF Bad
    <3>. QED  BY <1>2, <3>1, LeastNumber
  <2>2. k \in 0..n /\ k \in 0..m
    BY <2>1
  <2>3. /\ h[k] = IF k = 0 THEN first ELSE Said(h[k - 1], history[k])
        /\ g[k] = IF k = 0 THEN first ELSE Said(g[k - 1], longer[k])
    BY <2>2 DEF Saying
  <2>4. k # 0
    BY <2>1, <2>3
  <2>5. k - 1 \in 0..n /\ ~ (k - 1 \in Bad) /\ k \in 1..n
    BY <2>1, <2>2, <2>4
  <2>6. h[k - 1] = g[k - 1] /\ longer[k] = history[k]
    BY <2>5
  <2>. QED  BY <2>1, <2>3, <2>4, <2>6
<1>. QED  BY <1>1, <1>2

LEMMA ReplayedIs ==
    ASSUME NEW s, Len(s.history) \in Nat
    PROVE  \E h : /\ Saying(h, AsSets(s.origin, <<>>), s.history, Len(s.history))
                  /\ Replayed(s) = h[Len(s.history)]
<1>. DEFINE N == Len(s.history)
            first == AsSets(s.origin, <<>>)
            said == CHOOSE h : Saying(h, first, s.history, N)
<1>1. \E h : Saying(h, first, s.history, N)
  BY SayingExists
<1>2. Saying(said, first, s.history, N)
  BY <1>1
<1>3. Replayed(s) = said[N]
  BY DEF Replayed, Saying
<1>. QED  BY <1>2, <1>3

(* One more turn has its say after all the others.                         *)
LEMMA ReplayedMore ==
    ASSUME NEW s, NEW next, NEW delta, NEW Turns,
           s.history \in Seq(Turns), next.origin = s.origin,
           next.history = Append(s.history, delta)
    PROVE  Replayed(next) = Said(Replayed(s), delta)
<1>. DEFINE N == Len(s.history)
            first == AsSets(s.origin, <<>>)
<1>1. /\ N \in Nat /\ Len(next.history) = N + 1 /\ next.history[N + 1] = delta
      /\ \A k \in 1..N : next.history[k] = s.history[k]
  OBVIOUS
<1>2. PICK h : Saying(h, first, s.history, N) /\ Replayed(s) = h[N]
  BY <1>1, ReplayedIs
<1>3. PICK g : Saying(g, first, next.history, N + 1) /\ Replayed(next) = g[N + 1]
  <2>1. \E g : /\ Saying(g, AsSets(next.origin, <<>>), next.history, Len(next.history))
               /\ Replayed(next) = g[Len(next.history)]
    <3>1. Len(next.history) \in Nat  BY <1>1
    <3>. QED  BY ONLY <3>1, ReplayedIs, Zenon
  <2>2. Len(next.history) = N + 1 /\ AsSets(next.origin, <<>>) = first
    BY <1>1
  <2>. HIDE DEF N, first
  <2>. QED  BY <2>1, <2>2
<1>4. h[N] = g[N]
  <2>. HIDE DEF N, first
  <2>1. N + 1 \in Nat /\ N <= N + 1
    BY <1>1
  <2>2. Saying(h, first, s.history, N) /\ Saying(g, first, next.history, N + 1)
    BY <1>2, <1>3
  <2>3. N \in Nat /\ \A k \in 1..N : next.history[k] = s.history[k]
    BY <1>1
  <2>. QED  BY ONLY <2>1, <2>2, <2>3, SayingGoesOn
<1>5. g[N + 1] = Said(g[N], next.history[N + 1])
  <2>1. N + 1 \in 0..(N + 1) /\ N + 1 # 0 /\ (N + 1) - 1 = N  BY <1>1
  <2>. HIDE DEF N, first
  <2>. QED  BY <1>3, <2>1 DEF Saying
<1>. QED  BY <1>1, <1>2, <1>3, <1>4, <1>5

(* The filters of other dimensions keep their order: none is lost, none is *)
(* added, and no dimension comes to have two of them.                      *)
Distinct(filters) == \A i, j \in DOMAIN filters : filters[i][1] = filters[j][1] => i = j

Keeping(h, filters, dim, n) ==
    h = [k \in 0..n |->
            IF k = 0 THEN <<>>
            ELSE IF filters[k][1] = dim THEN h[k - 1] ELSE Append(h[k - 1], filters[k])]

KeptUpTo(kept, filters, dim, n) ==
    /\ kept \in Seq(Filters) /\ Len(kept) <= n /\ Distinct(kept)
    /\ Range(kept) = {filters[i] : i \in {i \in 1..n : filters[i][1] # dim}}

LEMMA KeepingExists ==
    ASSUME NEW filters, NEW dim, NEW n \in Nat
    PROVE  \E h : Keeping(h, filters, dim, n)
<1>. DEFINE Bad == {k \in Nat : ~ \E h : Keeping(h, filters, dim, k)}
            Onto(x, k) == IF filters[k][1] = dim THEN x ELSE Append(x, filters[k])
<1>1. CASE Bad = {}
  BY <1>1
<1>2. CASE Bad # {}
  <2>1. PICK k \in Bad : \A m \in Bad : k <= m
    <3>1. Bad \in SUBSET Nat  OBVIOUS
    <3>. HIDE DEF Bad
    <3>. QED  BY <1>2, <3>1, LeastNumber
  <2>2. k # 0
    <3>1. Keeping([m \in 0..0 |-> <<>>], filters, dim, 0)
      BY DEF Keeping
    <3>. QED  BY <3>1
  <2>3. k - 1 \in Nat /\ ~ (k - 1 \in Bad)
    BY <2>1, <2>2
  <2>4. PICK h : Keeping(h, filters, dim, k - 1)
    BY <2>3
  <2>. DEFINE g == [m \in 0..k |-> IF m = k THEN Onto(h[k - 1], k) ELSE h[m]]
  <2>5. ASSUME NEW m \in 0..k
        PROVE  g[m] = IF m = 0 THEN <<>> ELSE Onto(g[m - 1], m)
    <3>. HIDE DEF Onto
    <3>1. CASE m = k
      <4>1. k - 1 \in 0..k /\ k - 1 # k  BY <2>3
      <4>2. g[k - 1] = h[k - 1]  BY <4>1
      <4>. QED  BY <2>2, <3>1, <4>2
    <3>2. CASE m # k
      <4>1. m \in 0..(k - 1) /\ (m # 0 => m - 1 \in 0..k /\ m - 1 # k)  BY <2>3, <3>2
      <4>2. h[m] = IF m = 0 THEN <<>> ELSE Onto(h[m - 1], m)
        BY <2>4, <4>1 DEF Keeping, Onto
      <4>. QED  BY <3>2, <4>1, <4>2
    <3>. QED  BY <3>1, <3>2
  <2>6. g = [m \in 0..k |-> g[m]]  OBVIOUS
  <2>. HIDE DEF g
  <2>7. g = [m \in 0..k |-> IF m = 0 THEN <<>> ELSE Onto(g[m - 1], m)]
    BY <2>5, <2>6
  <2>8. Keeping(g, filters, dim, k)
    BY <2>7 DEF Keeping
  <2>. QED  BY <2>1, <2>8
<1>. QED  BY <1>1, <1>2

(* One filter more, of a dimension that has none yet.                      *)
LEMMA OneFilterMore ==
    ASSUME NEW kept \in Seq(Filters), Distinct(kept), NEW f \in Filters,
           \A g \in Range(kept) : g[1] # f[1]
    PROVE  /\ Append(kept, f) \in Seq(Filters) /\ Len(Append(kept, f)) = Len(kept) + 1
           /\ Distinct(Append(kept, f)) /\ Range(Append(kept, f)) = Range(kept) \union {f}
<1>. DEFINE more == Append(kept, f)
<1>1. /\ more \in Seq(Filters) /\ Len(kept) \in Nat /\ Len(more) = Len(kept) + 1
      /\ DOMAIN kept = 1..Len(kept) /\ DOMAIN more = 1..(Len(kept) + 1)
      /\ more[Len(kept) + 1] = f /\ \A i \in 1..Len(kept) : more[i] = kept[i]
  OBVIOUS
<1>. HIDE DEF more
<1>2. \A i \in 1..Len(kept) : more[i] \in Range(kept)
  BY <1>1 DEF Range
<1>3. Distinct(more)
  <2>1. SUFFICES ASSUME NEW i \in DOMAIN more, NEW j \in DOMAIN more, more[i][1] = more[j][1]
                 PROVE  i = j
    BY DEF Distinct
  <2>2. CASE i \in 1..Len(kept) /\ j \in 1..Len(kept)
    BY <1>1, <2>1, <2>2 DEF Distinct
  <2>3. CASE i = Len(kept) + 1 \/ j = Len(kept) + 1
    BY <1>1, <1>2, <2>1, <2>3
  <2>. QED  BY <1>1, <2>2, <2>3
<1>4. Range(more) = Range(kept) \union {f}
  BY <1>1 DEF Range
<1>. QED  BY <1>1, <1>3, <1>4 DEF more

LEMMA KeptIs ==
    ASSUME NEW filters \in Seq(Filters), Distinct(filters), NEW dim,
           NEW h, Keeping(h, filters, dim, Len(filters))
    PROVE  KeptUpTo(h[Len(filters)], filters, dim, Len(filters))
<1>. DEFINE N == Len(filters)
            Bad == {k \in 0..N : ~ KeptUpTo(h[k], filters, dim, k)}
<1>0. N \in Nat /\ DOMAIN filters = 1..N
  OBVIOUS
<1>1. CASE Bad = {}
  BY <1>0, <1>1
<1>2. CASE Bad # {}
  <2>1. PICK k \in Bad : \A i \in Bad : k <= i
    <3>1. Bad \in SUBSET Nat  OBVIOUS
    <3>. HIDE DEF Bad
    <3>. QED  BY <1>2, <3>1, LeastNumber
  <2>2. h[k] = IF k = 0 THEN <<>>
               ELSE IF filters[k][1] = dim THEN h[k - 1] ELSE Append(h[k - 1], filters[k])
    BY <2>1 DEF Keeping
  <2>3. k # 0
    <3>1. KeptUpTo(<<>>, filters, dim, 0)
      BY DEF KeptUpTo, Distinct, Range
    <3>. QED  BY <2>1, <2>2, <3>1
  <2>4. k \in 1..N /\ k - 1 \in Nat /\ KeptUpTo(h[k - 1], filters, dim, k - 1)
    BY <1>0, <2>1, <2>3
  <2>. HIDE DEF N
  <2>5. filters[k] \in Filters
    BY <2>4 DEF N
  <2>. DEFINE Of(n) == {i \in 1..n : filters[i][1] # dim}
  <2>6. CASE filters[k][1] = dim
    <3>1. Of(k) = Of(k - 1)
      BY <2>4, <2>6
    <3>2. KeptUpTo(h[k - 1], filters, dim, k)
      BY <2>4, <3>1 DEF KeptUpTo
    <3>. QED  BY <2>1, <2>2, <2>3, <2>6, <3>2
  <2>7. CASE filters[k][1] # dim
    <3>1. Of(k) = Of(k - 1) \union {k}
      BY <2>4, <2>7
    <3>2. Range(h[k - 1]) = {filters[i] : i \in Of(k - 1)}
      BY <2>4 DEF KeptUpTo
    <3>3. \A g \in Range(h[k - 1]) : g[1] # filters[k][1]
      <4>1. \A i \in Of(k - 1) : i \in DOMAIN filters /\ i # k
        BY <1>0, <2>4
      <4>2. k \in DOMAIN filters
        BY <1>0, <2>4
      <4>. QED  BY <3>2, <4>1, <4>2 DEF Distinct
    <3>4. KeptUpTo(Append(h[k - 1], filters[k]), filters, dim, k)
      <4>1. /\ h[k - 1] \in Seq(Filters) /\ Distinct(h[k - 1]) /\ Len(h[k - 1]) \in Nat
            /\ Len(h[k - 1]) <= k - 1
        BY <2>4 DEF KeptUpTo
      <4>. DEFINE more == Append(h[k - 1], filters[k])
      <4>2. /\ more \in Seq(Filters) /\ Len(more) = Len(h[k - 1]) + 1 /\ Distinct(more)
            /\ Range(more) = Range(h[k - 1]) \union {filters[k]}
        BY <2>5, <3>3, <4>1, OneFilterMore
      <4>. HIDE DEF more
      <4>3. Range(more) = {filters[i] : i \in Of(k)}
        BY <3>1, <3>2, <4>2
      <4>4. Len(more) <= k
        BY <2>4, <4>1, <4>2
      <4>5. KeptUpTo(more, filters, dim, k)
        BY ONLY <4>2, <4>3, <4>4, Zenon DEF KeptUpTo
      <4>. QED  BY <4>5 DEF more
    <3>. QED  BY <2>1, <2>2, <2>3, <2>7, <3>4
  <2>. QED  BY <2>6, <2>7
<1>. QED  BY <1>1, <1>2

LEMMA WithoutIs ==
    ASSUME NEW filters \in Seq(Filters), Distinct(filters), NEW dim
    PROVE  /\ Without(filters, dim) \in Seq(Filters)
           /\ Len(Without(filters, dim)) <= Len(filters) /\ Distinct(Without(filters, dim))
           /\ Range(Without(filters, dim)) = {f \in Range(filters) : f[1] # dim}
<1>. DEFINE kept == CHOOSE h : Keeping(h, filters, dim, Len(filters))
<1>1. Len(filters) \in Nat /\ DOMAIN filters = 1..Len(filters)
  OBVIOUS
<1>2. Keeping(kept, filters, dim, Len(filters))
  BY <1>1, KeepingExists
<1>3. Without(filters, dim) = kept[Len(filters)]
  BY DEF Without, Keeping
<1>4. KeptUpTo(Without(filters, dim), filters, dim, Len(filters))
  <2>. HIDE DEF kept
  <2>. QED  BY <1>2, <1>3, KeptIs
<1>5. {filters[i] : i \in {i \in 1..Len(filters) : filters[i][1] # dim}}
         = {f \in Range(filters) : f[1] # dim}
  BY <1>1 DEF Range
<1>. QED  BY <1>4, <1>5 DEF KeptUpTo

(* A state of a session is well formed, whatever was garbled in it.        *)
Comparisons == {<<>>} \union (ComparisonModes \X ({0} \union Spans))
Queries == [metrics : Seq(Metrics), filters : Seq(Filters), groups : 0..2, span : Spans]
Turns == [kind : Kinds, about : Metrics \union Filters \union Dimensions \union Comparisons]
Fingerprints == Queries \X Queries \X (1..MaxTurns) \X Seq(Turns) \X Comparisons
States == [origin : Queries, spec : Queries, turns : 1..MaxTurns, history : Seq(Turns),
           comparison : Comparisons, checksum : Fingerprints]

Explained(s) ==
    /\ s.turns = Len(s.history)
    /\ Replayed(s) = AsSets(s.spec, s.comparison)
    /\ s.spec.groups = s.origin.groups /\ s.spec.span = s.origin.span
    /\ Len(s.spec.metrics) <= MaxMetrics /\ IsInjective(s.spec.metrics)
    /\ Len(s.spec.filters) <= MaxFilters /\ Distinct(s.spec.filters)

SessionInv ==
    /\ result \in {"none", "READY", "ERROR", "BLOCKED", "REJECTED", "CLARIFICATION_REQUIRED"}
    /\ session # NoSession => session \in States /\ Len(session.history) > 0
    /\ clarification # NoClarification =>
          /\ clarification.base \in Specs /\ clarification.candidates \in Seq(Filters)
          /\ DOMAIN clarification = DOMAIN NoClarification
    /\ session # NoSession /\ Validate(session) => Explained(session)

LEMMA SessionConstants ==
    /\ MaxTurns \in Nat \ {0} /\ MaxMetrics \in Nat \ {0} /\ MaxFilters \in Nat \ {0}
    /\ MaxComparisonWindow \in Nat \ {0}
    /\ \A f \in Filters : f[1] \in Dimensions /\ f = <<f[1], f[2]>>
  BY SessionAssumption DEF Dimensions

(* A query the planner calls READY is within the limits.                   *)
LEMMA PlannedSpec ==
    ASSUME NEW spec \in Specs
    PROVE  /\ spec \in Queries /\ Len(spec.metrics) <= MaxMetrics /\ IsInjective(spec.metrics)
           /\ Len(spec.filters) <= MaxFilters /\ Distinct(spec.filters)
<1>1. PICK x \in Metrics : spec.metrics = <<x>>
  BY DEF Specs
<1>2. spec.metrics \in Seq(Metrics) /\ Len(spec.metrics) = 1 /\ IsInjective(spec.metrics)
  BY <1>1 DEF IsInjective
<1>3. PICK n \in 0..MaxFilters : spec.filters \in [1..n -> Filters] /\ Distinct(spec.filters)
  BY DEF Specs, StructuredFilters, Distinct
<1>4. n \in Nat /\ n <= MaxFilters
  BY <1>3, SessionConstants
<1>5. spec.filters \in Seq(Filters) /\ Len(spec.filters) = n
  BY <1>3, <1>4
<1>6. spec = [metrics |-> spec.metrics, filters |-> spec.filters, groups |-> spec.groups, span |-> spec.span]
      /\ spec.groups \in 0..2 /\ spec.span \in Spans
  BY DEF Specs
<1>. QED  BY <1>2, <1>3, <1>4, <1>5, <1>6, SessionConstants DEF Queries

(* A state that is sealed is accepted as it is.                            *)
LEMMA SealedIs ==
    ASSUME NEW s, NEW checksum,
           s = [spec |-> s.spec, origin |-> s.origin, comparison |-> s.comparison, turns |-> s.turns,
                history |-> s.history, checksum |-> checksum],
           s.origin \in Queries, s.spec \in Queries, s.turns \in 1..MaxTurns,
           s.history \in Seq(Turns), s.comparison \in Comparisons
    PROVE  /\ Sealed(s) \in States /\ Validate(Sealed(s))
           /\ Sealed(s).spec = s.spec /\ Sealed(s).origin = s.origin
           /\ Sealed(s).comparison = s.comparison /\ Sealed(s).turns = s.turns
           /\ Sealed(s).history = s.history
<1>1. Sealed(s) = [spec |-> s.spec, origin |-> s.origin, comparison |-> s.comparison, turns |-> s.turns,
                   history |-> s.history, checksum |-> Fingerprint(s)]
  BY DEF Sealed
<1>2. Fingerprint(s) \in Fingerprints
  BY DEF Fingerprint, Fingerprints
<1>3. Fingerprint(Sealed(s)) = Fingerprint(s)
  BY <1>1 DEF Fingerprint
<1>4. Sealed(s) \in States
  BY <1>1, <1>2 DEF States
<1>. QED  BY <1>1, <1>3, <1>4 DEF Validate

(* What a first query starts is explained by it.                           *)
LEMMA StartedIs ==
    ASSUME NEW spec \in Queries, Len(spec.metrics) <= MaxMetrics, IsInjective(spec.metrics),
           Len(spec.filters) <= MaxFilters, Distinct(spec.filters), StartSession(spec)
    PROVE  session' \in States /\ Len(session'.history) > 0 /\ Explained(session')
<1>. DEFINE first == Turn("noop", <<>>)
            s == [NoSession EXCEPT !.spec = spec, !.origin = spec, !.turns = 1, !.history = <<first>>]
            empty == [NoSession EXCEPT !.origin = spec]
<1>0. NoSession = [spec |-> NoSpec, origin |-> NoSpec, comparison |-> <<>>, turns |-> 0,
                   history |-> <<>>, checksum |-> <<>>]
  BY DEF NoSession
<1>. HIDE DEF first
<1>a. s = [spec |-> spec, origin |-> spec, comparison |-> <<>>, turns |-> 1, history |-> <<first>>,
           checksum |-> <<>>]
  <2>. DEFINE one == [NoSession EXCEPT !.spec = spec]
              two == [one EXCEPT !.origin = spec]
              three == [two EXCEPT !.turns = 1]
  <2>1. one = [spec |-> spec, origin |-> NoSpec, comparison |-> <<>>, turns |-> 0, history |-> <<>>,
               checksum |-> <<>>]
    BY <1>0
  <2>4. s = [three EXCEPT !.history = <<first>>]
    OBVIOUS
  <2>. HIDE DEF one, s
  <2>2. two = [spec |-> spec, origin |-> spec, comparison |-> <<>>, turns |-> 0, history |-> <<>>,
               checksum |-> <<>>]
    BY <2>1
  <2>. HIDE DEF two
  <2>3. three = [spec |-> spec, origin |-> spec, comparison |-> <<>>, turns |-> 1, history |-> <<>>,
                 checksum |-> <<>>]
    BY <2>2
  <2>. HIDE DEF three
  <2>. QED  BY <2>3, <2>4
<1>b. empty = [spec |-> NoSpec, origin |-> spec, comparison |-> <<>>, turns |-> 0, history |-> <<>>,
               checksum |-> <<>>]
  BY <1>0
<1>1. /\ s = [spec |-> spec, origin |-> spec, comparison |-> <<>>, turns |-> 1, history |-> <<first>>,
              checksum |-> <<>>]
      /\ empty = [spec |-> NoSpec, origin |-> spec, comparison |-> <<>>, turns |-> 0, history |-> <<>>,
                  checksum |-> <<>>]
  BY <1>a, <1>b
<1>2. first \in Turns /\ first.kind = "noop"
  BY DEF first, Turn, Turns, Kinds, Comparisons
<1>3. session' = Sealed(s)
  BY DEF StartSession, first
<1>. HIDE DEF s, empty
<1>4. <<first>> \in Seq(Turns) /\ 1 \in 1..MaxTurns /\ <<>> \in Comparisons
  BY <1>2, SessionConstants DEF Comparisons
<1>5. /\ session' \in States /\ session'.spec = spec /\ session'.origin = spec
      /\ session'.comparison = <<>> /\ session'.turns = 1 /\ session'.history = <<first>>
  BY <1>1, <1>3, <1>4, SealedIs
<1>6. Replayed(empty) = AsSets(spec, <<>>)
  <2>1. Len(empty.history) = 0 /\ empty.origin = spec
    BY <1>1
  <2>2. PICK h : Saying(h, AsSets(empty.origin, <<>>), empty.history, Len(empty.history))
                 /\ Replayed(empty) = h[Len(empty.history)]
    BY <2>1, ReplayedIs
  <2>. QED  BY <2>1, <2>2 DEF Saying
<1>7. Replayed(session') = Said(Replayed(empty), first)
  <2>1. /\ empty.history \in Seq(Turns) /\ session'.origin = empty.origin
        /\ session'.history = Append(empty.history, first)
    BY <1>1, <1>2, <1>5
  <2>. QED  BY <2>1, ReplayedMore
<1>8. Said(Replayed(empty), first) = Replayed(empty)
  BY <1>2 DEF Said
<1>. QED  BY <1>5, <1>6, <1>7, <1>8 DEF Explained

(* The filters of other dimensions, as a set.                              *)
Others(filters, dim) == {f \in Range(filters) : f[1] # dim}
Joined(filters, filter) == Others(filters, filter[1]) \union {filter}

(* What the turns that change a query say of it.                           *)
LEMMA SaidIs ==
    ASSUME NEW spec, NEW comparison, NEW about
    PROVE  /\ \A kind \in {"noop", "compute_comparison", "rank_breakdown", "contribution_analysis"} :
                 Said(AsSets(spec, comparison), Turn(kind, about)) = AsSets(spec, comparison)
           /\ \A kind \in {"set_comparison", "clear_comparison"} :
                 Said(AsSets(spec, comparison), Turn(kind, about)) = AsSets(spec, about)
           /\ Said(AsSets(spec, comparison), Turn("add_metric", about)) =
                 [metrics |-> Range(spec.metrics) \union {about}, filters |-> Range(spec.filters),
                  comparison |-> comparison]
           /\ \A kind \in {"add_filter", "replace_filter"} :
                 Said(AsSets(spec, comparison), Turn(kind, about)) =
                 [metrics |-> Range(spec.metrics),
                  filters |-> Joined(spec.filters, about),
                  comparison |-> comparison]
           /\ Said(AsSets(spec, comparison), Turn("remove_filter", about)) =
                 [metrics |-> Range(spec.metrics), filters |-> Others(spec.filters, about),
                  comparison |-> comparison]
<1>. DEFINE metrics == Range(spec.metrics)
            filters == Range(spec.filters)
            state == [metrics |-> metrics, filters |-> filters, comparison |-> comparison]
<1>1. AsSets(spec, comparison) = state 
      /\ AsSets(spec, about) = [metrics |-> metrics, filters |-> filters, comparison |-> about]
  BY DEF AsSets
<1>2. \A kind : Turn(kind, about).kind = kind /\ Turn(kind, about).about = about
  BY DEF Turn
<1>. HIDE DEF metrics, filters
<1>3. \A kind \in {"noop", "compute_comparison", "rank_breakdown", "contribution_analysis"} :
          Said(state, Turn(kind, about)) = state
  BY <1>2 DEF Said
<1>4. \A kind \in {"set_comparison", "clear_comparison"} :
          Said(state, Turn(kind, about)) = [metrics |-> metrics, filters |-> filters, comparison |-> about]
  BY <1>2 DEF Said
<1>5. Said(state, Turn("add_metric", about)) =
          [metrics |-> metrics \union {about}, filters |-> filters, comparison |-> comparison]
  <2>1. Said(state, Turn("add_metric", about)) = [state EXCEPT !.metrics = @ \union {about}]
    <3>. HIDE DEF state
    <3>. QED  BY <1>2 DEF Said
  <2>. QED  BY <2>1
<1>6. \A kind \in {"add_filter", "replace_filter"} :
          Said(state, Turn(kind, about)) =
          [metrics |-> metrics, filters |-> {f \in filters : f[1] # about[1]} \union {about},
           comparison |-> comparison]
  BY <1>2 DEF Said
<1>7. Said(state, Turn("remove_filter", about)) =
          [metrics |-> metrics, filters |-> {f \in filters : f[1] # about}, comparison |-> comparison]
  BY <1>2 DEF Said
<1>. HIDE DEF state
<1>. QED  BY <1>1, <1>3, <1>4, <1>5, <1>6, <1>7 DEF metrics, filters, Others, Joined

(* A filter that joins or replaces another leaves one for each dimension.  *)
LEMMA FilteredIs ==
    ASSUME NEW filters \in Seq(Filters), Distinct(filters), NEW filter \in Filters
    PROVE  /\ Filtered(filters, filter) \in Seq(Filters) /\ Distinct(Filtered(filters, filter))
           /\ Range(Filtered(filters, filter)) = {f \in Range(filters) : f[1] # filter[1]} \union {filter}
<1>1. CASE Has(filters, filter[1])
  <2>. DEFINE replaced == [i \in DOMAIN filters |-> IF filters[i][1] = filter[1] THEN filter ELSE filters[i]]
  <2>1. Filtered(filters, filter) = replaced
    BY <1>1 DEF Filtered
  <2>2. DOMAIN filters = 1..Len(filters) /\ Len(filters) \in Nat /\ \A i \in DOMAIN filters : filters[i] \in Filters
    OBVIOUS
  <2>3. replaced \in Seq(Filters) /\ DOMAIN replaced = DOMAIN filters
    BY <2>2
  <2>4. \A i \in DOMAIN filters : replaced[i][1] = filters[i][1]
    OBVIOUS
  <2>5. Distinct(replaced)
    BY <2>3, <2>4 DEF Distinct
  <2>6. PICK at \in DOMAIN filters : filters[at][1] = filter[1]
    BY <1>1 DEF Has
  <2>7. Range(replaced) = {f \in Range(filters) : f[1] # filter[1]} \union {filter}
    <3>1. \A f \in Range(replaced) : f \in {g \in Range(filters) : g[1] # filter[1]} \union {filter}
      BY <2>3 DEF Range
    <3>2. filter \in Range(replaced)
      BY <2>3, <2>6 DEF Range
    <3>3. \A f \in {g \in Range(filters) : g[1] # filter[1]} : f \in Range(replaced)
      BY <2>3 DEF Range
    <3>. QED  BY <3>1, <3>2, <3>3
  <2>. QED  BY <2>1, <2>3, <2>5, <2>7
<1>2. CASE ~ Has(filters, filter[1])
  <2>1. Filtered(filters, filter) = Append(filters, filter)
    BY <1>2 DEF Filtered
  <2>2. \A g \in Range(filters) : g[1] # filter[1]
    BY <1>2 DEF Has, Range
  <2>3. {f \in Range(filters) : f[1] # filter[1]} = Range(filters)
    BY <2>2
  <2>. QED  BY <2>1, <2>2, <2>3, OneFilterMore
<1>. QED  BY <1>1, <1>2

(* A metric that a query has not joins it once.                            *)
LEMMA OneMetricMore ==
    ASSUME NEW metrics \in Seq(Metrics), IsInjective(metrics), NEW m \in Metrics, m \notin Range(metrics)
    PROVE  /\ Append(metrics, m) \in Seq(Metrics) /\ IsInjective(Append(metrics, m))
           /\ Range(Append(metrics, m)) = Range(metrics) \union {m}
<1>. DEFINE more == Append(metrics, m)
<1>1. /\ more \in Seq(Metrics) /\ Len(metrics) \in Nat
      /\ DOMAIN metrics = 1..Len(metrics) /\ DOMAIN more = 1..(Len(metrics) + 1)
      /\ more[Len(metrics) + 1] = m /\ \A i \in 1..Len(metrics) : more[i] = metrics[i]
  OBVIOUS
<1>2. \A i \in 1..Len(metrics) : metrics[i] # m
  BY <1>1 DEF Range
<1>. HIDE DEF more
<1>3. IsInjective(more)
  BY <1>1, <1>2 DEF IsInjective
<1>4. Range(more) = Range(metrics) \union {m}
  BY <1>1 DEF Range
<1>. QED  BY <1>1, <1>3, <1>4 DEF more

(* A turn that says what it made of the query leaves a state that its      *)
(* history explains.                                                       *)
LEMMA TurnIsExplained ==
    ASSUME SessionInv, Accepts, NEW kind, NEW about, NEW spec \in Queries, NEW comparison \in Comparisons,
           session' = Sealed([session EXCEPT
                          !.spec = spec, !.comparison = comparison, !.turns = @ + 1,
                          !.history = Append(@, Turn(kind, about))]),
           Turn(kind, about) \in Turns,
           spec.groups = session.spec.groups, spec.span = session.spec.span,
           Len(spec.metrics) <= MaxMetrics, IsInjective(spec.metrics),
           Len(spec.filters) <= MaxFilters, Distinct(spec.filters),
           Said(AsSets(session.spec, session.comparison), Turn(kind, about)) = AsSets(spec, comparison)
    PROVE  session' \in States /\ Len(session'.history) > 0 /\ Explained(session')
<1>. DEFINE delta == Turn(kind, about)
            s == [session EXCEPT !.spec = spec, !.comparison = comparison, !.turns = @ + 1,
                                 !.history = Append(@, delta)]
<1>1. session \in States /\ Explained(session) /\ session.turns < MaxTurns
  BY DEF SessionInv, Accepts
<1>. DEFINE more == Append(session.history, delta)
<1>2. /\ session.origin \in Queries /\ session.turns \in 1..MaxTurns /\ session.history \in Seq(Turns)
      /\ session = [spec |-> session.spec, origin |-> session.origin, comparison |-> session.comparison,
                    turns |-> session.turns, history |-> session.history, checksum |-> session.checksum]
  BY <1>1 DEF States
<1>3. s = [spec |-> spec, origin |-> session.origin, comparison |-> comparison,
           turns |-> session.turns + 1, history |-> more, checksum |-> session.checksum]
  <2>. DEFINE one == [session EXCEPT !.spec = spec]
              two == [one EXCEPT !.comparison = comparison]
              three == [two EXCEPT !.turns = @ + 1]
  <2>1. one = [spec |-> spec, origin |-> session.origin, comparison |-> session.comparison,
               turns |-> session.turns, history |-> session.history, checksum |-> session.checksum]
    BY <1>2
  <2>4. s = [three EXCEPT !.history = Append(@, delta)]
    OBVIOUS
  <2>. HIDE DEF one, s, delta
  <2>2. two = [spec |-> spec, origin |-> session.origin, comparison |-> comparison,
               turns |-> session.turns, history |-> session.history, checksum |-> session.checksum]
    BY <2>1
  <2>. HIDE DEF two
  <2>3. three = [spec |-> spec, origin |-> session.origin, comparison |-> comparison,
                 turns |-> session.turns + 1, history |-> session.history, checksum |-> session.checksum]
    BY <2>2
  <2>. HIDE DEF three
  <2>. QED  BY <2>3, <2>4
<1>4. session' = Sealed(s) /\ delta \in Turns
  OBVIOUS
<1>5. Said(AsSets(session.spec, session.comparison), delta) = AsSets(spec, comparison)
  OBVIOUS
<1>. HIDE DEF s, delta
<1>6. session.turns + 1 \in 1..MaxTurns
  BY <1>1, <1>2, SessionConstants
<1>7. more \in Seq(Turns) /\ Len(more) = Len(session.history) + 1 /\ Len(session.history) \in Nat
  BY <1>2, <1>4
<1>8. /\ session' \in States /\ session'.spec = spec /\ session'.origin = session.origin
      /\ session'.comparison = comparison /\ session'.turns = session.turns + 1
      /\ session'.history = Append(session.history, delta)
  <2>. HIDE DEF more
  <2>1. /\ s.spec = spec /\ s.origin = session.origin /\ s.comparison = comparison
        /\ s.turns = session.turns + 1 /\ s.history = more
    BY <1>3
  <2>2. s = [spec |-> s.spec, origin |-> s.origin, comparison |-> s.comparison, turns |-> s.turns,
             history |-> s.history, checksum |-> session.checksum]
    BY ONLY <1>3, <2>1
  <2>3. /\ s.origin \in Queries /\ s.spec \in Queries /\ s.turns \in 1..MaxTurns
        /\ s.history \in Seq(Turns) /\ s.comparison \in Comparisons
    BY <1>2, <1>6, <1>7, <2>1
  <2>4. /\ Sealed(s) \in States /\ Sealed(s).spec = s.spec /\ Sealed(s).origin = s.origin
        /\ Sealed(s).comparison = s.comparison /\ Sealed(s).turns = s.turns
        /\ Sealed(s).history = s.history
    BY ONLY <2>2, <2>3, SealedIs
  <2>5. session' = Sealed(s)
    BY <1>4
  <2>. QED  BY ONLY <2>1, <2>4, <2>5 DEF more
<1>9. Replayed(session') = Said(Replayed(session), delta)
  BY <1>2, <1>8, ReplayedMore
<1>10. Replayed(session') = AsSets(spec, comparison)
  BY <1>1, <1>5, <1>9 DEF Explained
<1>. QED  BY <1>1, <1>7, <1>8, <1>10 DEF Explained

(* A turn of a session keeps its invariant, and so does a stop.            *)
LEMMA CommitKeeps ==
    ASSUME SessionInv, Accepts, NEW kind, NEW about, NEW spec \in Queries, NEW comparison \in Comparisons,
           Commit(kind, about, spec, comparison), Turn(kind, about) \in Turns,
           spec.groups = session.spec.groups, spec.span = session.spec.span,
           Len(spec.metrics) <= MaxMetrics, IsInjective(spec.metrics),
           Len(spec.filters) <= MaxFilters, Distinct(spec.filters),
           Said(AsSets(session.spec, session.comparison), Turn(kind, about)) = AsSets(spec, comparison)
    PROVE  SessionInv'
<1>1. session' \in States /\ Len(session'.history) > 0 /\ Explained(session')
  BY TurnIsExplained DEF Commit
<1>2. clarification' = clarification /\ result' \in {"READY", "ERROR"}
  BY DEF Commit
<1>. QED  BY <1>1, <1>2 DEF SessionInv

(* A call that stops changes nothing but its status.                       *)
LEMMA StopKeeps ==
    ASSUME SessionInv, NEW status \in {"READY", "ERROR", "BLOCKED", "REJECTED", "CLARIFICATION_REQUIRED"},
           Stop(status)
    PROVE  SessionInv'
  BY DEF SessionInv, Stop

(* What an accepted state is.                                              *)
LEMMA AcceptedIs ==
    ASSUME SessionInv, Accepts
    PROVE  /\ session \in States /\ session.comparison \in Comparisons /\ session.spec \in Queries
           /\ session.spec.metrics \in Seq(Metrics) /\ session.spec.filters \in Seq(Filters)
           /\ Len(session.spec.metrics) <= MaxMetrics /\ IsInjective(session.spec.metrics)
           /\ Len(session.spec.filters) <= MaxFilters /\ Distinct(session.spec.filters)
           /\ session.spec = [metrics |-> session.spec.metrics, filters |-> session.spec.filters,
                              groups |-> session.spec.groups, span |-> session.spec.span]
<1>1. session \in States /\ Explained(session)
  BY DEF SessionInv, Accepts
<1>2. session.comparison \in Comparisons /\ session.spec \in Queries
  BY <1>1 DEF States
<1>. QED  BY <1>1, <1>2 DEF Explained, Queries

(* A planned follow-up keeps the query, and leaves its comparison or says  *)
(* it.                                                                     *)
LEMMA PlannedKeeps ==
    ASSUME SessionInv, Accepts, NEW kind, NEW comparison \in Comparisons, NEW mode,
           PlanThenCommit(kind, comparison, mode),
           \/ kind = "set_comparison"
           \/ /\ kind \in {"compute_comparison", "rank_breakdown", "contribution_analysis"}
              /\ comparison = session.comparison
    PROVE  SessionInv'
<1>. DEFINE status == PlanStatus(session.spec, comparison, mode)
<1>1. status \in {"READY", "BLOCKED", "CLARIFICATION_REQUIRED"}
  BY DEF PlanStatus
<1>2. CASE status = "READY"
  <2>1. Commit(kind, comparison, session.spec, comparison)
    BY <1>2 DEF PlanThenCommit
  <2>2. Turn(kind, comparison) \in Turns
    BY DEF Turn, Turns, Kinds
  <2>3. Said(AsSets(session.spec, session.comparison), Turn(kind, comparison)) = AsSets(session.spec, comparison)
    BY SaidIs
  <2>. QED  BY <2>1, <2>2, <2>3, AcceptedIs, CommitKeeps
<1>3. CASE status # "READY"
  <2>1. Stop(status)
    BY <1>3 DEF PlanThenCommit
  <2>. QED  BY <1>1, <2>1, StopKeeps
<1>. QED  BY <1>2, <1>3

(* Deltas of metrics and filters keep the comparison.                      *)
LEMMA SpecKeeps ==
    ASSUME SessionInv, Accepts, NEW kind \in Kinds,
           NEW about \in Metrics \union Filters \union Dimensions, NEW spec \in Queries,
           CommitSpec(kind, about, spec),
           spec.groups = session.spec.groups, spec.span = session.spec.span,
           IsInjective(spec.metrics), Distinct(spec.filters),
           Said(AsSets(session.spec, session.comparison), Turn(kind, about)) = AsSets(spec, session.comparison)
    PROVE  SessionInv'
<1>1. CASE Len(spec.metrics) > MaxMetrics \/ Len(spec.filters) > MaxFilters
  <2>1. Stop("BLOCKED")
    BY <1>1 DEF CommitSpec
  <2>. QED  BY <2>1, StopKeeps
<1>2. CASE ~ (Len(spec.metrics) > MaxMetrics \/ Len(spec.filters) > MaxFilters)
  <2>1. Commit(kind, about, spec, session.comparison)
    BY <1>2 DEF CommitSpec
  <2>2. spec.metrics \in Seq(Metrics) /\ spec.filters \in Seq(Filters)
    BY DEF Queries
  <2>3. Len(spec.metrics) <= MaxMetrics /\ Len(spec.filters) <= MaxFilters
    BY <1>2, <2>2, SessionConstants
  <2>4. Turn(kind, about) \in Turns
    BY DEF Turn, Turns
  <2>. QED  BY <2>1, <2>3, <2>4, AcceptedIs, CommitKeeps
<1>. QED  BY <1>1, <1>2

(* Each delta says what it does to the query.                               *)
LEMMA AddMetricKeeps ==
    ASSUME SessionInv, NEW m \in Metrics, AddMetric(m)
    PROVE  SessionInv'
<1>. DEFINE old == session.spec
            spec == [old EXCEPT !.metrics = Append(@, m)]
<1>1. Accepts
  BY DEF AddMetric
<1>2. CASE m \in Range(old.metrics)
  <2>1. Stop("CLARIFICATION_REQUIRED")
    BY <1>2 DEF AddMetric
  <2>. QED  BY <2>1, StopKeeps
<1>3. CASE m \notin Range(old.metrics)
  <2>1. CommitSpec("add_metric", m, spec)
    BY <1>3 DEF AddMetric
  <2>2. /\ Append(old.metrics, m) \in Seq(Metrics) /\ IsInjective(Append(old.metrics, m))
        /\ Range(Append(old.metrics, m)) = Range(old.metrics) \union {m}
    BY <1>1, <1>3, AcceptedIs, OneMetricMore
  <2>3. spec = [metrics |-> Append(old.metrics, m), filters |-> old.filters,
                groups |-> old.groups, span |-> old.span] /\ old \in Queries
    <3>1. /\ session.spec \in Queries
          /\ session.spec = [metrics |-> session.spec.metrics, filters |-> session.spec.filters,
                             groups |-> session.spec.groups, span |-> session.spec.span]
      BY <1>1, AcceptedIs
    <3>2. /\ old \in Queries
          /\ old = [metrics |-> old.metrics, filters |-> old.filters, groups |-> old.groups, span |-> old.span]
      BY <3>1
    <3>. HIDE DEF old
    <3>. QED  BY ONLY <3>2 DEF spec
  <2>. HIDE DEF spec, old
  <2>4. spec \in Queries /\ IsInjective(spec.metrics) /\ spec.filters = old.filters
        /\ spec.groups = old.groups /\ spec.span = old.span
    BY <2>2, <2>3 DEF Queries
  <2>5. Distinct(spec.filters)
    BY <1>1, <2>4, AcceptedIs DEF old
  <2>6. Said(AsSets(session.spec, session.comparison), Turn("add_metric", m)) = AsSets(spec, session.comparison)
    <3>1. Range(spec.metrics) = Range(old.metrics) \union {m} /\ Range(spec.filters) = Range(old.filters)
      BY <2>2, <2>3
    <3>2. Said(AsSets(old, session.comparison), Turn("add_metric", m)) =
              [metrics |-> Range(old.metrics) \union {m}, filters |-> Range(old.filters),
               comparison |-> session.comparison]
      BY SaidIs
    <3>. QED  BY <3>1, <3>2 DEF AsSets, old
  <2>7. "add_metric" \in Kinds
    BY DEF Kinds
  <2>. QED  BY <1>1, <2>1, <2>4, <2>5, <2>6, <2>7, SpecKeeps DEF old
<1>. QED  BY <1>2, <1>3

(* A query with other filters.                                             *)
LEMMA OtherFilters ==
    ASSUME SessionInv, Accepts, NEW filters \in Seq(Filters), NEW spec,
           spec = [session.spec EXCEPT !.filters = filters]
    PROVE  /\ spec \in Queries /\ IsInjective(spec.metrics) /\ spec.filters = filters
           /\ spec.groups = session.spec.groups /\ spec.span = session.spec.span
           /\ AsSets(spec, session.comparison) =
                 [metrics |-> Range(session.spec.metrics), filters |-> Range(filters),
                  comparison |-> session.comparison]
<1>1. spec = [metrics |-> session.spec.metrics, filters |-> filters,
              groups |-> session.spec.groups, span |-> session.spec.span]
  BY AcceptedIs
<1>2. session.spec \in Queries /\ IsInjective(session.spec.metrics)
  BY AcceptedIs
<1>3. spec.metrics = session.spec.metrics /\ spec.filters = filters
      /\ spec.groups = session.spec.groups /\ spec.span = session.spec.span
  BY <1>1
<1>4. AsSets(spec, session.comparison) =
          [metrics |-> Range(session.spec.metrics), filters |-> Range(filters),
           comparison |-> session.comparison]
  BY ONLY <1>3 DEF AsSets
<1>. QED  BY <1>1, <1>2, <1>3, <1>4 DEF Queries

LEMMA RemoveFilterKeeps ==
    ASSUME SessionInv, NEW dim \in Dimensions, RemoveFilter(dim)
    PROVE  SessionInv'
<1>. DEFINE filters == Without(session.spec.filters, dim)
            spec == [session.spec EXCEPT !.filters = filters]
<1>1. Accepts
  BY DEF RemoveFilter
<1>2. CASE ~ Has(session.spec.filters, dim)
  <2>1. Stop("CLARIFICATION_REQUIRED")
    BY <1>2 DEF RemoveFilter
  <2>. QED  BY <2>1, StopKeeps
<1>3. CASE Has(session.spec.filters, dim)
  <2>1. CommitSpec("remove_filter", dim, spec)
    BY <1>3 DEF RemoveFilter
  <2>2. /\ filters \in Seq(Filters) /\ Distinct(filters)
        /\ Range(filters) = {f \in Range(session.spec.filters) : f[1] # dim}
    BY <1>1, AcceptedIs, WithoutIs
  <2>3. spec = [session.spec EXCEPT !.filters = filters]
    OBVIOUS
  <2>. HIDE DEF filters, spec
  <2>4. /\ spec \in Queries /\ IsInjective(spec.metrics) /\ spec.filters = filters
        /\ spec.groups = session.spec.groups /\ spec.span = session.spec.span
        /\ AsSets(spec, session.comparison) =
              [metrics |-> Range(session.spec.metrics), filters |-> Range(filters),
               comparison |-> session.comparison]
    BY <1>1, <2>2, <2>3, OtherFilters
  <2>5. Said(AsSets(session.spec, session.comparison), Turn("remove_filter", dim)) =
            AsSets(spec, session.comparison)
    <3>1. Said(AsSets(session.spec, session.comparison), Turn("remove_filter", dim)) =
              [metrics |-> Range(session.spec.metrics), filters |-> Others(session.spec.filters, dim),
               comparison |-> session.comparison]
      BY SaidIs
    <3>2. Range(filters) = Others(session.spec.filters, dim)
      BY <2>2 DEF Others
    <3>. QED  BY ONLY <2>4, <3>1, <3>2
  <2>6. "remove_filter" \in Kinds
    BY DEF Kinds
  <2>. QED  BY <1>1, <2>1, <2>2, <2>4, <2>5, <2>6, SpecKeeps
<1>. QED  BY <1>2, <1>3

LEMMA FilterKeeps ==
    ASSUME SessionInv, NEW filter \in Filters, Filter(filter)
    PROVE  SessionInv'
<1>. DEFINE filters == Filtered(session.spec.filters, filter)
            spec == [session.spec EXCEPT !.filters = filters]
            kind == IF Has(session.spec.filters, filter[1]) THEN "replace_filter" ELSE "add_filter"
<1>1. Accepts /\ CommitSpec(kind, filter, spec)
  BY DEF Filter
<1>2. /\ filters \in Seq(Filters) /\ Distinct(filters)
      /\ Range(filters) = {f \in Range(session.spec.filters) : f[1] # filter[1]} \union {filter}
  BY <1>1, AcceptedIs, FilteredIs
<1>3. spec = [session.spec EXCEPT !.filters = filters] /\ kind \in {"add_filter", "replace_filter"}
  OBVIOUS
<1>. HIDE DEF filters, spec, kind
<1>4. /\ spec \in Queries /\ IsInjective(spec.metrics) /\ spec.filters = filters
      /\ spec.groups = session.spec.groups /\ spec.span = session.spec.span
      /\ AsSets(spec, session.comparison) =
            [metrics |-> Range(session.spec.metrics), filters |-> Range(filters),
             comparison |-> session.comparison]
  BY <1>1, <1>2, <1>3, OtherFilters
<1>5. Said(AsSets(session.spec, session.comparison), Turn(kind, filter)) = AsSets(spec, session.comparison)
  <2>1. Said(AsSets(session.spec, session.comparison), Turn(kind, filter)) =
            [metrics |-> Range(session.spec.metrics),
             filters |-> Joined(session.spec.filters, filter),
             comparison |-> session.comparison]
    <3>1. \A k \in {"add_filter", "replace_filter"} :
              Said(AsSets(session.spec, session.comparison), Turn(k, filter)) =
              [metrics |-> Range(session.spec.metrics),
               filters |-> Joined(session.spec.filters, filter),
               comparison |-> session.comparison]
      BY ONLY SaidIs
    <3>. QED  BY ONLY <1>3, <3>1
  <2>2. Range(filters) = Joined(session.spec.filters, filter)
    BY <1>2 DEF Others, Joined
  <2>. QED  BY ONLY <1>4, <2>1, <2>2
<1>6. kind \in Kinds
  BY <1>3 DEF Kinds
<1>. QED  BY <1>1, <1>2, <1>4, <1>5, <1>6, SpecKeeps

LEMMA ClearComparisonKeeps ==
    ASSUME SessionInv, ClearComparison
    PROVE  SessionInv'
<1>1. Accepts
  BY DEF ClearComparison
<1>2. CASE session.comparison = <<>>
  <2>1. Stop("CLARIFICATION_REQUIRED")
    BY <1>2 DEF ClearComparison
  <2>. QED  BY <2>1, StopKeeps
<1>3. CASE session.comparison # <<>>
  <2>1. /\ session' = Sealed([session EXCEPT
                   !.comparison = <<>>, !.turns = @ + 1,
                   !.history = Append(@, Turn("clear_comparison", <<>>))])
        /\ result' = "READY" /\ clarification' = clarification
    BY <1>3 DEF ClearComparison
  <2>2. [session EXCEPT !.spec = session.spec] = session
    BY <1>1, AcceptedIs DEF States
  <2>3. session' = Sealed([session EXCEPT
                   !.spec = session.spec, !.comparison = <<>>, !.turns = @ + 1,
                   !.history = Append(@, Turn("clear_comparison", <<>>))])
    BY <2>1, <2>2
  <2>4. Turn("clear_comparison", <<>>) \in Turns /\ <<>> \in Comparisons
    BY DEF Turn, Turns, Kinds, Comparisons
  <2>5. Said(AsSets(session.spec, session.comparison), Turn("clear_comparison", <<>>)) = AsSets(session.spec, <<>>)
    BY SaidIs
  <2>6. session' \in States /\ Len(session'.history) > 0 /\ Explained(session')
    BY <1>1, <2>3, <2>4, <2>5, AcceptedIs, TurnIsExplained
  <2>. QED  BY <2>1, <2>6 DEF SessionInv
<1>. QED  BY <1>2, <1>3

(* A first query, asked in full or completed by a chosen candidate.        *)
LEMMA AskKeeps ==
    ASSUME SessionInv, NEW spec \in Specs, Ask(spec)
    PROVE  SessionInv'
<1>1. session' \in States /\ Len(session'.history) > 0 /\ Explained(session')
  BY PlannedSpec, StartedIs DEF Ask
<1>. QED  BY <1>1 DEF SessionInv, Ask

LEMMA PrepareKeeps ==
    ASSUME SessionInv, NEW spec \in Specs, NEW candidates \in Seq(Filters), Prepare(spec, candidates)
    PROVE  SessionInv'
<1>1. /\ clarification'.base = spec /\ clarification'.candidates = candidates
      /\ DOMAIN clarification' = DOMAIN NoClarification
  BY DEF Prepare, Frozen, NoClarification
<1>. QED  BY <1>1 DEF SessionInv, Prepare

LEMMA ResumeKeeps ==
    ASSUME SessionInv, NEW reply, Resume(reply)
    PROVE  SessionInv'
<1>. DEFINE c == clarification
            chosen == Selected(reply)
            filter == c.candidates[CHOOSE i \in chosen : TRUE]
            spec == [c.base EXCEPT !.filters = Append(@, filter)]
<1>1. c.base \in Specs /\ c.candidates \in Seq(Filters)
  BY DEF SessionInv, Resume
<1>2. CASE /\ chosen # {} /\ Len(c.base.filters) < MaxFilters /\ ~Has(c.base.filters, filter[1])
           /\ StartSession(spec) /\ clarification' = NoClarification /\ result' = "READY"
  <2>1. filter \in Filters
    <3>1. chosen \subseteq DOMAIN c.candidates
      BY DEF Selected
    <3>2. (CHOOSE i \in chosen : TRUE) \in chosen
      BY <1>2
    <3>. QED  BY <1>1, <3>1, <3>2
  <2>. DEFINE filters == Append(c.base.filters, filter)
  <2>2. /\ c.base \in Queries /\ Len(c.base.metrics) <= MaxMetrics /\ IsInjective(c.base.metrics)
        /\ Distinct(c.base.filters)
    BY <1>1, PlannedSpec
  <2>3. c.base.filters \in Seq(Filters)
    BY <2>2 DEF Queries
  <2>4. filters \in Seq(Filters) /\ Len(filters) <= MaxFilters /\ Distinct(filters)
    <3>1. \A g \in Range(c.base.filters) : g[1] # filter[1]
      BY <1>2 DEF Has, Range
    <3>2. filters \in Seq(Filters) /\ Len(filters) = Len(c.base.filters) + 1 /\ Distinct(filters)
      BY <2>1, <2>2, <2>3, <3>1, OneFilterMore
    <3>3. Len(c.base.filters) \in Nat /\ Len(c.base.filters) < MaxFilters
      BY <1>2, <2>3
    <3>. QED  BY <3>2, <3>3, SessionConstants
  <2>. HIDE DEF filter
  <2>5. spec = [metrics |-> c.base.metrics, filters |-> filters, groups |-> c.base.groups, span |-> c.base.span]
        /\ c.base.metrics \in Seq(Metrics) /\ c.base.groups \in 0..2 /\ c.base.span \in Spans
    <3>. DEFINE base == c.base
    <3>1. /\ base = [metrics |-> base.metrics, filters |-> base.filters, groups |-> base.groups, span |-> base.span]
          /\ base.metrics \in Seq(Metrics) /\ base.groups \in 0..2 /\ base.span \in Spans
      BY <2>2 DEF Queries
    <3>2. spec = [base EXCEPT !.filters = filters]
      OBVIOUS
    <3>3. c.base = base
      OBVIOUS
    <3>. HIDE DEF base, filters, spec
    <3>. QED  BY ONLY <3>1, <3>2, <3>3
  <2>6. StartSession(spec)
    BY <1>2
  <2>. HIDE DEF spec, filters
  <2>7. spec \in Queries /\ Len(spec.metrics) <= MaxMetrics /\ IsInjective(spec.metrics)
        /\ Len(spec.filters) <= MaxFilters /\ Distinct(spec.filters)
    BY <2>2, <2>4, <2>5 DEF Queries
  <2>8. session' \in States /\ Len(session'.history) > 0 /\ Explained(session')
    BY <2>6, <2>7, StartedIs
  <2>. QED  BY <1>2, <2>8 DEF SessionInv
<1>3. CASE /\ clarification' = clarification /\ session' = session
           /\ result' \in {"CLARIFICATION_REQUIRED", "BLOCKED"}
  BY <1>3 DEF SessionInv
<1>. QED  BY <1>2, <1>3 DEF Resume

(* A state that is garbled is accepted only when nothing was changed: the  *)
(* checksum is over all of it.                                             *)
LEMMA GarbleKeeps ==
    ASSUME SessionInv, Garble
    PROVE  SessionInv'
<1>1. CASE /\ clarification # NoClarification /\ session = NoSession
           /\ \E f \in Filters : clarification' = [clarification EXCEPT !.candidates = <<f>>]
           /\ session' = session /\ result' = result
  <2>1. PICK f \in Filters : clarification' = [clarification EXCEPT !.candidates = <<f>>]
    BY <1>1
  <2>2. /\ clarification.base \in Specs /\ DOMAIN clarification = DOMAIN NoClarification
    BY <1>1 DEF SessionInv
  <2>3. DOMAIN NoClarification = {"base", "candidates", "checksum"}
    BY DEF NoClarification
  <2>4. clarification'.base = clarification.base /\ clarification'.candidates = <<f>>
        /\ DOMAIN clarification' = DOMAIN clarification
    BY <2>1, <2>2, <2>3
  <2>5. <<f>> \in Seq(Filters)
    OBVIOUS
  <2>. QED  BY <1>1, <2>2, <2>4, <2>5 DEF SessionInv
<1>2. CASE /\ session # NoSession /\ Validate(session)
           /\ \/ \E f \in Filters : session' = [session EXCEPT !.spec.filters = <<f>>]
              \/ \E c \in {<<>>} \union (ComparisonModes \X {0}) : session' = [session EXCEPT !.comparison = c]
              \/ session' = [session EXCEPT !.turns = 1, !.history = <<session.history[1]>>]
           /\ clarification' = clarification /\ result' = result
  <2>1. session \in States /\ Len(session.history) > 0 /\ Explained(session)
    BY <1>2 DEF SessionInv
  <2>2. session' \in States /\ Len(session'.history) > 0 /\ session'.checksum = session.checksum
    <3>1. ASSUME NEW f \in Filters, session' = [session EXCEPT !.spec.filters = <<f>>]
          PROVE  session' \in States /\ session'.history = session.history /\ session'.checksum = session.checksum
      <4>. DEFINE spec == [session.spec EXCEPT !.filters = <<f>>]
      <4>1. <<f>> \in Seq(Filters) /\ session.spec \in Queries
        BY <2>1 DEF States
      <4>2. spec \in Queries
        BY <4>1 DEF Queries
      <4>3. session' = [session EXCEPT !.spec = spec]
        BY <3>1
      <4>. HIDE DEF spec
      <4>. QED  BY <2>1, <4>2, <4>3 DEF States
    <3>2. ASSUME NEW c \in {<<>>} \union (ComparisonModes \X {0}), session' = [session EXCEPT !.comparison = c]
          PROVE  session' \in States /\ session'.history = session.history /\ session'.checksum = session.checksum
      <4>1. c \in Comparisons
        BY DEF Comparisons
      <4>. QED  BY <2>1, <3>2, <4>1 DEF States
    <3>3. ASSUME session' = [session EXCEPT !.turns = 1, !.history = <<session.history[1]>>]
          PROVE  session' \in States /\ Len(session'.history) > 0 /\ session'.checksum = session.checksum
      <4>1. session.history \in Seq(Turns) /\ session.history[1] \in Turns
        BY <2>1 DEF States
      <4>2. <<session.history[1]>> \in Seq(Turns) /\ Len(<<session.history[1]>>) = 1 /\ 1 \in 1..MaxTurns
        BY <4>1, SessionConstants
      <4>. DEFINE history == <<session.history[1]>>
                  one == [session EXCEPT !.turns = 1]
      <4>3. session' = [one EXCEPT !.history = history]
        BY <3>3
      <4>. HIDE DEF history
      <4>4. one \in States /\ one.checksum = session.checksum
        BY <2>1, <4>2 DEF States
      <4>. HIDE DEF one
      <4>5. history \in Seq(Turns) /\ Len(history) = 1
        BY <4>2 DEF history
      <4>6. session' \in States /\ session'.checksum = session.checksum
        BY ONLY <4>3, <4>4, <4>5 DEF States
      <4>7. session'.history = history
        BY ONLY <4>3, <4>4 DEF States
      <4>8. Len(session'.history) = 1
        BY ONLY <4>5, <4>7, Zenon
      <4>. QED  BY ONLY <4>6, <4>8
    <3>. QED  BY <1>2, <2>1, <3>1, <3>2, <3>3
  <2>3. Validate(session') => session' = session
    <3>1. ASSUME Validate(session')
          PROVE  session' = session
      <4>1. Fingerprint(session') = Fingerprint(session)
        BY <1>2, <2>2, <3>1 DEF Validate
      <4>2. /\ session'.origin = session.origin /\ session'.spec = session.spec
            /\ session'.turns = session.turns /\ session'.history = session.history
            /\ session'.comparison = session.comparison
        BY <4>1 DEF Fingerprint
      <4>3. /\ session = [origin |-> session.origin, spec |-> session.spec, turns |-> session.turns,
                          history |-> session.history, comparison |-> session.comparison,
                          checksum |-> session.checksum]
            /\ session' = [origin |-> session'.origin, spec |-> session'.spec, turns |-> session'.turns,
                           history |-> session'.history, comparison |-> session'.comparison,
                           checksum |-> session'.checksum]
        BY <2>1, <2>2 DEF States
      <4>. QED  BY ONLY <2>2, <4>2, <4>3
    <3>. QED  BY <3>1
  <2>. QED  BY <1>2, <2>1, <2>2, <2>3 DEF SessionInv
<1>. QED  BY <1>1, <1>2 DEF Garble

(* A session that is held is well formed, and explained when accepted.      *)
THEOREM SessionInvariant == SessionSpec => []SessionInv
<1>1. SessionInit => SessionInv
  BY DEF SessionInit, SessionInv
<1>2. SessionInv /\ [SessionNext]_sessionVars => SessionInv'
  <2>. SUFFICES ASSUME SessionInv, [SessionNext]_sessionVars PROVE SessionInv'
    OBVIOUS
  <2>1. ASSUME NEW spec \in Specs, Ask(spec) PROVE SessionInv'
    BY <2>1, AskKeeps
  <2>2. ASSUME NEW spec \in Specs, NEW n \in 0..2, NEW c \in [1..n -> Filters], Prepare(spec, c)
        PROVE  SessionInv'
    <3>1. c \in Seq(Filters)
      OBVIOUS
    <3>. QED  BY <2>2, <3>1, PrepareKeeps
  <2>3. ASSUME NEW reply \in Replies, Resume(reply) PROVE SessionInv'
    BY <2>3, ResumeKeeps
  <2>4. CASE Reject
    BY <2>4 DEF Reject, SessionInv
  <2>5. CASE Refuse
    BY <2>5 DEF Refuse, SessionInv
  <2>6. CASE ClearComparison
    BY <2>6, ClearComparisonKeeps
  <2>7. CASE ComparisonCompute
    <3>1. CASE session.comparison = <<>>
      <4>1. Stop("CLARIFICATION_REQUIRED")
        BY <2>7, <3>1 DEF ComparisonCompute
      <4>. QED  BY <4>1, StopKeeps
    <3>2. CASE session.comparison # <<>>
      <4>1. Accepts /\ PlanThenCommit("compute_comparison", session.comparison, "COMPARE")
        BY <2>7, <3>2 DEF ComparisonCompute
      <4>. QED  BY <4>1, AcceptedIs, PlannedKeeps
    <3>. QED  BY <3>1, <3>2
  <2>8. CASE Unresolved
    BY <2>8, StopKeeps DEF Unresolved
  <2>9. CASE Garble
    BY <2>9, GarbleKeeps
  <2>10. ASSUME NEW c \in ComparisonModes \X ({0} \union Spans), SetComparison(c) PROVE SessionInv'
    <3>1. c \in Comparisons
      BY DEF Comparisons
    <3>2. Accepts /\ PlanThenCommit("set_comparison", c, "COMPARE")
      BY <2>10 DEF SetComparison
    <3>. QED  BY <3>1, <3>2, PlannedKeeps
  <2>11. ASSUME NEW mode \in {"CONTRIBUTION", "RANKING"}, BreakdownFollowUp(mode) PROVE SessionInv'
    <3>. DEFINE kind == IF mode = "CONTRIBUTION" THEN "contribution_analysis" ELSE "rank_breakdown"
    <3>1. Accepts /\ PlanThenCommit(kind, session.comparison, mode)
      BY <2>11 DEF BreakdownFollowUp
    <3>2. kind \in {"compute_comparison", "rank_breakdown", "contribution_analysis"}
      OBVIOUS
    <3>. HIDE DEF kind
    <3>. QED  BY <3>1, <3>2, AcceptedIs, PlannedKeeps
  <2>12. ASSUME NEW m \in Metrics, AddMetric(m) PROVE SessionInv'
    BY <2>12, AddMetricKeeps
  <2>13. ASSUME NEW dim \in Dimensions, RemoveFilter(dim) PROVE SessionInv'
    BY <2>13, RemoveFilterKeeps
  <2>14. ASSUME NEW filter \in Filters, Filter(filter) PROVE SessionInv'
    BY <2>14, FilterKeeps
  <2>15. CASE UNCHANGED sessionVars
    BY <2>15 DEF sessionVars, SessionInv
  <2>. QED  BY <2>1, <2>2, <2>3, <2>4, <2>5, <2>6, <2>7, <2>8, <2>9, <2>10, <2>11, <2>12, <2>13, <2>14, <2>15
            DEF SessionNext
<1>. QED  BY <1>1, <1>2, PTL DEF SessionSpec

(* A session's state has its type, whatever was garbled on its way.        *)
THEOREM SessionTypeCorrect == SessionSpec => []SessionTypeOK
<1>1. SessionInv => SessionTypeOK
  <2>. SUFFICES ASSUME SessionInv PROVE SessionTypeOK
    OBVIOUS
  <2>1. ASSUME session # NoSession
        PROVE  session.turns \in 1..MaxTurns /\ \A i \in DOMAIN session.history : session.history[i].kind \in Kinds
    <3>1. session.turns \in 1..MaxTurns /\ session.history \in Seq(Turns)
      BY <2>1 DEF SessionInv, States
    <3>2. \A i \in DOMAIN session.history : session.history[i] \in Turns
      BY <3>1
    <3>. QED  BY <3>1, <3>2 DEF Turns
  <2>. QED  BY <2>1 DEF SessionInv, SessionTypeOK
<1>. QED  BY <1>1, SessionInvariant, PTL

(* A session that is accepted is the one its history tells of.             *)
THEOREM SessionsAreExplained == SessionSpec => []HistoryExplainsTheQuery
<1>1. SessionInv => HistoryExplainsTheQuery
  BY DEF SessionInv, HistoryExplainsTheQuery, Validate, Explained, Distinct
<1>. QED  BY <1>1, SessionInvariant, PTL

-----------------------------------------------------------------------------
(* AgentParts: no part disturbs another, so that whatever is proved of a   *)
(* part holds of all of them together.                                     *)
THEOREM AgentPartsAreApart ==
    AgentSpec => Spec /\ TurnSpec /\ SessionSpec /\ AdmissionSpec /\ VerificationSpec
<1>1. AgentInit => Init /\ TurnInit /\ SessionInit /\ AdmissionInit /\ VerificationInit
  BY DEF AgentInit
<1>2. [AgentNext]_agentVars =>
          /\ [Next]_vars /\ [TurnNext]_turnVars /\ [SessionNext]_sessionVars
          /\ [AdmissionNext]_admissionVars /\ [VerificationNext]_verificationVars
  BY DEF AgentNext, agentVars
<1>. QED  BY <1>1, <1>2, PTL DEF AgentSpec, Spec, TurnSpec, SessionSpec, AdmissionSpec, VerificationSpec

(* Type correctness of the five parts, together.                           *)
THEOREM AgentTypeCorrect == AgentSpec => []AllTypesOK
<1>1. TypeOK /\ TurnTypeOK /\ SessionTypeOK /\ AdmissionTypeOK /\ VerificationTypeOK => AllTypesOK
  BY DEF AllTypesOK
<1>. QED  BY <1>1, AgentPartsAreApart, AnalysisTypeCorrect, TurnTypeCorrect, SessionTypeCorrect,
             AdmissionTypeCorrect, VerificationTypeCorrect, PTL
=============================================================================
