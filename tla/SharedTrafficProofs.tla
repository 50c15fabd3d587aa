------------------------- MODULE SharedTrafficProofs -------------------------
(***************************************************************************)
(* Theorems about SharedTraffic, for every set of requests, tenants and    *)
(* subjects, every limit and every set of faults.                          *)
(***************************************************************************)
EXTENDS SharedTraffic, FiniteSetTheorems, TLAPS

(* Commands of different requests, or of different scripts, differ. *)
LEMMA CmdDiffers == \A a, b, r, q : Cmd(a, r) = Cmd(b, q) => a = b /\ r = q
  BY DEF Cmd

(* What is left of a time when one unit has passed. *)
LEMMA OneUnitLess ==
    \A m \in Nat : \A n \in 0..m : (IF n = 0 THEN 0 ELSE n - 1) \in 0..m
  OBVIOUS

(* Every step keeps the types. *)
LEMMA TypeStep == TypeOK /\ [Next]_vars => TypeOK'
<1>. SUFFICES ASSUME TypeOK, [Next]_vars PROVE TypeOK'
  OBVIOUS
<1>. USE TrafficAssumption DEF TypeOK, Ops, Cmd, redisvars, leasevars, callvars, histvars
<1>1. ASSUME NEW r \in Requests, Acquire(r) PROVE TypeOK'
  BY <1>1 DEF Acquire, Call
<1>2. ASSUME NEW r \in Requests, StartWorker(r) PROVE TypeOK'
  BY <1>2 DEF StartWorker, Returned, EndCall
<1>3. ASSUME NEW r \in Requests, Reject(r) PROVE TypeOK'
  BY <1>3 DEF Reject, Returned, EndCall
<1>4. ASSUME NEW r \in Requests, AdmitRaises(r) PROVE TypeOK'
  BY <1>4 DEF AdmitRaises, CallRaises, EndCall
<1>5. ASSUME NEW r \in Requests, Respond(r) PROVE TypeOK'
  BY <1>5 DEF Respond, ReleaseAsync, Call
<1>6. ASSUME NEW r \in Requests, ReleaseWhenTaskFinishes(r) PROVE TypeOK'
  BY <1>6 DEF ReleaseWhenTaskFinishes, ReleaseAsync, Call
<1>7. ASSUME NEW r \in Requests, ReleaseEnds(r) PROVE TypeOK'
  BY <1>7 DEF ReleaseEnds, Returned, CallRaises, EndCall
<1>8. ASSUME NEW r \in Requests, Renew(r) PROVE TypeOK'
  BY <1>8 DEF Renew, Call
<1>9. ASSUME NEW r \in Requests, Renewed(r) PROVE TypeOK'
  BY <1>9 DEF Renewed, Returned, EndCall
<1>10. ASSUME NEW r \in Requests, LeaseLost(r) PROVE TypeOK'
  BY <1>10 DEF LeaseLost, Returned, CallRaises, EndCall
<1>11. ASSUME NEW r \in Requests, ExecAdmit(r) PROVE TypeOK'
  BY <1>11 DEF ExecAdmit, Answer, InForce
<1>12. ASSUME NEW r \in Requests, ExecRenew(r) PROVE TypeOK'
  BY <1>12 DEF ExecRenew, Answer
<1>13. ASSUME NEW r \in Requests, ExecRelease(r) PROVE TypeOK'
  BY <1>13 DEF ExecRelease, Answer
<1>14. ASSUME NEW r \in Requests, WorkerEnds(r) PROVE TypeOK'
  BY <1>14 DEF WorkerEnds
<1>15. ASSUME NEW r \in Requests, RequestTimeout(r) PROVE TypeOK'
  BY <1>15 DEF RequestTimeout
<1>16. ASSUME NEW r \in Requests, PodCrash(r) PROVE TypeOK'
  BY <1>16 DEF PodCrash, EndCall
<1>17. CASE Tick
  <2>1. leases' \subseteq Requests /\ net' = net /\ phase' = phase /\ reply' = reply
        /\ worker' = worker /\ heartbeat' = heartbeat /\ healthy' = healthy
        /\ awaiting' = awaiting /\ answer' = answer
        /\ lapsed' \subseteq Requests /\ freed' = freed
    BY <1>17 DEF Tick, Running
  <2>2. ttl' \in [Requests -> 0..Ttl]  BY <1>17 DEF Tick
  <2>3. rate' \in [Requests -> 0..Window]
    <3>1. \A q \in Requests : rate[q] \in 0..Window  OBVIOUS
    <3>2. \A q \in Requests : (IF rate[q] = 0 THEN 0 ELSE rate[q] - 1) \in 0..Window
      BY <3>1, OneUnitLess
    <3>3. rate' = [q \in Requests |-> IF rate[q] = 0 THEN 0 ELSE rate[q] - 1]  BY <1>17 DEF Tick
    <3>. QED  BY <3>2, <3>3
  <2>4. timer' \in [Requests -> Nat]  BY <1>17 DEF Tick
  <2>. QED  BY <2>1, <2>2, <2>3, <2>4
<1>18. CASE UNCHANGED vars
  BY <1>18 DEF vars
<1>. QED
  BY <1>1, <1>2, <1>3, <1>4, <1>5, <1>6, <1>7, <1>8, <1>9, <1>10,
     <1>11, <1>12, <1>13, <1>14, <1>15, <1>16, <1>17, <1>18
  DEF Next, HandlerStep, HeartbeatStep, RedisStep

(* Every step keeps handler, heartbeat and worker of a request together. *)
LEMMA HandlerStepInv == TypeOK /\ HandlerInv /\ [Next]_vars => HandlerInv'
<1>. SUFFICES ASSUME TypeOK, HandlerInv, [Next]_vars PROVE HandlerInv'
  OBVIOUS
<1>. USE TrafficAssumption DEF TypeOK, Ops, HandlerInv, redisvars, leasevars, callvars, histvars
<1>1. ASSUME NEW r \in Requests, Acquire(r) PROVE HandlerInv'
  BY <1>1 DEF Acquire, Call
<1>2. ASSUME NEW r \in Requests, StartWorker(r) PROVE HandlerInv'
  BY <1>2 DEF StartWorker, Returned, EndCall
<1>3. ASSUME NEW r \in Requests, Reject(r) PROVE HandlerInv'
  BY <1>3 DEF Reject, Returned, EndCall
<1>4. ASSUME NEW r \in Requests, AdmitRaises(r) PROVE HandlerInv'
  BY <1>4 DEF AdmitRaises, CallRaises, EndCall
<1>5. ASSUME NEW r \in Requests, Respond(r) PROVE HandlerInv'
  BY <1>5 DEF Respond, ReleaseAsync, Call
<1>6. ASSUME NEW r \in Requests, ReleaseWhenTaskFinishes(r) PROVE HandlerInv'
  BY <1>6 DEF ReleaseWhenTaskFinishes, ReleaseAsync, Call
<1>7. ASSUME NEW r \in Requests, ReleaseEnds(r) PROVE HandlerInv'
  BY <1>7 DEF ReleaseEnds, Returned, CallRaises, EndCall
<1>8. ASSUME NEW r \in Requests, Renew(r) PROVE HandlerInv'
  BY <1>8 DEF Renew, Call
<1>9. ASSUME NEW r \in Requests, Renewed(r) PROVE HandlerInv'
  BY <1>9 DEF Renewed, Returned, EndCall
<1>10. ASSUME NEW r \in Requests, LeaseLost(r) PROVE HandlerInv'
  BY <1>10 DEF LeaseLost, Returned, CallRaises, EndCall
<1>11. ASSUME NEW r \in Requests, ExecAdmit(r) PROVE HandlerInv'
  BY <1>11 DEF ExecAdmit, Answer, InForce
<1>12. ASSUME NEW r \in Requests, ExecRenew(r) PROVE HandlerInv'
  BY <1>12 DEF ExecRenew, Answer
<1>13. ASSUME NEW r \in Requests, ExecRelease(r) PROVE HandlerInv'
  BY <1>13 DEF ExecRelease, Answer
<1>14. ASSUME NEW r \in Requests, WorkerEnds(r) PROVE HandlerInv'
  BY <1>14 DEF WorkerEnds
<1>15. ASSUME NEW r \in Requests, RequestTimeout(r) PROVE HandlerInv'
  BY <1>15 DEF RequestTimeout
<1>16. ASSUME NEW r \in Requests, PodCrash(r) PROVE HandlerInv'
  BY <1>16 DEF PodCrash, EndCall
<1>17. CASE Tick
  BY <1>17 DEF Tick
<1>18. CASE UNCHANGED vars
  BY <1>18 DEF vars
<1>. QED
  BY <1>1, <1>2, <1>3, <1>4, <1>5, <1>6, <1>7, <1>8, <1>9, <1>10,
     <1>11, <1>12, <1>13, <1>14, <1>15, <1>16, <1>17, <1>18
  DEF Next, HandlerStep, HeartbeatStep, RedisStep

(* Every step keeps the commands under way to those of their phase. *)
LEMMA NetStep == TypeOK /\ HandlerInv /\ NetInv /\ [Next]_vars => NetInv'
<1>. SUFFICES ASSUME TypeOK, HandlerInv, NetInv, [Next]_vars PROVE NetInv'
  OBVIOUS
<1>. USE TrafficAssumption, CmdDiffers DEF TypeOK, Ops, HandlerInv, NetInv,
       redisvars, leasevars, callvars, histvars
<1>1. ASSUME NEW r \in Requests, Acquire(r) PROVE NetInv'
  BY <1>1 DEF Acquire, Call
<1>2. ASSUME NEW r \in Requests, StartWorker(r) PROVE NetInv'
  BY <1>2 DEF StartWorker, Returned, EndCall
<1>3. ASSUME NEW r \in Requests, Reject(r) PROVE NetInv'
  <2>1. net' \subseteq net  BY <1>3 DEF Reject, Returned, EndCall
  <2>. QED  BY <1>3, <2>1 DEF Reject, Returned, EndCall
<1>4. ASSUME NEW r \in Requests, AdmitRaises(r) PROVE NetInv'
  <2>1. net' \subseteq net  BY <1>4 DEF AdmitRaises, CallRaises, EndCall
  <2>. QED  BY <1>4, <2>1 DEF AdmitRaises, CallRaises, EndCall
<1>5. ASSUME NEW r \in Requests, Respond(r) PROVE NetInv'
  BY <1>5 DEF Respond, ReleaseAsync, Call
<1>6. ASSUME NEW r \in Requests, ReleaseWhenTaskFinishes(r) PROVE NetInv'
  BY <1>6 DEF ReleaseWhenTaskFinishes, ReleaseAsync, Call
<1>7. ASSUME NEW r \in Requests, ReleaseEnds(r) PROVE NetInv'
  <2>1. net' \subseteq net  BY <1>7 DEF ReleaseEnds, Returned, CallRaises, EndCall
  <2>. QED  BY <1>7, <2>1 DEF ReleaseEnds, Returned, CallRaises, EndCall
<1>8. ASSUME NEW r \in Requests, Renew(r) PROVE NetInv'
  BY <1>8 DEF Renew, Call
<1>9. ASSUME NEW r \in Requests, Renewed(r) PROVE NetInv'
  BY <1>9 DEF Renewed, Returned, EndCall
<1>10. ASSUME NEW r \in Requests, LeaseLost(r) PROVE NetInv'
  <2>1. net' \subseteq net  BY <1>10 DEF LeaseLost, Returned, CallRaises, EndCall
  <2>. QED  BY <1>10, <2>1 DEF LeaseLost, Returned, CallRaises, EndCall
<1>11. ASSUME NEW r \in Requests, ExecAdmit(r) PROVE NetInv'
  <2>1. /\ net' = net \ {Cmd("admit", r)}
        /\ answer' \in [Requests -> {"none", "yes", "no"}]
        /\ \A q \in Requests : q # r \/ awaiting[q] # "admit" => answer'[q] = answer[q]
        /\ UNCHANGED <<phase, awaiting, freed>>
    BY <1>11 DEF ExecAdmit, Answer
  <2>. QED  BY <1>11, <2>1, CmdDiffers
<1>12. ASSUME NEW r \in Requests, ExecRenew(r) PROVE NetInv'
  <2>1. /\ net' = net \ {Cmd("renew", r)}
        /\ answer' \in [Requests -> {"none", "yes", "no"}]
        /\ \A q \in Requests : q # r \/ awaiting[q] # "renew" => answer'[q] = answer[q]
        /\ UNCHANGED <<phase, awaiting, freed>>
    BY <1>12 DEF ExecRenew, Answer
  <2>. QED  BY <1>12, <2>1, CmdDiffers
<1>13. ASSUME NEW r \in Requests, ExecRelease(r) PROVE NetInv'
  BY <1>13 DEF ExecRelease, Answer
<1>14. ASSUME NEW r \in Requests, WorkerEnds(r) PROVE NetInv'
  BY <1>14 DEF WorkerEnds
<1>15. ASSUME NEW r \in Requests, RequestTimeout(r) PROVE NetInv'
  BY <1>15 DEF RequestTimeout
<1>16. ASSUME NEW r \in Requests, PodCrash(r) PROVE NetInv'
  BY <1>16 DEF PodCrash, EndCall
<1>17. CASE Tick
  BY <1>17 DEF Tick
<1>18. CASE UNCHANGED vars
  BY <1>18 DEF vars
<1>. QED
  BY <1>1, <1>2, <1>3, <1>4, <1>5, <1>6, <1>7, <1>8, <1>9, <1>10,
     <1>11, <1>12, <1>13, <1>14, <1>15, <1>16, <1>17, <1>18
  DEF Next, HandlerStep, HeartbeatStep, RedisStep

(* A part of a small set is small, and so is one with one element more. *)
LEMMA PartIsSmaller ==
    ASSUME NEW S, IsFiniteSet(S), NEW n \in Nat, Cardinality(S) <= n, NEW T \in SUBSET S
    PROVE  Cardinality(T) <= n
<1>1. IsFiniteSet(T) /\ Cardinality(T) <= Cardinality(S)  BY FS_Subset
<1>. QED  BY <1>1, FS_CardinalityType

LEMMA OneMore ==
    ASSUME NEW S, IsFiniteSet(S), NEW n \in Nat, Cardinality(S) < n, NEW x,
           NEW T \in SUBSET (S \union {x})
    PROVE  Cardinality(T) <= n
<1>1. IsFiniteSet(S \union {x}) /\ Cardinality(S \union {x}) <= Cardinality(S) + 1
  <2>1. Cardinality(S) \in Nat  BY FS_CardinalityType
  <2>2. /\ IsFiniteSet(S \union {x})
        /\ \/ Cardinality(S \union {x}) = Cardinality(S)
           \/ Cardinality(S \union {x}) = Cardinality(S) + 1
    BY FS_AddElement
  <2>. QED  BY <2>1, <2>2
<1>2. IsFiniteSet(T) /\ Cardinality(T) <= Cardinality(S \union {x})  BY <1>1, FS_Subset
<1>. QED  BY <1>1, <1>2, FS_CardinalityType

(* The requests of one tenant or subject, and those in a window, are       *)
(* finitely many.                                                          *)
LEMMA Finite ==
    /\ \A S \in SUBSET Requests : IsFiniteSet(S)
    /\ \A S \in SUBSET Requests, r \in Requests :
          IsFiniteSet(OfTenant(S, r)) /\ IsFiniteSet(OfSubject(S, r))
<1>1. \A S \in SUBSET Requests : IsFiniteSet(S)  BY TrafficAssumption, FS_Subset
<1>2. \A S \in SUBSET Requests, r \in Requests :
          OfTenant(S, r) \in SUBSET Requests /\ OfSubject(S, r) \in SUBSET Requests
  BY DEF OfTenant, OfSubject
<1>. QED  BY <1>1, <1>2

(* What only removes leases and entries of rate windows keeps the limits. *)
LEMMA ShrinkingKeepsRedisInv ==
    ASSUME TypeOK, RedisInv, leases' \subseteq leases, Counted' \subseteq Counted
    PROVE  RedisInv'
<1>. USE TrafficAssumption
<1>1. leases \in SUBSET Requests /\ Counted \in SUBSET Requests  BY DEF TypeOK, Counted
<1>2. Cardinality(leases') <= GlobalConcurrency
  <2>1. Cardinality(leases) <= GlobalConcurrency  BY DEF RedisInv, LeasesWithinCapacity
  <2>2. IsFiniteSet(leases)  BY <1>1, Finite
  <2>. QED  BY <2>1, <2>2, PartIsSmaller
<1>3. ASSUME NEW q \in leases' PROVE Cardinality(OfTenant(leases', q)) <= TenantConcurrency
  <2>1. Cardinality(OfTenant(leases, q)) <= TenantConcurrency
    BY <1>3 DEF RedisInv, LeasesWithinCapacity
  <2>2. IsFiniteSet(OfTenant(leases, q))  BY <1>1, Finite, <1>3
  <2>3. OfTenant(leases', q) \in SUBSET OfTenant(leases, q)  BY DEF OfTenant
  <2>. QED  BY <2>1, <2>2, <2>3, PartIsSmaller
<1>4. ASSUME NEW q \in Counted' PROVE Cardinality(OfSubject(Counted', q)) <= SubjectRpm
  <2>1. Cardinality(OfSubject(Counted, q)) <= SubjectRpm  BY <1>4 DEF RedisInv
  <2>2. IsFiniteSet(OfSubject(Counted, q))  BY <1>1, Finite, <1>4
  <2>3. OfSubject(Counted', q) \in SUBSET OfSubject(Counted, q)  BY DEF OfSubject
  <2>. QED  BY <2>1, <2>2, <2>3, PartIsSmaller
<1>5. ASSUME NEW q \in Counted' PROVE Cardinality(OfTenant(Counted', q)) <= TenantRpm
  <2>1. Cardinality(OfTenant(Counted, q)) <= TenantRpm  BY <1>5 DEF RedisInv
  <2>2. IsFiniteSet(OfTenant(Counted, q))  BY <1>1, Finite, <1>5
  <2>3. OfTenant(Counted', q) \in SUBSET OfTenant(Counted, q)  BY DEF OfTenant
  <2>. QED  BY <2>1, <2>2, <2>3, PartIsSmaller
<1>6. LeasesWithinCapacity'  BY <1>2, <1>3 DEF LeasesWithinCapacity, OfTenant
<1>. QED  BY <1>4, <1>5, <1>6 DEF RedisInv, Counted, OfTenant, OfSubject

(* An admission adds one request, for which there is room. *)
LEMMA AdmissionKeepsRedisInv ==
    ASSUME TypeOK, RedisInv, NEW r \in Requests, Admissible(r),
           leases' = InForce \union {r}, Counted' \subseteq Counted \union {r}
    PROVE  RedisInv'
<1>. USE TrafficAssumption
<1>1. /\ leases \in SUBSET Requests /\ Counted \in SUBSET Requests
      /\ InForce \in SUBSET leases /\ InForce \in SUBSET Requests
  BY DEF TypeOK, Counted, InForce
<1>2. Cardinality(leases') <= GlobalConcurrency
  <2>1. Cardinality(InForce) < GlobalConcurrency  BY DEF Admissible
  <2>2. IsFiniteSet(InForce)  BY <1>1, Finite
  <2>. QED  BY <2>1, <2>2, OneMore
<1>3. ASSUME NEW q \in leases' PROVE Cardinality(OfTenant(leases', q)) <= TenantConcurrency
  <2>1. CASE TenantOf[q] = TenantOf[r]
    <3>1. Cardinality(OfTenant(InForce, r)) < TenantConcurrency  BY DEF Admissible
    <3>2. IsFiniteSet(OfTenant(InForce, r))  BY <1>1, Finite
    <3>3. OfTenant(leases', q) \in SUBSET (OfTenant(InForce, r) \union {r})
      BY <2>1 DEF OfTenant
    <3>. QED  BY <3>1, <3>2, <3>3, OneMore
  <2>2. CASE TenantOf[q] # TenantOf[r]
    <3>1. q \in leases  BY <1>3, <1>1, <2>2
    <3>2. Cardinality(OfTenant(leases, q)) <= TenantConcurrency
      BY <3>1 DEF RedisInv, LeasesWithinCapacity
    <3>3. IsFiniteSet(OfTenant(leases, q))  BY <1>1, Finite, <3>1
    <3>4. OfTenant(leases', q) \in SUBSET OfTenant(leases, q)  BY <2>2, <1>1 DEF OfTenant
    <3>. QED  BY <3>2, <3>3, <3>4, PartIsSmaller
  <2>. QED  BY <2>1, <2>2
<1>4. ASSUME NEW q \in Counted' PROVE Cardinality(OfSubject(Counted', q)) <= SubjectRpm
  <2>1. CASE SubjectOf[q] = SubjectOf[r]
    <3>1. Cardinality(OfSubject(Counted, r)) < SubjectRpm  BY DEF Admissible
    <3>2. IsFiniteSet(OfSubject(Counted, r))  BY <1>1, Finite
    <3>3. OfSubject(Counted', q) \in SUBSET (OfSubject(Counted, r) \union {r})
      BY <2>1 DEF OfSubject
    <3>. QED  BY <3>1, <3>2, <3>3, OneMore
  <2>2. CASE SubjectOf[q] # SubjectOf[r]
    <3>1. q \in Counted  BY <1>4, <2>2
    <3>2. Cardinality(OfSubject(Counted, q)) <= SubjectRpm  BY <3>1 DEF RedisInv
    <3>3. IsFiniteSet(OfSubject(Counted, q))  BY <1>1, Finite, <3>1
    <3>4. OfSubject(Counted', q) \in SUBSET OfSubject(Counted, q)  BY <2>2 DEF OfSubject
    <3>. QED  BY <3>2, <3>3, <3>4, PartIsSmaller
  <2>. QED  BY <2>1, <2>2
<1>5. ASSUME NEW q \in Counted' PROVE Cardinality(OfTenant(Counted', q)) <= TenantRpm
  <2>1. CASE TenantOf[q] = TenantOf[r]
    <3>1. Cardinality(OfTenant(Counted, r)) < TenantRpm  BY DEF Admissible
    <3>2. IsFiniteSet(OfTenant(Counted, r))  BY <1>1, Finite
    <3>3. OfTenant(Counted', q) \in SUBSET (OfTenant(Counted, r) \union {r})
      BY <2>1 DEF OfTenant
    <3>. QED  BY <3>1, <3>2, <3>3, OneMore
  <2>2. CASE TenantOf[q] # TenantOf[r]
    <3>1. q \in Counted  BY <1>5, <2>2
    <3>2. Cardinality(OfTenant(Counted, q)) <= TenantRpm  BY <3>1 DEF RedisInv
    <3>3. IsFiniteSet(OfTenant(Counted, q))  BY <1>1, Finite, <3>1
    <3>4. OfTenant(Counted', q) \in SUBSET OfTenant(Counted, q)  BY <2>2 DEF OfTenant
    <3>. QED  BY <3>2, <3>3, <3>4, PartIsSmaller
  <2>. QED  BY <2>1, <2>2
<1>6. LeasesWithinCapacity'  BY <1>2, <1>3 DEF LeasesWithinCapacity, OfTenant
<1>. QED  BY <1>4, <1>5, <1>6 DEF RedisInv, Counted, OfTenant, OfSubject

(* Every step keeps the limits in Redis. *)
LEMMA RedisStepInv == TypeOK /\ RedisInv /\ [Next]_vars => RedisInv'
<1>. SUFFICES ASSUME TypeOK, RedisInv, [Next]_vars PROVE RedisInv'
  OBVIOUS
<1>. USE DEF redisvars, leasevars, callvars, histvars
<1>1. ASSUME NEW r \in Requests, ExecAdmit(r) PROVE RedisInv'
  <2>1. CASE Admissible(r) /\ leases' = InForce \union {r} /\ rate' = [rate EXCEPT ![r] = Window]
    <3>1. Counted' \subseteq Counted \union {r}  BY <2>1 DEF Counted, TypeOK
    <3>. QED  BY <2>1, <3>1, AdmissionKeepsRedisInv
  <2>2. CASE leases' = InForce /\ rate' = rate
    <3>1. leases' \subseteq leases /\ Counted' \subseteq Counted  BY <2>2 DEF Counted, InForce
    <3>. QED  BY <3>1, ShrinkingKeepsRedisInv
  <2>. QED  BY <1>1, <2>1, <2>2 DEF ExecAdmit
<1>2. ASSUME NEW r \in Requests, ExecRenew(r) \/ ExecRelease(r) PROVE RedisInv'
  <2>1. leases' \subseteq leases /\ Counted' \subseteq Counted
    BY <1>2 DEF ExecRenew, ExecRelease, Counted
  <2>. QED  BY <2>1, ShrinkingKeepsRedisInv
<1>3. ASSUME NEW r \in Requests, Acquire(r) \/ HandlerStep(r) \/ HeartbeatStep(r) PROVE RedisInv'
  <2>1. leases' \subseteq leases /\ Counted' \subseteq Counted
    BY <1>3 DEF Acquire, HandlerStep, HeartbeatStep, StartWorker, Reject, AdmitRaises, Respond,
       ReleaseWhenTaskFinishes, ReleaseEnds, Renew, Renewed, LeaseLost, Counted
  <2>. QED  BY <2>1, ShrinkingKeepsRedisInv
<1>4. ASSUME NEW r \in Requests, WorkerEnds(r) \/ RequestTimeout(r) \/ PodCrash(r) PROVE RedisInv'
  <2>1. leases' \subseteq leases /\ Counted' \subseteq Counted
    BY <1>4 DEF WorkerEnds, RequestTimeout, PodCrash, Counted
  <2>. QED  BY <2>1, ShrinkingKeepsRedisInv
<1>5. CASE Tick
  <2>1. leases' \subseteq leases  BY <1>5 DEF Tick
  <2>2. Counted' \subseteq Counted
    <3>1. \A q \in Requests : rate[q] \in Nat /\ rate'[q] = IF rate[q] = 0 THEN 0 ELSE rate[q] - 1
      BY <1>5, TrafficAssumption DEF Tick, TypeOK
    <3>2. \A q \in Requests : rate'[q] > 0 => rate[q] > 0  BY <3>1
    <3>. QED  BY <3>2 DEF Counted
  <2>. QED  BY <2>1, <2>2, ShrinkingKeepsRedisInv
<1>6. CASE UNCHANGED vars
  <2>1. leases' \subseteq leases /\ Counted' \subseteq Counted  BY <1>6 DEF vars, Counted
  <2>. QED  BY <2>1, ShrinkingKeepsRedisInv
<1>. QED  BY <1>1, <1>2, <1>3, <1>4, <1>5, <1>6 DEF Next, RedisStep

(* Every step keeps a lease in force that nobody knows to be lost, if calls
   are short. *)
LEMMA LeaseStep ==
    CallsAreShort /\ TypeOK /\ HandlerInv /\ NetInv /\ LeaseInv /\ [Next]_vars => LeaseInv'
<1>. SUFFICES ASSUME CallsAreShort, TypeOK, HandlerInv, NetInv, LeaseInv, [Next]_vars
              PROVE  LeaseInv'
  OBVIOUS
<1>. USE TrafficAssumption DEF CallsAreShort, TypeOK, Ops, HandlerInv, NetInv, LeaseInv,
       redisvars, leasevars, callvars, histvars
<1>1. ASSUME NEW r \in Requests, Acquire(r) PROVE LeaseInv'
  BY <1>1 DEF Acquire, Call
<1>2. ASSUME NEW r \in Requests, StartWorker(r) PROVE LeaseInv'
  BY <1>2 DEF StartWorker, Returned, EndCall
<1>3. ASSUME NEW r \in Requests, Reject(r) PROVE LeaseInv'
  BY <1>3 DEF Reject, Returned, EndCall
<1>4. ASSUME NEW r \in Requests, AdmitRaises(r) PROVE LeaseInv'
  BY <1>4 DEF AdmitRaises, CallRaises, EndCall
<1>5. ASSUME NEW r \in Requests, Respond(r) PROVE LeaseInv'
  BY <1>5 DEF Respond, ReleaseAsync, Call
<1>6. ASSUME NEW r \in Requests, ReleaseWhenTaskFinishes(r) PROVE LeaseInv'
  BY <1>6 DEF ReleaseWhenTaskFinishes, ReleaseAsync, Call
<1>7. ASSUME NEW r \in Requests, ReleaseEnds(r) PROVE LeaseInv'
  BY <1>7 DEF ReleaseEnds, Returned, CallRaises, EndCall
<1>8. ASSUME NEW r \in Requests, Renew(r) PROVE LeaseInv'
  BY <1>8 DEF Renew, Call
<1>9. ASSUME NEW r \in Requests, Renewed(r) PROVE LeaseInv'
  BY <1>9 DEF Renewed, Returned, EndCall
<1>10. ASSUME NEW r \in Requests, LeaseLost(r) PROVE LeaseInv'
  BY <1>10 DEF LeaseLost, Returned, CallRaises, EndCall
<1>11. ASSUME NEW r \in Requests, ExecAdmit(r) PROVE LeaseInv'
  BY <1>11 DEF ExecAdmit, Answer, InForce
<1>12. ASSUME NEW r \in Requests, ExecRenew(r) PROVE LeaseInv'
  BY <1>12 DEF ExecRenew, Answer
<1>13. ASSUME NEW r \in Requests, ExecRelease(r) PROVE LeaseInv'
  BY <1>13 DEF ExecRelease, Answer
<1>14. ASSUME NEW r \in Requests, WorkerEnds(r) PROVE LeaseInv'
  BY <1>14 DEF WorkerEnds
<1>15. ASSUME NEW r \in Requests, RequestTimeout(r) PROVE LeaseInv'
  BY <1>15 DEF RequestTimeout
<1>16. ASSUME NEW r \in Requests, PodCrash(r) PROVE LeaseInv'
  BY <1>16 DEF PodCrash, EndCall
<1>17. CASE Tick
  <2>1. UNCHANGED <<leases, worker, heartbeat, healthy, awaiting, answer>>
    BY <1>17 DEF Tick
  <2>2. \A q \in Requests : heartbeat[q] = "sleeping" \/ awaiting[q] # "none" => timer[q] > 0
    BY <1>17 DEF Tick
  <2>3. \A q \in Requests : timer[q] \in Nat /\ ttl[q] \in Nat  OBVIOUS
  <2>4. \A q \in Requests :
           /\ ttl'[q] = IF ttl[q] = 0 THEN 0 ELSE ttl[q] - 1
           /\ timer'[q] = IF timer[q] = 0 THEN 0 ELSE timer[q] - 1
    BY <1>17 DEF Tick
  <2>5. \A q \in Requests : \A k \in Nat :
           timer[q] > 0 /\ ttl[q] > timer[q] + k => ttl'[q] > timer'[q] + k /\ ttl'[q] > 0
    BY <2>3, <2>4
  <2>6. \A q \in Requests : timer[q] > 0 /\ ttl[q] > timer[q] => ttl'[q] > timer'[q] /\ ttl'[q] > 0
    BY <2>3, <2>4
  <2>7. ASSUME NEW q \in Requests, worker[q] = "running", healthy[q]
        PROVE  /\ heartbeat[q] = "sleeping" => ttl'[q] > timer'[q] + OpTimeout
               /\ heartbeat[q] = "renewing" => ttl'[q] > timer'[q]
               /\ answer[q] = "yes" => ttl'[q] > timer'[q] + (Heartbeat + OpTimeout)
               /\ ttl'[q] > 0
    <3>1. heartbeat[q] \in {"sleeping", "renewing"} /\ timer[q] > 0  BY <2>2, <2>7
    <3>2. /\ heartbeat[q] = "sleeping" => ttl[q] > timer[q] + OpTimeout
          /\ heartbeat[q] = "renewing" => ttl[q] > timer[q]
          /\ answer[q] = "yes" => ttl[q] > timer[q] + (Heartbeat + OpTimeout)
      BY <2>7, <2>3
    <3>. QED  BY <3>1, <3>2, <2>5, <2>6
  <2>8. ASSUME NEW q \in Requests, awaiting[q] = "admit", answer[q] = "yes"
        PROVE  ttl'[q] > timer'[q] + (Heartbeat + OpTimeout)
    <3>1. timer[q] > 0 /\ ttl[q] > timer[q] + (Heartbeat + OpTimeout)  BY <2>2, <2>3, <2>8
    <3>. QED  BY <3>1, <2>5
  <2>9. \A q \in Requests : q \in lapsed' => ~healthy[q]
    <3>1. ASSUME NEW q \in Running, healthy[q] PROVE ~(q \notin leases \/ ttl'[q] = 0)
      BY <3>1, <2>7 DEF Running
    <3>. QED  BY <1>17, <3>1 DEF Tick, Running
  <2>10. \A q \in Requests : timer'[q] \in Nat  BY <2>3, <2>4
  <2>. QED  BY <2>1, <2>7, <2>8, <2>9, <2>10
<1>18. CASE UNCHANGED vars
  BY <1>18 DEF vars
<1>. QED
  BY <1>1, <1>2, <1>3, <1>4, <1>5, <1>6, <1>7, <1>8, <1>9, <1>10,
     <1>11, <1>12, <1>13, <1>14, <1>15, <1>16, <1>17, <1>18
  DEF Next, HandlerStep, HeartbeatStep, RedisStep

(* No renewal fails if Redis answers to all of them: every running worker *)
(* has a healthy lease.                                                    *)
LEMMA HealthStep ==
    "renew" \notin Faults /\ TypeOK /\ HandlerInv /\ LeaseInv /\ HealthInv /\ [Next]_vars
        => HealthInv'
<1>. SUFFICES ASSUME "renew" \notin Faults, TypeOK, HandlerInv, LeaseInv, HealthInv, [Next]_vars
              PROVE  HealthInv'
  OBVIOUS
<1>. USE DEF TypeOK, HealthInv, redisvars, leasevars, callvars, histvars
<1>1. ASSUME NEW r \in Requests, LeaseLost(r) PROVE HealthInv'
  <2>1. /\ awaiting[r] = "renew" /\ answer[r] = "no"
        /\ healthy' = [healthy EXCEPT ![r] = FALSE] /\ UNCHANGED <<phase, worker>>
    BY <1>1 DEF LeaseLost, Returned, CallRaises
  <2>2. phase[r] \notin {"new", "admitting"}  BY <2>1 DEF HandlerInv
  <2>3. worker[r] # "running"  BY <2>1 DEF LeaseInv
  <2>. QED  BY <2>1, <2>2, <2>3
<1>2. ASSUME NEW r \in Requests, StartWorker(r) PROVE HealthInv'
  <2>1. phase[r] = "admitting"  BY <1>2 DEF StartWorker, Returned, HandlerInv
  <2>. QED  BY <1>2, <2>1 DEF StartWorker
<1>3. ASSUME NEW r \in Requests, Acquire(r) \/ Reject(r) \/ AdmitRaises(r) \/ Respond(r)
             \/ ReleaseWhenTaskFinishes(r) \/ ReleaseEnds(r)
      PROVE HealthInv'
  BY <1>3 DEF Acquire, Reject, AdmitRaises, Respond, ReleaseWhenTaskFinishes, ReleaseEnds,
     ReleaseAsync
<1>4. ASSUME NEW r \in Requests, Renew(r) \/ Renewed(r) \/ RedisStep(r) PROVE HealthInv'
  BY <1>4 DEF Renew, Renewed, RedisStep, ExecAdmit, ExecRenew, ExecRelease
<1>5. ASSUME NEW r \in Requests, WorkerEnds(r) \/ RequestTimeout(r) \/ PodCrash(r) PROVE HealthInv'
  BY <1>5 DEF WorkerEnds, RequestTimeout, PodCrash
<1>6. CASE Tick  BY <1>6 DEF Tick
<1>7. CASE UNCHANGED vars  BY <1>7 DEF vars
<1>. QED
  BY <1>1, <1>2, <1>3, <1>4, <1>5, <1>6, <1>7 DEF Next, HandlerStep, HeartbeatStep

-----------------------------------------------------------------------------
(* Initially nothing is sent, held or counted.                             *)
LEMMA Initially ==
    Init => TypeOK /\ RedisInv /\ HandlerInv /\ NetInv /\ LeaseInv /\ HealthInv
<1>. SUFFICES ASSUME Init PROVE TypeOK /\ RedisInv /\ HandlerInv /\ NetInv /\ LeaseInv /\ HealthInv
  OBVIOUS
<1>. USE TrafficAssumption DEF Init
<1>1. TypeOK  BY DEF TypeOK, Ops
<1>2. RedisInv
  <2>1. Counted = {}  BY DEF Counted
  <2>. QED  BY <2>1, FS_EmptySet DEF RedisInv, LeasesWithinCapacity
<1>3. HandlerInv /\ NetInv /\ LeaseInv /\ HealthInv
  BY DEF HandlerInv, NetInv, LeaseInv, HealthInv
<1>. QED  BY <1>1, <1>2, <1>3

(* Every variable of Redis, the handlers and the leases keeps its type.    *)
THEOREM TrafficTypeCorrect == Spec => []TypeOK
  BY Initially, TypeStep, PTL DEF Spec

(* The limits in Redis and the order of calls hold whatever fails.         *)
THEOREM TrafficInvariant == Spec => [](RedisInv /\ HandlerInv /\ NetInv)
<1>1. TypeOK /\ (RedisInv /\ HandlerInv /\ NetInv) /\ [Next]_vars
         => (RedisInv /\ HandlerInv /\ NetInv)'
  BY RedisStepInv, HandlerStepInv, NetStep
<1>. QED  BY <1>1, Initially, TrafficTypeCorrect, PTL DEF Spec

(* However admissions race, Redis never holds more leases than slots, also *)
(* when every call may fail, come late or come from a pod that is dead.    *)
THEOREM LeasesStayWithinCapacity == Spec => []LeasesWithinCapacity
<1>1. RedisInv => LeasesWithinCapacity  BY DEF RedisInv
<1>. QED  BY <1>1, TrafficInvariant, PTL

(* A renewal that is still on its way when its request is released never   *)
(* brings the slot back.                                                   *)
THEOREM ReleasedSlotsStayReleased == Spec => []ReleasedStaysReleased
<1>1. Init => ReleasedStaysReleased  BY DEF Init, ReleasedStaysReleased
<1>2. TypeOK /\ NetInv /\ ReleasedStaysReleased /\ [Next]_vars => ReleasedStaysReleased'
  <2>. SUFFICES ASSUME TypeOK, NetInv, ReleasedStaysReleased, [Next]_vars
                PROVE  ReleasedStaysReleased'
    OBVIOUS
  <2>. USE DEF ReleasedStaysReleased, redisvars, histvars
  <2>1. ASSUME NEW r \in Requests, ExecAdmit(r) PROVE ReleasedStaysReleased'
    <3>1. r \notin freed  BY <2>1 DEF NetInv, ExecAdmit
    <3>. QED  BY <2>1, <3>1 DEF ExecAdmit, InForce
  <2>2. ASSUME NEW r \in Requests, ExecRenew(r) \/ ExecRelease(r) PROVE ReleasedStaysReleased'
    BY <2>2 DEF ExecRenew, ExecRelease
  <2>3. ASSUME NEW r \in Requests, Acquire(r) \/ HandlerStep(r) \/ HeartbeatStep(r)
        PROVE  ReleasedStaysReleased'
    BY <2>3 DEF Acquire, HandlerStep, HeartbeatStep, StartWorker, Reject, AdmitRaises, Respond,
       ReleaseWhenTaskFinishes, ReleaseEnds, Renew, Renewed, LeaseLost
  <2>4. ASSUME NEW r \in Requests, WorkerEnds(r) \/ RequestTimeout(r) \/ PodCrash(r)
        PROVE  ReleasedStaysReleased'
    BY <2>4 DEF WorkerEnds, RequestTimeout, PodCrash
  <2>5. CASE Tick \/ UNCHANGED vars  BY <2>5 DEF Tick, vars
  <2>. QED  BY <2>1, <2>2, <2>3, <2>4, <2>5 DEF Next, RedisStep
<1>. QED  BY <1>1, <1>2, TrafficTypeCorrect, TrafficInvariant, PTL DEF Spec

-----------------------------------------------------------------------------
(* What follows needs calls that are short against the life of a lease.    *)
LEMMA LeasesHold == CallsAreShort => (Spec => []LeaseInv)
<1>. SUFFICES ASSUME CallsAreShort PROVE Spec => []LeaseInv
  OBVIOUS
<1>1. TypeOK /\ (RedisInv /\ HandlerInv /\ NetInv) /\ LeaseInv /\ [Next]_vars => LeaseInv'
  BY LeaseStep
<1>. QED  BY <1>1, Initially, TrafficTypeCorrect, TrafficInvariant, PTL DEF Spec

(* An answer is only given by a request whose lease was in force all the   *)
(* time its worker ran, whatever fails.                                    *)
THEOREM AnswersAreUnderLease == CallsAreShort => (Spec => []AnswerOnlyUnderLease)
<1>. SUFFICES ASSUME CallsAreShort PROVE Spec => []AnswerOnlyUnderLease
  OBVIOUS
<1>. DEFINE Held == \A r \in Requests :
                          reply[r] = "answer" => r \notin lapsed /\ worker[r] # "running"
<1>1. Init => Held  BY DEF Init
<1>2. TypeOK /\ HandlerInv /\ LeaseInv /\ Held /\ [Next]_vars => Held'
  <2>. SUFFICES ASSUME TypeOK, HandlerInv, LeaseInv, Held, [Next]_vars PROVE Held'
    OBVIOUS
  <2>. USE DEF TypeOK, histvars, redisvars
  <2>1. ASSUME NEW r \in Requests, Respond(r) PROVE Held'
    BY <2>1 DEF Respond, LeaseInv
  <2>2. ASSUME NEW r \in Requests, StartWorker(r) PROVE Held'
    <3>1. phase[r] = "admitting"  BY <2>2 DEF StartWorker, Returned, HandlerInv
    <3>2. reply[r] # "answer"  BY <3>1 DEF HandlerInv
    <3>. QED  BY <2>2, <3>2 DEF StartWorker
  <2>3. ASSUME NEW r \in Requests, Acquire(r) \/ Reject(r) \/ AdmitRaises(r)
               \/ ReleaseWhenTaskFinishes(r) \/ ReleaseEnds(r) \/ RequestTimeout(r)
        PROVE  Held'
    BY <2>3 DEF Acquire, Reject, AdmitRaises, ReleaseWhenTaskFinishes, ReleaseEnds, RequestTimeout
  <2>4. ASSUME NEW r \in Requests, HeartbeatStep(r) \/ RedisStep(r) PROVE Held'
    BY <2>4 DEF HeartbeatStep, Renew, Renewed, LeaseLost, RedisStep, ExecAdmit, ExecRenew,
       ExecRelease
  <2>5. ASSUME NEW r \in Requests, WorkerEnds(r) \/ PodCrash(r) PROVE Held'
    BY <2>5 DEF WorkerEnds, PodCrash
  <2>6. CASE Tick  BY <2>6 DEF Tick, Running
  <2>7. CASE UNCHANGED vars  BY <2>7 DEF vars
  <2>. QED  BY <2>1, <2>2, <2>3, <2>4, <2>5, <2>6, <2>7 DEF Next, HandlerStep
<1>3. Held => AnswerOnlyUnderLease  BY DEF AnswerOnlyUnderLease
<1>. HIDE DEF Held
<1>4. Spec => []LeaseInv  BY LeasesHold
<1>5. TypeOK /\ (RedisInv /\ HandlerInv /\ NetInv) /\ LeaseInv /\ Held /\ [Next]_vars => Held'
  BY <1>2
<1>. QED  BY <1>1, <1>3, <1>4, <1>5, TrafficTypeCorrect, TrafficInvariant, PTL DEF Spec

(* If no renewal fails, every running worker has a lease that is in force. *)
LEMMA WorkersHaveLeases ==
    CallsAreShort /\ "renew" \notin Faults => (Spec => [](Running \subseteq InForce))
<1>. SUFFICES ASSUME CallsAreShort, "renew" \notin Faults PROVE Spec => [](Running \subseteq InForce)
  OBVIOUS
<1>1. Spec => []LeaseInv  BY LeasesHold
<1>2. TypeOK /\ (RedisInv /\ HandlerInv /\ NetInv) /\ LeaseInv /\ HealthInv /\ [Next]_vars
         => HealthInv'
  BY HealthStep
<1>3. TypeOK /\ LeaseInv /\ HealthInv => Running \subseteq InForce
  <2>. SUFFICES ASSUME TypeOK, LeaseInv, HealthInv, NEW r \in Running PROVE r \in InForce
    OBVIOUS
  <2>1. r \in leases /\ healthy[r] /\ heartbeat[r] \in {"sleeping", "renewing"}
    BY DEF Running, LeaseInv, HealthInv
  <2>2. ttl[r] \in Nat /\ timer[r] \in Nat /\ OpTimeout \in Nat
    BY TrafficAssumption DEF TypeOK, Running
  <2>3. ttl[r] > timer[r] + OpTimeout \/ ttl[r] > timer[r]
    BY <2>1 DEF Running, LeaseInv
  <2>4. ttl[r] > 0  BY <2>2, <2>3
  <2>. QED  BY <2>1, <2>4 DEF InForce
<1>. QED
  BY <1>1, <1>2, <1>3, Initially, TrafficTypeCorrect, TrafficInvariant, PTL DEF Spec

(* If no renewal fails, no more runtimes execute on all pods together than *)
(* there are slots, and no more are started in a window than its limit -   *)
(* also after crashes, lost and late admissions, and failing releases.     *)
THEOREM RequestsStayWithinLimits ==
    CallsAreShort /\ "renew" \notin Faults => (Spec => []WithinLimits)
<1>. SUFFICES ASSUME CallsAreShort, "renew" \notin Faults PROVE Spec => []WithinLimits
  OBVIOUS
<1>1. Spec => [](Running \subseteq InForce)  BY WorkersHaveLeases
<1>2. TypeOK /\ RedisInv /\ Running \subseteq InForce => WorkersWithinCapacity
  <2>. SUFFICES ASSUME TypeOK, RedisInv, Running \subseteq InForce PROVE WorkersWithinCapacity
    OBVIOUS
  <2>. USE TrafficAssumption
  <2>1. Running \in SUBSET leases /\ leases \in SUBSET Requests  BY DEF TypeOK, InForce
  <2>2. IsFiniteSet(leases) /\ Cardinality(leases) <= GlobalConcurrency
    BY <2>1, Finite DEF RedisInv, LeasesWithinCapacity
  <2>3. Cardinality(Running) <= GlobalConcurrency  BY <2>1, <2>2, PartIsSmaller
  <2>4. ASSUME NEW r \in Running PROVE Cardinality(OfTenant(Running, r)) <= TenantConcurrency
    <3>1. IsFiniteSet(OfTenant(leases, r)) /\ Cardinality(OfTenant(leases, r)) <= TenantConcurrency
      BY <2>1, <2>4, Finite DEF RedisInv, LeasesWithinCapacity
    <3>2. OfTenant(Running, r) \in SUBSET OfTenant(leases, r)  BY <2>1 DEF OfTenant
    <3>. QED  BY <3>1, <3>2, PartIsSmaller
  <2>. QED  BY <2>3, <2>4 DEF WorkersWithinCapacity
<1>3. RedisInv => RatesWithinLimits
  <2>. SUFFICES ASSUME RedisInv, NEW r \in StartedRecently
                PROVE  /\ Cardinality(OfSubject(StartedRecently, r)) <= SubjectRpm
                       /\ Cardinality(OfTenant(StartedRecently, r)) <= TenantRpm
    BY DEF RatesWithinLimits
  <2>. USE TrafficAssumption
  <2>1. r \in Counted /\ Counted \in SUBSET Requests /\ r \in Requests
    BY DEF StartedRecently, Counted
  <2>2. /\ IsFiniteSet(OfSubject(Counted, r)) /\ Cardinality(OfSubject(Counted, r)) <= SubjectRpm
        /\ IsFiniteSet(OfTenant(Counted, r)) /\ Cardinality(OfTenant(Counted, r)) <= TenantRpm
    BY <2>1, Finite DEF RedisInv
  <2>3. /\ OfSubject(StartedRecently, r) \in SUBSET OfSubject(Counted, r)
        /\ OfTenant(StartedRecently, r) \in SUBSET OfTenant(Counted, r)
    BY DEF StartedRecently, OfSubject, OfTenant
  <2>. QED  BY <2>2, <2>3, PartIsSmaller
<1>4. TypeOK /\ (RedisInv /\ HandlerInv /\ NetInv) /\ Running \subseteq InForce => WithinLimits
  BY <1>2, <1>3 DEF WithinLimits, RedisInv
<1>. QED  BY <1>1, <1>4, TrafficTypeCorrect, TrafficInvariant, PTL

(* If no renewal fails, the worker of a request that was answered with 504 *)
(* keeps its slot until it is over.                                        *)
THEOREM TimedOutWorkersKeepTheirSlots ==
    CallsAreShort /\ "renew" \notin Faults => (Spec => []TimedOutWorkerKeepsSlot)
<1>. SUFFICES ASSUME CallsAreShort, "renew" \notin Faults PROVE Spec => []TimedOutWorkerKeepsSlot
  OBVIOUS
<1>1. Spec => [](Running \subseteq InForce)  BY WorkersHaveLeases
<1>2. Running \subseteq InForce => TimedOutWorkerKeepsSlot  BY DEF TimedOutWorkerKeepsSlot
<1>. QED  BY <1>1, <1>2, PTL

=============================================================================
