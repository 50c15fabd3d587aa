---------------------------- MODULE SharedTraffic ----------------------------
(***************************************************************************)
(* The shared traffic guard: the Redis scripts and the lease of            *)
(* agent/api/redis_traffic.py under the request handler query_agent of     *)
(* agent/api/main.py.  Requests of several pods race for the slots of one  *)
(* Redis; commands can be delayed, lost, or executed after their caller    *)
(* gave up.                                                                *)
(*                                                                         *)
(* Time is relative: every score and deadline is the time that is left,    *)
(* and Tick lets one unit pass.  A sorted-set member whose score is over   *)
(* (ttl 0) stays a member until the next admission sweeps it.  The tenant  *)
(* and the global set of leases always get the same score in one script,   *)
(* so one set `leases' stands for both: an expired member of the tenant's  *)
(* set is swept before it is counted, and is no member of the global set.  *)
(***************************************************************************)
EXTENDS Integers, FiniteSets

CONSTANTS Requests,         \* requests, each handled once
          TenantOf,         \* the tenant of each request
          SubjectOf,        \* the subject of each request
          SubjectRpm, TenantRpm, TenantConcurrency, GlobalConcurrency,
          Window,           \* the rate window
          Ttl,              \* lease_ttl
          Heartbeat,        \* heartbeat_seconds
          OpTimeout,        \* operation_timeout_seconds
          Faults            \* which calls may fail, and whether pods crash

Ops == {"admit", "renew", "release"}

ASSUME TrafficAssumption ==
    /\ IsFiniteSet(Requests)
    /\ SubjectRpm \in Nat /\ TenantRpm \in Nat
    /\ TenantConcurrency \in Nat /\ GlobalConcurrency \in Nat
    /\ Window \in Nat /\ OpTimeout \in Nat
    /\ Ttl \in Nat \ {0} /\ Heartbeat \in Nat \ {0}
    /\ 2 * Heartbeat < Ttl          \* checked by RedisTrafficGuard.__init__
    /\ Faults \subseteq Ops \union {"pod_crash"}

VARIABLES
    \* Redis
    leases,      \* members of the global concurrency set
    ttl,         \* the time left to each member's score
    rate,        \* the time each admitted request stays in the rate windows
    net,         \* commands sent and not yet executed or lost
    \* each request's handler and lease object
    phase,       \* "new", "admitting", "running", "timed_out", "releasing", "over"
    reply,       \* what the client was, or is about to be, told
    worker,      \* the thread of the runtime: "none", "running", "done", "failed"
    heartbeat,   \* the lease's task: "off", "sleeping", "renewing", "ended"
    healthy,     \* lease._healthy
    awaiting,    \* the call the handler or the heartbeat awaits, or "none"
    answer,      \* what Redis answered to it: "none", "yes", "no"
    timer,       \* the time left to the sleep or to the call's timeout
    \* history
    lapsed,      \* requests that ran while their lease was not in force
    freed        \* requests whose RELEASE was executed

redisvars == <<leases, ttl, rate, net>>
leasevars == <<heartbeat, healthy>>
callvars  == <<awaiting, answer, timer>>
histvars  == <<lapsed, freed>>
vars == <<redisvars, phase, reply, worker, leasevars, callvars, histvars>>

-----------------------------------------------------------------------------
Cmd(op, r) == [op |-> op, req |-> r]

InForce == {r \in leases : ttl[r] > 0}
Running == {r \in Requests : worker[r] = "running"}

OfTenant(S, r)  == {x \in S : TenantOf[x] = TenantOf[r]}
OfSubject(S, r) == {x \in S : SubjectOf[x] = SubjectOf[r]}

(* The checks of ADMISSION_LUA, after its sweep.                           *)
Counted == {r \in Requests : rate[r] > 0}
(* A slip: every limit off by one.                                         *)
AdmissibleOneMore(r) ==
    /\ Cardinality(OfSubject(Counted, r)) <= SubjectRpm
    /\ Cardinality(OfTenant(Counted, r)) <= TenantRpm
    /\ Cardinality(OfTenant(InForce, r)) <= TenantConcurrency
    /\ Cardinality(InForce) <= GlobalConcurrency

Admissible(r) ==
    /\ Cardinality(OfSubject(Counted, r)) < SubjectRpm
    /\ Cardinality(OfTenant(Counted, r)) < TenantRpm
    /\ Cardinality(OfTenant(InForce, r)) < TenantConcurrency
    /\ Cardinality(InForce) < GlobalConcurrency

(* Somebody starts to await a call; a call returns.                        *)
Call(op, r) ==
    /\ net' = net \union {Cmd(op, r)}
    /\ awaiting' = [awaiting EXCEPT ![r] = op]
    /\ answer' = [answer EXCEPT ![r] = "none"]
    /\ timer' = [timer EXCEPT ![r] = OpTimeout]

(* Redis answers; nobody hears it who no longer awaits this command.       *)
Answer(op, r, a) ==
    /\ net' = net \ {Cmd(op, r)}
    /\ answer' = IF awaiting[r] = op THEN [answer EXCEPT ![r] = a] ELSE answer
    /\ UNCHANGED <<awaiting, timer>>

Returned(op, r) == awaiting[r] = op /\ answer[r] # "none"

EndCall(r, left) ==
    /\ awaiting' = [awaiting EXCEPT ![r] = "none"]
    /\ answer' = [answer EXCEPT ![r] = "none"]
    /\ timer' = [timer EXCEPT ![r] = left]

(* The awaited call raises: a connection error, or the timeout.  The       *)
(* command may be lost, or executed later.                                 *)
CallRaises(op, r) ==
    /\ op \in Faults
    /\ awaiting[r] = op
    /\ net' \in {net, net \ {Cmd(op, r)}}
    /\ EndCall(r, 0)

-----------------------------------------------------------------------------
Init ==
    /\ leases = {} /\ net = {}
    /\ ttl = [r \in Requests |-> 0] /\ rate = [r \in Requests |-> 0]
    /\ phase = [r \in Requests |-> "new"]
    /\ reply = [r \in Requests |-> "none"]
    /\ worker = [r \in Requests |-> "none"]
    /\ heartbeat = [r \in Requests |-> "off"]
    /\ healthy = [r \in Requests |-> TRUE]
    /\ awaiting = [r \in Requests |-> "none"]
    /\ answer = [r \in Requests |-> "none"]
    /\ timer = [r \in Requests |-> 0]
    /\ lapsed = {} /\ freed = {}

(* query_agent: traffic_guard.acquire().                                   *)
Acquire(r) ==
    /\ phase[r] = "new"
    /\ phase' = [phase EXCEPT ![r] = "admitting"]
    /\ Call("admit", r)
    /\ UNCHANGED <<leases, ttl, rate, reply, worker, leasevars, histvars>>

(* ADMISSION_LUA: sweep, check, and write the rate and the lease at once.  *)
ExecAdmit(r) ==
    /\ Cmd("admit", r) \in net
    /\ \/ /\ Admissible(r)
          /\ leases' = InForce \union {r}
          /\ ttl' = [ttl EXCEPT ![r] = Ttl]
          /\ rate' = [rate EXCEPT ![r] = Window]
          /\ Answer("admit", r, "yes")
       \/ /\ ~Admissible(r)
          /\ leases' = InForce
          /\ Answer("admit", r, "no")
          /\ UNCHANGED <<ttl, rate>>
    /\ UNCHANGED <<phase, reply, worker, leasevars, histvars>>

(* Admitted: the lease starts its heartbeat, the worker thread starts.     *)
StartWorker(r) ==
    /\ Returned("admit", r) /\ answer[r] = "yes"
    /\ phase' = [phase EXCEPT ![r] = "running"]
    /\ worker' = [worker EXCEPT ![r] = "running"]
    /\ heartbeat' = [heartbeat EXCEPT ![r] = "sleeping"]
    /\ EndCall(r, Heartbeat)
    /\ UNCHANGED <<redisvars, reply, healthy, histvars>>

(* 429.                                                                    *)
Reject(r) ==
    /\ Returned("admit", r) /\ answer[r] = "no"
    /\ phase' = [phase EXCEPT ![r] = "over"]
    /\ reply' = [reply EXCEPT ![r] = "rejected"]
    /\ EndCall(r, 0)
    /\ UNCHANGED <<redisvars, worker, leasevars, histvars>>

(* TrafficGuardUnavailable: 503.                                           *)
AdmitRaises(r) ==
    /\ CallRaises("admit", r)
    /\ phase' = [phase EXCEPT ![r] = "over"]
    /\ reply' = [reply EXCEPT ![r] = "unavailable"]
    /\ UNCHANGED <<leases, ttl, rate, worker, leasevars, histvars>>

-----------------------------------------------------------------------------
(* RedisAdmissionLease._heartbeat.                                         *)
Renew(r) ==
    /\ heartbeat[r] = "sleeping" /\ timer[r] = 0
    /\ heartbeat' = [heartbeat EXCEPT ![r] = "renewing"]
    /\ Call("renew", r)
    /\ UNCHANGED <<leases, ttl, rate, phase, reply, worker, healthy, histvars>>

(* A slip: the script writes the score without looking for the member.     *)
ExecRenewAlways(r) ==
    /\ Cmd("renew", r) \in net
    /\ leases' = leases \union {r}
    /\ ttl' = [ttl EXCEPT ![r] = Ttl]
    /\ Answer("renew", r, "yes")
    /\ UNCHANGED <<rate, phase, reply, worker, leasevars, histvars>>

(* RENEW_LUA: only a lease that is still a member gets a new score.        *)
ExecRenew(r) ==
    /\ Cmd("renew", r) \in net
    /\ \/ /\ r \in leases
          /\ ttl' = [ttl EXCEPT ![r] = Ttl]
          /\ Answer("renew", r, "yes")
       \/ /\ r \notin leases
          /\ Answer("renew", r, "no")
          /\ UNCHANGED ttl
    /\ UNCHANGED <<leases, rate, phase, reply, worker, leasevars, histvars>>

Renewed(r) ==
    /\ Returned("renew", r) /\ answer[r] = "yes"
    /\ heartbeat' = [heartbeat EXCEPT ![r] = "sleeping"]
    /\ EndCall(r, Heartbeat)
    /\ UNCHANGED <<redisvars, phase, reply, worker, healthy, histvars>>

(* Not renewed, or the call raises: unhealthy, and no heartbeat any more.  *)
LeaseLost(r) ==
    /\ \/ /\ Returned("renew", r) /\ answer[r] = "no"
          /\ EndCall(r, 0)
          /\ UNCHANGED net
       \/ CallRaises("renew", r)
    /\ healthy' = [healthy EXCEPT ![r] = FALSE]
    /\ heartbeat' = [heartbeat EXCEPT ![r] = "ended"]
    /\ UNCHANGED <<leases, ttl, rate, phase, reply, worker, histvars>>

-----------------------------------------------------------------------------
(* A slip: the heartbeat is not cancelled.                                 *)
ReleaseAsyncKeepsHeartbeat(r) ==
    /\ phase' = [phase EXCEPT ![r] = "releasing"]
    /\ heartbeat' = heartbeat
    /\ Call("release", r)

(* release_async: cancel the heartbeat, then call RELEASE_LUA.             *)
ReleaseAsync(r) ==
    /\ phase' = [phase EXCEPT ![r] = "releasing"]
    /\ heartbeat' = [heartbeat EXCEPT ![r] = "off"]
    /\ Call("release", r)

WorkerEnds(r) ==
    /\ worker[r] = "running"
    /\ worker' \in {[worker EXCEPT ![r] = "done"], [worker EXCEPT ![r] = "failed"]}
    /\ UNCHANGED <<redisvars, phase, reply, leasevars, callvars, histvars>>

(* A slip: the handler releases the lease when it answers 504.             *)
RequestTimeoutReleases(r) ==
    /\ phase[r] = "running"
    /\ reply' = [reply EXCEPT ![r] = "timeout"]
    /\ ReleaseAsync(r)
    /\ UNCHANGED <<leases, ttl, rate, worker, healthy, histvars>>

(* wait_for(shield(task)) times out: 504, and the worker goes on - or is   *)
(* over already and the loop has not taken notice yet.                     *)
RequestTimeout(r) ==
    /\ phase[r] = "running"
    /\ phase' = [phase EXCEPT ![r] = "timed_out"]
    /\ reply' = [reply EXCEPT ![r] = "timeout"]
    /\ UNCHANGED <<redisvars, worker, leasevars, callvars, histvars>>

(* A slip: the health of the lease is not looked at.                       *)
RespondRegardless(r) ==
    /\ phase[r] = "running" /\ worker[r] \in {"done", "failed"}
    /\ reply' = [reply EXCEPT ![r] = IF worker[r] = "failed" THEN "error" ELSE "answer"]
    /\ ReleaseAsync(r)
    /\ UNCHANGED <<leases, ttl, rate, worker, healthy, histvars>>

(* The worker is over: an exception is a 500, a lost lease withholds the   *)
(* answer (503), otherwise the result is answered; each after a release.   *)
Respond(r) ==
    /\ phase[r] = "running" /\ worker[r] \in {"done", "failed"}
    /\ reply' = [reply EXCEPT ![r] = IF worker[r] = "failed" THEN "error"
                                     ELSE IF healthy[r] THEN "answer" ELSE "lease_lost"]
    /\ ReleaseAsync(r)
    /\ UNCHANGED <<leases, ttl, rate, worker, healthy, histvars>>

(* After a 504, the done callback of the task releases the lease.          *)
ReleaseWhenTaskFinishes(r) ==
    /\ phase[r] = "timed_out" /\ worker[r] \in {"done", "failed"}
    /\ ReleaseAsync(r)
    /\ UNCHANGED <<leases, ttl, rate, reply, worker, healthy, histvars>>

ExecRelease(r) ==
    /\ Cmd("release", r) \in net
    /\ leases' = leases \ {r}
    /\ freed' = freed \union {r}
    /\ Answer("release", r, "yes")
    /\ UNCHANGED <<ttl, rate, phase, reply, worker, leasevars, lapsed>>

(* A slip: an exception of the release call is not caught.                 *)
ReleaseEndsIfAnswered(r) ==
    /\ \/ /\ Returned("release", r) /\ EndCall(r, 0) /\ UNCHANGED net
          /\ phase' = [phase EXCEPT ![r] = "over"]
       \/ CallRaises("release", r) /\ UNCHANGED phase
    /\ UNCHANGED <<leases, ttl, rate, reply, worker, leasevars, histvars>>

(* _safe_release_lease ends either way: a failed release is left to the    *)
(* time to live.                                                           *)
ReleaseEnds(r) ==
    /\ \/ Returned("release", r) /\ EndCall(r, 0) /\ UNCHANGED net
       \/ CallRaises("release", r)
    /\ phase' = [phase EXCEPT ![r] = "over"]
    /\ UNCHANGED <<leases, ttl, rate, reply, worker, leasevars, histvars>>

-----------------------------------------------------------------------------
(* The pod of a request dies, with its worker and its heartbeat.           *)
PodCrash(r) ==
    /\ "pod_crash" \in Faults
    /\ phase[r] \notin {"new", "over"}
    /\ phase' = [phase EXCEPT ![r] = "over"]
    /\ worker' = [worker EXCEPT ![r] = "none"]
    /\ heartbeat' = [heartbeat EXCEPT ![r] = "off"]
    /\ EndCall(r, 0)
    /\ UNCHANGED <<redisvars, reply, healthy, histvars>>

(* One unit of time passes; a sleep or a call that is due goes first.      *)
Tick ==
    /\ \A r \in Requests : heartbeat[r] = "sleeping" \/ awaiting[r] # "none" => timer[r] > 0
    /\ ttl' = [r \in Requests |-> IF ttl[r] = 0 THEN 0 ELSE ttl[r] - 1]
    /\ rate' = [r \in Requests |-> IF rate[r] = 0 THEN 0 ELSE rate[r] - 1]
    /\ timer' = [r \in Requests |-> IF timer[r] = 0 THEN 0 ELSE timer[r] - 1]
    /\ lapsed' = lapsed \union {r \in Running : r \notin leases \/ ttl'[r] = 0}
    /\ UNCHANGED <<leases, net, phase, reply, worker, leasevars, awaiting, answer, freed>>

RedisStep(r) == ExecAdmit(r) \/ ExecRenew(r) \/ ExecRelease(r)

HandlerStep(r) ==
    \/ StartWorker(r) \/ Reject(r) \/ AdmitRaises(r)
    \/ Respond(r) \/ ReleaseWhenTaskFinishes(r) \/ ReleaseEnds(r)

HeartbeatStep(r) == Renew(r) \/ Renewed(r) \/ LeaseLost(r)

Next ==
    \/ \E r \in Requests :
          \/ Acquire(r) \/ HandlerStep(r) \/ HeartbeatStep(r) \/ RedisStep(r)
          \/ WorkerEnds(r) \/ RequestTimeout(r) \/ PodCrash(r)
    \/ Tick

Spec == Init /\ [][Next]_vars

(* Time passes, the event loop and Redis run, and a worker comes to an end.*)
FairSpec ==
    /\ Spec
    /\ WF_vars(Tick)
    /\ \A r \in Requests : /\ WF_vars(HandlerStep(r)) /\ WF_vars(HeartbeatStep(r))
                           /\ WF_vars(RedisStep(r)) /\ WF_vars(WorkerEnds(r))

-----------------------------------------------------------------------------
TypeOK ==
    /\ leases \subseteq Requests
    /\ ttl \in [Requests -> 0..Ttl]
    /\ rate \in [Requests -> 0..Window]
    /\ net \subseteq [op : Ops, req : Requests]
    /\ phase \in [Requests ->
                    {"new", "admitting", "running", "timed_out", "releasing", "over"}]
    /\ reply \in [Requests -> {"none", "rejected", "unavailable", "answer", "error",
                               "lease_lost", "timeout"}]
    /\ worker \in [Requests -> {"none", "running", "done", "failed"}]
    /\ heartbeat \in [Requests -> {"off", "sleeping", "renewing", "ended"}]
    /\ healthy \in [Requests -> BOOLEAN]
    /\ awaiting \in [Requests -> Ops \union {"none"}]
    /\ answer \in [Requests -> {"none", "yes", "no"}]
    /\ timer \in [Requests -> Nat]
    /\ lapsed \subseteq Requests /\ freed \subseteq Requests

(* Redis never holds more leases than there are slots, expired members     *)
(* that a renewal may bring back to life included.                         *)
LeasesWithinCapacity ==
    /\ Cardinality(leases) <= GlobalConcurrency
    /\ \A r \in leases : Cardinality(OfTenant(leases, r)) <= TenantConcurrency

(* The point of the leases: on all pods together no more runtimes execute  *)
(* than there are slots, for a tenant and globally - also those of         *)
(* requests that were already answered with a 504.                         *)
WorkersWithinCapacity ==
    /\ Cardinality(Running) <= GlobalConcurrency
    /\ \A r \in Running : Cardinality(OfTenant(Running, r)) <= TenantConcurrency

(* A request that timed out keeps its slot until its worker is over        *)
(* (timed_out_worker_keeps_concurrency_slot_until_actual_completion).      *)
TimedOutWorkerKeepsSlot ==
    \A r \in Running : reply[r] = "timeout" => r \in InForce

(* An answer is given only by a request whose lease was in force for as    *)
(* long as its worker ran (lost_heartbeat_withholds_answer).               *)
AnswerOnlyUnderLease ==
    \A r \in Requests : reply[r] = "answer" => r \notin lapsed

(* A released slot is not taken again by a renewal still on its way.       *)
ReleasedStaysReleased == freed \intersect leases = {}

(* In no window of time are more requests of a subject or of a tenant      *)
(* executed than its limit per window.                                     *)
StartedRecently == {r \in Counted : worker[r] # "none"}
RatesWithinLimits ==
    \A r \in StartedRecently :
        /\ Cardinality(OfSubject(StartedRecently, r)) <= SubjectRpm
        /\ Cardinality(OfTenant(StartedRecently, r)) <= TenantRpm

(* All limits hold at once, in Redis and in the pods.                      *)
WithinLimits == LeasesWithinCapacity /\ WorkersWithinCapacity /\ RatesWithinLimits

(* Capacity comes back: whatever fails - a crash, a lost release, an       *)
(* admission whose answer never arrived - no lease is in force for ever.   *)
CapacityIsRecovered == \A r \in Requests : r \in InForce ~> r \notin InForce

(* Every request is over at last, and so is its handler.                   *)
RequestsEnd == \A r \in Requests : phase[r] # "new" ~> phase[r] = "over"
-----------------------------------------------------------------------------
(* The inductive invariant behind the safety properties, in parts.         *)

(* Redis writes a lease, or an entry of a rate window, only if there is    *)
(* room for it.                                                            *)
RedisInv ==
    /\ LeasesWithinCapacity
    /\ \A r \in Counted : /\ Cardinality(OfSubject(Counted, r)) <= SubjectRpm
                          /\ Cardinality(OfTenant(Counted, r)) <= TenantRpm

(* Handler, heartbeat and worker of a request fit together.                *)
HandlerInv ==
    \A r \in Requests :
        /\ awaiting[r] = "admit" => phase[r] = "admitting"
        /\ awaiting[r] = "release" => phase[r] = "releasing"
        /\ awaiting[r] = "renew" => heartbeat[r] = "renewing"
        /\ heartbeat[r] = "renewing" => awaiting[r] = "renew"
        /\ heartbeat[r] = "sleeping" => awaiting[r] = "none" /\ timer[r] <= Heartbeat
        /\ heartbeat[r] \in {"sleeping", "renewing"} \/ worker[r] = "running"
              => phase[r] \in {"running", "timed_out"}
        /\ awaiting[r] # "none" => timer[r] <= OpTimeout
        /\ reply[r] = "answer" => phase[r] \in {"releasing", "over"}

(* Which commands can still be under way in a phase.                       *)
NetInv ==
    \A r \in Requests :
        /\ Cmd("admit", r) \in net => phase[r] \in {"admitting", "over"}
        /\ Cmd("admit", r) \in net /\ awaiting[r] = "admit" => answer[r] = "none"
        /\ Cmd("renew", r) \in net => phase[r] \notin {"new", "admitting"}
        /\ Cmd("release", r) \in net \/ r \in freed
              => phase[r] \in {"releasing", "over"} /\ Cmd("admit", r) \notin net

(* Calls are short against the life of a lease: two of them and a sleep    *)
(* fit in.                                                                 *)
CallsAreShort == 2 * OpTimeout + Heartbeat < Ttl

(* A lease that nobody knows to be lost is in force, and stays so until    *)
(* the next renewal is executed.                                           *)
LeaseInv ==
    \A r \in Requests :
        /\ worker[r] = "running" /\ healthy[r] =>
              /\ r \in leases
              /\ heartbeat[r] \in {"sleeping", "renewing"}
              /\ answer[r] # "no"
              /\ heartbeat[r] = "sleeping" => ttl[r] > timer[r] + OpTimeout
              /\ heartbeat[r] = "renewing" => ttl[r] > timer[r]
              /\ answer[r] = "yes" => ttl[r] > timer[r] + Heartbeat + OpTimeout
        /\ awaiting[r] = "admit" /\ answer[r] = "yes" =>
              r \in leases /\ ttl[r] > timer[r] + Heartbeat + OpTimeout
        /\ r \in lapsed => ~healthy[r]

(* As long as no renewal fails, no lease is lost.                          *)
HealthInv ==
    \A r \in Requests :
        worker[r] = "running" \/ phase[r] \in {"new", "admitting"} => healthy[r]
=============================================================================
