----------------------------- MODULE LocalTraffic -----------------------------
(***************************************************************************)
(* The traffic guard of one process (GovernedTrafficGuard and              *)
(* AdmissionLease, agent/api/traffic.py): sliding rate windows per subject *)
(* and tenant, of which only so many are tracked, and counters of active   *)
(* requests. An admission runs under the guard's lock and awaits nothing,  *)
(* so it is one step.                                                      *)
(*                                                                         *)
(* An entry of a window is the number of the admission that made it; its   *)
(* time stamp is that of the admission. Time is relative: it is the time   *)
(* until the entry leaves the window, and TimePasses lets one unit pass.   *)
(***************************************************************************)
EXTENDS Integers, Sequences, FiniteSets

CONSTANTS Tenants, Subjects,
          SubjectRpm, TenantRpm, TenantConcurrency, GlobalConcurrency,
          MaxTracked,      \* max_tracked_identity_keys
          WindowSeconds,   \* rate_limit.window_seconds
          CleanupEvery,    \* 100
          MaxLeases        \* requests that are admitted (bound)

(* load_traffic_limits rejects a limit below one, and a tenant's that is   *)
(* above the global one.                                                   *)
LimitsLoad ==
    /\ {SubjectRpm, TenantRpm, TenantConcurrency, GlobalConcurrency, MaxTracked, WindowSeconds}
          \subseteq Nat \ {0}
    /\ TenantConcurrency <= GlobalConcurrency

ASSUME AdmissionAssumption == LimitsLoad /\ CleanupEvery \in Nat \ {0} /\ MaxLeases \in Nat

VARIABLES
    windows,         \* _subject_windows and _tenant_windows
    global_active, tenant_active,
    admissions,      \* _admissions, modulo CleanupEvery
    leases,          \* the lease of each admission, with its time stamp
    refusal          \* history: the last rejection, while nobody is admitted after it

admissionVars == <<windows, global_active, tenant_active, admissions, leases, refusal>>

Codes == {"SUBJECT_RATE_LIMITED", "TENANT_RATE_LIMITED", "TENANT_CONCURRENCY_LIMIT",
          "GLOBAL_CONCURRENCY_LIMIT", "RATE_LIMIT_TRACKING_CAPACITY"}
None == [code |-> "none"]
Identities == Tenants \X Subjects

-----------------------------------------------------------------------------
Get(f, key, default) == IF key \in DOMAIN f THEN f[key] ELSE default
With(f, key, value) == [k \in DOMAIN f \union {key} |-> IF k = key THEN value ELSE f[k]]

(* Slip: an entry leaves one unit early.                                   *)
PruneEarly(window) == {n \in window : leases[n].left > 1}
Prune(window) == {n \in window : leases[n].left > 0}
Swept(f) == [k \in {k \in DOMAIN f : Prune(f[k]) # {}} |-> Prune(f[k])]
Cleanup(w) == [subjects |-> Swept(w.subjects), tenants |-> Swept(w.tenants)]
Tracked(w) == Cardinality(DOMAIN w.subjects) + Cardinality(DOMAIN w.tenants)
Knows(w, t, s) == <<t, s>> \in DOMAIN w.subjects /\ t \in DOMAIN w.tenants

(* Slip: the windows are only swept every so often.                        *)
WindowsForSeldom(t, s) ==
    IF (admissions + 1) % CleanupEvery = 0 THEN Cleanup(windows) ELSE windows

(* The windows when the limit of tracked keys is tested: swept for a new   *)
(* identity, and every so often.                                           *)
WindowsFor(t, s) ==
    LET w == IF (admissions + 1) % CleanupEvery = 0 THEN Cleanup(windows) ELSE windows IN
    IF Knows(w, t, s) THEN w ELSE Cleanup(w)

(* Both keys of the request are tracked, whatever becomes of it.           *)
Touched(w, t, s) ==
    [subjects |-> With(w.subjects, <<t, s>>, Prune(Get(w.subjects, <<t, s>>, {}))),
     tenants  |-> With(w.tenants, t, Prune(Get(w.tenants, t, {})))]

(* The answer to a request: a code, or "admitted".                         *)
Verdict(t, s) ==
    LET w == WindowsFor(t, s)
        x == Touched(w, t, s) IN
    IF ~Knows(w, t, s) /\ Tracked(w) >= MaxTracked THEN "RATE_LIMIT_TRACKING_CAPACITY"
    ELSE IF Cardinality(x.subjects[<<t, s>>]) >= SubjectRpm THEN "SUBJECT_RATE_LIMITED"
    ELSE IF Cardinality(x.tenants[t]) >= TenantRpm THEN "TENANT_RATE_LIMITED"
    ELSE IF Get(tenant_active, t, 0) >= TenantConcurrency THEN "TENANT_CONCURRENCY_LIMIT"
    ELSE IF global_active >= GlobalConcurrency THEN "GLOBAL_CONCURRENCY_LIMIT"
    ELSE "admitted"

(* _retry_after: the head of the window leaves, rounded up.                *)
Oldest(window) == CHOOSE n \in window : \A m \in window : n <= m
RetryAfter(window) == IF window = {} THEN 1 ELSE leases[Oldest(window)].left + 1

Retry(code, w, t, s) ==
    CASE code = "RATE_LIMIT_TRACKING_CAPACITY" -> WindowSeconds
      [] code = "SUBJECT_RATE_LIMITED" -> RetryAfter(w.subjects[<<t, s>>])
      [] code = "TENANT_RATE_LIMITED" -> RetryAfter(w.tenants[t])
      [] OTHER -> 1

-----------------------------------------------------------------------------
AdmissionInit ==
    /\ windows = [subjects |-> <<>>, tenants |-> <<>>]
    /\ global_active = 0 /\ tenant_active = <<>>
    /\ admissions = 0
    /\ leases = <<>> /\ refusal = None

Rejected(t, s) ==
    LET code == Verdict(t, s)
        w    == WindowsFor(t, s) IN
    /\ code \in Codes
    /\ windows' = IF code = "RATE_LIMIT_TRACKING_CAPACITY" THEN w ELSE Touched(w, t, s)
    /\ refusal' \in {refusal, [code |-> code, tenant |-> t, subject |-> s,
                               left |-> Retry(code, Touched(w, t, s), t, s)]}
    /\ UNCHANGED <<global_active, tenant_active, leases>>

Admitted(t, s) ==
    LET w == Touched(WindowsFor(t, s), t, s) IN
    /\ Len(leases) < MaxLeases
    /\ Verdict(t, s) = "admitted"
    /\ windows' = [subjects |-> With(w.subjects, <<t, s>>, w.subjects[<<t, s>>] \union {Len(leases) + 1}),
                   tenants  |-> With(w.tenants, t, w.tenants[t] \union {Len(leases) + 1})]
    /\ global_active' = global_active + 1
    /\ tenant_active' = With(tenant_active, t, Get(tenant_active, t, 0) + 1)
    /\ leases' = Append(leases, [tenant |-> t, subject |-> s, left |-> WindowSeconds, released |-> FALSE])
    /\ refusal' = None

AcquireLease(t, s) ==
    /\ admissions' = (admissions + 1) % CleanupEvery
    /\ Rejected(t, s) \/ Admitted(t, s)

(* release: the first time only. The slot of a tenant's last request goes  *)
(* with its entry.                                                         *)
Release(i) ==
    LET t == leases[i].tenant
        active == Get(tenant_active, t, 0) - 1 IN
    /\ ~leases[i].released
    /\ leases' = [leases EXCEPT ![i].released = TRUE]
    /\ global_active' = IF global_active > 0 THEN global_active - 1 ELSE 0
    /\ tenant_active' = IF active > 0 THEN With(tenant_active, t, active)
                        ELSE [k \in DOMAIN tenant_active \ {t} |-> tenant_active[k]]
    /\ UNCHANGED <<windows, admissions, refusal>>

Later(left) == IF left > 0 THEN left - 1 ELSE 0
TimePasses ==
    /\ leases' = [i \in DOMAIN leases |-> [leases[i] EXCEPT !.left = Later(@)]]
    /\ refusal' = IF refusal = None THEN None ELSE [refusal EXCEPT !.left = Later(@)]
    /\ UNCHANGED <<windows, global_active, tenant_active, admissions>>

AdmissionNext ==
    \/ \E t \in Tenants, s \in Subjects : AcquireLease(t, s)
    \/ \E i \in DOMAIN leases : Release(i)
    \/ TimePasses

AdmissionSpec == AdmissionInit /\ [][AdmissionNext]_admissionVars

-----------------------------------------------------------------------------
(* The leases not yet released, and the admissions that count, of an       *)
(* identity and of a tenant.                                               *)
Held == {i \in DOMAIN leases : ~leases[i].released}
HeldBy(t) == {i \in Held : leases[i].tenant = t}
RecentBy(t) == {i \in DOMAIN leases : leases[i].tenant = t /\ leases[i].left > 0}
RecentOf(t, s) == {i \in RecentBy(t) : leases[i].subject = s}

Entries == 0..WindowSeconds
AdmissionTypeOK ==
    /\ DOMAIN windows.subjects \subseteq Identities /\ DOMAIN windows.tenants \subseteq Tenants
    /\ \A k \in DOMAIN windows.subjects : windows.subjects[k] \subseteq DOMAIN leases
    /\ \A t \in DOMAIN windows.tenants : windows.tenants[t] \subseteq DOMAIN leases
    /\ global_active \in Nat
    /\ DOMAIN tenant_active \subseteq Tenants
    /\ \A t \in DOMAIN tenant_active : tenant_active[t] \in Nat \ {0}
    /\ admissions \in 0..(CleanupEvery - 1)
    /\ leases \in Seq([tenant : Tenants, subject : Subjects, left : Entries, released : BOOLEAN])
    /\ Len(leases) <= MaxLeases
    /\ refusal = None \/ refusal \in [code : Codes, tenant : Tenants, subject : Subjects,
                                      left : 0..(WindowSeconds + 1)]

(* The counters are the leases that are out, whenever and however often    *)
(* they are released.                                                      *)
SlotsAreLeases ==
    /\ global_active = Cardinality(Held)
    /\ \A t \in Tenants : Get(tenant_active, t, 0) = Cardinality(HeldBy(t))
    /\ Cardinality(Held) <= GlobalConcurrency
    /\ \A t \in Tenants : Cardinality(HeldBy(t)) <= TenantConcurrency

(* Windows that are swept, pruned and dropped forget no admission that     *)
(* still counts, so the rates hold of the admissions themselves; and never *)
(* is more than one key tracked beyond the limit, though a subject and its *)
(* tenant come in together.                                                *)
WindowsForgetNothing ==
    /\ \A t \in Tenants :
          /\ Cardinality(RecentBy(t)) <= TenantRpm
          /\ \A s \in Subjects : Cardinality(RecentOf(t, s)) <= SubjectRpm
    /\ Tracked(windows) <= MaxTracked + 1

LimitsHold == SlotsAreLeases /\ WindowsForgetNothing

(* Whoever was turned away for a rate, or because too many identities are  *)
(* tracked, and waits as long as it is told is not turned away for that    *)
(* again, unless another request is admitted meanwhile: the identities of  *)
(* rejected requests do not pile up.                                       *)
RetryAfterSuffices ==
    refusal # None /\ refusal.left = 0
    /\ refusal.code \notin {"TENANT_CONCURRENCY_LIMIT", "GLOBAL_CONCURRENCY_LIMIT"}
    => Verdict(refusal.tenant, refusal.subject) # refusal.code

-----------------------------------------------------------------------------
(* The inductive invariant behind both, in parts.                          *)

(* A window holds every admission of its identity that still counts, and   *)
(* no other identity's.                                                    *)
Remembers(w) ==
    /\ DOMAIN w.subjects \subseteq Identities /\ DOMAIN w.tenants \subseteq Tenants
    /\ IsFiniteSet(DOMAIN w.subjects) /\ IsFiniteSet(DOMAIN w.tenants)
    /\ \A i \in DOMAIN leases :
          LET key == <<leases[i].tenant, leases[i].subject>> IN
          leases[i].left > 0 =>
              /\ key \in DOMAIN w.subjects /\ i \in w.subjects[key]
              /\ key[1] \in DOMAIN w.tenants /\ i \in w.tenants[key[1]]
    /\ \A key \in DOMAIN w.subjects : \A i \in w.subjects[key] :
          i \in DOMAIN leases /\ <<leases[i].tenant, leases[i].subject>> = key
    /\ \A t \in DOMAIN w.tenants : \A i \in w.tenants[t] :
          i \in DOMAIN leases /\ leases[i].tenant = t
WindowsInv == Remembers(windows)

(* What a rejected request waits for: one admission that leaves the window *)
(* in time, without which there is room; or that they all do.              *)
Leaves(i) == leases[i].left = 0 \/ leases[i].left < refusal.left
MakesRoom(i, window, limit) == Leaves(i) /\ Cardinality(window \ {i}) < limit
RefusalInv ==
    refusal # None =>
        /\ refusal.code = "SUBJECT_RATE_LIMITED" =>
              \E i \in DOMAIN leases : MakesRoom(i, RecentOf(refusal.tenant, refusal.subject), SubjectRpm)
        /\ refusal.code = "TENANT_RATE_LIMITED" =>
              \E i \in DOMAIN leases : MakesRoom(i, RecentBy(refusal.tenant), TenantRpm)
        /\ refusal.code = "RATE_LIMIT_TRACKING_CAPACITY" =>
              \A i \in DOMAIN leases : leases[i].left <= refusal.left
=============================================================================
