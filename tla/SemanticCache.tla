---------------------------- MODULE SemanticCache ----------------------------
(***************************************************************************)
(* The process-wide snapshot of the semantic contracts                     *)
(* (agent/context/cached_repository.py). Every repository instance of a    *)
(* process binds, on its first lookup, the one snapshot that is built from *)
(* the files under a lock and memoized; a lookup of a bound instance reads *)
(* no file. A process that ends leaves nothing behind.                     *)
(***************************************************************************)
EXTENDS Integers, FiniteSets

CONSTANTS Threads,     \* of one process
          Instances,   \* repositories: the context loader's, the metadata tools'
          Sources,     \* the number of files a snapshot is read from
          Revisions,   \* what one of them may hold
          MaxSourceEdits,  \* changes of the files while it lives (bound)
          MaxClears        \* calls of clear_semantic_snapshot_process_cache (bound)

ASSUME CacheAssumption ==
    Sources \in Nat \ {0} /\ {MaxSourceEdits, MaxClears} \subseteq Nat

VARIABLES
    source,     \* the files; a broken one cannot be parsed
    memo,       \* the entry of _cached_semantic_snapshot
    ref,        \* _semantic_snapshot_ref of each instance
    lock,       \* _CACHE_LOCK: the threads that hold it
    lookup,     \* the lookup of each thread: where it is, for whom, what it has
    edited, cleared, \* (bounds)
    builds      \* history: the snapshots that were completed

cacheVars == <<source, memo, ref, lock, lookup, edited, cleared, builds>>

Broken == "broken"
SourceContents == Revisions \union {Broken}

NoSnapshot == [id |-> 0]

(* An object: two that were read from equal files are still two.           *)
Snapshot(id, of) == [id |-> id, of |-> of]
Snapshots == [id : Nat \ {0}, of : [1..Sources -> Revisions]]

NoLookup == [at |-> "idle"]

CacheInit ==
    /\ source \in [1..Sources -> Revisions]
    /\ memo = NoSnapshot /\ ref = [i \in Instances |-> NoSnapshot]
    /\ lock = {} /\ lookup = [t \in Threads |-> NoLookup]
    /\ edited = 0 /\ cleared = 0 /\ builds = 0

-----------------------------------------------------------------------------
(* _snapshot of an instance that is not bound.                             *)
StartLookup(t) ==
    /\ lookup[t] = NoLookup
    /\ \E i \in Instances :
          /\ ref[i] = NoSnapshot
          /\ lookup' = [lookup EXCEPT ![t] = [at |-> "lock", instance |-> i]]
    /\ UNCHANGED <<source, memo, ref, lock, edited, cleared, builds>>

Found(t, snapshot) == [at |-> "bind", instance |-> lookup[t].instance, found |-> snapshot]

(* _build_semantic_snapshot has read n files.                              *)
Reading(t, n, of) ==
    [at |-> "build", instance |-> lookup[t].instance, read |-> n, of |-> of]
Build(t) == Reading(t, 0, source)

(* Slip: the memo alone is taken to be enough.                             *)
TakeNoLock(t) ==
    /\ lookup[t].at = "lock"
    /\ lookup' = [lookup EXCEPT ![t] = IF memo # NoSnapshot THEN Found(t, memo) ELSE Build(t)]
    /\ UNCHANGED <<source, memo, ref, lock, edited, cleared, builds>>

(* _snapshot_for_root: a hit gives the lock back at once.                  *)
TakeLock(t) ==
    /\ lookup[t].at = "lock" /\ lock = {}
    /\ IF memo # NoSnapshot
       THEN lookup' = [lookup EXCEPT ![t] = Found(t, memo)] /\ lock' = lock
       ELSE lookup' = [lookup EXCEPT ![t] = Build(t)] /\ lock' = lock \union {t}
    /\ UNCHANGED <<source, memo, ref, edited, cleared, builds>>

(* The files are read one after the other. One that cannot be parsed ends  *)
(* the lookup with an exception, and nothing is memoized.                  *)
ReadFile(t) ==
    /\ lookup[t].at = "build" /\ lookup[t].read < Sources
    /\ LET f == lookup[t].read + 1 IN
       IF source[f] = Broken
       THEN lookup' = [lookup EXCEPT ![t] = NoLookup] /\ lock' = lock \ {t}
       ELSE LET of == [lookup[t].of EXCEPT ![f] = source[f]] IN
            lookup' = [lookup EXCEPT ![t] = Reading(t, f, of)] /\ lock' = lock
    /\ UNCHANGED <<source, memo, ref, edited, cleared, builds>>

(* lru_cache keeps the entry that is there, should there be one.           *)
Memoize(t) ==
    /\ lookup[t].at = "build" /\ lookup[t].read = Sources
    /\ LET built == Snapshot(builds + 1, lookup[t].of) IN
          /\ lookup' = [lookup EXCEPT ![t] = Found(t, built)]
          /\ memo' = IF memo = NoSnapshot THEN built ELSE memo
    /\ builds' = builds + 1 /\ lock' = lock \ {t}
    /\ UNCHANGED <<source, ref, edited, cleared>>

Bind(t) ==
    /\ lookup[t].at = "bind"
    /\ ref' = [ref EXCEPT ![lookup[t].instance] = lookup[t].found]
    /\ lookup' = [lookup EXCEPT ![t] = NoLookup]
    /\ UNCHANGED <<source, memo, lock, edited, cleared, builds>>

(* clear_semantic_snapshot_process_cache: the instances keep what they have*)
Clear ==
    /\ lock = {} /\ cleared < MaxClears
    /\ memo' = NoSnapshot /\ cleared' = cleared + 1
    /\ UNCHANGED <<source, ref, lock, lookup, edited, builds>>

(* Somebody changes a file under the running process.                      *)
EditSource ==
    /\ edited < MaxSourceEdits /\ edited' = edited + 1
    /\ \E f \in 1..Sources, c \in SourceContents : source' = [source EXCEPT ![f] = c]
    /\ UNCHANGED <<memo, ref, lock, lookup, cleared, builds>>

CacheNext ==
    \/ \E t \in Threads :
          StartLookup(t) \/ TakeLock(t) \/ ReadFile(t) \/ Memoize(t) \/ Bind(t)
    \/ Clear \/ EditSource

CacheSpec == CacheInit /\ [][CacheNext]_cacheVars

-----------------------------------------------------------------------------
CacheTypeOK ==
    /\ source \in [1..Sources -> SourceContents]
    /\ memo \in Snapshots \union {NoSnapshot}
    /\ ref \in [Instances -> Snapshots \union {NoSnapshot}]
    /\ lock \subseteq Threads
    /\ lookup \in [Threads -> {NoLookup}
                       \union [at : {"lock"}, instance : Instances]
                       \union [at : {"build"}, instance : Instances, read : 0..Sources,
                               of : [1..Sources -> SourceContents]]
                       \union [at : {"bind"}, instance : Instances, found : Snapshots]]
    /\ edited \in 0..MaxSourceEdits /\ cleared \in 0..MaxClears /\ builds \in Nat

(* All that a process answers from: bound, memoized, or about to be bound. *)
InUse ==
    ({memo} \union {ref[i] : i \in Instances}
       \union {lookup[t].found : t \in {t \in Threads : lookup[t].at = "bind"}}) \ {NoSnapshot}

(* Whoever comes first, whatever is edited meanwhile and however often the *)
(* build fails: all instances answer from one and the same snapshot, and   *)
(* from one more for every explicit clear.                                 *)
SnapshotsAreShared ==
    /\ builds <= cleared + 1
    /\ \A s, r \in InUse : s.id = r.id => s = r
    /\ cleared = 0 => \A s, r \in InUse : s = r
=============================================================================
