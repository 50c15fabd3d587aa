-------------------------- MODULE TokenVerification --------------------------
(***************************************************************************)
(* The verification of bearer tokens (JWTVerifier,                         *)
(* mcp_server/auth/jwt.py): threads share one cache of the identity        *)
(* provider's public keys (PyJWKClient) under a lock; a signature is       *)
(* checked outside of it, and an invalid one leads to one forced refresh   *)
(* per cooldown, since the provider may have changed the key of a kid. The *)
(* client caches every answer, also an empty one, which it then refuses to *)
(* read until its lifespan ends.                                           *)
(*                                                                         *)
(* A key is a kid and a generation; the provider publishes at most one     *)
(* generation of a kid. Time is relative; Tick lets one unit pass.         *)
(***************************************************************************)
EXTENDS Integers, FiniteSets

CONSTANTS Threads,
          Kids,
          Lifespan,      \* jwks_cache_lifespan_seconds
          Timeout,       \* the longest that a request takes: each operation on
                         \* the socket ends after jwks_timeout_seconds
          Cooldown,      \* signature_refresh_cooldown_seconds
          MaxGeneration  \* rotations of a kid (bound)

ASSUME VerificationAssumption ==
    /\ {Lifespan, Timeout, Cooldown} \subseteq Nat /\ MaxGeneration \in Nat \ {0}
    /\ "free" \notin Threads
    /\ Kids # {}                \* warm_jwks raises on an empty set

VARIABLES
    published,   \* the generation of each kid, 0: the kid is not published
    newest,      \* the last generation of each kid
    retired,     \* history: how long a key has not been published, up to a horizon
    bare,        \* history: how long ago no key at all was published, up to it
    cache,       \* the cached set of keys; left: the rest of its lifespan
    cooldown,    \* the time until a forced refresh may be made again
    lock,        \* the thread that holds the lock, or "free"
    fetch,       \* the request for the set of keys that the holder awaits
    verification \* the verification of each thread

verificationVars == <<published, newest, retired, bare, cache, cooldown, lock, fetch, verification>>

Keys == [kid : Kids, generation : 1..MaxGeneration]
Published == {k \in Keys : published[k.kid] = k.generation}
Horizon == Lifespan + Timeout + 1
NoFetch == [at |-> "none", keys |-> {}, left |-> 0]
Empty == [keys |-> {}, left |-> 0]

(* What a verification has met is history: whether its key was published   *)
(* all along, whether a request of its own failed, whether the cooldown    *)
(* was not over, how old a key it took and how old an empty set it met.    *)
NoToken == [kid |-> "none", generation |-> 0]
Idle == [at |-> "idle", token |-> NoToken, key |-> 0, again |-> FALSE, asked |-> FALSE,
         genuine |-> FALSE, failed |-> FALSE, cooled |-> FALSE, aged |-> 0,
         bare |-> Horizon]

-----------------------------------------------------------------------------
Cached(kid) == {k \in cache.keys : k.kid = kid}
(* Slip: the cache has no lifespan.                                        *)
AliveForever == cache.keys # {}
Alive == cache.left > 0

VerificationInit ==
    /\ published = [k \in Kids |-> 1] /\ newest = published
    /\ retired = [k \in Keys |-> 0] /\ bare = Horizon
    /\ cache = [keys |-> Published, left |-> Lifespan]       \* warm_jwks
    /\ cooldown = 0 /\ lock = "free" /\ fetch = NoFetch
    /\ verification = [t \in Threads |-> Idle]

(* verify: a token of a key that is or was published.                      *)
Verify(t) ==
    /\ verification[t].at \in {"idle", "accepted", "refused"}
    /\ \E k \in Keys :
          /\ k.generation <= newest[k.kid]
          /\ verification' = [verification EXCEPT ![t] = [Idle EXCEPT !.at = "resolve", !.token = k,
                                                    !.genuine = k \in Published]]
    /\ UNCHANGED <<published, newest, retired, bare, cache, cooldown, lock, fetch>>

Acquire(t, at) ==
    /\ verification[t].at = at /\ lock = "free"
    /\ lock' = t

(* get_signing_key found the kid: decode outside of the lock.              *)
Found(t) ==
    \E k \in Cached(verification[t].token.kid) :
        verification' = [verification EXCEPT ![t].at = "decode", ![t].key = k.generation,
                                             ![t].aged = retired[k]]

Request == fetch' = [at |-> "sent", keys |-> {}, left |-> Timeout]

(* _resolve_signing_key: from the cache ...                                *)
ResolveFromCache(t) ==
    /\ verification[t].at = "resolve" /\ lock = "free"
    /\ Alive /\ Found(t)
    /\ UNCHANGED <<published, newest, retired, bare, cache, cooldown, lock, fetch>>

(* ... which raises while the cached set is empty ...                      *)
ResolveFromEmpty(t) ==
    /\ verification[t].at = "resolve" /\ lock = "free"
    /\ Alive /\ cache.keys = {}
    /\ verification' = [verification EXCEPT ![t].at = "refused", ![t].bare = bare]
    /\ UNCHANGED <<published, newest, retired, bare, cache, cooldown, lock, fetch>>

(* ... or, when it is over or lacks the kid, from the provider.            *)
ResolveByFetch(t) ==
    /\ Acquire(t, "resolve")
    /\ ~Alive \/ (cache.keys # {} /\ Cached(verification[t].token.kid) = {})
    /\ Request
    /\ verification' = [verification EXCEPT ![t].at = "fetching", ![t].asked = Alive]
    /\ UNCHANGED <<published, newest, retired, bare, cache, cooldown>>

(* The provider answers with the keys of this moment ...                   *)
Serve ==
    /\ fetch.at = "sent"
    /\ fetch' = [fetch EXCEPT !.at = "served", !.keys = Published]
    /\ UNCHANGED <<published, newest, retired, bare, cache, cooldown, lock, verification>>

Fetched == cache' = [keys |-> fetch.keys, left |-> Lifespan]

(* ... which the holder of the lock receives and caches. A set that lacks  *)
(* the kid is asked for once more, unless it was asked for because of      *)
(* that; an empty one raises.                                              *)
Receive(t) ==
    /\ lock = t /\ verification[t].at = "fetching" /\ fetch.at = "served"
    /\ Fetched
    /\ LET keys == {k \in fetch.keys : k.kid = verification[t].token.kid} IN
       IF keys # {}
       THEN /\ lock' = "free" /\ fetch' = NoFetch
            /\ \E k \in keys :
                  verification' = [verification EXCEPT ![t].at = "decode", ![t].key = k.generation,
                                                       ![t].aged = retired[k]]
       ELSE IF fetch.keys # {} /\ ~verification[t].asked
       THEN Request /\ verification' = [verification EXCEPT ![t].asked = TRUE] /\ UNCHANGED lock
       ELSE /\ lock' = "free" /\ fetch' = NoFetch
            /\ verification' = [verification EXCEPT ![t].at = "refused"]
    /\ UNCHANGED <<published, newest, retired, bare, cooldown>>

(* A request that fails clears the cache, whatever was in it.              *)
FetchFails(t) ==
    /\ lock = t /\ fetch.at # "none"
    /\ cache' = Empty
    /\ lock' = "free" /\ fetch' = NoFetch
    /\ verification' = [verification EXCEPT ![t].at = "refused", ![t].failed = TRUE]
    /\ UNCHANGED <<published, newest, retired, bare, cooldown>>

(* _decode: the signature is that of the key, or it is not; an invalid one *)
(* is looked at a second time.                                             *)
Decode(t) ==
    /\ verification[t].at = "decode"
    /\ verification' = [verification EXCEPT ![t].at =
           IF verification[t].key = verification[t].token.generation THEN "accepted"
           ELSE IF verification[t].again THEN "refused" ELSE "invalid"]
    /\ UNCHANGED <<published, newest, retired, bare, cache, cooldown, lock, fetch>>

(* _refresh_after_invalid_signature                                        *)
RefreshCooling(t) ==
    /\ verification[t].at = "invalid" /\ lock = "free"
    /\ cooldown > 0
    /\ verification' = [verification EXCEPT ![t].at = "refused", ![t].cooled = TRUE]
    /\ UNCHANGED <<published, newest, retired, bare, cache, cooldown, lock, fetch>>

Refresh(t) ==
    /\ Acquire(t, "invalid")
    /\ cooldown = 0
    /\ Request
    /\ verification' = [verification EXCEPT ![t].at = "refreshing"]
    /\ UNCHANGED <<published, newest, retired, bare, cache, cooldown>>

(* The cooldown counts from before the request.                            *)
Cooled == IF Cooldown > Timeout - fetch.left THEN Cooldown - (Timeout - fetch.left) ELSE 0

(* Slip: the key is not resolved again.                                    *)
RefreshedUnresolved(t) ==
    /\ lock = t /\ verification[t].at = "refreshing" /\ fetch.at = "served"
    /\ Fetched
    /\ cooldown' = Cooled
    /\ lock' = "free" /\ fetch' = NoFetch
    /\ verification' = [verification EXCEPT ![t].at = "decode", ![t].again = TRUE]
    /\ UNCHANGED <<published, newest, retired, bare>>

(* An empty answer raises before the time of the refresh is noted.         *)
Refreshed(t) ==
    /\ lock = t /\ verification[t].at = "refreshing" /\ fetch.at = "served"
    /\ Fetched
    /\ lock' = "free" /\ fetch' = NoFetch
    /\ \/ /\ fetch.keys # {}
          /\ cooldown' = Cooled
          /\ verification' = [verification EXCEPT ![t].at = "resolve", ![t].again = TRUE,
                                                 ![t].asked = FALSE]
       \/ /\ fetch.keys = {}
          /\ verification' = [verification EXCEPT ![t].at = "refused"]
          /\ UNCHANGED cooldown
    /\ UNCHANGED <<published, newest, retired, bare>>

-----------------------------------------------------------------------------
(* The provider gives a kid a new key, or retires it.                      *)
Rotate(kid) ==
    /\ newest[kid] < MaxGeneration
    /\ newest' = [newest EXCEPT ![kid] = @ + 1]
    /\ published' = [published EXCEPT ![kid] = newest[kid] + 1]
Retire(kid) ==
    /\ published[kid] > 0
    /\ published' = [published EXCEPT ![kid] = 0]
    /\ UNCHANGED newest

Provider ==
    /\ \E kid \in Kids : Rotate(kid) \/ Retire(kid)
    /\ bare' = IF Published' = {} THEN 0 ELSE bare
    /\ verification' = [t \in Threads |-> [verification[t] EXCEPT !.genuine =
                  @ /\ published'[verification[t].token.kid] = verification[t].token.generation]]
    /\ UNCHANGED <<retired, cache, cooldown, lock, fetch>>

Less(left) == IF left > 0 THEN left - 1 ELSE 0
Tick ==
    /\ fetch.at = "none" \/ fetch.left > 0
    /\ fetch' = [fetch EXCEPT !.left = Less(@)]
    /\ cache' = [cache EXCEPT !.left = Less(@)]
    /\ cooldown' = Less(cooldown)
    /\ retired' = [k \in Keys |-> IF k \in Published THEN 0
                                  ELSE IF k.generation > newest[k.kid] \/ retired[k] = Horizon
                                  THEN retired[k] ELSE retired[k] + 1]
    /\ bare' = IF Published = {} THEN 0 ELSE IF bare = Horizon THEN bare ELSE bare + 1
    /\ UNCHANGED <<published, newest, lock, verification>>

VerificationNext ==
    \/ Serve \/ Provider \/ Tick
    \/ \E t \in Threads :
          \/ Verify(t) \/ ResolveFromCache(t) \/ ResolveFromEmpty(t) \/ ResolveByFetch(t)
          \/ Receive(t) \/ FetchFails(t) \/ Decode(t) \/ RefreshCooling(t) \/ Refresh(t) \/ Refreshed(t)

VerificationSpec == VerificationInit /\ [][VerificationNext]_verificationVars

-----------------------------------------------------------------------------
Verifications ==
    [at : {"idle", "resolve", "fetching", "decode", "invalid", "refreshing", "accepted", "refused"},
     token : Keys \union {NoToken}, key : 0..MaxGeneration, again : BOOLEAN, asked : BOOLEAN,
     genuine : BOOLEAN, failed : BOOLEAN, cooled : BOOLEAN, aged : 0..Horizon, bare : 0..Horizon]

VerificationTypeOK ==
    /\ published \in [Kids -> 0..MaxGeneration] /\ newest \in [Kids -> 1..MaxGeneration]
    /\ retired \in [Keys -> 0..Horizon] /\ bare \in 0..Horizon
    /\ cache \in [keys : SUBSET Keys, left : 0..Lifespan]
    /\ cooldown \in 0..Cooldown
    /\ lock \in Threads \union {"free"}
    /\ fetch \in [at : {"none", "sent", "served"}, keys : SUBSET Keys, left : 0..Timeout]
    /\ lock = "free" <=> fetch.at = "none"
    /\ verification \in [Threads -> Verifications]
    /\ \A t \in Threads : verification[t].at \in {"fetching", "refreshing"} <=> lock = t

(* A key that the provider no longer publishes is resolved no longer than  *)
(* the lifespan of the cache and one request after it was published last.  *)
RetiredKeysLapse ==
    \A t \in Threads : verification[t].at = "accepted" => verification[t].aged <= Lifespan + Timeout

(* A token whose key was published all along its verification is refused   *)
(* for one of three reasons only: a request for the keys failed; another   *)
(* verification has just used up the one forced refresh of the cooldown;   *)
(* or the provider published no key at all not longer ago than the         *)
(* lifespan of the cache and one request, and its empty set is cached.     *)
GenuineIsRefusedForCause ==
    \A t \in Threads : verification[t].at = "refused" /\ verification[t].genuine
       => \/ verification[t].failed \/ verification[t].cooled
          \/ verification[t].bare <= Lifespan + Timeout

-----------------------------------------------------------------------------
(* The inductive invariants behind both, in parts.                         *)

(* What is published is the newest generation of its kid; only a key that  *)
(* was published can have been retired; and the provider may publish none. *)
PublishedInv ==
    /\ \A kid \in Kids : published[kid] \in {0, newest[kid]}
    /\ \A k \in Keys : k \in Published \/ k.generation > newest[k.kid] => retired[k] = 0
    /\ Published = {} => bare = 0

(* A set of keys has one key of a kid. The longer a key of it has not been *)
(* published, the less is left of the request or of the cache; and so for  *)
(* an empty set and the time since no key was published.                   *)
OneKeyPerKid(keys) == \A k, l \in keys : k.kid = l.kid => k = l

AgesInv ==
    /\ OneKeyPerKid(fetch.keys) /\ OneKeyPerKid(cache.keys)
    /\ fetch.at = "served" => \A k \in fetch.keys : retired[k] + fetch.left <= Timeout
    /\ fetch.at = "served" /\ fetch.keys = {} => bare + fetch.left <= Timeout
    /\ Alive => \A k \in cache.keys : retired[k] + cache.left <= Lifespan + Timeout
    /\ Alive /\ cache.keys = {} => bare + cache.left <= Lifespan + Timeout
    /\ \A t \in Threads : verification[t].aged <= Lifespan + Timeout

(* A genuine token's key is in every set that its own request brought, and *)
(* after a forced refresh in every later one: so that it is found.         *)
GenuineInv ==
    \A t \in Threads : verification[t].genuine =>
        LET token == verification[t].token IN
        /\ token \in Published
        /\ fetch.at = "served" /\ (verification[t].again \/ lock = t) => token \in fetch.keys
        /\ verification[t].again => cache.keys = {} \/ token \in cache.keys
        /\ verification[t].again /\ verification[t].at = "decode"
               => verification[t].key = token.generation
        /\ verification[t].at = "refused" =>
              \/ verification[t].failed \/ verification[t].cooled
              \/ verification[t].bare <= Lifespan + Timeout
=============================================================================
