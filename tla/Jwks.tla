-------------------------------- MODULE Jwks --------------------------------
(***************************************************************************)
(* The signing-key cache every authenticated request reads                 *)
(* (core/auth/jwks.py).  A request whose token names a cached key takes it *)
(* at once; any other queues for an asyncio.Lock that is held across the   *)
(* network fetch, looks again once it holds it, and refetches at most once *)
(* per interval.  The identity provider publishes and retires keys on its  *)
(* own, and answers a fetch some time after it read its own key set.       *)
(***************************************************************************)
EXTENDS Integers, Sequences

CONSTANTS
    KeyIds,           \* key ids (`kid`) tokens name and the provider publishes
    Bearers,          \* the requests in flight in one API process
    RefetchInterval   \* ticks of _REFETCH_INTERVAL_SECONDS

ASSUME JwksAssumption == RefetchInterval \in Nat \ {0}

VARIABLES
    cache,       \* .keys; .age: ticks since _last_refetch_at, RefetchInterval at most
    lock,        \* the requests that hold (first) or wait for the lock
    bearer,      \* each request: where it stands and the key id it asks for
    published,   \* the provider's key set
    document,    \* what the provider has answered to the fetch under way
    attempts     \* .age: ticks since the last fetch; .closest: least gap seen

jwksVars == <<cache, lock, bearer, published, document, attempts>>

\* The startup refresh (open_jwks_cache) either filled the cache or failed and
\* left it empty; in both cases _last_refetch_at is still None, which
\* _may_refetch treats as a window that has passed.
JwksInit ==
    /\ published \in SUBSET KeyIds
    /\ cache \in [keys : {{}, published}, age : {RefetchInterval}]
    /\ lock = <<>>
    /\ bearer = [b \in Bearers |-> [at |-> "idle"]]
    /\ document = [at |-> "none", keys |-> {}]
    /\ attempts = [age |-> RefetchInterval, closest |-> RefetchInterval]

Aged(age) == IF age = RefetchInterval THEN age ELSE age + 1

may_refetch == cache.age >= RefetchInterval

AnswerBearer(b, kid) ==
    bearer' = [bearer EXCEPT ![b] = [at |-> IF kid \in cache'.keys THEN "key" ELSE "none",
                                     kid |-> kid]]

\* get_key's first look, outside of the lock.
GetKey(b, kid) ==
    /\ bearer[b].at \notin {"queued", "fetching"}
    /\ UNCHANGED <<cache, published, document, attempts>>
    /\ \/ kid \in cache.keys /\ AnswerBearer(b, kid) /\ UNCHANGED lock
       \/ /\ kid \notin cache.keys
          /\ bearer' = [bearer EXCEPT ![b] = [at |-> "queued", kid |-> kid]]
          /\ lock' = Append(lock, b)

HoldsLock(b) == lock # <<>> /\ Head(lock) = b

\* Mutants: no second look; the attempt is not stamped.
never_found(kid) == FALSE

stamp_later == UNCHANGED cache

found_under_lock(kid) == kid \in cache.keys

\* The holder looks again, and leaves with the key or without one.
LookAgain(b) ==
    /\ HoldsLock(b) /\ bearer[b].at = "queued"
    /\ found_under_lock(bearer[b].kid) \/ ~may_refetch
    /\ UNCHANGED <<cache, published, document, attempts>>
    /\ AnswerBearer(b, bearer[b].kid)
    /\ lock' = Tail(lock)

\* _last_refetch_at is set before the request goes out, whatever becomes of it.
StampAttempt == cache' = [cache EXCEPT !.age = 0]

StartRefetch(b) ==
    /\ HoldsLock(b) /\ bearer[b].at = "queued"
    /\ ~found_under_lock(bearer[b].kid) /\ may_refetch
    /\ StampAttempt
    /\ attempts' = [age |-> 0,
                    closest |-> IF attempts.age < attempts.closest
                                THEN attempts.age ELSE attempts.closest]
    /\ bearer' = [bearer EXCEPT ![b].at = "fetching"]
    /\ document' = [document EXCEPT !.at = "asked"]
    /\ UNCHANGED <<lock, published>>

ProviderReads ==
    /\ document.at = "asked"
    /\ document' = [at |-> "read", keys |-> published]
    /\ UNCHANGED <<cache, lock, bearer, published, attempts>>

\* The whole key set is replaced: a key the provider retired goes with it.
RefetchReturns(b) ==
    /\ bearer[b].at = "fetching" /\ document.at = "read"
    /\ cache' = [cache EXCEPT !.keys = document.keys]
    /\ AnswerBearer(b, bearer[b].kid)
    /\ lock' = Tail(lock) /\ document' = [at |-> "none", keys |-> {}]
    /\ UNCHANGED <<published, attempts>>

RefetchFails(b) ==
    /\ bearer[b].at = "fetching"
    /\ UNCHANGED <<cache, published, attempts>>
    /\ bearer' = [bearer EXCEPT ![b].at = "none"]
    /\ lock' = Tail(lock) /\ document' = [at |-> "none", keys |-> {}]

Rotate(keys) ==
    /\ published' = keys
    /\ UNCHANGED <<cache, lock, bearer, document, attempts>>

JwksTick ==
    /\ cache' = [cache EXCEPT !.age = Aged(@)]
    /\ attempts' = [attempts EXCEPT !.age = Aged(@)]
    /\ UNCHANGED <<lock, bearer, published, document>>

JwksNext ==
    \/ \E b \in Bearers, kid \in KeyIds : GetKey(b, kid)
    \/ \E b \in Bearers : LookAgain(b) \/ StartRefetch(b) \/ RefetchReturns(b)
                          \/ RefetchFails(b)
    \/ ProviderReads
    \/ \E keys \in SUBSET KeyIds : Rotate(keys)
    \/ JwksTick

JwksSpec == JwksInit /\ [][JwksNext]_jwksVars
-----------------------------------------------------------------------------
\* However many requests carry an unknown key id, and whether or not the
\* provider's endpoint works, two fetches begin at least an interval apart.
NoStampede == attempts.closest >= RefetchInterval

\* No request is told its key is unknown at a moment the cache holds it: one
\* that queued behind somebody else's refetch gets what that refetch brought.
CachedNotRejected ==
    [][\A b \in Bearers : bearer'[b].at = "none" /\ bearer[b].at # "none"
          => bearer'[b].kid \notin cache'.keys]_jwksVars
=============================================================================
