------------------------------ MODULE JwksCache ------------------------------
(***************************************************************************)
(* The cache of the provider's signing keys in core/auth.py.               *)
(* get_jwks_cached looks at the clock, answers from the module globals if  *)
(* they have not expired, and otherwise awaits the provider; when the      *)
(* answer arrives it overwrites the globals, dating the expiry from the    *)
(* clock it read before the request.  Callers that miss together each ask  *)
(* the provider, and an answer that comes late overwrites a newer one.     *)
(*                                                                         *)
(* The provider rotates its keys: version v of its key set is current from *)
(* since[v] until since[v + 1].                                            *)
(***************************************************************************)
EXTENDS Integers

CONSTANTS
  Caller,      \* coroutines that call get_jwks_cached, each once
  TTL,         \* JWKS_CACHE_TTL_SECONDS
  Timeout,     \* how long http_client waits for the provider
  MaxTime, MaxVersion   \* bounds: clock and rotations

ASSUME JwksAssumption ==
  /\ TTL \in Nat \ {0} /\ Timeout \in Nat /\ Timeout <= TTL
  /\ MaxTime \in Nat /\ MaxVersion \in Nat \ {0}

VARIABLES
  now,         \* datetime.now(UTC)
  published,   \* the version of the key set the provider serves
  since,       \* per version, when it became current
  cache,       \* _jwks_cache and _jwks_cache_expires; version 0 is None
  fetch        \* per caller, its progress and what it was given

cacheVars == <<now, published, since, cache, fetch>>

-----------------------------------------------------------------------------

Version == 1..MaxVersion
Clock == 0..MaxTime

NoFetch == [step |-> "idle", started |-> 0, version |-> 0, at |-> 0]

Fetch == [step : {"idle", "asked", "answered", "done", "failed"},
          started : Clock, version : 0..MaxVersion, at : Clock]

CacheTypeOK ==
  /\ now \in Clock /\ published \in Version /\ since \in [Version -> Clock]
  /\ cache \in [version : 0..MaxVersion, expires : Int]
  /\ fetch \in [Caller -> Fetch]

CacheInit ==
  /\ now = 0 /\ published = 1 /\ since = [v \in Version |-> 0]
  /\ cache = [version |-> 0, expires |-> 0]
  /\ fetch = [c \in Caller |-> NoFetch]

Hit == cache.version # 0 /\ now < cache.expires

\* get_jwks_cached up to its return on a hit, or to the await on a miss.
GetJwksCached(c) ==
  /\ fetch[c].step = "idle"
  /\ fetch' = [fetch EXCEPT ![c] =
       IF Hit THEN [step |-> "done", started |-> now, version |-> cache.version, at |-> now]
       ELSE [step |-> "asked", started |-> now, version |-> 0, at |-> 0]]
  /\ UNCHANGED <<now, published, since, cache>>

\* The provider answers with the key set it serves at that moment.
Answered(c) ==
  /\ fetch[c].step = "asked"
  /\ fetch' = [fetch EXCEPT ![c].step = "answered", ![c].version = published]
  /\ UNCHANGED <<now, published, since, cache>>

\* Mutant: the expiry is dated from the arrival of the answer.
Installed_FromNow(c) ==
  /\ fetch[c].step = "answered"
  /\ cache' = [version |-> fetch[c].version, expires |-> now + TTL]
  /\ fetch' = [fetch EXCEPT ![c].step = "done", ![c].at = now]
  /\ UNCHANGED <<now, published, since>>

\* The coroutine resumes and overwrites the globals.
Installed(c) ==
  /\ fetch[c].step = "answered"
  /\ cache' = [version |-> fetch[c].version, expires |-> fetch[c].started + TTL]
  /\ fetch' = [fetch EXCEPT ![c].step = "done", ![c].at = now]
  /\ UNCHANGED <<now, published, since>>

\* httpx.RequestError (a timeout is one), raise_for_status, or no JSON: the
\* globals stay as they are.
FetchFails(c) ==
  /\ fetch[c].step \in {"asked", "answered"}
  /\ fetch' = [fetch EXCEPT ![c].step = "failed", ![c].version = 0]
  /\ UNCHANGED <<now, published, since, cache>>

\* No request outlives the timeout of its client.
Tick ==
  /\ now < MaxTime
  /\ \A c \in Caller : fetch[c].step \in {"asked", "answered"} => now < fetch[c].started + Timeout
  /\ now' = now + 1
  /\ UNCHANGED <<published, since, cache, fetch>>

Rotate ==
  /\ published < MaxVersion
  /\ published' = published + 1
  /\ since' = [since EXCEPT ![published + 1] = now]
  /\ UNCHANGED <<now, cache, fetch>>

CacheNext ==
  \/ \E c \in Caller : GetJwksCached(c) \/ Answered(c) \/ Installed(c) \/ FetchFails(c)
  \/ Tick \/ Rotate

CacheSpec == CacheInit /\ [][CacheNext]_cacheVars

-----------------------------------------------------------------------------
(* Properties *)

\* Version v was current at some moment from a to b.
CurrentWithin(v, a, b) ==
  v \in 1..published /\ since[v] <= b /\ (v < published => since[v + 1] >= a)

\* The key set a caller is given was current within the last TTL, whichever
\* coroutine fetched it and in whatever order the answers were installed.
BoundedStaleness ==
  \A c \in Caller : fetch[c].step = "done" =>
    CurrentWithin(fetch[c].version, fetch[c].at - TTL, fetch[c].at)

=============================================================================
