----------------------------- MODULE Access_proofs -----------------------------
(* Which token, key and membership a request is judged by.                    *)
EXTENDS Access, TLAPS

-----------------------------------------------------------------------------
(* The key set a caller of get_jwks_cached is given is at most a TTL old, for *)
(* any number of callers, any TTL that is not below the timeout of a request, *)
(* and any bound on the clock and on the rotations.                           *)

\* Version v is known, was current before now, and was still current at t or later.
Since(v, t) ==
  /\ v \in 1..published /\ since[v] <= now
  /\ v < published => since[v + 1] >= t

\* What is cached was current when its expiry was dated, and what is on its way
\* when it was asked for; nobody waits longer than the timeout.
CacheInv ==
  /\ CacheTypeOK
  /\ \A v \in 1..published : since[v] <= now
  /\ cache.version # 0 => Since(cache.version, cache.expires - TTL) /\ cache.expires - TTL <= now
  /\ \A c \in Caller :
       /\ fetch[c].step \in {"asked", "answered"} =>
            fetch[c].started <= now /\ now <= fetch[c].started + Timeout
       /\ fetch[c].step = "answered" => Since(fetch[c].version, fetch[c].started)
       /\ fetch[c].step = "done" => fetch[c].at <= now

IInv == CacheInv /\ BoundedStaleness

LEMMA Widen ==
  ASSUME CacheTypeOK, NEW v \in Int, NEW s \in Int, NEW t \in Int, Since(v, s), t <= s
  PROVE  CurrentWithin(v, t, now)
BY JwksAssumption DEF CacheTypeOK, Clock, Version, Since, CurrentWithin

LEMMA InitInv == CacheInit => IInv
BY JwksAssumption
DEF CacheInit, IInv, CacheInv, CacheTypeOK, BoundedStaleness, Clock, Version, Fetch, NoFetch

\* A hit was dated less than a TTL ago, and so was current within the TTL.
LEMMA GetKeeps ==
  ASSUME IInv, NEW c \in Caller, GetJwksCached(c) PROVE IInv'
<1> USE JwksAssumption DEF IInv, CacheInv, CacheTypeOK, Clock, Version
<1>1. fetch' \in [Caller -> Fetch]
  BY DEF GetJwksCached, Fetch, Hit
<1>2. CASE Hit
  <2>1. fetch'[c] = [step |-> "done", started |-> now, version |-> cache.version, at |-> now]
    BY <1>2 DEF GetJwksCached
  <2>2. CurrentWithin(cache.version, now - TTL, now)
    BY <1>2 DEF Hit, Since, CurrentWithin
  <2>3. BoundedStaleness'
    BY <2>1, <2>2 DEF GetJwksCached, BoundedStaleness, CurrentWithin, Fetch
  <2> QED BY <1>1, <2>1, <2>3 DEF GetJwksCached, Since, Fetch
<1>3. CASE ~ Hit
  <2>1. fetch'[c] = [step |-> "asked", started |-> now, version |-> 0, at |-> 0]
    BY <1>3 DEF GetJwksCached
  <2>2. BoundedStaleness'
    BY <2>1 DEF GetJwksCached, BoundedStaleness, CurrentWithin, Fetch
  <2> QED BY <1>1, <2>1, <2>2 DEF GetJwksCached, Since, Fetch
<1> QED BY <1>2, <1>3

LEMMA AnsweredKeeps ==
  ASSUME IInv, NEW c \in Caller, Answered(c) PROVE IInv'
<1> USE JwksAssumption DEF IInv, CacheInv, CacheTypeOK, Clock, Version
<1>1. \A d \in Caller : fetch[d] \in Fetch
  OBVIOUS
<1>2. fetch' \in [Caller -> Fetch]
  <2>1. fetch[c] \in Fetch /\ published \in 0..MaxVersion
    OBVIOUS
  <2>2. [fetch[c] EXCEPT !.step = "answered", !.version = published] \in Fetch
    BY <2>1 DEF Fetch
  <2>3. fetch' = [fetch EXCEPT ![c] = [@ EXCEPT !.step = "answered", !.version = published]]
    BY DEF Answered
  <2> QED BY <2>2, <2>3
<1>3. /\ fetch'[c].step = "answered" /\ fetch'[c].version = published
      /\ fetch'[c].started = fetch[c].started /\ fetch[c].step = "asked"
      /\ \A d \in Caller : d # c => fetch'[d] = fetch[d]
  BY <1>1 DEF Answered, Fetch
<1>4. UNCHANGED <<now, published, since, cache>>
  BY DEF Answered
<1>5. BoundedStaleness'
  BY <1>3, <1>4 DEF BoundedStaleness, CurrentWithin
<1>6. Since(published, fetch[c].started)
  <2>1. since[published] \in Clock /\ published \in Version
    OBVIOUS
  <2> QED BY <2>1 DEF Since
<1> QED BY <1>2, <1>3, <1>4, <1>5, <1>6 DEF Since

\* What is installed was current when it was asked for, less than a timeout ago.
LEMMA InstalledKeeps ==
  ASSUME IInv, NEW c \in Caller, Installed(c) PROVE IInv'
<1> USE JwksAssumption DEF IInv, CacheInv, CacheTypeOK, Clock, Version
<1>1. \A d \in Caller : fetch[d] \in Fetch
  OBVIOUS
<1>2. fetch' \in [Caller -> Fetch]
  BY DEF Installed, Fetch
<1>3. /\ fetch'[c].step = "done" /\ fetch'[c].version = fetch[c].version
      /\ fetch'[c].at = now /\ fetch[c].step = "answered"
      /\ \A d \in Caller : d # c => fetch'[d] = fetch[d]
  BY <1>1 DEF Installed, Fetch
<1>4. /\ cache' = [version |-> fetch[c].version, expires |-> fetch[c].started + TTL]
      /\ UNCHANGED <<now, published, since>>
  BY DEF Installed
<1>5. /\ Since(fetch[c].version, fetch[c].started)
      /\ fetch[c].started \in 0..MaxTime /\ fetch[c].version \in 0..MaxVersion
      /\ fetch[c].started <= now /\ now <= fetch[c].started + Timeout
  BY <1>1, <1>3 DEF Fetch
<1>6. CurrentWithin(fetch[c].version, now - TTL, now)
  BY <1>5, Widen
<1>7. BoundedStaleness'
  BY <1>3, <1>4, <1>6 DEF BoundedStaleness, CurrentWithin
<1>8. /\ cache' \in [version : 0..MaxVersion, expires : Int]
      /\ cache'.expires - TTL = fetch[c].started /\ cache'.version = fetch[c].version
  BY <1>4, <1>5
<1>9. CacheTypeOK'
  BY <1>2, <1>4, <1>8
<1>10. (Since(cache.version, cache.expires - TTL) /\ cache.expires - TTL <= now)'
  BY <1>4, <1>5, <1>8 DEF Since
<1>11. ASSUME NEW d \in Caller
       PROVE (/\ fetch[d].step \in {"asked", "answered"} =>
                   fetch[d].started <= now /\ now <= fetch[d].started + Timeout
              /\ fetch[d].step = "answered" => Since(fetch[d].version, fetch[d].started)
              /\ fetch[d].step = "done" => fetch[d].at <= now)'
  <2>1. CASE d = c
    BY <1>3, <1>4, <2>1
  <2>2. CASE d # c
    BY <1>3, <1>4, <2>2 DEF Since
  <2> QED BY <2>1, <2>2
<1>12. (\A v \in 1..published : since[v] <= now)'
  BY <1>4
<1> QED BY <1>7, <1>9, <1>10, <1>11, <1>12

LEMMA FailsKeeps ==
  ASSUME IInv, NEW c \in Caller, FetchFails(c) PROVE IInv'
<1> USE JwksAssumption DEF IInv, CacheInv, CacheTypeOK, Clock, Version
<1>1. \A d \in Caller : fetch[d] \in Fetch
  OBVIOUS
<1>2. fetch' \in [Caller -> Fetch]
  <2>1. fetch[c] \in Fetch /\ 0 \in 0..MaxVersion
    OBVIOUS
  <2>2. [fetch[c] EXCEPT !.step = "failed", !.version = 0] \in Fetch
    BY <2>1 DEF Fetch
  <2>3. fetch' = [fetch EXCEPT ![c] = [@ EXCEPT !.step = "failed", !.version = 0]]
    BY DEF FetchFails
  <2> QED BY <2>2, <2>3
<1>3. fetch'[c].step = "failed" /\ \A d \in Caller : d # c => fetch'[d] = fetch[d]
  BY <1>1 DEF FetchFails, Fetch
<1>4. UNCHANGED <<now, published, since, cache>>
  BY DEF FetchFails
<1>5. BoundedStaleness'
  BY <1>3, <1>4 DEF BoundedStaleness, CurrentWithin
<1> QED BY <1>2, <1>3, <1>4, <1>5 DEF Since

LEMMA TickKeeps ==
  ASSUME IInv, Tick PROVE IInv'
<1> USE JwksAssumption DEF IInv, CacheInv, CacheTypeOK, Clock, Version
<1>1. \A c \in Caller : fetch[c] \in Fetch
  OBVIOUS
<1>2. now' = now + 1 /\ now' \in Clock /\ UNCHANGED <<published, since, cache, fetch>>
  BY DEF Tick
<1>3. BoundedStaleness'
  BY <1>2 DEF BoundedStaleness, CurrentWithin
<1>4. ASSUME NEW v, NEW t, Since(v, t) PROVE Since(v, t)'
  BY <1>2, <1>4 DEF Since
<1>5. ASSUME NEW c \in Caller, fetch[c].step \in {"asked", "answered"}
      PROVE (fetch[c].started <= now /\ now <= fetch[c].started + Timeout)'
  <2>1. fetch[c].started \in 0..MaxTime /\ now < fetch[c].started + Timeout
    BY <1>1, <1>5 DEF Tick, Fetch
  <2> QED BY <1>2, <1>5, <2>1
<1>6. ASSUME NEW c \in Caller, fetch[c].step = "done" PROVE (fetch[c].at <= now)'
  <2>1. fetch[c].at \in 0..MaxTime
    BY <1>1 DEF Fetch
  <2> QED BY <1>2, <1>6, <2>1
<1>7. (cache.version # 0 =>
         Since(cache.version, cache.expires - TTL) /\ cache.expires - TTL <= now)'
  BY <1>2, <1>4
<1>8. CacheTypeOK' /\ (\A v \in 1..published : since[v] <= now)'
  BY <1>2
<1>9. ASSUME NEW c \in Caller, fetch[c].step = "answered"
      PROVE Since(fetch[c].version, fetch[c].started)'
  BY <1>2, <1>4, <1>9
<1> QED BY <1>2, <1>3, <1>5, <1>6, <1>7, <1>8, <1>9

\* The version that is superseded was current until now.
LEMMA RotateKeeps ==
  ASSUME IInv, Rotate PROVE IInv'
<1> USE JwksAssumption DEF IInv, CacheInv, CacheTypeOK, Clock, Version
<1>1. \A c \in Caller : fetch[c] \in Fetch
  OBVIOUS
<1>2. /\ published' \in 1..MaxVersion /\ published' = published + 1
      /\ since' \in [1..MaxVersion -> 0..MaxTime]
      /\ \A v \in 1..published : since'[v] = since[v]
      /\ since'[published + 1] = now
  BY DEF Rotate
<1>3. UNCHANGED <<now, cache, fetch>>
  BY DEF Rotate
<1>4. ASSUME NEW v \in Int, NEW u \in Int, Since(v, u), u <= now PROVE Since(v, u)'
  BY <1>2, <1>3, <1>4 DEF Since
<1>5. BoundedStaleness'
  <2> SUFFICES ASSUME NEW c \in Caller, fetch[c].step = "done"
               PROVE CurrentWithin(fetch[c].version, fetch[c].at - TTL, fetch[c].at)'
    BY <1>3 DEF BoundedStaleness
  <2>1. fetch[c].version \in Int /\ fetch[c].at \in 0..MaxTime /\ fetch[c].at <= now
    BY <1>1 DEF Fetch
  <2>2. CurrentWithin(fetch[c].version, fetch[c].at - TTL, fetch[c].at)
    BY DEF BoundedStaleness
  <2>3. CASE fetch[c].version < published
    <3>1. /\ fetch[c].version \in 1..published /\ fetch[c].version + 1 \in 1..published
          /\ since[fetch[c].version] <= fetch[c].at
          /\ since[fetch[c].version + 1] >= fetch[c].at - TTL
      BY <2>1, <2>2, <2>3 DEF CurrentWithin
    <3>2. /\ since'[fetch[c].version] <= fetch[c].at
          /\ since'[fetch[c].version + 1] >= fetch[c].at - TTL
      BY <1>2, <3>1
    <3> QED BY <1>2, <1>3, <3>1, <3>2 DEF CurrentWithin
  <2>4. CASE fetch[c].version = published
    <3>1. since'[published] <= fetch[c].at /\ since'[published + 1] >= fetch[c].at - TTL
      BY <1>2, <2>1, <2>2, <2>4 DEF CurrentWithin
    <3> QED BY <1>2, <1>3, <2>1, <2>4, <3>1 DEF CurrentWithin
  <2> QED BY <2>1, <2>2, <2>3, <2>4 DEF CurrentWithin
<1>6. (cache.version # 0 => Since(cache.version, cache.expires - TTL))'
  BY <1>3, <1>4
<1>7. ASSUME NEW c \in Caller, fetch[c].step = "answered"
      PROVE Since(fetch[c].version, fetch[c].started)'
  <2>1. fetch[c].version \in Int /\ fetch[c].started \in Int
    BY <1>1 DEF Fetch
  <2> QED BY <1>3, <1>4, <1>7, <2>1
<1>8. CacheTypeOK' /\ \A v \in 1..published' : since'[v] <= now'
  <2>1. ASSUME NEW v \in 1..published' PROVE since'[v] <= now'
    <3>1. v \in 1..published \/ v = published + 1
      BY <1>2
    <3>2. QED
      BY <1>2, <1>3, <3>1
  <2>2. CacheTypeOK'
    BY <1>2, <1>3 DEF CacheTypeOK
  <2>3. QED
    BY <2>1, <2>2
<1>9. \A c \in Caller :
        /\ fetch[c].step \in {"asked", "answered"} =>
             fetch[c].started <= now /\ now <= fetch[c].started + Timeout
        /\ fetch[c].step = "done" => fetch[c].at <= now
  OBVIOUS
<1> QED BY <1>3, <1>5, <1>6, <1>7, <1>8, <1>9

LEMMA NextInv == IInv /\ [CacheNext]_cacheVars => IInv'
<1> SUFFICES ASSUME IInv, [CacheNext]_cacheVars PROVE IInv'
  OBVIOUS
<1>1. CASE UNCHANGED cacheVars
  BY <1>1 DEF cacheVars, IInv, CacheInv, CacheTypeOK, BoundedStaleness, CurrentWithin, Since
<1>2. CASE CacheNext
  BY <1>2, GetKeeps, AnsweredKeeps, InstalledKeeps, FailsKeeps, TickKeeps, RotateKeeps
  DEF CacheNext
<1> QED BY <1>1, <1>2

\* Whatever the interleaving of fetches, installs and rotations, what a caller is
\* given was current within the last TTL.
THEOREM BoundedStalenessHolds == CacheSpec => []BoundedStaleness
<1>1. IInv => BoundedStaleness
  BY DEF IInv
<1> QED BY <1>1, InitInv, NextInv, PTL DEF CacheSpec

\* The variables of the cache keep their types.
THEOREM CacheTypes == CacheSpec => []CacheTypeOK
<1>1. IInv => CacheTypeOK
  BY DEF IInv, CacheInv
<1> QED BY <1>1, InitInv, NextInv, PTL DEF CacheSpec

-----------------------------------------------------------------------------
(* Requests that go through both middlewares use the cache of signing keys as *)
(* JwksCache specifies it; what is proved of the cache alone holds of them.    *)

LEMMA StepsOfTheCache ==
  ASSUME Next PROVE [CacheNext]_cacheVars
<1>1. ASSUME NEW r \in Caller,
             \/ Dispatch(r) \/ VerifyLocal(r) \/ ValidateUserOrgAccess(r)
             \/ TenantEndpoint(r) \/ UserFromHeaders(r) \/ PublicEndpoint(r)
      PROVE UNCHANGED cacheVars
  BY <1>1 DEF Dispatch, VerifyLocal, ValidateUserOrgAccess, TenantEndpoint, UserFromHeaders,
              PublicEndpoint
<1>2. ASSUME NEW r \in Caller, VerifyOry(r) \/ VerifyAuth0(r) \/ VerifyKeycloak(r)
      PROVE UNCHANGED cacheVars
  BY <1>2 DEF VerifyOry, VerifyAuth0, VerifyKeycloak, Asks
<1>3. ASSUME NEW r \in Caller,
             VerifyCognito(r) \/ JwksAnswered(r) \/ JwksInstalled(r) \/ JwksFails(r)
      PROVE CacheNext
  BY <1>3 DEF VerifyCognito, JwksAnswered, JwksInstalled, JwksFails, CacheNext
<1>4. MembershipChanges => UNCHANGED cacheVars
  BY DEF MembershipChanges
<1>5. TimePasses \/ KeysRotate => CacheNext
  BY DEF TimePasses, KeysRotate, CacheNext
<1> QED BY <1>1, <1>2, <1>3, <1>4, <1>5 DEF Next

\* The requests use the cache as JwksCache says.
LEMMA CacheUse == Spec => CacheSpec
<1>1. Init => CacheInit
  BY DEF Init
<1>2. [Next]_vars => [CacheNext]_cacheVars
  <2>1. UNCHANGED vars => UNCHANGED cacheVars
    BY DEF vars, cacheVars
  <2> QED BY <2>1, StepsOfTheCache
<1> QED BY <1>1, <1>2, PTL DEF Spec, CacheSpec

\* A request is never judged by keys that are older than the TTL.
THEOREM RequestsSeeFreshKeys == Spec => []BoundedStaleness
BY CacheUse, BoundedStalenessHolds, PTL

-----------------------------------------------------------------------------
(* What is known of a request at each point of its way.  q is its record, f  *)
(* its use of the cache.                                                     *)

Progress == {"idle", "verify", "introspect", "jwks", "tenant", "endpoint", "done"}
Answer == {0, 200, 400, 401, 403, 500}

RequestState ==
  [pc : Progress, path : Path, token : Token \cup {none}, query : OrgClaim,
   org : Org \cup {none}, role : Role \cup {none}, held : SUBSET (Org \X Role),
   at : Clock, refused : BOOLEAN, required : Role \cup {none}, reply : Answer]

Coming(q) == q.pc \in {"verify", "introspect", "jwks"}
Passed(q) == q.pc \in {"tenant", "endpoint"} \/ q.reply = 200

\* The organization of the token goes first.
TokenOrgKept(q) == q.token.org \in Org => q.org = q.token.org

Sufficed(q) ==
  \E role \in Role : <<q.org, role>> \in q.held /\ hierarchy[role] >= hierarchy[q.required]

\* No answer before the end; until its role is read, what the user holds now (ms) is
\* among what the request may rely on; afterwards, the role that was read is.
RoleInv(q, ms) ==
  /\ q.pc # "done" => q.reply = 0
  /\ Coming(q) \/ q.pc = "tenant" => q.token \in Token \ {none} /\ ms \subseteq q.held
  /\ Coming(q) => q.role = none
  /\ q.pc = "tenant" => q.org \in Org /\ TokenOrgKept(q)
  /\ q.pc = "endpoint" /\ q.role # none => <<q.org, q.role>> \in q.held /\ TokenOrgKept(q)
  /\ q.reply = 200 /\ q.path = "/organizations" => Sufficed(q) /\ TokenOrgKept(q)

\* Past AuthMiddleware the token was looked at in its time.
TimeInv(q, s) ==
  s.auth_provider_type # "none" /\ Passed(q) /\ q.path \notin public_paths =>
    q.token \in Token \ {none} /\ InItsTime(q.token, q.at)

OnlyJwks(s) == s.auth_provider_type = "cognito" /\ s.jwt_public_key = none

\* Past the cache the key of the token is one of the set that the request was given;
\* a token that was refused without fault of its own is not.
KeyInv(q, f, s) ==
  /\ f.step # "idle" => OnlyJwks(s)
  /\ f.step \in {"asked", "answered"} => q.pc = "jwks"
  /\ q.pc \in {"idle", "verify"} => f.step = "idle"
  /\ f.step = "done" /\ Passed(q) /\ q.path \notin public_paths =>
       q.at = f.at /\ q.token.key \in KeysOf(f.version) /\ ~ q.token.aud
  /\ q.refused =>
       /\ q.pc = "done" /\ q.reply = 401 /\ f.step = "done" /\ q.at = f.at
       /\ q.token.key # none /\ q.token.kid = q.token.key /\ ~ q.token.aud
          /\ q.token.begins <= q.at /\ q.at < q.token.expires
            => q.token.key \notin KeysOf(f.version)

RequestInv(q, f, s, ms) == RoleInv(q, ms) /\ TimeInv(q, s) /\ KeyInv(q, f, s)

RequestsInv == \A r \in Caller : RequestInv(req[r], fetch[r], settings, Memberships)

AccessTypes ==
  /\ settings \in Settings /\ membership \in [Org -> Role \cup {none}] /\ changes \in 0..MaxChanges
  /\ req \in [Caller -> RequestState]

AccessInv == IInv /\ AccessTypes /\ RequestsInv

-----------------------------------------------------------------------------
(* The answers.                                                              *)

LEMMA FieldUpdates ==
  ASSUME NEW x \in RequestState
  PROVE  /\ \A v \in Progress : [x EXCEPT !.pc = v] \in RequestState
         /\ \A v \in Token \cup {none} : [x EXCEPT !.token = v] \in RequestState
         /\ \A v \in Clock : [x EXCEPT !.at = v] \in RequestState
         /\ \A v \in BOOLEAN : [x EXCEPT !.refused = v] \in RequestState
<1>1. \A v \in Progress : [x EXCEPT !.pc = v] \in RequestState
  BY DEF RequestState
<1>2. \A v \in Token \cup {none} : [x EXCEPT !.token = v] \in RequestState
  BY DEF RequestState
<1>3. \A v \in Clock : [x EXCEPT !.at = v] \in RequestState
  BY DEF RequestState
<1>4. \A v \in BOOLEAN : [x EXCEPT !.refused = v] \in RequestState
  BY DEF RequestState
<1>5. QED
  BY <1>1, <1>2, <1>3, <1>4

LEMMA IdleState == Idle \in RequestState
BY JwksAssumption DEF Idle, RequestState, Progress, Answer, Path, OrgClaim, Clock

LEMMA RefusalState ==
  ASSUME NEW q, NEW reply \in Answer, reply # 200
  PROVE  /\ Replied(q, reply) \in RequestState
         /\ Replied(q, reply).pc = "done" /\ Replied(q, reply).reply = reply
         /\ ~ Replied(q, reply).refused
<1>1. Replied(q, reply) = [Idle EXCEPT !.pc = "done", !.reply = reply]
  BY DEF Replied
<1>2. Idle \in RequestState /\ ~ Idle.refused
  BY IdleState DEF Idle
<1>3. Replied(q, reply) \in RequestState
  <2>1. "done" \in Progress
    BY DEF Progress
  <2>2. QED
    BY <1>1, <1>2, <2>1 DEF RequestState
<1>4. QED
  BY <1>1, <1>2, <1>3 DEF Idle

(* A refusal by the keys remembers the token. *)
Marked(q, at) == [Replied(q, 401) EXCEPT !.token = q.token, !.at = at, !.refused = TRUE]

LEMMA MarkedState ==
  ASSUME NEW q, q.token \in Token, NEW at \in Clock
  PROVE  /\ Marked(q, at) \in RequestState
         /\ Marked(q, at).pc = "done" /\ Marked(q, at).reply = 401
         /\ Marked(q, at).refused /\ Marked(q, at).at = at
         /\ Marked(q, at).token = q.token
<1>1. \A reply \in Answer \ {200} :
        /\ Replied(q, reply) \in RequestState
        /\ Replied(q, reply).pc = "done" /\ Replied(q, reply).reply = reply
  BY RefusalState
<1>2. /\ Replied(q, 401) \in RequestState
      /\ Replied(q, 401).pc = "done" /\ Replied(q, 401).reply = 401
  BY <1>1 DEF Answer
<1>3. Marked(q, at) \in RequestState
  <2> DEFINE held == [Replied(q, 401) EXCEPT !.token = q.token]
             dated == [held EXCEPT !.at = at]
             marked == [dated EXCEPT !.refused = TRUE]
  <2>1. held \in RequestState
    BY <1>2, FieldUpdates
  <2>2. dated \in RequestState
    <3> HIDE DEF held
    <3> QED BY <2>1, FieldUpdates
  <2>3. marked \in RequestState
    <3> HIDE DEF dated
    <3>1. TRUE \in BOOLEAN
      OBVIOUS
    <3>2. QED
      BY <2>2, <3>1, FieldUpdates, Zenon
  <2>4. QED
    BY <2>3 DEF Marked
<1>4. /\ Marked(q, at).at = at /\ Marked(q, at).token = q.token
      /\ Marked(q, at).pc = "done" /\ Marked(q, at).reply = 401
  BY <1>2 DEF Marked, RequestState
<1>5. Marked(q, at).refused
  BY <1>2 DEF Marked, RequestState
<1>6. QED
  BY <1>3, <1>4, <1>5

LEMMA EndInv ==
  ASSUME NEW q, q.pc = "done", q.reply # 200, ~ q.refused, NEW f, NEW s, NEW ms,
         f.step # "idle" => OnlyJwks(s), f.step \notin {"asked", "answered"}
  PROVE  RequestInv(q, f, s, ms)
BY DEF RequestInv, RoleInv, TimeInv, KeyInv, Coming, Passed

LEMMA RefusalInv ==
  ASSUME NEW q, NEW reply \in Answer, reply # 200, NEW f, NEW s, NEW ms,
         f.step # "idle" => OnlyJwks(s), f.step \notin {"asked", "answered"}
  PROVE  Replied(q, reply) \in RequestState /\ RequestInv(Replied(q, reply), f, s, ms)
<1> DEFINE x == Replied(q, reply)
<1>1. x \in RequestState /\ x.pc = "done" /\ x.reply = reply /\ ~ x.refused
  BY RefusalState
<1> HIDE DEF x
<1>2. RequestInv(x, f, s, ms)
  BY <1>1, EndInv
<1>3. QED
  BY <1>1, <1>2 DEF x

LEMMA Refusals ==
  400 \in Answer /\ 401 \in Answer /\ 403 \in Answer /\ 500 \in Answer
BY DEF Answer

(* What is known of a request when its token was verified. *)
Verified(q, f, s, ms) ==
  /\ q \in RequestState /\ q.reply = 0 /\ ~ q.refused /\ q.role = none
  /\ q.token \in Token \ {none} /\ ms \subseteq q.held
  /\ InItsTime(q.token, q.at)
  /\ f.step # "idle" => OnlyJwks(s)
  /\ f.step \notin {"asked", "answered"}
  /\ f.step = "done" => q.at = f.at /\ q.token.key \in KeysOf(f.version) /\ ~ q.token.aud

LEMMA TenantContextInv ==
  ASSUME NEW q, NEW f, NEW ms, Verified(q, f, settings, ms)
  PROVE  /\ validate_tenant_context(q) \in RequestState
         /\ RequestInv(validate_tenant_context(q), f, settings, ms)
<1> DEFINE org == requested_org(q)
           next == [q EXCEPT !.pc = "tenant", !.org = org]
<1>1. CASE org \in {none, malformed}
  <2>1. validate_tenant_context(q) \in {Replied(q, 400), Replied(q, 403)}
    BY <1>1 DEF validate_tenant_context
  <2>2. \A reply \in Answer \ {200} :
          Replied(q, reply) \in RequestState /\ RequestInv(Replied(q, reply), f, settings, ms)
    BY RefusalInv DEF Verified
  <2>3. QED
    BY <2>1, <2>2, Refusals
<1>2. CASE org \notin {none, malformed}
  <2>1. validate_tenant_context(q) = next
    BY <1>2 DEF validate_tenant_context
  <2>2. org \in Org /\ (q.token.org \in Org => org = q.token.org)
    BY <1>2, AccessAssumption
      DEF requested_org, extract_org_id_from_path, Verified, RequestState, OrgClaim, TokenRecord
  <2>3. next \in RequestState
    BY <2>2 DEF Verified, RequestState, Progress
  <2>4. /\ next.pc = "tenant" /\ next.org = org /\ next.token = q.token /\ next.held = q.held
        /\ next.at = q.at /\ next.reply = 0 /\ ~ next.refused /\ next.path = q.path
    BY DEF Verified, RequestState
  <2> HIDE DEF next
  <2>5. RoleInv(next, ms)
    BY <2>2, <2>4 DEF RoleInv, Coming, TokenOrgKept, Verified
  <2>6. TimeInv(next, settings) /\ KeyInv(next, f, settings)
    BY <2>4 DEF TimeInv, KeyInv, Verified
  <2>7. QED
    BY <2>1, <2>3, <2>5, <2>6 DEF RequestInv
<1>3. QED
  BY <1>1, <1>2

LEMMA ClaimsInv ==
  ASSUME NEW q, NEW f, NEW ms, Verified(q, f, settings, ms)
  PROVE  /\ extract_user_from_claims(q) \in RequestState
         /\ RequestInv(extract_user_from_claims(q), f, settings, ms)
<1> DEFINE next == [q EXCEPT !.pc = "endpoint"]
<1>1. CASE extract_user_from_claims(q) = Replied(q, 401)
  BY <1>1, RefusalInv, Refusals DEF Verified
<1>2. CASE extract_user_from_claims(q) = validate_tenant_context(q)
  BY <1>2, TenantContextInv
<1>3. CASE extract_user_from_claims(q) = next
  <2>1. next \in RequestState
    BY DEF Verified, RequestState, Progress
  <2>2. /\ next.pc = "endpoint" /\ next.role = none /\ next.token = q.token
        /\ next.at = q.at /\ next.reply = 0 /\ ~ next.refused /\ next.path = q.path
    BY DEF Verified, RequestState
  <2> HIDE DEF next
  <2>3. RequestInv(next, f, settings, ms)
    BY <2>2 DEF RequestInv, RoleInv, TimeInv, KeyInv, Coming, Verified
  <2>4. QED
    BY <1>3, <2>1, <2>3
<1>4. QED
  BY <1>1, <1>2, <1>3 DEF extract_user_from_claims, TenantDispatch

(* A token against the key set that the request was given just now. *)
LEMMA JudgedInv ==
  ASSUME NEW q \in RequestState, NEW f, NEW ms, now \in Clock,
         Coming(q), RoleInv(q, ms), ~ q.refused,
         f.step = "done", f.at = now, OnlyJwks(settings)
  PROVE  /\ Judged(q, f.version) \in RequestState
         /\ RequestInv(Judged(q, f.version), f, settings, ms)
<1> DEFINE key == find_public_key_in_jwks(f.version, q.token.kid)
           seen == [q EXCEPT !.at = now]
           refusal == Marked(q, now)
<1>1. q.token \in Token \ {none} /\ q.token \in TokenRecord /\ ms \subseteq q.held
      /\ q.role = none /\ q.reply = 0
  BY AccessAssumption DEF RoleInv, Coming
<1>2. CASE q.token.kid # none /\ decodes(q.token, key, now)
  <2>1. Judged(q, f.version) = extract_user_from_claims(seen)
    BY <1>2 DEF Judged
  <2>2. q.token.key \in KeysOf(f.version) /\ ~ q.token.aud /\ InItsTime(q.token, now)
    BY <1>2 DEF decodes, find_public_key_in_jwks
  <2>3. seen \in RequestState /\ seen.at = now /\ seen.token = q.token /\ seen.held = q.held
        /\ seen.role = none /\ seen.reply = 0 /\ ~ seen.refused
    BY <1>1 DEF RequestState
  <2>4. Verified(seen, f, settings, ms)
    BY <1>1, <2>2, <2>3 DEF Verified
  <2>5. QED
    BY <2>1, <2>4, ClaimsInv
<1>3. CASE ~ (q.token.kid # none /\ decodes(q.token, key, now))
  <2>1. Judged(q, f.version) = refusal
    BY <1>3 DEF Judged, Marked
  <2>2. /\ refusal \in RequestState
        /\ refusal.pc = "done" /\ refusal.reply = 401 /\ refusal.refused
        /\ refusal.at = now /\ refusal.token = q.token
    BY <1>1, MarkedState
  <2>3. ASSUME q.token.key # none, q.token.kid = q.token.key, ~ q.token.aud,
               q.token.begins <= now, now < q.token.expires, q.token.key \in KeysOf(f.version)
        PROVE  FALSE
    BY <1>1, <1>3, <2>3, AccessAssumption, JwksAssumption
      DEF decodes, InItsTime, find_public_key_in_jwks, TokenRecord, Clock
  <2> HIDE DEF refusal
  <2>4. RequestInv(refusal, f, settings, ms)
    BY <2>2, <2>3 DEF RequestInv, RoleInv, TimeInv, KeyInv, Coming, Passed
  <2>5. QED
    BY <2>1, <2>2, <2>4
<1>4. QED
  BY <1>2, <1>3

-----------------------------------------------------------------------------
(* The steps.                                                                *)

LEMMA StepOf ==
  ASSUME AccessTypes, RequestsInv, NEW r \in Caller, NEW q \in RequestState, Becomes(r, q),
         \A c \in Caller \ {r} : fetch'[c] = fetch[c],
         UNCHANGED <<settings, membership, changes>>,
         RequestInv(q, fetch'[r], settings, Memberships)
  PROVE  AccessTypes' /\ RequestsInv'
<1>1. req' = [req EXCEPT ![r] = q] /\ req \in [Caller -> RequestState]
  BY DEF Becomes, AccessTypes
<1>2. AccessTypes'
  BY <1>1 DEF AccessTypes
<1>3. Memberships' = Memberships
  BY DEF Memberships
<1>4. ASSUME NEW c \in Caller PROVE RequestInv(req'[c], fetch'[c], settings', Memberships')
  <2>1. CASE c = r
    BY <1>1, <1>3, <2>1
  <2>2. CASE c # r
    <3>1. req'[c] = req[c] /\ fetch'[c] = fetch[c]
      BY <1>1, <2>2
    <3>2. RequestInv(req[c], fetch[c], settings, Memberships)
      BY DEF RequestsInv
    <3>3. QED
      BY <1>3, <3>1, <3>2
  <2>3. QED
    BY <2>1, <2>2
<1>5. QED
  BY <1>2, <1>4 DEF RequestsInv

LEMMA OneRequest ==
  ASSUME AccessTypes, RequestsInv, NEW r \in Caller
  PROVE  /\ req[r] \in RequestState
         /\ RoleInv(req[r], Memberships) /\ TimeInv(req[r], settings)
         /\ KeyInv(req[r], fetch[r], settings)
BY DEF AccessTypes, RequestsInv, RequestInv

LEMMA RefusalKeeps ==
  ASSUME AccessTypes, RequestsInv, NEW r \in Caller, NEW q,
         \E reply \in Answer \ {200} : Becomes(r, Replied(q, reply)),
         \A c \in Caller \ {r} : fetch'[c] = fetch[c],
         UNCHANGED <<settings, membership, changes>>,
         fetch'[r].step \notin {"asked", "answered"},
         fetch'[r].step # "idle" => OnlyJwks(settings)
  PROVE  AccessTypes' /\ RequestsInv'
<1>1. PICK reply \in Answer \ {200} : Becomes(r, Replied(q, reply))
  OBVIOUS
<1>2. /\ Replied(q, reply) \in RequestState
      /\ RequestInv(Replied(q, reply), fetch'[r], settings, Memberships)
  BY RefusalInv
<1>3. QED
  BY <1>1, <1>2, StepOf

LEMMA DispatchKeeps ==
  ASSUME AccessTypes, RequestsInv, NEW r \in Caller, Dispatch(r)
  PROVE  AccessTypes' /\ RequestsInv'
<1> DEFINE f == fetch[r]
           open(s) == TenantDispatch([Idle EXCEPT !.path = s.path], FALSE)
           begun(s) == [Idle EXCEPT !.pc = "verify", !.path = s.path, !.token = s.token,
                                    !.query = s.query, !.held = Memberships]
<1>1. f.step = "idle" /\ fetch' = fetch /\ UNCHANGED <<settings, membership, changes>>
  BY OneRequest DEF Dispatch, cacheVars, KeyInv
<1>2. PICK s \in Request :
        Becomes(r, IF settings.auth_provider_type = "none" \/ s.path \in public_paths
                   THEN open(s)
                   ELSE IF s.token = none THEN Replied(Idle, 401) ELSE begun(s))
  BY DEF Dispatch
<1>3. s.path \in Path /\ s.token \in Token \cup {none} /\ s.query \in OrgClaim
  BY AccessAssumption
<1>4. Memberships \in SUBSET (Org \X Role)
  BY DEF Memberships, AccessTypes
<1>5. CASE settings.auth_provider_type = "none" \/ s.path \in public_paths
  <2> DEFINE next == [[Idle EXCEPT !.path = s.path] EXCEPT !.pc = "endpoint"]
  <2>1. open(s) = next \/ \E q : open(s) = Replied(q, 401)
    BY DEF TenantDispatch
  <2>2. CASE open(s) = next
    <3>1. next \in RequestState
      BY IdleState, <1>3 DEF RequestState, Progress
    <3>2. /\ next.pc = "endpoint" /\ next.path = s.path /\ next.role = none
          /\ next.reply = 0 /\ ~ next.refused
      BY DEF Idle
    <3> HIDE DEF next
    <3>3. RequestInv(next, f, settings, Memberships)
      BY <1>1, <1>5, <3>2 DEF RequestInv, RoleInv, TimeInv, KeyInv, Coming
    <3>4. Becomes(r, next)
      BY <1>2, <1>5, <2>2
    <3>5. QED
      BY <1>1, <3>1, <3>3, <3>4, StepOf
  <2>3. CASE \E q : open(s) = Replied(q, 401)
    <3>1. PICK q : Becomes(r, Replied(q, 401))
      BY <1>2, <1>5, <2>3
    <3>2. QED
      BY <1>1, <3>1, Refusals, RefusalKeeps
  <2>4. QED
    BY <2>1, <2>2, <2>3
<1>6. CASE ~ (settings.auth_provider_type = "none" \/ s.path \in public_paths) /\ s.token = none
  <2>1. Becomes(r, Replied(Idle, 401))
    BY <1>2, <1>6
  <2>2. QED
    BY <1>1, <2>1, Refusals, RefusalKeeps
<1>7. CASE ~ (settings.auth_provider_type = "none" \/ s.path \in public_paths) /\ s.token # none
  <2> DEFINE next == begun(s)
  <2>1. next \in RequestState
    BY IdleState, <1>3, <1>4 DEF RequestState, Progress
  <2>2. /\ next.pc = "verify" /\ next.role = none /\ next.token = s.token
        /\ next.held = Memberships /\ next.reply = 0 /\ ~ next.refused
    BY DEF Idle
  <2> HIDE DEF next
  <2>3. RequestInv(next, f, settings, Memberships)
    BY <1>1, <1>3, <1>7, <2>2 DEF RequestInv, RoleInv, TimeInv, KeyInv, Coming, Passed
  <2>4. Becomes(r, next)
    BY <1>2, <1>7 DEF next
  <2>5. QED
    BY <1>1, <2>1, <2>3, <2>4, StepOf
<1>8. QED
  BY <1>5, <1>6, <1>7

(* The token was verified at this moment, without the cache. *)
LEMMA VerifiedNow ==
  ASSUME AccessTypes, RequestsInv, NEW r \in Caller, Coming(req[r]), now \in Clock,
         fetch[r].step = "idle", InItsTime(req[r].token, now)
  PROVE  Verified([req[r] EXCEPT !.at = now], fetch[r], settings, Memberships)
<1> DEFINE q == [req[r] EXCEPT !.at = now]
<1>1. /\ req[r] \in RequestState /\ RoleInv(req[r], Memberships)
      /\ KeyInv(req[r], fetch[r], settings)
  BY OneRequest
<1>2. /\ req[r].reply = 0 /\ req[r].role = none /\ ~ req[r].refused
      /\ req[r].token \in Token \ {none} /\ Memberships \subseteq req[r].held
  BY <1>1 DEF RoleInv, KeyInv, Coming
<1>3. q \in RequestState
  BY <1>1, FieldUpdates
<1>4. /\ q.reply = req[r].reply /\ q.role = req[r].role /\ q.refused = req[r].refused
      /\ q.token = req[r].token /\ q.held = req[r].held /\ q.at = now
  BY <1>1 DEF RequestState
<1> HIDE DEF q
<1>5. Verified(q, fetch[r], settings, Memberships)
  BY <1>2, <1>3, <1>4 DEF Verified
<1>6. QED
  BY <1>5 DEF q

LEMMA VerifyLocalKeeps ==
  ASSUME AccessTypes, RequestsInv, now \in Clock, NEW r \in Caller, VerifyLocal(r)
  PROVE  AccessTypes' /\ RequestsInv'
<1> DEFINE q == [req[r] EXCEPT !.at = now]
<1>1. /\ req[r] \in RequestState /\ RoleInv(req[r], Memberships)
      /\ TimeInv(req[r], settings) /\ KeyInv(req[r], fetch[r], settings)
  BY OneRequest
<1>2. /\ req[r].pc = "verify" /\ Coming(req[r]) /\ fetch[r].step = "idle"
      /\ fetch' = fetch /\ UNCHANGED <<settings, membership, changes>>
  BY <1>1 DEF VerifyLocal, cacheVars, KeyInv, Coming
<1>3. q.token = req[r].token
  BY <1>1 DEF RequestState
<1>4. CASE verify_token_local(q.token, now) /\ Becomes(r, extract_user_from_claims(q))
  <2>1. InItsTime(req[r].token, now)
    BY <1>3, <1>4 DEF verify_token_local, decodes
  <2>2. Verified(q, fetch[r], settings, Memberships)
    BY <1>2, <2>1, VerifiedNow
  <2> HIDE DEF q
  <2>3. /\ extract_user_from_claims(q) \in RequestState
        /\ RequestInv(extract_user_from_claims(q), fetch[r], settings, Memberships)
    BY <2>2, ClaimsInv
  <2>4. QED
    BY <1>2, <1>4, <2>3, StepOf
<1>5. CASE Becomes(r, Replied(q, 401))
  <2> HIDE DEF q
  <2>1. QED
    BY <1>2, <1>5, Refusals, RefusalKeeps
<1>6. CASE Becomes(r, [q EXCEPT !.pc = "introspect"])
  <2> DEFINE next == [q EXCEPT !.pc = "introspect"]
  <2>1. next \in RequestState
    BY <1>1, FieldUpdates DEF Progress
  <2>2. /\ next.pc = "introspect" /\ next.token = req[r].token /\ next.held = req[r].held
        /\ next.role = req[r].role /\ next.reply = req[r].reply
    BY <1>1 DEF RequestState
  <2>3. next.refused <=> req[r].refused
    BY <1>1 DEF RequestState
  <2> HIDE DEF next
  <2>4. RequestInv(next, fetch[r], settings, Memberships)
    BY <1>1, <1>2, <2>2, <2>3 DEF RequestInv, RoleInv, TimeInv, KeyInv, Coming, Passed
  <2>5. Becomes(r, next)
    BY <1>6 DEF next
  <2>6. QED
    BY <1>2, <2>1, <2>4, <2>5, StepOf
<1>7. QED
  BY <1>4, <1>5, <1>6 DEF VerifyLocal

LEMMA AsksKeeps ==
  ASSUME AccessTypes, RequestsInv, now \in Clock, NEW r \in Caller,
         VerifyOry(r) \/ VerifyAuth0(r) \/ VerifyKeycloak(r)
  PROVE  AccessTypes' /\ RequestsInv'
<1> DEFINE q == [req[r] EXCEPT !.at = now]
<1>1. /\ req[r] \in RequestState /\ RoleInv(req[r], Memberships)
      /\ TimeInv(req[r], settings) /\ KeyInv(req[r], fetch[r], settings)
  BY OneRequest
<1>2. PICK p \in {"ory", "auth0", "keycloak"} : Asks(r, p, Introspected(req[r].token))
  BY DEF VerifyOry, VerifyAuth0, VerifyKeycloak
<1>3. /\ req[r].pc = "introspect" /\ Coming(req[r]) /\ ~ OnlyJwks(settings)
      /\ fetch' = fetch /\ UNCHANGED <<settings, membership, changes>>
  BY <1>2 DEF Asks, cacheVars, Coming, OnlyJwks
<1>4. fetch[r].step = "idle"
  BY <1>1, <1>3 DEF KeyInv
<1>5. CASE Introspected(req[r].token) /\ Becomes(r, extract_user_from_claims(q))
  <2>1. req[r].token \in TokenRecord
    BY <1>1, <1>3, AccessAssumption DEF RoleInv
  <2>2. InItsTime(req[r].token, now)
    BY <1>5, <2>1, AccessAssumption, JwksAssumption DEF Introspected, InItsTime, TokenRecord, Clock
  <2>3. Verified(q, fetch[r], settings, Memberships)
    BY <1>3, <1>4, <2>2, VerifiedNow
  <2> HIDE DEF q
  <2>4. /\ extract_user_from_claims(q) \in RequestState
        /\ RequestInv(extract_user_from_claims(q), fetch[r], settings, Memberships)
    BY <2>3, ClaimsInv
  <2>5. QED
    BY <1>3, <1>5, <2>4, StepOf
<1>6. CASE \E reply \in {401, 500} : Becomes(r, Replied(q, reply))
  <2> HIDE DEF q
  <2>1. QED
    BY <1>3, <1>4, <1>6, Refusals, RefusalKeeps
<1>7. QED
  BY <1>2, <1>5, <1>6 DEF Asks

LEMMA ValidateKeeps ==
  ASSUME AccessTypes, RequestsInv, NEW r \in Caller, ValidateUserOrgAccess(r)
  PROVE  AccessTypes' /\ RequestsInv'
<1> DEFINE role == membership[req[r].org]
           next == [req[r] EXCEPT !.pc = "endpoint", !.role = role]
<1>1. /\ req[r] \in RequestState /\ RoleInv(req[r], Memberships)
      /\ TimeInv(req[r], settings) /\ KeyInv(req[r], fetch[r], settings)
  BY OneRequest
<1>2. /\ req[r].pc = "tenant" /\ fetch' = fetch /\ UNCHANGED <<settings, membership, changes>>
  BY DEF ValidateUserOrgAccess, cacheVars
<1>3. /\ req[r].org \in Org /\ TokenOrgKept(req[r]) /\ Memberships \subseteq req[r].held
      /\ req[r].reply = 0 /\ ~ req[r].refused
      /\ fetch[r].step \notin {"asked", "answered"}
      /\ fetch[r].step # "idle" => OnlyJwks(settings)
  BY <1>1, <1>2 DEF RoleInv, KeyInv
<1>4. CASE role = none /\ Becomes(r, Replied(req[r], 403))
  BY <1>2, <1>3, <1>4, Refusals, RefusalKeeps
<1>5. CASE role # none /\ Becomes(r, next)
  <2>1. role \in Role /\ <<req[r].org, role>> \in Memberships
    BY <1>3, <1>5 DEF AccessTypes, Memberships
  <2>2. next \in RequestState
    BY <1>1, <2>1 DEF RequestState, Progress
  <2>3. /\ next.pc = "endpoint" /\ next.role = role /\ next.org = req[r].org
        /\ next.token = req[r].token /\ next.held = req[r].held /\ next.at = req[r].at
        /\ next.path = req[r].path /\ next.reply = req[r].reply
    BY <1>1 DEF RequestState
  <2>4. next.refused <=> req[r].refused
    BY <1>1 DEF RequestState
  <2> HIDE DEF next
  <2>5. RoleInv(next, Memberships)
    BY <1>3, <2>1, <2>3 DEF RoleInv, Coming, TokenOrgKept
  <2>6. TimeInv(next, settings)
    BY <1>1, <1>2, <2>3 DEF TimeInv, Passed
  <2>7. KeyInv(next, fetch[r], settings)
    BY <1>1, <1>2, <1>3, <2>3, <2>4 DEF KeyInv, Passed
  <2>8. QED
    BY <1>2, <1>5, <2>2, <2>5, <2>6, <2>7, StepOf DEF RequestInv
<1>6. QED
  BY <1>4, <1>5 DEF ValidateUserOrgAccess

(* The cache. *)
LEMMA VerifyCognitoKeeps ==
  ASSUME AccessTypes, RequestsInv, CacheTypeOK, NEW r \in Caller, VerifyCognito(r)
  PROVE  AccessTypes' /\ RequestsInv'
<1> DEFINE next == [req[r] EXCEPT !.pc = "jwks"]
<1>1. /\ req[r] \in RequestState /\ RoleInv(req[r], Memberships)
      /\ TimeInv(req[r], settings) /\ KeyInv(req[r], fetch[r], settings)
  BY OneRequest
<1>2. /\ req[r].pc = "verify" /\ Coming(req[r]) /\ OnlyJwks(settings)
      /\ UNCHANGED <<settings, membership, changes>>
  BY DEF VerifyCognito, Coming, OnlyJwks
<1>3. now \in Clock /\ fetch \in [Caller -> Fetch]
  BY DEF CacheTypeOK
<1>4. \A c \in Caller \ {r} : fetch'[c] = fetch[c]
  BY <1>3 DEF VerifyCognito, GetJwksCached
<1>5. ~ req[r].refused /\ req[r].reply = 0 /\ req[r].role = none
  BY <1>1, <1>2 DEF KeyInv, RoleInv
<1>6. CASE Hit
  <2>1. fetch'[r].step = "done" /\ fetch'[r].version = cache.version /\ fetch'[r].at = now
    BY <1>3, <1>6 DEF VerifyCognito, GetJwksCached
  <2>2. Becomes(r, Judged(req[r], fetch'[r].version))
    BY <1>6, <2>1 DEF VerifyCognito
  <2>3. /\ Judged(req[r], fetch'[r].version) \in RequestState
        /\ RequestInv(Judged(req[r], fetch'[r].version), fetch'[r], settings, Memberships)
    BY <1>1, <1>2, <1>3, <1>5, <2>1, JudgedInv
  <2>4. QED
    BY <1>2, <1>4, <2>2, <2>3, StepOf
<1>7. CASE ~ Hit
  <2>1. fetch'[r].step = "asked"
    BY <1>3, <1>7 DEF VerifyCognito, GetJwksCached
  <2>2. Becomes(r, next)
    BY <1>7 DEF VerifyCognito
  <2>3. next \in RequestState
    BY <1>1, FieldUpdates DEF Progress
  <2>4. /\ next.pc = "jwks" /\ next.token = req[r].token /\ next.held = req[r].held
        /\ next.role = req[r].role /\ next.reply = req[r].reply
    BY <1>1 DEF RequestState
  <2>5. next.refused <=> req[r].refused
    BY <1>1 DEF RequestState
  <2> HIDE DEF next
  <2>6. RequestInv(next, fetch'[r], settings, Memberships)
    BY <1>1, <1>2, <1>5, <2>1, <2>4, <2>5 DEF RequestInv, RoleInv, TimeInv, KeyInv, Coming, Passed
  <2>7. QED
    BY <1>2, <1>4, <2>2, <2>3, <2>6, StepOf
<1>8. QED
  BY <1>6, <1>7

LEMMA JwksAnsweredKeeps ==
  ASSUME AccessTypes, RequestsInv, CacheTypeOK, NEW r \in Caller, JwksAnswered(r)
  PROVE  AccessTypes' /\ RequestsInv'
<1>1. fetch \in [Caller -> Fetch] /\ req \in [Caller -> RequestState]
  BY DEF CacheTypeOK, AccessTypes
<1>2. /\ req' = req /\ UNCHANGED <<settings, membership, changes>>
      /\ fetch[r].step = "asked" /\ fetch'[r].step = "answered"
      /\ \A c \in Caller \ {r} : fetch'[c] = fetch[c]
  BY <1>1 DEF JwksAnswered, Answered, Fetch
<1>3. Becomes(r, req[r])
  BY <1>1, <1>2 DEF Becomes
<1>4. RequestInv(req[r], fetch'[r], settings, Memberships)
  <2>1. KeyInv(req[r], fetch'[r], settings)
    BY <1>2, OneRequest DEF KeyInv
  <2>2. QED
    BY <2>1, OneRequest DEF RequestInv
<1>5. QED
  BY <1>2, <1>3, <1>4, OneRequest, StepOf

LEMMA JwksInstalledKeeps ==
  ASSUME AccessTypes, RequestsInv, CacheTypeOK, NEW r \in Caller, JwksInstalled(r)
  PROVE  AccessTypes' /\ RequestsInv'
<1>1. /\ req[r] \in RequestState /\ RoleInv(req[r], Memberships)
      /\ KeyInv(req[r], fetch[r], settings)
  BY OneRequest
<1>2. now \in Clock /\ fetch \in [Caller -> Fetch]
  BY DEF CacheTypeOK
<1>3. /\ fetch[r].step = "answered" /\ UNCHANGED <<settings, membership, changes>>
      /\ fetch'[r].step = "done" /\ fetch'[r].version = fetch[r].version /\ fetch'[r].at = now
      /\ \A c \in Caller \ {r} : fetch'[c] = fetch[c]
  BY <1>2 DEF JwksInstalled, Installed, Fetch
<1>4. Coming(req[r]) /\ OnlyJwks(settings) /\ ~ req[r].refused
  BY <1>1, <1>3 DEF KeyInv, Coming
<1>5. /\ Judged(req[r], fetch'[r].version) \in RequestState
      /\ RequestInv(Judged(req[r], fetch'[r].version), fetch'[r], settings, Memberships)
  BY <1>1, <1>2, <1>3, <1>4, JudgedInv
<1>6. Becomes(r, Judged(req[r], fetch'[r].version))
  BY <1>3 DEF JwksInstalled
<1>7. QED
  BY <1>3, <1>5, <1>6, StepOf

LEMMA JwksFailsKeeps ==
  ASSUME AccessTypes, RequestsInv, CacheTypeOK, NEW r \in Caller, JwksFails(r)
  PROVE  AccessTypes' /\ RequestsInv'
<1>1. fetch \in [Caller -> Fetch]
  BY DEF CacheTypeOK
<1>2. /\ fetch[r].step \in {"asked", "answered"} /\ UNCHANGED <<settings, membership, changes>>
      /\ fetch'[r].step = "failed" /\ \A c \in Caller \ {r} : fetch'[c] = fetch[c]
  BY <1>1 DEF JwksFails, FetchFails, Fetch
<1>3. OnlyJwks(settings)
  BY <1>2, OneRequest DEF KeyInv
<1>4. \E reply \in Answer \ {200} : Becomes(r, Replied(req[r], reply))
  BY Refusals DEF JwksFails
<1>5. QED
  BY <1>2, <1>3, <1>4, RefusalKeeps

(* The endpoints. *)
Success(q) == [q EXCEPT !.pc = "done", !.reply = 200, !.role = none, !.query = none]

LEMMA SuccessState ==
  ASSUME NEW q \in RequestState
  PROVE  /\ Replied(q, 200) = Success(q) /\ Success(q) \in RequestState
         /\ Success(q).pc = "done" /\ Success(q).reply = 200
         /\ Success(q).path = q.path /\ Success(q).token = q.token /\ Success(q).org = q.org
         /\ Success(q).held = q.held /\ Success(q).at = q.at
         /\ Success(q).required = q.required
         /\ Success(q).refused <=> q.refused
<1>1. Replied(q, 200) = Success(q)
  BY DEF Replied, Success
<1>2. Success(q) \in RequestState
  <2>1. [q EXCEPT !.pc = "done"] \in RequestState
    BY FieldUpdates DEF Progress
  <2>2. \A x \in RequestState : [x EXCEPT !.reply = 200] \in RequestState
    BY DEF RequestState, Answer
  <2>3. \A x \in RequestState : [x EXCEPT !.role = none, !.query = none] \in RequestState
    BY DEF RequestState, OrgClaim
  <2>4. QED
    BY <2>1, <2>2, <2>3 DEF Success
<1>3. /\ Success(q).pc = "done" /\ Success(q).reply = 200
      /\ Success(q).path = q.path /\ Success(q).token = q.token /\ Success(q).org = q.org
      /\ Success(q).held = q.held /\ Success(q).at = q.at
      /\ Success(q).required = q.required
  BY DEF Success, RequestState
<1>4. Success(q).refused <=> q.refused
  BY DEF Success, RequestState
<1>5. QED
  BY <1>1, <1>2, <1>3, <1>4

(* A request that is at its endpoint is answered; q differs from it in what the *)
(* endpoint was told.                                                          *)
LEMMA EndpointKeeps ==
  ASSUME AccessTypes, RequestsInv, NEW r \in Caller, req[r].pc = "endpoint",
         NEW q \in RequestState, q.path = req[r].path, q.token = req[r].token, q.at = req[r].at,
         fetch' = fetch, UNCHANGED <<settings, membership, changes>>,
         \/ \E reply \in Answer \ {200} : Becomes(r, Replied(q, reply))
         \/ /\ Becomes(r, Replied(q, 200)) /\ ~ q.refused
            /\ q.path = "/organizations" => Sufficed(q) /\ TokenOrgKept(q)
  PROVE  AccessTypes' /\ RequestsInv'
<1>1. /\ TimeInv(req[r], settings) /\ KeyInv(req[r], fetch[r], settings)
      /\ fetch[r].step \notin {"asked", "answered"}
      /\ fetch[r].step # "idle" => OnlyJwks(settings)
  BY OneRequest DEF KeyInv
<1>2. CASE \E reply \in Answer \ {200} : Becomes(r, Replied(q, reply))
  BY <1>1, <1>2, RefusalKeeps
<1>3. CASE /\ Becomes(r, Replied(q, 200)) /\ ~ q.refused
           /\ q.path = "/organizations" => Sufficed(q) /\ TokenOrgKept(q)
  <2> DEFINE next == Success(q)
  <2>1. /\ Becomes(r, next) /\ next \in RequestState
        /\ next.pc = "done" /\ next.reply = 200 /\ ~ next.refused
        /\ next.path = q.path /\ next.token = q.token /\ next.org = q.org
        /\ next.held = q.held /\ next.at = q.at /\ next.required = q.required
    BY <1>3, SuccessState
  <2> HIDE DEF next
  <2>2. RoleInv(next, Memberships)
    BY <1>3, <2>1 DEF RoleInv, Coming, Sufficed, TokenOrgKept
  <2>3. TimeInv(next, settings)
    BY <1>1, <2>1 DEF TimeInv, Passed
  <2>4. KeyInv(next, fetch[r], settings)
    BY <1>1, <2>1 DEF KeyInv, Passed
  <2>5. QED
    BY <2>1, <2>2, <2>3, <2>4, StepOf DEF RequestInv
<1>4. QED
  BY <1>2, <1>3

LEMMA TenantEndpointKeeps ==
  ASSUME AccessTypes, RequestsInv, NEW r \in Caller, TenantEndpoint(r)
  PROVE  AccessTypes' /\ RequestsInv'
<1>1. /\ req[r] \in RequestState /\ RoleInv(req[r], Memberships)
      /\ req[r].pc = "endpoint" /\ ~ req[r].refused
      /\ fetch' = fetch /\ UNCHANGED <<settings, membership, changes>>
  BY OneRequest DEF TenantEndpoint, cacheVars, KeyInv
<1>2. PICK required \in Role :
        LET q == [req[r] EXCEPT !.required = required] IN
        \/ q.role = none /\ \E reply \in {401, 500} : Becomes(r, Replied(q, reply))
        \/ /\ q.role # none
           /\ Becomes(r, Replied(q, IF role_hierarchy_check(q.role, required) THEN 200 ELSE 403))
  BY DEF TenantEndpoint
<1> DEFINE q == [req[r] EXCEPT !.required = required]
<1>3. q \in RequestState
  BY <1>1 DEF RequestState
<1>4. /\ q.path = req[r].path /\ q.token = req[r].token /\ q.at = req[r].at /\ q.org = req[r].org
      /\ q.held = req[r].held /\ q.role = req[r].role /\ q.required = required
  BY <1>1 DEF RequestState
<1>5. ~ q.refused
  BY <1>1 DEF RequestState
<1>6. \/ q.role = none /\ \E reply \in {401, 500} : Becomes(r, Replied(q, reply))
      \/ /\ q.role # none
         /\ Becomes(r, Replied(q, IF role_hierarchy_check(q.role, required) THEN 200 ELSE 403))
  BY <1>2
<1> HIDE DEF q
<1>7. CASE q.role = none /\ \E reply \in {401, 500} : Becomes(r, Replied(q, reply))
  <2>1. \E reply \in Answer \ {200} : Becomes(r, Replied(q, reply))
    BY <1>7, Refusals
  <2>2. QED
    BY <1>1, <1>3, <1>4, <2>1, EndpointKeeps
<1>8. CASE ~ role_hierarchy_check(q.role, required) /\ Becomes(r, Replied(q, 403))
  <2>1. \E reply \in Answer \ {200} : Becomes(r, Replied(q, reply))
    BY <1>8, Refusals
  <2>2. QED
    BY <1>1, <1>3, <1>4, <2>1, EndpointKeeps
<1>9. CASE q.role # none /\ role_hierarchy_check(q.role, required) /\ Becomes(r, Replied(q, 200))
  <2>1. <<q.org, q.role>> \in q.held /\ TokenOrgKept(q)
    BY <1>1, <1>4, <1>9 DEF RoleInv, TokenOrgKept
  <2>2. Sufficed(q)
    BY <1>3, <1>4, <1>9, <2>1 DEF Sufficed, role_hierarchy_check, RequestState
  <2>3. QED
    BY <1>1, <1>3, <1>4, <1>5, <1>9, <2>1, <2>2, EndpointKeeps
<1>10. QED
  BY <1>6, <1>7, <1>8, <1>9

LEMMA UserFromHeadersKeeps ==
  ASSUME AccessTypes, RequestsInv, NEW r \in Caller, UserFromHeaders(r)
  PROVE  AccessTypes' /\ RequestsInv'
<1>1. /\ req[r] \in RequestState /\ req[r].pc = "endpoint" /\ req[r].path = "/users"
      /\ ~ req[r].refused /\ fetch' = fetch /\ UNCHANGED <<settings, membership, changes>>
  BY OneRequest DEF UserFromHeaders, cacheVars, KeyInv
<1>2. PICK org \in OrgClaim :
        \E reply \in {200, 400, 401, 403} :
          Becomes(r, Replied([req[r] EXCEPT !.org = IF org = malformed THEN none ELSE org], reply))
  BY DEF UserFromHeaders
<1> DEFINE q == [req[r] EXCEPT !.org = IF org = malformed THEN none ELSE org]
<1>3. q \in RequestState
  BY <1>1 DEF RequestState, OrgClaim
<1>4. q.path = "/users" /\ q.path = req[r].path /\ q.token = req[r].token /\ q.at = req[r].at
  BY <1>1 DEF RequestState
<1>5. ~ q.refused
  BY <1>1 DEF RequestState
<1>6. \E reply \in {200, 400, 401, 403} : Becomes(r, Replied(q, reply))
  BY <1>2
<1> HIDE DEF q
<1>7. \/ \E reply \in Answer \ {200} : Becomes(r, Replied(q, reply))
      \/ Becomes(r, Replied(q, 200))
  BY <1>6, Refusals
<1>8. QED
  BY <1>1, <1>3, <1>4, <1>5, <1>7, EndpointKeeps

LEMMA PublicEndpointKeeps ==
  ASSUME AccessTypes, RequestsInv, NEW r \in Caller, PublicEndpoint(r)
  PROVE  AccessTypes' /\ RequestsInv'
<1>1. /\ req[r] \in RequestState /\ req[r].pc = "endpoint" /\ req[r].path # "/organizations"
      /\ ~ req[r].refused /\ fetch' = fetch /\ UNCHANGED <<settings, membership, changes>>
      /\ Becomes(r, Replied(req[r], 200))
  BY OneRequest DEF PublicEndpoint, PUBLIC_ENDPOINTS, cacheVars, KeyInv
<1>2. QED
  BY <1>1, EndpointKeeps

LEMMA HeldIsAMembership ==
  ASSUME NEW o \in Org, membership[o] # none
  PROVE  <<o, membership[o]>> \in Memberships
BY DEF Memberships

(* The user gets another role: a request that is under way may rely on it.   *)
LEMMA MembershipChangesKeeps ==
  ASSUME AccessTypes, RequestsInv, MembershipChanges
  PROVE  AccessTypes' /\ RequestsInv'
<1>1. PICK g \in Org, role \in GivenRole :
        /\ membership' = [membership EXCEPT ![g] = role]
        /\ req' = [r \in Caller |->
             IF role = none \/ req[r].pc \in {"idle", "done"} THEN req[r]
             ELSE [req[r] EXCEPT !.held = @ \cup {<<g, role>>}]]
  BY DEF MembershipChanges
<1>2. role \in Role \cup {none}
  BY AccessAssumption DEF Role
<1>3. fetch' = fetch /\ settings' = settings /\ changes' \in 0..MaxChanges
  BY AccessAssumption DEF MembershipChanges, cacheVars, AccessTypes
<1>4. membership' \in [Org -> Role \cup {none}]
  BY <1>1, <1>2 DEF AccessTypes
<1>5. ASSUME NEW m \in Memberships'
      PROVE  m \in Memberships \/ (role # none /\ m = <<g, role>>)
  <2>1. PICK o \in Org : membership'[o] # none /\ m = <<o, membership'[o]>>
    BY DEF Memberships
  <2>2. CASE o = g
    BY <1>1, <2>1, <2>2 DEF AccessTypes
  <2>3. CASE o # g
    <3>1. membership'[o] = membership[o]
      BY <1>1, <2>3 DEF AccessTypes
    <3>2. membership[o] # none /\ m = <<o, membership[o]>>
      BY <2>1, <3>1
    <3>3. QED
      BY <3>2, HeldIsAMembership
  <2>4. QED
    BY <2>2, <2>3
<1>6. ASSUME NEW r \in Caller
      PROVE  /\ req'[r] \in RequestState
             /\ RequestInv(req'[r], fetch'[r], settings', Memberships')
  <2>1. /\ req[r] \in RequestState /\ RoleInv(req[r], Memberships)
        /\ TimeInv(req[r], settings) /\ KeyInv(req[r], fetch[r], settings)
    BY OneRequest
  <2>2. CASE role = none \/ req[r].pc \in {"idle", "done"}
    <3>1. req'[r] = req[r]
      BY <1>1, <2>2
    <3>2. RoleInv(req[r], Memberships')
      BY <1>5, <2>1, <2>2 DEF RoleInv, Coming
    <3>3. QED
      BY <1>3, <2>1, <3>1, <3>2 DEF RequestInv
  <2>3. CASE ~ (role = none \/ req[r].pc \in {"idle", "done"})
    <3> DEFINE next == [req[r] EXCEPT !.held = @ \cup {<<g, role>>}]
    <3>1. req'[r] = next
      BY <1>1, <2>3
    <3>2. next \in RequestState
      BY <1>2, <2>1, <2>3 DEF RequestState
    <3>3. /\ next.pc = req[r].pc /\ next.path = req[r].path /\ next.token = req[r].token
          /\ next.org = req[r].org /\ next.role = req[r].role /\ next.reply = req[r].reply
          /\ next.required = req[r].required /\ next.at = req[r].at
          /\ next.held = req[r].held \cup {<<g, role>>}
      BY <2>1 DEF RequestState
    <3>4. next.refused <=> req[r].refused
      BY <2>1 DEF RequestState
    <3> HIDE DEF next
    <3>5. RoleInv(next, Memberships')
      BY <1>5, <2>1, <2>3, <3>3 DEF RoleInv, Coming, Sufficed, TokenOrgKept
    <3>6. TimeInv(next, settings) /\ KeyInv(next, fetch[r], settings)
      BY <2>1, <3>3, <3>4 DEF TimeInv, KeyInv, Passed
    <3>7. QED
      BY <1>3, <3>1, <3>2, <3>5, <3>6 DEF RequestInv
  <2>4. QED
    BY <2>2, <2>3
<1>7. req' \in [Caller -> RequestState]
  <2> DEFINE value(r) ==
               IF role = none \/ req[r].pc \in {"idle", "done"} THEN req[r]
               ELSE [req[r] EXCEPT !.held = @ \cup {<<g, role>>}]
  <2>1. req' = [r \in Caller |-> value(r)]
    BY <1>1
  <2> HIDE DEF value
  <2>2. QED
    BY <1>6, <2>1
<1>8. QED
  BY <1>3, <1>4, <1>6, <1>7 DEF AccessTypes, RequestsInv

LEMMA TimeAndKeysKeep ==
  ASSUME AccessTypes, RequestsInv, TimePasses \/ KeysRotate
  PROVE  AccessTypes' /\ RequestsInv'
<1>1. fetch' = fetch /\ UNCHANGED <<settings, membership, changes, req>>
  BY DEF TimePasses, KeysRotate, Tick, Rotate
<1>2. Memberships' = Memberships
  BY <1>1 DEF Memberships
<1>3. QED
  BY <1>1, <1>2 DEF AccessTypes, RequestsInv

-----------------------------------------------------------------------------
(* The invariant, and what it says.                                          *)

LEMMA AccessInit == Init => AccessInv
<1> SUFFICES ASSUME Init PROVE AccessInv
  OBVIOUS
<1>1. IInv
  BY InitInv DEF Init
<1>2. AccessTypes
  <2>1. membership \in [Org -> Role \cup {none}]
    BY AccessAssumption DEF Init, Role
  <2>2. changes \in 0..MaxChanges /\ settings \in Settings
    BY AccessAssumption DEF Init
  <2>3. req \in [Caller -> RequestState]
    BY IdleState DEF Init
  <2>4. QED
    BY <2>1, <2>2, <2>3 DEF AccessTypes
<1>3. ASSUME NEW r \in Caller PROVE RequestInv(req[r], fetch[r], settings, Memberships)
  <2>1. req[r].pc = "idle" /\ req[r].reply = 0 /\ fetch[r].step = "idle"
    BY DEF Init, Idle, CacheInit, NoFetch
  <2>2. ~ req[r].refused
    BY DEF Init, Idle
  <2>3. QED
    BY <2>1, <2>2 DEF RequestInv, RoleInv, TimeInv, KeyInv, Coming, Passed
<1>4. QED
  BY <1>1, <1>2, <1>3 DEF AccessInv, RequestsInv

LEMMA AccessNext == AccessInv /\ [Next]_vars => AccessInv'
<1> SUFFICES ASSUME AccessInv, [Next]_vars PROVE AccessInv'
  OBVIOUS
<1>1. IInv /\ AccessTypes /\ RequestsInv /\ CacheTypeOK /\ now \in Clock
  BY DEF AccessInv, IInv, CacheInv, CacheTypeOK
<1>2. IInv'
  <2>1. [CacheNext]_cacheVars
    BY StepsOfTheCache DEF vars, cacheVars
  <2>2. QED
    BY <1>1, <2>1, NextInv
<1>3. AccessTypes' /\ RequestsInv'
  <2>1. CASE UNCHANGED vars
    BY <1>1, <2>1 DEF vars, cacheVars, AccessTypes, RequestsInv, Memberships
  <2>2. ASSUME NEW r \in Caller,
               \/ Dispatch(r) \/ VerifyLocal(r) \/ VerifyCognito(r)
               \/ VerifyOry(r) \/ VerifyAuth0(r) \/ VerifyKeycloak(r)
        PROVE  AccessTypes' /\ RequestsInv'
    BY <1>1, <2>2, DispatchKeeps, VerifyLocalKeeps, VerifyCognitoKeeps, AsksKeeps
  <2>3. ASSUME NEW r \in Caller, JwksAnswered(r) \/ JwksInstalled(r) \/ JwksFails(r)
        PROVE  AccessTypes' /\ RequestsInv'
    BY <1>1, <2>3, JwksAnsweredKeeps, JwksInstalledKeeps, JwksFailsKeeps
  <2>4. ASSUME NEW r \in Caller,
               \/ ValidateUserOrgAccess(r) \/ TenantEndpoint(r)
               \/ UserFromHeaders(r) \/ PublicEndpoint(r)
        PROVE  AccessTypes' /\ RequestsInv'
    BY <1>1, <2>4, ValidateKeeps, TenantEndpointKeeps, UserFromHeadersKeeps, PublicEndpointKeeps
  <2>5. CASE MembershipChanges
    BY <1>1, <2>5, MembershipChangesKeeps
  <2>6. CASE TimePasses \/ KeysRotate
    BY <1>1, <2>6, TimeAndKeysKeep
  <2>7. QED
    BY <2>1, <2>2, <2>3, <2>4, <2>5, <2>6 DEF Next
<1>4. QED
  BY <1>2, <1>3 DEF AccessInv

LEMMA AccessInvariance == Spec => []AccessInv
BY AccessInit, AccessNext, PTL DEF Spec

(* The variables have their types: a request is answered with one of the     *)
(* status codes, for an organization and with a role that exist.             *)
THEOREM AccessTypesHold == Spec => []TypeOK
<1>1. AccessInv => TypeOK
  <2> SUFFICES ASSUME AccessInv PROVE TypeOK
    OBVIOUS
  <2>1. CacheTypeOK /\ AccessTypes
    BY DEF AccessInv, IInv, CacheInv
  <2>2. ASSUME NEW r \in Caller
        PROVE  /\ req[r].pc \in Progress
               /\ req[r].token \in Token \cup {none} /\ req[r].org \in Org \cup {none}
               /\ req[r].role \in Role \cup {none} /\ req[r].held \subseteq Org \X Role
               /\ req[r].reply \in Answer
    <3>1. req[r] \in RequestState
      BY <2>1 DEF AccessTypes
    <3>2. QED
      BY <3>1 DEF RequestState
  <2>3. QED
    BY <2>1, <2>2 DEF TypeOK, AccessTypes, Progress, Answer
<1>2. QED
  BY <1>1, AccessInvariance, PTL

(* Who is served by an endpoint of a tenant held a role that suffices, since *)
(* the request came in, in the organization that the token names, if it does.*)
THEOREM ServedHeldTheRoleHolds == Spec => []ServedHeldTheRole
<1>1. AccessInv => ServedHeldTheRole
  BY DEF AccessInv, RequestsInv, RequestInv, RoleInv, Sufficed, TokenOrgKept, ServedHeldTheRole
<1>2. QED
  BY <1>1, AccessInvariance, PTL

(* A token lets a request in only in its time and, through the keys of the   *)
(* provider, only if it names no audience and its key was published within   *)
(* the last TTL; one that is well-formed, in its time and without audience   *)
(* is refused only if its key was not published for all of that time.        *)
THEOREM TokensAreJudgedRightHolds == Spec => []TokensAreJudgedRight
<1>1. AccessInv => TokensAreJudgedRight
  <2> SUFFICES ASSUME AccessInv PROVE TokensAreJudgedRight
    OBVIOUS
  <2>1. ASSUME NEW r \in Caller, fetch[r].step = "done"
        PROVE  /\ fetch[r].version \in 1..published
               /\ CurrentWithin(fetch[r].version, fetch[r].at - TTL, fetch[r].at)
    BY <2>1 DEF AccessInv, IInv, BoundedStaleness, CurrentWithin
  <2>2. ASSUME NEW r \in Caller, ByJwks(r), LetIn(r)
        PROVE  /\ ~ req[r].token.aud
               /\ \E v \in 1..published : CurrentWithin(v, req[r].at - TTL, req[r].at)
                                           /\ req[r].token.key \in KeysOf(v)
    <3>1. fetch[r].step = "done"
      BY <2>2 DEF ByJwks
    <3>2. /\ req[r].at = fetch[r].at /\ req[r].token.key \in KeysOf(fetch[r].version)
          /\ ~ req[r].token.aud
      BY <2>2, <3>1 DEF AccessInv, RequestsInv, RequestInv, KeyInv, LetIn, Passed
    <3>3. QED
      BY <2>1, <3>1, <3>2
  <2>3. ASSUME NEW r \in Caller, ByJwks(r), req[r].refused, req[r].token.key # none,
               req[r].token.kid = req[r].token.key, ~ req[r].token.aud,
               req[r].token.begins <= req[r].at, req[r].at < req[r].token.expires
        PROVE  \E v \in 1..published : CurrentWithin(v, req[r].at - TTL, req[r].at)
                                          /\ req[r].token.key \notin KeysOf(v)
    <3>1. fetch[r].step = "done"
      BY <2>3 DEF ByJwks
    <3>2. req[r].at = fetch[r].at /\ req[r].token.key \notin KeysOf(fetch[r].version)
      BY <2>3, <3>1 DEF AccessInv, RequestsInv, RequestInv, KeyInv
    <3>3. QED
      BY <2>1, <3>1, <3>2
  <2>4. ASSUME NEW r \in Caller, settings.auth_provider_type # "none", LetIn(r)
        PROVE  req[r].token # none /\ InItsTime(req[r].token, req[r].at)
    BY <2>4 DEF AccessInv, RequestsInv, RequestInv, TimeInv, LetIn, Passed
  <2>5. QED
    BY <2>2, <2>3, <2>4
      DEF TokensAreJudgedRight, AcceptedKeyWasPublished, PublishedKeyIsAccepted, LetInInTime
<1>2. QED
  BY <1>1, AccessInvariance, PTL

=============================================================================
