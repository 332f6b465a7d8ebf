------------------------------- MODULE Access -------------------------------
(***************************************************************************)
(* How a request is let in: AuthMiddleware, TenantIsolationMiddleware and  *)
(* the dependencies of the endpoint, in this order.  A request awaits the  *)
(* identity provider (or the fetch of its keys, see JwksCache) and then    *)
(* the database; meanwhile keys rotate, tokens expire, memberships change  *)
(* and other requests run.                                                 *)
(*                                                                         *)
(* main.py leaves both middlewares commented out; they are modelled as     *)
(* core/tenants.py asks for them, tenant isolation behind authentication.  *)
(* Headers, tokens and claims are abstracted to what decides the answer.   *)
(***************************************************************************)
EXTENDS JwksCache, FiniteSets

CONSTANTS
  Org,
  Token,       \* the bearer tokens of the clients; all of one user
  Request,     \* what clients send: path, token, organization in the query
  none, malformed,
  Leeway,      \* TOKEN_EXPIRY_LEEWAY_SECONDS
  GivenRole,   \* the roles the user may be given; none takes one away
  InitialMembership,
  MaxChanges   \* bound: memberships that change

\* One path of each kind: public to both middlewares, to the second one only,
\* an endpoint with a tenant, and one that takes the user from headers.
Path == {"/health", "/redoc", "/organizations", "/users"}

Key == 1..(MaxVersion + 1)
OrgClaim == Org \cup {none, malformed}

\* kid: the header's key id, or none (also when the header cannot be decoded);
\* key: the key that signed it, none if it is not a signature for this issuer;
\* aud: it names an audience; begins: the later of nbf and iat, and expires: exp,
\* beyond all clocks where the claim is absent; active: what introspection says of it.
TokenRecord == [kid : Key \cup {none}, key : Key \cup {none}, aud : BOOLEAN,
                begins : Int, expires : Int, active : BOOLEAN,
                sub : {"missing", "malformed", "uuid"}, email : BOOLEAN, org : OrgClaim]

ASSUME AccessAssumption ==
  /\ Token \subseteq TokenRecord /\ Leeway \in Nat
  /\ Request \subseteq [path : Path, token : Token \cup {none}, query : OrgClaim]
  /\ GivenRole \subseteq {"owner", "admin", "member", none}
  /\ InitialMembership \in [Org -> GivenRole] /\ MaxChanges \in Nat
  /\ none \notin Org /\ malformed \notin Org

VARIABLES
  settings,    \* the authentication part of the settings
  membership,  \* the user's role per organization, or none
  changes,     \* how often it changed
  req          \* per request: progress, what it knows, its answer

vars == <<settings, membership, changes, req, cacheVars>>

-----------------------------------------------------------------------------
(* Settings *)

AuthProviderType == {"none", "ory", "auth0", "keycloak", "cognito"}
Role == {"owner", "admin", "member"}

Settings == [auth_provider_type : AuthProviderType, auth_provider_url : BOOLEAN,
             auth_provider_issuer : BOOLEAN, jwt_public_key : {none, 1},
             enforce_tenant_isolation : BOOLEAN]

\* _validate_auth_config: the errors that stop the application from starting
validate_auth_config(s) ==
  s.auth_provider_type = "none" \/ (s.auth_provider_url /\ s.auth_provider_issuer)

-----------------------------------------------------------------------------
(* Requests *)

public_paths == {"/health"}
PUBLIC_ENDPOINTS == {"/health", "/redoc"}

Idle == [pc |-> "idle", path |-> "/health", token |-> none, query |-> none, org |-> none,
         role |-> none, held |-> {}, at |-> 0, refused |-> FALSE, required |-> none, reply |-> 0]

TypeOK ==
  /\ CacheTypeOK
  /\ settings \in Settings /\ membership \in [Org -> Role \cup {none}]
  /\ changes \in 0..MaxChanges
  /\ \A r \in Caller :
       /\ req[r].pc \in {"idle", "verify", "introspect", "jwks", "tenant", "endpoint", "done"}
       /\ req[r].token \in Token \cup {none} /\ req[r].org \in Org \cup {none}
       /\ req[r].role \in Role \cup {none} /\ req[r].held \subseteq Org \X Role
       /\ req[r].reply \in {0, 200, 400, 401, 403, 500}

Init ==
  /\ CacheInit
  /\ settings \in {s \in Settings : validate_auth_config(s)}
  /\ membership = InitialMembership /\ changes = 0
  /\ req = [r \in Caller |-> Idle]

Memberships == {<<g, membership[g]>> : g \in {o \in Org : membership[o] # none}}

\* Of a request that is refused the answer remains.
Replied(q, reply) ==
  IF reply = 200 THEN [q EXCEPT !.pc = "done", !.reply = reply, !.role = none, !.query = none]
  ELSE [Idle EXCEPT !.pc = "done", !.reply = reply]

Becomes(r, q) == req' = [req EXCEPT ![r] = q]

-----------------------------------------------------------------------------
(* TenantIsolationMiddleware *)

\* The router has not run when the middleware asks for the path parameters.
extract_org_id_from_path == none

\* Mutant: the organization in the query goes before the one in the token.
requested_org_QueryFirst(q) ==
  IF q.query # none THEN q.query
  ELSE IF q.token.org \notin {none, malformed} THEN q.token.org
  ELSE extract_org_id_from_path

\* Claims first, then path, then query; a malformed claim counts as no claim.
requested_org(q) ==
  IF q.token.org \notin {none, malformed} THEN q.token.org
  ELSE IF extract_org_id_from_path # none THEN extract_org_id_from_path
  ELSE q.query

\* Mutant: what names no organization is not told from one.
validate_tenant_context_NoFormat(q) ==
  IF requested_org(q) = none THEN Replied(q, 403)
  ELSE [q EXCEPT !.pc = "tenant", !.org = requested_org(q)]

\* validate_tenant_context up to the read of the membership
validate_tenant_context(q) ==
  CASE requested_org(q) = malformed -> Replied(q, 400)
    [] requested_org(q) = none      -> Replied(q, 403)
    [] OTHER                        -> [q EXCEPT !.pc = "tenant", !.org = requested_org(q)]

\* dispatch, for a request with or without a user
TenantDispatch(q, user) ==
  IF ~ settings.enforce_tenant_isolation \/ q.path \in PUBLIC_ENDPOINTS
  THEN [q EXCEPT !.pc = "endpoint"]
  ELSE IF ~ user THEN Replied(q, 401) ELSE validate_tenant_context(q)

\* The role of the user in the organization, read in a session of its own.
ValidateUserOrgAccess(r) ==
  /\ req[r].pc = "tenant"
  /\ Becomes(r, IF membership[req[r].org] = none THEN Replied(req[r], 403)
                ELSE [req[r] EXCEPT !.pc = "endpoint", !.role = membership[req[r].org]])
  /\ UNCHANGED <<settings, membership, changes, cacheVars>>

-----------------------------------------------------------------------------
(* AuthMiddleware *)

\* The claims of a verified token become a user, or 401; org is not needed.
extract_user_from_claims(q) ==
  IF q.token.sub = "uuid" /\ q.token.email THEN TenantDispatch(q, TRUE) ELSE Replied(q, 401)

\* jwt.decode checks nbf, iat and exp, each with the leeway.
InItsTime(token, at) == token.begins <= at + Leeway /\ at < token.expires + Leeway

\* Mutant: a token is accepted however long ago it expired.
decodes_Expired(token, key, at) ==
  key # none /\ token.key = key /\ token.begins <= at + Leeway /\ ~ token.aud

\* Mutant: whatever audience a token names, it is taken to be this program.
decodes_AnyAudience(token, key, at) == key # none /\ token.key = key /\ InItsTime(token, at)

\* jwt.decode with a key: signature and issuer, then the time; it is told of no
\* audience, and refuses every token that names one.
decodes(token, key, at) ==
  key # none /\ token.key = key /\ InItsTime(token, at) /\ ~ token.aud

verify_token_local(token, at) == decodes(token, settings.jwt_public_key, at)

\* The keys of version v: the one in use, and the next one, announced.
KeysOf(v) == {v, v + 1}

find_public_key_in_jwks(v, kid) == IF kid \in KeysOf(v) THEN kid ELSE none

\* The token against key set v: what verify_token returns, and what follows.
Judged(q, v) ==
  LET key == find_public_key_in_jwks(v, q.token.kid)
  IN IF q.token.kid # none /\ decodes(q.token, key, now)
     THEN extract_user_from_claims([q EXCEPT !.at = now])
     ELSE [Replied(q, 401) EXCEPT !.token = q.token, !.at = now, !.refused = TRUE]

\* dispatch up to verify_token: no provider, a public path, no bearer token.
Dispatch(r) ==
  /\ req[r].pc = "idle"
  /\ \E s \in Request :
       Becomes(r, IF settings.auth_provider_type = "none" \/ s.path \in public_paths
                  THEN TenantDispatch([Idle EXCEPT !.path = s.path], FALSE)
                  ELSE IF s.token = none THEN Replied(Idle, 401)
                  ELSE [Idle EXCEPT !.pc = "verify", !.path = s.path, !.token = s.token,
                                    !.query = s.query, !.held = Memberships])
  /\ UNCHANGED <<settings, membership, changes, cacheVars>>

\* verify_token: the configured key first; a token it does not verify goes on to
\* the provider.  Cognito with a configured key tries that key once more.
VerifyLocal(r) ==
  LET q == [req[r] EXCEPT !.at = now] IN
  /\ req[r].pc = "verify"
  /\ \/ verify_token_local(q.token, now) /\ Becomes(r, extract_user_from_claims(q))
     \/ /\ ~ verify_token_local(q.token, now)
        /\ settings.auth_provider_type = "cognito" /\ settings.jwt_public_key # none
        /\ Becomes(r, Replied(q, 401))
     \/ /\ ~ verify_token_local(q.token, now) /\ settings.auth_provider_type # "cognito"
        /\ Becomes(r, [q EXCEPT !.pc = "introspect"])
  /\ UNCHANGED <<settings, membership, changes, cacheVars>>

\* The provider of type p vouches for the token or does not; an answer other
\* than 200 and a RequestError are None like the token that is refused.  A 200
\* that is not JSON raises what nothing catches.
Asks(r, p, vouched) ==
  LET q == [req[r] EXCEPT !.at = now] IN
  /\ req[r].pc = "introspect" /\ settings.auth_provider_type = p
  /\ \/ vouched /\ Becomes(r, extract_user_from_claims(q))
     \/ \E reply \in {401, 500} : Becomes(r, Replied(q, reply))
  /\ UNCHANGED <<settings, membership, changes, cacheVars>>

Introspected(token) == token.active /\ token.begins <= now /\ now < token.expires

\* Introspection: 200 and "active".
VerifyOry(r) == Asks(r, "ory", Introspected(req[r].token))

\* /userinfo answers 200 to a token it accepts, and is not asked for more.
VerifyAuth0(r) == Asks(r, "auth0", Introspected(req[r].token))

VerifyKeycloak(r) == Asks(r, "keycloak", Introspected(req[r].token))

\* Cognito: a hit is judged in the same step, a miss awaits the provider.
VerifyCognito(r) ==
  /\ req[r].pc = "verify"
  /\ settings.auth_provider_type = "cognito" /\ settings.jwt_public_key = none
  /\ GetJwksCached(r)
  /\ Becomes(r, IF Hit THEN Judged(req[r], cache.version) ELSE [req[r] EXCEPT !.pc = "jwks"])
  /\ UNCHANGED <<settings, membership, changes>>

JwksAnswered(r) == Answered(r) /\ UNCHANGED <<settings, membership, changes, req>>

JwksInstalled(r) ==
  /\ Installed(r)
  /\ Becomes(r, Judged(req[r], fetch[r].version))
  /\ UNCHANGED <<settings, membership, changes>>

\* RequestError and HTTPStatusError are None; an answer that is not JSON is not caught.
JwksFails(r) ==
  /\ FetchFails(r)
  /\ \E reply \in {401, 500} : Becomes(r, Replied(req[r], reply))
  /\ UNCHANGED <<settings, membership, changes>>

-----------------------------------------------------------------------------
(* The endpoint and its dependencies *)

hierarchy == [owner |-> 3, admin |-> 2, member |-> 1]

role_hierarchy_check(user_role, required_role) ==
  hierarchy[user_role] >= hierarchy[required_role]

\* get_tenant_context answers 401 without a tenant, require_role 500.
TenantEndpoint(r) ==
  /\ req[r].pc = "endpoint" /\ req[r].path = "/organizations"
  /\ \E required \in Role :
       LET q == [req[r] EXCEPT !.required = required] IN
       \/ q.role = none /\ \E reply \in {401, 500} : Becomes(r, Replied(q, reply))
       \/ /\ q.role # none
          /\ Becomes(r, Replied(q, IF role_hierarchy_check(q.role, required) THEN 200 ELSE 403))
  /\ UNCHANGED <<settings, membership, changes, cacheVars>>

\* get_user_from_headers: X-User-ID and X-Email, and a membership in X-Selected-Org.
UserFromHeaders(r) ==
  /\ req[r].pc = "endpoint" /\ req[r].path = "/users"
  /\ \E id \in {"missing", "malformed", "uuid"}, email \in BOOLEAN, org \in OrgClaim :
       Becomes(r, Replied([req[r] EXCEPT !.org = IF org = malformed THEN none ELSE org],
         CASE id = "missing" \/ ~ email            -> 401
           [] id = "malformed" \/ org = malformed  -> 400
           [] org \in Org /\ membership[org] = none -> 403
           [] OTHER                                -> 200))
  /\ UNCHANGED <<settings, membership, changes, cacheVars>>

PublicEndpoint(r) ==
  /\ req[r].pc = "endpoint" /\ req[r].path \in PUBLIC_ENDPOINTS
  /\ Becomes(r, Replied(req[r], 200))
  /\ UNCHANGED <<settings, membership, changes, cacheVars>>

-----------------------------------------------------------------------------

\* The memberships endpoints of another request commit.
MembershipChanges ==
  /\ changes < MaxChanges /\ changes' = changes + 1
  /\ \E g \in Org, role \in GivenRole :
       /\ membership[g] # role
       /\ membership' = [membership EXCEPT ![g] = role]
       /\ req' = [r \in Caller |->
            IF role = none \/ req[r].pc \in {"idle", "done"} THEN req[r]
            ELSE [req[r] EXCEPT !.held = @ \cup {<<g, role>>}]]
  /\ UNCHANGED <<settings, cacheVars>>

TimePasses == Tick /\ UNCHANGED <<settings, membership, changes, req>>

\* Only a cache of keys can tell.
KeysRotate ==
  /\ settings.auth_provider_type = "cognito" /\ settings.jwt_public_key = none
  /\ Rotate /\ UNCHANGED <<settings, membership, changes, req>>

Next ==
  \/ \E r \in Caller :
       \/ Dispatch(r) \/ VerifyLocal(r) \/ VerifyCognito(r)
       \/ VerifyOry(r) \/ VerifyAuth0(r) \/ VerifyKeycloak(r)
       \/ JwksAnswered(r) \/ JwksInstalled(r) \/ JwksFails(r)
       \/ ValidateUserOrgAccess(r)
       \/ TenantEndpoint(r) \/ UserFromHeaders(r) \/ PublicEndpoint(r)
  \/ MembershipChanges \/ TimePasses \/ KeysRotate

Spec == Init /\ [][Next]_vars

-----------------------------------------------------------------------------
(* Properties *)

\* The request was judged by the keys of the provider alone.
ByJwks(r) ==
  settings.auth_provider_type = "cognito" /\ settings.jwt_public_key = none
    /\ fetch[r].step = "done"

LetIn(r) == req[r].reply = 200 /\ req[r].path \notin public_paths

\* A token that lets a request in through the provider's keys was signed by a key
\* that the provider published at some moment of the last TTL, and is meant for no
\* other program: it names no audience.
AcceptedKeyWasPublished ==
  \A r \in Caller : ByJwks(r) /\ LetIn(r) =>
    /\ ~ req[r].token.aud
    /\ \E v \in 1..published : CurrentWithin(v, req[r].at - TTL, req[r].at)
                                /\ req[r].token.key \in KeysOf(v)

\* A well-formed token without an audience, in its time, is refused by the provider's
\* keys only if at some moment of the last TTL its key was not published: a rotation
\* that announces its keys a TTL ahead refuses nobody.
PublishedKeyIsAccepted ==
  \A r \in Caller :
    LET t == req[r].token IN
    ByJwks(r) /\ req[r].refused /\ t.key # none /\ t.kid = t.key
      /\ ~ t.aud /\ t.begins <= req[r].at /\ req[r].at < t.expires
    => \E v \in 1..published : CurrentWithin(v, req[r].at - TTL, req[r].at) /\ t.key \notin KeysOf(v)

\* Who gets an answer from a tenant's endpoint held, at some moment since the
\* request came in, a role in that organization that suffices; it is the
\* organization of the token if the token names one.
ServedHeldTheRole ==
  \A r \in Caller : req[r].reply = 200 /\ req[r].path = "/organizations" =>
    /\ \E role \in Role : <<req[r].org, role>> \in req[r].held
                            /\ hierarchy[role] >= hierarchy[req[r].required]
    /\ req[r].token.org \in Org => req[r].org = req[r].token.org

\* A request that passed authentication carries a token that was in its time when
\* it was looked at, but for the leeway, whichever way it was verified.
LetInInTime ==
  \A r \in Caller :
    settings.auth_provider_type # "none" /\ LetIn(r) =>
      req[r].token # none /\ InItsTime(req[r].token, req[r].at)

\* Tokens are judged by the keys and the time that count, neither too leniently nor
\* too strictly, while keys are fetched, cached and rotated.
TokensAreJudgedRight == AcceptedKeyWasPublished /\ PublishedKeyIsAccepted /\ LetInInTime

=============================================================================
