------------------------------ MODULE Accounts ------------------------------
(***************************************************************************)
(* Users, organizations and memberships: the endpoints that change them,   *)
(* the Kratos registration webhook and the membership check, as requests   *)
(* with a database session each.  A request is admitted (the tenant and    *)
(* its role are read by the middleware, in a session of its own), loads    *)
(* the row it is about, flushes its change, commits, and is answered;      *)
(* other requests run between any two of these.                            *)
(*                                                                         *)
(* PostgreSQL, READ COMMITTED: a session sees what is committed and its    *)
(* own writes.  A flush waits for a session that holds a row, a key or a   *)
(* parent it needs, and fails with IntegrityError when a committed row     *)
(* has the key or the parent is gone.  A flush takes its locks in one      *)
(* step.  Deleting a user or an organization deletes its memberships.      *)
(***************************************************************************)
EXTENDS Integers, FiniteSets

CONSTANTS
  Req,          \* requests
  UserId, OrgId, MembershipId,
  Email, Identity,
  none,         \* no row, no identity, no organization
  PayloadRole,  \* the roles membership requests ask for
  Op,           \* the operations requests may ask for
  InitialUser, InitialOrg, InitialMembership,   \* the rows there are at first
  MaxFaults     \* bound: commits that fail

Operation == {"create_user", "update_user", "delete_user",
              "create_membership", "update_membership", "delete_membership",
              "create_org", "update_org", "delete_org",
              "registration", "check_org_membership"}

ASSUME AccountsAssumption ==
  /\ Op \subseteq Operation /\ PayloadRole \subseteq {"owner", "admin", "member"}
  /\ MaxFaults \in Nat

\* Every id is a uuid, and a table holds finitely many rows.
ASSUME IdsAssumption ==
  /\ UserId \cap OrgId = {} /\ UserId \cap MembershipId = {} /\ OrgId \cap MembershipId = {}
  /\ IsFiniteSet(MembershipId)
  /\ none \notin UserId \cup OrgId \cup MembershipId \cup Identity

VARIABLES
  users, organizations, memberships,  \* committed rows by id, or none
  active_memberships_gauge,
  welcomed,                           \* users a welcome mail was started for
  req,                                \* per request: progress, session, answer
  faults

tables == <<users, organizations, memberships>>
vars == <<tables, active_memberships_gauge, welcomed, req, faults>>

-----------------------------------------------------------------------------

MembershipRole == {"owner", "admin", "member"}
User == [email : Email, identity : Identity \cup {none}]
Membership == [user : UserId, org : OrgId, role : MembershipRole]
Organization == [name : {"first", "renamed"}]

\* none is no row.
ASSUME RowsAssumption == none \notin User \cup Membership \cup Organization

\* A pending write of a session; row = none deletes.
Write == [table : {"user", "org", "membership", "activity"},
          id : UserId \cup OrgId \cup MembershipId \cup {none},
          row : User \cup Organization \cup Membership \cup {none}]

Change(t, i, w) == [table |-> t, id |-> i, row |-> w]

Idle == [op |-> "none", pc |-> "idle", user |-> none, target |-> none, row |-> none,
         ids |-> {}, writes |-> {}, lost |-> {}, reply |-> 0]

TypeOK ==
  /\ users \in [UserId -> User \cup {none}]
  /\ organizations \in [OrgId -> Organization \cup {none}]
  /\ memberships \in [MembershipId -> Membership \cup {none}]
  /\ active_memberships_gauge \in Int
  /\ welcomed \subseteq UserId
  /\ faults \in 0..MaxFaults
  /\ \A r \in Req :
       /\ req[r].pc \in {"idle", "admitted", "loaded", "flushed", "committed", "done"}
       /\ req[r].writes \subseteq Write /\ req[r].lost \subseteq Write
       /\ req[r].reply \in {0, 200, 201, 204, 400, 403, 404, 409, 500}

Init ==
  /\ users = InitialUser /\ organizations = InitialOrg /\ memberships = InitialMembership
  /\ active_memberships_gauge = Cardinality({m \in MembershipId : memberships[m] # none})
  /\ welcomed = {}
  /\ req = [r \in Req |-> Idle]
  /\ faults = 0

\* uq_app_user_email and the unique kratos_identity_id
\* Mutant: only the email is unique.
SameKey_EmailOnly(a, b) == a # none /\ b # none /\ a.email = b.email

SameKey(a, b) ==
  a # none /\ b # none /\ (a.email = b.email \/ (a.identity # none /\ a.identity = b.identity))

\* What the constraints of the tables require of their rows: unique users, and
\* memberships that have their user and organization and are unique too.
KeysAreUnique(us) == \A u, v \in UserId : SameKey(us[u], us[v]) => u = v

Anchored(us, gs, ms) ==
  \A m \in MembershipId : ms[m] # none =>
    /\ us[ms[m].user] # none
    /\ gs[ms[m].org] # none
    /\ \A n \in MembershipId : ms[n] # none /\ ms[n].user = ms[m].user
                                 /\ ms[n].org = ms[m].org => n = m

ASSUME InitialRowsAssumption ==
  /\ InitialUser \in [UserId -> User \cup {none}] /\ KeysAreUnique(InitialUser)
  /\ InitialOrg \in [OrgId -> Organization \cup {none}]
  /\ InitialMembership \in [MembershipId -> Membership \cup {none}]
  /\ Anchored(InitialUser, InitialOrg, InitialMembership)

-----------------------------------------------------------------------------
(* What other sessions hold. *)

Others(r) == UNION {req[s].writes : s \in Req \ {r}}

RowHeld(r, t, i) == \E w \in Others(r) : w.table = t /\ w.id = i

\* An uncommitted membership of another session keeps its user and organization.
ParentHeld(r, i) ==
  \E w \in Others(r) : w.table = "membership" /\ w.row # none /\ i \in {w.row.user, w.row.org}

\* The memberships that go with user or organization i.
Cascade(i) == {m \in MembershipId : memberships[m] # none
                 /\ i \in {memberships[m].user, memberships[m].org}}

MembershipHeld(r, m) ==
  \/ RowHeld(r, "membership", m)
  \/ \E w \in Others(r) : w.table \in {"user", "org"} /\ w.row = none /\ m \in Cascade(w.id)

\* Mutant: the delete does not wait for a membership that is being inserted.
CanDelete_NoWait(r, t, i) == ~ RowHeld(r, t, i)

CanDelete(r, t, i) ==
  ~ RowHeld(r, t, i) /\ ~ ParentHeld(r, i) /\ \A m \in Cascade(i) : ~ MembershipHeld(r, m)

\* The user and the organization a new membership refers to.
ParentsFree(r, u, g) ==
  /\ ~ RowHeld(r, "user", u)
  /\ ~ \E w \in Others(r) : w.table = "org" /\ w.id = g /\ w.row = none

ParentsExist(r, u, g) ==
  /\ users[u] # none \/ \E w \in req[r].writes : w.table = "user" /\ w.id = u
  /\ organizations[g] # none \/ \E w \in req[r].writes : w.table = "org" /\ w.id = g

\* The key of row, for user u, belongs to a row that another session writes: to
\* the row as it will be, or as it is until that session commits.
UserKeyHeld(r, u, row) ==
  \/ \E w \in Others(r) : w.table = "user" /\ w.id # u /\ SameKey(w.row, row)
  \/ \E v \in UserId \ {u} : SameKey(users[v], row) /\ RowHeld(r, "user", v)

UserKeyTaken(u, row) == \E v \in UserId \ {u} : SameKey(users[v], row)

\* uq_membership_user_org
PairOf(row, u, g) == row # none /\ row.user = u /\ row.org = g

PairHeld(r, u, g) ==
  \/ \E w \in Others(r) : w.table = "membership" /\ PairOf(w.row, u, g)
  \/ \E m \in MembershipId : PairOf(memberships[m], u, g) /\ MembershipHeld(r, m)

PairTaken(u, g) == \E m \in MembershipId : PairOf(memberships[m], u, g)

Initial(i) ==
  \/ i \in UserId /\ InitialUser[i] # none
  \/ i \in OrgId /\ InitialOrg[i] # none
  \/ i \in MembershipId /\ InitialMembership[i] # none

\* gen_random_uuid(): an id no row ever had; which one makes no difference.
\* S bounds how often it is asked.
Fresh(S) ==
  LET unused == {i \in S : ~ Initial(i) /\ \A r \in Req : i \notin req[r].ids}
  IN {i \in unused : i = CHOOSE j \in unused : TRUE}

-----------------------------------------------------------------------------
(* Steps every endpoint shares. *)

Answer(r, reply) ==
  req' = [req EXCEPT ![r] = [Idle EXCEPT !.op = req[r].op, !.ids = req[r].ids,
                                         !.pc = "done", !.reply = reply]]

\* get_session rolls back and the request ends with an error.
Refuse(r, reply) ==
  Answer(r, reply) /\ UNCHANGED <<tables, active_memberships_gauge, welcomed, faults>>

\* The flush succeeded; ids are the ids the database generated for it.
Flushed(r, writes, ids) ==
  /\ req' = [req EXCEPT ![r].pc = "flushed", ![r].writes = writes, ![r].ids = ids]
  /\ UNCHANGED <<tables, welcomed, faults>>

Uncounted == UNCHANGED active_memberships_gauge

At(r, op, pc) == req[r].op = op /\ req[r].pc = pc

Loads(r, op, target, row) ==
  /\ req' = [req EXCEPT ![r].op = op, ![r].pc = "loaded", ![r].target = target, ![r].row = row]
  /\ UNCHANGED <<tables, active_memberships_gauge, welcomed, faults>>

hierarchy == [owner |-> 3, admin |-> 2, member |-> 1]

role_hierarchy_check(user_role, required_role) ==
  hierarchy[user_role] >= hierarchy[required_role]

\* RequireOwner, RequireAdmin; create_org asks for a tenant only.
required_role(op) ==
  CASE op \in {"update_membership", "delete_org"} -> "owner"
    [] op \in {"create_membership", "delete_membership", "update_org"} -> "admin"
    [] OTHER -> "member"

TenantOp == {"create_membership", "update_membership", "delete_membership",
             "create_org", "update_org", "delete_org"}

\* validate_user_org_access, then require_role on the role it found; the role
\* is not looked at again in the rest of the request.
Admit(r) ==
  /\ req[r].pc = "idle"
  /\ \E op \in Op \cap TenantOp, u \in UserId, g \in OrgId :
       LET access == {memberships[m].role : m \in {n \in MembershipId :
                        memberships[n] # none /\ memberships[n].user = u /\ memberships[n].org = g}}
           admitted == \E role \in access : role_hierarchy_check(role, required_role(op))
       IN req' = [req EXCEPT ![r] =
            IF admitted
            THEN [Idle EXCEPT !.op = op, !.user = u, !.pc = "admitted"]
            ELSE [Idle EXCEPT !.op = op, !.pc = "done", !.reply = 403]]
  /\ UNCHANGED <<tables, active_memberships_gauge, welcomed, faults>>

\* Mutant: the creator gets a role that membership_role does not have.
OwnerOf_Creator(r) ==
  IF req[r].op # "create_org" THEN {}
  ELSE {Change("membership", m, [user |-> req[r].user, org |-> g, role |-> "creator"]) :
          g \in req[r].ids \cap OrgId, m \in req[r].ids \cap MembershipId}

\* The membership of the owner that create_org adds and leaves to the commit.
OwnerOf(r) ==
  IF req[r].op # "create_org" THEN {}
  ELSE {Change("membership", m, [user |-> req[r].user, org |-> g, role |-> "owner"]) :
          g \in req[r].ids \cap OrgId, m \in req[r].ids \cap MembershipId}

\* session.commit: the writes of the session, with their cascades, at once.
Committed(r) ==
  LET writes == req[r].writes \cup OwnerOf(r)
      new(t, i, old) == IF \E w \in writes : w.table = t /\ w.id = i
                        THEN (CHOOSE w \in writes : w.table = t /\ w.id = i).row ELSE old
      gone == {w.id : w \in {x \in writes : x.table \in {"user", "org"} /\ x.row = none}}
  IN /\ users' = [u \in UserId |-> new("user", u, users[u])]
     /\ organizations' = [g \in OrgId |-> new("org", g, organizations[g])]
     /\ memberships' = [m \in MembershipId |->
          IF \E i \in gone : m \in Cascade(i) THEN none
          ELSE new("membership", m, memberships[m])]

-----------------------------------------------------------------------------
(* Users *)

\* Any IntegrityError of the insert is answered with 409.  The clients modelled
\* send no kratos_identity_id.
CreateUser(r) ==
  /\ req[r].pc = "idle" /\ "create_user" \in Op
  /\ \E u \in Fresh(UserId), e \in Email :
       LET row == [email |-> e, identity |-> none] IN
       /\ ~ UserKeyHeld(r, u, row)
       /\ req' = [req EXCEPT ![r] =
            IF UserKeyTaken(u, row)
            THEN [Idle EXCEPT !.op = "create_user", !.pc = "done", !.reply = 409]
            ELSE [Idle EXCEPT !.op = "create_user", !.pc = "flushed", !.target = u,
                              !.ids = {u}, !.writes = {Change("user", u, row)}]]
  /\ UNCHANGED <<tables, active_memberships_gauge, welcomed, faults>>

\* PATCH and DELETE /users/{user_id}, by that user; none when it is not there.
LoadSelf(r, op) ==
  /\ req[r].pc = "idle" /\ op \in Op
  /\ \E u \in UserId :
       /\ req' = [req EXCEPT ![r] =
            IF users[u] = none THEN [Idle EXCEPT !.op = op, !.pc = "done", !.reply = 404]
            ELSE [Idle EXCEPT !.op = op, !.pc = "loaded", !.target = u, !.row = users[u]]]
  /\ UNCHANGED <<tables, active_memberships_gauge, welcomed, faults>>

LoadUser(r) == LoadSelf(r, "update_user") \/ LoadSelf(r, "delete_user")

\* The flush of a changed email; a row that is gone is a StaleDataError, a
\* taken email an IntegrityError, and neither is caught.
UpdateUser(r) ==
  LET u == req[r].target IN
  /\ At(r, "update_user", "loaded")
  /\ ~ RowHeld(r, "user", u) /\ ~ ParentHeld(r, u)
  /\ \E e \in Email \ {req[r].row.email} :
       LET row == [req[r].row EXCEPT !.email = e] IN
       /\ ~ UserKeyHeld(r, u, row)
       /\ IF users[u] = none \/ UserKeyTaken(u, row) THEN Refuse(r, 500)
          ELSE Flushed(r, {Change("user", u, row)}, {}) /\ Uncounted

\* The endpoint has no commit: it answers with the profile it flushed.
UpdateUserAnswered(r) ==
  /\ At(r, "update_user", "flushed")
  /\ req' = [req EXCEPT ![r].pc = "committed", ![r].reply = 200]
  /\ UNCHANGED <<tables, active_memberships_gauge, welcomed, faults>>

DeleteUser(r) ==
  /\ At(r, "delete_user", "loaded") /\ CanDelete(r, "user", req[r].target)
  /\ Flushed(r, {Change("user", req[r].target, none)}, {}) /\ Uncounted

-----------------------------------------------------------------------------
(* Memberships *)

\* get_user and get_organization come first; what they saw may be gone by now.
LoadParents(r) ==
  /\ At(r, "create_membership", "admitted")
  /\ \E u \in UserId, g \in OrgId, role \in PayloadRole :
       IF users[u] = none \/ organizations[g] = none THEN Refuse(r, 400)
       ELSE Loads(r, "create_membership", none, [user |-> u, org |-> g, role |-> role])

\* The gauge moves after the flush, before the commit.
CreateMembership(r) ==
  LET row == req[r].row IN
  /\ At(r, "create_membership", "loaded")
  /\ ParentsFree(r, row.user, row.org) /\ ~ PairHeld(r, row.user, row.org)
  /\ IF PairTaken(row.user, row.org) THEN Refuse(r, 409)
     ELSE IF ~ ParentsExist(r, row.user, row.org) THEN Refuse(r, 500)
     ELSE \E m \in Fresh(MembershipId) :
            /\ Flushed(r, {Change("membership", m, row)}, {m})
            /\ active_memberships_gauge' = active_memberships_gauge + 1

\* Your own role is not yours to change.
LoadMembership(r) ==
  /\ req[r].op \in {"update_membership", "delete_membership"} /\ req[r].pc = "admitted"
  /\ \E m \in MembershipId :
       IF memberships[m] = none THEN Refuse(r, 404)
       ELSE IF req[r].op = "update_membership" /\ memberships[m].user = req[r].user
       THEN Refuse(r, 403)
       ELSE Loads(r, req[r].op, m, memberships[m])

UpdateMembership(r) ==
  LET m == req[r].target IN
  /\ At(r, "update_membership", "loaded") /\ ~ MembershipHeld(r, m)
  /\ IF memberships[m] = none THEN Refuse(r, 500)
     ELSE \E role \in PayloadRole :
            Flushed(r, {Change("membership", m, [memberships[m] EXCEPT !.role = role])}, {})
              /\ Uncounted

\* An explicit DELETE, for its row count: 0 when another request was faster.
DeleteMembership(r) ==
  LET m == req[r].target IN
  /\ At(r, "delete_membership", "loaded") /\ ~ MembershipHeld(r, m)
  /\ IF memberships[m] = none
     THEN Flushed(r, {}, {}) /\ Uncounted
     ELSE /\ Flushed(r, {Change("membership", m, none)}, {})
          /\ active_memberships_gauge' = active_memberships_gauge - 1

-----------------------------------------------------------------------------
(* Organizations *)

\* The organization is flushed here, the membership of its owner at the commit.
CreateOrg(r) ==
  /\ At(r, "create_org", "admitted")
  /\ \E g \in Fresh(OrgId), m \in Fresh(MembershipId) :
       Flushed(r, {Change("org", g, [name |-> "first"])}, {g, m})
  /\ Uncounted

\* get_organization(session, organization_id, user_id): those of its members only
LoadOrg(r) ==
  /\ req[r].op \in {"update_org", "delete_org"} /\ req[r].pc = "admitted"
  /\ \E g \in OrgId :
       IF organizations[g] # none /\ PairTaken(req[r].user, g)
       THEN Loads(r, req[r].op, g, organizations[g]) ELSE Refuse(r, 404)

UpdateOrg(r) ==
  LET g == req[r].target IN
  /\ At(r, "update_org", "loaded") /\ ~ RowHeld(r, "org", g)
  /\ IF organizations[g] = none THEN Refuse(r, 500)
     ELSE Flushed(r, {Change("org", g, [name |-> "renamed"])}, {}) /\ Uncounted

\* The memberships are counted before the delete, for the gauge.
DeleteOrg(r) ==
  LET g == req[r].target IN
  /\ At(r, "delete_org", "loaded") /\ CanDelete(r, "org", g)
  /\ Flushed(r, {Change("org", g, none)}, {})
  /\ active_memberships_gauge' = active_memberships_gauge - Cardinality(Cascade(g))

-----------------------------------------------------------------------------
(* Kratos *)

\* The identity is looked up; if it has a user, the answer is "already_exists".
LookUpIdentity(r) ==
  /\ req[r].pc = "idle" /\ "registration" \in Op
  /\ \E i \in Identity, e \in Email :
       LET existing == \E u \in UserId : users[u] # none /\ users[u].identity = i
       IN req' = [req EXCEPT ![r] =
            IF existing THEN [Idle EXCEPT !.op = "registration", !.pc = "done", !.reply = 200]
            ELSE [Idle EXCEPT !.op = "registration", !.pc = "loaded",
                              !.row = [email |-> e, identity |-> i]]]
  /\ UNCHANGED <<tables, active_memberships_gauge, welcomed, faults>>

\* User, organization and membership of the owner, in one transaction.
\* Mutant: the organization and its owner are left to a later transaction.
HandleRegistration_UserFirst(r) ==
  LET row == req[r].row IN
  /\ At(r, "registration", "loaded")
  /\ \E u \in Fresh(UserId) :
       /\ ~ UserKeyHeld(r, u, row)
       /\ IF UserKeyTaken(u, row) THEN Refuse(r, 500)
          ELSE Flushed(r, {Change("user", u, row)}, {u}) /\ Uncounted

HandleRegistration(r) ==
  LET row == req[r].row IN
  /\ At(r, "registration", "loaded")
  /\ \E u \in Fresh(UserId), g \in Fresh(OrgId), m \in Fresh(MembershipId) :
       /\ ~ UserKeyHeld(r, u, row)
       /\ IF UserKeyTaken(u, row) THEN Refuse(r, 500)
          ELSE /\ Flushed(r, {Change("user", u, row), Change("org", g, [name |-> "first"]),
                              Change("membership", m,
                                     [user |-> u, org |-> g, role |-> "owner"])}, {u, g, m})
               /\ Uncounted

CheckOrgMembership(r) ==
  /\ req[r].pc = "idle" /\ "check_org_membership" \in Op
  /\ \E u \in UserId, g \in OrgId :
       req' = [req EXCEPT ![r] = [Idle EXCEPT !.op = "check_org_membership", !.pc = "done",
                 !.reply = IF PairTaken(u, g) THEN 200 ELSE 403]]
  /\ UNCHANGED <<tables, active_memberships_gauge, welcomed, faults>>

-----------------------------------------------------------------------------
(* The end of a request. *)

Success == [create_user |-> 201, delete_user |-> 204,
            create_membership |-> 201, update_membership |-> 200, delete_membership |-> 204,
            create_org |-> 201, update_org |-> 200, delete_org |-> 204, registration |-> 200]

\* create_org flushes its membership here: the user may be gone.
OwnerMissing(r) == req[r].op = "create_org" /\ users[req[r].user] = none

\* A delete that removed no row is answered with 404 after its commit.
\* Mutant: the row count is not looked at.
ReplyTo_NoRowCount(r) == Success[req[r].op]

ReplyTo(r) ==
  IF req[r].op = "delete_membership" /\ req[r].writes = {} THEN 404 ELSE Success[req[r].op]

\* Mutant: the welcome mail is started whether or not the commit succeeds.
Welcomes_Early(r, done) == IF req[r].op = "create_user" THEN req[r].ids ELSE {}

\* The mail is started once the user is committed.
Welcomes(r, done) == IF req[r].op = "create_user" /\ done THEN req[r].ids ELSE {}

\* Mutant: the endpoint that deletes a user forgets to commit.
Commit_NotOfDelete(r) ==
  /\ req[r].pc = "flushed" /\ req[r].op # "update_user" /\ ~ OwnerMissing(r)
  /\ IF req[r].op = "delete_user" THEN UNCHANGED tables ELSE Committed(r)
  /\ req' = [req EXCEPT ![r].pc = "committed", ![r].reply = ReplyTo(r),
                        ![r].writes = IF req[r].op = "delete_user" THEN @ ELSE {}]
  /\ welcomed' = welcomed \cup Welcomes(r, TRUE)
  /\ UNCHANGED <<active_memberships_gauge, faults>>

Commit(r) ==
  /\ req[r].pc = "flushed" /\ req[r].op # "update_user"
  /\ req[r].op = "create_org" => ~ RowHeld(r, "user", req[r].user)
  /\ IF OwnerMissing(r) THEN Refuse(r, 500)
     ELSE /\ Committed(r)
          /\ req' = [req EXCEPT ![r] =
               [Idle EXCEPT !.op = req[r].op, !.ids = req[r].ids, !.target = req[r].target,
                            !.pc = "committed", !.reply = ReplyTo(r)]]
          /\ welcomed' = welcomed \cup Welcomes(r, TRUE)
          /\ UNCHANGED <<active_memberships_gauge, faults>>

CommitFails(r) ==
  /\ req[r].pc = "flushed" /\ req[r].op # "update_user"
  /\ faults < MaxFaults /\ faults' = faults + 1
  /\ Answer(r, 500)
  /\ welcomed' = welcomed \cup Welcomes(r, FALSE)
  /\ UNCHANGED <<tables, active_memberships_gauge>>

\* The decorator adds its activity row after the endpoint has returned, and the
\* session is closed: what is not committed by then is lost.
Close(r) ==
  /\ req[r].pc = "committed"
  /\ LET activity == IF req[r].op # "registration" /\ req[r].reply # 404
                     THEN {Change("activity", none, none)} ELSE {}
     IN req' = [req EXCEPT ![r].pc = "done", ![r].writes = {},
                           ![r].lost = req[r].writes \cup activity]
  /\ UNCHANGED <<tables, active_memberships_gauge, welcomed, faults>>

AllDone == (\A r \in Req : req[r].pc = "done") /\ UNCHANGED vars

Next ==
  \/ \E r \in Req :
       \/ Admit(r) \/ CreateUser(r) \/ LoadUser(r) \/ LookUpIdentity(r)
       \/ CheckOrgMembership(r)
       \/ LoadParents(r) \/ LoadMembership(r) \/ LoadOrg(r)
       \/ UpdateUser(r) \/ UpdateUserAnswered(r) \/ DeleteUser(r)
       \/ CreateMembership(r) \/ UpdateMembership(r) \/ DeleteMembership(r)
       \/ CreateOrg(r) \/ UpdateOrg(r) \/ DeleteOrg(r) \/ HandleRegistration(r)
       \/ Commit(r) \/ CommitFails(r) \/ Close(r)
  \/ AllDone

Spec == Init /\ [][Next]_vars

-----------------------------------------------------------------------------
(* Properties *)

\* A membership always has its user and its organization, and a user belongs to
\* an organization once, whatever is deleted while memberships are created.
MembershipsAreAnchored == Anchored(users, organizations, memberships)

\* Deliveries of one registration that race leave one user for the identity.
RegisteredOnce ==
  \A u, v \in UserId : users[u] # none /\ users[v] # none
    /\ users[u].identity = users[v].identity /\ users[u].identity # none => u = v

\* A user of Kratos appears together with an organization that it owns.
RegistrationIsWhole ==
  [][\A u \in UserId :
       users[u] = none /\ users'[u] # none /\ users'[u].identity # none =>
         \E m \in MembershipId :
           /\ memberships[m] = none /\ memberships'[m] # none
           /\ memberships'[m].user = u /\ memberships'[m].role = "owner"
           /\ organizations[memberships'[m].org] = none]_vars

\* Of the requests that delete one membership at most one is answered with 204.
DeletedOnce ==
  \A r, s \in Req :
    /\ req[r].op = "delete_membership" /\ req[s].op = "delete_membership"
    /\ req[r].reply = 204 /\ req[s].reply = 204 /\ req[r].target = req[s].target
    => r = s

\* A welcome mail goes to a user that has been committed, or was deleted since.
WelcomeIsCommitted ==
  \A u \in welcomed : users[u] # none \/ \E r \in Req : req[r].op = "delete_user"
                                             /\ req[r].target = u /\ req[r].reply = 204

\* A request that is answered with success leaves nothing uncommitted in its
\* session, neither what it was asked to write nor its activity row.
NothingIsLost ==
  \A r \in Req : req[r].reply \in {200, 201, 204} => req[r].lost = {}

\* What a request other than update_user was asked to write is committed when
\* it is answered with success; a deleted row and its memberships are gone.
AnswersAreDurable ==
  \A r \in Req : req[r].reply \in {200, 201, 204} /\ req[r].op # "update_user" =>
    /\ \A w \in req[r].lost : w.table = "activity"
    /\ req[r].op \in {"delete_user", "delete_org"} =>
         /\ req[r].target \in UserId => users[req[r].target] = none
         /\ req[r].target \in OrgId => organizations[req[r].target] = none
         /\ Cascade(req[r].target) = {}

\* Registrations that race, and whose commit may fail, leave one user per identity
\* and never one without an organization of its own.
RegistrationIsSound == []RegisteredOnce /\ RegistrationIsWhole

\* What a client is told has happened, once, and so has what others are told.
AnswersAreTrue == AnswersAreDurable /\ DeletedOnce /\ WelcomeIsCommitted

=============================================================================
