--------------------------- MODULE Accounts_proofs ---------------------------
(* The rows of users, organizations and memberships, and what the clients    *)
(* are told of them, for any number of requests, ids and initial rows.       *)
EXTENDS Accounts, FiniteSetTheorems, TLAPS

AnyId == UserId \cup OrgId \cup MembershipId

(* What sessions have flushed: every row in its own table.                   *)
Pending ==
  [table : {"user"}, id : UserId, row : User \cup {none}]
    \cup [table : {"org"}, id : OrgId, row : Organization \cup {none}]
    \cup [table : {"membership"}, id : MembershipId, row : Membership \cup {none}]

Named == Operation \cup {"none"}
Progress == {"idle", "admitted", "loaded", "flushed", "committed", "done"}
Sender == UserId \cup {none}
Target == AnyId \cup {none}
Row == User \cup Membership \cup Organization \cup {none}
Refusal == {400, 403, 404, 409, 500}
Reply == {0, 200, 201, 204} \cup Refusal

RequestState ==
  [op : Named, pc : Progress, user : Sender, target : Target, row : Row,
   ids : SUBSET AnyId, writes : SUBSET Pending, lost : SUBSET Write, reply : Reply]

StateTypes ==
  /\ users \in [UserId -> User \cup {none}]
  /\ organizations \in [OrgId -> Organization \cup {none}]
  /\ memberships \in [MembershipId -> Membership \cup {none}]
  /\ active_memberships_gauge \in Int
  /\ welcomed \subseteq UserId
  /\ faults \in 0 .. MaxFaults
  /\ req \in [Req -> RequestState]

-----------------------------------------------------------------------------
(* What a session has flushed, against the committed rows and against what   *)
(* the other sessions have flushed.                                          *)

SamePair(a, b) == a # none /\ b # none /\ a.user = b.user /\ a.org = b.org

Falls(row, i) == row # none /\ i \in {row.user, row.org}

Removes(w) == w.table \in {"user", "org"} /\ w.row = none

(* The row that a write changes is there, and keeps its parents.             *)
RowIsThere(w, us, gs, ms) ==
  /\ w.table = "user" /\ w.row # none => us[w.id] # none
  /\ w.table = "org" /\ w.row # none => gs[w.id] # none
  /\ w.table = "membership" => ms[w.id] # none
  /\ w.table = "membership" /\ w.row # none => SamePair(w.row, ms[w.id])

(* w is one of the writes W of a session whose new rows are ids.             *)
WriteInv(w, W, ids, us, gs, ms) ==
  /\ IF w.id \in ids THEN w.row # none ELSE RowIsThere(w, us, gs, ms)
  /\ w.table = "user" => \A v \in UserId \ {w.id} : ~ SameKey(us[v], w.row)
  /\ w.table = "membership" /\ w.row # none =>
       /\ us[w.row.user] # none \/ \E v \in W : v.table = "user" /\ v.id = w.row.user
       /\ gs[w.row.org] # none \/ \E v \in W : v.table = "org" /\ v.id = w.row.org
       /\ \A n \in MembershipId \ {w.id} : ~ SamePair(ms[n], w.row)
  /\ \A v \in W : w.table = v.table \/ w.row = none => v = w

SessionInv(W, ids, us, gs, ms) ==
  W \subseteq Pending /\ \A w \in W : WriteInv(w, W, ids, us, gs, ms)

(* Two sessions have flushed w and v.                                        *)
Compatible(w, v, ms) ==
  /\ w.table = v.table => w.id # v.id
  /\ w.table = "user" /\ v.table = "user" => ~ SameKey(w.row, v.row)
  /\ w.table = "membership" /\ v.table = "membership" => ~ SamePair(w.row, v.row)
  /\ w.table = "membership" /\ Removes(v) => ~ Falls(w.row, v.id) /\ ~ Falls(ms[w.id], v.id)

-----------------------------------------------------------------------------
(* A request on its way. *)

Working(q) ==
  /\ q.pc \in {"idle", "admitted", "loaded"} => q.ids = {} /\ q.writes = {}
  /\ q.pc \in {"idle", "admitted", "loaded", "flushed"} => q.reply = 0
  /\ q.pc = "done" \/ (q.pc = "committed" /\ q.op # "update_user") => q.writes = {}
  /\ q.pc = "admitted" => q.op \in TenantOp /\ q.user \in UserId
  /\ q.op # "update_user" => \A w \in q.lost : w.table = "activity"

(* What it has read; it may be gone by now.                                  *)
Loaded(q) ==
  q.pc = "loaded" =>
    /\ q.op \in {"update_user", "delete_user"} => q.target \in UserId
    /\ q.op \in {"update_membership", "delete_membership"} => q.target \in MembershipId
    /\ q.op \in {"update_org", "delete_org"} => q.target \in OrgId
    /\ q.op \in {"update_user", "registration"} => q.row \in User
    /\ q.op = "create_membership" => q.row \in Membership

(* What it has flushed.                                                      *)
Delivers(q) ==
  q.pc = "flushed" =>
    /\ q.op \in Operation \ {"check_org_membership"}
    /\ q.op = "create_user" =>
         \A i \in q.ids : i \in UserId /\ \E w \in q.writes : w.table = "user" /\ w.id = i
    /\ q.op = "create_org" =>
         /\ q.user \in UserId
         /\ \E g \in OrgId, m \in MembershipId :
              q.ids = {g, m} /\ q.writes = {Change("org", g, [name |-> "first"])}
    /\ q.op = "delete_user" =>
         q.target \in UserId /\ Change("user", q.target, none) \in q.writes
    /\ q.op = "delete_org" =>
         q.target \in OrgId /\ Change("org", q.target, none) \in q.writes
    /\ q.op = "delete_membership" =>
         /\ q.target \in MembershipId /\ q.ids = {}
         /\ q.writes \subseteq {Change("membership", q.target, none)}
    /\ \A w \in q.writes : w.table = "user" /\ w.row = none =>
         q.op = "delete_user" /\ w.id = q.target

(* A new user of Kratos comes with an organization that it owns.             *)
Founds(q) ==
  q.pc = "flushed" /\ q.op # "update_user" =>
    \A w \in q.writes : w.table = "user" /\ w.row # none /\ w.row.identity # none =>
      \E v \in q.writes :
        /\ v.table = "membership" /\ v.row # none /\ v.id \in q.ids
        /\ v.row.user = w.id /\ v.row.role = "owner" /\ v.row.org \in q.ids

(* What was answered to have been deleted stays so.                          *)
Gone(q, us, gs, ms) ==
  q.reply \in {200, 201, 204} =>
    /\ q.op = "delete_user" => q.target \in UserId /\ us[q.target] = none
    /\ q.op = "delete_org" => q.target \in OrgId /\ gs[q.target] = none
    /\ q.op = "delete_membership" => q.target \in MembershipId /\ ms[q.target] = none

ProgressInv(q) == Working(q) /\ Loaded(q) /\ Delivers(q) /\ Founds(q)

-----------------------------------------------------------------------------
(* Ids: a row that is or was committed has one that no later row gets.       *)

Used(i, q) == Initial(i) \/ \E r \in Req : i \in q[r].ids /\ q[r].pc # "flushed"

IdsInv(q) ==
  /\ \A r \in Req, i \in AnyId : i \in q[r].ids =>
       ~ Initial(i) /\ \A s \in Req \ {r} : i \notin q[s].ids
  /\ \A r \in Req : \A w \in q[r].writes : w.id \in q[r].ids \/ Used(w.id, q)
  /\ \A r \in Req : q[r].op # "create_user" /\ q[r].target # none => Used(q[r].target, q)

RowsInv(us, gs, ms, q) ==
  /\ KeysAreUnique(us) /\ Anchored(us, gs, ms)
  /\ \A u \in UserId : us[u] # none => Used(u, q)
  /\ \A g \in OrgId : gs[g] # none => Used(g, q)
  /\ \A m \in MembershipId : ms[m] # none => Used(m, q)

SessionsInv(us, gs, ms, q) ==
  \A r \in Req :
    /\ SessionInv(q[r].writes, q[r].ids, us, gs, ms)
    /\ Gone(q[r], us, gs, ms)
    /\ \A s \in Req \ {r} : \A w \in q[r].writes, v \in q[s].writes : Compatible(w, v, ms)

ClientsInv == DeletedOnce /\ WelcomeIsCommitted

RestInv ==
  /\ \A r \in Req : ProgressInv(req[r])
  /\ IdsInv(req)
  /\ RowsInv(users, organizations, memberships, req)
  /\ SessionsInv(users, organizations, memberships, req)
  /\ ClientsInv

IInv == StateTypes /\ RestInv

-----------------------------------------------------------------------------
(* Small facts. *)

LEMMA IdleIs ==
  /\ Idle \in RequestState
  /\ Idle.op = "none" /\ Idle.pc = "idle" /\ Idle.user = none /\ Idle.target = none
  /\ Idle.row = none /\ Idle.ids = {} /\ Idle.writes = {} /\ Idle.lost = {} /\ Idle.reply = 0
BY DEF Idle, RequestState, Named, Progress, Sender, Target, Row, Reply

LEMMA Updates ==
  ASSUME NEW x \in RequestState
  PROVE  /\ \A v \in Named : [x EXCEPT !.op = v] \in RequestState
         /\ \A v \in Progress : [x EXCEPT !.pc = v] \in RequestState
         /\ \A v \in Sender : [x EXCEPT !.user = v] \in RequestState
         /\ \A v \in Target : [x EXCEPT !.target = v] \in RequestState
         /\ \A v \in Row : [x EXCEPT !.row = v] \in RequestState
         /\ \A v \in SUBSET AnyId : [x EXCEPT !.ids = v] \in RequestState
         /\ \A v \in SUBSET Pending : [x EXCEPT !.writes = v] \in RequestState
         /\ \A v \in SUBSET Write : [x EXCEPT !.lost = v] \in RequestState
         /\ \A v \in Reply : [x EXCEPT !.reply = v] \in RequestState
<1>1. \A v \in Named : [x EXCEPT !.op = v] \in RequestState
  BY DEF RequestState
<1>2. \A v \in Progress : [x EXCEPT !.pc = v] \in RequestState
  BY DEF RequestState
<1>3. \A v \in Sender : [x EXCEPT !.user = v] \in RequestState
  BY DEF RequestState
<1>4. \A v \in Target : [x EXCEPT !.target = v] \in RequestState
  BY DEF RequestState
<1>5. \A v \in Row : [x EXCEPT !.row = v] \in RequestState
  BY DEF RequestState
<1>6. \A v \in SUBSET AnyId : [x EXCEPT !.ids = v] \in RequestState
  BY DEF RequestState
<1>7. \A v \in SUBSET Pending : [x EXCEPT !.writes = v] \in RequestState
  BY DEF RequestState
<1>8. \A v \in SUBSET Write : [x EXCEPT !.lost = v] \in RequestState
  BY DEF RequestState
<1>9. \A v \in Reply : [x EXCEPT !.reply = v] \in RequestState
  BY DEF RequestState
<1>10. QED
  BY <1>1, <1>2, <1>3, <1>4, <1>5, <1>6, <1>7, <1>8, <1>9

LEMMA TargetOps ==
  TenantOp \subseteq Operation /\ TenantOp \cap {"create_user", "update_user", "delete_user"} = {}
BY DEF TenantOp, Operation

LEMMA OthersHold ==
  ASSUME NEW r \in Req, NEW s \in Req \ {r}, NEW w \in req[s].writes
  PROVE  w \in Others(r)
BY DEF Others

LEMMA FreshIs ==
  ASSUME NEW S, NEW i \in Fresh(S)
  PROVE  i \in S /\ ~ Initial(i) /\ \A r \in Req : i \notin req[r].ids
BY DEF Fresh

LEMMA SameKeySymmetric ==
  ASSUME NEW a, NEW b
  PROVE  SameKey(a, b) <=> SameKey(b, a)
BY DEF SameKey

-----------------------------------------------------------------------------
(* A step that leaves the tables alone: request r becomes q.                 *)

LEMMA BecomesKeeps ==
  ASSUME StateTypes, RestInv, NEW r \in Req, NEW q \in RequestState,
         req' = [req EXCEPT ![r] = q], UNCHANGED <<tables, welcomed>>,
         ProgressInv(q),
         req[r].ids \subseteq q.ids, q.pc = "flushed" => req[r].ids = {},
         \A i \in q.ids : i \in req[r].ids
                            \/ (~ Initial(i) /\ \A s \in Req : i \notin req[s].ids),
         \A w \in q.writes : w.id \in q.ids \/ Used(w.id, req),
         q.op # "create_user" /\ q.target # none => Used(q.target, req),
         SessionInv(q.writes, q.ids, users, organizations, memberships),
         Gone(q, users, organizations, memberships),
         \A s \in Req \ {r} : \A w \in q.writes, v \in req[s].writes :
           Compatible(w, v, memberships) /\ Compatible(v, w, memberships),
         \/ req[r].reply = 0 /\ q.reply # 204
         \/ q.op = req[r].op /\ q.target = req[r].target /\ q.reply = req[r].reply
  PROVE  RestInv'
<1>1. req'[r] = q /\ \A s \in Req \ {r} : req'[s] = req[s]
  BY DEF StateTypes
<1>2. \A i : Used(i, req) => Used(i, req')
  BY <1>1 DEF Used
<1>3. \A s \in Req : ProgressInv(req'[s])
  BY <1>1 DEF RestInv
<1>4. IdsInv(req')
  <2>1. ASSUME NEW s \in Req, NEW i \in AnyId, i \in req'[s].ids
        PROVE  ~ Initial(i) /\ \A o \in Req \ {s} : i \notin req'[o].ids
    BY <1>1, <2>1 DEF RestInv, IdsInv
  <2>2. ASSUME NEW s \in Req, NEW w \in req'[s].writes
        PROVE  w.id \in req'[s].ids \/ Used(w.id, req')
    BY <1>1, <1>2 DEF RestInv, IdsInv
  <2>3. ASSUME NEW s \in Req, req'[s].op # "create_user", req'[s].target # none
        PROVE  Used(req'[s].target, req')
    BY <1>1, <1>2, <2>3 DEF RestInv, IdsInv
  <2>4. QED
    BY <2>1, <2>2, <2>3 DEF IdsInv
<1>5. RowsInv(users', organizations', memberships', req')
  BY <1>2 DEF RestInv, RowsInv, tables
<1>6. SessionsInv(users', organizations', memberships', req')
  <2> SUFFICES ASSUME NEW s \in Req
               PROVE  /\ SessionInv(req'[s].writes, req'[s].ids, users, organizations, memberships)
                      /\ Gone(req'[s], users, organizations, memberships)
                      /\ \A o \in Req \ {s} : \A w \in req'[s].writes, v \in req'[o].writes :
                           Compatible(w, v, memberships)
    BY DEF SessionsInv, tables
  <2>1. SessionInv(req'[s].writes, req'[s].ids, users, organizations, memberships)
    BY <1>1 DEF RestInv, SessionsInv
  <2>2. Gone(req'[s], users, organizations, memberships)
    BY <1>1 DEF RestInv, SessionsInv
  <2>3. \A o \in Req \ {s} : \A w \in req'[s].writes, v \in req'[o].writes :
          Compatible(w, v, memberships)
    BY <1>1 DEF RestInv, SessionsInv
  <2>4. QED
    BY <2>1, <2>2, <2>3
<1>7. ClientsInv'
  <2>1. DeletedOnce'
    BY <1>1 DEF RestInv, ClientsInv, DeletedOnce
  <2>2. WelcomeIsCommitted'
    BY <1>1 DEF RestInv, ClientsInv, WelcomeIsCommitted, tables
  <2>3. QED
    BY <2>1, <2>2 DEF ClientsInv
<1>8. QED
  BY <1>3, <1>4, <1>5, <1>6, <1>7 DEF RestInv

(* A request that has flushed nothing reads on, or ends.                     *)
LEMMA QuietKeeps ==
  ASSUME StateTypes, RestInv, NEW r \in Req, NEW q \in RequestState,
         req' = [req EXCEPT ![r] = q], UNCHANGED <<tables, welcomed>>,
         q.ids = req[r].ids, q.writes = {}, req[r].reply = 0,
         q.lost = {} \/ (q.lost = req[r].lost /\ q.op = req[r].op),
         \/ q.pc = "done" /\ q.reply # 204
              /\ (q.reply \in {200, 201} => q.op \notin {"delete_user", "delete_org", "delete_membership"})
         \/ q.pc = "admitted" /\ q.reply = 0 /\ q.ids = {} /\ q.op \in TenantOp /\ q.user \in UserId
         \/ q.pc = "loaded" /\ q.reply = 0 /\ q.ids = {} /\ Loaded(q),
         q.target # none => Used(q.target, req)
  PROVE  RestInv'
<1>1. ProgressInv(q)
  <2>1. q.op # "update_user" => \A w \in q.lost : w.table = "activity"
    BY DEF RestInv, ProgressInv, Working
  <2>2. QED
    BY <2>1 DEF ProgressInv, Working, Loaded, Delivers, Founds
<1>2. SessionInv(q.writes, q.ids, users, organizations, memberships)
  BY DEF SessionInv
<1>3. Gone(q, users, organizations, memberships)
  BY DEF Gone
<1>4. q.pc # "flushed" /\ q.reply # 204
  OBVIOUS
<1>5. QED
  BY <1>1, <1>2, <1>3, <1>4, BecomesKeeps

Ends(r, op, reply) == req' = [req EXCEPT ![r] = [Idle EXCEPT !.op = op, !.pc = "done", !.reply = reply]]

(* The answer to a request that ends without having deleted anything.        *)
LEMMA EndsKeeps ==
  ASSUME StateTypes, RestInv, NEW r \in Req, req[r].reply = 0, NEW op \in Operation,
         NEW reply \in {200} \cup Refusal,
         reply = 200 => op \in {"registration", "check_org_membership"},
         Ends(r, op, reply), req[r].ids = {}, UNCHANGED <<tables, welcomed>>
  PROVE  RestInv' /\ req' \in [Req -> RequestState]
<1> DEFINE q == [Idle EXCEPT !.op = op, !.pc = "done", !.reply = reply]
<1>0. op \in Named /\ "done" \in Progress /\ reply \in Reply
  BY DEF Named, Progress, Reply
<1>1. q \in RequestState
  BY <1>0, IdleIs DEF RequestState
<1>2. /\ q.op = op /\ q.pc = "done" /\ q.reply = reply /\ q.target = none
      /\ q.ids = {} /\ q.writes = {} /\ q.lost = {}
  BY IdleIs DEF RequestState
<1>3. req' = [req EXCEPT ![r] = q]
  BY DEF Ends
<1> HIDE DEF q
<1>4. /\ q.reply # 204
      /\ q.reply \in {200, 201} => q.op \notin {"delete_user", "delete_org", "delete_membership"}
  BY <1>2 DEF Refusal
<1>5. RestInv'
  BY <1>1, <1>2, <1>3, <1>4, QuietKeeps
<1>6. QED
  BY <1>1, <1>3, <1>5 DEF StateTypes

(* Rolled back.                                                              *)
LEMMA AnswerKeeps ==
  ASSUME StateTypes, RestInv, NEW r \in Req, req[r].reply = 0,
         NEW reply \in Refusal, Answer(r, reply), UNCHANGED <<tables, welcomed>>
  PROVE  RestInv' /\ req' \in [Req -> RequestState]
<1> DEFINE q == [Idle EXCEPT !.op = req[r].op, !.ids = req[r].ids, !.pc = "done", !.reply = reply]
<1>0. /\ req[r].op \in Named /\ req[r].ids \in SUBSET AnyId
      /\ "done" \in Progress /\ reply \in Reply
  BY DEF StateTypes, RequestState, Progress, Reply
<1>1. q \in RequestState
  BY <1>0, IdleIs DEF RequestState
<1>2. /\ q.op = req[r].op /\ q.pc = "done" /\ q.reply = reply /\ q.target = none
      /\ q.ids = req[r].ids /\ q.writes = {} /\ q.lost = {}
  BY IdleIs DEF RequestState
<1>3. req' = [req EXCEPT ![r] = q]
  BY DEF Answer
<1> HIDE DEF q
<1>4. q.reply \notin {200, 201, 204}
  BY <1>2 DEF Refusal
<1>5. RestInv'
  BY <1>1, <1>2, <1>3, <1>4, QuietKeeps
<1>6. QED
  BY <1>1, <1>3, <1>5 DEF StateTypes

LEMMA RefuseKeeps ==
  ASSUME StateTypes, RestInv, NEW r \in Req, req[r].reply = 0,
         NEW reply \in Refusal, Refuse(r, reply)
  PROVE  RestInv' /\ StateTypes'
BY AnswerKeeps DEF Refuse, StateTypes, tables

LEMMA LoadsKeeps ==
  ASSUME StateTypes, RestInv, NEW r \in Req, req[r].pc = "admitted",
         NEW op \in TenantOp, op = req[r].op, NEW target \in AnyId \cup {none},
         NEW row \in User \cup Membership \cup Organization,
         op \in {"update_membership", "delete_membership"} => target \in MembershipId,
         op \in {"update_org", "delete_org"} => target \in OrgId,
         op = "create_membership" => row \in Membership,
         target # none => Used(target, req), Loads(r, op, target, row)
  PROVE  RestInv' /\ StateTypes'
<1> DEFINE q == [req[r] EXCEPT !.op = op, !.pc = "loaded", !.target = target, !.row = row]
<1>0. req[r] \in RequestState /\ Working(req[r])
  BY DEF StateTypes, RestInv, ProgressInv
<1>1. q \in RequestState
  <2>1. op \in Named /\ "loaded" \in Progress /\ target \in Target /\ row \in Row
    BY TargetOps DEF Named, Progress, Target, Row
  <2>2. QED
    BY <1>0, <2>1 DEF RequestState
<1>2. /\ q.op = op /\ q.pc = "loaded" /\ q.reply = 0 /\ q.target = target /\ q.row = row
      /\ q.ids = {} /\ q.writes = {} /\ q.lost = req[r].lost
      /\ req[r].ids = {} /\ req[r].reply = 0
  BY <1>0 DEF RequestState, Working
<1>3. req' = [req EXCEPT ![r] = q] /\ UNCHANGED <<tables, active_memberships_gauge, welcomed, faults>>
  BY DEF Loads, StateTypes
<1> HIDE DEF q
<1>4. Loaded(q)
  BY <1>2 DEF Loaded, TenantOp
<1>5. RestInv'
  BY <1>1, <1>2, <1>3, <1>4, QuietKeeps
<1>6. QED
  BY <1>1, <1>3, <1>5 DEF StateTypes, tables

-----------------------------------------------------------------------------
(* The steps that read. *)

LEMMA AtRest ==
  ASSUME StateTypes, RestInv, NEW r \in Req
  PROVE  /\ req[r] \in RequestState
         /\ req[r].pc \in {"idle", "admitted", "loaded"} =>
              req[r].ids = {} /\ req[r].writes = {} /\ req[r].reply = 0
         /\ req[r].pc = "flushed" => req[r].reply = 0
         /\ req[r].pc = "admitted" => req[r].op \in TenantOp /\ req[r].user \in UserId
         /\ Loaded(req[r])
BY DEF StateTypes, RestInv, ProgressInv, Working

LEMMA AdmitKeeps ==
  ASSUME StateTypes, RestInv, NEW r \in Req, Admit(r)
  PROVE  RestInv' /\ StateTypes'
<1>1. req[r].pc = "idle" /\ UNCHANGED <<tables, active_memberships_gauge, welcomed, faults>>
  BY DEF Admit
<1>2. PICK op \in TenantOp, u \in UserId :
        \/ req' = [req EXCEPT ![r] = [Idle EXCEPT !.op = op, !.user = u, !.pc = "admitted"]]
        \/ Ends(r, op, 403)
  <2>1. PICK op \in Op \cap TenantOp, u \in UserId, admitted \in BOOLEAN :
          req' = [req EXCEPT ![r] =
            IF admitted THEN [Idle EXCEPT !.op = op, !.user = u, !.pc = "admitted"]
            ELSE [Idle EXCEPT !.op = op, !.pc = "done", !.reply = 403]]
    BY DEF Admit
  <2>2. QED
    BY <2>1 DEF Ends
<1>3. CASE Ends(r, op, 403)
  <2>1. 403 \in {200} \cup Refusal /\ op \in Operation
    BY TargetOps DEF Refusal
  <2>2. RestInv' /\ req' \in [Req -> RequestState]
    BY <1>1, <1>3, <2>1, AtRest, EndsKeeps
  <2>3. QED
    BY <1>1, <2>2 DEF StateTypes, tables
<1>4. CASE req' = [req EXCEPT ![r] = [Idle EXCEPT !.op = op, !.user = u, !.pc = "admitted"]]
  <2> DEFINE q == [Idle EXCEPT !.op = op, !.user = u, !.pc = "admitted"]
  <2>1. op \in Named /\ "admitted" \in Progress /\ u \in Sender
    BY TargetOps DEF Named, Progress, Sender
  <2>2. q \in RequestState
    BY <2>1, IdleIs DEF RequestState
  <2>3. /\ q.op = op /\ q.pc = "admitted" /\ q.user = u /\ q.reply = 0 /\ q.target = none
        /\ q.ids = {} /\ q.writes = {} /\ q.lost = {}
    BY IdleIs DEF RequestState
  <2>4. req' = [req EXCEPT ![r] = q]
    BY <1>4
  <2> HIDE DEF q
  <2>5. RestInv'
    BY <1>1, <2>2, <2>3, <2>4, AtRest, QuietKeeps
  <2>6. QED
    BY <1>1, <2>2, <2>4, <2>5 DEF StateTypes, tables
<1>5. QED
  BY <1>2, <1>3, <1>4

LEMMA LoadSelfKeeps ==
  ASSUME StateTypes, RestInv, NEW r \in Req, NEW op \in {"update_user", "delete_user"}, LoadSelf(r, op)
  PROVE  RestInv' /\ StateTypes'
<1>1. req[r].pc = "idle" /\ UNCHANGED <<tables, active_memberships_gauge, welcomed, faults>>
  BY DEF LoadSelf
<1>2. PICK u \in UserId :
        \/ Ends(r, op, 404)
        \/ /\ users[u] # none
           /\ req' = [req EXCEPT ![r] = [Idle EXCEPT !.op = op, !.pc = "loaded", !.target = u, !.row = users[u]]]
  BY DEF LoadSelf, Ends
<1>3. CASE Ends(r, op, 404)
  <2>1. 404 \in {200} \cup Refusal /\ op \in Operation
    BY DEF Refusal, Operation
  <2>2. RestInv' /\ req' \in [Req -> RequestState]
    BY <1>1, <1>3, <2>1, AtRest, EndsKeeps
  <2>3. QED
    BY <1>1, <2>2 DEF StateTypes, tables
<1>4. CASE /\ users[u] # none
           /\ req' = [req EXCEPT ![r] = [Idle EXCEPT !.op = op, !.pc = "loaded", !.target = u, !.row = users[u]]]
  <2> DEFINE q == [Idle EXCEPT !.op = op, !.pc = "loaded", !.target = u, !.row = users[u]]
  <2>0. users[u] \in User /\ Used(u, req)
    BY <1>4 DEF StateTypes, RestInv, RowsInv
  <2>1. op \in Named /\ "loaded" \in Progress /\ u \in Target /\ users[u] \in Row
    BY <2>0 DEF Named, Operation, Progress, Target, AnyId, Row
  <2>2. q \in RequestState
    BY <2>1, IdleIs DEF RequestState
  <2>3. /\ q.op = op /\ q.pc = "loaded" /\ q.row = users[u] /\ q.reply = 0 /\ q.target = u
        /\ q.ids = {} /\ q.writes = {} /\ q.lost = {}
    BY IdleIs DEF RequestState
  <2>4. req' = [req EXCEPT ![r] = q]
    BY <1>4
  <2> HIDE DEF q
  <2>5. Loaded(q)
    BY <2>0, <2>3 DEF Loaded
  <2>6. RestInv'
    BY <1>1, <2>0, <2>2, <2>3, <2>4, <2>5, AtRest, QuietKeeps
  <2>7. QED
    BY <1>1, <2>2, <2>4, <2>6 DEF StateTypes, tables
<1>5. QED
  BY <1>2, <1>3, <1>4

LEMMA LookUpIdentityKeeps ==
  ASSUME StateTypes, RestInv, NEW r \in Req, LookUpIdentity(r)
  PROVE  RestInv' /\ StateTypes'
<1>1. req[r].pc = "idle" /\ UNCHANGED <<tables, active_memberships_gauge, welcomed, faults>>
  BY DEF LookUpIdentity
<1>2. PICK i \in Identity, e \in Email :
        \/ Ends(r, "registration", 200)
        \/ req' = [req EXCEPT ![r] = [Idle EXCEPT !.op = "registration", !.pc = "loaded",
                                                  !.row = [email |-> e, identity |-> i]]]
  BY DEF LookUpIdentity, Ends
<1>3. CASE Ends(r, "registration", 200)
  <2>1. 200 \in {200} \cup Refusal /\ "registration" \in Operation
    BY DEF Operation
  <2>2. RestInv' /\ req' \in [Req -> RequestState]
    BY <1>1, <1>3, <2>1, AtRest, EndsKeeps
  <2>3. QED
    BY <1>1, <2>2 DEF StateTypes, tables
<1>4. CASE req' = [req EXCEPT ![r] = [Idle EXCEPT !.op = "registration", !.pc = "loaded",
                                                  !.row = [email |-> e, identity |-> i]]]
  <2> DEFINE row == [email |-> e, identity |-> i]
             q == [Idle EXCEPT !.op = "registration", !.pc = "loaded", !.row = row]
  <2>0. row \in User
    BY DEF User
  <2>4. req' = [req EXCEPT ![r] = q]
    BY <1>4
  <2> HIDE DEF row
  <2>1. "registration" \in Named /\ "loaded" \in Progress /\ row \in Row
    BY <2>0 DEF Named, Operation, Progress, Row
  <2>2. q \in RequestState
    BY <2>1, IdleIs DEF RequestState
  <2>3. /\ q.op = "registration" /\ q.pc = "loaded" /\ q.row = row /\ q.reply = 0 /\ q.target = none
        /\ q.ids = {} /\ q.writes = {} /\ q.lost = {}
    BY IdleIs DEF RequestState
  <2> HIDE DEF q
  <2>5. Loaded(q)
    BY <2>0, <2>3 DEF Loaded
  <2>6. RestInv'
    BY <1>1, <2>2, <2>3, <2>4, <2>5, AtRest, QuietKeeps
  <2>7. QED
    BY <1>1, <2>2, <2>4, <2>6 DEF StateTypes, tables
<1>5. QED
  BY <1>2, <1>3, <1>4

LEMMA CheckOrgMembershipKeeps ==
  ASSUME StateTypes, RestInv, NEW r \in Req, CheckOrgMembership(r)
  PROVE  RestInv' /\ StateTypes'
<1>1. req[r].pc = "idle" /\ UNCHANGED <<tables, active_memberships_gauge, welcomed, faults>>
  BY DEF CheckOrgMembership
<1>2. PICK reply \in {200, 403} : Ends(r, "check_org_membership", reply)
  BY DEF CheckOrgMembership, Ends
<1>3. reply \in {200} \cup Refusal /\ "check_org_membership" \in Operation
  BY DEF Operation, Refusal
<1>4. RestInv' /\ req' \in [Req -> RequestState]
  BY <1>1, <1>2, <1>3, AtRest, EndsKeeps
<1>5. QED
  BY <1>1, <1>4 DEF StateTypes, tables

LEMMA LoadParentsKeeps ==
  ASSUME StateTypes, RestInv, NEW r \in Req, LoadParents(r)
  PROVE  RestInv' /\ StateTypes'
<1>1. req[r].op = "create_membership" /\ req[r].pc = "admitted"
  BY DEF LoadParents, At
<1>2. PICK u \in UserId, g \in OrgId, role \in PayloadRole :
        \/ Refuse(r, 400)
        \/ Loads(r, "create_membership", none, [user |-> u, org |-> g, role |-> role])
  BY DEF LoadParents
<1>3. CASE Refuse(r, 400)
  BY <1>1, <1>3, AtRest, RefuseKeeps DEF Refusal
<1>4. CASE Loads(r, "create_membership", none, [user |-> u, org |-> g, role |-> role])
  <2>1. [user |-> u, org |-> g, role |-> role] \in Membership
    BY AccountsAssumption DEF Membership, MembershipRole
  <2>2. "create_membership" \in TenantOp
    BY DEF TenantOp
  <2>3. QED
    BY <1>1, <1>4, <2>1, <2>2, LoadsKeeps
<1>5. QED
  BY <1>2, <1>3, <1>4

LEMMA LoadMembershipKeeps ==
  ASSUME StateTypes, RestInv, NEW r \in Req, LoadMembership(r)
  PROVE  RestInv' /\ StateTypes'
<1>1. req[r].op \in {"update_membership", "delete_membership"} /\ req[r].pc = "admitted"
  BY DEF LoadMembership
<1>2. PICK m \in MembershipId :
        \/ \E reply \in {403, 404} : Refuse(r, reply)
        \/ memberships[m] # none /\ Loads(r, req[r].op, m, memberships[m])
  BY DEF LoadMembership
<1>3. CASE \E reply \in {403, 404} : Refuse(r, reply)
  BY <1>1, <1>3, AtRest, RefuseKeeps DEF Refusal
<1>4. CASE memberships[m] # none /\ Loads(r, req[r].op, m, memberships[m])
  <2>1. memberships[m] \in Membership /\ Used(m, req) /\ m \in AnyId
    BY <1>4 DEF StateTypes, RestInv, RowsInv, AnyId
  <2>2. req[r].op \in TenantOp
    BY <1>1 DEF TenantOp
  <2>3. QED
    BY <1>1, <1>4, <2>1, <2>2, LoadsKeeps
<1>5. QED
  BY <1>2, <1>3, <1>4

LEMMA LoadOrgKeeps ==
  ASSUME StateTypes, RestInv, NEW r \in Req, LoadOrg(r)
  PROVE  RestInv' /\ StateTypes'
<1>1. req[r].op \in {"update_org", "delete_org"} /\ req[r].pc = "admitted"
  BY DEF LoadOrg
<1>2. PICK g \in OrgId :
        \/ Refuse(r, 404)
        \/ organizations[g] # none /\ Loads(r, req[r].op, g, organizations[g])
  BY DEF LoadOrg
<1>3. CASE Refuse(r, 404)
  BY <1>1, <1>3, AtRest, RefuseKeeps DEF Refusal
<1>4. CASE organizations[g] # none /\ Loads(r, req[r].op, g, organizations[g])
  <2>1. organizations[g] \in Organization /\ Used(g, req) /\ g \in AnyId
    BY <1>4 DEF StateTypes, RestInv, RowsInv, AnyId
  <2>2. req[r].op \in TenantOp
    BY <1>1 DEF TenantOp
  <2>3. QED
    BY <1>1, <1>4, <2>1, <2>2, LoadsKeeps
<1>5. QED
  BY <1>2, <1>3, <1>4

-----------------------------------------------------------------------------
(* The steps that flush. *)

(* No row has had an unused id, no session writes one unless it owns it, and *)
(* no row refers to it.                                                      *)
LEMMA UnusedIds ==
  ASSUME StateTypes, RestInv, NEW i \in AnyId, ~ Used(i, req),
         NEW S \in SUBSET Req, \A s \in S : i \notin req[s].ids
  PROVE  /\ i \in UserId => users[i] = none
         /\ i \in OrgId => organizations[i] = none
         /\ i \in MembershipId => memberships[i] = none
         /\ \A s \in S : \A w \in req[s].writes :
              /\ w.id # i
              /\ w.table = "membership" /\ w.row # none => i \notin {w.row.user, w.row.org}
         /\ \A m \in MembershipId : ~ Falls(memberships[m], i)
<1>1. /\ i \in UserId => users[i] = none
      /\ i \in OrgId => organizations[i] = none
      /\ i \in MembershipId => memberships[i] = none
  BY DEF RestInv, RowsInv
<1>2. \A s \in S : \A w \in req[s].writes : w.id # i
  BY DEF RestInv, IdsInv
<1>3. ASSUME NEW s \in S, NEW w \in req[s].writes, w.table = "membership", w.row # none
      PROVE  i \notin {w.row.user, w.row.org}
  <2>1. w \in Pending /\ WriteInv(w, req[s].writes, req[s].ids, users, organizations, memberships)
    BY DEF RestInv, SessionsInv, SessionInv
  <2>2. w.row.user \in UserId /\ w.row.org \in OrgId
    BY <1>3, <2>1, RowsAssumption DEF Pending, Membership
  <2>3. i # w.row.user
    BY <1>1, <1>2, <1>3, <2>1, <2>2 DEF WriteInv
  <2>4. i # w.row.org
    BY <1>1, <1>2, <1>3, <2>1, <2>2 DEF WriteInv
  <2>5. QED
    BY <2>3, <2>4
<1>4. ASSUME NEW m \in MembershipId, memberships[m] # none
      PROVE  i \notin {memberships[m].user, memberships[m].org}
  <2>1. memberships[m].user \in UserId /\ memberships[m].org \in OrgId
    BY <1>4 DEF StateTypes, Membership
  <2>2. users[memberships[m].user] # none /\ organizations[memberships[m].org] # none
    BY <1>4 DEF RestInv, RowsInv, Anchored
  <2>3. QED
    BY <1>1, <2>1, <2>2
<1>5. QED
  BY <1>1, <1>2, <1>3, <1>4 DEF Falls

LEMMA NewIds ==
  ASSUME StateTypes, RestInv, NEW i \in AnyId, ~ Initial(i), \A s \in Req : i \notin req[s].ids
  PROVE  /\ i \in UserId => users[i] = none
         /\ i \in OrgId => organizations[i] = none
         /\ i \in MembershipId => memberships[i] = none
         /\ \A s \in Req : \A w \in req[s].writes :
              /\ w.id # i
              /\ w.table = "membership" /\ w.row # none => i \notin {w.row.user, w.row.org}
         /\ \A m \in MembershipId : ~ Falls(memberships[m], i)
<1>1. ~ Used(i, req)
  BY DEF Used
<1>2. QED
  BY <1>1, UnusedIds

LEMMA PendingIds ==
  ASSUME StateTypes, RestInv, NEW r \in Req, req[r].pc = "flushed", NEW i \in req[r].ids
  PROVE  /\ i \in AnyId /\ ~ Used(i, req)
         /\ i \in UserId => users[i] = none
         /\ i \in OrgId => organizations[i] = none
         /\ i \in MembershipId => memberships[i] = none
         /\ \A s \in Req \ {r} : \A w \in req[s].writes :
              /\ w.id # i
              /\ w.table = "membership" /\ w.row # none => i \notin {w.row.user, w.row.org}
         /\ \A m \in MembershipId : ~ Falls(memberships[m], i)
<1>1. i \in AnyId
  BY DEF StateTypes, RequestState
<1>2. ~ Initial(i) /\ \A s \in Req \ {r} : i \notin req[s].ids
  BY <1>1 DEF RestInv, IdsInv
<1>3. ~ Used(i, req)
  BY <1>2 DEF Used
<1>4. QED
  BY <1>1, <1>2, <1>3, UnusedIds

LEMMA FlushKeeps ==
  ASSUME StateTypes, RestInv, NEW r \in Req, NEW q \in RequestState,
         req' = [req EXCEPT ![r] = q], UNCHANGED <<tables, welcomed>>,
         req[r].pc \in {"idle", "admitted", "loaded"}, q.pc = "flushed", q.reply = 0,
         q.lost = {} \/ (q.lost = req[r].lost /\ q.op = req[r].op),
         Delivers(q), Founds(q),
         \A i \in q.ids : ~ Initial(i) /\ \A s \in Req : i \notin req[s].ids,
         \A w \in q.writes : w.id \in q.ids \/ Used(w.id, req),
         q.op # "create_user" => q.op = req[r].op /\ q.target = req[r].target,
         SessionInv(q.writes, q.ids, users, organizations, memberships),
         \A s \in Req \ {r} : \A w \in q.writes, v \in req[s].writes :
           Compatible(w, v, memberships) /\ Compatible(v, w, memberships)
  PROVE  RestInv'
<1>1. req[r].ids = {} /\ req[r].reply = 0
  BY AtRest
<1>2. ProgressInv(q)
  <2>1. q.op # "update_user" => \A w \in q.lost : w.table = "activity"
    BY DEF RestInv, ProgressInv, Working
  <2>2. QED
    BY <2>1 DEF ProgressInv, Working, Loaded
<1>3. q.op # "create_user" /\ q.target # none => Used(q.target, req)
  BY DEF RestInv, IdsInv
<1>4. Gone(q, users, organizations, memberships)
  BY DEF Gone
<1>5. q.reply # 204 /\ req[r].ids \subseteq q.ids
  BY <1>1
<1>6. QED
  BY <1>1, <1>2, <1>3, <1>4, <1>5, BecomesKeeps

LEMMA FlushedKeeps ==
  ASSUME StateTypes, RestInv, NEW r \in Req, req[r].pc \in {"admitted", "loaded"},
         NEW W \in SUBSET Pending, NEW ids \in SUBSET AnyId, Flushed(r, W, ids),
         active_memberships_gauge' \in Int,
         \A q : /\ q.pc = "flushed" /\ q.op = req[r].op /\ q.user = req[r].user
                /\ q.target = req[r].target /\ q.ids = ids /\ q.writes = W
                => Delivers(q) /\ Founds(q),
         req[r].op # "create_user",
         \A i \in ids : ~ Initial(i) /\ \A s \in Req : i \notin req[s].ids,
         \A w \in W : w.id \in ids \/ Used(w.id, req),
         SessionInv(W, ids, users, organizations, memberships),
         \A s \in Req \ {r} : \A w \in W, v \in req[s].writes :
           Compatible(w, v, memberships) /\ Compatible(v, w, memberships)
  PROVE  RestInv' /\ StateTypes'
<1> DEFINE q == [req[r] EXCEPT !.pc = "flushed", !.writes = W, !.ids = ids]
<1>1. req' = [req EXCEPT ![r] = q] /\ UNCHANGED <<tables, welcomed, faults>>
  BY DEF Flushed, StateTypes
<1>2. req[r] \in RequestState /\ "flushed" \in Progress
  BY AtRest DEF Progress
<1>3. q \in RequestState
  BY <1>2 DEF RequestState
<1>4. /\ q.pc = "flushed" /\ q.op = req[r].op /\ q.user = req[r].user /\ q.target = req[r].target
      /\ q.ids = ids /\ q.writes = W /\ q.reply = req[r].reply /\ q.lost = req[r].lost
  BY <1>2 DEF RequestState
<1> HIDE DEF q
<1>5. Delivers(q) /\ Founds(q)
  BY <1>4
<1>6. q.reply = 0
  BY <1>4, AtRest
<1>7. RestInv'
  BY <1>1, <1>3, <1>4, <1>5, <1>6, FlushKeeps
<1>8. QED
  BY <1>1, <1>3, <1>7 DEF StateTypes, tables

(* The writes of the other sessions, as rows of their tables.                *)
LEMMA OtherWrites ==
  ASSUME StateTypes, RestInv, NEW s \in Req, NEW v \in req[s].writes
  PROVE  /\ v.table \in {"user", "org", "membership"}
         /\ v.table = "user" => v.id \in UserId /\ v.row \in User \cup {none}
         /\ v.table = "org" => v.id \in OrgId /\ v.row \in Organization \cup {none}
         /\ v.table = "membership" => v.id \in MembershipId /\ v.row \in Membership \cup {none}
         /\ WriteInv(v, req[s].writes, req[s].ids, users, organizations, memberships)
BY DEF RestInv, SessionsInv, SessionInv, Pending

LEMMA ChangeIs ==
  ASSUME NEW tbl, NEW i, NEW row
  PROVE  Change(tbl, i, row).table = tbl /\ Change(tbl, i, row).id = i /\ Change(tbl, i, row).row = row
BY DEF Change

LEMMA ChangeIsPending ==
  /\ \A u \in UserId, row \in User \cup {none} : Change("user", u, row) \in Pending
  /\ \A g \in OrgId, row \in Organization \cup {none} : Change("org", g, row) \in Pending
  /\ \A m \in MembershipId, row \in Membership \cup {none} : Change("membership", m, row) \in Pending
BY DEF Change, Pending

LEMMA NotHeld ==
  ASSUME NEW r \in Req, NEW tbl, NEW i, ~ RowHeld(r, tbl, i),
         NEW s \in Req \ {r}, NEW v \in req[s].writes, v.table = tbl
  PROVE  v.id # i
BY OthersHold DEF RowHeld

(* No other session writes membership m, or deletes a parent of it.          *)
LEMMA MembershipNotHeld ==
  ASSUME NEW r \in Req, NEW m \in MembershipId, ~ MembershipHeld(r, m),
         NEW s \in Req \ {r}, NEW v \in req[s].writes
  PROVE  /\ v.table = "membership" => v.id # m
         /\ Removes(v) => ~ Falls(memberships[m], v.id)
BY OthersHold DEF MembershipHeld, RowHeld, Cascade, Removes, Falls

(* What must hold to delete user or organization i.                          *)
LEMMA CanDeleteIs ==
  ASSUME StateTypes, RestInv, NEW r \in Req, NEW tbl, NEW i, CanDelete(r, tbl, i),
         NEW s \in Req \ {r}, NEW v \in req[s].writes
  PROVE  /\ v.table = tbl => v.id # i
         /\ v.table = "membership" => ~ Falls(v.row, i) /\ ~ Falls(memberships[v.id], i)
<1>1. v.table = tbl => v.id # i
  BY NotHeld DEF CanDelete
<1>2. ASSUME v.table = "membership" PROVE ~ Falls(v.row, i)
  BY <1>2, OthersHold DEF CanDelete, ParentHeld, Falls
<1>3. ASSUME v.table = "membership", Falls(memberships[v.id], i) PROVE FALSE
  <2>1. v.id \in Cascade(i)
    BY <1>3, OtherWrites DEF Cascade, Falls
  <2>2. ~ MembershipHeld(r, v.id) /\ v.id \in MembershipId
    BY <2>1 DEF CanDelete, Cascade
  <2>3. QED
    BY <1>3, <2>2, MembershipNotHeld
<1>4. QED
  BY <1>1, <1>2, <1>3

LEMMA UserKeyFree ==
  ASSUME NEW r \in Req, NEW u, NEW row, ~ UserKeyHeld(r, u, row),
         NEW s \in Req \ {r}, NEW v \in req[s].writes, v.table = "user", v.id # u
  PROVE  ~ SameKey(v.row, row) /\ ~ SameKey(row, v.row)
BY OthersHold, SameKeySymmetric DEF UserKeyHeld

LEMMA UpdateUserKeeps ==
  ASSUME StateTypes, RestInv, NEW r \in Req, UpdateUser(r)
  PROVE  RestInv' /\ StateTypes'
<1> DEFINE u == req[r].target
<1>1. /\ req[r].op = "update_user" /\ req[r].pc = "loaded" /\ ~ RowHeld(r, "user", u)
      /\ u \in UserId /\ req[r].row \in User
  BY AtRest DEF UpdateUser, At, Loaded
<1>2. PICK row \in User :
        /\ ~ UserKeyHeld(r, u, row)
        /\ \/ Refuse(r, 500)
           \/ /\ users[u] # none /\ ~ UserKeyTaken(u, row)
              /\ Flushed(r, {Change("user", u, row)}, {}) /\ Uncounted
  <2>1. PICK e \in Email :
          LET row == [req[r].row EXCEPT !.email = e]
          IN /\ ~ UserKeyHeld(r, u, row)
             /\ IF users[u] = none \/ UserKeyTaken(u, row) THEN Refuse(r, 500)
                ELSE Flushed(r, {Change("user", u, row)}, {}) /\ Uncounted
    BY DEF UpdateUser
  <2>2. [req[r].row EXCEPT !.email = e] \in User
    BY <1>1 DEF User
  <2>3. QED
    BY <2>1, <2>2
<1>3. CASE Refuse(r, 500)
  BY <1>1, <1>3, AtRest, RefuseKeeps DEF Refusal
<1>4. CASE /\ users[u] # none /\ ~ UserKeyTaken(u, row)
           /\ Flushed(r, {Change("user", u, row)}, {}) /\ Uncounted
  <2> DEFINE w == Change("user", u, row)
  <2>1. w.table = "user" /\ w.id = u /\ w.row = row /\ w \in Pending /\ row # none
    BY <1>1, ChangeIs, ChangeIsPending, RowsAssumption
  <2>2. Used(u, req)
    BY <1>1, <1>4 DEF RestInv, RowsInv
  <2> HIDE DEF w, u
  <2>3. SessionInv({w}, {}, users, organizations, memberships)
    BY <1>4, <2>1 DEF SessionInv, WriteInv, RowIsThere, UserKeyTaken
  <2>4. ASSUME NEW s \in Req \ {r}, NEW v \in req[s].writes
        PROVE  Compatible(w, v, memberships) /\ Compatible(v, w, memberships)
    <3>1. v.table = "user" => v.id # u
      BY <1>1, NotHeld
    <3>2. v.table = "user" => ~ SameKey(v.row, row) /\ ~ SameKey(row, v.row)
      BY <1>2, <3>1, UserKeyFree
    <3>3. QED
      BY <2>1, <3>1, <3>2 DEF Compatible, Removes
  <2>5. ASSUME NEW q, q.pc = "flushed", q.op = req[r].op, q.writes = {w}
        PROVE  Delivers(q) /\ Founds(q)
    BY <1>1, <2>1, <2>5 DEF Delivers, Founds, Operation
  <2>6. Flushed(r, {w}, {}) /\ active_memberships_gauge' \in Int
    BY <1>4 DEF w, u, Uncounted, StateTypes
  <2>7. QED
    BY <1>1, <2>1, <2>2, <2>3, <2>4, <2>5, <2>6, FlushedKeeps
<1>5. QED
  BY <1>2, <1>3, <1>4

LEMMA DeleteUserKeeps ==
  ASSUME StateTypes, RestInv, NEW r \in Req, DeleteUser(r)
  PROVE  RestInv' /\ StateTypes'
<1> DEFINE u == req[r].target
           w == Change("user", u, none)
<1>1. /\ req[r].op = "delete_user" /\ req[r].pc = "loaded" /\ CanDelete(r, "user", u) /\ u \in UserId
      /\ Flushed(r, {w}, {}) /\ Uncounted
  BY AtRest DEF DeleteUser, At, Loaded
<1>2. w.table = "user" /\ w.id = u /\ w.row = none /\ w \in Pending
  BY <1>1, ChangeIs, ChangeIsPending
<1>3. Used(u, req)
  BY <1>1, IdsAssumption DEF RestInv, IdsInv
<1>4. ASSUME NEW q, q.pc = "flushed", q.op = req[r].op, q.target = req[r].target, q.writes = {w}
      PROVE  Delivers(q) /\ Founds(q)
  BY <1>1, <1>2, <1>4 DEF Delivers, Founds, Operation
<1> HIDE DEF w, u
<1>5. SessionInv({w}, {}, users, organizations, memberships)
  BY <1>1, <1>2 DEF SessionInv, WriteInv, RowIsThere, SameKey
<1>6. ASSUME NEW s \in Req \ {r}, NEW v \in req[s].writes
      PROVE  Compatible(w, v, memberships) /\ Compatible(v, w, memberships)
  BY <1>1, <1>2, CanDeleteIs DEF Compatible, SameKey
<1>7. active_memberships_gauge' \in Int
  BY <1>1 DEF Uncounted, StateTypes
<1>8. QED
  BY <1>1, <1>2, <1>3, <1>4, <1>5, <1>6, <1>7, FlushedKeeps

LEMMA CreateUserKeeps ==
  ASSUME StateTypes, RestInv, NEW r \in Req, CreateUser(r)
  PROVE  RestInv' /\ StateTypes'
<1>1. req[r].pc = "idle" /\ UNCHANGED <<tables, active_memberships_gauge, welcomed, faults>>
  BY DEF CreateUser
<1>2. PICK u \in Fresh(UserId), row \in User :
        /\ row.identity = none /\ ~ UserKeyHeld(r, u, row)
        /\ \/ Ends(r, "create_user", 409)
           \/ /\ ~ UserKeyTaken(u, row)
              /\ req' = [req EXCEPT ![r] =
                   [Idle EXCEPT !.op = "create_user", !.pc = "flushed", !.target = u,
                                !.ids = {u}, !.writes = {Change("user", u, row)}]]
  <2>1. PICK u \in Fresh(UserId), e \in Email :
          LET row == [email |-> e, identity |-> none] IN
          /\ ~ UserKeyHeld(r, u, row)
          /\ req' = [req EXCEPT ![r] =
               IF UserKeyTaken(u, row)
               THEN [Idle EXCEPT !.op = "create_user", !.pc = "done", !.reply = 409]
               ELSE [Idle EXCEPT !.op = "create_user", !.pc = "flushed", !.target = u,
                                 !.ids = {u}, !.writes = {Change("user", u, row)}]]
    BY DEF CreateUser
  <2> DEFINE row == [email |-> e, identity |-> none]
  <2>2. row \in User /\ row.identity = none
    BY DEF User
  <2>3. /\ ~ UserKeyHeld(r, u, row)
        /\ req' = [req EXCEPT ![r] =
             IF UserKeyTaken(u, row)
             THEN [Idle EXCEPT !.op = "create_user", !.pc = "done", !.reply = 409]
             ELSE [Idle EXCEPT !.op = "create_user", !.pc = "flushed", !.target = u,
                               !.ids = {u}, !.writes = {Change("user", u, row)}]]
    BY <2>1
  <2> HIDE DEF row
  <2>4. QED
    BY <2>2, <2>3 DEF Ends
<1>3. CASE Ends(r, "create_user", 409)
  <2>1. 409 \in {200} \cup Refusal /\ "create_user" \in Operation
    BY DEF Operation, Refusal
  <2>2. RestInv' /\ req' \in [Req -> RequestState]
    BY <1>1, <1>3, <2>1, AtRest, EndsKeeps
  <2>3. QED
    BY <1>1, <2>2 DEF StateTypes, tables
<1>4. CASE /\ ~ UserKeyTaken(u, row)
           /\ req' = [req EXCEPT ![r] =
                [Idle EXCEPT !.op = "create_user", !.pc = "flushed", !.target = u,
                             !.ids = {u}, !.writes = {Change("user", u, row)}]]
  <2> DEFINE w == Change("user", u, row)
             q == [Idle EXCEPT !.op = "create_user", !.pc = "flushed", !.target = u,
                               !.ids = {u}, !.writes = {w}]
  <2>1. u \in UserId /\ u \in AnyId /\ ~ Initial(u) /\ \A s \in Req : u \notin req[s].ids
    BY FreshIs DEF AnyId
  <2>2. w.table = "user" /\ w.id = u /\ w.row = row /\ w \in Pending /\ row # none
    BY <2>1, ChangeIs, ChangeIsPending, RowsAssumption
  <2>3. req' = [req EXCEPT ![r] = q]
    BY <1>4
  <2> HIDE DEF w
  <2>4. /\ "create_user" \in Named /\ "flushed" \in Progress /\ u \in Target
        /\ {u} \in SUBSET AnyId /\ {w} \in SUBSET Pending
    BY <2>1, <2>2 DEF Named, Operation, Progress, Target
  <2>5. q \in RequestState
    BY <2>4, IdleIs DEF RequestState
  <2>6. /\ q.op = "create_user" /\ q.pc = "flushed" /\ q.target = u /\ q.ids = {u}
        /\ q.writes = {w} /\ q.reply = 0 /\ q.lost = {}
    BY IdleIs DEF RequestState
  <2> HIDE DEF q
  <2>7. Delivers(q) /\ Founds(q)
    BY <1>2, <2>1, <2>2, <2>6 DEF Delivers, Founds, Operation
  <2>8. SessionInv({w}, {u}, users, organizations, memberships)
    BY <1>4, <2>2 DEF SessionInv, WriteInv, UserKeyTaken
  <2>9. ASSUME NEW s \in Req \ {r}, NEW v \in req[s].writes
        PROVE  Compatible(w, v, memberships) /\ Compatible(v, w, memberships)
    <3>1. v.id # u
      BY <2>1, NewIds
    <3>2. v.table = "user" => ~ SameKey(v.row, row) /\ ~ SameKey(row, v.row)
      BY <1>2, <3>1, UserKeyFree
    <3>3. QED
      BY <2>2, <3>1, <3>2 DEF Compatible, Removes
  <2>10. RestInv'
    <3>1. \A i \in q.ids : ~ Initial(i) /\ \A s \in Req : i \notin req[s].ids
      BY <2>1, <2>6
    <3>2. \A x \in q.writes : x.id \in q.ids
      BY <2>2, <2>6
    <3>3. SessionInv(q.writes, q.ids, users, organizations, memberships)
      BY <2>6, <2>8
    <3>4. \A s \in Req \ {r} : \A x \in q.writes, v \in req[s].writes :
            Compatible(x, v, memberships) /\ Compatible(v, x, memberships)
      BY <2>6, <2>9
    <3>5. q.pc = "flushed" /\ q.reply = 0 /\ q.lost = {} /\ q.op = "create_user"
      BY <2>6
    <3>6. QED
      BY <1>1, <2>3, <2>5, <2>7, <3>1, <3>2, <3>3, <3>4, <3>5, FlushKeeps
  <2>11. QED
    BY <1>1, <2>3, <2>5, <2>10 DEF StateTypes, tables
<1>5. QED
  BY <1>2, <1>3, <1>4

LEMMA CreateMembershipKeeps ==
  ASSUME StateTypes, RestInv, NEW r \in Req, CreateMembership(r)
  PROVE  RestInv' /\ StateTypes'
<1> DEFINE row == req[r].row
<1>1. /\ req[r].op = "create_membership" /\ req[r].pc = "loaded" /\ row \in Membership
      /\ ParentsFree(r, row.user, row.org) /\ ~ PairHeld(r, row.user, row.org)
  BY AtRest DEF CreateMembership, At, Loaded
<1>2. CASE \E reply \in {409, 500} : Refuse(r, reply)
  BY <1>1, <1>2, AtRest, RefuseKeeps DEF Refusal
<1>3. CASE /\ ~ PairTaken(row.user, row.org) /\ ParentsExist(r, row.user, row.org)
           /\ \E m \in Fresh(MembershipId) :
                /\ Flushed(r, {Change("membership", m, row)}, {m})
                /\ active_memberships_gauge' = active_memberships_gauge + 1
  <2>1. PICK m \in Fresh(MembershipId) :
          /\ Flushed(r, {Change("membership", m, row)}, {m})
          /\ active_memberships_gauge' = active_memberships_gauge + 1
    BY <1>3
  <2> DEFINE w == Change("membership", m, row)
  <2>2. m \in MembershipId /\ m \in AnyId /\ ~ Initial(m) /\ \A s \in Req : m \notin req[s].ids
    BY FreshIs DEF AnyId
  <2>3. w.table = "membership" /\ w.id = m /\ w.row = row /\ w \in Pending /\ row # none
    BY <1>1, <2>2, ChangeIs, ChangeIsPending, RowsAssumption
  <2>4. row.user \in UserId /\ row.org \in OrgId
    BY <1>1 DEF Membership
  <2>5. Flushed(r, {w}, {m}) /\ active_memberships_gauge' \in Int
    BY <2>1 DEF StateTypes
  <2> HIDE DEF w, row
  <2>6. memberships[m] = none
    BY <2>2, NewIds
  <2>7. SessionInv({w}, {m}, users, organizations, memberships)
    <3>1. users[row.user] # none /\ organizations[row.org] # none
      BY <1>1, <1>3, AtRest DEF ParentsExist
    <3>2. \A n \in MembershipId : ~ SamePair(memberships[n], row)
      BY <1>3 DEF PairTaken, PairOf, SamePair
    <3>3. QED
      BY <2>3, <3>1, <3>2 DEF SessionInv, WriteInv
  <2>8. ASSUME NEW s \in Req \ {r}, NEW v \in req[s].writes
        PROVE  Compatible(w, v, memberships) /\ Compatible(v, w, memberships)
    <3>1. v.id # m
      BY <2>2, NewIds
    <3>2. v.table = "membership" => ~ SamePair(v.row, row) /\ ~ SamePair(row, v.row)
      BY <1>1, OthersHold DEF PairHeld, PairOf, SamePair
    <3>3. Removes(v) => ~ Falls(row, v.id)
      <4>1. v.table = "user" => v.id # row.user
        BY <1>1, NotHeld DEF ParentsFree
      <4>2. v.table = "org" /\ v.row = none => v.id # row.org
        BY <1>1, OthersHold DEF ParentsFree
      <4>3. /\ v.table = "user" => v.id \in UserId
            /\ v.table = "org" => v.id \in OrgId
        BY OtherWrites
      <4>4. QED
        BY <2>4, <4>1, <4>2, <4>3, IdsAssumption DEF Removes, Falls
    <3>4. QED
      BY <2>3, <2>6, <3>1, <3>2, <3>3 DEF Compatible, Removes, Falls
  <2>9. ASSUME NEW q, q.pc = "flushed", q.op = req[r].op, q.writes = {w}
        PROVE  Delivers(q) /\ Founds(q)
    BY <1>1, <2>3, <2>9 DEF Delivers, Founds, Operation
  <2>10. QED
    BY <1>1, <2>2, <2>3, <2>5, <2>7, <2>8, <2>9, FlushedKeeps
<1>4. QED
  BY <1>2, <1>3 DEF CreateMembership

LEMMA UpdateMembershipKeeps ==
  ASSUME StateTypes, RestInv, NEW r \in Req, UpdateMembership(r)
  PROVE  RestInv' /\ StateTypes'
<1> DEFINE m == req[r].target
<1>1. /\ req[r].op = "update_membership" /\ req[r].pc = "loaded" /\ m \in MembershipId
      /\ ~ MembershipHeld(r, m)
  BY AtRest DEF UpdateMembership, At, Loaded
<1>2. CASE Refuse(r, 500)
  BY <1>1, <1>2, AtRest, RefuseKeeps DEF Refusal
<1>3. CASE /\ memberships[m] # none
           /\ \E role \in PayloadRole :
                Flushed(r, {Change("membership", m, [memberships[m] EXCEPT !.role = role])}, {})
                  /\ Uncounted
  <2>1. PICK role \in PayloadRole :
          Flushed(r, {Change("membership", m, [memberships[m] EXCEPT !.role = role])}, {})
            /\ Uncounted
    BY <1>3
  <2> DEFINE row == [memberships[m] EXCEPT !.role = role]
             w == Change("membership", m, row)
  <2>2. memberships[m] \in Membership
    BY <1>1, <1>3 DEF StateTypes
  <2>3. role \in MembershipRole
    BY AccountsAssumption DEF MembershipRole
  <2>4. row \in Membership /\ row.user = memberships[m].user /\ row.org = memberships[m].org
    BY <2>2, <2>3 DEF Membership
  <2>5. Flushed(r, {w}, {}) /\ active_memberships_gauge' \in Int
    BY <2>1 DEF StateTypes, Uncounted
  <2> HIDE DEF row
  <2>6. w.table = "membership" /\ w.id = m /\ w.row = row /\ w \in Pending /\ row # none
    BY <1>1, <2>4, ChangeIs, ChangeIsPending, RowsAssumption
  <2> HIDE DEF w, m
  <2>7. Used(m, req)
    BY <1>1, <1>3 DEF RestInv, RowsInv
  <2>8. SessionInv({w}, {}, users, organizations, memberships)
    <3>1. /\ users[row.user] # none /\ organizations[row.org] # none
          /\ \A n \in MembershipId \ {m} : ~ SamePair(memberships[n], row)
      BY <1>1, <1>3, <2>4 DEF RestInv, RowsInv, Anchored, SamePair
    <3>2. SamePair(row, memberships[m])
      BY <1>3, <2>4, <2>6 DEF SamePair
    <3>3. QED
      BY <1>3, <2>6, <3>1, <3>2 DEF SessionInv, WriteInv, RowIsThere
  <2>9. ASSUME NEW s \in Req \ {r}, NEW v \in req[s].writes
        PROVE  Compatible(w, v, memberships) /\ Compatible(v, w, memberships)
    <3>1. /\ v.table = "membership" => v.id # m
          /\ Removes(v) => ~ Falls(memberships[m], v.id)
      BY <1>1, MembershipNotHeld
    <3>2. ASSUME v.table = "membership" PROVE ~ SamePair(row, v.row) /\ ~ SamePair(v.row, row)
      <4>1. v.row # none => ~ SamePair(memberships[m], v.row)
        BY <1>1, <3>1, <3>2, OtherWrites DEF WriteInv
      <4>2. QED
        BY <1>3, <2>4, <4>1 DEF SamePair
    <3>3. Removes(v) => ~ Falls(row, v.id)
      BY <1>3, <2>4, <3>1 DEF Falls
    <3>4. QED
      BY <2>6, <3>1, <3>2, <3>3 DEF Compatible, Removes
  <2>10. ASSUME NEW q, q.pc = "flushed", q.op = req[r].op, q.writes = {w}
         PROVE  Delivers(q) /\ Founds(q)
    BY <1>1, <2>6, <2>10 DEF Delivers, Founds, Operation
  <2>11. QED
    BY <1>1, <2>5, <2>6, <2>7, <2>8, <2>9, <2>10, FlushedKeeps
<1>4. QED
  BY <1>2, <1>3 DEF UpdateMembership

LEMMA DeleteMembershipKeeps ==
  ASSUME StateTypes, RestInv, NEW r \in Req, DeleteMembership(r)
  PROVE  RestInv' /\ StateTypes'
<1> DEFINE m == req[r].target
           w == Change("membership", m, none)
<1>1. /\ req[r].op = "delete_membership" /\ req[r].pc = "loaded" /\ m \in MembershipId
      /\ ~ MembershipHeld(r, m)
  BY AtRest DEF DeleteMembership, At, Loaded
<1>2. active_memberships_gauge' \in Int
  BY DEF DeleteMembership, Uncounted, StateTypes
<1>3. w.table = "membership" /\ w.id = m /\ w.row = none /\ w \in Pending
  BY <1>1, ChangeIs, ChangeIsPending
<1>4. ASSUME NEW q, q.pc = "flushed", q.op = req[r].op, q.target = req[r].target, q.ids = {},
             NEW W \in SUBSET {w}, q.writes = W
      PROVE  Delivers(q) /\ Founds(q)
  BY <1>1, <1>3, <1>4 DEF Delivers, Founds, Operation
<1>5. CASE Flushed(r, {}, {})
  <2>1. SessionInv({}, {}, users, organizations, memberships)
    BY DEF SessionInv
  <2>2. \A q : /\ q.pc = "flushed" /\ q.op = req[r].op /\ q.user = req[r].user
               /\ q.target = req[r].target /\ q.ids = {} /\ q.writes = {}
               => Delivers(q) /\ Founds(q)
    BY <1>4
  <2> HIDE DEF w, m
  <2>3. QED
    BY <1>1, <1>2, <1>5, <2>1, <2>2, FlushedKeeps
<1>6. CASE memberships[m] # none /\ Flushed(r, {w}, {})
  <2>1. \A q : /\ q.pc = "flushed" /\ q.op = req[r].op /\ q.user = req[r].user
               /\ q.target = req[r].target /\ q.ids = {} /\ q.writes = {w}
               => Delivers(q) /\ Founds(q)
    BY <1>4
  <2> HIDE DEF w, m
  <2>2. Used(m, req)
    BY <1>1, <1>6 DEF RestInv, RowsInv
  <2>3. SessionInv({w}, {}, users, organizations, memberships)
    BY <1>3, <1>6 DEF SessionInv, WriteInv, RowIsThere
  <2>4. ASSUME NEW s \in Req \ {r}, NEW v \in req[s].writes
        PROVE  Compatible(w, v, memberships) /\ Compatible(v, w, memberships)
    <3>1. /\ v.table = "membership" => v.id # m
          /\ Removes(v) => ~ Falls(memberships[m], v.id)
      BY <1>1, MembershipNotHeld
    <3>2. QED
      BY <1>3, <3>1 DEF Compatible, Removes, Falls, SamePair
  <2>5. QED
    BY <1>1, <1>2, <1>3, <1>6, <2>1, <2>2, <2>3, <2>4, FlushedKeeps
<1>7. QED
  BY <1>5, <1>6 DEF DeleteMembership

LEMMA CreateOrgKeeps ==
  ASSUME StateTypes, RestInv, NEW r \in Req, CreateOrg(r)
  PROVE  RestInv' /\ StateTypes'
<1>1. /\ req[r].op = "create_org" /\ req[r].pc = "admitted" /\ req[r].user \in UserId
      /\ active_memberships_gauge' \in Int
  BY AtRest DEF CreateOrg, At, Uncounted, StateTypes
<1>2. PICK g \in Fresh(OrgId), m \in Fresh(MembershipId) :
        Flushed(r, {Change("org", g, [name |-> "first"])}, {g, m})
  BY DEF CreateOrg
<1> DEFINE w == Change("org", g, [name |-> "first"])
<1>3. /\ g \in OrgId /\ g \in AnyId /\ ~ Initial(g) /\ \A s \in Req : g \notin req[s].ids
      /\ m \in MembershipId /\ m \in AnyId /\ ~ Initial(m) /\ \A s \in Req : m \notin req[s].ids
  BY FreshIs DEF AnyId
<1>4. [name |-> "first"] \in Organization
  BY DEF Organization
<1>5. w.table = "org" /\ w.id = g /\ w.row # none /\ w \in Pending
  BY <1>3, <1>4, ChangeIs, ChangeIsPending, RowsAssumption
<1>6. ASSUME NEW q, q.pc = "flushed", q.op = req[r].op, q.user = req[r].user,
             q.ids = {g, m}, q.writes = {w}
      PROVE  Delivers(q) /\ Founds(q)
  BY <1>1, <1>3, <1>5, <1>6 DEF Delivers, Founds, Operation
<1> HIDE DEF w
<1>7. SessionInv({w}, {g, m}, users, organizations, memberships)
  BY <1>5 DEF SessionInv, WriteInv
<1>8. ASSUME NEW s \in Req \ {r}, NEW v \in req[s].writes
      PROVE  Compatible(w, v, memberships) /\ Compatible(v, w, memberships)
  <2>1. v.id # g
    BY <1>3, NewIds
  <2>2. QED
    BY <1>5, <2>1 DEF Compatible, Removes
<1>9. QED
  BY <1>1, <1>2, <1>3, <1>5, <1>6, <1>7, <1>8, FlushedKeeps DEF w

LEMMA UpdateOrgKeeps ==
  ASSUME StateTypes, RestInv, NEW r \in Req, UpdateOrg(r)
  PROVE  RestInv' /\ StateTypes'
<1> DEFINE g == req[r].target
           w == Change("org", g, [name |-> "renamed"])
<1>1. /\ req[r].op = "update_org" /\ req[r].pc = "loaded" /\ g \in OrgId /\ ~ RowHeld(r, "org", g)
  BY AtRest DEF UpdateOrg, At, Loaded
<1>2. CASE Refuse(r, 500)
  BY <1>1, <1>2, AtRest, RefuseKeeps DEF Refusal
<1>3. CASE organizations[g] # none /\ Flushed(r, {w}, {}) /\ Uncounted
  <2>1. [name |-> "renamed"] \in Organization
    BY DEF Organization
  <2>2. w.table = "org" /\ w.id = g /\ w.row # none /\ w \in Pending
    BY <1>1, <2>1, ChangeIs, ChangeIsPending, RowsAssumption
  <2> HIDE DEF w, g
  <2>3. Used(g, req) /\ active_memberships_gauge' \in Int
    BY <1>1, <1>3 DEF RestInv, RowsInv, Uncounted, StateTypes
  <2>4. SessionInv({w}, {}, users, organizations, memberships)
    BY <1>3, <2>2 DEF SessionInv, WriteInv, RowIsThere
  <2>5. ASSUME NEW s \in Req \ {r}, NEW v \in req[s].writes
        PROVE  Compatible(w, v, memberships) /\ Compatible(v, w, memberships)
    <3>1. v.table = "org" => v.id # g
      BY <1>1, NotHeld
    <3>2. QED
      BY <2>2, <3>1 DEF Compatible, Removes
  <2>6. ASSUME NEW q, q.pc = "flushed", q.op = req[r].op, q.writes = {w}
        PROVE  Delivers(q) /\ Founds(q)
    BY <1>1, <2>2, <2>6 DEF Delivers, Founds, Operation
  <2>7. QED
    BY <1>1, <1>3, <2>2, <2>3, <2>4, <2>5, <2>6, FlushedKeeps
<1>4. QED
  BY <1>2, <1>3 DEF UpdateOrg

LEMMA DeleteOrgKeeps ==
  ASSUME StateTypes, RestInv, NEW r \in Req, DeleteOrg(r)
  PROVE  RestInv' /\ StateTypes'
<1> DEFINE g == req[r].target
           w == Change("org", g, none)
<1>1. /\ req[r].op = "delete_org" /\ req[r].pc = "loaded" /\ CanDelete(r, "org", g) /\ g \in OrgId
      /\ Flushed(r, {w}, {})
      /\ active_memberships_gauge' = active_memberships_gauge - Cardinality(Cascade(g))
  BY AtRest DEF DeleteOrg, At, Loaded
<1>2. w.table = "org" /\ w.id = g /\ w.row = none /\ w \in Pending
  BY <1>1, ChangeIs, ChangeIsPending
<1>3. Used(g, req)
  BY <1>1, IdsAssumption DEF RestInv, IdsInv
<1>4. ASSUME NEW q, q.pc = "flushed", q.op = req[r].op, q.target = req[r].target, q.writes = {w}
      PROVE  Delivers(q) /\ Founds(q)
  BY <1>1, <1>2, <1>4 DEF Delivers, Founds, Operation
<1> HIDE DEF w, g
<1>5. SessionInv({w}, {}, users, organizations, memberships)
  BY <1>1, <1>2 DEF SessionInv, WriteInv, RowIsThere
<1>6. ASSUME NEW s \in Req \ {r}, NEW v \in req[s].writes
      PROVE  Compatible(w, v, memberships) /\ Compatible(v, w, memberships)
  BY <1>1, <1>2, CanDeleteIs DEF Compatible
<1>7. active_memberships_gauge' \in Int
  <2>1. IsFiniteSet(Cascade(g))
    BY IdsAssumption, FS_Subset DEF Cascade
  <2>2. QED
    BY <1>1, <2>1, FS_CardinalityType DEF StateTypes
<1>8. QED
  BY <1>1, <1>2, <1>3, <1>4, <1>5, <1>6, <1>7, FlushedKeeps

LEMMA HandleRegistrationKeeps ==
  ASSUME StateTypes, RestInv, NEW r \in Req, HandleRegistration(r)
  PROVE  RestInv' /\ StateTypes'
<1> DEFINE row == req[r].row
<1>1. req[r].op = "registration" /\ req[r].pc = "loaded" /\ row \in User
  BY AtRest DEF HandleRegistration, At, Loaded
<1>2. PICK u \in Fresh(UserId), g \in Fresh(OrgId), m \in Fresh(MembershipId) :
        /\ ~ UserKeyHeld(r, u, row)
        /\ IF UserKeyTaken(u, row) THEN Refuse(r, 500)
           ELSE /\ Flushed(r, {Change("user", u, row), Change("org", g, [name |-> "first"]),
                               Change("membership", m,
                                      [user |-> u, org |-> g, role |-> "owner"])}, {u, g, m})
                /\ Uncounted
  BY DEF HandleRegistration
<1>3. CASE Refuse(r, 500)
  BY <1>1, <1>3, AtRest, RefuseKeeps DEF Refusal
<1>4. CASE ~ UserKeyTaken(u, row)
  <2> DEFINE owner == [user |-> u, org |-> g, role |-> "owner"]
             wu == Change("user", u, row)
             wg == Change("org", g, [name |-> "first"])
             wm == Change("membership", m, owner)
  <2>1. /\ u \in UserId /\ u \in AnyId /\ ~ Initial(u) /\ \A s \in Req : u \notin req[s].ids
        /\ g \in OrgId /\ g \in AnyId /\ ~ Initial(g) /\ \A s \in Req : g \notin req[s].ids
        /\ m \in MembershipId /\ m \in AnyId /\ ~ Initial(m) /\ \A s \in Req : m \notin req[s].ids
    BY FreshIs DEF AnyId
  <2>2. owner \in Membership /\ owner.user = u /\ owner.org = g /\ owner.role = "owner"
    BY <2>1 DEF Membership, MembershipRole
  <2>3. [name |-> "first"] \in Organization
    BY DEF Organization
  <2>4. Flushed(r, {wu, wg, wm}, {u, g, m}) /\ active_memberships_gauge' \in Int
    BY <1>2, <1>4 DEF Uncounted, StateTypes
  <2>5. wg.table = "org" /\ wg.id = g /\ wg.row # none /\ wg \in Pending
    BY <2>1, <2>3, ChangeIs, ChangeIsPending, RowsAssumption
  <2> HIDE DEF owner, wg
  <2>6. wu.table = "user" /\ wu.id = u /\ wu.row = row /\ wu \in Pending /\ row # none
    BY <1>1, <2>1, ChangeIs, ChangeIsPending, RowsAssumption
  <2>7. wm.table = "membership" /\ wm.id = m /\ wm.row = owner /\ wm \in Pending /\ owner # none
    BY <2>1, <2>2, ChangeIs, ChangeIsPending, RowsAssumption
  <2> HIDE DEF wu, wm, row
  <2> DEFINE W == {wu, wg, wm}
             ids == {u, g, m}
  <2>8. SessionInv(W, ids, users, organizations, memberships)
    <3>1. WriteInv(wu, W, ids, users, organizations, memberships)
      BY <1>4, <2>5, <2>6, <2>7 DEF WriteInv, UserKeyTaken
    <3>2. WriteInv(wg, W, ids, users, organizations, memberships)
      BY <2>5, <2>6, <2>7 DEF WriteInv
    <3>3. WriteInv(wm, W, ids, users, organizations, memberships)
      <4>1. \A n \in MembershipId : ~ SamePair(memberships[n], owner)
        BY <2>1, <2>2, NewIds DEF SamePair, Falls
      <4>2. /\ \E v \in W : v.table = "user" /\ v.id = owner.user
            /\ \E v \in W : v.table = "org" /\ v.id = owner.org
        BY <2>2, <2>5, <2>6
      <4>3. QED
        BY <2>5, <2>6, <2>7, <4>1, <4>2 DEF WriteInv
    <3>4. QED
      BY <2>5, <2>6, <2>7, <3>1, <3>2, <3>3 DEF SessionInv
  <2>9. ASSUME NEW s \in Req \ {r}, NEW v \in req[s].writes, NEW w \in W
        PROVE  Compatible(w, v, memberships) /\ Compatible(v, w, memberships)
    <3>1. v.id # u /\ v.id # g /\ v.id # m /\ memberships[m] = none
      BY <2>1, NewIds
    <3>2. v.table = "membership" /\ v.row # none => u \notin {v.row.user, v.row.org}
      BY <2>1, NewIds
    <3>3. v.table = "user" => ~ SameKey(v.row, row) /\ ~ SameKey(row, v.row)
      BY <1>2, <3>1, UserKeyFree
    <3>4. CASE w = wu
      BY <2>6, <3>1, <3>3, <3>4 DEF Compatible, Removes
    <3>5. CASE w = wg
      BY <2>5, <3>1, <3>5 DEF Compatible, Removes
    <3>6. CASE w = wm
      BY <2>2, <2>7, <3>1, <3>2, <3>6 DEF Compatible, Removes, Falls, SamePair
    <3>7. QED
      BY <3>4, <3>5, <3>6
  <2>10. ASSUME NEW q, q.pc = "flushed", q.op = req[r].op, q.ids = ids, q.writes = W
         PROVE  Delivers(q) /\ Founds(q)
    <3>1. Delivers(q)
      BY <1>1, <2>5, <2>6, <2>7, <2>10 DEF Delivers, Operation
    <3>2. Founds(q)
      <4>1. /\ wm \in q.writes /\ wm.table = "membership" /\ wm.row # none /\ wm.id \in q.ids
            /\ wm.row.user = u /\ wm.row.role = "owner" /\ wm.row.org \in q.ids
        BY <2>2, <2>7, <2>10
      <4>2. \A w \in q.writes : w.table = "user" => w.id = u
        BY <2>5, <2>6, <2>7, <2>10
      <4>3. QED
        BY <4>1, <4>2 DEF Founds
    <3>3. QED
      BY <3>1, <3>2
  <2>11. W \in SUBSET Pending /\ ids \in SUBSET AnyId /\ \A w \in W : w.id \in ids
    BY <2>1, <2>5, <2>6, <2>7
  <2>12. \A i \in ids : ~ Initial(i) /\ \A s \in Req : i \notin req[s].ids
    BY <2>1
  <2>13. Flushed(r, W, ids)
    BY <2>4
  <2> HIDE DEF W, ids
  <2>14. QED
    BY <1>1, <2>4, <2>8, <2>9, <2>10, <2>11, <2>12, <2>13, FlushedKeeps
<1>5. QED
  BY <1>2, <1>3, <1>4

(* The profile is answered as it was flushed; the session keeps it.          *)
LEMMA UpdateUserAnsweredKeeps ==
  ASSUME StateTypes, RestInv, NEW r \in Req, UpdateUserAnswered(r)
  PROVE  RestInv' /\ StateTypes'
<1> DEFINE q == [req[r] EXCEPT !.pc = "committed", !.reply = 200]
<1>1. /\ req[r].op = "update_user" /\ req[r].pc = "flushed" /\ req[r] \in RequestState
      /\ req[r].reply = 0
      /\ UNCHANGED <<tables, active_memberships_gauge, welcomed, faults>>
  BY AtRest DEF UpdateUserAnswered, At
<1>2. req' = [req EXCEPT ![r] = q]
  BY DEF UpdateUserAnswered, StateTypes
<1>3. "committed" \in Progress /\ 200 \in Reply
  BY DEF Progress, Reply
<1>4. q \in RequestState
  BY <1>1, <1>3 DEF RequestState
<1>5. /\ q.op = req[r].op /\ q.pc = "committed" /\ q.reply = 200 /\ q.target = req[r].target
      /\ q.ids = req[r].ids /\ q.writes = req[r].writes /\ q.lost = req[r].lost
  BY <1>1 DEF RequestState
<1> HIDE DEF q
<1>6. ProgressInv(q)
  BY <1>1, <1>5 DEF ProgressInv, Working, Loaded, Delivers, Founds
<1>7. Gone(q, users, organizations, memberships)
  BY <1>1, <1>5 DEF Gone
<1>8. SessionInv(q.writes, q.ids, users, organizations, memberships)
  BY <1>5 DEF RestInv, SessionsInv
<1>9. \A s \in Req \ {r} : \A w \in q.writes, v \in req[s].writes :
        Compatible(w, v, memberships) /\ Compatible(v, w, memberships)
  BY <1>5 DEF RestInv, SessionsInv
<1>10. /\ \A w \in q.writes : w.id \in q.ids \/ Used(w.id, req)
       /\ q.op # "create_user" /\ q.target # none => Used(q.target, req)
  BY <1>5 DEF RestInv, IdsInv
<1>11. q.pc # "flushed" /\ q.reply # 204 /\ q.ids = req[r].ids
  BY <1>5
<1>12. RestInv'
  BY <1>1, <1>2, <1>4, <1>6, <1>7, <1>8, <1>9, <1>10, <1>11, BecomesKeeps
<1>13. QED
  BY <1>1, <1>2, <1>4, <1>12 DEF StateTypes, tables

LEMMA CommitFailsKeeps ==
  ASSUME StateTypes, RestInv, NEW r \in Req, CommitFails(r)
  PROVE  RestInv' /\ StateTypes'
<1>1. /\ req[r].pc = "flushed" /\ Answer(r, 500) /\ welcomed' = welcomed
      /\ faults' \in 0 .. MaxFaults /\ UNCHANGED <<tables, active_memberships_gauge>>
  BY AccountsAssumption DEF CommitFails, Welcomes, StateTypes
<1>2. RestInv' /\ req' \in [Req -> RequestState]
  BY <1>1, AtRest, AnswerKeeps DEF Refusal
<1>3. QED
  BY <1>1, <1>2 DEF StateTypes, tables

(* What the session has not committed is lost.                               *)
LEMMA CloseKeeps ==
  ASSUME StateTypes, RestInv, NEW r \in Req, Close(r)
  PROVE  RestInv' /\ StateTypes'
<1>1. /\ req[r].pc = "committed" /\ req[r] \in RequestState
      /\ UNCHANGED <<tables, active_memberships_gauge, welcomed, faults>>
  BY AtRest DEF Close
<1>2. PICK activity \in SUBSET {Change("activity", none, none)} :
        req' = [req EXCEPT ![r].pc = "done", ![r].writes = {}, ![r].lost = req[r].writes \cup activity]
  BY DEF Close
<1> DEFINE lost == req[r].writes \cup activity
           q == [req[r] EXCEPT !.pc = "done", !.writes = {}, !.lost = lost]
<1>3. req' = [req EXCEPT ![r] = q]
  BY <1>2 DEF StateTypes
<1>4. lost \in SUBSET Write
  <2>1. Change("activity", none, none) \in Write
    BY DEF Change, Write
  <2>2. Pending \subseteq Write
    BY DEF Pending, Write
  <2>3. QED
    BY <1>1, <2>1, <2>2 DEF RequestState
<1>5. req[r].op # "update_user" => \A w \in lost : w.table = "activity"
  BY <1>1, ChangeIs DEF RestInv, ProgressInv, Working
<1> HIDE DEF lost
<1>6. q \in RequestState
  <2>1. "done" \in Progress
    BY DEF Progress
  <2>2. QED
    BY <1>1, <1>4, <2>1 DEF RequestState
<1>7. /\ q.op = req[r].op /\ q.pc = "done" /\ q.reply = req[r].reply /\ q.target = req[r].target
      /\ q.ids = req[r].ids /\ q.writes = {} /\ q.lost = lost
  BY <1>1 DEF RequestState
<1> HIDE DEF q
<1>8. ProgressInv(q)
  BY <1>5, <1>7 DEF ProgressInv, Working, Loaded, Delivers, Founds
<1>9. Gone(q, users, organizations, memberships)
  BY <1>7 DEF RestInv, SessionsInv, Gone
<1>10. SessionInv(q.writes, q.ids, users, organizations, memberships)
  BY <1>7 DEF SessionInv
<1>11. q.op # "create_user" /\ q.target # none => Used(q.target, req)
  BY <1>7 DEF RestInv, IdsInv
<1>12. q.pc # "flushed"
  BY <1>7
<1>13. RestInv'
  BY <1>1, <1>3, <1>6, <1>7, <1>8, <1>9, <1>10, <1>11, <1>12, BecomesKeeps
<1>14. QED
  BY <1>1, <1>3, <1>6, <1>13 DEF StateTypes, tables

-----------------------------------------------------------------------------
(* The commit: the writes W of a session are applied to the tables.          *)

Applied(W, us, gs, ms, us2, gs2, ms2) ==
  /\ \A u \in UserId :
       \/ \E w \in W : w.table = "user" /\ w.id = u /\ us2[u] = w.row
       \/ us2[u] = us[u] /\ \A w \in W : w.table = "user" => w.id # u
  /\ \A g \in OrgId :
       \/ \E w \in W : w.table = "org" /\ w.id = g /\ gs2[g] = w.row
       \/ gs2[g] = gs[g] /\ \A w \in W : w.table = "org" => w.id # g
  /\ \A m \in MembershipId :
       \/ ms2[m] = none /\ \E v \in W : Removes(v) /\ Falls(ms[m], v.id)
       \/ /\ \A v \in W : Removes(v) => ~ Falls(ms[m], v.id)
          /\ \/ \E w \in W : w.table = "membership" /\ w.id = m /\ ms2[m] = w.row
             \/ ms2[m] = ms[m] /\ \A w \in W : w.table = "membership" => w.id # m

Tables(us, gs, ms) ==
  /\ us \in [UserId -> User \cup {none}]
  /\ gs \in [OrgId -> Organization \cup {none}]
  /\ ms \in [MembershipId -> Membership \cup {none}]

LEMMA PendingIs ==
  ASSUME NEW w \in Pending
  PROVE  /\ w.table \in {"user", "org", "membership"}
         /\ w.table = "user" => w.id \in UserId /\ w.row \in User \cup {none}
         /\ w.table = "org" => w.id \in OrgId /\ w.row \in Organization \cup {none}
         /\ w.table = "membership" => w.id \in MembershipId /\ w.row \in Membership \cup {none}
         /\ w.table = "membership" /\ w.row # none => w.row.user \in UserId /\ w.row.org \in OrgId
BY DEF Pending, Membership

(* The constraints hold on.                                                  *)
LEMMA AppliedTables ==
  ASSUME NEW W, NEW ids, NEW us, NEW gs, NEW ms, NEW us2, NEW gs2, NEW ms2,
         Tables(us, gs, ms), SessionInv(W, ids, us, gs, ms),
         Applied(W, us, gs, ms, us2, gs2, ms2), KeysAreUnique(us), Anchored(us, gs, ms)
  PROVE  KeysAreUnique(us2) /\ Anchored(us2, gs2, ms2)
<1>1. ASSUME NEW w \in W PROVE w \in Pending /\ WriteInv(w, W, ids, us, gs, ms)
  BY DEF SessionInv
<1>2. KeysAreUnique(us2)
  <2> SUFFICES ASSUME NEW u \in UserId, NEW v \in UserId, SameKey(us2[u], us2[v]), u # v
               PROVE  FALSE
    BY DEF KeysAreUnique
  <2>1. us2[u] = us[u] \/ \E w \in W : w.table = "user" /\ w.id = u /\ us2[u] = w.row
    BY DEF Applied
  <2>2. us2[v] = us[v] \/ \E w \in W : w.table = "user" /\ w.id = v /\ us2[v] = w.row
    BY DEF Applied
  <2>3. CASE us2[u] = us[u] /\ us2[v] = us[v]
    BY <2>3 DEF KeysAreUnique
  <2>4. CASE us2[u] = us[u] /\ \E w \in W : w.table = "user" /\ w.id = v /\ us2[v] = w.row
    BY <1>1, <2>4 DEF WriteInv
  <2>5. CASE us2[v] = us[v] /\ \E w \in W : w.table = "user" /\ w.id = u /\ us2[u] = w.row
    BY <1>1, <2>5, SameKeySymmetric DEF WriteInv
  <2>6. CASE /\ \E w \in W : w.table = "user" /\ w.id = u /\ us2[u] = w.row
             /\ \E w \in W : w.table = "user" /\ w.id = v /\ us2[v] = w.row
    BY <1>1, <2>6 DEF WriteInv
  <2>7. QED
    BY <2>1, <2>2, <2>3, <2>4, <2>5, <2>6
<1>3. ASSUME NEW m \in MembershipId, ms2[m] # none
      PROVE  /\ us2[ms2[m].user] # none /\ gs2[ms2[m].org] # none
             /\ \/ ms2[m] = ms[m] /\ \A w \in W : w.table = "membership" => w.id # m
                \/ \E w \in W : w.table = "membership" /\ w.id = m /\ ms2[m] = w.row
  <2>1. CASE ms2[m] = ms[m] /\ \A w \in W : w.table = "membership" => w.id # m
    <3>1. /\ us[ms[m].user] # none /\ gs[ms[m].org] # none
          /\ ms[m].user \in UserId /\ ms[m].org \in OrgId
      BY <1>3, <2>1 DEF Anchored, Tables, Membership
    <3>2. \A v \in W : Removes(v) => v.id # ms[m].user /\ v.id # ms[m].org
      BY <1>3, <2>1 DEF Applied, Falls
    <3>3. us2[ms[m].user] # none
      BY <3>1, <3>2 DEF Applied, Removes
    <3>4. gs2[ms[m].org] # none
      BY <3>1, <3>2 DEF Applied, Removes
    <3>5. QED
      BY <2>1, <3>3, <3>4
  <2>2. CASE \E w \in W : w.table = "membership" /\ w.id = m /\ ms2[m] = w.row
    <3>1. PICK w \in W : w.table = "membership" /\ w.id = m /\ ms2[m] = w.row
      BY <2>2
    <3>2. w.row # none /\ w.row.user \in UserId /\ w.row.org \in OrgId
      BY <1>1, <1>3, <3>1, PendingIs
    <3>3. \A v \in W : v.row # none
      BY <1>1, <3>1, <3>2 DEF WriteInv
    <3>4. us2[w.row.user] # none
      BY <1>1, <3>1, <3>2, <3>3 DEF Applied, WriteInv
    <3>5. gs2[w.row.org] # none
      BY <1>1, <3>1, <3>2, <3>3 DEF Applied, WriteInv
    <3>6. QED
      BY <2>2, <3>1, <3>4, <3>5
  <2>3. QED
    BY <1>3, <2>1, <2>2 DEF Applied
<1>4. ASSUME NEW m \in MembershipId, NEW n \in MembershipId, ms2[m] # none, SamePair(ms2[n], ms2[m])
      PROVE  n = m
  <2>1. ms2[n] # none
    BY <1>4 DEF SamePair
  <2>2. CASE ms2[m] = ms[m] /\ ms2[n] = ms[n]
    BY <1>4, <2>1, <2>2 DEF Anchored, SamePair
  <2>3. CASE ms2[n] = ms[n] /\ \E w \in W : w.table = "membership" /\ w.id = m /\ ms2[m] = w.row
    BY <1>1, <1>4, <2>3 DEF WriteInv
  <2>4. CASE ms2[m] = ms[m] /\ \E w \in W : w.table = "membership" /\ w.id = n /\ ms2[n] = w.row
    <3>1. SamePair(ms2[m], ms2[n])
      BY <1>4 DEF SamePair
    <3>2. QED
      BY <1>1, <2>1, <2>4, <3>1 DEF WriteInv
  <2>5. CASE /\ \E w \in W : w.table = "membership" /\ w.id = m /\ ms2[m] = w.row
             /\ \E w \in W : w.table = "membership" /\ w.id = n /\ ms2[n] = w.row
    BY <1>1, <2>5 DEF WriteInv
  <2>6. QED
    BY <1>3, <1>4, <2>1, <2>2, <2>3, <2>4, <2>5
<1>5. Anchored(us2, gs2, ms2)
  BY <1>3, <1>4 DEF Anchored, SamePair
<1>6. QED
  BY <1>2, <1>5

(* What another session has flushed can still be committed.                  *)
LEMMA AppliedOthers ==
  ASSUME NEW W, NEW ids, NEW V, NEW jds, NEW us, NEW gs, NEW ms, NEW us2, NEW gs2, NEW ms2,
         Tables(us, gs, ms), SessionInv(W, ids, us, gs, ms), SessionInv(V, jds, us, gs, ms),
         \A w \in W, v \in V : Compatible(w, v, ms) /\ Compatible(v, w, ms),
         Applied(W, us, gs, ms, us2, gs2, ms2)
  PROVE  SessionInv(V, jds, us2, gs2, ms2)
<1> SUFFICES ASSUME NEW v \in V PROVE WriteInv(v, V, jds, us2, gs2, ms2)
  BY DEF SessionInv
<1>1. /\ v \in Pending /\ WriteInv(v, V, jds, us, gs, ms)
      /\ \A w \in W : w \in Pending /\ Compatible(w, v, ms) /\ Compatible(v, w, ms)
  BY DEF SessionInv
<1>2. RowIsThere(v, us, gs, ms) => RowIsThere(v, us2, gs2, ms2)
  <2>1. v.table = "user" => us2[v.id] = us[v.id]
    BY <1>1, PendingIs DEF Applied, Compatible
  <2>2. v.table = "org" => gs2[v.id] = gs[v.id]
    BY <1>1, PendingIs DEF Applied, Compatible
  <2>3. v.table = "membership" => ms2[v.id] = ms[v.id]
    BY <1>1, PendingIs DEF Applied, Compatible
  <2>4. QED
    BY <2>1, <2>2, <2>3 DEF RowIsThere
<1>3. ASSUME v.table = "user", NEW u \in UserId \ {v.id}
      PROVE  ~ SameKey(us2[u], v.row)
  BY <1>1, <1>3 DEF Applied, WriteInv, Compatible
<1>4. ASSUME v.table = "membership", v.row # none
      PROVE  /\ us[v.row.user] # none => us2[v.row.user] # none
             /\ gs[v.row.org] # none => gs2[v.row.org] # none
             /\ \A n \in MembershipId \ {v.id} : ~ SamePair(ms2[n], v.row)
  <2>1. v.row.user \in UserId /\ v.row.org \in OrgId
    BY <1>1, <1>4, PendingIs
  <2>2. \A w \in W : Removes(w) => w.id # v.row.user /\ w.id # v.row.org
    BY <1>1, <1>4 DEF Compatible, Falls
  <2>3. us[v.row.user] # none => us2[v.row.user] # none
    BY <2>1, <2>2 DEF Applied, Removes
  <2>4. gs[v.row.org] # none => gs2[v.row.org] # none
    BY <2>1, <2>2 DEF Applied, Removes
  <2>5. ASSUME NEW n \in MembershipId \ {v.id} PROVE ~ SamePair(ms2[n], v.row)
    <3>1. CASE ms2[n] = none
      BY <3>1 DEF SamePair
    <3>2. CASE ms2[n] = ms[n]
      BY <1>1, <1>4, <3>2 DEF WriteInv
    <3>3. CASE \E w \in W : w.table = "membership" /\ w.id = n /\ ms2[n] = w.row
      BY <1>1, <1>4, <3>3 DEF Compatible
    <3>4. QED
      BY <3>1, <3>2, <3>3 DEF Applied
  <2>6. QED
    BY <2>3, <2>4, <2>5
<1>5. QED
  BY <1>1, <1>2, <1>3, <1>4 DEF WriteInv

LEMMA AppliedCompatible ==
  ASSUME NEW W, NEW us, NEW gs, NEW ms, NEW us2, NEW gs2, NEW ms2,
         Applied(W, us, gs, ms, us2, gs2, ms2),
         NEW v \in Pending, NEW x, Compatible(v, x, ms), \A w \in W : Compatible(v, w, ms)
  PROVE  Compatible(v, x, ms2)
<1>1. v.table = "membership" => ms2[v.id] = ms[v.id]
  BY PendingIs DEF Applied, Compatible
<1>2. QED
  BY <1>1 DEF Compatible

(* A row that was not there is one of the new ones.                          *)
LEMMA AppliedRows ==
  ASSUME NEW W, NEW ids, NEW us, NEW gs, NEW ms, NEW us2, NEW gs2, NEW ms2,
         SessionInv(W, ids, us, gs, ms), Applied(W, us, gs, ms, us2, gs2, ms2)
  PROVE  /\ \A u \in UserId : us2[u] # none => us[u] # none \/ u \in ids
         /\ \A g \in OrgId : gs2[g] # none => gs[g] # none \/ g \in ids
         /\ \A m \in MembershipId : ms2[m] # none => ms[m] # none \/ m \in ids
<1>1. \A w \in W : WriteInv(w, W, ids, us, gs, ms)
  BY DEF SessionInv
<1>2. \A u \in UserId : us2[u] # none => us[u] # none \/ u \in ids
  BY <1>1 DEF Applied, WriteInv, RowIsThere
<1>3. \A g \in OrgId : gs2[g] # none => gs[g] # none \/ g \in ids
  BY <1>1 DEF Applied, WriteInv, RowIsThere
<1>4. \A m \in MembershipId : ms2[m] # none => ms[m] # none \/ m \in ids
  BY <1>1 DEF Applied, WriteInv, RowIsThere
<1>5. QED
  BY <1>2, <1>3, <1>4

(* What a session commits: what it has flushed, and the owner's membership.  *)
Effective(r) == req[r].writes \cup OwnerOf(r)

LEMMA EffectiveIs ==
  ASSUME StateTypes, RestInv, NEW r \in Req, req[r].pc = "flushed", ~ OwnerMissing(r),
         req[r].op = "create_org" => ~ RowHeld(r, "user", req[r].user)
  PROVE  /\ SessionInv(Effective(r), req[r].ids, users, organizations, memberships)
         /\ \A s \in Req \ {r} : \A w \in Effective(r), v \in req[s].writes :
              Compatible(w, v, memberships) /\ Compatible(v, w, memberships)
         /\ req[r].op # "create_org" => Effective(r) = req[r].writes
         /\ \A w \in Effective(r) : w.table = "user" => w \in req[r].writes
<1>1. /\ SessionInv(req[r].writes, req[r].ids, users, organizations, memberships)
      /\ \A s \in Req \ {r} : \A w \in req[r].writes, v \in req[s].writes :
           Compatible(w, v, memberships) /\ Compatible(v, w, memberships)
  BY DEF RestInv, SessionsInv
<1>2. CASE req[r].op # "create_org"
  BY <1>1, <1>2 DEF Effective, OwnerOf
<1>3. CASE req[r].op = "create_org"
  <2> DEFINE u == req[r].user
  <2>1. u \in UserId /\ users[u] # none
    BY <1>3 DEF RestInv, ProgressInv, Delivers, OwnerMissing
  <2>2. PICK g \in OrgId, m \in MembershipId :
          req[r].ids = {g, m} /\ req[r].writes = {Change("org", g, [name |-> "first"])}
    BY <1>3 DEF RestInv, ProgressInv, Delivers
  <2> DEFINE wg == Change("org", g, [name |-> "first"])
             owner == [user |-> u, org |-> g, role |-> "owner"]
             wm == Change("membership", m, owner)
  <2>3. Effective(r) = {wg, wm}
    <3>1. req[r].ids \cap OrgId = {g} /\ req[r].ids \cap MembershipId = {m}
      BY <2>2, IdsAssumption
    <3>2. \A w : w \in OwnerOf(r) <=>
            \E o \in {g}, n \in {m} :
              w = Change("membership", n, [user |-> u, org |-> o, role |-> "owner"])
      <4> DEFINE orgs == req[r].ids \cap OrgId
                 mems == req[r].ids \cap MembershipId
                 OwnerIs(o, n) == Change("membership", n, [user |-> req[r].user, org |-> o, role |-> "owner"])
      <4>1. OwnerOf(r) = {OwnerIs(o, n) : o \in orgs, n \in mems}
        BY <1>3 DEF OwnerOf
      <4>2. orgs = {g} /\ mems = {m}
        BY <3>1
      <4> HIDE DEF orgs, mems
      <4>3. QED
        BY <4>1, <4>2
    <3>3. OwnerOf(r) = {wm}
      BY <3>2
    <3>4. QED
      BY <2>2, <3>3 DEF Effective
  <2>4. owner \in Membership /\ owner.user = u /\ owner.org = g
    BY <2>1 DEF Membership, MembershipRole
  <2>5. wg.table = "org" /\ wg.id = g /\ wg.row # none /\ wg \in Pending /\ wg \in req[r].writes
    <3>1. [name |-> "first"] \in Organization
      BY DEF Organization
    <3>2. QED
      BY <2>2, <3>1, ChangeIs, ChangeIsPending, RowsAssumption
  <2> HIDE DEF owner, wg
  <2>6. wm.table = "membership" /\ wm.id = m /\ wm.row = owner /\ wm \in Pending /\ owner # none
    BY <2>4, ChangeIs, ChangeIsPending, RowsAssumption
  <2> HIDE DEF wm, u
  <2>7. SessionInv({wg, wm}, req[r].ids, users, organizations, memberships)
    <3>1. WriteInv(wg, {wg, wm}, req[r].ids, users, organizations, memberships)
      BY <2>2, <2>5, <2>6 DEF WriteInv
    <3>2. \A n \in MembershipId : ~ SamePair(memberships[n], owner)
      BY <2>2, <2>4, PendingIds DEF SamePair, Falls
    <3>3. WriteInv(wm, {wg, wm}, req[r].ids, users, organizations, memberships)
      BY <2>1, <2>2, <2>4, <2>5, <2>6, <3>2 DEF WriteInv
    <3>4. QED
      BY <2>5, <2>6, <3>1, <3>3 DEF SessionInv
  <2>8. ASSUME NEW s \in Req \ {r}, NEW v \in req[s].writes
        PROVE  Compatible(wm, v, memberships) /\ Compatible(v, wm, memberships)
    <3>1. /\ v.id # g /\ v.id # m /\ memberships[m] = none
          /\ v.table = "membership" /\ v.row # none => v.row.org # g
      BY <2>2, PendingIds
    <3>2. v.table = "user" => v.id # u
      BY <1>3, NotHeld DEF u
    <3>3. v.table = "org" => v.id # u
      BY <2>1, OtherWrites, IdsAssumption
    <3>4. QED
      BY <2>4, <2>6, <3>1, <3>2, <3>3 DEF Compatible, Removes, Falls, SamePair
  <2>9. QED
    BY <1>1, <1>3, <2>3, <2>5, <2>6, <2>7, <2>8
<1>4. QED
  BY <1>2, <1>3

LEMMA CommittedApplies ==
  ASSUME StateTypes, NEW r \in Req, Committed(r), Effective(r) \subseteq Pending
  PROVE  /\ Applied(Effective(r), users, organizations, memberships,
                    users', organizations', memberships')
         /\ Tables(users', organizations', memberships')
<1> DEFINE W == Effective(r)
           touched(t, i) == \E w \in W : w.table = t /\ w.id = i
           chosen(t, i) == CHOOSE w \in W : w.table = t /\ w.id = i
           new(t, i, old) == IF touched(t, i) THEN chosen(t, i).row ELSE old
           gone == {w.id : w \in {x \in W : x.table \in {"user", "org"} /\ x.row = none}}
<1>1. /\ users' = [u \in UserId |-> new("user", u, users[u])]
      /\ organizations' = [g \in OrgId |-> new("org", g, organizations[g])]
      /\ memberships' = [m \in MembershipId |->
           IF \E i \in gone : m \in Cascade(i) THEN none
           ELSE new("membership", m, memberships[m])]
  BY DEF Committed, Effective
<1>2. \A t, i : touched(t, i) => chosen(t, i) \in W /\ chosen(t, i).table = t /\ chosen(t, i).id = i
  OBVIOUS
<1>3. \A m \in MembershipId : (\E i \in gone : m \in Cascade(i))
                                <=> \E v \in W : Removes(v) /\ Falls(memberships[m], v.id)
  BY DEF Cascade, Falls, Removes
<1> HIDE DEF chosen, gone
<1>4. \A u \in UserId :
        \/ \E w \in W : w.table = "user" /\ w.id = u /\ users'[u] = w.row
        \/ users'[u] = users[u] /\ \A w \in W : w.table = "user" => w.id # u
  BY <1>1, <1>2
<1>5. \A g \in OrgId :
        \/ \E w \in W : w.table = "org" /\ w.id = g /\ organizations'[g] = w.row
        \/ organizations'[g] = organizations[g] /\ \A w \in W : w.table = "org" => w.id # g
  BY <1>1, <1>2
<1>6. ASSUME NEW m \in MembershipId
      PROVE  \/ memberships'[m] = none /\ \E v \in W : Removes(v) /\ Falls(memberships[m], v.id)
             \/ /\ \A v \in W : Removes(v) => ~ Falls(memberships[m], v.id)
                /\ \/ \E w \in W : w.table = "membership" /\ w.id = m /\ memberships'[m] = w.row
                   \/ /\ memberships'[m] = memberships[m]
                      /\ \A w \in W : w.table = "membership" => w.id # m
  BY <1>1, <1>2, <1>3
<1>7. Applied(W, users, organizations, memberships, users', organizations', memberships')
  <2> HIDE DEF W
  <2>1. QED
    BY <1>4, <1>5, <1>6 DEF Applied
<1>8. Tables(users', organizations', memberships')
  <2>1. users' \in [UserId -> User \cup {none}]
    BY <1>1, <1>4, PendingIs DEF StateTypes
  <2>2. organizations' \in [OrgId -> Organization \cup {none}]
    BY <1>1, <1>5, PendingIs DEF StateTypes
  <2>3. memberships' \in [MembershipId -> Membership \cup {none}]
    BY <1>1, <1>6, PendingIs DEF StateTypes
  <2>4. QED
    BY <2>1, <2>2, <2>3 DEF Tables
<1>9. QED
  BY <1>7, <1>8

(* Request r has committed and becomes q.                                    *)
LEMMA CommitKeeps ==
  ASSUME StateTypes, RestInv, NEW r \in Req, Commit(r)
  PROVE  RestInv' /\ StateTypes'
<1>1. /\ req[r].pc = "flushed" /\ req[r].op # "update_user" /\ req[r] \in RequestState
      /\ req[r].reply = 0
      /\ req[r].op = "create_org" => ~ RowHeld(r, "user", req[r].user)
  BY AtRest DEF Commit
<1>2. CASE OwnerMissing(r)
  BY <1>1, <1>2, RefuseKeeps DEF Commit, Refusal
<1>3. CASE ~ OwnerMissing(r)
  <2> DEFINE W == Effective(r)
             q == [Idle EXCEPT !.op = req[r].op, !.ids = req[r].ids, !.target = req[r].target,
                               !.pc = "committed", !.reply = ReplyTo(r)]
  <2>1. /\ Committed(r) /\ welcomed' = welcomed \cup Welcomes(r, TRUE)
        /\ UNCHANGED <<active_memberships_gauge, faults>>
    BY <1>3 DEF Commit
  <2>2. req' = [req EXCEPT ![r] = q]
    BY <1>3 DEF Commit
  <2>3. /\ SessionInv(W, req[r].ids, users, organizations, memberships)
        /\ \A s \in Req \ {r} : \A w \in W, v \in req[s].writes :
             Compatible(w, v, memberships) /\ Compatible(v, w, memberships)
        /\ req[r].op # "create_org" => W = req[r].writes
        /\ \A w \in W : w.table = "user" => w \in req[r].writes
    BY <1>1, <1>3, EffectiveIs
  <2>4. /\ Applied(W, users, organizations, memberships, users', organizations', memberships')
        /\ Tables(users', organizations', memberships')
    BY <2>1, <2>3, CommittedApplies DEF SessionInv
  <2> HIDE DEF W
  <2>5. Delivers(req[r]) /\ Tables(users, organizations, memberships)
    BY DEF RestInv, ProgressInv, StateTypes, Tables
  <2>6. /\ ReplyTo(r) \in {200, 201, 204, 404}
        /\ req[r].op = "delete_user" => ReplyTo(r) = 204
        /\ req[r].op = "delete_membership" /\ req[r].writes = {} => ReplyTo(r) = 404
    BY <1>1, <2>5 DEF Delivers, ReplyTo, Success, Operation
  <2>7. q \in RequestState
    <3>1. /\ "committed" \in Progress /\ ReplyTo(r) \in Reply /\ req[r].op \in Named
          /\ req[r].ids \in SUBSET AnyId /\ req[r].target \in Target
      BY <1>1, <2>6 DEF Progress, Reply, Refusal, RequestState
    <3>2. QED
      BY <3>1, IdleIs DEF RequestState
  <2>8. /\ q.op = req[r].op /\ q.ids = req[r].ids /\ q.target = req[r].target
        /\ q.pc = "committed" /\ q.reply = ReplyTo(r) /\ q.writes = {} /\ q.lost = {}
    BY IdleIs DEF RequestState
  <2> HIDE DEF q
  <2>9. req'[r] = q /\ \A s \in Req \ {r} : req'[s] = req[s]
    BY <2>2 DEF StateTypes
  <2>10. /\ \A i : Used(i, req) => Used(i, req')
         /\ \A i \in req[r].ids : Used(i, req')
    BY <2>8, <2>9 DEF Used
  <2>11. \A s \in Req : ProgressInv(req'[s])
    <3>1. ProgressInv(q)
      BY <2>8 DEF ProgressInv, Working, Loaded, Delivers, Founds
    <3>2. QED
      BY <2>9, <3>1 DEF RestInv
  <2>12. IdsInv(req')
    <3>1. ASSUME NEW s \in Req, NEW i \in AnyId, i \in req'[s].ids
          PROVE  ~ Initial(i) /\ \A o \in Req \ {s} : i \notin req'[o].ids
      BY <2>8, <2>9, <3>1 DEF RestInv, IdsInv
    <3>2. ASSUME NEW s \in Req, NEW w \in req'[s].writes
          PROVE  w.id \in req'[s].ids \/ Used(w.id, req')
      BY <2>8, <2>9, <2>10 DEF RestInv, IdsInv
    <3>3. ASSUME NEW s \in Req, req'[s].op # "create_user", req'[s].target # none
          PROVE  Used(req'[s].target, req')
      BY <2>8, <2>9, <2>10, <3>3 DEF RestInv, IdsInv
    <3>4. QED
      BY <3>1, <3>2, <3>3 DEF IdsInv
  <2>13. RowsInv(users', organizations', memberships', req')
    <3>1. KeysAreUnique(users') /\ Anchored(users', organizations', memberships')
      BY <2>3, <2>4, <2>5, AppliedTables DEF RestInv, RowsInv
    <3>2. /\ \A u \in UserId : users'[u] # none => users[u] # none \/ u \in req[r].ids
          /\ \A g \in OrgId : organizations'[g] # none => organizations[g] # none \/ g \in req[r].ids
          /\ \A m \in MembershipId : memberships'[m] # none => memberships[m] # none \/ m \in req[r].ids
      BY <2>3, <2>4, AppliedRows
    <3>3. /\ \A u \in UserId : users'[u] # none => Used(u, req')
          /\ \A g \in OrgId : organizations'[g] # none => Used(g, req')
          /\ \A m \in MembershipId : memberships'[m] # none => Used(m, req')
      BY <2>10, <3>2 DEF RestInv, RowsInv
    <3>4. QED
      BY <3>1, <3>3 DEF RowsInv
  <2>14. Gone(q, users', organizations', memberships')
    <3>1. ASSUME req[r].op = "delete_user"
          PROVE  req[r].target \in UserId /\ users'[req[r].target] = none
      <4> DEFINE w == Change("user", req[r].target, none)
      <4>1. req[r].target \in UserId /\ w \in W
        BY <1>1, <2>3, <2>5, <3>1 DEF Delivers
      <4>2. w.table = "user" /\ w.id = req[r].target /\ w.row = none
        BY ChangeIs
      <4> HIDE DEF w
      <4>3. \A v \in W : v = w
        BY <2>3, <4>1, <4>2 DEF SessionInv, WriteInv
      <4>4. QED
        BY <2>4, <4>1, <4>2, <4>3 DEF Applied
    <3>2. ASSUME req[r].op = "delete_org"
          PROVE  req[r].target \in OrgId /\ organizations'[req[r].target] = none
      <4> DEFINE w == Change("org", req[r].target, none)
      <4>1. req[r].target \in OrgId /\ w \in W
        BY <1>1, <2>3, <2>5, <3>2 DEF Delivers
      <4>2. w.table = "org" /\ w.id = req[r].target /\ w.row = none
        BY ChangeIs
      <4> HIDE DEF w
      <4>3. \A v \in W : v = w
        BY <2>3, <4>1, <4>2 DEF SessionInv, WriteInv
      <4>4. QED
        BY <2>4, <4>1, <4>2, <4>3 DEF Applied
    <3>3. ASSUME req[r].op = "delete_membership", req[r].writes # {}
          PROVE  req[r].target \in MembershipId /\ memberships'[req[r].target] = none
      <4> DEFINE w == Change("membership", req[r].target, none)
      <4>1. req[r].target \in MembershipId /\ req[r].writes \subseteq {w} /\ W = req[r].writes
        BY <1>1, <2>3, <2>5, <3>3 DEF Delivers
      <4>2. w.table = "membership" /\ w.id = req[r].target /\ w.row = none
        BY ChangeIs
      <4> HIDE DEF w
      <4>3. W = {w}
        BY <3>3, <4>1
      <4>4. QED
        BY <2>4, <4>1, <4>2, <4>3 DEF Applied
    <3>4. QED
      BY <2>6, <2>8, <3>1, <3>2, <3>3 DEF Gone
  <2>15. ASSUME NEW s \in Req \ {r} PROVE Gone(req[s], users', organizations', memberships')
    <3>1. /\ \A u \in UserId : users'[u] # none => users[u] # none \/ u \in req[r].ids
          /\ \A g \in OrgId : organizations'[g] # none => organizations[g] # none \/ g \in req[r].ids
          /\ \A m \in MembershipId : memberships'[m] # none => memberships[m] # none \/ m \in req[r].ids
      BY <2>3, <2>4, AppliedRows
    <3>2. req[s].op # "create_user" /\ req[s].target # none => req[s].target \notin req[r].ids
      BY <1>1, PendingIds DEF RestInv, IdsInv
    <3>3. Gone(req[s], users, organizations, memberships)
      BY DEF RestInv, SessionsInv
    <3>4. QED
      BY <3>1, <3>2, <3>3, IdsAssumption DEF Gone
  <2>16. SessionsInv(users', organizations', memberships', req')
    <3>1. ASSUME NEW s \in Req
          PROVE  SessionInv(req'[s].writes, req'[s].ids, users', organizations', memberships')
      <4>1. CASE s = r
        BY <2>8, <2>9, <4>1 DEF SessionInv
      <4>2. CASE s # r
        <5>1. SessionInv(req[s].writes, req[s].ids, users, organizations, memberships)
          BY DEF RestInv, SessionsInv
        <5>2. SessionInv(req[s].writes, req[s].ids, users', organizations', memberships')
          BY <2>3, <2>4, <2>5, <4>2, <5>1, AppliedOthers
        <5>3. QED
          BY <2>9, <4>2, <5>2
      <4>3. QED
        BY <4>1, <4>2
    <3>2. ASSUME NEW s \in Req, NEW o \in Req \ {s}, NEW w \in req'[s].writes, NEW v \in req'[o].writes
          PROVE  Compatible(w, v, memberships')
      <4>1. s # r /\ o # r /\ w \in req[s].writes /\ v \in req[o].writes
        BY <2>8, <2>9
      <4>2. /\ w \in Pending /\ Compatible(w, v, memberships)
            /\ \A x \in W : Compatible(w, x, memberships)
        BY <2>3, <4>1 DEF RestInv, SessionsInv, SessionInv
      <4>3. QED
        BY <2>4, <4>2, AppliedCompatible
    <3>3. \A s \in Req : Gone(req'[s], users', organizations', memberships')
      BY <2>9, <2>14, <2>15
    <3>4. QED
      BY <3>1, <3>2, <3>3 DEF SessionsInv
  <2>17. DeletedOnce'
    <3>1. ASSUME NEW s \in Req \ {r}, req[s].op = "delete_membership", req[s].reply = 204,
                 q.op = "delete_membership", q.reply = 204, q.target = req[s].target
          PROVE  FALSE
      <4>1. memberships[req[r].target] = none
        BY <2>8, <3>1 DEF RestInv, SessionsInv, Gone
      <4>2. /\ req[r].ids = {} /\ Change("membership", req[r].target, none) \in W
        <5>1. req[r].op = "delete_membership" /\ req[r].writes # {}
          BY <2>6, <2>8, <3>1
        <5>2. /\ req[r].ids = {} /\ W = req[r].writes
              /\ req[r].writes \subseteq {Change("membership", req[r].target, none)}
          BY <1>1, <2>3, <2>5, <5>1 DEF Delivers
        <5>3. QED
          BY <5>1, <5>2
      <4>3. memberships[req[r].target] # none
        BY <2>3, <4>2, ChangeIs DEF SessionInv, WriteInv, RowIsThere
      <4>4. QED
        BY <4>1, <4>3
    <3>2. QED
      BY <2>9, <3>1 DEF DeletedOnce, RestInv, ClientsInv
  <2>18. welcomed' \subseteq UserId
    BY <1>1, <2>1, <2>5 DEF StateTypes, Welcomes, Delivers
  <2>19. WelcomeIsCommitted'
    <3> SUFFICES ASSUME NEW u \in welcomed'
                 PROVE  users'[u] # none \/ \E s \in Req : req'[s].op = "delete_user"
                                               /\ req'[s].target = u /\ req'[s].reply = 204
      BY DEF WelcomeIsCommitted
    <3>1. u \in UserId
      BY <2>18
    <3>2. CASE u \in welcomed /\ users[u] # none
      <4>1. CASE users'[u] = users[u]
        BY <3>2, <4>1
      <4>2. CASE \E w \in W : w.table = "user" /\ w.id = u /\ users'[u] = w.row
        <5>1. PICK w \in W : w.table = "user" /\ w.id = u /\ users'[u] = w.row
          BY <4>2
        <5>2. w.row = none => req[r].op = "delete_user" /\ req[r].target = u
          BY <1>1, <2>3, <2>5, <5>1 DEF Delivers
        <5>3. QED
          BY <2>6, <2>8, <2>9, <5>1, <5>2
      <4>3. QED
        BY <2>4, <3>1, <4>1, <4>2 DEF Applied
    <3>3. CASE \E s \in Req : req[s].op = "delete_user" /\ req[s].target = u /\ req[s].reply = 204
      BY <1>1, <2>9, <3>3
    <3>4. CASE u \in Welcomes(r, TRUE)
      <4>1. u \in req[r].ids /\ req[r].op = "create_user"
        BY <3>4 DEF Welcomes
      <4>2. PICK w \in W : w.table = "user" /\ w.id = u
        BY <1>1, <2>3, <2>5, <4>1 DEF Delivers
      <4>3. w.row # none /\ \A v \in W : v.table = "user" => v = w
        BY <2>3, <4>1, <4>2 DEF SessionInv, WriteInv
      <4>4. users'[u] # none
        BY <2>4, <3>1, <4>2, <4>3 DEF Applied
      <4>5. QED
        BY <4>4
    <3>5. u \in welcomed =>
            users[u] # none \/ \E s \in Req : req[s].op = "delete_user"
                                   /\ req[s].target = u /\ req[s].reply = 204
      BY DEF RestInv, ClientsInv, WelcomeIsCommitted
    <3>6. QED
      BY <2>1, <3>2, <3>3, <3>4, <3>5
  <2>20. RestInv'
    BY <2>11, <2>12, <2>13, <2>16, <2>17, <2>19 DEF RestInv, ClientsInv
  <2>21. StateTypes'
    BY <2>1, <2>2, <2>4, <2>7, <2>18 DEF StateTypes, Tables
  <2>22. QED
    BY <2>20, <2>21
<1>4. QED
  BY <1>2, <1>3

-----------------------------------------------------------------------------
(* The invariant is inductive. *)

LEMMA InitHolds == Init => IInv
<1> SUFFICES ASSUME Init PROVE IInv
  OBVIOUS
<1>1. /\ users = InitialUser /\ organizations = InitialOrg /\ memberships = InitialMembership
      /\ welcomed = {} /\ faults = 0 /\ req = [r \in Req |-> Idle]
      /\ active_memberships_gauge = Cardinality({m \in MembershipId : memberships[m] # none})
  BY DEF Init
<1>2. \A r \in Req : req[r] = Idle
  BY <1>1
<1>3. StateTypes
  <2>1. active_memberships_gauge \in Int
    <3>1. IsFiniteSet({m \in MembershipId : memberships[m] # none})
      BY IdsAssumption, FS_Subset
    <3>2. QED
      BY <1>1, <3>1, FS_CardinalityType
  <2>2. QED
    BY <1>1, <2>1, IdleIs, InitialRowsAssumption, AccountsAssumption DEF StateTypes
<1>4. ProgressInv(Idle)
  BY IdleIs DEF ProgressInv, Working, Loaded, Delivers, Founds
<1>5. IdsInv(req)
  BY <1>2, IdleIs DEF IdsInv
<1>6. RowsInv(users, organizations, memberships, req)
  BY <1>1, InitialRowsAssumption DEF RowsInv, Used, Initial
<1>7. SessionsInv(users, organizations, memberships, req)
  BY <1>2, IdleIs DEF SessionsInv, SessionInv, Gone
<1>8. ClientsInv
  BY <1>1, <1>2, IdleIs DEF ClientsInv, DeletedOnce, WelcomeIsCommitted
<1>9. QED
  BY <1>2, <1>3, <1>4, <1>5, <1>6, <1>7, <1>8 DEF IInv, RestInv

LEMMA NextKeeps == IInv /\ [Next]_vars => IInv'
<1> SUFFICES ASSUME StateTypes, RestInv, [Next]_vars PROVE RestInv' /\ StateTypes'
  BY DEF IInv
<1>1. CASE UNCHANGED vars
  <2>1. UNCHANGED <<users, organizations, memberships, active_memberships_gauge, welcomed, req, faults>>
    BY <1>1 DEF vars, tables
  <2>2. StateTypes'
    BY <2>1 DEF StateTypes
  <2>3. RestInv'
    BY <2>1 DEF RestInv, ClientsInv, DeletedOnce, WelcomeIsCommitted
  <2>4. QED
    BY <2>2, <2>3
<1>2. ASSUME NEW r \in Req,
             \/ Admit(r) \/ CreateUser(r) \/ LoadUser(r) \/ LookUpIdentity(r)
             \/ CheckOrgMembership(r)
             \/ LoadParents(r) \/ LoadMembership(r) \/ LoadOrg(r)
      PROVE  RestInv' /\ StateTypes'
  BY <1>2, AdmitKeeps, CreateUserKeeps, LoadSelfKeeps, LookUpIdentityKeeps,
     CheckOrgMembershipKeeps, LoadParentsKeeps, LoadMembershipKeeps, LoadOrgKeeps DEF LoadUser
<1>3. ASSUME NEW r \in Req,
             \/ UpdateUser(r) \/ UpdateUserAnswered(r) \/ DeleteUser(r)
             \/ CreateMembership(r) \/ UpdateMembership(r) \/ DeleteMembership(r)
             \/ CreateOrg(r) \/ UpdateOrg(r) \/ DeleteOrg(r) \/ HandleRegistration(r)
      PROVE  RestInv' /\ StateTypes'
  BY <1>3, UpdateUserKeeps, UpdateUserAnsweredKeeps, DeleteUserKeeps, CreateMembershipKeeps,
     UpdateMembershipKeeps, DeleteMembershipKeeps, CreateOrgKeeps, UpdateOrgKeeps, DeleteOrgKeeps,
     HandleRegistrationKeeps
<1>4. ASSUME NEW r \in Req, Commit(r) \/ CommitFails(r) \/ Close(r)
      PROVE  RestInv' /\ StateTypes'
  BY <1>4, CommitKeeps, CommitFailsKeeps, CloseKeeps
<1>5. CASE AllDone
  BY <1>1, <1>5 DEF AllDone
<1>6. QED
  BY <1>1, <1>2, <1>3, <1>4, <1>5 DEF Next

LEMMA InvariantHolds == Spec => []IInv
BY InitHolds, NextKeeps, PTL DEF Spec

-----------------------------------------------------------------------------
(* What it shows. *)

(* The rows of all three tables, what the sessions have flushed and what the *)
(* clients are answered are of their types, in every interleaving.           *)
THEOREM TypesHold == Spec => []TypeOK
<1>1. IInv => TypeOK
  <2> SUFFICES ASSUME StateTypes PROVE TypeOK
    BY DEF IInv
  <2>1. ASSUME NEW r \in Req
        PROVE  /\ req[r].pc \in {"idle", "admitted", "loaded", "flushed", "committed", "done"}
               /\ req[r].writes \subseteq Write /\ req[r].lost \subseteq Write
               /\ req[r].reply \in {0, 200, 201, 204, 400, 403, 404, 409, 500}
    <3>1. Pending \subseteq Write
      BY DEF Pending, Write
    <3>2. /\ req[r].pc \in Progress /\ req[r].reply \in Reply
          /\ req[r].writes \subseteq Pending /\ req[r].lost \subseteq Write
      BY DEF StateTypes, RequestState
    <3>3. QED
      BY <3>1, <3>2 DEF Progress, Reply, Refusal
  <2>2. QED
    BY <2>1 DEF TypeOK, StateTypes
<1>2. QED
  BY <1>1, InvariantHolds, PTL

(* The foreign keys and the unique pair of the membership table hold however *)
(* deletes of users and organizations interleave with the requests that      *)
(* create memberships.                                                       *)
THEOREM MembershipsStayAnchored == Spec => []MembershipsAreAnchored
<1>1. IInv => MembershipsAreAnchored
  BY DEF IInv, RestInv, RowsInv, MembershipsAreAnchored
<1>2. QED
  BY <1>1, InvariantHolds, PTL

(* A request that is answered with success has done what it was asked: what  *)
(* it deleted is gone for good, no two requests are told that they deleted   *)
(* one membership, and only users that were committed are welcomed.          *)
THEOREM AnswersStayTrue == Spec => []AnswersAreTrue
<1>1. IInv => AnswersAreTrue
  <2> SUFFICES ASSUME StateTypes, RestInv PROVE AnswersAreTrue
    BY DEF IInv
  <2>1. DeletedOnce /\ WelcomeIsCommitted
    BY DEF RestInv, ClientsInv
  <2>2. AnswersAreDurable
    <3> SUFFICES ASSUME NEW r \in Req, req[r].reply \in {200, 201, 204}, req[r].op # "update_user"
                 PROVE  /\ \A w \in req[r].lost : w.table = "activity"
                        /\ req[r].op \in {"delete_user", "delete_org"} =>
                             /\ req[r].target \in UserId => users[req[r].target] = none
                             /\ req[r].target \in OrgId => organizations[req[r].target] = none
                             /\ Cascade(req[r].target) = {}
      BY DEF AnswersAreDurable
    <3>1. \A w \in req[r].lost : w.table = "activity"
      BY DEF RestInv, ProgressInv, Working
    <3>2. Gone(req[r], users, organizations, memberships)
      BY DEF RestInv, SessionsInv
    <3>3. ASSUME NEW m \in MembershipId, memberships[m] # none
          PROVE  /\ memberships[m].user \in UserId /\ users[memberships[m].user] # none
                 /\ memberships[m].org \in OrgId /\ organizations[memberships[m].org] # none
      BY <3>3 DEF StateTypes, Membership, RestInv, RowsInv, Anchored
    <3>4. ASSUME req[r].op \in {"delete_user", "delete_org"}
          PROVE  /\ req[r].target \in UserId => users[req[r].target] = none
                 /\ req[r].target \in OrgId => organizations[req[r].target] = none
                 /\ req[r].target \in UserId \cup OrgId
      BY <3>2, <3>4, IdsAssumption DEF Gone
    <3>5. ASSUME req[r].op \in {"delete_user", "delete_org"}, NEW m \in Cascade(req[r].target)
          PROVE  FALSE
      BY <3>3, <3>4, <3>5 DEF Cascade
    <3>6. QED
      BY <3>1, <3>4, <3>5
  <2>3. QED
    BY <2>1, <2>2 DEF AnswersAreTrue
<1>2. QED
  BY <1>1, InvariantHolds, PTL

(* A user of Kratos appears in one commit with an organization it owns.      *)
LEMMA RegistrationStep == IInv /\ [Next]_vars =>
  \A u \in UserId :
    users[u] = none /\ users'[u] # none /\ users'[u].identity # none =>
      \E m \in MembershipId :
        /\ memberships[m] = none /\ memberships'[m] # none
        /\ memberships'[m].user = u /\ memberships'[m].role = "owner"
        /\ organizations[memberships'[m].org] = none
<1> SUFFICES ASSUME StateTypes, RestInv, [Next]_vars, NEW u \in UserId,
                    users[u] = none, users'[u] # none, users'[u].identity # none
             PROVE  \E m \in MembershipId :
                      /\ memberships[m] = none /\ memberships'[m] # none
                      /\ memberships'[m].user = u /\ memberships'[m].role = "owner"
                      /\ organizations[memberships'[m].org] = none
  BY DEF IInv
<1>1. PICK r \in Req : Commit(r) /\ ~ OwnerMissing(r)
  <2>1. users' # users
    OBVIOUS
  <2>2. ASSUME NEW r \in Req
        PROVE  /\ ~ Admit(r) /\ ~ CreateUser(r) /\ ~ LoadUser(r) /\ ~ LookUpIdentity(r)
               /\ ~ CheckOrgMembership(r) /\ ~ LoadParents(r) /\ ~ LoadMembership(r) /\ ~ LoadOrg(r)
    BY <2>1 DEF Admit, CreateUser, LoadUser, LoadSelf, LookUpIdentity, CheckOrgMembership,
                LoadParents, LoadMembership, LoadOrg, Loads, Refuse, tables
  <2>3. ASSUME NEW r \in Req
        PROVE  /\ ~ UpdateUser(r) /\ ~ UpdateUserAnswered(r) /\ ~ DeleteUser(r)
               /\ ~ CreateMembership(r) /\ ~ UpdateMembership(r) /\ ~ DeleteMembership(r)
               /\ ~ CreateOrg(r) /\ ~ UpdateOrg(r) /\ ~ DeleteOrg(r) /\ ~ HandleRegistration(r)
    BY <2>1 DEF UpdateUser, UpdateUserAnswered, DeleteUser, CreateMembership, UpdateMembership,
                DeleteMembership, CreateOrg, UpdateOrg, DeleteOrg, HandleRegistration,
                Flushed, Refuse, tables
  <2>4. ASSUME NEW r \in Req
        PROVE  /\ ~ CommitFails(r) /\ ~ Close(r)
               /\ Commit(r) => ~ OwnerMissing(r)
    BY <2>1 DEF CommitFails, Close, Commit, Refuse, tables
  <2>5. ~ AllDone /\ ~ UNCHANGED vars
    BY <2>1 DEF AllDone, vars, tables
  <2>6. QED
    BY <2>2, <2>3, <2>4, <2>5 DEF Next
<1> DEFINE W == Effective(r)
<1>2. /\ req[r].pc = "flushed" /\ req[r].op # "update_user" /\ Committed(r)
      /\ req[r].op = "create_org" => ~ RowHeld(r, "user", req[r].user)
  BY <1>1 DEF Commit
<1>3. /\ SessionInv(W, req[r].ids, users, organizations, memberships)
      /\ req[r].op # "create_org" => W = req[r].writes
      /\ \A w \in W : w.table = "user" => w \in req[r].writes
  BY <1>1, <1>2, EffectiveIs
<1>4. Applied(W, users, organizations, memberships, users', organizations', memberships')
  BY <1>2, <1>3, CommittedApplies DEF SessionInv
<1> HIDE DEF W
<1>5. PICK w \in W : w.table = "user" /\ w.id = u /\ users'[u] = w.row
  BY <1>4 DEF Applied
<1>6. PICK v \in req[r].writes :
        /\ v.table = "membership" /\ v.row # none /\ v.id \in req[r].ids
        /\ v.row.user = u /\ v.row.role = "owner" /\ v.row.org \in req[r].ids
  BY <1>2, <1>3, <1>5 DEF RestInv, ProgressInv, Founds
<1>7. v \in W
  BY <1>6 DEF W, Effective
<1>8. /\ v \in Pending /\ \A x \in W : x.row # none
      /\ \A x \in W : x.table = "membership" => x = v
  BY <1>3, <1>6, <1>7 DEF SessionInv, WriteInv
<1>9. v.id \in MembershipId /\ v.row.org \in OrgId
  BY <1>6, <1>8, PendingIs
<1>10. memberships[v.id] = none /\ organizations[v.row.org] = none
  BY <1>2, <1>6, <1>9, PendingIds
<1>11. memberships'[v.id] = v.row
  BY <1>4, <1>6, <1>7, <1>8, <1>9 DEF Applied, Removes
<1>12. QED
  BY <1>6, <1>9, <1>10, <1>11

(* Deliveries of one registration that race leave one user for the identity, *)
(* and a commit that fails leaves none without an organization of its own.   *)
THEOREM RegistrationsAreSound == Spec => RegistrationIsSound
<1>1. IInv => RegisteredOnce
  BY DEF IInv, RestInv, RowsInv, KeysAreUnique, SameKey, RegisteredOnce
<1>2. Spec => []RegisteredOnce
  BY <1>1, InvariantHolds, PTL
<1>3. Spec => RegistrationIsWhole
  BY RegistrationStep, InvariantHolds, PTL DEF Spec, RegistrationIsWhole
<1>4. QED
  BY <1>2, <1>3 DEF RegistrationIsSound

=============================================================================
