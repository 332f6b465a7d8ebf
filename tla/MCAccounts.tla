----------------------------- MODULE MCAccounts -----------------------------
(* Accounts on a small instance: an organization with its owner and one     *)
(* member, and requests of any kind that race.                              *)
EXTENDS Accounts, TLC

CONSTANTS r1, r2, r3, u1, u2, u3, u4, u5, g1, g2, g3, g4, m1, m2, m3, m4, m5, e1, e2, e3, i1

MCReq == {r1, r2, r3}
MCUserId == {u1, u2, u3, u4, u5}
MCOrgId == {g1, g2, g3, g4}
MCMembershipId == {m1, m2, m3, m4, m5}
MCEmail == {e1, e2, e3}
MCPayloadRole == {"owner", "member"}
MCIdentity == {i1}

\* Requests whose races the runs look at.
ProfileUpdates == {"update_user"}

MCInitialUser ==
  [u \in MCUserId |-> IF u = u1 THEN [email |-> e1, identity |-> none]
                     ELSE IF u = u2 THEN [email |-> e2, identity |-> none] ELSE none]
MCInitialOrg == [g \in MCOrgId |-> IF g = g1 THEN [name |-> "first"] ELSE none]
MCInitialMembership ==
  [m \in MCMembershipId |->
     IF m = m1 THEN [user |-> u1, org |-> g1, role |-> "owner"]
     ELSE IF m = m2 THEN [user |-> u2, org |-> g1, role |-> "admin"] ELSE none]

Symmetry == Permutations(MCReq)

=============================================================================
