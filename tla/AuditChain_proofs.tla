-------------------------- MODULE AuditChain_proofs --------------------------
(* Proofs about AuditChain, for any set of transactions and payloads.        *)
EXTENDS AuditChain, TLAPS

LEMMA DigestAppend ==
  ASSUME NEW d \in Digest, NEW p \in Payload
  PROVE  compute_entry_hash(d, p) \in Digest
BY DEF Digest, compute_entry_hash

(* The initial chain is empty. *)
LEMMA InitInv == Init => ChainInv
BY DEF Init, ChainInv, TypeOK, Linked, SingleWriter, Visible, LinkOK, NoLink,
       Link, Digest, GENESIS_PREV_HASH

(* A new last row keeps the rows linked. *)
LEMMA LinkedExtend ==
  ASSUME NEW S \in SUBSET Entry, Linked(S),
         NEW n \in Entry,
         n.entry_hash = compute_entry_hash(n.prev_hash, n.payload),
         \A e \in S : e.sequence < n.sequence,
         n.sequence = 1 => n.prev_hash = GENESIS_PREV_HASH,
         n.sequence > 1 => \E e \in S : /\ e.sequence + 1 = n.sequence
                                        /\ e.entry_hash = n.prev_hash
  PROVE  Linked(S \cup {n})
<1> DEFINE T == S \cup {n}
<1>0. \A e \in T : e.sequence \in Nat \ {0}
  BY DEF Entry
<1>1. \A e, f \in T : e.sequence = f.sequence => e = f
  BY <1>0 DEF Linked
<1>2. ASSUME NEW e \in T, NEW i \in 1 .. e.sequence
      PROVE  \E f \in T : f.sequence = i
  <2>1. CASE e \in S
    BY <2>1 DEF Linked
  <2>2. CASE e = n /\ i = n.sequence
    BY <2>2
  <2>3. CASE e = n /\ i # n.sequence
    <3>1. i \in 1 .. (n.sequence - 1) /\ n.sequence > 1
      BY <2>3, <1>0
    <3>2. PICK g \in S : g.sequence + 1 = n.sequence
      BY <3>1
    <3>3. i \in 1 .. g.sequence
      BY <3>1, <3>2, <1>0
    <3>4. QED  BY <3>3 DEF Linked
  <2>4. QED  BY <2>1, <2>2, <2>3
<1>3. ASSUME NEW e \in T
      PROVE  /\ e.entry_hash = compute_entry_hash(e.prev_hash, e.payload)
             /\ e.sequence = 1 => e.prev_hash = GENESIS_PREV_HASH
             /\ \A f \in T : e.sequence = f.sequence + 1 => e.prev_hash = f.entry_hash
  <2>1. CASE e \in S
    <3>1. ~(e.sequence = n.sequence + 1)
      BY <2>1, <1>0
    <3>2. QED  BY <2>1, <3>1 DEF Linked
  <2>2. CASE e = n
    <3>1. ASSUME NEW f \in T, e.sequence = f.sequence + 1
          PROVE  e.prev_hash = f.entry_hash
      <4>1. n.sequence > 1 /\ f \in S
        BY <2>2, <3>1, <1>0
      <4>2. PICK g \in S : g.sequence + 1 = n.sequence /\ g.entry_hash = n.prev_hash
        BY <4>1
      <4>3. g.sequence = f.sequence
        BY <4>2, <3>1, <2>2, <1>0
      <4>4. g = f
        BY <4>1, <4>3, <1>1
      <4>5. QED  BY <4>2, <4>4, <2>2
    <3>2. QED  BY <2>2, <3>1
  <2>3. QED  BY <2>1, <2>2
<1>4. QED  BY <1>1, <1>2, <1>3 DEF Linked

(* Reading a link keeps the invariant: the link is one past a visible row.   *)
LEMMA ReadLinkInv ==
  ASSUME ChainInv, NEW t \in Tx, ReadLink(t)
  PROVE  ChainInv'
<1>1. PICK next \in NextLinks(Visible(t)) : link' = [link EXCEPT ![t] = next]
  BY DEF ReadLink
<1>2. UNCHANGED <<audit_entry, pending>>
  BY DEF ReadLink
<1>3. Visible(t) \in SUBSET Entry
  BY DEF ChainInv, TypeOK, Visible
<1>4. /\ next \in Link
      /\ next.sequence # 0
      /\ \A e \in Visible(t) : e.sequence < next.sequence
      /\ next.sequence = 1 => next.prev_hash = GENESIS_PREV_HASH
      /\ next.sequence > 1 =>
           \E e \in Visible(t) : /\ e.sequence + 1 = next.sequence
                                 /\ e.entry_hash = next.prev_hash
  <2>1. CASE Visible(t) = {}
    <3>1. next = [prev_hash |-> GENESIS_PREV_HASH, sequence |-> 1]
      BY <2>1 DEF NextLinks
    <3>2. GENESIS_PREV_HASH \in Digest
      BY DEF Digest, GENESIS_PREV_HASH
    <3>3. QED  BY <2>1, <3>1, <3>2 DEF Link
  <2>2. CASE Visible(t) # {}
    <3>1. PICK e \in Visible(t) :
             /\ \A g \in Visible(t) : g.sequence <= e.sequence
             /\ next = [prev_hash |-> e.entry_hash, sequence |-> e.sequence + 1]
      BY <2>2 DEF NextLinks
    <3>2. e \in Entry /\ \A g \in Visible(t) : g.sequence \in Nat
      BY <1>3 DEF Entry
    <3>3. QED  BY <3>1, <3>2 DEF Entry, Link
  <2>3. QED  BY <2>1, <2>2
<1>5. TypeOK'
  BY <1>1, <1>2, <1>4 DEF ChainInv, TypeOK
<1>6. ASSUME NEW u \in Tx PROVE LinkOK(u)'
  <2>1. CASE u = t
    BY <2>1, <1>1, <1>2, <1>4 DEF ChainInv, TypeOK, LinkOK, Visible
  <2>2. CASE u # t
    BY <2>2, <1>1, <1>2 DEF ChainInv, TypeOK, LinkOK, Visible
  <2>3. QED  BY <2>1, <2>2
<1>7. QED
  BY <1>2, <1>5, <1>6 DEF ChainInv, SingleWriter, Visible, Linked

(* A successful insert appends one row to what its transaction sees, and no  *)
(* other transaction can be holding uncommitted rows.                        *)
LEMMA InsertInv ==
  ASSUME ChainInv, NEW t \in Tx, NEW payload \in Payload, Insert(t, payload)
  PROVE  ChainInv'
<1> DEFINE n == NewEntry(t, payload)
           s == link[t].sequence
<1>1. /\ link[t] # NoLink
      /\ ~Held(t, s)
      /\ ~Taken(t, s)
      /\ pending' = [pending EXCEPT ![t] = @ \cup {n}]
      /\ link' = [link EXCEPT ![t] = NoLink]
      /\ UNCHANGED audit_entry
  BY DEF Insert
<1>2. TypeOK /\ LinkOK(t)
  BY DEF ChainInv
<1>3. link[t] \in Link /\ s \in Nat \ {0}
  BY <1>1, <1>2 DEF TypeOK, LinkOK, Link
<1>4. /\ n \in Entry
      /\ n.sequence = s
      /\ n.prev_hash = link[t].prev_hash
      /\ n.entry_hash = compute_entry_hash(n.prev_hash, n.payload)
  BY <1>3, DigestAppend DEF NewEntry, Entry, Link
<1>5. \A u \in Tx : Visible(u) \in SUBSET Entry
  BY <1>2 DEF TypeOK, Visible
<1>6. \A e \in Entry : e.sequence \in Nat \ {0}
  BY DEF Entry
<1>7. s > 1 => \E e \in Visible(t) : e.sequence + 1 = s /\ e.entry_hash = n.prev_hash
  BY <1>1, <1>2, <1>4 DEF LinkOK
<1>8. \A e \in Visible(t) : e.sequence < s
  <2> SUFFICES ASSUME NEW e \in Visible(t), ~(e.sequence < s) PROVE FALSE
    OBVIOUS
  <2>1. s \in 1 .. e.sequence
    BY <1>3, <1>5, <1>6
  <2>2. \E f \in Visible(t) : f.sequence = s
    BY <2>1 DEF ChainInv, Linked
  <2>3. QED  BY <2>2, <1>1 DEF Taken
<1>9. ASSUME NEW u \in Tx \ {t} PROVE pending[u] = {}
  <2> SUFFICES ASSUME NEW e \in pending[u] PROVE FALSE
    OBVIOUS
  <2>0. e \in Visible(u) /\ e.sequence \in Nat \ {0}
    BY <1>5, <1>6 DEF Visible
  <2>1. pending[t] = {}
    BY DEF ChainInv, SingleWriter
  <2>2. Visible(t) = audit_entry
    BY <2>1 DEF Visible
  <2>3. CASE s <= e.sequence
    <3>1. PICK f \in Visible(u) : f.sequence = s
      BY <2>0, <2>3, <1>3 DEF ChainInv, Linked
    <3>2. f \in audit_entry \/ f \in pending[u]
      BY DEF Visible
    <3>3. QED  BY <3>1, <3>2, <1>1, <2>2 DEF Taken, Held
  <2>4. CASE e.sequence < s
    <3>1. PICK g \in audit_entry : g.sequence + 1 = s
      BY <2>4, <2>0, <2>2, <1>3, <1>7
    <3>2. e.sequence \in 1 .. g.sequence
      BY <3>1, <2>4, <2>0, <2>2, <1>5, <1>6, <1>3
    <3>3. PICK f \in audit_entry : f.sequence = e.sequence
      BY <3>1, <3>2 DEF ChainInv, Linked
    <3>4. QED  BY <3>3 DEF ChainInv
  <2>5. QED  BY <2>3, <2>4, <2>0, <1>3
<1>10. TypeOK'
  BY <1>1, <1>2, <1>4 DEF TypeOK, NoLink, Link, Digest, GENESIS_PREV_HASH
<1>11. Visible(t)' = Visible(t) \cup {n}
  BY <1>1, <1>2 DEF TypeOK, Visible
<1>12. \A u \in Tx \ {t} : Visible(u)' = Visible(u) /\ pending'[u] = pending[u]
  BY <1>1, <1>2 DEF TypeOK, Visible
<1>13. Linked(Visible(t) \cup {n})
  <2>1. n.sequence = 1 => n.prev_hash = GENESIS_PREV_HASH
    BY <1>1, <1>2, <1>4 DEF LinkOK
  <2>2. Linked(Visible(t))
    BY DEF ChainInv
  <2>3. QED  BY <2>1, <2>2, <1>4, <1>5, <1>7, <1>8, LinkedExtend
<1>14. ASSUME NEW u \in Tx
       PROVE  /\ Linked(Visible(u))'
              /\ LinkOK(u)'
              /\ \A e \in pending'[u], f \in audit_entry' : e.sequence # f.sequence
  <2>1. CASE u = t
    <3>1. Linked(Visible(u))'
      BY <2>1, <1>11, <1>13 DEF Linked
    <3>2. LinkOK(u)'
      BY <2>1, <1>1, <1>2 DEF TypeOK, LinkOK
    <3>3. \A e \in pending'[u], f \in audit_entry' : e.sequence # f.sequence
      <4>1. \A f \in audit_entry : f.sequence # n.sequence
        BY <1>1, <1>4 DEF Taken, Visible
      <4>2. pending'[u] = pending[u] \cup {n}
        BY <2>1, <1>1, <1>2 DEF TypeOK
      <4>3. QED  BY <4>1, <4>2, <1>1 DEF ChainInv
    <3>4. QED  BY <3>1, <3>2, <3>3
  <2>2. CASE u # t
    <3>1. link'[u] = link[u]
      BY <2>2, <1>1, <1>2 DEF TypeOK
    <3>2. Linked(Visible(u)) /\ LinkOK(u)
      BY DEF ChainInv
    <3>3. QED
      BY <2>2, <3>1, <3>2, <1>1, <1>12 DEF ChainInv, Linked, LinkOK
  <2>3. QED  BY <2>1, <2>2
<1>15. SingleWriter'
  BY <1>1, <1>9, <1>12 DEF SingleWriter
<1>16. Linked(audit_entry)'
  BY <1>1 DEF ChainInv, Linked
<1>17. QED
  BY <1>10, <1>14, <1>15, <1>16 DEF ChainInv

(* A rolled back transaction is left seeing the committed rows only.         *)
LEMMA RollbackInv ==
  ASSUME ChainInv, NEW t \in Tx, Rollback(t)
  PROVE  ChainInv'
<1>1. /\ pending' = [pending EXCEPT ![t] = {}]
      /\ link' = [link EXCEPT ![t] = NoLink]
      /\ UNCHANGED audit_entry
  BY DEF Rollback
<1>2. TypeOK
  BY DEF ChainInv
<1>3. TypeOK'
  BY <1>1, <1>2 DEF TypeOK, NoLink, Link, Digest, GENESIS_PREV_HASH
<1>4. ASSUME NEW u \in Tx
      PROVE  /\ Linked(Visible(u))'
             /\ LinkOK(u)'
             /\ \A e \in pending'[u], f \in audit_entry' : e.sequence # f.sequence
  <2>1. CASE u = t
    <3>1. pending'[u] = {} /\ link'[u] = NoLink
      BY <2>1, <1>1, <1>2 DEF TypeOK
    <3>2. Visible(u)' = audit_entry
      BY <3>1, <1>1 DEF Visible
    <3>3. QED  BY <3>1, <3>2 DEF ChainInv, Linked, LinkOK
  <2>2. CASE u # t
    <3>1. /\ pending'[u] = pending[u]
          /\ link'[u] = link[u]
          /\ Visible(u)' = Visible(u)
      BY <2>2, <1>1, <1>2 DEF TypeOK, Visible
    <3>2. QED  BY <3>1, <1>1 DEF ChainInv, Linked, LinkOK
  <2>3. QED  BY <2>1, <2>2
<1>5. SingleWriter'
  BY <1>1, <1>2 DEF ChainInv, TypeOK, SingleWriter
<1>6. QED
  BY <1>1, <1>3, <1>4, <1>5 DEF ChainInv, Linked

(* A commit publishes what its transaction already saw; the others held no   *)
(* rows, so they now see exactly the new committed chain.                    *)
LEMMA CommitInv ==
  ASSUME ChainInv, NEW t \in Tx, Commit(t)
  PROVE  ChainInv'
<1>1. /\ link[t] = NoLink
      /\ audit_entry' = Visible(t)
      /\ pending' = [pending EXCEPT ![t] = {}]
      /\ UNCHANGED link
  BY DEF Commit, Visible
<1>2. TypeOK
  BY DEF ChainInv
<1>3. TypeOK'
  BY <1>1, <1>2 DEF TypeOK, Visible
<1>4. CASE pending[t] = {}
  <2>1. pending' = pending /\ audit_entry' = audit_entry
    BY <1>1, <1>2, <1>4 DEF TypeOK, Visible
  <2>2. QED
    BY <2>1, <1>1, <1>3 DEF ChainInv, SingleWriter, Visible, Linked, LinkOK
<1>5. CASE pending[t] # {}
  <2>1. \A u \in Tx : pending'[u] = {}
    BY <1>1, <1>2, <1>5 DEF ChainInv, TypeOK, SingleWriter
  <2>2. \A u \in Tx : Visible(u)' = audit_entry'
    BY <2>1 DEF Visible
  <2>3. Linked(audit_entry')
    BY <1>1 DEF ChainInv
  <2>4. ASSUME NEW u \in Tx PROVE LinkOK(u)'
    <3>1. CASE u = t
      BY <3>1, <1>1 DEF LinkOK
    <3>2. CASE u # t
      <4>1. pending[u] = {} /\ Visible(u) = audit_entry
        BY <3>2, <1>5 DEF ChainInv, SingleWriter, Visible
      <4>2. Visible(u) \subseteq Visible(u)'
        BY <4>1, <2>2, <1>1 DEF Visible
      <4>3. LinkOK(u)
        BY DEF ChainInv
      <4>4. QED  BY <4>2, <4>3, <2>1, <1>1 DEF LinkOK
    <3>3. QED  BY <3>1, <3>2
  <2>5. Linked(audit_entry)' /\ \A u \in Tx : Linked(Visible(u))'
    BY <2>2, <2>3 DEF Linked
  <2>6. QED
    BY <1>3, <2>1, <2>4, <2>5 DEF ChainInv, SingleWriter
<1>6. QED  BY <1>4, <1>5

(* The invariant is inductive. *)
LEMMA NextInv == ChainInv /\ [Next]_vars => ChainInv'
<1> SUFFICES ASSUME ChainInv, [Next]_vars PROVE ChainInv'
  OBVIOUS
<1>1. ASSUME NEW t \in Tx, ReadLink(t) PROVE ChainInv'
  BY <1>1, ReadLinkInv
<1>2. ASSUME NEW t \in Tx, NEW payload \in Payload, Insert(t, payload) PROVE ChainInv'
  BY <1>2, InsertInv
<1>3. ASSUME NEW t \in Tx, Conflict(t) PROVE ChainInv'
  BY <1>3, RollbackInv DEF Conflict
<1>4. ASSUME NEW t \in Tx, Commit(t) PROVE ChainInv'
  BY <1>4, CommitInv
<1>5. ASSUME NEW t \in Tx, Rollback(t) PROVE ChainInv'
  BY <1>5, RollbackInv
<1>6. CASE UNCHANGED vars
  BY <1>6 DEF vars, ChainInv, TypeOK, Linked, SingleWriter, Visible, LinkOK
<1>7. QED
  BY <1>1, <1>2, <1>3, <1>4, <1>5, <1>6 DEF Next

(* Linked rows pass verify_audit_chain: the row before e in the walk is the  *)
(* one numbered e.sequence - 1, which e extends.                             *)
LEMMA LinkedVerifies ==
  ASSUME NEW S \in SUBSET Entry, Linked(S)
  PROVE  verify_audit_chain(S).verified
<1>1. SUFFICES BrokenEntries(S) = {}
  BY <1>1 DEF verify_audit_chain
<1>2. SUFFICES ASSUME NEW e \in S
               PROVE  /\ e.prev_hash = PrevHash(S, e)
                      /\ e.entry_hash = compute_entry_hash(PrevHash(S, e), e.payload)
  BY <1>2 DEF BrokenEntries
<1>3. e.entry_hash = compute_entry_hash(e.prev_hash, e.payload)
  BY DEF Linked
<1>4. \A f \in S : f.sequence \in Nat \ {0}
  BY DEF Entry
<1>5. CASE e.sequence = 1
  <2>1. Before(S, e) = {}
    BY <1>4, <1>5 DEF Before
  <2>2. QED  BY <2>1, <1>3, <1>5 DEF PrevHash, Linked
<1>6. CASE e.sequence # 1
  <2>1. e.sequence - 1 \in 1 .. e.sequence
    BY <1>4, <1>6
  <2>2. PICK f \in S : f.sequence = e.sequence - 1
    BY <2>1 DEF Linked
  <2>3. f \in Before(S, e) /\ \A g \in Before(S, e) : g.sequence <= f.sequence
    BY <2>2, <1>4 DEF Before
  <2>4. \A g \in Before(S, e) :
          (\A h \in Before(S, e) : h.sequence <= g.sequence) => g = f
    <3> SUFFICES ASSUME NEW g \in Before(S, e),
                        \A h \in Before(S, e) : h.sequence <= g.sequence
                 PROVE  g = f
      OBVIOUS
    <3>1. g \in S /\ g.sequence = f.sequence
      BY <2>3, <1>4 DEF Before
    <3>2. QED  BY <3>1 DEF Linked
  <2>5. Last(Before(S, e)) = f
    BY <2>3, <2>4 DEF Last
  <2>6. PrevHash(S, e) = f.entry_hash
    BY <2>3, <2>5 DEF PrevHash
  <2>7. e.prev_hash = f.entry_hash
    <3>1. e.sequence = f.sequence + 1
      BY <2>2, <1>4
    <3>2. QED  BY <3>1 DEF Linked
  <2>8. QED  BY <2>6, <2>7, <1>3
<1>7. QED  BY <1>5, <1>6

-----------------------------------------------------------------------------
(* Type correctness of the chain and of the links and rows in flight, in     *)
(* every interleaving of append_audit_entry by any number of sessions.       *)
THEOREM TypeCorrect == Spec => []TypeOK
<1>1. ChainInv => TypeOK
  BY DEF ChainInv
<1>2. QED
  BY InitInv, NextInv, <1>1, PTL DEF Spec

(* verify_audit_chain accepts what every session sees, for any number of     *)
(* sessions appending concurrently: export_job's gate never refuses a chain  *)
(* that only append_audit_entry wrote.                                       *)
THEOREM ChainIntegrity == Spec => []EveryViewVerifies
<1>1. ChainInv => EveryViewVerifies
  <2> SUFFICES ASSUME ChainInv, NEW t \in Tx
               PROVE  verify_audit_chain(Visible(t)).verified
    BY DEF EveryViewVerifies
  <2>1. Visible(t) \in SUBSET Entry /\ Linked(Visible(t))
    BY DEF ChainInv, TypeOK, Visible
  <2>2. QED  BY <2>1, LinkedVerifies
<1>2. QED
  BY InitInv, NextInv, <1>1, PTL DEF Spec

(* The committed sequence numbers are 1..n without gap or duplicate.         *)
THEOREM Contiguity == Spec => []SequenceIsContiguous
<1>1. ChainInv => SequenceIsContiguous
  BY DEF ChainInv, Linked, SequenceIsContiguous
<1>2. QED
  BY InitInv, NextInv, <1>1, PTL DEF Spec

(* No two sessions hold uncommitted audit entries of one job at once.        *)
THEOREM MutualExclusionOfWriters == Spec => []SingleWriter
<1>1. ChainInv => SingleWriter
  BY DEF ChainInv
<1>2. QED
  BY InitInv, NextInv, <1>1, PTL DEF Spec

-----------------------------------------------------------------------------
(* Hashes of later rows extend the hashes of earlier ones.                   *)

LEMMA PrefixOfAppend ==
  ASSUME NEW d \in Digest, NEW e \in Digest, NEW p \in Payload, IsPrefixOf(d, e)
  PROVE  IsPrefixOf(d, compute_entry_hash(e, p))
BY DEF IsPrefixOf, Digest, compute_entry_hash

LEMMA PrefixOfItself ==
  ASSUME NEW d \in Digest
  PROVE  IsPrefixOf(d, d) /\ IsPrefixOf(GENESIS_PREV_HASH, d)
BY DEF IsPrefixOf, Digest, GENESIS_PREV_HASH

LEMMA HeadInit == Init => HeadInv
BY InitInv DEF Init, HeadInv, HashesGrow, Visible

(* The row an insert adds comes last and extends the row that was last.      *)
LEMMA InsertGrows ==
  ASSUME HeadInv, NEW t \in Tx, NEW payload \in Payload, Insert(t, payload)
  PROVE  HashesGrow(Visible(t))'
<1> DEFINE n == NewEntry(t, payload)
           s == link[t].sequence
<1>1. /\ link[t] # NoLink
      /\ ~Taken(t, s)
      /\ pending' = [pending EXCEPT ![t] = @ \cup {n}]
      /\ UNCHANGED audit_entry
  BY DEF Insert
<1>2. ChainInv /\ TypeOK /\ LinkOK(t) /\ HashesGrow(Visible(t)) /\ Linked(Visible(t))
  BY DEF HeadInv, ChainInv
<1>3. link[t] \in Link /\ s \in Nat \ {0}
  BY <1>1, <1>2 DEF TypeOK, LinkOK, Link
<1>4. /\ n \in Entry
      /\ n.sequence = s
      /\ n.entry_hash = compute_entry_hash(link[t].prev_hash, payload)
  BY <1>3, DigestAppend DEF NewEntry, Entry, Link
<1>5. /\ Visible(t) \in SUBSET Entry
      /\ \A e \in Entry : e.sequence \in Nat \ {0} /\ e.entry_hash \in Digest
  BY <1>2 DEF TypeOK, Visible, Entry
<1>6. Visible(t)' = Visible(t) \cup {n}
  BY <1>1, <1>2 DEF TypeOK, Visible
<1>7. \A e \in Visible(t) : e.sequence < s
  <2> SUFFICES ASSUME NEW e \in Visible(t), ~(e.sequence < s) PROVE FALSE
    OBVIOUS
  <2>1. s \in 1 .. e.sequence
    BY <1>3, <1>5
  <2>2. \E f \in Visible(t) : f.sequence = s
    BY <2>1, <1>2 DEF Linked
  <2>3. QED  BY <2>2, <1>1 DEF Taken
<1>8. ASSUME NEW e \in Visible(t)
      PROVE  IsPrefixOf(e.entry_hash, n.entry_hash)
  <2>1. s > 1
    BY <1>3, <1>5, <1>7
  <2>2. PICK f \in Visible(t) : f.sequence + 1 = s /\ f.entry_hash = link[t].prev_hash
    BY <2>1, <1>1, <1>2 DEF LinkOK
  <2>3. e.sequence <= f.sequence
    BY <2>2, <1>3, <1>5, <1>7
  <2>4. IsPrefixOf(e.entry_hash, f.entry_hash)
    BY <2>3, <1>2 DEF HashesGrow
  <2>5. QED  BY <2>2, <2>4, <1>4, <1>5, PrefixOfAppend
<1>9. \A e \in Visible(t) \cup {n} : e.sequence <= n.sequence
  BY <1>3, <1>4, <1>5, <1>7
<1>10. ASSUME NEW e \in Visible(t) \cup {n}, NEW f \in Visible(t) \cup {n},
              e.sequence <= f.sequence
       PROVE  IsPrefixOf(e.entry_hash, f.entry_hash)
  <2>1. CASE e \in Visible(t) /\ f \in Visible(t)
    BY <2>1, <1>10, <1>2 DEF HashesGrow
  <2>2. CASE e \in Visible(t) /\ f = n
    BY <2>2, <1>8
  <2>3. CASE e = n /\ f = n
    BY <2>3, <1>4, <1>5, PrefixOfItself
  <2>4. CASE e = n /\ f \in Visible(t)
    BY <2>4, <1>10, <1>4, <1>5, <1>7, <1>3
  <2>5. QED  BY <2>1, <2>2, <2>3, <2>4
<1>11. QED  BY <1>6, <1>9, <1>10 DEF HashesGrow

LEMMA HeadNext == HeadInv /\ [Next]_vars => HeadInv'
<1> SUFFICES ASSUME HeadInv, [Next]_vars PROVE HeadInv'
  OBVIOUS
<1>1. ChainInv /\ ChainInv' /\ TypeOK
  BY NextInv DEF HeadInv, ChainInv
<1>2. ASSUME NEW t \in Tx, NEW payload \in Payload, Insert(t, payload)
      PROVE  HeadInv'
  <2>1. audit_entry' = audit_entry /\ \A u \in Tx \ {t} : Visible(u)' = Visible(u)
    BY <1>1, <1>2 DEF Insert, TypeOK, Visible
  <2>2. HashesGrow(Visible(t))'
    BY <1>2, InsertGrows
  <2>3. ASSUME NEW u \in Tx PROVE HashesGrow(Visible(u))'
    <3>1. CASE u = t
      BY <3>1, <2>2
    <3>2. CASE u # t
      BY <3>2, <2>1 DEF HeadInv, HashesGrow
    <3>3. QED  BY <3>1, <3>2
  <2>4. QED  BY <1>1, <2>1, <2>3 DEF HeadInv, HashesGrow
<1>3. ASSUME NEW t \in Tx, Rollback(t) PROVE HeadInv'
  <2>1. /\ audit_entry' = audit_entry
        /\ Visible(t)' = audit_entry
        /\ \A u \in Tx \ {t} : Visible(u)' = Visible(u)
    BY <1>1, <1>3 DEF Rollback, TypeOK, Visible
  <2>2. ASSUME NEW u \in Tx PROVE HashesGrow(Visible(u))'
    <3>1. CASE u = t
      BY <3>1, <2>1 DEF HeadInv, HashesGrow
    <3>2. CASE u # t
      BY <3>2, <2>1 DEF HeadInv, HashesGrow
    <3>3. QED  BY <3>1, <3>2
  <2>3. QED  BY <1>1, <2>1, <2>2 DEF HeadInv, HashesGrow
<1>4. ASSUME NEW t \in Tx, Commit(t) PROVE HeadInv'
  <2>1. /\ audit_entry' = Visible(t)
        /\ Visible(t)' = Visible(t)
        /\ \A u \in Tx \ {t} : pending'[u] = pending[u]
    BY <1>1, <1>4 DEF Commit, TypeOK, Visible
  <2>2. ASSUME NEW u \in Tx \ {t} PROVE Visible(u)' = Visible(u) \/ Visible(u)' = Visible(t)
    <3>1. pending[u] = {} \/ pending[t] = {}
      BY <1>1 DEF ChainInv, SingleWriter
    <3>2. QED  BY <3>1, <2>1 DEF Visible
  <2>3. ASSUME NEW u \in Tx PROVE HashesGrow(Visible(u))'
    <3>1. Visible(u)' = Visible(u) \/ Visible(u)' = Visible(t)
      BY <2>1, <2>2
    <3>2. QED  BY <3>1 DEF HeadInv, HashesGrow
  <2>4. QED  BY <1>1, <2>1, <2>3 DEF HeadInv, HashesGrow
<1>5. ASSUME UNCHANGED <<audit_entry, pending>> PROVE HeadInv'
  BY <1>1, <1>5 DEF HeadInv, HashesGrow, Visible
<1>6. QED
  BY <1>2, <1>3, <1>4, <1>5 DEF Next, vars, ReadLink, Conflict

(* The last row of linked rows, and the hash of the head.                    *)
LEMMA HeadOfRows ==
  ASSUME NEW S \in SUBSET Entry, NEW e \in S, Linked(S),
         \A f \in S : f.sequence <= e.sequence
  PROVE  Head_of(S) = e.entry_hash
<1>1. \A g \in S : (\A f \in S : f.sequence <= g.sequence) => g = e
  <2> SUFFICES ASSUME NEW g \in S, \A f \in S : f.sequence <= g.sequence
               PROVE  g = e
    OBVIOUS
  <2>1. g.sequence = e.sequence
    BY DEF Entry
  <2>2. QED  BY <2>1 DEF Linked
<1>2. Last(S) = e
  BY <1>1 DEF Last
<1>3. QED  BY <1>2 DEF Head_of

(* Head(chain) only ever extends, so the audit_chain_head of an exported     *)
(* manifest commits to the start of every later chain of the job.            *)
THEOREM HeadExtends == Spec => HeadOnlyExtends
<1>1. HeadInv /\ [Next]_vars
        => [IsPrefixOf(Head_of(audit_entry), Head_of(audit_entry'))]_audit_entry
  <2> SUFFICES ASSUME HeadInv, [Next]_vars, audit_entry' # audit_entry
               PROVE  IsPrefixOf(Head_of(audit_entry), Head_of(audit_entry'))
    OBVIOUS
  <2>1. /\ audit_entry \in SUBSET Entry /\ Linked(audit_entry) /\ HashesGrow(audit_entry)
        /\ audit_entry' \in SUBSET Entry /\ Linked(audit_entry') /\ HashesGrow(audit_entry')
    BY HeadNext DEF HeadInv, ChainInv, TypeOK, HashesGrow, Linked
  <2>2. audit_entry \subseteq audit_entry'
    BY DEF Next, vars, ReadLink, Insert, Conflict, Commit, Rollback
  <2>3. PICK f \in audit_entry' : \A g \in audit_entry' : g.sequence <= f.sequence
    BY <2>1, <2>2 DEF HashesGrow
  <2>4. Head_of(audit_entry') = f.entry_hash
    BY <2>1, <2>3, HeadOfRows
  <2>5. CASE audit_entry = {}
    <3>1. Head_of(audit_entry) = GENESIS_PREV_HASH
      BY <2>5 DEF Head_of
    <3>2. f.entry_hash \in Digest
      BY <2>1, <2>3 DEF Entry
    <3>3. QED  BY <2>4, <3>1, <3>2, PrefixOfItself
  <2>6. CASE audit_entry # {}
    <3>1. PICK e \in audit_entry : \A g \in audit_entry : g.sequence <= e.sequence
      BY <2>1, <2>6 DEF HashesGrow
    <3>2. Head_of(audit_entry) = e.entry_hash
      BY <2>1, <3>1, HeadOfRows
    <3>3. e \in audit_entry' /\ e.sequence <= f.sequence
      BY <2>2, <2>3, <3>1
    <3>4. QED  BY <2>1, <2>4, <3>2, <3>3 DEF HashesGrow
  <2>7. QED  BY <2>5, <2>6
<1>2. QED
  BY HeadInit, HeadNext, <1>1, PTL DEF Spec, HeadOnlyExtends

=============================================================================
