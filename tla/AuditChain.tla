----------------------------- MODULE AuditChain -----------------------------
(***************************************************************************)
(* The audit hash chain of one redaction job: the rows of audit_entry with *)
(* that job's id, appended by concurrent database transactions.            *)
(*                                                                         *)
(* append_audit_entry runs inside the transaction of whatever session the  *)
(* caller owns.  It first READS the link (the last row it can see, in      *)
(* _next_chain_link) and only then INSERTs a row that extends that link.   *)
(* Other sessions run between the two.  Nothing locks the chain: what      *)
(* keeps it linear is the unique constraint on (job_id, sequence), under   *)
(* PostgreSQL's READ COMMITTED isolation:                                  *)
(*   - a transaction sees the committed rows and its own flushed rows;     *)
(*   - an INSERT whose key is held by another transaction's flushed row    *)
(*     waits until that transaction ends;                                  *)
(*   - an INSERT whose key is committed raises IntegrityError, and the     *)
(*     transaction is rolled back.                                         *)
(*                                                                         *)
(* A digest is identified with the data it digests: compute_entry_hash is  *)
(* an ideal, collision-free hash of (prev_hash, payload), so a digest is   *)
(* the sequence of payloads hashed so far and GENESIS_PREV_HASH is empty.  *)
(***************************************************************************)
EXTENDS Naturals, Sequences, FiniteSets

CONSTANTS
  Tx,           \* transactions (one database session each)
  Payload,      \* the six hashed fields of an entry, taken together
  MaxSequence   \* bound: rows with a larger sequence are not inserted

ASSUME MaxSequenceAssumption == MaxSequence \in Nat

VARIABLES
  audit_entry,  \* committed rows of the job
  link,         \* per transaction: link read and not used yet, or NoLink
  pending       \* per transaction: rows flushed and not committed

vars == <<audit_entry, link, pending>>

Digest == Seq(Payload)

GENESIS_PREV_HASH == << >>

\* Mutant: the previous hash is left out of the digest.
compute_entry_hash_NoPrev(prev_hash, payload) == <<payload>>

compute_entry_hash(prev_hash, payload) == Append(prev_hash, payload)

Entry == [payload    : Payload,
          prev_hash  : Digest,
          entry_hash : Digest,
          sequence   : Nat \ {0}]

Link == [prev_hash : Digest, sequence : Nat]

NoLink == [prev_hash |-> GENESIS_PREV_HASH, sequence |-> 0]

-----------------------------------------------------------------------------
(* verify_audit_chain: walk S by sequence; each row must carry the stored   *)
(* hash of the row before it and the hash recomputed from that.             *)

Last(S) == CHOOSE e \in S : \A f \in S : f.sequence <= e.sequence

Before(S, e) == {f \in S : f.sequence < e.sequence}

PrevHash(S, e) ==
  IF Before(S, e) = {} THEN GENESIS_PREV_HASH
                       ELSE Last(Before(S, e)).entry_hash

BrokenEntries(S) ==
  {e \in S : \/ e.prev_hash # PrevHash(S, e)
             \/ e.entry_hash # compute_entry_hash(PrevHash(S, e), e.payload)}

Head_of(S) == IF S = {} THEN GENESIS_PREV_HASH ELSE Last(S).entry_hash

verify_audit_chain(S) ==
  [verified    |-> BrokenEntries(S) = {},
   entry_count |-> Cardinality(S),
   head        |-> Head_of(S)]

-----------------------------------------------------------------------------
Visible(t) == audit_entry \cup pending[t]

(* Another transaction has flushed a row with this sequence: wait for it. *)
Held(t, sequence) ==
  \E u \in Tx \ {t} : \E e \in pending[u] : e.sequence = sequence

(* uq_audit_entry_job_sequence: a row this INSERT would duplicate. *)
Taken(t, sequence) == \E e \in Visible(t) : e.sequence = sequence

Init ==
  /\ audit_entry = {}
  /\ link = [t \in Tx |-> NoLink]
  /\ pending = [t \in Tx |-> {}]

\* Mutant: no ORDER BY sequence DESC, the link of any row.
NextLinks_Unordered(S) ==
  IF S = {} THEN {[prev_hash |-> GENESIS_PREV_HASH, sequence |-> 1]}
  ELSE {[prev_hash |-> e.entry_hash, sequence |-> Cardinality(S) + 1] : e \in S}

\* Mutant: the sequence counts down from the last row.
NextLinks_Backwards(S) ==
  IF S = {} THEN {[prev_hash |-> GENESIS_PREV_HASH, sequence |-> 1]}
  ELSE {[prev_hash |-> e.entry_hash, sequence |-> e.sequence - 1] : e \in S}

(* _next_chain_link: ORDER BY sequence DESC LIMIT 1 over the rows S. *)
NextLinks(S) ==
  IF S = {} THEN {[prev_hash |-> GENESIS_PREV_HASH, sequence |-> 1]}
  ELSE {[prev_hash |-> e.entry_hash, sequence |-> e.sequence + 1] :
          e \in {f \in S : \A g \in S : g.sequence <= f.sequence}}

ReadLink(t) ==
  /\ link[t] = NoLink
  /\ \E next \in NextLinks(Visible(t)) : link' = [link EXCEPT ![t] = next]
  /\ UNCHANGED <<audit_entry, pending>>

NewEntry(t, payload) ==
  [payload    |-> payload,
   prev_hash  |-> link[t].prev_hash,
   entry_hash |-> compute_entry_hash(link[t].prev_hash, payload),
   sequence   |-> link[t].sequence]

\* Mutant: audit_entry without uq_audit_entry_job_sequence.
Insert_NoUniqueConstraint(t, payload) ==
  /\ link[t] # NoLink
  /\ link[t].sequence <= MaxSequence
  /\ pending' = [pending EXCEPT ![t] = @ \cup {NewEntry(t, payload)}]
  /\ link' = [link EXCEPT ![t] = NoLink]
  /\ UNCHANGED audit_entry

\* Mutant: the constraint is checked on committed rows only, without waiting.
Insert_NoWait(t, payload) ==
  /\ link[t] # NoLink
  /\ link[t].sequence <= MaxSequence
  /\ ~Taken(t, link[t].sequence)
  /\ pending' = [pending EXCEPT ![t] = @ \cup {NewEntry(t, payload)}]
  /\ link' = [link EXCEPT ![t] = NoLink]
  /\ UNCHANGED audit_entry

(* The flush of append_audit_entry when the key (job_id, sequence) is free. *)
Insert(t, payload) ==
  /\ link[t] # NoLink
  /\ link[t].sequence <= MaxSequence
  /\ ~Held(t, link[t].sequence)
  /\ ~Taken(t, link[t].sequence)
  /\ pending' = [pending EXCEPT ![t] = @ \cup {NewEntry(t, payload)}]
  /\ link' = [link EXCEPT ![t] = NoLink]
  /\ UNCHANGED audit_entry

\* Mutant: a handler that rolls back and goes on with the link it had read.
Rollback_KeepsLink(t) ==
  /\ pending' = [pending EXCEPT ![t] = {}]
  /\ UNCHANGED <<audit_entry, link>>

(* A session that rolls back, or whose process dies, at any point. *)
Rollback(t) ==
  /\ pending' = [pending EXCEPT ![t] = {}]
  /\ link' = [link EXCEPT ![t] = NoLink]
  /\ UNCHANGED audit_entry

(* IntegrityError: the key was committed after the link was read. *)
Conflict(t) ==
  /\ link[t] # NoLink
  /\ ~Held(t, link[t].sequence)
  /\ Taken(t, link[t].sequence)
  /\ Rollback(t)

(* session.commit(), never between a link's read and its flush. *)
Commit(t) ==
  /\ link[t] = NoLink
  /\ audit_entry' = audit_entry \cup pending[t]
  /\ pending' = [pending EXCEPT ![t] = {}]
  /\ UNCHANGED link

Next ==
  \E t \in Tx :
    \/ ReadLink(t)
    \/ \E payload \in Payload : Insert(t, payload)
    \/ Conflict(t)
    \/ Commit(t)
    \/ Rollback(t)

Spec == Init /\ [][Next]_vars

-----------------------------------------------------------------------------
(* Type invariant: the rows are entries, and a link is the pair of columns  *)
(* that _next_chain_link returns.                                           *)
TypeOK ==
  /\ audit_entry \subseteq Entry
  /\ link \in [Tx -> Link]
  /\ pending \in [Tx -> SUBSET Entry]

(* verify_audit_chain accepts what each session can read back, its own      *)
(* uncommitted entries included: however the appends of the dispositions,   *)
(* apply and export sessions interleave, export_job's integrity gate never  *)
(* answers 409 audit_chain_broken to a chain nobody edited.                 *)
EveryViewVerifies ==
  \A t \in Tx : verify_audit_chain(Visible(t)).verified

(* The sequence numbers of the committed chain are 1..n, each used once: a  *)
(* rolled back append leaves no gap and two racing appends no duplicate.    *)
SequenceIsContiguous ==
  /\ \A e, f \in audit_entry : e.sequence = f.sequence => e = f
  /\ \A e \in audit_entry : \A i \in 1 .. e.sequence :
       \E f \in audit_entry : f.sequence = i

(* At most one transaction has flushed, uncommitted entries for a job: the  *)
(* unique key the first one holds is the one every other append needs.      *)
(* This is why a multi-entry transaction (apply_job, a disposition batch)   *)
(* leaves its entries adjacent in the chain.                                *)
SingleWriter ==
  \A t, u \in Tx : pending[t] # {} /\ pending[u] # {} => t = u

IsPrefixOf(d, e) == Len(d) <= Len(e) /\ SubSeq(e, 1, Len(d)) = d

(* Head(chain) only ever extends: an audit_chain_head written in an export  *)
(* manifest stays a commitment to the start of every later chain.           *)
HeadOnlyExtends ==
  [][IsPrefixOf(Head_of(audit_entry), Head_of(audit_entry'))]_audit_entry

-----------------------------------------------------------------------------
(* The inductive invariant behind them.                                     *)

(* Each row extends the row numbered one below it, down to genesis.         *)
Linked(S) ==
  /\ \A e, f \in S : e.sequence = f.sequence => e = f
  /\ \A e \in S : \A i \in 1 .. e.sequence : \E f \in S : f.sequence = i
  /\ \A e \in S :
       /\ e.entry_hash = compute_entry_hash(e.prev_hash, e.payload)
       /\ e.sequence = 1 => e.prev_hash = GENESIS_PREV_HASH
       /\ \A f \in S : e.sequence = f.sequence + 1 => e.prev_hash = f.entry_hash

(* A link is one past a row its transaction still sees: rows may have been  *)
(* committed above it since, but none of its own was flushed.               *)
LinkOK(t) ==
  link[t] # NoLink =>
    /\ link[t].sequence # 0
    /\ \A e \in pending[t] : e.sequence < link[t].sequence
    /\ link[t].sequence = 1 => link[t].prev_hash = GENESIS_PREV_HASH
    /\ link[t].sequence > 1 =>
         \E e \in Visible(t) : /\ e.sequence + 1 = link[t].sequence
                               /\ e.entry_hash = link[t].prev_hash

ChainInv ==
  /\ TypeOK
  /\ Linked(audit_entry)
  /\ SingleWriter
  /\ \A t \in Tx :
       /\ Linked(Visible(t))
       /\ LinkOK(t)
       /\ \A e \in pending[t], f \in audit_entry : e.sequence # f.sequence

(* The hash of a row is a prefix of the hash of every later row, and there  *)
(* is a last row.                                                           *)
HashesGrow(S) ==
  /\ S # {} => \E e \in S : \A f \in S : f.sequence <= e.sequence
  /\ \A e, f \in S :
       e.sequence <= f.sequence => IsPrefixOf(e.entry_hash, f.entry_hash)

HeadInv ==
  /\ ChainInv
  /\ HashesGrow(audit_entry)
  /\ \A t \in Tx : HashesGrow(Visible(t))

=============================================================================
