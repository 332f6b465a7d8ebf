---------------------- MODULE RedactionPipeline_proofs ----------------------
(* The pipeline implements the audit chain: each of its steps is a step of   *)
(* AuditChain or leaves the chain alone.  So what is proved of AuditChain    *)
(* holds of every job, for any set of requests, workers, spans and faults;   *)
(* and the state of the pipeline keeps its types.                            *)
EXTENDS PipelineProperties, FiniteSetTheorems, TLAPS

(* The proofs about AuditChain, for the pipeline's chain. *)
ChainProofs == INSTANCE AuditChain_proofs WITH
                 Tx <- Process, Payload <- Event, MaxSequence <- 100

-----------------------------------------------------------------------------
(* What a session knows when it flushes an entry: an entry is only written   *)
(* by the kind of session its action names, with the value read for it.      *)
Audits(p) ==
  /\ pc[p] \in {"review_flush", "review_append"} =>
       p \in Reviewer /\ \E i \in Item : local[p].item = {i}
  /\ pc[p] = "export_append" => p \in Exporter
  /\ pc[p] \in {"project", "started_append", "burn"} => p \in Worker
  /\ pc[p] = "verdict_append" =>
       p \in Worker /\ \E v \in VerifyAction : local[p].verdict = {v}

SessionInv ==
  /\ DOMAIN pc = Process /\ DOMAIN local = Process /\ DOMAIN held = Worker
  /\ queue \subseteq Message
  /\ \A w \in Worker : held[w] \subseteq Message
  /\ \A p \in Process : DOMAIN local[p] = DOMAIN Fresh
  /\ \A p \in Process : Audits(p)

LEMMA SessionInit == Init => SessionInv
BY DEF Init, SessionInv, Audits, Fresh

(* The entry a session appends is one of the events of the chain. *)
LEMMA EventOfType ==
  ASSUME SessionInv, NEW p \in Process, pc[p] \in AppendLabels
  PROVE  EventOf(p) \in Event
<1>1. CASE pc[p] = "review_append"
  <2>1. PICK i \in Item : local[p].item = {i} /\ p \in Reviewer
    BY <1>1 DEF SessionInv, Audits
  <2>2. (CHOOSE j \in local[p].item : TRUE) = i
    BY <2>1
  <2>3. EventOf(p) = [action |-> AUDIT_ACTION_BY_VERB[i.verb], span |-> i.span, by |-> p]
    BY <1>1, <2>2 DEF EventOf
  <2>4. AUDIT_ACTION_BY_VERB[i.verb] \in ReviewAction /\ i.span \in Span
    BY DEF Item, AUDIT_ACTION_BY_VERB, ReviewAction, Span
  <2>5. QED
    BY <2>1, <2>3, <2>4 DEF Event
<1>2. CASE pc[p] = "export_append"
  BY <1>2 DEF EventOf, Event, SessionInv, Audits, LifecycleAction
<1>3. CASE pc[p] = "started_append"
  BY <1>3 DEF EventOf, Event, SessionInv, Audits, LifecycleAction
<1>4. CASE pc[p] = "verdict_append"
  <2>1. PICK v \in VerifyAction : local[p].verdict = {v} /\ p \in Worker
    BY <1>4 DEF SessionInv, Audits
  <2>2. (CHOOSE u \in local[p].verdict : TRUE) = v
    BY <2>1
  <2>3. EventOf(p) = [action |-> v, span |-> NoSpan, by |-> p]
    BY <1>4, <2>2 DEF EventOf
  <2>4. QED
    BY <2>1, <2>3 DEF Event, LifecycleAction
<1>5. QED
  BY <1>1, <1>2, <1>3, <1>4 DEF AppendLabels

(* Where a session goes on once its entry is flushed. *)
LEMMA AfterAppendLabel ==
  ASSUME NEW p \in Process, pc[p] \in AppendLabels
  PROVE  /\ AfterAppend(p) \in {"review_commit", "export_commit", "burn", "upload",
                                "failed_commit"}
         /\ AfterAppend(p) = "burn" => pc[p] = "started_append"
         /\ AfterAppend(p) = "export_commit" => pc[p] = "export_append"
<1>1. CASE pc[p] = "review_append"
  BY <1>1 DEF AfterAppend
<1>2. CASE pc[p] = "export_append"
  BY <1>2 DEF AfterAppend
<1>3. CASE pc[p] = "started_append"
  BY <1>3 DEF AfterAppend
<1>4. CASE pc[p] = "verdict_append"
  BY <1>4 DEF AfterAppend
<1>5. QED
  BY <1>1, <1>2, <1>3, <1>4 DEF AppendLabels

(* Appending, in whichever session, keeps what every session knows. *)
LEMMA AppendSession ==
  ASSUME SessionInv, NEW p \in Process, AuditAppend(p)
  PROVE  SessionInv'
<1> USE DEF SessionInv, Audits, Process, Request, Goto, queueVars, procVars
<1>1. CASE ReadChainLink(p)
  BY <1>1 DEF ReadChainLink
<1>2. CASE InsertEntry(p)
  BY <1>2, AfterAppendLabel DEF InsertEntry, Message
<1>3. CASE LoseSequence(p)
  BY <1>3 DEF LoseSequence, AfterRollback, EndSession, CloseSession, Fresh
<1>4. QED
  BY <1>1, <1>2, <1>3 DEF AuditAppend

LEMMA EnqueueSession ==
  ASSUME SessionInv, NEW p \in Process, Kiq(p)
  PROVE  SessionInv'
BY DEF Kiq, EnqueueLabels, EnqueueTask, Message, SessionInv, Audits, Process, Request,
       EndSession, CloseSession, Goto, Fresh

LEMMA ReviewSession ==
  ASSUME SessionInv, NEW r \in Reviewer, ReviewLoad(r) \/ ReviewStep(r)
  PROVE  SessionInv'
<1> USE DEF SessionInv, Audits, Process, Request, Goto, queueVars, procVars,
            AfterRollback, EndSession, CloseSession, Fresh
<1>1. CASE ReviewLoad(r)
  BY <1>1 DEF ReviewLoad
<1>2. CASE ReviewRead(r)
  BY <1>2 DEF ReviewRead
<1>3. CASE UpdateDisposition(r)
  BY <1>3 DEF UpdateDisposition
<1>4. CASE InsertDisposition(r)
  BY <1>4 DEF InsertDisposition
<1>5. CASE InsertManualSpan(r)
  BY <1>5 DEF InsertManualSpan
<1>6. CASE LoseUniqueRow(r)
  BY <1>6 DEF LoseUniqueRow
<1>7. CASE ReviewCommit(r)
  BY <1>7 DEF ReviewCommit
<1>8. QED
  BY <1>1, <1>2, <1>3, <1>4, <1>5, <1>6, <1>7, AppendSession DEF ReviewStep

LEMMA ApplySession ==
  ASSUME SessionInv, NEW a \in Applier, ApplyLoad(a) \/ ApplyStep(a)
  PROVE  SessionInv'
<1> USE DEF SessionInv, Audits, Process, Request, Goto, queueVars,
            EndSession, CloseSession, Fresh
<1>1. CASE ApplyLoad(a)
  BY <1>1 DEF ApplyLoad
<1>2. CASE ApplyCount(a)
  BY <1>2 DEF ApplyCount
<1>3. CASE ApplyCommit(a)
  BY <1>3 DEF ApplyCommit
<1>4. QED
  BY <1>1, <1>2, <1>3, EnqueueSession DEF ApplyStep

LEMMA ExportSession ==
  ASSUME SessionInv, NEW e \in Exporter, ExportLoad(e) \/ ExportStep(e)
  PROVE  SessionInv'
<1> USE DEF SessionInv, Audits, Process, Request, Goto, queueVars,
            EndSession, CloseSession, Fresh
<1>1. CASE ExportLoad(e)
  BY <1>1 DEF ExportLoad
<1>2. CASE ExportVerify(e)
  BY <1>2 DEF ExportVerify
<1>3. CASE ExportAssemble(e)
  BY <1>3 DEF ExportAssemble
<1>4. CASE ExportUpload(e)
  BY <1>4 DEF ExportUpload
<1>5. CASE ExportCommit(e)
  BY <1>5 DEF ExportCommit
<1>6. QED
  BY <1>1, <1>2, <1>3, <1>4, <1>5, AppendSession DEF ExportStep

LEMMA WorkerSession ==
  ASSUME SessionInv, NEW w \in Worker, WorkerStep(w)
  PROVE  SessionInv'
<1> USE DEF SessionInv, Audits, Process, Request, Goto, queueVars, procVars,
            AfterRollback, EndSession, CloseSession, Fresh
<1>1. CASE Deliver(w)
  BY <1>1 DEF Deliver, FirstLabel, Message
<1>2. CASE IngestCommit(w) \/ IngestReject(w)
  BY <1>2 DEF IngestCommit, IngestReject
<1>3. CASE DetectRead(w) \/ DetectFlush(w)
  BY <1>3 DEF DetectRead, DetectFlush
<1>4. CASE DetectLosePage(w) \/ DetectCommit(w)
  BY <1>4 DEF DetectLosePage, DetectCommit
<1>5. CASE ApplyProject(w) \/ Burn(w)
  BY <1>5 DEF ApplyProject, Burn
<1>6. CASE UploadRedacted(w)
  BY <1>6 DEF UploadRedacted
<1>7. CASE VerifiedCommit(w) \/ FailedCommit(w)
  BY <1>7 DEF VerifiedCommit, FailedCommit
<1>8. CASE FailLoad(w) \/ FailCommit(w)
  BY <1>8 DEF FailLoad, FailCommit
<1>9. CASE Acknowledge(w)
  BY <1>9 DEF Acknowledge
<1>10. QED
  BY <1>1, <1>2, <1>3, <1>4, <1>5, <1>6, <1>7, <1>8, <1>9, AppendSession, EnqueueSession
  DEF WorkerStep

LEMMA FaultSession ==
  ASSUME SessionInv, FaultStep
  PROVE  SessionInv'
<1> USE DEF SessionInv, Audits, Process, Request, Goto, queueVars, procVars,
            AfterRollback, EndSession, CloseSession, Fresh, ReturnMessage
<1>1. ASSUME NEW p \in Process, Error(p) PROVE SessionInv'
  BY <1>1 DEF Error
<1>2. ASSUME NEW p \in Process, LoseHandoff(p) PROVE SessionInv'
  BY <1>2 DEF LoseHandoff
<1>3. ASSUME NEW w \in Worker, Crash(w) PROVE SessionInv'
  BY <1>3 DEF Crash
<1>4. ASSUME NEW w \in Worker, Redeliver(w) PROVE SessionInv'
  BY <1>4 DEF Redeliver
<1>5. ASSUME NEW w \in Worker, FailJobRaises(w) PROVE SessionInv'
  BY <1>5 DEF FailJobRaises
<1>6. QED
  BY <1>1, <1>2, <1>3, <1>4, <1>5 DEF FaultStep

LEMMA SessionNext == SessionInv /\ [Next]_vars => SessionInv'
<1> SUFFICES ASSUME SessionInv, [Next]_vars PROVE SessionInv'
  OBVIOUS
<1>1. CASE CreateJob
  BY <1>1 DEF CreateJob, SessionInv, Audits, Process, Request, Goto, queueVars
<1>2. CASE UNCHANGED vars
  BY <1>2 DEF vars, queueVars, procVars, SessionInv, Audits
<1>3. Creator \in Process
  BY DEF Process, Request
<1>4. QED
  BY <1>1, <1>2, <1>3, EnqueueSession, ReviewSession, ApplySession, ExportSession,
     WorkerSession, FaultSession DEF Next

-----------------------------------------------------------------------------
(* Each step is a step of the chain, or leaves it alone. *)

ChainStep == [Chain!Next]_chainVars

LEMMA AppendStep ==
  ASSUME SessionInv, NEW p \in Process, AuditAppend(p)
  PROVE  ChainStep
<1>1. CASE ReadChainLink(p)
  BY <1>1 DEF ReadChainLink, ChainStep, Chain!Next
<1>2. CASE InsertEntry(p)
  <2>1. EventOf(p) \in Event
    BY <1>2, EventOfType DEF InsertEntry
  <2>2. Chain!Insert(p, EventOf(p))
    BY <1>2 DEF InsertEntry
  <2>3. QED
    BY <2>1, <2>2 DEF ChainStep, Chain!Next
<1>3. CASE LoseSequence(p)
  BY <1>3 DEF LoseSequence, ChainStep, Chain!Next
<1>4. QED
  BY <1>1, <1>2, <1>3 DEF AuditAppend

LEMMA CommitStep ==
  ASSUME NEW p \in Process, Chain!Commit(p) \/ Chain!Rollback(p)
  PROVE  ChainStep
BY DEF ChainStep, Chain!Next

LEMMA RequestStep ==
  ASSUME SessionInv,
         \/ CreateJob \/ Kiq(Creator)
         \/ \E r \in Reviewer : ReviewLoad(r) \/ ReviewStep(r)
         \/ \E a \in Applier : ApplyLoad(a) \/ ApplyStep(a)
         \/ \E e \in Exporter : ExportLoad(e) \/ ExportStep(e)
  PROVE  ChainStep
<1> USE DEF ChainStep, chainVars
<1>1. CASE CreateJob \/ Kiq(Creator)
  BY <1>1 DEF CreateJob, Kiq
<1>2. ASSUME NEW r \in Reviewer, ReviewLoad(r) \/ ReviewStep(r) PROVE ChainStep
  <2>1. r \in Process
    BY DEF Process, Request
  <2>2. CASE AuditAppend(r) \/ ReviewCommit(r)
    BY <2>1, <2>2, AppendStep, CommitStep DEF ReviewCommit
  <2>3. CASE ~ (AuditAppend(r) \/ ReviewCommit(r))
    BY <1>2, <2>3 DEF ReviewLoad, ReviewStep, ReviewRead, UpdateDisposition,
       InsertDisposition, InsertManualSpan, LoseUniqueRow
  <2>4. QED
    BY <2>2, <2>3
<1>3. ASSUME NEW a \in Applier, ApplyLoad(a) \/ ApplyStep(a) PROVE ChainStep
  BY <1>3 DEF ApplyLoad, ApplyStep, ApplyCount, ApplyCommit, Kiq
<1>4. ASSUME NEW e \in Exporter, ExportLoad(e) \/ ExportStep(e) PROVE ChainStep
  <2>1. e \in Process
    BY DEF Process, Request
  <2>2. CASE AuditAppend(e) \/ ExportCommit(e)
    BY <2>1, <2>2, AppendStep, CommitStep DEF ExportCommit
  <2>3. CASE ~ (AuditAppend(e) \/ ExportCommit(e))
    BY <1>4, <2>3 DEF ExportLoad, ExportStep, ExportVerify, ExportAssemble, ExportUpload
  <2>4. QED
    BY <2>2, <2>3
<1>5. QED
  BY <1>1, <1>2, <1>3, <1>4

LEMMA WorkerChainStep ==
  ASSUME SessionInv, NEW w \in Worker, WorkerStep(w)
  PROVE  ChainStep
<1> USE DEF ChainStep, chainVars
<1>1. w \in Process
  BY DEF Process
<1>2. CASE AuditAppend(w) \/ VerifiedCommit(w) \/ FailedCommit(w)
  BY <1>1, <1>2, AppendStep, CommitStep DEF VerifiedCommit, FailedCommit
<1>3. CASE ~ (AuditAppend(w) \/ VerifiedCommit(w) \/ FailedCommit(w))
  BY <1>3 DEF WorkerStep, Deliver, IngestCommit, IngestReject, Kiq, DetectRead,
     DetectFlush, DetectLosePage, DetectCommit, ApplyProject, Burn, UploadRedacted,
     FailLoad, FailCommit, Acknowledge
<1>4. QED
  BY <1>2, <1>3

LEMMA FaultChainStep == FaultStep => ChainStep
<1> USE DEF ChainStep, chainVars
<1>1. ASSUME NEW p \in Process, Error(p) \/ LoseHandoff(p) PROVE ChainStep
  BY <1>1, CommitStep DEF Error, LoseHandoff
<1>2. ASSUME NEW w \in Worker, Crash(w) \/ Redeliver(w) \/ FailJobRaises(w) PROVE ChainStep
  BY <1>2, CommitStep DEF Crash, Redeliver, FailJobRaises, Process
<1>3. QED
  BY <1>1, <1>2 DEF FaultStep

LEMMA NextIsChainStep == SessionInv /\ [Next]_vars => ChainStep
<1>1. UNCHANGED vars => ChainStep
  BY DEF vars, chainVars, ChainStep
<1>2. QED
  BY <1>1, RequestStep, WorkerChainStep, FaultChainStep DEF Next

(* The pipeline implements AuditChain: for any requests, workers, spans and  *)
(* faults, the transactions of the endpoints and tasks change audit_entry    *)
(* only by appending through the link they read, as append_audit_entry does. *)
THEOREM ChainImplemented == Spec => ChainSpec
<1>1. Init => Chain!Init
  BY DEF Init
<1>2. SessionInv /\ [Next]_vars => [Chain!Next]_chainVars
  BY NextIsChainStep DEF ChainStep
<1>3. QED
  BY <1>1, <1>2, SessionInit, SessionNext, PTL DEF Spec, ChainSpec, Chain!Spec, chainVars, Chain!vars

(* The proofs of AuditChain are about the same chain. *)
LEMMA SameChain ==
  /\ Chain!Init => ChainProofs!Init
  /\ [Chain!Next]_chainVars => [ChainProofs!Next]_(ChainProofs!vars)
<1>1. Chain!Init => ChainProofs!Init
  BY DEF Chain!Init, ChainProofs!Init, Chain!NoLink, ChainProofs!NoLink,
     Chain!GENESIS_PREV_HASH, ChainProofs!GENESIS_PREV_HASH
<1>2. [Chain!Next]_chainVars => [ChainProofs!Next]_(ChainProofs!vars)
  BY DEF chainVars, ChainProofs!vars, Chain!Next, ChainProofs!Next,
     Chain!ReadLink, ChainProofs!ReadLink, Chain!Insert, ChainProofs!Insert,
     Chain!Conflict, ChainProofs!Conflict, Chain!Commit, ChainProofs!Commit,
     Chain!Rollback, ChainProofs!Rollback, Chain!Held, ChainProofs!Held,
     Chain!Taken, ChainProofs!Taken, Chain!Visible, ChainProofs!Visible,
     Chain!NextLinks, ChainProofs!NextLinks, Chain!NewEntry, ChainProofs!NewEntry,
     Chain!compute_entry_hash, ChainProofs!compute_entry_hash,
     Chain!NoLink, ChainProofs!NoLink,
     Chain!GENESIS_PREV_HASH, ChainProofs!GENESIS_PREV_HASH
<1>3. QED
  BY <1>1, <1>2

LEMMA ChainInvariant == Spec => []ChainProofs!ChainInv
<1>1. ChainSpec => ChainProofs!Spec
  BY SameChain, PTL DEF ChainSpec, Chain!Spec, ChainProofs!Spec, chainVars, Chain!vars
<1>2. ChainProofs!Init => ChainProofs!ChainInv
  BY ChainProofs!InitInv
<1>3. ChainProofs!ChainInv /\ [ChainProofs!Next]_(ChainProofs!vars) => ChainProofs!ChainInv'
  BY ChainProofs!NextInv
<1>4. QED
  BY <1>1, <1>2, <1>3, ChainImplemented, PTL DEF ChainProofs!Spec

(* verify_audit_chain accepts what every session of the pipeline reads back: *)
(* export_job never answers 409 audit_chain_broken to an unedited chain.     *)
THEOREM ChainAlwaysVerifies == Spec => []ChainVerifies
<1>1. ChainProofs!ChainInv => ChainVerifies
  <2> SUFFICES ASSUME ChainProofs!ChainInv, NEW p \in Process
               PROVE  Chain!verify_audit_chain(Chain!Visible(p)).verified
    BY DEF ChainVerifies, Chain!EveryViewVerifies
  <2>1. ChainProofs!Visible(p) \subseteq ChainProofs!Entry
    BY DEF ChainProofs!ChainInv, ChainProofs!TypeOK, ChainProofs!Visible
  <2>2. ChainProofs!verify_audit_chain(ChainProofs!Visible(p)).verified
    BY <2>1, ChainProofs!LinkedVerifies DEF ChainProofs!ChainInv
  <2>3. ChainProofs!BrokenEntries(ChainProofs!Visible(p)) = {}
    BY <2>2 DEF ChainProofs!verify_audit_chain
  <2>4. Chain!BrokenEntries(Chain!Visible(p)) = {}
    BY <2>3 DEF Chain!BrokenEntries, ChainProofs!BrokenEntries, Chain!PrevHash,
       ChainProofs!PrevHash, Chain!Before, ChainProofs!Before, Chain!Last, ChainProofs!Last,
       Chain!compute_entry_hash, ChainProofs!compute_entry_hash, Chain!Visible,
       ChainProofs!Visible, Chain!GENESIS_PREV_HASH, ChainProofs!GENESIS_PREV_HASH
  <2>5. QED
    BY <2>4 DEF Chain!verify_audit_chain
<1>2. QED
  BY <1>1, ChainInvariant, PTL

-----------------------------------------------------------------------------
(* Type correctness, one lemma per part of the state and one step per action *)
(* that changes it.                                                          *)

StateTypes == RowTypes /\ ObjectTypes /\ QueueTypes /\ SessionTypes

-----------------------------------------------------------------------------
(* Sessions: they move to a label, read a value, or are closed. *)

LEMMA FreshType == Fresh \in Local
BY DEF Fresh, Local, SpanState

LEMMA CloseTypes ==
  ASSUME SessionTypes, NEW p \in Process, NEW label \in Labels, CloseSession(p, label)
  PROVE  SessionTypes'
BY FreshType DEF SessionTypes, CloseSession, Goto

LEMMA EndTypes ==
  ASSUME SessionTypes, NEW p \in Process, EndSession(p)
  PROVE  SessionTypes'
BY CloseTypes DEF EndSession, Labels

LEMMA MoveTypes ==
  ASSUME SessionTypes, NEW p \in Process, NEW label \in Labels, Goto(p, label),
         UNCHANGED local,
         \/ UNCHANGED snap
         \/ \E s \in JobStatuses \cup {NoJob} : snap' = [snap EXCEPT ![p] = s]
  PROVE  SessionTypes'
BY DEF SessionTypes, Goto

LEMMA ReadTypes ==
  ASSUME SessionTypes, NEW p \in Process, NEW label \in Labels, Goto(p, label),
         UNCHANGED snap, NEW read \in Local, local' = [local EXCEPT ![p] = read]
  PROVE  SessionTypes'
BY DEF SessionTypes, Goto

LEMMA RollbackTypes ==
  ASSUME SessionTypes, NEW p \in Process, AfterRollback(p)
  PROVE  SessionTypes'
BY EndTypes, MoveTypes DEF AfterRollback, Labels

LEMMA AppendTypes ==
  ASSUME SessionTypes, NEW p \in Process, AuditAppend(p)
  PROVE  SessionTypes'
<1>1. CASE ReadChainLink(p)
  BY <1>1 DEF ReadChainLink, procVars, SessionTypes
<1>2. CASE InsertEntry(p)
  <2>1. AfterAppend(p) \in Labels
    BY <1>2, AfterAppendLabel DEF InsertEntry, Labels
  <2>2. QED
    BY <1>2, <2>1, MoveTypes DEF InsertEntry
<1>3. CASE LoseSequence(p)
  BY <1>3, RollbackTypes DEF LoseSequence
<1>4. QED
  BY <1>1, <1>2, <1>3 DEF AuditAppend

LEMMA ReviewTypes ==
  ASSUME RowTypes, SessionTypes, NEW r \in Reviewer, ReviewLoad(r) \/ ReviewStep(r)
  PROVE  SessionTypes'
<1>1. r \in Process
  BY DEF Process, Request
<1>2. CASE ReviewLoad(r)
  BY <1>1, <1>2, EndTypes, MoveTypes DEF ReviewLoad, RowTypes, JobRow, Labels
<1>3. CASE ReviewRead(r) /\ ~EndSession(r)
  <2>1. PICK i \in Item :
          /\ local' = [local EXCEPT ![r].item = {i}, ![r].seen = disposition[i.span],
                                    ![r].page = page]
          /\ Goto(r, "review_flush")
          /\ UNCHANGED snap
    BY <1>3 DEF ReviewRead
  <2> DEFINE read == [local[r] EXCEPT !.item = {i}, !.seen = disposition[i.span],
                                      !.page = page]
  <2>2. i.span \in Span
    BY DEF Item, Span
  <2>3. local' = [local EXCEPT ![r] = read]
    BY <1>1, <2>1 DEF SessionTypes
  <2>4. read \in Local
    BY <1>1, <2>2 DEF SessionTypes, Local, RowTypes
  <2>5. QED
    BY <1>1, <2>1, <2>3, <2>4, ReadTypes DEF Labels
<1>4. CASE ReviewCommit(r) \/ EndSession(r)
  BY <1>1, <1>4, EndTypes DEF ReviewCommit
<1>5. CASE LoseUniqueRow(r)
  BY <1>1, <1>5, RollbackTypes DEF LoseUniqueRow
<1>6. CASE UpdateDisposition(r) \/ InsertDisposition(r) \/ InsertManualSpan(r)
  BY <1>1, <1>6, MoveTypes
  DEF UpdateDisposition, InsertDisposition, InsertManualSpan, Labels, AppendLabels
<1>7. QED
  BY <1>1, <1>2, <1>3, <1>4, <1>5, <1>6, AppendTypes DEF ReviewStep

LEMMA EnqueueTypes ==
  ASSUME SessionTypes, NEW p \in Process, Kiq(p)
  PROVE  SessionTypes'
BY EndTypes DEF Kiq

LEMMA ApplyTypes ==
  ASSUME RowTypes, SessionTypes, NEW a \in Applier, ApplyLoad(a) \/ ApplyStep(a)
  PROVE  SessionTypes'
<1>1. a \in Process
  BY DEF Process, Request
<1>2. CASE ApplyLoad(a)
  BY <1>1, <1>2, EndTypes, MoveTypes DEF ApplyLoad, RowTypes, JobRow, Labels
<1>3. CASE ApplyCount(a)
  BY <1>1, <1>3, EndTypes, MoveTypes DEF ApplyCount, Labels
<1>4. CASE ApplyCommit(a)
  BY <1>1, <1>4, MoveTypes DEF ApplyCommit, Labels, EnqueueLabels
<1>5. QED
  BY <1>1, <1>2, <1>3, <1>4, EnqueueTypes DEF ApplyStep

LEMMA ExportTypes ==
  ASSUME RowTypes, SessionTypes, IsFiniteSet(audit_entry),
         NEW e \in Exporter, ExportLoad(e) \/ ExportStep(e)
  PROVE  SessionTypes'
<1>1. e \in Process /\ Cardinality(audit_entry) \in Nat
  BY FS_CardinalityType DEF Process, Request
<1>2. CASE ExportLoad(e)
  BY <1>1, <1>2, EndTypes, MoveTypes DEF ExportLoad, RowTypes, JobRow, Labels
<1>3. CASE ExportVerify(e) /\ ~EndSession(e)
  <2> DEFINE read == [local[e] EXCEPT !.entry_count = Cardinality(audit_entry)]
  <2>0. Chain!verify_audit_chain(audit_entry).entry_count = Cardinality(audit_entry)
    BY DEF Chain!verify_audit_chain, Chain!Cardinality, Cardinality
  <2>1. local' = [local EXCEPT ![e] = read] /\ Goto(e, "export_assemble") /\ UNCHANGED snap
    BY <1>1, <1>3, <2>0 DEF ExportVerify, SessionTypes
  <2>2. read \in Local
    BY <1>1 DEF SessionTypes, Local
  <2>3. QED
    BY <1>1, <2>1, <2>2, ReadTypes DEF Labels
<1>4. CASE ExportAssemble(e) /\ ~EndSession(e)
  <2> DEFINE read == [local[e] EXCEPT !.listed = Cardinality(audit_entry)]
  <2>1. local' = [local EXCEPT ![e] = read] /\ Goto(e, "export_upload") /\ UNCHANGED snap
    BY <1>1, <1>4 DEF ExportAssemble, SessionTypes
  <2>2. read \in Local
    BY <1>1 DEF SessionTypes, Local
  <2>3. QED
    BY <1>1, <2>1, <2>2, ReadTypes DEF Labels
<1>5. CASE ExportUpload(e)
  BY <1>1, <1>5, EndTypes, MoveTypes DEF ExportUpload, Labels, AppendLabels
<1>6. CASE ExportCommit(e) \/ EndSession(e)
  BY <1>1, <1>6, EndTypes DEF ExportCommit
<1>7. QED
  BY <1>1, <1>2, <1>3, <1>4, <1>5, <1>6, AppendTypes DEF ExportStep

LEMMA WorkerTypes ==
  ASSUME RowTypes, QueueTypes, SessionTypes, NEW w \in Worker, WorkerStep(w)
  PROVE  SessionTypes'
<1>1. w \in Process
  BY DEF Process
<1>2. CASE Deliver(w)
  <2>1. \A m \in queue : FirstLabel[m.task] \in Labels
    BY DEF QueueTypes, Message, FirstLabel, Labels
  <2>2. CASE UNCHANGED <<held, pc, snap>>
    BY <1>2, <2>2 DEF Deliver, SessionTypes
  <2>3. CASE ~UNCHANGED <<held, pc, snap>>
    BY <1>1, <1>2, <2>1, <2>3, MoveTypes DEF Deliver, RowTypes, JobRow
  <2>4. QED
    BY <2>2, <2>3
<1>3. CASE IngestCommit(w) \/ IngestReject(w)
  BY <1>1, <1>3, MoveTypes DEF IngestCommit, IngestReject, Labels, EnqueueLabels
<1>4. CASE DetectRead(w)
  <2> DEFINE read == [local[w] EXCEPT !.page = page]
  <2>1. local' = [local EXCEPT ![w] = read] /\ Goto(w, "detect_flush") /\ UNCHANGED snap
    BY <1>1, <1>4 DEF DetectRead, SessionTypes
  <2>2. read \in Local
    BY <1>1 DEF SessionTypes, Local, RowTypes
  <2>3. QED
    BY <1>1, <2>1, <2>2, ReadTypes DEF Labels
<1>5. CASE DetectFlush(w)
  BY <1>1, <1>5, MoveTypes DEF DetectFlush, Labels
<1>6. CASE DetectLosePage(w)
  BY <1>1, <1>6, RollbackTypes DEF DetectLosePage
<1>7. CASE ApplyProject(w)
  <2> DEFINE read == [local[w] EXCEPT !.approved = {s \in Span : disposition[s] = "approved"}]
  <2>1. local' = [local EXCEPT ![w] = read] /\ Goto(w, "started_append") /\ UNCHANGED snap
    BY <1>1, <1>7 DEF ApplyProject, SessionTypes
  <2>2. read \in Local
    BY <1>1 DEF SessionTypes, Local
  <2>3. QED
    BY <1>1, <2>1, <2>2, ReadTypes DEF Labels, AppendLabels
<1>8. CASE Burn(w)
  <2>1. PICK v \in VerifyAction : local' = [local EXCEPT ![w].verdict = {v}]
    BY <1>8 DEF Burn
  <2> DEFINE read == [local[w] EXCEPT !.verdict = {v}]
  <2>2. local' = [local EXCEPT ![w] = read] /\ Goto(w, "verdict_append") /\ UNCHANGED snap
    BY <1>1, <1>8, <2>1 DEF Burn, SessionTypes
  <2>3. read \in Local
    BY <1>1 DEF SessionTypes, Local
  <2>4. QED
    BY <1>1, <2>2, <2>3, ReadTypes DEF Labels, AppendLabels
<1>9. CASE UploadRedacted(w)
  BY <1>1, <1>9, MoveTypes DEF UploadRedacted, Labels
<1>10. CASE DetectCommit(w) \/ VerifiedCommit(w) \/ FailedCommit(w) \/ FailCommit(w)
  BY <1>1, <1>10, EndTypes DEF DetectCommit, VerifiedCommit, FailedCommit, FailCommit
<1>11. CASE FailLoad(w)
  BY <1>1, <1>11, EndTypes, MoveTypes DEF FailLoad, RowTypes, JobRow, Labels
<1>12. CASE Acknowledge(w)
  BY <1>1, <1>12, MoveTypes DEF Acknowledge, Labels
<1>13. QED
  BY <1>1, <1>2, <1>3, <1>4, <1>5, <1>6, <1>7, <1>8, <1>9, <1>10, <1>11, <1>12,
     AppendTypes, EnqueueTypes DEF WorkerStep

LEMMA FaultTypes ==
  ASSUME SessionTypes, FaultStep
  PROVE  SessionTypes'
<1>1. ASSUME NEW p \in Process, Error(p) PROVE SessionTypes'
  BY <1>1, RollbackTypes DEF Error
<1>2. ASSUME NEW p \in Process, LoseHandoff(p) PROVE SessionTypes'
  BY <1>2, EndTypes, CloseTypes DEF LoseHandoff, Labels
<1>3. ASSUME NEW w \in Worker, Crash(w) PROVE SessionTypes'
  BY <1>3, CloseTypes DEF Crash, Labels, Process
<1>4. ASSUME NEW w \in Worker, Redeliver(w) PROVE SessionTypes'
  BY <1>4 DEF Redeliver, procVars, SessionTypes
<1>5. ASSUME NEW w \in Worker, FailJobRaises(w) PROVE SessionTypes'
  BY <1>5, EndTypes DEF FailJobRaises, Process
<1>6. QED
  BY <1>1, <1>2, <1>3, <1>4, <1>5 DEF FaultStep

LEMMA SessionTypesNext ==
  ASSUME StateTypes, IsFiniteSet(audit_entry), [Next]_vars
  PROVE  SessionTypes'
<1>1. Creator \in Process
  BY DEF Process, Request
<1>2. CASE CreateJob
  BY <1>1, <1>2, MoveTypes DEF CreateJob, StateTypes, Labels, EnqueueLabels
<1>3. CASE UNCHANGED vars
  BY <1>3 DEF StateTypes, SessionTypes, vars, procVars
<1>4. QED
  BY <1>1, <1>2, <1>3, EnqueueTypes, ReviewTypes, ApplyTypes, ExportTypes, WorkerTypes,
     FaultTypes DEF Next, StateTypes

-----------------------------------------------------------------------------
(* Rows: what a session flushes, commits or drops. *)

LEMMA CommitRowsTypes ==
  ASSUME RowTypes, NEW p \in Process, CommitRows(p)
  PROVE  /\ page' \in BOOLEAN
         /\ disposition' \in [Span -> SpanState]
         /\ writes' \in [Process -> SUBSET [span : Span, value : SpanState]]
         /\ newpage' \in [Process -> BOOLEAN]
<1>1. ASSUME NEW s \in Span
      PROVE  Flushed(p)[s] \in SpanState
  <2>1. CASE \E v \in writes[p] : v.span = s
    <3>1. (CHOOSE v \in writes[p] : v.span = s) \in writes[p]
      BY <2>1
    <3>2. QED
      BY <2>1, <3>1 DEF Flushed, RowTypes
  <2>2. CASE ~ \E v \in writes[p] : v.span = s
    BY <2>2 DEF Flushed, RowTypes
  <2>3. QED
    BY <2>1, <2>2
<1>2. Flushed(p) = [s \in Span |-> Flushed(p)[s]]
  BY DEF Flushed
<1>3. disposition' \in [Span -> SpanState]
  BY <1>1, <1>2 DEF CommitRows
<1>4. QED
  BY <1>3 DEF CommitRows, RowTypes

LEMMA DropRowsTypes ==
  ASSUME RowTypes, NEW p \in Process, DropRows(p), UNCHANGED job
  PROVE  RowTypes'
BY DEF DropRows, RowTypes

LEMMA StatusTypes ==
  ASSUME RowTypes, NEW s \in JobStatuses, SetStatus(s)
  PROVE  job' \in JobRow
BY DEF SetStatus, RowTypes, JobRow

LEMMA WriteTypes ==
  ASSUME RowTypes, NEW p \in Process, NEW s \in Span, NEW value \in SpanState,
         Write(p, s, value)
  PROVE  writes' \in [Process -> SUBSET [span : Span, value : SpanState]]
BY DEF Write, RowTypes

LEMMA ReviewRowTypes ==
  ASSUME RowTypes, SessionTypes, NEW r \in Reviewer, ReviewLoad(r) \/ ReviewStep(r)
  PROVE  RowTypes'
<1>1. r \in Process
  BY DEF Process, Request
<1>2. \A i \in local[r].item : i \in Item
  BY <1>1 DEF SessionTypes, Local
<1>3. \A i \in Item : i.span \in Span /\ DISPOSITION_ACTION_BY_VERB[i.verb] \in SpanState
  BY DEF Item, Span, DISPOSITION_ACTION_BY_VERB, SpanState
<1>4. \A i \in Item : disposition[i.span] \in SpanState
  BY <1>3 DEF RowTypes
<1>5. "approved" \in SpanState
  BY DEF SpanState
<1>6. CASE UpdateDisposition(r) \/ InsertDisposition(r) \/ InsertManualSpan(r)
  <2>1. \E i \in Item, value \in SpanState : Write(r, i.span, value)
    BY <1>2, <1>3, <1>4, <1>5, <1>6
    DEF UpdateDisposition, InsertDisposition, InsertManualSpan
  <2>2. writes' \in [Process -> SUBSET [span : Span, value : SpanState]]
    BY <1>1, <1>3, <2>1, WriteTypes
  <2>3. newpage' \in [Process -> BOOLEAN]
    BY <1>1, <1>6
    DEF UpdateDisposition, InsertDisposition, InsertManualSpan, RowTypes, SessionTypes, Local
  <2>4. UNCHANGED rowVars
    BY <1>6 DEF UpdateDisposition, InsertDisposition, InsertManualSpan
  <2>5. QED
    BY <2>2, <2>3, <2>4 DEF rowVars, RowTypes
<1>7. CASE LoseUniqueRow(r)
  BY <1>1, <1>7, DropRowsTypes DEF LoseUniqueRow, AfterRollback
<1>8. CASE ReviewCommit(r)
  BY <1>1, <1>8, CommitRowsTypes DEF ReviewCommit, RowTypes
<1>9. CASE ReviewLoad(r) \/ ReviewRead(r)
  BY <1>9 DEF ReviewLoad, ReviewRead, rowVars, flushVars, RowTypes
<1>10. CASE ReadChainLink(r) \/ InsertEntry(r)
  BY <1>10 DEF ReadChainLink, InsertEntry, rowVars, flushVars, RowTypes
<1>11. CASE LoseSequence(r)
  BY <1>1, <1>11, DropRowsTypes DEF LoseSequence, AfterRollback
<1>12. QED
  BY <1>6, <1>7, <1>8, <1>9, <1>10, <1>11 DEF ReviewStep, AuditAppend

LEMMA RequestRowTypes ==
  ASSUME RowTypes, \/ \E a \in Applier : ApplyLoad(a) \/ ApplyStep(a)
                   \/ \E e \in Exporter : ExportLoad(e) \/ ExportStep(e)
  PROVE  RowTypes'
<1> USE DEF rowVars, flushVars
<1>1. {"applying", "exported"} \subseteq JobStatuses
  BY DEF JobStatuses
<1>2. ASSUME NEW a \in Applier, ApplyLoad(a) \/ ApplyStep(a) PROVE RowTypes'
  <2>1. CASE ApplyCommit(a)
    BY <1>1, <2>1, StatusTypes DEF ApplyCommit, RowTypes
  <2>2. CASE ~ApplyCommit(a)
    BY <1>2, <2>2 DEF ApplyLoad, ApplyStep, ApplyCount, Kiq, RowTypes
  <2>3. QED
    BY <2>1, <2>2
<1>3. ASSUME NEW e \in Exporter, ExportLoad(e) \/ ExportStep(e) PROVE RowTypes'
  <2>1. CASE ExportCommit(e)
    BY <1>1, <2>1, StatusTypes DEF ExportCommit, RowTypes
  <2>2. CASE LoseSequence(e)
    BY <2>2, DropRowsTypes DEF LoseSequence, AfterRollback, Process, Request
  <2>3. CASE ~ExportCommit(e) /\ ~LoseSequence(e)
    BY <1>3, <2>3 DEF ExportLoad, ExportStep, ExportVerify, ExportAssemble, ExportUpload,
       AuditAppend, ReadChainLink, InsertEntry, RowTypes
  <2>4. QED
    BY <2>1, <2>2, <2>3
<1>4. QED
  BY <1>2, <1>3

LEMMA WorkerRowTypes ==
  ASSUME RowTypes, NEW w \in Worker, WorkerStep(w)
  PROVE  RowTypes'
<1> USE DEF rowVars, flushVars
<1>1. w \in Process
  BY DEF Process
<1>2. {"ingested", "in_review", "verified", "failed"} \subseteq JobStatuses
  BY DEF JobStatuses
<1>3. CASE DetectFlush(w)
  <2>1. PICK found \in SUBSET FreshSpans(w) :
          writes' = [writes EXCEPT ![w] = {[span |-> s, value |-> "none"] : s \in found}]
    BY <1>3 DEF DetectFlush
  <2>2. {[span |-> s, value |-> "none"] : s \in found} \subseteq [span : Span, value : SpanState]
    BY DEF FreshSpans, Span, SpanState
  <2>3. writes' \in [Process -> SUBSET [span : Span, value : SpanState]]
    BY <1>1, <2>1, <2>2 DEF RowTypes
  <2>4. NeedsPage(w) \in BOOLEAN
    BY DEF NeedsPage
  <2>5. newpage' \in [Process -> BOOLEAN]
    BY <1>1, <1>3, <2>4 DEF DetectFlush, RowTypes
  <2>6. QED
    BY <1>3, <2>3, <2>5 DEF DetectFlush, RowTypes
<1>4. CASE DetectCommit(w)
  BY <1>1, <1>2, <1>4, CommitRowsTypes, StatusTypes DEF DetectCommit, RowTypes
<1>5. CASE DetectLosePage(w) \/ LoseSequence(w)
  BY <1>1, <1>5, DropRowsTypes DEF DetectLosePage, LoseSequence, AfterRollback
<1>6. CASE IngestCommit(w) \/ FailedCommit(w) \/ FailCommit(w)
  BY <1>2, <1>6, StatusTypes DEF IngestCommit, FailedCommit, FailCommit, RowTypes
<1>7. CASE VerifiedCommit(w)
  BY <1>2, <1>7 DEF VerifiedCommit, RowTypes, JobRow
<1>8. CASE ReadChainLink(w) \/ InsertEntry(w) \/ Kiq(w) \/ Deliver(w) \/ Acknowledge(w)
  BY <1>8 DEF ReadChainLink, InsertEntry, Kiq, Deliver, Acknowledge, RowTypes
<1>9. CASE IngestReject(w) \/ DetectRead(w) \/ ApplyProject(w) \/ Burn(w)
              \/ UploadRedacted(w) \/ FailLoad(w)
  BY <1>9 DEF IngestReject, DetectRead, ApplyProject, Burn, UploadRedacted, FailLoad, RowTypes
<1>10. QED
  BY <1>3, <1>4, <1>5, <1>6, <1>7, <1>8, <1>9 DEF WorkerStep, AuditAppend

LEMMA FaultRowTypes ==
  ASSUME RowTypes, FaultStep
  PROVE  RowTypes'
<1> USE DEF rowVars, flushVars
<1>1. ASSUME NEW p \in Process, Error(p) \/ LoseHandoff(p) PROVE RowTypes'
  BY <1>1, DropRowsTypes DEF Error, LoseHandoff, AfterRollback, RowTypes
<1>2. ASSUME NEW w \in Worker, Crash(w) \/ Redeliver(w) \/ FailJobRaises(w) PROVE RowTypes'
  BY <1>2, DropRowsTypes DEF Crash, Redeliver, FailJobRaises, Process, RowTypes
<1>3. QED
  BY <1>1, <1>2 DEF FaultStep

LEMMA RowTypesNext ==
  ASSUME RowTypes, SessionTypes, [Next]_vars
  PROVE  RowTypes'
<1>1. CASE CreateJob
  BY <1>1 DEF CreateJob, RowTypes, JobRow, JobStatuses, flushVars
<1>2. CASE Kiq(Creator) \/ UNCHANGED vars
  BY <1>2 DEF Kiq, vars, rowVars, flushVars, RowTypes
<1>3. QED
  BY <1>1, <1>2, ReviewRowTypes, RequestRowTypes, WorkerRowTypes, FaultRowTypes DEF Next

-----------------------------------------------------------------------------
(* Objects and messages. *)

LEMMA ObjectTypesNext ==
  ASSUME ObjectTypes, SessionTypes, [Next]_vars
  PROVE  ObjectTypes'
<1> USE DEF objectVars, ObjectTypes
<1>1. ASSUME NEW e \in Exporter, ExportUpload(e) PROVE ObjectTypes'
  BY <1>1 DEF ExportUpload, SessionTypes, Local, Process, Request
<1>2. ASSUME NEW w \in Worker, UploadRedacted(w) PROVE ObjectTypes'
  BY <1>2 DEF UploadRedacted, SessionTypes, Local, Process
<1>3. ASSUME NEW p \in Process, AuditAppend(p) \/ Kiq(p) PROVE ObjectTypes'
  BY <1>3 DEF AuditAppend, ReadChainLink, InsertEntry, LoseSequence, Kiq
<1>4. ASSUME NEW r \in Reviewer, ReviewLoad(r) \/ ReviewStep(r) PROVE ObjectTypes'
  BY <1>3, <1>4 DEF Process, Request, ReviewLoad, ReviewStep, ReviewRead, UpdateDisposition,
     InsertDisposition, InsertManualSpan, LoseUniqueRow, ReviewCommit
<1>5. ASSUME NEW a \in Applier, ApplyLoad(a) \/ ApplyStep(a) PROVE ObjectTypes'
  BY <1>3, <1>5 DEF Process, Request, ApplyLoad, ApplyStep, ApplyCount, ApplyCommit
<1>6. ASSUME NEW e \in Exporter, ExportLoad(e) \/ ExportStep(e) PROVE ObjectTypes'
  BY <1>1, <1>3, <1>6 DEF Process, Request, ExportLoad, ExportStep, ExportVerify,
     ExportAssemble, ExportCommit
<1>7. ASSUME NEW w \in Worker, WorkerStep(w) PROVE ObjectTypes'
  BY <1>2, <1>3, <1>7 DEF Process, WorkerStep, Deliver, IngestCommit, IngestReject, DetectRead,
     DetectFlush, DetectLosePage, DetectCommit, ApplyProject, Burn, VerifiedCommit,
     FailedCommit, FailLoad, FailCommit, Acknowledge
<1>8. CASE FaultStep
  BY <1>8 DEF FaultStep, Error, LoseHandoff, Crash, Redeliver, FailJobRaises
<1>9. CASE CreateJob \/ Kiq(Creator) \/ UNCHANGED vars
  BY <1>9 DEF CreateJob, Kiq, vars
<1>10. QED
  BY <1>4, <1>5, <1>6, <1>7, <1>8, <1>9 DEF Next

LEMMA HoldTypes ==
  ASSUME QueueTypes, NEW w \in Worker, NEW M \in SUBSET Message, Cardinality(M) <= 1,
         held' = [held EXCEPT ![w] = M], queue' \subseteq Message
  PROVE  QueueTypes'
BY DEF QueueTypes

LEMMA QueueTypesNext ==
  ASSUME QueueTypes, [Next]_vars
  PROVE  QueueTypes'
<1> USE DEF queueVars
<1>1. Cardinality({}) <= 1 /\ \A m : Cardinality({m}) <= 1
  <2>1. 0 <= 1 /\ 1 <= 1
    OBVIOUS
  <2>2. Cardinality({}) = 0
    BY FS_EmptySet
  <2>3. \A m : Cardinality({m}) = 1
    BY FS_Singleton
  <2>4. QED
    BY <2>1, <2>2, <2>3, Zenon
<1>2. ASSUME NEW p \in Process, Kiq(p) PROVE QueueTypes'
  BY <1>2 DEF Kiq, QueueTypes, Message, EnqueueLabels, EnqueueTask
<1>3. ASSUME NEW p \in Process, AuditAppend(p) PROVE QueueTypes'
  BY <1>3 DEF AuditAppend, ReadChainLink, InsertEntry, LoseSequence, QueueTypes
<1>4. ASSUME NEW w \in Worker, Deliver(w) PROVE QueueTypes'
  <2>1. PICK m \in queue : /\ queue' = queue \ {m}
                           /\ held' = [held EXCEPT ![w] = {m}] \/ UNCHANGED held
    BY <1>4 DEF Deliver
  <2>2. m \in Message /\ queue' \subseteq Message
    BY <2>1 DEF QueueTypes
  <2>3. CASE held' = [held EXCEPT ![w] = {m}]
    BY <1>1, <2>2, <2>3, HoldTypes
  <2>4. CASE UNCHANGED held
    BY <2>2, <2>4 DEF QueueTypes
  <2>5. QED
    BY <2>1, <2>3, <2>4
<1>5. ASSUME NEW w \in Worker, ReturnMessage(w) PROVE QueueTypes'
  <2>1. queue' \subseteq Message
    BY <1>5 DEF ReturnMessage, QueueTypes
  <2>2. QED
    BY <1>1, <1>5, <2>1, HoldTypes DEF ReturnMessage
<1>6. ASSUME NEW w \in Worker, Acknowledge(w) PROVE QueueTypes'
  BY <1>1, <1>6, HoldTypes DEF Acknowledge, QueueTypes
<1>7. ASSUME NEW r \in Reviewer, ReviewLoad(r) \/ ReviewStep(r) PROVE QueueTypes'
  BY <1>3, <1>7 DEF Process, Request, ReviewLoad, ReviewStep, ReviewRead, UpdateDisposition,
     InsertDisposition, InsertManualSpan, LoseUniqueRow, ReviewCommit, QueueTypes
<1>8. ASSUME NEW a \in Applier, ApplyLoad(a) \/ ApplyStep(a) PROVE QueueTypes'
  BY <1>2, <1>8 DEF Process, Request, ApplyLoad, ApplyStep, ApplyCount, ApplyCommit, QueueTypes
<1>9. ASSUME NEW e \in Exporter, ExportLoad(e) \/ ExportStep(e) PROVE QueueTypes'
  BY <1>3, <1>9 DEF Process, Request, ExportLoad, ExportStep, ExportVerify, ExportAssemble,
     ExportUpload, ExportCommit, QueueTypes
<1>10. ASSUME NEW w \in Worker, WorkerStep(w) PROVE QueueTypes'
  <2>1. CASE Deliver(w) \/ Acknowledge(w)
    BY <1>4, <1>6, <2>1
  <2>2. CASE Kiq(w) \/ AuditAppend(w)
    BY <1>2, <1>3, <2>2 DEF Process
  <2>3. CASE ~ (Deliver(w) \/ Acknowledge(w) \/ Kiq(w) \/ AuditAppend(w))
    BY <1>10, <2>3 DEF WorkerStep, IngestCommit, IngestReject, DetectRead, DetectFlush,
       DetectLosePage, DetectCommit, ApplyProject, Burn, UploadRedacted, VerifiedCommit,
       FailedCommit, FailLoad, FailCommit, QueueTypes
  <2>4. QED
    BY <2>1, <2>2, <2>3
<1>11. CASE FaultStep
  BY <1>5, <1>11 DEF FaultStep, Error, LoseHandoff, Crash, Redeliver, FailJobRaises, QueueTypes
<1>12. CASE CreateJob \/ UNCHANGED vars
  BY <1>12 DEF CreateJob, vars, QueueTypes
<1>13. Creator \in Process
  BY DEF Process, Request
<1>14. QED
  BY <1>2, <1>7, <1>8, <1>9, <1>10, <1>11, <1>12, <1>13 DEF Next

-----------------------------------------------------------------------------
(* The chain is finite, so counting its rows makes sense. *)
ChainIsFinite ==
  /\ IsFiniteSet(audit_entry)
  /\ \A p \in Process : IsFiniteSet(pending[p])

LEMMA ChainIsFiniteNext ==
  ASSUME ChainIsFinite, Chain!TypeOK, ChainStep
  PROVE  ChainIsFinite'
<1>1. ASSUME NEW p \in Process, Chain!ReadLink(p) PROVE ChainIsFinite'
  BY <1>1 DEF Chain!ReadLink, ChainIsFinite
<1>2. ASSUME NEW p \in Process, NEW e \in Event, Chain!Insert(p, e) PROVE ChainIsFinite'
  <2>1. IsFiniteSet(pending[p] \cup {Chain!NewEntry(p, e)})
    BY FS_AddElement DEF ChainIsFinite
  <2>2. QED
    BY <1>2, <2>1 DEF Chain!Insert, ChainIsFinite, Chain!TypeOK
<1>3. ASSUME NEW p \in Process, Chain!Rollback(p) PROVE ChainIsFinite'
  BY <1>3, FS_EmptySet DEF Chain!Rollback, ChainIsFinite, Chain!TypeOK
<1>4. ASSUME NEW p \in Process, Chain!Commit(p) PROVE ChainIsFinite'
  <2>1. IsFiniteSet(audit_entry \cup pending[p])
    BY FS_Union DEF ChainIsFinite
  <2>2. QED
    BY <1>4, <2>1, FS_EmptySet DEF Chain!Commit, ChainIsFinite, Chain!TypeOK
<1>5. CASE UNCHANGED chainVars
  BY <1>5 DEF chainVars, ChainIsFinite
<1>6. QED
  BY <1>1, <1>2, <1>3, <1>4, <1>5 DEF ChainStep, Chain!Next, Chain!Conflict

-----------------------------------------------------------------------------
LEMMA ChainTypes == Spec => []Chain!TypeOK
<1>1. ChainProofs!ChainInv => Chain!TypeOK
  BY DEF ChainProofs!ChainInv, ChainProofs!TypeOK, Chain!TypeOK, ChainProofs!Entry, Chain!Entry,
     ChainProofs!Link, Chain!Link, ChainProofs!Digest, Chain!Digest
<1>2. QED
  BY <1>1, ChainInvariant, PTL

LEMMA FaultCount ==
  ASSUME faults \in 0 .. MaxFaults, [Next]_vars
  PROVE  faults' \in 0 .. MaxFaults
<1>1. UNCHANGED faults \/ (faults < MaxFaults /\ faults' = faults + 1)
  BY DEF Next, vars, CreateJob, Kiq, ReviewLoad, ReviewStep, ReviewRead, UpdateDisposition,
     InsertDisposition, InsertManualSpan, LoseUniqueRow, ReviewCommit, ApplyLoad, ApplyStep,
     ApplyCount, ApplyCommit, ExportLoad, ExportStep, ExportVerify, ExportAssemble,
     ExportUpload, ExportCommit, WorkerStep, Deliver, IngestCommit, IngestReject, DetectRead,
     DetectFlush, DetectLosePage, DetectCommit, ApplyProject, Burn, UploadRedacted,
     VerifiedCommit, FailedCommit, FailLoad, FailCommit, Acknowledge, AuditAppend,
     ReadChainLink, InsertEntry, LoseSequence, FaultStep, Error, LoseHandoff, Crash,
     Redeliver, FailJobRaises, Fault
<1>2. QED
  BY <1>1, ConstantsAssumption DEF ConstantsAssumption

TypeInv == StateTypes /\ ChainIsFinite /\ faults \in 0 .. MaxFaults

LEMMA TypesInit == Init => TypeInv
<1>1. Init => RowTypes
  <2>1. Init => job \in JobRow
    BY DEF Init, JobRow
  <2>2. Init => disposition \in [Span -> SpanState]
    BY DEF Init, SpanState
  <2>3. Init => /\ writes \in [Process -> SUBSET [span : Span, value : SpanState]]
                /\ newpage \in [Process -> BOOLEAN]
                /\ page \in BOOLEAN
    BY DEF Init
  <2>4. QED
    BY <2>1, <2>2, <2>3 DEF RowTypes
<1>2. Init => ObjectTypes /\ QueueTypes
  BY FS_EmptySet DEF Init, ObjectTypes, QueueTypes
<1>3. Init => SessionTypes
  BY FreshType DEF Init, SessionTypes, Labels
<1>4. Init => ChainIsFinite /\ faults \in 0 .. MaxFaults
  BY FS_EmptySet, ConstantsAssumption DEF Init, Chain!Init, ChainIsFinite, ConstantsAssumption
<1>5. QED
  BY <1>1, <1>2, <1>3, <1>4 DEF TypeInv, StateTypes

LEMMA TypesNext == TypeInv /\ SessionInv /\ Chain!TypeOK /\ [Next]_vars => TypeInv'
BY NextIsChainStep, ChainIsFiniteNext, RowTypesNext, ObjectTypesNext, QueueTypesNext,
   SessionTypesNext, FaultCount DEF TypeInv, StateTypes, ChainIsFinite

(* The state of the pipeline keeps its types, for any constants: rows and    *)
(* flushed rows, objects, messages (one at most held by a worker slot),      *)
(* sessions and the chain.                                                   *)
THEOREM PipelineTypeCorrect == Spec => []TypeOK
<1>1. TypeInv /\ Chain!TypeOK => TypeOK
  BY DEF TypeInv, StateTypes, TypeOK
<1>2. QED
  BY <1>1, TypesInit, TypesNext, SessionInit, SessionNext, ChainTypes, PTL DEF Spec

-----------------------------------------------------------------------------
(* What stands between a document and its export: the artifact and the       *)
(* verdict of the verify gate, the audited decisions of reviewers, their     *)
(* approval of what is burned, and redact attempts that are made as a whole. *)

ExportLabels == {"export_verify", "export_assemble", "export_upload", "export_append",
                 "export_commit"}

(* The key of the artifact is set after its upload and never cleared; an     *)
(* export is only begun on a job that has it.                                *)
ArtifactInv ==
  /\ job.redacted_pdf_key => redacted_pdf.stored
  /\ job.status \in {"verified", "exported"} => job.redacted_pdf_key
  /\ \A p \in Process : pc[p] = "verified_commit" => redacted_pdf.stored
  /\ \A p \in Process : pc[p] \in ExportLabels => job.redacted_pdf_key

LEMMA ArtifactInit == Init => ArtifactInv
BY DEF Init, ArtifactInv, ExportLabels, NoJob

(* A session at `label` that has changed neither the key nor the object.     *)
LEMMA ArtifactMove ==
  ASSUME ArtifactInv, pc \in [Process -> Labels], NEW p \in Process,
         NEW label, Goto(p, label),
         label \notin ExportLabels \cup {"verified_commit"},
         UNCHANGED <<job, redacted_pdf>>
  PROVE  ArtifactInv'
BY DEF ArtifactInv, Goto

LEMMA ArtifactStatus ==
  ASSUME ArtifactInv, RowTypes, pc \in [Process -> Labels], NEW p \in Process,
         NEW label, Goto(p, label),
         label \notin ExportLabels \cup {"verified_commit"},
         NEW s, SetStatus(s), s \notin {"verified", "exported"} \/ job.redacted_pdf_key,
         UNCHANGED redacted_pdf
  PROVE  ArtifactInv'
BY DEF ArtifactInv, Goto, SetStatus, RowTypes, JobRow

LEMMA ArtifactEnd ==
  ASSUME ArtifactInv, pc \in [Process -> Labels], NEW p \in Process,
         EndSession(p) \/ CloseSession(p, "idle") \/ AfterRollback(p),
         UNCHANGED <<job, redacted_pdf>>
  PROVE  ArtifactInv'
BY ArtifactMove DEF EndSession, CloseSession, AfterRollback, ExportLabels

LEMMA ArtifactAppend ==
  ASSUME ArtifactInv, pc \in [Process -> Labels], NEW p \in Process, AuditAppend(p)
  PROVE  ArtifactInv'
<1>1. CASE ReadChainLink(p)
  BY <1>1 DEF ReadChainLink, rowVars, objectVars, procVars, ArtifactInv
<1>2. CASE InsertEntry(p) /\ AfterAppend(p) = "export_commit"
  <2>1. pc[p] = "export_append"
    BY <1>2, AfterAppendLabel DEF InsertEntry
  <2>2. job.redacted_pdf_key
    BY <2>1 DEF ArtifactInv, ExportLabels
  <2>3. QED
    BY <1>2, <2>2 DEF InsertEntry, Goto, rowVars, objectVars, ArtifactInv
<1>3. CASE InsertEntry(p) /\ AfterAppend(p) # "export_commit"
  <2>1. AfterAppend(p) \notin ExportLabels \cup {"verified_commit"}
    BY <1>3, AfterAppendLabel DEF InsertEntry, ExportLabels
  <2>2. QED
    BY <1>3, <2>1, ArtifactMove DEF InsertEntry, rowVars, objectVars
<1>4. CASE LoseSequence(p)
  BY <1>4, ArtifactEnd DEF LoseSequence, objectVars
<1>5. QED
  BY <1>1, <1>2, <1>3, <1>4 DEF AuditAppend

LEMMA ArtifactReview ==
  ASSUME ArtifactInv, pc \in [Process -> Labels], NEW r \in Reviewer, ReviewLoad(r) \/ ReviewStep(r)
  PROVE  ArtifactInv'
<1> USE DEF rowVars, objectVars
<1>1. r \in Process
  BY DEF Process, Request
<1>2. CASE EndSession(r) /\ ~AuditAppend(r)
  BY <1>1, <1>2, ArtifactEnd DEF ReviewLoad, ReviewStep, ReviewRead, UpdateDisposition,
     InsertDisposition, InsertManualSpan, LoseUniqueRow, ReviewCommit
<1>3. CASE (ReviewLoad(r) \/ ReviewRead(r)) /\ ~EndSession(r)
  BY <1>1, <1>3, ArtifactMove DEF ReviewLoad, ReviewRead, ExportLabels
<1>4. CASE UpdateDisposition(r) \/ InsertDisposition(r) \/ InsertManualSpan(r)
  BY <1>1, <1>4, ArtifactMove DEF UpdateDisposition, InsertDisposition, InsertManualSpan, ExportLabels
<1>5. CASE LoseUniqueRow(r) \/ ReviewCommit(r)
  BY <1>1, <1>5, ArtifactEnd DEF LoseUniqueRow, ReviewCommit
<1>6. QED
  BY <1>1, <1>2, <1>3, <1>4, <1>5, ArtifactAppend DEF ReviewStep

LEMMA ArtifactApply ==
  ASSUME ArtifactInv, RowTypes, pc \in [Process -> Labels],
         NEW a \in Applier, ApplyLoad(a) \/ ApplyStep(a)
  PROVE  ArtifactInv'
<1> USE DEF rowVars, objectVars
<1>1. a \in Process
  BY DEF Process, Request
<1>2. CASE ApplyLoad(a) \/ ApplyCount(a)
  BY <1>1, <1>2, ArtifactEnd, ArtifactMove DEF ApplyLoad, ApplyCount, ExportLabels
<1>3. CASE ApplyCommit(a)
  BY <1>1, <1>3, ArtifactStatus DEF ApplyCommit, ExportLabels
<1>4. CASE Kiq(a)
  BY <1>1, <1>4, ArtifactEnd DEF Kiq
<1>5. QED
  BY <1>2, <1>3, <1>4 DEF ApplyLoad, ApplyStep

(* The export moves between its labels on the strength of the key it found.  *)
LEMMA ArtifactExport ==
  ASSUME ArtifactInv, RowTypes, pc \in [Process -> Labels],
         NEW e \in Exporter, ExportLoad(e) \/ ExportStep(e)
  PROVE  ArtifactInv'
<1> USE DEF rowVars, objectVars
<1>1. e \in Process
  BY DEF Process, Request
<1>2. CASE (ExportLoad(e) \/ ExportVerify(e) \/ ExportAssemble(e) \/ ExportUpload(e)) /\ EndSession(e)
  BY <1>1, <1>2, ArtifactEnd DEF ExportLoad, ExportVerify, ExportAssemble, ExportUpload
<1>3. CASE ExportLoad(e) /\ ~EndSession(e)
  <2>1. job.redacted_pdf_key /\ Goto(e, "export_verify") /\ UNCHANGED <<job, redacted_pdf>>
    BY <1>3 DEF ExportLoad
  <2>2. QED
    BY <1>1, <2>1 DEF Goto, ArtifactInv
<1>4. CASE (ExportVerify(e) \/ ExportAssemble(e) \/ ExportUpload(e)) /\ ~EndSession(e)
  <2>1. pc[e] \in ExportLabels /\ UNCHANGED <<job, redacted_pdf>>
    BY <1>4 DEF ExportVerify, ExportAssemble, ExportUpload, ExportLabels
  <2>2. PICK label \in ExportLabels : Goto(e, label)
    BY <1>4 DEF ExportVerify, ExportAssemble, ExportUpload, ExportLabels
  <2>3. job.redacted_pdf_key /\ label # "verified_commit"
    BY <1>1, <2>1 DEF ArtifactInv, ExportLabels
  <2>4. QED
    BY <1>1, <2>1, <2>2, <2>3 DEF Goto, ArtifactInv
<1>5. CASE ExportCommit(e)
  <2>1. job.redacted_pdf_key
    BY <1>1, <1>5 DEF ExportCommit, ArtifactInv, ExportLabels
  <2>2. QED
    BY <1>1, <1>5, <2>1, ArtifactStatus DEF ExportCommit, EndSession, CloseSession, ExportLabels
<1>6. QED
  BY <1>1, <1>2, <1>3, <1>4, <1>5, ArtifactAppend DEF ExportStep

LEMMA ArtifactWorker ==
  ASSUME ArtifactInv, RowTypes, QueueTypes, pc \in [Process -> Labels], NEW w \in Worker, WorkerStep(w)
  PROVE  ArtifactInv'
<1> USE DEF rowVars, objectVars
<1>1. w \in Process
  BY DEF Process
<1>2. CASE Deliver(w)
  <2>1. \A m \in queue : FirstLabel[m.task] \notin ExportLabels \cup {"verified_commit"}
    BY DEF QueueTypes, Message, FirstLabel, ExportLabels
  <2>2. CASE UNCHANGED <<held, pc, snap>>
    BY <1>2, <2>2 DEF Deliver, ArtifactInv
  <2>3. CASE ~UNCHANGED <<held, pc, snap>>
    BY <1>1, <1>2, <2>1, <2>3, ArtifactMove DEF Deliver
  <2>4. QED
    BY <2>2, <2>3
<1>3. CASE IngestCommit(w)
  BY <1>1, <1>3, ArtifactStatus DEF IngestCommit, ExportLabels
<1>4. CASE IngestReject(w) \/ DetectRead(w) \/ DetectFlush(w) \/ ApplyProject(w) \/ Burn(w)
             \/ Acknowledge(w)
  BY <1>1, <1>4, ArtifactMove DEF IngestReject, DetectRead, DetectFlush, ApplyProject, Burn,
     Acknowledge, ExportLabels
<1>5. CASE DetectLosePage(w) \/ Kiq(w)
  BY <1>1, <1>5, ArtifactEnd DEF DetectLosePage, Kiq
<1>6. CASE DetectCommit(w) \/ FailedCommit(w) \/ FailCommit(w)
  BY <1>1, <1>6, ArtifactStatus DEF DetectCommit, FailedCommit, FailCommit, EndSession,
     CloseSession, ExportLabels
<1>7. CASE FailLoad(w)
  BY <1>1, <1>7, ArtifactEnd, ArtifactMove DEF FailLoad, ExportLabels
<1>8. CASE UploadRedacted(w)
  <2>1. redacted_pdf'.stored /\ UNCHANGED job /\ Goto(w, "verified_commit")
    BY <1>8 DEF UploadRedacted
  <2>2. QED
    BY <1>1, <2>1 DEF Goto, ArtifactInv, ExportLabels
<1>9. CASE VerifiedCommit(w)
  <2>1. redacted_pdf.stored /\ UNCHANGED redacted_pdf
    BY <1>1, <1>9 DEF VerifiedCommit, ArtifactInv
  <2>2. job'.redacted_pdf_key
    BY <1>9 DEF VerifiedCommit, RowTypes, JobRow
  <2>3. QED
    BY <1>1, <1>9, <2>1, <2>2 DEF VerifiedCommit, EndSession, CloseSession, Goto, ArtifactInv
<1>10. QED
  BY <1>1, <1>2, <1>3, <1>4, <1>5, <1>6, <1>7, <1>8, <1>9, ArtifactAppend DEF WorkerStep

LEMMA ArtifactFault ==
  ASSUME ArtifactInv, pc \in [Process -> Labels], FaultStep
  PROVE  ArtifactInv'
<1> USE DEF rowVars, objectVars, procVars
<1>1. ASSUME NEW p \in Process, Error(p) \/ LoseHandoff(p) PROVE ArtifactInv'
  BY <1>1, ArtifactEnd DEF Error, LoseHandoff
<1>2. ASSUME NEW w \in Worker, Crash(w) \/ FailJobRaises(w) PROVE ArtifactInv'
  BY <1>2, ArtifactEnd DEF Crash, FailJobRaises, Process
<1>3. ASSUME NEW w \in Worker, Redeliver(w) PROVE ArtifactInv'
  BY <1>3 DEF Redeliver, ArtifactInv
<1>4. QED
  BY <1>1, <1>2, <1>3 DEF FaultStep

LEMMA ArtifactNext ==
  ASSUME ArtifactInv, StateTypes, [Next]_vars
  PROVE  ArtifactInv'
<1> USE DEF StateTypes, SessionTypes
<1>1. Creator \in Process
  BY DEF Process, Request
<1>2. CASE CreateJob
  BY <1>1, <1>2 DEF CreateJob, ArtifactInv, Goto, objectVars, RowTypes, JobRow, ExportLabels
<1>3. CASE Kiq(Creator)
  BY <1>1, <1>3, ArtifactEnd DEF Kiq, rowVars, objectVars
<1>4. CASE UNCHANGED vars
  BY <1>4 DEF vars, rowVars, objectVars, procVars, ArtifactInv
<1>5. QED
  BY <1>2, <1>3, <1>4, ArtifactReview, ArtifactApply, ArtifactExport, ArtifactWorker,
     ArtifactFault DEF Next

LEMMA PipelineInvariant == Spec => [](TypeInv /\ SessionInv /\ ArtifactInv)
<1>1. TypeInv /\ ArtifactInv /\ [Next]_vars => ArtifactInv'
  BY ArtifactNext DEF TypeInv
<1>2. TypeInv /\ SessionInv /\ Chain!TypeOK /\ [Next]_vars => TypeInv'
  BY TypesNext
<1>3. QED
  BY <1>1, <1>2, ArtifactInit, TypesInit, SessionInit, SessionNext, ChainTypes, PTL DEF Spec

(* The gate of export_job is only passed with an artifact to serve: a job at *)
(* verified or exported has its key set and the object stored.               *)
THEOREM ExportableArtifact == Spec => []ExportableHasArtifact
<1>1. ArtifactInv => ExportableHasArtifact
  BY DEF ArtifactInv, ExportableHasArtifact
<1>2. QED
  BY <1>1, PipelineInvariant, PTL

-----------------------------------------------------------------------------
(* The verdict: it is flushed by the session that uploads the artifact, and  *)
(* committed with the key that lets an export begin.                         *)

Passed(S) == \E f \in S : f.payload.action = "verify_passed"

PassedBelow(e) ==
  \E f \in audit_entry : f.payload.action = "verify_passed" /\ f.sequence < e.sequence

PassedLabels == {"upload", "verified_commit"}

VerifiedInv ==
  /\ job.redacted_pdf_key => Passed(audit_entry)
  /\ \A p \in Process : pc[p] \in PassedLabels => Passed(pending[p])
  /\ \A e \in audit_entry : e.payload.action = "exported" => PassedBelow(e)
  /\ \A p \in Process : \A e \in pending[p] : e.payload.action = "exported" => PassedBelow(e)

LEMMA VerifiedInit == Init => VerifiedInv
BY DEF Init, Chain!Init, VerifiedInv, PassedLabels, Passed, PassedBelow

LEMMA EventAction ==
  ASSUME SessionInv, NEW p \in Process, pc[p] \in AppendLabels
  PROVE  /\ EventOf(p).action = "exported" => pc[p] = "export_append"
         /\ AfterAppend(p) = "upload" => EventOf(p).action = "verify_passed"
         /\ AfterAppend(p) # "verified_commit"
<1>1. CASE pc[p] = "review_append"
  <2>1. PICK i \in Item : local[p].item = {i}
    BY <1>1 DEF SessionInv, Audits
  <2>2. (CHOOSE j \in local[p].item : TRUE) = i
    BY <2>1
  <2>3. EventOf(p).action = AUDIT_ACTION_BY_VERB[i.verb]
    BY <1>1, <2>2 DEF EventOf
  <2>4. AUDIT_ACTION_BY_VERB[i.verb] # "exported"
    BY DEF Item, AUDIT_ACTION_BY_VERB
  <2>5. AfterAppend(p) = "review_commit"
    BY <1>1 DEF AfterAppend
  <2>6. QED
    BY <2>3, <2>4, <2>5
<1>2. CASE pc[p] = "export_append"
  <2>1. AfterAppend(p) = "export_commit"
    BY <1>2 DEF AfterAppend
  <2>2. QED
    BY <1>2, <2>1
<1>3. CASE pc[p] = "started_append"
  <2>1. AfterAppend(p) = "burn" /\ EventOf(p).action = "apply_started"
    BY <1>3 DEF AfterAppend, EventOf
  <2>2. QED
    BY <2>1
<1>4. CASE pc[p] = "verdict_append"
  <2>1. PICK v \in VerifyAction : local[p].verdict = {v}
    BY <1>4 DEF SessionInv, Audits
  <2>2. (CHOOSE u \in local[p].verdict : TRUE) = v
    BY <2>1
  <2>3. EventOf(p).action = v
    BY <1>4, <2>2 DEF EventOf
  <2>4. AfterAppend(p) = IF "verify_passed" \in local[p].verdict THEN "upload" ELSE "failed_commit"
    BY <1>4 DEF AfterAppend
  <2>5. QED
    BY <2>1, <2>3, <2>4 DEF VerifyAction
<1>5. QED
  BY <1>1, <1>2, <1>3, <1>4 DEF AppendLabels

(* An entry that is inserted comes after every committed one. *)
LEMMA InsertedLast ==
  ASSUME ChainProofs!ChainInv, NEW p \in Process, NEW payload, Chain!Insert(p, payload),
         NEW f \in audit_entry
  PROVE  f.sequence < Chain!NewEntry(p, payload).sequence
<1> DEFINE n == link[p].sequence
<1>1. Chain!NewEntry(p, payload).sequence = n /\ n \in Nat \ {0}
  BY DEF Chain!NewEntry, Chain!Insert, ChainProofs!ChainInv, ChainProofs!LinkOK,
     Chain!NoLink, ChainProofs!NoLink, Chain!GENESIS_PREV_HASH, ChainProofs!GENESIS_PREV_HASH,
     ChainProofs!TypeOK, ChainProofs!Link
<1>2. f.sequence \in Nat
  BY DEF ChainProofs!ChainInv, ChainProofs!TypeOK, ChainProofs!Entry
<1>3. \A g \in audit_entry : g.sequence # n
  BY DEF Chain!Insert, Chain!Taken, Chain!Visible
<1>4. \A i \in 1 .. f.sequence : \E g \in audit_entry : g.sequence = i
  BY DEF ChainProofs!ChainInv, ChainProofs!Linked
<1>5. QED
  BY <1>1, <1>2, <1>3, <1>4

(* The ways a step touches the chain, the key and the labels of PassedLabels.*)
Moves(p) == \E label : Goto(p, label) /\ label \notin PassedLabels

SameKey == job'.redacted_pdf_key = job.redacted_pdf_key

Quiet ==
  /\ UNCHANGED <<audit_entry, pending>> /\ SameKey
  /\ \/ UNCHANGED pc
     \/ \E p \in Process : Moves(p) \/ (pc[p] = "upload" /\ Goto(p, "verified_commit"))

Drops == \E p \in Process : Chain!Rollback(p) /\ SameKey /\ Moves(p)

Commits ==
  \E p \in Process : /\ Chain!Commit(p) /\ Moves(p)
                     /\ SameKey \/ pc[p] = "verified_commit"

Appends == \E p \in Process : InsertEntry(p)

VerdictStep == Quiet \/ Drops \/ Commits \/ Appends

LEMMA EndMoves ==
  ASSUME NEW p \in Process,
         EndSession(p) \/ CloseSession(p, "idle") \/ AfterRollback(p)
  PROVE  Moves(p)
BY DEF EndSession, CloseSession, AfterRollback, Moves, PassedLabels

LEMMA VerdictReview ==
  ASSUME NEW r \in Reviewer, ReviewLoad(r) \/ ReviewStep(r)
  PROVE  VerdictStep
<1> USE DEF rowVars, chainVars, procVars, VerdictStep, Quiet, SameKey, Moves, PassedLabels
<1>1. r \in Process
  BY DEF Process, Request
<1>2. CASE ReviewLoad(r) \/ ReviewRead(r)
  <2>1. EndSession(r) \/ Goto(r, "review") \/ Goto(r, "review_flush")
    BY <1>2 DEF ReviewLoad, ReviewRead
  <2>2. Moves(r)
    BY <1>1, <2>1, EndMoves
  <2>3. UNCHANGED <<audit_entry, pending, job>>
    BY <1>2 DEF ReviewLoad, ReviewRead
  <2>4. QED
    BY <1>1, <2>2, <2>3
<1>3. CASE UpdateDisposition(r) \/ InsertDisposition(r) \/ InsertManualSpan(r)
  BY <1>1, <1>3 DEF UpdateDisposition, InsertDisposition, InsertManualSpan
<1>4. CASE LoseUniqueRow(r)
  BY <1>1, <1>4, EndMoves DEF LoseUniqueRow
<1>5. CASE ReviewCommit(r)
  BY <1>1, <1>5, EndMoves DEF ReviewCommit, Commits
<1>6. CASE AuditAppend(r)
  BY <1>1, <1>6, EndMoves DEF AuditAppend, ReadChainLink, LoseSequence, Chain!ReadLink,
     Chain!Conflict, Drops, Appends
<1>7. QED
  BY <1>2, <1>3, <1>4, <1>5, <1>6 DEF ReviewStep

LEMMA VerdictApplyExport ==
  ASSUME RowTypes, \/ \E a \in Applier : ApplyLoad(a) \/ ApplyStep(a)
                   \/ \E e \in Exporter : ExportLoad(e) \/ ExportStep(e)
  PROVE  VerdictStep
<1> USE DEF rowVars, chainVars, procVars, VerdictStep, Quiet, SameKey, Moves, PassedLabels,
            SetStatus, RowTypes, JobRow
<1>1. ASSUME NEW a \in Applier, ApplyLoad(a) \/ ApplyStep(a) PROVE VerdictStep
  <2>1. a \in Process
    BY DEF Process, Request
  <2>2. CASE ApplyLoad(a) \/ ApplyCount(a) \/ Kiq(a)
    BY <2>1, <2>2, EndMoves DEF ApplyLoad, ApplyCount, Kiq
  <2>3. CASE ApplyCommit(a)
    BY <2>1, <2>3 DEF ApplyCommit
  <2>4. QED
    BY <1>1, <2>2, <2>3 DEF ApplyStep
<1>2. ASSUME NEW e \in Exporter, ExportLoad(e) \/ ExportStep(e) PROVE VerdictStep
  <2>1. e \in Process
    BY DEF Process, Request
  <2>2. CASE ExportLoad(e) \/ ExportVerify(e) \/ ExportAssemble(e) \/ ExportUpload(e)
    BY <2>1, <2>2, EndMoves DEF ExportLoad, ExportVerify, ExportAssemble, ExportUpload
  <2>3. CASE ExportCommit(e)
    BY <2>1, <2>3, EndMoves DEF ExportCommit, Commits
  <2>4. CASE AuditAppend(e)
    BY <2>1, <2>4, EndMoves DEF AuditAppend, ReadChainLink, LoseSequence, Chain!ReadLink,
       Chain!Conflict, Drops, Appends
  <2>5. QED
    BY <1>2, <2>2, <2>3, <2>4 DEF ExportStep
<1>3. QED
  BY <1>1, <1>2

LEMMA VerdictWorker ==
  ASSUME RowTypes, QueueTypes, NEW w \in Worker, WorkerStep(w)
  PROVE  VerdictStep
<1> USE DEF rowVars, chainVars, procVars, VerdictStep, Quiet, SameKey, Moves, PassedLabels,
            SetStatus, RowTypes, JobRow
<1>1. w \in Process
  BY DEF Process
<1>2. CASE Deliver(w)
  <2>1. \A m \in queue : FirstLabel[m.task] \notin PassedLabels
    BY DEF QueueTypes, Message, FirstLabel
  <2>2. QED
    BY <1>1, <1>2, <2>1 DEF Deliver
<1>3. CASE IngestCommit(w) \/ IngestReject(w) \/ DetectRead(w) \/ DetectFlush(w)
  BY <1>1, <1>3 DEF IngestCommit, IngestReject, DetectRead, DetectFlush
<1>4. CASE Kiq(w) \/ DetectLosePage(w) \/ DetectCommit(w) \/ FailLoad(w) \/ FailCommit(w)
  BY <1>1, <1>4, EndMoves DEF Kiq, DetectLosePage, DetectCommit, FailLoad, FailCommit
<1>5. CASE ApplyProject(w) \/ Burn(w) \/ UploadRedacted(w) \/ Acknowledge(w)
  BY <1>1, <1>5 DEF ApplyProject, Burn, UploadRedacted, Acknowledge
<1>6. CASE VerifiedCommit(w) \/ FailedCommit(w)
  BY <1>1, <1>6, EndMoves DEF VerifiedCommit, FailedCommit, Commits
<1>7. CASE AuditAppend(w)
  BY <1>1, <1>7, EndMoves DEF AuditAppend, ReadChainLink, LoseSequence, Chain!ReadLink,
     Chain!Conflict, Drops, Appends
<1>8. QED
  BY <1>2, <1>3, <1>4, <1>5, <1>6, <1>7 DEF WorkerStep

LEMMA VerdictNext ==
  ASSUME StateTypes, [Next]_vars
  PROVE  VerdictStep
<1> USE DEF rowVars, chainVars, procVars, VerdictStep, Quiet, SameKey, Moves, PassedLabels,
            StateTypes
<1>1. CASE CreateJob \/ Kiq(Creator)
  <2>1. Creator \in Process
    BY DEF Process, Request
  <2>2. CASE CreateJob
    BY <2>1, <2>2 DEF CreateJob, RowTypes, JobRow
  <2>3. CASE Kiq(Creator)
    BY <2>1, <2>3, EndMoves DEF Kiq
  <2>4. QED
    BY <1>1, <2>2, <2>3
<1>2. ASSUME NEW p \in Process, Error(p) \/ LoseHandoff(p) PROVE VerdictStep
  BY <1>2, EndMoves DEF Error, LoseHandoff, Drops
<1>3. ASSUME NEW w \in Worker, Crash(w) \/ Redeliver(w) \/ FailJobRaises(w) PROVE VerdictStep
  BY <1>3, EndMoves DEF Crash, Redeliver, FailJobRaises, Drops, Process
<1>4. CASE UNCHANGED vars
  BY <1>4 DEF vars
<1>5. QED
  BY <1>1, <1>2, <1>3, <1>4, VerdictReview, VerdictApplyExport, VerdictWorker
  DEF Next, FaultStep

LEMMA VerifiedNext ==
  ASSUME VerifiedInv, ArtifactInv, SessionInv, Chain!TypeOK, StateTypes, ChainProofs!ChainInv,
         [Next]_vars
  PROVE  VerifiedInv'
<1>1. CASE Quiet
  BY <1>1 DEF Quiet, SameKey, Moves, Goto, PassedLabels, VerifiedInv, Passed, PassedBelow,
     StateTypes, SessionTypes
<1>2. CASE Drops
  BY <1>2 DEF Drops, SameKey, Moves, Goto, PassedLabels, VerifiedInv, Passed, PassedBelow,
     Chain!Rollback, Chain!TypeOK, StateTypes, SessionTypes
<1>3. CASE Commits
  <2>1. PICK p \in Process : Chain!Commit(p) /\ Moves(p) /\ (SameKey \/ pc[p] = "verified_commit")
    BY <1>3 DEF Commits
  <2>2. /\ audit_entry' = audit_entry \cup pending[p]
        /\ pending' = [pending EXCEPT ![p] = {}]
    BY <2>1 DEF Chain!Commit
  <2>3. \A e : PassedBelow(e) => PassedBelow(e)'
    BY <2>2 DEF PassedBelow
  <2>4. job'.redacted_pdf_key => Passed(audit_entry)'
    BY <2>1, <2>2 DEF SameKey, VerifiedInv, Passed, PassedLabels
  <2>5. \A q \in Process : pc'[q] \in PassedLabels => Passed(pending[q])'
    BY <2>1, <2>2 DEF Moves, Goto, VerifiedInv, Passed, Chain!TypeOK, StateTypes, SessionTypes
  <2>6. \A e \in audit_entry' : e.payload.action = "exported" => PassedBelow(e)'
    BY <2>2, <2>3 DEF VerifiedInv
  <2>7. \A q \in Process : pending'[q] \subseteq pending[q]
    BY <2>2 DEF Chain!TypeOK
  <2>8. QED
    BY <2>3, <2>4, <2>5, <2>6, <2>7 DEF VerifiedInv, PassedBelow
<1>4. CASE Appends
  <2>1. PICK p \in Process : InsertEntry(p)
    BY <1>4 DEF Appends
  <2> DEFINE e == Chain!NewEntry(p, EventOf(p))
  <2>2. /\ audit_entry' = audit_entry
        /\ pending' = [pending EXCEPT ![p] = pending[p] \cup {e}]
        /\ e.payload = EventOf(p)
        /\ pc[p] \in AppendLabels
        /\ Goto(p, AfterAppend(p))
        /\ job' = job
    BY <2>1 DEF InsertEntry, Chain!Insert, Chain!NewEntry, rowVars, Chain!TypeOK
  <2>3. EventOf(p).action = "exported" => PassedBelow(e)
    <3>1. SUFFICES ASSUME EventOf(p).action = "exported" PROVE PassedBelow(e)
      OBVIOUS
    <3>2. pc[p] = "export_append"
      BY <2>2, <3>1, EventAction
    <3>3. PICK f \in audit_entry : f.payload.action = "verify_passed"
      BY <3>2 DEF ArtifactInv, ExportLabels, VerifiedInv, Passed
    <3>4. f.sequence < e.sequence
      BY <2>1, InsertedLast DEF InsertEntry
    <3>5. QED
      BY <3>3, <3>4 DEF PassedBelow
  <2>4. AfterAppend(p) \in PassedLabels => e.payload.action = "verify_passed"
    BY <2>2, EventAction DEF PassedLabels
  <2>5. \A q \in Process : pc'[q] \in PassedLabels => Passed(pending[q])'
    <3>1. ASSUME NEW q \in Process, pc'[q] \in PassedLabels, q # p PROVE Passed(pending[q])'
      BY <2>2, <3>1 DEF Goto, VerifiedInv, Passed, Chain!TypeOK, StateTypes, SessionTypes
    <3>2. pc'[p] \in PassedLabels => e \in pending'[p] /\ e.payload.action = "verify_passed"
      BY <2>2, <2>4 DEF Goto, Chain!TypeOK, StateTypes, SessionTypes
    <3>3. QED
      BY <3>1, <3>2 DEF Passed
  <2>6. \A q \in Process : pending'[q] \subseteq pending[q] \cup {e}
    BY <2>2 DEF Chain!TypeOK
  <2>7. \A x : PassedBelow(x)' <=> PassedBelow(x)
    BY <2>2 DEF PassedBelow
  <2>8. \A q \in Process : \A x \in pending'[q] :
          x.payload.action = "exported" => PassedBelow(x)'
    BY <2>2, <2>3, <2>6, <2>7 DEF VerifiedInv
  <2>9. QED
    BY <2>2, <2>5, <2>7, <2>8 DEF VerifiedInv, Passed, PassedBelow
<1>5. QED
  BY <1>1, <1>2, <1>3, <1>4, VerdictNext DEF VerdictStep

LEMMA VerifiedInvariant == Spec => []VerifiedInv
<1>1. /\ VerifiedInv /\ ArtifactInv /\ SessionInv /\ Chain!TypeOK /\ TypeInv
      /\ ChainProofs!ChainInv /\ [Next]_vars
      => VerifiedInv'
  BY VerifiedNext DEF TypeInv
<1>2. QED
  BY <1>1, VerifiedInit, PipelineInvariant, ChainTypes, ChainInvariant, PTL DEF Spec

(* No export of a document whose redaction did not pass the verify gate: an  *)
(* exported entry, and a status of verified or exported, comes after a       *)
(* verify_passed entry, whatever sessions run at once or die between.        *)
THEOREM VerifiedBeforeExport == Spec => []ExportIsVerified
<1>1. VerifiedInv /\ ArtifactInv => ExportIsVerified
  BY DEF VerifiedInv, ArtifactInv, ExportIsVerified, Passed, PassedBelow
<1>2. QED
  BY <1>1, VerifiedInvariant, PipelineInvariant, PTL

-----------------------------------------------------------------------------
(* What a session has flushed and not committed: rows and audit entries are  *)
(* flushed in different steps, and other sessions race each of them.         *)

Decided == {"approved", "rejected"}

FlushedLabels == {"review_append", "review_commit", "detect_commit"}

(* A session's attempt has its apply_started entry only, or its session has  *)
(* all entries it commits, or one of the labels at which it has rows.        *)
Phase(label) ==
  IF label \in {"burn", "verdict_append"} THEN "begun"
  ELSE IF label \in {"upload", "verified_commit", "failed_commit", "export_commit"} THEN "ending"
  ELSE IF label \in FlushedLabels THEN label
  ELSE "clean"

(* The rows a session has flushed: a reviewer's decision, the spans of a     *)
(* detection, which are new, or none; and the decision's entry comes after.  *)
FlushInv(p) ==
  /\ pc[p] \in {"review_append", "review_commit"} =>
       /\ p \in Reviewer
       /\ \E i \in Item, v \in Decided :
            local[p].item = {i} /\ writes[p] = {[span |-> i.span, value |-> v]}
  /\ pc[p] = "detect_commit" =>
       \A v \in writes[p] :
         v.span \in DetectedSpan /\ v.value = "none" /\ disposition[v.span] = "absent"
  /\ pc[p] \notin FlushedLabels => writes[p] = {}
  /\ \A s \in Span : (\E e \in pending[p] : e.payload.span = s)
                       <=> pc[p] = "review_commit" /\ \E i \in local[p].item : i.span = s

(* What a reviewer saw and other sessions cannot undo: a decided span stays  *)
(* decided, and a new manual span is nobody else's.                          *)
ReadInv(p) ==
  \A i \in local[p].item :
    /\ p \in Reviewer
    /\ local[p].seen \in Decided => disposition[i.span] \in Decided
    /\ local[p].seen = "absent" =>
         /\ i.verb = "add_manual_span" /\ i.span \in ManualSpan
         /\ disposition[i.span] = "absent"
         /\ \A q \in Reviewer : \A j \in local[q].item : j.span = i.span => q = p

(* No two sessions have flushed rows of the same span. *)
RowLocks ==
  \A p, q \in Process : \A v \in writes[p], u \in writes[q] : v.span = u.span => p = q

DecisionInv ==
  /\ \A p \in Process : FlushInv(p) /\ ReadInv(p)
  /\ RowLocks
  /\ DecisionIsAudited

Approves(S, s) ==
  \E e \in S : e.payload.span = s /\ e.payload.action \in ReviewAction \ {"rejected"}

(* An approval is backed by a committed entry, or by the one its session is  *)
(* about to flush or to commit with it.                                      *)
BackedBy(p) ==
  /\ \A s \in local[p].approved : Approves(audit_entry, s)
  /\ \A v \in writes[p] : v.value = "approved" =>
       \/ Approves(audit_entry \cup pending[p], v.span)
       \/ pc[p] = "review_append" /\ \A i \in local[p].item : i.verb # "reject"
  /\ local[p].seen = "rejected" => \A i \in local[p].item : i.verb # "reject"

ApprovalInv ==
  /\ \A s \in Span : disposition[s] = "approved" => Approves(audit_entry, s)
  /\ \A p \in Process : BackedBy(p)
  /\ BurnedWasApproved

(* Each apply_started is followed at once by its session's verdict.          *)
IsAttempt(e, f) ==
  /\ e.payload.action = "apply_started"
  /\ f.payload.action \in VerifyAction
  /\ f.sequence = e.sequence + 1
  /\ f.payload.by = e.payload.by

Whole(S) ==
  /\ \A e \in S : e.payload.action = "apply_started" => \E f \in S : IsAttempt(e, f)
  /\ \A f \in S : f.payload.action \in VerifyAction => \E e \in S : IsAttempt(e, f)

(* A session with one of the two entries has nothing else pending, so the    *)
(* sequence number it reads next is the one after.                           *)
AttemptOf(p) ==
  /\ Phase(pc[p]) = "begun" =>
       \E e \in pending[p] : /\ pending[p] = {e}
                             /\ e.payload.action = "apply_started"
                             /\ e.payload.by = p
  /\ Phase(pc[p]) \in {"clean", "review_append", "detect_commit"} => pending[p] = {}
  /\ Phase(pc[p]) # "begun" => Whole(pending[p])

AttemptInv == Whole(audit_entry) /\ \A p \in Process : AttemptOf(p)

-----------------------------------------------------------------------------
(* The ways a step touches rows, entries and what a session has read.        *)

Alone(p) == \A q \in Process \ {p} : pc'[q] = pc[q] /\ local'[q] = local[q]

SameRead(p) ==
  /\ local'[p].item = local[p].item
  /\ local'[p].seen = local[p].seen
  /\ local'[p].approved = local[p].approved

Still(p) ==
  /\ UNCHANGED <<writes, disposition, audit_entry, pending, redacted_pdf>>
  /\ Alone(p)
  /\ Phase(pc'[p]) = Phase(pc[p])
  /\ SameRead(p) \/ (Phase(pc[p]) = "clean" /\ local'[p] = Fresh)

(* The session loses what it flushed: an error, a crash, a lost race. *)
Lose(p) ==
  /\ UNCHANGED <<disposition, audit_entry, redacted_pdf>>
  /\ writes' = [writes EXCEPT ![p] = {}]
  /\ \/ pending' = [pending EXCEPT ![p] = {}]
     \/ UNCHANGED pending /\ Phase(pc[p]) = "clean"
  /\ Alone(p)
  /\ Phase(pc'[p]) = "clean"
  /\ SameRead(p) \/ local'[p] = Fresh

(* It commits entries that are about the job. *)
Finish(p) ==
  /\ UNCHANGED <<writes, disposition, redacted_pdf>>
  /\ Chain!Commit(p)
  /\ Phase(pc[p]) = "ending"
  /\ Alone(p)
  /\ Phase(pc'[p]) = "clean"
  /\ local'[p] = Fresh

Decide(r) ==
  /\ r \in Reviewer
  /\ \/ ReviewRead(r) /\ ~EndSession(r)
     \/ UpdateDisposition(r) \/ InsertDisposition(r) \/ InsertManualSpan(r)
     \/ ReviewCommit(r)

Work(w) ==
  /\ w \in Worker
  /\ DetectFlush(w) \/ DetectCommit(w) \/ ApplyProject(w) \/ UploadRedacted(w)

FlushStep ==
  \E p \in Process : Still(p) \/ Lose(p) \/ Finish(p) \/ InsertEntry(p) \/ Decide(p) \/ Work(p)

FlushedRows == <<writes, disposition, audit_entry, pending, redacted_pdf>>

LEMMA StillMove ==
  ASSUME SessionTypes, NEW p \in Process, NEW label, Goto(p, label), UNCHANGED local,
         UNCHANGED FlushedRows, Phase(label) = Phase(pc[p])
  PROVE  Still(p)
BY DEF SessionTypes, Goto, Still, Alone, SameRead, FlushedRows

LEMMA StillEnd ==
  ASSUME SessionTypes, NEW p \in Process, EndSession(p) \/ CloseSession(p, "idle"),
         UNCHANGED FlushedRows, Phase(pc[p]) = "clean"
  PROVE  Still(p)
BY DEF SessionTypes, EndSession, CloseSession, Goto, Still, Alone, FlushedRows, Phase, FlushedLabels

LEMMA StillSame ==
  ASSUME NEW p \in Process, UNCHANGED FlushedRows, UNCHANGED <<pc, local>>
  PROVE  Still(p)
BY DEF Still, Alone, SameRead, FlushedRows

LEMMA LoseRollback ==
  ASSUME SessionTypes, NEW p \in Process, AfterRollback(p) \/ (DropRows(p) /\ CloseSession(p, "idle")),
         UNCHANGED redacted_pdf,
         Chain!Rollback(p) \/ (UNCHANGED <<audit_entry, pending>> /\ Phase(pc[p]) = "clean")
  PROVE  Lose(p)
BY DEF SessionTypes, AfterRollback, DropRows, EndSession, CloseSession, Goto, Chain!Rollback,
       Lose, Alone, SameRead, Phase, FlushedLabels

LEMMA AppendFlushStep ==
  ASSUME SessionTypes, NEW p \in Process, AuditAppend(p)
  PROVE  FlushStep
<1>1. CASE ReadChainLink(p)
  BY <1>1, StillSame DEF ReadChainLink, Chain!ReadLink, rowVars, flushVars, objectVars, procVars,
     FlushedRows, FlushStep
<1>2. CASE LoseSequence(p)
  BY <1>2, LoseRollback DEF LoseSequence, Chain!Conflict, objectVars, FlushStep
<1>3. QED
  BY <1>1, <1>2 DEF AuditAppend, FlushStep

LEMMA ReviewFlushStep ==
  ASSUME SessionTypes, NEW r \in Reviewer, ReviewLoad(r) \/ ReviewStep(r)
  PROVE  FlushStep
<1> USE DEF rowVars, chainVars, flushVars, objectVars, FlushedRows
<1>1. r \in Process
  BY DEF Process, Request
<1>2. CASE ReviewLoad(r)
  <2>1. Phase(pc[r]) = "clean" /\ Phase("review") = "clean" /\ UNCHANGED FlushedRows
    BY <1>2 DEF ReviewLoad, CanStart, Phase, FlushedLabels
  <2>2. EndSession(r) \/ (Goto(r, "review") /\ UNCHANGED local)
    BY <1>2 DEF ReviewLoad
  <2>3. QED
    BY <1>1, <2>1, <2>2, StillMove, StillEnd DEF FlushStep
<1>3. CASE ReviewRead(r) /\ EndSession(r)
  <2>1. Phase(pc[r]) = "clean" /\ UNCHANGED FlushedRows
    BY <1>3 DEF ReviewRead, Phase, FlushedLabels
  <2>2. QED
    BY <1>1, <1>3, <2>1, StillEnd DEF FlushStep
<1>4. CASE LoseUniqueRow(r)
  <2>1. Phase(pc[r]) = "clean"
    BY <1>4 DEF LoseUniqueRow, Phase, FlushedLabels
  <2>2. QED
    BY <1>1, <1>4, <2>1, LoseRollback DEF LoseUniqueRow, FlushStep
<1>5. CASE AuditAppend(r)
  BY <1>1, <1>5, AppendFlushStep
<1>6. QED
  BY <1>1, <1>2, <1>3, <1>4, <1>5 DEF ReviewStep, Decide, FlushStep

LEMMA ApplyExportFlushStep ==
  ASSUME SessionTypes, \/ \E a \in Applier : ApplyLoad(a) \/ ApplyStep(a)
                       \/ \E e \in Exporter : ExportLoad(e) \/ ExportStep(e)
  PROVE  FlushStep
<1> USE DEF rowVars, chainVars, flushVars, objectVars, FlushedRows
<1>1. ASSUME NEW a \in Applier, ApplyLoad(a) \/ ApplyStep(a) PROVE FlushStep
  <2>1. a \in Process
    BY DEF Process, Request
  <2>2. Phase(pc[a]) = "clean" /\ UNCHANGED FlushedRows
    BY <1>1 DEF ApplyLoad, ApplyStep, ApplyCount, ApplyCommit, Kiq, EnqueueLabels, CanStart,
       Phase, FlushedLabels
  <2>3. \A label \in {"apply_count", "apply_commit", "enqueue_apply"} : Phase(label) = "clean"
    BY DEF Phase, FlushedLabels
  <2>4. \/ EndSession(a)
        \/ \E label \in {"apply_count", "apply_commit", "enqueue_apply"} :
             Goto(a, label) /\ UNCHANGED local
    BY <1>1 DEF ApplyLoad, ApplyStep, ApplyCount, ApplyCommit, Kiq
  <2>5. QED
    BY <2>1, <2>2, <2>3, <2>4, StillMove, StillEnd DEF FlushStep
<1>2. ASSUME NEW e \in Exporter, ExportLoad(e) \/ ExportStep(e) PROVE FlushStep
  <2>1. e \in Process
    BY DEF Process, Request
  <2>2. CASE ExportLoad(e) \/ ExportVerify(e) \/ ExportAssemble(e) \/ ExportUpload(e)
    <3>1. Phase(pc[e]) = "clean" /\ UNCHANGED FlushedRows
      BY <2>2 DEF ExportLoad, ExportVerify, ExportAssemble, ExportUpload, CanStart, Phase, FlushedLabels
    <3>2. PICK label \in {"export_verify", "export_assemble", "export_upload", "export_append"} :
            EndSession(e) \/ Goto(e, label)
      BY <2>2 DEF ExportLoad, ExportVerify, ExportAssemble, ExportUpload
    <3>3. EndSession(e) \/ (Goto(e, label) /\ Alone(e) /\ SameRead(e))
      BY <2>1, <2>2, <3>2 DEF ExportLoad, ExportVerify, ExportAssemble, ExportUpload, Goto, Alone,
         SameRead, SessionTypes, Local
    <3>4. Phase(label) = "clean"
      BY DEF Phase, FlushedLabels
    <3>5. QED
      BY <2>1, <3>1, <3>3, <3>4, StillEnd DEF FlushStep, Still, Goto, SessionTypes
  <2>3. CASE ExportCommit(e)
    BY <2>1, <2>3 DEF ExportCommit, EndSession, CloseSession, Goto, Finish, Alone, Phase,
       FlushedLabels, SessionTypes, FlushStep
  <2>4. QED
    BY <1>2, <2>1, <2>2, <2>3, AppendFlushStep DEF ExportStep
<1>3. QED
  BY <1>1, <1>2

LEMMA WorkerFlushStep ==
  ASSUME QueueTypes, SessionTypes, NEW w \in Worker, WorkerStep(w)
  PROVE  FlushStep
<1> USE DEF rowVars, chainVars, flushVars, objectVars, FlushedRows
<1>1. w \in Process
  BY DEF Process
<1>2. CASE Deliver(w)
  <2>1. \A m \in queue : Phase(FirstLabel[m.task]) = "clean"
    BY DEF QueueTypes, Message, FirstLabel, Phase, FlushedLabels
  <2>2. Phase(pc[w]) = "clean" /\ UNCHANGED FlushedRows /\ UNCHANGED local
    BY <1>2 DEF Deliver, Phase, FlushedLabels
  <2>3. UNCHANGED pc \/ \E m \in queue : Goto(w, FirstLabel[m.task])
    BY <1>2 DEF Deliver
  <2>4. QED
    BY <1>1, <2>1, <2>2, <2>3, StillMove, StillSame DEF FlushStep
<1>3. CASE IngestCommit(w) \/ IngestReject(w) \/ FailLoad(w) \/ FailCommit(w) \/ Acknowledge(w)
           \/ Kiq(w)
  <2>1. Phase(pc[w]) = "clean" /\ UNCHANGED FlushedRows
    BY <1>3 DEF IngestCommit, IngestReject, FailLoad, FailCommit, Acknowledge, Kiq, EnqueueLabels,
       Phase, FlushedLabels
  <2>2. \A label \in {"enqueue_detect", "fail", "fail_commit", "idle"} : Phase(label) = "clean"
    BY DEF Phase, FlushedLabels
  <2>3. \/ EndSession(w)
        \/ \E label \in {"enqueue_detect", "fail", "fail_commit", "idle"} :
             Goto(w, label) /\ UNCHANGED local
    BY <1>3 DEF IngestCommit, IngestReject, FailLoad, FailCommit, Acknowledge, Kiq
  <2>4. QED
    BY <1>1, <2>1, <2>2, <2>3, StillMove, StillEnd DEF FlushStep
<1>4. CASE DetectRead(w) \/ Burn(w)
  <2>1. UNCHANGED FlushedRows /\ Alone(w) /\ SameRead(w)
    BY <1>1, <1>4 DEF DetectRead, Burn, Goto, Alone, SameRead, SessionTypes, Local
  <2>2. Phase(pc'[w]) = Phase(pc[w])
    BY <1>1, <1>4 DEF DetectRead, Burn, Goto, SessionTypes, Phase, FlushedLabels
  <2>3. QED
    BY <1>1, <2>1, <2>2 DEF Still, FlushStep
<1>5. CASE DetectLosePage(w)
  <2>1. Phase(pc[w]) = "clean"
    BY <1>5 DEF DetectLosePage, Phase, FlushedLabels
  <2>2. QED
    BY <1>1, <1>5, <2>1, LoseRollback DEF DetectLosePage, FlushStep
<1>6. CASE VerifiedCommit(w) \/ FailedCommit(w)
  BY <1>1, <1>6 DEF VerifiedCommit, FailedCommit, EndSession, CloseSession, Goto, Finish, Alone,
     Phase, FlushedLabels, SessionTypes, FlushStep
<1>7. QED
  BY <1>1, <1>2, <1>3, <1>4, <1>5, <1>6, AppendFlushStep DEF WorkerStep, Work, FlushStep

LEMMA FaultFlushStep ==
  ASSUME SessionTypes, FaultStep
  PROVE  FlushStep
<1> USE DEF rowVars, chainVars, flushVars, objectVars, FlushedRows
<1>1. ASSUME NEW p \in Process, Error(p) PROVE FlushStep
  BY <1>1, LoseRollback DEF Error, FlushStep
<1>2. ASSUME NEW w \in Worker, Crash(w) PROVE FlushStep
  BY <1>2, LoseRollback DEF Crash, FlushStep, Process
<1>3. ASSUME NEW p \in Process, LoseHandoff(p) \/ (p \in Worker /\ FailJobRaises(p)) PROVE FlushStep
  <2>1. Phase(pc[p]) = "clean" /\ UNCHANGED FlushedRows
    BY <1>3 DEF LoseHandoff, FailJobRaises, EnqueueLabels, FailLabels, Phase, FlushedLabels
  <2>2. QED
    BY <1>3, <2>1, StillEnd DEF LoseHandoff, FailJobRaises, FlushStep
<1>4. ASSUME NEW w \in Worker, Redeliver(w) PROVE FlushStep
  BY <1>4, StillSame DEF Redeliver, procVars, FlushStep, Process
<1>5. QED
  BY <1>1, <1>2, <1>3, <1>4 DEF FaultStep, Process

LEMMA FlushNext ==
  ASSUME StateTypes, [Next]_vars
  PROVE  FlushStep
<1> USE DEF StateTypes, rowVars, chainVars, flushVars, objectVars, FlushedRows
<1>1. Creator \in Process
  BY DEF Process, Request
<1>2. CASE CreateJob \/ Kiq(Creator)
  <2>1. Phase(pc[Creator]) = "clean" /\ Phase("enqueue_ingest") = "clean" /\ UNCHANGED FlushedRows
    BY <1>2 DEF CreateJob, Kiq, EnqueueLabels, Phase, FlushedLabels
  <2>2. QED
    BY <1>1, <1>2, <2>1, StillMove, StillEnd DEF CreateJob, Kiq, FlushStep
<1>3. CASE UNCHANGED vars
  BY <1>1, <1>3, StillSame DEF vars, procVars, FlushStep
<1>4. QED
  BY <1>2, <1>3, ReviewFlushStep, ApplyExportFlushStep, WorkerFlushStep, FaultFlushStep DEF Next

-----------------------------------------------------------------------------
(* Each of these ways keeps decisions and entries together. *)

LEMMA SamePhase ==
  ASSUME NEW k, NEW l, Phase(k) = Phase(l)
  PROVE  k \in FlushedLabels \/ l \in FlushedLabels => k = l
BY DEF Phase, FlushedLabels

LEMMA DecisionInit == Init => DecisionInv
BY DEF Init, Chain!Init, DecisionInv, FlushInv, ReadInv, RowLocks, DecisionIsAudited, SpanEntries,
       FlushedLabels, Fresh

LEMMA DecisionStill ==
  ASSUME DecisionInv, NEW p \in Process, Alone(p),
         UNCHANGED <<writes, disposition, audit_entry, pending>>,
         Phase(pc'[p]) = Phase(pc[p]),
         \/ local'[p].item = local[p].item /\ local'[p].seen = local[p].seen
         \/ Phase(pc[p]) = "clean" /\ local'[p] = Fresh
  PROVE  DecisionInv'
<1>1. pc[p] \in FlushedLabels \/ pc'[p] \in FlushedLabels =>
        pc'[p] = pc[p] /\ local'[p].item = local[p].item
  BY SamePhase DEF Phase
<1>2. ASSUME NEW q \in Process PROVE FlushInv(q)'
  <2>1. FlushInv(q)
    BY DEF DecisionInv
  <2>2. CASE q # p
    BY <2>1, <2>2 DEF FlushInv, Alone
  <2>3. CASE q = p
    BY <1>1, <2>1, <2>3 DEF FlushInv, FlushedLabels
  <2>4. QED
    BY <2>2, <2>3
<1>3. \A q \in Process : \/ local'[q].item = local[q].item /\ local'[q].seen = local[q].seen
                         \/ local'[q].item = {}
  BY DEF Alone, Fresh
<1>4. \A q \in Process : ReadInv(q)'
  BY <1>3 DEF DecisionInv, ReadInv, Process, Request
<1>5. QED
  BY <1>2, <1>4 DEF DecisionInv, RowLocks, DecisionIsAudited, SpanEntries

LEMMA DecisionLose ==
  ASSUME DecisionInv, RowTypes, Chain!TypeOK, NEW p \in Process, Lose(p)
  PROVE  DecisionInv'
<1>1. writes'[p] = {} /\ \A q \in Process \ {p} : writes'[q] = writes[q]
  BY DEF Lose, RowTypes
<1>2. (\A e \in pending'[p] : e.payload.span \notin Span)
      /\ \A q \in Process \ {p} : pending'[q] = pending[q]
  <2>1. Phase(pc[p]) = "clean" => pc[p] # "review_commit"
    BY DEF Phase, FlushedLabels
  <2>2. CASE pending' = [pending EXCEPT ![p] = {}]
    BY <2>2 DEF Chain!TypeOK
  <2>3. CASE UNCHANGED pending /\ Phase(pc[p]) = "clean"
    BY <2>1, <2>3 DEF DecisionInv, FlushInv
  <2>4. QED
    BY <2>2, <2>3 DEF Lose
<1>3. ASSUME NEW q \in Process PROVE FlushInv(q)'
  <2>1. FlushInv(q)
    BY DEF DecisionInv
  <2>2. CASE q # p
    BY <1>1, <1>2, <2>1, <2>2 DEF FlushInv, Lose, Alone
  <2>3. CASE q = p
    <3>1. pc'[p] \notin FlushedLabels
      BY DEF Lose, Phase, FlushedLabels
    <3>2. QED
      BY <1>1, <1>2, <2>3, <3>1 DEF FlushInv, FlushedLabels
  <2>4. QED
    BY <2>2, <2>3
<1>4. \A q \in Process : \/ local'[q].item = local[q].item /\ local'[q].seen = local[q].seen
                         \/ local'[q].item = {}
  BY DEF Lose, Alone, SameRead, Fresh
<1>5. \A q \in Process : ReadInv(q)'
  BY <1>4 DEF DecisionInv, ReadInv, Process, Request, Lose
<1>6. RowLocks'
  BY <1>1 DEF DecisionInv, RowLocks
<1>7. QED
  BY <1>3, <1>5, <1>6 DEF DecisionInv, DecisionIsAudited, SpanEntries, Lose

LEMMA DecisionFinish ==
  ASSUME DecisionInv, Chain!TypeOK, NEW p \in Process, Finish(p)
  PROVE  DecisionInv'
<1>1. pc[p] # "review_commit" /\ pc[p] \notin FlushedLabels /\ pc'[p] \notin FlushedLabels
  BY DEF Finish, Phase, FlushedLabels
<1>2. \A e \in pending[p] : e.payload.span \notin Span
  BY <1>1 DEF DecisionInv, FlushInv
<1>3. /\ audit_entry' = audit_entry \cup pending[p]
      /\ pending'[p] = {}
      /\ \A q \in Process \ {p} : pending'[q] = pending[q]
  BY DEF Finish, Chain!Commit, Chain!TypeOK
<1>4. ASSUME NEW q \in Process PROVE FlushInv(q)'
  <2>1. FlushInv(q)
    BY DEF DecisionInv
  <2>2. CASE q # p
    BY <1>3, <2>1, <2>2 DEF FlushInv, Finish, Alone
  <2>3. CASE q = p
    BY <1>1, <1>3, <2>1, <2>3 DEF FlushInv, Finish, FlushedLabels
  <2>4. QED
    BY <2>2, <2>3
<1>5. \A q \in Process : \/ local'[q].item = local[q].item /\ local'[q].seen = local[q].seen
                         \/ local'[q].item = {}
  BY DEF Finish, Alone, Fresh
<1>6. \A q \in Process : ReadInv(q)'
  BY <1>5 DEF DecisionInv, ReadInv, Process, Request, Finish
<1>7. DecisionIsAudited'
  BY <1>2, <1>3 DEF DecisionInv, DecisionIsAudited, SpanEntries, Finish
<1>8. QED
  BY <1>4, <1>6, <1>7 DEF DecisionInv, RowLocks, Finish

(* The entry that is flushed is about the span that was written. *)
LEMMA EventSpan ==
  ASSUME SessionInv, NEW p \in Process, pc[p] \in AppendLabels
  PROVE  /\ pc[p] = "review_append" =>
              \A i \in local[p].item :
                EventOf(p).span = i.span /\ EventOf(p).action = AUDIT_ACTION_BY_VERB[i.verb]
         /\ pc[p] # "review_append" => EventOf(p).span = NoSpan
<1>1. CASE pc[p] = "review_append"
  <2>1. PICK i \in Item : local[p].item = {i}
    BY <1>1 DEF SessionInv, Audits
  <2>2. (CHOOSE j \in local[p].item : TRUE) = i
    BY <2>1
  <2>3. QED
    BY <1>1, <2>1, <2>2 DEF EventOf
<1>2. CASE pc[p] = "export_append"
  BY <1>2 DEF EventOf
<1>3. CASE pc[p] = "started_append"
  BY <1>3 DEF EventOf
<1>4. CASE pc[p] = "verdict_append"
  BY <1>4 DEF EventOf
<1>5. QED
  BY <1>1, <1>2, <1>3, <1>4 DEF AppendLabels

LEMMA DecisionAppend ==
  ASSUME DecisionInv, SessionInv, SessionTypes, Chain!TypeOK, NEW p \in Process, InsertEntry(p)
  PROVE  DecisionInv'
<1> DEFINE n == Chain!NewEntry(p, EventOf(p))
<1>1. /\ pending'[p] = pending[p] \cup {n}
      /\ \A q \in Process \ {p} : pending'[q] = pending[q] /\ pc'[q] = pc[q]
      /\ pc'[p] = AfterAppend(p)
      /\ pc[p] \in AppendLabels
      /\ n.payload = EventOf(p)
      /\ UNCHANGED <<audit_entry, writes, disposition, local>>
  BY DEF InsertEntry, Chain!Insert, Chain!NewEntry, Chain!TypeOK, Goto, SessionTypes, rowVars, flushVars
<1>2. FlushInv(p)
  BY DEF DecisionInv
<1>3. FlushInv(p)'
  <2>1. CASE pc[p] = "review_append"
    <3>1. pc'[p] = "review_commit"
      BY <1>1, <2>1 DEF AfterAppend
    <3>2. PICK i \in Item : local[p].item = {i} /\ n.payload.span = i.span
      BY <1>1, <2>1, EventSpan DEF SessionInv, Audits
    <3>3. \A s \in Span : (\E e \in pending'[p] : e.payload.span = s) <=> s = i.span
      BY <1>1, <1>2, <2>1, <3>2 DEF FlushInv, Item, Span
    <3>4. QED
      BY <1>1, <1>2, <2>1, <3>1, <3>2, <3>3 DEF FlushInv, FlushedLabels
  <2>2. CASE pc[p] # "review_append"
    <3>1. pc[p] \notin FlushedLabels
      BY <1>1, <2>2 DEF AppendLabels, FlushedLabels
    <3>2. pc'[p] \notin FlushedLabels
      <4>1. AfterAppend(p) # "review_commit"
        BY <1>1, <2>2 DEF AppendLabels, AfterAppend
      <4>2. QED
        BY <1>1, <4>1, AfterAppendLabel DEF FlushedLabels
    <3>3. n.payload.span \notin Span
      BY <1>1, <2>2, EventSpan, ConstantsAssumption
    <3>4. QED
      BY <1>1, <1>2, <3>1, <3>2, <3>3 DEF FlushInv, FlushedLabels
  <2>3. QED
    BY <2>1, <2>2
<1>4. \A q \in Process \ {p} : FlushInv(q)'
  BY <1>1 DEF DecisionInv, FlushInv
<1>5. \A q \in Process : ReadInv(q)'
  BY <1>1 DEF DecisionInv, ReadInv
<1>6. QED
  BY <1>1, <1>3, <1>4, <1>5 DEF DecisionInv, RowLocks, DecisionIsAudited, SpanEntries

(* An item on a span without a row is a manual span nobody else works on.    *)
LEMMA DecisionRead ==
  ASSUME DecisionInv, SessionTypes, NEW r \in Reviewer, ReviewRead(r), ~EndSession(r)
  PROVE  DecisionInv'
<1>1. r \in Process
  BY DEF Process, Request
<1>2. PICK i \in Item :
        /\ i.verb = "add_manual_span" => disposition[i.span] = "absent" /\ ~Reserved(i.span)
        /\ disposition[i.span] = "absent" => i.verb = "add_manual_span"
        /\ local' = [local EXCEPT ![r].item = {i}, ![r].seen = disposition[i.span],
                                  ![r].page = page]
        /\ Goto(r, "review_flush")
  BY DEF ReviewRead
<1>3. UNCHANGED <<writes, disposition, audit_entry, pending>> /\ pc[r] = "review"
  BY DEF ReviewRead, rowVars, chainVars, flushVars
<1>4. /\ local'[r].item = {i} /\ local'[r].seen = disposition[i.span] /\ pc'[r] = "review_flush"
      /\ \A q \in Process \ {r} : local'[q] = local[q] /\ pc'[q] = pc[q]
  BY <1>1, <1>2 DEF SessionTypes, Local, Goto
<1>5. \A q \in Process : FlushInv(q)'
  <2>1. FlushInv(r)'
    BY <1>1, <1>3, <1>4 DEF DecisionInv, FlushInv, FlushedLabels
  <2>2. \A q \in Process \ {r} : FlushInv(q)'
    BY <1>3, <1>4 DEF DecisionInv, FlushInv
  <2>3. QED
    BY <2>1, <2>2
<1>6. disposition[i.span] = "absent" =>
        /\ i.verb = "add_manual_span" /\ i.span \in ManualSpan
        /\ \A q \in Reviewer : \A j \in local[q].item : j.span # i.span
  BY <1>2 DEF Item, Reserved
<1>7. \A q \in Reviewer : q \in Process
  BY DEF Process, Request
<1>8. ReadInv(r)'
  BY <1>3, <1>4, <1>6, <1>7 DEF ReadInv
<1>9. ASSUME NEW q \in Process \ {r} PROVE ReadInv(q)'
  BY <1>3, <1>4, <1>6, <1>7 DEF DecisionInv, ReadInv
<1>10. QED
  BY <1>3, <1>5, <1>8, <1>9 DEF DecisionInv, RowLocks, DecisionIsAudited, SpanEntries

LEMMA DecisionWrite ==
  ASSUME DecisionInv, SessionInv, SessionTypes, RowTypes, NEW r \in Reviewer,
         UpdateDisposition(r) \/ InsertDisposition(r) \/ InsertManualSpan(r)
  PROVE  DecisionInv'
<1>1. r \in Process /\ pc[r] = "review_flush"
  BY DEF Process, Request, UpdateDisposition, InsertDisposition, InsertManualSpan
<1>2. PICK i \in Item : local[r].item = {i}
  BY <1>1 DEF SessionInv, Audits
<1>3. i.span \in Span /\ DISPOSITION_ACTION_BY_VERB[i.verb] \in Decided
  BY DEF Item, Span, DISPOSITION_ACTION_BY_VERB, Decided
<1>4. PICK v \in Decided : Write(r, i.span, v)
  <2>1. CASE UpdateDisposition(r)
    <3>1. local[r].seen \in Decided
      BY <2>1 DEF UpdateDisposition, Decided
    <3>2. disposition[i.span] \in Decided
      BY <1>1, <1>2, <3>1 DEF DecisionInv, ReadInv
    <3>3. QED
      BY <1>2, <1>3, <2>1, <3>2 DEF UpdateDisposition
  <2>2. CASE InsertDisposition(r)
    BY <1>2, <1>3, <2>2 DEF InsertDisposition
  <2>3. CASE InsertManualSpan(r)
    BY <1>2, <2>3 DEF InsertManualSpan, Decided
  <2>4. QED
    BY <2>1, <2>2, <2>3
<1>5. ~RowLocked(r, i.span)
  <2>1. CASE UpdateDisposition(r) \/ InsertDisposition(r)
    BY <1>2, <2>1 DEF UpdateDisposition, InsertDisposition
  <2>2. CASE InsertManualSpan(r)
    <3>1. /\ i.span \in ManualSpan
          /\ \A q \in Reviewer : \A j \in local[q].item : j.span = i.span => q = r
      BY <1>1, <1>2, <2>2 DEF InsertManualSpan, DecisionInv, ReadInv
    <3>2. SUFFICES ASSUME NEW q \in Process \ {r}, NEW w \in writes[q], w.span = i.span PROVE FALSE
      BY DEF RowLocked
    <3>3. FlushInv(q) /\ i.span \notin DetectedSpan
      BY <3>1, ConstantsAssumption DEF DecisionInv
    <3>4. pc[q] \in {"review_append", "review_commit"}
      BY <3>2, <3>3 DEF FlushInv, FlushedLabels
    <3>5. q \in Reviewer /\ \E j \in local[q].item : j.span = i.span
      BY <3>2, <3>3, <3>4 DEF FlushInv
    <3>6. QED
      BY <3>1, <3>2, <3>5
  <2>3. QED
    BY <2>1, <2>2
<1>6. /\ writes'[r] = {[span |-> i.span, value |-> v]}
      /\ \A q \in Process \ {r} : writes'[q] = writes[q] /\ pc'[q] = pc[q]
      /\ pc'[r] = "review_append"
      /\ UNCHANGED <<disposition, audit_entry, pending, local>>
  BY <1>1, <1>4 DEF Write, RowTypes, SessionTypes, Goto, UpdateDisposition, InsertDisposition,
     InsertManualSpan, rowVars, chainVars
<1>7. \A q \in Process : FlushInv(q)'
  <2>1. FlushInv(r)'
    BY <1>1, <1>2, <1>6 DEF DecisionInv, FlushInv, FlushedLabels
  <2>2. \A q \in Process \ {r} : FlushInv(q)'
    BY <1>6 DEF DecisionInv, FlushInv
  <2>3. QED
    BY <2>1, <2>2
<1>8. RowLocks'
  BY <1>1, <1>5, <1>6 DEF DecisionInv, RowLocks, RowLocked
<1>9. QED
  BY <1>6, <1>7, <1>8 DEF DecisionInv, ReadInv, DecisionIsAudited, SpanEntries

(* The decision and its entry become visible in the same commit. *)
LEMMA DecisionCommit ==
  ASSUME DecisionInv, SessionTypes, RowTypes, Chain!TypeOK, NEW r \in Reviewer, ReviewCommit(r)
  PROVE  DecisionInv'
<1>1. r \in Process /\ pc[r] = "review_commit" /\ FlushInv(r)
  BY DEF Process, Request, ReviewCommit, DecisionInv
<1>2. PICK i \in Item, v \in Decided :
        local[r].item = {i} /\ writes[r] = {[span |-> i.span, value |-> v]}
  BY <1>1 DEF FlushInv
<1>3. /\ disposition'[i.span] = v
      /\ \A s \in Span \ {i.span} : disposition'[s] = disposition[s]
  <2>1. \A s \in Span : Flushed(r)[s] = IF s = i.span THEN v ELSE disposition[s]
    <3>1. /\ \A w \in writes[r] : w.span = i.span /\ w.value = v
          /\ \E w \in writes[r] : w.span = i.span
      BY <1>2
    <3>2. (CHOOSE w \in writes[r] : w.span = i.span) \in writes[r]
      BY <3>1
    <3>3. SUFFICES ASSUME NEW s \in Span
                   PROVE  Flushed(r)[s] = IF s = i.span THEN v ELSE disposition[s]
      OBVIOUS
    <3>4. Flushed(r)[s] = IF \E w \in writes[r] : w.span = s
                          THEN (CHOOSE w \in writes[r] : w.span = s).value
                          ELSE disposition[s]
      BY DEF Flushed
    <3>5. CASE s = i.span
      BY <3>1, <3>2, <3>4, <3>5
    <3>6. CASE s # i.span
      BY <3>1, <3>4, <3>6
    <3>7. QED
      BY <3>5, <3>6
  <2>2. QED
    BY <2>1 DEF ReviewCommit, CommitRows, Item, Span
<1>4. /\ writes'[r] = {} /\ pending'[r] = {} /\ local'[r] = Fresh /\ pc'[r] \notin FlushedLabels
      /\ \A q \in Process \ {r} : /\ writes'[q] = writes[q] /\ pending'[q] = pending[q]
                                  /\ local'[q] = local[q] /\ pc'[q] = pc[q]
      /\ audit_entry' = audit_entry \cup pending[r]
  BY <1>1 DEF ReviewCommit, CommitRows, Chain!Commit, EndSession, CloseSession, Goto, RowTypes,
     SessionTypes, Chain!TypeOK, FlushedLabels
<1>5. FlushInv(r)'
  BY <1>4 DEF FlushInv, FlushedLabels
<1>6. ASSUME NEW q \in Process \ {r} PROVE FlushInv(q)'
  <2>1. \A w \in writes[q] : w.span # i.span
    BY <1>1, <1>2 DEF DecisionInv, RowLocks
  <2>2. pc[q] = "detect_commit" => \A w \in writes[q] : disposition'[w.span] = "absent"
    <3>1. SUFFICES ASSUME pc[q] = "detect_commit", NEW w \in writes[q]
                   PROVE  disposition'[w.span] = "absent"
      OBVIOUS
    <3>2. disposition[w.span] = "absent" /\ w.span \in Span
      BY <3>1 DEF DecisionInv, FlushInv, Span
    <3>3. QED
      BY <1>3, <2>1, <3>2
  <2>3. QED
    BY <1>4, <2>2 DEF DecisionInv, FlushInv
<1>7. ASSUME NEW q \in Process PROVE ReadInv(q)'
  <2>1. CASE q = r
    BY <1>4, <2>1 DEF ReadInv, Fresh
  <2>2. CASE q # r
    <3>1. \A j \in local[q].item : j.span \in Span
      BY DEF SessionTypes, Local, Item, Span
    <3>2. \A j \in local[q].item : local[q].seen = "absent" => j.span # i.span
      BY <1>2, <2>2 DEF DecisionInv, ReadInv
    <3>3. \A j \in local[q].item : local[q].seen \in Decided => disposition'[j.span] \in Decided
      BY <1>3, <3>1 DEF DecisionInv, ReadInv
    <3>4. \A u \in Reviewer : \A j \in local'[u].item : j \in local[u].item
      BY <1>4 DEF Fresh, Process, Request
    <3>5. QED
      BY <1>3, <1>4, <2>2, <3>1, <3>2, <3>3, <3>4 DEF DecisionInv, ReadInv
  <2>3. QED
    BY <2>1, <2>2
<1>8. RowLocks'
  BY <1>4 DEF DecisionInv, RowLocks
<1>9. DecisionIsAudited'
  <2>1. ASSUME NEW s \in Span
        PROVE  disposition'[s] \in {"approved", "rejected"} <=> SpanEntries(s)' # {}
    <3>1. SpanEntries(s)' # {} <=> SpanEntries(s) # {} \/ s = i.span
      BY <1>1, <1>2, <1>4 DEF SpanEntries, FlushInv
    <3>2. disposition'[s] \in Decided <=> disposition[s] \in Decided \/ s = i.span
      BY <1>3
    <3>3. QED
      BY <3>1, <3>2 DEF DecisionInv, DecisionIsAudited, Decided
  <2>2. QED
    BY <2>1 DEF DecisionIsAudited
<1>10. QED
  BY <1>5, <1>6, <1>7, <1>8, <1>9 DEF DecisionInv

(* Detection only adds spans nobody has decided on. *)
LEMMA DecisionDetectFlush ==
  ASSUME DecisionInv, SessionTypes, RowTypes, NEW w \in Worker, DetectFlush(w)
  PROVE  DecisionInv'
<1>1. w \in Process /\ pc[w] = "detect_flush"
  BY DEF Process, DetectFlush
<1>2. PICK found \in SUBSET FreshSpans(w) :
        writes' = [writes EXCEPT ![w] = {[span |-> s, value |-> "none"] : s \in found}]
  BY DEF DetectFlush
<1>3. /\ writes'[w] = {[span |-> s, value |-> "none"] : s \in found}
      /\ pc'[w] = "detect_commit"
      /\ \A q \in Process \ {w} : writes'[q] = writes[q] /\ pc'[q] = pc[q]
      /\ UNCHANGED <<disposition, audit_entry, pending, local>>
  BY <1>1, <1>2 DEF DetectFlush, RowTypes, SessionTypes, Goto, rowVars, chainVars
<1>4. \A v \in writes'[w] : /\ v.span \in DetectedSpan /\ v.value = "none"
                            /\ disposition[v.span] = "absent" /\ ~RowLocked(w, v.span)
  BY <1>3 DEF FreshSpans
<1>5. FlushInv(w)'
  BY <1>1, <1>3, <1>4 DEF DecisionInv, FlushInv, FlushedLabels
<1>6. \A q \in Process \ {w} : FlushInv(q)'
  BY <1>3 DEF DecisionInv, FlushInv
<1>7. RowLocks'
  BY <1>1, <1>3, <1>4 DEF DecisionInv, RowLocks, RowLocked
<1>8. QED
  BY <1>3, <1>5, <1>6, <1>7 DEF DecisionInv, ReadInv, DecisionIsAudited, SpanEntries

LEMMA DecisionDetectCommit ==
  ASSUME DecisionInv, SessionTypes, RowTypes, NEW w \in Worker, DetectCommit(w)
  PROVE  DecisionInv'
<1>1. w \in Process /\ pc[w] = "detect_commit" /\ FlushInv(w)
  BY DEF Process, DetectCommit, DecisionInv
<1>2. /\ writes'[w] = {} /\ local'[w] = Fresh /\ pc'[w] \notin FlushedLabels
      /\ \A q \in Process \ {w} : /\ writes'[q] = writes[q]
                                  /\ local'[q] = local[q] /\ pc'[q] = pc[q]
      /\ UNCHANGED <<audit_entry, pending>>
  BY <1>1 DEF DetectCommit, CommitRows, EndSession, CloseSession, Goto, RowTypes, SessionTypes,
     FlushedLabels, chainVars
<1>3. ASSUME NEW s \in Span
      PROVE  \/ disposition'[s] = disposition[s]
             \/ /\ s \in DetectedSpan /\ disposition[s] = "absent" /\ disposition'[s] = "none"
                /\ \E v \in writes[w] : v.span = s
  <2>1. disposition'[s] = Flushed(w)[s]
    BY DEF DetectCommit, CommitRows
  <2>2. CASE \E v \in writes[w] : v.span = s
    <3>1. (CHOOSE v \in writes[w] : v.span = s) \in {v \in writes[w] : v.span = s}
      BY <2>2
    <3>2. Flushed(w)[s] = "none"
      BY <1>1, <2>2, <3>1 DEF Flushed, FlushInv
    <3>3. QED
      BY <1>1, <2>1, <2>2, <3>2 DEF FlushInv
  <2>3. CASE ~\E v \in writes[w] : v.span = s
    BY <2>1, <2>3 DEF Flushed
  <2>4. QED
    BY <2>2, <2>3
<1>4. FlushInv(w)'
  BY <1>1, <1>2 DEF FlushInv, FlushedLabels, Fresh
<1>5. ASSUME NEW q \in Process \ {w} PROVE FlushInv(q)'
  <2>1. pc[q] = "detect_commit" => \A v \in writes[q] : disposition'[v.span] = "absent"
    <3>1. SUFFICES ASSUME pc[q] = "detect_commit", NEW v \in writes[q]
                   PROVE  disposition'[v.span] = "absent"
      OBVIOUS
    <3>2. disposition[v.span] = "absent" /\ v.span \in Span
      BY <3>1 DEF DecisionInv, FlushInv, Span
    <3>3. ~\E u \in writes[w] : u.span = v.span
      BY <1>1, <3>1 DEF DecisionInv, RowLocks
    <3>4. QED
      BY <1>3, <3>2, <3>3
  <2>2. QED
    BY <1>2, <2>1 DEF DecisionInv, FlushInv
<1>6. ASSUME NEW q \in Process PROVE ReadInv(q)'
  <2>1. CASE q = w
    BY <1>2, <2>1 DEF ReadInv, Fresh
  <2>2. CASE q # w
    <3>1. \A j \in local[q].item : j.span \in Span
      BY DEF SessionTypes, Local, Item, Span
    <3>2. \A u \in Reviewer : \A j \in local'[u].item : j \in local[u].item
      BY <1>2 DEF Fresh, Process, Request
    <3>3. ASSUME NEW j \in local[q].item
          PROVE  /\ local[q].seen \in Decided => disposition'[j.span] \in Decided
                 /\ local[q].seen = "absent" => disposition'[j.span] = "absent"
      <4>1. /\ local[q].seen \in Decided => disposition[j.span] \in Decided
            /\ local[q].seen = "absent" => j.span \in ManualSpan /\ disposition[j.span] = "absent"
        BY <3>3 DEF DecisionInv, ReadInv
      <4>2. j.span \in ManualSpan => j.span \notin DetectedSpan
        BY ConstantsAssumption
      <4>3. "absent" \notin Decided
        BY DEF Decided
      <4>4. QED
        BY <1>3, <3>1, <3>3, <4>1, <4>2, <4>3
    <3>4. QED
      BY <1>2, <2>2, <3>2, <3>3 DEF DecisionInv, ReadInv
  <2>3. QED
    BY <2>1, <2>2
<1>7. RowLocks'
  BY <1>2 DEF DecisionInv, RowLocks
<1>8. DecisionIsAudited'
  <2>1. \A s \in Span : disposition'[s] \in Decided <=> disposition[s] \in Decided
    BY <1>3 DEF Decided
  <2>2. QED
    BY <1>2, <2>1 DEF DecisionInv, DecisionIsAudited, SpanEntries, Decided
<1>9. QED
  BY <1>4, <1>5, <1>6, <1>7, <1>8 DEF DecisionInv

(* The steps of apply_job between its reads and its commit. *)
LEMMA ApplyStepsKeep ==
  ASSUME SessionTypes, NEW w \in Worker, ApplyProject(w) \/ UploadRedacted(w)
  PROVE  /\ w \in Process
         /\ UNCHANGED <<writes, disposition, audit_entry, pending>>
         /\ Alone(w)
         /\ Phase(pc'[w]) = Phase(pc[w])
         /\ local'[w].item = local[w].item /\ local'[w].seen = local[w].seen
<1>1. w \in Process
  BY DEF Process
<1>2. Phase(pc'[w]) = Phase(pc[w])
  BY <1>1 DEF ApplyProject, UploadRedacted, Goto, SessionTypes, Phase, FlushedLabels
<1>3. QED
  BY <1>1, <1>2 DEF ApplyProject, UploadRedacted, Goto, SessionTypes, Local, Alone, rowVars,
     chainVars, flushVars

LEMMA DecisionNext ==
  ASSUME DecisionInv, SessionInv, StateTypes, Chain!TypeOK, [Next]_vars
  PROVE  DecisionInv'
<1> USE DEF StateTypes
<1>1. ASSUME NEW p \in Process, Still(p) PROVE DecisionInv'
  BY <1>1, DecisionStill DEF Still, SameRead
<1>2. ASSUME NEW r \in Process, Decide(r) PROVE DecisionInv'
  BY <1>2, DecisionRead, DecisionWrite, DecisionCommit DEF Decide
<1>3. ASSUME NEW w \in Process, Work(w) PROVE DecisionInv'
  <2>1. CASE DetectFlush(w) \/ DetectCommit(w)
    BY <1>3, <2>1, DecisionDetectFlush, DecisionDetectCommit DEF Work
  <2>2. CASE ApplyProject(w) \/ UploadRedacted(w)
    BY <1>3, <2>2, ApplyStepsKeep, DecisionStill DEF Work
  <2>3. QED
    BY <1>3, <2>1, <2>2 DEF Work
<1>4. QED
  BY <1>1, <1>2, <1>3, FlushNext, DecisionLose, DecisionFinish, DecisionAppend DEF FlushStep

LEMMA DecisionInvariant == Spec => []DecisionInv
<1>1. /\ DecisionInv /\ SessionInv /\ TypeInv /\ Chain!TypeOK /\ [Next]_vars
      => DecisionInv'
  BY DecisionNext DEF TypeInv
<1>2. QED
  BY <1>1, DecisionInit, PipelineInvariant, ChainTypes, PTL DEF Spec

(* Whatever sessions race, lose or die between the flush of a disposition    *)
(* and the flush of its entry: a span is dispositioned if and only if the    *)
(* committed chain has an entry about it.                                    *)
THEOREM DecisionsAreAudited == Spec => []DecisionIsAudited
BY DecisionInvariant, PTL DEF DecisionInv

-----------------------------------------------------------------------------
(* What is burned in was approved, by an entry that is there for good. *)

LEMMA ApprovesMore ==
  ASSUME NEW S, NEW T, S \subseteq T, NEW s, Approves(S, s)
  PROVE  Approves(T, s)
BY DEF Approves

LEMMA ApprovalInit == Init => ApprovalInv
BY DEF Init, ApprovalInv, BackedBy, BurnedWasApproved, Fresh

(* A step of p that leaves dispositions and the other sessions alone. *)
LEMMA ApprovalFrame ==
  ASSUME ApprovalInv, Chain!TypeOK, NEW p \in Process, Alone(p),
         audit_entry \subseteq audit_entry', UNCHANGED disposition,
         \A q \in Process \ {p} : writes'[q] = writes[q] /\ pending'[q] = pending[q],
         \A s \in redacted_pdf'.burned : Approves(audit_entry, s),
         BackedBy(p)'
  PROVE  ApprovalInv'
<1>1. \A s : Approves(audit_entry, s) => Approves(audit_entry', s)
  BY ApprovesMore
<1>2. ASSUME NEW q \in Process \ {p} PROVE BackedBy(q)'
  <2>1. \A s : Approves(audit_entry \cup pending[q], s) => Approves(audit_entry' \cup pending'[q], s)
    BY ApprovesMore
  <2>2. BackedBy(q) /\ local'[q] = local[q] /\ pc'[q] = pc[q] /\ writes'[q] = writes[q]
    BY DEF ApprovalInv, Alone
  <2>3. QED
    BY <1>1, <2>1, <2>2 DEF BackedBy, Approves
<1>3. \A s \in Span : disposition'[s] = "approved" => Approves(audit_entry', s)
  BY <1>1 DEF ApprovalInv
<1>4. BurnedWasApproved'
  BY <1>1 DEF BurnedWasApproved, Approves
<1>5. QED
  BY <1>2, <1>3, <1>4 DEF ApprovalInv, Approves

LEMMA ApprovalBurned == ApprovalInv => \A s \in redacted_pdf.burned : Approves(audit_entry, s)
BY DEF ApprovalInv, BurnedWasApproved, Approves

LEMMA ApprovalStill ==
  ASSUME ApprovalInv, DecisionInv, RowTypes, Chain!TypeOK, NEW p \in Process, Still(p) \/ Lose(p)
  PROVE  ApprovalInv'
<1>1. BackedBy(p)'
  <2>1. BackedBy(p) /\ FlushInv(p)
    BY DEF ApprovalInv, DecisionInv
  <2>2. CASE Still(p)
    <3>1. pc[p] \in FlushedLabels \/ pc'[p] \in FlushedLabels => pc'[p] = pc[p] /\ SameRead(p)
      BY <2>2, SamePhase DEF Still, Phase
    <3>2. CASE pc[p] \in FlushedLabels
      BY <2>1, <2>2, <3>1, <3>2 DEF BackedBy, SameRead, Still, Approves
    <3>3. CASE pc[p] \notin FlushedLabels
      <4>1. writes'[p] = {} /\ UNCHANGED audit_entry
        BY <2>1, <2>2, <3>3 DEF FlushInv, Still
      <4>2. QED
        BY <2>1, <2>2, <4>1 DEF BackedBy, SameRead, Still, Fresh, Approves
    <3>4. QED
      BY <3>2, <3>3
  <2>3. CASE Lose(p)
    <3>1. writes'[p] = {} /\ UNCHANGED audit_entry
      BY <2>3 DEF Lose, RowTypes
    <3>2. QED
      BY <2>1, <2>3, <3>1 DEF BackedBy, SameRead, Lose, Fresh, Approves
  <2>4. QED
    BY <2>2, <2>3
<1>2. /\ Alone(p) /\ UNCHANGED <<audit_entry, disposition, redacted_pdf>>
      /\ \A q \in Process \ {p} : writes'[q] = writes[q] /\ pending'[q] = pending[q]
  BY DEF Still, Lose, RowTypes, Chain!TypeOK
<1>3. QED
  BY <1>1, <1>2, ApprovalBurned, ApprovalFrame

LEMMA ApprovalFinish ==
  ASSUME ApprovalInv, DecisionInv, Chain!TypeOK, NEW p \in Process, Finish(p)
  PROVE  ApprovalInv'
<1>1. writes'[p] = {}
  BY DEF Finish, Phase, FlushedLabels, DecisionInv, FlushInv
<1>2. BackedBy(p)'
  BY <1>1 DEF Finish, BackedBy, Fresh
<1>3. /\ Alone(p) /\ audit_entry \subseteq audit_entry' /\ UNCHANGED <<disposition, redacted_pdf>>
      /\ \A q \in Process \ {p} : writes'[q] = writes[q] /\ pending'[q] = pending[q]
  BY DEF Finish, Chain!Commit, Chain!TypeOK
<1>4. QED
  BY <1>2, <1>3, ApprovalBurned, ApprovalFrame

LEMMA ApprovalAppend ==
  ASSUME ApprovalInv, DecisionInv, SessionInv, SessionTypes, Chain!TypeOK,
         NEW p \in Process, InsertEntry(p)
  PROVE  ApprovalInv'
<1> DEFINE n == Chain!NewEntry(p, EventOf(p))
<1>1. /\ pending' = [pending EXCEPT ![p] = pending[p] \cup {n}]
      /\ n.payload = EventOf(p)
      /\ pc[p] \in AppendLabels
      /\ UNCHANGED <<audit_entry, writes, disposition, redacted_pdf, local>>
      /\ Alone(p)
  BY DEF InsertEntry, Chain!Insert, Chain!NewEntry, Chain!TypeOK, Goto, SessionTypes, rowVars,
     flushVars, objectVars, Alone
<1>2. BackedBy(p) /\ FlushInv(p)
  BY DEF ApprovalInv, DecisionInv
<1>3. BackedBy(p)'
  <2>1. CASE pc[p] # "review_append"
    <3>1. writes'[p] = {}
      BY <1>1, <1>2, <2>1 DEF AppendLabels, FlushedLabels, FlushInv
    <3>2. QED
      BY <1>1, <1>2, <3>1 DEF BackedBy, Approves
  <2>2. CASE pc[p] = "review_append"
    <3>1. PICK i \in Item, v \in Decided :
            local[p].item = {i} /\ writes[p] = {[span |-> i.span, value |-> v]}
      BY <1>2, <2>2 DEF FlushInv
    <3>2. n.payload.span = i.span /\ n.payload.action = AUDIT_ACTION_BY_VERB[i.verb]
      BY <1>1, <2>2, <3>1, EventSpan
    <3>3. i.verb # "reject" => Approves({n}, i.span)
      BY <3>2 DEF Approves, AUDIT_ACTION_BY_VERB, ReviewAction, Item
    <3>4. v = "approved" => Approves(audit_entry \cup pending[p], i.span) \/ i.verb # "reject"
      BY <1>2, <3>1 DEF BackedBy
    <3>5. v = "approved" => Approves(audit_entry' \cup pending'[p], i.span)
      BY <1>1, <3>3, <3>4 DEF Approves, Chain!TypeOK
    <3>6. QED
      BY <1>1, <1>2, <3>1, <3>5 DEF BackedBy, Approves
  <2>3. QED
    BY <2>1, <2>2
<1>4. \A q \in Process \ {p} : writes'[q] = writes[q] /\ pending'[q] = pending[q]
  BY <1>1 DEF Chain!TypeOK
<1>5. QED
  BY <1>1, <1>3, <1>4, ApprovalBurned, ApprovalFrame

LEMMA ApprovalRead ==
  ASSUME ApprovalInv, DecisionInv, SessionTypes, Chain!TypeOK, NEW r \in Reviewer,
         ReviewRead(r), ~EndSession(r)
  PROVE  ApprovalInv'
<1>1. r \in Process
  BY DEF Process, Request
<1>2. PICK i \in Item :
        /\ disposition[i.span] = "rejected" => i.verb # "reject"
        /\ local' = [local EXCEPT ![r].item = {i}, ![r].seen = disposition[i.span],
                                  ![r].page = page]
        /\ Goto(r, "review_flush")
  <2>1. DISPOSITION_ACTION_BY_VERB["reject"] = "rejected"
    BY DEF DISPOSITION_ACTION_BY_VERB
  <2>2. QED
    BY <2>1 DEF ReviewRead, disposition_needs_change
<1>3. UNCHANGED <<writes, disposition, audit_entry, pending, redacted_pdf>> /\ pc[r] = "review"
  BY DEF ReviewRead, rowVars, chainVars, flushVars, objectVars
<1>4. /\ local'[r].item = {i} /\ local'[r].seen = disposition[i.span]
      /\ local'[r].approved = local[r].approved
      /\ Alone(r)
  BY <1>1, <1>2 DEF SessionTypes, Local, Goto, Alone
<1>5. writes[r] = {}
  BY <1>1, <1>3 DEF DecisionInv, FlushInv, FlushedLabels
<1>6. BackedBy(r)'
  BY <1>1, <1>2, <1>3, <1>4, <1>5 DEF ApprovalInv, BackedBy, Approves
<1>7. QED
  BY <1>1, <1>3, <1>4, <1>6, ApprovalBurned, ApprovalFrame

LEMMA ApprovalWrite ==
  ASSUME ApprovalInv, DecisionInv, SessionInv, SessionTypes, RowTypes, Chain!TypeOK,
         NEW r \in Reviewer, UpdateDisposition(r) \/ InsertDisposition(r) \/ InsertManualSpan(r)
  PROVE  ApprovalInv'
<1>1. r \in Process /\ pc[r] = "review_flush"
  BY DEF Process, Request, UpdateDisposition, InsertDisposition, InsertManualSpan
<1>2. PICK i \in Item : local[r].item = {i}
  BY <1>1 DEF SessionInv, Audits
<1>3. i.span \in Span
      /\ (DISPOSITION_ACTION_BY_VERB[i.verb] = "approved" => i.verb # "reject")
  BY DEF Item, Span, DISPOSITION_ACTION_BY_VERB
<1>4. PICK v : /\ Write(r, i.span, v)
               /\ v = "approved" => Approves(audit_entry, i.span) \/ i.verb # "reject"
  <2>1. CASE UpdateDisposition(r)
    BY <1>2, <1>3, <2>1 DEF UpdateDisposition, ApprovalInv
  <2>2. CASE InsertDisposition(r)
    BY <1>2, <1>3, <2>2 DEF InsertDisposition
  <2>3. CASE InsertManualSpan(r)
    BY <1>1, <1>2, <2>3 DEF InsertManualSpan, DecisionInv, ReadInv
  <2>4. QED
    BY <2>1, <2>2, <2>3
<1>5. /\ writes'[r] = {[span |-> i.span, value |-> v]}
      /\ \A q \in Process \ {r} : writes'[q] = writes[q]
      /\ pc'[r] = "review_append"
      /\ Alone(r)
      /\ UNCHANGED <<disposition, audit_entry, pending, local, redacted_pdf>>
  BY <1>1, <1>4 DEF Write, RowTypes, SessionTypes, Goto, UpdateDisposition, InsertDisposition,
     InsertManualSpan, rowVars, chainVars, objectVars, Alone
<1>6. BackedBy(r)'
  <2>1. BackedBy(r)
    BY <1>1 DEF ApprovalInv
  <2>2. Approves(audit_entry, i.span) => Approves(audit_entry' \cup pending'[r], i.span)
    BY <1>5, ApprovesMore
  <2>3. QED
    BY <1>2, <1>4, <1>5, <2>1, <2>2 DEF BackedBy, Approves
<1>7. QED
  BY <1>1, <1>5, <1>6, ApprovalBurned, ApprovalFrame

(* The step of p changes dispositions; it makes a span approved only with an *)
(* entry that is committed.                                                  *)
LEMMA ApprovalPublish ==
  ASSUME ApprovalInv, DecisionInv, SessionTypes, Chain!TypeOK, NEW p \in Process, Alone(p),
         audit_entry \subseteq audit_entry', UNCHANGED redacted_pdf,
         \A s \in Span : disposition'[s] = "approved" =>
           disposition[s] = "approved" \/ Approves(audit_entry', s),
         \A q \in Process \ {p} : writes'[q] = writes[q] /\ pending'[q] = pending[q],
         writes'[p] = {}, local'[p] = Fresh
  PROVE  ApprovalInv'
<1>1. \A s : Approves(audit_entry, s) => Approves(audit_entry', s)
  BY ApprovesMore
<1>2. ASSUME NEW q \in Process \ {p} PROVE BackedBy(q)'
  <2>1. \A s : Approves(audit_entry \cup pending[q], s) => Approves(audit_entry' \cup pending'[q], s)
    BY ApprovesMore
  <2>2. BackedBy(q) /\ local'[q] = local[q] /\ pc'[q] = pc[q] /\ writes'[q] = writes[q]
    BY DEF ApprovalInv, Alone
  <2>3. QED
    BY <1>1, <2>1, <2>2 DEF BackedBy, Approves
<1>3. BackedBy(p)'
  BY DEF BackedBy, Fresh
<1>4. \A s \in Span : disposition'[s] = "approved" => Approves(audit_entry', s)
  BY <1>1 DEF ApprovalInv
<1>5. BurnedWasApproved'
  BY <1>1, ApprovalBurned DEF BurnedWasApproved, Approves
<1>6. QED
  BY <1>2, <1>3, <1>4, <1>5 DEF ApprovalInv, Approves

LEMMA ApprovalCommit ==
  ASSUME ApprovalInv, DecisionInv, SessionTypes, RowTypes, Chain!TypeOK,
         NEW r \in Reviewer, ReviewCommit(r)
  PROVE  ApprovalInv'
<1>1. r \in Process /\ pc[r] = "review_commit" /\ BackedBy(r)
  BY DEF Process, Request, ReviewCommit, ApprovalInv
<1>2. /\ writes'[r] = {} /\ local'[r] = Fresh /\ Alone(r)
      /\ \A q \in Process \ {r} : writes'[q] = writes[q] /\ pending'[q] = pending[q]
      /\ audit_entry' = audit_entry \cup pending[r]
      /\ UNCHANGED redacted_pdf
  BY <1>1 DEF ReviewCommit, CommitRows, Chain!Commit, EndSession, CloseSession, Goto, RowTypes,
     SessionTypes, Chain!TypeOK, Alone, objectVars
<1>3. ASSUME NEW s \in Span, disposition'[s] = "approved"
      PROVE  disposition[s] = "approved" \/ Approves(audit_entry', s)
  <2>1. disposition'[s] = Flushed(r)[s]
    BY DEF ReviewCommit, CommitRows
  <2>2. CASE \E v \in writes[r] : v.span = s
    <3>1. PICK v \in writes[r] : v.span = s /\ v.value = Flushed(r)[s]
      BY <2>2 DEF Flushed
    <3>2. QED
      BY <1>1, <1>2, <1>3, <2>1, <3>1 DEF BackedBy
  <2>3. CASE ~\E v \in writes[r] : v.span = s
    BY <1>3, <2>1, <2>3 DEF Flushed
  <2>4. QED
    BY <2>2, <2>3
<1>4. QED
  BY <1>1, <1>2, <1>3, ApprovalPublish

LEMMA ApprovalDetect ==
  ASSUME ApprovalInv, DecisionInv, SessionTypes, RowTypes, Chain!TypeOK,
         NEW w \in Worker, DetectFlush(w) \/ DetectCommit(w)
  PROVE  ApprovalInv'
<1>1. w \in Process /\ BackedBy(w) /\ FlushInv(w)
  BY DEF Process, ApprovalInv, DecisionInv
<1>2. CASE DetectFlush(w)
  <2>1. /\ \A v \in writes'[w] : v.value = "none"
        /\ \A q \in Process \ {w} : writes'[q] = writes[q]
        /\ Alone(w)
        /\ UNCHANGED <<disposition, audit_entry, pending, local, redacted_pdf>>
    BY <1>1, <1>2 DEF DetectFlush, RowTypes, SessionTypes, Goto, Alone, rowVars, chainVars, objectVars
  <2>2. BackedBy(w)'
    BY <1>1, <2>1 DEF BackedBy, Approves
  <2>3. QED
    BY <1>1, <2>1, <2>2, ApprovalBurned, ApprovalFrame
<1>3. CASE DetectCommit(w)
  <2>1. /\ writes'[w] = {} /\ local'[w] = Fresh /\ Alone(w)
        /\ \A q \in Process \ {w} : writes'[q] = writes[q]
        /\ UNCHANGED <<audit_entry, pending, redacted_pdf>>
    BY <1>1, <1>3 DEF DetectCommit, CommitRows, EndSession, CloseSession, Goto, RowTypes,
       SessionTypes, Alone, chainVars, objectVars
  <2>2. ASSUME NEW s \in Span, disposition'[s] = "approved" PROVE disposition[s] = "approved"
    <3>1. disposition'[s] = Flushed(w)[s]
      BY <1>3 DEF DetectCommit, CommitRows
    <3>2. ~\E v \in writes[w] : v.span = s
      <4>1. SUFFICES ASSUME \E v \in writes[w] : v.span = s PROVE FALSE
        OBVIOUS
      <4>2. PICK v \in writes[w] : v.value = Flushed(w)[s]
        BY <4>1 DEF Flushed
      <4>3. v.value = "none"
        BY <1>1, <1>3 DEF FlushInv, DetectCommit
      <4>4. QED
        BY <2>2, <3>1, <4>2, <4>3
    <3>3. QED
      BY <2>2, <3>1, <3>2 DEF Flushed
  <2>3. QED
    BY <1>1, <2>1, <2>2, ApprovalPublish
<1>4. QED
  BY <1>2, <1>3

(* apply_job reads the approved spans before it appends, burns and uploads.  *)
LEMMA ApprovalApply ==
  ASSUME ApprovalInv, DecisionInv, SessionTypes, Chain!TypeOK,
         NEW w \in Worker, ApplyProject(w) \/ UploadRedacted(w)
  PROVE  ApprovalInv'
<1>1. /\ w \in Process /\ Alone(w)
      /\ UNCHANGED <<writes, disposition, audit_entry, pending>>
      /\ local'[w].item = local[w].item /\ local'[w].seen = local[w].seen
      /\ BackedBy(w) /\ FlushInv(w)
  BY ApplyStepsKeep DEF ApprovalInv, DecisionInv
<1>2. writes'[w] = {}
  BY <1>1 DEF ApplyProject, UploadRedacted, FlushInv, FlushedLabels
<1>3. CASE ApplyProject(w)
  <2>1. /\ local'[w].approved = {s \in Span : disposition[s] = "approved"}
        /\ UNCHANGED redacted_pdf
    BY <1>1, <1>3 DEF ApplyProject, SessionTypes, Local, objectVars
  <2>2. BackedBy(w)'
    BY <1>1, <1>2, <2>1 DEF BackedBy, ApprovalInv, Approves
  <2>3. QED
    BY <1>1, <2>1, <2>2, ApprovalBurned, ApprovalFrame
<1>4. CASE UploadRedacted(w)
  <2>1. redacted_pdf'.burned = local[w].approved /\ UNCHANGED local
    BY <1>4 DEF UploadRedacted
  <2>2. BackedBy(w)'
    BY <1>1, <1>2, <2>1 DEF BackedBy, Approves
  <2>3. \A s \in redacted_pdf'.burned : Approves(audit_entry, s)
    BY <1>1, <2>1 DEF BackedBy
  <2>4. QED
    BY <1>1, <2>2, <2>3, ApprovalFrame
<1>5. QED
  BY <1>3, <1>4

LEMMA ApprovalNext ==
  ASSUME ApprovalInv, DecisionInv, SessionInv, StateTypes, Chain!TypeOK, [Next]_vars
  PROVE  ApprovalInv'
<1> USE DEF StateTypes
<1>1. ASSUME NEW r \in Process, Decide(r) PROVE ApprovalInv'
  BY <1>1, ApprovalRead, ApprovalWrite, ApprovalCommit DEF Decide
<1>2. ASSUME NEW w \in Process, Work(w) PROVE ApprovalInv'
  BY <1>2, ApprovalDetect, ApprovalApply DEF Work
<1>3. QED
  BY <1>1, <1>2, FlushNext, ApprovalStill, ApprovalFinish, ApprovalAppend DEF FlushStep

(* Nothing is burned into the redacted PDF unless the committed chain names  *)
(* the reviewer decision that approved it, however the dispositions are      *)
(* changed while apply_job runs and however often the task is delivered.     *)
THEOREM BurnedSpansWereApproved == Spec => []BurnedWasApproved
<1>1. /\ ApprovalInv /\ DecisionInv /\ SessionInv /\ TypeInv /\ Chain!TypeOK /\ [Next]_vars
      => ApprovalInv'
  BY ApprovalNext DEF TypeInv
<1>2. ApprovalInv => BurnedWasApproved
  BY DEF ApprovalInv
<1>3. QED
  BY <1>1, <1>2, ApprovalInit, DecisionInvariant, PipelineInvariant, ChainTypes, PTL DEF Spec

-----------------------------------------------------------------------------
(* Apply attempts are adjacent entries of the chain. *)

LEMMA WholeUnion ==
  ASSUME NEW S, NEW T, Whole(S), Whole(T)
  PROVE  Whole(S \cup T)
BY DEF Whole

LEMMA AttemptInit == Init => AttemptInv
BY DEF Init, Chain!Init, AttemptInv, AttemptOf, Whole, Phase, FlushedLabels

LEMMA AttemptStill ==
  ASSUME AttemptInv, Chain!TypeOK, NEW p \in Process, Still(p) \/ Lose(p)
  PROVE  AttemptInv'
<1>1. AttemptOf(p)'
  <2>1. AttemptOf(p)
    BY DEF AttemptInv
  <2>2. CASE Still(p)
    BY <2>1, <2>2 DEF Still, AttemptOf, Whole, IsAttempt
  <2>3. CASE Lose(p)
    <3>1. pending'[p] = {} /\ Phase(pc'[p]) = "clean"
      BY <2>1, <2>3 DEF Lose, Chain!TypeOK, AttemptOf
    <3>2. QED
      BY <3>1 DEF AttemptOf, Whole
  <2>4. QED
    BY <2>2, <2>3
<1>2. ASSUME NEW q \in Process \ {p} PROVE AttemptOf(q)'
  <2>1. pending'[q] = pending[q] /\ pc'[q] = pc[q]
    BY DEF Still, Lose, Alone, Chain!TypeOK
  <2>2. QED
    BY <2>1 DEF AttemptInv, AttemptOf, Whole, IsAttempt
<1>3. QED
  BY <1>1, <1>2 DEF AttemptInv, Still, Lose, Whole, IsAttempt

(* A commit publishes whole attempts. *)
LEMMA AttemptCommit ==
  ASSUME AttemptInv, Chain!TypeOK, NEW p \in Process, Alone(p), Chain!Commit(p),
         Phase(pc[p]) # "begun", Phase(pc'[p]) = "clean"
  PROVE  AttemptInv'
<1>1. /\ audit_entry' = audit_entry \cup pending[p]
      /\ pending'[p] = {}
      /\ \A q \in Process \ {p} : pending'[q] = pending[q] /\ pc'[q] = pc[q]
  BY DEF Chain!Commit, Chain!TypeOK, Alone
<1>2. Whole(audit_entry')
  BY <1>1, WholeUnion DEF AttemptInv, AttemptOf
<1>3. AttemptOf(p)'
  BY <1>1 DEF AttemptOf, Whole
<1>4. \A q \in Process \ {p} : AttemptOf(q)'
  BY <1>1 DEF AttemptInv, AttemptOf, Whole, IsAttempt
<1>5. QED
  BY <1>2, <1>3, <1>4 DEF AttemptInv, Whole, IsAttempt

(* The entry flushed after a single pending one has the next number. *)
LEMMA InsertedNext ==
  ASSUME ChainProofs!ChainInv, NEW p \in Process, NEW payload, Chain!Insert(p, payload),
         NEW e \in pending[p], pending[p] = {e}
  PROVE  Chain!NewEntry(p, payload).sequence = e.sequence + 1
<1> DEFINE n == link[p].sequence
<1>1. /\ Chain!NewEntry(p, payload).sequence = n /\ n \in Nat
      /\ e.sequence \in Nat \ {0}
      /\ \A f \in audit_entry : f.sequence \in Nat /\ f.sequence # e.sequence
  BY DEF Chain!NewEntry, Chain!Insert, ChainProofs!ChainInv, ChainProofs!TypeOK, ChainProofs!Link,
     ChainProofs!Entry
<1>2. /\ e.sequence < n
      /\ n > 1 => \E g \in ChainProofs!Visible(p) : g.sequence + 1 = n
  BY DEF Chain!Insert, ChainProofs!ChainInv, ChainProofs!LinkOK, Chain!NoLink, ChainProofs!NoLink,
     Chain!GENESIS_PREV_HASH, ChainProofs!GENESIS_PREV_HASH
<1>3. PICK g \in audit_entry \cup {e} : g.sequence + 1 = n
  BY <1>1, <1>2 DEF ChainProofs!Visible
<1>4. CASE g \in audit_entry
  <2>1. e.sequence \in 1 .. g.sequence
    BY <1>1, <1>2, <1>3, <1>4
  <2>2. \E f \in audit_entry : f.sequence = e.sequence
    BY <1>4, <2>1 DEF ChainProofs!ChainInv, ChainProofs!Linked
  <2>3. QED
    BY <1>1, <2>2
<1>5. QED
  BY <1>1, <1>3, <1>4

LEMMA EventKind ==
  ASSUME SessionInv, NEW p \in Process, pc[p] \in AppendLabels
  PROVE  /\ EventOf(p).action = "apply_started" <=> pc[p] = "started_append"
         /\ EventOf(p).action \in VerifyAction <=> pc[p] = "verdict_append"
         /\ pc[p] # "review_append" => EventOf(p).by = p
<1>1. CASE pc[p] = "review_append"
  <2>1. PICK i \in Item : local[p].item = {i}
    BY <1>1 DEF SessionInv, Audits
  <2>2. EventOf(p).action = AUDIT_ACTION_BY_VERB[i.verb]
    BY <1>1, <2>1, EventSpan
  <2>3. AUDIT_ACTION_BY_VERB[i.verb] \notin {"apply_started"} \cup VerifyAction
    BY DEF Item, AUDIT_ACTION_BY_VERB, VerifyAction
  <2>4. QED
    BY <1>1, <2>2, <2>3
<1>2. CASE pc[p] = "export_append"
  BY <1>2 DEF EventOf, VerifyAction
<1>3. CASE pc[p] = "started_append"
  BY <1>3 DEF EventOf, VerifyAction
<1>4. CASE pc[p] = "verdict_append"
  <2>1. PICK v \in VerifyAction : local[p].verdict = {v}
    BY <1>4 DEF SessionInv, Audits
  <2>2. (CHOOSE u \in local[p].verdict : TRUE) = v
    BY <2>1
  <2>3. EventOf(p) = [action |-> v, span |-> NoSpan, by |-> p]
    BY <1>4, <2>2 DEF EventOf
  <2>4. QED
    BY <1>4, <2>1, <2>3 DEF VerifyAction
<1>5. QED
  BY <1>1, <1>2, <1>3, <1>4 DEF AppendLabels

LEMMA AttemptAppend ==
  ASSUME AttemptInv, SessionInv, SessionTypes, Chain!TypeOK, ChainProofs!ChainInv,
         NEW p \in Process, InsertEntry(p)
  PROVE  AttemptInv'
<1> DEFINE n == Chain!NewEntry(p, EventOf(p))
<1>1. /\ pending'[p] = pending[p] \cup {n}
      /\ \A q \in Process \ {p} : pending'[q] = pending[q] /\ pc'[q] = pc[q]
      /\ pc'[p] = AfterAppend(p)
      /\ pc[p] \in AppendLabels
      /\ n.payload = EventOf(p)
      /\ UNCHANGED audit_entry
      /\ Chain!Insert(p, EventOf(p))
  BY DEF InsertEntry, Chain!Insert, Chain!NewEntry, Chain!TypeOK, Goto, SessionTypes
<1>2. AttemptOf(p)
  BY DEF AttemptInv
<1>3. AttemptOf(p)'
  <2>1. CASE pc[p] \in {"review_append", "export_append"}
    <3>1. Phase(pc[p]) \in {"clean", "review_append"} /\ Phase(pc'[p]) \in {"ending", "review_commit"}
      BY <1>1, <2>1 DEF Phase, FlushedLabels, AfterAppend
    <3>2. pending'[p] = {n}
      BY <1>1, <1>2, <3>1 DEF AttemptOf
    <3>3. n.payload.action \notin {"apply_started"} \cup VerifyAction
      BY <1>1, <2>1, EventKind
    <3>4. QED
      BY <3>1, <3>2, <3>3 DEF AttemptOf, Whole
  <2>2. CASE pc[p] = "started_append"
    <3>1. Phase(pc[p]) = "clean" /\ Phase(pc'[p]) = "begun"
      BY <1>1, <2>2 DEF Phase, FlushedLabels, AfterAppend
    <3>2. pending'[p] = {n}
      BY <1>1, <1>2, <3>1 DEF AttemptOf
    <3>3. n.payload.action = "apply_started" /\ n.payload.by = p
      BY <1>1, <2>2, EventKind
    <3>4. QED
      BY <3>1, <3>2, <3>3 DEF AttemptOf
  <2>3. CASE pc[p] = "verdict_append"
    <3>1. Phase(pc[p]) = "begun" /\ Phase(pc'[p]) = "ending"
      BY <1>1, <2>3 DEF Phase, FlushedLabels, AfterAppend
    <3>2. PICK e \in pending[p] : /\ pending[p] = {e}
                                  /\ e.payload.action = "apply_started" /\ e.payload.by = p
      BY <1>2, <3>1 DEF AttemptOf
    <3>3. n.sequence = e.sequence + 1
      BY <1>1, <3>2, InsertedNext
    <3>4. n.payload.action \in VerifyAction /\ n.payload.by = p
      BY <1>1, <2>3, EventKind
    <3>5. IsAttempt(e, n)
      BY <3>2, <3>3, <3>4 DEF IsAttempt
    <3>6. Whole({e, n})
      BY <3>2, <3>4, <3>5 DEF Whole, VerifyAction
    <3>7. pending'[p] = {e, n}
      BY <1>1, <3>2
    <3>8. Whole(pending'[p])
      BY <3>6, <3>7
    <3>9. QED
      BY <3>1, <3>8 DEF AttemptOf, Whole, IsAttempt
  <2>4. QED
    BY <1>1, <2>1, <2>2, <2>3 DEF AppendLabels
<1>4. \A q \in Process \ {p} : AttemptOf(q)'
  BY <1>1 DEF AttemptInv, AttemptOf, Whole, IsAttempt
<1>5. QED
  BY <1>1, <1>3, <1>4 DEF AttemptInv, Whole, IsAttempt

(* A step that touches neither entries nor the phase of a session's attempt. *)
LEMMA AttemptFrame ==
  ASSUME AttemptInv, NEW p \in Process, UNCHANGED <<audit_entry, pending>>,
         \A q \in Process \ {p} : pc'[q] = pc[q],
         \/ Phase(pc'[p]) = Phase(pc[p])
         \/ /\ Phase(pc[p]) \in {"clean", "review_append", "detect_commit"}
            /\ Phase(pc'[p]) \in {"clean", "review_append", "detect_commit"}
  PROVE  AttemptInv'
BY DEF AttemptInv, AttemptOf, Whole, IsAttempt

LEMMA AttemptNext ==
  ASSUME AttemptInv, SessionInv, StateTypes, Chain!TypeOK, ChainProofs!ChainInv, [Next]_vars
  PROVE  AttemptInv'
<1> USE DEF StateTypes
<1>1. ASSUME NEW p \in Process, Finish(p) PROVE AttemptInv'
  BY <1>1, AttemptCommit DEF Finish
<1>2. ASSUME NEW r \in Process, Decide(r) PROVE AttemptInv'
  <2>1. CASE ReviewCommit(r)
    <3>1. Phase(pc[r]) # "begun" /\ Phase(pc'[r]) = "clean" /\ Alone(r)
      BY <1>2, <2>1 DEF ReviewCommit, EndSession, CloseSession, Goto, SessionTypes, Phase,
         FlushedLabels, Alone
    <3>2. QED
      BY <1>2, <2>1, <3>1, AttemptCommit DEF ReviewCommit
  <2>2. CASE ReviewRead(r) /\ ~EndSession(r)
    <3>1. /\ Phase(pc[r]) = "clean" /\ Phase(pc'[r]) = "clean"
          /\ UNCHANGED <<audit_entry, pending>> /\ Goto(r, "review_flush")
      BY <1>2, <2>2 DEF ReviewRead, Goto, SessionTypes, Phase, FlushedLabels, chainVars
    <3>2. QED
      BY <1>2, <3>1, AttemptFrame DEF Goto, SessionTypes
  <2>3. CASE UpdateDisposition(r) \/ InsertDisposition(r) \/ InsertManualSpan(r)
    <3>1. /\ Phase(pc[r]) = "clean" /\ Phase(pc'[r]) = "review_append"
          /\ UNCHANGED <<audit_entry, pending>> /\ Goto(r, "review_append")
      BY <1>2, <2>3 DEF UpdateDisposition, InsertDisposition, InsertManualSpan, Goto, SessionTypes,
         Phase, FlushedLabels, chainVars
    <3>2. QED
      BY <1>2, <3>1, AttemptFrame DEF Goto, SessionTypes
  <2>4. QED
    BY <1>2, <2>1, <2>2, <2>3 DEF Decide
<1>3. ASSUME NEW w \in Process, Work(w) PROVE AttemptInv'
  <2>1. UNCHANGED <<audit_entry, pending>> /\ \A q \in Process \ {w} : pc'[q] = pc[q]
    BY <1>3 DEF Work, DetectFlush, DetectCommit, ApplyProject, UploadRedacted, EndSession,
       CloseSession, Goto, SessionTypes, chainVars
  <2>2. \/ Phase(pc'[w]) = Phase(pc[w])
        \/ /\ Phase(pc[w]) \in {"clean", "review_append", "detect_commit"}
           /\ Phase(pc'[w]) \in {"clean", "review_append", "detect_commit"}
    BY <1>3 DEF Work, DetectFlush, DetectCommit, ApplyProject, UploadRedacted, EndSession,
       CloseSession, Goto, SessionTypes, Phase, FlushedLabels
  <2>3. QED
    BY <2>1, <2>2, AttemptFrame
<1>4. QED
  BY <1>1, <1>2, <1>3, FlushNext, AttemptStill, AttemptAppend DEF FlushStep

LEMMA AttemptInvariant == Spec => []AttemptInv
<1>1. /\ AttemptInv /\ SessionInv /\ TypeInv /\ Chain!TypeOK /\ ChainProofs!ChainInv /\ [Next]_vars
      => AttemptInv'
  BY AttemptNext DEF TypeInv
<1>2. QED
  BY <1>1, AttemptInit, PipelineInvariant, ChainTypes, ChainInvariant, PTL DEF Spec

(* The chain reads as a sequence of whole apply attempts: apply_started is   *)
(* followed at once by its own session's verdict, and no verdict stands      *)
(* alone, although attempts run concurrently, lose the race for a sequence   *)
(* number or die between the two flushes.                                    *)
THEOREM AttemptsStayWhole == Spec => []AttemptsAreWhole
<1>1. AttemptInv => AttemptsAreWhole
  BY DEF AttemptInv, Whole, IsAttempt, AttemptsAreWhole
<1>2. QED
  BY <1>1, AttemptInvariant, PTL

-----------------------------------------------------------------------------
(* Three steps of the argument are the same wherever a promise is about the  *)
(* end of the trail: an entry of a session comes after what is committed,    *)
(* numbers are unique, and so the last of some entries is the one chosen.    *)

LEMMA PendingLast ==
  ASSUME ChainProofs!ChainInv, NEW p \in Process, NEW e \in pending[p], NEW f \in audit_entry
  PROVE  f.sequence < e.sequence
<1>1. f.sequence \in Nat /\ e.sequence \in Nat \ {0}
  BY DEF ChainProofs!ChainInv, ChainProofs!TypeOK, ChainProofs!Entry
<1>2. \A g \in audit_entry : g.sequence # e.sequence
  BY DEF ChainProofs!ChainInv
<1>3. \A i \in 1 .. f.sequence : \E g \in audit_entry : g.sequence = i
  BY DEF ChainProofs!ChainInv, ChainProofs!Linked
<1>4. QED
  BY <1>1, <1>2, <1>3

LEMMA Numbered ==
  ASSUME ChainProofs!ChainInv
  PROVE  /\ \A e \in audit_entry : e.sequence \in Nat \ {0}
         /\ \A e, f \in audit_entry : e.sequence = f.sequence => e = f
BY DEF ChainProofs!ChainInv, ChainProofs!TypeOK, ChainProofs!Entry, ChainProofs!Linked

IsLast(S, e) == e \in S /\ \A f \in S : f.sequence <= e.sequence

LEMMA LastIs ==
  ASSUME ChainProofs!ChainInv, NEW S \in SUBSET audit_entry, NEW e, IsLast(S, e)
  PROVE  Chain!Last(S) = e
<1>1. \A g \in S : (\A f \in S : f.sequence <= g.sequence) => g = e
  <2>1. SUFFICES ASSUME NEW g \in S, \A f \in S : f.sequence <= g.sequence PROVE g = e
    OBVIOUS
  <2>2. e \in S /\ g.sequence <= e.sequence /\ e.sequence <= g.sequence
    BY <2>1 DEF IsLast
  <2>3. g.sequence = e.sequence
    BY <2>2, Numbered
  <2>4. QED
    BY <2>2, <2>3, Numbered
<1>2. QED
  BY <1>1 DEF Chain!Last, IsLast

-----------------------------------------------------------------------------
(* The ways a step touches a session's entries: not at all, by losing,       *)
(* committing or adding to them.                                             *)
Rest(p) ==
  /\ UNCHANGED <<audit_entry, pending>>
  /\ \/ Phase(pc'[p]) = Phase(pc[p])
     \/ {Phase(pc[p]), Phase(pc'[p])} \subseteq {"clean", "review_append", "detect_commit"}

Forget(p) ==
  /\ UNCHANGED audit_entry /\ pending' = [pending EXCEPT ![p] = {}]
  /\ Phase(pc'[p]) = "clean"

Publish(p) == Chain!Commit(p) /\ Phase(pc[p]) # "begun" /\ Phase(pc'[p]) = "clean"

EntryStep(p) ==
  /\ \A q \in Process \ {p} : pc'[q] = pc[q]
  /\ Rest(p) \/ Forget(p) \/ Publish(p) \/ InsertEntry(p)

LEMMA EntryNext ==
  ASSUME StateTypes, [Next]_vars
  PROVE  \E p \in Process : EntryStep(p)
<1> USE DEF StateTypes
<1>1. ASSUME NEW p \in Process, Still(p) \/ Lose(p) \/ Finish(p) PROVE EntryStep(p)
  <2>1. \A q \in Process \ {p} : pc'[q] = pc[q]
    BY <1>1 DEF Still, Lose, Finish, Alone
  <2>2. CASE Still(p) \/ Finish(p)
    BY <2>1, <2>2 DEF Still, Finish, EntryStep, Rest, Publish
  <2>3. CASE Lose(p)
    BY <2>1, <2>3 DEF Lose, EntryStep, Rest, Forget
  <2>4. QED
    BY <1>1, <2>2, <2>3
<1>2. ASSUME NEW r \in Process, Decide(r) PROVE EntryStep(r)
  <2>1. CASE ReviewCommit(r)
    <3>1. Phase(pc[r]) # "begun" /\ Phase(pc'[r]) = "clean" /\ Alone(r)
      BY <1>2, <2>1 DEF ReviewCommit, EndSession, CloseSession, Goto, SessionTypes, Phase,
         FlushedLabels, Alone
    <3>2. QED
      BY <2>1, <3>1 DEF ReviewCommit, Alone, EntryStep, Publish
  <2>2. CASE ReviewRead(r) /\ ~EndSession(r)
    <3>1. /\ Phase(pc[r]) = "clean" /\ Phase(pc'[r]) = "clean"
          /\ UNCHANGED <<audit_entry, pending>> /\ Goto(r, "review_flush")
      BY <1>2, <2>2 DEF ReviewRead, Goto, SessionTypes, Phase, FlushedLabels, chainVars
    <3>2. QED
      BY <3>1 DEF Goto, SessionTypes, EntryStep, Rest
  <2>3. CASE UpdateDisposition(r) \/ InsertDisposition(r) \/ InsertManualSpan(r)
    <3>1. /\ Phase(pc[r]) = "clean" /\ Phase(pc'[r]) = "review_append"
          /\ UNCHANGED <<audit_entry, pending>> /\ Goto(r, "review_append")
      BY <1>2, <2>3 DEF UpdateDisposition, InsertDisposition, InsertManualSpan, Goto, SessionTypes,
         Phase, FlushedLabels, chainVars
    <3>2. QED
      BY <3>1 DEF Goto, SessionTypes, EntryStep, Rest
  <2>4. QED
    BY <1>2, <2>1, <2>2, <2>3 DEF Decide
<1>3. ASSUME NEW w \in Process, Work(w) PROVE EntryStep(w)
  <2>1. UNCHANGED <<audit_entry, pending>> /\ \A q \in Process \ {w} : pc'[q] = pc[q]
    BY <1>3 DEF Work, DetectFlush, DetectCommit, ApplyProject, UploadRedacted, EndSession,
       CloseSession, Goto, SessionTypes, chainVars
  <2>2. \/ Phase(pc'[w]) = Phase(pc[w])
        \/ {Phase(pc[w]), Phase(pc'[w])} \subseteq {"clean", "review_append", "detect_commit"}
    BY <1>3 DEF Work, DetectFlush, DetectCommit, ApplyProject, UploadRedacted, EndSession,
       CloseSession, Goto, SessionTypes, Phase, FlushedLabels
  <2>3. QED
    BY <2>1, <2>2 DEF EntryStep, Rest
<1>4. ASSUME NEW p \in Process, InsertEntry(p) PROVE EntryStep(p)
  BY <1>4 DEF InsertEntry, Goto, SessionTypes, EntryStep
<1>5. QED
  BY <1>1, <1>2, <1>3, <1>4, FlushNext DEF FlushStep

-----------------------------------------------------------------------------
(* The status and the outcome the trail ends with.  The outcome is flushed   *)
(* by the session that commits it, and that commit sets the status.          *)

IsOutcome(e) == e.payload.action \in VerifyAction \cup {"exported"}

OutcomeOf(p) ==
  /\ \A e, f \in pending[p] : IsOutcome(e) /\ IsOutcome(f) => e = f
  /\ Phase(pc[p]) # "ending" => \A e \in pending[p] : ~IsOutcome(e)
  /\ p \in Exporter /\ Phase(pc[p]) = "ending" =>
       \E e \in pending[p] : e.payload.action = "exported"

OutcomesPending == \A p \in Process : OutcomeOf(p)

EndsWith(action) == \E e : IsLast(Outcomes, e) /\ e.payload.action = action

OutcomeInv ==
  /\ OutcomesPending
  /\ job.status = "verified" => EndsWith("verify_passed")
  /\ job.status = "exported" => EndsWith("exported")

LEMMA OutcomeInit == Init => OutcomeInv
BY DEF Init, Chain!Init, OutcomeInv, OutcomesPending, OutcomeOf, Phase, FlushedLabels, NoJob

LEMMA OutcomeFrame ==
  ASSUME NEW p \in Process, OutcomeOf(p), pending'[p] = pending[p],
         Phase(pc'[p]) = "ending" <=> Phase(pc[p]) = "ending"
  PROVE  OutcomeOf(p)'
BY DEF OutcomeOf, IsOutcome

LEMMA OutcomeAppend ==
  ASSUME OutcomesPending, SessionInv, SessionTypes, Chain!TypeOK, NEW p \in Process, InsertEntry(p)
  PROVE  OutcomeOf(p)'
<1> DEFINE n == Chain!NewEntry(p, EventOf(p))
<1>1. /\ pending'[p] = pending[p] \cup {n}
      /\ pc'[p] = AfterAppend(p)
      /\ pc[p] \in AppendLabels
      /\ n.payload = EventOf(p)
  BY DEF InsertEntry, Chain!Insert, Chain!NewEntry, Chain!TypeOK, Goto, SessionTypes
<1>2. Phase(pc[p]) # "ending"
  BY <1>1 DEF AppendLabels, Phase, FlushedLabels
<1>3. \A e \in pending[p] : ~IsOutcome(e)
  BY <1>2 DEF OutcomesPending, OutcomeOf
<1>4. Phase(pc'[p]) # "ending" => ~IsOutcome(n)
  <2>1. Phase(pc'[p]) # "ending" => pc[p] \in {"review_append", "started_append"}
    BY <1>1 DEF AppendLabels, AfterAppend, Phase
  <2>2. QED
    BY <1>1, <2>1, EventKind, EventAction DEF IsOutcome
<1>5. p \in Exporter /\ Phase(pc'[p]) = "ending" => n.payload.action = "exported"
  <2>1. Phase(pc'[p]) = "ending" => pc[p] \in {"export_append", "verdict_append"}
    BY <1>1 DEF AppendLabels, AfterAppend, Phase, FlushedLabels
  <2>2. pc[p] = "verdict_append" => p \notin Exporter
    BY ConstantsAssumption DEF SessionInv, Audits, Request
  <2>3. pc[p] = "export_append" => EventOf(p).action = "exported"
    BY DEF EventOf
  <2>4. QED
    BY <1>1, <2>1, <2>2, <2>3
<1>6. pending'[p] = pending[p] \cup {n} /\ n \in pending'[p]
  BY <1>1
<1> HIDE DEF n
<1>7. QED
  BY <1>3, <1>4, <1>5, <1>6 DEF OutcomeOf, IsOutcome

LEMMA OutcomesPendingNext ==
  ASSUME OutcomesPending, SessionInv, StateTypes, Chain!TypeOK, [Next]_vars
  PROVE  OutcomesPending'
<1>1. PICK p \in Process : EntryStep(p)
  BY EntryNext
<1>2. \A q \in Process \ {p} : pc'[q] = pc[q] /\ pending'[q] = pending[q]
  BY <1>1 DEF EntryStep, Rest, Forget, Publish, InsertEntry, Chain!Insert, Chain!Commit, Chain!TypeOK
<1>3. \A q \in Process \ {p} : OutcomeOf(q)'
  BY <1>2, OutcomeFrame DEF OutcomesPending
<1>4. OutcomeOf(p)'
  <2>1. CASE Rest(p)
    <3>1. Phase(pc'[p]) = "ending" <=> Phase(pc[p]) = "ending"
      BY <2>1 DEF Rest
    <3>2. QED
      BY <2>1, <3>1, OutcomeFrame DEF OutcomesPending, Rest
  <2>2. CASE Forget(p) \/ Publish(p)
    <3>1. pending'[p] = {} /\ Phase(pc'[p]) = "clean"
      BY <2>2 DEF Forget, Publish, Chain!Commit, Chain!TypeOK
    <3>2. QED
      BY <3>1 DEF OutcomeOf
  <2>3. CASE InsertEntry(p)
    BY <2>3, OutcomeAppend DEF StateTypes
  <2>4. QED
    BY <1>1, <2>1, <2>2, <2>3 DEF EntryStep
<1>5. QED
  BY <1>3, <1>4 DEF OutcomesPending

(* What a step does to the status and the committed entries.                 *)
LEMMA StatusNext ==
  ASSUME StateTypes, [Next]_vars
  PROVE  \/ \E w \in Worker : VerifiedCommit(w)
         \/ \E e \in Exporter : ExportCommit(e)
         \/ job'.status \notin {"verified", "exported"}
         \/ /\ job'.status = job.status
            /\ UNCHANGED audit_entry \/ \E r \in Reviewer : ReviewCommit(r)
<1> DEFINE Kept == /\ job'.status = job.status
                   /\ UNCHANGED audit_entry \/ \E r \in Reviewer : ReviewCommit(r)
           Other == job'.status \notin {"verified", "exported"}
<1> USE DEF rowVars, chainVars, StateTypes, RowTypes, JobRow
<1>1. ASSUME NEW p \in Process, AuditAppend(p) PROVE Kept
  BY <1>1 DEF AuditAppend, ReadChainLink, InsertEntry, LoseSequence, Chain!ReadLink, Chain!Insert,
     Chain!Conflict, Chain!Rollback
<1>2. ASSUME NEW r \in Reviewer, ReviewLoad(r) \/ ReviewStep(r) PROVE Kept
  BY <1>1, <1>2 DEF Process, Request, ReviewLoad, ReviewStep, ReviewRead, UpdateDisposition,
     InsertDisposition, InsertManualSpan, LoseUniqueRow, ReviewCommit
<1>3. ASSUME NEW a \in Applier, ApplyLoad(a) \/ ApplyStep(a) PROVE Kept \/ Other
  BY <1>3 DEF ApplyLoad, ApplyStep, ApplyCount, ApplyCommit, Kiq, SetStatus
<1>4. ASSUME NEW e \in Exporter, ExportLoad(e) \/ ExportStep(e), ~ExportCommit(e) PROVE Kept
  BY <1>1, <1>4 DEF Process, Request, ExportLoad, ExportStep, ExportVerify, ExportAssemble,
     ExportUpload
<1>5. ASSUME NEW w \in Worker, WorkerStep(w), ~VerifiedCommit(w) PROVE Kept \/ Other
  <2>1. CASE IngestCommit(w) \/ DetectCommit(w) \/ FailedCommit(w) \/ FailCommit(w)
    BY <2>1 DEF IngestCommit, DetectCommit, FailedCommit, FailCommit, SetStatus
  <2>2. CASE AuditAppend(w)
    BY <1>1, <2>2 DEF Process
  <2>3. CASE \/ Deliver(w) \/ IngestReject(w) \/ Kiq(w) \/ DetectRead(w) \/ DetectFlush(w)
             \/ DetectLosePage(w) \/ ApplyProject(w) \/ Burn(w) \/ UploadRedacted(w)
             \/ FailLoad(w) \/ Acknowledge(w)
    BY <2>3 DEF Deliver, IngestReject, Kiq, DetectRead, DetectFlush, DetectLosePage, ApplyProject,
       Burn, UploadRedacted, FailLoad, Acknowledge
  <2>4. QED
    BY <1>5, <2>1, <2>2, <2>3 DEF WorkerStep
<1>6. CASE FaultStep
  BY <1>6 DEF FaultStep, Error, Crash, Redeliver, LoseHandoff, FailJobRaises, Chain!Rollback
<1>7. CASE CreateJob \/ Kiq(Creator) \/ UNCHANGED vars
  BY <1>7 DEF CreateJob, Kiq, vars
<1>8. QED
  BY <1>2, <1>3, <1>4, <1>5, <1>6, <1>7 DEF Next

(* The outcome a session commits is the last of the trail.                   *)
LEMMA OutcomeCommitted ==
  ASSUME OutcomesPending, ChainProofs!ChainInv, NEW p \in Process, Chain!Commit(p),
         NEW e \in pending[p], IsOutcome(e)
  PROVE  IsLast(Outcomes', e)
<1>1. audit_entry' = audit_entry \cup pending[p]
  BY DEF Chain!Commit
<1>2. \A f \in pending[p] : IsOutcome(f) => f = e
  BY DEF OutcomesPending, OutcomeOf
<1>3. e \in Outcomes' /\ \A f \in Outcomes' : f = e \/ f \in audit_entry
  BY <1>1, <1>2 DEF Outcomes, IsOutcome
<1>4. e.sequence \in Nat /\ \A f \in audit_entry : f.sequence \in Nat
  BY DEF ChainProofs!ChainInv, ChainProofs!TypeOK, ChainProofs!Entry
<1>5. \A f \in audit_entry : f.sequence < e.sequence
  BY PendingLast
<1>6. QED
  BY <1>3, <1>4, <1>5 DEF IsLast

LEMMA OutcomeNext ==
  ASSUME OutcomeInv, VerifiedInv, SessionInv, StateTypes, Chain!TypeOK, ChainProofs!ChainInv,
         [Next]_vars
  PROVE  OutcomeInv'
<1>1. OutcomesPending /\ OutcomesPending'
  BY OutcomesPendingNext DEF OutcomeInv
<1>2. CASE \E w \in Worker : VerifiedCommit(w)
  <2>1. PICK w \in Worker : VerifiedCommit(w)
    BY <1>2
  <2>2. w \in Process /\ Chain!Commit(w) /\ pc[w] = "verified_commit"
    BY <2>1 DEF Process, VerifiedCommit
  <2>3. PICK e \in pending[w] : e.payload.action = "verify_passed"
    BY <2>2 DEF VerifiedInv, PassedLabels, Passed
  <2>4. IsLast(Outcomes', e)
    BY <1>1, <2>2, <2>3, OutcomeCommitted DEF IsOutcome, VerifyAction
  <2>5. job'.status = "verified"
    BY <2>1 DEF VerifiedCommit, StateTypes, RowTypes, JobRow
  <2>6. EndsWith("verify_passed")'
    BY <2>3, <2>4 DEF EndsWith
  <2>7. QED
    BY <1>1, <2>5, <2>6 DEF OutcomeInv
<1>3. CASE \E x \in Exporter : ExportCommit(x)
  <2>1. PICK x \in Exporter : ExportCommit(x)
    BY <1>3
  <2>2. x \in Process /\ Chain!Commit(x) /\ Phase(pc[x]) = "ending"
    BY <2>1 DEF Process, Request, ExportCommit, Phase
  <2>3. PICK e \in pending[x] : e.payload.action = "exported"
    BY <1>1, <2>2 DEF OutcomesPending, OutcomeOf
  <2>4. IsLast(Outcomes', e)
    BY <1>1, <2>2, <2>3, OutcomeCommitted DEF IsOutcome
  <2>5. job'.status = "exported"
    BY <2>1 DEF ExportCommit, SetStatus, StateTypes, RowTypes, JobRow
  <2>6. EndsWith("exported")'
    BY <2>3, <2>4 DEF EndsWith
  <2>7. QED
    BY <1>1, <2>5, <2>6 DEF OutcomeInv
<1>4. CASE job'.status \notin {"verified", "exported"}
  BY <1>1, <1>4 DEF OutcomeInv
<1>5. CASE /\ job'.status = job.status
           /\ UNCHANGED audit_entry \/ \E r \in Reviewer : ReviewCommit(r)
  <2>1. UNCHANGED audit_entry => Outcomes' = Outcomes
    BY DEF Outcomes
  <2>2. ASSUME NEW r \in Reviewer, ReviewCommit(r) PROVE Outcomes' = Outcomes
    <3>1. r \in Process /\ Phase(pc[r]) # "ending" /\ audit_entry' = audit_entry \cup pending[r]
      BY <2>2 DEF Process, Request, ReviewCommit, Phase, FlushedLabels, Chain!Commit
    <3>2. \A e \in pending[r] : ~IsOutcome(e)
      BY <1>1, <3>1 DEF OutcomesPending, OutcomeOf
    <3>3. QED
      BY <3>1, <3>2 DEF Outcomes, IsOutcome
  <2>3. Outcomes' = Outcomes
    BY <1>5, <2>1, <2>2
  <2>4. \A action : EndsWith(action) => EndsWith(action)'
    BY <2>3 DEF EndsWith, IsLast
  <2>5. QED
    BY <1>1, <1>5, <2>4 DEF OutcomeInv
<1>6. QED
  BY <1>2, <1>3, <1>4, <1>5, StatusNext

(* However applies and exports overlap, and although each of them overwrites *)
(* the status from a stale copy of the job: a job at verified or exported    *)
(* has the outcome its trail ends with.                                      *)
THEOREM StatusTellsTrail == Spec => []StatusIsTold
<1>1. /\ OutcomeInv /\ VerifiedInv /\ SessionInv /\ TypeInv /\ Chain!TypeOK
      /\ ChainProofs!ChainInv /\ [Next]_vars
      => OutcomeInv'
  BY OutcomeNext DEF TypeInv
<1>2. OutcomeInv /\ ChainProofs!ChainInv => StatusIsTold
  <2>1. ASSUME ChainProofs!ChainInv, NEW action, EndsWith(action)
        PROVE  Outcomes # {} /\ Chain!Last(Outcomes).payload.action = action
    <3>1. PICK e : IsLast(Outcomes, e) /\ e.payload.action = action
      BY <2>1 DEF EndsWith
    <3>2. Outcomes \in SUBSET audit_entry
      BY DEF Outcomes
    <3>3. Chain!Last(Outcomes) = e
      BY <2>1, <3>1, <3>2, LastIs
    <3>4. QED
      BY <3>1, <3>3 DEF IsLast
  <2>2. QED
    BY <2>1 DEF OutcomeInv, StatusIsTold, StatusTold
<1>3. QED
  BY <1>1, <1>2, OutcomeInit, VerifiedInvariant, PipelineInvariant, ChainTypes, ChainInvariant,
     PTL DEF Spec

-----------------------------------------------------------------------------
(* The manifest: its session reads the trail twice and stores it later,      *)
(* while other sessions append to the trail and store manifests of their own.*)

(* n entries of the trail include a passed verdict.                          *)
CountsPassed(n) ==
  \E f \in audit_entry : f.payload.action = "verify_passed" /\ f.sequence <= n

ManifestOf(p) ==
  /\ pc[p] \in {"export_assemble", "export_upload"} =>
       /\ local[p].entry_count <= Cardinality(audit_entry)
       /\ CountsPassed(local[p].entry_count)
  /\ pc[p] = "export_upload" =>
       /\ local[p].entry_count <= local[p].listed
       /\ local[p].listed <= Cardinality(audit_entry)
  /\ pc[p] \in {"export_append", "export_commit"} => manifest.stored
  /\ \A e \in pending[p] : e.payload.action = "exported" => manifest.stored

ManifestInv ==
  /\ \A p \in Process : ManifestOf(p)
  /\ ManifestIsBacked

LEMMA ManifestInit == Init => ManifestInv
BY DEF Init, Chain!Init, ManifestInv, ManifestOf, ManifestIsBacked

(* The entries are numbered from 1 without a gap, so none has a number above *)
(* their count.                                                              *)
LEMMA NumberedUpToCount ==
  ASSUME ChainProofs!ChainInv, ChainIsFinite, NEW f \in audit_entry
  PROVE  f.sequence <= Cardinality(audit_entry)
<1> DEFINE n == f.sequence
           EntryAt == [i \in 1 .. n |-> CHOOSE e \in audit_entry : e.sequence = i]
<1>1. n \in Nat \ {0}
  BY Numbered
<1>2. \A i \in 1 .. n : \E e \in audit_entry : e.sequence = i
  BY DEF ChainProofs!ChainInv, ChainProofs!Linked
<1>3. \A i \in 1 .. n : EntryAt[i] \in audit_entry /\ EntryAt[i].sequence = i
  BY <1>2
<1>4. EntryAt \in Injection(1 .. n, audit_entry)
  BY <1>3 DEF Injection, IsInjective
<1>5. Cardinality(1 .. n) <= Cardinality(audit_entry)
  BY <1>4, FS_Injection DEF ChainIsFinite
<1>6. Cardinality(1 .. n) = n
  BY <1>1, FS_Interval
<1>7. QED
  BY <1>5, <1>6

(* The trail only grows, and so does its count.                              *)
LEMMA TrailGrows ==
  ASSUME VerdictStep, ChainIsFinite, ChainIsFinite'
  PROVE  /\ audit_entry \subseteq audit_entry'
         /\ Cardinality(audit_entry) \in Nat /\ Cardinality(audit_entry') \in Nat
         /\ Cardinality(audit_entry) <= Cardinality(audit_entry')
<1>1. audit_entry \subseteq audit_entry'
  BY DEF VerdictStep, Quiet, Drops, Commits, Appends, InsertEntry, Chain!Insert, Chain!Rollback,
     Chain!Commit
<1>2. IsFiniteSet(audit_entry) /\ IsFiniteSet(audit_entry')
  BY DEF ChainIsFinite
<1>3. QED
  BY <1>1, <1>2, FS_Subset, FS_CardinalityType

(* The ways a step touches what an export keeps: its own, or not at all.     *)
ManifestLabels == {"export_assemble", "export_upload", "export_append", "export_commit"}

Elsewhere(p) ==
  /\ UNCHANGED manifest
  /\ \A q \in Process \ {p} : pc'[q] = pc[q] /\ local'[q] = local[q]
  /\ pc'[p] \in ManifestLabels => pc'[p] = pc[p] /\ local'[p] = local[p]

ManifestStep ==
  \/ \E e \in Exporter : ExportVerify(e) \/ ExportAssemble(e) \/ ExportUpload(e)
  \/ \E p \in Process : InsertEntry(p) \/ Elsewhere(p)

LEMMA ElsewhereMove ==
  ASSUME SessionTypes, NEW p \in Process, NEW label, Goto(p, label), label \notin ManifestLabels,
         UNCHANGED manifest, \A q \in Process \ {p} : local'[q] = local[q]
  PROVE  Elsewhere(p)
BY DEF SessionTypes, Goto, Elsewhere

LEMMA ElsewhereEnd ==
  ASSUME SessionTypes, NEW p \in Process, UNCHANGED manifest,
         EndSession(p) \/ CloseSession(p, "idle") \/ AfterRollback(p)
  PROVE  Elsewhere(p)
BY DEF SessionTypes, EndSession, CloseSession, AfterRollback, Goto, Elsewhere, ManifestLabels

LEMMA ManifestReview ==
  ASSUME SessionTypes, NEW r \in Reviewer, ReviewLoad(r) \/ ReviewStep(r)
  PROVE  ManifestStep
<1> USE DEF objectVars, procVars, ManifestStep, ManifestLabels
<1>1. r \in Process
  BY DEF Process, Request
<1>2. CASE ReviewLoad(r) \/ ReviewRead(r)
  <2>1. EndSession(r) \/ Goto(r, "review") \/ Goto(r, "review_flush")
    BY <1>2 DEF ReviewLoad, ReviewRead
  <2>2. EndSession(r) \/ \A q \in Process \ {r} : local'[q] = local[q]
    BY <1>2 DEF ReviewLoad, ReviewRead, SessionTypes
  <2>3. UNCHANGED manifest
    BY <1>2 DEF ReviewLoad, ReviewRead
  <2>4. QED
    BY <1>1, <2>1, <2>2, <2>3, ElsewhereMove, ElsewhereEnd
<1>3. CASE UpdateDisposition(r) \/ InsertDisposition(r) \/ InsertManualSpan(r)
  BY <1>1, <1>3, ElsewhereMove DEF UpdateDisposition, InsertDisposition, InsertManualSpan
<1>4. CASE LoseUniqueRow(r) \/ ReviewCommit(r)
  BY <1>1, <1>4, ElsewhereEnd DEF LoseUniqueRow, ReviewCommit
<1>5. CASE AuditAppend(r)
  BY <1>1, <1>5, ElsewhereEnd DEF AuditAppend, ReadChainLink, LoseSequence, Elsewhere
<1>6. QED
  BY <1>2, <1>3, <1>4, <1>5 DEF ReviewStep

LEMMA ManifestApplyExport ==
  ASSUME SessionTypes, \/ \E a \in Applier : ApplyLoad(a) \/ ApplyStep(a)
                       \/ \E e \in Exporter : ExportLoad(e) \/ ExportStep(e)
  PROVE  ManifestStep
<1> USE DEF objectVars, procVars, ManifestStep, ManifestLabels
<1>1. ASSUME NEW a \in Applier, ApplyLoad(a) \/ ApplyStep(a) PROVE ManifestStep
  <2>1. a \in Process
    BY DEF Process, Request
  <2>2. UNCHANGED manifest
    BY <1>1 DEF ApplyLoad, ApplyStep, ApplyCount, ApplyCommit, Kiq
  <2>3. \/ EndSession(a)
        \/ \E label \in {"apply_count", "apply_commit", "enqueue_apply"} :
             Goto(a, label) /\ UNCHANGED local
    BY <1>1 DEF ApplyLoad, ApplyStep, ApplyCount, ApplyCommit, Kiq
  <2>4. QED
    BY <2>1, <2>2, <2>3, ElsewhereMove, ElsewhereEnd
<1>2. ASSUME NEW e \in Exporter, ExportLoad(e) \/ ExportStep(e) PROVE ManifestStep
  <2>1. e \in Process
    BY DEF Process, Request
  <2>2. CASE ExportLoad(e)
    BY <2>1, <2>2, ElsewhereMove, ElsewhereEnd DEF ExportLoad
  <2>3. CASE ExportCommit(e)
    BY <2>1, <2>3, ElsewhereEnd DEF ExportCommit
  <2>4. CASE AuditAppend(e)
    BY <2>1, <2>4, ElsewhereEnd DEF AuditAppend, ReadChainLink, LoseSequence, Elsewhere
  <2>5. QED
    BY <1>2, <2>2, <2>3, <2>4 DEF ExportStep
<1>3. QED
  BY <1>1, <1>2

LEMMA ManifestWorker ==
  ASSUME QueueTypes, SessionTypes, NEW w \in Worker, WorkerStep(w)
  PROVE  ManifestStep
<1> USE DEF objectVars, procVars, ManifestStep, ManifestLabels
<1>1. w \in Process
  BY DEF Process
<1>2. CASE Deliver(w)
  <2>1. \A m \in queue : FirstLabel[m.task] \notin ManifestLabels
    BY DEF QueueTypes, Message, FirstLabel
  <2>2. UNCHANGED pc \/ \E m \in queue : Goto(w, FirstLabel[m.task])
    BY <1>2 DEF Deliver
  <2>3. UNCHANGED <<manifest, local>>
    BY <1>2 DEF Deliver
  <2>4. CASE UNCHANGED pc
    BY <1>1, <2>3, <2>4 DEF Elsewhere
  <2>5. QED
    BY <1>1, <2>1, <2>2, <2>3, <2>4, ElsewhereMove
<1>3. CASE \/ IngestCommit(w) \/ IngestReject(w) \/ DetectFlush(w) \/ UploadRedacted(w)
           \/ Acknowledge(w)
  BY <1>1, <1>3, ElsewhereMove DEF IngestCommit, IngestReject, DetectFlush, UploadRedacted, Acknowledge
<1>4. CASE \/ Kiq(w) \/ DetectLosePage(w) \/ DetectCommit(w) \/ FailCommit(w)
           \/ VerifiedCommit(w) \/ FailedCommit(w)
  BY <1>1, <1>4, ElsewhereEnd DEF Kiq, DetectLosePage, DetectCommit, FailCommit, VerifiedCommit,
     FailedCommit
<1>5. CASE FailLoad(w)
  BY <1>1, <1>5, ElsewhereMove, ElsewhereEnd DEF FailLoad
<1>6. CASE DetectRead(w) \/ ApplyProject(w) \/ Burn(w)
  <2>1. \A q \in Process \ {w} : local'[q] = local[q]
    BY <1>1, <1>6 DEF DetectRead, ApplyProject, Burn, SessionTypes
  <2>2. UNCHANGED manifest
    BY <1>6 DEF DetectRead, ApplyProject, Burn
  <2>3. Goto(w, "detect_flush") \/ Goto(w, "started_append") \/ Goto(w, "verdict_append")
    BY <1>6 DEF DetectRead, ApplyProject, Burn
  <2>4. QED
    BY <1>1, <2>1, <2>2, <2>3, ElsewhereMove
<1>7. CASE AuditAppend(w)
  BY <1>1, <1>7, ElsewhereEnd DEF AuditAppend, ReadChainLink, LoseSequence, Elsewhere
<1>8. QED
  BY <1>2, <1>3, <1>4, <1>5, <1>6, <1>7 DEF WorkerStep

LEMMA ManifestSteps ==
  ASSUME StateTypes, [Next]_vars
  PROVE  ManifestStep
<1> USE DEF objectVars, procVars, ManifestStep, ManifestLabels, StateTypes
<1>1. Creator \in Process
  BY DEF Process, Request
<1>2. CASE CreateJob
  BY <1>1, <1>2, ElsewhereMove DEF CreateJob
<1>3. CASE Kiq(Creator)
  BY <1>1, <1>3, ElsewhereEnd DEF Kiq
<1>4. ASSUME NEW p \in Process, Error(p) \/ LoseHandoff(p) PROVE ManifestStep
  BY <1>4, ElsewhereEnd DEF Error, LoseHandoff
<1>5. ASSUME NEW w \in Worker, Crash(w) \/ Redeliver(w) \/ FailJobRaises(w) PROVE ManifestStep
  <2>1. w \in Process
    BY DEF Process
  <2>2. CASE Redeliver(w)
    BY <2>1, <2>2 DEF Redeliver, Elsewhere
  <2>3. QED
    BY <1>5, <2>1, <2>2, ElsewhereEnd DEF Crash, FailJobRaises
<1>6. CASE UNCHANGED vars
  BY <1>1, <1>6 DEF vars, Elsewhere
<1>7. QED
  BY <1>2, <1>3, <1>4, <1>5, <1>6, ManifestReview, ManifestApplyExport, ManifestWorker
  DEF Next, FaultStep

(* What is said of the trail outlives its growth.                            *)
LEMMA ManifestElsewhere ==
  ASSUME ManifestInv, SessionInv, StateTypes, Chain!TypeOK, VerdictStep, ChainIsFinite,
         ChainIsFinite', NEW p \in Process, Elsewhere(p), \A q \in Process : ~InsertEntry(q)
  PROVE  ManifestInv'
<1>1. /\ audit_entry \subseteq audit_entry'
      /\ Cardinality(audit_entry) \in Nat /\ Cardinality(audit_entry') \in Nat
      /\ Cardinality(audit_entry) <= Cardinality(audit_entry')
  BY TrailGrows
<1>2. \A n : CountsPassed(n) => CountsPassed(n)'
  BY <1>1 DEF CountsPassed
<1>3. \A n \in Nat : n <= Cardinality(audit_entry) => n <= Cardinality(audit_entry')
  BY <1>1
<1>4. /\ \A q \in Process : pending'[q] \subseteq pending[q]
      /\ \A e \in audit_entry' : e \in audit_entry \/ \E q \in Process : e \in pending[q]
  BY DEF VerdictStep, Quiet, Drops, Commits, Appends, Chain!Rollback, Chain!Commit, Chain!TypeOK
<1>5. \A q \in Process : local[q].entry_count \in Nat /\ local[q].listed \in Nat
  BY DEF StateTypes, SessionTypes, Local
<1>6. manifest.entry_count \in Nat /\ manifest.listed \in Nat /\ manifest' = manifest
  BY DEF StateTypes, ObjectTypes, Elsewhere
<1>7. ASSUME NEW q \in Process PROVE ManifestOf(q)'
  <2>1. ManifestOf(q)
    BY DEF ManifestInv
  <2>2. pc'[q] \in ManifestLabels => pc'[q] = pc[q] /\ local'[q] = local[q]
    BY DEF Elsewhere
  <2>3. CASE pc'[q] \notin ManifestLabels
    BY <1>4, <1>6, <2>1, <2>3 DEF ManifestOf, ManifestLabels
  <2>4. CASE pc'[q] \in ManifestLabels
    BY <1>2, <1>3, <1>4, <1>5, <1>6, <2>1, <2>2, <2>4 DEF ManifestOf
  <2>5. QED
    BY <2>3, <2>4
<1>8. ManifestIsBacked'
  <2>1. (\E e \in audit_entry' : e.payload.action = "exported") => manifest'.stored
    BY <1>4, <1>6 DEF ManifestInv, ManifestOf, ManifestIsBacked
  <2>2. manifest.stored =>
          /\ manifest.entry_count <= manifest.listed
          /\ manifest.listed <= Cardinality(audit_entry)
          /\ CountsPassed(manifest.entry_count)
    BY DEF ManifestInv, ManifestIsBacked, CountsPassed
  <2>3. QED
    BY <1>2, <1>3, <1>6, <2>1, <2>2 DEF ManifestIsBacked, CountsPassed
<1>9. QED
  BY <1>7, <1>8 DEF ManifestInv

(* A session that is not the one that steps.                                 *)
LEMMA ManifestOther ==
  ASSUME ManifestInv, NEW q \in Process, UNCHANGED <<audit_entry, pending>>, pc'[q] = pc[q],
         local'[q] = local[q], manifest.stored => manifest'.stored
  PROVE  ManifestOf(q)'
BY DEF ManifestInv, ManifestOf, CountsPassed

(* The count of AuditChain is the count of this module.                      *)
LEMMA SameCount == Chain!verify_audit_chain(audit_entry).entry_count = Cardinality(audit_entry)
BY DEF Chain!verify_audit_chain, Chain!Cardinality, Cardinality

LEMMA ManifestVerify ==
  ASSUME ManifestInv, ArtifactInv, VerifiedInv, StateTypes, ChainProofs!ChainInv, ChainIsFinite,
         NEW x \in Exporter, ExportVerify(x) \/ ExportAssemble(x)
  PROVE  ManifestInv'
<1>1. x \in Process
  BY DEF Process, Request
<1>2. /\ UNCHANGED <<audit_entry, pending, manifest>>
      /\ \A q \in Process \ {x} : pc'[q] = pc[q] /\ local'[q] = local[q]
  BY DEF ExportVerify, ExportAssemble, EndSession, CloseSession, Goto, StateTypes, SessionTypes,
     chainVars, objectVars
<1>3. \A q \in Process \ {x} : ManifestOf(q)'
  BY <1>2, ManifestOther
<1>4. ManifestIsBacked'
  BY <1>2 DEF ManifestInv, ManifestIsBacked
<1>5. \A e \in pending'[x] : e.payload.action = "exported" => manifest'.stored
  BY <1>1, <1>2 DEF ManifestInv, ManifestOf
<1>6. Cardinality(audit_entry) \in Nat
  BY FS_CardinalityType DEF ChainIsFinite
<1>7. ManifestOf(x)'
  <2>1. CASE EndSession(x)
    BY <1>1, <1>5, <2>1 DEF EndSession, CloseSession, Goto, StateTypes, SessionTypes, ManifestOf
  <2>2. CASE ExportVerify(x) /\ ~EndSession(x)
    <3>1. /\ local'[x].entry_count = Cardinality(audit_entry)
          /\ pc'[x] = "export_assemble"
          /\ pc[x] = "export_verify"
      BY <1>1, <2>2, SameCount DEF ExportVerify, Goto, StateTypes, SessionTypes, Local
    <3>2. PICK f \in audit_entry : f.payload.action = "verify_passed"
      BY <1>1, <3>1 DEF ArtifactInv, ExportLabels, VerifiedInv, Passed
    <3>3. f.sequence <= Cardinality(audit_entry)
      BY NumberedUpToCount
    <3>4. QED
      BY <1>2, <1>5, <1>6, <3>1, <3>2, <3>3 DEF ManifestOf, CountsPassed
  <2>3. CASE ExportAssemble(x) /\ ~EndSession(x)
    <3>1. /\ local'[x].entry_count = local[x].entry_count
          /\ local'[x].listed = Cardinality(audit_entry)
          /\ pc'[x] = "export_upload"
          /\ pc[x] = "export_assemble"
      BY <1>1, <2>3 DEF ExportAssemble, Goto, StateTypes, SessionTypes, Local
    <3>2. /\ local[x].entry_count <= Cardinality(audit_entry)
          /\ CountsPassed(local[x].entry_count)
      BY <1>1, <3>1 DEF ManifestInv, ManifestOf
    <3>3. QED
      BY <1>2, <1>5, <1>6, <3>1, <3>2 DEF ManifestOf, CountsPassed
  <2>4. QED
    BY <2>1, <2>2, <2>3
<1>8. QED
  BY <1>3, <1>4, <1>7 DEF ManifestInv

LEMMA ManifestUpload ==
  ASSUME ManifestInv, StateTypes, NEW x \in Exporter, ExportUpload(x)
  PROVE  ManifestInv'
<1>1. x \in Process /\ pc[x] = "export_upload"
  BY DEF Process, Request, ExportUpload
<1>2. /\ UNCHANGED <<audit_entry, pending>>
      /\ \A q \in Process \ {x} : pc'[q] = pc[q] /\ local'[q] = local[q]
      /\ manifest' = [stored |-> TRUE, entry_count |-> local[x].entry_count,
                      listed |-> local[x].listed]
      /\ pc'[x] \in {"export_append", "done", "ack"}
  BY <1>1 DEF ExportUpload, EndSession, CloseSession, Goto, StateTypes, SessionTypes, chainVars
<1>3. \A q \in Process \ {x} : ManifestOf(q)'
  BY <1>2, ManifestOther
<1>4. ManifestOf(x)'
  BY <1>2 DEF ManifestOf
<1>5. /\ local[x].entry_count <= local[x].listed
      /\ local[x].listed <= Cardinality(audit_entry)
      /\ CountsPassed(local[x].entry_count)
  BY <1>1 DEF ManifestInv, ManifestOf
<1>6. ManifestIsBacked'
  BY <1>2, <1>5 DEF ManifestIsBacked, CountsPassed
<1>7. QED
  BY <1>3, <1>4, <1>6 DEF ManifestInv

LEMMA ManifestAppend ==
  ASSUME ManifestInv, SessionInv, StateTypes, Chain!TypeOK, NEW p \in Process, InsertEntry(p)
  PROVE  ManifestInv'
<1> DEFINE n == Chain!NewEntry(p, EventOf(p))
<1>1. /\ pending'[p] = pending[p] \cup {n}
      /\ \A q \in Process \ {p} : pending'[q] = pending[q] /\ pc'[q] = pc[q]
      /\ pc'[p] = AfterAppend(p)
      /\ pc[p] \in AppendLabels
      /\ n.payload = EventOf(p)
      /\ UNCHANGED <<audit_entry, local, manifest>>
  BY DEF InsertEntry, Chain!Insert, Chain!NewEntry, Chain!TypeOK, Goto, StateTypes, SessionTypes,
     objectVars
<1>2. n.payload.action = "exported" => manifest.stored
  BY <1>1, EventAction DEF ManifestInv, ManifestOf
<1>3. pc'[p] = "export_commit" => manifest.stored
  BY <1>1, AfterAppendLabel DEF ManifestInv, ManifestOf
<1>4. pc'[p] \notin {"export_assemble", "export_upload", "export_append"}
  BY <1>1, AfterAppendLabel
<1>5. \A e \in pending'[p] : e.payload.action = "exported" => manifest.stored
  BY <1>1, <1>2 DEF ManifestInv, ManifestOf
<1>6. ManifestOf(p)'
  BY <1>1, <1>3, <1>4, <1>5 DEF ManifestOf
<1>7. \A q \in Process \ {p} : ManifestOf(q)'
  BY <1>1 DEF ManifestInv, ManifestOf, CountsPassed
<1>8. ManifestIsBacked'
  BY <1>1 DEF ManifestInv, ManifestIsBacked
<1>9. QED
  BY <1>6, <1>7, <1>8 DEF ManifestInv

LEMMA ManifestNext ==
  ASSUME ManifestInv, ArtifactInv, VerifiedInv, SessionInv, TypeInv, TypeInv', Chain!TypeOK,
         ChainProofs!ChainInv, [Next]_vars
  PROVE  ManifestInv'
<1>1. StateTypes /\ ChainIsFinite /\ ChainIsFinite'
  BY DEF TypeInv
<1>2. CASE \E p \in Process : InsertEntry(p)
  BY <1>1, <1>2, ManifestAppend
<1>3. CASE \E e \in Exporter : ExportVerify(e) \/ ExportAssemble(e) \/ ExportUpload(e)
  BY <1>1, <1>3, ManifestVerify, ManifestUpload
<1>4. CASE (\A q \in Process : ~InsertEntry(q)) /\ \E p \in Process : Elsewhere(p)
  BY <1>1, <1>4, VerdictNext, ManifestElsewhere
<1>5. QED
  BY <1>1, <1>2, <1>3, <1>4, ManifestSteps DEF ManifestStep

(* Whichever of the overlapping exports stored the manifest last, and        *)
(* whatever was appended since it read the trail: the manifest lists every   *)
(* entry it counts and none that is not committed, and counts a passed       *)
(* verdict; and no exported entry is without a manifest.                     *)
THEOREM ManifestsAreBacked == Spec => []ManifestIsBacked
<1>1. /\ TypeInv /\ SessionInv /\ Chain!TypeOK /\ [Next]_vars
      => TypeInv'
  BY TypesNext
<1>2. /\ ManifestInv /\ ArtifactInv /\ VerifiedInv /\ SessionInv /\ TypeInv /\ TypeInv'
      /\ Chain!TypeOK /\ ChainProofs!ChainInv /\ [Next]_vars
      => ManifestInv'
  BY ManifestNext
<1>3. ManifestInv => ManifestIsBacked
  BY DEF ManifestInv
<1>4. QED
  BY <1>1, <1>2, <1>3, ManifestInit, VerifiedInvariant, PipelineInvariant, ChainTypes,
     ChainInvariant, PTL DEF Spec

-----------------------------------------------------------------------------
(* A disposition and the entries that tell how it came about.  What a        *)
(* reviewer's session read of the span may be stale when it writes, and its  *)
(* row is locked from then to the commit.                                    *)

Value(item) == DISPOSITION_ACTION_BY_VERB[item.verb]

(* What a session writes is its verb's value, but for an edit that does not  *)
(* change what it saw: that leaves a rejection as it stands by now.          *)
Says(item, v) ==
  IF item.verb = "edit" THEN v.value = "rejected" => disposition[item.span] = "rejected"
                        ELSE v.value = Value(item)

WriteTold(p) ==
  /\ \A i \in local[p].item : i.verb # "edit" => local[p].seen # Value(i)
  /\ pc[p] \in {"review_append", "review_commit"} =>
       \A i \in local[p].item, v \in writes[p] : Says(i, v)
  /\ pc[p] = "review_commit" =>
       \A i \in local[p].item : \E e \in pending[p] :
         /\ pending[p] = {e}
         /\ e.payload.span = i.span /\ e.payload.action = AUDIT_ACTION_BY_VERB[i.verb]

RowTold(s) ==
  /\ disposition[s] = "approved" =>
       \E e : IsLast(SpanEntries(s), e) /\ e.payload.action # "rejected"
  /\ disposition[s] = "rejected" =>
       \E e : IsLast(Ruled(s), e) /\ e.payload.action = "rejected"

ToldInv ==
  /\ \A p \in Process : WriteTold(p)
  /\ \A s \in Span : RowTold(s)

LEMMA ToldInit == Init => ToldInv
BY DEF Init, ToldInv, WriteTold, RowTold, Fresh

(* A session that has read, flushed and written nothing new.                 *)
LEMMA ToldFrame ==
  ASSUME NEW q \in Process, WriteTold(q), FlushInv(q),
         local'[q].item = local[q].item /\ local'[q].seen = local[q].seen,
         pc[q] \in FlushedLabels \/ pc'[q] \in FlushedLabels =>
           pc'[q] = pc[q] /\ writes'[q] = writes[q] /\ pending'[q] = pending[q],
         \A v \in writes[q] : disposition[v.span] = "rejected" => disposition'[v.span] = "rejected"
  PROVE  WriteTold(q)'
<1>1. \A i \in local'[q].item : i.verb # "edit" => local'[q].seen # Value(i)
  BY DEF WriteTold
<1>2. ASSUME pc'[q] \in {"review_append", "review_commit"}
      PROVE  \A i \in local'[q].item, v \in writes'[q] : Says(i, v)'
  <2>1. pc'[q] = pc[q] /\ writes'[q] = writes[q]
    BY <1>2 DEF FlushedLabels
  <2>2. \A i \in local[q].item, v \in writes[q] : v.span = i.span
    BY <1>2, <2>1 DEF FlushInv
  <2>3. \A i \in local[q].item, v \in writes[q] : Says(i, v)
    BY <1>2, <2>1 DEF WriteTold
  <2>4. QED
    BY <2>1, <2>2, <2>3 DEF Says, Value
<1>3. ASSUME pc'[q] = "review_commit"
      PROVE  \A i \in local'[q].item : \E e \in pending'[q] :
               /\ pending'[q] = {e}
               /\ e.payload.span = i.span /\ e.payload.action = AUDIT_ACTION_BY_VERB[i.verb]
  BY <1>3 DEF WriteTold, FlushedLabels
<1>4. QED
  BY <1>1, <1>2, <1>3 DEF WriteTold, Value

(* A session that is closed. *)
LEMMA ToldFresh ==
  ASSUME NEW q \in Process, local'[q] = Fresh, pc'[q] \notin FlushedLabels
  PROVE  WriteTold(q)'
BY DEF WriteTold, Fresh, FlushedLabels

(* Steps that leave the dispositions alone. *)
LEMMA ToldStill ==
  ASSUME ToldInv, DecisionInv, NEW p \in Process, Still(p)
  PROVE  \A q \in Process : WriteTold(q)'
<1>1. ASSUME NEW q \in Process \ {p} PROVE WriteTold(q)'
  BY <1>1, ToldFrame DEF ToldInv, DecisionInv, Still, Alone
<1>2. WriteTold(p)'
  <2>1. pc[p] \in FlushedLabels \/ pc'[p] \in FlushedLabels => pc'[p] = pc[p]
    BY SamePhase DEF Still
  <2>2. CASE SameRead(p)
    BY <2>1, <2>2, ToldFrame DEF ToldInv, DecisionInv, Still, SameRead
  <2>3. CASE Phase(pc[p]) = "clean" /\ local'[p] = Fresh
    <3>1. pc'[p] \notin FlushedLabels
      BY <2>3 DEF Still, Phase, FlushedLabels
    <3>2. QED
      BY <2>3, <3>1, ToldFresh
  <2>4. QED
    BY <2>2, <2>3 DEF Still
<1>3. QED
  BY <1>1, <1>2

LEMMA ToldLose ==
  ASSUME ToldInv, DecisionInv, RowTypes, Chain!TypeOK, NEW p \in Process, Lose(p) \/ Finish(p)
  PROVE  \A q \in Process : WriteTold(q)'
<1>1. ASSUME NEW q \in Process \ {p} PROVE WriteTold(q)'
  <2>1. writes'[q] = writes[q] /\ pending'[q] = pending[q]
    BY DEF Lose, Finish, Chain!Commit, RowTypes, Chain!TypeOK
  <2>2. pc'[q] = pc[q] /\ local'[q] = local[q] /\ disposition' = disposition
    BY DEF Lose, Finish, Alone
  <2>3. QED
    BY <2>1, <2>2, ToldFrame DEF ToldInv, DecisionInv
<1>2. WriteTold(p)'
  <2>1. pc'[p] \notin FlushedLabels
    BY DEF Lose, Finish, Phase, FlushedLabels
  <2>2. CASE local'[p] = Fresh
    BY <2>1, <2>2, ToldFresh
  <2>3. CASE SameRead(p)
    BY <2>1, <2>3 DEF ToldInv, WriteTold, SameRead, FlushedLabels, Value
  <2>4. QED
    BY <2>2, <2>3 DEF Lose, Finish
<1>3. QED
  BY <1>1, <1>2

LEMMA ToldAppend ==
  ASSUME ToldInv, DecisionInv, AttemptInv, SessionInv, SessionTypes, Chain!TypeOK,
         NEW p \in Process, InsertEntry(p)
  PROVE  \A q \in Process : WriteTold(q)'
<1> DEFINE n == Chain!NewEntry(p, EventOf(p))
<1>1. /\ pending'[p] = pending[p] \cup {n}
      /\ \A q \in Process \ {p} : pending'[q] = pending[q] /\ pc'[q] = pc[q]
      /\ pc'[p] = AfterAppend(p)
      /\ pc[p] \in AppendLabels
      /\ n.payload = EventOf(p)
      /\ UNCHANGED <<audit_entry, local, writes, disposition>>
  BY DEF InsertEntry, Chain!Insert, Chain!NewEntry, Chain!TypeOK, Goto, SessionTypes, rowVars, flushVars
<1>2. ASSUME NEW q \in Process \ {p} PROVE WriteTold(q)'
  BY <1>1, ToldFrame DEF ToldInv, DecisionInv
<1>3. WriteTold(p)'
  <2>1. CASE pc[p] = "review_append"
    <3>1. pending[p] = {}
      BY <2>1 DEF AttemptInv, AttemptOf, Phase, FlushedLabels
    <3>2. pending'[p] = {n} /\ pc'[p] = "review_commit"
      BY <1>1, <2>1, <3>1 DEF AfterAppend
    <3>3. \A i \in local[p].item :
            n.payload.span = i.span /\ n.payload.action = AUDIT_ACTION_BY_VERB[i.verb]
      BY <1>1, <2>1, EventSpan
    <3>4. \A i \in local[p].item, v \in writes[p] : Says(i, v)'
      BY <1>1, <2>1 DEF ToldInv, WriteTold, Says, Value
    <3> HIDE DEF n
    <3>5. QED
      BY <1>1, <3>2, <3>3, <3>4 DEF ToldInv, WriteTold, Value
  <2>2. CASE pc[p] # "review_append"
    <3>1. pc'[p] \notin {"review_append", "review_commit"}
      BY <1>1, <2>2 DEF AppendLabels, AfterAppend
    <3>2. QED
      BY <1>1, <3>1 DEF ToldInv, WriteTold, Value
  <2>3. QED
    BY <2>1, <2>2
<1>4. QED
  BY <1>2, <1>3

LEMMA ToldRead ==
  ASSUME ToldInv, DecisionInv, SessionTypes, NEW r \in Reviewer, ReviewRead(r), ~EndSession(r)
  PROVE  \A q \in Process : WriteTold(q)'
<1>1. r \in Process
  BY DEF Process, Request
<1>2. PICK i \in Item :
        /\ i.verb = "add_manual_span" => disposition[i.span] = "absent"
        /\ i.verb # "add_manual_span" => disposition_needs_change(disposition[i.span], i)
        /\ local' = [local EXCEPT ![r].item = {i}, ![r].seen = disposition[i.span],
                                  ![r].page = page]
        /\ Goto(r, "review_flush")
  BY DEF ReviewRead
<1>3. UNCHANGED <<writes, disposition, audit_entry, pending>>
  BY DEF ReviewRead, rowVars, chainVars, flushVars
<1>4. /\ local'[r].item = {i} /\ local'[r].seen = disposition[i.span] /\ pc'[r] = "review_flush"
      /\ \A q \in Process \ {r} : local'[q] = local[q] /\ pc'[q] = pc[q]
  BY <1>1, <1>2 DEF SessionTypes, Local, Goto
<1>5. i.verb # "edit" => disposition[i.span] # Value(i)
  BY <1>2 DEF disposition_needs_change, Value, Item, DISPOSITION_ACTION_BY_VERB
<1>6. WriteTold(r)'
  BY <1>4, <1>5 DEF WriteTold, Value
<1>7. ASSUME NEW q \in Process \ {r} PROVE WriteTold(q)'
  BY <1>3, <1>4, ToldFrame DEF ToldInv, DecisionInv
<1>8. QED
  BY <1>6, <1>7

LEMMA ToldWrite ==
  ASSUME ToldInv, DecisionInv, SessionInv, SessionTypes, RowTypes, NEW r \in Reviewer,
         UpdateDisposition(r) \/ InsertDisposition(r) \/ InsertManualSpan(r)
  PROVE  \A q \in Process : WriteTold(q)'
<1>1. r \in Process /\ pc[r] = "review_flush"
  BY DEF Process, Request, UpdateDisposition, InsertDisposition, InsertManualSpan
<1>2. PICK i \in Item : local[r].item = {i}
  BY <1>1 DEF SessionInv, Audits
<1>3. i.verb # "edit" => local[r].seen # Value(i)
  BY <1>1, <1>2 DEF ToldInv, WriteTold
<1>4. PICK v : Write(r, i.span, v) /\ Says(i, [span |-> i.span, value |-> v])
  <2>1. CASE UpdateDisposition(r)
    <3> DEFINE v == IF local[r].seen = Value(i) THEN disposition[i.span] ELSE Value(i)
    <3>1. Write(r, i.span, v)
      BY <1>2, <2>1 DEF UpdateDisposition, Value
    <3>2. i.verb # "edit" => v = Value(i)
      BY <1>3
    <3>3. i.verb = "edit" => Value(i) = "approved"
      BY DEF Value, DISPOSITION_ACTION_BY_VERB
    <3>4. Says(i, [span |-> i.span, value |-> v])
      BY <3>2, <3>3 DEF Says
    <3>5. QED
      BY <3>1, <3>4
  <2>2. CASE InsertDisposition(r)
    <3>1. Write(r, i.span, Value(i))
      BY <1>2, <2>2 DEF InsertDisposition, Value
    <3>2. i.verb = "edit" => Value(i) = "approved"
      BY DEF Value, DISPOSITION_ACTION_BY_VERB
    <3>3. Says(i, [span |-> i.span, value |-> Value(i)])
      BY <3>2 DEF Says
    <3>4. QED
      BY <3>1, <3>3
  <2>3. CASE InsertManualSpan(r)
    <3>1. Write(r, i.span, "approved") /\ local[r].seen = "absent"
      BY <1>2, <2>3 DEF InsertManualSpan
    <3>2. i.verb = "add_manual_span"
      BY <1>1, <1>2, <3>1 DEF DecisionInv, ReadInv
    <3>3. Value(i) = "approved"
      BY <3>2 DEF Value, DISPOSITION_ACTION_BY_VERB
    <3>4. Says(i, [span |-> i.span, value |-> "approved"])
      BY <3>2, <3>3 DEF Says
    <3>5. QED
      BY <3>1, <3>4
  <2>4. QED
    BY <2>1, <2>2, <2>3
<1>5. /\ writes'[r] = {[span |-> i.span, value |-> v]}
      /\ \A q \in Process \ {r} : writes'[q] = writes[q] /\ pc'[q] = pc[q]
      /\ pc'[r] = "review_append"
      /\ UNCHANGED <<disposition, audit_entry, pending, local>>
  BY <1>1, <1>4 DEF Write, RowTypes, SessionTypes, Goto, UpdateDisposition, InsertDisposition,
     InsertManualSpan, rowVars, chainVars
<1>6. WriteTold(r)'
  BY <1>2, <1>3, <1>4, <1>5 DEF WriteTold, Says, Value
<1>7. ASSUME NEW q \in Process \ {r} PROVE WriteTold(q)'
  BY <1>5, ToldFrame DEF ToldInv, DecisionInv
<1>8. QED
  BY <1>6, <1>7

(* Detection commits new spans only. *)
LEMMA DetectChanges ==
  ASSUME NEW w \in Worker, DetectCommit(w), FlushInv(w), NEW s \in Span
  PROVE  \/ disposition'[s] = disposition[s]
         \/ disposition[s] = "absent" /\ disposition'[s] = "none"
<1>1. pc[w] = "detect_commit"
  BY DEF DetectCommit
<1>2. disposition'[s] = Flushed(w)[s]
  BY DEF DetectCommit, CommitRows
<1>3. CASE \E v \in writes[w] : v.span = s
  <2>1. (CHOOSE v \in writes[w] : v.span = s) \in {v \in writes[w] : v.span = s}
    BY <1>3
  <2>2. Flushed(w)[s] = "none"
    BY <1>1, <1>3, <2>1 DEF Flushed, FlushInv
  <2>3. QED
    BY <1>1, <1>2, <1>3, <2>2 DEF FlushInv
<1>4. CASE ~\E v \in writes[w] : v.span = s
  BY <1>2, <1>4 DEF Flushed
<1>5. QED
  BY <1>3, <1>4

LEMMA RowFrame ==
  ASSUME NEW s \in Span, RowTold(s), SpanEntries(s)' = SpanEntries(s),
         disposition'[s] = disposition[s] \/ disposition'[s] = "none"
  PROVE  RowTold(s)'
BY DEF RowTold, Ruled, IsLast

LEMMA ToldDetect ==
  ASSUME ToldInv, DecisionInv, SessionTypes, RowTypes, NEW w \in Worker,
         DetectFlush(w) \/ DetectCommit(w)
  PROVE  ToldInv'
<1>1. w \in Process /\ FlushInv(w)
  BY DEF Process, DecisionInv
<1>2. UNCHANGED <<audit_entry, pending>>
  BY DEF DetectFlush, DetectCommit, chainVars
<1>3. \A q \in Process \ {w} : writes'[q] = writes[q] /\ local'[q] = local[q] /\ pc'[q] = pc[q]
  BY <1>1 DEF DetectFlush, DetectCommit, CommitRows, EndSession, CloseSession, Goto, RowTypes,
     SessionTypes
<1>4. ASSUME NEW s \in Span
      PROVE  \/ disposition'[s] = disposition[s]
             \/ disposition[s] = "absent" /\ disposition'[s] = "none"
  <2>1. CASE DetectFlush(w)
    BY <2>1 DEF DetectFlush, rowVars
  <2>2. CASE DetectCommit(w)
    BY <1>1, <2>2, DetectChanges
  <2>3. QED
    BY <2>1, <2>2
<1>5. ASSUME NEW q \in Process \ {w} PROVE WriteTold(q)'
  <2>1. \A v \in writes[q] : v.span \in Span
    BY DEF RowTypes
  <2>2. \A v \in writes[q] : disposition[v.span] = "rejected" => disposition'[v.span] = "rejected"
    BY <1>4, <2>1
  <2>3. QED
    BY <1>2, <1>3, <2>2, ToldFrame DEF ToldInv, DecisionInv
<1>6. WriteTold(w)'
  <2>1. CASE DetectFlush(w)
    <3>1. local'[w] = local[w] /\ pc'[w] = "detect_commit"
      BY <1>1, <2>1 DEF DetectFlush, Goto, SessionTypes
    <3>2. QED
      BY <1>1, <3>1 DEF ToldInv, WriteTold, Value
  <2>2. CASE DetectCommit(w)
    <3>1. local'[w] = Fresh /\ pc'[w] \notin FlushedLabels
      BY <1>1, <2>2 DEF DetectCommit, EndSession, CloseSession, Goto, SessionTypes, FlushedLabels
    <3>2. QED
      BY <1>1, <3>1, ToldFresh
  <2>3. QED
    BY <2>1, <2>2
<1>7. ASSUME NEW s \in Span PROVE RowTold(s)'
  BY <1>2, <1>4, RowFrame DEF ToldInv, SpanEntries
<1>8. QED
  BY <1>5, <1>6, <1>7 DEF ToldInv

(* A reviewer's commit: its entry is the last about its span.                *)
LEMMA ToldCommit ==
  ASSUME ToldInv, DecisionInv, SessionTypes, RowTypes, Chain!TypeOK, ChainProofs!ChainInv,
         NEW r \in Reviewer, ReviewCommit(r)
  PROVE  ToldInv'
<1>1. r \in Process /\ pc[r] = "review_commit" /\ FlushInv(r) /\ WriteTold(r)
  BY DEF Process, Request, ReviewCommit, DecisionInv, ToldInv
<1>2. PICK i \in Item, value \in Decided :
        local[r].item = {i} /\ writes[r] = {[span |-> i.span, value |-> value]}
  BY <1>1 DEF FlushInv
<1>3. PICK e \in pending[r] :
        /\ pending[r] = {e}
        /\ e.payload.span = i.span /\ e.payload.action = AUDIT_ACTION_BY_VERB[i.verb]
  BY <1>1, <1>2 DEF WriteTold
<1>4. Says(i, [span |-> i.span, value |-> value])
  BY <1>1, <1>2 DEF WriteTold
<1>5. \A s \in Span : disposition'[s] = IF s = i.span THEN value ELSE disposition[s]
  <2>1. /\ \A w \in writes[r] : w.span = i.span /\ w.value = value
        /\ \E w \in writes[r] : w.span = i.span
    BY <1>2
  <2>2. (CHOOSE w \in writes[r] : w.span = i.span) \in writes[r]
    BY <2>1
  <2>3. SUFFICES ASSUME NEW s \in Span
                 PROVE  disposition'[s] = IF s = i.span THEN value ELSE disposition[s]
    OBVIOUS
  <2>4. disposition'[s] = IF \E w \in writes[r] : w.span = s
                          THEN (CHOOSE w \in writes[r] : w.span = s).value
                          ELSE disposition[s]
    BY DEF ReviewCommit, CommitRows, Flushed
  <2>5. CASE s = i.span
    BY <2>1, <2>2, <2>4, <2>5
  <2>6. CASE s # i.span
    BY <2>1, <2>4, <2>6
  <2>7. QED
    BY <2>5, <2>6
<1>6. /\ audit_entry' = audit_entry \cup {e}
      /\ local'[r] = Fresh /\ pc'[r] \notin FlushedLabels
      /\ \A q \in Process \ {r} : /\ writes'[q] = writes[q] /\ pending'[q] = pending[q]
                                  /\ local'[q] = local[q] /\ pc'[q] = pc[q]
  BY <1>1, <1>3 DEF ReviewCommit, CommitRows, Chain!Commit, EndSession, CloseSession, Goto, RowTypes,
     SessionTypes, Chain!TypeOK, FlushedLabels
<1>7. ASSUME NEW q \in Process \ {r} PROVE WriteTold(q)'
  <2>1. \A v \in writes[q] : v.span # i.span
    BY <1>1, <1>2 DEF DecisionInv, RowLocks
  <2>2. \A v \in writes[q] : disposition'[v.span] = disposition[v.span]
    BY <1>5, <2>1 DEF RowTypes
  <2>3. QED
    BY <1>6, <2>2, ToldFrame DEF ToldInv, DecisionInv
<1>8. WriteTold(r)'
  BY <1>1, <1>6, ToldFresh
<1>9. ASSUME NEW s \in Span, s # i.span PROVE RowTold(s)'
  <2>1. SpanEntries(s)' = SpanEntries(s)
    BY <1>3, <1>6, <1>9 DEF SpanEntries
  <2>2. QED
    BY <1>5, <1>9, <2>1, RowFrame DEF ToldInv
<1>10. i.span \in Span
  BY DEF Item, Span
<1>11. RowTold(i.span)'
  <2>1. IsLast(SpanEntries(i.span)', e)
    <3>1. \A f \in audit_entry : f.sequence < e.sequence
      BY <1>1, PendingLast
    <3>2. e.sequence \in Nat /\ \A f \in audit_entry : f.sequence \in Nat
      BY <1>1 DEF ChainProofs!ChainInv, ChainProofs!TypeOK, ChainProofs!Entry
    <3>3. e \in SpanEntries(i.span)' /\ SpanEntries(i.span)' \subseteq audit_entry \cup {e}
      BY <1>3, <1>6 DEF SpanEntries
    <3>4. QED
      BY <3>1, <3>2, <3>3 DEF IsLast
  <2>2. disposition'[i.span] = value
    BY <1>5, <1>10
  <2>3. i.verb \in {"approve", "reject", "edit", "add_manual_span"}
    BY DEF Item
  <2>4. value = "approved" => e.payload.action # "rejected"
    BY <1>3, <1>4, <2>3 DEF Says, Value, AUDIT_ACTION_BY_VERB, DISPOSITION_ACTION_BY_VERB
  <2>5. ASSUME value = "rejected", i.verb # "edit"
        PROVE  \E f : IsLast(Ruled(i.span)', f) /\ f.payload.action = "rejected"
    <3>1. e.payload.action = "rejected"
      BY <1>3, <1>4, <2>3, <2>5 DEF Says, Value, AUDIT_ACTION_BY_VERB, DISPOSITION_ACTION_BY_VERB
    <3>2. IsLast(Ruled(i.span)', e)
      BY <2>1, <3>1 DEF IsLast, Ruled
    <3>3. QED
      BY <3>1, <3>2
  <2>6. ASSUME value = "rejected", i.verb = "edit"
        PROVE  \E f : IsLast(Ruled(i.span)', f) /\ f.payload.action = "rejected"
    <3>1. disposition[i.span] = "rejected"
      BY <1>4, <2>6 DEF Says
    <3>2. PICK f : IsLast(Ruled(i.span), f) /\ f.payload.action = "rejected"
      BY <1>10, <3>1 DEF ToldInv, RowTold
    <3>3. e.payload.action = "edited"
      BY <1>3, <2>6 DEF AUDIT_ACTION_BY_VERB
    <3>4. Ruled(i.span)' = Ruled(i.span)
      BY <1>6, <3>3 DEF Ruled, SpanEntries
    <3>5. QED
      BY <3>2, <3>4 DEF IsLast
  <2>7. QED
    BY <2>1, <2>2, <2>4, <2>5, <2>6 DEF RowTold
<1>12. QED
  BY <1>7, <1>8, <1>9, <1>11 DEF ToldInv

LEMMA ToldNext ==
  ASSUME ToldInv, DecisionInv, AttemptInv, SessionInv, StateTypes, Chain!TypeOK,
         ChainProofs!ChainInv, [Next]_vars
  PROVE  ToldInv'
<1> USE DEF StateTypes
<1>1. ASSUME UNCHANGED <<disposition, audit_entry>> PROVE \A s \in Span : RowTold(s)'
  BY <1>1, RowFrame DEF ToldInv, SpanEntries
<1>2. ASSUME NEW p \in Process, Still(p) PROVE ToldInv'
  BY <1>1, <1>2, ToldStill DEF ToldInv, Still
<1>3. ASSUME NEW p \in Process, Lose(p) PROVE ToldInv'
  BY <1>1, <1>3, ToldLose DEF ToldInv, Lose
<1>4. ASSUME NEW p \in Process, Finish(p) PROVE ToldInv'
  <2>1. pc[p] # "review_commit" /\ FlushInv(p)
    BY <1>4 DEF Finish, Phase, FlushedLabels, DecisionInv
  <2>2. audit_entry' = audit_entry \cup pending[p] /\ disposition' = disposition
    BY <1>4 DEF Finish, Chain!Commit
  <2>3. \A s \in Span : SpanEntries(s)' = SpanEntries(s)
    BY <2>1, <2>2 DEF FlushInv, SpanEntries
  <2>4. \A s \in Span : RowTold(s)'
    BY <2>2, <2>3, RowFrame DEF ToldInv
  <2>5. QED
    BY <1>4, <2>4, ToldLose DEF ToldInv
<1>5. ASSUME NEW p \in Process, InsertEntry(p) PROVE ToldInv'
  <2>1. UNCHANGED <<disposition, audit_entry>>
    BY <1>5 DEF InsertEntry, Chain!Insert, rowVars
  <2>2. QED
    BY <1>1, <1>5, <2>1, ToldAppend DEF ToldInv
<1>6. ASSUME NEW r \in Process, Decide(r), ~ReviewCommit(r) PROVE ToldInv'
  <2>1. UNCHANGED <<disposition, audit_entry>>
    BY <1>6 DEF Decide, ReviewRead, UpdateDisposition, InsertDisposition, InsertManualSpan, rowVars,
       chainVars
  <2>2. \A q \in Process : WriteTold(q)'
    BY <1>6, ToldRead, ToldWrite DEF Decide
  <2>3. QED
    BY <1>1, <2>1, <2>2 DEF ToldInv
<1>7. ASSUME NEW w \in Worker, ApplyProject(w) \/ UploadRedacted(w) PROVE ToldInv'
  <2>1. /\ w \in Process
        /\ UNCHANGED <<writes, disposition, audit_entry, pending>>
        /\ Alone(w)
        /\ Phase(pc'[w]) = Phase(pc[w])
        /\ local'[w].item = local[w].item /\ local'[w].seen = local[w].seen
    BY <1>7, ApplyStepsKeep
  <2>2. pc[w] \in FlushedLabels \/ pc'[w] \in FlushedLabels => pc'[w] = pc[w]
    BY <2>1, SamePhase
  <2>3. WriteTold(w)'
    BY <2>1, <2>2, ToldFrame DEF ToldInv, DecisionInv
  <2>4. \A q \in Process \ {w} : WriteTold(q)'
    BY <2>1, ToldFrame DEF ToldInv, DecisionInv, Alone
  <2>5. QED
    BY <1>1, <2>1, <2>3, <2>4 DEF ToldInv
<1>8. QED
  BY <1>2, <1>3, <1>4, <1>5, <1>6, <1>7, FlushNext, ToldCommit, ToldDetect
  DEF FlushStep, Decide, Work

(* Whoever overwrites whom: an approved span was not rejected last, and a    *)
(* rejected one was, or was edited since by a reviewer who had seen it       *)
(* approved.                                                                 *)
THEOREM DecisionsAreTold == Spec => []DecisionIsTold
<1>1. /\ ToldInv /\ DecisionInv /\ AttemptInv /\ SessionInv /\ TypeInv /\ Chain!TypeOK
      /\ ChainProofs!ChainInv /\ [Next]_vars
      => ToldInv'
  BY ToldNext DEF TypeInv
<1>2. ToldInv /\ ChainProofs!ChainInv => DecisionIsTold
  <2>1. ASSUME ChainProofs!ChainInv, NEW s \in Span, RowTold(s)
        PROVE  /\ disposition[s] = "approved" => Chain!Last(SpanEntries(s)).payload.action # "rejected"
               /\ disposition[s] = "rejected" => Chain!Last(Ruled(s)).payload.action = "rejected"
    <3>1. SpanEntries(s) \in SUBSET audit_entry /\ Ruled(s) \in SUBSET audit_entry
      BY DEF SpanEntries, Ruled
    <3>2. \A e : IsLast(SpanEntries(s), e) => Chain!Last(SpanEntries(s)) = e
      BY <2>1, <3>1, LastIs
    <3>3. \A e : IsLast(Ruled(s), e) => Chain!Last(Ruled(s)) = e
      BY <2>1, <3>1, LastIs
    <3>4. QED
      BY <2>1, <3>2, <3>3 DEF RowTold
  <2>2. QED
    BY <2>1 DEF ToldInv, DecisionIsTold
<1>3. QED
  BY <1>1, <1>2, ToldInit, DecisionInvariant, AttemptInvariant, PipelineInvariant, ChainTypes,
     ChainInvariant, PTL DEF Spec

=============================================================================
