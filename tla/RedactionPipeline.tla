-------------------------- MODULE RedactionPipeline --------------------------
(***************************************************************************)
(* The life of one redaction job: the endpoints of api/jobs.py and the     *)
(* taskiq tasks ingest_job, detect_job and apply_job, all acting on the    *)
(* same rows, the same object storage and the same task queue.             *)
(*                                                                         *)
(* Every endpoint call and every task execution is a process with a        *)
(* database session of its own.  A session loads the job row ONCE          *)
(* (_get_job_or_404, load_job); the identity map then answers from that    *)
(* copy, which `snap` holds, while other sessions commit.                  *)
(* transition_job_status checks its edge against the copy and its UPDATE   *)
(* names only the primary key, so a commit overwrites whatever status the  *)
(* row has by then.  The UPDATE and the commit that follows it are one     *)
(* step: nothing of the same session runs between them, and the row lock   *)
(* makes other writers of the row wait for the commit.                     *)
(*                                                                         *)
(* The queue delivers at least once: a message is acknowledged after its   *)
(* task ended (returned or raised), and comes back when the worker dies    *)
(* before that, even if the task's transaction is committed.               *)
(***************************************************************************)
EXTENDS JobStatus, Naturals, FiniteSets

CONSTANTS
  Creator,        \* the POST /jobs request
  Reviewer,       \* POST /jobs/{id}/dispositions requests, one item each
  Applier,        \* POST /jobs/{id}/apply requests
  Exporter,       \* GET /jobs/{id}/export requests
  Worker,         \* task slots of the taskiq worker
  DetectedSpan,   \* identities of the spans detection creates
  ManualSpan,     \* identities of the spans reviewers add
  SpansFound,     \* how many spans detection may find in a document
  NoSpan,         \* span_id of a job-level audit entry
  Faults,         \* the kinds of fault that happen in a run
  MaxFaults       \* bound on their number

Span == DetectedSpan \cup ManualSpan
Request == {Creator} \cup Reviewer \cup Applier \cup Exporter
Process == Request \cup Worker

ASSUME ConstantsAssumption ==
  /\ MaxFaults \in Nat
  /\ SpansFound \subseteq Nat
  /\ NoSpan \notin Span
  /\ Request \cap Worker = {}           \* a task runs in a session of its own
  /\ DetectedSpan \cap ManualSpan = {}   \* every span gets a uuid of its own
  /\ Faults \subseteq {"crash", "error", "redeliver", "handoff", "fail_job"}

VARIABLES
  job,           \* committed redaction_job row: status, redacted_pdf_key set?
                 \* and the number of candidate spans in its document
  page,          \* is the page row of the (one page) document committed?
  disposition,   \* committed span rows with their disposition row, if any
  audit_entry,   \* committed audit chain (AuditChain)
  link,          \* AuditChain: link read by a session
  pending,       \* AuditChain: entries flushed by a session
  writes,        \* per process: flushed span/disposition values
  newpage,       \* per process: has it flushed the page row?
  redacted_pdf,  \* object storage: the redacted PDF
  manifest,      \* object storage: the export manifest
  queue,         \* messages ready for delivery
  held,          \* per worker: the unacknowledged message, as a set
  pc,            \* per process: where its session is
  snap,          \* per process: status in its copy of the job row
  local,         \* per process: other values read and used later
  faults         \* number of faults so far

chainVars == <<audit_entry, link, pending>>
rowVars == <<job, page, disposition>>
flushVars == <<writes, newpage>>
objectVars == <<redacted_pdf, manifest>>
queueVars == <<queue, held>>
procVars == <<pc, snap, local>>
vars == <<rowVars, chainVars, flushVars, objectVars, queueVars, procVars, faults>>

-----------------------------------------------------------------------------
ReviewAction == {"approved", "rejected", "edited", "manual_span_added"}
VerifyAction == {"verify_passed", "verify_failed"}
LifecycleAction == {"apply_started", "exported"} \cup VerifyAction

(* The payload of an entry; `by`, the session that writes it, stands for    *)
(* reviewer_id and created_at.                                              *)
Event == [action : ReviewAction, span : Span, by : Reviewer]
    \cup [action : LifecycleAction, span : {NoSpan}, by : Exporter \cup Worker]

Message == [task : {"ingest", "detect", "apply"}, sender : Process]

Item == [verb : {"approve", "reject", "edit"}, span : Span]
   \cup [verb : {"add_manual_span"}, span : ManualSpan]

\* Mutant: the audit action of an edit is stored as the disposition.
DISPOSITION_ACTION_BY_VERB_Edited ==
  [approve |-> "approved", reject |-> "rejected",
   edit |-> "edited", add_manual_span |-> "approved"]

DISPOSITION_ACTION_BY_VERB ==
  [approve |-> "approved", reject |-> "rejected",
   edit |-> "approved", add_manual_span |-> "approved"]

AUDIT_ACTION_BY_VERB ==
  [approve |-> "approved", reject |-> "rejected",
   edit |-> "edited", add_manual_span |-> "manual_span_added"]

\* The values of `local` of a process that has read nothing yet.
Fresh == [item |-> {}, seen |-> "absent", page |-> FALSE, approved |-> {},
          verdict |-> {}, entry_count |-> 0, listed |-> 0]

Chain == INSTANCE AuditChain WITH
           Tx <- Process, Payload <- Event, MaxSequence <- 100

-----------------------------------------------------------------------------
Init ==
  /\ job = [status |-> NoJob, redacted_pdf_key |-> FALSE, candidates |-> 0]
  /\ page = FALSE
  /\ disposition = [s \in Span |-> "absent"]
  /\ Chain!Init
  /\ writes = [p \in Process |-> {}]
  /\ newpage = [p \in Process |-> FALSE]
  /\ redacted_pdf = [stored |-> FALSE, burned |-> {}]
  /\ manifest = [stored |-> FALSE, entry_count |-> 0, listed |-> 0]
  /\ queue = {}
  /\ held = [w \in Worker |-> {}]
  /\ pc = [p \in Process |-> "idle"]
  /\ snap = [p \in Process |-> NoJob]
  /\ local = [p \in Process |-> Fresh]
  /\ faults = 0

Goto(p, label) == pc' = [pc EXCEPT ![p] = label]

(* A session is closed and keeps nothing.                                   *)
CloseSession(p, label) ==
  /\ Goto(p, label)
  /\ snap' = [snap EXCEPT ![p] = NoJob]
  /\ local' = [local EXCEPT ![p] = Fresh]

(* The request is answered, or the task ended and its message is not        *)
(* acknowledged yet.                                                        *)
EndSession(p) == CloseSession(p, IF p \in Worker THEN "ack" ELSE "done")

CanStart(p) ==
  /\ pc[p] = "idle"
  /\ job.status # NoJob

(* Rows flushed by p become visible, or disappear.                          *)
Flushed(p) ==
  [s \in Span |-> IF \E v \in writes[p] : v.span = s
                  THEN (CHOOSE v \in writes[p] : v.span = s).value
                  ELSE disposition[s]]

CommitRows(p) ==
  /\ disposition' = Flushed(p)
  /\ page' = (page \/ newpage[p])
  /\ writes' = [writes EXCEPT ![p] = {}]
  /\ newpage' = [newpage EXCEPT ![p] = FALSE]

DropRows(p) ==
  /\ writes' = [writes EXCEPT ![p] = {}]
  /\ newpage' = [newpage EXCEPT ![p] = FALSE]
  /\ UNCHANGED <<disposition, page>>

SetStatus(status) == job' = [job EXCEPT !.status = status]

RowLocked(p, s) == \E q \in Process \ {p} : \E v \in writes[q] : v.span = s

PageKeyHeld(p) == \E q \in Process \ {p} : newpage[q]

(* The session of p is rolled back.  A request answers with an error; a     *)
(* task goes on to fail_job.                                                *)
AfterRollback(p) ==
  /\ DropRows(p)
  /\ IF p \in Worker THEN Goto(p, "fail") /\ UNCHANGED <<snap, local>> ELSE EndSession(p)

-----------------------------------------------------------------------------
(* append_audit_entry in the sessions that call it: read the link, then     *)
(* insert; the entry and the step that follows depend on the caller.        *)

AppendLabels == {"review_append", "export_append", "started_append", "verdict_append"}

EventOf(p) ==
  CASE pc[p] = "review_append" ->
         LET i == CHOOSE i \in local[p].item : TRUE
         IN [action |-> AUDIT_ACTION_BY_VERB[i.verb], span |-> i.span, by |-> p]
    [] pc[p] = "export_append" -> [action |-> "exported", span |-> NoSpan, by |-> p]
    [] pc[p] = "started_append" -> [action |-> "apply_started", span |-> NoSpan, by |-> p]
    [] pc[p] = "verdict_append" ->
         [action |-> CHOOSE v \in local[p].verdict : TRUE, span |-> NoSpan, by |-> p]

\* Mutant: verified is committed without the upload before it.
AfterAppend_NoUpload(p) ==
  CASE pc[p] = "review_append" -> "review_commit"
    [] pc[p] = "export_append" -> "export_commit"
    [] pc[p] = "started_append" -> "burn"
    [] pc[p] = "verdict_append" ->
         IF "verify_passed" \in local[p].verdict THEN "verified_commit" ELSE "failed_commit"

\* Mutant: the verdict of the verify gate is recorded and not acted on.
AfterAppend_IgnoresVerdict(p) ==
  CASE pc[p] = "review_append" -> "review_commit"
    [] pc[p] = "export_append" -> "export_commit"
    [] pc[p] = "started_append" -> "burn"
    [] pc[p] = "verdict_append" -> "upload"

AfterAppend(p) ==
  CASE pc[p] = "review_append" -> "review_commit"
    [] pc[p] = "export_append" -> "export_commit"
    [] pc[p] = "started_append" -> "burn"
    [] pc[p] = "verdict_append" ->
         IF "verify_passed" \in local[p].verdict THEN "upload" ELSE "failed_commit"

ReadChainLink(p) ==
  /\ pc[p] \in AppendLabels
  /\ Chain!ReadLink(p)
  /\ UNCHANGED <<rowVars, flushVars, objectVars, queueVars, procVars, faults>>

\* Mutant: append_audit_entry commits its row by itself.
InsertEntry_Autocommit(p) ==
  /\ pc[p] \in AppendLabels
  /\ link[p] # Chain!NoLink
  /\ ~Chain!Held(p, link[p].sequence) /\ ~Chain!Taken(p, link[p].sequence)
  /\ audit_entry' = audit_entry \cup {Chain!NewEntry(p, EventOf(p))}
  /\ link' = [link EXCEPT ![p] = Chain!NoLink]
  /\ Goto(p, AfterAppend(p))
  /\ UNCHANGED <<pending, rowVars, flushVars, objectVars, queueVars, snap, local, faults>>

InsertEntry(p) ==
  /\ pc[p] \in AppendLabels
  /\ Chain!Insert(p, EventOf(p))
  /\ Goto(p, AfterAppend(p))
  /\ UNCHANGED <<rowVars, flushVars, objectVars, queueVars, snap, local, faults>>

\* Mutant: the conflict is caught in a savepoint and only the entry is lost.
LoseSequence_Savepoint(p) ==
  /\ pc[p] \in AppendLabels
  /\ Chain!Conflict(p)
  /\ Goto(p, AfterAppend(p))
  /\ UNCHANGED <<rowVars, flushVars, objectVars, queueVars, snap, local, faults>>

LoseSequence(p) ==
  /\ pc[p] \in AppendLabels
  /\ Chain!Conflict(p)
  /\ AfterRollback(p)
  /\ UNCHANGED <<job, objectVars, queueVars, faults>>

-----------------------------------------------------------------------------
(* POST /jobs: document and job rows in one commit, then the enqueue.       *)
CreateJob ==
  /\ pc[Creator] = "idle"
  /\ \E n \in SpansFound : job' = [job EXCEPT !.status = "uploaded", !.candidates = n]
  /\ Goto(Creator, "enqueue_ingest")
  /\ UNCHANGED <<page, disposition, chainVars, flushVars, objectVars, queueVars,
                 snap, local, faults>>

(* The kiq() that follows the commit of create_job, apply_job or ingest_job *)
(* is outside its transaction.                                              *)
EnqueueTask(p) ==
  CASE pc[p] = "enqueue_ingest" -> "ingest"
    [] pc[p] = "enqueue_detect" -> "detect"
    [] pc[p] = "enqueue_apply" -> "apply"

EnqueueLabels == {"enqueue_ingest", "enqueue_detect", "enqueue_apply"}

Kiq(p) ==
  /\ pc[p] \in EnqueueLabels
  /\ queue' = queue \cup {[task |-> EnqueueTask(p), sender |-> p]}
  /\ EndSession(p)
  /\ UNCHANGED <<rowVars, chainVars, flushVars, objectVars, held, faults>>

-----------------------------------------------------------------------------
(* POST /jobs/{id}/dispositions with one item.                              *)

ReviewLoad(r) ==
  /\ CanStart(r)
  /\ IF job.status = "in_review"
     THEN Goto(r, "review") /\ snap' = [snap EXCEPT ![r] = job.status] /\ UNCHANGED local
     ELSE EndSession(r)
  /\ UNCHANGED <<rowVars, chainVars, flushVars, objectVars, queueVars, faults>>

(* An edit here changes the text or the boxes: one that changes neither is  *)
(* written, or skipped, exactly when an approve is.                         *)
disposition_needs_change(existing, item) ==
  \/ existing # DISPOSITION_ACTION_BY_VERB[item.verb]
  \/ item.verb = "edit"

(* The new id of a manual span is nobody else's.                            *)
Reserved(s) == \E q \in Reviewer : \E i \in local[q].item : i.span = s

(* The span and its disposition, or the page, are read; nothing is written  *)
(* yet.  An unknown span ends in 404, an identical resubmission in a commit *)
(* of nothing.                                                              *)
ReviewRead(r) ==
  /\ pc[r] = "review"
  /\ \E i \in Item :
       LET existing == disposition[i.span]
           skip == i.verb # "add_manual_span" /\
                     (existing = "absent" \/ ~disposition_needs_change(existing, i))
       IN /\ i.verb = "add_manual_span" => existing = "absent" /\ ~Reserved(i.span)
          /\ IF skip THEN EndSession(r)
             ELSE /\ local' = [local EXCEPT ![r].item = {i},
                                            ![r].seen = existing,
                                            ![r].page = page]
                  /\ Goto(r, "review_flush")
                  /\ UNCHANGED snap
  /\ UNCHANGED <<rowVars, chainVars, flushVars, objectVars, queueVars, faults>>

Write(r, span, value) == writes' = [writes EXCEPT ![r] = {[span |-> span, value |-> value]}]

\* Mutant: ON CONFLICT DO NOTHING.
UpdateDisposition_KeepsAction(r) ==
  /\ pc[r] = "review_flush"
  /\ \E i \in local[r].item :
       /\ local[r].seen \in {"approved", "rejected"}
       /\ ~RowLocked(r, i.span)
       /\ Write(r, i.span, disposition[i.span])
  /\ Goto(r, "review_append")
  /\ UNCHANGED <<rowVars, chainVars, newpage, objectVars, queueVars, snap, local, faults>>

(* A disposition that was seen is updated: the UPDATE names the action only *)
(* if it differs from the one seen.  It waits for the row's lock.           *)
UpdateDisposition(r) ==
  /\ pc[r] = "review_flush"
  /\ \E i \in local[r].item :
       LET desired == DISPOSITION_ACTION_BY_VERB[i.verb]
       IN /\ local[r].seen \in {"approved", "rejected"}
          /\ ~RowLocked(r, i.span)
          /\ Write(r, i.span, IF local[r].seen = desired THEN disposition[i.span] ELSE desired)
  /\ Goto(r, "review_append")
  /\ UNCHANGED <<rowVars, chainVars, newpage, objectVars, queueVars, snap, local, faults>>

(* None was seen: insert one; span_id is unique among dispositions.         *)
InsertDisposition(r) ==
  /\ pc[r] = "review_flush"
  /\ \E i \in local[r].item :
       /\ local[r].seen = "none"
       /\ ~RowLocked(r, i.span)
       /\ disposition[i.span] = "none"
       /\ Write(r, i.span, DISPOSITION_ACTION_BY_VERB[i.verb])
  /\ Goto(r, "review_append")
  /\ UNCHANGED <<rowVars, chainVars, newpage, objectVars, queueVars, snap, local, faults>>

(* add_manual_span: the page if none was seen, the span, its disposition.   *)
InsertManualSpan(r) ==
  /\ pc[r] = "review_flush"
  /\ \E i \in local[r].item :
       /\ local[r].seen = "absent"
       /\ ~local[r].page => ~PageKeyHeld(r) /\ ~page
       /\ Write(r, i.span, "approved")
  /\ newpage' = [newpage EXCEPT ![r] = ~local[r].page]
  /\ Goto(r, "review_append")
  /\ UNCHANGED <<rowVars, chainVars, objectVars, queueVars, snap, local, faults>>

(* IntegrityError: the disposition, or the page, was committed meanwhile.   *)
LoseUniqueRow(r) ==
  /\ pc[r] = "review_flush"
  /\ \E i \in local[r].item :
       \/ /\ local[r].seen = "none"
          /\ ~RowLocked(r, i.span)
          /\ disposition[i.span] # "none"
       \/ /\ local[r].seen = "absent"
          /\ ~local[r].page /\ ~PageKeyHeld(r) /\ page
  /\ AfterRollback(r)
  /\ UNCHANGED <<job, chainVars, objectVars, queueVars, faults>>

ReviewCommit(r) ==
  /\ pc[r] = "review_commit"
  /\ Chain!Commit(r)
  /\ CommitRows(r)
  /\ EndSession(r)
  /\ UNCHANGED <<job, objectVars, queueVars, faults>>

-----------------------------------------------------------------------------
(* POST /jobs/{id}/apply: the edge is checked on the loaded copy, then the  *)
(* undispositioned spans are counted, then the row is overwritten.          *)
ApplyLoad(a) ==
  /\ CanStart(a)
  /\ IF Allowed(job.status, "applying")
     THEN Goto(a, "apply_count") /\ snap' = [snap EXCEPT ![a] = job.status] /\ UNCHANGED local
     ELSE EndSession(a)
  /\ UNCHANGED <<rowVars, chainVars, flushVars, objectVars, queueVars, faults>>

Undispositioned == {s \in Span : disposition[s] = "none"}

ApplyCount(a) ==
  /\ pc[a] = "apply_count"
  /\ IF Undispositioned = {} THEN Goto(a, "apply_commit") /\ UNCHANGED <<snap, local>>
                             ELSE EndSession(a)
  /\ UNCHANGED <<rowVars, chainVars, flushVars, objectVars, queueVars, faults>>

ApplyCommit(a) ==
  /\ pc[a] = "apply_commit"
  /\ SetStatus("applying")
  /\ Goto(a, "enqueue_apply")
  /\ UNCHANGED <<page, disposition, chainVars, flushVars, objectVars, queueVars,
                 snap, local, faults>>

-----------------------------------------------------------------------------
(* GET /jobs/{id}/export.                                                   *)
ExportLoad(e) ==
  /\ CanStart(e)
  /\ IF job.status \in {"verified", "exported"} /\ job.redacted_pdf_key
     THEN Goto(e, "export_verify") /\ snap' = [snap EXCEPT ![e] = job.status] /\ UNCHANGED local
     ELSE EndSession(e)
  /\ UNCHANGED <<rowVars, chainVars, flushVars, objectVars, queueVars, faults>>

ExportVerify(e) ==
  /\ pc[e] = "export_verify"
  /\ LET chain == Chain!verify_audit_chain(audit_entry)
     IN IF chain.verified
        THEN /\ local' = [local EXCEPT ![e].entry_count = chain.entry_count]
             /\ Goto(e, "export_assemble")
             /\ UNCHANGED snap
        ELSE EndSession(e)
  /\ UNCHANGED <<rowVars, chainVars, flushVars, objectVars, queueVars, faults>>

\* Mutant: the manifest lists the exported entry that is appended after it.
ExportAssemble_ListsItself(e) ==
  /\ pc[e] = "export_assemble"
  /\ IF redacted_pdf.stored
     THEN /\ local' = [local EXCEPT ![e].listed = Cardinality(audit_entry) + 1]
          /\ Goto(e, "export_upload")
          /\ UNCHANGED snap
     ELSE EndSession(e)
  /\ UNCHANGED <<rowVars, chainVars, flushVars, objectVars, queueVars, faults>>

(* assemble_export_manifest reads the entries again; entry_count and head   *)
(* come from the verification before.                                       *)
ExportAssemble(e) ==
  /\ pc[e] = "export_assemble"
  /\ IF redacted_pdf.stored
     THEN /\ local' = [local EXCEPT ![e].listed = Cardinality(audit_entry)]
          /\ Goto(e, "export_upload")
          /\ UNCHANGED snap
     ELSE EndSession(e)
  /\ UNCHANGED <<rowVars, chainVars, flushVars, objectVars, queueVars, faults>>

(* Only a session that loaded the job at verified appends exported.         *)
ExportUpload(e) ==
  /\ pc[e] = "export_upload"
  /\ manifest' = [stored |-> TRUE, entry_count |-> local[e].entry_count,
                  listed |-> local[e].listed]
  /\ IF snap[e] = "verified" THEN Goto(e, "export_append") /\ UNCHANGED <<snap, local>>
                             ELSE EndSession(e)
  /\ UNCHANGED <<rowVars, chainVars, flushVars, redacted_pdf, queueVars, faults>>

ExportCommit(e) ==
  /\ pc[e] = "export_commit"
  /\ Chain!Commit(e)
  /\ SetStatus("exported")
  /\ EndSession(e)
  /\ UNCHANGED <<page, disposition, flushVars, objectVars, queueVars, faults>>

-----------------------------------------------------------------------------
(* A worker slot takes a message and the task loads the job; a job in any   *)
(* other status than the task's own is skipped and the message consumed.    *)
ExpectedStatus == [ingest |-> "uploaded", detect |-> "ingested", apply |-> "applying"]

FirstLabel == [ingest |-> "ingest", detect |-> "detect", apply |-> "project"]

Deliver(w) ==
  /\ pc[w] = "idle"
  /\ \E m \in queue :
       /\ queue' = queue \ {m}
       /\ IF job.status = ExpectedStatus[m.task]
          THEN /\ held' = [held EXCEPT ![w] = {m}]
               /\ Goto(w, FirstLabel[m.task])
               /\ snap' = [snap EXCEPT ![w] = job.status]
          ELSE UNCHANGED <<held, pc, snap>>
  /\ UNCHANGED <<rowVars, chainVars, flushVars, objectVars, local, faults>>

(* The task returned or raised; its transition is logged (log_job_terminal) *)
(* and its message acknowledged.                                            *)
Acknowledge(w) ==
  /\ pc[w] = "ack"
  /\ held' = [held EXCEPT ![w] = {}]
  /\ Goto(w, "idle")
  /\ UNCHANGED <<rowVars, chainVars, flushVars, objectVars, queue, snap, local, faults>>

(* ingest_job: stage the pages, commit ingested, then enqueue detect_job.   *)
IngestCommit(w) ==
  /\ pc[w] = "ingest"
  /\ SetStatus("ingested")
  /\ Goto(w, "enqueue_detect")
  /\ UNCHANGED <<page, disposition, chainVars, flushVars, objectVars, queueVars,
                 snap, local, faults>>

(* A PDF the ingest stage rejects: rollback, then fail_job.                 *)
IngestReject(w) ==
  /\ pc[w] = "ingest"
  /\ Goto(w, "fail")
  /\ UNCHANGED <<rowVars, chainVars, flushVars, objectVars, queueVars, snap, local, faults>>

(* detect_job: get or create the page, add a span per candidate, commit     *)
(* through detected to in_review.                                           *)
DetectRead(w) ==
  /\ pc[w] = "detect"
  /\ local' = [local EXCEPT ![w].page = page]
  /\ Goto(w, "detect_flush")
  /\ UNCHANGED <<rowVars, chainVars, flushVars, objectVars, queueVars, snap, faults>>

FreshSpans(w) == {s \in DetectedSpan : disposition[s] = "absent" /\ ~RowLocked(w, s)}

NeedsPage(w) == job.candidates > 0 /\ ~local[w].page

DetectFlush(w) ==
  /\ pc[w] = "detect_flush"
  /\ NeedsPage(w) => ~PageKeyHeld(w) /\ ~page
  /\ \E found \in SUBSET FreshSpans(w) :
       /\ Cardinality(found) = job.candidates
       /\ writes' = [writes EXCEPT ![w] = {[span |-> s, value |-> "none"] : s \in found}]
  /\ newpage' = [newpage EXCEPT ![w] = NeedsPage(w)]
  /\ Goto(w, "detect_commit")
  /\ UNCHANGED <<rowVars, chainVars, objectVars, queueVars, snap, local, faults>>

DetectLosePage(w) ==
  /\ pc[w] = "detect_flush"
  /\ NeedsPage(w) /\ ~PageKeyHeld(w) /\ page
  /\ AfterRollback(w)
  /\ UNCHANGED <<job, chainVars, objectVars, queueVars, faults>>

DetectCommit(w) ==
  /\ pc[w] = "detect_commit"
  /\ CommitRows(w)
  /\ SetStatus("in_review")
  /\ EndSession(w)
  /\ UNCHANGED <<chainVars, objectVars, queueVars, faults>>

\* Mutant: spans are joined with their dispositions without a filter on action.
ApplyProject_AnyAction(w) ==
  /\ pc[w] = "project"
  /\ local' = [local EXCEPT ![w].approved =
                 {s \in Span : disposition[s] \in {"approved", "rejected"}}]
  /\ Goto(w, "started_append")
  /\ UNCHANGED <<rowVars, chainVars, flushVars, objectVars, queueVars, snap, faults>>

(* apply_job: project the approved spans, append apply_started, burn and    *)
(* verify, append the verdict, upload the artifact, commit.                 *)
ApplyProject(w) ==
  /\ pc[w] = "project"
  /\ local' = [local EXCEPT ![w].approved = {s \in Span : disposition[s] = "approved"}]
  /\ Goto(w, "started_append")
  /\ UNCHANGED <<rowVars, chainVars, flushVars, objectVars, queueVars, snap, faults>>

Burn(w) ==
  /\ pc[w] = "burn"
  /\ \E verdict \in VerifyAction : local' = [local EXCEPT ![w].verdict = {verdict}]
  /\ Goto(w, "verdict_append")
  /\ UNCHANGED <<rowVars, chainVars, flushVars, objectVars, queueVars, snap, faults>>

UploadRedacted(w) ==
  /\ pc[w] = "upload"
  /\ redacted_pdf' = [stored |-> TRUE, burned |-> local[w].approved]
  /\ Goto(w, "verified_commit")
  /\ UNCHANGED <<rowVars, chainVars, flushVars, manifest, queueVars, snap, local, faults>>

VerifiedCommit(w) ==
  /\ pc[w] = "verified_commit"
  /\ Chain!Commit(w)
  /\ job' = [job EXCEPT !.status = "verified", !.redacted_pdf_key = TRUE]
  /\ EndSession(w)
  /\ UNCHANGED <<page, disposition, flushVars, objectVars, queueVars, faults>>

FailedCommit(w) ==
  /\ pc[w] = "failed_commit"
  /\ Chain!Commit(w)
  /\ SetStatus("failed")
  /\ EndSession(w)
  /\ UNCHANGED <<page, disposition, flushVars, objectVars, queueVars, faults>>

(* fail_job: a fresh session loads the job again; the message is consumed   *)
(* whether or not the task re-raises.                                       *)
FailLoad(w) ==
  /\ pc[w] = "fail"
  /\ IF Allowed(job.status, "failed")
     THEN Goto(w, "fail_commit") /\ snap' = [snap EXCEPT ![w] = job.status] /\ UNCHANGED local
     ELSE EndSession(w)
  /\ UNCHANGED <<rowVars, chainVars, flushVars, objectVars, queueVars, faults>>

FailCommit(w) ==
  /\ pc[w] = "fail_commit"
  /\ SetStatus("failed")
  /\ EndSession(w)
  /\ UNCHANGED <<page, disposition, chainVars, flushVars, objectVars, queueVars, faults>>

-----------------------------------------------------------------------------
(* Faults.                                                                  *)
Fault(kind) ==
  /\ kind \in Faults
  /\ faults < MaxFaults
  /\ faults' = faults + 1

Busy(p) == pc[p] \notin {"idle", "done"}

FailLabels == {"fail", "fail_commit"}

ReturnMessage(w) ==
  /\ queue' = queue \cup held[w]
  /\ held' = [held EXCEPT ![w] = {}]

\* Mutant: the handler commits what was flushed before the exception.
Error_Commits(p) ==
  /\ Fault("error")
  /\ Busy(p) /\ pc[p] \notin EnqueueLabels \cup FailLabels \cup {"ack"}
  /\ IF link[p] = Chain!NoLink THEN Chain!Commit(p) ELSE Chain!Rollback(p)
  /\ AfterRollback(p)
  /\ UNCHANGED <<job, objectVars, queueVars>>

(* Storage, the database or PyMuPDF raises inside a task or an endpoint.    *)
Error(p) ==
  /\ Fault("error")
  /\ Busy(p) /\ pc[p] \notin EnqueueLabels \cup FailLabels \cup {"ack"}
  /\ Chain!Rollback(p)
  /\ AfterRollback(p)
  /\ UNCHANGED <<job, objectVars, queueVars>>

\* Mutant: messages are acknowledged on receipt.
Crash_LosesMessage(w) ==
  /\ Fault("crash")
  /\ Busy(w) /\ pc[w] \notin EnqueueLabels
  /\ Chain!Rollback(w)
  /\ DropRows(w)
  /\ CloseSession(w, "idle")
  /\ held' = [held EXCEPT ![w] = {}]
  /\ UNCHANGED <<job, objectVars, queue>>

(* The worker process dies; the broker puts its message back.               *)
Crash(w) ==
  /\ Fault("crash")
  /\ Busy(w) /\ pc[w] \notin EnqueueLabels
  /\ Chain!Rollback(w)
  /\ DropRows(w)
  /\ CloseSession(w, "idle")
  /\ ReturnMessage(w)
  /\ UNCHANGED <<job, objectVars>>

(* The broker loses the worker's channel and delivers the message again,    *)
(* while the task goes on.                                                  *)
Redeliver(w) ==
  /\ Fault("redeliver")
  /\ held[w] # {}
  /\ ReturnMessage(w)
  /\ UNCHANGED <<rowVars, chainVars, flushVars, objectVars, procVars>>

(* The broker refuses the message (kiq() raises), or the process dies,      *)
(* between a commit and its kiq().  A redelivered ingest_job is skipped by  *)
(* its guard.                                                               *)
LoseHandoff(p) ==
  /\ Fault("handoff")
  /\ pc[p] \in EnqueueLabels
  /\ \/ EndSession(p) /\ UNCHANGED queueVars
     \/ p \in Worker /\ CloseSession(p, "idle") /\ ReturnMessage(p)
  /\ UNCHANGED <<rowVars, chainVars, flushVars, objectVars>>

(* fail_job raises as well: the exception ends the task.                    *)
FailJobRaises(w) ==
  /\ Fault("fail_job")
  /\ pc[w] \in FailLabels
  /\ EndSession(w)
  /\ UNCHANGED <<rowVars, chainVars, flushVars, objectVars, queueVars>>

-----------------------------------------------------------------------------
AuditAppend(p) == ReadChainLink(p) \/ InsertEntry(p) \/ LoseSequence(p)

ReviewStep(r) ==
  \/ ReviewRead(r) \/ UpdateDisposition(r) \/ InsertDisposition(r)
  \/ InsertManualSpan(r) \/ LoseUniqueRow(r) \/ AuditAppend(r) \/ ReviewCommit(r)

ApplyStep(a) == ApplyCount(a) \/ ApplyCommit(a) \/ Kiq(a)

ExportStep(e) ==
  \/ ExportVerify(e) \/ ExportAssemble(e) \/ ExportUpload(e)
  \/ AuditAppend(e) \/ ExportCommit(e)

WorkerStep(w) ==
  \/ Deliver(w) \/ IngestCommit(w) \/ IngestReject(w) \/ Kiq(w)
  \/ DetectRead(w) \/ DetectFlush(w) \/ DetectLosePage(w) \/ DetectCommit(w)
  \/ ApplyProject(w) \/ AuditAppend(w) \/ Burn(w) \/ UploadRedacted(w)
  \/ VerifiedCommit(w) \/ FailedCommit(w) \/ FailLoad(w) \/ FailCommit(w)
  \/ Acknowledge(w)

FaultStep ==
  \/ \E p \in Process : Error(p) \/ LoseHandoff(p)
  \/ \E w \in Worker : Crash(w) \/ Redeliver(w) \/ FailJobRaises(w)

(* Every request answered, no message left and every slot idle.             *)
AllDone ==
  /\ \A r \in Request : pc[r] = "done"
  /\ \A w \in Worker : pc[w] = "idle"
  /\ queue = {}

Next ==
  \/ CreateJob
  \/ Kiq(Creator)
  \/ \E r \in Reviewer : ReviewLoad(r) \/ ReviewStep(r)
  \/ \E a \in Applier : ApplyLoad(a) \/ ApplyStep(a)
  \/ \E e \in Exporter : ExportLoad(e) \/ ExportStep(e)
  \/ \E w \in Worker : WorkerStep(w)
  \/ FaultStep
  \/ AllDone /\ UNCHANGED vars

Spec == Init /\ [][Next]_vars

(* A started request and a delivered task go on running; clients need not   *)
(* send another request.                                                    *)
Fairness ==
  /\ WF_vars(Kiq(Creator))
  /\ \A r \in Reviewer : WF_vars(ReviewStep(r))
  /\ \A a \in Applier : WF_vars(ApplyStep(a))
  /\ \A e \in Exporter : WF_vars(ExportStep(e))
  /\ \A w \in Worker : WF_vars(WorkerStep(w))

FairSpec == Spec /\ Fairness

=============================================================================
