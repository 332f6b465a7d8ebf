------------------------- MODULE PipelineProperties -------------------------
(* What the pipeline promises, under any interleaving of its sessions and    *)
(* any faults, and what it promises of the progress of a job.                *)
EXTENDS RedactionPipeline

JobRow == [status : JobStatuses \cup {NoJob}, redacted_pdf_key : BOOLEAN,
           candidates : SpansFound \cup {0}]

Labels == {"idle", "done", "ack", "fail", "fail_commit", "ingest", "detect", "detect_flush",
           "detect_commit", "project", "burn", "upload", "verified_commit",
           "failed_commit", "review", "review_flush", "review_commit",
           "apply_count", "apply_commit", "export_verify", "export_assemble",
           "export_upload", "export_commit"} \cup AppendLabels \cup EnqueueLabels

SpanState == {"absent", "none", "approved", "rejected"}

Local == [item : SUBSET Item, seen : SpanState, page : BOOLEAN,
          approved : SUBSET Span, verdict : SUBSET VerifyAction,
          entry_count : Nat, listed : Nat]

(* Type invariant of the pipeline: rows, objects, messages and sessions.     *)
RowTypes ==
  /\ job \in JobRow
  /\ page \in BOOLEAN
  /\ disposition \in [Span -> SpanState]
  /\ writes \in [Process -> SUBSET [span : Span, value : SpanState]]
  /\ newpage \in [Process -> BOOLEAN]

ObjectTypes ==
  /\ redacted_pdf \in [stored : BOOLEAN, burned : SUBSET Span]
  /\ manifest \in [stored : BOOLEAN, entry_count : Nat, listed : Nat]

QueueTypes ==
  /\ queue \subseteq Message
  /\ held \in [Worker -> SUBSET Message]
  /\ \A w \in Worker : Cardinality(held[w]) <= 1

SessionTypes ==
  /\ pc \in [Process -> Labels]
  /\ snap \in [Process -> JobStatuses \cup {NoJob}]
  /\ local \in [Process -> Local]

TypeOK ==
  /\ RowTypes /\ ObjectTypes /\ QueueTypes /\ SessionTypes
  /\ Chain!TypeOK
  /\ faults \in 0 .. MaxFaults

-----------------------------------------------------------------------------
(* Safety.                                                                   *)

(* Each step of the pipeline is an append of AuditChain or leaves the chain  *)
(* alone, so the theorems about AuditChain hold of every job.                *)
ChainSpec == Chain!Spec

(* Nobody's interleaving makes export refuse the job for a broken chain.     *)
ChainVerifies == Chain!EveryViewVerifies

(* verify_audit_chain and the manifest are only reached with an artifact:    *)
(* a job at verified or exported has its key set and the object stored,      *)
(* though row and object are written in separate steps and may be rewritten. *)
ExportableHasArtifact ==
  job.status \in {"verified", "exported"} => job.redacted_pdf_key /\ redacted_pdf.stored

(* The chain reads as a sequence of whole apply attempts: apply_started of a *)
(* session is followed at once by that session's verdict, and no verdict     *)
(* stands alone, although attempts may run concurrently and crash half way.  *)
AttemptsAreWhole ==
  /\ \A e \in audit_entry : e.payload.action = "apply_started" =>
       \E f \in audit_entry : /\ f.sequence = e.sequence + 1
                              /\ f.payload.action \in VerifyAction
                              /\ f.payload.by = e.payload.by
  /\ \A f \in audit_entry : f.payload.action \in VerifyAction =>
       \E e \in audit_entry : /\ f.sequence = e.sequence + 1
                              /\ e.payload.action = "apply_started"
                              /\ f.payload.by = e.payload.by

(* No export of a document whose redaction did not pass the verify gate: an  *)
(* exported entry, and a job status of verified or exported, comes after a   *)
(* verify_passed entry of the chain.                                         *)
ExportIsVerified ==
  /\ \A e \in audit_entry : e.payload.action = "exported" =>
       \E f \in audit_entry : /\ f.payload.action = "verify_passed"
                              /\ f.sequence < e.sequence
  /\ job.status \in {"verified", "exported"} =>
       \E f \in audit_entry : f.payload.action = "verify_passed"

(* Nothing is burned in unless the audit chain names the reviewer decision   *)
(* that approved it.                                                         *)
BurnedWasApproved ==
  \A s \in redacted_pdf.burned :
    \E e \in audit_entry : /\ e.payload.span = s
                           /\ e.payload.action \in ReviewAction \ {"rejected"}

SpanEntries(s) == {e \in audit_entry : e.payload.span = s}

(* A span is dispositioned if and only if the chain has an entry about it,   *)
(* although the row and its entry are flushed at different times and either  *)
(* flush may lose a race, and a batch may fail after one of them.            *)
DecisionIsAudited ==
  \A s \in Span : disposition[s] \in {"approved", "rejected"} <=> SpanEntries(s) # {}

(* The last entry about a span explains its row.  An approved span was not   *)
(* rejected last; a rejected one was, or was edited since by a reviewer who  *)
(* had read it as approved: the ORM leaves the action such an edit does not  *)
(* change out of the UPDATE, so that an edit racing a rejection loses.       *)
Ruled(s) == {e \in SpanEntries(s) : e.payload.action # "edited"}

DecisionIsTold ==
  \A s \in Span :
    /\ disposition[s] = "approved" => Chain!Last(SpanEntries(s)).payload.action # "rejected"
    /\ disposition[s] = "rejected" => Chain!Last(Ruled(s)).payload.action = "rejected"

(* The entries that move a job to verified, failed or exported.              *)
Outcomes == {e \in audit_entry : e.payload.action \in VerifyAction \cup {"exported"}}

StatusTold(status, action) ==
  job.status = status =>
    /\ Outcomes # {}
    /\ Chain!Last(Outcomes).payload.action = action

(* The status a client reads is the one the trail ends with.  Applies and    *)
(* exports overlap, and each overwrites the status from a stale copy; still  *)
(* no job is verified whose last verdict is a failure or that was exported   *)
(* since, and none is exported that was judged again since.                  *)
StatusIsTold ==
  /\ StatusTold("verified", "verify_passed")
  /\ StatusTold("exported", "exported")

(* Every exported entry has a manifest in storage, and the manifest stands   *)
(* on the chain whichever of the overlapping exports stored it last: it      *)
(* lists all entries it counts (more, if some were appended between the two  *)
(* reads), none that is not committed, and counts a passed verdict.          *)
ManifestIsBacked ==
  /\ (\E e \in audit_entry : e.payload.action = "exported") => manifest.stored
  /\ manifest.stored =>
       /\ manifest.entry_count <= manifest.listed
       /\ manifest.listed <= Cardinality(audit_entry)
       /\ \E f \in audit_entry : /\ f.payload.action = "verify_passed"
                                 /\ f.sequence <= manifest.entry_count

-----------------------------------------------------------------------------
(* Progress.                                                                 *)

(* A job waiting for a task does not wait for ever: its task runs and moves  *)
(* it on, to failed if need be.  Clients poll for this outcome.              *)
LeavesStatus(s) == job.status = s ~> job.status # s

TasksFinish ==
  LeavesStatus("uploaded") /\ LeavesStatus("ingested") /\ LeavesStatus("applying")

(* An ingested job is handed to detect_job or marked failed: "any other      *)
(* error propagates as a task failure after the job is marked FAILED"        *)
(* (ingest_job).                                                             *)
IngestHandsOver == LeavesStatus("ingested")

=============================================================================
