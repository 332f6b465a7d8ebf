------------------------------ MODULE Documents ------------------------------
(***************************************************************************)
(* The documents endpoints: upload, download and delete, each a request    *)
(* with its own database session, over the object store of                 *)
(* StorageProviders.  A document is a row and an object, and no            *)
(* transaction covers both: upload flushes the row, writes the object and  *)
(* commits; delete removes the object and then commits the delete of the   *)
(* row.  Other requests, failures and the death of the worker come in      *)
(* between.  An uncommitted row is seen by its own session only.           *)
(*                                                                         *)
(* The activity decorator adds a row to the session after the endpoint     *)
(* has committed; it changes nothing here (see Accounts).                  *)
(***************************************************************************)
EXTENDS StorageProviders, Sequences, SequencesExt

CONSTANTS
  MaxFileSize,  \* settings.max_file_size_bytes
  ChunkSize     \* chunk_size of iter_file_chunks

ASSUME DocumentsAssumption == MaxFileSize \in Nat /\ ChunkSize \in Nat \ {0}

VARIABLES
  document,     \* committed rows of the document table, or NoRow
  req           \* per request: its progress, and what it answered

vars == <<document, req, storageVars>>

-----------------------------------------------------------------------------

\* Members of ALLOWED_MIME_TYPES and DANGEROUS_MIME_TYPES; a member of neither;
\* no content type at all.
MimeType == {"allowed", "dangerous", "other", "octet-stream", ""}

\* Mutant: the content type of the client is stored as it came.
sanitized_Raw(mime) == mime

sanitized(mime) == IF mime = "allowed" THEN mime ELSE "octet-stream"

NoRow == [org |-> NoOrg, content_type |-> "", file_size |-> 0, by |-> "nobody"]
Row == [org : Org, content_type : {"allowed", "octet-stream"}, file_size : Size, by : Caller]

Idle == [op |-> "none", org |-> NoOrg, doc |-> "nothing", size |-> 0, row |-> NoRow,
         pc |-> "idle", reply |-> 0, body |-> 0, committed |-> FALSE,
         met |-> FALSE]

Reply == {200, 201, 204, 302, 400, 404, 413, 422, 500, 503}

DocumentsTypeOK ==
  /\ StorageTypeOK
  /\ document \in [Doc -> Row \cup {NoRow}]
  /\ \A r \in Caller :
       /\ req[r].pc \in {"idle", "call", "commit", "refresh", "done"}
       /\ req[r].reply \in Reply \cup {0}
       /\ req[r].row \in Row \cup {NoRow}

Init ==
  /\ StorageInit
  /\ document = [d \in Doc |-> NoRow]
  /\ req = [r \in Caller |-> Idle]

-----------------------------------------------------------------------------

\* Lengths of the chunks of n bytes: range(0, n, k)
iter_file_chunks(n, k) ==
  LET count == (n + k - 1) \div k
  IN [i \in 1..count |-> IF i < count THEN k ELSE n - (count - 1) * k]

Streamed(n) == FoldSeq(LAMBDA x, y : x + y, 0, iter_file_chunks(n, ChunkSize))

Done(r, reply) == req' = [req EXCEPT ![r].pc = "done", ![r].reply = reply]

Available == service \in StorageProvider

\* The handlers of main.py for what no endpoint catches.
exception_reply(e) ==
  CASE e \in {"RequestValidationError", "ValidationError"} -> 422
    [] e \in {"ValueError", "TypeError"} -> 400
    [] OTHER -> 500

\* The storage dependency raised before the endpoint ran.
ServiceUnavailable(r) ==
  /\ req[r].pc = "idle" /\ ~ Available
  /\ Done(r, exception_reply(service))
  /\ UNCHANGED <<document, storageVars>>

\* file.read(max_file_size_bytes + 1): enough to tell an oversized file.
\* Mutant: the read stops at the limit, so an oversized file is cut, not refused.
read_limited_Exact(size) == IF size > MaxFileSize THEN MaxFileSize ELSE size

read_limited(size) == IF size > MaxFileSize + 1 THEN MaxFileSize + 1 ELSE size

\* The reply to an upload that is refused before anything is written; 0 if it is not.
refused(filename, mime, size) ==
  IF ~ filename \/ mime = "dangerous" THEN 400
  ELSE IF read_limited(size) > MaxFileSize THEN 413 ELSE 0

UploadRefused(r) ==
  /\ req[r].pc = "idle" /\ Available
  /\ \E filename \in BOOLEAN, mime \in MimeType, size \in Size :
       /\ refused(filename, mime, size) # 0
       /\ Done(r, refused(filename, mime, size))
  /\ UNCHANGED <<document, storageVars>>

FreshId(d) == \A r \in Caller : ~ (req[r].op = "upload" /\ req[r].doc = d)

\* The row is flushed with the session's own id, then the object is written.
UploadDocument(r) ==
  /\ req[r].pc = "idle" /\ Available
  /\ \E org \in Org, mime \in MimeType, size \in Size, d \in Doc :
       /\ refused(TRUE, mime, size) = 0
       /\ FreshId(d)
       /\ LET n == read_limited(size)
          IN /\ req' = [req EXCEPT ![r] =
                  [Idle EXCEPT !.op = "upload", !.org = org, !.doc = d, !.size = size,
                               !.pc = "call",
                               !.row = [org |-> org, content_type |-> sanitized(mime),
                                        file_size |-> n, by |-> r]]]
             /\ Invoke(r, "upload", org, d, Whole(n))
  /\ UNCHANGED <<document, settings, service, objects, faults>>

\* add_tenant_filter
\* Mutant: the query is not scoped to the tenant.
visible_AnyTenant(d, org) == document[d] # NoRow

visible(d, org) == document[d] # NoRow /\ document[d].org = org

NotFound(r) ==
  /\ req[r].pc = "idle" /\ Available
  /\ \E d \in Doc, org \in Org : ~ visible(d, org)
  /\ Done(r, 404)
  /\ UNCHANGED <<document, storageVars>>

\* The endpoint for op has selected the row; it calls the storage operation sop.
Selected(r, op, sop) ==
  /\ req[r].pc = "idle" /\ Available
  /\ \E d \in Doc, org \in Org :
       /\ visible(d, org)
       /\ req' = [req EXCEPT ![r] = [Idle EXCEPT !.op = op, !.org = org, !.doc = d,
                                                 !.row = document[d], !.pc = "call"]]
       /\ Invoke(r, sop, document[d].org, d, Missing)
  /\ UNCHANGED <<document, settings, service, objects, faults>>

\* A redirect when the settings name a cloud provider, else the content.
DownloadDocument(r) ==
  Selected(r, "download", IF settings.storage_provider \in CloudProvider
                          THEN "get_download_url" ELSE "download")

\* Mutant: the metadata goes first and the file afterwards.
DeleteDocument_RowFirst(r) ==
  /\ req[r].pc = "idle" /\ Available
  /\ \E d \in Doc, org \in Org :
       /\ visible(d, org)
       /\ document' = [document EXCEPT ![d] = NoRow]
       /\ req' = [req EXCEPT ![r] = [Idle EXCEPT !.op = "delete", !.org = org, !.doc = d,
                                                 !.row = document[d], !.pc = "call"]]
       /\ Invoke(r, "delete", document[d].org, d, Missing)
  /\ UNCHANGED <<settings, service, objects, faults>>

DeleteDocument(r) == Selected(r, "delete", "delete")

-----------------------------------------------------------------------------
(* The storage call has ended. *)

Answered(r, op) == req[r].pc = "call" /\ req[r].op = op /\ call[r].step = "done"

\* StorageError is caught and answered with 503, an OSError is not; either way
\* the session is rolled back.
StorageFailed(r) ==
  /\ req[r].pc = "call" /\ call[r].step = "done"
  /\ call[r].result \in {"StorageError", "OSError"}
  /\ req' = [req EXCEPT ![r].pc = "done", ![r].met = call[r].faulty,
                        ![r].reply = IF call[r].result = "StorageError" THEN 503
                                      ELSE exception_reply(call[r].result)]
  /\ UNCHANGED <<document, storageVars>>

\* Mutant: the handler of StorageError forgets to raise.
UploadStored_Swallowed(r) ==
  /\ Answered(r, "upload")
  /\ call[r].result \in {"ok", "StorageError"}
  /\ req' = [req EXCEPT ![r].pc = "commit"]
  /\ UNCHANGED <<document, storageVars>>

UploadStored(r) ==
  /\ Answered(r, "upload") /\ call[r].result = "ok"
  /\ req' = [req EXCEPT ![r].pc = "commit"]
  /\ UNCHANGED <<document, storageVars>>

FileDeleted(r) ==
  /\ Answered(r, "delete") /\ call[r].result \in {"ok", "absent"}
  /\ req' = [req EXCEPT ![r].pc = "commit"]
  /\ UNCHANGED <<document, storageVars>>

\* A stream of the content, a redirect, or 404 when only the metadata exists.
DownloadAnswered(r) ==
  /\ Answered(r, "download")
  /\ \/ /\ call[r].op = "get_download_url" /\ call[r].result = "ok"
        /\ Done(r, 302)
     \/ /\ call[r].op = "download" /\ call[r].result = "absent"
        /\ Done(r, 404)
     \/ /\ call[r].op = "download" /\ call[r].result = "ok"
        /\ req' = [req EXCEPT ![r].pc = "done", ![r].reply = 200,
                              ![r].body = Streamed(call[r].body.size)]
  /\ UNCHANGED <<document, storageVars>>

-----------------------------------------------------------------------------
(* The end of the session. *)

\* Request r meets a failure that ends it with reply.
Broken(r, reply) ==
  /\ faults < MaxFaults /\ faults' = faults + 1
  /\ req' = [req EXCEPT ![r].pc = "done", ![r].met = TRUE, ![r].reply = reply]

UploadCommitted(r) ==
  /\ req[r].pc = "commit" /\ req[r].op = "upload"
  /\ document' = [document EXCEPT ![req[r].doc] = req[r].row]
  /\ req' = [req EXCEPT ![r].pc = "refresh", ![r].committed = TRUE]
  /\ UNCHANGED storageVars

\* session.refresh reads the row once more before it is returned.
UploadAnswered(r) ==
  /\ req[r].pc = "refresh"
  /\ Done(r, 201)
  /\ UNCHANGED <<document, storageVars>>

\* A row another delete has already removed is deleted without an error.
DeleteCommitted(r) ==
  /\ req[r].pc = "commit" /\ req[r].op = "delete"
  /\ document' = [document EXCEPT ![req[r].doc] = NoRow]
  /\ req' = [req EXCEPT ![r].pc = "done", ![r].reply = 204, ![r].committed = TRUE]
  /\ UNCHANGED storageVars

\* The commit or the refresh raises: get_session rolls back what is not committed.
SessionFails(r) ==
  /\ req[r].pc \in {"commit", "refresh"}
  /\ Broken(r, 500)
  /\ UNCHANGED <<document, settings, service, objects, call>>

\* The worker dies: no reply, and whatever was not committed is lost.
WorkerDies(r) ==
  /\ req[r].pc \in {"call", "commit", "refresh"}
  /\ Broken(r, 0)
  /\ call' = [call EXCEPT ![r] = NoCall]
  /\ UNCHANGED <<document, settings, service, objects>>

EndpointStep(r) ==
  \/ StorageFailed(r) \/ UploadStored(r) \/ FileDeleted(r) \/ DownloadAnswered(r)
  \/ UploadCommitted(r) \/ UploadAnswered(r) \/ DeleteCommitted(r)

StorageCall(r) == StorageStep(r) /\ UNCHANGED <<document, req>>

Next ==
  \E r \in Caller :
    \/ ServiceUnavailable(r) \/ UploadRefused(r) \/ NotFound(r)
    \/ UploadDocument(r) \/ DownloadDocument(r) \/ DeleteDocument(r)
    \/ StorageCall(r) \/ EndpointStep(r)
    \/ SessionFails(r) \/ WorkerDies(r)

Spec == Init /\ [][Next]_vars

-----------------------------------------------------------------------------
(* Properties *)

ObjectsOf(d) == {k \in Key : k[Len(k)] = d /\ objects[k] # Missing}

\* An object no row refers to was left behind by an upload that did not commit;
\* no delete, however it ends, leaves the file of a document it has forgotten.
OrphansAreUnfinishedUploads ==
  \A d \in Doc : ObjectsOf(d) # {} /\ document[d] = NoRow =>
    \E r \in Caller : req[r].op = "upload" /\ req[r].doc = d /\ ~ req[r].committed

\* A committed row always has its whole file, unless a delete of that document
\* was begun: the row is committed after the file is written, never instead.
FileLossIsADelete ==
  \A d \in Doc : document[d] # NoRow =>
    \/ objects[ObjectKey(document[d].org, d)] = Whole(document[d].file_size)
    \/ \E r \in Caller : req[r].op = "delete" /\ req[r].doc = d

\* A download that is answered with 200 streams, over all its chunks, exactly
\* as many bytes as the client uploaded, whatever the size limit did.
ServedIsUploaded ==
  \A r \in Caller : req[r].reply = 200 => req[r].body = req[req[r].row.by].size

\* With a cloud provider, a delete that meets no failure itself is answered with
\* 204 and leaves no row, also when it repeats one that failed half way or races
\* with another one.  (The local provider answers the loser of a race with 503.)
CloudDeletesAreRepeatable ==
  service \in CloudProvider =>
    \A r \in Caller : req[r].op = "delete" /\ req[r].pc = "done" /\ ~ req[r].met =>
      req[r].reply = 204 /\ document[req[r].doc] = NoRow

\* Rows and whole files disappear only by a delete of their own organization.
TenantsDeleteTheirOwn ==
  [][\A d \in Doc, o \in Org :
       \/ document[d] # NoRow /\ document[d].org = o /\ document'[d] = NoRow
       \/ document[d] # NoRow /\ document[d].org = o /\ objects[ObjectKey(o, d)] # Missing
            /\ objects'[ObjectKey(o, d)] = Missing
       => \E r \in Caller : req'[r].op = "delete" /\ req'[r].doc = d /\ req'[r].org = o]_vars

\* What a client can find of document d.
DocumentState ==
  [d \in Doc |->
     IF document[d] # NoRow
     THEN IF objects[ObjectKey(document[d].org, d)] = Whole(document[d].file_size)
          THEN "stored" ELSE "unavailable"
     ELSE IF \E r \in Caller : req[r].op = "upload" /\ req[r].doc = d /\ req[r].committed
          THEN "gone" ELSE "none"]

Lifecycle == INSTANCE DocumentLifecycle WITH document <- DocumentState

\* The endpoints implement the life of a document that DocumentLifecycle states.
DocumentLifecycleSpec == Lifecycle!Spec

\* Files are kept as long as clients may ask for them and no longer: rows and
\* objects match but for what is under way, and only their tenant deletes them.
FilesAreKept ==
  /\ [](OrphansAreUnfinishedUploads /\ FileLossIsADelete)
  /\ TenantsDeleteTheirOwn

=============================================================================
