-------------------------- MODULE Documents_proofs --------------------------
(* Rows and files match but for what is under way, for any requests, tenants *)
(* and documents, whatever provider the settings name and whatever fails;    *)
(* and what clients see of a document is the life DocumentLifecycle states.  *)
EXTENDS Documents, WellFoundedInduction, FiniteSetTheorems, TLAPS

Failure == {"StorageError", "OSError"}

Body == {0} \cup {Streamed(n) : n \in Size}

Request == [op : {"none", "upload", "download", "delete"}, org : Org \cup {NoOrg},
            doc : Doc \cup {"nothing"}, size : Size \cup {0}, row : Row \cup {NoRow},
            pc : {"idle", "call", "commit", "refresh", "done"}, reply : Reply \cup {0},
            body : Body, committed : BOOLEAN, met : BOOLEAN]

StateTypes == DocumentsTypeOK /\ req \in [Caller -> Request]

-----------------------------------------------------------------------------
(* What holds of one request q with its storage call c; obj is the object at *)
(* its key, row the committed row of its document.                           *)

\* q has uploaded row as document d.
Uploaded(q, d, row) == q.op = "upload" /\ q.doc = d /\ q.row = row /\ q.committed

Progress(q, c) ==
  /\ q.pc = "idle" => q = Idle
  /\ q.op = "none" => q.pc \in {"idle", "done"} /\ q.reply # 200
  /\ q.op # "none" => /\ q.org \in Org /\ q.doc \in Doc /\ q.row \in Row
                      /\ q.row.org = q.org
  /\ q.pc = "call" => /\ c.step # "idle" /\ c.key = <<q.org, q.doc>>
                      /\ c.op = q.op \/ (q.op = "download" /\ c.op = "get_download_url")
  /\ q.pc # "call" => c.step \in {"idle", "done"}

\* The file is written before the row is committed; afterwards only a delete
\* takes it away, and it does so before the row goes.
UploadInv(r, q, c, obj, row) ==
  q.op = "upload" =>
    /\ q.row.by = r /\ q.row.file_size = q.size /\ q.size \in Size
    /\ q.pc \in {"call", "commit"} => ~ q.committed
    /\ q.pc = "refresh" => q.committed
    /\ q.reply # 200
    /\ q.pc = "call" => c.data = Whole(q.size)
    /\ q.pc = "call" /\ c.step = "done" /\ c.result = "ok" => obj = Whole(q.size)
    /\ q.pc = "commit" => obj = Whole(q.size)
    /\ ~ q.committed => row = NoRow
    /\ q.committed => obj \in {Whole(q.size), Missing} /\ (row = q.row \/ obj = Missing)
    /\ q.committed => row \in {q.row, NoRow}

DownloadInv(q, c) ==
  q.op = "download" =>
    /\ q.pc \in {"call", "done"}
    /\ q.pc = "call" /\ c.step = "done" /\ c.op = "download" /\ c.result = "ok" =>
         c.body = Whole(q.row.file_size)
    /\ q.reply = 200 => q.body = Streamed(q.row.file_size)

\* Once a delete has an answer of the store, or has met none but its own
\* failures, nothing brings the file or the row back.
DeleteInv(q, c, obj, row, s) ==
  q.op = "delete" =>
    /\ q.pc \in {"call", "commit", "done"} /\ q.reply # 200
    /\ q.pc = "call" /\ c.step = "done" /\ c.result \in {"ok", "absent"} => obj = Missing
    /\ q.pc = "commit" => obj = Missing
    /\ q.pc = "call" /\ c.step = "done" /\ c.result \in Failure /\ s \in CloudProvider =>
         c.faulty
    /\ q.pc = "done" /\ q.reply = 204 => row = NoRow
    /\ q.pc = "done" /\ s \in CloudProvider => q.met \/ q.reply = 204

File(q) == <<q.org, q.doc>>

RequestInv(r) ==
  /\ Progress(req[r], call[r])
  /\ UploadInv(r, req[r], call[r], objects[File(req[r])], document[req[r].doc])
  /\ DownloadInv(req[r], call[r])
  /\ DeleteInv(req[r], call[r], objects[File(req[r])], document[req[r].doc], service)

\* Rows, and what downloads and deletes have read of them, are what one request
\* has uploaded; it is the only one with that document.
RowsInv ==
  /\ \A d \in Doc : document[d] # NoRow =>
       document[d].by \in Caller /\ Uploaded(req[document[d].by], d, document[d])
  /\ \A r \in Caller : req[r].op \in {"download", "delete"} =>
       Uploaded(req[req[r].row.by], req[r].doc, req[r].row)
  /\ \A r, s \in Caller :
       req[r].op = "upload" /\ req[s].op = "upload" /\ req[r].doc = req[s].doc => r = s

\* Objects are those of uploads; one that is gone was deleted.
FilesInv ==
  /\ \A k \in Key : objects[k] # Missing => \E r \in Caller : req[r].op = "upload" /\ k = File(req[r])
  /\ \A r \in Caller : req[r].op = "upload" /\ req[r].committed /\ objects[File(req[r])] = Missing =>
       \E s \in Caller : req[s].op = "delete" /\ req[s].doc = req[r].doc

IInv == StateTypes /\ (\A r \in Caller : RequestInv(r)) /\ RowsInv /\ FilesInv

-----------------------------------------------------------------------------

LEMMA KeyOf ==
  ASSUME NEW o \in Org, NEW d
  PROVE  ObjectKey(o, d) = <<o, d>>
BY StorageAssumption DEF ObjectKey, LocalFilePath, AzureBlobName, S3ObjectKey, GCSBlobName

LEMMA RowIsNot == NoRow \notin Row /\ Idle \in Request
<1>1. NoRow \notin Row
  BY StorageAssumption DEF NoRow, Row
<1>2. Idle \in Request
  BY DEF Idle, Request, Body
<1>3. QED
  BY <1>1, <1>2

LEMMA InvInit == Init => IInv
<1> SUFFICES ASSUME Init
             PROVE  IInv
  OBVIOUS
<1> USE DEF Init, StorageInit
<1>1. service \in StorageProvider \cup {"ValueError", "ImportError"}
  BY DEF StorageServiceDep, get_storage_service, get_local_storage, get_azure_storage,
     get_s3_storage, get_gcs_storage, BuildCloud, StorageProvider, ImportsClass
<1>2. StorageTypeOK
  BY <1>1, StorageAssumption DEF StorageTypeOK, Object, Call
<1>3. /\ \A r \in Caller : req[r] = Idle /\ call[r] = NoCall
      /\ \A d \in Doc : document[d] = NoRow
      /\ \A k \in Key : objects[k] = Missing
  OBVIOUS
<1>4. DocumentsTypeOK /\ req \in [Caller -> Request]
  BY <1>2, <1>3, RowIsNot DEF DocumentsTypeOK, Idle
<1>5. \A r \in Caller : RequestInv(r)
  BY <1>3 DEF RequestInv, Progress, UploadInv, DownloadInv, DeleteInv, Idle, NoCall
<1>6. RowsInv /\ FilesInv
  BY <1>3 DEF RowsInv, FilesInv, Idle
<1>7. QED
  BY <1>4, <1>5, <1>6 DEF IInv, StateTypes

-----------------------------------------------------------------------------
(* A step that changes one request and its call, not the rows and files.     *)

\* What was uploaded, or found, stays so; what is uploaded now is new.
Same(p, q) == q.op = p.op /\ q.org = p.org /\ q.doc = p.doc /\ q.row = p.row
                /\ q.size = p.size /\ q.committed = p.committed

Begins(q) ==
  \/ q.op = "upload" /\ FreshId(q.doc) /\ ~ q.committed
  \/ q.op \in {"download", "delete"} /\ Uploaded(req[q.row.by], q.doc, q.row)
       /\ q.row.by \in Caller

LEMMA BecomesKeeps ==
  ASSUME IInv, NEW r \in Caller, NEW q \in Request, NEW c \in Call,
         req' = [req EXCEPT ![r] = q], call' = [call EXCEPT ![r] = c],
         UNCHANGED <<document, objects, service, settings>>, faults' \in 0..MaxFaults,
         Same(req[r], q) \/ (req[r].op = "none" /\ Begins(q)),
         Progress(q, c), UploadInv(r, q, c, objects[File(q)], document[q.doc]),
         DownloadInv(q, c), DeleteInv(q, c, objects[File(q)], document[q.doc], service)
  PROVE  IInv'
<1>1. /\ req'[r] = q /\ call'[r] = c
      /\ \A s \in Caller \ {r} : req'[s] = req[s] /\ call'[s] = call[s]
      /\ req' \in [Caller -> Request] /\ call' \in [Caller -> Call]
  BY DEF IInv, StateTypes, DocumentsTypeOK, StorageTypeOK
<1>2. StateTypes'
  BY <1>1 DEF IInv, StateTypes, DocumentsTypeOK, StorageTypeOK, Request
<1>3. ASSUME NEW s \in Caller
      PROVE  RequestInv(s)'
  <2>1. CASE s = r
    BY <1>1, <2>1 DEF RequestInv
  <2>2. CASE s # r
    BY <1>1, <2>2 DEF RequestInv, IInv
  <2>3. QED
    BY <2>1, <2>2
<1>4. \A u \in Caller : \A d, row : Uploaded(req[u], d, row) => Uploaded(req'[u], d, row)
  BY <1>1 DEF Uploaded, Same
<1>5. RowsInv'
  <2>1. ASSUME NEW d \in Doc, document'[d] # NoRow
        PROVE  document'[d].by \in Caller /\ Uploaded(req'[document'[d].by], d, document'[d])
    BY <1>4, <2>1 DEF IInv, RowsInv
  <2>2. ASSUME NEW s \in Caller, req'[s].op \in {"download", "delete"}
        PROVE  Uploaded(req'[req'[s].row.by], req'[s].doc, req'[s].row)
    <3>1. /\ req'[s].row.by \in Caller
          /\ Uploaded(req[req'[s].row.by], req'[s].doc, req'[s].row)
      <4>1. CASE s = r /\ Begins(q)
        BY <1>1, <2>2, <4>1 DEF Begins
      <4>2. CASE s = r /\ Same(req[r], q)
        <5>1. req[s].op \in {"download", "delete"} /\ req'[s].row = req[s].row
                /\ req'[s].doc = req[s].doc
          BY <1>1, <2>2, <4>2 DEF Same
        <5>2. req[s].row \in Row
          BY <5>1 DEF IInv, RequestInv, Progress
        <5>3. QED
          BY <5>1, <5>2 DEF IInv, RowsInv, Row
      <4>3. CASE s # r
        <5>1. req[s].op \in {"download", "delete"} /\ req'[s] = req[s]
          BY <1>1, <2>2, <4>3
        <5>2. req[s].row \in Row
          BY <5>1 DEF IInv, RequestInv, Progress
        <5>3. QED
          BY <5>1, <5>2 DEF IInv, RowsInv, Row
      <4>4. QED
        BY <4>1, <4>2, <4>3
    <3>2. QED
      BY <1>4, <3>1
  <2>3. ASSUME NEW s \in Caller, NEW t \in Caller, req'[s].op = "upload",
               req'[t].op = "upload", req'[s].doc = req'[t].doc
        PROVE  s = t
    BY <1>1, <2>3 DEF IInv, RowsInv, Same, Begins, FreshId
  <2>4. QED
    BY <2>1, <2>2, <2>3 DEF RowsInv
<1>6. FilesInv'
  <2>1. ASSUME NEW k \in Key, objects'[k] # Missing
        PROVE  \E s \in Caller : req'[s].op = "upload" /\ k = File(req'[s])
    <3>1. PICK s \in Caller : req[s].op = "upload" /\ k = File(req[s])
      BY <2>1 DEF IInv, FilesInv
    <3>2. req'[s].op = "upload" /\ k = File(req'[s])
      BY <1>1, <3>1 DEF Same, File
    <3>3. QED
      BY <3>2
  <2>2. ASSUME NEW s \in Caller, req'[s].op = "upload", req'[s].committed,
               objects'[File(req'[s])] = Missing
        PROVE  \E t \in Caller : req'[t].op = "delete" /\ req'[t].doc = req'[s].doc
    <3>1. req[s].op = "upload" /\ req[s].committed /\ File(req'[s]) = File(req[s])
            /\ req'[s].doc = req[s].doc
      BY <1>1, <2>2 DEF Same, Begins, File
    <3>2. PICK t \in Caller : req[t].op = "delete" /\ req[t].doc = req[s].doc
      BY <2>2, <3>1 DEF IInv, FilesInv
    <3>3. req'[t].op = "delete" /\ req'[t].doc = req[t].doc
      BY <1>1, <3>2 DEF Same
    <3>4. QED
      BY <3>1, <3>2, <3>3
  <2>3. QED
    BY <2>1, <2>2 DEF FilesInv
<1>7. QED
  BY <1>2, <1>3, <1>5, <1>6 DEF IInv

LEMMA RequestTypes ==
  ASSUME IInv, NEW r \in Caller
  PROVE  req[r] \in Request /\ call[r] \in Call /\ RequestInv(r) /\ faults \in 0..MaxFaults
           /\ req \in [Caller -> Request] /\ call \in [Caller -> Call]
BY DEF IInv, StateTypes, DocumentsTypeOK, StorageTypeOK

LEMMA RefusalKeeps ==
  ASSUME IInv, NEW r \in Caller, req[r].pc = "idle", NEW reply \in Reply \ {200},
         Done(r, reply), UNCHANGED <<document, storageVars>>
  PROVE  IInv'
<1> DEFINE q == [req[r] EXCEPT !.pc = "done", !.reply = reply]
<1>1. req[r] = Idle /\ call[r].step \in {"idle", "done"}
  BY RequestTypes DEF RequestInv, Progress
<1>2. q \in Request
  <2>1. req[r] \in Request
    BY RequestTypes
  <2>2. reply \in Reply \cup {0}
    OBVIOUS
  <2>3. QED
    BY <2>1, <2>2 DEF Request
<1>3. q.op = "none" /\ q.pc = "done" /\ q.reply # 200 /\ Same(req[r], q)
  BY <1>1 DEF Idle, Same
<1>4. req' = [req EXCEPT ![r] = q] /\ call' = [call EXCEPT ![r] = call[r]]
  BY RequestTypes DEF Done, storageVars
<1>5. UNCHANGED <<document, objects, service, settings, faults>>
  BY DEF storageVars
<1> HIDE DEF q
<1>6. Progress(q, call[r])
  BY <1>1, <1>3 DEF Progress
<1>7. /\ UploadInv(r, q, call[r], objects[File(q)], document[q.doc])
      /\ DownloadInv(q, call[r])
      /\ DeleteInv(q, call[r], objects[File(q)], document[q.doc], service)
  BY <1>3 DEF UploadInv, DownloadInv, DeleteInv
<1>8. QED
  BY <1>2, <1>3, <1>4, <1>5, <1>6, <1>7, BecomesKeeps, RequestTypes

LEMMA UnavailableKeeps ==
  ASSUME IInv, NEW r \in Caller, ServiceUnavailable(r)
  PROVE  IInv'
<1>1. exception_reply(service) \in Reply \ {200}
  BY DEF exception_reply, Reply
<1>2. QED
  BY <1>1, RefusalKeeps DEF ServiceUnavailable

LEMMA UploadRefusedKeeps ==
  ASSUME IInv, NEW r \in Caller, UploadRefused(r)
  PROVE  IInv'
<1>1. PICK filename \in BOOLEAN, mime \in MimeType, size \in Size :
        refused(filename, mime, size) # 0 /\ Done(r, refused(filename, mime, size))
  BY DEF UploadRefused
<1>2. refused(filename, mime, size) \in Reply \ {200}
  BY <1>1 DEF refused, Reply
<1>3. QED
  BY <1>1, <1>2, RefusalKeeps DEF UploadRefused

LEMMA NotFoundKeeps ==
  ASSUME IInv, NEW r \in Caller, NotFound(r)
  PROVE  IInv'
BY RefusalKeeps DEF NotFound, Reply

\* No request has its document before it begins with it, so there is no row yet.
LEMMA FreshIsNoRow ==
  ASSUME IInv, NEW d \in Doc, FreshId(d)
  PROVE  document[d] = NoRow
BY DEF IInv, RowsInv, Uploaded, FreshId

LEMMA InvokedCall ==
  ASSUME NEW op \in Operation, NEW org \in Org, NEW d \in Doc, NEW data \in Object
  PROVE  [NoCall EXCEPT !.op = op, !.step = "start", !.data = data, !.key = ObjectKey(org, d)]
           \in Call
<1>1. ObjectKey(org, d) \in Key
  BY KeyOf DEF Key
<1>2. Missing \in Object
  BY DEF Object
<1>3. QED
  BY <1>1, <1>2 DEF NoCall, Call, Result

LEMMA UploadKeeps ==
  ASSUME IInv, NEW r \in Caller, UploadDocument(r)
  PROVE  IInv'
<1>1. PICK org \in Org, mime \in MimeType, size \in Size, d \in Doc :
        /\ refused(TRUE, mime, size) = 0
        /\ FreshId(d)
        /\ req' = [req EXCEPT ![r] =
              [Idle EXCEPT !.op = "upload", !.org = org, !.doc = d, !.size = size,
                           !.pc = "call",
                           !.row = [org |-> org, content_type |-> sanitized(mime),
                                    file_size |-> read_limited(size), by |-> r]]]
        /\ Invoke(r, "upload", org, d, Whole(read_limited(size)))
  BY DEF UploadDocument
<1>2. read_limited(size) = size
  BY <1>1, DocumentsAssumption, StorageAssumption DEF refused, read_limited
<1> DEFINE row == [org |-> org, content_type |-> sanitized(mime), file_size |-> size, by |-> r]
           q == [Idle EXCEPT !.op = "upload", !.org = org, !.doc = d, !.size = size,
                             !.pc = "call", !.row = row]
           c == [NoCall EXCEPT !.op = "upload", !.step = "start", !.data = Whole(size),
                               !.key = ObjectKey(org, d)]
<1>3. row \in Row
  BY DEF Row, sanitized
<1>4. q \in Request
  BY <1>3 DEF Request, Idle, Reply, Body
<1>5. c \in Call
  BY InvokedCall DEF Operation, Object
<1>6. /\ q.op = "upload" /\ q.org = org /\ q.doc = d /\ q.row = row /\ q.pc = "call"
      /\ ~ q.committed /\ q.size = size /\ q.reply = 0
      /\ row.by = r /\ row.file_size = size /\ row.org = org
  BY DEF Idle
<1>7. c.op = "upload" /\ c.step = "start" /\ c.data = Whole(size) /\ c.key = <<org, d>>
  BY KeyOf DEF NoCall
<1>8. req' = [req EXCEPT ![r] = q] /\ call' = [call EXCEPT ![r] = c]
  BY <1>1, <1>2 DEF Invoke
<1>9. /\ UNCHANGED <<document, objects, service, settings>> /\ faults' \in 0..MaxFaults
      /\ req[r].op = "none" /\ document[d] = NoRow
  BY <1>1, RequestTypes, FreshIsNoRow DEF UploadDocument, RequestInv, Progress, Idle
<1> HIDE DEF q, c, row
<1>10. Begins(q)
  BY <1>1, <1>6 DEF Begins
<1>11. Progress(q, c)
  BY <1>3, <1>6, <1>7 DEF Progress
<1>12. /\ UploadInv(r, q, c, objects[File(q)], document[q.doc])
       /\ DownloadInv(q, c)
       /\ DeleteInv(q, c, objects[File(q)], document[q.doc], service)
  BY <1>6, <1>7, <1>9 DEF UploadInv, DownloadInv, DeleteInv
<1>13. QED
  BY <1>4, <1>5, <1>8, <1>9, <1>10, <1>11, <1>12, BecomesKeeps

LEMMA SelectedKeeps ==
  ASSUME IInv, NEW r \in Caller, NEW op \in {"download", "delete"}, NEW sop \in Operation,
         sop = op \/ (op = "download" /\ sop = "get_download_url"), Selected(r, op, sop)
  PROVE  IInv'
<1>1. PICK d \in Doc, org \in Org :
        /\ visible(d, org)
        /\ req' = [req EXCEPT ![r] = [Idle EXCEPT !.op = op, !.org = org, !.doc = d,
                                                  !.row = document[d], !.pc = "call"]]
        /\ Invoke(r, sop, document[d].org, d, Missing)
  BY DEF Selected
<1>2. document[d] \in Row /\ document[d].org = org
  BY <1>1 DEF visible, IInv, StateTypes, DocumentsTypeOK
<1>3. document[d].by \in Caller /\ Uploaded(req[document[d].by], d, document[d])
  BY <1>1 DEF visible, IInv, RowsInv
<1> DEFINE q == [Idle EXCEPT !.op = op, !.org = org, !.doc = d, !.row = document[d],
                             !.pc = "call"]
           c == [NoCall EXCEPT !.op = sop, !.step = "start", !.data = Missing,
                               !.key = ObjectKey(org, d)]
<1>4. q \in Request
  <2>1. 0 \in Size \cup {0} /\ 0 \in Reply \cup {0} /\ 0 \in Body
    BY DEF Body
  <2>2. QED
    BY <1>2, <2>1 DEF Request, Idle
<1>5. c \in Call
  BY InvokedCall DEF Object
<1>6. q.op = op /\ q.org = org /\ q.doc = d /\ q.row = document[d] /\ q.pc = "call"
        /\ q.reply = 0
  BY DEF Idle
<1>7. c.op = sop /\ c.step = "start" /\ c.key = <<org, d>>
  BY KeyOf DEF NoCall
<1>8. req' = [req EXCEPT ![r] = q] /\ call' = [call EXCEPT ![r] = c]
  BY <1>1, <1>2 DEF Invoke
<1>9. /\ UNCHANGED <<document, objects, service, settings>> /\ faults' \in 0..MaxFaults
      /\ req[r].op = "none"
  BY RequestTypes DEF Selected, RequestInv, Progress, Idle
<1> HIDE DEF q, c
<1>10. Begins(q)
  BY <1>3, <1>6 DEF Begins
<1>11. Progress(q, c)
  BY <1>2, <1>6, <1>7 DEF Progress
<1>12. /\ UploadInv(r, q, c, objects[File(q)], document[q.doc])
       /\ DownloadInv(q, c)
       /\ DeleteInv(q, c, objects[File(q)], document[q.doc], service)
  BY <1>6, <1>7 DEF UploadInv, DownloadInv, DeleteInv
<1>13. QED
  BY <1>4, <1>5, <1>8, <1>9, <1>10, <1>11, <1>12, BecomesKeeps

LEMMA DownloadKeeps ==
  ASSUME IInv, NEW r \in Caller, DownloadDocument(r)
  PROVE  IInv'
BY SelectedKeeps DEF DownloadDocument, Operation

LEMMA DeleteKeeps ==
  ASSUME IInv, NEW r \in Caller, DeleteDocument(r)
  PROVE  IInv'
BY SelectedKeeps DEF DeleteDocument, Operation

-----------------------------------------------------------------------------
(* The answers of the endpoints, and the failures that end a request.        *)

\* Request p has ended, with a reply, a failure it may have met, and a body.
Ended(p, reply) == [p EXCEPT !.pc = "done", !.reply = reply]
EndedMet(p, reply, met) == [Ended(p, reply) EXCEPT !.met = met]
EndedBody(p, reply, body) == [Ended(p, reply) EXCEPT !.body = body]

EndsMet(r, reply, met) ==
  req' = [req EXCEPT ![r].pc = "done", ![r].met = met, ![r].reply = reply]
EndsBody(r, reply, body) ==
  req' = [req EXCEPT ![r].pc = "done", ![r].reply = reply, ![r].body = body]

LEMMA EndedRequest ==
  ASSUME NEW p \in Request, NEW reply \in Reply \cup {0}
  PROVE  LET q == Ended(p, reply)
         IN q \in Request /\ Same(p, q) /\ q.pc = "done" /\ q.reply = reply
BY DEF Ended, Request, Same

LEMMA EndedMetRequest ==
  ASSUME NEW p \in Request, NEW reply \in Reply \cup {0}, NEW met \in BOOLEAN
  PROVE  LET q == EndedMet(p, reply, met)
         IN q \in Request /\ Same(p, q) /\ q.pc = "done" /\ q.reply = reply /\ q.met = met
<1> DEFINE e == Ended(p, reply)
<1>1. e \in Request /\ Same(p, e) /\ e.pc = "done" /\ e.reply = reply
  BY EndedRequest
<1> HIDE DEF e
<1>2. [e EXCEPT !.met = met] \in Request
  BY <1>1 DEF Request
<1>3. QED
  BY <1>1, <1>2 DEF EndedMet, e, Request, Same

LEMMA EndedBodyRequest ==
  ASSUME NEW p \in Request, NEW reply \in Reply \cup {0}, NEW body \in Body
  PROVE  LET q == EndedBody(p, reply, body)
         IN q \in Request /\ Same(p, q) /\ q.pc = "done" /\ q.reply = reply /\ q.body = body
<1> DEFINE e == Ended(p, reply)
<1>1. e \in Request /\ Same(p, e) /\ e.pc = "done" /\ e.reply = reply
  BY EndedRequest
<1> HIDE DEF e
<1>2. [e EXCEPT !.body = body] \in Request
  BY <1>1 DEF Request
<1>3. QED
  BY <1>1, <1>2 DEF EndedBody, e, Request, Same

LEMMA EndedUpdate ==
  ASSUME NEW r \in Caller, req \in [Caller -> Request], NEW reply, Done(r, reply)
  PROVE  req' = [req EXCEPT ![r] = Ended(req[r], reply)]
BY DEF Done, Ended, Request

LEMMA EndedMetUpdate ==
  ASSUME NEW r \in Caller, req \in [Caller -> Request], NEW reply, NEW met,
         EndsMet(r, reply, met)
  PROVE  req' = [req EXCEPT ![r] = EndedMet(req[r], reply, met)]
BY DEF EndsMet, Ended, EndedMet, Request

LEMMA EndedBodyUpdate ==
  ASSUME NEW r \in Caller, req \in [Caller -> Request], NEW reply, NEW body,
         EndsBody(r, reply, body)
  PROVE  req' = [req EXCEPT ![r] = EndedBody(req[r], reply, body)]
BY DEF EndsBody, Ended, EndedBody, Request

LEMMA FaultyType ==
  ASSUME NEW c \in Call
  PROVE  c.faulty \in BOOLEAN
<1>1. CASE c = NoCall
  BY <1>1 DEF NoCall
<1>2. CASE c # NoCall
  BY <1>2 DEF Call
<1>3. QED
  BY <1>1, <1>2

LEMMA StorageFailedKeeps ==
  ASSUME IInv, NEW r \in Caller, StorageFailed(r)
  PROVE  IInv'
<1> DEFINE reply == IF call[r].result = "StorageError" THEN 503
                    ELSE exception_reply(call[r].result)
           q == EndedMet(req[r], reply, call[r].faulty)
<1>1. /\ req[r] \in Request /\ call[r] \in Call /\ RequestInv(r) /\ faults \in 0..MaxFaults
      /\ req \in [Caller -> Request] /\ call \in [Caller -> Call]
  BY RequestTypes
<1>2. req[r].pc = "call" /\ call[r].step = "done" /\ call[r].result \in Failure
  BY DEF StorageFailed, Failure
<1>3. reply \in Reply \cup {0} /\ reply # 200 /\ reply # 204
  BY <1>2 DEF exception_reply, Reply, Failure
<1>4. call[r].faulty \in BOOLEAN
  BY <1>1, FaultyType
<1>5. req' = [req EXCEPT ![r] = q] /\ call' = [call EXCEPT ![r] = call[r]]
  <2>1. EndsMet(r, reply, call[r].faulty)
    BY DEF StorageFailed, EndsMet
  <2>2. req' = [req EXCEPT ![r] = EndedMet(req[r], reply, call[r].faulty)]
    BY <1>1, <2>1, EndedMetUpdate
  <2>3. QED
    BY <1>1, <2>2 DEF StorageFailed, storageVars
<1>6. UNCHANGED <<document, objects, service, settings, faults>>
  BY DEF StorageFailed, storageVars
<1> HIDE DEF reply
<1>7. q \in Request /\ Same(req[r], q) /\ q.pc = "done" /\ q.reply = reply
        /\ q.met = call[r].faulty
  BY <1>1, <1>3, <1>4, EndedMetRequest
<1>8. Same(req[r], q) /\ q.pc = "done" /\ q.reply = reply /\ q.met = call[r].faulty
  BY <1>7
<1> HIDE DEF q
<1>9. Progress(q, call[r])
  BY <1>1, <1>2, <1>3, <1>8 DEF RequestInv, Progress, Same
<1>10. UploadInv(r, q, call[r], objects[File(q)], document[q.doc])
  BY <1>1, <1>2, <1>3, <1>8 DEF RequestInv, UploadInv, Same, File
<1>11. DownloadInv(q, call[r])
  BY <1>1, <1>2, <1>3, <1>8 DEF RequestInv, DownloadInv, Same
<1>12. DeleteInv(q, call[r], objects[File(q)], document[q.doc], service)
  BY <1>1, <1>2, <1>3, <1>8 DEF RequestInv, DeleteInv, Same, File
<1>13. QED
  BY <1>1, <1>5, <1>6, <1>7, <1>8, <1>9, <1>10, <1>11, <1>12, BecomesKeeps

\* The store has answered ok or absent and the request goes on to its commit.
LEMMA AnsweredKeeps ==
  ASSUME IInv, NEW r \in Caller, UploadStored(r) \/ FileDeleted(r)
  PROVE  IInv'
<1> DEFINE q == [req[r] EXCEPT !.pc = "commit"]
<1>1. /\ req[r] \in Request /\ call[r] \in Call /\ RequestInv(r) /\ faults \in 0..MaxFaults
      /\ req \in [Caller -> Request] /\ call \in [Caller -> Call]
  BY RequestTypes
<1>2. /\ req[r].pc = "call" /\ call[r].step = "done"
      /\ \/ req[r].op = "upload" /\ call[r].result = "ok"
         \/ req[r].op = "delete" /\ call[r].result \in {"ok", "absent"}
  BY DEF UploadStored, FileDeleted, Answered
<1>3. req' = [req EXCEPT ![r] = q] /\ call' = [call EXCEPT ![r] = call[r]]
  BY <1>1 DEF UploadStored, FileDeleted, storageVars
<1>4. UNCHANGED <<document, objects, service, settings, faults>>
  BY DEF UploadStored, FileDeleted, storageVars
<1>5. q \in Request
  BY <1>1 DEF Request
<1>6. Same(req[r], q) /\ q.pc = "commit" /\ q.reply = req[r].reply
  BY <1>1 DEF Same, Request
<1> HIDE DEF q
<1>7. Progress(q, call[r])
  BY <1>1, <1>2, <1>6 DEF RequestInv, Progress, Same
<1>8. UploadInv(r, q, call[r], objects[File(q)], document[q.doc])
  BY <1>1, <1>2, <1>6 DEF RequestInv, UploadInv, Same, File
<1>9. DownloadInv(q, call[r])
  BY <1>1, <1>2, <1>6 DEF RequestInv, DownloadInv, Same
<1>10. DeleteInv(q, call[r], objects[File(q)], document[q.doc], service)
  BY <1>1, <1>2, <1>6 DEF RequestInv, DeleteInv, Same, File
<1>11. QED
  BY <1>1, <1>3, <1>4, <1>5, <1>6, <1>7, <1>8, <1>9, <1>10, BecomesKeeps

DownloadEnds(r, q) ==
  /\ req' = [req EXCEPT ![r] = q] /\ Same(req[r], q) /\ q.pc = "done"
  /\ q.reply = 200 => q.body = Streamed(req[r].row.file_size)

LEMMA DownloadAnsweredKeeps ==
  ASSUME IInv, NEW r \in Caller, DownloadAnswered(r)
  PROVE  IInv'
<1> USE DEF Answered
<1>1. /\ req[r] \in Request /\ call[r] \in Call /\ RequestInv(r) /\ faults \in 0..MaxFaults
      /\ req \in [Caller -> Request] /\ call \in [Caller -> Call]
  BY RequestTypes
<1>2. req[r].pc = "call" /\ req[r].op = "download" /\ call[r].step = "done"
  BY DEF DownloadAnswered
<1>3. UNCHANGED <<document, objects, service, settings, faults>>
        /\ call' = [call EXCEPT ![r] = call[r]]
  BY <1>1 DEF DownloadAnswered, storageVars
<1>4. PICK q \in Request : DownloadEnds(r, q)
  <2>1. CASE Done(r, 302) \/ Done(r, 404)
    <3>1. PICK reply \in {302, 404} : Done(r, reply)
      BY <2>1
    <3> DEFINE q == Ended(req[r], reply)
    <3>2. reply \in Reply \cup {0} /\ reply # 200
      BY DEF Reply
    <3>3. q \in Request /\ Same(req[r], q) /\ q.pc = "done" /\ q.reply = reply
      BY <1>1, <3>2, EndedRequest
    <3>4. req' = [req EXCEPT ![r] = q]
      BY <1>1, <3>1, EndedUpdate DEF Done
    <3> HIDE DEF q
    <3>5. DownloadEnds(r, q)
      BY <3>2, <3>3, <3>4 DEF DownloadEnds
    <3>6. QED
      BY <3>3, <3>5
  <2>2. CASE /\ call[r].op = "download" /\ call[r].result = "ok"
             /\ req' = [req EXCEPT ![r].pc = "done", ![r].reply = 200,
                                   ![r].body = Streamed(call[r].body.size)]
    <3> DEFINE body == Streamed(call[r].body.size)
               q == EndedBody(req[r], 200, body)
    <3>1. call[r].body = Whole(req[r].row.file_size) /\ req[r].row \in Row
      BY <1>1, <1>2, <2>2 DEF RequestInv, DownloadInv, Progress
    <3>2. call[r].body.size = req[r].row.file_size /\ req[r].row.file_size \in Size
      BY <3>1 DEF Whole, Row
    <3>3. body \in Body /\ 200 \in Reply \cup {0}
      BY <3>2 DEF Body, Reply
    <3>4. req' = [req EXCEPT ![r] = q]
      <4>1. EndsBody(r, 200, body)
        BY <2>2 DEF EndsBody
      <4>2. QED
        BY <1>1, <4>1, EndedBodyUpdate
    <3>5. body = Streamed(req[r].row.file_size)
      BY <3>2
    <3> HIDE DEF body
    <3>6. q \in Request /\ Same(req[r], q) /\ q.pc = "done" /\ q.body = body
      BY <1>1, <3>3, EndedBodyRequest
    <3> HIDE DEF q
    <3>7. DownloadEnds(r, q)
      BY <3>4, <3>5, <3>6 DEF DownloadEnds
    <3>8. QED
      BY <3>6, <3>7
  <2>3. QED
    BY <2>1, <2>2 DEF DownloadAnswered
<1>5. Progress(q, call[r])
  BY <1>1, <1>2, <1>4 DEF RequestInv, Progress, Same, DownloadEnds
<1>6. DownloadInv(q, call[r])
  BY <1>1, <1>2, <1>4 DEF DownloadInv, Same, DownloadEnds
<1>7. /\ UploadInv(r, q, call[r], objects[File(q)], document[q.doc])
      /\ DeleteInv(q, call[r], objects[File(q)], document[q.doc], service)
  BY <1>2, <1>4 DEF UploadInv, DeleteInv, Same, DownloadEnds
<1>8. QED
  BY <1>1, <1>3, <1>4, <1>5, <1>6, <1>7, BecomesKeeps DEF DownloadEnds

LEMMA UploadAnsweredKeeps ==
  ASSUME IInv, NEW r \in Caller, UploadAnswered(r)
  PROVE  IInv'
<1> DEFINE q == Ended(req[r], 201)
<1>1. /\ req[r] \in Request /\ call[r] \in Call /\ RequestInv(r) /\ faults \in 0..MaxFaults
      /\ req \in [Caller -> Request] /\ call \in [Caller -> Call]
  BY RequestTypes
<1>2. req[r].pc = "refresh" /\ 201 \in Reply \cup {0}
  BY DEF UploadAnswered, Reply
<1>3. req' = [req EXCEPT ![r] = q] /\ call' = [call EXCEPT ![r] = call[r]]
  BY <1>1, EndedUpdate DEF UploadAnswered, storageVars
<1>4. UNCHANGED <<document, objects, service, settings, faults>>
  BY DEF UploadAnswered, storageVars
<1>5. q \in Request /\ Same(req[r], q) /\ q.pc = "done" /\ q.reply = 201
  BY <1>1, <1>2, EndedRequest
<1>6. Same(req[r], q) /\ q.pc = "done" /\ q.reply = 201
  BY <1>5
<1> HIDE DEF q
<1>7. req[r].op = "upload"
  BY <1>1, <1>2 DEF RequestInv, Progress, DownloadInv, DeleteInv, Request
<1>8. Progress(q, call[r])
  BY <1>1, <1>2, <1>6 DEF RequestInv, Progress, Same
<1>9. UploadInv(r, q, call[r], objects[File(q)], document[q.doc])
  BY <1>1, <1>2, <1>6 DEF RequestInv, UploadInv, Same, File
<1>10. /\ DownloadInv(q, call[r])
       /\ DeleteInv(q, call[r], objects[File(q)], document[q.doc], service)
  BY <1>6, <1>7 DEF DownloadInv, DeleteInv, Same
<1>11. faults' \in 0..MaxFaults /\ call[r] \in Call
  BY <1>1, <1>4
<1>12. q \in Request /\ Same(req[r], q)
  BY <1>5
<1>13. QED
  BY <1>3, <1>4, <1>8, <1>9, <1>10, <1>11, <1>12, BecomesKeeps

LEMMA FailureKeeps ==
  ASSUME IInv, NEW r \in Caller, SessionFails(r) \/ WorkerDies(r)
  PROVE  IInv'
<1>1. /\ req[r] \in Request /\ call[r] \in Call /\ RequestInv(r) /\ faults \in 0..MaxFaults
      /\ req \in [Caller -> Request] /\ call \in [Caller -> Call]
  BY RequestTypes
<1>2. PICK reply \in {0, 500} : Broken(r, reply)
  BY DEF SessionFails, WorkerDies
<1> DEFINE met == TRUE
<1>3. PICK c \in Call : /\ call' = [call EXCEPT ![r] = c]
                        /\ c = NoCall \/ (c = call[r] /\ req[r].pc \in {"commit", "refresh"})
  BY <1>1 DEF SessionFails, WorkerDies, Call
<1> DEFINE q == EndedMet(req[r], reply, met)
<1>4. reply \in Reply \cup {0} /\ reply # 200 /\ reply # 204
  BY DEF Reply
<1>5. req' = [req EXCEPT ![r] = q]
  <2>1. EndsMet(r, reply, met)
    BY <1>2 DEF Broken, EndsMet
  <2> HIDE DEF met
  <2>2. QED
    BY <1>1, <2>1, EndedMetUpdate
<1>6. UNCHANGED <<document, objects, service, settings>> /\ faults' \in 0..MaxFaults
  BY <1>1, <1>2, StorageAssumption DEF Broken, SessionFails, WorkerDies
<1>7. q \in Request /\ Same(req[r], q) /\ q.pc = "done" /\ q.met = met /\ q.reply = reply
  BY <1>1, <1>4, EndedMetRequest
<1>8. Same(req[r], q) /\ q.pc = "done" /\ q.met /\ q.reply = reply
  BY <1>7
<1> HIDE DEF q
<1>9. req[r].pc \in {"call", "commit", "refresh"} /\ c.step \in {"idle", "done"}
  BY <1>1, <1>3 DEF SessionFails, WorkerDies, RequestInv, Progress, NoCall
<1>10. Progress(q, c)
  BY <1>1, <1>4, <1>8, <1>9 DEF RequestInv, Progress, Same
<1>11. UploadInv(r, q, c, objects[File(q)], document[q.doc])
  BY <1>1, <1>4, <1>8 DEF RequestInv, UploadInv, Same, File
<1>12. DownloadInv(q, c) /\ DeleteInv(q, c, objects[File(q)], document[q.doc], service)
  BY <1>4, <1>8 DEF DownloadInv, DeleteInv
<1>13. QED
  BY <1>3, <1>5, <1>6, <1>7, <1>8, <1>10, <1>11, <1>12, BecomesKeeps

-----------------------------------------------------------------------------
(* What a step of a provider does, whichever provider it is.                 *)

Effect(r, c) ==
  \/ objects' = objects /\ c.result \in Failure
  \/ c.op = "upload" /\ objects' = Put(r) /\ c.result \in {"ok"} \cup Failure
  \/ c.op = "upload" /\ objects' = [objects EXCEPT ![call[r].key] = Torn] /\ c.result \in Failure
  \/ c.op = "download" /\ objects' = objects
       /\ (c.result = "absent" \/ (c.result = "ok" /\ Exists(r) /\ c.body = At(r)))
  \/ c.op = "get_download_url" /\ objects' = objects
  \/ c.op = "delete" /\ objects' = Removed(r)
  \/ c.op = "delete" /\ objects' = objects /\ c.result = "absent" /\ ~ Exists(r)

Continues(r, c) ==
  /\ call' = [call EXCEPT ![r] = c]
  /\ c.op = call[r].op /\ c.key = call[r].key /\ c.data = call[r].data
  /\ UNCHANGED <<service, settings>> /\ faults' \in 0..MaxFaults

StorageEffect(r, c) ==
  /\ Continues(r, c)
  /\ \/ c.step = "probed" /\ objects' = objects
     \/ /\ c.step = "done" /\ Effect(r, c)
        /\ c.result \in Failure /\ service \in CloudProvider => c.faulty

Returned(r, c, result, body, objs, fault) ==
  /\ Continues(r, c) /\ objects' = objs
  /\ c.step = "done" /\ c.result = result /\ c.body = body
  /\ fault = 1 => c.faulty

LEMMA ReturnIs ==
  ASSUME StorageTypeOK, NEW r \in Caller, call[r].step # "idle", NEW result \in Result,
         NEW body \in Object, NEW objs, NEW fault \in {0, 1},
         Return(r, result, body, objs, fault)
  PROVE  \E c \in Call : Returned(r, c, result, body, objs, fault)
<1> DEFINE faulty == fault > 0
           c == [call[r] EXCEPT !.step = "done", !.result = result, !.body = body,
                                !.faulty = faulty]
<1>1. call[r] \in [op : Operation, key : Key, data : Object, body : Object,
                   step : {"start", "probed", "done"}, result : Result, faulty : BOOLEAN]
  BY DEF StorageTypeOK, Call, NoCall
<1>2. faulty \in BOOLEAN /\ (fault = 1 => faulty)
  OBVIOUS
<1>3. call' = [call EXCEPT ![r] = c]
  BY DEF Return, StorageTypeOK
<1>4. UNCHANGED <<service, settings>> /\ faults' \in 0..MaxFaults /\ objects' = objs
  BY StorageAssumption DEF Return, StorageTypeOK
<1> HIDE DEF faulty
<1>5. c \in Call
  BY <1>1, <1>2 DEF Call
<1>6. /\ c.op = call[r].op /\ c.key = call[r].key /\ c.data = call[r].data
      /\ c.step = "done" /\ c.result = result /\ c.body = body /\ c.faulty = faulty
  BY <1>1, <1>2
<1> HIDE DEF c
<1>7. Returned(r, c, result, body, objs, fault)
  BY <1>2, <1>3, <1>4, <1>6 DEF Returned, Continues
<1>8. QED
  BY <1>5, <1>7

\* A step that returns has the effect its operation allows.
LEMMA ReturnEffect ==
  ASSUME StorageTypeOK, NEW r \in Caller, call[r].step # "idle", NEW result \in Result,
         NEW body \in Object, NEW objs, NEW fault \in {0, 1},
         Return(r, result, body, objs, fault),
         result \in Failure /\ service \in CloudProvider => fault = 1,
         \/ objs = objects /\ result \in Failure
         \/ call[r].op = "upload" /\ objs = Put(r) /\ result \in {"ok"} \cup Failure
         \/ /\ call[r].op = "upload" /\ objs = [objects EXCEPT ![call[r].key] = Torn]
            /\ result \in Failure
         \/ call[r].op = "download" /\ objs = objects
              /\ (result = "absent" \/ (result = "ok" /\ Exists(r) /\ body = At(r)))
         \/ call[r].op = "get_download_url" /\ objs = objects
         \/ call[r].op = "delete" /\ objs = Removed(r)
         \/ call[r].op = "delete" /\ objs = objects /\ result = "absent" /\ ~ Exists(r)
  PROVE  \E c \in Call : StorageEffect(r, c)
<1>1. PICK c \in Call : Returned(r, c, result, body, objs, fault)
  BY ReturnIs
<1>2. Effect(r, c)
  BY <1>1 DEF Returned, Continues, Effect
<1>3. c.result \in Failure /\ service \in CloudProvider => c.faulty
  BY <1>1 DEF Returned
<1>4. StorageEffect(r, c)
  BY <1>1, <1>2, <1>3 DEF Returned, StorageEffect
<1>5. QED
  BY <1>4

LEMMA ProbeEffect ==
  ASSUME StorageTypeOK, NEW r \in Caller, call[r].step = "start",
         call[r].op \in {"download", "delete"}, Probe(r)
  PROVE  \E c \in Call : StorageEffect(r, c)
<1>1. CASE /\ call' = [call EXCEPT ![r].step = "probed"]
           /\ UNCHANGED <<settings, service, objects, faults>>
  <2> DEFINE c == [call[r] EXCEPT !.step = "probed"]
  <2>1. call[r] \in [op : Operation, key : Key, data : Object, body : Object,
                     step : {"start", "probed", "done"}, result : Result, faulty : BOOLEAN]
    BY DEF StorageTypeOK, Call, NoCall
  <2>2. c \in Call
    BY <2>1 DEF Call
  <2>3. call' = [call EXCEPT ![r] = c] /\ c.step = "probed"
          /\ c.op = call[r].op /\ c.key = call[r].key /\ c.data = call[r].data
    BY <1>1, <2>1 DEF StorageTypeOK
  <2> HIDE DEF c
  <2>4. StorageEffect(r, c)
    BY <1>1, <2>3 DEF StorageEffect, Continues, StorageTypeOK
  <2>5. QED
    BY <2>2, <2>4
<1>2. CASE ~ Exists(r) /\ Return(r, "absent", Missing, objects, 0)
  BY <1>2, ReturnEffect DEF Result, Object, Failure
<1>3. QED
  BY <1>1, <1>2 DEF Probe

LEMMA FailsEffect ==
  ASSUME StorageTypeOK, NEW r \in Caller, call[r].step # "idle", Fails(r)
  PROVE  \E c \in Call : StorageEffect(r, c)
BY ReturnEffect DEF Fails, Result, Object, Failure

LEMMA CallTypes ==
  ASSUME StorageTypeOK, NEW r \in Caller, call[r].step # "idle"
  PROVE  /\ call[r].key \in Key /\ call[r].op \in Operation /\ At(r) \in Object
         /\ [objects EXCEPT ![call[r].key] = At(r)] = objects
<1>1. call[r].key \in Key /\ call[r].op \in Operation
  BY DEF StorageTypeOK, Call, NoCall
<1>2. QED
  BY <1>1 DEF At, StorageTypeOK

LEMMA LocalEffect ==
  ASSUME StorageTypeOK, NEW r \in Caller, LocalStep(r)
  PROVE  \E c \in Call : StorageEffect(r, c)
<1> USE DEF Ready, Result, Object, Failure
<1>0. service = "local" /\ service \notin CloudProvider /\ call[r].step # "idle"
  BY DEF LocalStep, LocalMkdirFails, LocalUpload, LocalGetDownloadUrl, LocalDownloadProbe,
     LocalRead, LocalDeleteProbe, LocalUnlink, CloudProvider
<1>1. CASE LocalMkdirFails(r)
  BY <1>0, <1>1, ReturnEffect DEF LocalMkdirFails
<1>2. CASE LocalUpload(r)
  <2>1. CASE Return(r, "ok", Missing, Put(r), 0)
    BY <1>0, <1>2, <2>1, ReturnEffect DEF LocalUpload
  <2>2. CASE \E left \in {At(r), Torn} :
          Return(r, "StorageError", Missing, [objects EXCEPT ![call[r].key] = left], 1)
    <3>1. PICK left \in {At(r), Torn} :
            Return(r, "StorageError", Missing, [objects EXCEPT ![call[r].key] = left], 1)
      BY <2>2
    <3>2. \/ [objects EXCEPT ![call[r].key] = left] = objects
          \/ [objects EXCEPT ![call[r].key] = left] = [objects EXCEPT ![call[r].key] = Torn]
      BY <1>0, CallTypes
    <3>3. QED
      BY <1>0, <1>2, <3>1, <3>2, ReturnEffect DEF LocalUpload
  <2>3. QED
    BY <1>2, <2>1, <2>2 DEF LocalUpload
<1>3. CASE LocalGetDownloadUrl(r)
  BY <1>0, <1>3, ReturnEffect DEF LocalGetDownloadUrl
<1>4. CASE LocalDownloadProbe(r) \/ LocalDeleteProbe(r)
  BY <1>0, <1>4, ProbeEffect DEF LocalDownloadProbe, LocalDeleteProbe
<1>5. CASE LocalRead(r)
  <2>1. CASE Exists(r) /\ Return(r, "ok", At(r), objects, 0)
    BY <1>0, <1>5, <2>1, ReturnEffect, CallTypes DEF LocalRead
  <2>2. CASE Return(r, "StorageError", Missing, objects, 0)
    BY <1>0, <2>2, ReturnEffect
  <2>3. CASE Fails(r)
    BY <1>0, <2>3, FailsEffect
  <2>4. QED
    BY <1>5, <2>1, <2>2, <2>3 DEF LocalRead
<1>6. CASE LocalUnlink(r)
  <2>1. CASE Return(r, "ok", Missing, Removed(r), 0)
    BY <1>0, <1>6, <2>1, ReturnEffect DEF LocalUnlink
  <2>2. CASE Return(r, "StorageError", Missing, objects, 0)
    BY <1>0, <2>2, ReturnEffect
  <2>3. CASE Fails(r)
    BY <1>0, <2>3, FailsEffect
  <2>4. QED
    BY <1>6, <2>1, <2>2, <2>3 DEF LocalUnlink
<1>7. QED
  BY <1>1, <1>2, <1>3, <1>4, <1>5, <1>6 DEF LocalStep

\* What the three cloud providers answer with, after one step or two.
CloudAnswer(r) ==
  \/ /\ call[r].op = "upload"
     /\ \/ Return(r, "ok", Missing, Put(r), 0)
        \/ \E objs \in {objects, Put(r)} : Return(r, "StorageError", Missing, objs, 1)
  \/ /\ call[r].op = "download"
     /\ Return(r, IF Exists(r) THEN "ok" ELSE "absent", At(r), objects, 0)
  \/ /\ call[r].op = "delete"
     /\ \/ \E result \in {"ok", "absent"} : Return(r, result, Missing, Removed(r), 0)
        \/ \E objs \in {objects, Removed(r)} : Return(r, "StorageError", Missing, objs, 1)
  \/ call[r].op = "get_download_url" /\ Return(r, "ok", Missing, objects, 0)
  \/ Fails(r)
  \/ call[r].op \in {"download", "delete"} /\ call[r].step = "start" /\ Probe(r)

LEMMA CloudEffect ==
  ASSUME StorageTypeOK, NEW r \in Caller, call[r].step # "idle", CloudAnswer(r)
  PROVE  \E c \in Call : StorageEffect(r, c)
<1> USE DEF Result, Object, Failure
<1>1. CASE call[r].op = "upload" /\ Return(r, "ok", Missing, Put(r), 0)
  BY <1>1, ReturnEffect
<1>2. CASE /\ call[r].op = "upload"
           /\ \E objs \in {objects, Put(r)} : Return(r, "StorageError", Missing, objs, 1)
  BY <1>2, ReturnEffect
<1>3. CASE /\ call[r].op = "download"
           /\ Return(r, IF Exists(r) THEN "ok" ELSE "absent", At(r), objects, 0)
  <2>1. CASE Exists(r)
    <3>1. Return(r, "ok", At(r), objects, 0)
      BY <1>3, <2>1
    <3>2. QED
      BY <1>3, <2>1, <3>1, ReturnEffect, CallTypes
  <2>2. CASE ~ Exists(r)
    <3>1. Return(r, "absent", At(r), objects, 0)
      BY <1>3, <2>2
    <3>2. QED
      BY <1>3, <3>1, ReturnEffect, CallTypes
  <2>3. QED
    BY <2>1, <2>2
<1>4. CASE /\ call[r].op = "delete"
           /\ \E result \in {"ok", "absent"} : Return(r, result, Missing, Removed(r), 0)
  BY <1>4, ReturnEffect
<1>5. CASE /\ call[r].op = "delete"
           /\ \E objs \in {objects, Removed(r)} : Return(r, "StorageError", Missing, objs, 1)
  BY <1>5, ReturnEffect
<1>6. CASE call[r].op = "get_download_url" /\ Return(r, "ok", Missing, objects, 0)
  BY <1>6, ReturnEffect
<1>7. QED
  BY <1>1, <1>2, <1>3, <1>4, <1>5, <1>6, FailsEffect, ProbeEffect DEF CloudAnswer

LEMMA StepEffect ==
  ASSUME StorageTypeOK, NEW r \in Caller, StorageStep(r)
  PROVE  call[r].step \notin {"idle", "done"} /\ \E c \in Call : StorageEffect(r, c)
<1> USE DEF Ready
<1>1. CASE LocalStep(r)
  BY <1>1, LocalEffect DEF LocalStep, LocalMkdirFails, LocalUpload, LocalGetDownloadUrl,
     LocalDownloadProbe, LocalRead, LocalDeleteProbe, LocalUnlink
<1>2. CASE AzureStep(r)
  <2>1. call[r].step = "start" /\ CloudAnswer(r)
    BY <1>2 DEF AzureStep, AzureUpload, AzureDownload, AzureDelete, AzureGetDownloadUrl,
       CloudAnswer
  <2>2. QED
    BY <2>1, CloudEffect
<1>3. CASE S3Step(r)
  <2>1. call[r].step = "start" /\ CloudAnswer(r)
    BY <1>3 DEF S3Step, S3Upload, S3Download, S3Delete, S3GetDownloadUrl, CloudAnswer
  <2>2. QED
    BY <2>1, CloudEffect
<1>4. CASE GCSStep(r)
  <2>1. call[r].step \in {"start", "probed"} /\ CloudAnswer(r)
    BY <1>4 DEF GCSStep, GCSUpload, GCSGetDownloadUrl, GCSDownloadProbe, GCSRead,
       GCSDeleteProbe, GCSBlobDelete, CloudAnswer
  <2>2. QED
    BY <2>1, CloudEffect
<1>5. QED
  BY <1>1, <1>2, <1>3, <1>4 DEF StorageStep

-----------------------------------------------------------------------------
(* A storage step keeps the invariant: it writes nothing, or the file of an  *)
(* upload that has not committed, or it removes the file for a delete.       *)

\* What a download or delete has found is what a request has uploaded.
LEMMA UploaderOf ==
  ASSUME IInv, NEW s \in Caller, req[s].op \in {"download", "delete"}
  PROVE  \E u \in Caller : /\ u = req[s].row.by /\ req[u].op = "upload" /\ req[u].committed
                           /\ req[u].doc = req[s].doc /\ req[u].row = req[s].row
                           /\ File(req[u]) = File(req[s])
                           /\ req[u].size = req[s].row.file_size
<1> DEFINE u == req[s].row.by
<1>1. req[s].row \in Row /\ req[s].row.org = req[s].org
  BY RequestTypes DEF RequestInv, Progress
<1>2. u \in Caller
  BY <1>1 DEF Row
<1>3. Uploaded(req[u], req[s].doc, req[s].row)
  BY DEF IInv, RowsInv
<1>4. req[u].row.org = req[u].org /\ req[u].row.file_size = req[u].size
  BY <1>2, <1>3, RequestTypes DEF RequestInv, Progress, UploadInv, Uploaded
<1>5. QED
  BY <1>1, <1>2, <1>3, <1>4 DEF Uploaded, File

\* An upload that has not committed shares its document with nobody.
LEMMA Alone ==
  ASSUME IInv, NEW r \in Caller, req[r].op = "upload", ~ req[r].committed,
         NEW s \in Caller, s # r, req[s].op # "none"
  PROVE  req[s].doc # req[r].doc /\ File(req[s]) # File(req[r])
<1>1. req[s].doc # req[r].doc
  <2>1. CASE req[s].op = "upload"
    BY <2>1 DEF IInv, RowsInv
  <2>2. CASE req[s].op \in {"download", "delete"}
    <3>1. PICK u \in Caller : req[u].op = "upload" /\ req[u].committed /\ req[u].doc = req[s].doc
      BY <2>2, UploaderOf
    <3>2. QED
      BY <3>1 DEF IInv, RowsInv
  <2>3. QED
    BY <2>1, <2>2, RequestTypes DEF Request
<1>2. QED
  BY <1>1 DEF File

LEMMA CallerOf ==
  ASSUME IInv, NEW r \in Caller, call[r].step \notin {"idle", "done"}
  PROVE  /\ req[r].pc = "call" /\ req[r].op # "none" /\ call[r].key = File(req[r])
         /\ call[r].op = req[r].op \/ (req[r].op = "download" /\ call[r].op = "get_download_url")
         /\ File(req[r]) \in Key /\ req[r].doc \in Doc
BY RequestTypes DEF RequestInv, Progress, File, Key

LEMMA SilentKeeps ==
  ASSUME IInv, NEW r \in Caller, NEW c \in Call, call[r].step \notin {"idle", "done"},
         StorageEffect(r, c), objects' = objects, UNCHANGED <<document, req>>
  PROVE  IInv'
<1>1. /\ req[r] \in Request /\ RequestInv(r) /\ req \in [Caller -> Request]
      /\ call \in [Caller -> Call]
  BY RequestTypes
<1>2. /\ req[r].pc = "call" /\ call[r].key = File(req[r]) /\ req[r].op # "none"
      /\ call[r].op = req[r].op \/ (req[r].op = "download" /\ call[r].op = "get_download_url")
      /\ File(req[r]) \in Key
  BY CallerOf
<1>3. /\ call' = [call EXCEPT ![r] = c] /\ UNCHANGED <<service, settings>>
      /\ c.op = call[r].op /\ c.key = call[r].key /\ c.data = call[r].data
      /\ c.step \in {"probed", "done"} /\ faults' \in 0..MaxFaults
  BY DEF StorageEffect, Continues
<1>4. c.step = "done" => Effect(r, c) /\ (c.result \in Failure /\ service \in CloudProvider => c.faulty)
  BY DEF StorageEffect
<1>5. Progress(req[r], c)
  BY <1>1, <1>2, <1>3 DEF RequestInv, Progress
<1>6. UploadInv(r, req[r], c, objects[File(req[r])], document[req[r].doc])
  <2>1. SUFFICES ASSUME req[r].op = "upload"
                 PROVE  UploadInv(r, req[r], c, objects[File(req[r])], document[req[r].doc])
    BY DEF UploadInv
  <2>2. c.step = "done" /\ c.result = "ok" => objects[File(req[r])] = Whole(req[r].size)
    <3>1. SUFFICES ASSUME c.step = "done", c.result = "ok"
                   PROVE  objects[File(req[r])] = Whole(req[r].size)
      OBVIOUS
    <3>2. objects' = Put(r)
      BY <1>2, <1>3, <1>4, <2>1, <3>1 DEF Effect, Failure
    <3>3. call[r].data = Whole(req[r].size)
      BY <1>1, <1>2, <2>1 DEF RequestInv, UploadInv
    <3>4. QED
      BY <1>2, <3>2, <3>3 DEF Put, IInv, StateTypes, DocumentsTypeOK, StorageTypeOK
  <2>3. QED
    BY <1>1, <1>3, <2>1, <2>2 DEF RequestInv, UploadInv
<1>7. DownloadInv(req[r], c)
  <2>1. SUFFICES ASSUME req[r].op = "download", c.step = "done", c.op = "download",
                        c.result = "ok"
                 PROVE  c.body = Whole(req[r].row.file_size)
    BY <1>1, <1>2 DEF RequestInv, DownloadInv
  <2>2. c.body = objects[File(req[r])] /\ objects[File(req[r])] # Missing
    BY <1>2, <1>4, <2>1 DEF Effect, Failure, Exists, At
  <2>3. PICK u \in Caller : /\ req[u].op = "upload" /\ req[u].committed
                            /\ File(req[u]) = File(req[r])
                            /\ req[u].size = req[r].row.file_size
    BY <2>1, UploaderOf
  <2>4. objects[File(req[u])] \in {Whole(req[u].size), Missing}
    BY <2>3, RequestTypes DEF RequestInv, UploadInv
  <2>5. QED
    BY <2>2, <2>3, <2>4
<1>8. DeleteInv(req[r], c, objects[File(req[r])], document[req[r].doc], service)
  <2>1. SUFFICES ASSUME req[r].op = "delete"
                 PROVE  DeleteInv(req[r], c, objects[File(req[r])], document[req[r].doc], service)
    BY DEF DeleteInv
  <2>2. c.step = "done" /\ c.result \in {"ok", "absent"} => objects[File(req[r])] = Missing
    <3>1. SUFFICES ASSUME c.step = "done", c.result \in {"ok", "absent"}
                   PROVE  objects[File(req[r])] = Missing
      OBVIOUS
    <3>2. objects' = Removed(r) \/ ~ Exists(r)
      BY <1>2, <1>3, <1>4, <2>1, <3>1 DEF Effect, Failure
    <3>3. QED
      BY <1>2, <3>2 DEF Removed, Exists, At, IInv, StateTypes, DocumentsTypeOK, StorageTypeOK
  <2>3. QED
    BY <1>1, <1>2, <1>4, <2>1, <2>2 DEF RequestInv, DeleteInv
<1>9. req' = [req EXCEPT ![r] = req[r]] /\ Same(req[r], req[r])
  BY <1>1 DEF Same
<1>10. UNCHANGED <<document, objects, service, settings>>
  BY <1>3
<1>11. QED
  BY <1>1, <1>3, <1>5, <1>6, <1>7, <1>8, <1>9, <1>10, BecomesKeeps

LEMMA WrittenKeeps ==
  ASSUME IInv, NEW r \in Caller, NEW c \in Call, call[r].step \notin {"idle", "done"},
         Continues(r, c), c.step = "done", req[r].op = "upload", NEW obj \in Object,
         objects' = [objects EXCEPT ![File(req[r])] = obj],
         c.result = "ok" => obj = Whole(req[r].size), UNCHANGED <<document, req>>
  PROVE  IInv'
<1>1. /\ req[r] \in Request /\ RequestInv(r) /\ req \in [Caller -> Request]
      /\ call \in [Caller -> Call] /\ objects \in [Key -> Object]
  BY RequestTypes DEF IInv, StateTypes, DocumentsTypeOK, StorageTypeOK
<1>2. req[r].pc = "call" /\ call[r].key = File(req[r]) /\ File(req[r]) \in Key
        /\ call[r].op = "upload" /\ req[r].doc \in Doc
  BY CallerOf
<1>3. ~ req[r].committed
  BY <1>1, <1>2 DEF RequestInv, UploadInv
<1>4. /\ objects'[File(req[r])] = obj
      /\ \A k \in Key : k # File(req[r]) => objects'[k] = objects[k]
      /\ objects' \in [Key -> Object]
  BY <1>1, <1>2
<1>5. /\ call'[r] = c /\ \A s \in Caller \ {r} : call'[s] = call[s]
      /\ call' \in [Caller -> Call] /\ UNCHANGED <<service, settings>> /\ faults' \in 0..MaxFaults
      /\ c.op = call[r].op /\ c.key = call[r].key /\ c.data = call[r].data
  BY <1>1 DEF Continues
<1>6. StateTypes'
  BY <1>4, <1>5 DEF IInv, StateTypes, DocumentsTypeOK, StorageTypeOK
<1>7. ASSUME NEW s \in Caller, s # r
      PROVE  RequestInv(s)'
  <2>1. RequestInv(s) /\ call'[s] = call[s] /\ req'[s] = req[s]
    BY <1>5, <1>7, RequestTypes
  <2>2. CASE req[s].op = "none"
    BY <2>1, <2>2 DEF RequestInv, UploadInv, DownloadInv, DeleteInv
  <2>3. CASE req[s].op # "none"
    <3>1. File(req[s]) # File(req[r]) /\ File(req[s]) \in Key
      BY <1>3, <1>7, <2>1, <2>3, Alone DEF RequestInv, Progress, File, Key
    <3>2. objects'[File(req[s])] = objects[File(req[s])]
      BY <1>4, <3>1
    <3>3. QED
      BY <1>5, <2>1, <3>2 DEF RequestInv
  <2>4. QED
    BY <2>2, <2>3
<1>8. RequestInv(r)'
  <2>1. Progress(req[r], c)
    BY <1>1, <1>2, <1>5 DEF RequestInv, Progress
  <2>2. UploadInv(r, req[r], c, obj, document[req[r].doc])
    BY <1>1, <1>2, <1>3, <1>5 DEF RequestInv, UploadInv
  <2>3. DownloadInv(req[r], c) /\ DeleteInv(req[r], c, obj, document[req[r].doc], service)
    BY DEF DownloadInv, DeleteInv
  <2>4. QED
    BY <1>4, <1>5, <2>1, <2>2, <2>3 DEF RequestInv
<1>9. RowsInv'
  BY DEF IInv, RowsInv
<1>10. FilesInv'
  <2>1. ASSUME NEW k \in Key, objects'[k] # Missing
        PROVE  \E s \in Caller : req[s].op = "upload" /\ k = File(req[s])
    BY <1>4, <2>1 DEF IInv, FilesInv
  <2>2. ASSUME NEW s \in Caller, req[s].op = "upload", req[s].committed,
               objects'[File(req[s])] = Missing
        PROVE  \E t \in Caller : req[t].op = "delete" /\ req[t].doc = req[s].doc
    <3>1. File(req[s]) # File(req[r]) /\ File(req[s]) \in Key
      BY <1>3, <2>2, Alone, RequestTypes DEF RequestInv, Progress, File, Key
    <3>2. objects[File(req[s])] = Missing
      BY <1>4, <2>2, <3>1
    <3>3. QED
      BY <2>2, <3>2 DEF IInv, FilesInv
  <2>3. QED
    BY <2>1, <2>2 DEF FilesInv
<1>11. QED
  BY <1>6, <1>7, <1>8, <1>9, <1>10 DEF IInv

LEMMA RemovedKeeps ==
  ASSUME IInv, NEW r \in Caller, NEW c \in Call, call[r].step \notin {"idle", "done"},
         Continues(r, c), c.step = "done", req[r].op = "delete",
         c.result \in Failure /\ service \in CloudProvider => c.faulty,
         objects' = [objects EXCEPT ![File(req[r])] = Missing], UNCHANGED <<document, req>>
  PROVE  IInv'
<1>1. /\ req[r] \in Request /\ RequestInv(r) /\ req \in [Caller -> Request]
      /\ call \in [Caller -> Call] /\ objects \in [Key -> Object] /\ Missing \in Object
  BY RequestTypes DEF IInv, StateTypes, DocumentsTypeOK, StorageTypeOK, Object
<1>2. req[r].pc = "call" /\ call[r].key = File(req[r]) /\ File(req[r]) \in Key
        /\ call[r].op = "delete" /\ req[r].doc \in Doc
  BY CallerOf
<1>3. PICK u \in Caller : /\ req[u].op = "upload" /\ req[u].committed
                          /\ req[u].doc = req[r].doc /\ File(req[u]) = File(req[r])
  BY UploaderOf
<1>4. /\ objects'[File(req[r])] = Missing
      /\ \A k \in Key : objects'[k] = IF k = File(req[r]) THEN Missing ELSE objects[k]
      /\ objects' \in [Key -> Object]
  BY <1>1, <1>2
<1>5. /\ call'[r] = c /\ \A s \in Caller \ {r} : call'[s] = call[s]
      /\ call' \in [Caller -> Call] /\ UNCHANGED <<service, settings>> /\ faults' \in 0..MaxFaults
      /\ c.op = call[r].op /\ c.key = call[r].key /\ c.data = call[r].data
  BY <1>1 DEF Continues
<1>6. StateTypes'
  BY <1>4, <1>5 DEF IInv, StateTypes, DocumentsTypeOK, StorageTypeOK
<1>7. ASSUME NEW s \in Caller, req[s].op = "upload", File(req[s]) = File(req[r])
      PROVE  s = u
  BY <1>3, <1>7 DEF IInv, RowsInv, File
<1>8. ASSUME NEW s \in Caller
      PROVE  RequestInv(s)'
  <2>1. RequestInv(s) /\ req'[s] = req[s]
    BY RequestTypes
  <2>2. Progress(req[s], call'[s])
    <3>1. CASE s = r
      BY <1>1, <1>2, <1>5, <3>1 DEF RequestInv, Progress
    <3>2. CASE s # r
      BY <1>5, <2>1, <3>2 DEF RequestInv
    <3>3. QED
      BY <3>1, <3>2
  <2>3. UploadInv(s, req[s], call'[s], objects'[File(req[s])], document[req[s].doc])
    <3>1. SUFFICES ASSUME req[s].op = "upload"
                   PROVE  UploadInv(s, req[s], call'[s], objects'[File(req[s])],
                                    document[req[s].doc])
      BY DEF UploadInv
    <3>2. s # r /\ call'[s] = call[s] /\ File(req[s]) \in Key
      BY <1>5, <2>1, <3>1 DEF RequestInv, Progress, File, Key
    <3>3. CASE File(req[s]) = File(req[r])
      BY <1>3, <1>4, <1>7, <2>1, <3>1, <3>2, <3>3 DEF RequestInv, UploadInv
    <3>4. CASE File(req[s]) # File(req[r])
      BY <1>4, <2>1, <3>2, <3>4 DEF RequestInv
    <3>5. QED
      BY <3>3, <3>4
  <2>4. DownloadInv(req[s], call'[s])
    <3>1. CASE s = r
      BY <3>1 DEF DownloadInv
    <3>2. CASE s # r
      BY <1>5, <2>1, <3>2 DEF RequestInv
    <3>3. QED
      BY <3>1, <3>2
  <2>5. DeleteInv(req[s], call'[s], objects'[File(req[s])], document[req[s].doc], service)
    <3>1. SUFFICES ASSUME req[s].op = "delete"
                   PROVE  DeleteInv(req[s], call'[s], objects'[File(req[s])],
                                    document[req[s].doc], service)
      BY DEF DeleteInv
    <3>2. File(req[s]) \in Key
      BY <2>1, <3>1 DEF RequestInv, Progress, File, Key
    <3>3. CASE s = r
      BY <1>2, <1>4, <1>5, <2>1, <3>1, <3>3 DEF RequestInv, DeleteInv
    <3>4. CASE s # r
      BY <1>4, <1>5, <2>1, <3>1, <3>2, <3>4 DEF RequestInv, DeleteInv
    <3>5. QED
      BY <3>3, <3>4
  <2>6. QED
    BY <1>5, <2>2, <2>3, <2>4, <2>5 DEF RequestInv
<1>9. RowsInv'
  BY DEF IInv, RowsInv
<1>10. FilesInv'
  <2>1. ASSUME NEW k \in Key, objects'[k] # Missing
        PROVE  \E s \in Caller : req[s].op = "upload" /\ k = File(req[s])
    BY <1>4, <2>1 DEF IInv, FilesInv
  <2>2. ASSUME NEW s \in Caller, req[s].op = "upload", req[s].committed,
               objects'[File(req[s])] = Missing
        PROVE  \E t \in Caller : req[t].op = "delete" /\ req[t].doc = req[s].doc
    <3>1. File(req[s]) \in Key
      BY <2>2, RequestTypes DEF RequestInv, Progress, File, Key
    <3>2. CASE File(req[s]) = File(req[r])
      BY <3>2 DEF File
    <3>3. CASE File(req[s]) # File(req[r])
      BY <1>4, <2>2, <3>1, <3>3 DEF IInv, FilesInv
    <3>4. QED
      BY <3>2, <3>3
  <2>3. QED
    BY <2>1, <2>2 DEF FilesInv
<1>11. QED
  BY <1>6, <1>8, <1>9, <1>10 DEF IInv

LEMMA StorageKeeps ==
  ASSUME IInv, NEW r \in Caller, StorageCall(r)
  PROVE  IInv'
<1>1. StorageTypeOK
  BY DEF IInv, StateTypes, DocumentsTypeOK
<1>2. call[r].step \notin {"idle", "done"} /\ UNCHANGED <<document, req>>
  BY <1>1, StepEffect DEF StorageCall
<1>3. PICK c \in Call : StorageEffect(r, c)
  BY <1>1, StepEffect DEF StorageCall
<1>4. /\ call[r].key = File(req[r]) /\ req[r].pc = "call"
      /\ call[r].op = req[r].op \/ (req[r].op = "download" /\ call[r].op = "get_download_url")
  BY <1>2, CallerOf
<1>5. CASE objects' = objects
  BY <1>2, <1>3, <1>5, SilentKeeps
<1>6. CASE objects' # objects
  <2>1. /\ Continues(r, c) /\ c.step = "done" /\ Effect(r, c)
        /\ c.result \in Failure /\ service \in CloudProvider => c.faulty
    BY <1>3, <1>6 DEF StorageEffect
  <2>2. c.op = call[r].op
    BY <2>1 DEF Continues
  <2>3. CASE c.op = "upload" /\ objects' = Put(r)
    <3>1. call[r].data = Whole(req[r].size) /\ req[r].size \in Size
      BY <1>4, <2>2, <2>3, RequestTypes DEF RequestInv, UploadInv
    <3>2. Whole(req[r].size) \in Object
      BY <3>1 DEF Object
    <3>3. objects' = [objects EXCEPT ![File(req[r])] = Whole(req[r].size)]
      BY <1>4, <2>3, <3>1 DEF Put
    <3>4. req[r].op = "upload"
      BY <1>4, <2>2, <2>3
    <3>5. QED
      BY <1>2, <2>1, <3>2, <3>3, <3>4, WrittenKeeps
  <2>4. CASE c.op = "upload" /\ c.result \in Failure
               /\ objects' = [objects EXCEPT ![call[r].key] = Torn]
    <3>1. Torn \in Object /\ c.result # "ok" /\ req[r].op = "upload"
      BY <1>4, <2>2, <2>4 DEF Object, Failure
    <3>2. objects' = [objects EXCEPT ![File(req[r])] = Torn]
      BY <1>4, <2>4
    <3>3. QED
      BY <1>2, <2>1, <3>1, <3>2, WrittenKeeps
  <2>5. CASE c.op = "delete" /\ objects' = Removed(r)
    <3>1. req[r].op = "delete" /\ objects' = [objects EXCEPT ![File(req[r])] = Missing]
      BY <1>4, <2>2, <2>5 DEF Removed
    <3>2. QED
      BY <1>2, <2>1, <3>1, RemovedKeeps
  <2>6. QED
    BY <1>6, <2>1, <2>3, <2>4, <2>5 DEF Effect
<1>7. QED
  BY <1>5, <1>6

-----------------------------------------------------------------------------
(* The commits.                                                              *)

LEMMA UploadCommittedKeeps ==
  ASSUME IInv, NEW r \in Caller, UploadCommitted(r)
  PROVE  IInv'
<1> DEFINE q == [req[r] EXCEPT !.pc = "refresh", !.committed = TRUE]
           d == req[r].doc
<1>1. /\ req[r] \in Request /\ RequestInv(r) /\ req \in [Caller -> Request]
      /\ document \in [Doc -> Row \cup {NoRow}]
  BY RequestTypes DEF IInv, StateTypes, DocumentsTypeOK
<1>2. /\ req[r].pc = "commit" /\ req[r].op = "upload"
      /\ UNCHANGED <<objects, call, service, settings, faults>>
  BY DEF UploadCommitted, storageVars
<1>3. /\ d \in Doc /\ req[r].row \in Row /\ req[r].row.by = r /\ ~ req[r].committed
      /\ objects[File(req[r])] = Whole(req[r].size) /\ document[d] = NoRow
      /\ File(req[r]) \in Key
  BY <1>1, <1>2 DEF RequestInv, Progress, UploadInv, File, Key
<1>4. req' = [req EXCEPT ![r] = q]
  BY <1>1 DEF UploadCommitted
<1>5. /\ q \in Request /\ q.pc = "refresh" /\ q.committed /\ q.op = "upload"
      /\ q.org = req[r].org /\ q.doc = d /\ q.row = req[r].row /\ q.size = req[r].size
      /\ q.reply = req[r].reply
  BY <1>1, <1>2 DEF Request
<1> HIDE DEF q
<1>6. /\ req'[r] = q /\ \A s \in Caller \ {r} : req'[s] = req[s]
      /\ req' \in [Caller -> Request]
  BY <1>1, <1>4, <1>5
<1>7. document' = [document EXCEPT ![d] = req[r].row]
  BY DEF UploadCommitted
<1>8. /\ document'[d] = req[r].row /\ \A x \in Doc \ {d} : document'[x] = document[x]
      /\ document' \in [Doc -> Row \cup {NoRow}]
  BY <1>1, <1>3, <1>7
<1>9. StateTypes'
  BY <1>2, <1>6, <1>8 DEF IInv, StateTypes, DocumentsTypeOK, StorageTypeOK, Request
<1>10. File(q) = File(req[r])
  BY <1>5 DEF File
<1>11. ASSUME NEW s \in Caller
       PROVE  RequestInv(s)'
  <2>1. CASE s = r
    <3>1. Progress(q, call[r])
      BY <1>1, <1>2, <1>5 DEF RequestInv, Progress
    <3>2. UploadInv(r, q, call[r], objects[File(q)], document'[q.doc])
      BY <1>1, <1>2, <1>3, <1>5, <1>8, <1>10 DEF RequestInv, UploadInv
    <3>3. /\ DownloadInv(q, call[r])
          /\ DeleteInv(q, call[r], objects[File(q)], document'[q.doc], service)
      BY <1>5 DEF DownloadInv, DeleteInv
    <3>4. QED
      BY <1>2, <1>6, <2>1, <3>1, <3>2, <3>3 DEF RequestInv
  <2>2. CASE s # r
    <3>1. RequestInv(s) /\ req'[s] = req[s] /\ call'[s] = call[s]
      BY <1>2, <1>6, <2>2, RequestTypes
    <3>2. CASE req[s].op = "none"
      BY <3>1, <3>2 DEF RequestInv, UploadInv, DownloadInv, DeleteInv
    <3>3. CASE req[s].op # "none"
      <4>1. req[s].doc # d /\ req[s].doc \in Doc
        BY <1>2, <1>3, <2>2, <3>1, <3>3, Alone DEF RequestInv, Progress
      <4>2. document'[req[s].doc] = document[req[s].doc]
        BY <1>8, <4>1
      <4>3. QED
        BY <1>2, <3>1, <4>2 DEF RequestInv
    <3>4. QED
      BY <3>2, <3>3
  <2>3. QED
    BY <2>1, <2>2
<1>12. \A u \in Caller : \A x, row : Uploaded(req[u], x, row) => Uploaded(req'[u], x, row)
  BY <1>3, <1>6 DEF Uploaded
<1>13. RowsInv'
  <2>1. ASSUME NEW x \in Doc, document'[x] # NoRow
        PROVE  document'[x].by \in Caller /\ Uploaded(req'[document'[x].by], x, document'[x])
    <3>1. CASE x = d
      BY <1>3, <1>5, <1>6, <1>8, <3>1 DEF Uploaded
    <3>2. CASE x # d
      BY <1>8, <1>12, <2>1, <3>2 DEF IInv, RowsInv
    <3>3. QED
      BY <3>1, <3>2
  <2>2. ASSUME NEW s \in Caller, req'[s].op \in {"download", "delete"}
        PROVE  Uploaded(req'[req'[s].row.by], req'[s].doc, req'[s].row)
    <3>1. req'[s] = req[s] /\ s # r
      BY <1>5, <1>6, <2>2
    <3>2. req[s].row.by \in Caller
      BY <2>2, <3>1, RequestTypes DEF RequestInv, Progress, Row
    <3>3. QED
      BY <1>12, <2>2, <3>1, <3>2 DEF IInv, RowsInv
  <2>3. ASSUME NEW s \in Caller, NEW t \in Caller, req'[s].op = "upload",
               req'[t].op = "upload", req'[s].doc = req'[t].doc
        PROVE  s = t
    <3>1. /\ req[s].op = "upload" /\ req[t].op = "upload" /\ req[s].doc = req[t].doc
      BY <1>2, <1>5, <1>6, <2>3
    <3>2. QED
      BY <3>1 DEF IInv, RowsInv
  <2>4. QED
    BY <2>1, <2>2, <2>3 DEF RowsInv
<1>14. FilesInv'
  <2>1. ASSUME NEW k \in Key, objects'[k] # Missing
        PROVE  \E s \in Caller : req'[s].op = "upload" /\ k = File(req'[s])
    <3>1. PICK s \in Caller : req[s].op = "upload" /\ k = File(req[s])
      BY <1>2, <2>1 DEF IInv, FilesInv
    <3>2. req'[s].op = "upload" /\ k = File(req'[s])
      BY <1>5, <1>6, <1>10, <3>1
    <3>3. QED
      BY <3>2
  <2>2. ASSUME NEW s \in Caller, req'[s].op = "upload", req'[s].committed,
               objects'[File(req'[s])] = Missing
        PROVE  \E t \in Caller : req'[t].op = "delete" /\ req'[t].doc = req'[s].doc
    <3>1. s # r
      BY <1>2, <1>3, <1>6, <1>10, <2>2 DEF Whole, Missing
    <3>2. req'[s] = req[s]
      BY <1>6, <3>1
    <3>3. PICK t \in Caller : req[t].op = "delete" /\ req[t].doc = req[s].doc
      BY <1>2, <2>2, <3>2 DEF IInv, FilesInv
    <3>4. req'[t] = req[t]
      BY <1>2, <1>6, <3>3
    <3>5. QED
      BY <3>2, <3>3, <3>4
  <2>3. QED
    BY <2>1, <2>2 DEF FilesInv
<1>15. QED
  BY <1>9, <1>11, <1>13, <1>14 DEF IInv

LEMMA DeletedRequest ==
  ASSUME NEW p \in Request
  PROVE  LET q == [p EXCEPT !.pc = "done", !.reply = 204, !.committed = TRUE]
         IN /\ q \in Request /\ q.pc = "done" /\ q.reply = 204 /\ q.op = p.op
            /\ q.org = p.org /\ q.doc = p.doc /\ q.row = p.row /\ q.size = p.size
<1> DEFINE e == Ended(p, 204)
<1>1. e \in Request /\ Same(p, e) /\ e.pc = "done" /\ e.reply = 204
  BY EndedRequest DEF Reply
<1> HIDE DEF e
<1>2. [e EXCEPT !.committed = TRUE] \in Request
  BY <1>1 DEF Request
<1>3. [p EXCEPT !.pc = "done", !.reply = 204, !.committed = TRUE] = [e EXCEPT !.committed = TRUE]
  BY DEF e, Ended
<1>4. QED
  BY <1>1, <1>2, <1>3 DEF Request, Same

LEMMA DeleteCommittedKeeps ==
  ASSUME IInv, NEW r \in Caller, DeleteCommitted(r)
  PROVE  IInv'
<1> DEFINE q == [req[r] EXCEPT !.pc = "done", !.reply = 204, !.committed = TRUE]
           d == req[r].doc
<1>1. /\ req[r] \in Request /\ RequestInv(r) /\ req \in [Caller -> Request]
      /\ document \in [Doc -> Row \cup {NoRow}]
  BY RequestTypes DEF IInv, StateTypes, DocumentsTypeOK
<1>2. /\ req[r].pc = "commit" /\ req[r].op = "delete"
      /\ UNCHANGED <<objects, call, service, settings, faults>>
  BY DEF DeleteCommitted, storageVars
<1>3. /\ d \in Doc /\ objects[File(req[r])] = Missing /\ 204 \in Reply
  BY <1>1, <1>2 DEF RequestInv, Progress, DeleteInv, Reply
<1>4. req' = [req EXCEPT ![r] = q]
  BY <1>1 DEF DeleteCommitted
<1>5. q \in Request
  BY <1>1, DeletedRequest
<1>6. /\ q.pc = "done" /\ q.reply = 204 /\ q.op = "delete"
      /\ q.org = req[r].org /\ q.doc = d /\ q.row = req[r].row /\ q.size = req[r].size
  BY <1>1, <1>2, DeletedRequest
<1> HIDE DEF q
<1>7. /\ req'[r] = q /\ \A s \in Caller \ {r} : req'[s] = req[s]
      /\ req' \in [Caller -> Request]
  BY <1>1, <1>4, <1>5
<1>8. document' = [document EXCEPT ![d] = NoRow]
  BY DEF DeleteCommitted
<1>9. /\ \A x \in Doc : document'[x] = IF x = d THEN NoRow ELSE document[x]
      /\ document' \in [Doc -> Row \cup {NoRow}]
  BY <1>1, <1>3, <1>8
<1>10. StateTypes'
  BY <1>2, <1>7, <1>9 DEF IInv, StateTypes, DocumentsTypeOK, StorageTypeOK, Request
<1>11. File(q) = File(req[r])
  BY <1>6 DEF File
<1>12. PICK u \in Caller : /\ req[u].op = "upload" /\ req[u].doc = d
                           /\ File(req[u]) = File(req[r])
  BY <1>2, UploaderOf
<1>13. ASSUME NEW s \in Caller
       PROVE  RequestInv(s)'
  <2>1. CASE s = r
    <3>1. Progress(q, call[r])
      BY <1>1, <1>2, <1>6 DEF RequestInv, Progress
    <3>2. DeleteInv(q, call[r], objects[File(q)], document'[q.doc], service)
      BY <1>3, <1>6, <1>9 DEF DeleteInv
    <3>3. /\ DownloadInv(q, call[r])
          /\ UploadInv(r, q, call[r], objects[File(q)], document'[q.doc])
      BY <1>6 DEF DownloadInv, UploadInv
    <3>4. QED
      BY <1>2, <1>7, <2>1, <3>1, <3>2, <3>3 DEF RequestInv
  <2>2. CASE s # r
    <3>1. RequestInv(s) /\ req'[s] = req[s] /\ call'[s] = call[s]
      BY <1>2, <1>7, <2>2, RequestTypes
    <3>2. UploadInv(s, req[s], call[s], objects[File(req[s])], document'[req[s].doc])
      <4>1. SUFFICES ASSUME req[s].op = "upload"
                     PROVE  UploadInv(s, req[s], call[s], objects[File(req[s])],
                                      document'[req[s].doc])
        BY DEF UploadInv
      <4>2. req[s].doc \in Doc
        BY <3>1, <4>1 DEF RequestInv, Progress
      <4>3. CASE req[s].doc = d
        <5>1. s = u
          BY <1>12, <4>1, <4>3 DEF IInv, RowsInv
        <5>2. objects[File(req[s])] = Missing /\ document'[req[s].doc] = NoRow
          BY <1>3, <1>9, <1>12, <4>2, <4>3, <5>1
        <5>3. QED
          BY <3>1, <4>1, <5>2 DEF RequestInv, UploadInv
      <4>4. CASE req[s].doc # d
        BY <1>9, <3>1, <4>2, <4>4 DEF RequestInv
      <4>5. QED
        BY <4>3, <4>4
    <3>3. DeleteInv(req[s], call[s], objects[File(req[s])], document'[req[s].doc], service)
      <4>1. SUFFICES ASSUME req[s].op = "delete"
                     PROVE  DeleteInv(req[s], call[s], objects[File(req[s])],
                                      document'[req[s].doc], service)
        BY DEF DeleteInv
      <4>2. req[s].doc \in Doc
        BY <3>1, <4>1 DEF RequestInv, Progress
      <4>3. document'[req[s].doc] \in {document[req[s].doc], NoRow}
        BY <1>9, <4>2
      <4>4. QED
        BY <3>1, <4>1, <4>3 DEF RequestInv, DeleteInv
    <3>4. QED
      BY <1>2, <3>1, <3>2, <3>3 DEF RequestInv
  <2>3. QED
    BY <2>1, <2>2
<1>14. \A v \in Caller : \A x, row : Uploaded(req[v], x, row) => Uploaded(req'[v], x, row)
  BY <1>2, <1>7 DEF Uploaded
<1>15. \A s \in Caller : req'[s].op = req[s].op /\ req'[s].doc = req[s].doc
                           /\ req'[s].row = req[s].row /\ File(req'[s]) = File(req[s])
                           /\ (req[s].op = "upload" => req'[s] = req[s])
  BY <1>2, <1>6, <1>7, <1>11
<1>16. RowsInv'
  <2>1. ASSUME NEW x \in Doc, document'[x] # NoRow
        PROVE  document'[x].by \in Caller /\ Uploaded(req'[document'[x].by], x, document'[x])
    BY <1>9, <1>14, <2>1 DEF IInv, RowsInv
  <2>2. ASSUME NEW s \in Caller, req'[s].op \in {"download", "delete"}
        PROVE  Uploaded(req'[req'[s].row.by], req'[s].doc, req'[s].row)
    <3>1. req[s].op \in {"download", "delete"}
      BY <1>15, <2>2
    <3>2. req[s].row.by \in Caller
      BY <3>1, RequestTypes DEF RequestInv, Progress, Row
    <3>3. Uploaded(req[req[s].row.by], req[s].doc, req[s].row)
      BY <3>1 DEF IInv, RowsInv
    <3>4. QED
      BY <1>14, <1>15, <3>2, <3>3
  <2>3. ASSUME NEW s \in Caller, NEW t \in Caller, req'[s].op = "upload",
               req'[t].op = "upload", req'[s].doc = req'[t].doc
        PROVE  s = t
    BY <1>15, <2>3 DEF IInv, RowsInv
  <2>4. QED
    BY <2>1, <2>2, <2>3 DEF RowsInv
<1>17. FilesInv'
  <2>1. ASSUME NEW k \in Key, objects'[k] # Missing
        PROVE  \E s \in Caller : req'[s].op = "upload" /\ k = File(req'[s])
    BY <1>2, <1>15, <2>1 DEF IInv, FilesInv
  <2>2. ASSUME NEW s \in Caller, req'[s].op = "upload", req'[s].committed,
               objects'[File(req'[s])] = Missing
        PROVE  \E t \in Caller : req'[t].op = "delete" /\ req'[t].doc = req'[s].doc
    <3>1. PICK t \in Caller : req[t].op = "delete" /\ req[t].doc = req[s].doc
      BY <1>2, <1>15, <2>2 DEF IInv, FilesInv
    <3>2. QED
      BY <1>15, <3>1
  <2>3. QED
    BY <2>1, <2>2 DEF FilesInv
<1>18. QED
  BY <1>10, <1>13, <1>16, <1>17 DEF IInv

-----------------------------------------------------------------------------

LEMMA InvNext == IInv /\ [Next]_vars => IInv'
<1> SUFFICES ASSUME IInv, [Next]_vars
             PROVE  IInv'
  OBVIOUS
<1>1. CASE UNCHANGED vars
  <2>1. UNCHANGED <<document, req, settings, service, objects, call, faults>>
    BY <1>1 DEF vars, storageVars
  <2>2. StateTypes'
    BY <2>1 DEF IInv, StateTypes, DocumentsTypeOK, StorageTypeOK
  <2>3. \A r \in Caller : RequestInv(r)'
    BY <2>1 DEF IInv, RequestInv
  <2>4. RowsInv' /\ FilesInv'
    BY <2>1 DEF IInv, RowsInv, FilesInv
  <2>5. QED
    BY <2>2, <2>3, <2>4 DEF IInv
<1>2. CASE Next
  <2>1. PICK r \in Caller :
          \/ ServiceUnavailable(r) \/ UploadRefused(r) \/ NotFound(r)
          \/ UploadDocument(r) \/ DownloadDocument(r) \/ DeleteDocument(r)
          \/ StorageCall(r) \/ EndpointStep(r)
          \/ SessionFails(r) \/ WorkerDies(r)
    BY <1>2 DEF Next
  <2>2. CASE EndpointStep(r)
    BY <2>2, StorageFailedKeeps, AnsweredKeeps, DownloadAnsweredKeeps, UploadCommittedKeeps,
       UploadAnsweredKeeps, DeleteCommittedKeeps DEF EndpointStep
  <2>3. QED
    BY <2>1, <2>2, UnavailableKeeps, UploadRefusedKeeps, NotFoundKeeps, UploadKeeps,
       DownloadKeeps, DeleteKeeps, StorageKeeps, FailureKeeps
<1>3. QED
  BY <1>1, <1>2

LEMMA Invariant == Spec => []IInv
BY InvInit, InvNext, PTL DEF Spec

-----------------------------------------------------------------------------
(* The chunks of a file *)

\* A set that has 0, and with each number the next one, has all of them.
LEMMA Induction ==
  ASSUME NEW T, 0 \in T, \A n \in Nat : n \in T => n + 1 \in T
  PROVE  Nat \subseteq T
<1> DEFINE R == OpToRel(<, Nat)
           left == Nat \ T
<1> SUFFICES ASSUME left # {} PROVE FALSE
  OBVIOUS
<1>1. PICK m \in left : \A k \in left : ~ (<<k, m>> \in R)
  <2>1. IsWellFoundedOn(R, Nat)
    BY NatLessThanWellFounded
  <2> HIDE DEF R
  <2> QED BY <2>1, WFMin
<1>2. m # 0 /\ m - 1 \in Nat
  OBVIOUS
<1>3. <<m - 1, m>> \in R
  BY <1>2 DEF OpToRel
<1>4. m - 1 \in T
  BY <1>1, <1>2, <1>3
<1> QED BY <1>2, <1>4

\* The sum over a part of the chunks: each but the last one is full.
LEMMA ChunksSum ==
  ASSUME NEW n \in Nat, NEW k \in Nat \ {0}
  PROVE  FoldSeq(LAMBDA x, y : x + y, 0, iter_file_chunks(n, k)) = n
<1> DEFINE count == (n + k - 1) \div k
           chunks == iter_file_chunks(n, k)
           S == DOMAIN chunks
           short == count * k - n
           Good(f) == f = [s \in SUBSET S |->
                             IF s = {} THEN 0
                             ELSE chunks[CHOOSE x \in s : TRUE] + f[s \ {CHOOSE x \in s : TRUE}]]
           iter == CHOOSE f : Good(f)
           sum == [s \in SUBSET S |-> k * Cardinality(s) - (IF count \in s THEN short ELSE 0)]
<1>1. FoldSeq(LAMBDA x, y : x + y, 0, chunks) = iter[S]
  BY DEF FoldSeq, FoldFunction, FoldFunctionOnSet, MapThenFoldSet
<1>2. count \in Nat /\ short \in Int /\ (count = 0 => n = 0)
  OBVIOUS
<1>3. S = 1..count /\ \A i \in S : chunks[i] = IF i < count THEN k ELSE n - (count - 1) * k
  BY DEF iter_file_chunks
<1>4. \A i \in S : chunks[i] = IF i = count THEN k - short ELSE k
  <2> DEFINE c == count
  <2>1. c \in Nat
    BY <1>2
  <2>2. \A i \in 1..c : ~ (i < c) <=> i = c
    BY <2>1
  <2> HIDE DEF c
  <2>3. n - (c - 1) * k = k - (c * k - n)
    BY <2>1
  <2> QED BY <1>3, <2>2, <2>3 DEF c
<1>5. IsFiniteSet(S)
  BY <1>2, <1>3, FS_Interval
<1> HIDE DEF S, chunks, short, count
<1>6. \A s \in SUBSET S : IsFiniteSet(s) /\ Cardinality(s) \in Nat
  BY <1>5, FS_Subset, FS_CardinalityType
<1>7. ASSUME NEW s \in SUBSET S, NEW x \in s PROVE sum[s] = chunks[x] + sum[s \ {x}]
  <2> DEFINE c == Cardinality(s \ {x})
             last == IF count \in s \ {x} THEN short ELSE 0
  <2>1. s \ {x} \in SUBSET S /\ Cardinality(s) = c + 1 /\ c \in Nat
    <3>1. Cardinality(s \ {x}) = Cardinality(s) - 1
      BY <1>6, FS_RemoveElement
    <3>2. s \ {x} \in SUBSET S
      OBVIOUS
    <3> QED BY <3>1, <3>2, <1>6
  <2>2. sum[s \ {x}] = k * c - last
    BY <2>1
  <2>3. sum[s] = k * (c + 1) - (IF count \in s THEN short ELSE 0)
    BY <2>1
  <2>4. k * (c + 1) = k * c + k
    BY <2>1
  <2>5. k * c \in Int /\ k \in Int
    BY <2>1
  <2> DEFINE p == k * c
             q == k * (c + 1)
  <2>6. p \in Int /\ q = p + k /\ sum[s \ {x}] = p - last
        /\ sum[s] = q - (IF count \in s THEN short ELSE 0)
    BY <2>2, <2>3, <2>4, <2>5
  <2> HIDE DEF p, q, c, sum
  <2>7. CASE x = count
    BY <2>6, <2>7, <1>2, <1>4
  <2>8. CASE x # count
    <3>1. chunks[x] = k
      BY <2>8, <1>4
    <3>2. last = IF count \in s THEN short ELSE 0
      BY <2>8
    <3> DEFINE l == IF count \in s THEN short ELSE 0
    <3>3. l \in Int
      BY <1>2
    <3>4. sum[s \ {x}] = p - l /\ sum[s] = q - l
      BY <2>6, <3>2
    <3> HIDE DEF l
    <3> QED BY <2>6, <3>1, <3>3, <3>4
  <2> QED BY <2>7, <2>8
<1>8. sum[{}] = 0
  BY FS_EmptySet
<1>9. sum = [s \in SUBSET S |-> sum[s]]
  OBVIOUS
<1>10. sum[S] = n
  <2>1. Cardinality(S) = count
    BY <1>2, <1>3, FS_Interval
  <2>2. CASE count = 0
    <3>1. S = {}
      BY <2>2, <1>3
    <3> QED BY <3>1, <2>2, <1>2, <1>8
  <2>3. CASE count # 0
    <3>1. count \in S
      BY <2>3, <1>2, <1>3
    <3>2. sum[S] = k * count - short
      BY <2>1, <3>1
    <3>3. k * count - short = n
      BY <1>2 DEF short
    <3> QED BY <3>2, <3>3
  <2> QED BY <2>2, <2>3
<1> HIDE DEF sum
<1>11. Good(sum)
  <2>1. ASSUME NEW s \in SUBSET S, s # {}
        PROVE  sum[s] = chunks[CHOOSE x \in s : TRUE] + sum[s \ {CHOOSE x \in s : TRUE}]
    <3> DEFINE x == CHOOSE y \in s : TRUE
    <3>1. x \in s
      BY <2>1
    <3> HIDE DEF x
    <3>2. sum[s] = chunks[x] + sum[s \ {x}]
      BY <3>1, <1>7
    <3> QED BY <3>2 DEF x
  <2> QED BY <2>1, <1>8, <1>9
<1>12. Good(iter)
  <2> HIDE DEF Good
  <2> QED BY <1>11
<1> HIDE DEF iter
<1>13. \A s \in SUBSET S :
         iter[s] = IF s = {} THEN 0
                   ELSE chunks[CHOOSE x \in s : TRUE] + iter[s \ {CHOOSE x \in s : TRUE}]
  BY <1>12
<1> HIDE DEF Good
<1> DEFINE T == {m \in Nat : \A s \in SUBSET S : Cardinality(s) = m => iter[s] = sum[s]}
<1>14. 0 \in T
  <2> SUFFICES ASSUME NEW s \in SUBSET S, Cardinality(s) = 0 PROVE iter[s] = sum[s]
    OBVIOUS
  <2>1. s = {}
    BY <1>6, FS_EmptySet
  <2> QED BY <2>1, <1>8, <1>13
<1>15. ASSUME NEW m \in Nat, m \in T PROVE m + 1 \in T
  <2> SUFFICES ASSUME NEW s \in SUBSET S, Cardinality(s) = m + 1 PROVE iter[s] = sum[s]
    OBVIOUS
  <2>1. s # {}
    BY <1>6, FS_EmptySet
  <2> DEFINE x == CHOOSE y \in s : TRUE
  <2>2. x \in s
    BY <2>1
  <2>3. iter[s] = chunks[x] + iter[s \ {x}]
    BY <2>1, <1>13
  <2> HIDE DEF x
  <2>4. s \ {x} \in SUBSET S /\ Cardinality(s \ {x}) = m
    <3>1. Cardinality(s \ {x}) = Cardinality(s) - 1
      BY <2>2, <1>6, FS_RemoveElement
    <3> QED BY <3>1
  <2>5. iter[s \ {x}] = sum[s \ {x}]
    BY <2>4, <1>15
  <2>6. sum[s] = chunks[x] + sum[s \ {x}]
    BY <2>2, <1>7
  <2> QED BY <2>3, <2>5, <2>6
<1>16. Nat \subseteq T
  <2> HIDE DEF T
  <2> QED BY <1>14, <1>15, Induction
<1>17. iter[S] = sum[S]
  <2>1. Cardinality(S) \in T /\ S \in SUBSET S
    BY <1>6, <1>16
  <2> QED BY <2>1
<1> QED BY <1>1, <1>10, <1>17 DEF chunks

-----------------------------------------------------------------------------
(* The theorems. *)

\* Settings, calls, rows and requests keep their types: a request that is not refused
\* is stored with the size it was uploaded with, and the store holds whole or torn files.
THEOREM DocumentsTypesHold == Spec => []DocumentsTypeOK
<1>1. IInv => DocumentsTypeOK
  BY DEF IInv, StateTypes
<1>2. QED
  BY <1>1, Invariant, PTL

\* A delete that meets no failure of a cloud provider succeeds, although another one
\* has removed the object or the row before it.
THEOREM CloudDeletesStayRepeatable == Spec => []CloudDeletesAreRepeatable
<1>1. IInv => CloudDeletesAreRepeatable
  BY RequestTypes DEF CloudDeletesAreRepeatable, RequestInv, DeleteInv
<1>2. QED
  BY <1>1, Invariant, PTL

\* A download that is answered with 200 was given the file as it was uploaded.  The
\* chunks of a file add up to the file, whatever its size.
THEOREM ServedStaysUploaded == Spec => []ServedIsUploaded
<1>0. \A n \in Size : Streamed(n) = n
  BY ChunksSum, StorageAssumption, DocumentsAssumption DEF Streamed
<1>1. ASSUME IInv, NEW r \in Caller, req[r].reply = 200
      PROVE  req[r].body = req[req[r].row.by].size
  <2>1. req[r].op = "download"
    BY <1>1, RequestTypes DEF RequestInv, Progress, UploadInv, DeleteInv, Request
  <2>2. PICK u \in Caller : u = req[r].row.by /\ req[u].size = req[r].row.file_size
    BY <1>1, <2>1, UploaderOf
  <2>3. req[r].body = Streamed(req[r].row.file_size)
    BY <1>1, <2>1, RequestTypes DEF RequestInv, DownloadInv
  <2>4. req[r].row.file_size \in Size
    BY <1>1, <2>1, RequestTypes DEF RequestInv, Progress, Row
  <2>5. QED
    BY <2>2, <2>3, <2>4, <1>0
<1>2. IInv => ServedIsUploaded
  BY <1>1 DEF ServedIsUploaded
<1>3. QED
  BY <1>2, Invariant, PTL

-----------------------------------------------------------------------------
(* Files are kept. *)

LEMMA NoOrphans ==
  ASSUME IInv
  PROVE  OrphansAreUnfinishedUploads
<1> SUFFICES ASSUME NEW d \in Doc, ObjectsOf(d) # {}, document[d] = NoRow
             PROVE  \E r \in Caller : req[r].op = "upload" /\ req[r].doc = d /\ ~ req[r].committed
  BY DEF OrphansAreUnfinishedUploads
<1>1. PICK k \in Key : k[Len(k)] = d /\ objects[k] # Missing
  BY DEF ObjectsOf
<1>2. PICK r \in Caller : req[r].op = "upload" /\ k = File(req[r])
  BY <1>1 DEF IInv, FilesInv
<1>3. req[r].doc = d
  BY <1>1, <1>2 DEF File
<1>4. ~ req[r].committed
  <2>1. SUFFICES ASSUME req[r].committed
                 PROVE  FALSE
    OBVIOUS
  <2>2. document[d] = req[r].row
    BY <1>1, <1>2, <1>3, <2>1, RequestTypes DEF RequestInv, UploadInv
  <2>3. req[r].row \in Row
    BY <1>2, RequestTypes DEF RequestInv, Progress
  <2>4. QED
    BY <2>2, <2>3, RowIsNot
<1>5. QED
  BY <1>2, <1>3, <1>4

\* The row of a document, and the request that uploaded it.
LEMMA RowHasUploader ==
  ASSUME IInv, NEW d \in Doc, document[d] # NoRow
  PROVE  \E u \in Caller : /\ req[u].op = "upload" /\ req[u].doc = d /\ req[u].committed
                           /\ req[u].row = document[d] /\ File(req[u]) = <<document[d].org, d>>
                           /\ req[u].size = document[d].file_size
                           /\ document[d] \in Row
                           /\ ObjectKey(document[d].org, d) = File(req[u])
<1>1. document[d] \in Row
  BY DEF IInv, StateTypes, DocumentsTypeOK
<1>2. PICK u \in Caller : u = document[d].by /\ Uploaded(req[u], d, document[d])
  BY DEF IInv, RowsInv
<1>3. req[u].org = document[d].org /\ req[u].size = document[d].file_size
  BY <1>2, RequestTypes DEF RequestInv, Progress, UploadInv, Uploaded
<1>4. document[d].org \in Org
  BY <1>1 DEF Row
<1>5. QED
  BY <1>1, <1>2, <1>3, <1>4, KeyOf DEF Uploaded, File

LEMMA NoLoss ==
  ASSUME IInv
  PROVE  FileLossIsADelete
<1> SUFFICES ASSUME NEW d \in Doc, document[d] # NoRow
             PROVE  \/ objects[ObjectKey(document[d].org, d)] = Whole(document[d].file_size)
                    \/ \E r \in Caller : req[r].op = "delete" /\ req[r].doc = d
  BY DEF FileLossIsADelete
<1>1. PICK u \in Caller : /\ req[u].op = "upload" /\ req[u].doc = d /\ req[u].committed
                          /\ req[u].size = document[d].file_size
                          /\ ObjectKey(document[d].org, d) = File(req[u])
  BY RowHasUploader
<1>2. objects[File(req[u])] \in {Whole(req[u].size), Missing}
  BY <1>1, RequestTypes DEF RequestInv, UploadInv
<1>3. objects[File(req[u])] = Missing => \E r \in Caller : req[r].op = "delete" /\ req[r].doc = d
  BY <1>1 DEF IInv, FilesInv
<1>4. QED
  BY <1>1, <1>2, <1>3

\* A delete is of the row that is there, if there is one.
LEMMA DeletedRow ==
  ASSUME IInv, NEW r \in Caller, req[r].op = "delete", document[req[r].doc] # NoRow
  PROVE  /\ document[req[r].doc] = req[r].row /\ document[req[r].doc].org = req[r].org
         /\ req[r].doc \in Doc
<1>1. PICK u \in Caller : /\ req[u].op = "upload" /\ req[u].committed
                          /\ req[u].doc = req[r].doc /\ req[u].row = req[r].row
  BY UploaderOf
<1>2. document[req[r].doc] = req[r].row
  BY <1>1, RequestTypes DEF RequestInv, UploadInv
<1>3. QED
  BY <1>2, RequestTypes DEF RequestInv, Progress

\* All that requests do to rows and files, and to what has been uploaded.
Finished(q, d) == q.op = "upload" /\ q.doc = d /\ q.committed

Quiet == /\ UNCHANGED <<document, objects>>
         /\ \A s \in Caller : \A d : Finished(req'[s], d) <=> Finished(req[s], d)

\* The store is written for an upload, or an object removed for a delete.
Stores(r) ==
  /\ req[r].op = "upload" /\ ~ req[r].committed /\ UNCHANGED <<document, req>>
  /\ \E obj \in Object \ {Missing} : objects' = [objects EXCEPT ![File(req[r])] = obj]
Removes(r) ==
  /\ req[r].op = "delete" /\ UNCHANGED <<document, req>>
  /\ objects' = [objects EXCEPT ![File(req[r])] = Missing]

LEMMA StorageChanges ==
  ASSUME IInv, NEW r \in Caller, StorageCall(r)
  PROVE  (Quiet \/ Stores(r) \/ Removes(r)) /\ service' = service
<1>1. StorageTypeOK
  BY DEF IInv, StateTypes, DocumentsTypeOK
<1>2. call[r].step \notin {"idle", "done"} /\ UNCHANGED <<document, req>>
  BY <1>1, StepEffect DEF StorageCall
<1>3. PICK c \in Call : StorageEffect(r, c)
  BY <1>1, StepEffect DEF StorageCall
<1>4. /\ call[r].key = File(req[r]) /\ req[r].pc = "call"
      /\ call[r].op = req[r].op \/ (req[r].op = "download" /\ call[r].op = "get_download_url")
  BY <1>2, CallerOf
<1>5. c.op = call[r].op /\ service' = service
  BY <1>3 DEF StorageEffect, Continues
<1>6. CASE objects' = objects
  BY <1>2, <1>5, <1>6 DEF Quiet, Finished
<1>7. CASE objects' # objects
  <2>1. Effect(r, c)
    BY <1>3, <1>7 DEF StorageEffect
  <2>2. CASE c.op = "delete"
    <3>1. objects' = Removed(r)
      BY <1>7, <2>1, <2>2 DEF Effect
    <3>2. QED
      BY <1>2, <1>4, <1>5, <2>2, <3>1 DEF Removes, Removed
  <2>3. CASE c.op = "upload"
    <3>1. call[r].data = Whole(req[r].size) /\ req[r].size \in Size /\ ~ req[r].committed
            /\ req[r].op = "upload"
      BY <1>4, <1>5, <2>3, RequestTypes DEF RequestInv, UploadInv
    <3>2. Whole(req[r].size) \in Object \ {Missing} /\ Torn \in Object \ {Missing}
      BY <3>1 DEF Object, Whole, Torn, Missing
    <3>3. \/ objects' = [objects EXCEPT ![File(req[r])] = Whole(req[r].size)]
          \/ objects' = [objects EXCEPT ![File(req[r])] = Torn]
      BY <1>4, <1>7, <2>1, <2>3, <3>1 DEF Effect, Put
    <3>4. QED
      BY <1>2, <1>5, <3>1, <3>2, <3>3 DEF Stores
  <2>4. QED
    BY <1>7, <2>1, <2>2, <2>3 DEF Effect
<1>8. QED
  BY <1>6, <1>7

LEMMA OthersAreQuiet ==
  ASSUME IInv, NEW r \in Caller,
         \/ ServiceUnavailable(r) \/ UploadRefused(r) \/ NotFound(r)
         \/ UploadDocument(r) \/ DownloadDocument(r) \/ DeleteDocument(r)
         \/ StorageFailed(r) \/ UploadStored(r) \/ FileDeleted(r) \/ DownloadAnswered(r)
         \/ UploadAnswered(r) \/ SessionFails(r) \/ WorkerDies(r)
  PROVE  Quiet /\ service' = service
<1>1. req \in [Caller -> Request] /\ req[r] \in Request
        /\ (req[r].pc = "idle" => req[r].op = "none")
  BY RequestTypes DEF RequestInv, Progress, Idle
<1>2. UNCHANGED <<document, objects, service>>
  BY DEF ServiceUnavailable, UploadRefused, NotFound, UploadDocument, DownloadDocument,
     DeleteDocument, Selected, StorageFailed, UploadStored, FileDeleted, DownloadAnswered,
     UploadAnswered, SessionFails, WorkerDies, storageVars
<1>3. ASSUME NEW q, req' = [req EXCEPT ![r] = q],
             \A d : Finished(q, d) <=> Finished(req[r], d)
      PROVE  Quiet
  BY <1>1, <1>2, <1>3 DEF Quiet
<1>4. CASE ServiceUnavailable(r) \/ UploadRefused(r) \/ NotFound(r)
             \/ UploadAnswered(r)
  <2>1. PICK reply : Done(r, reply)
    BY <1>4 DEF ServiceUnavailable, UploadRefused, NotFound, UploadAnswered
  <2>2. req' = [req EXCEPT ![r] = Ended(req[r], reply)]
    BY <1>1, <2>1, EndedUpdate
  <2>3. \A d : Finished(Ended(req[r], reply), d) <=> Finished(req[r], d)
    BY <1>1 DEF Finished, Ended, Request
  <2>4. QED
    BY <1>2, <1>3, <2>2, <2>3
<1>5. CASE UploadDocument(r)
  <2>1. PICK org \in Org, mime \in MimeType, size \in Size, x \in Doc :
          req' = [req EXCEPT ![r] =
                    [Idle EXCEPT !.op = "upload", !.org = org, !.doc = x, !.size = size,
                                 !.pc = "call",
                                 !.row = [org |-> org, content_type |-> sanitized(mime),
                                          file_size |-> read_limited(size), by |-> r]]]
    BY <1>5 DEF UploadDocument
  <2>2. req[r].op = "none"
    BY <1>1, <1>5 DEF UploadDocument
  <2>3. QED
    BY <1>2, <1>3, <2>1, <2>2 DEF Finished, Idle
<1>6. CASE DownloadDocument(r) \/ DeleteDocument(r)
  <2>1. PICK op \in {"download", "delete"}, x \in Doc, org \in Org :
          req' = [req EXCEPT ![r] = [Idle EXCEPT !.op = op, !.org = org, !.doc = x,
                                                 !.row = document[x], !.pc = "call"]]
    BY <1>6 DEF DownloadDocument, DeleteDocument, Selected
  <2>2. req[r].op = "none"
    BY <1>1, <1>6 DEF DownloadDocument, DeleteDocument, Selected
  <2>3. QED
    BY <1>2, <1>3, <2>1, <2>2 DEF Finished, Idle
<1>7. CASE StorageFailed(r) \/ SessionFails(r) \/ WorkerDies(r)
  <2>1. PICK reply, met : EndsMet(r, reply, met)
    <3>1. CASE StorageFailed(r)
      <4> DEFINE reply == IF call[r].result = "StorageError" THEN 503
                          ELSE exception_reply(call[r].result)
      <4>1. EndsMet(r, reply, call[r].faulty)
        BY <3>1 DEF StorageFailed, EndsMet
      <4> HIDE DEF reply
      <4>2. QED
        BY <4>1
    <3>2. CASE SessionFails(r) \/ WorkerDies(r)
      <4>1. PICK reply : Broken(r, reply)
        BY <3>2 DEF SessionFails, WorkerDies
      <4> DEFINE met == TRUE
      <4>2. EndsMet(r, reply, met)
        BY <4>1 DEF Broken, EndsMet
      <4> HIDE DEF met
      <4>3. QED
        BY <4>2
    <3>3. QED
      BY <1>7, <3>1, <3>2
  <2>2. req' = [req EXCEPT ![r] = EndedMet(req[r], reply, met)]
    BY <1>1, <2>1, EndedMetUpdate
  <2>3. \A d : Finished(EndedMet(req[r], reply, met), d) <=> Finished(req[r], d)
    BY <1>1 DEF Finished, Ended, EndedMet, Request
  <2>4. QED
    BY <1>2, <1>3, <2>2, <2>3
<1>8. CASE UploadStored(r) \/ FileDeleted(r)
  <2>1. req' = [req EXCEPT ![r] = [req[r] EXCEPT !.pc = "commit"]]
    BY <1>1, <1>8 DEF UploadStored, FileDeleted
  <2>2. \A d : Finished([req[r] EXCEPT !.pc = "commit"], d) <=> Finished(req[r], d)
    BY <1>1 DEF Finished, Request
  <2>3. QED
    BY <1>2, <1>3, <2>1, <2>2
<1>9. CASE DownloadAnswered(r)
  <2>1. CASE Done(r, 302) \/ Done(r, 404)
    <3>1. PICK reply \in {302, 404} : Done(r, reply)
      BY <2>1
    <3>2. req' = [req EXCEPT ![r] = Ended(req[r], reply)]
      BY <1>1, <3>1, EndedUpdate
    <3>3. \A d : Finished(Ended(req[r], reply), d) <=> Finished(req[r], d)
      BY <1>1 DEF Finished, Ended, Request
    <3>4. QED
      BY <1>2, <1>3, <3>2, <3>3
  <2>2. CASE req' = [req EXCEPT ![r].pc = "done", ![r].reply = 200,
                                ![r].body = Streamed(call[r].body.size)]
    <3> DEFINE body == Streamed(call[r].body.size)
    <3>1. EndsBody(r, 200, body)
      BY <2>2 DEF EndsBody
    <3> HIDE DEF body
    <3>2. req' = [req EXCEPT ![r] = EndedBody(req[r], 200, body)]
      BY <1>1, <3>1, EndedBodyUpdate
    <3>3. \A d : Finished(EndedBody(req[r], 200, body), d) <=> Finished(req[r], d)
      BY <1>1 DEF Finished, Ended, EndedBody, Request
    <3>4. QED
      BY <1>2, <1>3, <3>2, <3>3
  <2>3. QED
    BY <1>9, <2>1, <2>2 DEF DownloadAnswered
<1>10. QED
  BY <1>2, <1>4, <1>5, <1>6, <1>7, <1>8, <1>9

\* The object of request r becomes obj.
Puts(r, obj) == objects' = [objects EXCEPT ![File(req[r])] = obj]

\* What another document of the store holds is not touched.
LEMMA OtherKeys ==
  ASSUME IInv, NEW r \in Caller, req[r].op # "none", NEW obj, Puts(r, obj),
         NEW o \in Org, NEW d \in Doc
  PROVE  objects'[<<o, d>>] = IF d = req[r].doc /\ o = req[r].org THEN obj ELSE objects[<<o, d>>]
<1>1. objects \in [Key -> Object] /\ <<o, d>> \in Key
  BY DEF IInv, StateTypes, DocumentsTypeOK, StorageTypeOK, Key
<1>2. <<o, d>> = File(req[r]) <=> d = req[r].doc /\ o = req[r].org
  BY DEF File
<1>3. QED
  BY <1>1, <1>2 DEF Puts

LEMMA FileOfRemoves ==
  ASSUME IInv, NEW r \in Caller, Removes(r), NEW o \in Org, NEW d \in Doc
  PROVE  objects'[<<o, d>>] =
           IF d = req[r].doc /\ o = req[r].org THEN Missing ELSE objects[<<o, d>>]
<1>1. req[r].op # "none" /\ Puts(r, Missing)
  BY DEF Removes, Puts
<1>2. QED
  BY <1>1, OtherKeys

LEMMA FileOfStores ==
  ASSUME IInv, NEW r \in Caller, Stores(r), NEW o \in Org, NEW d \in Doc
  PROVE  \E obj \in Object \ {Missing} : objects'[<<o, d>>] =
           IF d = req[r].doc /\ o = req[r].org THEN obj ELSE objects[<<o, d>>]
<1>1. req[r].op # "none"
  BY DEF Stores
<1>2. PICK obj \in Object \ {Missing} : Puts(r, obj)
  BY DEF Stores, Puts
<1>3. QED
  BY <1>1, <1>2, OtherKeys

LEMMA OwnDeletes ==
  ASSUME IInv, [Next]_vars, NEW d \in Doc, NEW o \in Org,
         document[d] # NoRow, document[d].org = o,
         \/ document'[d] = NoRow
         \/ objects[ObjectKey(o, d)] # Missing /\ objects'[ObjectKey(o, d)] = Missing
  PROVE  \E r \in Caller : req'[r].op = "delete" /\ req'[r].doc = d /\ req'[r].org = o
<1>1. ObjectKey(o, d) = <<o, d>>
  BY KeyOf
<1>2. ~ UNCHANGED <<document, objects>>
  OBVIOUS
<1>3. PICK r \in Caller :
        \/ ServiceUnavailable(r) \/ UploadRefused(r) \/ NotFound(r)
        \/ UploadDocument(r) \/ DownloadDocument(r) \/ DeleteDocument(r)
        \/ StorageCall(r) \/ EndpointStep(r)
        \/ SessionFails(r) \/ WorkerDies(r)
  BY <1>2 DEF Next, vars, storageVars
<1>4. StorageCall(r) \/ UploadCommitted(r) \/ DeleteCommitted(r)
  BY <1>2, <1>3, OthersAreQuiet DEF Quiet, EndpointStep
<1>5. req \in [Caller -> Request] /\ req[r] \in Request
        /\ document \in [Doc -> Row \cup {NoRow}]
  BY RequestTypes DEF IInv, StateTypes, DocumentsTypeOK
<1>6. CASE StorageCall(r)
  <2>1. CASE Stores(r)
    <3>1. PICK obj \in Object \ {Missing} : objects'[<<o, d>>] =
            IF d = req[r].doc /\ o = req[r].org THEN obj ELSE objects[<<o, d>>]
      BY <2>1, FileOfStores
    <3>2. QED
      BY <1>1, <2>1, <3>1 DEF Stores
  <2>2. CASE Removes(r)
    <3>1. objects'[<<o, d>>] =
            IF d = req[r].doc /\ o = req[r].org THEN Missing ELSE objects[<<o, d>>]
      BY <2>2, FileOfRemoves
    <3>2. QED
      BY <1>1, <2>2, <3>1 DEF Removes
  <2>3. QED
    BY <1>2, <1>6, <2>1, <2>2, StorageChanges DEF Quiet
<1>7. CASE UploadCommitted(r)
  <2>1. req[r].row \in Row /\ req[r].op = "upload"
    BY <1>7, RequestTypes DEF UploadCommitted, RequestInv, Progress
  <2>2. document' = [document EXCEPT ![req[r].doc] = req[r].row] /\ objects' = objects
    BY <1>7 DEF UploadCommitted, storageVars
  <2>3. document'[d] # NoRow
    BY <1>5, <2>1, <2>2, RowIsNot
  <2>4. QED
    BY <2>2, <2>3
<1>8. CASE DeleteCommitted(r)
  <2>1. document' = [document EXCEPT ![req[r].doc] = NoRow] /\ objects' = objects
          /\ req[r].op = "delete"
    BY <1>8 DEF DeleteCommitted, storageVars
  <2>2. req[r].doc = d
    BY <1>5, <2>1
  <2>3. req[r].org = o
    BY <2>1, <2>2, DeletedRow
  <2>4. req'[r].op = "delete" /\ req'[r].doc = req[r].doc /\ req'[r].org = req[r].org
    BY <1>5, <1>8 DEF DeleteCommitted, Request
  <2>5. QED
    BY <2>2, <2>3, <2>4
<1>9. QED
  BY <1>4, <1>6, <1>7, <1>8

\* No file without a row but what an unfinished upload has left, no row without its file
\* but where a delete was begun, and both go only by a delete of their own organization.
THEOREM FilesStayKept == Spec => FilesAreKept
<1>1. IInv => OrphansAreUnfinishedUploads /\ FileLossIsADelete
  BY NoOrphans, NoLoss
<1>2. IInv /\ [Next]_vars =>
        [\A d \in Doc, o \in Org :
           \/ document[d] # NoRow /\ document[d].org = o /\ document'[d] = NoRow
           \/ document[d] # NoRow /\ document[d].org = o /\ objects[ObjectKey(o, d)] # Missing
                /\ objects'[ObjectKey(o, d)] = Missing
           => \E r \in Caller : req'[r].op = "delete" /\ req'[r].doc = d /\ req'[r].org = o]_vars
  BY OwnDeletes
<1>3. QED
  BY <1>1, <1>2, Invariant, PTL DEF Spec, FilesAreKept, TenantsDeleteTheirOwn

-----------------------------------------------------------------------------
(* The endpoints implement the life of a document. *)

\* What clients see of a document with this row, whose object is obj.
Seen(row, obj, finished) ==
  IF row # NoRow THEN IF obj = Whole(row.file_size) THEN "stored" ELSE "unavailable"
  ELSE IF finished = "yes" THEN "gone" ELSE "none"

Uploads(d) == IF \E r \in Caller : Finished(req[r], d) THEN "yes" ELSE "no"

View(d) == Seen(document[d], objects[<<document[d].org, d>>], Uploads(d))

LEMMA StateIsView ==
  ASSUME document \in [Doc -> Row \cup {NoRow}]
  PROVE  DocumentState = [d \in Doc |-> View(d)]
<1>1. ASSUME NEW d \in Doc
      PROVE  DocumentState[d] = View(d)
  <2>1. document[d] # NoRow => ObjectKey(document[d].org, d) = <<document[d].org, d>>
    BY KeyOf DEF Row
  <2>2. QED
    BY <2>1 DEF DocumentState, View, Seen, Uploads, Finished
<1>2. QED
  BY <1>1 DEF DocumentState

LEMMA StateIsViewNext ==
  ASSUME document' \in [Doc -> Row \cup {NoRow}]
  PROVE  DocumentState' = [d \in Doc |-> View(d)']
<1>1. ASSUME NEW d \in Doc
      PROVE  DocumentState'[d] = View(d)'
  <2>1. \A o \in Org : ObjectKey(o, d)' = <<o, d>>
    BY StorageAssumption DEF ObjectKey, LocalFilePath, AzureBlobName, S3ObjectKey, GCSBlobName
  <2>2. document'[d] # NoRow => ObjectKey(document[d].org, d)' = <<document'[d].org, d>>
    BY StorageAssumption DEF Row, ObjectKey, LocalFilePath, AzureBlobName, S3ObjectKey,
       GCSBlobName
  <2>3. QED
    BY <2>2 DEF DocumentState, View, Seen, Uploads, Finished
<1>2. QED
  BY <1>1 DEF DocumentState

\* One document moves, the others stay as they are.
LEMMA Moves ==
  ASSUME IInv, IInv', NEW d \in Doc, NEW from, NEW to,
         \A x \in Doc \ {d} : View(x)' = View(x), View(d) = from, View(d)' = to
  PROVE  Lifecycle!Become(d, from, to)
<1>1. DocumentState = [x \in Doc |-> View(x)] /\ DocumentState' = [x \in Doc |-> View(x)']
  BY StateIsView, StateIsViewNext DEF IInv, StateTypes, DocumentsTypeOK
<1>2. QED
  BY <1>1 DEF Lifecycle!Become

LEMMA Stays ==
  ASSUME IInv, IInv', \A x \in Doc : View(x)' = View(x)
  PROVE  UNCHANGED DocumentState
<1>1. DocumentState = [x \in Doc |-> View(x)] /\ DocumentState' = [x \in Doc |-> View(x)']
  BY StateIsView, StateIsViewNext DEF IInv, StateTypes, DocumentsTypeOK
<1>2. QED
  BY <1>1

LEMMA LifeInit ==
  ASSUME Init
  PROVE  Lifecycle!Init
<1>1. IInv
  BY InvInit
<1>2. ASSUME NEW d \in Doc
      PROVE  View(d) = "none"
  <2>1. Uploads(d) = "no" /\ document[d] = NoRow
    BY DEF Init, Uploads, Finished, Idle
  <2>2. QED
    BY <2>1 DEF View, Seen
<1>3. DocumentState = [d \in Doc |-> View(d)]
  BY <1>1, StateIsView DEF IInv, StateTypes, DocumentsTypeOK
<1>4. QED
  BY <1>2, <1>3 DEF Lifecycle!Init

LEMMA LifeQuiet ==
  ASSUME IInv, IInv', Quiet
  PROVE  UNCHANGED DocumentState
<1>1. ASSUME NEW x \in Doc
      PROVE  View(x)' = View(x)
  BY DEF Quiet, View, Seen, Uploads
<1>2. QED
  BY <1>1, Stays

LEMMA LifeStores ==
  ASSUME IInv, IInv', NEW r \in Caller, Stores(r)
  PROVE  UNCHANGED DocumentState
<1>1. document[req[r].doc] = NoRow
  BY RequestTypes DEF Stores, RequestInv, UploadInv
<1>2. ASSUME NEW x \in Doc
      PROVE  View(x)' = View(x)
  <2>1. document'[x] = document[x] /\ Uploads(x)' = Uploads(x)
    BY DEF Stores, Uploads
  <2>2. CASE document[x] = NoRow
    BY <2>1, <2>2 DEF View, Seen
  <2>3. CASE document[x] # NoRow
    <3>1. document[x].org \in Org
      BY <2>3 DEF IInv, StateTypes, DocumentsTypeOK, Row
    <3>2. objects'[<<document[x].org, x>>] = objects[<<document[x].org, x>>]
      BY <1>1, <2>3, <3>1, FileOfStores
    <3>3. QED
      BY <2>1, <3>2 DEF View
  <2>4. QED
    BY <2>2, <2>3
<1>3. QED
  BY <1>2, Stays

LEMMA LifeRemoves ==
  ASSUME IInv, IInv', NEW r \in Caller, Removes(r)
  PROVE  UNCHANGED DocumentState \/ \E d \in Doc : Lifecycle!LoseFile(d)
<1>1. PICK d \in Doc : d = req[r].doc
  BY RequestTypes DEF Removes, RequestInv, Progress
<1>2. ASSUME NEW x \in Doc
      PROVE  document'[x] = document[x] /\ Uploads(x)' = Uploads(x)
  BY DEF Removes, Uploads
<1>3. ASSUME NEW x \in Doc, x # d \/ document[x] = NoRow
      PROVE  View(x)' = View(x)
  <2>1. CASE document[x] = NoRow
    BY <1>2, <2>1 DEF View, Seen
  <2>2. CASE document[x] # NoRow
    <3>1. document[x].org \in Org
      BY <2>2 DEF IInv, StateTypes, DocumentsTypeOK, Row
    <3>2. objects'[<<document[x].org, x>>] = objects[<<document[x].org, x>>]
      BY <1>1, <1>3, <2>2, <3>1, FileOfRemoves
    <3>3. QED
      BY <1>2, <3>2 DEF View
  <2>3. QED
    BY <2>1, <2>2
<1>4. CASE document[d] = NoRow
  BY <1>3, <1>4, Stays
<1>5. CASE document[d] # NoRow
  <2>1. document[d].org = req[r].org /\ document[d].org \in Org
    BY <1>1, <1>5, DeletedRow DEF Removes, IInv, StateTypes, DocumentsTypeOK, Row
  <2>2. objects'[<<document[d].org, d>>] = Missing
    BY <1>1, <2>1, FileOfRemoves
  <2>3. View(d)' = "unavailable"
    BY <1>1, <1>2, <1>5, <2>2 DEF View, Seen, Whole, Missing
  <2>4. View(d) \in {"stored", "unavailable"}
    BY <1>5 DEF View, Seen
  <2>5. CASE View(d) = "unavailable"
    <3>1. \A x \in Doc : View(x)' = View(x)
      BY <1>3, <2>3, <2>5
    <3>2. QED
      BY <3>1, Stays
  <2>6. CASE View(d) = "stored"
    BY <1>1, <1>3, <2>3, <2>6, Moves DEF Lifecycle!LoseFile
  <2>7. QED
    BY <2>4, <2>5, <2>6
<1>6. QED
  BY <1>4, <1>5

LEMMA LifeCommitted ==
  ASSUME IInv, IInv', NEW r \in Caller, UploadCommitted(r)
  PROVE  \E d \in Doc : Lifecycle!Store(d)
<1>1. /\ req[r] \in Request /\ req \in [Caller -> Request] /\ RequestInv(r)
      /\ document \in [Doc -> Row \cup {NoRow}]
  BY RequestTypes DEF IInv, StateTypes, DocumentsTypeOK
<1>2. /\ req[r].pc = "commit" /\ req[r].op = "upload" /\ objects' = objects
      /\ document' = [document EXCEPT ![req[r].doc] = req[r].row]
  BY DEF UploadCommitted, storageVars
<1>3. PICK d \in Doc : d = req[r].doc
  BY <1>1, <1>2 DEF RequestInv, Progress
<1>4. /\ req[r].row \in Row /\ req[r].row.org = req[r].org /\ ~ req[r].committed
      /\ objects[File(req[r])] = Whole(req[r].row.file_size) /\ document[d] = NoRow
  BY <1>1, <1>2, <1>3 DEF RequestInv, Progress, UploadInv
<1>5. /\ document'[d] = req[r].row /\ req[r].row # NoRow
      /\ \A x \in Doc \ {d} : document'[x] = document[x]
  BY <1>1, <1>2, <1>3, <1>4, RowIsNot
<1>6. /\ req'[r].op = "upload" /\ req'[r].doc = d /\ req'[r].committed
      /\ \A s \in Caller \ {r} : req'[s] = req[s]
  BY <1>1, <1>2, <1>3 DEF UploadCommitted, Request
<1>7. Uploads(d) = "no"
  <2>1. ASSUME NEW s \in Caller, Finished(req[s], d)
        PROVE  FALSE
    <3>1. s = r
      BY <1>2, <1>3, <2>1 DEF Finished, IInv, RowsInv
    <3>2. QED
      BY <1>3, <1>4, <2>1, <3>1 DEF Finished
  <2>2. QED
    BY <2>1 DEF Uploads
<1>8. ASSUME NEW x \in Doc \ {d}
      PROVE  View(x)' = View(x)
  <2>1. \A s \in Caller : Finished(req'[s], x) <=> Finished(req[s], x)
    BY <1>2, <1>3, <1>6 DEF Finished
  <2>2. Uploads(x)' = Uploads(x)
    BY <2>1 DEF Uploads
  <2>3. QED
    BY <1>2, <1>3, <1>5, <2>2 DEF View
<1>9. View(d) = "none"
  BY <1>3, <1>4, <1>7 DEF View, Seen
<1>10. View(d)' = "stored"
  BY <1>2, <1>3, <1>4, <1>5 DEF View, Seen, File
<1>11. QED
  BY <1>3, <1>4, <1>8, <1>9, <1>10, Moves DEF Lifecycle!Store

LEMMA LifeDeleted ==
  ASSUME IInv, IInv', NEW r \in Caller, DeleteCommitted(r)
  PROVE  UNCHANGED DocumentState \/ \E d \in Doc : Lifecycle!Remove(d)
<1>1. /\ req[r] \in Request /\ req \in [Caller -> Request] /\ RequestInv(r)
      /\ document \in [Doc -> Row \cup {NoRow}]
  BY RequestTypes DEF IInv, StateTypes, DocumentsTypeOK
<1>2. /\ req[r].pc = "commit" /\ req[r].op = "delete" /\ objects' = objects
      /\ document' = [document EXCEPT ![req[r].doc] = NoRow]
  BY DEF DeleteCommitted, storageVars
<1>3. PICK d \in Doc : d = req[r].doc
  BY <1>1, <1>2 DEF RequestInv, Progress
<1>4. objects[File(req[r])] = Missing
  BY <1>1, <1>2, <1>3 DEF RequestInv, Progress, DeleteInv
<1>5. document'[d] = NoRow /\ \A x \in Doc \ {d} : document'[x] = document[x]
  BY <1>1, <1>2, <1>3, <1>4
<1>6. \A s \in Caller : \A x : Finished(req'[s], x) <=> Finished(req[s], x)
  BY <1>1, <1>2, <1>3 DEF DeleteCommitted, Finished, Request
<1>7. \A x \in Doc : Uploads(x)' = Uploads(x)
  BY <1>6 DEF Uploads
<1>8. ASSUME NEW x \in Doc \ {d}
      PROVE  View(x)' = View(x)
  BY <1>2, <1>3, <1>5, <1>7 DEF View
<1>9. CASE document[d] = NoRow
  <2>1. View(d)' = View(d)
    BY <1>3, <1>4, <1>5, <1>7, <1>9 DEF View, Seen
  <2>2. \A x \in Doc : View(x)' = View(x)
    BY <1>8, <2>1
  <2>3. QED
    BY <2>2, Stays
<1>10. CASE document[d] # NoRow
  <2>1. document[d].org = req[r].org
    BY <1>2, <1>3, <1>10, DeletedRow
  <2>2. View(d) = "unavailable"
    BY <1>3, <1>4, <1>10, <2>1 DEF View, Seen, File, Whole, Missing
  <2>3. Uploads(d) = "yes"
    <3>1. PICK u \in Caller : req[u].op = "upload" /\ req[u].committed /\ req[u].doc = d
      BY <1>2, <1>3, UploaderOf
    <3>2. QED
      BY <3>1 DEF Uploads, Finished
  <2>4. View(d)' = "gone"
    BY <1>3, <1>4, <1>5, <1>7, <2>3 DEF View, Seen
  <2>5. QED
    BY <1>3, <1>4, <1>8, <2>2, <2>4, Moves DEF Lifecycle!Remove
<1>11. QED
  BY <1>9, <1>10

\* Whatever happens to requests, their sessions and the store, a client sees a document
\* stored once and as a whole, its file go by a delete, and then the document.
THEOREM LifecycleImplemented == Spec => DocumentLifecycleSpec
<1>1. Init => Lifecycle!Init
  BY LifeInit
<1>2. IInv /\ IInv' /\ [Next]_vars => [Lifecycle!Next]_DocumentState
  <2> SUFFICES ASSUME IInv, IInv', [Next]_vars
               PROVE  Lifecycle!Next \/ UNCHANGED DocumentState
    OBVIOUS
  <2>1. CASE UNCHANGED vars
    <3>1. Quiet
      BY <2>1 DEF vars, storageVars, Quiet
    <3>2. QED
      BY <3>1, LifeQuiet
  <2>2. CASE Next
    <3>1. PICK r \in Caller :
            \/ ServiceUnavailable(r) \/ UploadRefused(r) \/ NotFound(r)
            \/ UploadDocument(r) \/ DownloadDocument(r) \/ DeleteDocument(r)
            \/ StorageCall(r) \/ EndpointStep(r)
            \/ SessionFails(r) \/ WorkerDies(r)
      BY <2>2 DEF Next
    <3>2. CASE StorageCall(r)
      BY <3>2, StorageChanges, LifeQuiet, LifeStores, LifeRemoves DEF Lifecycle!Next
    <3>3. CASE UploadCommitted(r)
      BY <3>3, LifeCommitted DEF Lifecycle!Next
    <3>4. CASE DeleteCommitted(r)
      BY <3>4, LifeDeleted DEF Lifecycle!Next
    <3>5. QED
      BY <3>1, <3>2, <3>3, <3>4, OthersAreQuiet, LifeQuiet DEF EndpointStep
  <2>3. QED
    BY <2>1, <2>2
<1>3. QED
  BY <1>1, <1>2, Invariant, PTL DEF Spec, DocumentLifecycleSpec, Lifecycle!Spec

=============================================================================
