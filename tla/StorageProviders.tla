-------------------------- MODULE StorageProviders --------------------------
(***************************************************************************)
(* The object store behind the documents endpoints: the service that       *)
(* get_storage_service builds from the settings, and the four operations   *)
(* of each provider as the steps other callers can come between.           *)
(*                                                                         *)
(* Azure and S3 answer in one round trip.  The local provider and GCS      *)
(* first ask whether the object exists and act on the answer afterwards.   *)
(* A cloud call that raises may or may not have reached the store.         *)
(* Every except branch wraps what it catches in StorageError; what the     *)
(* local provider raises outside its try block stays an OSError.           *)
(***************************************************************************)
EXTENDS Naturals, FiniteSets

CONSTANTS
  Caller,      \* requests that call the service
  Org, Doc,    \* organization and document identifiers
  NoOrg,       \* organization_id = None
  Size,        \* file sizes; the content of a file is its size
  MaxFaults    \* bound: failures injected in one behaviour

ASSUME StorageAssumption == NoOrg \notin Org /\ MaxFaults \in Nat /\ Size \subseteq Nat

VARIABLES
  settings,    \* the storage part of the settings, read once
  service,     \* what the storage dependency of the endpoints yields
  objects,     \* the store: what each key holds
  call,        \* per caller, the storage call it is waiting for
  faults       \* failures injected so far

storageVars == <<settings, service, objects, call, faults>>

-----------------------------------------------------------------------------
(* Building the service. *)

StorageProvider == {"local", "azure", "aws_s3", "gcs"}
CloudProvider == StorageProvider \ {"local"}

\* The settings each factory asks for.
Options == [azure |-> {"container", "connection_string"}, aws_s3 |-> {"bucket", "region"},
            gcs   |-> {"bucket", "project_id"}]

\* options: those that are set; package: the provider's library is installed.
Settings ==
  [storage_provider : {"local"}, options : {{}}, package : {TRUE}]
    \cup UNION {[storage_provider : {p}, options : SUBSET Options[p], package : BOOLEAN] :
                  p \in CloudProvider}

\* Neither the application nor a worker starts when an option is missing.
validate_storage_config(s) ==
  s.storage_provider \in CloudProvider => s.options = Options[s.storage_provider]

\* __import__("...storage_providers.<Class>", fromlist=[...]) names a class where
\* Python expects a module, and storage_providers is not a package.
ImportsClass == FALSE

\* The try block turns the ImportError of the import into ValueError; the one
\* the constructor raises when the library is missing is outside of it.
BuildCloud(s, p) ==
  IF s.options # Options[p] \/ ~ ImportsClass THEN "ValueError"
  ELSE IF ~ s.package THEN "ImportError" ELSE p

get_local_storage(s) == "local"
get_azure_storage(s) == BuildCloud(s, "azure")
get_s3_storage(s)    == BuildCloud(s, "aws_s3")
get_gcs_storage(s)   == BuildCloud(s, "gcs")

\* The provider, or the exception the dependency raises.
get_storage_service(s) ==
  CASE s.storage_provider = "local"  -> get_local_storage(s)
    [] s.storage_provider = "azure"  -> get_azure_storage(s)
    [] s.storage_provider = "aws_s3" -> get_s3_storage(s)
    [] s.storage_provider = "gcs"    -> get_gcs_storage(s)
    [] OTHER                         -> "ValueError"

\* The factory's service, or any class put in its place with
\* dependency_overrides, as the integration tests do; the endpoints go on
\* reading settings.storage_provider.
StorageServiceDep(s) ==
  {get_storage_service(s)}
    \cup (IF s.package THEN StorageProvider ELSE {})

-----------------------------------------------------------------------------
(* Objects and calls. *)

\* {organization_id}/{document_id}, or {document_id} alone
LocalFilePath(org, doc) == IF org = NoOrg THEN <<doc>> ELSE <<org, doc>>
AzureBlobName(org, doc) == IF org = NoOrg THEN <<doc>> ELSE <<org, doc>>
S3ObjectKey(org, doc)   == IF org = NoOrg THEN <<doc>> ELSE <<org, doc>>
GCSBlobName(org, doc)   == IF org = NoOrg THEN <<doc>> ELSE <<org, doc>>

ObjectKey(org, doc) ==
  CASE service = "azure"  -> AzureBlobName(org, doc)
    [] service = "aws_s3" -> S3ObjectKey(org, doc)
    [] service = "gcs"    -> GCSBlobName(org, doc)
    [] OTHER              -> LocalFilePath(org, doc)

Key == (Org \X Doc) \cup {<<d>> : d \in Doc}

Missing == [state |-> "missing", size |-> 0]
Whole(n) == [state |-> "whole", size |-> n]
Torn == [state |-> "torn", size |-> 0]   \* a local write that stopped half way
Object == {Missing, Torn} \cup {Whole(n) : n \in Size}

Operation == {"upload", "download", "delete", "get_download_url"}
Result == {"none", "ok", "absent", "StorageError", "OSError"}

NoCall == [op |-> "none", key |-> << >>, data |-> Missing, step |-> "idle",
           result |-> "none", body |-> Missing, faulty |-> FALSE]

Call == {NoCall} \cup [op : Operation, key : Key, data : Object, body : Object,
                       step : {"start", "probed", "done"}, result : Result,
                       faulty : BOOLEAN]

StorageTypeOK ==
  /\ settings \in Settings /\ service \in StorageProvider \cup {"ValueError", "ImportError"}
  /\ objects \in [Key -> Object]
  /\ call \in [Caller -> Call]
  /\ faults \in 0..MaxFaults

StorageInit ==
  /\ settings \in {s \in Settings : validate_storage_config(s)}
  /\ service \in StorageServiceDep(settings)
  /\ objects = [k \in Key |-> Missing]
  /\ call = [c \in Caller |-> NoCall]
  /\ faults = 0

\* Caller c awaits operation op on the document; the step belongs to the caller.
Invoke(c, op, org, doc, data) ==
  call' = [call EXCEPT ![c] = [NoCall EXCEPT !.op = op, !.step = "start", !.data = data,
                                             !.key = ObjectKey(org, doc)]]

Ready(c, p, op, step) == service = p /\ call[c].op = op /\ call[c].step = step

At(c) == objects[call[c].key]
Exists(c) == At(c) # Missing
Put(c) == [objects EXCEPT ![call[c].key] = call[c].data]
Removed(c) == [objects EXCEPT ![call[c].key] = Missing]

\* The call ends with result and body and leaves the store as objs; fault is 1
\* when something outside the program went wrong in it.
Return(c, result, body, objs, fault) ==
  /\ faults + fault <= MaxFaults
  /\ faults' = faults + fault
  /\ objects' = objs
  /\ call' = [call EXCEPT ![c].step = "done", ![c].result = result, ![c].body = body,
                          ![c].faulty = (fault > 0)]
  /\ UNCHANGED <<settings, service>>

\* exists() was true; what it saw may be gone when the next step runs.
Probe(c) ==
  \/ /\ Exists(c)
     /\ call' = [call EXCEPT ![c].step = "probed"]
     /\ UNCHANGED <<settings, service, objects, faults>>
  \/ ~ Exists(c) /\ Return(c, "absent", Missing, objects, 0)

Fails(c) == Return(c, "StorageError", Missing, objects, 1)

-----------------------------------------------------------------------------
(* LocalStorageService *)

\* org_dir.mkdir is outside the try blocks of _get_file_path and of its callers.
LocalMkdirFails(c) ==
  /\ service = "local" /\ call[c].step = "start"
  /\ Return(c, "OSError", Missing, objects, 1)

\* write_bytes truncates the file first: a failed write can leave a part of it.
LocalUpload(c) ==
  /\ Ready(c, "local", "upload", "start")
  /\ \/ Return(c, "ok", Missing, Put(c), 0)
     \/ \E left \in {At(c), Torn} :
          Return(c, "StorageError", Missing, [objects EXCEPT ![call[c].key] = left], 1)

LocalDownloadProbe(c) == Ready(c, "local", "download", "start") /\ Probe(c)

\* FileNotFoundError, when a delete came between, is an OSError like the others.
LocalRead(c) ==
  /\ Ready(c, "local", "download", "probed")
  /\ \/ Exists(c) /\ Return(c, "ok", At(c), objects, 0)
     \/ ~ Exists(c) /\ Return(c, "StorageError", Missing, objects, 0)
     \/ Fails(c)

LocalDeleteProbe(c) == Ready(c, "local", "delete", "start") /\ Probe(c)

LocalUnlink(c) ==
  /\ Ready(c, "local", "delete", "probed")
  /\ \/ Exists(c) /\ Return(c, "ok", Missing, Removed(c), 0)
     \/ ~ Exists(c) /\ Return(c, "StorageError", Missing, objects, 0)
     \/ Fails(c)

LocalGetDownloadUrl(c) ==
  Ready(c, "local", "get_download_url", "start") /\ Return(c, "ok", Missing, objects, 0)

-----------------------------------------------------------------------------
(* AzureBlobStorageService *)

AzureUpload(c) ==
  /\ Ready(c, "azure", "upload", "start")
  /\ \/ Return(c, "ok", Missing, Put(c), 0)
     \/ \E objs \in {objects, Put(c)} : Return(c, "StorageError", Missing, objs, 1)

\* AzureResourceNotFoundError is the answer "absent".
AzureDownload(c) ==
  /\ Ready(c, "azure", "download", "start")
  /\ \/ Return(c, IF Exists(c) THEN "ok" ELSE "absent", At(c), objects, 0)
     \/ Fails(c)

AzureDelete(c) ==
  /\ Ready(c, "azure", "delete", "start")
  /\ \/ Return(c, IF Exists(c) THEN "ok" ELSE "absent", Missing, Removed(c), 0)
     \/ \E objs \in {objects, Removed(c)} : Return(c, "StorageError", Missing, objs, 1)

\* The SAS token is computed here: nobody asks whether the blob exists.
AzureGetDownloadUrl(c) ==
  /\ Ready(c, "azure", "get_download_url", "start")
  /\ Return(c, "ok", Missing, objects, 0) \/ Fails(c)

-----------------------------------------------------------------------------
(* S3StorageService *)

S3Upload(c) ==
  /\ Ready(c, "aws_s3", "upload", "start")
  /\ \/ Return(c, "ok", Missing, Put(c), 0)
     \/ \E objs \in {objects, Put(c)} : Return(c, "StorageError", Missing, objs, 1)

\* The code NoSuchKey of a ClientError is the answer "absent".
S3Download(c) ==
  /\ Ready(c, "aws_s3", "download", "start")
  /\ \/ Return(c, IF Exists(c) THEN "ok" ELSE "absent", At(c), objects, 0)
     \/ Fails(c)

\* delete_object succeeds on a missing key, so the answer is always True.
S3Delete(c) ==
  /\ Ready(c, "aws_s3", "delete", "start")
  /\ \/ Return(c, "ok", Missing, Removed(c), 0)
     \/ \E objs \in {objects, Removed(c)} : Return(c, "StorageError", Missing, objs, 1)

S3GetDownloadUrl(c) ==
  /\ Ready(c, "aws_s3", "get_download_url", "start")
  /\ Return(c, "ok", Missing, objects, 0) \/ Fails(c)

-----------------------------------------------------------------------------
(* GCSStorageService *)

GCSUpload(c) ==
  /\ Ready(c, "gcs", "upload", "start")
  /\ \/ Return(c, "ok", Missing, Put(c), 0)
     \/ \E objs \in {objects, Put(c)} : Return(c, "StorageError", Missing, objs, 1)

\* blob.exists() may raise as well.
GCSDownloadProbe(c) == Ready(c, "gcs", "download", "start") /\ (Probe(c) \/ Fails(c))

\* NotFound after a positive exists() is still the answer "absent".
GCSRead(c) ==
  /\ Ready(c, "gcs", "download", "probed")
  /\ \/ Return(c, IF Exists(c) THEN "ok" ELSE "absent", At(c), objects, 0)
     \/ Fails(c)

GCSDeleteProbe(c) == Ready(c, "gcs", "delete", "start") /\ (Probe(c) \/ Fails(c))

\* Mutant: NotFound is not told from the other exceptions.
GCSBlobDelete_NoNotFound(c) ==
  /\ Ready(c, "gcs", "delete", "probed")
  /\ \/ Exists(c) /\ Return(c, "ok", Missing, Removed(c), 0)
     \/ ~ Exists(c) /\ Return(c, "StorageError", Missing, objects, 0)
     \/ \E objs \in {objects, Removed(c)} : Return(c, "StorageError", Missing, objs, 1)

GCSBlobDelete(c) ==
  /\ Ready(c, "gcs", "delete", "probed")
  /\ \/ Return(c, IF Exists(c) THEN "ok" ELSE "absent", Missing, Removed(c), 0)
     \/ \E objs \in {objects, Removed(c)} : Return(c, "StorageError", Missing, objs, 1)

GCSGetDownloadUrl(c) ==
  /\ Ready(c, "gcs", "get_download_url", "start")
  /\ Return(c, "ok", Missing, objects, 0) \/ Fails(c)

-----------------------------------------------------------------------------

LocalStep(c) ==
  \/ LocalMkdirFails(c) \/ LocalUpload(c) \/ LocalGetDownloadUrl(c)
  \/ LocalDownloadProbe(c) \/ LocalRead(c) \/ LocalDeleteProbe(c) \/ LocalUnlink(c)

AzureStep(c) ==
  AzureUpload(c) \/ AzureDownload(c) \/ AzureDelete(c) \/ AzureGetDownloadUrl(c)

S3Step(c) == S3Upload(c) \/ S3Download(c) \/ S3Delete(c) \/ S3GetDownloadUrl(c)

GCSStep(c) ==
  \/ GCSUpload(c) \/ GCSGetDownloadUrl(c)
  \/ GCSDownloadProbe(c) \/ GCSRead(c) \/ GCSDeleteProbe(c) \/ GCSBlobDelete(c)

StorageStep(c) == LocalStep(c) \/ AzureStep(c) \/ S3Step(c) \/ GCSStep(c)

=============================================================================
