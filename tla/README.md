# Formal model of redact-api

redact-api takes a PDF, finds personal data in it, lets reviewers decide on
every finding, burns the approved ones out of the document irreversibly, checks
the result, and exports it with a hash-chained audit trail. This directory holds
TLA+ modules of that pipeline, the TLC instances that check them and proofs
checked by TLAPS. `PROJECT.json` is the machine-readable index: which lines each
definition models, which property each run checks, what each mutant breaks.

## 1. The system

| Component | State | Operations | Interacts with | Modelled in |
|---|---|---|---|---|
| Audit chain (`services/redaction_job_service.py`) | `audit_entry` rows: `prev_hash`, `entry_hash`, `sequence`, unique per job | `append_audit_entry`, `verify_audit_chain` | the transaction of its caller | AuditChain |
| Job status (same file) | `redaction_job.status` | `transition_job_status` | every endpoint and task of a job | JobStatus |
| Jobs API (`api/jobs.py`) | one session per request | create, dispositions, apply, export | database, object storage, queue | RedactionPipeline, RedactionContent |
| Tasks (`tasks/*.py`) | one session per execution, the unacknowledged message | `ingest_job`, `detect_job`, `apply_job`, `fail_job` | database, object storage, queue | RedactionPipeline, RedactionContent |
| Dispositions (`services/jobs_service.py`) | `page`, `span`, `disposition` rows | approve, reject, edit, add_manual_span, projection | the audit chain, in one transaction | RedactionPipeline, RedactionContent |
| Ingest (`ingest/`) | page artifacts in object storage | structural check, page model, staging | `ingest_job`, create | PageText, RedactionContent |
| Detection (`detection/`, `services/detection_service.py`) | the spans it writes | tier 1 (patterns), tier 2 (NER), dedupe | `detect_job` | Detectors, RedactionContent |
| Redaction and verify gate (`redaction/`) | none | `apply`, `verify` | `apply_job` | Burn, RedactionContent |
| Export manifest (`services/export_manifest_service.py`) | the manifest object | `assemble_export_manifest` | export, audit chain | RedactionPipeline, RedactionContent |
| Documents API (`api/documents.py`) | `document` rows | upload, download, delete | database, storage providers | Documents, DocumentLifecycle |
| Storage providers (`core/storage*.py`) | stored files | put, get, delete, exists, for four providers | documents API | StorageProviders |
| Organizations, memberships, users (`services/*_service.py`, `api/*.py`) | rows, gauge | create, update, delete | database, activity log, welcome mail | Accounts |
| Registration webhook (`api/admin.py`) | rows of all three | `handle_registration`, `check_org_membership` | database | Accounts |
| Activity log (`core/activity_logging.py`) | log rows | the decorator of the endpoints | the endpoint's session | Accounts |
| Authentication (`core/auth.py`) | JWKS cache | verify a token with five providers | every endpoint, the identity provider | JwksCache, Access |
| Tenants, permissions (`core/tenants.py`, `core/permissions.py`) | `request.state` | resolve the organization, check the role | every endpoint, database | Access |
| Task middleware (`tasks/middleware/`) | job context, start times, metrics | hooks before and after each task | every task | TaskMiddleware |
| Retries (`db/retry.py`), wiring, HTTP middleware, health | none | | | section 5 |

What is hard in it:

* **Stale sessions.** A session loads the job row once; SQLAlchemy's identity map
  (with `expire_on_commit=False`) answers from that copy. Status checks are
  made on the copy, and the UPDATE has no condition on the old status.
* **The chain has no lock.** An append reads the link and inserts later; the
  unique key is the only thing between two sessions and a fork.
* **Two systems without a transaction.** Files, objects and messages are written
  before or after a commit, never with it; so is the welcome mail.
* **At-least-once delivery.** Tasks protect themselves with a status guard that is
  read once. Webhooks are delivered more than once, too.
* **Commits that are somebody else's.** Services flush, endpoints commit, decorators
  add rows after the endpoint has returned; what nobody commits is rolled back.
* **Shared module globals.** The key cache is read, awaited for and overwritten by any
  number of coroutines.
* **Geometry and offsets.** Character offsets become words, words become boxes, boxes
  become pixels; an error of one anywhere leaves a letter to be read.

Each hazard, at its line and with the properties that would catch it going wrong, is
listed in `PROJECT.json`.

## 2. Modules

An arrow points at the module that is used; `=>` is an INSTANCE with a refinement mapping
(the specification on the right is a property of the module on the left).

```
RedactionPipeline -> JobStatus        RedactionContent -> PageText, Detectors, Burn, JobStatus
PipelineProperties -> RedactionPipeline
PipelineProperties => AuditChain
Documents -> StorageProviders         Documents => DocumentLifecycle
Access -> JwksCache                   Accounts, TaskMiddleware stand alone

AuditChain_proofs -> AuditChain
RedactionPipeline_proofs -> PipelineProperties        RedactionPipeline_proofs => AuditChain_proofs
RedactionContent_proofs -> RedactionContent, SequenceLemmas
SequenceLemmas -> PageText
Documents_proofs -> Documents         Access_proofs -> Access
Accounts_proofs -> Accounts           TaskMiddleware_proofs -> TaskMiddleware
```

The modules named `MC...` give the constants values. Operators marked `Mutant:` are
deliberate bugs that show that a property can fail; nothing refers to them.

### The pipeline: sessions of one job

**AuditChain** models one job's chain under PostgreSQL's READ COMMITTED: `ReadLink`
is `_next_chain_link`, `Insert` the flush, `Conflict` the IntegrityError, with
`Rollback` and `Commit`. An INSERT waits for an uncommitted row with the same key
(`Held`) and fails on a committed one (`Taken`). Hashes are ideal: a digest *is*
the sequence of payloads hashed so far, so equal digests mean equal history.
`verify_audit_chain` is stated over the set of rows as "no row is broken"; the
walk of the code stops at the first broken row, which gives the same verdict.

**JobStatus** holds the statuses and `VALID_TRANSITIONS`. The table is looked up with the status
of the session's own copy; `detect_job` takes two of its edges in one commit, so `detected` is
never seen.

**RedactionPipeline** models one job with one document of one page. A process is a
request or a worker slot; `pc` says where its session is.

| Variable | Code |
|---|---|
| `job`, `page`, `disposition`, `audit_entry` | committed rows; `disposition[s]` is `absent` (no span row), `none` (span without disposition), `approved` or `rejected` |
| `writes`, `newpage`, `pending` | rows a session flushed and did not commit |
| `link` | what `_next_chain_link` returned |
| `snap` | the status in the session's copy of the job row |
| `local` | values read and used later: the item and what was seen of its span, the approved spans, the verdict, the entry counts of the manifest |
| `redacted_pdf`, `manifest` | the two objects in storage |
| `queue`, `held` | messages ready, and unacknowledged by a worker slot |

Each step runs from one database or storage access to the next. Checks that
read only the session's copy are part of the step that loads it, because the copy
does not change. The status UPDATE and the commit after it are one step: nothing
of the session runs in between. An edit whose span is already approved sets the
same action again, and the ORM leaves an unchanged column out of the UPDATE;
`UpdateDisposition` does the same. Faults are actions of their own: `Error` (an
exception anywhere in a handler or task), `Crash` (the worker dies and the message
comes back, also after the commit and before the acknowledgement), `Redeliver`
(the broker delivers again while the task goes on), `LoseHandoff` (nothing is
enqueued after the commit) and `FailJobRaises`.

**PipelineProperties** states what holds under every interleaving and every fault. Nothing in it
supposes that requests come one at a time or that a message is delivered once: it says what the
rows, the objects and the trail still tell of each other although sessions work from stale
copies (`StatusIsTold`, `ManifestIsBacked`, `DecisionIsTold`, `ExportableHasArtifact`). What the
comments of the code promise beyond that, and is not kept, is listed in section 3.

### The content: texts, boxes and pixels of one job

RedactionPipeline asks what sessions can do to each other and leaves out what is in the
document. **RedactionContent** is the converse: one session at a time, from the upload to the
manifest, with pages, words, texts, boxes, digests and entries.

* **PageText**: `_extract_page` and `_build_text_and_words` (sorting, the two separators,
  half-open offsets) and `resolve_span_bboxes`. A character of the model is a character of the
  text, or a word that a pattern matches as a whole (`"phone"`); white space is `"blank"` or
  `"newline"`. Picking and sorting are recursive functions and a ranking instead of the operators
  of the libraries, because those have no definition a prover can expand.
* **Detectors**: the six tier-1 detectors with their validations (SSA rules for a number,
  Luhn, plate shape, anchor window), the confidence floor and entity table of tier 2, and the
  union-find that merges overlapping spans of the two tiers.
* **Burn**: padding, scale, Python's rounding and clamping of a box in one dimension, the
  turn of a page that is shown (`Shown`: the boxes of its words stay where they were), the rebuild, and the text-layer, OCR and metadata checks of the gate. `Readings` is what
  tesseract may make of a page: clear words are read, fully covered ones are not, partly
  covered ones may be, and words of a line may be joined.
* **RedactionContent**: create, ingest in steps of one artifact (with a failing put, the death of
  the worker and redelivery), detection, batches of dispositions, apply, export. What the
  union-find of `tier2.py` should do is stated without it: two candidates of different tiers
  that overlap are `Linked`, a part that no link leaves is `Closed`, the `Component` of a
  candidate is what no closed part separates from it, and each component leaves one span.

### Around the pipeline

**StorageProviders** has the factory and one disjunct per step of each provider's
operation: the local provider's `exists` and `unlink` are two steps, its write can stop half way;
S3 deletes what is not there without an error, Azure and GCS raise and translate. The factory
imports a class by a module path in a way that always raises, so that each cloud
provider ends in a `ValueError` and status 400 (`ImportsClass`); the providers are modelled
as well, put in place by a dependency override, as the integration tests do (`StorageServiceDep`).
**Documents** puts the endpoints on top: `document` are committed rows, `req[r]` is a
request with its session, a fault may strike at any await. **DocumentLifecycle** is the
promise: a document is not there, then stored, then possibly unavailable, then gone.

**Accounts** has a table for users, organizations and memberships, and per request the writes
its session has flushed. Row locks, unique keys (one that is held by an insert, an update or a
delete that is not committed makes a flush wait), foreign keys and cascades are guards and
effects of the steps that flush, and of `Commit`; `Close` is the end of the session, with
whatever the decorator has added to it. Requests interleave at each database access.

**JwksCache** is `get_jwks_cached` with a clock and an identity provider that rotates
keys: a hit, the await, the overwrite. **Access** composes it with a request: dispatch of the
authentication middleware, the five providers, the tenant middleware's search for the
organization (path, header, query, token), the read of the membership in a session of its
own, `require_role`, and the header path of `get_user_from_headers`.

**TaskMiddleware** runs the three middlewares for messages that one worker has in hand
at once. The receiver of TaskIQ (external) calls `pre_execute` in order, and on the way out, in
reverse, `on_error` and then `post_execute` too for a task that raised; the middlewares must
not count or log such a task twice. A model step is one hook, a finer interleaving than asyncio's.

## 3. Runs

| Run | Instance | Shows |
|---|---|---|
| `audit_chain` | 3 transactions, 2 payloads, 4 rows | every view of the chain verifies, no gaps, one writer, the head only extends |
| `pipeline_faults` | 2 applies, 2 exports, 2 workers, 2 spans, a document with 0 or 1 candidate, any 1 fault | a verified or exported job has its artifact; attempts are whole in the chain; nothing is exported without a passed gate; the status is the one the trail ends with; the manifest is backed by the chain; every step implements AuditChain |
| `pipeline_reviewers` | 3 reviewers, 1 apply, 1 worker, 1 detected and 2 manual spans, 1 crash or error | types; the chain verifies; decisions and audit entries commit together or not at all; the last entry of a span explains its row; nothing is burned without an approving entry |
| `pipeline_liveness` | 1 reviewer, 1 apply, 2 workers, 1 crash, error or redelivery | a job that waits for a task moves on |
| `content` | 11 documents, 3 results of the NER model, 3 items of review, 1 fault | a job the API accepted is not refused by its task, is staged whole, and its words are where the text has them; dedupe agrees with reachability and loses nothing; the trail has the digest and the decision of every row, a failed batch leaves nothing; all of the approved boxes and nothing else is burned, on pages that are not turned; a document that passed cannot be read to have an approved text |
| `documents` | 3 requests, 2 organizations, 2 documents, sizes at and above the limit, 1 fault | no file without a row and no row without a file but for what is under way; downloads are whole; deletes can be repeated; the endpoints implement DocumentLifecycle |
| `accounts` | 3 requests of any of the 11 kinds, up to 5 users, 4 organizations, 5 memberships, 1 failing commit | memberships are anchored, registrations whole and once, answers true |
| `access` | 2 requests, 3 ticks, 1 rotation, a membership that changes once, all settings | keys are at most one TTL old; tokens judged right; who is served held the role |
| `task_middleware` | 3 messages for 2 tasks and 2 jobs, 1 crash | log lines carry the right job, each end is told once, the metrics add up |
| `lost_handoff` | finds a violation | `kiq()` is outside the transaction and outside the `try`: an ingested job may stay so |
| `lost_profile` | finds a violation | `PUT /users/{id}` answers with a profile that is never committed |
| `rotated_page` | finds a violation | on a page that is turned the boxes are not where the words are shown; the gate passes when one word of a text happens to be hidden |

Some properties are conjunctions of parts that have names and comments of their own; each
part has a mutant of its own that breaks it.

**Promises that no run checks.** The comments of the code promise more than `StatusIsTold`,
`DecisionIsTold` and `ManifestIsBacked` say. The code keeps it as long as requests come one at a
time and no message is delivered while its task still runs; it enforces neither. These are the
schedules that break each promise; all come from a stale copy of the job or disposition row,
which no statement compares with the row again:

* *Exported is told "exactly once"* (`api/jobs.py:302`): two exports load the job at verified, and
  each appends its entry. The manifest that is stored last is then of either, and lists the
  `exported` entry of the other if that was committed between its two reads.
* *One verdict for a job*: two applies load it at in_review, and both enqueue (`api/jobs.py:225`).
* *The status follows `VALID_TRANSITIONS`*: a late apply takes an exported job back to applying
  (`services/redaction_job_service.py:161`); so does a `detect_job` that is delivered
  while it runs, back to in_review (`tasks/detect_job.py:32`).
* *What is burned is what is approved*: a disposition is committed after the apply has projected
  the approved spans (`api/jobs.py:191`): an approval misses the document, or a span is burned
  that is rejected by then.
* *What is applied is reviewed*: a second detection adds spans without a disposition after the
  count that lets the job go on (`services/redaction_job_service.py:156`).
* *The last entry is the decision*: an edit of a span that was read as approved overlaps its
  rejection; the trail then ends with `edited` and the span stays rejected
  (`services/jobs_service.py:284`). `DecisionIsTold` allows this and nothing else.

**Where the code says otherwise.** Three runs find a violation of what the code says of itself, and
one that passes shows the opposite of a comment: `ReviewIsAudited` has the entry of an edit
hold the digest of the new text, since the row is overwritten before it is hashed, while
`services/jobs_service.py:276-279` says that the entry "preserves the pre-edit content via its
digest". If a span is edited before it is approved or rejected, the text it was detected
with is in no entry. All four are listed under `findings` in `PROJECT.json`.

**Bounds.** Three transactions are enough for a holder of a key, a waiter, and a third
that reads in between; four rows let each append once and one twice. Two applies, two exports
and two workers give every pair of concurrent requests and of concurrent executions of
`apply_job`; three reviewers are an approval, and then an edit that overlaps a rejection. Two spans
let a duplicate detection find fresh ones (`DetectFlush` needs as many unused
identities as its document has candidates; with fewer it would block, which the deadlock check
reports). `MaxFaults` bounds the faults of a behaviour. `MaxSequence <- 100` in the
pipeline is never reached. In `documents` the third request is the reader or the second
deleter of a race, and sizes 3 and 4 are the limit and one more, in chunks of 2. In `accounts`
there are as many fresh identifiers as three requests can use. In `access` the clock runs past
the TTL and past the expiry of a token with its leeway, and a rotation can fall anywhere. The
documents of `content` are chosen for their corners: two lines listed out of order, capitals,
one text on two pages, matches side by side, a date in and out of the anchor window, every way an
upload is refused, and twenty account numbers that differ in one digit. `MaxItems` bounds the
items of all its batches together, `MaxBatch` those of one: two items are enough for one that is
written before one that is not found, and for two verbs on one span. Symmetry is used in
safety runs only. Deadlock is checked where the system must not stop; in `documents`,
`content`, `access` and `task_middleware` a behaviour ends when its requests or messages are
used up.

**Fairness.** `Fairness` (pipeline) is weak fairness of the steps of started requests and of
worker slots: an asyncio task that is not blocked is scheduled, and a worker that runs takes
a message that is there. No client is obliged to send anything, and no fault is fair. The
other modules state no liveness: each of their requests ends by itself, or dies.

## 4. Proofs

Every theorem is for all values of the constants, so for any number of sessions, workers,
requests, spans, documents and rows. The assumptions are those the modules name:

* `MaxSequence`, `MaxFaults` and the other bounds are natural numbers.
* `ConstantsAssumption` (pipeline): a task runs in a session of its own, not in a request's
  (`Request \cap Worker = {}`), a detected span is not one a reviewer adds (every span has a
  uuid of its own, `NoSpan` is none of them), and the faults are of the five kinds.
* `JwksAssumption`: the TTL is positive and the timeout of the HTTP client at most the TTL. The client
  has a timeout for each operation on the connection, not one for the whole request; against a
  TTL of one hour the difference does not matter.
* `IdsAssumption`, `RowsAssumption`, `InitialRowsAssumption` (Accounts): ids are uuids and no
  id is `none`; tables are finite, have unique keys and no dangling references to begin with.
* `ContentAssumption`: an upload has pages of words, each with a line, a number and a box of
  integers, and no two words of a page have the same line and number (PyMuPDF numbers them); a
  result of the NER model has offsets, a type and a score; edits and manual spans are what
  their schemas let in, an inverted box included. `Fits` in `Detect` is the only thing that is
  asked of a result: it ends inside of the text it was computed from.
* `StringAssumption`: the string literals of Detectors are strings, which the provers cannot tell.
* `AccessAssumption`, `AccountsAssumption`, `DocumentsAssumption`, `StorageAssumption`, and
  `ConstantsAssumption` of TaskMiddleware: types of the constants, a chunk size above zero,
  finitely many messages.

TLC evaluates all of them in the runs.

What a recursive definition computes is proved by induction all the same, without the library's
theorems that take a predicate: `LeastElement` (SequenceLemmas; a set of numbers that is not empty
has a least element, from the library's well-foundedness of `<`) gives `Induction` and
`IntervalInduction` about sets of numbers, and `Recursion`, that a function defined by recursion
exists and follows it. Each proof then names the set of the numbers for which its claim holds.

**AuditChain_proofs**: `TypeCorrect`, `ChainIntegrity` (`EveryViewVerifies`), `Contiguity`
(`SequenceIsContiguous`), `MutualExclusionOfWriters` (`SingleWriter`) and `HeadExtends`
(`HeadOnlyExtends`).

The properties are not inductive by themselves. `ChainInv` adds: every row extends the row
numbered one below, down to genesis, in the committed chain and in every
transaction's view (`Linked`); a link that was read is one past a row its transaction
still sees, and above its own flushed rows (`LinkOK`); flushed rows have sequences
no committed row has. `SingleWriter` follows because views are contiguous: two
transactions with flushed rows would both hold the first sequence after the
committed chain, and the INSERT of the second waits. `LinkedVerifies` derives the
verdict of `verify_audit_chain` from `Linked`. One lemma per action carries the
invariant over the step. For `HeadExtends`, `HeadInv` adds that the hash of a row is a
prefix of the hash of every later row.

**RedactionPipeline_proofs**: `ChainImplemented` (`ChainSpec`), `ChainAlwaysVerifies`
(`ChainVerifies`) and `PipelineTypeCorrect` (`TypeOK`). A step of the pipeline that touches the
chain is an action of AuditChain provided the entry it inserts is an `Event`. That needs
`SessionInv`: a session that is about to append is of the kind its action names, and holds
exactly one item or verdict. The invariants of AuditChain then hold of the pipeline by
instantiating its proofs. The types have one lemma per part of the state; they need the chain's
own types, from the refinement, and that the chain is finite (`ChainIsFinite`), since the
manifest counts its rows.

In the same module, eight promises that hold under every interleaving and every fault: any number of
workers, tasks and overlapping requests, crashes, errors, redelivery, lost hand-offs and a
`fail_job` that raises.

* `ExportableArtifact` (`ExportableHasArtifact`). `ArtifactInv`: the key is only set after the
  upload of the same session, is never cleared, and is set while any export runs; so a
  stale status UPDATE cannot make a job exportable that has no artifact.
* `VerifiedBeforeExport` (`ExportIsVerified`). `VerifiedInv`: a session that uploads has a flushed
  `verify_passed` entry, which its commit publishes together with the key; and a new `exported`
  entry is numbered above all committed rows (`InsertedLast`, from `ChainInv`).
* `DecisionsAreAudited` (`DecisionIsAudited`). `DecisionInv` says of each session what it has
  flushed: the row of one span, then the entry of the same span, and nothing of another
  (`FlushInv`). What a reviewer has read cannot be undone by others, although it may change: a
  decided span stays decided, a new manual span is nobody else's (`ReadInv`). The rows of one
  span are flushed by one session at a time (`RowLocks`). So a commit adds decision and
  entry together, and a lost race or a crash drops both.
* `BurnedSpansWereApproved` (`BurnedWasApproved`). `ApprovalInv` follows an approval backwards: what
  is burned was projected, what was projected was committed, and what is committed, or flushed
  and about to be, has its approving entry (`BackedBy`). It is stronger than the property in
  that an UPDATE that leaves the action out must find it backed by someone else's entry.
* `AttemptsStayWhole` (`AttemptsAreWhole`). `AttemptInv`: a session between the two appends of an
  attempt has `apply_started` pending and nothing else, so the next sequence number it reads is
  the one after (`InsertedNext`, from `ChainInv`); all other sessions have whole attempts.

Three of them are about the end of the trail. A session's entries come after all that is committed
(`PendingLast`, from `ChainInv`), numbers are unique (`Numbered`), and so the last of some
entries is the one `Last` chooses (`LastIs`).

* `StatusTellsTrail` (`StatusIsTold`). `OutcomeInv`: the entry of an outcome is flushed by the very
  session that sets the status of that name, at most one per session, and only a session
  that is about to commit has one. So a stale UPDATE of the status comes with an
  entry that is then the last one; or it sets a status that claims no outcome.
* `ManifestsAreBacked` (`ManifestIsBacked`). `ManifestInv` follows what an export has read until it is
  stored: the rows it counted and listed are still committed, since the chain only grows
  (`TrailGrows`), and a passed verdict is among those it counted, since it loaded the job at
  verified or exported (`VerifiedInv`).
* `DecisionsAreTold` (`DecisionIsTold`). `ToldInv`: what a session has flushed is what the verb of its
  entry says, or, for an edit of a span it read as approved, is whatever the row says by now
  (`WriteTold`). The row is locked from the flush to the commit, so the entry that is
  numbered last and the row that is written last are of one session.

**Access_proofs**: `BoundedStalenessHolds` (`BoundedStaleness`): what a caller of the key cache is
given was current at some moment of the last TTL. `CacheInv` says the same of what is still to be
given: a stored set was current after its expiry minus the TTL, an answer in flight was current
after its request began; and versions are ordered as their times. The expiry is dated from
before the request, which is what makes it work; dated from the answer, it fails. Each step of
a request is a step of the cache or leaves it alone, by the way the modules are composed
(lemma `CacheUse`); hence `RequestsSeeFreshKeys` for requests as they are.

`AccessTypesHold` (`TypeOK`), `ServedHeldTheRoleHolds` (`ServedHeldTheRole`) and
`TokensAreJudgedRightHolds` (`TokensAreJudgedRight`) are about requests. Their invariant has three
parts for each request: the role it carries was held by the user in that organization at some
moment since it began (`RoleInv`), the token was in time, with leeway, when it was judged
(`TimeInv`), and its key is one of the set the cache gave to this very request, or, if it was
refused without a fault of its own, is not (`KeyInv`). A token that names an audience is at fault:
the code gives `jwt.decode` none, which then refuses any. Settings, tokens and memberships are arbitrary.

**Accounts_proofs**: `TypesHold` (`TypeOK`), `MembershipsStayAnchored` (`MembershipsAreAnchored`),
`AnswersStayTrue` (`AnswersAreTrue`) and `RegistrationsAreSound` (`RegistrationIsSound`).
The heart of the invariant is `SessionsInv`: what a session has flushed could be committed
now, that is, its rows exist or are fresh, its keys are free, its parents are there (`WriteInv`),
and the writes of two sessions do not conflict (`Compatible`: no same row, no same key, no
child of one under a parent the other removes). The locks, and the waits on a key held by an
insert, update or delete that is not committed, keep it so. `Applied` describes a commit by its
effect on the tables, cascades included; the lemmas about it show that what the other
sessions have flushed can still be committed afterwards. `IdsInv` (an id is used once) and
`ProgressInv` (what a request has loaded is what it writes about) connect the parts.

**Documents_proofs**: `DocumentsTypesHold` (`DocumentsTypeOK`), `CloudDeletesStayRepeatable`
(`CloudDeletesAreRepeatable`), `FilesStayKept` (`FilesAreKept`), `ServedStaysUploaded`
(`ServedIsUploaded`) and `LifecycleImplemented` (`DocumentLifecycleSpec`). The invariant
relates facts that no transaction holds together: a file is whole before the row of it
is committed (`UploadInv`), an object is gone before its row is (`DeleteInv`), each document
has one uploader (`RowsInv`), every object is that of an upload, and one that is gone after its
row was committed was taken by a delete of the same document (`FilesInv`). The refinement maps
a document to absent, stored, unavailable or gone (`View`), and each step of an endpoint or a
provider to a step of DocumentLifecycle or to none. `ServedStaysUploaded` rests on `ChunksSum`,
that the chunks a file is streamed in add up to its size: by induction over them, and over
the fold of the community modules that `Streamed` is.

**RedactionContent_proofs**: `ContentTypes` (`ContentTypeOK`), `IngestFaithful` (`IngestIsFaithful`),
`DetectionExact` (`DetectionIsExact`), `ReviewAudited` (`ReviewIsAudited`), `BurnExact`
(`BurnIsExact`) and `GateCatchesAll` (`GateCatches`): for documents of any number of pages, words
and lines, with texts of any length and boxes anywhere.

The part that is inductive over steps is small. `IInv` says that the job has one upload for all its
life and its page models are those of that upload (`IngestOK`, which also has that every artifact
of a page is stored or still to be uploaded), that rows, dispositions and trail agree (`ReviewOK`),
and that the output is the one rebuilt from the rows as they are, with a verdict of `pass` if the
job is past the gate (`BurnOK`: the rows do not change once the job is applying). `DetectOK`
remembers that, in review, the page models and the NER results are those that detection saw. The
rest is what the functions of the code compute, one section each:

* *Ingest.* `ReadingOrderSorts`: sorting loses no word. `BuiltIsFaithful`: the text is the pieces one
  after the other, the offset of a word the length of the pieces before it; so each word is cut
  out exactly and what lies between is a separator.
* *Review.* `Told` is the claim for one span: its last entry has the digest of its text and agrees with
  its disposition. Each verb keeps it for its own span and leaves the others alone
  (`ItemKeepsReview`), so a batch of any length does; one that fails is replaced by what was there.
* *Burn.* On a page that is not turned (`rotated_page` shows the other case): rounding moves an
  edge by less than a pixel, and the padding is more than that; so the painted interval covers
  the box before clamping, and clamping takes away nothing that is on the page.
* *Gate.* The words of a text, glued with one blank each, are its normalized text (by induction over
  its characters). So if the words of an approved span are in a row among the words read on a
  page, its normalized text is inside of the normalized reading, where `partial_ratio` is 100 and
  `check_ocr` has a finding: the verdict is not `pass`.
* *Union-find.* Every `union` keeps `Leads`: a root for each node, which `find` arrives at because
  a height falls along the parents (`FindIs`, `UnionLeads`). After all pairs two nodes have the
  same root just when the pairs connect them (`UnionsTogether`, `GroupsTogether`). The class of a
  root is closed and inside of every closed part that it meets, so it is a component
  (`ComponentIsClass`). `DedupeIs` says what is left: one merged span for each class, over all of
  it, and each span of tier 2 that overlaps none.
* *Account numbers.* Of two numbers with one digit different the Luhn sums differ by at most nine and
  not by zero, since doubling with the digits added up again permutes the digits
  (`AddedDiffers`); two multiples of ten cannot (`OneDigitMistyped`).

**TaskMiddleware_proofs**: `TypesHold` (`MiddlewareTypeOK`), `LogTells` (`LogTellsEachTask`) and
`MetricsHold` (`MetricsAddUp`). The log needs that each message is at one hook of a fixed order and
carries the context of its own job between the first hook and the last, though hooks of other
messages come in between (`MessageInv`); the lines it has written follow from the hook it is at
(`LinesInv`). For the gauge, the messages in hand are counted by a set (`InHand`), whose
cardinality each hook changes as it changes the gauge (`GaugeMoves`).

**Only model-checked:** liveness (`TasksFinish`, and `IngestHandsOver`, which is refuted), which like
ENABLED is outside of the prover's reach. Every other property of the passing runs is stated by a
theorem, without a hypothesis on schedules or faults. An ideal hash, and that tesseract reads
what `Readings` allows, are part of the model, not theorems.

## 5. Not modelled, and why

`components` in `PROJECT.json` says of each part what is left out. PyMuPDF, the NER model,
tesseract, PostgreSQL, RabbitMQ, MinIO, the cloud SDKs and the TaskIQ receiver are external and
appear by what the code relies on; cryptography is ideal.

* *Left out as a whole*: `db/retry.py` and the retry decorator of the storage providers decorate
  nothing but functions in their own tests; the schema and its migrations, deployment, health
  endpoints and request logging keep no state that a property could be about.
* *RedactionPipeline*: a disposition request has one item, the document one page, an edit no text;
  those are in RedactionContent, where in turn sessions do not overlap. Batches whose row locks
  cross (a deadlock PostgreSQL resolves) are in neither.
* *RedactionContent*: a page has one dimension, so that it can be turned by 180 degrees only; at 90
  and 270 the two dimensions change places, and the boxes are elsewhere for the same reason. A
  word is taken to be upright on the page as it is shown, so that tesseract can read it. A
  document without pages is not there, because the library refuses to save one. A manual span with an inverted box or on a page that does not
  exist is accepted by the code and by the model, and the job can then only fail at apply. An
  edit changes the text the gate looks for, so the gate vouches for the edited text.
* *Access*: `main.py` registers neither of the two middlewares (both calls are commented out);
  the model runs them in the order the comments describe. The organization is never found in
  the path, since path parameters are not known yet when a middleware runs.
* *Documents*: with the local provider the loser of two deletes that race is answered with 503, which is why
  `CloudDeletesAreRepeatable` says "cloud". Signed URLs are only a redirect.
* *Accounts*: the gauge `active_memberships` is in the state, but `create_org` and the webhook add
  memberships it never hears of, so nothing relates it to the rows. Of two deliveries of one
  registration that race the second is answered with 500, and may be repeated.
* *TaskMiddleware*: a task that catches its error and marks its job failed counts as
  completed; that is what the metrics mean.

## 6. Plan

1. *Done:* all modules above with their runs; the proofs of section 4, which state every property
   of the passing runs but the liveness.
2. Larger questions for TLC: batches over two spans in opposite order, with row locks.
3. Boxes of two dimensions in the burn, with turns by 90 and 270 degrees; for a page that is not
   turned the argument for one dimension applies to each.
