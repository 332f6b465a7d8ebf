-------------------------- MODULE RedactionContent --------------------------
(***************************************************************************)
(* What happens to the CONTENT of one job, from the upload to the exported *)
(* manifest: ingest (the four ways to reject a PDF, the staging of its     *)
(* page artifacts), detection, batches of dispositions, the burn, the gate *)
(* and the manifest.  RedactionPipeline leaves the content out and has the *)
(* interleavings; here requests and tasks come one at a time, and a task   *)
(* that dies while it stages artifacts is delivered again.                 *)
(***************************************************************************)
EXTENDS Detectors, Burn

CONSTANTS
  PDF,          \* the uploads
  NerResults,   \* lists of results the NER model may return for a page
  Edit,         \* the texts and boxes an edit may put in place
  ManualSpan,   \* the spans a reviewer may add
  OcrScore,     \* scores of text that merely resembles a target
  none,
  MaxPageCount, MaxItems, MaxBatch, MaxFaults   \* bounds but the first

\* What an upload looks like to PyMuPDF, what the model of the NER model returns,
\* and what the schema of an edit and of a manual span lets in.
ASSUME ContentAssumption ==
  /\ none # << >> /\ none \notin Nat
  /\ PDF \subseteq [needs_pass : BOOLEAN, malformed : BOOLEAN, oversized : BOOLEAN,
                    pages : Seq(RawPage)]
  /\ \A doc \in PDF : \A n \in DOMAIN doc.pages : \A i, j \in DOMAIN doc.pages[n].words :
       i # j => LET v == doc.pages[n].words[i]
                    w == doc.pages[n].words[j] IN v.line # w.line \/ v.no # w.no
  /\ NerResults \subseteq Seq([start : Nat, end : Nat, entity_type : STRING, score : Int])
  /\ Edit \subseteq [text : Seq(STRING), bboxes : {none} \cup Seq(Int \X Int)]
  /\ ManualSpan \subseteq [text : Seq(STRING), bboxes : Seq(Int \X Int),
                           page_number : Nat \ {0}, category : STRING]
  /\ AccountLength \subseteq Nat /\ PlateLength \subseteq Nat
  /\ DOB_ANCHOR_WINDOW_CHARS \in Nat
  /\ MaxPageCount \in Nat /\ MaxItems \in Nat /\ MaxBatch \in Nat /\ MaxFaults \in Nat

\* That the literals are strings: the provers have no rule for it.
ASSUME StringAssumption ==
  Space \cup Lower \cup Tier1Category \cup {"name", "organization", "location"} \subseteq STRING

VARIABLES
  pdf,          \* the upload, and what is wrong with it
  status,       \* the status of the job; "new" before, "refused" without one
  error,        \* the exception that ended the request or the task
  stored,       \* keys of the page artifacts in the object store
  todo,         \* the keys ingest_pdf has still to upload; none outside of it
  pages,        \* the page models
  ner,          \* what the NER model returned for each page
  spans,        \* the span rows, in the order of their creation
  disposition,  \* the action of the disposition row of each span
  entries,      \* the audit trail
  items,        \* how many items the batches had
  output,       \* the document apply built
  readings,     \* what tesseract read in it
  manifest,     \* the export manifest
  faults

vars == <<pdf, status, error, stored, todo, pages, ner, spans, disposition, entries, items,
          output, readings, manifest, faults>>

reviewVars == <<spans, disposition, entries, items>>
burnVars == <<output, readings, manifest>>

IngestError == {"EncryptedPdfError", "MalformedPdfError", "UnsupportedPageError",
                "DocumentTooLargeError"}

ContentTypeOK ==
  /\ status \in {"new", "refused", "uploaded", "ingested", "in_review", "applying",
                 "verified", "exported", "failed"}
  /\ error \in IngestError \cup {"none", "storage", "ValueError", "SpanNotFoundError"}
  /\ faults \in 0..MaxFaults /\ items \in 0..MaxItems
  /\ DOMAIN disposition = DOMAIN spans
  /\ \A i \in DOMAIN spans : /\ disposition[i] \in {"none", "approved", "rejected"}
                             /\ spans[i].source_tier \in {"tier_1", "tier_2", "manual"}
                             /\ spans[i].page_number \in Nat \ {0}
  /\ \A e \in ToSet(entries) : e.span \in DOMAIN spans \cup {none}

Init ==
  /\ pdf \in PDF
  /\ status = "new" /\ error = "none"
  /\ stored = {} /\ todo = none
  /\ pages = << >> /\ ner = << >>
  /\ spans = << >> /\ disposition = << >> /\ entries = << >> /\ items = 0
  /\ output = none /\ readings = none /\ manifest = none
  /\ faults = 0

-----------------------------------------------------------------------------
(* ingest/pdf.py *)

\* Encryption is looked at before the number of pages.
check_encryption_and_page_count(doc) ==
  IF doc.needs_pass THEN "EncryptedPdfError"
  ELSE IF Len(doc.pages) > MaxPageCount THEN "DocumentTooLargeError" ELSE "none"

\* Mutant: a document is refused only when none of its pages has a text.
validate_pdf_structure_AnyText(doc) ==
  IF doc.malformed THEN "MalformedPdfError"
  ELSE IF check_encryption_and_page_count(doc) # "none" THEN check_encryption_and_page_count(doc)
  ELSE IF \A n \in DOMAIN doc.pages : doc.pages[n].words = << >> THEN "UnsupportedPageError"
  ELSE "none"

validate_pdf_structure(doc) ==
  IF doc.malformed THEN "MalformedPdfError"
  ELSE IF check_encryption_and_page_count(doc) # "none" THEN check_encryption_and_page_count(doc)
  ELSE IF \E n \in DOMAIN doc.pages : doc.pages[n].words = << >> THEN "UnsupportedPageError"
  ELSE "none"

extract_open_document(doc) == [n \in DOMAIN doc.pages |-> extract_page(doc.pages[n].words, n)]

extract_pages_error(doc) ==
  IF doc.malformed THEN "MalformedPdfError"
  ELSE IF check_encryption_and_page_count(doc) # "none" THEN check_encryption_and_page_count(doc)
  ELSE IF \E n \in DOMAIN doc.pages : extract_open_document(doc)[n].words = << >>
       THEN "UnsupportedPageError" ELSE "none"

validate_file_size(doc) == IF doc.oversized THEN "DocumentTooLargeError" ELSE "none"

-----------------------------------------------------------------------------
(* create_job and ingest_job *)

\* What POST /jobs refuses leaves no job: 413 for the size, 422 for the structure.
CreateJob ==
  /\ status = "new"
  /\ LET refusal == IF validate_file_size(pdf) # "none" THEN validate_file_size(pdf)
                    ELSE validate_pdf_structure(pdf)
     IN /\ status' = IF refusal = "none" THEN "uploaded" ELSE "refused"
        /\ error' = refusal
  /\ UNCHANGED <<pdf, stored, todo, pages, ner, reviewVars, burnVars, faults>>

raster_key(n) == <<n, "raster.png">>
text_layer_key(n) == <<n, "text_layer.json">>

\* ingest_pdf checks the size and every page before it uploads anything.
StartIngest ==
  /\ status = "uploaded" /\ todo = none
  /\ LET raised == IF validate_file_size(pdf) # "none" THEN validate_file_size(pdf)
                   ELSE extract_pages_error(pdf)
     IN IF raised # "none"
        THEN status' = "failed" /\ error' = raised /\ UNCHANGED <<todo, pages>>
        ELSE /\ pages' = extract_open_document(pdf)
             /\ todo' = FlattenSeq([n \in DOMAIN pdf.pages |-> <<raster_key(n), text_layer_key(n)>>])
             /\ UNCHANGED <<status, error>>
  /\ UNCHANGED <<pdf, stored, ner, reviewVars, burnVars, faults>>

UploadArtifact ==
  /\ todo \notin {none, << >>}
  /\ stored' = stored \cup {Head(todo)} /\ todo' = Tail(todo)
  /\ UNCHANGED <<pdf, status, error, pages, ner, reviewVars, burnVars, faults>>

\* A put raises, with or without effect: the job fails and keeps what is stored.
UploadRaises ==
  /\ todo \notin {none, << >>} /\ faults < MaxFaults
  /\ stored' \in {stored, stored \cup {Head(todo)}}
  /\ status' = "failed" /\ error' = "storage" /\ todo' = none /\ faults' = faults + 1
  /\ UNCHANGED <<pdf, pages, ner, reviewVars, burnVars>>

\* The worker dies before its commit; the message is delivered again.
WorkerDies ==
  /\ todo # none /\ faults < MaxFaults
  /\ todo' = none /\ pages' = << >> /\ faults' = faults + 1
  /\ UNCHANGED <<pdf, status, error, stored, ner, reviewVars, burnVars>>

\* Mutant: the commit does not wait for the uploads.
FinishIngest_Early ==
  /\ todo # none
  /\ status' = "ingested" /\ todo' = none
  /\ UNCHANGED <<pdf, error, stored, pages, ner, reviewVars, burnVars, faults>>

FinishIngest ==
  /\ todo = << >>
  /\ status' = "ingested" /\ todo' = none
  /\ UNCHANGED <<pdf, error, stored, pages, ner, reviewVars, burnVars, faults>>

-----------------------------------------------------------------------------
(* detect_job *)

Fits(page, results) == \A r \in ToSet(results) : r.end <= Len(page.text)

candidate_to_span(c) ==
  [page_number |-> c.page_number, bboxes |-> c.bboxes, text |-> c.text,
   category |-> c.category, source_tier |-> c.source_tier]

\* run_detection over pages derived once more from the original.
Detect ==
  /\ status = "ingested"
  /\ pages' = extract_open_document(pdf)
  /\ \E results \in [DOMAIN pdf.pages -> NerResults] :
       /\ \A n \in DOMAIN results : Fits(pages'[n], results[n])
       /\ ner' = results
       /\ LET found == FlattenSeq([n \in DOMAIN pages' |-> detect_page(pages'[n], results[n])])
          IN /\ spans' = [i \in DOMAIN found |-> candidate_to_span(found[i])]
             /\ disposition' = [i \in DOMAIN found |-> "none"]
  /\ status' = "in_review"
  /\ UNCHANGED <<pdf, error, stored, todo, entries, items, burnVars, faults>>

-----------------------------------------------------------------------------
(* create_dispositions *)

\* DispositionItem: the fields of all four verbs; none where a verb has no such field.
\* Span 0 is a span that is not on the document.
Item ==
  [verb : {"approve", "reject"}, span : DOMAIN spans \cup {0},
   text : {none}, bboxes : {none}, page_number : {none}, category : {none}]
    \cup {[verb |-> "edit", span |-> i, text |-> e.text, bboxes |-> e.bboxes,
           page_number |-> none, category |-> none] : i \in DOMAIN spans, e \in Edit}
    \cup {[verb |-> "add_manual_span", span |-> none, text |-> m.text, bboxes |-> m.bboxes,
           page_number |-> m.page_number, category |-> m.category] : m \in ManualSpan}

AUDIT_ACTION_BY_VERB ==
  [approve |-> "approved", reject |-> "rejected", edit |-> "edited",
   add_manual_span |-> "manual_span_added"]

\* Mutant: the other table.
DISPOSITION_ACTION_BY_VERB_Audit(verb) == AUDIT_ACTION_BY_VERB[verb]

DISPOSITION_ACTION_BY_VERB(verb) == IF verb = "reject" THEN "rejected" ELSE "approved"

\* append_audit_entry; the digest is that of the normalized text, and ideal, and
\* a category is the set of the words it is made of.
audit_entry(action, span, text, category) ==
  [action |-> action, span |-> span, category |-> category,
   text_hash |-> IF span = none THEN none ELSE normalize_text(text)]

disposition_needs_change(existing, desired, is_edit, current_text, new_text) ==
  existing # desired \/ (is_edit /\ current_text # new_text)

bboxes_differ(current_bboxes, new_bboxes) == current_bboxes # new_bboxes

Audited(s, item, span, row) ==
  Append(s.entries, audit_entry(AUDIT_ACTION_BY_VERB[item.verb], span, row.text, {row.category}))

\* Mutant: an edit is compared with the disposition alone, after it was written.
apply_existing_span_disposition_WriteFirst(s, item) ==
  LET span    == s.spans[item.span]
      desired == DISPOSITION_ACTION_BY_VERB(item.verb)
      row     == IF item.verb # "edit" THEN span
                 ELSE [span EXCEPT !.text = item.text,
                                   !.bboxes = IF item.bboxes = none THEN @ ELSE item.bboxes]
      written == [s EXCEPT !.spans[item.span] = row]
  IN IF s.disposition[item.span] = desired THEN written
     ELSE [written EXCEPT !.disposition[item.span] = desired,
                          !.entries = Audited(s, item, item.span, row)]

\* The batch so far, with one more item on a span it found.
apply_existing_span_disposition(s, item) ==
  LET span    == s.spans[item.span]
      desired == DISPOSITION_ACTION_BY_VERB(item.verb)
      changed == \/ disposition_needs_change(s.disposition[item.span], desired,
                      item.verb = "edit", span.text, item.text)
                 \/ item.bboxes # none /\ bboxes_differ(span.bboxes, item.bboxes)
      row     == IF item.verb # "edit" THEN span
                 ELSE [span EXCEPT !.text = item.text,
                                   !.bboxes = IF item.bboxes = none THEN @ ELSE item.bboxes]
  IN IF ~ changed THEN s
     ELSE [s EXCEPT !.spans[item.span] = row, !.disposition[item.span] = desired,
                    !.entries = Audited(s, item, item.span, row)]

add_manual_span(s, item) ==
  LET row == [page_number |-> item.page_number, bboxes |-> item.bboxes, text |-> item.text,
              category |-> item.category, source_tier |-> "manual"]
  IN [s EXCEPT !.spans = Append(@, row), !.disposition = Append(@, "approved"),
               !.entries = Audited(s, item, Len(s.spans) + 1, row)]

apply_item(s, item) ==
  IF s.error # "none" THEN s
  ELSE IF item.verb = "add_manual_span" THEN add_manual_span(s, item)
  ELSE IF item.span \notin DOMAIN s.spans THEN [s EXCEPT !.error = "SpanNotFoundError"]
  ELSE apply_existing_span_disposition(s, item)

\* Mutant: the items before the one that is not found stay.
apply_disposition_batch_Partial(s, batch) ==
  LET done[k \in 0..Len(batch)] == IF k = 0 THEN s ELSE apply_item(done[k - 1], batch[k])
  IN done[Len(batch)]

\* In the order of the items; one span that is not found undoes them all.
apply_disposition_batch(s, batch) ==
  LET done[k \in 0..Len(batch)] == IF k = 0 THEN s ELSE apply_item(done[k - 1], batch[k])
      result == done[Len(batch)]
  IN IF result.error = "none" THEN result ELSE [s EXCEPT !.error = result.error]

CreateDispositions ==
  /\ status = "in_review"
  /\ \E size \in 1..MaxBatch :
       /\ items + size <= MaxItems /\ items' = items + size
       /\ \E batch \in [1..size -> Item] :
          LET done == apply_disposition_batch([spans |-> spans, disposition |-> disposition,
                                               entries |-> entries, error |-> "none"], batch)
          IN /\ spans' = done.spans /\ disposition' = done.disposition
             /\ entries' = done.entries /\ error' = done.error
  /\ UNCHANGED <<pdf, status, stored, todo, pages, ner, burnVars, faults>>

-----------------------------------------------------------------------------
(* apply_job: the endpoint and the task *)

count_undispositioned_spans == Cardinality({i \in DOMAIN spans : disposition[i] = "none"})

RequestApply ==
  /\ status = "in_review" /\ count_undispositioned_spans = 0
  /\ status' = "applying" /\ error' = "none"
  /\ UNCHANGED <<pdf, stored, todo, pages, ner, reviewVars, burnVars, faults>>

\* Mutant: spans of every disposition are projected.
project_approved_spans_All == {[page_number |-> spans[i].page_number, bboxes |-> spans[i].bboxes,
                                text |-> spans[i].text] : i \in DOMAIN spans}

project_approved_spans ==
  {[page_number |-> spans[i].page_number, bboxes |-> spans[i].bboxes, text |-> spans[i].text] :
     i \in {j \in DOMAIN spans : disposition[j] = "approved"}}

\* apply raises: apply_started is rolled back, fail_job moves the job.
ApplyRaises ==
  /\ status = "applying" /\ apply_raises(pdf, project_approved_spans) # "none"
  /\ status' = "failed" /\ error' = apply_raises(pdf, project_approved_spans)
  /\ UNCHANGED <<pdf, stored, todo, pages, ner, reviewVars, burnVars, faults>>

\* The verdict, and the checks that found nothing.
verify_verdict_category(result) ==
  {result.verdict} \cup ({"text_layer", "ocr", "metadata"} \ {f.check_type : f \in result.findings})

\* The verdict decides between verified and failed; both are audited.
ApplyJob ==
  /\ status = "applying" /\ apply_raises(pdf, project_approved_spans) = "none"
  /\ output' = rebuild_redacted_pdf(pdf, project_approved_spans)
  /\ \E choice \in Readings(output', OcrScore) :
       /\ readings' = Read(output', choice)
       /\ LET result == verify(output', redacted_strings(project_approved_spans), readings')
              passed == result.verdict = "pass"
          IN /\ status' = IF passed THEN "verified" ELSE "failed"
             /\ entries' = entries \o
                  <<audit_entry("apply_started", none, none, {"job_lifecycle"}),
                    audit_entry(IF passed THEN "verify_passed" ELSE "verify_failed", none, none,
                                verify_verdict_category(result))>>
  /\ UNCHANGED <<pdf, error, stored, todo, pages, ner, spans, disposition, items, manifest, faults>>

-----------------------------------------------------------------------------
(* export_job *)

assemble_export_manifest ==
  LET verdicts == {k \in DOMAIN entries : entries[k].action \in {"verify_passed", "verify_failed"}}
  IN [dispositions |-> Picked(entries, {k \in DOMAIN entries : entries[k].span # none}),
      lifecycle_events |-> Picked(entries, {k \in DOMAIN entries : entries[k].span = none}),
      verify_summary |-> entries[Max(verdicts)].category, entry_count |-> Len(entries)]

\* The exported entry is appended by the first export only.
Export ==
  /\ status \in {"verified", "exported"}
  /\ manifest' = assemble_export_manifest
  /\ status' = "exported"
  /\ entries' = IF status = "exported" THEN entries
                ELSE Append(entries, audit_entry("exported", none, none, {"job_lifecycle"}))
  /\ UNCHANGED <<pdf, error, stored, todo, pages, ner, spans, disposition, items, output, readings, faults>>

-----------------------------------------------------------------------------

Next ==
  \/ CreateJob \/ StartIngest \/ UploadArtifact \/ UploadRaises \/ WorkerDies \/ FinishIngest
  \/ Detect \/ CreateDispositions \/ RequestApply \/ ApplyRaises \/ ApplyJob \/ Export

Spec == Init /\ [][Next]_vars

-----------------------------------------------------------------------------
(* Ingest *)

\* The offsets ingest computes for the words cut exactly these words out of the
\* text of their page, whatever the lines they are on, and only white space is
\* left between them: a match of a detector is the match of the words it boxes.
TextMatchesWords ==
  \A n \in DOMAIN pages :
    LET raw   == pdf.pages[n].words
        text  == pages[n].text
        words == pages[n].words
    IN /\ {<<Slice(text, w.start, w.end), w.bbox>> : w \in ToSet(words)}
            = {<<w.text, w.bbox>> : w \in ToSet(raw)}
       /\ \A i \in 1..Len(text) : \/ text[i] \in Space
                                 \/ \E w \in ToSet(words) : i \in w.start + 1..w.end

\* What POST /jobs accepts, the ingest task does not refuse: create_job looks for
\* the same four defects as ingest_pdf, which looks for them on its own way.
PrecheckPredictsIngest == status = "failed" => error \notin IngestError

\* A job past ingest has the raster and the text layer of each of its pages in the
\* object store, whatever attempts before died or failed half way.
StagedIsWhole ==
  status \notin {"new", "refused", "uploaded", "failed"} =>
    \A n \in DOMAIN pdf.pages : {raster_key(n), text_layer_key(n)} \subseteq stored

-----------------------------------------------------------------------------
(* Detection *)

\* The properties of detection are about the spans as detect_job leaves them.
JustDetected == status = "in_review" /\ items = 0

\* What the two tiers report on a page; the positions are the nodes of the union-find.
Candidates(n) == tier1_spans(pages[n]) \o page_spans(pages[n], ner[n])

Linked(c, d) == c.source_tier # d.source_tier /\ spans_overlap(c, d)

\* A part of the candidates that no link leaves.
Closed(all, part) ==
  \A i \in part : \A j \in DOMAIN all : Linked(all[i], all[j]) => j \in part

\* What hangs together with a candidate: what no closed part separates from it.
Component(all, i) ==
  {j \in DOMAIN all : \A part \in SUBSET DOMAIN all : i \in part /\ Closed(all, part) => j \in part}

\* The candidates that hang together by overlaps between the tiers, however long the
\* chain, leave one span over all they cover, and nothing else leaves a span: the
\* union-find of tier2.py agrees with reachability.
DedupeIsByComponent ==
  JustDetected =>
    \A n \in DOMAIN pages :
      LET all == Candidates(n)
          Hull(group) == [start |-> Min({all[i].start : i \in group}),
                          end |-> Max({all[i].end : i \in group}),
                          category |-> all[CHOOSE i \in group : TRUE].category]
          found == detect_page(pages[n], ner[n])
          groups == {Component(all, i) : i \in DOMAIN all}
      IN /\ Len(found) = Cardinality(groups)
         /\ {[start |-> s.start, end |-> s.end, category |-> s.category] : s \in ToSet(found)}
              = {Hull(g) : g \in groups}

\* Merging loses nothing: each candidate of either tier is inside of a span of its
\* category, which has the box of each word that the candidate touches.
NoCharacterIsLost ==
  JustDetected =>
    \A n \in DOMAIN pages :
      \A c \in ToSet(Candidates(n)) : \E s \in ToSet(detect_page(pages[n], ner[n])) :
        /\ s.category = c.category /\ s.start <= c.start /\ c.end <= s.end
        /\ \A w \in ToSet(pages[n].words) :
             (\E i \in c.start + 1..c.end : i \in w.start + 1..w.end) => w.bbox \in ToSet(s.bboxes)

\* The checksum tells an account number from the same one with one digit mistyped:
\* of two words that differ in one digit at most one is detected.
MistypedAccountsAreNotDetected ==
  JustDetected =>
    \A n \in DOMAIN pages :
      LET accounts == {s.text : s \in {t \in ToSet(tier1_spans(pages[n])) : t.category = "account_number"}}
      IN \A a, b \in accounts :
           Len(a) = Len(b) => Cardinality({i \in DOMAIN a : a[i] # b[i]}) # 1

-----------------------------------------------------------------------------
(* Review *)

LastOf(i) == entries[Max({k \in DOMAIN entries : entries[k].span = i})]

\* The trail tells the rows: the last entry of a span has the digest of the text it
\* has now, and says "rejected" just when its disposition does; a span without an
\* entry has no disposition.
TrailTellsTheRows ==
  \A i \in DOMAIN spans :
    IF \A k \in DOMAIN entries : entries[k].span # i THEN disposition[i] = "none"
    ELSE /\ LastOf(i).text_hash = normalize_text(spans[i].text)
         /\ disposition[i] = IF LastOf(i).action = "rejected" THEN "rejected" ELSE "approved"

\* A batch with an item that cannot be applied leaves nothing of its other items.
BatchIsAtomic ==
  [][error' = "SpanNotFoundError" => UNCHANGED <<spans, disposition, entries>>]_vars

-----------------------------------------------------------------------------
(* Burn and gate *)

Passed == status \in {"verified", "exported"}

\* A span that was approved as it was detected, its boxes being those of the words.
ApprovedAsFound(i) ==
  disposition[i] = "approved" /\ \A e \in ToSet(entries) : e.span = i => e.action = "approved"

\* In a document that passed, no pixel of a word that an approved span was detected
\* on is left to see, if the page is not turned: rounding, padding and clamping never
\* leave an edge of a glyph.
BurnCoversWords ==
  Passed =>
    \A i \in DOMAIN spans :
      LET page == output.pages[spans[i].page_number]
      IN ApprovedAsFound(i) /\ ~ page.image.rotated =>
           \A w \in ToSet(page.image.words) : w.bbox \in ToSet(spans[i].bboxes) => Covered(page, w)

\* What apply.py:10-11 says of every page, "opaque black boxes are painted over every
\* approved span's (padded) bbox": in a document that passed, the words an approved span
\* was detected on are covered, turned pages included.  The code does not keep it: the
\* boxes of a turned page lie elsewhere on its image, and a gate that looks for the
\* text as a whole passes when one word of it is hidden.
ApprovedWordsAreCovered ==
  Passed =>
    \A i \in DOMAIN spans :
      LET page == output.pages[spans[i].page_number]
      IN ApprovedAsFound(i) =>
           \A w \in ToSet(page.image.words) : w.bbox \in ToSet(spans[i].bboxes) => Covered(page, w)

\* What the reviewer rejected or never marked is not burned: each painted pixel of a
\* page that is not turned is within the padding of a box of an approved span on it.
OnlyApprovedIsBurned ==
  output # none =>
    \A n \in DOMAIN output.pages : ~ output.pages[n].image.rotated => \A p \in output.pages[n].painted :
      \E i \in DOMAIN spans : \E bbox \in ToSet(spans[i].bboxes) :
        /\ disposition[i] = "approved" /\ spans[i].page_number = n
        /\ First(bbox[1] - BOX_PADDING_PTS) <= p /\ p <= Width(bbox[2] + BOX_PADDING_PTS)

\* The words of a text, in lower case.
WordsIn(text) ==
  LET upTo[k \in 0..Len(text)] ==
        IF k = 0 THEN << >>
        ELSE LET words == upTo[k - 1]
                 c == casefold(text[k])
             IN IF text[k] \in Space THEN words
                ELSE IF k = 1 \/ text[k - 1] \in Space THEN Append(words, <<c>>)
                ELSE [words EXCEPT ![Len(words)] = Append(@, c)]
  IN upTo[Len(text)]

\* In a document that passed, no page can be read to have the words of an approved
\* span in a row: not on the page of the span, and not elsewhere, where no one
\* marked them; however they are written and broken into lines.
GateCatches ==
  Passed =>
    \A i \in DOMAIN spans : \A n \in DOMAIN output.pages :
      (disposition[i] = "approved" /\ WordsIn(spans[i].text) # << >>) =>
        WordsIn(spans[i].text) \notin SubSeqs(WordsIn(readings[n].text))

-----------------------------------------------------------------------------
(* Stage by stage *)

\* Ingest accepts what create_job let in, stages all of it, and its page model has
\* the words where the document has them.
IngestIsFaithful == PrecheckPredictsIngest /\ StagedIsWhole /\ TextMatchesWords

\* The spans of the two tiers become one span for each group that overlaps, which
\* covers them all, and mistyped numbers are left out.
DetectionIsExact == DedupeIsByComponent /\ NoCharacterIsLost /\ MistypedAccountsAreNotDetected

\* The audit trail and the rows agree after each batch, all of it or nothing.  In
\* particular the entry of an edit has the digest of the new text: the row is
\* overwritten before it is hashed.  jobs_service.py:276-279 says the opposite, that the
\* entry "preserves the pre-edit content via its digest"; the digest of a text that is
\* edited before it is approved or rejected is nowhere in the trail.
ReviewIsAudited == []TrailTellsTheRows /\ BatchIsAtomic

\* On a page that is not turned, the boxes of the approved spans are burned, whole,
\* and nothing else is.
BurnIsExact == BurnCoversWords /\ OnlyApprovedIsBurned

=============================================================================
