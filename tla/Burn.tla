-------------------------------- MODULE Burn --------------------------------
(***************************************************************************)
(* redaction/apply.py and verify_gate.py: the pages of the source drawn as *)
(* images with boxes over the approved spans, rebuilt into a document of   *)
(* images alone, and the gate that looks for the approved texts in it.     *)
(*                                                                         *)
(* Coordinates are whole points and whole pixels of one dimension.  The    *)
(* image of a page is turned as the page says, the boxes of its words are  *)
(* not, and nothing converts the one into the other.  What tesseract reads *)
(* on an image is a reading, see Readings.                                 *)
(***************************************************************************)
EXTENDS PageText, FiniteSetsExt

-----------------------------------------------------------------------------
(* Pixels *)

\* 300 dpi over 72 points per inch
ScaleNumerator == 25
ScaleDenominator == 6
BOX_PADDING_PTS == 2

\* Python rounds a half to the even neighbour.
Round(n, d) ==
  LET q == n \div d
      twice == 2 * (n % d)
  IN IF twice < d \/ (twice = d /\ q % 2 = 0) THEN q ELSE q + 1

Pixels(points) == Round(points * ScaleNumerator, ScaleDenominator)

\* PyMuPDF: a page or a glyph covers every pixel it touches.
First(points) == (points * ScaleNumerator) \div ScaleDenominator
Width(points) == (points * ScaleNumerator + ScaleDenominator - 1) \div ScaleDenominator

Inked(bbox, width) == {p \in First(bbox[1])..Width(bbox[2]) - 1 : p \in 0..Width(width) - 1}

\* get_pixmap draws the page as it is turned (by 180 degrees, in one dimension);
\* get_text("words") has the boxes of the page as it is not.
Shown(raw, bbox) ==
  IF raw.rotated THEN <<raw.width - bbox[2], raw.width - bbox[1]>> ELSE bbox

-----------------------------------------------------------------------------
(* apply *)

\* Mutant: the box is as tight as the word.
Box_Tight(bbox, width) ==
  [left |-> Max({0, Pixels(bbox[1])}), right |-> Min({Width(width), Pixels(bbox[2]) - 1})]

Box(bbox, width) ==
  [left  |-> Max({0, Pixels(bbox[1] - BOX_PADDING_PTS)}),
   right |-> Min({Width(width), Pixels(bbox[2] + BOX_PADDING_PTS)})]

Boxes(spans) == UNION {ToSet(s.bboxes) : s \in spans}

\* Pillow raises ValueError when a rectangle ends before it begins.
Drawable(spans, width) ==
  \A bbox \in Boxes(spans) : Box(bbox, width).left <= Box(bbox, width).right

draw_boxes(spans, width) ==
  (UNION {Box(bbox, width).left..Box(bbox, width).right : bbox \in Boxes(spans)})
    \cap 0..Width(width) - 1

validate_page_numbers(spans, page_count) == \A s \in spans : s.page_number \in 1..page_count

spans_by_page(spans, number) == {s \in spans : s.page_number = number}

\* Only images go into the new document, and what it has of metadata is stripped.
\* The boxes are painted where the words are on the page that is not turned.
rebuild_redacted_pdf(source, spans) ==
  [pages |-> [n \in 1..Len(source.pages) |->
     [image |-> source.pages[n], text_layer |-> << >>,
      painted |-> draw_boxes(spans_by_page(spans, n), source.pages[n].width)]],
   metadata |-> << >>]

\* What apply raises before there is an output, or "none".
apply_raises(source, spans) ==
  IF ~ validate_page_numbers(spans, Len(source.pages)) THEN "ValueError"
  ELSE IF \E n \in 1..Len(source.pages) :
            ~ Drawable(spans_by_page(spans, n), source.pages[n].width) THEN "ValueError"
  ELSE "none"

redacted_strings(spans) == {s.text : s \in spans}

-----------------------------------------------------------------------------
(* verify_gate *)

Space == {"blank", "newline"}
casefold(c) == CASE c = "A" -> "a" [] c = "B" -> "b" [] OTHER -> c

\* One blank for each run of white space, none at either end.
normalize_text(text) ==
  Picked([i \in 1..Len(text) |-> IF text[i] \in Space THEN "blank" ELSE casefold(text[i])],
         {i \in 1..Len(text) : \/ text[i] \notin Space
                              \/ /\ \E j \in 1..i - 1 : text[j] \notin Space
                                 /\ i < Len(text) /\ text[i + 1] \notin Space})

Contained(target, text) == target \in SubSeqs(text)

normalized_targets(strings) == {normalize_text(s) : s \in strings} \ {<< >>}

Finding(check, page, target) == [check_type |-> check, page_number |-> page, target |-> target]

check_text_layer(doc, targets) ==
  UNION {{Finding("text_layer", n, t) :
            t \in {u \in targets : Contained(u, normalize_text(doc.pages[n].text_layer))}} :
         n \in DOMAIN doc.pages}

OCR_MATCH_THRESHOLD == 85

\* partial_ratio is 100 for a text that is there; reading.score is the best of
\* what merely resembles the target.
partial_ratio(target, reading) ==
  IF Contained(target, normalize_text(reading.text)) THEN 100 ELSE reading.score

\* Mutant: the first page stands for all of them.
check_ocr_FirstPage(doc, targets, readings) ==
  {Finding("ocr", 1, t) : t \in {u \in targets : /\ 1 \in DOMAIN doc.pages
                                                 /\ partial_ratio(u, readings[1]) >= OCR_MATCH_THRESHOLD}}

check_ocr(doc, targets, readings) ==
  UNION {{Finding("ocr", n, t) :
            t \in {u \in targets : partial_ratio(u, readings[n]) >= OCR_MATCH_THRESHOLD}} :
         n \in DOMAIN doc.pages}

check_metadata(doc, targets) ==
  {Finding("metadata", 0, t) : t \in {u \in targets : Contained(u, normalize_text(doc.metadata))}}

\* All three checks run, whatever the first one finds.
verify(doc, strings, readings) ==
  LET targets  == normalized_targets(strings)
      findings == check_text_layer(doc, targets) \cup check_ocr(doc, targets, readings)
                    \cup check_metadata(doc, targets)
  IN [verdict |-> IF findings = {} THEN "pass" ELSE "fail", findings |-> findings]

-----------------------------------------------------------------------------
(* tesseract *)

Ink(page, w) == Inked(Shown(page.image, w.bbox), page.image.width)

Clear(page, w) == Ink(page, w) \cap page.painted = {}
Covered(page, w) == Ink(page, w) \subseteq page.painted

Joined(words) ==
  FlattenSeq([i \in 1..Len(words) |-> IF i = 1 THEN words[i].text ELSE <<"blank">> \o words[i].text])

\* It reads what is clear; of what is covered in part it reads all or nothing.
Readings(doc, scores) ==
  [DOMAIN doc.pages -> scores] \X BOOLEAN

Read(doc, choice) ==
  [n \in DOMAIN doc.pages |->
     LET page == doc.pages[n]
         words == reading_order(page.image.words)
         Readable(w) == Clear(page, w) \/ (choice[2] /\ ~ Covered(page, w))
     IN [text |-> Joined(Picked(words, {i \in DOMAIN words : Readable(words[i])})), score |-> choice[1][n]]]

=============================================================================
