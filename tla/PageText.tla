------------------------------ MODULE PageText ------------------------------
(***************************************************************************)
(* The page model of ingest, and what the other stages ask of it: the text *)
(* of a page with the offsets and boxes of its words, and the boxes and    *)
(* the text of a range of it.                                              *)
(*                                                                         *)
(* A character is a string.  What a pattern of tier1.py matches as a whole *)
(* (a date, a phone number) is one character here, see Detectors.  Boxes   *)
(* have one dimension; the code treats the other one alike.                *)
(***************************************************************************)
EXTENDS Integers, Sequences, SequencesExt, TLC

\* The elements of s at the positions in P, in their order.
Picked(s, P) ==
  LET upTo[k \in 0..Len(s)] ==
        IF k = 0 THEN << >>
        ELSE IF k \in P THEN Append(upTo[k - 1], s[k]) ELSE upTo[k - 1]
  IN upTo[Len(s)]

\* The elements of a set from the first to the last, less being the pairs in order.
InOrder(S, less) ==
  LET rank == [x \in S |-> Cardinality({y \in S : <<y, x>> \in less})]
  IN [k \in 1..Cardinality(S) |-> CHOOSE x \in S : rank[x] = k - 1]

-----------------------------------------------------------------------------
(* ingest/pdf.py *)

\* A word as PyMuPDF reports it: line is (block_no, line_no), no is word_no.
RawWord == [text : Seq(STRING), line : Nat, no : Nat, bbox : Int \X Int]

\* rotated: the page is turned before it is shown; the boxes of its words are not.
RawPage == [words : Seq(RawWord), width : Nat, rotated : BOOLEAN]

Before(v, w) == v.line < w.line \/ (v.line = w.line /\ v.no < w.no)

\* The words in the order they are read; no two of a page have the same line and number.
reading_order(raw) ==
  InOrder(ToSet(raw), {p \in ToSet(raw) \X ToSet(raw) : Before(p[1], p[2])})

\* _WORD_JOIN or _LINE_JOIN after word i, nothing after the last one
Separator(raw, i) ==
  IF i = Len(raw) THEN << >>
  ELSE IF raw[i].line = raw[i + 1].line THEN <<"blank">> ELSE <<"newline">>

\* Mutant: the line break is not counted.
offsets_NoLineJoin(raw) ==
  LET at[i \in 1..Len(raw)] ==
        IF i = 1 THEN 0
        ELSE at[i - 1] + Len(raw[i - 1].text)
               + (IF Separator(raw, i - 1) = <<"blank">> THEN 1 ELSE 0)
  IN at

\* Where each word starts in the text of the page.
offsets(raw) ==
  LET at[i \in 1..Len(raw)] ==
        IF i = 1 THEN 0 ELSE at[i - 1] + Len(raw[i - 1].text) + Len(Separator(raw, i - 1))
  IN at

build_text_and_words(raw) ==
  [text  |-> FlattenSeq([i \in 1..Len(raw) |-> raw[i].text \o Separator(raw, i)]),
   words |-> [i \in 1..Len(raw) |-> [start |-> offsets(raw)[i], bbox |-> raw[i].bbox,
                                     end |-> offsets(raw)[i] + Len(raw[i].text)]]]

extract_page(raw, page_number) ==
  LET built == build_text_and_words(reading_order(raw))
  IN [page_number |-> page_number, text |-> built.text, words |-> built.words]

-----------------------------------------------------------------------------
(* detection/base.py *)

\* text[start:end]
Slice(text, start, end) == SubSeq(text, start + 1, end)

Overlaps(a, b) == a.start < b.end /\ b.start < a.end

resolve_span_bboxes(page, start, end) ==
  LET touched == Picked(page.words, {i \in DOMAIN page.words : /\ page.words[i].start < end
                                                             /\ start < page.words[i].end})
  IN [i \in 1..Len(touched) |-> touched[i].bbox]

=============================================================================
