----------------------------- MODULE MCContent -----------------------------
(***************************************************************************)
(* Uploads of up to two pages for RedactionContent: each defect that is    *)
(* refused, words that the padding of a neighbour touches, one text on two *)
(* pages, matches of one category next to each other, and account numbers  *)
(* that differ in one digit.                                               *)
(***************************************************************************)
EXTENDS RedactionContent

Word(text, line, no, left) ==
  [text |-> text, line |-> line, no |-> no, bbox |-> <<left, left + 4>>]

Page(words) == [words |-> words, width |-> 20, rotated |-> FALSE]

Doc(contents) ==
  [needs_pass |-> FALSE, malformed |-> FALSE, oversized |-> FALSE, pages |-> contents]

\* Two lines, listed in another order than they are read.
Prose == Page(<<Word(<<"a", "b">>, 2, 1, 0), Word(<<"a">>, 1, 1, 0), Word(<<"b">>, 1, 2, 5)>>)
Shouted == Page(<<Word(<<"A">>, 1, 1, 3)>>)
Phones == Page(<<Word(<<"phone">>, 1, 1, 0), Word(<<"phone">>, 2, 1, 5),
                 Word(<<"phone">>, 2, 2, 13)>>)
PhonesInLine == Page(<<Word(<<"phone">>, 1, 1, 0), Word(<<"phone">>, 1, 2, 7)>>)
Personal == Page(<<Word(<<"date">>, 1, 1, 0), Word(<<"born">>, 1, 2, 5), Word(<<"date">>, 1, 3, 9),
                   Word(<<"ssn">>, 2, 1, 0), Word(<<"ssn-666">>, 2, 2, 5)>>)
Contact == Page(<<Word(<<"email">>, 1, 1, 0), Word(<<"email-shaped">>, 1, 2, 5),
                  Word(<<"A", "1">>, 2, 1, 0), Word(<<"A", "B">>, 2, 2, 5)>>)
Blank == Page(<< >>)

\* When it is shown, its first word is at the other end, where no box is.
Turned == [Page(<<Word(<<"a">>, 1, 1, 0), Word(<<"b">>, 1, 2, 5), Word(<<"b">>, 1, 3, 9)>>)
             EXCEPT !.rotated = TRUE]

\* Ten numbers that differ in their first digit, ten that differ in their second.
Accounts ==
  Page([i \in 1..10 |-> Word(<<ToString(i - 1), "0">>, i, 1, 0)]
         \o [i \in 1..10 |-> Word(<<"4", ToString(i - 1)>>, 10 + i, 1, 0)])

MCPDF ==
  {Doc(<<Prose, Shouted>>), Doc(<<Phones, PhonesInLine>>), Doc(<<Personal>>), Doc(<<Contact>>),
   Doc(<<Accounts>>), Doc(<<Turned>>), Doc(<<Prose, Blank>>), Doc(<<Prose, Prose, Prose>>),
   [Doc(<<Prose>>) EXCEPT !.needs_pass = TRUE], [Doc(<<Prose>>) EXCEPT !.malformed = TRUE],
   [Doc(<<Prose>>) EXCEPT !.oversized = TRUE]}

Result(start, end, entity_type, score) ==
  [start |-> start, end |-> end, entity_type |-> entity_type, score |-> score]

MCNerResults ==
  {<< >>,
   <<Result(0, 3, "PHONE_NUMBER", 60), Result(2, 5, "PHONE_NUMBER", 40)>>,
   <<Result(0, 1, "PERSON", 39), Result(0, 1, "DATE_TIME", 90), Result(0, 1, "LOCATION", 70)>>}

MCEdit == {[text |-> <<"a">>, bboxes |-> none], [text |-> <<"phone">>, bboxes |-> << >>]}

MCManualSpan ==
  {[text |-> <<"a">>, bboxes |-> << <<0, 4>> >>, page_number |-> 1, category |-> "other"],
   [text |-> <<"b">>, bboxes |-> << <<15, 5>> >>, page_number |-> 2, category |-> "other"]}

MCSSN == [c \in {"ssn", "ssn-666"} |-> IF c = "ssn" THEN <<899, 1, 1>> ELSE <<666, 1, 1>>]

MCAccountLength == {2}
MCPlateLength == {2}

=============================================================================
