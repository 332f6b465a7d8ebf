----------------------------- MODULE Detectors -----------------------------
(***************************************************************************)
(* Detection on one page: the tier-1 detectors with their validation, the  *)
(* filter of the tier-2 results, and the merge of the two.                 *)
(*                                                                         *)
(* The regular expressions and the NER model are external.  Of a regular   *)
(* expression the model keeps which characters it matches and what may not *)
(* stand next to them: a date, a phone number, an e-mail address, an SSN   *)
(* and a keyword that announces a date of birth are one character each.    *)
(***************************************************************************)
EXTENDS PageText, FiniteSetsExt

CONSTANTS
  SSN,            \* the characters that are an SSN: its area, group and serial
  AccountLength,  \* 12..19
  PlateLength,    \* 5..8
  DOB_ANCHOR_WINDOW_CHARS

Digit == {"0", "1", "2", "3", "4", "5", "6", "7", "8", "9"}
Upper == {"A", "B"}
Lower == {"a", "b"}
Phone == {"phone"}
Date == {"date"}
Anchor == {"born"}
Email == {"email", "email-shaped"}

Tier1Category == {"ssn", "phone", "email", "account_number", "license_plate", "dob"}

-----------------------------------------------------------------------------
(* detection/tier1.py *)

is_valid_ssn(area, group, serial) ==
  /\ area \notin {0, 666} /\ area <= 899
  /\ group # 0 /\ serial # 0

Numeral == <<"0", "1", "2", "3", "4", "5", "6", "7", "8", "9">>

Value(digit) == CHOOSE n \in 0..9 : Numeral[n + 1] = digit

\* Mutant: a doubled digit is not reduced.
Luhn_value_NoCap(digits, index) ==
  IF index % 2 = Len(digits) % 2 THEN Value(digits[index + 1]) * 2 ELSE Value(digits[index + 1])

\* What the digit at index adds to the sum: every second one is doubled.
Luhn_value(digits, index) ==
  LET value == Value(digits[index + 1]) IN
  IF index % 2 # Len(digits) % 2 THEN value
  ELSE IF value * 2 > 9 THEN value * 2 - 9 ELSE value * 2

luhn_check(digits) ==
  LET total[k \in 0..Len(digits)] == IF k = 0 THEN 0 ELSE total[k - 1] + Luhn_value(digits, k - 1)
  IN total[Len(digits)] % 10 = 0

is_valid_email(candidate) == candidate = <<"email">>

is_plate_shaped(candidate) ==
  (\E c \in ToSet(candidate) : c \in Upper) /\ (\E c \in ToSet(candidate) : c \in Digit)

\* An anchor in the window before the match, not after it.
has_dob_anchor(text, match_start) ==
  LET from == Max({0, match_start - DOB_ANCHOR_WINDOW_CHARS})
  IN \E c \in ToSet(Slice(text, from, match_start)) : c \in Anchor

candidate(page, match, category, tier, confidence) ==
  [page_number |-> page.page_number, start |-> match.start, end |-> match.end,
   bboxes |-> resolve_span_bboxes(page, match.start, match.end),
   text |-> Slice(page.text, match.start, match.end),
   category |-> category, source_tier |-> tier, confidence |-> confidence]

\* The matches of a pattern: runs of class of such a length, not next to border.
Runs(text, class, border, lengths) ==
  {m \in [start : 0..Len(text), end : 0..Len(text)] :
     /\ m.end - m.start \in lengths
     /\ \A i \in m.start + 1..m.end : text[i] \in class
     /\ m.start > 0 => text[m.start] \notin border
     /\ m.end < Len(text) => text[m.end + 1] \notin border}

Single(text, class) ==
  {[start |-> i - 1, end |-> i] : i \in {j \in 1..Len(text) : text[j] \in class}}

Matched(page, m) == Slice(page.text, m.start, m.end)

\* finditer goes from left to right; matches are those that validate accepts.
detect_matches(page, matches, category, confidence) ==
  LET ordered == InOrder(matches, {p \in matches \X matches : p[1].start < p[2].start})
  IN [i \in 1..Len(ordered) |-> candidate(page, ordered[i], category, "tier_1", confidence)]

detect_ssn(page) ==
  LET Valid(m) == LET parts == SSN[Matched(page, m)[1]]
                  IN is_valid_ssn(parts[1], parts[2], parts[3])
  IN detect_matches(page, {m \in Single(page.text, DOMAIN SSN) : Valid(m)}, "ssn", 100)

detect_phone(page) == detect_matches(page, Single(page.text, Phone), "phone", 90)

detect_email(page) ==
  detect_matches(page, {m \in Single(page.text, Email) : is_valid_email(Matched(page, m))},
                 "email", 90)

detect_account_number(page) ==
  LET runs == Runs(page.text, Digit, Digit, AccountLength)
  IN detect_matches(page, {m \in runs : luhn_check(Matched(page, m))}, "account_number", 100)

detect_license_plate(page) ==
  LET runs == Runs(page.text, Upper \cup Digit, Upper \cup Lower \cup Digit, PlateLength)
  IN detect_matches(page, {m \in runs : is_plate_shaped(Matched(page, m))}, "license_plate", 90)

detect_dob(page) ==
  detect_matches(page, {m \in Single(page.text, Date) : has_dob_anchor(page.text, m.start)},
                 "dob", 90)

\* _TIER1_DETECTORS, in their order
tier1_spans(page) ==
  detect_ssn(page) \o detect_phone(page) \o detect_email(page)
    \o detect_account_number(page) \o detect_license_plate(page) \o detect_dob(page)

-----------------------------------------------------------------------------
(* detection/tier2.py *)

TIER2_MIN_CONFIDENCE == 40

PRESIDIO_ENTITY_TO_CATEGORY ==
  [PERSON |-> "name", ORGANIZATION |-> "organization", LOCATION |-> "location",
   PHONE_NUMBER |-> "phone", EMAIL_ADDRESS |-> "email", US_SSN |-> "ssn"]

to_candidate(page, result) ==
  candidate(page, result, PRESIDIO_ENTITY_TO_CATEGORY[result.entity_type], "tier_2", result.score)

page_spans(page, results) ==
  LET kept == Picked(results, {i \in DOMAIN results :
                 /\ results[i].score >= TIER2_MIN_CONFIDENCE
                 /\ results[i].entity_type \in DOMAIN PRESIDIO_ENTITY_TO_CATEGORY})
  IN [i \in 1..Len(kept) |-> to_candidate(page, kept[i])]

spans_overlap(a, b) ==
  a.page_number = b.page_number /\ a.category = b.category /\ Overlaps(a, b)

\* Following the parents from index; path compression moves no root.
find(parent, index) ==
  LET root[i \in DOMAIN parent] == IF parent[i] = i THEN i ELSE root[parent[i]]
  IN root[index]

\* Mutant: the second node alone is moved, not the set it belongs to.
union_Node(parent, first, second) == [parent EXCEPT ![second] = find(parent, first)]

union(parent, first, second) == [parent EXCEPT ![find(parent, second)] = find(parent, first)]

\* The nodes of a tier-1 and a tier-2 index, in the order the loops meet them.
OverlappingPairs(t1, t2) ==
  LET pairs == {p \in (1..Len(t1)) \X (1..Len(t2)) : spans_overlap(t1[p[1]], t2[p[2]])}
  IN InOrder(pairs, {q \in pairs \X pairs :
                       \/ q[1][1] < q[2][1]
                       \/ q[1][1] = q[2][1] /\ q[1][2] < q[2][2]})

\* The root of every node; tier-2 index j is node Len(t1) + j.
group_overlapping_spans(t1, t2) ==
  LET pairs == OverlappingPairs(t1, t2)
      parent[k \in 0..Len(pairs)] ==
        IF k = 0 THEN [i \in 1..Len(t1) + Len(t2) |-> i]
        ELSE union(parent[k - 1], pairs[k][1], Len(t1) + pairs[k][2])
  IN [i \in 1..Len(t1) + Len(t2) |-> find(parent[Len(pairs)], i)]

\* Mutant: the boxes stay those of the primary.
merge_group_KeepsBoxes(page, group, primary) ==
  [primary EXCEPT !.start = Min({s.start : s \in group}), !.end = Max({s.end : s \in group}),
                  !.text = Slice(page.text, Min({s.start : s \in group}),
                                 Max({s.end : s \in group}))]

\* The primary over the union of the ranges of its group.
merge_group(page, group, primary) ==
  LET start == Min({s.start : s \in group})
      end   == Max({s.end : s \in group})
  IN IF start = primary.start /\ end = primary.end THEN primary
     ELSE [primary EXCEPT !.start = start, !.end = end, !.text = Slice(page.text, start, end),
                          !.bboxes = resolve_span_bboxes(page, start, end)]

\* One survivor per group with a tier-1 span, in the order of its first one; then
\* the tier-2 spans that no such group has consumed.
dedupe_tier2_against_tier1(page, t1, t2) ==
  LET root == group_overlapping_spans(t1, t2)
      Node(i) == IF i <= Len(t1) THEN t1[i] ELSE t2[i - Len(t1)]
      Group(i) == {Node(j) : j \in {k \in DOMAIN root : root[k] = root[i]}}
      survivors == [i \in 1..Len(t1) |-> merge_group(page, Group(i), t1[i])]
  IN Picked(survivors, {i \in 1..Len(t1) : \A j \in 1..i - 1 : root[j] # root[i]})
       \o Picked(t2, {j \in 1..Len(t2) : \A i \in 1..Len(t1) : root[i] # root[Len(t1) + j]})

\* services/detection_service.py
detect_page(page, results) ==
  dedupe_tier2_against_tier1(page, tier1_spans(page), page_spans(page, results))

=============================================================================
