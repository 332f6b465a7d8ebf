------------------------ MODULE RedactionContent_proofs ------------------------
(***************************************************************************)
(* What RedactionContent says of the content of a job, proved for every    *)
(* upload, every result of the NER model, every edit and every batch.      *)
(***************************************************************************)
EXTENDS RedactionContent, SequenceLemmas

-----------------------------------------------------------------------------
(* Pages *)

Text == Seq(STRING)

Bbox == Int \X Int

PageWord == [start : Nat, bbox : Bbox, end : Nat]

PageModel == [page_number : Nat \ {0}, text : Text, words : Seq(PageWord)]

\* No two words of a page have the same line and the same number.
DistinctWords(raw) ==
  \A i, j \in DOMAIN raw : i # j => raw[i].line # raw[j].line \/ raw[i].no # raw[j].no

(* Sorting the words of a page by block, line and word number loses and repeats none of them. *)
LEMMA ReadingOrderSorts ==
  ASSUME NEW raw \in Seq(RawWord), DistinctWords(raw)
  PROVE  /\ reading_order(raw) \in Seq(RawWord)
         /\ Len(reading_order(raw)) = Len(raw)
         /\ ToSet(reading_order(raw)) = ToSet(raw)
<1> DEFINE S == ToSet(raw)
           less == {p \in S \X S : Before(p[1], p[2])}
<1>1. IsFiniteSet(S) /\ S \subseteq RawWord
  BY ToSetFinite
<1>2. \A v, w \in S : v # w => v.line # w.line \/ v.no # w.no
  BY DEF ToSet, DistinctWords
<1>3. \A w \in S : w.line \in Nat /\ w.no \in Nat
  BY <1>1 DEF RawWord
<1>4. StrictOrder(S, less)
  <2>1. \A v, w \in S : <<v, w>> \in less <=> Before(v, w)
    OBVIOUS
  <2> HIDE DEF S, less
  <2>2. \A x \in S : ~ Before(x, x)
    BY <1>3 DEF Before
  <2>3. \A x, y \in S : x # y => Before(x, y) \/ Before(y, x)
    BY <1>2, <1>3 DEF Before
  <2>4. \A x, y, z \in S : Before(x, y) /\ Before(y, z) => Before(x, z)
    BY <1>3 DEF Before
  <2> QED BY <2>1, <2>2, <2>3, <2>4 DEF StrictOrder
<1>5. Cardinality(S) = Len(raw)
  <2>1. DOMAIN raw = 1..Len(raw) /\ Len(raw) \in Nat /\ raw \in [1..Len(raw) -> RawWord]
    OBVIOUS
  <2>2. \A i, j \in 1..Len(raw) : i # j => raw[i] # raw[j]
    BY <2>1 DEF DistinctWords
  <2>3. raw \in Bijection(1..Len(raw), S)
    BY <2>1, <2>2 DEF Bijection, Injection, Surjection, IsInjective, ToSet
  <2>4. IsFiniteSet(1..Len(raw)) /\ Cardinality(1..Len(raw)) = Len(raw)
    BY <2>1, FS_Interval, SMT
  <2> HIDE DEF S
  <2>5. ExistsBijection(1..Len(raw), S)
    BY <2>3 DEF ExistsBijection
  <2> QED BY <2>4, <2>5, FS_Bijection
<1>6. reading_order(raw) = InOrder(S, less)
  BY DEF reading_order
<1> HIDE DEF S, less
<1>7. /\ InOrder(S, less) \in Seq(S) /\ Len(InOrder(S, less)) = Cardinality(S)
      /\ ToSet(InOrder(S, less)) = S
  BY <1>1, <1>4, InOrderSorts
<1>8. InOrder(S, less) \in Seq(RawWord)
  <2> DEFINE t == InOrder(S, less)
  <2>1. t \in Seq(S)
    BY <1>7
  <2> HIDE DEF t
  <2>2. t \in Seq(RawWord)
    BY <1>1, <2>1
  <2> QED BY <2>2 DEF t
<1> QED BY <1>5, <1>6, <1>7, <1>8 DEF S

-----------------------------------------------------------------------------
(* The text of a page *)

\* The pieces of the text: a word and what separates it from the next one.
Pieces(raw) == [i \in 1..Len(raw) |-> raw[i].text \o Separator(raw, i)]

(* A piece is a word and its separator, and a separator holds white space alone. *)
LEMMA PiecesType ==
  ASSUME NEW raw \in Seq(RawWord)
  PROVE  /\ Pieces(raw) \in Seq(Text) /\ Len(Pieces(raw)) = Len(raw)
         /\ \A i \in 1..Len(raw) : /\ Pieces(raw)[i] = raw[i].text \o Separator(raw, i)
                                   /\ Separator(raw, i) \in Text /\ raw[i].text \in Text
                                   /\ \A j \in 1..Len(Separator(raw, i)) : Separator(raw, i)[j] \in Space
<1>1. Len(raw) \in Nat /\ \A i \in 1..Len(raw) : raw[i] \in RawWord
  OBVIOUS
<1>2. \A i \in 1..Len(raw) : raw[i].text \in Text
  BY <1>1 DEF RawWord, Text
<1>3. << >> \in Text /\ \A j \in 1..Len(<< >>) : << >>[j] \in Space
  BY DEF Text
<1>7. ASSUME NEW c \in Space PROVE <<c>> \in Text /\ \A j \in 1..Len(<<c>>) : <<c>>[j] \in Space
  <2>1. c \in STRING
    BY StringAssumption
  <2>2. <<c>> \in Text /\ Len(<<c>>) = 1 /\ <<c>>[1] = c
    BY <2>1, OneElement DEF Text
  <2> QED BY <2>2
<1>8. "blank" \in Space /\ "newline" \in Space
  BY DEF Space
<1>4. ASSUME NEW i \in 1..Len(raw)
      PROVE  /\ Separator(raw, i) \in Text
             /\ \A j \in 1..Len(Separator(raw, i)) : Separator(raw, i)[j] \in Space
  <2>1. Separator(raw, i) \in {<< >>, <<"blank">>, <<"newline">>}
    BY DEF Separator
  <2>2. CASE Separator(raw, i) = << >>
    BY <2>2, <1>3
  <2>3. CASE Separator(raw, i) = <<"blank">>
    BY <2>3, <1>7, <1>8
  <2>4. CASE Separator(raw, i) = <<"newline">>
    BY <2>4, <1>7, <1>8
  <2> QED BY <2>1, <2>2, <2>3, <2>4
<1>5. \A i \in 1..Len(raw) : raw[i].text \o Separator(raw, i) \in Text
  <2>1. \A v, w \in Text : v \o w \in Text
    BY DEF Text
  <2> QED BY <2>1, <1>2, <1>4
<1>6. Pieces(raw) \in Seq(Text) /\ Len(Pieces(raw)) = Len(raw)
  BY <1>1, <1>5 DEF Pieces
<1> QED BY <1>2, <1>4, <1>6 DEF Pieces

\* Each word starts where the pieces before it end.
LEMMA OffsetsAreLengths ==
  ASSUME NEW raw \in Seq(RawWord)
  PROVE  \A i \in 1..Len(raw) : /\ offsets(raw)[i] = Len(FlatUpTo(Pieces(raw))[i - 1])
                                /\ offsets(raw)[i] \in Nat
<1> DEFINE n == Len(raw)
           up == FlatUpTo(Pieces(raw))
           step(i) == Len(raw[i].text) + Len(Separator(raw, i))
           Good(f) == f = [i \in 1..n |-> IF i = 1 THEN 0
                             ELSE f[i - 1] + Len(raw[i - 1].text) + Len(Separator(raw, i - 1))]
           at == CHOOSE f : Good(f)
           g == [i \in 1..n |-> Len(up[i - 1])]
<1>1. /\ n \in Nat /\ Len(Pieces(raw)) = n
      /\ \A i \in 1..n : /\ Pieces(raw)[i] = raw[i].text \o Separator(raw, i)
                         /\ Separator(raw, i) \in Text /\ raw[i].text \in Text
  <2>1. n \in Nat
    OBVIOUS
  <2>2. /\ Len(Pieces(raw)) = Len(raw)
        /\ \A i \in 1..Len(raw) : /\ Pieces(raw)[i] = raw[i].text \o Separator(raw, i)
                                  /\ Separator(raw, i) \in Text /\ raw[i].text \in Text
    <3>1. /\ Pieces(raw) \in Seq(Text) /\ Len(Pieces(raw)) = Len(raw)
          /\ \A i \in 1..Len(raw) : /\ Pieces(raw)[i] = raw[i].text \o Separator(raw, i)
                                    /\ Separator(raw, i) \in Text /\ raw[i].text \in Text
                                    /\ \A j \in 1..Len(Separator(raw, i)) : Separator(raw, i)[j] \in Space
      BY PiecesType
    <3> QED BY <3>1
  <2> QED BY <2>1, <2>2
<1>2. /\ up \in [0..n -> Text] /\ up[0] = << >>
      /\ \A i \in 1..n : up[i] = up[i - 1] \o Pieces(raw)[i]
  <2> DEFINE ps == Pieces(raw)
  <2>1. ps \in Seq(Seq(STRING)) /\ Len(ps) = n
    BY PiecesType DEF Text
  <2> HIDE DEF ps
  <2>2. /\ FlatUpTo(ps) \in [0..Len(ps) -> Seq(STRING)]
        /\ FlatUpTo(ps)[0] = << >>
        /\ \A i \in 1..Len(ps) : FlatUpTo(ps)[i] = FlatUpTo(ps)[i - 1] \o ps[i]
    BY <2>1, FlattenDefined
  <2> QED BY <2>1, <2>2 DEF ps, Text
<1>3. \A v, w \in Text : v \o w \in Text /\ Len(v \o w) = Len(v) + Len(w) /\ Len(v) \in Nat
  BY DEF Text
<1> HIDE DEF up, n
<1>4. ASSUME NEW i \in 1..n
      PROVE  Len(up[i]) = Len(up[i - 1]) + Len(raw[i].text) + Len(Separator(raw, i))
  <2>1. up[i - 1] \in Text
    BY <1>1, <1>2
  <2>2. up[i] = up[i - 1] \o (raw[i].text \o Separator(raw, i))
    BY <1>1, <1>2
  <2>3. /\ raw[i].text \o Separator(raw, i) \in Text
        /\ Len(raw[i].text \o Separator(raw, i)) = Len(raw[i].text) + Len(Separator(raw, i))
    BY <1>1, <1>3
  <2>4. Len(up[i]) = Len(up[i - 1]) + Len(raw[i].text \o Separator(raw, i))
    BY <2>1, <2>2, <2>3, <1>3
  <2>5. Len(up[i - 1]) \in Nat /\ Len(raw[i].text) \in Nat /\ Len(Separator(raw, i)) \in Nat
    BY <2>1, <1>1, <1>3
  <2> DEFINE a == Len(up[i - 1])
             b == Len(raw[i].text)
             c == Len(Separator(raw, i))
             d == Len(raw[i].text \o Separator(raw, i))
  <2>6. a \in Nat /\ b \in Nat /\ c \in Nat /\ d = b + c /\ Len(up[i]) = a + d
    BY <2>3, <2>4, <2>5
  <2> HIDE DEF a, b, c, d
  <2>7. Len(up[i]) = a + b + c
    BY <2>6
  <2> QED BY <2>7 DEF a, b, c
<1>5. Good(g)
  <2>1. ASSUME NEW i \in 1..n
        PROVE  g[i] = IF i = 1 THEN 0
                      ELSE g[i - 1] + Len(raw[i - 1].text) + Len(Separator(raw, i - 1))
    <3>1. CASE i = 1
      <4>1. g[i] = Len(up[0]) /\ up[0] = << >>
        BY <3>1, <1>2
      <4> QED BY <4>1, <3>1
    <3>2. CASE i # 1
      <4>1. i - 1 \in 1..n
        BY <3>2, <1>1
      <4> QED BY <4>1, <3>2, <1>4
    <3> QED BY <3>1, <3>2
  <2> HIDE DEF step
  <2> QED BY <2>1
<1>6. Good(at)
  <2> HIDE DEF Good
  <2> QED BY <1>5
<1>7. offsets(raw) = at
  BY DEF offsets, n
<1> HIDE DEF at
<1> DEFINE T == {k \in Nat : k = 0 \/ at[k] = g[k]}
<1>8. 0 \in T
  OBVIOUS
<1>9. ASSUME NEW k \in 0..n - 1, k \in T PROVE k + 1 \in T
  <2>1. k + 1 \in 1..n /\ k + 1 \in Nat /\ (k + 1) - 1 = k
    BY <1>1
  <2>2. at[k + 1] = IF k + 1 = 1 THEN 0
                    ELSE at[(k + 1) - 1] + Len(raw[(k + 1) - 1].text) + Len(Separator(raw, (k + 1) - 1))
    BY <2>1, <1>6
  <2>3. g[k + 1] = IF k + 1 = 1 THEN 0
                   ELSE g[(k + 1) - 1] + Len(raw[(k + 1) - 1].text) + Len(Separator(raw, (k + 1) - 1))
    <3> HIDE DEF g
    <3> QED BY <2>1, <1>5
  <2> HIDE DEF g
  <2>4. CASE k = 0
    BY <2>1, <2>2, <2>3, <2>4
  <2>5. CASE k # 0
    <3>1. at[k] = g[k] /\ k + 1 # 1
      BY <2>5, <1>9
    <3> QED BY <2>1, <2>2, <2>3, <3>1
  <2> QED BY <2>4, <2>5
<1>10. 0..n \subseteq T
  <2> HIDE DEF T
  <2> QED BY <1>1, <1>8, <1>9, IntervalInduction
<1>11. ASSUME NEW i \in 1..n PROVE at[i] = Len(up[i - 1]) /\ at[i] \in Nat
  <2>1. i \in 0..n /\ i # 0
    BY <1>1
  <2>2. at[i] = g[i]
    <3> HIDE DEF g
    <3> QED BY <2>1, <1>10
  <2>3. up[i - 1] \in Text
    BY <1>1, <1>2
  <2> QED BY <2>2, <2>3, <1>3
<1> QED BY <1>7, <1>11 DEF n, up

\* What a page must have of its words: the text of each between its offsets, its
\* box, and nothing but white space elsewhere.
Covers(words, p) == \E i \in 1..Len(words) : p \in words[i].start + 1..words[i].end

Faithful(text, words, raw) ==
  /\ text \in Text /\ words \in Seq(PageWord) /\ Len(words) = Len(raw)
  /\ \A i \in 1..Len(raw) : /\ words[i].bbox = raw[i].bbox
                            /\ Slice(text, words[i].start, words[i].end) = raw[i].text
  /\ \A p \in 1..Len(text) : text[p] \in Space \/ Covers(words, p)

(* What build_text_and_words returns for one page is what IngestIsFaithful asks of that page. *)
LEMMA BuiltIsFaithful ==
  ASSUME NEW raw \in Seq(RawWord)
  PROVE  Faithful(build_text_and_words(raw).text, build_text_and_words(raw).words, raw)
<1> DEFINE n == Len(raw)
           ps == Pieces(raw)
           at(i) == Len(FlatUpTo(ps)[i - 1])
           text == FlattenSeq(ps)
           words == [i \in 1..n |-> [start |-> offsets(raw)[i], bbox |-> raw[i].bbox,
                                     end |-> offsets(raw)[i] + Len(raw[i].text)]]
<1>1. /\ n \in Nat /\ ps \in Seq(Text) /\ Len(ps) = n
      /\ \A i \in 1..n : /\ ps[i] = raw[i].text \o Separator(raw, i)
                         /\ Separator(raw, i) \in Text /\ raw[i].text \in Text
                         /\ \A j \in 1..Len(Separator(raw, i)) : Separator(raw, i)[j] \in Space
  <2>1. n \in Nat
    OBVIOUS
  <2> QED BY <2>1, PiecesType
<1>2. \A i \in 1..n : offsets(raw)[i] = at(i) /\ at(i) \in Nat
  <2>1. \A i \in 1..n : /\ offsets(raw)[i] = Len(FlatUpTo(ps)[i - 1])
                        /\ offsets(raw)[i] \in Nat
    BY OffsetsAreLengths
  <2> QED BY <2>1
<1>3. build_text_and_words(raw).text = text /\ build_text_and_words(raw).words = words
  BY DEF build_text_and_words, Pieces
<1>4. \A i \in 1..n : raw[i].bbox \in Bbox
  <2>1. \A i \in 1..n : raw[i] \in RawWord
    OBVIOUS
  <2> QED BY <2>1 DEF RawWord, Bbox
<1>5. \A v, w \in Text :
        /\ Len(v \o w) = Len(v) + Len(w) /\ Len(v) \in Nat
        /\ \A j \in 1..Len(v) : (v \o w)[j] = v[j]
        /\ \A j \in Len(v) + 1..Len(v) + Len(w) : (v \o w)[j] = w[j - Len(v)]
  BY DEF Text
<1> HIDE DEF n, ps
<1>6. /\ text \in Text
      /\ \A i \in 1..n : \A j \in 1..Len(ps[i]) :
           at(i) + j \in 1..Len(text) /\ text[at(i) + j] = ps[i][j]
      /\ \A p \in 1..Len(text) : \E i \in 1..n : \E j \in 1..Len(ps[i]) : p = at(i) + j
  <2>1. ps \in Seq(Seq(STRING))
    BY <1>1 DEF Text
  <2>2. /\ FlattenSeq(ps) \in Seq(STRING)
        /\ \A i \in 1..Len(ps) : \A j \in 1..Len(ps[i]) :
             /\ Len(FlatUpTo(ps)[i - 1]) + j \in 1..Len(FlattenSeq(ps))
             /\ FlattenSeq(ps)[Len(FlatUpTo(ps)[i - 1]) + j] = ps[i][j]
        /\ \A p \in 1..Len(FlattenSeq(ps)) : \E i \in 1..Len(ps) : \E j \in 1..Len(ps[i]) :
             p = Len(FlatUpTo(ps)[i - 1]) + j
    BY <2>1, FlattenLayout
  <2> QED BY <2>2, <1>1 DEF Text
<1> HIDE DEF text, at
<1>7. ASSUME NEW i \in 1..n
      PROVE  /\ words[i].start = at(i) /\ words[i].end = at(i) + Len(raw[i].text)
             /\ words[i].bbox = raw[i].bbox /\ words[i] \in PageWord
  <2>1. words[i] = [start |-> at(i), bbox |-> raw[i].bbox, end |-> at(i) + Len(raw[i].text)]
    BY <1>2
  <2>2. at(i) \in Nat /\ Len(raw[i].text) \in Nat
    BY <1>1, <1>2, <1>5
  <2> HIDE DEF words
  <2> QED BY <2>1, <2>2, <1>4 DEF PageWord
<1>8. words \in Seq(PageWord) /\ Len(words) = n
  <2>1. words = [i \in 1..n |-> words[i]]
    OBVIOUS
  <2> HIDE DEF words
  <2>2. words \in [1..n -> PageWord]
    BY <2>1, <1>7
  <2> QED BY <2>2, <1>1
<1> HIDE DEF words
<1>9. ASSUME NEW i \in 1..n PROVE Slice(text, words[i].start, words[i].end) = raw[i].text
  <2> DEFINE t == raw[i].text
  <2>1. t \in Text /\ at(i) \in Nat /\ ps[i] = t \o Separator(raw, i) /\ Separator(raw, i) \in Text
    BY <1>1, <1>2
  <2>2. ASSUME NEW j \in 1..Len(t) PROVE text[at(i) + j] = t[j]
    <3>1. j \in 1..Len(ps[i]) /\ ps[i][j] = t[j]
      BY <2>1, <1>5
    <3> QED BY <3>1, <1>6
  <2> DEFINE k == at(i)
  <2>4. t \in Seq(STRING) /\ k \in Nat /\ \A j \in 1..Len(t) : text[k + j] = t[j]
    BY <2>1, <2>2 DEF Text
  <2> HIDE DEF t, k
  <2>3. SubSeq(text, k + 1, k + Len(t)) = t
    BY <2>4, CutOut
  <2>5. words[i].start = k /\ words[i].end = k + Len(t)
    BY <1>7 DEF k, t
  <2> QED BY <2>3, <2>5 DEF Slice, t
<1>10. ASSUME NEW p \in 1..Len(text) PROVE text[p] \in Space \/ Covers(words, p)
  <2>1. PICK i \in 1..n : \E j \in 1..Len(ps[i]) : p = at(i) + j
    BY <1>6
  <2>2. PICK j \in 1..Len(ps[i]) : p = at(i) + j
    BY <2>1
  <2> DEFINE v == raw[i].text
             w == Separator(raw, i)
  <2>3. /\ v \in Text /\ w \in Text /\ ps[i] = v \o w /\ at(i) \in Nat
        /\ \A k \in 1..Len(w) : w[k] \in Space
    BY <1>1, <1>2
  <2>4. text[p] = ps[i][j]
    BY <2>2, <1>6
  <2> HIDE DEF v, w
  <2>5. CASE j \in 1..Len(v)
    <3>1. p \in words[i].start + 1..words[i].end
      BY <2>2, <2>3, <2>5, <1>5, <1>7, Z3 DEF v
    <3>2. i \in 1..Len(words)
      BY <1>8
    <3> QED BY <3>1, <3>2 DEF Covers
  <2>6. CASE j \notin 1..Len(v)
    <3>1. /\ Len(ps[i]) = Len(v) + Len(w) /\ Len(v) \in Nat /\ Len(w) \in Nat
          /\ \A k \in Len(v) + 1..Len(v) + Len(w) : (v \o w)[k] = w[k - Len(v)]
      BY <2>3, <1>5
    <3>2. j \in Len(v) + 1..Len(v) + Len(w) /\ j - Len(v) \in 1..Len(w)
      BY <3>1, <2>6
    <3>3. ps[i][j] = w[j - Len(v)]
      BY <3>1, <3>2, <2>3
    <3> QED BY <3>2, <3>3, <2>3, <2>4
  <2> QED BY <2>5, <2>6
<1> QED BY <1>3, <1>6, <1>7, <1>8, <1>9, <1>10 DEF Faithful, n

-----------------------------------------------------------------------------
(* The greatest and the least of some numbers *)

LEMMA MaxOfSome ==
  ASSUME NEW n \in Nat, NEW S \in SUBSET (0..n), S # {}
  PROVE  Max(S) \in S /\ \A y \in S : y <= Max(S)
<1> DEFINE T == {n - x : x \in S}
<1>1. T \in SUBSET Nat /\ T # {}
  <2>1. \A x \in S : n - x \in Nat /\ n - x \in T
    <3>1. \A x \in S : x \in 0..n
      OBVIOUS
    <3> QED BY <3>1
  <2>2. T \subseteq Nat
    BY <2>1
  <2> QED BY <2>1, <2>2
<1>2. PICK m \in T : \A k \in T : m <= k
  <2> HIDE DEF T
  <2> QED BY <1>1, LeastElement
<1>3. PICK x \in S : m = n - x
  BY <1>2
<1>4. \A y \in S : x >= y
  <2> SUFFICES ASSUME NEW y \in S PROVE x >= y
    OBVIOUS
  <2>1. n - y \in T
    OBVIOUS
  <2>2. m <= n - y
    <3> HIDE DEF T
    <3> QED BY <2>1, <1>2
  <2>3. x \in 0..n /\ y \in 0..n
    OBVIOUS
  <2> QED BY <2>2, <2>3, <1>3
<1>5. Max(S) \in S /\ \A y \in S : Max(S) >= y
  BY <1>4 DEF Max
<1>6. \A y \in S : y \in Int
  OBVIOUS
<1> QED BY <1>5, <1>6

(* The least of some numbers is one of them. *)
LEMMA MinOfSome ==
  ASSUME NEW S \in SUBSET Nat, S # {}
  PROVE  Min(S) \in S /\ \A y \in S : Min(S) <= y
<1>1. PICK m \in S : \A k \in S : m <= k
  BY LeastElement
<1> QED BY <1>1 DEF Min

-----------------------------------------------------------------------------
(* The trail of a batch *)

SpanRow ==
  [page_number : Nat \ {0}, bboxes : Seq(Bbox), text : Text, category : STRING,
   source_tier : {"tier_1", "tier_2", "manual"}]

Decision == {"none", "approved", "rejected"}

TrailEntry ==
  [action : {"approved", "rejected", "edited", "manual_span_added", "apply_started",
             "verify_passed", "verify_failed", "exported"},
   span : Nat \cup {none},
   category : SUBSET (STRING \cup {"job_lifecycle", "pass", "fail", "text_layer", "ocr", "metadata"}),
   text_hash : Text \cup {none}]

NoEntry(trail, i) == \A k \in 1..Len(trail) : trail[k].span # i

LastEntry(trail, i, k) ==
  trail[k].span = i /\ \A m \in 1..Len(trail) : trail[m].span = i => m <= k

\* What the trail must tell of row i.
Told(s, i) ==
  /\ NoEntry(s.entries, i) => s.disposition[i] = "none"
  /\ \A k \in 1..Len(s.entries) : LastEntry(s.entries, i, k) =>
       /\ s.entries[k].text_hash = normalize_text(s.spans[i].text)
       /\ s.disposition[i] = IF s.entries[k].action = "rejected" THEN "rejected" ELSE "approved"

\* The rows and the trail, as a batch finds and leaves them.
Review ==
  {s \in [spans : Seq(SpanRow), disposition : Seq(Decision), entries : Seq(TrailEntry),
          error : {"none", "SpanNotFoundError"}] :
     /\ Len(s.disposition) = Len(s.spans)
     /\ \A k \in 1..Len(s.entries) : s.entries[k].span \in (1..Len(s.spans)) \cup {none}
     /\ \A i \in 1..Len(s.spans) : Told(s, i)}

(* An entry appended to the trail is the last one of its own span and leaves every other span
   with the one it had. *)
LEMMA AppendedEntry ==
  ASSUME NEW trail \in Seq(TrailEntry), NEW e \in TrailEntry, NEW i
  PROVE  LET longer == Append(trail, e) IN
         /\ longer \in Seq(TrailEntry) /\ Len(longer) = Len(trail) + 1 /\ Len(trail) \in Nat
         /\ \A k \in 1..Len(trail) : longer[k] = trail[k]
         /\ longer[Len(trail) + 1] = e
         /\ e.span # i => /\ NoEntry(longer, i) <=> NoEntry(trail, i)
                          /\ \A k \in 1..Len(longer) :
                               LastEntry(longer, i, k) => k \in 1..Len(trail) /\ LastEntry(trail, i, k)
         /\ e.span = i => /\ ~ NoEntry(longer, i)
                          /\ \A k \in 1..Len(longer) : LastEntry(longer, i, k) => k = Len(trail) + 1
<1> DEFINE longer == Append(trail, e)
           n == Len(trail)
<1>1. /\ longer \in Seq(TrailEntry) /\ Len(longer) = n + 1 /\ n \in Nat
      /\ \A k \in 1..n : longer[k] = trail[k]
      /\ longer[n + 1] = e
  OBVIOUS
<1> HIDE DEF longer, n
<1>2. n + 1 \in 1..Len(longer) /\ \A k \in 1..Len(longer) : k \in 1..n \/ k = n + 1
  BY <1>1
<1>3. \A k \in 1..n : k \in 1..Len(longer) /\ ~ (n + 1 <= k)
  BY <1>1
<1>4. ASSUME e.span # i
      PROVE  /\ NoEntry(longer, i) <=> \A k \in 1..n : trail[k].span # i
             /\ \A k \in 1..Len(longer) : LastEntry(longer, i, k) =>
                  k \in 1..n /\ trail[k].span = i /\ \A m \in 1..n : trail[m].span = i => m <= k
  BY <1>1, <1>2, <1>3, <1>4 DEF NoEntry, LastEntry
<1>5. ASSUME e.span = i
      PROVE  /\ ~ NoEntry(longer, i)
             /\ \A k \in 1..Len(longer) : LastEntry(longer, i, k) => k = n + 1
  BY <1>1, <1>2, <1>3, <1>5 DEF NoEntry, LastEntry
<1> QED BY <1>1, <1>4, <1>5 DEF longer, n, NoEntry, LastEntry

(* Normalizing a text gives a text. *)
LEMMA NormalizedType ==
  ASSUME NEW text \in Text
  PROVE  normalize_text(text) \in Text
<1> DEFINE t == [i \in 1..Len(text) |-> IF text[i] \in Space THEN "blank" ELSE casefold(text[i])]
<1>1. Len(text) \in Nat /\ \A i \in 1..Len(text) : text[i] \in STRING
  BY DEF Text
<1>6. ASSUME NEW c PROVE casefold(c) \in {"a", "b", c}
  BY DEF casefold
<1>2. "blank" \in STRING /\ "a" \in STRING /\ "b" \in STRING
  BY StringAssumption DEF Space, Lower
<1>3. \A i \in 1..Len(text) : casefold(text[i]) \in STRING
  <2> SUFFICES ASSUME NEW i \in 1..Len(text) PROVE casefold(text[i]) \in STRING
    OBVIOUS
  <2>1. casefold(text[i]) \in {"a", "b", text[i]}
    BY <1>6
  <2>2. text[i] \in STRING
    BY <1>1
  <2> QED BY <2>1, <2>2, <1>2
<1>4. t \in Seq(STRING)
  <2>1. \A i \in 1..Len(text) : t[i] \in STRING
    BY <1>2, <1>3
  <2>2. t = [i \in 1..Len(text) |-> t[i]]
    OBVIOUS
  <2> HIDE DEF t
  <2>3. t \in [1..Len(text) -> STRING]
    BY <2>1, <2>2
  <2> QED BY <2>3, <1>1
<1> HIDE DEF t
<1>5. \A P : Picked(t, P) \in Seq(STRING)
  BY <1>4, PickedElements
<1> QED BY <1>5 DEF normalize_text, Text, t

(* The entries of the routes are entries of the trail, and keep the hash of the normalized
   text. *)
LEMMA AuditEntryType ==
  ASSUME NEW action \in {"approved", "rejected", "edited", "manual_span_added"}, NEW span \in Nat,
         NEW text \in Text, NEW category \in STRING
  PROVE  LET e == audit_entry(action, span, text, {category}) IN
         /\ e \in TrailEntry /\ e.span = span /\ e.action = action
         /\ e.text_hash = normalize_text(text)
<1>1. span # none
  BY ContentAssumption
<1>2. normalize_text(text) \in Text
  BY NormalizedType
<1> QED BY <1>1, <1>2 DEF audit_entry, TrailEntry

\* A row, its mark and the trail, written in one.
Written(s, j, row, mark, trail) ==
  [s EXCEPT !.spans[j] = row, !.disposition[j] = mark, !.entries = trail]

(* Written, field by field. *)
LEMMA WrittenIs ==
  ASSUME NEW a, NEW b, NEW c, NEW d, NEW j, NEW row, NEW mark, NEW trail, NEW s,
         s = [spans |-> a, disposition |-> b, entries |-> c, error |-> d]
  PROVE  Written(s, j, row, mark, trail)
           = [spans |-> [a EXCEPT ![j] = row], disposition |-> [b EXCEPT ![j] = mark],
              entries |-> trail, error |-> d]
<1> DEFINE s1 == [s EXCEPT !.spans[j] = row]
           s2 == [s1 EXCEPT !.disposition[j] = mark]
           s3 == [s2 EXCEPT !.entries = trail]
<1>1. s1 = [spans |-> [a EXCEPT ![j] = row], disposition |-> b, entries |-> c, error |-> d]
  OBVIOUS
<1>2. s2 = [spans |-> [a EXCEPT ![j] = row], disposition |-> [b EXCEPT ![j] = mark], entries |-> c, error |-> d]
  <2> HIDE DEF s1
  <2> QED BY <1>1
<1>3. s3 = [spans |-> [a EXCEPT ![j] = row], disposition |-> [b EXCEPT ![j] = mark], entries |-> trail, error |-> d]
  <2> HIDE DEF s2
  <2> QED BY <1>2
<1> QED BY <1>3 DEF Written

\* One item on a span that is there.
LEMMA ExistingKeepsReview ==
  ASSUME NEW s \in Review, NEW item, s.error = "none", item.span \in 1..Len(s.spans),
         item.verb \in {"approve", "reject", "edit"},
         item.verb = "edit" => item.text \in Text /\ item.bboxes \in {none} \cup Seq(Bbox)
  PROVE  apply_existing_span_disposition(s, item) \in Review
<1> DEFINE j == item.span
           span == s.spans[j]
           desired == DISPOSITION_ACTION_BY_VERB(item.verb)
           row == IF item.verb # "edit" THEN span
                  ELSE [span EXCEPT !.text = item.text,
                                    !.bboxes = IF item.bboxes = none THEN @ ELSE item.bboxes]
           e == audit_entry(AUDIT_ACTION_BY_VERB[item.verb], j, row.text, {row.category})
           trail == s.entries
           longer == Append(trail, e)
           rows == [s.spans EXCEPT ![j] = row]
           marks == [s.disposition EXCEPT ![j] = desired]
           changed == [spans |-> rows, disposition |-> marks, entries |-> longer, error |-> s.error]
           n == Len(s.spans)
<1>1. /\ s = [spans |-> s.spans, disposition |-> s.disposition, entries |-> s.entries, error |-> s.error]
      /\ s.spans \in Seq(SpanRow) /\ s.disposition \in Seq(Decision) /\ trail \in Seq(TrailEntry)
      /\ Len(s.disposition) = n /\ n \in Nat
      /\ \A k \in 1..Len(trail) : trail[k].span \in (1..n) \cup {none}
      /\ \A i \in 1..n : Told(s, i)
  BY DEF Review
<1>2. apply_existing_span_disposition(s, item) \in {s, changed}
  <2>1. Written(s, j, row, desired, longer) = changed
    <3> DEFINE a == s.spans
               b == s.disposition
               c == s.entries
               d == s.error
    <3>1. s = [spans |-> a, disposition |-> b, entries |-> c, error |-> d]
      BY <1>1
    <3> HIDE DEF row, desired, e, longer, j, a, b, c, d
    <3>2. Written(s, j, row, desired, longer)
            = [spans |-> [a EXCEPT ![j] = row], disposition |-> [b EXCEPT ![j] = desired],
               entries |-> longer, error |-> d]
      BY <3>1, WrittenIs, Z3
    <3> QED BY <3>2 DEF a, b, d
  <2> QED BY <2>1 DEF Written, apply_existing_span_disposition, Audited
<1>3. span \in SpanRow /\ j \in 1..n
  BY <1>1
<1>4. row \in SpanRow
  <2> HIDE DEF span
  <2>1. CASE item.verb # "edit"
    BY <2>1, <1>3
  <2>2. CASE item.verb = "edit" /\ item.bboxes = none
    BY <2>2, <1>3 DEF SpanRow
  <2>3. CASE item.verb = "edit" /\ item.bboxes # none
    BY <2>3, <1>3 DEF SpanRow
  <2> QED BY <2>1, <2>2, <2>3
<1>5. desired \in {"approved", "rejected"} /\ (desired = "rejected" <=> item.verb = "reject")
  BY DEF DISPOSITION_ACTION_BY_VERB
<1>6. /\ e \in TrailEntry /\ e.span = j /\ e.text_hash = normalize_text(row.text)
      /\ e.action = "rejected" <=> desired = "rejected"
  <2> DEFINE action == AUDIT_ACTION_BY_VERB[item.verb]
  <2>1. /\ action \in {"approved", "rejected", "edited", "manual_span_added"}
        /\ action = "rejected" <=> item.verb = "reject"
    BY DEF AUDIT_ACTION_BY_VERB
  <2>2. row.text \in Text /\ row.category \in STRING /\ j \in Nat
    <3> HIDE DEF row
    <3> QED BY <1>1, <1>3, <1>4 DEF SpanRow
  <2> HIDE DEF action, row, j
  <2>3. LET f == audit_entry(action, j, row.text, {row.category}) IN
         /\ f \in TrailEntry /\ f.span = j /\ f.action = action
         /\ f.text_hash = normalize_text(row.text)
    BY <2>1, <2>2, AuditEntryType
  <2> QED BY <2>1, <2>3, <1>5 DEF action
<1> HIDE DEF e, row, desired, span, trail, n
<1>7. /\ rows \in Seq(SpanRow) /\ Len(rows) = n /\ rows[j] = row
      /\ \A i \in 1..n : i # j => rows[i] = s.spans[i]
      /\ marks \in Seq(Decision) /\ Len(marks) = n /\ marks[j] = desired
      /\ \A i \in 1..n : i # j => marks[i] = s.disposition[i]
  <2>1. j \in 1..Len(s.spans) /\ j \in 1..Len(s.disposition)
    BY <1>1, <1>3 DEF n
  <2>2. desired \in Decision
    BY <1>5 DEF Decision
  <2> HIDE DEF j
  <2>3. /\ rows \in Seq(SpanRow) /\ Len(rows) = Len(s.spans)
        /\ \A i \in 1..Len(s.spans) : rows[i] = IF i = j THEN row ELSE s.spans[i]
    BY <2>1, <1>1, <1>4, ExceptSeq
  <2>4. /\ marks \in Seq(Decision) /\ Len(marks) = Len(s.disposition)
        /\ \A i \in 1..Len(s.disposition) : marks[i] = IF i = j THEN desired ELSE s.disposition[i]
    BY <2>1, <2>2, <1>1, ExceptSeq
  <2> HIDE DEF rows, marks
  <2> QED BY <2>1, <2>3, <2>4, <1>1 DEF n
<1> HIDE DEF rows, marks, j
<1>8. /\ longer \in Seq(TrailEntry) /\ Len(longer) = Len(trail) + 1 /\ Len(trail) \in Nat
      /\ \A k \in 1..Len(trail) : longer[k] = trail[k]
      /\ longer[Len(trail) + 1] = e
  BY <1>1, <1>6, AppendedEntry
<1>9. ASSUME NEW i \in 1..n PROVE Told(changed, i)
  <2>1. CASE i = j
    <3>1. ~ NoEntry(longer, i) /\ \A k \in 1..Len(longer) : LastEntry(longer, i, k) => k = Len(trail) + 1
      BY <2>1, <1>1, <1>6, AppendedEntry
    <3> HIDE DEF longer
    <3>2. e.text_hash = normalize_text(rows[i].text)
      BY <2>1, <1>6, <1>7
    <3>3. marks[i] = IF e.action = "rejected" THEN "rejected" ELSE "approved"
      BY <2>1, <1>5, <1>6, <1>7
    <3> QED BY <3>1, <3>2, <3>3, <1>8 DEF Told
  <2>2. CASE i # j
    <3>1. /\ NoEntry(longer, i) <=> NoEntry(trail, i)
          /\ \A k \in 1..Len(longer) :
                LastEntry(longer, i, k) => k \in 1..Len(trail) /\ LastEntry(trail, i, k)
      BY <2>2, <1>1, <1>6, AppendedEntry
    <3> HIDE DEF longer
    <3>2. rows[i] = s.spans[i] /\ marks[i] = s.disposition[i]
      BY <2>2, <1>7
    <3>3. Told(s, i)
      BY <1>1
    <3> QED BY <3>1, <3>2, <3>3, <1>8 DEF Told, trail
  <2> QED BY <2>1, <2>2
<1> HIDE DEF longer
<1>10. \A k \in 1..Len(longer) : longer[k].span \in (1..n) \cup {none}
  <2>1. \A k \in 1..Len(longer) : k \in 1..Len(trail) \/ k = Len(trail) + 1
    BY <1>8
  <2> QED BY <2>1, <1>1, <1>3, <1>6, <1>8
<1>11. changed \in Review
  <2>1. s.error \in {"none", "SpanNotFoundError"}
    BY DEF Review
  <2>2. /\ changed \in [spans : Seq(SpanRow), disposition : Seq(Decision), entries : Seq(TrailEntry),
                        error : {"none", "SpanNotFoundError"}]
        /\ changed.spans = rows /\ changed.disposition = marks /\ changed.entries = longer
    BY <2>1, <1>7, <1>8
  <2> HIDE DEF changed
  <2> QED BY <2>2, <1>7, <1>9, <1>10 DEF Review
<1> QED BY <1>2, <1>11

Replaced(s, rows, marks, trail) ==
  [s EXCEPT !.spans = rows, !.disposition = marks, !.entries = trail]

(* Replaced, field by field. *)
LEMMA ReplacedIs ==
  ASSUME NEW a, NEW b, NEW c, NEW d, NEW rows, NEW marks, NEW trail, NEW s,
         s = [spans |-> a, disposition |-> b, entries |-> c, error |-> d]
  PROVE  Replaced(s, rows, marks, trail)
           = [spans |-> rows, disposition |-> marks, entries |-> trail, error |-> d]
<1> DEFINE s1 == [s EXCEPT !.spans = rows]
           s2 == [s1 EXCEPT !.disposition = marks]
           s3 == [s2 EXCEPT !.entries = trail]
<1>1. s1 = [spans |-> rows, disposition |-> b, entries |-> c, error |-> d]
  OBVIOUS
<1>2. s2 = [spans |-> rows, disposition |-> marks, entries |-> c, error |-> d]
  <2> HIDE DEF s1
  <2> QED BY <1>1
<1>3. s3 = [spans |-> rows, disposition |-> marks, entries |-> trail, error |-> d]
  <2> HIDE DEF s2
  <2> QED BY <1>2
<1> QED BY <1>3 DEF Replaced

\* A span of the reviewer's own.
LEMMA ManualKeepsReview ==
  ASSUME NEW s \in Review, NEW item, s.error = "none", item.verb = "add_manual_span",
         item.text \in Text, item.bboxes \in Seq(Bbox), item.page_number \in Nat \ {0},
         item.category \in STRING
  PROVE  add_manual_span(s, item) \in Review
<1> DEFINE row == [page_number |-> item.page_number, bboxes |-> item.bboxes, text |-> item.text,
                   category |-> item.category, source_tier |-> "manual"]
           n == Len(s.spans)
           e == audit_entry(AUDIT_ACTION_BY_VERB[item.verb], n + 1, row.text, {row.category})
           trail == s.entries
           longer == Append(trail, e)
           rows == Append(s.spans, row)
           marks == Append(s.disposition, "approved")
           changed == [spans |-> rows, disposition |-> marks, entries |-> longer, error |-> s.error]
<1>1. /\ s = [spans |-> s.spans, disposition |-> s.disposition, entries |-> s.entries, error |-> s.error]
      /\ s.spans \in Seq(SpanRow) /\ s.disposition \in Seq(Decision) /\ trail \in Seq(TrailEntry)
      /\ Len(s.disposition) = n /\ n \in Nat
      /\ \A k \in 1..Len(trail) : trail[k].span \in (1..n) \cup {none}
      /\ \A i \in 1..n : Told(s, i)
  BY DEF Review
<1>2. add_manual_span(s, item) = changed
  <2> DEFINE a == s.spans
             b == s.disposition
             c == s.entries
             d == s.error
  <2>1. s = [spans |-> a, disposition |-> b, entries |-> c, error |-> d]
    BY <1>1
  <2> HIDE DEF row, a, b, c, d, e
  <2>2. Replaced(s, rows, marks, longer)
          = [spans |-> rows, disposition |-> marks, entries |-> longer, error |-> d]
    <3> HIDE DEF rows, marks, longer
    <3> QED BY <2>1, ReplacedIs
  <2> QED BY <2>2 DEF Replaced, add_manual_span, Audited, row, a, b, c, d, e
<1>3. row \in SpanRow
  BY DEF SpanRow
<1>4. e \in TrailEntry /\ e.span = n + 1 /\ e.text_hash = normalize_text(row.text) /\ e.action # "rejected"
  <2> DEFINE action == AUDIT_ACTION_BY_VERB[item.verb]
  <2>1. action = "manual_span_added"
    BY DEF AUDIT_ACTION_BY_VERB
  <2>2. row.text \in Text /\ row.category \in STRING /\ n + 1 \in Nat
    BY <1>1
  <2> HIDE DEF action, row, n
  <2>3. LET f == audit_entry(action, n + 1, row.text, {row.category}) IN
         /\ f \in TrailEntry /\ f.span = n + 1 /\ f.action = action
         /\ f.text_hash = normalize_text(row.text)
    BY <2>1, <2>2, AuditEntryType
  <2> QED BY <2>1, <2>3 DEF action
<1> HIDE DEF e, row, trail, n
<1>5. /\ rows \in Seq(SpanRow) /\ Len(rows) = n + 1 /\ rows[n + 1] = row
      /\ \A i \in 1..n : rows[i] = s.spans[i]
      /\ marks \in Seq(Decision) /\ Len(marks) = n + 1 /\ marks[n + 1] = "approved"
      /\ \A i \in 1..n : marks[i] = s.disposition[i]
  <2>1. "approved" \in Decision
    BY DEF Decision
  <2>2. /\ rows \in Seq(SpanRow) /\ Len(rows) = n + 1 /\ rows[n + 1] = row
        /\ \A i \in 1..n : rows[i] = s.spans[i]
    BY <1>1, <1>3 DEF n
  <2>3. /\ marks \in Seq(Decision) /\ Len(marks) = n + 1 /\ marks[n + 1] = "approved"
        /\ \A i \in 1..n : marks[i] = s.disposition[i]
    BY <1>1, <2>1
  <2> QED BY <2>2, <2>3
<1> HIDE DEF rows, marks
<1>6. /\ longer \in Seq(TrailEntry) /\ Len(longer) = Len(trail) + 1 /\ Len(trail) \in Nat
      /\ \A k \in 1..Len(trail) : longer[k] = trail[k]
      /\ longer[Len(trail) + 1] = e
  BY <1>1, <1>4, AppendedEntry
<1>7. n + 1 \notin 1..n /\ n + 1 # none
  BY <1>1, ContentAssumption
<1>8. ASSUME NEW i \in 1..n + 1 PROVE Told(changed, i)
  <2>1. CASE i = n + 1
    <3>1. ~ NoEntry(longer, i) /\ \A k \in 1..Len(longer) : LastEntry(longer, i, k) => k = Len(trail) + 1
      <4>1. e.span = i /\ trail \in Seq(TrailEntry) /\ e \in TrailEntry
        BY <2>1, <1>1, <1>4
      <4> QED BY <4>1, AppendedEntry
    <3> HIDE DEF longer
    <3>2. e.text_hash = normalize_text(rows[i].text) /\ marks[i] = "approved"
      BY <2>1, <1>4, <1>5
    <3> QED BY <3>1, <3>2, <1>4, <1>6 DEF Told
  <2>2. CASE i # n + 1
    <3>1. /\ NoEntry(longer, i) <=> NoEntry(trail, i)
          /\ \A k \in 1..Len(longer) :
                LastEntry(longer, i, k) => k \in 1..Len(trail) /\ LastEntry(trail, i, k)
      BY <2>2, <1>1, <1>4, AppendedEntry
    <3> HIDE DEF longer
    <3>2. i \in 1..n
      BY <2>2, <1>1
    <3>3. Told(s, i) /\ rows[i] = s.spans[i] /\ marks[i] = s.disposition[i]
      BY <3>2, <1>1, <1>5
    <3> QED BY <3>1, <3>3, <1>6 DEF Told, trail
  <2> QED BY <2>1, <2>2
<1> HIDE DEF longer
<1>9. \A k \in 1..Len(longer) : longer[k].span \in (1..n + 1) \cup {none}
  <2>1. \A k \in 1..Len(longer) : k \in 1..Len(trail) \/ k = Len(trail) + 1
    BY <1>6
  <2>2. n + 1 \in 1..n + 1 /\ \A x \in 1..n : x \in 1..n + 1
    BY <1>1
  <2> QED BY <2>1, <2>2, <1>1, <1>4, <1>6
<1>10. changed \in Review
  <2>1. s.error \in {"none", "SpanNotFoundError"}
    BY DEF Review
  <2>2. /\ changed \in [spans : Seq(SpanRow), disposition : Seq(Decision), entries : Seq(TrailEntry),
                        error : {"none", "SpanNotFoundError"}]
        /\ changed.spans = rows /\ changed.disposition = marks /\ changed.entries = longer
    BY <2>1, <1>5, <1>6
  <2> HIDE DEF changed
  <2> QED BY <2>2, <1>5, <1>8, <1>9 DEF Review
<1> QED BY <1>2, <1>10

\* What the schema lets into a batch.
ValidItem(item) ==
  /\ item.verb \in {"approve", "reject", "edit", "add_manual_span"}
  /\ item.verb = "edit" => item.text \in Text /\ item.bboxes \in {none} \cup Seq(Bbox)
  /\ item.verb = "add_manual_span" =>
       /\ item.text \in Text /\ item.bboxes \in Seq(Bbox)
       /\ item.page_number \in Nat \ {0} /\ item.category \in STRING

(* Every item a client can send is one the lemmas below speak of. *)
LEMMA ItemIsValid ==
  ASSUME NEW item \in Item
  PROVE  ValidItem(item)
<1>1. CASE item \in [verb : {"approve", "reject"}, span : DOMAIN spans \cup {0},
                     text : {none}, bboxes : {none}, page_number : {none}, category : {none}]
  BY <1>1 DEF ValidItem
<1>2. CASE item \in {[verb |-> "edit", span |-> i, text |-> e.text, bboxes |-> e.bboxes,
                      page_number |-> none, category |-> none] : i \in DOMAIN spans, e \in Edit}
  <2>1. PICK i \in DOMAIN spans, e \in Edit :
          item = [verb |-> "edit", span |-> i, text |-> e.text, bboxes |-> e.bboxes,
                  page_number |-> none, category |-> none]
    BY <1>2
  <2>2. e.text \in Text /\ e.bboxes \in {none} \cup Seq(Bbox)
    BY ContentAssumption DEF Text, Bbox
  <2> QED BY <2>1, <2>2 DEF ValidItem
<1>3. CASE item \in {[verb |-> "add_manual_span", span |-> none, text |-> m.text, bboxes |-> m.bboxes,
                      page_number |-> m.page_number, category |-> m.category] : m \in ManualSpan}
  <2>1. PICK m \in ManualSpan :
          item = [verb |-> "add_manual_span", span |-> none, text |-> m.text, bboxes |-> m.bboxes,
                  page_number |-> m.page_number, category |-> m.category]
    BY <1>3
  <2>2. m.text \in Text /\ m.bboxes \in Seq(Bbox) /\ m.page_number \in Nat \ {0} /\ m.category \in STRING
    BY ContentAssumption DEF Text, Bbox
  <2> QED BY <2>1, <2>2 DEF ValidItem
<1> QED BY <1>1, <1>2, <1>3 DEF Item

(* One item of a batch keeps the rows and the trail in agreement, whatever it asks. *)
LEMMA ItemKeepsReview ==
  ASSUME NEW s \in Review, NEW item, ValidItem(item)
  PROVE  apply_item(s, item) \in Review
<1>1. CASE s.error # "none"
  BY <1>1 DEF apply_item
<1>2. CASE s.error = "none" /\ item.verb = "add_manual_span"
  BY <1>2, ManualKeepsReview DEF apply_item, ValidItem
<1>3. CASE s.error = "none" /\ item.verb # "add_manual_span" /\ item.span \notin DOMAIN s.spans
  <2> DEFINE a == s.spans
             b == s.disposition
             c == s.entries
             r == [s EXCEPT !.error = "SpanNotFoundError"]
  <2>1. /\ s = [spans |-> a, disposition |-> b, entries |-> c, error |-> s.error]
        /\ a \in Seq(SpanRow) /\ b \in Seq(Decision) /\ c \in Seq(TrailEntry)
    BY DEF Review
  <2>2. r = [spans |-> a, disposition |-> b, entries |-> c, error |-> "SpanNotFoundError"]
    <3> HIDE DEF a, b, c
    <3> QED BY <2>1
  <2>3. apply_item(s, item) = r
    BY <1>3 DEF apply_item
  <2> HIDE DEF r
  <2>4. /\ r \in [spans : Seq(SpanRow), disposition : Seq(Decision), entries : Seq(TrailEntry),
                  error : {"none", "SpanNotFoundError"}]
        /\ r.spans = s.spans /\ r.disposition = s.disposition /\ r.entries = s.entries
    BY <2>1, <2>2
  <2> HIDE DEF a, b, c
  <2>5. \A i : Told(r, i) <=> Told(s, i)
    BY <2>4 DEF Told
  <2> QED BY <2>3, <2>4, <2>5 DEF Review
<1>4. CASE s.error = "none" /\ item.verb # "add_manual_span" /\ item.span \in DOMAIN s.spans
  <2>1. s.spans \in Seq(SpanRow)
    BY DEF Review
  <2>2. item.span \in 1..Len(s.spans)
    BY <2>1, <1>4
  <2>3. item.verb \in {"approve", "reject", "edit"}
    BY <1>4 DEF ValidItem
  <2>4. apply_existing_span_disposition(s, item) \in Review
    BY <2>2, <2>3, <1>4, ExistingKeepsReview DEF ValidItem
  <2> QED BY <2>4, <1>4 DEF apply_item
<1> QED BY <1>1, <1>2, <1>3, <1>4

\* A batch keeps what its items keep, and one that is refused changes nothing.
LEMMA BatchKeepsReview ==
  ASSUME NEW s \in Review, s.error = "none", NEW n \in Nat, NEW batch,
         Len(batch) = n, \A k \in 1..n : ValidItem(batch[k])
  PROVE  LET r == apply_disposition_batch(s, batch) IN
         /\ r \in Review
         /\ r.error # "none" => /\ r.spans = s.spans /\ r.disposition = s.disposition
                                /\ r.entries = s.entries
<1> DEFINE step == [p \in Review \X (1..n) |-> apply_item(p[1], batch[p[2]])]
           Good(f) == f = [k \in 0..n |-> IF k = 0 THEN s ELSE apply_item(f[k - 1], batch[k])]
           it == Iterated(n, s, step)
           done == CHOOSE f : Good(f)
<1>1. \A t \in Review : \A k \in 1..n : apply_item(t, batch[k]) \in Review
  BY ItemKeepsReview
<1>2. step \in Steps(n, Review)
  BY <1>1 DEF Steps
<1>3. /\ it \in [0..n -> Review] /\ it[0] = s
      /\ \A k \in 1..n : it[k] = step[<<it[k - 1], k>>]
  <2> HIDE DEF step
  <2> QED BY <1>2, Recursion
<1> HIDE DEF it
<1>4. ASSUME NEW k \in 1..n PROVE it[k] = apply_item(it[k - 1], batch[k])
  <2>1. it[k - 1] \in Review
    BY <1>3
  <2>2. <<it[k - 1], k>> \in Review \X (1..n)
    BY <2>1
  <2> QED BY <2>2, <1>3
<1> HIDE DEF step
<1>5. Good(it)
  <2>1. ASSUME NEW k \in 0..n
        PROVE  it[k] = IF k = 0 THEN s ELSE apply_item(it[k - 1], batch[k])
    <3>1. CASE k = 0
      BY <3>1, <1>3
    <3>2. CASE k \in 1..n
      BY <3>2, <1>4
    <3> QED BY <3>1, <3>2
  <2> QED BY <2>1, <1>3
<1>6. Good(done)
  <2> HIDE DEF Good
  <2> QED BY <1>5
<1>7. apply_disposition_batch(s, batch)
        = IF done[n].error = "none" THEN done[n] ELSE [s EXCEPT !.error = done[n].error]
  BY DEF apply_disposition_batch
<1> HIDE DEF done
<1> DEFINE T == {k \in Nat : done[k] \in Review}
<1>8. 0 \in T
  BY <1>6
<1>9. ASSUME NEW k \in 0..n - 1, k \in T PROVE k + 1 \in T
  <2>1. k + 1 \in 1..n /\ k + 1 \in 0..n /\ k + 1 # 0 /\ (k + 1) - 1 = k /\ done[k] \in Review
    BY <1>9
  <2>2. done[k + 1] = apply_item(done[k], batch[k + 1])
    BY <2>1, <1>6
  <2> QED BY <2>1, <2>2, <1>1
<1>10. 0..n \subseteq T
  <2> HIDE DEF T
  <2> QED BY <1>8, <1>9, IntervalInduction
<1>11. done[n] \in Review
  <2>1. n \in 0..n
    OBVIOUS
  <2> QED BY <2>1, <1>10
<1> DEFINE d == done[n]
           r == [s EXCEPT !.error = d.error]
<1>12. d \in Review
  BY <1>11
<1> HIDE DEF d
<1>13. r \in Review /\ r.spans = s.spans /\ r.disposition = s.disposition /\ r.entries = s.entries
  <2>1. d.error \in {"none", "SpanNotFoundError"}
    BY <1>12 DEF Review
  <2>2. s \in [spans : Seq(SpanRow), disposition : Seq(Decision), entries : Seq(TrailEntry),
               error : {"none", "SpanNotFoundError"}]
    BY DEF Review
  <2>3. /\ r \in [spans : Seq(SpanRow), disposition : Seq(Decision), entries : Seq(TrailEntry),
                  error : {"none", "SpanNotFoundError"}]
        /\ r.spans = s.spans /\ r.disposition = s.disposition /\ r.entries = s.entries
    BY <2>1, <2>2
  <2> HIDE DEF r
  <2>4. \A i : Told(r, i) <=> Told(s, i)
    BY <2>3 DEF Told
  <2> QED BY <2>3, <2>4 DEF Review
<1> HIDE DEF r
<1>14. apply_disposition_batch(s, batch) = IF d.error = "none" THEN d ELSE r
  BY <1>7 DEF d, r
<1> QED BY <1>12, <1>13, <1>14

-----------------------------------------------------------------------------
(* Detection *)

\* What a detector may find on a page.
Found(page) ==
  [page_number : {page.page_number}, start : Nat, end : 0..Len(page.text), bboxes : Seq(Bbox),
   text : Text, category : STRING, source_tier : {"tier_1", "tier_2"}, confidence : Int]

(* The boxes of a span are boxes. *)
LEMMA BoxesType ==
  ASSUME NEW page \in PageModel, NEW start, NEW end
  PROVE  resolve_span_bboxes(page, start, end) \in Seq(Bbox)
<1> DEFINE P == {i \in DOMAIN page.words : /\ page.words[i].start < end
                                          /\ start < page.words[i].end}
           touched == Picked(page.words, P)
<1>1. page.words \in Seq(PageWord)
  BY DEF PageModel
<1>2. touched \in Seq(PageWord)
  <2> HIDE DEF P
  <2> QED BY <1>1, PickedElements
<1>3. resolve_span_bboxes(page, start, end) = [i \in 1..Len(touched) |-> touched[i].bbox]
  BY DEF resolve_span_bboxes
<1> HIDE DEF touched
<1>4. Len(touched) \in Nat /\ \A i \in 1..Len(touched) : touched[i] \in PageWord
  BY <1>2
<1>5. \A i \in 1..Len(touched) : touched[i].bbox \in Bbox
  BY <1>4 DEF PageWord
<1> QED BY <1>3, <1>4, <1>5

(* A slice of a text is a text. *)
LEMMA SliceType ==
  ASSUME NEW text \in Text, NEW start \in Nat, NEW end \in 0..Len(text)
  PROVE  Slice(text, start, end) \in Text
<1>1. Len(text) \in Nat /\ \A i \in 1..Len(text) : text[i] \in STRING
  BY DEF Text
<1>2. \A i \in (start + 1)..end : text[i] \in STRING
  BY <1>1
<1>3. start + 1 \in Int /\ end \in Int
  BY <1>1
<1>4. SubSeq(text, start + 1, end) \in Seq(STRING)
  BY <1>2, <1>3, SubSeqProperties
<1> QED BY <1>4 DEF Slice, Text

(* A candidate built from a match inside the page text is a span. *)
LEMMA CandidateType ==
  ASSUME NEW page \in PageModel, NEW match, match.start \in Nat, match.end \in 0..Len(page.text),
         NEW category \in STRING, NEW tier \in {"tier_1", "tier_2"}, NEW confidence \in Int
  PROVE  candidate(page, match, category, tier, confidence) \in Found(page)
<1>1. page.text \in Text
  BY DEF PageModel
<1>2. Slice(page.text, match.start, match.end) \in Text
  BY <1>1, SliceType
<1>3. resolve_span_bboxes(page, match.start, match.end) \in Seq(Bbox)
  BY BoxesType
<1> QED BY <1>2, <1>3 DEF candidate, Found

\* Matches of a pattern in a page of so many characters.
Matches(length) ==
  {ms \in SUBSET [start : 0..length, end : 0..length] :
     \A m1, m2 \in ms : m1.start = m2.start => m1 = m2}

(* detect_matches gives one candidate for each match and no other. *)
LEMMA DetectMatchesFinds ==
  ASSUME NEW page \in PageModel, NEW ms \in Matches(Len(page.text)), NEW category \in STRING,
         NEW confidence \in Int
  PROVE  /\ detect_matches(page, ms, category, confidence) \in Seq(Found(page))
         /\ ToSet(detect_matches(page, ms, category, confidence))
              = {candidate(page, m, category, "tier_1", confidence) : m \in ms}
         /\ \A i, j \in 1..Len(detect_matches(page, ms, category, confidence)) :
              i # j => detect_matches(page, ms, category, confidence)[i].start
                         # detect_matches(page, ms, category, confidence)[j].start
<1> DEFINE n == Len(page.text)
           less == {p \in ms \X ms : p[1].start < p[2].start}
           ordered == InOrder(ms, less)
           found == [i \in 1..Len(ordered) |-> candidate(page, ordered[i], category, "tier_1", confidence)]
           starts == [m \in ms |-> m.start]
<1>1. n \in Nat
  BY DEF PageModel, Text
<1>2. \A m \in ms : m.start \in 0..n /\ m.end \in 0..n
  BY DEF Matches
<1>3. \A m1, m2 \in ms : m1.start = m2.start => m1 = m2
  BY DEF Matches
<1> HIDE DEF n
<1>4. IsFiniteSet(ms)
  <2>1. starts \in Injection(ms, 0..n)
    BY <1>2, <1>3 DEF Injection, IsInjective
  <2>2. IsFiniteSet(0..n)
    BY <1>1, FS_Interval
  <2> HIDE DEF starts
  <2> QED BY <2>1, <2>2, FS_Injection
<1>5. StrictOrder(ms, less)
  <2>1. \A m1, m2 \in ms : <<m1, m2>> \in less <=> m1.start < m2.start
    OBVIOUS
  <2>2. \A m \in ms : m.start \in Int
    BY <1>1, <1>2
  <2> HIDE DEF less
  <2> QED BY <2>1, <2>2, <1>3 DEF StrictOrder
<1>6. detect_matches(page, ms, category, confidence) = found
  BY DEF detect_matches
<1>7. \A m1, m2 \in ms : <<m1, m2>> \in less => m1.start # m2.start
  BY <1>1, <1>2
<1> HIDE DEF less
<1>8. /\ ordered \in Seq(ms) /\ Len(ordered) = Cardinality(ms) /\ ToSet(ordered) = ms
      /\ \A i, j \in 1..Cardinality(ms) : i < j => <<ordered[i], ordered[j]>> \in less
  BY <1>4, <1>5, InOrderSorts
<1> HIDE DEF ordered
<1>9. Len(ordered) \in Nat /\ DOMAIN ordered = 1..Len(ordered) /\ \A i \in 1..Len(ordered) : ordered[i] \in ms
  BY <1>8
<1>10. \A i \in 1..Len(ordered) : found[i] \in Found(page) /\ found[i].start = ordered[i].start
  <2> SUFFICES ASSUME NEW i \in 1..Len(ordered)
               PROVE found[i] \in Found(page) /\ found[i].start = ordered[i].start
    OBVIOUS
  <2> DEFINE m == ordered[i]
  <2>1. m.start \in Nat /\ m.end \in 0..Len(page.text)
    BY <1>2, <1>9 DEF n
  <2>2. found[i] = candidate(page, m, category, "tier_1", confidence)
    OBVIOUS
  <2> HIDE DEF m, found
  <2>3. found[i] \in Found(page)
    BY <2>1, <2>2, CandidateType
  <2>4. found[i].start = m.start
    BY <2>2 DEF candidate
  <2> QED BY <2>3, <2>4 DEF m
<1>11. /\ found \in Seq(Found(page)) /\ Len(found) = Len(ordered)
       /\ DOMAIN found = 1..Len(ordered)
  <2>1. found = [i \in 1..Len(ordered) |-> found[i]]
    OBVIOUS
  <2> HIDE DEF found
  <2>2. found \in [1..Len(ordered) -> Found(page)]
    BY <2>1, <1>10
  <2> QED BY <2>2, <1>9
<1>12. ToSet(found) = {candidate(page, m, category, "tier_1", confidence) : m \in ms}
  <2>1. ToSet(found) = {candidate(page, ordered[i], category, "tier_1", confidence) : i \in 1..Len(ordered)}
    <3>1. \A i \in 1..Len(ordered) :
             found[i] = candidate(page, ordered[i], category, "tier_1", confidence)
      OBVIOUS
    <3> HIDE DEF found
    <3> QED BY <3>1, <1>11 DEF ToSet
  <2>2. ms = {ordered[i] : i \in 1..Len(ordered)}
    BY <1>8, <1>9 DEF ToSet
  <2> HIDE DEF found
  <2> QED BY <2>1, <2>2
<1>13. ASSUME NEW i \in 1..Len(found), NEW j \in 1..Len(found), i # j
       PROVE  found[i].start # found[j].start
  <2>1. i \in 1..Cardinality(ms) /\ j \in 1..Cardinality(ms) /\ (i < j \/ j < i)
    BY <1>8, <1>9, <1>11, <1>13
  <2>2. <<ordered[i], ordered[j]>> \in less \/ <<ordered[j], ordered[i]>> \in less
    BY <2>1, <1>8
  <2>3. ordered[i] \in ms /\ ordered[j] \in ms
    BY <1>9, <1>11
  <2>4. ordered[i].start # ordered[j].start
    BY <2>2, <2>3, <1>7
  <2> HIDE DEF found
  <2> QED BY <2>4, <1>10, <1>11
<1> HIDE DEF found
<1> QED BY <1>6, <1>11, <1>12, <1>13

(* A match of one character lies inside the text. *)
LEMMA SingleMatches ==
  ASSUME NEW text \in Text, NEW class
  PROVE  /\ Single(text, class) \in Matches(Len(text))
         /\ \A m \in Single(text, class) : m.start \in Nat /\ m.end = m.start + 1 /\ m.end \in 1..Len(text)
<1>1. Len(text) \in Nat
  BY DEF Text
<1>2. \A m \in Single(text, class) : \E i \in 1..Len(text) : m = [start |-> i - 1, end |-> i]
  BY DEF Single
<1>3. \A m \in Single(text, class) :
        m \in [start : 0..Len(text), end : 0..Len(text)] /\ m.end = m.start + 1 /\ m.end \in 1..Len(text)
  <2> SUFFICES ASSUME NEW m \in Single(text, class)
               PROVE m \in [start : 0..Len(text), end : 0..Len(text)] /\ m.end = m.start + 1
                       /\ m.end \in 1..Len(text)
    OBVIOUS
  <2>1. PICK i \in 1..Len(text) : m = [start |-> i - 1, end |-> i]
    BY <1>2
  <2>2. i - 1 \in 0..Len(text) /\ i \in 0..Len(text) /\ i = (i - 1) + 1
    BY <1>1
  <2> QED BY <2>1, <2>2
<1>4. \A m1, m2 \in Single(text, class) : m1.start = m2.start => m1 = m2
  <2> SUFFICES ASSUME NEW m1 \in Single(text, class), NEW m2 \in Single(text, class),
                      m1.start = m2.start
               PROVE  m1 = m2
    OBVIOUS
  <2>1. PICK i \in 1..Len(text) : m1 = [start |-> i - 1, end |-> i]
    BY <1>2
  <2>2. PICK j \in 1..Len(text) : m2 = [start |-> j - 1, end |-> j]
    BY <1>2
  <2>3. i - 1 = j - 1
    BY <2>1, <2>2
  <2>4. i = j
    BY <2>3, <1>1
  <2> QED BY <2>1, <2>2, <2>4
<1>5. \A m \in Single(text, class) : m.start \in Nat
  BY <1>1, <1>3
<1> QED BY <1>3, <1>4, <1>5 DEF Matches

(* A run of characters lies inside the text. *)
LEMMA RunsMatches ==
  ASSUME NEW text \in Text, NEW class, NEW border, class \subseteq border, NEW lengths \in SUBSET Nat
  PROVE  Runs(text, class, border, lengths) \in Matches(Len(text))
<1> DEFINE R == Runs(text, class, border, lengths)
<1>1. Len(text) \in Nat
  BY DEF Text
<1>2. \A m \in R :
        /\ m \in [start : 0..Len(text), end : 0..Len(text)]
        /\ m.end - m.start \in lengths
        /\ \A i \in m.start + 1..m.end : text[i] \in class
        /\ m.end < Len(text) => text[m.end + 1] \notin border
  BY DEF Runs
<1> HIDE DEF R
<1>3. ASSUME NEW m1 \in R, NEW m2 \in R, m1.start = m2.start, m1.end < m2.end
      PROVE  FALSE
  <2>1. /\ m1.start \in 0..Len(text) /\ m1.end \in 0..Len(text) /\ m2.end \in 0..Len(text)
        /\ m1.end - m1.start \in Nat
    BY <1>2
  <2>2. m1.end + 1 \in m2.start + 1..m2.end /\ m1.end < Len(text)
    BY <2>1, <1>1, <1>3
  <2> QED BY <2>2, <1>2
<1>4. ASSUME NEW m1 \in R, NEW m2 \in R, m1.start = m2.start PROVE m1 = m2
  <2>1. m1.end \in Int /\ m2.end \in Int
    BY <1>1, <1>2
  <2>2. ~ (m1.end < m2.end) /\ ~ (m2.end < m1.end)
    BY <1>3, <1>4
  <2>3. m1.end = m2.end
    BY <2>1, <2>2
  <2>4. /\ m1 \in [start : 0..Len(text), end : 0..Len(text)]
        /\ m2 \in [start : 0..Len(text), end : 0..Len(text)]
    BY <1>2
  <2>5. m1 = [start |-> m1.start, end |-> m1.end] /\ m2 = [start |-> m2.start, end |-> m2.end]
    BY <2>4
  <2> QED BY <2>3, <2>5, <1>4
<1> QED BY <1>2, <1>4 DEF Matches, R

\* The numbers with a checksum that is right.
AccountNumber == {digits \in Seq(Digit) : luhn_check(digits)}

\* The spans of a tier have the boxes of their range; an account number has its checksum.
TierFound(page, tier) ==
  {c \in Found(page) :
     /\ c.source_tier = tier
     /\ c.bboxes = resolve_span_bboxes(page, c.start, c.end)
     /\ tier = "tier_1" /\ c.category = "account_number" => c.text \in AccountNumber}

\* What is matched as an account number is one.
LEMMA AccountsMatch ==
  ASSUME NEW page \in PageModel, NEW m \in Runs(page.text, Digit, Digit, AccountLength),
         luhn_check(Matched(page, m))
  PROVE  Matched(page, m) \in AccountNumber
<1> DEFINE text == page.text
<1>1. Len(text) \in Nat
  BY DEF PageModel, Text
<1>2. /\ m.start \in 0..Len(text) /\ m.end \in 0..Len(text)
      /\ \A i \in m.start + 1..m.end : text[i] \in Digit
  BY DEF Runs
<1>3. text \in Text
  BY DEF PageModel
<1>4. Matched(page, m) = SubSeq(text, m.start + 1, m.end)
  BY DEF Matched, Slice
<1>5. \A i \in (m.start + 1)..m.end : text[i] \in Digit
  BY <1>1, <1>2
<1>6. m.start + 1 \in Int /\ m.end \in Int
  BY <1>1, <1>2
<1> HIDE DEF text
<1>7. SubSeq(text, m.start + 1, m.end) \in Seq(Digit)
  BY <1>5, <1>6, SubSeqProperties
<1> QED BY <1>4, <1>7 DEF AccountNumber

\* What a detector of the first tier finds.
LEMMA MatchesAreFound ==
  ASSUME NEW page \in PageModel, NEW ms \in Matches(Len(page.text)), NEW category \in STRING,
         NEW confidence \in Int,
         category = "account_number" => \A m \in ms : Matched(page, m) \in AccountNumber
  PROVE  detect_matches(page, ms, category, confidence) \in Seq(TierFound(page, "tier_1"))
<1> DEFINE found == detect_matches(page, ms, category, confidence)
<1>1. /\ found \in Seq(Found(page))
      /\ ToSet(found) = {candidate(page, m, category, "tier_1", confidence) : m \in ms}
  BY DetectMatchesFinds
<1> HIDE DEF found
<1>2. Len(found) \in Nat /\ DOMAIN found = 1..Len(found) /\ \A i \in 1..Len(found) : found[i] \in Found(page)
  BY <1>1
<1>3. ASSUME NEW i \in 1..Len(found) PROVE found[i] \in TierFound(page, "tier_1")
  <2>1. found[i] \in ToSet(found)
    BY <1>2 DEF ToSet
  <2>2. PICK m \in ms : found[i] = candidate(page, m, category, "tier_1", confidence)
    BY <1>1, <2>1
  <2>3. /\ found[i].source_tier = "tier_1" /\ found[i].category = category
        /\ found[i].bboxes = resolve_span_bboxes(page, found[i].start, found[i].end)
        /\ found[i].text = Matched(page, m)
    BY <2>2 DEF candidate, Matched
  <2> QED BY <1>2, <2>3 DEF TierFound
<1>4. found \in Seq(TierFound(page, "tier_1"))
  <2>1. found \in [1..Len(found) -> TierFound(page, "tier_1")]
    BY <1>1, <1>3
  <2> QED BY <2>1, <1>2
<1> QED BY <1>4 DEF found

\* The detectors of the first tier and the categories they report.
LEMMA Tier1Types ==
  ASSUME NEW page \in PageModel
  PROVE  tier1_spans(page) \in Seq(TierFound(page, "tier_1"))
<1> DEFINE text == page.text
           n == Len(text)
           S == Seq(TierFound(page, "tier_1"))
<1>1. text \in Text
  BY DEF PageModel
<1>2. \A c \in Tier1Category : c \in STRING
  BY StringAssumption
<1>3. \A ms \in Matches(n) : \A T : ms \cap T \in Matches(n)
  BY DEF Matches
<1>4. ASSUME NEW class, NEW T, NEW category \in Tier1Category \ {"account_number"}, NEW confidence \in Int
      PROVE  detect_matches(page, Single(text, class) \cap T, category, confidence) \in S
  <2> DEFINE ms == Single(text, class) \cap T
  <2>1. ms \in Matches(Len(page.text))
    BY <1>1, <1>3, SingleMatches
  <2>2. category \in STRING /\ category # "account_number"
    BY <1>2
  <2> HIDE DEF ms
  <2>3. detect_matches(page, ms, category, confidence) \in Seq(TierFound(page, "tier_1"))
    BY <2>1, <2>2, MatchesAreFound
  <2> QED BY <2>3 DEF ms
<1>5. ASSUME NEW class, NEW border, class \subseteq border, NEW lengths \in SUBSET Nat, NEW T,
             NEW category \in Tier1Category, NEW confidence \in Int,
             category = "account_number" =>
               \A m \in Runs(text, class, border, lengths) \cap T : Matched(page, m) \in AccountNumber
      PROVE  detect_matches(page, Runs(text, class, border, lengths) \cap T, category, confidence) \in S
  <2> DEFINE ms == Runs(text, class, border, lengths) \cap T
  <2>1. ms \in Matches(Len(page.text))
    BY <1>1, <1>3, <1>5, RunsMatches
  <2>2. category \in STRING
    BY <1>2
  <2>3. category = "account_number" => \A m \in ms : Matched(page, m) \in AccountNumber
    BY <1>5
  <2> HIDE DEF ms
  <2>4. detect_matches(page, ms, category, confidence) \in Seq(TierFound(page, "tier_1"))
    BY <2>1, <2>2, <2>3, MatchesAreFound
  <2> QED BY <2>4 DEF ms
<1> DEFINE Other == Tier1Category \ {"account_number"}
<1>6. /\ "ssn" \in Other /\ "phone" \in Other /\ "email" \in Other
      /\ "license_plate" \in Other /\ "dob" \in Other /\ "account_number" \in Tier1Category
  BY DEF Tier1Category
<1>7. 100 \in Int /\ 90 \in Int
  OBVIOUS
<1> HIDE DEF S
<1>8. detect_ssn(page) \in S
  <2> DEFINE Valid(m) == LET parts == SSN[Matched(page, m)[1]]
                         IN is_valid_ssn(parts[1], parts[2], parts[3])
             all == Single(text, DOMAIN SSN)
             T == {m \in all : Valid(m)}
  <2>1. T = all \cap T
    OBVIOUS
  <2>2. detect_ssn(page) = detect_matches(page, T, "ssn", 100)
    BY DEF detect_ssn
  <2> HIDE DEF Valid, T
  <2>3. detect_matches(page, all \cap T, "ssn", 100) \in S
    BY <1>4, <1>6, <1>7
  <2> QED BY <2>1, <2>2, <2>3
<1>9. detect_phone(page) \in S
  <2> DEFINE all == Single(text, Phone)
  <2>1. all = all \cap all
    OBVIOUS
  <2>2. detect_phone(page) = detect_matches(page, all, "phone", 90)
    BY DEF detect_phone
  <2>3. detect_matches(page, all \cap all, "phone", 90) \in S
    BY <1>4, <1>6, <1>7
  <2> QED BY <2>1, <2>2, <2>3
<1>10. detect_email(page) \in S
  <2> DEFINE all == Single(text, Email)
             T == {m \in all : is_valid_email(Matched(page, m))}
  <2>1. T = all \cap T
    OBVIOUS
  <2>2. detect_email(page) = detect_matches(page, T, "email", 90)
    BY DEF detect_email
  <2> HIDE DEF T
  <2>3. detect_matches(page, all \cap T, "email", 90) \in S
    BY <1>4, <1>6, <1>7
  <2> QED BY <2>1, <2>2, <2>3
<1>11. detect_account_number(page) \in S
  <2> DEFINE all == Runs(text, Digit, Digit, AccountLength)
             T == {m \in all : luhn_check(Matched(page, m))}
  <2>1. T = all \cap T
    OBVIOUS
  <2>2. detect_account_number(page) = detect_matches(page, T, "account_number", 100)
    BY DEF detect_account_number
  <2>3. \A m \in all \cap T : Matched(page, m) \in AccountNumber
    BY AccountsMatch
  <2> HIDE DEF T
  <2>4. detect_matches(page, all \cap T, "account_number", 100) \in S
    BY <2>3, <1>5, <1>6, <1>7, ContentAssumption
  <2> QED BY <2>1, <2>2, <2>4
<1>12. detect_license_plate(page) \in S
  <2> DEFINE class == Upper \cup Digit
             border == Upper \cup Lower \cup Digit
             all == Runs(text, class, border, PlateLength)
             T == {m \in all : is_plate_shaped(Matched(page, m))}
  <2>1. T = all \cap T
    OBVIOUS
  <2>2. detect_license_plate(page) = detect_matches(page, T, "license_plate", 90)
    BY DEF detect_license_plate
  <2>3. class \subseteq border
    OBVIOUS
  <2> HIDE DEF T, class, border
  <2>4. detect_matches(page, all \cap T, "license_plate", 90) \in S
    BY <2>3, <1>5, <1>6, <1>7, ContentAssumption
  <2> QED BY <2>1, <2>2, <2>4
<1>13. detect_dob(page) \in S
  <2> DEFINE all == Single(text, Date)
             T == {m \in all : has_dob_anchor(page.text, m.start)}
  <2>1. T = all \cap T
    OBVIOUS
  <2>2. detect_dob(page) = detect_matches(page, T, "dob", 90)
    BY DEF detect_dob
  <2> HIDE DEF T
  <2>3. detect_matches(page, all \cap T, "dob", 90) \in S
    BY <1>4, <1>6, <1>7
  <2> QED BY <2>1, <2>2, <2>3
<1>14. \A v, w \in S : v \o w \in S
  BY DEF S
<1>15. tier1_spans(page) \in S
  BY <1>8, <1>9, <1>10, <1>11, <1>12, <1>13, <1>14 DEF tier1_spans
<1> QED BY <1>15 DEF S

NerResult == [start : Nat, end : Nat, entity_type : STRING, score : Int]

(* The entities a NER result names become spans of tier 2. *)
LEMMA Tier2Types ==
  ASSUME NEW page \in PageModel, NEW results \in Seq(NerResult), Fits(page, results)
  PROVE  page_spans(page, results) \in Seq(TierFound(page, "tier_2"))
<1> DEFINE P == {i \in DOMAIN results :
                 /\ results[i].score >= TIER2_MIN_CONFIDENCE
                 /\ results[i].entity_type \in DOMAIN PRESIDIO_ENTITY_TO_CATEGORY}
           kept == Picked(results, P)
           found == [i \in 1..Len(kept) |-> to_candidate(page, kept[i])]
<1>1. /\ kept \in Seq(NerResult) /\ ToSet(kept) = {results[i] : i \in P \cap (1..Len(results))}
  <2> HIDE DEF P
  <2> QED BY PickedElements
<1>2. page_spans(page, results) = found
  BY DEF page_spans
<1>3. \A i \in P \cap (1..Len(results)) :
        /\ results[i] \in NerResult /\ results[i].end <= Len(page.text)
        /\ results[i].entity_type \in DOMAIN PRESIDIO_ENTITY_TO_CATEGORY
  BY DEF Fits, ToSet
<1> HIDE DEF P
<1>4. \A r \in ToSet(kept) :
        /\ r \in NerResult /\ r.end <= Len(page.text)
        /\ r.entity_type \in DOMAIN PRESIDIO_ENTITY_TO_CATEGORY
  BY <1>1, <1>3
<1> HIDE DEF kept
<1>5. Len(kept) \in Nat /\ \A i \in 1..Len(kept) : kept[i] \in ToSet(kept)
  BY <1>1 DEF ToSet
<1>6. \A x \in DOMAIN PRESIDIO_ENTITY_TO_CATEGORY : PRESIDIO_ENTITY_TO_CATEGORY[x] \in STRING
  <2>1. \A x \in DOMAIN PRESIDIO_ENTITY_TO_CATEGORY :
           PRESIDIO_ENTITY_TO_CATEGORY[x] \in {"name", "organization", "location", "phone", "email", "ssn"}
    BY DEF PRESIDIO_ENTITY_TO_CATEGORY
  <2>2. {"name", "organization", "location", "phone", "email", "ssn"} \subseteq STRING
    BY StringAssumption DEF Tier1Category
  <2> QED BY <2>1, <2>2
<1>7. ASSUME NEW i \in 1..Len(kept) PROVE found[i] \in TierFound(page, "tier_2")
  <2> DEFINE r == kept[i]
             category == PRESIDIO_ENTITY_TO_CATEGORY[r.entity_type]
  <2>1. /\ r \in NerResult /\ r.end <= Len(page.text) /\ category \in STRING
    BY <1>4, <1>5, <1>6
  <2>2. /\ r.start \in Nat /\ r.end \in 0..Len(page.text) /\ r.score \in Int
    <3>1. Len(page.text) \in Nat
      BY DEF PageModel, Text
    <3> QED BY <2>1, <3>1 DEF NerResult
  <2>3. found[i] = candidate(page, r, category, "tier_2", r.score)
    BY DEF to_candidate
  <2> HIDE DEF r, category, found
  <2>4. found[i] \in Found(page)
    BY <2>1, <2>2, <2>3, CandidateType
  <2>5. /\ found[i].source_tier = "tier_2"
        /\ found[i].bboxes = resolve_span_bboxes(page, found[i].start, found[i].end)
    BY <2>3 DEF candidate
  <2> QED BY <2>4, <2>5 DEF TierFound
<1>8. found \in Seq(TierFound(page, "tier_2"))
  <2>1. found = [i \in 1..Len(kept) |-> found[i]]
    OBVIOUS
  <2> HIDE DEF found
  <2>2. found \in [1..Len(kept) -> TierFound(page, "tier_2")]
    BY <2>1, <1>7
  <2> QED BY <2>2, <1>5
<1> QED BY <1>2, <1>8

\* A group of spans gives one over all of them.
LEMMA MergedType ==
  ASSUME NEW page \in PageModel, NEW group \in SUBSET Found(page), NEW primary \in group
  PROVE  LET start == Min({s.start : s \in group})
             end   == Max({s.end : s \in group})
             merged == merge_group(page, group, primary)
         IN /\ merged \in Found(page)
            /\ merged.start = start /\ merged.end = end /\ merged.category = primary.category
            /\ primary.bboxes = resolve_span_bboxes(page, primary.start, primary.end)
                 => merged.bboxes = resolve_span_bboxes(page, start, end)
            /\ \A s \in group : start <= s.start /\ s.end <= end
            /\ start \in Nat /\ end \in 0..Len(page.text)
<1> DEFINE starts == {s.start : s \in group}
           ends == {s.end : s \in group}
           start == Min(starts)
           end == Max(ends)
           n == Len(page.text)
           merged == merge_group(page, group, primary)
<1>1. page.text \in Text /\ n \in Nat
  BY DEF PageModel, Text
<1>2. /\ starts \subseteq Nat /\ primary.start \in starts
      /\ ends \subseteq 0..n /\ primary.end \in ends
      /\ \A s \in group : s.start \in starts /\ s.end \in ends
  BY DEF Found
<1> HIDE DEF starts, ends, n
<1>3. start \in starts /\ \A x \in starts : start <= x
  BY <1>2, MinOfSome
<1>4. end \in ends /\ \A x \in ends : x <= end
  BY <1>1, <1>2, MaxOfSome
<1> HIDE DEF start, end
<1>5. start \in Nat /\ end \in 0..n
  BY <1>2, <1>3, <1>4
<1>6. Slice(page.text, start, end) \in Text /\ resolve_span_bboxes(page, start, end) \in Seq(Bbox)
  BY <1>1, <1>5, SliceType, BoxesType DEF n
<1>7. merged = IF start = primary.start /\ end = primary.end THEN primary
               ELSE [primary EXCEPT !.start = start, !.end = end,
                                    !.text = Slice(page.text, start, end),
                                    !.bboxes = resolve_span_bboxes(page, start, end)]
  BY DEF merge_group, start, end, starts, ends
<1> HIDE DEF merged
<1>8. primary \in Found(page)
  OBVIOUS
<1>9. /\ merged \in Found(page)
      /\ merged.start = start /\ merged.end = end /\ merged.category = primary.category
      /\ primary.bboxes = resolve_span_bboxes(page, primary.start, primary.end)
           => merged.bboxes = resolve_span_bboxes(page, start, end)
  <2>1. CASE start = primary.start /\ end = primary.end
    BY <2>1, <1>7, <1>8
  <2>2. CASE ~ (start = primary.start /\ end = primary.end)
    <3> DEFINE t == Slice(page.text, start, end)
               b == resolve_span_bboxes(page, start, end)
               p1 == [primary EXCEPT !.start = start]
               p2 == [p1 EXCEPT !.end = end]
               p3 == [p2 EXCEPT !.text = t]
               p4 == [p3 EXCEPT !.bboxes = b]
    <3>1. merged = p4
      BY <2>2, <1>7
    <3>2. t \in Text /\ b \in Seq(Bbox)
      BY <1>6
    <3> HIDE DEF t, b
    <3>3. p1 \in Found(page) /\ p1.start = start /\ p1.category = primary.category
      BY <1>5, <1>8 DEF Found
    <3> HIDE DEF p1
    <3>4. p2 \in Found(page) /\ p2.start = start /\ p2.end = end /\ p2.category = primary.category
      BY <3>3, <1>5 DEF Found, n
    <3> HIDE DEF p2
    <3>5. p3 \in Found(page) /\ p3.start = start /\ p3.end = end /\ p3.category = primary.category
      BY <3>2, <3>4 DEF Found
    <3> HIDE DEF p3
    <3>6. /\ p4 \in Found(page) /\ p4.start = start /\ p4.end = end /\ p4.category = primary.category
          /\ p4.bboxes = b
      BY <3>2, <3>5 DEF Found
    <3> HIDE DEF p4
    <3> QED BY <3>1, <3>6 DEF b
  <2> QED BY <2>1, <2>2
<1>10. \A s \in group : start <= s.start /\ s.end <= end
  BY <1>2, <1>3, <1>4
<1> QED BY <1>5, <1>9, <1>10 DEF starts, ends, start, end, n, merged

(* Deduplication makes spans out of spans. *)
LEMMA DedupeTypes ==
  ASSUME NEW page \in PageModel, NEW t1 \in Seq(Found(page)), NEW t2 \in Seq(Found(page))
  PROVE  dedupe_tier2_against_tier1(page, t1, t2) \in Seq(Found(page))
<1> DEFINE n1 == Len(t1)
           n2 == Len(t2)
           root == group_overlapping_spans(t1, t2)
           Node(i) == IF i <= n1 THEN t1[i] ELSE t2[i - n1]
           Group(i) == {Node(j) : j \in {k \in DOMAIN root : root[k] = root[i]}}
           survivors == [i \in 1..n1 |-> merge_group(page, Group(i), t1[i])]
           P == {i \in 1..n1 : \A j \in 1..i - 1 : root[j] # root[i]}
           Q == {j \in 1..n2 : \A i \in 1..n1 : root[i] # root[n1 + j]}
<1>1. dedupe_tier2_against_tier1(page, t1, t2) = Picked(survivors, P) \o Picked(t2, Q)
  BY DEF dedupe_tier2_against_tier1
<1>2. /\ n1 \in Nat /\ n2 \in Nat
      /\ \A i \in 1..n1 : t1[i] \in Found(page)
      /\ \A i \in 1..n2 : t2[i] \in Found(page)
  OBVIOUS
<1> HIDE DEF n1, n2
<1>3. DOMAIN root = 1..(n1 + n2)
  BY DEF group_overlapping_spans, n1, n2
<1> HIDE DEF root
<1>4. \A i \in 1..(n1 + n2) : Node(i) \in Found(page)
  <2> SUFFICES ASSUME NEW i \in 1..(n1 + n2) PROVE Node(i) \in Found(page)
    OBVIOUS
  <2>1. CASE i <= n1
    BY <2>1, <1>2
  <2>2. CASE ~ (i <= n1)
    <3>1. i - n1 \in 1..n2
      BY <2>2, <1>2
    <3> QED BY <2>2, <3>1, <1>2
  <2> QED BY <2>1, <2>2
<1>5. \A i \in 1..n1 : i \in 1..(n1 + n2) /\ Node(i) = t1[i]
  BY <1>2
<1> HIDE DEF Node
<1>6. ASSUME NEW i \in 1..n1 PROVE survivors[i] \in Found(page)
  <2>1. Group(i) \in SUBSET Found(page)
    BY <1>3, <1>4
  <2>2. t1[i] \in Group(i)
    BY <1>3, <1>5
  <2> DEFINE group == Group(i)
             primary == t1[i]
  <2>3. survivors[i] = merge_group(page, group, primary)
    OBVIOUS
  <2>4. group \in SUBSET Found(page) /\ primary \in group
    BY <2>1, <2>2
  <2> HIDE DEF group, primary, survivors
  <2>5. merge_group(page, group, primary) \in Found(page)
    BY <2>4, MergedType
  <2> QED BY <2>3, <2>5
<1>7. survivors \in Seq(Found(page))
  <2>1. survivors = [i \in 1..n1 |-> survivors[i]]
    OBVIOUS
  <2> HIDE DEF survivors
  <2>2. survivors \in [1..n1 -> Found(page)]
    BY <2>1, <1>6
  <2> QED BY <2>2, <1>2
<1> HIDE DEF survivors, P, Q
<1>8. Picked(survivors, P) \in Seq(Found(page)) /\ Picked(t2, Q) \in Seq(Found(page))
  BY <1>7, PickedElements
<1> QED BY <1>1, <1>8

(* What the two tiers find on a page are spans of that page. *)
LEMMA DetectedTypes ==
  ASSUME NEW page \in PageModel, NEW results \in Seq(NerResult), Fits(page, results)
  PROVE  detect_page(page, results) \in Seq(Found(page))
<1>1. \A tier : \A s \in Seq(TierFound(page, tier)) : s \in Seq(Found(page))
  BY DEF TierFound
<1>2. tier1_spans(page) \in Seq(Found(page)) /\ page_spans(page, results) \in Seq(Found(page))
  BY <1>1, Tier1Types, Tier2Types
<1> QED BY <1>2, DedupeTypes DEF detect_page

-----------------------------------------------------------------------------
(* The upload *)

LEMMA UploadType ==
  ASSUME NEW doc \in PDF
  PROVE  /\ doc.pages \in Seq(RawPage) /\ Len(doc.pages) \in Nat
         /\ DOMAIN doc.pages = 1..Len(doc.pages)
         /\ \A n \in 1..Len(doc.pages) :
              /\ doc.pages[n].words \in Seq(RawWord) /\ DistinctWords(doc.pages[n].words)
              /\ doc.pages[n].width \in Nat
         /\ doc.needs_pass \in BOOLEAN /\ doc.malformed \in BOOLEAN /\ doc.oversized \in BOOLEAN
<1>1. doc \in [needs_pass : BOOLEAN, malformed : BOOLEAN, oversized : BOOLEAN, pages : Seq(RawPage)]
  BY ContentAssumption
<1>2. doc.pages \in Seq(RawPage)
  BY <1>1
<1>3. Len(doc.pages) \in Nat /\ DOMAIN doc.pages = 1..Len(doc.pages)
  BY <1>2
<1>4. ASSUME NEW n \in 1..Len(doc.pages)
      PROVE  /\ doc.pages[n].words \in Seq(RawWord) /\ DistinctWords(doc.pages[n].words)
             /\ doc.pages[n].width \in Nat
  <2>1. doc.pages[n] \in RawPage
    BY <1>2
  <2>2. \A i, j \in DOMAIN doc.pages[n].words :
          i # j => \/ doc.pages[n].words[i].line # doc.pages[n].words[j].line
                   \/ doc.pages[n].words[i].no # doc.pages[n].words[j].no
    <3>1. n \in DOMAIN doc.pages
      BY <1>3
    <3> QED BY <3>1, ContentAssumption
  <2> QED BY <2>1, <2>2 DEF RawPage, DistinctWords
<1> QED BY <1>1, <1>2, <1>3, <1>4

\* A page of the document and its page model.
LEMMA PageIsFaithful ==
  ASSUME NEW doc \in PDF, NEW n \in 1..Len(doc.pages)
  PROVE  LET page == extract_open_document(doc)[n]
             raw  == doc.pages[n].words
         IN /\ page \in PageModel /\ page.page_number = n
            /\ reading_order(raw) \in Seq(RawWord) /\ Len(reading_order(raw)) = Len(raw)
            /\ ToSet(reading_order(raw)) = ToSet(raw)
            /\ Faithful(page.text, page.words, reading_order(raw))
<1> DEFINE raw == doc.pages[n].words
           o == reading_order(raw)
           page == extract_open_document(doc)[n]
<1>1. /\ n \in DOMAIN doc.pages /\ n \in Nat \ {0}
      /\ raw \in Seq(RawWord) /\ DistinctWords(raw)
  BY UploadType
<1>2. page = extract_page(raw, n)
  BY <1>1 DEF extract_open_document
<1>3. page = [page_number |-> n, text |-> build_text_and_words(o).text,
              words |-> build_text_and_words(o).words]
  BY <1>2 DEF extract_page
<1> HIDE DEF raw, page
<1>4. o \in Seq(RawWord) /\ Len(o) = Len(raw) /\ ToSet(o) = ToSet(raw)
  BY <1>1, ReadingOrderSorts
<1> HIDE DEF o
<1>5. Faithful(build_text_and_words(o).text, build_text_and_words(o).words, o)
  BY <1>4, BuiltIsFaithful
<1>6. page.page_number = n /\ Faithful(page.text, page.words, o)
  BY <1>3, <1>5
<1>7. page \in PageModel
  BY <1>1, <1>3, <1>5 DEF PageModel, Faithful
<1> QED BY <1>4, <1>6, <1>7 DEF raw, o, page

(* Ingest gives one page model for each page of the upload. *)
LEMMA ExtractedType ==
  ASSUME NEW doc \in PDF
  PROVE  /\ DOMAIN extract_open_document(doc) = DOMAIN doc.pages
         /\ extract_open_document(doc) \in Seq(PageModel)
         /\ Len(extract_open_document(doc)) = Len(doc.pages)
<1> DEFINE models == extract_open_document(doc)
<1>1. DOMAIN models = DOMAIN doc.pages /\ models = [n \in DOMAIN doc.pages |-> models[n]]
  BY DEF extract_open_document
<1>2. Len(doc.pages) \in Nat /\ DOMAIN doc.pages = 1..Len(doc.pages)
  BY UploadType
<1>3. \A n \in 1..Len(doc.pages) : models[n] \in PageModel
  BY PageIsFaithful
<1> HIDE DEF models
<1>4. models \in [1..Len(doc.pages) -> PageModel]
  BY <1>1, <1>2, <1>3
<1>5. models \in Seq(PageModel) /\ Len(models) = Len(doc.pages)
  BY <1>2, <1>4
<1> QED BY <1>1, <1>5 DEF models

\* The two ways to look for the defects of an upload agree.
LEMMA PrecheckAgrees ==
  ASSUME NEW doc \in PDF
  PROVE  extract_pages_error(doc) = validate_pdf_structure(doc)
<1>1. ASSUME NEW n \in DOMAIN doc.pages
      PROVE  extract_open_document(doc)[n].words = << >> <=> doc.pages[n].words = << >>
  <2> DEFINE raw == doc.pages[n].words
             o == reading_order(raw)
             words == extract_open_document(doc)[n].words
  <2>1. n \in 1..Len(doc.pages) /\ raw \in Seq(RawWord)
    BY UploadType
  <2>2. Len(o) = Len(raw) /\ words \in Seq(PageWord) /\ Len(words) = Len(o)
    BY <2>1, PageIsFaithful DEF Faithful
  <2> HIDE DEF o, raw, words
  <2>3. (words = << >> <=> Len(words) = 0) /\ (raw = << >> <=> Len(raw) = 0)
    BY <2>1, <2>2
  <2> QED BY <2>2, <2>3 DEF raw, words
<1> QED BY <1>1 DEF extract_pages_error, validate_pdf_structure

-----------------------------------------------------------------------------
(* The rows that detection leaves *)

AnyFound ==
  [page_number : Nat \ {0}, start : Nat, end : Nat, bboxes : Seq(Bbox),
   text : Text, category : STRING, source_tier : {"tier_1", "tier_2"}, confidence : Int]

(* The spans of a page are spans. *)
LEMMA FoundType ==
  ASSUME NEW page \in PageModel
  PROVE  Found(page) \subseteq AnyFound
<1>1. page.page_number \in Nat \ {0} /\ Len(page.text) \in Nat
  BY DEF PageModel, Text
<1>2. 0..Len(page.text) \subseteq Nat
  BY <1>1
<1> QED BY <1>1, <1>2 DEF Found, AnyFound

(* What detect_page returns for every page becomes rows of the job, each on a page it has and
   with offsets inside its text. *)
LEMMA DetectionRows ==
  ASSUME NEW doc \in PDF, NEW results \in [DOMAIN doc.pages -> NerResults],
         \A n \in DOMAIN results : Fits(extract_open_document(doc)[n], results[n])
  PROVE  LET found == FlattenSeq([n \in DOMAIN extract_open_document(doc) |->
                                    detect_page(extract_open_document(doc)[n], results[n])])
             rows == [i \in DOMAIN found |-> candidate_to_span(found[i])]
             marks == [i \in DOMAIN found |-> "none"]
         IN [spans |-> rows, disposition |-> marks, entries |-> << >>, error |-> "none"] \in Review
<1> DEFINE models == extract_open_document(doc)
           lists == [n \in DOMAIN models |-> detect_page(models[n], results[n])]
           found == FlattenSeq(lists)
           rows == [i \in DOMAIN found |-> candidate_to_span(found[i])]
           marks == [i \in DOMAIN found |-> "none"]
           s == [spans |-> rows, disposition |-> marks, entries |-> << >>, error |-> "none"]
           N == Len(doc.pages)
<1>1. /\ N \in Nat /\ DOMAIN models = 1..N /\ DOMAIN doc.pages = 1..N
      /\ \A n \in 1..N : models[n] \in PageModel
  BY UploadType, ExtractedType, PageIsFaithful
<1>2. \A n \in 1..N : results[n] \in Seq(NerResult) /\ Fits(models[n], results[n])
  <2>1. \A n \in 1..N : results[n] \in NerResults /\ n \in DOMAIN results
    BY <1>1
  <2> QED BY <2>1, ContentAssumption DEF NerResult
<1> HIDE DEF models, N
<1>3. \A n \in 1..N : lists[n] \in Seq(AnyFound)
  <2> SUFFICES ASSUME NEW n \in 1..N PROVE lists[n] \in Seq(AnyFound)
    OBVIOUS
  <2>1. lists[n] = detect_page(models[n], results[n])
    BY <1>1
  <2>2. models[n] \in PageModel /\ results[n] \in Seq(NerResult) /\ Fits(models[n], results[n])
    BY <1>1, <1>2
  <2> HIDE DEF lists
  <2>3. lists[n] \in Seq(Found(models[n])) /\ Found(models[n]) \subseteq AnyFound
    BY <2>1, <2>2, DetectedTypes, FoundType
  <2> QED BY <2>3
<1>4. lists \in Seq(Seq(AnyFound))
  <2>1. lists = [n \in 1..N |-> lists[n]]
    BY <1>1
  <2> HIDE DEF lists
  <2>2. lists \in [1..N -> Seq(AnyFound)]
    BY <2>1, <1>3
  <2> QED BY <2>2, <1>1
<1> HIDE DEF lists
<1>5. found \in Seq(AnyFound)
  BY <1>4, FlattenLayout
<1> HIDE DEF found
<1>6. /\ Len(found) \in Nat /\ DOMAIN found = 1..Len(found)
      /\ \A i \in 1..Len(found) : found[i] \in AnyFound
  BY <1>5
<1>7. \A i \in 1..Len(found) : candidate_to_span(found[i]) \in SpanRow
  BY <1>6 DEF candidate_to_span, AnyFound, SpanRow
<1>8. /\ rows \in Seq(SpanRow) /\ Len(rows) = Len(found)
      /\ marks \in Seq(Decision) /\ Len(marks) = Len(found)
      /\ \A i \in 1..Len(found) : marks[i] = "none"
  <2>1. rows \in Seq(SpanRow) /\ Len(rows) = Len(found)
    BY <1>6, <1>7
  <2>2. "none" \in Decision
    BY DEF Decision
  <2>3. marks \in Seq(Decision) /\ Len(marks) = Len(found)
    BY <2>2, <1>6
  <2>4. \A i \in 1..Len(found) : marks[i] = "none"
    BY <1>6
  <2> QED BY <2>1, <2>3, <2>4
<1> HIDE DEF rows, marks
<1>9. << >> \in Seq(TrailEntry) /\ Len(<< >>) = 0
  OBVIOUS
<1>10. /\ s \in [spans : Seq(SpanRow), disposition : Seq(Decision), entries : Seq(TrailEntry),
                 error : {"none", "SpanNotFoundError"}]
       /\ s.spans = rows /\ s.disposition = marks /\ s.entries = << >>
  BY <1>8, <1>9
<1> HIDE DEF s
<1>11. 1..Len(s.entries) = {}
  BY <1>9, <1>10
<1>12. \A i \in 1..Len(s.spans) : Told(s, i)
  BY <1>8, <1>10, <1>11 DEF Told
<1>13. s \in Review
  BY <1>8, <1>10, <1>11, <1>12 DEF Review
<1> QED BY <1>13 DEF s, rows, marks, found, lists, models

\* An entry that is of no span tells nothing of the rows.
LEMMA LifecycleKeepsReview ==
  ASSUME NEW a, NEW b, NEW c, [spans |-> a, disposition |-> b, entries |-> c, error |-> "none"] \in Review,
         NEW e \in TrailEntry, e.span = none
  PROVE  [spans |-> a, disposition |-> b, entries |-> Append(c, e), error |-> "none"] \in Review
<1> DEFINE s == [spans |-> a, disposition |-> b, entries |-> c, error |-> "none"]
           longer == Append(c, e)
           r == [spans |-> a, disposition |-> b, entries |-> longer, error |-> "none"]
<1>1. s \in Review /\ s.spans = a /\ s.disposition = b /\ s.entries = c
  OBVIOUS
<1> HIDE DEF s
<1>2. /\ a \in Seq(SpanRow) /\ b \in Seq(Decision) /\ c \in Seq(TrailEntry)
      /\ Len(b) = Len(a) /\ \A k \in 1..Len(c) : c[k].span \in (1..Len(a)) \cup {none}
      /\ \A i \in 1..Len(a) : Told(s, i)
  BY <1>1 DEF Review
<1>3. \A i \in 1..Len(a) : e.span # i
  <2>1. \A i \in 1..Len(a) : i \in Nat
    BY <1>2
  <2> QED BY <2>1, ContentAssumption
<1>4. /\ longer \in Seq(TrailEntry) /\ Len(longer) = Len(c) + 1 /\ Len(c) \in Nat
      /\ \A k \in 1..Len(c) : longer[k] = c[k]
      /\ longer[Len(c) + 1] = e
  BY <1>2, AppendedEntry
<1>5. ASSUME NEW i \in 1..Len(a)
      PROVE  /\ NoEntry(longer, i) <=> NoEntry(c, i)
             /\ \A k \in 1..Len(longer) : LastEntry(longer, i, k) => k \in 1..Len(c) /\ LastEntry(c, i, k)
  BY <1>2, <1>3, AppendedEntry
<1> HIDE DEF longer
<1>6. /\ r \in [spans : Seq(SpanRow), disposition : Seq(Decision), entries : Seq(TrailEntry),
                error : {"none", "SpanNotFoundError"}]
      /\ r.spans = a /\ r.disposition = b /\ r.entries = longer
  BY <1>2, <1>4
<1> HIDE DEF r
<1>7. ASSUME NEW i \in 1..Len(a) PROVE Told(r, i)
  <2>1. Told(s, i)
    BY <1>2
  <2>2. /\ NoEntry(longer, i) <=> NoEntry(c, i)
        /\ \A k \in 1..Len(longer) : LastEntry(longer, i, k) => k \in 1..Len(c) /\ LastEntry(c, i, k)
    BY <1>5
  <2>3. \A k \in 1..Len(c) : longer[k] = c[k]
    BY <1>4
  <2> QED BY <2>1, <2>2, <2>3, <1>1, <1>6 DEF Told
<1>8. \A k \in 1..Len(longer) : longer[k].span \in (1..Len(a)) \cup {none}
  <2>1. \A k \in 1..Len(longer) : k \in 1..Len(c) \/ k = Len(c) + 1
    BY <1>4
  <2> QED BY <2>1, <1>2, <1>4
<1>9. r \in Review
  BY <1>2, <1>6, <1>7, <1>8 DEF Review
<1> QED BY <1>9 DEF r, longer

-----------------------------------------------------------------------------
(* The invariant *)

AllKeys ==
  {raster_key(n) : n \in DOMAIN pdf.pages} \cup {text_layer_key(n) : n \in DOMAIN pdf.pages}

Key == {raster_key(n) : n \in Nat} \cup {text_layer_key(n) : n \in Nat}

ReviewState ==
  [spans |-> spans, disposition |-> disposition, entries |-> entries, error |-> "none"]

StateOK ==
  /\ pdf \in PDF
  /\ status \in {"new", "refused", "uploaded", "ingested", "in_review", "applying",
                 "verified", "exported", "failed"}
  /\ error \in IngestError \cup {"none", "storage", "ValueError", "SpanNotFoundError"}
  /\ faults \in 0..MaxFaults /\ items \in 0..MaxItems
  /\ status \notin {"refused", "in_review", "failed"} => error = "none"

ReviewOK ==
  /\ ReviewState \in Review
  /\ status \in {"new", "refused", "uploaded", "ingested"} => entries = << >>

IngestOK ==
  /\ pages \in {<< >>, extract_open_document(pdf)}
  /\ status \notin {"new", "refused"} =>
       validate_file_size(pdf) = "none" /\ validate_pdf_structure(pdf) = "none"
  /\ todo # none => /\ status = "uploaded" /\ todo \in Seq(Key)
                    /\ AllKeys \subseteq stored \cup ToSet(todo)
  /\ status \notin {"new", "refused", "uploaded", "failed"} => AllKeys \subseteq stored
  /\ PrecheckPredictsIngest

Rebuilt ==
  /\ output = rebuild_redacted_pdf(pdf, project_approved_spans)
  /\ apply_raises(pdf, project_approved_spans) = "none"
  /\ \E choice \in Readings(output, OcrScore) : readings = Read(output, choice)

BurnOK ==
  /\ output # none => status \in {"verified", "exported", "failed"} /\ Rebuilt
  /\ Passed =>
       /\ Rebuilt
       /\ verify(output, redacted_strings(project_approved_spans), readings).verdict = "pass"

IInv == StateOK /\ ReviewOK /\ IngestOK /\ BurnOK

(* The invariant holds of a job that was just created. *)
LEMMA InitIInv == Init => IInv
<1> SUFFICES ASSUME Init PROVE IInv
  OBVIOUS
<1> USE DEF Init
<1>1. StateOK
  BY ContentAssumption DEF StateOK
<1>2. ReviewOK
  <2>1. /\ << >> \in Seq(SpanRow) /\ << >> \in Seq(Decision) /\ << >> \in Seq(TrailEntry)
        /\ Len(<< >>) = 0
    OBVIOUS
  <2>2. 1..Len(<< >>) = {}
    BY <2>1
  <2>3. ReviewState \in Review
    BY <2>1, <2>2 DEF Review, ReviewState
  <2> QED BY <2>3 DEF ReviewOK
<1>3. IngestOK
  BY DEF IngestOK, PrecheckPredictsIngest
<1>4. BurnOK
  BY DEF BurnOK, Passed
<1> QED BY <1>1, <1>2, <1>3, <1>4 DEF IInv

(* Every step keeps the types. *)
LEMMA StateNext ==
  ASSUME IInv, Next
  PROVE  StateOK'
<1> USE DEF IInv, StateOK, reviewVars
<1>0. /\ validate_file_size(pdf) \in {"none"} \cup IngestError
      /\ validate_pdf_structure(pdf) \in {"none"} \cup IngestError
      /\ extract_pages_error(pdf) \in {"none"} \cup IngestError
  BY DEF validate_file_size, validate_pdf_structure, extract_pages_error,
         check_encryption_and_page_count, IngestError
<1>1. CASE CreateJob
  BY <1>0, <1>1 DEF CreateJob
<1>2. CASE StartIngest
  BY <1>0, <1>2 DEF StartIngest
<1>3. CASE UploadArtifact
  BY <1>3 DEF UploadArtifact
<1>4. CASE UploadRaises
  BY <1>4, ContentAssumption DEF UploadRaises
<1>5. CASE WorkerDies
  BY <1>5, ContentAssumption DEF WorkerDies
<1>6. CASE FinishIngest
  <2>1. todo # none
    BY <1>6, ContentAssumption DEF FinishIngest
  <2>2. status = "uploaded"
    BY <2>1 DEF IngestOK
  <2> QED BY <1>6, <2>2 DEF FinishIngest
<1>7. CASE Detect
  BY <1>7 DEF Detect
<1>8. CASE CreateDispositions
  <2>1. PICK size \in 1..MaxBatch : \E batch \in [1..size -> Item] :
          /\ items + size <= MaxItems /\ items' = items + size
          /\ error' = apply_disposition_batch(ReviewState, batch).error
    BY <1>8 DEF CreateDispositions, ReviewState
  <2>2. PICK batch \in [1..size -> Item] :
          /\ items + size <= MaxItems /\ items' = items + size
          /\ error' = apply_disposition_batch(ReviewState, batch).error
    BY <2>1
  <2>3. size \in Nat /\ Len(batch) = size /\ \A k \in 1..size : ValidItem(batch[k])
    BY ItemIsValid
  <2>4. ReviewState \in Review /\ ReviewState.error = "none"
    BY DEF ReviewOK, ReviewState
  <2>5. apply_disposition_batch(ReviewState, batch) \in Review
    BY <2>3, <2>4, BatchKeepsReview
  <2>6. error' \in {"none", "SpanNotFoundError"}
    BY <2>2, <2>5 DEF Review
  <2>7. items' \in 0..MaxItems
    BY <2>2, ContentAssumption
  <2>8. status = "in_review" /\ UNCHANGED <<pdf, status, faults>>
    BY <1>8 DEF CreateDispositions
  <2> QED BY <2>6, <2>7, <2>8
<1>9. CASE RequestApply
  BY <1>9 DEF RequestApply
<1>10. CASE ApplyRaises
  <2>1. apply_raises(pdf, project_approved_spans) \in {"none", "ValueError"}
    BY DEF apply_raises
  <2> QED BY <1>10, <2>1 DEF ApplyRaises
<1>11. CASE ApplyJob
  <2>1. /\ status = "applying" /\ status' \in {"verified", "failed"}
        /\ UNCHANGED <<pdf, error, faults, items>>
    BY <1>11 DEF ApplyJob
  <2> QED BY <2>1
<1>12. CASE Export
  BY <1>12 DEF Export
<1> QED BY <1>1, <1>2, <1>3, <1>4, <1>5, <1>6, <1>7, <1>8, <1>9, <1>10, <1>11, <1>12 DEF Next

\* The batch of a review, and what is left of it in the state after.
LEMMA DispositionsStep ==
  ASSUME IInv, CreateDispositions
  PROVE  /\ status = "in_review" /\ status' = "in_review"
         /\ UNCHANGED <<pdf, stored, todo, pages, ner, burnVars, faults>>
         /\ ReviewState' \in Review
         /\ error' # "none" => UNCHANGED <<spans, disposition, entries>>
<1>1. PICK size \in 1..MaxBatch : \E batch \in [1..size -> Item] :
        LET done == apply_disposition_batch(ReviewState, batch)
        IN /\ spans' = done.spans /\ disposition' = done.disposition
           /\ entries' = done.entries /\ error' = done.error
  BY DEF CreateDispositions, ReviewState
<1>2. PICK batch \in [1..size -> Item] :
        LET done == apply_disposition_batch(ReviewState, batch)
        IN /\ spans' = done.spans /\ disposition' = done.disposition
           /\ entries' = done.entries /\ error' = done.error
  BY <1>1
<1> DEFINE done == apply_disposition_batch(ReviewState, batch)
<1>3. size \in Nat /\ Len(batch) = size /\ \A k \in 1..size : ValidItem(batch[k])
  BY ItemIsValid
<1>4. /\ ReviewState \in Review /\ ReviewState.error = "none"
      /\ ReviewState.spans = spans /\ ReviewState.disposition = disposition
      /\ ReviewState.entries = entries
  BY DEF IInv, ReviewOK, ReviewState
<1>5. /\ done \in Review
      /\ done.error # "none" => /\ done.spans = spans /\ done.disposition = disposition
                                /\ done.entries = entries
  BY <1>3, <1>4, BatchKeepsReview
<1>6. spans' = done.spans /\ disposition' = done.disposition /\ entries' = done.entries /\ error' = done.error
  BY <1>2
<1> HIDE DEF done
<1>7. ReviewState' \in Review
  <2> DEFINE r == [spans |-> done.spans, disposition |-> done.disposition,
                   entries |-> done.entries, error |-> "none"]
  <2>1. ReviewState' = r
    BY <1>6 DEF ReviewState
  <2>2. /\ done \in [spans : Seq(SpanRow), disposition : Seq(Decision), entries : Seq(TrailEntry),
                     error : {"none", "SpanNotFoundError"}]
        /\ Len(done.disposition) = Len(done.spans)
        /\ \A k \in 1..Len(done.entries) : done.entries[k].span \in (1..Len(done.spans)) \cup {none}
        /\ \A i \in 1..Len(done.spans) : Told(done, i)
    BY <1>5 DEF Review
  <2>3. /\ r \in [spans : Seq(SpanRow), disposition : Seq(Decision), entries : Seq(TrailEntry),
                  error : {"none", "SpanNotFoundError"}]
        /\ r.spans = done.spans /\ r.disposition = done.disposition /\ r.entries = done.entries
    BY <2>2
  <2> HIDE DEF r
  <2>4. \A i : Told(r, i) <=> Told(done, i)
    BY <2>3 DEF Told
  <2>5. r \in Review
    BY <2>2, <2>3, <2>4 DEF Review
  <2> QED BY <2>1, <2>5
<1>8. error' # "none" => UNCHANGED <<spans, disposition, entries>>
  BY <1>5, <1>6
<1>9. /\ status = "in_review" /\ status' = "in_review"
      /\ UNCHANGED <<pdf, stored, todo, pages, ner, burnVars, faults>>
  BY DEF CreateDispositions
<1> QED BY <1>7, <1>8, <1>9

\* The entries of a lifecycle step have no span.
LEMMA LifecycleEntry ==
  ASSUME NEW action \in {"apply_started", "verify_passed", "verify_failed", "exported"}, NEW category,
         category \in SUBSET {"job_lifecycle", "pass", "fail", "text_layer", "ocr", "metadata"}
  PROVE  LET e == audit_entry(action, none, none, category) IN
         /\ e \in TrailEntry /\ e.span = none /\ e.action = action /\ e.category = category
BY DEF audit_entry, TrailEntry

(* A verdict of the gate is pass or fail, with the categories that verify_verdict reports. *)
LEMMA VerdictType ==
  ASSUME NEW doc, NEW strings, NEW read
  PROVE  LET result == verify(doc, strings, read) IN
         /\ result.verdict \in {"pass", "fail"}
         /\ verify_verdict_category(result)
              \in SUBSET {"job_lifecycle", "pass", "fail", "text_layer", "ocr", "metadata"}
BY DEF verify, verify_verdict_category

(* Every step keeps the rows and the trail in agreement. *)
LEMMA ReviewNext ==
  ASSUME IInv, Next
  PROVE  ReviewOK'
<1>0. ReviewState \in Review /\ ReviewOK
  BY DEF IInv, ReviewOK
<1>1. ASSUME UNCHANGED <<spans, disposition, entries>>,
             status' \in {"new", "refused", "uploaded", "ingested"} =>
               status \in {"new", "refused", "uploaded", "ingested"}
      PROVE  ReviewOK'
  BY <1>0, <1>1 DEF ReviewOK, ReviewState
<1>2. CASE CreateJob
  BY <1>1, <1>2 DEF CreateJob, reviewVars
<1>3. CASE StartIngest
  BY <1>1, <1>3 DEF StartIngest, reviewVars
<1>4. CASE UploadArtifact
  BY <1>1, <1>4 DEF UploadArtifact, reviewVars
<1>5. CASE UploadRaises
  BY <1>1, <1>5 DEF UploadRaises, reviewVars
<1>6. CASE WorkerDies
  BY <1>1, <1>6 DEF WorkerDies, reviewVars
<1>7. CASE FinishIngest
  <2>1. status = "uploaded"
    BY <1>7, ContentAssumption DEF FinishIngest, IInv, IngestOK
  <2> QED BY <1>1, <1>7, <2>1 DEF FinishIngest, reviewVars
<1>8. CASE Detect
  <2>1. /\ status = "ingested" /\ status' = "in_review" /\ entries' = entries /\ entries = << >>
        /\ pages' = extract_open_document(pdf) /\ pdf \in PDF
    BY <1>0, <1>8 DEF Detect, ReviewOK, IInv, StateOK
  <2>2. PICK results \in [DOMAIN pdf.pages -> NerResults] :
          /\ \A n \in DOMAIN results : Fits(pages'[n], results[n])
          /\ LET found == FlattenSeq([n \in DOMAIN pages' |-> detect_page(pages'[n], results[n])])
             IN /\ spans' = [i \in DOMAIN found |-> candidate_to_span(found[i])]
                /\ disposition' = [i \in DOMAIN found |-> "none"]
    BY <1>8 DEF Detect
  <2>3. \A n \in DOMAIN results : Fits(extract_open_document(pdf)[n], results[n])
    BY <2>1, <2>2
  <2> DEFINE found == FlattenSeq([n \in DOMAIN extract_open_document(pdf) |->
                                    detect_page(extract_open_document(pdf)[n], results[n])])
             rows == [i \in DOMAIN found |-> candidate_to_span(found[i])]
             marks == [i \in DOMAIN found |-> "none"]
  <2>4. [spans |-> rows, disposition |-> marks, entries |-> << >>, error |-> "none"] \in Review
    BY <2>1, <2>3, DetectionRows
  <2>5. spans' = rows /\ disposition' = marks
    BY <2>1, <2>2
  <2> HIDE DEF rows, marks
  <2> QED BY <2>1, <2>4, <2>5 DEF ReviewOK, ReviewState
<1>9. CASE CreateDispositions
  BY <1>9, DispositionsStep DEF ReviewOK
<1>10. CASE RequestApply
  BY <1>1, <1>10 DEF RequestApply, reviewVars
<1>11. CASE ApplyRaises
  BY <1>1, <1>11 DEF ApplyRaises, reviewVars
<1>12. CASE ApplyJob
  <2> DEFINE result == verify(output', redacted_strings(project_approved_spans), readings')
             passed == result.verdict = "pass"
             e1 == audit_entry("apply_started", none, none, {"job_lifecycle"})
             e2 == audit_entry(IF passed THEN "verify_passed" ELSE "verify_failed", none, none,
                               verify_verdict_category(result))
  <2>1. /\ UNCHANGED <<spans, disposition>> /\ status' \in {"verified", "failed"}
        /\ entries' = entries \o <<e1, e2>>
    BY <1>12 DEF ApplyJob
  <2>2. e1 \in TrailEntry /\ e1.span = none
    BY LifecycleEntry
  <2>3. e2 \in TrailEntry /\ e2.span = none
    BY LifecycleEntry, VerdictType
  <2> HIDE DEF e1, e2
  <2>4. [spans |-> spans, disposition |-> disposition, entries |-> Append(entries, e1),
         error |-> "none"] \in Review
    BY <1>0, <2>2, LifecycleKeepsReview DEF ReviewState
  <2> DEFINE t == Append(entries, e1)
  <2>5. [spans |-> spans, disposition |-> disposition, entries |-> Append(t, e2),
         error |-> "none"] \in Review
    <3>1. [spans |-> spans, disposition |-> disposition, entries |-> t, error |-> "none"] \in Review
      BY <2>4
    <3> HIDE DEF t
    <3> QED BY <3>1, <2>3, LifecycleKeepsReview
  <2>6. Append(t, e2) = entries \o <<e1, e2>>
    <3>1. entries \in Seq(TrailEntry)
      BY <1>0 DEF Review, ReviewState
    <3> QED BY <3>1, <2>2, <2>3
  <2> QED BY <2>1, <2>5, <2>6 DEF ReviewOK, ReviewState
<1>13. CASE Export
  <2> DEFINE e == audit_entry("exported", none, none, {"job_lifecycle"})
  <2>1. /\ UNCHANGED <<spans, disposition>> /\ status' = "exported"
        /\ entries' \in {entries, Append(entries, e)}
    BY <1>13 DEF Export
  <2>2. e \in TrailEntry /\ e.span = none
    BY LifecycleEntry
  <2> HIDE DEF e
  <2>3. [spans |-> spans, disposition |-> disposition, entries |-> Append(entries, e),
         error |-> "none"] \in Review
    BY <1>0, <2>2, LifecycleKeepsReview DEF ReviewState
  <2>4. CASE entries' = entries
    BY <1>1, <2>1, <2>4
  <2>5. CASE entries' = Append(entries, e)
    BY <2>1, <2>3, <2>5 DEF ReviewOK, ReviewState
  <2> QED BY <2>1, <2>4, <2>5
<1> QED BY <1>2, <1>3, <1>4, <1>5, <1>6, <1>7, <1>8, <1>9, <1>10, <1>11, <1>12, <1>13 DEF Next

\* Each page of the upload has its two keys on the list of a new attempt.
LEMMA AllKeysToDo ==
  ASSUME NEW doc \in PDF
  PROVE  LET keys == FlattenSeq([n \in DOMAIN doc.pages |-> <<raster_key(n), text_layer_key(n)>>])
         IN /\ keys \in Seq(Key)
            /\ \A n \in DOMAIN doc.pages : {raster_key(n), text_layer_key(n)} \subseteq ToSet(keys)
<1> DEFINE lists == [n \in DOMAIN doc.pages |-> <<raster_key(n), text_layer_key(n)>>]
           keys == FlattenSeq(lists)
           N == Len(doc.pages)
<1>1. N \in Nat /\ DOMAIN doc.pages = 1..N
  BY UploadType
<1> HIDE DEF N
<1>2. ASSUME NEW n \in 1..N
      PROVE  /\ lists[n] \in Seq(Key) /\ Len(lists[n]) = 2
             /\ lists[n][1] = raster_key(n) /\ lists[n][2] = text_layer_key(n)
  <2>1. lists[n] = <<raster_key(n), text_layer_key(n)>>
    BY <1>1
  <2>2. raster_key(n) \in Key /\ text_layer_key(n) \in Key
    BY <1>1 DEF Key
  <2> HIDE DEF lists
  <2> QED BY <2>1, <2>2
<1>3. lists \in Seq(Seq(Key)) /\ Len(lists) = N
  <2>1. lists = [n \in 1..N |-> lists[n]]
    BY <1>1
  <2> HIDE DEF lists
  <2>2. lists \in [1..N -> Seq(Key)]
    BY <2>1, <1>2
  <2> QED BY <2>2, <1>1
<1> HIDE DEF lists
<1>4. /\ keys \in Seq(Key)
      /\ \A i \in 1..Len(lists) : \A j \in 1..Len(lists[i]) :
           /\ Len(FlatUpTo(lists)[i - 1]) + j \in 1..Len(keys)
           /\ keys[Len(FlatUpTo(lists)[i - 1]) + j] = lists[i][j]
  BY <1>3, FlattenLayout
<1> HIDE DEF keys
<1>5. ASSUME NEW n \in 1..N PROVE raster_key(n) \in ToSet(keys) /\ text_layer_key(n) \in ToSet(keys)
  <2>1. DOMAIN keys = 1..Len(keys)
    BY <1>4
  <2>2. n \in 1..Len(lists) /\ Len(lists[n]) = 2
    BY <1>2, <1>3
  <2>3. \A j \in 1..2 : /\ Len(FlatUpTo(lists)[n - 1]) + j \in 1..Len(keys)
                        /\ keys[Len(FlatUpTo(lists)[n - 1]) + j] = lists[n][j]
    BY <2>2, <1>4, Zenon
  <2>4. \A j \in 1..2 : \E p \in DOMAIN keys : keys[p] = lists[n][j]
    BY <2>1, <2>3, Zenon
  <2>5. 1 \in 1..2 /\ 2 \in 1..2
    OBVIOUS
  <2>6. \A j \in 1..2 : lists[n][j] \in ToSet(keys)
    BY <2>4, Zenon DEF ToSet
  <2> QED BY <2>5, <2>6, <1>2
<1> QED BY <1>1, <1>4, <1>5 DEF keys, lists

(* A queue that is not empty is its first element and the rest. *)
LEMMA HeadAndTail ==
  ASSUME NEW S, NEW t \in Seq(S), t # << >>
  PROVE  /\ Tail(t) \in Seq(S)
         /\ ToSet(t) = {Head(t)} \cup ToSet(Tail(t))
<1>1. /\ Len(t) \in Nat \ {0} /\ DOMAIN t = 1..Len(t) /\ Head(t) = t[1]
      /\ Tail(t) \in Seq(S) /\ Len(Tail(t)) = Len(t) - 1 /\ DOMAIN Tail(t) = 1..Len(t) - 1
      /\ \A i \in 1..Len(t) - 1 : Tail(t)[i] = t[i + 1]
  OBVIOUS
<1>2. ASSUME NEW i \in 1..Len(t) PROVE t[i] = t[1] \/ \E j \in 1..Len(t) - 1 : t[i] = Tail(t)[j]
  <2>1. i = 1 \/ (i - 1 \in 1..Len(t) - 1 /\ (i - 1) + 1 = i)
    BY <1>1
  <2> QED BY <2>1, <1>1
<1>3. ASSUME NEW j \in 1..Len(t) - 1 PROVE \E i \in 1..Len(t) : Tail(t)[j] = t[i]
  <2>1. j + 1 \in 1..Len(t)
    BY <1>1
  <2> QED BY <2>1, <1>1
<1>4. 1 \in 1..Len(t)
  BY <1>1
<1>5. /\ ToSet(t) = {t[i] : i \in 1..Len(t)}
      /\ ToSet(Tail(t)) = {Tail(t)[j] : j \in 1..Len(t) - 1}
  BY <1>1 DEF ToSet
<1>6. ToSet(t) \subseteq {t[1]} \cup ToSet(Tail(t))
  BY <1>2, <1>5, Zenon
<1>7. {t[1]} \cup ToSet(Tail(t)) \subseteq ToSet(t)
  BY <1>3, <1>4, <1>5, Zenon
<1> QED BY <1>1, <1>6, <1>7

(* Every step keeps what ingest stored faithful to the upload. *)
LEMMA IngestNext ==
  ASSUME IInv, Next
  PROVE  IngestOK'
<1>0. IngestOK /\ StateOK /\ pdf \in PDF
  BY DEF IInv, StateOK
<1>1. ASSUME UNCHANGED <<pdf, stored, todo, pages>>,
             status \in {"in_review", "applying", "verified", "exported"},
             status' \in {"in_review", "applying", "verified", "exported", "failed"},
             status' = "failed" => error' \notin IngestError
      PROVE  IngestOK'
  BY <1>0, <1>1 DEF IngestOK, AllKeys, PrecheckPredictsIngest
<1>2. CASE CreateJob
  <2>1. todo = none /\ status = "new"
    BY <1>0, <1>2 DEF CreateJob, IngestOK
  <2>2. status' \in {"uploaded", "refused"}
    BY <1>2 DEF CreateJob
  <2>3. status' = "uploaded" =>
          validate_file_size(pdf) = "none" /\ validate_pdf_structure(pdf) = "none"
    BY <1>2 DEF CreateJob
  <2>4. UNCHANGED <<pdf, stored, todo, pages>>
    BY <1>2 DEF CreateJob
  <2>5. status' \notin {"new", "refused"} =>
          validate_file_size(pdf') = "none" /\ validate_pdf_structure(pdf') = "none"
    BY <2>2, <2>3, <2>4
  <2>6. todo' = none /\ pages' \in {<< >>, extract_open_document(pdf')}
    BY <1>0, <2>1, <2>4 DEF IngestOK
  <2>7. status' \in {"new", "refused", "uploaded", "failed"} /\ status' # "failed"
    BY <2>2
  <2> QED BY <2>5, <2>6, <2>7 DEF IngestOK, PrecheckPredictsIngest
<1>3. CASE StartIngest
  <2>1. status = "uploaded" /\ UNCHANGED <<pdf, stored>>
    BY <1>3 DEF StartIngest
  <2>2. validate_file_size(pdf) = "none" /\ validate_pdf_structure(pdf) = "none"
    BY <1>0, <2>1 DEF IngestOK
  <2>3. extract_pages_error(pdf) = "none"
    BY <1>0, <2>2, PrecheckAgrees
  <2>4. /\ pages' = extract_open_document(pdf) /\ status' = status
        /\ todo' = FlattenSeq([n \in DOMAIN pdf.pages |-> <<raster_key(n), text_layer_key(n)>>])
    BY <1>3, <2>2, <2>3 DEF StartIngest
  <2>5. /\ todo' \in Seq(Key)
        /\ \A n \in DOMAIN pdf.pages : {raster_key(n), text_layer_key(n)} \subseteq ToSet(todo')
    BY <1>0, <2>4, AllKeysToDo
  <2>6. AllKeys' \subseteq ToSet(todo')
    BY <2>1, <2>5 DEF AllKeys
  <2> QED BY <2>1, <2>2, <2>4, <2>5, <2>6 DEF IngestOK, PrecheckPredictsIngest
<1>4. CASE UploadArtifact
  <2>1. /\ todo # none /\ todo # << >> /\ todo' = Tail(todo) /\ stored' = stored \cup {Head(todo)}
        /\ UNCHANGED <<pdf, status, error, pages>>
    BY <1>4 DEF UploadArtifact
  <2>2. todo \in Seq(Key) /\ AllKeys \subseteq stored \cup ToSet(todo) /\ status = "uploaded"
    BY <1>0, <2>1 DEF IngestOK
  <2>3. Tail(todo) \in Seq(Key) /\ ToSet(todo) = {Head(todo)} \cup ToSet(Tail(todo))
    BY <2>1, <2>2, HeadAndTail
  <2>4. AllKeys' = AllKeys
    BY <2>1 DEF AllKeys
  <2>5. AllKeys' \subseteq stored' \cup ToSet(todo')
    BY <2>1, <2>2, <2>3, <2>4
  <2> QED BY <1>0, <2>1, <2>2, <2>3, <2>5 DEF IngestOK, PrecheckPredictsIngest
<1>5. CASE UploadRaises
  <2>1. /\ todo # none /\ todo' = none /\ status' = "failed" /\ error' = "storage"
        /\ UNCHANGED <<pdf, pages>>
    BY <1>5 DEF UploadRaises
  <2>2. status = "uploaded"
    BY <1>0, <2>1 DEF IngestOK
  <2> QED BY <1>0, <2>1, <2>2 DEF IngestOK, PrecheckPredictsIngest, IngestError
<1>6. CASE WorkerDies
  <2>1. /\ todo # none /\ todo' = none /\ pages' = << >>
        /\ UNCHANGED <<pdf, status, error, stored>>
    BY <1>6 DEF WorkerDies
  <2>2. status = "uploaded"
    BY <1>0, <2>1 DEF IngestOK
  <2> QED BY <1>0, <2>1, <2>2 DEF IngestOK, PrecheckPredictsIngest
<1>7. CASE FinishIngest
  <2>1. /\ todo = << >> /\ todo' = none /\ status' = "ingested"
        /\ UNCHANGED <<pdf, error, stored, pages>>
    BY <1>7 DEF FinishIngest
  <2>2. status = "uploaded" /\ AllKeys \subseteq stored \cup ToSet(todo)
    BY <1>0, <2>1, ContentAssumption DEF IngestOK
  <2>3. ToSet(<< >>) = {}
    BY DEF ToSet
  <2>4. AllKeys' \subseteq stored'
    BY <2>1, <2>2, <2>3 DEF AllKeys
  <2> QED BY <1>0, <2>1, <2>2, <2>4 DEF IngestOK, PrecheckPredictsIngest
<1>8. CASE Detect
  <2>1. /\ status = "ingested" /\ status' = "in_review" /\ pages' = extract_open_document(pdf)
        /\ UNCHANGED <<pdf, stored, todo>>
    BY <1>8 DEF Detect
  <2> QED BY <1>0, <2>1 DEF IngestOK, PrecheckPredictsIngest, AllKeys
<1>9. CASE CreateDispositions
  BY <1>1, <1>9, DispositionsStep
<1>10. CASE RequestApply
  BY <1>1, <1>10 DEF RequestApply
<1>11. CASE ApplyRaises
  <2>1. error' = "ValueError"
    BY <1>11 DEF ApplyRaises, apply_raises
  <2> QED BY <1>1, <1>11, <2>1 DEF ApplyRaises, IngestError
<1>12. CASE ApplyJob
  <2>1. /\ status = "applying" /\ status' \in {"verified", "failed"}
        /\ UNCHANGED <<pdf, error, stored, todo, pages>>
    BY <1>12 DEF ApplyJob
  <2>2. error' = "none"
    BY <1>0, <2>1 DEF StateOK
  <2> QED BY <1>1, <2>1, <2>2 DEF IngestError
<1>13. CASE Export
  BY <1>1, <1>13 DEF Export
<1> QED BY <1>2, <1>3, <1>4, <1>5, <1>6, <1>7, <1>8, <1>9, <1>10, <1>11, <1>12, <1>13 DEF Next

(* Every step keeps the burned copy the one its approved rows ask for. *)
LEMMA BurnNext ==
  ASSUME IInv, Next
  PROVE  BurnOK'
<1>0. BurnOK /\ StateOK
  BY DEF IInv
<1>1. ASSUME UNCHANGED output, status \notin {"verified", "exported", "failed"},
             status' \notin {"verified", "exported"}
      PROVE  BurnOK'
  <2>1. output = none
    BY <1>0, <1>1 DEF BurnOK
  <2> QED BY <1>1, <2>1 DEF BurnOK, Passed
<1>2. CASE CreateJob
  BY <1>1, <1>2 DEF CreateJob, burnVars
<1>3. CASE StartIngest
  BY <1>1, <1>3 DEF StartIngest, burnVars
<1>4. ASSUME todo # none PROVE status = "uploaded"
  BY <1>4 DEF IInv, IngestOK
<1>5. CASE UploadArtifact
  BY <1>1, <1>4, <1>5 DEF UploadArtifact, burnVars
<1>6. CASE UploadRaises
  BY <1>1, <1>4, <1>6 DEF UploadRaises, burnVars
<1>7. CASE WorkerDies
  BY <1>1, <1>4, <1>7 DEF WorkerDies, burnVars
<1>8. CASE FinishIngest
  BY <1>1, <1>4, <1>8, ContentAssumption DEF FinishIngest, burnVars
<1>9. CASE Detect
  BY <1>1, <1>9 DEF Detect, burnVars
<1>10. CASE CreateDispositions
  BY <1>1, <1>10 DEF CreateDispositions, burnVars
<1>11. CASE RequestApply
  BY <1>1, <1>11 DEF RequestApply, burnVars
<1>12. CASE ApplyRaises
  BY <1>1, <1>12 DEF ApplyRaises, burnVars
<1>13. CASE ApplyJob
  <2>1. /\ UNCHANGED <<pdf, spans, disposition>>
        /\ apply_raises(pdf, project_approved_spans) = "none"
        /\ output' = rebuild_redacted_pdf(pdf, project_approved_spans)
    BY <1>13 DEF ApplyJob
  <2>2. PICK choice \in Readings(output', OcrScore) :
          /\ readings' = Read(output', choice)
          /\ status' = IF verify(output', redacted_strings(project_approved_spans), readings').verdict = "pass"
                       THEN "verified" ELSE "failed"
    BY <1>13 DEF ApplyJob
  <2>3. project_approved_spans' = project_approved_spans
    BY <2>1 DEF project_approved_spans
  <2>4. Rebuilt'
    BY <2>1, <2>2, <2>3 DEF Rebuilt
  <2> QED BY <2>2, <2>3, <2>4 DEF BurnOK, Passed
<1>14. CASE Export
  <2>1. /\ status \in {"verified", "exported"} /\ status' = "exported"
        /\ UNCHANGED <<pdf, spans, disposition, output, readings>>
    BY <1>14 DEF Export
  <2>2. project_approved_spans' = project_approved_spans
    BY <2>1 DEF project_approved_spans
  <2>3. /\ Rebuilt
        /\ verify(output, redacted_strings(project_approved_spans), readings).verdict = "pass"
    BY <1>0, <2>1 DEF BurnOK, Passed
  <2>4. Rebuilt'
    BY <2>1, <2>2, <2>3 DEF Rebuilt
  <2> QED BY <2>1, <2>2, <2>3, <2>4 DEF BurnOK, Passed
<1> QED BY <1>2, <1>3, <1>5, <1>6, <1>7, <1>8, <1>9, <1>10, <1>11, <1>12, <1>13, <1>14 DEF Next

(* A stuttering step keeps the invariant. *)
LEMMA StutterIInv ==
  ASSUME IInv, UNCHANGED vars
  PROVE  IInv'
<1>1. /\ UNCHANGED <<pdf, status, error, stored, todo, pages>>
      /\ UNCHANGED <<spans, disposition, entries, items, output, readings, faults>>
  BY DEF vars
<1>2. project_approved_spans' = project_approved_spans
  BY <1>1 DEF project_approved_spans
<1>3. StateOK'
  BY <1>1 DEF IInv, StateOK
<1>4. ReviewOK'
  BY <1>1 DEF IInv, ReviewOK, ReviewState
<1>5. IngestOK'
  BY <1>1 DEF IInv, IngestOK, AllKeys, PrecheckPredictsIngest
<1>6. Rebuilt' <=> Rebuilt
  BY <1>1, <1>2 DEF Rebuilt
<1>7. BurnOK'
  BY <1>1, <1>2, <1>6 DEF IInv, BurnOK, Passed
<1> QED BY <1>3, <1>4, <1>5, <1>7 DEF IInv

\* The inductive invariant holds in every reachable state.
LEMMA AlwaysIInv == Spec => []IInv
<1>1. IInv /\ [Next]_vars => IInv'
  <2> SUFFICES ASSUME IInv, [Next]_vars PROVE IInv'
    OBVIOUS
  <2>1. CASE Next
    BY <2>1, StateNext, ReviewNext, IngestNext, BurnNext DEF IInv
  <2>2. CASE UNCHANGED vars
    BY <2>2, StutterIInv
  <2> QED BY <2>1, <2>2
<1> QED BY <1>1, InitIInv, PTL DEF Spec

-----------------------------------------------------------------------------
(* Types, ingest and review *)

\* What the actions read of the rows and of the trail has the form they rely on:
\* each span has its disposition, each entry of the trail is about a span there is.
THEOREM ContentTypes == Spec => []ContentTypeOK
<1>1. IInv => ContentTypeOK
  <2> SUFFICES ASSUME IInv PROVE ContentTypeOK
    OBVIOUS
  <2>1. ReviewState \in Review
    BY DEF IInv, ReviewOK
  <2>2. /\ spans \in Seq(SpanRow) /\ disposition \in Seq(Decision) /\ entries \in Seq(TrailEntry)
        /\ Len(disposition) = Len(spans)
        /\ \A k \in 1..Len(entries) : entries[k].span \in (1..Len(spans)) \cup {none}
    BY <2>1 DEF Review, ReviewState
  <2>3. DOMAIN disposition = DOMAIN spans /\ DOMAIN spans = 1..Len(spans) /\ DOMAIN entries = 1..Len(entries)
    BY <2>2
  <2>4. ASSUME NEW i \in DOMAIN spans
        PROVE  /\ disposition[i] \in {"none", "approved", "rejected"}
               /\ spans[i].source_tier \in {"tier_1", "tier_2", "manual"}
               /\ spans[i].page_number \in Nat \ {0}
    <3>1. disposition[i] \in Decision /\ spans[i] \in SpanRow
      BY <2>2, <2>3
    <3> QED BY <3>1 DEF SpanRow, Decision
  <2>5. \A e \in ToSet(entries) : e.span \in DOMAIN spans \cup {none}
    BY <2>2, <2>3 DEF ToSet
  <2> QED BY <2>3, <2>4, <2>5 DEF ContentTypeOK, IInv, StateOK
<1> QED BY <1>1, AlwaysIInv, PTL

\* The last entry of a span is the greatest of its positions in the trail.
LEMMA LastOfIsLast ==
  ASSUME IInv, NEW i, \E k \in 1..Len(entries) : entries[k].span = i
  PROVE  \E k \in 1..Len(entries) : LastEntry(entries, i, k) /\ LastOf(i) = entries[k]
<1> DEFINE K == {k \in DOMAIN entries : entries[k].span = i}
<1>1. Len(entries) \in Nat /\ DOMAIN entries = 1..Len(entries)
  BY DEF IInv, ReviewOK, ReviewState, Review
<1>2. K # {} /\ K \in SUBSET (0..Len(entries))
  BY <1>1
<1>3. Max(K) \in K /\ \A y \in K : y <= Max(K)
  <2> HIDE DEF K
  <2> QED BY <1>1, <1>2, MaxOfSome
<1>4. LastOf(i) = entries[Max(K)]
  BY DEF LastOf
<1> DEFINE m == Max(K)
<1>5. m \in K /\ \A y \in K : y <= m
  BY <1>3
<1> HIDE DEF m
<1>6. m \in 1..Len(entries) /\ LastEntry(entries, i, m)
  BY <1>1, <1>5 DEF LastEntry
<1> QED BY <1>4, <1>6 DEF m

\* After each batch of a review the trail tells the rows: the last entry of a span
\* has the digest of its present text and agrees with its disposition, and a batch
\* that names a span that is not there changes nothing at all.
THEOREM ReviewAudited == Spec => ReviewIsAudited
<1>1. IInv => TrailTellsTheRows
  <2> SUFFICES ASSUME IInv, NEW i \in DOMAIN spans
               PROVE  IF \A k \in DOMAIN entries : entries[k].span # i THEN disposition[i] = "none"
                      ELSE /\ LastOf(i).text_hash = normalize_text(spans[i].text)
                           /\ disposition[i] = IF LastOf(i).action = "rejected" THEN "rejected"
                                               ELSE "approved"
    BY DEF TrailTellsTheRows
  <2>1. /\ DOMAIN spans = 1..Len(spans) /\ DOMAIN entries = 1..Len(entries)
        /\ Told(ReviewState, i)
    BY DEF IInv, ReviewOK, ReviewState, Review
  <2>2. CASE \A k \in DOMAIN entries : entries[k].span # i
    BY <2>1, <2>2 DEF Told, ReviewState, NoEntry
  <2>3. CASE \E k \in DOMAIN entries : entries[k].span = i
    <3>1. PICK k \in 1..Len(entries) : LastEntry(entries, i, k) /\ LastOf(i) = entries[k]
      BY <2>1, <2>3, LastOfIsLast
    <3> QED BY <2>1, <2>3, <3>1 DEF Told, ReviewState
  <2> QED BY <2>2, <2>3
<1>2. IInv /\ [Next]_vars => [error' = "SpanNotFoundError" => UNCHANGED <<spans, disposition, entries>>]_vars
  <2> SUFFICES ASSUME IInv, Next, error' = "SpanNotFoundError"
               PROVE  UNCHANGED <<spans, disposition, entries>>
    OBVIOUS
  <2>0. StateOK
    BY DEF IInv
  <2>1. CASE CreateDispositions
    BY <2>1, DispositionsStep
  <2>2. CASE \/ CreateJob \/ StartIngest \/ UploadArtifact \/ UploadRaises \/ WorkerDies
             \/ FinishIngest \/ RequestApply \/ ApplyRaises
    BY <2>2 DEF CreateJob, StartIngest, UploadArtifact, UploadRaises, WorkerDies, FinishIngest,
                RequestApply, ApplyRaises, reviewVars
  <2>3. CASE Detect
    BY <2>0, <2>3 DEF Detect, StateOK
  <2>4. CASE ApplyJob
    BY <2>0, <2>4 DEF ApplyJob, StateOK
  <2>5. CASE Export
    BY <2>0, <2>5 DEF Export, StateOK
  <2> QED BY <2>1, <2>2, <2>3, <2>4, <2>5 DEF Next
<1>3. Spec => []TrailTellsTheRows
  BY <1>1, AlwaysIInv, PTL
<1>4. Spec => BatchIsAtomic
  BY <1>2, AlwaysIInv, PTL DEF Spec, BatchIsAtomic
<1> QED BY <1>3, <1>4 DEF ReviewIsAudited

\* The page models are those of the upload: the text of a page between the offsets of
\* its words, and only white space elsewhere.
LEMMA TextsMatch ==
  ASSUME IInv
  PROVE  TextMatchesWords
<1> SUFFICES ASSUME NEW n \in DOMAIN pages
             PROVE  LET raw   == pdf.pages[n].words
                        text  == pages[n].text
                        words == pages[n].words
                    IN /\ {<<Slice(text, w.start, w.end), w.bbox>> : w \in ToSet(words)}
                            = {<<w.text, w.bbox>> : w \in ToSet(raw)}
                       /\ \A i \in 1..Len(text) : \/ text[i] \in Space
                                                 \/ \E w \in ToSet(words) : i \in w.start + 1..w.end
  BY DEF TextMatchesWords
<1> DEFINE raw == pdf.pages[n].words
           o == reading_order(raw)
           text == pages[n].text
           words == pages[n].words
<1>1. pdf \in PDF /\ pages = extract_open_document(pdf) /\ n \in 1..Len(pdf.pages)
  <2>1. pdf \in PDF /\ pages \in {<< >>, extract_open_document(pdf)}
    BY DEF IInv, StateOK, IngestOK
  <2>2. pages # << >>
    OBVIOUS
  <2>3. DOMAIN extract_open_document(pdf) = DOMAIN pdf.pages /\ DOMAIN pdf.pages = 1..Len(pdf.pages)
    BY <2>1, ExtractedType, UploadType
  <2> QED BY <2>1, <2>2, <2>3
<1>2. /\ o \in Seq(RawWord) /\ ToSet(o) = ToSet(raw)
      /\ Faithful(text, words, o)
  BY <1>1, PageIsFaithful
<1> HIDE DEF o, raw, text, words
<1>3. /\ Len(words) = Len(o) /\ DOMAIN words = 1..Len(o) /\ DOMAIN o = 1..Len(o)
      /\ \A i \in 1..Len(o) : words[i].bbox = o[i].bbox /\ Slice(text, words[i].start, words[i].end) = o[i].text
      /\ \A p \in 1..Len(text) : text[p] \in Space \/ Covers(words, p)
  BY <1>2 DEF Faithful
<1>4. ToSet(words) = {words[i] : i \in 1..Len(o)} /\ ToSet(raw) = {o[i] : i \in 1..Len(o)}
  BY <1>2, <1>3 DEF ToSet
<1>5. {<<Slice(text, w.start, w.end), w.bbox>> : w \in ToSet(words)}
        = {<<Slice(text, words[i].start, words[i].end), words[i].bbox>> : i \in 1..Len(o)}
  BY <1>4
<1>6. {<<w.text, w.bbox>> : w \in ToSet(raw)} = {<<o[i].text, o[i].bbox>> : i \in 1..Len(o)}
  BY <1>4
<1>7. {<<Slice(text, words[i].start, words[i].end), words[i].bbox>> : i \in 1..Len(o)}
        = {<<o[i].text, o[i].bbox>> : i \in 1..Len(o)}
  BY <1>3
<1>8. ASSUME NEW p \in 1..Len(text), Covers(words, p)
      PROVE  \E w \in ToSet(words) : p \in w.start + 1..w.end
  BY <1>3, <1>4, <1>8 DEF Covers
<1> QED BY <1>3, <1>5, <1>6, <1>7, <1>8 DEF raw, text, words

\* Ingest does not refuse what create_job let in, the artifacts of every page are
\* stored before the job is past ingest, whatever attempts failed, and the page models
\* have the words of the document at the offsets that detection cuts them out at.
THEOREM IngestFaithful == Spec => []IngestIsFaithful
<1>1. IInv => IngestIsFaithful
  <2> SUFFICES ASSUME IInv PROVE IngestIsFaithful
    OBVIOUS
  <2>1. PrecheckPredictsIngest
    BY DEF IInv, IngestOK
  <2>2. StagedIsWhole
    BY DEF IInv, IngestOK, StagedIsWhole, AllKeys
  <2> QED BY <2>1, <2>2, TextsMatch DEF IngestIsFaithful
<1> QED BY <1>1, AlwaysIInv, PTL

-----------------------------------------------------------------------------
(* The burn *)

\* Rounding moves an edge by less than a pixel, so by less than the padding.
LEMMA PixelsAreNear ==
  ASSUME NEW x \in Int
  PROVE  /\ First(x) \in Int /\ Width(x) \in Int /\ Pixels(x) \in Int
         /\ First(x) <= Pixels(x) /\ Pixels(x) <= Width(x)
         /\ Pixels(x - BOX_PADDING_PTS) <= First(x) /\ Width(x) <= Pixels(x + BOX_PADDING_PTS)
<1>1. \A y \in Int : /\ y \div 6 \in Int /\ y % 6 \in 0..5 /\ y = 6 * (y \div 6) + (y % 6)
  OBVIOUS
<1>2. ASSUME NEW y \in Int
      PROVE  /\ First(y) \in Int /\ Width(y) \in Int /\ Pixels(y) \in Int
             /\ 6 * First(y) <= 25 * y /\ 25 * y <= 6 * First(y) + 5
             /\ 25 * y <= 6 * Width(y) /\ 6 * Width(y) <= 25 * y + 5
             /\ 6 * Pixels(y) <= 25 * y + 3 /\ 25 * y <= 6 * Pixels(y) + 3
             /\ First(y) <= Pixels(y) /\ Pixels(y) <= Width(y)
  <2> DEFINE n == 25 * y
             q == n \div 6
             r == n % 6
  <2>1. n \in Int /\ q \in Int /\ r \in 0..5 /\ n = 6 * q + r
    BY <1>1
  <2>2. First(y) = q
    BY DEF First, ScaleNumerator, ScaleDenominator
  <2>3. Width(y) = (n + 5) \div 6
    BY DEF Width, ScaleNumerator, ScaleDenominator
  <2>4. Pixels(y) \in {q, q + 1} /\ (Pixels(y) = q => r <= 3) /\ (Pixels(y) = q + 1 => r >= 3)
    <3>1. Pixels(y) = IF 2 * r < 6 \/ (2 * r = 6 /\ q % 2 = 0) THEN q ELSE q + 1
      BY DEF Pixels, Round, ScaleNumerator, ScaleDenominator
    <3> HIDE DEF q, r
    <3>2. CASE 2 * r < 6 \/ (2 * r = 6 /\ q % 2 = 0)
      <4>1. Pixels(y) = q /\ r <= 3
        BY <2>1, <3>1, <3>2
      <4> QED BY <2>1, <4>1
    <3>3. CASE ~ (2 * r < 6 \/ (2 * r = 6 /\ q % 2 = 0))
      <4>1. Pixels(y) = q + 1 /\ r >= 3
        BY <2>1, <3>1, <3>3
      <4> QED BY <2>1, <4>1
    <3> QED BY <3>2, <3>3
  <2> DEFINE w == (n + 5) \div 6
             z == (n + 5) % 6
  <2>5. w \in Int /\ z \in 0..5 /\ n + 5 = 6 * w + z
    BY <2>1, <1>1
  <2> HIDE DEF q, r, w, z
  <2> DEFINE m == n
  <2>6. m \in Int /\ m = 6 * q + r /\ m + 5 = 6 * w + z /\ m = 25 * y
    BY <2>1, <2>5
  <2> HIDE DEF m
  <2>7. r = 0 => w = q
    BY <2>1, <2>5, <2>6
  <2>8. r # 0 => w = q + 1
    BY <2>1, <2>5, <2>6
  <2>9. Width(y) = w
    BY <2>3 DEF w
  <2>10. CASE Pixels(y) = q
    BY <2>1, <2>2, <2>4, <2>5, <2>6, <2>7, <2>8, <2>9, <2>10
  <2>11. CASE Pixels(y) = q + 1
    BY <2>1, <2>2, <2>4, <2>5, <2>6, <2>7, <2>8, <2>9, <2>11
  <2> QED BY <2>4, <2>10, <2>11
<1>3. x - 2 \in Int /\ x + 2 \in Int
  OBVIOUS
<1>4. Pixels(x - 2) <= First(x)
  <2> DEFINE a == Pixels(x - 2)
             b == First(x)
  <2>1. a \in Int /\ b \in Int /\ 6 * a <= 25 * (x - 2) + 3 /\ 25 * x <= 6 * b + 5
    BY <1>2, <1>3
  <2> HIDE DEF a, b
  <2>2. a <= b
    BY <2>1
  <2> QED BY <2>2 DEF a, b
<1>5. Width(x) <= Pixels(x + 2)
  <2> DEFINE a == Width(x)
             b == Pixels(x + 2)
  <2>1. a \in Int /\ b \in Int /\ 6 * a <= 25 * x + 5 /\ 25 * (x + 2) <= 6 * b + 3
    BY <1>2, <1>3
  <2> HIDE DEF a, b
  <2>2. a <= b
    BY <2>1
  <2> QED BY <2>2 DEF a, b
<1> QED BY <1>2, <1>4, <1>5 DEF BOX_PADDING_PTS

\* A box holds the ink of its word, and nothing outside of the padding.
LEMMA BoxHoldsInk ==
  ASSUME NEW bbox \in Bbox, NEW width \in Nat
  PROVE  /\ \A p \in Inked(bbox, width) :
              p \in Box(bbox, width).left..Box(bbox, width).right /\ p \in 0..Width(width) - 1
         /\ \A p \in Box(bbox, width).left..Box(bbox, width).right :
              First(bbox[1] - BOX_PADDING_PTS) <= p /\ p <= Width(bbox[2] + BOX_PADDING_PTS)
<1> DEFINE a == bbox[1]
           b == bbox[2]
           c == Pixels(a - BOX_PADDING_PTS)
           d == Pixels(b + BOX_PADDING_PTS)
           e == Width(width)
           left == Max({0, c})
           right == Min({e, d})
           lo == First(a - BOX_PADDING_PTS)
           hi == Width(b + BOX_PADDING_PTS)
           fa == First(a)
           wb == Width(b)
<1>1. a \in Int /\ b \in Int /\ width \in Int /\ a - BOX_PADDING_PTS \in Int /\ b + BOX_PADDING_PTS \in Int
  BY DEF Bbox, BOX_PADDING_PTS
<1>2. /\ c \in Int /\ d \in Int /\ e \in Int /\ lo \in Int /\ hi \in Int /\ fa \in Int /\ wb \in Int
      /\ lo <= c /\ d <= hi /\ c <= fa /\ wb <= d
  BY <1>1, PixelsAreNear
<1>3. Box(bbox, width).left = left /\ Box(bbox, width).right = right
  BY DEF Box
<1>4. Inked(bbox, width) = {p \in fa..wb - 1 : p \in 0..e - 1}
  BY DEF Inked
<1> HIDE DEF a, b, c, d, e, lo, hi, fa, wb
<1>5. ASSUME NEW S \in SUBSET Int, NEW u \in S, \A v \in S : v <= u PROVE Max(S) = u
  <2>1. \A v \in S : u >= v
    BY <1>5
  <2>2. ASSUME NEW x \in S, \A y \in S : x >= y PROVE x = u
    BY <1>5, <2>2
  <2> QED BY <2>1, <2>2 DEF Max
<1>6. ASSUME NEW S \in SUBSET Int, NEW u \in S, \A v \in S : u <= v PROVE Min(S) = u
  <2>2. ASSUME NEW x \in S, \A y \in S : x <= y PROVE x = u
    BY <1>6, <2>2
  <2> QED BY <1>6, <2>2 DEF Min
<1>7. left \in Int /\ left >= 0 /\ left >= c /\ (left = 0 \/ left = c)
  <2>1. CASE c <= 0
    <3>1. left = 0
      BY <1>2, <1>5, <2>1
    <3> QED BY <1>2, <2>1, <3>1
  <2>2. CASE c > 0
    <3>1. left = c
      BY <1>2, <1>5, <2>2
    <3> QED BY <1>2, <2>2, <3>1
  <2> QED BY <1>2, <2>1, <2>2
<1>8. right \in Int /\ right <= e /\ right <= d /\ (right = e \/ right = d)
  <2>1. CASE e <= d
    <3>1. right = e
      BY <1>2, <1>6, <2>1
    <3> QED BY <1>2, <2>1, <3>1
  <2>2. CASE e > d
    <3>1. right = d
      BY <1>2, <1>6, <2>2
    <3> QED BY <1>2, <2>2, <3>1
  <2> QED BY <1>2, <2>1, <2>2
<1> HIDE DEF left, right
<1>9. ASSUME NEW p \in fa..wb - 1, p \in 0..e - 1 PROVE p \in left..right
  BY <1>2, <1>7, <1>8, <1>9
<1>10. ASSUME NEW p \in left..right PROVE lo <= p /\ p <= hi
  BY <1>2, <1>7, <1>8
<1>11. \A p \in Inked(bbox, width) : p \in left..right /\ p \in 0..e - 1
  BY <1>4, <1>9
<1> QED BY <1>3, <1>10, <1>11 DEF lo, hi, e, a, b

\* The page that apply built, as it is painted.
LEMMA RebuiltPage ==
  ASSUME IInv, Rebuilt
  PROVE  /\ pdf \in PDF /\ DOMAIN output.pages = 1..Len(pdf.pages)
         /\ \A n \in 1..Len(pdf.pages) :
              /\ output.pages[n].image = pdf.pages[n]
              /\ output.pages[n].painted
                   = draw_boxes(spans_by_page(project_approved_spans, n), pdf.pages[n].width)
         /\ spans \in Seq(SpanRow) /\ DOMAIN spans = 1..Len(spans)
         /\ \A s \in project_approved_spans : s.page_number \in 1..Len(pdf.pages)
<1>1. output = rebuild_redacted_pdf(pdf, project_approved_spans) /\ pdf \in PDF
  BY DEF Rebuilt, IInv, StateOK
<1>2. validate_page_numbers(project_approved_spans, Len(pdf.pages))
  BY DEF Rebuilt, apply_raises
<1>3. spans \in Seq(SpanRow) /\ DOMAIN spans = 1..Len(spans)
  BY DEF IInv, ReviewOK, ReviewState, Review
<1> QED BY <1>1, <1>2, <1>3 DEF rebuild_redacted_pdf, validate_page_numbers

\* On the pages that are not turned, in a document that passed the gate, nothing is
\* left to see of a word that an approved span has the box of, and outside of the
\* padding of the approved boxes nothing is painted.
THEOREM BurnExact == Spec => []BurnIsExact
<1>1. IInv => BurnCoversWords
  <2> SUFFICES ASSUME IInv, Passed, NEW i \in DOMAIN spans, disposition[i] = "approved",
                      ~ output.pages[spans[i].page_number].image.rotated,
                      NEW w \in ToSet(output.pages[spans[i].page_number].image.words),
                      w.bbox \in ToSet(spans[i].bboxes)
               PROVE  Covered(output.pages[spans[i].page_number], w)
    BY DEF BurnCoversWords, ApprovedAsFound
  <2> DEFINE n == spans[i].page_number
             s == [page_number |-> spans[i].page_number, bboxes |-> spans[i].bboxes, text |-> spans[i].text]
             width == pdf.pages[n].width
             bbox == w.bbox
  <2>0. Rebuilt
    BY DEF IInv, BurnOK
  <2>1. s \in project_approved_spans
    BY DEF project_approved_spans
  <2>2. n \in 1..Len(pdf.pages) /\ pdf \in PDF /\ spans[i] \in SpanRow
    BY <2>0, <2>1, RebuiltPage
  <2>3. /\ output.pages[n].image = pdf.pages[n]
        /\ output.pages[n].painted = draw_boxes(spans_by_page(project_approved_spans, n), width)
    BY <2>0, <2>2, RebuiltPage
  <2>4. width \in Nat
    BY <2>2, UploadType
  <2>5. bbox \in Bbox
    <3>1. spans[i].bboxes \in Seq(Bbox)
      BY <2>2 DEF SpanRow
    <3> QED BY <3>1 DEF ToSet
  <2>6. bbox \in Boxes(spans_by_page(project_approved_spans, n))
    <3>1. s \in spans_by_page(project_approved_spans, n) /\ s.bboxes = spans[i].bboxes
      BY <2>1 DEF spans_by_page
    <3> HIDE DEF s
    <3> QED BY <3>1 DEF Boxes
  <2>7. Ink(output.pages[n], w) = Inked(bbox, width)
    BY <2>3 DEF Ink, Shown
  <2>8. ASSUME NEW p \in Inked(bbox, width)
        PROVE  p \in draw_boxes(spans_by_page(project_approved_spans, n), width)
    <3> HIDE DEF bbox, width
    <3>1. p \in Box(bbox, width).left..Box(bbox, width).right /\ p \in 0..Width(width) - 1
      BY <2>4, <2>5, BoxHoldsInk
    <3> QED BY <2>6, <3>1 DEF draw_boxes
  <2> QED BY <2>3, <2>7, <2>8 DEF Covered
<1>2. IInv => OnlyApprovedIsBurned
  <2> SUFFICES ASSUME IInv, output # none, NEW n \in DOMAIN output.pages,
                      ~ output.pages[n].image.rotated, NEW p \in output.pages[n].painted
               PROVE  \E i \in DOMAIN spans : \E bbox \in ToSet(spans[i].bboxes) :
                        /\ disposition[i] = "approved" /\ spans[i].page_number = n
                        /\ First(bbox[1] - BOX_PADDING_PTS) <= p /\ p <= Width(bbox[2] + BOX_PADDING_PTS)
    BY DEF OnlyApprovedIsBurned
  <2> DEFINE width == pdf.pages[n].width
  <2>0. Rebuilt
    BY DEF IInv, BurnOK
  <2>1. n \in 1..Len(pdf.pages) /\ pdf \in PDF
    BY <2>0, RebuiltPage
  <2>2. p \in draw_boxes(spans_by_page(project_approved_spans, n), width)
    BY <2>0, <2>1, RebuiltPage
  <2>3. width \in Nat
    BY <2>1, UploadType
  <2> HIDE DEF width
  <2>4. PICK bbox \in Boxes(spans_by_page(project_approved_spans, n)) :
          p \in Box(bbox, width).left..Box(bbox, width).right
    BY <2>2 DEF draw_boxes
  <2>5. PICK s \in project_approved_spans : s.page_number = n /\ bbox \in ToSet(s.bboxes)
    BY <2>4 DEF Boxes, spans_by_page
  <2>6. PICK i \in DOMAIN spans : /\ disposition[i] = "approved"
                                  /\ spans[i].page_number = n /\ bbox \in ToSet(spans[i].bboxes)
    BY <2>5 DEF project_approved_spans
  <2>7. bbox \in Bbox
    <3>1. spans[i] \in SpanRow
      BY <2>0, RebuiltPage
    <3>2. spans[i].bboxes \in Seq(Bbox)
      BY <3>1 DEF SpanRow
    <3> QED BY <2>6, <3>2 DEF ToSet
  <2>8. First(bbox[1] - BOX_PADDING_PTS) <= p /\ p <= Width(bbox[2] + BOX_PADDING_PTS)
    BY <2>3, <2>4, <2>7, BoxHoldsInk
  <2> QED BY <2>6, <2>8
<1> QED BY <1>1, <1>2, AlwaysIInv, PTL DEF BurnIsExact

-----------------------------------------------------------------------------
(* The words of a text and its normal form *)

\* Words with one blank between any two of them.
Gaps(ws) == [i \in 1..Len(ws) |-> IF i = 1 THEN ws[i] ELSE <<"blank">> \o ws[i]]

Glued(ws) == FlattenSeq(Gaps(ws))

(* Every word but the first is preceded by one blank. *)
LEMMA GapsType ==
  ASSUME NEW ws \in Seq(Text)
  PROVE  /\ Gaps(ws) \in Seq(Text) /\ Len(Gaps(ws)) = Len(ws) /\ <<"blank">> \in Text
         /\ \A i \in 1..Len(ws) : Gaps(ws)[i] = IF i = 1 THEN ws[i] ELSE <<"blank">> \o ws[i]
<1>1. Len(ws) \in Nat /\ \A i \in 1..Len(ws) : ws[i] \in Text
  OBVIOUS
<1>2. "blank" \in STRING
  BY StringAssumption DEF Space
<1>3. <<"blank">> \in Text /\ \A v, w \in Text : v \o w \in Text
  BY <1>2 DEF Text
<1>4. \A i \in 1..Len(ws) : (IF i = 1 THEN ws[i] ELSE <<"blank">> \o ws[i]) \in Text
  BY <1>1, <1>3
<1> QED BY <1>1, <1>3, <1>4 DEF Gaps

(* The glued words are what any function with the recursion of the concatenation ends in. *)
LEMMA GluedUnique ==
  ASSUME NEW ws \in Seq(Text), NEW f, f[0] = << >>,
         \A k \in 1..Len(ws) : f[k] = f[k - 1] \o Gaps(ws)[k]
  PROVE  Glued(ws) = f[Len(ws)]
<1> DEFINE seqs == Gaps(ws)
<1>1. seqs \in Seq(Seq(STRING)) /\ Len(seqs) = Len(ws)
  BY GapsType DEF Text
<1>2. \A k \in 1..Len(seqs) : f[k] = f[k - 1] \o seqs[k]
  BY <1>1
<1> HIDE DEF seqs
<1>3. FlattenSeq(seqs) = f[Len(seqs)]
  BY <1>1, <1>2, FlattenUnique
<1> QED BY <1>1, <1>3 DEF Glued, seqs

(* The glued words come from such a function. *)
LEMMA GluedUpTo ==
  ASSUME NEW ws \in Seq(Text)
  PROVE  LET f == FlatUpTo(Gaps(ws)) IN
         /\ f \in [0..Len(ws) -> Text] /\ f[0] = << >> /\ Glued(ws) = f[Len(ws)]
         /\ \A k \in 1..Len(ws) : f[k] = f[k - 1] \o Gaps(ws)[k]
         /\ Glued(ws) \in Text
<1> DEFINE seqs == Gaps(ws)
<1>1. seqs \in Seq(Seq(STRING)) /\ Len(seqs) = Len(ws) /\ Len(ws) \in Nat
  BY GapsType DEF Text
<1> HIDE DEF seqs
<1>2. /\ FlattenSeq(seqs) = FlatUpTo(seqs)[Len(seqs)]
      /\ FlatUpTo(seqs) \in [0..Len(seqs) -> Seq(STRING)]
      /\ FlatUpTo(seqs)[0] = << >>
      /\ \A i \in 1..Len(seqs) : FlatUpTo(seqs)[i] = FlatUpTo(seqs)[i - 1] \o seqs[i]
  BY <1>1, FlattenDefined
<1>3. Len(ws) \in 0..Len(ws)
  BY <1>1
<1> QED BY <1>1, <1>2, <1>3 DEF Glued, seqs, Text

(* Gluing one more word adds a blank and the word. *)
LEMMA GluedAppend ==
  ASSUME NEW ws \in Seq(Text), NEW w \in Text
  PROVE  /\ Append(ws, w) \in Seq(Text)
         /\ Glued(Append(ws, w)) = IF ws = << >> THEN w ELSE (Glued(ws) \o <<"blank">>) \o w
<1> DEFINE n == Len(ws)
           longer == Append(ws, w)
           f == FlatUpTo(Gaps(ws))
           e == IF ws = << >> THEN w ELSE <<"blank">> \o w
           g == [k \in 0..n + 1 |-> IF k <= n THEN f[k] ELSE f[n] \o e]
<1>1. n \in Nat /\ longer \in Seq(Text) /\ Len(longer) = n + 1 /\ longer[n + 1] = w
      /\ (\A i \in 1..n : longer[i] = ws[i]) /\ (ws = << >> <=> n = 0)
  OBVIOUS
<1>2. /\ f \in [0..n -> Text] /\ f[0] = << >> /\ Glued(ws) = f[n]
      /\ \A k \in 1..n : f[k] = f[k - 1] \o Gaps(ws)[k]
  BY GluedUpTo
<1> HIDE DEF longer, f, n
<1>3. \A i \in 1..n : Gaps(longer)[i] = Gaps(ws)[i]
  <2>1. \A i \in 1..Len(ws) : Gaps(ws)[i] = IF i = 1 THEN ws[i] ELSE <<"blank">> \o ws[i]
    BY GapsType
  <2>2. \A i \in 1..Len(longer) : Gaps(longer)[i] = IF i = 1 THEN longer[i] ELSE <<"blank">> \o longer[i]
    BY <1>1, GapsType
  <2> QED BY <1>1, <2>1, <2>2 DEF n
<1>4. Gaps(longer)[n + 1] = e
  <2>1. \A i \in 1..Len(longer) : Gaps(longer)[i] = IF i = 1 THEN longer[i] ELSE <<"blank">> \o longer[i]
    BY <1>1, GapsType
  <2> QED BY <1>1, <2>1
<1>5. \A k \in 1..n + 1 : g[k] = g[k - 1] \o Gaps(longer)[k]
  <2> SUFFICES ASSUME NEW k \in 1..n + 1 PROVE g[k] = g[k - 1] \o Gaps(longer)[k]
    OBVIOUS
  <2> HIDE DEF e
  <2>1. CASE k <= n
    <3>1. g[k] = f[k] /\ g[k - 1] = f[k - 1] /\ k \in 1..n
      BY <1>1, <2>1
    <3> QED BY <3>1, <1>2, <1>3
  <2>2. CASE k = n + 1
    <3>1. g[k] = f[n] \o e /\ g[k - 1] = f[n]
      BY <1>1, <2>2
    <3> QED BY <3>1, <2>2, <1>4
  <2>3. k <= n \/ k = n + 1
    BY <1>1
  <2> HIDE DEF g
  <2> QED BY <2>1, <2>2, <2>3
<1>6. g[0] = << >> /\ g[n + 1] = f[n] \o e
  BY <1>1, <1>2
<1> HIDE DEF g, e
<1>7. Glued(longer) = f[n] \o e
  BY <1>1, <1>5, <1>6, GluedUnique
<1>8. f[n] \in Text /\ <<"blank">> \in Text
  <2>1. n \in 0..n
    BY <1>1
  <2> QED BY <2>1, <1>2, GapsType
<1>9. /\ \A u, v, x \in Text : (u \o v) \o x = u \o (v \o x)
      /\ \A u \in Text : << >> \o u = u
  BY Together DEF Text
<1>10. CASE ws = << >>
  <2>1. f[n] = << >> /\ e = w
    BY <1>1, <1>2, <1>10 DEF e
  <2> QED BY <1>1, <1>7, <1>9, <1>10, <2>1 DEF longer
<1>11. CASE ws # << >>
  <2>1. e = <<"blank">> \o w
    BY <1>11 DEF e
  <2>2. f[n] \o (<<"blank">> \o w) = (f[n] \o <<"blank">>) \o w
    BY <1>8, <1>9
  <2> QED BY <1>1, <1>2, <1>7, <1>11, <2>1, <2>2 DEF longer
<1> QED BY <1>10, <1>11

(* A character added to the last word is added to the glued words. *)
LEMMA GluedGrow ==
  ASSUME NEW ws \in Seq(Text), ws # << >>, NEW c \in STRING
  PROVE  LET grown == [ws EXCEPT ![Len(ws)] = Append(@, c)] IN
         grown \in Seq(Text) /\ grown # << >> /\ Glued(grown) = Append(Glued(ws), c)
<1> DEFINE n == Len(ws)
           grown == [ws EXCEPT ![n] = Append(@, c)]
           f == FlatUpTo(Gaps(ws))
           g == [k \in 0..n |-> IF k < n THEN f[k] ELSE Append(f[n], c)]
<1>1. n \in Nat \ {0} /\ ws[n] \in Text
  OBVIOUS
<1>2. \A v \in Text : Append(v, c) \in Text
  BY Together DEF Text
<1>3. /\ grown \in Seq(Text) /\ Len(grown) = n /\ grown[n] = Append(ws[n], c)
      /\ \A i \in 1..n : i # n => grown[i] = ws[i]
  <2> DEFINE x == Append(ws[n], c)
  <2>1. grown = [ws EXCEPT ![n] = x]
    OBVIOUS
  <2>4. x \in Text
    BY <1>1, <1>2
  <2>3. x \in Text /\ n \in 1..n
    <3> HIDE DEF x, n
    <3> QED BY <2>4, <1>1
  <2> HIDE DEF x, grown
  <2>2. /\ [ws EXCEPT ![n] = x] \in Seq(Text) /\ Len([ws EXCEPT ![n] = x]) = n
        /\ [ws EXCEPT ![n] = x][n] = x
        /\ \A i \in 1..n : i # n => [ws EXCEPT ![n] = x][i] = ws[i]
    BY <2>3, Grown
  <2> QED BY <2>1, <2>2 DEF x
<1>4. /\ f \in [0..n -> Text] /\ f[0] = << >> /\ Glued(ws) = f[n]
      /\ \A k \in 1..n : f[k] = f[k - 1] \o Gaps(ws)[k]
  BY GluedUpTo
<1>5. /\ \A u, v \in Text : Append(u \o v, c) = u \o Append(v, c)
      /\ \A u, v \in Text : u \o v \in Text
  <2> DEFINE S == STRING
  <2>1. c \in S
    OBVIOUS
  <2> HIDE DEF S
  <2>2. /\ \A u, v \in Seq(S) : \A d \in S : Append(u \o v, d) = u \o Append(v, d)
        /\ \A u, v \in Seq(S) : u \o v \in Seq(S)
    BY Together
  <2>3. /\ \A u, v \in Seq(S) : Append(u \o v, c) = u \o Append(v, c)
        /\ \A u, v \in Seq(S) : u \o v \in Seq(S)
    BY <2>1, <2>2
  <2> QED BY <2>3 DEF S, Text
<1>6. /\ \A i \in 1..n : Gaps(ws)[i] = IF i = 1 THEN ws[i] ELSE <<"blank">> \o ws[i]
      /\ \A i \in 1..n : Gaps(ws)[i] \in Text
      /\ <<"blank">> \in Text
  <2>1. /\ Gaps(ws) \in Seq(Text) /\ Len(Gaps(ws)) = Len(ws) /\ <<"blank">> \in Text
        /\ \A i \in 1..Len(ws) : Gaps(ws)[i] = IF i = 1 THEN ws[i] ELSE <<"blank">> \o ws[i]
    BY GapsType
  <2> QED BY <2>1
<1> HIDE DEF grown, f, n
<1>7. \A i \in 1..n : Gaps(grown)[i] = IF i = 1 THEN grown[i] ELSE <<"blank">> \o grown[i]
  BY <1>3, GapsType
<1>8. \A i \in 1..n : i # n => Gaps(grown)[i] = Gaps(ws)[i]
  BY <1>3, <1>6, <1>7
<1>9. Gaps(grown)[n] = Append(Gaps(ws)[n], c)
  <2>1. n \in 1..n
    BY <1>1
  <2>2. Append(<<"blank">> \o ws[n], c) = <<"blank">> \o Append(ws[n], c)
    BY <1>1, <1>5, <1>6
  <2> QED BY <2>1, <2>2, <1>3, <1>6, <1>7
<1>10. \A k \in 1..n : g[k] = g[k - 1] \o Gaps(grown)[k]
  <2> SUFFICES ASSUME NEW k \in 1..n PROVE g[k] = g[k - 1] \o Gaps(grown)[k]
    OBVIOUS
  <2>1. CASE k < n
    <3>1. g[k] = f[k] /\ g[k - 1] = f[k - 1]
      BY <1>1, <2>1, SMT
    <3>3. k # n
      BY <1>1, <2>1
    <3>4. Gaps(grown)[k] = Gaps(ws)[k]
      BY <3>3, <1>8
    <3>5. f[k] = f[k - 1] \o Gaps(ws)[k]
      BY <1>4
    <3>2. f[k] = f[k - 1] \o Gaps(grown)[k]
      BY <3>4, <3>5
    <3> HIDE DEF g
    <3> QED BY <3>1, <3>2
  <2>2. CASE k = n
    <3>1. g[k] = Append(f[n], c) /\ g[k - 1] = f[n - 1]
      BY <1>1, <2>2
    <3>2. f[n - 1] \in Text /\ Gaps(ws)[n] \in Text /\ f[n] = f[n - 1] \o Gaps(ws)[n]
      BY <1>1, <1>4, <1>6
    <3>3. Append(f[n - 1] \o Gaps(ws)[n], c) = f[n - 1] \o Append(Gaps(ws)[n], c)
      BY <3>2, <1>5
    <3> QED BY <3>1, <3>2, <3>3, <2>2, <1>9
  <2> QED BY <1>1, <2>1, <2>2
<1>11. g[0] = << >> /\ g[n] = Append(f[n], c)
  BY <1>1, <1>4
<1> HIDE DEF g
<1>12. Glued(grown) = Append(f[n], c)
  BY <1>3, <1>10, <1>11, GluedUnique
<1>13. grown # << >>
  BY <1>1, <1>3
<1> QED BY <1>3, <1>4, <1>12, <1>13 DEF grown, n

\* The words of the first k characters.
WordsUpTo(text) ==
  CHOOSE f : f =
    [k \in 0..Len(text) |->
       IF k = 0 THEN << >>
       ELSE LET words == f[k - 1]
                c == casefold(text[k])
            IN IF text[k] \in Space THEN words
               ELSE IF k = 1 \/ text[k - 1] \in Space THEN Append(words, <<c>>)
               ELSE [words EXCEPT ![Len(words)] = Append(@, c)]]

\* One more character.
Scanned(text, words, k) ==
  LET c == casefold(text[k])
  IN IF text[k] \in Space THEN words
     ELSE IF k = 1 \/ text[k - 1] \in Space THEN Append(words, <<c>>)
     ELSE [words EXCEPT ![Len(words)] = Append(@, c)]

(* Casefolding a character gives a character. *)
LEMMA CasefoldType ==
  ASSUME NEW c \in STRING
  PROVE  casefold(c) \in STRING
<1>1. casefold(c) \in {"a", "b", c}
  BY DEF casefold
<1>2. "a" \in STRING /\ "b" \in STRING
  BY StringAssumption DEF Lower
<1> QED BY <1>1, <1>2

(* Reading one more character gives words again. *)
LEMMA ScannedType ==
  ASSUME NEW text \in Text, NEW words \in Seq(Text), NEW k \in 1..Len(text)
  PROVE  Scanned(text, words, k) \in Seq(Text)
<1> DEFINE c == casefold(text[k])
<1>1. text[k] \in STRING
  BY DEF Text
<1>2. c \in STRING
  BY <1>1, CasefoldType
<1> HIDE DEF c
<1>3. <<c>> \in Text
  BY <1>2, OneElement DEF Text
<1>4. Append(words, <<c>>) \in Seq(Text)
  BY <1>3
<1>5. [words EXCEPT ![Len(words)] = Append(@, c)] \in Seq(Text)
  <2>1. CASE words = << >>
    <3>1. Len(words) \notin DOMAIN words
      BY <2>1
    <3>2. [words EXCEPT ![Len(words)] = Append(@, c)] = words
      BY <3>1
    <3> QED BY <3>2
  <2>2. CASE words # << >>
    BY <2>2, <1>2, GluedGrow
  <2> QED BY <2>1, <2>2
<1> QED BY <1>4, <1>5 DEF Scanned, c

(* The words of a text are read off it from left to right. *)
LEMMA WordsDefined ==
  ASSUME NEW text \in Text
  PROVE  LET f == WordsUpTo(text) IN
         /\ WordsIn(text) = f[Len(text)]
         /\ f \in [0..Len(text) -> Seq(Text)] /\ f[0] = << >>
         /\ \A k \in 1..Len(text) : f[k] = Scanned(text, f[k - 1], k)
<1> DEFINE n == Len(text)
           W == Seq(Text)
           step == [p \in W \X (1..n) |-> Scanned(text, p[1], p[2])]
           Good(f) == f = [k \in 0..n |->
                 IF k = 0 THEN << >>
                 ELSE LET words == f[k - 1]
                          c == casefold(text[k])
                      IN IF text[k] \in Space THEN words
                         ELSE IF k = 1 \/ text[k - 1] \in Space THEN Append(words, <<c>>)
                         ELSE [words EXCEPT ![Len(words)] = Append(@, c)]]
           e == << >>
           it == Iterated(n, e, step)
           f == CHOOSE f : Good(f)
<1>1. n \in Nat /\ e \in W
  BY DEF Text
<1>2. step \in Steps(n, W)
  BY ScannedType DEF Steps
<1>3. /\ it \in [0..n -> W] /\ it[0] = e
      /\ \A k \in 1..n : it[k] = step[<<it[k - 1], k>>]
  <2> HIDE DEF step, n, W, e
  <2> QED BY <1>1, <1>2, Recursion
<1> HIDE DEF it, n, W
<1>4. ASSUME NEW k \in 1..n PROVE it[k] = Scanned(text, it[k - 1], k)
  <2>1. it[k - 1] \in W
    BY <1>1, <1>3
  <2>2. <<it[k - 1], k>> \in W \X (1..n)
    BY <2>1
  <2> QED BY <2>2, <1>3
<1> HIDE DEF step
<1>5. Good(it)
  <2>1. ASSUME NEW k \in 0..n PROVE it[k] = IF k = 0 THEN << >> ELSE Scanned(text, it[k - 1], k)
    <3>1. CASE k = 0
      BY <3>1, <1>3
    <3>2. CASE k # 0
      <4>1. k \in 1..n
        BY <3>2, <1>1
      <4> QED BY <4>1, <1>4, <3>2
    <3> QED BY <3>1, <3>2
  <2> QED BY <2>1, <1>3 DEF Scanned
<1>6. Good(f)
  <2> HIDE DEF Good
  <2> QED BY <1>5
<1>7. f = WordsUpTo(text)
  BY DEF WordsUpTo, n
<1>8. WordsIn(text) = f[n]
  BY DEF WordsIn, n
<1>16. f = [k \in 0..n |-> IF k = 0 THEN << >> ELSE Scanned(text, f[k - 1], k)]
  BY <1>6 DEF Scanned
<1> HIDE DEF f
<1>9. f[0] = << >> /\ DOMAIN f = 0..n
  BY <1>1, <1>16
<1>10. ASSUME NEW k \in 1..n PROVE f[k] = Scanned(text, f[k - 1], k)
  <2>1. k \in 0..n /\ k # 0
    BY <1>1
  <2> QED BY <2>1, <1>16
<1>14. f = [k \in 0..n |-> f[k]]
  BY <1>16
<1> DEFINE T == {k \in Nat : f[k] \in W}
<1>11. 0 \in T
  BY <1>1, <1>9
<1>12. ASSUME NEW k \in 0..n - 1, k \in T PROVE k + 1 \in T
  <2>1. k + 1 \in 1..n /\ (k + 1) - 1 = k /\ k + 1 \in Nat /\ f[k] \in Seq(Text)
    BY <1>1, <1>12 DEF W
  <2>2. Scanned(text, f[k], k + 1) \in W
    BY <2>1, ScannedType DEF n, W
  <2> QED BY <2>1, <2>2, <1>10
<1>13. 0..n \subseteq T
  <2> HIDE DEF T
  <2> QED BY <1>1, <1>11, <1>12, IntervalInduction
<1>15. f \in [0..n -> W]
  BY <1>13, <1>14
<1> QED BY <1>7, <1>8, <1>9, <1>10, <1>15 DEF n, W

\* The normal form of a text is its words with one blank between any two of them.
LEMMA NormalGlued ==
  ASSUME NEW text \in Text
  PROVE  /\ WordsIn(text) \in Seq(Text)
         /\ normalize_text(text) = Glued(WordsIn(text))
         /\ WordsIn(text) # << >> => \E j \in 1..Len(text) : text[j] \notin Space
<1> DEFINE n == Len(text)
           Kept(i) == \/ text[i] \notin Space
                      \/ /\ \E j \in 1..i - 1 : text[j] \notin Space
                         /\ i < n /\ text[i + 1] \notin Space
           t == [i \in 1..n |-> IF text[i] \in Space THEN "blank" ELSE casefold(text[i])]
           P == {i \in 1..n : Kept(i)}
           g == PickedUpTo(t, P)
           U == WordsUpTo(text)
           Blank(k) == IF k # 0 /\ k \in P /\ text[k] \in Space THEN <<"blank">> ELSE << >>
           Met(k) == \E j \in 1..k : text[j] \notin Space
           Good(k) == (U[k] # << >> <=> Met(k)) /\ g[k] = Glued(U[k]) \o Blank(k)
           V == {k \in Nat : Good(k)}
<1>1. n \in Nat /\ \A i \in 1..n : text[i] \in STRING
  BY DEF Text
<1>2. "blank" \in STRING /\ \A i \in 1..n : casefold(text[i]) \in STRING
  <2>1. "blank" \in STRING
    BY StringAssumption DEF Space
  <2> QED BY <2>1, <1>1, CasefoldType
<1>3. /\ t \in Seq(STRING) /\ Len(t) = n
      /\ \A i \in 1..n : t[i] = IF text[i] \in Space THEN "blank" ELSE casefold(text[i])
  <2>1. t \in [1..n -> STRING]
    BY <1>2
  <2>2. \A i \in 1..n : t[i] = IF text[i] \in Space THEN "blank" ELSE casefold(text[i])
    OBVIOUS
  <2> HIDE DEF t
  <2> QED BY <1>1, <2>1, <2>2
<1>4. normalize_text(text) = Picked(t, P)
  BY DEF normalize_text
<1> HIDE DEF t
<1>5. /\ Picked(t, P) = g[n] /\ g[0] = << >>
      /\ \A k \in 1..n : g[k] = IF k \in P THEN Append(g[k - 1], t[k]) ELSE g[k - 1]
  <2> HIDE DEF P, g
  <2>1. /\ Picked(t, P) = PickedUpTo(t, P)[Len(t)]
        /\ PickedUpTo(t, P)[0] = << >>
        /\ \A k \in 1..Len(t) :
             PickedUpTo(t, P)[k] = IF k \in P THEN Append(PickedUpTo(t, P)[k - 1], t[k])
                                   ELSE PickedUpTo(t, P)[k - 1]
    BY <1>3, PickedDefined
  <2> QED BY <1>3, <2>1 DEF g
<1>6. /\ WordsIn(text) = U[n] /\ U \in [0..n -> Seq(Text)] /\ U[0] = << >>
      /\ \A k \in 1..n : U[k] = Scanned(text, U[k - 1], k)
  BY WordsDefined
<1> HIDE DEF g, U
<1>7. /\ \A w \in Seq(Text) : Glued(w) \in Text
      /\ \A w \in Text : w \o << >> = w /\ << >> \o w = w
      /\ \A c \in STRING : <<c>> \in Text
      /\ \A w \in Text : \A c \in STRING : Append(w, c) = w \o <<c>>
      /\ << >> \in Text
  <2> DEFINE S == STRING
  <2> HIDE DEF S
  <2>1. /\ \A w \in Seq(S) : w \o << >> = w /\ << >> \o w = w
        /\ \A w \in Seq(S) : \A c \in S : Append(w, c) = w \o <<c>>
        /\ << >> \in Seq(S)
    BY Together
  <2>2. \A c \in S : <<c>> \in Seq(S)
    BY OneElement
  <2>3. \A w \in Seq(Text) : Glued(w) \in Text
    BY GluedUpTo
  <2> QED BY <2>1, <2>2, <2>3 DEF S, Text
<1>8. Glued(<< >>) = << >>
  <2> DEFINE ws == << >>
  <2>1. ws \in Seq(Text) /\ Len(ws) = 0
    OBVIOUS
  <2> HIDE DEF ws
  <2>2. Glued(ws) = FlatUpTo(Gaps(ws))[Len(ws)] /\ FlatUpTo(Gaps(ws))[0] = << >>
    BY <2>1, GluedUpTo
  <2> QED BY <2>1, <2>2 DEF ws
<1>9. Good(0)
  <2>1. ~ Met(0) /\ Blank(0) = << >> /\ Glued(U[0]) \in Text
    BY <1>6, <1>7, <1>8
  <2> HIDE DEF Blank, Met
  <2> QED BY <2>1, <1>5, <1>6, <1>7, <1>8
<1>10. ASSUME NEW k \in 0..n - 1, Good(k) PROVE Good(k + 1)
  <2> DEFINE m == k + 1
             c == casefold(text[m])
  <2>1. /\ k \in Nat /\ m \in 1..n /\ m # 0 /\ m - 1 = k /\ k < n /\ k \in 0..n
        /\ (k # 0 => k \in 1..n) /\ (m = 1 <=> k = 0)
    BY <1>1
  <2>2. /\ U[k] \in Seq(Text) /\ Glued(U[k]) \in Text /\ c \in STRING
    BY <1>2, <1>6, <1>7, <2>1
  <2>3. U[m] = Scanned(text, U[k], m) /\ g[m] = IF m \in P THEN Append(g[k], t[m]) ELSE g[k]
    BY <2>1, <1>5, <1>6
  <2>4. Met(m) <=> Met(k) \/ text[m] \notin Space
    <3>1. 1..m = 1..k \cup {m}
      BY <2>1
    <3> QED BY <3>1
  <2>5. /\ (U[k] # << >> <=> Met(k)) /\ g[k] = Glued(U[k]) \o Blank(k)
    BY <1>10
  <2>6. m \in P <=> (text[m] \notin Space \/ (Met(k) /\ m < n /\ text[m + 1] \notin Space))
    BY <2>1
  <2>7. k # 0 => (k \in P <=> (text[k] \notin Space \/ (Met(k - 1) /\ text[m] \notin Space)))
    BY <2>1
  <2>8. t[m] = IF text[m] \in Space THEN "blank" ELSE c
    BY <1>3, <2>1
  <2>9. k # 0 /\ text[k] \in Space => (Met(k) <=> Met(k - 1))
    <3> SUFFICES ASSUME k # 0, text[k] \in Space PROVE Met(k) <=> Met(k - 1)
      OBVIOUS
    <3>1. 1..k = 1..k - 1 \cup {k}
      BY <2>1
    <3> QED BY <3>1
  <2>10. k = 0 => ~ Met(k)
    OBVIOUS
  <2>11. /\ Blank(k) = IF k # 0 /\ k \in P /\ text[k] \in Space THEN <<"blank">> ELSE << >>
         /\ Blank(m) = IF m \in P /\ text[m] \in Space THEN <<"blank">> ELSE << >>
    BY <2>1
  <2>12. k # 0 /\ text[k] \notin Space => Met(k)
    <3> SUFFICES ASSUME k # 0, text[k] \notin Space PROVE Met(k)
      OBVIOUS
    <3>1. k \in 1..k
      BY <2>1
    <3> QED BY <3>1
  <2> HIDE DEF Blank, Met, P, c
  <2>13. CASE text[m] \in Space
    <3>1. U[m] = U[k]
      BY <2>3, <2>13 DEF Scanned
    <3>2. Blank(k) = << >>
      BY <2>7, <2>11, <2>13
    <3>3. g[k] = Glued(U[k])
      BY <3>2, <2>2, <2>5, <1>7
    <3>4. CASE m \in P
      <4>1. g[m] = Append(Glued(U[k]), "blank")
        BY <3>3, <3>4, <2>3, <2>8, <2>13
      <4>2. Append(Glued(U[k]), "blank") = Glued(U[k]) \o <<"blank">>
        BY <1>2, <1>7, <2>2
      <4> QED BY <3>1, <3>4, <4>1, <4>2, <2>4, <2>5, <2>11, <2>13
    <3>5. CASE m \notin P
      <4>1. g[m] = Glued(U[k]) /\ Blank(m) = << >>
        BY <3>3, <3>5, <2>3, <2>11
      <4> QED BY <3>1, <4>1, <2>2, <2>4, <2>5, <2>13, <1>7
    <3> QED BY <3>4, <3>5
  <2>14. CASE text[m] \notin Space /\ (k = 0 \/ text[k] \in Space)
    <3>1. U[m] = Append(U[k], <<c>>)
      BY <2>1, <2>3, <2>14 DEF Scanned, c
    <3>2. m \in P /\ Blank(m) = << >>
      BY <2>6, <2>11, <2>14
    <3>3. g[m] = Append(g[k], c)
      BY <3>2, <2>3, <2>8, <2>14
    <3>4. <<c>> \in Text /\ U[m] # << >> /\ U[m] \in Seq(Text)
      <4>1. <<c>> \in Text
        BY <1>7, <2>2
      <4> DEFINE e == <<c>>
      <4> HIDE DEF e
      <4>2. e \in Text => Append(U[k], e) # << >> /\ Append(U[k], e) \in Seq(Text)
        BY <2>2
      <4> QED BY <4>1, <4>2, <3>1 DEF e
    <3>5. Glued(U[m]) = IF U[k] = << >> THEN <<c>> ELSE (Glued(U[k]) \o <<"blank">>) \o <<c>>
      <4> DEFINE e == <<c>>
      <4>1. e \in Text /\ U[m] = Append(U[k], e)
        BY <3>1, <3>4
      <4> HIDE DEF e
      <4>2. Glued(Append(U[k], e)) = IF U[k] = << >> THEN e ELSE (Glued(U[k]) \o <<"blank">>) \o e
        BY <2>2, <4>1, GluedAppend
      <4> QED BY <4>1, <4>2 DEF e
    <3>6. g[m] = Glued(U[m])
      <4>1. CASE U[k] = << >>
        <5>1. Blank(k) = << >>
          BY <4>1, <2>5, <2>7, <2>9, <2>11, <2>14
        <5>2. g[k] = << >>
          BY <4>1, <5>1, <2>5, <1>7, <1>8
        <5>3. g[m] = << >> \o <<c>>
          BY <5>2, <3>3, <2>2, <1>7
        <5> QED BY <5>3, <3>4, <3>5, <4>1, <1>7
      <4>2. CASE U[k] # << >>
        <5>1. k # 0 /\ k \in P /\ text[k] \in Space
          BY <4>2, <2>5, <2>7, <2>9, <2>10, <2>14
        <5>2. g[k] = Glued(U[k]) \o <<"blank">>
          BY <5>1, <2>5, <2>11
        <5>3. g[k] \in Text
          <6>1. <<"blank">> \in Text
            BY <1>2, <1>7
          <6> DEFINE a == Glued(U[k])
                     b == <<"blank">>
          <6>2. a \in Text /\ b \in Text /\ g[k] = a \o b
            BY <5>2, <6>1, <2>2
          <6> HIDE DEF a, b
          <6>3. \A v, w \in Text : v \o w \in Text
            BY Together DEF Text
          <6> QED BY <6>2, <6>3
        <5>4. Append(g[k], c) = g[k] \o <<c>>
          BY <5>3, <2>2, <1>7
        <5> QED BY <4>2, <5>2, <5>4, <3>3, <3>5
      <4> QED BY <4>1, <4>2
    <3>7. Glued(U[m]) \o << >> = Glued(U[m])
      BY <3>4, <1>7
    <3> QED BY <3>2, <3>4, <3>6, <3>7, <2>4, <2>14
  <2>15. CASE text[m] \notin Space /\ k # 0 /\ text[k] \notin Space
    <3>1. U[m] = [U[k] EXCEPT ![Len(U[k])] = Append(@, c)]
      BY <2>1, <2>3, <2>15 DEF Scanned, c
    <3>2. m \in P /\ Blank(m) = << >> /\ Blank(k) = << >>
      BY <2>6, <2>11, <2>15
    <3>3. g[m] = Append(g[k], c) /\ g[k] = Glued(U[k])
      <4>1. g[m] = Append(g[k], c)
        BY <3>2, <2>3, <2>8, <2>15
      <4> QED BY <4>1, <3>2, <2>2, <2>5, <1>7
    <3>4. U[k] # << >>
      BY <2>5, <2>12, <2>15
    <3>5. U[m] \in Seq(Text) /\ U[m] # << >> /\ Glued(U[m]) = Append(Glued(U[k]), c)
      BY <3>1, <3>4, <2>2, GluedGrow
    <3>6. Glued(U[m]) \o << >> = Glued(U[m])
      BY <3>5, <1>7
    <3> QED BY <3>2, <3>3, <3>5, <3>6, <2>4, <2>15
  <2> QED BY <2>13, <2>14, <2>15
<1>11. 0..n \subseteq V
  <2>1. 0 \in V
    BY <1>9
  <2>2. \A k \in 0..n - 1 : k \in V => k + 1 \in V
    <3> SUFFICES ASSUME NEW k \in 0..n - 1, Good(k) PROVE k + 1 \in Nat /\ Good(k + 1)
      <4> HIDE DEF Good
      <4> QED OBVIOUS
    <3> HIDE DEF Good
    <3> QED BY <1>10
  <2> HIDE DEF V
  <2> QED BY <1>1, <2>1, <2>2, IntervalInduction
<1>12. Good(n)
  <2> HIDE DEF Good
  <2>1. n \in 0..n
    BY <1>1
  <2> QED BY <2>1, <1>11
<1>13. Blank(n) = << >>
  <2>1. n # 0 => (n \in P => text[n] \notin Space)
    BY <1>1
  <2> QED BY <2>1
<1>14. U[n] \in Seq(Text) /\ Glued(U[n]) \o << >> = Glued(U[n])
  <2>1. n \in 0..n
    BY <1>1
  <2> QED BY <2>1, <1>6, <1>7
<1> HIDE DEF Blank, P
<1> QED BY <1>4, <1>5, <1>6, <1>12, <1>13, <1>14

\* Words in a row are in a row in the normal form.
LEMMA GluedPart ==
  ASSUME NEW vs \in Seq(Text), NEW ws \in SubSeqs(vs), ws # << >>
  PROVE  Glued(ws) \in SubSeqs(Glued(vs))
<1>1. PICK a \in 0..Len(vs), b \in 0..Len(vs) : ws = SubSeq(vs, a + 1, b)
  BY DEF SubSeqs
<1> DEFINE n == b - a
           F == FlatUpTo(Gaps(vs))
           G == FlatUpTo(Gaps(ws))
           X == IF a = 0 THEN << >> ELSE F[a] \o <<"blank">>
           Good(k) == F[a + k] = X \o G[k]
           V == {k \in Nat : k # 0 => Good(k)}
<1>2. Len(vs) \in Nat /\ a \in Nat /\ b \in Nat /\ a <= Len(vs) /\ b <= Len(vs)
      /\ \A i \in 1..Len(vs) : vs[i] \in Text
  OBVIOUS
<1>3. /\ n \in Nat \ {0} /\ ws \in Seq(Text) /\ Len(ws) = n
      /\ \A k \in 1..n : ws[k] = vs[a + k]
  <2>1. \A i \in (a + 1)..b : vs[i] \in Text
    BY <1>2
  <2>2. a + 1 \in Int /\ b \in Int
    BY <1>2
  <2> DEFINE from == a + 1
             part == SubSeq(vs, from, b)
  <2>3. /\ part \in Seq(Text)
        /\ Len(part) = IF from <= b THEN b - from + 1 ELSE 0
        /\ \A i \in 1..b - from + 1 : part[i] = vs[from + i - 1]
    <3> HIDE DEF from
    <3> QED BY <2>1, <2>2, SubSeqProperties DEF from
  <2> HIDE DEF part
  <2>4. ws = part
    BY <1>1 DEF part
  <2>5. from <= b
    BY <2>3, <2>4
  <2>6. n \in Nat \ {0} /\ b - from + 1 = n
    BY <2>5, <1>2
  <2>7. \A k \in 1..n : from + k - 1 = a + k
    BY <1>2, <2>6
  <2> QED BY <2>3, <2>4, <2>5, <2>6, <2>7
<1>4. n \in Nat \ {0} /\ a + n = b /\ (\A k \in 1..n : a + k \in 1..Len(vs) /\ a + k \in 0..Len(vs))
  BY <1>2, <1>3
<1> HIDE DEF n
<1>5. /\ F \in [0..Len(vs) -> Text] /\ F[0] = << >> /\ Glued(vs) = F[Len(vs)]
      /\ \A k \in 1..Len(vs) : F[k] = F[k - 1] \o Gaps(vs)[k]
  BY GluedUpTo
<1>6. /\ G \in [0..n -> Text] /\ G[0] = << >> /\ Glued(ws) = G[n]
      /\ \A k \in 1..n : G[k] = G[k - 1] \o Gaps(ws)[k]
  BY <1>3, GluedUpTo
<1>7. /\ <<"blank">> \in Text
      /\ \A i \in 1..Len(vs) : Gaps(vs)[i] = IF i = 1 THEN vs[i] ELSE <<"blank">> \o vs[i]
  BY GapsType
<1>8. \A i \in 1..n : Gaps(ws)[i] = IF i = 1 THEN ws[i] ELSE <<"blank">> \o ws[i]
  BY <1>3, GapsType
<1>9. /\ \A u, v \in Text : u \o v \in Text
      /\ \A u, v, w \in Text : (u \o v) \o w = u \o (v \o w)
      /\ \A u \in Text : u \o << >> = u /\ << >> \o u = u
      /\ << >> \in Text
  <2> DEFINE S == STRING
  <2> HIDE DEF S
  <2>1. /\ \A u, v \in Seq(S) : u \o v \in Seq(S)
        /\ \A u, v, w \in Seq(S) : (u \o v) \o w = u \o (v \o w)
        /\ << >> \in Seq(S) /\ \A u \in Seq(S) : u \o << >> = u /\ << >> \o u = u
    BY Together
  <2> QED BY <2>1 DEF S, Text
<1> HIDE DEF F, G
<1> DEFINE blank == <<"blank">>
<1>10. blank \in Text /\ F[a] \in Text /\ X = (IF a = 0 THEN << >> ELSE F[a] \o blank)
  <2>1. a \in 0..Len(vs)
    BY <1>2
  <2> QED BY <2>1, <1>5, <1>7
<1>11. /\ \A i \in 1..Len(vs) : Gaps(vs)[i] = IF i = 1 THEN vs[i] ELSE blank \o vs[i]
       /\ \A i \in 1..n : Gaps(ws)[i] = IF i = 1 THEN ws[i] ELSE blank \o ws[i]
  BY <1>7, <1>8
<1> HIDE DEF blank, X
<1>12. X \in Text
  BY <1>9, <1>10
<1>13. \A u, v, w \in Text : (u \o v) \o w = u \o (v \o w)
  BY <1>9
<1>14. Good(1)
  <2>1. 1 \in 1..n /\ a + 1 \in 1..Len(vs) /\ (a + 1) - 1 = a /\ 1 - 1 = 0
    BY <1>2, <1>4
  <2>2. F[a + 1] = F[a] \o Gaps(vs)[a + 1] /\ G[1] = << >> \o Gaps(ws)[1]
    BY <2>1, <1>5, <1>6
  <2>3. Gaps(ws)[1] = vs[a + 1] /\ vs[a + 1] \in Text
    BY <2>1, <1>2, <1>3, <1>11
  <2>4. G[1] = vs[a + 1]
    BY <2>2, <2>3, <1>9
  <2>5. CASE a = 0
    <3>1. Gaps(vs)[a + 1] = vs[a + 1] /\ X = << >> /\ F[a] = << >>
      BY <2>1, <2>5, <1>5, <1>10, <1>11
    <3> QED BY <3>1, <2>2, <2>4
  <2>6. CASE a # 0
    <3>1. Gaps(vs)[a + 1] = blank \o vs[a + 1] /\ X = F[a] \o blank
      BY <2>1, <2>6, <1>2, <1>10, <1>11
    <3>2. F[a] \o (blank \o vs[a + 1]) = (F[a] \o blank) \o vs[a + 1]
      <4>1. F[a] \in Text /\ blank \in Text /\ vs[a + 1] \in Text
        BY <2>3, <1>10
      <4> QED BY <4>1, <1>13, Zenon
    <3> QED BY <3>1, <3>2, <2>2, <2>4
  <2> QED BY <2>5, <2>6
<1>15. ASSUME NEW k \in 1..n - 1, Good(k) PROVE Good(k + 1)
  <2> DEFINE m == k + 1
             p == a + m
  <2>1. /\ m \in 1..n /\ m - 1 = k /\ k \in 0..n /\ m # 1 /\ p \in 1..Len(vs) /\ p # 1 /\ p - 1 = a + k
    BY <1>2, <1>4
  <2> HIDE DEF m, p
  <2>2. F[p] = F[a + k] \o (blank \o vs[p]) /\ G[m] = G[k] \o (blank \o ws[m])
    BY <2>1, <1>5, <1>6, <1>11
  <2>3. ws[m] = vs[p] /\ vs[p] \in Text /\ G[k] \in Text
    BY <2>1, <1>2, <1>3, <1>6 DEF p
  <2>4. F[a + k] = X \o G[k]
    BY <1>15
  <2> DEFINE e == blank \o vs[p]
  <2>5. e \in Text
    BY <2>3, <1>9, <1>10
  <2>6. (X \o G[k]) \o e = X \o (G[k] \o e)
    BY <2>3, <2>5, <1>12, <1>13, Zenon
  <2>7. F[p] = X \o G[m]
    BY <2>2, <2>3, <2>4, <2>6
  <2> QED BY <2>7 DEF m, p
<1> HIDE DEF Good
<1>16. 0..n \subseteq V
  <2>1. 0 \in V
    OBVIOUS
  <2>2. ASSUME NEW k \in 0..n - 1, k \in V PROVE k + 1 \in V
    <3>1. k \in Nat /\ k + 1 \in Nat /\ (k # 0 => k \in 1..n - 1)
      BY <1>4
    <3>2. CASE k = 0
      <4>1. k + 1 = 1
        BY <3>2
      <4> QED BY <4>1, <1>14
    <3>3. CASE k # 0
      <4>1. Good(k)
        BY <3>3, <2>2
      <4> QED BY <4>1, <3>1, <3>3, <1>15
    <3> QED BY <3>2, <3>3
  <2> HIDE DEF V
  <2> QED BY <1>4, <2>1, <2>2, IntervalInduction
<1>17. Good(n)
  <2>1. n \in 0..n /\ n # 0
    BY <1>4
  <2> QED BY <2>1, <1>16
<1>18. F[b] = X \o Glued(ws)
  BY <1>4, <1>6, <1>17 DEF Good
<1>19. PICK rest \in Text : Glued(vs) = F[b] \o rest
  <2> DEFINE seqs == Gaps(vs)
  <2>1. seqs \in Seq(Seq(STRING)) /\ Len(seqs) = Len(vs)
    BY GapsType DEF Text
  <2> HIDE DEF seqs
  <2>2. b \in 0..Len(seqs)
    BY <2>1
  <2>3. \E rest \in Seq(STRING) : FlattenSeq(seqs) = FlatUpTo(seqs)[b] \o rest
    BY <2>1, <2>2, FlattenPrefix
  <2> QED BY <2>3 DEF seqs, F, Glued, Text
<1>20. Glued(ws) \in Text
  BY <1>3, GluedUpTo
<1> DEFINE middle == Glued(ws)
<1>21. middle \in SubSeqs((X \o middle) \o rest)
  <2> DEFINE S == STRING
  <2>1. X \in Seq(S) /\ middle \in Seq(S) /\ rest \in Seq(S)
    BY <1>12, <1>19, <1>20 DEF Text
  <2> HIDE DEF S, middle
  <2> QED BY <2>1, PartOfWhole
<1> QED BY <1>18, <1>19, <1>21

\* The words of a text that is contained in another one.
LEMMA WordsContained ==
  ASSUME NEW target \in Text, NEW text \in Text, WordsIn(target) # << >>,
         WordsIn(target) \in SubSeqs(WordsIn(text))
  PROVE  Contained(normalize_text(target), normalize_text(text)) /\ normalize_text(target) # << >>
<1>1. /\ WordsIn(text) \in Seq(Text) /\ normalize_text(text) = Glued(WordsIn(text))
      /\ WordsIn(target) \in Seq(Text) /\ normalize_text(target) = Glued(WordsIn(target))
      /\ \E j \in 1..Len(target) : target[j] \notin Space
  BY NormalGlued
<1>2. Contained(normalize_text(target), normalize_text(text))
  BY <1>1, GluedPart DEF Contained
<1>3. normalize_text(target) # << >>
  <2> DEFINE n == Len(target)
             t == [i \in 1..n |-> IF target[i] \in Space THEN "blank" ELSE casefold(target[i])]
             P == {i \in 1..n : \/ target[i] \notin Space
                               \/ /\ \E j \in 1..i - 1 : target[j] \notin Space
                                  /\ i < n /\ target[i + 1] \notin Space}
  <2>1. n \in Nat /\ \A i \in 1..n : target[i] \in STRING
    BY DEF Text
  <2>2. "blank" \in STRING /\ \A i \in 1..n : casefold(target[i]) \in STRING
    <3>1. "blank" \in STRING
      BY StringAssumption DEF Space
    <3> QED BY <3>1, <2>1, CasefoldType
  <2>3. t \in Seq(STRING) /\ Len(t) = n
    <3>1. t \in [1..n -> STRING]
      BY <2>2
    <3>2. DOMAIN t = 1..n
      OBVIOUS
    <3> HIDE DEF t
    <3> QED BY <2>1, <3>1, <3>2
  <2>4. normalize_text(target) = Picked(t, P)
    BY DEF normalize_text
  <2>5. PICK j \in 1..n : target[j] \notin Space
    BY <1>1
  <2>6. j \in P \cap (1..Len(t))
    BY <2>3, <2>5
  <2> HIDE DEF t, P
  <2>7. ToSet(Picked(t, P)) = {t[k] : k \in P \cap (1..Len(t))}
    BY <2>3, PickedElements
  <2>8. ToSet(<< >>) = {}
    BY DEF ToSet
  <2> QED BY <2>4, <2>6, <2>7, <2>8
<1> QED BY <1>2, <1>3

\* What tesseract read of a page is a text.
LEMMA ReadingType ==
  ASSUME NEW doc, NEW choice, NEW n \in DOMAIN doc.pages,
         doc.pages[n].image.words \in Seq(RawWord), DistinctWords(doc.pages[n].image.words)
  PROVE  Read(doc, choice)[n].text \in Text
<1> DEFINE raw == doc.pages[n].image.words
           words == reading_order(raw)
           Readable(w) == Clear(doc.pages[n], w) \/ (choice[2] /\ ~ Covered(doc.pages[n], w))
           read == Picked(words, {i \in DOMAIN words : Readable(words[i])})
           seqs == [i \in 1..Len(read) |-> IF i = 1 THEN read[i].text ELSE <<"blank">> \o read[i].text]
<1>1. Read(doc, choice)[n].text = Joined(read)
  BY DEF Read
<1>2. words \in Seq(RawWord)
  <2> HIDE DEF raw
  <2> QED BY ReadingOrderSorts DEF raw
<1> HIDE DEF words, Readable
<1>3. read \in Seq(RawWord)
  BY <1>2, PickedElements
<1> HIDE DEF read
<1>4. Len(read) \in Nat /\ \A i \in 1..Len(read) : read[i].text \in Text
  <2>1. Len(read) \in Nat /\ \A i \in 1..Len(read) : read[i] \in RawWord
    BY <1>3
  <2> QED BY <2>1 DEF RawWord, Text
<1>5. <<"blank">> \in Text /\ \A v, w \in Text : v \o w \in Text
  <2>1. "blank" \in STRING
    BY StringAssumption DEF Space
  <2> DEFINE S == STRING
  <2>2. "blank" \in S
    BY <2>1
  <2> HIDE DEF S
  <2>3. \A v, w \in Seq(S) : v \o w \in Seq(S)
    BY Together
  <2>4. <<"blank">> \in Seq(S)
    BY <2>2, OneElement
  <2> QED BY <2>3, <2>4 DEF S, Text
<1>6. seqs \in Seq(Seq(STRING))
  <2>1. \A i \in 1..Len(read) : (IF i = 1 THEN read[i].text ELSE <<"blank">> \o read[i].text) \in Text
    BY <1>4, <1>5
  <2>2. seqs \in [1..Len(read) -> Text]
    BY <2>1
  <2> HIDE DEF seqs
  <2> QED BY <2>2, <1>4 DEF Text
<1>7. Joined(read) = FlattenSeq(seqs)
  BY DEF Joined
<1> HIDE DEF seqs
<1>8. FlattenSeq(seqs) \in Seq(STRING)
  BY <1>6, FlattenLayout
<1> QED BY <1>1, <1>7, <1>8 DEF Text

\* In a document that passed the gate no page can be read to have the words of an
\* approved span in a row, however they are written and broken into lines: a finding
\* of check_ocr is all it takes to fail, and the score of a text that is there is 100.
THEOREM GateCatchesAll == Spec => []GateCatches
<1>1. IInv => GateCatches
  <2> SUFFICES ASSUME IInv, Passed, NEW i \in DOMAIN spans, NEW n \in DOMAIN output.pages,
                      disposition[i] = "approved", WordsIn(spans[i].text) # << >>,
                      WordsIn(spans[i].text) \in SubSeqs(WordsIn(readings[n].text))
               PROVE  FALSE
    BY DEF GateCatches
  <2> DEFINE strings == redacted_strings(project_approved_spans)
             target == normalize_text(spans[i].text)
  <2>1. Rebuilt /\ verify(output, strings, readings).verdict = "pass"
    BY DEF IInv, BurnOK
  <2>2. /\ pdf \in PDF /\ n \in 1..Len(pdf.pages) /\ output.pages[n].image = pdf.pages[n]
        /\ spans[i] \in SpanRow
    BY <2>1, RebuiltPage
  <2>3. readings[n].text \in Text
    <3>1. PICK choice \in Readings(output, OcrScore) : readings = Read(output, choice)
      BY <2>1 DEF Rebuilt
    <3>2. output.pages[n].image.words \in Seq(RawWord) /\ DistinctWords(output.pages[n].image.words)
      BY <2>2, UploadType
    <3> QED BY <3>1, <3>2, ReadingType
  <2>4. spans[i].text \in Text
    BY <2>2 DEF SpanRow
  <2>5. Contained(target, normalize_text(readings[n].text)) /\ target # << >>
    BY <2>3, <2>4, WordsContained
  <2>6. target \in normalized_targets(strings)
    <3> DEFINE s == [page_number |-> spans[i].page_number, bboxes |-> spans[i].bboxes,
                     text |-> spans[i].text]
    <3>2. s \in project_approved_spans /\ s.text = spans[i].text
      BY DEF project_approved_spans
    <3> HIDE DEF s
    <3>1. spans[i].text \in strings
      BY <3>2 DEF redacted_strings
    <3> HIDE DEF strings
    <3> QED BY <3>1, <2>5 DEF normalized_targets
  <2>7. partial_ratio(target, readings[n]) >= OCR_MATCH_THRESHOLD
    BY <2>5 DEF partial_ratio, OCR_MATCH_THRESHOLD
  <2> HIDE DEF target, strings
  <2>8. Finding("ocr", n, target) \in check_ocr(output, normalized_targets(strings), readings)
    BY <2>6, <2>7 DEF check_ocr
  <2> QED BY <2>1, <2>8 DEF verify
<1> QED BY <1>1, AlwaysIInv, PTL
-----------------------------------------------------------------------------
(* The union-find of tier2.py *)

\* Parents that lead to roots: R is the root of each node, and d falls on the way.
Leads(D, P, R, d) ==
  /\ P \in [D -> D] /\ R \in [D -> D] /\ d \in [D -> Nat]
  /\ \A i \in D : P[i] # i => d[P[i]] < d[i]
  /\ \A i \in D : R[i] = (IF P[i] = i THEN i ELSE R[P[i]]) /\ P[R[i]] = R[i]

\* Following the parents ends, and ends at the root.
LEMMA FindIs ==
  ASSUME NEW D, NEW P, NEW R, NEW d, Leads(D, P, R, d)
  PROVE  \A i \in D : find(P, i) = R[i]
<1> DEFINE Good(f) == f = [i \in DOMAIN P |-> IF P[i] = i THEN i ELSE f[P[i]]]
           root == CHOOSE f : Good(f)
<1>1. DOMAIN P = D /\ R = [i \in D |-> R[i]]
  BY DEF Leads
<1>2. Good(R)
  BY <1>1 DEF Leads
<1>3. Good(root)
  <2> HIDE DEF Good
  <2> QED BY <1>2
<1>4. \A i : find(P, i) = root[i]
  BY DEF find
<1> HIDE DEF root
<1>5. \A i \in D : root[i] = IF P[i] = i THEN i ELSE root[P[i]]
  BY <1>1, <1>3
<1> HIDE DEF Good
<1> DEFINE wrong == {j \in D : root[j] # R[j]}
           T == {d[j] : j \in wrong}
<1>6. ASSUME wrong # {} PROVE FALSE
  <2>1. T \in SUBSET Nat /\ T # {}
    BY <1>6 DEF Leads
  <2> HIDE DEF T
  <2>2. PICK k \in T : \A l \in T : k <= l
    BY <2>1, LeastElement
  <2>3. PICK j \in wrong : k = d[j]
    BY <2>2 DEF T
  <2>4. j \in D /\ root[j] # R[j]
    BY <2>3
  <2>5. P[j] # j
    BY <2>4, <1>5 DEF Leads
  <2>6. P[j] \in D /\ d[P[j]] < d[j] /\ d[P[j]] \in Nat /\ d[j] \in Nat
    BY <2>4, <2>5 DEF Leads
  <2>7. P[j] \notin wrong
    <3>1. P[j] \in wrong => d[P[j]] \in T
      BY DEF T
    <3> HIDE DEF wrong
    <3> QED BY <3>1, <2>2, <2>3, <2>6
  <2>8. root[P[j]] = R[P[j]]
    BY <2>6, <2>7
  <2> QED BY <2>4, <2>5, <2>8, <1>5 DEF Leads
<1> QED BY <1>4, <1>6

\* The roots and ranks after b was united with a.
JoinedRoots(D, R, a, b) == [i \in D |-> IF R[i] = R[b] THEN R[a] ELSE R[i]]

JoinedRanks(D, R, d, a, b) ==
  [i \in D |-> IF R[a] # R[b] /\ R[i] = R[b] THEN d[i] + d[R[a]] + 1 ELSE d[i]]

\* A union moves the whole set of the second node to the root of the first.
LEMMA UnionLeads ==
  ASSUME NEW D, NEW P, NEW R, NEW d, Leads(D, P, R, d), NEW a \in D, NEW b \in D
  PROVE  Leads(D, union(P, a, b), JoinedRoots(D, R, a, b), JoinedRanks(D, R, d, a, b))
<1> DEFINE S == [i \in D |-> IF R[i] = R[b] THEN R[a] ELSE R[i]]
           e == [i \in D |-> IF R[a] # R[b] /\ R[i] = R[b] THEN d[i] + d[R[a]] + 1 ELSE d[i]]
           Q == [P EXCEPT ![R[b]] = R[a]]
<1>1. union(P, a, b) = Q
  <2>1. find(P, a) = R[a] /\ find(P, b) = R[b]
    BY FindIs
  <2> QED BY <2>1 DEF union
<1>2. /\ P \in [D -> D] /\ R \in [D -> D] /\ d \in [D -> Nat]
      /\ \A i \in D : R[i] = (IF P[i] = i THEN i ELSE R[P[i]])
      /\ \A i \in D : P[R[i]] = R[i]
      /\ \A i \in D : P[i] # i => d[P[i]] < d[i]
  BY DEF Leads
<1>3. /\ R[a] \in D /\ R[b] \in D /\ R[R[a]] = R[a] /\ R[R[b]] = R[b]
      /\ P[R[a]] = R[a] /\ P[R[b]] = R[b]
  BY <1>2
<1>4. Q \in [D -> D] /\ S \in [D -> D] /\ e \in [D -> Nat]
  <2>1. \A i \in D : e[i] \in Nat
    BY <1>2, <1>3
  <2> QED BY <1>2, <1>3, <2>1
<1>5. ASSUME NEW i \in D PROVE Q[i] = IF i = R[b] THEN R[a] ELSE P[i]
  BY <1>2, <1>3
<1>6. ASSUME NEW i \in D, Q[i] # i PROVE e[Q[i]] < e[i]
  <2>1. CASE i = R[b]
    <3>1. Q[i] = R[a] /\ R[a] # R[b]
      BY <2>1, <1>5, <1>6
    <3>2. e[R[a]] = d[R[a]] /\ e[i] = d[i] + d[R[a]] + 1
      BY <2>1, <3>1, <1>3
    <3> QED BY <3>1, <3>2, <1>2, <1>3
  <2>2. CASE i # R[b]
    <3>1. Q[i] = P[i] /\ P[i] # i /\ P[i] \in D
      BY <2>2, <1>2, <1>5, <1>6
    <3>2. d[P[i]] < d[i] /\ R[P[i]] = R[i] /\ d[P[i]] \in Nat /\ d[i] \in Nat /\ d[R[a]] \in Nat
      BY <3>1, <1>2, <1>3
    <3> QED BY <3>1, <3>2
  <2> QED BY <2>1, <2>2
<1>7. ASSUME NEW i \in D PROVE S[i] = IF Q[i] = i THEN i ELSE S[Q[i]]
  <2>1. CASE i = R[b]
    BY <2>1, <1>3, <1>5
  <2>2. CASE i # R[b]
    <3>1. Q[i] = P[i] /\ P[i] \in D
      BY <2>2, <1>2, <1>5
    <3>2. CASE P[i] = i
      <4>1. R[i] = i
        BY <3>2, <1>2
      <4> QED BY <3>1, <3>2, <4>1, <2>2
    <3>3. CASE P[i] # i
      <4>1. R[i] = R[P[i]]
        BY <3>3, <1>2
      <4> QED BY <3>1, <3>3, <4>1
    <3> QED BY <3>2, <3>3
  <2> QED BY <2>1, <2>2
<1>8. ASSUME NEW i \in D PROVE Q[S[i]] = S[i]
  <2>1. R[i] \in D /\ P[R[i]] = R[i]
    BY <1>2
  <2>2. CASE R[i] = R[b]
    BY <2>2, <1>3, <1>5
  <2>3. CASE R[i] # R[b]
    BY <2>1, <2>3, <1>5
  <2> QED BY <2>2, <2>3
<1> HIDE DEF S, e, Q
<1>9. Leads(D, Q, S, e)
  BY <1>4, <1>6, <1>7, <1>8 DEF Leads
<1> QED BY <1>1, <1>9 DEF S, e, JoinedRoots, JoinedRanks


\* The roots of n nodes after m unions, of a[k] and b[k] in their order.
Unions(m, n, a, b, root) ==
  \E parent :
    /\ parent[0] = [i \in 1..n |-> i]
    /\ \A k \in 1..m : parent[k] = union(parent[k - 1], a[k], b[k])
    /\ root = [i \in 1..n |-> find(parent[m], i)]

\* What was united has one root, and what has one root no part that is closed
\* under the unions separates.
Classes(m, n, a, b, root) ==
  /\ root \in [1..n -> 1..n] /\ \A i \in 1..n : root[root[i]] = root[i]
  /\ \A k \in 1..m : root[a[k]] = root[b[k]]
  /\ \A S : (\A k \in 1..m : a[k] \in S <=> b[k] \in S)
              => \A x, y \in 1..n : root[x] = root[y] => (x \in S <=> y \in S)

(* Unions over a list of pairs end with one root for exactly those nodes that the pairs
   connect. *)
LEMMA UnionsTogether ==
  ASSUME NEW m \in Nat, NEW n \in Nat, NEW a \in [1..m -> 1..n], NEW b \in [1..m -> 1..n],
         NEW root, Unions(m, n, a, b, root)
  PROVE  Classes(m, n, a, b, root)
<1>1. PICK parent : /\ parent[0] = [i \in 1..n |-> i]
                    /\ \A k \in 1..m : parent[k] = union(parent[k - 1], a[k], b[k])
                    /\ root = [i \in 1..n |-> find(parent[m], i)]
  BY DEF Unions
<1> DEFINE D == 1..n
           Equal(k, R) == \A q \in 1..k : R[a[q]] = R[b[q]]
           Inside(R) == \A S : (\A q \in 1..m : a[q] \in S <=> b[q] \in S)
                                 => \A x, y \in D : R[x] = R[y] => (x \in S <=> y \in S)
           T == {k \in Nat : k <= m => \E R, d : Leads(D, parent[k], R, d) /\ Equal(k, R) /\ Inside(R)}
<1>2. 0 \in T
  <2> DEFINE R == [i \in D |-> i]
             d == [i \in D |-> 0]
  <2>1. Leads(D, parent[0], R, d)
    BY <1>1 DEF Leads
  <2>2. Equal(0, R)
    OBVIOUS
  <2>3. Inside(R)
    OBVIOUS
  <2> HIDE DEF R, d, Equal, Inside
  <2> QED BY <2>1, <2>2, <2>3
<1>3. ASSUME NEW k \in 0..m - 1, k \in T PROVE k + 1 \in T
  <2>1. k + 1 \in 1..m /\ (k + 1) - 1 = k /\ k \in Nat /\ k <= m /\ k + 1 \in Nat
    OBVIOUS
  <2>2. PICK R, d : Leads(D, parent[k], R, d) /\ Equal(k, R) /\ Inside(R)
    <3> HIDE DEF Equal, Inside
    <3> QED BY <1>3, <2>1
  <2> DEFINE u == a[k + 1]
             v == b[k + 1]
             S == [i \in D |-> IF R[i] = R[v] THEN R[u] ELSE R[i]]
             e == [i \in D |-> IF R[u] # R[v] /\ R[i] = R[v] THEN d[i] + d[R[u]] + 1 ELSE d[i]]
  <2>3. u \in D /\ v \in D /\ parent[k + 1] = union(parent[k], u, v)
    BY <2>1, <1>1
  <2>4. Leads(D, parent[k + 1], S, e)
    <3> DEFINE P == parent[k]
    <3>1. Leads(D, P, R, d)
      BY <2>2
    <3> HIDE DEF u, v, D, P
    <3>2. Leads(D, union(P, u, v), JoinedRoots(D, R, u, v), JoinedRanks(D, R, d, u, v))
      BY <2>3, <3>1, UnionLeads
    <3> QED BY <2>3, <3>2 DEF P, JoinedRoots, JoinedRanks
  <2>5. Equal(k + 1, S)
    <3> SUFFICES ASSUME NEW q \in 1..k + 1 PROVE S[a[q]] = S[b[q]]
      OBVIOUS
    <3>1. a[q] \in D /\ b[q] \in D
      BY <2>1
    <3>2. CASE q = k + 1
      BY <3>1, <3>2
    <3>3. CASE q \in 1..k
      <4>1. R[a[q]] = R[b[q]]
        BY <2>2, <3>3
      <4> QED BY <3>1, <4>1
    <3> QED BY <3>2, <3>3, <2>1
  <2>6. Inside(S)
    <3> SUFFICES ASSUME NEW part, \A q \in 1..m : a[q] \in part <=> b[q] \in part,
                        NEW x \in D, NEW y \in D, S[x] = S[y]
                 PROVE  x \in part <=> y \in part
      OBVIOUS
    <3>1. \A w, z \in D : R[w] = R[z] => (w \in part <=> z \in part)
      BY <2>2
    <3>2. u \in part <=> v \in part
      BY <2>1
    <3>3. \A z \in D : S[z] = IF R[z] = R[v] THEN R[u] ELSE R[z]
      OBVIOUS
    <3> HIDE DEF S, u, v, D, Inside
    <3>4. CASE R[x] = R[y]
      BY <3>1, <3>4
    <3>5. CASE R[x] = R[v] /\ R[y] # R[v]
      <4>1. R[y] = R[u]
        BY <3>3, <3>5
      <4> QED BY <3>1, <3>2, <3>5, <4>1, <2>3
    <3>6. CASE R[x] # R[v] /\ R[y] = R[v]
      <4>1. R[x] = R[u]
        BY <3>3, <3>6
      <4> QED BY <3>1, <3>2, <3>6, <4>1, <2>3
    <3>7. CASE R[x] # R[v] /\ R[y] # R[v]
      BY <3>1, <3>3, <3>7
    <3> QED BY <3>4, <3>5, <3>6, <3>7
  <2> HIDE DEF S, e, Equal, Inside, D
  <2> QED BY <2>1, <2>4, <2>5, <2>6
<1>4. m \in T
  <2> HIDE DEF T
  <2>1. 0..m \subseteq T
    BY <1>2, <1>3, IntervalInduction
  <2> QED BY <2>1
<1>5. PICK R, d : Leads(D, parent[m], R, d) /\ Equal(m, R) /\ Inside(R)
  <2> HIDE DEF Equal, Inside
  <2> QED BY <1>4
<1>6. root = R
  <2>1. \A i \in D : find(parent[m], i) = R[i]
    <3> HIDE DEF D, Equal, Inside
    <3> QED BY <1>5, FindIs
  <2>2. R = [i \in D |-> R[i]]
    BY <1>5 DEF Leads
  <2> QED BY <2>1, <2>2, <1>1
<1>7. R \in [D -> D] /\ \A i \in D : R[R[i]] = R[i]
  BY <1>5 DEF Leads
<1> HIDE DEF D
<1> QED BY <1>5, <1>6, <1>7 DEF D, Classes

\* The pairs that overlap, each once.
LEMMA PairsOverlap ==
  ASSUME NEW t1, NEW t2, Len(t1) \in Nat, Len(t2) \in Nat
  PROVE  LET pairs == {p \in (1..Len(t1)) \X (1..Len(t2)) : spans_overlap(t1[p[1]], t2[p[2]])}
         IN /\ OverlappingPairs(t1, t2) \in Seq(pairs)
            /\ ToSet(OverlappingPairs(t1, t2)) = pairs
<1> DEFINE A == 1..Len(t1)
           B == 1..Len(t2)
           pairs == {p \in A \X B : spans_overlap(t1[p[1]], t2[p[2]])}
           less == {q \in pairs \X pairs : \/ q[1][1] < q[2][1]
                                           \/ q[1][1] = q[2][1] /\ q[1][2] < q[2][2]}
<1>1. OverlappingPairs(t1, t2) = InOrder(pairs, less)
  BY DEF OverlappingPairs
<1>2. IsFiniteSet(pairs)
  <2>1. IsFiniteSet(A) /\ IsFiniteSet(B)
    BY FS_Interval
  <2> HIDE DEF A, B
  <2>2. IsFiniteSet(A \X B)
    BY <2>1, FS_Product
  <2>3. pairs \subseteq A \X B
    OBVIOUS
  <2> HIDE DEF pairs
  <2> QED BY <2>2, <2>3, FS_Subset
<1>3. StrictOrder(pairs, less)
  <2>1. \A p, q \in pairs : <<p, q>> \in less <=> \/ p[1] < q[1]
                                                  \/ p[1] = q[1] /\ p[2] < q[2]
    OBVIOUS
  <2>2. \A p \in pairs : p[1] \in Nat /\ p[2] \in Nat /\ p = <<p[1], p[2]>>
    OBVIOUS
  <2> HIDE DEF pairs, less
  <2>3. ASSUME NEW p \in pairs, NEW q \in pairs, p # q PROVE <<p, q>> \in less \/ <<q, p>> \in less
    <3>1. p[1] # q[1] \/ p[2] # q[2]
      BY <2>2, <2>3
    <3> QED BY <3>1, <2>1, <2>2
  <2>4. \A p \in pairs : <<p, p>> \notin less
    BY <2>1, <2>2
  <2>5. ASSUME NEW p \in pairs, NEW q \in pairs, NEW r \in pairs, <<p, q>> \in less, <<q, r>> \in less
        PROVE  <<p, r>> \in less
    BY <2>1, <2>2, <2>5
  <2> QED BY <2>3, <2>4, <2>5 DEF StrictOrder
<1> HIDE DEF less, pairs
<1>4. InOrder(pairs, less) \in Seq(pairs) /\ ToSet(InOrder(pairs, less)) = pairs
  BY <1>2, <1>3, InOrderSorts
<1> QED BY <1>1, <1>4 DEF pairs


\* Forests are closed under union, so there is the sequence of them that
\* group_overlapping_spans goes through.
Forests(D) == {P \in [D -> D] : \E R, d : Leads(D, P, R, d)}

ParentOf(t1, t2) ==
  CHOOSE parent : parent =
    [k \in 0..Len(OverlappingPairs(t1, t2)) |->
       IF k = 0 THEN [i \in 1..Len(t1) + Len(t2) |-> i]
       ELSE union(parent[k - 1], OverlappingPairs(t1, t2)[k][1],
                  Len(t1) + OverlappingPairs(t1, t2)[k][2])]

(* group_overlapping_spans unites the pairs that overlap one after the other. *)
LEMMA ParentDefined ==
  ASSUME NEW t1, NEW t2, Len(t1) \in Nat, Len(t2) \in Nat
  PROVE  LET pairs == OverlappingPairs(t1, t2)
             parent == ParentOf(t1, t2)
         IN /\ parent[0] = [i \in 1..(Len(t1) + Len(t2)) |-> i]
            /\ \A k \in 1..Len(pairs) : parent[k] = union(parent[k - 1], pairs[k][1], Len(t1) + pairs[k][2])
            /\ group_overlapping_spans(t1, t2)
                 = [i \in 1..(Len(t1) + Len(t2)) |-> find(parent[Len(pairs)], i)]
<1> DEFINE n1 == Len(t1)
           n2 == Len(t2)
           D == 1..(n1 + n2)
           pairs == OverlappingPairs(t1, t2)
           m == Len(pairs)
           F == Forests(D)
           start == [i \in D |-> i]
           step == [p \in F \X (1..m) |-> union(p[1], pairs[p[2]][1], n1 + pairs[p[2]][2])]
           Good(f) == f = [k \in 0..m |-> IF k = 0 THEN start
                                          ELSE union(f[k - 1], pairs[k][1], n1 + pairs[k][2])]
           it == Iterated(m, start, step)
           parent == CHOOSE f : Good(f)
<1>1. m \in Nat /\ \A k \in 1..m : pairs[k][1] \in D /\ n1 + pairs[k][2] \in D
  <2> DEFINE S == {p \in (1..n1) \X (1..n2) : spans_overlap(t1[p[1]], t2[p[2]])}
  <2>1. pairs \in Seq(S)
    BY PairsOverlap
  <2>2. \A p \in S : p[1] \in 1..n1 /\ p[2] \in 1..n2
    OBVIOUS
  <2> HIDE DEF S, pairs
  <2>3. m \in Nat /\ \A k \in 1..m : pairs[k] \in S
    BY <2>1
  <2> QED BY <2>2, <2>3
<1>2. group_overlapping_spans(t1, t2) = [i \in D |-> find(parent[m], i)]
  BY DEF group_overlapping_spans
<1>3. ParentOf(t1, t2) = parent
  BY DEF ParentOf
<1> HIDE DEF pairs, m, D
<1>4. start \in F
  <2>1. Leads(D, start, start, [i \in D |-> 0])
    BY DEF Leads
  <2>2. start \in [D -> D]
    OBVIOUS
  <2> HIDE DEF start
  <2> QED BY <2>1, <2>2 DEF Forests
<1>5. ASSUME NEW P \in F, NEW a \in D, NEW b \in D PROVE union(P, a, b) \in F
  <2>1. PICK R, d : Leads(D, P, R, d)
    BY DEF Forests
  <2>2. Leads(D, union(P, a, b), JoinedRoots(D, R, a, b), JoinedRanks(D, R, d, a, b))
    BY <2>1, UnionLeads
  <2>3. union(P, a, b) \in [D -> D]
    BY <2>2 DEF Leads
  <2> QED BY <2>2, <2>3 DEF Forests
<1> HIDE DEF start, F
<1>6. step \in [F \X (1..m) -> F]
  BY <1>1, <1>5
<1>7. /\ it \in [0..m -> F] /\ it[0] = start
      /\ \A k \in 1..m : it[k] = step[<<it[k - 1], k>>]
  <2> HIDE DEF step
  <2>1. step \in Steps(m, F)
    BY <1>6 DEF Steps
  <2> QED BY <1>1, <1>4, <2>1, Recursion
<1> HIDE DEF it
<1>8. ASSUME NEW k \in 1..m PROVE it[k] = union(it[k - 1], pairs[k][1], n1 + pairs[k][2])
  <2>1. k - 1 \in 0..m
    BY <1>1
  <2>2. <<it[k - 1], k>> \in F \X (1..m)
    BY <2>1, <1>7
  <2> QED BY <2>2, <1>7
<1> HIDE DEF step, n1
<1>9. Good(it)
  <2>1. ASSUME NEW k \in 0..m
        PROVE  it[k] = IF k = 0 THEN start ELSE union(it[k - 1], pairs[k][1], n1 + pairs[k][2])
    <3>1. k = 0 \/ k \in 1..m
      BY <1>1
    <3>2. CASE k = 0
      BY <3>2, <1>7
    <3>3. CASE k # 0
      BY <3>1, <3>3, <1>8
    <3> QED BY <3>2, <3>3
  <2>2. it = [k \in 0..m |-> it[k]]
    BY <1>7
  <2> QED BY <2>1, <2>2
<1>10. Good(parent)
  <2> HIDE DEF Good
  <2> QED BY <1>9
<1> HIDE DEF parent
<1>11. /\ parent[0] = start
       /\ \A k \in 1..m : parent[k] = union(parent[k - 1], pairs[k][1], n1 + pairs[k][2])
  <2>1. \A k \in 0..m : parent[k] = IF k = 0 THEN start
                                    ELSE union(parent[k - 1], pairs[k][1], n1 + pairs[k][2])
    BY <1>10
  <2>2. 0 \in 0..m /\ \A k \in 1..m : k \in 0..m /\ k # 0
    BY <1>1
  <2> QED BY <2>1, <2>2
<1> HIDE DEF Good
<1> QED BY <1>2, <1>3, <1>11 DEF start, pairs, m, n1, D

\* Spans that overlap have one root, and spans with one root are in the same closed sets.
LEMMA GroupsTogether ==
  ASSUME NEW t1, NEW t2, Len(t1) \in Nat, Len(t2) \in Nat
  PROVE  LET D == 1..(Len(t1) + Len(t2))
             root == group_overlapping_spans(t1, t2)
         IN /\ root \in [D -> D] /\ \A i \in D : root[root[i]] = root[i]
            /\ \A i \in 1..Len(t1), j \in 1..Len(t2) :
                 spans_overlap(t1[i], t2[j]) => root[i] = root[Len(t1) + j]
            /\ \A part :
                 (\A i \in 1..Len(t1), j \in 1..Len(t2) :
                    spans_overlap(t1[i], t2[j]) => (i \in part <=> Len(t1) + j \in part))
                 => \A x, y \in D : root[x] = root[y] => (x \in part <=> y \in part)
<1> DEFINE n1 == Len(t1)
           n2 == Len(t2)
           n == n1 + n2
           root == group_overlapping_spans(t1, t2)
           pairs == OverlappingPairs(t1, t2)
           m == Len(pairs)
           parent == ParentOf(t1, t2)
           a == [k \in 1..m |-> pairs[k][1]]
           b == [k \in 1..m |-> n1 + pairs[k][2]]
<1>1. /\ parent[0] = [i \in 1..n |-> i] /\ root = [i \in 1..n |-> find(parent[m], i)]
      /\ \A k \in 1..m : parent[k] = union(parent[k - 1], a[k], b[k])
  BY ParentDefined
<1> DEFINE S == {p \in (1..n1) \X (1..n2) : spans_overlap(t1[p[1]], t2[p[2]])}
<1>2. pairs \in Seq(S) /\ ToSet(pairs) = S
  BY PairsOverlap
<1>3. \A p \in S : p[1] \in 1..n1 /\ p[2] \in 1..n2 /\ n1 + p[2] \in 1..n /\ p[1] \in 1..n
                   /\ spans_overlap(t1[p[1]], t2[p[2]])
  OBVIOUS
<1>4. \A i \in 1..n1, j \in 1..n2 : spans_overlap(t1[i], t2[j]) => <<i, j>> \in S
  OBVIOUS
<1>5. n1 \in Nat /\ n2 \in Nat /\ n \in Nat
  OBVIOUS
<1> HIDE DEF S, pairs, parent, n, root, n1, n2
<1>6. m \in Nat /\ \A k \in 1..m : pairs[k] \in S
  BY <1>2
<1>7. \A p \in S : \E k \in 1..m : pairs[k] = p
  BY <1>2 DEF ToSet
<1> HIDE DEF m
<1>8. a \in [1..m -> 1..n] /\ b \in [1..m -> 1..n]
  BY <1>3, <1>6
<1>9. \A k \in 1..m : a[k] = pairs[k][1] /\ b[k] = n1 + pairs[k][2]
  OBVIOUS
<1> HIDE DEF a, b
<1>10. /\ root \in [1..n -> 1..n] /\ \A i \in 1..n : root[root[i]] = root[i]
       /\ \A k \in 1..m : root[a[k]] = root[b[k]]
       /\ \A part : (\A k \in 1..m : a[k] \in part <=> b[k] \in part)
                      => \A x, y \in 1..n : root[x] = root[y] => (x \in part <=> y \in part)
  <2>1. Unions(m, n, a, b, root)
    BY <1>1 DEF Unions
  <2>2. Classes(m, n, a, b, root)
    BY <2>1, <1>5, <1>6, <1>8, UnionsTogether
  <2> QED BY <2>2 DEF Classes
<1>11. ASSUME NEW i \in 1..n1, NEW j \in 1..n2, spans_overlap(t1[i], t2[j])
       PROVE  root[i] = root[n1 + j]
  <2>1. PICK k \in 1..m : pairs[k] = <<i, j>>
    BY <1>4, <1>7, <1>11
  <2>2. a[k] = i /\ b[k] = n1 + j
    BY <2>1, <1>9
  <2> QED BY <2>2, <1>10
<1>12. ASSUME NEW part,
              \A i \in 1..n1, j \in 1..n2 : spans_overlap(t1[i], t2[j]) => (i \in part <=> n1 + j \in part),
              NEW x \in 1..n, NEW y \in 1..n, root[x] = root[y]
       PROVE  x \in part <=> y \in part
  <2>1. ASSUME NEW k \in 1..m PROVE a[k] \in part <=> b[k] \in part
    <3> DEFINE p == pairs[k]
    <3>1. p[1] \in 1..n1 /\ p[2] \in 1..n2 /\ spans_overlap(t1[p[1]], t2[p[2]])
      BY <1>3, <1>6
    <3>2. a[k] = p[1] /\ b[k] = n1 + p[2]
      BY <1>9
    <3> HIDE DEF p
    <3> QED BY <3>1, <3>2, <1>12
  <2> QED BY <2>1, <1>10, <1>12
<1>13. root \in [1..n -> 1..n] /\ \A i \in 1..n : root[root[i]] = root[i]
  BY <1>10
<1> QED BY <1>11, <1>12, <1>13 DEF root, n, n1, n2
-----------------------------------------------------------------------------
(* What dedupe leaves of the groups *)

\* The nodes with the root of i.
Class(root, i) == {j \in DOMAIN root : root[j] = root[i]}

\* Tiers as the detectors report them.
Tiers(page, t1, t2) ==
  t1 \in Seq(TierFound(page, "tier_1")) /\ t2 \in Seq(TierFound(page, "tier_2"))

\* The candidates of both tiers in one sequence, which has the nodes for positions.
LEMMA NodesAre ==
  ASSUME NEW page \in PageModel, NEW t1, NEW t2, Tiers(page, t1, t2)
  PROVE  /\ t1 \in Seq(Found(page)) /\ t2 \in Seq(Found(page)) /\ t1 \o t2 \in Seq(Found(page))
         /\ Len(t1) \in Nat /\ Len(t2) \in Nat /\ Len(t1 \o t2) = Len(t1) + Len(t2)
         /\ DOMAIN (t1 \o t2) = 1..(Len(t1) + Len(t2))
         /\ \A i \in 1..Len(t1) : (t1 \o t2)[i] = t1[i] /\ t1[i] \in TierFound(page, "tier_1")
         /\ \A j \in 1..Len(t2) : /\ (t1 \o t2)[Len(t1) + j] = t2[j]
                                  /\ t2[j] \in TierFound(page, "tier_2")
<1> DEFINE F == Found(page)
           A == TierFound(page, "tier_1")
           B == TierFound(page, "tier_2")
<1>1. t1 \in Seq(A) /\ t2 \in Seq(B) /\ A \subseteq F /\ B \subseteq F
  BY DEF Tiers, TierFound
<1> HIDE DEF F, A, B
<1>2. /\ \A i \in 1..Len(t1) : t1[i] \in A
      /\ \A i \in 1..Len(t2) : t2[i] \in B
      /\ Len(t1) \in Nat /\ Len(t2) \in Nat
  BY <1>1
<1>3. t1 \in Seq(F) /\ t2 \in Seq(F)
  BY <1>1
<1>4. /\ t1 \o t2 \in Seq(F) /\ Len(t1 \o t2) = Len(t1) + Len(t2)
      /\ DOMAIN (t1 \o t2) = 1..(Len(t1) + Len(t2))
  BY <1>3
<1>5. \A i \in 1..Len(t1) : (t1 \o t2)[i] = t1[i]
  BY <1>3
<1>6. \A j \in 1..Len(t2) : (t1 \o t2)[Len(t1) + j] = t2[j]
  BY <1>3
<1> QED BY <1>2, <1>3, <1>4, <1>5, <1>6 DEF F, A, B

\* A node is of the first tier or comes after it.
LEMMA NodeOfTier ==
  ASSUME NEW n1 \in Nat, NEW n2 \in Nat, NEW i \in 1..(n1 + n2)
  PROVE  i \in 1..n1 \/ \E j \in 1..n2 : i = n1 + j
<1>1. CASE i <= n1
  BY <1>1
<1>2. CASE ~ (i <= n1)
  <2>1. i - n1 \in 1..n2 /\ i = n1 + (i - n1)
    BY <1>2
  <2> QED BY <2>1
<1> QED BY <1>1, <1>2

\* A group is of one category, and a tier-2 node whose root no tier-1 node has is
\* alone in its group.
LEMMA ClassesAre ==
  ASSUME NEW page \in PageModel, NEW t1, NEW t2, Tiers(page, t1, t2)
  PROVE  LET D == 1..(Len(t1) + Len(t2))
             all == t1 \o t2
             root == group_overlapping_spans(t1, t2)
         IN /\ root \in [D -> D]
            /\ \A x, y \in D : root[x] = root[y] => all[x].category = all[y].category
            /\ \A j \in 1..Len(t2) :
                 (\A i \in 1..Len(t1) : root[i] # root[Len(t1) + j])
                   => Class(root, Len(t1) + j) = {Len(t1) + j}
<1> DEFINE n1 == Len(t1)
           n2 == Len(t2)
           D == 1..(n1 + n2)
           all == t1 \o t2
           root == group_overlapping_spans(t1, t2)
<1>0. Len(t1) \in Nat /\ Len(t2) \in Nat
  BY NodesAre
<1>1. /\ n1 \in Nat /\ n2 \in Nat
      /\ \A i \in 1..n1 : all[i] = t1[i]
      /\ \A j \in 1..n2 : all[n1 + j] = t2[j]
  BY NodesAre
<1>2. /\ root \in [D -> D]
      /\ \A i \in 1..n1, j \in 1..n2 : spans_overlap(t1[i], t2[j]) => root[i] = root[n1 + j]
      /\ \A part :
           (\A i \in 1..n1, j \in 1..n2 :
              spans_overlap(t1[i], t2[j]) => (i \in part <=> n1 + j \in part))
           => \A x, y \in D : root[x] = root[y] => (x \in part <=> y \in part)
  BY <1>0, GroupsTogether
<1> HIDE DEF root, all, n1, n2
<1>3. ASSUME NEW x \in D, NEW y \in D, root[x] = root[y]
      PROVE  all[x].category = all[y].category
  <2> DEFINE part == {i \in D : all[i].category = all[x].category}
  <2>1. ASSUME NEW i \in 1..n1, NEW j \in 1..n2, spans_overlap(t1[i], t2[j])
        PROVE  i \in part <=> n1 + j \in part
    <3>1. t1[i].category = t2[j].category
      BY <2>1 DEF spans_overlap
    <3>2. i \in D /\ n1 + j \in D
      BY <1>1
    <3> QED BY <3>1, <3>2, <1>1
  <2>2. x \in part
    OBVIOUS
  <2> HIDE DEF part
  <2>3. y \in part
    BY <2>1, <2>2, <1>2, <1>3
  <2> QED BY <2>3 DEF part
<1>4. ASSUME NEW j \in 1..n2, \A i \in 1..n1 : root[i] # root[n1 + j]
      PROVE  Class(root, n1 + j) = {n1 + j}
  <2> DEFINE part == {n1 + j}
  <2>1. ASSUME NEW i \in 1..n1, NEW k \in 1..n2, spans_overlap(t1[i], t2[k])
        PROVE  i \in part <=> n1 + k \in part
    <3>1. i # n1 + j /\ (n1 + k = n1 + j => k = j)
      BY <1>1
    <3>2. k # j
      BY <2>1, <1>2, <1>4
    <3> QED BY <3>1, <3>2
  <2>2. n1 + j \in part
    OBVIOUS
  <2> HIDE DEF part
  <2>3. \A y \in D : root[y] = root[n1 + j] => y \in part
    <3>1. n1 + j \in D
      BY <1>1
    <3> QED BY <2>1, <2>2, <3>1, <1>2
  <2>4. DOMAIN root = D /\ n1 + j \in D
    BY <1>1, <1>2
  <2> QED BY <2>3, <2>4 DEF Class, part
<1> QED BY <1>2, <1>3, <1>4 DEF root, all, n1, n2

\* A span over all that a group covers, with the boxes of this range.
Survivor(page, all, group, s) ==
  /\ s.start = Min({all[j].start : j \in group})
  /\ s.end = Max({all[j].end : j \in group})
  /\ \A j \in group : s.category = all[j].category /\ s.start <= all[j].start /\ all[j].end <= s.end
  /\ s.bboxes = resolve_span_bboxes(page, s.start, s.end)

\* One candidate is the survivor of itself.
LEMMA AloneSurvives ==
  ASSUME NEW page \in PageModel, NEW all \in Seq(Found(page)), NEW i \in 1..Len(all),
         all[i].bboxes = resolve_span_bboxes(page, all[i].start, all[i].end)
  PROVE  Survivor(page, all, {i}, all[i])
<1> DEFINE c == all[i]
<1>1. c.start \in Nat /\ c.end \in 0..Len(page.text) /\ Len(page.text) \in Nat
  <2>1. c \in Found(page)
    OBVIOUS
  <2>2. Len(page.text) \in Nat
    BY DEF PageModel, Text
  <2> HIDE DEF c
  <2> QED BY <2>1, <2>2 DEF Found
<1>2. {all[j].start : j \in {i}} = {c.start} /\ {all[j].end : j \in {i}} = {c.end}
  OBVIOUS
<1> DEFINE a == c.start
           b == c.end
<1>3. Min({a}) = a /\ Max({b}) = b
  <2>1. a \in Nat /\ b \in 0..Len(page.text)
    BY <1>1
  <2> HIDE DEF a, b
  <2>2. {a} \subseteq Nat /\ a \in {a} /\ {b} \subseteq 0..Len(page.text) /\ b \in {b}
    BY <2>1
  <2>3. Min({a}) \in {a}
    BY <2>2, MinOfSome
  <2>4. Max({b}) \in {b}
    BY <2>2, <1>1, MaxOfSome
  <2> QED BY <2>3, <2>4
<1>4. {all[j].start : j \in {i}} = {a} /\ {all[j].end : j \in {i}} = {b}
  BY <1>2
<1>5. a <= a /\ b <= b
  BY <1>1
<1>6. /\ c.start = Min({all[j].start : j \in {i}})
      /\ c.end = Max({all[j].end : j \in {i}})
  BY <1>3, <1>4
<1> QED BY <1>5, <1>6 DEF Survivor

\* A merged group leaves its survivor.
LEMMA MergedSurvives ==
  ASSUME NEW page \in PageModel, NEW all \in Seq(Found(page)), NEW group \in SUBSET (1..Len(all)),
         NEW i \in group, \A j \in group : all[j].category = all[i].category,
         all[i].bboxes = resolve_span_bboxes(page, all[i].start, all[i].end)
  PROVE  Survivor(page, all, group, merge_group(page, {all[j] : j \in group}, all[i]))
<1> DEFINE candidates == {all[j] : j \in group}
           primary == all[i]
           merged == merge_group(page, candidates, primary)
<1>1. candidates \in SUBSET Found(page) /\ primary \in candidates
  OBVIOUS
<1>2. {s.start : s \in candidates} = {all[j].start : j \in group}
      /\ {s.end : s \in candidates} = {all[j].end : j \in group}
  OBVIOUS
<1>3. \A j \in group : all[j] \in candidates /\ all[j].category = primary.category
  OBVIOUS
<1>4. primary.bboxes = resolve_span_bboxes(page, primary.start, primary.end)
  OBVIOUS
<1> HIDE DEF candidates, primary
<1>5. /\ merged.start = Min({s.start : s \in candidates}) /\ merged.end = Max({s.end : s \in candidates})
      /\ merged.category = primary.category
      /\ merged.bboxes = resolve_span_bboxes(page, Min({s.start : s \in candidates}),
                                             Max({s.end : s \in candidates}))
      /\ \A s \in candidates : /\ Min({t.start : t \in candidates}) <= s.start
                               /\ s.end <= Max({t.end : t \in candidates})
  BY <1>1, <1>4, MergedType
<1> HIDE DEF merged
<1> DEFINE lo == Min({s.start : s \in candidates})
           hi == Max({s.end : s \in candidates})
<1>6. /\ merged.start = lo /\ merged.end = hi /\ merged.category = primary.category
      /\ merged.bboxes = resolve_span_bboxes(page, lo, hi)
      /\ \A s \in candidates : lo <= s.start /\ s.end <= hi
      /\ lo = Min({all[j].start : j \in group}) /\ hi = Max({all[j].end : j \in group})
  BY <1>2, <1>5
<1> HIDE DEF lo, hi
<1>7. Survivor(page, all, group, merged)
  BY <1>3, <1>6 DEF Survivor
<1> QED BY <1>7 DEF merged, candidates, primary


\* The first tier-1 node of each group that has one, and the tier-2 nodes of the others.
Leaders(n1, root) == {i \in 1..n1 : \A j \in 1..i - 1 : root[j] # root[i]}
Loners(n1, n2, root) == {j \in 1..n2 : \A i \in 1..n1 : root[i] # root[n1 + j]}

LedOrLone(n1, n2, root, i) ==
  \/ \E p \in Leaders(n1, root) : Class(root, i) = Class(root, p)
  \/ \E q \in Loners(n1, n2, root) : i = n1 + q

\* Each group has one leader, or is one loner.
LEMMA LedOrAlone ==
  ASSUME NEW n1 \in Nat, NEW n2 \in Nat, NEW root \in [1..(n1 + n2) -> 1..(n1 + n2)],
         NEW i \in 1..(n1 + n2)
  PROVE  LedOrLone(n1, n2, root, i)
<1> DEFINE T == {k \in 1..n1 : root[k] = root[i]}
<1>1. CASE T # {}
  <2>1. PICK p \in T : \A k \in T : p <= k
    <3>1. T \in SUBSET Nat
      OBVIOUS
    <3> HIDE DEF T
    <3> QED BY <3>1, <1>1, LeastElement
  <2>2. p \in 1..n1 /\ root[p] = root[i]
    OBVIOUS
  <2>3. \A j \in 1..p - 1 : root[j] # root[p]
    <3> SUFFICES ASSUME NEW j \in 1..p - 1, root[j] = root[p] PROVE FALSE
      OBVIOUS
    <3>1. j \in 1..n1 /\ ~ (p <= j)
      BY <2>2
    <3>2. j \in T
      BY <3>1, <2>2
    <3> QED BY <3>1, <3>2, <2>1
  <2>4. Class(root, i) = Class(root, p)
    BY <2>2 DEF Class
  <2> QED BY <2>2, <2>3, <2>4 DEF Leaders, LedOrLone
<1>2. CASE T = {}
  <2>1. i \notin 1..n1
    BY <1>2
  <2>2. PICK q \in 1..n2 : i = n1 + q
    BY <2>1, NodeOfTier
  <2>3. \A k \in 1..n1 : root[k] # root[n1 + q]
    BY <1>2, <2>2
  <2> QED BY <2>2, <2>3 DEF Loners, LedOrLone
<1> QED BY <1>1, <1>2

\* So there are as many groups as leaders and loners.
LEMMA ClassesCounted ==
  ASSUME NEW n1 \in Nat, NEW n2 \in Nat, NEW root \in [1..(n1 + n2) -> 1..(n1 + n2)],
         \A q \in Loners(n1, n2, root) : Class(root, n1 + q) = {n1 + q}
  PROVE  Cardinality({Class(root, i) : i \in 1..(n1 + n2)})
           = Cardinality(Leaders(n1, root)) + Cardinality(Loners(n1, n2, root))
<1> DEFINE D == 1..(n1 + n2)
           P == Leaders(n1, root)
           Q == Loners(n1, n2, root)
           N == {n1 + q : q \in Q}
           classes == {Class(root, i) : i \in D}
           f == [i \in P \cup N |-> Class(root, i)]
           g == [q \in Q |-> n1 + q]
<1>1. /\ P \subseteq 1..n1 /\ Q \subseteq 1..n2 /\ N \subseteq D /\ P \subseteq D
      /\ \A x \in N : x \notin 1..n1
  BY DEF Leaders, Loners
<1>2. \A i, j \in D : Class(root, i) = Class(root, j) => root[i] = root[j]
  BY DEF Class
<1>3. ASSUME NEW i \in P \cup N, NEW j \in P \cup N, Class(root, i) = Class(root, j)
      PROVE  i = j
  <2>1. root[i] = root[j]
    BY <1>1, <1>2, <1>3
  <2>2. CASE i \in P /\ j \in P
    <3>1. i \in 1..n1 /\ j \in 1..n1
      BY <2>2, <1>1
    <3>2. ~ (i < j) /\ ~ (j < i)
      BY <2>1, <2>2, <3>1 DEF Leaders
    <3> QED BY <3>1, <3>2
  <2>3. CASE i \in P /\ j \in N
    <3>1. PICK q \in Q : j = n1 + q
      BY <2>3
    <3>2. root[i] # root[j]
      BY <3>1, <2>3, <1>1 DEF Loners
    <3> QED BY <3>2, <2>1
  <2>4. CASE j \in P /\ i \in N
    <3>1. PICK q \in Q : i = n1 + q
      BY <2>4
    <3>2. root[i] # root[j]
      BY <3>1, <2>4, <1>1 DEF Loners
    <3> QED BY <3>2, <2>1
  <2>5. CASE i \in N /\ j \in N
    <3>1. Class(root, i) = {i} /\ Class(root, j) = {j}
      BY <2>5
    <3> QED BY <3>1, <1>3
  <2> QED BY <2>2, <2>3, <2>4, <2>5
<1>4. classes = {f[i] : i \in P \cup N}
  <2>1. \A i \in P \cup N : f[i] = Class(root, i) /\ i \in D
    BY <1>1
  <2>2. \A i \in D : \E k \in P \cup N : Class(root, i) = f[k]
    <3> SUFFICES ASSUME NEW i \in D PROVE \E k \in P \cup N : Class(root, i) = f[k]
      OBVIOUS
    <3>1. CASE \E p \in P : Class(root, i) = Class(root, p)
      <4>1. PICK p \in P : Class(root, i) = Class(root, p)
        BY <3>1
      <4> QED BY <4>1
    <3>2. CASE \E q \in Q : i = n1 + q
      <4>1. i \in N
        BY <3>2
      <4> QED BY <4>1
    <3>3. (\E p \in P : Class(root, i) = Class(root, p)) \/ (\E q \in Q : i = n1 + q)
      <4>1. LedOrLone(n1, n2, root, i)
        BY LedOrAlone
      <4> QED BY <4>1 DEF LedOrLone
    <3> HIDE DEF P, Q, N, f
    <3> QED BY <3>1, <3>2, <3>3
  <2> HIDE DEF f, P, N, D
  <2> QED BY <2>1, <2>2
<1>5. f \in Bijection(P \cup N, classes)
  <2>1. \A i, j \in P \cup N : f[i] = f[j] => i = j
    BY <1>3
  <2>2. f = [i \in P \cup N |-> f[i]]
    OBVIOUS
  <2> HIDE DEF f, P, N, classes
  <2> QED BY <2>1, <2>2, <1>4 DEF Bijection, Injection, IsInjective, Surjection
<1>6. g \in Bijection(Q, N)
  <2>1. \A x, y \in Q : g[x] = g[y] => x = y
    BY <1>1
  <2>2. g = [q \in Q |-> g[q]] /\ N = {g[q] : q \in Q}
    OBVIOUS
  <2> HIDE DEF g, Q, N
  <2> QED BY <2>1, <2>2 DEF Bijection, Injection, IsInjective, Surjection
<1>7. IsFiniteSet(P) /\ IsFiniteSet(Q)
  <2>1. IsFiniteSet(1..n1) /\ IsFiniteSet(1..n2)
    BY FS_Interval
  <2> HIDE DEF P, Q
  <2> QED BY <2>1, <1>1, FS_Subset
<1>8. P \cap N = {}
  BY <1>1
<1> HIDE DEF P, Q, N, f, g, classes
<1>9. IsFiniteSet(N) /\ Cardinality(N) = Cardinality(Q)
  BY <1>6, <1>7, FS_Bijection DEF ExistsBijection
<1>10. IsFiniteSet(P \cup N) /\ Cardinality(P \cup N) = Cardinality(P) + Cardinality(N)
  <2>1. Cardinality(P \cap N) = 0
    BY <1>8, FS_EmptySet
  <2>2. /\ IsFiniteSet(P \cup N)
        /\ Cardinality(P \cup N) = Cardinality(P) + Cardinality(N) - Cardinality(P \cap N)
    BY <1>7, <1>9, FS_Union
  <2>3. Cardinality(P) \in Nat /\ Cardinality(N) \in Nat
    BY <1>7, <1>9, FS_CardinalityType
  <2> QED BY <2>1, <2>2, <2>3
<1>11. Cardinality(classes) = Cardinality(P \cup N)
  BY <1>5, <1>10, FS_Bijection DEF ExistsBijection
<1> QED BY <1>9, <1>10, <1>11 DEF classes, P, Q

\* One survivor for each group, and nothing else.
LEMMA DedupeIs ==
  ASSUME NEW page \in PageModel, NEW t1, NEW t2, Tiers(page, t1, t2)
  PROVE  LET D == 1..(Len(t1) + Len(t2))
             all == t1 \o t2
             root == group_overlapping_spans(t1, t2)
             found == dedupe_tier2_against_tier1(page, t1, t2)
         IN /\ Len(found) = Cardinality({Class(root, i) : i \in D})
            /\ \A i \in D : \E s \in ToSet(found) : Survivor(page, all, Class(root, i), s)
            /\ \A s \in ToSet(found) : \E i \in D : Survivor(page, all, Class(root, i), s)
<1> DEFINE n1 == Len(t1)
           n2 == Len(t2)
           D == 1..(n1 + n2)
           all == t1 \o t2
           root == group_overlapping_spans(t1, t2)
           Node(i) == IF i <= n1 THEN t1[i] ELSE t2[i - n1]
           Group(i) == {Node(j) : j \in {k \in DOMAIN root : root[k] = root[i]}}
           survivors == [i \in 1..n1 |-> merge_group(page, Group(i), t1[i])]
           P == {i \in 1..n1 : \A j \in 1..i - 1 : root[j] # root[i]}
           Q == {j \in 1..n2 : \A i \in 1..n1 : root[i] # root[n1 + j]}
           first == Picked(survivors, P)
           rest == Picked(t2, Q)
           found == dedupe_tier2_against_tier1(page, t1, t2)
<1>1. found = first \o rest
  BY DEF dedupe_tier2_against_tier1
<1>2. P = Leaders(n1, root) /\ Q = Loners(n1, n2, root)
  BY DEF Leaders, Loners
<1>3. /\ t1 \in Seq(Found(page)) /\ t2 \in Seq(Found(page)) /\ all \in Seq(Found(page))
      /\ n1 \in Nat /\ n2 \in Nat /\ Len(all) = n1 + n2
      /\ \A i \in 1..n1 : all[i] = t1[i] /\ t1[i] \in TierFound(page, "tier_1")
      /\ \A j \in 1..n2 : all[n1 + j] = t2[j] /\ t2[j] \in TierFound(page, "tier_2")
  BY NodesAre
<1>4. /\ root \in [D -> D]
      /\ \A x, y \in D : root[x] = root[y] => all[x].category = all[y].category
      /\ \A q \in Q : Class(root, n1 + q) = {n1 + q}
  BY ClassesAre
<1>5. /\ P \subseteq 1..n1 /\ Q \subseteq 1..n2 /\ 1..n1 \subseteq D
      /\ \A q \in 1..n2 : n1 + q \in D
  BY <1>3
<1> HIDE DEF P, Q, root, all, n1, n2, found
<1>6. \A i \in D : Node(i) = all[i]
  <2> SUFFICES ASSUME NEW i \in D PROVE Node(i) = all[i]
    OBVIOUS
  <2>1. CASE i \in 1..n1
    BY <2>1, <1>3
  <2>2. CASE \E j \in 1..n2 : i = n1 + j
    <3>1. PICK j \in 1..n2 : i = n1 + j
      BY <2>2
    <3>2. ~ (i <= n1) /\ i - n1 = j
      BY <3>1, <1>3
    <3> QED BY <3>1, <3>2, <1>3
  <2> QED BY <2>1, <2>2, <1>3, NodeOfTier
<1>7. \A i : Group(i) = {all[j] : j \in Class(root, i)}
  <2>1. \A i : Class(root, i) = {k \in DOMAIN root : root[k] = root[i]} /\ Class(root, i) \subseteq D
    BY <1>4 DEF Class
  <2> HIDE DEF Node
  <2> QED BY <2>1, <1>6
<1>8. \A i \in 1..n1 : survivors[i] = merge_group(page, {all[j] : j \in Class(root, i)}, all[i])
  BY <1>3, <1>7
<1>9. ASSUME NEW i \in 1..n1
      PROVE  survivors[i] \in Found(page) /\ Survivor(page, all, Class(root, i), survivors[i])
  <2> DEFINE group == Class(root, i)
             s == survivors[i]
  <2>1. /\ i \in group /\ group \in SUBSET (1..Len(all))
        /\ \A j \in group : all[j].category = all[i].category
    BY <1>3, <1>4, <1>5 DEF Class
  <2>2. all[i].bboxes = resolve_span_bboxes(page, all[i].start, all[i].end)
    BY <1>3 DEF TierFound
  <2>3. s = merge_group(page, {all[j] : j \in group}, all[i])
    BY <1>8
  <2> HIDE DEF group, s
  <2>4. Survivor(page, all, group, s)
    BY <2>1, <2>2, <2>3, <1>3, MergedSurvives
  <2>5. s \in Found(page)
    <3> DEFINE candidates == {all[j] : j \in group}
               primary == all[i]
    <3>1. candidates \in SUBSET Found(page) /\ primary \in candidates
      BY <2>1, <1>3
    <3>2. s = merge_group(page, candidates, primary)
      BY <2>3
    <3> HIDE DEF candidates, primary
    <3> QED BY <3>1, <3>2, MergedType
  <2> QED BY <2>4, <2>5 DEF group, s
<1>10. ASSUME NEW q \in Q PROVE Survivor(page, all, Class(root, n1 + q), t2[q])
  <2> DEFINE i == n1 + q
  <2>1. i \in 1..Len(all) /\ all[i] = t2[q] /\ Class(root, i) = {i}
    BY <1>3, <1>4, <1>5
  <2>2. all[i].bboxes = resolve_span_bboxes(page, all[i].start, all[i].end)
    BY <2>1, <1>3, <1>5 DEF TierFound
  <2> HIDE DEF i
  <2>3. Survivor(page, all, {i}, all[i])
    BY <2>1, <2>2, <1>3, AloneSurvives
  <2> QED BY <2>1, <2>3 DEF i
<1>11. survivors \in Seq(Found(page)) /\ Len(survivors) = n1
  <2>1. survivors = [i \in 1..n1 |-> survivors[i]]
    OBVIOUS
  <2> HIDE DEF survivors
  <2>2. survivors \in [1..n1 -> Found(page)]
    BY <2>1, <1>9
  <2>3. n1 \in Nat
    BY <1>3
  <2> HIDE DEF n1
  <2> QED BY <2>2, <2>3
<1> HIDE DEF survivors, Group
<1>12. /\ first \in Seq(Found(page)) /\ ToSet(first) = {survivors[k] : k \in P \cap (1..n1)}
       /\ Len(first) = Cardinality(P \cap (1..n1))
  BY <1>11, PickedElements, PickedLength
<1>13. /\ rest \in Seq(Found(page)) /\ ToSet(rest) = {t2[k] : k \in Q \cap (1..n2)}
       /\ Len(rest) = Cardinality(Q \cap (1..n2))
  BY <1>3, PickedElements, PickedLength DEF n2
<1> HIDE DEF first, rest
<1>14. P \cap (1..n1) = P /\ Q \cap (1..n2) = Q
  BY <1>5
<1>15. Len(found) = Cardinality(P) + Cardinality(Q)
  <2>1. Len(first \o rest) = Len(first) + Len(rest)
    BY <1>12, <1>13
  <2>2. Len(first) = Cardinality(P) /\ Len(rest) = Cardinality(Q)
    BY <1>12, <1>13, <1>14
  <2> QED BY <2>1, <2>2, <1>1
<1>16. ToSet(found) = {survivors[k] : k \in P} \cup {t2[k] : k \in Q}
  <2>1. ToSet(first \o rest) = ToSet(first) \cup ToSet(rest)
    BY <1>12, <1>13, ToSetConcat
  <2> QED BY <2>1, <1>1, <1>12, <1>13, <1>14
<1>17. Len(found) = Cardinality({Class(root, i) : i \in D})
  BY <1>2, <1>3, <1>4, <1>15, ClassesCounted
<1>18. ASSUME NEW i \in D PROVE \E s \in ToSet(found) : Survivor(page, all, Class(root, i), s)
  <2>1. CASE \E p \in P : Class(root, i) = Class(root, p)
    <3>1. PICK p \in P : Class(root, i) = Class(root, p)
      BY <2>1
    <3>2. survivors[p] \in ToSet(found)
      BY <1>16
    <3> QED BY <3>1, <3>2, <1>5, <1>9
  <2>2. CASE \E q \in Q : i = n1 + q
    <3>1. PICK q \in Q : i = n1 + q
      BY <2>2
    <3>2. t2[q] \in ToSet(found)
      BY <1>16
    <3>3. Survivor(page, all, Class(root, n1 + q), t2[q])
      BY <1>10
    <3> QED BY <3>1, <3>2, <3>3
  <2>3. LedOrLone(n1, n2, root, i)
    BY <1>3, <1>4, LedOrAlone
  <2> QED BY <2>1, <2>2, <2>3, <1>2 DEF LedOrLone
<1>19. ASSUME NEW s \in ToSet(found) PROVE \E i \in D : Survivor(page, all, Class(root, i), s)
  <2>1. CASE s \in {survivors[k] : k \in P}
    <3>1. PICK p \in P : s = survivors[p]
      BY <2>1
    <3>2. p \in 1..n1 /\ p \in D
      BY <1>5
    <3> QED BY <3>1, <3>2, <1>9
  <2>2. CASE s \in {t2[k] : k \in Q}
    <3>1. PICK q \in Q : s = t2[q]
      BY <2>2
    <3>2. n1 + q \in D
      BY <1>5
    <3> QED BY <3>1, <3>2, <1>10
  <2> QED BY <2>1, <2>2, <1>16
<1> QED BY <1>17, <1>18, <1>19 DEF root, all, n1, n2, found


\* The union-find agrees with reachability: the group of a node is what no closed
\* part separates from it.
LEMMA ComponentIsClass ==
  ASSUME NEW page \in PageModel, NEW t1, NEW t2, Tiers(page, t1, t2),
         NEW i \in 1..(Len(t1) + Len(t2))
  PROVE  Component(t1 \o t2, i) = Class(group_overlapping_spans(t1, t2), i)
<1> DEFINE n1 == Len(t1)
           n2 == Len(t2)
           D == 1..(n1 + n2)
           all == t1 \o t2
           root == group_overlapping_spans(t1, t2)
<1>0. Len(t1) \in Nat /\ Len(t2) \in Nat
  BY NodesAre
<1>1. /\ n1 \in Nat /\ n2 \in Nat /\ DOMAIN all = D
      /\ \A k \in 1..n1 : all[k] = t1[k] /\ t1[k].source_tier = "tier_1"
      /\ \A k \in 1..n2 : all[n1 + k] = t2[k] /\ t2[k].source_tier = "tier_2"
  BY NodesAre DEF TierFound
<1>2. /\ root \in [D -> D]
      /\ \A k \in 1..n1, j \in 1..n2 : spans_overlap(t1[k], t2[j]) => root[k] = root[n1 + j]
      /\ \A part :
           (\A k \in 1..n1, j \in 1..n2 :
              spans_overlap(t1[k], t2[j]) => (k \in part <=> n1 + j \in part))
           => \A x, y \in D : root[x] = root[y] => (x \in part <=> y \in part)
  BY <1>0, GroupsTogether
<1>3. \A a, b : spans_overlap(a, b) <=> spans_overlap(b, a)
  BY DEF spans_overlap, Overlaps
<1>4. \A k \in 1..n1 : k \in D
  BY <1>1
<1>5. \A j \in 1..n2 : n1 + j \in D
  BY <1>1
<1>6. i \in D
  OBVIOUS
<1> HIDE DEF root, all, n1, n2
<1>7. ASSUME NEW k \in D, NEW j \in D, Linked(all[k], all[j]) PROVE root[k] = root[j]
  <2>1. all[k].source_tier # all[j].source_tier /\ spans_overlap(all[k], all[j])
    BY <1>7 DEF Linked
  <2>2. CASE k \in 1..n1
    <3>1. j \notin 1..n1
      BY <2>1, <2>2, <1>1
    <3>2. PICK q \in 1..n2 : j = n1 + q
      BY <3>1, <1>1, NodeOfTier
    <3> QED BY <2>1, <2>2, <3>2, <1>1, <1>2
  <2>3. CASE k \notin 1..n1
    <3>1. PICK q \in 1..n2 : k = n1 + q
      BY <2>3, <1>1, NodeOfTier
    <3>2. j \in 1..n1
      <4> SUFFICES ASSUME j \notin 1..n1 PROVE FALSE
        OBVIOUS
      <4>1. PICK r \in 1..n2 : j = n1 + r
        BY <1>1, NodeOfTier
      <4> QED BY <4>1, <3>1, <2>1, <1>1
    <3>3. spans_overlap(t1[j], t2[q])
      BY <2>1, <3>1, <3>2, <1>1, <1>3
    <3> QED BY <3>1, <3>2, <3>3, <1>2
  <2> QED BY <2>2, <2>3
<1>8. Class(root, i) \in SUBSET D /\ i \in Class(root, i) /\ Closed(all, Class(root, i))
  <2>1. DOMAIN root = D
    BY <1>2
  <2> QED BY <2>1, <1>1, <1>6, <1>7 DEF Class, Closed
<1>9. ASSUME NEW part \in SUBSET D, i \in part, Closed(all, part), NEW j \in Class(root, i)
      PROVE  j \in part
  <2>1. ASSUME NEW k \in 1..n1, NEW q \in 1..n2, spans_overlap(t1[k], t2[q])
        PROVE  k \in part <=> n1 + q \in part
    <3>1. k \in D /\ n1 + q \in D
      BY <1>4, <1>5
    <3>2. Linked(all[k], all[n1 + q]) /\ Linked(all[n1 + q], all[k])
      BY <2>1, <1>1, <1>3 DEF Linked
    <3> QED BY <3>1, <3>2, <1>1, <1>9 DEF Closed
  <2>2. j \in D /\ root[j] = root[i]
    BY <1>2 DEF Class
  <2>3. j \in part <=> i \in part
    BY <2>1, <2>2, <1>2, <1>6
  <2> QED BY <2>3, <1>9
<1>10. Component(all, i) \subseteq Class(root, i)
  BY <1>1, <1>8 DEF Component
<1>11. Class(root, i) \subseteq Component(all, i)
  BY <1>1, <1>8, <1>9 DEF Component
<1> QED BY <1>10, <1>11 DEF all, root

HullOf(all, group) ==
  [start |-> Min({all[i].start : i \in group}), end |-> Max({all[i].end : i \in group}),
   category |-> all[CHOOSE i \in group : TRUE].category]

RangeOf(s) == [start |-> s.start, end |-> s.end, category |-> s.category]

OnePerComponent(all, found) ==
  LET groups == {Component(all, i) : i \in DOMAIN all}
  IN /\ Len(found) = Cardinality(groups)
     /\ {RangeOf(s) : s \in ToSet(found)} = {HullOf(all, g) : g \in groups}

\* What detection leaves on a page: one span for each component, over all of it.
LEMMA PageDedupe ==
  ASSUME NEW page \in PageModel, NEW t1, NEW t2, Tiers(page, t1, t2)
  PROVE  LET all == t1 \o t2
             found == dedupe_tier2_against_tier1(page, t1, t2)
         IN /\ OnePerComponent(all, found)
            /\ \A c \in ToSet(all) : \E s \in ToSet(found) :
                 /\ s.category = c.category /\ s.start <= c.start /\ c.end <= s.end
                 /\ s.bboxes = resolve_span_bboxes(page, s.start, s.end)
<1> DEFINE D == 1..(Len(t1) + Len(t2))
           all == t1 \o t2
           root == group_overlapping_spans(t1, t2)
           found == dedupe_tier2_against_tier1(page, t1, t2)
           groups == {Component(all, i) : i \in DOMAIN all}
           classes == {Class(root, i) : i \in D}
<1>1. DOMAIN all = D
  BY NodesAre
<1>2. DOMAIN root = D
  BY ClassesAre
<1>3. \A i \in D : Component(all, i) = Class(root, i)
  BY ComponentIsClass
<1>4. groups = classes
  BY <1>1, <1>3
<1>5. /\ Len(found) = Cardinality(classes)
      /\ \A i \in D : \E s \in ToSet(found) : Survivor(page, all, Class(root, i), s)
      /\ \A s \in ToSet(found) : \E i \in D : Survivor(page, all, Class(root, i), s)
  BY DedupeIs
<1> HIDE DEF D, all, root, found, groups
<1>6. \A i \in D : i \in Class(root, i)
  BY <1>2 DEF Class
<1>7. ASSUME NEW s, NEW g \in classes, Survivor(page, all, g, s) PROVE RangeOf(s) = HullOf(all, g)
  <2>1. PICK i \in D : g = Class(root, i)
    OBVIOUS
  <2>2. i \in g
    BY <2>1, <1>6
  <2> DEFINE one == CHOOSE k \in g : TRUE
  <2>3. one \in g
    BY <2>2
  <2> HIDE DEF one
  <2>4. /\ s.start = Min({all[j].start : j \in g}) /\ s.end = Max({all[j].end : j \in g})
        /\ s.category = all[one].category
    BY <2>3, <1>7 DEF Survivor
  <2> QED BY <2>4 DEF RangeOf, HullOf, one
<1>8. {RangeOf(s) : s \in ToSet(found)} = {HullOf(all, g) : g \in classes}
  <2>1. ASSUME NEW s \in ToSet(found) PROVE \E g \in classes : RangeOf(s) = HullOf(all, g)
    BY <1>5, <1>7
  <2>2. ASSUME NEW g \in classes PROVE \E s \in ToSet(found) : RangeOf(s) = HullOf(all, g)
    <3>1. PICK i \in D : g = Class(root, i)
      OBVIOUS
    <3>2. PICK s \in ToSet(found) : Survivor(page, all, g, s)
      BY <3>1, <1>5
    <3> QED BY <3>2, <1>7
  <2> HIDE DEF classes
  <2> QED BY <2>1, <2>2
<1>9. ASSUME NEW c \in ToSet(all)
      PROVE  \E s \in ToSet(found) : /\ s.category = c.category /\ s.start <= c.start /\ c.end <= s.end
                                     /\ s.bboxes = resolve_span_bboxes(page, s.start, s.end)
  <2>1. PICK i \in D : c = all[i]
    BY <1>1 DEF ToSet
  <2>2. PICK s \in ToSet(found) : Survivor(page, all, Class(root, i), s)
    BY <1>5
  <2> QED BY <2>1, <2>2, <1>6 DEF Survivor
<1>10. OnePerComponent(all, found)
  <2>1. OnePerComponent(all, found)
          <=> /\ Len(found) = Cardinality(groups)
              /\ {RangeOf(s) : s \in ToSet(found)} = {HullOf(all, g) : g \in groups}
    BY DEF OnePerComponent, groups
  <2> HIDE DEF classes
  <2> QED BY <2>1, <1>4, <1>5, <1>8
<1> HIDE DEF classes
<1> QED BY <1>9, <1>10 DEF all, found

\* A word that a range touches has its box among the boxes of each range around it.
LEMMA TouchedIsBoxed ==
  ASSUME NEW page \in PageModel, NEW start \in Nat, NEW end \in Nat, NEW lo \in Nat, NEW hi \in Nat,
         lo <= start, end <= hi, NEW w \in ToSet(page.words),
         NEW i \in start + 1..end, i \in w.start + 1..w.end
  PROVE  w.bbox \in ToSet(resolve_span_bboxes(page, lo, hi))
<1> DEFINE words == page.words
           P == {k \in DOMAIN words : words[k].start < hi /\ lo < words[k].end}
           touched == Picked(words, P)
           boxes == [k \in 1..Len(touched) |-> touched[k].bbox]
<1>1. words \in Seq(PageWord)
  BY DEF PageModel
<1>2. DOMAIN words = 1..Len(words)
  BY <1>1
<1>3. PICK k \in 1..Len(words) : w = words[k]
  BY <1>2 DEF ToSet
<1>4. w.start \in Nat /\ w.end \in Nat
  <2>1. w \in PageWord
    BY <1>1, <1>3
  <2> QED BY <2>1 DEF PageWord
<1>5. w.start < hi /\ lo < w.end
  BY <1>4
<1>6. k \in P \cap (1..Len(words))
  BY <1>2, <1>3, <1>5
<1>7. resolve_span_bboxes(page, lo, hi) = boxes
  BY DEF resolve_span_bboxes
<1> HIDE DEF P, words
<1>8. touched \in Seq(PageWord) /\ ToSet(touched) = {words[j] : j \in P \cap (1..Len(words))}
  BY <1>1, PickedElements
<1> HIDE DEF touched
<1>9. w \in ToSet(touched)
  BY <1>3, <1>6, <1>8
<1>10. DOMAIN touched = 1..Len(touched)
  BY <1>8
<1>11. PICK j \in 1..Len(touched) : w = touched[j]
  BY <1>9, <1>10 DEF ToSet
<1>12. boxes[j] = w.bbox /\ j \in DOMAIN boxes
  BY <1>11
<1> HIDE DEF boxes
<1> QED BY <1>7, <1>12 DEF ToSet


-----------------------------------------------------------------------------
(* The checksum *)

\* A digit has one value.
LEMMA ValueOfDigit ==
  ASSUME NEW d \in Digit
  PROVE  Value(d) \in 0..9 /\ Numeral[Value(d) + 1] = d
<1>1. /\ Numeral[1] = "0" /\ Numeral[2] = "1" /\ Numeral[3] = "2" /\ Numeral[4] = "3"
      /\ Numeral[5] = "4" /\ Numeral[6] = "5" /\ Numeral[7] = "6" /\ Numeral[8] = "7"
      /\ Numeral[9] = "8" /\ Numeral[10] = "9"
  BY DEF Numeral
<1>2. \E n \in 0..9 : Numeral[n + 1] = d
  <2>1. /\ Numeral[0 + 1] = "0" /\ Numeral[1 + 1] = "1" /\ Numeral[2 + 1] = "2"
        /\ Numeral[3 + 1] = "3" /\ Numeral[4 + 1] = "4" /\ Numeral[5 + 1] = "5"
        /\ Numeral[6 + 1] = "6" /\ Numeral[7 + 1] = "7" /\ Numeral[8 + 1] = "8"
        /\ Numeral[9 + 1] = "9"
    BY <1>1
  <2>2. /\ 0 \in 0..9 /\ 1 \in 0..9 /\ 2 \in 0..9 /\ 3 \in 0..9 /\ 4 \in 0..9 /\ 5 \in 0..9
        /\ 6 \in 0..9 /\ 7 \in 0..9 /\ 8 \in 0..9 /\ 9 \in 0..9
    OBVIOUS
  <2> QED BY <2>1, <2>2, Zenon DEF Digit
<1> QED BY <1>2 DEF Value

\* What a value adds to the sum, at a place where it is doubled or is not.
Added(value, doubled) ==
  IF ~ doubled THEN value ELSE IF value * 2 > 9 THEN value * 2 - 9 ELSE value * 2

\* Two values never add the same at one place, so what they add differs by 1 to 9.
LEMMA AddedDiffers ==
  ASSUME NEW v \in 0..9, NEW w \in 0..9, v # w, NEW doubled \in BOOLEAN
  PROVE  /\ Added(v, doubled) \in 0..9 /\ Added(w, doubled) \in 0..9
         /\ Added(v, doubled) # Added(w, doubled)
<1>1. CASE doubled
  BY <1>1 DEF Added
<1>2. CASE ~ doubled
  BY <1>2 DEF Added
<1> QED BY <1>1, <1>2

(* What one digit adds to the Luhn sum. *)
LEMMA LuhnAdds ==
  ASSUME NEW digits, NEW index
  PROVE  Luhn_value(digits, index)
           = Added(Value(digits[index + 1]), index % 2 = Len(digits) % 2)
BY DEF Luhn_value, Added

\* The sums of the check.
Sums(digits, total) ==
  /\ total \in [0..Len(digits) -> Nat] /\ total[0] = 0
  /\ \A k \in 1..Len(digits) :
       /\ Luhn_value(digits, k - 1) \in Nat
       /\ total[k] = total[k - 1] + Luhn_value(digits, k - 1)

(* A number that passes the Luhn check has a running sum that ends in a multiple of ten. *)
LEMMA LuhnSums ==
  ASSUME NEW digits \in Seq(Digit), luhn_check(digits)
  PROVE  \E total : Sums(digits, total) /\ total[Len(digits)] % 10 = 0
<1> DEFINE n == Len(digits)
           Good(f) == f = [k \in 0..n |-> IF k = 0 THEN 0 ELSE f[k - 1] + Luhn_value(digits, k - 1)]
           total == CHOOSE f : Good(f)
           step == [p \in Nat \X (1..n) |-> p[1] + Luhn_value(digits, p[2] - 1)]
           zero == 0
           N == Nat
           it == Iterated(n, zero, step)
<1>1. n \in Nat /\ \A k \in 1..n : digits[k] \in Digit
  OBVIOUS
<1>2. total[n] % 10 = 0
  BY DEF luhn_check
<1> HIDE DEF n
<1>3. \A k \in 1..n : Luhn_value(digits, k - 1) \in Nat
  <2> SUFFICES ASSUME NEW k \in 1..n PROVE Luhn_value(digits, k - 1) \in Nat
    OBVIOUS
  <2>1. (k - 1) + 1 = k /\ Value(digits[k]) \in 0..9
    BY <1>1, ValueOfDigit
  <2> DEFINE v == Value(digits[k])
             doubled == (k - 1) % 2 = Len(digits) % 2
  <2>2. Luhn_value(digits, k - 1) = Added(v, doubled)
    BY <2>1, LuhnAdds
  <2>3. v \in 0..9 /\ doubled \in BOOLEAN
    BY <2>1
  <2> HIDE DEF v, doubled
  <2>4. Added(v, doubled) \in Nat
    BY <2>3 DEF Added
  <2> QED BY <2>2, <2>4
<1>4. step \in Steps(n, Nat)
  BY <1>3 DEF Steps
<1>5. /\ it \in [0..n -> Nat] /\ it[0] = 0 /\ \A k \in 1..n : it[k] = step[<<it[k - 1], k>>]
  <2>1. zero \in N /\ n \in Nat /\ step \in Steps(n, N)
    BY <1>1, <1>4
  <2> HIDE DEF step, zero, N
  <2>2. /\ it \in [0..n -> N] /\ it[0] = zero
        /\ \A k \in 1..n : it[k] = step[<<it[k - 1], k>>]
    BY <2>1, Recursion
  <2> QED BY <2>2 DEF zero, N
<1> HIDE DEF it
<1>6. ASSUME NEW k \in 1..n PROVE it[k] = it[k - 1] + Luhn_value(digits, k - 1)
  <2>1. k - 1 \in 0..n
    BY <1>1
  <2>2. it[k - 1] \in Nat
    BY <2>1, <1>5
  <2> QED BY <2>2, <1>5
<1> HIDE DEF step
<1>7. Good(it)
  <2>1. \A k \in 0..n : it[k] = IF k = 0 THEN 0 ELSE it[k - 1] + Luhn_value(digits, k - 1)
    <3> SUFFICES ASSUME NEW k \in 0..n, k # 0
                 PROVE it[k] = it[k - 1] + Luhn_value(digits, k - 1)
      BY <1>5
    <3>1. k \in 1..n
      BY <1>1
    <3> QED BY <3>1, <1>6
  <2>2. it = [k \in 0..n |-> it[k]]
    BY <1>5
  <2> QED BY <2>1, <2>2
<1>8. Good(total)
  <2> HIDE DEF Good
  <2> QED BY <1>7
<1>9. total = it
  <2> DEFINE T == {k \in Nat : k <= n => total[k] = it[k]}
  <2>1. \A k \in 0..n : total[k] = IF k = 0 THEN 0 ELSE total[k - 1] + Luhn_value(digits, k - 1)
    <3> HIDE DEF total
    <3> QED BY <1>8
  <2>2. total = [k \in 0..n |-> total[k]]
    <3> DEFINE next == [k \in 0..n |-> IF k = 0 THEN 0 ELSE total[k - 1] + Luhn_value(digits, k - 1)]
    <3>1. total = next
      BY <1>8
    <3>2. next = [k \in 0..n |-> next[k]]
      OBVIOUS
    <3> QED BY <3>1, <3>2
  <2> HIDE DEF total
  <2>3. 0 \in T
    BY <2>1, <1>1, <1>5
  <2>4. ASSUME NEW k \in Nat, k \in T PROVE k + 1 \in T
    <3> SUFFICES ASSUME k + 1 <= n PROVE total[k + 1] = it[k + 1]
      OBVIOUS
    <3>1. k + 1 \in 1..n /\ (k + 1) - 1 = k /\ k + 1 \in 0..n /\ k + 1 # 0 /\ total[k] = it[k]
      BY <2>4, <1>1
    <3>2. total[k + 1] = total[k] + Luhn_value(digits, k)
      BY <2>1, <3>1
    <3>3. it[k + 1] = it[k] + Luhn_value(digits, k)
      BY <1>6, <3>1
    <3> QED BY <3>1, <3>2, <3>3
  <2>5. Nat \subseteq T
    <3> HIDE DEF T
    <3> QED BY <2>3, <2>4, Induction
  <2>6. \A k \in 0..n : total[k] = it[k]
    BY <2>5, <1>1
  <2> QED BY <2>2, <2>6, <1>5
<1> HIDE DEF total
<1>10. Sums(digits, total)
  BY <1>3, <1>5, <1>6, <1>9 DEF Sums, n
<1> QED BY <1>2, <1>10 DEF n

\* Numbers that differ in one digit do not both have their checksum.
LEMMA OneDigitMistyped ==
  ASSUME NEW a \in AccountNumber, NEW b \in AccountNumber, Len(a) = Len(b),
         NEW p \in 1..Len(a), a[p] # b[p], \A i \in 1..Len(a) : i # p => a[i] = b[i]
  PROVE  FALSE
<1> DEFINE n == Len(a)
           x(k) == Luhn_value(a, k - 1)
           y(k) == Luhn_value(b, k - 1)
<1>1. a \in Seq(Digit) /\ b \in Seq(Digit) /\ luhn_check(a) /\ luhn_check(b)
  BY DEF AccountNumber
<1>2. n \in Nat /\ Len(b) = n /\ \A k \in 1..n : a[k] \in Digit /\ b[k] \in Digit
  BY <1>1
<1>3. PICK s : Sums(a, s) /\ s[n] % 10 = 0
  BY <1>1, LuhnSums
<1>4. PICK t : Sums(b, t) /\ t[n] % 10 = 0
  BY <1>1, <1>2, LuhnSums
<1> HIDE DEF n
<1>5. /\ \A k \in 0..n : s[k] \in Nat /\ t[k] \in Nat
      /\ s[0] = 0 /\ t[0] = 0
      /\ \A k \in 1..n : /\ x(k) \in Nat /\ y(k) \in Nat
                         /\ s[k] = s[k - 1] + x(k) /\ t[k] = t[k - 1] + y(k)
  BY <1>2, <1>3, <1>4 DEF Sums, n
<1>6. ASSUME NEW k \in 1..n
      PROVE  \E doubled \in BOOLEAN : /\ x(k) = Added(Value(a[k]), doubled)
                                      /\ y(k) = Added(Value(b[k]), doubled)
  <2> DEFINE doubled == (k - 1) % 2 = n % 2
  <2>1. (k - 1) + 1 = k
    BY <1>2
  <2>2. doubled \in BOOLEAN
    OBVIOUS
  <2>3. Luhn_value(a, k - 1) = Added(Value(a[k]), doubled)
    BY <2>1, LuhnAdds DEF n
  <2>4. Luhn_value(b, k - 1) = Added(Value(b[k]), doubled)
    BY <2>1, <1>2, LuhnAdds
  <2> HIDE DEF doubled
  <2> QED BY <2>2, <2>3, <2>4
<1>7. \A k \in 1..n : k # p => x(k) = y(k)
  <2> SUFFICES ASSUME NEW k \in 1..n, k # p PROVE x(k) = y(k)
    OBVIOUS
  <2>1. a[k] = b[k]
    BY DEF n
  <2> HIDE DEF x, y
  <2> QED BY <2>1, <1>6
<1>8. x(p) \in 0..9 /\ y(p) \in 0..9 /\ x(p) # y(p)
  <2> DEFINE v == Value(a[p])
             w == Value(b[p])
  <2>1. p \in 1..n
    BY DEF n
  <2>2. v \in 0..9 /\ w \in 0..9 /\ v # w
    BY <2>1, <1>2, ValueOfDigit
  <2>3. PICK doubled \in BOOLEAN : x(p) = Added(v, doubled) /\ y(p) = Added(w, doubled)
    BY <2>1, <1>6
  <2> HIDE DEF v, w, x, y
  <2> QED BY <2>2, <2>3, AddedDiffers
<1> HIDE DEF x, y
<1> DEFINE d == x(p) - y(p)
           T == {k \in Nat : k <= n => s[k] - t[k] = IF k < p THEN 0 ELSE d}
<1>9. p \in 1..n /\ d \in Int /\ d # 0 /\ -9 <= d /\ d <= 9
  <2> DEFINE u == x(p)
             v == y(p)
  <2>1. u \in 0..9 /\ v \in 0..9 /\ u # v
    BY <1>8
  <2> HIDE DEF u, v
  <2>2. u - v \in Int /\ u - v # 0 /\ -9 <= u - v /\ u - v <= 9
    BY <2>1
  <2> QED BY <2>2 DEF u, v, n
<1> HIDE DEF d
<1>10. 0 \in T
  BY <1>5, <1>9, <1>2
<1>11. ASSUME NEW k \in Nat, k \in T PROVE k + 1 \in T
  <2> SUFFICES ASSUME k + 1 <= n PROVE s[k + 1] - t[k + 1] = IF k + 1 < p THEN 0 ELSE d
    OBVIOUS
  <2>1. k + 1 \in 1..n /\ (k + 1) - 1 = k /\ k \in 0..n /\ k + 1 \in 0..n
    BY <1>2
  <2>2. s[k] - t[k] = IF k < p THEN 0 ELSE d
    BY <1>11, <2>1
  <2>3. /\ s[k + 1] = s[k] + x(k + 1) /\ t[k + 1] = t[k] + y(k + 1)
        /\ x(k + 1) \in Nat /\ y(k + 1) \in Nat /\ s[k] \in Nat /\ t[k] \in Nat
    BY <2>1, <1>5
  <2>4. k + 1 # p => x(k + 1) = y(k + 1)
    BY <2>1, <1>7
  <2>5. k + 1 = p => x(k + 1) - y(k + 1) = d
    BY DEF d
  <2> DEFINE s0 == s[k]
             t0 == t[k]
             u == x(k + 1)
             v == y(k + 1)
             m == k + 1
  <2>6. /\ s0 \in Nat /\ t0 \in Nat /\ u \in Nat /\ v \in Nat
        /\ s[k + 1] = s0 + u /\ t[k + 1] = t0 + v
        /\ s0 - t0 = IF k < p THEN 0 ELSE d
        /\ m # p => u = v
        /\ m = p => u - v = d
    BY <2>2, <2>3, <2>4, <2>5
  <2>7. p \in Int /\ d \in Int /\ k \in Int /\ m = k + 1
    BY <1>2, <1>9
  <2> HIDE DEF s0, t0, u, v, m
  <2>8. CASE m < p
    <3>1. s0 = t0 /\ u = v
      BY <2>6, <2>7, <2>8
    <3> QED BY <3>1, <2>6, <2>7, <2>8
  <2>9. CASE m = p
    <3>1. s0 = t0 /\ u - v = d
      BY <2>6, <2>7, <2>9
    <3> QED BY <3>1, <2>6, <2>7, <2>9
  <2>10. CASE p < m
    <3>1. s0 - t0 = d /\ u = v
      BY <2>6, <2>7, <2>10
    <3> QED BY <3>1, <2>6, <2>7, <2>10
  <2> QED BY <2>7, <2>8, <2>9, <2>10
<1>12. n \in T
  <2> HIDE DEF T
  <2> QED BY <1>2, <1>10, <1>11, Induction
<1>13. s[n] - t[n] = d
  BY <1>2, <1>9, <1>12
<1> DEFINE sn == s[n]
           tn == t[n]
<1>14. sn \in Nat /\ tn \in Nat /\ sn % 10 = 0 /\ tn % 10 = 0 /\ sn - tn = d
  BY <1>2, <1>3, <1>4, <1>5, <1>13
<1> HIDE DEF sn, tn
<1> QED BY <1>9, <1>14


-----------------------------------------------------------------------------
(* Detection is exact *)

\* In review the pages and the results of the model are still those of the detection.
DetectOK ==
  status = "in_review" =>
    /\ pages = extract_open_document(pdf)
    /\ ner \in [DOMAIN pdf.pages -> NerResults]
    /\ \A n \in DOMAIN pdf.pages : Fits(pages[n], ner[n])

(* Every step keeps what detection found exact. *)
LEMMA DetectNext ==
  ASSUME IInv, DetectOK, [Next]_vars
  PROVE  DetectOK'
<1> USE DEF reviewVars, burnVars
<1>0. todo # none => status = "uploaded"
  BY DEF IInv, IngestOK
<1>1. ASSUME status' # "in_review" PROVE DetectOK'
  BY <1>1 DEF DetectOK
<1>2. ASSUME UNCHANGED <<pdf, status, pages, ner>> PROVE DetectOK'
  BY <1>2 DEF DetectOK
<1>3. CASE CreateJob
  <2>1. status' # "in_review"
    BY <1>3 DEF CreateJob
  <2> QED BY <2>1, <1>1
<1>4. CASE StartIngest
  <2>1. status' # "in_review"
    BY <1>4 DEF StartIngest
  <2> QED BY <2>1, <1>1
<1>5. CASE UploadArtifact
  <2>1. UNCHANGED <<pdf, status, pages, ner>>
    BY <1>5 DEF UploadArtifact
  <2> QED BY <2>1, <1>2
<1>6. CASE UploadRaises
  <2>1. status' # "in_review"
    BY <1>6 DEF UploadRaises
  <2> QED BY <2>1, <1>1
<1>7. CASE WorkerDies
  <2>1. status' # "in_review"
    BY <1>7, <1>0 DEF WorkerDies
  <2> QED BY <2>1, <1>1
<1>8. CASE FinishIngest
  <2>1. status' # "in_review"
    BY <1>8 DEF FinishIngest
  <2> QED BY <2>1, <1>1
<1>9. CASE Detect
  <2>1. pages' = extract_open_document(pdf) /\ pdf' = pdf
    BY <1>9 DEF Detect
  <2>2. PICK results \in [DOMAIN pdf.pages -> NerResults] :
          (\A n \in DOMAIN results : Fits(pages'[n], results[n])) /\ ner' = results
    BY <1>9 DEF Detect
  <2> QED BY <2>1, <2>2 DEF DetectOK
<1>10. CASE CreateDispositions
  <2>1. UNCHANGED <<pdf, status, pages, ner>>
    BY <1>10 DEF CreateDispositions
  <2> QED BY <2>1, <1>2
<1>11. CASE RequestApply
  <2>1. status' # "in_review"
    BY <1>11 DEF RequestApply
  <2> QED BY <2>1, <1>1
<1>12. CASE ApplyRaises
  <2>1. status' # "in_review"
    BY <1>12 DEF ApplyRaises
  <2> QED BY <2>1, <1>1
<1>13. CASE ApplyJob
  <2>1. status' # "in_review"
    BY <1>13 DEF ApplyJob
  <2> QED BY <2>1, <1>1
<1>14. CASE Export
  <2>1. status' # "in_review"
    BY <1>14 DEF Export
  <2> QED BY <2>1, <1>1
<1>15. CASE UNCHANGED vars
  <2>1. UNCHANGED <<pdf, status, pages, ner>>
    BY <1>15 DEF vars
  <2> QED BY <2>1, <1>2
<1> QED BY <1>3, <1>4, <1>5, <1>6, <1>7, <1>8, <1>9, <1>10, <1>11, <1>12, <1>13, <1>14, <1>15 DEF Next

(* Detection is exact in every state, beside the invariant of the rest of the job. *)
LEMMA AlwaysDetectOK == Spec => [](IInv /\ DetectOK)
<1>1. Init => DetectOK
  BY DEF Init, DetectOK
<1>2. IInv /\ DetectOK /\ [Next]_vars => DetectOK'
  BY DetectNext
<1> QED BY <1>1, <1>2, AlwaysIInv, PTL DEF Spec

\* A page that detection has been over.
LEMMA PageInReview ==
  ASSUME IInv, DetectOK, JustDetected, NEW n \in DOMAIN pages
  PROVE  /\ pages[n] \in PageModel
         /\ Tiers(pages[n], tier1_spans(pages[n]), page_spans(pages[n], ner[n]))
         /\ detect_page(pages[n], ner[n])
              = dedupe_tier2_against_tier1(pages[n], tier1_spans(pages[n]), page_spans(pages[n], ner[n]))
<1>1. /\ pdf \in PDF /\ pages = extract_open_document(pdf)
      /\ ner \in [DOMAIN pdf.pages -> NerResults]
      /\ \A k \in DOMAIN pdf.pages : Fits(pages[k], ner[k])
  BY DEF IInv, StateOK, DetectOK, JustDetected
<1>2. DOMAIN pages = DOMAIN pdf.pages /\ DOMAIN pdf.pages = 1..Len(pdf.pages)
  BY <1>1, ExtractedType, UploadType
<1>3. pages[n] \in PageModel
  BY <1>1, <1>2, PageIsFaithful
<1>4. ner[n] \in Seq(NerResult) /\ Fits(pages[n], ner[n])
  <2>1. ner[n] \in NerResults
    BY <1>1, <1>2
  <2> QED BY <2>1, <1>1, <1>2, ContentAssumption DEF NerResult
<1> DEFINE page == pages[n]
           results == ner[n]
<1>5. page \in PageModel /\ results \in Seq(NerResult) /\ Fits(page, results)
  BY <1>3, <1>4
<1> HIDE DEF page, results
<1>6. Tiers(page, tier1_spans(page), page_spans(page, results))
  BY <1>5, Tier1Types, Tier2Types DEF Tiers
<1> QED BY <1>5, <1>6 DEF page, results, detect_page

\* The spans that detection leaves are those the components of the candidates ask
\* for, each with all the words of its candidates, and no two account numbers differ
\* in one digit.
THEOREM DetectionExact == Spec => []DetectionIsExact
<1>1. IInv /\ DetectOK => DetectionIsExact
  <2> SUFFICES ASSUME IInv, DetectOK, JustDetected
               PROVE  DedupeIsByComponent /\ NoCharacterIsLost /\ MistypedAccountsAreNotDetected
    BY DEF DetectionIsExact, DedupeIsByComponent, NoCharacterIsLost, MistypedAccountsAreNotDetected
  <2>1. DedupeIsByComponent
    <3> SUFFICES ASSUME NEW n \in DOMAIN pages
                 PROVE  OnePerComponent(Candidates(n), detect_page(pages[n], ner[n]))
      BY DEF DedupeIsByComponent, OnePerComponent, RangeOf, HullOf
    <3> DEFINE page == pages[n]
               t1 == tier1_spans(pages[n])
               t2 == page_spans(pages[n], ner[n])
    <3>1. page \in PageModel /\ Tiers(page, t1, t2)
      BY PageInReview
    <3>2. detect_page(pages[n], ner[n]) = dedupe_tier2_against_tier1(page, t1, t2)
      BY PageInReview
    <3>3. Candidates(n) = t1 \o t2
      BY DEF Candidates
    <3> HIDE DEF page, t1, t2
    <3> QED BY <3>1, <3>2, <3>3, PageDedupe
  <2>2. NoCharacterIsLost
    <3> SUFFICES ASSUME NEW n \in DOMAIN pages, NEW c \in ToSet(Candidates(n))
                 PROVE  \E s \in ToSet(detect_page(pages[n], ner[n])) :
                          /\ s.category = c.category /\ s.start <= c.start /\ c.end <= s.end
                          /\ \A w \in ToSet(pages[n].words) :
                               (\E i \in c.start + 1..c.end : i \in w.start + 1..w.end)
                                 => w.bbox \in ToSet(s.bboxes)
      BY DEF NoCharacterIsLost
    <3> DEFINE page == pages[n]
               t1 == tier1_spans(pages[n])
               t2 == page_spans(pages[n], ner[n])
               found == dedupe_tier2_against_tier1(page, t1, t2)
    <3>1. page \in PageModel /\ Tiers(page, t1, t2)
      BY PageInReview
    <3>2. detect_page(pages[n], ner[n]) = found
      BY PageInReview
    <3>3. c \in ToSet(t1 \o t2)
      BY DEF Candidates
    <3>4. page = pages[n]
      OBVIOUS
    <3> HIDE DEF page, t1, t2
    <3>5. PICK s \in ToSet(found) : /\ s.category = c.category /\ s.start <= c.start /\ c.end <= s.end
                                    /\ s.bboxes = resolve_span_bboxes(page, s.start, s.end)
      BY <3>1, <3>3, PageDedupe
    <3>6. c.start \in Nat /\ c.end \in Nat /\ s.start \in Nat /\ s.end \in Nat
      <4>1. t1 \in Seq(Found(page)) /\ t2 \in Seq(Found(page)) /\ t1 \o t2 \in Seq(Found(page))
        BY <3>1, NodesAre
      <4>2. found \in Seq(Found(page))
        BY <3>1, <4>1, DedupeTypes
      <4> HIDE DEF found
      <4>3. c \in Found(page) /\ s \in Found(page)
        BY <3>3, <4>1, <4>2, ToSetFinite
      <4>4. c \in AnyFound /\ s \in AnyFound
        BY <3>1, <4>3, FoundType
      <4> QED BY <4>4 DEF AnyFound
    <3>7. ASSUME NEW w \in ToSet(page.words), NEW i \in c.start + 1..c.end, i \in w.start + 1..w.end
          PROVE  w.bbox \in ToSet(s.bboxes)
      <4> DEFINE start == c.start
                 end == c.end
                 lo == s.start
                 hi == s.end
      <4>1. /\ start \in Nat /\ end \in Nat /\ lo \in Nat /\ hi \in Nat /\ lo <= start /\ end <= hi
            /\ i \in start + 1..end /\ s.bboxes = resolve_span_bboxes(page, lo, hi)
        BY <3>5, <3>6
      <4> HIDE DEF start, end, lo, hi
      <4> QED BY <4>1, <3>1, <3>7, TouchedIsBoxed
    <3> HIDE DEF found
    <3> QED BY <3>2, <3>4, <3>5, <3>7
  <2>3. MistypedAccountsAreNotDetected
    <3> SUFFICES ASSUME NEW n \in DOMAIN pages,
                        NEW s \in ToSet(tier1_spans(pages[n])), s.category = "account_number",
                        NEW t \in ToSet(tier1_spans(pages[n])), t.category = "account_number",
                        Len(s.text) = Len(t.text),
                        Cardinality({i \in DOMAIN s.text : s.text[i] # t.text[i]}) = 1
                 PROVE  FALSE
      BY DEF MistypedAccountsAreNotDetected
    <3> DEFINE a == s.text
               b == t.text
               wrong == {i \in DOMAIN a : a[i] # b[i]}
    <3>1. tier1_spans(pages[n]) \in Seq(TierFound(pages[n], "tier_1"))
      BY PageInReview DEF Tiers
    <3>2. s \in TierFound(pages[n], "tier_1") /\ t \in TierFound(pages[n], "tier_1")
      BY <3>1, ToSetFinite
    <3>3. a \in AccountNumber /\ b \in AccountNumber
      BY <3>2 DEF TierFound
    <3>4. Len(a) = Len(b) /\ Cardinality(wrong) = 1
      OBVIOUS
    <3> HIDE DEF a, b
    <3>5. DOMAIN a = 1..Len(a) /\ Len(a) \in Nat
      BY <3>3 DEF AccountNumber
    <3>6. IsFiniteSet(wrong)
      <4>1. IsFiniteSet(1..Len(a)) /\ wrong \subseteq 1..Len(a)
        BY <3>5, FS_Interval
      <4> HIDE DEF wrong
      <4> QED BY <4>1, FS_Subset
    <3>7. \E p : wrong = {p}
      <4> HIDE DEF wrong
      <4> QED BY <3>4, <3>6, FS_Singleton
    <3>8. PICK p : wrong = {p}
      BY <3>7
    <3>9. p \in 1..Len(a) /\ a[p] # b[p] /\ \A i \in 1..Len(a) : i # p => a[i] = b[i]
      BY <3>5, <3>8
    <3> QED BY <3>3, <3>4, <3>9, OneDigitMistyped
  <2> QED BY <2>1, <2>2, <2>3
<1> QED BY <1>1, AlwaysDetectOK, PTL

=============================================================================
