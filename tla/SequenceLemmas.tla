--------------------------- MODULE SequenceLemmas ---------------------------
(***************************************************************************)
(* Induction over the natural numbers as a statement about sets, so that   *)
(* it can be cited for any set, and with it what the recursive functions   *)
(* of PageText compute.                                                    *)
(***************************************************************************)
EXTENDS PageText, WellFoundedInduction, FiniteSetTheorems, SequenceTheorems, TLAPS

(* A set of numbers that is not empty has a least element. *)
LEMMA LeastElement ==
  ASSUME NEW T \in SUBSET Nat, T # {}
  PROVE  \E m \in T : \A k \in T : m <= k
<1> DEFINE R == OpToRel(<, Nat)
<1>1. IsWellFoundedOn(R, Nat)
  BY NatLessThanWellFounded
<1>2. PICK x \in T : \A y \in T : ~ (<<y, x>> \in R)
  <2> HIDE DEF R
  <2> QED BY <1>1, WFMin
<1>3. \A y \in T : y < x => <<y, x>> \in R
  BY DEF OpToRel
<1>4. \A y \in T : ~ (y < x)
  BY <1>2, <1>3
<1> QED
  <2> HIDE DEF R
  <2> QED BY <1>4

\* A set that has 0, and with each number the next one, has all of them.
LEMMA Induction ==
  ASSUME NEW T, 0 \in T, \A n \in Nat : n \in T => n + 1 \in T
  PROVE  Nat \subseteq T
<1> SUFFICES ASSUME Nat \ T # {} PROVE FALSE
  OBVIOUS
<1>1. PICK m \in Nat \ T : \A k \in Nat \ T : m <= k
  BY LeastElement
<1>2. m # 0 /\ m - 1 \in Nat
  BY <1>1
<1>3. m - 1 \in T
  BY <1>1, <1>2
<1> QED BY <1>1, <1>2, <1>3

(* Induction up to n, for a set instead of a predicate. *)
LEMMA IntervalInduction ==
  ASSUME NEW n \in Nat, NEW T, 0 \in T, \A k \in 0..n - 1 : k \in T => k + 1 \in T
  PROVE  0..n \subseteq T
<1> DEFINE U == {k \in Nat : k <= n => k \in T}
<1>1. 0 \in U
  OBVIOUS
<1>2. \A k \in Nat : k \in U => k + 1 \in U
  OBVIOUS
<1>3. Nat \subseteq U
  <2> HIDE DEF U
  <2> QED BY <1>1, <1>2, Induction
<1> QED BY <1>3

\* The function that a step defines by recursion over an interval, and that there
\* is one.
Iterated(n, c, step) ==
  CHOOSE f : f = [i \in 0..n |-> IF i = 0 THEN c ELSE step[<<f[i - 1], i>>]]

Steps(n, S) == [S \X (1..n) -> S]

(* A function defined by recursion on the numbers up to n exists and follows its recursion. *)
LEMMA Recursion ==
  ASSUME NEW n \in Nat, NEW S, NEW c \in S, NEW step \in Steps(n, S)
  PROVE  /\ Iterated(n, c, step) \in [0..n -> S]
         /\ Iterated(n, c, step)[0] = c
         /\ \A i \in 1..n : Iterated(n, c, step)[i] = step[<<Iterated(n, c, step)[i - 1], i>>]
<1> USE DEF Steps
<1> DEFINE Good(f, m) == f \in [0..m -> S] /\ \A i \in 0..m : f[i] = IF i = 0 THEN c ELSE step[<<f[i - 1], i>>]
<1> DEFINE T == {m \in Nat : \E f : Good(f, m)}
<1>1. 0 \in T
  <2>1. Good([i \in 0..0 |-> c], 0)
    OBVIOUS
  <2> QED BY <2>1
<1>2. ASSUME NEW m \in 0..n - 1, m \in T PROVE m + 1 \in T
  <2>2. PICK f : Good(f, m)
    BY <1>2
  <2>3. f[m] \in S /\ m + 1 \in 1..n
    BY <2>2
  <2>4. step[<<f[m], m + 1>>] \in S
    BY <2>3
  <2> DEFINE g == [i \in 0..(m + 1) |-> IF i = m + 1 THEN step[<<f[m], m + 1>>] ELSE f[i]]
  <2>5. g \in [0..(m + 1) -> S]
    BY <2>4, <2>2
  <2>6. ASSUME NEW i \in 0..(m + 1) PROVE g[i] = IF i = 0 THEN c ELSE step[<<g[i - 1], i>>]
    <3>1. CASE i = m + 1
      <4>1. m + 1 \in 0..(m + 1) /\ m \in 0..(m + 1) /\ m # m + 1 /\ (m + 1) - 1 = m /\ m + 1 # 0
        OBVIOUS
      <4>2. g[m + 1] = step[<<f[m], m + 1>>] /\ g[m] = f[m]
        BY <4>1
      <4> HIDE DEF g
      <4> QED BY <3>1, <4>1, <4>2
    <3>2. CASE i = 0
      <4>1. g[0] = f[0] /\ 0 \in 0..m
        OBVIOUS
      <4>2. f[0] = c
        BY <2>2, <4>1
      <4> QED BY <4>1, <4>2, <3>2
    <3>3. CASE i \in 1..m
      <4>1. g[i] = f[i] /\ g[i - 1] = f[i - 1]
        BY <3>3
      <4> QED BY <4>1, <3>3, <2>2
    <3> QED BY <3>1, <3>2, <3>3
  <2>7. Good(g, m + 1)
    BY <2>5, <2>6
  <2> HIDE DEF g, Good
  <2> QED BY <2>7
<1>3. 0..n \subseteq T
  <2> HIDE DEF T
  <2> QED BY <1>1, <1>2, IntervalInduction
<1>4. PICK f : Good(f, n)
  BY <1>3
<1> DEFINE Rec(g) == g = [i \in 0..n |-> IF i = 0 THEN c ELSE step[<<g[i - 1], i>>]]
           it == CHOOSE g : Rec(g)
<1>5. Rec(f)
  BY <1>4
<1>6. Rec(it)
  <2> HIDE DEF Rec
  <2> QED BY <1>5
<1>7. Iterated(n, c, step) = it
  BY DEF Iterated
<1> HIDE DEF it, Good
<1>8. it[0] = c /\ \A i \in 1..n : it[i] = step[<<it[i - 1], i>>]
  BY <1>6
<1> DEFINE U == {k \in Nat : it[k] \in S}
<1>9. 0 \in U
  BY <1>8
<1>10. ASSUME NEW k \in 0..n - 1, k \in U PROVE k + 1 \in U
  <2>1. k + 1 \in 1..n /\ (k + 1) - 1 = k /\ it[k] \in S
    BY <1>10
  <2>2. it[k + 1] = step[<<it[k], k + 1>>]
    BY <2>1, <1>8
  <2>3. <<it[k], k + 1>> \in S \X (1..n)
    BY <2>1
  <2> QED BY <2>1, <2>2, <2>3
<1>11. 0..n \subseteq U
  <2> HIDE DEF U
  <2> QED BY <1>9, <1>10, IntervalInduction
<1>12. it \in [0..n -> S]
  <2>1. it = [i \in 0..n |-> it[i]]
    BY <1>6
  <2>2. \A i \in 0..n : it[i] \in S
    BY <1>11
  <2> QED BY <2>1, <2>2
<1> QED BY <1>7, <1>8, <1>12

-----------------------------------------------------------------------------
(* Sequences *)

LEMMA OneElement ==
  ASSUME NEW S, NEW x \in S
  PROVE  <<x>> \in Seq(S) /\ Len(<<x>>) = 1 /\ <<x>>[1] = x
OBVIOUS

(* The elements of a sequence with one more element. *)
LEMMA ToSetAppend ==
  ASSUME NEW S, NEW s \in Seq(S), NEW x \in S
  PROVE  ToSet(Append(s, x)) = ToSet(s) \cup {x}
<1>1. DOMAIN s = 1..Len(s) /\ DOMAIN Append(s, x) = 1..(Len(s) + 1) /\ Len(s) \in Nat
  OBVIOUS
<1>2. \A i \in 1..Len(s) : Append(s, x)[i] = s[i]
  OBVIOUS
<1>3. Append(s, x)[Len(s) + 1] = x
  OBVIOUS
<1> QED BY <1>1, <1>2, <1>3 DEF ToSet

(* The elements of two sequences one after the other. *)
LEMMA ToSetConcat ==
  ASSUME NEW S, NEW s \in Seq(S), NEW t \in Seq(S)
  PROVE  ToSet(s \o t) = ToSet(s) \cup ToSet(t)
<1>1. /\ DOMAIN s = 1..Len(s) /\ DOMAIN t = 1..Len(t) /\ Len(s) \in Nat /\ Len(t) \in Nat
      /\ DOMAIN (s \o t) = 1..(Len(s) + Len(t))
  OBVIOUS
<1>2. \A i \in 1..Len(s) : (s \o t)[i] = s[i] /\ i \in 1..(Len(s) + Len(t))
  OBVIOUS
<1>3. \A j \in 1..Len(t) : (s \o t)[Len(s) + j] = t[j] /\ Len(s) + j \in 1..(Len(s) + Len(t))
  OBVIOUS
<1>4. ASSUME NEW i \in 1..(Len(s) + Len(t))
      PROVE  (s \o t)[i] \in {s[k] : k \in 1..Len(s)} \cup {t[k] : k \in 1..Len(t)}
  <2>1. CASE i <= Len(s)
    <3>1. i \in 1..Len(s)
      BY <2>1, <1>1
    <3> QED BY <3>1, <1>2
  <2>2. CASE ~ (i <= Len(s))
    <3>1. i - Len(s) \in 1..Len(t) /\ i = Len(s) + (i - Len(s))
      BY <2>2, <1>1
    <3> QED BY <3>1, <1>3
  <2> QED BY <2>1, <2>2
<1>5. /\ \A k \in 1..Len(s) : s[k] \in {(s \o t)[i] : i \in 1..(Len(s) + Len(t))}
      /\ \A k \in 1..Len(t) : t[k] \in {(s \o t)[i] : i \in 1..(Len(s) + Len(t))}
  BY <1>2, <1>3
<1> QED BY <1>1, <1>4, <1>5 DEF ToSet

(* A sequence has finitely many elements. *)
LEMMA ToSetFinite ==
  ASSUME NEW S, NEW s \in Seq(S)
  PROVE  IsFiniteSet(ToSet(s)) /\ ToSet(s) \subseteq S
<1>1. DOMAIN s = 1..Len(s) /\ Len(s) \in Nat /\ s \in [1..Len(s) -> S]
  OBVIOUS
<1>2. IsFiniteSet(1..Len(s))
  BY <1>1, FS_Interval
<1>3. s \in Surjection(1..Len(s), ToSet(s))
  BY <1>1 DEF Surjection, ToSet
<1>4. IsFiniteSet(ToSet(s))
  BY <1>2, <1>3, FS_Surjection
<1> QED BY <1>1, <1>4 DEF ToSet

\* The part of s where all of t is.
LEMMA CutOut ==
  ASSUME NEW S, NEW s, NEW t \in Seq(S), NEW at \in Nat, \A j \in 1..Len(t) : s[at + j] = t[j]
  PROVE  SubSeq(s, at + 1, at + Len(t)) = t
<1> DEFINE u == SubSeq(s, at + 1, at + Len(t))
<1>1. Len(t) \in Nat /\ \A j \in 1..Len(t) : t[j] \in S
  OBVIOUS
<1>2. ASSUME NEW i \in (at + 1)..(at + Len(t)) PROVE s[i] \in S
  <2>1. i - at \in 1..Len(t) /\ at + (i - at) = i
    BY <1>1
  <2>2. s[at + (i - at)] = t[i - at]
    BY <2>1
  <2> QED BY <2>1, <2>2, <1>1
<1>3. at + 1 \in Int /\ at + Len(t) \in Int
  BY <1>1
<1>4. /\ u \in Seq(S)
      /\ Len(u) = IF at + 1 <= at + Len(t) THEN at + Len(t) - (at + 1) + 1 ELSE 0
      /\ \A i \in 1..at + Len(t) - (at + 1) + 1 : u[i] = s[at + 1 + i - 1]
  BY <1>2, <1>3, SubSeqProperties
<1> HIDE DEF u
<1>5. Len(u) = Len(t)
  BY <1>1, <1>4
<1>6. ASSUME NEW i \in 1..Len(t) PROVE u[i] = t[i]
  <2>1. i \in 1..at + Len(t) - (at + 1) + 1 /\ at + 1 + i - 1 = at + i
    BY <1>1
  <2>2. u[i] = s[at + 1 + i - 1]
    BY <2>1, <1>4
  <2> QED BY <2>1, <2>2
<1>7. u = t
  BY <1>4, <1>5, <1>6, SeqEqual
<1> QED BY <1>7 DEF u

-----------------------------------------------------------------------------
(* Picked *)

PickedUpTo(s, P) ==
  CHOOSE f : f = [k \in 0..Len(s) |->
                    IF k = 0 THEN << >>
                    ELSE IF k \in P THEN Append(f[k - 1], s[k]) ELSE f[k - 1]]

(* Picking is a recursion on the length of the sequence. *)
LEMMA PickedDefined ==
  ASSUME NEW S, NEW s \in Seq(S), NEW P
  PROVE  /\ Picked(s, P) = PickedUpTo(s, P)[Len(s)]
         /\ PickedUpTo(s, P) \in [0..Len(s) -> Seq(S)]
         /\ PickedUpTo(s, P)[0] = << >>
         /\ \A k \in 1..Len(s) :
              PickedUpTo(s, P)[k] = IF k \in P THEN Append(PickedUpTo(s, P)[k - 1], s[k])
                                    ELSE PickedUpTo(s, P)[k - 1]
<1> DEFINE n == Len(s)
           step == [p \in Seq(S) \X (1..n) |-> IF p[2] \in P THEN Append(p[1], s[p[2]]) ELSE p[1]]
           Good(f) == f = [k \in 0..n |-> IF k = 0 THEN << >>
                             ELSE IF k \in P THEN Append(f[k - 1], s[k]) ELSE f[k - 1]]
           it == Iterated(n, << >>, step)
           upTo == CHOOSE f : Good(f)
<1>1. n \in Nat /\ << >> \in Seq(S) /\ \A k \in 1..n : s[k] \in S
  OBVIOUS
<1>2. step \in [Seq(S) \X (1..n) -> Seq(S)]
  BY <1>1
<1>3. /\ it \in [0..n -> Seq(S)] /\ it[0] = << >>
      /\ \A k \in 1..n : it[k] = step[<<it[k - 1], k>>]
  <2> HIDE DEF step, n
  <2>1. n \in Nat
    BY <1>1
  <2> DEFINE c == << >>
             V == Seq(S)
  <2>2. c \in V
    BY <1>1
  <2>3. step \in Steps(n, V)
    BY <1>2 DEF Steps
  <2> HIDE DEF c, V
  <2>4. /\ Iterated(n, c, step) \in [0..n -> V]
        /\ Iterated(n, c, step)[0] = c
        /\ \A i \in 1..n : Iterated(n, c, step)[i] = step[<<Iterated(n, c, step)[i - 1], i>>]
    BY <2>1, <2>2, <2>3, Recursion
  <2> QED BY <2>4 DEF c, V
<1> HIDE DEF it
<1>4. ASSUME NEW k \in 1..n
      PROVE  it[k] = IF k \in P THEN Append(it[k - 1], s[k]) ELSE it[k - 1]
  <2>1. it[k - 1] \in Seq(S)
    BY <1>1, <1>3
  <2>2. <<it[k - 1], k>> \in Seq(S) \X (1..n)
    BY <2>1
  <2> QED BY <2>2, <1>3
<1> HIDE DEF step, n
<1>5. Good(it)
  <2>1. ASSUME NEW k \in 0..n
        PROVE  it[k] = IF k = 0 THEN << >>
                       ELSE IF k \in P THEN Append(it[k - 1], s[k]) ELSE it[k - 1]
    <3>1. CASE k = 0
      BY <3>1, <1>3
    <3>2. CASE k \in 1..n
      BY <3>2, <1>4
    <3> QED BY <3>1, <3>2, <1>1
  <2> QED BY <2>1, <1>3
<1>6. Good(upTo)
  <2> HIDE DEF Good
  <2> QED BY <1>5
<1>7. PickedUpTo(s, P) = upTo
  BY DEF PickedUpTo, n
<1>8. Picked(s, P) = upTo[Len(s)]
  BY DEF Picked, n
<1> HIDE DEF upTo
<1>9. \A k \in 0..n : upTo[k] = it[k]
  <2> DEFINE T == {k \in Nat : upTo[k] = it[k]}
  <2>1. 0 \in T
    BY <1>3, <1>6, <1>1
  <2>2. ASSUME NEW k \in 0..n - 1, k \in T PROVE k + 1 \in T
    <3>1. k + 1 \in 1..n /\ (k + 1) - 1 = k /\ k + 1 \in Nat /\ upTo[k] = it[k]
      BY <2>2, <1>1
    <3>2. upTo[k + 1] = IF k + 1 \in P THEN Append(upTo[k], s[k + 1]) ELSE upTo[k]
      <4>1. k + 1 \in 0..n /\ k + 1 # 0
        BY <3>1, <1>1
      <4>2. \A j \in 0..n : upTo[j] = IF j = 0 THEN << >>
                              ELSE IF j \in P THEN Append(upTo[j - 1], s[j]) ELSE upTo[j - 1]
        BY <1>6
      <4> QED BY <4>1, <4>2, <3>1
    <3> QED BY <3>1, <3>2, <1>4
  <2>3. 0..n \subseteq T
    <3> HIDE DEF T
    <3> QED BY <2>1, <2>2, <1>1, IntervalInduction
  <2> QED BY <2>3
<1>10. upTo = it
  BY <1>9, <1>6, <1>3
<1> QED BY <1>1, <1>3, <1>4, <1>7, <1>8, <1>10 DEF n

(* Whatever follows the recursion of picking ends in the sequence picked. *)
LEMMA PickedUnique ==
  ASSUME NEW S, NEW s \in Seq(S), NEW P, NEW f, f[0] = << >>,
         \A k \in 1..Len(s) : f[k] = IF k \in P THEN Append(f[k - 1], s[k]) ELSE f[k - 1]
  PROVE  Picked(s, P) = f[Len(s)]
<1> DEFINE g == PickedUpTo(s, P)
           T == {k \in Nat : f[k] = g[k]}
<1>1. /\ Picked(s, P) = g[Len(s)] /\ g[0] = << >>
      /\ \A k \in 1..Len(s) : g[k] = IF k \in P THEN Append(g[k - 1], s[k]) ELSE g[k - 1]
  BY PickedDefined
<1> HIDE DEF g
<1>2. 0 \in T
  BY <1>1
<1>3. ASSUME NEW k \in 0..Len(s) - 1, k \in T PROVE k + 1 \in T
  <2>1. k + 1 \in 1..Len(s) /\ (k + 1) - 1 = k /\ k + 1 \in Nat
    OBVIOUS
  <2> QED BY <2>1, <1>1, <1>3
<1>4. 0..Len(s) \subseteq T
  <2> HIDE DEF T
  <2>1. Len(s) \in Nat
    OBVIOUS
  <2> QED BY <2>1, <1>2, <1>3, IntervalInduction
<1>5. Len(s) \in 0..Len(s)
  OBVIOUS
<1> QED BY <1>1, <1>4, <1>5

(* Nothing is picked from the empty sequence. *)
LEMMA PickedEmpty ==
  ASSUME NEW S, NEW s \in Seq(S), NEW P
  PROVE  Len(s) = 0 => Picked(s, P) = << >>
<1> DEFINE g == PickedUpTo(s, P)
<1>1. /\ Picked(s, P) = g[Len(s)] /\ g[0] = << >>
      /\ \A k \in 1..Len(s) : g[k] = IF k \in P THEN Append(g[k - 1], s[k]) ELSE g[k - 1]
  BY PickedDefined
<1> HIDE DEF g
<1>2. Picked(s, P) = g[Len(s)] /\ g[0] = << >>
  BY <1>1
<1> QED BY <1>2

(* The last element is picked or left when its place is. *)
LEMMA PickedAppend ==
  ASSUME NEW S, NEW s \in Seq(S), NEW x \in S, NEW P, NEW Q,
         P \cap (1..Len(s)) = Q \cap (1..Len(s))
  PROVE  Picked(Append(s, x), P) = IF Len(s) + 1 \in P THEN Append(Picked(s, Q), x) ELSE Picked(s, Q)
<1> DEFINE t == Append(s, x)
           n == Len(s)
           g == PickedUpTo(t, P)
<1>1. t \in Seq(S) /\ Len(t) = n + 1 /\ n \in Nat /\ t[n + 1] = x
  OBVIOUS
<1>2. \A k \in 1..n : t[k] = s[k]
  OBVIOUS
<1> HIDE DEF t
<1>3. /\ Picked(t, P) = g[Len(t)] /\ g[0] = << >>
      /\ \A k \in 1..Len(t) : g[k] = IF k \in P THEN Append(g[k - 1], t[k]) ELSE g[k - 1]
  <2>1. t \in Seq(S)
    BY <1>1
  <2> QED BY <2>1, PickedDefined
<1> HIDE DEF g
<1>4. \A k \in 1..n : g[k] = IF k \in Q THEN Append(g[k - 1], s[k]) ELSE g[k - 1]
  BY <1>1, <1>2, <1>3
<1>5. Picked(s, Q) = g[n]
  BY <1>3, <1>4, PickedUnique
<1>6. n + 1 \in 1..Len(t) /\ (n + 1) - 1 = n
  BY <1>1
<1>7. g[n + 1] = IF n + 1 \in P THEN Append(g[n], x) ELSE g[n]
  BY <1>1, <1>3, <1>6
<1> QED BY <1>1, <1>3, <1>5, <1>7 DEF t

\* An invariant of the elements that are picked, shown as they are appended.
LEMMA PickedElements ==
  ASSUME NEW S, NEW s \in Seq(S), NEW P
  PROVE  /\ Picked(s, P) \in Seq(S)
         /\ ToSet(Picked(s, P)) = {s[k] : k \in P \cap (1..Len(s))}
<1> DEFINE g == PickedUpTo(s, P)
           n == Len(s)
           T == {k \in Nat : k <= n => ToSet(g[k]) = {s[i] : i \in P \cap (1..k)}}
<1>1. n \in Nat /\ \A k \in 1..n : s[k] \in S
  OBVIOUS
<1>2. /\ Picked(s, P) = g[n] /\ g[0] = << >> /\ \A k \in 0..n : g[k] \in Seq(S)
      /\ \A k \in 1..n : g[k] = IF k \in P THEN Append(g[k - 1], s[k]) ELSE g[k - 1]
  BY PickedDefined
<1> HIDE DEF g, n
<1>3. 0 \in T
  <2>1. ToSet(<< >>) = {}
    BY DEF ToSet
  <2>2. {s[i] : i \in P \cap (1..0)} = {}
    OBVIOUS
  <2> QED BY <2>1, <2>2, <1>2
<1>4. ASSUME NEW k \in Nat, k \in T PROVE k + 1 \in T
  <2>1. SUFFICES ASSUME k + 1 <= n
                 PROVE ToSet(g[k + 1]) = {s[i] : i \in P \cap (1..(k + 1))}
    OBVIOUS
  <2>2. k + 1 \in 1..n /\ (k + 1) - 1 = k /\ k \in 0..n /\ s[k + 1] \in S /\ g[k] \in Seq(S)
    BY <2>1, <1>1, <1>2
  <2>3. ToSet(g[k]) = {s[i] : i \in P \cap (1..k)}
    BY <1>4, <2>2
  <2>4. CASE k + 1 \in P
    <3>1. ToSet(g[k + 1]) = ToSet(g[k]) \cup {s[k + 1]}
      BY <2>2, <2>4, <1>2, ToSetAppend
    <3>2. P \cap (1..(k + 1)) = (P \cap (1..k)) \cup {k + 1}
      BY <2>4
    <3> QED BY <3>1, <3>2, <2>3
  <2>5. CASE k + 1 \notin P
    <3>1. P \cap (1..(k + 1)) = P \cap (1..k)
      BY <2>5
    <3> QED BY <3>1, <2>2, <2>3, <2>5, <1>2
  <2> QED BY <2>4, <2>5
<1>5. Nat \subseteq T
  <2> HIDE DEF T
  <2> QED BY <1>3, <1>4, Induction
<1>6. ToSet(g[n]) = {s[i] : i \in P \cap (1..n)}
  <2>1. n \in T
    BY <1>1, <1>5
  <2> QED BY <2>1, <1>1
<1>7. g[n] \in Seq(S)
  BY <1>1, <1>2
<1> QED BY <1>2, <1>6, <1>7 DEF n

\* As many elements as there are positions.
LEMMA PickedLength ==
  ASSUME NEW S, NEW s \in Seq(S), NEW P
  PROVE  Len(Picked(s, P)) = Cardinality(P \cap (1..Len(s)))
<1> DEFINE g == PickedUpTo(s, P)
           n == Len(s)
           At(k) == P \cap (1..k)
           T == {k \in Nat : k <= n => Len(g[k]) = Cardinality(At(k))}
<1>1. n \in Nat /\ \A k \in 1..n : s[k] \in S
  OBVIOUS
<1>2. /\ Picked(s, P) = g[n] /\ g[0] = << >> /\ \A k \in 0..n : g[k] \in Seq(S)
      /\ \A k \in 1..n : g[k] = IF k \in P THEN Append(g[k - 1], s[k]) ELSE g[k - 1]
  BY PickedDefined
<1> HIDE DEF g, n
<1>3. 0 \in T
  <2>1. At(0) = {}
    OBVIOUS
  <2> HIDE DEF At
  <2> QED BY <2>1, <1>2, FS_EmptySet
<1>4. ASSUME NEW k \in Nat, k \in T PROVE k + 1 \in T
  <2>1. SUFFICES ASSUME k + 1 <= n PROVE Len(g[k + 1]) = Cardinality(At(k + 1))
    OBVIOUS
  <2>2. k + 1 \in 1..n /\ (k + 1) - 1 = k /\ k \in 0..n /\ s[k + 1] \in S /\ g[k] \in Seq(S)
    BY <2>1, <1>1, <1>2
  <2>3. Len(g[k]) = Cardinality(At(k))
    BY <1>4, <2>2
  <2>4. CASE k + 1 \in P
    <3>1. Len(g[k + 1]) = Len(g[k]) + 1
      <4>1. g[k + 1] = Append(g[k], s[k + 1])
        BY <2>2, <2>4, <1>2
      <4>2. \A f \in Seq(S) : \A x \in S : Len(Append(f, x)) = Len(f) + 1
        OBVIOUS
      <4> QED BY <4>1, <4>2, <2>2
    <3>2. At(k + 1) = At(k) \cup {k + 1} /\ k + 1 \notin At(k)
      BY <2>4
    <3>3. IsFiniteSet(1..k) /\ At(k) \subseteq 1..k
      BY FS_Interval
    <3> HIDE DEF At
    <3>4. IsFiniteSet(At(k))
      BY <3>3, FS_Subset
    <3>5. Cardinality(At(k) \cup {k + 1}) = Cardinality(At(k)) + 1
      BY <3>2, <3>4, FS_AddElement
    <3> QED BY <3>1, <3>2, <3>5, <2>3
  <2>5. CASE k + 1 \notin P
    <3>1. At(k + 1) = At(k)
      BY <2>5
    <3> QED BY <3>1, <2>2, <2>3, <2>5, <1>2
  <2> QED BY <2>4, <2>5
<1>5. Nat \subseteq T
  <2> HIDE DEF T
  <2> QED BY <1>3, <1>4, Induction
<1>6. n \in T
  BY <1>1, <1>5
<1> QED BY <1>1, <1>2, <1>6 DEF n

-----------------------------------------------------------------------------
(* InOrder *)

StrictOrder(S, less) ==
  /\ \A x \in S : <<x, x>> \notin less
  /\ \A x, y \in S : x # y => <<x, y>> \in less \/ <<y, x>> \in less
  /\ \A x, y, z \in S : <<x, y>> \in less /\ <<y, z>> \in less => <<x, z>> \in less

\* A finite set in order: each element once, the smaller ones first.
LEMMA InOrderSorts ==
  ASSUME NEW S, NEW less, IsFiniteSet(S), StrictOrder(S, less)
  PROVE  /\ InOrder(S, less) \in Seq(S)
         /\ Len(InOrder(S, less)) = Cardinality(S)
         /\ ToSet(InOrder(S, less)) = S
         /\ \A i, j \in 1..Cardinality(S) :
              i < j => <<InOrder(S, less)[i], InOrder(S, less)[j]>> \in less
<1> DEFINE n == Cardinality(S)
           Below(x) == {y \in S : <<y, x>> \in less}
           rank == [x \in S |-> Cardinality(Below(x))]
           t == [k \in 1..n |-> CHOOSE x \in S : rank[x] = k - 1]
<1>1. n \in Nat
  BY FS_CardinalityType
<1>2. ASSUME NEW x \in S PROVE IsFiniteSet(Below(x)) /\ rank[x] \in 0..n - 1
  <2>1. Below(x) \subseteq S \ {x}
    BY DEF StrictOrder
  <2>2. IsFiniteSet(S \ {x}) /\ Cardinality(S \ {x}) = n - 1
    BY FS_RemoveElement
  <2>3. IsFiniteSet(Below(x)) /\ Cardinality(Below(x)) <= n - 1
    <3> HIDE DEF Below, n
    <3> QED BY <2>1, <2>2, FS_Subset
  <2>4. Cardinality(Below(x)) \in Nat
    BY <2>3, FS_CardinalityType
  <2> QED BY <2>3, <2>4, <1>1
<1>3. ASSUME NEW x \in S, NEW y \in S, <<x, y>> \in less PROVE rank[x] < rank[y]
  <2>1. Below(x) \subseteq Below(y) /\ x \in Below(y) /\ x \notin Below(x)
    BY <1>3 DEF StrictOrder
  <2>2. IsFiniteSet(Below(x)) /\ IsFiniteSet(Below(y))
    BY <1>2
  <2>3. /\ Cardinality(Below(x)) <= Cardinality(Below(y))
        /\ Cardinality(Below(x)) = Cardinality(Below(y)) => Below(x) = Below(y)
    <3> HIDE DEF Below
    <3> QED BY <2>1, <2>2, FS_Subset
  <2>4. Cardinality(Below(x)) \in Nat /\ Cardinality(Below(y)) \in Nat
    BY <2>2, FS_CardinalityType
  <2>5. Cardinality(Below(x)) # Cardinality(Below(y))
    <3> HIDE DEF Below
    <3> QED BY <2>1, <2>3
  <2> QED BY <2>3, <2>4, <2>5
<1>4. rank \in Injection(S, 0..n - 1)
  <2>1. rank \in [S -> 0..n - 1]
    BY <1>2
  <2>2. ASSUME NEW x \in S, NEW y \in S, rank[x] = rank[y] PROVE x = y
    <3>1. rank[x] \in Int /\ rank[y] \in Int
      BY <2>1, <1>1
    <3>2. ~ (rank[x] < rank[y]) /\ ~ (rank[y] < rank[x])
      BY <3>1, <2>2
    <3>3. <<x, y>> \notin less /\ <<y, x>> \notin less
      BY <3>2, <1>3
    <3> QED BY <3>3 DEF StrictOrder
  <2> HIDE DEF rank
  <2> QED BY <2>1, <2>2 DEF Injection, IsInjective
<1>5. rank \in Surjection(S, 0..n - 1)
  <2>1. IsFiniteSet(0..n - 1) /\ Cardinality(0..n - 1) = n
    <3> DEFINE m == n - 1
    <3>1. 0 \in Int /\ m \in Int /\ (IF 0 > m THEN 0 ELSE m - 0 + 1) = n
      BY <1>1
    <3> HIDE DEF m
    <3>2. IsFiniteSet(0..m) /\ Cardinality(0..m) = IF 0 > m THEN 0 ELSE m - 0 + 1
      BY <3>1, FS_Interval
    <3> QED BY <3>1, <3>2 DEF m
  <2> HIDE DEF rank
  <2> QED BY <2>1, <1>4, FS_Injection DEF n
<1>6. ASSUME NEW k \in 1..n PROVE t[k] \in S /\ rank[t[k]] = k - 1
  <2>1. k - 1 \in 0..n - 1
    BY <1>1
  <2>2. PICK x \in S : rank[x] = k - 1
    <3> HIDE DEF rank
    <3> QED BY <2>1, <1>5 DEF Surjection
  <2>3. t[k] = CHOOSE y \in S : rank[y] = k - 1
    <3> HIDE DEF rank
    <3> QED OBVIOUS
  <2> HIDE DEF t, rank
  <2> QED BY <2>2, <2>3
<1>7. InOrder(S, less) = t
  BY DEF InOrder
<1>8. t \in Seq(S) /\ Len(t) = n /\ DOMAIN t = 1..n
  <2>1. t \in [1..n -> S]
    <3>1. \A k \in 1..n : t[k] \in S
      BY <1>6
    <3>2. t = [k \in 1..n |-> t[k]]
      <4> HIDE DEF rank
      <4> QED OBVIOUS
    <3> HIDE DEF t
    <3> QED BY <3>1, <3>2
  <2> HIDE DEF t
  <2> QED BY <2>1, <1>1
<1>9. ToSet(t) = S
  <2>1. ASSUME NEW x \in S PROVE x \in ToSet(t)
    <3>1. rank[x] \in 0..n - 1
      BY <1>2
    <3> DEFINE k == rank[x] + 1
    <3>2. k \in 1..n /\ k - 1 = rank[x]
      BY <3>1, <1>1
    <3>3. t[k] \in S /\ rank[t[k]] = rank[x]
      <4> HIDE DEF k
      <4> QED BY <3>2, <1>6
    <3>4. t[k] = x
      <4> HIDE DEF t, k, rank
      <4> QED BY <3>3, <1>4 DEF Injection, IsInjective
    <3> HIDE DEF t, k
    <3> QED BY <3>2, <3>4, <1>8 DEF ToSet
  <2>2. ToSet(t) \subseteq S
    <3> HIDE DEF t
    <3> QED BY <1>6, <1>8 DEF ToSet
  <2> QED BY <2>1, <2>2
<1>10. ASSUME NEW i \in 1..n, NEW j \in 1..n, i < j PROVE <<t[i], t[j]>> \in less
  <2>1. /\ t[i] \in S /\ t[j] \in S
        /\ rank[t[i]] = i - 1 /\ rank[t[j]] = j - 1
    BY <1>6
  <2> HIDE DEF t, rank
  <2>2. t[i] # t[j] /\ ~ (rank[t[j]] < rank[t[i]])
    BY <2>1, <1>10, <1>1
  <2>3. <<t[j], t[i]>> \notin less
    BY <2>1, <2>2, <1>3
  <2> QED BY <2>1, <2>2, <2>3 DEF StrictOrder
<1> HIDE DEF t, n
<1> QED BY <1>7, <1>8, <1>9, <1>10 DEF n

-----------------------------------------------------------------------------
(* FlattenSeq *)

Flattened(seqs) ==
  CHOOSE f : f = [i \in 1..Len(seqs) |-> IF i = 1 THEN seqs[i] ELSE f[i - 1] \o seqs[i]]

\* The first i of the sequences in one.
FlatUpTo(seqs) == [i \in 0..Len(seqs) |-> IF i = 0 THEN << >> ELSE Flattened(seqs)[i]]

(* Flattening is a recursion on the number of sequences. *)
LEMMA FlattenDefined ==
  ASSUME NEW S, NEW seqs \in Seq(Seq(S))
  PROVE  /\ FlattenSeq(seqs) = FlatUpTo(seqs)[Len(seqs)]
         /\ FlatUpTo(seqs) \in [0..Len(seqs) -> Seq(S)]
         /\ FlatUpTo(seqs)[0] = << >>
         /\ \A i \in 1..Len(seqs) : FlatUpTo(seqs)[i] = FlatUpTo(seqs)[i - 1] \o seqs[i]
<1> DEFINE n == Len(seqs)
           W == Seq(S)
           c == << >>
           step == [p \in W \X (1..n) |-> p[1] \o seqs[p[2]]]
           Good(f) == f = [i \in 1..n |-> IF i = 1 THEN seqs[i] ELSE f[i - 1] \o seqs[i]]
           it == Iterated(n, c, step)
           flat == CHOOSE f : Good(f)
           up == FlatUpTo(seqs)
<1>1. n \in Nat /\ c \in W /\ \A k \in 1..n : seqs[k] \in W
  OBVIOUS
<1>2. \A v, w \in W : v \o w \in W
  OBVIOUS
<1>3. \A w \in W : c \o w = w
  OBVIOUS
<1> HIDE DEF W, c, n
<1>4. step \in Steps(n, W)
  BY <1>1, <1>2 DEF Steps
<1>5. /\ it \in [0..n -> W] /\ it[0] = c
      /\ \A k \in 1..n : it[k] = step[<<it[k - 1], k>>]
  <2> HIDE DEF step
  <2> QED BY <1>1, <1>4, Recursion
<1> HIDE DEF it
<1>6. ASSUME NEW k \in 1..n PROVE it[k] = it[k - 1] \o seqs[k] /\ it[k - 1] \in W
  <2>1. it[k - 1] \in W
    BY <1>1, <1>5
  <2>2. <<it[k - 1], k>> \in W \X (1..n)
    BY <2>1
  <2> QED BY <2>1, <2>2, <1>5
<1> HIDE DEF step
<1> DEFINE g == [i \in 1..n |-> it[i]]
<1>7. Good(g)
  <2>1. ASSUME NEW i \in 1..n PROVE g[i] = IF i = 1 THEN seqs[i] ELSE g[i - 1] \o seqs[i]
    <3>1. CASE i = 1
      <4>1. i - 1 = 0
        BY <3>1
      <4>2. it[i] = it[i - 1] \o seqs[i] /\ seqs[i] \in W
        BY <1>6, <1>1
      <4>3. it[i] = seqs[i]
        BY <4>1, <4>2, <1>5, <1>3
      <4> QED BY <4>3, <3>1
    <3>2. CASE i # 1
      <4>1. i - 1 \in 1..n
        BY <3>2, <1>1
      <4> QED BY <4>1, <3>2, <1>6
    <3> QED BY <3>1, <3>2
  <2> QED BY <2>1
<1>8. Good(flat)
  <2> HIDE DEF Good
  <2> QED BY <1>7
<1>9. Flattened(seqs) = flat
  BY DEF Flattened, n
<1> HIDE DEF flat
<1>10. \A k \in 0..n : up[k] = it[k]
  <2>1. /\ \A i \in 0..n : up[i] = IF i = 0 THEN << >> ELSE flat[i]
        /\ \A i \in 1..n : flat[i] = IF i = 1 THEN seqs[i] ELSE flat[i - 1] \o seqs[i]
    BY <1>8, <1>9 DEF FlatUpTo, n
  <2> HIDE DEF up
  <2> DEFINE T == {k \in Nat : up[k] = it[k]}
  <2>2. 0 \in T
    BY <2>1, <1>1, <1>5 DEF c
  <2>3. ASSUME NEW k \in 0..n - 1, k \in T PROVE k + 1 \in T
    <3>1. k + 1 \in 1..n /\ (k + 1) - 1 = k /\ k + 1 \in Nat /\ up[k] = it[k]
      BY <2>3, <1>1
    <3>2. it[k + 1] = it[k] \o seqs[k + 1]
      BY <3>1, <1>6
    <3>3. up[k + 1] = flat[k + 1]
      <4>1. k + 1 \in 0..n /\ k + 1 # 0
        BY <2>3, <1>1
      <4> QED BY <4>1, <2>1
    <3>6. flat[k + 1] = IF k + 1 = 1 THEN seqs[k + 1] ELSE flat[(k + 1) - 1] \o seqs[k + 1]
      BY <3>1, <2>1
    <3>4. CASE k = 0
      <4>1. k + 1 = 1 /\ seqs[k + 1] \in W
        BY <3>4, <3>1, <1>1
      <4>2. it[k + 1] = seqs[k + 1]
        BY <4>1, <3>2, <3>4, <1>5, <1>3
      <4> QED BY <4>1, <4>2, <3>1, <3>3, <3>6
    <3>5. CASE k # 0
      <4>1. k + 1 # 1 /\ k \in 0..n
        BY <3>5, <2>3, <1>1
      <4>2. up[k] = flat[k]
        BY <4>1, <3>5, <2>1
      <4> QED BY <4>1, <4>2, <3>1, <3>2, <3>3, <3>6
    <3> QED BY <3>4, <3>5
  <2>4. 0..n \subseteq T
    <3> HIDE DEF T
    <3> QED BY <2>2, <2>3, <1>1, IntervalInduction
  <2> QED BY <2>4
<1>11. up = it
  <2>1. up = [i \in 0..n |-> up[i]]
    BY DEF FlatUpTo, n
  <2>2. it = [i \in 0..n |-> it[i]]
    BY <1>5
  <2> HIDE DEF up
  <2> QED BY <2>1, <2>2, <1>10
<1>12. FlattenSeq(seqs) = up[n]
  <2>1. CASE n = 0
    <3>1. seqs = << >>
      BY <2>1 DEF n
    <3>2. FlattenSeq(seqs) = seqs
      BY <2>1 DEF FlattenSeq, n
    <3> QED BY <3>1, <3>2, <2>1, <1>11, <1>5 DEF c
  <2>2. CASE n # 0
    <3>1. FlattenSeq(seqs) = Flattened(seqs)[n]
      BY <2>2 DEF FlattenSeq, Flattened, n
    <3> QED BY <3>1, <2>2, <1>1 DEF FlatUpTo, n
  <2> QED BY <2>1, <2>2
<1> HIDE DEF up
<1>13. /\ FlattenSeq(seqs) = up[n] /\ up \in [0..n -> W] /\ up[0] = << >>
       /\ \A i \in 1..n : up[i] = up[i - 1] \o seqs[i]
  BY <1>5, <1>6, <1>11, <1>12 DEF c
<1> QED BY <1>13 DEF n, up, W

\* Where the elements of each sequence are in the whole, and that nothing else is.
LEMMA FlattenLayout ==
  ASSUME NEW S, NEW seqs \in Seq(Seq(S))
  PROVE  /\ FlattenSeq(seqs) \in Seq(S)
         /\ \A i \in 1..Len(seqs) : \A j \in 1..Len(seqs[i]) :
              /\ Len(FlatUpTo(seqs)[i - 1]) + j \in 1..Len(FlattenSeq(seqs))
              /\ FlattenSeq(seqs)[Len(FlatUpTo(seqs)[i - 1]) + j] = seqs[i][j]
         /\ \A p \in 1..Len(FlattenSeq(seqs)) : \E i \in 1..Len(seqs) : \E j \in 1..Len(seqs[i]) :
              p = Len(FlatUpTo(seqs)[i - 1]) + j
<1> DEFINE n == Len(seqs)
           W == Seq(S)
           up == FlatUpTo(seqs)
           at(i) == Len(up[i - 1])
           Laid(k) ==
             /\ \A i \in 1..k : \A j \in 1..Len(seqs[i]) :
                  at(i) + j \in 1..Len(up[k]) /\ up[k][at(i) + j] = seqs[i][j]
             /\ \A p \in 1..Len(up[k]) : \E i \in 1..k : \E j \in 1..Len(seqs[i]) : p = at(i) + j
<1>1. n \in Nat /\ \A k \in 1..n : seqs[k] \in W
  OBVIOUS
<1>2. /\ FlattenSeq(seqs) = up[n] /\ up \in [0..n -> W] /\ up[0] = << >>
      /\ \A i \in 1..n : up[i] = up[i - 1] \o seqs[i]
  BY FlattenDefined
<1>3. ASSUME NEW v \in W, NEW w \in W
      PROVE  /\ Len(v) \in Nat /\ Len(w) \in Nat /\ Len(v \o w) = Len(v) + Len(w)
             /\ \A p \in 1..Len(v) : (v \o w)[p] = v[p]
             /\ \A j \in 1..Len(w) : (v \o w)[Len(v) + j] = w[j]
  OBVIOUS
<1>4. Len(up[0]) = 0
  BY <1>2
<1> HIDE DEF up, n, W
<1> DEFINE T == {k \in Nat : Laid(k)}
<1>5. 0 \in T
  BY <1>4
<1>6. ASSUME NEW k \in 0..n - 1, k \in T PROVE k + 1 \in T
  <2>1. k + 1 \in 1..n /\ k \in 0..n /\ k \in Nat /\ k + 1 \in Nat
    BY <1>1
  <2> DEFINE v == up[k]
             w == seqs[k + 1]
  <2>2. v \in W /\ w \in W /\ up[k + 1] = v \o w
    <3>1. up[k + 1] = up[(k + 1) - 1] \o seqs[k + 1]
      BY <2>1, <1>2
    <3>2. (k + 1) - 1 = k
      BY <2>1
    <3> QED BY <2>1, <3>1, <3>2, <1>1, <1>2
  <2>3. at(k + 1) = Len(v)
    <3>1. (k + 1) - 1 = k
      BY <2>1
    <3> QED BY <3>1
  <2> DEFINE u == up[k + 1]
  <2>4. /\ Len(v) \in Nat /\ Len(w) \in Nat /\ Len(u) = Len(v) + Len(w)
        /\ \A p \in 1..Len(v) : u[p] = v[p]
        /\ \A j \in 1..Len(w) : u[Len(v) + j] = w[j]
    <3> HIDE DEF v, w
    <3> QED BY <2>2, <1>3
  <2>5. /\ \A i \in 1..k : \A j \in 1..Len(seqs[i]) :
             at(i) + j \in 1..Len(v) /\ v[at(i) + j] = seqs[i][j]
        /\ \A p \in 1..Len(v) : \E i \in 1..k : \E j \in 1..Len(seqs[i]) : p = at(i) + j
    BY <1>6
  <2> HIDE DEF v, u, at
  <2>6. ASSUME NEW i \in 1..k + 1, NEW j \in 1..Len(seqs[i])
        PROVE  at(i) + j \in 1..Len(u) /\ u[at(i) + j] = seqs[i][j]
    <3>1. CASE i \in 1..k
      <4>1. at(i) + j \in 1..Len(v) /\ v[at(i) + j] = seqs[i][j]
        BY <3>1, <2>5
      <4>2. u[at(i) + j] = v[at(i) + j]
        BY <4>1, <2>4
      <4>3. Len(v) \in Nat /\ Len(w) \in Nat /\ Len(u) = Len(v) + Len(w)
        BY <2>4
      <4>4. at(i) + j \in 1..Len(u)
        BY <4>1, <4>3
      <4> QED BY <4>1, <4>2, <4>4
    <3>2. CASE i = k + 1
      <4>1. at(i) = Len(v) /\ j \in 1..Len(w) /\ seqs[i][j] = w[j]
        BY <3>2, <2>3
      <4>2. u[at(i) + j] = w[j]
        BY <4>1, <2>4
      <4>3. Len(v) \in Nat /\ Len(w) \in Nat /\ Len(u) = Len(v) + Len(w)
        BY <2>4
      <4>4. at(i) + j \in 1..Len(u)
        BY <4>1, <4>3
      <4> QED BY <4>1, <4>2, <4>4
    <3> QED BY <3>1, <3>2, <2>1
  <2>7. ASSUME NEW p \in 1..Len(u)
        PROVE  \E i \in 1..k + 1 : \E j \in 1..Len(seqs[i]) : p = at(i) + j
    <3>1. CASE p \in 1..Len(v)
      <4>1. PICK i \in 1..k : \E j \in 1..Len(seqs[i]) : p = at(i) + j
        BY <3>1, <2>5
      <4>2. i \in 1..k + 1
        BY <2>1
      <4> QED BY <4>1, <4>2
    <3>2. CASE p \notin 1..Len(v)
      <4> DEFINE j == p - Len(v)
      <4>1. j \in 1..Len(w) /\ p = Len(v) + j
        BY <3>2, <2>4
      <4>2. k + 1 \in 1..k + 1
        BY <2>1
      <4> HIDE DEF j
      <4> QED BY <4>1, <4>2, <2>3
    <3> QED BY <3>1, <3>2
  <2> QED BY <2>1, <2>6, <2>7 DEF u
<1>7. 0..n \subseteq T
  <2> HIDE DEF T
  <2> QED BY <1>1, <1>5, <1>6, IntervalInduction
<1>8. Laid(n) /\ up[n] \in W
  <2>1. n \in 0..n
    BY <1>1
  <2>2. n \in T
    <3> HIDE DEF T
    <3> QED BY <2>1, <1>7
  <2> QED BY <2>1, <2>2, <1>2
<1> HIDE DEF at
<1>9. /\ \A i \in 1..n : \A j \in 1..Len(seqs[i]) :
             at(i) + j \in 1..Len(up[n]) /\ up[n][at(i) + j] = seqs[i][j]
      /\ \A p \in 1..Len(up[n]) : \E i \in 1..n : \E j \in 1..Len(seqs[i]) : p = at(i) + j
  BY <1>8
<1> HIDE DEF Laid, T
<1> QED BY <1>2, <1>8, <1>9 DEF W, n, up, at

\* How sequences are put together.
LEMMA Together ==
  ASSUME NEW S
  PROVE  /\ \A u, v \in Seq(S) : u \o v \in Seq(S)
         /\ \A u, v, w \in Seq(S) : (u \o v) \o w = u \o (v \o w)
         /\ << >> \in Seq(S) /\ \A u \in Seq(S) : u \o << >> = u /\ << >> \o u = u
         /\ \A u \in Seq(S) : \A c \in S : Append(u, c) \in Seq(S) /\ Append(u, c) = u \o <<c>>
         /\ \A u, v \in Seq(S) : \A c \in S : Append(u \o v, c) = u \o Append(v, c)
<1>1. \A u, v \in Seq(S) : u \o v \in Seq(S)
  OBVIOUS
<1>2. \A u, v, w \in Seq(S) : (u \o v) \o w = u \o (v \o w)
  OBVIOUS
<1>3. << >> \in Seq(S) /\ \A u \in Seq(S) : u \o << >> = u /\ << >> \o u = u
  OBVIOUS
<1>4. \A u \in Seq(S) : \A c \in S : Append(u, c) \in Seq(S) /\ Append(u, c) = u \o <<c>>
  OBVIOUS
<1>5. \A c \in S : <<c>> \in Seq(S)
  OBVIOUS
<1>6. ASSUME NEW u \in Seq(S), NEW v \in Seq(S), NEW c \in S
      PROVE  Append(u \o v, c) = u \o Append(v, c)
  <2> DEFINE a == <<c>>
             x == u \o v
  <2>1. a \in Seq(S) /\ x \in Seq(S)
    BY <1>1, <1>5
  <2>2. Append(x, c) = x \o a /\ Append(v, c) = v \o a
    BY <2>1, <1>4
  <2>3. (u \o v) \o a = u \o (v \o a)
    BY <2>1, <1>2
  <2> HIDE DEF a
  <2> QED BY <2>2, <2>3
<1> QED BY <1>1, <1>2, <1>3, <1>4, <1>6

(* A sequence with one element replaced. *)
LEMMA Grown ==
  ASSUME NEW S, NEW u \in Seq(S), NEW k \in 1..Len(u), NEW x \in S
  PROVE  LET w == [u EXCEPT ![k] = x] IN
         /\ w \in Seq(S) /\ Len(w) = Len(u) /\ w[k] = x
         /\ \A i \in 1..Len(u) : i # k => w[i] = u[i]
OBVIOUS

\* Whatever grows by one sequence at each step is FlattenSeq.
LEMMA FlattenUnique ==
  ASSUME NEW S, NEW seqs \in Seq(Seq(S)), NEW f, f[0] = << >>,
         \A k \in 1..Len(seqs) : f[k] = f[k - 1] \o seqs[k]
  PROVE  FlattenSeq(seqs) = f[Len(seqs)]
<1> DEFINE g == FlatUpTo(seqs)
           T == {k \in Nat : f[k] = g[k]}
<1>1. /\ FlattenSeq(seqs) = g[Len(seqs)] /\ g[0] = << >>
      /\ \A k \in 1..Len(seqs) : g[k] = g[k - 1] \o seqs[k]
  BY FlattenDefined
<1> HIDE DEF g
<1>2. 0 \in T
  BY <1>1
<1>3. ASSUME NEW k \in 0..Len(seqs) - 1, k \in T PROVE k + 1 \in T
  <2>1. k + 1 \in 1..Len(seqs) /\ (k + 1) - 1 = k /\ k + 1 \in Nat
    OBVIOUS
  <2> QED BY <2>1, <1>1, <1>3
<1>4. 0..Len(seqs) \subseteq T
  <2> HIDE DEF T
  <2>1. Len(seqs) \in Nat
    OBVIOUS
  <2> QED BY <2>1, <1>2, <1>3, IntervalInduction
<1>5. Len(seqs) \in 0..Len(seqs)
  OBVIOUS
<1> QED BY <1>1, <1>4, <1>5

\* What the first of the sequences are together is where the whole begins.
LEMMA FlattenPrefix ==
  ASSUME NEW S, NEW seqs \in Seq(Seq(S)), NEW m \in 0..Len(seqs)
  PROVE  \E rest \in Seq(S) : FlattenSeq(seqs) = FlatUpTo(seqs)[m] \o rest
<1> DEFINE g == FlatUpTo(seqs)
           n == Len(seqs)
           W == Seq(S)
           Begun(x) == \E rest \in W : g[x] = g[m] \o rest
           T == {k \in Nat : m + k <= n => Begun(m + k)}
<1>1. /\ n \in Nat /\ m \in Nat /\ m <= n /\ \A k \in 1..n : seqs[k] \in W
  OBVIOUS
<1>2. /\ FlattenSeq(seqs) = g[n] /\ g \in [0..n -> W]
      /\ \A k \in 1..n : g[k] = g[k - 1] \o seqs[k]
  BY FlattenDefined
<1>3. /\ \A u, v \in W : u \o v \in W
      /\ \A u, v, w \in W : (u \o v) \o w = u \o (v \o w)
      /\ << >> \in W /\ \A u \in W : u \o << >> = u
  OBVIOUS
<1> HIDE DEF g, n, W
<1>4. 0 \in T
  <2>1. g[m] \in W /\ m + 0 = m
    BY <1>1, <1>2
  <2>2. Begun(m)
    BY <2>1, <1>3
  <2> HIDE DEF Begun
  <2> QED BY <2>1, <2>2
<1>5. ASSUME NEW k \in Nat, k \in T PROVE k + 1 \in T
  <2> SUFFICES ASSUME m + (k + 1) <= n PROVE Begun(m + (k + 1))
    <3> HIDE DEF Begun
    <3> QED OBVIOUS
  <2>1. m + k <= n /\ m + (k + 1) \in 1..n /\ (m + (k + 1)) - 1 = m + k
    BY <1>1
  <2>2. PICK rest \in W : g[m + k] = g[m] \o rest
    BY <2>1, <1>5
  <2>3. g[m + (k + 1)] = g[m + k] \o seqs[m + (k + 1)]
    BY <2>1, <1>2
  <2>4. g[m] \in W /\ seqs[m + (k + 1)] \in W
    BY <2>1, <1>1, <1>2
  <2> DEFINE e == seqs[m + (k + 1)]
             r == rest \o e
  <2> HIDE DEF e
  <2>5. e \in W /\ g[m + (k + 1)] = (g[m] \o rest) \o e
    BY <2>2, <2>3, <2>4 DEF e
  <2>6. r \in W /\ g[m + (k + 1)] = g[m] \o r
    BY <2>4, <2>5, <1>3
  <2> QED BY <2>6
<1>6. Nat \subseteq T
  <2> HIDE DEF T
  <2> QED BY <1>4, <1>5, Induction
<1>7. n - m \in Nat /\ m + (n - m) = n
  BY <1>1
<1>8. Begun(n)
  <2> HIDE DEF Begun
  <2> DEFINE k == n - m
  <2>1. k \in Nat /\ m + k = n /\ n <= n
    BY <1>7, <1>1
  <2> HIDE DEF k
  <2>2. k \in T
    BY <2>1, <1>6
  <2> QED BY <2>1, <2>2
<1> QED BY <1>2, <1>8 DEF g, W

\* A part of a whole is one of its subsequences.
LEMMA PartOfWhole ==
  ASSUME NEW S, NEW u \in Seq(S), NEW v \in Seq(S), NEW w \in Seq(S)
  PROVE  v \in SubSeqs(u \o v \o w)
<1> DEFINE whole == u \o v \o w
           a == Len(u)
           b == Len(v)
<1>1. a \in Nat /\ b \in Nat /\ Len(w) \in Nat /\ whole \in Seq(S) /\ Len(whole) = a + b + Len(w)
  OBVIOUS
<1>2. \A j \in 1..b : whole[a + j] = v[j]
  <2>1. u \o v \in Seq(S) /\ Len(u \o v) = a + b
    OBVIOUS
  <2>2. \A j \in 1..b : (u \o v)[a + j] = v[j]
    OBVIOUS
  <2> DEFINE x == u \o v
  <2>3. x \in Seq(S) /\ Len(x) = a + b
    BY <2>1
  <2> HIDE DEF x
  <2>4. \A i \in 1..Len(x) : (x \o w)[i] = x[i]
    BY <2>3
  <2>5. \A j \in 1..b : a + j \in 1..Len(x)
    BY <1>1, <2>3
  <2> QED BY <2>2, <2>4, <2>5 DEF x
<1> HIDE DEF whole
<1>3. SubSeq(whole, a + 1, a + b) = v
  <2>1. a \in Nat /\ \A j \in 1..Len(v) : whole[a + j] = v[j]
    BY <1>1, <1>2
  <2> HIDE DEF a
  <2> QED BY <2>1, CutOut
<1>4. a \in 0..Len(whole) /\ a + b \in 0..Len(whole)
  BY <1>1
<1> HIDE DEF a, b
<1>5. v \in SubSeqs(whole)
  <2> DEFINE c == a + b
  <2>1. SubSeq(whole, a + 1, c) = v /\ a \in 0..Len(whole) /\ c \in 0..Len(whole)
    BY <1>3, <1>4
  <2> HIDE DEF c
  <2> QED BY <2>1 DEF SubSeqs
<1> QED BY <1>5 DEF whole

=============================================================================
