------------------------------ MODULE OTProofs ------------------------------
(***************************************************************************)
(* The laws of the engine, for every document and every operation: what    *)
(* the builder, Transform, Compose and the diff do to a document.          *)
(*                                                                         *)
(* A character has one byte or two.  An operation that cuts none of its    *)
(* text's characters makes a text of it (Whole), and all that is made of   *)
(* such operations cuts none either.                                       *)
(*                                                                         *)
(* Last, which bytes an operation inserts, and that it keeps the others in *)
(* their order.                                                            *)
(***************************************************************************)
EXTENDS TextDiff, TLAPS, FiniteSetTheorems, SequenceTheorems, WellFoundedInduction

---------------------------------------------------------------------------
(* Induction up to a bound, and sequences.                                 *)

(***************************************************************************)
(* A set that holds 0 and with each number below N its successor holds     *)
(* them all up to N: the loops of the code are recursive functions over    *)
(* such an interval.                                                       *)
(***************************************************************************)
LEMMA BoundedInduction ==
    ASSUME NEW N \in Nat, NEW S,
           0 \in S,
           \A n \in 0..(N - 1) : n \in S => n + 1 \in S
    PROVE  0..N \subseteq S
<1> DEFINE I == 0..N
           T == {0..n : n \in I \ S}
<1>1. SUFFICES ASSUME I \ S # {} PROVE FALSE
    OBVIOUS
<1>2. IsFiniteSet(I)
    BY FS_Interval
<1>3. IsWellFoundedOn(StrictSubsetOrdering(I), SUBSET I)
    BY <1>2, FS_StrictSubsetOrderingWellFounded, FS_FiniteSubsetsOfFinite
<1>4. T \subseteq SUBSET I /\ T # {}
    BY <1>1
<1>5. PICK x \in T : \A y \in T : ~(<<y, x>> \in StrictSubsetOrdering(I))
    BY <1>3, <1>4, WFMin
<1>6. PICK n \in I \ S : x = 0..n
    BY <1>5
<1>7. n > 0 /\ n - 1 \in 0..(N - 1)
    BY <1>6
<1>8. n - 1 \notin S
    BY <1>6, <1>7
<1>9. 0..(n - 1) \in T
    BY <1>7, <1>8
<1>10. 0..(n - 1) \subseteq 0..n /\ 0..(n - 1) # 0..n
  <2>1. n \in 0..n /\ n \notin 0..(n - 1)
    BY <1>7
  <2>2. 0..(n - 1) \subseteq 0..n
    BY <1>7
  <2> QED BY <2>1, <2>2
<1>11. <<0..(n - 1), 0..n>> \in StrictSubsetOrdering(I)
    BY <1>4, <1>6, <1>5, <1>9, <1>10 DEF StrictSubsetOrdering
<1> QED BY <1>5, <1>6, <1>9, <1>11

\* A sequence over any set is one over its own range.
LEMMA IsSeqIntro ==
    ASSUME NEW S, NEW s \in Seq(S)
    PROVE  IsSeq(s)
<1>1. Len(s) \in Nat /\ s \in [1..Len(s) -> S] /\ DOMAIN s = 1..Len(s)
    BY LenProperties
<1>2. s \in [1..Len(s) -> Range(s)]
    BY <1>1 DEF Range
<1> QED BY <1>1, <1>2, SMT DEF IsSeq

\* The length of a sequence, and its domain.
LEMMA IsSeqLen ==
    ASSUME NEW s, IsSeq(s)
    PROVE  Len(s) \in Nat /\ DOMAIN s = 1..Len(s)
BY LenProperties DEF IsSeq

\* The empty sequence is a sequence, with no index.
LEMMA IsSeqEmpty == IsSeq(<< >>) /\ Len(<< >>) = 0 /\ DOMAIN << >> = {}
<1>1. << >> \in Seq({}) /\ Len(<< >>) = 0
    BY EmptySeq
<1>2. IsSeq(<< >>)
    BY <1>1, IsSeqIntro
<1>3. DOMAIN << >> = {}
    OBVIOUS
<1> QED BY <1>1, <1>2, <1>3

\* A one-element sequence: its only index and element.
LEMMA IsSeqOne ==
    ASSUME NEW x
    PROVE  IsSeq(<<x>>) /\ Len(<<x>>) = 1 /\ <<x>>[1] = x
<1>1. <<x>> \in Seq({x})
    OBVIOUS
<1> QED BY <1>1, IsSeqIntro

\* Concatenation: its length, and where each index comes from.
LEMMA IsSeqConcat ==
    ASSUME NEW s, NEW t, IsSeq(s), IsSeq(t)
    PROVE  /\ IsSeq(s \o t)
           /\ Len(s \o t) = Len(s) + Len(t)
           /\ \A i \in 1..Len(s \o t) :
                 (s \o t)[i] = IF i <= Len(s) THEN s[i] ELSE t[i - Len(s)]
<1> DEFINE S == Range(s) \cup Range(t)
<1>1. s \in Seq(S) /\ t \in Seq(S)
    BY SeqMonotonic DEF IsSeq
<1>2. /\ s \o t \in Seq(S)
      /\ Len(s \o t) = Len(s) + Len(t)
      /\ \A i \in 1..Len(s) + Len(t) :
            (s \o t)[i] = IF i <= Len(s) THEN s[i] ELSE t[i - Len(s)]
    BY <1>1, ConcatProperties
<1> QED BY <1>2, IsSeqIntro

\* Appending one element.
LEMMA IsSeqAppend ==
    ASSUME NEW s, NEW x, IsSeq(s)
    PROVE  /\ IsSeq(Append(s, x))
           /\ Len(Append(s, x)) = Len(s) + 1
           /\ \A i \in 1..(Len(s) + 1) :
                 Append(s, x)[i] = IF i <= Len(s) THEN s[i] ELSE x
<1> DEFINE S == Range(s) \cup {x}
<1>1. s \in Seq(S)
    BY SeqMonotonic DEF IsSeq
<1>2. /\ Append(s, x) \in Seq(S)
      /\ Len(Append(s, x)) = Len(s) + 1
      /\ \A i \in 1..(Len(s) + 1) :
                 Append(s, x)[i] = IF i <= Len(s) THEN s[i] ELSE x
    BY <1>1
<1> QED BY <1>2, IsSeqIntro

\* Dropping the first element.
LEMMA IsSeqTail ==
    ASSUME NEW s, IsSeq(s), s # << >>
    PROVE  /\ IsSeq(Tail(s))
           /\ Len(Tail(s)) = Len(s) - 1
           /\ \A i \in 1..Len(Tail(s)) : Tail(s)[i] = s[i + 1]
<1>1. s \in Seq(Range(s))
    BY DEF IsSeq
<1> QED BY <1>1, HeadTailProperties, IsSeqIntro

\* A final segment of a sequence.
LEMMA IsSeqSubSeq ==
    ASSUME NEW s, IsSeq(s), NEW m \in Nat \ {0}, NEW n \in 0..Len(s)
    PROVE  /\ IsSeq(SubSeq(s, m, n))
           /\ Len(SubSeq(s, m, n)) = IF m <= n THEN n - m + 1 ELSE 0
<1>1. s \in Seq(Range(s)) /\ Len(s) \in Nat
    BY IsSeqLen DEF IsSeq
<1>2. \A i \in m..n : s[i] \in Range(s)
    BY <1>1, ElementOfSeq
<1>3. m \in Int /\ n \in Int
    BY <1>1
<1>4. /\ SubSeq(s, m, n) \in Seq(Range(s))
      /\ Len(SubSeq(s, m, n)) = IF m <= n THEN n - m + 1 ELSE 0
    BY <1>2, <1>3, SubSeqProperties
<1> QED BY <1>4, IsSeqIntro

\* Two sequences with the same elements are the same.
LEMMA IsSeqEqual ==
    ASSUME NEW s, NEW t, IsSeq(s), IsSeq(t), Len(s) = Len(t),
           \A i \in 1..Len(s) : s[i] = t[i]
    PROVE  s = t
<1> DEFINE S == Range(s) \cup Range(t)
<1>1. s \in Seq(S) /\ t \in Seq(S)
    BY SeqMonotonic DEF IsSeq
<1> HIDE DEF S
<1> QED BY <1>1, SeqEqual

\* Concatenation is associative.
LEMMA IsSeqAssoc ==
    ASSUME NEW s, NEW t, NEW u, IsSeq(s), IsSeq(t), IsSeq(u)
    PROVE  (s \o t) \o u = s \o (t \o u)
<1> DEFINE S == Range(s) \cup Range(t) \cup Range(u)
<1>1. s \in Seq(S) /\ t \in Seq(S) /\ u \in Seq(S)
    BY SeqMonotonic DEF IsSeq
<1> HIDE DEF S
<1> QED BY <1>1, ConcatAssociative

\* << >> is its unit.
LEMMA IsSeqUnit ==
    ASSUME NEW s, IsSeq(s)
    PROVE  s \o << >> = s /\ << >> \o s = s
BY ConcatEmptySeq DEF IsSeq

\* Appending an element is concatenating a sequence of one.
LEMMA IsSeqAppendOne ==
    ASSUME NEW s, NEW x, IsSeq(s)
    PROVE  Append(s, x) = s \o <<x>>
<1> DEFINE a == Append(s, x)
           c == s \o <<x>>
<1>1. IsSeq(<<x>>) /\ Len(<<x>>) = 1 /\ <<x>>[1] = x
    BY IsSeqOne
<1>2. /\ IsSeq(c) /\ Len(c) = Len(s) + 1
      /\ \A i \in 1..Len(c) : c[i] = IF i <= Len(s) THEN s[i] ELSE <<x>>[i - Len(s)]
    BY <1>1, IsSeqConcat
<1>3. /\ IsSeq(a) /\ Len(a) = Len(s) + 1
      /\ \A i \in 1..(Len(s) + 1) : a[i] = IF i <= Len(s) THEN s[i] ELSE x
    BY IsSeqAppend
<1>4. Len(s) \in Nat
    BY IsSeqLen
<1> HIDE DEF a, c
<1>5. ASSUME NEW i \in 1..(Len(s) + 1), ~(i <= Len(s)) PROVE c[i] = x
  <2>1. i \in 1..Len(c) /\ i - Len(s) = 1
      BY <1>2, <1>4, <1>5
  <2> QED BY <1>1, <1>2, <1>5, <2>1
<1>6. \A i \in 1..Len(a) : a[i] = c[i]
    BY <1>2, <1>3, <1>5
<1>7. a = c
    BY <1>2, <1>3, <1>6, IsSeqEqual
<1> QED BY <1>7 DEF a, c

\* Only << >> has length 0.
LEMMA IsSeqNone ==
    ASSUME NEW s, IsSeq(s)
    PROVE  s = << >> <=> Len(s) = 0
BY EmptySeq, IsSeqLen DEF IsSeq

\* A segment of a sequence, empty or not.
LEMMA SegmentOK ==
    ASSUME NEW d, IsSeq(d), NEW m \in Nat \ {0}, NEW n \in (m - 1)..Len(d)
    PROVE  /\ IsSeq(SubSeq(d, m, n))
           /\ Len(SubSeq(d, m, n)) = n - m + 1
           /\ \A i \in 1..(n - m + 1) : SubSeq(d, m, n)[i] = d[m + i - 1]
<1>1. d \in Seq(Range(d)) /\ Len(d) \in Nat
    BY IsSeqLen DEF IsSeq
<1>2. \A i \in m..n : d[i] \in Range(d)
    BY <1>1, ElementOfSeq
<1>3. m \in Int /\ n \in Int /\ (m <= n \/ n = m - 1)
    BY <1>1
<1>4. /\ SubSeq(d, m, n) \in Seq(Range(d))
      /\ Len(SubSeq(d, m, n)) = IF m <= n THEN n - m + 1 ELSE 0
      /\ \A i \in 1..(n - m + 1) : SubSeq(d, m, n)[i] = d[m + i - 1]
    BY <1>2, <1>3, SubSeqProperties
<1>5. IsSeq(SubSeq(d, m, n))
    BY <1>4, IsSeqIntro
<1>6. (IF m <= n THEN n - m + 1 ELSE 0) = n - m + 1
    BY <1>3
<1> QED BY <1>4, <1>5, <1>6

\* Adjacent segments.
LEMMA SegmentJoin ==
    ASSUME NEW d, IsSeq(d), NEW m \in Nat \ {0},
           NEW k \in (m - 1)..Len(d), NEW n \in k..Len(d)
    PROVE  SubSeq(d, m, k) \o SubSeq(d, k + 1, n) = SubSeq(d, m, n)
<1> DEFINE x == SubSeq(d, m, k)
           y == SubSeq(d, k + 1, n)
           z == SubSeq(d, m, n)
<1>1. Len(d) \in Nat /\ k \in Nat /\ n \in Nat /\ k + 1 \in Nat \ {0}
    BY IsSeqLen
<1>2. /\ IsSeq(x) /\ Len(x) = k - m + 1
      /\ \A i \in 1..(k - m + 1) : x[i] = d[m + i - 1]
    BY <1>1, SegmentOK
<1>3. /\ IsSeq(y) /\ Len(y) = n - (k + 1) + 1
      /\ \A i \in 1..(n - (k + 1) + 1) : y[i] = d[(k + 1) + i - 1]
  <2>1. n \in ((k + 1) - 1)..Len(d)
      BY <1>1
  <2> DEFINE j == k + 1
  <2>2. j \in Nat \ {0} /\ n \in (j - 1)..Len(d)
      BY <1>1, <2>1
  <2> HIDE DEF j
  <2>3. /\ IsSeq(SubSeq(d, j, n)) /\ Len(SubSeq(d, j, n)) = n - j + 1
        /\ \A i \in 1..(n - j + 1) : SubSeq(d, j, n)[i] = d[j + i - 1]
      BY <2>2, SegmentOK
  <2> QED BY <2>3 DEF j
<1>4. /\ IsSeq(z) /\ Len(z) = n - m + 1
      /\ \A i \in 1..(n - m + 1) : z[i] = d[m + i - 1]
  <2>1. n \in (m - 1)..Len(d)
      BY <1>1
  <2> QED BY <2>1, SegmentOK
<1> HIDE DEF x, y, z
<1>5. /\ IsSeq(x \o y) /\ Len(x \o y) = Len(x) + Len(y)
      /\ \A i \in 1..Len(x \o y) :
            (x \o y)[i] = IF i <= Len(x) THEN x[i] ELSE y[i - Len(x)]
    BY <1>2, <1>3, IsSeqConcat
<1>6. Len(x \o y) = Len(z)
    BY <1>1, <1>2, <1>3, <1>4, <1>5
<1>7. ASSUME NEW i \in 1..Len(x \o y) PROVE (x \o y)[i] = z[i]
  <2>1. z[i] = d[m + i - 1]
      BY <1>4, <1>6, <1>7
  <2>2. CASE i <= Len(x)
    <3>1. i \in 1..(k - m + 1)
        BY <1>1, <1>2, <1>7, <2>2
    <3> QED BY <1>2, <1>5, <1>7, <2>1, <2>2, <3>1
  <2>3. CASE ~(i <= Len(x))
    <3> DEFINE j == i - Len(x)
    <3>1. j \in 1..(n - (k + 1) + 1) /\ (k + 1) + j - 1 = m + i - 1
        BY <1>1, <1>2, <1>3, <1>5, <1>7, <2>3
    <3>2. (x \o y)[i] = y[j]
        BY <1>5, <1>7, <2>3
    <3> HIDE DEF j
    <3>3. y[j] = d[(k + 1) + j - 1]
        BY <1>3, <3>1
    <3> QED BY <2>1, <3>1, <3>2, <3>3
  <2> QED BY <2>2, <2>3
<1> QED BY <1>4, <1>5, <1>6, <1>7, IsSeqEqual DEF x, y, z

\* A whole sequence is a segment of itself.
LEMMA SegmentAll ==
    ASSUME NEW d, IsSeq(d)
    PROVE  SubSeq(d, 1, Len(d)) = d
<1> DEFINE y == SubSeq(d, 1, Len(d))
           n == Len(d)
<1>1. n \in Nat
    BY IsSeqLen
<1>2. 1 \in Nat \ {0} /\ n \in (1 - 1)..Len(d)
    BY <1>1
<1>3. /\ IsSeq(y) /\ Len(y) = n - 1 + 1
      /\ \A i \in 1..(n - 1 + 1) : y[i] = d[1 + i - 1]
    BY <1>2, SegmentOK
<1>4. IsSeq(y) /\ Len(y) = n /\ \A i \in 1..n : y[i] = d[i]
    BY <1>1, <1>3
<1> HIDE DEF y
<1>5. y = d
    BY <1>4, IsSeqEqual
<1> QED BY <1>5 DEF y

\* A sequence can be cut anywhere.
LEMMA IsSeqSplit ==
    ASSUME NEW d, IsSeq(d), NEW n \in 0..Len(d)
    PROVE  LET x == SubSeq(d, 1, n)
               y == SubSeq(d, n + 1, Len(d))
           IN  /\ IsSeq(x) /\ Len(x) = n
               /\ IsSeq(y) /\ Len(y) = Len(d) - n
               /\ d = x \o y
<1> DEFINE L == Len(d)
           j == n + 1
<1>1. L \in Nat /\ n \in Nat /\ j \in Nat \ {0} /\ L \in (j - 1)..L
    BY IsSeqLen
<1>2. /\ IsSeq(SubSeq(d, 1, n)) /\ Len(SubSeq(d, 1, n)) = n - 1 + 1
      /\ SubSeq(d, 1, n) \o SubSeq(d, n + 1, L) = SubSeq(d, 1, L)
  <2> DEFINE m == 1
  <2>1. m \in Nat \ {0} /\ n \in (m - 1)..L /\ L \in n..L
      BY <1>1
  <2> HIDE DEF m
  <2>2. /\ IsSeq(SubSeq(d, m, n)) /\ Len(SubSeq(d, m, n)) = n - m + 1
        /\ SubSeq(d, m, n) \o SubSeq(d, n + 1, L) = SubSeq(d, m, L)
      BY <2>1, SegmentOK, SegmentJoin
  <2> QED BY <2>2 DEF m
<1>3. IsSeq(SubSeq(d, j, L)) /\ Len(SubSeq(d, j, L)) = L - j + 1
  <2> HIDE DEF j
  <2> QED BY <1>1, SegmentOK
<1>4. L - j + 1 = L - n /\ n - 1 + 1 = n
    BY <1>1
<1> QED BY <1>2, <1>3, <1>4, SegmentAll

\* A segment of the first of two sequences, or of the second.
LEMMA SegmentLeft ==
    ASSUME NEW x, NEW y, IsSeq(x), IsSeq(y),
           NEW m \in Nat \ {0}, NEW n \in (m - 1)..Len(x)
    PROVE  SubSeq(x \o y, m, n) = SubSeq(x, m, n)
<1> DEFINE d == x \o y
<1>1. /\ IsSeq(d) /\ Len(d) = Len(x) + Len(y)
      /\ \A i \in 1..Len(d) : d[i] = IF i <= Len(x) THEN x[i] ELSE y[i - Len(x)]
    BY IsSeqConcat
<1> HIDE DEF d
<1>2. Len(x) \in Nat /\ Len(y) \in Nat
    BY IsSeqLen
<1>3. n \in (m - 1)..Len(d)
    BY <1>1, <1>2
<1>4. /\ IsSeq(SubSeq(d, m, n)) /\ Len(SubSeq(d, m, n)) = n - m + 1
      /\ \A i \in 1..(n - m + 1) : SubSeq(d, m, n)[i] = d[m + i - 1]
    BY <1>1, <1>3, SegmentOK
<1>5. /\ IsSeq(SubSeq(x, m, n)) /\ Len(SubSeq(x, m, n)) = n - m + 1
      /\ \A i \in 1..(n - m + 1) : SubSeq(x, m, n)[i] = x[m + i - 1]
    BY SegmentOK
<1>6. \A i \in 1..(n - m + 1) : d[m + i - 1] = x[m + i - 1]
    BY <1>1, <1>2
<1>7. SubSeq(d, m, n) = SubSeq(x, m, n)
  <2> DEFINE v == SubSeq(d, m, n)
             w == SubSeq(x, m, n)
  <2>1. IsSeq(v) /\ IsSeq(w) /\ Len(v) = Len(w)
      BY <1>4, <1>5
  <2>2. \A i \in 1..Len(v) : v[i] = w[i]
      BY <1>4, <1>5, <1>6
  <2> HIDE DEF v, w
  <2>3. v = w
      BY ONLY <2>1, <2>2, IsSeqEqual
  <2> QED BY <2>3 DEF v, w
<1> QED BY <1>7 DEF d

\* A segment of a concatenation that lies in its second part.
LEMMA SegmentRight ==
    ASSUME NEW x, NEW y, IsSeq(x), IsSeq(y),
           NEW m \in Nat \ {0}, NEW n \in (m - 1)..Len(y)
    PROVE  SubSeq(x \o y, Len(x) + m, Len(x) + n) = SubSeq(y, m, n)
<1> DEFINE d == x \o y
           a == Len(x) + m
           b == Len(x) + n
<1>1. /\ IsSeq(d) /\ Len(d) = Len(x) + Len(y)
      /\ \A i \in 1..Len(d) : d[i] = IF i <= Len(x) THEN x[i] ELSE y[i - Len(x)]
    BY IsSeqConcat
<1> HIDE DEF d
<1>2. Len(x) \in Nat /\ Len(y) \in Nat
    BY IsSeqLen
<1>3. /\ a \in Nat \ {0} /\ b \in (a - 1)..Len(d) /\ b - a + 1 = n - m + 1
    BY <1>1, <1>2
<1>6. \A i \in 1..(n - m + 1) : d[a + i - 1] = y[m + i - 1]
  <2>1. ASSUME NEW i \in 1..(n - m + 1) PROVE d[a + i - 1] = y[m + i - 1]
    <3> DEFINE j == a + i - 1
    <3>1. j \in 1..Len(d) /\ ~(j <= Len(x)) /\ j - Len(x) = m + i - 1
        BY <1>1, <1>2, <2>1
    <3> HIDE DEF j
    <3>2. d[j] = y[j - Len(x)]
        BY <1>1, <3>1
    <3> QED BY <3>1, <3>2 DEF j
  <2> QED BY <2>1
<1> HIDE DEF a, b
<1>4. /\ IsSeq(SubSeq(d, a, b)) /\ Len(SubSeq(d, a, b)) = b - a + 1
      /\ \A i \in 1..(b - a + 1) : SubSeq(d, a, b)[i] = d[a + i - 1]
    BY <1>1, <1>3, SegmentOK
<1>5. /\ IsSeq(SubSeq(y, m, n)) /\ Len(SubSeq(y, m, n)) = n - m + 1
      /\ \A i \in 1..(n - m + 1) : SubSeq(y, m, n)[i] = y[m + i - 1]
    BY SegmentOK
<1>7. SubSeq(d, a, b) = SubSeq(y, m, n)
    BY <1>3, <1>4, <1>5, <1>6, IsSeqEqual
<1> QED BY <1>7 DEF a, b, d

---------------------------------------------------------------------------
(* Concatenation by a name of its own: the laws below are all that the     *)
(* proofs about operations need of it.                                     *)

Cat(s, t) == s \o t

One(x) == <<x>>

\* Concatenations are sequences.
LEMMA CatOK ==
    ASSUME NEW s, NEW t, IsSeq(s), IsSeq(t)
    PROVE  /\ IsSeq(Cat(s, t)) /\ Len(Cat(s, t)) = Len(s) + Len(t)
           /\ Len(s) \in Nat /\ Len(t) \in Nat
BY IsSeqConcat, IsSeqLen DEF Cat

\* Concatenation is associative.
LEMMA CatAssoc ==
    ASSUME NEW s, NEW t, NEW w, IsSeq(s), IsSeq(t), IsSeq(w)
    PROVE  Cat(Cat(s, t), w) = Cat(s, Cat(t, w))
<1>1. (s \o t) \o w = s \o (t \o w)
    BY IsSeqAssoc
<1> QED BY <1>1 DEF Cat

\* The empty sequence is neutral.
LEMMA CatUnit ==
    ASSUME NEW s, IsSeq(s)
    PROVE  Cat(s, << >>) = s /\ Cat(<< >>, s) = s
BY IsSeqUnit DEF Cat

\* Equal sequences cut at the same place have equal parts.
LEMMA CatCancel ==
    ASSUME NEW x, NEW y, NEW w, NEW v, IsSeq(x), IsSeq(y), IsSeq(w), IsSeq(v),
           Cat(x, y) = Cat(w, v), Len(x) = Len(w)
    PROVE  x = w /\ y = v
<1> DEFINE n == Len(x)
<1>1. x \o y = w \o v
    BY DEF Cat
<1>2. n \in Nat /\ Len(y) \in Nat /\ Len(v) \in Nat
    BY IsSeqLen
<1>3. /\ Len(x \o y) = n + Len(y)
      /\ \A i \in 1..Len(x \o y) : (x \o y)[i] = IF i <= n THEN x[i] ELSE y[i - n]
    BY IsSeqConcat
<1>4. /\ Len(x \o y) = n + Len(v)
      /\ \A i \in 1..Len(x \o y) : (x \o y)[i] = IF i <= n THEN w[i] ELSE v[i - n]
    BY <1>1, IsSeqConcat
<1>5. Len(y) = Len(v)
    BY <1>2, <1>3, <1>4
<1>6. x = w
  <2>1. \A i \in 1..n : x[i] = w[i]
      BY <1>2, <1>3, <1>4
  <2> QED BY <2>1, IsSeqEqual
<1>7. \A i \in 1..Len(y) : y[i] = v[i]
  <2>1. ASSUME NEW i \in 1..Len(y) PROVE y[i] = v[i]
    <3> DEFINE j == n + i
    <3>1. j \in 1..Len(x \o y) /\ ~(j <= n) /\ j - n = i
        BY <1>2, <1>3
    <3> HIDE DEF j
    <3> QED BY <1>3, <1>4, <3>1
  <2> QED BY <2>1
<1> QED BY <1>5, <1>6, <1>7, IsSeqEqual

\* A sequence is cut anywhere.
LEMMA CatSplit ==
    ASSUME NEW d, IsSeq(d), NEW n \in 0..Len(d)
    PROVE  \E x, y : /\ IsSeq(x) /\ Len(x) = n
                     /\ IsSeq(y) /\ Len(y) = Len(d) - n
                     /\ d = Cat(x, y)
<1> DEFINE x == SubSeq(d, 1, n)
           y == SubSeq(d, n + 1, Len(d))
<1>1. /\ IsSeq(x) /\ Len(x) = n
      /\ IsSeq(y) /\ Len(y) = Len(d) - n
      /\ d = x \o y
    BY IsSeqSplit
<1> HIDE DEF x, y
<1> QED BY <1>1 DEF Cat

\* A sequence of one element.
LEMMA OneOK ==
    ASSUME NEW x
    PROVE  /\ IsSeq(One(x)) /\ Len(One(x)) = 1 /\ One(x)[1] = x /\ One(x) # << >>
BY IsSeqOne, IsSeqEmpty DEF One

\* A sequence is its first element and the rest.
LEMMA CatHead ==
    ASSUME NEW s, IsSeq(s), s # << >>
    PROVE  /\ s = Cat(One(Head(s)), Tail(s))
           /\ IsSeq(Tail(s)) /\ Len(s) = 1 + Len(Tail(s)) /\ Len(Tail(s)) \in Nat
           /\ Head(s) = s[1]
<1> DEFINE c == One(Head(s)) \o Tail(s)
<1>1. IsSeq(Tail(s)) /\ Len(Tail(s)) = Len(s) - 1 /\ \A i \in 1..Len(Tail(s)) : Tail(s)[i] = s[i + 1]
    BY IsSeqTail
<1>2. Len(s) \in Nat \ {0} /\ Head(s) = s[1]
    BY IsSeqLen, IsSeqNone DEF IsSeq
<1>3. IsSeq(One(Head(s))) /\ Len(One(Head(s))) = 1 /\ One(Head(s))[1] = s[1]
    BY <1>2, OneOK
<1>4. /\ IsSeq(c) /\ Len(c) = 1 + Len(Tail(s))
      /\ \A i \in 1..Len(c) : c[i] = IF i <= 1 THEN One(Head(s))[i] ELSE Tail(s)[i - 1]
  <2> DEFINE a == One(Head(s))
             t == Tail(s)
  <2>1. IsSeq(a) /\ IsSeq(t) /\ Len(a) = 1
      BY <1>1, <1>3
  <2> HIDE DEF a, t
  <2>2. /\ IsSeq(a \o t) /\ Len(a \o t) = 1 + Len(t)
        /\ \A i \in 1..Len(a \o t) : (a \o t)[i] = IF i <= 1 THEN a[i] ELSE t[i - 1]
      BY <2>1, IsSeqConcat
  <2> QED BY <2>2 DEF a, t
<1>5. Len(c) = Len(s)
    BY <1>1, <1>2, <1>4
<1>6. \A i \in 1..Len(s) : c[i] = s[i]
  <2> HIDE DEF c
  <2>1. ASSUME NEW i \in 1..Len(s), ~(i <= 1) PROVE c[i] = s[i]
    <3>1. i - 1 \in 1..Len(Tail(s)) /\ (i - 1) + 1 = i
        BY <1>1, <1>2, <2>1
    <3> QED BY <1>1, <1>4, <1>5, <2>1, <3>1
  <2>2. ASSUME NEW i \in 1..Len(s), i <= 1 PROVE c[i] = s[i]
    <3>1. i = 1
        BY <2>2
    <3> QED BY <1>3, <1>4, <1>5, <2>2, <3>1
  <2> QED BY <2>1, <2>2
<1> HIDE DEF c
<1>7. c = s
    BY <1>4, <1>5, <1>6, IsSeqEqual
<1> QED BY <1>1, <1>2, <1>7 DEF c, Cat

---------------------------------------------------------------------------
(* Characters: what makes a text, and where it can be cut.                 *)

\* The elements of a concatenation.
LEMMA CatIndex ==
    ASSUME NEW x, NEW y, IsSeq(x), IsSeq(y)
    PROVE  /\ Len(Cat(x, y)) = Len(x) + Len(y)
           /\ Len(x) \in Nat /\ Len(y) \in Nat
           /\ \A i \in 1..Len(x) : Cat(x, y)[i] = x[i]
           /\ \A i \in 1..Len(y) : Cat(x, y)[Len(x) + i] = y[i]
<1> DEFINE c == x \o y
           m == Len(x)
           n == Len(y)
<1>1. /\ Len(c) = m + n /\ m \in Nat /\ n \in Nat
      /\ \A i \in 1..Len(c) : c[i] = IF i <= m THEN x[i] ELSE y[i - m]
    BY IsSeqConcat, IsSeqLen
<1> HIDE DEF c, m, n
<1>2. \A i \in 1..m : c[i] = x[i]
    BY <1>1
<1>3. ASSUME NEW i \in 1..n PROVE c[m + i] = y[i]
  <2> DEFINE j == m + i
  <2>1. j \in 1..Len(c) /\ ~(j <= m) /\ j - m = i
      BY <1>1
  <2> HIDE DEF j
  <2>2. c[j] = y[i]
      BY <1>1, <2>1
  <2> QED BY <2>2 DEF j
<1> QED BY <1>1, <1>2, <1>3 DEF Cat, c, m, n

\* A character goes on at i.
GoesOn(d, i) == i < Len(d) /\ d[i + 1] \in Cont

\* A character has begun just before i.
Begun(d, i) == i > 0 /\ d[i] \in Lead

\* A text's first byte begins a character, and its last one ends one.
LEMMA ValidEnds ==
    ASSUME NEW d, IsSeq(d), ValidUTF8(d)
    PROVE  ~GoesOn(d, 0) /\ ~Begun(d, Len(d))
<1>1. 0 \in 0..Len(d) /\ Len(d) \in 0..Len(d) /\ Len(d) \in Nat
    BY IsSeqLen
<1>2. \A i \in 0..Len(d) : GoesOn(d, i) <=> Begun(d, i)
    BY DEF ValidUTF8, GoesOn, Begun
<1>3. ~Begun(d, 0) /\ ~GoesOn(d, Len(d))
    BY <1>1 DEF Begun, GoesOn
<1> QED BY <1>1, <1>2, <1>3

\* Where characters begin and go on in a concatenation, away from the cut.
LEMMA CatCharacters ==
    ASSUME NEW x, NEW y, IsSeq(x), IsSeq(y)
    PROVE  /\ \A i \in 0..(Len(x) - 1) : GoesOn(Cat(x, y), i) <=> GoesOn(x, i)
           /\ \A i \in 0..Len(x) : Begun(Cat(x, y), i) <=> Begun(x, i)
           /\ \A i \in 0..Len(y) : GoesOn(Cat(x, y), Len(x) + i) <=> GoesOn(y, i)
           /\ \A i \in 1..Len(y) : Begun(Cat(x, y), Len(x) + i) <=> Begun(y, i)
<1> DEFINE c == Cat(x, y)
           m == Len(x)
           n == Len(y)
<1>1. /\ Len(c) = m + n /\ m \in Nat /\ n \in Nat
      /\ \A i \in 1..m : c[i] = x[i]
      /\ \A i \in 1..n : c[m + i] = y[i]
    BY CatIndex
<1> HIDE DEF c
<1>2. ASSUME NEW i \in 0..(m - 1) PROVE GoesOn(c, i) <=> GoesOn(x, i)
  <2>1. i + 1 \in 1..m /\ i < Len(c) /\ i < m
      BY <1>1
  <2> QED BY <1>1, <2>1 DEF GoesOn, m
<1>3. ASSUME NEW i \in 0..m PROVE Begun(c, i) <=> Begun(x, i)
  <2>1. i > 0 => i \in 1..m
      BY <1>1
  <2> QED BY <1>1, <2>1 DEF Begun
<1>4. ASSUME NEW i \in 0..n PROVE GoesOn(c, m + i) <=> GoesOn(y, i)
  <2>1. m + i < Len(c) <=> i < n
      BY <1>1
  <2>2. ASSUME i < n PROVE c[(m + i) + 1] = y[i + 1]
    <3>1. i + 1 \in 1..n /\ (m + i) + 1 = m + (i + 1)
        BY <1>1, <2>2
    <3> QED BY <1>1, <3>1
  <2> QED BY <2>1, <2>2 DEF GoesOn, n
<1>5. ASSUME NEW i \in 1..n PROVE Begun(c, m + i) <=> Begun(y, i)
  <2>1. m + i > 0 /\ i > 0 /\ c[m + i] = y[i]
      BY <1>1
  <2> QED BY <2>1 DEF Begun
<1> QED BY <1>2, <1>3, <1>4, <1>5 DEF c, m, n

\* Texts side by side are a text.
LEMMA ValidCat ==
    ASSUME NEW x, NEW y, IsSeq(x), IsSeq(y), ValidUTF8(x), ValidUTF8(y)
    PROVE  ValidUTF8(Cat(x, y))
<1> DEFINE c == Cat(x, y)
           m == Len(x)
           n == Len(y)
<1>1. Len(c) = m + n /\ m \in Nat /\ n \in Nat
    BY CatIndex
<1>2. /\ \A i \in 0..m : GoesOn(x, i) <=> Begun(x, i)
      /\ \A i \in 0..n : GoesOn(y, i) <=> Begun(y, i)
    BY DEF ValidUTF8, GoesOn, Begun
<1>3. /\ \A i \in 0..(m - 1) : GoesOn(c, i) <=> GoesOn(x, i)
      /\ \A i \in 0..m : Begun(c, i) <=> Begun(x, i)
      /\ \A i \in 0..n : GoesOn(c, m + i) <=> GoesOn(y, i)
      /\ \A i \in 1..n : Begun(c, m + i) <=> Begun(y, i)
    BY CatCharacters
<1>4. ~GoesOn(y, 0) /\ ~Begun(x, m)
    BY ValidEnds
<1> HIDE DEF c, m, n
<1>5. ASSUME NEW i \in 0..Len(c) PROVE GoesOn(c, i) <=> Begun(c, i)
  <2>1. CASE i < m
    <3>1. i \in 0..(m - 1) /\ i \in 0..m
        BY <1>1, <2>1
    <3> QED BY <1>2, <1>3, <3>1
  <2>2. CASE i = m
    <3>1. i \in 0..m /\ 0 \in 0..n /\ i = m + 0
        BY <1>1, <2>2
    <3> QED BY <1>3, <1>4, <2>2, <3>1
  <2>3. CASE i > m
    <3> DEFINE j == i - m
    <3>1. j \in 1..n /\ j \in 0..n /\ i = m + j
        BY <1>1, <2>3
    <3> HIDE DEF j
    <3> QED BY <1>2, <1>3, <3>1
  <2> QED BY <1>1, <2>1, <2>2, <2>3
<1>6. ValidUTF8(c)
    BY <1>5 DEF ValidUTF8, GoesOn, Begun
<1> QED BY <1>6 DEF c

\* A text cut where a character begins is two texts.
LEMMA ValidCut ==
    ASSUME NEW x, NEW y, IsSeq(x), IsSeq(y), ValidUTF8(Cat(x, y)),
           IsBoundary(Cat(x, y), Len(x))
    PROVE  ValidUTF8(x) /\ ValidUTF8(y)
<1> DEFINE c == Cat(x, y)
           m == Len(x)
           n == Len(y)
<1>1. Len(c) = m + n /\ m \in Nat /\ n \in Nat
    BY CatIndex
<1>2. \A i \in 0..Len(c) : GoesOn(c, i) <=> Begun(c, i)
    BY DEF ValidUTF8, GoesOn, Begun
<1>3. /\ \A i \in 0..(m - 1) : GoesOn(c, i) <=> GoesOn(x, i)
      /\ \A i \in 0..m : Begun(c, i) <=> Begun(x, i)
      /\ \A i \in 0..n : GoesOn(c, m + i) <=> GoesOn(y, i)
      /\ \A i \in 1..n : Begun(c, m + i) <=> Begun(y, i)
    BY CatCharacters
<1>4. ~GoesOn(c, m)
    BY DEF IsBoundary, RuneStart, GoesOn
<1>5. ~GoesOn(x, m) /\ ~Begun(y, 0)
    BY <1>1 DEF GoesOn, Begun
<1> HIDE DEF c, m, n
<1>6. \A i \in 0..m : GoesOn(x, i) <=> Begun(x, i)
  <2> SUFFICES ASSUME NEW i \in 0..m PROVE GoesOn(x, i) <=> Begun(x, i)
      OBVIOUS
  <2>1. i \in 0..Len(c) /\ (i \in 0..(m - 1) \/ i = m)
      BY <1>1
  <2> QED BY <1>2, <1>3, <1>4, <1>5, <2>1
<1>7. \A i \in 0..n : GoesOn(y, i) <=> Begun(y, i)
  <2> SUFFICES ASSUME NEW i \in 0..n PROVE GoesOn(y, i) <=> Begun(y, i)
      OBVIOUS
  <2>1. m + i \in 0..Len(c) /\ (i \in 1..n \/ (i = 0 /\ m + i = m))
      BY <1>1
  <2> QED BY <1>2, <1>3, <1>4, <1>5, <2>1
<1> QED BY <1>6, <1>7 DEF ValidUTF8, GoesOn, Begun, m, n

\* The end of a text, and the beginning of one, are places to cut.
LEMMA CutAtText ==
    ASSUME NEW x, NEW y, IsSeq(x), IsSeq(y), ValidUTF8(Cat(x, y)),
           ValidUTF8(x) \/ ValidUTF8(y)
    PROVE  /\ IsBoundary(Cat(x, y), Len(x))
           /\ ValidUTF8(x) /\ ValidUTF8(y)
<1> DEFINE c == Cat(x, y)
           m == Len(x)
<1>1. Len(c) = m + Len(y) /\ m \in Nat /\ Len(y) \in Nat
    BY CatIndex
<1>2. m \in 0..Len(c) /\ m \in 0..m /\ 0 \in 0..Len(y) /\ m + 0 = m
    BY <1>1
<1>3. GoesOn(c, m) <=> Begun(c, m)
    BY <1>2 DEF ValidUTF8, GoesOn, Begun
<1>4. (Begun(c, m) <=> Begun(x, m)) /\ (GoesOn(c, m) <=> GoesOn(y, 0))
  <2>1. /\ \A i \in 0..m : Begun(c, i) <=> Begun(x, i)
        /\ \A i \in 0..Len(y) : GoesOn(c, m + i) <=> GoesOn(y, i)
      BY CatCharacters
  <2> HIDE DEF c, m
  <2>2. GoesOn(c, m + 0) <=> GoesOn(y, 0)
      BY <1>2, <2>1
  <2> QED BY <1>2, <2>1, <2>2
<1>5. ~GoesOn(c, m)
    BY <1>3, <1>4, ValidEnds
<1>6. IsBoundary(c, m)
    BY <1>2, <1>5 DEF IsBoundary, RuneStart, GoesOn
<1> QED BY <1>6, ValidCut

\* Nothing is a text.
LEMMA ValidNone == ValidUTF8(<< >>)
<1>1. Len(<< >>) = 0
    BY IsSeqEmpty
<1> QED BY <1>1 DEF ValidUTF8

\* Places to cut the first, or the second, of two texts are places to cut
\* both.
LEMMA CutsOfCat ==
    ASSUME NEW x, NEW y, IsSeq(x), IsSeq(y)
    PROVE  /\ \A i \in 0..Len(x) : IsBoundary(Cat(x, y), i) => IsBoundary(x, i)
           /\ ValidUTF8(y) => \A i \in 0..Len(x) : IsBoundary(x, i) => IsBoundary(Cat(x, y), i)
           /\ \A i \in 0..Len(y) : IsBoundary(Cat(x, y), Len(x) + i) <=> IsBoundary(y, i)
<1> DEFINE c == Cat(x, y)
           m == Len(x)
           n == Len(y)
<1>1. Len(c) = m + n /\ m \in Nat /\ n \in Nat
    BY CatIndex
<1>2. /\ \A i \in 0..Len(c) : IsBoundary(c, i) <=> ~GoesOn(c, i)
      /\ \A i \in 0..m : IsBoundary(x, i) <=> ~GoesOn(x, i)
      /\ \A i \in 0..n : IsBoundary(y, i) <=> ~GoesOn(y, i)
    BY DEF IsBoundary, RuneStart, GoesOn
<1>3. /\ \A i \in 0..(m - 1) : GoesOn(c, i) <=> GoesOn(x, i)
      /\ \A i \in 0..n : GoesOn(c, m + i) <=> GoesOn(y, i)
    BY CatCharacters
<1>4. ~GoesOn(x, m) /\ (ValidUTF8(y) => ~GoesOn(y, 0))
    BY <1>1, ValidEnds DEF GoesOn
<1> HIDE DEF c, m, n
<1>5. ASSUME NEW i \in 0..m, IsBoundary(c, i) PROVE IsBoundary(x, i)
  <2>1. i \in 0..Len(c) /\ (i \in 0..(m - 1) \/ i = m)
      BY <1>1
  <2> QED BY <1>2, <1>3, <1>4, <1>5, <2>1
<1>6. ASSUME ValidUTF8(y), NEW i \in 0..m, IsBoundary(x, i) PROVE IsBoundary(c, i)
  <2>1. i \in 0..Len(c) /\ (i \in 0..(m - 1) \/ (i = m + 0)) /\ 0 \in 0..n
      BY <1>1
  <2> QED BY <1>2, <1>3, <1>4, <1>6, <2>1
<1>7. ASSUME NEW i \in 0..n PROVE IsBoundary(c, m + i) <=> IsBoundary(y, i)
  <2>1. m + i \in 0..Len(c)
      BY <1>1
  <2> QED BY <1>2, <1>3, <2>1
<1> QED BY <1>5, <1>6, <1>7 DEF c, m, n

\* What lies between two places to cut is a text.
LEMMA ValidSegment ==
    ASSUME NEW d, IsSeq(d), ValidUTF8(d),
           NEW to \in 0..Len(d), NEW from \in 0..to,
           IsBoundary(d, from), IsBoundary(d, to)
    PROVE  ValidUTF8(SubSeq(d, from + 1, to))
<1> DEFINE x == SubSeq(d, 1, to)
           y == SubSeq(d, to + 1, Len(d))
<1>1. /\ IsSeq(x) /\ Len(x) = to /\ IsSeq(y) /\ Len(y) = Len(d) - to /\ d = x \o y
    BY IsSeqSplit
<1>2. to \in Nat /\ from \in Nat /\ from <= to /\ Len(d) \in Nat
    BY IsSeqLen
<1> HIDE DEF x, y
<1>3. d = Cat(x, y)
    BY <1>1 DEF Cat
<1>4. ValidUTF8(x)
    BY <1>1, <1>3, ValidCut
<1>5. from \in 0..Len(x)
    BY <1>1, <1>2
<1>6. IsBoundary(x, from)
    BY <1>1, <1>3, <1>5, CutsOfCat
<1> DEFINE a == SubSeq(x, 1, from)
           b == SubSeq(x, from + 1, Len(x))
<1>7. IsSeq(a) /\ Len(a) = from /\ IsSeq(b) /\ x = a \o b
    BY <1>1, <1>5, IsSeqSplit
<1> HIDE DEF a, b
<1>8. ValidUTF8(b)
  <2>1. x = Cat(a, b)
      BY <1>7 DEF Cat
  <2> QED BY <1>4, <1>6, <1>7, <2>1, ValidCut
<1>9. SubSeq(d, from + 1, to) = SubSeq(x, from + 1, to)
  <2>1. from + 1 \in Nat \ {0} /\ to \in ((from + 1) - 1)..Len(x)
      BY <1>1, <1>2
  <2>2. SubSeq(x \o y, from + 1, to) = SubSeq(x, from + 1, to)
      BY <1>1, <2>1, SegmentLeft
  <2> QED BY <1>1, <2>2
<1> QED BY <1>1, <1>8, <1>9 DEF b

---------------------------------------------------------------------------
(* Components, and the lengths of operations.                              *)

\* A component is not empty.
CompOK(o) ==
    \/ \E n \in Nat \ {0} : o = RetainComp(n) \/ o = DeleteComp(n)
    \/ \E s : IsSeq(s) /\ s # << >> /\ o = InsertComp(s)

OpOK(op) == IsSeq(op) /\ \A k \in DOMAIN op : CompOK(op[k])

\* How much of a document a component walks over.
Span(o) == IF o.kind = "insert" THEN 0 ELSE o.n

\* The three kinds of component.
LEMMA CompCases ==
    ASSUME NEW o, CompOK(o)
    PROVE  /\ \/ o.kind = "retain" /\ o.n \in Nat \ {0} /\ o = RetainComp(o.n)
              \/ o.kind = "delete" /\ o.n \in Nat \ {0} /\ o = DeleteComp(o.n)
              \/ o.kind = "insert" /\ IsSeq(o.s) /\ o.s # << >> /\ o = InsertComp(o.s)
           /\ CompLen(o) \in Nat \ {0}
           /\ Span(o) \in Nat
<1>1. CASE \E n \in Nat \ {0} : o = RetainComp(n) \/ o = DeleteComp(n)
    BY <1>1 DEF RetainComp, DeleteComp, CompLen, Span
<1>2. CASE \E s : IsSeq(s) /\ s # << >> /\ o = InsertComp(s)
  <2>1. PICK s : IsSeq(s) /\ s # << >> /\ o = InsertComp(s)
      BY <1>2
  <2>2. Len(s) \in Nat \ {0}
      BY <2>1, IsSeqLen, IsSeqNone
  <2> QED BY <2>1, <2>2 DEF InsertComp, CompLen, Span
<1> QED BY <1>1, <1>2 DEF CompOK

\* The components of an operation.
LEMMA OpIndex ==
    ASSUME NEW op, OpOK(op)
    PROVE  /\ IsSeq(op) /\ Len(op) \in Nat /\ DOMAIN op = 1..Len(op)
           /\ \A k \in 1..Len(op) : CompOK(op[k])
BY IsSeqLen DEF OpOK

\* No component at all is an operation.
LEMMA OpEmpty == OpOK(<< >>) /\ Len(<< >>) = 0
BY IsSeqEmpty DEF OpOK

\* One component is an operation.
LEMMA OpOne ==
    ASSUME NEW o, CompOK(o)
    PROVE  OpOK(<<o>>) /\ Len(<<o>>) = 1 /\ <<o>>[1] = o
<1>1. IsSeq(<<o>>) /\ Len(<<o>>) = 1 /\ <<o>>[1] = o
    BY IsSeqOne
<1>2. DOMAIN <<o>> = 1..1
    BY <1>1, IsSeqLen
<1> QED BY <1>1, <1>2 DEF OpOK

\* Two operations, one after the other, are one: the components keep their order.
LEMMA OpConcat ==
    ASSUME NEW p, NEW q, OpOK(p), OpOK(q)
    PROVE  /\ OpOK(p \o q)
           /\ Len(p \o q) = Len(p) + Len(q)
           /\ Len(p) \in Nat /\ Len(q) \in Nat
           /\ \A k \in 1..Len(p) : (p \o q)[k] = p[k]
           /\ \A k \in 1..Len(q) : (p \o q)[Len(p) + k] = q[k]
<1> DEFINE r == p \o q
<1>1. /\ IsSeq(p) /\ Len(p) \in Nat /\ \A k \in 1..Len(p) : CompOK(p[k])
      /\ IsSeq(q) /\ Len(q) \in Nat /\ \A k \in 1..Len(q) : CompOK(q[k])
    BY OpIndex
<1>2. /\ IsSeq(r) /\ Len(r) = Len(p) + Len(q)
      /\ \A i \in 1..Len(r) : r[i] = IF i <= Len(p) THEN p[i] ELSE q[i - Len(p)]
    BY <1>1, IsSeqConcat
<1>3. DOMAIN r = 1..Len(r)
    BY <1>2, IsSeqLen
<1> HIDE DEF r
<1>4. \A k \in 1..Len(p) : r[k] = p[k]
    BY <1>1, <1>2
<1>5. ASSUME NEW k \in 1..Len(q) PROVE r[Len(p) + k] = q[k]
  <2> DEFINE j == Len(p) + k
  <2>1. j \in 1..Len(r) /\ ~(j <= Len(p)) /\ j - Len(p) = k
      BY <1>1, <1>2
  <2> HIDE DEF j
  <2>2. r[j] = q[k]
      BY <1>2, <2>1
  <2> QED BY <2>2 DEF j
<1>6. \A i \in 1..Len(r) : CompOK(r[i])
    BY <1>1, <1>2
<1> QED BY <1>1, <1>2, <1>3, <1>4, <1>5, <1>6 DEF r, OpOK

\* One turn of the recursion of LengthAt.
LengthStep(op, kinds, before, k) ==
    before + (IF op[k].kind \in kinds THEN CompLen(op[k]) ELSE 0)

\* LengthAt is the function its definition describes.
LEMMA LengthUnfold ==
    ASSUME NEW op, IsSeq(op), NEW kinds
    PROVE  LET at == LengthAt(op, kinds)
           IN  /\ at[0] = 0
               /\ \A k \in 1..Len(op) : at[k] = LengthStep(op, kinds, at[k - 1], k)
<1> DEFINE N == Len(op)
           Step(v, k) == LengthStep(op, kinds, v, k)
           Loop(f, n) == f = [k \in 0..n |-> IF k = 0 THEN 0 ELSE Step(f[k - 1], k)]
           S == {n \in 0..N : \E f : Loop(f, n)}
           at == CHOOSE f : Loop(f, N)
<1>1. N \in Nat
    BY IsSeqLen
<1>2. LengthAt(op, kinds) = at
    BY DEF LengthAt, LengthStep
<1> HIDE DEF N, Step
<1>3. 0 \in S
  <2>1. Loop([k \in 0..0 |-> 0], 0)
      OBVIOUS
  <2> HIDE DEF Loop
  <2> QED BY <1>1, <2>1
<1>4. ASSUME NEW n \in 0..(N - 1), n \in S PROVE n + 1 \in S
  <2>1. PICK f : Loop(f, n)
      BY <1>4
  <2> DEFINE g == [k \in 0..(n + 1) |-> IF k <= n THEN f[k] ELSE Step(f[n], n + 1)]
  <2>2. Loop(g, n + 1)
      BY <1>1, <2>1
  <2> HIDE DEF Loop
  <2> QED BY <1>1, <2>2
<1>5. N \in S
  <2> HIDE DEF S
  <2> QED BY <1>1, <1>3, <1>4, BoundedInduction
<1>6. Loop(at, N)
    BY <1>5
<1> HIDE DEF at
<1> QED BY <1>1, <1>2, <1>6 DEF N, Step

\* The lengths are numbers, and grow.
LEMMA LengthNat ==
    ASSUME NEW op, OpOK(op), NEW kinds
    PROVE  /\ \A k \in 0..Len(op) : LengthAt(op, kinds)[k] \in Nat
           /\ \A k \in 0..Len(op) : LengthAt(op, kinds)[k] <= LengthAt(op, kinds)[Len(op)]
<1> DEFINE at == LengthAt(op, kinds)
           N == Len(op)
           S == {n \in 0..N : at[n] \in Nat /\ \A k \in 0..n : at[k] \in Nat /\ at[k] <= at[n]}
<1>1. N \in Nat /\ \A k \in 1..N : CompLen(op[k]) \in Nat
    BY OpIndex, CompCases
<1>2. at[0] = 0 /\ \A k \in 1..N : at[k] = LengthStep(op, kinds, at[k - 1], k)
    BY OpIndex, LengthUnfold
<1> HIDE DEF at, N
<1>3. 0 \in S
    BY <1>1, <1>2
<1>4. ASSUME NEW n \in 0..(N - 1), n \in S PROVE n + 1 \in S
  <2>1. n + 1 \in 1..N /\ (n + 1) - 1 = n
      BY <1>1
  <2>2. at[n + 1] = at[n] + (IF op[n + 1].kind \in kinds THEN CompLen(op[n + 1]) ELSE 0)
      BY <1>2, <2>1 DEF LengthStep
  <2>3. at[n + 1] \in Nat /\ at[n] <= at[n + 1]
      BY <1>1, <1>4, <2>1, <2>2
  <2>4. \A k \in 0..(n + 1) : k \in 0..n \/ k = n + 1
      OBVIOUS
  <2>5. ASSUME NEW k \in 0..(n + 1)
        PROVE  at[k] \in Nat /\ at[k] <= at[n + 1]
    <3>1. CASE k = n + 1
        BY <2>3, <3>1
    <3>2. CASE k \in 0..n
      <4>1. \A j \in 0..n : at[j] \in Nat /\ at[j] <= at[n]
          BY <1>4
      <4>2. at[k] \in Nat /\ at[k] <= at[n] /\ at[n] \in Nat
          BY <1>4, <3>2, <4>1
      <4> DEFINE u == at[k]
                 v == at[n]
                 w == at[n + 1]
      <4>3. u \in Nat /\ v \in Nat /\ w \in Nat /\ u <= v /\ v <= w
          BY <2>3, <4>2
      <4> HIDE DEF u, v, w
      <4>4. u \in Nat /\ u <= w
          BY ONLY <4>3
      <4> QED BY <4>4 DEF u, w
    <3> QED BY <2>4, <3>1, <3>2
  <2> QED BY <1>1, <2>3, <2>5
<1>5. N \in S
  <2> HIDE DEF S
  <2> QED BY <1>1, <1>3, <1>4, BoundedInduction, SMTT(30)
<1> QED BY <1>5 DEF at, N

\* Lengths add up.
LEMMA LengthConcat ==
    ASSUME NEW p, NEW q, OpOK(p), OpOK(q), NEW kinds
    PROVE  /\ \A k \in 0..Len(p) : LengthAt(p \o q, kinds)[k] = LengthAt(p, kinds)[k]
           /\ \A k \in 0..Len(q) :
                 LengthAt(p \o q, kinds)[Len(p) + k]
                     = LengthAt(p, kinds)[Len(p)] + LengthAt(q, kinds)[k]
<1> DEFINE r == p \o q
           m == Len(p)
           n == Len(q)
           P(k) == LengthAt(p, kinds)[k]
           Q(k) == LengthAt(q, kinds)[k]
           R(k) == LengthAt(r, kinds)[k]
           A(o) == IF o.kind \in kinds THEN CompLen(o) ELSE 0
           S == {k \in 0..m : R(k) = P(k)}
           T == {k \in 0..n : R(m + k) = P(m) + Q(k)}
<1>1. /\ OpOK(r) /\ Len(r) = m + n /\ m \in Nat /\ n \in Nat
      /\ \A k \in 1..m : r[k] = p[k]
      /\ \A k \in 1..n : r[m + k] = q[k]
    BY OpConcat
<1>2. /\ P(0) = 0 /\ \A k \in 1..m : P(k) = P(k - 1) + A(p[k])
      /\ Q(0) = 0 /\ \A k \in 1..n : Q(k) = Q(k - 1) + A(q[k])
      /\ R(0) = 0 /\ \A k \in 1..(m + n) : R(k) = R(k - 1) + A(r[k])
  <2>1. IsSeq(p) /\ IsSeq(q) /\ IsSeq(r)
      BY <1>1, OpIndex
  <2>2. P(0) = 0 /\ \A k \in 1..m : P(k) = P(k - 1) + A(p[k])
      BY <2>1, LengthUnfold DEF LengthStep
  <2>3. Q(0) = 0 /\ \A k \in 1..n : Q(k) = Q(k - 1) + A(q[k])
      BY <2>1, LengthUnfold DEF LengthStep
  <2>4. R(0) = 0 /\ \A k \in 1..Len(r) : R(k) = R(k - 1) + A(r[k])
    <3> HIDE DEF r
    <3> QED BY <2>1, LengthUnfold DEF LengthStep
  <2>5. \A k \in 1..(m + n) : R(k) = R(k - 1) + A(r[k])
    <3> HIDE DEF r, R, A, m, n
    <3> QED BY <1>1, <2>4
  <2> QED BY <2>2, <2>3, <2>4, <2>5
<1>3. /\ \A k \in 0..m : P(k) \in Nat
      /\ \A k \in 0..n : Q(k) \in Nat
      /\ \A k \in 1..n : A(q[k]) \in Nat
    BY LengthNat, OpIndex, CompCases
<1> HIDE DEF r, m, n, P, Q, R, A
<1>4. 0..m \subseteq S
  <2>1. 0 \in S
      BY <1>1, <1>2
  <2>2. ASSUME NEW k \in 0..(m - 1), k \in S PROVE k + 1 \in S
    <3>1. k + 1 \in 1..m /\ k + 1 \in 1..(m + n) /\ (k + 1) - 1 = k
        BY <1>1
    <3>2. P(k + 1) = P(k) + A(p[k + 1]) /\ R(k + 1) = R(k) + A(r[k + 1])
        BY <1>2, <3>1
    <3> QED BY <1>1, <2>2, <3>1, <3>2
  <2> HIDE DEF S
  <2> QED BY <1>1, <2>1, <2>2, BoundedInduction
<1>5. 0..n \subseteq T
  <2>1. 0 \in T
      BY <1>1, <1>2, <1>3, <1>4
  <2>2. ASSUME NEW k \in 0..(n - 1), k \in T PROVE k + 1 \in T
    <3>1. /\ k + 1 \in 1..n /\ m + (k + 1) \in 1..(m + n)
          /\ (k + 1) - 1 = k /\ (m + (k + 1)) - 1 = m + k
        BY <1>1
    <3>2. /\ Q(k + 1) = Q(k) + A(q[k + 1])
          /\ R(m + (k + 1)) = R(m + k) + A(r[m + (k + 1)])
        BY <1>2, <3>1
    <3>3. r[m + (k + 1)] = q[k + 1]
        BY <1>1, <3>1
    <3>4. P(m) \in Nat /\ Q(k) \in Nat /\ A(q[k + 1]) \in Nat
        BY <1>1, <1>3, <3>1
    <3>5. R(m + (k + 1)) = P(m) + Q(k + 1)
        BY <2>2, <3>2, <3>3, <3>4
    <3> QED BY <3>1, <3>5
  <2> HIDE DEF T
  <2> QED BY <1>1, <2>1, <2>2, BoundedInduction
<1>6. \A k \in 0..m : R(k) = P(k)
    BY <1>4
<1>7. \A k \in 0..n : R(m + k) = P(m) + Q(k)
    BY <1>5
<1> QED BY <1>6, <1>7 DEF r, m, n, P, Q, R

\* Each component adds its own length.
LEMMA LengthNext ==
    ASSUME NEW op, OpOK(op), NEW kinds, NEW k \in 1..Len(op)
    PROVE  LET at == LengthAt(op, kinds)
           IN  /\ at[k - 1] \in Nat /\ at[k] \in Nat /\ at[k] <= at[Len(op)]
               /\ at[k] = at[k - 1] + (IF op[k].kind \in kinds THEN CompLen(op[k]) ELSE 0)
               /\ at[k - 1] <= at[k]
<1> DEFINE at == LengthAt(op, kinds)
<1>1. /\ Len(op) \in Nat /\ CompLen(op[k]) \in Nat
      /\ k \in 0..Len(op) /\ k - 1 \in 0..Len(op)
    BY OpIndex, CompCases
<1>2. at[k] = at[k - 1] + (IF op[k].kind \in kinds THEN CompLen(op[k]) ELSE 0)
    BY OpIndex, LengthUnfold DEF LengthStep
<1>3. at[k - 1] \in Nat /\ at[k] \in Nat /\ at[k] <= at[Len(op)]
  <2>1. \A j \in 0..Len(op) : at[j] \in Nat /\ at[j] <= at[Len(op)]
      BY LengthNat
  <2> HIDE DEF at
  <2> QED BY <1>1, <2>1
<1> HIDE DEF at
<1>4. at[k - 1] <= at[k]
    BY <1>1, <1>2, <1>3
<1> QED BY <1>2, <1>3, <1>4 DEF at

---------------------------------------------------------------------------
(* What Apply does, one component at a time.                               *)

\* What the k-th component of op contributes to the result.
PieceAt(op, k, doc) ==
    CASE op[k].kind = "retain" -> Covered(op, k, doc)
      [] op[k].kind = "delete" -> << >>
      [] op[k].kind = "insert" -> op[k].s

\* out holds the results of applying the first components of op to doc.
Applying(op, doc, out) ==
    /\ out[0] = << >>
    /\ \A k \in 1..Len(op) : out[k] = out[k - 1] \o PieceAt(op, k, doc)
    /\ Apply(op, doc) = out[Len(op)]

\* Apply is the function its definition describes.
LEMMA ApplyUnfold ==
    ASSUME NEW op, IsSeq(op), NEW doc
    PROVE  \E out : Applying(op, doc, out)
<1> DEFINE N == Len(op)
           Step(v, k) == v \o PieceAt(op, k, doc)
           Loop(f, n) == f = [k \in 0..n |-> IF k = 0 THEN << >> ELSE Step(f[k - 1], k)]
           S == {n \in 0..N : \E f : Loop(f, n)}
           out == CHOOSE f : Loop(f, N)
<1>1. N \in Nat
    BY IsSeqLen
<1>2. Apply(op, doc) = out[N]
    BY DEF Apply, PieceAt
<1> HIDE DEF N, Step
<1>3. 0 \in S
  <2>1. Loop([k \in 0..0 |-> << >>], 0)
      OBVIOUS
  <2> HIDE DEF Loop
  <2> QED BY <1>1, <2>1
<1>4. ASSUME NEW n \in 0..(N - 1), n \in S PROVE n + 1 \in S
  <2>1. PICK f : Loop(f, n)
      BY <1>4
  <2> DEFINE g == [k \in 0..(n + 1) |-> IF k <= n THEN f[k] ELSE Step(f[n], n + 1)]
  <2>2. Loop(g, n + 1)
      BY <1>1, <2>1
  <2> HIDE DEF Loop
  <2> QED BY <1>1, <2>2
<1>5. N \in S
  <2> HIDE DEF S
  <2> QED BY <1>1, <1>3, <1>4, BoundedInduction
<1>6. Loop(out, N)
    BY <1>5
<1> HIDE DEF out
<1>7. out[0] = << >> /\ \A k \in 1..N : out[k] = Step(out[k - 1], k)
    BY <1>1, <1>6
<1> QED BY <1>2, <1>7 DEF N, Step, Applying

\* What a component contributes is a sequence, as long as what it keeps.
LEMMA PieceOK ==
    ASSUME NEW op, OpOK(op), NEW doc, IsSeq(doc), Len(doc) = BaseLen(op),
           NEW k \in 1..Len(op)
    PROVE  /\ IsSeq(PieceAt(op, k, doc))
           /\ Len(PieceAt(op, k, doc))
                 = IF op[k].kind \in {"retain", "insert"} THEN CompLen(op[k]) ELSE 0
           /\ BaseAt(op)[k - 1] + 1 \in Nat \ {0}
           /\ BaseAt(op)[k] \in BaseAt(op)[k - 1]..Len(doc)
<1> DEFINE at == BaseAt(op)
           from == at[k - 1]
           to == at[k]
           o == op[k]
<1>1. /\ from \in Nat /\ to \in Nat /\ from <= to /\ to <= Len(doc)
      /\ to = from + (IF o.kind \in {"retain", "delete"} THEN CompLen(o) ELSE 0)
  <2>1. /\ from \in Nat /\ to \in Nat /\ from <= to /\ to <= at[Len(op)]
        /\ to = from + (IF o.kind \in {"retain", "delete"} THEN CompLen(o) ELSE 0)
      BY LengthNext DEF BaseAt
  <2> QED BY <2>1 DEF BaseLen
<1>2. Len(doc) \in Nat
    BY IsSeqLen
<1>3. /\ IsSeq(SubSeq(doc, from + 1, to))
      /\ Len(SubSeq(doc, from + 1, to)) = to - from
  <2> HIDE DEF from, to
  <2>1. from + 1 \in Nat \ {0} /\ to \in ((from + 1) - 1)..Len(doc)
      BY <1>1, <1>2
  <2>2. /\ IsSeq(SubSeq(doc, from + 1, to))
        /\ Len(SubSeq(doc, from + 1, to)) = to - (from + 1) + 1
      BY <2>1, SegmentOK
  <2> QED BY <1>1, <2>2
<1>4. /\ \/ o.kind = "retain" /\ o.n \in Nat
         \/ o.kind = "delete"
         \/ o.kind = "insert" /\ IsSeq(o.s)
      /\ CompLen(o) \in Nat
    BY OpIndex, CompCases
<1>5. PieceAt(op, k, doc) = CASE o.kind = "retain" -> SubSeq(doc, from + 1, to)
                            [] o.kind = "delete" -> << >>
                            [] o.kind = "insert" -> o.s
    BY DEF PieceAt, Covered
<1> HIDE DEF from, to, o
<1> DEFINE piece == PieceAt(op, k, doc)
           kept == IF o.kind \in {"retain", "insert"} THEN CompLen(o) ELSE 0
<1>6. IsSeq(piece) /\ Len(piece) = kept
  <2> HIDE DEF piece
  <2>1. CASE o.kind = "retain"
    <3>1. to - from = CompLen(o)
        BY <1>1, <1>4, <2>1
    <3> QED BY <1>3, <1>5, <2>1, <3>1 DEF piece
  <2>2. CASE o.kind = "delete"
      BY <1>5, <2>2, IsSeqEmpty DEF piece
  <2>3. CASE o.kind = "insert"
      BY <1>4, <1>5, <2>3 DEF piece, CompLen
  <2> QED BY <1>4, <2>1, <2>2, <2>3
<1>7. from + 1 \in Nat \ {0} /\ to \in from..Len(doc)
    BY <1>1, <1>2
<1> QED BY <1>6, <1>7 DEF from, to, o

\* The results of applying the first components, and their lengths.
LEMMA ApplyingOK ==
    ASSUME NEW op, OpOK(op), NEW doc, IsSeq(doc), Len(doc) = BaseLen(op),
           NEW out, Applying(op, doc, out)
    PROVE  /\ \A k \in 0..Len(op) : IsSeq(out[k])
           /\ Len(out[Len(op)]) = TargetLen(op)
<1> DEFINE N == Len(op)
           at == LengthAt(op, {"retain", "insert"})
           S == {n \in 0..N : IsSeq(out[n]) /\ Len(out[n]) = at[n]}
<1>1. N \in Nat /\ at[0] = 0
    BY OpIndex, LengthUnfold
<1>2. ASSUME NEW k \in 1..N
      PROVE  /\ IsSeq(PieceAt(op, k, doc))
             /\ at[k] = at[k - 1] + Len(PieceAt(op, k, doc))
  <2>1. /\ IsSeq(PieceAt(op, k, doc))
        /\ Len(PieceAt(op, k, doc))
              = IF op[k].kind \in {"retain", "insert"} THEN CompLen(op[k]) ELSE 0
      BY PieceOK
  <2>2. at[k] = at[k - 1] + (IF op[k].kind \in {"retain", "insert"} THEN CompLen(op[k]) ELSE 0)
      BY LengthNext
  <2> HIDE DEF at
  <2> QED BY <2>1, <2>2
<1>3. \A k \in 1..N : out[k] = out[k - 1] \o PieceAt(op, k, doc)
    BY DEF Applying
<1> HIDE DEF N, at
<1>4. 0 \in S
    BY <1>1, IsSeqEmpty DEF Applying
<1>5. ASSUME NEW n \in 0..(N - 1), n \in S PROVE n + 1 \in S
  <2>1. n + 1 \in 1..N /\ (n + 1) - 1 = n
      BY <1>1
  <2>2. /\ out[n + 1] = out[n] \o PieceAt(op, n + 1, doc)
        /\ IsSeq(PieceAt(op, n + 1, doc))
        /\ at[n + 1] = at[n] + Len(PieceAt(op, n + 1, doc))
      BY <1>2, <1>3, <2>1
  <2> DEFINE x == out[n]
             y == PieceAt(op, n + 1, doc)
  <2>4. IsSeq(x) /\ Len(x) = at[n]
      BY <1>5
  <2> HIDE DEF x, y
  <2>5. IsSeq(x \o y) /\ Len(x \o y) = Len(x) + Len(y)
      BY <2>2, <2>4, IsSeqConcat DEF y
  <2>3. IsSeq(out[n + 1]) /\ Len(out[n + 1]) = at[n + 1]
      BY <2>2, <2>4, <2>5 DEF x, y
  <2> QED BY <1>1, <2>1, <2>3
<1>6. 0..N \subseteq S
  <2> HIDE DEF S
  <2> QED BY <1>1, <1>4, <1>5, BoundedInduction
<1>7. \A k \in 0..N : IsSeq(out[k])
    BY <1>6
<1>8. Len(out[N]) = at[N]
    BY <1>1, <1>6
<1> QED BY <1>7, <1>8 DEF N, at, TargetLen

\* The pieces of an operation made of two are the pieces of each on its part.
LEMMA PieceConcat ==
    ASSUME NEW p, NEW q, OpOK(p), OpOK(q),
           NEW x, NEW y, IsSeq(x), IsSeq(y),
           Len(x) = BaseLen(p), Len(y) = BaseLen(q)
    PROVE  /\ \A k \in 1..Len(p) : PieceAt(p \o q, k, x \o y) = PieceAt(p, k, x)
           /\ \A k \in 1..Len(q) : PieceAt(p \o q, Len(p) + k, x \o y) = PieceAt(q, k, y)
<1> DEFINE r == p \o q
           d == x \o y
           m == Len(p)
           n == Len(q)
<1>1. /\ OpOK(r) /\ Len(r) = m + n /\ m \in Nat /\ n \in Nat
      /\ \A k \in 1..m : r[k] = p[k]
      /\ \A k \in 1..n : r[m + k] = q[k]
    BY OpConcat
<1>2. /\ \A k \in 0..m : BaseAt(r)[k] = BaseAt(p)[k]
      /\ \A k \in 0..n : BaseAt(r)[m + k] = Len(x) + BaseAt(q)[k]
    BY LengthConcat DEF BaseAt, BaseLen
<1> HIDE DEF r, d, m, n
<1>3. ASSUME NEW k \in 1..m PROVE PieceAt(r, k, d) = PieceAt(p, k, x)
  <2>1. /\ k \in 0..m /\ k - 1 \in 0..m
      BY <1>1
  <2>2. /\ BaseAt(p)[k - 1] + 1 \in Nat \ {0}
        /\ BaseAt(p)[k] \in BaseAt(p)[k - 1]..Len(x)
      BY PieceOK DEF m
  <2> DEFINE from == BaseAt(p)[k - 1] + 1
             to == BaseAt(p)[k]
  <2>3. to \in (from - 1)..Len(x)
    <3>1. BaseAt(p)[k - 1] \in Nat
        BY <2>1, LengthNat DEF BaseAt, m
    <3> QED BY <2>2, <3>1
  <2>4. Covered(r, k, d) = SubSeq(d, from, to) /\ Covered(p, k, x) = SubSeq(x, from, to)
      BY <1>2, <2>1 DEF Covered
  <2> HIDE DEF from, to
  <2>5. SubSeq(d, from, to) = SubSeq(x, from, to)
      BY <2>2, <2>3, SegmentLeft DEF d, from
  <2>6. Covered(r, k, d) = Covered(p, k, x) /\ r[k] = p[k]
      BY <1>1, <2>4, <2>5
  <2> QED BY <2>6 DEF PieceAt
<1>4. ASSUME NEW k \in 1..n PROVE PieceAt(r, m + k, d) = PieceAt(q, k, y)
  <2>1. /\ k \in 0..n /\ k - 1 \in 0..n /\ (m + k) - 1 = m + (k - 1)
      BY <1>1
  <2>2. /\ BaseAt(q)[k - 1] + 1 \in Nat \ {0}
        /\ BaseAt(q)[k] \in BaseAt(q)[k - 1]..Len(y)
      BY PieceOK DEF n
  <2> DEFINE from == BaseAt(q)[k - 1] + 1
             to == BaseAt(q)[k]
  <2>3. to \in (from - 1)..Len(y)
    <3>1. BaseAt(q)[k - 1] \in Nat
        BY <2>1, LengthNat DEF BaseAt, n
    <3> QED BY <2>2, <3>1
  <2>4. /\ BaseAt(r)[(m + k) - 1] = Len(x) + BaseAt(q)[k - 1]
        /\ BaseAt(r)[m + k] = Len(x) + BaseAt(q)[k]
      BY <1>2, <2>1
  <2>5. Covered(r, m + k, d) = SubSeq(d, Len(x) + from, Len(x) + to)
    <3>1. Covered(r, m + k, d) = SubSeq(d, BaseAt(r)[(m + k) - 1] + 1, BaseAt(r)[m + k])
        BY DEF Covered
    <3>2. (Len(x) + BaseAt(q)[k - 1]) + 1 = Len(x) + from
      <4>1. Len(x) \in Nat /\ BaseAt(q)[k - 1] \in Int
          BY <2>2, LengthNat, <2>1, IsSeqLen DEF BaseAt, n
      <4> QED BY <4>1
    <3> HIDE DEF from
    <3> QED BY <2>4, <3>1, <3>2
  <2>6. Covered(q, k, y) = SubSeq(y, from, to)
      BY DEF Covered
  <2> HIDE DEF from, to
  <2>7. SubSeq(d, Len(x) + from, Len(x) + to) = SubSeq(y, from, to)
      BY <2>2, <2>3, SegmentRight DEF d, from
  <2>8. Covered(r, m + k, d) = Covered(q, k, y) /\ r[m + k] = q[k]
      BY <1>1, <2>5, <2>6, <2>7
  <2> QED BY <2>8 DEF PieceAt
<1> QED BY <1>3, <1>4 DEF r, d, m, n

\* An operation made of two does to each part what each of them does.
LEMMA ApplyConcat ==
    ASSUME NEW p, NEW q, OpOK(p), OpOK(q),
           NEW x, NEW y, IsSeq(x), IsSeq(y),
           Len(x) = BaseLen(p), Len(y) = BaseLen(q)
    PROVE  Apply(p \o q, x \o y) = Apply(p, x) \o Apply(q, y)
<1> DEFINE r == p \o q
           d == x \o y
           m == Len(p)
           n == Len(q)
<1>1. OpOK(r) /\ Len(r) = m + n /\ m \in Nat /\ n \in Nat
    BY OpConcat
<1>2. /\ \A k \in 1..m : PieceAt(r, k, d) = PieceAt(p, k, x)
      /\ \A k \in 1..n : PieceAt(r, m + k, d) = PieceAt(q, k, y)
    BY PieceConcat
<1>3. PICK f : Applying(p, x, f)
    BY OpIndex, ApplyUnfold
<1>4. PICK g : Applying(q, y, g)
    BY OpIndex, ApplyUnfold
<1> HIDE DEF r, d, m, n
<1>5. PICK h : Applying(r, d, h)
    BY <1>1, OpIndex, ApplyUnfold
<1>6. /\ \A k \in 0..m : IsSeq(f[k])
      /\ \A k \in 0..n : IsSeq(g[k])
      /\ \A k \in 1..n : IsSeq(PieceAt(q, k, y))
    BY <1>3, <1>4, ApplyingOK, PieceOK DEF m, n
<1> DEFINE F(k) == f[k]
           G(k) == f[m] \o g[k]
           H(k) == h[k]
           S == {k \in 0..m : H(k) = F(k)}
           T == {k \in 0..n : H(m + k) = G(k)}
<1>7. 0..m \subseteq S
  <2>1. H(0) = F(0)
      BY <1>3, <1>5 DEF Applying
  <2>2. ASSUME NEW k \in 0..(m - 1), H(k) = F(k) PROVE H(k + 1) = F(k + 1)
    <3>1. k + 1 \in 1..m /\ k + 1 \in 1..Len(r) /\ (k + 1) - 1 = k
        BY <1>1
    <3>2. /\ f[k + 1] = f[k] \o PieceAt(p, k + 1, x)
          /\ h[k + 1] = h[k] \o PieceAt(r, k + 1, d)
        BY <1>3, <1>5, <3>1 DEF Applying, m
    <3> QED BY <1>2, <2>2, <3>1, <3>2
  <2> HIDE DEF F, H
  <2>3. 0 \in S /\ \A k \in 0..(m - 1) : k \in S => k + 1 \in S
      BY <1>1, <2>1, <2>2
  <2> HIDE DEF S
  <2> QED BY <1>1, <2>3, BoundedInduction
<1>8. 0..n \subseteq T
  <2>1. H(m + 0) = G(0)
    <3>1. h[m] = f[m] /\ IsSeq(f[m]) /\ m + 0 = m
      <4>1. m \in 0..m
          BY <1>1
      <4> QED BY <1>1, <1>6, <1>7, <4>1
    <3>2. f[m] \o g[0] = f[m]
        BY <1>4, <3>1, IsSeqUnit DEF Applying
    <3> QED BY <3>1, <3>2
  <2>2. ASSUME NEW k \in 0..(n - 1), H(m + k) = G(k) PROVE H(m + (k + 1)) = G(k + 1)
    <3>1. /\ k + 1 \in 1..n /\ m + (k + 1) \in 1..Len(r) /\ m \in 0..m /\ k \in 0..n
          /\ (k + 1) - 1 = k /\ (m + (k + 1)) - 1 = m + k
        BY <1>1
    <3> DEFINE s == f[m]
               t == g[k]
               u == PieceAt(q, k + 1, y)
    <3>2. g[k + 1] = t \o u
        BY <1>4, <3>1 DEF Applying, n
    <3>3. h[m + (k + 1)] = h[m + k] \o PieceAt(r, m + (k + 1), d)
        BY <1>5, <3>1 DEF Applying
    <3>4. h[m + (k + 1)] = (s \o t) \o u
        BY <1>2, <2>2, <3>1, <3>3
    <3>5. IsSeq(s) /\ IsSeq(t) /\ IsSeq(u)
        BY <1>6, <3>1
    <3> HIDE DEF s, t, u
    <3>6. (s \o t) \o u = s \o (t \o u)
        BY ONLY <3>5, IsSeqAssoc
    <3>7. h[m + (k + 1)] = s \o g[k + 1]
        BY <3>2, <3>4, <3>6
    <3> QED BY <3>7 DEF s
  <2> HIDE DEF G, H
  <2>3. 0 \in T /\ \A k \in 0..(n - 1) : k \in T => k + 1 \in T
      BY <1>1, <2>1, <2>2
  <2> HIDE DEF T
  <2> QED BY <1>1, <2>3, BoundedInduction
<1>9. H(m + n) = G(n)
  <2> HIDE DEF G, H
  <2> QED BY <1>1, <1>8
<1>10. Apply(r, d) = h[m + n] /\ Apply(p, x) = f[m] /\ Apply(q, y) = g[n]
    BY <1>1, <1>3, <1>4, <1>5 DEF Applying, m, n
<1> QED BY <1>9, <1>10 DEF r, d

---------------------------------------------------------------------------
(* What an operation does to a document, as a relation.                    *)

\* Every component of op begins and ends between two characters of d, and what
\* it inserts is a text.
Whole(op, d) ==
    /\ ValidUTF8(d)
    /\ \A k \in 0..Len(op) : IsBoundary(d, BaseAt(op)[k])
    /\ \A k \in 1..Len(op) : op[k].kind = "insert" => ValidUTF8(op[k].s)

\* op applies to the text d, and makes e of it.
Does(op, d, e) ==
    /\ OpOK(op) /\ IsSeq(d) /\ IsSeq(e)
    /\ Len(d) = BaseLen(op)
    /\ Apply(op, d) = e
    /\ Whole(op, d)

\* What an operation does has the operation's target length.
LEMMA DoesTarget ==
    ASSUME NEW op, NEW d, NEW e, Does(op, d, e)
    PROVE  /\ OpOK(op) /\ IsSeq(d) /\ IsSeq(e)
           /\ Len(d) = BaseLen(op) /\ Len(e) = TargetLen(op)
           /\ e = Apply(op, d)
<1>1. PICK out : Applying(op, d, out)
    BY OpIndex, ApplyUnfold DEF Does
<1>2. Len(Apply(op, d)) = TargetLen(op)
    BY <1>1, ApplyingOK DEF Does, Applying
<1> QED BY <1>2 DEF Does

\* An operation as long as the document, which cuts no character of it, does
\* something to it.
LEMMA DoesSome ==
    ASSUME NEW op, NEW d, OpOK(op), IsSeq(d), Len(d) = BaseLen(op), Whole(op, d)
    PROVE  Does(op, d, Apply(op, d))
<1>1. PICK out : Applying(op, d, out)
    BY OpIndex, ApplyUnfold
<1>2. IsSeq(Apply(op, d))
  <2>1. Len(op) \in 0..Len(op)
      BY OpIndex
  <2> QED BY <1>1, <2>1, ApplyingOK DEF Applying
<1> QED BY <1>2 DEF Does

\* An operation that cuts no character makes a text of a text (apply.go, "this
\* last check ... closes the gap").
LEMMA WholeMakesText ==
    ASSUME NEW op, NEW d, OpOK(op), IsSeq(d), Len(d) = BaseLen(op), Whole(op, d)
    PROVE  ValidUTF8(Apply(op, d))
<1> DEFINE N == Len(op)
<1>1. PICK out : Applying(op, d, out)
    BY OpIndex, ApplyUnfold
<1> DEFINE S == {n \in 0..N : ValidUTF8(out[n])}
<1>2. /\ N \in Nat /\ out[0] = << >> /\ Apply(op, d) = out[N]
      /\ \A k \in 1..N : out[k] = out[k - 1] \o PieceAt(op, k, d)
      /\ \A k \in 0..N : IsSeq(out[k])
    BY <1>1, OpIndex, ApplyingOK DEF Applying
<1>3. ASSUME NEW k \in 1..N
      PROVE  IsSeq(PieceAt(op, k, d)) /\ ValidUTF8(PieceAt(op, k, d))
  <2> DEFINE from == BaseAt(op)[k - 1]
             to == BaseAt(op)[k]
  <2>1. /\ IsSeq(PieceAt(op, k, d))
        /\ from + 1 \in Nat \ {0} /\ to \in from..Len(d)
      BY PieceOK
  <2>2. CompOK(op[k]) /\ k - 1 \in 0..N /\ k \in 0..N
      BY <1>2, OpIndex
  <2>3. IsBoundary(d, from) /\ IsBoundary(d, to)
      BY <2>2 DEF Whole
  <2>4. from \in 0..to /\ to \in 0..Len(d)
    <3>1. from \in 0..Len(d)
        BY <2>3 DEF IsBoundary
    <3>2. Len(d) \in Nat
        BY IsSeqLen
    <3> HIDE DEF from, to
    <3> QED BY <2>1, <3>1, <3>2
  <2> HIDE DEF from, to
  <2>5. ValidUTF8(SubSeq(d, from + 1, to))
      BY <2>3, <2>4, ValidSegment DEF Whole
  <2>6. Covered(op, k, d) = SubSeq(d, from + 1, to)
      BY DEF Covered, from, to
  <2>7. op[k].kind = "insert" => ValidUTF8(op[k].s)
      BY DEF Whole
  <2> QED BY <2>1, <2>2, <2>5, <2>6, <2>7, CompCases, ValidNone DEF PieceAt
<1> HIDE DEF N
<1>4. 0 \in S
    BY <1>2, ValidNone
<1>5. ASSUME NEW n \in 0..(N - 1), n \in S PROVE n + 1 \in S
  <2>1. n + 1 \in 1..N /\ n + 1 \in 0..N /\ (n + 1) - 1 = n /\ n \in 0..N
      BY <1>2
  <2> DEFINE x == out[n]
             y == PieceAt(op, n + 1, d)
  <2>2. out[n + 1] = Cat(x, y) /\ IsSeq(x) /\ IsSeq(y) /\ ValidUTF8(x) /\ ValidUTF8(y)
      BY <1>2, <1>3, <1>5, <2>1 DEF Cat
  <2> HIDE DEF x, y
  <2>3. ValidUTF8(out[n + 1])
      BY <2>2, ValidCat
  <2> QED BY <2>1, <2>3
<1>6. N \in S
  <2> HIDE DEF S
  <2>1. 0..N \subseteq S
      BY <1>2, <1>4, <1>5, BoundedInduction
  <2> QED BY <1>2, <2>1
<1> QED BY <1>2, <1>6

\* What an operation does leads from a text to a text.
LEMMA DoesTexts ==
    ASSUME NEW op, NEW d, NEW e, Does(op, d, e)
    PROVE  ValidUTF8(d) /\ ValidUTF8(e)
BY WholeMakesText DEF Does, Whole

\* The empty operation does nothing, to the empty document.
LEMMA DoesEmpty ==
    ASSUME NEW d, NEW e
    PROVE  Does(<< >>, d, e) <=> d = << >> /\ e = << >>
<1>1. BaseLen(<< >>) = 0 /\ BaseAt(<< >>)[0] = 0
    BY OpEmpty, IsSeqEmpty, LengthUnfold DEF BaseLen, BaseAt
<1>2. Apply(<< >>, d) = << >>
    BY OpEmpty, IsSeqEmpty, ApplyUnfold DEF Applying
<1>3. Whole(<< >>, << >>)
  <2>1. Len(<< >>) = 0 /\ \A k \in 0..0 : k = 0
      BY IsSeqEmpty
  <2>2. IsBoundary(<< >>, 0)
      BY <2>1 DEF IsBoundary
  <2>3. \A k \in 0..Len(<< >>) : IsBoundary(<< >>, BaseAt(<< >>)[k])
      BY <1>1, <2>1, <2>2
  <2>4. \A k \in 1..Len(<< >>) : FALSE
      BY <2>1
  <2> QED BY <2>3, <2>4, ValidNone DEF Whole
<1>4. ASSUME Does(<< >>, d, e) PROVE d = << >> /\ e = << >>
    BY <1>1, <1>2, <1>4, IsSeqNone DEF Does
<1>5. ASSUME d = << >>, e = << >> PROVE Does(<< >>, d, e)
    BY <1>1, <1>2, <1>3, <1>5, OpEmpty, IsSeqEmpty DEF Does
<1> QED BY <1>4, <1>5

\* The lengths of an operation made of two.
LEMMA BaseLenConcat ==
    ASSUME NEW p, NEW q, OpOK(p), OpOK(q)
    PROVE  /\ BaseLen(p \o q) = BaseLen(p) + BaseLen(q)
           /\ BaseLen(p) \in Nat /\ BaseLen(q) \in Nat
<1> DEFINE r == p \o q
<1>1. Len(r) = Len(p) + Len(q) /\ Len(q) \in 0..Len(q) /\ Len(p) \in 0..Len(p)
    BY OpConcat
<1>2. BaseAt(r)[Len(p) + Len(q)] = BaseAt(p)[Len(p)] + BaseAt(q)[Len(q)]
    BY <1>1, LengthConcat DEF BaseAt
<1>3. BaseAt(p)[Len(p)] \in Nat /\ BaseAt(q)[Len(q)] \in Nat
    BY <1>1, LengthNat DEF BaseAt
<1> HIDE DEF r
<1>4. BaseLen(r) = BaseLen(p) + BaseLen(q)
    BY <1>1, <1>2 DEF BaseLen
<1> QED BY <1>3, <1>4 DEF BaseLen, r

\* Two operations cut no character if each cuts none of its part.
LEMMA WholeConcat ==
    ASSUME NEW p, NEW q, OpOK(p), OpOK(q), NEW x, NEW y, IsSeq(x), IsSeq(y),
           Len(x) = BaseLen(p), Len(y) = BaseLen(q)
    PROVE  Whole(Cat(p, q), Cat(x, y)) <=> Whole(p, x) /\ Whole(q, y)
<1> DEFINE r == Cat(p, q)
           d == Cat(x, y)
           m == Len(p)
           n == Len(q)
           P(k) == BaseAt(p)[k]
           Q(k) == BaseAt(q)[k]
           R(k) == BaseAt(r)[k]
<1>1. /\ Len(r) = m + n /\ m \in Nat /\ n \in Nat
      /\ \A k \in 1..m : r[k] = p[k]
      /\ \A k \in 1..n : r[m + k] = q[k]
    BY OpConcat DEF Cat
<1>2. /\ \A k \in 0..m : R(k) = P(k)
      /\ \A k \in 0..n : R(m + k) = P(m) + Q(k)
    BY LengthConcat DEF BaseAt, Cat
<1>3. /\ P(m) = Len(x) /\ P(0) = 0 /\ Q(0) = 0 /\ Q(n) = Len(y)
      /\ \A k \in 0..m : P(k) \in 0..Len(x)
      /\ \A k \in 0..n : Q(k) \in 0..Len(y)
  <2>1. BaseAt(p)[0] = 0 /\ BaseAt(q)[0] = 0
      BY OpIndex, LengthUnfold DEF BaseAt
  <2>2. /\ \A k \in 0..m : BaseAt(p)[k] \in Nat /\ BaseAt(p)[k] <= BaseAt(p)[m]
        /\ \A k \in 0..n : BaseAt(q)[k] \in Nat /\ BaseAt(q)[k] <= BaseAt(q)[n]
      BY LengthNat DEF BaseAt
  <2>3. BaseAt(p)[m] = Len(x) /\ BaseAt(q)[n] = Len(y)
      BY DEF BaseLen
  <2>4. Len(x) \in Nat /\ Len(y) \in Nat
      BY IsSeqLen
  <2> HIDE DEF m, n
  <2> QED BY <2>1, <2>2, <2>3, <2>4
<1> HIDE DEF r, m, n, P, Q, R
<1>4. /\ \A i \in 0..Len(x) : IsBoundary(d, i) => IsBoundary(x, i)
      /\ ValidUTF8(y) => \A i \in 0..Len(x) : IsBoundary(x, i) => IsBoundary(d, i)
      /\ \A i \in 0..Len(y) : IsBoundary(d, Len(x) + i) <=> IsBoundary(y, i)
    BY CutsOfCat
<1> HIDE DEF d
<1>5. ASSUME ValidUTF8(d), \A k \in 0..Len(r) : IsBoundary(d, R(k))
      PROVE  /\ ValidUTF8(x) /\ \A k \in 0..m : IsBoundary(x, P(k))
             /\ ValidUTF8(y) /\ \A k \in 0..n : IsBoundary(y, Q(k))
  <2>1. m \in 0..m /\ m \in 0..Len(r)
      BY <1>1
  <2>2. IsBoundary(d, Len(x))
      BY <1>2, <1>3, <1>5, <2>1
  <2>3. ValidUTF8(x) /\ ValidUTF8(y)
      BY <1>5, <2>2, ValidCut DEF d
  <2>4. ASSUME NEW k \in 0..m PROVE IsBoundary(x, P(k))
    <3>1. k \in 0..Len(r)
        BY <1>1
    <3>2. IsBoundary(d, P(k))
        BY <1>2, <1>5, <3>1
    <3> QED BY <1>3, <1>4, <3>2
  <2>5. ASSUME NEW k \in 0..n PROVE IsBoundary(y, Q(k))
    <3>1. m + k \in 0..Len(r)
        BY <1>1
    <3>2. IsBoundary(d, Len(x) + Q(k))
        BY <1>2, <1>3, <1>5, <3>1
    <3> QED BY <1>3, <1>4, <3>2
  <2> QED BY <2>3, <2>4, <2>5
<1>6. ASSUME ValidUTF8(x), \A k \in 0..m : IsBoundary(x, P(k)),
             ValidUTF8(y), \A k \in 0..n : IsBoundary(y, Q(k))
      PROVE  ValidUTF8(d) /\ \A k \in 0..Len(r) : IsBoundary(d, R(k))
  <2>1. ValidUTF8(d)
      BY <1>6, ValidCat DEF d
  <2>2. ASSUME NEW k \in 0..Len(r) PROVE IsBoundary(d, R(k))
    <3>1. CASE k \in 0..m
      <4>1. P(k) \in 0..Len(x) /\ IsBoundary(x, P(k))
          BY <1>3, <1>6, <3>1
      <4>2. IsBoundary(d, P(k))
          BY <1>4, <1>6, <4>1
      <4> QED BY <1>2, <3>1, <4>2
    <3>2. CASE k \notin 0..m
      <4> DEFINE j == k - m
      <4>1. j \in 0..n /\ k = m + j
          BY <1>1, <3>2
      <4> HIDE DEF j
      <4>2. IsBoundary(y, Q(j)) /\ Q(j) \in 0..Len(y)
          BY <1>3, <1>6, <4>1
      <4>3. IsBoundary(d, Len(x) + Q(j))
          BY <1>4, <4>2
      <4> QED BY <1>2, <1>3, <4>1, <4>3
    <3> QED BY <3>1, <3>2
  <2> QED BY <2>1, <2>2
<1> DEFINE Fine(o) == o.kind = "insert" => ValidUTF8(o.s)
<1>7. (\A k \in 1..Len(r) : Fine(r[k]))
         <=> (\A k \in 1..m : Fine(p[k])) /\ (\A k \in 1..n : Fine(q[k]))
  <2> HIDE DEF Fine
  <2>1. ASSUME \A k \in 1..Len(r) : Fine(r[k]), NEW k \in 1..m PROVE Fine(p[k])
    <3>1. k \in 1..Len(r)
        BY <1>1
    <3> QED BY <1>1, <2>1, <3>1
  <2>2. ASSUME \A k \in 1..Len(r) : Fine(r[k]), NEW k \in 1..n PROVE Fine(q[k])
    <3>1. m + k \in 1..Len(r)
        BY <1>1
    <3> QED BY <1>1, <2>2, <3>1
  <2>3. ASSUME \A k \in 1..m : Fine(p[k]), \A k \in 1..n : Fine(q[k]),
               NEW k \in 1..Len(r)
        PROVE  Fine(r[k])
    <3>1. CASE k \in 1..m
        BY <1>1, <2>3, <3>1
    <3>2. CASE k \notin 1..m
      <4> DEFINE j == k - m
      <4>1. j \in 1..n /\ k = m + j
          BY <1>1, <3>2
      <4> HIDE DEF j
      <4> QED BY <1>1, <2>3, <4>1
    <3> QED BY <3>1, <3>2
  <2> QED BY <2>1, <2>2, <2>3
<1>8. Whole(r, d) <=> /\ ValidUTF8(d) /\ \A k \in 0..Len(r) : IsBoundary(d, R(k))
                      /\ \A k \in 1..Len(r) : Fine(r[k])
    BY DEF Whole, R
<1>9. Whole(p, x) <=> /\ ValidUTF8(x) /\ \A k \in 0..m : IsBoundary(x, P(k))
                      /\ \A k \in 1..m : Fine(p[k])
    BY DEF Whole, P, m
<1>10. Whole(q, y) <=> /\ ValidUTF8(y) /\ \A k \in 0..n : IsBoundary(y, Q(k))
                       /\ \A k \in 1..n : Fine(q[k])
    BY DEF Whole, Q, n
<1> HIDE DEF Fine
<1>11. Whole(r, d) <=> Whole(p, x) /\ Whole(q, y)
    BY <1>5, <1>6, <1>7, <1>8, <1>9, <1>10
<1> QED BY <1>11 DEF r, d

\* Two operations side by side.
LEMMA DoesConcat ==
    ASSUME NEW p, NEW x, NEW u, Does(p, x, u),
           NEW q, NEW y, NEW v, Does(q, y, v)
    PROVE  Does(Cat(p, q), Cat(x, y), Cat(u, v))
<1>1. OpOK(Cat(p, q))
    BY OpConcat DEF Does, Cat
<1>2. /\ IsSeq(Cat(x, y)) /\ Len(Cat(x, y)) = Len(x) + Len(y)
      /\ IsSeq(Cat(u, v))
    BY CatOK DEF Does
<1>3. BaseLen(Cat(p, q)) = BaseLen(p) + BaseLen(q)
    BY BaseLenConcat DEF Does, Cat
<1>4. Apply(Cat(p, q), Cat(x, y)) = Cat(Apply(p, x), Apply(q, y))
  <2>1. /\ OpOK(p) /\ OpOK(q) /\ IsSeq(x) /\ IsSeq(y)
        /\ Len(x) = BaseLen(p) /\ Len(y) = BaseLen(q)
      BY DEF Does
  <2>2. Apply(p \o q, x \o y) = Apply(p, x) \o Apply(q, y)
      BY <2>1, ApplyConcat
  <2> QED BY <2>2 DEF Cat
<1>5. Whole(Cat(p, q), Cat(x, y))
    BY WholeConcat DEF Does
<1> QED BY <1>1, <1>2, <1>3, <1>4, <1>5 DEF Does

\* An operation made of two cuts the document in two.
LEMMA DoesSplit ==
    ASSUME NEW p, NEW q, OpOK(p), OpOK(q),
           NEW d, NEW e, Does(Cat(p, q), d, e)
    PROVE  \E x, y, u, v : /\ Does(p, x, u) /\ Does(q, y, v)
                           /\ d = Cat(x, y) /\ e = Cat(u, v)
                           /\ IsSeq(x) /\ IsSeq(y) /\ IsSeq(u) /\ IsSeq(v)
<1>1. /\ BaseLen(Cat(p, q)) = BaseLen(p) + BaseLen(q)
      /\ BaseLen(p) \in Nat /\ BaseLen(q) \in Nat
    BY BaseLenConcat DEF Cat
<1>2. /\ IsSeq(d) /\ Len(d) = BaseLen(p) + BaseLen(q) /\ Apply(Cat(p, q), d) = e
    BY <1>1 DEF Does
<1>3. BaseLen(p) \in 0..Len(d)
    BY <1>1, <1>2
<1>4. PICK x, y : /\ IsSeq(x) /\ Len(x) = BaseLen(p)
                  /\ IsSeq(y) /\ Len(y) = Len(d) - BaseLen(p) /\ d = Cat(x, y)
    BY <1>2, <1>3, CatSplit
<1>5. Len(y) = BaseLen(q)
    BY <1>1, <1>2, <1>4
<1> DEFINE u == Apply(p, x)
           v == Apply(q, y)
<1>6. Does(p, x, u) /\ Does(q, y, v)
  <2>1. Whole(Cat(p, q), Cat(x, y))
      BY <1>4 DEF Does
  <2>2. Whole(p, x) /\ Whole(q, y)
      BY <1>4, <1>5, <2>1, WholeConcat
  <2> QED BY <1>4, <1>5, <2>2, DoesSome
<1>7. e = Cat(u, v)
  <2>1. Apply(p \o q, x \o y) = Apply(p, x) \o Apply(q, y)
      BY <1>4, <1>5, ApplyConcat
  <2> QED BY <1>2, <1>4, <2>1 DEF Cat
<1>8. IsSeq(u) /\ IsSeq(v)
    BY <1>6 DEF Does
<1> HIDE DEF u, v
<1> QED BY <1>4, <1>6, <1>7, <1>8

\* What one component does.
LEMMA DoesOne ==
    ASSUME NEW o, CompOK(o), NEW d, IsSeq(d), NEW e, IsSeq(e)
    PROVE  Does(<<o>>, d, e) <=>
              /\ ValidUTF8(d) /\ ValidUTF8(e)
              /\ \/ o.kind = "retain" /\ Len(d) = o.n /\ e = d
                 \/ o.kind = "delete" /\ Len(d) = o.n /\ e = << >>
                 \/ o.kind = "insert" /\ d = << >> /\ e = o.s
<1> DEFINE op == <<o>>
           n == Span(o)
<1>1. OpOK(op) /\ Len(op) = 1 /\ op[1] = o /\ IsSeq(op)
    BY OpOne, OpIndex
<1> HIDE DEF op
<1>2. CompLen(o) \in Nat /\ n \in Nat
    BY CompCases
<1>3. BaseAt(op)[0] = 0 /\ BaseAt(op)[1] = n
  <2>1. LET at == BaseAt(op)
        IN  /\ at[0] = 0
            /\ \A k \in 1..Len(op) : at[k] = LengthStep(op, {"retain", "delete"}, at[k - 1], k)
      BY <1>1, LengthUnfold DEF BaseAt
  <2>2. BaseAt(op)[1] = LengthStep(op, {"retain", "delete"}, 0, 1)
      BY <1>1, <2>1
  <2>3. BaseAt(op)[1] = IF o.kind \in {"retain", "delete"} THEN CompLen(o) ELSE 0
      BY <1>1, <1>2, <2>2 DEF LengthStep
  <2> QED BY <2>1, <2>3, CompCases DEF CompLen, Span
<1>4. BaseLen(op) = n
    BY <1>1, <1>3 DEF BaseLen
<1>5. ASSUME Len(d) = n PROVE Apply(op, d) = IF o.kind = "retain" THEN d
                                  ELSE IF o.kind = "insert" THEN o.s ELSE << >>
  <2>1. PICK out : Applying(op, d, out)
      BY <1>1, ApplyUnfold
  <2>2. Apply(op, d) = << >> \o PieceAt(op, 1, d)
    <3>1. out[0] = << >> /\ out[1] = out[1 - 1] \o PieceAt(op, 1, d) /\ Apply(op, d) = out[1]
        BY <1>1, <2>1 DEF Applying
    <3>2. 1 - 1 = 0
        OBVIOUS
    <3> QED BY <3>1, <3>2
  <2>3. IsSeq(PieceAt(op, 1, d))
      BY <1>1, <1>4, <1>5, PieceOK
  <2>4. Apply(op, d) = PieceAt(op, 1, d)
      BY <2>2, <2>3, IsSeqUnit
  <2>5. Covered(op, 1, d) = d
    <3>1. Covered(op, 1, d) = SubSeq(d, 0 + 1, Len(d))
        BY <1>3, <1>5 DEF Covered
    <3> QED BY <3>1, SegmentAll
  <2> QED BY <1>1, <2>4, <2>5, CompCases DEF PieceAt
<1>6. ASSUME Len(d) = n
      PROVE  Whole(op, d) <=> ValidUTF8(d) /\ (o.kind = "insert" => ValidUTF8(o.s))
  <2>1. ASSUME ValidUTF8(d) PROVE IsBoundary(d, 0) /\ IsBoundary(d, n)
    <3>1. ~GoesOn(d, 0)
        BY <2>1, ValidEnds
    <3> QED BY <1>2, <1>6, <3>1 DEF IsBoundary, GoesOn, RuneStart
  <2>2. (\A k \in 0..1 : k = 0 \/ k = 1) /\ (\A k \in 1..1 : k = 1) /\ 1 \in 1..1
      OBVIOUS
  <2>3. ValidUTF8(d) => \A k \in 0..Len(op) : IsBoundary(d, BaseAt(op)[k])
      BY <1>1, <1>3, <2>1, <2>2
  <2>4. (\A k \in 1..Len(op) : op[k].kind = "insert" => ValidUTF8(op[k].s))
            <=> (o.kind = "insert" => ValidUTF8(o.s))
      BY <1>1, <2>2
  <2> QED BY <2>3, <2>4 DEF Whole
<1>7. Does(op, d, e) <=> Len(d) = n /\ Apply(op, d) = e /\ Whole(op, d)
    BY <1>1, <1>4 DEF Does
<1>8. d = << >> <=> Len(d) = 0
    BY IsSeqNone
<1>9. CASE o.kind = "insert"
    BY <1>5, <1>6, <1>7, <1>8, <1>9, ValidNone DEF op, Span
<1>10. CASE o.kind # "insert"
    BY <1>5, <1>6, <1>7, <1>10, CompCases, ValidNone DEF op, Span
<1> QED BY <1>9, <1>10

\* A retain keeps the document.
LEMMA DoesRetainOne ==
    ASSUME NEW x, IsSeq(x), ValidUTF8(x), NEW n, n = Len(x), n # 0
    PROVE  Does(One(RetainComp(n)), x, x)
<1> DEFINE o == RetainComp(n)
<1>1. CompOK(o) /\ o.kind = "retain" /\ o.n = n
    BY IsSeqLen DEF CompOK, RetainComp
<1> HIDE DEF o
<1>2. Does(One(o), x, x)
    BY <1>1, DoesOne DEF One
<1> QED BY <1>2 DEF o

\* A delete leaves nothing of it.
LEMMA DoesDeleteOne ==
    ASSUME NEW x, IsSeq(x), ValidUTF8(x), NEW n, n = Len(x), n # 0
    PROVE  Does(One(DeleteComp(n)), x, << >>)
<1> DEFINE o == DeleteComp(n)
           e == << >>
<1>1. CompOK(o) /\ o.kind = "delete" /\ o.n = n /\ IsSeq(e)
    BY IsSeqLen, IsSeqEmpty DEF CompOK, DeleteComp
<1> HIDE DEF o
<1>2. Does(One(o), x, e)
    BY <1>1, DoesOne, ValidNone DEF One
<1> QED BY <1>2 DEF o

\* An insert makes a document of nothing.
LEMMA DoesInsertOne ==
    ASSUME NEW s, IsSeq(s), ValidUTF8(s), s # << >>
    PROVE  Does(One(InsertComp(s)), << >>, s)
<1> DEFINE o == InsertComp(s)
           d == << >>
<1>1. CompOK(o) /\ o.kind = "insert" /\ o.s = s /\ IsSeq(d)
    BY IsSeqEmpty DEF CompOK, InsertComp
<1> HIDE DEF o
<1>2. Does(One(o), d, s)
    BY <1>1, DoesOne, ValidNone DEF One
<1> QED BY <1>2 DEF o

---------------------------------------------------------------------------
(* What the builder adds to what an operation does.                        *)

\* A sequence with one element replaced.
LEMMA CatReplace ==
    ASSUME NEW p, NEW q, IsSeq(p), IsSeq(q), NEW a, NEW b
    PROVE  [Cat(p, Cat(One(a), q)) EXCEPT ![Len(p) + 1] = b] = Cat(p, Cat(One(b), q))
<1> DEFINE s == p \o (<<a>> \o q)
           t == p \o (<<b>> \o q)
           m == Len(p)
           N == m + (1 + Len(q))
<1>1. m \in Nat /\ Len(q) \in Nat
    BY IsSeqLen
<1>2. ASSUME NEW x
      PROVE  /\ IsSeq(p \o (<<x>> \o q)) /\ Len(p \o (<<x>> \o q)) = N
             /\ \A i \in 1..N : (p \o (<<x>> \o q))[i]
                    = IF i <= m THEN p[i] ELSE IF i = m + 1 THEN x ELSE q[i - m - 1]
  <2> DEFINE y == <<x>> \o q
             z == p \o y
  <2>1. IsSeq(<<x>>) /\ Len(<<x>>) = 1 /\ <<x>>[1] = x
      BY IsSeqOne
  <2>2. /\ IsSeq(y) /\ Len(y) = 1 + Len(q)
        /\ \A i \in 1..Len(y) : y[i] = IF i <= 1 THEN <<x>>[i] ELSE q[i - 1]
      BY <2>1, IsSeqConcat
  <2> HIDE DEF y
  <2>3. /\ IsSeq(z) /\ Len(z) = m + Len(y)
        /\ \A i \in 1..Len(z) : z[i] = IF i <= m THEN p[i] ELSE y[i - m]
      BY <2>2, IsSeqConcat
  <2> HIDE DEF z, m
  <2>4. ASSUME NEW i \in 1..N, ~(i <= m), i # m + 1 PROVE z[i] = q[i - m - 1]
    <3> DEFINE j == i - m
    <3>1. j \in 1..Len(y) /\ ~(j <= 1) /\ i \in 1..Len(z) /\ j - 1 = i - m - 1
        BY <1>1, <2>2, <2>3, <2>4
    <3>2. z[i] = y[j]
        BY <2>3, <2>4, <3>1
    <3> HIDE DEF j
    <3>3. y[j] = q[j - 1]
        BY <2>2, <3>1
    <3> QED BY <3>1, <3>2, <3>3
  <2>5. ASSUME NEW i \in 1..N, i <= m PROVE z[i] = p[i]
      BY <1>1, <2>2, <2>3, <2>5
  <2>6. z[m + 1] = x
    <3>1. m + 1 \in 1..Len(z) /\ ~(m + 1 <= m) /\ (m + 1) - m = 1 /\ 1 \in 1..Len(y)
        BY <1>1, <2>2, <2>3
    <3>2. z[m + 1] = y[1]
        BY <2>3, <3>1
    <3> QED BY <2>1, <2>2, <3>1, <3>2
  <2> QED BY <1>1, <2>2, <2>3, <2>4, <2>5, <2>6 DEF z, y
<1>3. /\ IsSeq(s) /\ Len(s) = N
      /\ \A i \in 1..N : s[i] = IF i <= m THEN p[i] ELSE IF i = m + 1 THEN a ELSE q[i - m - 1]
    BY <1>2
<1>4. /\ IsSeq(t) /\ Len(t) = N
      /\ \A i \in 1..N : t[i] = IF i <= m THEN p[i] ELSE IF i = m + 1 THEN b ELSE q[i - m - 1]
    BY <1>2
<1>5. s \in [1..N -> Range(s)] /\ t \in [1..N -> Range(t)]
  <2> HIDE DEF s, t, N
  <2>1. s \in Seq(Range(s)) /\ t \in Seq(Range(t))
      BY <1>3, <1>4 DEF IsSeq
  <2> QED BY <1>3, <1>4, <2>1, LenProperties
<1> HIDE DEF s, t
<1>6. m + 1 \in 1..N
    BY <1>1
<1> HIDE DEF m, N
<1>7. DOMAIN [s EXCEPT ![m + 1] = b] = 1..N /\ DOMAIN t = 1..N
    BY <1>5
<1>8. ASSUME NEW i \in 1..N PROVE [s EXCEPT ![m + 1] = b][i] = t[i]
  <2>1. [s EXCEPT ![m + 1] = b][i] = IF i = m + 1 THEN b ELSE s[i]
      BY <1>5, <1>6
  <2>2. i = m + 1 => ~(i <= m)
      BY <1>1 DEF m
  <2>3. s[i] = IF i <= m THEN p[i] ELSE IF i = m + 1 THEN a ELSE q[i - m - 1]
      BY <1>3
  <2>4. t[i] = IF i <= m THEN p[i] ELSE IF i = m + 1 THEN b ELSE q[i - m - 1]
      BY <1>4
  <2> QED BY <2>1, <2>2, <2>3, <2>4
<1>9. [s EXCEPT ![m + 1] = b] = t
    BY <1>5, <1>7, <1>8
<1> QED BY <1>9 DEF s, t, m, Cat, One

\* The last element replaced.
LEMMA CatReplaceLast ==
    ASSUME NEW p, IsSeq(p), NEW a, NEW b
    PROVE  [Cat(p, One(a)) EXCEPT ![Len(p) + 1] = b] = Cat(p, One(b))
<1> DEFINE q == << >>
<1>1. IsSeq(q) /\ Cat(One(a), q) = One(a) /\ Cat(One(b), q) = One(b)
    BY IsSeqEmpty, OneOK, CatUnit
<1> HIDE DEF q
<1>2. [Cat(p, Cat(One(a), q)) EXCEPT ![Len(p) + 1] = b] = Cat(p, Cat(One(b), q))
    BY <1>1, CatReplace
<1> QED BY <1>1, <1>2

\* An operation with a component is its front and its last one.
LEMMA OpFront ==
    ASSUME NEW op, OpOK(op), op # << >>
    PROVE  /\ OpOK(Front(op)) /\ CompOK(Last(op)) /\ OpOK(One(Last(op)))
           /\ IsSeq(Front(op))
           /\ op = Cat(Front(op), One(Last(op)))
           /\ Len(op) = Len(Front(op)) + 1 /\ Len(Front(op)) \in Nat
           /\ op[Len(op)] = Last(op)
<1> DEFINE n == Len(op) - 1
           p == SubSeq(op, 1, n)
           y == SubSeq(op, n + 1, Len(op))
<1>1. /\ IsSeq(op) /\ Len(op) \in Nat \ {0} /\ \A k \in 1..Len(op) : CompOK(op[k])
    BY OpIndex, IsSeqNone
<1>2. n \in 0..Len(op) /\ n \in Nat /\ n + 1 = Len(op)
    BY <1>1
<1>3. IsSeq(p) /\ Len(p) = n /\ IsSeq(y) /\ Len(y) = Len(op) - n /\ op = p \o y
    BY <1>1, <1>2, IsSeqSplit
<1> HIDE DEF p, y
<1>4. \A i \in 1..Len(op) : op[i] = IF i <= n THEN p[i] ELSE y[i - n]
  <2> HIDE DEF n
  <2>1. \A i \in 1..Len(p \o y) : (p \o y)[i] = IF i <= Len(p) THEN p[i] ELSE y[i - Len(p)]
      BY <1>3, IsSeqConcat
  <2> QED BY <1>3, <2>1
<1> HIDE DEF n
<1>5. \A i \in 1..n : CompOK(p[i])
  <2>1. \A i \in 1..n : i \in 1..Len(op) /\ p[i] = op[i]
      BY <1>1, <1>2, <1>4
  <2> QED BY <1>1, <2>1
<1>6. OpOK(p)
    BY <1>3, <1>5, IsSeqLen DEF OpOK
<1>7. y[1] = op[Len(op)]
  <2>1. Len(op) \in 1..Len(op) /\ ~(Len(op) <= n) /\ Len(op) - n = 1
      BY <1>1, <1>2
  <2> QED BY <1>4, <2>1
<1>8. y = <<op[Len(op)]>>
  <2> DEFINE z == <<op[Len(op)]>>
  <2>1. IsSeq(z) /\ Len(z) = 1 /\ z[1] = op[Len(op)]
      BY IsSeqOne
  <2>2. Len(y) = 1
      BY <1>2, <1>3
  <2> HIDE DEF z
  <2>3. \A i \in 1..Len(y) : y[i] = z[i]
      BY <1>7, <2>1, <2>2
  <2>4. y = z
      BY <1>3, <2>1, <2>2, <2>3, IsSeqEqual
  <2> QED BY <2>4 DEF z
<1>9. Front(op) = p /\ Last(op) = op[Len(op)]
    BY DEF Front, Last, p, n
<1>10. CompOK(op[Len(op)])
    BY <1>1
<1> QED BY <1>2, <1>3, <1>6, <1>8, <1>9, <1>10, OpOne DEF Cat, One

\* Retaining z keeps it.
LEMMA DoesRetain ==
    ASSUME NEW op, NEW d, NEW e, Does(op, d, e), NEW z, IsSeq(z), ValidUTF8(z)
    PROVE  Does(Retain(op, Len(z)), Cat(d, z), Cat(e, z))
<1> DEFINE n == Len(z)
<1>1. n \in Nat /\ OpOK(op) /\ IsSeq(d) /\ IsSeq(e)
    BY IsSeqLen DEF Does
<1>2. CASE n = 0
  <2>1. z = << >>
      BY <1>2, IsSeqNone
  <2>2. Cat(d, z) = d /\ Cat(e, z) = e
      BY <1>1, <2>1, CatUnit
  <2>3. Retain(op, n) = op
      BY <1>2 DEF Retain
  <2> QED BY <2>2, <2>3
<1>3. CASE n # 0 /\ EndsWith(op, "retain")
  <2> DEFINE p == Front(op)
             o == Last(op)
             m == o.n + n
  <2>1. /\ OpOK(p) /\ CompOK(o) /\ OpOK(One(o)) /\ op = Cat(p, One(o)) /\ IsSeq(p)
        /\ Len(op) = Len(p) + 1 /\ op[Len(op)] = o /\ o.kind = "retain"
      BY <1>1, <1>3, OpFront DEF EndsWith
  <2> HIDE DEF p, o
  <2>2. o.n \in Nat \ {0} /\ o = RetainComp(o.n)
      BY <2>1, CompCases
  <2>3. Retain(op, n) = Cat(p, One(RetainComp(m)))
    <3>1. Retain(op, n) = [op EXCEPT ![Len(op)].n = @ + n]
        BY <1>1, <1>3 DEF Retain
    <3>2. [op EXCEPT ![Len(op)].n = @ + n]
             = [op EXCEPT ![Len(op)] = [op[Len(op)] EXCEPT !.n = @ + n]]
        OBVIOUS
    <3>3. [o EXCEPT !.n = @ + n] = RetainComp(m)
        BY <2>2 DEF RetainComp
    <3> DEFINE r == RetainComp(m)
    <3> HIDE DEF r
    <3>4. [Cat(p, One(o)) EXCEPT ![Len(p) + 1] = r] = Cat(p, One(r))
      <4>1. IsSeq(p)
          BY <2>1
      <4> QED BY ONLY <4>1, CatReplaceLast
    <3>5. [op EXCEPT ![Len(op)] = r] = [Cat(p, One(o)) EXCEPT ![Len(p) + 1] = r]
      <4>1. op = Cat(p, One(o)) /\ Len(op) = Len(p) + 1
          BY <2>1
      <4> QED BY ONLY <4>1
    <3>6. [op[Len(op)] EXCEPT !.n = @ + n] = r
        BY <2>1, <3>3 DEF r
    <3>7. [op EXCEPT ![Len(op)] = [op[Len(op)] EXCEPT !.n = @ + n]]
             = [op EXCEPT ![Len(op)] = r]
        BY <3>6
    <3> QED BY <3>1, <3>2, <3>4, <3>5, <3>7 DEF r
  <2>4. PICK x, y, u, v : /\ Does(p, x, u) /\ Does(One(o), y, v)
                          /\ d = Cat(x, y) /\ e = Cat(u, v)
                          /\ IsSeq(x) /\ IsSeq(y) /\ IsSeq(u) /\ IsSeq(v)
      BY <2>1, DoesSplit
  <2>5. Len(y) = o.n /\ v = y
      BY <2>1, <2>4, DoesOne DEF One
  <2>6. Does(One(RetainComp(m)), Cat(y, z), Cat(y, z))
    <3>1. m # 0
        BY <1>1, <2>2
    <3>2. IsSeq(Cat(y, z)) /\ Len(Cat(y, z)) = m
        BY <2>4, <2>5, CatOK
    <3>3. ValidUTF8(Cat(y, z))
        BY <2>4, DoesTexts, ValidCat
    <3> QED BY <3>1, <3>2, <3>3, DoesRetainOne
  <2>7. Does(Cat(p, One(RetainComp(m))), Cat(x, Cat(y, z)), Cat(u, Cat(y, z)))
      BY <2>4, <2>6, DoesConcat
  <2>8. Cat(x, Cat(y, z)) = Cat(d, z) /\ Cat(u, Cat(y, z)) = Cat(e, z)
      BY <2>4, <2>5, CatAssoc
  <2> QED BY <2>3, <2>7, <2>8
<1>4. CASE n # 0 /\ ~EndsWith(op, "retain")
  <2>1. Retain(op, n) = Cat(op, One(RetainComp(n)))
    <3>1. Retain(op, n) = Append(op, RetainComp(n))
        BY <1>1, <1>4 DEF Retain
    <3> QED BY <1>1, <3>1, OpIndex, IsSeqAppendOne DEF Cat, One
  <2>2. Does(One(RetainComp(n)), z, z)
      BY <1>4, DoesRetainOne
  <2> QED BY <2>1, <2>2, DoesConcat
<1> QED BY <1>2, <1>3, <1>4

\* Deleting z drops it.
LEMMA DoesDelete ==
    ASSUME NEW op, NEW d, NEW e, Does(op, d, e), NEW z, IsSeq(z), ValidUTF8(z)
    PROVE  Does(Delete(op, Len(z)), Cat(d, z), e)
<1> DEFINE n == Len(z)
           none == << >>
<1>1. n \in Nat /\ OpOK(op) /\ IsSeq(d) /\ IsSeq(e) /\ IsSeq(none) /\ ~(n < 0)
    BY IsSeqLen, IsSeqEmpty DEF Does
<1>2. Cat(e, none) = e
    BY <1>1, CatUnit
<1> HIDE DEF none
<1>3. CASE n = 0
  <2>1. z = << >>
      BY <1>3, IsSeqNone
  <2>2. Cat(d, z) = d
      BY <1>1, <2>1, CatUnit
  <2>3. Delete(op, n) = op
      BY <1>3 DEF Delete
  <2> QED BY <2>2, <2>3
<1>4. CASE n # 0 /\ EndsWith(op, "delete")
  <2> DEFINE p == Front(op)
             o == Last(op)
             m == o.n + n
  <2>1. /\ OpOK(p) /\ CompOK(o) /\ OpOK(One(o)) /\ op = Cat(p, One(o)) /\ IsSeq(p)
        /\ Len(op) = Len(p) + 1 /\ op[Len(op)] = o /\ o.kind = "delete"
      BY <1>1, <1>4, OpFront DEF EndsWith
  <2> HIDE DEF p, o
  <2>2. o.n \in Nat \ {0} /\ o = DeleteComp(o.n)
      BY <2>1, CompCases
  <2>3. Delete(op, n) = Cat(p, One(DeleteComp(m)))
    <3>1. Delete(op, n) = [op EXCEPT ![Len(op)].n = @ + n]
        BY <1>1, <1>4 DEF Delete
    <3>2. [op EXCEPT ![Len(op)].n = @ + n]
             = [op EXCEPT ![Len(op)] = [op[Len(op)] EXCEPT !.n = @ + n]]
        OBVIOUS
    <3>3. [o EXCEPT !.n = @ + n] = DeleteComp(m)
        BY <2>2 DEF DeleteComp
    <3> DEFINE r == DeleteComp(m)
    <3> HIDE DEF r
    <3>4. [Cat(p, One(o)) EXCEPT ![Len(p) + 1] = r] = Cat(p, One(r))
      <4>1. IsSeq(p)
          BY <2>1
      <4> QED BY ONLY <4>1, CatReplaceLast
    <3>5. [op EXCEPT ![Len(op)] = r] = [Cat(p, One(o)) EXCEPT ![Len(p) + 1] = r]
      <4>1. op = Cat(p, One(o)) /\ Len(op) = Len(p) + 1
          BY <2>1
      <4> QED BY ONLY <4>1
    <3>6. [op[Len(op)] EXCEPT !.n = @ + n] = r
        BY <2>1, <3>3 DEF r
    <3>7. [op EXCEPT ![Len(op)] = [op[Len(op)] EXCEPT !.n = @ + n]]
             = [op EXCEPT ![Len(op)] = r]
        BY <3>6
    <3> QED BY <3>1, <3>2, <3>4, <3>5, <3>7 DEF r
  <2>4. PICK x, y, u, v : /\ Does(p, x, u) /\ Does(One(o), y, v)
                          /\ d = Cat(x, y) /\ e = Cat(u, v)
                          /\ IsSeq(x) /\ IsSeq(y) /\ IsSeq(u) /\ IsSeq(v)
      BY <2>1, DoesSplit
  <2>5. Len(y) = o.n /\ v = none
      BY <2>1, <2>4, DoesOne DEF One, none
  <2>6. Does(One(DeleteComp(m)), Cat(y, z), none)
    <3>1. m # 0
        BY <1>1, <2>2
    <3>2. IsSeq(Cat(y, z)) /\ Len(Cat(y, z)) = m
        BY <2>4, <2>5, CatOK
    <3>3. ValidUTF8(Cat(y, z))
        BY <2>4, DoesTexts, ValidCat
    <3> QED BY <3>1, <3>2, <3>3, DoesDeleteOne DEF none
  <2>7. Does(Cat(p, One(DeleteComp(m))), Cat(x, Cat(y, z)), Cat(u, none))
      BY <2>4, <2>6, DoesConcat
  <2>8. Cat(x, Cat(y, z)) = Cat(d, z) /\ Cat(u, none) = e
      BY <2>4, <2>5, CatAssoc
  <2> QED BY <2>3, <2>7, <2>8
<1>5. CASE n # 0 /\ ~EndsWith(op, "delete")
  <2>1. Delete(op, n) = Cat(op, One(DeleteComp(n)))
    <3>1. Delete(op, n) = Append(op, DeleteComp(n))
        BY <1>1, <1>5 DEF Delete
    <3> QED BY <1>1, <3>1, OpIndex, IsSeqAppendOne DEF Cat, One
  <2>2. Does(One(DeleteComp(n)), z, none)
      BY <1>5, DoesDeleteOne DEF none
  <2>3. Does(Cat(op, One(DeleteComp(n))), Cat(d, z), Cat(e, none))
      BY <2>2, DoesConcat
  <2> QED BY <1>2, <2>1, <2>3
<1> QED BY <1>3, <1>4, <1>5

\* A component that grows by s, the last one or the one before a delete.
LEMMA DoesInsertMore ==
    ASSUME NEW p, OpOK(p), NEW o, CompOK(o), o.kind = "insert",
           NEW s, IsSeq(s), ValidUTF8(s),
           NEW d, NEW e, Does(Cat(p, One(o)), d, e)
    PROVE  /\ Does(Cat(p, One(InsertComp(o.s \o s))), d, Cat(e, s))
           /\ [o EXCEPT !.s = @ \o s] = InsertComp(o.s \o s)
<1> DEFINE t == Cat(o.s, s)
           none == << >>
<1>1. o = InsertComp(o.s) /\ IsSeq(o.s) /\ o.s # << >>
    BY CompCases
<1>2. IsSeq(t) /\ t # << >>
  <2>1. IsSeq(t) /\ Len(t) = Len(o.s) + Len(s) /\ Len(o.s) # 0
        /\ Len(o.s) \in Nat /\ Len(s) \in Nat
      BY <1>1, CatOK, IsSeqNone
  <2> HIDE DEF t
  <2> QED BY <2>1, IsSeqNone
<1>3. OpOK(One(o))
    BY OpOne DEF One
<1>4. PICK x, y, u, v : /\ Does(p, x, u) /\ Does(One(o), y, v)
                        /\ d = Cat(x, y) /\ e = Cat(u, v)
                        /\ IsSeq(x) /\ IsSeq(y) /\ IsSeq(u) /\ IsSeq(v)
    BY <1>3, DoesSplit
<1>5. y = none /\ v = o.s
    BY <1>4, DoesOne DEF One
<1>6. Does(One(InsertComp(t)), none, t)
  <2>1. ValidUTF8(t)
      BY <1>1, <1>4, <1>5, DoesTexts, ValidCat
  <2> HIDE DEF t
  <2> QED BY <1>2, <2>1, DoesInsertOne
<1> HIDE DEF none
<1>7. Does(Cat(p, One(InsertComp(t))), Cat(x, none), Cat(u, t))
  <2> HIDE DEF t
  <2> QED BY <1>4, <1>6, DoesConcat
<1>8. Cat(u, t) = Cat(e, s)
    BY <1>1, <1>4, <1>5, CatAssoc
<1>9. Does(Cat(p, One(InsertComp(t))), d, Cat(e, s))
    BY <1>4, <1>5, <1>7, <1>8
<1>10. [o EXCEPT !.s = @ \o s] = InsertComp(o.s \o s)
    BY <1>1, SMTT(30) DEF InsertComp
<1> QED BY <1>9, <1>10 DEF Cat

\* Inserting s adds it.
LEMMA DoesInsert ==
    ASSUME NEW op, NEW d, NEW e, Does(op, d, e), NEW s, IsSeq(s), ValidUTF8(s)
    PROVE  Does(Insert(op, s), d, Cat(e, s))
<1> DEFINE none == << >>
           p == Front(op)
           o == Last(op)
           i == InsertComp(s)
<1>1. OpOK(op) /\ IsSeq(d) /\ IsSeq(e) /\ IsSeq(none)
    BY IsSeqEmpty DEF Does
<1>2. Cat(d, none) = d /\ Cat(e, none) = e
    BY <1>1, CatUnit
<1>3. CASE s = << >>
    BY <1>2, <1>3 DEF Insert
<1>4. CASE s # << >> /\ EndsWith(op, "insert")
  <2> DEFINE j == InsertComp(o.s \o s)
  <2>1. /\ OpOK(p) /\ CompOK(o) /\ op = Cat(p, One(o)) /\ IsSeq(p)
        /\ Len(op) = Len(p) + 1 /\ op[Len(op)] = o /\ o.kind = "insert"
      BY <1>1, <1>4, OpFront DEF EndsWith
  <2> HIDE DEF p, o
  <2>2. Does(Cat(p, One(j)), d, Cat(e, s)) /\ [o EXCEPT !.s = @ \o s] = j
      BY <2>1, DoesInsertMore
  <2>3. Insert(op, s) = Cat(p, One(j))
    <3>1. Insert(op, s) = [op EXCEPT ![Len(op)].s = @ \o s]
        BY <1>4 DEF Insert
    <3>2. [op EXCEPT ![Len(op)].s = @ \o s]
             = [op EXCEPT ![Len(op)] = [op[Len(op)] EXCEPT !.s = @ \o s]]
        OBVIOUS
    <3> HIDE DEF j
    <3>3. [op EXCEPT ![Len(op)] = j] = Cat(p, One(j))
        BY <2>1, CatReplaceLast
    <3> QED BY <2>1, <2>2, <3>1, <3>2, <3>3
  <2> QED BY <2>2, <2>3
<1>5. CASE s # << >> /\ ~EndsWith(op, "insert") /\ ~EndsWith(op, "delete")
  <2>1. Insert(op, s) = Cat(op, One(i))
    <3>1. Insert(op, s) = Append(op, i)
        BY <1>5 DEF Insert
    <3> HIDE DEF i
    <3> QED BY <1>1, <3>1, OpIndex, IsSeqAppendOne DEF Cat, One
  <2>2. Does(One(i), none, s)
      BY <1>5, DoesInsertOne
  <2> HIDE DEF i, none
  <2>3. Does(Cat(op, One(i)), Cat(d, none), Cat(e, s))
      BY <2>2, DoesConcat
  <2> QED BY <1>2, <2>1, <2>3
<1>6. CASE s # << >> /\ ~EndsWith(op, "insert") /\ EndsWith(op, "delete")
  <2>1. /\ OpOK(p) /\ CompOK(o) /\ OpOK(One(o)) /\ op = Cat(p, One(o)) /\ IsSeq(p)
        /\ Len(op) = Len(p) + 1 /\ Len(p) \in Nat
        /\ op[Len(op)] = o /\ o.kind = "delete"
      BY <1>1, <1>6, OpFront DEF EndsWith
  <2>2. PICK x, y, u, v : /\ Does(p, x, u) /\ Does(One(o), y, v)
                          /\ d = Cat(x, y) /\ e = Cat(u, v)
                          /\ IsSeq(x) /\ IsSeq(y) /\ IsSeq(u) /\ IsSeq(v)
    <3> HIDE DEF p, o
    <3> QED BY <2>1, DoesSplit
  <2>3. Len(y) = o.n /\ v = none
    <3> HIDE DEF p, o
    <3> QED BY <2>1, <2>2, DoesOne DEF One
  <2>4. e = u /\ Does(One(o), y, none)
      BY <2>2, <2>3, CatUnit
  <2>5. CASE EndsWith(p, "insert")
    <3> DEFINE q == Front(p)
               c == Last(p)
               j == InsertComp(c.s \o s)
    <3>1. /\ OpOK(q) /\ CompOK(c) /\ p = Cat(q, One(c)) /\ IsSeq(q)
          /\ Len(p) = Len(q) + 1 /\ p[Len(p)] = c /\ c.kind = "insert"
      <4> HIDE DEF p
      <4> QED BY <2>1, <2>5, OpFront DEF EndsWith
    <3>2. Insert(op, s) = [op EXCEPT ![Len(op) - 1].s = @ \o s]
        BY <1>6, <2>5 DEF Insert
    <3> HIDE DEF q, c, p, o, none
    <3>3. Does(Cat(q, One(j)), x, Cat(u, s)) /\ [c EXCEPT !.s = @ \o s] = j
        BY <2>2, <3>1, DoesInsertMore
    <3>4. op = Cat(q, Cat(One(c), One(o)))
        BY <2>1, <3>1, OneOK, CatAssoc
    <3> HIDE DEF j
    <3>5. Cat(Cat(q, One(j)), One(o)) = Cat(q, Cat(One(j), One(o)))
        BY <3>1, OneOK, CatAssoc
    <3>6. Len(op) - 1 = Len(q) + 1 /\ Len(op) - 1 = Len(p)
        BY <2>1, <3>1
    <3>7. op[Len(q) + 1] = c
      <4>1. op[Len(p)] = p[Len(p)]
        <5>1. Len(p) \in 1..Len(p)
            BY <2>1, <3>1, IsSeqLen
        <5> QED BY <2>1, <5>1, OpConcat DEF Cat
      <4> QED BY <3>1, <3>6, <4>1
    <3>8. Insert(op, s) = Cat(q, Cat(One(j), One(o)))
      <4>1. [op EXCEPT ![Len(q) + 1].s = @ \o s]
               = [op EXCEPT ![Len(q) + 1] = [op[Len(q) + 1] EXCEPT !.s = @ \o s]]
          OBVIOUS
      <4>2. [op EXCEPT ![Len(q) + 1] = j] = Cat(q, Cat(One(j), One(o)))
          BY <3>1, <3>4, OneOK, CatReplace
      <4>3. Insert(op, s) = [op EXCEPT ![Len(q) + 1].s = @ \o s]
          BY <3>2, <3>6
      <4> QED BY <3>3, <3>7, <4>1, <4>2, <4>3
    <3>9. Does(Cat(Cat(q, One(j)), One(o)), Cat(x, y), Cat(Cat(u, s), none))
        BY <2>4, <3>3, DoesConcat
    <3>10. Cat(Cat(u, s), none) = Cat(e, s)
        BY <2>2, <2>4, CatOK, CatUnit DEF none
    <3> QED BY <2>2, <3>5, <3>8, <3>9, <3>10
  <2>6. CASE ~EndsWith(p, "insert")
    <3>1. Insert(op, s) = Cat(p, Cat(One(i), One(o)))
      <4>1. Insert(op, s) = p \o <<i, o>>
          BY <1>6, <2>6 DEF Insert
      <4>2. <<i, o>> = <<i>> \o <<o>>
        <5> HIDE DEF i, o
        <5> QED OBVIOUS
      <4> QED BY <4>1, <4>2 DEF Cat, One
    <3>2. Does(One(i), none, s)
        BY <1>6, DoesInsertOne
    <3> HIDE DEF p, o, i, none
    <3>3. Does(Cat(One(i), One(o)), Cat(none, y), Cat(s, none))
        BY <2>4, <3>2, DoesConcat
    <3>4. Cat(none, y) = y /\ Cat(s, none) = s
        BY <2>2, CatUnit DEF none
    <3>5. Does(Cat(p, Cat(One(i), One(o))), Cat(x, y), Cat(u, s))
        BY <2>2, <3>3, <3>4, DoesConcat
    <3> QED BY <2>2, <2>4, <3>1, <3>5
  <2> QED BY <2>5, <2>6
<1> QED BY <1>3, <1>4, <1>5, <1>6

\* Keeping all of a text.
LEMMA DoesKeep ==
    ASSUME NEW x, IsSeq(x), ValidUTF8(x) PROVE Does(Retain(New, Len(x)), x, x)
<1> DEFINE none == << >>
<1>1. Does(none, none, none) /\ IsSeq(none)
    BY DoesEmpty, IsSeqEmpty
<1>2. New = none
    BY DEF New
<1> HIDE DEF none
<1>3. Does(Retain(none, Len(x)), Cat(none, x), Cat(none, x))
    BY <1>1, DoesRetain
<1>4. Cat(none, x) = x
    BY CatUnit DEF none
<1> QED BY <1>2, <1>3, <1>4

---------------------------------------------------------------------------
(* What is left to do once the iterator has consumed a component or a part *)
(* of one.                                                                 *)

\* An operation with a component is its first one and the rest.
LEMMA OpHead ==
    ASSUME NEW it, OpOK(it), it # << >>
    PROVE  /\ CompOK(Head(it)) /\ OpOK(One(Head(it))) /\ OpOK(Tail(it))
           /\ it = Cat(One(Head(it)), Tail(it))
           /\ Len(it) = 1 + Len(Tail(it)) /\ Len(Tail(it)) \in Nat
<1>1. /\ IsSeq(it) /\ Len(it) \in Nat \ {0} /\ \A k \in 1..Len(it) : CompOK(it[k])
    BY OpIndex, IsSeqNone
<1>2. /\ it = Cat(One(Head(it)), Tail(it)) /\ IsSeq(Tail(it))
      /\ Len(it) = 1 + Len(Tail(it)) /\ Len(Tail(it)) \in Nat /\ Head(it) = it[1]
    BY <1>1, CatHead
<1>3. \A k \in 1..Len(Tail(it)) : Tail(it)[k] = it[k + 1]
    BY <1>1, IsSeqTail
<1>4. DOMAIN Tail(it) = 1..Len(Tail(it))
    BY <1>2, IsSeqLen
<1>5. \A k \in 1..Len(Tail(it)) : CompOK(Tail(it)[k])
  <2>1. \A k \in 1..Len(Tail(it)) : k + 1 \in 1..Len(it)
      BY <1>1, <1>2
  <2> QED BY <1>1, <1>3, <2>1
<1>6. OpOK(Tail(it))
    BY <1>2, <1>4, <1>5 DEF OpOK
<1>7. CompOK(Head(it))
    BY <1>1, <1>2
<1> QED BY <1>2, <1>6, <1>7, OpOne DEF One

\* What the first component does, and what the others do after it.
LEMMA DoesHead ==
    ASSUME NEW it, it # << >>, NEW d, NEW e, Does(it, d, e)
    PROVE  \E x, y, u, v :
              /\ IsSeq(x) /\ IsSeq(y) /\ IsSeq(u) /\ IsSeq(v)
              /\ ValidUTF8(x) /\ ValidUTF8(u)
              /\ d = Cat(x, y) /\ e = Cat(u, v)
              /\ Does(Tail(it), y, v)
              /\ \/ Head(it).kind = "retain" /\ Len(x) = Head(it).n /\ u = x
                 \/ Head(it).kind = "delete" /\ Len(x) = Head(it).n /\ u = << >>
                 \/ Head(it).kind = "insert" /\ x = << >> /\ u = Head(it).s
<1> DEFINE h == Head(it)
<1>1. CompOK(h) /\ OpOK(One(h)) /\ OpOK(Tail(it)) /\ it = Cat(One(h), Tail(it))
    BY OpHead DEF Does
<1> HIDE DEF h
<1>2. PICK x, y, u, v : /\ Does(One(h), x, u) /\ Does(Tail(it), y, v)
                        /\ d = Cat(x, y) /\ e = Cat(u, v)
                        /\ IsSeq(x) /\ IsSeq(y) /\ IsSeq(u) /\ IsSeq(v)
    BY <1>1, DoesSplit
<1>3. /\ ValidUTF8(x) /\ ValidUTF8(u)
      /\ \/ h.kind = "retain" /\ Len(x) = h.n /\ u = x
         \/ h.kind = "delete" /\ Len(x) = h.n /\ u = << >>
         \/ h.kind = "insert" /\ x = << >> /\ u = h.s
    BY <1>1, <1>2, DoesOne DEF One
<1> QED BY <1>2, <1>3 DEF h

\* An insert at the head: the rest makes what follows it.
LEMMA DoesHeadInsert ==
    ASSUME NEW it, it # << >>, Head(it).kind = "insert", NEW d, NEW e, Does(it, d, e)
    PROVE  \E v : /\ Does(Tail(it), d, v) /\ e = Cat(Head(it).s, v)
                  /\ IsSeq(Head(it).s) /\ ValidUTF8(Head(it).s)
<1>1. PICK x, y, u, v :
              /\ IsSeq(x) /\ IsSeq(y) /\ IsSeq(u) /\ IsSeq(v) /\ ValidUTF8(u)
              /\ d = Cat(x, y) /\ e = Cat(u, v)
              /\ Does(Tail(it), y, v)
              /\ x = << >> /\ u = Head(it).s
    BY DoesHead
<1>2. d = y
    BY <1>1, CatUnit
<1> QED BY <1>1, <1>2

\* A delete at the head: the rest does the rest.
LEMMA DoesHeadDelete ==
    ASSUME NEW it, it # << >>, Head(it).kind = "delete", NEW d, NEW e, Does(it, d, e)
    PROVE  \E x, y : /\ IsSeq(x) /\ ValidUTF8(x) /\ Len(x) = Head(it).n /\ d = Cat(x, y)
                     /\ IsSeq(y) /\ Does(Tail(it), y, e)
<1>1. PICK x, y, u, v :
              /\ IsSeq(x) /\ IsSeq(y) /\ IsSeq(u) /\ IsSeq(v) /\ ValidUTF8(x)
              /\ d = Cat(x, y) /\ e = Cat(u, v)
              /\ Does(Tail(it), y, v)
              /\ Len(x) = Head(it).n /\ u = << >>
    BY DoesHead
<1>2. e = v
    BY <1>1, CatUnit
<1> QED BY <1>1, <1>2

\* A retain at the head, likewise.
LEMMA DoesHeadRetain ==
    ASSUME NEW it, it # << >>, Head(it).kind = "retain", NEW d, NEW e, Does(it, d, e)
    PROVE  \E x, y, v : /\ IsSeq(x) /\ ValidUTF8(x) /\ Len(x) = Head(it).n
                        /\ d = Cat(x, y) /\ e = Cat(x, v)
                        /\ IsSeq(y) /\ IsSeq(v) /\ Does(Tail(it), y, v)
<1>1. PICK x, y, u, v :
              /\ IsSeq(x) /\ IsSeq(y) /\ IsSeq(u) /\ IsSeq(v) /\ ValidUTF8(x)
              /\ d = Cat(x, y) /\ e = Cat(u, v)
              /\ Does(Tail(it), y, v)
              /\ Len(x) = Head(it).n /\ u = x
    BY DoesHead
<1> QED BY <1>1

\* The first component ends between two characters of the document.
LEMMA HeadBoundary ==
    ASSUME NEW it, it # << >>, Head(it).kind # "insert", NEW d, NEW e, Does(it, d, e)
    PROVE  IsBoundary(d, CompLen(Head(it)))
<1>1. PICK x, y, u, v :
              /\ IsSeq(x) /\ IsSeq(y) /\ IsSeq(u) /\ IsSeq(v)
              /\ ValidUTF8(x) /\ d = Cat(x, y) /\ Len(x) = Head(it).n
    BY DoesHead
<1>2. ValidUTF8(Cat(x, y))
    BY <1>1, DoesTexts
<1>3. IsBoundary(Cat(x, y), Len(x))
    BY <1>1, <1>2, CutAtText
<1> QED BY <1>1, <1>3 DEF CompLen

\* The first component ends between two characters of what it makes, too.
LEMMA HeadMakesBoundary ==
    ASSUME NEW it, it # << >>, Head(it).kind # "delete", NEW d, NEW e, Does(it, d, e)
    PROVE  IsBoundary(e, CompLen(Head(it)))
<1>1. PICK x, y, u, v :
              /\ IsSeq(x) /\ IsSeq(y) /\ IsSeq(u) /\ IsSeq(v)
              /\ ValidUTF8(u) /\ e = Cat(u, v)
              /\ \/ Head(it).kind = "retain" /\ Len(x) = Head(it).n /\ u = x
                 \/ Head(it).kind = "insert" /\ x = << >> /\ u = Head(it).s
    BY DoesHead
<1>2. ValidUTF8(Cat(u, v))
    BY <1>1, DoesTexts
<1>3. IsBoundary(Cat(u, v), Len(u))
    BY <1>1, <1>2, CutAtText
<1>4. Len(u) = CompLen(Head(it))
    BY <1>1 DEF CompLen
<1> QED BY <1>1, <1>3, <1>4

\* A text cut between two of its characters.
LEMMA TextSplit ==
    ASSUME NEW x, IsSeq(x), ValidUTF8(x), NEW n, IsBoundary(x, n)
    PROVE  \E z, w : /\ IsSeq(z) /\ Len(z) = n /\ ValidUTF8(z)
                     /\ IsSeq(w) /\ Len(w) = Len(x) - n /\ ValidUTF8(w)
                     /\ x = Cat(z, w)
<1>1. n \in 0..Len(x)
    BY DEF IsBoundary
<1>2. PICK z, w : IsSeq(z) /\ Len(z) = n /\ IsSeq(w) /\ Len(w) = Len(x) - n /\ x = Cat(z, w)
    BY <1>1, CatSplit
<1>3. ValidUTF8(Cat(z, w)) /\ IsBoundary(Cat(z, w), Len(z))
    BY <1>2
<1>4. ValidUTF8(z) /\ ValidUTF8(w)
    BY <1>2, <1>3, ValidCut
<1> QED BY <1>2, <1>4

\* The iterator moves on, past the head once it is consumed.
LEMMA TakeLen ==
    ASSUME NEW it, OpOK(it), it # << >>, NEW n
    PROVE  Len(Take(it, n)) = IF CompLen(Head(it)) <= n THEN Len(it) - 1 ELSE Len(it)
<1>1. IsSeq(Tail(it)) /\ Len(it) = 1 + Len(Tail(it)) /\ Len(Tail(it)) \in Nat
    BY OpHead, OpIndex
<1>2. CASE CompLen(Head(it)) <= n
    BY <1>1, <1>2 DEF Take
<1>3. CASE ~(CompLen(Head(it)) <= n)
  <2>1. ASSUME NEW c PROVE Len(<<c>> \o Tail(it)) = Len(it)
    <3> DEFINE o == One(c)
               t == Tail(it)
    <3>1. IsSeq(o) /\ Len(o) = 1 /\ IsSeq(t)
        BY <1>1, OneOK
    <3> HIDE DEF o, t
    <3>2. Len(Cat(o, t)) = 1 + Len(t)
        BY <3>1, CatOK
    <3> QED BY <1>1, <3>2 DEF Cat, One, o, t
  <2> QED BY <1>3, <2>1 DEF Take
<1> QED BY <1>2, <1>3

\* n bytes of a retain.
LEMMA TakeRetain ==
    ASSUME NEW it, it # << >>, Head(it).kind = "retain", NEW d, NEW e, Does(it, d, e),
           NEW n \in 1..CompLen(Head(it)), IsBoundary(d, n) \/ IsBoundary(e, n)
    PROVE  \E x, y, v : /\ IsSeq(x) /\ ValidUTF8(x) /\ Len(x) = n
                        /\ d = Cat(x, y) /\ e = Cat(x, v)
                        /\ IsSeq(y) /\ IsSeq(v) /\ Does(Take(it, n), y, v)
<1> DEFINE h == Head(it)
           m == h.n - n
<1>1. CompOK(h) /\ h.n \in Nat \ {0} /\ h = RetainComp(h.n) /\ CompLen(h) = h.n
    BY OpHead, CompCases DEF Does, CompLen
<1>2. PICK x, y, v : /\ IsSeq(x) /\ ValidUTF8(x) /\ Len(x) = Head(it).n
                     /\ d = Cat(x, y) /\ e = Cat(x, v)
                     /\ IsSeq(y) /\ IsSeq(v) /\ Does(Tail(it), y, v)
    BY DoesHeadRetain
<1>3. CASE n = h.n
  <2>1. Take(it, n) = Tail(it)
      BY <1>1, <1>3 DEF Take
  <2> QED BY <1>2, <1>3, <2>1
<1>4. CASE n # h.n
  <2>1. n \in 0..Len(x) /\ m # 0 /\ ~(CompLen(h) <= n)
      BY <1>1, <1>2, <1>4
  <2>2. PICK z, w : /\ IsSeq(z) /\ Len(z) = n /\ ValidUTF8(z)
                    /\ IsSeq(w) /\ Len(w) = Len(x) - n /\ ValidUTF8(w)
                    /\ x = Cat(z, w)
    <3>1. n \in 0..Len(x) /\ (IsBoundary(Cat(x, y), n) \/ IsBoundary(Cat(x, v), n))
        BY <1>2, <2>1
    <3> HIDE DEF m, h
    <3>2. IsBoundary(x, n)
        BY <1>2, <3>1, CutsOfCat
    <3> QED BY <1>2, <3>2, TextSplit
  <2>3. Take(it, n) = Cat(One(RetainComp(m)), Tail(it))
    <3>1. [h EXCEPT !.n = @ - n] = RetainComp(m)
        BY <1>1 DEF RetainComp
    <3>2. Take(it, n) = <<[h EXCEPT !.n = @ - n]>> \o Tail(it)
        BY <2>1 DEF Take
    <3> QED BY <3>1, <3>2 DEF Cat, One
  <2>4. Does(One(RetainComp(m)), w, w)
    <3>1. m = Len(w)
        BY <1>2, <2>2
    <3> QED BY <2>1, <2>2, <3>1, DoesRetainOne
  <2>5. Does(Take(it, n), Cat(w, y), Cat(w, v))
      BY <1>2, <2>3, <2>4, DoesConcat
  <2>6. d = Cat(z, Cat(w, y)) /\ e = Cat(z, Cat(w, v))
      BY <1>2, <2>2, CatAssoc
  <2>7. IsSeq(Cat(w, y)) /\ IsSeq(Cat(w, v))
      BY <1>2, <2>2, CatOK
  <2> QED BY <2>2, <2>5, <2>6, <2>7
<1> QED BY <1>3, <1>4

\* n bytes of a delete.
LEMMA TakeDelete ==
    ASSUME NEW it, it # << >>, Head(it).kind = "delete", NEW d, NEW e, Does(it, d, e),
           NEW n \in 1..CompLen(Head(it)), IsBoundary(d, n)
    PROVE  \E x, y : /\ IsSeq(x) /\ ValidUTF8(x) /\ Len(x) = n /\ d = Cat(x, y)
                     /\ IsSeq(y) /\ Does(Take(it, n), y, e)
<1> DEFINE h == Head(it)
           m == h.n - n
           none == << >>
<1>1. CompOK(h) /\ h.n \in Nat \ {0} /\ h = DeleteComp(h.n) /\ CompLen(h) = h.n
    BY OpHead, CompCases DEF Does, CompLen
<1>2. PICK x, y : /\ IsSeq(x) /\ ValidUTF8(x) /\ Len(x) = Head(it).n /\ d = Cat(x, y)
                  /\ IsSeq(y) /\ Does(Tail(it), y, e)
    BY DoesHeadDelete
<1>3. CASE n = h.n
  <2>1. Take(it, n) = Tail(it)
      BY <1>1, <1>3 DEF Take
  <2> QED BY <1>2, <1>3, <2>1
<1>4. CASE n # h.n
  <2>1. n \in 0..Len(x) /\ m # 0 /\ ~(CompLen(h) <= n)
      BY <1>1, <1>2, <1>4
  <2>2. PICK z, w : /\ IsSeq(z) /\ Len(z) = n /\ ValidUTF8(z)
                    /\ IsSeq(w) /\ Len(w) = Len(x) - n /\ ValidUTF8(w)
                    /\ x = Cat(z, w)
    <3>1. n \in 0..Len(x) /\ IsBoundary(Cat(x, y), n)
        BY <1>2, <2>1
    <3> HIDE DEF m, h
    <3>2. IsBoundary(x, n)
        BY <1>2, <3>1, CutsOfCat
    <3> QED BY <1>2, <3>2, TextSplit
  <2>3. Take(it, n) = Cat(One(DeleteComp(m)), Tail(it))
    <3>1. [h EXCEPT !.n = @ - n] = DeleteComp(m)
        BY <1>1 DEF DeleteComp
    <3>2. Take(it, n) = <<[h EXCEPT !.n = @ - n]>> \o Tail(it)
        BY <1>1, <2>1 DEF Take, DeleteComp
    <3> QED BY <3>1, <3>2 DEF Cat, One
  <2>4. Does(One(DeleteComp(m)), w, none)
    <3>1. m = Len(w)
        BY <1>2, <2>2
    <3> QED BY <2>1, <2>2, <3>1, DoesDeleteOne
  <2>5. Cat(none, e) = e
      BY CatUnit DEF Does
  <2> HIDE DEF none
  <2>6. Does(Take(it, n), Cat(w, y), e)
      BY <1>2, <2>3, <2>4, <2>5, DoesConcat
  <2>7. d = Cat(z, Cat(w, y)) /\ IsSeq(Cat(w, y))
      BY <1>2, <2>2, CatAssoc, CatOK
  <2> QED BY <2>2, <2>6, <2>7
<1> QED BY <1>3, <1>4

\* n bytes of an insert.
LEMMA TakeInsert ==
    ASSUME NEW it, it # << >>, Head(it).kind = "insert", NEW d, NEW e, Does(it, d, e),
           NEW n \in 1..CompLen(Head(it)), IsBoundary(e, n)
    PROVE  \E v : /\ IsSeq(HeadText(it, n)) /\ Len(HeadText(it, n)) = n
                  /\ ValidUTF8(HeadText(it, n))
                  /\ e = Cat(HeadText(it, n), v) /\ Does(Take(it, n), d, v)
<1> DEFINE h == Head(it)
           s == h.s
           none == << >>
           x == SubSeq(s, 1, n)
           y == SubSeq(s, n + 1, Len(s))
<1>1. /\ CompOK(h) /\ IsSeq(s) /\ s # none /\ h = InsertComp(s) /\ CompLen(h) = Len(s)
      /\ Len(s) \in Nat
    BY OpHead, CompCases, IsSeqLen DEF Does, CompLen
<1>2. PICK v : Does(Tail(it), d, v) /\ e = Cat(s, v) /\ ValidUTF8(s)
    BY DoesHeadInsert
<1>3. n \in 0..Len(s)
    BY <1>1
<1>4. IsSeq(x) /\ Len(x) = n /\ IsSeq(y) /\ Len(y) = Len(s) - n /\ s = Cat(x, y)
    BY <1>1, <1>3, IsSeqSplit DEF Cat
<1>5. HeadText(it, n) = x /\ IsSeq(v)
    BY <1>2 DEF HeadText, Does
<1>6. ValidUTF8(x) /\ ValidUTF8(y)
  <2> HIDE DEF x, y, s
  <2>1. IsBoundary(Cat(s, v), n)
      BY <1>2
  <2>2. IsBoundary(Cat(x, y), Len(x)) /\ ValidUTF8(Cat(x, y))
      BY <1>1, <1>2, <1>3, <1>4, <1>5, <2>1, CutsOfCat
  <2> QED BY <1>4, <2>2, ValidCut
<1>7. CASE n = Len(s)
  <2>1. Take(it, n) = Tail(it)
      BY <1>1, <1>7 DEF Take
  <2>2. x = s
      BY <1>1, <1>7, SegmentAll
  <2> HIDE DEF x
  <2> QED BY <1>1, <1>2, <1>4, <1>5, <1>7, <1>6, <2>1, <2>2
<1>8. CASE n # Len(s)
  <2>1. y # none /\ ~(CompLen(h) <= n)
    <3> HIDE DEF y, h, s
    <3>1. Len(y) # 0 /\ ~(CompLen(h) <= n)
        BY <1>1, <1>3, <1>4, <1>8
    <3> QED BY <1>4, <3>1, IsSeqNone DEF none
  <2>2. Take(it, n) = Cat(One(InsertComp(y)), Tail(it))
      BY <2>1 DEF Take, Cat, One
  <2> HIDE DEF x, y, h, s
  <2>3. Does(One(InsertComp(y)), none, y)
      BY <1>4, <1>6, <2>1, DoesInsertOne
  <2>4. Cat(none, d) = d
      BY CatUnit DEF Does
  <2> HIDE DEF none
  <2>5. Does(Take(it, n), d, Cat(y, v))
      BY <1>2, <2>2, <2>3, <2>4, DoesConcat
  <2>6. e = Cat(x, Cat(y, v))
      BY <1>2, <1>4, <1>5, CatAssoc
  <2> QED BY <1>4, <1>5, <1>6, <2>5, <2>6
<1> QED BY <1>7, <1>8

---------------------------------------------------------------------------
(* Transform: both orders end in one document.                             *)

(***************************************************************************)
(* A state of Transform's loop: what a and b have still to do to the rest  *)
(* of the base document, and what the operations built so far do to what   *)
(* the other one made of the part before it.                               *)
(***************************************************************************)
Halfway(ia, ib, ap, bp, da, db) ==
    \E rest, a1, a2, b1, b2, c :
        /\ Does(ia, rest, a2) /\ Does(ib, rest, b2)
        /\ da = Cat(a1, a2) /\ db = Cat(b1, b2)
        /\ Does(bp, a1, c) /\ Does(ap, b1, c)

\* a inserts: its text goes into both documents.
LEMMA HalfwayInsertA ==
    ASSUME NEW ia, NEW ib, NEW ap, NEW bp, NEW da, NEW db,
           Halfway(ia, ib, ap, bp, da, db), ia # << >>, Head(ia).kind = "insert"
    PROVE  Halfway(Tail(ia), ib, Insert(ap, Head(ia).s), Retain(bp, CompLen(Head(ia))), da, db)
<1> DEFINE s == Head(ia).s
<1>1. PICK rest, a1, a2, b1, b2, c :
        /\ Does(ia, rest, a2) /\ Does(ib, rest, b2)
        /\ da = Cat(a1, a2) /\ db = Cat(b1, b2)
        /\ Does(bp, a1, c) /\ Does(ap, b1, c)
    BY DEF Halfway
<1>2. PICK v : Does(Tail(ia), rest, v) /\ a2 = Cat(s, v) /\ IsSeq(s) /\ ValidUTF8(s)
    BY <1>1, DoesHeadInsert
<1>3. Does(Insert(ap, s), b1, Cat(c, s))
    BY <1>1, <1>2, DoesInsert
<1>4. Does(Retain(bp, Len(s)), Cat(a1, s), Cat(c, s))
    BY <1>1, <1>2, DoesRetain
<1>5. da = Cat(Cat(a1, s), v)
    BY <1>1, <1>2, CatAssoc DEF Does
<1>6. CompLen(Head(ia)) = Len(s)
    BY DEF CompLen
<1> HIDE DEF s
<1> QED BY <1>1, <1>2, <1>3, <1>4, <1>5, <1>6 DEF Halfway, s

\* b inserts, likewise.
LEMMA HalfwayInsertB ==
    ASSUME NEW ia, NEW ib, NEW ap, NEW bp, NEW da, NEW db,
           Halfway(ia, ib, ap, bp, da, db), ib # << >>, Head(ib).kind = "insert"
    PROVE  Halfway(ia, Tail(ib), Retain(ap, CompLen(Head(ib))), Insert(bp, Head(ib).s), da, db)
<1> DEFINE s == Head(ib).s
<1>1. PICK rest, a1, a2, b1, b2, c :
        /\ Does(ia, rest, a2) /\ Does(ib, rest, b2)
        /\ da = Cat(a1, a2) /\ db = Cat(b1, b2)
        /\ Does(bp, a1, c) /\ Does(ap, b1, c)
    BY DEF Halfway
<1>2. PICK v : Does(Tail(ib), rest, v) /\ b2 = Cat(s, v) /\ IsSeq(s) /\ ValidUTF8(s)
    BY <1>1, DoesHeadInsert
<1>3. Does(Insert(bp, s), a1, Cat(c, s))
    BY <1>1, <1>2, DoesInsert
<1>4. Does(Retain(ap, Len(s)), Cat(b1, s), Cat(c, s))
    BY <1>1, <1>2, DoesRetain
<1>5. db = Cat(Cat(b1, s), v)
    BY <1>1, <1>2, CatAssoc DEF Does
<1>6. CompLen(Head(ib)) = Len(s)
    BY DEF CompLen
<1> HIDE DEF s
<1> QED BY <1>1, <1>2, <1>3, <1>4, <1>5, <1>6 DEF Halfway, s

\* Both retain n bytes.
LEMMA HalfwayRetains ==
    ASSUME NEW ia, NEW ib, NEW ap, NEW bp, NEW da, NEW db,
           Halfway(ia, ib, ap, bp, da, db),
           ia # << >>, Head(ia).kind = "retain", ib # << >>, Head(ib).kind = "retain",
           NEW n, n \in 1..CompLen(Head(ia)), n \in 1..CompLen(Head(ib)),
           n = CompLen(Head(ia)) \/ n = CompLen(Head(ib))
    PROVE  Halfway(Take(ia, n), Take(ib, n), Retain(ap, n), Retain(bp, n), da, db)
<1>1. PICK rest, a1, a2, b1, b2, c :
        /\ Does(ia, rest, a2) /\ Does(ib, rest, b2)
        /\ da = Cat(a1, a2) /\ db = Cat(b1, b2)
        /\ Does(bp, a1, c) /\ Does(ap, b1, c)
    BY DEF Halfway
<1>2. IsBoundary(rest, n)
    BY <1>1, HeadBoundary
<1>3. PICK x, y, v : /\ IsSeq(x) /\ ValidUTF8(x) /\ Len(x) = n
                     /\ rest = Cat(x, y) /\ a2 = Cat(x, v)
                     /\ IsSeq(y) /\ IsSeq(v) /\ Does(Take(ia, n), y, v)
    BY <1>1, <1>2, TakeRetain
<1>4. PICK x2, y2, v2 : /\ IsSeq(x2) /\ ValidUTF8(x2) /\ Len(x2) = n
                        /\ rest = Cat(x2, y2) /\ b2 = Cat(x2, v2)
                        /\ IsSeq(y2) /\ IsSeq(v2) /\ Does(Take(ib, n), y2, v2)
    BY <1>1, <1>2, TakeRetain
<1>5. x2 = x /\ y2 = y
  <2>1. /\ Cat(x2, y2) = Cat(x, y) /\ Len(x2) = Len(x)
        /\ IsSeq(x2) /\ IsSeq(y2) /\ IsSeq(x) /\ IsSeq(y)
      BY <1>3, <1>4
  <2> QED BY <2>1, CatCancel
<1>6. Does(Retain(ap, n), Cat(b1, x), Cat(c, x)) /\ Does(Retain(bp, n), Cat(a1, x), Cat(c, x))
    BY <1>1, <1>3, DoesRetain
<1>7. da = Cat(Cat(a1, x), v) /\ db = Cat(Cat(b1, x), v2)
    BY <1>1, <1>3, <1>4, <1>5, CatAssoc DEF Does
<1> QED BY <1>3, <1>4, <1>5, <1>6, <1>7 DEF Halfway

\* Both delete n bytes: neither has anything left to do about them.
LEMMA HalfwayDeletes ==
    ASSUME NEW ia, NEW ib, NEW ap, NEW bp, NEW da, NEW db,
           Halfway(ia, ib, ap, bp, da, db),
           ia # << >>, Head(ia).kind = "delete", ib # << >>, Head(ib).kind = "delete",
           NEW n, n \in 1..CompLen(Head(ia)), n \in 1..CompLen(Head(ib)),
           n = CompLen(Head(ia)) \/ n = CompLen(Head(ib))
    PROVE  Halfway(Take(ia, n), Take(ib, n), ap, bp, da, db)
<1>1. PICK rest, a1, a2, b1, b2, c :
        /\ Does(ia, rest, a2) /\ Does(ib, rest, b2)
        /\ da = Cat(a1, a2) /\ db = Cat(b1, b2)
        /\ Does(bp, a1, c) /\ Does(ap, b1, c)
    BY DEF Halfway
<1>2. IsBoundary(rest, n)
    BY <1>1, HeadBoundary
<1>3. PICK x, y : /\ IsSeq(x) /\ ValidUTF8(x) /\ Len(x) = n /\ rest = Cat(x, y)
                  /\ IsSeq(y) /\ Does(Take(ia, n), y, a2)
    BY <1>1, <1>2, TakeDelete
<1>4. PICK x2, y2 : /\ IsSeq(x2) /\ ValidUTF8(x2) /\ Len(x2) = n /\ rest = Cat(x2, y2)
                    /\ IsSeq(y2) /\ Does(Take(ib, n), y2, b2)
    BY <1>1, <1>2, TakeDelete
<1>5. x2 = x /\ y2 = y
  <2>1. /\ Cat(x2, y2) = Cat(x, y) /\ Len(x2) = Len(x)
        /\ IsSeq(x2) /\ IsSeq(y2) /\ IsSeq(x) /\ IsSeq(y)
      BY <1>3, <1>4
  <2> QED BY <2>1, CatCancel
<1> QED BY <1>1, <1>3, <1>4, <1>5 DEF Halfway

\* a deletes n bytes that b retains.
LEMMA HalfwayDeleteA ==
    ASSUME NEW ia, NEW ib, NEW ap, NEW bp, NEW da, NEW db,
           Halfway(ia, ib, ap, bp, da, db),
           ia # << >>, Head(ia).kind = "delete", ib # << >>, Head(ib).kind = "retain",
           NEW n, n \in 1..CompLen(Head(ia)), n \in 1..CompLen(Head(ib)),
           n = CompLen(Head(ia)) \/ n = CompLen(Head(ib))
    PROVE  Halfway(Take(ia, n), Take(ib, n), Delete(ap, n), bp, da, db)
<1>1. PICK rest, a1, a2, b1, b2, c :
        /\ Does(ia, rest, a2) /\ Does(ib, rest, b2)
        /\ da = Cat(a1, a2) /\ db = Cat(b1, b2)
        /\ Does(bp, a1, c) /\ Does(ap, b1, c)
    BY DEF Halfway
<1>2. IsBoundary(rest, n)
    BY <1>1, HeadBoundary
<1>3. PICK x, y : /\ IsSeq(x) /\ ValidUTF8(x) /\ Len(x) = n /\ rest = Cat(x, y)
                  /\ IsSeq(y) /\ Does(Take(ia, n), y, a2)
    BY <1>1, <1>2, TakeDelete
<1>4. PICK x2, y2, v2 : /\ IsSeq(x2) /\ ValidUTF8(x2) /\ Len(x2) = n
                        /\ rest = Cat(x2, y2) /\ b2 = Cat(x2, v2)
                        /\ IsSeq(y2) /\ IsSeq(v2) /\ Does(Take(ib, n), y2, v2)
    BY <1>1, <1>2, TakeRetain
<1>5. x2 = x /\ y2 = y
  <2>1. /\ Cat(x2, y2) = Cat(x, y) /\ Len(x2) = Len(x)
        /\ IsSeq(x2) /\ IsSeq(y2) /\ IsSeq(x) /\ IsSeq(y)
      BY <1>3, <1>4
  <2> QED BY <2>1, CatCancel
<1>6. Does(Delete(ap, n), Cat(b1, x), c)
    BY <1>1, <1>3, DoesDelete
<1>7. db = Cat(Cat(b1, x), v2)
    BY <1>1, <1>4, <1>5, CatAssoc DEF Does
<1> QED BY <1>1, <1>3, <1>4, <1>5, <1>6, <1>7 DEF Halfway

\* b deletes n bytes that a retains.
LEMMA HalfwayDeleteB ==
    ASSUME NEW ia, NEW ib, NEW ap, NEW bp, NEW da, NEW db,
           Halfway(ia, ib, ap, bp, da, db),
           ia # << >>, Head(ia).kind = "retain", ib # << >>, Head(ib).kind = "delete",
           NEW n, n \in 1..CompLen(Head(ia)), n \in 1..CompLen(Head(ib)),
           n = CompLen(Head(ia)) \/ n = CompLen(Head(ib))
    PROVE  Halfway(Take(ia, n), Take(ib, n), ap, Delete(bp, n), da, db)
<1>1. PICK rest, a1, a2, b1, b2, c :
        /\ Does(ia, rest, a2) /\ Does(ib, rest, b2)
        /\ da = Cat(a1, a2) /\ db = Cat(b1, b2)
        /\ Does(bp, a1, c) /\ Does(ap, b1, c)
    BY DEF Halfway
<1>2. IsBoundary(rest, n)
    BY <1>1, HeadBoundary
<1>3. PICK x, y : /\ IsSeq(x) /\ ValidUTF8(x) /\ Len(x) = n /\ rest = Cat(x, y)
                  /\ IsSeq(y) /\ Does(Take(ib, n), y, b2)
    BY <1>1, <1>2, TakeDelete
<1>4. PICK x2, y2, v2 : /\ IsSeq(x2) /\ ValidUTF8(x2) /\ Len(x2) = n
                        /\ rest = Cat(x2, y2) /\ a2 = Cat(x2, v2)
                        /\ IsSeq(y2) /\ IsSeq(v2) /\ Does(Take(ia, n), y2, v2)
    BY <1>1, <1>2, TakeRetain
<1>5. x2 = x /\ y2 = y
  <2>1. /\ Cat(x2, y2) = Cat(x, y) /\ Len(x2) = Len(x)
        /\ IsSeq(x2) /\ IsSeq(y2) /\ IsSeq(x) /\ IsSeq(y)
      BY <1>3, <1>4
  <2> QED BY <2>1, CatCancel
<1>6. Does(Delete(bp, n), Cat(a1, x), c)
    BY <1>1, <1>3, DoesDelete
<1>7. da = Cat(Cat(a1, x), v2)
    BY <1>1, <1>4, <1>5, CatAssoc DEF Does
<1> QED BY <1>1, <1>3, <1>4, <1>5, <1>6, <1>7 DEF Halfway

\* Of nothing, only an insert makes something.
LEMMA HeadOfNothing ==
    ASSUME NEW it, it # << >>, NEW d, d = << >>, NEW e, Does(it, d, e)
    PROVE  Head(it).kind = "insert"
<1>1. CompOK(Head(it))
    BY OpHead DEF Does
<1>2. PICK x, y, u, v :
              /\ IsSeq(x) /\ IsSeq(y) /\ IsSeq(u) /\ IsSeq(v)
              /\ d = Cat(x, y) /\ e = Cat(u, v)
              /\ Does(Tail(it), y, v)
              /\ \/ Head(it).kind = "retain" /\ Len(x) = Head(it).n /\ u = x
                 \/ Head(it).kind = "delete" /\ Len(x) = Head(it).n /\ u = << >>
                 \/ Head(it).kind = "insert" /\ x = << >> /\ u = Head(it).s
    BY DoesHead
<1>3. Len(x) = 0
  <2> DEFINE l == Len(x)
             m == Len(y)
             n == Len(Cat(x, y))
  <2>1. n = 0
      BY <1>2, IsSeqEmpty
  <2>2. n = l + m /\ l \in Nat /\ m \in Nat
      BY <1>2, CatOK
  <2> HIDE DEF l, m, n
  <2>3. l = 0
      BY <2>1, <2>2
  <2> QED BY <2>3 DEF l
<1> QED BY <1>1, <1>2, <1>3, CompCases

\* A state of Transform's loop, without an error.
TransformsTo(st, ia, ib, ap, bp) ==
    /\ DOMAIN st = {"ia", "ib", "ap", "bp", "ok"} /\ st.ok = TRUE
    /\ st.ia = ia /\ st.ib = ib /\ st.ap = ap /\ st.bp = bp

\* In such a state, the bytes are accounted for.
Rebasing(st, da, db) ==
    /\ DOMAIN st = {"ia", "ib", "ap", "bp", "ok"} /\ st.ok = TRUE
    /\ Halfway(st.ia, st.ib, st.ap, st.bp, da, db)

\* What the heads span in common is within both, and ends one of them.
LEMMA CommonOK ==
    ASSUME NEW ia, NEW ib, OpOK(ia), OpOK(ib), ia # << >>, ib # << >>
    PROVE  LET n == Common(ia, ib)
           IN  /\ n \in 1..CompLen(Head(ia)) /\ n \in 1..CompLen(Head(ib))
               /\ n = CompLen(Head(ia)) \/ n = CompLen(Head(ib))
               /\ Len(Take(ia, n)) \in Nat /\ Len(Take(ib, n)) \in Nat
               /\ Len(Take(ia, n)) + Len(Take(ib, n)) < Len(ia) + Len(ib)
<1> DEFINE n == Common(ia, ib)
           m == CompLen(Head(ia))
           k == CompLen(Head(ib))
<1>1. m \in Nat \ {0} /\ k \in Nat \ {0}
    BY OpHead, CompCases
<1>2. n = IF m < k THEN m ELSE k
    BY DEF Common
<1>3. /\ Len(ia) - 1 \in Nat /\ Len(ia) \in Nat
      /\ Len(ib) - 1 \in Nat /\ Len(ib) \in Nat
    BY OpHead
<1>4. Len(Take(ia, n)) = IF m <= n THEN Len(ia) - 1 ELSE Len(ia)
    BY TakeLen
<1>5. Len(Take(ib, n)) = IF k <= n THEN Len(ib) - 1 ELSE Len(ib)
    BY TakeLen
<1> HIDE DEF n, m, k
<1>6. n \in 1..m /\ n \in 1..k /\ (m <= n \/ k <= n) /\ (n = m \/ n = k)
    BY <1>1, <1>2
<1>7. /\ Len(Take(ia, n)) \in Nat /\ Len(Take(ib, n)) \in Nat
      /\ Len(Take(ia, n)) + Len(Take(ib, n)) < Len(ia) + Len(ib)
  <2> DEFINE la == Len(ia)
             lb == Len(ib)
             ta == Len(Take(ia, n))
             tb == Len(Take(ib, n))
  <2>1. la - 1 \in Nat /\ la \in Nat /\ lb - 1 \in Nat /\ lb \in Nat
      BY <1>3
  <2>2. ta = (IF m <= n THEN la - 1 ELSE la) /\ tb = (IF k <= n THEN lb - 1 ELSE lb)
      BY <1>4, <1>5
  <2> HIDE DEF la, lb, ta, tb
  <2>3. ta \in Nat /\ tb \in Nat /\ ta + tb < la + lb
      BY <1>6, <2>1, <2>2
  <2> QED BY <2>3 DEF la, lb, ta, tb
<1> QED BY <1>6, <1>7 DEF n, m, k

\* Past the head, less is left.
LEMMA TailShorter ==
    ASSUME NEW it, OpOK(it), it # << >>, NEW k \in Nat
    PROVE  /\ Len(Tail(it)) \in Nat
           /\ Len(Tail(it)) + k < Len(it) + k /\ k + Len(Tail(it)) < k + Len(it)
<1> DEFINE l == Len(it)
           t == Len(Tail(it))
<1>1. l = 1 + t /\ t \in Nat
    BY OpHead
<1> HIDE DEF l, t
<1>2. t + k < l + k /\ k + t < k + l
    BY <1>1
<1> QED BY <1>1, <1>2 DEF l, t

\* What a turn of Transform's loop does, kind by kind.
TransformCases(st, next, n, ka, kb) ==
    /\ ka = "insert" =>
          TransformsTo(next, Tail(st.ia), st.ib, Insert(st.ap, Head(st.ia).s),
                       Retain(st.bp, CompLen(Head(st.ia))))
    /\ ka # "insert" /\ kb = "insert" =>
          TransformsTo(next, st.ia, Tail(st.ib), Retain(st.ap, CompLen(Head(st.ib))),
                       Insert(st.bp, Head(st.ib).s))
    /\ ka = "retain" /\ kb = "retain" =>
          TransformsTo(next, Take(st.ia, n), Take(st.ib, n), Retain(st.ap, n), Retain(st.bp, n))
    /\ ka = "delete" /\ kb = "delete" =>
          TransformsTo(next, Take(st.ia, n), Take(st.ib, n), st.ap, st.bp)
    /\ ka = "delete" /\ kb = "retain" =>
          TransformsTo(next, Take(st.ia, n), Take(st.ib, n), Delete(st.ap, n), st.bp)
    /\ ka = "retain" /\ kb = "delete" =>
          TransformsTo(next, Take(st.ia, n), Take(st.ib, n), st.ap, Delete(st.bp, n))

\* It does that.
LEMMA TransformKinds ==
    ASSUME NEW st, DOMAIN st = {"ia", "ib", "ap", "bp", "ok"}, st.ok = TRUE
    PROVE  TransformCases(st, TransformStep(st), Common(st.ia, st.ib), Kind(st.ia), Kind(st.ib))
<1> DEFINE next == TransformStep(st)
           n == Common(st.ia, st.ib)
           ka == Kind(st.ia)
           kb == Kind(st.ib)
<1> DEFINE both == [st EXCEPT !.ia = Take(@, n), !.ib = Take(@, n)]
<1>1. ASSUME ka = "insert"
      PROVE  next = [st EXCEPT !.ia = Tail(@), !.ap = Insert(@, Head(st.ia).s),
                               !.bp = Retain(@, CompLen(Head(st.ia)))]
    BY <1>1 DEF TransformStep
<1>2. ASSUME ka # "insert", kb = "insert"
      PROVE  next = [st EXCEPT !.ib = Tail(@), !.ap = Retain(@, CompLen(Head(st.ib))),
                               !.bp = Insert(@, Head(st.ib).s)]
    BY <1>2 DEF TransformStep
<1>3. ASSUME ka = "retain", kb = "retain"
      PROVE  next = [both EXCEPT !.ap = Retain(@, n), !.bp = Retain(@, n)]
    BY <1>3 DEF TransformStep
<1>4. ASSUME ka = "delete", kb = "delete" PROVE next = both
    BY <1>4 DEF TransformStep
<1>5. ASSUME ka = "delete", kb = "retain"
      PROVE  next = [both EXCEPT !.ap = Delete(@, n)]
    BY <1>5 DEF TransformStep
<1>6. ASSUME ka = "retain", kb = "delete"
      PROVE  next = [both EXCEPT !.bp = Delete(@, n)]
    BY <1>6 DEF TransformStep
<1>7. TransformsTo(both, Take(st.ia, n), Take(st.ib, n), st.ap, st.bp)
    BY DEF TransformsTo
<1> HIDE DEF both, next, n, ka, kb
<1>8. ka = "insert" =>
         TransformsTo(next, Tail(st.ia), st.ib, Insert(st.ap, Head(st.ia).s),
                      Retain(st.bp, CompLen(Head(st.ia))))
    BY <1>1 DEF TransformsTo
<1>9. ka # "insert" /\ kb = "insert" =>
         TransformsTo(next, st.ia, Tail(st.ib), Retain(st.ap, CompLen(Head(st.ib))),
                      Insert(st.bp, Head(st.ib).s))
    BY <1>2 DEF TransformsTo
<1>10. ka = "retain" /\ kb = "retain" =>
         TransformsTo(next, Take(st.ia, n), Take(st.ib, n), Retain(st.ap, n), Retain(st.bp, n))
    BY <1>3, <1>7 DEF TransformsTo
<1>11. ka = "delete" /\ kb = "retain" =>
         TransformsTo(next, Take(st.ia, n), Take(st.ib, n), Delete(st.ap, n), st.bp)
    BY <1>5, <1>7 DEF TransformsTo
<1>12. ka = "retain" /\ kb = "delete" =>
         TransformsTo(next, Take(st.ia, n), Take(st.ib, n), st.ap, Delete(st.bp, n))
    BY <1>6, <1>7 DEF TransformsTo
<1> QED BY <1>4, <1>7, <1>8, <1>9, <1>10, <1>11, <1>12 DEF TransformCases, next, n, ka, kb

\* A turn of Transform's loop: no error, and the bytes stay accounted for.
LEMMA TransformTurn ==
    ASSUME NEW st, NEW da, NEW db, Rebasing(st, da, db), Ok(st.ia) \/ Ok(st.ib),
           NEW next, next = TransformStep(st)
    PROVE  /\ Rebasing(next, da, db)
           /\ Len(next.ia) \in Nat /\ Len(next.ib) \in Nat
           /\ Len(next.ia) + Len(next.ib) < Len(st.ia) + Len(st.ib)
<1> DEFINE ia == st.ia
           ib == st.ib
           ap == st.ap
           bp == st.bp
           n == Common(ia, ib)
<1>1. /\ DOMAIN st = {"ia", "ib", "ap", "bp", "ok"} /\ st.ok = TRUE
      /\ Halfway(ia, ib, ap, bp, da, db)
      /\ ia # << >> \/ ib # << >>
    BY DEF Rebasing, Ok
<1>2. /\ OpOK(ia) /\ OpOK(ib) /\ Len(ia) \in Nat /\ Len(ib) \in Nat
      /\ ia = << >> => Head(ib).kind = "insert"
      /\ ib = << >> => Head(ia).kind = "insert"
  <2>1. PICK rest, a1, a2, b1, b2, c :
          /\ Does(ia, rest, a2) /\ Does(ib, rest, b2)
          /\ da = Cat(a1, a2) /\ db = Cat(b1, b2)
          /\ Does(bp, a1, c) /\ Does(ap, b1, c)
      BY <1>1 DEF Halfway
  <2>2. OpOK(ia) /\ OpOK(ib) /\ Len(ia) \in Nat /\ Len(ib) \in Nat
      BY <2>1, OpIndex DEF Does
  <2>3. ASSUME ia = << >> PROVE Head(ib).kind = "insert"
    <3>1. rest = << >> /\ ib # << >>
        BY <1>1, <2>1, <2>3, DoesEmpty
    <3> QED BY <2>1, <3>1, HeadOfNothing
  <2>4. ASSUME ib = << >> PROVE Head(ia).kind = "insert"
    <3>1. rest = << >> /\ ia # << >>
        BY <1>1, <2>1, <2>4, DoesEmpty
    <3> QED BY <2>1, <3>1, HeadOfNothing
  <2> QED BY <2>2, <2>3, <2>4
<1>3. /\ ia # << >> => Head(ia).kind \in {"retain", "delete", "insert"}
      /\ ib # << >> => Head(ib).kind \in {"retain", "delete", "insert"}
    BY <1>2, OpHead, CompCases
<1>4. /\ Kind(ia) = IF ia = << >> THEN "none" ELSE Head(ia).kind
      /\ Kind(ib) = IF ib = << >> THEN "none" ELSE Head(ib).kind
    BY DEF Kind, Ok
<1>5. ASSUME NEW ja, NEW jb, NEW a, NEW b,
             TransformsTo(next, ja, jb, a, b),
             Halfway(ja, jb, a, b, da, db),
             Len(ja) \in Nat, Len(jb) \in Nat, Len(ja) + Len(jb) < Len(ia) + Len(ib)
      PROVE  /\ Rebasing(next, da, db)
             /\ Len(next.ia) \in Nat /\ Len(next.ib) \in Nat
             /\ Len(next.ia) + Len(next.ib) < Len(ia) + Len(ib)
    BY <1>5 DEF Rebasing, TransformsTo
<1> DEFINE ka == Kind(ia)
           kb == Kind(ib)
           ja == Take(ia, n)
           jb == Take(ib, n)
<1>20. /\ ka = "insert" =>
              TransformsTo(next, Tail(ia), ib, Insert(ap, Head(ia).s),
                           Retain(bp, CompLen(Head(ia))))
       /\ ka # "insert" /\ kb = "insert" =>
              TransformsTo(next, ia, Tail(ib), Retain(ap, CompLen(Head(ib))),
                           Insert(bp, Head(ib).s))
       /\ ka = "retain" /\ kb = "retain" =>
              TransformsTo(next, ja, jb, Retain(ap, n), Retain(bp, n))
       /\ ka = "delete" /\ kb = "delete" => TransformsTo(next, ja, jb, ap, bp)
       /\ ka = "delete" /\ kb = "retain" => TransformsTo(next, ja, jb, Delete(ap, n), bp)
       /\ ka = "retain" /\ kb = "delete" => TransformsTo(next, ja, jb, ap, Delete(bp, n))
  <2>1. TransformCases(st, next, n, ka, kb)
      BY <1>1, TransformKinds
  <2> HIDE DEF ka, kb, n
  <2> QED BY <2>1 DEF TransformCases
<1>6. CASE ia # << >> /\ Head(ia).kind = "insert"
  <2>1. Kind(ia) = "insert"
      BY <1>4, <1>6
  <2>2. TransformsTo(next, Tail(ia), ib, Insert(ap, Head(ia).s), Retain(bp, CompLen(Head(ia))))
      BY <1>20, <2>1
  <2>3. Halfway(Tail(ia), ib, Insert(ap, Head(ia).s), Retain(bp, CompLen(Head(ia))), da, db)
      BY <1>1, <1>6, HalfwayInsertA
  <2>4. Len(Tail(ia)) \in Nat /\ Len(Tail(ia)) + Len(ib) < Len(ia) + Len(ib)
      BY <1>2, <1>6, TailShorter
  <2> QED BY <1>2, <1>5, <2>2, <2>3, <2>4
<1>7. CASE ~(ia # << >> /\ Head(ia).kind = "insert") /\ ib # << >> /\ Head(ib).kind = "insert"
  <2>1. Kind(ia) # "insert" /\ Kind(ib) = "insert"
      BY <1>4, <1>7
  <2>2. TransformsTo(next, ia, Tail(ib), Retain(ap, CompLen(Head(ib))), Insert(bp, Head(ib).s))
      BY <1>20, <2>1
  <2>3. Halfway(ia, Tail(ib), Retain(ap, CompLen(Head(ib))), Insert(bp, Head(ib).s), da, db)
      BY <1>1, <1>7, HalfwayInsertB
  <2>4. Len(Tail(ib)) \in Nat /\ Len(ia) + Len(Tail(ib)) < Len(ia) + Len(ib)
      BY <1>2, <1>7, TailShorter
  <2> QED BY <1>2, <1>5, <2>2, <2>3, <2>4
<1>8. CASE /\ ia # << >> /\ Head(ia).kind \in {"retain", "delete"}
           /\ ib # << >> /\ Head(ib).kind \in {"retain", "delete"}
  <2>1. /\ n \in 1..CompLen(Head(ia)) /\ n \in 1..CompLen(Head(ib))
        /\ n = CompLen(Head(ia)) \/ n = CompLen(Head(ib))
        /\ Len(Take(ia, n)) \in Nat /\ Len(Take(ib, n)) \in Nat
        /\ Len(Take(ia, n)) + Len(Take(ib, n)) < Len(ia) + Len(ib)
      BY <1>2, <1>8, CommonOK
  <2>2. Kind(ia) = Head(ia).kind /\ Kind(ib) = Head(ib).kind
      BY <1>4, <1>8
  <2>3. CASE Head(ia).kind = "retain" /\ Head(ib).kind = "retain"
    <3>1. TransformsTo(next, ja, jb, Retain(ap, n), Retain(bp, n))
        BY <1>20, <2>2, <2>3
    <3> HIDE DEF n
    <3>2. Halfway(ja, jb, Retain(ap, n), Retain(bp, n), da, db)
        BY <1>1, <1>8, <2>1, <2>3, HalfwayRetains
    <3> HIDE DEF ja, jb
    <3> QED BY <1>5, <2>1, <3>1, <3>2 DEF ja, jb
  <2>4. CASE Head(ia).kind = "delete" /\ Head(ib).kind = "delete"
    <3>1. TransformsTo(next, ja, jb, ap, bp)
        BY <1>20, <2>2, <2>4
    <3> HIDE DEF n
    <3>2. Halfway(ja, jb, ap, bp, da, db)
        BY <1>1, <1>8, <2>1, <2>4, HalfwayDeletes
    <3> HIDE DEF ja, jb
    <3> QED BY <1>5, <2>1, <3>1, <3>2 DEF ja, jb
  <2>5. CASE Head(ia).kind = "delete" /\ Head(ib).kind = "retain"
    <3>1. TransformsTo(next, ja, jb, Delete(ap, n), bp)
        BY <1>20, <2>2, <2>5
    <3> HIDE DEF n
    <3>2. Halfway(ja, jb, Delete(ap, n), bp, da, db)
        BY <1>1, <1>8, <2>1, <2>5, HalfwayDeleteA
    <3> HIDE DEF ja, jb
    <3> QED BY <1>5, <2>1, <3>1, <3>2 DEF ja, jb
  <2>6. CASE Head(ia).kind = "retain" /\ Head(ib).kind = "delete"
    <3>1. TransformsTo(next, ja, jb, ap, Delete(bp, n))
        BY <1>20, <2>2, <2>6
    <3> HIDE DEF n
    <3>2. Halfway(ja, jb, ap, Delete(bp, n), da, db)
        BY <1>1, <1>8, <2>1, <2>6, HalfwayDeleteB
    <3> HIDE DEF ja, jb
    <3> QED BY <1>5, <2>1, <3>1, <3>2 DEF ja, jb
  <2> QED BY <1>8, <2>3, <2>4, <2>5, <2>6
<1>9. \/ ia # << >> /\ Head(ia).kind = "insert"
      \/ ~(ia # << >> /\ Head(ia).kind = "insert") /\ ib # << >> /\ Head(ib).kind = "insert"
      \/ /\ ia # << >> /\ Head(ia).kind \in {"retain", "delete"}
         /\ ib # << >> /\ Head(ib).kind \in {"retain", "delete"}
    BY <1>1, <1>2, <1>3
<1> QED BY <1>6, <1>7, <1>8, <1>9

\* run holds the states of Transform's loop.
TransformRun(a, b, run) ==
    /\ run[0] = [ia |-> a, ib |-> b, ap |-> New, bp |-> New, ok |-> BaseLen(a) = BaseLen(b)]
    /\ \A k \in 1..(Len(a) + Len(b)) :
          run[k] = IF run[k - 1].ok /\ (Ok(run[k - 1].ia) \/ Ok(run[k - 1].ib))
                   THEN TransformStep(run[k - 1]) ELSE run[k - 1]
    /\ TransformLoop(a, b) = run[Len(a) + Len(b)]

\* TransformLoop is the function its definition describes.
LEMMA TransformUnfold ==
    ASSUME NEW a, NEW b, IsSeq(a), IsSeq(b)
    PROVE  \E run : TransformRun(a, b, run)
<1> DEFINE N == Len(a) + Len(b)
           first == [ia |-> a, ib |-> b, ap |-> New, bp |-> New, ok |-> BaseLen(a) = BaseLen(b)]
           Step(st) == IF st.ok /\ (Ok(st.ia) \/ Ok(st.ib)) THEN TransformStep(st) ELSE st
           Loop(f, n) == f = [k \in 0..n |-> IF k = 0 THEN first ELSE Step(f[k - 1])]
           S == {n \in 0..N : \E f : Loop(f, n)}
           run == CHOOSE f : Loop(f, N)
<1>1. N \in Nat
    BY IsSeqLen
<1>2. TransformLoop(a, b) = run[N]
    BY DEF TransformLoop
<1> HIDE DEF N, Step, first
<1>3. 0 \in S
  <2>1. Loop([k \in 0..0 |-> first], 0)
      OBVIOUS
  <2> HIDE DEF Loop
  <2> QED BY <1>1, <2>1
<1>4. ASSUME NEW n \in 0..(N - 1), n \in S PROVE n + 1 \in S
  <2>1. PICK f : Loop(f, n)
      BY <1>4
  <2> DEFINE g == [k \in 0..(n + 1) |-> IF k <= n THEN f[k] ELSE Step(f[n])]
  <2>2. Loop(g, n + 1)
      BY <1>1, <2>1
  <2> HIDE DEF Loop
  <2> QED BY <1>1, <2>2
<1>5. N \in S
  <2> HIDE DEF S
  <2> QED BY <1>1, <1>3, <1>4, BoundedInduction
<1>6. Loop(run, N)
    BY <1>5
<1> HIDE DEF run
<1>7. run[0] = first /\ \A k \in 1..N : run[k] = Step(run[k - 1])
    BY <1>1, <1>6
<1> QED BY <1>2, <1>7 DEF N, Step, first, TransformRun

\* At each turn the bytes are accounted for, and at most so many are left.
LEMMA TransformKeeps ==
    ASSUME NEW a, NEW b, NEW d, NEW da, NEW db, Does(a, d, da), Does(b, d, db),
           NEW run, TransformRun(a, b, run)
    PROVE  /\ Len(a) + Len(b) \in Nat
           /\ \A k \in 0..(Len(a) + Len(b)) :
                 /\ Rebasing(run[k], da, db)
                 /\ Len(run[k].ia) \in Nat /\ Len(run[k].ib) \in Nat
                 /\ Len(run[k].ia) + Len(run[k].ib) <= (Len(a) + Len(b)) - k
<1> DEFINE N == Len(a) + Len(b)
<1>1. OpOK(a) /\ OpOK(b) /\ IsSeq(a) /\ IsSeq(b) /\ BaseLen(a) = BaseLen(b)
    BY OpIndex DEF Does
<1>2. N \in Nat
    BY <1>1, OpIndex
<1> DEFINE Left(k) == Len(run[k].ia) + Len(run[k].ib)
           Good(k) == /\ Rebasing(run[k], da, db)
                      /\ Len(run[k].ia) \in Nat /\ Len(run[k].ib) \in Nat
                      /\ Left(k) <= N - k
           S == {k \in 0..N : Good(k)}
<1>4. Good(0)
  <2>1. run[0] = [ia |-> a, ib |-> b, ap |-> << >>, bp |-> << >>, ok |-> TRUE]
      BY <1>1 DEF TransformRun, New
  <2>2. /\ DOMAIN run[0] = {"ia", "ib", "ap", "bp", "ok"} /\ run[0].ok = TRUE
        /\ run[0].ia = a /\ run[0].ib = b /\ run[0].ap = << >> /\ run[0].bp = << >>
      BY <2>1
  <2>3. Halfway(a, b, << >>, << >>, da, db)
    <3> DEFINE none == << >>
    <3>1. da = Cat(none, da) /\ db = Cat(none, db)
        BY CatUnit DEF Does
    <3>2. Does(none, none, none)
        BY DoesEmpty
    <3> HIDE DEF none
    <3>3. Halfway(a, b, none, none, da, db)
        BY <3>1, <3>2 DEF Halfway
    <3> QED BY <3>3 DEF none
  <2>4. Len(a) \in Nat /\ Len(b) \in Nat
      BY <1>1, OpIndex
  <2> QED BY <2>2, <2>3, <2>4 DEF Rebasing
<1>5. ASSUME NEW k \in 0..(N - 1), Good(k) PROVE Good(k + 1)
  <2> DEFINE st == run[k]
             next == run[k + 1]
             l == Len(st.ia)
             m == Len(st.ib)
  <2>1. k + 1 \in 1..N /\ (k + 1) - 1 = k
      BY <1>2
  <2>2. next = IF st.ok /\ (Ok(st.ia) \/ Ok(st.ib)) THEN TransformStep(st) ELSE st
      BY <2>1 DEF TransformRun
  <2>3. Rebasing(st, da, db) /\ st.ok = TRUE /\ l \in Nat /\ m \in Nat /\ l + m <= N - k
      BY <1>5 DEF Rebasing
  <2>4. CASE Ok(st.ia) \/ Ok(st.ib)
    <3>1. next = TransformStep(st)
        BY <2>2, <2>3, <2>4
    <3> DEFINE l2 == Len(next.ia)
               m2 == Len(next.ib)
    <3>2. Rebasing(next, da, db) /\ l2 \in Nat /\ m2 \in Nat /\ l2 + m2 < l + m
        BY <2>3, <2>4, <3>1, TransformTurn
    <3> HIDE DEF l, m, l2, m2, next, st, N
    <3>3. l2 + m2 <= N - (k + 1)
        BY <1>2, <2>3, <3>2
    <3> QED BY <3>2, <3>3 DEF l2, m2, next
  <2>5. CASE ~(Ok(st.ia) \/ Ok(st.ib))
    <3>1. next = st /\ l = 0 /\ m = 0
        BY <2>2, <2>5, IsSeqEmpty DEF Ok
    <3> HIDE DEF l, m, next, st, N
    <3>2. l + m <= N - (k + 1)
        BY <1>2, <2>1, <3>1
    <3> QED BY <2>3, <3>1, <3>2 DEF l, m, next, st
  <2> QED BY <2>4, <2>5
<1> HIDE DEF Good
<1>6. 0 \in S /\ \A k \in 0..(N - 1) : k \in S => k + 1 \in S
    BY <1>2, <1>4, <1>5
<1>7. 0..N \subseteq S
  <2> HIDE DEF S, N
  <2> QED BY <1>2, <1>6, BoundedInduction
<1> QED BY <1>2, <1>7 DEF Good

(***************************************************************************)
(* Of two operations on one document, Transform makes two that lead from   *)
(* what each of them made of it to one and the same document.              *)
(***************************************************************************)
THEOREM TransformConverges ==
    ASSUME NEW a, NEW b, NEW d, NEW da, NEW db, Does(a, d, da), Does(b, d, db)
    PROVE  /\ Transform(a, b).ok
           /\ \E c : Does(Transform(a, b).a, db, c) /\ Does(Transform(a, b).b, da, c)
<1> DEFINE N == Len(a) + Len(b)
<1>1. IsSeq(a) /\ IsSeq(b)
    BY OpIndex DEF Does
<1>3. PICK run : TransformRun(a, b, run)
    BY <1>1, TransformUnfold
<1>2. /\ N \in Nat
      /\ \A k \in 0..N : /\ Rebasing(run[k], da, db)
                         /\ Len(run[k].ia) \in Nat /\ Len(run[k].ib) \in Nat
                         /\ Len(run[k].ia) + Len(run[k].ib) <= N - k
    BY <1>3, TransformKeeps
<1> DEFINE last == run[N]
<1>8. /\ Rebasing(last, da, db)
      /\ Len(last.ia) \in Nat /\ Len(last.ib) \in Nat
      /\ Len(last.ia) + Len(last.ib) <= N - N
  <2> HIDE DEF N
  <2>1. N \in 0..N
      BY <1>2
  <2> QED BY <1>2, <2>1
<1>9. TransformLoop(a, b) = last
    BY <1>3 DEF TransformRun
<1> HIDE DEF N, last
<1>10. Len(last.ia) = 0 /\ Len(last.ib) = 0
  <2> DEFINE l == Len(last.ia)
             m == Len(last.ib)
  <2>1. l \in Nat /\ m \in Nat /\ l + m <= N - N
      BY <1>8
  <2> HIDE DEF l, m
  <2>2. l = 0 /\ m = 0
      BY <1>2, <2>1
  <2> QED BY <2>2 DEF l, m
<1>11. PICK rest, a1, a2, b1, b2, c :
        /\ Does(last.ia, rest, a2) /\ Does(last.ib, rest, b2)
        /\ da = Cat(a1, a2) /\ db = Cat(b1, b2)
        /\ Does(last.bp, a1, c) /\ Does(last.ap, b1, c)
    BY <1>8 DEF Rebasing, Halfway
<1>12. last.ia = << >> /\ last.ib = << >>
    BY <1>10, <1>11, OpIndex, IsSeqNone DEF Does
<1>13. a2 = << >> /\ b2 = << >>
    BY <1>11, <1>12, DoesEmpty
<1>14. da = a1 /\ db = b1
    BY <1>11, <1>13, CatUnit DEF Does
<1>15. Transform(a, b) = [a |-> last.ap, b |-> last.bp, ok |-> last.ok] /\ last.ok = TRUE
    BY <1>8, <1>9 DEF Transform, Rebasing
<1>16. Transform(a, b).ok = TRUE /\ Transform(a, b).a = last.ap /\ Transform(a, b).b = last.bp
    BY <1>15
<1> QED BY <1>11, <1>14, <1>16

---------------------------------------------------------------------------
(* Compose: one operation that does both.                                  *)

(***************************************************************************)
(* A state of Compose's loop: what a has still to do to the rest of the    *)
(* document and b to what a makes of it, and what the operation built so   *)
(* far does to the part before it.                                         *)
(***************************************************************************)
Chained(ia, ib, out, d, f) ==
    \E d1, d2, e2, f1, f2 :
        /\ Does(ia, d2, e2) /\ Does(ib, e2, f2)
        /\ d = Cat(d1, d2) /\ f = Cat(f1, f2)
        /\ Does(out, d1, f1)

\* a deletes, before b sees it.
LEMMA ChainedDeleteA ==
    ASSUME NEW ia, NEW ib, NEW out, NEW d, NEW f, Chained(ia, ib, out, d, f),
           ia # << >>, Head(ia).kind = "delete"
    PROVE  Chained(Tail(ia), ib, Delete(out, Head(ia).n), d, f)
<1>1. PICK d1, d2, e2, f1, f2 :
        /\ Does(ia, d2, e2) /\ Does(ib, e2, f2)
        /\ d = Cat(d1, d2) /\ f = Cat(f1, f2)
        /\ Does(out, d1, f1)
    BY DEF Chained
<1>2. PICK x, y : /\ IsSeq(x) /\ ValidUTF8(x) /\ Len(x) = Head(ia).n /\ d2 = Cat(x, y)
                  /\ IsSeq(y) /\ Does(Tail(ia), y, e2)
    BY <1>1, DoesHeadDelete
<1>3. Does(Delete(out, Head(ia).n), Cat(d1, x), f1)
    BY <1>1, <1>2, DoesDelete
<1>4. d = Cat(Cat(d1, x), y)
    BY <1>1, <1>2, CatAssoc DEF Does
<1> QED BY <1>1, <1>2, <1>3, <1>4 DEF Chained

\* b inserts what a never saw.
LEMMA ChainedInsertB ==
    ASSUME NEW ia, NEW ib, NEW out, NEW d, NEW f, Chained(ia, ib, out, d, f),
           ib # << >>, Head(ib).kind = "insert"
    PROVE  Chained(ia, Tail(ib), Insert(out, Head(ib).s), d, f)
<1> DEFINE s == Head(ib).s
<1>1. PICK d1, d2, e2, f1, f2 :
        /\ Does(ia, d2, e2) /\ Does(ib, e2, f2)
        /\ d = Cat(d1, d2) /\ f = Cat(f1, f2)
        /\ Does(out, d1, f1)
    BY DEF Chained
<1>2. PICK v : Does(Tail(ib), e2, v) /\ f2 = Cat(s, v) /\ IsSeq(s) /\ ValidUTF8(s)
    BY <1>1, DoesHeadInsert
<1> HIDE DEF s
<1>3. Does(Insert(out, s), d1, Cat(f1, s))
    BY <1>1, <1>2, DoesInsert
<1>4. f = Cat(Cat(f1, s), v)
    BY <1>1, <1>2, CatAssoc DEF Does
<1> QED BY <1>1, <1>2, <1>3, <1>4 DEF Chained, s

\* Both retain n bytes.
LEMMA ChainedRetains ==
    ASSUME NEW ia, NEW ib, NEW out, NEW d, NEW f, Chained(ia, ib, out, d, f),
           ia # << >>, Head(ia).kind = "retain", ib # << >>, Head(ib).kind = "retain",
           NEW n, n \in 1..CompLen(Head(ia)), n \in 1..CompLen(Head(ib)),
           n = CompLen(Head(ia)) \/ n = CompLen(Head(ib))
    PROVE  Chained(Take(ia, n), Take(ib, n), Retain(out, n), d, f)
<1>1. PICK d1, d2, e2, f1, f2 :
        /\ Does(ia, d2, e2) /\ Does(ib, e2, f2)
        /\ d = Cat(d1, d2) /\ f = Cat(f1, f2)
        /\ Does(out, d1, f1)
    BY DEF Chained
<1>2. IsBoundary(e2, n)
    BY <1>1, HeadBoundary, HeadMakesBoundary
<1>3. PICK x, y, v : /\ IsSeq(x) /\ ValidUTF8(x) /\ Len(x) = n
                     /\ d2 = Cat(x, y) /\ e2 = Cat(x, v)
                     /\ IsSeq(y) /\ IsSeq(v) /\ Does(Take(ia, n), y, v)
    BY <1>1, <1>2, TakeRetain
<1>4. PICK x2, y2, v2 : /\ IsSeq(x2) /\ ValidUTF8(x2) /\ Len(x2) = n
                        /\ e2 = Cat(x2, y2) /\ f2 = Cat(x2, v2)
                        /\ IsSeq(y2) /\ IsSeq(v2) /\ Does(Take(ib, n), y2, v2)
    BY <1>1, <1>2, TakeRetain
<1>5. x2 = x /\ y2 = v
  <2>1. /\ Cat(x2, y2) = Cat(x, v) /\ Len(x2) = Len(x)
        /\ IsSeq(x2) /\ IsSeq(y2) /\ IsSeq(x) /\ IsSeq(v)
      BY <1>3, <1>4
  <2> QED BY <2>1, CatCancel
<1>6. Does(Retain(out, n), Cat(d1, x), Cat(f1, x))
    BY <1>1, <1>3, DoesRetain
<1>7. d = Cat(Cat(d1, x), y) /\ f = Cat(Cat(f1, x), v2)
    BY <1>1, <1>3, <1>4, <1>5, CatAssoc DEF Does
<1> QED BY <1>3, <1>4, <1>5, <1>6, <1>7 DEF Chained

\* b deletes n bytes that a retains.
LEMMA ChainedDeleteB ==
    ASSUME NEW ia, NEW ib, NEW out, NEW d, NEW f, Chained(ia, ib, out, d, f),
           ia # << >>, Head(ia).kind = "retain", ib # << >>, Head(ib).kind = "delete",
           NEW n, n \in 1..CompLen(Head(ia)), n \in 1..CompLen(Head(ib)),
           n = CompLen(Head(ia)) \/ n = CompLen(Head(ib))
    PROVE  Chained(Take(ia, n), Take(ib, n), Delete(out, n), d, f)
<1>1. PICK d1, d2, e2, f1, f2 :
        /\ Does(ia, d2, e2) /\ Does(ib, e2, f2)
        /\ d = Cat(d1, d2) /\ f = Cat(f1, f2)
        /\ Does(out, d1, f1)
    BY DEF Chained
<1>2. IsBoundary(e2, n)
    BY <1>1, HeadBoundary, HeadMakesBoundary
<1>3. PICK x, y, v : /\ IsSeq(x) /\ ValidUTF8(x) /\ Len(x) = n
                     /\ d2 = Cat(x, y) /\ e2 = Cat(x, v)
                     /\ IsSeq(y) /\ IsSeq(v) /\ Does(Take(ia, n), y, v)
    BY <1>1, <1>2, TakeRetain
<1>4. PICK x2, y2 : /\ IsSeq(x2) /\ ValidUTF8(x2) /\ Len(x2) = n /\ e2 = Cat(x2, y2)
                    /\ IsSeq(y2) /\ Does(Take(ib, n), y2, f2)
    BY <1>1, <1>2, TakeDelete
<1>5. x2 = x /\ y2 = v
  <2>1. /\ Cat(x2, y2) = Cat(x, v) /\ Len(x2) = Len(x)
        /\ IsSeq(x2) /\ IsSeq(y2) /\ IsSeq(x) /\ IsSeq(v)
      BY <1>3, <1>4
  <2> QED BY <2>1, CatCancel
<1>6. Does(Delete(out, n), Cat(d1, x), f1)
    BY <1>1, <1>3, DoesDelete
<1>7. d = Cat(Cat(d1, x), y)
    BY <1>1, <1>3, CatAssoc DEF Does
<1> QED BY <1>1, <1>3, <1>4, <1>5, <1>6, <1>7 DEF Chained

\* b retains n bytes that a inserts.
LEMMA ChainedInsertA ==
    ASSUME NEW ia, NEW ib, NEW out, NEW d, NEW f, Chained(ia, ib, out, d, f),
           ia # << >>, Head(ia).kind = "insert", ib # << >>, Head(ib).kind = "retain",
           NEW n, n \in 1..CompLen(Head(ia)), n \in 1..CompLen(Head(ib)),
           n = CompLen(Head(ia)) \/ n = CompLen(Head(ib))
    PROVE  Chained(Take(ia, n), Take(ib, n), Insert(out, HeadText(ia, n)), d, f)
<1> DEFINE x == HeadText(ia, n)
<1>1. PICK d1, d2, e2, f1, f2 :
        /\ Does(ia, d2, e2) /\ Does(ib, e2, f2)
        /\ d = Cat(d1, d2) /\ f = Cat(f1, f2)
        /\ Does(out, d1, f1)
    BY DEF Chained
<1>2. IsBoundary(e2, n)
    BY <1>1, HeadBoundary, HeadMakesBoundary
<1>3. PICK v : /\ IsSeq(x) /\ ValidUTF8(x) /\ Len(x) = n
               /\ e2 = Cat(x, v) /\ Does(Take(ia, n), d2, v)
    BY <1>1, <1>2, TakeInsert
<1>4. PICK x2, y2, v2 : /\ IsSeq(x2) /\ ValidUTF8(x2) /\ Len(x2) = n
                        /\ e2 = Cat(x2, y2) /\ f2 = Cat(x2, v2)
                        /\ IsSeq(y2) /\ IsSeq(v2) /\ Does(Take(ib, n), y2, v2)
    BY <1>1, <1>2, TakeRetain
<1> HIDE DEF x
<1>5. x2 = x /\ y2 = v
  <2>1. /\ Cat(x2, y2) = Cat(x, v) /\ Len(x2) = Len(x)
        /\ IsSeq(x2) /\ IsSeq(y2) /\ IsSeq(x) /\ IsSeq(v)
      BY <1>3, <1>4 DEF Does
  <2> QED BY <2>1, CatCancel
<1>6. Does(Insert(out, x), d1, Cat(f1, x))
    BY <1>1, <1>3, DoesInsert
<1>7. f = Cat(Cat(f1, x), v2)
    BY <1>1, <1>3, <1>4, <1>5, CatAssoc DEF Does
<1> QED BY <1>1, <1>3, <1>4, <1>5, <1>6, <1>7 DEF Chained, x

\* b deletes n bytes that a inserts: nothing remains of them.
LEMMA ChainedUndone ==
    ASSUME NEW ia, NEW ib, NEW out, NEW d, NEW f, Chained(ia, ib, out, d, f),
           ia # << >>, Head(ia).kind = "insert", ib # << >>, Head(ib).kind = "delete",
           NEW n, n \in 1..CompLen(Head(ia)), n \in 1..CompLen(Head(ib)),
           n = CompLen(Head(ia)) \/ n = CompLen(Head(ib))
    PROVE  Chained(Take(ia, n), Take(ib, n), out, d, f)
<1> DEFINE x == HeadText(ia, n)
<1>1. PICK d1, d2, e2, f1, f2 :
        /\ Does(ia, d2, e2) /\ Does(ib, e2, f2)
        /\ d = Cat(d1, d2) /\ f = Cat(f1, f2)
        /\ Does(out, d1, f1)
    BY DEF Chained
<1>2. IsBoundary(e2, n)
    BY <1>1, HeadBoundary, HeadMakesBoundary
<1>3. PICK v : /\ IsSeq(x) /\ ValidUTF8(x) /\ Len(x) = n
               /\ e2 = Cat(x, v) /\ Does(Take(ia, n), d2, v)
    BY <1>1, <1>2, TakeInsert
<1>4. PICK x2, y2 : /\ IsSeq(x2) /\ ValidUTF8(x2) /\ Len(x2) = n /\ e2 = Cat(x2, y2)
                    /\ IsSeq(y2) /\ Does(Take(ib, n), y2, f2)
    BY <1>1, <1>2, TakeDelete
<1> HIDE DEF x
<1>5. x2 = x /\ y2 = v
  <2>1. /\ Cat(x2, y2) = Cat(x, v) /\ Len(x2) = Len(x)
        /\ IsSeq(x2) /\ IsSeq(y2) /\ IsSeq(x) /\ IsSeq(v)
      BY <1>3, <1>4 DEF Does
  <2> QED BY <2>1, CatCancel
<1> QED BY <1>1, <1>3, <1>4, <1>5 DEF Chained

\* Into nothing, only a delete.
LEMMA HeadToNothing ==
    ASSUME NEW it, it # << >>, NEW d, NEW e, e = << >>, Does(it, d, e)
    PROVE  Head(it).kind = "delete"
<1>1. CompOK(Head(it))
    BY OpHead DEF Does
<1>2. PICK x, y, u, v :
              /\ IsSeq(x) /\ IsSeq(y) /\ IsSeq(u) /\ IsSeq(v)
              /\ d = Cat(x, y) /\ e = Cat(u, v)
              /\ Does(Tail(it), y, v)
              /\ \/ Head(it).kind = "retain" /\ Len(x) = Head(it).n /\ u = x
                 \/ Head(it).kind = "delete" /\ Len(x) = Head(it).n /\ u = << >>
                 \/ Head(it).kind = "insert" /\ x = << >> /\ u = Head(it).s
    BY DoesHead
<1>3. Len(u) = 0
  <2> DEFINE l == Len(u)
             m == Len(v)
             n == Len(Cat(u, v))
  <2>1. n = 0
      BY <1>2, IsSeqEmpty
  <2>2. n = l + m /\ l \in Nat /\ m \in Nat
      BY <1>2, CatOK
  <2> HIDE DEF l, m, n
  <2>3. l = 0
      BY <2>1, <2>2
  <2> QED BY <2>3 DEF l
<1>4. u = << >>
    BY <1>2, <1>3, IsSeqNone
<1> QED BY <1>1, <1>2, <1>3, <1>4, CompCases

\* A state of Compose's loop, without an error.
ComposesTo(st, ia, ib, out) ==
    /\ DOMAIN st = {"ia", "ib", "out", "ok"} /\ st.ok = TRUE
    /\ st.ia = ia /\ st.ib = ib /\ st.out = out

\* A cut after n bytes of an insert would split a character of it.
SplitsCharacter(it, n) == n < CompLen(Head(it)) /\ ~RuneStart(Head(it).s[n + 1])

\* In a state without an error, the bytes are accounted for.
Composing(st, d, f) ==
    /\ DOMAIN st = {"ia", "ib", "out", "ok"} /\ st.ok = TRUE
    /\ Chained(st.ia, st.ib, st.out, d, f)

\* What a turn of Compose's loop does, kind by kind.
ComposeCases(st, next, n, ka, kb) ==
    /\ ka = "delete" =>
          ComposesTo(next, Tail(st.ia), st.ib, Delete(st.out, Head(st.ia).n))
    /\ ka # "delete" /\ kb = "insert" =>
          ComposesTo(next, st.ia, Tail(st.ib), Insert(st.out, Head(st.ib).s))
    /\ ka = "retain" /\ kb = "retain" =>
          ComposesTo(next, Take(st.ia, n), Take(st.ib, n), Retain(st.out, n))
    /\ ka = "retain" /\ kb = "delete" =>
          ComposesTo(next, Take(st.ia, n), Take(st.ib, n), Delete(st.out, n))
    /\ ka = "insert" /\ kb = "retain" /\ ~SplitsCharacter(st.ia, n) =>
          ComposesTo(next, Take(st.ia, n), Take(st.ib, n), Insert(st.out, HeadText(st.ia, n)))
    /\ ka = "insert" /\ kb = "delete" /\ ~SplitsCharacter(st.ia, n) =>
          ComposesTo(next, Take(st.ia, n), Take(st.ib, n), st.out)

\* It does that.
LEMMA ComposeKinds ==
    ASSUME NEW st, DOMAIN st = {"ia", "ib", "out", "ok"}, st.ok = TRUE
    PROVE  ComposeCases(st, ComposeStep(st), Common(st.ia, st.ib), Kind(st.ia), Kind(st.ib))
<1> DEFINE next == ComposeStep(st)
           n == Common(st.ia, st.ib)
           ka == Kind(st.ia)
           kb == Kind(st.ib)
           both == [st EXCEPT !.ia = Take(@, n), !.ib = Take(@, n)]
           splits == SplitsCharacter(st.ia, n)
<1>1. ASSUME ka = "delete"
      PROVE  next = [st EXCEPT !.ia = Tail(@), !.out = Delete(@, Head(st.ia).n)]
    BY <1>1 DEF ComposeStep
<1>2. ASSUME ka # "delete", kb = "insert"
      PROVE  next = [st EXCEPT !.ib = Tail(@), !.out = Insert(@, Head(st.ib).s)]
    BY <1>2 DEF ComposeStep
<1>3. ASSUME ka = "retain", kb = "retain"
      PROVE  next = [both EXCEPT !.out = Retain(@, n)]
    BY <1>3 DEF ComposeStep
<1>4. ASSUME ka = "retain", kb = "delete"
      PROVE  next = [both EXCEPT !.out = Delete(@, n)]
    BY <1>4 DEF ComposeStep
<1>5. ASSUME ka = "insert", kb = "retain"
      PROVE  next = IF splits THEN [st EXCEPT !.ok = FALSE]
                    ELSE [both EXCEPT !.out = Insert(@, HeadText(st.ia, n))]
    BY <1>5 DEF ComposeStep, SplitsCharacter
<1>6. ASSUME ka = "insert", kb = "delete"
      PROVE  next = IF splits THEN [st EXCEPT !.ok = FALSE] ELSE both
    BY <1>6 DEF ComposeStep, SplitsCharacter
<1>7. ComposesTo(both, Take(st.ia, n), Take(st.ib, n), st.out)
    BY DEF ComposesTo
<1> HIDE DEF both, next, n, ka, kb, splits
<1>8. ka = "delete" =>
         ComposesTo(next, Tail(st.ia), st.ib, Delete(st.out, Head(st.ia).n))
    BY <1>1 DEF ComposesTo
<1>9. ka # "delete" /\ kb = "insert" =>
         ComposesTo(next, st.ia, Tail(st.ib), Insert(st.out, Head(st.ib).s))
    BY <1>2 DEF ComposesTo
<1>10. ka = "retain" /\ kb = "retain" =>
          ComposesTo(next, Take(st.ia, n), Take(st.ib, n), Retain(st.out, n))
    BY <1>3, <1>7 DEF ComposesTo
<1>11. ka = "retain" /\ kb = "delete" =>
          ComposesTo(next, Take(st.ia, n), Take(st.ib, n), Delete(st.out, n))
    BY <1>4, <1>7 DEF ComposesTo
<1>12. ka = "insert" /\ kb = "retain" /\ ~splits =>
          ComposesTo(next, Take(st.ia, n), Take(st.ib, n), Insert(st.out, HeadText(st.ia, n)))
    BY <1>5, <1>7 DEF ComposesTo
<1>13. ka = "insert" /\ kb = "delete" /\ ~splits =>
          ComposesTo(next, Take(st.ia, n), Take(st.ib, n), st.out)
    BY <1>6, <1>7
<1> QED BY <1>8, <1>9, <1>10, <1>11, <1>12, <1>13 DEF ComposeCases, next, n, ka, kb, splits

\* b never cuts a character that a inserts.
LEMMA ChainedWhole ==
    ASSUME NEW ia, NEW ib, NEW out, NEW d, NEW f, Chained(ia, ib, out, d, f),
           ia # << >>, Head(ia).kind = "insert",
           ib # << >>, Head(ib).kind \in {"retain", "delete"},
           NEW n, n = CompLen(Head(ia)) \/ n = CompLen(Head(ib)), n <= CompLen(Head(ia))
    PROVE  ~SplitsCharacter(ia, n)
<1> DEFINE s == Head(ia).s
<1>1. PICK d2, e2, f2 : Does(ia, d2, e2) /\ Does(ib, e2, f2)
    BY DEF Chained
<1>2. IsBoundary(e2, n)
    BY <1>1, HeadBoundary, HeadMakesBoundary
<1>3. PICK v : Does(Tail(ia), d2, v) /\ e2 = Cat(s, v) /\ IsSeq(s)
    BY <1>1, DoesHeadInsert
<1>4. CompLen(Head(ia)) = Len(s) /\ Len(s) \in Nat
    BY <1>3, IsSeqLen DEF CompLen
<1>5. n \in 0..Len(s)
    BY <1>2, <1>4 DEF IsBoundary
<1> HIDE DEF s
<1>6. IsBoundary(s, n)
    BY <1>2, <1>3, <1>5, CutsOfCat DEF Does
<1> QED BY <1>4, <1>6 DEF SplitsCharacter, IsBoundary, s

\* A turn of Compose's loop: no error, and the bytes stay accounted for.
LEMMA ComposeTurn ==
    ASSUME NEW st, NEW d, NEW f, Composing(st, d, f), Ok(st.ia) \/ Ok(st.ib),
           NEW next, next = ComposeStep(st)
    PROVE  /\ Composing(next, d, f)
           /\ Len(next.ia) \in Nat /\ Len(next.ib) \in Nat
           /\ Len(next.ia) + Len(next.ib) < Len(st.ia) + Len(st.ib)
<1> DEFINE ia == st.ia
           ib == st.ib
           out == st.out
           n == Common(ia, ib)
           ka == Kind(ia)
           kb == Kind(ib)
           ja == Take(ia, n)
           jb == Take(ib, n)
<1>1. /\ DOMAIN st = {"ia", "ib", "out", "ok"} /\ st.ok = TRUE
      /\ Chained(ia, ib, out, d, f)
      /\ ia # << >> \/ ib # << >>
    BY DEF Composing, Ok
<1>2. /\ OpOK(ia) /\ OpOK(ib) /\ Len(ia) \in Nat /\ Len(ib) \in Nat
      /\ ia = << >> => Head(ib).kind = "insert"
      /\ ib = << >> => Head(ia).kind = "delete"
  <2>1. PICK d1, d2, e2, f1, f2 :
          /\ Does(ia, d2, e2) /\ Does(ib, e2, f2)
          /\ d = Cat(d1, d2) /\ f = Cat(f1, f2)
          /\ Does(out, d1, f1)
      BY <1>1 DEF Chained
  <2>2. OpOK(ia) /\ OpOK(ib) /\ Len(ia) \in Nat /\ Len(ib) \in Nat
      BY <2>1, OpIndex DEF Does
  <2>3. ASSUME ia = << >> PROVE Head(ib).kind = "insert"
    <3>1. e2 = << >> /\ ib # << >>
        BY <1>1, <2>1, <2>3, DoesEmpty
    <3> QED BY <2>1, <3>1, HeadOfNothing
  <2>4. ASSUME ib = << >> PROVE Head(ia).kind = "delete"
    <3>1. e2 = << >> /\ ia # << >>
        BY <1>1, <2>1, <2>4, DoesEmpty
    <3> QED BY <2>1, <3>1, HeadToNothing
  <2> QED BY <2>2, <2>3, <2>4
<1>3. /\ ia # << >> => Head(ia).kind \in {"retain", "delete", "insert"}
      /\ ib # << >> => Head(ib).kind \in {"retain", "delete", "insert"}
    BY <1>2, OpHead, CompCases
<1>4. /\ Kind(ia) = IF ia = << >> THEN "none" ELSE Head(ia).kind
      /\ Kind(ib) = IF ib = << >> THEN "none" ELSE Head(ib).kind
    BY DEF Kind, Ok
<1>5. ASSUME NEW la, NEW lb, NEW o, ComposesTo(next, la, lb, o),
             Chained(la, lb, o, d, f),
             Len(la) \in Nat, Len(lb) \in Nat, Len(la) + Len(lb) < Len(ia) + Len(ib)
      PROVE  /\ Composing(next, d, f)
             /\ Len(next.ia) \in Nat /\ Len(next.ib) \in Nat
             /\ Len(next.ia) + Len(next.ib) < Len(ia) + Len(ib)
    BY <1>5 DEF Composing, ComposesTo
<1>6. ComposeCases(st, next, n, ka, kb)
    BY <1>1, ComposeKinds
<1>7. CASE ia # << >> /\ Head(ia).kind = "delete"
  <2>1. ComposesTo(next, Tail(ia), ib, Delete(out, Head(ia).n))
      BY <1>4, <1>6, <1>7 DEF ComposeCases
  <2>2. Chained(Tail(ia), ib, Delete(out, Head(ia).n), d, f)
      BY <1>1, <1>7, ChainedDeleteA
  <2>3. Len(Tail(ia)) \in Nat /\ Len(Tail(ia)) + Len(ib) < Len(ia) + Len(ib)
      BY <1>2, <1>7, TailShorter
  <2> QED BY <1>2, <1>5, <2>1, <2>2, <2>3
<1>8. CASE ~(ia # << >> /\ Head(ia).kind = "delete") /\ ib # << >> /\ Head(ib).kind = "insert"
  <2>1. ComposesTo(next, ia, Tail(ib), Insert(out, Head(ib).s))
    <3>1. ka # "delete" /\ kb = "insert"
        BY <1>4, <1>8
    <3> QED BY <1>6, <3>1 DEF ComposeCases
  <2>2. Chained(ia, Tail(ib), Insert(out, Head(ib).s), d, f)
      BY <1>1, <1>8, ChainedInsertB
  <2>3. Len(Tail(ib)) \in Nat /\ Len(ia) + Len(Tail(ib)) < Len(ia) + Len(ib)
      BY <1>2, <1>8, TailShorter
  <2> QED BY <1>2, <1>5, <2>1, <2>2, <2>3
<1>9. CASE /\ ia # << >> /\ Head(ia).kind \in {"retain", "insert"}
           /\ ib # << >> /\ Head(ib).kind \in {"retain", "delete"}
  <2>1. /\ n \in 1..CompLen(Head(ia)) /\ n \in 1..CompLen(Head(ib))
        /\ n = CompLen(Head(ia)) \/ n = CompLen(Head(ib))
        /\ Len(ja) \in Nat /\ Len(jb) \in Nat
        /\ Len(ja) + Len(jb) < Len(ia) + Len(ib)
      BY <1>2, <1>9, CommonOK
  <2>2. ka = Head(ia).kind /\ kb = Head(ib).kind
      BY <1>4, <1>9
  <2> HIDE DEF n, ka, kb
  <2>3. CASE Head(ia).kind = "retain" /\ Head(ib).kind = "retain"
    <3>1. ComposesTo(next, ja, jb, Retain(out, n))
        BY <1>6, <2>2, <2>3 DEF ComposeCases
    <3>2. Chained(ja, jb, Retain(out, n), d, f)
        BY <1>1, <1>9, <2>1, <2>3, ChainedRetains
    <3> HIDE DEF ja, jb
    <3> QED BY <1>5, <2>1, <3>1, <3>2
  <2>4. CASE Head(ia).kind = "retain" /\ Head(ib).kind = "delete"
    <3>1. ComposesTo(next, ja, jb, Delete(out, n))
        BY <1>6, <2>2, <2>4 DEF ComposeCases
    <3>2. Chained(ja, jb, Delete(out, n), d, f)
        BY <1>1, <1>9, <2>1, <2>4, ChainedDeleteB
    <3> HIDE DEF ja, jb
    <3> QED BY <1>5, <2>1, <3>1, <3>2
  <2>5. CASE Head(ia).kind = "insert" /\ Head(ib).kind = "retain"
    <3>1. ComposesTo(next, ja, jb, Insert(out, HeadText(ia, n)))
      <4>1. ~SplitsCharacter(ia, n)
          BY <1>1, <1>9, <2>1, <2>5, ChainedWhole
      <4> QED BY <1>6, <2>2, <2>5, <4>1 DEF ComposeCases
    <3>2. Chained(ja, jb, Insert(out, HeadText(ia, n)), d, f)
        BY <1>1, <1>9, <2>1, <2>5, ChainedInsertA
    <3> HIDE DEF ja, jb
    <3> QED BY <1>5, <2>1, <3>1, <3>2
  <2>6. CASE Head(ia).kind = "insert" /\ Head(ib).kind = "delete"
    <3>1. ComposesTo(next, ja, jb, out)
      <4>1. ~SplitsCharacter(ia, n)
          BY <1>1, <1>9, <2>1, <2>6, ChainedWhole
      <4> QED BY <1>6, <2>2, <2>6, <4>1 DEF ComposeCases
    <3>2. Chained(ja, jb, out, d, f)
        BY <1>1, <1>9, <2>1, <2>6, ChainedUndone
    <3> HIDE DEF ja, jb
    <3> QED BY <1>5, <2>1, <3>1, <3>2
  <2> QED BY <1>9, <2>3, <2>4, <2>5, <2>6
<1>10. \/ ia # << >> /\ Head(ia).kind = "delete"
       \/ ~(ia # << >> /\ Head(ia).kind = "delete") /\ ib # << >> /\ Head(ib).kind = "insert"
       \/ /\ ia # << >> /\ Head(ia).kind \in {"retain", "insert"}
          /\ ib # << >> /\ Head(ib).kind \in {"retain", "delete"}
    BY <1>1, <1>2, <1>3
<1> QED BY <1>7, <1>8, <1>9, <1>10

\* run holds the states of Compose's loop.
ComposeRun(a, b, run) ==
    /\ run[0] = [ia |-> a, ib |-> b, out |-> New, ok |-> TargetLen(a) = BaseLen(b)]
    /\ \A k \in 1..(Len(a) + Len(b)) :
          run[k] = IF run[k - 1].ok /\ (Ok(run[k - 1].ia) \/ Ok(run[k - 1].ib))
                   THEN ComposeStep(run[k - 1]) ELSE run[k - 1]
    /\ ComposeLoop(a, b) = run[Len(a) + Len(b)]

\* ComposeLoop is the function its definition describes.
LEMMA ComposeUnfold ==
    ASSUME NEW a, NEW b, IsSeq(a), IsSeq(b)
    PROVE  \E run : ComposeRun(a, b, run)
<1> DEFINE N == Len(a) + Len(b)
           first == [ia |-> a, ib |-> b, out |-> New, ok |-> TargetLen(a) = BaseLen(b)]
           Step(st) == IF st.ok /\ (Ok(st.ia) \/ Ok(st.ib)) THEN ComposeStep(st) ELSE st
           Loop(f, n) == f = [k \in 0..n |-> IF k = 0 THEN first ELSE Step(f[k - 1])]
           S == {n \in 0..N : \E f : Loop(f, n)}
           run == CHOOSE f : Loop(f, N)
<1>1. N \in Nat
    BY IsSeqLen
<1>2. ComposeLoop(a, b) = run[N]
    BY DEF ComposeLoop
<1> HIDE DEF N, Step, first
<1>3. 0 \in S
  <2>1. Loop([k \in 0..0 |-> first], 0)
      OBVIOUS
  <2> HIDE DEF Loop
  <2> QED BY <1>1, <2>1
<1>4. ASSUME NEW n \in 0..(N - 1), n \in S PROVE n + 1 \in S
  <2>1. PICK f : Loop(f, n)
      BY <1>4
  <2> DEFINE g == [k \in 0..(n + 1) |-> IF k <= n THEN f[k] ELSE Step(f[n])]
  <2>2. Loop(g, n + 1)
      BY <1>1, <2>1
  <2> HIDE DEF Loop
  <2> QED BY <1>1, <2>2
<1>5. N \in S
  <2> HIDE DEF S
  <2> QED BY <1>1, <1>3, <1>4, BoundedInduction
<1>6. Loop(run, N)
    BY <1>5
<1> HIDE DEF run
<1>7. run[0] = first /\ \A k \in 1..N : run[k] = Step(run[k - 1])
    BY <1>1, <1>6
<1> QED BY <1>2, <1>7 DEF N, Step, first, ComposeRun

\* At each turn the bytes are accounted for, and at most so many are left.
LEMMA ComposeKeeps ==
    ASSUME NEW a, NEW b, NEW d, NEW e, NEW f, Does(a, d, e), Does(b, e, f),
           NEW run, ComposeRun(a, b, run)
    PROVE  /\ Len(a) + Len(b) \in Nat
           /\ \A k \in 0..(Len(a) + Len(b)) :
                 /\ Composing(run[k], d, f)
                 /\ Len(run[k].ia) \in Nat /\ Len(run[k].ib) \in Nat
                 /\ Len(run[k].ia) + Len(run[k].ib) <= (Len(a) + Len(b)) - k
<1> DEFINE N == Len(a) + Len(b)
<1>1. OpOK(a) /\ OpOK(b) /\ IsSeq(a) /\ IsSeq(b) /\ TargetLen(a) = BaseLen(b)
    BY OpIndex, DoesTarget
<1>2. N \in Nat
    BY <1>1, OpIndex
<1> DEFINE Left(k) == Len(run[k].ia) + Len(run[k].ib)
           Good(k) == /\ Composing(run[k], d, f)
                      /\ Len(run[k].ia) \in Nat /\ Len(run[k].ib) \in Nat
                      /\ Left(k) <= N - k
           S == {k \in 0..N : Good(k)}
<1>4. Good(0)
  <2>1. run[0] = [ia |-> a, ib |-> b, out |-> << >>, ok |-> TRUE]
      BY <1>1 DEF ComposeRun, New
  <2>2. /\ DOMAIN run[0] = {"ia", "ib", "out", "ok"} /\ run[0].ok = TRUE
        /\ run[0].ia = a /\ run[0].ib = b /\ run[0].out = << >>
      BY <2>1
  <2>3. Chained(a, b, << >>, d, f)
    <3> DEFINE none == << >>
    <3>1. d = Cat(none, d) /\ f = Cat(none, f)
        BY CatUnit DEF Does
    <3>2. Does(none, none, none)
        BY DoesEmpty
    <3> HIDE DEF none
    <3>3. Chained(a, b, none, d, f)
        BY <3>1, <3>2 DEF Chained
    <3> QED BY <3>3 DEF none
  <2>4. Len(a) \in Nat /\ Len(b) \in Nat
      BY <1>1, OpIndex
  <2> QED BY <2>2, <2>3, <2>4 DEF Composing
<1>5. ASSUME NEW k \in 0..(N - 1), Good(k) PROVE Good(k + 1)
  <2> DEFINE st == run[k]
             next == run[k + 1]
             l == Len(st.ia)
             m == Len(st.ib)
  <2>1. k + 1 \in 1..N /\ (k + 1) - 1 = k
      BY <1>2
  <2>2. next = IF st.ok /\ (Ok(st.ia) \/ Ok(st.ib)) THEN ComposeStep(st) ELSE st
      BY <2>1 DEF ComposeRun
  <2>3. Composing(st, d, f) /\ st.ok = TRUE /\ l \in Nat /\ m \in Nat /\ l + m <= N - k
      BY <1>5 DEF Composing
  <2>4. CASE Ok(st.ia) \/ Ok(st.ib)
    <3>1. next = ComposeStep(st)
        BY <2>2, <2>3, <2>4
    <3> DEFINE l2 == Len(next.ia)
               m2 == Len(next.ib)
    <3>2. Composing(next, d, f) /\ l2 \in Nat /\ m2 \in Nat /\ l2 + m2 < l + m
        BY <2>3, <2>4, <3>1, ComposeTurn
    <3> HIDE DEF l, m, l2, m2, next, st, N
    <3>3. l2 + m2 <= N - (k + 1)
        BY <1>2, <2>3, <3>2
    <3> QED BY <3>2, <3>3 DEF l2, m2, next
  <2>5. CASE ~(Ok(st.ia) \/ Ok(st.ib))
    <3>1. next = st /\ l = 0 /\ m = 0
        BY <2>2, <2>5, IsSeqEmpty DEF Ok
    <3> HIDE DEF l, m, next, st, N
    <3>2. l + m <= N - (k + 1)
        BY <1>2, <2>1, <3>1
    <3> QED BY <2>3, <3>1, <3>2 DEF l, m, next, st
  <2> QED BY <2>4, <2>5
<1> HIDE DEF Good
<1>6. 0 \in S /\ \A k \in 0..(N - 1) : k \in S => k + 1 \in S
    BY <1>2, <1>4, <1>5
<1>7. 0..N \subseteq S
  <2> HIDE DEF S, N
  <2> QED BY <1>2, <1>6, BoundedInduction
<1> QED BY <1>2, <1>7 DEF Good

(***************************************************************************)
(* Compose(a, b) succeeds on operations that follow one another, and does  *)
(* at once what a and then b do: its check that b splits no character that *)
(* a inserts (compose.go, compose.ts) never fires.                         *)
(***************************************************************************)
THEOREM ComposeDoesBoth ==
    ASSUME NEW a, NEW b, NEW d, NEW e, NEW f, Does(a, d, e), Does(b, e, f)
    PROVE  Composes(a, b) /\ Does(Compose(a, b), d, f)
<1> DEFINE N == Len(a) + Len(b)
<1>1. IsSeq(a) /\ IsSeq(b)
    BY OpIndex DEF Does
<1>3. PICK run : ComposeRun(a, b, run)
    BY <1>1, ComposeUnfold
<1>2. /\ N \in Nat
      /\ \A k \in 0..N : /\ Composing(run[k], d, f)
                         /\ Len(run[k].ia) \in Nat /\ Len(run[k].ib) \in Nat
                         /\ Len(run[k].ia) + Len(run[k].ib) <= N - k
    BY <1>3, ComposeKeeps
<1> DEFINE last == run[N]
<1>8. /\ Composing(last, d, f)
      /\ Len(last.ia) \in Nat /\ Len(last.ib) \in Nat
      /\ Len(last.ia) + Len(last.ib) <= N - N
  <2> HIDE DEF N
  <2>1. N \in 0..N
      BY <1>2
  <2> QED BY <1>2, <2>1
<1>9. Composes(a, b) = last.ok /\ Compose(a, b) = last.out
    BY <1>3 DEF ComposeRun, Composes, Compose
<1> HIDE DEF N, last
<1>10. Len(last.ia) = 0 /\ Len(last.ib) = 0
  <2> DEFINE l == Len(last.ia)
             m == Len(last.ib)
  <2>1. l \in Nat /\ m \in Nat /\ l + m <= N - N
      BY <1>8
  <2> HIDE DEF l, m
  <2>2. l = 0 /\ m = 0
      BY <1>2, <2>1
  <2> QED BY <2>2 DEF l, m
<1>11. PICK d1, d2, e2, f1, f2 :
        /\ Does(last.ia, d2, e2) /\ Does(last.ib, e2, f2)
        /\ d = Cat(d1, d2) /\ f = Cat(f1, f2)
        /\ Does(last.out, d1, f1)
    BY <1>8 DEF Composing, Chained
<1>12. last.ia = << >> /\ last.ib = << >>
    BY <1>10, <1>11, OpIndex, IsSeqNone DEF Does
<1>13. d2 = << >> /\ f2 = << >>
    BY <1>11, <1>12, DoesEmpty
<1>14. d = d1 /\ f = f1
    BY <1>11, <1>13, CatUnit DEF Does
<1>15. last.ok = TRUE
    BY <1>8 DEF Composing
<1> QED BY <1>9, <1>11, <1>14, <1>15

---------------------------------------------------------------------------
(* DiffText: the operation makes the target of the base.                   *)

\* A set of numbers up to a bound has a largest one.
LEMMA LargestIn ==
    ASSUME NEW N \in Nat, NEW S, S \subseteq 0..N, 0 \in S
    PROVE  Largest(S) \in S
<1> DEFINE T == {n \in 0..N : \E m \in S : m <= n /\ \A k \in S : k <= n => k <= m}
<1>1. 0 \in T
  <2>1. \A k \in S : k <= 0 => k <= 0
      OBVIOUS
  <2> QED BY <2>1
<1>2. ASSUME NEW n \in 0..(N - 1), n \in T PROVE n + 1 \in T
  <2>1. PICK m \in S : m <= n /\ \A k \in S : k <= n => k <= m
      BY <1>2
  <2>2. CASE n + 1 \in S
    <3>1. \A k \in S : k <= n + 1 => k <= n + 1
        OBVIOUS
    <3> QED BY <2>2, <3>1
  <2>3. CASE n + 1 \notin S
    <3>1. \A k \in S : k <= n + 1 => k <= n
        BY <2>3
    <3>2. m \in 0..N /\ m <= n + 1
        BY <2>1
    <3> QED BY <2>1, <3>1, <3>2
  <2> QED BY <2>2, <2>3
<1>3. N \in T
  <2> HIDE DEF T
  <2> QED BY <1>1, <1>2, BoundedInduction
<1>4. PICK m \in S : \A k \in S : k <= m
    BY <1>3
<1> QED BY <1>4 DEF Largest

\* A sequence is what is before a segment, the segment, and what is after it.
LEMMA ThreeParts ==
    ASSUME NEW d, IsSeq(d), NEW p \in Nat, NEW n \in Nat, p + n <= Len(d)
    PROVE  /\ d = Cat(Cat(SubSeq(d, 1, p), SubSeq(d, p + 1, Len(d) - n)), SuffixOf(d, n))
           /\ IsSeq(SubSeq(d, 1, p)) /\ Len(SubSeq(d, 1, p)) = p
           /\ IsSeq(SubSeq(d, p + 1, Len(d) - n))
           /\ Len(SubSeq(d, p + 1, Len(d) - n)) = Len(d) - n - p
           /\ IsSeq(SuffixOf(d, n)) /\ Len(SuffixOf(d, n)) = n
<1> DEFINE l == Len(d)
           m == l - n
           u == SubSeq(d, 1, m)
           z == SubSeq(d, m + 1, l)
           x == SubSeq(u, 1, p)
           y == SubSeq(u, p + 1, Len(u))
<1>1. l \in Nat /\ m \in 0..l /\ p \in 0..m
    BY IsSeqLen
<1>2. IsSeq(u) /\ Len(u) = m /\ IsSeq(z) /\ Len(z) = l - m /\ d = u \o z
    BY <1>1, IsSeqSplit
<1> HIDE DEF u, z, m
<1>3. IsSeq(x) /\ Len(x) = p /\ IsSeq(y) /\ Len(y) = Len(u) - p /\ u = x \o y
    BY <1>1, <1>2, IsSeqSplit
<1>4. SubSeq(u \o z, 1, p) = x
  <2>1. p \in (1 - 1)..Len(u) /\ 1 \in Nat \ {0}
      BY <1>1, <1>2
  <2> HIDE DEF x
  <2> QED BY <1>2, <2>1, SegmentLeft DEF x
<1>5. SubSeq(u \o z, p + 1, m) = y
  <2> DEFINE k == p + 1
  <2>1. m \in (k - 1)..Len(u) /\ k \in Nat \ {0}
      BY <1>1, <1>2
  <2> HIDE DEF y, k
  <2>2. SubSeq(u \o z, k, m) = SubSeq(u, k, m)
      BY <1>2, <2>1, SegmentLeft
  <2> QED BY <1>2, <2>2 DEF y, k
<1>6. SuffixOf(d, n) = z /\ Len(z) = n
  <2>1. l - n + 1 = m + 1 /\ l - m = n
      BY <1>1 DEF m
  <2> QED BY <1>2, <2>1 DEF SuffixOf, z
<1>7. SubSeq(d, 1, p) = x /\ SubSeq(d, p + 1, m) = y
    BY <1>2, <1>4, <1>5
<1>8. d = Cat(Cat(x, y), z)
    BY <1>2, <1>3 DEF Cat
<1> HIDE DEF x, y, l
<1>9. Len(y) = m - p
    BY <1>2, <1>3
<1> QED BY <1>2, <1>3, <1>6, <1>7, <1>8, <1>9 DEF m, l

\* Shorter than a common prefix, a prefix is common too.
LEMMA PrefixShorter ==
    ASSUME NEW s, NEW t, IsSeq(s), IsSeq(t), NEW c \in Nat, c <= Len(s), c <= Len(t),
           SubSeq(s, 1, c) = SubSeq(t, 1, c), NEW p \in 0..c
    PROVE  SubSeq(s, 1, p) = SubSeq(t, 1, p)
<1> DEFINE Prefix(q, n) == SubSeq(q, 1, n)
<1>1. ASSUME NEW q, IsSeq(q), NEW n \in Nat, n <= Len(q)
      PROVE  /\ IsSeq(Prefix(q, n)) /\ Len(Prefix(q, n)) = n
             /\ \A i \in 1..n : Prefix(q, n)[i] = q[i]
  <2>1. n \in (1 - 1)..Len(q) /\ n - 1 + 1 = n /\ \A i \in 1..n : 1 + i - 1 = i
      BY <1>1, IsSeqLen
  <2>2. /\ IsSeq(SubSeq(q, 1, n)) /\ Len(SubSeq(q, 1, n)) = n - 1 + 1
        /\ \A i \in 1..(n - 1 + 1) : SubSeq(q, 1, n)[i] = q[1 + i - 1]
      BY <1>1, <2>1, SegmentOK
  <2> QED BY <2>1, <2>2
<1>2. p \in Nat /\ p <= Len(s) /\ p <= Len(t) /\ \A i \in 1..p : i \in 1..c
    BY IsSeqLen
<1> HIDE DEF Prefix
<1>3. \A i \in 1..p : s[i] = t[i]
  <2>1. Prefix(s, c) = Prefix(t, c)
      BY DEF Prefix
  <2>2. /\ \A i \in 1..c : Prefix(s, c)[i] = s[i]
        /\ \A i \in 1..c : Prefix(t, c)[i] = t[i]
      BY <1>1
  <2> QED BY <1>2, <2>1, <2>2
<1>4. /\ IsSeq(Prefix(s, p)) /\ Len(Prefix(s, p)) = p
      /\ \A i \in 1..p : Prefix(s, p)[i] = s[i]
    BY <1>1, <1>2
<1>5. /\ IsSeq(Prefix(t, p)) /\ Len(Prefix(t, p)) = p
      /\ \A i \in 1..p : Prefix(t, p)[i] = t[i]
    BY <1>1, <1>2
<1>6. Prefix(s, p) = Prefix(t, p)
    BY <1>3, <1>4, <1>5, IsSeqEqual
<1> QED BY <1>6 DEF Prefix

\* The elements of a suffix.
LEMMA SuffixIndex ==
    ASSUME NEW q, IsSeq(q), NEW n \in Nat, n <= Len(q)
    PROVE  /\ IsSeq(SuffixOf(q, n)) /\ Len(SuffixOf(q, n)) = n
           /\ \A i \in 1..n : SuffixOf(q, n)[i] = q[Len(q) - n + i]
<1> DEFINE l == Len(q)
           m == l - n + 1
<1>1. l \in Nat /\ n <= l
    BY IsSeqLen
<1>2. /\ m \in Nat \ {0} /\ l \in (m - 1)..l /\ l - m + 1 = n
      /\ \A i \in 1..n : m + i - 1 = l - n + i
    BY <1>1
<1> HIDE DEF m
<1>3. /\ IsSeq(SubSeq(q, m, l)) /\ Len(SubSeq(q, m, l)) = l - m + 1
      /\ \A i \in 1..(l - m + 1) : SubSeq(q, m, l)[i] = q[m + i - 1]
    BY <1>2, SegmentOK
<1>4. SuffixOf(q, n) = SubSeq(q, m, l)
    BY DEF SuffixOf, m
<1> HIDE DEF l
<1> QED BY <1>2, <1>3, <1>4 DEF l

\* Shorter than a common suffix, a suffix is common too.
LEMMA SuffixShorter ==
    ASSUME NEW s, NEW t, IsSeq(s), IsSeq(t), NEW c \in Nat, c <= Len(s), c <= Len(t),
           SuffixOf(s, c) = SuffixOf(t, c), NEW n \in 0..c
    PROVE  SuffixOf(s, n) = SuffixOf(t, n)
<1> DEFINE ls == Len(s)
           lt == Len(t)
<1>1. ls \in Nat /\ lt \in Nat /\ n \in Nat /\ n <= ls /\ n <= lt /\ c <= ls /\ c <= lt
    BY IsSeqLen
<1>2. /\ \A i \in 1..c : SuffixOf(s, c)[i] = s[ls - c + i]
      /\ \A i \in 1..c : SuffixOf(t, c)[i] = t[lt - c + i]
    BY SuffixIndex
<1>3. /\ IsSeq(SuffixOf(s, n)) /\ Len(SuffixOf(s, n)) = n
      /\ \A i \in 1..n : SuffixOf(s, n)[i] = s[ls - n + i]
    BY <1>1, SuffixIndex
<1>4. /\ IsSeq(SuffixOf(t, n)) /\ Len(SuffixOf(t, n)) = n
      /\ \A i \in 1..n : SuffixOf(t, n)[i] = t[lt - n + i]
    BY <1>1, SuffixIndex
<1> HIDE DEF ls, lt
<1>5. ASSUME NEW i \in 1..n PROVE SuffixOf(s, n)[i] = SuffixOf(t, n)[i]
  <2> DEFINE j == c - n + i
  <2>1. j \in 1..c /\ ls - c + j = ls - n + i /\ lt - c + j = lt - n + i
      BY <1>1
  <2> HIDE DEF j
  <2>2. s[ls - c + j] = t[lt - c + j]
      BY <1>2, <2>1
  <2> QED BY <1>3, <1>4, <2>1, <2>2
<1> QED BY <1>3, <1>4, <1>5, IsSeqEqual

\* What a diff is made of: a common prefix and a common suffix that do not
\* overlap and cut no character of the base, and the replacement of what is
\* between them.
LEMMA DiffParts ==
    ASSUME NEW base, NEW target, IsSeq(base), IsSeq(target), ValidUTF8(base)
    PROVE  \E p, n \in Nat :
              /\ p + n <= Len(base) /\ p + n <= Len(target)
              /\ IsBoundary(base, p) /\ IsBoundary(base, Len(base) - n)
              /\ SubSeq(base, 1, p) = SubSeq(target, 1, p)
              /\ SuffixOf(base, n) = SuffixOf(target, n)
              /\ DiffText(base, target)
                    = Retain(Insert(Delete(Retain(New, p), Len(base) - n - p),
                                    SubSeq(target, p + 1, Len(target) - n)), n)
<1> DEFINE lb == Len(base)
           lt == Len(target)
           minLen == IF lb < lt THEN lb ELSE lt
           C == {n \in 0..lb : n <= lt /\ SubSeq(base, 1, n) = SubSeq(target, 1, n)}
           c == CommonPrefix(base, target)
           F == {i \in 0..c : i = 0 \/ IsBoundary(base, i)}
           p == FloorBoundary(base, c)
           room == minLen - p
           D == {n \in 0..room : SuffixOf(base, n) = SuffixOf(target, n)}
           e == CommonSuffix(base, target, room)
           G == {n \in 0..e : n > 0 => /\ IsBoundary(base, lb - n)
                                       /\ IsBoundary(target, lt - n)}
           n == Largest(G)
<1>1. lb \in Nat /\ lt \in Nat
    BY IsSeqLen
<1>2. c \in C
  <2>1. SubSeq(base, 1, 0) = SubSeq(target, 1, 0)
      BY IsSeqSplit, IsSeqNone, <1>1, IsSeqSubSeq
  <2>2. C \subseteq 0..lb /\ 0 \in C
      BY <1>1, <2>1
  <2>3. c = Largest(C)
      BY DEF CommonPrefix
  <2> HIDE DEF C, c
  <2> QED BY <1>1, <2>2, <2>3, LargestIn
<1>3. /\ c \in Nat /\ c <= lb /\ c <= lt
      /\ SubSeq(base, 1, c) = SubSeq(target, 1, c)
    BY <1>1, <1>2
<1>4. p \in F
  <2>1. F \subseteq 0..c /\ 0 \in F
      BY <1>3
  <2>2. p = Largest(F)
      BY DEF FloorBoundary
  <2> HIDE DEF F, p, c
  <2> QED BY <1>3, <2>1, <2>2, LargestIn
<1>5. p \in 0..c /\ (p = 0 \/ IsBoundary(base, p))
    BY <1>4
<1> HIDE DEF C, c, F, p
<1>6. SubSeq(base, 1, p) = SubSeq(target, 1, p)
    BY <1>3, <1>5, PrefixShorter
<1>7. room \in Nat /\ p \in Nat /\ room <= lb - p /\ room <= lt - p
    BY <1>1, <1>3, <1>5
<1> HIDE DEF room
<1>8. e \in D
  <2>1. SuffixOf(base, 0) = SuffixOf(target, 0)
    <3>1. IsSeq(SuffixOf(base, 0)) /\ Len(SuffixOf(base, 0)) = 0
        BY <1>1, SuffixIndex
    <3>2. IsSeq(SuffixOf(target, 0)) /\ Len(SuffixOf(target, 0)) = 0
        BY <1>1, SuffixIndex
    <3> QED BY <3>1, <3>2, IsSeqNone
  <2>2. D \subseteq 0..room /\ 0 \in D
      BY <1>7, <2>1
  <2>3. e = Largest(D)
      BY DEF CommonSuffix
  <2> HIDE DEF D, e
  <2> QED BY <1>7, <2>2, <2>3, LargestIn
<1>9. e \in 0..room /\ SuffixOf(base, e) = SuffixOf(target, e)
    BY <1>8
<1> HIDE DEF D, e
<1>10. n \in G
  <2>1. e \in Nat /\ G \subseteq 0..e /\ 0 \in G
      BY <1>7, <1>9
  <2> HIDE DEF G
  <2> QED BY <2>1, LargestIn
<1>11. n \in 0..e /\ (n > 0 => IsBoundary(base, lb - n))
    BY <1>10
<1>12. DiffText(base, target)
          = Retain(Insert(Delete(Retain(New, p), lb - n - p),
                          SubSeq(target, p + 1, lt - n)), n)
    BY DEF DiffText, p, c, e, room
<1> HIDE DEF n, G
<1>13. /\ n \in Nat /\ e \in Nat /\ e <= lb /\ e <= lt
       /\ p + n <= lb /\ p + n <= lt
    BY <1>1, <1>7, <1>9, <1>11
<1>14. SuffixOf(base, n) = SuffixOf(target, n)
  <2>1. e \in Nat /\ e <= Len(base) /\ e <= Len(target)
      BY <1>13
  <2> QED BY <1>9, <1>11, <2>1, SuffixShorter
<1>15. IsBoundary(base, p) /\ IsBoundary(base, lb - n)
  <2>1. ~GoesOn(base, 0)
      BY ValidEnds
  <2>2. IsBoundary(base, 0) /\ IsBoundary(base, lb)
      BY <1>1, <2>1 DEF IsBoundary, RuneStart, GoesOn
  <2> HIDE DEF lb
  <2>3. n > 0 \/ (n = 0 /\ lb - n = lb)
      BY <1>1, <1>13
  <2> QED BY <1>5, <1>11, <2>2, <2>3
<1> HIDE DEF lb, lt
<1>16. /\ p \in Nat /\ n \in Nat /\ p + n <= lb /\ p + n <= lt
       /\ IsBoundary(base, p) /\ IsBoundary(base, lb - n)
       /\ SubSeq(base, 1, p) = SubSeq(target, 1, p)
       /\ SuffixOf(base, n) = SuffixOf(target, n)
       /\ DiffText(base, target)
             = Retain(Insert(Delete(Retain(New, p), lb - n - p),
                             SubSeq(target, p + 1, lt - n)), n)
    BY <1>6, <1>7, <1>12, <1>13, <1>14, <1>15
<1> QED BY <1>16 DEF lb, lt

\* What a session resends after a reconnect turns the last confirmed text into
\* the one on its screen (session.ts, diffText), whatever the two have in
\* common: prefix and suffix never overlap, and neither ends in the middle of a
\* character, though the texts first differ at a byte that may be inside one.
THEOREM DiffTextDoes ==
    ASSUME NEW base, NEW target, IsSeq(base), IsSeq(target),
           ValidUTF8(base), ValidUTF8(target)
    PROVE  Does(DiffText(base, target), base, target)
<1>1. PICK p, n \in Nat :
              /\ p + n <= Len(base) /\ p + n <= Len(target)
              /\ IsBoundary(base, p) /\ IsBoundary(base, Len(base) - n)
              /\ SubSeq(base, 1, p) = SubSeq(target, 1, p)
              /\ SuffixOf(base, n) = SuffixOf(target, n)
              /\ DiffText(base, target)
                    = Retain(Insert(Delete(Retain(New, p), Len(base) - n - p),
                                    SubSeq(target, p + 1, Len(target) - n)), n)
    BY DiffParts
<1> DEFINE x == SubSeq(base, 1, p)
           y == SubSeq(base, p + 1, Len(base) - n)
           w == SubSeq(target, p + 1, Len(target) - n)
           z == SuffixOf(base, n)
           op0 == Retain(New, p)
           op1 == Delete(op0, Len(base) - n - p)
           op2 == Insert(op1, w)
<1>2. /\ base = Cat(Cat(x, y), z)
      /\ IsSeq(x) /\ Len(x) = p
      /\ IsSeq(y) /\ Len(y) = Len(base) - n - p
      /\ IsSeq(z) /\ Len(z) = n
    BY <1>1, ThreeParts
<1>3. target = Cat(Cat(x, w), z) /\ IsSeq(w)
  <2>1. /\ target = Cat(Cat(SubSeq(target, 1, p), w), SuffixOf(target, n))
        /\ IsSeq(w)
      BY <1>1, ThreeParts
  <2> HIDE DEF w
  <2> QED BY <1>1, <2>1
<1>4. DiffText(base, target) = Retain(op2, n)
    BY <1>1
<1> HIDE DEF x, y, w, z
<1>5. ValidUTF8(x) /\ ValidUTF8(y) /\ ValidUTF8(z)
  <2>1. IsSeq(Cat(x, y)) /\ Len(Cat(x, y)) = Len(base) - n
    <3> DEFINE l == Len(base)
               c == Len(Cat(x, y))
    <3>1. IsSeq(Cat(x, y)) /\ c = Len(x) + Len(y) /\ l \in Nat
        BY <1>2, CatOK, IsSeqLen
    <3> HIDE DEF c, l
    <3>2. c = l - n
        BY <1>1, <1>2, <3>1 DEF l
    <3> QED BY <3>1, <3>2 DEF c, l
  <2>2. ValidUTF8(Cat(x, y)) /\ ValidUTF8(z)
      BY <1>1, <1>2, <2>1, ValidCut
  <2>3. IsBoundary(Cat(x, y), p)
    <3>1. Len(x) \in 0..Len(Cat(x, y))
        BY <1>2, CatIndex
    <3> QED BY <1>1, <1>2, <2>1, <3>1, CutsOfCat
  <2> QED BY <1>2, <2>2, <2>3, ValidCut
<1>6. ValidUTF8(w)
  <2>1. ValidUTF8(Cat(x, w))
      BY <1>2, <1>3, <1>5, CatOK, CutAtText
  <2> QED BY <1>2, <1>3, <1>5, <2>1, CutAtText
<1>7. Does(op0, x, x)
    BY <1>2, <1>5, DoesKeep
<1> HIDE DEF op0
<1>8. Does(op1, Cat(x, y), x)
  <2>1. Does(Delete(op0, Len(y)), Cat(x, y), x)
      BY <1>2, <1>5, <1>7, DoesDelete
  <2> QED BY <1>2, <2>1
<1> HIDE DEF op1
<1>9. Does(op2, Cat(x, y), Cat(x, w))
    BY <1>3, <1>6, <1>8, DoesInsert
<1> HIDE DEF op2
<1>10. Does(Retain(op2, Len(z)), Cat(Cat(x, y), z), Cat(Cat(x, w), z))
    BY <1>2, <1>5, <1>9, DoesRetain
<1> QED BY <1>2, <1>3, <1>4, <1>10

\* A diff the session does not send because it is a no-op would change nothing
\* (op.go, IsNoop).
LEMMA NoopDoes ==
    ASSUME NEW op, NEW d, NEW e, Does(op, d, e), IsNoop(op)
    PROVE  e = d
<1>1. CASE op = << >>
    BY <1>1, DoesEmpty
<1>2. CASE Len(op) = 1 /\ op[1].kind = "retain"
  <2>1. OpOK(op) /\ op # << >> /\ IsSeq(d) /\ IsSeq(e)
    <3>1. OpOK(op) /\ IsSeq(d) /\ IsSeq(e)
        BY DEF Does
    <3> QED BY <1>2, <3>1, IsSeqNone, OpIndex
  <2>2. PICK o, rest : op = Cat(One(o), rest) /\ CompOK(o) /\ IsSeq(rest) /\ Len(rest) = 0 /\ o = op[1]
    <3>1. /\ op = Cat(One(Head(op)), Tail(op))
          /\ IsSeq(Tail(op)) /\ Len(op) = 1 + Len(Tail(op)) /\ Len(Tail(op)) \in Nat
          /\ Head(op) = op[1]
        BY <2>1, CatHead DEF OpOK
    <3>2. CompOK(op[1])
        BY <1>2, <2>1, OpIndex
    <3>3. Len(Tail(op)) = 0
        BY <1>2, <3>1
    <3> QED BY <3>1, <3>2, <3>3
  <2>3. op = One(o)
      BY <2>2, IsSeqNone, CatUnit, OneOK
  <2>4. o.kind = "retain" /\ o.n \in Nat \ {0} /\ o = RetainComp(o.n)
      BY <1>2, <2>2, CompCases
  <2>5. Does(<<o>>, d, e)
      BY <2>3 DEF One
  <2> QED BY <2>1, <2>2, <2>4, <2>5, DoesOne
<1> QED BY <1>1, <1>2 DEF IsNoop

\* Only the empty operation makes nothing of nothing.
LEMMA NothingDone ==
    ASSUME NEW op, NEW d, d = << >>, Does(op, d, d)
    PROVE  op = << >>
<1>1. SUFFICES ASSUME op # << >> PROVE FALSE
    OBVIOUS
<1>2. Head(op).kind = "insert"
    BY <1>1, HeadOfNothing
<1>3. Head(op).kind = "delete"
    BY <1>1, HeadToNothing
<1> QED BY <1>2, <1>3

---------------------------------------------------------------------------
(* Carets.                                                                 *)

\* The state of the caret's walk over an operation that has walked over base
\* bytes of the old document and made target bytes of the new one.
CaretAt(st, pos, base, target) ==
    /\ DOMAIN st = {"remaining", "out"}
    /\ st.remaining \in Int /\ st.out \in Int
    /\ st.remaining >= 0 => st.remaining = pos - base /\ st.out = st.remaining + target
    /\ st.remaining < 0 => st.out \in 0..target

\* One component.
LEMMA CaretStep ==
    ASSUME NEW st, NEW pos \in Nat, NEW base \in Nat, NEW target \in Nat,
           CaretAt(st, pos, base, target), NEW o, CompOK(o)
    PROVE  CaretAt(IndexStep(st, o), pos,
                   base + (IF o.kind \in {"retain", "delete"} THEN CompLen(o) ELSE 0),
                   target + (IF o.kind \in {"retain", "insert"} THEN CompLen(o) ELSE 0))
<1> DEFINE n == CompLen(o)
           next == IndexStep(st, o)
           r == st.remaining
           q == st.out
<1>1. n \in Nat /\ r \in Int /\ q \in Int
    BY CompCases DEF CaretAt
<1>2. CASE r < 0
  <2> DEFINE b == base + (IF o.kind \in {"retain", "delete"} THEN CompLen(o) ELSE 0)
             t == target + (IF o.kind \in {"retain", "insert"} THEN CompLen(o) ELSE 0)
  <2>1. next = st
      BY <1>1, <1>2 DEF IndexStep
  <2>2. q \in 0..target /\ t \in Nat /\ target <= t
      BY <1>1, <1>2 DEF CaretAt
  <2> HIDE DEF b, t
  <2>3. CaretAt(st, pos, b, t)
      BY <1>1, <1>2, <2>2 DEF CaretAt
  <2> QED BY <2>1, <2>3 DEF b, t
<1>3. CASE r >= 0 /\ o.kind = "retain"
  <2>1. n = o.n
      BY <1>3 DEF CompLen
  <2>2. next = [st EXCEPT !.remaining = @ - o.n]
      BY <1>1, <1>3 DEF IndexStep
  <2>3. DOMAIN next = {"remaining", "out"} /\ next.remaining = r - n /\ next.out = q
      BY <2>1, <2>2 DEF CaretAt
  <2>4. r = pos - base /\ q = r + target
      BY <1>3 DEF CaretAt
  <2> HIDE DEF next, n, r, q
  <2>5. CaretAt(next, pos, base + n, target + n)
      BY <1>1, <1>3, <2>3, <2>4 DEF CaretAt
  <2> QED BY <1>3, <2>5 DEF next, n
<1>4. CASE r >= 0 /\ o.kind = "insert"
  <2>1. n = Len(o.s)
      BY <1>4 DEF CompLen
  <2>2. next = [st EXCEPT !.out = @ + Len(o.s)]
      BY <1>1, <1>4 DEF IndexStep
  <2>3. DOMAIN next = {"remaining", "out"} /\ next.remaining = r /\ next.out = q + n
      BY <2>1, <2>2 DEF CaretAt
  <2>4. r = pos - base /\ q = r + target
      BY <1>4 DEF CaretAt
  <2> HIDE DEF next, n, r, q
  <2>5. CaretAt(next, pos, base + 0, target + n)
      BY <1>1, <1>4, <2>3, <2>4 DEF CaretAt
  <2> QED BY <1>4, <2>5 DEF next, n
<1>5. CASE r >= 0 /\ o.kind = "delete"
  <2> DEFINE m == IF r < n THEN r ELSE n
  <2>1. n = o.n
      BY <1>5 DEF CompLen
  <2>2. next = [remaining |-> r - n, out |-> q - m]
      BY <1>1, <1>5, <2>1 DEF IndexStep
  <2>3. DOMAIN next = {"remaining", "out"} /\ next.remaining = r - n /\ next.out = q - m
      BY <2>2
  <2>4. r = pos - base /\ q = r + target
      BY <1>5 DEF CaretAt
  <2> HIDE DEF next, n, r, q
  <2>5. CaretAt(next, pos, base + n, target + 0)
      BY <1>1, <1>5, <2>3, <2>4 DEF CaretAt
  <2> QED BY <1>5, <2>5 DEF next, n
<1> QED BY <1>1, <1>2, <1>3, <1>4, <1>5, CompCases

\* The walk, as the function its definition describes.
IndexRun(op, pos, run) ==
    /\ run[0] = [remaining |-> pos, out |-> pos]
    /\ \A k \in 1..Len(op) : run[k] = IndexStep(run[k - 1], op[k])
    /\ TransformIndex(op, pos) = IF pos < 0 \/ run[Len(op)].out < 0
                                 THEN 0 ELSE run[Len(op)].out

\* There is such a walk.
LEMMA IndexUnfold ==
    ASSUME NEW op, IsSeq(op), NEW pos
    PROVE  \E run : IndexRun(op, pos, run)
<1> DEFINE N == Len(op)
           start == [remaining |-> pos, out |-> pos]
           Step(st, k) == IndexStep(st, op[k])
           Loop(f, n) == f = [k \in 0..n |-> IF k = 0 THEN start ELSE Step(f[k - 1], k)]
           S == {n \in 0..N : \E f : Loop(f, n)}
           run == CHOOSE f : Loop(f, N)
<1>1. N \in Nat
    BY IsSeqLen
<1>2. TransformIndex(op, pos) = IF pos < 0 \/ run[N].out < 0 THEN 0 ELSE run[N].out
    BY DEF TransformIndex
<1> HIDE DEF N, Step, start
<1>3. 0 \in S
  <2>1. Loop([k \in 0..0 |-> start], 0)
      OBVIOUS
  <2> HIDE DEF Loop
  <2> QED BY <1>1, <2>1
<1>4. ASSUME NEW n \in 0..(N - 1), n \in S PROVE n + 1 \in S
  <2>1. PICK f : Loop(f, n)
      BY <1>4
  <2> DEFINE g == [k \in 0..(n + 1) |-> IF k <= n THEN f[k] ELSE Step(f[n], n + 1)]
  <2>2. Loop(g, n + 1)
      BY <1>1, <2>1
  <2> HIDE DEF Loop
  <2> QED BY <1>1, <2>2
<1>5. N \in S
  <2> HIDE DEF S
  <2> QED BY <1>1, <1>3, <1>4, BoundedInduction
<1>6. Loop(run, N)
    BY <1>5
<1> HIDE DEF run
<1>7. run[0] = start /\ \A k \in 1..N : run[k] = Step(run[k - 1], k)
    BY <1>1, <1>6
<1>8. IndexRun(op, pos, run)
    BY <1>2, <1>7 DEF IndexRun, N, Step, start
<1> QED BY <1>8

\* A caret that was inside the document before an operation is inside it after
\* it (cursor.go, TransformIndex).
THEOREM CaretStaysInside ==
    ASSUME NEW op, NEW d, NEW e, Does(op, d, e), NEW pos \in 0..Len(d)
    PROVE  TransformIndex(op, pos) \in 0..Len(e)
<1> DEFINE N == Len(op)
           base == BaseAt(op)
           target == LengthAt(op, {"retain", "insert"})
<1>1. /\ OpOK(op) /\ N \in Nat /\ pos \in Nat /\ Len(d) = base[N] /\ Len(e) = target[N]
      /\ Len(d) \in Nat /\ Len(e) \in Nat
    BY DoesTarget, OpIndex, IsSeqLen DEF BaseLen, TargetLen
<1>2. \A k \in 1..N : CompOK(op[k])
    BY <1>1, OpIndex
<1>3. /\ base[0] = 0 /\ target[0] = 0
      /\ \A k \in 1..N : /\ base[k] = LengthStep(op, {"retain", "delete"}, base[k - 1], k)
                         /\ target[k] = LengthStep(op, {"retain", "insert"}, target[k - 1], k)
    BY <1>1, OpIndex, LengthUnfold DEF BaseAt
<1>4. \A k \in 0..N : base[k] \in Nat /\ target[k] \in Nat
    BY <1>1, LengthNat DEF BaseAt
<1>5. PICK run : IndexRun(op, pos, run)
    BY <1>1, OpIndex, IndexUnfold
<1> DEFINE S == {k \in 0..N : CaretAt(run[k], pos, base[k], target[k])}
<1>6. 0 \in S
    BY <1>1, <1>3, <1>5 DEF CaretAt, IndexRun
<1>7. ASSUME NEW n \in 0..(N - 1), n \in S PROVE n + 1 \in S
  <2> DEFINE k == n + 1
  <2>1. k \in 1..N /\ k - 1 = n /\ k \in 0..N /\ n \in 0..N
      BY <1>1
  <2>2. run[k] = IndexStep(run[n], op[k])
      BY <1>5, <2>1 DEF IndexRun
  <2>3. /\ base[k] = LengthStep(op, {"retain", "delete"}, base[n], k)
        /\ target[k] = LengthStep(op, {"retain", "insert"}, target[n], k)
      BY <1>3, <2>1
  <2>4. base[n] \in Nat /\ target[n] \in Nat /\ CompOK(op[k])
      BY <1>2, <1>4, <2>1
  <2>5. CaretAt(run[n], pos, base[n], target[n])
      BY <1>7
  <2> HIDE DEF base, target, k
  <2>6. CaretAt(run[k], pos, base[k], target[k])
      BY <1>1, <2>2, <2>3, <2>4, <2>5, CaretStep DEF LengthStep
  <2> QED BY <2>1, <2>6 DEF k
<1>8. N \in S
  <2>1. N \in 0..N /\ N \in Nat
      BY <1>1
  <2> HIDE DEF S, N
  <2>2. 0..N \subseteq S
      BY <1>6, <1>7, <2>1, BoundedInduction
  <2> QED BY <2>1, <2>2
<1> DEFINE st == run[N]
<1>9. CaretAt(st, pos, Len(d), Len(e))
    BY <1>1, <1>8
<1>10. TransformIndex(op, pos) = IF pos < 0 \/ st.out < 0 THEN 0 ELSE st.out
    BY <1>5 DEF IndexRun
<1> HIDE DEF st, base, target, N
<1>11. st.out \in 0..Len(e)
    BY <1>1, <1>9 DEF CaretAt
<1> QED BY <1>1, <1>10, <1>11

---------------------------------------------------------------------------
(* Applying an operation (op.go, Apply).                                   *)

\* What an operation does, Apply does without an error: none of its checks
\* fires.
LEMMA DoesApplies ==
    ASSUME NEW op, NEW d, NEW e, Does(op, d, e)
    PROVE  Applies(op, d) /\ Apply(op, d) = e
<1>1. Len(op) \in Nat /\ DOMAIN op = 1..Len(op)
    BY OpIndex DEF Does
<1>2. \A k \in DOMAIN op : k \in 0..Len(op)
    BY <1>1
<1>3. BoundariesHold(op, d)
    BY <1>2 DEF BoundariesHold, Does, Whole
<1> QED BY <1>3, DoesTexts DEF Applies, Does

---------------------------------------------------------------------------
(* What the editor bridge replaces.                                        *)

\* Backing off from the middle of a character, at the front and at the back.
LEMMA TrimFront ==
    ASSUME NEW q, IsSeq(q), ValidUTF8(q), NEW c \in 0..Len(q), Lead \cap Cont = {}
    PROVE  LET p == IF c > 0 /\ q[c] \in Lead THEN c - 1 ELSE c
           IN  p \in 0..c /\ IsBoundary(q, p)
<1>1. Len(q) \in Nat /\ c \in Nat
    BY IsSeqLen
<1>2. ASSUME c > 0, q[c] \in Lead PROVE c - 1 \in 0..c /\ IsBoundary(q, c - 1)
  <2>1. q[c] \notin Cont /\ (c - 1) + 1 = c
      BY <1>1, <1>2
  <2> QED BY <1>1, <1>2, <2>1 DEF IsBoundary, RuneStart
<1>3. ASSUME ~(c > 0 /\ q[c] \in Lead) PROVE IsBoundary(q, c)
    BY <1>1, <1>3 DEF IsBoundary, RuneStart, ValidUTF8
<1> QED BY <1>1, <1>2, <1>3

LEMMA TrimBack ==
    ASSUME NEW q, IsSeq(q), ValidUTF8(q), NEW c \in 0..Len(q), Lead \cap Cont = {}
    PROVE  LET n == IF c > 0 /\ q[Len(q) - c + 1] \in Cont THEN c - 1 ELSE c
           IN  n \in 0..c /\ IsBoundary(q, Len(q) - n)
<1> DEFINE L == Len(q)
           i == L - c + 1
<1>1. L \in Nat /\ c \in Nat /\ c <= L
    BY IsSeqLen
<1>2. ASSUME c > 0, q[i] \in Cont PROVE c - 1 \in 0..c /\ IsBoundary(q, L - (c - 1))
  <2>1. q[i] \notin Lead /\ L - (c - 1) = i /\ i \in 0..L
      BY <1>1, <1>2
  <2>2. IsBoundary(q, i)
    <3> HIDE DEF i
    <3> QED BY <1>1, <2>1 DEF IsBoundary, RuneStart, ValidUTF8
  <2>3. c - 1 \in 0..c
      BY <1>1, <1>2
  <2> QED BY <2>1, <2>2, <2>3
<1>3. ASSUME ~(c > 0 /\ q[i] \in Cont) PROVE IsBoundary(q, L - c)
    BY <1>1, <1>3 DEF IsBoundary, RuneStart
<1> QED BY <1>1, <1>2, <1>3

\* What the editor bridge replaces.
LEMMA ChangeParts ==
    ASSUME NEW old, NEW new, IsSeq(old), IsSeq(new), ValidUTF8(old), ValidUTF8(new), old # new,
           Lead \cap Cont = {}
    PROVE  \E p, n \in Nat :
              /\ p + n <= Len(old) /\ p + n <= Len(new)
              /\ IsBoundary(old, p) /\ IsBoundary(old, Len(old) - n)
              /\ IsBoundary(new, p) /\ IsBoundary(new, Len(new) - n)
              /\ SubSeq(old, 1, p) = SubSeq(new, 1, p)
              /\ SuffixOf(old, n) = SuffixOf(new, n)
              /\ ComputeTextChange(old, new)
                    = <<[from |-> p, to |-> Len(old) - n,
                         insert |-> SubSeq(new, p + 1, Len(new) - n)]>>
<1> DEFINE lo == Len(old)
           ln == Len(new)
           m == IF lo < ln THEN lo ELSE ln
           C == {k \in 0..lo : k <= ln /\ SubSeq(old, 1, k) = SubSeq(new, 1, k)}
           c == CommonPrefix(old, new)
           p == IF c > 0 /\ old[c] \in Lead THEN c - 1 ELSE c
           D == {k \in 0..(m - p) : SuffixOf(old, k) = SuffixOf(new, k)}
           t == CommonSuffix(old, new, m - p)
           n == IF t > 0 /\ old[lo - t + 1] \in Cont THEN t - 1 ELSE t
<1>1. lo \in Nat /\ ln \in Nat
    BY IsSeqLen
<1>2. c \in 0..lo /\ c <= ln /\ SubSeq(old, 1, c) = SubSeq(new, 1, c)
  <2>1. 0 \in C /\ C \subseteq 0..lo
    <3>1. SubSeq(old, 1, 0) = << >> /\ SubSeq(new, 1, 0) = << >>
      <4>1. ASSUME NEW s, IsSeq(s) PROVE SubSeq(s, 1, 0) = << >>
        <5>1. 0 \in 0..Len(s)
            BY <4>1, IsSeqLen
        <5>2. IsSeq(SubSeq(s, 1, 0)) /\ Len(SubSeq(s, 1, 0)) = 0
            BY <4>1, <5>1, IsSeqSplit
        <5> QED BY <5>2, IsSeqNone
      <4> QED BY <4>1
    <3> QED BY <1>1, <3>1
  <2>2. c = Largest(C)
      BY DEF CommonPrefix
  <2> HIDE DEF C, c, lo
  <2>3. c \in C
      BY <1>1, <2>1, <2>2, LargestIn
  <2> QED BY <2>3 DEF C
<1>3. c > 0 => old[c] = new[c]
  <2>1. ASSUME c > 0 PROVE old[c] = new[c]
    <3> DEFINE x == SubSeq(old, 1, c)
               y == SubSeq(new, 1, c)
               j == 1
    <3>1. j \in Nat \ {0} /\ c \in (j - 1)..lo /\ c \in (j - 1)..ln /\ c \in 1..(c - j + 1)
          /\ j + c - 1 = c
        BY <1>1, <1>2, <2>1
    <3> HIDE DEF c, j
    <3>2. SubSeq(old, j, c)[c] = old[j + c - 1] /\ SubSeq(new, j, c)[c] = new[j + c - 1]
        BY <3>1, SegmentOK
    <3> QED BY <1>2, <3>1, <3>2 DEF j
  <2> QED BY <2>1
<1> HIDE DEF c, C
<1>4. p \in 0..c /\ IsBoundary(old, p)
    BY <1>2, TrimFront
<1>5. IsBoundary(new, p)
  <2>1. c \in 0..Len(new)
      BY <1>1, <1>2
  <2>2. p = IF c > 0 /\ new[c] \in Lead THEN c - 1 ELSE c
      BY <1>3
  <2> HIDE DEF p
  <2> QED BY <2>1, <2>2, TrimFront
<1> HIDE DEF p
<1>6. m \in Nat /\ m - p \in Nat /\ m <= lo /\ m <= ln /\ p \in Nat
    BY <1>1, <1>2, <1>4
<1> HIDE DEF m
<1>7. t \in 0..(m - p) /\ SuffixOf(old, t) = SuffixOf(new, t)
  <2>1. 0 \in D /\ D \subseteq 0..(m - p)
    <3>1. SuffixOf(old, 0) = << >> /\ SuffixOf(new, 0) = << >>
      <4>1. ASSUME NEW s, IsSeq(s) PROVE SuffixOf(s, 0) = << >>
        <5>1. 0 \in Nat /\ 0 <= Len(s)
            BY <4>1, IsSeqLen
        <5>2. IsSeq(SuffixOf(s, 0)) /\ Len(SuffixOf(s, 0)) = 0
            BY <4>1, <5>1, SuffixIndex
        <5> QED BY <5>2, IsSeqNone
      <4> QED BY <4>1
    <3> QED BY <1>6, <3>1
  <2>2. t = Largest(D)
      BY DEF CommonSuffix
  <2> HIDE DEF D, t
  <2>3. t \in D
      BY <1>6, <2>1, <2>2, LargestIn
  <2> QED BY <2>3 DEF D
<1>8. t \in Nat /\ t <= lo /\ t <= ln /\ p + t <= lo /\ p + t <= ln
  <2>1. t \in 0..(m - p)
      BY <1>7
  <2> HIDE DEF t, lo, ln
  <2> QED BY <1>1, <1>6, <2>1
<1>9. t > 0 => old[lo - t + 1] = new[ln - t + 1]
  <2>1. ASSUME t > 0 PROVE old[lo - t + 1] = new[ln - t + 1]
    <3>1. 1 \in 1..t
        BY <1>8, <2>1
    <3> HIDE DEF t
    <3>2. SuffixOf(old, t)[1] = old[lo - t + 1] /\ SuffixOf(new, t)[1] = new[ln - t + 1]
        BY <1>8, <3>1, SuffixIndex
    <3> QED BY <1>7, <3>2
  <2> QED BY <2>1
<1> HIDE DEF t, D
<1>10. n \in 0..t /\ IsBoundary(old, lo - n)
  <2>1. t \in 0..Len(old)
      BY <1>8
  <2> QED BY <2>1, TrimBack
<1>11. IsBoundary(new, ln - n)
  <2>1. t \in 0..Len(new)
      BY <1>8
  <2>2. n = IF t > 0 /\ new[ln - t + 1] \in Cont THEN t - 1 ELSE t
      BY <1>9
  <2> HIDE DEF n
  <2> QED BY <2>1, <2>2, TrimBack
<1>12. ComputeTextChange(old, new)
          = <<[from |-> p, to |-> lo - n, insert |-> SubSeq(new, p + 1, ln - n)]>>
    BY DEF ComputeTextChange, c, p, m, t
<1> HIDE DEF n
<1>13. n \in Nat /\ p + n <= lo /\ p + n <= ln
    BY <1>1, <1>6, <1>8, <1>10
<1>14. SubSeq(old, 1, p) = SubSeq(new, 1, p)
  <2>1. c \in Nat /\ c <= Len(old) /\ c <= Len(new)
      BY <1>1, <1>2
  <2> QED BY <1>2, <1>4, <2>1, PrefixShorter
<1>15. SuffixOf(old, n) = SuffixOf(new, n)
  <2>1. t \in Nat /\ t <= Len(old) /\ t <= Len(new)
      BY <1>8
  <2> QED BY <1>7, <1>10, <2>1, SuffixShorter
<1> QED BY <1>4, <1>5, <1>6, <1>10, <1>11, <1>12, <1>13, <1>14, <1>15

\* The bridge's replacement makes the new text, and cuts no character.
LEMMA ChangeMakesText ==
    ASSUME NEW old, NEW new, IsSeq(old), IsSeq(new), ValidUTF8(old), ValidUTF8(new), old # new,
           Lead \cap Cont = {},
           NEW change, change = ComputeTextChange(old, new)
    PROVE  /\ ApplyTextChange(old, change[1]) = new
           /\ IsBoundary(old, change[1].from) /\ IsBoundary(old, change[1].to)
           /\ change[1].from <= change[1].to
           /\ ValidUTF8(change[1].insert)
<1>1. PICK p, n \in Nat :
              /\ p + n <= Len(old) /\ p + n <= Len(new)
              /\ IsBoundary(old, p) /\ IsBoundary(old, Len(old) - n)
              /\ IsBoundary(new, p) /\ IsBoundary(new, Len(new) - n)
              /\ SubSeq(old, 1, p) = SubSeq(new, 1, p)
              /\ SuffixOf(old, n) = SuffixOf(new, n)
              /\ change = <<[from |-> p, to |-> Len(old) - n,
                             insert |-> SubSeq(new, p + 1, Len(new) - n)]>>
    BY ChangeParts
<1> DEFINE w == SubSeq(new, p + 1, Len(new) - n)
           to == Len(old) - n
<1>2. Len(old) \in Nat /\ Len(new) \in Nat
    BY IsSeqLen
<1>3. change[1].from = p /\ change[1].to = to /\ change[1].insert = w
  <2>1. change[1] = [from |-> p, to |-> to, insert |-> w]
    <3> DEFINE r == [from |-> p, to |-> to, insert |-> w]
    <3>1. change = <<r>>
        BY <1>1
    <3> HIDE DEF r
    <3>2. change[1] = r
        BY <3>1, IsSeqOne
    <3> QED BY <3>2 DEF r
  <2> HIDE DEF w, to
  <2> QED BY <2>1
<1>4. ValidUTF8(w)
  <2>1. Len(new) - n \in 0..Len(new) /\ p \in 0..(Len(new) - n)
      BY <1>1, <1>2
  <2> QED BY <1>1, <2>1, ValidSegment
<1>5. ApplyTextChange(old, change[1]) = new
  <2>1. new = Cat(Cat(SubSeq(new, 1, p), w), SuffixOf(new, n))
      BY <1>1, ThreeParts
  <2>2. SuffixOf(old, n) = SubSeq(old, to + 1, Len(old))
      BY DEF SuffixOf
  <2>3. ApplyTextChange(old, change[1])
           = Cat(Cat(SubSeq(old, 1, p), w), SubSeq(old, to + 1, Len(old)))
    <3> HIDE DEF w, to
    <3> QED BY <1>3 DEF ApplyTextChange, Cat
  <2> HIDE DEF w, to
  <2> QED BY <1>1, <2>1, <2>2, <2>3
<1>6. p <= to
    BY <1>1, <1>2
<1> QED BY <1>1, <1>3, <1>4, <1>5, <1>6

---------------------------------------------------------------------------
(* What an operation inserts.                                              *)

\* The bytes operation op inserts, in their order.
Inserted(op) ==
    LET at[k \in 0..Len(op)] ==
            IF k = 0 THEN << >>
            ELSE IF op[k].kind = "insert" THEN Cat(at[k - 1], op[k].s) ELSE at[k - 1]
    IN  at[Len(op)]

\* Its recursion, as the function its definition describes.
InsertedRun(op, at) ==
    /\ at[0] = << >>
    /\ \A k \in 1..Len(op) :
          at[k] = IF op[k].kind = "insert" THEN Cat(at[k - 1], op[k].s) ELSE at[k - 1]
    /\ Inserted(op) = at[Len(op)]

\* There is such a function.
LEMMA InsertedUnfold ==
    ASSUME NEW op, OpOK(op)
    PROVE  \E at : InsertedRun(op, at)
<1> DEFINE N == Len(op)
           start == << >>
           Step(t, k) == IF op[k].kind = "insert" THEN Cat(t, op[k].s) ELSE t
           Loop(f, m) == f = [k \in 0..m |-> IF k = 0 THEN start ELSE Step(f[k - 1], k)]
           S == {m \in 0..N : \E f : Loop(f, m)}
           at == CHOOSE f : Loop(f, N)
<1>1. N \in Nat
    BY OpIndex
<1>2. Inserted(op) = at[N]
    BY DEF Inserted
<1> HIDE DEF N, Step, start
<1>3. 0 \in S
  <2>1. Loop([k \in 0..0 |-> start], 0)
      OBVIOUS
  <2> HIDE DEF Loop
  <2> QED BY <1>1, <2>1
<1>4. ASSUME NEW m \in 0..(N - 1), m \in S PROVE m + 1 \in S
  <2>1. PICK f : Loop(f, m)
      BY <1>4
  <2> DEFINE g == [k \in 0..(m + 1) |-> IF k <= m THEN f[k] ELSE Step(f[m], m + 1)]
  <2>2. Loop(g, m + 1)
      BY <1>1, <2>1
  <2> HIDE DEF Loop
  <2> QED BY <1>1, <2>2
<1>5. N \in S
  <2> HIDE DEF S
  <2> QED BY <1>1, <1>3, <1>4, BoundedInduction
<1>6. Loop(at, N)
    BY <1>5
<1> HIDE DEF at
<1>7. at[0] = start /\ \A k \in 1..N : at[k] = Step(at[k - 1], k)
    BY <1>1, <1>6
<1>8. InsertedRun(op, at)
    BY <1>2, <1>7 DEF InsertedRun, N, Step, start
<1> QED BY <1>8

\* It is a sequence, however far one gets.
LEMMA InsertedRunOK ==
    ASSUME NEW op, OpOK(op), NEW at, InsertedRun(op, at)
    PROVE  \A k \in 0..Len(op) : IsSeq(at[k])
<1> DEFINE N == Len(op)
           S == {k \in 0..N : IsSeq(at[k])}
<1>1. N \in Nat /\ \A k \in 1..N : CompOK(op[k])
    BY OpIndex
<1> HIDE DEF N
<1>2. /\ at[0] = << >>
      /\ \A k \in 1..N :
            at[k] = IF op[k].kind = "insert" THEN Cat(at[k - 1], op[k].s) ELSE at[k - 1]
    BY DEF InsertedRun, N
<1>3. 0 \in S
    BY <1>1, <1>2, IsSeqEmpty
<1>4. ASSUME NEW k \in 0..(N - 1), k \in S PROVE k + 1 \in S
  <2> DEFINE j == k + 1
  <2>1. j \in 1..N /\ j - 1 = k /\ j \in 0..N
      BY <1>1
  <2>2. IsSeq(at[k])
      BY <1>4
  <2> HIDE DEF j
  <2>3. CASE op[j].kind = "insert"
    <3>1. IsSeq(op[j].s)
        BY <1>1, <2>1, <2>3, CompCases
    <3>2. at[j] = Cat(at[k], op[j].s)
        BY <1>2, <2>1, <2>3
    <3>3. IsSeq(at[j])
        BY <2>2, <3>1, <3>2, CatOK
    <3> QED BY <2>1, <3>3 DEF j
  <2>4. CASE op[j].kind # "insert"
    <3>1. at[j] = at[k]
        BY <1>2, <2>1, <2>4
    <3> QED BY <2>1, <2>2, <3>1 DEF j
  <2> QED BY <2>3, <2>4
<1>5. 0..N \subseteq S
  <2> HIDE DEF S
  <2> QED BY <1>1, <1>3, <1>4, BoundedInduction
<1> QED BY <1>5 DEF N

\* It is a sequence.
LEMMA InsertedOK ==
    ASSUME NEW op, OpOK(op) PROVE IsSeq(Inserted(op))
<1>1. PICK at : InsertedRun(op, at)
    BY InsertedUnfold
<1>2. Len(op) \in 0..Len(op)
    BY OpIndex
<1> QED BY <1>1, <1>2, InsertedRunOK DEF InsertedRun

\* The empty operation inserts nothing.
LEMMA InsertedNothing == Inserted(<< >>) = << >>
<1>1. PICK at : InsertedRun(<< >>, at)
    BY OpEmpty, InsertedUnfold
<1> QED BY <1>1, OpEmpty DEF InsertedRun

\* One component.
LEMMA InsertedOne ==
    ASSUME NEW o, CompOK(o)
    PROVE  Inserted(One(o)) = IF o.kind = "insert" THEN o.s ELSE << >>
<1> DEFINE op == One(o)
<1>1. OpOK(op) /\ Len(op) = 1 /\ op[1] = o
    BY OpOne DEF One
<1> HIDE DEF op
<1>2. PICK at : InsertedRun(op, at)
    BY <1>1, InsertedUnfold
<1>3. at[0] = << >> /\ Inserted(op) = at[1]
      /\ at[1] = IF o.kind = "insert" THEN Cat(at[0], o.s) ELSE at[0]
  <2>1. 1 \in 1..1 /\ 1 - 1 = 0
      OBVIOUS
  <2> QED BY <1>1, <1>2, <2>1 DEF InsertedRun
<1>4. o.kind = "insert" => Cat(<< >>, o.s) = o.s
    BY CompCases, CatUnit
<1> QED BY <1>3, <1>4 DEF op

\* Two operations, one after the other.
LEMMA InsertedCat ==
    ASSUME NEW p, NEW q, OpOK(p), OpOK(q)
    PROVE  OpOK(Cat(p, q)) /\ Inserted(Cat(p, q)) = Cat(Inserted(p), Inserted(q))
<1> DEFINE r == Cat(p, q)
           m == Len(p)
           n == Len(q)
<1>1. /\ OpOK(r) /\ Len(r) = m + n /\ m \in Nat /\ n \in Nat
      /\ \A k \in 1..m : r[k] = p[k]
      /\ \A k \in 1..n : r[m + k] = q[k]
    BY OpConcat DEF Cat
<1> HIDE DEF r
<1>2. PICK u : InsertedRun(p, u)
    BY InsertedUnfold
<1>3. PICK v : InsertedRun(q, v)
    BY InsertedUnfold
<1>4. PICK w : InsertedRun(r, w)
    BY <1>1, InsertedUnfold
<1>5. \A k \in 0..n : IsSeq(v[k])
    BY <1>3, InsertedRunOK
<1>6. IsSeq(Inserted(p))
    BY InsertedOK
<1>7. \A k \in 1..n : CompOK(q[k])
    BY OpIndex
<1> HIDE DEF m, n
<1>8. /\ u[0] = << >> /\ Inserted(p) = u[m]
      /\ \A k \in 1..m :
            u[k] = IF p[k].kind = "insert" THEN Cat(u[k - 1], p[k].s) ELSE u[k - 1]
    BY <1>2 DEF InsertedRun, m
<1>9. /\ v[0] = << >> /\ Inserted(q) = v[n]
      /\ \A k \in 1..n :
            v[k] = IF q[k].kind = "insert" THEN Cat(v[k - 1], q[k].s) ELSE v[k - 1]
    BY <1>3 DEF InsertedRun, n
<1>10. /\ w[0] = << >> /\ Inserted(r) = w[m + n]
       /\ \A k \in 1..(m + n) :
            w[k] = IF r[k].kind = "insert" THEN Cat(w[k - 1], r[k].s) ELSE w[k - 1]
    BY <1>1, <1>4 DEF InsertedRun
<1>11. w[m] = Inserted(p)
  <2> DEFINE S == {k \in 0..m : w[k] = u[k]}
  <2>1. 0 \in S
      BY <1>1, <1>8, <1>10
  <2>2. ASSUME NEW k \in 0..(m - 1), k \in S PROVE k + 1 \in S
    <3> DEFINE j == k + 1
    <3>1. j \in 1..m /\ j \in 1..(m + n) /\ j - 1 = k /\ j \in 0..m
        BY <1>1
    <3>2. w[k] = u[k]
        BY <2>2
    <3> HIDE DEF j
    <3>3. w[j] = u[j]
        BY <1>1, <1>8, <1>10, <3>1, <3>2
    <3> QED BY <3>1, <3>3 DEF j
  <2>3. 0..m \subseteq S
    <3> HIDE DEF S
    <3> QED BY <1>1, <2>1, <2>2, BoundedInduction
  <2>4. m \in 0..m
      BY <1>1
  <2> QED BY <1>8, <2>3, <2>4
<1> DEFINE P == Inserted(p)
           T == {k \in 0..n : w[m + k] = Cat(P, v[k])}
<1>12. 0 \in T
  <2>1. Cat(P, << >>) = P /\ m + 0 = m /\ 0 \in 0..n
      BY <1>1, <1>6, CatUnit
  <2> QED BY <1>9, <1>11, <2>1
<1>13. ASSUME NEW k \in 0..(n - 1), k \in T PROVE k + 1 \in T
  <2> DEFINE j == k + 1
  <2>1. /\ j \in 1..n /\ m + j \in 1..(m + n) /\ (m + j) - 1 = m + k /\ j - 1 = k
        /\ j \in 0..n /\ k \in 0..n
      BY <1>1
  <2>2. w[m + k] = Cat(P, v[k])
      BY <1>13
  <2> HIDE DEF j, P
  <2>3. r[m + j] = q[j]
      BY <1>1, <2>1
  <2>4. CASE q[j].kind = "insert"
    <3>1. IsSeq(q[j].s)
        BY <1>7, <2>1, <2>4, CompCases
    <3>2. w[m + j] = Cat(Cat(P, v[k]), q[j].s)
        BY <1>10, <2>1, <2>2, <2>3, <2>4
    <3>3. v[j] = Cat(v[k], q[j].s)
        BY <1>9, <2>1, <2>4
    <3>4. IsSeq(P) /\ IsSeq(v[k])
        BY <1>5, <1>6, <2>1 DEF P
    <3>5. w[m + j] = Cat(P, v[j])
        BY <3>1, <3>2, <3>3, <3>4, CatAssoc
    <3> QED BY <2>1, <3>5 DEF j
  <2>5. CASE q[j].kind # "insert"
    <3>1. w[m + j] = w[m + k]
        BY <1>10, <2>1, <2>3, <2>5
    <3>2. v[j] = v[k]
        BY <1>9, <2>1, <2>5
    <3>3. w[m + j] = Cat(P, v[j])
        BY <2>2, <3>1, <3>2
    <3> QED BY <2>1, <3>3 DEF j
  <2> QED BY <2>4, <2>5
<1>14. 0..n \subseteq T
  <2> HIDE DEF T
  <2> QED BY <1>1, <1>12, <1>13, BoundedInduction
<1>15. n \in 0..n
    BY <1>1
<1>16. w[m + n] = Cat(P, v[n])
    BY <1>14, <1>15
<1> QED BY <1>1, <1>9, <1>10, <1>16 DEF r

\* The text a component inserts.
Puts(o) == IF o.kind = "insert" THEN o.s ELSE << >>

\* What is inserted up to a component, and what it inserts.
LEMMA InsertedThen ==
    ASSUME NEW p, OpOK(p), NEW o, CompOK(o)
    PROVE  /\ OpOK(One(o)) /\ OpOK(Cat(p, One(o)))
           /\ Inserted(Cat(p, One(o))) = Cat(Inserted(p), Puts(o))
           /\ IsSeq(Inserted(p)) /\ IsSeq(Puts(o))
<1>1. OpOK(One(o)) /\ Inserted(One(o)) = Puts(o)
    BY OpOne, InsertedOne DEF One, Puts
<1> QED BY <1>1, InsertedCat, InsertedOK

\* A component that inserts nothing.
LEMMA InsertedSkip ==
    ASSUME NEW p, OpOK(p), NEW o, CompOK(o), o.kind # "insert"
    PROVE  /\ OpOK(Cat(p, One(o)))
           /\ Inserted(Cat(p, One(o))) = Inserted(p)
<1>1. Puts(o) = << >>
    BY DEF Puts
<1> QED BY <1>1, InsertedThen, CatUnit

\* A retain or a delete.
LEMMA PlainOK ==
    ASSUME NEW n \in Nat \ {0}
    PROVE  /\ CompOK(RetainComp(n)) /\ RetainComp(n).kind = "retain" /\ RetainComp(n).n = n
           /\ CompOK(DeleteComp(n)) /\ DeleteComp(n).kind = "delete" /\ DeleteComp(n).n = n
BY DEF CompOK, RetainComp, DeleteComp

\* An insert.
LEMMA InsertCompOK ==
    ASSUME NEW s, IsSeq(s), s # << >>
    PROVE  CompOK(InsertComp(s)) /\ InsertComp(s).kind = "insert" /\ InsertComp(s).s = s
           /\ Puts(InsertComp(s)) = s
<1>1. CompOK(InsertComp(s))
    BY DEF CompOK
<1>2. InsertComp(s).kind = "insert" /\ InsertComp(s).s = s
    BY DEF InsertComp
<1> QED BY <1>1, <1>2 DEF Puts

\* Retaining inserts nothing more.
LEMMA InsertedRetain ==
    ASSUME NEW op, OpOK(op), NEW n \in Nat
    PROVE  OpOK(Retain(op, n)) /\ Inserted(Retain(op, n)) = Inserted(op)
<1>2. CASE n = 0
    BY <1>2 DEF Retain
<1>3. CASE n # 0 /\ EndsWith(op, "retain")
  <2> DEFINE p == Front(op)
             o == Last(op)
             m == o.n + n
             r == RetainComp(m)
  <2>1. /\ OpOK(p) /\ CompOK(o) /\ op = Cat(p, One(o)) /\ IsSeq(p)
        /\ Len(op) = Len(p) + 1 /\ op[Len(op)] = o /\ o.kind = "retain"
      BY <1>3, OpFront DEF EndsWith
  <2> HIDE DEF p, o
  <2>2. o.n \in Nat \ {0} /\ o = RetainComp(o.n)
      BY <2>1, CompCases
  <2>3. m \in Nat \ {0}
      BY <2>2
  <2>4. Retain(op, n) = Cat(p, One(r))
    <3>1. Retain(op, n) = [op EXCEPT ![Len(op)].n = @ + n]
        BY <1>3 DEF Retain
    <3>2. [op EXCEPT ![Len(op)].n = @ + n]
             = [op EXCEPT ![Len(op)] = [op[Len(op)] EXCEPT !.n = @ + n]]
        OBVIOUS
    <3>3. [o EXCEPT !.n = @ + n] = r
        BY <2>2 DEF RetainComp
    <3> HIDE DEF r
    <3>4. [Cat(p, One(o)) EXCEPT ![Len(p) + 1] = r] = Cat(p, One(r))
        BY <2>1, CatReplaceLast
    <3> QED BY <2>1, <3>1, <3>2, <3>3, <3>4
  <2>5. CompOK(r) /\ r.kind = "retain"
    <3> HIDE DEF m
    <3> QED BY <2>3, PlainOK
  <2> HIDE DEF r
  <2>6. OpOK(Cat(p, One(r))) /\ Inserted(Cat(p, One(r))) = Inserted(p)
      BY <2>1, <2>5, InsertedSkip
  <2>7. Inserted(Cat(p, One(o))) = Inserted(p)
      BY <2>1, InsertedSkip
  <2> QED BY <2>1, <2>4, <2>6, <2>7
<1>4. CASE n # 0 /\ ~EndsWith(op, "retain")
  <2> DEFINE r == RetainComp(n)
  <2>1. Retain(op, n) = Append(op, r)
      BY <1>4 DEF Retain
  <2>2. CompOK(r) /\ r.kind = "retain"
      BY <1>4, PlainOK
  <2> HIDE DEF r
  <2>3. Append(op, r) = Cat(op, One(r))
      BY OpIndex, IsSeqAppendOne DEF Cat, One
  <2> QED BY <2>1, <2>2, <2>3, InsertedSkip
<1> QED BY <1>2, <1>3, <1>4

\* Nor does deleting.
LEMMA InsertedDelete ==
    ASSUME NEW op, OpOK(op), NEW n \in Nat
    PROVE  OpOK(Delete(op, n)) /\ Inserted(Delete(op, n)) = Inserted(op)
<1>1. ~(n < 0)
    OBVIOUS
<1>2. CASE n = 0
    BY <1>1, <1>2 DEF Delete
<1>3. CASE n # 0 /\ EndsWith(op, "delete")
  <2> DEFINE p == Front(op)
             o == Last(op)
             m == o.n + n
             r == DeleteComp(m)
  <2>1. /\ OpOK(p) /\ CompOK(o) /\ op = Cat(p, One(o)) /\ IsSeq(p)
        /\ Len(op) = Len(p) + 1 /\ op[Len(op)] = o /\ o.kind = "delete"
      BY <1>3, OpFront DEF EndsWith
  <2> HIDE DEF p, o
  <2>2. o.n \in Nat \ {0} /\ o = DeleteComp(o.n)
      BY <2>1, CompCases
  <2>3. m \in Nat \ {0}
      BY <2>2
  <2>4. Delete(op, n) = Cat(p, One(r))
    <3>1. Delete(op, n) = [op EXCEPT ![Len(op)].n = @ + n]
        BY <1>1, <1>3 DEF Delete
    <3>2. [op EXCEPT ![Len(op)].n = @ + n]
             = [op EXCEPT ![Len(op)] = [op[Len(op)] EXCEPT !.n = @ + n]]
        OBVIOUS
    <3>3. [o EXCEPT !.n = @ + n] = r
        BY <2>2 DEF DeleteComp
    <3> HIDE DEF r
    <3>4. [Cat(p, One(o)) EXCEPT ![Len(p) + 1] = r] = Cat(p, One(r))
        BY <2>1, CatReplaceLast
    <3> QED BY <2>1, <3>1, <3>2, <3>3, <3>4
  <2>5. CompOK(r) /\ r.kind = "delete"
    <3> HIDE DEF m
    <3> QED BY <2>3, PlainOK
  <2> HIDE DEF r
  <2>6. OpOK(Cat(p, One(r))) /\ Inserted(Cat(p, One(r))) = Inserted(p)
      BY <2>1, <2>5, InsertedSkip
  <2>7. Inserted(Cat(p, One(o))) = Inserted(p)
      BY <2>1, InsertedSkip
  <2> QED BY <2>1, <2>4, <2>6, <2>7
<1>4. CASE n # 0 /\ ~EndsWith(op, "delete")
  <2> DEFINE r == DeleteComp(n)
  <2>1. Delete(op, n) = Append(op, r)
      BY <1>1, <1>4 DEF Delete
  <2>2. CompOK(r) /\ r.kind = "delete"
      BY <1>4, PlainOK
  <2> HIDE DEF r
  <2>3. Append(op, r) = Cat(op, One(r))
      BY OpIndex, IsSeqAppendOne DEF Cat, One
  <2> QED BY <2>1, <2>2, <2>3, InsertedSkip
<1> QED BY <1>2, <1>3, <1>4

\* Insert o of operation p, o grows by s and becomes j.
Lengthens(p, o, s, j) ==
    /\ [o EXCEPT !.s = @ \o s] = j
    /\ OpOK(Cat(p, One(j)))
    /\ Inserted(Cat(p, One(j))) = Cat(Inserted(Cat(p, One(o))), s)

\* An insert that grows by s.
LEMMA InsertedMore ==
    ASSUME NEW p, OpOK(p), NEW o, CompOK(o), o.kind = "insert", NEW s, IsSeq(s),
           NEW j, j = InsertComp(Cat(o.s, s))
    PROVE  Lengthens(p, o, s, j)
<1> DEFINE t == Cat(o.s, s)
<1>1. o = InsertComp(o.s) /\ IsSeq(o.s) /\ o.s # << >>
    BY CompCases
<1>2. IsSeq(t) /\ t # << >>
  <2>1. IsSeq(t) /\ Len(t) = Len(o.s) + Len(s) /\ Len(o.s) # 0
        /\ Len(o.s) \in Nat /\ Len(s) \in Nat
      BY <1>1, CatOK, IsSeqNone
  <2> HIDE DEF t
  <2> QED BY <2>1, IsSeqNone
<1>3. [o EXCEPT !.s = @ \o s] = j
  <2> DEFINE x == o.s
  <2>1. o = InsertComp(x) /\ j = InsertComp(x \o s)
      BY <1>1 DEF Cat
  <2> HIDE DEF x
  <2>2. [InsertComp(x) EXCEPT !.s = @ \o s] = InsertComp(x \o s)
      BY ONLY SMTT(30) DEF InsertComp
  <2> QED BY <2>1, <2>2
<1> HIDE DEF t
<1>4. CompOK(j) /\ Puts(j) = t
  <2>1. j = InsertComp(t)
      BY DEF t
  <2> QED BY <1>2, <2>1, InsertCompOK
<1>5. OpOK(Cat(p, One(j))) /\ Inserted(Cat(p, One(j))) = Cat(Inserted(p), t)
    BY <1>4, InsertedThen
<1>6. Inserted(Cat(p, One(o))) = Cat(Inserted(p), o.s) /\ IsSeq(Inserted(p))
    BY InsertedThen DEF Puts
<1>7. Cat(Inserted(p), t) = Cat(Cat(Inserted(p), o.s), s)
    BY <1>1, <1>6, CatAssoc DEF t
<1> QED BY <1>3, <1>5, <1>6, <1>7 DEF Lengthens, t

\* Inserting s does.
LEMMA InsertedInsert ==
    ASSUME NEW op, OpOK(op), NEW s, IsSeq(s)
    PROVE  OpOK(Insert(op, s)) /\ Inserted(Insert(op, s)) = Cat(Inserted(op), s)
<1> DEFINE p == Front(op)
           o == Last(op)
           i == InsertComp(s)
<1>1. IsSeq(Inserted(op))
    BY InsertedOK
<1>3. CASE s = << >>
    BY <1>1, <1>3, CatUnit DEF Insert
<1>4. CASE s # << >> /\ EndsWith(op, "insert")
  <2> DEFINE j == InsertComp(Cat(o.s, s))
  <2>1. /\ OpOK(p) /\ CompOK(o) /\ op = Cat(p, One(o)) /\ IsSeq(p)
        /\ Len(op) = Len(p) + 1 /\ op[Len(op)] = o /\ o.kind = "insert"
      BY <1>4, OpFront DEF EndsWith
  <2>0. j = InsertComp(Cat(o.s, s))
      OBVIOUS
  <2> HIDE DEF p, o, j
  <2>2. /\ [o EXCEPT !.s = @ \o s] = j
        /\ OpOK(Cat(p, One(j)))
        /\ Inserted(Cat(p, One(j))) = Cat(Inserted(Cat(p, One(o))), s)
    <3>1. Lengthens(p, o, s, j)
        BY <2>0, <2>1, InsertedMore
    <3> QED BY <3>1 DEF Lengthens
  <2>3. Insert(op, s) = Cat(p, One(j))
    <3>1. Insert(op, s) = [op EXCEPT ![Len(op)].s = @ \o s]
        BY <1>4 DEF Insert
    <3>2. [op EXCEPT ![Len(op)].s = @ \o s]
             = [op EXCEPT ![Len(op)] = [op[Len(op)] EXCEPT !.s = @ \o s]]
        OBVIOUS
    <3>3. [op EXCEPT ![Len(op)] = j] = Cat(p, One(j))
        BY <2>1, CatReplaceLast
    <3> QED BY <2>1, <2>2, <3>1, <3>2, <3>3
  <2> QED BY <2>1, <2>2, <2>3
<1>5. CASE s # << >> /\ ~EndsWith(op, "insert") /\ ~EndsWith(op, "delete")
  <2>1. Insert(op, s) = Append(op, i)
      BY <1>5 DEF Insert
  <2>2. CompOK(i) /\ Puts(i) = s
      BY <1>5, InsertCompOK
  <2> HIDE DEF i
  <2>3. Append(op, i) = Cat(op, One(i))
      BY OpIndex, IsSeqAppendOne DEF Cat, One
  <2> QED BY <2>1, <2>2, <2>3, InsertedThen
<1>6. CASE s # << >> /\ ~EndsWith(op, "insert") /\ EndsWith(op, "delete")
  <2>1. /\ OpOK(p) /\ CompOK(o) /\ OpOK(One(o)) /\ op = Cat(p, One(o)) /\ IsSeq(p)
        /\ Len(op) = Len(p) + 1 /\ Len(p) \in Nat
        /\ op[Len(op)] = o /\ o.kind = "delete"
      BY <1>6, OpFront DEF EndsWith
  <2>2. Inserted(op) = Inserted(p)
    <3> HIDE DEF p, o
    <3> QED BY <2>1, InsertedSkip
  <2>5. CASE EndsWith(p, "insert")
    <3> DEFINE q == Front(p)
               c == Last(p)
               j == InsertComp(Cat(c.s, s))
    <3>1. /\ OpOK(q) /\ CompOK(c) /\ p = Cat(q, One(c)) /\ IsSeq(q)
          /\ Len(p) = Len(q) + 1 /\ p[Len(p)] = c /\ c.kind = "insert"
      <4> HIDE DEF p
      <4> QED BY <2>1, <2>5, OpFront DEF EndsWith
    <3>2. Insert(op, s) = [op EXCEPT ![Len(op) - 1].s = @ \o s]
        BY <1>6, <2>5 DEF Insert
    <3>0. j = InsertComp(Cat(c.s, s))
        OBVIOUS
    <3> HIDE DEF q, c, p, o, j
    <3>3. /\ [c EXCEPT !.s = @ \o s] = j /\ OpOK(Cat(q, One(j)))
          /\ Inserted(Cat(q, One(j))) = Cat(Inserted(Cat(q, One(c))), s)
      <4>1. Lengthens(q, c, s, j)
          BY <3>0, <3>1, InsertedMore
      <4> QED BY <4>1 DEF Lengthens
    <3>4. op = Cat(q, Cat(One(c), One(o)))
        BY <2>1, <3>1, OneOK, CatAssoc
    <3>5. Cat(Cat(q, One(j)), One(o)) = Cat(q, Cat(One(j), One(o)))
        BY <3>1, OneOK, CatAssoc
    <3>6. Len(op) - 1 = Len(q) + 1 /\ Len(op) - 1 = Len(p)
        BY <2>1, <3>1
    <3>7. op[Len(q) + 1] = c
      <4>1. op[Len(p)] = p[Len(p)]
        <5>1. Len(p) \in 1..Len(p)
            BY <2>1, <3>1, IsSeqLen
        <5> QED BY <2>1, <5>1, OpConcat DEF Cat
      <4> QED BY <3>1, <3>6, <4>1
    <3>8. Insert(op, s) = Cat(q, Cat(One(j), One(o)))
      <4>1. [op EXCEPT ![Len(q) + 1].s = @ \o s]
               = [op EXCEPT ![Len(q) + 1] = [op[Len(q) + 1] EXCEPT !.s = @ \o s]]
          OBVIOUS
      <4>2. [op EXCEPT ![Len(q) + 1] = j] = Cat(q, Cat(One(j), One(o)))
          BY <3>1, <3>4, OneOK, CatReplace
      <4>3. Insert(op, s) = [op EXCEPT ![Len(q) + 1].s = @ \o s]
          BY <3>2, <3>6
      <4> QED BY <3>3, <3>7, <4>1, <4>2, <4>3
    <3> DEFINE w == Cat(q, One(j))
    <3>9. OpOK(w) /\ Inserted(w) = Cat(Inserted(p), s) /\ Insert(op, s) = Cat(w, One(o))
        BY <3>1, <3>3, <3>5, <3>8
    <3> HIDE DEF w
    <3>10. OpOK(Cat(w, One(o))) /\ Inserted(Cat(w, One(o))) = Inserted(w)
        BY <2>1, <3>9, InsertedSkip
    <3> QED BY <2>2, <3>9, <3>10
  <2>6. CASE ~EndsWith(p, "insert")
    <3>1. Insert(op, s) = Cat(p, Cat(One(i), One(o)))
      <4>1. Insert(op, s) = p \o <<i, o>>
          BY <1>6, <2>6 DEF Insert
      <4>2. <<i, o>> = <<i>> \o <<o>>
        <5> HIDE DEF i, o
        <5> QED OBVIOUS
      <4> QED BY <4>1, <4>2 DEF Cat, One
    <3>2. CompOK(i) /\ Puts(i) = s
        BY <1>6, InsertCompOK
    <3> HIDE DEF p, o, i
    <3> DEFINE w == Cat(p, One(i))
    <3>3. Cat(p, Cat(One(i), One(o))) = Cat(w, One(o))
        BY <2>1, OneOK, CatAssoc
    <3>4. OpOK(w) /\ Inserted(w) = Cat(Inserted(p), s)
        BY <2>1, <3>2, InsertedThen
    <3> HIDE DEF w
    <3>5. OpOK(Cat(w, One(o))) /\ Inserted(Cat(w, One(o))) = Inserted(w)
        BY <2>1, <3>4, InsertedSkip
    <3> QED BY <2>2, <3>1, <3>3, <3>4, <3>5
  <2> QED BY <2>5, <2>6
<1> QED BY <1>3, <1>4, <1>5, <1>6

\* What the head and the other components insert.
LEMMA InsertedHead ==
    ASSUME NEW it, OpOK(it), it # << >>
    PROVE  /\ CompOK(Head(it)) /\ OpOK(Tail(it))
           /\ Inserted(it) = Cat(Puts(Head(it)), Inserted(Tail(it)))
           /\ IsSeq(Puts(Head(it))) /\ IsSeq(Inserted(Tail(it)))
<1> DEFINE h == Head(it)
           t == Tail(it)
<1>1. CompOK(h) /\ OpOK(One(h)) /\ OpOK(t) /\ it = Cat(One(h), t)
    BY OpHead
<1> HIDE DEF h, t
<1>2. Inserted(it) = Cat(Inserted(One(h)), Inserted(t))
    BY <1>1, InsertedCat
<1>3. Inserted(One(h)) = Puts(h)
    BY <1>1, InsertedOne DEF Puts
<1>4. IsSeq(Puts(h)) /\ IsSeq(Inserted(t))
    BY <1>1, <1>3, InsertedOK
<1> QED BY <1>1, <1>2, <1>3, <1>4 DEF h, t

\* The other components insert all of it, if the head does not insert.
LEMMA InsertedRest ==
    ASSUME NEW it, OpOK(it), it # << >>, Head(it).kind # "insert"
    PROVE  OpOK(Tail(it)) /\ Inserted(it) = Inserted(Tail(it))
<1>1. Puts(Head(it)) = << >>
    BY DEF Puts
<1> QED BY <1>1, InsertedHead, CatUnit

\* A part of a retain or a delete inserts nothing.
LEMMA InsertedTake ==
    ASSUME NEW it, OpOK(it), it # << >>, Head(it).kind # "insert",
           NEW n \in 1..CompLen(Head(it))
    PROVE  OpOK(Take(it, n)) /\ Inserted(Take(it, n)) = Inserted(it)
<1> DEFINE h == Head(it)
           m == h.n - n
           r == [h EXCEPT !.n = @ - n]
           t == Tail(it)
<1>1. CompOK(h) /\ OpOK(t)
    BY OpHead
<1>2. /\ h.n \in Nat \ {0} /\ (h = RetainComp(h.n) \/ h = DeleteComp(h.n))
      /\ CompLen(h) = h.n
    BY <1>1, CompCases DEF CompLen
<1>3. Inserted(it) = Inserted(t)
    BY InsertedRest
<1>4. CASE CompLen(h) <= n
  <2>1. Take(it, n) = t
      BY <1>4 DEF Take
  <2> QED BY <1>1, <1>3, <2>1
<1>5. CASE ~(CompLen(h) <= n)
  <2>1. m \in Nat \ {0}
      BY <1>2, <1>5
  <2>2. Take(it, n) = Cat(One(r), t)
      BY <1>5 DEF Take, Cat, One
  <2>3. r = RetainComp(m) \/ r = DeleteComp(m)
      BY <1>2 DEF RetainComp, DeleteComp
  <2> HIDE DEF h, m, r, t
  <2>4. CompOK(r) /\ r.kind # "insert"
      BY <2>1, <2>3, PlainOK
  <2>5. OpOK(One(r)) /\ Inserted(One(r)) = << >>
      BY <2>4, OpOne, InsertedOne DEF One
  <2>6. /\ OpOK(Cat(One(r), t))
        /\ Inserted(Cat(One(r), t)) = Cat(Inserted(One(r)), Inserted(t))
      BY <1>1, <2>5, InsertedCat
  <2>7. Cat(<< >>, Inserted(t)) = Inserted(t)
      BY <1>1, InsertedOK, CatUnit
  <2> QED BY <1>3, <2>2, <2>5, <2>6, <2>7
<1> QED BY <1>4, <1>5

\* A part of an insert inserts that part.
LEMMA InsertedText ==
    ASSUME NEW it, OpOK(it), it # << >>, Head(it).kind = "insert",
           NEW n \in 1..CompLen(Head(it))
    PROVE  /\ OpOK(Take(it, n)) /\ IsSeq(HeadText(it, n))
           /\ Inserted(it) = Cat(HeadText(it, n), Inserted(Take(it, n)))
<1> DEFINE h == Head(it)
           s == h.s
           t == Tail(it)
           x == SubSeq(s, 1, n)
           y == SubSeq(s, n + 1, Len(s))
<1>1. CompOK(h) /\ OpOK(t) /\ IsSeq(Inserted(t)) /\ Puts(h) = s
      /\ Inserted(it) = Cat(Puts(h), Inserted(t))
    BY InsertedHead DEF Puts
<1>2. IsSeq(s) /\ Len(s) \in Nat /\ CompLen(h) = Len(s) /\ n \in 0..Len(s)
    BY <1>1, CompCases, IsSeqLen DEF CompLen
<1>3. IsSeq(x) /\ Len(x) = n /\ IsSeq(y) /\ Len(y) = Len(s) - n /\ s = Cat(x, y)
    BY <1>2, IsSeqSplit DEF Cat
<1>4. HeadText(it, n) = x
    BY DEF HeadText
<1>5. CASE n = Len(s)
  <2>1. Take(it, n) = t
      BY <1>2, <1>5 DEF Take
  <2>2. x = s
      BY <1>2, <1>5, SegmentAll
  <2> HIDE DEF x, y, h, s, t
  <2> QED BY <1>1, <1>3, <1>4, <2>1, <2>2
<1>6. CASE n # Len(s)
  <2>1. Take(it, n) = Cat(One(InsertComp(y)), t)
    <3>1. ~(CompLen(h) <= n)
        BY <1>2, <1>6
    <3> QED BY <3>1 DEF Take, Cat, One
  <2> HIDE DEF x, y, h, s, t
  <2>2. y # << >>
    <3>1. Len(y) # 0
        BY <1>2, <1>3, <1>6
    <3> QED BY <1>3, <3>1, IsSeqNone
  <2> DEFINE o == InsertComp(y)
  <2>3. CompOK(o) /\ Puts(o) = y
      BY <1>3, <2>2, InsertCompOK
  <2> HIDE DEF o
  <2>4. OpOK(One(o)) /\ Inserted(One(o)) = y
      BY <2>3, OpOne, InsertedOne DEF One, Puts
  <2>5. OpOK(Cat(One(o), t)) /\ Inserted(Cat(One(o), t)) = Cat(y, Inserted(t))
      BY <1>1, <2>4, InsertedCat
  <2>6. Cat(Cat(x, y), Inserted(t)) = Cat(x, Cat(y, Inserted(t)))
      BY <1>1, <1>3, CatAssoc
  <2> QED BY <1>1, <1>3, <1>4, <2>1, <2>5, <2>6 DEF o
<1> QED BY <1>5, <1>6

---------------------------------------------------------------------------
(* Transform and Compose insert what they are given to insert.             *)

\* Operations op, built so far, and rest, still to do, insert text s.
Carries(op, rest, s) ==
    /\ OpOK(op) /\ OpOK(rest)
    /\ Cat(Inserted(op), Inserted(rest)) = s

\* A retain is added.
LEMMA CarriesRetain ==
    ASSUME NEW op, NEW rest, NEW s, Carries(op, rest, s), NEW n \in Nat
    PROVE  Carries(Retain(op, n), rest, s)
BY InsertedRetain DEF Carries

\* A delete is added.
LEMMA CarriesDelete ==
    ASSUME NEW op, NEW rest, NEW s, Carries(op, rest, s), NEW n \in Nat
    PROVE  Carries(Delete(op, n), rest, s)
BY InsertedDelete DEF Carries

\* A part of a head that does not insert is consumed.
LEMMA CarriesTake ==
    ASSUME NEW op, NEW rest, NEW s, Carries(op, rest, s),
           rest # << >>, Head(rest).kind # "insert", NEW n \in 1..CompLen(Head(rest))
    PROVE  Carries(op, Take(rest, n), s)
BY InsertedTake DEF Carries

\* An insert is consumed and added.
LEMMA CarriesInsert ==
    ASSUME NEW op, NEW rest, NEW s, Carries(op, rest, s),
           rest # << >>, Head(rest).kind = "insert"
    PROVE  Carries(Insert(op, Head(rest).s), Tail(rest), s)
<1> DEFINE w == Head(rest).s
           t == Tail(rest)
<1>1. /\ OpOK(op) /\ OpOK(rest) /\ Cat(Inserted(op), Inserted(rest)) = s
      /\ IsSeq(Inserted(op))
    BY InsertedOK DEF Carries
<1>2. /\ OpOK(t) /\ IsSeq(w) /\ IsSeq(Inserted(t))
      /\ Inserted(rest) = Cat(w, Inserted(t))
    BY <1>1, InsertedHead DEF Puts
<1> HIDE DEF w, t
<1>3. OpOK(Insert(op, w)) /\ Inserted(Insert(op, w)) = Cat(Inserted(op), w)
    BY <1>1, <1>2, InsertedInsert
<1>4. Cat(Cat(Inserted(op), w), Inserted(t)) = s
    BY <1>1, <1>2, CatAssoc
<1> QED BY <1>2, <1>3, <1>4 DEF Carries, w, t

\* One turn of Transform's loop.
LEMMA TransformCarries ==
    ASSUME NEW st, NEW da, NEW db, Rebasing(st, da, db), Ok(st.ia) \/ Ok(st.ib),
           NEW next, next = TransformStep(st),
           NEW s, Carries(st.ap, st.ia, s), NEW t, Carries(st.bp, st.ib, t)
    PROVE  Carries(next.ap, next.ia, s) /\ Carries(next.bp, next.ib, t)
<1> DEFINE ia == st.ia
           ib == st.ib
           ap == st.ap
           bp == st.bp
           n == Common(ia, ib)
           ka == Kind(ia)
           kb == Kind(ib)
           ja == Take(ia, n)
           jb == Take(ib, n)
<1>1. /\ DOMAIN st = {"ia", "ib", "ap", "bp", "ok"} /\ st.ok = TRUE
      /\ Halfway(ia, ib, ap, bp, da, db)
      /\ ia # << >> \/ ib # << >>
    BY DEF Rebasing, Ok
<1>2. /\ OpOK(ia) /\ OpOK(ib)
      /\ ia = << >> => Head(ib).kind = "insert"
      /\ ib = << >> => Head(ia).kind = "insert"
  <2>1. PICK rest, a1, a2, b1, b2, c :
          /\ Does(ia, rest, a2) /\ Does(ib, rest, b2)
          /\ da = Cat(a1, a2) /\ db = Cat(b1, b2)
          /\ Does(bp, a1, c) /\ Does(ap, b1, c)
      BY <1>1 DEF Halfway
  <2>3. ASSUME ia = << >> PROVE Head(ib).kind = "insert"
    <3>1. rest = << >> /\ ib # << >>
        BY <1>1, <2>1, <2>3, DoesEmpty
    <3> QED BY <2>1, <3>1, HeadOfNothing
  <2>4. ASSUME ib = << >> PROVE Head(ia).kind = "insert"
    <3>1. rest = << >> /\ ia # << >>
        BY <1>1, <2>1, <2>4, DoesEmpty
    <3> QED BY <2>1, <3>1, HeadOfNothing
  <2> QED BY <2>1, <2>3, <2>4 DEF Does
<1>3. /\ ia # << >> => /\ Head(ia).kind \in {"retain", "delete", "insert"}
                       /\ CompLen(Head(ia)) \in Nat
      /\ ib # << >> => /\ Head(ib).kind \in {"retain", "delete", "insert"}
                       /\ CompLen(Head(ib)) \in Nat
    BY <1>2, OpHead, CompCases
<1>4. /\ ka = IF ia = << >> THEN "none" ELSE Head(ia).kind
      /\ kb = IF ib = << >> THEN "none" ELSE Head(ib).kind
    BY DEF Kind, Ok
<1>5. TransformCases(st, next, n, ka, kb)
    BY <1>1, TransformKinds
<1>6. Carries(ap, ia, s) /\ Carries(bp, ib, t)
    OBVIOUS
<1>7. CASE ia # << >> /\ Head(ia).kind = "insert"
  <2>1. TransformsTo(next, Tail(ia), ib, Insert(ap, Head(ia).s), Retain(bp, CompLen(Head(ia))))
      BY <1>4, <1>5, <1>7 DEF TransformCases
  <2> HIDE DEF ap, bp, ia, ib
  <2>2. Carries(Insert(ap, Head(ia).s), Tail(ia), s)
      BY <1>6, <1>7, CarriesInsert
  <2>3. Carries(Retain(bp, CompLen(Head(ia))), ib, t)
      BY <1>3, <1>6, <1>7, CarriesRetain
  <2> QED BY <2>1, <2>2, <2>3 DEF TransformsTo
<1>8. CASE ~(ia # << >> /\ Head(ia).kind = "insert") /\ ib # << >> /\ Head(ib).kind = "insert"
  <2>1. TransformsTo(next, ia, Tail(ib), Retain(ap, CompLen(Head(ib))), Insert(bp, Head(ib).s))
    <3>1. ka # "insert" /\ kb = "insert"
        BY <1>4, <1>8
    <3> QED BY <1>5, <3>1 DEF TransformCases
  <2> HIDE DEF ap, bp, ia, ib
  <2>2. Carries(Retain(ap, CompLen(Head(ib))), ia, s)
      BY <1>3, <1>6, <1>8, CarriesRetain
  <2>3. Carries(Insert(bp, Head(ib).s), Tail(ib), t)
      BY <1>6, <1>8, CarriesInsert
  <2> QED BY <2>1, <2>2, <2>3 DEF TransformsTo
<1>9. CASE /\ ia # << >> /\ Head(ia).kind \in {"retain", "delete"}
           /\ ib # << >> /\ Head(ib).kind \in {"retain", "delete"}
  <2>1. n \in 1..CompLen(Head(ia)) /\ n \in 1..CompLen(Head(ib))
      BY <1>2, <1>9, CommonOK
  <2>2. ka = Head(ia).kind /\ kb = Head(ib).kind
      BY <1>4, <1>9
  <2> HIDE DEF n, ka, kb, ap, bp, ia, ib
  <2>3. n \in Nat /\ Carries(ap, ja, s) /\ Carries(bp, jb, t)
      BY <1>3, <1>6, <1>9, <2>1, CarriesTake
  <2> HIDE DEF ja, jb
  <2>4. /\ Carries(Retain(ap, n), ja, s) /\ Carries(Delete(ap, n), ja, s)
        /\ Carries(Retain(bp, n), jb, t) /\ Carries(Delete(bp, n), jb, t)
      BY <2>3, CarriesRetain, CarriesDelete
  <2>5. \/ TransformsTo(next, ja, jb, Retain(ap, n), Retain(bp, n))
        \/ TransformsTo(next, ja, jb, ap, bp)
        \/ TransformsTo(next, ja, jb, Delete(ap, n), bp)
        \/ TransformsTo(next, ja, jb, ap, Delete(bp, n))
      BY <1>5, <1>9, <2>2 DEF TransformCases, ja, jb, ap, bp, ia, ib
  <2> QED BY <2>3, <2>4, <2>5 DEF TransformsTo
<1>10. \/ ia # << >> /\ Head(ia).kind = "insert"
       \/ ~(ia # << >> /\ Head(ia).kind = "insert") /\ ib # << >> /\ Head(ib).kind = "insert"
       \/ /\ ia # << >> /\ Head(ia).kind \in {"retain", "delete"}
          /\ ib # << >> /\ Head(ib).kind \in {"retain", "delete"}
    BY <1>1, <1>2, <1>3
<1> QED BY <1>7, <1>8, <1>9, <1>10

\* Operations rebased past each other insert what they did.
LEMMA TransformInserts ==
    ASSUME NEW a, NEW b, NEW d, NEW da, NEW db, Does(a, d, da), Does(b, d, db)
    PROVE  /\ Inserted(Transform(a, b).a) = Inserted(a)
           /\ Inserted(Transform(a, b).b) = Inserted(b)
<1> DEFINE N == Len(a) + Len(b)
           s == Inserted(a)
           t == Inserted(b)
<1>1. OpOK(a) /\ OpOK(b) /\ IsSeq(a) /\ IsSeq(b) /\ IsSeq(s) /\ IsSeq(t)
    BY OpIndex, InsertedOK DEF Does
<1>2. PICK run : TransformRun(a, b, run)
    BY <1>1, TransformUnfold
<1>3. /\ N \in Nat
      /\ \A k \in 0..N : /\ Rebasing(run[k], da, db)
                         /\ Len(run[k].ia) \in Nat /\ Len(run[k].ib) \in Nat
                         /\ Len(run[k].ia) + Len(run[k].ib) <= N - k
    BY <1>2, TransformKeeps
<1> DEFINE Good(k) == Carries(run[k].ap, run[k].ia, s) /\ Carries(run[k].bp, run[k].ib, t)
           S == {k \in 0..N : Good(k)}
<1>4. Good(0)
  <2>1. /\ run[0].ia = a /\ run[0].ib = b /\ run[0].ap = << >> /\ run[0].bp = << >>
      BY <1>2 DEF TransformRun, New
  <2>2. Carries(<< >>, a, s) /\ Carries(<< >>, b, t)
      BY <1>1, OpEmpty, InsertedNothing, CatUnit DEF Carries
  <2> QED BY <2>1, <2>2
<1>5. ASSUME NEW k \in 0..(N - 1), Good(k) PROVE Good(k + 1)
  <2> DEFINE st == run[k]
             next == run[k + 1]
  <2>1. k + 1 \in 1..N /\ (k + 1) - 1 = k /\ k \in 0..N
      BY <1>3
  <2>2. next = IF st.ok /\ (Ok(st.ia) \/ Ok(st.ib)) THEN TransformStep(st) ELSE st
      BY <1>2, <2>1 DEF TransformRun
  <2>3. Rebasing(st, da, db) /\ Carries(st.ap, st.ia, s) /\ Carries(st.bp, st.ib, t)
      BY <1>3, <1>5, <2>1
  <2> HIDE DEF next, st, s, t
  <2>4. CASE st.ok /\ (Ok(st.ia) \/ Ok(st.ib))
    <3>1. Carries(next.ap, next.ia, s) /\ Carries(next.bp, next.ib, t)
        BY <2>2, <2>3, <2>4, TransformCarries
    <3> QED BY <3>1 DEF next
  <2>5. CASE ~(st.ok /\ (Ok(st.ia) \/ Ok(st.ib)))
      BY <2>2, <2>3, <2>5 DEF next
  <2> QED BY <2>4, <2>5
<1> DEFINE last == run[N]
<1>6. Good(N)
  <2> HIDE DEF Good
  <2>1. 0 \in S /\ \A k \in 0..(N - 1) : k \in S => k + 1 \in S
      BY <1>3, <1>4, <1>5
  <2> HIDE DEF S, N
  <2>2. 0..N \subseteq S /\ N \in 0..N
      BY <1>3, <2>1, BoundedInduction
  <2> QED BY <2>2 DEF S
<1>7. Transform(a, b) = [a |-> last.ap, b |-> last.bp, ok |-> last.ok]
    BY <1>2 DEF TransformRun, Transform
<1>8. /\ Rebasing(last, da, db)
      /\ Len(last.ia) \in Nat /\ Len(last.ib) \in Nat
      /\ Len(last.ia) + Len(last.ib) <= N - N
  <2> HIDE DEF N
  <2>1. N \in 0..N
      BY <1>3
  <2> QED BY <1>3, <2>1
<1>9. Carries(last.ap, last.ia, s) /\ Carries(last.bp, last.ib, t)
    BY <1>6
<1> HIDE DEF N, last, s, t
<1>10. Len(last.ia) = 0 /\ Len(last.ib) = 0
  <2> DEFINE l == Len(last.ia)
             m == Len(last.ib)
  <2>1. l \in Nat /\ m \in Nat /\ l + m <= N - N
      BY <1>8
  <2> HIDE DEF l, m
  <2>2. l = 0 /\ m = 0
      BY <1>3, <2>1
  <2> QED BY <2>2 DEF l, m
<1>11. last.ia = << >> /\ last.ib = << >>
    BY <1>9, <1>10, OpIndex, IsSeqNone DEF Carries
<1>12. Inserted(last.ap) = s /\ Inserted(last.bp) = t
    BY <1>9, <1>11, InsertedNothing, InsertedOK, CatUnit DEF Carries
<1>13. Transform(a, b).a = last.ap /\ Transform(a, b).b = last.bp
    BY <1>7
<1> QED BY <1>12, <1>13 DEF s, t

\* The bytes operation op inserts.
Brings(op) == Range(Inserted(op))

\* What two sequences hold, one after the other.
LEMMA RangeCat ==
    ASSUME NEW x, NEW y, IsSeq(x), IsSeq(y)
    PROVE  Range(Cat(x, y)) = Range(x) \cup Range(y)
<1> DEFINE z == Cat(x, y)
           m == Len(x)
           n == Len(y)
<1>1. /\ IsSeq(z) /\ Len(z) = m + n /\ m \in Nat /\ n \in Nat
      /\ \A i \in 1..m : z[i] = x[i]
      /\ \A i \in 1..n : z[m + i] = y[i]
    BY CatOK, CatIndex
<1>2. DOMAIN x = 1..m /\ DOMAIN y = 1..n /\ DOMAIN z = 1..(m + n)
    BY <1>1, IsSeqLen
<1> HIDE DEF z, m, n
<1>3. ASSUME NEW i \in DOMAIN z PROVE z[i] \in Range(x) \cup Range(y)
  <2>1. CASE i <= m
    <3>1. i \in 1..m
        BY <1>1, <1>2, <2>1
    <3> QED BY <1>1, <1>2, <3>1 DEF Range
  <2>2. CASE ~(i <= m)
    <3>1. i - m \in 1..n /\ m + (i - m) = i
        BY <1>1, <1>2, <2>2
    <3>2. z[i] = y[i - m]
        BY <1>1, <3>1
    <3> QED BY <1>2, <3>1, <3>2 DEF Range
  <2> QED BY <2>1, <2>2
<1>4. ASSUME NEW i \in DOMAIN x PROVE x[i] \in Range(z)
  <2>1. i \in 1..m /\ i \in 1..(m + n)
      BY <1>1, <1>2
  <2> QED BY <1>1, <1>2, <2>1 DEF Range
<1>5. ASSUME NEW i \in DOMAIN y PROVE y[i] \in Range(z)
  <2>1. i \in 1..n /\ m + i \in 1..(m + n)
      BY <1>1, <1>2
  <2> QED BY <1>1, <1>2, <2>1 DEF Range
<1> QED BY <1>3, <1>4, <1>5 DEF Range, z

\* No element of s stands in it twice.
NoRepeats(s) == \A i, j \in DOMAIN s : s[i] = s[j] => i = j

Apart(S, T) == S \cap T = {}

\* Two sequences repeat nothing, one after the other, if neither does and they
\* share nothing.
LEMMA NoRepeatsCat ==
    ASSUME NEW x, NEW y, IsSeq(x), IsSeq(y)
    PROVE  NoRepeats(Cat(x, y)) <=> NoRepeats(x) /\ NoRepeats(y) /\ Apart(Range(x), Range(y))
<1> DEFINE z == Cat(x, y)
           m == Len(x)
           n == Len(y)
<1>1. /\ IsSeq(z) /\ Len(z) = m + n /\ m \in Nat /\ n \in Nat
      /\ \A i \in 1..m : z[i] = x[i]
      /\ \A i \in 1..n : z[m + i] = y[i]
    BY CatOK, CatIndex
<1>2. DOMAIN x = 1..m /\ DOMAIN y = 1..n /\ DOMAIN z = 1..(m + n)
    BY <1>1, IsSeqLen
<1> HIDE DEF z, m, n
<1>3. \A i \in 1..m : i \in 1..(m + n)
    BY <1>1
<1>4. \A i \in 1..n : m + i \in 1..(m + n)
    BY <1>1
<1>5. \A i \in 1..m, j \in 1..n : i # m + j
    BY <1>1
<1>6. \A i, j \in 1..n : m + i = m + j => i = j
    BY <1>1
<1>7. \A i \in 1..(m + n) : i \in 1..m \/ (i - m \in 1..n /\ i = m + (i - m))
    BY <1>1
<1>8. ASSUME NoRepeats(z) PROVE NoRepeats(x) /\ NoRepeats(y) /\ Apart(Range(x), Range(y))
  <2>0. \A i, j \in 1..(m + n) : z[i] = z[j] => i = j
      BY <1>2, <1>8 DEF NoRepeats
  <2>1. NoRepeats(x)
      BY <1>1, <1>2, <1>3, <2>0 DEF NoRepeats
  <2>2. NoRepeats(y)
    <3>1. ASSUME NEW i \in 1..n, NEW j \in 1..n, y[i] = y[j] PROVE i = j
      <4>1. z[m + i] = z[m + j] /\ m + i \in 1..(m + n) /\ m + j \in 1..(m + n)
          BY <1>1, <1>4, <3>1
      <4>2. m + i = m + j
          BY <2>0, <4>1
      <4> QED BY <1>6, <4>2
    <3> QED BY <1>2, <3>1 DEF NoRepeats
  <2>3. ASSUME NEW i \in 1..m, NEW j \in 1..n, x[i] = y[j] PROVE FALSE
    <3>1. z[i] = z[m + j] /\ i \in 1..(m + n) /\ m + j \in 1..(m + n)
        BY <1>1, <1>3, <1>4, <2>3
    <3>2. i = m + j
        BY <2>0, <3>1
    <3> QED BY <1>5, <3>2
  <2>4. Apart(Range(x), Range(y))
      BY <1>2, <2>3 DEF Apart, Range
  <2> QED BY <2>1, <2>2, <2>4
<1>9. ASSUME NoRepeats(x), NoRepeats(y), Apart(Range(x), Range(y)) PROVE NoRepeats(z)
  <2>0. /\ \A i, j \in 1..m : x[i] = x[j] => i = j
        /\ \A i, j \in 1..n : y[i] = y[j] => i = j
        /\ \A i \in 1..m, j \in 1..n : x[i] # y[j]
      BY <1>2, <1>9 DEF NoRepeats, Apart, Range
  <2>1. ASSUME NEW i \in 1..(m + n), NEW j \in 1..(m + n), z[i] = z[j] PROVE i = j
    <3>1. CASE i \in 1..m /\ j \in 1..m
        BY <1>1, <2>0, <2>1, <3>1
    <3>2. ASSUME i \in 1..m, j - m \in 1..n, j = m + (j - m) PROVE FALSE
      <4>1. z[j] = y[j - m]
          BY <1>1, <3>2
      <4> QED BY <1>1, <2>0, <2>1, <3>2, <4>1
    <3>3. ASSUME j \in 1..m, i - m \in 1..n, i = m + (i - m) PROVE FALSE
      <4>1. z[i] = y[i - m]
          BY <1>1, <3>3
      <4>2. z[j] = x[j]
          BY <1>1, <3>3
      <4> QED BY <2>0, <2>1, <3>3, <4>1, <4>2
    <3>4. CASE i - m \in 1..n /\ i = m + (i - m) /\ j - m \in 1..n /\ j = m + (j - m)
      <4>1. z[i] = y[i - m] /\ z[j] = y[j - m]
          BY <1>1, <3>4
      <4>2. i - m = j - m
          BY <2>0, <2>1, <3>4, <4>1
      <4> QED BY <3>4, <4>2
    <3> QED BY <1>7, <3>1, <3>2, <3>3, <3>4
  <2> QED BY <1>2, <2>1 DEF NoRepeats
<1> QED BY <1>8, <1>9 DEF z

\* What stands before what in two sequences, one after the other.
LEMMA BeforeCat ==
    ASSUME NEW x, NEW y, IsSeq(x), IsSeq(y), NEW a, NEW b
    PROVE  Before(Cat(x, y), a, b)
               <=> \/ Before(x, a, b)
                   \/ Before(y, a, b)
                   \/ a \in Range(x) /\ b \in Range(y)
<1> DEFINE z == Cat(x, y)
           m == Len(x)
           n == Len(y)
<1>1. /\ IsSeq(z) /\ Len(z) = m + n /\ m \in Nat /\ n \in Nat
      /\ \A i \in 1..m : z[i] = x[i]
      /\ \A i \in 1..n : z[m + i] = y[i]
    BY CatOK, CatIndex
<1>2. DOMAIN x = 1..m /\ DOMAIN y = 1..n /\ DOMAIN z = 1..(m + n)
    BY <1>1, IsSeqLen
<1> HIDE DEF z, m, n
<1>3. ASSUME Before(z, a, b)
      PROVE  Before(x, a, b) \/ Before(y, a, b) \/ (a \in Range(x) /\ b \in Range(y))
  <2>1. PICK i \in 1..(m + n), j \in 1..(m + n) : i < j /\ z[i] = a /\ z[j] = b
      BY <1>2, <1>3 DEF Before
  <2>2. CASE j <= m
    <3>1. i \in 1..m /\ j \in 1..m
        BY <1>1, <2>1, <2>2
    <3>2. x[i] = a /\ x[j] = b
        BY <1>1, <2>1, <3>1
    <3> QED BY <1>2, <2>1, <3>1, <3>2 DEF Before
  <2>3. CASE ~(j <= m) /\ i <= m
    <3>1. i \in 1..m /\ j - m \in 1..n /\ m + (j - m) = j
        BY <1>1, <2>1, <2>3
    <3>2. x[i] = a /\ y[j - m] = b
        BY <1>1, <2>1, <3>1
    <3> QED BY <1>2, <3>1, <3>2 DEF Range
  <2>4. CASE ~(i <= m)
    <3>1. i - m \in 1..n /\ m + (i - m) = i /\ j - m \in 1..n /\ m + (j - m) = j
          /\ i - m < j - m
        BY <1>1, <2>1, <2>4
    <3>2. y[i - m] = a /\ y[j - m] = b
        BY <1>1, <2>1, <3>1
    <3> QED BY <1>2, <3>1, <3>2 DEF Before
  <2> QED BY <2>2, <2>3, <2>4
<1>4. ASSUME Before(x, a, b) PROVE Before(z, a, b)
  <2>1. PICK i \in 1..m, j \in 1..m : i < j /\ x[i] = a /\ x[j] = b
      BY <1>2, <1>4 DEF Before
  <2>2. i \in 1..(m + n) /\ j \in 1..(m + n) /\ z[i] = a /\ z[j] = b
      BY <1>1, <2>1
  <2> QED BY <1>2, <2>1, <2>2 DEF Before
<1>5. ASSUME Before(y, a, b) PROVE Before(z, a, b)
  <2>1. PICK i \in 1..n, j \in 1..n : i < j /\ y[i] = a /\ y[j] = b
      BY <1>2, <1>5 DEF Before
  <2>2. m + i \in 1..(m + n) /\ m + j \in 1..(m + n) /\ m + i < m + j
      BY <1>1, <2>1
  <2>3. z[m + i] = a /\ z[m + j] = b
      BY <1>1, <2>1
  <2> QED BY <1>2, <2>2, <2>3 DEF Before
<1>6. ASSUME a \in Range(x), b \in Range(y) PROVE Before(z, a, b)
  <2>1. PICK i \in 1..m, j \in 1..n : x[i] = a /\ y[j] = b
      BY <1>2, <1>6 DEF Range
  <2>2. i \in 1..(m + n) /\ m + j \in 1..(m + n) /\ i < m + j
      BY <1>1, <2>1
  <2>3. z[i] = a /\ z[m + j] = b
      BY <1>1, <2>1
  <2> QED BY <1>2, <2>2, <2>3 DEF Before
<1> QED BY <1>3, <1>4, <1>5, <1>6 DEF z

---------------------------------------------------------------------------
(* What an operation keeps, it keeps in order.                             *)

(***************************************************************************)
(* Sequence e is made of d: the elements of w are added, some of d's are   *)
(* dropped, and the others stand in the order they had.                    *)
(***************************************************************************)
Threads(d, e, w) ==
    /\ Range(e) \subseteq Range(d) \cup Range(w)
    /\ Range(w) \subseteq Range(e)
    /\ \A a, b : a \notin Range(w) /\ b \notin Range(w) /\ Before(e, a, b) => Before(d, a, b)
    /\ NoRepeats(d) /\ NoRepeats(w) /\ Apart(Range(d), Range(w)) => NoRepeats(e)
    /\ NoRepeats(e) => NoRepeats(w)

\* What is kept in front.
LEMMA ThreadsRetain ==
    ASSUME NEW y, NEW v, NEW w, Threads(y, v, w), NEW x,
           IsSeq(x), IsSeq(y), IsSeq(v), IsSeq(w)
    PROVE  Threads(Cat(x, y), Cat(x, v), w)
<1>1. /\ Range(Cat(x, y)) = Range(x) \cup Range(y)
      /\ Range(Cat(x, v)) = Range(x) \cup Range(v)
    BY RangeCat
<1>2. /\ NoRepeats(Cat(x, y)) <=> NoRepeats(x) /\ NoRepeats(y) /\ Apart(Range(x), Range(y))
      /\ NoRepeats(Cat(x, v)) <=> NoRepeats(x) /\ NoRepeats(v) /\ Apart(Range(x), Range(v))
    BY NoRepeatsCat
<1>3. /\ Range(v) \subseteq Range(y) \cup Range(w)
      /\ Range(w) \subseteq Range(v)
      /\ NoRepeats(y) /\ NoRepeats(w) /\ Apart(Range(y), Range(w)) => NoRepeats(v)
      /\ NoRepeats(v) => NoRepeats(w)
    BY DEF Threads
<1>4. ASSUME NEW a, NEW b, a \notin Range(w), b \notin Range(w), Before(Cat(x, v), a, b)
      PROVE  Before(Cat(x, y), a, b)
  <2>1. Before(x, a, b) \/ Before(v, a, b) \/ (a \in Range(x) /\ b \in Range(v))
      BY <1>4, BeforeCat
  <2>2. Before(v, a, b) => Before(y, a, b)
      BY <1>4 DEF Threads
  <2>3. b \in Range(v) => b \in Range(y)
      BY <1>3, <1>4
  <2>4. Before(x, a, b) \/ Before(y, a, b) \/ (a \in Range(x) /\ b \in Range(y))
      BY <2>1, <2>2, <2>3
  <2> QED BY <2>4, BeforeCat
<1>5. /\ Range(Cat(x, v)) \subseteq Range(Cat(x, y)) \cup Range(w)
      /\ Range(w) \subseteq Range(Cat(x, v))
    BY <1>1, <1>3
<1>6. ASSUME NoRepeats(Cat(x, y)), NoRepeats(w), Apart(Range(Cat(x, y)), Range(w))
      PROVE  NoRepeats(Cat(x, v))
  <2>1. Apart(Range(y), Range(w)) /\ Apart(Range(x), Range(v))
      BY <1>1, <1>2, <1>3, <1>6 DEF Apart
  <2> QED BY <1>2, <1>3, <1>6, <2>1
<1>7. NoRepeats(Cat(x, v)) => NoRepeats(w)
    BY <1>2, <1>3
<1> QED BY <1>4, <1>5, <1>6, <1>7 DEF Threads

\* What is dropped in front.
LEMMA ThreadsDelete ==
    ASSUME NEW y, NEW v, NEW w, Threads(y, v, w), NEW x, IsSeq(x), IsSeq(y)
    PROVE  Threads(Cat(x, y), v, w)
<1>1. Range(Cat(x, y)) = Range(x) \cup Range(y)
    BY RangeCat
<1>2. NoRepeats(Cat(x, y)) => NoRepeats(y)
    BY NoRepeatsCat
<1>3. \A a, b : Before(y, a, b) => Before(Cat(x, y), a, b)
    BY BeforeCat
<1>4. Apart(Range(Cat(x, y)), Range(w)) => Apart(Range(y), Range(w))
    BY <1>1 DEF Apart
<1> QED BY <1>1, <1>2, <1>3, <1>4 DEF Threads

\* What is added in front.
LEMMA ThreadsInsert ==
    ASSUME NEW d, NEW v, NEW w, Threads(d, v, w), NEW u,
           IsSeq(u), IsSeq(v), IsSeq(w)
    PROVE  Threads(d, Cat(u, v), Cat(u, w))
<1>1. /\ Range(Cat(u, v)) = Range(u) \cup Range(v)
      /\ Range(Cat(u, w)) = Range(u) \cup Range(w)
    BY RangeCat
<1>2. /\ NoRepeats(Cat(u, v)) <=> NoRepeats(u) /\ NoRepeats(v) /\ Apart(Range(u), Range(v))
      /\ NoRepeats(Cat(u, w)) <=> NoRepeats(u) /\ NoRepeats(w) /\ Apart(Range(u), Range(w))
    BY NoRepeatsCat
<1>3. /\ Range(v) \subseteq Range(d) \cup Range(w)
      /\ Range(w) \subseteq Range(v)
      /\ NoRepeats(d) /\ NoRepeats(w) /\ Apart(Range(d), Range(w)) => NoRepeats(v)
      /\ NoRepeats(v) => NoRepeats(w)
    BY DEF Threads
<1>4. ASSUME NEW a, NEW b, a \notin Range(Cat(u, w)), b \notin Range(Cat(u, w)),
             Before(Cat(u, v), a, b)
      PROVE  Before(d, a, b)
  <2>1. a \notin Range(u) /\ a \notin Range(w) /\ b \notin Range(u) /\ b \notin Range(w)
      BY <1>1, <1>4
  <2>2. Before(u, a, b) => a \in Range(u)
    <3> SUFFICES ASSUME Before(u, a, b) PROVE a \in Range(u)
        OBVIOUS
    <3>1. PICK i, j \in DOMAIN u : u[i] = a
        BY DEF Before
    <3> QED BY <3>1 DEF Range
  <2>3. Before(v, a, b)
      BY <1>4, <2>1, <2>2, BeforeCat
  <2> QED BY <2>1, <2>3 DEF Threads
<1>5. /\ Range(Cat(u, v)) \subseteq Range(d) \cup Range(Cat(u, w))
      /\ Range(Cat(u, w)) \subseteq Range(Cat(u, v))
    BY <1>1, <1>3
<1>6. ASSUME NoRepeats(d), NoRepeats(Cat(u, w)), Apart(Range(d), Range(Cat(u, w)))
      PROVE  NoRepeats(Cat(u, v))
  <2>1. Apart(Range(d), Range(w)) /\ Apart(Range(u), Range(v))
      BY <1>1, <1>2, <1>3, <1>6 DEF Apart
  <2> QED BY <1>2, <1>3, <1>6, <2>1
<1>7. NoRepeats(Cat(u, v)) => NoRepeats(Cat(u, w))
  <2>1. Apart(Range(u), Range(v)) => Apart(Range(u), Range(w))
      BY <1>3 DEF Apart
  <2> QED BY <1>2, <1>3, <2>1
<1> QED BY <1>4, <1>5, <1>6, <1>7 DEF Threads

\* An operation adds what it inserts, and keeps the order of what it retains.
LEMMA DoesThreads ==
    ASSUME NEW op, NEW d, NEW e, Does(op, d, e)
    PROVE  Threads(d, e, Inserted(op))
<1> DEFINE Good(n) == \A p, x, y : Len(p) = n /\ Does(p, x, y) => Threads(x, y, Inserted(p))
           N == Len(op)
           S == {n \in 0..N : Good(n)}
<1>1. N \in Nat
    BY OpIndex DEF Does
<1>2. Good(0)
  <2> DEFINE none == << >>
  <2>1. ASSUME NEW p, NEW x, NEW y, Len(p) = 0, Does(p, x, y)
        PROVE  p = none /\ x = none /\ y = none
    <3>1. p = none
        BY <2>1, OpIndex, IsSeqNone DEF Does
    <3> QED BY <2>1, <3>1, DoesEmpty
  <2>2. Range(none) = {} /\ NoRepeats(none)
      BY IsSeqEmpty DEF Range, NoRepeats
  <2>3. Inserted(none) = none
      BY InsertedNothing
  <2>4. \A a, b : ~Before(none, a, b)
      BY IsSeqEmpty DEF Before
  <2> HIDE DEF none
  <2>5. Threads(none, none, none)
      BY <2>2, <2>4 DEF Threads
  <2> QED BY <2>1, <2>3, <2>5
<1>3. ASSUME NEW n \in 0..(N - 1), Good(n) PROVE Good(n + 1)
  <2> SUFFICES ASSUME NEW p, NEW x, NEW y, Len(p) = n + 1, Does(p, x, y)
               PROVE  Threads(x, y, Inserted(p))
      OBVIOUS
  <2> DEFINE t == Tail(p)
  <2>1. OpOK(p) /\ p # << >> /\ IsSeq(x) /\ IsSeq(y)
    <3>1. OpOK(p) /\ IsSeq(x) /\ IsSeq(y)
        BY DEF Does
    <3>2. Len(p) # 0
        BY <1>1
    <3> QED BY <3>1, <3>2, OpEmpty
  <2>2. /\ CompOK(Head(p)) /\ OpOK(t)
        /\ Inserted(p) = Cat(Puts(Head(p)), Inserted(t))
        /\ IsSeq(Inserted(t))
      BY <2>1, InsertedHead
  <2>3. Len(t) = n
    <3>1. Len(p) = 1 + Len(t) /\ Len(t) \in Nat
        BY <2>1, OpHead
    <3> DEFINE l == Len(t)
    <3> HIDE DEF l
    <3>2. n + 1 = 1 + l /\ l \in Nat /\ n \in Nat
        BY <1>1, <3>1 DEF l
    <3>3. l = n
        BY <3>2
    <3> QED BY <3>3 DEF l
  <2> HIDE DEF t
  <2>4. \A z, v : Does(t, z, v) => Threads(z, v, Inserted(t))
      BY <1>3, <2>3
  <2>5. Head(p).kind # "insert" => Inserted(p) = Inserted(t)
      BY <2>1, InsertedRest DEF t
  <2>6. CASE Head(p).kind = "retain"
    <3>1. PICK a, z, v : /\ IsSeq(a) /\ x = Cat(a, z) /\ y = Cat(a, v)
                         /\ IsSeq(z) /\ IsSeq(v) /\ Does(t, z, v)
        BY <2>1, <2>6, DoesHeadRetain DEF t
    <3>2. Threads(z, v, Inserted(t))
        BY <2>4, <3>1
    <3> QED BY <2>2, <2>5, <2>6, <3>1, <3>2, ThreadsRetain
  <2>7. CASE Head(p).kind = "delete"
    <3>1. PICK a, z : /\ IsSeq(a) /\ x = Cat(a, z) /\ IsSeq(z) /\ Does(t, z, y)
        BY <2>1, <2>7, DoesHeadDelete DEF t
    <3>2. Threads(z, y, Inserted(t))
        BY <2>4, <3>1
    <3> QED BY <2>2, <2>5, <2>7, <3>1, <3>2, ThreadsDelete
  <2>8. CASE Head(p).kind = "insert"
    <3> DEFINE u == Head(p).s
    <3>1. PICK v : Does(t, x, v) /\ y = Cat(u, v) /\ IsSeq(u)
        BY <2>1, <2>8, DoesHeadInsert DEF t
    <3>2. Threads(x, v, Inserted(t)) /\ IsSeq(v)
        BY <2>4, <3>1 DEF Does
    <3>3. Inserted(p) = Cat(u, Inserted(t))
        BY <2>2, <2>8 DEF Puts
    <3> HIDE DEF u
    <3> QED BY <2>2, <3>1, <3>2, <3>3, ThreadsInsert
  <2> QED BY <2>2, <2>6, <2>7, <2>8, CompCases
<1>4. 0..N \subseteq S
  <2> HIDE DEF Good
  <2>1. 0 \in S /\ \A n \in 0..(N - 1) : n \in S => n + 1 \in S
      BY <1>1, <1>2, <1>3
  <2> HIDE DEF S, N
  <2> QED BY <1>1, <2>1, BoundedInduction
<1>5. Good(N)
  <2> HIDE DEF Good
  <2>1. N \in 0..N
      BY <1>1
  <2> QED BY <1>4, <2>1
<1> QED BY <1>5

\* Operation op brings only bytes of W.
Within(op, W) == OpOK(op) /\ Brings(op) \subseteq W

\* What an operation brings, it brings with a retain or a delete added, and
\* without a part of a head that does not insert.
LEMMA WithinSkips ==
    ASSUME NEW op, NEW W, Within(op, W)
    PROVE  /\ \A n \in Nat : Within(Retain(op, n), W) /\ Within(Delete(op, n), W)
           /\ op # << >> /\ Head(op).kind # "insert" =>
                 /\ Within(Tail(op), W)
                 /\ \A n \in 1..CompLen(Head(op)) : Within(Take(op, n), W)
<1>1. ASSUME NEW n \in Nat PROVE Within(Retain(op, n), W) /\ Within(Delete(op, n), W)
    BY InsertedRetain, InsertedDelete DEF Within, Brings
<1>2. ASSUME op # << >>, Head(op).kind # "insert"
      PROVE  /\ Within(Tail(op), W)
             /\ \A n \in 1..CompLen(Head(op)) : Within(Take(op, n), W)
  <2>1. Within(Tail(op), W)
      BY <1>2, InsertedRest DEF Within, Brings
  <2>2. ASSUME NEW n \in 1..CompLen(Head(op)) PROVE Within(Take(op, n), W)
      BY <1>2, InsertedTake DEF Within, Brings
  <2> QED BY <2>1, <2>2
<1> QED BY <1>1, <1>2

\* Text of W is inserted.
LEMMA WithinInsert ==
    ASSUME NEW op, NEW W, Within(op, W), NEW s, IsSeq(s), Range(s) \subseteq W
    PROVE  Within(Insert(op, s), W)
<1>1. /\ OpOK(Insert(op, s)) /\ Inserted(Insert(op, s)) = Cat(Inserted(op), s)
      /\ IsSeq(Inserted(op))
    BY InsertedInsert, InsertedOK DEF Within
<1> QED BY <1>1, RangeCat DEF Within, Brings

\* An insert at the head, whole or in part, is of W, and so is what follows it.
LEMMA WithinHead ==
    ASSUME NEW op, NEW W, Within(op, W), op # << >>, Head(op).kind = "insert"
    PROVE  /\ IsSeq(Head(op).s) /\ Range(Head(op).s) \subseteq W
           /\ Within(Tail(op), W)
           /\ \A n \in 1..CompLen(Head(op)) :
                 /\ IsSeq(HeadText(op, n)) /\ Range(HeadText(op, n)) \subseteq W
                 /\ Within(Take(op, n), W)
<1>1. OpOK(op) /\ Range(Inserted(op)) \subseteq W
    BY DEF Within, Brings
<1>2. /\ IsSeq(Head(op).s) /\ OpOK(Tail(op)) /\ IsSeq(Inserted(Tail(op)))
      /\ Inserted(op) = Cat(Head(op).s, Inserted(Tail(op)))
    BY <1>1, InsertedHead DEF Puts
<1>3. Range(Head(op).s) \subseteq W /\ Within(Tail(op), W)
    BY <1>1, <1>2, RangeCat DEF Within, Brings
<1>4. ASSUME NEW n \in 1..CompLen(Head(op))
      PROVE  /\ IsSeq(HeadText(op, n)) /\ Range(HeadText(op, n)) \subseteq W
             /\ Within(Take(op, n), W)
  <2>1. /\ OpOK(Take(op, n)) /\ IsSeq(HeadText(op, n)) /\ IsSeq(Inserted(Take(op, n)))
        /\ Inserted(op) = Cat(HeadText(op, n), Inserted(Take(op, n)))
      BY <1>1, InsertedText, InsertedOK
  <2> QED BY <1>1, <2>1, RangeCat DEF Within, Brings
<1> QED BY <1>2, <1>3, <1>4

\* One turn of Compose's loop.
LEMMA ComposeGathers ==
    ASSUME NEW st, NEW d, NEW f, Composing(st, d, f), Ok(st.ia) \/ Ok(st.ib),
           NEW next, next = ComposeStep(st),
           NEW W, Within(st.ia, W), Within(st.ib, W), Within(st.out, W)
    PROVE  Within(next.ia, W) /\ Within(next.ib, W) /\ Within(next.out, W)
<1> DEFINE ia == st.ia
           ib == st.ib
           out == st.out
           n == Common(ia, ib)
           ka == Kind(ia)
           kb == Kind(ib)
           ja == Take(ia, n)
           jb == Take(ib, n)
<1>1. /\ DOMAIN st = {"ia", "ib", "out", "ok"} /\ st.ok = TRUE
      /\ Chained(ia, ib, out, d, f)
      /\ ia # << >> \/ ib # << >>
    BY DEF Composing, Ok
<1>2. /\ OpOK(ia) /\ OpOK(ib)
      /\ ia = << >> => Head(ib).kind = "insert"
      /\ ib = << >> => Head(ia).kind = "delete"
  <2>1. PICK d1, d2, e2, f1, f2 :
          /\ Does(ia, d2, e2) /\ Does(ib, e2, f2)
          /\ d = Cat(d1, d2) /\ f = Cat(f1, f2)
          /\ Does(out, d1, f1)
      BY <1>1 DEF Chained
  <2>3. ASSUME ia = << >> PROVE Head(ib).kind = "insert"
    <3>1. e2 = << >> /\ ib # << >>
        BY <1>1, <2>1, <2>3, DoesEmpty
    <3> QED BY <2>1, <3>1, HeadOfNothing
  <2>4. ASSUME ib = << >> PROVE Head(ia).kind = "delete"
    <3>1. e2 = << >> /\ ia # << >>
        BY <1>1, <2>1, <2>4, DoesEmpty
    <3> QED BY <2>1, <3>1, HeadToNothing
  <2> QED BY <2>1, <2>3, <2>4 DEF Does
<1>3. /\ ia # << >> => /\ Head(ia).kind \in {"retain", "delete", "insert"}
                       /\ Head(ia).kind = "delete" => Head(ia).n \in Nat
      /\ ib # << >> => Head(ib).kind \in {"retain", "delete", "insert"}
    BY <1>2, OpHead, CompCases
<1>4. /\ ka = IF ia = << >> THEN "none" ELSE Head(ia).kind
      /\ kb = IF ib = << >> THEN "none" ELSE Head(ib).kind
    BY DEF Kind, Ok
<1>5. ComposeCases(st, next, n, ka, kb)
    BY <1>1, ComposeKinds
<1>6. Within(ia, W) /\ Within(ib, W) /\ Within(out, W)
    OBVIOUS
<1>7. CASE ia # << >> /\ Head(ia).kind = "delete"
  <2>1. ComposesTo(next, Tail(ia), ib, Delete(out, Head(ia).n))
      BY <1>4, <1>5, <1>7 DEF ComposeCases
  <2> HIDE DEF ia, ib, out
  <2>2. Within(Tail(ia), W) /\ Within(Delete(out, Head(ia).n), W)
      BY <1>3, <1>6, <1>7, WithinSkips
  <2> QED BY <1>6, <2>1, <2>2 DEF ComposesTo
<1>8. CASE ~(ia # << >> /\ Head(ia).kind = "delete") /\ ib # << >> /\ Head(ib).kind = "insert"
  <2>1. ComposesTo(next, ia, Tail(ib), Insert(out, Head(ib).s))
    <3>1. ka # "delete" /\ kb = "insert"
        BY <1>4, <1>8
    <3> QED BY <1>5, <3>1 DEF ComposeCases
  <2> HIDE DEF ia, ib, out
  <2>2. Within(Tail(ib), W) /\ Within(Insert(out, Head(ib).s), W)
      BY <1>6, <1>8, WithinHead, WithinInsert
  <2> QED BY <1>6, <2>1, <2>2 DEF ComposesTo
<1>9. CASE /\ ia # << >> /\ Head(ia).kind \in {"retain", "insert"}
           /\ ib # << >> /\ Head(ib).kind \in {"retain", "delete"}
  <2>1. /\ n \in 1..CompLen(Head(ia)) /\ n \in 1..CompLen(Head(ib))
        /\ n = CompLen(Head(ia)) \/ n = CompLen(Head(ib))
        /\ n \in Nat /\ n <= CompLen(Head(ia))
      BY <1>2, <1>9, CommonOK
  <2>2. ka = Head(ia).kind /\ kb = Head(ib).kind
      BY <1>4, <1>9
  <2>3. Head(ia).kind = "insert" => ~SplitsCharacter(ia, n)
    <3> HIDE DEF n
    <3> QED BY <1>1, <1>9, <2>1, ChainedWhole
  <2>4. \/ ComposesTo(next, ja, jb, Retain(out, n))
        \/ ComposesTo(next, ja, jb, Delete(out, n))
        \/ Head(ia).kind = "insert" /\ ComposesTo(next, ja, jb, Insert(out, HeadText(ia, n)))
        \/ ComposesTo(next, ja, jb, out)
    <3> HIDE DEF n, ka, kb
    <3> QED BY <1>5, <1>9, <2>2, <2>3 DEF ComposeCases, ja, jb, out, ia, ib
  <2> HIDE DEF ia, ib, out, n, ka, kb
  <2>5. Within(ja, W)
      BY <1>6, <1>9, <2>1, WithinHead, WithinSkips
  <2>6. Within(jb, W)
      BY <1>6, <1>9, <2>1, WithinSkips
  <2>7. Within(Retain(out, n), W) /\ Within(Delete(out, n), W)
      BY <1>6, <2>1, WithinSkips
  <2>8. Head(ia).kind = "insert" => Within(Insert(out, HeadText(ia, n)), W)
      BY <1>6, <1>9, <2>1, WithinHead, WithinInsert
  <2> HIDE DEF ja, jb
  <2> QED BY <1>6, <2>4, <2>5, <2>6, <2>7, <2>8 DEF ComposesTo
<1>10. \/ ia # << >> /\ Head(ia).kind = "delete"
       \/ ~(ia # << >> /\ Head(ia).kind = "delete") /\ ib # << >> /\ Head(ib).kind = "insert"
       \/ /\ ia # << >> /\ Head(ia).kind \in {"retain", "insert"}
          /\ ib # << >> /\ Head(ib).kind \in {"retain", "delete"}
    BY <1>1, <1>2, <1>3
<1> QED BY <1>7, <1>8, <1>9, <1>10

\* A composition brings nothing that its parts do not bring.
LEMMA ComposeBrings ==
    ASSUME NEW a, NEW b, NEW d, NEW e, NEW f, Does(a, d, e), Does(b, e, f)
    PROVE  Brings(Compose(a, b)) \subseteq Brings(a) \cup Brings(b)
<1> DEFINE N == Len(a) + Len(b)
           W == Brings(a) \cup Brings(b)
           run == CHOOSE run : ComposeRun(a, b, run)
<1>1. OpOK(a) /\ OpOK(b) /\ IsSeq(a) /\ IsSeq(b)
    BY OpIndex DEF Does
<1>2. ComposeRun(a, b, run)
    BY <1>1, ComposeUnfold
<1> HIDE DEF run
<1>3. N \in Nat /\ \A k \in 0..N : Composing(run[k], d, f)
    BY <1>2, ComposeKeeps
<1> DEFINE Good(k) == Within(run[k].ia, W) /\ Within(run[k].ib, W) /\ Within(run[k].out, W)
           S == {k \in 0..N : Good(k)}
<1>4. Good(0)
  <2>1. run[0].ia = a /\ run[0].ib = b /\ run[0].out = << >>
      BY <1>2 DEF ComposeRun, New
  <2>2. OpOK(<< >>) /\ Brings(<< >>) = {}
      BY OpEmpty, InsertedNothing DEF Brings, Range
  <2> QED BY <1>1, <2>1, <2>2 DEF Within
<1>5. ASSUME NEW k \in 0..(N - 1), Good(k) PROVE Good(k + 1)
  <2> DEFINE st == run[k]
             next == run[k + 1]
  <2>1. k + 1 \in 1..N /\ (k + 1) - 1 = k /\ k \in 0..N
      BY <1>3
  <2>2. next = IF st.ok /\ (Ok(st.ia) \/ Ok(st.ib)) THEN ComposeStep(st) ELSE st
      BY <1>2, <2>1 DEF ComposeRun
  <2>3. Composing(st, d, f) /\ Within(st.ia, W) /\ Within(st.ib, W) /\ Within(st.out, W)
      BY <1>3, <1>5, <2>1
  <2> HIDE DEF next, st, W
  <2>4. CASE st.ok /\ (Ok(st.ia) \/ Ok(st.ib))
    <3>1. Within(next.ia, W) /\ Within(next.ib, W) /\ Within(next.out, W)
        BY <2>2, <2>3, <2>4, ComposeGathers
    <3> QED BY <3>1 DEF next
  <2>5. CASE ~(st.ok /\ (Ok(st.ia) \/ Ok(st.ib)))
      BY <2>2, <2>3, <2>5 DEF next
  <2> QED BY <2>4, <2>5
<1>6. Good(N)
  <2> HIDE DEF Good
  <2>1. 0 \in S /\ \A k \in 0..(N - 1) : k \in S => k + 1 \in S
      BY <1>3, <1>4, <1>5
  <2> HIDE DEF S, N
  <2>2. 0..N \subseteq S /\ N \in 0..N
      BY <1>3, <2>1, BoundedInduction
  <2> QED BY <2>2 DEF S
<1>7. Compose(a, b) = run[N].out
    BY <1>2 DEF ComposeRun, Compose
<1> QED BY <1>6, <1>7 DEF Within

---------------------------------------------------------------------------
(* Texts that come from a common one.                                      *)

\* What s shows of u stands in the order of u.
Keeps(u, s) == \A a, b \in Range(u) : Before(s, a, b) => Before(u, a, b)

\* Text s comes from u: bytes of W are added, some of u's dropped.
Evolves(u, s, W) == Range(s) \subseteq Range(u) \cup W /\ Keeps(u, s)

\* What stands before something is shown, and so is the other.
LEMMA BeforeShown ==
    ASSUME NEW s, NEW a, NEW b, Before(s, a, b)
    PROVE  a \in Range(s) /\ b \in Range(s)
BY DEF Before, Range

\* A text that repeats nothing has one order.
LEMMA BeforeOnce ==
    ASSUME NEW s, IsSeq(s), NoRepeats(s), NEW a, NEW b, Before(s, a, b)
    PROVE  ~Before(s, b, a)
<1>1. DOMAIN s = 1..Len(s) /\ Len(s) \in Nat
    BY IsSeqLen
<1>2. PICK i, j \in DOMAIN s : i < j /\ s[i] = a /\ s[j] = b
    BY DEF Before
<1>3. ASSUME NEW k \in DOMAIN s, NEW l \in DOMAIN s, k < l, s[k] = b, s[l] = a
      PROVE  FALSE
  <2>1. k = j /\ l = i
      BY <1>2, <1>3 DEF NoRepeats
  <2> QED BY <1>1, <1>2, <1>3, <2>1
<1> QED BY <1>3 DEF Before

\* A text comes from itself.
LEMMA EvolvesSame ==
    ASSUME NEW u, NEW W
    PROVE  Evolves(u, u, W)
BY DEF Evolves, Keeps

\* More bytes may be added than are.
LEMMA EvolvesMore ==
    ASSUME NEW u, NEW s, NEW W, Evolves(u, s, W), NEW X, W \subseteq X
    PROVE  Evolves(u, s, X)
BY DEF Evolves

\* A text comes from the one before, too.
LEMMA EvolvesOn ==
    ASSUME NEW u, NEW s, NEW W, Evolves(u, s, W),
           NEW t, NEW X, Evolves(s, t, X), Apart(X, Range(u))
    PROVE  Evolves(u, t, W \cup X)
<1>1. Range(t) \subseteq Range(u) \cup (W \cup X)
    BY DEF Evolves
<1>2. ASSUME NEW a \in Range(u), NEW b \in Range(u), Before(t, a, b) PROVE Before(u, a, b)
  <2>1. a \in Range(t) /\ b \in Range(t)
      BY <1>2, BeforeShown
  <2>2. a \in Range(s) /\ b \in Range(s)
      BY <2>1 DEF Evolves, Apart
  <2>3. Before(s, a, b)
      BY <1>2, <2>2 DEF Evolves, Keeps
  <2> QED BY <2>3 DEF Evolves, Keeps
<1> QED BY <1>1, <1>2 DEF Evolves, Keeps

\* Two texts that come from one with nothing in common added agree on order.
LEMMA EvolvesAgree ==
    ASSUME NEW u, IsSeq(u), NoRepeats(u), NEW s, NEW W, Evolves(u, s, W),
           NEW t, NEW X, Evolves(u, t, X), Apart(W, X),
           NEW a, NEW b, Before(s, a, b)
    PROVE  ~Before(t, b, a)
<1>1. SUFFICES ASSUME Before(t, b, a) PROVE FALSE
    OBVIOUS
<1>2. a \in Range(s) /\ b \in Range(s) /\ a \in Range(t) /\ b \in Range(t)
    BY <1>1, BeforeShown
<1>3. a \in Range(u) /\ b \in Range(u)
    BY <1>2 DEF Evolves, Apart
<1>4. Before(u, a, b) /\ Before(u, b, a)
    BY <1>1, <1>3 DEF Evolves, Keeps
<1> QED BY <1>4, BeforeOnce

\* An operation that inserts what is not there.
LEMMA DoesEvolves ==
    ASSUME NEW op, NEW d, NEW e, Does(op, d, e), Apart(Range(d), Brings(op))
    PROVE  /\ Evolves(d, e, Brings(op))
           /\ Brings(op) \subseteq Range(e)
           /\ NoRepeats(d) /\ NoRepeats(Inserted(op)) => NoRepeats(e)
<1>1. Threads(d, e, Inserted(op))
    BY DoesThreads
<1> QED BY <1>1 DEF Threads, Evolves, Keeps, Brings, Apart
=============================================================================
