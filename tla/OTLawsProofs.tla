---------------------------- MODULE OTLawsProofs ----------------------------
(***************************************************************************)
(* The laws of OTLaws, for any documents, any inserted texts and any       *)
(* number of builder calls.                                                *)
(*                                                                         *)
(* OTProofs says what the operations do to a document.  Here is the other  *)
(* half: what they look like.  The builder keeps an operation in canonical *)
(* form, so do Transform and Compose, which only use the builder, and two  *)
(* operations in canonical form that do the same are the same.             *)
(***************************************************************************)
EXTENDS OTLaws, OTProofs

---------------------------------------------------------------------------
(* Canonical form, and what the inserts are made of.                       *)

\* after may follow before.
Fits(before, after) ==
    /\ before.kind # after.kind
    /\ ~(before.kind = "delete" /\ after.kind = "insert")

\* What is inserted is a member of W.
Inserts(o, W) == o.kind = "insert" => o.s \in W

\* An operation in canonical form that inserts members of W.
Proper(o, W) ==
    /\ OpOK(o)
    /\ \A k \in 1..Len(o) : Inserts(o[k], W)
    /\ \A k \in 1..(Len(o) - 1) : Fits(o[k], o[k + 1])

\* Texts that can be inserted one after the other.
Closed(W) == \A s, t \in W : IsSeq(s) /\ s \o t \in W

LEMMA ProperCanonical ==
    ASSUME NEW o, NEW W, Proper(o, W)
    PROVE  Canonical(o)
<1>1. /\ DOMAIN o = 1..Len(o) /\ \A k \in 1..Len(o) : CompOK(o[k])
    BY OpIndex DEF Proper
<1>2. ASSUME NEW k \in DOMAIN o PROVE IsComp(o[k])
    BY <1>1, CompCases DEF IsComp
<1> QED BY <1>1, <1>2 DEF Proper, Canonical, Fits

\* The empty operation.
LEMMA ProperNone == ASSUME NEW W PROVE Proper(<< >>, W)
BY OpEmpty, IsSeqEmpty DEF Proper

\* A component is changed and keeps its kind.
LEMMA ProperReplace ==
    ASSUME NEW o, NEW W, Proper(o, W), NEW i \in 1..Len(o),
           NEW c, CompOK(c), Inserts(c, W), c.kind = o[i].kind
    PROVE  Proper([o EXCEPT ![i] = c], W)
<1> DEFINE r == [o EXCEPT ![i] = c]
<1>1. /\ IsSeq(o) /\ Len(o) \in Nat /\ DOMAIN o = 1..Len(o)
      /\ \A k \in 1..Len(o) : CompOK(o[k])
    BY OpIndex DEF Proper
<1>2. DOMAIN r = 1..Len(o) /\ \A k \in 1..Len(o) : r[k] = IF k = i THEN c ELSE o[k]
    BY <1>1
<1>3. IsSeq(r) /\ Len(r) = Len(o)
  <2> DEFINE S == Range(o) \cup {c}
  <2>1. o \in [1..Len(o) -> S]
      BY <1>1 DEF IsSeq, Range
  <2>2. r \in [1..Len(o) -> S]
      BY <2>1
  <2> HIDE DEF r, S
  <2>3. r \in Seq(S) /\ Len(r) = Len(o)
      BY <1>1, <2>2
  <2> QED BY <2>3, IsSeqIntro
<1> HIDE DEF r
<1>4. OpOK(r)
    BY <1>1, <1>2, <1>3 DEF OpOK
<1>5. \A k \in 1..Len(r) : Inserts(r[k], W)
    BY <1>2, <1>3 DEF Proper
<1>6. \A k \in 1..Len(o) : r[k].kind = o[k].kind
    BY <1>2
<1>7. \A k \in 1..(Len(r) - 1) : Fits(r[k], r[k + 1])
  <2>1. ASSUME NEW k \in 1..(Len(r) - 1) PROVE Fits(r[k], r[k + 1])
    <3>1. k \in 1..Len(o) /\ k + 1 \in 1..Len(o) /\ Fits(o[k], o[k + 1])
        BY <1>1, <1>3, <2>1 DEF Proper
    <3> QED BY <1>6, <3>1 DEF Fits
  <2> QED BY <2>1
<1>8. Proper(r, W)
    BY <1>4, <1>5, <1>7 DEF Proper
<1> QED BY <1>8 DEF r

\* Operations side by side.
LEMMA ProperCat ==
    ASSUME NEW p, NEW q, OpOK(p), OpOK(q), NEW W
    PROVE  Proper(Cat(p, q), W) <=>
              /\ Proper(p, W) /\ Proper(q, W)
              /\ p # << >> /\ q # << >> => Fits(p[Len(p)], q[1])
<1> DEFINE r == Cat(p, q)
<1>1. /\ OpOK(r) /\ Len(r) = Len(p) + Len(q)
      /\ Len(p) \in Nat /\ Len(q) \in Nat
      /\ \A k \in 1..Len(p) : r[k] = p[k]
      /\ \A k \in 1..Len(q) : r[Len(p) + k] = q[k]
    BY OpConcat DEF Cat
<1>2. /\ p = << >> <=> Len(p) = 0
      /\ q = << >> <=> Len(q) = 0
    BY IsSeqNone, OpIndex
<1> HIDE DEF r
<1>3. ASSUME Proper(r, W) PROVE Proper(p, W)
  <2>1. \A k \in 1..Len(p) : Inserts(p[k], W)
      BY <1>1, <1>3 DEF Proper
  <2>2. \A k \in 1..(Len(p) - 1) : Fits(p[k], p[k + 1])
    <3>1. ASSUME NEW k \in 1..(Len(p) - 1) PROVE Fits(p[k], p[k + 1])
      <4>1. k \in 1..Len(p) /\ k + 1 \in 1..Len(p) /\ k \in 1..(Len(r) - 1)
          BY <1>1, <3>1
      <4>2. Fits(r[k], r[k + 1])
          BY <1>3, <4>1 DEF Proper
      <4> QED BY <1>1, <4>1, <4>2
    <3> QED BY <3>1
  <2> QED BY <2>1, <2>2 DEF Proper
<1>4. ASSUME Proper(r, W) PROVE Proper(q, W)
  <2>1. \A k \in 1..Len(q) : Inserts(q[k], W)
    <3>1. ASSUME NEW k \in 1..Len(q) PROVE Inserts(q[k], W)
      <4>1. Len(p) + k \in 1..Len(r)
          BY <1>1, <3>1
      <4> QED BY <1>1, <1>4, <3>1, <4>1 DEF Proper
    <3> QED BY <3>1
  <2>2. \A k \in 1..(Len(q) - 1) : Fits(q[k], q[k + 1])
    <3>1. ASSUME NEW k \in 1..(Len(q) - 1) PROVE Fits(q[k], q[k + 1])
      <4> DEFINE i == Len(p) + k
      <4>1. k \in 1..Len(q) /\ k + 1 \in 1..Len(q) /\ i \in 1..(Len(r) - 1)
            /\ i + 1 = Len(p) + (k + 1)
          BY <1>1, <3>1
      <4>2. r[i] = q[k] /\ r[i + 1] = q[k + 1]
          BY <1>1, <4>1
      <4> HIDE DEF i
      <4>3. Fits(r[i], r[i + 1])
          BY <1>4, <4>1 DEF Proper
      <4> QED BY <4>2, <4>3
    <3> QED BY <3>1
  <2> QED BY <2>1, <2>2 DEF Proper
<1>5. ASSUME Proper(r, W), p # << >>, q # << >> PROVE Fits(p[Len(p)], q[1])
  <2>1. Len(p) \in 1..Len(p) /\ Len(p) \in 1..(Len(r) - 1) /\ 1 \in 1..Len(q)
      BY <1>1, <1>2, <1>5
  <2>2. Fits(r[Len(p)], r[Len(p) + 1])
      BY <1>5, <2>1 DEF Proper
  <2> QED BY <1>1, <2>1, <2>2
<1>6. ASSUME Proper(p, W), Proper(q, W), p # << >> /\ q # << >> => Fits(p[Len(p)], q[1])
      PROVE  Proper(r, W)
  <2>1. ASSUME NEW k \in 1..Len(r)
        PROVE  k \in 1..Len(p) \/ \E j \in 1..Len(q) : k = Len(p) + j
    <3>1. CASE ~(k <= Len(p))
      <4>1. k - Len(p) \in 1..Len(q) /\ k = Len(p) + (k - Len(p))
          BY <1>1, <2>1, <3>1
      <4> QED BY <4>1
    <3>2. CASE k <= Len(p)
        BY <1>1, <2>1, <3>2
    <3> QED BY <3>1, <3>2
  <2>2. ASSUME NEW k \in 1..Len(r) PROVE Inserts(r[k], W)
    <3>1. CASE k \in 1..Len(p)
        BY <1>1, <1>6, <3>1 DEF Proper
    <3>2. ASSUME NEW j \in 1..Len(q), k = Len(p) + j PROVE Inserts(r[k], W)
        BY <1>1, <1>6, <3>2 DEF Proper
    <3> QED BY <2>1, <2>2, <3>1, <3>2
  <2>3. ASSUME NEW k \in 1..(Len(r) - 1) PROVE Fits(r[k], r[k + 1])
    <3>1. CASE k < Len(p)
      <4>1. k \in 1..(Len(p) - 1) /\ k \in 1..Len(p) /\ k + 1 \in 1..Len(p)
          BY <1>1, <2>3, <3>1
      <4> QED BY <1>1, <1>6, <4>1 DEF Proper
    <3>2. CASE k = Len(p)
      <4>1. k \in 1..Len(p) /\ 1 \in 1..Len(q) /\ Len(p) # 0 /\ Len(q) # 0
          BY <1>1, <2>3, <3>2
      <4>2. r[k] = p[Len(p)] /\ r[k + 1] = q[1]
          BY <1>1, <3>2, <4>1
      <4> QED BY <1>2, <1>6, <4>1, <4>2
    <3>3. CASE k > Len(p)
      <4> DEFINE j == k - Len(p)
      <4>1. /\ j \in 1..(Len(q) - 1) /\ j \in 1..Len(q) /\ j + 1 \in 1..Len(q)
            /\ k = Len(p) + j /\ k + 1 = Len(p) + (j + 1)
          BY <1>1, <2>3, <3>3
      <4> HIDE DEF j
      <4>2. r[k] = q[j] /\ r[k + 1] = q[j + 1]
          BY <1>1, <4>1
      <4> QED BY <1>6, <4>1, <4>2 DEF Proper
    <3>4. k \in Int /\ Len(p) \in Int
        BY <1>1, <2>3
    <3> QED BY <3>1, <3>2, <3>3, <3>4
  <2> QED BY <1>1, <2>2, <2>3 DEF Proper
<1> QED BY <1>3, <1>4, <1>5, <1>6 DEF r

\* An operation of one component.
LEMMA ProperOne ==
    ASSUME NEW c, CompOK(c), NEW W
    PROVE  Proper(One(c), W) <=> Inserts(c, W)
<1>1. OpOK(One(c)) /\ Len(One(c)) = 1 /\ One(c)[1] = c
    BY OpOne DEF One
<1> QED BY <1>1 DEF Proper

---------------------------------------------------------------------------
(* The builder keeps it so.                                                *)

\* The last component of an operation.
LEMMA ProperLast ==
    ASSUME NEW o, NEW W, Proper(o, W), o # << >>
    PROVE  /\ Len(o) \in 1..Len(o) /\ Len(o) \in Nat /\ CompOK(o[Len(o)]) /\ Last(o) = o[Len(o)]
           /\ Inserts(o[Len(o)], W)
<1>1. Len(o) \in Nat /\ Len(o) # 0 /\ \A k \in 1..Len(o) : CompOK(o[k])
    BY OpIndex, IsSeqNone DEF Proper
<1>2. Len(o) \in 1..Len(o)
    BY <1>1
<1> QED BY <1>1, <1>2 DEF Proper, Last

\* One more component.
LEMMA ProperMore ==
    ASSUME NEW o, NEW W, Proper(o, W), NEW c, CompOK(c), Inserts(c, W),
           o # << >> => Fits(o[Len(o)], c)
    PROVE  Append(o, c) = Cat(o, One(c)) /\ Proper(Cat(o, One(c)), W)
<1>1. OpOK(o) /\ IsSeq(o)
    BY OpIndex DEF Proper
<1>2. Append(o, c) = Cat(o, One(c))
    BY <1>1, IsSeqAppendOne DEF Cat, One
<1>3. OpOK(One(c)) /\ One(c)[1] = c
    BY OpOne DEF One
<1>4. Proper(One(c), W)
    BY ProperOne
<1> QED BY <1>1, <1>2, <1>3, <1>4, ProperCat

LEMMA ProperRetain ==
    ASSUME NEW o, NEW W, Proper(o, W), NEW n \in Int
    PROVE  Proper(Retain(o, n), W)
<1>1. CASE n <= 0
    BY <1>1 DEF Retain
<1>2. CASE ~(n <= 0) /\ EndsWith(o, "retain")
  <2> DEFINE i == Len(o)
             m == o[i].n + n
  <2>1. i \in 1..Len(o) /\ CompOK(o[i]) /\ o[i].kind = "retain"
      BY <1>2, ProperLast DEF EndsWith
  <2>2. o[i].n \in Nat \ {0} /\ o[i] = RetainComp(o[i].n)
      BY <2>1, CompCases
  <2>3. Retain(o, n) = [o EXCEPT ![i] = [o[i] EXCEPT !.n = @ + n]]
      BY <1>2 DEF Retain
  <2>4. [o[i] EXCEPT !.n = @ + n] = RetainComp(m)
      BY <2>2 DEF RetainComp
  <2>5. CompOK(RetainComp(m)) /\ RetainComp(m).kind = "retain" /\ Inserts(RetainComp(m), W)
    <3>1. m \in Nat \ {0}
        BY <1>2, <2>2
    <3> QED BY <3>1 DEF CompOK, RetainComp, Inserts
  <2> DEFINE c == RetainComp(m)
  <2> HIDE DEF c, i
  <2>6. Proper([o EXCEPT ![i] = c], W)
      BY <2>1, <2>5, ProperReplace DEF c
  <2> QED BY <2>3, <2>4, <2>6 DEF c
<1>3. CASE ~(n <= 0) /\ ~EndsWith(o, "retain")
  <2> DEFINE c == RetainComp(n)
  <2>1. CompOK(c) /\ c.kind = "retain" /\ Inserts(c, W)
    <3>1. n \in Nat \ {0}
        BY <1>3
    <3> QED BY <3>1 DEF CompOK, RetainComp, Inserts
  <2>2. Retain(o, n) = Append(o, c)
      BY <1>3 DEF Retain
  <2> HIDE DEF c
  <2>3. o # << >> => Fits(o[Len(o)], c)
      BY <1>3, <2>1, ProperLast DEF EndsWith, Fits
  <2> QED BY <2>1, <2>2, <2>3, ProperMore
<1> QED BY <1>1, <1>2, <1>3

LEMMA ProperDelete ==
    ASSUME NEW o, NEW W, Proper(o, W), NEW n \in Int
    PROVE  Proper(Delete(o, n), W)
<1> DEFINE count == IF n < 0 THEN -n ELSE n
<1>1. count \in Nat
    OBVIOUS
<1>2. Delete(o, n) = IF count = 0 THEN o
                     ELSE IF EndsWith(o, "delete") THEN [o EXCEPT ![Len(o)].n = @ + count]
                     ELSE Append(o, DeleteComp(count))
    BY DEF Delete
<1> HIDE DEF count
<1>3. CASE count = 0
    BY <1>2, <1>3
<1>4. CASE count # 0 /\ EndsWith(o, "delete")
  <2> DEFINE i == Len(o)
             m == o[i].n + count
  <2>1. i \in 1..Len(o) /\ CompOK(o[i]) /\ o[i].kind = "delete"
      BY <1>4, ProperLast DEF EndsWith
  <2>2. o[i].n \in Nat \ {0} /\ o[i] = DeleteComp(o[i].n)
      BY <2>1, CompCases
  <2>3. Delete(o, n) = [o EXCEPT ![i] = [o[i] EXCEPT !.n = @ + count]]
      BY <1>2, <1>4
  <2>4. [o[i] EXCEPT !.n = @ + count] = DeleteComp(m)
      BY <2>2 DEF DeleteComp
  <2>5. CompOK(DeleteComp(m)) /\ DeleteComp(m).kind = "delete" /\ Inserts(DeleteComp(m), W)
    <3>1. m \in Nat \ {0}
        BY <1>1, <1>4, <2>2
    <3> QED BY <3>1 DEF CompOK, DeleteComp, Inserts
  <2> DEFINE c == DeleteComp(m)
  <2> HIDE DEF c, i
  <2>6. Proper([o EXCEPT ![i] = c], W)
      BY <2>1, <2>5, ProperReplace DEF c
  <2> QED BY <2>3, <2>4, <2>6 DEF c
<1>5. CASE count # 0 /\ ~EndsWith(o, "delete")
  <2> DEFINE c == DeleteComp(count)
  <2>1. CompOK(c) /\ c.kind = "delete" /\ Inserts(c, W)
    <3>1. count \in Nat \ {0}
        BY <1>1, <1>5
    <3> QED BY <3>1 DEF CompOK, DeleteComp, Inserts
  <2>2. Delete(o, n) = Append(o, c)
      BY <1>2, <1>5
  <2> HIDE DEF c
  <2>3. o # << >> => Fits(o[Len(o)], c)
      BY <1>5, <2>1, ProperLast DEF EndsWith, Fits
  <2> QED BY <2>1, <2>2, <2>3, ProperMore
<1> QED BY <1>3, <1>4, <1>5

\* More is inserted where an insert is.
Longer(o, i, s) == [o EXCEPT ![i].s = @ \o s]

LEMMA ProperInsertMore ==
    ASSUME NEW o, NEW W, Proper(o, W), Closed(W), NEW i \in 1..Len(o),
           o[i].kind = "insert", NEW s \in W, s # << >>
    PROVE  Proper(Longer(o, i, s), W)
<1> DEFINE t == o[i].s \o s
           c == InsertComp(t)
<1>1. CompOK(o[i]) /\ Inserts(o[i], W)
    BY OpIndex DEF Proper
<1>2. /\ IsSeq(o[i].s) /\ o[i] = InsertComp(o[i].s) /\ o[i].s \in W
    BY <1>1, CompCases DEF Inserts
<1>3. IsSeq(t) /\ t \in W /\ t # << >>
  <2>1. t \in W /\ IsSeq(s)
      BY <1>2 DEF Closed
  <2>2. IsSeq(t)
      BY <2>1 DEF Closed
  <2>3. Len(t) = Len(o[i].s) + Len(s) /\ Len(o[i].s) \in Nat /\ Len(s) \in Nat
      BY <1>2, <2>1, IsSeqConcat, IsSeqLen
  <2>4. Len(s) # 0
      BY <2>1, IsSeqNone
  <2>5. Len(t) # 0
    <3> HIDE DEF t
    <3> QED BY <2>3, <2>4
  <2> QED BY <2>1, <2>2, <2>5, IsSeqNone
<1>4. Longer(o, i, s) = [o EXCEPT ![i] = [o[i] EXCEPT !.s = @ \o s]]
    BY DEF Longer
<1>5. [o[i] EXCEPT !.s = @ \o s] = c
  <2> DEFINE u == o[i].s
             m == o[i]
  <2>1. m = InsertComp(u)
      BY <1>2
  <2>2. [m EXCEPT !.s = t] = InsertComp(t)
    <3> HIDE DEF m, u, t
    <3> QED BY <2>1 DEF InsertComp
  <2> QED BY <2>2
<1> HIDE DEF t
<1>6. CompOK(c) /\ c.kind = "insert" /\ Inserts(c, W)
    BY <1>3 DEF CompOK, InsertComp, Inserts
<1> HIDE DEF c
<1>7. Proper([o EXCEPT ![i] = c], W)
    BY <1>6, ProperReplace
<1> QED BY <1>4, <1>5, <1>7

LEMMA ProperInsert ==
    ASSUME NEW o, NEW W, Proper(o, W), Closed(W), NEW s \in W
    PROVE  Proper(Insert(o, s), W)
<1> DEFINE c == InsertComp(s)
           p == Front(o)
<1>1. IsSeq(s) /\ OpOK(o)
    BY DEF Closed, Proper
<1>2. CASE s = << >>
    BY <1>2 DEF Insert
<1>3. CASE s # << >> /\ EndsWith(o, "insert")
  <2>1. Len(o) \in 1..Len(o) /\ o[Len(o)].kind = "insert"
      BY <1>3, ProperLast DEF EndsWith
  <2>2. Insert(o, s) = Longer(o, Len(o), s)
      BY <1>3 DEF Insert, Longer
  <2> QED BY <1>3, <2>1, <2>2, ProperInsertMore
<1>4. ASSUME s # << >> PROVE CompOK(c) /\ c.kind = "insert" /\ Inserts(c, W)
    BY <1>1, <1>4 DEF CompOK, InsertComp, Inserts
<1>5. CASE s # << >> /\ ~EndsWith(o, "insert") /\ ~EndsWith(o, "delete")
  <2>1. Insert(o, s) = Append(o, c)
      BY <1>5 DEF Insert
  <2>2. CompOK(c) /\ c.kind = "insert" /\ Inserts(c, W)
      BY <1>4, <1>5
  <2> HIDE DEF c
  <2>3. o # << >> => Fits(o[Len(o)], c)
      BY <1>5, <2>2, ProperLast DEF EndsWith, Fits
  <2> QED BY <2>1, <2>2, <2>3, ProperMore
<1>6. CASE s # << >> /\ ~EndsWith(o, "insert") /\ EndsWith(o, "delete")
  <2> DEFINE l == Last(o)
  <2>1. /\ OpOK(p) /\ CompOK(l) /\ OpOK(One(l)) /\ o = Cat(p, One(l)) /\ IsSeq(p)
        /\ Len(o) = Len(p) + 1 /\ Len(p) \in Nat /\ l.kind = "delete"
        /\ One(l)[1] = l /\ One(l) # << >>
      BY <1>1, <1>6, OpFront, OneOK DEF EndsWith
  <2>2. /\ CompOK(c) /\ c.kind = "insert" /\ Inserts(c, W)
        /\ OpOK(One(c)) /\ One(c)[1] = c /\ Len(One(c)) = 1 /\ One(c) # << >>
    <3>1. CompOK(c) /\ c.kind = "insert" /\ Inserts(c, W)
        BY <1>4, <1>6
    <3> HIDE DEF c
    <3> QED BY <3>1, OpOne, OneOK DEF One
  <2> HIDE DEF l
  <2>3. Proper(p, W) /\ Proper(One(l), W) /\ (p # << >> => Fits(p[Len(p)], l))
    <3> HIDE DEF p
    <3> QED BY <2>1, ProperCat
  <2>4. CASE EndsWith(p, "insert")
    <3>1. Insert(o, s) = Longer(o, Len(o) - 1, s)
        BY <1>6, <2>4 DEF Insert, Longer
    <3> HIDE DEF p
    <3>2. Len(p) \in 1..Len(p) /\ p[Len(p)].kind = "insert"
        BY <2>3, <2>4, ProperLast DEF EndsWith
    <3>3. Len(o) - 1 = Len(p) /\ Len(p) \in 1..Len(o)
        BY <2>1, <3>2
    <3>4. o[Len(p)] = p[Len(p)]
        BY <2>1, <3>2, OpConcat DEF Cat
    <3> QED BY <1>6, <3>1, <3>2, <3>3, <3>4, ProperInsertMore
  <2>5. CASE ~EndsWith(p, "insert")
    <3>1. Insert(o, s) = Cat(p, Cat(One(c), One(l)))
      <4>1. Insert(o, s) = p \o <<c, l>>
          BY <1>6, <2>5 DEF Insert, l
      <4>2. <<c, l>> = <<c>> \o <<l>>
        <5> HIDE DEF c
        <5> QED OBVIOUS
      <4> QED BY <4>1, <4>2 DEF Cat, One
    <3> HIDE DEF p, c
    <3>2. Proper(Cat(One(c), One(l)), W)
      <4>1. Proper(One(c), W)
          BY <2>2, ProperOne
      <4>2. Fits(c, l)
          BY <2>1, <2>2 DEF Fits
      <4> QED BY <2>1, <2>2, <2>3, <4>1, <4>2, ProperCat
    <3>3. /\ OpOK(Cat(One(c), One(l))) /\ Cat(One(c), One(l))[1] = c
      <4>1. 1 \in 1..Len(One(c))
          BY <2>2
      <4> QED BY <2>1, <2>2, <4>1, OpConcat DEF Cat
    <3>4. p # << >> => Fits(p[Len(p)], c)
      <4>1. ASSUME p # << >> PROVE Fits(p[Len(p)], c)
        <5>1. Fits(p[Len(p)], l)
            BY <2>3, <4>1
        <5>2. p[Len(p)].kind # "insert"
            BY <2>3, <2>5, <4>1, ProperLast DEF EndsWith
        <5> QED BY <2>1, <2>2, <5>1, <5>2 DEF Fits
      <4> QED BY <4>1
    <3>5. Proper(Cat(p, Cat(One(c), One(l))), W)
        BY <2>1, <2>3, <3>2, <3>3, <3>4, ProperCat
    <3> QED BY <3>1, <3>5
  <2> QED BY <2>4, <2>5
<1> QED BY <1>2, <1>3, <1>5, <1>6

---------------------------------------------------------------------------
(* The checks of Apply.                                                    *)

\* Where only retains and deletes are checked, the ends of all components are
\* ends of characters: an insert ends where the component before it does.
LEMMA ChecksSuffice ==
    ASSUME NEW o, OpOK(o), NEW d, IsSeq(d), ValidUTF8(d), Len(d) = BaseLen(o),
           BoundariesHold(o, d),
           \A k \in DOMAIN o : o[k].kind = "insert" => ValidUTF8(o[k].s)
    PROVE  Whole(o, d)
<1> DEFINE N == Len(o)
           S == {k \in 0..N : IsBoundary(d, BaseAt(o)[k])}
<1>1. N \in Nat /\ DOMAIN o = 1..N /\ IsSeq(o)
    BY OpIndex
<1>2. /\ BaseAt(o)[0] = 0
      /\ \A k \in 1..N : BaseAt(o)[k] = LengthStep(o, {"retain", "delete"}, BaseAt(o)[k - 1], k)
    BY <1>1, LengthUnfold DEF BaseAt
<1>3. \A k \in 0..N : BaseAt(o)[k] \in Nat
    BY LengthNat DEF BaseAt
<1>4. 0 \in S
  <2>1. ~GoesOn(d, 0)
      BY ValidEnds
  <2>2. IsBoundary(d, 0)
      BY <2>1, IsSeqLen DEF IsBoundary, RuneStart, GoesOn
  <2> QED BY <1>1, <1>2, <2>2
<1>5. ASSUME NEW n \in 0..(N - 1), n \in S PROVE n + 1 \in S
  <2> DEFINE k == n + 1
  <2>1. k \in 1..N /\ k \in 0..N /\ k - 1 = n /\ n \in 0..N
      BY <1>1
  <2> HIDE DEF k
  <2>2. CASE o[k].kind # "insert"
      BY <1>1, <2>1, <2>2 DEF BoundariesHold
  <2>3. CASE o[k].kind = "insert"
    <3>1. BaseAt(o)[k] = BaseAt(o)[n]
        BY <1>2, <1>3, <2>1, <2>3, SMTT(30) DEF LengthStep
    <3> QED BY <1>5, <2>1, <3>1
  <2> QED BY <2>2, <2>3 DEF k
<1>6. 0..N \subseteq S
  <2> HIDE DEF S, N
  <2> QED BY <1>1, <1>4, <1>5, BoundedInduction
<1> QED BY <1>1, <1>6 DEF Whole

\* What Apply accepts of an operation whose inserts are texts, it does.
LEMMA AppliesDoes ==
    ASSUME NEW o, OpOK(o), NEW d, IsSeq(d), ValidUTF8(d), Applies(o, d),
           \A k \in DOMAIN o : o[k].kind = "insert" => ValidUTF8(o[k].s)
    PROVE  Does(o, d, Apply(o, d))
BY ChecksSuffice, DoesSome DEF Applies

---------------------------------------------------------------------------
(* Every operation under construction is in canonical form.                *)

Alphabet == UNION {Range(s) : s \in Strings}

\* The texts that can be made of what callers insert.
Insertable == {s \in Seq(Alphabet) : ValidUTF8(s)}

LEMMA InsertableClosed == Closed(Insertable)
<1>1. ASSUME NEW s \in Insertable PROVE IsSeq(s) /\ s \in Seq(Alphabet) /\ ValidUTF8(s)
    BY IsSeqIntro DEF Insertable
<1>2. ASSUME NEW s \in Insertable, NEW t \in Insertable PROVE s \o t \in Insertable
  <2>1. s \o t \in Seq(Alphabet)
      BY <1>1, ConcatProperties
  <2>2. ValidUTF8(s \o t)
      BY <1>1, ValidCat DEF Cat
  <2> QED BY <2>1, <2>2 DEF Insertable
<1> QED BY <1>1, <1>2 DEF Closed

LEMMA StringsInsertable == Strings \subseteq Insertable
<1>1. ASSUME NEW s \in Strings PROVE s \in Insertable
  <2>1. s \in Seq(Range(s)) /\ ValidUTF8(s)
      BY OTLawsAssumption DEF IsText, IsSeq
  <2>2. Range(s) \subseteq Alphabet
      BY DEF Alphabet
  <2> QED BY <2>1, <2>2, SeqMonotonic DEF Insertable
<1> QED BY <1>1

\* The inserts of such an operation are texts.
LEMMA ProperTexts ==
    ASSUME NEW o, Proper(o, Insertable)
    PROVE  OpOK(o) /\ \A k \in DOMAIN o : o[k].kind = "insert" => ValidUTF8(o[k].s)
BY OpIndex DEF Proper, Inserts, Insertable

(***************************************************************************)
(* The inductive invariant: what the builder is given is text, and what it *)
(* has built so far is in canonical form.                                  *)
(***************************************************************************)
BuiltInv ==
    /\ doc \in Docs /\ sequential \in BOOLEAN
    /\ calls \in [Callers -> 0..MaxCalls]
    /\ DOMAIN op = Callers
    /\ \A p \in Callers : Proper(op[p], Insertable)

LEMMA DocText ==
    ASSUME doc \in Docs
    PROVE  IsSeq(doc) /\ ValidUTF8(doc) /\ Len(doc) \in Nat
BY OTLawsAssumption, IsSeqLen DEF IsText

\* The document a caller edits is a text.
LEMMA BaseText ==
    ASSUME BuiltInv, NEW p \in Callers, p = "b" => Applies(op["a"], doc)
    PROVE  IsSeq(BaseOf(p)) /\ ValidUTF8(BaseOf(p)) /\ Len(BaseOf(p)) \in Nat
<1>1. IsSeq(doc) /\ ValidUTF8(doc) /\ Len(doc) \in Nat
    BY DocText DEF BuiltInv
<1>2. CASE p = "b" /\ sequential
  <2>1. "a" \in Callers /\ Proper(op["a"], Insertable)
      BY DEF Callers, BuiltInv
  <2>2. Does(op["a"], doc, Apply(op["a"], doc))
      BY <1>1, <1>2, <2>1, ProperTexts, AppliesDoes
  <2>3. IsSeq(Apply(op["a"], doc)) /\ ValidUTF8(Apply(op["a"], doc))
      BY <2>2, DoesTexts DEF Does
  <2> QED BY <1>2, <2>3, IsSeqLen DEF BaseOf
<1>3. CASE ~(p = "b" /\ sequential)
    BY <1>1, <1>3 DEF BaseOf
<1> QED BY <1>2, <1>3

LEMMA BuildKeeps ==
    ASSUME BuiltInv, NEW p \in Callers, calls[p] < MaxCalls,
           NEW newOp, Proper(newOp, Insertable), Build(p, newOp)
    PROVE  BuiltInv'
<1>1. calls' \in [Callers -> 0..MaxCalls]
  <2>1. calls[p] + 1 \in 0..MaxCalls
      BY OTLawsAssumption DEF BuiltInv
  <2> QED BY <2>1 DEF BuiltInv, Build
<1>2. DOMAIN op' = Callers /\ \A q \in Callers : Proper(op'[q], Insertable)
    BY DEF BuiltInv, Build
<1>3. doc' \in Docs /\ sequential' \in BOOLEAN
    BY DEF BuiltInv, Build
<1>4. Insertable' = Insertable /\ Callers' = Callers
    OBVIOUS
<1> QED BY <1>1, <1>2, <1>3 DEF BuiltInv

LEMMA BuiltStep ==
    ASSUME BuiltInv, [Next]_vars
    PROVE  BuiltInv'
<1>1. CASE UNCHANGED vars
    BY <1>1 DEF vars, BuiltInv
<1>2. ASSUME NEW p \in Callers, MayCall(p)
      PROVE  /\ calls[p] < MaxCalls /\ Proper(op[p], Insertable)
             /\ Len(BaseOf(p)) - BaseLen(op[p]) \in Int
  <2>1. calls[p] < MaxCalls /\ Proper(op[p], Insertable)
      BY <1>2 DEF MayCall, BuiltInv
  <2>2. Len(BaseOf(p)) \in Nat
      BY <1>2, BaseText DEF MayCall
  <2>3. BaseLen(op[p]) \in Nat
    <3>1. OpOK(op[p])
        BY <2>1 DEF Proper
    <3>2. Len(op[p]) \in 0..Len(op[p])
        BY <3>1, OpIndex
    <3> QED BY <3>1, <3>2, LengthNat DEF BaseLen, BaseAt
  <2> QED BY <2>1, <2>2, <2>3
<1>3. ASSUME NEW p \in Callers, CallRetain(p) PROVE BuiltInv'
  <2>1. PICK n \in 1..(Len(BaseOf(p)) - BaseLen(op[p])) : Build(p, Retain(op[p], n))
      BY <1>3 DEF CallRetain
  <2>2. MayCall(p)
      BY <1>3 DEF CallRetain
  <2>3. n \in Int
      BY <1>2, <2>1, <2>2
  <2>4. Proper(Retain(op[p], n), Insertable)
      BY <1>2, <2>2, <2>3, ProperRetain
  <2> QED BY <1>2, <2>1, <2>2, <2>4, BuildKeeps
<1>4. ASSUME NEW p \in Callers, CallDelete(p) PROVE BuiltInv'
  <2>1. PICK n \in 1..(Len(BaseOf(p)) - BaseLen(op[p])) : Build(p, Delete(op[p], n))
      BY <1>4 DEF CallDelete
  <2>2. MayCall(p)
      BY <1>4 DEF CallDelete
  <2>3. n \in Int
      BY <1>2, <2>1, <2>2
  <2>4. Proper(Delete(op[p], n), Insertable)
      BY <1>2, <2>2, <2>3, ProperDelete
  <2> QED BY <1>2, <2>1, <2>2, <2>4, BuildKeeps
<1>5. ASSUME NEW p \in Callers, CallInsert(p) PROVE BuiltInv'
  <2>1. PICK s \in Strings : Build(p, Insert(op[p], s))
      BY <1>5 DEF CallInsert
  <2>2. MayCall(p)
      BY <1>5 DEF CallInsert
  <2>3. Proper(Insert(op[p], s), Insertable)
      BY <1>2, <2>2, StringsInsertable, InsertableClosed, ProperInsert
  <2> QED BY <1>2, <2>1, <2>2, <2>3, BuildKeeps
<1> QED BY <1>1, <1>3, <1>4, <1>5 DEF Next

\* BuiltInv holds in every state.
LEMMA Built == Spec => []BuiltInv
<1>1. Init => BuiltInv
  <2>1. \A p \in Callers : Proper(New, Insertable)
      BY ProperNone DEF New
  <2> QED BY <2>1, OTLawsAssumption DEF Init, BuiltInv
<1> QED BY <1>1, BuiltStep, PTL DEF Spec

\* Whatever the order of the builder calls, no component is empty, no two
\* neighbours are of a kind and no insert follows a delete (op.go, the comments
\* on Retain, Delete and Insert).
THEOREM BuilderKeepsCanonicalForm == Spec => []TypeOK
<1>1. BuiltInv => TypeOK
    BY ProperCanonical, DocText DEF BuiltInv, TypeOK
<1> QED BY <1>1, Built, PTL

\* With well-formed inserts, no check of Apply but those at the ends of its
\* retains and deletes can refuse an operation (apply.go, "this last check ...
\* closes the gap").
THEOREM ChecksOfApplySuffice == Spec => []BoundaryChecksSuffice
<1>1. BuiltInv => BoundaryChecksSuffice
  <2> SUFFICES ASSUME BuiltInv, Complete("a", doc), BoundariesHold(op["a"], doc),
                      \A k \in DOMAIN op["a"] :
                         op["a"][k].kind = "insert" => ValidUTF8(op["a"][k].s)
               PROVE  ValidUTF8(Apply(op["a"], doc))
      BY DEF BoundaryChecksSuffice
  <2>1. IsSeq(doc) /\ ValidUTF8(doc)
      BY DocText DEF BuiltInv
  <2>2. OpOK(op["a"])
      BY DEF BuiltInv, Proper, Callers
  <2>3. Len(doc) = BaseLen(op["a"])
      BY DEF Complete
  <2> QED BY <2>1, <2>2, <2>3, ChecksSuffice, WholeMakesText
<1> QED BY <1>1, Built, PTL

---------------------------------------------------------------------------
(* Undoing an operation (op.go, Invert).                                   *)

\* One turn of Invert's loop.
InvertStep(o, d, k, before) ==
    CASE o[k].kind = "retain" -> Retain(before, o[k].n)
      [] o[k].kind = "insert" -> Delete(before, Len(o[k].s))
      [] o[k].kind = "delete" -> Insert(before, Covered(o, k, d))

\* The loop, as the function its definition describes.
Inverting(o, d, inv) ==
    /\ inv[0] = New
    /\ \A k \in 1..Len(o) : inv[k] = InvertStep(o, d, k, inv[k - 1])
    /\ Invert(o, d) = inv[Len(o)]

LEMMA InvertUnfold ==
    ASSUME NEW o, IsSeq(o), NEW d
    PROVE  \E inv : Inverting(o, d, inv)
<1> DEFINE N == Len(o)
           Step(before, k) == InvertStep(o, d, k, before)
           Loop(f, n) == f = [k \in 0..n |-> IF k = 0 THEN New ELSE Step(f[k - 1], k)]
           S == {n \in 0..N : \E f : Loop(f, n)}
           inv == CHOOSE f : Loop(f, N)
<1>1. N \in Nat
    BY IsSeqLen
<1>2. Invert(o, d) = inv[N]
    BY DEF Invert, InvertStep
<1> HIDE DEF N, Step
<1>3. 0 \in S
  <2>1. Loop([k \in 0..0 |-> New], 0)
      OBVIOUS
  <2> HIDE DEF Loop
  <2> QED BY <1>1, <2>1
<1>4. ASSUME NEW n \in 0..(N - 1), n \in S PROVE n + 1 \in S
  <2>1. PICK f : Loop(f, n)
      BY <1>4
  <2> DEFINE g == [k \in 0..(n + 1) |-> IF k <= n THEN f[k] ELSE Step(f[n], n + 1)]
  <2>2. Loop(g, n + 1)
      BY <1>1, <2>1
  <2> HIDE DEF Loop
  <2> QED BY <1>1, <2>2
<1>5. N \in S
  <2> HIDE DEF S
  <2> QED BY <1>1, <1>3, <1>4, BoundedInduction
<1>6. Loop(inv, N)
    BY <1>5
<1> HIDE DEF inv
<1>7. inv[0] = New /\ \A k \in 1..N : inv[k] = Step(inv[k - 1], k)
    BY <1>1, <1>6
<1>8. Inverting(o, d, inv)
    BY <1>2, <1>7 DEF Inverting, N, Step
<1> QED BY <1>8

\* What a component walks over and what it makes.
LEMMA PieceTexts ==
    ASSUME NEW o, NEW d, NEW e, Does(o, d, e), NEW k \in 1..Len(o)
    PROVE  LET z == SubSeq(d, BaseAt(o)[k - 1] + 1, BaseAt(o)[k])
           IN  /\ IsSeq(z) /\ ValidUTF8(z) /\ Len(z) = BaseAt(o)[k] - BaseAt(o)[k - 1]
               /\ Covered(o, k, d) = z
               /\ BaseAt(o)[k - 1] \in 0..BaseAt(o)[k] /\ BaseAt(o)[k] \in 0..Len(d)
               /\ CompOK(o[k])
               /\ o[k].kind = "insert" => ValidUTF8(o[k].s)
<1> DEFINE from == BaseAt(o)[k - 1]
           to == BaseAt(o)[k]
<1>1. /\ OpOK(o) /\ IsSeq(d) /\ Len(d) = BaseLen(o) /\ Whole(o, d) /\ Len(d) \in Nat
      /\ k - 1 \in 0..Len(o) /\ k \in 0..Len(o) /\ CompOK(o[k])
    BY OpIndex, IsSeqLen DEF Does
<1>2. from \in Nat /\ to \in Nat /\ from <= to /\ to <= Len(d)
    BY <1>1, LengthNext DEF BaseAt, BaseLen
<1>3. IsBoundary(d, from) /\ IsBoundary(d, to) /\ ValidUTF8(d)
      /\ (o[k].kind = "insert" => ValidUTF8(o[k].s))
    BY <1>1 DEF Whole
<1>4. Covered(o, k, d) = SubSeq(d, from + 1, to)
    BY DEF Covered
<1> HIDE DEF from, to
<1>5. from \in 0..to /\ to \in 0..Len(d)
    BY <1>1, <1>2
<1>6. ValidUTF8(SubSeq(d, from + 1, to))
    BY <1>1, <1>3, <1>5, ValidSegment
<1>7. IsSeq(SubSeq(d, from + 1, to)) /\ Len(SubSeq(d, from + 1, to)) = to - from
  <2> DEFINE m == from + 1
  <2>1. m \in Nat \ {0} /\ to \in (m - 1)..Len(d) /\ to - m + 1 = to - from
      BY <1>1, <1>2
  <2> HIDE DEF m
  <2>2. IsSeq(SubSeq(d, m, to)) /\ Len(SubSeq(d, m, to)) = to - m + 1
      BY <1>1, <2>1, SegmentOK
  <2> QED BY <2>1, <2>2 DEF m
<1> QED BY <1>1, <1>3, <1>4, <1>5, <1>6, <1>7 DEF from, to

\* The inverse of an operation does the opposite.
LEMMA InvertDoes ==
    ASSUME NEW o, NEW d, NEW e, Does(o, d, e)
    PROVE  Does(Invert(o, d), e, d)
<1> DEFINE N == Len(o)
           At == BaseAt(o)
<1>1. /\ OpOK(o) /\ IsSeq(o) /\ N \in Nat /\ IsSeq(d) /\ Len(d) \in Nat
      /\ Len(d) = BaseLen(o) /\ Apply(o, d) = e
    BY OpIndex, IsSeqLen DEF Does
<1>2. PICK inv : Inverting(o, d, inv)
    BY <1>1, InvertUnfold
<1>3. PICK out : Applying(o, d, out)
    BY <1>1, ApplyUnfold
<1> DEFINE S == {n \in 0..N : Does(inv[n], out[n], SubSeq(d, 1, At[n]))}
<1>4. 0 \in S
  <2>1. At[0] = 0 /\ 0 \in 0..N
      BY <1>1, LengthUnfold DEF BaseAt
  <2>2. SubSeq(d, 1, 0) = << >>
    <3> DEFINE m == 1
    <3>1. m \in Nat \ {0} /\ 0 \in (m - 1)..Len(d) /\ 0 - m + 1 = 0
        BY <1>1
    <3> HIDE DEF m
    <3>2. IsSeq(SubSeq(d, m, 0)) /\ Len(SubSeq(d, m, 0)) = 0
        BY <1>1, <3>1, SegmentOK
    <3>3. SubSeq(d, m, 0) = << >>
        BY <3>2, IsSeqNone
    <3> QED BY <3>3 DEF m
  <2>3. inv[0] = << >> /\ out[0] = << >>
      BY <1>2, <1>3 DEF Inverting, Applying, New
  <2> QED BY <2>1, <2>2, <2>3, DoesEmpty
<1>5. ASSUME NEW n \in 0..(N - 1), n \in S PROVE n + 1 \in S
  <2> DEFINE k == n + 1
             c == o[k]
             z == SubSeq(d, At[n] + 1, At[k])
             D == SubSeq(d, 1, At[n])
             U == out[n]
             i == inv[n]
  <2>1. k \in 1..N /\ k - 1 = n /\ k \in 0..N
      BY <1>1
  <2>2. /\ IsSeq(z) /\ ValidUTF8(z) /\ Len(z) = At[k] - At[n]
        /\ Covered(o, k, d) = z
        /\ At[n] \in 0..At[k] /\ At[k] \in 0..Len(d)
        /\ CompOK(c) /\ (c.kind = "insert" => ValidUTF8(c.s))
    <3> HIDE DEF k
    <3>1. k \in 1..Len(o)
        BY <2>1
    <3> QED BY <2>1, <3>1, PieceTexts
  <2>3. At[k] = At[n] + (IF c.kind \in {"retain", "delete"} THEN CompLen(c) ELSE 0)
      BY <1>1, <2>1, LengthUnfold DEF BaseAt, LengthStep
  <2>4. inv[k] = InvertStep(o, d, k, i) /\ out[k] = U \o PieceAt(o, k, d)
      BY <1>2, <1>3, <2>1 DEF Inverting, Applying
  <2>5. Does(i, U, D)
      BY <1>5
  <2>6. SubSeq(d, 1, At[k]) = Cat(D, z)
    <3> DEFINE m == 1
    <3>1. m \in Nat \ {0} /\ At[n] \in (m - 1)..Len(d) /\ At[k] \in At[n]..Len(d)
        BY <1>1, <2>2
    <3> HIDE DEF m, At, k
    <3>2. SubSeq(d, m, At[n]) \o SubSeq(d, At[n] + 1, At[k]) = SubSeq(d, m, At[k])
        BY <1>1, <3>1, SegmentJoin
    <3> QED BY <3>2 DEF m, Cat
  <2> DEFINE Dk == SubSeq(d, 1, At[k])
             step == InvertStep(o, d, k, i)
             made == U \o PieceAt(o, k, d)
  <2>7. IsSeq(U) /\ IsSeq(D)
      BY <2>5 DEF Does
  <2>8. ASSUME c.kind = "retain" PROVE Does(step, made, Dk)
    <3>1. step = Retain(i, c.n) /\ made = Cat(U, z)
        BY <2>2, <2>8 DEF InvertStep, PieceAt, Cat
    <3>2. c.n = Len(z)
      <4>1. c.n \in Nat /\ At[k] = At[n] + c.n /\ Len(z) = At[k] - At[n] /\ At[n] \in Nat
          BY <2>2, <2>3, <2>8, CompCases, SMTT(30) DEF CompLen
      <4> HIDE DEF At, z, c, k
      <4> QED BY <4>1
    <3> HIDE DEF step, made, Dk, z, D, U, i, c
    <3>3. Does(Retain(i, Len(z)), Cat(U, z), Cat(D, z))
        BY <2>2, <2>5, DoesRetain
    <3> QED BY <2>6, <3>1, <3>2, <3>3 DEF Dk
  <2>9. ASSUME c.kind = "insert" PROVE Does(step, made, Dk)
    <3> DEFINE s == c.s
    <3>1. step = Delete(i, Len(s)) /\ made = Cat(U, s)
        BY <2>9 DEF InvertStep, PieceAt, Cat
    <3>2. IsSeq(s) /\ ValidUTF8(s)
        BY <2>2, <2>9, CompCases
    <3>3. z = << >>
      <4>1. Len(z) = 0
          BY <2>2, <2>3, <2>9
      <4> HIDE DEF z
      <4> QED BY <2>2, <4>1, IsSeqNone
    <3> HIDE DEF step, made, Dk, z, D, U, i, c, s
    <3>4. Does(Delete(i, Len(s)), Cat(U, s), D)
        BY <2>5, <3>2, DoesDelete
    <3>5. Cat(D, z) = D
        BY <2>7, <3>3, CatUnit
    <3> QED BY <2>6, <3>1, <3>4, <3>5 DEF Dk
  <2>10. ASSUME c.kind = "delete" PROVE Does(step, made, Dk)
    <3>1. step = Insert(i, z) /\ made = Cat(U, << >>)
        BY <2>2, <2>10 DEF InvertStep, PieceAt, Cat
    <3> HIDE DEF step, made, Dk, z, D, U, i, c
    <3>2. Does(Insert(i, z), U, Cat(D, z))
        BY <2>2, <2>5, DoesInsert
    <3>3. Cat(U, << >>) = U
        BY <2>7, CatUnit
    <3> QED BY <2>6, <3>1, <3>2, <3>3 DEF Dk
  <2>11. Does(step, made, Dk)
      BY <2>2, <2>8, <2>9, <2>10, CompCases
  <2>12. inv[k] = step /\ out[k] = made
      BY <2>4
  <2> HIDE DEF step, made, Dk, At
  <2>13. Does(inv[k], out[k], SubSeq(d, 1, At[k]))
      BY <2>11, <2>12 DEF Dk
  <2> QED BY <2>1, <2>13
<1>6. N \in S
  <2>1. N \in 0..N
      BY <1>1
  <2> HIDE DEF S, N
  <2>2. 0..N \subseteq S
      BY <1>1, <1>4, <1>5, BoundedInduction
  <2> QED BY <2>1, <2>2
<1>7. Invert(o, d) = inv[N] /\ e = out[N] /\ At[N] = Len(d)
    BY <1>1, <1>2, <1>3 DEF Inverting, Applying, BaseLen
<1>8. SubSeq(d, 1, Len(d)) = d
    BY <1>1, SegmentAll
<1> QED BY <1>6, <1>7, <1>8

---------------------------------------------------------------------------
(* Transform and Compose keep it so: they consume components from the      *)
(* front and only build.                                                   *)

\* new is what is left of old once a component or a part of one is consumed.
LeftOf(old, new) ==
    \/ new = old
    \/ /\ old # << >>
       /\ \/ new = Tail(old)
          \/ \E n \in 1..CompLen(Head(old)) : new = Take(old, n)

\* new is old after at most one call of the builder.
BuildsOn(old, new, W) ==
    \/ new = old
    \/ \E n \in Nat \ {0} : new = Retain(old, n) \/ new = Delete(old, n)
    \/ \E s \in W : new = Insert(old, s)

LEMMA BuildsProper ==
    ASSUME NEW old, NEW new, NEW W, Closed(W), Proper(old, W), BuildsOn(old, new, W)
    PROVE  Proper(new, W)
BY ProperRetain, ProperDelete, ProperInsert DEF BuildsOn

LEMMA SeqClosed == ASSUME NEW B PROVE Closed(Seq(B))
BY IsSeqIntro, ConcatProperties DEF Closed

\* A part of a sequence over B is one.
LEMMA PartOfSeq ==
    ASSUME NEW B, NEW s \in Seq(B), NEW m \in Nat \ {0}, NEW n \in 0..Len(s)
    PROVE  SubSeq(s, m, n) \in Seq(B)
<1>1. Len(s) \in Nat /\ \A i \in 1..Len(s) : s[i] \in B
    BY LenProperties, ElementOfSeq
<1>2. \A i \in m..n : s[i] \in B
    BY <1>1
<1>3. m \in Int /\ n \in Int
    BY <1>1
<1> QED BY <1>2, <1>3, SubSeqProperties

\* The head component and the rest.
LEMMA ProperHead ==
    ASSUME NEW it, NEW W, Proper(it, W), it # << >>
    PROVE  /\ CompOK(Head(it)) /\ Inserts(Head(it), W) /\ Proper(Tail(it), W)
           /\ OpOK(Tail(it)) /\ it = Cat(One(Head(it)), Tail(it))
           /\ Tail(it) # << >> => Fits(Head(it), Tail(it)[1])
<1> DEFINE h == Head(it)
           t == Tail(it)
<1>1. /\ OpOK(it) /\ CompOK(h) /\ OpOK(One(h)) /\ OpOK(t) /\ it = Cat(One(h), t)
      /\ One(h) # << >> /\ Len(One(h)) = 1 /\ One(h)[1] = h
    BY OpHead, OneOK DEF Proper
<1> HIDE DEF h, t
<1>2. /\ Proper(One(h), W) /\ Proper(t, W)
      /\ t # << >> => Fits(One(h)[Len(One(h))], t[1])
    BY <1>1, ProperCat
<1>3. Inserts(h, W)
    BY <1>1, <1>2, ProperOne
<1> QED BY <1>1, <1>2, <1>3 DEF h, t

LEMMA LeftProper ==
    ASSUME NEW old, NEW new, NEW B, Proper(old, Seq(B)), LeftOf(old, new)
    PROVE  Proper(new, Seq(B))
<1>1. CASE new = old
    BY <1>1
<1>2. CASE old # << >> /\ new = Tail(old)
    BY <1>2, ProperHead
<1>3. ASSUME old # << >>, NEW n \in 1..CompLen(Head(old)), new = Take(old, n)
      PROVE  Proper(new, Seq(B))
  <2> DEFINE h == Head(old)
             t == Tail(old)
  <2>1. /\ CompOK(h) /\ Inserts(h, Seq(B)) /\ Proper(t, Seq(B)) /\ OpOK(t)
        /\ t # << >> => Fits(h, t[1])
      BY <1>3, ProperHead
  <2>2. CASE CompLen(h) <= n
    <3>1. new = t
        BY <1>3, <2>2 DEF Take
    <3> QED BY <2>1, <3>1
  <2>3. ASSUME ~(CompLen(h) <= n)
        PROVE  \E c : /\ CompOK(c) /\ c.kind = h.kind /\ Inserts(c, Seq(B))
                      /\ new = Cat(One(c), t)
    <3>1. CASE h.kind = "insert"
      <4> DEFINE s == SubSeq(h.s, n + 1, Len(h.s))
                 c == InsertComp(s)
      <4>1. new = Cat(One(c), t)
          BY <1>3, <2>3, <3>1 DEF Take, Cat, One
      <4>2. /\ h.s \in Seq(B) /\ IsSeq(h.s) /\ Len(h.s) \in Nat /\ n \in Nat /\ n < Len(h.s)
            /\ n \in 0..Len(h.s)
          BY <1>3, <2>1, <2>3, <3>1, CompCases, IsSeqLen DEF Inserts, CompLen
      <4>3. s \in Seq(B)
        <5>1. n + 1 \in Nat \ {0} /\ Len(h.s) \in 0..Len(h.s)
            BY <4>2
        <5> QED BY <4>2, <5>1, PartOfSeq
      <4>4. IsSeq(s) /\ Len(s) = Len(h.s) - n
          BY <4>2, IsSeqSplit
      <4>5. s # << >>
        <5>1. Len(s) # 0
          <6> HIDE DEF s, h
          <6> QED BY <4>2, <4>4
        <5> QED BY <4>4, <5>1, IsSeqNone
      <4>6. CompOK(c) /\ c.kind = "insert" /\ Inserts(c, Seq(B))
        <5> HIDE DEF s
        <5> QED BY <4>3, <4>4, <4>5 DEF CompOK, InsertComp, Inserts
      <4> QED BY <3>1, <4>1, <4>6
    <3>2. ASSUME h.kind # "insert"
          PROVE  LET c == [h EXCEPT !.n = @ - n]
                 IN  /\ CompOK(c) /\ c.kind = h.kind /\ Inserts(c, Seq(B))
                     /\ new = Cat(One(c), t)
      <4> DEFINE c == [h EXCEPT !.n = @ - n]
                 m == h.n - n
      <4>1. new = Cat(One(c), t)
          BY <1>3, <2>3, <3>2 DEF Take, Cat, One
      <4>2. m \in Nat \ {0}
          BY <1>3, <2>1, <2>3, <3>2, CompCases DEF CompLen
      <4>3. (h = RetainComp(h.n) /\ c = RetainComp(m)) \/ (h = DeleteComp(h.n) /\ c = DeleteComp(m))
          BY <2>1, <3>2, CompCases DEF RetainComp, DeleteComp
      <4> HIDE DEF c, m, h
      <4>4. CompOK(c) /\ c.kind = h.kind /\ c.kind # "insert"
          BY <4>2, <4>3 DEF CompOK, RetainComp, DeleteComp
      <4> QED BY <4>1, <4>4 DEF c, h, Inserts
    <3> QED BY <3>1, <3>2
  <2>4. ASSUME NEW c, CompOK(c), c.kind = h.kind, Inserts(c, Seq(B)), new = Cat(One(c), t)
        PROVE  Proper(new, Seq(B))
    <3> HIDE DEF t, h
    <3>1. OpOK(One(c)) /\ One(c) # << >> /\ Len(One(c)) = 1 /\ One(c)[1] = c
        BY <2>4, OpOne, OneOK DEF One
    <3>2. Proper(One(c), Seq(B))
        BY <2>4, ProperOne
    <3>3. t # << >> => Fits(c, t[1])
        BY <2>1, <2>4 DEF Fits
    <3> QED BY <2>1, <2>4, <3>1, <3>2, <3>3, ProperCat
  <2> QED BY <2>2, <2>3, <2>4
<1> QED BY <1>1, <1>2, <1>3 DEF LeftOf

\* The heads of two operations, and what they have in common.
LEMMA HeadsCommon ==
    ASSUME NEW B, NEW ia, NEW ib, Proper(ia, Seq(B)), Proper(ib, Seq(B)),
           ia # << >>, ib # << >>
    PROVE  /\ Common(ia, ib) \in Nat \ {0}
           /\ Common(ia, ib) \in 1..CompLen(Head(ia)) /\ Common(ia, ib) \in 1..CompLen(Head(ib))
           /\ Head(ia).kind = "insert" => HeadText(ia, Common(ia, ib)) \in Seq(B)
<1> DEFINE n == Common(ia, ib)
<1>1. OpOK(ia) /\ OpOK(ib)
    BY DEF Proper
<1>2. n \in 1..CompLen(Head(ia)) /\ n \in 1..CompLen(Head(ib))
    BY <1>1, CommonOK
<1>3. CompLen(Head(ia)) \in Nat \ {0} /\ CompOK(Head(ia)) /\ Inserts(Head(ia), Seq(B))
    BY ProperHead, CompCases
<1> HIDE DEF n
<1>4. n \in Nat \ {0}
    BY <1>2, <1>3
<1>5. ASSUME Head(ia).kind = "insert" PROVE HeadText(ia, n) \in Seq(B)
  <2>1. Head(ia).s \in Seq(B) /\ n \in 0..Len(Head(ia).s) /\ 1 \in Nat \ {0}
      BY <1>2, <1>3, <1>5 DEF CompLen, Inserts
  <2> QED BY <2>1, PartOfSeq DEF HeadText
<1> QED BY <1>2, <1>4, <1>5 DEF n

\* What the head component holds.
LEMMA HeadInsert ==
    ASSUME NEW B, NEW it, Proper(it, Seq(B)), it # << >>
    PROVE  /\ CompLen(Head(it)) \in Nat \ {0}
           /\ Head(it).kind \in {"retain", "delete", "insert"}
           /\ Head(it).kind = "insert" => Head(it).s \in Seq(B)
           /\ Head(it).kind = "delete" => Head(it).n \in Nat \ {0}
           /\ LeftOf(it, Tail(it))
<1>1. CompOK(Head(it)) /\ Inserts(Head(it), Seq(B))
    BY ProperHead
<1> QED BY <1>1, CompCases DEF Inserts, LeftOf

\* One turn of Transform's loop.
LEMMA TransformMoves ==
    ASSUME NEW B, NEW st, NEW da, NEW db, Rebasing(st, da, db), Ok(st.ia) \/ Ok(st.ib),
           Proper(st.ia, Seq(B)), Proper(st.ib, Seq(B)),
           NEW next, next = TransformStep(st)
    PROVE  /\ LeftOf(st.ia, next.ia) /\ LeftOf(st.ib, next.ib)
           /\ BuildsOn(st.ap, next.ap, Seq(B)) /\ BuildsOn(st.bp, next.bp, Seq(B))
<1> DEFINE ia == st.ia
           ib == st.ib
           ap == st.ap
           bp == st.bp
           n == Common(ia, ib)
           ka == Kind(ia)
           kb == Kind(ib)
           W == Seq(B)
<1>1. /\ DOMAIN st = {"ia", "ib", "ap", "bp", "ok"} /\ st.ok = TRUE
      /\ Halfway(ia, ib, ap, bp, da, db)
      /\ ia # << >> \/ ib # << >>
    BY DEF Rebasing, Ok
<1>2. TransformCases(st, next, n, ka, kb)
    BY <1>1, TransformKinds
<1>3. /\ ka = IF ia = << >> THEN "none" ELSE Head(ia).kind
      /\ kb = IF ib = << >> THEN "none" ELSE Head(ib).kind
    BY DEF Kind, Ok
<1>4. /\ ia # << >> => ka \in {"retain", "delete", "insert"}
      /\ ib # << >> => kb \in {"retain", "delete", "insert"}
    BY <1>3, HeadInsert
<1>5. /\ ia = << >> => kb = "insert"
      /\ ib = << >> => ka = "insert"
  <2>1. PICK rest, a1, a2, b1, b2, c :
          /\ Does(ia, rest, a2) /\ Does(ib, rest, b2)
          /\ da = Cat(a1, a2) /\ db = Cat(b1, b2)
          /\ Does(bp, a1, c) /\ Does(ap, b1, c)
      BY <1>1 DEF Halfway
  <2>2. ASSUME ia = << >> PROVE kb = "insert"
    <3>1. rest = << >> /\ ib # << >>
        BY <1>1, <2>1, <2>2, DoesEmpty
    <3> QED BY <1>3, <2>1, <3>1, HeadOfNothing
  <2>3. ASSUME ib = << >> PROVE ka = "insert"
    <3>1. rest = << >> /\ ia # << >>
        BY <1>1, <2>1, <2>3, DoesEmpty
    <3> QED BY <1>3, <2>1, <3>1, HeadOfNothing
  <2> QED BY <2>2, <2>3
<1> DEFINE Goal == /\ LeftOf(ia, next.ia) /\ LeftOf(ib, next.ib)
                   /\ BuildsOn(ap, next.ap, W) /\ BuildsOn(bp, next.bp, W)
<1>6. CASE ka = "insert"
  <2>1. TransformsTo(next, Tail(ia), ib, Insert(ap, Head(ia).s), Retain(bp, CompLen(Head(ia))))
      BY <1>2, <1>6 DEF TransformCases
  <2>2. ia # << >> /\ Head(ia).kind = "insert"
      BY <1>3, <1>6
  <2>3. LeftOf(ia, Tail(ia)) /\ Head(ia).s \in W /\ CompLen(Head(ia)) \in Nat \ {0}
      BY <2>2, HeadInsert
  <2> HIDE DEF ia, ib, ap, bp, W
  <2>4. BuildsOn(ap, Insert(ap, Head(ia).s), W) /\ BuildsOn(bp, Retain(bp, CompLen(Head(ia))), W)
      BY <2>3 DEF BuildsOn
  <2>5. LeftOf(ib, ib)
      BY DEF LeftOf
  <2>6. Goal
      BY <2>1, <2>3, <2>4, <2>5 DEF TransformsTo
  <2> QED BY <2>6 DEF ia, ib, ap, bp, W
<1>7. CASE ka # "insert" /\ kb = "insert"
  <2>1. TransformsTo(next, ia, Tail(ib), Retain(ap, CompLen(Head(ib))), Insert(bp, Head(ib).s))
      BY <1>2, <1>7 DEF TransformCases
  <2>2. ib # << >> /\ Head(ib).kind = "insert"
      BY <1>3, <1>7
  <2>3. LeftOf(ib, Tail(ib)) /\ Head(ib).s \in W /\ CompLen(Head(ib)) \in Nat \ {0}
      BY <2>2, HeadInsert
  <2> HIDE DEF ia, ib, ap, bp, W
  <2>4. BuildsOn(bp, Insert(bp, Head(ib).s), W) /\ BuildsOn(ap, Retain(ap, CompLen(Head(ib))), W)
      BY <2>3 DEF BuildsOn
  <2>5. LeftOf(ia, ia)
      BY DEF LeftOf
  <2>6. Goal
      BY <2>1, <2>3, <2>4, <2>5 DEF TransformsTo
  <2> QED BY <2>6 DEF ia, ib, ap, bp, W
<1>8. CASE ka \in {"retain", "delete"} /\ kb \in {"retain", "delete"}
  <2>1. ia # << >> /\ ib # << >>
      BY <1>3, <1>8
  <2>2. /\ n \in Nat \ {0} /\ n \in 1..CompLen(Head(ia)) /\ n \in 1..CompLen(Head(ib))
      BY <2>1, HeadsCommon
  <2> HIDE DEF n
  <2>3. LeftOf(ia, Take(ia, n)) /\ LeftOf(ib, Take(ib, n))
      BY <2>1, <2>2 DEF LeftOf
  <2>4. \/ TransformsTo(next, Take(ia, n), Take(ib, n), Retain(ap, n), Retain(bp, n))
        \/ TransformsTo(next, Take(ia, n), Take(ib, n), ap, bp)
        \/ TransformsTo(next, Take(ia, n), Take(ib, n), Delete(ap, n), bp)
        \/ TransformsTo(next, Take(ia, n), Take(ib, n), ap, Delete(bp, n))
      BY <1>2, <1>8 DEF TransformCases
  <2> HIDE DEF ia, ib, ap, bp, W
  <2>5. /\ BuildsOn(ap, ap, W) /\ BuildsOn(ap, Retain(ap, n), W) /\ BuildsOn(ap, Delete(ap, n), W)
        /\ BuildsOn(bp, bp, W) /\ BuildsOn(bp, Retain(bp, n), W) /\ BuildsOn(bp, Delete(bp, n), W)
      BY <2>2 DEF BuildsOn
  <2>6. Goal
      BY <2>3, <2>4, <2>5 DEF TransformsTo
  <2> QED BY <2>6 DEF ia, ib, ap, bp, W
<1> QED BY <1>3, <1>4, <1>5, <1>6, <1>7, <1>8

\* One turn of Compose's loop.
LEMMA ComposeMoves ==
    ASSUME NEW B, NEW st, NEW d, NEW f, Composing(st, d, f), Ok(st.ia) \/ Ok(st.ib),
           Proper(st.ia, Seq(B)), Proper(st.ib, Seq(B)),
           NEW next, next = ComposeStep(st)
    PROVE  /\ LeftOf(st.ia, next.ia) /\ LeftOf(st.ib, next.ib)
           /\ BuildsOn(st.out, next.out, Seq(B))
<1> DEFINE ia == st.ia
           ib == st.ib
           out == st.out
           n == Common(ia, ib)
           ka == Kind(ia)
           kb == Kind(ib)
           W == Seq(B)
<1>1. /\ DOMAIN st = {"ia", "ib", "out", "ok"} /\ st.ok = TRUE
      /\ Chained(ia, ib, out, d, f)
      /\ ia # << >> \/ ib # << >>
    BY DEF Composing, Ok
<1>2. ComposeCases(st, next, n, ka, kb)
    BY <1>1, ComposeKinds
<1>3. /\ ka = IF ia = << >> THEN "none" ELSE Head(ia).kind
      /\ kb = IF ib = << >> THEN "none" ELSE Head(ib).kind
    BY DEF Kind, Ok
<1>4. /\ ia # << >> => ka \in {"retain", "delete", "insert"}
      /\ ib # << >> => kb \in {"retain", "delete", "insert"}
    BY <1>3, HeadInsert
<1>5. /\ ia = << >> => kb = "insert"
      /\ ib = << >> => ka = "delete"
  <2>1. PICK d1, d2, e2, f1, f2 :
          /\ Does(ia, d2, e2) /\ Does(ib, e2, f2)
          /\ d = Cat(d1, d2) /\ f = Cat(f1, f2)
          /\ Does(out, d1, f1)
      BY <1>1 DEF Chained
  <2>2. ASSUME ia = << >> PROVE kb = "insert"
    <3>1. e2 = << >> /\ ib # << >>
        BY <1>1, <2>1, <2>2, DoesEmpty
    <3> QED BY <1>3, <2>1, <3>1, HeadOfNothing
  <2>3. ASSUME ib = << >> PROVE ka = "delete"
    <3>1. e2 = << >> /\ ia # << >>
        BY <1>1, <2>1, <2>3, DoesEmpty
    <3> QED BY <1>3, <2>1, <3>1, HeadToNothing
  <2> QED BY <2>2, <2>3
<1> DEFINE Goal == /\ LeftOf(ia, next.ia) /\ LeftOf(ib, next.ib)
                   /\ BuildsOn(out, next.out, W)
<1>6. CASE ka = "delete"
  <2>1. ComposesTo(next, Tail(ia), ib, Delete(out, Head(ia).n))
      BY <1>2, <1>6 DEF ComposeCases
  <2>2. ia # << >> /\ Head(ia).kind = "delete"
      BY <1>3, <1>6
  <2>3. LeftOf(ia, Tail(ia)) /\ Head(ia).n \in Nat \ {0}
      BY <2>2, HeadInsert
  <2> HIDE DEF ia, ib, out, W
  <2>4. BuildsOn(out, Delete(out, Head(ia).n), W) /\ LeftOf(ib, ib)
      BY <2>3 DEF BuildsOn, LeftOf
  <2>5. Goal
      BY <2>1, <2>3, <2>4 DEF ComposesTo
  <2> QED BY <2>5 DEF ia, ib, out, W
<1>7. CASE ka # "delete" /\ kb = "insert"
  <2>1. ComposesTo(next, ia, Tail(ib), Insert(out, Head(ib).s))
      BY <1>2, <1>7 DEF ComposeCases
  <2>2. ib # << >> /\ Head(ib).kind = "insert"
      BY <1>3, <1>7
  <2>3. LeftOf(ib, Tail(ib)) /\ Head(ib).s \in W
      BY <2>2, HeadInsert
  <2> HIDE DEF ia, ib, out, W
  <2>4. BuildsOn(out, Insert(out, Head(ib).s), W) /\ LeftOf(ia, ia)
      BY <2>3 DEF BuildsOn, LeftOf
  <2>5. Goal
      BY <2>1, <2>3, <2>4 DEF ComposesTo
  <2> QED BY <2>5 DEF ia, ib, out, W
<1>8. CASE ka \in {"retain", "insert"} /\ kb \in {"retain", "delete"}
  <2>1. /\ ia # << >> /\ ib # << >>
        /\ Head(ia).kind = ka /\ Head(ib).kind = kb
      BY <1>3, <1>8
  <2>2. /\ n \in Nat \ {0} /\ n \in 1..CompLen(Head(ia)) /\ n \in 1..CompLen(Head(ib))
        /\ Head(ia).kind = "insert" => HeadText(ia, n) \in W
      BY <2>1, HeadsCommon
  <2>3. ka = "insert" => ~SplitsCharacter(ia, n)
    <3>1. ASSUME ka = "insert" PROVE ~SplitsCharacter(ia, n)
      <4>1. OpOK(ia) /\ OpOK(ib)
          BY DEF Proper
      <4>2. n \in 1..CompLen(Head(ia)) /\ (n = CompLen(Head(ia)) \/ n = CompLen(Head(ib)))
          BY <2>1, <4>1, CommonOK
      <4>3. n <= CompLen(Head(ia))
          BY <4>2
      <4> HIDE DEF n
      <4> QED BY <1>1, <1>8, <2>1, <3>1, <4>2, <4>3, ChainedWhole
    <3> QED BY <3>1
  <2> HIDE DEF n
  <2>4. LeftOf(ia, Take(ia, n)) /\ LeftOf(ib, Take(ib, n))
      BY <2>1, <2>2 DEF LeftOf
  <2>5. \/ ComposesTo(next, Take(ia, n), Take(ib, n), Retain(out, n))
        \/ ComposesTo(next, Take(ia, n), Take(ib, n), Delete(out, n))
        \/ ka = "insert" /\ ComposesTo(next, Take(ia, n), Take(ib, n), Insert(out, HeadText(ia, n)))
        \/ ComposesTo(next, Take(ia, n), Take(ib, n), out)
      BY <1>2, <1>8, <2>3 DEF ComposeCases
  <2> HIDE DEF ia, ib, out, W
  <2>6. /\ BuildsOn(out, out, W) /\ BuildsOn(out, Retain(out, n), W) /\ BuildsOn(out, Delete(out, n), W)
        /\ ka = "insert" => BuildsOn(out, Insert(out, HeadText(ia, n)), W)
      BY <2>1, <2>2 DEF BuildsOn
  <2>7. Goal
      BY <2>4, <2>5, <2>6 DEF ComposesTo
  <2> QED BY <2>7 DEF ia, ib, out, W
<1> QED BY <1>3, <1>4, <1>5, <1>6, <1>7, <1>8

\* All turns of Transform's loop.
LEMMA TransformStates ==
    ASSUME NEW a, NEW b, NEW d, NEW da, NEW db, Does(a, d, da), Does(b, d, db),
           NEW B, Proper(a, Seq(B)), Proper(b, Seq(B)),
           NEW run, TransformRun(a, b, run)
    PROVE  LET N == Len(a) + Len(b)
           IN  /\ N \in Nat
               /\ \A k \in 0..N : Proper(run[k].ap, Seq(B)) /\ Proper(run[k].bp, Seq(B))
               /\ \A k \in 0..(N - 1) : BuildsOn(run[k].ap, run[k + 1].ap, Seq(B))
<1> DEFINE N == Len(a) + Len(b)
           W == Seq(B)
           Good(st) == /\ Proper(st.ia, W) /\ Proper(st.ib, W)
                       /\ Proper(st.ap, W) /\ Proper(st.bp, W)
           Moved(st, next) == /\ LeftOf(st.ia, next.ia) /\ LeftOf(st.ib, next.ib)
                              /\ BuildsOn(st.ap, next.ap, W) /\ BuildsOn(st.bp, next.bp, W)
           S == {k \in 0..N : Good(run[k])}
<1>1. N \in Nat /\ \A k \in 0..N : Rebasing(run[k], da, db)
    BY TransformKeeps
<1>2. Good(run[0])
  <2>1. run[0].ia = a /\ run[0].ib = b /\ run[0].ap = << >> /\ run[0].bp = << >>
      BY DEF TransformRun, New
  <2> QED BY <2>1, ProperNone
<1>3. ASSUME NEW st, NEW next, Good(st), Moved(st, next) PROVE Good(next)
    BY <1>3, LeftProper, BuildsProper, SeqClosed
<1>4. ASSUME NEW k \in 0..(N - 1), Good(run[k]) PROVE Moved(run[k], run[k + 1])
  <2> DEFINE st == run[k]
             next == run[k + 1]
  <2>1. k + 1 \in 1..N /\ (k + 1) - 1 = k /\ k \in 0..N
      BY <1>1
  <2>2. next = IF st.ok /\ (Ok(st.ia) \/ Ok(st.ib)) THEN TransformStep(st) ELSE st
      BY <2>1 DEF TransformRun
  <2>3. Rebasing(st, da, db) /\ st.ok = TRUE
      BY <1>1, <2>1 DEF Rebasing
  <2>4. CASE Ok(st.ia) \/ Ok(st.ib)
    <3>1. next = TransformStep(st)
        BY <2>2, <2>3, <2>4
    <3> HIDE DEF next, st
    <3>2. Moved(st, next)
        BY <1>4, <2>3, <2>4, <3>1, TransformMoves DEF st
    <3> QED BY <3>2 DEF st, next
  <2>5. CASE ~(Ok(st.ia) \/ Ok(st.ib))
    <3>1. next = st
        BY <2>2, <2>5
    <3> HIDE DEF next, st
    <3>2. Moved(st, next)
        BY <3>1 DEF LeftOf, BuildsOn
    <3> QED BY <3>2 DEF st, next
  <2> QED BY <2>4, <2>5
<1> HIDE DEF Good, Moved
<1>5. 0 \in S /\ \A k \in 0..(N - 1) : k \in S => k + 1 \in S
    BY <1>1, <1>2, <1>3, <1>4
<1>6. 0..N \subseteq S
  <2> HIDE DEF S, N
  <2> QED BY <1>1, <1>5, BoundedInduction
<1>7. \A k \in 0..N : Good(run[k])
    BY <1>6
<1>8. \A k \in 0..(N - 1) : Moved(run[k], run[k + 1])
    BY <1>1, <1>4, <1>7
<1> QED BY <1>1, <1>7, <1>8 DEF Good, Moved

\* What Transform returns.
LEMMA TransformProper ==
    ASSUME NEW a, NEW b, NEW d, NEW da, NEW db, Does(a, d, da), Does(b, d, db),
           NEW B, Proper(a, Seq(B)), Proper(b, Seq(B))
    PROVE  Proper(Transform(a, b).a, Seq(B)) /\ Proper(Transform(a, b).b, Seq(B))
<1>1. IsSeq(a) /\ IsSeq(b)
    BY OpIndex DEF Does
<1>2. PICK run : TransformRun(a, b, run)
    BY <1>1, TransformUnfold
<1> DEFINE N == Len(a) + Len(b)
           last == run[N]
<1>3. N \in Nat /\ \A k \in 0..N : Proper(run[k].ap, Seq(B)) /\ Proper(run[k].bp, Seq(B))
    BY <1>2, TransformStates
<1>4. Proper(last.ap, Seq(B)) /\ Proper(last.bp, Seq(B))
  <2>1. N \in 0..N
      BY <1>3
  <2> HIDE DEF N
  <2> QED BY <1>3, <2>1
<1>5. Transform(a, b) = [a |-> last.ap, b |-> last.bp, ok |-> last.ok]
    BY <1>2 DEF Transform, TransformRun
<1> HIDE DEF last
<1>6. Transform(a, b).a = last.ap /\ Transform(a, b).b = last.bp
    BY <1>5
<1> QED BY <1>4, <1>6

\* What Compose returns.
LEMMA ComposeProper ==
    ASSUME NEW a, NEW b, NEW d, NEW e, NEW f, Does(a, d, e), Does(b, e, f),
           NEW B, Proper(a, Seq(B)), Proper(b, Seq(B))
    PROVE  Proper(Compose(a, b), Seq(B))
<1>1. IsSeq(a) /\ IsSeq(b)
    BY OpIndex DEF Does
<1>2. PICK run : ComposeRun(a, b, run)
    BY <1>1, ComposeUnfold
<1> DEFINE N == Len(a) + Len(b)
           W == Seq(B)
           Good(st) == Proper(st.ia, W) /\ Proper(st.ib, W) /\ Proper(st.out, W)
           Moved(st, next) == /\ LeftOf(st.ia, next.ia) /\ LeftOf(st.ib, next.ib)
                              /\ BuildsOn(st.out, next.out, W)
           S == {k \in 0..N : Good(run[k])}
<1>3. N \in Nat /\ \A k \in 0..N : Composing(run[k], d, f)
    BY <1>2, ComposeKeeps
<1>4. Good(run[0])
  <2>1. run[0].ia = a /\ run[0].ib = b /\ run[0].out = << >>
      BY <1>2 DEF ComposeRun, New
  <2> QED BY <2>1, ProperNone
<1>5. ASSUME NEW st, NEW next, Good(st), Moved(st, next) PROVE Good(next)
    BY <1>5, LeftProper, BuildsProper, SeqClosed
<1>6. ASSUME NEW k \in 0..(N - 1), Good(run[k]) PROVE Moved(run[k], run[k + 1])
  <2> DEFINE st == run[k]
             next == run[k + 1]
  <2>1. k + 1 \in 1..N /\ (k + 1) - 1 = k /\ k \in 0..N
      BY <1>3
  <2>2. next = IF st.ok /\ (Ok(st.ia) \/ Ok(st.ib)) THEN ComposeStep(st) ELSE st
      BY <1>2, <2>1 DEF ComposeRun
  <2>3. Composing(st, d, f) /\ st.ok = TRUE
      BY <1>3, <2>1 DEF Composing
  <2>4. CASE Ok(st.ia) \/ Ok(st.ib)
    <3>1. next = ComposeStep(st)
        BY <2>2, <2>3, <2>4
    <3> HIDE DEF next, st
    <3>2. Moved(st, next)
        BY <1>6, <2>3, <2>4, <3>1, ComposeMoves DEF st
    <3> QED BY <3>2 DEF st, next
  <2>5. CASE ~(Ok(st.ia) \/ Ok(st.ib))
    <3>1. next = st
        BY <2>2, <2>5
    <3> HIDE DEF next, st
    <3>2. Moved(st, next)
        BY <3>1 DEF LeftOf, BuildsOn
    <3> QED BY <3>2 DEF st, next
  <2> QED BY <2>4, <2>5
<1> HIDE DEF Good, Moved
<1>7. 0 \in S /\ \A k \in 0..(N - 1) : k \in S => k + 1 \in S
    BY <1>3, <1>4, <1>5, <1>6
<1>8. N \in S
  <2>1. N \in 0..N
      BY <1>3
  <2> HIDE DEF S, N
  <2>2. 0..N \subseteq S
      BY <1>3, <1>7, BoundedInduction
  <2> QED BY <2>1, <2>2
<1>9. Compose(a, b) = run[N].out
    BY <1>2 DEF Compose, ComposeRun
<1> QED BY <1>8, <1>9 DEF Good

---------------------------------------------------------------------------
(* Compose and Invert.                                                     *)

\* An operation whose inserts are texts is one over the bytes.
LEMMA ProperBytes ==
    ASSUME NEW o, Proper(o, Insertable)
    PROVE  Proper(o, Seq(Alphabet))
BY DEF Proper, Inserts, Insertable

\* What a caller's complete operation does.
LEMMA CallerDoes ==
    ASSUME BuiltInv, NEW p \in Callers, NEW d, IsSeq(d), ValidUTF8(d), Applies(op[p], d)
    PROVE  Does(op[p], d, Apply(op[p], d)) /\ Proper(op[p], Seq(Alphabet))
<1>1. Proper(op[p], Insertable)
    BY DEF BuiltInv
<1> QED BY <1>1, ProperTexts, ProperBytes, AppliesDoes

\* The law of Compose in a state of the invariant.
LEMMA ComposeLawHolds == ASSUME BuiltInv PROVE ComposeLaw
<1> DEFINE a == op["a"]
           b == op["b"]
           da == Apply(a, doc)
<1>1. IsSeq(doc) /\ ValidUTF8(doc) /\ "a" \in Callers /\ "b" \in Callers
    BY DocText DEF BuiltInv, Callers
<1>2. ASSUME Applies(a, doc)
      PROVE  Does(a, doc, da) /\ Proper(a, Seq(Alphabet)) /\ IsSeq(da) /\ ValidUTF8(da)
  <2>1. Does(a, doc, da) /\ Proper(a, Seq(Alphabet))
      BY <1>1, <1>2, CallerDoes
  <2> HIDE DEF da
  <2> QED BY <2>1, DoesTexts DEF Does
<1>3. ASSUME Consecutive
      PROVE  LET c == Compose(a, b)
             IN  /\ Composes(a, b) /\ Canonical(c)
                 /\ Applies(c, doc) /\ Apply(c, doc) = Apply(b, da)
  <2>1. Applies(a, doc) /\ Applies(b, da)
      BY <1>3 DEF Consecutive, BaseOf
  <2>2. /\ Does(a, doc, da) /\ Proper(a, Seq(Alphabet))
        /\ Does(b, da, Apply(b, da)) /\ Proper(b, Seq(Alphabet))
    <3> HIDE DEF da
    <3> QED BY <1>1, <1>2, <2>1, CallerDoes
  <2> DEFINE f == Apply(b, da)
  <2> HIDE DEF a, b, da, f
  <2>3. /\ Composes(a, b) /\ Does(Compose(a, b), doc, f)
        /\ Proper(Compose(a, b), Seq(Alphabet))
      BY <2>2, ComposeDoesBoth, ComposeProper DEF f
  <2> QED BY <2>3, DoesApplies, ProperCanonical DEF f
<1>4. ASSUME Edited
      PROVE  LET inv == Invert(a, doc)
             IN  /\ Applies(inv, da) /\ Composes(a, inv)
                 /\ Apply(Compose(a, inv), doc) = doc
  <2>1. Does(a, doc, da)
      BY <1>2, <1>4 DEF Edited
  <2> HIDE DEF a, da
  <2>2. Does(Invert(a, doc), da, doc)
      BY <2>1, InvertDoes
  <2>3. Composes(a, Invert(a, doc)) /\ Does(Compose(a, Invert(a, doc)), doc, doc)
      BY <2>1, <2>2, ComposeDoesBoth
  <2> QED BY <2>2, <2>3, DoesApplies
<1> QED BY <1>3, <1>4 DEF ComposeLaw, target

\* Compose accepts any two operations that can be done one after the other, the
\* composed one is canonical and does in one step what they do; an operation
\* composed with its inverse gives the document back (compose.go; op.go, Invert).
THEOREM ComposeIsLawful == Spec => []ComposeLaw
BY ComposeLawHolds, Built, PTL

---------------------------------------------------------------------------
(* The diffs.                                                              *)

\* The largest number there can be, when it is there.
LEMMA LargestTop ==
    ASSUME NEW N \in Nat, NEW S, S \subseteq 0..N, N \in S
    PROVE  Largest(S) = N
<1>1. \E n \in S : \A m \in S : m <= n
    BY DEF Largest
<1>2. Largest(S) \in S /\ \A m \in S : m <= Largest(S)
    BY <1>1 DEF Largest
<1> DEFINE n == Largest(S)
<1>3. n \in 0..N /\ N <= n
    BY <1>2
<1> HIDE DEF n
<1>4. n = N
    BY <1>3
<1> QED BY <1>4 DEF n

\* The diff of a text to itself does nothing.
LEMMA DiffOfSame ==
    ASSUME NEW d, IsSeq(d)
    PROVE  IsNoop(DiffText(d, d))
<1> DEFINE L == Len(d)
<1>1. L \in Nat /\ L \in 0..L
    BY IsSeqLen
<1>2. CommonPrefix(d, d) = L
  <2> DEFINE S == {n \in 0..L : n <= L /\ SubSeq(d, 1, n) = SubSeq(d, 1, n)}
  <2>1. S \subseteq 0..L /\ L \in S
      BY <1>1
  <2>2. CommonPrefix(d, d) = Largest(S)
      BY DEF CommonPrefix
  <2> HIDE DEF S, L
  <2> QED BY <1>1, <2>1, <2>2, LargestTop
<1>3. FloorBoundary(d, L) = L
  <2> DEFINE S == {i \in 0..L : i = 0 \/ IsBoundary(d, i)}
  <2>1. S \subseteq 0..L /\ L \in S
      BY <1>1 DEF IsBoundary
  <2>2. FloorBoundary(d, L) = Largest(S)
      BY DEF FloorBoundary
  <2> HIDE DEF S, L
  <2> QED BY <1>1, <2>1, <2>2, LargestTop
<1>4. ASSUME NEW S, S \subseteq 0..0, 0 \in S PROVE Largest(S) = 0
    BY <1>4, LargestTop
<1>5. CommonSuffix(d, d, 0) = 0
    BY <1>4 DEF CommonSuffix
<1> DEFINE G == {n \in 0..0 : n > 0 => /\ IsBoundary(d, L - n) /\ IsBoundary(d, L - n)}
           kept == Retain(New, L)
<1>6. Largest(G) = 0
    BY <1>4
<1>7. DiffText(d, d) = Retain(Insert(Delete(kept, L - Largest(G) - L),
                                     SubSeq(d, L + 1, L - Largest(G))), Largest(G))
  <2>1. (IF L < L THEN L ELSE L) - L = 0
      BY <1>1
  <2> QED BY <1>2, <1>3, <1>5, <2>1 DEF DiffText
<1> HIDE DEF kept, G
<1>8. SubSeq(d, L + 1, L) = << >>
  <2> DEFINE s == SubSeq(d, L + 1, L)
  <2>1. IsSeq(s) /\ Len(s) = L - L
      BY <1>1, IsSeqSplit
  <2> HIDE DEF s
  <2>2. s = << >>
      BY <1>1, <2>1, IsSeqNone
  <2> QED BY <2>2 DEF s
<1>9. DiffText(d, d) = kept
  <2>1. L - 0 - L = 0 /\ L - 0 = L
      BY <1>1
  <2>2. DiffText(d, d) = Retain(Insert(Delete(kept, 0), << >>), 0)
      BY <1>6, <1>7, <1>8, <2>1
  <2>3. Delete(kept, 0) = kept /\ Insert(kept, << >>) = kept /\ Retain(kept, 0) = kept
      BY DEF Delete, Insert, Retain
  <2> QED BY <2>2, <2>3
<1>10. IsNoop(kept)
  <2>1. CASE L = 0
      BY <2>1 DEF kept, Retain, New, IsNoop
  <2>2. CASE L # 0
    <3>1. kept = Append(<< >>, RetainComp(L))
        BY <1>1, <2>2 DEF kept, Retain, EndsWith, New
    <3>2. Append(<< >>, RetainComp(L)) = <<RetainComp(L)>>
        OBVIOUS
    <3>3. Len(kept) = 1 /\ kept[1] = RetainComp(L)
        BY <3>1, <3>2, IsSeqOne
    <3> QED BY <3>3 DEF IsNoop, RetainComp
  <2> QED BY <2>1, <2>2
<1> QED BY <1>9, <1>10

LEMMA DiffsHold == ASSUME BuiltInv PROVE DiffsReproduceTarget
<1> SUFFICES ASSUME Edited
             PROVE  LET diff   == DiffText(doc, target)
                        change == ComputeTextChange(doc, target)
                    IN  /\ Applies(diff, doc) /\ Apply(diff, doc) = target
                        /\ IsNoop(diff) <=> doc = target
                        /\ \A k \in DOMAIN diff :
                              diff[k].kind = "insert" => ValidUTF8(diff[k].s)
                        /\ IF doc = target THEN change = NoChange
                           ELSE /\ ApplyTextChange(doc, change[1]) = target
                                /\ IsBoundary(doc, change[1].from)
                                /\ IsBoundary(doc, change[1].to)
                                /\ change[1].from <= change[1].to
                                /\ ValidUTF8(change[1].insert)
    BY DEF DiffsReproduceTarget
<1> DEFINE diff == DiffText(doc, target)
           change == ComputeTextChange(doc, target)
<1>1. IsSeq(doc) /\ ValidUTF8(doc) /\ "a" \in Callers
    BY DocText DEF BuiltInv, Callers
<1>2. IsSeq(target) /\ ValidUTF8(target)
  <2>1. Does(op["a"], doc, target)
      BY <1>1, CallerDoes DEF Edited, target
  <2> QED BY <2>1, DoesTexts DEF Does
<1>3. Does(diff, doc, target)
    BY <1>1, <1>2, DiffTextDoes
<1>4. IsNoop(diff) <=> doc = target
    BY <1>1, <1>3, NoopDoes, DiffOfSame
<1>5. ASSUME doc = target PROVE change = NoChange
    BY <1>5 DEF ComputeTextChange
<1> HIDE DEF diff
<1>6. \A k \in DOMAIN diff : diff[k].kind = "insert" => ValidUTF8(diff[k].s)
    BY <1>3, OpIndex DEF Does, Whole
<1>7. Applies(diff, doc) /\ Apply(diff, doc) = target
    BY <1>3, DoesApplies
<1>8. ASSUME doc # target
      PROVE  /\ ApplyTextChange(doc, change[1]) = target
             /\ IsBoundary(doc, change[1].from) /\ IsBoundary(doc, change[1].to)
             /\ change[1].from <= change[1].to /\ ValidUTF8(change[1].insert)
  <2> HIDE DEF change
  <2> QED BY <1>1, <1>2, <1>8, ChangeMakesText, OTLawsAssumption DEF change
<1> QED BY <1>4, <1>5, <1>6, <1>7, <1>8 DEF diff

\* Whatever was edited, the diff that a session resends after a reconnect is
\* accepted, makes the current text of the confirmed one and is a no-op exactly
\* when nothing changed (session.ts, diffText); the editor bridge's replacement
\* makes the new text too and cuts no character (bridge/diff.ts).
THEOREM DiffsReproduceTexts == Spec => []DiffsReproduceTarget
BY DiffsHold, Built, PTL

---------------------------------------------------------------------------
(* Two operations in canonical form that do the same are the same.         *)

\* A document whose bytes differ from one another and from those of B.
Marked(d, B) ==
    /\ IsSeq(d)
    /\ \A i \in 1..Len(d) : d[i] \notin B
    /\ \A i, j \in 1..Len(d) : d[i] = d[j] => i = j

LEMMA MarkedRest ==
    ASSUME NEW x, NEW y, IsSeq(x), IsSeq(y), NEW B, Marked(Cat(x, y), B)
    PROVE  Marked(y, B)
<1> DEFINE d == Cat(x, y)
           l == Len(x)
<1>1. /\ l \in Nat /\ Len(y) \in Nat /\ Len(d) = l + Len(y)
      /\ \A i \in 1..Len(y) : d[l + i] = y[i]
    BY CatIndex
<1>2. /\ \A i \in 1..Len(d) : d[i] \notin B
      /\ \A i, j \in 1..Len(d) : d[i] = d[j] => i = j
    BY DEF Marked
<1> HIDE DEF d, l
<1>3. \A i \in 1..Len(y) : l + i \in 1..Len(d)
    BY <1>1
<1>4. \A i \in 1..Len(y) : y[i] \notin B
    BY <1>1, <1>2, <1>3
<1>5. ASSUME NEW i \in 1..Len(y), NEW j \in 1..Len(y), y[i] = y[j] PROVE i = j
  <2>1. d[l + i] = d[l + j]
      BY <1>1, <1>5
  <2>2. l + i = l + j
      BY <1>2, <1>3, <2>1
  <2> QED BY <1>1, <2>2
<1> QED BY <1>4, <1>5 DEF Marked

\* The first byte of what is put together.
LEMMA FirstOfCat ==
    ASSUME NEW x, NEW y, IsSeq(x), IsSeq(y), x # << >>
    PROVE  /\ Cat(x, y) # << >> /\ Cat(x, y)[1] = x[1]
           /\ 1 \in 1..Len(x) /\ 1 \in 1..Len(Cat(x, y)) /\ Len(x) \in Nat \ {0}
<1>1. Len(x) # 0
    BY IsSeqNone
<1>2. /\ Len(Cat(x, y)) = Len(x) + Len(y) /\ Len(x) \in Nat /\ Len(y) \in Nat
      /\ \A i \in 1..Len(x) : Cat(x, y)[i] = x[i]
    BY CatIndex
<1> DEFINE l == Len(x)
           m == Len(y)
           n == Len(Cat(x, y))
<1>3. 1 \in 1..l /\ 1 \in 1..n /\ n # 0
  <2> HIDE DEF l, m, n
  <2> QED BY <1>1, <1>2 DEF l, m, n
<1>4. Cat(x, y) # << >>
    BY <1>3, CatOK, IsSeqNone
<1> QED BY <1>1, <1>2, <1>3, <1>4

\* What follows x in Cat(x, y).
LEMMA AfterCat ==
    ASSUME NEW x, NEW y, IsSeq(x), IsSeq(y), y # << >>
    PROVE  /\ Len(x) + 1 \in 1..Len(Cat(x, y)) /\ Len(x) \in Nat
           /\ Cat(x, y)[Len(x) + 1] = y[1]
<1>1. Len(y) # 0
    BY IsSeqNone
<1>2. /\ Len(Cat(x, y)) = Len(x) + Len(y) /\ Len(x) \in Nat /\ Len(y) \in Nat
      /\ \A i \in 1..Len(y) : Cat(x, y)[Len(x) + i] = y[i]
    BY CatIndex
<1>3. 1 \in 1..Len(y)
    BY <1>1, <1>2
<1> QED BY <1>1, <1>2, <1>3

LEMMA InAlphabet ==
    ASSUME NEW B, NEW s \in Seq(B)
    PROVE  \A i \in 1..Len(s) : s[i] \in B
BY LenProperties, ElementOfSeq

\* What becomes of the first byte tells what the first component is.
FirstKind(d, e, B) ==
    IF e = << >> THEN "delete"
    ELSE IF e[1] \in B THEN "insert"
    ELSE IF e[1] = d[1] THEN "retain"
    ELSE "delete"

\* The empty operation does nothing to nothing.
LEMMA NoneDoes ==
    ASSUME NEW t, t = << >>, NEW d, NEW e, Does(t, d, e)
    PROVE  d = << >> /\ e = << >>
BY DoesEmpty

\* What a retain keeps is what begins both documents.
LEMMA RetainBegins ==
    ASSUME NEW t, t # << >>, Head(t).kind = "retain", NEW d, NEW e, Does(t, d, e)
    PROVE  d # << >> /\ e # << >> /\ e[1] = d[1]
<1>1. PICK x, y, v : /\ IsSeq(x) /\ Len(x) = Head(t).n /\ d = Cat(x, y) /\ e = Cat(x, v)
                     /\ IsSeq(y) /\ IsSeq(v)
    BY DoesHeadRetain
<1>2. CompOK(Head(t))
    BY OpHead DEF Does
<1>3. x # << >>
    BY <1>1, <1>2, CompCases, IsSeqEmpty
<1> QED BY <1>1, <1>3, FirstOfCat

\* The second component is of another kind, and no insert after a delete.
LEMMA NextHead ==
    ASSUME NEW B, NEW it, Proper(it, Seq(B)), it # << >>, Tail(it) # << >>
    PROVE  /\ Head(Tail(it)).kind # Head(it).kind
           /\ Head(it).kind = "delete" => Head(Tail(it)).kind = "retain"
           /\ Proper(Tail(it), Seq(B))
<1>1. /\ Proper(Tail(it), Seq(B)) /\ OpOK(Tail(it)) /\ Fits(Head(it), Tail(it)[1])
    BY ProperHead
<1>2. Head(Tail(it)) = Tail(it)[1]
    BY <1>1, OpIndex, CatHead
<1>3. CompOK(Head(Tail(it)))
    BY <1>1, OpHead
<1> DEFINE h == Head(Tail(it))
<1>4. h.kind \in {"retain", "delete", "insert"} /\ Fits(Head(it), h)
    BY <1>1, <1>2, <1>3, CompCases
<1> HIDE DEF h
<1> QED BY <1>1, <1>4 DEF h, Fits

LEMMA HeadKind ==
    ASSUME NEW B, NEW it, Proper(it, Seq(B)), it # << >>,
           NEW d, Marked(d, B), NEW e, Does(it, d, e)
    PROVE  Head(it).kind = FirstKind(d, e, B)
<1>1. CompOK(Head(it)) /\ Inserts(Head(it), Seq(B))
    BY ProperHead
<1>2. /\ Head(it).kind \in {"retain", "delete", "insert"}
      /\ Head(it).kind = "insert" => IsSeq(Head(it).s) /\ Head(it).s # << >>
      /\ Head(it).kind # "insert" => Head(it).n \in Nat \ {0}
    BY <1>1, CompCases
<1>3. CASE Head(it).kind = "insert"
  <2>1. PICK v : Does(Tail(it), d, v) /\ e = Cat(Head(it).s, v)
      BY <1>3, DoesHeadInsert
  <2>2. IsSeq(v) /\ Head(it).s \in Seq(B)
      BY <1>1, <1>3, <2>1 DEF Does, Inserts
  <2>3. e # << >> /\ e[1] = Head(it).s[1] /\ 1 \in 1..Len(Head(it).s)
      BY <1>2, <1>3, <2>1, <2>2, FirstOfCat
  <2>4. e[1] \in B
      BY <2>2, <2>3, InAlphabet
  <2> QED BY <1>3, <2>3, <2>4 DEF FirstKind
<1>4. CASE Head(it).kind = "retain"
  <2>1. PICK x, y, v : /\ IsSeq(x) /\ Len(x) = Head(it).n
                       /\ d = Cat(x, y) /\ e = Cat(x, v) /\ IsSeq(y) /\ IsSeq(v)
      BY <1>4, DoesHeadRetain
  <2>2. x # << >>
      BY <1>2, <1>4, <2>1, IsSeqEmpty
  <2>3. e # << >> /\ e[1] = x[1] /\ d[1] = x[1] /\ 1 \in 1..Len(d)
      BY <2>1, <2>2, FirstOfCat
  <2>4. e[1] \notin B
      BY <2>3 DEF Marked
  <2> QED BY <1>4, <2>3, <2>4 DEF FirstKind
<1>5. CASE Head(it).kind = "delete"
  <2>1. PICK x, y : /\ IsSeq(x) /\ Len(x) = Head(it).n /\ d = Cat(x, y)
                    /\ IsSeq(y) /\ Does(Tail(it), y, e)
      BY <1>5, DoesHeadDelete
  <2>2. CASE Tail(it) = << >>
    <3>1. e = << >>
        BY <2>1, <2>2, NoneDoes
    <3> QED BY <1>5, <3>1 DEF FirstKind
  <2>3. CASE Tail(it) # << >>
    <3>1. Head(Tail(it)).kind = "retain" /\ CompOK(Head(Tail(it)))
        BY <1>5, <2>1, <2>3, NextHead, OpHead DEF Does
    <3>4. e # << >> /\ e[1] = y[1] /\ y # << >>
        BY <2>1, <2>3, <3>1, RetainBegins
    <3>5. Len(x) + 1 \in 1..Len(d) /\ d[Len(x) + 1] = y[1]
        BY <2>1, <3>4, AfterCat
    <3>6. 1 \in 1..Len(d) /\ Len(x) + 1 # 1
      <4>1. x # << >>
          BY <1>2, <1>5, <2>1, IsSeqEmpty
      <4> QED BY <2>1, <4>1, FirstOfCat
    <3>7. e[1] \notin B /\ e[1] # d[1]
        BY <3>4, <3>5, <3>6 DEF Marked
    <3> QED BY <1>5, <3>4, <3>7 DEF FirstKind
  <2> QED BY <2>2, <2>3
<1> QED BY <1>2, <1>3, <1>4, <1>5

\* Where the first component ends.
LEMMA AfterInsert ==
    ASSUME NEW B, NEW it, Proper(it, Seq(B)), it # << >>, Head(it).kind = "insert",
           NEW d, Marked(d, B), NEW e, Does(it, d, e)
    PROVE  \E v : /\ Does(Tail(it), d, v) /\ IsSeq(v) /\ e = Cat(Head(it).s, v)
                  /\ IsSeq(Head(it).s) /\ Head(it).s \in Seq(B)
                  /\ v = << >> \/ v[1] \notin B
<1>1. PICK v : Does(Tail(it), d, v) /\ e = Cat(Head(it).s, v) /\ IsSeq(Head(it).s)
    BY DoesHeadInsert
<1>2. IsSeq(v) /\ Head(it).s \in Seq(B)
    BY <1>1, ProperHead DEF Does, Inserts
<1>3. CASE Tail(it) = << >>
  <2>1. v = << >>
      BY <1>1, <1>3, NoneDoes
  <2> QED BY <1>1, <1>2, <2>1
<1>4. CASE Tail(it) # << >>
  <2>1. Head(Tail(it)).kind # "insert" /\ Head(Tail(it)).kind = FirstKind(d, v, B)
      BY <1>1, <1>4, NextHead, HeadKind
  <2>2. v = << >> \/ v[1] \notin B
      BY <2>1 DEF FirstKind
  <2> QED BY <1>1, <1>2, <2>2
<1> QED BY <1>3, <1>4

LEMMA AfterRetain ==
    ASSUME NEW B, NEW it, Proper(it, Seq(B)), it # << >>, Head(it).kind = "retain",
           NEW d, Marked(d, B), NEW e, Does(it, d, e)
    PROVE  \E x, y, v : /\ Does(Tail(it), y, v) /\ IsSeq(x) /\ IsSeq(y) /\ IsSeq(v)
                        /\ d = Cat(x, y) /\ e = Cat(x, v) /\ Len(x) = Head(it).n
                        /\ Marked(y, B)
                        /\ ~(y # << >> /\ v # << >> /\ v[1] = y[1])
<1>1. PICK x, y, v : /\ Does(Tail(it), y, v) /\ IsSeq(x) /\ IsSeq(y) /\ IsSeq(v)
                     /\ d = Cat(x, y) /\ e = Cat(x, v) /\ Len(x) = Head(it).n
    BY DoesHeadRetain
<1>2. Marked(y, B)
    BY <1>1, MarkedRest
<1>3. CASE Tail(it) = << >>
  <2>1. y = << >>
      BY <1>1, <1>3, NoneDoes
  <2> QED BY <1>1, <1>2, <2>1
<1>4. CASE Tail(it) # << >>
  <2>1. Head(Tail(it)).kind # "retain" /\ Head(Tail(it)).kind = FirstKind(y, v, B)
      BY <1>1, <1>2, <1>4, NextHead, HeadKind
  <2>2. ASSUME y # << >>, v # << >>, v[1] = y[1] PROVE FALSE
    <3>1. v[1] \in B
        BY <2>1, <2>2 DEF FirstKind
    <3>2. 1 \in 1..Len(y)
        BY <1>1, <2>2, IsSeqNone, IsSeqLen
    <3> QED BY <1>2, <2>2, <3>1, <3>2 DEF Marked
  <2> QED BY <1>1, <1>2, <2>2
<1> QED BY <1>3, <1>4

LEMMA AfterDelete ==
    ASSUME NEW B, NEW it, Proper(it, Seq(B)), it # << >>, Head(it).kind = "delete",
           NEW d, Marked(d, B), NEW e, Does(it, d, e)
    PROVE  \E x, y : /\ Does(Tail(it), y, e) /\ IsSeq(x) /\ IsSeq(y)
                     /\ d = Cat(x, y) /\ Len(x) = Head(it).n /\ Marked(y, B)
                     /\ \/ y = << >> /\ e = << >>
                        \/ y # << >> /\ e # << >> /\ e[1] = y[1]
<1>1. PICK x, y : /\ Does(Tail(it), y, e) /\ IsSeq(x) /\ IsSeq(y)
                  /\ d = Cat(x, y) /\ Len(x) = Head(it).n
    BY DoesHeadDelete
<1>2. Marked(y, B)
    BY <1>1, MarkedRest
<1>3. CASE Tail(it) = << >>
  <2>1. y = << >> /\ e = << >>
      BY <1>1, <1>3, NoneDoes
  <2> QED BY <1>1, <1>2, <2>1
<1>4. CASE Tail(it) # << >>
  <2>1. Head(Tail(it)).kind = "retain" 
      BY <1>4, NextHead
  <2>2. e # << >> /\ e[1] = y[1] /\ y # << >>
      BY <1>1, <1>4, <2>1, RetainBegins
  <2> QED BY <1>1, <1>2, <2>2
<1> QED BY <1>3, <1>4

\* Of two ways to see a text as inserted bytes and what follows them.
LEMMA SameInsert ==
    ASSUME NEW B, NEW s, NEW t, s \in Seq(B), t \in Seq(B), IsSeq(s), IsSeq(t),
           NEW v, NEW w, IsSeq(v), IsSeq(w), Cat(s, v) = Cat(t, w),
           w = << >> \/ w[1] \notin B
    PROVE  Len(s) <= Len(t)
<1> DEFINE l == Len(s)
           m == Len(t)
<1>1. SUFFICES ASSUME ~(l <= m) PROVE FALSE
    OBVIOUS
<1>2. /\ Len(Cat(s, v)) = l + Len(v) /\ Len(Cat(t, w)) = m + Len(w)
      /\ l \in Nat /\ m \in Nat /\ Len(v) \in Nat /\ Len(w) \in Nat
      /\ \A i \in 1..l : Cat(s, v)[i] = s[i]
    BY CatIndex
<1>3. m + 1 \in 1..l /\ Len(w) # 0
  <2> DEFINE j == Len(v)
             k == Len(w)
  <2>1. l + j = m + k /\ j \in Nat /\ k \in Nat
      BY <1>2
  <2> HIDE DEF l, m, j, k
  <2>2. m + 1 \in 1..l /\ k # 0
      BY <1>1, <1>2, <2>1
  <2> QED BY <2>2 DEF k
<1>4. w # << >>
    BY <1>3, IsSeqEmpty
<1>5. Cat(t, w)[m + 1] = w[1]
    BY <1>4, AfterCat
<1>6. s[m + 1] \in B
    BY <1>3, InAlphabet
<1> QED BY <1>2, <1>3, <1>4, <1>5, <1>6

\* Of two ways to see two documents as what they begin with in common and the rest.
LEMMA SameRetain ==
    ASSUME NEW x, NEW y, NEW v, NEW z, NEW w, NEW q,
           IsSeq(x), IsSeq(y), IsSeq(v), IsSeq(z), IsSeq(w), IsSeq(q),
           Cat(x, y) = Cat(z, w), Cat(x, v) = Cat(z, q),
           ~(y # << >> /\ v # << >> /\ v[1] = y[1])
    PROVE  Len(z) <= Len(x)
<1> DEFINE l == Len(z)
           m == Len(x)
<1>1. SUFFICES ASSUME ~(l <= m) PROVE FALSE
    OBVIOUS
<1>2. /\ Len(Cat(x, y)) = m + Len(y) /\ Len(Cat(x, v)) = m + Len(v)
      /\ Len(Cat(z, w)) = l + Len(w) /\ Len(Cat(z, q)) = l + Len(q)
      /\ l \in Nat /\ m \in Nat /\ Len(y) \in Nat /\ Len(v) \in Nat /\ Len(w) \in Nat /\ Len(q) \in Nat
      /\ \A i \in 1..l : Cat(z, w)[i] = z[i] /\ Cat(z, q)[i] = z[i]
    BY CatIndex
<1>3. m + 1 \in 1..l /\ Len(y) # 0 /\ Len(v) # 0
  <2> DEFINE i == Len(y)
             j == Len(v)
             k == Len(w)
             n == Len(q)
  <2>1. m + i = l + k /\ m + j = l + n /\ i \in Nat /\ j \in Nat /\ k \in Nat /\ n \in Nat
      BY <1>2
  <2> HIDE DEF l, m, i, j, k, n
  <2>2. m + 1 \in 1..l /\ i # 0 /\ j # 0
      BY <1>1, <1>2, <2>1
  <2> QED BY <2>2 DEF i, j
<1>4. y # << >> /\ v # << >>
    BY <1>3, IsSeqEmpty
<1>5. Cat(x, y)[m + 1] = y[1] /\ Cat(x, v)[m + 1] = v[1]
    BY <1>4, AfterCat
<1> QED BY <1>2, <1>3, <1>4, <1>5

\* Where a delete ends is where the first byte that is kept was.
LEMMA SameDelete ==
    ASSUME NEW x, NEW y, NEW z, NEW w, NEW e,
           IsSeq(x), IsSeq(y), IsSeq(z), IsSeq(w), Cat(x, y) = Cat(z, w),
           NEW B, Marked(Cat(x, y), B),
           (y = << >> /\ e = << >>) \/ (y # << >> /\ e # << >> /\ e[1] = y[1]),
           (w = << >> /\ e = << >>) \/ (w # << >> /\ e # << >> /\ e[1] = w[1])
    PROVE  Len(x) = Len(z)
<1>1. CASE e = << >>
  <2>1. y = << >> /\ w = << >>
      BY <1>1
  <2> QED BY <2>1, CatUnit
<1>2. CASE e # << >>
  <2>1. y # << >> /\ w # << >> /\ y[1] = w[1]
      BY <1>2
  <2>2. /\ Len(x) + 1 \in 1..Len(Cat(x, y)) /\ Cat(x, y)[Len(x) + 1] = y[1]
        /\ Len(z) + 1 \in 1..Len(Cat(z, w)) /\ Cat(z, w)[Len(z) + 1] = w[1]
        /\ Len(x) \in Nat /\ Len(z) \in Nat
      BY <2>1, AfterCat
  <2>3. Len(x) + 1 = Len(z) + 1
      BY <2>1, <2>2 DEF Marked
  <2> QED BY <2>2, <2>3
<1> QED BY <1>1, <1>2

\* Two components of one kind and one content.
LEMMA SameComp ==
    ASSUME NEW a, NEW b, CompOK(a), CompOK(b), a.kind = b.kind,
           a.kind = "insert" => a.s = b.s, a.kind # "insert" => a.n = b.n
    PROVE  a = b
BY CompCases

\* What two operations have left to do once each has done its first component.
Ahead(a, b, y, v, B) == Does(Tail(a), y, v) /\ Does(Tail(b), y, v) /\ Marked(y, B)

\* The first components are the same, and what follows them does the same.
LEMMA SameHead ==
    ASSUME NEW B, NEW a, NEW b, Proper(a, Seq(B)), Proper(b, Seq(B)), a # << >>, b # << >>,
           NEW d, NEW e, Marked(d, B), Does(a, d, e), Does(b, d, e)
    PROVE  Head(a) = Head(b) /\ \E y, v : Ahead(a, b, y, v, B)
<1>1. /\ Head(a).kind = Head(b).kind /\ Head(a).kind \in {"insert", "retain", "delete"}
      /\ CompOK(Head(a)) /\ CompOK(Head(b))
  <2>1. CompOK(Head(a)) /\ CompOK(Head(b))
      BY ProperHead
  <2>2. Head(a).kind = FirstKind(d, e, B) /\ Head(b).kind = FirstKind(d, e, B)
      BY HeadKind
  <2>3. FirstKind(d, e, B) \in {"insert", "retain", "delete"}
      BY DEF FirstKind
  <2> QED BY <2>1, <2>2, <2>3
<1>2. CASE Head(a).kind = "insert"
  <2>1. PICK v : /\ Does(Tail(a), d, v) /\ IsSeq(v) /\ e = Cat(Head(a).s, v)
                 /\ IsSeq(Head(a).s) /\ Head(a).s \in Seq(B)
                 /\ v = << >> \/ v[1] \notin B
      BY <1>2, AfterInsert
  <2>2. PICK w : /\ Does(Tail(b), d, w) /\ IsSeq(w) /\ e = Cat(Head(b).s, w)
                 /\ IsSeq(Head(b).s) /\ Head(b).s \in Seq(B)
                 /\ w = << >> \/ w[1] \notin B
      BY <1>1, <1>2, AfterInsert
  <2> DEFINE s == Head(a).s
             t == Head(b).s
  <2>3. Len(s) <= Len(t) /\ Len(t) <= Len(s) /\ Len(s) \in Nat /\ Len(t) \in Nat
    <3> HIDE DEF s, t
    <3>1. Len(s) <= Len(t)
        BY <2>1, <2>2, SameInsert DEF s, t
    <3>2. Len(t) <= Len(s)
        BY <2>1, <2>2, SameInsert DEF s, t
    <3> QED BY <2>1, <2>2, <3>1, <3>2, IsSeqLen DEF s, t
  <2>4. Len(s) = Len(t)
      BY <2>3
  <2>5. s = t /\ v = w
    <3>1. IsSeq(s) /\ IsSeq(t) /\ Cat(s, v) = Cat(t, w)
        BY <2>1, <2>2
    <3> HIDE DEF s, t
    <3> QED BY <2>1, <2>2, <2>4, <3>1, CatCancel
  <2>6. Ahead(a, b, d, v, B)
      BY <2>1, <2>2, <2>5 DEF Ahead
  <2> QED BY <1>1, <1>2, <2>5, <2>6, SameComp
<1>3. CASE Head(a).kind = "retain"
  <2>1. PICK x, y, v : /\ Does(Tail(a), y, v) /\ IsSeq(x) /\ IsSeq(y) /\ IsSeq(v)
                       /\ d = Cat(x, y) /\ e = Cat(x, v) /\ Len(x) = Head(a).n
                       /\ Marked(y, B) /\ ~(y # << >> /\ v # << >> /\ v[1] = y[1])
      BY <1>3, AfterRetain
  <2>2. PICK z, w, q : /\ Does(Tail(b), w, q) /\ IsSeq(z) /\ IsSeq(w) /\ IsSeq(q)
                       /\ d = Cat(z, w) /\ e = Cat(z, q) /\ Len(z) = Head(b).n
                       /\ Marked(w, B) /\ ~(w # << >> /\ q # << >> /\ q[1] = w[1])
      BY <1>1, <1>3, AfterRetain
  <2>3. Len(z) <= Len(x) /\ Len(x) <= Len(z) /\ Len(x) \in Nat /\ Len(z) \in Nat
    <3>1. Len(z) <= Len(x)
        BY <2>1, <2>2, SameRetain
    <3>2. Len(x) <= Len(z)
        BY <2>1, <2>2, SameRetain
    <3> QED BY <2>1, <2>2, <3>1, <3>2, IsSeqLen
  <2>4. Len(x) = Len(z)
      BY <2>3
  <2>5. y = w /\ v = q
    <3>1. /\ IsSeq(x) /\ IsSeq(y) /\ IsSeq(v) /\ IsSeq(z) /\ IsSeq(w) /\ IsSeq(q)
          /\ Cat(x, y) = Cat(z, w) /\ Cat(x, v) = Cat(z, q)
        BY <2>1, <2>2
    <3>2. y = w
        BY ONLY <2>4, <3>1, CatCancel
    <3>3. v = q
        BY ONLY <2>4, <3>1, CatCancel
    <3> QED BY <3>2, <3>3
  <2>6. Ahead(a, b, y, v, B)
      BY <2>1, <2>2, <2>5 DEF Ahead
  <2> QED BY <1>1, <1>3, <2>1, <2>2, <2>4, <2>6, SameComp
<1>4. CASE Head(a).kind = "delete"
  <2>1. PICK x, y : /\ Does(Tail(a), y, e) /\ IsSeq(x) /\ IsSeq(y)
                    /\ d = Cat(x, y) /\ Len(x) = Head(a).n /\ Marked(y, B)
                    /\ (y = << >> /\ e = << >>) \/ (y # << >> /\ e # << >> /\ e[1] = y[1])
      BY <1>4, AfterDelete
  <2>2. PICK z, w : /\ Does(Tail(b), w, e) /\ IsSeq(z) /\ IsSeq(w)
                    /\ d = Cat(z, w) /\ Len(z) = Head(b).n /\ Marked(w, B)
                    /\ (w = << >> /\ e = << >>) \/ (w # << >> /\ e # << >> /\ e[1] = w[1])
      BY <1>1, <1>4, AfterDelete
  <2>3. Len(x) = Len(z)
      BY <2>1, <2>2, SameDelete
  <2>4. y = w
      BY <2>1, <2>2, <2>3, CatCancel
  <2>5. Ahead(a, b, y, e, B)
      BY <2>1, <2>2, <2>4 DEF Ahead
  <2> QED BY <1>1, <1>4, <2>1, <2>2, <2>3, <2>5, SameComp
<1> QED BY <1>1, <1>2, <1>3, <1>4

(***************************************************************************)
(* Two operations in canonical form that do the same to a document whose   *)
(* bytes differ from one another and from what is inserted are the same.   *)
(***************************************************************************)
THEOREM SameEffectSameOperation ==
    ASSUME NEW B, NEW a, NEW b, Proper(a, Seq(B)), Proper(b, Seq(B)),
           NEW d, NEW e, Marked(d, B), Does(a, d, e), Does(b, d, e)
    PROVE  a = b
<1> DEFINE N == Len(a)
           Same(n) == \A x, y, u, w : Proper(x, Seq(B)) /\ Proper(y, Seq(B)) /\ Marked(u, B)
                          /\ Does(x, u, w) /\ Does(y, u, w) /\ Len(x) = n => x = y
           S == {n \in 0..N : Same(n)}
<1>1. N \in Nat
    BY OpIndex DEF Does
<1>2. 0 \in S
  <2>1. ASSUME NEW x, NEW y, NEW u, NEW w, Proper(x, Seq(B)), Proper(y, Seq(B)), Marked(u, B),
               Does(x, u, w), Does(y, u, w), Len(x) = 0
        PROVE  x = y
    <3>1. x = << >>
        BY <2>1, OpIndex, IsSeqNone DEF Does
    <3>2. u = << >> /\ w = << >>
        BY <2>1, <3>1, NoneDoes
    <3>3. y = << >>
        BY <2>1, <3>2, NothingDone
    <3> QED BY <3>1, <3>3
  <2> QED BY <1>1, <2>1
<1>3. ASSUME NEW n \in 0..(N - 1), n \in S PROVE n + 1 \in S
  <2>1. ASSUME NEW x, NEW y, NEW u, NEW w, Proper(x, Seq(B)), Proper(y, Seq(B)), Marked(u, B),
               Does(x, u, w), Does(y, u, w), Len(x) = n + 1
        PROVE  x = y
    <3>1. x # << >>
      <4>1. n + 1 # 0
          BY <1>1
      <4> QED BY <2>1, <4>1, IsSeqEmpty
    <3>2. y # << >>
      <4>1. SUFFICES ASSUME y = << >> PROVE FALSE
          OBVIOUS
      <4>2. u = << >> /\ w = << >>
          BY <2>1, <4>1, NoneDoes
      <4> QED BY <2>1, <3>1, <4>2, NothingDone
    <3>3. Head(x) = Head(y) /\ \E k, l : Ahead(x, y, k, l, B)
        BY <2>1, <3>1, <3>2, SameHead
    <3>4. PICK k, l : Ahead(x, y, k, l, B)
        BY <3>3
    <3> DEFINE s == Tail(x)
               t == Tail(y)
    <3>5. Does(s, k, l) /\ Does(t, k, l) /\ Marked(k, B)
        BY <3>4 DEF Ahead
    <3>6. /\ Proper(s, Seq(B)) /\ Proper(t, Seq(B))
          /\ x = Cat(One(Head(x)), s) /\ y = Cat(One(Head(y)), t)
        BY <2>1, <3>1, <3>2, ProperHead
    <3>7. Len(s) = n
      <4>1. Len(x) = 1 + Len(s) /\ Len(s) \in Nat
          BY <2>1, <3>1, OpHead DEF Does
      <4> HIDE DEF s
      <4> QED BY <1>1, <2>1, <4>1
    <3> HIDE DEF s, t
    <3>8. s = t
        BY <1>3, <3>5, <3>6, <3>7
    <3> QED BY <3>3, <3>6, <3>8
  <2>2. n + 1 \in 0..N
      BY <1>1
  <2> QED BY <2>1, <2>2
<1>4. N \in S
  <2> HIDE DEF S, N
  <2>1. 0..N \subseteq S
      BY <1>1, <1>2, <1>3, BoundedInduction
  <2> QED BY <1>1, <2>1
<1>5. Same(N)
    BY <1>4
<1> QED BY <1>5

---------------------------------------------------------------------------
(* Encoding and decoding.                                                  *)

\* A component on the wire.
Coded(c) == CASE c.kind = "retain" -> [num |-> c.n]
              [] c.kind = "delete" -> [num |-> -c.n]
              [] c.kind = "insert" -> [str |-> c.s]

LEMMA EncodeIndex ==
    ASSUME NEW o, OpOK(o)
    PROVE  /\ Len(Encode(o)) = Len(o) /\ DOMAIN Encode(o) = 1..Len(o) /\ Len(o) \in Nat
           /\ \A k \in 1..Len(o) : Encode(o)[k] = Coded(o[k])
<1> DEFINE r == Encode(o)
           S == {Coded(o[k]) : k \in 1..Len(o)}
<1>1. Len(o) \in Nat /\ DOMAIN o = 1..Len(o)
    BY OpIndex
<1>2. r = [k \in 1..Len(o) |-> Coded(o[k])]
    BY <1>1 DEF Encode, Coded
<1> HIDE DEF r
<1>3. r \in [1..Len(o) -> S]
    BY <1>2
<1>4. r \in Seq(S) /\ Len(r) = Len(o)
  <2> HIDE DEF S
  <2> QED BY <1>1, <1>3
<1>5. DOMAIN r = 1..Len(o) /\ \A k \in 1..Len(o) : r[k] = Coded(o[k])
    BY <1>2
<1> QED BY <1>1, <1>4, <1>5 DEF r

\* The loop of Decode, as the function its definition describes.
Decoding(raw, run) ==
    /\ run[0] = New
    /\ \A k \in 1..Len(raw) : run[k] = DecodeStep(run[k - 1], raw[k])
    /\ Decode(raw) = run[Len(raw)]

LEMMA DecodeUnfold ==
    ASSUME NEW raw, Len(raw) \in Nat
    PROVE  \E run : Decoding(raw, run)
<1> DEFINE N == Len(raw)
           Step(before, k) == DecodeStep(before, raw[k])
           Loop(f, n) == f = [k \in 0..n |-> IF k = 0 THEN New ELSE Step(f[k - 1], k)]
           S == {n \in 0..N : \E f : Loop(f, n)}
           run == CHOOSE f : Loop(f, N)
<1>1. N \in Nat
    OBVIOUS
<1>2. Decode(raw) = run[N]
    BY DEF Decode
<1> HIDE DEF N, Step
<1>3. 0 \in S
  <2>1. Loop([k \in 0..0 |-> New], 0)
      OBVIOUS
  <2> HIDE DEF Loop
  <2> QED BY <1>1, <2>1
<1>4. ASSUME NEW n \in 0..(N - 1), n \in S PROVE n + 1 \in S
  <2>1. PICK f : Loop(f, n)
      BY <1>4
  <2> DEFINE g == [k \in 0..(n + 1) |-> IF k <= n THEN f[k] ELSE Step(f[n], n + 1)]
  <2>2. Loop(g, n + 1)
      BY <1>1, <2>1
  <2> HIDE DEF Loop
  <2> QED BY <1>1, <2>2
<1>5. N \in S
  <2> HIDE DEF S
  <2> QED BY <1>1, <1>3, <1>4, BoundedInduction, SMTT(30)
<1>6. Loop(run, N)
    BY <1>5
<1> HIDE DEF run
<1>7. run[0] = New /\ \A k \in 1..N : run[k] = Step(run[k - 1], k)
    BY <1>1, <1>6
<1>8. Decoding(raw, run)
    BY <1>2, <1>7 DEF Decoding, N, Step
<1> QED BY <1>8

\* A beginning of an operation.
LEMMA Beginning ==
    ASSUME NEW o, OpOK(o), NEW k \in 1..Len(o)
    PROVE  /\ IsSeq(SubSeq(o, 1, k - 1)) /\ Len(SubSeq(o, 1, k - 1)) = k - 1
           /\ k > 1 => Last(SubSeq(o, 1, k - 1)) = o[k - 1]
           /\ Append(SubSeq(o, 1, k - 1), o[k]) = SubSeq(o, 1, k)
<1> DEFINE p == SubSeq(o, 1, k - 1)
           q == SubSeq(o, 1, k)
<1>1. IsSeq(o) /\ Len(o) \in Nat
    BY OpIndex
<1>2. /\ k - 1 \in (1 - 1)..Len(o) /\ k \in (1 - 1)..Len(o) /\ 1 \in Nat \ {0}
      /\ (k - 1) - 1 + 1 = k - 1 /\ k - 1 + 1 = k /\ k - 1 \in Nat
    BY <1>1
<1>3. /\ IsSeq(p) /\ Len(p) = k - 1 /\ \A i \in 1..(k - 1) : p[i] = o[1 + i - 1]
      /\ IsSeq(q) /\ Len(q) = k /\ \A i \in 1..k : q[i] = o[1 + i - 1]
    BY <1>1, <1>2, SegmentOK
<1> HIDE DEF p, q
<1>4. ASSUME k > 1 PROVE Last(p) = o[k - 1]
  <2>1. k - 1 \in 1..(k - 1) /\ 1 + (k - 1) - 1 = k - 1
      BY <1>4
  <2> QED BY <1>3, <2>1 DEF Last
<1>5. Append(p, o[k]) = q
  <2>1. /\ IsSeq(Append(p, o[k])) /\ Len(Append(p, o[k])) = k
        /\ \A i \in 1..k : Append(p, o[k])[i] = IF i <= k - 1 THEN p[i] ELSE o[k]
      BY <1>2, <1>3, IsSeqAppend
  <2>2. \A i \in 1..k : Append(p, o[k])[i] = q[i]
    <3>1. ASSUME NEW i \in 1..k PROVE Append(p, o[k])[i] = q[i]
      <4>1. q[i] = o[i]
        <5>1. 1 + i - 1 = i
            OBVIOUS
        <5> QED BY <1>3, <5>1
      <4>2. CASE i <= k - 1
        <5>1. i \in 1..(k - 1) /\ 1 + i - 1 = i
            BY <4>2
        <5> QED BY <1>3, <2>1, <4>1, <4>2, <5>1
      <4>3. CASE ~(i <= k - 1)
        <5>1. i = k
            BY <4>3
        <5> QED BY <2>1, <4>1, <4>3, <5>1
      <4> QED BY <4>2, <4>3
    <3> QED BY <3>1
  <2> QED BY <1>3, <2>1, <2>2, IsSeqEqual
<1> QED BY <1>3, <1>4, <1>5 DEF p, q

\* Decoding appends each component as it is: none of them can be merged or moved.
LEMMA DecodeNext ==
    ASSUME NEW o, NEW W, Proper(o, W), NEW k \in 1..Len(o)
    PROVE  DecodeStep(SubSeq(o, 1, k - 1), Coded(o[k])) = SubSeq(o, 1, k)
<1> DEFINE p == SubSeq(o, 1, k - 1)
           c == o[k]
<1>1. OpOK(o) /\ CompOK(c) /\ Len(o) \in Nat
    BY OpIndex DEF Proper
<1>2. /\ IsSeq(p) /\ Len(p) = k - 1 /\ (k > 1 => Last(p) = o[k - 1])
      /\ Append(p, c) = SubSeq(o, 1, k)
    BY <1>1, Beginning
<1>3. ASSUME NEW kind, EndsWith(p, kind)
      PROVE  kind # c.kind /\ (c.kind = "insert" => kind # "delete")
  <2>1. p # << >> /\ Last(p).kind = kind
      BY <1>3 DEF EndsWith
  <2>2. Len(p) # 0
      BY <1>2, <2>1, IsSeqNone
  <2>3. k > 1 /\ k - 1 \in 1..(Len(o) - 1) /\ (k - 1) + 1 = k
    <3> HIDE DEF p
    <3> QED BY <1>1, <1>2, <2>2
  <2>4. Fits(o[k - 1], o[k])
      BY <2>3 DEF Proper
  <2> QED BY <1>2, <2>1, <2>3, <2>4 DEF Fits
<1> HIDE DEF p, c
<1>4. CASE c.kind = "retain"
  <2>1. c.n \in Nat \ {0} /\ c = RetainComp(c.n)
      BY <1>1, <1>4, CompCases
  <2>2. Coded(c) = [num |-> c.n]
      BY <1>4 DEF Coded
  <2>3. ~IsStr(Coded(c)) /\ Coded(c).num = c.n
      BY <2>2 DEF IsStr
  <2>4. DecodeStep(p, Coded(c)) = Retain(p, c.n)
      BY <2>1, <2>3 DEF DecodeStep
  <2>5. ~EndsWith(p, "retain")
      BY <1>3, <1>4
  <2>6. Retain(p, c.n) = Append(p, c)
      BY <2>1, <2>5 DEF Retain
  <2> QED BY <1>2, <2>4, <2>6 DEF p, c
<1>5. CASE c.kind = "delete"
  <2>1. c.n \in Nat \ {0} /\ c = DeleteComp(c.n)
      BY <1>1, <1>5, CompCases
  <2>2. Coded(c) = [num |-> -c.n]
      BY <1>5 DEF Coded
  <2>3. ~IsStr(Coded(c)) /\ Coded(c).num = -c.n
      BY <2>2 DEF IsStr
  <2>4. DecodeStep(p, Coded(c)) = Delete(p, c.n)
    <3>1. DecodeStep(p, Coded(c)) = IF -c.n > 0 THEN Retain(p, -c.n) ELSE Delete(p, -(-c.n))
        BY <2>3 DEF DecodeStep
    <3>2. ~(-c.n > 0) /\ -(-c.n) = c.n
        BY <2>1
    <3> QED BY <3>1, <3>2
  <2>5. ~EndsWith(p, "delete")
      BY <1>3, <1>5
  <2>6. Delete(p, c.n) = Append(p, c)
      BY <2>1, <2>5 DEF Delete
  <2> QED BY <1>2, <2>4, <2>6 DEF p, c
<1>6. CASE c.kind = "insert"
  <2>1. c.s # << >> /\ c = InsertComp(c.s)
      BY <1>1, <1>6, CompCases
  <2>2. Coded(c) = [str |-> c.s]
      BY <1>6 DEF Coded
  <2>3. IsStr(Coded(c)) /\ Coded(c).str = c.s
      BY <2>2 DEF IsStr
  <2>4. DecodeStep(p, Coded(c)) = Insert(p, c.s)
      BY <2>3 DEF DecodeStep
  <2>5. ~EndsWith(p, "insert") /\ ~EndsWith(p, "delete")
      BY <1>3, <1>6
  <2>6. Insert(p, c.s) = Append(p, c)
      BY <2>1, <2>5 DEF Insert
  <2> QED BY <1>2, <2>4, <2>6 DEF p, c
<1>7. c.kind \in {"retain", "delete", "insert"}
    BY <1>1, CompCases
<1> QED BY <1>4, <1>5, <1>6, <1>7

\* The receiver of an encoded operation decodes the same one.
LEMMA DecodesToSame ==
    ASSUME NEW o, Proper(o, Insertable)
    PROVE  Decodes(Encode(o)) /\ Decode(Encode(o)) = o
<1> DEFINE raw == Encode(o)
           N == Len(o)
<1>1. OpOK(o) /\ IsSeq(o)
    BY OpIndex DEF Proper
<1>2. /\ Len(raw) = N /\ DOMAIN raw = 1..N /\ N \in Nat
      /\ \A k \in 1..N : raw[k] = Coded(o[k])
    BY <1>1, EncodeIndex
<1>3. Decodes(raw)
  <2>1. ASSUME NEW k \in 1..N
        PROVE  IF IsStr(raw[k]) THEN ValidUTF8(raw[k].str) ELSE raw[k].num # 0
    <3> DEFINE c == o[k]
    <3>1. raw[k] = Coded(c) /\ CompOK(c) /\ (c.kind = "insert" => ValidUTF8(c.s))
        BY <1>1, <1>2, OpIndex DEF Proper, Inserts, Insertable
    <3> HIDE DEF c
    <3>2. CASE c.kind = "retain"
      <4>1. raw[k] = [num |-> c.n] /\ c.n \in Nat \ {0}
          BY <3>1, <3>2, CompCases DEF Coded
      <4> QED BY <4>1 DEF IsStr
    <3>3. CASE c.kind = "delete"
      <4>1. raw[k] = [num |-> -c.n] /\ c.n \in Nat \ {0}
          BY <3>1, <3>3, CompCases DEF Coded
      <4> QED BY <4>1 DEF IsStr
    <3>4. CASE c.kind = "insert"
      <4>1. raw[k] = [str |-> c.s]
          BY <3>1, <3>4 DEF Coded
      <4> QED BY <3>1, <3>4, <4>1 DEF IsStr
    <3>5. c.kind \in {"retain", "delete", "insert"}
        BY <3>1, CompCases
    <3> QED BY <3>2, <3>3, <3>4, <3>5
  <2> QED BY <1>2, <2>1 DEF Decodes
<1> HIDE DEF raw
<1>4. PICK run : Decoding(raw, run)
    BY <1>2, DecodeUnfold
<1> DEFINE S == {n \in 0..N : run[n] = SubSeq(o, 1, n)}
<1>5. 0 \in S
  <2>1. 0 \in (1 - 1)..N /\ 0 - 1 + 1 = 0 /\ 1 \in Nat \ {0} /\ 0 \in 0..N
      BY <1>2
  <2>2. IsSeq(SubSeq(o, 1, 0)) /\ Len(SubSeq(o, 1, 0)) = 0
      BY <1>1, <2>1, SegmentOK
  <2>3. SubSeq(o, 1, 0) = << >>
      BY <2>2, IsSeqNone
  <2> QED BY <1>4, <2>1, <2>3 DEF Decoding, New
<1>6. ASSUME NEW n \in 0..(N - 1), n \in S PROVE n + 1 \in S
  <2> DEFINE k == n + 1
  <2>1. k \in 1..N /\ k \in 0..N /\ k - 1 = n
      BY <1>2
  <2> HIDE DEF k
  <2>2. run[k] = DecodeStep(run[n], Coded(o[k]))
      BY <1>2, <1>4, <2>1 DEF Decoding
  <2>3. run[k] = SubSeq(o, 1, k)
      BY <1>6, <2>1, <2>2, DecodeNext
  <2> QED BY <2>1, <2>3 DEF k
<1>7. 0..N \subseteq S
  <2> HIDE DEF S, N
  <2> QED BY <1>2, <1>5, <1>6, BoundedInduction
<1>8. run[N] = o
    BY <1>1, <1>2, <1>7, SegmentAll
<1>9. Decode(raw) = o
    BY <1>2, <1>4, <1>8 DEF Decoding
<1> QED BY <1>3, <1>9 DEF raw

\* What an operation does to bytes that can be told apart.
LEMMA TagsMarked ==
    ASSUME doc \in Docs
    PROVE  LET d == Tags(Len(doc))
           IN  /\ IsSeq(d) /\ Len(d) = Len(doc) /\ Marked(d, Alphabet) /\ ValidUTF8(d)
               /\ \A i \in 0..Len(d) : IsBoundary(d, i)
               /\ \A i \in 1..Len(d) : d[i] = Tag(i)
<1> DEFINE n == Len(doc)
           d == Tags(n)
<1>1. n \in Nat /\ d = [i \in 1..n |-> Tag(i)]
    BY DocText DEF Tags
<1>2. /\ \A i \in 1..n : Tag(i) \notin Lead \cup Cont
      /\ \A i \in 1..n : \A s \in Strings : Tag(i) \notin Range(s)
    BY OTLawsAssumption
<1> HIDE DEF n, d
<1>3. IsSeq(d) /\ Len(d) = n
  <2> DEFINE S == {Tag(i) : i \in 1..n}
  <2>1. d \in [1..n -> S]
      BY <1>1
  <2> HIDE DEF S
  <2>2. d \in Seq(S) /\ Len(d) = n
      BY <1>1, <2>1
  <2> QED BY <2>2, IsSeqIntro
<1>4. \A i \in 1..n : d[i] = Tag(i)
    BY <1>1
<1>5. \A i, j \in 1..n : d[i] = d[j] => i = j
    BY <1>4 DEF Tag
<1>6. \A i \in 1..n : d[i] \notin Alphabet
    BY <1>2, <1>4 DEF Alphabet
<1>7. Marked(d, Alphabet)
    BY <1>3, <1>5, <1>6 DEF Marked
<1>8. \A i \in 1..n : d[i] \notin Lead /\ d[i] \notin Cont
    BY <1>2, <1>4
<1>9. ValidUTF8(d)
  <2>1. ASSUME NEW i \in 0..Len(d)
        PROVE  ~(i < Len(d) /\ d[i + 1] \in Cont) /\ ~(i > 0 /\ d[i] \in Lead)
    <3>1. (i < Len(d) => i + 1 \in 1..n) /\ (i > 0 => i \in 1..n)
        BY <1>1, <1>3
    <3> QED BY <1>8, <3>1
  <2> QED BY <2>1 DEF ValidUTF8
<1>10. ASSUME NEW i \in 0..Len(d) PROVE IsBoundary(d, i)
  <2>1. i < Len(d) => i + 1 \in 1..n
      BY <1>1, <1>3
  <2> QED BY <1>8, <2>1 DEF IsBoundary, RuneStart
<1> QED BY <1>3, <1>4, <1>7, <1>9, <1>10 DEF d, n

LEMMA EffectDoes ==
    ASSUME doc \in Docs, NEW o, Proper(o, Insertable), BaseLen(o) = Len(doc)
    PROVE  Does(o, Tags(Len(doc)), Effect(o))
<1> DEFINE d == Tags(Len(doc))
<1>1. /\ IsSeq(d) /\ Len(d) = Len(doc) /\ ValidUTF8(d)
      /\ \A i \in 0..Len(d) : IsBoundary(d, i)
    BY TagsMarked
<1>2. Effect(o) = Apply(o, d)
    BY DEF Effect
<1> HIDE DEF d
<1>3. OpOK(o) /\ DOMAIN o = 1..Len(o) /\ Len(o) \in Nat
      /\ \A k \in DOMAIN o : o[k].kind = "insert" => ValidUTF8(o[k].s)
    BY ProperTexts, OpIndex
<1>4. Whole(o, d)
  <2>1. ASSUME NEW k \in 0..Len(o) PROVE IsBoundary(d, BaseAt(o)[k])
    <3>1. BaseAt(o)[k] \in Nat /\ BaseAt(o)[k] <= BaseAt(o)[Len(o)]
        BY <1>3, LengthNat DEF BaseAt
    <3>2. BaseAt(o)[Len(o)] = Len(d) /\ Len(d) \in Nat
        BY <1>1, IsSeqLen DEF BaseLen
    <3>3. BaseAt(o)[k] \in 0..Len(d)
        BY <3>1, <3>2
    <3> QED BY <1>1, <3>3
  <2> QED BY <1>1, <1>3, <2>1 DEF Whole
<1> QED BY <1>1, <1>2, <1>3, <1>4, DoesSome DEF d

LEMMA EqualEffectHolds == ASSUME BuiltInv PROVE EqualEffectEqualEncoding
<1> DEFINE a == op["a"]
           b == op["b"]
<1>1. doc \in Docs /\ Proper(a, Insertable) /\ Proper(b, Insertable)
    BY DEF BuiltInv, Callers
<1>2. ASSUME Complete("a", doc), Complete("b", doc), Effect(a) = Effect(b)
      PROVE  a = b
  <2>1. BaseLen(a) = Len(doc) /\ BaseLen(b) = Len(doc)
      BY <1>2 DEF Complete
  <2> HIDE DEF a, b
  <2>2. Does(a, Tags(Len(doc)), Effect(a)) /\ Does(b, Tags(Len(doc)), Effect(a))
      BY <1>1, <1>2, <2>1, EffectDoes
  <2>3. Marked(Tags(Len(doc)), Alphabet)
      BY <1>1, TagsMarked
  <2>4. Proper(a, Seq(Alphabet)) /\ Proper(b, Seq(Alphabet))
      BY <1>1, ProperBytes
  <2> QED BY <2>2, <2>3, <2>4, SameEffectSameOperation
<1>3. ASSUME NEW p \in Callers PROVE Decodes(Encode(op[p])) /\ Decode(Encode(op[p])) = op[p]
  <2>1. Proper(op[p], Insertable)
      BY DEF BuiltInv
  <2> QED BY <2>1, DecodesToSame
<1> QED BY <1>2, <1>3 DEF EqualEffectEqualEncoding

\* Operations that do the same are the same components in whatever order the
\* builder was called (op.go, the comment on Insert), and the receiver of an
\* encoded operation decodes the same one.
THEOREM EqualEffectsEncodeAlike == Spec => []EqualEffectEqualEncoding
BY EqualEffectHolds, Built, PTL

---------------------------------------------------------------------------
(* Where both insert at the start, the text of the first comes first.      *)

\* o inserts s and then keeps at least n bytes.
Leads(o, s, n) ==
    /\ 1 \in DOMAIN o /\ 2 \in DOMAIN o
    /\ o[1] = InsertComp(s)
    /\ o[2].kind = "retain" /\ n <= o[2].n

\* It still does when something is put behind it or changed behind it.
LEMMA LeadsCat ==
    ASSUME NEW o, IsSeq(o), NEW q, IsSeq(q), NEW s, NEW n, Leads(o, s, n)
    PROVE  Leads(Cat(o, q), s, n)
<1>1. 1 \in 1..Len(o) /\ 2 \in 1..Len(o)
    BY IsSeqLen DEF Leads
<1>2. /\ Len(Cat(o, q)) = Len(o) + Len(q) /\ Len(o) \in Nat /\ Len(q) \in Nat
      /\ \A i \in 1..Len(o) : Cat(o, q)[i] = o[i]
    BY CatIndex
<1>3. DOMAIN Cat(o, q) = 1..Len(Cat(o, q))
    BY CatOK, IsSeqLen
<1>4. 1 \in 1..Len(Cat(o, q)) /\ 2 \in 1..Len(Cat(o, q))
    BY <1>1, <1>2
<1> QED BY <1>1, <1>2, <1>3, <1>4 DEF Leads

Put(o, i, c) == [o EXCEPT ![i] = c]

LEMMA LeadsPut ==
    ASSUME NEW o, NEW s, NEW n, Leads(o, s, n), NEW i, i # 1, i # 2, NEW c
    PROVE  Leads(Put(o, i, c), s, n)
<1> DEFINE r == [o EXCEPT ![i] = c]
<1>1. DOMAIN r = DOMAIN o /\ r[1] = o[1] /\ r[2] = o[2]
    BY DEF Leads
<1> HIDE DEF r
<1>2. Leads(r, s, n)
    BY <1>1 DEF Leads
<1> QED BY <1>2 DEF r, Put

\* The last component of such an operation.
LEMMA LeadsLast ==
    ASSUME NEW o, OpOK(o), NEW s, NEW n, Leads(o, s, n)
    PROVE  /\ o # << >> /\ IsSeq(o) /\ Len(o) \in Nat /\ Len(o) >= 2 /\ Len(o) \in DOMAIN o
           /\ Last(o) = o[Len(o)] /\ CompOK(o[Len(o)]) /\ CompOK(o[2])
           /\ Last(o).kind # "retain" => Len(o) # 1 /\ Len(o) # 2
<1>1. IsSeq(o) /\ Len(o) \in Nat /\ DOMAIN o = 1..Len(o) /\ \A k \in 1..Len(o) : CompOK(o[k])
    BY OpIndex
<1>2. 1 \in 1..Len(o) /\ 2 \in 1..Len(o)
    BY <1>1 DEF Leads
<1>3. Len(o) >= 2 /\ Len(o) \in 1..Len(o)
    BY <1>1, <1>2
<1>4. o # << >>
    BY <1>2, IsSeqEmpty
<1>5. Last(o) = o[Len(o)]
    BY DEF Last
<1>6. Len(o) # 1
    BY <1>1, <1>3
<1>7. Last(o).kind # "retain" => Len(o) # 2
    BY <1>5 DEF Leads
<1> QED BY <1>1, <1>2, <1>3, <1>4, <1>5, <1>6, <1>7

LEMMA LeadsAppend ==
    ASSUME NEW o, OpOK(o), NEW s, NEW n, Leads(o, s, n), NEW c
    PROVE  Leads(Append(o, c), s, n)
<1>1. IsSeq(o) /\ IsSeq(One(c))
    BY LeadsLast, OneOK
<1>2. Append(o, c) = Cat(o, One(c))
    BY <1>1, IsSeqAppendOne DEF Cat, One
<1> QED BY <1>1, <1>2, LeadsCat

LEMMA LeadsRetain ==
    ASSUME NEW o, OpOK(o), NEW s, NEW n \in Nat, Leads(o, s, n), NEW m \in Nat \ {0}
    PROVE  Leads(Retain(o, m), s, n)
<1> DEFINE L == Len(o)
           c == [o[L] EXCEPT !.n = @ + m]
<1>1. L \in DOMAIN o /\ L # 1 /\ Last(o) = o[L] /\ CompOK(o[L])
  <2>1. L \in Nat /\ L >= 2 /\ L \in DOMAIN o /\ Last(o) = o[L] /\ CompOK(o[L])
      BY LeadsLast
  <2> HIDE DEF L
  <2> QED BY <2>1
<1>2. CASE EndsWith(o, "retain")
  <2>1. Retain(o, m) = [o EXCEPT ![L] = c]
      BY <1>2 DEF Retain
  <2>2. o[L].n \in Nat /\ c.kind = "retain" /\ c.n = o[L].n + m
    <3> DEFINE h == o[L]
    <3>1. h = RetainComp(h.n) /\ h.n \in Nat
        BY <1>1, <1>2, CompCases DEF EndsWith
    <3> HIDE DEF h
    <3>2. [h EXCEPT !.n = @ + m].kind = "retain" /\ [h EXCEPT !.n = @ + m].n = h.n + m
        BY <3>1 DEF RetainComp
    <3> QED BY <3>1, <3>2 DEF h
  <2> HIDE DEF c
  <2>3. CASE L # 2
    <3>1. Retain(o, m) = Put(o, L, c)
        BY <2>1 DEF Put
    <3> HIDE DEF L
    <3> QED BY <1>1, <2>3, <3>1, LeadsPut
  <2>4. CASE L = 2
    <3> DEFINE r == [o EXCEPT ![L] = c]
    <3>1. DOMAIN r = DOMAIN o /\ r[1] = o[1] /\ r[2] = c
        BY <1>1, <2>4 DEF Leads
    <3>2. n <= c.n
      <4>1. n <= o[L].n
          BY <2>4 DEF Leads
      <4> QED BY <2>2, <4>1
    <3> HIDE DEF r
    <3>3. Leads(r, s, n)
        BY <2>2, <3>1, <3>2 DEF Leads
    <3> QED BY <2>1, <3>3 DEF r
  <2> QED BY <2>3, <2>4
<1>3. CASE ~EndsWith(o, "retain")
  <2>1. Retain(o, m) = Append(o, RetainComp(m))
      BY <1>3 DEF Retain
  <2> QED BY <2>1, LeadsAppend
<1> QED BY <1>2, <1>3

LEMMA LeadsDelete ==
    ASSUME NEW o, OpOK(o), NEW s, NEW n, Leads(o, s, n), NEW m \in Nat \ {0}
    PROVE  Leads(Delete(o, m), s, n)
<1>1. CASE EndsWith(o, "delete")
  <2> DEFINE c == [o[Len(o)] EXCEPT !.n = @ + m]
             i == Len(o)
  <2>1. Delete(o, m) = Put(o, i, c)
    <3>1. (IF m < 0 THEN -m ELSE m) = m /\ m # 0
        OBVIOUS
    <3> QED BY <1>1, <3>1 DEF Delete, Put
  <2>2. i # 1 /\ i # 2
      BY <1>1, LeadsLast DEF EndsWith
  <2> HIDE DEF c, i
  <2> QED BY <2>1, <2>2, LeadsPut
<1>2. CASE ~EndsWith(o, "delete")
  <2>1. Delete(o, m) = Append(o, DeleteComp(m))
    <3>1. (IF m < 0 THEN -m ELSE m) = m /\ m # 0
        OBVIOUS
    <3> QED BY <1>2, <3>1 DEF Delete
  <2> QED BY <2>1, LeadsAppend
<1> QED BY <1>1, <1>2

LEMMA LeadsInsert ==
    ASSUME NEW o, OpOK(o), NEW s, NEW n, Leads(o, s, n), NEW w
    PROVE  Leads(Insert(o, w), s, n)
<1> DEFINE p == Front(o)
           l == Last(o)
<1>1. CASE w = << >>
    BY <1>1 DEF Insert
<1>2. CASE w # << >> /\ EndsWith(o, "insert")
  <2> DEFINE c == [o[Len(o)] EXCEPT !.s = @ \o w]
             i == Len(o)
  <2>1. Insert(o, w) = Put(o, i, c)
      BY <1>2 DEF Insert, Put
  <2>2. i # 1 /\ i # 2
      BY <1>2, LeadsLast DEF EndsWith
  <2> HIDE DEF c, i
  <2> QED BY <2>1, <2>2, LeadsPut
<1>3. CASE w # << >> /\ ~EndsWith(o, "insert") /\ ~EndsWith(o, "delete")
  <2>1. Insert(o, w) = Append(o, InsertComp(w))
      BY <1>3 DEF Insert
  <2> QED BY <2>1, LeadsAppend
<1>4. CASE w # << >> /\ ~EndsWith(o, "insert") /\ EndsWith(o, "delete")
  <2>1. /\ IsSeq(p) /\ o = Cat(p, One(l)) /\ Len(o) = Len(p) + 1 /\ Len(p) \in Nat
        /\ IsSeq(One(l)) /\ OpOK(p)
      BY LeadsLast, OpFront, OneOK
  <2>2. Len(o) # 1 /\ Len(o) # 2 /\ Len(o) >= 2 /\ Len(o) \in Nat
      BY <1>4, LeadsLast DEF EndsWith
  <2>3. Leads(p, s, n)
    <3> HIDE DEF p, l
    <3>1. 1 \in 1..Len(p) /\ 2 \in 1..Len(p)
        BY <2>1, <2>2
    <3>2. p[1] = o[1] /\ p[2] = o[2]
        BY <2>1, <3>1, CatIndex
    <3>3. DOMAIN p = 1..Len(p)
        BY <2>1, IsSeqLen
    <3> QED BY <3>1, <3>2, <3>3 DEF Leads
  <2>4. CASE EndsWith(p, "insert")
    <3> DEFINE i == Len(o) - 1
               c == [o[i] EXCEPT !.s = @ \o w]
    <3>1. Insert(o, w) = Put(o, i, c)
        BY <1>4, <2>4 DEF Insert, Put
    <3>2. Last(p).kind # "retain" /\ i = Len(p)
      <4> HIDE DEF p
      <4> QED BY <2>1, <2>4 DEF EndsWith
    <3>3. i # 1 /\ i # 2
      <4> HIDE DEF p, i
      <4> QED BY <2>1, <2>3, <3>2, LeadsLast
    <3> HIDE DEF c, i
    <3> QED BY <3>1, <3>3, LeadsPut
  <2>5. CASE ~EndsWith(p, "insert")
    <3> DEFINE c == InsertComp(w)
    <3>1. Insert(o, w) = p \o <<c, l>>
        BY <1>4, <2>5 DEF Insert
    <3>2. IsSeq(<<c, l>>)
      <4> HIDE DEF c, l
      <4>1. <<c, l>> = Cat(One(c), One(l))
          BY DEF Cat, One
      <4> QED BY <4>1, OneOK, CatOK
    <3> DEFINE q == <<c, l>>
    <3> HIDE DEF p, q
    <3> QED BY <2>1, <2>3, <3>1, <3>2, LeadsCat DEF Cat, q
  <2> QED BY <2>4, <2>5
<1> QED BY <1>1, <1>2, <1>3, <1>4

LEMMA LeadsKept ==
    ASSUME NEW old, OpOK(old), NEW new, NEW W, BuildsOn(old, new, W),
           NEW s, NEW n \in Nat, Leads(old, s, n)
    PROVE  Leads(new, s, n)
BY LeadsRetain, LeadsDelete, LeadsInsert DEF BuildsOn

\* Transform's first turn takes a's insert, the second keeps b's.
LEMMA TransformLeads ==
    ASSUME NEW a, NEW b, NEW d, NEW da, NEW db, Does(a, d, da), Does(b, d, db),
           NEW B, Proper(a, Seq(B)), Proper(b, Seq(B)),
           a # << >>, b # << >>, Head(a).kind = "insert", Head(b).kind = "insert"
    PROVE  Leads(Transform(a, b).a, Head(a).s, Len(Head(b).s))
<1> DEFINE s == Head(a).s
           n == Len(Head(b).s)
           N == Len(a) + Len(b)
<1>1. /\ OpOK(a) /\ OpOK(b) /\ IsSeq(a) /\ IsSeq(b)
      /\ CompOK(Head(a)) /\ CompOK(Head(b)) /\ IsSeq(s) /\ s # << >>
      /\ CompLen(Head(b)) = n /\ n \in Nat \ {0}
  <2>1. OpOK(a) /\ OpOK(b) /\ IsSeq(a) /\ IsSeq(b)
      BY OpIndex DEF Does
  <2>2. CompOK(Head(a)) /\ CompOK(Head(b))
      BY <2>1, OpHead
  <2>3. IsSeq(s) /\ s # << >>
      BY <2>2, CompCases
  <2>4. CompLen(Head(b)) = n /\ CompLen(Head(b)) \in Nat \ {0}
      BY <2>2, CompCases DEF CompLen
  <2> QED BY <2>1, <2>2, <2>3, <2>4
<1>2. PICK run : TransformRun(a, b, run)
    BY <1>1, TransformUnfold
<1>3. /\ N \in Nat /\ \A k \in 0..N : Rebasing(run[k], da, db)
      /\ \A k \in 0..N : Proper(run[k].ap, Seq(B))
      /\ \A k \in 0..(N - 1) : BuildsOn(run[k].ap, run[k + 1].ap, Seq(B))
    BY <1>2, TransformKeeps, TransformStates
<1>4. N >= 2
  <2>1. /\ Len(a) = 1 + Len(Tail(a)) /\ Len(Tail(a)) \in Nat
        /\ Len(b) = 1 + Len(Tail(b)) /\ Len(Tail(b)) \in Nat
      BY <1>1, OpHead
  <2> QED BY <2>1
<1>5. 0 \in 0..N /\ 1 \in 0..N /\ 1 \in 1..N /\ 2 \in 1..N /\ 2 \in 0..N /\ N \in 0..N
  <2> HIDE DEF N
  <2> QED BY <1>3, <1>4
<1>6. run[0].ia = a /\ run[0].ib = b /\ run[0].ap = << >>
    BY <1>2 DEF TransformRun, New
<1>7. Rebasing(run[0], da, db) /\ Rebasing(run[1], da, db)
    BY <1>3, <1>5
<1>8. run[1].ia = Tail(a) /\ run[1].ib = b /\ run[1].ap = Insert(<< >>, s)
  <2> DEFINE st == run[0]
             next == run[1]
  <2>1. DOMAIN st = {"ia", "ib", "ap", "bp", "ok"} /\ st.ok = TRUE
      BY <1>7 DEF Rebasing
  <2>2. next = IF st.ok /\ (Ok(st.ia) \/ Ok(st.ib)) THEN TransformStep(st) ELSE st
      BY <1>2, <1>5 DEF TransformRun
  <2>3. next = TransformStep(st) /\ Kind(st.ia) = "insert"
      BY <1>6, <2>1, <2>2 DEF Ok, Kind
  <2> HIDE DEF st, next
  <2>4. TransformCases(st, next, Common(st.ia, st.ib), Kind(st.ia), Kind(st.ib))
      BY <2>1, <2>3, TransformKinds
  <2>5. TransformsTo(next, Tail(st.ia), st.ib, Insert(st.ap, Head(st.ia).s),
                     Retain(st.bp, CompLen(Head(st.ia))))
      BY <2>3, <2>4 DEF TransformCases
  <2> QED BY <1>6, <2>5 DEF TransformsTo, st, next
<1>9. Kind(Tail(a)) # "insert"
    BY NextHead DEF Kind, Ok
<1>10. run[2].ap = Retain(Insert(<< >>, s), n)
  <2> DEFINE st == run[1]
             next == run[2]
  <2>1. DOMAIN st = {"ia", "ib", "ap", "bp", "ok"} /\ st.ok = TRUE
      BY <1>7 DEF Rebasing
  <2>2. next = IF st.ok /\ (Ok(st.ia) \/ Ok(st.ib)) THEN TransformStep(st) ELSE st
    <3>1. 2 - 1 = 1
        OBVIOUS
    <3> QED BY <1>2, <1>5, <3>1 DEF TransformRun
  <2>3. next = TransformStep(st) /\ Kind(st.ia) # "insert" /\ Kind(st.ib) = "insert"
      BY <1>8, <1>9, <2>1, <2>2 DEF Ok, Kind
  <2> HIDE DEF st, next
  <2>4. TransformCases(st, next, Common(st.ia, st.ib), Kind(st.ia), Kind(st.ib))
      BY <2>1, <2>3, TransformKinds
  <2>5. TransformsTo(next, st.ia, Tail(st.ib), Retain(st.ap, CompLen(Head(st.ib))),
                     Insert(st.bp, Head(st.ib).s))
      BY <2>3, <2>4 DEF TransformCases
  <2> QED BY <1>1, <1>8, <2>5 DEF TransformsTo, st, next
<1>11. Leads(run[2].ap, s, n)
  <2> DEFINE c == InsertComp(s)
             r == RetainComp(n)
  <2> HIDE DEF s, n
  <2>1. c.kind = "insert" /\ r.kind = "retain" /\ r.n = n
      BY DEF InsertComp, RetainComp
  <2>2. ~EndsWith(<< >>, "insert") /\ ~EndsWith(<< >>, "delete")
      BY DEF EndsWith
  <2>3. Insert(<< >>, s) = Append(<< >>, c)
      BY <1>1, <2>2 DEF Insert
  <2> HIDE DEF c, r
  <2>4. Append(<< >>, c) = One(c)
      BY IsSeqEmpty, IsSeqAppendOne, OneOK, CatUnit DEF Cat, One
  <2>5. IsSeq(One(c)) /\ Len(One(c)) = 1 /\ One(c)[1] = c /\ Last(One(c)) = c
      BY OneOK DEF Last
  <2>6. ~EndsWith(One(c), "retain")
      BY <2>1, <2>5 DEF EndsWith
  <2>7. Retain(One(c), n) = Append(One(c), r)
      BY <1>1, <2>6 DEF Retain, r
  <2>8. /\ Len(Append(One(c), r)) = 2 /\ DOMAIN Append(One(c), r) = 1..2
        /\ Append(One(c), r)[1] = c /\ Append(One(c), r)[2] = r
    <3> DEFINE x == One(c)
    <3> HIDE DEF x
    <3>1. IsSeq(x) /\ Len(x) = 1 /\ x[1] = c
        BY <2>5 DEF x
    <3>2. /\ IsSeq(Append(x, r)) /\ Len(Append(x, r)) = Len(x) + 1
          /\ \A i \in 1..(Len(x) + 1) :
                Append(x, r)[i] = IF i <= Len(x) THEN x[i] ELSE r
        BY <3>1, IsSeqAppend
    <3>3. Len(Append(x, r)) = 2 /\ Append(x, r)[1] = c /\ Append(x, r)[2] = r
        BY <3>1, <3>2
    <3>4. DOMAIN Append(x, r) = 1..2
        BY <3>2, <3>3, IsSeqLen
    <3> QED BY <3>3, <3>4 DEF x
  <2>9. run[2].ap = Append(One(c), r)
      BY <1>10, <2>3, <2>4, <2>7
  <2>10. 1 \in 1..2 /\ 2 \in 1..2 /\ n <= n
      BY <1>1
  <2> QED BY <2>1, <2>8, <2>9, <2>10 DEF Leads, c
<1>12. ASSUME NEW k \in 0..(N - 1), k >= 2, Leads(run[k].ap, s, n)
       PROVE  Leads(run[k + 1].ap, s, n)
  <2>1. k \in 0..N
      BY <1>3
  <2>2. OpOK(run[k].ap) /\ BuildsOn(run[k].ap, run[k + 1].ap, Seq(B))
      BY <1>3, <2>1 DEF Proper
  <2> HIDE DEF s, n
  <2> QED BY <1>1, <1>12, <2>2, LeadsKept
<1> DEFINE S == {k \in 0..N : k >= 2 => Leads(run[k].ap, s, n)}
<1> HIDE DEF s, n, N
<1>13. 0 \in S
    BY <1>5
<1>14. ASSUME NEW k \in 0..(N - 1), k \in S PROVE k + 1 \in S
  <2>1. k + 1 \in 0..N
      BY <1>3
  <2>2. CASE k >= 2
      BY <1>12, <1>14, <2>1, <2>2
  <2>3. CASE k + 1 = 2
      BY <1>11, <2>1, <2>3
  <2>4. CASE k + 1 < 2
      BY <2>1, <2>4
  <2> QED BY <1>3, <2>2, <2>3, <2>4
<1>15. N \in S
  <2> HIDE DEF S
  <2>1. 0..N \subseteq S
      BY <1>3, <1>13, <1>14, BoundedInduction
  <2> QED BY <1>5, <2>1
<1>16. Leads(run[N].ap, s, n)
    BY <1>4, <1>15
<1> DEFINE last == run[N]
<1>17. Transform(a, b) = [a |-> last.ap, b |-> last.bp, ok |-> last.ok]
    BY <1>2 DEF Transform, TransformRun, N
<1>18. Leads(last.ap, s, n)
    BY <1>16
<1> HIDE DEF last
<1>19. Transform(a, b).a = last.ap
    BY <1>17
<1> QED BY <1>18, <1>19 DEF s, n

\* What such an operation makes of a document that begins with a text of n bytes.
LEMMA LeadsText ==
    ASSUME NEW o, NEW e, NEW c, Does(o, e, c), NEW s, NEW t, NEW w, IsSeq(s), IsSeq(t), IsSeq(w),
           Leads(o, s, Len(t)), e = Cat(t, w)
    PROVE  \E v : IsSeq(v) /\ c = Cat(Cat(s, t), v)
<1>1. OpOK(o)
    BY DEF Does
<1>2. o # << >> /\ Len(o) >= 2 /\ IsSeq(o) /\ Len(o) \in Nat
    BY <1>1, LeadsLast
<1>3. Head(o) = InsertComp(s) /\ Head(o).kind = "insert" /\ Head(o).s = s
    BY DEF Leads, Head, InsertComp
<1>4. /\ IsSeq(Tail(o)) /\ Len(Tail(o)) = Len(o) - 1
      /\ \A i \in 1..Len(Tail(o)) : Tail(o)[i] = o[i + 1]
    BY <1>2, IsSeqTail
<1> DEFINE rest == Tail(o)
           h == Head(rest)
           n == h.n
<1>5. rest # << >> /\ h = o[2]
  <2> HIDE DEF rest
  <2>1. 1 \in 1..Len(rest) /\ 1 + 1 = 2
      BY <1>2, <1>4 DEF rest
  <2>2. rest[1] = o[2]
      BY <1>4, <2>1 DEF rest
  <2>3. rest # << >>
    <3>1. ASSUME NEW x, x = << >> PROVE 1..Len(x) = {}
        BY <3>1
    <3> QED BY <2>1, <3>1
  <2> QED BY <2>2, <2>3 DEF Head
<1>6. PICK u : Does(rest, e, u) /\ c = Cat(s, u)
    BY <1>2, <1>3, DoesHeadInsert
<1>7. h.kind = "retain" /\ Len(t) <= n
    BY <1>5 DEF Leads
<1> HIDE DEF rest
<1>8. PICK x, y, v : /\ IsSeq(x) /\ Len(x) = n
                     /\ e = Cat(x, y) /\ u = Cat(x, v) /\ IsSeq(y) /\ IsSeq(v)
    BY <1>5, <1>6, <1>7, DoesHeadRetain
<1> HIDE DEF h, n
<1>9. Len(t) \in 0..Len(x)
  <2> DEFINE k == Len(t)
             l == Len(x)
  <2>1. k \in Nat /\ l \in Nat /\ k <= l
      BY <1>7, <1>8, IsSeqLen
  <2> HIDE DEF k, l
  <2>2. k \in 0..l
      BY <2>1
  <2> QED BY <2>2 DEF k, l
<1>10. PICK z, r : IsSeq(z) /\ Len(z) = Len(t) /\ IsSeq(r) /\ x = Cat(z, r)
  <2> DEFINE k == Len(t)
  <2>1. k \in 0..Len(x)
      BY <1>9
  <2> HIDE DEF k
  <2>2. \E z, r : IsSeq(z) /\ Len(z) = k /\ IsSeq(r) /\ x = Cat(z, r)
      BY <1>8, <2>1, CatSplit
  <2> QED BY <2>2 DEF k
<1>11. z = t
  <2>1. Cat(t, w) = Cat(z, Cat(r, y)) /\ IsSeq(Cat(r, y))
      BY <1>8, <1>10, CatAssoc, CatOK
  <2> QED BY <1>10, <2>1, CatCancel
<1>12. c = Cat(Cat(s, t), Cat(r, v)) /\ IsSeq(Cat(r, v))
  <2>1. u = Cat(t, Cat(r, v)) /\ IsSeq(Cat(r, v))
      BY <1>8, <1>10, <1>11, CatAssoc, CatOK
  <2> QED BY <1>6, <2>1, CatAssoc
<1> QED BY <1>12

\* An operation whose result begins with inserted bytes inserts them first.
LEMMA BeginsWithInsert ==
    ASSUME NEW B, NEW m, Proper(m, Seq(B)), NEW d, Marked(d, B), NEW e, Does(m, d, e),
           NEW s \in Seq(B), s # << >>, NEW v, IsSeq(v), e = Cat(s, v)
    PROVE  IsPrefix(s, m[1].s)
<1> DEFINE h == Head(m).s
<1>1. IsSeq(s)
    BY IsSeqIntro
<1>2. e # << >> /\ e[1] \in B
  <2>1. e # << >> /\ e[1] = s[1] /\ 1 \in 1..Len(s)
      BY <1>1, FirstOfCat
  <2> QED BY <2>1, InAlphabet
<1>3. m # << >>
    BY <1>2, NoneDoes
<1>4. Head(m).kind = "insert"
    BY <1>2, <1>3, HeadKind DEF FirstKind
<1>5. PICK w : /\ IsSeq(w) /\ e = Cat(h, w) /\ IsSeq(h) /\ h \in Seq(B)
               /\ w = << >> \/ w[1] \notin B
    BY <1>3, <1>4, AfterInsert
<1>6. Head(m) = m[1]
    BY <1>3 DEF Head
<1> HIDE DEF h
<1>7. Len(s) <= Len(h)
    BY <1>1, <1>5, SameInsert
<1>8. Len(s) \in 0..Len(h) /\ Len(s) \in Nat
    BY <1>1, <1>5, <1>7, IsSeqLen
<1>9. PICK z, r : IsSeq(z) /\ Len(z) = Len(s) /\ IsSeq(r) /\ h = Cat(z, r)
    BY <1>5, <1>8, CatSplit
<1>10. z = s
  <2>1. Cat(s, v) = Cat(z, Cat(r, w)) /\ IsSeq(Cat(r, w))
      BY <1>5, <1>9, CatAssoc, CatOK
  <2> QED BY <1>1, <1>9, <2>1, CatCancel
<1>11. SubSeq(s, 1, Len(s)) = SubSeq(h, 1, Len(s))
  <2>1. 1 \in Nat \ {0} /\ Len(s) \in (1 - 1)..Len(s)
      BY <1>8
  <2>2. SubSeq(s \o r, 1, Len(s)) = SubSeq(s, 1, Len(s))
      BY <1>1, <1>9, <2>1, SegmentLeft
  <2> QED BY <1>9, <1>10, <2>2 DEF Cat
<1>12. IsPrefix(s, h)
    BY <1>7, <1>11 DEF IsPrefix
<1> QED BY <1>6, <1>12 DEF h

\* Both orders are one operation; where both insert first, a's text comes first.
LEMMA MergedAlike ==
    ASSUME doc \in Docs, NEW a, NEW b, Proper(a, Insertable), Proper(b, Insertable),
           BaseLen(a) = Len(doc), BaseLen(b) = Len(doc),
           NEW ap, NEW bp, ap = Transform(a, b).a, bp = Transform(a, b).b
    PROVE  /\ Compose(b, ap) = Compose(a, bp)
           /\ Kind(a) = "insert" /\ Kind(b) = "insert"
              => IsPrefix(a[1].s \o b[1].s, Compose(b, ap)[1].s)
<1> DEFINE T == Tags(Len(doc))
           A == Alphabet
           ea == Effect(a)
           eb == Effect(b)
           m == Compose(b, ap)
<1>1. Does(a, T, ea) /\ Does(b, T, eb)
    BY EffectDoes
<1>2. Proper(a, Seq(A)) /\ Proper(b, Seq(A)) /\ Marked(T, A)
    BY ProperBytes, TagsMarked
<1> HIDE DEF T, A, ea, eb
<1>3. PICK c : Does(ap, eb, c) /\ Does(bp, ea, c)
    BY <1>1, TransformConverges
<1>4. Proper(ap, Seq(A)) /\ Proper(bp, Seq(A))
    BY <1>1, <1>2, TransformProper
<1>5. Does(m, T, c) /\ Does(Compose(a, bp), T, c)
    BY <1>1, <1>3, ComposeDoesBoth
<1>6. Proper(m, Seq(A)) /\ Proper(Compose(a, bp), Seq(A))
    BY <1>1, <1>2, <1>3, <1>4, ComposeProper
<1>7. m = Compose(a, bp)
    BY <1>2, <1>5, <1>6, SameEffectSameOperation
<1> HIDE DEF m
<1>8. ASSUME Kind(a) = "insert", Kind(b) = "insert"
      PROVE  IsPrefix(a[1].s \o b[1].s, m[1].s)
  <2> DEFINE s == Head(a).s
             t == Head(b).s
  <2>1. /\ a # << >> /\ b # << >> /\ Head(a).kind = "insert" /\ Head(b).kind = "insert"
        /\ Head(a) = a[1] /\ Head(b) = b[1]
      BY <1>8 DEF Kind, Ok, Head
  <2>2. s \in Seq(A) /\ t \in Seq(A) /\ IsSeq(s) /\ IsSeq(t) /\ s # << >>
    <3>1. CompOK(Head(a)) /\ s \in Seq(A) /\ t \in Seq(A)
        BY <1>2, <2>1, ProperHead DEF Inserts
    <3>2. s # << >>
        BY <2>1, <3>1, CompCases
    <3> QED BY <3>1, <3>2, IsSeqIntro
  <2>3. Leads(ap, s, Len(t))
      BY <1>1, <1>2, <2>1, TransformLeads
  <2>4. PICK w : Does(Tail(b), T, w) /\ eb = Cat(t, w)
      BY <1>1, <2>1, DoesHeadInsert
  <2>5. IsSeq(w)
      BY <2>4 DEF Does
  <2> HIDE DEF s, t
  <2>6. PICK v : IsSeq(v) /\ c = Cat(Cat(s, t), v)
      BY <1>3, <2>2, <2>3, <2>4, <2>5, LeadsText
  <2>7. Cat(s, t) \in Seq(A) /\ Cat(s, t) # << >>
    <3>1. s \o t \in Seq(A)
        BY <2>2, SeqClosed DEF Closed
    <3>2. Cat(s, t) # << >>
        BY <2>2, FirstOfCat
    <3> QED BY <3>1, <3>2 DEF Cat
  <2>8. IsPrefix(Cat(s, t), m[1].s)
      BY <1>2, <1>5, <1>6, <2>6, <2>7, BeginsWithInsert
  <2> QED BY <2>1, <2>8 DEF Cat, s, t
<1> QED BY <1>7, <1>8 DEF m

LEMMA TP1Holds == ASSUME BuiltInv PROVE TP1
<1> DEFINE a == op["a"]
           b == op["b"]
           da == Apply(a, doc)
           db == Apply(b, doc)
           t == Transform(a, b)
           ap == t.a
           bp == t.b
<1>1. SUFFICES ASSUME Concurrent
               PROVE  /\ t.ok
                      /\ Canonical(ap) /\ Canonical(bp)
                      /\ Applies(bp, da) /\ Applies(ap, db)
                      /\ Apply(bp, da) = Apply(ap, db)
                      /\ Compose(b, ap) = Compose(a, bp)
                      /\ Kind(a) = "insert" /\ Kind(b) = "insert"
                         => IsPrefix(a[1].s \o b[1].s, Compose(b, ap)[1].s)
    BY DEF TP1
<1>2. /\ doc \in Docs /\ IsSeq(doc) /\ ValidUTF8(doc)
      /\ "a" \in Callers /\ "b" \in Callers
      /\ Proper(a, Insertable) /\ Proper(b, Insertable)
    BY DocText DEF BuiltInv, Callers
<1>3. /\ Applies(a, doc) /\ BaseLen(a) = Len(doc)
      /\ Applies(b, doc) /\ BaseLen(b) = Len(doc)
    BY <1>1, <1>2 DEF Concurrent, Complete
<1>4. /\ Does(a, doc, da) /\ Proper(a, Seq(Alphabet))
      /\ Does(b, doc, db) /\ Proper(b, Seq(Alphabet))
    BY <1>2, <1>3, CallerDoes
<1> HIDE DEF a, b, da, db
<1>5. t.ok /\ \E c : Does(ap, db, c) /\ Does(bp, da, c)
    BY <1>4, TransformConverges
<1>6. Canonical(ap) /\ Canonical(bp)
    BY <1>4, TransformProper, ProperCanonical
<1>7. Applies(bp, da) /\ Applies(ap, db) /\ Apply(bp, da) = Apply(ap, db)
    BY <1>5, DoesApplies
<1>8. /\ Compose(b, ap) = Compose(a, bp)
      /\ Kind(a) = "insert" /\ Kind(b) = "insert"
         => IsPrefix(a[1].s \o b[1].s, Compose(b, ap)[1].s)
    BY <1>2, <1>3, MergedAlike
<1> QED BY <1>5, <1>6, <1>7, <1>8

\* The law the package exists for: any two operations on one document can be
\* transformed, both orders end in one document and are one operation, and of
\* two inserts at the start a's comes first (transform.go).
THEOREM BothOrdersAreOneOperation == Spec => []TP1
BY TP1Holds, Built, PTL

---------------------------------------------------------------------------

(* Carets.                                                                 *)

\* The bytes at or after pos, on a document whose bytes can be told apart.
Later(d, pos) == {d[j] : j \in (pos + 1)..Len(d)}

NoneLater(u, d, pos) == \A i \in 1..Len(u) : u[i] \notin Later(d, pos)

\* In e, out is where the first byte stands that was at or after pos in d; it is
\* the end of e when none is left.
Spot(d, e, pos, out) ==
    /\ out \in 0..Len(e)
    /\ \A i \in 1..out : e[i] \notin Later(d, pos)
    /\ out < Len(e) => e[out + 1] \in Later(d, pos)

LEMMA LaterMarked ==
    ASSUME NEW B, NEW d, Marked(d, B), NEW pos \in 0..Len(d)
    PROVE  /\ \A j \in 1..Len(d) : d[j] \in Later(d, pos) <=> j > pos
           /\ \A i \in B : i \notin Later(d, pos)
<1>1. IsSeq(d) /\ Len(d) \in Nat
    BY IsSeqLen DEF Marked
<1> DEFINE l == Len(d)
<1>2. l \in Nat /\ pos \in 0..l
    BY <1>1
<1>3. /\ \A j \in 1..l : d[j] \notin B
      /\ \A i, j \in 1..l : d[i] = d[j] => i = j
    BY DEF Marked
<1>4. Later(d, pos) = {d[j] : j \in (pos + 1)..l}
    BY DEF Later
<1> HIDE DEF l
<1>5. (pos + 1)..l \subseteq 1..l
    BY <1>2
<1>6. ASSUME NEW j \in 1..l PROVE d[j] \in Later(d, pos) <=> j > pos
  <2>1. CASE j > pos
    <3>1. j \in (pos + 1)..l
        BY <1>2, <2>1
    <3> QED BY <1>4, <2>1, <3>1
  <2>2. CASE ~(j > pos)
    <3>1. SUFFICES ASSUME d[j] \in Later(d, pos) PROVE FALSE
        BY <2>2
    <3>2. PICK i \in (pos + 1)..l : d[j] = d[i]
        BY <1>4, <3>1
    <3>3. i = j
        BY <1>3, <1>5, <3>2
    <3> QED BY <1>2, <2>2, <3>3
  <2> QED BY <2>1, <2>2
<1>7. ASSUME NEW i \in B PROVE i \notin Later(d, pos)
    BY <1>3, <1>4, <1>5
<1> QED BY <1>6, <1>7 DEF l

LEMMA NoneLaterCat ==
    ASSUME NEW u, NEW s, IsSeq(u), IsSeq(s), NEW d, NEW pos,
           NoneLater(u, d, pos), NoneLater(s, d, pos)
    PROVE  NoneLater(Cat(u, s), d, pos)
<1> DEFINE c == Cat(u, s)
           l == Len(u)
           m == Len(s)
<1>1. /\ Len(c) = l + m /\ l \in Nat /\ m \in Nat
      /\ \A i \in 1..l : c[i] = u[i]
      /\ \A i \in 1..m : c[l + i] = s[i]
    BY CatIndex
<1>2. /\ \A i \in 1..l : u[i] \notin Later(d, pos)
      /\ \A i \in 1..m : s[i] \notin Later(d, pos)
    BY DEF NoneLater
<1> HIDE DEF c, l, m
<1>3. ASSUME NEW i \in 1..Len(c) PROVE c[i] \notin Later(d, pos)
  <2>1. CASE i \in 1..l
      BY <1>1, <1>2, <2>1
  <2>2. CASE i \notin 1..l
    <3>1. i - l \in 1..m /\ l + (i - l) = i
        BY <1>1, <2>2
    <3>2. c[i] = s[i - l]
        BY <1>1, <3>1
    <3> QED BY <1>2, <3>1, <3>2
  <2> QED BY <2>1, <2>2
<1>4. NoneLater(c, d, pos)
    BY <1>3 DEF NoneLater
<1> QED BY <1>4 DEF c

\* The bytes of the middle part and the first one of the last.
LEMMA MiddleAt ==
    ASSUME NEW x, NEW z, NEW y, IsSeq(x), IsSeq(z), IsSeq(y),
           NEW d, d = Cat(x, Cat(z, y))
    PROVE  /\ Len(d) = Len(x) + Len(z) + Len(y)
           /\ Len(x) \in Nat /\ Len(z) \in Nat /\ Len(y) \in Nat
           /\ \A i \in 1..Len(x) : d[i] = x[i]
           /\ \A i \in 1..Len(z) : d[Len(x) + i] = z[i]
           /\ y # << >> => Len(y) # 0 /\ d[Len(x) + Len(z) + 1] = y[1]
<1> DEFINE w == Cat(z, y)
           k == Len(x)
           m == Len(z)
           l == Len(y)
<1>1. /\ Len(w) = m + l /\ m \in Nat /\ l \in Nat /\ IsSeq(w)
      /\ \A i \in 1..m : w[i] = z[i]
      /\ \A i \in 1..l : w[m + i] = y[i]
    BY CatIndex, CatOK
<1> HIDE DEF w
<1>2. /\ Len(d) = k + Len(w) /\ k \in Nat
      /\ \A i \in 1..k : d[i] = x[i]
      /\ \A i \in 1..Len(w) : d[k + i] = w[i]
    BY <1>1, CatIndex DEF w
<1>3. y # << >> => l # 0
    BY IsSeqNone
<1> HIDE DEF k, m, l
<1>4. ASSUME NEW i \in 1..m PROVE d[k + i] = z[i]
  <2>1. i \in 1..Len(w)
      BY <1>1
  <2> QED BY <1>1, <1>2, <2>1
<1>5. ASSUME l # 0 PROVE d[k + m + 1] = y[1]
  <2>1. m + 1 \in 1..Len(w) /\ 1 \in 1..l /\ k + (m + 1) = k + m + 1
      BY <1>1, <1>2, <1>5
  <2>2. d[k + (m + 1)] = w[m + 1] /\ w[m + 1] = y[1]
      BY <1>1, <1>2, <2>1
  <2> QED BY <2>1, <2>2
<1>6. Len(d) = k + m + l
    BY <1>1, <1>2
<1> QED BY <1>1, <1>2, <1>3, <1>4, <1>5, <1>6 DEF k, m, l

\* One component.
LEMMA IndexMoves ==
    ASSUME NEW st, NEW pos, NEW base, NEW made, CaretAt(st, pos, base, made),
           NEW o, CompOK(o), NEW next, next = IndexStep(st, o)
    PROVE  /\ st.remaining < 0 => next = st
           /\ st.remaining >= 0 /\ o.kind = "retain"
              => next.remaining = st.remaining - o.n /\ next.out = st.out
           /\ st.remaining >= 0 /\ o.kind = "insert" => next.remaining = st.remaining
           /\ st.remaining >= 0 /\ o.kind = "delete"
              => /\ next.remaining = st.remaining - o.n
                 /\ next.out = st.out - (IF st.remaining < o.n THEN st.remaining ELSE o.n)
<1> DEFINE r == st.remaining
           q == st.out
<1>1. DOMAIN st = {"remaining", "out"} /\ r \in Int /\ q \in Int
    BY DEF CaretAt
<1>2. ASSUME r < 0 PROVE next = st
    BY <1>1, <1>2 DEF IndexStep
<1>3. ASSUME r >= 0, o.kind = "retain" PROVE next.remaining = r - o.n /\ next.out = q
  <2>1. next = [st EXCEPT !.remaining = @ - o.n]
      BY <1>1, <1>3 DEF IndexStep
  <2> QED BY <1>1, <2>1
<1>4. ASSUME r >= 0, o.kind = "insert" PROVE next.remaining = r
  <2>1. next = [st EXCEPT !.out = @ + Len(o.s)]
      BY <1>1, <1>4 DEF IndexStep
  <2> QED BY <1>1, <2>1
<1>5. ASSUME r >= 0, o.kind = "delete"
      PROVE  next.remaining = r - o.n /\ next.out = q - (IF r < o.n THEN r ELSE o.n)
  <2>1. next = [remaining |-> r - o.n, out |-> q - (IF r < o.n THEN r ELSE o.n)]
      BY <1>1, <1>5 DEF IndexStep
  <2> DEFINE m == q - (IF r < o.n THEN r ELSE o.n)
  <2> HIDE DEF m
  <2>2. next = [remaining |-> r - o.n, out |-> m]
      BY <2>1 DEF m
  <2>3. next.remaining = r - o.n /\ next.out = m
      BY <2>2
  <2> QED BY <2>3 DEF m
<1> QED BY <1>2, <1>3, <1>4, <1>5

\* The walk over an operation, when rest is still to be walked: it has made u of
\* x, no byte of u stood at or after the caret, or the caret has its spot.
Passed(st, d, e, pos, u) ==
    /\ st.remaining >= 0 => NoneLater(u, d, pos)
    /\ st.remaining < 0 => Spot(d, e, pos, st.out)

Walking(st, rest, d, e, pos, B) ==
    /\ Proper(rest, Seq(B))
    /\ \E x, y, u, v :
          /\ Does(rest, y, v) /\ IsSeq(x) /\ IsSeq(u) /\ d = Cat(x, y) /\ e = Cat(u, v)
          /\ CaretAt(st, pos, Len(x), Len(u)) /\ Passed(st, d, e, pos, u)

\* A retain before the caret.
LEMMA NoneInRetain ==
    ASSUME NEW B, NEW d, Marked(d, B), NEW pos \in 0..Len(d),
           NEW x, NEW z, NEW y, IsSeq(x), IsSeq(z), IsSeq(y),
           d = Cat(x, Cat(z, y)), Len(z) <= pos - Len(x)
    PROVE  NoneLater(z, d, pos)
<1> DEFINE k == Len(x)
           m == Len(z)
           l == Len(d)
<1>1. /\ l = k + m + Len(y) /\ k \in Nat /\ m \in Nat /\ Len(y) \in Nat
      /\ \A i \in 1..m : d[k + i] = z[i]
    BY MiddleAt
<1>2. m <= pos - k /\ pos \in Nat
    BY <1>1
<1>3. \A j \in 1..l : d[j] \in Later(d, pos) <=> j > pos
    BY LaterMarked
<1> HIDE DEF k, m, l
<1>4. ASSUME NEW i \in 1..m PROVE z[i] \notin Later(d, pos)
  <2>1. k + i \in 1..l /\ ~(k + i > pos)
      BY <1>1, <1>2
  <2> QED BY <1>1, <1>3, <2>1
<1> QED BY <1>4 DEF NoneLater, m

\* A retain that the caret is inside of.
LEMMA SpotInRetain ==
    ASSUME NEW B, NEW d, Marked(d, B), NEW pos \in 0..Len(d), NEW e,
           NEW x, NEW z, NEW y, NEW u, NEW v, IsSeq(x), IsSeq(z), IsSeq(y), IsSeq(u), IsSeq(v),
           d = Cat(x, Cat(z, y)), e = Cat(u, Cat(z, v)), NoneLater(u, d, pos),
           NEW r \in Nat, r = pos - Len(x), r < Len(z)
    PROVE  Spot(d, e, pos, r + Len(u))
<1> DEFINE k == Len(x)
           m == Len(z)
           j == Len(u)
           l == Len(d)
           n == Len(e)
           L == Later(d, pos)
<1>1. /\ l = k + m + Len(y) /\ k \in Nat /\ m \in Nat /\ Len(y) \in Nat
      /\ \A i \in 1..m : d[k + i] = z[i]
    BY MiddleAt
<1>2. /\ n = j + m + Len(v) /\ j \in Nat /\ Len(v) \in Nat
      /\ \A i \in 1..j : e[i] = u[i]
      /\ \A i \in 1..m : e[j + i] = z[i]
    BY MiddleAt
<1>3. \A i \in 1..l : d[i] \in L <=> i > pos
    BY LaterMarked
<1>4. \A i \in 1..j : u[i] \notin L
    BY DEF NoneLater
<1>5. r = pos - k /\ r < m /\ pos \in Nat
    BY <1>1
<1> HIDE DEF k, m, j, l, n, L
<1>6. ASSUME NEW i \in 1..m PROVE e[j + i] \in L <=> k + i > pos
  <2>1. k + i \in 1..l
      BY <1>1
  <2>2. e[j + i] = d[k + i]
      BY <1>1, <1>2
  <2> QED BY <1>3, <2>1, <2>2
<1>7. ASSUME NEW i \in 1..(r + j) PROVE e[i] \notin L
  <2>1. CASE i \in 1..j
      BY <1>2, <1>4, <2>1
  <2>2. CASE i \notin 1..j
    <3>1. i - j \in 1..m /\ j + (i - j) = i /\ ~(k + (i - j) > pos)
        BY <1>1, <1>2, <1>5, <2>2
    <3> QED BY <1>6, <3>1
  <2> QED BY <2>1, <2>2
<1>8. r + 1 \in 1..m /\ k + (r + 1) > pos /\ j + (r + 1) = r + j + 1
    BY <1>1, <1>2, <1>5
<1>9. e[r + j + 1] \in L
  <2>1. e[j + (r + 1)] \in L
      BY <1>6, <1>8
  <2> QED BY <1>8, <2>1
<1>10. r + j \in 0..n
    BY <1>1, <1>2, <1>5
<1> QED BY <1>7, <1>9, <1>10 DEF Spot, j, n, L

\* A delete that the caret is inside of.
LEMMA SpotInDelete ==
    ASSUME NEW B, NEW d, Marked(d, B), NEW pos \in 0..Len(d), NEW e,
           NEW x, NEW z, NEW y, NEW u, NEW v, IsSeq(x), IsSeq(z), IsSeq(y), IsSeq(u), IsSeq(v),
           d = Cat(x, Cat(z, y)), e = Cat(u, v), NoneLater(u, d, pos), pos - Len(x) < Len(z),
           (y = << >> /\ v = << >>) \/ (y # << >> /\ v # << >> /\ v[1] = y[1])
    PROVE  Spot(d, e, pos, Len(u))
<1> DEFINE k == Len(x)
           m == Len(z)
           j == Len(u)
           l == Len(d)
           n == Len(e)
           L == Later(d, pos)
<1>1. /\ l = k + m + Len(y) /\ k \in Nat /\ m \in Nat /\ Len(y) \in Nat
      /\ y # << >> => Len(y) # 0 /\ d[k + m + 1] = y[1]
    BY MiddleAt
<1>2. /\ n = j + Len(v) /\ j \in Nat /\ Len(v) \in Nat
      /\ \A i \in 1..j : e[i] = u[i]
    BY CatIndex
<1>3. \A i \in 1..l : d[i] \in L <=> i > pos
    BY LaterMarked
<1>4. \A i \in 1..j : u[i] \notin L
    BY DEF NoneLater
<1>5. v # << >> => e[j + 1] = v[1]
    BY AfterCat
<1>6. v = << >> => Len(v) = 0
    BY IsSeqNone
<1>7. pos - k < m /\ pos \in Int
    BY <1>1
<1> HIDE DEF k, m, j, l, n, L
<1>8. ASSUME j < n PROVE e[j + 1] \in L
  <2>1. v # << >> /\ y # << >> /\ v[1] = y[1]
      BY <1>2, <1>6, <1>8
  <2>2. k + m + 1 \in 1..l /\ k + m + 1 > pos
      BY <1>1, <1>7, <2>1
  <2>3. d[k + m + 1] \in L
      BY <1>3, <2>2
  <2> QED BY <1>1, <1>5, <2>1, <2>3
<1>9. j \in 0..n
    BY <1>2
<1> QED BY <1>2, <1>4, <1>8, <1>9 DEF Spot, j, n, L

LEMMA WalkStep ==
    ASSUME NEW B, NEW d, Marked(d, B), NEW pos \in 0..Len(d), NEW e, NEW st,
           NEW rest, rest # << >>, Walking(st, rest, d, e, pos, B),
           NEW next, next = IndexStep(st, Head(rest))
    PROVE  Walking(next, Tail(rest), d, e, pos, B)
<1> DEFINE h == Head(rest)
           tl == Tail(rest)
<1>1. PICK x, y, u, v :
          /\ Does(rest, y, v) /\ IsSeq(x) /\ IsSeq(u) /\ d = Cat(x, y) /\ e = Cat(u, v)
          /\ CaretAt(st, pos, Len(x), Len(u)) /\ Passed(st, d, e, pos, u)
    BY DEF Walking
<1>2. /\ Proper(rest, Seq(B)) /\ CompOK(h) /\ Inserts(h, Seq(B)) /\ Proper(tl, Seq(B))
    BY ProperHead DEF Walking
<1>3. PICK z, y1, w, v1 :
          /\ IsSeq(z) /\ IsSeq(y1) /\ IsSeq(w) /\ IsSeq(v1)
          /\ y = Cat(z, y1) /\ v = Cat(w, v1) /\ Does(tl, y1, v1)
          /\ \/ h.kind = "retain" /\ Len(z) = h.n /\ w = z
             \/ h.kind = "delete" /\ Len(z) = h.n /\ w = << >>
             \/ h.kind = "insert" /\ z = << >> /\ w = h.s
    BY <1>1, DoesHead
<1> DEFINE x1 == Cat(x, z)
           u1 == Cat(u, w)
<1>4. /\ d = Cat(x, Cat(z, y1)) /\ e = Cat(u, Cat(w, v1))
      /\ d = Cat(x1, y1) /\ e = Cat(u1, v1) /\ IsSeq(x1) /\ IsSeq(u1)
      /\ Len(x1) = Len(x) + Len(z) /\ Len(u1) = Len(u) + Len(w)
      /\ Len(x) \in Nat /\ Len(z) \in Nat /\ Len(u) \in Nat /\ Len(w) \in Nat
    BY <1>1, <1>3, CatOK, CatAssoc
<1>5. pos \in Nat
  <2>1. Len(d) \in Nat
      BY <1>4, IsSeqLen DEF Marked
  <2> QED BY <2>1
<1>6. /\ Len(z) = (IF h.kind \in {"retain", "delete"} THEN CompLen(h) ELSE 0)
      /\ Len(w) = (IF h.kind \in {"retain", "insert"} THEN CompLen(h) ELSE 0)
  <2>1. ASSUME NEW t, t = << >> PROVE Len(t) = 0
      BY <2>1
  <2> HIDE DEF h
  <2> QED BY <1>3, <2>1 DEF CompLen
<1>7. next = IndexStep(st, h)
    OBVIOUS
<1> HIDE DEF h, tl, x1, u1
<1>8. CaretAt(next, pos, Len(x1), Len(u1))
    BY <1>1, <1>2, <1>4, <1>5, <1>6, <1>7, CaretStep
<1>9. CaretAt(st, pos, Len(x), Len(u)) /\ st.remaining \in Int
    BY <1>1 DEF CaretAt
<1>10. CASE st.remaining < 0
  <2>1. next = st
      BY <1>2, <1>7, <1>9, <1>10, IndexMoves
  <2>2. Passed(next, d, e, pos, u1)
      BY <1>1, <1>9, <1>10, <2>1 DEF Passed
  <2> QED BY <1>2, <1>3, <1>4, <1>8, <2>2 DEF Walking, tl
<1>11. CASE st.remaining >= 0
  <2>1. st.remaining \in Nat /\ st.remaining = pos - Len(x) /\ st.out = st.remaining + Len(u)
      BY <1>9, <1>11 DEF CaretAt
  <2>2. NoneLater(u, d, pos)
      BY <1>1, <1>11 DEF Passed
  <2>3. next.remaining \in Int
      BY <1>8 DEF CaretAt
  <2>4. /\ \A j \in 1..Len(d) : d[j] \in Later(d, pos) <=> j > pos
        /\ \A i \in B : i \notin Later(d, pos)
      BY LaterMarked
  <2>5. CASE h.kind = "insert"
    <3>1. next.remaining = st.remaining
        BY <1>2, <1>7, <1>9, <1>11, <2>5, IndexMoves
    <3>2. w \in Seq(B)
        BY <1>2, <1>3, <2>5 DEF Inserts
    <3>3. NoneLater(w, d, pos)
        BY <2>4, <3>2, InAlphabet DEF NoneLater
    <3>4. Passed(next, d, e, pos, u1)
        BY <1>1, <1>3, <1>11, <2>2, <2>3, <3>1, <3>3, NoneLaterCat DEF Passed, u1
    <3> QED BY <1>2, <1>3, <1>4, <1>8, <3>4 DEF Walking, tl
  <2>6. CASE h.kind = "retain"
    <3>1. next.remaining = st.remaining - h.n /\ next.out = st.out
        BY <1>2, <1>7, <1>9, <1>11, <2>6, IndexMoves
    <3>2. w = z /\ h.n = Len(z)
        BY <1>3, <2>6
    <3>3. ASSUME next.remaining >= 0 PROVE NoneLater(z, d, pos)
      <4>1. Len(z) <= pos - Len(x)
          BY <1>4, <1>5, <2>1, <3>1, <3>2, <3>3
      <4>2. IsSeq(x) /\ IsSeq(z) /\ IsSeq(y1) /\ d = Cat(x, Cat(z, y1))
          BY <1>1, <1>3, <1>4
      <4> QED BY <4>1, <4>2, NoneInRetain
    <3>4. ASSUME next.remaining < 0 PROVE Spot(d, e, pos, next.out)
      <4> DEFINE r == st.remaining
                 m == Len(z)
      <4>1. r < m /\ r \in Nat
        <5>1. r - m < 0 /\ r \in Nat /\ m \in Nat
            BY <1>4, <2>1, <3>1, <3>2, <3>4
        <5> HIDE DEF r, m
        <5> QED BY <5>1
      <4>2. r = pos - Len(x) /\ next.out = r + Len(u)
          BY <2>1, <3>1
      <4> HIDE DEF r
      <4>3. Spot(d, e, pos, r + Len(u))
          BY <1>1, <1>3, <1>4, <2>2, <3>2, <4>1, <4>2, SpotInRetain
      <4> QED BY <4>2, <4>3
    <3>5. Passed(next, d, e, pos, u1)
        BY <1>1, <1>3, <2>2, <2>3, <3>2, <3>3, <3>4, NoneLaterCat DEF Passed, u1
    <3> QED BY <1>2, <1>3, <1>4, <1>8, <3>5 DEF Walking, tl
  <2>7. CASE h.kind = "delete"
    <3>1. /\ next.remaining = st.remaining - h.n
          /\ next.out = st.out - (IF st.remaining < h.n THEN st.remaining ELSE h.n)
        BY <1>2, <1>7, <1>9, <1>11, <2>7, IndexMoves
    <3>2. w = << >> /\ h.n = Len(z)
        BY <1>3, <2>7
    <3>3. u1 = u /\ v = v1
        BY <1>1, <1>3, <3>2, CatUnit DEF u1
    <3>4. ASSUME next.remaining < 0 PROVE Spot(d, e, pos, next.out)
      <4> DEFINE r == st.remaining
                 m == Len(z)
                 j == Len(u)
      <4>1. r < m /\ next.out = j
        <5>1. /\ r - m < 0 /\ r \in Nat /\ m \in Nat /\ j \in Nat
              /\ next.out = (r + j) - (IF r < m THEN r ELSE m)
            BY <1>4, <2>1, <3>1, <3>2, <3>4
        <5> HIDE DEF r, m, j
        <5> QED BY <5>1
      <4>2. Marked(y, B)
          BY <1>1, <1>3, <1>4, CatOK, MarkedRest
      <4>3. PICK a, b : /\ IsSeq(a) /\ IsSeq(b) /\ y = Cat(a, b) /\ Len(a) = h.n
                        /\ \/ b = << >> /\ v = << >>
                           \/ b # << >> /\ v # << >> /\ v[1] = b[1]
          BY <1>1, <1>2, <2>7, <4>2, AfterDelete DEF h
      <4>4. b = y1
        <5>1. /\ IsSeq(a) /\ IsSeq(b) /\ IsSeq(z) /\ IsSeq(y1)
              /\ Cat(a, b) = Cat(z, y1) /\ Len(a) = Len(z)
            BY <1>3, <3>2, <4>3
        <5> QED BY <5>1, CatCancel
      <4>5. pos - Len(x) < Len(z)
          BY <2>1, <4>1
      <4>6. Spot(d, e, pos, j)
          BY <1>1, <1>3, <1>4, <2>2, <3>3, <4>3, <4>4, <4>5, SpotInDelete
      <4> QED BY <4>1, <4>6
    <3>5. Passed(next, d, e, pos, u1)
        BY <2>2, <2>3, <3>3, <3>4 DEF Passed
    <3> QED BY <1>2, <1>3, <1>4, <1>8, <3>5 DEF Walking, tl
  <2> QED BY <1>2, <2>5, <2>6, <2>7, CompCases
<1> QED BY <1>9, <1>10, <1>11

\* What is left of a sequence after its first k members.
LEMMA Ending ==
    ASSUME NEW o, IsSeq(o), NEW k \in 0..(Len(o) - 1)
    PROVE  LET rest == SubSeq(o, k + 1, Len(o))
           IN  /\ rest # << >> /\ Head(rest) = o[k + 1]
               /\ Tail(rest) = SubSeq(o, (k + 1) + 1, Len(o))
<1> DEFINE N == Len(o)
           rest == SubSeq(o, k + 1, N)
           next == SubSeq(o, (k + 1) + 1, N)
<1>1. N \in Nat
    BY IsSeqLen
<1>2. /\ k + 1 \in Nat \ {0} /\ N \in ((k + 1) - 1)..N
      /\ (k + 1) + 1 \in Nat \ {0} /\ N \in (((k + 1) + 1) - 1)..N
  <2> HIDE DEF N
  <2> QED BY <1>1 DEF N
<1>3. /\ IsSeq(rest) /\ Len(rest) = N - (k + 1) + 1
      /\ \A i \in 1..(N - (k + 1) + 1) : rest[i] = o[(k + 1) + i - 1]
    BY <1>2, SegmentOK
<1>4. /\ IsSeq(next) /\ Len(next) = N - ((k + 1) + 1) + 1
      /\ \A i \in 1..(N - ((k + 1) + 1) + 1) : next[i] = o[((k + 1) + 1) + i - 1]
    BY <1>2, SegmentOK
<1> HIDE DEF rest, next, N
<1>5. k \in 0..(N - 1)
    BY DEF N
<1>6. Len(rest) = N - k /\ Len(next) = N - k - 1 /\ Len(rest) # 0 /\ 1 \in 1..(N - k)
    BY <1>1, <1>3, <1>4, <1>5
<1>7. \A i \in 1..(N - k) : rest[i] = o[k + i]
  <2>1. ASSUME NEW i \in 1..(N - k) PROVE rest[i] = o[k + i]
    <3>1. i \in 1..(N - (k + 1) + 1) /\ (k + 1) + i - 1 = k + i
        BY <1>1, <1>5
    <3> QED BY <1>3, <3>1
  <2> QED BY <2>1
<1>8. \A i \in 1..(N - k - 1) : next[i] = o[k + i + 1]
  <2>1. ASSUME NEW i \in 1..(N - k - 1) PROVE next[i] = o[k + i + 1]
    <3>1. i \in 1..(N - ((k + 1) + 1) + 1) /\ ((k + 1) + 1) + i - 1 = k + i + 1
        BY <1>1, <1>5
    <3> QED BY <1>4, <3>1
  <2> QED BY <2>1
<1>9. rest # << >>
    BY <1>3, <1>6, IsSeqNone
<1>10. Head(rest) = o[k + 1]
    BY <1>6, <1>7 DEF Head
<1>11. /\ IsSeq(Tail(rest)) /\ Len(Tail(rest)) = Len(rest) - 1
       /\ \A i \in 1..Len(Tail(rest)) : Tail(rest)[i] = rest[i + 1]
    BY <1>3, <1>9, IsSeqTail
<1>12. Len(Tail(rest)) = Len(next)
    BY <1>1, <1>5, <1>6, <1>11
<1>13. ASSUME NEW i \in 1..Len(next) PROVE Tail(rest)[i] = next[i]
  <2>1. /\ i \in 1..(N - k - 1) /\ i + 1 \in 1..(N - k) /\ k + (i + 1) = k + i + 1
        /\ i \in 1..Len(Tail(rest))
      BY <1>1, <1>5, <1>6, <1>12
  <2>2. Tail(rest)[i] = rest[i + 1] /\ rest[i + 1] = o[k + (i + 1)]
      BY <1>7, <1>11, <2>1
  <2> QED BY <1>8, <2>1, <2>2
<1>14. Tail(rest) = next
    BY <1>4, <1>11, <1>12, <1>13, IsSeqEqual
<1> QED BY <1>9, <1>10, <1>14 DEF rest, next, N

\* Where the walk ends.
LEMMA WalkEnds ==
    ASSUME NEW B, NEW d, Marked(d, B), NEW pos \in 0..Len(d), NEW e, NEW st,
           NEW rest, rest = << >>, Walking(st, rest, d, e, pos, B)
    PROVE  Spot(d, e, pos, st.out)
<1>1. PICK x, y, u, v :
          /\ Does(rest, y, v) /\ IsSeq(x) /\ IsSeq(u) /\ d = Cat(x, y) /\ e = Cat(u, v)
          /\ CaretAt(st, pos, Len(x), Len(u)) /\ Passed(st, d, e, pos, u)
    BY DEF Walking
<1>2. y = << >> /\ v = << >>
    BY <1>1, NoneDoes
<1>3. d = x /\ e = u
    BY <1>1, <1>2, CatUnit
<1>4. CASE st.remaining < 0
    BY <1>1, <1>4 DEF Passed
<1>5. CASE st.remaining >= 0
  <2> DEFINE l == Len(d)
             n == Len(e)
  <2>1. l \in Nat /\ n \in Nat /\ pos \in 0..l
      BY <1>1, <1>3, IsSeqLen
  <2>2. st.remaining = pos - l /\ st.out = st.remaining + n
      BY <1>1, <1>3, <1>5 DEF CaretAt
  <2>3. \A i \in 1..n : e[i] \notin Later(d, pos)
      BY <1>1, <1>3, <1>5 DEF Passed, NoneLater
  <2> HIDE DEF l, n
  <2>4. st.out = n
      BY <1>5, <2>1, <2>2
  <2> QED BY <2>1, <2>3, <2>4 DEF Spot, n
<1> QED BY <1>1, <1>4, <1>5 DEF CaretAt

\* TransformIndex moves a caret to where the first byte went that is left of
\* those at or after it.
THEOREM CaretFindsSpot ==
    ASSUME NEW B, NEW o, Proper(o, Seq(B)), NEW d, Marked(d, B), NEW e, Does(o, d, e),
           NEW pos \in 0..Len(d)
    PROVE  Spot(d, e, pos, TransformIndex(o, pos))
<1> DEFINE N == Len(o)
           rest(k) == SubSeq(o, k + 1, N)
<1>1. IsSeq(o) /\ N \in Nat /\ OpOK(o) /\ IsSeq(d) /\ IsSeq(e)
    BY OpIndex DEF Does
<1>2. Len(d) \in Nat /\ pos \in Nat
    BY <1>1, IsSeqLen
<1>3. PICK run : IndexRun(o, pos, run)
    BY <1>1, IndexUnfold
<1> DEFINE S == {k \in 0..N : Walking(run[k], rest(k), d, e, pos, B)}
<1>4. 0 \in S
  <2>1. rest(0) = o
    <3>1. SubSeq(o, 1, Len(o)) = o
        BY <1>1, SegmentAll
    <3> QED BY <3>1
  <2> DEFINE st == run[0]
             x == << >>
  <2>2. st = [remaining |-> pos, out |-> pos]
      BY <1>3 DEF IndexRun
  <2>3. DOMAIN st = {"remaining", "out"} /\ st.remaining = pos /\ st.out = pos
      BY <2>2
  <2>4. IsSeq(x) /\ Len(x) = 0 /\ Cat(x, d) = d /\ Cat(x, e) = e
      BY <1>1, IsSeqEmpty, CatUnit
  <2> HIDE DEF st, x
  <2>5. CaretAt(st, pos, Len(x), Len(x)) /\ Passed(st, d, e, pos, x)
    <3>1. CaretAt(st, pos, 0, 0)
        BY <1>2, <2>3 DEF CaretAt
    <3>2. NoneLater(x, d, pos)
        BY <2>4 DEF NoneLater
    <3>3. ~(st.remaining < 0)
        BY <1>2, <2>3
    <3> QED BY <2>4, <3>1, <3>2, <3>3 DEF Passed
  <2>6. Walking(st, o, d, e, pos, B)
    <3>1. Does(o, d, e) /\ Proper(o, Seq(B))
        OBVIOUS
    <3> QED BY <2>4, <2>5, <3>1 DEF Walking
  <2>7. Walking(run[0], rest(0), d, e, pos, B)
      BY <2>1, <2>6 DEF st
  <2> HIDE DEF rest
  <2> QED BY <1>1, <2>7
<1>5. ASSUME NEW k \in 0..(N - 1), k \in S PROVE k + 1 \in S
  <2>1. k + 1 \in 1..N /\ (k + 1) - 1 = k /\ k + 1 \in 0..N
      BY <1>1
  <2>2. run[k + 1] = IndexStep(run[k], o[k + 1])
      BY <1>3, <2>1 DEF IndexRun
  <2>3. rest(k) # << >> /\ Head(rest(k)) = o[k + 1] /\ Tail(rest(k)) = rest(k + 1)
      BY <1>1, Ending
  <2>4. Walking(run[k], rest(k), d, e, pos, B)
      BY <1>5
  <2> DEFINE here == rest(k)
             there == rest(k + 1)
             st == run[k]
             next == run[k + 1]
  <2>5. next = IndexStep(st, Head(here)) /\ here # << >> /\ Tail(here) = there
      BY <2>2, <2>3
  <2> HIDE DEF rest, here, there, st, next
  <2>6. Walking(next, Tail(here), d, e, pos, B)
      BY <2>4, <2>5, WalkStep DEF here, st
  <2>7. Walking(run[k + 1], rest(k + 1), d, e, pos, B)
      BY <2>5, <2>6 DEF there, next
  <2> QED BY <2>1, <2>7
<1>6. N \in S
  <2> HIDE DEF S, N
  <2>1. 0..N \subseteq S
      BY <1>1, <1>4, <1>5, BoundedInduction
  <2> QED BY <1>1, <2>1
<1>7. rest(N) = << >>
  <2>1. N + 1 \in Nat \ {0} /\ N \in ((N + 1) - 1)..Len(o)
      BY <1>1
  <2>2. IsSeq(rest(N)) /\ Len(rest(N)) = N - (N + 1) + 1
      BY <1>1, <2>1, SegmentOK
  <2> HIDE DEF rest, N
  <2>3. Len(rest(N)) = 0
      BY <1>1, <2>2
  <2> QED BY <2>2, <2>3, IsSeqNone
<1> DEFINE st == run[N]
           last == rest(N)
<1>8. Walking(st, last, d, e, pos, B)
    BY <1>6
<1>9. TransformIndex(o, pos) = IF pos < 0 \/ st.out < 0 THEN 0 ELSE st.out
    BY <1>3 DEF IndexRun
<1>10. last = << >>
    BY <1>7
<1> HIDE DEF st, last
<1>11. Spot(d, e, pos, st.out)
    BY <1>8, <1>10, WalkEnds
<1>12. st.out \in 0..Len(e) /\ Len(e) \in Nat
    BY <1>1, <1>11, IsSeqLen DEF Spot
<1>13. TransformIndex(o, pos) = st.out
    BY <1>2, <1>9, <1>12
<1> QED BY <1>11, <1>13

\* In front of the least of the indices S, or at n when there are none.
InFront(S, n) == IF S = {} THEN n ELSE (CHOOSE i \in S : \A j \in S : i <= j) - 1

\* The spot is in front of the least index at which such a byte stands.
LEMMA SpotIsLeast ==
    ASSUME NEW e, IsSeq(e), NEW d, NEW pos, NEW out, Spot(d, e, pos, out),
           NEW S, S = {i \in DOMAIN e : e[i] \in Later(d, pos)}
    PROVE  out = InFront(S, Len(e))
<1> DEFINE n == Len(e)
<1>1. n \in Nat /\ DOMAIN e = 1..n
    BY IsSeqLen
<1>2. /\ out \in 0..n
      /\ \A i \in 1..out : e[i] \notin Later(d, pos)
      /\ out < n => e[out + 1] \in Later(d, pos)
    BY DEF Spot
<1> HIDE DEF n
<1>3. S \subseteq (out + 1)..n
  <2>1. ASSUME NEW i \in S PROVE i \in (out + 1)..n
    <3>1. i \in 1..n /\ i \notin 1..out
        BY <1>1, <1>2
    <3> QED BY <1>1, <1>2, <3>1
  <2> QED BY <2>1
<1>4. out < n => out + 1 \in S
    BY <1>1, <1>2
<1>5. CASE S = {}
  <2>1. out = n
      BY <1>1, <1>2, <1>4, <1>5
  <2> QED BY <1>5, <2>1 DEF n, InFront
<1>6. CASE S # {}
  <2>1. out < n
      BY <1>1, <1>2, <1>3, <1>6
  <2>2. out + 1 \in S /\ \A j \in S : out + 1 <= j
      BY <1>1, <1>2, <1>3, <1>4, <2>1
  <2> DEFINE c == CHOOSE i \in S : \A j \in S : i <= j
  <2>3. c \in S /\ \A j \in S : c <= j
      BY <2>2
  <2> HIDE DEF c
  <2>4. c \in Int /\ c <= out + 1 /\ out + 1 <= c
      BY <1>1, <1>2, <1>3, <2>2, <2>3
  <2>5. out = c - 1
      BY <1>1, <1>2, <2>4
  <2> QED BY <1>6, <2>5 DEF c, InFront
<1> QED BY <1>5, <1>6

\* A caret further on is not moved in front of one before it.
LEMMA SpotsInOrder ==
    ASSUME NEW e, IsSeq(e), NEW d, IsSeq(d), NEW pos \in 0..Len(d), NEW end \in pos..Len(d),
           NEW s, NEW t, Spot(d, e, pos, s), Spot(d, e, end, t)
    PROVE  s <= t
<1>1. Len(d) \in Nat /\ Len(e) \in Nat
    BY IsSeqLen
<1>2. s \in 0..Len(e) /\ t \in 0..Len(e)
    BY DEF Spot
<1>3. Later(d, end) \subseteq Later(d, pos)
  <2>1. (end + 1)..Len(d) \subseteq (pos + 1)..Len(d)
      BY <1>1
  <2> QED BY <2>1 DEF Later
<1>4. SUFFICES ASSUME ~(s <= t) PROVE FALSE
    OBVIOUS
<1>5. t < Len(e) /\ t + 1 \in 1..s
    BY <1>1, <1>2, <1>4
<1>6. e[t + 1] \in Later(d, end)
    BY <1>5 DEF Spot
<1>7. e[t + 1] \notin Later(d, pos)
    BY <1>5 DEF Spot
<1> QED BY <1>3, <1>6, <1>7

LEMMA CaretHolds == ASSUME BuiltInv PROVE CaretFollowsText
<1> DEFINE a == op["a"]
           result == Effect(a)
           d == Tags(Len(doc))
           Survivors(pos) == {i \in DOMAIN result :
                                 \E j \in (pos + 1)..Len(doc) : result[i] = Tag(j)}
<1>1. SUFFICES ASSUME Complete("a", doc), NEW pos \in 0..Len(doc)
               PROVE  /\ TransformIndex(a, pos) =
                            (IF Survivors(pos) = {} THEN Len(result)
                             ELSE (CHOOSE i \in Survivors(pos) :
                                      \A j \in Survivors(pos) : i <= j) - 1)
                      /\ \A end \in pos..Len(doc) :
                            TransformRange(a, pos, end) =
                                <<TransformIndex(a, pos), TransformIndex(a, end)>>
    BY DEF CaretFollowsText
<1>2. doc \in Docs /\ Proper(a, Insertable) /\ BaseLen(a) = Len(doc)
    BY <1>1 DEF BuiltInv, Callers, Complete
<1>3. /\ Does(a, d, result) /\ Proper(a, Seq(Alphabet))
      /\ IsSeq(d) /\ Len(d) = Len(doc) /\ Marked(d, Alphabet)
      /\ \A i \in 1..Len(d) : d[i] = Tag(i)
    BY <1>2, EffectDoes, ProperBytes, TagsMarked
<1>4. IsSeq(result)
  <2> HIDE DEF result, d, a
  <2> QED BY <1>3 DEF Does
<1>5. Len(doc) \in Nat /\ pos \in Nat
  <2>1. Len(doc) \in Nat
      BY <1>2, DocText
  <2> QED BY <2>1
<1> HIDE DEF a, result, d
<1>6. ASSUME NEW p \in 0..Len(doc) PROVE Spot(d, result, p, TransformIndex(a, p))
    BY <1>3, CaretFindsSpot
<1>7. Survivors(pos) = {i \in DOMAIN result : result[i] \in Later(d, pos)}
  <2>1. \A j \in (pos + 1)..Len(doc) : d[j] = Tag(j)
      BY <1>3, <1>5
  <2>2. Later(d, pos) = {d[j] : j \in (pos + 1)..Len(doc)}
      BY <1>3 DEF Later
  <2>3. ASSUME NEW i \in DOMAIN result
        PROVE  (\E j \in (pos + 1)..Len(doc) : result[i] = Tag(j))
                    <=> result[i] \in Later(d, pos)
      BY <2>1, <2>2
  <2> QED BY <2>3
<1> HIDE DEF Survivors
<1>8. TransformIndex(a, pos) = InFront(Survivors(pos), Len(result))
  <2> DEFINE S == Survivors(pos)
             out == TransformIndex(a, pos)
  <2>1. Spot(d, result, pos, out)
      BY <1>6
  <2>2. S = {i \in DOMAIN result : result[i] \in Later(d, pos)}
      BY <1>7
  <2> HIDE DEF S, out
  <2>3. out = InFront(S, Len(result))
      BY <1>4, <2>1, <2>2, SpotIsLeast
  <2> QED BY <2>3 DEF S, out
<1>9. ASSUME NEW end \in pos..Len(doc)
      PROVE  TransformRange(a, pos, end) = <<TransformIndex(a, pos), TransformIndex(a, end)>>
  <2> DEFINE s == TransformIndex(a, pos)
             t == TransformIndex(a, end)
  <2>1. end \in 0..Len(doc)
      BY <1>5
  <2>2. Spot(d, result, pos, s) /\ Spot(d, result, end, t)
      BY <1>6, <2>1
  <2> HIDE DEF s, t
  <2>3. s <= t
      BY <1>3, <1>4, <2>2, SpotsInOrder
  <2>4. s \in Int /\ t \in Int
      BY <1>4, <2>2, IsSeqLen DEF Spot
  <2>5. ~(s > t)
      BY <2>3, <2>4
  <2>6. TransformRange(a, pos, end) = IF s > t THEN <<t, s>> ELSE <<s, t>>
      BY DEF TransformRange, s, t
  <2> QED BY <2>5, <2>6 DEF s, t
<1> QED BY <1>8, <1>9 DEF Survivors, InFront

\* A caret is never moved relative to the text around it: it follows the first
\* byte at or after it that is left, and goes to the end when none is; the ends
\* of a selection keep their order (cursor.go).
THEOREM CaretsKeepTheirPlace == Spec => []CaretFollowsText
BY CaretHolds, Built, PTL

---------------------------------------------------------------------------
(* How many bytes the first units of a text are.                           *)

UnitBytes(u) == IF u \in Wide THEN 3 ELSE IF u \in Letter \cup High \cup Low THEN 2 ELSE 1

\* Where among the first i units one of U stands.
Places(text, U, i) == {k \in 1..i : text[k] \in U}

\* The bytes of the first i units: one each, one more for what is not ASCII,
\* another one for the wide ones.
Weight(text, i) ==
    i + Cardinality(Places(text, Letter \cup Wide \cup High \cup Low, i))
      + Cardinality(Places(text, Wide, i))

LEMMA PlacesStep ==
    ASSUME NEW text, NEW U, NEW i \in Nat
    PROVE  /\ Cardinality(Places(text, U, i)) \in Nat
           /\ Cardinality(Places(text, U, i + 1))
                 = Cardinality(Places(text, U, i)) + (IF text[i + 1] \in U THEN 1 ELSE 0)
<1> DEFINE A == Places(text, U, i)
           B == Places(text, U, i + 1)
<1>1. A \subseteq 1..i /\ IsFiniteSet(1..i)
    BY FS_Interval DEF Places
<1>2. IsFiniteSet(A) /\ Cardinality(A) \in Nat
    BY <1>1, FS_Subset, FS_CardinalityType
<1>3. 1..(i + 1) = 1..i \cup {i + 1} /\ i + 1 \notin 1..i
    OBVIOUS
<1>4. CASE text[i + 1] \in U
  <2>1. B = A \cup {i + 1} /\ i + 1 \notin A
      BY <1>3, <1>4 DEF Places
  <2> HIDE DEF A, B
  <2>2. Cardinality(B) = Cardinality(A) + 1
      BY <1>2, <2>1, FS_AddElement
  <2> QED BY <1>2, <1>4, <2>2 DEF A, B
<1>5. CASE text[i + 1] \notin U
  <2>1. B = A
      BY <1>3, <1>5 DEF Places
  <2> HIDE DEF A, B
  <2> QED BY <1>2, <1>5, <2>1 DEF A, B
<1> QED BY <1>4, <1>5

LEMMA WeightStep ==
    ASSUME NEW text, NEW i \in Nat
    PROVE  /\ Weight(text, i) \in Nat
           /\ Weight(text, i + 1) = Weight(text, i) + UnitBytes(text[i + 1])
<1> DEFINE M == Letter \cup Wide \cup High \cup Low
           a == Cardinality(Places(text, M, i))
           b == Cardinality(Places(text, Wide, i))
           c == Cardinality(Places(text, M, i + 1))
           d == Cardinality(Places(text, Wide, i + 1))
           u == text[i + 1]
<1>1. a \in Nat /\ c = a + (IF u \in M THEN 1 ELSE 0)
    BY PlacesStep
<1>2. b \in Nat /\ d = b + (IF u \in Wide THEN 1 ELSE 0)
    BY PlacesStep
<1>3. Weight(text, i) = i + a + b /\ Weight(text, i + 1) = i + 1 + c + d
    BY DEF Weight
<1>4. UnitBytes(u) = (IF u \in M THEN 2 ELSE 1) + (IF u \in Wide THEN 1 ELSE 0)
    BY DEF UnitBytes
<1> HIDE DEF a, b, c, d
<1> DEFINE v == Weight(text, i)
           w == Weight(text, i + 1)
           m == u \in M
           n == u \in Wide
           x == UnitBytes(u)
<1>5. /\ v = i + a + b /\ w = i + 1 + c + d
      /\ c = a + (IF m THEN 1 ELSE 0) /\ d = b + (IF n THEN 1 ELSE 0)
      /\ x = (IF m THEN 2 ELSE 1) + (IF n THEN 1 ELSE 0)
    BY <1>1, <1>2, <1>3, <1>4
<1> HIDE DEF v, w, m, n, x
<1>6. v \in Nat /\ w = v + x
    BY <1>1, <1>2, <1>5
<1> QED BY <1>6 DEF v, w, x

LEMMA WeightZero == ASSUME NEW text PROVE Weight(text, 0) = 0
<1>1. Places(text, Letter \cup Wide \cup High \cup Low, 0) = {} /\ Places(text, Wide, 0) = {}
    BY DEF Places
<1>2. Cardinality({}) = 0
    BY FS_EmptySet
<1>3. Weight(text, 0) = 0 + Cardinality({}) + Cardinality({})
    BY <1>1 DEF Weight
<1> QED BY <1>2, <1>3

\* The further on, the more bytes.
LEMMA WeightGrows ==
    ASSUME NEW text, NEW i \in Nat, NEW j \in Nat, i < j
    PROVE  Weight(text, i) < Weight(text, j)
<1> DEFINE N == j - (i + 1)
           S == {k \in 0..N : Weight(text, i) < Weight(text, i + 1 + k)}
<1>1. N \in Nat
    OBVIOUS
<1>2. ASSUME NEW k \in Nat
      PROVE  /\ Weight(text, k) \in Nat /\ Weight(text, k + 1) \in Nat
             /\ Weight(text, k) < Weight(text, k + 1)
  <2>1. UnitBytes(text[k + 1]) \in Nat \ {0}
      BY DEF UnitBytes
  <2>2. Weight(text, k) \in Nat /\ Weight(text, k + 1) = Weight(text, k) + UnitBytes(text[k + 1])
      BY WeightStep
  <2> QED BY <2>1, <2>2
<1>3. 0 \in S
    BY <1>1, <1>2
<1>4. ASSUME NEW k \in 0..(N - 1), k \in S PROVE k + 1 \in S
  <2>1. i + 1 + k \in Nat /\ (i + 1 + k) + 1 = i + 1 + (k + 1) /\ k + 1 \in 0..N
      BY <1>1
  <2>2. /\ Weight(text, i + 1 + k) \in Nat /\ Weight(text, i + 1 + (k + 1)) \in Nat
        /\ Weight(text, i + 1 + k) < Weight(text, i + 1 + (k + 1))
      BY <1>2, <2>1
  <2>3. Weight(text, i) \in Nat /\ Weight(text, i) < Weight(text, i + 1 + k)
      BY <1>2, <1>4
  <2> QED BY <2>1, <2>2, <2>3
<1>5. N \in S
  <2> HIDE DEF S, N
  <2>1. 0..N \subseteq S
      BY <1>1, <1>3, <1>4, BoundedInduction
  <2> QED BY <1>1, <2>1
<1>6. i + 1 + N = j
    OBVIOUS
<1> QED BY <1>5, <1>6

\* The m units after offset a of s are those after offset b of t.
Agree(s, a, t, b, m) == \A k \in 1..m : s[a + k] = t[b + k]

\* Where two texts agree, they weigh the same.
LEMMA WeightShift ==
    ASSUME NEW s, NEW t, NEW a \in Nat, NEW b \in Nat, NEW m \in Nat, Agree(s, a, t, b, m)
    PROVE  Weight(s, a + m) - Weight(s, a) = Weight(t, b + m) - Weight(t, b)
<1> DEFINE S == {k \in 0..m : Weight(s, a + k) - Weight(s, a) = Weight(t, b + k) - Weight(t, b)}
<1>1. 0 \in S
  <2>1. a + 0 = a /\ b + 0 = b /\ Weight(s, a) \in Nat /\ Weight(t, b) \in Nat
      BY WeightStep
  <2> QED BY <2>1
<1>2. ASSUME NEW k \in 0..(m - 1), k \in S PROVE k + 1 \in S
  <2>1. /\ k + 1 \in 1..m /\ a + k \in Nat /\ b + k \in Nat
        /\ (a + k) + 1 = a + (k + 1) /\ (b + k) + 1 = b + (k + 1)
      OBVIOUS
  <2>2. /\ Weight(s, a) \in Nat /\ Weight(s, a + k) \in Nat
        /\ Weight(s, a + (k + 1)) = Weight(s, a + k) + UnitBytes(s[a + (k + 1)])
      BY <2>1, WeightStep
  <2>3. /\ Weight(t, b) \in Nat /\ Weight(t, b + k) \in Nat
        /\ Weight(t, b + (k + 1)) = Weight(t, b + k) + UnitBytes(t[b + (k + 1)])
      BY <2>1, WeightStep
  <2>4. UnitBytes(s[a + (k + 1)]) = UnitBytes(t[b + (k + 1)]) /\ UnitBytes(s[a + (k + 1)]) \in Nat
      BY <2>1 DEF Agree, UnitBytes
  <2>5. Weight(s, a + k) - Weight(s, a) = Weight(t, b + k) - Weight(t, b)
      BY <1>2
  <2>6. Weight(s, a + (k + 1)) - Weight(s, a) = Weight(t, b + (k + 1)) - Weight(t, b)
      BY <2>2, <2>3, <2>4, <2>5
  <2> QED BY <2>1, <2>6
<1>3. m \in S
  <2> HIDE DEF S
  <2>1. 0..m \subseteq S
      BY <1>1, <1>2, BoundedInduction
  <2> QED BY <2>1
<1> QED BY <1>3

LEMMA WeightSame ==
    ASSUME NEW s, NEW t, NEW m \in Nat, \A k \in 1..m : s[k] = t[k]
    PROVE  Weight(s, m) = Weight(t, m)
<1>1. Agree(s, 0, t, 0, m)
    BY DEF Agree
<1>2. Weight(s, 0 + m) - Weight(s, 0) = Weight(t, 0 + m) - Weight(t, 0)
  <2> DEFINE z == 0
  <2>1. z \in Nat /\ Agree(s, z, t, z, m)
      BY <1>1
  <2> HIDE DEF z
  <2>2. Weight(s, z + m) - Weight(s, z) = Weight(t, z + m) - Weight(t, z)
      BY <2>1, WeightShift
  <2> QED BY <2>2 DEF z
<1>3. /\ Weight(s, 0) = 0 /\ Weight(t, 0) = 0
      /\ Weight(s, m) \in Nat /\ Weight(t, m) \in Nat
    BY WeightZero, WeightStep
<1> QED BY <1>2, <1>3

---------------------------------------------------------------------------
(* What the scans of utf8.ts count.                                        *)

IsUnits(text) == IsSeq(text) /\ WellFormed(text)

\* No pair of text is cut at i.
Uncut(text, i) ==
    /\ i \in 0..Len(text)
    /\ i > 0 => text[i] \notin High
    /\ i < Len(text) => text[i + 1] \notin Low

LEMMA UncutAligned ==
    ASSUME NEW text, IsUnits(text), NEW i \in 0..Len(text)
    PROVE  Aligned(text, i) <=> Uncut(text, i)
<1>1. Len(text) \in Nat
    BY IsSeqLen DEF IsUnits
<1>2. ASSUME Aligned(text, i) PROVE Uncut(text, i)
  <2>1. ASSUME i > 0, text[i] \in High PROVE FALSE
    <3>1. i < Len(text) /\ text[i + 1] \in Low
        BY <1>1, <2>1 DEF IsUnits, WellFormed
    <3>2. i \in 1..(Len(text) - 1) /\ (i - 1) + 1 = i /\ (i - 1) + 2 = i + 1
        BY <1>1, <2>1, <3>1
    <3> QED BY <1>2, <2>1, <3>1, <3>2 DEF Aligned, Paired
  <2>2. ASSUME i < Len(text), text[i + 1] \in Low PROVE FALSE
    <3>1. i + 1 \in 1..Len(text) /\ (i + 1) - 1 = i
        BY <1>1, <2>2
    <3>2. i + 1 > 1 /\ text[i] \in High
        BY <2>2, <3>1 DEF IsUnits, WellFormed
    <3> QED BY <1>1, <2>1, <3>2
  <2> QED BY <2>1, <2>2 DEF Uncut
<1>3. ASSUME Uncut(text, i) PROVE Aligned(text, i)
  <2>1. ASSUME i \in 1..(Len(text) - 1) PROVE ~Paired(text, i - 1)
    <3>1. i > 0 /\ (i - 1) + 1 = i
        BY <1>1, <2>1
    <3> QED BY <1>3, <3>1 DEF Uncut, Paired
  <2> QED BY <2>1 DEF Aligned
<1> QED BY <1>2, <1>3

\* Both ends of a text are whole.
LEMMA UncutEnds ==
    ASSUME NEW text, IsUnits(text)
    PROVE  Uncut(text, 0) /\ Uncut(text, Len(text)) /\ Len(text) \in Nat
<1>1. Len(text) \in Nat
    BY IsSeqLen DEF IsUnits
<1>2. Aligned(text, 0) /\ Aligned(text, Len(text))
    BY <1>1 DEF Aligned
<1> QED BY <1>1, <1>2, UncutAligned

\* What stands before a place where no pair is cut.
LEMMA UncutSlice ==
    ASSUME NEW text, IsUnits(text), NEW to, Uncut(text, to)
    PROVE  LET slice == SubSeq(text, 1, to)
           IN  /\ IsUnits(slice) /\ Len(slice) = to /\ to \in Nat
               /\ \A k \in 1..to : slice[k] = text[k]
<1> DEFINE slice == SubSeq(text, 1, to)
<1>1. /\ Len(text) \in Nat /\ to \in 0..Len(text)
    BY IsSeqLen DEF IsUnits, Uncut
<1>2. 1 \in Nat \ {0} /\ to \in (1 - 1)..Len(text) /\ to - 1 + 1 = to
    BY <1>1
<1>3. /\ IsSeq(slice) /\ Len(slice) = to - 1 + 1
      /\ \A k \in 1..(to - 1 + 1) : slice[k] = text[1 + k - 1]
    BY <1>2, SegmentOK DEF IsUnits
<1>4. /\ Len(slice) = to
      /\ \A k \in 1..to : slice[k] = text[k]
    BY <1>1, <1>3
<1> HIDE DEF slice
<1>5. WellFormed(slice)
  <2>1. ASSUME NEW k \in 1..to
        PROVE  /\ slice[k] \in High => k < to /\ slice[k + 1] \in Low
               /\ slice[k] \in Low => k > 1 /\ slice[k - 1] \in High
    <3>1. k \in 1..Len(text)
        BY <1>1
    <3>2. /\ text[k] \in High => k < Len(text) /\ text[k + 1] \in Low
          /\ text[k] \in Low => k > 1 /\ text[k - 1] \in High
        BY <3>1 DEF IsUnits, WellFormed
    <3>3. ASSUME text[k] \in High PROVE k < to /\ slice[k + 1] \in Low
      <4>1. k # to
          BY <1>1, <3>3 DEF Uncut
      <4>2. k < to /\ k + 1 \in 1..to
          BY <1>1, <4>1
      <4> QED BY <1>4, <3>2, <3>3, <4>2
    <3>4. ASSUME text[k] \in Low PROVE k > 1 /\ slice[k - 1] \in High
      <4>1. k > 1 /\ k - 1 \in 1..to
          BY <1>1, <3>2, <3>4
      <4> QED BY <1>4, <3>2, <3>4, <4>1
    <3> QED BY <1>4, <3>3, <3>4
  <2> QED BY <1>4, <2>1 DEF WellFormed
<1> QED BY <1>1, <1>3, <1>4, <1>5 DEF IsUnits, slice

\* One when the scan starts between the two halves of a pair, else none.
Half(text, i) == IF i < Len(text) /\ text[i + 1] \in Low THEN 1 ELSE 0

\* The width charByteWidth returns is what the units of the character weigh.
LEMMA CharacterWeighs ==
    ASSUME NEW text, IsUnits(text), NEW i \in 0..(Len(text) - 1)
    PROVE  LET j == i + Units(text, i)
           IN  /\ j \in (i + 1)..Len(text)
               /\ Bytes(text, i) + Half(text, j)
                     = Weight(text, j) - Weight(text, i) + Half(text, i)
<1> DEFINE N == Len(text)
           u == text[i + 1]
<1>1. N \in Nat /\ i \in Nat /\ i + 1 \in 1..N
    BY IsSeqLen DEF IsUnits
<1>2. /\ u \in High => i + 1 < N /\ text[i + 2] \in Low
      /\ u \in Low => i + 1 > 1
  <2>1. (i + 1) + 1 = i + 2
      BY <1>1
  <2> QED BY <1>1, <2>1 DEF IsUnits, WellFormed
<1>3. /\ Weight(text, i) \in Nat /\ Weight(text, i + 1) = Weight(text, i) + UnitBytes(u)
    BY <1>1, WeightStep
<1>4. CASE u \in High
  <2>1. Paired(text, i)
      BY <1>1, <1>2, <1>4 DEF Paired
  <2>2. Bytes(text, i) = 4 /\ Units(text, i) = 2
    <3>1. u \notin Letter /\ u \notin Wide
        BY <1>4, OffsetsAssumption
    <3> QED BY <2>1, <3>1 DEF Bytes, Units
  <2>3. i + 2 \in (i + 1)..N /\ (i + 1) + 1 = i + 2 /\ i + 1 \in Nat
      BY <1>1, <1>2, <1>4
  <2>4. Weight(text, i + 2) = Weight(text, i + 1) + UnitBytes(text[i + 2])
      BY <2>3, WeightStep
  <2>5. UnitBytes(u) = 2 /\ UnitBytes(text[i + 2]) = 2
      BY <1>2, <1>4, OffsetsAssumption DEF UnitBytes
  <2>6. Half(text, i) = 0
      BY <1>4, OffsetsAssumption DEF Half
  <2>7. Half(text, i + 2) = 0
    <3>1. ASSUME i + 2 < N, text[(i + 2) + 1] \in Low PROVE FALSE
      <4>1. (i + 2) + 1 \in 1..N /\ ((i + 2) + 1) - 1 = i + 2
          BY <1>1, <3>1
      <4>2. text[i + 2] \in High
          BY <3>1, <4>1 DEF IsUnits, WellFormed
      <4> QED BY <1>2, <1>4, <4>2, OffsetsAssumption
    <3> QED BY <3>1 DEF Half
  <2>8. 4 = Weight(text, i + 2) - Weight(text, i)
      BY <1>3, <2>4, <2>5
  <2> QED BY <1>3, <2>2, <2>3, <2>6, <2>7, <2>8
<1>5. CASE u \notin High
  <2>1. ~Paired(text, i)
      BY <1>5 DEF Paired
  <2>2. Units(text, i) = 1 /\ i + 1 \in (i + 1)..N
      BY <1>1, <2>1 DEF Units
  <2>3. Half(text, i + 1) = 0
    <3>1. ASSUME i + 1 < N, text[(i + 1) + 1] \in Low PROVE FALSE
      <4>1. (i + 1) + 1 \in 1..N /\ ((i + 1) + 1) - 1 = i + 1
          BY <1>1, <3>1
      <4>2. text[i + 1] \in High
          BY <3>1, <4>1 DEF IsUnits, WellFormed
      <4> QED BY <1>5, <4>2
    <3> QED BY <3>1 DEF Half
  <2>4. CASE u \in Low
    <3>1. UnitBytes(u) = 2 /\ u \notin Letter /\ u \notin Wide
        BY <2>4, OffsetsAssumption DEF UnitBytes
    <3>2. Bytes(text, i) = 3
        BY <2>1, <2>4, <3>1 DEF Bytes
    <3>3. Half(text, i) = 1
        BY <1>1, <2>4 DEF Half
    <3> QED BY <1>3, <2>2, <2>3, <3>1, <3>2, <3>3
  <2>5. CASE u \notin Low
    <3>1. Bytes(text, i) = UnitBytes(u)
      <4>1. Letter \cap Wide = {}
          BY OffsetsAssumption
      <4> QED BY <1>5, <2>1, <2>5, <4>1 DEF Bytes, UnitBytes
    <3>2. Half(text, i) = 0
        BY <2>5 DEF Half
    <3>3. UnitBytes(u) \in Nat
        BY DEF UnitBytes
    <3> QED BY <1>3, <2>2, <2>3, <3>1, <3>2, <3>3
  <2> QED BY <2>4, <2>5
<1> QED BY <1>4, <1>5

\* The recursion of Utf8LengthBetween, as the function its definition describes.
BytesFrom(slice, from, to, n) ==
    n = [i \in from..(to + 1) |->
            IF i >= to THEN 0 ELSE Bytes(slice, i) + n[i + Units(slice, i)]]

\* There is one such function: it counts the weight that is left, and one byte
\* more where it starts between the halves of a pair.
LEMMA BytesLeft ==
    ASSUME NEW s, IsUnits(s), NEW from \in 0..Len(s)
    PROVE  /\ \E n : BytesFrom(s, from, Len(s), n)
           /\ \A n : BytesFrom(s, from, Len(s), n) =>
                 n[from] = Weight(s, Len(s)) - Weight(s, from) + Half(s, from)
<1> DEFINE N == Len(s)
           Next1(i) == i + Units(s, i)
           B(i) == Bytes(s, i)
           g(i) == IF i >= N THEN 0 ELSE Weight(s, N) - Weight(s, i) + Half(s, i)
           Loop(n) == n = [i \in from..(N + 1) |-> IF i >= N THEN 0 ELSE B(i) + n[Next1(i)]]
<1>1. N \in Nat
    BY IsSeqLen DEF IsUnits
<1>2. \A n : BytesFrom(s, from, N, n) <=> Loop(n)
    BY DEF BytesFrom
<1>3. g(N) = 0 /\ g(N + 1) = 0
    BY <1>1
<1>4. ASSUME NEW i \in from..(N - 1)
      PROVE  /\ Next1(i) \in (i + 1)..N
             /\ g(i) = B(i) + g(Next1(i))
  <2> DEFINE j == Next1(i)
  <2>1. i \in 0..(N - 1) /\ N \in Nat
      BY <1>1
  <2>2. /\ j \in (i + 1)..N
        /\ B(i) + Half(s, j) = Weight(s, j) - Weight(s, i) + Half(s, i)
      BY <2>1, CharacterWeighs
  <2>3. /\ Half(s, j) \in Nat /\ Half(s, i) \in Nat /\ B(i) \in Nat
        /\ j = N => Half(s, j) = 0
      BY <1>1 DEF Half, Bytes
  <2>4. Weight(s, i) \in Nat /\ Weight(s, j) \in Nat /\ Weight(s, N) \in Nat
    <3>1. i \in Nat /\ j \in Nat
        BY <2>1, <2>2
    <3> HIDE DEF j
    <3> QED BY <2>1, <3>1, WeightStep
  <2>5. /\ g(i) = Weight(s, N) - Weight(s, i) + Half(s, i)
        /\ g(j) = IF j >= N THEN 0 ELSE Weight(s, N) - Weight(s, j) + Half(s, j)
      BY <2>1
  <2> DEFINE wi == Weight(s, i)
             wj == Weight(s, j)
             wn == Weight(s, N)
             hi == Half(s, i)
             hj == Half(s, j)
             b == B(i)
             gi == g(i)
             gj == g(j)
  <2>6. j = N => wj = wn
      OBVIOUS
  <2> HIDE DEF j, wi, wj, wn, hi, hj, b, gi, gj, N
  <2>7. gi = b + gj
    <3>1. /\ gi = wn - wi + hi /\ gj = (IF j >= N THEN 0 ELSE wn - wj + hj)
          /\ b + hj = wj - wi + hi /\ (j = N => wj = wn /\ hj = 0)
          /\ wi \in Nat /\ wj \in Nat /\ wn \in Nat
          /\ hi \in Nat /\ hj \in Nat /\ b \in Nat /\ j \in (i + 1)..N
        BY <2>2, <2>3, <2>4, <2>5, <2>6 DEF wi, wj, wn, hi, hj, b, gi, gj
    <3>2. CASE j = N
        BY <2>1, <3>1, <3>2
    <3>3. CASE j # N
      <4>1. ~(j >= N)
          BY <2>1, <3>1, <3>3
      <4>2. gj = wn - wj + hj
          BY <3>1, <4>1
      <4> QED BY <3>1, <4>2
    <3> QED BY <3>2, <3>3
  <2> QED BY <2>2, <2>7 DEF j, b, gi, gj
<1> HIDE DEF g, B, Next1
<1>5. \E n : Loop(n)
  <2> DEFINE f == [i \in from..(N + 1) |-> g(i)]
  <2>1. ASSUME NEW i \in from..(N + 1)
        PROVE  g(i) = IF i >= N THEN 0 ELSE B(i) + f[Next1(i)]
    <3>1. CASE i >= N
      <4>1. i = N \/ i = N + 1
          BY <1>1, <3>1
      <4> QED BY <1>3, <3>1, <4>1
    <3>2. CASE ~(i >= N)
      <4>1. i \in from..(N - 1)
          BY <1>1, <3>2
      <4>2. Next1(i) \in (i + 1)..N /\ g(i) = B(i) + g(Next1(i))
          BY <1>4, <4>1
      <4>3. Next1(i) \in from..(N + 1)
          BY <1>1, <4>1, <4>2
      <4> QED BY <3>2, <4>2, <4>3
    <3> QED BY <3>1, <3>2
  <2>2. Loop(f)
      BY <2>1
  <2> QED BY <2>2
<1>6. ASSUME NEW n, Loop(n) PROVE n[from] = g(from)
  <2> DEFINE m == N - from
             S == {k \in 0..m : \A i \in (N - k)..(N + 1) : n[i] = g(i)}
  <2>1. m \in Nat
      BY <1>1
  <2>2. \A i \in from..(N + 1) : n[i] = IF i >= N THEN 0 ELSE B(i) + n[Next1(i)]
      BY <1>6
  <2> HIDE DEF Loop
  <2>3. 0 \in S
    <3>1. ASSUME NEW i \in (N - 0)..(N + 1) PROVE n[i] = g(i)
      <4>1. (i = N \/ i = N + 1) /\ i >= N /\ i \in from..(N + 1)
          BY <1>1
      <4> QED BY <1>3, <2>2, <4>1
    <3> QED BY <2>1, <3>1
  <2>4. ASSUME NEW k \in 0..(m - 1), k \in S PROVE k + 1 \in S
    <3>1. ASSUME NEW i \in (N - (k + 1))..(N + 1) PROVE n[i] = g(i)
      <4>1. CASE i \in (N - k)..(N + 1)
          BY <2>4, <4>1
      <4>2. CASE i \notin (N - k)..(N + 1)
        <5>1. i \in from..(N - 1) /\ i = N - k - 1 /\ i \in from..(N + 1) /\ ~(i >= N)
            BY <1>1, <4>2
        <5>2. Next1(i) \in (i + 1)..N /\ g(i) = B(i) + g(Next1(i))
            BY <1>4, <5>1
        <5>3. Next1(i) \in (N - k)..(N + 1)
            BY <1>1, <5>1, <5>2
        <5>4. n[Next1(i)] = g(Next1(i))
            BY <2>4, <5>3
        <5> QED BY <2>2, <5>1, <5>2, <5>4
      <4> QED BY <4>1, <4>2
    <3>2. k + 1 \in 0..m
        BY <2>1
    <3> QED BY <3>1, <3>2
  <2>5. m \in S
    <3> HIDE DEF S, m
    <3>1. 0..m \subseteq S
        BY <2>1, <2>3, <2>4, BoundedInduction
    <3> QED BY <2>1, <3>1
  <2>6. from \in (N - m)..(N + 1)
      BY <1>1
  <2> QED BY <2>5, <2>6
<1>7. g(from) = Weight(s, N) - Weight(s, from) + Half(s, from)
  <2>1. CASE from >= N
    <3>1. from = N
        BY <1>1, <2>1
    <3>2. Half(s, from) = 0 /\ Weight(s, from) \in Nat
        BY <1>1, <3>1, WeightStep DEF Half
    <3>3. g(from) = 0
        BY <1>3, <3>1
    <3> QED BY <3>1, <3>2, <3>3
  <2>2. CASE ~(from >= N)
      BY <2>2 DEF g
  <2> QED BY <2>1, <2>2
<1> QED BY <1>2, <1>5, <1>6, <1>7

\* Between two places where no pair is cut, utf8LengthBetween counts what the
\* units there weigh.
LEMMA LengthBetween ==
    ASSUME NEW text, IsUnits(text), NEW from, Uncut(text, from),
           NEW to, Uncut(text, to), from <= to
    PROVE  /\ Utf8LengthBetween(text, from, to) = Weight(text, to) - Weight(text, from)
           /\ from \in Nat /\ to \in Nat /\ Weight(text, from) \in Nat /\ Weight(text, to) \in Nat
<1> DEFINE s == SubSeq(text, 1, to)
           n == CHOOSE f : BytesFrom(s, from, to, f)
<1>1. /\ IsUnits(s) /\ Len(s) = to /\ to \in Nat
      /\ \A k \in 1..to : s[k] = text[k]
    BY UncutSlice
<1>2. /\ from \in 0..to /\ Len(text) \in Nat /\ to <= Len(text)
      /\ from < Len(text) => text[from + 1] \notin Low
    BY <1>1, IsSeqLen DEF Uncut, IsUnits
<1>3. Utf8LengthBetween(text, from, to) = n[from]
    BY DEF Utf8LengthBetween, BytesFrom
<1> HIDE DEF s
<1>4. /\ \E f : BytesFrom(s, from, to, f)
      /\ \A f : BytesFrom(s, from, to, f) =>
            f[from] = Weight(s, to) - Weight(s, from) + Half(s, from)
  <2>1. from \in 0..Len(s)
      BY <1>1, <1>2
  <2> QED BY <1>1, <2>1, BytesLeft
<1>5. BytesFrom(s, from, to, n)
    BY <1>4
<1> HIDE DEF n
<1>6. n[from] = Weight(s, to) - Weight(s, from) + Half(s, from)
    BY <1>4, <1>5
<1>7. Half(s, from) = 0
  <2>1. from < to => from + 1 \in 1..to /\ from < Len(text)
      BY <1>1, <1>2
  <2> QED BY <1>1, <1>2, <2>1 DEF Half
<1>8. ASSUME NEW k \in 0..to PROVE Weight(s, k) = Weight(text, k) /\ Weight(text, k) \in Nat
  <2>1. k \in Nat /\ \A i \in 1..k : s[i] = text[i]
      BY <1>1
  <2> QED BY <2>1, WeightSame, WeightStep
<1>9. /\ Weight(s, to) = Weight(text, to) /\ Weight(s, from) = Weight(text, from)
      /\ Weight(text, to) \in Nat /\ Weight(text, from) \in Nat
    BY <1>1, <1>2, <1>8
<1> QED BY <1>1, <1>2, <1>3, <1>6, <1>7, <1>9

\* utf8Length.
LEMMA LengthWeighs ==
    ASSUME NEW text, IsUnits(text)
    PROVE  Utf8Length(text) = Weight(text, Len(text))
<1>1. Uncut(text, 0) /\ Uncut(text, Len(text)) /\ Len(text) \in Nat
    BY UncutEnds
<1>2. /\ Utf8LengthBetween(text, 0, Len(text)) = Weight(text, Len(text)) - Weight(text, 0)
      /\ Weight(text, Len(text)) \in Nat /\ Weight(text, 0) = 0
    BY <1>1, LengthBetween, WeightZero
<1> QED BY <1>2 DEF Utf8Length

---------------------------------------------------------------------------
(* The line starts: ascending sequences of offsets.                        *)

Ascending(s) == \A i, j \in 1..Len(s) : i < j => s[i] < s[j]

\* s lists the numbers of S in ascending order.
Lists(s, S) ==
    /\ IsSeq(s) /\ Ascending(s)
    /\ S = {s[k] : k \in 1..Len(s)} /\ S \subseteq Nat

LEMMA ListsMore ==
    ASSUME NEW s, NEW t, NEW S, Lists(s, S), Lists(t, S), NEW k \in Nat,
           k < Len(s), k <= Len(t), \A i \in 1..k : s[i] = t[i]
    PROVE  k < Len(t) /\ t[k + 1] <= s[k + 1] /\ s[k + 1] \in Nat /\ t[k + 1] \in Nat
<1>1. Len(s) \in Nat /\ Len(t) \in Nat
    BY IsSeqLen DEF Lists
<1>2. k + 1 \in 1..Len(s)
    BY <1>1
<1>3. PICK j \in 1..Len(t) : s[k + 1] = t[j]
    BY <1>2 DEF Lists
<1>4. ~(j <= k)
  <2>1. SUFFICES ASSUME j <= k PROVE FALSE
      OBVIOUS
  <2>2. j \in 1..k /\ j \in 1..Len(s) /\ j < k + 1
      BY <1>1, <1>3, <2>1
  <2>3. s[j] < s[k + 1] /\ s[j] = s[k + 1]
      BY <1>2, <1>3, <2>2 DEF Lists, Ascending
  <2>4. s[k + 1] \in Nat
      BY <1>2 DEF Lists
  <2> QED BY <2>3, <2>4
<1>5. k < Len(t) /\ k + 1 \in 1..Len(t) /\ k + 1 <= j
    BY <1>1, <1>3, <1>4
<1>6. t[k + 1] \in Nat /\ t[j] \in Nat
    BY <1>3, <1>5 DEF Lists
<1>7. t[k + 1] <= t[j]
  <2>1. CASE k + 1 = j
      BY <1>6, <2>1
  <2>2. CASE k + 1 # j
    <3>1. k + 1 < j
        BY <1>3, <1>5, <2>2
    <3>2. t[k + 1] < t[j]
        BY <1>3, <1>5, <3>1 DEF Lists, Ascending
    <3> QED BY <1>6, <3>2
  <2> QED BY <2>1, <2>2
<1> QED BY <1>3, <1>5, <1>6, <1>7

\* There is one way to list them.
LEMMA ListsOne ==
    ASSUME NEW s, NEW t, NEW S, Lists(s, S), Lists(t, S)
    PROVE  s = t
<1> DEFINE N == Len(s)
           T == {k \in 0..N : k <= Len(t) /\ \A i \in 1..k : s[i] = t[i]}
<1>1. N \in Nat /\ Len(t) \in Nat /\ IsSeq(s) /\ IsSeq(t)
    BY IsSeqLen DEF Lists
<1>2. 0 \in T
    BY <1>1
<1>3. ASSUME NEW k \in 0..(N - 1), k \in T PROVE k + 1 \in T
  <2>1. k \in Nat /\ k < Len(s) /\ k <= Len(t) /\ k + 1 \in 0..N
        /\ \A i \in 1..k : s[i] = t[i] /\ t[i] = s[i]
      BY <1>1, <1>3
  <2>2. k < Len(t) /\ t[k + 1] <= s[k + 1] /\ s[k + 1] \in Nat /\ t[k + 1] \in Nat
      BY <2>1, ListsMore
  <2>3. s[k + 1] <= t[k + 1]
    <3>1. k <= Len(s)
        BY <1>1, <2>1
    <3> QED BY <2>1, <2>2, <3>1, ListsMore
  <2>4. s[k + 1] = t[k + 1]
      BY <2>2, <2>3
  <2>5. \A i \in 1..(k + 1) : i = k + 1 \/ i \in 1..k
      BY <2>1
  <2>6. k + 1 <= Len(t)
      BY <1>1, <2>1, <2>2
  <2> QED BY <2>1, <2>4, <2>5, <2>6
<1>4. N \in T
  <2> HIDE DEF T, N
  <2>1. 0..N \subseteq T
      BY <1>1, <1>2, <1>3, BoundedInduction
  <2> QED BY <1>1, <2>1
<1>5. ~(N < Len(t))
  <2>1. SUFFICES ASSUME N < Len(t) PROVE FALSE
      OBVIOUS
  <2>2. N < Len(s)
    <3>1. N <= Len(s) /\ \A i \in 1..N : t[i] = s[i]
        BY <1>1, <1>4
    <3> QED BY <1>1, <2>1, <3>1, ListsMore
  <2> QED BY <1>1, <2>2
<1>6. Len(s) = Len(t) /\ \A i \in 1..Len(s) : s[i] = t[i]
    BY <1>1, <1>4, <1>5
<1> QED BY <1>1, <1>6, IsSeqEqual

\* A function over 1..n is a sequence.
LEMMA IsSeqFunction ==
    ASSUME NEW n \in Nat, NEW f, f = [k \in 1..n |-> f[k]]
    PROVE  IsSeq(f) /\ Len(f) = n
<1> DEFINE V == {f[k] : k \in 1..n}
<1>1. \A k \in 1..n : f[k] \in V
    OBVIOUS
<1> HIDE DEF V
<1>2. f \in [1..n -> V]
    BY <1>1
<1>3. f \in Seq(V) /\ Len(f) = n
    BY <1>2
<1> QED BY <1>3, IsSeqIntro

\* A list and what comes after it.
LEMMA ListsCat ==
    ASSUME NEW s, NEW t, NEW A, NEW B, Lists(s, A), Lists(t, B),
           \A x \in A, y \in B : x < y
    PROVE  Lists(s \o t, A \cup B)
<1> DEFINE c == s \o t
           l == Len(s)
           m == Len(t)
<1>1. IsSeq(s) /\ IsSeq(t) /\ l \in Nat /\ m \in Nat
    BY IsSeqLen DEF Lists
<1>2. /\ IsSeq(c) /\ Len(c) = l + m
      /\ \A i \in 1..Len(c) : c[i] = IF i <= l THEN s[i] ELSE t[i - l]
    BY <1>1, IsSeqConcat
<1>3. /\ \A i \in 1..l : s[i] \in A /\ s[i] \in Nat
      /\ \A i \in 1..m : t[i] \in B /\ t[i] \in Nat
      /\ \A x \in A : \E i \in 1..l : x = s[i]
      /\ \A x \in B : \E i \in 1..m : x = t[i]
      /\ \A i, j \in 1..l : i < j => s[i] < s[j]
      /\ \A i, j \in 1..m : i < j => t[i] < t[j]
      /\ A \subseteq Nat /\ B \subseteq Nat
    BY DEF Lists, Ascending
<1> HIDE DEF c, l, m
<1>4. ASSUME NEW i \in 1..(l + m)
      PROVE  \/ i \in 1..l /\ c[i] = s[i]
             \/ i - l \in 1..m /\ i > l /\ c[i] = t[i - l]
  <2>1. c[i] = IF i <= l THEN s[i] ELSE t[i - l]
      BY <1>2
  <2> QED BY <1>1, <2>1
<1>5. ASSUME NEW i \in 1..(l + m), NEW j \in 1..(l + m), i < j PROVE c[i] < c[j]
  <2>1. CASE j \in 1..l /\ c[j] = s[j]
    <3>1. i \in 1..l /\ ~(i > l)
        BY <1>1, <1>5, <2>1
    <3> QED BY <1>3, <1>4, <1>5, <2>1, <3>1
  <2>2. CASE j - l \in 1..m /\ j > l /\ c[j] = t[j - l]
    <3>1. CASE i \in 1..l /\ c[i] = s[i]
        BY <1>3, <2>2, <3>1
    <3>2. CASE i - l \in 1..m /\ i > l /\ c[i] = t[i - l]
      <4>1. i - l < j - l
          BY <1>1, <1>5
      <4> QED BY <1>3, <2>2, <3>2, <4>1
    <3> QED BY <1>4, <3>1, <3>2
  <2> QED BY <1>4, <2>1, <2>2
<1>6. ASSUME NEW i \in 1..(l + m) PROVE c[i] \in A \cup B
    BY <1>3, <1>4
<1>7. ASSUME NEW x \in A PROVE \E i \in 1..(l + m) : x = c[i]
  <2>1. PICK i \in 1..l : x = s[i]
      BY <1>3
  <2>2. i \in 1..(l + m) /\ ~(i > l)
      BY <1>1
  <2>3. c[i] = s[i]
      BY <1>4, <2>2
  <2> QED BY <2>1, <2>2, <2>3
<1>8. ASSUME NEW x \in B PROVE \E i \in 1..(l + m) : x = c[i]
  <2>1. PICK i \in 1..m : x = t[i]
      BY <1>3
  <2>2. l + i \in 1..(l + m) /\ (l + i) - l = i /\ l + i \notin 1..l
      BY <1>1
  <2>3. c[l + i] = t[i]
      BY <1>4, <2>2
  <2> QED BY <2>1, <2>2, <2>3
<1>9. A \cup B = {c[i] : i \in 1..(l + m)}
    BY <1>6, <1>7, <1>8
<1>10. Lists(c, A \cup B)
    BY <1>2, <1>3, <1>5, <1>9 DEF Lists, Ascending
<1> QED BY <1>10 DEF c

LEMMA ListsNone == Lists(<< >>, {})
<1>1. IsSeq(<< >>) /\ Len(<< >>) = 0
    BY IsSeqEmpty
<1> QED BY <1>1 DEF Lists, Ascending

LEMMA ListsSingle == ASSUME NEW x \in Nat PROVE Lists(<<x>>, {x})
<1>1. IsSeq(<<x>>) /\ Len(<<x>>) = 1 /\ <<x>>[1] = x
    BY IsSeqOne
<1> DEFINE s == <<x>>
<1> HIDE DEF s
<1>2. IsSeq(s) /\ Len(s) = 1 /\ s[1] = x
    BY <1>1 DEF s
<1>3. Lists(s, {x})
    BY <1>2 DEF Lists, Ascending
<1> QED BY <1>3 DEF s

\* The numbers up to the n-th.
LEMMA ListsFront ==
    ASSUME NEW s, NEW S, Lists(s, S), NEW n \in 1..Len(s)
    PROVE  /\ Lists(SubSeq(s, 1, n), {x \in S : x <= s[n]})
           /\ Len(SubSeq(s, 1, n)) = n
           /\ \A k \in 1..n : SubSeq(s, 1, n)[k] = s[k]
<1> DEFINE f == SubSeq(s, 1, n)
           N == Len(s)
<1>1. N \in Nat /\ IsSeq(s)
    BY IsSeqLen DEF Lists
<1>2. 1 \in Nat \ {0} /\ n \in (1 - 1)..Len(s) /\ n - 1 + 1 = n
    BY <1>1
<1>3. /\ IsSeq(f) /\ Len(f) = n - 1 + 1
      /\ \A k \in 1..(n - 1 + 1) : f[k] = s[1 + k - 1]
    BY <1>1, <1>2, SegmentOK
<1> HIDE DEF f
<1>4. IsSeq(f) /\ Len(f) = n /\ \A k \in 1..n : f[k] = s[k]
    BY <1>2, <1>3
<1>5. /\ \A i, j \in 1..N : i < j => s[i] < s[j]
      /\ \A i \in 1..N : s[i] \in S /\ s[i] \in Nat
      /\ \A x \in S : \E i \in 1..N : x = s[i]
      /\ S \subseteq Nat
    BY DEF Lists, Ascending
<1> HIDE DEF N
<1>6. n \in 1..N
    BY DEF N
<1>7. \A i \in 1..N : s[i] <= s[n] <=> i \in 1..n
  <2>1. ASSUME NEW i \in 1..N PROVE s[i] <= s[n] <=> i \in 1..n
    <3>1. s[i] \in Nat /\ s[n] \in Nat
        BY <1>5, <1>6
    <3>2. CASE i < n
        BY <1>5, <1>6, <3>1, <3>2
    <3>3. CASE i = n
        BY <3>1, <3>3
    <3>4. CASE n < i
      <4>1. s[n] < s[i] /\ i \notin 1..n
          BY <1>5, <1>6, <3>4
      <4> QED BY <3>1, <4>1
    <3> QED BY <1>1, <1>6, <3>2, <3>3, <3>4
  <2> QED BY <2>1
<1>8. \A i \in 1..n : i \in 1..N
    BY <1>1, <1>6
<1>9. {x \in S : x <= s[n]} = {f[k] : k \in 1..n}
  <2>1. ASSUME NEW x \in S, x <= s[n] PROVE \E k \in 1..n : x = f[k]
    <3>1. PICK i \in 1..N : x = s[i]
        BY <1>5
    <3>2. i \in 1..n
        BY <1>7, <2>1, <3>1
    <3> QED BY <1>4, <3>1, <3>2
  <2>2. ASSUME NEW k \in 1..n PROVE f[k] \in S /\ f[k] <= s[n]
      BY <1>4, <1>5, <1>7, <1>8
  <2> QED BY <2>1, <2>2
<1>10. \A i, j \in 1..n : i < j => f[i] < f[j]
    BY <1>4, <1>5, <1>8
<1>11. Lists(f, {x \in S : x <= s[n]})
    BY <1>4, <1>5, <1>9, <1>10 DEF Lists, Ascending
<1> QED BY <1>4, <1>11 DEF f

\* The numbers after the n-th, moved by d.
Shifted(s, n, d) == [k \in 1..(Len(s) - n) |-> s[n + k] + d]
Beyond(S, v, d) == {x + d : x \in {y \in S : y > v}}

LEMMA ListsRest ==
    ASSUME NEW s, NEW S, Lists(s, S), NEW n \in 1..Len(s), NEW d \in Int,
           \A x \in S : x > s[n] => x + d \in Nat
    PROVE  Lists(Shifted(s, n, d), Beyond(S, s[n], d))
<1> DEFINE N == Len(s)
           m == N - n
           rest == [k \in 1..m |-> s[n + k] + d]
           R == {x + d : x \in {y \in S : y > s[n]}}
<1>1. N \in Nat /\ m \in Nat /\ n \in 1..N
    BY IsSeqLen DEF Lists
<1>2. /\ \A i, j \in 1..N : i < j => s[i] < s[j]
      /\ \A i \in 1..N : s[i] \in S /\ s[i] \in Nat
      /\ \A x \in S : \E i \in 1..N : x = s[i]
      /\ S \subseteq Nat
    BY DEF Lists, Ascending
<1>3. IsSeq(rest) /\ Len(rest) = m /\ \A k \in 1..m : rest[k] = s[n + k] + d
  <2> HIDE DEF m
  <2>1. \A k \in 1..m : rest[k] = s[n + k] + d
      OBVIOUS
  <2>2. DOMAIN rest = 1..m /\ rest = [k \in 1..m |-> rest[k]]
      OBVIOUS
  <2> HIDE DEF rest
  <2>3. IsSeq(rest) /\ Len(rest) = m
      BY <1>1, <2>2, IsSeqFunction
  <2> QED BY <2>1, <2>3
<1> HIDE DEF N, rest
<1>4. \A k \in 1..m : n + k \in 1..N /\ n < n + k
    BY <1>1
<1>5. \A i \in 1..N : s[i] > s[n] => i - n \in 1..m
  <2>1. ASSUME NEW i \in 1..N, s[i] > s[n] PROVE i - n \in 1..m
    <3>1. s[i] \in Nat /\ s[n] \in Nat /\ ~(s[i] <= s[n])
        BY <1>1, <1>2, <2>1
    <3>2. ~(i < n) /\ i # n
        BY <1>1, <1>2, <3>1
    <3> QED BY <1>1, <3>2
  <2> QED BY <2>1
<1>6. ASSUME NEW k \in 1..m
      PROVE  s[n + k] \in S /\ s[n + k] > s[n] /\ rest[k] = s[n + k] + d /\ rest[k] \in Nat
  <2>1. n + k \in 1..N /\ n < n + k
      BY <1>4
  <2>2. s[n + k] \in S /\ s[n + k] \in Nat /\ s[n] \in Nat /\ s[n] < s[n + k]
      BY <1>1, <1>2, <2>1
  <2>3. s[n + k] > s[n]
      BY <2>2
  <2> QED BY <1>3, <2>2, <2>3
<1>7. R = {rest[k] : k \in 1..m}
  <2>1. ASSUME NEW x \in S, x > s[n] PROVE \E k \in 1..m : x + d = rest[k]
    <3>1. PICK i \in 1..N : x = s[i]
        BY <1>2
    <3>2. i - n \in 1..m /\ n + (i - n) = i
        BY <1>1, <1>5, <2>1, <3>1
    <3>3. rest[i - n] = s[n + (i - n)] + d
        BY <1>3, <3>2
    <3> QED BY <3>1, <3>2, <3>3
  <2>2. ASSUME NEW k \in 1..m PROVE rest[k] \in R
      BY <1>6
  <2> QED BY <2>1, <2>2
<1>8. ASSUME NEW i \in 1..m, NEW j \in 1..m, i < j PROVE rest[i] < rest[j]
  <2>1. n + i \in 1..N /\ n + j \in 1..N /\ n + i < n + j
      BY <1>1, <1>4, <1>8
  <2>2. s[n + i] < s[n + j] /\ s[n + i] \in Nat /\ s[n + j] \in Nat
      BY <1>2, <2>1
  <2> QED BY <1>3, <2>2
<1>9. R \subseteq Nat
    BY <1>6, <1>7
<1> HIDE DEF m, R
<1>10. Lists(rest, R)
    BY <1>3, <1>7, <1>8, <1>9 DEF Lists, Ascending
<1> QED BY <1>10 DEF rest, R, m, N, Shifted, Beyond

\* The binary search: the last of the listed numbers that is not past v.
LEMMA UpperBoundOK ==
    ASSUME NEW s, NEW S, Lists(s, S), NEW v \in Nat, \E x \in S : x <= v
    PROVE  LET k == UpperBound(s, v)
           IN  /\ k \in 1..Len(s) /\ s[k] <= v /\ s[k] \in S /\ s[k] \in Nat
               /\ k < Len(s) => s[k + 1] > v /\ s[k + 1] \in S /\ s[k + 1] \in Nat
               /\ \A x \in S : x <= v <=> x <= s[k]
               /\ \A x \in S : x > s[k] => k < Len(s) /\ s[k + 1] <= x
<1> DEFINE N == Len(s)
           Here(k) == s[k] <= v /\ (k < N => s[k + 1] > v)
           u == UpperBound(s, v)
<1>1. N \in Nat /\ DOMAIN s = 1..N
    BY IsSeqLen DEF Lists
<1>2. /\ \A i, j \in 1..N : i < j => s[i] < s[j]
      /\ \A i \in 1..N : s[i] \in S /\ s[i] \in Nat
      /\ \A x \in S : \E i \in 1..N : x = s[i]
    BY DEF Lists, Ascending
<1>3. \E k \in 1..N : Here(k)
  <2> DEFINE T == {k \in 0..N : \E i \in 1..N : i >= k /\ s[i] <= v}
  <2>1. SUFFICES ASSUME \A k \in 1..N : ~Here(k) PROVE FALSE
      OBVIOUS
  <2>2. 0 \in T
    <3>1. PICK x \in S : x <= v
        OBVIOUS
    <3>2. PICK i \in 1..N : x = s[i]
        BY <1>2
    <3> QED BY <1>1, <3>1, <3>2
  <2>3. ASSUME NEW k \in 0..(N - 1), k \in T PROVE k + 1 \in T
    <3>1. PICK i \in 1..N : i >= k /\ s[i] <= v
        BY <2>3
    <3>2. i < N /\ ~(s[i + 1] > v)
        BY <2>1, <3>1
    <3>3. i + 1 \in 1..N /\ i + 1 >= k + 1
        BY <1>1, <3>1, <3>2
    <3>4. s[i + 1] <= v
        BY <1>2, <3>2, <3>3
    <3> QED BY <1>1, <3>3, <3>4
  <2>4. N \in T
    <3> HIDE DEF T, N
    <3>1. 0..N \subseteq T
        BY <1>1, <2>2, <2>3, BoundedInduction
    <3> QED BY <1>1, <3>1
  <2>5. PICK i \in 1..N : i >= N /\ s[i] <= v
      BY <2>4
  <2>6. i = N
    <3> HIDE DEF N
    <3> QED BY <1>1, <2>5
  <2> QED BY <1>1, <2>1, <2>5, <2>6
<1>4. u \in 1..N /\ Here(u)
  <2>1. u = CHOOSE k \in 1..N : Here(k)
      BY <1>1 DEF UpperBound
  <2> HIDE DEF u, Here
  <2> QED BY <1>3, <2>1
<1> HIDE DEF u
<1>5. s[u] \in S /\ s[u] \in Nat
    BY <1>2, <1>4
<1>6. u < N => u + 1 \in 1..N /\ s[u + 1] \in S /\ s[u + 1] \in Nat
    BY <1>1, <1>2, <1>4
<1>7. ASSUME NEW x \in S, x > s[u] PROVE u < N /\ s[u + 1] <= x /\ x \in Nat
  <2>1. PICK i \in 1..N : x = s[i]
      BY <1>2
  <2>2. s[i] \in Nat
      BY <1>2
  <2>3. ~(i < u) /\ i # u
      BY <1>2, <1>4, <1>5, <1>7, <2>1, <2>2
  <2>4. u < N /\ u + 1 <= i
      BY <1>1, <1>4, <2>3
  <2>5. s[u + 1] > v /\ s[u + 1] \in Nat /\ u + 1 \in 1..N
      BY <1>4, <1>6, <2>4
  <2>6. s[u + 1] <= s[i]
    <3>1. CASE u + 1 = i
        BY <2>2, <3>1
    <3>2. CASE u + 1 # i
      <4>1. u + 1 < i
          BY <1>1, <2>4, <2>5, <3>2
      <4>2. s[u + 1] < s[i]
          BY <1>2, <2>5, <4>1
      <4> QED BY <2>2, <2>5, <4>2
    <3> QED BY <3>1, <3>2
  <2> QED BY <2>1, <2>2, <2>4, <2>6
<1>8. ASSUME NEW x \in S PROVE x <= v <=> x <= s[u]
  <2>1. x \in Nat
      BY DEF Lists
  <2>2. ASSUME x <= s[u] PROVE x <= v
      BY <1>4, <1>5, <2>1, <2>2
  <2>3. ASSUME ~(x <= s[u]) PROVE ~(x <= v)
    <3>1. x > s[u]
        BY <1>5, <2>1, <2>3
    <3>2. u < N /\ s[u + 1] <= x /\ s[u + 1] \in Nat /\ s[u + 1] > v
        BY <1>4, <1>6, <1>7, <3>1
    <3> QED BY <2>1, <3>2
  <2> QED BY <2>2, <2>3
<1> QED BY <1>4, <1>5, <1>6, <1>7, <1>8 DEF u

\* The offsets after the newlines among the units after from, up to to.
NewlinesIn(text, from, to) == {i \in (from + 1)..to : text[i] = Newline}

LEMMA LineStartsOK ==
    ASSUME NEW text, NEW from \in Nat, NEW to \in Nat, from <= to
    PROVE  Lists(LineStarts(text, from, to), NewlinesIn(text, from, to))
<1> DEFINE N == to - from
           Step(v, i) == IF text[i] = Newline THEN Append(v, i) ELSE v
           Loop(f, m) == f = [i \in from..m |-> IF i = from THEN << >> ELSE Step(f[i - 1], i)]
           S == {k \in 0..N : \E f : Loop(f, from + k)}
           run == CHOOSE f : Loop(f, to)
           T == {k \in 0..N : Lists(run[from + k], NewlinesIn(text, from, from + k))}
<1>1. N \in Nat /\ from + N = to
    OBVIOUS
<1>2. LineStarts(text, from, to) = run[to]
    BY DEF LineStarts
<1>3. \A v, i : Step(v, i) = IF text[i] = Newline THEN Append(v, i) ELSE v
    OBVIOUS
<1> HIDE DEF N, Step
<1>4. 0 \in S
  <2>1. from + 0 = from
      OBVIOUS
  <2>2. Loop([i \in from..from |-> << >>], from)
      OBVIOUS
  <2> HIDE DEF Loop
  <2> QED BY <1>1, <2>1, <2>2
<1>5. ASSUME NEW k \in 0..(N - 1), k \in S PROVE k + 1 \in S
  <2> DEFINE m == from + k
  <2>1. PICK f : Loop(f, m)
      BY <1>5
  <2>2. m \in Nat /\ m >= from /\ m + 1 = from + (k + 1) /\ k + 1 \in 0..N
      BY <1>1
  <2> HIDE DEF m
  <2> DEFINE g == [i \in from..(m + 1) |-> IF i <= m THEN f[i] ELSE Step(f[m], m + 1)]
  <2>3. \A i \in from..m : g[i] = f[i]
    <3>1. \A i \in from..m : i \in from..(m + 1) /\ i <= m
        BY <2>2
    <3> QED BY <3>1
  <2>4. g[m + 1] = Step(f[m], m + 1)
      BY <2>2
  <2>5. ASSUME NEW i \in from..(m + 1)
        PROVE  g[i] = IF i = from THEN << >> ELSE Step(g[i - 1], i)
    <3> HIDE DEF g
    <3>1. CASE i = m + 1
      <4>1. i # from /\ i - 1 = m /\ m \in from..m
          BY <2>2, <3>1
      <4> QED BY <2>3, <2>4, <3>1, <4>1
    <3>2. CASE i # m + 1
      <4>1. i \in from..m /\ (i # from => i - 1 \in from..m)
          BY <2>2, <3>2
      <4>2. f[i] = IF i = from THEN << >> ELSE Step(f[i - 1], i)
          BY <2>1, <4>1
      <4> QED BY <2>3, <4>1, <4>2
    <3> QED BY <3>1, <3>2
  <2>6. Loop(g, m + 1)
    <3>1. g = [i \in from..(m + 1) |-> g[i]]
        OBVIOUS
    <3> HIDE DEF g
    <3> QED BY <2>5, <3>1
  <2> HIDE DEF Loop, g
  <2> QED BY <2>2, <2>6
<1>6. N \in S
  <2> HIDE DEF S
  <2>1. 0..N \subseteq S
      BY <1>1, <1>4, <1>5, BoundedInduction
  <2> QED BY <1>1, <2>1
<1>7. Loop(run, to)
  <2>1. \E f : Loop(f, to)
      BY <1>1, <1>6
  <2> HIDE DEF Loop
  <2> QED BY <2>1
<1> HIDE DEF run, S
<1>8. /\ run[from] = << >>
      /\ \A i \in from..to : i # from => run[i] = Step(run[i - 1], i)
    BY <1>7
<1>9. 0 \in T
  <2>1. from + 0 = from /\ (from + 1)..from = {}
      OBVIOUS
  <2>2. NewlinesIn(text, from, from) = {}
      BY <2>1 DEF NewlinesIn
  <2>3. Lists(run[from], NewlinesIn(text, from, from))
      BY <1>8, <2>2, ListsNone
  <2>4. Lists(run[from + 0], NewlinesIn(text, from, from + 0))
      BY <2>1, <2>3
  <2> QED BY <1>1, <2>4
<1>10. ASSUME NEW k \in 0..(N - 1), k \in T PROVE k + 1 \in T
  <2> DEFINE i == from + (k + 1)
             v == run[from + k]
             A == NewlinesIn(text, from, from + k)
  <2>1. /\ i \in Nat /\ i \in from..to /\ i # from /\ i - 1 = from + k /\ k + 1 \in 0..N
        /\ (from + 1)..i = (from + 1)..(from + k) \cup {i}
        /\ \A x \in (from + 1)..(from + k) : x < i
      BY <1>1
  <2>2. run[i] = Step(v, i)
      BY <1>8, <2>1
  <2>3. Lists(v, A)
      BY <1>10
  <2>4. Lists(run[i], NewlinesIn(text, from, i))
    <3> HIDE DEF v
    <3>1. CASE text[i] = Newline
      <4>1. NewlinesIn(text, from, i) = A \cup {i} /\ \A x \in A, y \in {i} : x < y
          BY <2>1, <3>1 DEF NewlinesIn
      <4>2. run[i] = v \o <<i>>
          BY <1>3, <2>2, <2>3, <3>1, IsSeqAppendOne DEF Lists
      <4> HIDE DEF A, i
      <4>3. Lists(<<i>>, {i})
          BY <2>1, ListsSingle
      <4>4. Lists(v \o <<i>>, A \cup {i})
          BY <2>3, <4>1, <4>3, ListsCat
      <4> QED BY <4>1, <4>2, <4>4
    <3>2. CASE text[i] # Newline
      <4>1. NewlinesIn(text, from, i) = A
          BY <2>1, <3>2 DEF NewlinesIn
      <4> QED BY <1>3, <2>2, <2>3, <3>2, <4>1
    <3> QED BY <3>1, <3>2
  <2> QED BY <2>1, <2>4
<1>11. N \in T
  <2> HIDE DEF T
  <2>1. 0..N \subseteq T
      BY <1>1, <1>9, <1>10, BoundedInduction
  <2> QED BY <1>1, <2>1
<1> QED BY <1>1, <1>2, <1>11

\* The offsets at which the lines of text start.
Starts(text) == {0} \cup NewlinesIn(text, 0, Len(text))

\* No line starts between the halves of a pair.
LEMMA StartsUncut ==
    ASSUME NEW text, IsUnits(text), NEW x \in Starts(text)
    PROVE  Uncut(text, x)
<1>1. Len(text) \in Nat /\ Uncut(text, 0)
    BY UncutEnds
<1>2. CASE x = 0
    BY <1>1, <1>2
<1>3. CASE x # 0
  <2>1. x \in (0 + 1)..Len(text) /\ text[x] = Newline
      BY <1>3 DEF Starts, NewlinesIn
  <2>2. x \in 0..Len(text) /\ text[x] \notin High
      BY <1>1, <2>1, OffsetsAssumption
  <2>3. ASSUME x < Len(text), text[x + 1] \in Low PROVE FALSE
    <3>1. x + 1 \in 1..Len(text) /\ (x + 1) - 1 = x
        BY <1>1, <2>1, <2>3
    <3>2. text[x] \in High
        BY <2>3, <3>1 DEF IsUnits, WellFormed
    <3> QED BY <2>2, <3>2
  <2> QED BY <2>2, <2>3 DEF Uncut
<1> QED BY <1>2, <1>3

\* t holds, for every member of s, how many bytes of text stand before it.
Weighs(s, t, text) ==
    /\ IsSeq(s) /\ IsSeq(t) /\ Len(t) = Len(s)
    /\ \A k \in 1..Len(s) : t[k] = Weight(text, s[k])

LEMMA WeighsCat ==
    ASSUME NEW text, NEW s1, NEW t1, NEW s2, NEW t2,
           Weighs(s1, t1, text), Weighs(s2, t2, text)
    PROVE  Weighs(s1 \o s2, t1 \o t2, text)
<1> DEFINE s == s1 \o s2
           t == t1 \o t2
<1>1. /\ IsSeq(s1) /\ IsSeq(t1) /\ Len(t1) = Len(s1) /\ Len(s1) \in Nat
      /\ IsSeq(s2) /\ IsSeq(t2) /\ Len(t2) = Len(s2) /\ Len(s2) \in Nat
      /\ \A k \in 1..Len(s1) : t1[k] = Weight(text, s1[k])
      /\ \A k \in 1..Len(s2) : t2[k] = Weight(text, s2[k])
    BY IsSeqLen DEF Weighs
<1>2. /\ IsSeq(s) /\ Len(s) = Len(s1) + Len(s2)
      /\ \A i \in 1..Len(s) : s[i] = IF i <= Len(s1) THEN s1[i] ELSE s2[i - Len(s1)]
    BY <1>1, IsSeqConcat
<1>3. /\ IsSeq(t) /\ Len(t) = Len(s)
      /\ \A i \in 1..Len(t) : t[i] = IF i <= Len(s1) THEN t1[i] ELSE t2[i - Len(s1)]
  <2>1. /\ IsSeq(t) /\ Len(t) = Len(t1) + Len(t2)
        /\ \A i \in 1..Len(t) : t[i] = IF i <= Len(t1) THEN t1[i] ELSE t2[i - Len(t1)]
      BY <1>1, IsSeqConcat
  <2> HIDE DEF s, t
  <2> QED BY <1>1, <1>2, <2>1
<1> HIDE DEF s, t
<1>4. ASSUME NEW i \in 1..Len(s) PROVE t[i] = Weight(text, s[i])
  <2>1. CASE i <= Len(s1)
    <3>1. i \in 1..Len(s1) /\ i \in 1..Len(t)
        BY <1>1, <1>3, <2>1
    <3> QED BY <1>1, <1>2, <1>3, <2>1, <3>1
  <2>2. CASE ~(i <= Len(s1))
    <3>1. i - Len(s1) \in 1..Len(s2) /\ i \in 1..Len(t)
        BY <1>1, <1>2, <1>3, <2>2
    <3>2. s[i] = s2[i - Len(s1)] /\ t[i] = t2[i - Len(s1)]
        BY <1>2, <1>3, <2>2, <3>1
    <3> QED BY <1>1, <3>1, <3>2
  <2> QED BY <2>1, <2>2
<1>5. Weighs(s, t, text)
    BY <1>2, <1>3, <1>4 DEF Weighs
<1> QED BY <1>5 DEF s, t

LEMMA WeighsOne ==
    ASSUME NEW text, NEW s, NEW t1, NEW t2, Weighs(s, t1, text), Weighs(s, t2, text)
    PROVE  t1 = t2
BY IsSeqEqual DEF Weighs

\* The weights of listed offsets are listed too.
LEMMA WeighsLists ==
    ASSUME NEW text, NEW s, NEW S, Lists(s, S), NEW t, Weighs(s, t, text)
    PROVE  Lists(t, {Weight(text, x) : x \in S})
<1>1. /\ IsSeq(t) /\ Len(t) = Len(s)
      /\ \A k \in 1..Len(s) : t[k] = Weight(text, s[k])
      /\ \A i, j \in 1..Len(s) : i < j => s[i] < s[j]
      /\ \A i \in 1..Len(s) : s[i] \in S /\ s[i] \in Nat
      /\ \A x \in S : \E i \in 1..Len(s) : x = s[i]
      /\ S \subseteq Nat
    BY DEF Lists, Ascending, Weighs
<1>2. \A i, j \in 1..Len(t) : i < j => t[i] < t[j]
    BY <1>1, WeightGrows
<1>3. {Weight(text, x) : x \in S} = {t[k] : k \in 1..Len(t)}
    BY <1>1
<1>4. {Weight(text, x) : x \in S} \subseteq Nat
    BY <1>1, WeightStep
<1> QED BY <1>1, <1>2, <1>3, <1>4 DEF Lists, Ascending

---------------------------------------------------------------------------
(* The index.                                                              *)

\* What the code keeps of text.
IsIndex(index, text) ==
    /\ index.text = text
    /\ Lists(index.u16, Starts(text))
    /\ Weighs(index.u16, index.u8, text)
    /\ index.total = Weight(text, Len(text))

LEMMA IndexBuilt ==
    ASSUME NEW text, IsUnits(text)
    PROVE  IsIndex(OffsetIndex(text), text)
<1> DEFINE u16 == <<0>> \o LineStarts(text, 0, Len(text))
           u8 == [k \in DOMAIN u16 |-> Utf8LengthBetween(text, 0, u16[k])]
           S == NewlinesIn(text, 0, Len(text))
<1>1. Len(text) \in Nat /\ Uncut(text, 0)
    BY UncutEnds
<1>2. Lists(u16, Starts(text))
  <2> DEFINE z == 0
             rest == LineStarts(text, 0, Len(text))
  <2>1. Lists(rest, S)
      BY <1>1, LineStartsOK
  <2>2. z \in Nat /\ \A x \in {z}, y \in S : x < y
      BY <1>1 DEF NewlinesIn
  <2> HIDE DEF z, rest, S
  <2>3. Lists(<<z>>, {z})
      BY <2>2, ListsSingle
  <2>4. Lists(<<z>> \o rest, {z} \cup S)
      BY <2>1, <2>2, <2>3, ListsCat
  <2> QED BY <2>4 DEF z, rest, S, Starts
<1> HIDE DEF u16
<1>3. IsSeq(u16) /\ DOMAIN u16 = 1..Len(u16) /\ Len(u16) \in Nat
      /\ \A k \in 1..Len(u16) : u16[k] \in Starts(text)
    BY <1>2, IsSeqLen DEF Lists
<1>4. ASSUME NEW x \in Starts(text) PROVE Utf8LengthBetween(text, 0, x) = Weight(text, x)
  <2>1. Uncut(text, x)
      BY StartsUncut
  <2>2. 0 <= x
      BY <2>1 DEF Uncut
  <2>3. /\ Utf8LengthBetween(text, 0, x) = Weight(text, x) - Weight(text, 0)
        /\ Weight(text, x) \in Nat
      BY <1>1, <2>1, <2>2, LengthBetween
  <2> QED BY <2>3, WeightZero
<1>5. Weighs(u16, u8, text)
  <2>1. DOMAIN u8 = 1..Len(u16) /\ u8 = [k \in 1..Len(u16) |-> u8[k]]
      BY <1>3
  <2>2. \A k \in 1..Len(u16) : u8[k] = Weight(text, u16[k])
      BY <1>3, <1>4
  <2> HIDE DEF u8
  <2>3. IsSeq(u8) /\ Len(u8) = Len(u16)
      BY <1>3, <2>1, IsSeqFunction
  <2> QED BY <1>3, <2>2, <2>3 DEF Weighs
<1>6. OffsetIndex(text) = [text |-> text, u16 |-> u16, u8 |-> u8, total |-> Utf8Length(text)]
    BY DEF OffsetIndex, u16
<1> HIDE DEF u8
<1> QED BY <1>2, <1>5, <1>6, LengthWeighs DEF IsIndex

\* There is one index of a text.
LEMMA IndexOne ==
    ASSUME NEW text, IsUnits(text), NEW u16, NEW u8, NEW total,
           IsIndex([text |-> text, u16 |-> u16, u8 |-> u8, total |-> total], text)
    PROVE  [text |-> text, u16 |-> u16, u8 |-> u8, total |-> total] = OffsetIndex(text)
<1> DEFINE index == OffsetIndex(text)
<1>1. index = [text |-> index.text, u16 |-> index.u16, u8 |-> index.u8, total |-> index.total]
    BY DEF OffsetIndex
<1>2. IsIndex(index, text)
    BY IndexBuilt
<1> HIDE DEF index
<1>3. /\ Lists(u16, Starts(text)) /\ Weighs(u16, u8, text)
      /\ total = Weight(text, Len(text))
    BY DEF IsIndex
<1>4. /\ index.text = text /\ Lists(index.u16, Starts(text))
      /\ Weighs(index.u16, index.u8, text) /\ index.total = total
    BY <1>2, <1>3 DEF IsIndex
<1>5. index.u16 = u16
    BY <1>3, <1>4, ListsOne
<1>6. index.u8 = u8
    BY <1>3, <1>4, <1>5, WeighsOne
<1> QED BY <1>1, <1>4, <1>5, <1>6 DEF index

\* The line on which the unit at pos stands: it starts where no pair is cut,
\* and no further on.
LEMMA LineOf ==
    ASSUME NEW text, IsUnits(text), NEW index, IsIndex(index, text), NEW pos \in 0..Len(text)
    PROVE  LET line == UpperBound(index.u16, pos)
               start == index.u16[line]
           IN  /\ line \in 1..Len(index.u16) /\ start <= pos
               /\ start \in Starts(text) /\ start \in Nat /\ Uncut(text, start)
               /\ index.u8[line] = Weight(text, start)
               /\ line < Len(index.u16) => /\ index.u16[line + 1] > pos
                                           /\ index.u16[line + 1] \in Starts(text)
                                           /\ index.u16[line + 1] \in Nat
               /\ \A x \in Starts(text) : x <= pos <=> x <= start
               /\ \A x \in Starts(text) :
                     x > start => line < Len(index.u16) /\ index.u16[line + 1] <= x
<1> DEFINE u16 == index.u16
           line == UpperBound(u16, pos)
<1>1. Lists(u16, Starts(text)) /\ Weighs(u16, index.u8, text)
    BY DEF IsIndex
<1>2. pos \in Nat /\ 0 \in Starts(text) /\ 0 <= pos
    BY UncutEnds DEF Starts
<1>3. \E x \in Starts(text) : x <= pos
    BY <1>2
<1> HIDE DEF u16
<1>4. /\ line \in 1..Len(u16) /\ u16[line] <= pos /\ u16[line] \in Starts(text)
      /\ u16[line] \in Nat
      /\ line < Len(u16) => /\ u16[line + 1] > pos /\ u16[line + 1] \in Starts(text)
                            /\ u16[line + 1] \in Nat
      /\ \A x \in Starts(text) : x <= pos <=> x <= u16[line]
      /\ \A x \in Starts(text) : x > u16[line] => line < Len(u16) /\ u16[line + 1] <= x
    BY <1>1, <1>2, <1>3, UpperBoundOK
<1> HIDE DEF line
<1>5. Uncut(text, u16[line]) /\ index.u8[line] = Weight(text, u16[line])
    BY <1>1, <1>4, StartsUncut DEF Weighs
<1> QED BY <1>4, <1>5 DEF u16, line

\* toBytes counts the bytes before an offset that cuts no pair.
LEMMA ToBytesWeighs ==
    ASSUME NEW text, IsUnits(text), NEW index, IsIndex(index, text), NEW pos, Uncut(text, pos)
    PROVE  ToBytes(index, pos) = Weight(text, pos)
<1> DEFINE line == UpperBound(index.u16, pos)
           start == index.u16[line]
<1>1. pos \in 0..Len(text) /\ Len(text) \in Nat
    BY IsSeqLen DEF Uncut, IsUnits
<1>2. start <= pos /\ Uncut(text, start) /\ index.u8[line] = Weight(text, start)
    BY <1>1, LineOf
<1>3. index.text = text
    BY DEF IsIndex
<1>4. Clamp(pos, 0, Len(text)) = pos
    BY <1>1 DEF Clamp
<1>5. ToBytes(index, pos) = index.u8[line] + Utf8LengthBetween(text, start, pos)
    BY <1>3, <1>4 DEF ToBytes
<1> HIDE DEF line, start
<1>6. /\ Utf8LengthBetween(text, start, pos) = Weight(text, pos) - Weight(text, start)
      /\ Weight(text, pos) \in Nat /\ Weight(text, start) \in Nat
    BY <1>2, LengthBetween
<1> QED BY <1>2, <1>5, <1>6

\* toUnits finds the offset with so many bytes before it, if there is one that
\* cuts no pair.
LEMMA ToUnitsFinds ==
    ASSUME NEW text, IsUnits(text), NEW index, IsIndex(index, text), NEW b \in 0..index.total
    PROVE  /\ \A pos : Uncut(text, pos) /\ Weight(text, pos) = b => ToUnits(index, b) = <<pos>>
           /\ ToUnits(index, b) # << >> => \E pos : Uncut(text, pos) /\ Weight(text, pos) = b
<1> DEFINE N == Len(text)
           line == UpperBound(index.u8, b)
           start == index.u16[line]
           Reached(i) ==
               /\ i > start => ~Paired(text, i - 1)
               /\ index.u8[line] + Utf8LengthBetween(text, start, i) = b
           found == {i \in start..N : Reached(i)}
           W == {Weight(text, x) : x \in Starts(text)}
<1>1. /\ index.text = text /\ Lists(index.u16, Starts(text))
      /\ Weighs(index.u16, index.u8, text) /\ index.total = Weight(text, N) /\ N \in Nat
    BY UncutEnds DEF IsIndex
<1>2. index.total \in Nat /\ b \in Nat
    BY <1>1, WeightStep
<1>3. Lists(index.u8, W)
    BY <1>1, WeighsLists
<1>4. \E x \in W : x <= b
  <2>1. 0 \in W
      BY WeightZero DEF Starts
  <2> QED BY <1>2, <2>1
<1>5. line \in 1..Len(index.u8) /\ index.u8[line] <= b
  <2> HIDE DEF W
  <2> QED BY <1>2, <1>3, <1>4, UpperBoundOK
<1>6. ToUnits(index, b) = IF found = {} THEN << >> ELSE <<CHOOSE i \in found : TRUE>>
  <2> DEFINE Line(t) == UpperBound(index.u8, t)
             Found(t, w) == {i \in index.u16[Line(t)]..Len(w) :
                                /\ i > index.u16[Line(t)] => ~Paired(w, i - 1)
                                /\ index.u8[Line(t)] + Utf8LengthBetween(w, index.u16[Line(t)], i) = t}
             Answer(F) == IF F = {} THEN << >> ELSE <<CHOOSE i \in F : TRUE>>
  <2>1. Clamp(b, 0, index.total) = b
      BY <1>2 DEF Clamp
  <2>2. ToUnits(index, b) = Answer(Found(Clamp(b, 0, index.total), index.text))
      BY DEF ToUnits
  <2>3. Found(b, text) = found
      OBVIOUS
  <2>4. Answer(found) = IF found = {} THEN << >> ELSE <<CHOOSE i \in found : TRUE>>
      OBVIOUS
  <2> HIDE DEF Found, Answer, found
  <2> QED BY <1>1, <2>1, <2>2, <2>3, <2>4
<1> HIDE DEF line, W
<1>7. /\ start \in Starts(text) /\ start \in Nat /\ index.u8[line] = Weight(text, start)
      /\ Uncut(text, start)
  <2>1. line \in 1..Len(index.u16)
      BY <1>1, <1>5 DEF Weighs
  <2>2. start \in Starts(text) /\ start \in Nat
      BY <1>1, <2>1 DEF Lists
  <2> HIDE DEF start
  <2>3. Uncut(text, start)
      BY <2>2, StartsUncut
  <2>4. index.u8[line] = Weight(text, start)
      BY <1>1, <2>1 DEF Weighs, start
  <2> QED BY <2>2, <2>3, <2>4
<1> HIDE DEF start
<1>8. ASSUME NEW i \in start..N PROVE Reached(i) <=> Uncut(text, i) /\ Weight(text, i) = b
  <2>1. i \in 0..N /\ i \in Nat
      BY <1>1, <1>7
  <2>2. (i > start => ~Paired(text, i - 1)) <=> Uncut(text, i)
    <3>1. Uncut(text, i) <=> Aligned(text, i)
        BY <2>1, UncutAligned
    <3>2. CASE i = start
        BY <1>7, <3>2
    <3>3. CASE i # start
      <4>1. i > start /\ i \in 1..N
          BY <1>1, <1>7, <3>3
      <4>2. i = N => ~Paired(text, i - 1)
          BY <1>1, <4>1 DEF Paired
      <4>3. i # N => i \in 1..(N - 1)
          BY <1>1, <4>1
      <4>4. i = N => Uncut(text, i)
          BY UncutEnds
      <4> QED BY <3>1, <4>1, <4>2, <4>3, <4>4 DEF Aligned
    <3> QED BY <3>2, <3>3
  <2>3. ASSUME Uncut(text, i)
        PROVE  index.u8[line] + Utf8LengthBetween(text, start, i) = Weight(text, i)
    <3>1. start <= i
        BY <1>7
    <3>2. /\ Utf8LengthBetween(text, start, i) = Weight(text, i) - Weight(text, start)
          /\ Weight(text, i) \in Nat /\ Weight(text, start) \in Nat
        BY <1>7, <2>3, <3>1, LengthBetween
    <3> QED BY <1>7, <3>2
  <2> QED BY <2>2, <2>3
<1> HIDE DEF Reached
<1>9. ASSUME NEW pos, Uncut(text, pos), Weight(text, pos) = b PROVE found = {pos}
  <2>1. pos \in 0..N /\ pos \in Nat
      BY <1>1, <1>9 DEF Uncut
  <2>2. ~(pos < start)
    <3>1. SUFFICES ASSUME pos < start PROVE FALSE
        OBVIOUS
    <3>2. Weight(text, pos) < Weight(text, start)
        BY <1>7, <2>1, <3>1, WeightGrows
    <3>3. Weight(text, start) \in Nat /\ Weight(text, start) <= b
        BY <1>5, <1>7, WeightStep
    <3> QED BY <1>2, <1>9, <3>2, <3>3
  <2>3. pos \in start..N
      BY <1>1, <1>7, <2>1, <2>2
  <2>4. ASSUME NEW i \in start..N, Weight(text, i) = b PROVE i = pos
    <3>1. i \in Nat
        BY <1>7
    <3>2. ~(i < pos)
        BY <1>2, <1>9, <2>1, <2>4, <3>1, WeightGrows
    <3>3. ~(pos < i)
        BY <1>2, <1>9, <2>1, <2>4, <3>1, WeightGrows
    <3> QED BY <2>1, <3>1, <3>2, <3>3
  <2> QED BY <1>8, <1>9, <2>3, <2>4
<1>10. ASSUME found # {} PROVE \E pos : Uncut(text, pos) /\ Weight(text, pos) = b
    BY <1>8, <1>10
<1>11. \A pos : found = {pos} => ToUnits(index, b) = <<pos>>
  <2>1. ASSUME NEW pos, found = {pos} PROVE ToUnits(index, b) = <<pos>>
    <3>1. ToUnits(index, b) = <<CHOOSE i \in {pos} : TRUE>>
        BY <1>6, <2>1
    <3>2. (CHOOSE i \in {pos} : TRUE) = pos
        OBVIOUS
    <3> QED BY <3>1, <3>2
  <2> QED BY <2>1
<1>12. found = {} => ToUnits(index, b) = << >>
    BY <1>6
<1> HIDE DEF found
<1> QED BY <1>9, <1>10, <1>11, <1>12

---------------------------------------------------------------------------
(* An edit.                                                                *)

\* Two texts side by side are one.
LEMMA UnitsCat ==
    ASSUME NEW s, NEW t, IsUnits(s), IsUnits(t)
    PROVE  IsUnits(s \o t)
<1> DEFINE c == s \o t
           l == Len(s)
           m == Len(t)
<1>1. IsSeq(s) /\ IsSeq(t) /\ l \in Nat /\ m \in Nat
    BY IsSeqLen DEF IsUnits
<1>2. /\ IsSeq(c) /\ Len(c) = l + m
      /\ \A i \in 1..Len(c) : c[i] = IF i <= l THEN s[i] ELSE t[i - l]
    BY <1>1, IsSeqConcat
<1>3. /\ \A i \in 1..l : /\ s[i] \in High => i < l /\ s[i + 1] \in Low
                         /\ s[i] \in Low => i > 1 /\ s[i - 1] \in High
      /\ \A i \in 1..m : /\ t[i] \in High => i < m /\ t[i + 1] \in Low
                         /\ t[i] \in Low => i > 1 /\ t[i - 1] \in High
    BY DEF IsUnits, WellFormed
<1> HIDE DEF c, l, m
<1>4. \A i \in 1..l : c[i] = s[i]
  <2>1. \A i \in 1..l : i \in 1..Len(c) /\ i <= l
      BY <1>1, <1>2
  <2> QED BY <1>2, <2>1
<1>5. \A i \in 1..m : c[l + i] = t[i]
  <2>1. \A i \in 1..m : l + i \in 1..Len(c) /\ ~(l + i <= l) /\ (l + i) - l = i
      BY <1>1, <1>2
  <2> QED BY <1>2, <2>1
<1>6. ASSUME NEW i \in 1..Len(c)
      PROVE  /\ c[i] \in High => i < Len(c) /\ c[i + 1] \in Low
             /\ c[i] \in Low => i > 1 /\ c[i - 1] \in High
  <2>1. CASE i \in 1..l
    <3>1. c[i] \in High => i < l /\ s[i + 1] \in Low /\ i + 1 \in 1..l
        BY <1>1, <1>3, <1>4, <2>1
    <3>2. c[i] \in Low => i > 1 /\ s[i - 1] \in High /\ i - 1 \in 1..l
        BY <1>1, <1>3, <1>4, <2>1
    <3> QED BY <1>1, <1>2, <1>4, <2>1, <3>1, <3>2
  <2>2. CASE i \notin 1..l
    <3> DEFINE j == i - l
    <3>1. j \in 1..m /\ i = l + j
        BY <1>1, <1>2, <2>2
    <3> HIDE DEF j
    <3> DEFINE u == c[i]
    <3>0. u = t[j]
        BY <1>5, <3>1
    <3> HIDE DEF u
    <3>2. u \in High => j < m /\ t[j + 1] \in Low /\ j + 1 \in 1..m
        BY <1>1, <1>3, <3>0, <3>1
    <3>3. u \in Low => j > 1 /\ t[j - 1] \in High /\ j - 1 \in 1..m
        BY <1>1, <1>3, <3>0, <3>1
    <3>4. l + (j + 1) = i + 1 /\ l + (j - 1) = i - 1
        BY <1>1, <3>1
    <3>5. u \in High => i < Len(c) /\ c[i + 1] \in Low
        BY <1>1, <1>2, <1>5, <3>1, <3>2, <3>4
    <3>6. u \in Low => i > 1 /\ c[i - 1] \in High
        BY <1>1, <1>5, <3>1, <3>3, <3>4
    <3> QED BY <3>5, <3>6 DEF u
  <2> QED BY <2>1, <2>2
<1>7. IsUnits(c)
    BY <1>2, <1>6 DEF IsUnits, WellFormed
<1> QED BY <1>7 DEF c

\* What stands after a place where no pair is cut.
LEMMA UncutRest ==
    ASSUME NEW text, IsUnits(text), NEW from, Uncut(text, from)
    PROVE  LET rest == SubSeq(text, from + 1, Len(text))
           IN  /\ IsUnits(rest) /\ Len(rest) = Len(text) - from
               /\ \A k \in 1..(Len(text) - from) : rest[k] = text[from + k]
<1> DEFINE N == Len(text)
           rest == SubSeq(text, from + 1, N)
<1>1. N \in Nat /\ from \in 0..N
    BY IsSeqLen DEF IsUnits, Uncut
<1>2. from + 1 \in Nat \ {0} /\ N \in ((from + 1) - 1)..Len(text)
  <2> HIDE DEF N
  <2> QED BY <1>1 DEF N
<1>3. /\ IsSeq(rest) /\ Len(rest) = N - (from + 1) + 1
      /\ \A k \in 1..(N - (from + 1) + 1) : rest[k] = text[(from + 1) + k - 1]
    BY <1>2, SegmentOK DEF IsUnits
<1> HIDE DEF rest
<1>4. Len(rest) = N - from /\ \A k \in 1..(N - from) : rest[k] = text[from + k]
  <2> HIDE DEF N
  <2>1. N - (from + 1) + 1 = N - from
      BY <1>1
  <2>2. \A k \in 1..(N - from) : (from + 1) + k - 1 = from + k
      BY <1>1
  <2> QED BY <1>3, <2>1, <2>2
<1>5. ASSUME NEW k \in 1..Len(rest)
      PROVE  /\ rest[k] \in High => k < Len(rest) /\ rest[k + 1] \in Low
             /\ rest[k] \in Low => k > 1 /\ rest[k - 1] \in High
  <2> DEFINE i == from + k
  <2>1. i \in 1..N /\ k \in 1..(N - from)
      BY <1>1, <1>4
  <2>2. /\ text[i] \in High => i < N /\ text[i + 1] \in Low
        /\ text[i] \in Low => i > 1 /\ text[i - 1] \in High
      BY <2>1 DEF IsUnits, WellFormed
  <2>3. rest[k] = text[i]
      BY <1>4, <2>1
  <2>4. ASSUME text[i] \in High PROVE k < Len(rest) /\ rest[k + 1] \in Low
    <3>1. k + 1 \in 1..(N - from) /\ from + (k + 1) = i + 1
        BY <1>1, <2>1, <2>2, <2>4
    <3> QED BY <1>1, <1>4, <2>2, <2>4, <3>1
  <2>5. ASSUME text[i] \in Low PROVE k > 1 /\ rest[k - 1] \in High
    <3>1. k # 1
        BY <1>1, <2>1, <2>5 DEF Uncut
    <3>2. k > 1 /\ k - 1 \in 1..(N - from) /\ from + (k - 1) = i - 1
        BY <1>1, <2>1, <3>1
    <3> QED BY <1>4, <2>2, <2>5, <3>2
  <2> HIDE DEF i
  <2> QED BY <2>3, <2>4, <2>5
<1>6. IsUnits(rest)
    BY <1>3, <1>5 DEF IsUnits, WellFormed
<1> QED BY <1>4, <1>6 DEF rest, N

\* new is text with piece in place of what stood between from and to, where
\* no pair is cut.
IsEdit(new, text, from, to, piece) ==
    /\ IsUnits(new) /\ IsUnits(text) /\ IsUnits(piece)
    /\ Uncut(text, from) /\ Uncut(text, to) /\ from <= to
    /\ Len(new) = from + Len(piece) + (Len(text) - to)
    /\ Agree(new, 0, text, 0, from)
    /\ Agree(new, from, piece, 0, Len(piece))
    /\ Agree(new, from + Len(piece), text, to, Len(text) - to)

LEMMA EditMade ==
    ASSUME NEW text, IsUnits(text), NEW piece, IsUnits(piece),
           NEW from, Uncut(text, from), NEW to, Uncut(text, to), from <= to
    PROVE  IsEdit(SubSeq(text, 1, from) \o piece \o SubSeq(text, to + 1, Len(text)),
                  text, from, to, piece)
<1> DEFINE a == SubSeq(text, 1, from)
           c == SubSeq(text, to + 1, Len(text))
           m == Len(text) - to
           new == (a \o piece) \o c
           p == Len(piece)
<1>1. /\ IsUnits(a) /\ Len(a) = from /\ from \in Nat
      /\ \A k \in 1..from : a[k] = text[k]
    BY UncutSlice
<1>2. /\ IsUnits(c) /\ Len(c) = m /\ \A k \in 1..m : c[k] = text[to + k]
    BY UncutRest
<1>3. p \in Nat /\ m \in Nat
    BY <1>2, IsSeqLen DEF IsUnits
<1> HIDE DEF a, c, m, p
<1>4. IsUnits(a \o piece) /\ IsUnits(new)
    BY <1>1, <1>2, UnitsCat
<1>5. /\ Len(a \o piece) = from + p
      /\ \A i \in 1..(from + p) : (a \o piece)[i] = IF i <= from THEN a[i] ELSE piece[i - from]
    BY <1>1, IsSeqConcat DEF IsUnits, p
<1> DEFINE b == a \o piece
<1>6. IsSeq(b) /\ IsSeq(c)
    BY <1>2, <1>4 DEF IsUnits
<1>7. Len(b) = from + p /\ \A i \in 1..(from + p) : b[i] = IF i <= from THEN a[i] ELSE piece[i - from]
    BY <1>5
<1> HIDE DEF b
<1>8. /\ Len(b \o c) = from + p + m
      /\ \A i \in 1..(from + p + m) :
            (b \o c)[i] = IF i <= from + p THEN b[i] ELSE c[i - (from + p)]
    BY <1>2, <1>6, <1>7, IsSeqConcat
<1>9. new = b \o c
    BY DEF b
<1> HIDE DEF new
<1>10. ASSUME NEW k \in 1..from PROVE new[0 + k] = text[0 + k]
  <2>1. k \in 1..(from + p) /\ k \in 1..(from + p + m) /\ k <= from + p /\ k <= from /\ 0 + k = k
      BY <1>1, <1>3
  <2> QED BY <1>1, <1>7, <1>8, <1>9, <2>1
<1>11. ASSUME NEW k \in 1..p PROVE new[from + k] = piece[0 + k]
  <2>1. /\ from + k \in 1..(from + p) /\ from + k \in 1..(from + p + m)
        /\ from + k <= from + p /\ ~(from + k <= from) /\ (from + k) - from = k /\ 0 + k = k
      BY <1>1, <1>3
  <2> QED BY <1>7, <1>8, <1>9, <2>1
<1>12. ASSUME NEW k \in 1..m PROVE new[from + p + k] = text[to + k]
  <2>1. /\ from + p + k \in 1..(from + p + m) /\ ~(from + p + k <= from + p)
        /\ (from + p + k) - (from + p) = k
      BY <1>1, <1>3
  <2> QED BY <1>2, <1>8, <1>9, <2>1
<1>13. Len(new) = from + p + m
    BY <1>8, <1>9
<1>14. /\ Agree(new, 0, text, 0, from) /\ Agree(new, from, piece, 0, p)
       /\ Agree(new, from + p, text, to, m)
    BY <1>10, <1>11, <1>12 DEF Agree
<1>15. IsEdit(new, text, from, to, piece)
    BY <1>4, <1>13, <1>14 DEF IsEdit, p, m
<1> QED BY <1>15 DEF new, a, c

\* What the edit moves the later offsets by, in units and in bytes.
ByUnits(from, to, piece) == Len(piece) - (to - from)
ByBytes(text, from, to, piece) ==
    Weight(piece, Len(piece)) - (Weight(text, to) - Weight(text, from))

LEMMA EditBounds ==
    ASSUME NEW new, NEW text, NEW from, NEW to, NEW piece, IsEdit(new, text, from, to, piece)
    PROVE  /\ from \in Nat /\ to \in Nat /\ from <= to /\ to <= Len(text)
           /\ Len(text) \in Nat /\ Len(piece) \in Nat /\ Len(new) \in Nat
           /\ ByUnits(from, to, piece) \in Int
           /\ to + ByUnits(from, to, piece) = from + Len(piece)
           /\ Len(new) = Len(text) + ByUnits(from, to, piece)
<1>1. Len(text) \in Nat /\ Len(piece) \in Nat
    BY UncutEnds DEF IsEdit
<1>2. from \in 0..Len(text) /\ to \in 0..Len(text) /\ from <= to
    BY DEF IsEdit, Uncut
<1>3. Len(new) = from + Len(piece) + (Len(text) - to)
    BY DEF IsEdit
<1> DEFINE l == Len(text)
           p == Len(piece)
           n == Len(new)
           d == ByUnits(from, to, piece)
<1>4. d = p - (to - from)
    BY DEF ByUnits
<1> HIDE DEF l, p, n, d
<1>5. /\ from \in Nat /\ to \in Nat /\ from <= to /\ to <= l /\ l \in Nat /\ p \in Nat
      /\ n = from + p + (l - to)
    BY <1>1, <1>2, <1>3 DEF l, p, n
<1>6. n \in Nat /\ d \in Int /\ to + d = from + p /\ n = l + d
    BY <1>4, <1>5
<1> QED BY <1>5, <1>6 DEF l, p, n, d

\* The units before and after the edit, and what they weigh.
LEMMA EditKeeps ==
    ASSUME NEW new, NEW text, NEW from, NEW to, NEW piece, IsEdit(new, text, from, to, piece)
    PROVE  /\ \A x \in 1..from : new[x] = text[x]
           /\ \A x \in (to + 1)..Len(text) : new[x + ByUnits(from, to, piece)] = text[x]
           /\ \A x \in 0..from : Weight(new, x) = Weight(text, x)
           /\ \A x \in to..Len(text) :
                 Weight(new, x + ByUnits(from, to, piece))
                    = Weight(text, x) + ByBytes(text, from, to, piece)
<1> DEFINE d == ByUnits(from, to, piece)
           p == Len(piece)
           N == Len(text)
<1>1. /\ from \in Nat /\ to \in Nat /\ from <= to /\ to <= N /\ N \in Nat /\ p \in Nat
      /\ d \in Int /\ to + d = from + p
    BY EditBounds
<1>2. /\ Agree(new, 0, text, 0, from) /\ Agree(new, from, piece, 0, p)
      /\ Agree(new, from + p, text, to, N - to)
    BY DEF IsEdit
<1> HIDE DEF d, p, N
<1>3. ASSUME NEW x \in 1..from PROVE new[x] = text[x]
  <2>1. new[0 + x] = text[0 + x] /\ 0 + x = x
      BY <1>1, <1>2 DEF Agree
  <2> QED BY <2>1
<1>4. ASSUME NEW x \in (to + 1)..N PROVE new[x + d] = text[x]
  <2>1. x - to \in 1..(N - to) /\ (from + p) + (x - to) = x + d /\ to + (x - to) = x
      BY <1>1
  <2>2. new[(from + p) + (x - to)] = text[to + (x - to)]
      BY <1>2, <2>1 DEF Agree
  <2> QED BY <2>1, <2>2
<1>5. ASSUME NEW x \in 0..from PROVE Weight(new, x) = Weight(text, x)
  <2>1. x \in Nat /\ \A k \in 1..x : new[k] = text[k]
      BY <1>1, <1>3
  <2> QED BY <2>1, WeightSame
<1>6. Weight(new, from + p) = Weight(text, from) + Weight(piece, p)
  <2> DEFINE z == 0
  <2>1. z \in Nat /\ Agree(new, from, piece, z, p)
      BY <1>2
  <2>2. Weight(piece, z + p) = Weight(piece, p) /\ Weight(piece, z) = 0
      BY <1>1, WeightZero
  <2> HIDE DEF z
  <2>3. Weight(new, from + p) - Weight(new, from) = Weight(piece, z + p) - Weight(piece, z)
      BY <1>1, <2>1, WeightShift
  <2>4. Weight(new, from) = Weight(text, from)
      BY <1>1, <1>5
  <2>5. from + p \in Nat
      BY <1>1
  <2>6. Weight(new, from + p) \in Nat /\ Weight(text, from) \in Nat /\ Weight(piece, p) \in Nat
      BY <1>1, <2>5, WeightStep
  <2> QED BY <2>2, <2>3, <2>4, <2>6
<1>7. ASSUME NEW x \in to..N
      PROVE  Weight(new, x + d) = Weight(text, x) + ByBytes(text, from, to, piece)
  <2> DEFINE k == x - to
             f == from + p
             b == ByBytes(text, from, to, piece)
  <2>1. k \in Nat /\ f \in Nat /\ f + k = x + d /\ to + k = x /\ x \in Nat /\ f + k \in Nat
      BY <1>1
  <2>2. Agree(new, f, text, to, k)
    <3>1. \A i \in 1..k : i \in 1..(N - to)
        BY <1>1
    <3> QED BY <1>2, <3>1 DEF Agree
  <2> HIDE DEF k, f
  <2>3. Weight(new, f + k) - Weight(new, f) = Weight(text, to + k) - Weight(text, to)
      BY <1>1, <2>1, <2>2, WeightShift
  <2>4. /\ Weight(new, f + k) \in Nat /\ Weight(text, x) \in Nat /\ Weight(text, to) \in Nat
        /\ Weight(text, from) \in Nat /\ Weight(piece, p) \in Nat
      BY <1>1, <2>1, WeightStep
  <2>5. Weight(new, f) = Weight(text, from) + Weight(piece, p)
      BY <1>6 DEF f
  <2>6. b = Weight(piece, p) - (Weight(text, to) - Weight(text, from))
      BY DEF ByBytes, p
  <2>7. Weight(new, f + k) = Weight(new, x + d) /\ Weight(text, to + k) = Weight(text, x)
      BY <2>1
  <2> DEFINE w1 == Weight(new, x + d)
             w2 == Weight(text, x)
             w3 == Weight(text, to)
             w4 == Weight(text, from)
             w5 == Weight(piece, p)
  <2>8. /\ w1 - (w4 + w5) = w2 - w3 /\ b = w5 - (w3 - w4)
        /\ w1 \in Nat /\ w2 \in Nat /\ w3 \in Nat /\ w4 \in Nat /\ w5 \in Nat
      BY <2>3, <2>4, <2>5, <2>6, <2>7
  <2> HIDE DEF w1, w2, w3, w4, w5, b
  <2>9. w1 = w2 + b
      BY <2>8
  <2> QED BY <2>9 DEF w1, w2, b
<1> QED BY <1>3, <1>4, <1>5, <1>7 DEF d, N

\* a and l start the first and the last line that an edit touches, and the scan
\* from a to e covers what was inserted and no line start that is only shifted.
Covers(new, text, from, to, piece, a, l, e) ==
    /\ a \in Nat /\ a <= from /\ \A x \in Starts(text) : x <= from <=> x <= a
    /\ l \in Nat /\ l <= to /\ \A x \in Starts(text) : x <= to <=> x <= l
    /\ e \in Nat /\ from + Len(piece) <= e /\ e <= Len(new)
    /\ \A x \in Starts(text) : x > l => x + ByUnits(from, to, piece) > e
    /\ \A y \in (e + 1)..Len(new) :
          y - ByUnits(from, to, piece) \in Starts(text) => y - ByUnits(from, to, piece) > l

\* The line starts of an edited text: those before, those scanned, those shifted.
LEMMA EditStarts ==
    ASSUME NEW new, NEW text, NEW from, NEW to, NEW piece, IsEdit(new, text, from, to, piece),
           NEW a, NEW l, NEW e, Covers(new, text, from, to, piece, a, l, e)
    PROVE  Starts(new) = ({x \in Starts(text) : x <= a} \cup NewlinesIn(new, a, e))
                            \cup Beyond(Starts(text), l, ByUnits(from, to, piece))
<1> DEFINE d == ByUnits(from, to, piece)
           N == Len(text)
           A == {x \in Starts(text) : x <= a}
           M == NewlinesIn(new, a, e)
           C == {x + d : x \in {y \in Starts(text) : y > l}}
<1>0. /\ a \in Nat /\ a <= from /\ \A x \in Starts(text) : x <= from <=> x <= a
      /\ l \in Nat /\ l <= to /\ \A x \in Starts(text) : x <= to <=> x <= l
      /\ e \in Nat /\ from + Len(piece) <= e /\ e <= Len(new)
      /\ \A x \in Starts(text) : x > l => x + d > e
      /\ \A y \in (e + 1)..Len(new) : y - d \in Starts(text) => y - d > l
    BY DEF Covers
<1>1. /\ from \in Nat /\ to \in Nat /\ from <= to /\ to <= N /\ N \in Nat /\ Len(piece) \in Nat
      /\ d \in Int /\ to + d = from + Len(piece) /\ Len(new) = N + d /\ Len(new) \in Nat
    BY EditBounds
<1>2. /\ \A x \in 1..from : new[x] = text[x]
      /\ \A x \in (to + 1)..N : new[x + d] = text[x]
    BY EditKeeps
<1>3. \A x : x \in Starts(text) <=> x = 0 \/ (x \in 1..N /\ text[x] = Newline)
    BY DEF Starts, NewlinesIn
<1>4. \A x : x \in Starts(new) <=> x = 0 \/ (x \in 1..Len(new) /\ new[x] = Newline)
    BY DEF Starts, NewlinesIn
<1>5. \A x : x \in M <=> x \in (a + 1)..e /\ new[x] = Newline
    BY DEF NewlinesIn
<1> HIDE DEF d, N, M
<1>6. ASSUME NEW y \in Starts(new) PROVE y \in A \cup M \cup C
  <2>1. CASE y = 0
      BY <1>0, <1>3, <2>1
  <2>2. CASE y # 0
    <3>1. y \in 1..Len(new) /\ new[y] = Newline
        BY <1>4, <2>2
    <3>2. CASE y <= a
      <4>1. y \in 1..from /\ y \in 1..N
          BY <1>0, <1>1, <3>1, <3>2
      <4>2. text[y] = Newline
          BY <1>2, <3>1, <4>1
      <4> QED BY <1>3, <3>2, <4>1, <4>2
    <3>3. CASE ~(y <= a) /\ y <= e
      <4>1. y \in (a + 1)..e
          BY <1>0, <3>1, <3>3
      <4> QED BY <1>5, <3>1, <4>1
    <3>4. CASE ~(y <= e)
      <4> DEFINE x == y - d
      <4>1. x \in (to + 1)..N /\ x \in 1..N /\ x + d = y /\ y \in (e + 1)..Len(new)
          BY <1>0, <1>1, <3>1, <3>4
      <4>2. y - d = x
          OBVIOUS
      <4> HIDE DEF x
      <4>3. text[x] = Newline
          BY <1>2, <3>1, <4>1
      <4>4. x \in Starts(text)
          BY <1>3, <4>1, <4>3
      <4>5. x > l
          BY <1>0, <4>1, <4>2, <4>4
      <4> QED BY <4>1, <4>4, <4>5
    <3> QED BY <1>0, <1>1, <3>1, <3>2, <3>3, <3>4
  <2> QED BY <2>1, <2>2
<1>7. ASSUME NEW x \in A PROVE x \in Starts(new)
  <2>1. CASE x = 0
      BY <1>4, <2>1
  <2>2. CASE x # 0
    <3>1. x \in 1..N /\ text[x] = Newline /\ x <= a
        BY <1>3, <2>2
    <3>2. x \in 1..from /\ x \in 1..Len(new)
        BY <1>0, <1>1, <3>1
    <3> QED BY <1>2, <1>4, <3>1, <3>2
  <2> QED BY <2>1, <2>2
<1>8. ASSUME NEW x \in M PROVE x \in Starts(new)
  <2>1. x \in (a + 1)..e /\ new[x] = Newline
      BY <1>5
  <2>2. x \in 1..Len(new)
      BY <1>0, <1>1, <2>1
  <2> QED BY <1>4, <2>1, <2>2
<1>9. ASSUME NEW x \in Starts(text), x > l PROVE x + d \in Starts(new)
  <2>1. ~(x <= to)
    <3>1. x \in Nat
        BY <1>1, <1>3
    <3> QED BY <1>0, <1>1, <1>9, <3>1
  <2>2. x \in 1..N /\ text[x] = Newline
    <3>1. x # 0
        BY <1>1, <2>1
    <3> QED BY <1>3, <3>1
  <2>3. x \in (to + 1)..N /\ x + d \in 1..Len(new)
      BY <1>0, <1>1, <2>1, <2>2
  <2> QED BY <1>2, <1>4, <2>2, <2>3
<1>10. Starts(new) = (A \cup M) \cup C
    BY <1>6, <1>7, <1>8, <1>9
<1> QED BY <1>10 DEF d, M, Beyond

\* What replace makes of an index.
Replaced(index, new, first, last, e, d, b) ==
    LET again == LineStarts(new, index.u16[first], e)
        Shift(starts, delta) == [k \in 1..(Len(starts) - last) |-> starts[last + k] + delta]
    IN  [text  |-> new,
         u16   |-> SubSeq(index.u16, 1, first) \o again \o Shift(index.u16, d),
         u8    |-> SubSeq(index.u8, 1, first)
                      \o [k \in DOMAIN again |->
                            index.u8[first]
                              + Utf8LengthBetween(new, index.u16[first], again[k])]
                      \o Shift(index.u8, b),
         total |-> index.total + b]

\* Where the scan ends: before the first line that the edit does not touch.
ScanEnd(index, last, d) ==
    LET hasTail == last < Len(index.u16)
        end == (IF hasTail THEN index.u16[last + 1] ELSE Len(index.text)) + d
    IN  IF hasTail THEN end - 1 ELSE end

LEMMA ReplaceUnfold ==
    ASSUME NEW text, NEW index, IsIndex(index, text), IsUnits(text),
           NEW from \in 0..Len(text), NEW to \in 0..Len(text), from <= to,
           NEW piece, IsUnits(piece)
    PROVE  Replace(index, from, to, piece) =
              IF Uncut(text, from) /\ Uncut(text, to)
              THEN LET first == UpperBound(index.u16, from)
                       last  == UpperBound(index.u16, to)
                       d     == ByUnits(from, to, piece)
                   IN  <<Replaced(index,
                                  SubSeq(text, 1, from) \o piece \o SubSeq(text, to + 1, Len(text)),
                                  first, last, ScanEnd(index, last, d), d,
                                  ByBytes(text, from, to, piece))>>
              ELSE << >>
<1> DEFINE start == Clamp(IF from < to THEN from ELSE to, 0, Len(index.text))
           stop  == Clamp(IF from < to THEN to ELSE from, 0, Len(index.text))
           last  == UpperBound(index.u16, to)
           d     == ByUnits(from, to, piece)
<1>1. index.text = text /\ Len(text) \in Nat
    BY UncutEnds DEF IsIndex
<1>2. start = from /\ stop = to
    BY <1>1 DEF Clamp
<1>3. /\ Aligned(text, from) <=> Uncut(text, from)
      /\ Aligned(text, to) <=> Uncut(text, to)
    BY UncutAligned
<1> DEFINE Made(w, s, t, du, db) ==
               Replaced(index, SubSeq(w, 1, s) \o piece \o SubSeq(w, t + 1, Len(w)),
                        UpperBound(index.u16, s), UpperBound(index.u16, t),
                        ScanEnd(index, UpperBound(index.u16, t), du), du, db)
           Answer(w, s, t, du, db) ==
               IF ~Aligned(w, s) \/ ~Aligned(w, t) THEN << >> ELSE <<Made(w, s, t, du, db)>>
           units == Len(piece) - (stop - start)
           bytes == Utf8Length(piece) - Utf8LengthBetween(index.text, start, stop)
<1>4. Replace(index, from, to, piece) = Answer(index.text, start, stop, units, bytes)
    BY DEF Replace, Replaced, ScanEnd
<1>5. units = d
    BY <1>2 DEF ByUnits
<1>6. CASE ~(Uncut(text, from) /\ Uncut(text, to))
  <2> DEFINE made == Made(index.text, start, stop, units, bytes)
  <2>1. Replace(index, from, to, piece) =
            IF ~Aligned(index.text, start) \/ ~Aligned(index.text, stop) THEN << >> ELSE <<made>>
      BY <1>4
  <2> HIDE DEF made, start, stop, d, last
  <2>2. Replace(index, from, to, piece) = << >>
      BY <1>1, <1>2, <1>3, <1>6, <2>1
  <2> QED BY <1>6, <2>2
<1>7. CASE Uncut(text, from) /\ Uncut(text, to)
  <2> DEFINE b == ByBytes(text, from, to, piece)
             made == Made(text, from, to, d, b)
  <2>1. bytes = b
      BY <1>1, <1>2, <1>7, LengthWeighs, LengthBetween DEF ByBytes
  <2>2. Answer(text, from, to, d, b) =
            IF ~Aligned(text, from) \/ ~Aligned(text, to) THEN << >> ELSE <<made>>
      OBVIOUS
  <2>3. made = Replaced(index,
                        SubSeq(text, 1, from) \o piece \o SubSeq(text, to + 1, Len(text)),
                        UpperBound(index.u16, from), last, ScanEnd(index, last, d), d, b)
      OBVIOUS
  <2> HIDE DEF Answer, Made, made, start, stop, units, bytes, d, b, last
  <2>4. Replace(index, from, to, piece) = <<made>>
      BY <1>1, <1>2, <1>3, <1>4, <1>5, <1>7, <2>1, <2>2
  <2> QED BY <1>7, <2>3, <2>4 DEF d, b, last
<1> QED BY <1>6, <1>7

\* The first and the last line that the edit touches, and where the scan ends.
LEMMA EditLines ==
    ASSUME NEW new, NEW text, NEW from, NEW to, NEW piece, IsEdit(new, text, from, to, piece),
           NEW index, IsIndex(index, text)
    PROVE  LET first == UpperBound(index.u16, from)
               last  == UpperBound(index.u16, to)
               d     == ByUnits(from, to, piece)
               e     == ScanEnd(index, last, d)
               a     == index.u16[first]
               l     == index.u16[last]
           IN  /\ first \in 1..Len(index.u16) /\ last \in 1..Len(index.u16)
               /\ a \in Starts(text) /\ a \in Nat /\ a <= from /\ index.u8[first] = Weight(text, a)
               /\ \A x \in Starts(text) : x <= from <=> x <= a
               /\ l \in Nat /\ l <= to /\ \A x \in Starts(text) : x <= to <=> x <= l
               /\ e \in Nat /\ from + Len(piece) <= e /\ e <= Len(new)
               /\ \A x \in Starts(text) : x > l => x + d > e
               /\ \A y \in (e + 1)..Len(new) : y - d \in Starts(text) => y - d > l
<1> DEFINE first == UpperBound(index.u16, from)
           last  == UpperBound(index.u16, to)
           d     == ByUnits(from, to, piece)
           e     == ScanEnd(index, last, d)
           a     == index.u16[first]
           l     == index.u16[last]
           next  == index.u16[last + 1]
           N     == Len(text)
           M     == Len(new)
           p     == Len(piece)
           tail  == last < Len(index.u16)
<1>1. /\ from \in Nat /\ to \in Nat /\ from <= to /\ to <= N /\ N \in Nat /\ p \in Nat
      /\ M \in Nat /\ d \in Int /\ to + d = from + p /\ M = N + d
    BY EditBounds
<1>2. IsUnits(text) /\ from \in 0..Len(text) /\ to \in 0..Len(text)
    BY DEF IsEdit, Uncut
<1>3. /\ first \in 1..Len(index.u16) /\ a <= from /\ a \in Starts(text) /\ a \in Nat
      /\ index.u8[first] = Weight(text, a) /\ \A x \in Starts(text) : x <= from <=> x <= a
    BY <1>2, LineOf
<1>4. /\ last \in 1..Len(index.u16) /\ l <= to /\ l \in Nat
      /\ tail => next > to /\ next \in Starts(text) /\ next \in Nat
      /\ \A x \in Starts(text) : x <= to <=> x <= l
      /\ \A x \in Starts(text) : x > l => tail /\ next <= x
    BY <1>2, LineOf
<1>5. e = IF tail THEN next + d - 1 ELSE N + d
  <2>1. index.text = text
      BY DEF IsIndex
  <2> DEFINE end == (IF tail THEN next ELSE Len(index.text)) + d
  <2>2. e = IF tail THEN end - 1 ELSE end
      BY DEF ScanEnd
  <2>3. /\ tail => end = next + d
        /\ ~tail => end = N + d
    <3> HIDE DEF tail, next, d
    <3> QED BY <2>1
  <2> HIDE DEF e, tail, end, next, d, N
  <2>4. CASE tail
    <3>1. e = end - 1
        BY <2>2, <2>4, Zenon
    <3>2. end = next + d
        BY <2>3, <2>4, Zenon
    <3>3. next \in Nat /\ d \in Int
        BY <1>1, <1>4, <2>4, Zenon
    <3>4. e = next + d - 1
        BY <3>1, <3>2, <3>3
    <3> QED BY <2>4, <3>4, Zenon
  <2>5. CASE ~tail
    <3>1. e = N + d
        BY <2>2, <2>3, <2>5, Zenon
    <3> QED BY <2>5, <3>1, Zenon
  <2> QED BY <2>4, <2>5, Zenon
<1>6. \A x \in Starts(text) : x \in Nat /\ x <= N
    BY <1>1 DEF Starts, NewlinesIn
<1> HIDE DEF first, last, d, e, a, l, next, N, M, p, tail
<1>7. e \in Nat /\ from + p <= e /\ e <= M
  <2>1. CASE tail
    <3>1. next > to /\ next \in Nat /\ next <= N /\ e = next + d - 1
        BY <1>4, <1>5, <1>6, <2>1
    <3> QED BY <1>1, <3>1
  <2>2. CASE ~tail
    <3>1. e = M
        BY <1>1, <1>5, <2>2
    <3> QED BY <1>1, <3>1
  <2> QED BY <2>1, <2>2
<1>8. ASSUME NEW x \in Starts(text), x > l PROVE x + d > e
  <2>1. tail /\ next <= x /\ next \in Nat /\ x \in Nat
      BY <1>4, <1>6, <1>8
  <2>2. e = next + d - 1
      BY <1>5, <2>1
  <2> QED BY <1>1, <2>1, <2>2
<1>9. ASSUME NEW y \in (e + 1)..M, y - d \in Starts(text) PROVE y - d > l
  <2>1. CASE tail
    <3>1. next > to /\ next \in Nat /\ e = next + d - 1
        BY <1>4, <1>5, <2>1
    <3>2. y - d >= next
        BY <1>1, <1>7, <3>1
    <3> QED BY <1>1, <1>4, <1>7, <3>1, <3>2
  <2>2. CASE ~tail
    <3>1. e = M
        BY <1>1, <1>5, <2>2
    <3> QED BY <1>1, <3>1
  <2> QED BY <2>1, <2>2
<1> QED BY <1>3, <1>4, <1>7, <1>8, <1>9 DEF first, last, d, e, a, l, N, M, p

\* The line starts after the edit are those of the new text.
LEMMA ReplacedStarts ==
    ASSUME NEW new, NEW text, NEW from, NEW to, NEW piece, IsEdit(new, text, from, to, piece),
           NEW index, IsIndex(index, text),
           NEW first, first = UpperBound(index.u16, from),
           NEW last, last = UpperBound(index.u16, to),
           NEW d, d = ByUnits(from, to, piece), NEW e, e = ScanEnd(index, last, d), NEW b
    PROVE  /\ Lists(Replaced(index, new, first, last, e, d, b).u16, Starts(new))
           /\ index.u16[first] \in Starts(new)
           /\ NewlinesIn(new, index.u16[first], e) \subseteq Starts(new)
<1> DEFINE u16 == index.u16
           a == u16[first]
           l == u16[last]
           again == LineStarts(new, a, e)
           shift == Shifted(u16, last, d)
           A == {x \in Starts(text) : x <= a}
           M == NewlinesIn(new, a, e)
           C == Beyond(Starts(text), l, d)
           p == Len(piece)
<1>1. /\ from \in Nat /\ to \in Nat /\ p \in Nat /\ d \in Int /\ to + d = from + p
    BY EditBounds
<1>2. /\ first \in 1..Len(u16) /\ last \in 1..Len(u16)
      /\ a \in Starts(text) /\ a \in Nat /\ a <= from
      /\ \A x \in Starts(text) : x <= from <=> x <= a
      /\ l \in Nat /\ l <= to /\ \A x \in Starts(text) : x <= to <=> x <= l
      /\ e \in Nat /\ from + p <= e /\ e <= Len(new)
      /\ \A x \in Starts(text) : x > l => x + d > e
      /\ \A y \in (e + 1)..Len(new) : y - d \in Starts(text) => y - d > l
    BY EditLines
<1>3. Lists(u16, Starts(text))
    BY DEF IsIndex
<1>4. Starts(new) = (A \cup M) \cup C
  <2>1. Covers(new, text, from, to, piece, a, l, e)
    <3> HIDE DEF a, l, u16
    <3> QED BY <1>2 DEF Covers
  <2> HIDE DEF a, l, u16
  <2>2. Starts(new) = ({x \in Starts(text) : x <= a} \cup NewlinesIn(new, a, e))
                            \cup Beyond(Starts(text), l, ByUnits(from, to, piece))
      BY <2>1, EditStarts
  <2> QED BY <2>2, Zenon
<1>5. Replaced(index, new, first, last, e, d, b).u16 = SubSeq(u16, 1, first) \o again \o shift
    BY DEF Replaced, Shifted
<1>6. Starts(text) \subseteq Nat
    BY <1>3 DEF Lists
<1> HIDE DEF u16
<1>7. Lists(SubSeq(u16, 1, first), A)
    BY <1>2, <1>3, ListsFront
<1>8. Lists(again, M)
  <2>1. a <= e
      BY <1>1, <1>2
  <2> HIDE DEF a
  <2> QED BY <1>2, <2>1, LineStartsOK
<1>9. Lists(shift, C)
  <2>1. ASSUME NEW x \in Starts(text), x > l PROVE x + d \in Nat
    <3>1. x \in Nat /\ x + d > e
        BY <1>2, <1>6, <2>1
    <3> QED BY <1>1, <1>2, <3>1
  <2> QED BY <1>1, <1>2, <1>3, <2>1, ListsRest
<1>10. \A x \in A, y \in M : x < y
    BY <1>2, <1>6 DEF NewlinesIn
<1>11. \A x \in A \cup M, y \in C : x < y
  <2>1. ASSUME NEW x \in A \cup M PROVE x \in Nat /\ x <= e
    <3>1. a <= e
        BY <1>1, <1>2
    <3> QED BY <1>2, <1>6, <3>1 DEF NewlinesIn
  <2>2. ASSUME NEW y \in C PROVE y \in Int /\ y > e
      BY <1>1, <1>2, <1>6 DEF Beyond
  <2> HIDE DEF A, M, C
  <2> QED BY <1>2, <2>1, <2>2
<1>12. a \in Starts(new) /\ M \subseteq Starts(new)
  <2>1. a \in A
      BY <1>2
  <2> HIDE DEF A, M, C
  <2> QED BY <1>4, <2>1
<1> HIDE DEF again, shift, A, M, C
<1> DEFINE front == SubSeq(u16, 1, first)
<1> HIDE DEF front
<1>13. Lists(front \o again, A \cup M)
    BY <1>7, <1>8, <1>10, ListsCat DEF front
<1>14. Lists((front \o again) \o shift, (A \cup M) \cup C)
    BY <1>9, <1>11, <1>13, ListsCat
<1> QED BY <1>4, <1>5, <1>12, <1>14 DEF front, u16, a, M

\* So are the bytes before them.
LEMMA ReplacedWeighs ==
    ASSUME NEW new, NEW text, NEW from, NEW to, NEW piece, IsEdit(new, text, from, to, piece),
           NEW index, IsIndex(index, text),
           NEW first, first = UpperBound(index.u16, from),
           NEW last, last = UpperBound(index.u16, to),
           NEW d, d = ByUnits(from, to, piece), NEW e, e = ScanEnd(index, last, d),
           NEW b, b = ByBytes(text, from, to, piece)
    PROVE  LET r == Replaced(index, new, first, last, e, d, b)
           IN  Weighs(r.u16, r.u8, new)
<1> DEFINE u16 == index.u16
           u8 == index.u8
           a == u16[first]
           l == u16[last]
           m == Len(u16) - last
           again == LineStarts(new, a, e)
           againBytes == [k \in DOMAIN again |-> u8[first] + Utf8LengthBetween(new, a, again[k])]
           shift == [k \in 1..(Len(u16) - last) |-> u16[last + k] + d]
           shiftBytes == [k \in 1..(Len(u8) - last) |-> u8[last + k] + b]
           r == Replaced(index, new, first, last, e, d, b)
<1>1. /\ from \in Nat /\ to \in Nat /\ d \in Int /\ Len(text) \in Nat /\ Len(piece) \in Nat
    BY EditBounds
<1>2. /\ first \in 1..Len(u16) /\ last \in 1..Len(u16)
      /\ a \in Starts(text) /\ a \in Nat /\ a <= from /\ u8[first] = Weight(text, a)
      /\ l \in Nat /\ \A x \in Starts(text) : x <= to <=> x <= l
      /\ e \in Nat /\ from + Len(piece) <= e /\ e <= Len(new)
    BY EditLines
<1>3. Lists(u16, Starts(text)) /\ Weighs(u16, u8, text) /\ IsUnits(new)
    BY DEF IsIndex, IsEdit
<1>4. /\ a \in Starts(new) /\ NewlinesIn(new, a, e) \subseteq Starts(new)
    BY ReplacedStarts
<1>5. /\ r.u16 = SubSeq(u16, 1, first) \o again \o shift
      /\ r.u8 = SubSeq(u8, 1, first) \o againBytes \o shiftBytes
    BY DEF Replaced
<1>6. /\ \A x \in 0..from : Weight(new, x) = Weight(text, x)
      /\ \A x \in to..Len(text) : Weight(new, x + d) = Weight(text, x) + b
    BY EditKeeps
<1>7. /\ \A x \in Starts(text) : x \in Nat /\ x <= Len(text)
    BY <1>1 DEF Starts, NewlinesIn
<1>8. /\ IsSeq(u16) /\ IsSeq(u8) /\ Len(u8) = Len(u16) /\ Len(u16) \in Nat
      /\ \A k \in 1..Len(u16) : u8[k] = Weight(text, u16[k])
      /\ \A k \in 1..Len(u16) : u16[k] \in Starts(text)
      /\ \A i, j \in 1..Len(u16) : i < j => u16[i] < u16[j]
    BY <1>3, IsSeqLen DEF Lists, Weighs, Ascending
<1> HIDE DEF u16, u8, r
<1>9. Weighs(SubSeq(u16, 1, first), SubSeq(u8, 1, first), new)
  <2> DEFINE f16 == SubSeq(u16, 1, first)
             f8 == SubSeq(u8, 1, first)
  <2>1. /\ Lists(f16, {x \in Starts(text) : x <= a}) /\ Len(f16) = first
        /\ \A k \in 1..first : f16[k] = u16[k]
      BY <1>2, <1>3, ListsFront
  <2>2. IsSeq(f8) /\ Len(f8) = first /\ \A k \in 1..first : f8[k] = u8[k]
    <3>1. Lists(u8, {Weight(text, x) : x \in Starts(text)}) /\ first \in 1..Len(u8)
        BY <1>2, <1>3, <1>8, WeighsLists
    <3> DEFINE W == {Weight(text, x) : x \in Starts(text)}
    <3> HIDE DEF W
    <3>2. Lists(u8, W)
        BY <3>1 DEF W
    <3>3. Lists(f8, {x \in W : x <= u8[first]}) /\ Len(f8) = first
          /\ \A k \in 1..first : f8[k] = u8[k]
        BY <3>1, <3>2, ListsFront
    <3> QED BY <3>3 DEF Lists
  <2> HIDE DEF f16, f8
  <2>3. ASSUME NEW k \in 1..first PROVE f8[k] = Weight(new, f16[k])
    <3>1. k \in 1..Len(u16) /\ f16[k] \in {x \in Starts(text) : x <= a}
        BY <1>2, <1>8, <2>1 DEF Lists
    <3>2. f16[k] \in 0..from
        BY <1>1, <1>2, <1>7, <3>1
    <3>3. f8[k] = Weight(text, f16[k])
        BY <1>8, <2>1, <2>2, <3>1
    <3> QED BY <1>6, <3>2, <3>3
  <2>4. Weighs(f16, f8, new)
      BY <2>1, <2>2, <2>3 DEF Weighs, Lists
  <2> QED BY <2>4 DEF f16, f8
<1>10. Weighs(again, againBytes, new)
  <2>1. Lists(again, NewlinesIn(new, a, e))
    <3>1. a <= e
        BY <1>1, <1>2
    <3> HIDE DEF a
    <3> QED BY <1>2, <3>1, LineStartsOK
  <2> HIDE DEF again, a
  <2>2. /\ IsSeq(again) /\ DOMAIN again = 1..Len(again) /\ Len(again) \in Nat
        /\ \A k \in 1..Len(again) : again[k] \in NewlinesIn(new, a, e)
      BY <2>1, IsSeqLen DEF Lists
  <2>3. Uncut(new, a) /\ u8[first] = Weight(new, a)
    <3>1. Uncut(new, a)
        BY <1>3, <1>4, StartsUncut
    <3>2. a \in 0..from
        BY <1>1, <1>2
    <3> QED BY <1>2, <1>6, <3>1, <3>2
  <2>4. ASSUME NEW k \in 1..Len(again)
        PROVE  u8[first] + Utf8LengthBetween(new, a, again[k]) = Weight(new, again[k])
    <3> DEFINE x == again[k]
    <3>1. x \in NewlinesIn(new, a, e)
        BY <2>2
    <3> HIDE DEF x
    <3>2. Uncut(new, x) /\ a <= x
      <4>1. x \in Starts(new) /\ x \in (a + 1)..e
          BY <1>4, <3>1 DEF NewlinesIn
      <4> QED BY <1>2, <1>3, <4>1, StartsUncut
    <3>3. /\ Utf8LengthBetween(new, a, x) = Weight(new, x) - Weight(new, a)
          /\ Weight(new, x) \in Nat /\ Weight(new, a) \in Nat
        BY <1>3, <2>3, <3>2, LengthBetween
    <3>4. u8[first] + Utf8LengthBetween(new, a, x) = Weight(new, x)
        BY <2>3, <3>3
    <3> QED BY <3>4 DEF x
  <2>5. /\ againBytes = [k \in 1..Len(again) |-> againBytes[k]]
        /\ \A k \in 1..Len(again) : againBytes[k] = Weight(new, again[k])
      BY <2>2, <2>4
  <2> HIDE DEF againBytes
  <2>6. IsSeq(againBytes) /\ Len(againBytes) = Len(again)
      BY <2>2, <2>5, IsSeqFunction
  <2> QED BY <2>2, <2>5, <2>6 DEF Weighs
<1>11. Weighs(shift, shiftBytes, new)
  <2>1. m \in Nat /\ Len(u8) - last = m
      BY <1>2, <1>8
  <2>2. /\ shift = [k \in 1..m |-> u16[last + k] + d]
        /\ shiftBytes = [k \in 1..m |-> u8[last + k] + b]
      BY <2>1
  <2>3. ASSUME NEW k \in 1..m PROVE u8[last + k] + b = Weight(new, u16[last + k] + d)
    <3> DEFINE x == u16[last + k]
    <3>1. last + k \in 1..Len(u16) /\ last < last + k
        BY <1>2, <1>8
    <3>2. x \in Starts(text) /\ l < x /\ u8[last + k] = Weight(text, x)
        BY <1>2, <1>8, <3>1
    <3> HIDE DEF x, l
    <3>3. x \in to..Len(text)
      <4>1. x \in Nat /\ x <= Len(text) /\ ~(x <= l)
          BY <1>2, <1>7, <3>2
      <4>2. ~(x <= to)
          BY <1>2, <3>2, <4>1
      <4> QED BY <1>1, <4>1, <4>2
    <3>4. u8[last + k] + b = Weight(new, x + d)
        BY <1>6, <3>2, <3>3
    <3> QED BY <3>4 DEF x
  <2> HIDE DEF m
  <2>4. /\ shift = [k \in 1..m |-> shift[k]]
        /\ shiftBytes = [k \in 1..m |-> shiftBytes[k]]
        /\ \A k \in 1..m : shiftBytes[k] = Weight(new, shift[k])
      BY <2>2, <2>3
  <2> HIDE DEF shift, shiftBytes
  <2>5. IsSeq(shift) /\ Len(shift) = m /\ IsSeq(shiftBytes) /\ Len(shiftBytes) = m
      BY <2>1, <2>4, IsSeqFunction
  <2> QED BY <2>4, <2>5 DEF Weighs
<1> DEFINE f16 == SubSeq(u16, 1, first)
           f8 == SubSeq(u8, 1, first)
<1> HIDE DEF f16, f8, again, againBytes, shift, shiftBytes
<1>12. Weighs(f16 \o again, f8 \o againBytes, new)
    BY <1>9, <1>10, WeighsCat DEF f16, f8
<1>13. Weighs((f16 \o again) \o shift, (f8 \o againBytes) \o shiftBytes, new)
    BY <1>11, <1>12, WeighsCat
<1> QED BY <1>5, <1>13 DEF f16, f8, r

\* replace keeps the index the one a rebuild would make.
THEOREM ReplaceKeepsIndex ==
    ASSUME NEW text, IsUnits(text), NEW piece, IsUnits(piece),
           NEW from \in 0..Len(text), NEW to \in 0..Len(text), from <= to
    PROVE  Replace(OffsetIndex(text), from, to, piece) =
              IF Uncut(text, from) /\ Uncut(text, to)
              THEN <<OffsetIndex(SubSeq(text, 1, from) \o piece
                                    \o SubSeq(text, to + 1, Len(text)))>>
              ELSE << >>
<1> DEFINE index == OffsetIndex(text)
           new   == SubSeq(text, 1, from) \o piece \o SubSeq(text, to + 1, Len(text))
           first == UpperBound(index.u16, from)
           last  == UpperBound(index.u16, to)
           d     == ByUnits(from, to, piece)
           e     == ScanEnd(index, last, d)
           b     == ByBytes(text, from, to, piece)
           r     == Replaced(index, new, first, last, e, d, b)
<1>1. IsIndex(index, text)
    BY IndexBuilt
<1> HIDE DEF index
<1>2. Replace(index, from, to, piece) =
          IF Uncut(text, from) /\ Uncut(text, to) THEN <<r>> ELSE << >>
    BY <1>1, ReplaceUnfold
<1>3. ASSUME Uncut(text, from), Uncut(text, to) PROVE r = OffsetIndex(new)
  <2>1. IsEdit(new, text, from, to, piece)
      BY <1>3, EditMade
  <2>2. IsUnits(new)
      BY <2>1 DEF IsEdit
  <2>3. r = [text |-> new, u16 |-> r.u16, u8 |-> r.u8, total |-> index.total + b]
      BY DEF Replaced
  <2> HIDE DEF new
  <2>4. Lists(r.u16, Starts(new))
      BY <1>1, <2>1, ReplacedStarts
  <2>5. Weighs(r.u16, r.u8, new)
      BY <1>1, <2>1, ReplacedWeighs
  <2>6. index.total + b = Weight(new, Len(new))
    <3>1. /\ Len(text) \in Nat /\ to <= Len(text) /\ to \in Nat
          /\ Len(new) = Len(text) + ByUnits(from, to, piece)
        BY <2>1, EditBounds
    <3>2. Len(text) \in to..Len(text)
        BY <3>1
    <3>3. Weight(new, Len(text) + ByUnits(from, to, piece)) = Weight(text, Len(text)) + b
        BY <2>1, <3>2, EditKeeps
    <3> QED BY <1>1, <3>1, <3>3 DEF IsIndex
  <2> DEFINE v16 == r.u16
             v8 == r.u8
             n == index.total + b
  <2> HIDE DEF r, b
  <2>7. /\ r = [text |-> new, u16 |-> v16, u8 |-> v8, total |-> n]
        /\ Lists(v16, Starts(new)) /\ Weighs(v16, v8, new) /\ n = Weight(new, Len(new))
      BY <2>3, <2>4, <2>5, <2>6
  <2> HIDE DEF v16, v8, n
  <2>8. IsIndex([text |-> new, u16 |-> v16, u8 |-> v8, total |-> n], new)
      BY <2>7 DEF IsIndex
  <2>9. [text |-> new, u16 |-> v16, u8 |-> v8, total |-> n] = OffsetIndex(new)
      BY <2>2, <2>8, IndexOne
  <2> QED BY <2>7, <2>9
<1> HIDE DEF r, new
<1>4. Replace(index, from, to, piece) =
          IF Uncut(text, from) /\ Uncut(text, to) THEN <<OffsetIndex(new)>> ELSE << >>
    BY <1>2, <1>3
<1> QED BY <1>4 DEF index, new

LEMMA OffsetsHold == OffsetsAgree
<1> SUFFICES ASSUME NEW text \in Texts
             PROVE  LET index == OffsetIndex(text)
                        Spliced(from, to, piece) ==
                            SubSeq(text, 1, from) \o piece \o SubSeq(text, to + 1, Len(text))
                    IN  /\ \A pos \in Edges(text) :
                              ToUnits(index, ToBytes(index, pos)) = <<pos>>
                        /\ \A b \in 0..index.total :
                              b \notin {ToBytes(index, pos) : pos \in Edges(text)}
                                  => ToUnits(index, b) = << >>
                        /\ \A from, to \in 0..Len(text), piece \in Pieces :
                              from <= to =>
                                  Replace(index, from, to, piece) =
                                      IF {from, to} \subseteq Edges(text)
                                      THEN <<OffsetIndex(Spliced(from, to, piece))>> ELSE << >>
    BY DEF OffsetsAgree
<1> DEFINE index == OffsetIndex(text)
           N == Len(text)
<1>1. IsUnits(text) /\ \A piece \in Pieces : IsUnits(piece)
    BY OTLawsAssumption DEF IsUnits
<1>2. \A pos : pos \in Edges(text) <=> Uncut(text, pos)
    BY <1>1, UncutAligned DEF Edges, Uncut
<1>3. IsIndex(index, text)
    BY <1>1, IndexBuilt
<1>4. \A from, to \in 0..N, piece \in Pieces :
          from <= to =>
              Replace(index, from, to, piece) =
                  IF {from, to} \subseteq Edges(text)
                  THEN <<OffsetIndex(SubSeq(text, 1, from) \o piece \o SubSeq(text, to + 1, N))>>
                  ELSE << >>
  <2>1. ASSUME NEW from \in 0..N, NEW to \in 0..N, NEW piece \in Pieces, from <= to
        PROVE  Replace(index, from, to, piece) =
                  IF {from, to} \subseteq Edges(text)
                  THEN <<OffsetIndex(SubSeq(text, 1, from) \o piece \o SubSeq(text, to + 1, N))>>
                  ELSE << >>
    <3> DEFINE new == OffsetIndex(SubSeq(text, 1, from) \o piece \o SubSeq(text, to + 1, N))
    <3>1. Replace(index, from, to, piece) =
              IF Uncut(text, from) /\ Uncut(text, to) THEN <<new>> ELSE << >>
        BY <1>1, <2>1, ReplaceKeepsIndex
    <3>2. {from, to} \subseteq Edges(text) <=> Uncut(text, from) /\ Uncut(text, to)
        BY <1>2
    <3> HIDE DEF new, index
    <3>3. Replace(index, from, to, piece) =
              IF {from, to} \subseteq Edges(text) THEN <<new>> ELSE << >>
        BY <3>1, <3>2
    <3> QED BY <3>3 DEF new
  <2> QED BY <2>1
<1> HIDE DEF index
<1>5. \A pos : Uncut(text, pos) => /\ ToBytes(index, pos) = Weight(text, pos)
                                   /\ Weight(text, pos) \in 0..index.total
  <2>1. ASSUME NEW pos, Uncut(text, pos) PROVE Weight(text, pos) \in 0..index.total
    <3>1. pos \in 0..N /\ N \in Nat /\ pos \in Nat
        BY <1>1, <2>1, IsSeqLen DEF IsUnits, Uncut
    <3>2. Weight(text, pos) \in Nat /\ Weight(text, N) \in Nat
        BY <3>1, WeightStep
    <3>3. pos < N => Weight(text, pos) < Weight(text, N)
        BY <3>1, WeightGrows
    <3>4. index.total = Weight(text, N)
        BY <1>3 DEF IsIndex
    <3> HIDE DEF N
    <3>5. pos = N \/ pos < N
        BY <3>1
    <3> QED BY <3>2, <3>3, <3>4, <3>5
  <2> QED BY <1>1, <1>3, <2>1, ToBytesWeighs
<1>6. ASSUME NEW pos \in Edges(text) PROVE ToUnits(index, ToBytes(index, pos)) = <<pos>>
    BY <1>1, <1>2, <1>3, <1>5, ToUnitsFinds
<1>7. ASSUME NEW b \in 0..index.total, b \notin {ToBytes(index, pos) : pos \in Edges(text)}
      PROVE  ToUnits(index, b) = << >>
  <2>1. ~\E pos : Uncut(text, pos) /\ Weight(text, pos) = b
      BY <1>2, <1>5, <1>7
  <2> QED BY <1>1, <1>3, <2>1, ToUnitsFinds
<1> QED BY <1>4, <1>6, <1>7 DEF index

\* No conversion drifts: an offset converted to bytes and back is the offset
\* again, a byte inside a character is refused, and the index that replace keeps
\* is the one a rebuild would make, for every text and every edit (offsets.ts,
\* the comments on toUnits and replace).
THEOREM OffsetsStayExact == Spec => []OffsetsAgree
BY OffsetsHold, PTL
=============================================================================
