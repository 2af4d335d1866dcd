-------------------------------- MODULE OT --------------------------------
(***************************************************************************)
(* The operational-transformation engine: internal/ot in Go, mirrored      *)
(* byte for byte by web/src/ot in TypeScript.                              *)
(*                                                                         *)
(* A document is a sequence of bytes.  What a byte is does not matter      *)
(* except for UTF-8: a byte of Lead starts a two-byte character, a byte of *)
(* Cont is the second byte of one, and every other byte is a character of  *)
(* its own.                                                                *)
(*                                                                         *)
(* An operation is a sequence of components.  The code's OpSeq also stores *)
(* its base and target length; here they are computed from the components. *)
(* An error return is a FALSE of the guard operators (Applies, .ok).       *)
(***************************************************************************)
EXTENDS Integers, Sequences, SequencesExt

CONSTANTS Lead,   \* first bytes of two-byte characters
          Cont    \* continuation bytes

\* s is a sequence, of whatever it holds.
IsSeq(s) == s \in Seq(Range(s))

---------------------------------------------------------------------------
(* UTF-8.                                                                  *)

RuneStart(b) == b \notin Cont

\* at is a valid split point of doc, counted in bytes before it.
IsBoundary(doc, at) ==
    /\ at \in 0..Len(doc)
    /\ at < Len(doc) => RuneStart(doc[at + 1])

ValidUTF8(doc) ==
    \A i \in 0..Len(doc) :
        (i < Len(doc) /\ doc[i + 1] \in Cont) <=> (i > 0 /\ doc[i] \in Lead)

\* s is a text: whole characters, side by side.
IsText(s) == IsSeq(s) /\ ValidUTF8(s)

\* a stands before b in text.
Before(text, a, b) ==
    \E i, j \in DOMAIN text : i < j /\ text[i] = a /\ text[j] = b

---------------------------------------------------------------------------
(* Components and lengths.                                                 *)

RetainComp(n) == [kind |-> "retain", n |-> n]
DeleteComp(n) == [kind |-> "delete", n |-> n]
InsertComp(s) == [kind |-> "insert", s |-> s]

CompLen(o) == IF o.kind = "insert" THEN Len(o.s) ELSE o.n

New == << >>

\* at[k]: the length of the first k components of op, of the given kinds.
LengthAt(op, kinds) ==
    LET at[k \in 0..Len(op)] ==
            IF k = 0 THEN 0
            ELSE at[k - 1] + (IF op[k].kind \in kinds THEN CompLen(op[k]) ELSE 0)
    IN  at

\* How much of the base document the first k components walk over.
BaseAt(op) == LengthAt(op, {"retain", "delete"})

BaseLen(op)   == BaseAt(op)[Len(op)]
TargetLen(op) == LengthAt(op, {"retain", "insert"})[Len(op)]

IsNoop(op) == op = << >> \/ (Len(op) = 1 /\ op[1].kind = "retain")

---------------------------------------------------------------------------
(* The builder: components of one kind are merged, and an insert never     *)
(* follows a delete.                                                       *)

EndsWith(op, kind) == op # << >> /\ Last(op).kind = kind

Retain(op, n) ==
    IF n <= 0 THEN op
    ELSE IF EndsWith(op, "retain") THEN [op EXCEPT ![Len(op)].n = @ + n]
    ELSE Append(op, RetainComp(n))

\* Seeded fault: neighbouring deletes are not merged.
DeleteUnmerged(op, n) == IF n = 0 THEN op ELSE Append(op, DeleteComp(n))

Delete(op, n) ==
    LET count == IF n < 0 THEN -n ELSE n
    IN  IF count = 0 THEN op
        ELSE IF EndsWith(op, "delete") THEN [op EXCEPT ![Len(op)].n = @ + count]
        ELSE Append(op, DeleteComp(count))

\* Seeded fault: an insert stays behind the delete it follows.
InsertUnordered(op, s) ==
    IF s = << >> THEN op
    ELSE IF EndsWith(op, "insert") THEN [op EXCEPT ![Len(op)].s = @ \o s]
    ELSE Append(op, InsertComp(s))

Insert(op, s) ==
    IF s = << >> THEN op
    ELSE IF EndsWith(op, "insert") THEN [op EXCEPT ![Len(op)].s = @ \o s]
    ELSE IF ~EndsWith(op, "delete") THEN Append(op, InsertComp(s))
    ELSE IF EndsWith(Front(op), "insert")
         THEN [op EXCEPT ![Len(op) - 1].s = @ \o s]
         ELSE Front(op) \o <<InsertComp(s), Last(op)>>

---------------------------------------------------------------------------
(* The wire format: a retain is a positive number, a delete a negative     *)
(* one, an insert a string.  Decoding rebuilds the operation.              *)

Encode(op) ==
    [k \in DOMAIN op |-> CASE op[k].kind = "retain" -> [num |-> op[k].n]
                           [] op[k].kind = "delete" -> [num |-> -op[k].n]
                           [] op[k].kind = "insert" -> [str |-> op[k].s]]

IsStr(item) == "str" \in DOMAIN item

DecodeStep(op, item) ==
    IF IsStr(item) THEN Insert(op, item.str)
    ELSE IF item.num > 0 THEN Retain(op, item.num) ELSE Delete(op, -item.num)

\* The message is well formed: no zero component, no malformed insert.
Decodes(raw) ==
    \A i \in DOMAIN raw : IF IsStr(raw[i]) THEN ValidUTF8(raw[i].str)
                                          ELSE raw[i].num # 0

Decode(raw) ==
    LET op[k \in 0..Len(raw)] ==
            IF k = 0 THEN New ELSE DecodeStep(op[k - 1], raw[k])
    IN  op[Len(raw)]

---------------------------------------------------------------------------
(* Applying an operation.                                                  *)

\* The bytes of doc a retain or delete component, the k-th of op, covers.
Covered(op, k, doc) == SubSeq(doc, BaseAt(op)[k - 1] + 1, BaseAt(op)[k])

Apply(op, doc) ==
    LET out[k \in 0..Len(op)] ==
            IF k = 0 THEN << >>
            ELSE out[k - 1] \o CASE op[k].kind = "retain" -> Covered(op, k, doc)
                                 [] op[k].kind = "delete" -> << >>
                                 [] op[k].kind = "insert" -> op[k].s
    IN  out[Len(op)]

\* Seeded fault: only the ends of retains are checked.
BoundariesHoldRetained(op, doc) ==
    \A k \in DOMAIN op :
        op[k].kind = "retain" => IsBoundary(doc, BaseAt(op)[k])

\* No component of op ends inside a character of doc, or past its end.
BoundariesHold(op, doc) ==
    \A k \in DOMAIN op :
        op[k].kind # "insert" => IsBoundary(doc, BaseAt(op)[k])

\* op.Apply(doc) returns no error.
Applies(op, doc) ==
    /\ Len(doc) = BaseLen(op)
    /\ BoundariesHold(op, doc)
    /\ ValidUTF8(Apply(op, doc))

\* op.Invert(doc): the operation that undoes op, applied to doc.
Invert(op, doc) ==
    LET inv[k \in 0..Len(op)] ==
            IF k = 0 THEN New
            ELSE CASE op[k].kind = "retain" -> Retain(inv[k - 1], op[k].n)
                   [] op[k].kind = "insert" -> Delete(inv[k - 1], Len(op[k].s))
                   [] op[k].kind = "delete" -> Insert(inv[k - 1], Covered(op, k, doc))
    IN  inv[Len(op)]

---------------------------------------------------------------------------
(* The iterator both combinators advance: the components still to be       *)
(* consumed, the first of them perhaps in part.                            *)

Ok(it) == it # << >>

Kind(it) == IF Ok(it) THEN Head(it).kind ELSE "none"

\* takeN and takeS: consume n bytes of the head component.
Take(it, n) ==
    LET o == Head(it)
    IN  IF CompLen(o) <= n THEN Tail(it)
        ELSE IF o.kind = "insert"
             THEN <<InsertComp(SubSeq(o.s, n + 1, Len(o.s)))>> \o Tail(it)
             ELSE <<[o EXCEPT !.n = @ - n]>> \o Tail(it)

\* The number of bytes both heads span, and the bytes of an insert it takes.
Common(ia, ib) ==
    IF CompLen(Head(ia)) < CompLen(Head(ib)) THEN CompLen(Head(ia))
                                             ELSE CompLen(Head(ib))
HeadText(it, n) == SubSeq(Head(it).s, 1, n)

---------------------------------------------------------------------------
(* Compose(a, b): one operation that does a, then b.                       *)

\* Seeded fault: what b deletes of the original text is forgotten.
ComposeStepForgets(st) ==
    LET n == Common(st.ia, st.ib)
        both == [st EXCEPT !.ia = Take(@, n), !.ib = Take(@, n)]
    IN CASE Kind(st.ia) = "delete" ->
              [st EXCEPT !.ia = Tail(@), !.out = Delete(@, Head(st.ia).n)]
         [] Kind(st.ia) # "delete" /\ Kind(st.ib) = "insert" ->
              [st EXCEPT !.ib = Tail(@), !.out = Insert(@, Head(st.ib).s)]
         [] Kind(st.ia) = "insert" /\ Kind(st.ib) = "retain" ->
              [both EXCEPT !.out = Insert(@, HeadText(st.ia, n))]
         [] Kind(st.ia) = "retain" /\ Kind(st.ib) = "retain" ->
              [both EXCEPT !.out = Retain(@, n)]
         [] OTHER -> both

\* One turn of the loop, on the state [ia, ib, out, ok].
ComposeStep(st) ==
    LET n == Common(st.ia, st.ib)
        both == [st EXCEPT !.ia = Take(@, n), !.ib = Take(@, n)]
        splits == /\ n < CompLen(Head(st.ia))
                  /\ ~RuneStart(Head(st.ia).s[n + 1])
    IN CASE Kind(st.ia) = "delete" ->
              [st EXCEPT !.ia = Tail(@), !.out = Delete(@, Head(st.ia).n)]
         [] Kind(st.ia) # "delete" /\ Kind(st.ib) = "insert" ->
              [st EXCEPT !.ib = Tail(@), !.out = Insert(@, Head(st.ib).s)]
         [] Kind(st.ia) = "retain" /\ Kind(st.ib) = "retain" ->
              [both EXCEPT !.out = Retain(@, n)]
         [] Kind(st.ia) = "retain" /\ Kind(st.ib) = "delete" ->
              [both EXCEPT !.out = Delete(@, n)]
         [] Kind(st.ia) = "insert" /\ Kind(st.ib) \in {"retain", "delete"} ->
              IF splits THEN [st EXCEPT !.ok = FALSE]
              ELSE IF Kind(st.ib) = "retain"
                   THEN [both EXCEPT !.out = Insert(@, HeadText(st.ia, n))]
                   ELSE both
         [] OTHER -> [st EXCEPT !.ok = FALSE]       \* ran out of components

\* Every turn finishes a component of a or of b, so Len(a) + Len(b) turns
\* are enough; the state stays put once both are consumed or on an error.
ComposeLoop(a, b) ==
    LET run[k \in 0..(Len(a) + Len(b))] ==
            IF k = 0
            THEN [ia |-> a, ib |-> b, out |-> New, ok |-> TargetLen(a) = BaseLen(b)]
            ELSE LET st == run[k - 1]
                 IN  IF st.ok /\ (Ok(st.ia) \/ Ok(st.ib)) THEN ComposeStep(st) ELSE st
    IN  run[Len(a) + Len(b)]

Composes(a, b) == ComposeLoop(a, b).ok
Compose(a, b)  == ComposeLoop(a, b).out

---------------------------------------------------------------------------
(* Transform(a, b): a rebased past b and b rebased past a.  At one         *)
(* position a's insert goes first.                                         *)

\* Seeded fault: what both delete is deleted by a's rebased operation again.
TransformStepTwice(st) ==
    LET n == Common(st.ia, st.ib)
        both == [st EXCEPT !.ia = Take(@, n), !.ib = Take(@, n)]
        ka == Kind(st.ia)
        kb == Kind(st.ib)
    IN CASE ka = "insert" ->
              [st EXCEPT !.ia = Tail(@),
                         !.ap = Insert(@, Head(st.ia).s),
                         !.bp = Retain(@, CompLen(Head(st.ia)))]
         [] ka # "insert" /\ kb = "insert" ->
              [st EXCEPT !.ib = Tail(@),
                         !.ap = Retain(@, CompLen(Head(st.ib))),
                         !.bp = Insert(@, Head(st.ib).s)]
         [] ka = "retain" /\ kb = "retain" ->
              [both EXCEPT !.ap = Retain(@, n), !.bp = Retain(@, n)]
         [] ka = "delete" /\ kb \in {"retain", "delete"} ->
              [both EXCEPT !.ap = Delete(@, n)]
         [] ka = "retain" /\ kb = "delete" -> [both EXCEPT !.bp = Delete(@, n)]
         [] OTHER -> [st EXCEPT !.ok = FALSE]

\* One turn of the loop, on the state [ia, ib, ap, bp, ok].
TransformStep(st) ==
    LET n == Common(st.ia, st.ib)
        both == [st EXCEPT !.ia = Take(@, n), !.ib = Take(@, n)]
        ka == Kind(st.ia)
        kb == Kind(st.ib)
    IN CASE ka = "insert" ->
              [st EXCEPT !.ia = Tail(@),
                         !.ap = Insert(@, Head(st.ia).s),
                         !.bp = Retain(@, CompLen(Head(st.ia)))]
         [] ka # "insert" /\ kb = "insert" ->
              [st EXCEPT !.ib = Tail(@),
                         !.ap = Retain(@, CompLen(Head(st.ib))),
                         !.bp = Insert(@, Head(st.ib).s)]
         [] ka = "retain" /\ kb = "retain" ->
              [both EXCEPT !.ap = Retain(@, n), !.bp = Retain(@, n)]
         [] ka = "delete" /\ kb = "delete" -> both
         [] ka = "delete" /\ kb = "retain" -> [both EXCEPT !.ap = Delete(@, n)]
         [] ka = "retain" /\ kb = "delete" -> [both EXCEPT !.bp = Delete(@, n)]
         [] OTHER -> [st EXCEPT !.ok = FALSE]       \* ran out of components

TransformLoop(a, b) ==
    LET run[k \in 0..(Len(a) + Len(b))] ==
            IF k = 0
            THEN [ia |-> a, ib |-> b, ap |-> New, bp |-> New,
                  ok |-> BaseLen(a) = BaseLen(b)]
            ELSE LET st == run[k - 1]
                 IN  IF st.ok /\ (Ok(st.ia) \/ Ok(st.ib)) THEN TransformStep(st) ELSE st
    IN  run[Len(a) + Len(b)]

\* The pair the code returns, and whether it returned no error.
Transform(a, b) ==
    LET Pair(st) == [a |-> st.ap, b |-> st.bp, ok |-> st.ok]
    IN  Pair(TransformLoop(a, b))

---------------------------------------------------------------------------
(* Carets.                                                                 *)

\* Seeded fault: all of a delete counts, not only what is before the caret.
IndexStepWhole(st, o) ==
    CASE st.remaining < 0 -> st
      [] st.remaining >= 0 /\ o.kind = "retain" ->
            [st EXCEPT !.remaining = @ - o.n]
      [] st.remaining >= 0 /\ o.kind = "insert" ->
            [st EXCEPT !.out = @ + Len(o.s)]
      [] st.remaining >= 0 /\ o.kind = "delete" ->
            [remaining |-> st.remaining - o.n, out |-> st.out - o.n]

\* The state [remaining, out] after component o; the code leaves its loop
\* once remaining is negative.
IndexStep(st, o) ==
    CASE st.remaining < 0 -> st
      [] st.remaining >= 0 /\ o.kind = "retain" ->
            [st EXCEPT !.remaining = @ - o.n]
      [] st.remaining >= 0 /\ o.kind = "insert" ->
            [st EXCEPT !.out = @ + Len(o.s)]
      [] st.remaining >= 0 /\ o.kind = "delete" ->
            [remaining |-> st.remaining - o.n,
             out |-> st.out - (IF st.remaining < o.n THEN st.remaining ELSE o.n)]

TransformIndex(op, pos) ==
    LET run[k \in 0..Len(op)] ==
            IF k = 0 THEN [remaining |-> pos, out |-> pos]
            ELSE IndexStep(run[k - 1], op[k])
        out == run[Len(op)].out
    IN  IF pos < 0 \/ out < 0 THEN 0 ELSE out

\* The ends of a selection, in order.
TransformRange(op, start, end) ==
    LET a == TransformIndex(op, start)
        b == TransformIndex(op, end)
    IN  IF a > b THEN <<b, a>> ELSE <<a, b>>

===========================================================================
