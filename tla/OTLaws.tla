------------------------------- MODULE OTLaws -------------------------------
(***************************************************************************)
(* The laws the engine, the text diffs and the offset index owe their      *)
(* callers, checked on every operation two callers can build by a bounded  *)
(* number of builder calls, and on every edit of some short texts.         *)
(*                                                                         *)
(* Caller "a" walks over a document and builds an operation; then caller   *)
(* "b" builds one over the same document (they edit concurrently) or over  *)
(* the document a's operation produces (they edit one after the other).    *)
(***************************************************************************)
EXTENDS TextDiff, Offsets

CONSTANTS Docs,      \* the documents edited
          Strings,   \* what can be inserted
          MaxCalls,  \* builder calls per operation
          Texts,     \* the editor texts whose offsets are converted
          Pieces     \* what an edit puts into them

\* Bytes that can be told apart, and are no part of a text.
Tag(i) == <<"base", i>>

\* Surrogates come in pairs, as in every string that is text.
WellFormed(text) ==
    \A i \in 1..Len(text) :
        /\ text[i] \in High => i < Len(text) /\ text[i + 1] \in Low
        /\ text[i] \in Low => i > 1 /\ text[i - 1] \in High

ASSUME OTLawsAssumption ==
    /\ MaxCalls \in Nat
    /\ Lead \cap Cont = {}
    /\ \A text \in Docs \cup Strings : IsText(text)
    /\ \A text \in Docs : \A i \in 1..Len(text) :
          /\ Tag(i) \notin Lead \cup Cont
          /\ \A s \in Strings : Tag(i) \notin Range(s)
    /\ \A text \in Texts \cup Pieces : IsSeq(text) /\ WellFormed(text)

VARIABLES doc,         \* the document
          sequential,  \* b edits after a, not concurrently with it
          op,          \* the operation each caller has built so far
          calls        \* how many builder calls it has made

vars == <<doc, sequential, op, calls>>

Callers == {"a", "b"}

Complete(p, d) == BaseLen(op[p]) = Len(d)

\* The document caller p edits.
BaseOf(p) == IF p = "b" /\ sequential THEN Apply(op["a"], doc) ELSE doc

\* b starts once a's operation is one the engine accepts.
MayCall(p) ==
    /\ calls[p] < MaxCalls
    /\ p = "b" => Complete("a", doc) /\ Applies(op["a"], doc)
    /\ p = "a" => calls["b"] = 0

Build(p, newOp) ==
    /\ op' = [op EXCEPT ![p] = newOp]
    /\ calls' = [calls EXCEPT ![p] = @ + 1]
    /\ UNCHANGED <<doc, sequential>>

CallRetain(p) ==
    /\ MayCall(p)
    /\ \E n \in 1..(Len(BaseOf(p)) - BaseLen(op[p])) : Build(p, Retain(op[p], n))

CallDelete(p) ==
    /\ MayCall(p)
    /\ \E n \in 1..(Len(BaseOf(p)) - BaseLen(op[p])) : Build(p, Delete(op[p], n))

CallInsert(p) ==
    /\ MayCall(p)
    /\ \E s \in Strings : Build(p, Insert(op[p], s))

Init ==
    /\ doc \in Docs
    /\ sequential \in BOOLEAN
    /\ op = [p \in Callers |-> New]
    /\ calls = [p \in Callers |-> 0]

Next == \E p \in Callers : CallRetain(p) \/ CallDelete(p) \/ CallInsert(p)

Spec == Init /\ [][Next]_vars

---------------------------------------------------------------------------
(* When the laws speak: both operations are complete and apply.            *)

Concurrent == /\ ~sequential
              /\ \A p \in Callers : Complete(p, doc) /\ Applies(op[p], doc)

Consecutive == /\ sequential
               /\ Complete("a", doc) /\ Applies(op["a"], doc)
               /\ Complete("b", BaseOf("b")) /\ Applies(op["b"], BaseOf("b"))

\* a's operation alone, and what it makes of the document: any text that a
\* user's edits lead to.
Edited == calls["b"] = 0 /\ Complete("a", doc) /\ Applies(op["a"], doc)

target == Apply(op["a"], doc)

\* What an operation does to n bytes that can be told apart is what it does to
\* every document of that length.
Tags(n) == [i \in 1..n |-> Tag(i)]

Effect(o) == Apply(o, Tags(BaseLen(o)))

IsComp(o) == IF o.kind = "insert" THEN o.s # << >> ELSE o.n \in Nat \ {0}

\* No empty component, no two neighbours of a kind, no insert after a delete.
Canonical(o) ==
    /\ \A k \in DOMAIN o : IsComp(o[k])
    /\ \A k \in 1..(Len(o) - 1) :
          /\ o[k].kind # o[k + 1].kind
          /\ ~(o[k].kind = "delete" /\ o[k + 1].kind = "insert")

\* Every operation under construction is in canonical form, after every builder
\* call.  What is computed from two of them: TP1 and ComposeLaw.
TypeOK ==
    /\ doc \in Docs /\ ValidUTF8(doc)
    /\ calls \in [Callers -> 0..MaxCalls]
    /\ \A p \in Callers : Canonical(op[p])

(***************************************************************************)
(* Two operations that do the same to every document are built as the same *)
(* components, whatever the order of the builder calls: what lets the Go   *)
(* and the TypeScript engine be compared on their encodings (op.go, the    *)
(* comment on Insert).  And the receiver of an encoded operation decodes   *)
(* the same one.                                                           *)
(***************************************************************************)
EqualEffectEqualEncoding ==
    /\ (~sequential /\ Complete("a", doc) /\ Complete("b", doc)
           /\ Effect(op["a"]) = Effect(op["b"])) => op["a"] = op["b"]
    /\ \A p \in Callers : Decodes(Encode(op[p])) /\ Decode(Encode(op[p])) = op[p]

(***************************************************************************)
(* TP1, for which the package exists (transform.go): two operations on one *)
(* document can always be transformed, both orders of applying them are    *)
(* accepted, both end in the same document, and they are the same          *)
(* operation, not only on this document.  Where both callers insert at the *)
(* start, a's text comes first ("a's insert is always placed first").      *)
(***************************************************************************)
TP1 ==
    Concurrent =>
        LET t  == Transform(op["a"], op["b"])
            da == Apply(op["a"], doc)
            db == Apply(op["b"], doc)
            merged == Compose(op["b"], t.a)
        IN  /\ t.ok
            /\ Canonical(t.a) /\ Canonical(t.b)
            /\ Applies(t.b, da) /\ Applies(t.a, db)
            /\ Apply(t.b, da) = Apply(t.a, db)
            /\ merged = Compose(op["a"], t.b)
            /\ Kind(op["a"]) = "insert" /\ Kind(op["b"]) = "insert"
               => IsPrefix(op["a"][1].s \o op["b"][1].s, merged[1].s)

(***************************************************************************)
(* Compose(a, b) does in one step what a and then b do (compose.go); it is *)
(* refused for no pair of operations that can be applied in sequence.  An  *)
(* operation composed with its inverse gives the document back.            *)
(***************************************************************************)
ComposeLaw ==
    /\ Consecutive =>
          LET c == Compose(op["a"], op["b"])
          IN  /\ Composes(op["a"], op["b"])
              /\ Canonical(c)
              /\ Applies(c, doc)
              /\ Apply(c, doc) = Apply(op["b"], Apply(op["a"], doc))
    /\ Edited =>
          LET inv == Invert(op["a"], doc)
          IN  /\ Applies(inv, target)
              /\ Composes(op["a"], inv)
              /\ Apply(Compose(op["a"], inv), doc) = doc

(***************************************************************************)
(* The boundary checks of Apply are enough: with well-formed inserts the   *)
(* last check, on the whole result, never refuses what they accept         *)
(* (apply.go, "this last check ... closes the gap").                       *)
(***************************************************************************)
BoundaryChecksSuffice ==
    (/\ Complete("a", doc) /\ BoundariesHold(op["a"], doc)
     /\ \A k \in DOMAIN op["a"] :
           op["a"][k].kind = "insert" => ValidUTF8(op["a"][k].s))
    => ValidUTF8(Apply(op["a"], doc))

(***************************************************************************)
(* A caret follows the first byte at or after it that survives, and goes   *)
(* to the end of the document when none does: it is never moved relative   *)
(* to the text around it (cursor.go).  The ends of a selection never pass  *)
(* each other.                                                             *)
(***************************************************************************)
CaretFollowsText ==
    Complete("a", doc) =>
        LET result == Effect(op["a"])
            Survivors(pos) == {i \in DOMAIN result :
                                  \E j \in (pos + 1)..Len(doc) : result[i] = Tag(j)}
        IN  \A pos \in 0..Len(doc) :
            /\ TransformIndex(op["a"], pos) =
                    (IF Survivors(pos) = {} THEN Len(result)
                     ELSE (CHOOSE i \in Survivors(pos) :
                              \A j \in Survivors(pos) : i <= j) - 1)
            /\ \A end \in pos..Len(doc) :
                  TransformRange(op["a"], pos, end) =
                      <<TransformIndex(op["a"], pos), TransformIndex(op["a"], end)>>

---------------------------------------------------------------------------
(* The diffs, from the document to the target.                             *)

(***************************************************************************)
(* The operation a session resends after a reconnect is one the server     *)
(* accepts - no component splits a character of either text, no inserted   *)
(* piece is malformed - and takes the last confirmed text to the current   *)
(* one; it is a no-op exactly when nothing changed, else the session would *)
(* resend an edit that is not one (session.ts diffText, establishBaseline).*)
(* So does the editor bridge's replacement, and it neither starts nor ends *)
(* inside a surrogate pair of the old text, so that its offsets can be     *)
(* converted to bytes (bridge/diff.ts, the comment on applyTextChange).    *)
(***************************************************************************)
DiffsReproduceTarget ==
    Edited =>
        LET diff   == DiffText(doc, target)
            change == ComputeTextChange(doc, target)
        IN  /\ Applies(diff, doc) /\ Apply(diff, doc) = target
            /\ IsNoop(diff) <=> doc = target
            /\ \A k \in DOMAIN diff : diff[k].kind = "insert" => ValidUTF8(diff[k].s)
            /\ IF doc = target THEN change = NoChange
               ELSE /\ ApplyTextChange(doc, change[1]) = target
                    /\ IsBoundary(doc, change[1].from)
                    /\ IsBoundary(doc, change[1].to)
                    /\ change[1].from <= change[1].to
                    /\ ValidUTF8(change[1].insert)

---------------------------------------------------------------------------
(* The offset index.  It does not depend on the operations: it is looked   *)
(* at once.                                                                *)

Untouched == doc = << >> /\ ~sequential /\ calls = [p \in Callers |-> 0]

Edges(text) == {pos \in 0..Len(text) : Aligned(text, pos)}

(***************************************************************************)
(* Converting an editor's offset to bytes and back gives the offset again, *)
(* a byte offset inside a character is refused, never rounded, and the     *)
(* index kept up to date by an edit is the one a rebuild would give, so    *)
(* that no conversion drifts over a long session (offsets.ts, the comments *)
(* on toUnits and replace).                                                *)
(***************************************************************************)
OffsetsAgree ==
    Untouched =>
        \A text \in Texts :
            LET index == OffsetIndex(text)
                Put(from, to, piece) ==
                    SubSeq(text, 1, from) \o piece \o SubSeq(text, to + 1, Len(text))
            IN  /\ \A pos \in Edges(text) : ToUnits(index, ToBytes(index, pos)) = <<pos>>
                /\ \A b \in 0..index.total :
                      b \notin {ToBytes(index, pos) : pos \in Edges(text)}
                          => ToUnits(index, b) = << >>
                /\ \A from, to \in 0..Len(text), piece \in Pieces :
                      from <= to =>
                          Replace(index, from, to, piece) =
                              IF {from, to} \subseteq Edges(text)
                              THEN <<OffsetIndex(Put(from, to, piece))>> ELSE << >>
=============================================================================
