------------------------------ MODULE TextDiff ------------------------------
(***************************************************************************)
(* Turning "the text was base, now it is target" into one replacement: the *)
(* common prefix and suffix are trimmed, and both cuts are backed off so   *)
(* that no character is split.                                             *)
(*                                                                         *)
(*   DiffText           session.ts diffText, in UTF-8 bytes: what a        *)
(*                      session resends when it reconnects.                *)
(*   ComputeTextChange, ComputeMinimalReplace                              *)
(*                      bridge/diff.ts and views/source/diff.ts, in UTF-16 *)
(*                      code units: Lead is then the set of high           *)
(*                      surrogates and Cont that of low surrogates.        *)
(***************************************************************************)
EXTENDS OT

\* The larger of the numbers in a set of naturals that contains 0.
Largest(S) == CHOOSE n \in S : \A m \in S : m <= n

CommonPrefix(s, t) ==
    Largest({n \in 0..Len(s) : n <= Len(t) /\ SubSeq(s, 1, n) = SubSeq(t, 1, n)})

\* The last n elements of s.
SuffixOf(s, n) == SubSeq(s, Len(s) - n + 1, Len(s))

\* The longest common suffix of at most max elements.
CommonSuffix(s, t, max) ==
    Largest({n \in 0..max : SuffixOf(s, n) = SuffixOf(t, n)})

---------------------------------------------------------------------------
(* session.ts.                                                             *)

\* Seeded fault: a byte offset is taken for the start of a character.
FloorBoundaryNot(doc, at) == at

\* Back a byte offset up to the nearest start of a character.
FloorBoundary(doc, at) == Largest({i \in 0..at : i = 0 \/ IsBoundary(doc, i)})

DiffText(base, target) ==
    LET minLen == IF Len(base) < Len(target) THEN Len(base) ELSE Len(target)
        prefix == FloorBoundary(base, CommonPrefix(base, target))
        suffix == Largest({n \in 0..CommonSuffix(base, target, minLen - prefix) :
                              n > 0 => /\ IsBoundary(base, Len(base) - n)
                                       /\ IsBoundary(target, Len(target) - n)})
        kept     == Retain(New, prefix)
        deleted  == Delete(kept, Len(base) - suffix - prefix)
        inserted == Insert(deleted, SubSeq(target, prefix + 1, Len(target) - suffix))
    IN  Retain(inserted, suffix)

---------------------------------------------------------------------------
(* bridge/diff.ts and views/source/diff.ts.                                *)

NoChange == << >>   \* the code's null

\* <<change>> with the replaced range and the text that replaces it.
ComputeTextChange(old, new) ==
    LET minLen == IF Len(old) < Len(new) THEN Len(old) ELSE Len(new)
        common == CommonPrefix(old, new)
        prefix == IF common > 0 /\ old[common] \in Lead THEN common - 1 ELSE common
        match  == CommonSuffix(old, new, minLen - prefix)
        suffix == IF match > 0 /\ old[Len(old) - match + 1] \in Cont
                  THEN match - 1 ELSE match
    IN  IF old = new THEN NoChange
        ELSE <<[from   |-> prefix,
                to     |-> Len(old) - suffix,
                insert |-> SubSeq(new, prefix + 1, Len(new) - suffix)]>>

\* The source view has the same trim written out a second time.
ComputeMinimalReplace(old, new) == ComputeTextChange(old, new)

ApplyTextChange(text, change) ==
    SubSeq(text, 1, change.from) \o change.insert
        \o SubSeq(text, change.to + 1, Len(text))
=============================================================================
