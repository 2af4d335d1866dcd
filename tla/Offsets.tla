------------------------------ MODULE Offsets ------------------------------
(***************************************************************************)
(* Between the editors' UTF-16 offsets and the protocol's UTF-8 bytes:     *)
(* web/src/ot/utf8.ts over strings, and the OffsetIndex of offsets.ts,     *)
(* through which useCollabDocument converts every change and every caret.  *)
(*                                                                         *)
(* A text is a sequence of UTF-16 code units.  Offsets count from 0, as in *)
(* the code: the unit at offset i is text[i + 1].  An index is a record    *)
(*   text, u16, u8   the text, and the starts of its lines in both units   *)
(*   total           its length in bytes                                   *)
(* A thrown Utf8Error is an empty sequence where a value is <<value>>.     *)
(***************************************************************************)
EXTENDS Integers, Sequences, SequencesExt

CONSTANTS Newline,   \* the unit that ends a line, one byte long
          Letter,    \* units two bytes long
          Wide,      \* units three bytes long
          High, Low  \* surrogates: a high and a low one are four bytes

\* A unit is of one kind.
ASSUME OffsetsAssumption ==
    /\ Newline \notin Letter \cup Wide \cup High \cup Low
    /\ Letter \cap Wide = {} /\ (Letter \cup Wide) \cap (High \cup Low) = {}
    /\ High \cap Low = {}

\* The character at offset i: charByteWidth.
Paired(text, i) == text[i + 1] \in High /\ i + 1 < Len(text) /\ text[i + 2] \in Low

Units(text, i) == IF Paired(text, i) THEN 2 ELSE 1

Bytes(text, i) ==
    CASE Paired(text, i)               -> 4
      [] text[i + 1] \in Letter        -> 2
      [] text[i + 1] \in Wide          -> 3
      [] ~Paired(text, i) /\ text[i + 1] \in High \cup Low -> 3   \* a lone one
      [] OTHER                         -> 1

Utf8LengthBetween(text, from, to) ==
    LET slice == SubSeq(text, 1, to)
        n[i \in from..(to + 1)] ==
            IF i >= to THEN 0 ELSE Bytes(slice, i) + n[i + Units(slice, i)]
    IN  n[from]

Utf8Length(text) == Utf8LengthBetween(text, 0, Len(text))

Clamp(v, lo, hi) == IF v < lo THEN lo ELSE IF v > hi THEN hi ELSE v

\* The last of the ascending starts that is not past value.
UpperBound(starts, value) ==
    CHOOSE k \in DOMAIN starts :
        /\ starts[k] <= value
        /\ k < Len(starts) => starts[k + 1] > value

\* The offsets after the newlines between from and to, as the loops push them.
LineStarts(text, from, to) ==
    LET starts[i \in from..to] ==
            IF i = from THEN << >>
            ELSE IF text[i] = Newline THEN Append(starts[i - 1], i)
            ELSE starts[i - 1]
    IN  starts[to]

\* The constructor, reset and rebuild.
OffsetIndex(text) ==
    LET u16 == <<0>> \o LineStarts(text, 0, Len(text))
    IN  [text  |-> text,
         u16   |-> u16,
         u8    |-> [k \in DOMAIN u16 |-> Utf8LengthBetween(text, 0, u16[k])],
         total |-> Utf8Length(text)]

ToBytes(index, pos) ==
    LET p    == Clamp(pos, 0, Len(index.text))
        line == UpperBound(index.u16, p)
    IN  index.u8[line] + Utf8LengthBetween(index.text, index.u16[line], p)

\* The walk along the line reaches the offsets where a character starts.
ToUnits(index, byteOffset) ==
    LET target == Clamp(byteOffset, 0, index.total)
        line   == UpperBound(index.u8, target)
        start  == index.u16[line]
        Reached(i) ==
            /\ i > start => ~Paired(index.text, i - 1)
            /\ index.u8[line] + Utf8LengthBetween(index.text, start, i) = target
        found == {i \in start..Len(index.text) : Reached(i)}
    IN  IF found = {} THEN << >> ELSE <<CHOOSE i \in found : TRUE>>

\* No surrogate pair is split at pos.
Aligned(text, pos) == pos \in 1..(Len(text) - 1) => ~Paired(text, pos - 1)

\* Seeded fault: a line that starts where the region ends is counted twice.
ReplaceTwice(index, from, to, inserted) ==
    LET first == UpperBound(index.u16, from)
        last  == UpperBound(index.u16, to)
        deltaUnits == Len(inserted) - (to - from)
        deltaBytes == Utf8Length(inserted) - Utf8LengthBetween(index.text, from, to)
        text  == SubSeq(index.text, 1, from) \o inserted
                    \o SubSeq(index.text, to + 1, Len(index.text))
        end   == (IF last < Len(index.u16) THEN index.u16[last + 1]
                                           ELSE Len(index.text)) + deltaUnits
        new   == LineStarts(text, index.u16[first], end)
        Shift(starts, delta) ==
            [k \in 1..(Len(starts) - last) |-> starts[last + k] + delta]
    IN  <<[text  |-> text,
           u16   |-> SubSeq(index.u16, 1, first) \o new \o Shift(index.u16, deltaUnits),
           u8    |-> SubSeq(index.u8, 1, first)
                        \o [k \in DOMAIN new |->
                              index.u8[first]
                                + Utf8LengthBetween(text, index.u16[first], new[k])]
                        \o Shift(index.u8, deltaBytes),
           total |-> index.total + deltaBytes]>>

\* replace: only the lines that the edit touches are scanned again, the
\* starts of the later ones are shifted.
Replace(index, from, to, inserted) ==
    LET start == Clamp(IF from < to THEN from ELSE to, 0, Len(index.text))
        stop  == Clamp(IF from < to THEN to ELSE from, 0, Len(index.text))
        first == UpperBound(index.u16, start)
        last  == UpperBound(index.u16, stop)
        hasTail == last < Len(index.u16)
        deltaUnits == Len(inserted) - (stop - start)
        deltaBytes == Utf8Length(inserted) - Utf8LengthBetween(index.text, start, stop)
        text  == SubSeq(index.text, 1, start) \o inserted
                    \o SubSeq(index.text, stop + 1, Len(index.text))
        end   == (IF hasTail THEN index.u16[last + 1] ELSE Len(index.text)) + deltaUnits
        \* A line that starts at the end of the region is the first one shifted.
        new   == LineStarts(text, index.u16[first], IF hasTail THEN end - 1 ELSE end)
        Shift(starts, delta) ==
            [k \in 1..(Len(starts) - last) |-> starts[last + k] + delta]
    IN  IF ~Aligned(index.text, start) \/ ~Aligned(index.text, stop) THEN << >>
        ELSE <<[text  |-> text,
                u16   |-> SubSeq(index.u16, 1, first) \o new
                             \o Shift(index.u16, deltaUnits),
                u8    |-> SubSeq(index.u8, 1, first)
                             \o [k \in DOMAIN new |->
                                   index.u8[first]
                                     + Utf8LengthBetween(text, index.u16[first], new[k])]
                             \o Shift(index.u8, deltaBytes),
                total |-> index.total + deltaBytes]>>
=============================================================================
