------------------------------- MODULE Editor -------------------------------
(***************************************************************************)
(* The two editors of a page and the text they edit: the source view       *)
(* (web/src/views/source/SourceView.tsx, around CodeMirror), the WYSIWYG   *)
(* view (views/wysiwyg/WysiwygView.tsx and web/src/bridge, around Slate),  *)
(* and App.tsx, which renders one of them with the session's text.         *)
(*                                                                         *)
(* The session's text moves at once, with each edit and each message; the  *)
(* page is rendered with it some time later, and only then do the views    *)
(* hear of it.  So a user edits what was last rendered.                    *)
(*                                                                         *)
(* A text is a sequence of letters [n, by, kind], each its own block in    *)
(* the WYSIWYG view.  n numbers the letters in the order they were typed,  *)
(* by is who typed it.  A "rough" letter does not survive the way to Slate *)
(* and back: it is written differently.  Offsets count letters: what they  *)
(* are in bytes is module Offsets's subject.                               *)
(***************************************************************************)
EXTENDS TextDiff, FiniteSetsExt

CONSTANTS Given,         \* the text at first
          LocalKinds,    \* what this user types
          RemoteKinds,   \* what the others type
          ChangesAtOnce, \* how many changes an edit of the source makes
          MaxLocal,      \* bound on this user's edits
          MaxRemote,     \* bound on the others' edits
          MaxCaret,      \* bound on the selections made by hand
          MaxModes,      \* bound on the changes of view
          MaxSwitches    \* bound on the changes of document

Kinds == {"plain", "rough", "code", "diagram"}

AnyLetter == [n : Nat, by : {"me", "them"}, kind : Kinds]

ASSUME EditorAssumption ==
    /\ Lead = {} /\ Cont = {}
    /\ Given \in Seq(AnyLetter)
    /\ LocalKinds \cup RemoteKinds \subseteq Kinds
    /\ ChangesAtOnce \in {1, 2}
    /\ {MaxLocal, MaxRemote, MaxCaret, MaxModes, MaxSwitches} \subseteq Nat

VARIABLES
    text,      \* the session's text, and that of its OffsetIndex
    peer,      \* where another participant's caret is: << >> or <<offset>>
    document,  \* which session it is: the location has changed that often
    value,     \* the text the page was last rendered with
    shown,     \* the session it was last rendered with
    mode,      \* "source", "split" or "wysiwyg"
    here,      \* the lazy chunks that have been loaded
    cm,        \* CodeMirror: [doc, undo, last, drawn]: undo a sequence of inverses,
               \* last the peer's caret as last given, drawn where it is drawn
    throttle,  \* selections to be reported: [timer, pending], pending 0: none
    reported,  \* the last selection that was reported
    rich,      \* the WYSIWYG view: [blocks, caret, known, timer, pending], and, for the
               \* properties, entered: the text it was mounted with or the user agreed to
    dialog,    \* App's NormalizationPreview: << >> or <<[onChange, before, after]>>
    local, remote, carets, modes   \* counters

docVars    == <<text, peer, document>>
pageVars   == <<value, shown, mode, here>>
sourceVars == <<cm, throttle, reported>>
counters   == <<local, remote, carets, modes>>
editorVars == <<docVars, pageVars, sourceVars, rich, dialog, counters>>

Letter(by, kind) == [n |-> local + remote + 1 + Len(Given), by |-> by, kind |-> kind]

SourceMounted  == mode \in {"source", "split"}
RichMounted    == mode = "wysiwyg" /\ "wysiwyg" \in here
PreviewMounted == mode = "split" /\ "split" \in here

---------------------------------------------------------------------------
(* useCollabDocument's applyChange.                                        *)

\* Seeded fault: the end of the range is one too far.
ApplyChangeWide(doc, change) ==
    ApplyTextChange(doc, [change EXCEPT !.from = Min({@, Len(doc)}),
                                        !.to = Min({@ + 1, Len(doc)})])

\* toBytes clamps both offsets to the text that the session has now.
ApplyChange(doc, change) ==
    ApplyTextChange(doc, [change EXCEPT !.from = Min({@, Len(doc)}),
                                        !.to = Min({@, Len(doc)})])

\* A view's onChange, bound to a session, for each of the changes, if any: only
\* the page's present session counts, the others are closed.
Emitted(session, changes) ==
    IF session = document /\ changes # << >> THEN FoldLeft(ApplyChange, text, changes) ELSE text

---------------------------------------------------------------------------
(* The source view.  CodeMirror is external: a transaction's changes are   *)
(* in ascending order and all in terms of the document before it.          *)

Growth(change) == Len(change.insert) - (change.to - change.from)

\* remoteCursors of useCollabDocument, for the offset c in the text v.
RemoteCursors(c, v) == [i \in DOMAIN c |-> Min({c[i], Len(v)})]

\* buildDecorations.
BuildDecorations(c, doc) == [i \in DOMAIN c |-> Min({c[i], Len(doc)})]

\* The value of the field of remote cursors after a change of the document: a
\* caret within what is replaced goes.
MapDecorations(drawn, change) ==
    LET stays(p) == ~(change.from < p /\ p < change.to)
    IN  [i \in {k \in DOMAIN drawn : stays(drawn[k])} |->
            IF drawn[i] >= change.to THEN drawn[i] + Growth(change) ELSE drawn[i]]

FreshSource(v) == [doc |-> v, undo |-> << >>, last |-> RemoteCursors(peer, v),
                   drawn |-> BuildDecorations(RemoteCursors(peer, v), v)]

NoSource == [doc |-> << >>, undo |-> << >>, last |-> << >>, drawn |-> << >>]

\* The effect on remoteCursors.
DrawCursors(c, next) ==
    IF c.last = next THEN c
    ELSE [c EXCEPT !.last = next, !.drawn = BuildDecorations(next, c.doc)]

FreshThrottle == [timer |-> FALSE, pending |-> 0]

Changed(doc, changes) == FoldLeft(ApplyTextChange, doc, Reverse(changes))

\* What undoes a transaction, in terms of the document after it.
Undoing(doc, changes) ==
    [i \in DOMAIN changes |->
        LET change == changes[i]
            at == FoldLeft(LAMBDA p, c : p + Growth(c), change.from, SubSeq(changes, 1, i - 1))
        IN  [from   |-> at,
             to     |-> at + Len(change.insert),
             insert |-> SubSeq(doc, change.from + 1, change.to)]]

\* Where an inverse is after somebody else's change.  An inverse takes back at
\* most one letter: either it is still there or nothing is left to do.
Mapped(inverse, change) ==
    LET gone == change.from <= inverse.from /\ inverse.from < change.to
        at   == IF inverse.from >= change.to THEN inverse.from + Growth(change)
                ELSE IF inverse.from <= change.from THEN inverse.from
                ELSE change.from + Len(change.insert)
    IN  [inverse EXCEPT !.from = at,
                        !.to = IF gone THEN at ELSE at + (inverse.to - inverse.from)]

\* What a change is, for the document that an inverse makes: two changes, one
\* after the other, if that puts something into the range which is replaced.
Beyond(change, inverse) ==
    LET grown == [change EXCEPT !.to = @ + Growth(inverse)]
        rest  == [grown EXCEPT !.from = inverse.from + Len(inverse.insert), !.insert = << >>]
    IN  IF change.to <= inverse.from THEN <<change>>
        ELSE IF inverse.to <= change.from
        THEN <<[grown EXCEPT !.from = @ + Growth(inverse)]>>
        ELSE IF inverse.insert = << >> THEN <<grown>>
        ELSE <<rest, [change EXCEPT !.to = inverse.from]>>

\* An inverse and changes that are made one after the other, each of the two
\* in terms of the document after the other.
Cross(acc, change) ==
    [inverse |-> Mapped(acc.inverse, change),
     changes |-> acc.changes \o Beyond(change, acc.inverse)]

Crossed(inverse, changes) ==
    FoldLeft(Cross, [inverse |-> inverse, changes |-> << >>], changes)

\* Each event is mapped through what the change is below the events above it.
AddMapping(undo, change) ==
    LET below[i \in 0..Len(undo)] ==
            IF i = Len(undo) THEN <<change>>
            ELSE FoldLeft(LAMBDA cs, inverse : Crossed(inverse, cs).changes,
                          below[i + 1], Reverse(undo[i + 1]))
    IN  [i \in DOMAIN undo |->
            [k \in DOMAIN undo[i] |-> Crossed(undo[i][k], below[i]).inverse]]

\* Seeded fault: the history is told of remote changes like of local ones.
ReconciledOnHistory(c, change) ==
    [c EXCEPT !.doc   = ApplyTextChange(@, change),
              !.undo  = Append(@, Undoing(c.doc, <<change>>)),
              !.drawn = MapDecorations(@, change)]

\* A remote change is dispatched with addToHistory false.
Reconciled(c, change) ==
    [c EXCEPT !.doc   = ApplyTextChange(@, change),
              !.undo  = AddMapping(@, change),
              !.drawn = MapDecorations(@, change)]

\* Seeded fault: the listener does not look at the annotation.
FromListenerEchoed(changes, isRemote) == changes

\* The updateListener.
FromListener(changes, isRemote) == IF isRemote THEN << >> ELSE changes

\* Seeded fault: the trailing report is not scheduled.
EmitSelectionOnce(selection) ==
    \/ /\ ~throttle.timer
       /\ reported' = selection
       /\ UNCHANGED throttle
    \/ throttle' = [throttle EXCEPT !.pending = selection] /\ UNCHANGED reported

\* emitSelection: at once if the last report is long enough ago.
EmitSelection(selection) ==
    \/ /\ ~throttle.timer
       /\ reported' = selection
       /\ UNCHANGED throttle
    \/ throttle' = [timer |-> TRUE, pending |-> selection] /\ UNCHANGED reported

\* A transaction of this user's.
Dispatch(changes, undo) ==
    /\ cm' = [cm EXCEPT !.doc = Changed(@, changes), !.undo = undo,
                         !.drawn = FoldLeft(MapDecorations, @, Reverse(changes))]
    /\ text' = Emitted(shown, FromListener(changes, FALSE))
    /\ carets' = carets + 1
    /\ EmitSelection(carets + 1)
    /\ UNCHANGED <<peer, document, pageVars, rich, dialog, remote, modes>>

Edit(changes) == Dispatch(changes, Append(cm.undo, Undoing(cm.doc, changes)))

\* Something is inserted, perhaps in several places at once: Tab over several
\* lines, a comment toggled, all the matches of a search replaced.
TypeInSource ==
    /\ SourceMounted /\ local < MaxLocal
    /\ \E n \in 1..ChangesAtOnce, kind \in LocalKinds :
       \E places \in {f \in [1..n -> 0..Len(cm.doc)] :
                          \A i, j \in 1..n : i < j => f[i] < f[j]} :
          Edit([i \in 1..n |-> [from |-> places[i], to |-> places[i],
                                insert |-> <<Letter("me", kind)>>]])
    /\ local' = local + 1

EraseInSource ==
    /\ SourceMounted /\ local < MaxLocal
    /\ \E p \in 0..(Len(cm.doc) - 1) : Edit(<<[from |-> p, to |-> p + 1, insert |-> << >>]>>)
    /\ local' = local + 1

UndoInSource ==
    /\ SourceMounted /\ cm.undo # << >>
    /\ Dispatch(Last(cm.undo), Front(cm.undo))
    /\ UNCHANGED local

SelectInSource ==
    /\ SourceMounted /\ carets < MaxCaret
    /\ carets' = carets + 1
    /\ EmitSelection(carets + 1)
    /\ UNCHANGED <<docVars, pageVars, cm, rich, dialog, local, remote, modes>>

ThrottleTimer ==
    /\ throttle.timer
    /\ throttle' = FreshThrottle
    /\ reported' = throttle.pending
    /\ UNCHANGED <<docVars, pageVars, cm, rich, dialog, counters>>

---------------------------------------------------------------------------
(* The WYSIWYG view.                                                       *)

Normal(letter) == [letter EXCEPT !.kind = IF @ = "rough" THEN "plain" ELSE @]

Deserialize(markdown) == [i \in DOMAIN markdown |-> Normal(markdown[i])]

\* checkRoundTrip: the pair to be confirmed, or none.
CheckRoundTrip(markdown) ==
    IF Deserialize(markdown) = markdown THEN << >>
    ELSE <<[before |-> markdown, after |-> Deserialize(markdown)]>>

\* Seeded fault: the view may be edited while the user has not decided.
FreshRichEditable(v) ==
    [blocks |-> Deserialize(v), caret |-> 0, known |-> v, timer |-> << >>,
     pending |-> << >>, entered |-> v]

\* The timer holds the session whose onChange its closure calls.
FreshRich(v) ==
    [blocks |-> Deserialize(v), caret |-> 0, known |-> v, timer |-> << >>,
     pending |-> CheckRoundTrip(v), entered |-> v]

NoRich == FreshRich(<< >>)

DiffBlocks(old, new) ==
    [sameLength |-> Len(old) = Len(new),
     changed    |-> {i \in DOMAIN old \cap DOMAIN new : old[i] # new[i]}]

\* The block with the caret is let alone, where the blocks are still the same.
ReconcileRemoteValue(blocks, caret, new) ==
    LET diff == DiffBlocks(blocks, new)
    IN  IF diff.sameLength
        THEN [i \in DOMAIN new |-> IF i \in diff.changed \ {caret} THEN new[i] ELSE blocks[i]]
        ELSE new

\* Seeded fault: a decision of the user's that is pending is not waited for.
NotForTheViewNow(r, v) == v = r.known

\* The view's own echo, or a value that comes while the user has to decide.
NotForTheView(r, v) == v = r.known \/ r.pending # << >>

\* The effect on value.  Slate reports whatever it is made to change, as it
\* reports an edit, and so the timer is set.
RichEffect(r, v, session) ==
    IF NotForTheView(r, v) THEN r
    ELSE LET blocks == ReconcileRemoteValue(r.blocks, r.caret, Deserialize(v))
         IN  [r EXCEPT !.blocks = blocks,
                       !.caret = IF @ > Len(blocks) THEN 0 ELSE @,
                       !.known = v,
                       !.timer = IF blocks = r.blocks THEN @ ELSE <<session>>]

Editable == RichMounted /\ rich.pending = << >> /\ dialog = << >>

\* handleEditorChange, for an edit of one block, which then has the caret.
EditBlocks(blocks, caret) ==
    /\ rich' = [rich EXCEPT !.blocks = blocks, !.caret = caret, !.timer = <<shown>>]
    /\ UNCHANGED <<docVars, pageVars, sourceVars, dialog, remote, modes>>

TypeInRich ==
    /\ Editable /\ local < MaxLocal
    /\ local' = local + 1
    /\ UNCHANGED carets
    /\ \/ \E i \in DOMAIN rich.blocks :
             EditBlocks([rich.blocks EXCEPT ![i] = Letter("me", "plain")], i)
       \/ EditBlocks(Append(rich.blocks, Letter("me", "plain")), Len(rich.blocks) + 1)

EraseInRich ==
    /\ Editable /\ local < MaxLocal
    /\ local' = local + 1
    /\ UNCHANGED carets
    /\ \E i \in DOMAIN rich.blocks : EditBlocks(RemoveAt(rich.blocks, i), 0)

SelectInRich ==
    /\ Editable /\ carets < MaxCaret
    /\ carets' = carets + 1
    /\ UNCHANGED local
    /\ \E i \in DOMAIN rich.blocks \ {rich.caret} : EditBlocks(rich.blocks, i)

\* flushLocalEdit.
FlushLocalEdit ==
    /\ rich.timer # << >>
    /\ rich' = [rich EXCEPT !.timer = << >>, !.known = rich.blocks]
    /\ text' = Emitted(rich.timer[1], ComputeTextChange(rich.known, rich.blocks))
    /\ UNCHANGED <<peer, document, pageVars, sourceVars, dialog, counters>>

---------------------------------------------------------------------------
(* App: the page is rendered, the view or the document changes.            *)

\* The dialog that a view which mounts asks for.
Asked(r, session) ==
    IF r.pending = << >> THEN << >>
    ELSE <<[onChange |-> session, before |-> r.pending[1].before,
            after |-> r.pending[1].after]>>

\* The view that m shows is mounted with the text of the session; what the
\* one before had not emitted or reported goes with it.
MountView(m) ==
    /\ value' = text
    /\ shown' = document
    /\ throttle' = FreshThrottle
    /\ cm' = IF m = "wysiwyg" THEN NoSource ELSE FreshSource(text)
    /\ rich' = IF m = "wysiwyg" /\ m \in here' THEN FreshRich(text) ELSE NoRich
    /\ dialog' = IF m = "wysiwyg" /\ m \in here' THEN Asked(rich', document) ELSE << >>

SetViewMode(m) ==
    /\ m # mode /\ dialog = << >> /\ modes < MaxModes
    /\ modes' = modes + 1
    /\ mode' = m
    /\ UNCHANGED here
    /\ MountView(m)
    /\ UNCHANGED <<docVars, reported, local, remote, carets>>

\* A chunk arrives: instead of the fallback - for the split view, an editor of
\* its own - its view is mounted.
ChunkLoaded ==
    /\ mode \in {"split", "wysiwyg"} \ here
    /\ here' = here \cup {mode}
    /\ UNCHANGED mode
    /\ MountView(mode)
    /\ UNCHANGED <<docVars, reported, counters>>

CursorsMoved == SourceMounted /\ cm.last # RemoteCursors(peer, text)

\* App is rendered with what the session has now, and the effects run that
\* depend on the value, if that is another one.
Render ==
    /\ value # text \/ shown # document \/ CursorsMoved
    /\ value' = text
    /\ shown' = document
    /\ \E changes \in {IF SourceMounted /\ value # text
                       THEN ComputeMinimalReplace(cm.doc, text) ELSE << >>} :
          /\ cm' = IF SourceMounted
                   THEN DrawCursors(FoldLeft(Reconciled, cm, changes), RemoteCursors(peer, text))
                   ELSE cm
          /\ text' = Emitted(document, FromListener(changes, TRUE))
    /\ rich' = IF RichMounted /\ value # text
               THEN RichEffect(rich, text, document) ELSE rich
    /\ UNCHANGED <<peer, document, mode, here, throttle, reported, dialog, counters>>

\* The dialog's two buttons.
ConfirmNormalization ==
    /\ dialog # << >>
    /\ text' = Emitted(dialog[1].onChange, <<[from |-> 0, to |-> Len(dialog[1].before),
                                              insert |-> dialog[1].after]>>)
    /\ rich' = [rich EXCEPT !.known = dialog[1].after, !.pending = << >>,
                            !.entered = dialog[1].after]
    /\ dialog' = << >>
    /\ UNCHANGED <<peer, document, pageVars, sourceVars, counters>>

StayInSource ==
    /\ dialog # << >>
    /\ mode' = "source"
    /\ UNCHANGED here
    /\ MountView("source")
    /\ UNCHANGED <<docVars, reported, counters>>

\* Others edit the document, or the session first hears of it; or it hears of
\* the caret that one of them has moved.
RemoteEdit ==
    /\ remote < MaxRemote
    /\ remote' = remote + 1
    /\ \/ /\ UNCHANGED peer
          /\ \/ \E p \in 0..Len(text), kind \in RemoteKinds :
                   text' = InsertAt(text, p + 1, Letter("them", kind))
             \/ \E i \in DOMAIN text : text' = RemoveAt(text, i)
             \/ \E i \in DOMAIN text, kind \in RemoteKinds :
                   text' = [text EXCEPT ![i] = Letter("them", kind)]
       \/ /\ peer' \in {<<p>> : p \in 0..Len(text)} \ {peer}
          /\ UNCHANGED text
    /\ UNCHANGED <<document, pageVars, sourceVars, rich, dialog, local, carets, modes>>

\* The location changes: another session, whose text is empty at first.
SwitchDocument ==
    /\ document < MaxSwitches
    /\ document' = document + 1
    /\ text' = << >>
    /\ peer' = << >>
    /\ UNCHANGED <<pageVars, sourceVars, rich, dialog, counters>>
---------------------------------------------------------------------------

EditorInit ==
    /\ text = Given /\ document = 0
    /\ peer = <<Len(Given)>>
    /\ value = Given /\ shown = 0
    /\ mode = "split"
    /\ here = {}
    /\ cm = FreshSource(Given)
    /\ throttle = FreshThrottle
    /\ reported = 0
    /\ rich = NoRich
    /\ dialog = << >>
    /\ local = 0 /\ remote = 0 /\ carets = 0 /\ modes = 0
=============================================================================
