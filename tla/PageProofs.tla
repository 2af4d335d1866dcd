----------------------------- MODULE PageProofs -----------------------------
(***************************************************************************)
(* The page, for any text, any kinds of letters and any number of edits:   *)
(* the preview never shows the result of an earlier fence; a text that the *)
(* WYSIWYG view would write differently is not changed by it before the    *)
(* user has agreed; an edit of the source lands where it was made,         *)
(* rendering sends nothing back, and undo takes back this user's letters   *)
(* only, whatever the others have done to the text meanwhile.              *)
(*                                                                         *)
(* The last three rest on the history of the source view: applied one      *)
(* after the other, its inverses lead from the document that is shown back *)
(* through texts of which each takes back one change of this user's        *)
(* (UndoOK).  Of somebody else's change this is kept because an inverse    *)
(* and a change that are carried over each other make the same text in     *)
(* both orders (CrossedApart, CrossedWithin), and so, by induction, do an  *)
(* inverse and the changes that another one was carried into (CrossedAll). *)
(***************************************************************************)
EXTENDS Page, OTProofs

---------------------------------------------------------------------------
(* The preview.                                                            *)

\* The libraries, and jobs as records; a component has at most one fence.
PreviewShape ==
    /\ DOMAIN lib = {"mermaid", "shiki", "grammar"}
    /\ \A j \in jobs : DOMAIN j = {"code", "cancelled"} /\ j.cancelled \in BOOLEAN
                       /\ j = [code |-> j.code, cancelled |-> j.cancelled]
    /\ fence # << >> => DOMAIN fence = {1} /\ DOMAIN fence[1] = {"code", "state", "of"}

\* Whoever has not been cancelled works for the fence that is there.
JobsAreForFence ==
    \A j \in jobs : ~j.cancelled => fence # << >> /\ j.code = fence[1].code

FenceIsCurrent ==
    fence # << >> =>
        /\ Fences(value) # << >> /\ fence[1].code = Head(Fences(value))
        /\ fence[1].of \in {<< >>, <<fence[1].code>>}
        /\ fence[1].of = << >> /\ lib[Library(fence[1].code)] # "broken" =>
              [code |-> fence[1].code, cancelled |-> FALSE] \in jobs

PreviewInv == PreviewShape /\ JobsAreForFence /\ FenceIsCurrent

\* All jobs that have not been cancelled are the same one.
LEMMA OneJob == PreviewInv => ResultIsCurrent
<1> SUFFICES ASSUME PreviewInv PROVE ResultIsCurrent
    OBVIOUS
<1> DEFINE live == {j \in jobs : ~j.cancelled}
           one == {[code |-> fence[1].code, cancelled |-> FALSE]}
<1>1. live \subseteq one
    BY DEF PreviewInv, PreviewShape, JobsAreForFence
<1>2. IsFiniteSet(one) /\ Cardinality(one) = 1
    BY FS_Singleton
<1>3. Cardinality(live) <= 1
    BY <1>1, <1>2, FS_Subset
<1> QED BY <1>3 DEF PreviewInv, FenceIsCurrent, ResultIsCurrent

\* A request changes nothing for whoever cannot have the library any more.
LEMMA RequestedStays ==
    ASSUME NEW l, DOMAIN l = {"mermaid", "shiki", "grammar"}, NEW name
    PROVE  /\ DOMAIN Requested(l, name) = DOMAIN l
           /\ \A n \in DOMAIN l : Requested(l, name)[n] # "broken" => l[n] # "broken"
BY DEF Requested

\* The effect of the component: a new fence has asked for its result, and
\* whatever had been asked for is cancelled.
LEMMA EffectKeeps ==
    ASSUME PreviewInv, NEW mounted \in BOOLEAN, FenceEffect(value', mounted)
    PROVE  PreviewInv'
<1> DEFINE code == IF mounted /\ Fences(value') # << >> THEN <<Head(Fences(value'))>> ELSE << >>
           same == fence # << >> /\ code # << >> /\ fence[1].code = code[1]
<1>1. CASE same
  <2>1. UNCHANGED <<fence, jobs, lib>>
      BY <1>1 DEF FenceEffect, previewVars
  <2>2. Fences(value') # << >> /\ fence[1].code = Head(Fences(value'))
      BY <1>1
  <2>3. FenceIsCurrent'
      BY <1>1, <2>1, <2>2 DEF PreviewInv, FenceIsCurrent
  <2> QED BY <2>1, <2>3 DEF PreviewInv, PreviewShape, JobsAreForFence
<1>2. CASE ~same
  <2>1. /\ fence' = [i \in DOMAIN code |-> [code |-> code[i], state |-> "loading", of |-> << >>]]
        /\ jobs' = Cancelled(jobs) \cup {[code |-> c, cancelled |-> FALSE] : c \in ToSet(code)}
        /\ lib' = IF code = << >> THEN lib ELSE Requested(lib, Library(code[1]))
      BY <1>2 DEF FenceEffect
  <2>2. DOMAIN lib' = {"mermaid", "shiki", "grammar"}
      BY <2>1, RequestedStays DEF PreviewInv, PreviewShape
  <2>3. \A j \in Cancelled(jobs) :
           /\ DOMAIN j = {"code", "cancelled"} /\ j.cancelled = TRUE
           /\ j = [code |-> j.code, cancelled |-> j.cancelled]
      BY DEF PreviewInv, PreviewShape, Cancelled
  <2>4. CASE code = << >>
    <3>1. ToSet(code) = {} /\ DOMAIN code = {}
        BY <2>4 DEF ToSet
    <3>2. fence' = << >> /\ jobs' = Cancelled(jobs)
        BY <2>1, <2>4, <3>1
    <3> QED BY <2>2, <2>3, <3>2 DEF PreviewInv, PreviewShape, JobsAreForFence, FenceIsCurrent
  <2>5. CASE code # << >>
    <3> DEFINE c == Head(Fences(value'))
    <3>1. mounted /\ Fences(value') # << >> /\ code = <<c>>
        BY <2>5
    <3> HIDE DEF code, c
    <3>2. ToSet(code) = {c} /\ DOMAIN code = {1}
        BY <3>1 DEF ToSet
    <3>3. /\ DOMAIN fence' = {1}
          /\ fence'[1] = [code |-> c, state |-> "loading", of |-> << >>]
          /\ fence' # << >>
        BY <2>1, <3>1, <3>2
    <3>4. jobs' = Cancelled(jobs) \cup {[code |-> c, cancelled |-> FALSE]}
        BY <2>1, <3>2
    <3>5. PreviewShape'
      <4>1. ASSUME NEW j \in jobs'
            PROVE  /\ DOMAIN j = {"code", "cancelled"} /\ j.cancelled \in BOOLEAN
                   /\ j = [code |-> j.code, cancelled |-> j.cancelled]
        <5>1. CASE j \in Cancelled(jobs)
            BY <2>3, <5>1
        <5>2. CASE j = [code |-> c, cancelled |-> FALSE]
            BY <5>2
        <5> QED BY <3>4, <5>1, <5>2
      <4>2. DOMAIN fence'[1] = {"code", "state", "of"}
          BY <3>3
      <4> QED BY <2>2, <3>3, <4>1, <4>2 DEF PreviewShape
    <3>6. JobsAreForFence'
        BY <2>3, <3>3, <3>4 DEF JobsAreForFence
    <3>7. FenceIsCurrent'
        BY <3>1, <3>3, <3>4 DEF FenceIsCurrent, c
    <3> QED BY <3>5, <3>6, <3>7 DEF PreviewInv
  <2> QED BY <2>4, <2>5
<1> QED BY <1>1, <1>2

\* A library arrives, or does not.
LEMMA LibraryKeeps ==
    ASSUME PreviewInv, UNCHANGED <<value, fence, jobs>>,
           DOMAIN lib' = DOMAIN lib,
           \A n \in DOMAIN lib : lib'[n] # "broken" => lib[n] # "broken"
    PROVE  PreviewInv'
<1>1. \A code : Library(code) \in {"mermaid", "shiki", "grammar"}
    BY DEF Library
<1> QED BY <1>1 DEF PreviewInv, PreviewShape, JobsAreForFence, FenceIsCurrent

\* A result is shown with the code it was made from, and only a highlighter
\* that cannot be had leaves a fence without one.
LEMMA JobDoneKeeps ==
    ASSUME PreviewInv, JobDone
    PROVE  PreviewInv'
<1>1. value' = value /\ lib' = lib
    BY DEF JobDone, editorVars, pageVars
<1>2. PICK job \in jobs :
         \E result \in IF job.code.kind = "diagram" THEN RenderMermaid ELSE HighlightCode :
            /\ jobs' = jobs \ {job}
            /\ fence' = IF Shows(job) /\ result # "rejected"
                        THEN <<[fence[1] EXCEPT !.state = result, !.of = <<job.code>>]>>
                        ELSE fence
    BY DEF JobDone
<1>3. PICK result \in IF job.code.kind = "diagram" THEN RenderMermaid ELSE HighlightCode :
            /\ jobs' = jobs \ {job}
            /\ fence' = IF Shows(job) /\ result # "rejected"
                        THEN <<[fence[1] EXCEPT !.state = result, !.of = <<job.code>>]>>
                        ELSE fence
    BY <1>2
<1>4. result = "rejected" => lib[Library(job.code)] = "broken"
    BY DEF RenderMermaid, HighlightCode, Library
<1>5. job = [code |-> job.code, cancelled |-> job.cancelled] /\ job.cancelled \in BOOLEAN
    BY DEF PreviewInv, PreviewShape
<1>6. CASE ~Shows(job)
  <2>1. fence' = fence /\ job.cancelled
      BY <1>3, <1>6 DEF Shows
  <2>2. \A code : [code |-> code, cancelled |-> FALSE] \in jobs =>
                      [code |-> code, cancelled |-> FALSE] \in jobs'
      BY <1>3, <2>1
  <2> QED BY <1>1, <1>3, <2>1, <2>2
          DEF PreviewInv, PreviewShape, JobsAreForFence, FenceIsCurrent
<1>7. CASE Shows(job) /\ result = "rejected"
  <2>1. fence' = fence /\ fence # << >> /\ job.code = fence[1].code
      BY <1>3, <1>7 DEF Shows, PreviewInv, JobsAreForFence
  <2> QED BY <1>1, <1>3, <1>4, <1>7, <2>1
          DEF PreviewInv, PreviewShape, JobsAreForFence, FenceIsCurrent
<1>8. CASE Shows(job) /\ result # "rejected"
  <2> DEFINE done == [fence[1] EXCEPT !.state = result, !.of = <<job.code>>]
  <2>1. /\ fence # << >> /\ job.code = fence[1].code
        /\ fence' = <<done>>
      BY <1>3, <1>8 DEF Shows, PreviewInv, JobsAreForFence
  <2>2. /\ fence' # << >> /\ DOMAIN fence' = {1}
        /\ DOMAIN fence'[1] = {"code", "state", "of"}
        /\ fence'[1].code = fence[1].code /\ fence'[1].of = <<fence[1].code>>
    <3>1. /\ DOMAIN done = {"code", "state", "of"}
          /\ done.code = fence[1].code /\ done.of = <<fence[1].code>>
        BY <2>1 DEF PreviewInv, PreviewShape
    <3> HIDE DEF done
    <3> QED BY <2>1, <3>1
  <2>3. <<fence[1].code>> # << >>
      OBVIOUS
  <2>4. PreviewShape' /\ JobsAreForFence'
      BY <1>1, <1>3, <2>1, <2>2 DEF PreviewInv, PreviewShape, JobsAreForFence
  <2>5. FenceIsCurrent'
      BY <1>1, <2>1, <2>2, <2>3 DEF PreviewInv, FenceIsCurrent
  <2> QED BY <2>4, <2>5 DEF PreviewInv
<1> QED BY <1>6, <1>7, <1>8

\* At first there is no fence, and nobody works for one.
LEMMA InitPreview == Init => PreviewInv
BY DEF Init, PreviewInv, PreviewShape, JobsAreForFence, FenceIsCurrent

\* Every step keeps the preview current.
LEMMA NextPreview == PreviewInv /\ [Next]_vars => PreviewInv'
<1> SUFFICES ASSUME PreviewInv, [Next]_vars PROVE PreviewInv'
    OBVIOUS
<1>1. CASE Rendering /\ FenceEffect(value', PreviewMounted')
  <2>1. PreviewMounted' \in BOOLEAN
      BY DEF PreviewMounted
  <2> QED BY <1>1, <2>1, EffectKeeps
<1>2. CASE UNCHANGED <<value, previewVars>>
    BY <1>2 DEF previewVars, PreviewInv, PreviewShape, JobsAreForFence, FenceIsCurrent
<1>3. CASE Editing /\ UNCHANGED previewVars
  <2>1. value' = value
      BY <1>3 DEF Editing, TypeInSource, EraseInSource, UndoInSource, Edit, Dispatch,
                  SelectInSource, ThrottleTimer, TypeInRich, EraseInRich, SelectInRich,
                  EditBlocks, FlushLocalEdit, ConfirmNormalization, RemoteEdit,
                  SwitchDocument, pageVars
  <2> QED BY <1>2, <1>3, <2>1
<1>4. CASE GetMermaid \/ EnsureLang
    BY <1>4, LibraryKeeps DEF GetMermaid, EnsureLang, Imported, editorVars, pageVars,
                              PreviewInv, PreviewShape
<1>5. CASE GetHighlighter
    BY <1>5, LibraryKeeps DEF GetHighlighter, Requested, editorVars, pageVars,
                              PreviewInv, PreviewShape
<1>6. CASE JobDone
    BY <1>6, JobDoneKeeps
<1>7. CASE UNCHANGED vars
    BY <1>2, <1>7 DEF vars, editorVars, pageVars
<1> QED BY <1>1, <1>3, <1>4, <1>5, <1>6, <1>7 DEF Next

(***************************************************************************)
(* Whatever is typed, rendered, loaded or rejected, and in whatever order  *)
(* results come: the preview shows none of an earlier fence, and one that  *)
(* shows none has asked for its own (mermaid.tsx MermaidBlock,             *)
(* pipeline.tsx useHighlightedHtml).                                       *)
(***************************************************************************)
THEOREM ResultsAreCurrent == Spec => []ResultIsCurrent
BY InitPreview, NextPreview, OneJob, PTL DEF Spec

---------------------------------------------------------------------------
(* The user's consent.                                                     *)

\* What is written differently once is not written differently again.
LEMMA NormalStays == \A l : Normal(Normal(l)) = Normal(l)
BY DEF Normal

\* What Slate has written survives the way there and back.
LEMMA DeserializedStays ==
    ASSUME NEW v
    PROVE  Deserialize(Deserialize(v)) = Deserialize(v)
<1>1. DOMAIN Deserialize(v) = DOMAIN v
    BY DEF Deserialize
<1>2. \A i \in DOMAIN v : Deserialize(v)[i] = Normal(v[i])
    BY DEF Deserialize
<1>3. Deserialize(Deserialize(v)) = [i \in DOMAIN v |-> Normal(Deserialize(v)[i])]
    BY <1>1 DEF Deserialize
<1>4. \A i \in DOMAIN v : Normal(Deserialize(v)[i]) = Deserialize(v)[i]
    BY <1>2, NormalStays
<1>5. Deserialize(v) = [i \in DOMAIN v |-> Normal(v[i])]
    BY DEF Deserialize
<1> QED BY <1>2, <1>3, <1>4, <1>5, NormalStays

\* A view that was entered with another text than it would write waits for
\* the user, with nothing of its own under way, and what the dialog offers is
\* that text as the view would write it.
RichShape ==
    /\ DOMAIN rich = {"blocks", "caret", "known", "timer", "pending", "entered"}
    /\ remote \in Nat /\ document \in Nat

WaitsForUser ==
    RichMounted /\ Deserialize(rich.entered) # rich.entered =>
        rich.pending # << >> /\ rich.timer = << >>

DialogOffersNormal ==
    RichMounted /\ dialog # << >> => dialog[1].after = Deserialize(rich.entered)

ConsentInv == RichShape /\ WaitsForUser /\ DialogOffersNormal

\* What NothingBeforeConsent says of a step.
ConsentFirst ==
    RichMounted /\ mode' = mode /\ text' # text /\ Deserialize(rich.entered) # rich.entered
       => remote' # remote \/ document' # document
            \/ rich'.entered = Deserialize(rich.entered)

\* A view that is mounted asks, if it has to.
LEMMA MountConsents ==
    ASSUME NEW m, MountView(m), mode' = m, UNCHANGED docVars, remote' = remote,
           RichShape
    PROVE  ConsentInv' /\ ConsentFirst
<1> DEFINE there == m = "wysiwyg" /\ m \in here'
<1>1. rich' = IF there THEN FreshRich(text) ELSE NoRich
    BY DEF MountView
<1>2. \A v : /\ DOMAIN FreshRich(v) = {"blocks", "caret", "known", "timer", "pending", "entered"}
             /\ FreshRich(v).timer = << >> /\ FreshRich(v).entered = v
             /\ FreshRich(v).pending = CheckRoundTrip(v)
    BY DEF FreshRich
<1>3. RichShape'
    BY <1>1, <1>2 DEF RichShape, NoRich, docVars
<1>4. text' = text
    BY DEF docVars
<1>5. CASE there
  <2>1. rich'.timer = << >> /\ rich'.entered = text /\ rich'.pending = CheckRoundTrip(text)
      BY <1>1, <1>2, <1>5
  <2>2. Deserialize(text) # text => CheckRoundTrip(text) # << >>
      BY DEF CheckRoundTrip
  <2>3. CheckRoundTrip(text) # << >> => CheckRoundTrip(text)[1].after = Deserialize(text)
      BY DEF CheckRoundTrip
  <2>4. dialog' = Asked(rich', document)
      BY <1>5 DEF MountView
  <2>5. dialog' # << >> => dialog'[1].after = Deserialize(text)
      BY <2>1, <2>3, <2>4 DEF Asked
  <2> QED BY <1>3, <1>4, <2>1, <2>2, <2>5
          DEF ConsentInv, WaitsForUser, DialogOffersNormal, ConsentFirst
<1>6. CASE ~there
  <2>1. ~RichMounted'
      BY <1>6 DEF RichMounted
  <2> QED BY <1>3, <1>4, <2>1 DEF ConsentInv, WaitsForUser, DialogOffersNormal, ConsentFirst
<1> QED BY <1>5, <1>6

\* A step that leaves the view, its dialog and the text alone.
LEMMA ElsewhereConsents ==
    ASSUME ConsentInv, UNCHANGED <<mode, here, rich, dialog>>,
           remote' \in Nat, document' \in Nat,
           \/ text' = text \/ ~RichMounted \/ remote' # remote \/ document' # document
    PROVE  ConsentInv' /\ ConsentFirst
BY DEF ConsentInv, RichShape, WaitsForUser, DialogOffersNormal, ConsentFirst, RichMounted

\* The source view is not there together with the other.
LEMMA SourceConsents ==
    ASSUME ConsentInv,
           \/ TypeInSource \/ EraseInSource \/ UndoInSource
           \/ SelectInSource \/ ThrottleTimer
    PROVE  ConsentInv' /\ ConsentFirst
<1>1. UNCHANGED <<mode, here, rich, dialog, remote, document>>
    BY DEF TypeInSource, EraseInSource, UndoInSource, Edit, Dispatch, SelectInSource,
           ThrottleTimer, pageVars, docVars, counters
<1>2. text' = text \/ ~RichMounted
    BY DEF TypeInSource, EraseInSource, UndoInSource, SelectInSource, ThrottleTimer,
           SourceMounted, RichMounted, docVars
<1> QED BY <1>1, <1>2, ElsewhereConsents DEF ConsentInv, RichShape

\* The view may be edited only once the user has agreed, or need not.
LEMMA RichConsents ==
    ASSUME ConsentInv, TypeInRich \/ EraseInRich \/ SelectInRich
    PROVE  ConsentInv' /\ ConsentFirst
<1>1. PICK blocks, caret :
         rich' = [rich EXCEPT !.blocks = blocks, !.caret = caret, !.timer = <<shown>>]
    BY DEF TypeInRich, EraseInRich, SelectInRich, EditBlocks
<1>2. UNCHANGED <<mode, here, dialog, text, remote, document>> /\ Editable
    BY DEF TypeInRich, EraseInRich, SelectInRich, EditBlocks, pageVars, docVars
<1>3. DOMAIN rich' = DOMAIN rich /\ rich'.entered = rich.entered
    BY <1>1 DEF ConsentInv, RichShape
<1>4. Deserialize(rich.entered) = rich.entered
    BY <1>2 DEF Editable, ConsentInv, WaitsForUser
<1> QED BY <1>2, <1>3, <1>4
        DEF ConsentInv, RichShape, WaitsForUser, DialogOffersNormal, ConsentFirst, RichMounted

\* While the user has to agree, there is no edit of the view's to be flushed.
LEMMA FlushConsents ==
    ASSUME ConsentInv, FlushLocalEdit
    PROVE  ConsentInv' /\ ConsentFirst
<1>1. /\ rich' = [rich EXCEPT !.timer = << >>, !.known = rich.blocks]
      /\ UNCHANGED <<mode, here, dialog, remote, document>> /\ rich.timer # << >>
    BY DEF FlushLocalEdit, pageVars, counters
<1>2. /\ DOMAIN rich' = DOMAIN rich /\ rich'.entered = rich.entered
      /\ rich'.pending = rich.pending /\ rich'.timer = << >>
    BY <1>1 DEF ConsentInv, RichShape
<1> QED BY <1>1, <1>2
        DEF ConsentInv, RichShape, WaitsForUser, DialogOffersNormal, ConsentFirst, RichMounted

\* Rendering leaves a view that waits as it is, and the text too.
LEMMA RenderConsents ==
    ASSUME ConsentInv, Render
    PROVE  ConsentInv' /\ ConsentFirst
<1>1. text' = text
    BY DEF Render, Emitted, FromListener
<1>2. UNCHANGED <<mode, here, dialog, remote, document>>
    BY DEF Render, counters
<1>3. rich' = rich \/ rich' = RichEffect(rich, text, document)
    BY DEF Render
<1>4. DOMAIN rich' = DOMAIN rich /\ rich'.entered = rich.entered
    BY <1>3 DEF RichEffect, ConsentInv, RichShape
<1>5. rich.pending # << >> => rich' = rich
    BY <1>3 DEF RichEffect, NotForTheView
<1> QED BY <1>1, <1>2, <1>4, <1>5
        DEF ConsentInv, RichShape, WaitsForUser, DialogOffersNormal, ConsentFirst, RichMounted

\* The user agrees to the text as the view writes it.
LEMMA ConfirmConsents ==
    ASSUME ConsentInv, ConfirmNormalization
    PROVE  ConsentInv' /\ ConsentFirst
<1> DEFINE after == dialog[1].after
<1>1. /\ rich' = [rich EXCEPT !.known = after, !.pending = << >>, !.entered = after]
      /\ dialog # << >> /\ dialog' = << >>
      /\ UNCHANGED <<mode, here, remote, document>>
    BY DEF ConfirmNormalization, pageVars, counters
<1> HIDE DEF after
<1>2. DOMAIN rich' = DOMAIN rich /\ rich'.entered = after
    BY <1>1 DEF ConsentInv, RichShape
<1>3. RichMounted => after = Deserialize(rich.entered) /\ Deserialize(after) = after
    BY <1>1, DeserializedStays DEF ConsentInv, DialogOffersNormal, after
<1> QED BY <1>1, <1>2, <1>3
        DEF ConsentInv, RichShape, WaitsForUser, DialogOffersNormal, ConsentFirst, RichMounted

\* At first the WYSIWYG view is not mounted.
LEMMA InitConsent == Init => ConsentInv
BY DEF Init, EditorInit, NoRich, FreshRich, ConsentInv, RichShape, WaitsForUser,
       DialogOffersNormal, RichMounted

\* Every step leaves an unconfirmed text as it is, but for the others' edits.
LEMMA NextConsent == ConsentInv /\ [Next]_vars => ConsentInv' /\ ConsentFirst
<1> SUFFICES ASSUME ConsentInv, [Next]_vars PROVE ConsentInv' /\ ConsentFirst
    OBVIOUS
<1>1. CASE ChunkLoaded \/ StayInSource \/ \E m \in {"source", "split", "wysiwyg"} : SetViewMode(m)
    BY <1>1, MountConsents DEF ChunkLoaded, StayInSource, SetViewMode, counters, ConsentInv
<1>2. CASE Render
    BY <1>2, RenderConsents
<1>3. CASE \/ TypeInSource \/ EraseInSource \/ UndoInSource \/ SelectInSource \/ ThrottleTimer
    BY <1>3, SourceConsents
<1>4. CASE TypeInRich \/ EraseInRich \/ SelectInRich
    BY <1>4, RichConsents
<1>5. CASE FlushLocalEdit
    BY <1>5, FlushConsents
<1>6. CASE ConfirmNormalization
    BY <1>6, ConfirmConsents
<1>7. CASE RemoteEdit \/ SwitchDocument
  <2>1. /\ UNCHANGED <<mode, here, rich, dialog>>
        /\ \/ remote' = remote + 1 /\ document' = document
           \/ remote' = remote /\ document' = document + 1
      BY <1>7 DEF RemoteEdit, SwitchDocument, pageVars, counters
  <2> QED BY <2>1, ElsewhereConsents DEF ConsentInv, RichShape
<1>8. CASE UNCHANGED editorVars
  <2>1. UNCHANGED <<mode, here, rich, dialog, text, remote, document>>
      BY <1>8 DEF editorVars, pageVars, docVars, counters
  <2> QED BY <2>1, ElsewhereConsents DEF ConsentInv, RichShape
<1>9. CASE GetMermaid \/ GetHighlighter \/ EnsureLang \/ JobDone \/ UNCHANGED vars
    BY <1>8, <1>9 DEF GetMermaid, GetHighlighter, EnsureLang, Imported, JobDone, vars
<1> QED BY <1>1, <1>2, <1>3, <1>4, <1>5, <1>6, <1>7, <1>9 DEF Next, Rendering, Editing

(***************************************************************************)
(* Whatever is typed, rendered or received meanwhile: a text that the      *)
(* WYSIWYG view would write differently is moved only by others and by     *)
(* documents switched, until the user confirms it (WysiwygView.tsx:        *)
(* "Nothing is emitted through onChange unless/until preview.confirm() is  *)
(* called").                                                               *)
(***************************************************************************)
THEOREM ConsentComesFirst == Spec => NothingBeforeConsent
<1>1. ConsentInv /\ [Next]_vars => ConsentInv' /\ [ConsentFirst]_vars
    BY NextConsent
<1>2. NothingBeforeConsent <=> [][ConsentFirst]_vars
    BY DEF NothingBeforeConsent, ConsentFirst
<1> QED BY InitConsent, <1>1, <1>2, PTL DEF Spec

---------------------------------------------------------------------------
(* A change of a text.                                                     *)

Change(from, to, insert) == [from |-> from, to |-> to, insert |-> insert]

IsChange(c) ==
    /\ c = Change(c.from, c.to, c.insert)
    /\ c.from \in Nat /\ c.to \in Nat /\ c.from <= c.to
    /\ IsSeq(c.insert)

InRange(c, d) == IsChange(c) /\ IsSeq(d) /\ c.to <= Len(d)

\* A change by its three parts.
LEMMA ChangeFields ==
    ASSUME NEW f \in Nat, NEW t \in Nat, f <= t, NEW s, IsSeq(s)
    PROVE  /\ IsChange(Change(f, t, s))
           /\ Change(f, t, s).from = f /\ Change(f, t, s).to = t
           /\ Change(f, t, s).insert = s
<1>1. Change(f, t, s).from = f /\ Change(f, t, s).to = t /\ Change(f, t, s).insert = s
    BY DEF Change
<1> QED BY <1>1 DEF IsChange

\* What becomes of a text of three parts when the second is replaced.
LEMMA ApplyParts ==
    ASSUME NEW p, NEW m, NEW r, NEW s, IsSeq(p), IsSeq(m), IsSeq(r), IsSeq(s)
    PROVE  ApplyTextChange(Cat(p, Cat(m, r)), Change(Len(p), Len(p) + Len(m), s))
              = Cat(p, Cat(s, r))
<1> DEFINE d == Cat(p, Cat(m, r))
           f == Len(p)
           t == Len(p) + Len(m)
<1>1. /\ IsSeq(d) /\ f \in Nat /\ Len(m) \in Nat /\ Len(r) \in Nat /\ t \in Nat
      /\ Len(d) = Len(p) + (Len(m) + Len(r))
      /\ d = Cat(Cat(p, m), r) /\ IsSeq(Cat(m, r)) /\ IsSeq(Cat(p, m)) /\ Len(Cat(p, m)) = t
    BY CatOK, CatAssoc
<1> HIDE DEF d
<1>2. f \in 0..Len(d) /\ t \in 0..Len(d)
    BY <1>1
<1>3. SubSeq(d, 1, f) = p
  <2> DEFINE x == SubSeq(d, 1, f)
             y == SubSeq(d, f + 1, Len(d))
             z == Cat(m, r)
  <2>1. IsSeq(x) /\ Len(x) = Len(p) /\ IsSeq(y) /\ d = Cat(x, y)
      BY <1>1, <1>2, IsSeqSplit DEF Cat
  <2>2. d = Cat(p, z) /\ IsSeq(z)
      BY <1>1 DEF d
  <2> HIDE DEF x, y, z
  <2>3. Cat(x, y) = Cat(p, z)
      BY <2>1, <2>2
  <2>4. x = p
      BY <2>1, <2>2, <2>3, CatCancel
  <2> QED BY <2>4 DEF x
<1>4. SubSeq(d, t + 1, Len(d)) = r
  <2> HIDE DEF t
  <2> DEFINE x == SubSeq(d, 1, t)
             y == SubSeq(d, t + 1, Len(d))
             z == Cat(p, m)
  <2>1. IsSeq(x) /\ Len(x) = t /\ IsSeq(y) /\ d = Cat(x, y)
      BY <1>1, <1>2, IsSeqSplit DEF Cat
  <2>2. d = Cat(z, r) /\ IsSeq(z) /\ Len(z) = t
      BY <1>1
  <2> HIDE DEF x, y, z
  <2>3. Cat(x, y) = Cat(z, r) /\ Len(x) = Len(z)
      BY <2>1, <2>2
  <2>4. y = r
      BY <2>1, <2>2, <2>3, CatCancel
  <2> QED BY <2>4 DEF y
<1>5. ApplyTextChange(d, Change(f, t, s)) = Cat(Cat(p, s), r)
  <2> HIDE DEF f, t
  <2> QED BY <1>3, <1>4 DEF ApplyTextChange, Change, Cat
<1>6. Cat(Cat(p, s), r) = Cat(p, Cat(s, r))
    BY CatAssoc
<1> QED BY <1>5, <1>6 DEF d

\* The parts of a text that a change leaves and replaces.
LEMMA ChangeSplits ==
    ASSUME NEW c, NEW d, InRange(c, d)
    PROVE  \E p, m, r :
              /\ IsSeq(p) /\ IsSeq(m) /\ IsSeq(r)
              /\ d = Cat(p, Cat(m, r)) /\ Len(p) = c.from /\ Len(p) + Len(m) = c.to
              /\ Len(p) \in Nat /\ Len(m) \in Nat /\ Len(r) \in Nat
              /\ c = Change(Len(p), Len(p) + Len(m), c.insert)
              /\ ApplyTextChange(d, c) = Cat(p, Cat(c.insert, r))
<1>1. /\ c = Change(c.from, c.to, c.insert) /\ IsSeq(c.insert) /\ IsSeq(d)
      /\ c.from \in Nat /\ c.to \in Nat /\ c.from <= c.to /\ c.to <= Len(d)
    BY DEF InRange, IsChange
<1>2. Len(d) \in Nat
    BY <1>1, IsSeqLen
<1>3. c.from \in 0..Len(d)
    BY <1>1, <1>2
<1>4. PICK p, y : /\ IsSeq(p) /\ Len(p) = c.from /\ IsSeq(y) /\ Len(y) = Len(d) - c.from
                  /\ d = Cat(p, y)
  <2> DEFINE n == c.from
  <2>1. n \in 0..Len(d) /\ IsSeq(d)
      BY <1>1, <1>3
  <2> HIDE DEF n
  <2>2. \E p, y : /\ IsSeq(p) /\ Len(p) = n /\ IsSeq(y) /\ Len(y) = Len(d) - n
                   /\ d = Cat(p, y)
      BY <2>1, CatSplit
  <2> QED BY <2>2 DEF n
<1>5. c.to - c.from \in 0..Len(y)
    BY <1>1, <1>2, <1>4
<1>6. PICK m, r : /\ IsSeq(m) /\ Len(m) = c.to - c.from /\ IsSeq(r) /\ y = Cat(m, r)
    BY <1>4, <1>5, CatSplit
<1>7. Len(p) + Len(m) = c.to /\ Len(p) \in Nat /\ Len(m) \in Nat /\ Len(r) \in Nat
    BY <1>1, <1>4, <1>6, IsSeqLen
<1>8. c = Change(Len(p), Len(p) + Len(m), c.insert)
    BY <1>1, <1>4, <1>7
<1>9. ApplyTextChange(d, c) = Cat(p, Cat(c.insert, r))
  <2>1. ApplyTextChange(Cat(p, Cat(m, r)), Change(Len(p), Len(p) + Len(m), c.insert))
           = Cat(p, Cat(c.insert, r))
      BY <1>1, <1>4, <1>6, ApplyParts
  <2> QED BY <1>4, <1>6, <1>8, <2>1
<1> QED BY <1>4, <1>6, <1>7, <1>8, <1>9

\* A change makes a text that is longer by its growth, with the same letters
\* before it, and those behind it as far from the end.
LEMMA ApplyOK ==
    ASSUME NEW c, NEW d, InRange(c, d)
    PROVE  /\ IsSeq(ApplyTextChange(d, c))
           /\ Growth(c) \in Int
           /\ Len(ApplyTextChange(d, c)) = Len(d) + Growth(c)
           /\ Len(d) \in Nat /\ Len(ApplyTextChange(d, c)) \in Nat
           /\ \A i \in 1..c.from : ApplyTextChange(d, c)[i] = d[i]
           /\ \A i \in (c.to + 1)..Len(d) : ApplyTextChange(d, c)[i + Growth(c)] = d[i]
<1>1. PICK p, m, r :
              /\ IsSeq(p) /\ IsSeq(m) /\ IsSeq(r)
              /\ d = Cat(p, Cat(m, r)) /\ Len(p) = c.from /\ Len(p) + Len(m) = c.to
              /\ Len(p) \in Nat /\ Len(m) \in Nat /\ Len(r) \in Nat
              /\ ApplyTextChange(d, c) = Cat(p, Cat(c.insert, r))
    BY ChangeSplits
<1> DEFINE s == c.insert
           e == Cat(p, Cat(s, r))
           l == Len(p)
           k == Len(m)
           n == Len(s)
<1>2. IsSeq(s) /\ n \in Nat
    BY IsSeqLen DEF InRange, IsChange
<1>3. /\ IsSeq(Cat(s, r)) /\ IsSeq(Cat(m, r)) /\ IsSeq(e)
      /\ Len(Cat(s, r)) = n + Len(r) /\ Len(Cat(m, r)) = k + Len(r)
      /\ Len(e) = l + (n + Len(r)) /\ Len(d) = l + (k + Len(r))
    BY <1>1, <1>2, CatOK
<1>4. Growth(c) = n - k /\ Growth(c) \in Int
    BY <1>1, <1>2 DEF Growth
<1>5. /\ \A i \in 1..l : e[i] = p[i] /\ d[i] = p[i]
      /\ \A i \in 1..(n + Len(r)) : e[l + i] = Cat(s, r)[i]
      /\ \A i \in 1..(k + Len(r)) : d[l + i] = Cat(m, r)[i]
      /\ \A i \in 1..Len(r) : Cat(s, r)[n + i] = r[i] /\ Cat(m, r)[k + i] = r[i]
  <2>1. \A i \in 1..Len(r) : Cat(s, r)[n + i] = r[i] /\ Cat(m, r)[k + i] = r[i]
    <3> HIDE DEF s
    <3> QED BY <1>1, <1>2, CatIndex
  <2> DEFINE x == Cat(s, r)
             y == Cat(m, r)
  <2>2. IsSeq(x) /\ Len(x) = n + Len(r) /\ IsSeq(y) /\ Len(y) = k + Len(r)
        /\ e = Cat(p, x) /\ d = Cat(p, y) /\ IsSeq(p)
      BY <1>1, <1>3
  <2> HIDE DEF x, y, e, n, k
  <2>3. /\ \A i \in 1..Len(p) : Cat(p, x)[i] = p[i] /\ Cat(p, y)[i] = p[i]
        /\ \A i \in 1..Len(x) : Cat(p, x)[Len(p) + i] = x[i]
        /\ \A i \in 1..Len(y) : Cat(p, y)[Len(p) + i] = y[i]
    <3>1. IsSeq(p) /\ IsSeq(x) /\ IsSeq(y)
        BY <2>2
    <3>2. /\ \A i \in 1..Len(p) : Cat(p, x)[i] = p[i]
          /\ \A i \in 1..Len(x) : Cat(p, x)[Len(p) + i] = x[i]
        BY <3>1, CatIndex
    <3>3. /\ \A i \in 1..Len(p) : Cat(p, y)[i] = p[i]
          /\ \A i \in 1..Len(y) : Cat(p, y)[Len(p) + i] = y[i]
        BY <3>1, CatIndex
    <3> QED BY <3>2, <3>3
  <2> QED BY <2>1, <2>2, <2>3 DEF x, y
<1> HIDE DEF s, l, k, n, e
<1>6. e = ApplyTextChange(d, c) /\ c.from = l /\ c.to = l + k
      /\ l \in Nat /\ k \in Nat /\ Len(r) \in Nat
    BY <1>1 DEF e, s, l, k
<1>7. ASSUME NEW i \in (l + k + 1)..Len(d) PROVE e[i + (n - k)] = d[i]
  <2> DEFINE j == i - (l + k)
  <2>1. /\ j \in 1..Len(r) /\ n + j \in 1..(n + Len(r)) /\ k + j \in 1..(k + Len(r))
        /\ l + (n + j) = i + (n - k) /\ l + (k + j) = i
      BY <1>2, <1>3, <1>6
  <2> HIDE DEF j
  <2>2. e[l + (n + j)] = r[j] /\ d[l + (k + j)] = r[j]
      BY <1>5, <2>1
  <2> QED BY <2>1, <2>2
<1>8. Len(e) = Len(d) + (n - k) /\ Len(e) \in Nat /\ Len(d) \in Nat
    BY <1>2, <1>3, <1>6
<1> QED BY <1>3, <1>4, <1>5, <1>6, <1>7, <1>8

\* The letters of a changed text.
LEMMA ApplyInSeq ==
    ASSUME NEW A, NEW c, NEW d \in Seq(A), InRange(c, d), c.insert \in Seq(A)
    PROVE  ApplyTextChange(d, c) \in Seq(A)
<1>1. c.from \in Nat /\ c.to \in Nat /\ c.from <= c.to /\ c.to <= Len(d) /\ Len(d) \in Nat
    BY LenProperties DEF InRange, IsChange
<1>2. SubSeq(d, 1, c.from) \in Seq(A) /\ SubSeq(d, c.to + 1, Len(d)) \in Seq(A)
  <2>1. \A i \in 1..c.from : d[i] \in A
      BY <1>1, ElementOfSeq
  <2>2. \A i \in (c.to + 1)..Len(d) : d[i] \in A
      BY <1>1, ElementOfSeq
  <2>3. SubSeq(d, 1, c.from) \in Seq(A)
      BY <1>1, <2>1, SubSeqProperties
  <2>4. SubSeq(d, c.to + 1, Len(d)) \in Seq(A)
    <3>1. c.to + 1 \in Int /\ Len(d) \in Int
        BY <1>1
    <3> QED BY <2>2, <3>1, SubSeqProperties
  <2> QED BY <2>3, <2>4
<1> QED BY <1>2, ConcatProperties DEF ApplyTextChange

\* A change of the second of three parts.
LEMMA ChangeAt ==
    ASSUME NEW p, NEW m, NEW r, NEW s, IsSeq(p), IsSeq(m), IsSeq(r), IsSeq(s),
           NEW d, d = Cat(p, Cat(m, r)), NEW c, c = Change(Len(p), Len(p) + Len(m), s)
    PROVE  InRange(c, d) /\ ApplyTextChange(d, c) = Cat(p, Cat(s, r))
<1>1. /\ Len(p) \in Nat /\ Len(m) \in Nat /\ Len(r) \in Nat
      /\ IsSeq(d) /\ Len(d) = Len(p) + (Len(m) + Len(r))
    BY CatOK
<1>2. Len(p) + Len(m) \in Nat /\ Len(p) <= Len(p) + Len(m) /\ Len(p) + Len(m) <= Len(d)
    BY <1>1
<1>3. IsChange(c) /\ c.to = Len(p) + Len(m)
    BY <1>1, <1>2, ChangeFields
<1>4. InRange(c, d)
    BY <1>1, <1>2, <1>3 DEF InRange
<1> QED BY <1>4, ApplyParts

\* The first three of four parts put together.
LEMMA CatThree ==
    ASSUME NEW p, NEW m, NEW q, NEW w, IsSeq(p), IsSeq(m), IsSeq(q), IsSeq(w)
    PROVE  /\ Cat(p, Cat(m, Cat(q, w))) = Cat(Cat(p, Cat(m, q)), w)
           /\ IsSeq(Cat(p, Cat(m, q))) /\ Len(Cat(p, Cat(m, q))) = Len(p) + (Len(m) + Len(q))
           /\ IsSeq(Cat(q, w)) /\ IsSeq(Cat(m, Cat(q, w)))
<1>1. IsSeq(Cat(m, q)) /\ Len(Cat(m, q)) = Len(m) + Len(q) /\ IsSeq(Cat(q, w))
    BY CatOK
<1>2. Cat(m, Cat(q, w)) = Cat(Cat(m, q), w) /\ IsSeq(Cat(m, Cat(q, w)))
    BY <1>1, CatAssoc, CatOK
<1>3. Cat(p, Cat(Cat(m, q), w)) = Cat(Cat(p, Cat(m, q)), w)
    BY <1>1, CatAssoc
<1>4. IsSeq(Cat(p, Cat(m, q))) /\ Len(Cat(p, Cat(m, q))) = Len(p) + (Len(m) + Len(q))
    BY <1>1, CatOK
<1> QED BY <1>1, <1>2, <1>3, <1>4

\* A text is cut at two places.
LEMMA CatSplitTwice ==
    ASSUME NEW d, IsSeq(d), NEW f \in Nat, NEW t \in Nat, f <= t, t <= Len(d)
    PROVE  \E x, y, z : /\ IsSeq(x) /\ IsSeq(y) /\ IsSeq(z) /\ d = Cat(x, Cat(y, z))
                        /\ Len(x) = f /\ Len(y) = t - f /\ Len(z) = Len(d) - t
<1>1. Len(d) \in Nat /\ f \in 0..Len(d)
    BY IsSeqLen
<1>2. PICK x, u : IsSeq(x) /\ Len(x) = f /\ IsSeq(u) /\ Len(u) = Len(d) - f /\ d = Cat(x, u)
    BY <1>1, CatSplit
<1>3. t - f \in 0..Len(u)
    BY <1>1, <1>2
<1>4. PICK y, z : IsSeq(y) /\ Len(y) = t - f /\ IsSeq(z) /\ Len(z) = Len(u) - (t - f) /\ u = Cat(y, z)
  <2> DEFINE n == t - f
  <2>1. n \in 0..Len(u) /\ IsSeq(u)
      BY <1>2, <1>3
  <2> HIDE DEF n
  <2>2. \E y, z : IsSeq(y) /\ Len(y) = n /\ IsSeq(z) /\ Len(z) = Len(u) - n /\ u = Cat(y, z)
      BY <2>1, CatSplit
  <2> QED BY <2>2 DEF n
<1>5. Len(z) = Len(d) - t
    BY <1>1, <1>2, <1>4
<1> QED BY <1>2, <1>4, <1>5

---------------------------------------------------------------------------
(* Two changes of one text, each made after the other.                     *)

\* One is before the other.
LEMMA DisjointCommute ==
    ASSUME NEW d, NEW x, NEW y, InRange(x, d), InRange(y, d), x.to <= y.from,
           NEW z, z = Change(y.from + Growth(x), y.to + Growth(x), y.insert)
    PROVE  /\ InRange(x, ApplyTextChange(d, y)) /\ InRange(z, ApplyTextChange(d, x))
           /\ ApplyTextChange(ApplyTextChange(d, y), x) = ApplyTextChange(ApplyTextChange(d, x), z)
<1> DEFINE s == x.insert
           w == y.insert
<1>1. /\ x = Change(x.from, x.to, s) /\ y = Change(y.from, y.to, w)
      /\ x.from \in Nat /\ x.to \in Nat /\ y.from \in Nat /\ y.to \in Nat
      /\ x.from <= x.to /\ y.from <= y.to /\ y.to <= Len(d)
      /\ IsSeq(s) /\ IsSeq(w) /\ IsSeq(d)
    BY DEF InRange, IsChange
<1>2. PICK p, m, r : /\ IsSeq(p) /\ IsSeq(m) /\ IsSeq(r) /\ d = Cat(p, Cat(m, r))
                     /\ Len(p) = x.from /\ Len(p) + Len(m) = x.to
                     /\ Len(p) \in Nat /\ Len(m) \in Nat /\ Len(r) \in Nat
    BY ChangeSplits
<1>3. Len(d) = Len(p) + (Len(m) + Len(r))
    BY <1>2, CatOK
<1>4. PICK q, n, v : /\ IsSeq(q) /\ IsSeq(n) /\ IsSeq(v) /\ r = Cat(q, Cat(n, v))
                     /\ Len(q) = y.from - x.to /\ Len(n) = y.to - y.from
  <2> DEFINE f == y.from - x.to
             t == y.to - x.to
  <2>1. f \in Nat /\ t \in Nat /\ f <= t /\ t <= Len(r) /\ t - f = y.to - y.from
    <3>1. /\ x.to \in Nat /\ y.from \in Nat /\ y.to \in Nat /\ x.to <= y.from
          /\ y.from <= y.to /\ y.to <= x.to + Len(r) /\ Len(r) \in Nat
        BY <1>1, <1>2, <1>3
    <3> QED BY <3>1
  <2> HIDE DEF f, t
  <2>2. \E q, n, v : /\ IsSeq(q) /\ IsSeq(n) /\ IsSeq(v) /\ r = Cat(q, Cat(n, v))
                     /\ Len(q) = f /\ Len(n) = t - f /\ Len(v) = Len(r) - t
      BY <1>2, <2>1, CatSplitTwice
  <2> QED BY <2>1, <2>2 DEF f
<1>5. Len(q) \in Nat /\ Len(n) \in Nat /\ Len(s) \in Nat /\ Len(w) \in Nat
    BY <1>1, <1>4, IsSeqLen
<1>6. x.from = Len(p) /\ x.to = Len(p) + Len(m) /\ Growth(x) = Len(s) - Len(m)
    BY <1>2, <1>5 DEF Growth
<1>7. y.from = Len(p) + (Len(m) + Len(q)) /\ y.to = (Len(p) + (Len(m) + Len(q))) + Len(n)
  <2>1. /\ y.from \in Nat /\ y.to \in Nat /\ Len(p) \in Nat /\ Len(m) \in Nat
        /\ Len(q) = y.from - (Len(p) + Len(m)) /\ Len(n) = y.to - y.from
      BY <1>1, <1>2, <1>4
  <2> QED BY <2>1
<1>8. /\ y.from + Growth(x) = Len(p) + (Len(s) + Len(q))
      /\ y.to + Growth(x) = (Len(p) + (Len(s) + Len(q))) + Len(n)
    BY <1>2, <1>5, <1>6, <1>7
<1> HIDE DEF s, w
<1>9. /\ IsSeq(Cat(n, v)) /\ IsSeq(Cat(w, v)) /\ IsSeq(Cat(q, Cat(w, v)))
    BY <1>1, <1>4, CatOK
<1>10. ApplyTextChange(d, y) = Cat(p, Cat(m, Cat(q, Cat(w, v))))
  <2> DEFINE P == Cat(p, Cat(m, q))
  <2>1. d = Cat(P, Cat(n, v)) /\ IsSeq(P) /\ Len(P) = Len(p) + (Len(m) + Len(q))
        /\ Cat(P, Cat(w, v)) = Cat(p, Cat(m, Cat(q, Cat(w, v))))
      BY <1>2, <1>4, <1>9, CatThree
  <2> HIDE DEF P
  <2>2. y = Change(Len(P), Len(P) + Len(n), w)
      BY <1>1, <1>7, <2>1
  <2>3. IsSeq(P) /\ IsSeq(n) /\ IsSeq(v) /\ IsSeq(w) /\ d = Cat(P, Cat(n, v))
      BY <1>1, <1>4, <2>1
  <2>4. ApplyTextChange(d, y) = Cat(P, Cat(w, v))
      BY <2>2, <2>3, ChangeAt
  <2> QED BY <2>1, <2>4
<1>11. /\ InRange(x, ApplyTextChange(d, y))
       /\ ApplyTextChange(ApplyTextChange(d, y), x) = Cat(p, Cat(s, Cat(q, Cat(w, v))))
  <2> DEFINE e == ApplyTextChange(d, y)
             u == Cat(q, Cat(w, v))
  <2>1. e = Cat(p, Cat(m, u)) /\ IsSeq(u) /\ x = Change(Len(p), Len(p) + Len(m), s)
      BY <1>1, <1>6, <1>9, <1>10
  <2> HIDE DEF e, u
  <2>2. InRange(x, e) /\ ApplyTextChange(e, x) = Cat(p, Cat(s, u))
      BY <1>1, <1>2, <2>1, ChangeAt
  <2> QED BY <2>2 DEF e, u
<1>12. ApplyTextChange(d, x) = Cat(p, Cat(s, r))
  <2>1. x = Change(Len(p), Len(p) + Len(m), s)
      BY <1>1, <1>6
  <2>2. IsSeq(p) /\ IsSeq(m) /\ IsSeq(r) /\ IsSeq(s) /\ d = Cat(p, Cat(m, r))
      BY <1>1, <1>2
  <2> QED BY <2>1, <2>2, ChangeAt
<1>13. /\ InRange(z, ApplyTextChange(d, x))
       /\ ApplyTextChange(ApplyTextChange(d, x), z) = Cat(p, Cat(s, Cat(q, Cat(w, v))))
  <2> DEFINE e == ApplyTextChange(d, x)
             P == Cat(p, Cat(s, q))
  <2>1. e = Cat(P, Cat(n, v)) /\ IsSeq(P) /\ Len(P) = Len(p) + (Len(s) + Len(q))
        /\ Cat(P, Cat(w, v)) = Cat(p, Cat(s, Cat(q, Cat(w, v))))
    <3>1. /\ IsSeq(p) /\ IsSeq(s) /\ IsSeq(q) /\ IsSeq(Cat(n, v)) /\ IsSeq(Cat(w, v))
          /\ e = Cat(p, Cat(s, Cat(q, Cat(n, v))))
        BY <1>1, <1>2, <1>4, <1>9, <1>12
    <3> HIDE DEF e
    <3> QED BY <3>1, CatThree
  <2> HIDE DEF e, P
  <2>2. z = Change(Len(P), Len(P) + Len(n), w)
      BY <1>8, <2>1 DEF w
  <2>3. IsSeq(P) /\ IsSeq(n) /\ IsSeq(v) /\ IsSeq(w) /\ e = Cat(P, Cat(n, v))
      BY <1>1, <1>4, <2>1
  <2>4. InRange(z, e) /\ ApplyTextChange(e, z) = Cat(P, Cat(w, v))
      BY <2>2, <2>3, ChangeAt
  <2> QED BY <2>1, <2>4 DEF e
<1> QED BY <1>11, <1>13

\* What one removes is part of what the other replaces.
LEMMA SwallowedCommute ==
    ASSUME NEW d, NEW c, NEW v, InRange(c, d), InRange(v, d),
           c.from <= v.from, v.to <= c.to, v.insert = << >>,
           NEW g, g = Change(c.from, c.to + Growth(v), c.insert)
    PROVE  /\ InRange(g, ApplyTextChange(d, v))
           /\ ApplyTextChange(ApplyTextChange(d, v), g) = ApplyTextChange(d, c)
<1> DEFINE s == c.insert
<1>1. /\ c = Change(c.from, c.to, s) /\ v = Change(v.from, v.to, << >>)
      /\ c.from \in Nat /\ c.to \in Nat /\ v.from \in Nat /\ v.to \in Nat
      /\ v.from <= v.to /\ IsSeq(s) /\ IsSeq(d) /\ IsSeq(<< >>) /\ Len(<< >>) = 0
    BY IsSeqEmpty DEF InRange, IsChange
<1>2. PICK p, m, r : /\ IsSeq(p) /\ IsSeq(m) /\ IsSeq(r) /\ d = Cat(p, Cat(m, r))
                     /\ Len(p) = c.from /\ Len(p) + Len(m) = c.to
                     /\ Len(p) \in Nat /\ Len(m) \in Nat /\ Len(r) \in Nat
                     /\ ApplyTextChange(d, c) = Cat(p, Cat(s, r))
    BY ChangeSplits
<1>3. PICK a, b, e : /\ IsSeq(a) /\ IsSeq(b) /\ IsSeq(e) /\ m = Cat(a, Cat(b, e))
                     /\ Len(a) = v.from - c.from /\ Len(b) = v.to - v.from
                     /\ Len(e) = Len(m) - (v.to - c.from)
  <2> DEFINE f == v.from - c.from
             t == v.to - c.from
  <2>1. f \in Nat /\ t \in Nat /\ f <= t /\ t <= Len(m) /\ t - f = v.to - v.from
      BY <1>1, <1>2
  <2> HIDE DEF f, t
  <2>2. \E a, b, e : /\ IsSeq(a) /\ IsSeq(b) /\ IsSeq(e) /\ m = Cat(a, Cat(b, e))
                     /\ Len(a) = f /\ Len(b) = t - f /\ Len(e) = Len(m) - t
      BY <1>2, <2>1, CatSplitTwice
  <2> QED BY <2>1, <2>2 DEF f, t
<1>4. Len(a) \in Nat /\ Len(b) \in Nat /\ Len(e) \in Nat
    BY <1>3, IsSeqLen
<1>5. /\ v.from = Len(p) + Len(a) /\ v.to = (Len(p) + Len(a)) + Len(b)
      /\ c.to + Growth(v) = Len(p) + (Len(a) + Len(e))
  <2> DEFINE f == v.from
             t == v.to
             k == c.to
             G == Growth(v)
             l == Len(p)
             n == Len(m)
  <2>1. G = 0 - (t - f)
      BY <1>1 DEF Growth
  <2>2. /\ f \in Nat /\ t \in Nat /\ l \in Nat /\ n \in Nat /\ k = l + n
        /\ Len(a) = f - l /\ Len(b) = t - f /\ Len(e) = n - (t - l)
      BY <1>1, <1>2, <1>3
  <2> HIDE DEF f, t, k, G, l, n
  <2>3. f = l + Len(a) /\ t = (l + Len(a)) + Len(b)
      BY <2>2
  <2>4. k + G = l + (Len(a) + Len(e))
    <3>1. k + G = (l + n) + (0 - (t - f)) /\ Len(a) + Len(e) = (f - l) + (n - (t - l))
        BY <2>1, <2>2
    <3>2. (l + n) + (0 - (t - f)) = l + ((f - l) + (n - (t - l)))
        BY <2>2
    <3> QED BY <3>1, <3>2
  <2> QED BY <2>3, <2>4 DEF f, t, k, G, l
<1> HIDE DEF s
<1>6. /\ IsSeq(Cat(p, a)) /\ Len(Cat(p, a)) = Len(p) + Len(a)
      /\ IsSeq(Cat(e, r)) /\ IsSeq(Cat(b, e))
      /\ IsSeq(Cat(a, e)) /\ Len(Cat(a, e)) = Len(a) + Len(e)
    BY <1>2, <1>3, CatOK
<1>7. d = Cat(Cat(p, a), Cat(b, Cat(e, r)))
  <2>1. Cat(Cat(a, Cat(b, e)), r) = Cat(a, Cat(b, Cat(e, r)))
      BY <1>2, <1>3, CatThree
  <2>2. IsSeq(Cat(b, Cat(e, r)))
      BY <1>3, <1>6, CatOK
  <2>3. Cat(Cat(p, a), Cat(b, Cat(e, r))) = Cat(p, Cat(a, Cat(b, Cat(e, r))))
      BY <1>2, <1>3, <2>2, CatAssoc
  <2> QED BY <1>2, <1>3, <2>1, <2>3
<1>8. ApplyTextChange(d, v) = Cat(p, Cat(Cat(a, e), r))
  <2> DEFINE P == Cat(p, a)
             R == Cat(e, r)
  <2>1. IsSeq(P) /\ IsSeq(R) /\ d = Cat(P, Cat(b, R)) /\ v = Change(Len(P), Len(P) + Len(b), << >>)
      BY <1>1, <1>5, <1>6, <1>7
  <2> HIDE DEF P, R
  <2>2. ApplyTextChange(d, v) = Cat(P, Cat(<< >>, R))
      BY <1>1, <1>3, <2>1, ChangeAt
  <2>3. Cat(<< >>, R) = R
      BY <2>1, CatUnit
  <2>4. Cat(P, R) = Cat(p, Cat(a, R)) /\ Cat(a, R) = Cat(Cat(a, e), r)
      BY <1>2, <1>3, <2>1, CatAssoc DEF P, R
  <2> QED BY <2>2, <2>3, <2>4
<1> DEFINE k == ApplyTextChange(d, v)
           n == Cat(a, e)
<1>9. /\ k = Cat(p, Cat(n, r)) /\ IsSeq(n) /\ g = Change(Len(p), Len(p) + Len(n), s)
    BY <1>2, <1>5, <1>6, <1>8 DEF s
<1> HIDE DEF k, n
<1>10. InRange(g, k) /\ ApplyTextChange(k, g) = Cat(p, Cat(s, r))
    BY <1>1, <1>2, <1>9, ChangeAt
<1> QED BY <1>2, <1>10 DEF k

\* One puts something into what the other replaces.
LEMMA AstrideCommute ==
    ASSUME NEW d, NEW c, NEW v, InRange(c, d), InRange(v, d),
           c.from <= v.from, v.from = v.to, v.to <= c.to,
           NEW rest, rest = Change(v.from + Len(v.insert), c.to + Len(v.insert), << >>),
           NEW left, left = Change(c.from, v.from, c.insert),
           NEW u, u = Change(c.from + Len(c.insert), c.from + Len(c.insert), v.insert)
    PROVE  /\ InRange(rest, ApplyTextChange(d, v))
           /\ InRange(left, ApplyTextChange(ApplyTextChange(d, v), rest))
           /\ InRange(u, ApplyTextChange(d, c))
           /\ ApplyTextChange(ApplyTextChange(ApplyTextChange(d, v), rest), left)
                 = ApplyTextChange(ApplyTextChange(d, c), u)
<1> DEFINE s == c.insert
           w == v.insert
<1>1. /\ c = Change(c.from, c.to, s) /\ v = Change(v.from, v.from, w)
      /\ c.from \in Nat /\ c.to \in Nat /\ v.from \in Nat
      /\ IsSeq(s) /\ IsSeq(w) /\ IsSeq(d) /\ IsSeq(<< >>) /\ Len(<< >>) = 0
    BY IsSeqEmpty DEF InRange, IsChange
<1>2. PICK p, m, r : /\ IsSeq(p) /\ IsSeq(m) /\ IsSeq(r) /\ d = Cat(p, Cat(m, r))
                     /\ Len(p) = c.from /\ Len(p) + Len(m) = c.to
                     /\ Len(p) \in Nat /\ Len(m) \in Nat /\ Len(r) \in Nat
                     /\ ApplyTextChange(d, c) = Cat(p, Cat(s, r))
    BY ChangeSplits
<1>3. PICK a, b : /\ IsSeq(a) /\ IsSeq(b) /\ m = Cat(a, b)
                  /\ Len(a) = v.from - c.from /\ Len(b) = Len(m) - (v.from - c.from)
  <2> DEFINE f == v.from - c.from
  <2>1. f \in 0..Len(m)
      BY <1>1, <1>2
  <2> HIDE DEF f
  <2>2. \E a, b : /\ IsSeq(a) /\ Len(a) = f /\ IsSeq(b) /\ Len(b) = Len(m) - f /\ m = Cat(a, b)
      BY <1>2, <2>1, CatSplit
  <2> QED BY <2>2 DEF f
<1>4. Len(a) \in Nat /\ Len(b) \in Nat /\ Len(s) \in Nat /\ Len(w) \in Nat
    BY <1>1, <1>3, IsSeqLen
<1>5. v.from = Len(p) + Len(a) /\ c.to = (Len(p) + Len(a)) + Len(b)
    BY <1>1, <1>2, <1>3, <1>4
<1> HIDE DEF s, w
<1>6. /\ IsSeq(Cat(p, a)) /\ Len(Cat(p, a)) = Len(p) + Len(a) /\ IsSeq(Cat(b, r))
      /\ IsSeq(Cat(w, r)) /\ IsSeq(Cat(s, r))
      /\ IsSeq(Cat(p, s)) /\ Len(Cat(p, s)) = Len(p) + Len(s)
    BY <1>1, <1>2, <1>3, CatOK
<1> DEFINE P == Cat(p, a)
           R == Cat(b, r)
           Q == Cat(P, w)
<1>7. d = Cat(P, Cat(<< >>, R)) /\ IsSeq(Q) /\ Len(Q) = Len(P) + Len(w)
  <2>1. Cat(P, R) = Cat(p, Cat(a, R)) /\ Cat(a, R) = Cat(m, r) /\ Cat(<< >>, R) = R
      BY <1>2, <1>3, <1>6, CatAssoc, CatUnit
  <2> QED BY <1>1, <1>2, <1>6, <2>1, CatOK
<1>8. ApplyTextChange(d, v) = Cat(Q, Cat(b, r))
  <2>1. v = Change(Len(P), Len(P) + Len(<< >>), w)
    <3>1. Len(P) + 0 = v.from /\ Len(P) = v.from
        BY <1>1, <1>5, <1>6
    <3> QED BY <1>1, <3>1
  <2>2. IsSeq(P) /\ IsSeq(R)
      BY <1>6
  <2> HIDE DEF P, R
  <2> DEFINE none == << >>
  <2>3. IsSeq(none) /\ IsSeq(w) /\ d = Cat(P, Cat(none, R)) /\ v = Change(Len(P), Len(P) + Len(none), w)
      BY <1>1, <1>7, <2>1
  <2> HIDE DEF none
  <2>4. ApplyTextChange(d, v) = Cat(P, Cat(w, R))
      BY <2>2, <2>3, ChangeAt
  <2>5. Cat(P, Cat(w, R)) = Cat(Q, R)
      BY <1>1, <2>2, CatAssoc
  <2> QED BY <2>4, <2>5 DEF R
<1>9. /\ InRange(rest, ApplyTextChange(d, v))
      /\ ApplyTextChange(ApplyTextChange(d, v), rest) = Cat(Q, r)
  <2> DEFINE e == ApplyTextChange(d, v)
  <2>1. rest = Change(Len(Q), Len(Q) + Len(b), << >>)
    <3>1. v.from + Len(w) = Len(Q) /\ c.to + Len(w) = Len(Q) + Len(b)
        BY <1>2, <1>4, <1>5, <1>6, <1>7
    <3> QED BY <3>1 DEF w
  <2>2. e = Cat(Q, Cat(b, r)) /\ IsSeq(Q)
      BY <1>7, <1>8
  <2> HIDE DEF e, Q
  <2> DEFINE none == << >>
  <2>3. IsSeq(none) /\ IsSeq(b) /\ IsSeq(r) /\ rest = Change(Len(Q), Len(Q) + Len(b), none)
      BY <1>1, <1>2, <1>3, <2>1
  <2>4. Cat(none, r) = r
      BY <1>2, CatUnit
  <2> HIDE DEF none
  <2>5. InRange(rest, e) /\ ApplyTextChange(e, rest) = Cat(Q, Cat(none, r))
      BY <2>2, <2>3, ChangeAt
  <2> QED BY <2>4, <2>5 DEF e
<1>10. Cat(Q, r) = Cat(p, Cat(a, Cat(w, r)))
    BY <1>1, <1>2, <1>3, <1>6, CatAssoc
<1>11. /\ InRange(left, ApplyTextChange(ApplyTextChange(d, v), rest))
       /\ ApplyTextChange(ApplyTextChange(ApplyTextChange(d, v), rest), left)
             = Cat(p, Cat(s, Cat(w, r)))
  <2> DEFINE e == ApplyTextChange(ApplyTextChange(d, v), rest)
             y == Cat(w, r)
  <2>1. e = Cat(p, Cat(a, y)) /\ IsSeq(y) /\ left = Change(Len(p), Len(p) + Len(a), s)
      BY <1>2, <1>5, <1>6, <1>9, <1>10 DEF s
  <2> HIDE DEF e, y
  <2>2. IsSeq(p) /\ IsSeq(a) /\ IsSeq(s)
      BY <1>1, <1>2, <1>3
  <2>3. InRange(left, e) /\ ApplyTextChange(e, left) = Cat(p, Cat(s, y))
      BY <2>1, <2>2, ChangeAt
  <2> QED BY <2>3 DEF e, y
<1>12. /\ InRange(u, ApplyTextChange(d, c))
       /\ ApplyTextChange(ApplyTextChange(d, c), u) = Cat(p, Cat(s, Cat(w, r)))
  <2> DEFINE e == ApplyTextChange(d, c)
             y == Cat(p, s)
  <2>1. IsSeq(y) /\ Len(y) = Len(p) + Len(s) /\ e = Cat(y, Cat(<< >>, r))
    <3>1. Cat(<< >>, r) = r /\ Cat(p, Cat(s, r)) = Cat(y, r)
        BY <1>1, <1>2, CatAssoc, CatUnit
    <3> QED BY <1>2, <1>6, <3>1
  <2>2. u = Change(Len(y), Len(y) + Len(<< >>), w)
    <3>1. c.from + Len(s) = Len(y) /\ Len(y) + 0 = Len(y)
        BY <1>2, <1>4, <2>1
    <3> QED BY <1>1, <3>1 DEF s, w
  <2>3. Cat(y, Cat(w, r)) = Cat(p, Cat(s, Cat(w, r)))
      BY <1>1, <1>2, <1>6, CatAssoc
  <2> DEFINE none == << >>
  <2>4. /\ IsSeq(y) /\ IsSeq(none) /\ IsSeq(r) /\ IsSeq(w) /\ e = Cat(y, Cat(none, r))
        /\ u = Change(Len(y), Len(y) + Len(none), w)
      BY <1>1, <1>2, <2>1, <2>2
  <2> HIDE DEF e, y, none
  <2>5. InRange(u, e) /\ ApplyTextChange(e, u) = Cat(y, Cat(w, r))
      BY <2>4, ChangeAt
  <2> QED BY <2>3, <2>5 DEF e
<1> QED BY <1>9, <1>11, <1>12

\* A change of nothing leaves a text as it is.
LEMMA NothingApplied ==
    ASSUME NEW d, NEW c, InRange(c, d), c.from = c.to, c.insert = << >>
    PROVE  ApplyTextChange(d, c) = d
<1>1. PICK p, m, r :
              /\ IsSeq(p) /\ IsSeq(m) /\ IsSeq(r)
              /\ d = Cat(p, Cat(m, r)) /\ Len(p) = c.from /\ Len(p) + Len(m) = c.to
              /\ Len(p) \in Nat /\ Len(m) \in Nat
              /\ ApplyTextChange(d, c) = Cat(p, Cat(c.insert, r))
    BY ChangeSplits
<1>2. Len(m) = 0
    BY <1>1
<1>3. m = << >>
    BY <1>1, <1>2, IsSeqNone
<1> QED BY <1>1, <1>3

---------------------------------------------------------------------------
(* An inverse and somebody else's change of the same text.                 *)

\* What takes back one edit of this user's: it puts something back, or takes
\* one of this user's letters away.
TakesBack(v, d) ==
    /\ InRange(v, d)
    /\ v.to <= v.from + 1
    /\ v.to = v.from \/ v.insert = << >>
    /\ \A i \in (v.from + 1)..v.to : d[i].by = "me"

\* Changes that are made one after the other and lead from one text to another.
MadeBy(changes, d, e, docs) ==
    /\ docs[0] = d /\ docs[Len(changes)] = e
    /\ \A k \in 1..Len(changes) :
          /\ InRange(changes[k], docs[k - 1])
          /\ docs[k] = ApplyTextChange(docs[k - 1], changes[k])

Made(changes, d, e) == IsSeq(changes) /\ \E docs : MadeBy(changes, d, e, docs)

LEMMA MadeOne ==
    ASSUME NEW c, NEW d, InRange(c, d)
    PROVE  Made(<<c>>, d, ApplyTextChange(d, c))
<1> DEFINE e == ApplyTextChange(d, c)
           docs == [k \in 0..1 |-> IF k = 0 THEN d ELSE e]
           cs == <<c>>
<1>1. IsSeq(cs) /\ Len(cs) = 1 /\ cs[1] = c
    BY IsSeqOne
<1>2. docs[0] = d /\ docs[1] = e
    OBVIOUS
<1> HIDE DEF docs, cs
<1>3. ASSUME NEW k \in 1..Len(cs)
      PROVE  InRange(cs[k], docs[k - 1]) /\ docs[k] = ApplyTextChange(docs[k - 1], cs[k])
  <2>1. k = 1
      BY <1>1
  <2> QED BY <1>1, <1>2, <2>1
<1>4. MadeBy(cs, d, e, docs)
    BY <1>1, <1>2, <1>3 DEF MadeBy
<1> QED BY <1>1, <1>4 DEF Made, cs

LEMMA MadeNone ==
    ASSUME NEW d
    PROVE  Made(<< >>, d, d)
<1> DEFINE docs == [k \in {0} |-> d]
           cs == << >>
<1>1. IsSeq(cs) /\ Len(cs) = 0
    BY IsSeqEmpty
<1>2. docs[0] = d
    OBVIOUS
<1> HIDE DEF docs, cs
<1>3. MadeBy(cs, d, d, docs)
    BY <1>1, <1>2 DEF MadeBy
<1> QED BY <1>1, <1>3 DEF Made, cs

\* First some changes, then others.
LEMMA MadeBoth ==
    ASSUME NEW x, NEW y, NEW d, NEW e, NEW f, Made(x, d, e), Made(y, e, f)
    PROVE  Made(Cat(x, y), d, f)
<1>1. IsSeq(x) /\ IsSeq(y) /\ Len(x) \in Nat /\ Len(y) \in Nat
    BY IsSeqLen DEF Made
<1>2. PICK a : MadeBy(x, d, e, a)
    BY DEF Made
<1>3. PICK b : MadeBy(y, e, f, b)
    BY DEF Made
<1> DEFINE n == Len(x)
           m == Len(y)
           z == Cat(x, y)
           docs == [k \in 0..(n + m) |-> IF k <= n THEN a[k] ELSE b[k - n]]
<1>4. /\ a[0] = d /\ a[n] = e /\ b[0] = e /\ b[m] = f
      /\ \A k \in 1..n : InRange(x[k], a[k - 1]) /\ a[k] = ApplyTextChange(a[k - 1], x[k])
      /\ \A k \in 1..m : InRange(y[k], b[k - 1]) /\ b[k] = ApplyTextChange(b[k - 1], y[k])
    BY <1>2, <1>3 DEF MadeBy
<1>5. /\ IsSeq(z) /\ Len(z) = n + m
      /\ \A i \in 1..n : z[i] = x[i]
      /\ \A i \in 1..m : z[n + i] = y[i]
    BY <1>1, CatOK, CatIndex
<1>6. n \in Nat /\ m \in Nat
    BY <1>1
<1> HIDE DEF n, m, z
<1>7. ASSUME NEW k \in 1..(n + m)
      PROVE  InRange(z[k], docs[k - 1]) /\ docs[k] = ApplyTextChange(docs[k - 1], z[k])
  <2>1. CASE k <= n
    <3>1. k \in 1..n /\ k - 1 \in 0..(n + m) /\ k \in 0..(n + m) /\ k - 1 <= n
        BY <1>6, <2>1
    <3>2. docs[k] = a[k] /\ docs[k - 1] = a[k - 1] /\ z[k] = x[k]
        BY <1>5, <2>1, <3>1
    <3> QED BY <1>4, <3>1, <3>2
  <2>2. CASE ~(k <= n)
    <3> DEFINE j == k - n
    <3>1. /\ j \in 1..m /\ n + j = k /\ k - 1 \in 0..(n + m) /\ k \in 0..(n + m)
          /\ (k - 1 <= n => j = 1 /\ k - 1 = n) /\ (k - 1) - n = j - 1
        BY <1>6, <2>2
    <3>2. docs[k] = b[j] /\ z[k] = y[j]
        BY <1>5, <2>2, <3>1
    <3>3. docs[k - 1] = b[j - 1]
      <4>1. CASE k - 1 <= n
        <5>1. j - 1 = 0 /\ docs[k - 1] = a[n]
            BY <3>1, <4>1
        <5> QED BY <1>4, <5>1
      <4>2. CASE ~(k - 1 <= n)
          BY <3>1, <4>2
      <4> QED BY <4>1, <4>2
    <3> HIDE DEF j
    <3> QED BY <1>4, <3>1, <3>2, <3>3
  <2> QED BY <2>1, <2>2
<1>8. docs[0] = d
    BY <1>4, <1>6
<1>9. docs[n + m] = f
  <2>1. CASE m = 0
    <3>1. n + m = n /\ n \in 0..(n + m) /\ n <= n /\ b[m] = e
        BY <1>4, <1>6, <2>1
    <3> QED BY <1>4, <3>1
  <2>2. CASE m # 0
    <3>1. n + m \in 0..(n + m) /\ ~(n + m <= n) /\ (n + m) - n = m
        BY <1>6, <2>2
    <3> QED BY <1>4, <3>1
  <2> QED BY <2>1, <2>2
<1> HIDE DEF docs
<1>10. MadeBy(z, d, f, docs)
    BY <1>5, <1>7, <1>8, <1>9 DEF MadeBy
<1> QED BY <1>5, <1>10 DEF Made, z

\* The last of two changes or more.
LEMMA MadeTwo ==
    ASSUME NEW x, NEW y, NEW d, InRange(x, d), InRange(y, ApplyTextChange(d, x))
    PROVE  Made(<<x, y>>, d, ApplyTextChange(ApplyTextChange(d, x), y))
<1>1. Made(<<x>>, d, ApplyTextChange(d, x))
      /\ Made(<<y>>, ApplyTextChange(d, x), ApplyTextChange(ApplyTextChange(d, x), y))
    BY MadeOne
<1>2. Cat(<<x>>, <<y>>) = <<x, y>>
  <2> DEFINE a == <<x>>
             b == <<y>>
             c == <<x, y>>
  <2>1. IsSeq(a) /\ Len(a) = 1 /\ a[1] = x /\ IsSeq(b) /\ Len(b) = 1 /\ b[1] = y
      BY IsSeqOne
  <2>2. IsSeq(c) /\ Len(c) = 2 /\ c[1] = x /\ c[2] = y
    <3>1. c \in Seq({x, y}) /\ Len(c) = 2 /\ c[1] = x /\ c[2] = y
        OBVIOUS
    <3> QED BY <3>1, IsSeqIntro
  <2> HIDE DEF a, b, c
  <2>3. IsSeq(Cat(a, b)) /\ Len(Cat(a, b)) = 2
    <3>1. IsSeq(Cat(a, b)) /\ Len(Cat(a, b)) = Len(a) + Len(b)
        BY <2>1, CatOK
    <3>2. Len(a) + Len(b) = 2
        BY <2>1
    <3> QED BY <3>1, <3>2
  <2>4. Cat(a, b)[1] = a[1] /\ Cat(a, b)[1 + 1] = b[1]
    <3>1. /\ \A i \in 1..Len(a) : Cat(a, b)[i] = a[i]
          /\ \A i \in 1..Len(b) : Cat(a, b)[Len(a) + i] = b[i]
        BY <2>1, CatIndex
    <3> QED BY <2>1, <3>1
  <2>5. \A i \in 1..2 : Cat(a, b)[i] = c[i]
    <3>1. \A i \in 1..2 : i = 1 \/ i = 1 + 1
        OBVIOUS
    <3> QED BY <2>1, <2>2, <2>4, <3>1
  <2>6. Cat(a, b) = c
      BY <2>2, <2>3, <2>5, IsSeqEqual
  <2> QED BY <2>6 DEF a, b, c
<1> QED BY <1>1, <1>2, MadeBoth

\* A part of a change is replaced.
LEMMA ChangeSets ==
    ASSUME NEW f, NEW t, NEW s, NEW c, c = Change(f, t, s), NEW x
    PROVE  /\ [c EXCEPT !.from = x] = Change(x, t, s)
           /\ [c EXCEPT !.to = x] = Change(f, x, s)
           /\ [c EXCEPT !.insert = x] = Change(f, t, x)
    BY DEF Change

\* The two next to each other: none touches what the other one does.
LEMMA CrossedApart ==
    ASSUME NEW v, NEW c, NEW d, TakesBack(v, d), InRange(c, d),
           c.to <= v.from \/ v.to <= c.from
    PROVE  /\ TakesBack(Mapped(v, c), ApplyTextChange(d, c))
           /\ Mapped(v, c).insert = v.insert
           /\ Made(Beyond(c, v), ApplyTextChange(d, v),
                   ApplyTextChange(ApplyTextChange(d, c), Mapped(v, c)))
<1> DEFINE s == c.insert
           w == v.insert
           G == Growth(c)
           g == Growth(v)
           k == ApplyTextChange(d, c)
           h == ApplyTextChange(d, v)
<1>1. /\ c = Change(c.from, c.to, s) /\ v = Change(v.from, v.to, w)
      /\ c.from \in Nat /\ c.to \in Nat /\ v.from \in Nat /\ v.to \in Nat
      /\ c.from <= c.to /\ v.from <= v.to /\ v.to <= v.from + 1
      /\ IsSeq(s) /\ IsSeq(w) /\ InRange(v, d)
      /\ v.to = v.from \/ w = << >>
      /\ \A i \in (v.from + 1)..v.to : d[i].by = "me"
    BY DEF TakesBack, InRange, IsChange
<1>2. /\ G \in Int /\ Len(k) = Len(d) + G /\ Len(d) \in Nat /\ Len(k) \in Nat
      /\ \A i \in 1..c.from : k[i] = d[i]
      /\ \A i \in (c.to + 1)..Len(d) : k[i + G] = d[i]
    BY ApplyOK
<1>3. g \in Int
    BY <1>1, ApplyOK
<1>4. v.to <= Len(d) /\ c.to <= Len(d)
    BY <1>1 DEF InRange
<1>5. CASE c.to <= v.from
  <2> DEFINE z == Change(v.from + G, v.to + G, w)
  <2>1. Mapped(v, c) = z
    <3>0. v.from >= c.to /\ ~(v.from < c.to)
        BY <1>1, <1>5
    <3>1. Mapped(v, c) = [v EXCEPT !.from = v.from + G, !.to = (v.from + G) + (v.to - v.from)]
        BY <3>0 DEF Mapped
    <3>2. (v.from + G) + (v.to - v.from) = v.to + G
        BY <1>1, <1>2
    <3> DEFINE f == v.from + G
               t == v.to + G
    <3>3. v = Change(v.from, v.to, w) /\ Mapped(v, c) = [v EXCEPT !.from = f, !.to = t]
        BY <1>1, <3>1, <3>2
    <3> HIDE DEF f, t
    <3>4. [v EXCEPT !.from = f, !.to = t] = Change(f, t, w)
        BY <3>3 DEF Change
    <3> QED BY <3>3, <3>4 DEF f, t
  <2>2. Beyond(c, v) = <<c>>
      BY <1>5 DEF Beyond
  <2>3. InRange(c, h) /\ InRange(z, k) /\ ApplyTextChange(h, c) = ApplyTextChange(k, z)
      BY <1>1, <1>5, DisjointCommute
  <2>4. z.from = v.from + G /\ z.to = v.to + G /\ z.insert = w
      BY DEF Change
  <2> HIDE DEF z
  <2>5. Made(<<c>>, h, ApplyTextChange(h, c))
      BY <2>3, MadeOne
  <2>6. TakesBack(z, k)
    <3>1. z.to <= z.from + 1 /\ (z.to = z.from \/ z.insert = << >>)
        BY <1>1, <1>2, <2>4
    <3>2. ASSUME NEW i \in (z.from + 1)..z.to PROVE k[i].by = "me"
      <4> DEFINE j == i - G
      <4>1. j \in (v.from + 1)..v.to /\ j \in (c.to + 1)..Len(d) /\ j + G = i
        <5> DEFINE a == v.from
                   b == v.to
                   e == c.to
                   l == Len(d)
        <5>1. /\ a \in Nat /\ b \in Nat /\ e \in Nat /\ l \in Nat /\ G \in Int /\ b <= l /\ e <= a
              /\ i \in (a + G + 1)..(b + G)
            BY <1>1, <1>2, <1>4, <1>5, <2>4
        <5> HIDE DEF a, b, e, l, G
        <5>2. j \in (a + 1)..b /\ j \in (e + 1)..l /\ j + G = i
            BY <5>1
        <5> QED BY <5>2 DEF a, b, e, l
      <4> HIDE DEF j, k, G
      <4>2. k[j + G] = d[j] /\ d[j].by = "me"
          BY <1>1, <1>2, <4>1
      <4> QED BY <4>1, <4>2
    <3> QED BY <2>3, <3>1, <3>2 DEF TakesBack
  <2> HIDE DEF h, k
  <2> QED BY <2>1, <2>2, <2>3, <2>4, <2>5, <2>6 DEF h, k
<1>6. CASE ~(c.to <= v.from)
  <2> DEFINE z == Change(c.from + g, c.to + g, s)
  <2>0. v.from < c.to /\ v.to <= c.from /\ v.from <= c.from
      BY <1>1, <1>6
  <2>1. Mapped(v, c) = v
    <3>1. ~(v.from >= c.to) /\ v.from <= c.from /\ v.from + (v.to - v.from) = v.to
          /\ (c.from <= v.from => v.from = v.to)
        BY <1>1, <2>0
    <3>2. Mapped(v, c) = [v EXCEPT !.from = v.from, !.to = v.to]
        BY <3>1 DEF Mapped
    <3> QED BY <1>1, <3>2 DEF Change
  <2>2. Beyond(c, v) = <<z>>
    <3>1. Beyond(c, v) = <<[[c EXCEPT !.to = c.to + g] EXCEPT !.from = c.from + g]>>
        BY <1>1, <1>6, <2>0 DEF Beyond, Change
    <3>2. [[c EXCEPT !.to = c.to + g] EXCEPT !.from = c.from + g] = z
      <4> DEFINE x == [c EXCEPT !.to = c.to + g]
      <4>0. c = Change(c.from, c.to, s)
          BY <1>1
      <4>1. x = Change(c.from, c.to + g, s)
          BY <4>0, ChangeSets
      <4> HIDE DEF x
      <4>2. [x EXCEPT !.from = c.from + g] = z
          BY <4>1, ChangeSets
      <4> QED BY <4>2 DEF x
    <3> QED BY <3>1, <3>2
  <2>3. InRange(v, k) /\ InRange(z, h) /\ ApplyTextChange(k, v) = ApplyTextChange(h, z)
      BY <1>1, <2>0, DisjointCommute
  <2> HIDE DEF z
  <2>4. Made(<<z>>, h, ApplyTextChange(h, z))
      BY <2>3, MadeOne
  <2>5. TakesBack(v, k)
    <3>1. ASSUME NEW i \in (v.from + 1)..v.to PROVE k[i].by = "me"
      <4>1. i \in 1..c.from
          BY <1>1, <2>0
      <4> HIDE DEF k
      <4> QED BY <1>1, <1>2, <4>1
    <3> QED BY <1>1, <2>3, <3>1 DEF TakesBack
  <2> HIDE DEF h, k
  <2> QED BY <2>1, <2>2, <2>3, <2>4, <2>5 DEF h, k
<1> QED BY <1>5, <1>6

\* The inverse within what the other one replaces: nothing is left of it but
\* what it puts back.
LEMMA CrossedWithin ==
    ASSUME NEW v, NEW c, NEW d, TakesBack(v, d), InRange(c, d),
           ~(c.to <= v.from), ~(v.to <= c.from)
    PROVE  /\ TakesBack(Mapped(v, c), ApplyTextChange(d, c))
           /\ Mapped(v, c).insert = v.insert
           /\ Made(Beyond(c, v), ApplyTextChange(d, v),
                   ApplyTextChange(ApplyTextChange(d, c), Mapped(v, c)))
<1> DEFINE s == c.insert
           w == v.insert
           g == Growth(v)
           k == ApplyTextChange(d, c)
           h == ApplyTextChange(d, v)
           at == IF v.from <= c.from THEN v.from ELSE c.from + Len(s)
           u == Change(at, at, w)
           grown == Change(c.from, c.to + g, s)
<1>1. /\ c = Change(c.from, c.to, s) /\ v = Change(v.from, v.to, w)
      /\ c.from \in Nat /\ c.to \in Nat /\ v.from \in Nat /\ v.to \in Nat
      /\ c.from <= c.to /\ v.from <= v.to /\ v.to <= v.from + 1
      /\ IsSeq(s) /\ IsSeq(w) /\ InRange(v, d) /\ c.to <= Len(d)
      /\ v.to = v.from \/ w = << >>
    BY DEF TakesBack, InRange, IsChange
<1>2. /\ v.from < c.to /\ c.from < v.to /\ c.from <= v.from /\ v.to <= c.to
    BY <1>1
<1>3. Len(s) \in Nat /\ Len(w) \in Nat /\ Len(d) \in Nat
    BY <1>1, IsSeqLen DEF InRange
<1>4. /\ IsSeq(k) /\ Len(k) = Len(d) + Growth(c) /\ Growth(c) = Len(s) - (c.to - c.from)
    BY ApplyOK DEF Growth
<1>5. at \in Nat /\ at <= Len(k)
    BY <1>1, <1>2, <1>3, <1>4
<1>6. Mapped(v, c) = u
  <2>1. c.from <= v.from /\ v.from < c.to /\ ~(v.from >= c.to)
      BY <1>1, <1>2
  <2>2. Mapped(v, c) = [v EXCEPT !.from = at, !.to = at]
      BY <2>1 DEF Mapped
  <2> HIDE DEF at
  <2> QED BY <1>1, <2>2 DEF Change
<1>7. u.from = at /\ u.to = at /\ u.insert = w /\ IsChange(u)
  <2> HIDE DEF at
  <2> QED BY <1>1, <1>5, ChangeFields
<1> HIDE DEF at
<1>8. InRange(u, k)
    BY <1>4, <1>5, <1>7 DEF InRange
<1>9. TakesBack(u, k)
  <2>1. \A i \in (at + 1)..at : k[i].by = "me"
      BY <1>5
  <2>2. at <= at + 1
      BY <1>5
  <2> HIDE DEF u, k
  <2> QED BY <1>7, <1>8, <2>1, <2>2 DEF TakesBack
<1>10. [c EXCEPT !.to = c.to + g] = grown
    BY <1>1 DEF Change
<1>11. CASE w = << >>
  <2>1. Beyond(c, v) = <<grown>>
      BY <1>10, <1>11 DEF Beyond
  <2>2. InRange(grown, h) /\ ApplyTextChange(h, grown) = k
      BY <1>1, <1>2, <1>11, SwallowedCommute
  <2>3. ApplyTextChange(k, u) = k
      BY <1>7, <1>8, <1>11, NothingApplied
  <2> HIDE DEF grown, k, h, u
  <2>4. Made(<<grown>>, h, ApplyTextChange(h, grown))
      BY <2>2, MadeOne
  <2> QED BY <1>6, <1>7, <1>9, <2>1, <2>2, <2>3, <2>4 DEF k, h
<1>12. CASE w # << >>
  <2> DEFINE rest == Change(v.from + Len(w), c.to + Len(w), << >>)
             left == Change(c.from, v.from, s)
  <2>1. v.to = v.from /\ c.from < v.from /\ g = Len(w)
      BY <1>1, <1>2, <1>3, <1>12 DEF Growth
  <2>2. at = c.from + Len(s)
      BY <1>1, <2>1 DEF at
  <2>3. Beyond(c, v) = <<rest, left>>
    <3>1. Beyond(c, v) = <<[grown EXCEPT !.from = v.from + Len(w), !.insert = << >>],
                           [c EXCEPT !.to = v.from]>>
        BY <1>10, <1>12 DEF Beyond
    <3>2. [grown EXCEPT !.from = v.from + Len(w), !.insert = << >>] = rest
      <4> DEFINE x == [grown EXCEPT !.from = v.from + Len(w)]
                 t == c.to + Len(w)
      <4>1. grown = Change(c.from, t, s)
          BY <2>1
      <4>2. x = Change(v.from + Len(w), t, s)
          BY <4>1, ChangeSets
      <4> HIDE DEF x
      <4>3. [x EXCEPT !.insert = << >>] = rest
        <5> DEFINE none == << >>
                   f == v.from + Len(w)
        <5>1. x = Change(f, t, s)
            BY <4>2
        <5> HIDE DEF none, f, t, s
        <5>2. [x EXCEPT !.insert = none] = Change(f, t, none)
            BY <5>1 DEF Change
        <5> QED BY <5>2 DEF none, f, t
      <4> QED BY <4>3 DEF x
    <3>3. [c EXCEPT !.to = v.from] = left
        BY <1>1 DEF Change
    <3> QED BY <3>1, <3>2, <3>3
  <2>4. /\ InRange(rest, h) /\ InRange(left, ApplyTextChange(h, rest))
        /\ ApplyTextChange(ApplyTextChange(h, rest), left) = ApplyTextChange(k, u)
    <3>1. c.from <= v.from /\ v.from = v.to /\ v.to <= c.to
        BY <1>1, <1>2, <2>1
    <3>2. u = Change(c.from + Len(s), c.from + Len(s), w)
        BY <2>2
    <3> HIDE DEF u
    <3> QED BY <1>1, <3>1, <3>2, AstrideCommute
  <2> HIDE DEF rest, left, h, k, u
  <2>5. Made(<<rest, left>>, h, ApplyTextChange(ApplyTextChange(h, rest), left))
      BY <2>4, MadeTwo
  <2> QED BY <1>6, <1>7, <1>9, <2>3, <2>4, <2>5 DEF h, k
<1> QED BY <1>11, <1>12

\* Each of the two is made after the other, and the text is the same.
LEMMA CrossedOne ==
    ASSUME NEW v, NEW c, NEW d, TakesBack(v, d), InRange(c, d)
    PROVE  /\ TakesBack(Mapped(v, c), ApplyTextChange(d, c))
           /\ Mapped(v, c).insert = v.insert
           /\ Made(Beyond(c, v), ApplyTextChange(d, v),
                   ApplyTextChange(ApplyTextChange(d, c), Mapped(v, c)))
    BY CrossedApart, CrossedWithin

\* Some numbers up to N have a largest one.
LEMMA MaxIsOne ==
    ASSUME NEW N \in Nat, NEW s \in SUBSET (1..N), s # {}
    PROVE  Max(s) \in s /\ \A y \in s : Max(s) >= y
<1>1. SUFFICES ASSUME \A x \in s : \E y \in s : ~(x >= y) PROVE FALSE
    BY DEF Max
<1> DEFINE U == {n \in 0..N : \E y \in s : y >= n}
<1>2. \A y \in s : y \in 1..N
    OBVIOUS
<1>3. 0 \in U
  <2>1. PICK y \in s : y \in 1..N
      BY <1>2
  <2>2. y >= 0 /\ 0 \in 0..N
      BY <2>1
  <2> QED BY <2>2
<1>4. ASSUME NEW n \in 0..(N - 1), n \in U PROVE n + 1 \in U
  <2>1. PICK x \in s : x >= n
      BY <1>4
  <2>2. PICK y \in s : ~(x >= y)
      BY <1>1
  <2>3. y >= n + 1 /\ n + 1 \in 0..N
      BY <1>2, <2>1, <2>2
  <2> QED BY <2>3
<1>5. N \in U
  <2> HIDE DEF U
  <2>1. 0..N \subseteq U
      BY <1>3, <1>4, BoundedInduction
  <2> QED BY <2>1
<1>6. PICK x \in s : x >= N
    BY <1>5
<1>7. PICK y \in s : ~(x >= y)
    BY <1>1
<1> QED BY <1>2, <1>6, <1>7

---------------------------------------------------------------------------
(* An inverse and changes that are made one after the other.               *)

\* The fold, as the function its definition describes.
CrossRun(v, cs, after) ==
    /\ after[0] = [inverse |-> v, changes |-> << >>]
    /\ \A k \in 1..Len(cs) : after[k] = Cross(after[k - 1], cs[k])
    /\ Crossed(v, cs) = after[Len(cs)]

\* There is such a function.
LEMMA CrossUnfold ==
    ASSUME NEW v, NEW cs, IsSeq(cs)
    PROVE  \E after : CrossRun(v, cs, after)
<1> DEFINE n == Len(cs)
           base == [inverse |-> v, changes |-> << >>]
           Step(t, k) == Cross(t, cs[k])
           Loop(f, D) == f = [s \in SUBSET D |->
                                IF s = {} THEN base ELSE Step(f[s \ {Max(s)}], Max(s))]
           S == {m \in 0..n : \E f : Loop(f, 1..m)}
           iter == CHOOSE f : Loop(f, 1..n)
<1>0. n \in Nat /\ DOMAIN cs = 1..n
    BY IsSeqLen
<1>1. Crossed(v, cs) = iter[1..n]
    BY <1>0 DEF Crossed, FoldLeft, MapThenFoldSet
<1>3. \A t, k : Step(t, k) = Cross(t, cs[k])
    OBVIOUS
<1> HIDE DEF Step, n, base
<1>4. \A s \in SUBSET (1..n) : s # {} => Max(s) \in s /\ \A y \in s : Max(s) >= y
    BY <1>0, MaxIsOne
<1>5. 0 \in S
  <2>1. Loop([s \in SUBSET (1..0) |-> base], 1..0)
      OBVIOUS
  <2> HIDE DEF Loop
  <2> QED BY <1>0, <2>1
<1>6. ASSUME NEW m \in 0..(n - 1), m \in S PROVE m + 1 \in S
  <2>1. PICK f : Loop(f, 1..m)
      BY <1>6
  <2> DEFINE D == 1..(m + 1)
             g == [s \in SUBSET D |-> IF s = {} THEN base ELSE Step(f[s \ {Max(s)}], Max(s))]
  <2>2. ASSUME NEW s \in SUBSET D, s # {}
        PROVE  /\ s \ {Max(s)} \in SUBSET (1..m)
               /\ s \ {Max(s)} \in SUBSET D
    <3>1. Max(s) \in s /\ \A y \in s : Max(s) >= y
      <4>1. s \in SUBSET (1..n)
          BY <1>0, <2>2
      <4> QED BY <1>4, <2>2, <4>1
    <3>2. ASSUME NEW y \in s \ {Max(s)} PROVE y \in 1..m
      <4> DEFINE x == Max(s)
      <4>1. y \in 1..(m + 1) /\ x \in 1..(m + 1) /\ y # x /\ x >= y
          BY <3>1
      <4> HIDE DEF x
      <4> QED BY <4>1
    <3> QED BY <3>2
  <2>3. ASSUME NEW s \in SUBSET (1..m) PROVE g[s] = f[s]
    <3>1. s \in SUBSET D
        OBVIOUS
    <3>2. g[s] = IF s = {} THEN base ELSE Step(f[s \ {Max(s)}], Max(s))
        BY <3>1
    <3>3. f[s] = IF s = {} THEN base ELSE Step(f[s \ {Max(s)}], Max(s))
        BY <2>1
    <3> QED BY <3>2, <3>3
  <2>4. \A s \in SUBSET D : s # {} => g[s \ {Max(s)}] = f[s \ {Max(s)}]
      BY <2>2, <2>3
  <2>5. g = [s \in SUBSET D |-> IF s = {} THEN base ELSE Step(g[s \ {Max(s)}], Max(s))]
      BY <2>4
  <2>6. Loop(g, D)
    <3> HIDE DEF g
    <3> QED BY <2>5
  <2>7. m + 1 \in 0..n
      BY <1>0
  <2> HIDE DEF Loop, g
  <2> QED BY <2>6, <2>7
<1>7. n \in S
  <2> HIDE DEF S
  <2>1. 0..n \subseteq S
      BY <1>5, <1>6, <1>0, BoundedInduction
  <2> QED BY <1>0, <2>1
<1>8. Loop(iter, 1..n)
    BY <1>7
<1> HIDE DEF iter
<1>9. iter[1..0] = base
  <2>1. 1..0 = {} /\ 1..0 \in SUBSET (1..n)
      OBVIOUS
  <2> QED BY <1>8, <2>1
<1>10. ASSUME NEW k \in 1..n PROVE iter[1..k] = Step(iter[1..(k - 1)], k)
  <2>1. k \in 1..k /\ 1..k \in SUBSET (1..n) /\ (1..k) \ {k} = 1..(k - 1)
      BY <1>0
  <2>2. Max(1..k) \in 1..k /\ Max(1..k) >= k
      BY <1>4, <2>1
  <2>3. Max(1..k) = k
      BY <2>2
  <2>4. iter[1..k] = Step(iter[(1..k) \ {Max(1..k)}], Max(1..k))
      BY <1>8, <2>1
  <2> QED BY <2>1, <2>3, <2>4
<1> DEFINE after == [k \in 0..n |-> iter[1..k]]
<1>11. ASSUME NEW k \in 1..n PROVE after[k] = Cross(after[k - 1], cs[k])
  <2>1. k - 1 \in 0..n /\ k \in 0..n
      BY <1>0
  <2>2. after[k] = iter[1..k] /\ after[k - 1] = iter[1..(k - 1)]
      BY <2>1
  <2> QED BY <1>3, <1>10, <2>2
<1>12. after[0] = base /\ Crossed(v, cs) = after[n]
    BY <1>0, <1>1, <1>9
<1> HIDE DEF after
<1>13. CrossRun(v, cs, after)
    BY <1>11, <1>12 DEF CrossRun, n, base
<1> QED BY <1>13


\* One inverse after all of them, and all of them after it: the same text.
LEMMA CrossedAll ==
    ASSUME NEW v, NEW cs, NEW d, NEW e, TakesBack(v, d), Made(cs, d, e)
    PROVE  /\ TakesBack(Crossed(v, cs).inverse, e)
           /\ Crossed(v, cs).inverse.insert = v.insert
           /\ Made(Crossed(v, cs).changes, ApplyTextChange(d, v),
                   ApplyTextChange(e, Crossed(v, cs).inverse))
<1>1. PICK docs : MadeBy(cs, d, e, docs)
    BY DEF Made
<1>2. IsSeq(cs)
    BY DEF Made
<1>3. PICK after : CrossRun(v, cs, after)
    BY <1>2, CrossUnfold
<1> DEFINE n == Len(cs)
           h == ApplyTextChange(d, v)
           Holds(k) == /\ TakesBack(after[k].inverse, docs[k])
                       /\ after[k].inverse.insert = v.insert
                       /\ Made(after[k].changes, h, ApplyTextChange(docs[k], after[k].inverse))
           S == {k \in 0..n : Holds(k)}
<1>4. n \in Nat
    BY <1>2, IsSeqLen
<1>5. /\ docs[0] = d /\ docs[n] = e
      /\ \A k \in 1..n : InRange(cs[k], docs[k - 1]) /\ docs[k] = ApplyTextChange(docs[k - 1], cs[k])
    BY <1>1 DEF MadeBy
<1>6. /\ after[0] = [inverse |-> v, changes |-> << >>]
      /\ \A k \in 1..n : after[k] = Cross(after[k - 1], cs[k])
      /\ Crossed(v, cs) = after[n]
    BY <1>3 DEF CrossRun
<1> HIDE DEF n, h
<1>7. Holds(0)
  <2>1. after[0].inverse = v /\ after[0].changes = << >>
      BY <1>6
  <2>2. Made(<< >>, h, h)
      BY MadeNone
  <2> QED BY <1>5, <2>1, <2>2 DEF h
<1>8. ASSUME NEW k \in 0..(n - 1), Holds(k) PROVE Holds(k + 1)
  <2> DEFINE c == cs[k + 1]
             u == after[k].inverse
             p == after[k].changes
             f == docs[k]
             x == Mapped(u, c)
             y == Beyond(c, u)
  <2>1. k + 1 \in 1..n /\ (k + 1) - 1 = k
      BY <1>4
  <2>2. InRange(c, f) /\ docs[k + 1] = ApplyTextChange(f, c)
      BY <1>5, <2>1
  <2>3. after[k + 1] = Cross(after[k], c)
      BY <1>6, <2>1
  <2>4. after[k + 1].inverse = x /\ after[k + 1].changes = Cat(p, y)
    <3> DEFINE a == Mapped(u, c)
               b == p \o Beyond(c, u)
               r == after[k + 1]
    <3>1. r = [inverse |-> a, changes |-> b]
        BY <2>3 DEF Cross
    <3> HIDE DEF a, b, r
    <3>2. r.inverse = a /\ r.changes = b
        BY <3>1
    <3> QED BY <3>2 DEF a, b, r, Cat
  <2>5. TakesBack(u, f) /\ u.insert = v.insert /\ Made(p, h, ApplyTextChange(f, u))
      BY <1>8
  <2> HIDE DEF c, u, p, f
  <2>6. /\ TakesBack(x, ApplyTextChange(f, c)) /\ x.insert = u.insert
        /\ Made(y, ApplyTextChange(f, u), ApplyTextChange(ApplyTextChange(f, c), x))
      BY <2>2, <2>5, CrossedOne
  <2> HIDE DEF x, y
  <2>7. Made(Cat(p, y), h, ApplyTextChange(ApplyTextChange(f, c), x))
      BY <2>5, <2>6, MadeBoth
  <2> QED BY <2>2, <2>4, <2>5, <2>6, <2>7
<1>9. n \in S
  <2>1. 0 \in S
      BY <1>4, <1>7
  <2>2. \A k \in 0..(n - 1) : k \in S => k + 1 \in S
      BY <1>4, <1>8
  <2> HIDE DEF S
  <2>3. 0..n \subseteq S
      BY <1>4, <2>1, <2>2, BoundedInduction
  <2> QED BY <1>4, <2>3
<1> QED BY <1>5, <1>6, <1>9 DEF h

---------------------------------------------------------------------------
(* Folds of one element.                                                   *)

LEMMA OneIndex ==
    /\ Max({1}) = 1
    /\ \A s \in SUBSET {1} : s = {} \/ s = {1}
    /\ {1} \ {1} = {}
<1>1. {1} \in SUBSET (1..1) /\ {1} # {}
    OBVIOUS
<1>2. Max({1}) \in {1}
    BY <1>1, MaxIsOne
<1> QED BY <1>2

LEMMA OneInSeq ==
    ASSUME NEW x
    PROVE  DOMAIN <<x>> = {1} /\ <<x>>[1] = x /\ Len(<<x>>) = 1
<1> DEFINE s == <<x>>
<1>1. IsSeq(s) /\ Len(s) = 1 /\ s[1] = x
    BY IsSeqOne
<1> HIDE DEF s
<1>2. DOMAIN s = 1..1
    BY <1>1, IsSeqLen
<1> QED BY <1>1, <1>2 DEF s

LEMMA ReverseOne ==
    ASSUME NEW x
    PROVE  Reverse(<<x>>) = <<x>>
<1> DEFINE s == <<x>>
           r == Reverse(s)
<1>1. IsSeq(s) /\ Len(s) = 1 /\ s[1] = x
    BY IsSeqOne
<1> HIDE DEF s
<1>2. r = [i \in 1..1 |-> s[(1 - i) + 1]]
    BY <1>1 DEF Reverse
<1>3. IsSeq(r) /\ Len(r) = 1 /\ r[1] = s[1]
  <2>1. r \in Seq({x}) /\ Len(r) = 1 /\ r[1] = s[1]
      BY <1>1, <1>2
  <2> QED BY <2>1, IsSeqIntro
<1> HIDE DEF r
<1>4. r = s
    BY <1>1, <1>3, IsSeqEqual
<1> QED BY <1>4 DEF r, s

\* What a change is below one event of the history.
Deeper(event, changes) ==
    FoldLeft(LAMBDA cs, inverse : Crossed(inverse, cs).changes, changes, Reverse(event))

LEMMA DeeperOne ==
    ASSUME NEW v, NEW cs
    PROVE  Deeper(<<v>>, cs) = Crossed(v, cs).changes
<1> DEFINE q == Reverse(<<v>>)
           D == DOMAIN q
           Step(t, k) == Crossed(q[k], t).changes
           Loop(f) == f = [s \in SUBSET D |->
                              IF s = {} THEN cs ELSE Step(f[s \ {Max(s)}], Max(s))]
           iter == CHOOSE f : Loop(f)
           g == [s \in SUBSET D |-> IF s = {} THEN cs ELSE Step(cs, 1)]
<1>1. D = {1} /\ q[1] = v
    BY OneInSeq, ReverseOne
<1>2. Deeper(<<v>>, cs) = iter[D]
    BY DEF Deeper, FoldLeft, MapThenFoldSet
<1>3. Step(cs, 1) = Crossed(v, cs).changes
    BY <1>1
<1> HIDE DEF Step, q, D
<1>4. g[{}] = cs
    OBVIOUS
<1>5. Loop(g)
  <2>1. \A s \in SUBSET D : s # {} => Max(s) = 1 /\ s \ {Max(s)} = {}
      BY <1>1, OneIndex
  <2> HIDE DEF g
  <2>2. \A s \in SUBSET D : s # {} => Step(g[s \ {Max(s)}], Max(s)) = Step(cs, 1)
      BY <1>4, <2>1
  <2> QED BY <2>2 DEF g
<1> HIDE DEF g, Loop
<1>6. Loop(iter)
    BY <1>5
<1> HIDE DEF iter
<1>7. iter[{}] = cs
    BY <1>6 DEF Loop
<1>8. iter[D] = Step(iter[{}], 1)
  <2>1. iter[D] = Step(iter[D \ {Max(D)}], Max(D))
      BY <1>1, <1>6 DEF Loop
  <2> QED BY <1>1, <2>1, OneIndex
<1> QED BY <1>2, <1>3, <1>7, <1>8

---------------------------------------------------------------------------
(* The history of the source view.                                         *)

\* The recursion of AddMapping, as the function its definition describes.
BelowRun(undo, change, below) ==
    /\ below[Len(undo)] = <<change>>
    /\ \A i \in 1..Len(undo) : below[i - 1] = Deeper(undo[i], below[i])
    /\ AddMapping(undo, change) =
          [i \in DOMAIN undo |-> [k \in DOMAIN undo[i] |-> Crossed(undo[i][k], below[i]).inverse]]

LEMMA BelowUnfold ==
    ASSUME NEW undo, NEW c, IsSeq(undo)
    PROVE  \E below : BelowRun(undo, c, below)
<1> DEFINE N == Len(undo)
           first == <<c>>
           Step(t, i) == Deeper(undo[i], t)
           Loop(f, m) == f = [i \in m..N |-> IF i = N THEN first ELSE Step(f[i + 1], i + 1)]
           S == {k \in 0..N : \E f : Loop(f, N - k)}
           below == CHOOSE f : Loop(f, 0)
<1>1. N \in Nat
    BY IsSeqLen
<1>2. AddMapping(undo, c) =
          [i \in DOMAIN undo |-> [k \in DOMAIN undo[i] |-> Crossed(undo[i][k], below[i]).inverse]]
    BY DEF AddMapping, Deeper
<1>3. \A t, i : Step(t, i) = Deeper(undo[i], t)
    OBVIOUS
<1> HIDE DEF N, Step, first
<1>4. 0 \in S
  <2> DEFINE g == [i \in N..N |-> first]
  <2>1. Loop(g, N)
      BY <1>1
  <2> HIDE DEF Loop, g
  <2>2. N - 0 = N /\ 0 \in 0..N
      BY <1>1
  <2> QED BY <2>1, <2>2
<1>5. ASSUME NEW k \in 0..(N - 1), k \in S PROVE k + 1 \in S
  <2> DEFINE m == N - k
  <2>1. PICK f : Loop(f, m)
      BY <1>5
  <2>2. m \in 1..N /\ N - (k + 1) = m - 1 /\ k + 1 \in 0..N
      BY <1>1
  <2> HIDE DEF m
  <2> DEFINE g == [i \in (m - 1)..N |-> IF i = m - 1 THEN Step(f[m], m) ELSE f[i]]
  <2>3. \A i \in m..N : g[i] = f[i]
    <3>1. \A i \in m..N : i \in (m - 1)..N /\ i # m - 1
        BY <1>1, <2>2
    <3> QED BY <3>1
  <2>4. g[m - 1] = Step(f[m], m)
      BY <1>1, <2>2
  <2>5. ASSUME NEW i \in (m - 1)..N
        PROVE  g[i] = IF i = N THEN first ELSE Step(g[i + 1], i + 1)
    <3> HIDE DEF g
    <3>1. CASE i = m - 1
      <4>1. i # N /\ i + 1 = m /\ m \in m..N
          BY <1>1, <2>2, <3>1
      <4> QED BY <2>3, <2>4, <3>1, <4>1
    <3>2. CASE i # m - 1
      <4>1. i \in m..N /\ (i # N => i + 1 \in m..N)
          BY <1>1, <2>2, <3>2
      <4>2. f[i] = IF i = N THEN first ELSE Step(f[i + 1], i + 1)
          BY <2>1, <4>1
      <4> QED BY <2>3, <4>1, <4>2
    <3> QED BY <3>1, <3>2
  <2>6. Loop(g, m - 1)
    <3>1. g = [i \in (m - 1)..N |-> g[i]]
        OBVIOUS
    <3> HIDE DEF g
    <3> QED BY <2>5, <3>1
  <2> HIDE DEF Loop, g
  <2> QED BY <2>2, <2>6
<1>6. N \in S
  <2> HIDE DEF S
  <2>1. 0..N \subseteq S
      BY <1>1, <1>4, <1>5, BoundedInduction
  <2> QED BY <1>1, <2>1
<1>7. Loop(below, 0)
  <2>1. N - N = 0
      BY <1>1
  <2> HIDE DEF Loop
  <2> QED BY <1>6, <2>1
<1> HIDE DEF below
<1>8. below[N] = first
    BY <1>1, <1>7
<1>9. ASSUME NEW i \in 1..N PROVE below[i - 1] = Step(below[i], i)
  <2>1. i - 1 \in 0..N /\ i - 1 # N /\ (i - 1) + 1 = i
      BY <1>1
  <2> QED BY <1>7, <2>1
<1> QED BY <1>2, <1>3, <1>8, <1>9 DEF BelowRun, N, first

---------------------------------------------------------------------------
(* A transaction of one change, or of none.                                *)

\* What it makes of the document.
LEMMA ChangedOne ==
    ASSUME NEW doc, NEW c
    PROVE  Changed(doc, <<c>>) = ApplyTextChange(doc, c)
<1> DEFINE q == Reverse(<<c>>)
           D == DOMAIN q
           Step(t, k) == ApplyTextChange(t, q[k])
           Loop(f) == f = [s \in SUBSET D |->
                              IF s = {} THEN doc ELSE Step(f[s \ {Max(s)}], Max(s))]
           iter == CHOOSE f : Loop(f)
           g == [s \in SUBSET D |-> IF s = {} THEN doc ELSE Step(doc, 1)]
<1>1. D = {1} /\ q[1] = c
    BY OneInSeq, ReverseOne
<1>2. Changed(doc, <<c>>) = iter[D]
    BY DEF Changed, FoldLeft, MapThenFoldSet
<1>3. Step(doc, 1) = ApplyTextChange(doc, c)
    BY <1>1
<1> HIDE DEF Step, q, D
<1>4. g[{}] = doc
    OBVIOUS
<1>5. Loop(g)
  <2>1. \A s \in SUBSET D : s # {} => Max(s) = 1 /\ s \ {Max(s)} = {}
      BY <1>1, OneIndex
  <2> HIDE DEF g
  <2>2. \A s \in SUBSET D : s # {} => Step(g[s \ {Max(s)}], Max(s)) = Step(doc, 1)
      BY <1>4, <2>1
  <2> QED BY <2>2 DEF g
<1> HIDE DEF g, Loop
<1>6. Loop(iter)
    BY <1>5
<1> HIDE DEF iter
<1>7. iter[{}] = doc
    BY <1>6 DEF Loop
<1>8. iter[D] = Step(iter[{}], 1)
  <2>1. iter[D] = Step(iter[D \ {Max(D)}], Max(D))
      BY <1>1, <1>6 DEF Loop
  <2> QED BY <1>1, <2>1, OneIndex
<1> QED BY <1>2, <1>3, <1>7, <1>8

\* Where it leaves the carets.
LEMMA DrawnOne ==
    ASSUME NEW drawn, NEW c
    PROVE  FoldLeft(MapDecorations, drawn, Reverse(<<c>>)) = MapDecorations(drawn, c)
<1> DEFINE q == Reverse(<<c>>)
           D == DOMAIN q
           Step(t, k) == MapDecorations(t, q[k])
           Loop(f) == f = [s \in SUBSET D |->
                              IF s = {} THEN drawn ELSE Step(f[s \ {Max(s)}], Max(s))]
           iter == CHOOSE f : Loop(f)
           g == [s \in SUBSET D |-> IF s = {} THEN drawn ELSE Step(drawn, 1)]
<1>1. D = {1} /\ q[1] = c
    BY OneInSeq, ReverseOne
<1>2. FoldLeft(MapDecorations, drawn, Reverse(<<c>>)) = iter[D]
    BY DEF FoldLeft, MapThenFoldSet
<1>3. Step(drawn, 1) = MapDecorations(drawn, c)
    BY <1>1
<1> HIDE DEF Step, q, D
<1>4. g[{}] = drawn
    OBVIOUS
<1>5. Loop(g)
  <2>1. \A s \in SUBSET D : s # {} => Max(s) = 1 /\ s \ {Max(s)} = {}
      BY <1>1, OneIndex
  <2> HIDE DEF g
  <2>2. \A s \in SUBSET D : s # {} => Step(g[s \ {Max(s)}], Max(s)) = Step(drawn, 1)
      BY <1>4, <2>1
  <2> QED BY <2>2 DEF g
<1> HIDE DEF g, Loop
<1>6. Loop(iter)
    BY <1>5
<1> HIDE DEF iter
<1>7. iter[{}] = drawn
    BY <1>6 DEF Loop
<1>8. iter[D] = Step(iter[{}], 1)
  <2>1. iter[D] = Step(iter[D \ {Max(D)}], Max(D))
      BY <1>1, <1>6 DEF Loop
  <2> QED BY <1>1, <2>1, OneIndex
<1> QED BY <1>2, <1>3, <1>7, <1>8

\* What it makes of the session's text.
LEMMA EmittedOne ==
    ASSUME NEW c
    PROVE  FoldLeft(ApplyChange, text, <<c>>) = ApplyChange(text, c)
<1> DEFINE q == <<c>>
           D == DOMAIN q
           Step(t, k) == ApplyChange(t, q[k])
           Loop(f) == f = [s \in SUBSET D |->
                              IF s = {} THEN text ELSE Step(f[s \ {Max(s)}], Max(s))]
           iter == CHOOSE f : Loop(f)
           g == [s \in SUBSET D |-> IF s = {} THEN text ELSE Step(text, 1)]
<1>1. D = {1} /\ q[1] = c
    BY OneInSeq
<1>2. FoldLeft(ApplyChange, text, <<c>>) = iter[D]
    BY DEF FoldLeft, MapThenFoldSet
<1>3. Step(text, 1) = ApplyChange(text, c)
    BY <1>1
<1> HIDE DEF Step, q, D
<1>4. g[{}] = text
    OBVIOUS
<1>5. Loop(g)
  <2>1. \A s \in SUBSET D : s # {} => Max(s) = 1 /\ s \ {Max(s)} = {}
      BY <1>1, OneIndex
  <2> HIDE DEF g
  <2>2. \A s \in SUBSET D : s # {} => Step(g[s \ {Max(s)}], Max(s)) = Step(text, 1)
      BY <1>4, <2>1
  <2> QED BY <2>2 DEF g
<1> HIDE DEF g, Loop
<1>6. Loop(iter)
    BY <1>5
<1> HIDE DEF iter
<1>7. iter[{}] = text
    BY <1>6 DEF Loop
<1>8. iter[D] = Step(iter[{}], 1)
  <2>1. iter[D] = Step(iter[D \ {Max(D)}], Max(D))
      BY <1>1, <1>6 DEF Loop
  <2> QED BY <1>1, <2>1, OneIndex
<1> QED BY <1>2, <1>3, <1>7, <1>8

\* What it makes of the view, if it is not this user's.
LEMMA ReconciledOne ==
    ASSUME NEW r, NEW c
    PROVE  FoldLeft(Reconciled, r, <<c>>) = Reconciled(r, c)
<1> DEFINE q == <<c>>
           D == DOMAIN q
           Step(t, k) == Reconciled(t, q[k])
           Loop(f) == f = [s \in SUBSET D |->
                              IF s = {} THEN r ELSE Step(f[s \ {Max(s)}], Max(s))]
           iter == CHOOSE f : Loop(f)
           g == [s \in SUBSET D |-> IF s = {} THEN r ELSE Step(r, 1)]
<1>1. D = {1} /\ q[1] = c
    BY OneInSeq
<1>2. FoldLeft(Reconciled, r, <<c>>) = iter[D]
    BY DEF FoldLeft, MapThenFoldSet
<1>3. Step(r, 1) = Reconciled(r, c)
    BY <1>1
<1> HIDE DEF Step, q, D
<1>4. g[{}] = r
    OBVIOUS
<1>5. Loop(g)
  <2>1. \A s \in SUBSET D : s # {} => Max(s) = 1 /\ s \ {Max(s)} = {}
      BY <1>1, OneIndex
  <2> HIDE DEF g
  <2>2. \A s \in SUBSET D : s # {} => Step(g[s \ {Max(s)}], Max(s)) = Step(r, 1)
      BY <1>4, <2>1
  <2> QED BY <2>2 DEF g
<1> HIDE DEF g, Loop
<1>6. Loop(iter)
    BY <1>5
<1> HIDE DEF iter
<1>7. iter[{}] = r
    BY <1>6 DEF Loop
<1>8. iter[D] = Step(iter[{}], 1)
  <2>1. iter[D] = Step(iter[D \ {Max(D)}], Max(D))
      BY <1>1, <1>6 DEF Loop
  <2> QED BY <1>1, <2>1, OneIndex
<1> QED BY <1>2, <1>3, <1>7, <1>8

\* A fold of nothing.
LEMMA ReconciledNone ==
    ASSUME NEW r
    PROVE  FoldLeft(Reconciled, r, << >>) = r
<1> DEFINE q == << >>
           D == DOMAIN q
           Step(t, k) == Reconciled(t, q[k])
           Loop(f) == f = [s \in SUBSET D |->
                              IF s = {} THEN r ELSE Step(f[s \ {Max(s)}], Max(s))]
           iter == CHOOSE f : Loop(f)
           g == [s \in SUBSET D |-> r]
<1>1. D = {}
    BY IsSeqEmpty
<1>2. FoldLeft(Reconciled, r, << >>) = iter[D]
    BY DEF FoldLeft, MapThenFoldSet
<1> HIDE DEF Step, q, D
<1>3. Loop(g)
    BY <1>1
<1> HIDE DEF Loop
<1>4. Loop(iter)
    BY <1>3
<1> HIDE DEF iter
<1>5. iter[D] = r
    BY <1>1, <1>4 DEF Loop
<1> QED BY <1>2, <1>5

\* What undoes it.
LEMMA UndoingOne ==
    ASSUME NEW doc, NEW c, c.from \in Nat
    PROVE  Undoing(doc, <<c>>) =
              <<Change(c.from, c.from + Len(c.insert), SubSeq(doc, c.from + 1, c.to))>>
<1> DEFINE cs == <<c>>
           At(i) == FoldLeft(LAMBDA p, e : p + Growth(e), cs[i].from, SubSeq(cs, 1, i - 1))
           Takes(i) == [from |-> At(i), to |-> At(i) + Len(cs[i].insert),
                          insert |-> SubSeq(doc, cs[i].from + 1, cs[i].to)]
           wanted == Change(c.from, c.from + Len(c.insert), SubSeq(doc, c.from + 1, c.to))
<1>1. Undoing(doc, cs) = [i \in DOMAIN cs |-> Takes(i)]
    BY DEF Undoing
<1>2. DOMAIN cs = {1} /\ cs[1] = c
    BY OneInSeq
<1>3. At(1) = c.from
  <2> DEFINE q == SubSeq(cs, 1, 1 - 1)
             D == DOMAIN q
             r == cs[1].from
             Step(t, k) == t + Growth(q[k])
             Loop(f) == f = [s \in SUBSET D |->
                                IF s = {} THEN r ELSE Step(f[s \ {Max(s)}], Max(s))]
             iter == CHOOSE f : Loop(f)
             g == [s \in SUBSET D |-> r]
  <2>1. D = {}
    <3> HIDE DEF cs
    <3> QED OBVIOUS
  <2>2. At(1) = iter[D]
      BY DEF FoldLeft, MapThenFoldSet
  <2>0. r = c.from
      BY <1>2
  <2> HIDE DEF Step, q, D, r
  <2>3. Loop(g)
      BY <2>1
  <2> HIDE DEF Loop
  <2>4. Loop(iter)
      BY <2>3
  <2> HIDE DEF iter
  <2>5. iter[D] = r
      BY <2>1, <2>4 DEF Loop
  <2> HIDE DEF At
  <2> QED BY <2>0, <2>2, <2>5
<1> HIDE DEF cs, At
<1>4. Takes(1) = wanted
    BY <1>2, <1>3 DEF Change
<1> HIDE DEF Takes, wanted
<1>5. [i \in DOMAIN cs |-> Takes(i)] = <<wanted>>
  <2> DEFINE w == <<wanted>>
             f == [i \in DOMAIN cs |-> Takes(i)]
  <2>1. IsSeq(w) /\ Len(w) = 1 /\ w[1] = wanted
      BY IsSeqOne
  <2>2. f = [i \in 1..1 |-> Takes(i)]
      BY <1>2
  <2>3. IsSeq(f) /\ Len(f) = 1 /\ f[1] = wanted
    <3>1. f \in Seq({wanted}) /\ Len(f) = 1 /\ f[1] = wanted
      <4> HIDE DEF f
      <4> QED BY <1>4, <2>2
    <3> QED BY <3>1, IsSeqIntro
  <2> HIDE DEF w, f
  <2>4. f = w
      BY <2>1, <2>3, IsSeqEqual
  <2> QED BY <2>4 DEF f, w
<1> QED BY <1>1, <1>5 DEF cs, wanted

---------------------------------------------------------------------------
(* The history leads back, edit by edit, through texts that have been.     *)

UndoChain(undo, doc, docs) ==
    /\ docs[Len(undo)] = doc
    /\ \A i \in 1..Len(undo) :
          /\ undo[i] = <<undo[i][1]>>
          /\ TakesBack(undo[i][1], docs[i])
          /\ undo[i][1].insert \in Seq(AnyLetter)
          /\ docs[i - 1] = ApplyTextChange(docs[i], undo[i][1])

UndoOK(undo, doc) == IsSeq(undo) /\ \E docs : UndoChain(undo, doc, docs)

LEMMA UndoNone ==
    ASSUME NEW doc
    PROVE  UndoOK(<< >>, doc)
<1> DEFINE docs == [k \in {0} |-> doc]
           u == << >>
<1>1. IsSeq(u) /\ Len(u) = 0
    BY IsSeqEmpty
<1>2. docs[0] = doc
    OBVIOUS
<1> HIDE DEF docs, u
<1>3. UndoChain(u, doc, docs)
    BY <1>1, <1>2 DEF UndoChain
<1> QED BY <1>1, <1>3 DEF UndoOK, u

\* An edit of this user's is added.
LEMMA UndoAppend ==
    ASSUME NEW undo, NEW doc, UndoOK(undo, doc),
           NEW new, NEW v, TakesBack(v, new), v.insert \in Seq(AnyLetter),
           ApplyTextChange(new, v) = doc
    PROVE  UndoOK(Append(undo, <<v>>), new)
<1> DEFINE n == Len(undo)
           event == <<v>>
           all == Append(undo, event)
<1>1. PICK docs : UndoChain(undo, doc, docs)
    BY DEF UndoOK
<1>2. IsSeq(undo) /\ n \in Nat
    BY IsSeqLen DEF UndoOK
<1>3. event[1] = v /\ event = <<event[1]>>
    BY IsSeqOne
<1> HIDE DEF event
<1>4. IsSeq(all) /\ Len(all) = n + 1
      /\ \A i \in 1..(n + 1) : all[i] = IF i <= n THEN undo[i] ELSE event
    BY <1>2, IsSeqAppend
<1>5. /\ docs[n] = doc
      /\ \A i \in 1..n :
          /\ undo[i] = <<undo[i][1]>>
          /\ TakesBack(undo[i][1], docs[i])
          /\ undo[i][1].insert \in Seq(AnyLetter)
          /\ docs[i - 1] = ApplyTextChange(docs[i], undo[i][1])
    BY <1>1 DEF UndoChain
<1> HIDE DEF n, all
<1> DEFINE more == [i \in 0..(n + 1) |-> IF i <= n THEN docs[i] ELSE new]
<1>6. more[n + 1] = new /\ \A i \in 0..n : more[i] = docs[i]
  <2>1. n + 1 \in 0..(n + 1) /\ ~(n + 1 <= n) /\ \A i \in 0..n : i \in 0..(n + 1) /\ i <= n
      BY <1>2
  <2> QED BY <2>1
<1> HIDE DEF more
<1>7. ASSUME NEW i \in 1..(n + 1)
      PROVE  /\ all[i] = <<all[i][1]>>
             /\ TakesBack(all[i][1], more[i])
             /\ all[i][1].insert \in Seq(AnyLetter)
             /\ more[i - 1] = ApplyTextChange(more[i], all[i][1])
  <2>1. CASE i <= n
    <3>1. i \in 1..n /\ i \in 0..n /\ i - 1 \in 0..n
        BY <1>2, <2>1
    <3>2. all[i] = undo[i] /\ more[i] = docs[i] /\ more[i - 1] = docs[i - 1]
        BY <1>4, <1>6, <2>1, <3>1
    <3> QED BY <1>5, <3>1, <3>2
  <2>2. CASE ~(i <= n)
    <3>1. i = n + 1 /\ i - 1 = n /\ n \in 0..n
        BY <1>2, <2>2
    <3>2. all[i] = event /\ more[i] = new /\ more[i - 1] = doc
        BY <1>4, <1>5, <1>6, <2>2, <3>1
    <3> QED BY <1>3, <3>2
  <2> QED BY <2>1, <2>2
<1>8. UndoChain(all, new, more)
    BY <1>4, <1>6, <1>7 DEF UndoChain
<1> QED BY <1>4, <1>8 DEF UndoOK, all, event

\* The last edit is taken back.
LEMMA UndoFront ==
    ASSUME NEW undo, NEW doc, UndoOK(undo, doc), undo # << >>
    PROVE  LET v == Last(undo)[1]
           IN  /\ Last(undo) = <<v>> /\ TakesBack(v, doc) /\ v.insert \in Seq(AnyLetter)
               /\ UndoOK(Front(undo), ApplyTextChange(doc, v))
               /\ Len(Front(undo)) < Len(undo)
<1> DEFINE n == Len(undo)
           v == Last(undo)[1]
           front == Front(undo)
<1>1. PICK docs : UndoChain(undo, doc, docs)
    BY DEF UndoOK
<1>2. IsSeq(undo) /\ n \in Nat
    BY IsSeqLen DEF UndoOK
<1>3. n # 0
    BY <1>2, IsSeqNone
<1>4. /\ docs[n] = doc
      /\ \A i \in 1..n :
          /\ undo[i] = <<undo[i][1]>>
          /\ TakesBack(undo[i][1], docs[i])
          /\ undo[i][1].insert \in Seq(AnyLetter)
          /\ docs[i - 1] = ApplyTextChange(docs[i], undo[i][1])
    BY <1>1 DEF UndoChain
<1>5. Last(undo) = undo[n] /\ front = SubSeq(undo, 1, n - 1)
    BY DEF Last, Front
<1>6. IsSeq(front) /\ Len(front) = n - 1 /\ \A i \in 1..(n - 1) : front[i] = undo[i]
  <2>1. n - 1 \in 0..Len(undo) /\ n - 1 \in Nat
      BY <1>2, <1>3
  <2>2. IsSeq(front) /\ Len(front) = IF 1 <= n - 1 THEN n - 1 - 1 + 1 ELSE 0
    <3> DEFINE m == n - 1
    <3>1. m \in 0..Len(undo)
        BY <2>1
    <3> HIDE DEF m
    <3>2. IsSeq(SubSeq(undo, 1, m)) /\ Len(SubSeq(undo, 1, m)) = IF 1 <= m THEN m - 1 + 1 ELSE 0
        BY <1>2, <3>1, IsSeqSubSeq
    <3> QED BY <1>5, <3>2 DEF m
  <2>3. \A i \in 1..(n - 1) : SubSeq(undo, 1, n - 1)[i] = undo[i]
    <3>1. \A i \in 1..(n - 1) : 1 + i - 1 = i
        BY <1>2
    <3> QED BY <2>1, <3>1
  <2>4. (IF 1 <= n - 1 THEN n - 1 - 1 + 1 ELSE 0) = n - 1
    <3>1. n \in Nat /\ n # 0
        BY <1>2, <1>3
    <3> HIDE DEF n
    <3> QED BY <3>1
  <2>5. Len(front) = n - 1
      BY <2>2, <2>4
  <2>6. \A i \in 1..(n - 1) : front[i] = undo[i]
      BY <1>5, <2>3
  <2> HIDE DEF n, front
  <2> QED BY <2>2, <2>5, <2>6
<1> HIDE DEF n, front
<1>7. UndoChain(front, docs[n - 1], docs)
  <2>1. \A i \in 1..(n - 1) : i \in 1..n
      BY <1>2
  <2> QED BY <1>4, <1>6, <2>1 DEF UndoChain
<1>8. n \in 1..n
    BY <1>2, <1>3
<1>9. Last(undo) = <<v>> /\ TakesBack(v, doc) /\ v.insert \in Seq(AnyLetter)
      /\ docs[n - 1] = ApplyTextChange(doc, v)
    BY <1>4, <1>5, <1>8
<1>10. Len(front) < n
    BY <1>2, <1>3, <1>6
<1> QED BY <1>6, <1>7, <1>9, <1>10 DEF UndoOK, n, front

\* Somebody else's change: the history leads back through the texts that would
\* have been, had it been made before all of them.
LEMMA UndoMapped ==
    ASSUME NEW undo, NEW doc, UndoOK(undo, doc), NEW c, InRange(c, doc)
    PROVE  /\ UndoOK(AddMapping(undo, c), ApplyTextChange(doc, c))
           /\ Len(AddMapping(undo, c)) = Len(undo)
<1> DEFINE n == Len(undo)
           first == <<c>>
           after == AddMapping(undo, c)
<1>1. PICK docs : UndoChain(undo, doc, docs)
    BY DEF UndoOK
<1>2. IsSeq(undo) /\ n \in Nat /\ DOMAIN undo = 1..n
    BY IsSeqLen DEF UndoOK
<1>3. PICK below : BelowRun(undo, c, below)
    BY <1>2, BelowUnfold
<1>4. /\ docs[n] = doc
      /\ \A i \in 1..n :
          /\ undo[i] = <<undo[i][1]>>
          /\ TakesBack(undo[i][1], docs[i])
          /\ undo[i][1].insert \in Seq(AnyLetter)
          /\ docs[i - 1] = ApplyTextChange(docs[i], undo[i][1])
    BY <1>1 DEF UndoChain
<1>5. /\ below[n] = first
      /\ \A i \in 1..n : below[i - 1] = Deeper(undo[i], below[i])
      /\ after = [i \in 1..n |-> [k \in DOMAIN undo[i] |-> Crossed(undo[i][k], below[i]).inverse]]
    BY <1>2, <1>3 DEF BelowRun
<1> DEFINE V(i) == undo[i][1]
           W(i) == Crossed(V(i), below[i]).inverse
<1>6. ASSUME NEW i \in 1..n
      PROVE  /\ below[i - 1] = Crossed(V(i), below[i]).changes
             /\ after[i] = <<W(i)>>
  <2> DEFINE v == V(i)
             b == below[i]
             event == undo[i]
  <2>1. event = <<v>>
      BY <1>4
  <2>2. Deeper(<<v>>, b) = Crossed(v, b).changes
      BY DeeperOne
  <2>3. below[i - 1] = Deeper(event, b)
      BY <1>5
  <2>4. after[i] = [k \in DOMAIN event |-> Crossed(event[k], b).inverse]
      BY <1>5
  <2>5. DOMAIN event = {1} /\ event[1] = v
      BY <2>1, OneInSeq
  <2>6. after[i] = <<W(i)>>
    <3> DEFINE w == W(i)
               f == [k \in DOMAIN event |-> Crossed(event[k], b).inverse]
               s == <<w>>
    <3>1. IsSeq(s) /\ Len(s) = 1 /\ s[1] = w
        BY IsSeqOne
    <3>2. f = [k \in 1..1 |-> Crossed(event[k], b).inverse] /\ f[1] = w
        BY <2>5
    <3> HIDE DEF w, s
    <3>3. f \in Seq({w}) /\ Len(f) = 1
      <4>1. \A k \in 1..1 : f[k] = w
          BY <3>2
      <4> HIDE DEF f
      <4>2. DOMAIN f = 1..1 /\ f = [k \in 1..1 |-> w]
          BY <3>2, <4>1
      <4> QED BY <4>2
    <3>4. IsSeq(f)
        BY <3>3, IsSeqIntro
    <3> HIDE DEF f
    <3>5. f = s
        BY <3>1, <3>2, <3>3, <3>4, IsSeqEqual
    <3> QED BY <2>4, <3>5 DEF f, s, w
  <2> HIDE DEF v, b, event
  <2>7. below[i - 1] = Crossed(v, b).changes
      BY <2>1, <2>2, <2>3
  <2> QED BY <2>6, <2>7 DEF v, b
<1> HIDE DEF n, first, after
<1> DEFINE Good(new, i) == Made(below[i], docs[i], new[i])
           Linked(new, i) ==
              /\ after[i] = <<after[i][1]>>
              /\ TakesBack(after[i][1], new[i])
              /\ after[i][1].insert \in Seq(AnyLetter)
              /\ new[i - 1] = ApplyTextChange(new[i], after[i][1])
           From(new, m) ==
              /\ new[n] = ApplyTextChange(doc, c)
              /\ Good(new, m)
              /\ \A i \in (m + 1)..n : Linked(new, i)
           S == {k \in 0..n : \E new : From(new, n - k)}
<1>7. 0 \in S
  <2> DEFINE new == [i \in {n} |-> ApplyTextChange(doc, c)]
  <2>1. new[n] = ApplyTextChange(doc, c)
      OBVIOUS
  <2>2. Made(first, doc, ApplyTextChange(doc, c))
      BY MadeOne DEF first
  <2> HIDE DEF new
  <2>3. Good(new, n)
      BY <1>4, <1>5, <2>1, <2>2
  <2>4. \A i \in (n + 1)..n : Linked(new, i)
      BY <1>2
  <2> HIDE DEF Good, Linked
  <2>5. From(new, n)
      BY <2>1, <2>3, <2>4
  <2>6. n - 0 = n /\ 0 \in 0..n
      BY <1>2
  <2> HIDE DEF From
  <2> QED BY <2>5, <2>6
<1>8. ASSUME NEW k \in 0..(n - 1), k \in S PROVE k + 1 \in S
  <2> DEFINE m == n - k
  <2>1. PICK new : From(new, m)
      BY <1>8
  <2>2. m \in 1..n /\ n - (k + 1) = m - 1 /\ k + 1 \in 0..n
      BY <1>2
  <2> HIDE DEF m
  <2> DEFINE v == V(m)
             w == W(m)
             b == below[m]
             d == docs[m]
             e == new[m]
             more == [i \in (m - 1)..n |-> IF i = m - 1 THEN ApplyTextChange(e, w) ELSE new[i]]
  <2>3. TakesBack(v, d) /\ v.insert \in Seq(AnyLetter) /\ docs[m - 1] = ApplyTextChange(d, v)
      BY <1>4, <2>2
  <2>4. Made(b, d, e)
      BY <2>1
  <2>5. below[m - 1] = Crossed(v, b).changes /\ after[m] = <<w>> /\ w = Crossed(v, b).inverse
      BY <1>6, <2>2
  <2> HIDE DEF v, w, b, d, V, W
  <2>6. /\ TakesBack(w, e) /\ w.insert = v.insert
        /\ Made(Crossed(v, b).changes, ApplyTextChange(d, v), ApplyTextChange(e, w))
      BY <2>3, <2>4, <2>5, CrossedAll
  <2>7. more[m - 1] = ApplyTextChange(e, w) /\ \A i \in m..n : more[i] = new[i]
    <3>1. m - 1 \in (m - 1)..n /\ \A i \in m..n : i \in (m - 1)..n /\ i # m - 1
        BY <1>2, <2>2
    <3> QED BY <3>1
  <2> HIDE DEF more
  <2>8. more[n] = ApplyTextChange(doc, c)
    <3>1. n \in m..n
        BY <1>2, <2>2
    <3> QED BY <2>1, <2>7, <3>1
  <2>9. Good(more, m - 1)
      BY <2>3, <2>5, <2>6, <2>7
  <2>10. ASSUME NEW i \in ((m - 1) + 1)..n PROVE Linked(more, i)
    <3>1. i \in m..n
        BY <1>2, <2>2
    <3>2. CASE i = m
      <4>1. after[m] = <<after[m][1]>> /\ after[m][1] = w
          BY <2>5, IsSeqOne
      <4>2. more[m] = e
        <5>1. m \in m..n
            BY <1>2, <2>2
        <5> QED BY <2>7, <5>1
      <4> HIDE DEF e
      <4> QED BY <2>3, <2>6, <2>7, <3>2, <4>1, <4>2
    <3>3. CASE i # m
      <4>1. i \in (m + 1)..n /\ i - 1 \in m..n
          BY <1>2, <2>2, <3>1, <3>3
      <4>2. more[i] = new[i] /\ more[i - 1] = new[i - 1]
          BY <2>7, <3>1, <4>1
      <4>3. Linked(new, i)
          BY <2>1, <4>1
      <4> QED BY <4>2, <4>3
    <3> QED BY <3>2, <3>3
  <2> HIDE DEF Good, Linked
  <2>11. From(more, m - 1)
      BY <2>8, <2>9, <2>10
  <2> HIDE DEF From
  <2> QED BY <2>2, <2>11
<1>9. n \in S
  <2> HIDE DEF S
  <2>1. 0..n \subseteq S
      BY <1>2, <1>7, <1>8, BoundedInduction
  <2> QED BY <1>2, <2>1
<1>10. PICK new : From(new, 0)
  <2>1. n - n = 0
      BY <1>2
  <2> HIDE DEF From
  <2> QED BY <1>9, <2>1
<1>11. IsSeq(after) /\ Len(after) = n
  <2> DEFINE A == {after[i] : i \in 1..n}
  <2>1. DOMAIN after = 1..n /\ after = [i \in 1..n |-> after[i]]
      BY <1>5
  <2>2. after \in Seq(A) /\ Len(after) = n
    <3>1. \A i \in 1..n : after[i] \in A
        OBVIOUS
    <3> HIDE DEF A
    <3> QED BY <1>2, <2>1, <3>1
  <2> HIDE DEF A
  <2> QED BY <2>2, IsSeqIntro
<1>12. \A i \in 1..n : Linked(new, i)
  <2>1. \A i \in 1..n : i \in (0 + 1)..n
      BY <1>2
  <2> HIDE DEF Linked, Good
  <2> QED BY <1>10, <2>1
<1>13. UndoChain(after, ApplyTextChange(doc, c), new)
  <2> HIDE DEF V, W
  <2> QED BY <1>10, <1>11, <1>12 DEF UndoChain
<1> QED BY <1>11, <1>13 DEF UndoOK, n, after

---------------------------------------------------------------------------
(* Offsets that are clamped, and those that a change moves.                *)

LEMMA MinOf ==
    ASSUME NEW a \in Nat, NEW b \in Nat
    PROVE  /\ Min({a, b}) \in 0..b /\ Min({a, b}) <= a
           /\ a <= b => Min({a, b}) = a
           /\ Min({a, b}) = a \/ Min({a, b}) = b
<1>1. \E x \in {a, b} : \A y \in {a, b} : x <= y
    OBVIOUS
<1>2. Min({a, b}) \in {a, b} /\ \A y \in {a, b} : Min({a, b}) <= y
    BY <1>1 DEF Min
<1> DEFINE m == Min({a, b})
<1>3. (m = a \/ m = b) /\ m <= a /\ m <= b
    BY <1>2
<1> HIDE DEF m
<1>4. m \in 0..b /\ (a <= b => m = a)
    BY <1>3
<1> QED BY <1>3, <1>4 DEF m

\* useCollabDocument's applyChange clamps a change to the text; it leaves one
\* alone that lies within it.
LEMMA ClampOK ==
    ASSUME NEW c, IsChange(c), NEW d, IsSeq(d)
    PROVE  /\ \E k : InRange(k, d) /\ k.insert = c.insert /\ ApplyChange(d, c) = ApplyTextChange(d, k)
           /\ c.to <= Len(d) => ApplyChange(d, c) = ApplyTextChange(d, c)
<1> DEFINE L == Len(d)
           f == Min({c.from, L})
           t == Min({c.to, L})
           k == Change(f, t, c.insert)
<1>1. /\ c = Change(c.from, c.to, c.insert)
      /\ c.from \in Nat /\ c.to \in Nat /\ c.from <= c.to /\ IsSeq(c.insert)
    BY DEF IsChange
<1>2. L \in Nat
    BY IsSeqLen
<1>3. /\ f \in 0..L /\ f <= c.from /\ (c.from <= L => f = c.from) /\ (f = c.from \/ f = L)
      /\ t \in 0..L /\ t <= c.to /\ (c.to <= L => t = c.to) /\ (t = c.to \/ t = L)
    BY <1>1, <1>2, MinOf
<1>4. f <= t
    BY <1>1, <1>2, <1>3
<1>5. ApplyChange(d, c) = ApplyTextChange(d, k)
  <2>1. [c EXCEPT !.from = Min({c.from, Len(d)}), !.to = Min({c.to, Len(d)})] = k
    <3> HIDE DEF f, t
    <3> DEFINE x == [c EXCEPT !.from = f]
               w == c.insert
               from == c.from
               to == c.to
    <3>1. c = Change(from, to, w)
        BY <1>1
    <3> HIDE DEF from, to, w
    <3>2. x = Change(f, to, w)
        BY <3>1, ChangeSets
    <3> HIDE DEF x
    <3>3. [x EXCEPT !.to = t] = Change(f, t, w)
        BY <3>2 DEF Change
    <3> QED BY <3>3 DEF f, t, x, w
  <2> QED BY <2>1 DEF ApplyChange
<1> HIDE DEF f, t
<1>6. IsChange(k) /\ k.to = t /\ k.insert = c.insert
  <2>1. f \in Nat /\ t \in Nat
      BY <1>3
  <2> QED BY <1>1, <1>4, <2>1, ChangeFields
<1>7. InRange(k, d)
    BY <1>3, <1>6 DEF InRange
<1>8. ASSUME c.to <= L PROVE k = c
    BY <1>1, <1>2, <1>3, <1>8
<1> QED BY <1>5, <1>6, <1>7, <1>8

\* A change takes a caret along, if it leaves it, within the new text.
LEMMA DrawnStays ==
    ASSUME NEW c, NEW d, InRange(c, d),
           NEW drawn, \A i \in DOMAIN drawn : drawn[i] \in 0..Len(d)
    PROVE  \A i \in DOMAIN MapDecorations(drawn, c) :
              MapDecorations(drawn, c)[i] \in 0..Len(ApplyTextChange(d, c))
<1> DEFINE e == ApplyTextChange(d, c)
           after == MapDecorations(drawn, c)
<1>1. c.from \in Nat /\ c.to \in Nat /\ c.from <= c.to /\ c.to <= Len(d) /\ Len(c.insert) \in Nat
    BY IsSeqLen DEF InRange, IsChange
<1>2. Growth(c) = Len(c.insert) - (c.to - c.from) /\ Len(e) = Len(d) + Growth(c) /\ Len(d) \in Nat
    BY ApplyOK DEF Growth
<1> SUFFICES ASSUME NEW i \in DOMAIN after PROVE after[i] \in 0..Len(e)
    OBVIOUS
<1> DEFINE p == drawn[i]
<1>3. /\ p \in 0..Len(d) /\ ~(c.from < p /\ p < c.to)
      /\ after[i] = IF p >= c.to THEN p + Growth(c) ELSE p
    BY DEF MapDecorations
<1> HIDE DEF p, e, after
<1>4. CASE p >= c.to
    BY <1>1, <1>2, <1>3, <1>4
<1>5. CASE ~(p >= c.to)
    BY <1>1, <1>2, <1>3, <1>5
<1> QED BY <1>4, <1>5

---------------------------------------------------------------------------
(* What undoes a change of this user's.                                    *)

LEMMA UndoneOne ==
    ASSUME NEW c, NEW d, InRange(c, d),
           NEW v, v = Change(c.from, c.from + Len(c.insert), SubSeq(d, c.from + 1, c.to))
    PROVE  /\ InRange(v, ApplyTextChange(d, c))
           /\ v.from = c.from /\ v.to = c.from + Len(c.insert)
           /\ Len(v.insert) = c.to - c.from
           /\ ApplyTextChange(ApplyTextChange(d, c), v) = d
           /\ \A i \in 1..Len(c.insert) : ApplyTextChange(d, c)[c.from + i] = c.insert[i]
<1> DEFINE s == c.insert
           e == ApplyTextChange(d, c)
           w == SubSeq(d, c.from + 1, c.to)
<1>1. PICK p, m, r :
              /\ IsSeq(p) /\ IsSeq(m) /\ IsSeq(r)
              /\ d = Cat(p, Cat(m, r)) /\ Len(p) = c.from /\ Len(p) + Len(m) = c.to
              /\ Len(p) \in Nat /\ Len(m) \in Nat /\ Len(r) \in Nat
              /\ ApplyTextChange(d, c) = Cat(p, Cat(s, r))
    BY ChangeSplits
<1>2. IsSeq(s) /\ IsSeq(d) /\ Len(s) \in Nat
    BY IsSeqLen DEF InRange, IsChange
<1>3. /\ IsSeq(Cat(m, r)) /\ Len(Cat(m, r)) = Len(m) + Len(r) /\ Len(d) = Len(p) + (Len(m) + Len(r))
      /\ IsSeq(Cat(s, r)) /\ Len(Cat(s, r)) = Len(s) + Len(r)
    BY <1>1, <1>2, CatOK
<1>4. w = m
  <2> DEFINE a == Len(p) + 1
             b == Len(p) + Len(m)
             x == Cat(m, r)
  <2>1. w = SubSeq(d, a, b)
      BY <1>1
  <2> DEFINE l == Len(p)
             n == Len(m)
             k == Len(r)
             D == Len(d)
  <2>0. l \in Nat /\ n \in Nat /\ k \in Nat /\ D = l + (n + k) /\ a = l + 1 /\ b = l + n
      BY <1>1, <1>3
  <2> HIDE DEF l, n, k, D, a, b
  <2>2. a \in Nat \ {0} /\ b \in (a - 1)..D /\ b - a + 1 = n
      BY <2>0
  <2>3. \A i \in 1..n : a + i - 1 = l + i /\ i \in 1..(n + k)
      BY <2>0
  <2>4. IsSeq(x) /\ Len(x) = Len(m) + Len(r) /\ d = Cat(p, x)
      BY <1>1, <1>3
  <2>5. \A i \in 1..Len(m) : x[i] = m[i]
      BY <1>1, CatIndex
  <2> HIDE DEF x, w
  <2>6. \A i \in 1..Len(x) : d[Len(p) + i] = x[i]
    <3>1. IsSeq(p) /\ IsSeq(x) /\ d = Cat(p, x)
        BY <1>1, <2>4
    <3> QED BY <3>1, CatIndex
  <2>7. IsSeq(w) /\ Len(w) = n /\ \A i \in 1..n : w[i] = d[a + i - 1]
    <3>1. b \in (a - 1)..Len(d)
        BY <2>2 DEF D
    <3>2. /\ IsSeq(SubSeq(d, a, b)) /\ Len(SubSeq(d, a, b)) = b - a + 1
          /\ \A i \in 1..(b - a + 1) : SubSeq(d, a, b)[i] = d[a + i - 1]
        BY <1>2, <2>2, <3>1, SegmentOK
    <3> QED BY <2>1, <2>2, <3>2
  <2>8. \A i \in 1..n : w[i] = m[i]
    <3>1. \A i \in 1..n : i \in 1..Len(x) /\ a + i - 1 = Len(p) + i
        BY <2>3, <2>4 DEF n, k, l
    <3>2. \A i \in 1..n : x[i] = m[i]
        BY <2>5 DEF n
    <3>3. ASSUME NEW i \in 1..n PROVE w[i] = m[i]
      <4>1. w[i] = d[a + i - 1] /\ d[Len(p) + i] = x[i] /\ a + i - 1 = Len(p) + i /\ x[i] = m[i]
          BY <2>6, <2>7, <3>1, <3>2
      <4> QED BY <4>1
    <3> QED BY <3>3
  <2>9. IsSeq(m) /\ Len(m) = n
      BY <1>1 DEF n
  <2> QED BY <2>7, <2>8, <2>9, IsSeqEqual
<1> HIDE DEF w
<1>5. e = Cat(p, Cat(s, r)) /\ v = Change(Len(p), Len(p) + Len(s), m)
    BY <1>1, <1>4 DEF w
<1>6. /\ v.from = Len(p) /\ v.to = Len(p) + Len(s) /\ v.insert = m
  <2> HIDE DEF s
  <2> QED BY <1>5 DEF Change
<1>7. InRange(v, e) /\ ApplyTextChange(e, v) = Cat(p, Cat(m, r))
  <2> HIDE DEF e, s
  <2>1. IsSeq(p) /\ IsSeq(s) /\ IsSeq(r) /\ IsSeq(m)
      BY <1>1, <1>2
  <2> QED BY <1>5, <2>1, ChangeAt
<1>8. \A i \in 1..Len(s) : e[Len(p) + i] = s[i]
  <2> DEFINE x == Cat(s, r)
  <2>1. IsSeq(x) /\ Len(x) = Len(s) + Len(r) /\ e = Cat(p, x)
      BY <1>3, <1>5
  <2>2. \A i \in 1..Len(s) : x[i] = s[i] /\ i \in 1..(Len(s) + Len(r))
    <3>1. \A i \in 1..Len(s) : x[i] = s[i]
        BY <1>1, <1>2, CatIndex
    <3>2. \A i \in 1..Len(s) : i \in 1..(Len(s) + Len(r))
        BY <1>1, <1>2
    <3> QED BY <3>1, <3>2
  <2> HIDE DEF x, e, s
  <2>3. \A i \in 1..Len(x) : e[Len(p) + i] = x[i]
    <3>1. IsSeq(p) /\ IsSeq(x) /\ e = Cat(p, x)
        BY <1>1, <2>1
    <3> QED BY <3>1, CatIndex
  <2> QED BY <2>1, <2>2, <2>3
<1> QED BY <1>1, <1>6, <1>7, <1>8 DEF e

\* Something this user types, at most a letter, or a letter that is erased.
LEMMA OwnUndone ==
    ASSUME NEW c, NEW d \in Seq(AnyLetter), InRange(c, d), c.insert \in Seq(AnyLetter),
           \/ c.to = c.from /\ Len(c.insert) = 1 /\ c.insert[1].by = "me"
           \/ c.insert = << >>,
           NEW v, v = Change(c.from, c.from + Len(c.insert), SubSeq(d, c.from + 1, c.to))
    PROVE  /\ TakesBack(v, ApplyTextChange(d, c)) /\ v.insert \in Seq(AnyLetter)
           /\ ApplyTextChange(ApplyTextChange(d, c), v) = d
<1> DEFINE e == ApplyTextChange(d, c)
<1>1. /\ InRange(v, e) /\ v.from = c.from /\ v.to = c.from + Len(c.insert)
      /\ Len(v.insert) = c.to - c.from /\ ApplyTextChange(e, v) = d
      /\ \A i \in 1..Len(c.insert) : e[c.from + i] = c.insert[i]
    BY UndoneOne
<1>2. c.from \in Nat /\ c.to \in Nat /\ c.from <= c.to /\ c.to <= Len(d) /\ Len(d) \in Nat
    BY LenProperties DEF InRange, IsChange
<1>3. v.insert \in Seq(AnyLetter)
  <2>1. v.insert = SubSeq(d, c.from + 1, c.to)
      BY DEF Change
  <2>2. \A i \in (c.from + 1)..c.to : d[i] \in AnyLetter
      BY <1>2, ElementOfSeq
  <2>3. c.from + 1 \in Int /\ c.to \in Int
      BY <1>2
  <2>4. SubSeq(d, c.from + 1, c.to) \in Seq(AnyLetter)
    <3> DEFINE a == c.from + 1
               b == c.to
    <3>1. a \in Int /\ b \in Int /\ \A i \in a..b : d[i] \in AnyLetter
        BY <2>2, <2>3
    <3> HIDE DEF a, b
    <3>2. SubSeq(d, a, b) \in Seq(AnyLetter)
        BY <3>1, SubSeqProperties
    <3> QED BY <3>2 DEF a, b
  <2> QED BY <2>1, <2>4
<1> HIDE DEF e
<1>4. CASE c.to = c.from /\ Len(c.insert) = 1 /\ c.insert[1].by = "me"
  <2>1. v.to = v.from + 1 /\ Len(v.insert) = 0
      BY <1>1, <1>2, <1>4
  <2>2. v.insert = << >>
      BY <1>3, <2>1, EmptySeq
  <2>3. ASSUME NEW i \in (v.from + 1)..v.to PROVE e[i].by = "me"
    <3>1. i = c.from + 1 /\ 1 \in 1..Len(c.insert)
        BY <1>1, <1>2, <1>4, <2>1
    <3>2. e[c.from + 1] = c.insert[1]
        BY <1>1, <3>1
    <3> QED BY <1>4, <3>1, <3>2
  <2>4. v.to <= v.from + 1
      BY <1>1, <1>2, <2>1
  <2> QED BY <1>1, <1>3, <2>2, <2>3, <2>4 DEF TakesBack, e
<1>5. CASE c.insert = << >>
  <2>1. v.to = v.from /\ v.to <= v.from + 1 /\ (v.from + 1)..v.to = {}
    <3>1. Len(c.insert) = 0
        BY <1>5, IsSeqEmpty
    <3>2. v.to = v.from /\ v.from \in Nat
        BY <1>1, <1>2, <3>1
    <3> QED BY <3>2
  <2> QED BY <1>1, <1>3, <2>1 DEF TakesBack, e
<1> QED BY <1>4, <1>5

---------------------------------------------------------------------------
(* Texts as sequences of letters.                                          *)

LEMMA PartInSeq ==
    ASSUME NEW A, NEW s \in Seq(A), NEW m \in Nat \ {0}, NEW n \in 0..Len(s)
    PROVE  SubSeq(s, m, n) \in Seq(A)
<1>1. \A i \in m..n : s[i] \in A
  <2>1. Len(s) \in Nat
      BY LenProperties
  <2>2. \A i \in m..n : i \in 1..Len(s)
      BY <2>1
  <2> QED BY <2>2, ElementOfSeq
<1>2. m \in Int /\ n \in Int
    OBVIOUS
<1> QED BY <1>1, <1>2, SubSeqProperties

LEMMA InsertInSeq ==
    ASSUME NEW A, NEW s \in Seq(A), NEW p \in 0..Len(s), NEW x \in A
    PROVE  InsertAt(s, p + 1, x) \in Seq(A)
<1>1. Len(s) \in Nat
    BY LenProperties
<1>2. 1 \in Nat \ {0} /\ p \in 0..Len(s) /\ p + 1 \in Nat \ {0} /\ Len(s) \in 0..Len(s)
    BY <1>1
<1>3. SubSeq(s, 1, p) \in Seq(A) /\ SubSeq(s, p + 1, Len(s)) \in Seq(A)
  <2>1. SubSeq(s, 1, p) \in Seq(A)
      BY <1>2, PartInSeq
  <2> DEFINE m == p + 1
             n == Len(s)
  <2>2. m \in Nat \ {0} /\ n \in 0..Len(s)
      BY <1>2
  <2> HIDE DEF m, n
  <2>3. SubSeq(s, m, n) \in Seq(A)
      BY <2>2, PartInSeq
  <2> QED BY <2>1, <2>3 DEF m, n
<1>4. (p + 1) - 1 = p /\ <<x>> \in Seq(A)
    OBVIOUS
<1> DEFINE a == SubSeq(s, 1, p)
           b == SubSeq(s, p + 1, Len(s))
<1>5. InsertAt(s, p + 1, x) = a \o <<x>> \o b
    BY <1>4 DEF InsertAt
<1>6. a \in Seq(A) /\ b \in Seq(A)
    BY <1>3
<1> HIDE DEF a, b
<1>7. a \o <<x>> \in Seq(A)
    BY <1>4, <1>6, ConcatProperties
<1>8. (a \o <<x>>) \o b \in Seq(A)
    BY <1>6, <1>7, ConcatProperties
<1> QED BY <1>5, <1>8

LEMMA RemoveInSeq ==
    ASSUME NEW A, NEW s \in Seq(A), NEW i \in DOMAIN s
    PROVE  RemoveAt(s, i) \in Seq(A)
<1>1. Len(s) \in Nat /\ i \in 1..Len(s)
    BY LenProperties
<1> DEFINE p == i - 1
           m == i + 1
           n == Len(s)
<1>2. p \in 0..Len(s) /\ m \in Nat \ {0} /\ n \in 0..Len(s)
    BY <1>1
<1>3. RemoveAt(s, i) = SubSeq(s, 1, p) \o SubSeq(s, m, n)
    BY DEF RemoveAt
<1> HIDE DEF p, m, n
<1>4. SubSeq(s, 1, p) \in Seq(A) /\ SubSeq(s, m, n) \in Seq(A)
    BY <1>2, PartInSeq
<1> QED BY <1>3, <1>4, ConcatProperties

LEMMA ReplaceInSeq ==
    ASSUME NEW A, NEW s \in Seq(A), NEW i \in DOMAIN s, NEW x \in A
    PROVE  [s EXCEPT ![i] = x] \in Seq(A) /\ Len([s EXCEPT ![i] = x]) = Len(s)
<1>1. i \in 1..Len(s)
    BY LenProperties
<1> QED BY <1>1, ExceptSeq

\* A letter that is typed.
LEMMA LetterOK ==
    ASSUME local \in Nat, remote \in Nat, NEW by \in {"me", "them"}, NEW kind \in Kinds
    PROVE  Letter(by, kind) \in AnyLetter /\ Letter(by, kind).by = by
<1>1. Len(Given) \in Nat
    BY EditorAssumption, LenProperties
<1>2. local + remote + 1 + Len(Given) \in Nat
    BY <1>1
<1> QED BY <1>2 DEF Letter, AnyLetter

\* Slate has as many letters as the text.
LEMMA DeserializedInSeq ==
    ASSUME NEW v \in Seq(AnyLetter)
    PROVE  Deserialize(v) \in Seq(AnyLetter) /\ Len(Deserialize(v)) = Len(v)
<1>1. Len(v) \in Nat /\ DOMAIN v = 1..Len(v) /\ \A i \in 1..Len(v) : v[i] \in AnyLetter
    BY LenProperties, ElementOfSeq
<1>2. \A l \in AnyLetter : Normal(l) \in AnyLetter
    BY DEF AnyLetter, Normal, Kinds
<1>3. Deserialize(v) = [i \in 1..Len(v) |-> Normal(v[i])]
    BY <1>1 DEF Deserialize
<1>4. \A i \in 1..Len(v) : Normal(v[i]) \in AnyLetter
    BY <1>1, <1>2
<1> DEFINE n == Len(v)
           g(i) == Normal(v[i])
<1>5. Deserialize(v) = [i \in 1..n |-> g(i)] /\ \A i \in 1..n : g(i) \in AnyLetter
    BY <1>3, <1>4
<1>6. n \in Nat
    BY <1>1
<1> HIDE DEF n, g
<1>7. Deserialize(v) \in Seq(AnyLetter) /\ Len(Deserialize(v)) = n
    BY <1>5, <1>6
<1> QED BY <1>7 DEF n

---------------------------------------------------------------------------
(* What there is at any time.                                              *)

CountersOK ==
    /\ local \in Nat /\ remote \in Nat /\ carets \in Nat /\ document \in Nat
    /\ shown \in 0..document /\ reported \in 0..carets
    /\ throttle.pending \in 0..carets
    /\ throttle.timer <=> throttle.pending # 0

PeerOK == \A i \in DOMAIN peer : peer[i] \in Nat

\* The source view: its carets are in its text, and its history leads back.
SourceOK(c) ==
    /\ c = [doc |-> c.doc, undo |-> c.undo, last |-> c.last, drawn |-> c.drawn]
    /\ c.doc \in Seq(AnyLetter)
    /\ UndoOK(c.undo, c.doc)
    /\ \A i \in DOMAIN c.drawn : c.drawn[i] \in 0..Len(c.doc)

\* The WYSIWYG view: nothing is emitted while the user has to decide.
RichOK(r) ==
    /\ r = [blocks |-> r.blocks, caret |-> r.caret, known |-> r.known, timer |-> r.timer,
            pending |-> r.pending, entered |-> r.entered]
    /\ r.blocks \in Seq(AnyLetter) /\ r.known \in Seq(AnyLetter)
    /\ r.caret \in 0..Len(r.blocks)
    /\ r.timer # << >> => r.pending = << >>

DialogOK ==
    /\ rich.timer # << >> => RichMounted
    /\ dialog # << >> => RichMounted /\ IsSeq(dialog[1].before)
                         /\ dialog[1].after \in Seq(AnyLetter)

EditorInv ==
    /\ CountersOK
    /\ text \in Seq(AnyLetter) /\ PeerOK
    /\ SourceOK(cm) /\ RichOK(rich) /\ DialogOK

\* What EditsLandWhereMade, SourceReconcilesSilently and UndoSparesOthers say of a
\* step.
LandsWhereMade ==
    SourceMounted /\ cm' # cm /\ value' = value /\ mode' = mode
          /\ cm.doc = text /\ shown = document
       => text' = cm'.doc

ReconcilesSilently ==
    value' # value /\ SourceMounted' => text' = text /\ cm'.doc = value'

SparesOthers ==
    Len(cm'.undo) < Len(cm.undo) /\ SourceMounted /\ mode' = mode /\ here' = here =>
          \A l \in Letters(cm.doc) \ Letters(cm'.doc) : l.by = "me"

EditorStep == LandsWhereMade /\ ReconcilesSilently /\ SparesOthers

\* A step that neither renders nor touches the source view.
LEMMA QuietStep ==
    ASSUME SourceOK(cm), cm' = cm, value' = value
    PROVE  EditorStep
<1>1. Len(cm.undo) \in Nat
    BY IsSeqLen DEF SourceOK, UndoOK
<1> QED BY <1>1 DEF EditorStep, LandsWhereMade, ReconcilesSilently, SparesOthers

\* A letter that a change of this user's history takes away is this user's.
LEMMA TakenAreOwn ==
    ASSUME NEW v, NEW d, TakesBack(v, d)
    PROVE  \A l \in Letters(d) \ Letters(ApplyTextChange(d, v)) : l.by = "me"
<1> DEFINE e == ApplyTextChange(d, v)
<1>1. InRange(v, d) /\ \A i \in (v.from + 1)..v.to : d[i].by = "me"
    BY DEF TakesBack
<1>2. v.from \in Nat /\ v.to \in Nat /\ v.from <= v.to /\ v.to <= Len(d) /\ IsSeq(d)
      /\ Len(v.insert) \in Nat
    BY <1>1, IsSeqLen DEF InRange, IsChange
<1>3. /\ IsSeq(e) /\ Growth(v) \in Int /\ Len(e) = Len(d) + Growth(v)
      /\ Len(d) \in Nat /\ Len(e) \in Nat
      /\ \A i \in 1..v.from : e[i] = d[i]
      /\ \A i \in (v.to + 1)..Len(d) : e[i + Growth(v)] = d[i]
    BY <1>1, ApplyOK
<1>4. DOMAIN d = 1..Len(d) /\ DOMAIN e = 1..Len(e)
    BY <1>2, <1>3, IsSeqLen
<1>5. Growth(v) = Len(v.insert) - (v.to - v.from)
    BY DEF Growth
<1> HIDE DEF e
<1> SUFFICES ASSUME NEW i \in 1..Len(d), d[i] \notin Letters(e) PROVE d[i].by = "me"
    BY <1>4 DEF Letters, ToSet, e
<1>6. \A k \in 1..Len(e) : e[k] # d[i]
    BY <1>4 DEF Letters, ToSet
<1>7. ~(i <= v.from)
  <2>1. SUFFICES ASSUME i <= v.from PROVE FALSE
      OBVIOUS
  <2>2. i \in 1..v.from /\ i \in 1..Len(e)
      BY <1>2, <1>3, <1>5, <2>1
  <2> QED BY <1>3, <1>6, <2>2
<1>8. ~(i > v.to)
  <2>1. SUFFICES ASSUME i > v.to PROVE FALSE
      OBVIOUS
  <2>2. i \in (v.to + 1)..Len(d) /\ i + Growth(v) \in 1..Len(e)
      BY <1>2, <1>3, <1>5, <2>1
  <2> QED BY <1>3, <1>6, <2>2
<1>9. i \in (v.from + 1)..v.to
    BY <1>2, <1>7, <1>8
<1> QED BY <1>1, <1>9

---------------------------------------------------------------------------
(* What the views emit, and what they are told.                            *)

LEMMA EmittedOK ==
    ASSUME text \in Seq(AnyLetter), NEW c, IsChange(c), c.insert \in Seq(AnyLetter), NEW session
    PROVE  /\ Emitted(session, <<c>>) \in Seq(AnyLetter)
           /\ session = document /\ c.to <= Len(text)
                 => Emitted(session, <<c>>) = ApplyTextChange(text, c)
<1>1. <<c>> # << >>
    OBVIOUS
<1>2. Emitted(session, <<c>>) = IF session = document THEN ApplyChange(text, c) ELSE text
    BY <1>1, EmittedOne DEF Emitted
<1>3. IsSeq(text)
    BY IsSeqIntro
<1>4. PICK k : InRange(k, text) /\ k.insert = c.insert /\ ApplyChange(text, c) = ApplyTextChange(text, k)
    BY <1>3, ClampOK
<1>5. ApplyChange(text, c) \in Seq(AnyLetter)
    BY <1>4, ApplyInSeq
<1>6. c.to <= Len(text) => ApplyChange(text, c) = ApplyTextChange(text, c)
    BY <1>3, ClampOK
<1> QED BY <1>2, <1>5, <1>6

LEMMA EmittedNone ==
    ASSUME NEW session
    PROVE  Emitted(session, << >>) = text
BY DEF Emitted

\* The bridge's and the source view's one replacement.
LEMMA ReplacementOK ==
    ASSUME NEW old \in Seq(AnyLetter), NEW new \in Seq(AnyLetter)
    PROVE  \/ old = new /\ ComputeTextChange(old, new) = << >>
           \/ \E c : /\ ComputeTextChange(old, new) = <<c>> /\ InRange(c, old)
                     /\ c.insert \in Seq(AnyLetter) /\ ApplyTextChange(old, c) = new
<1>1. CASE old = new
    BY <1>1 DEF ComputeTextChange, NoChange
<1>2. CASE old # new
  <2>1. Lead \cap Cont = {} /\ ValidUTF8(old) /\ ValidUTF8(new)
      BY EditorAssumption DEF ValidUTF8
  <2>2. IsSeq(old) /\ IsSeq(new) /\ Len(old) \in Nat /\ Len(new) \in Nat
      BY IsSeqIntro, LenProperties
  <2>3. PICK p, n \in Nat :
              /\ p + n <= Len(old) /\ p + n <= Len(new)
              /\ ComputeTextChange(old, new)
                    = <<[from |-> p, to |-> Len(old) - n,
                         insert |-> SubSeq(new, p + 1, Len(new) - n)]>>
      BY <1>2, <2>1, <2>2, ChangeParts
  <2> DEFINE t == Len(old) - n
             k == Len(new) - n
             s == SubSeq(new, p + 1, k)
             c == Change(p, t, s)
  <2>4. t \in Nat /\ p <= t /\ t <= Len(old) /\ k \in 0..Len(new) /\ p + 1 \in Nat \ {0}
      BY <2>2, <2>3
  <2>5. s \in Seq(AnyLetter)
    <3> DEFINE m == p + 1
    <3>1. m \in Nat \ {0} /\ k \in 0..Len(new)
        BY <2>4
    <3> HIDE DEF m, k
    <3>2. SubSeq(new, m, k) \in Seq(AnyLetter)
        BY <3>1, PartInSeq
    <3> QED BY <3>2 DEF m
  <2>6. ComputeTextChange(old, new) = <<c>>
      BY <2>3 DEF Change
  <2> HIDE DEF t, k, s
  <2>7. IsChange(c) /\ c.to = t /\ c.insert = s
      BY <2>4, <2>5, IsSeqIntro, ChangeFields
  <2>8. InRange(c, old)
      BY <2>2, <2>4, <2>7 DEF InRange
  <2> HIDE DEF c
  <2>9. ApplyTextChange(old, c) = new
    <3> DEFINE all == ComputeTextChange(old, new)
    <3>1. all[1] = c
        BY <2>6, IsSeqOne
    <3> HIDE DEF all
    <3>2. all = ComputeTextChange(old, new)
        BY DEF all
    <3>3. ApplyTextChange(old, all[1]) = new
        BY <1>2, <2>1, <2>2, <3>2, ChangeMakesText
    <3> QED BY <3>1, <3>3
  <2> QED BY <2>5, <2>6, <2>7, <2>8, <2>9
<1> QED BY <1>1, <1>2

\* Somebody else's change reaches the source view.
LEMMA ReconciledOK ==
    ASSUME NEW r, SourceOK(r), NEW c, InRange(c, r.doc), c.insert \in Seq(AnyLetter)
    PROVE  /\ SourceOK(Reconciled(r, c))
           /\ Reconciled(r, c).doc = ApplyTextChange(r.doc, c)
           /\ Len(Reconciled(r, c).undo) = Len(r.undo)
<1> DEFINE x == Reconciled(r, c)
           d == ApplyTextChange(r.doc, c)
           u == AddMapping(r.undo, c)
           w == MapDecorations(r.drawn, c)
<1>1. x = [doc |-> d, undo |-> u, last |-> r.last, drawn |-> w]
  <2>1. r = [doc |-> r.doc, undo |-> r.undo, last |-> r.last, drawn |-> r.drawn]
      BY DEF SourceOK
  <2>2. x = [r EXCEPT !.doc = d, !.undo = u, !.drawn = w]
      BY DEF Reconciled
  <2> HIDE DEF d, u, w, x
  <2> QED BY <2>1, <2>2
<1>2. d \in Seq(AnyLetter)
    BY ApplyInSeq DEF SourceOK
<1>3. UndoOK(u, d) /\ Len(u) = Len(r.undo)
    BY UndoMapped DEF SourceOK
<1>4. \A i \in DOMAIN w : w[i] \in 0..Len(d)
    BY DrawnStays DEF SourceOK
<1> HIDE DEF x, d, u, w
<1>5. x.doc = d /\ x.undo = u /\ x.drawn = w /\ x.last = r.last
    BY <1>1
<1>6. SourceOK(x)
    BY <1>1, <1>2, <1>3, <1>4, <1>5 DEF SourceOK
<1> QED BY <1>3, <1>5, <1>6 DEF x, d, u

\* The others' carets, as the views are given them.
LEMMA CursorsOK ==
    ASSUME PeerOK, NEW v \in Seq(AnyLetter)
    PROVE  \A i \in DOMAIN RemoteCursors(peer, v) : RemoteCursors(peer, v)[i] \in Nat
<1>1. Len(v) \in Nat
    BY LenProperties
<1>2. ASSUME NEW i \in DOMAIN peer PROVE Min({peer[i], Len(v)}) \in Nat
  <2>1. peer[i] \in Nat
      BY DEF PeerOK
  <2>2. Min({peer[i], Len(v)}) \in 0..Len(v)
      BY <1>1, <2>1, MinOf
  <2> QED BY <1>1, <2>2
<1> QED BY <1>2 DEF RemoteCursors

LEMMA DecorationsOK ==
    ASSUME NEW next, \A i \in DOMAIN next : next[i] \in Nat, NEW v \in Seq(AnyLetter)
    PROVE  \A i \in DOMAIN BuildDecorations(next, v) : BuildDecorations(next, v)[i] \in 0..Len(v)
<1>1. Len(v) \in Nat
    BY LenProperties
<1>2. \A i \in DOMAIN next : Min({next[i], Len(v)}) \in 0..Len(v)
    BY <1>1, MinOf
<1> QED BY <1>2 DEF BuildDecorations

LEMMA DrawCursorsOK ==
    ASSUME NEW r, SourceOK(r), NEW next, \A i \in DOMAIN next : next[i] \in Nat
    PROVE  /\ SourceOK(DrawCursors(r, next))
           /\ DrawCursors(r, next).doc = r.doc /\ DrawCursors(r, next).undo = r.undo
<1> DEFINE w == BuildDecorations(next, r.doc)
           x == [r EXCEPT !.last = next, !.drawn = w]
<1>1. \A i \in DOMAIN w : w[i] \in 0..Len(r.doc)
    BY DecorationsOK DEF SourceOK
<1>2. DrawCursors(r, next) = r \/ DrawCursors(r, next) = x
    BY DEF DrawCursors
<1> HIDE DEF w
<1>3. x = [doc |-> r.doc, undo |-> r.undo, last |-> next, drawn |-> w]
  <2>1. r = [doc |-> r.doc, undo |-> r.undo, last |-> r.last, drawn |-> r.drawn]
      BY DEF SourceOK
  <2>2. x = [r EXCEPT !.last = next, !.drawn = w]
      OBVIOUS
  <2> HIDE DEF x
  <2> QED BY <2>1, <2>2
<1> HIDE DEF x
<1>4. x.doc = r.doc /\ x.undo = r.undo /\ x.last = next /\ x.drawn = w
    BY <1>3
<1>5. SourceOK(x)
    BY <1>1, <1>3, <1>4 DEF SourceOK
<1> QED BY <1>2, <1>4, <1>5

\* A source view that is mounted, and none.
LEMMA FreshSourceOK ==
    ASSUME PeerOK, NEW v \in Seq(AnyLetter)
    PROVE  SourceOK(FreshSource(v)) /\ FreshSource(v).doc = v
<1> DEFINE next == RemoteCursors(peer, v)
           w == BuildDecorations(next, v)
           none == << >>
           x == [doc |-> v, undo |-> none, last |-> next, drawn |-> w]
<1>1. \A i \in DOMAIN next : next[i] \in Nat
    BY CursorsOK
<1>2. FreshSource(v) = x
    BY DEF FreshSource
<1>3. UndoOK(none, v)
    BY UndoNone
<1> HIDE DEF next, none
<1>4. \A i \in DOMAIN w : w[i] \in 0..Len(v)
    BY <1>1, DecorationsOK
<1> HIDE DEF w
<1>5. x.doc = v /\ x.undo = none /\ x.last = next /\ x.drawn = w
    OBVIOUS
<1>6. x = [doc |-> x.doc, undo |-> x.undo, last |-> x.last, drawn |-> x.drawn]
    OBVIOUS
<1> HIDE DEF x
<1> QED BY <1>2, <1>3, <1>4, <1>5, <1>6 DEF SourceOK

LEMMA NoSourceOK == SourceOK(NoSource)
<1> DEFINE none == << >>
           x == [doc |-> none, undo |-> none, last |-> none, drawn |-> none]
<1>1. NoSource = x
    BY DEF NoSource
<1>2. UndoOK(none, none) /\ none \in Seq(AnyLetter) /\ DOMAIN none = {}
    BY UndoNone, IsSeqEmpty
<1> HIDE DEF none
<1>3. x.doc = none /\ x.undo = none /\ x.last = none /\ x.drawn = none
    OBVIOUS
<1>4. x = [doc |-> x.doc, undo |-> x.undo, last |-> x.last, drawn |-> x.drawn]
    OBVIOUS
<1> HIDE DEF x
<1> QED BY <1>1, <1>2, <1>3, <1>4 DEF SourceOK

\* A WYSIWYG view that is mounted, and one that hears of a text.
LEMMA FreshRichOK ==
    ASSUME NEW v \in Seq(AnyLetter)
    PROVE  /\ RichOK(FreshRich(v)) /\ FreshRich(v).timer = << >>
           /\ FreshRich(v).pending = CheckRoundTrip(v)
<1> DEFINE b == Deserialize(v)
           a == CheckRoundTrip(v)
           none == << >>
           x == [blocks |-> b, caret |-> 0, known |-> v, timer |-> none, pending |-> a,
                 entered |-> v]
<1>1. FreshRich(v) = x
    BY DEF FreshRich
<1>2. b \in Seq(AnyLetter) /\ 0 \in 0..Len(b)
    BY DeserializedInSeq, LenProperties
<1> HIDE DEF a, b, none
<1>3. x.blocks = b /\ x.caret = 0 /\ x.known = v /\ x.timer = none /\ x.pending = a
    OBVIOUS
<1>4. x = [blocks |-> x.blocks, caret |-> x.caret, known |-> x.known, timer |-> x.timer,
           pending |-> x.pending, entered |-> x.entered]
    OBVIOUS
<1> HIDE DEF x
<1>5. RichOK(x)
    BY <1>2, <1>3, <1>4 DEF RichOK, none
<1> QED BY <1>1, <1>3, <1>5 DEF a, none

LEMMA RichEffectOK ==
    ASSUME NEW r, RichOK(r), NEW v \in Seq(AnyLetter), NEW session
    PROVE  /\ RichOK(RichEffect(r, v, session))
           /\ RichEffect(r, v, session).pending = r.pending
           /\ RichEffect(r, v, session).entered = r.entered
<1>1. CASE NotForTheView(r, v)
    BY <1>1 DEF RichEffect
<1>2. CASE ~NotForTheView(r, v)
  <2> DEFINE new == Deserialize(v)
             blocks == ReconcileRemoteValue(r.blocks, r.caret, new)
             caret == IF r.caret > Len(blocks) THEN 0 ELSE r.caret
             timer == IF blocks = r.blocks THEN r.timer ELSE <<session>>
             x == RichEffect(r, v, session)
  <2>1. r.pending = << >>
      BY <1>2 DEF NotForTheView
  <2>2. new \in Seq(AnyLetter)
      BY DeserializedInSeq
  <2> HIDE DEF new
  <2>3. blocks \in Seq(AnyLetter)
    <3>1. CASE Len(r.blocks) = Len(new)
      <4> DEFINE g(i) == IF i \in DiffBlocks(r.blocks, new).changed \ {r.caret}
                         THEN new[i] ELSE r.blocks[i]
                 n == Len(new)
      <4>1. n \in Nat /\ DOMAIN new = 1..n
          BY <2>2, LenProperties
      <4>2. blocks = [i \in 1..n |-> g(i)]
          BY <3>1, <4>1 DEF ReconcileRemoteValue, DiffBlocks
      <4>3. \A i \in 1..n : new[i] \in AnyLetter /\ r.blocks[i] \in AnyLetter
          BY <2>2, <3>1, ElementOfSeq DEF RichOK
      <4>4. \A i \in 1..n : g(i) \in AnyLetter
          BY <4>3
      <4> HIDE DEF g, n, blocks
      <4> QED BY <4>1, <4>2, <4>4
    <3>2. CASE Len(r.blocks) # Len(new)
        BY <2>2, <3>2 DEF ReconcileRemoteValue, DiffBlocks
    <3> QED BY <3>1, <3>2
  <2>4. x = [r EXCEPT !.blocks = blocks, !.caret = caret, !.known = v, !.timer = timer]
      BY <1>2 DEF RichEffect, new
  <2> HIDE DEF blocks
  <2>5. caret \in 0..Len(blocks)
      BY <2>3, LenProperties DEF RichOK
  <2> HIDE DEF caret, timer, x
  <2>6. x = [blocks |-> blocks, caret |-> caret, known |-> v, timer |-> timer,
             pending |-> r.pending, entered |-> r.entered]
      BY <2>4 DEF RichOK
  <2>7. /\ x.blocks = blocks /\ x.caret = caret /\ x.known = v /\ x.timer = timer
        /\ x.pending = r.pending /\ x.entered = r.entered
      BY <2>6
  <2>8. RichOK(x)
      BY <2>1, <2>3, <2>5, <2>6, <2>7 DEF RichOK
  <2> QED BY <2>7, <2>8 DEF x
<1> QED BY <1>1, <1>2

---------------------------------------------------------------------------
(* The source view's actions.                                              *)

\* A function on the one index 1 is a sequence.
LEMMA OneSeq ==
    ASSUME NEW f, DOMAIN f = 1..1, f = [i \in 1..1 |-> f[i]]
    PROVE  f = <<f[1]>>
<1> DEFINE x == f[1]
           s == <<x>>
<1>1. IsSeq(s) /\ Len(s) = 1 /\ s[1] = x
    BY IsSeqOne
<1>2. f \in Seq({x}) /\ Len(f) = 1
  <2>1. \A i \in 1..1 : f[i] = x
      OBVIOUS
  <2> HIDE DEF x
  <2>2. f = [i \in 1..1 |-> x]
      BY <2>1
  <2> QED BY <2>2
<1>3. IsSeq(f) /\ f[1] = x
    BY <1>2, IsSeqIntro
<1> HIDE DEF s, x
<1>4. f = s
    BY <1>1, <1>2, <1>3, IsSeqEqual
<1> QED BY <1>4 DEF s, x

LEMMA SelectionOK ==
    ASSUME CountersOK, EmitSelection(carets + 1), carets' = carets + 1,
           UNCHANGED <<shown, document>>, local' \in Nat, remote' \in Nat
    PROVE  CountersOK'
<1>1. carets \in Nat /\ reported \in 0..carets /\ throttle.pending \in 0..carets
    BY DEF CountersOK
<1>2. CASE ~throttle.timer /\ reported' = carets + 1 /\ UNCHANGED throttle
    BY <1>1, <1>2 DEF CountersOK
<1>3. CASE throttle' = [timer |-> TRUE, pending |-> carets + 1] /\ UNCHANGED reported
  <2>1. throttle'.timer /\ throttle'.pending = carets + 1
      BY <1>3
  <2>2. carets + 1 \in 0..(carets + 1) /\ carets + 1 # 0 /\ reported \in 0..(carets + 1)
        /\ carets + 1 \in Nat
      BY <1>1
  <2> QED BY <1>3, <2>1, <2>2 DEF CountersOK
<1> QED BY <1>2, <1>3 DEF EmitSelection

\* A step that leaves the WYSIWYG view and the dialog as they are.
LEMMA RichStays ==
    ASSUME EditorInv, UNCHANGED <<mode, here, rich, dialog>>
    PROVE  RichOK(rich') /\ DialogOK'
BY DEF EditorInv, DialogOK, RichMounted

\* A transaction of one change.
LEMMA DispatchOK ==
    ASSUME EditorInv, local' \in Nat,
           NEW c, InRange(c, cm.doc), c.insert \in Seq(AnyLetter),
           NEW undo, UndoOK(undo, ApplyTextChange(cm.doc, c)),
           Dispatch(<<c>>, undo)
    PROVE  /\ EditorInv' /\ LandsWhereMade /\ ReconcilesSilently
           /\ cm'.doc = ApplyTextChange(cm.doc, c) /\ cm'.undo = undo
<1> DEFINE d == ApplyTextChange(cm.doc, c)
           w == MapDecorations(cm.drawn, c)
<1>1. /\ cm' = [cm EXCEPT !.doc = Changed(cm.doc, <<c>>), !.undo = undo,
                          !.drawn = FoldLeft(MapDecorations, cm.drawn, Reverse(<<c>>))]
      /\ text' = Emitted(shown, <<c>>)
      /\ carets' = carets + 1
      /\ EmitSelection(carets + 1)
      /\ UNCHANGED <<peer, document, value, shown, mode, here, rich, dialog, remote>>
    BY DEF Dispatch, FromListener, pageVars
<1>2. Changed(cm.doc, <<c>>) = d /\ FoldLeft(MapDecorations, cm.drawn, Reverse(<<c>>)) = w
    BY ChangedOne, DrawnOne
<1>3. SourceOK(cm) /\ text \in Seq(AnyLetter) /\ CountersOK
    BY DEF EditorInv
<1>4. d \in Seq(AnyLetter) /\ \A i \in DOMAIN w : w[i] \in 0..Len(d)
    BY <1>3, ApplyInSeq, DrawnStays DEF SourceOK
<1> HIDE DEF w
<1>5. cm' = [doc |-> d, undo |-> undo, last |-> cm.last, drawn |-> w]
  <2> HIDE DEF d
  <2>1. cm = [doc |-> cm.doc, undo |-> cm.undo, last |-> cm.last, drawn |-> cm.drawn]
      BY <1>3 DEF SourceOK
  <2>2. cm' = [cm EXCEPT !.doc = d, !.undo = undo, !.drawn = w]
      BY <1>1, <1>2
  <2> QED BY <2>1, <2>2
<1>6. cm'.doc = d /\ cm'.undo = undo /\ cm'.last = cm.last /\ cm'.drawn = w
    BY <1>5
<1>7. SourceOK(cm')
  <2> HIDE DEF d
  <2>1. UndoOK(undo, d)
      BY DEF d
  <2> QED BY <1>4, <1>5, <1>6, <2>1 DEF SourceOK
<1>8. IsChange(c) /\ c.to <= Len(cm.doc)
    BY DEF InRange
<1>9. /\ text' \in Seq(AnyLetter)
      /\ shown = document /\ cm.doc = text => text' = d
  <2>1. /\ Emitted(shown, <<c>>) \in Seq(AnyLetter)
        /\ shown = document /\ c.to <= Len(text)
              => Emitted(shown, <<c>>) = ApplyTextChange(text, c)
      BY <1>3, <1>8, EmittedOK
  <2> QED BY <1>1, <1>8, <2>1
<1>10. CountersOK'
    BY <1>1, <1>3, SelectionOK DEF CountersOK
<1>11. RichOK(rich') /\ DialogOK'
    BY <1>1, RichStays
<1>12. PeerOK'
    BY <1>1 DEF PeerOK, EditorInv
<1> HIDE DEF d
<1>13. EditorInv'
    BY <1>7, <1>9, <1>10, <1>11, <1>12 DEF EditorInv
<1>14. LandsWhereMade /\ ReconcilesSilently
    BY <1>1, <1>6, <1>9 DEF LandsWhereMade, ReconcilesSilently
<1> QED BY <1>6, <1>13, <1>14 DEF d

\* An edit of one change, which is remembered.
LEMMA EditOK ==
    ASSUME EditorInv, local' \in Nat,
           NEW c, InRange(c, cm.doc), c.insert \in Seq(AnyLetter),
           \/ c.to = c.from /\ Len(c.insert) = 1 /\ c.insert[1].by = "me"
           \/ c.insert = << >>,
           Edit(<<c>>)
    PROVE  EditorInv' /\ EditorStep
<1> DEFINE e == ApplyTextChange(cm.doc, c)
           v == Change(c.from, c.from + Len(c.insert), SubSeq(cm.doc, c.from + 1, c.to))
           undo == Append(cm.undo, <<v>>)
<1>1. cm.doc \in Seq(AnyLetter) /\ UndoOK(cm.undo, cm.doc)
    BY DEF EditorInv, SourceOK
<1>2. Undoing(cm.doc, <<c>>) = <<v>>
    BY UndoingOne DEF InRange, IsChange
<1>3. TakesBack(v, e) /\ v.insert \in Seq(AnyLetter) /\ ApplyTextChange(e, v) = cm.doc
    BY <1>1, OwnUndone
<1> HIDE DEF v, e
<1>4. UndoOK(undo, e)
    BY <1>1, <1>3, UndoAppend
<1>5. Dispatch(<<c>>, undo)
    BY <1>2 DEF Edit
<1>6. IsSeq(cm.undo) /\ Len(cm.undo) \in Nat
    BY <1>1, IsSeqLen DEF UndoOK
<1>7. Len(undo) = Len(cm.undo) + 1
    BY <1>6, IsSeqAppend
<1> HIDE DEF undo
<1>8. EditorInv' /\ LandsWhereMade /\ ReconcilesSilently /\ cm'.undo = undo
    BY <1>4, <1>5, DispatchOK DEF e
<1>9. SparesOthers
  <2>1. ~(Len(cm'.undo) < Len(cm.undo))
      BY <1>6, <1>7, <1>8
  <2> QED BY <2>1 DEF SparesOthers
<1> QED BY <1>8, <1>9 DEF EditorStep

LEMMA TypeInSourceKeeps ==
    ASSUME ChangesAtOnce = 1, EditorInv, TypeInSource
    PROVE  EditorInv' /\ EditorStep
<1>1. local \in Nat /\ remote \in Nat /\ local' \in Nat /\ cm.doc \in Seq(AnyLetter)
    BY DEF EditorInv, CountersOK, SourceOK, TypeInSource
<1>2. PICK kind \in LocalKinds, places \in [1..1 -> 0..Len(cm.doc)] :
         Edit([i \in 1..1 |-> [from |-> places[i], to |-> places[i],
                               insert |-> <<Letter("me", kind)>>]])
  <2>1. \A n \in 1..ChangesAtOnce : n = 1
      OBVIOUS
  <2> QED BY <2>1 DEF TypeInSource
<1> DEFINE p == places[1]
           l == Letter("me", kind)
           s == <<l>>
           c == Change(p, p, s)
           f == [i \in 1..1 |-> [from |-> places[i], to |-> places[i], insert |-> s]]
<1>3. l \in AnyLetter /\ l.by = "me"
  <2>1. kind \in Kinds
      BY EditorAssumption
  <2> QED BY <1>1, <2>1, LetterOK
<1>4. p \in 0..Len(cm.doc) /\ Len(cm.doc) \in Nat
    BY <1>1, LenProperties
<1> HIDE DEF l
<1>5. f = <<c>>
  <2>1. f[1] = c
      BY DEF Change
  <2>2. DOMAIN f = 1..1 /\ f = [i \in 1..1 |-> f[i]]
      OBVIOUS
  <2> HIDE DEF f, c
  <2>3. f = <<f[1]>>
      BY <2>2, OneSeq
  <2> QED BY <2>1, <2>3
<1>6. Edit(f)
    BY <1>2 DEF l
<1> HIDE DEF f
<1>7. s \in Seq(AnyLetter) /\ IsSeq(s) /\ Len(s) = 1 /\ s[1] = l
    BY <1>3, IsSeqOne
<1> HIDE DEF s, p
<1>8. IsChange(c) /\ c.from = p /\ c.to = p /\ c.insert = s
    BY <1>4, <1>7, ChangeFields
<1>9. InRange(c, cm.doc)
    BY <1>1, <1>4, <1>8, IsSeqIntro DEF InRange
<1> HIDE DEF c
<1> QED BY <1>1, <1>3, <1>5, <1>6, <1>7, <1>8, <1>9, EditOK

LEMMA EraseInSourceKeeps ==
    ASSUME EditorInv, EraseInSource
    PROVE  EditorInv' /\ EditorStep
<1>1. local' \in Nat /\ cm.doc \in Seq(AnyLetter) /\ Len(cm.doc) \in Nat
    BY LenProperties DEF EditorInv, CountersOK, SourceOK, EraseInSource
<1>2. PICK p \in 0..(Len(cm.doc) - 1) : Edit(<<[from |-> p, to |-> p + 1, insert |-> << >>]>>)
    BY DEF EraseInSource
<1> DEFINE t == p + 1
           none == << >>
           c == Change(p, t, none)
<1>3. p \in Nat /\ t \in Nat /\ p <= t /\ t <= Len(cm.doc)
    BY <1>1
<1>4. none \in Seq(AnyLetter) /\ IsSeq(none)
    BY IsSeqEmpty
<1>5. Edit(<<c>>)
    BY <1>2 DEF Change
<1> HIDE DEF t, none
<1>6. IsChange(c) /\ c.from = p /\ c.to = t /\ c.insert = none
    BY <1>3, <1>4, ChangeFields
<1>7. InRange(c, cm.doc)
    BY <1>1, <1>3, <1>6, IsSeqIntro DEF InRange
<1> HIDE DEF c
<1>8. c.insert = << >>
    BY <1>6 DEF none
<1> QED BY <1>1, <1>4, <1>5, <1>6, <1>7, <1>8, EditOK

LEMMA UndoInSourceKeeps ==
    ASSUME EditorInv, UndoInSource
    PROVE  EditorInv' /\ EditorStep
<1> DEFINE v == Last(cm.undo)[1]
           front == Front(cm.undo)
<1>1. cm.undo # << >> /\ Dispatch(Last(cm.undo), front) /\ local' \in Nat
    BY DEF UndoInSource, EditorInv, CountersOK
<1>2. UndoOK(cm.undo, cm.doc)
    BY DEF EditorInv, SourceOK
<1>3. /\ Last(cm.undo) = <<v>> /\ TakesBack(v, cm.doc) /\ v.insert \in Seq(AnyLetter)
      /\ UndoOK(front, ApplyTextChange(cm.doc, v))
    BY <1>1, <1>2, UndoFront
<1>4. InRange(v, cm.doc)
    BY <1>3 DEF TakesBack
<1> HIDE DEF front
<1>5. Dispatch(<<v>>, front)
    BY <1>1, <1>3
<1> HIDE DEF v
<1>6. /\ EditorInv' /\ LandsWhereMade /\ ReconcilesSilently
      /\ cm'.doc = ApplyTextChange(cm.doc, v)
    BY <1>1, <1>3, <1>4, <1>5, DispatchOK
<1>7. SparesOthers
    BY <1>3, <1>6, TakenAreOwn DEF SparesOthers
<1> QED BY <1>6, <1>7 DEF EditorStep

LEMMA SelectInSourceKeeps ==
    ASSUME EditorInv, SelectInSource \/ ThrottleTimer
    PROVE  EditorInv' /\ EditorStep
<1>1. /\ UNCHANGED <<text, peer, document, value, shown, mode, here, cm, rich, dialog, local, remote>>
    BY DEF SelectInSource, ThrottleTimer, docVars, pageVars, counters
<1>2. CountersOK'
  <2>1. CASE SelectInSource
      BY <1>1, <2>1, SelectionOK DEF SelectInSource, EditorInv, CountersOK
  <2>2. CASE ThrottleTimer
      BY <1>1, <2>2 DEF ThrottleTimer, FreshThrottle, counters, EditorInv, CountersOK
  <2> QED BY <2>1, <2>2
<1>3. RichOK(rich') /\ DialogOK'
    BY <1>1, RichStays
<1>4. EditorStep
    BY <1>1, QuietStep DEF EditorInv
<1>5. text' \in Seq(AnyLetter) /\ PeerOK' /\ SourceOK(cm')
    BY <1>1 DEF EditorInv, PeerOK
<1> QED BY <1>2, <1>3, <1>4, <1>5 DEF EditorInv

---------------------------------------------------------------------------
(* The WYSIWYG view's actions, the dialog's and the others'.               *)

\* A step that leaves the source view and the page's text as they are.
LEMMA AwayFromSource ==
    ASSUME EditorInv, UNCHANGED <<value, shown, mode, here, cm, throttle, reported>>,
           local' \in Nat, remote' \in Nat, carets' \in Nat, carets <= carets',
           document' \in Nat, document <= document',
           text' \in Seq(AnyLetter), PeerOK', RichOK(rich'), DialogOK'
    PROVE  EditorInv' /\ EditorStep
<1>1. CountersOK'
    BY DEF EditorInv, CountersOK
<1>2. SourceOK(cm')
    BY DEF EditorInv
<1>3. EditorStep
    BY QuietStep DEF EditorInv
<1> QED BY <1>1, <1>2, <1>3 DEF EditorInv

\* Blocks are edited only where nothing is to be decided.
LEMMA EditBlocksKeeps ==
    ASSUME EditorInv, Editable, NEW blocks \in Seq(AnyLetter), NEW caret \in 0..Len(blocks),
           EditBlocks(blocks, caret), local' \in Nat, carets' \in Nat, carets <= carets'
    PROVE  EditorInv' /\ EditorStep
<1> DEFINE timer == <<shown>>
<1>1. RichOK(rich) /\ DialogOK /\ CountersOK /\ PeerOK /\ text \in Seq(AnyLetter)
    BY DEF EditorInv
<1>2. rich' = [rich EXCEPT !.blocks = blocks, !.caret = caret, !.timer = timer]
    BY DEF EditBlocks
<1>3. UNCHANGED <<text, peer, document, value, shown, mode, here, cm, throttle, reported,
                  dialog, remote>>
    BY DEF EditBlocks, docVars, pageVars, sourceVars
<1>4. RichMounted /\ rich.pending = << >> /\ dialog = << >>
    BY DEF Editable
<1> HIDE DEF timer
<1>5. rich' = [blocks |-> blocks, caret |-> caret, known |-> rich.known, timer |-> timer,
               pending |-> rich.pending, entered |-> rich.entered]
    BY <1>1, <1>2 DEF RichOK
<1>6. /\ rich'.blocks = blocks /\ rich'.caret = caret /\ rich'.known = rich.known
      /\ rich'.timer = timer /\ rich'.pending = rich.pending /\ rich'.entered = rich.entered
    BY <1>5
<1>7. RichOK(rich')
    BY <1>1, <1>4, <1>5, <1>6 DEF RichOK
<1>8. DialogOK'
    BY <1>3, <1>4 DEF DialogOK, RichMounted
<1>9. PeerOK' /\ text' \in Seq(AnyLetter)
    BY <1>1, <1>3 DEF PeerOK
<1>10. remote' \in Nat /\ document' \in Nat /\ document <= document'
    BY <1>1, <1>3 DEF CountersOK
<1> QED BY <1>3, <1>7, <1>8, <1>9, <1>10, AwayFromSource

LEMMA TypeInRichKeeps ==
    ASSUME EditorInv, TypeInRich
    PROVE  EditorInv' /\ EditorStep
<1> DEFINE l == Letter("me", "plain")
<1>1. RichOK(rich) /\ local \in Nat /\ remote \in Nat /\ carets \in Nat
    BY DEF EditorInv, CountersOK
<1>2. Editable /\ local' \in Nat /\ carets' \in Nat /\ carets <= carets'
    BY <1>1 DEF TypeInRich
<1>3. l \in AnyLetter
    BY <1>1, LetterOK DEF Kinds
<1>4. rich.blocks \in Seq(AnyLetter) /\ Len(rich.blocks) \in Nat
      /\ DOMAIN rich.blocks = 1..Len(rich.blocks)
    BY <1>1, LenProperties DEF RichOK
<1>5. \/ \E i \in DOMAIN rich.blocks : EditBlocks([rich.blocks EXCEPT ![i] = l], i)
      \/ EditBlocks(Append(rich.blocks, l), Len(rich.blocks) + 1)
    BY DEF TypeInRich
<1> HIDE DEF l
<1>6. CASE \E i \in DOMAIN rich.blocks : EditBlocks([rich.blocks EXCEPT ![i] = l], i)
  <2>1. PICK i \in DOMAIN rich.blocks : EditBlocks([rich.blocks EXCEPT ![i] = l], i)
      BY <1>6
  <2> DEFINE b == [rich.blocks EXCEPT ![i] = l]
  <2>2. b \in Seq(AnyLetter) /\ Len(b) = Len(rich.blocks)
      BY <1>3, <1>4, ReplaceInSeq
  <2>3. i \in 0..Len(b) /\ EditBlocks(b, i)
      BY <1>4, <2>1, <2>2
  <2> HIDE DEF b
  <2> QED BY <1>2, <2>2, <2>3, EditBlocksKeeps
<1>7. CASE EditBlocks(Append(rich.blocks, l), Len(rich.blocks) + 1)
  <2> DEFINE b == Append(rich.blocks, l)
             i == Len(rich.blocks) + 1
  <2>1. b \in Seq(AnyLetter) /\ Len(b) = Len(rich.blocks) + 1
      BY <1>3, <1>4, AppendProperties
  <2>2. i \in 0..Len(b) /\ EditBlocks(b, i)
      BY <1>4, <1>7, <2>1
  <2> HIDE DEF b, i
  <2> QED BY <1>2, <2>1, <2>2, EditBlocksKeeps
<1> QED BY <1>5, <1>6, <1>7

LEMMA EraseInRichKeeps ==
    ASSUME EditorInv, EraseInRich
    PROVE  EditorInv' /\ EditorStep
<1>1. RichOK(rich) /\ local \in Nat /\ carets \in Nat
    BY DEF EditorInv, CountersOK
<1>2. Editable /\ local' \in Nat /\ carets' \in Nat /\ carets <= carets'
    BY <1>1 DEF EraseInRich
<1>3. PICK i \in DOMAIN rich.blocks : EditBlocks(RemoveAt(rich.blocks, i), 0)
    BY DEF EraseInRich
<1> DEFINE b == RemoveAt(rich.blocks, i)
<1>4. b \in Seq(AnyLetter)
    BY <1>1, RemoveInSeq DEF RichOK
<1>5. EditBlocks(b, 0)
    BY <1>3
<1> HIDE DEF b
<1>6. 0 \in 0..Len(b)
    BY <1>4, LenProperties
<1> QED BY <1>2, <1>4, <1>5, <1>6, EditBlocksKeeps

LEMMA SelectInRichKeeps ==
    ASSUME EditorInv, SelectInRich
    PROVE  EditorInv' /\ EditorStep
<1>1. RichOK(rich) /\ local \in Nat /\ carets \in Nat
    BY DEF EditorInv, CountersOK
<1>2. Editable /\ local' \in Nat /\ carets' \in Nat /\ carets <= carets'
    BY <1>1 DEF SelectInRich
<1>3. PICK i \in DOMAIN rich.blocks : EditBlocks(rich.blocks, i)
    BY DEF SelectInRich
<1>4. rich.blocks \in Seq(AnyLetter)
    BY <1>1 DEF RichOK
<1>5. i \in 0..Len(rich.blocks)
    BY <1>4, LenProperties
<1> QED BY <1>2, <1>3, <1>4, <1>5, EditBlocksKeeps

\* What has been edited is emitted, against what the view last knew.
LEMMA FlushKeeps ==
    ASSUME EditorInv, FlushLocalEdit
    PROVE  EditorInv' /\ EditorStep
<1> DEFINE none == << >>
           changes == ComputeTextChange(rich.known, rich.blocks)
           session == rich.timer[1]
<1>1. RichOK(rich) /\ DialogOK /\ CountersOK /\ PeerOK /\ text \in Seq(AnyLetter)
    BY DEF EditorInv
<1>2. /\ rich' = [rich EXCEPT !.timer = none, !.known = rich.blocks]
      /\ text' = Emitted(session, changes)
      /\ UNCHANGED <<peer, document, value, shown, mode, here, cm, throttle, reported,
                     dialog, local, remote, carets>>
    BY DEF FlushLocalEdit, pageVars, sourceVars, counters
<1>3. rich.blocks \in Seq(AnyLetter) /\ rich.known \in Seq(AnyLetter)
    BY <1>1 DEF RichOK
<1>4. \/ changes = << >>
      \/ \E c : changes = <<c>> /\ InRange(c, rich.known) /\ c.insert \in Seq(AnyLetter)
    BY <1>3, ReplacementOK
<1> HIDE DEF changes, session
<1>5. text' \in Seq(AnyLetter)
  <2>1. CASE changes = << >>
      BY <1>1, <1>2, <2>1, EmittedNone
  <2>2. ASSUME NEW c, changes = <<c>>, InRange(c, rich.known), c.insert \in Seq(AnyLetter)
        PROVE  text' \in Seq(AnyLetter)
    <3>1. IsChange(c)
        BY <2>2 DEF InRange
    <3>2. Emitted(session, <<c>>) \in Seq(AnyLetter)
        BY <1>1, <2>2, <3>1, EmittedOK
    <3> QED BY <1>2, <2>2, <3>2
  <2> QED BY <1>4, <2>1, <2>2
<1> HIDE DEF none
<1>6. rich' = [blocks |-> rich.blocks, caret |-> rich.caret, known |-> rich.blocks,
               timer |-> none, pending |-> rich.pending, entered |-> rich.entered]
    BY <1>1, <1>2 DEF RichOK
<1>7. /\ rich'.blocks = rich.blocks /\ rich'.caret = rich.caret /\ rich'.known = rich.blocks
      /\ rich'.timer = none /\ rich'.pending = rich.pending /\ rich'.entered = rich.entered
    BY <1>6
<1>8. RichOK(rich') /\ rich'.timer = << >>
    BY <1>1, <1>6, <1>7 DEF RichOK, none
<1>9. DialogOK'
    BY <1>1, <1>2, <1>8 DEF DialogOK, RichMounted
<1>10. PeerOK'
    BY <1>1, <1>2 DEF PeerOK
<1>11. /\ local' \in Nat /\ remote' \in Nat /\ carets' \in Nat /\ carets <= carets'
       /\ document' \in Nat /\ document <= document'
    BY <1>1, <1>2 DEF CountersOK
<1> QED BY <1>2, <1>5, <1>8, <1>9, <1>10, <1>11, AwayFromSource

\* The whole text is replaced by what the view would write.
LEMMA ConfirmKeeps ==
    ASSUME EditorInv, ConfirmNormalization
    PROVE  EditorInv' /\ EditorStep
<1> DEFINE none == << >>
           after == dialog[1].after
           before == dialog[1].before
           session == dialog[1].onChange
           c == Change(0, Len(before), after)
<1>1. RichOK(rich) /\ DialogOK /\ CountersOK /\ PeerOK /\ text \in Seq(AnyLetter)
    BY DEF EditorInv
<1>2. /\ rich' = [rich EXCEPT !.known = after, !.pending = none, !.entered = after]
      /\ text' = Emitted(session, <<c>>)
      /\ dialog # << >> /\ dialog' = << >>
      /\ UNCHANGED <<peer, document, value, shown, mode, here, cm, throttle, reported,
                     local, remote, carets>>
    BY DEF ConfirmNormalization, pageVars, sourceVars, counters, Change
<1>3. RichMounted /\ IsSeq(before) /\ after \in Seq(AnyLetter)
    BY <1>1, <1>2 DEF DialogOK
<1> HIDE DEF after, before, session
<1>4. Len(before) \in Nat
    BY <1>3, IsSeqLen
<1>5. IsChange(c) /\ c.insert = after
  <2> DEFINE t == Len(before)
             z == 0
  <2>1. z \in Nat /\ t \in Nat /\ z <= t /\ IsSeq(after)
      BY <1>3, <1>4, IsSeqIntro
  <2> HIDE DEF t, z
  <2>2. IsChange(Change(z, t, after)) /\ Change(z, t, after).insert = after
      BY <2>1, ChangeFields
  <2> QED BY <2>2 DEF t, z
<1> HIDE DEF c
<1>6. text' \in Seq(AnyLetter)
    BY <1>1, <1>2, <1>3, <1>5, EmittedOK
<1> HIDE DEF none
<1>7. rich' = [blocks |-> rich.blocks, caret |-> rich.caret, known |-> after,
               timer |-> rich.timer, pending |-> none, entered |-> after]
    BY <1>1, <1>2 DEF RichOK
<1>8. /\ rich'.blocks = rich.blocks /\ rich'.caret = rich.caret /\ rich'.known = after
      /\ rich'.timer = rich.timer /\ rich'.pending = none /\ rich'.entered = after
    BY <1>7
<1>9. RichOK(rich')
    BY <1>1, <1>3, <1>7, <1>8 DEF RichOK, none
<1>10. DialogOK'
    BY <1>2, <1>3 DEF DialogOK, RichMounted
<1>11. PeerOK'
    BY <1>1, <1>2 DEF PeerOK
<1>12. /\ local' \in Nat /\ remote' \in Nat /\ carets' \in Nat /\ carets <= carets'
       /\ document' \in Nat /\ document <= document'
    BY <1>1, <1>2 DEF CountersOK
<1> QED BY <1>2, <1>6, <1>9, <1>10, <1>11, <1>12, AwayFromSource

LEMMA RemoteEditKeeps ==
    ASSUME EditorInv, RemoteEdit
    PROVE  EditorInv' /\ EditorStep
<1>1. RichOK(rich) /\ DialogOK /\ CountersOK /\ PeerOK /\ text \in Seq(AnyLetter)
    BY DEF EditorInv
<1>2. /\ remote' = remote + 1
      /\ UNCHANGED <<document, value, shown, mode, here, cm, throttle, reported, rich, dialog,
                     local, carets>>
    BY DEF RemoteEdit, pageVars, sourceVars
<1>3. Len(text) \in Nat /\ DOMAIN text = 1..Len(text)
    BY <1>1, LenProperties
<1>4. text' \in Seq(AnyLetter) /\ PeerOK'
  <2>1. \A kind \in RemoteKinds : Letter("them", kind) \in AnyLetter
    <3>1. ASSUME NEW kind \in RemoteKinds PROVE Letter("them", kind) \in AnyLetter
      <4>1. kind \in Kinds /\ local \in Nat /\ remote \in Nat
          BY <1>1, EditorAssumption DEF CountersOK
      <4> QED BY <4>1, LetterOK
    <3> QED BY <3>1
  <2>2. CASE UNCHANGED peer /\ \E p \in 0..Len(text), kind \in RemoteKinds :
                                  text' = InsertAt(text, p + 1, Letter("them", kind))
    <3>1. PICK p \in 0..Len(text), kind \in RemoteKinds :
                  text' = InsertAt(text, p + 1, Letter("them", kind))
        BY <2>2
    <3> DEFINE x == Letter("them", kind)
    <3>2. x \in AnyLetter /\ text' = InsertAt(text, p + 1, x)
        BY <2>1, <3>1
    <3> HIDE DEF x
    <3>3. text' \in Seq(AnyLetter)
        BY <1>1, <3>2, InsertInSeq
    <3> QED BY <1>1, <2>2, <3>3 DEF PeerOK
  <2>3. CASE UNCHANGED peer /\ \E i \in DOMAIN text : text' = RemoveAt(text, i)
      BY <1>1, <2>3, RemoveInSeq DEF PeerOK
  <2>4. CASE UNCHANGED peer /\ \E i \in DOMAIN text, kind \in RemoteKinds :
                                  text' = [text EXCEPT ![i] = Letter("them", kind)]
    <3>1. PICK i \in DOMAIN text, kind \in RemoteKinds :
                  text' = [text EXCEPT ![i] = Letter("them", kind)]
        BY <2>4
    <3> DEFINE x == Letter("them", kind)
    <3>2. x \in AnyLetter /\ text' = [text EXCEPT ![i] = x]
        BY <2>1, <3>1
    <3> HIDE DEF x
    <3>3. text' \in Seq(AnyLetter)
        BY <1>1, <3>2, ReplaceInSeq
    <3> QED BY <1>1, <2>4, <3>3 DEF PeerOK
  <2>5. CASE peer' \in {<<p>> : p \in 0..Len(text)} \ {peer} /\ UNCHANGED text
      BY <1>1, <1>3, <2>5 DEF PeerOK
  <2> QED BY <2>2, <2>3, <2>4, <2>5 DEF RemoteEdit
<1>5. /\ local' \in Nat /\ remote' \in Nat /\ carets' \in Nat /\ carets <= carets'
      /\ document' \in Nat /\ document <= document'
    BY <1>1, <1>2 DEF CountersOK
<1>6. RichOK(rich') /\ DialogOK'
    BY <1>2, RichStays
<1> QED BY <1>2, <1>4, <1>5, <1>6, AwayFromSource

LEMMA SwitchKeeps ==
    ASSUME EditorInv, SwitchDocument
    PROVE  EditorInv' /\ EditorStep
<1>1. /\ document' = document + 1 /\ text' = << >> /\ peer' = << >>
      /\ UNCHANGED <<value, shown, mode, here, cm, throttle, reported, rich, dialog,
                     local, remote, carets>>
    BY DEF SwitchDocument, pageVars, sourceVars, counters
<1>2. /\ local' \in Nat /\ remote' \in Nat /\ carets' \in Nat /\ carets <= carets'
      /\ document' \in Nat /\ document <= document'
    BY <1>1 DEF EditorInv, CountersOK
<1>3. RichOK(rich') /\ DialogOK'
    BY <1>1, RichStays
<1>4. text' \in Seq(AnyLetter) /\ PeerOK'
    BY <1>1 DEF PeerOK
<1> QED BY <1>1, <1>2, <1>3, <1>4, AwayFromSource

---------------------------------------------------------------------------
(* Rendering.                                                              *)

\* A view that is mounted has the session's text.
LEMMA MountOK ==
    ASSUME EditorInv, NEW m, MountView(m), mode' = m, UNCHANGED docVars,
           UNCHANGED <<reported, local, remote, carets>>,
           mode' # mode \/ here' # here
    PROVE  EditorInv' /\ EditorStep
<1> DEFINE there == m = "wysiwyg" /\ m \in here'
<1>1. RichOK(rich) /\ CountersOK /\ PeerOK /\ text \in Seq(AnyLetter)
    BY DEF EditorInv
<1>2. /\ text' = text /\ peer' = peer /\ document' = document
      /\ value' = text /\ shown' = document /\ throttle' = FreshThrottle
    BY DEF MountView, docVars
<1>3. CountersOK'
  <2>1. throttle'.timer = FALSE /\ throttle'.pending = 0
      BY <1>2 DEF FreshThrottle
  <2> QED BY <1>1, <1>2, <2>1 DEF CountersOK
<1>4. text' \in Seq(AnyLetter) /\ PeerOK'
    BY <1>1, <1>2 DEF PeerOK
<1>5. SourceOK(cm') /\ (m # "wysiwyg" => cm'.doc = text)
  <2>1. cm' = IF m = "wysiwyg" THEN NoSource ELSE FreshSource(text)
      BY DEF MountView
  <2> QED BY <1>1, <2>1, FreshSourceOK, NoSourceOK
<1>6. RichOK(rich') /\ rich'.timer = << >> /\ (there => rich'.pending = CheckRoundTrip(text))
  <2>1. rich' = FreshRich(text) \/ rich' = FreshRich(<< >>)
      BY DEF MountView, NoRich
  <2>2. there => rich' = FreshRich(text)
      BY DEF MountView
  <2>3. << >> \in Seq(AnyLetter)
      OBVIOUS
  <2> QED BY <1>1, <2>1, <2>2, <2>3, FreshRichOK
<1>7. DialogOK'
  <2>1. CASE there
    <3>1. dialog' = Asked(rich', document)
        BY <2>1 DEF MountView
    <3>2. RichMounted'
        BY <2>1 DEF RichMounted
    <3> DEFINE d == Deserialize(text)
    <3>3. IsSeq(text) /\ d \in Seq(AnyLetter)
        BY <1>1, IsSeqIntro, DeserializedInSeq
    <3> HIDE DEF d
    <3>4. rich'.pending = IF d = text THEN << >> ELSE <<[before |-> text, after |-> d]>>
        BY <1>6, <2>1 DEF CheckRoundTrip, d
    <3>5. dialog' # << >> => dialog'[1].before = text /\ dialog'[1].after = d
        BY <3>1, <3>4 DEF Asked
    <3> QED BY <1>6, <3>2, <3>3, <3>5 DEF DialogOK
  <2>2. CASE ~there
      BY <1>6, <2>2 DEF MountView, DialogOK
  <2> QED BY <2>1, <2>2
<1>8. EditorStep
  <2>1. ReconcilesSilently
      BY <1>2, <1>5 DEF ReconcilesSilently, SourceMounted
  <2>2. SparesOthers
      BY DEF SparesOthers
  <2>3. LandsWhereMade
      BY <1>2, <1>5 DEF LandsWhereMade, SourceMounted
  <2> QED BY <2>1, <2>2, <2>3 DEF EditorStep
<1> QED BY <1>3, <1>4, <1>5, <1>6, <1>7, <1>8 DEF EditorInv

LEMMA MountKeeps ==
    ASSUME EditorInv,
           \/ ChunkLoaded \/ StayInSource
           \/ \E m \in {"source", "split", "wysiwyg"} : SetViewMode(m)
    PROVE  EditorInv' /\ EditorStep
<1>1. CASE ChunkLoaded
  <2>1. mode' = mode /\ here' # here /\ MountView(mode) /\ UNCHANGED docVars
        /\ UNCHANGED <<reported, local, remote, carets>>
      BY <1>1 DEF ChunkLoaded, counters
  <2> QED BY <2>1, MountOK
<1>2. CASE StayInSource
  <2>1. mode' = "source" /\ MountView("source") /\ UNCHANGED docVars
        /\ UNCHANGED <<reported, local, remote, carets>>
      BY <1>2 DEF StayInSource, counters
  <2>2. mode' # mode
      BY <1>2, <2>1 DEF StayInSource, EditorInv, DialogOK, RichMounted
  <2> QED BY <2>1, <2>2, MountOK
<1>3. ASSUME NEW m, SetViewMode(m)
      PROVE  EditorInv' /\ EditorStep
    BY <1>3, MountOK DEF SetViewMode
<1> QED BY <1>1, <1>2, <1>3

\* Others' edits reach the source view, and nothing goes back.
LEMMA RenderSource ==
    ASSUME EditorInv, Render, SourceMounted
    PROVE  /\ SourceOK(cm') /\ cm'.doc = IF value # text THEN text ELSE cm.doc
           /\ Len(cm'.undo) = Len(cm.undo)
           /\ value = text /\ cm' # cm => cm'.doc = cm.doc
<1> DEFINE next == RemoteCursors(peer, text)
           changes == IF value # text THEN ComputeMinimalReplace(cm.doc, text) ELSE << >>
           x == FoldLeft(Reconciled, cm, changes)
<1>1. SourceOK(cm) /\ PeerOK /\ text \in Seq(AnyLetter)
    BY DEF EditorInv
<1>2. cm' = DrawCursors(x, next)
    BY DEF Render
<1>3. \A i \in DOMAIN next : next[i] \in Nat
    BY <1>1, CursorsOK
<1>4. /\ SourceOK(x) /\ Len(x.undo) = Len(cm.undo)
      /\ x.doc = IF value # text THEN text ELSE cm.doc
  <2>1. CASE changes = << >> /\ (value # text => cm.doc = text)
    <3>1. x = cm
        BY <2>1, ReconciledNone
    <3> QED BY <1>1, <2>1, <3>1
  <2>2. ASSUME NEW c, changes = <<c>>, value # text, InRange(c, cm.doc),
               c.insert \in Seq(AnyLetter), ApplyTextChange(cm.doc, c) = text
        PROVE  /\ SourceOK(x) /\ Len(x.undo) = Len(cm.undo)
               /\ x.doc = IF value # text THEN text ELSE cm.doc
    <3>1. x = Reconciled(cm, c)
        BY <2>2, ReconciledOne
    <3> QED BY <1>1, <2>2, <3>1, ReconciledOK
  <2>3. cm.doc \in Seq(AnyLetter)
      BY <1>1 DEF SourceOK
  <2>4. CASE value = text
      BY <2>1, <2>4
  <2>5. CASE value # text
    <3>1. changes = ComputeTextChange(cm.doc, text)
        BY <2>5 DEF ComputeMinimalReplace
    <3> HIDE DEF x
    <3>2. \/ cm.doc = text /\ changes = << >>
          \/ \E c : /\ changes = <<c>> /\ InRange(c, cm.doc)
                    /\ c.insert \in Seq(AnyLetter) /\ ApplyTextChange(cm.doc, c) = text
        BY <1>1, <2>3, <3>1, ReplacementOK
    <3> HIDE DEF changes
    <3> QED BY <2>1, <2>2, <2>5, <3>2
  <2> QED BY <2>4, <2>5
<1> HIDE DEF x, next
<1>5. SourceOK(cm') /\ cm'.doc = x.doc /\ cm'.undo = x.undo
    BY <1>2, <1>3, <1>4, DrawCursorsOK
<1> QED BY <1>4, <1>5

LEMMA RenderKeeps ==
    ASSUME EditorInv, Render
    PROVE  EditorInv' /\ EditorStep
<1>1. RichOK(rich) /\ DialogOK /\ CountersOK /\ PeerOK /\ text \in Seq(AnyLetter) /\ SourceOK(cm)
    BY DEF EditorInv
<1>2. /\ text' = text /\ value' = text /\ shown' = document
      /\ UNCHANGED <<peer, document, mode, here, throttle, reported, dialog,
                     local, remote, carets>>
    BY DEF Render, counters, Emitted, FromListener
<1>3. SourceOK(cm') /\ EditorStep
  <2>1. CASE ~SourceMounted
    <3>1. cm' = cm /\ ~SourceMounted'
        BY <1>2, <2>1 DEF Render, SourceMounted
    <3>2. Len(cm.undo) \in Nat
        BY <1>1, IsSeqLen DEF SourceOK, UndoOK
    <3> QED BY <1>1, <1>2, <2>1, <3>1, <3>2
            DEF EditorStep, LandsWhereMade, ReconcilesSilently, SparesOthers
  <2>2. CASE SourceMounted
    <3>1. /\ SourceOK(cm') /\ cm'.doc = IF value # text THEN text ELSE cm.doc
          /\ Len(cm'.undo) = Len(cm.undo)
        BY <2>2, RenderSource
    <3>2. Len(cm.undo) \in Nat
        BY <1>1, IsSeqLen DEF SourceOK, UndoOK
    <3> QED BY <1>2, <2>2, <3>1, <3>2
            DEF EditorStep, LandsWhereMade, ReconcilesSilently, SparesOthers
  <2> QED BY <2>1, <2>2
<1>4. RichOK(rich') /\ rich'.pending = rich.pending
      /\ (rich'.timer # << >> => rich.timer # << >> \/ RichMounted)
  <2>1. CASE RichMounted /\ value # text
    <3>1. rich' = RichEffect(rich, text, document)
        BY <2>1 DEF Render
    <3> QED BY <1>1, <2>1, <3>1, RichEffectOK
  <2>2. CASE ~(RichMounted /\ value # text)
    <3>1. rich' = rich
        BY <2>2 DEF Render
    <3> QED BY <1>1, <3>1
  <2> QED BY <2>1, <2>2
<1>5. DialogOK'
    BY <1>1, <1>2, <1>4 DEF DialogOK, RichMounted
<1>6. CountersOK' /\ PeerOK' /\ text' \in Seq(AnyLetter)
    BY <1>1, <1>2 DEF CountersOK, PeerOK
<1> QED BY <1>3, <1>4, <1>5, <1>6 DEF EditorInv

---------------------------------------------------------------------------
(* All steps.                                                              *)

LEMMA InitEditor == Init => EditorInv
<1> SUFFICES ASSUME Init PROVE EditorInv
    OBVIOUS
<1>1. /\ text = Given /\ document = 0 /\ peer = <<Len(Given)>> /\ shown = 0
      /\ cm = FreshSource(Given) /\ throttle = FreshThrottle /\ reported = 0
      /\ rich = FreshRich(<< >>) /\ dialog = << >>
      /\ local = 0 /\ remote = 0 /\ carets = 0
    BY DEF Init, EditorInit, NoRich
<1>2. Given \in Seq(AnyLetter) /\ Len(Given) \in Nat
    BY EditorAssumption, LenProperties
<1>3. PeerOK
    BY <1>1, <1>2 DEF PeerOK
<1>4. SourceOK(cm)
    BY <1>1, <1>2, <1>3, FreshSourceOK
<1>5. RichOK(rich) /\ rich.timer = << >>
  <2>1. << >> \in Seq(AnyLetter)
      OBVIOUS
  <2> QED BY <1>1, <2>1, FreshRichOK
<1>6. CountersOK
  <2>1. throttle.timer = FALSE /\ throttle.pending = 0
      BY <1>1 DEF FreshThrottle
  <2> QED BY <1>1, <2>1 DEF CountersOK
<1> QED BY <1>1, <1>2, <1>3, <1>4, <1>5, <1>6 DEF EditorInv, DialogOK

\* A step elsewhere on the page, and none.
LEMMA ElsewhereKeeps ==
    ASSUME EditorInv, UNCHANGED editorVars
    PROVE  EditorInv' /\ EditorStep
<1>1. UNCHANGED <<text, peer, document, value, shown, mode, here, cm, throttle, reported, rich,
                  dialog, local, remote, carets>>
    BY DEF editorVars, docVars, pageVars, sourceVars, counters
<1>2. EditorStep
    BY <1>1, QuietStep DEF EditorInv
<1> QED BY <1>1, <1>2 DEF EditorInv, CountersOK, PeerOK, DialogOK, RichMounted

LEMMA NextEditor ==
    ASSUME ChangesAtOnce = 1
    PROVE  EditorInv /\ [Next]_vars => EditorInv' /\ EditorStep
<1> SUFFICES ASSUME EditorInv, [Next]_vars PROVE EditorInv' /\ EditorStep
    OBVIOUS
<1>1. CASE ChunkLoaded \/ StayInSource \/ \E m \in {"source", "split", "wysiwyg"} : SetViewMode(m)
    BY <1>1, MountKeeps
<1>2. CASE Render
    BY <1>2, RenderKeeps
<1>3. CASE TypeInSource
    BY <1>3, TypeInSourceKeeps
<1>4. CASE EraseInSource
    BY <1>4, EraseInSourceKeeps
<1>5. CASE UndoInSource
    BY <1>5, UndoInSourceKeeps
<1>6. CASE SelectInSource \/ ThrottleTimer
    BY <1>6, SelectInSourceKeeps
<1>7. CASE TypeInRich
    BY <1>7, TypeInRichKeeps
<1>8. CASE EraseInRich
    BY <1>8, EraseInRichKeeps
<1>9. CASE SelectInRich
    BY <1>9, SelectInRichKeeps
<1>10. CASE FlushLocalEdit
    BY <1>10, FlushKeeps
<1>11. CASE ConfirmNormalization
    BY <1>11, ConfirmKeeps
<1>12. CASE RemoteEdit
    BY <1>12, RemoteEditKeeps
<1>13. CASE SwitchDocument
    BY <1>13, SwitchKeeps
<1>14. CASE GetMermaid \/ GetHighlighter \/ EnsureLang \/ JobDone \/ UNCHANGED vars
  <2>1. UNCHANGED editorVars
      BY <1>14 DEF GetMermaid, GetHighlighter, EnsureLang, Imported, JobDone, vars
  <2> QED BY <2>1, ElsewhereKeeps
<1> QED BY <1>1, <1>2, <1>3, <1>4, <1>5, <1>6, <1>7, <1>8, <1>9, <1>10, <1>11, <1>12, <1>13, <1>14
        DEF Next, Rendering, Editing

\* A fence is followed only while the preview is there.
FenceHasPreview == fence # << >> => PreviewMounted

LEMMA NextFence ==
    PreviewInv /\ FenceHasPreview /\ [Next]_vars => FenceHasPreview'
<1> SUFFICES ASSUME PreviewInv, FenceHasPreview, [Next]_vars PROVE FenceHasPreview'
    OBVIOUS
<1>1. CASE Rendering /\ FenceEffect(value', PreviewMounted')
  <2> DEFINE code == IF PreviewMounted' /\ Fences(value') # << >>
                     THEN <<Head(Fences(value'))>> ELSE << >>
  <2>1. SUFFICES ASSUME ~PreviewMounted' PROVE fence' = << >>
      BY DEF FenceHasPreview
  <2>2. code = << >>
      BY <2>1
  <2>3. fence' = [i \in DOMAIN code |-> [code |-> code[i], state |-> "loading", of |-> << >>]]
      BY <1>1, <2>2 DEF FenceEffect
  <2>4. DOMAIN code = {}
      BY <2>2
  <2> QED BY <2>3, <2>4
<1>2. CASE UNCHANGED <<mode, here, fence>>
    BY <1>2 DEF FenceHasPreview, PreviewMounted
<1>3. CASE Editing /\ UNCHANGED previewVars
  <2>1. UNCHANGED <<mode, here>>
      BY <1>3 DEF Editing, TypeInSource, EraseInSource, UndoInSource, Edit, Dispatch,
                  SelectInSource, ThrottleTimer, TypeInRich, EraseInRich, SelectInRich,
                  EditBlocks, FlushLocalEdit, ConfirmNormalization, RemoteEdit,
                  SwitchDocument, pageVars
  <2> QED BY <1>2, <1>3, <2>1 DEF previewVars
<1>4. CASE GetMermaid \/ GetHighlighter \/ EnsureLang \/ UNCHANGED vars
    BY <1>2, <1>4 DEF GetMermaid, GetHighlighter, EnsureLang, Imported, editorVars, pageVars, vars, previewVars
<1>5. CASE JobDone
  <2>1. UNCHANGED <<mode, here>>
      BY <1>5 DEF JobDone, editorVars, pageVars
  <2>2. fence = << >> => fence' = << >>
    <3>1. SUFFICES ASSUME fence = << >> PROVE fence' = << >>
        OBVIOUS
    <3>2. \A job \in jobs : ~Shows(job)
        BY <3>1 DEF PreviewInv, PreviewShape, JobsAreForFence, Shows
    <3> QED BY <1>5, <3>1, <3>2 DEF JobDone
  <2> QED BY <2>1, <2>2 DEF FenceHasPreview, PreviewMounted
<1> QED BY <1>1, <1>3, <1>4, <1>5 DEF Next

\* The invariants, together, give the types.
LEMMA TypesFollow == EditorInv /\ FenceHasPreview => TypeOK
<1> SUFFICES ASSUME EditorInv, FenceHasPreview PROVE TypeOK
    OBVIOUS
<1>1. \A s \in Seq(AnyLetter) : Letters(s) \subseteq AnyLetter
  <2>1. ASSUME NEW s \in Seq(AnyLetter), NEW i \in DOMAIN s PROVE s[i] \in AnyLetter
      BY LenProperties, ElementOfSeq
  <2> QED BY <2>1 DEF Letters, ToSet
<1>2. text \in Seq(AnyLetter) /\ cm.doc \in Seq(AnyLetter) /\ rich.blocks \in Seq(AnyLetter)
    BY DEF EditorInv, SourceOK, RichOK
<1>3. shown <= document /\ reported <= carets /\ throttle.pending <= carets
      /\ (throttle.timer <=> throttle.pending # 0)
    BY DEF EditorInv, CountersOK
<1>4. rich.caret <= Len(rich.blocks)
    BY <1>2, LenProperties DEF EditorInv, RichOK
<1>5. /\ dialog # << >> => RichMounted
      /\ rich.timer # << >> => RichMounted /\ rich.pending = << >>
      /\ \A i \in DOMAIN cm.drawn : cm.drawn[i] \in 0..Len(cm.doc)
    BY DEF EditorInv, DialogOK, RichOK, SourceOK
<1> QED BY <1>1, <1>2, <1>3, <1>4, <1>5 DEF TypeOK, FenceHasPreview

(***************************************************************************)
(* The theorems that follow are about edits of one change each: of several *)
(* changes at once, all in terms of the text before them, the session      *)
(* takes each to be in terms of the text after the others.                 *)
(*                                                                         *)
(* For any text, any kinds of letters and any number of edits, renderings  *)
(* and changes of view: what the views hold are texts, carets are within   *)
(* them, and a view holds back an edit, or asks, only while it is there.   *)
(***************************************************************************)
THEOREM PageTypeCorrect ==
    ASSUME ChangesAtOnce = 1
    PROVE  Spec => []TypeOK
<1>1. Init => EditorInv /\ PreviewInv /\ FenceHasPreview
  <2>1. Init => FenceHasPreview
      BY DEF Init, FenceHasPreview
  <2> QED BY <2>1, InitEditor, InitPreview
<1>2. EditorInv /\ PreviewInv /\ FenceHasPreview /\ [Next]_vars
         => EditorInv' /\ PreviewInv' /\ FenceHasPreview'
    BY NextEditor, NextPreview, NextFence
<1> QED BY <1>1, <1>2, TypesFollow, PTL DEF Spec

(***************************************************************************)
(* An edit of the source that is made in the session's text lands where it *)
(* was made, undone ones included: whatever the others' edits have made of *)
(* the history, an undo is a change of the present text                    *)
(* (SourceView.tsx updateListener, useCollabDocument's applyChange).       *)
(***************************************************************************)
THEOREM EditsLand ==
    ASSUME ChangesAtOnce = 1
    PROVE  Spec => EditsLandWhereMade
<1>1. EditorInv /\ [Next]_vars => EditorInv' /\ [LandsWhereMade]_vars
    BY NextEditor DEF EditorStep
<1>2. EditsLandWhereMade <=> [][LandsWhereMade]_vars
    BY DEF EditsLandWhereMade, LandsWhereMade
<1> QED BY InitEditor, <1>1, <1>2, PTL DEF Spec

(***************************************************************************)
(* Rendering the source view sends nothing back, and leaves it with the    *)
(* text that it was given: the one replacement which the view computes     *)
(* from its text makes the other out of it, whatever both are              *)
(* (SourceView.tsx computeMinimalReplace).                                 *)
(***************************************************************************)
THEOREM SourceStaysSilent ==
    ASSUME ChangesAtOnce = 1
    PROVE  Spec => SourceReconcilesSilently
<1>1. EditorInv /\ [Next]_vars => EditorInv' /\ [ReconcilesSilently]_vars
    BY NextEditor DEF EditorStep
<1>2. SourceReconcilesSilently <=> [][ReconcilesSilently]_vars
    BY DEF SourceReconcilesSilently, ReconcilesSilently
<1> QED BY InitEditor, <1>1, <1>2, PTL DEF Spec

(***************************************************************************)
(* However long the history and however it has been mapped: an undo takes  *)
(* away letters of this user's only (SourceView.tsx, addToHistory false).  *)
(***************************************************************************)
THEOREM OthersAreSpared ==
    ASSUME ChangesAtOnce = 1
    PROVE  Spec => UndoSparesOthers
<1>1. EditorInv /\ [Next]_vars => EditorInv' /\ [SparesOthers]_vars
    BY NextEditor DEF EditorStep
<1>2. UndoSparesOthers <=> [][SparesOthers]_vars
    BY DEF UndoSparesOthers, SparesOthers
<1> QED BY InitEditor, <1>1, <1>2, PTL DEF Spec
=============================================================================
