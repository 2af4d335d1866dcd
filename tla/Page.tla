-------------------------------- MODULE Page --------------------------------
(***************************************************************************)
(* The page: its editors (module Editor) and, in the split view, the       *)
(* rendered preview beside the source (web/src/markdown/pipeline.tsx).     *)
(* Rendering is synchronous but for code: a fence is highlighted (shiki)   *)
(* or drawn (mermaid) by a library that is loaded when first needed, and   *)
(* the results come later, in any order, perhaps for a fence that has been *)
(* edited since.                                                           *)
(*                                                                         *)
(* A letter of the kind "code" or "diagram" is a fence; the preview is     *)
(* followed for the first one.  All code is in one language.               *)
(***************************************************************************)
EXTENDS Editor

VARIABLES
    fence,  \* the component of the fence: << >> or <<[code, state, of]>>
    jobs,   \* what it has asked for: [code, cancelled]
    lib     \* what is imported for it: [mermaid, shiki, grammar], each
            \* "absent", "coming", "here" or "broken"

previewVars == <<fence, jobs, lib>>
vars == <<editorVars, previewVars>>

Fences(v) == SelectSeq(v, LAMBDA l : l.kind \in {"code", "diagram"})

Cancelled(js) == {[j EXCEPT !.cancelled = TRUE] : j \in js}

\* What a fence imports first.
Library(code) == IF code.kind = "diagram" THEN "mermaid" ELSE "shiki"

Requested(l, name) == IF l[name] = "absent" THEN [l EXCEPT ![name] = "coming"] ELSE l

\* The effect of the fence's component on its code, for the text v and whether
\* the preview is there to show it.
FenceEffect(v, mounted) ==
    LET code == IF mounted /\ Fences(v) # << >> THEN <<Head(Fences(v))>> ELSE << >>
        same == fence # << >> /\ code # << >> /\ fence[1].code = code[1]
    IN  IF same THEN UNCHANGED previewVars
        ELSE /\ fence' = [i \in DOMAIN code |->
                             [code |-> code[i], state |-> "loading", of |-> << >>]]
             /\ jobs' = Cancelled(jobs) \cup
                            {[code |-> c, cancelled |-> FALSE] : c \in ToSet(code)}
             /\ lib' = IF code = << >> THEN lib ELSE Requested(lib, Library(code[1]))

\* Dynamic imports: each promise is kept, whether it is fulfilled or rejected.
Imported(name) ==
    /\ lib[name] = "coming"
    /\ \E result \in {"here", "broken"} : lib' = [lib EXCEPT ![name] = result]
    /\ UNCHANGED <<editorVars, fence, jobs>>

GetMermaid == Imported("mermaid")

\* Whoever waits for the highlighter then asks for the grammar.
GetHighlighter ==
    /\ lib.shiki = "coming"
    /\ \/ lib' = [lib EXCEPT !.shiki = "broken"]
       \/ lib' = Requested([lib EXCEPT !.shiki = "here"], "grammar")
    /\ UNCHANGED <<editorVars, fence, jobs>>

\* A language that is not bundled is like one that cannot be loaded.
EnsureLang == Imported("grammar")

\* renderMermaidToSvg, which fails for a diagram with a mistake in it.
RenderMermaid ==
    CASE lib.mermaid = "here"   -> {"ready", "error"}
      [] lib.mermaid = "broken" -> {"error"}
      [] OTHER -> {}

\* highlightCode.  "plain": null, the code is shown as it is.
HighlightCode ==
    CASE lib.shiki = "broken"   -> {"rejected"}
      [] lib.grammar = "here"   -> {"ready"}
      [] lib.grammar = "broken" -> {"plain"}
      [] OTHER -> {}

\* Seeded fault: a result is shown whatever has become of its fence.
ShowsAnyway(job) == fence # << >>

\* The component sets its state only if the effect has not been cleaned up.
Shows(job) == ~job.cancelled

\* A rejected promise is caught for diagrams only.
JobDone ==
    /\ \E job \in jobs :
       \E result \in IF job.code.kind = "diagram" THEN RenderMermaid ELSE HighlightCode :
          /\ jobs' = jobs \ {job}
          /\ fence' = IF Shows(job) /\ result # "rejected"
                      THEN <<[fence[1] EXCEPT !.state = result, !.of = <<job.code>>]>>
                      ELSE fence
    /\ UNCHANGED <<editorVars, lib>>

---------------------------------------------------------------------------

Init ==
    /\ EditorInit
    /\ fence = << >> /\ jobs = {} /\ lib = [name \in {"mermaid", "shiki", "grammar"} |-> "absent"]

\* What renders the page, and with it the preview.
Rendering == ChunkLoaded \/ Render \/ StayInSource \/ \E m \in
                {"source", "split", "wysiwyg"} : SetViewMode(m)

Editing ==
    \/ TypeInSource \/ EraseInSource \/ UndoInSource
    \/ SelectInSource \/ ThrottleTimer
    \/ TypeInRich \/ EraseInRich \/ SelectInRich \/ FlushLocalEdit
    \/ ConfirmNormalization \/ RemoteEdit \/ SwitchDocument

Next ==
    \/ Rendering /\ FenceEffect(value', PreviewMounted')
    \/ Editing /\ UNCHANGED previewVars
    \/ GetMermaid \/ GetHighlighter \/ EnsureLang \/ JobDone

Spec == Init /\ [][Next]_vars

(* React renders what is due, timers fire, and imports and the promises    *)
(* that wait for them are settled.                                         *)
Fairness ==
    /\ WF_vars((ChunkLoaded \/ Render) /\ FenceEffect(value', PreviewMounted'))
    /\ WF_vars(ThrottleTimer /\ UNCHANGED previewVars)
    /\ WF_vars(FlushLocalEdit /\ UNCHANGED previewVars)
    /\ WF_vars(GetMermaid) /\ WF_vars(GetHighlighter) /\ WF_vars(EnsureLang)
    /\ WF_vars(JobDone)

FairSpec == Spec /\ Fairness

---------------------------------------------------------------------------
(* Properties.                                                             *)

Letters(doc) == ToSet(doc)

TypeOK ==
    /\ Letters(text) \cup Letters(cm.doc) \cup Letters(rich.blocks) \subseteq AnyLetter
    /\ shown <= document
    /\ reported <= carets /\ throttle.pending <= carets
    /\ throttle.timer <=> throttle.pending # 0
    /\ dialog # << >> => RichMounted
    /\ rich.timer # << >> => RichMounted /\ rich.pending = << >>
    /\ rich.caret <= Len(rich.blocks)
    /\ \A i \in DOMAIN cm.drawn : cm.drawn[i] \in 0..Len(cm.doc)
    /\ fence # << >> => PreviewMounted

(***************************************************************************)
(* An edit of the source lands where it was made: made in the session's    *)
(* text, it leaves the same text on both sides (SourceView.tsx: "value     *)
(* catching up with an edit we just emitted ourselves"; types.ts: an       *)
(* "offset into the current value").                                       *)
(***************************************************************************)
EditsLandWhereMade ==
    [][SourceMounted /\ cm' # cm /\ value' = value /\ mode' = mode
          /\ cm.doc = text /\ shown = document
       => text' = cm'.doc]_vars

(***************************************************************************)
(* A text that the source view, alone or in the split one, is rendered     *)
(* with is shown, and never sent back: the view is given it by a change of *)
(* its own editor, which its listener must tell from the user's            *)
(* (SourceView.tsx; types.ts: reconcile "WITHOUT emitting onChange").  Of  *)
(* the WYSIWYG view this does not hold: OnlyEditsAreEmitted.               *)
(***************************************************************************)
SourceReconcilesSilently ==
    [][value' # value /\ SourceMounted' => text' = text /\ cm'.doc = value']_vars

(***************************************************************************)
(* A page whose user has neither edited nor confirmed anything leaves the  *)
(* text as it is: only others, or another document, change it (PLAN.md:    *)
(* "Never emit an op the user did not ask for").  The code does not keep   *)
(* this: reconciling the WYSIWYG view sets the timer of a local edit       *)
(* (WysiwygView.tsx handleEditorChange), whose flush emits what Slate      *)
(* writes differently.  README.md, section 5, says how to see it.          *)
(***************************************************************************)
OnlyEditsAreEmitted ==
    [][local' = 0 /\ dialog = << >> /\ text' # text =>
          remote' # remote \/ document' # document]_vars

(***************************************************************************)
(* Undo takes back only what this user did: no letter of anyone else's     *)
(* leaves the editor by it, however the text has been rendered anew since  *)
(* (types.ts: "without pushing that change onto the local undo stack").    *)
(***************************************************************************)
UndoSparesOthers ==
    [][Len(cm'.undo) < Len(cm.undo) /\ SourceMounted /\ mode' = mode /\ here' = here =>
          \A l \in Letters(cm.doc) \ Letters(cm'.doc) : l.by = "me"]_vars

(***************************************************************************)
(* Entering the WYSIWYG view with a text that it would write differently   *)
(* changes nothing until the user has confirmed it: until then the text    *)
(* moves only for others (WysiwygView.tsx: "Nothing is emitted through     *)
(* onChange unless/until preview.confirm() is called").                    *)
(***************************************************************************)
NothingBeforeConsent ==
    [][RichMounted /\ mode' = mode /\ text' # text
          /\ Deserialize(rich.entered) # rich.entered
       => remote' # remote \/ document' # document
            \/ rich'.entered = Deserialize(rich.entered)]_vars

(***************************************************************************)
(* The preview shows the result for the fence that is there, and not one   *)
(* that was asked for before it was edited; while it shows none, one has   *)
(* been asked for.                                                         *)
(***************************************************************************)
ResultIsCurrent ==
    /\ fence # << >> => /\ Fences(value) # << >> /\ fence[1].code = Head(Fences(value))
                        /\ fence[1].of \in {<< >>, <<fence[1].code>>}
                        /\ fence[1].of = << >> /\ lib[Library(fence[1].code)] # "broken" =>
                              [code |-> fence[1].code, cancelled |-> FALSE] \in jobs
    /\ Cardinality({j \in jobs : ~j.cancelled}) <= 1

(***************************************************************************)
(* When everyone stops, everything comes to rest: the page is rendered     *)
(* with the text and the others' carets, no edit, selection or chunk is    *)
(* held back, and a fence has been drawn, or is shown plain or with its    *)
(* error, unless the highlighter could not be had.                         *)
(***************************************************************************)
ComesToRest ==
    <>[](/\ value = text /\ shown = document
         /\ rich.timer = << >> /\ throttle.pending = 0
         /\ mode \in {"split", "wysiwyg"} => mode \in here
         /\ ~CursorsMoved
         /\ fence # << >> /\ lib.shiki # "broken" => fence[1].state # "loading")
=============================================================================
