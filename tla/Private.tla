------------------------------ MODULE Private ------------------------------
(***************************************************************************)
(* The private document: a session (module Session) whose transport is the *)
(* LoopbackTransport (web/src/collab/transport.ts), which acknowledges     *)
(* every edit at once, and the IndexedDBStore that keeps its text          *)
(* (web/src/collab/storage.ts).  One browser tab looks at it.              *)
(*                                                                         *)
(* Calls between the session and the loopback are synchronous and nested:  *)
(* sending an edit returns after its acknowledgement has been handled,     *)
(* which may itself have sent the next edit.  A turn of them acts on a     *)
(* record [sess, loop, save, thrown]; thrown is an exception that unwinds  *)
(* them all, after which the document is not followed any further.         *)
(*                                                                         *)
(* Edits that type different texts let a text tell its age.                *)
(***************************************************************************)
EXTENDS Session, FiniteSetsExt

CONSTANTS SavedTexts,   \* what the database may hold at first
          Typed,        \* what the user types, edit by edit
          TypesEarly,   \* the user may type before the text has been read
          MaxEdits,     \* bound on the edits
          MaxFailures   \* bound on the writes that fail

ASSUME PrivateAssumption ==
    /\ \A text \in SavedTexts : IsText(text)
    /\ \A n \in 1..MaxEdits : IsText(Typed[n])
    /\ TypesEarly \in BOOLEAN
    /\ MaxEdits \in Nat /\ MaxFailures \in Nat

VARIABLES
    sess,      \* the session
    loop,      \* its transport: [ready, text, revision, queued, closed]
    thrown,    \* an exception has come out of the two
    db,        \* the store's database is open, FALSE: it could not be
    stored,    \* the text in the database, << >> too when there is none
    save,      \* << >> or <<text>>: a debounced save and its timer
    writes,    \* texts being written, in the order of their transactions
    edits,     \* how many edits were made
    failures   \* how many writes failed

(* What the user has last seen and may count on to find again: << >> or    *)
(* <<text>>.                                                               *)
VARIABLE kept

storeVars   == <<db, stored, save, writes>>
privateVars == <<sess, loop, thrown, storeVars, edits, failures, kept>>

SelfId == 1    \* LOOPBACK_SELF_ID
SeedId == 0    \* LOOPBACK_SEED_ID

NewLoop == [ready |-> FALSE, text |-> << >>, revision |-> 0, queued |-> << >>,
            closed |-> FALSE]

\* The session subscribes to a transport whose status is "local" from the start.
LocalSession == HandleStatus(NewSession, TRUE)

---------------------------------------------------------------------------
(* The turns.                                                              *)

\* Dispatching op up to the acknowledgement: the session's serverAck.
Acknowledge(turn, op) ==
    IF turn.thrown THEN turn
    ELSE IF ~Applies(op, turn.loop.text) \/ turn.sess.pending = << >>
         THEN [turn EXCEPT !.thrown = TRUE]
         ELSE [turn EXCEPT !.loop.text     = Apply(op, @),
                           !.loop.revision = @ + 1,
                           !.sess.revision = @ + 1,
                           !.sess.pending  = Tail(@)]

\* Seeded fault: the save is scheduled with the text before the edit.
ConfirmStale(turn, op) ==
    IF turn.thrown THEN turn
    ELSE IF ~Applies(op, turn.sess.synced) THEN [turn EXCEPT !.thrown = TRUE]
         ELSE [turn EXCEPT !.sess.synced = Apply(op, @), !.save = <<turn.sess.synced>>]

\* The rest of it, once what serverAck releases has been sent: the confirmed
\* text moves on, and back in dispatch the save is scheduled.
Confirm(turn, op) ==
    IF turn.thrown THEN turn
    ELSE IF ~Applies(op, turn.sess.synced) THEN [turn EXCEPT !.thrown = TRUE]
         ELSE [turn EXCEPT !.sess.synced = Apply(op, @), !.save = <<turn.loop.text>>]

\* LoopbackTransport.dispatch.  The buffer is sent, and acknowledged, from
\* within the acknowledgement of op.
Dispatch(turn, op) ==
    LET acked  == Acknowledge(turn, op)
        buffer == turn.sess.pending[2]
        nested == IF Len(turn.sess.pending) = 2
                  THEN Confirm(Acknowledge(acked, buffer), buffer) ELSE acked
    IN  Confirm(nested, op)

\* One after the other.
DispatchAll(turn, messages) ==
    LET after[k \in 0..Len(messages)] ==
            IF k = 0 THEN turn ELSE Dispatch(after[k - 1], messages[k].op)
    IN  after[Len(messages)]

\* LoopbackTransport.send.
SendAll(turn, messages) ==
    IF turn.loop.ready THEN DispatchAll(turn, messages)
    ELSE [turn EXCEPT !.loop.queued = @ \o messages]

Turn == [sess |-> sess, loop |-> loop, save |-> save, thrown |-> FALSE]

Takes(turn) ==
    /\ sess' = turn.sess
    /\ loop' = turn.loop
    /\ save' = turn.save
    /\ thrown' = turn.thrown

---------------------------------------------------------------------------
(* The tab opens the document, its text is read, the user types.           *)

\* The effect of useCollabDocument; a database that will not open is no error.
OpenPrivate ==
    /\ sess' = LocalSession
    /\ loop' = NewLoop
    /\ db' \in BOOLEAN
    /\ kept' = IF db' THEN kept ELSE << >>

SeedEntries(text) ==
    IF text = << >> THEN << >> ELSE <<Entry(SeedId, Insert(New, text))>>

\* Seeded fault: the text read is not handed to the session.
IntroduceNothing(turn, text) ==
    [turn EXCEPT !.loop.text = text,
                 !.sess = HandleHistory(HandleIdentity(@, SelfId), 0, << >>).s,
                 !.loop.revision = 0,
                 !.loop.ready = TRUE,
                 !.loop.queued = << >>]

\* Identity and History of the text that was read.  A session that sends
\* something because of them does so before the loopback is ready.
Introduce(turn, text) ==
    LET told == HandleHistory(HandleIdentity(turn.sess, SelfId), 0, SeedEntries(text))
    IN  [turn EXCEPT !.loop.text     = text,
                     !.sess          = told.s,
                     !.loop.queued   = @ \o told.sent,
                     !.loop.revision = IF text = << >> THEN 0 ELSE 1,
                     !.loop.ready    = TRUE]

\* bootstrap, once the read has come back: it waits for every write that was
\* begun before it.
Bootstrap ==
    /\ ~loop.closed /\ ~loop.ready
    /\ writes = << >>
    /\ \E introduced \in {Introduce(Turn, IF db THEN stored ELSE << >>)} :
       \E turn \in {DispatchAll([introduced EXCEPT !.loop.queued = << >>],
                               introduced.loop.queued)} :
          /\ Takes(turn)
          /\ kept' = IF db THEN <<turn.sess.text>> ELSE << >>
    /\ UNCHANGED <<db, stored, writes, edits, failures>>

\* Something typed at the end, or over everything there is.
TypedOps(text, insert) ==
    {Insert(Retain(New, Len(text)), insert), Insert(Delete(New, Len(text)), insert)}

Type ==
    /\ ~loop.closed /\ ~thrown
    /\ loop.ready \/ TypesEarly
    /\ edits < MaxEdits
    /\ \E op \in TypedOps(sess.text, Typed[edits + 1]) :
       \E typed \in {ApplyLocalChange(sess, op)} :
       \E turn \in {SendAll([Turn EXCEPT !.sess = typed.s], typed.sent)} :
          /\ Takes(turn)
          /\ kept' = IF db THEN <<turn.sess.text>> ELSE << >>
    /\ edits' = edits + 1
    /\ UNCHANGED <<db, stored, writes, failures>>

---------------------------------------------------------------------------
(* The store.                                                              *)

\* commit and write.
Commit(pending) ==
    /\ save' = << >>
    /\ writes' = IF db THEN writes \o pending ELSE writes

SaveTimer ==
    /\ save # << >>
    /\ Commit(save)
    /\ UNCHANGED <<sess, loop, thrown, db, stored, edits, failures, kept>>

WriteDone ==
    /\ writes # << >>
    /\ stored' = Head(writes)
    /\ writes' = Tail(writes)
    /\ UNCHANGED <<sess, loop, thrown, db, save, edits, failures, kept>>

\* Quota exceeded, or an aborted transaction: the write is given up.
WriteFails ==
    /\ writes # << >>
    /\ failures < MaxFailures
    /\ failures' = failures + 1
    /\ writes' = Tail(writes)
    /\ kept' = << >>
    /\ UNCHANGED <<sess, loop, thrown, db, stored, save, edits>>

Flush == Commit(save)

\* The effect's cleanup: LoopbackTransport.close.
ClosePrivate ==
    /\ loop' = [loop EXCEPT !.closed = TRUE]
    /\ Flush

\* The page is gone, with whatever had not been handed to the database, and is
\* there again.  What had been handed to it may still be written.
LosePage ==
    /\ sess' = LocalSession
    /\ thrown' = FALSE
    /\ db' \in BOOLEAN
    /\ save' = << >>
    /\ kept' = IF db' /\ save = << >> /\ writes = << >> THEN kept ELSE << >>

---------------------------------------------------------------------------

PrivateInit ==
    /\ sess = LocalSession
    /\ loop = NewLoop
    /\ thrown = FALSE
    /\ db \in BOOLEAN
    /\ stored \in SavedTexts
    /\ save = << >>
    /\ writes = << >>
    /\ edits = 0
    /\ failures = 0
    /\ kept = << >>
=============================================================================
