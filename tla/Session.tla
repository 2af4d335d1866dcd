------------------------------ MODULE Session ------------------------------
(***************************************************************************)
(* The client's half of the protocol, as functions on a session's state:   *)
(* the OT client (web/src/collab/client.ts) and the session that owns the  *)
(* text (web/src/collab/session.ts).                                       *)
(*                                                                         *)
(* A session is a record                                                   *)
(*   text           the text on the screen                                 *)
(*   synced         the mirror of the server's text (syncedText)           *)
(*   caret          << >> or <<position>>: localCursor, one caret of it    *)
(*   revision       the OT client's revision                               *)
(*   pending        the OT client's state: << >> is "synchronized",        *)
(*                  <<outstanding>> is "awaitingConfirm" and               *)
(*                  <<outstanding, buffer>> is "awaitingWithBuffer"        *)
(*   selfId         the id the server gave, None before the first Identity *)
(*   connected, baselined, everBaselined                                   *)
(*   failed         "none", or the exception its message handler threw:    *)
(*                  "ack" is serverAck's, "ot" any of the engine's         *)
(*                                                                         *)
(* What a session does after an exception is not modelled: it stops.       *)
(*                                                                         *)
(* A method that may send returns [s |-> the session, sent |-> the         *)
(* messages it sends].                                                     *)
(***************************************************************************)
EXTENDS TextDiff

None == 0                   \* not a participant id: those start at 1
SystemUserID == 0           \* whose operation the seed of a room is

Edit(revision, op) == [type |-> "Edit", revision |-> revision, op |-> op]

Entry(user, op) == [id |-> user, op |-> op]

NewSession ==
    [text |-> << >>, synced |-> << >>, caret |-> << >>,
     revision |-> 0, pending |-> << >>, selfId |-> None,
     connected |-> FALSE, baselined |-> FALSE, everBaselined |-> FALSE,
     failed |-> "none"]

Quietly(s) == [s |-> s, sent |-> << >>]

MoveCarets(caret, op) == [i \in DOMAIN caret |-> TransformIndex(op, caret[i])]

---------------------------------------------------------------------------
(* client.ts.                                                              *)

\* Seeded fault: a full buffer is queued behind instead of composed with.
ApplyClientQueues(s, op) ==
    IF s.pending = << >>
    THEN [s |-> [s EXCEPT !.pending = <<op>>], sent |-> <<Edit(s.revision, op)>>]
    ELSE Quietly([s EXCEPT !.pending = Append(@, op)])

\* applyClient, and the sendEdit of what it returns.
ApplyClient(s, op) ==
    CASE s.pending = << >> ->
            [s    |-> [s EXCEPT !.pending = <<op>>],
             sent |-> <<Edit(s.revision, op)>>]
      [] Len(s.pending) = 1 ->
            Quietly([s EXCEPT !.pending = Append(@, op)])
      [] Len(s.pending) = 2 ->
            IF Composes(s.pending[2], op)
            THEN Quietly([s EXCEPT !.pending[2] = Compose(@, op)])
            ELSE Quietly([s EXCEPT !.failed = "ot"])

\* A remote operation rebased past the outstanding one, and past the buffer too.
PastOne(t) == [pending |-> <<t.a>>, op |-> t.b, ok |-> t.ok]

PastTwo(t, u) == [pending |-> <<t.a, u.a>>, op |-> u.b, ok |-> t.ok /\ u.ok]

\* Seeded fault: the remote operation is given priority, as if it were the
\* later one.
PastPendingSwapped(pending, op) ==
    LET Swap(t) == [t EXCEPT !.a = t.b, !.b = t.a]
        Past(t) == PastTwo(t, Swap(Transform(t.b, pending[2])))
    IN CASE pending = << >>    -> [pending |-> pending, op |-> op, ok |-> TRUE]
         [] Len(pending) = 1   -> PastOne(Swap(Transform(op, pending[1])))
         [] Len(pending) = 2   -> Past(Swap(Transform(op, pending[1])))

\* Seeded fault: the outstanding operation is not rebased.
PastPendingStale(pending, op) ==
    LET Past(t) == PastTwo([t EXCEPT !.a = pending[1]], Transform(pending[2], t.b))
    IN CASE pending = << >>    -> [pending |-> pending, op |-> op, ok |-> TRUE]
         [] Len(pending) = 1   -> [PastOne(Transform(pending[1], op))
                                      EXCEPT !.pending = pending]
         [] Len(pending) = 2   -> Past(Transform(pending[1], op))

\* applyServer: a remote operation and the pending ones, rebased past each other.
PastPending(pending, op) ==
    LET Past(t) == PastTwo(t, Transform(pending[2], t.b))
    IN CASE pending = << >>    -> [pending |-> pending, op |-> op, ok |-> TRUE]
         [] Len(pending) = 1   -> PastOne(Transform(pending[1], op))
         [] Len(pending) = 2   -> Past(Transform(pending[1], op))

---------------------------------------------------------------------------
(* The two kinds of history entry.                                         *)

\* Seeded fault: the revision is counted both here and by the OT client.
RemoteCountsTwice(s, op) ==
    LET r == PastPending(s.pending, op)
    IN  [s EXCEPT !.revision = @ + 2,
                  !.pending  = r.pending,
                  !.text     = Apply(r.op, @),
                  !.caret    = MoveCarets(@, r.op),
                  !.synced   = Apply(op, @)]

\* The session after remote operation op, which is rebased.op when it is past
\* the pending ones: text and caret follow.
Folded(s, op, rebased) ==
    IF rebased.ok /\ Applies(rebased.op, s.text) /\ Applies(op, s.synced)
    THEN [s EXCEPT !.revision = @ + 1,
                   !.pending  = rebased.pending,
                   !.text     = Apply(rebased.op, @),
                   !.caret    = MoveCarets(@, rebased.op),
                   !.synced   = Apply(op, @)]
    ELSE [s EXCEPT !.failed = "ot"]

\* Someone else's operation.
Remote(s, op) == Folded(s, op, PastPending(s.pending, op))

\* Our own operation: serverAck, and the sendEdit of the buffer it releases.
Ack(s, op) ==
    IF s.pending = << >> THEN Quietly([s EXCEPT !.failed = "ack"])
    ELSE IF ~Applies(op, s.synced) THEN Quietly([s EXCEPT !.failed = "ot"])
    ELSE [s    |-> [s EXCEPT !.revision = @ + 1,
                             !.pending  = Tail(@),
                             !.synced   = Apply(op, @)],
          sent |-> IF Len(s.pending) = 2
                   THEN <<Edit(s.revision + 1, s.pending[2])>> ELSE << >>]

\* Seeded fault: the session does not recognise its own operations.
HistoryEntryAllRemote(st, entry) ==
    IF st.s.failed # "none" THEN st ELSE [st EXCEPT !.s = Remote(@, entry.op)]

\* One turn of handleHistory's loop; an exception ends the loop.
HistoryEntry(st, entry) ==
    IF st.s.failed # "none" THEN st
    ELSE IF entry.id = st.s.selfId
         THEN LET r == Ack(st.s, entry.op)
              IN  [s |-> r.s, sent |-> st.sent \o r.sent]
         ELSE [st EXCEPT !.s = Remote(@, entry.op)]

Replay(s, entries) ==
    LET after[k \in 0..Len(entries)] ==
            IF k = 0 THEN Quietly(s) ELSE HistoryEntry(after[k - 1], entries[k])
    IN  after[Len(entries)]

---------------------------------------------------------------------------
(* establishBaseline.                                                      *)

\* What has changed locally since the last confirmed text becomes the one
\* pending operation of a fresh OT client.
FreshClient(s) ==
    LET localDelta == DiffText(s.synced, s.text)
        fresh == [s EXCEPT !.pending = << >>]
    IN  IF IsNoop(localDelta) THEN Quietly(fresh) ELSE ApplyClient(fresh, localDelta)

\* Seeded fault: every history is taken for new.
KnownNothing(s, start, entries) == 0

\* How many of the entries of a history were folded into synced before.
Known(s, start, entries) ==
    LET seen == IF s.revision > start THEN s.revision - start ELSE 0
    IN  IF seen < Len(entries) THEN seen ELSE Len(entries)

\* Every entry that is new counts as remote, whoever it is from.
Rebuild(s, entries) ==
    LET after[k \in 0..Len(entries)] ==
            IF k = 0 THEN s
            ELSE IF after[k - 1].failed # "none" THEN after[k - 1]
            ELSE Remote(after[k - 1], entries[k].op)
    IN  after[Len(entries)]

\* Seeded fault: the local change is sent after the history is folded in.
EstablishBaselineLate(s, start, entries) ==
    LET new     == SubSeq(entries, Known(s, start, entries) + 1, Len(entries))
        rebuilt == Rebuild(FreshClient(s).s, new)
    IN  [s    |-> [rebuilt EXCEPT !.baselined = TRUE, !.everBaselined = TRUE],
         sent |-> IF FreshClient(s).sent = << >> THEN << >>
                  ELSE <<Edit(rebuilt.revision, FreshClient(s).sent[1].op)>>]

EstablishBaseline(s, start, entries) ==
    LET fresh == FreshClient(s)
        new   == SubSeq(entries, Known(s, start, entries) + 1, Len(entries))
    IN  [s    |-> [Rebuild(fresh.s, new) EXCEPT !.baselined = TRUE,
                                                !.everBaselined = TRUE],
         sent |-> fresh.sent]

---------------------------------------------------------------------------
(* The session's entry points.                                             *)

HandleHistory(s, start, entries) ==
    IF s.baselined THEN Replay(s, entries) ELSE EstablishBaseline(s, start, entries)

HandleIdentity(s, user) == [s EXCEPT !.selfId = user]

\* Seeded fault: the baseline outlives its connection.
HandleStatusKeepsBaseline(s, nowConnected) == [s EXCEPT !.connected = nowConnected]

HandleStatus(s, nowConnected) ==
    [s EXCEPT !.connected = nowConnected, !.baselined = @ /\ nowConnected]

\* The first connection need not wait for a History to send an edit.
CanDispatch(s) == s.connected /\ (s.baselined \/ ~s.everBaselined)

ApplyLocalChange(s, op) ==
    LET ready == IF CanDispatch(s) /\ ~s.baselined
                 THEN EstablishBaseline(s, 0, << >>) ELSE Quietly(s)
        edited == [ready.s EXCEPT !.text = Apply(op, @), !.caret = MoveCarets(@, op)]
        dispatched == ApplyClient(edited, op)
    IN  IF CanDispatch(s)
        THEN [s |-> dispatched.s, sent |-> ready.sent \o dispatched.sent]
        ELSE Quietly(edited)

---------------------------------------------------------------------------
(* Types.                                                                  *)

\* A session, its texts and operations left untyped.
SessionOK(s) ==
    /\ s \in [text : {s.text}, synced : {s.synced}, caret : {s.caret},
              revision : Nat, pending : {s.pending}, selfId : Nat,
              connected : BOOLEAN, baselined : BOOLEAN, everBaselined : BOOLEAN,
              failed : {"none", "ack", "ot"}]
    /\ IsSeq(s.pending)
    /\ Len(s.pending) <= 2
    /\ s.baselined => s.connected /\ s.everBaselined
=============================================================================
