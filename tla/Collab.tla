------------------------------- MODULE Collab -------------------------------
(***************************************************************************)
(* One shared document: a room (internal/room/room.go), the connections to *)
(* it (internal/server/conn.go), and the sessions at the other ends        *)
(* (module Session) over their transports (web/src/collab/transport.ts).   *)
(*                                                                         *)
(* Connection <<c, e>> is the e-th one client c opens.  Both directions    *)
(* are FIFO queues: TCP loses or reorders nothing within a connection, but *)
(* a connection that breaks takes along what is in flight.  A client only  *)
(* listens to its latest connection; the server may go on reading from an  *)
(* older one until it notices that its peer is gone.                       *)
(*                                                                         *)
(* Not here: user names and the presence messages, the registry around the *)
(* room, the wakeup of the write loop.                                     *)
(***************************************************************************)
EXTENDS Session, FiniteSets

CONSTANTS Clients,
          Seed,          \* the text the room is restored with
          Typed,         \* what each client's user inserts, edit by edit
          MaxEpisodes,   \* connections each client opens (bound)
          MaxEdits,      \* edits each user makes (bound)
          MaxErased,     \* bytes an edit may replace (bound)
          MaxMoves,      \* carets each user sets (bound)
          MaxDoc,        \* the room's size limit, in bytes (Config.MaxDocBytes)
          RateLimit      \* whether the edit rate limit can be hit

ASSUME CollabAssumption ==
    /\ None \notin Clients
    /\ IsText(Seed)
    /\ MaxEpisodes \in [Clients -> Nat \ {0}]
    /\ MaxEdits \in [Clients -> Nat]
    /\ \A c \in Clients : \A n \in 1..MaxEdits[c] : IsText(Typed[c][n])
    /\ MaxErased \in Nat
    /\ MaxMoves \in [Clients -> Nat]
    /\ MaxDoc \in Nat
    /\ RateLimit \in BOOLEAN

Conns == UNION {{c} \X (1..MaxEpisodes[c]) : c \in Clients}

VARIABLES
    \* The room.
    docText,   \* Room.text
    ops,       \* Room.ops, the log: a sequence of [id, op]
    nextID,    \* Room.nextID
    cursors,   \* Room.cursors: << >> or <<position>> for each connection's user
    \* The server's side of each connection, and the two queues.
    link,      \* "none", "open", "lost" (the client is gone), "closing" (the
               \* server is gone), "closed"
    id,        \* conn.id, the participant's id
    sent,      \* conn.sentRevision
    greeted,   \* conn.sentInitial
    up,        \* messages on their way to the server
    down,      \* messages on their way to the client
    \* The clients.
    sess,      \* the session
    episode,   \* how many connections it has opened
    stopped,   \* WebSocketTransport.terminal
    edits,     \* how many edits its user has made
    moves      \* how many carets its user has set

roomVars   == <<docText, ops, nextID, cursors>>
linkVars   == <<link, id, sent, greeted>>
queueVars  == <<up, down>>
clientVars == <<sess, episode, stopped, edits, moves>>

vars == <<roomVars, linkVars, queueVars, clientVars>>

Current(c) == <<c, episode[c]>>

---------------------------------------------------------------------------
(* Messages.                                                               *)

Identity(user)          == [type |-> "Identity", user |-> user]
History(start, entries) == [type |-> "History", start |-> start, ops |-> entries]
CursorData(caret)       == [type |-> "CursorData", caret |-> caret]

\* The close frame: "policy" is code 1008, which the client takes as final.
Close(code) == [type |-> "Close", code |-> code]

---------------------------------------------------------------------------
(* Room.ApplyEdit.                                                         *)

\* Seeded fault: at one position the missed operation's insert goes first.
RebasedBehind(m) ==
    LET missed == SubSeq(ops, m.revision + 1, Len(ops))
        run[k \in 0..Len(missed)] ==
            IF k = 0 THEN [op |-> m.op, ok |-> TRUE]
            ELSE LET t == Transform(missed[k].op, run[k - 1].op)
                 IN  [op |-> t.b, ok |-> run[k - 1].ok /\ t.ok]
    IN  run[Len(missed)]

\* The edit rebased across everything the client had not seen.
Rebased(m) ==
    LET missed == SubSeq(ops, m.revision + 1, Len(ops))
        run[k \in 0..Len(missed)] ==
            IF k = 0 THEN [op |-> m.op, ok |-> TRUE]
            ELSE LET t == Transform(run[k - 1].op, missed[k].op)
                 IN  [op |-> t.a, ok |-> run[k - 1].ok /\ t.ok]
    IN  run[Len(missed)]

InRange(m) == m.revision \in 0..Len(ops)

\* Seeded fault: the size is only checked before the edit is rebased.
TooLargeUnrebased(m) == TargetLen(m.op) > MaxDoc

TooLarge(m) ==
    \/ TargetLen(m.op) > MaxDoc
    \/ InRange(m) /\ Rebased(m).ok /\ TargetLen(Rebased(m).op) > MaxDoc

Acceptable(m) ==
    /\ ~TooLarge(m)
    /\ InRange(m)
    /\ Rebased(m).ok
    /\ Applies(Rebased(m).op, docText)

\* Seeded fault: a caret is stored as the client sent it.
ClampNothing(caret) == caret

\* clampCursor
Clamp(caret) ==
    [i \in DOMAIN caret |->
        IF caret[i] > Len(docText) THEN Len(docText)
        ELSE IF caret[i] < 0 THEN 0 ELSE caret[i]]

---------------------------------------------------------------------------
(* The server ends connection k: Room.Leave, and the close frame if the    *)
(* client is still there.                                                  *)

Hangup(k, code) ==
    /\ link' = [link EXCEPT ![k] = IF @ = "open" THEN "closing" ELSE "closed"]
    /\ down' = [down EXCEPT ![k] = IF link[k] = "open"
                                   THEN Append(@, Close(code)) ELSE << >>]
    /\ up' = [up EXCEPT ![k] = << >>]
    /\ cursors' = [cursors EXCEPT ![k] = << >>]
    /\ UNCHANGED <<docText, ops, nextID, id, sent, greeted, clientVars>>

Serving(k) == link[k] \in {"open", "lost"}

---------------------------------------------------------------------------
(* The server's steps on connection k.                                     *)

\* readLoop: an edit the room accepts.
AcceptEdit(k) ==
    /\ Serving(k)
    /\ up[k] # << >>
    /\ Head(up[k]).type = "Edit"
    /\ Acceptable(Head(up[k]))
    /\ LET op == Rebased(Head(up[k])).op
       IN  /\ docText' = Apply(op, docText)
           /\ ops' = Append(ops, Entry(id[k], op))
           /\ cursors' = [j \in Conns |-> MoveCarets(cursors[j], op)]
    /\ up' = [up EXCEPT ![k] = Tail(@)]
    /\ UNCHANGED <<nextID, linkVars, down, clientVars>>

\* readLoop: an edit the room refuses ends the connection.
RejectEdit(k) ==
    /\ Serving(k)
    /\ up[k] # << >>
    /\ Head(up[k]).type = "Edit"
    /\ ~Acceptable(Head(up[k]))
    /\ Hangup(k, IF TooLarge(Head(up[k])) THEN "policy" ELSE "unsupported")

\* readLoop: an edit too many for the rate limiter.
ThrottleEdit(k) ==
    /\ RateLimit
    /\ Serving(k)
    /\ up[k] # << >>
    /\ Head(up[k]).type = "Edit"
    /\ Hangup(k, "policy")

\* readLoop: SetCursor.
SetCursor(k) ==
    /\ Serving(k)
    /\ up[k] # << >>
    /\ Head(up[k]).type = "CursorData"
    /\ cursors' = [cursors EXCEPT ![k] = Clamp(Head(up[k]).caret)]
    /\ up' = [up EXCEPT ![k] = Tail(@)]
    /\ UNCHANGED <<docText, ops, nextID, linkVars, down, clientVars>>

\* Seeded fault: only the first History is ever sent.
PushOnce(k) ==
    /\ link[k] = "open"
    /\ ~greeted[k]
    /\ down' = [down EXCEPT ![k] = Append(@, History(0, ops))]
    /\ sent' = [sent EXCEPT ![k] = Len(ops)]
    /\ greeted' = [greeted EXCEPT ![k] = TRUE]
    /\ UNCHANGED <<roomVars, link, id, up, clientVars>>

\* writeLoop: the History part of pending().
Push(k) ==
    /\ link[k] = "open"
    /\ sent[k] < Len(ops) \/ ~greeted[k]
    /\ down' = [down EXCEPT ![k] =
                   Append(@, History(sent[k], SubSeq(ops, sent[k] + 1, Len(ops))))]
    /\ sent' = [sent EXCEPT ![k] = Len(ops)]
    /\ greeted' = [greeted EXCEPT ![k] = TRUE]
    /\ UNCHANGED <<roomVars, link, id, up, clientVars>>

\* The server notices that the client is gone: what it has not read is lost.
NoticeLoss(k) ==
    /\ link[k] = "lost"
    /\ Hangup(k, "abnormal")

\* A read or a write fails on the server's side first.
ServerLoses(k) ==
    /\ link[k] = "open"
    /\ k[2] < MaxEpisodes[k[1]]
    /\ Hangup(k, "abnormal")

---------------------------------------------------------------------------
(* The clients' steps.                                                     *)

\* The socket opens: handleSocket joins the room and the write loop says who
\* the client is.
Connect(c) ==
    LET k == <<c, episode[c] + 1>>
    IN  /\ ~sess[c].connected
        /\ ~stopped[c]
        /\ episode[c] < MaxEpisodes[c]
        /\ episode' = [episode EXCEPT ![c] = @ + 1]
        /\ sess' = [sess EXCEPT ![c] = HandleStatus(@, TRUE)]
        /\ link' = [link EXCEPT ![k] = "open"]
        /\ id' = [id EXCEPT ![k] = nextID]
        /\ nextID' = nextID + 1
        /\ down' = [down EXCEPT ![k] = <<Identity(nextID)>>]
        /\ UNCHANGED <<docText, ops, cursors, sent, greeted, up,
                       stopped, edits, moves>>

\* The client's connection breaks.
Lose(c) ==
    LET k == Current(c)
    IN  /\ sess[c].connected
        /\ episode[c] < MaxEpisodes[c]
        /\ sess' = [sess EXCEPT ![c] = HandleStatus(@, FALSE)]
        /\ link' = [link EXCEPT ![k] = IF @ = "open" THEN "lost" ELSE "closed"]
        /\ down' = [down EXCEPT ![k] = << >>]
        /\ UNCHANGED <<roomVars, id, sent, greeted, up, episode, stopped, edits, moves>>

\* Put messages in the socket; a closed one drops them.
Send(k, messages) ==
    up' = [up EXCEPT ![k] = IF link[k] = "open" THEN @ \o messages ELSE @]

Incoming(c, type) ==
    /\ sess[c].connected
    /\ sess[c].failed = "none"
    /\ down[Current(c)] # << >>
    /\ Head(down[Current(c)]).type = type
    /\ down' = [down EXCEPT ![Current(c)] = Tail(@)]

ReceiveIdentity(c) ==
    /\ Incoming(c, "Identity")
    /\ sess' = [sess EXCEPT ![c] = HandleIdentity(@, Head(down[Current(c)]).user)]
    /\ UNCHANGED <<roomVars, linkVars, up, episode, stopped, edits, moves>>

ReceiveHistory(c) ==
    /\ Incoming(c, "History")
    /\ LET m == Head(down[Current(c)])
           r == HandleHistory(sess[c], m.start, m.ops)
       IN  /\ sess' = [sess EXCEPT ![c] = r.s]
           /\ Send(Current(c), r.sent)
    /\ UNCHANGED <<roomVars, linkVars, episode, stopped, edits, moves>>

\* The close event: a policy violation is final.
ReceiveClose(c) ==
    /\ Incoming(c, "Close")
    /\ sess' = [sess EXCEPT ![c] = HandleStatus(@, FALSE)]
    /\ stopped' = [stopped EXCEPT ![c] = Head(down[Current(c)]).code = "policy"]
    /\ link' = [link EXCEPT ![Current(c)] = "closed"]
    /\ UNCHANGED <<roomVars, id, sent, greeted, up, episode, edits, moves>>

\* Where an editor's offsets can fall in a text, in bytes: OffsetIndex.toBytes
\* leads to the start of a character.
Boundaries(text) == {at \in 0..Len(text) : IsBoundary(text, at)}

\* applyChange: what is between two offsets is replaced.
ChangeOp(text, from, to, insert) ==
    Retain(Insert(Delete(Retain(New, from), to - from), insert), Len(text) - to)

\* A user inserts, erases or replaces, anywhere.
EditLocally(c) ==
    /\ edits[c] < MaxEdits[c]
    /\ sess[c].failed = "none"
    /\ \E from, to \in Boundaries(sess[c].text), insert \in {<< >>, Typed[c][edits[c] + 1]} :
          /\ to - from \in 0..MaxErased
          /\ from # to \/ insert # << >>
          /\ LET r == ApplyLocalChange(sess[c], ChangeOp(sess[c].text, from, to, insert))
             IN  /\ sess' = [sess EXCEPT ![c] = r.s]
                 /\ IF sess[c].connected THEN Send(Current(c), r.sent) ELSE UNCHANGED up
    /\ edits' = [edits EXCEPT ![c] = @ + 1]
    /\ UNCHANGED <<roomVars, linkVars, down, episode, stopped, moves>>

\* setCursor
MoveCaret(c) ==
    /\ moves[c] < MaxMoves[c]
    /\ sess[c].failed = "none"
    /\ \E p \in Boundaries(sess[c].text) :
          /\ sess' = [sess EXCEPT ![c].caret = <<p>>]
          /\ IF sess[c].connected THEN Send(Current(c), <<CursorData(<<p>>)>>)
                                  ELSE UNCHANGED up
    /\ moves' = [moves EXCEPT ![c] = @ + 1]
    /\ UNCHANGED <<roomVars, linkVars, down, episode, stopped, edits>>

---------------------------------------------------------------------------
\* NewRoom: the operations of a room restored with text.
NewRoomOps(text) ==
    IF text = << >> THEN << >> ELSE <<Entry(SystemUserID, Insert(New, text))>>

Init ==
    /\ docText = Seed
    /\ ops = NewRoomOps(Seed)
    /\ nextID = 1
    /\ cursors = [k \in Conns |-> << >>]
    /\ link = [k \in Conns |-> "none"]
    /\ id = [k \in Conns |-> None]
    /\ sent = [k \in Conns |-> 0]
    /\ greeted = [k \in Conns |-> FALSE]
    /\ up = [k \in Conns |-> << >>]
    /\ down = [k \in Conns |-> << >>]
    /\ sess = [c \in Clients |-> NewSession]
    /\ episode = [c \in Clients |-> 0]
    /\ stopped = [c \in Clients |-> FALSE]
    /\ edits = [c \in Clients |-> 0]
    /\ moves = [c \in Clients |-> 0]

ServerStep(k) ==
    \/ AcceptEdit(k) \/ RejectEdit(k) \/ ThrottleEdit(k) \/ SetCursor(k)
    \/ Push(k) \/ NoticeLoss(k) \/ ServerLoses(k)

Receive(c) == ReceiveIdentity(c) \/ ReceiveHistory(c) \/ ReceiveClose(c)

ClientStep(c) ==
    \/ Connect(c) \/ Lose(c) \/ Receive(c) \/ EditLocally(c) \/ MoveCaret(c)

Next == (\E k \in Conns : ServerStep(k)) \/ (\E c \in Clients : ClientStep(c))

Spec == Init /\ [][Next]_vars

\* What is scheduled happens: goroutines run, messages arrive, a transport
\* reconnects.  Users may stop and connections may hold.  Weak fairness of
\* Read and Receive is spelled out with the condition that enables them.
Read(k) == AcceptEdit(k) \/ RejectEdit(k) \/ SetCursor(k)

CanRead(k) == Serving(k) /\ up[k] # << >>

CanReceive(c) ==
    sess[c].connected /\ sess[c].failed = "none" /\ down[Current(c)] # << >>

Fairness ==
    /\ \A k \in Conns : /\ []<>~CanRead(k) \/ []<><<Read(k)>>_vars
                        /\ WF_vars(Push(k))
                        /\ WF_vars(NoticeLoss(k))
    /\ \A c \in Clients : /\ WF_vars(Connect(c))
                          /\ []<>~CanReceive(c) \/ []<><<Receive(c)>>_vars

FairSpec == Spec /\ Fairness
---------------------------------------------------------------------------
(* Properties.                                                             *)

MessageUpOK(m) ==
    \/ m.type = "Edit" /\ m.revision \in Nat
    \/ m.type = "CursorData"

MessageDownOK(m) ==
    \/ m.type = "Identity" /\ m.user \in Nat
    \/ m.type = "History" /\ m.start \in Nat /\ IsSeq(m.ops)
    \/ m.type = "Close"

UpQueueOK(q)   == IsSeq(q) /\ \A i \in DOMAIN q : MessageUpOK(q[i])
DownQueueOK(q) == IsSeq(q) /\ \A i \in DOMAIN q : MessageDownOK(q[i])

(***************************************************************************)
(* The state is well typed: queues and the log are sequences of what they  *)
(* should hold, a session never has more than one operation outstanding    *)
(* and one buffered (client.ts, ClientState), and it has a baseline only   *)
(* while it is connected (session.ts, handleStatus).                       *)
(***************************************************************************)
TypeOK ==
    /\ nextID \in Nat \ {0}
    /\ IsSeq(ops)
    /\ DOMAIN cursors = Conns
    /\ link \in [Conns -> {"none", "open", "lost", "closing", "closed"}]
    /\ id \in [Conns -> Nat]
    /\ sent \in [Conns -> Nat]
    /\ greeted \in [Conns -> BOOLEAN]
    /\ DOMAIN up = Conns
    /\ DOMAIN down = Conns
    /\ \A k \in Conns : UpQueueOK(up[k]) /\ DownQueueOK(down[k])
    /\ DOMAIN sess = Clients
    /\ \A c \in Clients : SessionOK(sess[c])
    /\ episode \in [Clients -> Nat]
    /\ \A c \in Clients : /\ episode[c] <= MaxEpisodes[c]
                          /\ sess[c].connected => episode[c] > 0
    /\ stopped \in [Clients -> BOOLEAN]
    /\ edits \in [Clients -> Nat]
    /\ moves \in [Clients -> Nat]

\* The server's text at a revision.
TextAt(revision) ==
    LET text[n \in 0..revision] ==
            IF n = 0 THEN << >> ELSE Apply(ops[n].op, text[n - 1])
    IN  text[revision]

\* The text after the operations of a sequence.
AfterAll(pending, text) ==
    LET t[n \in 0..Len(pending)] ==
            IF n = 0 THEN text ELSE Apply(pending[n], t[n - 1])
    IN  t[Len(pending)]

(***************************************************************************)
(* The screen shows the mirror plus the unconfirmed edits (session.ts:     *)
(* "this._text is always syncedText plus whatever local edits haven't been *)
(* confirmed yet").  An acknowledged operation that is not the outstanding *)
(* one, or a rebase the two sides do differently, breaks it.               *)
(***************************************************************************)
TextIsSyncedPlusPending ==
    \A c \in Clients :
        sess[c].baselined =>
            sess[c].text = AfterAll(sess[c].pending, sess[c].synced)

(***************************************************************************)
(* No message a session handles makes it throw: no acknowledgement comes   *)
(* without an outstanding operation, no operation has the wrong length     *)
(* (client.ts, serverAck; the engine's OTErrors).                          *)
(***************************************************************************)
NoSessionFails == \A c \in Clients : sess[c].failed = "none"

(***************************************************************************)
(* In the life of one room no edit claims a revision the room has not      *)
(* reached (room.go, ErrRevisionOutOfRange: such a client is "broken" or   *)
(* the room was reset).                                                    *)
(***************************************************************************)
EditsInRange ==
    \A k \in Conns : Serving(k) =>
        \A i \in DOMAIN up[k] :
            up[k][i].type = "Edit" => up[k][i].revision \in 0..Len(ops)

(***************************************************************************)
(* The room refuses no edit except for its size: each can be rebased and   *)
(* applied (room.go, ApplyEdit's errors; conn.go, "this client's view of   *)
(* the document is not one we can reconcile").                             *)
(***************************************************************************)
NoEditRefused ==
    \A k \in Conns : Serving(k) /\ up[k] # << >> =>
        \/ Head(up[k]).type # "Edit"
        \/ TooLarge(Head(up[k]))
        \/ Acceptable(Head(up[k]))

\* Nothing is under way and nobody is cut off.
Quiet ==
    /\ \A c \in Clients : /\ sess[c].connected /\ sess[c].baselined
                          /\ link[Current(c)] = "open"
                          /\ down[Current(c)] = << >>
    /\ \A k \in Conns : Serving(k) =>
          up[k] = << >> /\ sent[k] = Len(ops) /\ greeted[k]

(***************************************************************************)
(* Once everything sent has arrived everyone has the server's text and no  *)
(* edit is left unconfirmed (PLAN.md and transform.go: byte-identical      *)
(* documents).                                                             *)
(***************************************************************************)
Convergence ==
    Quiet => \A c \in Clients : sess[c].text = docText /\ sess[c].pending = << >>

Texts == {docText} \cup {sess[c].text : c \in Clients}

(***************************************************************************)
(* No two texts ever disagree on the order of two characters they both     *)
(* show, converged or not: what a user sees is never reordered later (the  *)
(* weak list specification of collaborative editing).                      *)
(***************************************************************************)
OrderAgreement ==
    \A s, t \in Texts :
        \A a, b \in Range(s) :
            a # b /\ Before(s, a, b) => ~Before(t, b, a)

(***************************************************************************)
(* No text shows a character twice that was typed once (session.ts on      *)
(* reconnecting: an edit of ours and a concurrent one "both survive,       *)
(* composed into one document").                                           *)
(***************************************************************************)
NoDuplicates ==
    \A s \in Texts : \A i, j \in DOMAIN s : s[i] = s[j] => i = j

(***************************************************************************)
(* The document never outgrows the limit, however edits that were each     *)
(* small enough when they were made add up (room.go, ErrTooLarge).         *)
(***************************************************************************)
DocumentWithinLimit == Len(docText) <= MaxDoc

(***************************************************************************)
(* Every caret the room keeps is inside the document (room.go, clampCursor *)
(* and transformCursor), and so is every session's own.                    *)
(***************************************************************************)
CaretsInRange ==
    /\ \A k \in Conns : \A i \in DOMAIN cursors[k] : cursors[k][i] \in 0..Len(docText)
    /\ \A c \in Clients : \A i \in DOMAIN sess[c].caret :
          sess[c].caret[i] \in 0..Len(sess[c].text)

(***************************************************************************)
(* The text a session is based on only ever moves forward through the      *)
(* versions the room has had, across lost connections too (the abstract    *)
(* specification Versions).                                                *)
(***************************************************************************)
Document == INSTANCE Versions WITH
    Replicas <- Clients,
    Origin   <- IF Seed = << >> THEN <<Seed>> ELSE << << >>, Seed>>,
    versions <- [n \in 1..(Len(ops) + 1) |-> TextAt(n - 1)],
    at       <- [c \in Clients |-> sess[c].revision],
    shown    <- [c \in Clients |-> sess[c].synced]

MovesThroughVersions == Document!Spec

(***************************************************************************)
(* When users stop editing and connections hold, everyone ends up with the *)
(* same text (broadcast.go: a slow listener "observes a later state when   *)
(* it next looks"; transport.ts: reconnects until closed).                 *)
(***************************************************************************)
EventuallyConverged ==
    <>[](\A c \in Clients : sess[c].text = docText /\ sess[c].pending = << >>)

=============================================================================
