-------------------------------- MODULE Tab --------------------------------
(***************************************************************************)
(* What one browser tab looks at: the private document (module Private) or *)
(* a shared room, and how a document is taken from the one to the other    *)
(* (web/src/app/useCollabDocument.ts and useRoomLocation.ts, App.tsx,      *)
(* web/src/room/location.ts and seed.ts, and the WebSocketTransport).      *)
(*                                                                         *)
(* A shared document is a set of pieces: what came from the seed, what     *)
(* this user typed and what others did.  How edits are ordered and rebased *)
(* is module Collab's subject; here it matters only whether a document is  *)
(* empty, what has reached the room and what has not.                      *)
(*                                                                         *)
(* Only rooms that this tab has made are looked at, and each is made once. *)
(***************************************************************************)
EXTENDS Private

CONSTANTS Rooms,       \* the ids that can be minted
          Malformed,   \* a fragment that is no room id
          MaxHops,     \* bound on the navigations by hand
          MaxDrops,    \* bound on the connections lost or refused
          MaxReloads,  \* bound on the reloads of the page
          MaxTyped     \* bound on the edits in rooms

ASSUME TabAssumption ==
    /\ {"", "private"} \cap Rooms = {} /\ Malformed \notin Rooms \cup {""}
    /\ {MaxHops, MaxDrops, MaxReloads, MaxTyped} \subseteq Nat

VARIABLES
    hash,       \* the fragment in the address bar
    location,   \* what the application shows: a room or "private"
    seeds,      \* sessionStorage: << >> or <<text>> for every room
    made,       \* the rooms this tab has made
    shared,     \* the session of the room: [connected, baselined,
                \* everBaselined, seen, unsent, settled]
    sock,       \* its transport: [status, attempt, timer, ws, terminal]
    room,       \* what every room's document consists of, at the server
    hops, drops, reloads, typed

sharedVars == <<shared, sock, seeds>>
bounds     == <<hops, drops, reloads, typed>>
vars == <<privateVars, hash, location, sharedVars, made, room, bounds>>

Piece(by, text) == [by |-> by, text |-> text]

---------------------------------------------------------------------------
(* location.ts.                                                            *)

ReadLocation(fragment) == IF fragment \in Rooms THEN fragment ELSE "private"

---------------------------------------------------------------------------
(* The session of a room.                                                  *)

NewShared == [connected |-> FALSE, baselined |-> FALSE, everBaselined |-> FALSE,
              seen |-> {}, unsent |-> {}, settled |-> FALSE]

Document(s) == s.seen \cup s.unsent

\* Seeded fault: the seed is decided on without a baseline.
DecideSeedAtOnce(seed, ready, documentIsEmpty) ==
    CASE seed = << >> -> "none"
      [] seed # << >> /\ (seed = << << >> >> \/ ~documentIsEmpty) -> "discard"
      [] OTHER -> "apply"

\* decideSeed
DecideSeed(seed, ready, documentIsEmpty) ==
    CASE seed = << >> -> "none"
      [] seed # << >> /\ ~ready -> "wait"
      [] seed # << >> /\ ready /\ (seed = << << >> >> \/ ~documentIsEmpty) -> "discard"
      [] OTHER -> "apply"

\* An edit goes to the server when it is connected; otherwise the next
\* baseline sends it.
Edited(s, piece) ==
    LET ready == s.connected /\ (s.baselined \/ ~s.everBaselined)
    IN  [s EXCEPT !.unsent = @ \cup {piece},
                  !.baselined = @ \/ ready, !.everBaselined = @ \/ ready]

\* considerSeed, as the session s has just changed: the session and what is
\* left of the seed of its room.
Considered(s, seed) ==
    LET decision == DecideSeed(seed, s.baselined, Document(s) = {})
    IN  IF s.settled \/ decision = "wait" THEN [s |-> s, seed |-> seed]
        ELSE [s    |-> [(IF decision = "apply" THEN Edited(s, Piece("seed", seed[1]))
                                               ELSE s) EXCEPT !.settled = TRUE],
              seed |-> << >>]

\* The listener of useCollabDocument.
Notified(s, r) ==
    \E c \in {Considered(s, seeds[r])} :
        /\ shared' = c.s
        /\ seeds' = [seeds EXCEPT ![r] = c.seed]

\* handleStatus
Status(s, nowConnected) ==
    [s EXCEPT !.connected = nowConnected, !.baselined = @ /\ nowConnected]

---------------------------------------------------------------------------
(* The WebSocketTransport.                                                 *)

NewSock == [status |-> "connecting", attempt |-> 0, timer |-> FALSE,
            ws |-> "connecting", terminal |-> FALSE]

NoSock == [NewSock EXCEPT !.ws = "none"]

InRoom == location \in Rooms

\* The timer of scheduleReconnect.  The constructor of a WebSocket may throw,
\* which schedules the next attempt.
Connect ==
    /\ InRoom /\ sock.timer
    /\ \/ sock' = [sock EXCEPT !.timer = FALSE, !.ws = "connecting",
                               !.status = "reconnecting"]
          /\ UNCHANGED drops
       \/ /\ drops < MaxDrops
          /\ drops' = drops + 1
          /\ sock' = [sock EXCEPT !.attempt = @ + 1, !.status = "reconnecting"]
    /\ UNCHANGED <<privateVars, hash, location, seeds, made, shared, room,
                   hops, reloads, typed>>

Opened ==
    /\ InRoom /\ sock.ws = "connecting"
    /\ sock' = [sock EXCEPT !.ws = "open", !.attempt = 0, !.status = "connected"]
    /\ Notified(Status(shared, TRUE), location)
    /\ UNCHANGED <<privateVars, hash, location, made, room, bounds>>

\* Seeded fault: a connection that closes is taken for final.
ScheduleReconnectNot(s) == [s EXCEPT !.attempt = @ + 1, !.status = "reconnecting"]

ScheduleReconnect(s) ==
    [s EXCEPT !.attempt = @ + 1, !.status = "reconnecting", !.timer = TRUE]

\* The connection is refused or lost: "offline", and at once "reconnecting".
Dropped ==
    /\ InRoom /\ sock.ws # "none"
    /\ drops < MaxDrops
    /\ drops' = drops + 1
    /\ sock' = ScheduleReconnect([sock EXCEPT !.ws = "none"])
    /\ Notified(Status(shared, FALSE), location)
    /\ UNCHANGED <<privateVars, hash, location, made, room, hops, reloads, typed>>

\* Closed by the server with code 1008.
Rejected ==
    /\ InRoom /\ sock.ws = "open"
    /\ drops < MaxDrops
    /\ drops' = drops + 1
    /\ sock' = [sock EXCEPT !.ws = "none", !.terminal = TRUE, !.status = "offline"]
    /\ Notified(Status(shared, FALSE), location)
    /\ UNCHANGED <<privateVars, hash, location, made, room, hops, reloads, typed>>

---------------------------------------------------------------------------
(* The room.                                                               *)

\* The server applies what the session has sent on this connection.
Accept ==
    /\ InRoom /\ sock.ws = "open" /\ shared.baselined
    /\ ~(shared.unsent \subseteq room[location])
    /\ room' = [room EXCEPT ![location] = @ \cup shared.unsent]
    /\ UNCHANGED <<privateVars, hash, location, sharedVars, made, bounds>>

\* A History arrives, the first of a connection or one with news in it.
Learn ==
    /\ InRoom /\ sock.ws = "open"
    /\ ~shared.baselined \/ ~(room[location] \subseteq shared.seen)
    /\ Notified([shared EXCEPT !.seen = @ \cup room[location],
                               !.unsent = @ \ room[location],
                               !.baselined = TRUE, !.everBaselined = TRUE], location)
    /\ UNCHANGED <<privateVars, hash, location, made, room, sock, bounds>>

\* Someone who has been given the link writes something.
OthersWrite(r) ==
    /\ r \in made /\ typed < MaxTyped
    /\ typed' = typed + 1
    /\ room' = [room EXCEPT ![r] = @ \cup {Piece("them", <<typed>>)}]
    /\ UNCHANGED <<privateVars, hash, location, sharedVars, made,
                   hops, drops, reloads>>

TypeInRoom ==
    /\ InRoom /\ typed < MaxTyped
    /\ typed' = typed + 1
    /\ Notified(Edited(shared, Piece("me", <<typed>>)), location)
    /\ UNCHANGED <<privateVars, hash, location, made, room, sock,
                   hops, drops, reloads>>

---------------------------------------------------------------------------
(* Going from one document to another.                                     *)

\* handleCreateRoom: the hash changes at once, the location when the browser
\* dispatches the event.
CreateRoom(r) ==
    /\ ~InRoom /\ ~loop.closed /\ r \in Rooms \ made
    /\ made' = made \cup {r}
    /\ seeds' = [seeds EXCEPT ![r] = <<sess.text>>]
    /\ hash' = r
    /\ UNCHANGED <<privateVars, location, shared, sock, room, bounds>>

\* The user follows a link, edits the address, goes back.
Navigate(fragment) ==
    /\ hops < MaxHops
    /\ hops' = hops + 1
    /\ hash' = fragment
    /\ hash' # hash
    /\ UNCHANGED <<privateVars, location, sharedVars, made, room,
                   drops, reloads, typed>>

\* Seeded fault: the text is not flushed.
LeaveUnflushed ==
    /\ loop' = [loop EXCEPT !.closed = TRUE]
    /\ save' = << >>
    /\ UNCHANGED writes

Leave == ClosePrivate

\* The effect that makes the session of a room: no decision is possible yet,
\* but that there is no seed.
Enter(r) ==
    /\ sock' = NewSock
    /\ Notified(NewShared, r)

\* A hashchange or popstate event: useRoomLocation, and the effect of
\* useCollabDocument with its cleanup when the document is another one.
LocationChange ==
    LET next == ReadLocation(hash)
    IN  /\ next # location
        /\ location' = next
        /\ \/ /\ location = "private" /\ next # "private"
              /\ Leave
              /\ Enter(next)
              /\ UNCHANGED <<sess, thrown, db, kept>>
           \/ /\ location # "private" /\ next = "private"
              /\ OpenPrivate
              /\ shared' = NewShared /\ sock' = NoSock
              /\ UNCHANGED <<thrown, save, writes, seeds>>
           \/ /\ location # "private" /\ next # "private"
              /\ Enter(next)
              /\ UNCHANGED <<sess, loop, thrown, db, save, writes, kept>>
        /\ UNCHANGED <<stored, edits, failures, hash, made, room, bounds>>

\* The page is reloaded, or crashes and is opened again.
Reload ==
    /\ reloads < MaxReloads
    /\ reloads' = reloads + 1
    /\ location' = ReadLocation(hash)
    /\ loop' = [NewLoop EXCEPT !.closed = ReadLocation(hash) # "private"]
    /\ LosePage
    /\ IF ReadLocation(hash) = "private"
       THEN shared' = NewShared /\ sock' = NoSock /\ UNCHANGED seeds
       ELSE Enter(ReadLocation(hash))
    /\ UNCHANGED <<stored, writes, edits, failures, hash, made, room,
                   hops, drops, typed>>
---------------------------------------------------------------------------

Init ==
    /\ PrivateInit
    /\ hash = ""
    /\ location = "private"
    /\ seeds = [r \in Rooms |-> << >>]
    /\ made = {}
    /\ shared = NewShared
    /\ sock = NoSock
    /\ room = [r \in Rooms |-> {}]
    /\ hops = 0 /\ drops = 0 /\ reloads = 0 /\ typed = 0

ElsewhereUnchanged == UNCHANGED <<hash, location, sharedVars, made, room, bounds>>

Next ==
    \/ (Bootstrap \/ Type \/ SaveTimer \/ WriteDone \/ WriteFails) /\ ElsewhereUnchanged
    \/ \E r \in Rooms : CreateRoom(r) \/ OthersWrite(r)
    \/ \E fragment \in made \cup {"", Malformed} : Navigate(fragment)
    \/ LocationChange \/ Reload
    \/ Connect \/ Opened \/ Dropped \/ Rejected
    \/ Accept \/ Learn \/ TypeInRoom

Spec == Init /\ [][Next]_vars

(* Timers fire, database requests and browser events are completed, and a  *)
(* server that can be reached answers; drops are bounded.                  *)
(* The first conjunct is weak fairness of Bootstrap, stated by when it is  *)
(* not possible: its ENABLED would evaluate a whole turn in every state.   *)
Fairness ==
    /\ []<>(loop.closed \/ loop.ready \/ writes # << >>)
    /\ WF_vars(SaveTimer /\ ElsewhereUnchanged)
    /\ WF_vars(WriteDone /\ ElsewhereUnchanged)
    /\ WF_vars(LocationChange)
    /\ WF_vars(Connect) /\ WF_vars(Opened)
    /\ WF_vars(Accept) /\ WF_vars(Learn)

FairSpec == Spec /\ Fairness

---------------------------------------------------------------------------
(* Properties.                                                             *)

TypeOK ==
    /\ SessionOK(sess) /\ sess.failed = "none"
    /\ loop.ready \in BOOLEAN /\ loop.closed \in BOOLEAN /\ loop.revision \in Nat
    /\ Len(save) <= 1 /\ Len(kept) <= 1
    /\ location \in Rooms \cup {"private"}
    /\ InRoom = loop.closed
    /\ \A r \in Rooms : Len(seeds[r]) <= 1 /\ (r \notin made => seeds[r] = << >>)
    /\ sock.status \in {"connecting", "reconnecting", "connected", "offline"}

(***************************************************************************)
(* The loopback's document is the one on the screen, and everything in it  *)
(* is acknowledged: an edit that is not stays unsaved for good.  The       *)
(* loopback promises it for edits made while the text is being read, too   *)
(* (transport.ts: "queued and replayed in order once it finishes").        *)
(***************************************************************************)
LoopbackKeepsUp ==
    /\ ~thrown
    /\ loop.ready /\ ~loop.closed =>
          /\ loop.text = sess.text /\ sess.synced = sess.text
          /\ sess.pending = << >> /\ sess.revision = loop.revision

(***************************************************************************)
(* A transport that has not been told to stop is never without something   *)
(* that will bring it on - a socket or the timer, and never both - and the *)
(* session takes itself for connected, or for in step with the room, only  *)
(* while its socket is open (transport.ts, session.ts handleStatus).       *)
(***************************************************************************)
TransportNeverStuck ==
    /\ InRoom => Cardinality({w \in {"socket", "timer", "terminal"} :
                      \/ w = "socket" /\ sock.ws # "none"
                      \/ w = "timer" /\ sock.timer
                      \/ w = "terminal" /\ sock.terminal}) = 1
    /\ shared.connected <=> InRoom /\ sock.ws = "open"
    /\ shared.baselined => shared.connected
    /\ InRoom => (sock.status = "connected" <=> sock.ws = "open")

TabInv == TypeOK /\ LoopbackKeepsUp /\ TransportNeverStuck

(***************************************************************************)
(* A stashed seed is consumed only by the session of the room it was       *)
(* stashed for, once that has a baseline, and only if the room's document  *)
(* then has something in it: the seed itself or what came before it.  An   *)
(* empty seed is merely dropped (seed.ts: "consumed ONLY when a decision   *)
(* about it has actually been made against the session it belongs to").    *)
(***************************************************************************)
SeedConsumedByItsSession ==
    [][\A r \in Rooms :
          seeds[r] # << >> /\ seeds'[r] = << >> =>
              /\ location' = r
              /\ shared'.baselined
              /\ seeds[r] # << << >> >> => Document(shared') # {}]_vars

(***************************************************************************)
(* Whoever comes back to the private document - from a room, or after a    *)
(* reload that found nothing left to be written - finds the text as it was *)
(* left, whatever was still on its way to the database (storage.ts flush   *)
(* and load, LoopbackTransport.close and bootstrap).                       *)
(***************************************************************************)
TextIsThereAgain ==
    [][~loop.ready /\ loop'.ready /\ kept # << >> => sess'.text = kept[1]]_vars

(***************************************************************************)
(* What is on the screen is in the database in the end, unless a write     *)
(* failed (storage.ts scheduleSave).                                       *)
(***************************************************************************)
EventuallyStored == <>[](kept # << >> => stored = kept[1])

(***************************************************************************)
(* A room made from a text does not stay empty: while its tab stays there  *)
(* and is not reloaded or rejected, the seed reaches the server, however   *)
(* often the connection is lost on the way, or something else has.         *)
(***************************************************************************)
SeedReachesRoom ==
    \A r \in Rooms : \A n \in 0..MaxReloads :
        (location = r /\ reloads = n /\ seeds[r] \notin {<< >>, << << >> >>})
            ~> (room[r] # {} \/ location # r \/ reloads # n \/ sock.terminal)
=============================================================================
