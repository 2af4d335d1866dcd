------------------------------ MODULE Presence ------------------------------
(***************************************************************************)
(* Who is in a room, and who sees whom: the participants and carets that a *)
(* room keeps (internal/room/room.go), the wakeup of the write loops       *)
(* (broadcast.go), what a write loop tells its client (server/conn.go),    *)
(* and the peers that the client's session and views make of it            *)
(* (web/src/collab/session.ts, app/useCollabDocument.ts,                   *)
(* app/Presence.tsx).                                                      *)
(*                                                                         *)
(* The room is locked only for a moment at a time: Join takes the lock     *)
(* twice, every change is published after the lock has been released, and  *)
(* a write loop reads the participants and the carets one after the other. *)
(* Write loops and clients only read the room, and only those of Watchers  *)
(* are followed.  Messages arrive in the order they were sent and have no  *)
(* answer; the sessions are looked at when everything has arrived, so what *)
(* is sent to a client is handled in the same step.                        *)
(* A connection is named by its participant's id.  A caret is the number   *)
(* of the selection it reports: where it is in the text is module Collab's *)
(* subject.                                                                *)
(***************************************************************************)
EXTENDS Integers, SequencesExt, FiniteSetsExt, Functions

CONSTANTS Clients,
          Watchers,   \* the clients that are followed
          Names,      \* what names.Unique may choose from
          OwnNames,   \* what a user may want to be called
          MaxID,      \* bound on the connections ever made
          MaxLosses,  \* bound on the connections broken
          MaxTouches  \* bound on the selections made and the names changed

ASSUME PresenceAssumption ==
    /\ {MaxID, MaxLosses, MaxTouches} \subseteq Nat
    /\ Watchers \subseteq Clients
    /\ IsFiniteSet(Names) /\ Cardinality(Names) >= MaxID
    /\ OwnNames # {}

VARIABLES
    users,    \* the room's participants: id -> name
    cursors,  \* their carets: id -> caret
    owed,     \* the ids whose goroutine has changed the room and not yet published it
    conn,     \* the connections, by id, see Connection
    online,   \* client -> the id of the connection it has open, or 0
    selfId,   \* client -> session.selfId
    peers,    \* client -> session.peers: id -> [info, cursor]
    raced,    \* the pairs of ids that are there and whose Joins overlapped
    losses, touches  \* counters

roomVars   == <<users, cursors, owed>>
clientVars == <<online, selfId, peers>>
counters   == <<losses, touches>>
vars == <<roomVars, conn, clientVars, raced, counters>>

Empty == [x \in {} |-> x]

\* A map with one entry set, and with those of another one set.
With(f, x, v) == [y \in DOMAIN f \cup {x} |-> IF y = x THEN v ELSE f[y]]

Updated(f, g) == [y \in DOMAIN f \cup DOMAIN g |-> IF y \in DOMAIN g THEN g[y] ELSE f[y]]

\* A connection: whose it is, how far handleSocket is with it ("choosing" and
\* "joined" inside Join, "serving", "left"), the names taken when Join looked;
\* the write loop: where it is, whether the channel it took has been closed,
\* the messages of pending() so far, and what it has sent.
Connection(c) ==
    [client |-> c, state |-> "choosing", taken |-> ToSet(users), pc |-> "take",
     changed |-> FALSE, out |-> << >>, sentUsers |-> Empty, sentCursors |-> Empty]

IDs == DOMAIN conn

Serving(i) == conn[i].state = "serving"

Watched(i) == conn[i].client \in Watchers

UserInfo(i, info)   == [type |-> "UserInfo", id |-> i, info |-> info]
UserCursor(i, data) == [type |-> "UserCursor", id |-> i, data |-> data]

---------------------------------------------------------------------------
(* The room.                                                               *)

\* handleSocket accepts a client's connection, and Join's first section gives
\* it an id and looks at the names that are taken.  The client's session
\* forgets its peers when the connection opens (handleStatus).
Connect(c) ==
    /\ online[c] = 0 /\ Len(conn) < MaxID
    /\ conn' = Append(conn, Connection(c))
    /\ online' = [online EXCEPT ![c] = Len(conn) + 1]
    /\ peers' = [peers EXCEPT ![c] = Empty]
    /\ raced' = raced \cup {{i, Len(conn) + 1} : i \in {j \in IDs : conn[j].state = "choosing"}}
    /\ UNCHANGED <<roomVars, selfId, counters>>

\* Seeded fault: the names that are taken are not looked at.
UniqueAny(taken) == Names

\* names.Unique, which never runs out of names.
Unique(taken) == Names \ taken

\* Join's second section.
Join(i) ==
    /\ conn[i].state = "choosing"
    /\ \E name \in Unique(conn[i].taken) : users' = With(users, i, name)
    /\ conn' = [conn EXCEPT ![i].state = "joined", ![i].taken = {}]
    /\ owed' = owed \cup {i}
    /\ UNCHANGED <<cursors, clientVars, raced, counters>>

\* Seeded fault: the caret of somebody who leaves is kept.
WithoutCaretNot(cs, i) == cs

WithoutCaret(cs, i) == Restrict(cs, DOMAIN cs \ {i})

\* The run of the connection is over, for the client has gone or the server
\* has given up on it.
Leave(i) ==
    /\ Serving(i) /\ i \notin owed
    /\ \/ online[conn[i].client] # i /\ UNCHANGED losses
       \/ losses < MaxLosses /\ losses' = losses + 1
    /\ users' = Restrict(users, DOMAIN users \ {i})
    /\ cursors' = WithoutCaret(cursors, i)
    /\ owed' = owed \cup {i}
    /\ conn' = [conn EXCEPT ![i] = [Connection(conn[i].client) EXCEPT
                                       !.state = "left", !.taken = {}]]
    /\ raced' = {pair \in raced : i \notin pair}
    /\ UNCHANGED <<clientVars, touches>>

\* A message of the client's reaches readLoop.
SetInfo(i) ==
    /\ Serving(i) /\ i \notin owed /\ touches < MaxTouches
    /\ \E name \in OwnNames : users' = [users EXCEPT ![i] = name]
    /\ owed' = owed \cup {i}
    /\ touches' = touches + 1
    /\ UNCHANGED <<cursors, conn, clientVars, raced, losses>>

SetCursor(i) ==
    /\ Serving(i) /\ i \notin owed /\ touches < MaxTouches
    /\ cursors' = With(cursors, i, touches + 1)
    /\ owed' = owed \cup {i}
    /\ touches' = touches + 1
    /\ UNCHANGED <<users, conn, clientVars, raced, losses>>

\* Seeded fault: only the loops that are waiting are woken.
WokenAsleep(i) == Serving(i) /\ Watched(i) /\ conn[i].pc = "wait"

\* A write loop has taken a channel, or is going to.
Woken(i) == Serving(i) /\ Watched(i)

\* broadcast.publish: the channel that the write loops have taken is closed.
\* At the end of Join the loops of the connection are started, and the write
\* loop begins with its client's id, from which the session knows itself.
Publish(i) ==
    /\ i \in owed
    /\ owed' = owed \ {i}
    /\ conn' = [j \in IDs |->
                   IF j = i /\ conn[i].state = "joined"
                   THEN [conn[i] EXCEPT !.state = "serving"]
                   ELSE [conn[j] EXCEPT !.changed = @ \/ Woken(j)]]
    /\ selfId' = [c \in Clients |-> IF conn[i].state = "joined" /\ online[c] = i THEN i
                                    ELSE selfId[c]]
    /\ UNCHANGED <<users, cursors, online, peers, raced, counters>>

---------------------------------------------------------------------------
(* The write loop.                                                         *)

\* Changes(): the present channel is taken, at first and when the one before
\* has been closed.
TakeChannel(i) ==
    /\ Serving(i) /\ Watched(i)
    /\ conn[i].pc = "take" \/ (conn[i].pc = "wait" /\ conn[i].changed)
    /\ conn' = [conn EXCEPT ![i].pc = "users", ![i].changed = FALSE]
    /\ UNCHANGED <<roomVars, clientVars, raced, counters>>

\* pending(), the participants: who is new or renamed, and who has left.
Told(sent, now) == {i \in DOMAIN now : i \notin DOMAIN sent \/ sent[i] # now[i]}

\* Seeded fault: nobody is told that somebody has left.
GoneNobody(sent, now) == {}

Gone(sent, now) == DOMAIN sent \ DOMAIN now

\* The session's side, for one client's peers.
InfoOf(ps, i)   == IF i \in DOMAIN ps THEN ps[i].info ELSE << >>
CursorOf(ps, i) == IF i \in DOMAIN ps THEN ps[i].cursor ELSE 0

\* handleMessage, for the peers.  Without an info the peer is deleted.
HandleMessage(ps, m) ==
    CASE m.type = "UserCursor" -> With(ps, m.id, [info |-> InfoOf(ps, m.id), cursor |-> m.data])
      [] m.type = "UserInfo" /\ m.info # << >> ->
             With(ps, m.id, [info |-> m.info, cursor |-> CursorOf(ps, m.id)])
      [] OTHER -> Restrict(ps, DOMAIN ps \ {m.id})

ReadUsers(i) ==
    LET k == conn[i] IN
    /\ Serving(i) /\ k.pc = "users"
    /\ conn' = [conn EXCEPT ![i] =
          [k EXCEPT !.pc = "cursors",
                    !.out = SetToSeq({UserInfo(j, <<users[j]>>) : j \in Told(k.sentUsers, users)})
                            \o SetToSeq({UserInfo(j, << >>) : j \in Gone(k.sentUsers, users)}),
                    !.sentUsers = users,
                    !.sentCursors = Restrict(@, DOMAIN @ \ Gone(k.sentUsers, users))]]
    /\ UNCHANGED <<roomVars, clientVars, raced, counters>>

\* pending(), the carets but the client's own; then everything is sent
\* to the client, if it is still there.
ReadCursors(i) ==
    LET k      == conn[i]
        others == Restrict(cursors, DOMAIN cursors \ {i})
        sent   == k.out \o SetToSeq({UserCursor(j, others[j]) : j \in Told(k.sentCursors, others)})
    IN
    /\ Serving(i) /\ k.pc = "cursors"
    /\ conn' = [conn EXCEPT ![i] =
          [k EXCEPT !.pc = "wait",
                    !.out = << >>,
                    !.sentCursors = Updated(@, others)]]
    /\ peers' = [c \in Clients |-> IF online[c] = i THEN FoldLeft(HandleMessage, peers[c], sent)
                                   ELSE peers[c]]
    /\ UNCHANGED <<roomVars, online, selfId, raced, counters>>
---------------------------------------------------------------------------
(* The client.                                                             *)

\* The connection breaks, or the server has closed it.
Lose(c) ==
    /\ online[c] # 0
    /\ \/ losses < MaxLosses /\ losses' = losses + 1
       \/ conn[online[c]].state = "left" /\ UNCHANGED losses
    /\ online' = [online EXCEPT ![c] = 0]
    /\ UNCHANGED <<roomVars, conn, selfId, peers, raced, touches>>

\* Presence.tsx, and useCollabDocument's remoteCursors: whom the user sees,
\* and the carets that are drawn.
Others(c) == {i \in DOMAIN peers[c] \ {selfId[c]} : peers[c][i].info # << >>}

RemoteCursors(c) ==
    {[id |-> i, name |-> peers[c][i].info[1], pos |-> peers[c][i].cursor] :
        i \in {j \in Others(c) : peers[c][j].cursor # 0}}
---------------------------------------------------------------------------

Init ==
    /\ users = Empty /\ cursors = Empty /\ owed = {}
    /\ conn = << >>
    /\ online = [c \in Clients |-> 0]
    /\ selfId = [c \in Clients |-> 0]
    /\ peers = [c \in Clients |-> Empty]
    /\ raced = {}
    /\ losses = 0 /\ touches = 0

Served(i) ==
    Join(i) \/ Leave(i) \/ SetInfo(i) \/ SetCursor(i) \/ Publish(i)
      \/ TakeChannel(i) \/ ReadUsers(i) \/ ReadCursors(i)

Next ==
    \/ \E c \in Clients : Connect(c) \/ Lose(c)
    \/ \E i \in IDs : Served(i)

Spec == Init /\ [][Next]_vars

(* Goroutines that can run do so in the end; a broken connection is        *)
(* noticed on both sides.                                                  *)
Gives(i) == online[conn[i].client] # i /\ Leave(i)

Fairness ==
    /\ \A i \in 1..MaxID :
          /\ WF_vars(i \in IDs /\ (Join(i) \/ Publish(i)))
          /\ WF_vars(i \in IDs /\ (TakeChannel(i) \/ ReadUsers(i) \/ ReadCursors(i)))
          /\ SF_vars(i \in IDs /\ Gives(i))
    /\ \A c \in Clients : WF_vars(Lose(c) /\ conn[online[c]].state = "left")

FairSpec == Spec /\ Fairness

---------------------------------------------------------------------------
(* Properties.                                                             *)

TypeOK ==
    /\ DOMAIN users = {i \in IDs : conn[i].state \in {"joined", "serving"}}
    /\ DOMAIN cursors \subseteq DOMAIN users
    /\ ToSet(users) \subseteq Names \cup OwnNames
    /\ owed \subseteq {i \in IDs : conn[i].state \in {"joined", "serving", "left"}}
    /\ \A i \in IDs : /\ conn[i].pc \in {"take", "users", "cursors", "wait"}
                      /\ conn[i].out # << >> => conn[i].pc = "cursors"
                      /\ DOMAIN conn[i].sentCursors \subseteq IDs \ {i}
    /\ \A c \in Clients : /\ online[c] \in IDs \cup {0}
                          /\ DOMAIN peers[c] \subseteq IDs

(***************************************************************************)
(* Two participants whom the room has named have the same name only if     *)
(* their Joins overlapped (room.go, Join: "a display name that is unique   *)
(* within the room").                                                      *)
(***************************************************************************)
NamesClashOnlyInARace ==
    \A i, j \in DOMAIN users :
        i # j /\ users[i] = users[j] /\ users[i] \notin OwnNames => {i, j} \in raced

(***************************************************************************)
(* A write loop sleeps only when it has told its client everything: with   *)
(* every change published and the channel still open, what it has sent is  *)
(* what is in the room (broadcast.go: reading first "would leave a window  *)
(* in which an update lands between the read and the wait, and the         *)
(* listener would sleep through it").                                      *)
(***************************************************************************)
SleepsOnlyWhenUpToDate ==
    \A i \in IDs :
        Serving(i) /\ conn[i].pc = "wait" /\ ~conn[i].changed /\ owed = {} =>
            /\ conn[i].sentUsers = users
            /\ \A j \in DOMAIN cursors \ {i} :
                  j \in DOMAIN conn[i].sentCursors /\ conn[i].sentCursors[j] = cursors[j]

(***************************************************************************)
(* When nobody comes, goes or moves any more, everybody who is connected   *)
(* sees exactly the others who are there, under their names and with their *)
(* last carets: nobody is missing and nobody who left is still shown.      *)
(***************************************************************************)
EverybodySeesEverybody ==
    <>[](\A c \in Watchers :
            online[c] # 0 =>
                /\ selfId[c] = online[c]
                /\ Others(c) = DOMAIN users \ {online[c]}
                /\ RemoteCursors(c) = {[id |-> i, name |-> users[i], pos |-> cursors[i]] :
                                          i \in DOMAIN cursors \ {online[c]}})
=============================================================================
