------------------------------ MODULE TabProofs ------------------------------
(***************************************************************************)
(* A seed is consumed only by the session of its own room, once that has a *)
(* baseline; the transport of a room is never left without a way on; the   *)
(* private document's session and loopback agree after every turn, and its *)
(* text is there again for whoever comes back: for any rooms, texts and    *)
(* numbers of edits, navigations, reloads, failed writes and lost          *)
(* connections.                                                            *)
(***************************************************************************)
EXTENDS Tab, SessionProofs

\* The session of a room as a record.
SharedOK(s) ==
    /\ DOMAIN s = {"connected", "baselined", "everBaselined", "seen", "unsent", "settled"}
    /\ s.connected \in BOOLEAN /\ s.baselined \in BOOLEAN /\ s.everBaselined \in BOOLEAN

SeedShape == DOMAIN seeds = Rooms /\ SharedOK(shared)

\* What SeedConsumedByItsSession says of one room.
ConsumedRightly(r) ==
    seeds[r] # << >> /\ seeds'[r] = << >> =>
        /\ location' = r
        /\ shared'.baselined
        /\ seeds[r] # << << >> >> => Document(shared') # {}

---------------------------------------------------------------------------
(* One decision about a seed.                                              *)

\* A new session is a record, and a change of its transport's status leaves it one.
LEMMA NewSharedOK == SharedOK(NewShared)
BY DEF SharedOK, NewShared

\* A change of the transport's status leaves the session a record.
LEMMA StatusStays ==
    ASSUME NEW s, SharedOK(s), NEW b \in BOOLEAN
    PROVE  SharedOK(Status(s, b))
BY DEF SharedOK, Status

\* An edit joins the document, and no baseline is lost by it.
LEMMA EditedStays ==
    ASSUME NEW s, SharedOK(s), NEW piece
    PROVE  /\ SharedOK(Edited(s, piece))
           /\ s.baselined => Edited(s, piece).baselined
           /\ piece \in Document(Edited(s, piece))
<1> DEFINE ready == s.connected /\ (s.baselined \/ ~s.everBaselined)
           e == [s EXCEPT !.unsent = @ \cup {piece},
                          !.baselined = @ \/ ready, !.everBaselined = @ \/ ready]
<1>1. Edited(s, piece) = e
    BY DEF Edited
<1>2. /\ DOMAIN e = DOMAIN s /\ e.connected = s.connected
      /\ e.baselined = (s.baselined \/ ready)
      /\ e.everBaselined = (s.everBaselined \/ ready)
      /\ e.unsent = s.unsent \cup {piece}
    BY DEF SharedOK
<1> HIDE DEF e
<1> QED BY <1>1, <1>2 DEF SharedOK, Document

\* Settling changes neither the baseline nor the document.
LEMMA Settling ==
    ASSUME NEW s, SharedOK(s)
    PROVE  /\ SharedOK([s EXCEPT !.settled = TRUE])
           /\ [s EXCEPT !.settled = TRUE].baselined = s.baselined
           /\ Document([s EXCEPT !.settled = TRUE]) = Document(s)
BY DEF SharedOK, Document

\* considerSeed takes a seed away only from a session with a baseline, and
\* leaves it with a document, unless the seed was empty.
LEMMA ConsideredRightly ==
    ASSUME NEW s, SharedOK(s), NEW seed
    PROVE  LET c == Considered(s, seed) IN
           /\ SharedOK(c.s)
           /\ seed # << >> /\ c.seed = << >> =>
                 /\ c.s.baselined
                 /\ seed # << << >> >> => Document(c.s) # {}
<1> DEFINE decision == DecideSeed(seed, s.baselined, Document(s) = {})
           edited == IF decision = "apply" THEN Edited(s, Piece("seed", seed[1])) ELSE s
           c == Considered(s, seed)
<1>1. CASE s.settled \/ decision = "wait"
  <2>1. c = [s |-> s, seed |-> seed]
      BY <1>1 DEF Considered
  <2> QED BY <2>1
<1>2. CASE ~(s.settled \/ decision = "wait")
  <2>1. c = [s |-> [edited EXCEPT !.settled = TRUE], seed |-> << >>]
      BY <1>2 DEF Considered
  <2>2. SharedOK(edited)
      BY EditedStays
  <2>3. c.s = [edited EXCEPT !.settled = TRUE] /\ c.seed = << >>
      BY <2>1
  <2> HIDE DEF edited, c
  <2>4. /\ SharedOK(c.s) /\ c.s.baselined = edited.baselined
        /\ Document(c.s) = Document(edited)
      BY <2>2, <2>3, Settling
  <2>5. ASSUME seed # << >>
        PROVE  /\ s.baselined
               /\ decision # "apply" => seed = << << >> >> \/ Document(s) # {}
      BY <1>2, <2>5 DEF DecideSeed
  <2>6. ASSUME seed # << >>, seed # << << >> >>
        PROVE  Document(edited) # {}
      BY <2>5, <2>6, EditedStays DEF edited
  <2>7. ASSUME seed # << >>
        PROVE  edited.baselined
      BY <2>5, <2>7, EditedStays DEF edited
  <2> QED BY <2>4, <2>6, <2>7 DEF c
<1> QED BY <1>1, <1>2

\* So does the listener, for the room its session belongs to.
LEMMA NotifiedRightly ==
    ASSUME SeedShape, NEW s, SharedOK(s), NEW q, Notified(s, q), location' = q
    PROVE  SeedShape' /\ \A r \in Rooms : ConsumedRightly(r)
<1> DEFINE c == Considered(s, seeds[q])
<1>1. shared' = c.s /\ seeds' = [seeds EXCEPT ![q] = c.seed]
    BY DEF Notified
<1>2. /\ SharedOK(c.s)
      /\ seeds[q] # << >> /\ c.seed = << >> =>
            /\ c.s.baselined
            /\ seeds[q] # << << >> >> => Document(c.s) # {}
    BY ConsideredRightly
<1> HIDE DEF c
<1>3. SeedShape'
    BY <1>1, <1>2 DEF SeedShape, SharedOK
<1>4. ASSUME NEW r \in Rooms PROVE ConsumedRightly(r)
  <2>1. CASE r # q
      BY <1>1, <2>1 DEF SeedShape, ConsumedRightly
  <2>2. CASE r = q
      BY <1>1, <1>2, <2>2 DEF SeedShape, ConsumedRightly, Document
  <2> QED BY <2>1, <2>2
<1> QED BY <1>3, <1>4

---------------------------------------------------------------------------
(* The actions.                                                            *)

\* At first there is a place for the seed of every room, and a session.
LEMMA InitSeeds == Init => SeedShape
BY NewSharedOK DEF Init, SeedShape

\* Every step consumes seeds rightly.
LEMMA NextSeeds == SeedShape /\ [Next]_vars => SeedShape' /\ \A r \in Rooms : ConsumedRightly(r)
<1> SUFFICES ASSUME SeedShape, [Next]_vars
             PROVE  SeedShape' /\ \A r \in Rooms : ConsumedRightly(r)
    OBVIOUS
<1>1. ASSUME seeds' = seeds, SharedOK(shared)'
      PROVE  SeedShape' /\ \A r \in Rooms : ConsumedRightly(r)
    BY <1>1 DEF SeedShape, SharedOK, ConsumedRightly
<1>2. ASSUME UNCHANGED sharedVars
      PROVE  SeedShape' /\ \A r \in Rooms : ConsumedRightly(r)
    BY <1>1, <1>2 DEF sharedVars, SeedShape, SharedOK
<1>3. CASE (Bootstrap \/ Type \/ SaveTimer \/ WriteDone \/ WriteFails) /\ ElsewhereUnchanged
    BY <1>2, <1>3 DEF ElsewhereUnchanged
<1>4. ASSUME NEW r \in Rooms, CreateRoom(r)
      PROVE  SeedShape' /\ \A q \in Rooms : ConsumedRightly(q)
  <2>1. seeds' = [seeds EXCEPT ![r] = <<sess.text>>] /\ shared' = shared
      BY <1>4 DEF CreateRoom
  <2>2. \A q \in Rooms : seeds'[q] = << >> => seeds[q] = << >>
      BY <2>1 DEF SeedShape
  <2> QED BY <2>1, <2>2 DEF SeedShape, SharedOK, ConsumedRightly
<1>5. CASE \/ \E r \in Rooms : OthersWrite(r)
           \/ \E fragment \in made \cup {"", Malformed} : Navigate(fragment)
    BY <1>2, <1>5 DEF OthersWrite, Navigate
<1>6. CASE LocationChange
  <2> DEFINE next == ReadLocation(hash)
  <2>1. CASE Enter(next)
      BY <1>6, <2>1, NotifiedRightly, NewSharedOK DEF LocationChange, Enter
  <2>2. CASE shared' = NewShared /\ seeds' = seeds
      BY <1>1, <2>2, NewSharedOK DEF SharedOK
  <2> QED BY <1>6, <2>1, <2>2 DEF LocationChange
<1>7. CASE Reload
  <2>1. CASE ReadLocation(hash) = "private"
      BY <1>1, <1>7, <2>1, NewSharedOK DEF Reload, SharedOK
  <2>2. CASE ReadLocation(hash) # "private"
      BY <1>7, <2>2, NotifiedRightly, NewSharedOK DEF Reload, Enter
  <2> QED BY <2>1, <2>2
<1>8. CASE Connect
    BY <1>1, <1>8 DEF Connect, SeedShape, SharedOK
<1>9. CASE Opened \/ Dropped \/ Rejected
  <2>1. SharedOK(Status(shared, TRUE)) /\ SharedOK(Status(shared, FALSE))
      BY StatusStays DEF SeedShape
  <2> QED BY <1>9, <2>1, NotifiedRightly DEF Opened, Dropped, Rejected
<1>10. CASE Accept
    BY <1>2, <1>10 DEF Accept
<1>11. CASE Learn
  <2> DEFINE s == [shared EXCEPT !.seen = @ \cup room[location],
                                 !.unsent = @ \ room[location],
                                 !.baselined = TRUE, !.everBaselined = TRUE]
  <2>1. SharedOK(s)
      BY DEF SeedShape, SharedOK
  <2> HIDE DEF s
  <2>2. Notified(s, location) /\ location' = location
      BY <1>11 DEF Learn, s
  <2> QED BY <2>1, <2>2, NotifiedRightly
<1>12. CASE TypeInRoom
  <2>1. SharedOK(Edited(shared, Piece("me", <<typed>>)))
      BY EditedStays DEF SeedShape
  <2> QED BY <1>12, <2>1, NotifiedRightly DEF TypeInRoom
<1>13. CASE UNCHANGED vars
    BY <1>2, <1>13 DEF vars
<1> QED BY <1>3, <1>4, <1>5, <1>6, <1>7, <1>8, <1>9, <1>10, <1>11, <1>12, <1>13 DEF Next

(***************************************************************************)
(* Whatever the user, the network and the others do, a seed is consumed    *)
(* only by the session of the room it was stashed for, once that has a     *)
(* baseline, and leaves that session with a document (seed.ts,             *)
(* useCollabDocument.ts considerSeed).                                     *)
(***************************************************************************)
THEOREM SeedsAreConsumedRightly == Spec => SeedConsumedByItsSession
<1>1. SeedShape /\ [Next]_vars =>
         SeedShape' /\ [\A r \in Rooms : ConsumedRightly(r)]_vars
    BY NextSeeds
<1>2. SeedConsumedByItsSession <=> [][\A r \in Rooms : ConsumedRightly(r)]_vars
    BY DEF SeedConsumedByItsSession, ConsumedRightly
<1> QED BY InitSeeds, <1>1, <1>2, PTL DEF Spec

---------------------------------------------------------------------------
(* The transport.                                                          *)

\* A session is in step with its room only while it is connected.
InStep(s) == SharedOK(s) /\ (s.baselined => s.connected)

\* An edit never makes a session that is not connected take itself for baselined.
LEMMA EditedInStep ==
    ASSUME NEW s, InStep(s), NEW piece
    PROVE  InStep(Edited(s, piece)) /\ Edited(s, piece).connected = s.connected
<1> DEFINE ready == s.connected /\ (s.baselined \/ ~s.everBaselined)
           e == [s EXCEPT !.unsent = @ \cup {piece},
                          !.baselined = @ \/ ready, !.everBaselined = @ \/ ready]
<1>1. Edited(s, piece) = e
    BY DEF Edited
<1>2. /\ DOMAIN e = DOMAIN s /\ e.connected = s.connected
      /\ e.baselined = (s.baselined \/ ready)
      /\ e.everBaselined = (s.everBaselined \/ ready)
    BY DEF InStep, SharedOK
<1> HIDE DEF e
<1> QED BY <1>1, <1>2 DEF InStep, SharedOK

\* A decision about the seed does not touch the connection.
LEMMA ConsideredInStep ==
    ASSUME NEW s, InStep(s), NEW seed
    PROVE  InStep(Considered(s, seed).s) /\ Considered(s, seed).s.connected = s.connected
<1> DEFINE decision == DecideSeed(seed, s.baselined, Document(s) = {})
           edited == IF decision = "apply" THEN Edited(s, Piece("seed", seed[1])) ELSE s
<1>1. CASE s.settled \/ decision = "wait"
  <2>1. Considered(s, seed) = [s |-> s, seed |-> seed]
      BY <1>1 DEF Considered
  <2> QED BY <2>1
<1>2. CASE ~(s.settled \/ decision = "wait")
  <2> DEFINE t == [edited EXCEPT !.settled = TRUE]
  <2>1. Considered(s, seed) = [s |-> t, seed |-> << >>]
      BY <1>2 DEF Considered
  <2>2. Considered(s, seed).s = t
      BY <2>1
  <2>3. InStep(edited) /\ edited.connected = s.connected
      BY EditedInStep
  <2> HIDE DEF edited
  <2>4. InStep(t) /\ t.connected = edited.connected
      BY <2>3 DEF InStep, SharedOK
  <2> HIDE DEF t
  <2> QED BY <2>2, <2>3, <2>4
<1> QED BY <1>1, <1>2

\* Nor does the listener that decides about the seed.
LEMMA NotifiedInStep ==
    ASSUME NEW s, InStep(s), NEW q, Notified(s, q)
    PROVE  InStep(shared') /\ shared'.connected = s.connected
BY ConsideredInStep DEF Notified

\* What brings the transport on: exactly one of three.
SockOK(k) ==
    /\ DOMAIN k = {"status", "attempt", "timer", "ws", "terminal"}
    /\ k.timer \in BOOLEAN /\ k.terminal \in BOOLEAN

OneWayOn(k) ==
    /\ k.status = "connected" <=> k.ws = "open"
    /\ \/ k.ws # "none" /\ ~k.timer /\ ~k.terminal
       \/ k.ws = "none" /\ k.timer /\ ~k.terminal
       \/ k.ws = "none" /\ ~k.timer /\ k.terminal

TransportInv ==
    /\ SockOK(sock) /\ InStep(shared)
    /\ InRoom => OneWayOn(sock)
    /\ shared.connected <=> InRoom /\ sock.ws = "open"

\* One of three: a socket, a timer, or a reason to stop.
LEMMA WaysOn == TransportInv => TransportNeverStuck
<1> SUFFICES ASSUME TransportInv PROVE TransportNeverStuck
    OBVIOUS
<1> DEFINE ways == {w \in {"socket", "timer", "terminal"} :
                      \/ w = "socket" /\ sock.ws # "none"
                      \/ w = "timer" /\ sock.timer
                      \/ w = "terminal" /\ sock.terminal}
<1>1. ASSUME InRoom PROVE Cardinality(ways) = 1
  <2>1. ways = {"socket"} \/ ways = {"timer"} \/ ways = {"terminal"}
      BY <1>1 DEF TransportInv, OneWayOn
  <2> HIDE DEF ways
  <2> QED BY <2>1, FS_Singleton
<1> QED BY <1>1 DEF TransportInv, OneWayOn, InStep, TransportNeverStuck

\* At first there is no transport.
LEMMA InitTransport == Init => TransportInv
<1>1. SockOK(NoSock) /\ InStep(NewShared) /\ ~NewShared.connected
    BY NewSharedOK DEF NoSock, NewSock, SockOK, NewShared, InStep
<1> QED BY <1>1, TabAssumption DEF Init, TransportInv, InRoom

\* A new session's transport is connecting.
LEMMA EnterKeeps ==
    ASSUME NEW q, Enter(q), location' = q, q \in Rooms
    PROVE  TransportInv'
<1>1. InStep(NewShared) /\ NewShared.connected = FALSE
    BY NewSharedOK DEF InStep, NewShared
<1>2. InStep(shared') /\ shared'.connected = FALSE
    BY <1>1, NotifiedInStep DEF Enter
<1>3. SockOK(NewSock) /\ OneWayOn(NewSock) /\ NewSock.ws = "connecting"
    BY DEF NewSock, SockOK, OneWayOn
<1>4. sock' = NewSock
    BY DEF Enter
<1> QED BY <1>2, <1>3, <1>4 DEF TransportInv

\* In the private document there is none.
LEMMA PrivateKeeps ==
    ASSUME shared' = NewShared, sock' = NoSock, location' = "private"
    PROVE  TransportInv'
<1>1. InStep(NewShared) /\ NewShared.connected = FALSE
    BY NewSharedOK DEF InStep, NewShared
<1>2. SockOK(NoSock) /\ NoSock.ws = "none"
    BY DEF NoSock, NewSock, SockOK
<1>3. ~InRoom'
    BY TabAssumption DEF InRoom
<1> QED BY <1>1, <1>2, <1>3 DEF TransportInv

\* A step in a room: what becomes of its socket and of its session agree.
LEMMA RoomKeeps ==
    ASSUME TransportInv, InRoom, location' = location,
           SockOK(sock'), OneWayOn(sock'),
           NEW s, InStep(s), Notified(s, location), s.connected <=> sock'.ws = "open"
    PROVE  TransportInv'
<1>1. InStep(shared') /\ shared'.connected = s.connected
    BY NotifiedInStep
<1>2. InRoom' = InRoom
    BY DEF InRoom
<1>3. s.connected \in BOOLEAN
    BY DEF InStep, SharedOK
<1> QED BY <1>1, <1>2, <1>3 DEF TransportInv

\* A change of the transport's status.
LEMMA StatusInStep ==
    ASSUME InStep(shared), NEW b \in BOOLEAN
    PROVE  InStep(Status(shared, b)) /\ Status(shared, b).connected = b
BY DEF InStep, SharedOK, Status

\* Every step leaves the transport one way on, and the session in step with it.
LEMMA NextTransport == TransportInv /\ [Next]_vars => TransportInv'
<1> SUFFICES ASSUME TransportInv, [Next]_vars PROVE TransportInv'
    OBVIOUS
<1>1. CASE UNCHANGED <<shared, sock, location>>
    BY <1>1 DEF TransportInv, InRoom
<1>2. CASE \/ (Bootstrap \/ Type \/ SaveTimer \/ WriteDone \/ WriteFails) /\ ElsewhereUnchanged
           \/ \E r \in Rooms : CreateRoom(r) \/ OthersWrite(r)
           \/ \E fragment \in made \cup {"", Malformed} : Navigate(fragment)
           \/ Accept \/ UNCHANGED vars
    BY <1>1, <1>2 DEF ElsewhereUnchanged, sharedVars, CreateRoom, OthersWrite, Navigate,
                      Accept, vars
<1>3. CASE LocationChange
  <2> DEFINE next == ReadLocation(hash)
  <2>1. next \in Rooms \cup {"private"} /\ location' = next
      BY <1>3 DEF LocationChange, ReadLocation
  <2>2. CASE next = "private"
      BY <1>3, <2>1, <2>2, PrivateKeeps DEF LocationChange
  <2>3. CASE next # "private"
      BY <1>3, <2>1, <2>3, EnterKeeps DEF LocationChange
  <2> QED BY <2>2, <2>3
<1>4. CASE Reload
  <2> DEFINE next == ReadLocation(hash)
  <2>1. next \in Rooms \cup {"private"} /\ location' = next
      BY <1>4 DEF Reload, ReadLocation
  <2>2. CASE next = "private"
      BY <1>4, <2>1, <2>2, PrivateKeeps DEF Reload
  <2>3. CASE next # "private"
      BY <1>4, <2>1, <2>3, EnterKeeps DEF Reload
  <2> QED BY <2>2, <2>3
<1>5. CASE Connect
  <2>1. /\ shared' = shared /\ location' = location /\ sock.timer /\ InRoom
        /\ \/ sock' = [sock EXCEPT !.timer = FALSE, !.ws = "connecting",
                                   !.status = "reconnecting"]
           \/ sock' = [sock EXCEPT !.attempt = @ + 1, !.status = "reconnecting"]
      BY <1>5 DEF Connect
  <2>2. SockOK(sock') /\ OneWayOn(sock') /\ sock'.ws # "open" /\ sock.ws # "open"
      BY <2>1 DEF TransportInv, SockOK, OneWayOn
  <2> QED BY <2>1, <2>2 DEF TransportInv, InRoom
<1>6. CASE Opened
  <2>1. sock' = [sock EXCEPT !.ws = "open", !.attempt = 0, !.status = "connected"]
      BY <1>6 DEF Opened
  <2>2. SockOK(sock') /\ OneWayOn(sock') /\ sock'.ws = "open"
      BY <1>6, <2>1 DEF Opened, TransportInv, SockOK, OneWayOn
  <2> QED BY <1>6, <2>2, StatusInStep, RoomKeeps DEF Opened, TransportInv
<1>7. CASE Dropped
  <2>1. sock' = ScheduleReconnect([sock EXCEPT !.ws = "none"]) /\ sock.ws # "none" /\ InRoom
      BY <1>7 DEF Dropped
  <2>2. SockOK(sock') /\ OneWayOn(sock') /\ sock'.ws = "none"
      BY <2>1 DEF ScheduleReconnect, TransportInv, SockOK, OneWayOn
  <2> QED BY <1>7, <2>2, StatusInStep, RoomKeeps DEF Dropped, TransportInv
<1>8. CASE Rejected
  <2>1. sock' = [sock EXCEPT !.ws = "none", !.terminal = TRUE, !.status = "offline"]
      BY <1>8 DEF Rejected
  <2>2. SockOK(sock') /\ OneWayOn(sock') /\ sock'.ws = "none"
      BY <1>8, <2>1 DEF Rejected, TransportInv, SockOK, OneWayOn
  <2> QED BY <1>8, <2>2, StatusInStep, RoomKeeps DEF Rejected, TransportInv
<1>9. CASE Learn
  <2> DEFINE s == [shared EXCEPT !.seen = @ \cup room[location],
                                 !.unsent = @ \ room[location],
                                 !.baselined = TRUE, !.everBaselined = TRUE]
  <2>1. Notified(s, location) /\ InRoom /\ sock.ws = "open"
        /\ UNCHANGED <<location, sock>>
      BY <1>9 DEF Learn
  <2>2. shared.connected
      BY <2>1 DEF TransportInv
  <2>3. InStep(s) /\ s.connected
      BY <2>2 DEF TransportInv, InStep, SharedOK
  <2> HIDE DEF s
  <2> QED BY <2>1, <2>3, RoomKeeps DEF TransportInv
<1>10. CASE TypeInRoom
  <2> DEFINE s == Edited(shared, Piece("me", <<typed>>))
  <2>1. Notified(s, location) /\ InRoom /\ UNCHANGED <<location, sock>>
      BY <1>10 DEF TypeInRoom
  <2>2. InStep(s) /\ s.connected = shared.connected
      BY EditedInStep DEF TransportInv
  <2> HIDE DEF s
  <2> QED BY <2>1, <2>2, RoomKeeps DEF TransportInv
<1> QED BY <1>2, <1>3, <1>4, <1>5, <1>6, <1>7, <1>8, <1>9, <1>10 DEF Next

(***************************************************************************)
(* However connections are lost, refused, rejected and made again, and     *)
(* wherever the user goes meanwhile, the transport of a room has exactly   *)
(* one thing that will bring it on, unless the server has told it to stop, *)
(* and the session is connected exactly while its socket is open           *)
(* (transport.ts WebSocketTransport, session.ts handleStatus).             *)
(***************************************************************************)
THEOREM TransportGoesOn == Spec => []TransportNeverStuck
BY InitTransport, NextTransport, WaysOn, PTL DEF Spec

---------------------------------------------------------------------------
(* The turns of the private document.                                      *)

\* A turn in which nothing has been thrown.
TurnOf(s, l, pending) == [sess |-> s, loop |-> l, save |-> pending, thrown |-> FALSE]

\* The parts of a turn can be read and replaced.
LEMMA TurnParts ==
    ASSUME NEW s, NEW l, NEW p, NEW x
    PROVE  /\ TurnOf(s, l, p).sess = s /\ TurnOf(s, l, p).loop = l
           /\ [TurnOf(s, l, p) EXCEPT !.sess = x] = TurnOf(x, l, p)
           /\ [TurnOf(s, l, p) EXCEPT !.loop = x] = TurnOf(s, x, p)
<1> DEFINE no == FALSE
           turn(a, b) == [sess |-> a, loop |-> b, save |-> p, thrown |-> no]
<1>1. \A a, b : turn(a, b) = TurnOf(a, b, p)
    BY DEF TurnOf
<1> HIDE DEF no
<1>2. /\ turn(s, l).sess = s /\ turn(s, l).loop = l
      /\ [turn(s, l) EXCEPT !.sess = x] = turn(x, l)
      /\ [turn(s, l) EXCEPT !.loop = x] = turn(s, x)
    OBVIOUS
<1> HIDE DEF turn
<1> QED BY <1>1, <1>2

\* The loopback as a record.
LoopOK(l) ==
    /\ l \in [ready : BOOLEAN, text : {l.text}, revision : Nat, queued : {l.queued},
              closed : BOOLEAN]
    /\ l.queued = << >>

\* Session and loopback have the same text and nothing is on its way.
UpToDate(s, l) ==
    /\ s.connected /\ s.baselined
    /\ s.pending = << >> /\ s.synced = s.text /\ IsText(s.text)
    /\ l.text = s.text /\ l.revision = s.revision

\* The loop of dispatch for no message and for one.
LEMMA DispatchFew ==
    ASSUME NEW turn, NEW messages, Len(messages) \in {0, 1}
    PROVE  /\ Len(messages) = 0 => DispatchAll(turn, messages) = turn
           /\ Len(messages) = 1 =>
                 DispatchAll(turn, messages) = Dispatch(turn, messages[1].op)
<1> DEFINE N == Len(messages)
           Step(t, k) == Dispatch(t, messages[k].op)
           Loop(f) == f = [k \in 0..N |-> IF k = 0 THEN turn ELSE Step(f[k - 1], k)]
           after == CHOOSE f : Loop(f)
           g == [k \in 0..N |-> IF k = 0 THEN turn ELSE Step(turn, k)]
<1>1. N \in {0, 1}
    OBVIOUS
<1>2. DispatchAll(turn, messages) = after[N]
    BY DEF DispatchAll
<1>3. Step(turn, 1) = Dispatch(turn, messages[1].op)
    OBVIOUS
<1> HIDE DEF N, Step
<1>4. Loop(g)
  <2>1. \A k \in 0..N : k = 0 \/ (k = 1 /\ k - 1 = 0 /\ 0 \in 0..N)
      BY <1>1
  <2>2. g[0] = turn
      BY <1>1
  <2>3. \A k \in 0..N : g[k] = IF k = 0 THEN turn ELSE Step(g[k - 1], k)
      BY <2>1, <2>2
  <2> QED BY <2>3
<1>5. Loop(after)
    BY <1>4
<1> HIDE DEF after
<1>6. after[0] = turn /\ (N = 1 => after[1] = Step(turn, 1))
    BY <1>1, <1>5
<1> QED BY <1>2, <1>3, <1>6 DEF N

\* What is left of a turn whose edit op has been confirmed and made the text e.
Confirmed(s, l, pending, op, e, t, m) ==
    /\ Dispatch(TurnOf(s, l, pending), op) = TurnOf(t, m, <<e>>)
    /\ SessionOK(t) /\ LoopOK(m) /\ m.ready = l.ready /\ m.closed = l.closed
    /\ t.failed = s.failed /\ t.connected = s.connected
    /\ t.baselined = s.baselined /\ t.pending = << >>
    /\ t.text = s.text /\ t.synced = e
    /\ m.text = e /\ m.revision = t.revision

\* An edit that nothing waits for is acknowledged and confirmed in its own turn,
\* and its text is going to be saved (transport.ts, dispatch).
LEMMA DispatchConfirms ==
    ASSUME NEW s, SessionOK(s), NEW l, LoopOK(l), NEW pending,
           NEW op, NEW d, NEW e, Does(op, d, e),
           s.pending = <<op>>, s.synced = d, l.text = d, l.revision = s.revision
    PROVE  \E t, m : Confirmed(s, l, pending, op, e, t, m)
<1> DEFINE turn == TurnOf(s, l, pending)
           p == <<op>>
           none == << >>
           r == s.revision + 1
           s1 == [s EXCEPT !.revision = r, !.pending = none]
           m == [l EXCEPT !.text = e, !.revision = r]
           t == [s EXCEPT !.revision = r, !.pending = none, !.synced = e]
           acked == TurnOf(s1, m, pending)
<1>1. Applies(op, d) /\ Apply(op, d) = e
    BY DoesApplies
<1>2. Len(p) = 1 /\ p # none /\ Tail(p) = none /\ IsSeq(none) /\ Len(none) <= 2
  <2>1. IsSeq(p) /\ Len(p) = 1
      BY IsSeqOne
  <2>2. p # none /\ IsSeq(Tail(p)) /\ Len(Tail(p)) = 0
      BY <2>1, IsSeqEmpty, IsSeqTail
  <2>3. Tail(p) = none
      BY <2>2, IsSeqNone
  <2> QED BY <2>1, <2>2, <2>3, IsSeqEmpty
<1> HIDE DEF p, none
<1>3. s.pending = p
    BY DEF p
<1>4. s.revision \in Nat /\ r \in Nat /\ l.revision + 1 = r
    BY DEF SessionOK
<1>5. Acknowledge(turn, op) = acked
  <2>1. /\ turn.thrown = FALSE /\ turn.loop = l /\ turn.sess = s
        /\ DOMAIN turn = {"sess", "loop", "save", "thrown"}
      BY DEF TurnOf
  <2>2. Acknowledge(turn, op) = [turn EXCEPT !.loop.text     = Apply(op, @),
                                             !.loop.revision = @ + 1,
                                             !.sess.revision = @ + 1,
                                             !.sess.pending  = Tail(@)]
      BY <1>1, <1>2, <1>3, <2>1 DEF Acknowledge
  <2>3. [l EXCEPT !.text = Apply(op, @), !.revision = @ + 1] = m
      BY <1>1, <1>4 DEF LoopOK
  <2>4. [s EXCEPT !.revision = @ + 1, !.pending = Tail(@)] = s1
      BY <1>2, <1>3 DEF SessionOK
  <2> HIDE DEF r
  <2> QED BY <2>1, <2>2, <2>3, <2>4, <1>1, <1>2, <1>3, <1>4 DEF TurnOf, SessionOK, LoopOK
<1>6. Dispatch(turn, op) = Confirm(acked, op)
  <2>1. turn.sess.pending = p
      BY <1>3 DEF TurnOf
  <2> HIDE DEF turn, acked
  <2> QED BY <1>2, <1>5, <2>1 DEF Dispatch
<1>7. Confirm(acked, op) = TurnOf(t, m, <<e>>)
  <2>1. /\ acked.thrown = FALSE /\ acked.sess = s1 /\ acked.loop = m
        /\ DOMAIN acked = {"sess", "loop", "save", "thrown"}
      BY DEF TurnOf
  <2>2. s1.synced = d /\ m.text = e
      BY DEF SessionOK, LoopOK
  <2>3. Confirm(acked, op) = [acked EXCEPT !.sess.synced = Apply(op, @), !.save = <<e>>]
      BY <1>1, <2>1, <2>2, ZenonT(40) DEF Confirm
  <2>4. [s1 EXCEPT !.synced = Apply(op, @)] = t
      BY <1>1 DEF SessionOK
  <2> HIDE DEF s1, t, m
  <2> QED BY <2>1, <2>2, <2>3, <2>4 DEF TurnOf
<1>8. /\ SessionOK(t) /\ t.failed = s.failed /\ t.connected = s.connected
      /\ t.baselined = s.baselined /\ t.pending = none
      /\ t.text = s.text /\ t.synced = e /\ t.revision = r
    BY <1>2, <1>4 DEF SessionOK
<1>9. LoopOK(m) /\ m.ready = l.ready /\ m.closed = l.closed /\ m.text = e /\ m.revision = r
    BY <1>4 DEF LoopOK
<1> HIDE DEF t, m, turn
<1>10. Confirmed(s, l, pending, op, e, t, m)
    BY <1>6, <1>7, <1>8, <1>9 DEF Confirmed, turn, none
<1> QED BY <1>10

\* A session whose text is the confirmed one sends nothing when it gets its
\* baseline (session.ts, establishBaseline).
LEMMA NothingToSend ==
    ASSUME NEW s, NEW none, none = << >>, s.synced = none, s.text = none
    PROVE  FreshClient(s).sent = << >>
<1> DEFINE d == DiffText(none, none)
<1>1. Does(d, none, none)
    BY IsSeqEmpty, ValidNone, DiffTextDoes
<1>2. d = << >>
    BY <1>1, NothingDone
<1>3. IsNoop(d)
    BY <1>2 DEF IsNoop
<1> HIDE DEF d
<1> QED BY <1>3 DEF FreshClient, Quietly, d

\* A session of the private document when it is made.
LEMMA LocalSessionOK ==
    LET s == LocalSession
    IN  /\ SessionOK(s) /\ s.failed = "none" /\ s.connected /\ ~s.baselined
        /\ s.text = << >> /\ s.synced = << >> /\ s.caret = << >> /\ s.revision = 0
<1> DEFINE none == << >>
<1>1. IsSeq(none) /\ Len(none) = 0
    BY IsSeqEmpty
<1> HIDE DEF none
<1>2. NewSession = [text |-> none, synced |-> none, caret |-> none,
                    revision |-> 0, pending |-> none, selfId |-> 0,
                    connected |-> FALSE, baselined |-> FALSE, everBaselined |-> FALSE,
                    failed |-> "none"]
    BY DEF NewSession, None, none
<1>3. SessionOK(NewSession)
    BY <1>1, <1>2 DEF SessionOK
<1>4. SessionOK(LocalSession) /\ LocalSession.connected
    BY <1>3, HandleStatusOK DEF LocalSession
<1>5. /\ LocalSession.failed = "none" /\ ~LocalSession.baselined
      /\ LocalSession.text = none /\ LocalSession.synced = none
      /\ LocalSession.caret = none /\ LocalSession.revision = 0
    BY <1>2 DEF LocalSession, HandleStatus
<1> QED BY <1>4, <1>5 DEF none

\* The text that has been read becomes the session's, and the session has
\* nothing to send because of it (transport.ts, bootstrap).
LEMMA HistoryIntroduces ==
    ASSUME NEW text, IsText(text)
    PROVE  LET told == HandleHistory(HandleIdentity(LocalSession, SelfId), 0,
                                     SeedEntries(text))
           IN  /\ SessionOK(told.s) /\ told.s.failed = "none"
               /\ told.s.connected /\ told.s.baselined
               /\ told.s.pending = << >> /\ told.s.synced = text /\ told.s.text = text
               /\ told.s.revision = IF text = << >> THEN 0 ELSE 1
               /\ told.sent = << >>
<1> DEFINE s == HandleIdentity(LocalSession, SelfId)
           log == SeedEntries(text)
           told == HandleHistory(s, 0, log)
           t == told.s
           none == << >>
<1>1. log = FirstLog(SeedId, text)
    BY DEF SeedEntries, FirstLog
<1>2. /\ Written(log) /\ TextOf(log, Len(log)) = text
      /\ Len(log) = IF text = none THEN 0 ELSE 1
    BY <1>1, FirstLogWritten DEF IsText
<1>3. /\ SessionOK(s) /\ s.failed = "none" /\ s.connected /\ ~s.baselined
      /\ s.text = none /\ s.synced = none /\ s.caret = none /\ s.revision = 0
    BY LocalSessionOK DEF HandleIdentity, SessionOK, SelfId
<1>4. IsSeq(log) /\ Len(log) \in Nat /\ TextOf(log, 0) = none
    BY <1>2, TextStep, IsSeqLen DEF Written
<1>5. told = EstablishBaseline(s, 0, log)
    BY <1>3 DEF HandleHistory
<1> HIDE DEF s, log
<1>6. Mirrors(s, log)
  <2>1. IsSeq(none) /\ ValidUTF8(none) /\ CaretIn(none, none)
      BY IsSeqEmpty, ValidNone DEF CaretIn
  <2> HIDE DEF none
  <2> QED BY <1>3, <1>4, <2>1 DEF Mirrors
<1>7. Slice(log, 0, log)
  <2>1. 0 + Len(log) <= Len(log) /\ \A i \in 1..Len(log) : log[i] = log[0 + i]
      BY <1>4
  <2> QED BY <1>4, <2>1 DEF Slice
<1>8. s.revision <= Len(log)
    BY <1>3, <1>4
<1>9. Established(s, EstablishBaseline(s, 0, log), Len(log), log)
    BY <1>2, <1>3, <1>6, <1>7, <1>8, EstablishBaselineDoes
<1>10. EstablishBaseline(s, 0, log).sent = FreshClient(s).sent
    BY DEF EstablishBaseline
<1>11. told.sent = none
    BY <1>3, <1>5, <1>10, NothingToSend
<1> HIDE DEF told
<1>12. /\ Mirrors(t, log) /\ Pends(t) /\ t.connected = s.connected /\ t.baselined
       /\ t.revision = Len(log)
       /\ t.pending = none \/ \E m : told.sent = <<m>>
    BY <1>5, <1>9 DEF Established
<1>13. \A m : <<m>> # none
    BY IsSeqOne, IsSeqEmpty
<1>14. t.pending = none
    BY <1>11, <1>12, <1>13
<1>15. t.synced = text /\ t.text = t.synced
  <2>1. t.synced = text
      BY <1>2, <1>12 DEF Mirrors
  <2>2. ~(Len(none) = 1) /\ ~(Len(none) = 2)
      BY IsSeqEmpty
  <2> HIDE DEF none
  <2>3. t.text = t.synced
      BY <1>12, <1>14, <2>2 DEF Pends, Unconfirmed
  <2> QED BY <2>1, <2>3
<1>16. SessionOK(t) /\ t.failed = "none"
    BY <1>12 DEF Mirrors
<1> HIDE DEF t
<1> QED BY <1>2, <1>3, <1>11, <1>12, <1>14, <1>15, <1>16 DEF t, told, s, log, none

\* A session with another text, its caret and what it has sent.
SentEdit(s, e, c, p) == [s EXCEPT !.text = e, !.caret = c, !.pending = p]

\* It differs in nothing else.
LEMMA SetEdit ==
    ASSUME NEW s, SessionOK(s), NEW e, NEW c, NEW p, IsSeq(p), Len(p) <= 2
    PROVE  LET a == SentEdit(s, e, c, p)
           IN  /\ SessionOK(a) /\ a.failed = s.failed /\ a.connected = s.connected
               /\ a.baselined = s.baselined /\ a.text = e /\ a.pending = p
               /\ a.synced = s.synced /\ a.revision = s.revision
BY DEF SessionOK, SentEdit

\* What is left of a turn once the edit op, which made the text e, has settled.
EditSettled(s, l, pending, op, e, t, m) ==
    LET local == ApplyLocalChange(s, op)
    IN  /\ SendAll(TurnOf(local.s, l, pending), local.sent) = TurnOf(t, m, <<e>>)
        /\ SessionOK(t) /\ t.failed = "none" /\ t.text = e
        /\ LoopOK(m) /\ m.ready /\ m.closed = l.closed /\ UpToDate(t, m)

\* An edit of a session in step with its loopback is confirmed in its own turn.
LEMMA EditConfirms ==
    ASSUME NEW s, SessionOK(s), s.failed = "none",
           NEW l, LoopOK(l), l.ready, UpToDate(s, l), NEW pending,
           NEW op, NEW e, Does(op, s.text, e)
    PROVE  \E t, m : EditSettled(s, l, pending, op, e, t, m)
<1> DEFINE local == ApplyLocalChange(s, op)
           c == MoveCarets(s.caret, op)
           edited == [s EXCEPT !.text = e, !.caret = c]
           p == <<op>>
           a == SentEdit(s, e, c, p)
           messages == <<Edit(s.revision, op)>>
           none == << >>
<1>1. IsText(e) /\ Apply(op, s.text) = e
    BY DoesTarget, DoesTexts DEF IsText
<1>2. CanDispatch(s) /\ s.pending = none /\ s.synced = s.text /\ l.text = s.text
      /\ l.revision = s.revision /\ s.connected /\ s.baselined
    BY DEF UpToDate, CanDispatch
<1>3. IsSeq(p) /\ Len(p) = 1
    BY IsSeqOne
<1>4. /\ IsSeq(messages) /\ Len(messages) = 1 /\ messages[1].op = op
      /\ none \o messages = messages
  <2>1. IsSeq(messages) /\ Len(messages) = 1 /\ messages[1] = Edit(s.revision, op)
      BY IsSeqOne
  <2>2. Edit(s.revision, op).op = op
      BY DEF Edit
  <2> HIDE DEF messages
  <2> QED BY <2>1, <2>2, IsSeqUnit
<1> HIDE DEF c, p, messages, none
<1>5. local.s = a /\ local.sent = messages
  <2>1. /\ edited.pending = none /\ edited.revision = s.revision
        /\ [edited EXCEPT !.pending = p] = a
      BY <1>2 DEF SessionOK, SentEdit
  <2>2. edited = [s EXCEPT !.text = Apply(op, @), !.caret = MoveCarets(@, op)]
      BY <1>1 DEF c, SessionOK
  <2> HIDE DEF edited, a
  <2>3. ApplyClient(edited, op) = [s |-> a, sent |-> messages]
      BY <2>1 DEF ApplyClient, p, messages, none
  <2>4. local = [s |-> ApplyClient(edited, op).s, sent |-> none \o ApplyClient(edited, op).sent]
      BY <1>2, <2>2 DEF ApplyLocalChange, Quietly, none
  <2> HIDE DEF local
  <2> QED BY <1>4, <2>3, <2>4
<1>6. /\ SessionOK(a) /\ a.failed = "none" /\ a.connected /\ a.baselined
      /\ a.text = e /\ a.pending = p /\ a.synced = s.text /\ a.revision = s.revision
  <2>1. IsSeq(p) /\ Len(p) <= 2 /\ SessionOK(s)
      BY <1>3
  <2>2. /\ SessionOK(a) /\ a.failed = s.failed /\ a.connected = s.connected
        /\ a.baselined = s.baselined /\ a.text = e /\ a.pending = p
        /\ a.synced = s.synced /\ a.revision = s.revision
      BY <2>1, SetEdit
  <2> HIDE DEF a
  <2> QED BY <1>2, <2>2
<1> HIDE DEF a, local
<1>7. PICK t, m : Confirmed(a, l, pending, op, e, t, m)
  <2> DEFINE d == s.text
  <2>1. /\ Does(op, d, e) /\ a.pending = <<op>> /\ a.synced = d /\ l.text = d
        /\ l.revision = a.revision /\ SessionOK(a)
      BY <1>2, <1>6 DEF p
  <2> HIDE DEF d
  <2>2. \E t, m : Confirmed(a, l, pending, op, e, t, m)
      BY <2>1, DispatchConfirms
  <2> QED BY <2>2
<1>8. SendAll(TurnOf(a, l, pending), messages) = DispatchAll(TurnOf(a, l, pending), messages)
    BY DEF SendAll, TurnOf
<1>9. DispatchAll(TurnOf(a, l, pending), messages) = Dispatch(TurnOf(a, l, pending), op)
    BY <1>4, DispatchFew
<1>10. UpToDate(t, m)
    BY <1>1, <1>6, <1>7 DEF UpToDate, Confirmed
<1>11. EditSettled(s, l, pending, op, e, t, m)
    BY <1>5, <1>6, <1>7, <1>8, <1>9, <1>10 DEF local, Confirmed, EditSettled
<1> QED BY <1>11

\* What is typed is an operation on the text (module Private).
LEMMA TypedDo ==
    ASSUME NEW text, IsText(text), NEW s, IsText(s), NEW op \in TypedOps(text, s)
    PROVE  \E e : Does(op, text, e)
<1> DEFINE none == << >>
           all == Retain(New, Len(text))
           over == Delete(New, Len(text))
<1>1. /\ IsSeq(text) /\ ValidUTF8(text) /\ IsSeq(s) /\ ValidUTF8(s)
      /\ IsSeq(none) /\ Does(none, none, none) /\ New = none
    BY IsSeqEmpty, DoesEmpty DEF New, IsText
<1>2. op = Insert(all, s) \/ op = Insert(over, s)
    BY DEF TypedOps
<1> HIDE DEF none
<1>3. Does(all, text, text)
    BY <1>1, DoesKeep
<1>4. Does(over, text, none)
  <2>1. Does(Delete(none, Len(text)), Cat(none, text), none)
      BY <1>1, DoesDelete
  <2>2. Cat(none, text) = text
      BY <1>1, CatUnit DEF none
  <2> QED BY <1>1, <2>1, <2>2
<1> HIDE DEF all, over
<1>5. Does(Insert(all, s), text, Cat(text, s)) /\ Does(Insert(over, s), text, Cat(none, s))
    BY <1>1, <1>3, <1>4, DoesInsert
<1> QED BY <1>2, <1>5

---------------------------------------------------------------------------
(* The invariant of the private document.                                  *)

\* The session waits for the text, or has it and is in step with its loopback.
PrivateOK ==
    /\ SessionOK(sess) /\ sess.failed = "none" /\ LoopOK(loop) /\ thrown = FALSE
    /\ loop.ready => UpToDate(sess, loop)
    /\ ~loop.ready => sess = LocalSession /\ save = << >>

\* Texts are on their way to the database, or in it.
StoreOK ==
    /\ db \in BOOLEAN /\ IsText(stored)
    /\ IsSeq(writes) /\ \A i \in DOMAIN writes : IsText(writes[i])
    /\ save = << >> \/ \E text : IsText(text) /\ save = <<text>>
    /\ save # << >> => ~loop.closed

\* The text that a reader will find once everything has been written.
Latest(pending, ordered, written) ==
    IF pending # << >> THEN pending[1]
    ELSE IF ordered # << >> THEN ordered[Len(ordered)] ELSE written

\* It is the one the user counts on.
KeptOK == kept # << >> => db /\ kept = <<Latest(save, writes, stored)>>

DocumentInv == PrivateOK /\ StoreOK /\ KeptOK

\* What a turn that leaves text on the screen does, scheduled being what it
\* saves.
Settles(text, scheduled) ==
    /\ SessionOK(sess') /\ sess'.failed = "none" /\ sess'.text = text
    /\ LoopOK(loop') /\ loop'.ready /\ loop'.closed = loop.closed
    /\ UpToDate(sess', loop')
    /\ save' = scheduled /\ thrown' = FALSE
    /\ kept' = IF db THEN <<text>> ELSE << >>
    /\ UNCHANGED <<db, stored, writes>>

\* Taking a turn.
LEMMA TakesTurn ==
    ASSUME NEW s, NEW l, NEW pending, Takes(TurnOf(s, l, pending))
    PROVE  sess' = s /\ loop' = l /\ save' = pending /\ thrown' = FALSE
BY DEF Takes, TurnOf

\* bootstrap ends with what has been read on the screen, and nothing to save.
LEMMA BootstrapSettles ==
    ASSUME PrivateOK, StoreOK, Bootstrap
    PROVE  Settles(IF db THEN stored ELSE << >>, save)
<1> DEFINE text == IF db THEN stored ELSE << >>
           told == HandleHistory(HandleIdentity(LocalSession, SelfId), 0, SeedEntries(text))
           r == IF text = << >> THEN 0 ELSE 1
           none == << >>
           m == [loop EXCEPT !.text = text, !.queued = none, !.revision = r, !.ready = TRUE]
           introduced == Introduce(Turn, text)
           turn == DispatchAll([introduced EXCEPT !.loop.queued = << >>],
                               introduced.loop.queued)
<1>1. IsText(text) /\ IsSeq(none) /\ Len(none) = 0
    BY IsSeqEmpty, ValidNone DEF StoreOK, IsText
<1>2. /\ SessionOK(told.s) /\ told.s.failed = "none"
      /\ told.s.connected /\ told.s.baselined
      /\ told.s.pending = << >> /\ told.s.synced = text /\ told.s.text = text
      /\ told.s.revision = r /\ told.sent = << >>
    BY <1>1, HistoryIntroduces
<1>3. /\ Takes(turn) /\ kept' = IF db THEN <<turn.sess.text>> ELSE << >>
      /\ UNCHANGED <<db, stored, writes>> /\ ~loop.ready
    BY DEF Bootstrap
<1>4. sess = LocalSession /\ LoopOK(loop) /\ loop.queued = none
    BY <1>3 DEF PrivateOK, LoopOK
<1>5. Turn = TurnOf(LocalSession, loop, save)
    BY <1>4 DEF Turn, TurnOf
<1>6. r \in Nat
    OBVIOUS
<1> HIDE DEF text, r, none, told
<1>7. introduced = TurnOf(told.s, m, save)
  <2>1. none \o none = none
      BY <1>1, IsSeqUnit DEF none
  <2>2. /\ Turn.sess = LocalSession /\ Turn.loop = loop
        /\ DOMAIN Turn = {"sess", "loop", "save", "thrown"}
        /\ Turn.save = save /\ Turn.thrown = FALSE
      BY <1>5 DEF TurnOf
  <2>3. introduced = [Turn EXCEPT !.loop.text     = text,
                                  !.sess          = told.s,
                                  !.loop.queued   = @ \o told.sent,
                                  !.loop.revision = r,
                                  !.loop.ready    = TRUE]
      BY <2>2 DEF Introduce, told, r, text
  <2>4. told.sent = none
      BY <1>2 DEF none
  <2> HIDE DEF introduced
  <2>5. [loop EXCEPT !.text = text, !.queued = @ \o told.sent, !.revision = r,
                     !.ready = TRUE] = m
      BY <1>4, <2>1, <2>4 DEF LoopOK
  <2> QED BY <1>5, <2>2, <2>3, <2>5 DEF TurnOf
<1>8. /\ LoopOK(m) /\ m.ready /\ m.closed = loop.closed /\ m.text = text
      /\ m.revision = r /\ m.queued = none
    BY <1>4, <1>6 DEF LoopOK, none
<1>9. [m EXCEPT !.queued = none] = m
    BY <1>8 DEF LoopOK
<1> HIDE DEF m, introduced
<1>10. introduced.loop.queued = none /\ [introduced EXCEPT !.loop.queued = none] = introduced
  <2>1. introduced.loop = m /\ [introduced EXCEPT !.loop = m] = introduced
      BY <1>7, TurnParts
  <2>2. [introduced EXCEPT !.loop.queued = none]
           = [introduced EXCEPT !.loop = [m EXCEPT !.queued = none]]
      BY <2>1
  <2> QED BY <1>8, <1>9, <2>1, <2>2
<1>11. turn = introduced
    BY <1>1, <1>10, DispatchFew DEF none
<1>12. Takes(TurnOf(told.s, m, save)) /\ turn.sess = told.s
    BY <1>3, <1>7, <1>11 DEF TurnOf
<1>13. sess' = told.s /\ loop' = m /\ save' = save /\ thrown' = FALSE
    BY <1>12, TakesTurn
<1>14. UpToDate(told.s, m)
    BY <1>1, <1>2, <1>8 DEF UpToDate
<1>15. kept' = IF db THEN <<text>> ELSE << >>
    BY <1>2, <1>3, <1>12
<1>16. Settles(text, save)
    BY <1>2, <1>3, <1>8, <1>13, <1>14, <1>15 DEF Settles
<1> QED BY <1>16 DEF text

\* Typing ends with the edit on the screen, confirmed and going to be saved.
LEMMA TypeSettles ==
    ASSUME ~TypesEarly, edits \in Nat, PrivateOK, StoreOK, Type
    PROVE  \E e : IsText(e) /\ Settles(e, <<e>>)
<1>1. PICK op \in TypedOps(sess.text, Typed[edits + 1]) :
         LET local == ApplyLocalChange(sess, op)
             turn  == SendAll([Turn EXCEPT !.sess = local.s], local.sent)
         IN  Takes(turn) /\ kept' = IF db THEN <<turn.sess.text>> ELSE << >>
    BY DEF Type
<1>2. loop.ready /\ UNCHANGED <<db, stored, writes>>
    BY DEF Type
<1> DEFINE local == ApplyLocalChange(sess, op)
           turn == SendAll([Turn EXCEPT !.sess = local.s], local.sent)
<1>3. Takes(turn) /\ kept' = IF db THEN <<turn.sess.text>> ELSE << >>
    BY <1>1
<1>4. UpToDate(sess, loop) /\ SessionOK(sess) /\ sess.failed = "none" /\ LoopOK(loop)
    BY <1>2 DEF PrivateOK
<1>5. PICK e : Does(op, sess.text, e)
  <2>1. IsText(Typed[edits + 1])
    <3>1. edits + 1 \in 1..MaxEdits
        BY PrivateAssumption DEF Type
    <3> QED BY <3>1, PrivateAssumption
  <2> QED BY <1>1, <1>4, <2>1, TypedDo DEF UpToDate
<1>6. IsText(e)
    BY <1>5, DoesTarget, DoesTexts DEF IsText
<1> HIDE DEF local
<1>7. [Turn EXCEPT !.sess = local.s] = TurnOf(local.s, loop, save)
  <2>1. Turn = TurnOf(sess, loop, save)
      BY DEF Turn, TurnOf
  <2> QED BY <2>1, TurnParts
<1>8. PICK t, m : EditSettled(sess, loop, save, op, e, t, m)
  <2>1. \E t, m : EditSettled(sess, loop, save, op, e, t, m)
      BY <1>2, <1>4, <1>5, EditConfirms
  <2> QED BY <2>1
<1>9. /\ turn = TurnOf(t, m, <<e>>)
      /\ SessionOK(t) /\ t.failed = "none" /\ t.text = e
      /\ LoopOK(m) /\ m.ready /\ m.closed = loop.closed /\ UpToDate(t, m)
    BY <1>7, <1>8 DEF EditSettled, local
<1> HIDE DEF turn
<1>10. Takes(TurnOf(t, m, <<e>>)) /\ turn.sess = t
    BY <1>3, <1>9 DEF TurnOf
<1>11. sess' = t /\ loop' = m /\ save' = <<e>> /\ thrown' = FALSE
    BY <1>10, TakesTurn
<1>12. Settles(e, <<e>>)
    BY <1>2, <1>3, <1>9, <1>10, <1>11 DEF Settles
<1> QED BY <1>6, <1>12

\* A settled turn leaves the document in order.
LEMMA SettledInOrder ==
    ASSUME DocumentInv, NEW text, IsText(text), NEW scheduled, Settles(text, scheduled),
           \/ scheduled = <<text>> /\ ~loop.closed
           \/ scheduled = << >> /\ writes = << >> /\ (db => text = stored)
    PROVE  DocumentInv'
<1> DEFINE one == <<text>>
           none == << >>
<1>1. one # none /\ one[1] = text
  <2>1. IsSeq(one) /\ Len(one) = 1 /\ one[1] = text /\ Len(none) = 0
      BY IsSeqOne, IsSeqEmpty
  <2> HIDE DEF one, none
  <2> QED BY <2>1
<1>2. /\ SessionOK(sess') /\ sess'.failed = "none"
      /\ LoopOK(loop') /\ loop'.ready /\ loop'.closed = loop.closed
      /\ UpToDate(sess', loop')
      /\ save' = scheduled /\ thrown' = FALSE
      /\ kept' = IF db THEN one ELSE none
      /\ db' = db /\ stored' = stored /\ writes' = writes
    BY DEF Settles
<1>3. \/ scheduled = one /\ ~loop.closed
      \/ scheduled = none /\ writes = none /\ (db => text = stored)
    OBVIOUS
<1>4. PrivateOK'
    BY <1>2 DEF PrivateOK
<1>5. StoreOK'
  <2>1. /\ db \in BOOLEAN /\ IsText(stored) /\ IsSeq(writes)
        /\ \A i \in DOMAIN writes : IsText(writes[i])
      BY DEF DocumentInv, StoreOK
  <2>2. save' = none \/ \E t : IsText(t) /\ save' = <<t>>
      BY <1>2, <1>3
  <2>3. save' # none => ~loop'.closed
      BY <1>2, <1>3
  <2> QED BY <1>2, <2>1, <2>2, <2>3 DEF StoreOK
<1>6. KeptOK'
  <2>1. db \in BOOLEAN
      BY DEF DocumentInv, StoreOK
  <2>2. db => Latest(save', writes', stored') = text
      BY <1>1, <1>2, <1>3 DEF Latest
  <2>3. kept' # none => db' /\ kept' = <<Latest(save', writes', stored')>>
      BY <1>2, <2>1, <2>2
  <2> QED BY <2>3 DEF KeptOK
<1> QED BY <1>4, <1>5, <1>6 DEF DocumentInv

\* Handing what is scheduled to the database loses nothing of it (storage.ts,
\* commit).
LEMMA CommitInOrder ==
    ASSUME StoreOK, KeptOK, Commit(save), UNCHANGED <<db, stored, kept>>
    PROVE  /\ save' = << >> /\ IsSeq(writes')
           /\ \A i \in DOMAIN writes' : IsText(writes'[i])
           /\ KeptOK'
<1> DEFINE none == << >>
<1>1. /\ save' = none /\ writes' = (IF db THEN writes \o save ELSE writes)
      /\ db' = db /\ stored' = stored /\ kept' = kept
    BY DEF Commit
<1>2. /\ db \in BOOLEAN /\ IsSeq(writes) /\ \A i \in DOMAIN writes : IsText(writes[i])
      /\ save = none \/ \E text : IsText(text) /\ save = <<text>>
      /\ kept # none => db /\ kept = <<Latest(save, writes, stored)>>
    BY DEF StoreOK, KeptOK
<1> SUFFICES /\ IsSeq(writes') /\ \A i \in DOMAIN writes' : IsText(writes'[i])
             /\ kept # none => Latest(save, writes, stored) = Latest(none, writes', stored)
  <2>1. ASSUME kept # none => Latest(save, writes, stored) = Latest(none, writes', stored)
        PROVE  KeptOK'
      BY <1>1, <1>2, <2>1 DEF KeptOK
  <2> QED BY <1>1, <2>1
<1>3. CASE ~db
    BY <1>1, <1>2, <1>3
<1>4. CASE db /\ save = none
  <2>1. writes' = writes
      BY <1>1, <1>2, <1>4, IsSeqUnit
  <2> QED BY <1>2, <1>4, <2>1
<1>5. CASE db /\ save # none
  <2>1. PICK text : IsText(text) /\ save = <<text>>
      BY <1>2, <1>5
  <2> DEFINE one == <<text>>
             all == writes \o one
  <2>2. IsSeq(one) /\ Len(one) = 1 /\ one[1] = text /\ DOMAIN one = {1}
      BY IsSeqOne
  <2>3. writes' = all
      BY <1>1, <1>5, <2>1
  <2> HIDE DEF one
  <2>4. /\ IsSeq(all) /\ Len(all) = Len(writes) + 1
        /\ \A i \in 1..Len(writes) : all[i] = writes[i]
        /\ all[Len(writes) + 1] = text
        /\ Len(writes) \in Nat /\ DOMAIN writes = 1..Len(writes)
        /\ DOMAIN all = 1..Len(all)
    <3>1. /\ Len(writes) \in Nat /\ DOMAIN writes = 1..Len(writes)
        BY <1>2, IsSeqLen
    <3>2. /\ IsSeq(all) /\ Len(all) = Len(writes) + Len(one)
          /\ \A i \in 1..Len(all) :
                all[i] = IF i <= Len(writes) THEN writes[i] ELSE one[i - Len(writes)]
        BY <1>2, <2>2, IsSeqConcat
    <3>3. DOMAIN all = 1..Len(all)
        BY <3>2, IsSeqLen
    <3> HIDE DEF all
    <3> QED BY <2>2, <3>1, <3>2, <3>3
  <2> HIDE DEF all
  <2>5. \A i \in DOMAIN all : IsText(all[i])
    <3>1. ASSUME NEW i \in DOMAIN all PROVE IsText(all[i])
        BY <1>2, <2>1, <2>4, <3>1
    <3> QED BY <3>1
  <2>6. all # none
      BY <2>4, IsSeqEmpty
  <2>7. all[Len(all)] = save[1]
      BY <2>1, <2>2, <2>4 DEF one
  <2>8. Latest(save, writes, stored) = Latest(none, all, stored)
      BY <1>5, <2>6, <2>7 DEF Latest
  <2> QED BY <2>3, <2>4, <2>5, <2>8
<1> QED BY <1>2, <1>3, <1>4, <1>5

\* A text that has been written is the first of those on their way, and the
\* last of them is still the latest (storage.ts, write).
LEMMA WrittenInOrder ==
    ASSUME IsSeq(writes), \A i \in DOMAIN writes : IsText(writes[i]), writes # << >>
    PROVE  /\ IsText(Head(writes)) /\ IsSeq(Tail(writes))
           /\ \A i \in DOMAIN Tail(writes) : IsText(Tail(writes)[i])
           /\ \A pending : Latest(pending, writes, stored)
                              = Latest(pending, Tail(writes), Head(writes))
<1> DEFINE none == << >>
           rest == Tail(writes)
<1>1. Len(writes) \in Nat /\ DOMAIN writes = 1..Len(writes) /\ Len(writes) # 0
    BY IsSeqLen, IsSeqNone
<1>2. /\ IsSeq(rest) /\ Len(rest) = Len(writes) - 1
      /\ \A i \in 1..Len(rest) : rest[i] = writes[i + 1]
    BY <1>1, IsSeqTail
<1>3. Head(writes) = writes[1] /\ 1 \in DOMAIN writes
    BY <1>1
<1>4. DOMAIN rest = 1..Len(rest)
    BY <1>2, IsSeqLen
<1>5. rest = none <=> Len(rest) = 0
    BY <1>2, IsSeqNone, IsSeqEmpty
<1> HIDE DEF rest, none
<1>6. \A i \in DOMAIN rest : IsText(rest[i])
  <2>1. \A i \in DOMAIN rest : i + 1 \in DOMAIN writes
      BY <1>1, <1>2, <1>4
  <2> QED BY <1>2, <1>4, <2>1
<1>7. writes[Len(writes)] = IF rest # none THEN rest[Len(rest)] ELSE Head(writes)
  <2>1. CASE Len(rest) = 0
      BY <1>1, <1>2, <1>3, <1>5, <2>1
  <2>2. CASE Len(rest) # 0
    <3>1. Len(rest) \in 1..Len(rest) /\ Len(rest) + 1 = Len(writes)
        BY <1>1, <1>2, <2>2
    <3> QED BY <1>2, <1>5, <2>2, <3>1
  <2> QED BY <2>1, <2>2
<1>8. ASSUME NEW pending
      PROVE  Latest(pending, writes, stored) = Latest(pending, rest, Head(writes))
    BY <1>7 DEF Latest, none
<1> QED BY <1>2, <1>3, <1>6, <1>8 DEF rest

\* A step that leaves all of the private document alone.
LEMMA DocumentAlone == DocumentInv /\ UNCHANGED privateVars => DocumentInv'
BY DEF DocumentInv, PrivateOK, StoreOK, KeptOK, privateVars, storeVars

\* At first the text has not been read, and nothing has been seen.
LEMMA InitDocument == Init => DocumentInv
<1> SUFFICES ASSUME Init PROVE DocumentInv
    OBVIOUS
<1>1. PrivateInit
    BY DEF Init
<1> DEFINE none == << >>
<1>2. LoopOK(NewLoop) /\ ~NewLoop.ready
    BY DEF LoopOK, NewLoop
<1>3. PrivateOK
    BY <1>1, <1>2, LocalSessionOK DEF PrivateInit, PrivateOK
<1>4. IsText(stored)
    BY <1>1, PrivateAssumption DEF PrivateInit
<1>5. IsSeq(none) /\ DOMAIN none = {}
    BY IsSeqEmpty
<1>6. writes = none /\ save = none /\ kept = none /\ db \in BOOLEAN
    BY <1>1 DEF PrivateInit
<1>7. StoreOK
    BY <1>4, <1>5, <1>6 DEF StoreOK
<1> QED BY <1>3, <1>6, <1>7 DEF DocumentInv, KeptOK

\* A loopback that has just been made.
LEMMA NewLoopOK ==
    ASSUME NEW b \in BOOLEAN
    PROVE  LET l == [NewLoop EXCEPT !.closed = b]
           IN  LoopOK(l) /\ l.ready = FALSE /\ l.closed = b
BY DEF LoopOK, NewLoop

\* A document that is made again, while nothing is scheduled, waits for its text.
LEMMA StartsAgain ==
    ASSUME StoreOK, sess' = LocalSession, LoopOK(loop'), loop'.ready = FALSE,
           thrown' = FALSE, save' = << >>, db' \in BOOLEAN,
           stored' = stored, writes' = writes,
           kept' # << >> => db' /\ kept' = <<Latest(<< >>, writes, stored)>>
    PROVE  DocumentInv'
<1> DEFINE none == << >>
<1>1. PrivateOK'
    BY LocalSessionOK DEF PrivateOK
<1>2. StoreOK'
    BY DEF StoreOK
<1>3. kept' # none => db' /\ kept' = <<Latest(save', writes', stored')>>
    OBVIOUS
<1> QED BY <1>1, <1>2, <1>3 DEF DocumentInv, KeptOK

\* Every step of the document and of its store keeps it in order.
LEMMA OwnStep ==
    ASSUME ~TypesEarly, edits \in Nat, DocumentInv,
           Bootstrap \/ Type \/ SaveTimer \/ WriteDone \/ WriteFails
    PROVE  DocumentInv'
<1> DEFINE none == << >>
<1>1. CASE Bootstrap
  <2> DEFINE text == IF db THEN stored ELSE none
  <2>1. Settles(text, save)
      BY <1>1, BootstrapSettles DEF DocumentInv
  <2>2. IsText(text) /\ (db => text = stored)
      BY IsSeqEmpty, ValidNone DEF DocumentInv, StoreOK, IsText
  <2>3. save = none /\ writes = none
      BY <1>1 DEF Bootstrap, DocumentInv, PrivateOK
  <2> HIDE DEF text
  <2> QED BY <2>1, <2>2, <2>3, SettledInOrder
<1>2. CASE Type
  <2>1. PICK e : IsText(e) /\ Settles(e, <<e>>)
      BY <1>2, TypeSettles DEF DocumentInv
  <2>2. ~loop.closed
      BY <1>2 DEF Type
  <2> QED BY <2>1, <2>2, SettledInOrder
<1>3. CASE SaveTimer
  <2>1. /\ Commit(save) /\ save # none
        /\ UNCHANGED <<sess, loop, thrown, db, stored, kept>>
      BY <1>3 DEF SaveTimer
  <2>2. /\ save' = none /\ IsSeq(writes') /\ \A i \in DOMAIN writes' : IsText(writes'[i])
        /\ KeptOK'
      BY <2>1, CommitInOrder DEF DocumentInv
  <2>3. PrivateOK' /\ StoreOK'
      BY <2>1, <2>2 DEF DocumentInv, PrivateOK, StoreOK
  <2> QED BY <2>2, <2>3 DEF DocumentInv
<1>4. CASE WriteDone
  <2>1. /\ writes # none /\ stored' = Head(writes) /\ writes' = Tail(writes)
        /\ UNCHANGED <<sess, loop, thrown, db, save, kept>>
      BY <1>4 DEF WriteDone
  <2>2. /\ IsText(Head(writes)) /\ IsSeq(Tail(writes))
        /\ \A i \in DOMAIN Tail(writes) : IsText(Tail(writes)[i])
        /\ Latest(save, writes, stored) = Latest(save, Tail(writes), Head(writes))
      BY <2>1, WrittenInOrder DEF DocumentInv, StoreOK
  <2>3. PrivateOK' /\ StoreOK'
      BY <2>1, <2>2 DEF DocumentInv, PrivateOK, StoreOK
  <2>4. KeptOK'
      BY <2>1, <2>2 DEF DocumentInv, KeptOK
  <2> QED BY <2>3, <2>4 DEF DocumentInv
<1>5. CASE WriteFails
  <2>1. /\ writes # none /\ writes' = Tail(writes) /\ kept' = none
        /\ UNCHANGED <<sess, loop, thrown, db, stored, save>>
      BY <1>5 DEF WriteFails
  <2>2. /\ IsSeq(Tail(writes)) /\ \A i \in DOMAIN Tail(writes) : IsText(Tail(writes)[i])
      BY <2>1, WrittenInOrder DEF DocumentInv, StoreOK
  <2>3. PrivateOK' /\ StoreOK' /\ KeptOK'
      BY <2>1, <2>2 DEF DocumentInv, PrivateOK, StoreOK, KeptOK
  <2> QED BY <2>3 DEF DocumentInv
<1> QED BY <1>1, <1>2, <1>3, <1>4, <1>5

---------------------------------------------------------------------------
(* The invariant of the whole tab.                                         *)

\* What the tab shows, and what it has put aside for its rooms.
TabShape ==
    /\ location \in Rooms \cup {"private"}
    /\ InRoom <=> loop.closed
    /\ \A r \in Rooms : Len(seeds[r]) <= 1 /\ (r \notin made => seeds[r] = << >>)
    /\ sock.status \in {"connecting", "reconnecting", "connected", "offline"}

\* Leaving for a room, or coming back from one.
LEMMA LocationChangeInOrder ==
    ASSUME DocumentInv, TabShape, LocationChange
    PROVE  DocumentInv'
<1> DEFINE none == << >>
           next == ReadLocation(hash)
<1>1. next \in Rooms \cup {"private"} /\ next # location /\ stored' = stored
    BY DEF LocationChange, ReadLocation
<1>2. CASE location = "private" /\ next # "private"
  <2>1. /\ loop' = [loop EXCEPT !.closed = TRUE] /\ Commit(save)
        /\ UNCHANGED <<sess, thrown, db, stored, kept>>
      BY <1>2 DEF LocationChange, Leave, ClosePrivate, Flush
  <2>2. /\ save' = none /\ IsSeq(writes') /\ \A i \in DOMAIN writes' : IsText(writes'[i])
        /\ KeptOK'
      BY <2>1, CommitInOrder DEF DocumentInv
  <2>3. LoopOK(loop') /\ loop'.ready = loop.ready
        /\ loop'.text = loop.text /\ loop'.revision = loop.revision
      BY <2>1 DEF DocumentInv, PrivateOK, LoopOK
  <2>4. PrivateOK'
      BY <2>1, <2>2, <2>3 DEF DocumentInv, PrivateOK, UpToDate
  <2>5. StoreOK'
      BY <2>1, <2>2 DEF DocumentInv, StoreOK
  <2> QED BY <2>2, <2>4, <2>5 DEF DocumentInv
<1>3. CASE location # "private" /\ next = "private"
  <2>1. OpenPrivate /\ UNCHANGED <<thrown, save, writes>>
      BY <1>3 DEF LocationChange
  <2>2. /\ sess' = LocalSession /\ loop' = NewLoop /\ db' \in BOOLEAN
        /\ kept' = IF db' THEN kept ELSE none
      BY <2>1 DEF OpenPrivate
  <2>3. loop.closed /\ save = none
      BY <1>3 DEF TabShape, InRoom, DocumentInv, StoreOK
  <2>4. LoopOK(loop') /\ loop'.ready = FALSE
      BY <2>2 DEF LoopOK, NewLoop
  <2>5. kept' # none => db' /\ kept' = <<Latest(none, writes, stored)>>
      BY <2>2, <2>3 DEF DocumentInv, KeptOK
  <2>6. thrown' = FALSE
      BY <2>1 DEF DocumentInv, PrivateOK
  <2> QED BY <1>1, <2>1, <2>2, <2>3, <2>4, <2>5, <2>6, StartsAgain DEF DocumentInv
<1>4. CASE location # "private" /\ next # "private"
  <2>1. UNCHANGED <<sess, loop, thrown, db, stored, save, writes, kept>>
      BY <1>4 DEF LocationChange
  <2> QED BY <2>1 DEF DocumentInv, PrivateOK, StoreOK, KeptOK
<1> QED BY <1>1, <1>2, <1>3, <1>4

\* A reload finds the text that had been written.
LEMMA ReloadInOrder ==
    ASSUME DocumentInv, Reload
    PROVE  DocumentInv'
<1> DEFINE none == << >>
           b == ReadLocation(hash) # "private"
<1>1. /\ loop' = [NewLoop EXCEPT !.closed = b] /\ LosePage
      /\ UNCHANGED <<stored, writes>>
    BY DEF Reload
<1>2. /\ sess' = LocalSession /\ thrown' = FALSE /\ db' \in BOOLEAN /\ save' = none
      /\ kept' = IF db' /\ save = none /\ writes = none THEN kept ELSE none
    BY <1>1 DEF LosePage
<1>3. b \in BOOLEAN
    OBVIOUS
<1> HIDE DEF b
<1>4. LoopOK(loop') /\ loop'.ready = FALSE
    BY <1>1, <1>3, NewLoopOK
<1>5. kept' # none => db' /\ kept' = <<Latest(none, writes, stored)>>
    BY <1>2 DEF DocumentInv, KeptOK
<1> QED BY <1>1, <1>2, <1>4, <1>5, StartsAgain DEF DocumentInv

\* Every step of the tab keeps the private document in order.
LEMMA NextDocument ==
    ASSUME ~TypesEarly, edits \in Nat, DocumentInv, TabShape, [Next]_vars
    PROVE  DocumentInv'
<1>1. CASE (Bootstrap \/ Type \/ SaveTimer \/ WriteDone \/ WriteFails) /\ ElsewhereUnchanged
    BY <1>1, OwnStep
<1>2. CASE LocationChange
    BY <1>2, LocationChangeInOrder
<1>3. CASE Reload
    BY <1>3, ReloadInOrder
<1>4. CASE \/ \E r \in Rooms : CreateRoom(r) \/ OthersWrite(r)
           \/ \E fragment \in made \cup {"", Malformed} : Navigate(fragment)
           \/ Connect \/ Opened \/ Dropped \/ Rejected
           \/ Accept \/ Learn \/ TypeInRoom \/ UNCHANGED vars
  <2>1. UNCHANGED privateVars
      BY <1>4 DEF CreateRoom, OthersWrite, Navigate, Connect, Opened, Dropped, Rejected,
                  Accept, Learn, TypeInRoom, vars
  <2> QED BY <2>1, DocumentAlone
<1> QED BY <1>1, <1>2, <1>3, <1>4 DEF Next

\* A decision about a seed leaves it alone or takes it away.
LEMMA SeedLeft ==
    ASSUME NEW s, NEW seed
    PROVE  Considered(s, seed).seed \in {seed, << >>}
<1> DEFINE decision == DecideSeed(seed, s.baselined, Document(s) = {})
<1>1. CASE s.settled \/ decision = "wait"
    BY <1>1 DEF Considered
<1>2. CASE ~(s.settled \/ decision = "wait")
    BY <1>2 DEF Considered
<1> QED BY <1>1, <1>2

\* At most one seed for a room, and none for a room that was not made.
SeedsOf(stash, rooms) ==
    \A r \in Rooms : Len(stash[r]) <= 1 /\ (r \notin rooms => stash[r] = << >>)

\* The listener keeps that so.
LEMMA NotifiedSeeds ==
    ASSUME SeedShape, SeedsOf(seeds, made), NEW s, NEW q, Notified(s, q)
    PROVE  SeedsOf(seeds', made)
<1> DEFINE left == Considered(s, seeds[q]).seed
           none == << >>
<1>1. seeds' = [seeds EXCEPT ![q] = left]
    BY DEF Notified
<1>2. left \in {seeds[q], none} /\ Len(none) <= 1
    BY SeedLeft, IsSeqEmpty
<1> HIDE DEF left, none
<1>3. ASSUME NEW r \in Rooms
      PROVE  seeds'[r] = seeds[r] \/ seeds'[r] = none
    BY <1>1, <1>2 DEF SeedShape
<1> QED BY <1>2, <1>3 DEF SeedsOf, none

\* The shape holds at first.
LEMMA InitShape == Init => TabShape
<1> SUFFICES ASSUME Init PROVE TabShape
    OBVIOUS
<1>1. ~InRoom /\ ~loop.closed /\ location = "private"
    BY TabAssumption DEF Init, PrivateInit, NewLoop, InRoom
<1>2. NoSock.status = "connecting"
    BY DEF NoSock, NewSock
<1> DEFINE none == << >>
<1>3. (\A r \in Rooms : seeds[r] = none) /\ Len(none) = 0
    BY IsSeqEmpty DEF Init
<1> HIDE DEF none
<1>4. \A r \in Rooms : Len(seeds[r]) <= 1 /\ (r \notin made => seeds[r] = << >>)
    BY <1>3 DEF none
<1>5. sock.status = "connecting"
    BY <1>2 DEF Init
<1> QED BY <1>1, <1>4, <1>5 DEF TabShape

\* Where the tab goes, and what it finds there.
LEMMA GoesTo ==
    ASSUME SeedShape, SeedsOf(seeds, made), made' = made,
           NEW next \in Rooms \cup {"private"}, location' = next,
           loop'.closed = (next # "private"),
           \/ Enter(next)
           \/ sock' = NoSock /\ seeds' = seeds
    PROVE  TabShape'
<1>1. InRoom' <=> loop'.closed
    BY TabAssumption DEF InRoom
<1>2. NewSock.status = "connecting" /\ NoSock.status = "connecting"
    BY DEF NewSock, NoSock
<1>3. sock'.status = "connecting"
    BY <1>2 DEF Enter
<1>4. SeedsOf(seeds', made)
    BY NotifiedSeeds DEF Enter
<1> QED BY <1>1, <1>3, <1>4 DEF TabShape, SeedsOf

\* A step in a room: only the transport and the seeds may be others.
LEMMA StaysInShape ==
    ASSUME TabShape, location' = location, loop'.closed = loop.closed, made' = made,
           SeedsOf(seeds', made),
           sock'.status \in {"connecting", "reconnecting", "connected", "offline"}
    PROVE  TabShape'
BY DEF TabShape, InRoom, SeedsOf

\* Every step leaves the tab in shape.
LEMMA NextShape ==
    ASSUME ~TypesEarly, edits \in Nat, DocumentInv, SeedShape, TransportInv, TabShape,
           [Next]_vars
    PROVE  TabShape'
<1>1. SeedsOf(seeds, made)
    BY DEF TabShape, SeedsOf
<1> DEFINE states == {"connecting", "reconnecting", "connected", "offline"}
<1>2. sock.status \in states
    BY DEF TabShape
<1> HIDE DEF states
<1>3. ASSUME UNCHANGED <<location, seeds, made, sock>>, loop'.closed = loop.closed
      PROVE  TabShape'
    BY <1>1, <1>2, <1>3, StaysInShape DEF states
<1>4. CASE (Bootstrap \/ Type \/ SaveTimer \/ WriteDone \/ WriteFails) /\ ElsewhereUnchanged
  <2> DEFINE Same == loop'.closed = loop.closed
  <2>1. ASSUME Bootstrap PROVE Same
    <3>1. Settles(IF db THEN stored ELSE << >>, save)
        BY <2>1, BootstrapSettles DEF DocumentInv
    <3> QED BY <3>1 DEF Settles
  <2>2. ASSUME Type PROVE Same
    <3>1. PICK e : IsText(e) /\ Settles(e, <<e>>)
        BY <2>2, TypeSettles DEF DocumentInv
    <3> QED BY <3>1 DEF Settles
  <2>3. ASSUME SaveTimer \/ WriteDone \/ WriteFails PROVE Same
      BY <2>3 DEF SaveTimer, WriteDone, WriteFails
  <2>4. Same
      BY <1>4, <2>1, <2>2, <2>3
  <2> QED BY <1>3, <1>4, <2>4 DEF ElsewhereUnchanged, sharedVars
<1>5. ASSUME NEW r \in Rooms, CreateRoom(r) PROVE TabShape'
  <2> DEFINE one == <<sess.text>>
  <2>1. /\ made' = made \cup {r} /\ seeds' = [seeds EXCEPT ![r] = one]
        /\ UNCHANGED <<location, sock, loop>>
      BY <1>5 DEF CreateRoom, privateVars
  <2>2. Len(one) = 1
      BY IsSeqOne
  <2> HIDE DEF one
  <2>3. ASSUME NEW q \in Rooms
        PROVE  Len(seeds'[q]) <= 1 /\ (q \notin made' => seeds'[q] = << >>)
    <3>1. CASE q = r
      <4>1. seeds'[q] = one /\ q \in made'
          BY <2>1, <3>1 DEF SeedShape
      <4>2. Len(one) <= 1
          BY <2>2
      <4> QED BY <4>1, <4>2
    <3>2. CASE q # r
      <4>1. seeds'[q] = seeds[q] /\ (q \in made' <=> q \in made)
          BY <2>1, <3>2 DEF SeedShape
      <4> QED BY <1>1, <4>1 DEF SeedsOf
    <3> QED BY <3>1, <3>2
  <2> QED BY <2>1, <2>3 DEF TabShape, InRoom
<1>6. CASE \/ \E r \in Rooms : OthersWrite(r)
           \/ \E fragment \in made \cup {"", Malformed} : Navigate(fragment)
           \/ Accept \/ UNCHANGED vars
  <2>1. UNCHANGED <<location, seeds, made, sock, loop>>
      BY <1>6 DEF OthersWrite, Navigate, Accept, vars, privateVars, sharedVars
  <2> QED BY <1>3, <2>1
<1>7. CASE LocationChange
  <2> DEFINE next == ReadLocation(hash)
  <2>1. next \in Rooms \cup {"private"} /\ location' = next /\ made' = made
      BY <1>7 DEF LocationChange, ReadLocation
  <2>2. LoopOK(loop) /\ (InRoom <=> loop.closed)
      BY DEF DocumentInv, PrivateOK, TabShape
  <2>3. CASE location = "private" /\ next # "private"
    <3>1. loop' = [loop EXCEPT !.closed = TRUE] /\ Enter(next)
        BY <1>7, <2>3 DEF LocationChange, Leave, ClosePrivate
    <3>2. loop'.closed = TRUE
        BY <2>2, <3>1 DEF LoopOK
    <3> QED BY <1>1, <2>1, <2>3, <3>1, <3>2, GoesTo
  <2>4. CASE location # "private" /\ next = "private"
    <3>1. loop' = NewLoop /\ sock' = NoSock /\ seeds' = seeds
        BY <1>7, <2>4 DEF LocationChange, OpenPrivate
    <3>2. loop'.closed = FALSE
        BY <3>1 DEF NewLoop
    <3> QED BY <1>1, <2>1, <2>4, <3>1, <3>2, GoesTo
  <2>5. CASE location # "private" /\ next # "private"
    <3>1. loop' = loop /\ Enter(next)
        BY <1>7, <2>5 DEF LocationChange
    <3>2. loop'.closed = TRUE
        BY <2>2, <2>5, <3>1 DEF LoopOK, TabShape, InRoom
    <3> QED BY <1>1, <2>1, <2>5, <3>1, <3>2, GoesTo
  <2> QED BY <1>7, <2>3, <2>4, <2>5 DEF LocationChange
<1>8. CASE Reload
  <2> DEFINE next == ReadLocation(hash)
             b == next # "private"
  <2>1. next \in Rooms \cup {"private"} /\ location' = next /\ made' = made
      BY <1>8 DEF Reload, ReadLocation
  <2>2. loop' = [NewLoop EXCEPT !.closed = b] /\ b \in BOOLEAN
      BY <1>8 DEF Reload
  <2>3. IF next = "private" THEN sock' = NoSock /\ seeds' = seeds ELSE Enter(next)
      BY <1>8 DEF Reload
  <2> HIDE DEF next
  <2>4. loop'.closed = (next # "private")
      BY <2>2, NewLoopOK
  <2> QED BY <1>1, <2>1, <2>3, <2>4, GoesTo
<1>9. CASE Connect
  <2>1. /\ UNCHANGED <<location, seeds, made, loop>>
        /\ \/ sock' = [sock EXCEPT !.timer = FALSE, !.ws = "connecting",
                                   !.status = "reconnecting"]
           \/ sock' = [sock EXCEPT !.attempt = @ + 1, !.status = "reconnecting"]
      BY <1>9 DEF Connect, privateVars
  <2>2. sock'.status \in states
      BY <2>1 DEF TransportInv, SockOK, states
  <2> QED BY <1>1, <2>1, <2>2, StaysInShape DEF states
<1>10. CASE Opened \/ Dropped \/ Rejected \/ Learn \/ TypeInRoom
  <2>1. UNCHANGED <<location, made, loop>>
      BY <1>10 DEF Opened, Dropped, Rejected, Learn, TypeInRoom, privateVars
  <2>2. \E s : Notified(s, location)
      BY <1>10 DEF Opened, Dropped, Rejected, Learn, TypeInRoom
  <2>3. SeedsOf(seeds', made)
      BY <1>1, <2>2, NotifiedSeeds
  <2>4. \/ sock' = [sock EXCEPT !.ws = "open", !.attempt = 0, !.status = "connected"]
        \/ sock' = ScheduleReconnect([sock EXCEPT !.ws = "none"])
        \/ sock' = [sock EXCEPT !.ws = "none", !.terminal = TRUE, !.status = "offline"]
        \/ sock' = sock
      BY <1>10 DEF Opened, Dropped, Rejected, Learn, TypeInRoom
  <2>5. sock'.status \in states
      BY <1>2, <2>4 DEF TransportInv, SockOK, ScheduleReconnect, states
  <2> QED BY <2>1, <2>3, <2>5, StaysInShape DEF states
<1> QED BY <1>4, <1>5, <1>6, <1>7, <1>8, <1>9, <1>10 DEF Next

\* The edits are counted.
LEMMA NextCounts ==
    ASSUME edits \in Nat, [Next]_vars
    PROVE  edits' \in Nat
<1>1. edits' = edits \/ edits' = edits + 1
    BY DEF Next, vars, privateVars, Bootstrap, Type, SaveTimer, WriteDone, WriteFails,
           CreateRoom, OthersWrite, Navigate, LocationChange, Reload, Connect, Opened,
           Dropped, Rejected, Accept, Learn, TypeInRoom
<1> QED BY <1>1

\* All of it: the document, the seeds, the transport, the shape of the tab and
\* the count of the edits.
WholeInv == DocumentInv /\ SeedShape /\ TransportInv /\ TabShape /\ edits \in Nat

\* Nothing, or one text.
LEMMA OneAtMost == Len(<< >>) <= 1 /\ \A x : Len(<<x>>) <= 1
<1>1. \A x : Len(<<x>>) <= 1
  <2> TAKE x
  <2> DEFINE one == <<x>>
  <2>1. Len(one) = 1
      BY IsSeqOne
  <2> HIDE DEF one
  <2>2. Len(one) <= 1
      BY <2>1
  <2> QED BY <2>2 DEF one
<1>2. Len(<< >>) <= 1
  <2> DEFINE none == << >>
  <2>1. Len(none) = 0
      BY IsSeqEmpty
  <2> HIDE DEF none
  <2>2. Len(none) <= 1
      BY <2>1
  <2> QED BY <2>2 DEF none
<1> QED BY <1>1, <1>2

\* What TabInv says follows from it.
LEMMA WholeImplies == WholeInv => TabInv
<1> SUFFICES ASSUME WholeInv PROVE TabInv
    OBVIOUS
<1>2. /\ SessionOK(sess) /\ sess.failed = "none"
      /\ loop.ready \in BOOLEAN /\ loop.closed \in BOOLEAN /\ loop.revision \in Nat
    BY DEF WholeInv, DocumentInv, PrivateOK, LoopOK
<1>3. Len(save) <= 1
  <2>1. save = << >> \/ \E text : save = <<text>>
      BY DEF WholeInv, DocumentInv, StoreOK
  <2> QED BY <2>1, OneAtMost, Zenon
<1>4. Len(kept) <= 1
  <2>1. kept = << >> \/ \E text : kept = <<text>>
      BY DEF WholeInv, DocumentInv, KeptOK
  <2> QED BY <2>1, OneAtMost, Zenon
<1>5. InRoom = loop.closed
    BY <1>2 DEF WholeInv, TabShape, InRoom
<1>6. TypeOK
    BY <1>2, <1>3, <1>4, <1>5 DEF TypeOK, WholeInv, TabShape
<1>7. LoopbackKeepsUp
    BY DEF WholeInv, DocumentInv, PrivateOK, UpToDate, LoopbackKeepsUp
<1>8. TransportNeverStuck
    BY WaysOn DEF WholeInv
<1> QED BY <1>6, <1>7, <1>8 DEF TabInv

\* It holds at first and is kept by every step.
LEMMA WholeInductive ==
    ASSUME ~TypesEarly
    PROVE  /\ Init => WholeInv
           /\ WholeInv /\ [Next]_vars => WholeInv'
<1>1. Init => WholeInv
  <2>1. Init => edits = 0
      BY DEF Init, PrivateInit
  <2>2. Init => edits \in Nat
      BY <2>1
  <2> QED BY <2>2, InitDocument, InitSeeds, InitTransport, InitShape DEF WholeInv
<1>2. ASSUME WholeInv, [Next]_vars PROVE WholeInv'
    BY <1>2, NextDocument, NextSeeds, NextTransport, NextShape, NextCounts DEF WholeInv
<1> QED BY <1>1, <1>2

(***************************************************************************)
(* Whatever is typed, saved, left, reloaded or lost, the loopback has the  *)
(* text of the screen and has acknowledged all of it, no exception comes   *)
(* out of the turns of session and loopback, and the transport of a room   *)
(* is never stuck - if nothing is typed before the text has been read.     *)
(***************************************************************************)
THEOREM TabKeepsUp ==
    ASSUME ~TypesEarly
    PROVE  Spec => []TabInv
<1>1. Init => WholeInv
    BY WholeInductive
<1>2. WholeInv /\ [Next]_vars => WholeInv'
    BY WholeInductive
<1> QED BY <1>1, <1>2, WholeImplies, PTL DEF Spec

(***************************************************************************)
(* Whoever comes back to the private document finds the text as it was     *)
(* left, whatever was still on its way to the database then: the flush     *)
(* hands it over, and the read waits for the writes before it (storage.ts  *)
(* flush and load, transport.ts bootstrap).                                *)
(***************************************************************************)
THEOREM TextReturns ==
    ASSUME ~TypesEarly
    PROVE  Spec => TextIsThereAgain
<1> DEFINE Finds == ~loop.ready /\ loop'.ready /\ kept # << >> => sess'.text = kept[1]
<1>1. Init => WholeInv
    BY WholeInductive
<1>2. WholeInv /\ [Next]_vars => WholeInv'
    BY WholeInductive
<1>3. ASSUME WholeInv, [Next]_vars PROVE [Finds]_vars
  <2> SUFFICES ASSUME ~loop.ready, loop'.ready, kept # << >>, Next
               PROVE  sess'.text = kept[1]
      BY <1>3
  <2>1. DocumentInv /\ PrivateOK /\ StoreOK /\ LoopOK(loop)
      BY <1>3 DEF WholeInv, DocumentInv, PrivateOK
  <2>2. CASE Bootstrap
    <3>1. Settles(IF db THEN stored ELSE << >>, save)
        BY <2>1, <2>2, BootstrapSettles
    <3>2. save = << >> /\ writes = << >>
        BY <2>1, <2>2 DEF Bootstrap, PrivateOK
    <3>3. db /\ kept = <<stored>>
        BY <2>1, <3>2 DEF DocumentInv, KeptOK, Latest
    <3> QED BY <3>1, <3>3 DEF Settles
  <2>3. ~Type
    <3>1. Type => loop.ready \/ TypesEarly
        BY DEF Type
    <3> QED BY <3>1
  <2>4. CASE LocationChange
    <3>1. \/ loop' = [loop EXCEPT !.closed = TRUE] \/ loop' = NewLoop \/ loop' = loop
        BY <2>4 DEF LocationChange, Leave, ClosePrivate, OpenPrivate
    <3> QED BY <2>1, <3>1 DEF LoopOK, NewLoop
  <2>5. CASE Reload
    <3> DEFINE b == ReadLocation(hash) # "private"
    <3>1. loop' = [NewLoop EXCEPT !.closed = b] /\ b \in BOOLEAN
        BY <2>5 DEF Reload
    <3> HIDE DEF b
    <3> QED BY <3>1, NewLoopOK
  <2>6. CASE loop' = loop
      BY <2>6
  <2>7. CASE \/ SaveTimer \/ WriteDone \/ WriteFails
             \/ \E r \in Rooms : CreateRoom(r) \/ OthersWrite(r)
             \/ \E fragment \in made \cup {"", Malformed} : Navigate(fragment)
             \/ Connect \/ Opened \/ Dropped \/ Rejected
             \/ Accept \/ Learn \/ TypeInRoom
    <3>1. loop' = loop
        BY <2>7 DEF SaveTimer, WriteDone, WriteFails, CreateRoom, OthersWrite, Navigate,
                    Connect, Opened, Dropped, Rejected, Accept, Learn, TypeInRoom, privateVars
    <3> QED BY <2>6, <3>1
  <2> QED BY <2>2, <2>3, <2>4, <2>5, <2>7 DEF Next
<1>4. WholeInv /\ [Next]_vars => [Finds]_vars
    BY <1>3
<1>5. TextIsThereAgain <=> [][Finds]_vars
    BY DEF TextIsThereAgain
<1> QED BY <1>1, <1>2, <1>4, <1>5, PTL DEF Spec
=============================================================================
