--------------------------- MODULE PresenceProofs ---------------------------
(***************************************************************************)
(* Three facts about a room, for any number of clients, connections, names *)
(* and changes: participants whom it has named have the same name only if  *)
(* their Joins overlapped, a write loop sleeps only when it has told its   *)
(* client everything, and nobody knows of anybody who never connected.     *)
(***************************************************************************)
EXTENDS Presence, TLAPS, SequenceTheorems, FiniteSetTheorems, WellFoundedInduction

---------------------------------------------------------------------------
(* The inductive invariant.                                                *)

Fields == {"client", "state", "taken", "pc", "changed", "out", "sentUsers", "sentCursors"}

ConnectionOK(k) ==
    /\ DOMAIN k = Fields
    /\ k.state \in {"choosing", "joined", "serving", "left"}
    /\ k.pc \in {"take", "users", "cursors", "wait"}

\* The connections are a sequence, and the participants are those of them
\* that have joined and not left.
Shape ==
    /\ conn \in Seq(ToSet(conn))
    /\ \A i \in IDs : ConnectionOK(conn[i])
    /\ DOMAIN users = {i \in IDs : conn[i].state \in {"joined", "serving"}}

\* Of two Joins that are looking for a name, neither has seen the other's.
OverlapIsNoted ==
    \A i, j \in IDs :
        i # j /\ conn[i].state = "choosing" /\ conn[j].state = "choosing" => {i, j} \in raced

\* A Join that is looking for a name has seen every name the room has given
\* since to those whose Joins did not overlap with it.
TakenIsKnown ==
    \A i \in IDs : conn[i].state = "choosing" =>
        \A j \in DOMAIN users :
            \/ users[j] \in OwnNames
            \/ users[j] \in conn[i].taken
            \/ {i, j} \in raced

\* Only a write loop that is followed and running is anywhere in its loop.
OnlyServingRuns == \A i \in IDs : conn[i].pc # "take" => Serving(i) /\ Watched(i)

\* Whatever has changed since a write loop read it will wake the loop: the
\* change has closed its channel or its goroutine is about to.
UsersWillWake ==
    \A i \in IDs :
        conn[i].pc \in {"cursors", "wait"} /\ conn[i].sentUsers # users =>
            conn[i].changed \/ owed # {}

CursorsWillWake ==
    \A i \in IDs : \A j \in DOMAIN cursors \ {i} :
        /\ conn[i].pc = "wait"
        /\ ~(j \in DOMAIN conn[i].sentCursors /\ conn[i].sentCursors[j] = cursors[j])
        => conn[i].changed \/ owed # {}

NamesInv == OverlapIsNoted /\ TakenIsKnown /\ NamesClashOnlyInARace

WakeInv == OnlyServingRuns /\ UsersWillWake /\ CursorsWillWake

---------------------------------------------------------------------------
(* The sequence of the connections.                                        *)

\* A function on an interval from 1 is a sequence.
LEMMA IntervalFunction ==
    ASSUME NEW S, NEW n \in Nat, NEW p \in [1..n -> S]
    PROVE  p \in Seq(S)
OBVIOUS

\* A connection is added at the end and the others stay.
LEMMA Appended ==
    ASSUME NEW q, q \in Seq(ToSet(q)), NEW k
    PROVE  /\ Append(q, k) \in Seq(ToSet(Append(q, k)))
           /\ Len(q) \in Nat /\ DOMAIN q = 1..Len(q)
           /\ DOMAIN Append(q, k) = DOMAIN q \cup {Len(q) + 1}
           /\ \A i \in DOMAIN q : i # Len(q) + 1 /\ Append(q, k)[i] = q[i]
           /\ Append(q, k)[Len(q) + 1] = k
<1> DEFINE S == ToSet(q) \cup {k}
           p == Append(q, k)
<1>1. q \in Seq(S)
    BY SeqMonotonic
<1>2. /\ p \in Seq(S) /\ Len(p) = Len(q) + 1
      /\ \A i \in 1..Len(q) : p[i] = q[i]
      /\ p[Len(q) + 1] = k
    BY <1>1, AppendProperties
<1>3. /\ Len(q) \in Nat /\ DOMAIN q = 1..Len(q)
      /\ DOMAIN p = 1..Len(p) /\ p \in [1..Len(p) -> S]
    BY <1>1, <1>2, LenProperties
<1>4. p \in [1..Len(p) -> ToSet(p)] /\ Len(p) \in Nat
    BY <1>2, <1>3 DEF ToSet
<1>5. p \in Seq(ToSet(p))
    BY <1>4, IntervalFunction
<1> QED BY <1>2, <1>3, <1>5

\* A function on the indices of a sequence is a sequence of the same length.
LEMMA SameIndices ==
    ASSUME NEW q, q \in Seq(ToSet(q)), NEW p,
           DOMAIN p = DOMAIN q, p = [i \in DOMAIN p |-> p[i]]
    PROVE  p \in Seq(ToSet(p))
<1>1. Len(q) \in Nat /\ DOMAIN q = 1..Len(q)
    BY LenProperties
<1>2. p \in [1..Len(q) -> ToSet(p)]
    BY <1>1 DEF ToSet
<1> QED BY <1>1, <1>2, IntervalFunction

\* What becomes of the connections when an action touches that of i only, or
\* none: their ids stay, and they are a sequence.
LEMMA Touched ==
    ASSUME Shape, conn' = [j \in DOMAIN conn' |-> conn'[j]], DOMAIN conn' = IDs
    PROVE  conn' \in Seq(ToSet(conn'))
BY SameIndices DEF Shape, IDs

---------------------------------------------------------------------------
(* The connections stay well formed, and the participants those that have  *)
(* joined.                                                                 *)

\* A connection that is made is well formed, and its client no participant yet.
LEMMA ConnectShape ==
    ASSUME Shape, NEW c \in Clients, Connect(c)
    PROVE  Shape'
<1>1. /\ conn' \in Seq(ToSet(conn'))
      /\ IDs' = IDs \cup {Len(conn) + 1}
      /\ \A i \in IDs : i # Len(conn) + 1 /\ conn'[i] = conn[i]
      /\ conn'[Len(conn) + 1] = Connection(c)
    BY Appended DEF Shape, Connect, IDs
<1>2. ConnectionOK(Connection(c)) /\ Connection(c).state = "choosing"
    BY DEF Connection, ConnectionOK, Fields
<1>3. \A i \in IDs' : ConnectionOK(conn'[i])
    BY <1>1, <1>2 DEF Shape
<1>4. users' = users
    BY DEF Connect, roomVars
<1>5. DOMAIN users' = {i \in IDs' : conn'[i].state \in {"joined", "serving"}}
    BY <1>1, <1>2, <1>4 DEF Shape
<1> QED BY <1>1, <1>3, <1>5 DEF Shape, ConnectionOK

\* Whoever has joined is a participant.
LEMMA JoinShape ==
    ASSUME Shape, NEW i \in IDs, Join(i)
    PROVE  Shape'
<1>1. /\ IDs' = IDs
      /\ conn' = [j \in DOMAIN conn' |-> conn'[j]]
      /\ \A j \in IDs \ {i} : conn'[j] = conn[j]
      /\ conn'[i] = [conn[i] EXCEPT !.state = "joined", !.taken = {}]
    BY DEF Shape, Join, IDs
<1>2. ConnectionOK(conn'[i]) /\ conn'[i].state = "joined"
    BY <1>1 DEF Shape, ConnectionOK, Fields
<1>3. \A j \in IDs' : ConnectionOK(conn'[j])
    BY <1>1, <1>2 DEF Shape
<1>4. DOMAIN users' = DOMAIN users \cup {i}
    BY DEF Join, With
<1>5. DOMAIN users' = {j \in IDs' : conn'[j].state \in {"joined", "serving"}}
    BY <1>1, <1>2, <1>4 DEF Shape
<1>6. conn' \in Seq(ToSet(conn'))
    BY <1>1, Touched DEF IDs
<1> QED BY <1>3, <1>5, <1>6 DEF Shape, ConnectionOK

\* Whoever leaves is none any more.
LEMMA LeaveShape ==
    ASSUME Shape, NEW i \in IDs, Leave(i)
    PROVE  Shape'
<1>1. /\ IDs' = IDs
      /\ conn' = [j \in DOMAIN conn' |-> conn'[j]]
      /\ \A j \in IDs \ {i} : conn'[j] = conn[j]
      /\ conn'[i] = [Connection(conn[i].client) EXCEPT !.state = "left", !.taken = {}]
    BY DEF Shape, Leave, IDs
<1>2. ConnectionOK(conn'[i]) /\ conn'[i].state = "left"
    BY <1>1 DEF Connection, ConnectionOK, Fields
<1>3. \A j \in IDs' : ConnectionOK(conn'[j])
    BY <1>1, <1>2 DEF Shape
<1>4. DOMAIN users' = DOMAIN users \ {i}
    BY DEF Leave, Restrict
<1>5. DOMAIN users' = {j \in IDs' : conn'[j].state \in {"joined", "serving"}}
    BY <1>1, <1>2, <1>4 DEF Shape
<1>6. conn' \in Seq(ToSet(conn'))
    BY <1>1, Touched DEF IDs
<1> QED BY <1>3, <1>5, <1>6 DEF Shape, ConnectionOK

\* A name or a caret that is set makes nobody a participant.
LEMMA SetShape ==
    ASSUME Shape, NEW i \in IDs, SetInfo(i) \/ SetCursor(i)
    PROVE  Shape'
<1>1. conn' = conn /\ DOMAIN users' = DOMAIN users
    BY DEF SetInfo, SetCursor
<1> QED BY <1>1 DEF Shape, ConnectionOK, IDs

\* Being woken, or served for the first time, changes no participant.
LEMMA PublishShape ==
    ASSUME Shape, NEW i \in IDs, Publish(i)
    PROVE  Shape'
<1>1. /\ IDs' = IDs /\ users' = users
      /\ conn' = [j \in DOMAIN conn' |-> conn'[j]]
      /\ \A j \in IDs : conn'[j] = IF j = i /\ conn[i].state = "joined"
                                  THEN [conn[i] EXCEPT !.state = "serving"]
                                  ELSE [conn[j] EXCEPT !.changed = @ \/ Woken(j)]
    BY DEF Publish, IDs
<1>2. ASSUME NEW j \in IDs
      PROVE  /\ ConnectionOK(conn'[j])
             /\ conn'[j].state \in {"joined", "serving"} <=>
                    conn[j].state \in {"joined", "serving"}
    BY <1>1, ZenonT(40) DEF Shape, ConnectionOK, Fields
<1>3. conn' \in Seq(ToSet(conn'))
    BY <1>1, Touched DEF IDs
<1> QED BY <1>1, <1>2, <1>3 DEF Shape, ConnectionOK

\* A turn of a write loop leaves its connection as it is but for the loop's own state.
LEMMA LoopState ==
    ASSUME Shape, NEW i \in IDs, TakeChannel(i) \/ ReadUsers(i) \/ ReadCursors(i)
    PROVE  ConnectionOK(conn'[i]) /\ conn'[i].state = conn[i].state
<1>1. CASE TakeChannel(i)
    BY <1>1 DEF Shape, TakeChannel, ConnectionOK, Fields, IDs
<1>2. CASE ReadUsers(i)
  <2> DEFINE gone == Gone(conn[i].sentUsers, users)
  <2>1. PICK out : conn' = [conn EXCEPT ![i] =
                      [conn[i] EXCEPT !.pc = "cursors", !.out = out, !.sentUsers = users,
                          !.sentCursors = Restrict(@, DOMAIN @ \ gone)]]
      BY <1>2 DEF ReadUsers
  <2>2. conn'[i] = [conn[i] EXCEPT !.pc = "cursors", !.out = out, !.sentUsers = users,
                          !.sentCursors = Restrict(@, DOMAIN @ \ gone)]
      BY <2>1 DEF IDs
  <2> QED BY <2>2 DEF Shape, ConnectionOK, Fields
<1>3. CASE ReadCursors(i)
  <2>1. conn' = [conn EXCEPT ![i] =
                      [conn[i] EXCEPT !.pc = "wait", !.out = << >>,
                          !.sentCursors = Updated(@, Restrict(cursors, DOMAIN cursors \ {i}))]]
      BY <1>3 DEF ReadCursors
  <2>2. conn'[i] = [conn[i] EXCEPT !.pc = "wait", !.out = << >>,
                          !.sentCursors = Updated(@, Restrict(cursors, DOMAIN cursors \ {i}))]
      BY <2>1 DEF IDs
  <2> QED BY <2>2 DEF Shape, ConnectionOK, Fields
<1> QED BY <1>1, <1>2, <1>3

\* A write loop changes its own connection only.
LEMMA LoopShape ==
    ASSUME Shape, NEW i \in IDs, TakeChannel(i) \/ ReadUsers(i) \/ ReadCursors(i)
    PROVE  Shape'
<1>1. /\ IDs' = IDs /\ users' = users
      /\ conn' = [j \in DOMAIN conn' |-> conn'[j]]
      /\ \A j \in IDs \ {i} : conn'[j] = conn[j]
    BY DEF TakeChannel, ReadUsers, ReadCursors, IDs, roomVars
<1>2. ConnectionOK(conn'[i]) /\ conn'[i].state = conn[i].state
    BY LoopState
<1>3. conn' \in Seq(ToSet(conn'))
    BY <1>1, Touched DEF IDs
<1> QED BY <1>1, <1>2, <1>3 DEF Shape, ConnectionOK

---------------------------------------------------------------------------
(* Names.                                                                  *)

\* Somebody connects: every name that is taken is seen, and every Join under
\* way overlaps.
LEMMA ConnectNames ==
    ASSUME Shape, NamesInv, NEW c \in Clients, Connect(c)
    PROVE  NamesInv'
<1> DEFINE new == Len(conn) + 1
<1>1. /\ IDs' = IDs \cup {new}
      /\ \A i \in IDs : i # new /\ conn'[i] = conn[i]
      /\ conn'[new].state = "choosing" /\ conn'[new].taken = ToSet(users)
      /\ users' = users
      /\ raced' = raced \cup {{i, new} : i \in {j \in IDs : conn[j].state = "choosing"}}
    BY Appended DEF Shape, Connect, IDs, Connection, roomVars
<1>2. OverlapIsNoted'
    BY <1>1 DEF NamesInv, OverlapIsNoted
<1>3. \A j \in DOMAIN users : users[j] \in ToSet(users)
    BY DEF ToSet
<1>4. TakenIsKnown'
    BY <1>1, <1>3 DEF NamesInv, TakenIsKnown
<1>5. NamesClashOnlyInARace'
    BY <1>1 DEF NamesInv, NamesClashOnlyInARace
<1> QED BY <1>2, <1>4, <1>5 DEF NamesInv

\* Somebody is given a name: it is none that his Join has seen, and whose
\* name it has not seen is one that it overlapped with.
LEMMA JoinNames ==
    ASSUME Shape, NamesInv, NEW i \in IDs, Join(i)
    PROVE  NamesInv'
<1>1. /\ IDs' = IDs /\ raced' = raced
      /\ \A j \in IDs \ {i} : conn'[j] = conn[j]
      /\ conn[i].state = "choosing" /\ conn'[i].state = "joined"
    BY DEF Join, Shape, ConnectionOK, Fields, IDs
<1>2. PICK name \in Unique(conn[i].taken) : users' = With(users, i, name)
    BY DEF Join
<1>3. /\ DOMAIN users' = DOMAIN users \cup {i}
      /\ users'[i] = name /\ name \notin conn[i].taken
      /\ \A j \in DOMAIN users \ {i} : users'[j] = users[j]
    BY <1>2 DEF With, Unique
<1>4. DOMAIN users \subseteq IDs /\ i \notin DOMAIN users
    BY <1>1 DEF Shape
<1>5. OverlapIsNoted'
    BY <1>1 DEF NamesInv, OverlapIsNoted
<1>6. TakenIsKnown'
  <2> SUFFICES ASSUME NEW k \in IDs, conn'[k].state = "choosing", NEW j \in DOMAIN users'
               PROVE  \/ users'[j] \in OwnNames
                      \/ users'[j] \in conn'[k].taken
                      \/ {k, j} \in raced
      BY <1>1 DEF TakenIsKnown
  <2>1. k # i /\ conn'[k] = conn[k]
      BY <1>1
  <2>2. CASE j = i
      BY <1>1, <2>1, <2>2 DEF NamesInv, OverlapIsNoted
  <2>3. CASE j # i
      BY <1>3, <2>1, <2>3 DEF NamesInv, TakenIsKnown
  <2> QED BY <2>2, <2>3
<1>7. NamesClashOnlyInARace'
  <2> SUFFICES ASSUME NEW j \in DOMAIN users', NEW k \in DOMAIN users', j # k,
                      users'[j] = users'[k], users'[j] \notin OwnNames
               PROVE  {j, k} \in raced
      BY <1>1 DEF NamesClashOnlyInARace
  <2>1. CASE j # i /\ k # i
      BY <1>3, <2>1 DEF NamesInv, NamesClashOnlyInARace
  <2>2. CASE j = i
      BY <1>1, <1>3, <2>2 DEF NamesInv, TakenIsKnown
  <2>3. CASE k = i
    <3>1. {i, j} \in raced
        BY <1>1, <1>3, <2>3 DEF NamesInv, TakenIsKnown
    <3> QED BY <2>3, <3>1
  <2> QED BY <2>1, <2>2, <2>3
<1> QED BY <1>5, <1>6, <1>7 DEF NamesInv

\* Somebody leaves, and only his pairs are forgotten.
LEMMA LeaveNames ==
    ASSUME Shape, NamesInv, NEW i \in IDs, Leave(i)
    PROVE  NamesInv'
<1>1. /\ IDs' = IDs
      /\ \A j \in IDs \ {i} : conn'[j] = conn[j]
      /\ conn[i].state = "serving" /\ conn'[i].state = "left"
      /\ DOMAIN users' = DOMAIN users \ {i}
      /\ \A j \in DOMAIN users' : users'[j] = users[j]
      /\ raced' = {pair \in raced : i \notin pair}
    BY DEF Leave, Serving, Restrict, Connection, Shape, IDs
<1>2. OverlapIsNoted'
    BY <1>1 DEF NamesInv, OverlapIsNoted
<1>3. TakenIsKnown'
    BY <1>1 DEF NamesInv, TakenIsKnown
<1>4. NamesClashOnlyInARace'
    BY <1>1 DEF NamesInv, NamesClashOnlyInARace
<1> QED BY <1>2, <1>3, <1>4 DEF NamesInv

\* Somebody chooses a name of his own.
LEMMA SetInfoNames ==
    ASSUME Shape, NamesInv, NEW i \in IDs, SetInfo(i)
    PROVE  NamesInv'
<1>1. PICK name \in OwnNames : users' = [users EXCEPT ![i] = name]
    BY DEF SetInfo
<1>2. conn' = conn /\ raced' = raced /\ i \in DOMAIN users
    BY DEF SetInfo, Serving, Shape
<1>3. /\ DOMAIN users' = DOMAIN users /\ users'[i] \in OwnNames
      /\ \A j \in DOMAIN users \ {i} : users'[j] = users[j]
    BY <1>1, <1>2
<1>4. OverlapIsNoted'
    BY <1>2 DEF NamesInv, OverlapIsNoted, IDs
<1>5. TakenIsKnown'
    BY <1>2, <1>3 DEF NamesInv, TakenIsKnown, IDs
<1>6. NamesClashOnlyInARace'
    BY <1>2, <1>3 DEF NamesInv, NamesClashOnlyInARace
<1> QED BY <1>4, <1>5, <1>6 DEF NamesInv

\* Everything else leaves the names alone, and who is looking for one.
LEMMA OtherNames ==
    ASSUME NamesInv, users' = users, raced' = raced, IDs' = IDs,
           \A i \in IDs : conn'[i].state = "choosing" =>
                conn[i].state = "choosing" /\ conn'[i].taken = conn[i].taken
    PROVE  NamesInv'
BY DEF NamesInv, OverlapIsNoted, TakenIsKnown, NamesClashOnlyInARace

---------------------------------------------------------------------------
(* The write loops.                                                        *)

\* A connection that is not served yet: its write loop has not begun.
LEMMA ConnectWakes ==
    ASSUME Shape, WakeInv, NEW c \in Clients, Connect(c)
    PROVE  WakeInv'
<1>1. /\ IDs' = IDs \cup {Len(conn) + 1}
      /\ \A i \in IDs : i # Len(conn) + 1 /\ conn'[i] = conn[i]
      /\ conn'[Len(conn) + 1].pc = "take"
      /\ users' = users /\ cursors' = cursors /\ owed' = owed
    BY Appended DEF Shape, Connect, IDs, Connection, roomVars
<1>2. OnlyServingRuns'
    BY <1>1 DEF WakeInv, OnlyServingRuns, Serving, Watched
<1>3. UsersWillWake'
    BY <1>1 DEF WakeInv, UsersWillWake
<1>4. CursorsWillWake'
    BY <1>1 DEF WakeInv, CursorsWillWake
<1> QED BY <1>2, <1>3, <1>4 DEF WakeInv

\* Whoever has changed the room owes it to the write loops to wake them.
LEMMA ChangesWake ==
    ASSUME Shape, WakeInv, NEW i \in IDs,
           Join(i) \/ Leave(i) \/ SetInfo(i) \/ SetCursor(i)
    PROVE  WakeInv'
<1>1. IDs' = IDs /\ owed' # {}
    BY DEF Join, Leave, SetInfo, SetCursor, IDs
<1>2. ASSUME NEW j \in IDs, conn'[j].pc # "take"
      PROVE  Serving(j)' /\ Watched(j)'
  <2>1. CASE Join(i)
    <3>1. /\ conn[i].state = "choosing" /\ conn'[i].pc = conn[i].pc
          /\ j # i => conn'[j] = conn[j]
        BY <2>1 DEF Join, Shape, ConnectionOK, Fields, IDs
    <3> QED BY <1>2, <3>1 DEF WakeInv, OnlyServingRuns, Serving, Watched
  <2>2. CASE Leave(i)
    <3>1. conn'[i].pc = "take" /\ (j # i => conn'[j] = conn[j])
        BY <2>2 DEF Leave, Connection, IDs
    <3> QED BY <1>2, <3>1 DEF WakeInv, OnlyServingRuns, Serving, Watched
  <2>3. CASE SetInfo(i) \/ SetCursor(i)
      BY <1>2, <2>3 DEF SetInfo, SetCursor, WakeInv, OnlyServingRuns, Serving, Watched
  <2> QED BY <2>1, <2>2, <2>3
<1> QED BY <1>1, <1>2 DEF WakeInv, OnlyServingRuns, UsersWillWake, CursorsWillWake

\* Publishing closes the channel of every loop that is anywhere but at its
\* beginning.
LEMMA PublishWakes ==
    ASSUME Shape, WakeInv, NEW i \in IDs, Publish(i)
    PROVE  WakeInv'
<1>1. /\ IDs' = IDs
      /\ \A j \in IDs : conn'[j] = IF j = i /\ conn[i].state = "joined"
                                  THEN [conn[i] EXCEPT !.state = "serving"]
                                  ELSE [conn[j] EXCEPT !.changed = @ \/ Woken(j)]
    BY DEF Publish, IDs
<1>2. ASSUME NEW j \in IDs, conn'[j].pc # "take"
      PROVE  Serving(j)' /\ Watched(j)' /\ conn'[j].changed
  <2>1. CASE j = i /\ conn[i].state = "joined"
    <3>1. conn'[j].pc = conn[j].pc
        BY <1>1, <2>1 DEF Shape, ConnectionOK, Fields
    <3>2. conn[j].pc = "take"
        BY <2>1 DEF WakeInv, OnlyServingRuns, Serving
    <3> QED BY <1>2, <3>1, <3>2
  <2>2. CASE ~(j = i /\ conn[i].state = "joined")
    <3>1. conn'[j] = [conn[j] EXCEPT !.changed = @ \/ Woken(j)]
        BY <1>1, <2>2
    <3>2. /\ conn'[j].pc = conn[j].pc /\ conn'[j].state = conn[j].state
          /\ conn'[j].client = conn[j].client
          /\ conn'[j].changed = (conn[j].changed \/ Woken(j))
        BY <3>1 DEF Shape, ConnectionOK, Fields
    <3>3. Serving(j) /\ Watched(j)
        BY <1>2, <3>2 DEF WakeInv, OnlyServingRuns
    <3> QED BY <3>2, <3>3 DEF Serving, Watched, Woken
  <2> QED BY <2>1, <2>2
<1>3. \A j \in IDs' : conn'[j].pc \in {"cursors", "wait"} => conn'[j].changed
    BY <1>1, <1>2
<1> QED BY <1>1, <1>2, <1>3 DEF WakeInv, OnlyServingRuns, UsersWillWake, CursorsWillWake

\* What a turn of a write loop is once the loop is past it.
LEMMA LoopWakes ==
    ASSUME Shape, WakeInv, NEW i \in IDs,
           TakeChannel(i) \/ ReadUsers(i) \/ ReadCursors(i)
    PROVE  WakeInv'
<1> DEFINE k == conn[i]
<1>1. /\ IDs' = IDs /\ Serving(i)
      /\ \A j \in IDs \ {i} : conn'[j] = conn[j]
      /\ users' = users /\ cursors' = cursors /\ owed' = owed
    BY DEF TakeChannel, ReadUsers, ReadCursors, IDs, roomVars
<1>2. ConnectionOK(k)
    BY DEF Shape
<1>3. SUFFICES
         /\ Serving(i)' /\ Watched(i)'
         /\ conn'[i].pc \in {"cursors", "wait"} /\ conn'[i].sentUsers # users =>
                conn'[i].changed \/ owed # {}
         /\ conn'[i].pc = "wait" => \A j \in DOMAIN cursors \ {i} :
                j \in DOMAIN conn'[i].sentCursors /\ conn'[i].sentCursors[j] = cursors[j]
  <2>1. OnlyServingRuns'
      BY <1>1, <1>3 DEF WakeInv, OnlyServingRuns, Serving, Watched
  <2>2. UsersWillWake'
      BY <1>1, <1>3 DEF WakeInv, UsersWillWake
  <2>3. CursorsWillWake'
      BY <1>1, <1>3 DEF WakeInv, CursorsWillWake
  <2> QED BY <2>1, <2>2, <2>3 DEF WakeInv
<1>4. CASE TakeChannel(i)
  <2>1. conn'[i] = [k EXCEPT !.pc = "users", !.changed = FALSE] /\ Watched(i)
      BY <1>4 DEF TakeChannel, IDs, Shape, ConnectionOK, Fields
  <2> QED BY <1>1, <1>2, <2>1 DEF ConnectionOK, Fields, Serving, Watched
<1>5. CASE ReadUsers(i)
  <2> DEFINE gone == Gone(k.sentUsers, users)
  <2>1. PICK out : conn' = [conn EXCEPT ![i] =
                      [k EXCEPT !.pc = "cursors", !.out = out, !.sentUsers = users,
                                !.sentCursors = Restrict(@, DOMAIN @ \ gone)]]
      BY <1>5 DEF ReadUsers
  <2>2. conn'[i] = [k EXCEPT !.pc = "cursors", !.out = out, !.sentUsers = users,
                             !.sentCursors = Restrict(@, DOMAIN @ \ gone)]
      BY <2>1 DEF IDs
  <2>3. /\ conn'[i].state = k.state /\ conn'[i].client = k.client
        /\ conn'[i].pc = "cursors" /\ conn'[i].sentUsers = users
      BY <1>2, <2>2 DEF ConnectionOK, Fields
  <2>4. Watched(i)
      BY <1>5 DEF ReadUsers, WakeInv, OnlyServingRuns
  <2> QED BY <1>1, <2>3, <2>4 DEF Serving, Watched
<1>6. CASE ReadCursors(i)
  <2> DEFINE others == Restrict(cursors, DOMAIN cursors \ {i})
  <2>1. conn' = [conn EXCEPT ![i] = [k EXCEPT !.pc = "wait", !.out = << >>,
                                              !.sentCursors = Updated(@, others)]]
      BY <1>6 DEF ReadCursors
  <2>2. conn'[i] = [k EXCEPT !.pc = "wait", !.out = << >>, !.sentCursors = Updated(@, others)]
      BY <2>1 DEF IDs
  <2>3. /\ conn'[i].state = k.state /\ conn'[i].client = k.client
        /\ conn'[i].pc = "wait" /\ conn'[i].sentUsers = k.sentUsers
        /\ conn'[i].changed = k.changed
        /\ conn'[i].sentCursors = Updated(k.sentCursors, others)
      BY <1>2, <2>2 DEF ConnectionOK, Fields
  <2>4. k.pc = "cursors" /\ Watched(i)
      BY <1>6 DEF ReadCursors, WakeInv, OnlyServingRuns
  <2>5. k.sentUsers # users => k.changed \/ owed # {}
      BY <2>4 DEF WakeInv, UsersWillWake
  <2>6. \A j \in DOMAIN cursors \ {i} :
           /\ j \in DOMAIN Updated(k.sentCursors, others)
           /\ Updated(k.sentCursors, others)[j] = cursors[j]
      BY DEF Updated, Restrict
  <2> QED BY <1>1, <2>3, <2>4, <2>5, <2>6 DEF Serving, Watched
<1> QED BY <1>4, <1>5, <1>6

---------------------------------------------------------------------------
(* The theorems.                                                           *)

\* Everything holds of a room that nobody has joined.
LEMMA InitHolds == Init => Shape /\ NamesInv /\ WakeInv
<1> SUFFICES ASSUME Init PROVE Shape /\ NamesInv /\ WakeInv
    OBVIOUS
<1>1. conn = << >> /\ IDs = {} /\ DOMAIN users = {} /\ DOMAIN cursors = {}
    BY DEF Init, IDs, Empty
<1>2. Shape
    BY <1>1, EmptySeq DEF Shape
<1>3. NamesInv
    BY <1>1 DEF NamesInv, OverlapIsNoted, TakenIsKnown, NamesClashOnlyInARace
<1>4. WakeInv
    BY <1>1 DEF WakeInv, OnlyServingRuns, UsersWillWake, CursorsWillWake
<1> QED BY <1>2, <1>3, <1>4

\* Every step keeps the connections well formed.
LEMMA NextShape == Shape /\ [Next]_vars => Shape'
<1> SUFFICES ASSUME Shape, [Next]_vars PROVE Shape'
    OBVIOUS
<1>1. CASE \E c \in Clients : Connect(c)
    BY <1>1, ConnectShape
<1>2. ASSUME NEW c \in Clients, Lose(c) PROVE Shape'
    BY <1>2 DEF Lose, roomVars, Shape, IDs
<1>3. ASSUME NEW i \in IDs, Served(i) PROVE Shape'
    BY <1>3, JoinShape, LeaveShape, SetShape, PublishShape, LoopShape DEF Served
<1>4. CASE UNCHANGED vars
    BY <1>4 DEF vars, roomVars, Shape, IDs
<1> QED BY <1>1, <1>2, <1>3, <1>4 DEF Next

\* Every step keeps what is known of the names.
LEMMA NextNames == Shape /\ NamesInv /\ [Next]_vars => NamesInv'
<1> SUFFICES ASSUME Shape, NamesInv, [Next]_vars PROVE NamesInv'
    OBVIOUS
<1>1. CASE \E c \in Clients : Connect(c)
    BY <1>1, ConnectNames
<1>2. ASSUME NEW c \in Clients, Lose(c) PROVE NamesInv'
    BY <1>2, OtherNames DEF Lose, roomVars, IDs
<1>3. ASSUME NEW i \in IDs, Served(i) PROVE NamesInv'
  <2>1. CASE Join(i) \/ Leave(i) \/ SetInfo(i)
      BY <2>1, JoinNames, LeaveNames, SetInfoNames
  <2>2. CASE SetCursor(i)
      BY <2>2, OtherNames DEF SetCursor, clientVars, IDs
  <2>3. CASE Publish(i)
    <3>1. /\ IDs' = IDs /\ users' = users /\ raced' = raced
          /\ \A j \in IDs : conn'[j] = IF j = i /\ conn[i].state = "joined"
                                      THEN [conn[i] EXCEPT !.state = "serving"]
                                      ELSE [conn[j] EXCEPT !.changed = @ \/ Woken(j)]
        BY <2>3 DEF Publish, IDs
    <3>2. \A j \in IDs : conn'[j].state = "choosing" =>
             conn[j].state = "choosing" /\ conn'[j].taken = conn[j].taken
        BY <3>1, ZenonT(40) DEF Shape, ConnectionOK, Fields
    <3> QED BY <3>1, <3>2, OtherNames
  <2>4. CASE TakeChannel(i) \/ ReadUsers(i) \/ ReadCursors(i)
    <3>1. /\ IDs' = IDs /\ users' = users /\ raced' = raced
          /\ conn[i].state = "serving"
          /\ \A j \in IDs \ {i} : conn'[j] = conn[j]
        BY <2>4 DEF TakeChannel, ReadUsers, ReadCursors, IDs, roomVars, Serving
    <3>2. Serving(i)'
        BY <2>4, <3>1, LoopState DEF Serving
    <3> QED BY <3>1, <3>2, OtherNames DEF Serving
  <2> QED BY <1>3, <2>1, <2>2, <2>3, <2>4 DEF Served
<1>4. CASE UNCHANGED vars
    BY <1>4, OtherNames DEF vars, roomVars, IDs
<1> QED BY <1>1, <1>2, <1>3, <1>4 DEF Next

\* Every step keeps the promise that whoever has missed something is woken.
LEMMA NextWakes == Shape /\ WakeInv /\ [Next]_vars => WakeInv'
<1> SUFFICES ASSUME Shape, WakeInv, [Next]_vars PROVE WakeInv'
    OBVIOUS
<1>1. CASE \E c \in Clients : Connect(c)
    BY <1>1, ConnectWakes
<1>2. ASSUME conn' = conn, users' = users, cursors' = cursors, owed' = owed
      PROVE  WakeInv'
    BY <1>2 DEF WakeInv, OnlyServingRuns, UsersWillWake, CursorsWillWake,
                Serving, Watched, IDs
<1>3. CASE \E c \in Clients : Lose(c)
    BY <1>2, <1>3 DEF Lose, roomVars
<1>4. ASSUME NEW i \in IDs, Served(i) PROVE WakeInv'
    BY <1>4, ChangesWake, PublishWakes, LoopWakes DEF Served
<1>5. CASE UNCHANGED vars
    BY <1>2, <1>5 DEF vars, roomVars
<1> QED BY <1>1, <1>3, <1>4, <1>5 DEF Next

(***************************************************************************)
(* Whatever the names, the clients and the interleaving of their Joins,    *)
(* participants named by the room have the same name only if their Joins   *)
(* overlapped (room.go, Join).                                             *)
(***************************************************************************)
THEOREM NamesAreUnique == Spec => []NamesClashOnlyInARace
<1>1. Shape /\ NamesInv /\ [Next]_vars => (Shape /\ NamesInv)'
    BY NextShape, NextNames
<1>2. NamesInv => NamesClashOnlyInARace
    BY DEF NamesInv
<1> QED BY InitHolds, <1>1, <1>2, PTL DEF Spec

(***************************************************************************)
(* No change of the room is slept through, however the write loops'        *)
(* reading, the changes and their publishing interleave (broadcast.go,     *)
(* conn.go writeLoop).                                                     *)
(***************************************************************************)
THEOREM NoChangeSleptThrough == Spec => []SleepsOnlyWhenUpToDate
<1>1. Shape /\ WakeInv /\ [Next]_vars => (Shape /\ WakeInv)'
    BY NextShape, NextWakes
<1>2. WakeInv => SleepsOnlyWhenUpToDate
    BY DEF WakeInv, UsersWillWake, CursorsWillWake, SleepsOnlyWhenUpToDate
<1> QED BY InitHolds, <1>1, <1>2, PTL DEF Spec

---------------------------------------------------------------------------
(* What the session makes of the messages of a write loop.                 *)

\* What holds of 0, and of the next number with each one, holds up to N.
LEMMA UpTo ==
    ASSUME NEW N \in Nat, NEW S, 0 \in S, \A n \in 0..(N - 1) : n \in S => n + 1 \in S
    PROVE  0..N \subseteq S
<1> DEFINE T == 0..N \ S
<1>1. SUFFICES ASSUME T # {} PROVE FALSE
    OBVIOUS
<1>2. PICK x \in T : \A y \in T : ~(<<y, x>> \in OpToRel(<, Nat))
  <2>1. T \subseteq Nat
      OBVIOUS
  <2> HIDE DEF T
  <2> QED BY <1>1, <2>1, NatLessThanWellFounded, WFMin
<1>3. x \in 0..N /\ x \notin S /\ x # 0
    BY <1>2
<1>4. x - 1 \in 0..(N - 1) /\ x - 1 + 1 = x
    BY <1>3
<1>5. x - 1 \in T
    BY <1>3, <1>4
<1>6. <<x - 1, x>> \in OpToRel(<, Nat)
    BY <1>3, <1>4 DEF OpToRel
<1> QED BY <1>2, <1>5, <1>6

\* Some numbers up to N have a largest one.
LEMMA MaxIsOne ==
    ASSUME NEW N \in Nat, NEW s \in SUBSET (1..N), s # {}
    PROVE  Max(s) \in s /\ \A y \in s : Max(s) >= y
<1> DEFINE T == {N - y : y \in s}
<1>1. T # {} /\ T \subseteq Nat
  <2>1. \A y \in s : y \in 1..N
      OBVIOUS
  <2>2. \A y \in s : N - y \in Nat /\ N - y \in T
      BY <2>1
  <2> QED BY <2>2
<1>2. PICK x \in T : \A y \in T : ~(<<y, x>> \in OpToRel(<, Nat))
  <2> HIDE DEF T
  <2> QED BY <1>1, NatLessThanWellFounded, WFMin
<1>3. PICK z \in s : x = N - z
    BY <1>2
<1>4. ASSUME NEW y \in s PROVE z >= y
  <2>1. N - y \in T /\ N - y \in Nat /\ N - z \in Nat
      OBVIOUS
  <2>2. ~(N - y < N - z)
    <3> HIDE DEF T
    <3> QED BY <1>2, <1>3, <2>1 DEF OpToRel
  <2> QED BY <2>1, <2>2
<1> QED BY <1>4 DEF Max

\* A client's peers after the messages q.
Handled(ps, q) == FoldLeft(HandleMessage, ps, q)

\* The fold, as the function its definition describes.
PeersRun(ps, q, n, after) ==
    /\ after[0] = ps
    /\ \A k \in 1..n : after[k] = HandleMessage(after[k - 1], q[k])
    /\ Handled(ps, q) = after[n]

\* There is such a function.
LEMMA PeersUnfold ==
    ASSUME NEW ps, NEW q, NEW n \in Nat, DOMAIN q = 1..n
    PROVE  \E after : PeersRun(ps, q, n, after)
<1> DEFINE Step(t, k) == HandleMessage(t, q[k])
           Loop(f, D) == f = [s \in SUBSET D |->
                                IF s = {} THEN ps ELSE Step(f[s \ {Max(s)}], Max(s))]
           S == {m \in 0..n : \E f : Loop(f, 1..m)}
           iter == CHOOSE f : Loop(f, 1..n)
<1>1. Handled(ps, q) = iter[1..n]
    BY DEF Handled, FoldLeft, MapThenFoldSet
<1>2. \A k : Step(ps, k) = HandleMessage(ps, q[k])
    OBVIOUS
<1>3. \A t, k : Step(t, k) = HandleMessage(t, q[k])
    OBVIOUS
<1> HIDE DEF Step
<1>4. \A s \in SUBSET (1..n) : s # {} => Max(s) \in s /\ \A y \in s : Max(s) >= y
    BY MaxIsOne
<1>5. 0 \in S
  <2>1. Loop([s \in SUBSET (1..0) |-> ps], 1..0)
      OBVIOUS
  <2> HIDE DEF Loop
  <2> QED BY <2>1
<1>6. ASSUME NEW m \in 0..(n - 1), m \in S PROVE m + 1 \in S
  <2>1. PICK f : Loop(f, 1..m)
      BY <1>6
  <2> DEFINE D == 1..(m + 1)
             g == [s \in SUBSET D |-> IF s = {} THEN ps ELSE Step(f[s \ {Max(s)}], Max(s))]
  <2>2. ASSUME NEW s \in SUBSET D, s # {}
        PROVE  /\ s \ {Max(s)} \in SUBSET (1..m)
               /\ s \ {Max(s)} \in SUBSET D
    <3>1. Max(s) \in s /\ \A y \in s : Max(s) >= y
      <4>1. s \in SUBSET (1..n)
          BY <2>2
      <4> QED BY <1>4, <2>2, <4>1
    <3>2. ASSUME NEW y \in s \ {Max(s)} PROVE y \in 1..m
      <4> DEFINE x == Max(s)
      <4>1. y \in 1..(m + 1) /\ x \in 1..(m + 1) /\ y # x /\ x >= y
          BY <3>1
      <4> HIDE DEF x
      <4> QED BY <4>1
    <3> QED BY <3>2
  <2>3. ASSUME NEW s \in SUBSET (1..m) PROVE g[s] = f[s]
    <3>1. s \in SUBSET D
        OBVIOUS
    <3>2. g[s] = IF s = {} THEN ps ELSE Step(f[s \ {Max(s)}], Max(s))
        BY <3>1
    <3>3. f[s] = IF s = {} THEN ps ELSE Step(f[s \ {Max(s)}], Max(s))
        BY <2>1
    <3> QED BY <3>2, <3>3
  <2>4. \A s \in SUBSET D : s # {} => g[s \ {Max(s)}] = f[s \ {Max(s)}]
      BY <2>2, <2>3
  <2>5. g = [s \in SUBSET D |-> IF s = {} THEN ps ELSE Step(g[s \ {Max(s)}], Max(s))]
      BY <2>4
  <2>6. Loop(g, D)
    <3> HIDE DEF g
    <3> QED BY <2>5
  <2>7. m + 1 \in 0..n
      OBVIOUS
  <2> HIDE DEF Loop, g
  <2> QED BY <2>6, <2>7
<1>7. n \in S
  <2> HIDE DEF S
  <2>1. 0..n \subseteq S
      BY <1>5, <1>6, UpTo
  <2> QED BY <2>1
<1>8. Loop(iter, 1..n)
    BY <1>7
<1> HIDE DEF iter
<1>9. iter[1..0] = ps
  <2>1. 1..0 = {} /\ 1..0 \in SUBSET (1..n)
      OBVIOUS
  <2> QED BY <1>8, <2>1
<1>10. ASSUME NEW k \in 1..n PROVE iter[1..k] = Step(iter[1..(k - 1)], k)
  <2>1. k \in 1..k /\ 1..k \in SUBSET (1..n) /\ (1..k) \ {k} = 1..(k - 1)
      OBVIOUS
  <2>2. Max(1..k) \in 1..k /\ Max(1..k) >= k
      BY <1>4, <2>1
  <2>3. Max(1..k) = k
      BY <2>2
  <2>4. iter[1..k] = Step(iter[(1..k) \ {Max(1..k)}], Max(1..k))
      BY <1>8, <2>1
  <2> QED BY <2>1, <2>3, <2>4
<1> DEFINE after == [k \in 0..n |-> iter[1..k]]
<1>11. ASSUME NEW k \in 1..n PROVE after[k] = HandleMessage(after[k - 1], q[k])
  <2>1. k - 1 \in 0..n /\ k \in 0..n
      OBVIOUS
  <2>2. after[k] = iter[1..k] /\ after[k - 1] = iter[1..(k - 1)]
      BY <2>1
  <2> QED BY <1>3, <1>10, <2>2
<1>12. after[0] = ps /\ Handled(ps, q) = after[n]
    BY <1>1, <1>9
<1> HIDE DEF after
<1>13. PeersRun(ps, q, n, after)
    BY <1>11, <1>12 DEF PeersRun
<1> QED BY <1>13

\* No peer comes from nowhere.
LEMMA PeersFromMessages ==
    ASSUME NEW I, NEW ps, DOMAIN ps \subseteq I,
           NEW q, NEW n \in Nat, DOMAIN q = 1..n, \A k \in 1..n : q[k].id \in I
    PROVE  DOMAIN Handled(ps, q) \subseteq I
<1>1. PICK after : PeersRun(ps, q, n, after)
    BY PeersUnfold
<1> DEFINE S == {k \in 0..n : DOMAIN after[k] \subseteq I}
<1>2. 0 \in S
    BY <1>1 DEF PeersRun
<1>3. ASSUME NEW k \in 0..(n - 1), k \in S PROVE k + 1 \in S
  <2>1. after[k + 1] = HandleMessage(after[k], q[k + 1]) /\ q[k + 1].id \in I
      BY <1>1 DEF PeersRun
  <2>2. DOMAIN after[k] \subseteq I
      BY <1>3
  <2>3. DOMAIN HandleMessage(after[k], q[k + 1]) \subseteq I
      BY <2>1, <2>2 DEF HandleMessage, With, Restrict
  <2> QED BY <2>1, <2>3
<1>4. n \in S
  <2> HIDE DEF S
  <2>1. 0..n \subseteq S
      BY <1>2, <1>3, UpTo
  <2> QED BY <2>1
<1> QED BY <1>1, <1>4 DEF PeersRun

---------------------------------------------------------------------------
(* Types.                                                                  *)

\* A sequence of messages about participants in I.
MessagesOK(q, I) == \E S : q \in Seq(S) /\ \A m \in S : m.id \in I

\* What a write loop remembers is about connections that there have been.
LoopOK(i) ==
    /\ conn[i].out # << >> => conn[i].pc = "cursors"
    /\ MessagesOK(conn[i].out, IDs)
    /\ DOMAIN conn[i].sentUsers \subseteq IDs
    /\ DOMAIN conn[i].sentCursors \subseteq IDs \ {i}

TypesInv ==
    /\ DOMAIN cursors \subseteq DOMAIN users
    /\ \A i \in DOMAIN users : users[i] \in Names \cup OwnNames
    /\ owed \subseteq {i \in IDs : conn[i].state \in {"joined", "serving", "left"}}
    /\ \A i \in IDs : LoopOK(i)
    /\ DOMAIN online = Clients /\ DOMAIN peers = Clients
    /\ \A c \in Clients : online[c] \in IDs \cup {0} /\ DOMAIN peers[c] \subseteq IDs

LEMMA TypesSuffice == Shape /\ TypesInv => TypeOK
BY DEF Shape, TypesInv, TypeOK, ConnectionOK, LoopOK, ToSet

\* Nothing is sent about nobody.
LEMMA NoMessages == ASSUME NEW I PROVE MessagesOK(<< >>, I)
<1> DEFINE none == {}
<1>1. << >> \in Seq(none) /\ \A m \in none : m.id \in I
    BY EmptySeq
<1> HIDE DEF none
<1> QED BY <1>1 DEF MessagesOK

\* There are finitely many connections.
LEMMA FiniteIDs == ASSUME Shape PROVE IsFiniteSet(IDs)
<1>1. Len(conn) \in Nat /\ IDs = 1..Len(conn)
    BY LenProperties DEF Shape, IDs
<1> QED BY <1>1, FS_Interval

\* A finite set of messages, put in order.
LEMMA OrderedMessages ==
    ASSUME NEW S, IsFiniteSet(S), NEW I, \A m \in S : m.id \in I
    PROVE  MessagesOK(SetToSeq(S), I)
<1> DEFINE n == Cardinality(S)
           q == SetToSeq(S)
<1>1. n \in Nat /\ \E f \in [1..n -> S] : IsInjective(f)
    BY FS_CardinalityType DEF ExistsBijection, Bijection, Injection
<1> HIDE DEF n
<1>2. q \in [1..n -> S]
    BY <1>1 DEF SetToSeq, n
<1>3. q \in Seq(S)
    BY <1>1, <1>2, IntervalFunction
<1> QED BY <1>3 DEF MessagesOK

\* Messages after messages.
LEMMA MoreMessages ==
    ASSUME NEW I, NEW p, MessagesOK(p, I), NEW q, MessagesOK(q, I)
    PROVE  MessagesOK(p \o q, I)
<1>1. PICK P : p \in Seq(P) /\ \A m \in P : m.id \in I
    BY DEF MessagesOK
<1>2. PICK Q : q \in Seq(Q) /\ \A m \in Q : m.id \in I
    BY DEF MessagesOK
<1>3. p \in Seq(P \cup Q) /\ q \in Seq(P \cup Q)
    BY <1>1, <1>2, SeqMonotonic
<1>4. p \o q \in Seq(P \cup Q)
    BY <1>3, ConcatProperties
<1>5. \A m \in P \cup Q : m.id \in I
    BY <1>1, <1>2
<1> QED BY <1>4, <1>5 DEF MessagesOK

\* What a loop says of participants is about connections.
LEMMA UsersMessages ==
    ASSUME NEW D, IsFiniteSet(D), NEW I, D \subseteq I, NEW names
    PROVE  MessagesOK(SetToSeq({UserInfo(j, names[j]) : j \in D}), I)
<1> DEFINE S == {UserInfo(j, names[j]) : j \in D}
           f == [j \in D |-> UserInfo(j, names[j])]
<1>1. f \in Surjection(D, S)
    BY DEF Surjection
<1>2. IsFiniteSet(S)
  <2> HIDE DEF f, S
  <2> QED BY <1>1, FS_Surjection
<1>3. \A m \in S : m.id \in I
    BY DEF UserInfo
<1> HIDE DEF S
<1>4. MessagesOK(SetToSeq(S), I)
    BY <1>2, <1>3, OrderedMessages
<1> QED BY <1>4 DEF S

LEMMA CursorMessages ==
    ASSUME NEW D, IsFiniteSet(D), NEW I, D \subseteq I, NEW carets
    PROVE  MessagesOK(SetToSeq({UserCursor(j, carets[j]) : j \in D}), I)
<1> DEFINE S == {UserCursor(j, carets[j]) : j \in D}
           f == [j \in D |-> UserCursor(j, carets[j])]
<1>1. f \in Surjection(D, S)
    BY DEF Surjection
<1>2. IsFiniteSet(S)
  <2> HIDE DEF f, S
  <2> QED BY <1>1, FS_Surjection
<1>3. \A m \in S : m.id \in I
    BY DEF UserCursor
<1> HIDE DEF S
<1>4. MessagesOK(SetToSeq(S), I)
    BY <1>2, <1>3, OrderedMessages
<1> QED BY <1>4 DEF S

\* The peers that a loop's messages leave to a client are connections.
LEMMA PeersAreIDs ==
    ASSUME NEW I, NEW ps, DOMAIN ps \subseteq I, NEW q, MessagesOK(q, I)
    PROVE  DOMAIN Handled(ps, q) \subseteq I
<1>1. PICK S : q \in Seq(S) /\ \A m \in S : m.id \in I
    BY DEF MessagesOK
<1>2. Len(q) \in Nat /\ DOMAIN q = 1..Len(q) /\ \A k \in 1..Len(q) : q[k] \in S
    BY <1>1, LenProperties, ElementOfSeq
<1>3. \A k \in 1..Len(q) : q[k].id \in I
    BY <1>1, <1>2
<1> QED BY <1>2, <1>3, PeersFromMessages

\* Somebody connects: every id there was is there still.
LEMMA ConnectTypes ==
    ASSUME Shape, TypesInv, NEW c \in Clients, Connect(c)
    PROVE  TypesInv'
<1>0. PICK new : new = Len(conn) + 1
    OBVIOUS
<1>1. /\ IDs' = IDs \cup {new} /\ conn'[new] = Connection(c)
      /\ \A i \in IDs : i # new /\ conn'[i] = conn[i]
    BY <1>0, Appended DEF Shape, Connect, IDs
<1>2. /\ users' = users /\ cursors' = cursors /\ owed' = owed
      /\ online' = [online EXCEPT ![c] = new] /\ peers' = [peers EXCEPT ![c] = Empty]
    BY <1>0 DEF Connect, roomVars
<1>3. LoopOK(new)'
  <2>1. conn'[new].out = << >> /\ conn'[new].sentUsers = Empty /\ conn'[new].sentCursors = Empty
      BY <1>1 DEF Connection
  <2> QED BY <2>1, NoMessages DEF LoopOK, Empty
<1>4. ASSUME NEW i \in IDs PROVE LoopOK(i)'
  <2>1. MessagesOK(conn[i].out, IDs')
      BY <1>1 DEF TypesInv, LoopOK, MessagesOK
  <2> QED BY <1>1, <2>1 DEF TypesInv, LoopOK
<1>5. \A d \in Clients : online'[d] \in IDs' \cup {0} /\ DOMAIN peers'[d] \subseteq IDs'
    BY <1>1, <1>2 DEF TypesInv, Empty
<1>6. owed' \subseteq {i \in IDs' : conn'[i].state \in {"joined", "serving", "left"}}
    BY <1>1, <1>2 DEF TypesInv
<1> QED BY <1>1, <1>2, <1>3, <1>4, <1>5, <1>6 DEF TypesInv

\* A step at connection i that says nothing to its client.
LEMMA TouchTypes ==
    ASSUME Shape, TypesInv, NEW i \in IDs, IDs' = IDs,
           \A j \in IDs \ {i} : conn'[j] = conn[j],
           conn'[i].state = conn[i].state \/ conn'[i].state \in {"joined", "serving", "left"},
           LoopOK(i)', UNCHANGED <<online, peers>>,
           DOMAIN cursors' \subseteq DOMAIN users',
           \A j \in DOMAIN users' : users'[j] \in Names \cup OwnNames,
           owed' = owed \/ (owed' = owed \cup {i}
                              /\ conn'[i].state \in {"joined", "serving", "left"})
    PROVE  TypesInv'
<1>1. \A j \in IDs \ {i} : LoopOK(j)'
    BY DEF TypesInv, LoopOK
<1>2. owed' \subseteq {j \in IDs' : conn'[j].state \in {"joined", "serving", "left"}}
    BY DEF TypesInv
<1> QED BY <1>1, <1>2 DEF TypesInv

\* Who joins gets a name, and has said nothing yet.
LEMMA JoinTypes ==
    ASSUME Shape, TypesInv, NEW i \in IDs, Join(i)
    PROVE  TypesInv'
<1>1. /\ IDs' = IDs /\ owed' = owed \cup {i} /\ UNCHANGED <<online, peers, cursors>>
      /\ \A j \in IDs \ {i} : conn'[j] = conn[j]
      /\ conn'[i] = [conn[i] EXCEPT !.state = "joined", !.taken = {}]
    BY DEF Shape, Join, IDs, clientVars
<1>2. conn'[i].state = "joined" /\ LoopOK(i)'
    BY <1>1 DEF Shape, ConnectionOK, Fields, TypesInv, LoopOK
<1>3. PICK name \in Names : users' = With(users, i, name)
    BY DEF Join, Unique
<1>4. /\ DOMAIN users \subseteq DOMAIN users'
      /\ \A j \in DOMAIN users' : users'[j] \in Names \cup OwnNames
    BY <1>3 DEF With, TypesInv
<1>5. DOMAIN cursors' \subseteq DOMAIN users'
    BY <1>1, <1>4 DEF TypesInv
<1> QED BY <1>1, <1>2, <1>4, <1>5, TouchTypes

\* Who leaves takes name and caret along.
LEMMA LeaveTypes ==
    ASSUME Shape, TypesInv, NEW i \in IDs, Leave(i)
    PROVE  TypesInv'
<1>1. /\ IDs' = IDs /\ owed' = owed \cup {i} /\ UNCHANGED <<online, peers>>
      /\ \A j \in IDs \ {i} : conn'[j] = conn[j]
      /\ conn'[i] = [Connection(conn[i].client) EXCEPT !.state = "left", !.taken = {}]
    BY DEF Shape, Leave, IDs, clientVars
<1>2. conn'[i].state = "left" /\ LoopOK(i)'
  <2>1. /\ conn'[i].state = "left" /\ conn'[i].out = << >>
        /\ conn'[i].sentUsers = Empty /\ conn'[i].sentCursors = Empty
      BY <1>1 DEF Connection
  <2> QED BY <2>1, NoMessages DEF LoopOK, Empty
<1>3. /\ DOMAIN cursors' \subseteq DOMAIN users'
      /\ \A j \in DOMAIN users' : users'[j] \in Names \cup OwnNames
    BY DEF Leave, WithoutCaret, Restrict, TypesInv
<1> QED BY <1>1, <1>2, <1>3, TouchTypes

\* A name or a caret is that of a participant.
LEMMA SetTypes ==
    ASSUME Shape, TypesInv, NEW i \in IDs, SetInfo(i) \/ SetCursor(i)
    PROVE  TypesInv'
<1>1. /\ conn' = conn /\ IDs' = IDs /\ owed' = owed \cup {i} /\ UNCHANGED <<online, peers>>
      /\ conn[i].state = "serving"
    BY DEF SetInfo, SetCursor, clientVars, IDs, Serving
<1>2. LoopOK(i)'
    BY <1>1 DEF TypesInv, LoopOK
<1>3. /\ DOMAIN cursors' \subseteq DOMAIN users'
      /\ \A j \in DOMAIN users' : users'[j] \in Names \cup OwnNames
  <2>1. i \in DOMAIN users
      BY <1>1 DEF Shape
  <2>2. CASE SetInfo(i)
      BY <2>1, <2>2 DEF SetInfo, TypesInv
  <2>3. CASE SetCursor(i)
      BY <2>1, <2>3 DEF SetCursor, With, TypesInv
  <2> QED BY <2>2, <2>3
<1> QED BY <1>1, <1>2, <1>3, TouchTypes

\* Publishing touches nothing that a loop has said or is going to.
LEMMA PublishTypes ==
    ASSUME Shape, TypesInv, NEW i \in IDs, Publish(i)
    PROVE  TypesInv'
<1>1. /\ IDs' = IDs /\ owed' \subseteq owed /\ UNCHANGED <<users, cursors, online, peers>>
      /\ \A j \in IDs : conn'[j] = IF j = i /\ conn[i].state = "joined"
                                  THEN [conn[i] EXCEPT !.state = "serving"]
                                  ELSE [conn[j] EXCEPT !.changed = @ \/ Woken(j)]
    BY DEF Publish, IDs
<1>2. ASSUME NEW j \in IDs
      PROVE  /\ conn'[j].pc = conn[j].pc /\ conn'[j].out = conn[j].out
             /\ conn'[j].sentUsers = conn[j].sentUsers
             /\ conn'[j].sentCursors = conn[j].sentCursors
             /\ conn'[j].state = conn[j].state \/ conn'[j].state = "serving"
  <2>1. DOMAIN conn[j] = Fields
      BY DEF Shape, ConnectionOK
  <2>2. CASE j = i /\ conn[i].state = "joined"
    <3>1. conn'[j] = [conn[j] EXCEPT !.state = "serving"]
        BY <1>1, <2>2
    <3> QED BY <2>1, <3>1 DEF Fields
  <2>3. CASE ~(j = i /\ conn[i].state = "joined")
    <3>1. conn'[j] = [conn[j] EXCEPT !.changed = @ \/ Woken(j)]
        BY <1>1, <2>3
    <3> QED BY <2>1, <3>1 DEF Fields
  <2> QED BY <2>2, <2>3
<1>3. \A j \in IDs : LoopOK(j)'
    BY <1>1, <1>2 DEF TypesInv, LoopOK
<1>4. owed' \subseteq {j \in IDs' : conn'[j].state \in {"joined", "serving", "left"}}
    BY <1>1, <1>2 DEF TypesInv
<1> QED BY <1>1, <1>3, <1>4 DEF TypesInv

\* A channel is taken.
LEMMA TakeTypes ==
    ASSUME Shape, TypesInv, NEW i \in IDs, TakeChannel(i)
    PROVE  TypesInv'
<1>1. /\ IDs' = IDs /\ UNCHANGED <<users, cursors, owed, online, peers>>
      /\ \A j \in IDs \ {i} : conn'[j] = conn[j]
      /\ conn'[i] = [conn[i] EXCEPT !.pc = "users", !.changed = FALSE]
      /\ conn[i].pc # "cursors"
    BY DEF TakeChannel, IDs, roomVars, clientVars
<1>2. conn'[i].state = conn[i].state /\ LoopOK(i)'
    BY <1>1 DEF Shape, ConnectionOK, Fields, TypesInv, LoopOK
<1> QED BY <1>1, <1>2, TouchTypes DEF TypesInv

\* The participants are read.
LEMMA ReadUsersTypes ==
    ASSUME Shape, TypesInv, NEW i \in IDs, ReadUsers(i)
    PROVE  TypesInv'
<1> DEFINE k == conn[i]
           gone == Gone(k.sentUsers, users)
           told == Told(k.sentUsers, users)
           named == [j \in told |-> <<users[j]>>]
           nobody == [j \in gone |-> << >>]
           one == SetToSeq({UserInfo(j, <<users[j]>>) : j \in told})
           other == SetToSeq({UserInfo(j, << >>) : j \in gone})
<1>1. /\ IDs' = IDs /\ UNCHANGED <<users, cursors, owed, online, peers>>
      /\ \A j \in IDs \ {i} : conn'[j] = conn[j]
      /\ conn'[i] = [k EXCEPT !.pc = "cursors", !.out = one \o other, !.sentUsers = users,
                              !.sentCursors = Restrict(@, DOMAIN @ \ gone)]
    BY DEF ReadUsers, IDs, roomVars, clientVars
<1>2. DOMAIN users \subseteq IDs /\ DOMAIN k.sentUsers \subseteq IDs
    BY DEF Shape, TypesInv, LoopOK
<1>3. IsFiniteSet(told) /\ IsFiniteSet(gone) /\ told \subseteq IDs /\ gone \subseteq IDs
  <2>1. told \subseteq IDs /\ gone \subseteq IDs
      BY <1>2 DEF Told, Gone
  <2> HIDE DEF told, gone
  <2> QED BY <2>1, FiniteIDs, FS_Subset
<1> HIDE DEF told, gone
<1>4. MessagesOK(one, IDs)
  <2>1. {UserInfo(j, <<users[j]>>) : j \in told} = {UserInfo(j, named[j]) : j \in told}
      OBVIOUS
  <2> HIDE DEF named
  <2>2. MessagesOK(SetToSeq({UserInfo(j, named[j]) : j \in told}), IDs)
      BY <1>3, UsersMessages
  <2> QED BY <2>1, <2>2
<1>5. MessagesOK(other, IDs)
  <2>1. {UserInfo(j, << >>) : j \in gone} = {UserInfo(j, nobody[j]) : j \in gone}
      OBVIOUS
  <2> HIDE DEF nobody
  <2>2. MessagesOK(SetToSeq({UserInfo(j, nobody[j]) : j \in gone}), IDs)
      BY <1>3, UsersMessages
  <2> QED BY <2>1, <2>2
<1> HIDE DEF one, other
<1>6. MessagesOK(one \o other, IDs)
    BY <1>4, <1>5, MoreMessages
<1>7. /\ conn'[i].state = k.state /\ conn'[i].pc = "cursors"
      /\ conn'[i].out = one \o other /\ conn'[i].sentUsers = users
      /\ conn'[i].sentCursors = Restrict(k.sentCursors, DOMAIN k.sentCursors \ gone)
  <2>1. ConnectionOK(k)
      BY DEF Shape
  <2> HIDE DEF k
  <2> QED BY <1>1, <2>1 DEF ConnectionOK, Fields
<1>8. LoopOK(i)'
  <2>1. DOMAIN conn'[i].sentCursors \subseteq IDs \ {i}
      BY <1>7 DEF Restrict, TypesInv, LoopOK
  <2> QED BY <1>1, <1>2, <1>6, <1>7, <2>1 DEF LoopOK
<1>9. conn'[i].state = conn[i].state
    BY <1>7
<1> QED BY <1>1, <1>8, <1>9, TouchTypes DEF TypesInv

\* The carets are read, and everything is sent.
LEMMA ReadCursorsTypes ==
    ASSUME Shape, TypesInv, NEW i \in IDs, ReadCursors(i)
    PROVE  TypesInv'
<1> DEFINE k == conn[i]
           others == Restrict(cursors, DOMAIN cursors \ {i})
           told == Told(k.sentCursors, others)
           more == SetToSeq({UserCursor(j, others[j]) : j \in told})
           sent == k.out \o more
<1>1. /\ IDs' = IDs /\ UNCHANGED <<users, cursors, owed, online>>
      /\ \A j \in IDs \ {i} : conn'[j] = conn[j]
      /\ conn'[i] = [k EXCEPT !.pc = "wait", !.out = << >>, !.sentCursors = Updated(@, others)]
    BY DEF ReadCursors, IDs, roomVars
<1>2. peers' = [c \in Clients |-> IF online[c] = i THEN Handled(peers[c], sent) ELSE peers[c]]
    BY DEF ReadCursors, Handled
<1>3. DOMAIN others \subseteq IDs \ {i}
    BY DEF Restrict, Shape, TypesInv
<1>4. IsFiniteSet(told) /\ told \subseteq IDs
  <2>1. told \subseteq IDs
      BY <1>3 DEF Told
  <2> HIDE DEF told
  <2> QED BY <2>1, FiniteIDs, FS_Subset
<1> HIDE DEF told, others
<1>5. MessagesOK(more, IDs)
    BY <1>4, CursorMessages
<1>6. MessagesOK(k.out, IDs) /\ DOMAIN k.sentUsers \subseteq IDs
        /\ DOMAIN k.sentCursors \subseteq IDs \ {i}
    BY DEF TypesInv, LoopOK
<1> HIDE DEF more
<1>7. MessagesOK(sent, IDs)
    BY <1>5, <1>6, MoreMessages
<1> HIDE DEF sent
<1>8. \A c \in Clients : DOMAIN peers'[c] \subseteq IDs
    BY <1>2, <1>7, PeersAreIDs DEF TypesInv
<1>9. /\ conn'[i].state = k.state /\ conn'[i].out = << >> /\ conn'[i].sentUsers = k.sentUsers
      /\ conn'[i].sentCursors = Updated(k.sentCursors, others)
  <2>1. ConnectionOK(k)
      BY DEF Shape
  <2> HIDE DEF k
  <2> QED BY <1>1, <2>1 DEF ConnectionOK, Fields
<1>10. LoopOK(i)'
  <2>1. DOMAIN conn'[i].sentCursors \subseteq IDs \ {i}
      BY <1>3, <1>6, <1>9 DEF Updated
  <2> QED BY <1>1, <1>6, <1>9, <2>1, NoMessages DEF LoopOK
<1>11. \A j \in IDs : LoopOK(j)'
    BY <1>1, <1>10 DEF TypesInv, LoopOK
<1>12. owed' \subseteq {j \in IDs' : conn'[j].state \in {"joined", "serving", "left"}}
    BY <1>1, <1>9 DEF TypesInv
<1> QED BY <1>1, <1>2, <1>8, <1>11, <1>12 DEF TypesInv

\* Every step keeps the types.
LEMMA NextTypes == Shape /\ TypesInv /\ [Next]_vars => TypesInv'
<1> SUFFICES ASSUME Shape, TypesInv, [Next]_vars PROVE TypesInv'
    OBVIOUS
<1>1. CASE \E c \in Clients : Connect(c)
    BY <1>1, ConnectTypes
<1>2. ASSUME conn' = conn, users' = users, cursors' = cursors, owed' = owed, peers' = peers,
             DOMAIN online' = Clients, \A c \in Clients : online'[c] \in {0, online[c]}
      PROVE  TypesInv'
  <2>1. IDs' = IDs /\ \A i \in IDs : LoopOK(i)'
      BY <1>2 DEF TypesInv, LoopOK, IDs
  <2> QED BY <1>2, <2>1 DEF TypesInv
<1>3. ASSUME NEW c \in Clients, Lose(c) PROVE TypesInv'
    BY <1>2, <1>3 DEF Lose, roomVars, TypesInv
<1>4. ASSUME NEW i \in IDs, Served(i) PROVE TypesInv'
    BY <1>4, JoinTypes, LeaveTypes, SetTypes, PublishTypes, TakeTypes, ReadUsersTypes,
       ReadCursorsTypes DEF Served
<1>5. CASE UNCHANGED vars
    BY <1>2, <1>5 DEF vars, roomVars, clientVars, TypesInv
<1> QED BY <1>1, <1>3, <1>4, <1>5 DEF Next

LEMMA InitTypes == Init => Shape /\ TypesInv
BY InitHolds DEF Init, TypesInv, Empty, IDs

(***************************************************************************)
(* The participants are the connections that have joined and not left, a   *)
(* caret is a participant's, and neither a write loop nor a client knows   *)
(* of anybody who has never been connected (room.go, conn.go, session.ts). *)
(***************************************************************************)
THEOREM TypeCorrect == Spec => []TypeOK
<1>1. Shape /\ TypesInv /\ [Next]_vars => (Shape /\ TypesInv)'
    BY NextShape, NextTypes
<1> QED BY InitTypes, <1>1, TypesSuffice, PTL DEF Spec
=============================================================================
