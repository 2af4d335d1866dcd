---------------------------- MODULE CollabProofs ----------------------------
(***************************************************************************)
(* The protocol is correct, for any number of clients, connections, edits  *)
(* and lost messages: no session fails, the room refuses no edit but for   *)
(* its size, every session that has read everything shows the room's text, *)
(* and sessions only move forward through the room's versions.             *)
(*                                                                         *)
(* First the types and the revisions: that no edit claims a revision the   *)
(* room has not reached.  Then the texts.  The inductive invariant says,   *)
(* for each connected client, where its outstanding operation is: on its   *)
(* way to the room, in the log beyond what the client has read, or lost    *)
(* with the connection; and that the copies of it are the same operation   *)
(* rebased along the same entries.                                         *)
(*                                                                         *)
(* Last the order of characters.  Every text of the system is a replica of *)
(* the log: it comes from one of the log's texts by operations that bring  *)
(* bytes no other replica brings, and which leave the rest in its order.   *)
(***************************************************************************)
EXTENDS CollabInv, SessionProofs

---------------------------------------------------------------------------
(* Queues.                                                                 *)

\* Where the entries of a queue move when its head is read.
LEMMA TailIndex ==
    ASSUME NEW q, IsSeq(q), q # << >>
    PROVE  /\ IsSeq(Tail(q))
           /\ Head(q) = q[1] /\ 1 \in DOMAIN q
           /\ \A i \in DOMAIN Tail(q) : /\ i \in Nat /\ i + 1 \in DOMAIN q
                                        /\ Tail(q)[i] = q[i + 1]
<1>1. Len(q) \in Nat /\ DOMAIN q = 1..Len(q)
    BY IsSeqLen
<1>2. /\ IsSeq(Tail(q))
      /\ Len(Tail(q)) = Len(q) - 1
      /\ \A i \in 1..Len(Tail(q)) : Tail(q)[i] = q[i + 1]
    BY IsSeqTail
<1>3. DOMAIN Tail(q) = 1..Len(Tail(q))
    BY <1>2, IsSeqLen
<1>4. Len(q) > 0
    BY <1>1, EmptySeq DEF IsSeq
<1>5. Head(q) = q[1]
    BY DEF IsSeq
<1> QED BY <1>1, <1>2, <1>3, <1>4, <1>5

\* Where the entries of a queue are when one is added at its end.
LEMMA AppendIndex ==
    ASSUME NEW q, IsSeq(q), NEW m
    PROVE  /\ IsSeq(Append(q, m))
           /\ \A i \in DOMAIN Append(q, m) :
                 \/ i \in DOMAIN q /\ Append(q, m)[i] = q[i]
                 \/ i = Len(q) + 1 /\ Append(q, m)[i] = m
           /\ \A i \in DOMAIN q : i \in Nat /\ i < Len(q) + 1
           /\ Len(q) \in Nat
<1>1. Len(q) \in Nat /\ DOMAIN q = 1..Len(q)
    BY IsSeqLen
<1>2. /\ IsSeq(Append(q, m))
      /\ Len(Append(q, m)) = Len(q) + 1
      /\ \A i \in 1..(Len(q) + 1) :
            Append(q, m)[i] = IF i <= Len(q) THEN q[i] ELSE m
    BY IsSeqAppend
<1>3. DOMAIN Append(q, m) = 1..(Len(q) + 1)
    BY <1>2, IsSeqLen
<1> QED BY <1>1, <1>2, <1>3

\* Reading the head of a queue.
LEMMA UpTail ==
    ASSUME NEW q, UpQueueOK(q), q # << >>
    PROVE  /\ UpQueueOK(Tail(q))
           /\ MessageUpOK(Head(q))
           /\ \A n : EditsWithin(q, n) => EditsWithin(Tail(q), n)
BY TailIndex DEF UpQueueOK, EditsWithin

\* Reading the head of a queue to a client.
LEMMA DownTail ==
    ASSUME NEW q, DownQueueOK(q), q # << >>
    PROVE  /\ DownQueueOK(Tail(q))
           /\ MessageDownOK(Head(q))
           /\ \A n : InOrder(q, n) => InOrder(Tail(q), n)
           /\ \A r : StartAfter(q, r) => StartAfter(Tail(q), r)
           /\ \A r : EndAfter(q, r) => EndAfter(Tail(q), r)
           /\ \A n : Head(q).type = "History" /\ InOrder(q, n) =>
                        End(Head(q)) <= n /\ StartAfter(Tail(q), End(Head(q)))
<1>1. IsSeq(q)
    BY DEF DownQueueOK
<1>2. /\ IsSeq(Tail(q))
      /\ Head(q) = q[1] /\ 1 \in DOMAIN q
      /\ \A i \in DOMAIN Tail(q) : /\ i \in Nat /\ i + 1 \in DOMAIN q
                                   /\ Tail(q)[i] = q[i + 1]
    BY <1>1, TailIndex
<1>3. DownQueueOK(Tail(q)) /\ MessageDownOK(Head(q))
    BY <1>2 DEF DownQueueOK
<1>4. \A i \in Histories(Tail(q)) : i + 1 \in Histories(q) /\ Tail(q)[i] = q[i + 1]
    BY <1>2 DEF Histories
<1>5. \A i, j \in Histories(Tail(q)) : i < j => i + 1 < j + 1
    BY <1>2 DEF Histories
<1>6. Head(q).type = "History" =>
          1 \in Histories(q) /\ \A i \in Histories(Tail(q)) : 1 < i + 1
  <2>1. DOMAIN Tail(q) = 1..Len(Tail(q)) /\ Len(Tail(q)) \in Nat
      BY <1>2, IsSeqLen
  <2> QED BY <1>2, <2>1 DEF Histories
<1>7. \A n : InOrder(q, n) => InOrder(Tail(q), n)
    BY <1>4, <1>5 DEF InOrder
<1>8. /\ \A r : StartAfter(q, r) => StartAfter(Tail(q), r)
      /\ \A r : EndAfter(q, r) => EndAfter(Tail(q), r)
    BY <1>4 DEF StartAfter, EndAfter
<1>9. \A n : Head(q).type = "History" /\ InOrder(q, n) =>
                End(Head(q)) <= n /\ StartAfter(Tail(q), End(Head(q)))
    BY <1>2, <1>4, <1>6 DEF InOrder, StartAfter
<1> QED BY <1>3, <1>7, <1>8, <1>9

\* A message that is no History at the end of a queue.
LEMMA DownAppend ==
    ASSUME NEW q, DownQueueOK(q), NEW m, MessageDownOK(m), m.type # "History"
    PROVE  /\ DownQueueOK(Append(q, m))
           /\ \A n : InOrder(q, n) => InOrder(Append(q, m), n)
           /\ \A r : StartAfter(q, r) => StartAfter(Append(q, m), r)
           /\ \A r : EndAfter(q, r) => EndAfter(Append(q, m), r)
<1>1. /\ IsSeq(Append(q, m))
      /\ \A i \in DOMAIN Append(q, m) :
            \/ i \in DOMAIN q /\ Append(q, m)[i] = q[i]
            \/ i = Len(q) + 1 /\ Append(q, m)[i] = m
    BY AppendIndex DEF DownQueueOK
<1>2. DownQueueOK(Append(q, m))
    BY <1>1 DEF DownQueueOK
<1>3. \A i \in Histories(Append(q, m)) : i \in Histories(q) /\ Append(q, m)[i] = q[i]
    BY <1>1 DEF Histories
<1> QED BY <1>2, <1>3 DEF InOrder, StartAfter, EndAfter

\* A History at the end of a queue.
LEMMA DownHistory ==
    ASSUME NEW q, DownQueueOK(q), NEW m, MessageDownOK(m), m.type = "History",
           NEW n \in Nat, m.start = n
    PROVE  /\ DownQueueOK(Append(q, m))
           /\ InOrder(q, n) => InOrder(Append(q, m), End(m))
           /\ \A r : StartAfter(q, r) /\ r <= n => StartAfter(Append(q, m), r)
           /\ \A r : EndAfter(q, r) /\ r <= End(m) => EndAfter(Append(q, m), r)
<1>1. /\ IsSeq(Append(q, m))
      /\ \A i \in DOMAIN Append(q, m) :
            \/ i \in DOMAIN q /\ Append(q, m)[i] = q[i]
            \/ i = Len(q) + 1 /\ Append(q, m)[i] = m
      /\ \A i \in DOMAIN q : i \in Nat /\ i < Len(q) + 1
      /\ Len(q) \in Nat
    BY AppendIndex DEF DownQueueOK
<1>2. DownQueueOK(Append(q, m))
    BY <1>1 DEF DownQueueOK
<1>3. \A i \in Histories(Append(q, m)) :
          \/ i \in Histories(q) /\ Append(q, m)[i] = q[i] /\ i < Len(q) + 1 /\ i \in Nat
          \/ i = Len(q) + 1 /\ Append(q, m)[i] = m
    BY <1>1 DEF Histories
<1>4. End(m) \in Nat /\ n <= End(m)
  <2>1. Len(m.ops) \in Nat
      BY IsSeqLen DEF MessageDownOK
  <2> QED BY <2>1 DEF End
<1>5. \A i \in Histories(q) : End(q[i]) \in Nat
  <2>1. ASSUME NEW i \in Histories(q) PROVE End(q[i]) \in Nat
    <3>1. q[i].start \in Nat /\ IsSeq(q[i].ops)
        BY DEF Histories, DownQueueOK, MessageDownOK
    <3>2. Len(q[i].ops) \in Nat
        BY <3>1, IsSeqLen
    <3> QED BY <3>1, <3>2 DEF End
  <2> QED BY <2>1
<1>6. InOrder(q, n) => InOrder(Append(q, m), End(m))
  <2> SUFFICES ASSUME InOrder(q, n) PROVE InOrder(Append(q, m), End(m))
      OBVIOUS
  <2>1. ASSUME NEW i \in Histories(q)
        PROVE  End(q[i]) <= n /\ End(q[i]) <= End(m)
    <3>1. End(q[i]) <= n
        BY DEF InOrder
    <3> QED BY <3>1, <1>4, <1>5
  <2>2. ASSUME NEW i \in Histories(Append(q, m))
        PROVE  End(Append(q, m)[i]) <= End(m)
    <3>1. CASE i \in Histories(q) /\ Append(q, m)[i] = q[i]
      <4>1. End(Append(q, m)[i]) = End(q[i])
          BY <3>1
      <4> QED BY <4>1, <2>1, <3>1
    <3>2. CASE Append(q, m)[i] = m
      <4>1. End(Append(q, m)[i]) = End(m)
          BY <3>2
      <4> QED BY <4>1, <1>4
    <3> QED BY <3>1, <3>2, <1>3
  <2>3. ASSUME NEW i \in Histories(Append(q, m)), NEW j \in Histories(Append(q, m)),
               i < j
        PROVE  End(Append(q, m)[i]) <= Append(q, m)[j].start
    <3>1. /\ i \in Histories(q) /\ Append(q, m)[i] = q[i]
      <4>1. i # Len(q) + 1
          BY <1>1, <1>3, <2>3
      <4> QED BY <4>1, <1>3
    <3>2. End(Append(q, m)[i]) = End(q[i])
        BY <3>1
    <3>3. CASE j \in Histories(q) /\ Append(q, m)[j] = q[j]
      <4>1. End(q[i]) <= q[j].start
          BY <2>3, <3>1, <3>3 DEF InOrder
      <4> QED BY <4>1, <3>2, <3>3
    <3>4. CASE Append(q, m)[j] = m
      <4>1. Append(q, m)[j].start = n
          BY <3>4
      <4> QED BY <4>1, <3>1, <3>2, <2>1
    <3> QED BY <3>3, <3>4, <1>3
  <2> QED BY <2>2, <2>3 DEF InOrder
<1>7. \A r : StartAfter(q, r) /\ r <= n => StartAfter(Append(q, m), r)
    BY <1>3 DEF StartAfter
<1>8. \A r : EndAfter(q, r) /\ r <= End(m) => EndAfter(Append(q, m), r)
    BY <1>3 DEF EndAfter
<1> QED BY <1>2, <1>6, <1>7, <1>8

\* Messages at the end of a queue to the server.
LEMMA UpConcat ==
    ASSUME NEW q, UpQueueOK(q), NEW r, UpQueueOK(r), NEW n,
           EditsWithin(q, n), EditsWithin(r, n)
    PROVE  UpQueueOK(q \o r) /\ EditsWithin(q \o r, n)
<1>1. /\ IsSeq(q) /\ Len(q) \in Nat /\ DOMAIN q = 1..Len(q)
      /\ IsSeq(r) /\ Len(r) \in Nat /\ DOMAIN r = 1..Len(r)
    BY IsSeqLen DEF UpQueueOK
<1>2. /\ IsSeq(q \o r)
      /\ Len(q \o r) = Len(q) + Len(r)
      /\ \A i \in 1..Len(q \o r) :
            (q \o r)[i] = IF i <= Len(q) THEN q[i] ELSE r[i - Len(q)]
    BY <1>1, IsSeqConcat
<1>3. DOMAIN (q \o r) = 1..Len(q \o r)
    BY <1>2, IsSeqLen
<1>4. ASSUME NEW i \in DOMAIN (q \o r)
      PROVE  \/ i \in DOMAIN q /\ (q \o r)[i] = q[i]
             \/ i - Len(q) \in DOMAIN r /\ (q \o r)[i] = r[i - Len(q)]
    BY <1>1, <1>2, <1>3
<1>5. UpQueueOK(q \o r)
    BY <1>2, <1>4 DEF UpQueueOK
<1>6. EditsWithin(q \o r, n)
    BY <1>4 DEF EditsWithin
<1> QED BY <1>5, <1>6

\* The edits a session sends.
LEMMA UpEdits ==
    ASSUME NEW m \in Nat, NEW n \in Nat, m <= n, NEW r, EditsUpTo(r, m)
    PROVE  UpQueueOK(r) /\ EditsWithin(r, n)
<1>1. IsSeq(r) /\ \A i \in DOMAIN r : r[i].type = "Edit" /\ r[i].revision \in 0..m
    BY DEF EditsUpTo
<1>2. \A i \in DOMAIN r : r[i].revision \in Nat /\ r[i].revision <= n
    BY <1>1
<1> QED BY <1>1, <1>2 DEF UpQueueOK, MessageUpOK, EditsWithin

\* The caret a session sends.
LEMMA UpCaret ==
    ASSUME NEW caret, NEW n
    PROVE  UpQueueOK(<<CursorData(caret)>>) /\ EditsWithin(<<CursorData(caret)>>, n)
<1> DEFINE m == CursorData(caret)
<1>1. IsSeq(<<m>>) /\ \A i \in DOMAIN <<m>> : <<m>>[i] = m
    BY IsSeqOne
<1>2. m.type = "CursorData"
    BY DEF CursorData
<1> QED BY <1>1, <1>2 DEF UpQueueOK, MessageUpOK, EditsWithin

---------------------------------------------------------------------------
(* Queues and sessions.                                                    *)

\* A session whose queue is cut at the front, or lengthened at the end by what
\* the session need not wait for.
LEMMA InStepQueue ==
    ASSUME NEW s, NEW q, NEW n, InStep(s, q, n), NEW p,
           StartAfter(q, s.revision) => StartAfter(p, s.revision),
           EndAfter(q, s.revision) => EndAfter(p, s.revision)
    PROVE  InStep(s, p, n)
BY DEF InStep

\* At revision 0 any queue will do.
LEMMA InStepZero ==
    ASSUME NEW s, s.revision = 0, NEW q, DownQueueOK(q), NEW n \in Nat
    PROVE  InStep(s, q, n)
<1>1. ASSUME NEW i \in Histories(q) PROVE 0 <= q[i].start /\ 0 <= End(q[i])
  <2>1. q[i].start \in Nat /\ IsSeq(q[i].ops)
      BY DEF Histories, DownQueueOK, MessageDownOK
  <2>2. Len(q[i].ops) \in Nat
      BY <2>1, IsSeqLen
  <2>3. End(q[i]) \in Nat
      BY <2>1, <2>2 DEF End
  <2> QED BY <2>1, <2>3
<1> QED BY <1>1 DEF InStep, StartAfter, EndAfter

\* The connection of a connected client, and the next one.
LEMMA Connections ==
    ASSUME TypeOK, NEW c \in Clients
    PROVE  /\ sess[c].connected => Current(c) \in Conns
           /\ episode[c] < MaxEpisodes[c] => <<c, episode[c] + 1>> \in Conns
<1>1. episode[c] \in Nat /\ MaxEpisodes[c] \in Nat /\ episode[c] <= MaxEpisodes[c]
    BY CollabAssumption DEF TypeOK
<1>2. \A e \in 1..MaxEpisodes[c] : <<c, e>> \in Conns
    BY DEF Conns
<1>3. sess[c].connected => episode[c] > 0
    BY DEF TypeOK
<1> QED BY <1>1, <1>2, <1>3 DEF Current

---------------------------------------------------------------------------
(* The server's steps.                                                     *)

\* Ending a connection: whatever is left in its queues is harmless.
LEMMA HangupOK ==
    ASSUME IInv, NEW k \in Conns, NEW code, Hangup(k, code)
    PROVE  IInv'
<1> DEFINE q == down'[k]
<1>1. /\ DownQueueOK(q)
      /\ \A n : InOrder(down[k], n) => InOrder(q, n)
      /\ \A r : StartAfter(down[k], r) => StartAfter(q, r)
      /\ \A r : EndAfter(down[k], r) => EndAfter(q, r)
  <2>1. DownQueueOK(down[k])
      BY DEF IInv, TypeOK
  <2>2. q = Append(down[k], Close(code)) \/ q = << >>
      BY DEF Hangup, IInv, TypeOK
  <2>3. MessageDownOK(Close(code)) /\ Close(code).type # "History"
      BY DEF MessageDownOK, Close
  <2>4. CASE q = Append(down[k], Close(code))
      BY <2>1, <2>3, <2>4, DownAppend
  <2>5. CASE q = << >>
    <3>1. IsSeq(q) /\ DOMAIN q = {}
        BY <2>5, IsSeqEmpty
    <3>2. Histories(q) = {}
        BY <3>1 DEF Histories
    <3> HIDE DEF q
    <3> QED BY <3>1, <3>2 DEF DownQueueOK, InOrder, StartAfter, EndAfter
  <2> QED BY <2>2, <2>4, <2>5
<1>2. UpQueueOK(<< >>) /\ \A n : EditsWithin(<< >>, n)
    BY IsSeqEmpty DEF UpQueueOK, EditsWithin
<1>3. /\ \A j \in Conns : j # k => up'[j] = up[j] /\ down'[j] = down[j]
      /\ up'[k] = << >>
      /\ DOMAIN up' = Conns /\ DOMAIN down' = Conns /\ DOMAIN cursors' = Conns
      /\ link' \in [Conns -> {"none", "open", "lost", "closing", "closed"}]
      /\ UNCHANGED <<docText, ops, nextID, id, sent, greeted,
                     sess, episode, stopped, edits, moves>>
    BY DEF Hangup, IInv, TypeOK, clientVars
<1>4. TypeOK'
  <2>1. \A j \in Conns : UpQueueOK(up'[j]) /\ DownQueueOK(down'[j])
      BY <1>1, <1>2, <1>3 DEF IInv, TypeOK
  <2> QED BY <1>3, <2>1 DEF IInv, TypeOK
<1>5. HistoriesInOrder'
    BY <1>1, <1>3 DEF IInv, HistoriesInOrder
<1>6. RevisionsInOrder'
  <2>1. ASSUME NEW c \in Clients
        PROVE  InStep(sess[c], down'[Current(c)], sent[Current(c)])
    <3>1. InStep(sess[c], down[Current(c)], sent[Current(c)])
        BY DEF IInv, RevisionsInOrder
    <3>2. CASE Current(c) = k
        BY <1>1, <3>1, <3>2, InStepQueue
    <3>3. CASE Current(c) # k /\ Current(c) \in Conns
        BY <1>3, <3>1, <3>3
    <3>4. CASE Current(c) \notin Conns
      <4>1. ~sess[c].connected /\ ~sess[c].baselined
          BY <3>4, Connections DEF IInv, TypeOK, SessionOK
      <4> QED BY <3>1, <4>1 DEF InStep
    <3> QED BY <3>2, <3>3, <3>4
  <2>2. \A c \in Clients : Current(c)' = Current(c)
      BY <1>3 DEF Current
  <2> QED BY <1>3, <2>1, <2>2 DEF IInv, RevisionsInOrder
<1>7. UpInRange'
    BY <1>2, <1>3 DEF IInv, UpInRange
<1> QED BY <1>4, <1>5, <1>6, <1>7 DEF IInv

\* Reading an edit: the log only grows.
LEMMA AcceptEditOK ==
    ASSUME IInv, NEW k \in Conns, AcceptEdit(k)
    PROVE  IInv'
<1> DEFINE n == Len(ops)
           op == Rebased(Head(up[k])).op
<1>1. IsSeq(ops) /\ ops' = Append(ops, Entry(id[k], op))
    BY DEF AcceptEdit, IInv, TypeOK
<1>2. n \in Nat /\ IsSeq(ops') /\ Len(ops') = n + 1
    BY <1>1, IsSeqLen, IsSeqAppend
<1>3. /\ up' = [up EXCEPT ![k] = Tail(@)]
      /\ up[k] # << >>
      /\ DOMAIN cursors' = Conns
      /\ UNCHANGED <<nextID, link, id, sent, greeted, down,
                     sess, episode, stopped, edits, moves>>
    BY DEF AcceptEdit, linkVars, clientVars
<1>4. \A j \in Conns : UpQueueOK(up'[j]) /\ EditsWithin(up'[j], n)
    BY <1>3, UpTail DEF IInv, TypeOK, UpInRange
<1>5. TypeOK'
    BY <1>2, <1>3, <1>4 DEF IInv, TypeOK
<1>6. HistoriesInOrder'
  <2>1. \A j \in Conns : sent[j] <= n + 1
    <3>1. \A j \in Conns : sent[j] \in Nat /\ sent[j] <= n
        BY DEF IInv, TypeOK, HistoriesInOrder
    <3> QED BY <3>1, <1>2
  <2> QED BY <1>2, <1>3, <2>1 DEF IInv, HistoriesInOrder
<1>7. RevisionsInOrder'
  <2>1. \A c \in Clients : sess[c].revision <= n + 1
    <3>1. \A c \in Clients : sess[c].revision \in Nat /\ sess[c].revision <= n
        BY DEF IInv, TypeOK, SessionOK, RevisionsInOrder
    <3> QED BY <3>1, <1>2
  <2>2. \A c \in Clients : Current(c)' = Current(c)
      BY <1>3 DEF Current
  <2> QED BY <1>2, <1>3, <2>1, <2>2 DEF IInv, RevisionsInOrder
<1>8. UpInRange'
  <2>1. ASSUME NEW j \in Conns PROVE EditsWithin(up'[j], n + 1)
    <3>1. \A i \in DOMAIN up'[j] : up'[j][i].type = "Edit" =>
              up'[j][i].revision \in Nat /\ up'[j][i].revision <= n
        BY <1>4 DEF UpQueueOK, MessageUpOK, EditsWithin
    <3> QED BY <3>1, <1>2 DEF EditsWithin
  <2> QED BY <1>2, <2>1 DEF UpInRange
<1> QED BY <1>5, <1>6, <1>7, <1>8 DEF IInv

\* Reading a caret.
LEMMA SetCursorOK ==
    ASSUME IInv, NEW k \in Conns, SetCursor(k)
    PROVE  IInv'
<1>1. /\ up' = [up EXCEPT ![k] = Tail(@)]
      /\ up[k] # << >>
      /\ DOMAIN cursors' = Conns
      /\ UNCHANGED <<ops, nextID, link, id, sent, greeted, down,
                     sess, episode, stopped, edits, moves>>
    BY DEF SetCursor, linkVars, clientVars, IInv, TypeOK
<1>2. \A j \in Conns : UpQueueOK(up'[j]) /\ EditsWithin(up'[j], Len(ops))
    BY <1>1, UpTail DEF IInv, TypeOK, UpInRange
<1>3. \A c \in Clients : Current(c)' = Current(c)
    BY <1>1 DEF Current
<1>4. TypeOK'
    BY <1>1, <1>2 DEF IInv, TypeOK
<1>5. HistoriesInOrder' /\ RevisionsInOrder' /\ UpInRange'
    BY <1>1, <1>2, <1>3 DEF IInv, HistoriesInOrder, RevisionsInOrder, UpInRange
<1> QED BY <1>4, <1>5 DEF IInv

\* Sending what the log has gained: the History starts where the last one ended.
LEMMA PushOK ==
    ASSUME IInv, NEW k \in Conns, Push(k)
    PROVE  IInv'
<1> DEFINE n == Len(ops)
           new == SubSeq(ops, sent[k] + 1, Len(ops))
           m == History(sent[k], new)
           q == Append(down[k], m)
<1>1. /\ down' = [down EXCEPT ![k] = q]
      /\ sent' = [sent EXCEPT ![k] = n]
      /\ greeted' = [greeted EXCEPT ![k] = TRUE]
      /\ UNCHANGED <<docText, ops, nextID, cursors, link, id, up,
                     sess, episode, stopped, edits, moves>>
    BY DEF Push, roomVars, clientVars, IInv, TypeOK
<1>2. IsSeq(ops) /\ n \in Nat /\ sent[k] \in Nat /\ sent[k] <= n
    BY IsSeqLen DEF IInv, TypeOK, HistoriesInOrder
<1>3. IsSeq(new) /\ Len(new) = n - sent[k]
  <2>1. sent[k] + 1 \in Nat \ {0} /\ n \in 0..n
      BY <1>2
  <2>2. IsSeq(new) /\ Len(new) = IF sent[k] + 1 <= n THEN n - (sent[k] + 1) + 1 ELSE 0
      BY <1>2, <2>1, IsSeqSubSeq
  <2> HIDE DEF n, new
  <2> QED BY <1>2, <2>2
<1> HIDE DEF n, new
<1>4. /\ m.type = "History" /\ m.start = sent[k] /\ m.ops = new
      /\ MessageDownOK(m) /\ End(m) = n
    BY <1>2, <1>3 DEF History, MessageDownOK, End
<1>5. DownQueueOK(down[k]) /\ InOrder(down[k], sent[k])
    BY DEF IInv, TypeOK, HistoriesInOrder
<1> HIDE DEF m
<1>6. /\ DownQueueOK(q)
      /\ InOrder(q, n)
      /\ \A r : StartAfter(down[k], r) /\ r <= sent[k] => StartAfter(q, r)
      /\ \A r : EndAfter(down[k], r) /\ r <= n => EndAfter(q, r)
    BY <1>2, <1>4, <1>5, DownHistory
<1> HIDE DEF q
<1>7. TypeOK'
    BY <1>1, <1>2, <1>6 DEF IInv, TypeOK
<1>8. HistoriesInOrder'
    BY <1>1, <1>2, <1>6 DEF n, IInv, TypeOK, HistoriesInOrder
<1>9. RevisionsInOrder'
  <2>1. ASSUME NEW c \in Clients
        PROVE  InStep(sess[c], down'[Current(c)], sent'[Current(c)])
    <3>1. /\ InStep(sess[c], down[Current(c)], sent[Current(c)])
          /\ sess[c].revision \in Nat /\ sess[c].revision <= n
        BY DEF n, IInv, TypeOK, SessionOK, RevisionsInOrder
    <3>2. CASE Current(c) = k
      <4>1. down'[k] = q /\ sent'[k] = n
          BY <1>1 DEF IInv, TypeOK
      <4> QED BY <1>2, <1>6, <3>1, <3>2, <4>1 DEF InStep
    <3>3. CASE Current(c) # k
      <4>1. Current(c) \in Conns => down'[Current(c)] = down[Current(c)]
                                    /\ sent'[Current(c)] = sent[Current(c)]
          BY <1>1, <3>3 DEF IInv, TypeOK
      <4>2. Current(c) \notin Conns => ~sess[c].connected /\ ~sess[c].baselined
          BY Connections DEF IInv, TypeOK, SessionOK
      <4> QED BY <3>1, <4>1, <4>2 DEF InStep
    <3> QED BY <3>2, <3>3
  <2>2. \A c \in Clients : Current(c)' = Current(c)
      BY <1>1 DEF Current
  <2> QED BY <1>1, <2>1, <2>2 DEF IInv, RevisionsInOrder
<1>10. UpInRange'
    BY <1>1 DEF IInv, UpInRange
<1> QED BY <1>7, <1>8, <1>9, <1>10 DEF IInv

---------------------------------------------------------------------------
(* The clients' steps.                                                     *)

\* A client's step: what it must do to its session and its connection's
\* queues to keep the invariant.
LEMMA ClientStepOK ==
    ASSUME IInv, NEW c \in Clients, NEW s,
           sess' = [sess EXCEPT ![c] = s],
           UNCHANGED <<ops, nextID, cursors, id, sent, greeted, episode>>,
           link' \in [Conns -> {"none", "open", "lost", "closing", "closed"}],
           stopped' \in [Clients -> BOOLEAN],
           edits' \in [Clients -> Nat],
           moves' \in [Clients -> Nat],
           SessionOK(s),
           s.connected => sess[c].connected,
           s.revision <= Len(ops),
           DOMAIN up' = Conns, DOMAIN down' = Conns,
           \A k \in Conns : UpQueueOK(up'[k]) /\ EditsWithin(up'[k], Len(ops)),
           \A k \in Conns : DownQueueOK(down'[k]) /\ InOrder(down'[k], sent[k]),
           \A k \in Conns : k # Current(c) => down'[k] = down[k],
           InStep(s, down'[Current(c)], sent[Current(c)])
    PROVE  IInv'
<1>1. /\ DOMAIN sess' = Clients
      /\ sess'[c] = s
      /\ \A d \in Clients : d # c => sess'[d] = sess[d]
    BY DEF IInv, TypeOK
<1>2. TypeOK'
  <2>1. \A d \in Clients : SessionOK(sess'[d])
      BY <1>1 DEF IInv, TypeOK
  <2>2. \A d \in Clients : /\ episode[d] <= MaxEpisodes[d]
                           /\ sess'[d].connected => episode[d] > 0
      BY <1>1 DEF IInv, TypeOK
  <2> QED BY <1>1, <2>1, <2>2 DEF IInv, TypeOK
<1>3. HistoriesInOrder'
    BY DEF IInv, HistoriesInOrder
<1>4. \A d \in Clients : Current(d)' = Current(d)
    BY DEF Current
<1>5. RevisionsInOrder'
  <2>1. ASSUME NEW d \in Clients
        PROVE  InStep(sess'[d], down'[Current(d)], sent[Current(d)])
    <3>1. CASE d = c
        BY <1>1, <3>1
    <3>2. CASE d # c
      <4>1. Current(d) # Current(c)
          BY <3>2 DEF Current
      <4>2. InStep(sess[d], down[Current(d)], sent[Current(d)])
          BY DEF IInv, RevisionsInOrder
      <4>3. Current(d) \notin Conns => ~sess[d].connected /\ ~sess[d].baselined
          BY Connections DEF IInv, TypeOK, SessionOK
      <4> QED BY <1>1, <3>2, <4>1, <4>2, <4>3 DEF InStep
    <3> QED BY <3>1, <3>2
  <2>2. \A d \in Clients : sess'[d].revision <= Len(ops)
      BY <1>1 DEF IInv, RevisionsInOrder
  <2> QED BY <1>4, <2>1, <2>2 DEF RevisionsInOrder
<1>6. UpInRange'
    BY DEF UpInRange
<1> QED BY <1>2, <1>3, <1>5, <1>6 DEF IInv

\* The connection breaks.
LEMMA LoseOK ==
    ASSUME IInv, NEW c \in Clients, Lose(c)
    PROVE  IInv'
<1> DEFINE k == Current(c)
           s == HandleStatus(sess[c], FALSE)
<1>1. /\ sess' = [sess EXCEPT ![c] = s]
      /\ down' = [down EXCEPT ![k] = << >>]
      /\ link' \in [Conns -> {"none", "open", "lost", "closing", "closed"}]
      /\ UNCHANGED <<docText, ops, nextID, cursors, id, sent, greeted, up,
                     episode, stopped, edits, moves>>
    BY DEF Lose, roomVars, IInv, TypeOK
<1>2. SessionOK(sess[c]) /\ sess[c].connected
    BY DEF Lose, IInv, TypeOK
<1>3. /\ SessionOK(s) /\ s.revision = sess[c].revision
      /\ ~s.connected /\ ~s.baselined /\ s.everBaselined = sess[c].everBaselined
    BY <1>2, HandleStatusOK
<1> HIDE DEF s
<1>4. DownQueueOK(<< >>) /\ \A n : InOrder(<< >>, n)
    BY IsSeqEmpty DEF DownQueueOK, InOrder, Histories
<1>5. \A j \in Conns : DownQueueOK(down'[j]) /\ InOrder(down'[j], sent[j])
    BY <1>1, <1>4 DEF IInv, TypeOK, HistoriesInOrder
<1>6. \A j \in Conns : UpQueueOK(up'[j]) /\ EditsWithin(up'[j], Len(ops))
    BY <1>1 DEF IInv, TypeOK, UpInRange
<1>7. InStep(s, down'[k], sent[k])
    BY <1>3 DEF InStep, IInv, RevisionsInOrder
<1>8. s.revision <= Len(ops)
    BY <1>3 DEF IInv, RevisionsInOrder
<1> QED BY <1>1, <1>3, <1>5, <1>6, <1>7, <1>8, ClientStepOK DEF IInv, TypeOK

\* The three kinds of message: what Incoming leaves of the queue.
LEMMA IncomingOK ==
    ASSUME IInv, NEW c \in Clients, NEW type, Incoming(c, type)
    PROVE  /\ SessionOK(sess[c]) /\ sess[c].connected
           /\ Current(c) \in Conns
           /\ DOMAIN down' = Conns
           /\ \A k \in Conns : k # Current(c) => down'[k] = down[k]
           /\ down'[Current(c)] = Tail(down[Current(c)])
           /\ down[Current(c)] # << >>
           /\ \A k \in Conns : DownQueueOK(down'[k]) /\ InOrder(down'[k], sent[k])
           /\ InStep(sess[c], down'[Current(c)], sent[Current(c)])
           /\ Head(down[Current(c)]).type = type
           /\ MessageDownOK(Head(down[Current(c)]))
<1> DEFINE k == Current(c)
<1>1. /\ SessionOK(sess[c]) /\ sess[c].connected
      /\ k \in Conns
      /\ DOMAIN down' = Conns
      /\ \A j \in Conns : j # k => down'[j] = down[j]
      /\ down'[k] = Tail(down[k])
      /\ down[k] # << >>
      /\ DownQueueOK(down[k])
      /\ Head(down[k]).type = type
    BY Connections DEF Incoming, IInv, TypeOK
<1> HIDE DEF k
<1>2. /\ DownQueueOK(Tail(down[k]))
      /\ MessageDownOK(Head(down[k]))
      /\ \A n : InOrder(down[k], n) => InOrder(Tail(down[k]), n)
      /\ \A r : StartAfter(down[k], r) => StartAfter(Tail(down[k]), r)
      /\ \A r : EndAfter(down[k], r) => EndAfter(Tail(down[k]), r)
    BY <1>1, DownTail
<1>3. \A j \in Conns : DownQueueOK(down'[j]) /\ InOrder(down'[j], sent[j])
    BY <1>1, <1>2 DEF IInv, TypeOK, HistoriesInOrder
<1>4. InStep(sess[c], down[k], sent[k])
    BY DEF k, IInv, RevisionsInOrder
<1>5. InStep(sess[c], down'[k], sent[k])
    BY <1>1, <1>2, <1>4, InStepQueue
<1> QED BY <1>1, <1>2, <1>3, <1>5 DEF k

\* Reading an Identity.
LEMMA ReceiveIdentityOK ==
    ASSUME IInv, NEW c \in Clients, ReceiveIdentity(c)
    PROVE  IInv'
<1> DEFINE k == Current(c)
           s == HandleIdentity(sess[c], Head(down[k]).user)
<1>1. Incoming(c, "Identity")
    BY DEF ReceiveIdentity
<1>2. /\ SessionOK(sess[c]) /\ sess[c].connected
      /\ DOMAIN down' = Conns
      /\ \A j \in Conns : j # k => down'[j] = down[j]
      /\ \A j \in Conns : DownQueueOK(down'[j]) /\ InOrder(down'[j], sent[j])
      /\ InStep(sess[c], down'[k], sent[k])
      /\ Head(down[k]).user \in Nat
    BY <1>1, IncomingOK DEF MessageDownOK
<1>3. Like(sess[c], s) /\ s.revision = sess[c].revision
    BY <1>2, HandleIdentityOK
<1>4. /\ sess' = [sess EXCEPT ![c] = s]
      /\ UNCHANGED <<docText, ops, nextID, cursors, link, id, sent, greeted, up,
                     episode, stopped, edits, moves>>
    BY DEF ReceiveIdentity, roomVars, linkVars
<1> HIDE DEF s
<1>5. InStep(s, down'[k], sent[k])
    BY <1>2, <1>3 DEF InStep, Like
<1>6. \A j \in Conns : UpQueueOK(up'[j]) /\ EditsWithin(up'[j], Len(ops))
    BY <1>4 DEF IInv, TypeOK, UpInRange
<1>7. s.revision <= Len(ops)
    BY <1>3 DEF IInv, RevisionsInOrder
<1> QED BY <1>2, <1>3, <1>4, <1>5, <1>6, <1>7, ClientStepOK DEF Like, IInv, TypeOK

\* Reading the server's close: the session is disconnected.
LEMMA ReceiveCloseOK ==
    ASSUME IInv, NEW c \in Clients, ReceiveClose(c)
    PROVE  IInv'
<1> DEFINE k == Current(c)
           s == HandleStatus(sess[c], FALSE)
<1>1. Incoming(c, "Close")
    BY DEF ReceiveClose
<1>2. /\ SessionOK(sess[c]) /\ sess[c].connected
      /\ DOMAIN down' = Conns
      /\ \A j \in Conns : j # k => down'[j] = down[j]
      /\ \A j \in Conns : DownQueueOK(down'[j]) /\ InOrder(down'[j], sent[j])
      /\ InStep(sess[c], down'[k], sent[k])
    BY <1>1, IncomingOK
<1>3. /\ SessionOK(s) /\ s.revision = sess[c].revision
      /\ ~s.connected /\ ~s.baselined /\ s.everBaselined = sess[c].everBaselined
    BY <1>2, HandleStatusOK
<1>4. /\ sess' = [sess EXCEPT ![c] = s]
      /\ stopped' \in [Clients -> BOOLEAN]
      /\ link' \in [Conns -> {"none", "open", "lost", "closing", "closed"}]
      /\ UNCHANGED <<docText, ops, nextID, cursors, id, sent, greeted, up,
                     episode, edits, moves>>
    BY DEF ReceiveClose, roomVars, IInv, TypeOK
<1> HIDE DEF s
<1>5. InStep(s, down'[k], sent[k])
    BY <1>2, <1>3 DEF InStep
<1>6. \A j \in Conns : UpQueueOK(up'[j]) /\ EditsWithin(up'[j], Len(ops))
    BY <1>4 DEF IInv, TypeOK, UpInRange
<1>7. s.revision <= Len(ops)
    BY <1>3 DEF IInv, RevisionsInOrder
<1> QED BY <1>2, <1>3, <1>4, <1>5, <1>6, <1>7, ClientStepOK DEF IInv, TypeOK

\* What a session sends ends up in its connection's queue, or nowhere.
LEMMA SendOK ==
    ASSUME IInv, NEW c \in Clients, NEW messages, Send(Current(c), messages),
           UpQueueOK(messages), EditsWithin(messages, Len(ops))
    PROVE  /\ DOMAIN up' = Conns
           /\ \A k \in Conns : UpQueueOK(up'[k]) /\ EditsWithin(up'[k], Len(ops))
<1> DEFINE k == Current(c)
<1>1. DOMAIN up' = Conns
    BY DEF Send, IInv, TypeOK
<1>2. \A j \in Conns : UpQueueOK(up[j]) /\ EditsWithin(up[j], Len(ops))
    BY DEF IInv, TypeOK, UpInRange
<1>3. \A j \in Conns : \/ up'[j] = up[j]
                       \/ up'[j] = up[j] \o messages
    BY DEF Send, IInv, TypeOK
<1> QED BY <1>1, <1>2, <1>3, UpConcat

\* Reading n entries, starting no later than they do, ends no later.
LEMMA ReadOn ==
    ASSUME NEW r \in Nat, NEW start \in Nat, NEW n \in Nat, r <= start,
           NEW end, end = start + n, NEW t \in r..(r + n)
    PROVE  t \in Nat /\ t <= end
OBVIOUS

\* Not after what is not after.
LEMMA NotAfter ==
    ASSUME NEW a \in Nat, NEW b \in Nat, NEW c \in Nat, a <= b, b <= c
    PROVE  a <= c
OBVIOUS

\* Reading a History takes a session to the end of it at most.
LEMMA ReceiveHistoryOK ==
    ASSUME IInv, NEW c \in Clients, ReceiveHistory(c)
    PROVE  IInv'
<1> DEFINE k == Current(c)
           m == Head(down[k])
           old == sess[c]
           r == HandleHistory(old, m.start, m.ops)
           s == r.s
           rest == Tail(down[k])
           n == Len(ops)
<1>1. Incoming(c, "History")
    BY DEF ReceiveHistory
<1>2. /\ SessionOK(old) /\ old.connected
      /\ k \in Conns
      /\ DOMAIN down' = Conns
      /\ \A j \in Conns : j # k => down'[j] = down[j]
      /\ down'[k] = rest
      /\ down[k] # << >>
      /\ \A j \in Conns : DownQueueOK(down'[j]) /\ InOrder(down'[j], sent[j])
      /\ m.type = "History" /\ m.start \in Nat /\ IsSeq(m.ops)
    BY <1>1, IncomingOK DEF MessageDownOK
<1>3. /\ sess' = [sess EXCEPT ![c] = s]
      /\ Send(k, r.sent)
      /\ UNCHANGED <<docText, ops, nextID, cursors, link, id, sent, greeted,
                     episode, stopped, edits, moves>>
    BY DEF ReceiveHistory, roomVars, linkVars
<1>4. /\ ~old.baselined => Establishes(old, r, m.start + Len(m.ops))
      /\ old.baselined => Result(old, r, Len(m.ops))
    BY <1>2, HandleHistoryOK
<1>5. /\ InStep(old, down[k], sent[k])
      /\ old.revision \in Nat
    BY <1>2, PendingCases DEF IInv, RevisionsInOrder
<1>6. /\ End(m) = m.start + Len(m.ops) /\ End(m) \in Nat
      /\ Len(m.ops) \in Nat
    BY <1>2, IsSeqLen DEF End
<1>7. End(m) <= sent[k] /\ StartAfter(rest, End(m))
  <2>1. DownQueueOK(down[k]) /\ InOrder(down[k], sent[k])
      BY <1>2 DEF IInv, TypeOK, HistoriesInOrder
  <2> QED BY <1>2, <2>1, DownTail
<1>8. 1 \in Histories(down[k]) /\ down[k][1] = m
  <2>1. IsSeq(down[k])
      BY <1>2 DEF IInv, TypeOK, DownQueueOK
  <2> QED BY <1>2, <2>1, TailIndex DEF Histories
<1> HIDE DEF r
<1>9. /\ SessionOK(s) /\ s.connected /\ s.baselined
      /\ s.revision \in Nat /\ s.revision <= End(m)
      /\ EditsUpTo(r.sent, s.revision)
  <2>1. CASE old.baselined
    <3>1. old.revision <= m.start
        BY <1>5, <1>8, <2>1 DEF InStep, StartAfter
    <3>2. Advances(old, s, r.sent, Len(m.ops))
        BY <1>4, <2>1 DEF Result
    <3>3. s.revision \in old.revision..(old.revision + Len(m.ops))
        BY <3>2 DEF Advances
    <3>4. s.revision \in Nat /\ s.revision <= End(m)
      <4>1. m.start \in Nat /\ old.revision \in Nat
          BY <1>2, <1>5
      <4> QED BY <1>6, <3>1, <3>3, <4>1, ReadOn
    <3> QED BY <1>2, <2>1, <3>2, <3>4 DEF Advances
  <2>2. CASE ~old.baselined
    <3>1. old.revision <= End(m)
        BY <1>2, <1>5, <1>8, <2>2 DEF InStep, EndAfter
    <3>2. /\ SessionOK(s) /\ s.connected /\ s.baselined
          /\ s.revision <= End(m)
          /\ EditsUpTo(r.sent, s.revision)
        BY <1>4, <1>6, <2>2, <3>1 DEF Establishes
    <3>3. s.revision \in Nat
        BY <3>2, PendingCases
    <3> QED BY <3>2, <3>3
  <2> QED BY <2>1, <2>2
<1> HIDE DEF s
<1>10. sent[k] \in Nat /\ sent[k] <= n /\ n \in Nat
    BY <1>2, IsSeqLen DEF IInv, TypeOK, HistoriesInOrder
<1> HIDE DEF n
<1>11. s.revision <= n /\ s.revision <= sent[k]
    BY <1>6, <1>7, <1>9, <1>10
<1>12. StartAfter(rest, s.revision)
  <2>1. ASSUME NEW i \in Histories(rest) PROVE s.revision <= rest[i].start
    <3>1. End(m) <= rest[i].start
        BY <1>7 DEF StartAfter
    <3>2. rest[i].start \in Nat
        BY <1>2 DEF Histories, DownQueueOK, MessageDownOK
    <3>3. s.revision \in Nat /\ s.revision <= End(m) /\ End(m) \in Nat
        BY <1>6, <1>9
    <3> QED BY <3>1, <3>2, <3>3, NotAfter
  <2> QED BY <2>1 DEF StartAfter
<1>13. InStep(s, down'[k], sent[k])
    BY <1>2, <1>9, <1>11, <1>12 DEF InStep, SessionOK
<1>14. UpQueueOK(r.sent) /\ EditsWithin(r.sent, n)
    BY <1>9, <1>10, <1>11, UpEdits
<1>15. /\ DOMAIN up' = Conns
       /\ \A j \in Conns : UpQueueOK(up'[j]) /\ EditsWithin(up'[j], Len(ops))
    BY <1>3, <1>14, SendOK DEF n
<1> QED
    BY <1>2, <1>3, <1>9, <1>11, <1>13, <1>15, ClientStepOK DEF n, IInv, TypeOK

\* A local edit: what it sends is within the revision the session has.
LEMMA EditLocallyOK ==
    ASSUME IInv, NEW c \in Clients, EditLocally(c)
    PROVE  IInv'
<1> DEFINE k == Current(c)
           old == sess[c]
           n == Len(ops)
<1>1. PICK op : LET r == ApplyLocalChange(old, op)
                IN  /\ sess' = [sess EXCEPT ![c] = r.s]
                    /\ IF old.connected THEN Send(k, r.sent) ELSE UNCHANGED up
    BY DEF EditLocally
<1> DEFINE r == ApplyLocalChange(old, op)
           s == r.s
<1>2. /\ sess' = [sess EXCEPT ![c] = s]
      /\ IF old.connected THEN Send(k, r.sent) ELSE UNCHANGED up
    BY <1>1
<1>3. /\ edits' \in [Clients -> Nat]
      /\ UNCHANGED <<docText, ops, nextID, cursors, link, id, sent, greeted, down,
                     episode, stopped, moves>>
  <2>1. edits \in [Clients -> Nat]
      BY DEF IInv, TypeOK
  <2>2. edits' = [edits EXCEPT ![c] = edits[c] + 1]
      BY DEF EditLocally
  <2> QED BY <2>1, <2>2 DEF EditLocally, roomVars, linkVars
<1>4. SessionOK(old) /\ old.revision \in Nat /\ old.revision <= n /\ n \in Nat
    BY PendingCases, IsSeqLen DEF IInv, TypeOK, RevisionsInOrder
<1>5. /\ SessionOK(s)
      /\ s.revision = old.revision
      /\ s.connected = old.connected
      /\ EditsUpTo(r.sent, old.revision)
      /\ old.everBaselined => s.everBaselined /\ s.baselined = old.baselined
    BY <1>4, ApplyLocalChangeOK
<1> HIDE DEF r, s
<1>6. UpQueueOK(r.sent) /\ EditsWithin(r.sent, n)
    BY <1>4, <1>5, UpEdits
<1>7. /\ DOMAIN up' = Conns
      /\ \A j \in Conns : UpQueueOK(up'[j]) /\ EditsWithin(up'[j], n)
    BY <1>2, <1>3, <1>6, SendOK DEF IInv, TypeOK, UpInRange
<1>8. InStep(old, down[k], sent[k])
    BY DEF IInv, RevisionsInOrder
<1>9. InStep(s, down[k], sent[k])
  <2>1. CASE old.everBaselined
      BY <1>5, <1>8, <2>1 DEF InStep
  <2>2. CASE ~old.everBaselined /\ s.connected
    <3>1. s.revision = 0
        BY <1>5, <1>8, <2>2 DEF InStep
    <3>2. DownQueueOK(down[k]) /\ sent[k] \in Nat
        BY <1>5, <2>2, Connections DEF IInv, TypeOK
    <3> QED BY <3>1, <3>2, InStepZero
  <2>3. CASE ~old.everBaselined /\ ~s.connected
      BY <1>5, <1>8, <2>3 DEF InStep, SessionOK
  <2> QED BY <2>1, <2>2, <2>3
<1>10. \A j \in Conns : DownQueueOK(down'[j]) /\ InOrder(down'[j], sent[j])
    BY <1>3 DEF IInv, TypeOK, HistoriesInOrder
<1> QED BY <1>3, <1>2, <1>4, <1>5, <1>7, <1>9, <1>10, ClientStepOK DEF IInv, TypeOK

\* A caret moves, and is sent when the session is connected.
LEMMA MoveCaretOK ==
    ASSUME IInv, NEW c \in Clients, MoveCaret(c)
    PROVE  IInv'
<1> DEFINE k == Current(c)
           old == sess[c]
           n == Len(ops)
<1>1. PICK p : /\ sess' = [sess EXCEPT ![c].caret = <<p>>]
               /\ IF old.connected THEN Send(k, <<CursorData(<<p>>)>>)
                                   ELSE UNCHANGED up
    BY DEF MoveCaret
<1> DEFINE caret == <<p>>
           s == [old EXCEPT !.caret = caret]
<1> HIDE DEF caret
<1>2. sess' = [sess EXCEPT ![c] = s]
    BY <1>1 DEF caret
<1>3. /\ moves' \in [Clients -> Nat]
      /\ UNCHANGED <<docText, ops, nextID, cursors, link, id, sent, greeted, down,
                     episode, stopped, edits>>
  <2>1. moves \in [Clients -> Nat]
      BY DEF IInv, TypeOK
  <2>2. moves' = [moves EXCEPT ![c] = moves[c] + 1]
      BY DEF MoveCaret
  <2> QED BY <2>1, <2>2 DEF MoveCaret, roomVars, linkVars
<1>4. SessionOK(old) /\ old.revision <= n
    BY DEF IInv, TypeOK, RevisionsInOrder
<1>5. Like(old, s) /\ s.revision = old.revision
    BY <1>4 DEF SessionOK, Like
<1> HIDE DEF s
<1>6. /\ DOMAIN up' = Conns
      /\ \A j \in Conns : UpQueueOK(up'[j]) /\ EditsWithin(up'[j], n)
  <2>1. CASE old.connected
      BY <1>1, <2>1, UpCaret, SendOK
  <2>2. CASE ~old.connected
      BY <1>1, <2>2 DEF IInv, TypeOK, UpInRange
  <2> QED BY <2>1, <2>2
<1>7. InStep(s, down[k], sent[k])
    BY <1>5 DEF Like, InStep, IInv, RevisionsInOrder
<1>8. \A j \in Conns : DownQueueOK(down'[j]) /\ InOrder(down'[j], sent[j])
    BY <1>3 DEF IInv, TypeOK, HistoriesInOrder
<1> QED BY <1>3, <1>2, <1>4, <1>5, <1>6, <1>7, <1>8, ClientStepOK DEF Like, IInv, TypeOK

\* A new connection starts with an Identity and no History.
LEMMA ConnectOK ==
    ASSUME IInv, NEW c \in Clients, Connect(c)
    PROVE  IInv'
<1> DEFINE k == <<c, episode[c] + 1>>
           s == HandleStatus(sess[c], TRUE)
           q == <<Identity(nextID)>>
<1>1. /\ ~sess[c].connected
      /\ k \in Conns
    BY Connections DEF Connect, IInv
<1>2. /\ nextID \in Nat \ {0} /\ episode[c] \in Nat
      /\ episode[c] < MaxEpisodes[c] /\ MaxEpisodes[c] \in Nat
    BY CollabAssumption DEF Connect, IInv, TypeOK
<1>3. /\ episode' = [episode EXCEPT ![c] = episode[c] + 1]
      /\ sess' = [sess EXCEPT ![c] = s]
      /\ link' = [link EXCEPT ![k] = "open"]
      /\ id' = [id EXCEPT ![k] = nextID]
      /\ nextID' = nextID + 1
      /\ down' = [down EXCEPT ![k] = q]
      /\ UNCHANGED <<docText, ops, cursors, sent, greeted, up,
                     stopped, edits, moves>>
    BY DEF Connect
<1>4. /\ DownQueueOK(q)
      /\ Histories(q) = {}
  <2>1. IsSeq(q) /\ DOMAIN q = 1..1 /\ q[1] = Identity(nextID)
      BY IsSeqOne, IsSeqLen
  <2>2. MessageDownOK(Identity(nextID)) /\ Identity(nextID).type = "Identity"
      BY <1>2 DEF MessageDownOK, Identity
  <2> HIDE DEF q
  <2>3. \A i \in DOMAIN q : q[i] = Identity(nextID)
      BY <2>1
  <2> QED BY <2>1, <2>2, <2>3 DEF DownQueueOK, Histories
<1> HIDE DEF q
<1>5. SessionOK(sess[c]) /\ ~sess[c].baselined
    BY <1>1 DEF IInv, TypeOK, SessionOK
<1>6. /\ SessionOK(s) /\ s.revision = sess[c].revision
      /\ s.connected /\ ~s.baselined /\ s.everBaselined = sess[c].everBaselined
    BY <1>5, HandleStatusOK
<1> HIDE DEF s
<1>7. TypeOK'
  <2>1. /\ nextID' \in Nat \ {0}
        /\ id' \in [Conns -> Nat]
        /\ episode' \in [Clients -> Nat]
        /\ \A d \in Clients : /\ episode'[d] <= MaxEpisodes[d]
                              /\ sess'[d].connected => episode'[d] > 0
    <3>1. nextID' \in Nat \ {0} /\ id' \in [Conns -> Nat]
      <4>1. id \in [Conns -> Nat] /\ nextID \in Nat
          BY <1>2 DEF IInv, TypeOK
      <4>2. nextID + 1 \in Nat \ {0}
          BY <4>1
      <4> QED BY <1>3, <4>1, <4>2
    <3>2. episode \in [Clients -> Nat] /\ DOMAIN sess = Clients
        BY DEF IInv, TypeOK
    <3>3. episode' \in [Clients -> Nat]
        BY <1>2, <1>3, <3>2
    <3>4. ASSUME NEW d \in Clients
          PROVE  /\ episode'[d] <= MaxEpisodes[d]
                 /\ sess'[d].connected => episode'[d] > 0
      <4>1. CASE d = c
          BY <1>2, <1>3, <3>2, <4>1
      <4>2. CASE d # c
        <5>1. episode'[d] = episode[d] /\ sess'[d] = sess[d]
            BY <1>3, <3>2, <4>2
        <5> QED BY <5>1 DEF IInv, TypeOK
      <4> QED BY <4>1, <4>2
    <3> QED BY <3>1, <3>3, <3>4
  <2>2. \A j \in Conns : UpQueueOK(up'[j]) /\ DownQueueOK(down'[j])
      BY <1>3, <1>4 DEF IInv, TypeOK
  <2>3. \A d \in Clients : SessionOK(sess'[d])
      BY <1>3, <1>6 DEF IInv, TypeOK
  <2>4. /\ link' \in [Conns -> {"none", "open", "lost", "closing", "closed"}]
        /\ DOMAIN down' = Conns /\ DOMAIN sess' = Clients
      BY <1>3 DEF IInv, TypeOK
  <2> QED BY <1>3, <2>1, <2>2, <2>3, <2>4 DEF IInv, TypeOK
<1>8. HistoriesInOrder'
    BY <1>3, <1>4 DEF InOrder, IInv, TypeOK, HistoriesInOrder
<1>9. RevisionsInOrder'
  <2>1. Current(c)' = k /\ \A d \in Clients : d # c => Current(d)' = Current(d)
      BY <1>3 DEF Current, IInv, TypeOK
  <2>2. InStep(sess[c], down[Current(c)], sent[Current(c)])
      BY DEF IInv, RevisionsInOrder
  <2>3. InStep(s, q, sent[k])
      BY <1>4, <1>6, <2>2 DEF InStep, EndAfter
  <2>4. sess'[c] = s /\ down'[k] = q
      BY <1>1, <1>3 DEF IInv, TypeOK
  <2>5. ASSUME NEW d \in Clients, d # c
        PROVE  InStep(sess[d], down'[Current(d)], sent[Current(d)])
    <3>1. InStep(sess[d], down[Current(d)], sent[Current(d)])
        BY DEF IInv, RevisionsInOrder
    <3>2. Current(d) # k
        BY <2>5 DEF Current
    <3>3. Current(d) \in Conns => down'[Current(d)] = down[Current(d)]
        BY <1>3, <3>2 DEF IInv, TypeOK
    <3>4. Current(d) \notin Conns => ~sess[d].connected /\ ~sess[d].baselined
        BY Connections DEF IInv, TypeOK, SessionOK
    <3> QED BY <3>1, <3>3, <3>4 DEF InStep
  <2>6. \A d \in Clients : d # c => sess'[d] = sess[d]
      BY <1>3 DEF IInv, TypeOK
  <2>7. \A d \in Clients :
            InStep(sess'[d], down'[Current(d)'], sent[Current(d)'])
      BY <2>1, <2>3, <2>4, <2>5, <2>6
  <2>8. \A d \in Clients : sess'[d].revision <= Len(ops)
      BY <1>6, <2>4, <2>6 DEF IInv, RevisionsInOrder
  <2> QED BY <1>3, <2>7, <2>8 DEF RevisionsInOrder
<1>10. UpInRange'
    BY <1>3 DEF IInv, UpInRange
<1> QED BY <1>7, <1>8, <1>9, <1>10 DEF IInv

---------------------------------------------------------------------------
(* The theorems.                                                           *)

\* The invariant holds at first.
LEMMA InitOK == Init => IInv
<1> SUFFICES ASSUME Init PROVE IInv
    OBVIOUS
<1>1. IsSeq(ops) /\ Len(ops) \in Nat
  <2>1. ops = << >> \/ \E e : ops = <<e>>
      BY DEF Init, NewRoomOps
  <2>2. IsSeq(ops)
      BY <2>1, IsSeqEmpty, IsSeqOne
  <2> QED BY <2>2, IsSeqLen
<1>2. /\ UpQueueOK(<< >>) /\ DownQueueOK(<< >>) /\ Histories(<< >>) = {}
      /\ \A n : EditsWithin(<< >>, n)
    BY IsSeqEmpty DEF UpQueueOK, DownQueueOK, Histories, EditsWithin
<1>3. /\ SessionOK(NewSession) /\ NewSession.revision = 0
      /\ ~NewSession.connected /\ ~NewSession.baselined
  <2>1. IsSeq(NewSession.pending) /\ Len(NewSession.pending) = 0
      BY IsSeqEmpty DEF NewSession
  <2> QED BY <2>1 DEF NewSession, SessionOK, None
<1>4. TypeOK
  <2>1. \A c \in Clients : 0 <= MaxEpisodes[c]
      BY CollabAssumption
  <2>2. \A k \in Conns : up[k] = << >> /\ down[k] = << >>
      BY DEF Init
  <2>3. \A c \in Clients : sess[c] = NewSession /\ episode[c] = 0
      BY DEF Init
  <2> QED BY <1>1, <1>2, <1>3, <2>1, <2>2, <2>3 DEF TypeOK, Init, None
<1>5. HistoriesInOrder
  <2>1. \A k \in Conns : down[k] = << >> /\ sent[k] = 0
      BY DEF Init
  <2>2. 0 <= Len(ops)
      BY <1>1
  <2> QED BY <1>2, <2>1, <2>2 DEF HistoriesInOrder, InOrder
<1>6. RevisionsInOrder
  <2>1. 0 <= Len(ops)
      BY <1>1
  <2> QED BY <1>3, <2>1 DEF Init, RevisionsInOrder, InStep
<1>7. UpInRange
    BY <1>2 DEF Init, UpInRange
<1> QED BY <1>4, <1>5, <1>6, <1>7 DEF IInv

\* Every step keeps the invariant.
LEMMA NextOK == IInv /\ [Next]_vars => IInv'
<1> SUFFICES ASSUME IInv, [Next]_vars PROVE IInv'
    OBVIOUS
<1>1. ASSUME NEW k \in Conns, ServerStep(k) PROVE IInv'
  <2>1. CASE \E code : Hangup(k, code)
      BY <2>1, HangupOK
  <2>2. RejectEdit(k) \/ ThrottleEdit(k) \/ NoticeLoss(k) \/ ServerLoses(k)
          => \E code : Hangup(k, code)
      BY DEF RejectEdit, ThrottleEdit, NoticeLoss, ServerLoses
  <2> QED BY <1>1, <2>1, <2>2, AcceptEditOK, SetCursorOK, PushOK DEF ServerStep
<1>2. ASSUME NEW c \in Clients, ClientStep(c) PROVE IInv'
    BY <1>2, ConnectOK, LoseOK, ReceiveIdentityOK, ReceiveHistoryOK, ReceiveCloseOK,
       EditLocallyOK, MoveCaretOK DEF ClientStep, Receive
<1>3. CASE UNCHANGED vars
  <2>1. \A c \in Clients : Current(c)' = Current(c)
      BY <1>3 DEF Current, vars, clientVars
  <2>2. TypeOK'
      BY <1>3 DEF vars, roomVars, linkVars, queueVars, clientVars, IInv, TypeOK
  <2>3. HistoriesInOrder' /\ RevisionsInOrder' /\ UpInRange'
      BY <1>3, <2>1 DEF vars, roomVars, linkVars, queueVars, clientVars,
                        IInv, HistoriesInOrder, RevisionsInOrder, UpInRange
  <2> QED BY <2>2, <2>3 DEF IInv
<1> QED BY <1>1, <1>2, <1>3 DEF Next

(***************************************************************************)
(* The inductive invariant (the Histories a connection carries, and how    *)
(* far its session has read them).                                         *)
(***************************************************************************)
THEOREM Invariance == Spec => []IInv
BY InitOK, NextOK, PTL DEF Spec

(***************************************************************************)
(* The state is always well typed: a session never has more than one       *)
(* operation outstanding and one buffered (client.ts, ClientState).        *)
(***************************************************************************)
THEOREM TypeCorrect == Spec => []TypeOK
<1>1. IInv => TypeOK
    BY DEF IInv
<1> QED BY <1>1, Invariance, PTL

(***************************************************************************)
(* No edit reaches the room with a revision the room has not (room.go,     *)
(* ErrRevisionOutOfRange), whatever was lost on the way.                   *)
(***************************************************************************)
THEOREM EditsStayInRange == Spec => []EditsInRange
<1>1. IInv => EditsInRange
  <2> SUFFICES ASSUME IInv, NEW k \in Conns, NEW i \in DOMAIN up[k],
                      up[k][i].type = "Edit"
               PROVE  up[k][i].revision \in 0..Len(ops)
      BY DEF EditsInRange
  <2>1. up[k][i].revision \in Nat /\ up[k][i].revision <= Len(ops)
      BY DEF IInv, TypeOK, UpQueueOK, MessageUpOK, UpInRange, EditsWithin
  <2>2. Len(ops) \in Nat
      BY IsSeqLen DEF IInv, TypeOK
  <2> QED BY <2>1, <2>2
<1> QED BY <1>1, Invariance, PTL

---------------------------------------------------------------------------
(* The log grows.                                                          *)

\* Log more is log and one entry after it.
Grows(log, more, entry) ==
    /\ Written(log) /\ Written(more)
    /\ Len(log) \in Nat /\ Len(more) = Len(log) + 1
    /\ \A n \in 1..Len(log) : more[n] = log[n]
    /\ more[Len(log) + 1] = entry
    /\ \A n \in 0..Len(log) : TextOf(more, n) = TextOf(log, n)

\* What a session mirrors, it mirrors still.
LEMMA GrowsMirrors ==
    ASSUME NEW log, NEW more, NEW entry, Grows(log, more, entry),
           NEW s, Mirrors(s, log)
    PROVE  Mirrors(s, more)
<1>1. s.revision \in 0..Len(log) /\ s.synced = TextOf(log, s.revision)
    BY DEF Mirrors
<1>2. s.revision \in 0..Len(more)
    BY <1>1 DEF Grows
<1>3. s.synced = TextOf(more, s.revision)
    BY <1>1 DEF Grows
<1> QED BY <1>2, <1>3 DEF Mirrors

\* An edit that could be rebased can be rebased past one entry more.
LEMMA GrowsEdit ==
    ASSUME NEW log, NEW more, NEW entry, Grows(log, more, entry),
           NEW m, EditOK(log, m)
    PROVE  EditOK(more, m)
<1>1. m.revision \in 0..Len(log)
    BY DEF EditOK
<1>2. m.revision \in 0..Len(more) /\ TextOf(more, m.revision) = TextOf(log, m.revision)
    BY <1>1 DEF Grows
<1> QED BY <1>2 DEF EditOK

\* A trace along the log is one along the longer log.
LEMMA GrowsTrace ==
    ASSUME NEW log, NEW more, NEW entry, Grows(log, more, entry),
           NEW f, NEW from \in Nat, NEW to \in 0..Len(log), Trace(log, f, from, to)
    PROVE  Trace(more, f, from, to)
<1>1. \A n \in from..(to - 1) : n + 1 \in 1..Len(log)
    BY DEF Grows
<1> QED BY <1>1 DEF Grows, Trace

---------------------------------------------------------------------------
(* Whose the entries of the log are.                                       *)

\* No entry after revision v is this user's.
NoOwn(log, v, user) == \A n \in (v + 1)..Len(log) : log[n].id # user

\* Entry j is this user's, and no other after revision v.
SoleOwn(log, v, user, j) ==
    /\ j \in (v + 1)..Len(log)
    /\ log[j].id = user
    /\ \A n \in (v + 1)..Len(log) : log[n].id = user => n = j

\* Reading on, there is nothing of the user's either.
LEMMA NoOwnLater ==
    ASSUME NEW log, NEW v \in Nat, NEW w \in Nat, v <= w, NEW user, NoOwn(log, v, user)
    PROVE  NoOwn(log, w, user)
<1> DEFINE L == Len(log)
<1> HIDE DEF L
<1>1. \A n \in (w + 1)..L : n \in (v + 1)..L
    OBVIOUS
<1> QED BY <1>1 DEF NoOwn, L

\* Somebody else's entry.
LEMMA NoOwnGrows ==
    ASSUME NEW log, NEW more, NEW entry, Grows(log, more, entry),
           NEW v \in 0..Len(log), NEW user, NoOwn(log, v, user), entry.id # user
    PROVE  NoOwn(more, v, user)
<1>1. \A n \in (v + 1)..Len(more) : n = Len(log) + 1 \/ n \in (v + 1)..Len(log)
    BY DEF Grows
<1>2. \A n \in (v + 1)..Len(log) : n \in 1..Len(log)
    OBVIOUS
<1> QED BY <1>1, <1>2 DEF Grows, NoOwn

\* The user's own entry is the only one.
LEMMA SoleOwnNew ==
    ASSUME NEW log, NEW more, NEW entry, Grows(log, more, entry),
           NEW v \in 0..Len(log), NEW user, NoOwn(log, v, user), entry.id = user
    PROVE  SoleOwn(more, v, user, Len(log) + 1)
<1>1. \A n \in (v + 1)..Len(more) : n = Len(log) + 1 \/ n \in (v + 1)..Len(log)
    BY DEF Grows
<1>2. \A n \in (v + 1)..Len(log) : n \in 1..Len(log)
    OBVIOUS
<1>3. Len(log) + 1 \in (v + 1)..Len(more)
    BY DEF Grows
<1> QED BY <1>1, <1>2, <1>3 DEF Grows, NoOwn, SoleOwn

\* It stays the only one when somebody else's follows.
LEMMA SoleOwnGrows ==
    ASSUME NEW log, NEW more, NEW entry, Grows(log, more, entry),
           NEW v \in 0..Len(log), NEW user, NEW j, SoleOwn(log, v, user, j),
           entry.id # user
    PROVE  SoleOwn(more, v, user, j)
<1>1. \A n \in (v + 1)..Len(more) : n = Len(log) + 1 \/ n \in (v + 1)..Len(log)
    BY DEF Grows
<1>2. \A n \in (v + 1)..Len(log) : n \in 1..Len(log) /\ n \in (v + 1)..Len(more)
    BY DEF Grows
<1> QED BY <1>1, <1>2 DEF Grows, SoleOwn

\* Past its own entry a user has none.
LEMMA SoleOwnRead ==
    ASSUME NEW log, NEW v \in Nat, NEW user, SoleOwn(log, v, user, v + 1),
           Len(log) \in Nat
    PROVE  NoOwn(log, v + 1, user)
<1> DEFINE L == Len(log)
<1>1. L \in Nat
    OBVIOUS
<1> HIDE DEF L
<1>2. \A n \in ((v + 1) + 1)..L : n \in (v + 1)..L /\ n # v + 1
    BY <1>1
<1> QED BY <1>2 DEF SoleOwn, NoOwn, L

\* Past somebody else's entry its own is still to come.
LEMMA SoleOwnLater ==
    ASSUME NEW log, NEW v \in Nat, NEW user, NEW j, SoleOwn(log, v, user, j),
           Len(log) \in Nat, log[v + 1].id # user
    PROVE  SoleOwn(log, v + 1, user, j)
<1> DEFINE L == Len(log)
<1>1. L \in Nat
    OBVIOUS
<1>2. j # v + 1
    BY DEF SoleOwn
<1> HIDE DEF L
<1>3. \A n \in ((v + 1) + 1)..L : n \in (v + 1)..L
    BY <1>1
<1>4. j \in (v + 1)..L => j \in ((v + 1) + 1)..L
    BY <1>1, <1>2
<1> QED BY <1>3, <1>4 DEF SoleOwn, L

---------------------------------------------------------------------------
(* The edits of a queue.                                                   *)

NoEdit(q) == \A i \in DOMAIN q : q[i].type # "Edit"

\* Message m is the only edit of queue q.
OnlyEdit(q, m) ==
    \E i \in DOMAIN q : /\ q[i] = m /\ m.type = "Edit"
                        /\ \A j \in DOMAIN q : q[j].type = "Edit" => j = i

\* The room can take message m: an edit it can rebase, or a caret.
Legible(log, m) ==
    \/ EditOK(log, m)
    \/ m.type = "CursorData" /\ \A i \in DOMAIN m.caret : m.caret[i] \in Nat

AllLegible(log, q) == \A i \in DOMAIN q : Legible(log, q[i])

\* An empty queue.
LEMMA EmptyQueue ==
    ASSUME NEW log PROVE NoEdit(<< >>) /\ AllLegible(log, << >>)
BY IsSeqEmpty DEF NoEdit, AllLegible

\* A queue of one message.
LEMMA OneMessage ==
    ASSUME NEW log, NEW m, Legible(log, m)
    PROVE  /\ AllLegible(log, <<m>>)
           /\ m.type = "Edit" => OnlyEdit(<<m>>, m)
           /\ m.type # "Edit" => NoEdit(<<m>>)
<1> DEFINE q == <<m>>
<1>1. DOMAIN q = 1..1 /\ q[1] = m
    BY IsSeqOne, IsSeqLen
<1>2. 1..1 = {1}
    OBVIOUS
<1> HIDE DEF q
<1>3. AllLegible(log, q)
    BY <1>1, <1>2 DEF AllLegible
<1>4. m.type = "Edit" => OnlyEdit(q, m)
    BY <1>1, <1>2 DEF OnlyEdit
<1>5. m.type # "Edit" => NoEdit(q)
    BY <1>1, <1>2 DEF NoEdit
<1> QED BY <1>3, <1>4, <1>5 DEF q

\* Reading the head of a queue.
LEMMA TailEdits ==
    ASSUME NEW log, NEW q, IsSeq(q), q # << >>
    PROVE  /\ AllLegible(log, q) => AllLegible(log, Tail(q)) /\ Legible(log, Head(q))
           /\ NoEdit(q) => NoEdit(Tail(q)) /\ Head(q).type # "Edit"
           /\ \A m : OnlyEdit(q, m) =>
                 \/ Head(q) = m /\ NoEdit(Tail(q))
                 \/ Head(q).type # "Edit" /\ OnlyEdit(Tail(q), m)
<1> DEFINE r == Tail(q)
<1>1. /\ Head(q) = q[1] /\ 1 \in DOMAIN q
      /\ IsSeq(r) /\ IsSeq(q)
      /\ \A i \in DOMAIN r : /\ i \in Nat /\ i + 1 \in DOMAIN q
                             /\ r[i] = q[i + 1]
    BY TailIndex
<1>2. /\ DOMAIN r = 1..Len(r) /\ Len(r) \in Nat /\ DOMAIN q = 1..Len(q) /\ Len(q) \in Nat
      /\ Len(r) = Len(q) - 1
    BY <1>1, IsSeqLen, IsSeqTail
<1> HIDE DEF r
<1>3. \A i \in DOMAIN q : i # 1 => i - 1 \in DOMAIN r /\ (i - 1) + 1 = i
    BY <1>2
<1>4. AllLegible(log, q) => AllLegible(log, r) /\ Legible(log, Head(q))
    BY <1>1 DEF AllLegible
<1>5. NoEdit(q) => NoEdit(r) /\ Head(q).type # "Edit"
    BY <1>1 DEF NoEdit
<1>6. ASSUME NEW m, OnlyEdit(q, m)
      PROVE  \/ Head(q) = m /\ NoEdit(r)
             \/ Head(q).type # "Edit" /\ OnlyEdit(r, m)
  <2>1. PICK i \in DOMAIN q : /\ q[i] = m /\ m.type = "Edit"
                              /\ \A j \in DOMAIN q : q[j].type = "Edit" => j = i
      BY <1>6 DEF OnlyEdit
  <2>2. CASE i = 1
    <3>1. \A j \in DOMAIN r : j + 1 # 1
        BY <1>1, <1>2
    <3>2. NoEdit(r)
        BY <1>1, <2>1, <2>2, <3>1 DEF NoEdit
    <3> QED BY <1>1, <2>1, <2>2, <3>2
  <2>3. CASE i # 1
    <3>1. i - 1 \in DOMAIN r /\ (i - 1) + 1 = i
        BY <1>3, <2>3
    <3>2. r[i - 1] = m
        BY <1>1, <2>1, <3>1
    <3>3. ASSUME NEW j \in DOMAIN r, r[j].type = "Edit" PROVE j = i - 1
      <4>1. j + 1 = i
          BY <1>1, <2>1, <3>3
      <4> QED BY <1>1, <4>1
    <3>4. OnlyEdit(r, m)
        BY <2>1, <3>1, <3>2, <3>3 DEF OnlyEdit
    <3>5. Head(q).type # "Edit"
        BY <1>1, <2>1, <2>3
    <3> QED BY <3>4, <3>5
  <2> QED BY <2>2, <2>3
<1> QED BY <1>4, <1>5, <1>6 DEF r

\* Where the messages of two queues are when one is put behind the other.
LEMMA ConcatIndex ==
    ASSUME NEW q, NEW r, IsSeq(q), IsSeq(r)
    PROVE  /\ IsSeq(Cat(q, r))
           /\ \A i \in DOMAIN Cat(q, r) :
                 \/ i \in DOMAIN q /\ Cat(q, r)[i] = q[i]
                 \/ i - Len(q) \in DOMAIN r /\ Cat(q, r)[i] = r[i - Len(q)]
           /\ \A i \in DOMAIN q : i \in DOMAIN Cat(q, r) /\ Cat(q, r)[i] = q[i]
           /\ \A i \in DOMAIN r : /\ Len(q) + i \in DOMAIN Cat(q, r)
                                  /\ Cat(q, r)[Len(q) + i] = r[i]
           /\ \A i \in DOMAIN Cat(q, r) : i \in Nat
           /\ \A i \in DOMAIN r : i \in Nat
           /\ Len(q) \in Nat
<1> DEFINE a == Len(q)
           b == Len(r)
           t == Cat(q, r)
<1>1. /\ a \in Nat /\ DOMAIN q = 1..a /\ b \in Nat /\ DOMAIN r = 1..b
    BY IsSeqLen
<1>2. /\ IsSeq(t) /\ Len(t) = a + b
      /\ \A i \in 1..Len(t) : t[i] = IF i <= a THEN q[i] ELSE r[i - a]
    BY IsSeqConcat DEF Cat
<1>3. DOMAIN t = 1..(a + b)
    BY <1>2, IsSeqLen
<1> HIDE DEF a, b, t
<1>4. \A i \in 1..(a + b) : t[i] = IF i <= a THEN q[i] ELSE r[i - a]
    BY <1>2
<1>5. \A i \in DOMAIN t : \/ i \in DOMAIN q /\ t[i] = q[i]
                          \/ i - a \in DOMAIN r /\ t[i] = r[i - a]
    BY <1>1, <1>3, <1>4
<1>6. \A i \in DOMAIN q : i \in DOMAIN t /\ t[i] = q[i]
    BY <1>1, <1>3, <1>4
<1>7. \A i \in DOMAIN r : a + i \in DOMAIN t /\ t[a + i] = r[i]
  <2>1. ASSUME NEW i \in DOMAIN r PROVE a + i \in DOMAIN t /\ t[a + i] = r[i]
    <3>1. a + i \in 1..(a + b) /\ ~(a + i <= a) /\ (a + i) - a = i
        BY <1>1
    <3> QED BY <1>3, <1>4, <3>1
  <2> QED BY <2>1
<1> QED BY <1>1, <1>2, <1>3, <1>5, <1>6, <1>7 DEF a, t

\* Messages are added to a queue.
LEMMA ConcatEdits ==
    ASSUME NEW log, NEW q, NEW r, IsSeq(q), IsSeq(r)
    PROVE  /\ AllLegible(log, q) /\ AllLegible(log, r) => AllLegible(log, q \o r)
           /\ NoEdit(q) /\ NoEdit(r) => NoEdit(q \o r)
           /\ \A m : OnlyEdit(q, m) /\ NoEdit(r) => OnlyEdit(q \o r, m)
           /\ \A m : NoEdit(q) /\ OnlyEdit(r, m) => OnlyEdit(q \o r, m)
<1> DEFINE t == Cat(q, r)
           a == Len(q)
<1>1. /\ \A i \in DOMAIN t : \/ i \in DOMAIN q /\ t[i] = q[i]
                             \/ i - a \in DOMAIN r /\ t[i] = r[i - a]
      /\ \A i \in DOMAIN q : i \in DOMAIN t /\ t[i] = q[i]
      /\ \A i \in DOMAIN r : a + i \in DOMAIN t /\ t[a + i] = r[i]
      /\ \A i \in DOMAIN t : i \in Nat
      /\ \A i \in DOMAIN r : i \in Nat
      /\ a \in Nat
    BY ConcatIndex
<1> HIDE DEF t, a
<1>2. AllLegible(log, q) /\ AllLegible(log, r) => AllLegible(log, t)
    BY <1>1 DEF AllLegible
<1>3. NoEdit(q) /\ NoEdit(r) => NoEdit(t)
    BY <1>1 DEF NoEdit
<1>4. ASSUME NEW m, OnlyEdit(q, m), NoEdit(r) PROVE OnlyEdit(t, m)
    BY <1>1, <1>4 DEF OnlyEdit, NoEdit
<1>5. ASSUME NEW m, NoEdit(q), OnlyEdit(r, m) PROVE OnlyEdit(t, m)
  <2>1. PICK i \in DOMAIN r : /\ r[i] = m /\ m.type = "Edit"
                              /\ \A j \in DOMAIN r : r[j].type = "Edit" => j = i
      BY <1>5 DEF OnlyEdit
  <2>2. a + i \in DOMAIN t /\ t[a + i] = m
      BY <1>1, <2>1
  <2>3. ASSUME NEW j \in DOMAIN t, t[j].type = "Edit" PROVE j = a + i
    <3>1. j - a \in DOMAIN r /\ t[j] = r[j - a]
        BY <1>1, <1>5, <2>3 DEF NoEdit
    <3>2. j - a = i
        BY <2>1, <2>3, <3>1
    <3> QED BY <1>1, <3>2
  <2> QED BY <2>1, <2>2, <2>3 DEF OnlyEdit
<1> QED BY <1>2, <1>3, <1>4, <1>5 DEF t, Cat

\* The queue is as good for the longer log.
LEMMA GrowsLegible ==
    ASSUME NEW log, NEW more, NEW entry, Grows(log, more, entry),
           NEW q, AllLegible(log, q)
    PROVE  AllLegible(more, q)
BY GrowsEdit DEF AllLegible, Legible

---------------------------------------------------------------------------
(* The outstanding operation of a session.                                 *)

\* It is lost: its edit is not under way and not in the log, and the connection
\* that should have carried it is gone.
Lost(log, v, user, q, open) == NoOwn(log, v, user) /\ NoEdit(q) /\ ~open

\* It is on its way: rebased along the log, edit m of queue q passes through
\* operation op, which the session has made of it by revision v.
Travels(log, v, user, q, op) ==
    /\ NoOwn(log, v, user)
    /\ \E m, f : /\ OnlyEdit(q, m)
                 /\ m.revision \in 0..v
                 /\ f[m.revision] = m.op
                 /\ f[v] = op
                 /\ Trace(log, f, m.revision, Len(log))

\* It is entry j of the log: rebased along the entries before that one it is the
\* operation the room has logged.
Accepted(log, v, user, q, op) ==
    /\ NoEdit(q)
    /\ \E j, f : /\ SoleOwn(log, v, user, j)
                 /\ f[v] = op
                 /\ f[j - 1] = log[j].op
                 /\ Trace(log, f, v, j - 1)

\* The operations p are pending in a session that has read v entries of the log
\* and whose edits go through queue q, if that is open.
Outstanding(log, v, user, q, p, open) ==
    \/ /\ p = << >>
       /\ NoOwn(log, v, user)
       /\ NoEdit(q)
    \/ /\ p # << >>
       /\ \/ Lost(log, v, user, q, open)
          \/ Travels(log, v, user, q, p[1])
          \/ Accepted(log, v, user, q, p[1])

\* A part of a trace.
LEMMA TracePart ==
    ASSUME NEW log, NEW f, NEW a \in Nat, NEW b \in Nat, NEW c \in Nat, NEW d \in Nat,
           a <= c, d <= b, Trace(log, f, a, b)
    PROVE  Trace(log, f, c, d)
<1>1. \A n \in c..(d - 1) : n \in a..(b - 1)
    OBVIOUS
<1> QED BY <1>1 DEF Trace

\* Somebody else's entry is added to the log.
LEMMA OutstandingGrows ==
    ASSUME NEW log, NEW more, NEW entry, Grows(log, more, entry),
           NEW v \in 0..Len(log), NEW user, entry.id # user,
           NEW q, NEW p, NEW open, Outstanding(log, v, user, q, p, open)
    PROVE  Outstanding(more, v, user, q, p, open)
<1> DEFINE L == Len(log)
<1>1. L \in Nat /\ L <= L /\ L \in 0..L /\ Len(more) = L + 1 /\ v \in Nat /\ v \in 0..L
    BY DEF Grows
<1>2. NoOwn(log, v, user) => NoOwn(more, v, user)
    BY NoOwnGrows
<1> HIDE DEF L
<1>3. ASSUME Travels(log, v, user, q, p[1]) PROVE Travels(more, v, user, q, p[1])
  <2>1. PICK m, f : /\ OnlyEdit(q, m)
                    /\ m.revision \in 0..v
                    /\ f[m.revision] = m.op
                    /\ f[v] = p[1]
                    /\ Trace(log, f, m.revision, L)
      BY <1>3 DEF Travels, L
  <2> DEFINE r == m.revision
  <2>2. r \in Nat /\ r <= L /\ r \in r..L /\ v \in r..L
      BY <1>1, <2>1
  <2>3. Trace(log, f, r, L)
      BY <2>1
  <2> HIDE DEF r
  <2>4. Trace(more, f, r, L)
      BY <1>1, <2>2, <2>3, GrowsTrace DEF L
  <2>5. PICK g : Alike(g, f, r, L) /\ Trace(more, g, r, L + 1)
      BY <1>1, <2>2, <2>4, TraceMore
  <2>6. g[r] = f[r] /\ g[v] = f[v]
      BY <2>2, <2>5 DEF Alike
  <2>7. Trace(more, g, r, Len(more))
      BY <1>1, <2>5
  <2> QED BY <1>2, <1>3, <2>1, <2>6, <2>7 DEF Travels, r
<1>4. ASSUME Accepted(log, v, user, q, p[1]) PROVE Accepted(more, v, user, q, p[1])
  <2>1. PICK j, f : /\ SoleOwn(log, v, user, j)
                    /\ f[v] = p[1]
                    /\ f[j - 1] = log[j].op
                    /\ Trace(log, f, v, j - 1)
      BY <1>4 DEF Accepted
  <2>2. SoleOwn(more, v, user, j)
      BY <2>1, SoleOwnGrows
  <2>3. j \in (v + 1)..L
      BY <2>1 DEF SoleOwn, L
  <2>4. j - 1 \in 0..L /\ j \in 1..L
      BY <1>1, <2>3
  <2>5. Trace(more, f, v, j - 1)
      BY <1>1, <2>1, <2>4, GrowsTrace DEF L
  <2>6. more[j] = log[j]
      BY <2>4 DEF Grows, L
  <2> QED BY <1>4, <2>1, <2>2, <2>5, <2>6 DEF Accepted
<1> QED BY <1>2, <1>3, <1>4 DEF Outstanding, Lost

\* Rebased along the whole log, edit m is operation op.
RebasedTo(log, m, op) ==
    \A f : f[m.revision] = m.op /\ Trace(log, f, m.revision, Len(log))
              => f[Len(log)] = op

\* The room accepts the edit at the head of the queue: it is the outstanding
\* operation, and nothing else was under way.
LEMMA OutstandingAccepted ==
    ASSUME NEW log, NEW more, NEW entry, Grows(log, more, entry),
           NEW v \in 0..Len(log), NEW user, entry.id = user,
           NEW q, IsSeq(q), q # << >>, Head(q).type = "Edit",
           RebasedTo(log, Head(q), entry.op),
           NEW p, NEW open, Outstanding(log, v, user, q, p, open)
    PROVE  Outstanding(more, v, user, Tail(q), p, open)
<1> DEFINE L == Len(log)
<1>1. L \in Nat /\ L <= L /\ L \in 0..L /\ v \in Nat /\ v <= L /\ (L + 1) - 1 = L
    BY DEF Grows
<1>2. ~NoEdit(q)
    BY TailEdits
<1>3. p # << >> /\ Travels(log, v, user, q, p[1])
    BY <1>2 DEF Outstanding, Lost, Accepted
<1>4. PICK m, f : /\ OnlyEdit(q, m)
                  /\ m.revision \in 0..v
                  /\ f[m.revision] = m.op
                  /\ f[v] = p[1]
                  /\ Trace(log, f, m.revision, L)
    BY <1>3 DEF Travels
<1>5. Head(q) = m /\ NoEdit(Tail(q))
    BY <1>4, TailEdits
<1>6. f[L] = entry.op
    BY <1>4, <1>5 DEF RebasedTo
<1>7. SoleOwn(more, v, user, L + 1)
    BY <1>3, SoleOwnNew DEF Travels
<1> HIDE DEF L
<1> DEFINE r == m.revision
<1>8. r \in Nat /\ r <= v /\ Trace(log, f, r, L)
    BY <1>1, <1>4
<1> HIDE DEF r
<1>9. Trace(log, f, v, L)
    BY <1>1, <1>8, TracePart
<1>10. Trace(more, f, v, L)
    BY <1>1, <1>9, GrowsTrace DEF L
<1>11. more[L + 1] = entry
    BY DEF Grows, L
<1>12. /\ SoleOwn(more, v, user, L + 1) /\ f[v] = p[1]
       /\ f[(L + 1) - 1] = more[L + 1].op
       /\ Trace(more, f, v, (L + 1) - 1)
    BY <1>1, <1>4, <1>6, <1>7, <1>10, <1>11
<1>13. Accepted(more, v, user, Tail(q), p[1])
    BY <1>5, <1>12 DEF Accepted
<1> QED BY <1>3, <1>13 DEF Outstanding

\* The room reads something else.
LEMMA OutstandingTail ==
    ASSUME NEW log, NEW v, NEW user, NEW q, IsSeq(q), q # << >>, Head(q).type # "Edit",
           NEW p, NEW open, Outstanding(log, v, user, q, p, open)
    PROVE  Outstanding(log, v, user, Tail(q), p, open)
<1>1. /\ NoEdit(q) => NoEdit(Tail(q))
      /\ \A m : OnlyEdit(q, m) => OnlyEdit(Tail(q), m)
  <2>1. \A m : OnlyEdit(q, m) => m.type = "Edit"
      BY DEF OnlyEdit
  <2> QED BY <2>1, TailEdits
<1>2. Travels(log, v, user, q, p[1]) => Travels(log, v, user, Tail(q), p[1])
    BY <1>1 DEF Travels
<1>3. Accepted(log, v, user, q, p[1]) => Accepted(log, v, user, Tail(q), p[1])
    BY <1>1 DEF Accepted
<1> QED BY <1>1, <1>2, <1>3 DEF Outstanding, Lost

\* The connection breaks, and takes along what is under way.
LEMMA OutstandingCut ==
    ASSUME NEW log, NEW v, NEW user, NEW q, NEW p, NEW open,
           Outstanding(log, v, user, q, p, open)
    PROVE  Outstanding(log, v, user, << >>, p, FALSE)
<1>1. NoEdit(<< >>)
    BY EmptyQueue
<1> QED BY <1>1 DEF Outstanding, Lost, Travels, Accepted

\* What is in queue q once messages r are sent: nothing more, if the connection
\* is gone.
Sent(q, r, open) == IF open THEN q \o r ELSE q

\* The session sends something else.
LEMMA OutstandingMore ==
    ASSUME NEW log, NEW v, NEW user, NEW q, IsSeq(q), NEW p, NEW open \in BOOLEAN,
           Outstanding(log, v, user, q, p, open), NEW r, IsSeq(r), NoEdit(r)
    PROVE  Outstanding(log, v, user, Sent(q, r, open), p, open)
<1>1. CASE open
  <2>1. /\ NoEdit(q) => NoEdit(q \o r)
        /\ \A m : OnlyEdit(q, m) => OnlyEdit(q \o r, m)
      BY ConcatEdits
  <2>2. Travels(log, v, user, q, p[1]) => Travels(log, v, user, q \o r, p[1])
      BY <2>1 DEF Travels
  <2>3. Accepted(log, v, user, q, p[1]) => Accepted(log, v, user, q \o r, p[1])
      BY <2>1 DEF Accepted
  <2> QED BY <1>1, <2>1, <2>2, <2>3 DEF Outstanding, Lost, Sent
<1>2. CASE ~open
    BY <1>2 DEF Sent
<1> QED BY <1>1, <1>2

\* Edit m, which the room will rebase to operation op at revision v.
Aims(log, m, v, op) ==
    /\ EditOK(log, m)
    /\ m.revision <= v
    /\ \E f : /\ f[m.revision] = m.op
              /\ f[v] = op
              /\ Trace(log, f, m.revision, Len(log))

\* An edit of the session's text at the revision it was made at.
LEMMA AimsNow ==
    ASSUME NEW log, Written(log), NEW v, NEW op, EditOK(log, Edit(v, op))
    PROVE  Aims(log, Edit(v, op), v, op)
<1>1. /\ Edit(v, op).revision = v /\ Edit(v, op).op = op
      /\ v \in 0..Len(log) /\ Len(log) \in Nat
    BY IsSeqLen DEF Edit, EditOK, Written
<1>2. v \in Nat /\ v <= Len(log) /\ v <= v
    BY <1>1
<1>3. \E f : f[v] = op /\ Trace(log, f, v, Len(log))
    BY <1>1, <1>2, TraceExists
<1> QED BY <1>1, <1>2, <1>3 DEF Aims

\* The session sends its outstanding operation.
LEMMA OutstandingSend ==
    ASSUME NEW log, NEW v \in Nat, NEW user, NoOwn(log, v, user),
           NEW q, IsSeq(q), NoEdit(q), NEW p, p # << >>, NEW m, Aims(log, m, v, p[1]),
           NEW open \in BOOLEAN
    PROVE  Outstanding(log, v, user, Sent(q, <<m>>, open), p, open)
<1>1. CASE open
  <2>1. m.type = "Edit" /\ m.revision \in 0..v
      BY DEF Aims, EditOK
  <2>2. OnlyEdit(<<m>>, m)
      BY <2>1, OneMessage DEF Aims, Legible
  <2>3. IsSeq(<<m>>)
      BY IsSeqOne
  <2> DEFINE r == <<m>>
  <2> HIDE DEF r
  <2>4. OnlyEdit(q \o r, m)
      BY <2>2, <2>3, ConcatEdits DEF r
  <2>5. Travels(log, v, user, q \o r, p[1])
      BY <2>1, <2>4 DEF Travels, Aims
  <2> QED BY <1>1, <2>5 DEF Outstanding, Sent, r
<1>2. CASE ~open
    BY <1>2 DEF Outstanding, Lost, Sent
<1> QED BY <1>1, <1>2

---------------------------------------------------------------------------
(* A session with a baseline reads the log.                                *)

\* Read somebody else's entry, the operations p become the operations r.
Rebases(log, v, p, r) ==
    /\ r = << >> <=> p = << >>
    /\ p # << >> => r[1] = Transform(p[1], log[v + 1].op).a

\* The session reads somebody else's entry.
LEMMA OutstandingRemote ==
    ASSUME NEW log, Len(log) \in Nat, NEW v \in 0..(Len(log) - 1),
           NEW user, log[v + 1].id # user,
           NEW q, NEW p, NEW r, Rebases(log, v, p, r),
           NEW open, Outstanding(log, v, user, q, p, open)
    PROVE  Outstanding(log, v + 1, user, q, r, open)
<1> DEFINE L == Len(log)
           w == v + 1
<1>1. /\ L \in Nat /\ v \in Nat /\ w \in Nat /\ v <= w /\ w <= L /\ L <= L
      /\ v <= v /\ w - 1 = v /\ \A a \in 0..v : a \in 0..w /\ a \in Nat /\ v \in a..(L - 1)
    OBVIOUS
<1>2. NoOwn(log, v, user) => NoOwn(log, w, user)
    BY <1>1, NoOwnLater
<1>3. \A j : SoleOwn(log, v, user, j) => SoleOwn(log, w, user, j)
    BY <1>1, SoleOwnLater
<1> HIDE DEF L
<1>4. ASSUME p # << >>, Travels(log, v, user, q, p[1])
      PROVE  Travels(log, w, user, q, r[1])
  <2>1. PICK m, f : /\ OnlyEdit(q, m)
                    /\ m.revision \in 0..v
                    /\ f[m.revision] = m.op
                    /\ f[v] = p[1]
                    /\ Trace(log, f, m.revision, L)
      BY <1>4 DEF Travels, L
  <2>2. v \in (m.revision)..(L - 1) /\ m.revision \in 0..w
      BY <1>1, <2>1
  <2>3. f[w] = r[1]
      BY <1>4, <2>1, <2>2 DEF Trace, Rebases
  <2> QED BY <1>2, <1>4, <2>1, <2>2, <2>3 DEF Travels, L
<1>5. ASSUME p # << >>, Accepted(log, v, user, q, p[1])
      PROVE  Accepted(log, w, user, q, r[1])
  <2>1. PICK j, f : /\ SoleOwn(log, v, user, j)
                    /\ f[v] = p[1]
                    /\ f[j - 1] = log[j].op
                    /\ Trace(log, f, v, j - 1)
      BY <1>5 DEF Accepted
  <2>2. SoleOwn(log, w, user, j)
      BY <1>3, <2>1
  <2>3. j \in (w + 1)..L
      BY <2>2 DEF SoleOwn, L
  <2> DEFINE i == j - 1
  <2>4. i \in Nat /\ v \in v..(i - 1) /\ i <= i
      BY <1>1, <2>3
  <2>5. Trace(log, f, v, i)
      BY <2>1
  <2> HIDE DEF i
  <2>6. f[w] = r[1]
      BY <1>5, <2>1, <2>4, <2>5 DEF Trace, Rebases
  <2> HIDE DEF w
  <2>7. Trace(log, f, w, i)
      BY <1>1, <2>4, <2>5, TracePart
  <2> QED BY <1>5, <2>1, <2>2, <2>6, <2>7 DEF Accepted, i
<1> QED BY <1>2, <1>4, <1>5 DEF Outstanding, Lost, Rebases

\* The session reads its own entry, and it is its outstanding operation.
LEMMA OutstandingOwn ==
    ASSUME NEW log, Len(log) \in Nat, NEW v \in 0..(Len(log) - 1),
           NEW user, log[v + 1].id = user,
           NEW q, NEW p, NEW open, Outstanding(log, v, user, q, p, open)
    PROVE  /\ p # << >> /\ p[1] = log[v + 1].op
           /\ NoEdit(q)
           /\ NoOwn(log, v + 1, user)
<1> DEFINE w == v + 1
<1>1. w \in (v + 1)..Len(log) /\ w - 1 = v /\ v \in Nat
    OBVIOUS
<1>2. ~NoOwn(log, v, user)
    BY <1>1 DEF NoOwn
<1>3. p # << >> /\ Accepted(log, v, user, q, p[1])
    BY <1>2 DEF Outstanding, Lost, Travels
<1>4. PICK j, f : /\ SoleOwn(log, v, user, j)
                  /\ f[v] = p[1]
                  /\ f[j - 1] = log[j].op
    BY <1>3 DEF Accepted
<1>5. j = w
    BY <1>1, <1>4 DEF SoleOwn
<1>6. f[w - 1] = log[w].op
    BY <1>4, <1>5
<1>7. NoOwn(log, w, user)
    BY <1>1, <1>4, <1>5, SoleOwnRead
<1> QED BY <1>1, <1>3, <1>4, <1>6, <1>7 DEF Accepted

\* What the session knows and what is under way, after it has sent messages r
\* behind queue q.
Tracks(log, user, q, open, t, r) ==
    /\ Mirrors(t, log) /\ Pends(t)
    /\ IsSeq(r) /\ AllLegible(log, r)
    /\ Outstanding(log, t.revision, user, Sent(q, r, open), t.pending, open)

\* Sending twice.
LEMMA SentTwice ==
    ASSUME NEW q, NEW r, NEW u, IsSeq(q), IsSeq(r), IsSeq(u), NEW open \in BOOLEAN
    PROVE  Sent(q, r \o u, open) = Sent(Sent(q, r, open), u, open)
<1>1. CASE open
  <2>1. Sent(q, r \o u, open) = q \o (r \o u)
      BY <1>1 DEF Sent
  <2>2. Sent(Sent(q, r, open), u, open) = (q \o r) \o u
      BY <1>1 DEF Sent
  <2>3. (q \o r) \o u = q \o (r \o u)
      BY IsSeqAssoc
  <2> QED BY <2>1, <2>2, <2>3
<1>2. CASE ~open
    BY <1>2 DEF Sent
<1> QED BY <1>1, <1>2

\* A queue stays a queue.
LEMMA SentQueue ==
    ASSUME NEW q, NEW r, IsSeq(q), IsSeq(r), NEW open \in BOOLEAN
    PROVE  IsSeq(Sent(q, r, open))
<1>1. IsSeq(q \o r)
    BY IsSeqConcat
<1> QED BY <1>1 DEF Sent

\* One entry of somebody else's (session.ts, handleHistory).
LEMMA TracksRemote ==
    ASSUME NEW log, Written(log),
           NEW user, NEW q, NEW open, NEW s, NEW r, Tracks(log, user, q, open, s, r),
           s.revision < Len(log), log[s.revision + 1].id # user
    PROVE  LET t == Remote(s, log[s.revision + 1].op)
           IN  /\ Tracks(log, user, q, open, t, r)
               /\ SameLink(s, t) /\ t.revision = s.revision + 1
<1> DEFINE v == s.revision
           t == Remote(s, log[v + 1].op)
           p == s.pending
           u == t.pending
<1>1. Mirrors(s, log) /\ Pends(s)
    BY DEF Tracks
<1>2. FollowsRemote(s, t, log)
    BY <1>1, RemoteDoes
<1>3. v \in 0..(Len(log) - 1) /\ Len(log) \in Nat
    BY <1>1, IsSeqLen DEF Mirrors, Written
<1>4. IsSeq(p)
    BY <1>1 DEF Mirrors, SessionOK
<1> HIDE DEF t
<1>5. IsSeq(u)
    BY <1>2 DEF FollowsRemote, Mirrors, SessionOK
<1>6. Rebases(log, v, p, u)
  <2>1. Len(u) = Len(p) /\ (p # << >> => u[1] = Transform(p[1], log[v + 1].op).a)
      BY <1>2 DEF FollowsRemote
  <2> HIDE DEF u, p
  <2>2. u = << >> <=> p = << >>
      BY <1>4, <1>5, <2>1, IsSeqNone
  <2> QED BY <2>1, <2>2 DEF Rebases
<1>7. Outstanding(log, v, user, Sent(q, r, open), p, open)
    BY DEF Tracks
<1> DEFINE z == Sent(q, r, open)
<1>8. t.revision = v + 1
    BY <1>2 DEF FollowsRemote
<1> HIDE DEF u, p, v, z
<1>9. Outstanding(log, v + 1, user, z, u, open)
    BY <1>3, <1>6, <1>7, OutstandingRemote DEF v, z
<1>10. Outstanding(log, t.revision, user, z, t.pending, open)
    BY <1>8, <1>9 DEF u
<1>11. Tracks(log, user, q, open, t, r)
    BY <1>2, <1>10 DEF Tracks, FollowsRemote, z
<1> QED BY <1>2, <1>8, <1>11 DEF FollowsRemote, t, v

\* One entry of its own: the acknowledgement.
LEMMA TracksAck ==
    ASSUME NEW log, Written(log),
           NEW user, NEW q, IsSeq(q), NEW open \in BOOLEAN, NEW s, NEW r,
           Tracks(log, user, q, open, s, r),
           s.revision < Len(log), log[s.revision + 1].id = user
    PROVE  LET a == Ack(s, log[s.revision + 1].op)
           IN  /\ Tracks(log, user, q, open, a.s, r \o a.sent)
               /\ SameLink(s, a.s) /\ a.s.revision = s.revision + 1
<1> DEFINE v == s.revision
           w == v + 1
           a == Ack(s, log[w].op)
           t == a.s
           z == Sent(q, r, open)
<1>1. Mirrors(s, log) /\ Pends(s) /\ IsSeq(r) /\ AllLegible(log, r)
    BY DEF Tracks
<1>2. v \in 0..(Len(log) - 1) /\ Len(log) \in Nat /\ w \in Nat
    BY <1>1, IsSeqLen DEF Mirrors, Written
<1>3. Outstanding(log, v, user, z, s.pending, open)
    BY DEF Tracks
<1>4. /\ s.pending # << >> /\ s.pending[1] = log[w].op
      /\ NoEdit(z) /\ NoOwn(log, w, user)
  <2> DEFINE p == s.pending
  <2>1. log[v + 1].id = user
      OBVIOUS
  <2> HIDE DEF v, z, p
  <2>2. Outstanding(log, v, user, z, p, open)
      BY <1>3 DEF p
  <2>3. /\ p # << >> /\ p[1] = log[v + 1].op
        /\ NoEdit(z) /\ NoOwn(log, v + 1, user)
      BY <1>2, <2>1, <2>2, OutstandingOwn
  <2> QED BY <2>3 DEF p
<1>5. FollowsAck(s, a, log)
    BY <1>1, <1>4, AckDoes
<1>6. IsSeq(z)
    BY <1>1, SentQueue
<1> HIDE DEF z, a
<1>7. t.revision = w /\ Mirrors(t, log) /\ Pends(t) /\ SameLink(s, t)
    BY <1>5 DEF FollowsAck
<1>8. /\ IsSeq(a.sent) /\ AllLegible(log, a.sent)
      /\ Outstanding(log, w, user, Sent(z, a.sent, open), t.pending, open)
  <2>1. CASE t.pending = << >> /\ a.sent = << >>
    <3>1. Outstanding(log, w, user, z, << >>, open)
        BY <1>4 DEF Outstanding
    <3>2. Outstanding(log, w, user, Sent(z, << >>, open), << >>, open)
        BY <1>6, <3>1, IsSeqEmpty, EmptyQueue, OutstandingMore
    <3> QED BY <2>1, <3>2, IsSeqEmpty, EmptyQueue
  <2>2. ASSUME NEW op, Len(t.pending) = 1, t.pending[1] = op,
               a.sent = <<Edit(w, op)>>, EditOK(log, Edit(w, op))
        PROVE  /\ IsSeq(a.sent) /\ AllLegible(log, a.sent)
               /\ Outstanding(log, w, user, Sent(z, a.sent, open), t.pending, open)
    <3> DEFINE m == Edit(w, op)
               p == t.pending
    <3>1. Aims(log, m, w, op)
        BY <2>2, AimsNow
    <3>2. IsSeq(p)
        BY <1>7 DEF Mirrors, SessionOK
    <3> HIDE DEF p, m, w
    <3>3. p # << >>
        BY <2>2, <3>2, IsSeqNone DEF p
    <3>4. Aims(log, m, w, p[1])
        BY <2>2, <3>1 DEF p
    <3>5. Outstanding(log, w, user, Sent(z, <<m>>, open), p, open)
        BY <1>2, <1>4, <1>6, <3>3, <3>4, OutstandingSend
    <3>6. AllLegible(log, <<m>>) /\ IsSeq(<<m>>)
        BY <2>2, OneMessage, IsSeqOne DEF Legible, m
    <3> QED BY <2>2, <3>5, <3>6 DEF m, p
  <2> QED BY <1>5, <2>1, <2>2 DEF FollowsAck
<1> DEFINE u == a.sent
           x == r \o u
<1> HIDE DEF u
<1>9. IsSeq(x) /\ AllLegible(log, x)
    BY <1>1, <1>8, ConcatEdits, IsSeqConcat DEF u
<1>10. Sent(q, x, open) = Sent(z, u, open)
    BY <1>1, <1>8, SentTwice DEF u, z
<1> HIDE DEF x
<1>11. Outstanding(log, t.revision, user, Sent(q, x, open), t.pending, open)
    BY <1>7, <1>8, <1>10 DEF u
<1>12. Tracks(log, user, q, open, t, x)
    BY <1>7, <1>9, <1>11 DEF Tracks
<1> QED BY <1>7, <1>12 DEF x, u, a

\* Result r tracks the log like session s, n entries further on.
Replays(log, user, q, open, s, r, n) ==
    /\ r = [s |-> r.s, sent |-> r.sent]
    /\ Tracks(log, user, q, open, r.s, r.sent)
    /\ SameLink(s, r.s)
    /\ r.s.revision = s.revision + n

\* What has to be shown of a replayed history.
LEMMA ReplaysIntro ==
    ASSUME NEW log, NEW user, NEW q, NEW open, NEW s, NEW t, NEW m, NEW n,
           Tracks(log, user, q, open, t, m), SameLink(s, t), t.revision = s.revision + n
    PROVE  Replays(log, user, q, open, s, [s |-> t, sent |-> m], n)
BY DEF Replays

\* One turn of handleHistory's loop.
LEMMA EntryReplays ==
    ASSUME NEW log, Written(log),
           NEW user, NEW q, IsSeq(q), NEW open \in BOOLEAN,
           NEW s, s.selfId = user, s.revision \in Nat, NEW n \in Nat,
           NEW t, NEW m, Tracks(log, user, q, open, t, m), SameLink(s, t),
           t.revision = s.revision + n, s.revision + n < Len(log)
    PROVE  Replays(log, user, q, open, s,
                   HistoryEntry([s |-> t, sent |-> m], log[s.revision + (n + 1)]), n + 1)
<1> DEFINE entry == log[s.revision + (n + 1)]
           w == t.revision
           st == [s |-> t, sent |-> m]
           a == Ack(t, entry.op)
           b == Remote(t, entry.op)
           e == HistoryEntry(st, entry)
<1>1. t.failed = "none" /\ t.selfId = user
    BY DEF Tracks, Mirrors, SameLink
<1>2. s.revision + (n + 1) = w + 1 /\ w < Len(log)
    OBVIOUS
<1>3. entry = log[w + 1]
    BY <1>2
<1>4. CASE entry.id = user
  <2>1. e = [s |-> a.s, sent |-> m \o a.sent]
      BY <1>1, <1>4 DEF HistoryEntry
  <2>2. log[w + 1].id = user
      BY <1>3, <1>4
  <2>3. a = Ack(t, log[w + 1].op)
      BY <1>3
  <2> HIDE DEF e, a, entry
  <2>4. /\ Tracks(log, user, q, open, a.s, m \o a.sent)
        /\ SameLink(t, a.s) /\ a.s.revision = w + 1
      BY <1>2, <2>2, <2>3, TracksAck
  <2>5. SameLink(s, a.s) /\ a.s.revision = s.revision + (n + 1)
      BY <1>2, <2>4 DEF SameLink
  <2>6. Replays(log, user, q, open, s, e, n + 1)
      BY <2>1, <2>4, <2>5, ReplaysIntro
  <2> QED BY <2>6 DEF e, entry
<1>5. CASE entry.id # user
  <2>1. e = [s |-> b, sent |-> m]
      BY <1>1, <1>5 DEF HistoryEntry
  <2>2. log[w + 1].id # user
      BY <1>3, <1>5
  <2>3. b = Remote(t, log[w + 1].op)
      BY <1>3
  <2> HIDE DEF e, b, entry
  <2>4. /\ Tracks(log, user, q, open, b, m)
        /\ SameLink(t, b) /\ b.revision = w + 1
      BY <1>2, <2>2, <2>3, TracksRemote
  <2>5. SameLink(s, b) /\ b.revision = s.revision + (n + 1)
      BY <1>2, <2>4 DEF SameLink
  <2>6. Replays(log, user, q, open, s, e, n + 1)
      BY <2>1, <2>4, <2>5, ReplaysIntro
  <2> QED BY <2>6 DEF e, entry
<1> QED BY <1>4, <1>5

\* A session with a baseline reads a History: its own entries are the operations
\* it has outstanding, one after the other (session.ts, handleHistory).
LEMMA ReplayDoes ==
    ASSUME NEW log, Written(log),
           NEW user, NEW q, IsSeq(q), NEW open \in BOOLEAN,
           NEW s, s.selfId = user, Tracks(log, user, q, open, s, << >>),
           NEW entries, Slice(log, s.revision, entries)
    PROVE  Replays(log, user, q, open, s, Replay(s, entries), Len(entries))
<1> DEFINE N == Len(entries)
           v == s.revision
<1>1. N \in Nat /\ v \in Nat /\ Len(log) \in Nat /\ v + N <= Len(log)
    BY IsSeqLen DEF Slice, Tracks, Mirrors, Written
<1>2. PICK after : ReplayRun(s, entries, after)
    BY ReplayUnfold DEF Slice
<1>3. after[0] = Quietly(s) /\ \A n \in 1..N : after[n] = HistoryEntry(after[n - 1], entries[n])
    BY <1>2 DEF ReplayRun
<1>4. Replay(s, entries) = after[N]
    BY <1>2 DEF ReplayRun
<1>5. \A n \in 1..N : entries[n] = log[v + n]
    BY DEF Slice
<1> DEFINE R == {n \in 0..N : Replays(log, user, q, open, s, after[n], n)}
<1> HIDE DEF N
<1>6. 0 \in R
  <2>1. after[0] = [s |-> s, sent |-> << >>] /\ 0 \in 0..N /\ v = v + 0
      BY <1>1, <1>3 DEF Quietly
  <2>2. SameLink(s, s)
      BY DEF SameLink
  <2>3. Replays(log, user, q, open, s, [s |-> s, sent |-> << >>], 0)
      BY <2>1, <2>2, ReplaysIntro
  <2> QED BY <2>1, <2>3
<1>7. ASSUME NEW n \in 0..(N - 1), n \in R PROVE n + 1 \in R
  <2> DEFINE t == after[n].s
             m == after[n].sent
  <2>1. /\ n + 1 \in 1..N /\ (n + 1) - 1 = n /\ n + 1 \in 0..N /\ n \in Nat
        /\ v + n < Len(log)
      BY <1>1
  <2>2. Replays(log, user, q, open, s, after[n], n)
      BY <1>7
  <2>3. /\ after[n] = [s |-> t, sent |-> m]
        /\ Tracks(log, user, q, open, t, m) /\ SameLink(s, t)
        /\ t.revision = v + n
      BY <2>2 DEF Replays
  <2> HIDE DEF t, m
  <2>4. after[n + 1] = HistoryEntry([s |-> t, sent |-> m], log[v + (n + 1)])
      BY <1>3, <1>5, <2>1, <2>3
  <2>5. Replays(log, user, q, open, s, after[n + 1], n + 1)
      BY <1>1, <2>1, <2>3, <2>4, EntryReplays
  <2> QED BY <2>1, <2>5
<1>8. 0..N \subseteq R
  <2> HIDE DEF R
  <2> QED BY <1>1, <1>6, <1>7, BoundedInduction
<1>9. N \in 0..N
    BY <1>1
<1> QED BY <1>4, <1>8, <1>9 DEF N

\* A session gets its baseline from the first History of a connection, which
\* carries the log from its start (session.ts, establishBaseline).
LEMMA BaselineTracks ==
    ASSUME NEW log, Written(log), NEW s, Mirrors(s, log), s.connected,
           NEW user, NoOwn(log, 0, user),
           NEW q, IsSeq(q), NoEdit(q), NEW open \in BOOLEAN,
           NEW entries, Slice(log, 0, entries), s.revision <= Len(entries)
    PROVE  LET r == EstablishBaseline(s, 0, entries)
           IN  /\ Tracks(log, user, q, open, r.s, r.sent)
               /\ r.s.selfId = s.selfId /\ r.s.connected /\ r.s.baselined
               /\ r.s.revision = Len(entries)
<1> DEFINE r == EstablishBaseline(s, 0, entries)
           t == r.s
           n == Len(entries)
           p == t.pending
<1>1. Established(s, r, n, log)
    BY EstablishBaselineDoes
<1>2. n \in Nat /\ s.revision \in Nat /\ s.revision <= n
    BY IsSeqLen DEF Slice, Mirrors
<1> HIDE DEF n, r
<1>3. NoOwn(log, n, user)
    BY <1>2, NoOwnLater
<1>4. /\ Mirrors(t, log) /\ Pends(t)
      /\ t.selfId = s.selfId /\ t.connected /\ t.baselined /\ t.revision = n
    BY <1>1 DEF Established
<1>5. /\ IsSeq(r.sent) /\ AllLegible(log, r.sent)
      /\ Outstanding(log, n, user, Sent(q, r.sent, open), p, open)
  <2>1. CASE p = << >> /\ r.sent = << >>
    <3>1. Outstanding(log, n, user, q, << >>, open)
        BY <1>3 DEF Outstanding
    <3>2. Outstanding(log, n, user, Sent(q, << >>, open), << >>, open)
        BY <3>1, IsSeqEmpty, EmptyQueue, OutstandingMore
    <3> QED BY <2>1, <3>2, IsSeqEmpty, EmptyQueue
  <2>2. ASSUME NEW op, NEW f, r.sent = <<Edit(s.revision, op)>>,
               EditOK(log, Edit(s.revision, op)),
               Trace(log, f, s.revision, Len(log)), f[s.revision] = op,
               p # << >>, p[1] = f[n]
        PROVE  /\ IsSeq(r.sent) /\ AllLegible(log, r.sent)
               /\ Outstanding(log, n, user, Sent(q, r.sent, open), p, open)
    <3> DEFINE m == Edit(s.revision, op)
    <3>1. m.revision = s.revision /\ m.op = op
        BY DEF Edit
    <3> HIDE DEF m, p
    <3>2. EditOK(log, m) /\ f[m.revision] = m.op /\ Trace(log, f, m.revision, Len(log))
        BY <2>2, <3>1 DEF m
    <3>3. m.revision <= n
        BY <1>2, <3>1
    <3>4. Aims(log, m, n, p[1])
        BY <2>2, <3>2, <3>3 DEF Aims
    <3>5. Outstanding(log, n, user, Sent(q, <<m>>, open), p, open)
        BY <1>2, <1>3, <2>2, <3>4, OutstandingSend
    <3>6. AllLegible(log, <<m>>) /\ IsSeq(<<m>>)
        BY <3>2, OneMessage, IsSeqOne DEF Legible
    <3> QED BY <2>2, <3>5, <3>6 DEF m
  <2> QED BY <1>1, <2>1, <2>2 DEF Established
<1>6. Outstanding(log, t.revision, user, Sent(q, r.sent, open), t.pending, open)
    BY <1>4, <1>5
<1>7. Tracks(log, user, q, open, t, r.sent)
    BY <1>4, <1>5, <1>6 DEF Tracks
<1> QED BY <1>4, <1>7 DEF n, r

\* A session without a baseline has sent no edit of the connection's.
Untold(log, user, q) == NoEdit(q) /\ NoOwn(log, 0, user)

\* What a session's edits are to the room, with a baseline and without.
Reports(log, user, q, open, s) ==
    IF s.baselined THEN Outstanding(log, s.revision, user, q, s.pending, open)
                   ELSE Untold(log, user, q)

\* A user edits (session.ts, applyLocalChange).
LEMMA EditReports ==
    ASSUME NEW log, Written(log), NEW s, Mirrors(s, log),
           s.baselined => Pends(s), ~s.everBaselined => s.revision = 0,
           NEW op, NEW e, Does(op, s.text, e),
           NEW user, NEW q, IsSeq(q), NEW open \in BOOLEAN,
           s.connected => Reports(log, user, q, open, s)
    PROVE  LET r == ApplyLocalChange(s, op)
           IN  /\ Mirrors(r.s, log) /\ (r.s.baselined => Pends(r.s))
               /\ IsSeq(r.sent) /\ AllLegible(log, r.sent)
               /\ r.s.selfId = s.selfId /\ r.s.connected = s.connected
               /\ r.s.revision = s.revision
               /\ s.connected => Reports(log, user, Sent(q, r.sent, open), open, r.s)
<1> DEFINE r == ApplyLocalChange(s, op)
           t == r.s
           v == s.revision
           p == t.pending
<1>1. AppliedLocally(s, r, log)
    BY ApplyLocalChangeDoes
<1>2. v \in Nat
    BY DEF Mirrors
<1>4. s.baselined => s.connected
    BY DEF Mirrors, SessionOK
<1> HIDE DEF r
<1>5. /\ Mirrors(t, log) /\ t.selfId = s.selfId /\ t.connected = s.connected
      /\ t.revision = v
    BY <1>1 DEF AppliedLocally
<1>6. CASE ~s.baselined /\ ~t.baselined /\ r.sent = << >>
  <2>1. s.connected => NoEdit(q) /\ NoOwn(log, 0, user)
      BY <1>6 DEF Reports, Untold
  <2>2. NoEdit(q) => NoEdit(Sent(q, << >>, open))
      BY IsSeqEmpty, EmptyQueue, ConcatEdits DEF Sent
  <2> QED BY <1>5, <1>6, <2>1, <2>2, IsSeqEmpty, EmptyQueue DEF Reports, Untold, r
<1>7. CASE /\ s.baselined /\ s.pending # << >>
           /\ t.baselined /\ Pends(t)
           /\ p # << >> /\ p[1] = s.pending[1]
           /\ r.sent = << >>
  <2>1. Outstanding(log, v, user, q, s.pending, open)
      BY <1>4, <1>7 DEF Reports
  <2>2. Outstanding(log, v, user, q, p, open)
      BY <1>7, <2>1 DEF Outstanding
  <2> HIDE DEF p
  <2>3. Outstanding(log, v, user, Sent(q, << >>, open), p, open)
      BY <2>2, IsSeqEmpty, EmptyQueue, OutstandingMore
  <2>4. Reports(log, user, Sent(q, r.sent, open), open, t)
      BY <1>5, <1>7, <2>3 DEF Reports, p
  <2> QED BY <1>5, <1>7, <2>4, IsSeqEmpty, EmptyQueue DEF r
<1>8. ASSUME s.baselined => s.pending = << >>, t.baselined, Pends(t),
             NEW o, p # << >>, p[1] = o, r.sent = <<Edit(v, o)>>, EditOK(log, Edit(v, o))
      PROVE  /\ Pends(t) /\ IsSeq(r.sent) /\ AllLegible(log, r.sent)
             /\ s.connected => Reports(log, user, Sent(q, r.sent, open), open, t)
  <2> DEFINE m == Edit(v, o)
  <2>1. Aims(log, m, v, o)
      BY <1>8, AimsNow
  <2>2. AllLegible(log, <<m>>) /\ IsSeq(<<m>>)
      BY <1>8, OneMessage, IsSeqOne DEF Legible
  <2>3. ASSUME s.connected PROVE NoEdit(q) /\ NoOwn(log, v, user)
    <3>1. CASE s.baselined
        BY <1>8, <2>3, <3>1 DEF Reports, Outstanding
    <3>2. CASE ~s.baselined
      <4>1. NoEdit(q) /\ NoOwn(log, 0, user)
          BY <2>3, <3>2 DEF Reports, Untold
      <4>2. 0 \in Nat /\ 0 <= v
          BY <1>2
      <4> HIDE DEF v
      <4> QED BY <1>2, <4>1, <4>2, NoOwnLater
    <3> QED BY <3>1, <3>2
  <2> HIDE DEF m, p, v
  <2>4. ASSUME s.connected PROVE Outstanding(log, v, user, Sent(q, <<m>>, open), p, open)
      BY <1>2, <1>8, <2>1, <2>3, <2>4, OutstandingSend
  <2>5. s.connected => Reports(log, user, Sent(q, r.sent, open), open, t)
      BY <1>5, <1>8, <2>4 DEF Reports, p, m
  <2> QED BY <1>8, <2>2, <2>5 DEF m
<1> QED BY <1>1, <1>5, <1>6, <1>7, <1>8 DEF AppliedLocally, r

---------------------------------------------------------------------------
(* What a connection carries to its client.                                *)

\* A client that has read a entries of the log has read b of them after message
\* m, if that is a History of the log's next ones.
Passes(log, m, a, b) ==
    IF m.type = "History" THEN /\ m.start = a /\ a \in Nat
                               /\ Slice(log, a, m.ops)
                               /\ b = a + Len(m.ops)
                          ELSE b = a

\* Queue d carries the entries of the log after the first a, up to entry b: its
\* Histories each start where the one before it ended.
Covers(log, d, a, b) ==
    \E g : /\ g[1] = a /\ g[Len(d) + 1] = b
           /\ \A i \in DOMAIN d : Passes(log, d[i], g[i], g[i + 1])

\* An empty queue carries nothing.
LEMMA CoversNothing ==
    ASSUME NEW log, NEW a, NEW b
    PROVE  Covers(log, << >>, a, b) <=> a = b
<1>1. DOMAIN << >> = {} /\ Len(<< >>) + 1 = 1
    BY IsSeqEmpty
<1>2. ASSUME Covers(log, << >>, a, b) PROVE a = b
    BY <1>1, <1>2 DEF Covers
<1>3. ASSUME a = b PROVE Covers(log, << >>, a, b)
  <2> DEFINE g == [i \in {1} |-> a]
  <2>1. g[1] = a
      OBVIOUS
  <2> HIDE DEF g
  <2> QED BY <1>1, <1>3, <2>1 DEF Covers
<1> QED BY <1>2, <1>3

\* Reading the head of the queue.
LEMMA CoversTail ==
    ASSUME NEW log, NEW d, IsSeq(d), d # << >>, NEW a, NEW b, Covers(log, d, a, b)
    PROVE  \E c : Passes(log, Head(d), a, c) /\ Covers(log, Tail(d), c, b)
<1> DEFINE r == Tail(d)
           L == Len(d)
<1>1. /\ Head(d) = d[1] /\ 1 \in DOMAIN d
      /\ \A i \in DOMAIN r : i + 1 \in DOMAIN d /\ r[i] = d[i + 1]
    BY TailIndex
<1>2. /\ L \in Nat /\ IsSeq(r) /\ Len(r) = L - 1 /\ L # 0
    BY IsSeqLen, IsSeqTail, IsSeqNone
<1>3. DOMAIN r = 1..Len(r)
    BY <1>2, IsSeqLen
<1>4. PICK g : /\ g[1] = a /\ g[L + 1] = b
               /\ \A i \in DOMAIN d : Passes(log, d[i], g[i], g[i + 1])
    BY DEF Covers
<1> DEFINE h == [i \in 1..L |-> g[i + 1]]
<1> HIDE DEF r, L
<1>5. h[1] = g[2] /\ h[Len(r) + 1] = b
    BY <1>2, <1>4
<1>6. \A i \in DOMAIN r : h[i] = g[i + 1] /\ h[i + 1] = g[(i + 1) + 1]
    BY <1>2, <1>3
<1> HIDE DEF h
<1>7. \A i \in DOMAIN r : Passes(log, r[i], h[i], h[i + 1])
    BY <1>1, <1>4, <1>6
<1>8. Covers(log, r, g[2], b)
    BY <1>5, <1>7 DEF Covers
<1>9. Passes(log, d[1], a, g[2])
  <2>1. 1 + 1 = 2
      OBVIOUS
  <2> QED BY <1>1, <1>4, <2>1
<1> QED BY <1>1, <1>8, <1>9 DEF r

\* A message at the end of the queue.
LEMMA CoversAppend ==
    ASSUME NEW log, NEW d, IsSeq(d), NEW a, NEW b, Covers(log, d, a, b),
           NEW m, NEW c, Passes(log, m, b, c)
    PROVE  Covers(log, Append(d, m), a, c)
<1> DEFINE q == Append(d, m)
           L == Len(d)
<1>1. /\ IsSeq(q) /\ Len(q) = L + 1
      /\ \A i \in 1..(L + 1) : q[i] = IF i <= L THEN d[i] ELSE m
    BY IsSeqAppend
<1>2. L \in Nat /\ DOMAIN d = 1..L /\ DOMAIN q = 1..Len(q)
    BY <1>1, IsSeqLen
<1>3. PICK g : /\ g[1] = a /\ g[L + 1] = b
               /\ \A i \in DOMAIN d : Passes(log, d[i], g[i], g[i + 1])
    BY DEF Covers
<1> DEFINE h == [i \in 1..(L + 2) |-> IF i <= L + 1 THEN g[i] ELSE c]
<1> HIDE DEF q, L
<1>4. /\ h[1] = a /\ h[Len(q) + 1] = c /\ h[L + 1] = b /\ h[(L + 1) + 1] = c
      /\ \A i \in 1..L : h[i] = g[i] /\ h[i + 1] = g[i + 1]
    BY <1>1, <1>2, <1>3
<1> HIDE DEF h
<1>5. ASSUME NEW i \in DOMAIN q PROVE Passes(log, q[i], h[i], h[i + 1])
  <2>1. CASE i \in 1..L
    <3>1. q[i] = d[i] /\ h[i] = g[i] /\ h[i + 1] = g[i + 1]
        BY <1>1, <1>2, <1>4, <2>1
    <3> QED BY <1>2, <1>3, <2>1, <3>1
  <2>2. CASE i = L + 1
    <3>1. q[L + 1] = m
        BY <1>1, <1>2
    <3> QED BY <1>4, <2>2, <3>1
  <2> QED BY <1>1, <1>2, <2>1, <2>2
<1> QED BY <1>4, <1>5 DEF Covers, q

\* The same queue, when the log is longer.
LEMMA CoversGrows ==
    ASSUME NEW log, NEW more, NEW entry, Grows(log, more, entry),
           NEW d, NEW a, NEW b, Covers(log, d, a, b)
    PROVE  Covers(more, d, a, b)
<1>1. ASSUME NEW m, NEW x, NEW y, Passes(log, m, x, y) PROVE Passes(more, m, x, y)
  <2>1. ASSUME m.type = "History" PROVE Slice(more, x, m.ops)
    <3> DEFINE n == Len(m.ops)
    <3>1. /\ x \in Nat /\ IsSeq(m.ops) /\ x + n <= Len(log)
          /\ \A i \in 1..n : m.ops[i] = log[x + i]
        BY <1>1, <2>1 DEF Passes, Slice
    <3>2. n \in Nat
        BY <3>1, IsSeqLen
    <3> HIDE DEF n
    <3>3. \A i \in 1..n : x + i \in 1..Len(log)
        BY <3>1, <3>2 DEF Grows
    <3>4. \A i \in 1..n : m.ops[i] = more[x + i]
        BY <3>1, <3>3 DEF Grows
    <3>5. x + n <= Len(more)
        BY <3>1, <3>2 DEF Grows
    <3> QED BY <3>1, <3>4, <3>5 DEF Slice, n
  <2> QED BY <1>1, <2>1 DEF Passes
<1> QED BY <1>1 DEF Covers

\* Session id self is, or will be once the queue is read, the connection's user.
Intro(self, d, user) ==
    /\ \A i \in DOMAIN d : d[i].type = "Identity" => d[i].user = user
    /\ self = user \/ (d # << >> /\ Head(d).type = "Identity")

\* Reading the head of the queue.
LEMMA IntroTail ==
    ASSUME NEW self, NEW d, IsSeq(d), d # << >>, NEW user, Intro(self, d, user)
    PROVE  /\ Head(d).type # "Identity" => self = user /\ Intro(self, Tail(d), user)
           /\ Head(d).type = "Identity" => /\ Head(d).user = user
                                           /\ Intro(user, Tail(d), user)
BY TailIndex DEF Intro

\* Something else at the end of the queue.
LEMMA IntroAppend ==
    ASSUME NEW self, NEW d, IsSeq(d), NEW user, Intro(self, d, user),
           NEW m, m.type # "Identity"
    PROVE  Intro(self, Append(d, m), user)
<1> DEFINE q == Append(d, m)
<1>1. /\ \A i \in DOMAIN q : \/ i \in DOMAIN d /\ q[i] = d[i]
                             \/ i = Len(d) + 1 /\ q[i] = m
    BY AppendIndex
<1>2. ASSUME d # << >> PROVE q # << >> /\ Head(q) = Head(d)
  <2>1. IsSeq(q) /\ Len(q) = Len(d) + 1 /\ Len(d) \in Nat /\ Len(d) # 0
        /\ \A i \in 1..(Len(d) + 1) : q[i] = IF i <= Len(d) THEN d[i] ELSE m
      BY <1>2, IsSeqAppend, IsSeqLen, IsSeqNone
  <2> DEFINE L == Len(d)
  <2> HIDE DEF L, q
  <2>2. Len(q) # 0 /\ q[1] = d[1]
      BY <2>1 DEF L
  <2>3. q # << >>
      BY <2>1, <2>2, IsSeqNone
  <2>4. Head(d) = d[1] /\ Head(q) = q[1]
      BY <1>2, <2>1, <2>3, TailIndex
  <2> QED BY <2>2, <2>3, <2>4
<1> HIDE DEF q
<1> QED BY <1>1, <1>2 DEF Intro, q

---------------------------------------------------------------------------
(* The room rebases an edit.                                               *)

\* The loop of ApplyEdit, as the function its definition describes.
RebaseRun(m, missed, run) ==
    /\ run[0] = [op |-> m.op, ok |-> TRUE]
    /\ \A k \in 1..Len(missed) :
          LET t == Transform(run[k - 1].op, missed[k].op)
          IN  run[k] = [op |-> t.a, ok |-> run[k - 1].ok /\ t.ok]
    /\ Rebased(m) = run[Len(missed)]

\* There is such a function.
LEMMA RebaseUnfold ==
    ASSUME NEW m, NEW missed, IsSeq(missed),
           missed = SubSeq(ops, m.revision + 1, Len(ops))
    PROVE  \E run : RebaseRun(m, missed, run)
<1> DEFINE N == Len(missed)
           start == [op |-> m.op, ok |-> TRUE]
           Step(x, k) == LET t == Transform(x.op, missed[k].op)
                         IN  [op |-> t.a, ok |-> x.ok /\ t.ok]
           Loop(f, n) == f = [k \in 0..n |-> IF k = 0 THEN start ELSE Step(f[k - 1], k)]
           S == {n \in 0..N : \E f : Loop(f, n)}
           run == CHOOSE f : Loop(f, N)
<1>1. N \in Nat
    BY IsSeqLen
<1>2. Rebased(m) = run[N]
    BY DEF Rebased
<1> HIDE DEF N, Step, start
<1>3. 0 \in S
  <2>1. Loop([k \in 0..0 |-> start], 0)
      OBVIOUS
  <2> HIDE DEF Loop
  <2> QED BY <1>1, <2>1
<1>4. ASSUME NEW n \in 0..(N - 1), n \in S PROVE n + 1 \in S
  <2>1. PICK f : Loop(f, n)
      BY <1>4
  <2> DEFINE g == [k \in 0..(n + 1) |-> IF k <= n THEN f[k] ELSE Step(f[n], n + 1)]
  <2>2. Loop(g, n + 1)
      BY <1>1, <2>1
  <2> HIDE DEF Loop
  <2> QED BY <1>1, <2>2
<1>5. N \in S
  <2> HIDE DEF S
  <2>1. 0..N \subseteq S
      BY <1>1, <1>3, <1>4, BoundedInduction
  <2>2. N \in 0..N
      BY <1>1
  <2> QED BY <2>1, <2>2
<1>6. Loop(run, N)
    BY <1>5
<1> HIDE DEF run
<1>7. run[0] = start /\ \A k \in 1..N : run[k] = Step(run[k - 1], k)
    BY <1>1, <1>6
<1>8. RebaseRun(m, missed, run)
    BY <1>2, <1>7 DEF RebaseRun, N, Step, start
<1> QED BY <1>8

\* Rebased along any trace that starts with it, an edit comes out as the trace
\* does, and none of the transforms fails (room.go, ApplyEdit).
LEMMA RebasedTraces ==
    ASSUME Written(ops), NEW m, EditOK(ops, m),
           NEW f, f[m.revision] = m.op, Trace(ops, f, m.revision, Len(ops))
    PROVE  Rebased(m).ok /\ Rebased(m).op = f[Len(ops)]
<1> DEFINE L == Len(ops)
           r == m.revision
           missed == SubSeq(ops, r + 1, L)
           N == L - r
<1>1. L \in Nat /\ r \in 0..L /\ r \in Nat /\ r <= L /\ IsSeq(ops)
    BY IsSeqLen DEF Written, EditOK
<1>2. /\ IsSeq(missed) /\ Len(missed) = N
      /\ \A k \in 1..N : missed[k] = ops[r + k]
  <2> DEFINE n == r + 1
  <2>1. n \in Nat \ {0} /\ L \in (n - 1)..L
      BY <1>1
  <2> HIDE DEF n, L
  <2>2. /\ IsSeq(SubSeq(ops, n, L)) /\ Len(SubSeq(ops, n, L)) = L - n + 1
        /\ \A i \in 1..(L - n + 1) : SubSeq(ops, n, L)[i] = ops[n + i - 1]
      BY <1>1, <2>1, SegmentOK DEF L
  <2>3. L - n + 1 = N /\ \A i \in 1..N : n + i - 1 = r + i
      BY <1>1 DEF n
  <2> QED BY <2>2, <2>3 DEF n
<1>3. PICK run : RebaseRun(m, missed, run)
    BY <1>2, RebaseUnfold
<1>4. PICK e : Does(m.op, TextOf(ops, r), e)
    BY DEF EditOK
<1>5. \A k \in r..(L - 1) : Transform(f[k], ops[k + 1].op).ok
  <2>1. L <= Len(ops)
      BY <1>1
  <2>2. Does(f[r], TextOf(ops, r), e)
      BY <1>4
  <2> HIDE DEF r, L
  <2>3. Trace(ops, f, r, L)
      BY DEF r, L
  <2> QED BY <1>1, <2>1, <2>2, <2>3, TraceDoes
<1>6. \A k \in r..(L - 1) : f[k + 1] = Transform(f[k], ops[k + 1].op).a
    BY DEF Trace
<1>7. /\ run[0] = [op |-> m.op, ok |-> TRUE]
      /\ \A k \in 1..N : LET t == Transform(run[k - 1].op, ops[r + k].op)
                         IN  run[k] = [op |-> t.a, ok |-> run[k - 1].ok /\ t.ok]
      /\ Rebased(m) = run[N]
    BY <1>2, <1>3, ZenonT(40) DEF RebaseRun
<1> DEFINE Good(k) == run[k].op = f[r + k] /\ run[k].ok
           S == {k \in 0..N : Good(k)}
<1>8. N \in Nat /\ r + N = L /\ N \in 0..N /\ 0 \in 0..N /\ r + 0 = r
    BY <1>1
<1> HIDE DEF L, missed
<1>9. 0 \in S
    BY <1>7, <1>8
<1>10. ASSUME NEW k \in 0..(N - 1), k \in S PROVE k + 1 \in S
  <2> DEFINE n == r + k
             t == Transform(run[k].op, ops[n + 1].op)
  <2>1. /\ k + 1 \in 1..N /\ (k + 1) - 1 = k /\ k + 1 \in 0..N
        /\ n \in r..(L - 1) /\ r + (k + 1) = n + 1
      BY <1>1, <1>8
  <2>2. run[k].op = f[n] /\ run[k].ok
      BY <1>10
  <2> HIDE DEF n
  <2>3. run[k + 1] = [op |-> t.a, ok |-> run[k].ok /\ t.ok]
      BY <1>7, <2>1
  <2>4. t.ok /\ t.a = f[n + 1]
      BY <1>5, <1>6, <2>1, <2>2
  <2> DEFINE x == t.a
             y == run[k].ok /\ t.ok
  <2>5. run[k + 1] = [op |-> x, ok |-> y]
      BY <2>3
  <2>6. x = f[n + 1] /\ y
      BY <2>2, <2>4
  <2> HIDE DEF t, x, y
  <2>7. run[k + 1].op = f[n + 1] /\ run[k + 1].ok
      BY <2>5, <2>6
  <2> QED BY <2>1, <2>7
<1>11. 0..N \subseteq S
  <2> HIDE DEF S, N
  <2> QED BY <1>8, <1>9, <1>10, BoundedInduction
<1>12. run[N].op = f[r + N] /\ run[N].ok
    BY <1>8, <1>11
<1> QED BY <1>7, <1>8, <1>12 DEF L

\* The rebased edit applies to the log's last text.
LEMMA RebasedDoes ==
    ASSUME Written(ops), NEW m, EditOK(ops, m)
    PROVE  /\ Rebased(m).ok
           /\ RebasedTo(ops, m, Rebased(m).op)
           /\ \E e : Does(Rebased(m).op, TextOf(ops, Len(ops)), e)
<1> DEFINE L == Len(ops)
           r == m.revision
<1>1. L \in Nat /\ r \in Nat /\ r <= L /\ L \in r..L /\ L <= L
    BY IsSeqLen DEF Written, EditOK
<1>2. PICK f : f[r] = m.op /\ Trace(ops, f, r, L)
  <2> HIDE DEF L, r
  <2> QED BY <1>1, TraceExists
<1>3. PICK e : Does(m.op, TextOf(ops, r), e)
    BY DEF EditOK
<1>4. Rebased(m).ok /\ Rebased(m).op = f[L]
    BY <1>2, RebasedTraces
<1>5. RebasedTo(ops, m, Rebased(m).op)
    BY RebasedTraces DEF RebasedTo
<1>6. \E d : Does(f[L], TextOf(ops, L), d)
  <2>1. Does(f[r], TextOf(ops, r), e)
      BY <1>2, <1>3
  <2> HIDE DEF L, r
  <2>2. L <= Len(ops)
      BY <1>1 DEF L
  <2>3. \A k \in r..L : \E d : Does(f[k], TextOf(ops, k), d)
      BY <1>1, <1>2, <2>1, <2>2, TraceDoes
  <2> QED BY <1>1, <2>3
<1> QED BY <1>4, <1>5, <1>6

---------------------------------------------------------------------------
(* The invariant.                                                          *)

\* The log is written, the document is its last text, and each entry is by a
\* user who has an id already.
LogWritten ==
    /\ Written(ops)
    /\ docText = TextOf(ops, Len(ops))
    /\ \A n \in 1..Len(ops) : ops[n].id \in Nat /\ ops[n].id < nextID

\* A connection that has been opened has an id of its own.
IdsDistinct ==
    \A k \in Conns :
        /\ id[k] < nextID
        /\ link[k] # "none" => id[k] # 0
        /\ \A j \in Conns : id[k] = id[j] /\ id[k] # 0 => k = j

\* Nothing has happened on a connection that has not been opened.
ConnsFresh ==
    \A k \in Conns : k[2] > episode[k[1]] =>
        link[k] = "none" /\ sent[k] = 0 /\ up[k] = << >>

\* The room can take everything on its way to it.
UpLegible == \A k \in Conns : AllLegible(ops, up[k])

\* The carets the room keeps are inside the document.
CursorsInside == \A k \in Conns : CaretIn(cursors[k], docText)

\* Every session mirrors the log, and with a baseline its pending operations
\* make its text of the mirror.
SessionsMirror ==
    \A c \in Clients : Mirrors(sess[c], ops) /\ (sess[c].baselined => Pends(sess[c]))

\* What is between a connected session and the room: its id, the entries it has
\* not read, and its outstanding operation.
Talks(s, log, user, q, d, n, open) ==
    /\ Intro(s.selfId, d, user)
    /\ Covers(log, d, IF s.baselined THEN s.revision ELSE 0, n)
    /\ Reports(log, user, q, open, s)

InTouch(s, k) ==
    /\ link[k] \in {"open", "closing"}
    /\ Talks(s, ops, id[k], up[k], down[k], sent[k], link[k] = "open")

ClientsInTouch == \A c \in Clients : sess[c].connected => InTouch(sess[c], Current(c))

CInv ==
    /\ IInv
    /\ LogWritten /\ IdsDistinct /\ ConnsFresh /\ UpLegible /\ CursorsInside
    /\ SessionsMirror /\ ClientsInTouch

\* A step of the server's on connection k that leaves the log alone.
LEMMA ServerKeeps ==
    ASSUME CInv, IInv', NEW k \in Conns, link[k] # "none",
           UNCHANGED <<docText, ops, nextID, id, sess, episode>>,
           \A j \in Conns : j # k => /\ link'[j] = link[j] /\ up'[j] = up[j]
                                     /\ down'[j] = down[j] /\ sent'[j] = sent[j],
           link'[k] # "none", AllLegible(ops, up'[k]), CursorsInside',
           \A c \in Clients : sess[c].connected /\ Current(c) = k /\ InTouch(sess[c], k)
                                 => InTouch(sess[c], k)'
    PROVE  CInv'
<1>1. LogWritten'
    BY DEF CInv, LogWritten
<1>2. IdsDistinct'
    BY DEF CInv, IdsDistinct
<1>3. ConnsFresh'
  <2>1. ASSUME NEW j \in Conns, j[2] > episode[j[1]]
        PROVE  link'[j] = "none" /\ sent'[j] = 0 /\ up'[j] = << >>
    <3>1. link[j] = "none" /\ sent[j] = 0 /\ up[j] = << >>
        BY <2>1 DEF CInv, ConnsFresh
    <3> QED BY <3>1
  <2> QED BY <2>1 DEF ConnsFresh
<1>4. UpLegible'
    BY DEF CInv, UpLegible
<1>5. SessionsMirror'
    BY DEF CInv, SessionsMirror
<1>6. ClientsInTouch'
  <2>1. ASSUME NEW c \in Clients, sess[c].connected PROVE InTouch(sess[c], Current(c))'
    <3>1. InTouch(sess[c], Current(c)) /\ Current(c) \in Conns
        BY <2>1, Connections DEF CInv, IInv, ClientsInTouch
    <3>2. Current(c)' = Current(c)
        BY DEF Current
    <3>3. CASE Current(c) = k
        BY <2>1, <3>1, <3>2, <3>3 DEF InTouch
    <3>4. CASE Current(c) # k
        BY <3>1, <3>2, <3>4 DEF InTouch
    <3> QED BY <3>3, <3>4
  <2> QED BY <2>1 DEF ClientsInTouch
<1> QED BY <1>1, <1>2, <1>3, <1>4, <1>5, <1>6 DEF CInv

\* A step of client c's, whose session becomes s, that leaves the room alone.
LEMMA ClientKeeps ==
    ASSUME CInv, IInv', NEW c \in Clients, NEW s, sess' = [sess EXCEPT ![c] = s],
           UNCHANGED <<docText, ops, nextID, cursors, id, sent, episode>>,
           \A j \in Conns : /\ link'[j] = "none" <=> link[j] = "none"
                            /\ link[j] = "none" => up'[j] = up[j]
                            /\ AllLegible(ops, up'[j]),
           \A j \in Conns : j # Current(c) =>
                /\ link'[j] = link[j] /\ up'[j] = up[j] /\ down'[j] = down[j],
           Mirrors(s, ops), s.baselined => Pends(s),
           s.connected => /\ link'[Current(c)] \in {"open", "closing"}
                          /\ Talks(s, ops, id[Current(c)], up'[Current(c)],
                                   down'[Current(c)], sent[Current(c)],
                                   link'[Current(c)] = "open")
    PROVE  CInv'
<1>0. DOMAIN sess = Clients
    BY DEF CInv, IInv, TypeOK
<1>1. LogWritten' /\ CursorsInside'
    BY DEF CInv, LogWritten, CursorsInside
<1>2. IdsDistinct'
    BY DEF CInv, IdsDistinct
<1>3. ConnsFresh'
  <2>1. ASSUME NEW j \in Conns, j[2] > episode[j[1]]
        PROVE  link'[j] = "none" /\ sent'[j] = 0 /\ up'[j] = << >>
    <3>1. link[j] = "none" /\ sent[j] = 0 /\ up[j] = << >>
        BY <2>1 DEF CInv, ConnsFresh
    <3> QED BY <3>1
  <2> QED BY <2>1 DEF ConnsFresh
<1>4. UpLegible'
    BY DEF UpLegible
<1>5. SessionsMirror'
  <2>1. ASSUME NEW d \in Clients
        PROVE  Mirrors(sess'[d], ops) /\ (sess'[d].baselined => Pends(sess'[d]))
    <3>1. CASE d = c
        BY <1>0, <3>1
    <3>2. CASE d # c
      <4>1. sess'[d] = sess[d]
          BY <1>0, <3>2
      <4> QED BY <4>1 DEF CInv, SessionsMirror
    <3> QED BY <3>1, <3>2
  <2> QED BY <2>1 DEF SessionsMirror
<1>6. ClientsInTouch'
  <2>1. ASSUME NEW d \in Clients, sess'[d].connected
        PROVE  InTouch(sess[d], Current(d))'
    <3>1. Current(d)' = Current(d)
        BY DEF Current
    <3>2. CASE d = c
      <4>1. sess'[c] = s
          BY <1>0
      <4> HIDE DEF Talks
      <4> QED BY <2>1, <3>1, <3>2, <4>1 DEF InTouch
    <3>3. CASE d # c
      <4>1. sess'[d] = sess[d]
          BY <1>0, <3>3
      <4>2. InTouch(sess[d], Current(d)) /\ Current(d) \in Conns
          BY <2>1, <4>1, Connections DEF CInv, IInv, ClientsInTouch
      <4>3. Current(d) # Current(c)
          BY <3>3 DEF Current
      <4> QED BY <3>1, <4>1, <4>2, <4>3 DEF InTouch
    <3> QED BY <3>2, <3>3
  <2> QED BY <2>1 DEF ClientsInTouch
<1> QED BY <1>1, <1>2, <1>3, <1>4, <1>5, <1>6 DEF CInv

---------------------------------------------------------------------------
(* The server's steps.                                                     *)

\* The queues are sequences.
LEMMA QueuesOK ==
    ASSUME CInv, NEW k \in Conns
    PROVE  IsSeq(up[k]) /\ IsSeq(down[k]) /\ AllLegible(ops, up[k])
BY DEF CInv, IInv, TypeOK, UpQueueOK, DownQueueOK, UpLegible

\* Ending a connection: what is in its queues is lost, and with it, perhaps, the
\* client's outstanding operation.
LEMMA HangupKeeps ==
    ASSUME CInv, IInv', NEW k \in Conns, NEW code, Serving(k), Hangup(k, code)
    PROVE  CInv'
<1>1. /\ link' = [link EXCEPT ![k] = IF @ = "open" THEN "closing" ELSE "closed"]
      /\ down' = [down EXCEPT ![k] = IF link[k] = "open"
                                     THEN Append(@, Close(code)) ELSE << >>]
      /\ up' = [up EXCEPT ![k] = << >>]
      /\ cursors' = [cursors EXCEPT ![k] = << >>]
      /\ UNCHANGED <<docText, ops, nextID, id, sent, greeted, sess, episode>>
    BY DEF Hangup, clientVars
<1>2. /\ link \in [Conns -> {"none", "open", "lost", "closing", "closed"}]
      /\ DOMAIN down = Conns /\ DOMAIN up = Conns /\ DOMAIN cursors = Conns
    BY DEF CInv, IInv, TypeOK
<1>3. CursorsInside'
  <2>1. DOMAIN << >> = {}
      BY IsSeqEmpty
  <2>2. CaretIn(<< >>, docText)
      BY <2>1 DEF CaretIn
  <2> QED BY <1>1, <1>2, <2>2 DEF CInv, CursorsInside
<1>4. AllLegible(ops, up'[k])
    BY <1>1, <1>2, EmptyQueue
<1>5. ASSUME NEW c \in Clients, sess[c].connected, Current(c) = k, InTouch(sess[c], k)
      PROVE  InTouch(sess[c], k)'
  <2> DEFINE s == sess[c]
             d == down[k]
             user == id[k]
             n == sent[k]
             a == IF s.baselined THEN s.revision ELSE 0
             m == Close(code)
             q == up[k]
  <2>1. link[k] = "open"
      BY <1>5 DEF InTouch, Serving
  <2>2. link'[k] = "closing" /\ down'[k] = Append(d, m) /\ up'[k] = << >>
      BY <1>1, <1>2, <2>1
  <2>3. m.type # "Identity" /\ m.type # "History" /\ IsSeq(d)
      BY QueuesOK DEF Close
  <2>4. Intro(s.selfId, d, user) /\ Covers(ops, d, a, n) /\ Reports(ops, user, q, TRUE, s)
      BY <1>5, <2>1 DEF InTouch, Talks
  <2> HIDE DEF s, d, user, n, a, m, q
  <2>5. Intro(s.selfId, Append(d, m), user)
      BY <2>3, <2>4, IntroAppend
  <2>6. Covers(ops, Append(d, m), a, n)
      BY <2>3, <2>4, CoversAppend DEF Passes
  <2>7. Reports(ops, user, << >>, FALSE, s)
      BY <2>4, OutstandingCut, EmptyQueue DEF Reports, Untold
  <2>8. Talks(s, ops, user, << >>, Append(d, m), n, FALSE)
      BY <2>5, <2>6, <2>7 DEF Talks, a
  <2> QED BY <1>1, <2>2, <2>8 DEF InTouch, s, d, user, n
<1>6. link[k] # "none"
    BY DEF Serving
<1>7. link'[k] # "none"
    BY <1>1, <1>2
<1>8. \A j \in Conns : j # k => /\ link'[j] = link[j] /\ up'[j] = up[j]
                                /\ down'[j] = down[j] /\ sent'[j] = sent[j]
    BY <1>1, <1>2
<1> QED BY <1>1, <1>3, <1>4, <1>5, <1>6, <1>7, <1>8, ServerKeeps

\* Reading a caret.
LEMMA SetCursorKeeps ==
    ASSUME CInv, IInv', NEW k \in Conns, SetCursor(k)
    PROVE  CInv'
<1> DEFINE q == up[k]
           caret == Head(q).caret
<1>1. /\ link[k] # "none" /\ q # << >> /\ Head(q).type = "CursorData"
      /\ cursors' = [cursors EXCEPT ![k] = Clamp(caret)]
      /\ up' = [up EXCEPT ![k] = Tail(@)]
      /\ UNCHANGED <<docText, ops, nextID, link, id, sent, down, sess, episode>>
    BY DEF SetCursor, Serving, linkVars, clientVars
<1>2. /\ DOMAIN up = Conns /\ DOMAIN cursors = Conns
      /\ IsSeq(q) /\ AllLegible(ops, q)
    BY QueuesOK DEF CInv, IInv, TypeOK
<1>3. /\ AllLegible(ops, Tail(q)) /\ Legible(ops, Head(q))
      /\ NoEdit(q) => NoEdit(Tail(q))
    BY <1>1, <1>2, TailEdits
<1>4. CaretIn(Clamp(caret), docText)
  <2>1. \A i \in DOMAIN caret : caret[i] \in Nat
      BY <1>1, <1>3 DEF Legible, EditOK
  <2>2. IsSeq(docText)
    <3>1. Len(ops) \in 0..Len(ops)
        BY IsSeqLen DEF CInv, LogWritten, Written
    <3> QED BY <3>1, WrittenTexts DEF CInv, LogWritten
  <2>3. Len(docText) \in Nat
      BY <2>2, IsSeqLen
  <2> HIDE DEF caret
  <2> QED BY <2>1, <2>3 DEF CaretIn, Clamp
<1>5. CursorsInside'
  <2> HIDE DEF caret, q
  <2> QED BY <1>1, <1>2, <1>4 DEF CInv, CursorsInside
<1>6. up'[k] = Tail(q)
    BY <1>1, <1>2
<1>7. ASSUME NEW c \in Clients, InTouch(sess[c], k)
      PROVE  InTouch(sess[c], k)'
  <2> DEFINE s == sess[c]
             user == id[k]
             open == link[k] = "open"
  <2>1. Reports(ops, user, q, open, s) /\ Head(q).type # "Edit"
      BY <1>1, <1>7 DEF InTouch, Talks
  <2> HIDE DEF q, s, user, open
  <2>2. Reports(ops, user, Tail(q), open, s)
      BY <1>1, <1>2, <1>3, <2>1, OutstandingTail DEF Reports, Untold
  <2> QED BY <1>1, <1>6, <1>7, <2>2 DEF InTouch, Talks, s, user, open
<1>8. \A j \in Conns : j # k => up'[j] = up[j]
    BY <1>1, <1>2
<1> QED BY <1>1, <1>3, <1>5, <1>6, <1>7, <1>8, ServerKeeps

\* What the write loop sends is the rest of the log.
LEMMA RestSlice ==
    ASSUME NEW log, IsSeq(log), NEW from \in 0..Len(log)
    PROVE  /\ Slice(log, from, SubSeq(log, from + 1, Len(log)))
           /\ from + Len(SubSeq(log, from + 1, Len(log))) = Len(log)
<1> DEFINE L == Len(log)
           n == from + 1
           rest == SubSeq(log, n, L)
<1>1. L \in Nat /\ n \in Nat \ {0} /\ L \in (n - 1)..L /\ L \in Nat
    BY IsSeqLen
<1>2. L - n + 1 = L - from /\ from + (L - from) <= L /\ from + (L - from) = L
    BY <1>1
<1>3. \A i \in 1..(L - n + 1) : n + i - 1 = from + i
    BY <1>1
<1> HIDE DEF L, n
<1>4. /\ IsSeq(rest) /\ Len(rest) = L - n + 1
      /\ \A i \in 1..(L - n + 1) : rest[i] = log[n + i - 1]
    BY <1>1, SegmentOK DEF L
<1> HIDE DEF rest
<1>5. /\ IsSeq(rest) /\ from + Len(rest) = L /\ from + Len(rest) <= L
      /\ \A i \in 1..Len(rest) : rest[i] = log[from + i]
    BY <1>2, <1>3, <1>4
<1> QED BY <1>5 DEF Slice, rest, L, n

\* Sending what the log has gained: the History covers the rest of the log.
LEMMA PushKeeps ==
    ASSUME CInv, IInv', NEW k \in Conns, Push(k)
    PROVE  CInv'
<1> DEFINE L == Len(ops)
           n == sent[k]
           rest == SubSeq(ops, n + 1, L)
           m == History(n, rest)
           d == down[k]
<1>1. /\ link[k] = "open"
      /\ down' = [down EXCEPT ![k] = Append(@, m)]
      /\ sent' = [sent EXCEPT ![k] = L]
      /\ UNCHANGED <<docText, ops, nextID, cursors, link, id, up, sess, episode>>
    BY DEF Push, roomVars, clientVars
<1>2. /\ IsSeq(ops) /\ DOMAIN down = Conns /\ DOMAIN sent = Conns
      /\ n \in Nat /\ n <= L /\ L \in Nat
    BY IsSeqLen DEF CInv, IInv, TypeOK, HistoriesInOrder
<1>3. n \in 0..Len(ops)
    BY <1>2
<1> HIDE DEF n
<1>4. Slice(ops, n, rest) /\ L = n + Len(rest)
    BY <1>2, <1>3, RestSlice
<1> HIDE DEF rest, L
<1>5. Passes(ops, m, n, L) /\ m.type # "Identity"
    BY <1>2, <1>4 DEF Passes, History
<1>6. CursorsInside'
    BY <1>1 DEF CInv, CursorsInside
<1>7. AllLegible(ops, up'[k])
    BY <1>1 DEF CInv, UpLegible
<1>8. down'[k] = Append(d, m) /\ sent'[k] = L
    BY <1>1, <1>2
<1> HIDE DEF m
<1>9. ASSUME NEW c \in Clients, InTouch(sess[c], k)
      PROVE  InTouch(sess[c], k)'
  <2> DEFINE s == sess[c]
             user == id[k]
             a == IF s.baselined THEN s.revision ELSE 0
  <2>1. Intro(s.selfId, d, user) /\ Covers(ops, d, a, n) /\ IsSeq(d)
      BY <1>9, QueuesOK DEF InTouch, Talks, n
  <2> HIDE DEF s, user, a, d
  <2>2. Intro(s.selfId, Append(d, m), user) /\ Covers(ops, Append(d, m), a, L)
      BY <1>5, <2>1, IntroAppend, CoversAppend
  <2> QED BY <1>1, <1>8, <1>9, <2>2 DEF InTouch, Talks, s, user, a
<1>10. \A j \in Conns : j # k => down'[j] = down[j] /\ sent'[j] = sent[j]
    BY <1>1, <1>2
<1> QED BY <1>1, <1>6, <1>7, <1>9, <1>10, ServerKeeps

\* What the room makes of an edit it can rebase: the log has one entry more, and
\* the document is its text.
LEMMA EditLogged ==
    ASSUME CInv, NEW k \in Conns, AcceptEdit(k)
    PROVE  \E op : /\ EditOK(ops, Head(up[k]))
                   /\ RebasedTo(ops, Head(up[k]), op)
                   /\ Does(op, docText, docText')
                   /\ ops' = Append(ops, Entry(id[k], op))
                   /\ cursors' = [j \in Conns |-> MoveCarets(cursors[j], op)]
                   /\ Grows(ops, ops', Entry(id[k], op))
                   /\ docText' = TextOf(ops', Len(ops'))
<1> DEFINE q == up[k]
           m == Head(q)
           op == Rebased(m).op
           entry == Entry(id[k], op)
           L == Len(ops)
<1>1. /\ q # << >> /\ m.type = "Edit"
      /\ docText' = Apply(op, docText)
      /\ ops' = Append(ops, entry)
      /\ cursors' = [j \in Conns |-> MoveCarets(cursors[j], op)]
    BY DEF AcceptEdit
<1>2. EditOK(ops, m)
  <2>1. IsSeq(q) /\ AllLegible(ops, q)
      BY QueuesOK
  <2> HIDE DEF q
  <2>2. Legible(ops, m)
      BY <1>1, <2>1, TailEdits
  <2> QED BY <1>1, <2>2 DEF Legible
<1>3. Written(ops) /\ docText = TextOf(ops, L)
    BY DEF CInv, LogWritten
<1> HIDE DEF m
<1>4. RebasedTo(ops, m, op) /\ \E e : Does(op, TextOf(ops, L), e)
    BY <1>2, <1>3, RebasedDoes
<1> HIDE DEF op
<1>5. PICK e : Does(op, TextOf(ops, L), e)
    BY <1>4
<1>6. docText' = e
    BY <1>1, <1>3, <1>5 DEF Does
<1>7. entry.op = op
    BY DEF Entry
<1> HIDE DEF entry
<1>8. /\ Written(ops') /\ Len(ops') = L + 1
      /\ \A n \in 1..L : ops'[n] = ops[n]
      /\ ops'[L + 1] = entry
      /\ \A n \in 0..L : TextOf(ops', n) = TextOf(ops, n)
      /\ TextOf(ops', L + 1) = e
  <2> DEFINE more == Append(ops, entry)
  <2>1. Does(entry.op, TextOf(ops, Len(ops)), e)
      BY <1>5, <1>7
  <2>2. /\ Written(more) /\ Len(more) = Len(ops) + 1
        /\ \A n \in 1..Len(ops) : more[n] = ops[n]
        /\ more[Len(ops) + 1] = entry
        /\ \A n \in 0..Len(ops) : TextOf(more, n) = TextOf(ops, n)
        /\ TextOf(more, Len(ops) + 1) = e
      BY <1>3, <2>1, WrittenAppend, ZenonT(40)
  <2>3. ops' = more
      BY <1>1
  <2> HIDE DEF more
  <2> QED BY <2>2, <2>3
<1>9. L \in Nat
    BY <1>3, IsSeqLen DEF Written
<1>10. Grows(ops, ops', entry)
    BY <1>3, <1>8, <1>9 DEF Grows
<1>11. docText' = TextOf(ops', Len(ops'))
    BY <1>6, <1>8
<1> QED BY <1>1, <1>2, <1>3, <1>4, <1>5, <1>6, <1>10, <1>11 DEF entry, m

\* The entry of another connection's user changes nothing between a session and
\* the room but the length of the log.
LEMMA TalksOn ==
    ASSUME NEW log, NEW more, NEW entry, Grows(log, more, entry),
           NEW s, Mirrors(s, log), NEW user, entry.id # user, NEW q, NEW d, NEW n, NEW open,
           Talks(s, log, user, q, d, n, open)
    PROVE  Talks(s, more, user, q, d, n, open)
<1> DEFINE v == s.revision
           a == IF s.baselined THEN v ELSE 0
           p == s.pending
<1>1. v \in 0..Len(log) /\ 0 \in 0..Len(log)
    BY DEF Mirrors, Grows
<1>2. Intro(s.selfId, d, user) /\ Covers(log, d, a, n) /\ Reports(log, user, q, open, s)
    BY DEF Talks
<1> HIDE DEF v, a, p
<1>3. Covers(more, d, a, n)
    BY <1>2, CoversGrows
<1>4. Outstanding(log, v, user, q, p, open) => Outstanding(more, v, user, q, p, open)
    BY <1>1, OutstandingGrows
<1>5. Untold(log, user, q) => Untold(more, user, q)
    BY <1>1, NoOwnGrows DEF Untold
<1>6. Reports(more, user, q, open, s)
    BY <1>2, <1>4, <1>5 DEF Reports, v, p
<1> QED BY <1>2, <1>3, <1>6 DEF Talks, a, v

\* Its own entry: the room has read its outstanding operation.
LEMMA TalksAccepted ==
    ASSUME NEW log, NEW more, NEW entry, Grows(log, more, entry),
           NEW s, Mirrors(s, log), NEW user, entry.id = user,
           NEW q, IsSeq(q), q # << >>, Head(q).type = "Edit",
           RebasedTo(log, Head(q), entry.op),
           NEW d, NEW n, NEW open,
           Talks(s, log, user, q, d, n, open)
    PROVE  Talks(s, more, user, Tail(q), d, n, open)
<1> DEFINE v == s.revision
           a == IF s.baselined THEN v ELSE 0
           p == s.pending
<1>1. v \in 0..Len(log)
    BY DEF Mirrors
<1>2. Intro(s.selfId, d, user) /\ Covers(log, d, a, n) /\ Reports(log, user, q, open, s)
    BY DEF Talks
<1> HIDE DEF v, a, p
<1>3. Covers(more, d, a, n)
    BY <1>2, CoversGrows
<1>4. Outstanding(log, v, user, q, p, open) => Outstanding(more, v, user, Tail(q), p, open)
    BY <1>1, OutstandingAccepted
<1>5. ~Untold(log, user, q)
    BY TailEdits DEF Untold
<1>6. Reports(more, user, Tail(q), open, s)
    BY <1>2, <1>4, <1>5 DEF Reports, v, p
<1> QED BY <1>2, <1>3, <1>6 DEF Talks, a, v

\* The room accepts an edit: it is the outstanding operation of the session that
\* sent it, and somebody else's entry to the others.
LEMMA AcceptEditKeeps ==
    ASSUME CInv, IInv', NEW k \in Conns, AcceptEdit(k)
    PROVE  CInv'
<1>1. /\ link[k] # "none" /\ up[k] # << >> /\ Head(up[k]).type = "Edit"
      /\ up' = [up EXCEPT ![k] = Tail(@)]
      /\ UNCHANGED <<nextID, link, id, sent, greeted, down, sess, episode>>
    BY DEF AcceptEdit, Serving, linkVars, clientVars
<1>2. PICK op : /\ EditOK(ops, Head(up[k]))
                /\ RebasedTo(ops, Head(up[k]), op)
                /\ Does(op, docText, docText')
                /\ ops' = Append(ops, Entry(id[k], op))
                /\ cursors' = [j \in Conns |-> MoveCarets(cursors[j], op)]
                /\ Grows(ops, ops', Entry(id[k], op))
                /\ docText' = TextOf(ops', Len(ops'))
    BY EditLogged
<1> DEFINE entry == Entry(id[k], op)
<1>3. Grows(ops, ops', entry) /\ entry.id = id[k] /\ entry.op = op
    BY <1>2 DEF Entry
<1> HIDE DEF entry
<1>4. /\ DOMAIN up = Conns /\ id[k] \in Nat /\ id[k] < nextID /\ id[k] # 0
      /\ \A j \in Conns : j # k => id[j] # id[k]
    BY <1>1 DEF CInv, IInv, TypeOK, IdsDistinct
<1>5. LogWritten'
  <2> DEFINE L == Len(ops)
  <2>1. ASSUME NEW n \in 1..Len(ops') PROVE ops'[n].id \in Nat /\ ops'[n].id < nextID
    <3>1. CASE n = L + 1
        BY <1>3, <1>4, <3>1 DEF Grows
    <3>2. CASE n # L + 1
      <4>1. n \in 1..L
          BY <1>3, <3>2 DEF Grows
      <4>2. ops'[n] = ops[n]
          BY <1>3, <4>1 DEF Grows
      <4> QED BY <4>1, <4>2 DEF CInv, LogWritten
    <3> QED BY <3>1, <3>2
  <2> QED BY <1>1, <1>2, <1>3, <2>1 DEF LogWritten, Grows
<1>6. IdsDistinct'
    BY <1>1 DEF CInv, IdsDistinct
<1>7. ConnsFresh'
  <2>1. ASSUME NEW j \in Conns, j[2] > episode[j[1]]
        PROVE  link[j] = "none" /\ sent[j] = 0 /\ up'[j] = << >>
    <3>1. link[j] = "none" /\ sent[j] = 0 /\ up[j] = << >>
        BY <2>1 DEF CInv, ConnsFresh
    <3> QED BY <1>1, <3>1
  <2> QED BY <1>1, <2>1 DEF ConnsFresh
<1>8. UpLegible'
  <2>1. ASSUME NEW j \in Conns PROVE AllLegible(ops, up'[j])
    <3>1. IsSeq(up[j]) /\ AllLegible(ops, up[j])
        BY QueuesOK
    <3>2. CASE j = k
        BY <1>1, <1>4, <3>1, <3>2, TailEdits
    <3>3. CASE j # k
        BY <1>1, <1>4, <3>1, <3>3
    <3> QED BY <3>2, <3>3
  <2> QED BY <1>3, <2>1, GrowsLegible DEF UpLegible
<1>9. CursorsInside'
  <2>1. ASSUME NEW j \in Conns PROVE CaretIn(cursors'[j], docText')
    <3>1. CaretIn(cursors[j], docText)
        BY DEF CInv, CursorsInside
    <3>2. CaretIn(MoveCarets(cursors[j], op), docText')
        BY <1>2, <3>1, CaretsMove
    <3> QED BY <1>2, <3>2
  <2> QED BY <2>1 DEF CursorsInside
<1>10. \A c \in Clients : Mirrors(sess[c], ops)
    BY DEF CInv, SessionsMirror
<1>11. SessionsMirror'
  <2>1. \A c \in Clients : Mirrors(sess[c], ops')
      BY <1>3, <1>10, GrowsMirrors
  <2> QED BY <1>1, <2>1 DEF CInv, SessionsMirror
<1>12. ClientsInTouch'
  <2>1. ASSUME NEW c \in Clients, sess[c].connected PROVE InTouch(sess[c], Current(c))'
    <3> DEFINE j == Current(c)
               s == sess[c]
               user == id[j]
               q == up[j]
               d == down[j]
               n == sent[j]
               open == link[j] = "open"
    <3>1. j \in Conns /\ j' = j
        BY <1>1, <2>1, Connections DEF CInv, IInv, Current
    <3>2. /\ link[j] \in {"open", "closing"}
          /\ Talks(s, ops, user, q, d, n, open)
        BY <2>1 DEF CInv, ClientsInTouch, InTouch
    <3>3. Mirrors(s, ops) /\ IsSeq(q)
        BY <1>10, <3>1, QueuesOK
    <3>4. Talks(s, ops', user, up'[j], d, n, open)
      <4>1. CASE j = k
        <5>1. up'[j] = Tail(q) /\ entry.id = user /\ q # << >> /\ Head(q).type = "Edit"
              /\ RebasedTo(ops, Head(q), entry.op)
            BY <1>1, <1>2, <1>3, <1>4, <4>1
        <5> HIDE DEF s, user, q, d, n, open, j
        <5>2. Talks(s, ops', user, Tail(q), d, n, open)
            BY <1>3, <3>2, <3>3, <5>1, TalksAccepted
        <5> QED BY <5>1, <5>2
      <4>2. CASE j # k
        <5>1. up'[j] = q /\ entry.id # user
            BY <1>1, <1>3, <1>4, <3>1, <4>2
        <5> HIDE DEF s, user, q, d, n, open, j
        <5>2. Talks(s, ops', user, q, d, n, open)
            BY <1>3, <3>2, <3>3, <5>1, TalksOn
        <5> QED BY <5>1, <5>2
      <4> QED BY <4>1, <4>2
    <3> HIDE DEF Talks
    <3> QED BY <1>1, <3>1, <3>2, <3>4 DEF InTouch
  <2> QED BY <1>1, <2>1 DEF ClientsInTouch
<1> QED BY <1>5, <1>6, <1>7, <1>8, <1>9, <1>11, <1>12 DEF CInv

---------------------------------------------------------------------------
(* The clients' steps.                                                     *)

\* Session t has the texts and operations of session s.
SameTexts(s, t) ==
    /\ SessionOK(t)
    /\ t.text = s.text /\ t.synced = s.synced
    /\ t.revision = s.revision /\ t.pending = s.pending /\ t.failed = s.failed

\* It mirrors the log as well.
LEMMA TextsKept ==
    ASSUME NEW log, NEW s, Mirrors(s, log), NEW t, SameTexts(s, t), CaretIn(t.caret, t.text)
    PROVE  Mirrors(t, log) /\ (Pends(s) => Pends(t))
BY DEF Mirrors, SameTexts, Pends

\* A change of connection status leaves the texts alone (session.ts,
\* handleStatus), and so does an Identity.
LEMMA StatusKeeps ==
    ASSUME NEW log, NEW s, Mirrors(s, log), NEW on \in BOOLEAN, NEW user \in Nat
    PROVE  LET t == HandleStatus(s, on)
               u == HandleIdentity(s, user)
           IN  /\ Mirrors(t, log) /\ (Pends(s) => Pends(t))
               /\ Mirrors(u, log) /\ (Pends(s) => Pends(u))
               /\ SameTexts(s, u) /\ u.selfId = user
               /\ u.connected = s.connected /\ u.baselined = s.baselined
<1> DEFINE t == HandleStatus(s, on)
           u == HandleIdentity(s, user)
<1>1. SessionOK(s) /\ CaretIn(s.caret, s.text)
    BY DEF Mirrors
<1>2. SameTexts(s, t) /\ t.caret = s.caret
    BY <1>1 DEF HandleStatus, SessionOK, SameTexts
<1>3. SameTexts(s, u) /\ u.caret = s.caret
    BY <1>1 DEF HandleIdentity, SessionOK, SameTexts
<1>4. u.selfId = user /\ u.connected = s.connected /\ u.baselined = s.baselined
    BY <1>1 DEF HandleIdentity, SessionOK
<1> HIDE DEF t, u
<1>5. CaretIn(t.caret, t.text) /\ CaretIn(u.caret, u.text)
    BY <1>1, <1>2, <1>3 DEF SameTexts
<1>6. /\ Mirrors(t, log) /\ (Pends(s) => Pends(t))
      /\ Mirrors(u, log) /\ (Pends(s) => Pends(u))
    BY <1>2, <1>3, <1>5, TextsKept
<1> QED BY <1>3, <1>4, <1>6 DEF t, u

\* The connection breaks: there is nothing any more between session and room.
LEMMA LoseKeeps ==
    ASSUME CInv, IInv', NEW c \in Clients, Lose(c)
    PROVE  CInv'
<1> DEFINE k == Current(c)
           s == HandleStatus(sess[c], FALSE)
<1>1. /\ sess[c].connected
      /\ sess' = [sess EXCEPT ![c] = s]
      /\ link' = [link EXCEPT ![k] = IF @ = "open" THEN "lost" ELSE "closed"]
      /\ down' = [down EXCEPT ![k] = << >>]
      /\ UNCHANGED <<docText, ops, nextID, cursors, id, sent, up, episode>>
    BY DEF Lose, roomVars
<1>2. Mirrors(sess[c], ops) /\ SessionOK(sess[c])
    BY DEF CInv, SessionsMirror, Mirrors
<1>3. Mirrors(s, ops) /\ ~s.connected /\ ~s.baselined
    BY <1>2, StatusKeeps, HandleStatusOK
<1> HIDE DEF s
<1>4. /\ k \in Conns /\ link[k] # "none"
      /\ link \in [Conns -> {"none", "open", "lost", "closing", "closed"}]
      /\ DOMAIN down = Conns
    BY <1>1, Connections DEF CInv, IInv, TypeOK, ClientsInTouch, InTouch
<1>5. \A j \in Conns : link'[j] = "none" <=> link[j] = "none"
    BY <1>1, <1>4
<1>6. \A j \in Conns : AllLegible(ops, up'[j])
    BY <1>1 DEF CInv, UpLegible
<1>7. \A j \in Conns : j # k => link'[j] = link[j] /\ down'[j] = down[j]
    BY <1>1, <1>4
<1> HIDE DEF k
<1> QED BY <1>1, <1>3, <1>5, <1>6, <1>7, ClientKeeps DEF k

\* A connected client and its connection.
LEMMA Touching ==
    ASSUME CInv, NEW c \in Clients, sess[c].connected
    PROVE  /\ Current(c) \in Conns /\ InTouch(sess[c], Current(c))
           /\ Mirrors(sess[c], ops) /\ (sess[c].baselined => Pends(sess[c]))
           /\ IsSeq(down[Current(c)]) /\ IsSeq(up[Current(c)])
           /\ AllLegible(ops, up[Current(c)])
           /\ id[Current(c)] \in Nat /\ sent[Current(c)] \in Nat
<1>1. Current(c) \in Conns
    BY Connections DEF CInv, IInv
<1> QED BY <1>1, QueuesOK DEF CInv, IInv, TypeOK, ClientsInTouch, SessionsMirror

\* The client reads the close frame.
LEMMA ReceiveCloseKeeps ==
    ASSUME CInv, IInv', NEW c \in Clients, ReceiveClose(c)
    PROVE  CInv'
<1> DEFINE k == Current(c)
           s == HandleStatus(sess[c], FALSE)
<1>1. /\ sess[c].connected
      /\ sess' = [sess EXCEPT ![c] = s]
      /\ link' = [link EXCEPT ![k] = "closed"]
      /\ down' = [down EXCEPT ![k] = Tail(@)]
      /\ UNCHANGED <<docText, ops, nextID, cursors, id, sent, up, episode>>
    BY DEF ReceiveClose, Incoming, roomVars
<1>2. Mirrors(sess[c], ops) /\ SessionOK(sess[c])
    BY DEF CInv, SessionsMirror, Mirrors
<1>3. Mirrors(s, ops) /\ ~s.connected /\ ~s.baselined
    BY <1>2, StatusKeeps, HandleStatusOK
<1> HIDE DEF s
<1>4. /\ k \in Conns /\ link[k] # "none"
      /\ DOMAIN link = Conns /\ DOMAIN down = Conns
    BY <1>1, Touching DEF CInv, IInv, TypeOK, InTouch
<1>5. \A j \in Conns : link'[j] = "none" <=> link[j] = "none"
    BY <1>1, <1>4
<1>6. \A j \in Conns : AllLegible(ops, up'[j])
    BY <1>1 DEF CInv, UpLegible
<1>7. \A j \in Conns : j # k => link'[j] = link[j] /\ down'[j] = down[j]
    BY <1>1, <1>4
<1> HIDE DEF k
<1> QED BY <1>1, <1>3, <1>5, <1>6, <1>7, ClientKeeps DEF k

\* The client learns who it is.
LEMMA ReceiveIdentityKeeps ==
    ASSUME CInv, IInv', NEW c \in Clients, ReceiveIdentity(c)
    PROVE  CInv'
<1> DEFINE k == Current(c)
           old == sess[c]
           d == down[k]
           user == id[k]
           n == sent[k]
           open == link[k] = "open"
           who == Head(d).user
           s == HandleIdentity(old, who)
<1>1. /\ old.connected /\ d # << >> /\ Head(d).type = "Identity"
      /\ sess' = [sess EXCEPT ![c] = s]
      /\ down' = [down EXCEPT ![k] = Tail(@)]
      /\ UNCHANGED <<docText, ops, nextID, cursors, link, id, sent, up, episode>>
    BY DEF ReceiveIdentity, Incoming, roomVars, linkVars
<1>2. /\ k \in Conns /\ Mirrors(old, ops) /\ (old.baselined => Pends(old)) /\ IsSeq(d)
      /\ link[k] \in {"open", "closing"} /\ user \in Nat /\ DOMAIN down = Conns
    BY <1>1, Touching DEF CInv, IInv, TypeOK, InTouch
<1> DEFINE a == IF old.baselined THEN old.revision ELSE 0
<1>3. /\ Intro(old.selfId, d, user) /\ Covers(ops, d, a, n)
      /\ Reports(ops, user, up[k], open, old)
    BY <1>1, Touching DEF InTouch, Talks
<1>4. who = user /\ Intro(user, Tail(d), user)
  <2> HIDE DEF d, user
  <2> QED BY <1>1, <1>2, <1>3, IntroTail
<1>5. Covers(ops, Tail(d), a, n)
  <2> HIDE DEF d, a, n
  <2>1. PICK b : Passes(ops, Head(d), a, b) /\ Covers(ops, Tail(d), b, n)
      BY <1>1, <1>2, <1>3, CoversTail
  <2> QED BY <1>1, <2>1 DEF Passes
<1> HIDE DEF who
<1>6. /\ Mirrors(s, ops) /\ (Pends(old) => Pends(s)) /\ SameTexts(old, s)
      /\ s.selfId = user /\ s.baselined = old.baselined
    BY <1>2, <1>4, StatusKeeps, ZenonT(40)
<1> HIDE DEF s
<1>7. Reports(ops, user, up[k], open, s)
    BY <1>3, <1>6 DEF Reports, SameTexts
<1>8. a = IF s.baselined THEN s.revision ELSE 0
    BY <1>6 DEF SameTexts
<1>9. down'[k] = Tail(d)
    BY <1>1, <1>2
<1>10. Talks(s, ops, user, up[k], down'[k], n, open)
  <2> HIDE DEF a, d, user, n, open, k
  <2> QED BY <1>4, <1>5, <1>6, <1>7, <1>8, <1>9 DEF Talks
<1>11. \A j \in Conns : AllLegible(ops, up'[j])
    BY <1>1 DEF CInv, UpLegible
<1>12. \A j \in Conns : j # k => down'[j] = down[j]
    BY <1>1, <1>2
<1>13. /\ link'[k] \in {"open", "closing"}
       /\ Talks(s, ops, id[k], up'[k], down'[k], sent[k], link'[k] = "open")
    BY <1>1, <1>2, <1>10
<1>14. s.baselined => Pends(s)
    BY <1>2, <1>6
<1> HIDE DEF k
<1> QED BY <1>1, <1>6, <1>11, <1>12, <1>13, <1>14, ClientKeeps DEF k

\* A queue of one message that is no History carries nothing.
LEMMA CoversOne ==
    ASSUME NEW log, NEW m, m.type # "History", NEW a
    PROVE  Covers(log, <<m>>, a, a)
<1>1. Covers(log, << >>, a, a) /\ IsSeq(<< >>)
    BY CoversNothing, IsSeqEmpty
<1>2. Passes(log, m, a, a)
    BY DEF Passes
<1>3. Covers(log, Append(<< >>, m), a, a)
    BY <1>1, <1>2, CoversAppend
<1>4. Append(<< >>, m) = << >> \o <<m>> /\ << >> \o <<m>> = <<m>>
    BY <1>1, IsSeqAppendOne, IsSeqOne, IsSeqUnit
<1> QED BY <1>3, <1>4

\* The Identity that starts a connection says whose it is.
LEMMA IntroOne ==
    ASSUME NEW self, NEW user PROVE Intro(self, <<Identity(user)>>, user)
<1> DEFINE m == Identity(user)
           q == <<m>>
<1>1. m.type = "Identity" /\ m.user = user
    BY DEF Identity
<1> HIDE DEF m
<1>2. IsSeq(q) /\ Len(q) = 1 /\ DOMAIN q = 1..1 /\ q[1] = m
    BY IsSeqOne, IsSeqLen
<1>3. 1..1 = {1}
    OBVIOUS
<1> HIDE DEF q
<1>4. q # << >>
    BY <1>2, IsSeqNone
<1>5. Head(q) = m
    BY <1>2, <1>4, TailIndex
<1>6. Intro(self, q, user)
    BY <1>1, <1>2, <1>3, <1>4, <1>5 DEF Intro
<1> QED BY <1>6 DEF q, m

\* A connection opens: the log has no entry by its user yet.
LEMMA ConnectKeeps ==
    ASSUME CInv, IInv', NEW c \in Clients, Connect(c)
    PROVE  CInv'
<1> DEFINE e == episode[c] + 1
           k == <<c, e>>
           s == HandleStatus(sess[c], TRUE)
           q == <<Identity(nextID)>>
<1>1. /\ ~sess[c].connected
      /\ episode[c] < MaxEpisodes[c]
      /\ episode' = [episode EXCEPT ![c] = e]
      /\ sess' = [sess EXCEPT ![c] = s]
      /\ link' = [link EXCEPT ![k] = "open"]
      /\ id' = [id EXCEPT ![k] = nextID]
      /\ nextID' = nextID + 1
      /\ down' = [down EXCEPT ![k] = q]
      /\ UNCHANGED <<docText, ops, cursors, sent, up>>
    BY DEF Connect
<1>2. /\ k \in Conns /\ episode \in [Clients -> Nat]
      /\ DOMAIN sess = Clients /\ DOMAIN link = Conns /\ DOMAIN down = Conns
      /\ id \in [Conns -> Nat] /\ nextID \in Nat \ {0}
    BY <1>1, Connections DEF CInv, IInv, TypeOK
<1>3. \A j \in Conns : j[1] \in Clients /\ j[2] \in Nat /\ j = <<j[1], j[2]>>
  <2>1. ASSUME NEW j \in Conns PROVE j[1] \in Clients /\ j[2] \in Nat /\ j = <<j[1], j[2]>>
    <3>1. PICK d \in Clients : j \in {d} \X (1..MaxEpisodes[d])
        BY DEF Conns
    <3> QED BY <3>1
  <2> QED BY <2>1
<1>4. e > episode[c] /\ e \in Nat
    BY <1>2
<1>5. k[1] = c /\ k[2] = e /\ k[2] > episode[k[1]]
    BY <1>4
<1> HIDE DEF q
<1>6. link[k] = "none" /\ sent[k] = 0 /\ up[k] = << >>
    BY <1>2, <1>5 DEF CInv, ConnsFresh
<1>7. Mirrors(sess[c], ops) /\ SessionOK(sess[c]) /\ ~sess[c].baselined
    BY <1>1 DEF CInv, SessionsMirror, Mirrors, SessionOK
<1>8. Mirrors(s, ops) /\ s.connected /\ ~s.baselined
    BY <1>7, StatusKeeps, HandleStatusOK
<1> HIDE DEF s
<1>9. LogWritten'
  <2>1. ASSUME NEW n \in 1..Len(ops) PROVE ops[n].id \in Nat /\ ops[n].id < nextID + 1
    <3>1. ops[n].id \in Nat /\ ops[n].id < nextID
        BY DEF CInv, LogWritten
    <3> QED BY <1>2, <3>1
  <2> QED BY <1>1, <2>1 DEF CInv, LogWritten
<1>10. IdsDistinct'
  <2>1. \A j \in Conns : /\ id[j] \in Nat /\ id[j] < nextID
                         /\ link[j] # "none" => id[j] # 0
                         /\ \A i \in Conns : id[j] = id[i] /\ id[j] # 0 => j = i
      BY <1>2 DEF CInv, IdsDistinct
  <2>2. /\ id'[k] = nextID /\ nextID # 0
        /\ \A j \in Conns : j # k => id'[j] = id[j] /\ link'[j] = link[j]
      BY <1>1, <1>2
  <2>3. ASSUME NEW j \in Conns
        PROVE  /\ id'[j] < nextID + 1
               /\ link'[j] # "none" => id'[j] # 0
               /\ \A i \in Conns : id'[j] = id'[i] /\ id'[j] # 0 => j = i
    <3>1. CASE j = k
      <4>1. \A i \in Conns : i # k => id'[i] # nextID
          BY <1>2, <2>1, <2>2
      <4>2. nextID < nextID + 1
          BY <1>2
      <4> HIDE DEF k
      <4> QED BY <2>2, <3>1, <4>1, <4>2
    <3>2. CASE j # k
      <4>1. id'[j] = id[j] /\ link'[j] = link[j] /\ id[j] # nextID /\ id[j] < nextID + 1
          BY <1>2, <2>1, <2>2, <3>2
      <4> HIDE DEF k
      <4> QED BY <2>1, <2>2, <4>1
    <3> QED BY <3>1, <3>2
  <2> QED BY <1>1, <2>3 DEF IdsDistinct
<1>11. ConnsFresh'
  <2>1. ASSUME NEW j \in Conns, j[2] > episode'[j[1]]
        PROVE  link'[j] = "none" /\ sent[j] = 0 /\ up[j] = << >>
    <3>1. j[1] \in Clients /\ j[2] \in Nat /\ episode[j[1]] \in Nat
        BY <1>2, <1>3
    <3>2. j # k /\ j[2] > episode[j[1]]
      <4>1. CASE j[1] = c
        <5>1. episode'[j[1]] = e /\ j[2] > e
            BY <1>1, <1>2, <2>1, <4>1
        <5>2. j[2] # e /\ j[2] > episode[c]
            BY <1>2, <1>4, <3>1, <5>1
        <5> QED BY <1>5, <4>1, <5>2
      <4>2. CASE j[1] # c
          BY <1>1, <1>2, <1>5, <2>1, <3>1, <4>2
      <4> QED BY <4>1, <4>2
    <3>3. link[j] = "none" /\ sent[j] = 0 /\ up[j] = << >>
        BY <3>2 DEF CInv, ConnsFresh
    <3>4. link'[j] = link[j]
        BY <1>1, <1>2, <3>2
    <3> QED BY <3>3, <3>4
  <2> QED BY <1>1, <2>1 DEF ConnsFresh
<1>12. UpLegible' /\ CursorsInside'
    BY <1>1 DEF CInv, UpLegible, CursorsInside
<1>13. /\ sess'[c] = s /\ \A d \in Clients : d # c => sess'[d] = sess[d]
       /\ link'[k] = "open" /\ \A j \in Conns : j # k => link'[j] = link[j]
       /\ down'[k] = q /\ \A j \in Conns : j # k => down'[j] = down[j]
       /\ id'[k] = nextID /\ \A j \in Conns : j # k => id'[j] = id[j]
       /\ Current(c)' = k
       /\ \A d \in Clients : d # c => Current(d)' = Current(d) /\ Current(d) # k
    BY <1>1, <1>2 DEF Current
<1>14. SessionsMirror'
    BY <1>1, <1>8, <1>13 DEF CInv, SessionsMirror
<1>15. Talks(s, ops, nextID, << >>, q, 0, TRUE)
  <2>1. Covers(ops, q, 0, 0)
      BY CoversOne DEF q, Identity
  <2>2. Intro(s.selfId, q, nextID)
      BY IntroOne DEF q
  <2>3. NoOwn(ops, 0, nextID)
    <3>1. \A n \in 1..Len(ops) : ops[n].id \in Nat /\ ops[n].id < nextID
        BY DEF CInv, LogWritten
    <3>2. ASSUME NEW n \in (0 + 1)..Len(ops) PROVE ops[n].id # nextID
      <4>1. n \in 1..Len(ops)
          OBVIOUS
      <4> QED BY <1>2, <3>1, <4>1
    <3> QED BY <3>2 DEF NoOwn
  <2>4. NoEdit(<< >>)
      BY EmptyQueue
  <2> QED BY <1>8, <2>1, <2>2, <2>3, <2>4 DEF Talks, Reports, Untold
<1>16. ClientsInTouch'
  <2> HIDE DEF k
  <2>1. InTouch(sess[c], Current(c))'
      BY <1>1, <1>6, <1>13, <1>15 DEF InTouch
  <2>2. ASSUME NEW d \in Clients, d # c, sess'[d].connected
        PROVE  InTouch(sess[d], Current(d))'
    <3>1. sess'[d] = sess[d]
        BY <1>13, <2>2
    <3>2. InTouch(sess[d], Current(d)) /\ Current(d) \in Conns
        BY <2>2, <3>1, Touching
    <3>3. /\ Current(d)' = Current(d) /\ Current(d) # k
          /\ link'[Current(d)] = link[Current(d)]
          /\ down'[Current(d)] = down[Current(d)] /\ id'[Current(d)] = id[Current(d)]
        BY <1>13, <2>2, <3>2
    <3> QED BY <1>1, <3>1, <3>2, <3>3 DEF InTouch
  <2> QED BY <2>1, <2>2 DEF ClientsInTouch
<1> QED BY <1>9, <1>10, <1>11, <1>12, <1>14, <1>16 DEF CInv

\* Client c's session becomes s and sends messages r.
LEMMA SendKeeps ==
    ASSUME CInv, IInv', NEW c \in Clients, sess[c].connected,
           NEW s, sess' = [sess EXCEPT ![c] = s],
           NEW r, IsSeq(r), AllLegible(ops, r), Send(Current(c), r),
           UNCHANGED <<docText, ops, nextID, cursors, link, id, sent, episode>>,
           \A j \in Conns : j # Current(c) => down'[j] = down[j],
           Mirrors(s, ops), s.baselined => Pends(s),
           Talks(s, ops, id[Current(c)],
                 Sent(up[Current(c)], r, link[Current(c)] = "open"),
                 down'[Current(c)], sent[Current(c)], link[Current(c)] = "open")
    PROVE  CInv'
<1> DEFINE k == Current(c)
           open == link[k] = "open"
           q == up[k]
<1>1. /\ k \in Conns /\ link[k] \in {"open", "closing"}
      /\ IsSeq(q) /\ AllLegible(ops, q) /\ DOMAIN up = Conns
    BY Touching DEF CInv, IInv, TypeOK, InTouch
<1>2. /\ up'[k] = Sent(q, r, open)
      /\ \A j \in Conns : j # k => up'[j] = up[j]
    BY <1>1 DEF Send, Sent
<1>3. AllLegible(ops, Sent(q, r, open))
    BY <1>1, ConcatEdits DEF Sent
<1>4. ASSUME NEW j \in Conns
      PROVE  /\ link'[j] = "none" <=> link[j] = "none"
             /\ link[j] = "none" => up'[j] = up[j]
             /\ AllLegible(ops, up'[j])
  <2>1. CASE j = k
      BY <1>1, <1>2, <1>3, <2>1
  <2>2. CASE j # k
      BY <1>2, <2>2 DEF CInv, UpLegible
  <2> QED BY <2>1, <2>2
<1>5. \A j \in Conns : j # k => link'[j] = link[j] /\ up'[j] = up[j] /\ down'[j] = down[j]
    BY <1>2
<1>6. /\ link'[k] \in {"open", "closing"}
      /\ Talks(s, ops, id[k], up'[k], down'[k], sent[k], link'[k] = "open")
    BY <1>1, <1>2
<1> HIDE DEF k
<1> QED BY <1>4, <1>5, <1>6, ClientKeeps DEF k

\* A session reads a History: it tracks the log (session.ts, handleHistory).
LEMMA HistoryTalks ==
    ASSUME NEW log, Written(log),
           NEW s, Mirrors(s, log), s.baselined => Pends(s), s.connected,
           NEW user, NEW q, IsSeq(q), NEW open \in BOOLEAN,
           NEW d, IsSeq(d), d # << >>, Head(d).type = "History",
           NEW n, Talks(s, log, user, q, d, n, open),
           ~s.baselined => s.revision <= End(Head(d))
    PROVE  LET r == HandleHistory(s, Head(d).start, Head(d).ops)
           IN  /\ Mirrors(r.s, log) /\ Pends(r.s) /\ r.s.baselined
               /\ IsSeq(r.sent) /\ AllLegible(log, r.sent)
               /\ s.revision <= r.s.revision
               /\ Talks(r.s, log, user, Sent(q, r.sent, open), Tail(d), n, open)
<1> DEFINE m == Head(d)
           entries == m.ops
           start == m.start
           r == HandleHistory(s, start, entries)
           t == r.s
           u == r.sent
           a == IF s.baselined THEN s.revision ELSE 0
<1>1. Intro(s.selfId, d, user) /\ Covers(log, d, a, n) /\ Reports(log, user, q, open, s)
    BY DEF Talks
<1>2. s.selfId = user /\ Intro(user, Tail(d), user)
    BY <1>1, IntroTail
<1> HIDE DEF a
<1>3. PICK b : Passes(log, m, a, b) /\ Covers(log, Tail(d), b, n)
    BY <1>1, CoversTail
<1>4. start = a /\ a \in Nat /\ Slice(log, a, entries) /\ b = a + Len(entries)
    BY <1>3 DEF Passes
<1>5. /\ Tracks(log, user, q, open, t, u)
      /\ t.selfId = user /\ t.baselined /\ t.revision = b
      /\ s.revision <= b
  <2>1. CASE s.baselined
    <3> DEFINE v == s.revision
               p == s.pending
    <3>1. a = v /\ r = Replay(s, entries)
        BY <2>1 DEF HandleHistory, a
    <3>2. Outstanding(log, v, user, q, p, open)
        BY <1>1, <2>1 DEF Reports
    <3> HIDE DEF v, p, r, entries
    <3>3. Outstanding(log, v, user, Sent(q, << >>, open), p, open)
        BY <3>2, IsSeqEmpty, EmptyQueue, OutstandingMore
    <3>4. Tracks(log, user, q, open, s, << >>)
        BY <2>1, <3>3, IsSeqEmpty, EmptyQueue DEF Tracks, v, p
    <3>5. Slice(log, s.revision, entries)
        BY <1>4, <3>1 DEF v
    <3>6. Replays(log, user, q, open, s, Replay(s, entries), Len(entries))
        BY <1>2, <3>4, <3>5, ReplayDoes
    <3>7. /\ Tracks(log, user, q, open, t, u) /\ SameLink(s, t)
          /\ t.revision = s.revision + Len(entries)
        BY <3>1, <3>6 DEF Replays
    <3>8. Len(entries) \in Nat /\ v <= b
      <4>1. Len(entries) \in Nat
          BY <1>4, IsSeqLen DEF Slice
      <4> QED BY <1>4, <3>1, <4>1
    <3> QED BY <1>2, <1>4, <2>1, <3>1, <3>7, <3>8 DEF SameLink, v
  <2>2. CASE ~s.baselined
    <3>1. a = 0 /\ r = EstablishBaseline(s, 0, entries)
        BY <1>4, <2>2 DEF HandleHistory, a
    <3>2. NoEdit(q) /\ NoOwn(log, 0, user)
        BY <1>1, <2>2 DEF Reports, Untold
    <3>3. s.revision <= Len(entries)
      <4>1. Len(entries) \in Nat
          BY <1>4, IsSeqLen DEF Slice
      <4>2. End(m) = Len(entries)
          BY <1>4, <3>1, <4>1 DEF End
      <4> QED BY <2>2, <4>2
    <3>4. Slice(log, 0, entries)
        BY <1>4, <3>1
    <3> HIDE DEF entries, r
    <3>5. LET x == EstablishBaseline(s, 0, entries)
          IN  /\ Tracks(log, user, q, open, x.s, x.sent)
              /\ x.s.selfId = s.selfId /\ x.s.connected /\ x.s.baselined
              /\ x.s.revision = Len(entries)
        BY <3>2, <3>3, <3>4, BaselineTracks
    <3>6. Len(entries) \in Nat
        BY <1>4, IsSeqLen DEF Slice
    <3>7. b = Len(entries)
        BY <1>4, <3>1, <3>6
    <3> QED BY <1>2, <3>1, <3>3, <3>5, <3>7
  <2> QED BY <2>1, <2>2
<1> HIDE DEF r
<1>6. /\ Mirrors(t, log) /\ Pends(t) /\ IsSeq(u) /\ AllLegible(log, u)
      /\ Outstanding(log, t.revision, user, Sent(q, u, open), t.pending, open)
    BY <1>5 DEF Tracks
<1>7. Reports(log, user, Sent(q, u, open), open, t)
    BY <1>5, <1>6 DEF Reports
<1>8. Talks(t, log, user, Sent(q, u, open), Tail(d), n, open)
    BY <1>2, <1>3, <1>5, <1>7, SMTT(30) DEF Talks
<1> QED BY <1>5, <1>6, <1>8 DEF r

\* A client reads a History.
LEMMA HistoryAdvances ==
    ASSUME CInv, NEW c \in Clients, ReceiveHistory(c)
    PROVE  LET k == Current(c)
               m == Head(down[k])
               r == HandleHistory(sess[c], m.start, m.ops)
               open == link[k] = "open"
           IN  /\ Mirrors(r.s, ops) /\ Pends(r.s) /\ r.s.baselined
               /\ IsSeq(r.sent) /\ AllLegible(ops, r.sent)
               /\ sess[c].revision <= r.s.revision
               /\ Talks(r.s, ops, id[k], Sent(up[k], r.sent, open), Tail(down[k]),
                        sent[k], open)
<1> DEFINE k == Current(c)
           old == sess[c]
           d == down[k]
           q == up[k]
           user == id[k]
           n == sent[k]
           open == link[k] = "open"
           m == Head(d)
<1>1. old.connected /\ d # << >> /\ m.type = "History"
    BY DEF ReceiveHistory, Incoming
<1>2. /\ Mirrors(old, ops) /\ (old.baselined => Pends(old))
      /\ IsSeq(d) /\ IsSeq(q)
      /\ Talks(old, ops, user, q, d, n, open)
    BY <1>1, Touching DEF InTouch
<1>3. Written(ops)
    BY DEF CInv, LogWritten
<1>4. ~old.baselined => old.revision <= End(m)
  <2>1. old.connected /\ ~old.baselined => EndAfter(d, old.revision)
      BY DEF CInv, IInv, RevisionsInOrder, InStep
  <2>2. m = d[1] /\ 1 \in DOMAIN d
      BY <1>1, <1>2, TailIndex
  <2> QED BY <1>1, <2>1, <2>2 DEF EndAfter, Histories
<1>5. open \in BOOLEAN
    OBVIOUS
<1>6. LET r == HandleHistory(old, m.start, m.ops)
      IN  /\ Mirrors(r.s, ops) /\ Pends(r.s) /\ r.s.baselined
          /\ IsSeq(r.sent) /\ AllLegible(ops, r.sent)
          /\ old.revision <= r.s.revision
          /\ Talks(r.s, ops, user, Sent(q, r.sent, open), Tail(d), n, open)
  <2> HIDE DEF old, d, q, user, n, open, k
  <2> QED BY <1>1, <1>2, <1>3, <1>4, <1>5, HistoryTalks
<1> QED BY <1>6

\* It is in touch with the room still.
LEMMA ReceiveHistoryKeeps ==
    ASSUME CInv, IInv', NEW c \in Clients, ReceiveHistory(c)
    PROVE  CInv'
<1> DEFINE k == Current(c)
           d == down[k]
           m == Head(d)
           r == HandleHistory(sess[c], m.start, m.ops)
           s == r.s
           u == r.sent
           open == link[k] = "open"
<1>1. /\ sess[c].connected
      /\ sess' = [sess EXCEPT ![c] = s]
      /\ Send(k, u)
      /\ down' = [down EXCEPT ![k] = Tail(@)]
      /\ UNCHANGED <<docText, ops, nextID, cursors, link, id, sent, episode>>
    BY DEF ReceiveHistory, Incoming, roomVars, linkVars
<1>2. k \in Conns /\ DOMAIN down = Conns
    BY <1>1, Touching DEF CInv, IInv, TypeOK
<1>3. down'[k] = Tail(d) /\ \A j \in Conns : j # k => down'[j] = down[j]
    BY <1>1, <1>2
<1>4. /\ Mirrors(s, ops) /\ Pends(s) /\ s.baselined
      /\ IsSeq(u) /\ AllLegible(ops, u)
      /\ Talks(s, ops, id[k], Sent(up[k], u, open), Tail(d), sent[k], open)
    BY HistoryAdvances
<1> HIDE DEF s, u, d
<1>5. Talks(s, ops, id[k], Sent(up[k], u, link[k] = "open"), down'[k], sent[k],
            link[k] = "open")
    BY <1>3, <1>4
<1> HIDE DEF k
<1> QED BY <1>1, <1>3, <1>4, <1>5, SendKeeps DEF k

\* A user's edit applies to the text on the screen, and leaves a text.
LEMMA ChangeDoes ==
    ASSUME NEW text, IsSeq(text), ValidUTF8(text),
           NEW from \in Boundaries(text), NEW to \in Boundaries(text), to - from \in Nat,
           NEW insert, IsSeq(insert), ValidUTF8(insert)
    PROVE  \E e : Does(ChangeOp(text, from, to, insert), text, e)
<1>1. /\ Len(text) \in Nat /\ to \in 0..Len(text) /\ from \in 0..to
      /\ IsBoundary(text, from) /\ IsBoundary(text, to)
    BY IsSeqLen DEF Boundaries
<1>2. PICK h, z : /\ IsSeq(h) /\ Len(h) = to /\ ValidUTF8(h)
                  /\ IsSeq(z) /\ Len(z) = Len(text) - to /\ ValidUTF8(z)
                  /\ text = Cat(h, z)
    BY <1>1, TextSplit
<1>3. IsBoundary(h, from)
    BY <1>1, <1>2, CutsOfCat
<1>4. PICK x, y : /\ IsSeq(x) /\ Len(x) = from /\ ValidUTF8(x)
                  /\ IsSeq(y) /\ Len(y) = to - from /\ ValidUTF8(y)
                  /\ h = Cat(x, y)
    BY <1>2, <1>3, TextSplit
<1> DEFINE kept == Retain(New, from)
           cut  == Delete(kept, to - from)
           put  == Insert(cut, insert)
<1>5. Does(kept, x, x)
    BY <1>4, DoesKeep
<1> HIDE DEF kept
<1>6. Does(cut, h, x)
  <2>1. Does(Delete(kept, Len(y)), Cat(x, y), x)
      BY <1>4, <1>5, DoesDelete
  <2> QED BY <1>4, <2>1
<1> HIDE DEF cut
<1>7. Does(put, h, Cat(x, insert))
    BY <1>6, DoesInsert
<1> HIDE DEF put
<1>8. Does(Retain(put, Len(z)), Cat(h, z), Cat(Cat(x, insert), z))
    BY <1>2, <1>7, DoesRetain
<1>9. ChangeOp(text, from, to, insert) = Retain(put, Len(z))
    BY <1>2 DEF ChangeOp, put, cut, kept
<1> QED BY <1>2, <1>8, <1>9

\* An edit that a user can make to text as their n-th.
Editing(op, text, c, n) ==
    \E from, to \in Boundaries(text), insert \in {<< >>, Typed[c][n]} :
        to - from \in Nat /\ op = ChangeOp(text, from, to, insert)

\* It applies to the text.
LEMMA EditingDoes ==
    ASSUME NEW text, IsSeq(text), ValidUTF8(text),
           NEW c \in Clients, NEW n \in 1..MaxEdits[c], NEW op, Editing(op, text, c, n)
    PROVE  \E e : Does(op, text, e)
<1>1. PICK from \in Boundaries(text), to \in Boundaries(text), insert \in {<< >>, Typed[c][n]} :
          to - from \in Nat /\ op = ChangeOp(text, from, to, insert)
    BY DEF Editing
<1>2. IsSeq(insert) /\ ValidUTF8(insert)
  <2>1. IsText(Typed[c][n])
      BY CollabAssumption
  <2> QED BY <2>1, IsSeqEmpty, ValidNone DEF IsText
<1> QED BY <1>1, <1>2, ChangeDoes

\* A user edits.
LEMMA EditLocallyKeeps ==
    ASSUME CInv, IInv', NEW c \in Clients, EditLocally(c)
    PROVE  CInv'
<1> DEFINE k == Current(c)
           old == sess[c]
           d == down[k]
           q == up[k]
           user == id[k]
           n == sent[k]
           open == link[k] = "open"
<1>1. PICK op : /\ Editing(op, old.text, c, edits[c] + 1)
                /\ LET r == ApplyLocalChange(old, op)
                   IN  /\ sess' = [sess EXCEPT ![c] = r.s]
                       /\ IF old.connected THEN Send(k, r.sent) ELSE UNCHANGED up
  <2>1. MaxErased \in Nat /\ \A j : j \in 0..MaxErased => j \in Nat
      BY CollabAssumption
  <2> QED BY <2>1 DEF EditLocally, Editing
<1> DEFINE r == ApplyLocalChange(old, op)
           s == r.s
           u == r.sent
<1>2. /\ sess' = [sess EXCEPT ![c] = s]
      /\ IF old.connected THEN Send(k, u) ELSE UNCHANGED up
      /\ UNCHANGED <<docText, ops, nextID, cursors, link, id, sent, down, episode>>
    BY <1>1 DEF EditLocally, roomVars, linkVars
<1>3. /\ Mirrors(old, ops) /\ (old.baselined => Pends(old))
      /\ SessionOK(old) /\ IsSeq(old.text) /\ ValidUTF8(old.text)
      /\ ~old.everBaselined => old.revision = 0
      /\ Written(ops)
    BY DEF CInv, SessionsMirror, LogWritten, Mirrors, IInv, RevisionsInOrder, InStep
<1>4. PICK e : Does(op, old.text, e)
  <2>1. edits[c] + 1 \in 1..MaxEdits[c]
    <3>1. edits[c] \in Nat /\ MaxEdits[c] \in Nat /\ edits[c] < MaxEdits[c]
        BY CollabAssumption DEF EditLocally, CInv, IInv, TypeOK
    <3> QED BY <3>1
  <2> QED BY <1>1, <1>3, <2>1, EditingDoes
<1>5. old.connected => /\ Talks(old, ops, user, q, d, n, open)
                       /\ IsSeq(q)
    BY Touching DEF InTouch
<1>6. open \in BOOLEAN
    OBVIOUS
<1>7. CASE old.connected
  <2>1. /\ Mirrors(s, ops) /\ (s.baselined => Pends(s))
        /\ IsSeq(u) /\ AllLegible(ops, u)
        /\ s.selfId = old.selfId /\ s.revision = old.revision
        /\ Reports(ops, user, Sent(q, u, open), open, s)
    <3>1. IsSeq(q) /\ Reports(ops, user, q, open, old)
        BY <1>5, <1>7 DEF Talks
    <3> HIDE DEF old, q, user, open
    <3>2. LET x == ApplyLocalChange(old, op)
          IN  /\ Mirrors(x.s, ops) /\ (x.s.baselined => Pends(x.s))
              /\ IsSeq(x.sent) /\ AllLegible(ops, x.sent)
              /\ x.s.selfId = old.selfId /\ x.s.connected = old.connected
              /\ x.s.revision = old.revision
              /\ old.connected => Reports(ops, user, Sent(q, x.sent, open), open, x.s)
        BY <1>3, <1>4, <1>6, <3>1, EditReports
    <3> HIDE DEF s, u
    <3> QED BY <1>7, <3>2 DEF s, u, r
  <2>2. SessionOK(s) /\ (old.everBaselined => s.baselined = old.baselined)
      BY <1>3, ApplyLocalChangeOK
  <2> HIDE DEF s, u, r
  <2>3. (IF s.baselined THEN s.revision ELSE 0)
             = (IF old.baselined THEN old.revision ELSE 0)
      BY <1>3, <2>1, <2>2 DEF SessionOK
  <2>4. Talks(s, ops, id[k], Sent(up[k], u, link[k] = "open"), down'[k], sent[k],
              link[k] = "open")
      BY <1>2, <1>5, <1>7, <2>1, <2>3 DEF Talks
  <2>5. Send(k, u)
      BY <1>2, <1>7
  <2> HIDE DEF k
  <2> QED BY <1>2, <1>7, <2>1, <2>4, <2>5, SendKeeps DEF k
<1>8. CASE ~old.connected
  <2>1. AppliedLocally(old, r, ops)
    <3> HIDE DEF old
    <3> QED BY <1>3, <1>4, ApplyLocalChangeDoes
  <2>2. Mirrors(s, ops) /\ ~s.connected /\ (s.baselined => Pends(s))
      BY <1>8, <2>1 DEF AppliedLocally
  <2>3. \A j \in Conns : AllLegible(ops, up'[j])
      BY <1>2, <1>8 DEF CInv, UpLegible
  <2> HIDE DEF s, k
  <2> QED BY <1>2, <1>8, <2>2, <2>3, ClientKeeps
<1> QED BY <1>7, <1>8

\* A user moves the caret.
LEMMA MoveCaretKeeps ==
    ASSUME CInv, IInv', NEW c \in Clients, MoveCaret(c)
    PROVE  CInv'
<1> DEFINE k == Current(c)
           old == sess[c]
           d == down[k]
           q == up[k]
           user == id[k]
           n == sent[k]
           open == link[k] = "open"
<1>1. PICK p \in Boundaries(old.text) :
              /\ sess' = [sess EXCEPT ![c].caret = <<p>>]
              /\ IF old.connected THEN Send(k, <<CursorData(<<p>>)>>) ELSE UNCHANGED up
    BY DEF MoveCaret
<1> DEFINE caret == <<p>>
           s == [old EXCEPT !.caret = caret]
           m == CursorData(caret)
           u == <<m>>
<1>2. /\ sess' = [sess EXCEPT ![c] = s]
      /\ IF old.connected THEN Send(k, u) ELSE UNCHANGED up
      /\ UNCHANGED <<docText, ops, nextID, cursors, link, id, sent, down, episode>>
    BY <1>1 DEF MoveCaret, roomVars, linkVars
<1>3. /\ Mirrors(old, ops) /\ (old.baselined => Pends(old))
      /\ SessionOK(old) /\ IsSeq(old.text)
    BY DEF CInv, SessionsMirror, Mirrors
<1>4. CaretIn(caret, old.text) /\ \A i \in DOMAIN caret : caret[i] \in Nat
  <2>1. DOMAIN caret = 1..1 /\ caret[1] = p
      BY IsSeqOne, IsSeqLen
  <2>2. Len(old.text) \in Nat
      BY <1>3, IsSeqLen
  <2>3. p \in 0..Len(old.text) /\ p \in Nat /\ 1..1 = {1}
      BY <2>2 DEF Boundaries
  <2> HIDE DEF caret, old
  <2> QED BY <2>1, <2>3 DEF CaretIn
<1> HIDE DEF caret
<1>5. SameTexts(old, s) /\ s.caret = caret /\ s.selfId = old.selfId
      /\ s.baselined = old.baselined /\ s.connected = old.connected
    BY <1>3 DEF SessionOK, SameTexts
<1> HIDE DEF s
<1>6. Mirrors(s, ops) /\ (Pends(old) => Pends(s))
    BY <1>3, <1>4, <1>5, TextsKept DEF SameTexts
<1>7. Legible(ops, m) /\ m.type # "Edit"
    BY <1>4 DEF CursorData, Legible
<1> HIDE DEF m
<1>8. IsSeq(u) /\ AllLegible(ops, u) /\ NoEdit(u)
    BY <1>7, OneMessage, IsSeqOne
<1> HIDE DEF u
<1>9. CASE old.connected
  <2>1. Talks(old, ops, user, q, d, n, open) /\ IsSeq(q) /\ open \in BOOLEAN
      BY <1>9, Touching DEF InTouch
  <2>2. Reports(ops, user, Sent(q, u, open), open, old)
    <3>1. Reports(ops, user, q, open, old)
        BY <2>1 DEF Talks
    <3>2. NoEdit(q) => NoEdit(Sent(q, u, open))
        BY <1>8, <2>1, ConcatEdits DEF Sent
    <3> DEFINE p0 == old.pending
               v == old.revision
    <3> HIDE DEF p0, v, user, q, open
    <3>3. Outstanding(ops, v, user, q, p0, open)
             => Outstanding(ops, v, user, Sent(q, u, open), p0, open)
        BY <1>8, <2>1, OutstandingMore
    <3> QED BY <3>1, <3>2, <3>3 DEF Reports, Untold, p0, v
  <2>3. Talks(s, ops, id[k], Sent(up[k], u, link[k] = "open"), down'[k], sent[k],
              link[k] = "open")
      BY <1>2, <1>5, <2>1, <2>2 DEF Talks, Reports, SameTexts
  <2>4. Send(k, u) /\ (s.baselined => Pends(s))
      BY <1>2, <1>3, <1>5, <1>6, <1>9
  <2> HIDE DEF k
  <2> QED BY <1>2, <1>6, <1>8, <1>9, <2>3, <2>4, SendKeeps DEF k
<1>10. CASE ~old.connected
  <2>1. \A j \in Conns : AllLegible(ops, up'[j])
      BY <1>2, <1>10 DEF CInv, UpLegible
  <2> HIDE DEF k
  <2> QED BY <1>2, <1>3, <1>5, <1>6, <1>10, <2>1, ClientKeeps
<1> QED BY <1>9, <1>10

---------------------------------------------------------------------------
(* The invariant holds.                                                    *)

\* A room's log starts with its seed (room.go, NewRoom).
LEMMA SeedWritten ==
    LET log == NewRoomOps(Seed)
    IN  /\ Written(log) /\ TextOf(log, Len(log)) = Seed
        /\ Len(log) = IF Seed = << >> THEN 0 ELSE 1
        /\ \A n \in 1..Len(log) : log[n].id = SystemUserID
<1>1. NewRoomOps(Seed) = FirstLog(SystemUserID, Seed)
    BY DEF NewRoomOps, FirstLog
<1> QED BY <1>1, FirstLogWritten, CollabAssumption DEF IsText

\* The invariant holds at first.
LEMMA InitKeeps == Init => CInv
<1> SUFFICES ASSUME Init PROVE CInv
    OBVIOUS
<1>1. IInv
    BY InitOK
<1>2. ops = NewRoomOps(Seed) /\ docText = Seed /\ nextID = 1
    BY DEF Init
<1>3. /\ Written(ops) /\ TextOf(ops, Len(ops)) = Seed
      /\ \A n \in 1..Len(ops) : ops[n].id = SystemUserID
    BY <1>2, SeedWritten
<1>4. LogWritten
    BY <1>2, <1>3 DEF LogWritten, SystemUserID
<1>5. IdsDistinct
    BY <1>2 DEF Init, IdsDistinct, None
<1>6. ConnsFresh
    BY DEF Init, ConnsFresh
<1>7. UpLegible
    BY EmptyQueue DEF Init, UpLegible
<1>8. \A t : CaretIn(<< >>, t)
    BY IsSeqEmpty DEF CaretIn
<1>9. CursorsInside
    BY <1>8 DEF Init, CursorsInside
<1>10. \A c \in Clients : sess[c] = NewSession
    BY DEF Init
<1>11. ASSUME NEW c \in Clients
       PROVE  /\ Mirrors(sess[c], ops) /\ ~sess[c].baselined /\ ~sess[c].connected
  <2> DEFINE s == sess[c]
  <2>1. /\ s.text = << >> /\ s.synced = << >> /\ s.caret = << >> /\ s.revision = 0
        /\ s.failed = "none" /\ ~s.baselined /\ ~s.connected
      BY <1>10 DEF NewSession
  <2>2. SessionOK(s)
      BY <1>1 DEF IInv, TypeOK
  <2>3. 0 \in 0..Len(ops) /\ TextOf(ops, 0) = << >>
    <3>1. Len(ops) \in Nat
        BY <1>3, IsSeqLen DEF Written
    <3> QED BY <3>1, TextStep
  <2> HIDE DEF s
  <2>4. Mirrors(s, ops)
      BY <1>8, <2>1, <2>2, <2>3, IsSeqEmpty, ValidNone DEF Mirrors
  <2> QED BY <2>1, <2>4 DEF s
<1>12. SessionsMirror /\ ClientsInTouch
    BY <1>11 DEF SessionsMirror, ClientsInTouch
<1> QED BY <1>1, <1>4, <1>5, <1>6, <1>7, <1>9, <1>12 DEF CInv

\* Every step keeps the invariant.
LEMMA NextKeeps ==
    CInv /\ [Next]_vars => CInv'
<1> SUFFICES ASSUME CInv, [Next]_vars PROVE CInv'
    OBVIOUS
<1>1. IInv'
    BY NextOK DEF CInv
<1>2. ASSUME NEW k \in Conns, ServerStep(k) PROVE CInv'
  <2>1. CASE Serving(k) /\ \E code : Hangup(k, code)
      BY <1>1, <2>1, HangupKeeps
  <2>2. RejectEdit(k) \/ ThrottleEdit(k) \/ NoticeLoss(k) \/ ServerLoses(k)
          => Serving(k) /\ \E code : Hangup(k, code)
      BY DEF RejectEdit, ThrottleEdit, NoticeLoss, ServerLoses, Serving
  <2> QED BY <1>1, <1>2, <2>1, <2>2, AcceptEditKeeps, SetCursorKeeps, PushKeeps
          DEF ServerStep
<1>3. ASSUME NEW c \in Clients, ClientStep(c) PROVE CInv'
    BY <1>1, <1>3, ConnectKeeps, LoseKeeps, ReceiveIdentityKeeps, ReceiveHistoryKeeps,
       ReceiveCloseKeeps, EditLocallyKeeps, MoveCaretKeeps DEF ClientStep, Receive
<1>4. CASE UNCHANGED vars
  <2>1. UNCHANGED <<docText, ops, nextID, cursors, link, id, sent, up, down, sess, episode>>
      BY <1>4 DEF vars, roomVars, linkVars, queueVars, clientVars
  <2>2. LogWritten' /\ IdsDistinct' /\ ConnsFresh' /\ UpLegible' /\ CursorsInside'
        /\ SessionsMirror'
      BY <2>1 DEF CInv, LogWritten, IdsDistinct, ConnsFresh, UpLegible, CursorsInside,
                  SessionsMirror
  <2>3. \A c \in Clients : Current(c)' = Current(c)
      BY <2>1 DEF Current
  <2>4. ClientsInTouch'
      BY <2>1, <2>3 DEF CInv, ClientsInTouch, InTouch
  <2> QED BY <1>1, <2>2, <2>4 DEF CInv
<1> QED BY <1>2, <1>3, <1>4 DEF Next

(***************************************************************************)
(* The inductive invariant: where every outstanding operation is, and what *)
(* the queues carry.                                                       *)
(***************************************************************************)
THEOREM Agreement ==
    Spec => []CInv
<1>1. CInv /\ [Next]_vars => CInv'
    BY NextKeeps
<1> QED BY <1>1, InitKeeps, PTL DEF Spec

---------------------------------------------------------------------------
(* What follows from it.                                                   *)

\* With nothing under way a session has read the whole log and has nothing
\* outstanding.
LEMMA NothingUnderWay ==
    ASSUME NEW log, NEW s, s.baselined, s.revision \in Nat, NEW n \in Nat, NEW user,
           Talks(s, log, user, << >>, << >>, n, TRUE), n = Len(log)
    PROVE  s.revision = Len(log) /\ s.pending = << >>
<1> DEFINE none == << >>
           v == s.revision
           p == s.pending
<1>1. DOMAIN none = {}
    BY IsSeqEmpty
<1>2. Covers(log, << >>, v, n) /\ Outstanding(log, v, user, none, p, TRUE)
    BY DEF Talks, Reports
<1>3. v = n
    BY <1>2, CoversNothing
<1> HIDE DEF none, v, p
<1>4. ~Travels(log, v, user, none, p[1])
    BY <1>1 DEF Travels, OnlyEdit
<1>5. ~Accepted(log, v, user, none, p[1])
  <2>1. \A j : j \notin (v + 1)..Len(log)
      BY <1>3
  <2> QED BY <2>1 DEF Accepted, SoleOwn
<1>6. p = << >>
    BY <1>2, <1>4, <1>5 DEF Outstanding, Lost
<1> QED BY <1>3, <1>6 DEF v, p

(***************************************************************************)
(* Once everything sent has arrived everyone has the server's text and no  *)
(* edit is left unconfirmed, whatever was lost on the way (PLAN.md and     *)
(* transform.go: byte-identical documents).                                *)
(***************************************************************************)
THEOREM Converges ==
    Spec => []Convergence
<1>1. CInv => Convergence
  <2> SUFFICES ASSUME CInv, Quiet, NEW c \in Clients
               PROVE  sess[c].text = docText /\ sess[c].pending = << >>
      BY DEF Convergence
  <2> DEFINE s == sess[c]
             k == Current(c)
             n == sent[k]
             user == id[k]
  <2>1. s.connected /\ s.baselined /\ link[k] = "open" /\ down[k] = << >>
      BY DEF Quiet
  <2>2. k \in Conns
      BY <2>1, Touching
  <2>3. up[k] = << >> /\ n = Len(ops)
      BY <2>1, <2>2 DEF Quiet, Serving
  <2>4. Talks(s, ops, user, << >>, << >>, n, TRUE) /\ n \in Nat
      BY <2>1, <2>3, Touching DEF InTouch
  <2>5. Mirrors(s, ops) /\ Pends(s)
      BY <2>1, Touching
  <2> HIDE DEF s, n, user
  <2>6. s.revision \in Nat
      BY <2>5 DEF Mirrors
  <2>7. s.revision = Len(ops) /\ s.pending = << >>
      BY <2>1, <2>3, <2>4, <2>6, NothingUnderWay
  <2>8. s.synced = TextOf(ops, Len(ops)) /\ docText = TextOf(ops, Len(ops))
      BY <2>5, <2>7 DEF Mirrors, CInv, LogWritten
  <2>9. s.text = s.synced
    <3>1. Len(<< >>) = 0
        BY IsSeqEmpty
    <3> QED BY <2>5, <2>7, <3>1 DEF Pends, Unconfirmed
  <2> QED BY <2>7, <2>8, <2>9 DEF s
<1> QED BY <1>1, Agreement, PTL

(***************************************************************************)
(* No message a session handles makes it throw: no acknowledgement comes   *)
(* without an outstanding operation, no operation has the wrong length     *)
(* (client.ts, serverAck; the engine's OTErrors).                          *)
(***************************************************************************)
THEOREM SessionsNeverFail ==
    Spec => []NoSessionFails
<1>1. CInv => NoSessionFails
    BY DEF CInv, SessionsMirror, Mirrors, NoSessionFails
<1> QED BY <1>1, Agreement, PTL

(***************************************************************************)
(* The room refuses no edit except for its size: each can be rebased and   *)
(* applied (room.go, ApplyEdit's errors).                                  *)
(***************************************************************************)
THEOREM EditsAreReconcilable ==
    Spec => []NoEditRefused
<1>1. CInv => NoEditRefused
  <2> SUFFICES ASSUME CInv, NEW k \in Conns, up[k] # << >>, Head(up[k]).type = "Edit",
                      ~TooLarge(Head(up[k]))
               PROVE  Acceptable(Head(up[k]))
      BY DEF NoEditRefused
  <2> DEFINE q == up[k]
             m == Head(q)
  <2>1. IsSeq(q) /\ AllLegible(ops, q) /\ Written(ops) /\ docText = TextOf(ops, Len(ops))
      BY QueuesOK DEF CInv, LogWritten
  <2>2. EditOK(ops, m)
    <3> HIDE DEF q
    <3>1. Legible(ops, m)
        BY <2>1, TailEdits DEF q
    <3> QED BY <3>1 DEF Legible, q
  <2> HIDE DEF m
  <2>3. Rebased(m).ok /\ \E e : Does(Rebased(m).op, TextOf(ops, Len(ops)), e)
      BY <2>1, <2>2, RebasedDoes
  <2> DEFINE op == Rebased(m).op
  <2>4. Applies(op, docText)
    <3>1. PICK e : Does(op, docText, e)
        BY <2>1, <2>3
    <3> HIDE DEF op
    <3> QED BY <3>1, DoesApplies
  <2>5. InRange(m)
      BY <2>2 DEF EditOK, InRange
  <2> QED BY <2>3, <2>4, <2>5 DEF Acceptable, m
<1> QED BY <1>1, Agreement, PTL

(***************************************************************************)
(* Every caret the room keeps is inside the document (room.go, clampCursor *)
(* and transformCursor), and so is every session's own.                    *)
(***************************************************************************)
THEOREM CaretsStayInRange ==
    Spec => []CaretsInRange
<1>1. CInv => CaretsInRange
    BY DEF CInv, CursorsInside, SessionsMirror, Mirrors, CaretIn, CaretsInRange
<1> QED BY <1>1, Agreement, PTL

\* Accepting an edit is the only step that changes the document.
LEMMA DocumentKept ==
    ASSUME [Next]_vars, \A k \in Conns : ~AcceptEdit(k)
    PROVE  UNCHANGED <<docText, ops>>
<1>1. ASSUME NEW k \in Conns, ServerStep(k) PROVE UNCHANGED <<docText, ops>>
    BY <1>1 DEF ServerStep, RejectEdit, ThrottleEdit, SetCursor, Push, NoticeLoss,
                ServerLoses, Hangup, roomVars
<1>2. ASSUME NEW c \in Clients, ClientStep(c) PROVE UNCHANGED <<docText, ops>>
    BY <1>2 DEF ClientStep, Receive, Connect, Lose, ReceiveIdentity, ReceiveHistory,
                ReceiveClose, EditLocally, MoveCaret, roomVars
<1>3. CASE UNCHANGED vars
    BY <1>3 DEF vars, roomVars
<1> QED BY <1>1, <1>2, <1>3 DEF Next

(***************************************************************************)
(* The document never outgrows the limit if its seed does not, however     *)
(* edits that were each small enough when they were made add up (room.go,  *)
(* ErrTooLarge).                                                           *)
(***************************************************************************)
THEOREM DocumentStaysWithinLimit ==
    ASSUME Len(Seed) <= MaxDoc
    PROVE  Spec => []DocumentWithinLimit
<1>1. Init => DocumentWithinLimit
    BY DEF Init, DocumentWithinLimit
<1>2. CInv /\ DocumentWithinLimit /\ [Next]_vars => DocumentWithinLimit'
  <2> SUFFICES ASSUME CInv, DocumentWithinLimit, [Next]_vars PROVE DocumentWithinLimit'
      OBVIOUS
  <2>1. ASSUME NEW k \in Conns, AcceptEdit(k) PROVE DocumentWithinLimit'
    <3> DEFINE m == Head(up[k])
               op == Rebased(m).op
    <3>1. docText' = Apply(op, docText) /\ Acceptable(m) /\ m.type = "Edit"
        BY <2>1 DEF AcceptEdit
    <3>2. ~(TargetLen(op) > MaxDoc)
        BY <3>1 DEF Acceptable, TooLarge
    <3>3. EditOK(ops, m)
        BY <2>1, EditLogged
    <3>4. \E e : Does(op, docText, e)
      <4>1. Written(ops) /\ docText = TextOf(ops, Len(ops))
          BY DEF CInv, LogWritten
      <4> HIDE DEF m
      <4>2. \E e : Does(op, TextOf(ops, Len(ops)), e)
          BY <3>3, <4>1, RebasedDoes
      <4> QED BY <4>1, <4>2
    <3> HIDE DEF op
    <3>5. PICK e : Does(op, docText, e)
        BY <3>4
    <3>6. e = docText' /\ Len(e) = TargetLen(op) /\ IsSeq(e)
        BY <3>1, <3>5, DoesTarget
    <3>7. Len(docText') \in Nat /\ MaxDoc \in Nat
        BY <3>6, IsSeqLen, CollabAssumption
    <3> QED BY <3>2, <3>6, <3>7 DEF DocumentWithinLimit
  <2>2. CASE \A k \in Conns : ~AcceptEdit(k)
      BY <2>2, DocumentKept DEF DocumentWithinLimit
  <2> QED BY <2>1, <2>2
<1> QED BY <1>1, <1>2, Agreement, PTL DEF Spec

\* The recursion of AfterAll, as the function its definition describes.
AfterRun(p, text, t) ==
    /\ t[0] = text
    /\ \A k \in 1..Len(p) : t[k] = Apply(p[k], t[k - 1])
    /\ AfterAll(p, text) = t[Len(p)]

\* There is such a function.
LEMMA AfterUnfold ==
    ASSUME NEW p, IsSeq(p), NEW text
    PROVE  \E t : AfterRun(p, text, t)
<1> DEFINE N == Len(p)
           Step(x, k) == Apply(p[k], x)
           Loop(f, n) == f = [k \in 0..n |-> IF k = 0 THEN text ELSE Step(f[k - 1], k)]
           S == {n \in 0..N : \E f : Loop(f, n)}
           t == CHOOSE f : Loop(f, N)
<1>1. N \in Nat
    BY IsSeqLen
<1>2. AfterAll(p, text) = t[N]
    BY DEF AfterAll
<1> HIDE DEF N, Step
<1>3. 0 \in S
  <2>1. Loop([k \in 0..0 |-> text], 0)
      OBVIOUS
  <2> HIDE DEF Loop
  <2> QED BY <1>1, <2>1
<1>4. ASSUME NEW n \in 0..(N - 1), n \in S PROVE n + 1 \in S
  <2>1. PICK f : Loop(f, n)
      BY <1>4
  <2> DEFINE g == [k \in 0..(n + 1) |-> IF k <= n THEN f[k] ELSE Step(f[n], n + 1)]
  <2>2. Loop(g, n + 1)
      BY <1>1, <2>1
  <2> HIDE DEF Loop
  <2> QED BY <1>1, <2>2
<1>5. N \in S
  <2> HIDE DEF S
  <2>1. 0..N \subseteq S
      BY <1>1, <1>3, <1>4, BoundedInduction
  <2>2. N \in 0..N
      BY <1>1
  <2> QED BY <2>1, <2>2
<1>6. Loop(t, N)
    BY <1>5
<1> HIDE DEF t
<1>7. t[0] = text /\ \A k \in 1..N : t[k] = Step(t[k - 1], k)
    BY <1>1, <1>6
<1>8. AfterRun(p, text, t)
    BY <1>2, <1>7 DEF AfterRun, N, Step
<1> QED BY <1>8

\* What the pending operations make of the mirror.
LEMMA PendingShows ==
    ASSUME NEW p, IsSeq(p), NEW synced, NEW text, Unconfirmed(p, synced, text)
    PROVE  text = AfterAll(p, synced)
<1>1. PICK t : AfterRun(p, synced, t)
    BY AfterUnfold
<1>2. /\ t[0] = synced /\ AfterAll(p, synced) = t[Len(p)]
      /\ \A k \in 1..Len(p) : t[k] = Apply(p[k], t[k - 1])
    BY <1>1 DEF AfterRun
<1>3. CASE p = << >> /\ text = synced
  <2>1. Len(p) = 0
      BY <1>3, IsSeqEmpty
  <2> QED BY <1>2, <1>3, <2>1
<1>4. CASE Len(p) = 1 /\ Does(p[1], synced, text)
  <2>1. t[1] = Apply(p[1], t[0])
    <3>1. 1 \in 1..Len(p) /\ 1 - 1 = 0
        BY <1>4
    <3> QED BY <1>2, <3>1
  <2>2. Apply(p[1], synced) = text
      BY <1>4 DEF Does
  <2> QED BY <1>2, <1>4, <2>1, <2>2
<1>5. ASSUME Len(p) = 2, NEW m, Does(p[1], synced, m), Does(p[2], m, text)
      PROVE  text = AfterAll(p, synced)
  <2>1. t[1] = Apply(p[1], t[0]) /\ t[2] = Apply(p[2], t[1])
    <3>1. 1 \in 1..Len(p) /\ 1 - 1 = 0 /\ 2 \in 1..Len(p) /\ 2 - 1 = 1
        BY <1>5
    <3>2. t[1] = Apply(p[1], t[1 - 1]) /\ t[2] = Apply(p[2], t[2 - 1])
        BY <1>2, <3>1
    <3> QED BY <3>1, <3>2
  <2>2. Apply(p[1], synced) = m /\ Apply(p[2], m) = text
      BY <1>5 DEF Does
  <2> QED BY <1>2, <1>5, <2>1, <2>2
<1> QED BY <1>3, <1>4, <1>5 DEF Unconfirmed

(***************************************************************************)
(* The screen shows the mirror plus the unconfirmed edits (session.ts:     *)
(* "this._text is always syncedText plus whatever local edits haven't been *)
(* confirmed yet").                                                        *)
(***************************************************************************)
THEOREM ScreenIsMirrorPlusPending ==
    Spec => []TextIsSyncedPlusPending
<1>1. CInv => TextIsSyncedPlusPending
  <2> SUFFICES ASSUME CInv, NEW c \in Clients, sess[c].baselined
               PROVE  sess[c].text = AfterAll(sess[c].pending, sess[c].synced)
      BY DEF TextIsSyncedPlusPending
  <2> DEFINE s == sess[c]
  <2>1. IsSeq(s.pending) /\ Unconfirmed(s.pending, s.synced, s.text)
      BY DEF CInv, SessionsMirror, Mirrors, SessionOK, Pends
  <2> DEFINE p == s.pending
             a == s.synced
             b == s.text
  <2> HIDE DEF p, a, b
  <2>2. b = AfterAll(p, a)
      BY <2>1, PendingShows DEF p, a, b
  <2> QED BY <2>2 DEF p, a, b
<1> QED BY <1>1, Agreement, PTL

---------------------------------------------------------------------------
(* Sessions move forward through the room's versions.                      *)

\* What a client's step does to its session's revision, and to the others'.
LEMMA RevisionsMove ==
    ASSUME CInv, [Next]_vars, \A k \in Conns : ~AcceptEdit(k)
    PROVE  \/ \A d \in Clients : sess'[d].revision = sess[d].revision
           \/ \E c \in Clients :
                 /\ sess[c].revision <= sess'[c].revision
                 /\ \A d \in Clients : d # c => sess'[d] = sess[d]
<1>1. ASSUME NEW k \in Conns, ServerStep(k) PROVE sess' = sess
    BY <1>1 DEF ServerStep, RejectEdit, ThrottleEdit, SetCursor, Push, NoticeLoss,
                ServerLoses, Hangup, clientVars
<1>2. ASSUME NEW c \in Clients, ClientStep(c)
      PROVE  /\ sess[c].revision <= sess'[c].revision
             /\ \A d \in Clients : d # c => sess'[d] = sess[d]
  <2> DEFINE old == sess[c]
  <2>1. DOMAIN sess = Clients /\ SessionOK(old) /\ Mirrors(old, ops)
      BY DEF CInv, IInv, TypeOK, SessionsMirror
  <2>2. old.revision \in Nat /\ old.revision <= old.revision
      BY <2>1 DEF Mirrors
  <2>3. ASSUME NEW s, sess' = [sess EXCEPT ![c] = s], old.revision <= s.revision
        PROVE  /\ sess[c].revision <= sess'[c].revision
               /\ \A d \in Clients : d # c => sess'[d] = sess[d]
      BY <2>1, <2>3
  <2>4. CASE Connect(c) \/ Lose(c) \/ ReceiveClose(c)
    <3>1. \E on \in BOOLEAN : sess' = [sess EXCEPT ![c] = HandleStatus(old, on)]
        BY <2>4 DEF Connect, Lose, ReceiveClose
    <3>2. PICK on \in BOOLEAN : sess' = [sess EXCEPT ![c] = HandleStatus(old, on)]
        BY <3>1
    <3>3. HandleStatus(old, on).revision = old.revision
        BY <2>1, HandleStatusOK
    <3> QED BY <2>2, <2>3, <3>2, <3>3
  <2>5. CASE ReceiveIdentity(c)
    <3> DEFINE s == HandleIdentity(old, Head(down[Current(c)]).user)
    <3>1. sess' = [sess EXCEPT ![c] = s]
        BY <2>5 DEF ReceiveIdentity
    <3>2. s.revision = old.revision
        BY <2>1 DEF HandleIdentity, SessionOK
    <3> HIDE DEF s
    <3> QED BY <2>2, <2>3, <3>1, <3>2
  <2>6. CASE ReceiveHistory(c)
    <3> DEFINE k == Current(c)
               r == HandleHistory(old, Head(down[k]).start, Head(down[k]).ops)
    <3>1. sess' = [sess EXCEPT ![c] = r.s]
        BY <2>6 DEF ReceiveHistory
    <3>2. old.revision <= r.s.revision
        BY <2>6, HistoryAdvances
    <3> HIDE DEF r
    <3> QED BY <2>3, <3>1, <3>2
  <2>7. CASE EditLocally(c)
    <3>1. PICK op : sess' = [sess EXCEPT ![c] = ApplyLocalChange(old, op).s]
        BY <2>7 DEF EditLocally
    <3>2. ApplyLocalChange(old, op).s.revision = old.revision
        BY <2>1, ApplyLocalChangeOK
    <3> QED BY <2>2, <2>3, <3>1, <3>2
  <2>8. CASE MoveCaret(c)
    <3>1. PICK p : sess' = [sess EXCEPT ![c].caret = <<p>>]
        BY <2>8 DEF MoveCaret
    <3> DEFINE s == [old EXCEPT !.caret = <<p>>]
    <3>2. sess' = [sess EXCEPT ![c] = s]
        BY <3>1
    <3>3. s.revision = old.revision
        BY <2>1 DEF SessionOK
    <3> HIDE DEF s
    <3> QED BY <2>2, <2>3, <3>2, <3>3
  <2> QED BY <1>2, <2>4, <2>5, <2>6, <2>7, <2>8 DEF ClientStep, Receive
<1>3. CASE UNCHANGED vars
    BY <1>3 DEF vars, clientVars
<1> QED BY <1>1, <1>2, <1>3 DEF Next

\* The texts a log's document has had, oldest first (module Versions).
VersionsOf(log) == [n \in 1..(Len(log) + 1) |-> TextOf(log, n - 1)]

\* They are a sequence, one longer than the log.
LEMMA VersionsOK ==
    ASSUME NEW log, Len(log) \in Nat
    PROVE  /\ IsSeq(VersionsOf(log)) /\ Len(VersionsOf(log)) = Len(log) + 1
           /\ \A n \in 1..(Len(log) + 1) : VersionsOf(log)[n] = TextOf(log, n - 1)
<1> DEFINE N == Len(log) + 1
           v == VersionsOf(log)
           S == {TextOf(log, n - 1) : n \in 1..N}
<1>1. N \in Nat
    OBVIOUS
<1>2. v = [n \in 1..N |-> TextOf(log, n - 1)]
    BY DEF VersionsOf
<1>3. v \in [1..N -> S]
    BY <1>2
<1>4. \A n \in 1..N : v[n] = TextOf(log, n - 1)
    BY <1>2
<1> HIDE DEF N, S, v
<1>5. v \in Seq(S) /\ Len(v) = N
    BY <1>1, <1>3, SMT
<1>6. IsSeq(v)
    BY <1>5, IsSeqIntro
<1> QED BY <1>4, <1>5, <1>6 DEF v, N

\* A log with an entry more has the same versions and one more.
LEMMA VersionsGrow ==
    ASSUME NEW log, NEW more, NEW entry, Grows(log, more, entry)
    PROVE  LET old == VersionsOf(log)
               new == VersionsOf(more)
           IN  Len(new) = Len(old) + 1 /\ SubSeq(new, 1, Len(old)) = old
<1> DEFINE old == VersionsOf(log)
           new == VersionsOf(more)
           L == Len(log)
           N == Len(old)
           part == SubSeq(new, 1, N)
<1>1. L \in Nat /\ Len(more) = L + 1 /\ \A n \in 0..L : TextOf(more, n) = TextOf(log, n)
    BY DEF Grows
<1>2. Len(more) \in Nat
    BY <1>1
<1>3. IsSeq(old) /\ N = L + 1 /\ \A n \in 1..(L + 1) : old[n] = TextOf(log, n - 1)
    BY <1>1, VersionsOK
<1>4. /\ IsSeq(new) /\ Len(new) = Len(more) + 1
      /\ \A n \in 1..(Len(more) + 1) : new[n] = TextOf(more, n - 1)
    BY <1>2, VersionsOK
<1> HIDE DEF old, new, L
<1>5. Len(new) = N + 1
    BY <1>1, <1>3, <1>4
<1>6. 1 \in Nat \ {0} /\ N \in (1 - 1)..Len(new) /\ N - 1 + 1 = N
    BY <1>1, <1>3, <1>5
<1> HIDE DEF N
<1>7. IsSeq(part) /\ Len(part) = N /\ \A i \in 1..N : part[i] = new[1 + i - 1]
    BY <1>4, <1>6, SegmentOK
<1> HIDE DEF part
<1>8. ASSUME NEW i \in 1..N PROVE part[i] = old[i]
  <2>1. /\ i \in 1..(L + 1) /\ i \in 1..(Len(more) + 1) /\ i - 1 \in 0..L
        /\ 1 + i - 1 = i
      BY <1>1, <1>3
  <2> QED BY <1>1, <1>3, <1>4, <1>7, <2>1
<1>9. part = old
    BY <1>3, <1>7, <1>8, IsSeqEqual DEF N
<1> QED BY <1>5, <1>9 DEF part, N, old, new

\* A room's first versions are the ones its seed gives it.
LEMMA VersionsAtFirst ==
    VersionsOf(NewRoomOps(Seed)) = IF Seed = << >> THEN <<Seed>> ELSE << << >>, Seed>>
<1> DEFINE log == NewRoomOps(Seed)
           v == VersionsOf(log)
           none == << >>
<1>1. /\ Written(log) /\ TextOf(log, Len(log)) = Seed
      /\ Len(log) = IF Seed = none THEN 0 ELSE 1
    BY SeedWritten
<1>2. TextOf(log, 0) = none
    BY TextStep
<1> HIDE DEF log
<1>3. Len(log) \in Nat
    BY <1>1
<1>4. /\ IsSeq(v) /\ Len(v) = Len(log) + 1
      /\ \A n \in 1..(Len(log) + 1) : v[n] = TextOf(log, n - 1)
    BY <1>3, VersionsOK
<1> HIDE DEF v
<1>5. CASE Seed = none
  <2> DEFINE w == <<Seed>>
  <2>1. IsSeq(w) /\ Len(w) = 1 /\ w[1] = Seed
      BY IsSeqOne
  <2> HIDE DEF w, none
  <2>2. Len(v) = 1 /\ v[1] = Seed
    <3>1. Len(log) = 0 /\ 1 \in 1..(0 + 1) /\ 1 - 1 = 0
        BY <1>1, <1>5
    <3> QED BY <1>2, <1>4, <1>5, <3>1
  <2>3. \A i \in 1..1 : v[i] = w[i]
      BY <2>1, <2>2
  <2>4. v = w
      BY <1>4, <2>1, <2>2, <2>3, IsSeqEqual
  <2> QED BY <1>5, <2>4 DEF v, log, w, none
<1>6. CASE Seed # none
  <2> DEFINE w == <<none, Seed>>
  <2> HIDE DEF none
  <2>1. w \in Seq({none, Seed}) /\ Len(w) = 2 /\ w[1] = none /\ w[2] = Seed
      OBVIOUS
  <2>2. IsSeq(w)
      BY <2>1, IsSeqIntro
  <2> HIDE DEF w
  <2>3. Len(v) = 2 /\ v[1] = none /\ v[2] = Seed
    <3>1. /\ Len(log) = 1 /\ 1 \in 1..(1 + 1) /\ 1 - 1 = 0
          /\ 2 \in 1..(1 + 1) /\ 2 - 1 = 1 /\ 1 + 1 = 2
        BY <1>1, <1>6
    <3> QED BY <1>1, <1>2, <1>4, <3>1
  <2>4. \A i \in 1..2 : v[i] = w[i]
      BY <2>1, <2>3
  <2>5. v = w
      BY <1>4, <2>1, <2>2, <2>3, <2>4, IsSeqEqual
  <2> QED BY <1>6, <2>5 DEF v, log, w, none
<1> QED BY <1>5, <1>6

\* The room's versions are those of its log.
LEMMA RoomVersions ==
    [n \in 1..(Len(ops) + 1) |-> TextAt(n - 1)] = VersionsOf(ops)
BY DEF VersionsOf, TextAt, TextOf

\* Its initial states are initial states of module Versions.
LEMMA InitMoves == Init => Document!Init
<1> SUFFICES ASSUME Init PROVE Document!Init
    OBVIOUS
<1> DEFINE origin == IF Seed = << >> THEN <<Seed>> ELSE << << >>, Seed>>
<1>1. ops = NewRoomOps(Seed) /\ \A c \in Clients : sess[c] = NewSession
    BY DEF Init
<1>2. VersionsOf(ops) = origin
    BY <1>1, VersionsAtFirst
<1>3. \A c \in Clients : sess[c].revision = 0 /\ sess[c].synced = << >>
    BY <1>1 DEF NewSession
<1>4. origin[1] = << >>
    BY DEF origin
<1> HIDE DEF origin
<1>5. /\ [n \in 1..(Len(ops) + 1) |-> TextAt(n - 1)] = origin
      /\ [c \in Clients |-> sess[c].revision] = [c \in Clients |-> 0]
      /\ [c \in Clients |-> sess[c].synced] = [c \in Clients |-> origin[1]]
    BY <1>2, <1>3, <1>4, RoomVersions
<1> QED BY <1>5 DEF Document!Init, origin

\* Accepting an edit publishes a version.
LEMMA AcceptEditPublishes ==
    ASSUME CInv, NEW k \in Conns, AcceptEdit(k)
    PROVE  Document!Publish
<1>1. PICK op : Grows(ops, ops', Entry(id[k], op))
    BY EditLogged
<1> DEFINE old == VersionsOf(ops)
           new == VersionsOf(ops')
<1>2. Len(new) = Len(old) + 1 /\ SubSeq(new, 1, Len(old)) = old
    BY <1>1, VersionsGrow
<1>3. sess' = sess
    BY DEF AcceptEdit, clientVars
<1>4. old = [n \in 1..(Len(ops) + 1) |-> TextAt(n - 1)]
    BY RoomVersions
<1>5. new = [n \in 1..(Len(ops') + 1) |-> TextAt(n - 1)']
    BY RoomVersions DEF VersionsOf, TextAt, TextOf
<1> HIDE DEF old, new
<1> QED BY <1>2, <1>3, <1>4, <1>5 DEF Document!Publish

\* Any other step leaves the versions alone, and moves at most one client on.
LEMMA OthersCatchUp ==
    ASSUME CInv, CInv', [Next]_vars, \A k \in Conns : ~AcceptEdit(k)
    PROVE  (\E c \in Clients : Document!CatchUp(c)) \/ UNCHANGED Document!vars
<1> DEFINE v == VersionsOf(ops)
           at == [c \in Clients |-> sess[c].revision]
           shown == [c \in Clients |-> sess[c].synced]
<1>1. ops' = ops
    BY DocumentKept
<1>2. v = [n \in 1..(Len(ops) + 1) |-> TextAt(n - 1)] /\ v' = v
    BY <1>1, RoomVersions DEF VersionsOf, TextOf
<1>3. [n \in 1..(Len(ops) + 1) |-> TextAt(n - 1)]' = [n \in 1..(Len(ops) + 1) |-> TextAt(n - 1)]
    BY <1>1 DEF TextAt
<1>4. ASSUME NEW c \in Clients
      PROVE  /\ sess[c].revision \in 0..Len(ops)
             /\ sess[c].synced = TextOf(ops, sess[c].revision)
             /\ sess'[c].revision \in 0..Len(ops)
             /\ sess'[c].synced = TextOf(ops, sess'[c].revision)
  <2>1. Mirrors(sess[c], ops)
      BY DEF CInv, SessionsMirror
  <2>2. Mirrors(sess'[c], ops')
      BY DEF CInv, SessionsMirror
  <2> QED BY <1>1, <2>1, <2>2 DEF Mirrors
<1>5. Len(ops) \in Nat
    BY IsSeqLen DEF CInv, LogWritten, Written
<1>6. CASE \A d \in Clients : sess'[d].revision = sess[d].revision
  <2>1. \A d \in Clients : sess'[d].synced = sess[d].synced
      BY <1>4, <1>6
  <2>2. at' = at /\ shown' = shown
      BY <1>6, <2>1
  <2> QED BY <1>3, <2>2 DEF Document!vars
<1>7. ASSUME NEW c \in Clients, sess[c].revision <= sess'[c].revision,
             \A d \in Clients : d # c => sess'[d] = sess[d]
      PROVE  Document!CatchUp(c)
  <2> DEFINE n == sess'[c].revision
  <2>1. at' = [at EXCEPT ![c] = n]
      BY <1>7
  <2>2. n \in 0..Len(ops) /\ sess'[c].synced = TextOf(ops, n)
      BY <1>4
  <2>3. Len(v) = Len(ops) + 1 /\ \A i \in 1..(Len(ops) + 1) : v[i] = TextOf(ops, i - 1)
      BY <1>5, VersionsOK
  <2>4. at[c] \in 0..Len(ops) /\ at[c] <= n
      BY <1>4, <1>7
  <2>5. shown' = [shown EXCEPT ![c] = sess'[c].synced]
      BY <1>7
  <2> HIDE DEF n, v, at, shown
  <2>6. n \in at[c]..(Len(v) - 1) /\ n + 1 \in 1..(Len(ops) + 1) /\ n + 1 - 1 = n
      BY <1>5, <2>2, <2>3, <2>4
  <2>7. v[n + 1] = sess'[c].synced
      BY <2>2, <2>3, <2>6
  <2>8. shown' = [shown EXCEPT ![c] = v[n + 1]]
      BY <2>5, <2>7
  <2>9. \E m \in at[c]..(Len(v) - 1) :
            /\ at' = [at EXCEPT ![c] = m]
            /\ shown' = [shown EXCEPT ![c] = v[m + 1]]
      BY <2>1, <2>6, <2>8
  <2> QED BY <1>2, <1>3, <2>9 DEF Document!CatchUp, at, shown
<1> QED BY <1>6, <1>7, RevisionsMove

(***************************************************************************)
(* A room and its sessions are versions and replicas that only move        *)
(* forward (module Versions): what a session mirrors is at every moment a  *)
(* text the room had, and after every step, a lost connection's too, the   *)
(* same or a later one (session.ts, _advance; room.go, EditsSince).        *)
(***************************************************************************)
THEOREM SessionsMoveThroughVersions ==
    Spec => MovesThroughVersions
<1>1. Init => Document!Init
    BY InitMoves
<1>2. CInv /\ CInv' /\ [Next]_vars => [Document!Next]_(Document!vars)
  <2> SUFFICES ASSUME CInv, CInv', [Next]_vars
               PROVE  Document!Next \/ UNCHANGED Document!vars
      OBVIOUS
  <2>1. CASE \E k \in Conns : AcceptEdit(k)
      BY <2>1, AcceptEditPublishes DEF Document!Next
  <2>2. CASE \A k \in Conns : ~AcceptEdit(k)
      BY <2>2, OthersCatchUp DEF Document!Next
  <2> QED BY <2>1, <2>2
<1> QED BY <1>1, <1>2, Agreement, PTL DEF Spec, MovesThroughVersions, Document!Spec

(***************************************************************************)
(* THE ORDER OF CHARACTERS.                                                *)
(***************************************************************************)

---------------------------------------------------------------------------
(* A session's text is a replica of the log.                               *)

\* The entries of a user.
Entries(log, user) == {n \in 1..Len(log) : log[n].id = user}

\* Its outstanding operation is in the log once, or not at all.
LEMMA SessionAhead ==
    ASSUME NEW log, Written(log), LogFresh(log), NEW user, NEW spent, NEW own,
           Sides(log, Entries(log, user), spent, own), NEW s, Mirrors(s, log),
           PendingFresh(s.pending, s.revision, log, Entries(log, user), spent),
           Adrift(s, log, Entries(log, user), spent),
           NEW q, NEW open, Outstanding(log, s.revision, user, q, s.pending, open)
    PROVE  Ahead(log, s.revision, Confirming(s), Entries(log, user))
<1> DEFINE p == s.pending
           o == p[1]
           u == s.synced
           V == Confirming(s)
           r == s.revision
           L == Len(log)
           mine == Entries(log, user)
<1>1. /\ IsSeq(p) /\ r \in 0..L /\ L \in Nat /\ u = TextOf(log, r)
      /\ V = IF p = << >> THEN u ELSE Apply(p[1], u)
      /\ p # << >> => Does(o, u, V)
    BY IsSeqLen DEF Mirrors, SessionOK, Confirming, Adrift, Written
<1>2. NoOwn(log, r, user) \/ (p # << >> /\ Accepted(log, r, user, q, o))
    BY DEF Outstanding, Lost, Travels
<1>3. CASE NoOwn(log, r, user)
  <2>1. \A n \in mine : n <= r
    <3> HIDE DEF r
    <3>1. \A n \in (r + 1)..L : log[n].id # user
        BY <1>3 DEF NoOwn
    <3>2. \A n \in 1..L : n <= r \/ n \in (r + 1)..L
        BY <1>1
    <3> QED BY <3>1, <3>2 DEF Entries
  <2> QED BY <2>1 DEF Ahead
<1>4. CASE p # << >> /\ Accepted(log, r, user, q, o)
  <2>1. PICK j, f : /\ SoleOwn(log, r, user, j)
                    /\ f[r] = o
                    /\ f[j - 1] = log[j].op
                    /\ Trace(log, f, r, j - 1)
      BY <1>4 DEF Accepted
  <2>2. /\ j \in (r + 1)..L /\ log[j].id = user
        /\ \A n \in (r + 1)..L : log[n].id = user => n = j
      BY <2>1 DEF SoleOwn
  <2>3. /\ Brings(o) \subseteq spent /\ NoRepeats(Inserted(o))
        /\ \A n \in mine : n <= r => Apart(Brings(log[n].op), Brings(o))
    <3>1. 1 \in DOMAIN p
      <4>1. Len(p) \in Nat /\ Len(p) # 0 /\ DOMAIN p = 1..Len(p)
          BY <1>1, <1>4, IsSeqLen, IsSeqNone
      <4> QED BY <4>1
    <3> QED BY <3>1 DEF PendingFresh
  <2> DEFINE i == j - 1
  <2> HIDE DEF o, V, r, L, p, u
  <2>4. /\ r \in Nat /\ i \in Nat /\ r <= i /\ i <= L /\ i \in 0..(L - 1) /\ i + 1 = j
        /\ i \in r..i /\ r \in 0..L /\ j \in 1..L /\ r < j /\ j <= L /\ L \in Nat
      BY <1>1, <2>2
  <2>5. Does(f[r], TextOf(log, r), V) /\ Trace(log, f, r, i) /\ f[i] = log[j].op
      BY <1>1, <1>4, <2>1
  <2>6. Does(log[j].op, TextOf(log, i), TextOf(log, j))
    <3>1. Does(log[i + 1].op, TextOf(log, i), TextOf(log, i + 1))
        BY <2>4, WrittenNext DEF L
    <3> QED BY <2>4, <3>1
  <2>7. Brings(o) \subseteq own /\ \A n \in 1..L : n \notin mine => Apart(own, Brings(log[n].op))
      BY <2>3 DEF Sides, L
  <2> HIDE DEF i
  <2>8. Apart(Brings(f[r]), Brought(log, r, i))
    <3>1. \A n \in (r + 1)..i : n \in 1..L /\ n \in (r + 1)..L /\ n # j
        BY <2>4
    <3>2. \A n \in (r + 1)..i : n \notin mine
        BY <2>2, <3>1 DEF Entries
    <3>3. \A n \in (r + 1)..i : Apart(own, Brings(log[n].op))
        BY <2>7, <3>1, <3>2
    <3> QED BY <2>1, <2>7, <3>3 DEF Brought, Apart
  <2>9. PICK e : Does(f[i], TextOf(log, i), e) /\ Evolves(V, e, Brought(log, r, i))
      BY <2>4, <2>5, <2>8, TraceEvolves DEF L
  <2>10. Evolves(V, TextOf(log, j), Brought(log, r, i))
    <3>1. e = TextOf(log, j)
        BY <2>5, <2>6, <2>9, DoesTarget
    <3> QED BY <2>9, <3>1
  <2>11. Brings(log[j].op) = Brings(o)
    <3>1. r \in Nat /\ i \in Nat /\ r <= i /\ i <= Len(log)
        BY <2>4 DEF L
    <3>2. Trace(log, f, r, i) /\ Does(f[r], TextOf(log, r), V)
        BY <2>5
    <3>3. InsertAlike(f, r, i)
        BY <3>1, <3>2, TraceInserts
    <3> QED BY <2>1, <2>4, <2>5, <3>3 DEF Brings, InsertAlike
  <2>12. IsSeq(V) /\ NoRepeats(V) /\ Evolves(TextOf(log, r), V, Brings(o))
    <3>1. Does(o, TextOf(log, r), V)
        BY <2>1, <2>5
    <3> QED BY <2>3, <2>4, <3>1, ConfirmingFresh DEF L
  <2>13. Range(V) \subseteq Brought(log, 0, r) \cup Brings(log[j].op)
    <3>1. Range(TextOf(log, r)) \subseteq Brought(log, 0, r)
        BY <2>4, TextFresh DEF L
    <3> QED BY <2>11, <2>12, <3>1 DEF Evolves
  <2>14. j \in mine /\ \A n \in mine : n <= r \/ n = j
    <3>1. \A n \in 1..L : n <= r \/ n \in (r + 1)..L
        BY <2>4
    <3> QED BY <2>2, <2>4, <3>1 DEF Entries, L
  <2>15. Evolves(V, TextOf(log, j), Brought(log, r, j - 1))
      BY <2>10 DEF i
  <2> HIDE DEF mine
  <2>16. Ahead(log, r, V, mine)
      BY <2>4, <2>12, <2>13, <2>14, <2>15 DEF Ahead, L
  <2> QED BY <2>16 DEF r, V, mine
<1> QED BY <1>2, <1>3, <1>4

---------------------------------------------------------------------------
(* What a session does keeps that so.                                      *)

\* The operations of q insert what those of p do.
SamePuts(p, q) == DOMAIN q = DOMAIN p /\ \A i \in DOMAIN p : Inserted(q[i]) = Inserted(p[i])

\* A remote operation changes nothing of what the pending ones insert.
LEMMA PastPendingInserts ==
    ASSUME NEW p, IsSeq(p), NEW a, NEW b, NEW text, NEW op,
           Unconfirmed(p, a, text), Does(op, a, b)
    PROVE  SamePuts(p, PastPending(p, op).pending)
<1> DEFINE r == PastPending(p, op).pending
<1>1. p = << >> <=> Len(p) = 0
    BY IsSeqNone
<1>2. CASE Len(p) = 0
  <2>1. r = p
      BY <1>1, <1>2 DEF PastPending
  <2> QED BY <2>1 DEF SamePuts
<1>3. CASE Len(p) = 1
  <2> DEFINE x == Transform(p[1], op).a
             q == <<x>>
  <2>1. r = q
      BY <1>1, <1>3 DEF PastPending, PastOne
  <2>2. Does(p[1], a, text)
      BY <1>1, <1>3 DEF Unconfirmed
  <2>3. Inserted(x) = Inserted(p[1])
      BY <2>2, <1>3, TransformInserts
  <2>4. DOMAIN p = 1..1
      BY <1>3, PendingIndex
  <2> HIDE DEF x, r
  <2>5. DOMAIN q = 1..1 /\ q[1] = x
      OBVIOUS
  <2> HIDE DEF q
  <2>6. \A i \in 1..1 : i = 1
      OBVIOUS
  <2> QED BY <2>1, <2>3, <2>4, <2>5, <2>6 DEF SamePuts, r
<1>4. CASE Len(p) = 2
  <2> DEFINE t == Transform(p[1], op)
             x == t.a
             y == t.b
             v == Transform(p[2], y).a
             q == <<x, v>>
  <2>1. r = q
      BY <1>1, <1>4 DEF PastPending, PastTwo
  <2>2. PICK m : Does(p[1], a, m) /\ Does(p[2], m, text)
      BY <1>1, <1>4 DEF Unconfirmed
  <2>3. Inserted(x) = Inserted(p[1])
      BY <2>2, TransformInserts
  <2>4. \E d : Does(x, b, d) /\ Does(y, m, d)
      BY <2>2, TransformConverges
  <2> HIDE DEF t, x, y, r
  <2>5. PICK d : Does(x, b, d) /\ Does(y, m, d)
      BY <2>4
  <2>6. Inserted(v) = Inserted(p[2])
      BY <2>2, <2>5, TransformInserts
  <2>7. DOMAIN p = 1..2
      BY <1>4, PendingIndex
  <2> HIDE DEF v
  <2>8. DOMAIN q = 1..2 /\ q[1] = x /\ q[2] = v
      OBVIOUS
  <2> HIDE DEF q
  <2>9. \A i \in 1..2 : i = 1 \/ i = 2
      OBVIOUS
  <2>10. \A i \in 1..2 : Inserted(q[i]) = Inserted(p[i])
      BY <2>3, <2>6, <2>8, <2>9
  <2> QED BY <2>1, <2>7, <2>8, <2>10 DEF SamePuts, r
<1> QED BY <1>2, <1>3, <1>4 DEF Unconfirmed

\* What a session has pending after an operation that it can follow.
LEMMA FollowsPending ==
    ASSUME NEW s, SessionOK(s), NEW op
    PROVE  /\ Remote(s, op).failed = "none" =>
                 Remote(s, op).pending = PastPending(s.pending, op).pending
           /\ Ack(s, op).s.failed = "none" => Ack(s, op).s.pending = Tail(s.pending)
<1> DEFINE r == PastPending(s.pending, op)
<1>1. DOMAIN s = {"text", "synced", "caret", "revision", "pending", "selfId", "connected",
                  "baselined", "everBaselined", "failed"}
    BY DEF SessionOK
<1>2. Remote(s, op) = Folded(s, op, r)
    BY DEF Remote
<1> HIDE DEF r
<1>3. ASSUME Folded(s, op, r).failed = "none" PROVE Folded(s, op, r).pending = r.pending
  <2>1. CASE r.ok /\ Applies(r.op, s.text) /\ Applies(op, s.synced)
      BY <1>1, <2>1 DEF Folded
  <2>2. CASE ~(r.ok /\ Applies(r.op, s.text) /\ Applies(op, s.synced))
    <3>1. Folded(s, op, r) = [s EXCEPT !.failed = "ot"]
        BY <2>2 DEF Folded
    <3>2. Folded(s, op, r).failed = "ot"
        BY <1>1, <3>1
    <3> QED BY <1>3, <3>2
  <2> QED BY <2>1, <2>2
<1>4. ASSUME Ack(s, op).s.failed = "none" PROVE Ack(s, op).s.pending = Tail(s.pending)
  <2>1. CASE s.pending = << >>
    <3>1. Ack(s, op).s = [s EXCEPT !.failed = "ack"]
        BY <2>1 DEF Ack, Quietly
    <3>2. Ack(s, op).s.failed = "ack"
        BY <1>1, <3>1
    <3> QED BY <1>4, <3>2
  <2>2. CASE s.pending # << >> /\ ~Applies(op, s.synced)
    <3>1. Ack(s, op).s = [s EXCEPT !.failed = "ot"]
        BY <2>2 DEF Ack, Quietly
    <3>2. Ack(s, op).s.failed = "ot"
        BY <1>1, <3>1
    <3> QED BY <1>4, <3>2
  <2>3. CASE s.pending # << >> /\ Applies(op, s.synced)
      BY <1>1, <2>3 DEF Ack
  <2> QED BY <2>1, <2>2, <2>3
<1> QED BY <1>2, <1>3, <1>4 DEF r

\* Operations that insert the same are as good at the next revision, if its
\* entry is somebody else's.
LEMMA FreshPast ==
    ASSUME NEW p, NEW q, SamePuts(p, q), Len(q) = Len(p), NEW r \in Nat, NEW log,
           NEW mine, mine \subseteq Nat, r + 1 \notin mine, NEW spent,
           PendingFresh(p, r, log, mine, spent), IsSeq(p)
    PROVE  PendingFresh(q, r + 1, log, mine, spent)
<1>1. DOMAIN q = DOMAIN p /\ \A i \in DOMAIN p : Inserted(q[i]) = Inserted(p[i])
    BY DEF SamePuts
<1>2. \A i \in DOMAIN p : Brings(q[i]) = Brings(p[i])
    BY <1>1 DEF Brings
<1>3. \A n \in mine : n <= r + 1 => n <= r
    OBVIOUS
<1>4. \A i \in DOMAIN q : NoRepeats(Inserted(q[i])) /\ Brings(q[i]) \subseteq spent
    BY <1>1, <1>2 DEF PendingFresh
<1>5. ASSUME Len(q) = 2 PROVE Apart(Brings(q[1]), Brings(q[2]))
  <2>1. DOMAIN p = 1..2
      BY <1>5, PendingIndex
  <2>2. Brings(q[1]) = Brings(p[1]) /\ Brings(q[2]) = Brings(p[2])
      BY <1>2, <2>1
  <2> QED BY <1>5, <2>2 DEF PendingFresh
<1>6. ASSUME NEW n \in mine, NEW i \in DOMAIN q, i = 2 \/ n <= r + 1
      PROVE  Apart(Brings(log[n].op), Brings(q[i]))
  <2>1. i \in DOMAIN p /\ (i = 2 \/ n <= r)
      BY <1>1, <1>3, <1>6
  <2>2. Apart(Brings(log[n].op), Brings(p[i]))
      BY <2>1 DEF PendingFresh
  <2> QED BY <1>2, <2>1, <2>2
<1> QED BY <1>4, <1>5, <1>6 DEF PendingFresh

\* Somebody else's entry is read.
LEMMA RemoteFresh ==
    ASSUME NEW log, Written(log), NEW s, Mirrors(s, log), Pends(s), s.revision < Len(log),
           NEW mine, mine \subseteq Nat, s.revision + 1 \notin mine, NEW spent,
           PendingFresh(s.pending, s.revision, log, mine, spent)
    PROVE  LET t == Remote(s, log[s.revision + 1].op)
           IN  PendingFresh(t.pending, t.revision, log, mine, spent)
<1> DEFINE v == s.revision
           op == log[v + 1].op
           t == Remote(s, op)
           p == s.pending
           q == t.pending
<1>1. FollowsRemote(s, t, log)
    BY RemoteDoes
<1>2. v \in Nat /\ v \in 0..(Len(log) - 1) /\ SessionOK(s) /\ IsSeq(p)
    BY IsSeqLen DEF Mirrors, Written, SessionOK
<1>3. Does(op, s.synced, TextOf(log, v + 1)) /\ Unconfirmed(p, s.synced, s.text)
    BY <1>2, WrittenNext DEF Mirrors, Pends
<1> HIDE DEF op
<1>4. q = PastPending(p, op).pending
  <2>1. t.failed = "none"
      BY <1>1 DEF FollowsRemote, Mirrors
  <2> QED BY <1>2, <2>1, FollowsPending
<1> HIDE DEF t
<1>5. Len(q) = Len(p) /\ t.revision = v + 1
    BY <1>1 DEF FollowsRemote
<1> HIDE DEF p, q, v
<1>6. SamePuts(p, q)
    BY <1>2, <1>3, <1>4, PastPendingInserts
<1>7. PendingFresh(p, v, log, mine, spent) /\ v + 1 \notin mine
    BY DEF p, v
<1>8. PendingFresh(q, v + 1, log, mine, spent)
    BY <1>2, <1>5, <1>6, <1>7, FreshPast
<1> QED BY <1>5, <1>8 DEF q, t, op, v

\* Its own entry is read: the buffer is outstanding.
LEMMA AckFresh ==
    ASSUME NEW log, Written(log), NEW s, Mirrors(s, log), Pends(s), s.revision < Len(log),
           s.pending # << >>, s.pending[1] = log[s.revision + 1].op,
           NEW mine, NEW spent, PendingFresh(s.pending, s.revision, log, mine, spent)
    PROVE  LET t == Ack(s, log[s.revision + 1].op).s
           IN  PendingFresh(t.pending, t.revision, log, mine, spent)
<1> DEFINE v == s.revision
           op == log[v + 1].op
           a == Ack(s, op)
           t == a.s
           p == s.pending
           q == Tail(p)
<1>1. FollowsAck(s, a, log)
    BY AckDoes
<1>2. SessionOK(s) /\ IsSeq(p) /\ Len(p) \in 1..2
    BY IsSeqNone, PendingCases DEF Mirrors, SessionOK
<1>3. t.pending = q
  <2>1. t.failed = "none"
      BY <1>1 DEF FollowsAck, Mirrors
  <2> HIDE DEF op
  <2> QED BY <1>2, <2>1, FollowsPending
<1>4. IsSeq(q) /\ Len(q) = Len(p) - 1 /\ \A i \in 1..Len(q) : q[i] = p[i + 1]
    BY <1>2, IsSeqTail
<1> DEFINE w == t.revision
<1> HIDE DEF q, p, t, w
<1>5. DOMAIN q = 1..Len(q)
    BY <1>4, IsSeqLen
<1>6. \A i \in DOMAIN q : i = 1 /\ Len(p) = 2
    BY <1>2, <1>4, <1>5
<1>7. ASSUME NEW i \in DOMAIN q PROVE q[i] = p[2] /\ i # 2 /\ 2 \in DOMAIN p
  <2>1. Len(p) = 2 /\ i = 1
      BY <1>6
  <2>2. DOMAIN p = 1..2
      BY <1>2, <2>1, PendingIndex
  <2>3. 1 + 1 = 2 /\ 1 \in 1..Len(q)
      BY <1>5, <2>1
  <2> QED BY <1>4, <2>1, <2>2, <2>3
<1>8. Len(q) # 2
    BY <1>2, <1>4
<1>9. /\ \A i \in DOMAIN p : NoRepeats(Inserted(p[i])) /\ Brings(p[i]) \subseteq spent
      /\ \A n \in mine : \A i \in DOMAIN p : i = 2 => Apart(Brings(log[n].op), Brings(p[i]))
    BY DEF PendingFresh, p
<1>10. PendingFresh(q, w, log, mine, spent)
    BY <1>7, <1>8, <1>9 DEF PendingFresh
<1> QED BY <1>3, <1>10 DEF w, t

\* Session t has as much pending as it may.
Fresh(t, log, mine, spent) == PendingFresh(t.pending, t.revision, log, mine, spent)

\* One turn of handleHistory's loop.
LEMMA EntryFresh ==
    ASSUME NEW log, Written(log), NEW user, NEW spent,
           NEW q, IsSeq(q), NEW open \in BOOLEAN,
           NEW t, NEW m, Tracks(log, user, q, open, t, m), t.selfId = user,
           t.revision < Len(log), Fresh(t, log, Entries(log, user), spent)
    PROVE  Fresh(HistoryEntry([s |-> t, sent |-> m], log[t.revision + 1]).s,
                 log, Entries(log, user), spent)
<1> DEFINE v == t.revision
           entry == log[v + 1]
           mine == Entries(log, user)
           z == Sent(q, m, open)
           a == Ack(t, entry.op)
           b == Remote(t, entry.op)
           e == HistoryEntry([s |-> t, sent |-> m], entry)
<1>1. /\ Mirrors(t, log) /\ Pends(t) /\ t.failed = "none"
      /\ Outstanding(log, v, user, z, t.pending, open)
    BY DEF Tracks, Mirrors
<1>2. v \in Nat /\ v \in 0..(Len(log) - 1) /\ Len(log) \in Nat /\ v + 1 \in 1..Len(log)
    BY <1>1, IsSeqLen DEF Mirrors, Written
<1>3. mine \subseteq Nat
    BY DEF Entries
<1>4. CASE entry.id = user
  <2>1. e.s = a.s
      BY <1>1, <1>4 DEF HistoryEntry
  <2>2. t.pending # << >> /\ t.pending[1] = entry.op
    <3> DEFINE p == t.pending
    <3>1. log[v + 1].id = user
        BY <1>4
    <3> HIDE DEF v, z, p
    <3>2. Outstanding(log, v, user, z, p, open)
        BY <1>1 DEF p
    <3>3. p # << >> /\ p[1] = log[v + 1].op
        BY <1>2, <3>1, <3>2, OutstandingOwn
    <3> QED BY <3>3 DEF p, v
  <2> HIDE DEF e, mine
  <2>3. PendingFresh(a.s.pending, a.s.revision, log, mine, spent)
      BY <1>1, <2>2, AckFresh DEF Fresh, mine
  <2> QED BY <2>1, <2>3 DEF Fresh, e, mine
<1>5. CASE entry.id # user
  <2>1. e.s = b
      BY <1>1, <1>5 DEF HistoryEntry
  <2>2. v + 1 \notin mine
      BY <1>5 DEF Entries
  <2> HIDE DEF e, mine
  <2>3. PendingFresh(b.pending, b.revision, log, mine, spent)
      BY <1>1, <1>3, <2>2, RemoteFresh DEF Fresh, mine
  <2> QED BY <2>1, <2>3 DEF Fresh, e, mine
<1> QED BY <1>4, <1>5

\* A History is read by a session with a baseline.
LEMMA ReplayFresh ==
    ASSUME NEW log, Written(log), NEW user, NEW spent,
           NEW q, IsSeq(q), NEW open \in BOOLEAN,
           NEW s, s.selfId = user, Tracks(log, user, q, open, s, << >>),
           NEW entries, Slice(log, s.revision, entries),
           Fresh(s, log, Entries(log, user), spent)
    PROVE  Fresh(Replay(s, entries).s, log, Entries(log, user), spent)
<1> DEFINE N == Len(entries)
           v == s.revision
           mine == Entries(log, user)
<1>1. N \in Nat /\ v \in Nat /\ Len(log) \in Nat /\ v + N <= Len(log)
    BY IsSeqLen DEF Slice, Tracks, Mirrors, Written
<1>2. PICK after : ReplayRun(s, entries, after)
    BY ReplayUnfold DEF Slice
<1>3. after[0] = Quietly(s) /\ \A n \in 1..N : after[n] = HistoryEntry(after[n - 1], entries[n])
    BY <1>2 DEF ReplayRun
<1>4. Replay(s, entries) = after[N]
    BY <1>2 DEF ReplayRun
<1>5. \A n \in 1..N : entries[n] = log[v + n]
    BY DEF Slice
<1> DEFINE Good(n) == /\ Replays(log, user, q, open, s, after[n], n)
                      /\ Fresh(after[n].s, log, mine, spent)
           R == {n \in 0..N : Good(n)}
<1> HIDE DEF N, mine
<1>6. Good(0)
  <2>1. after[0] = [s |-> s, sent |-> << >>] /\ v = v + 0
      BY <1>1, <1>3 DEF Quietly
  <2>2. SameLink(s, s)
      BY DEF SameLink
  <2>3. Replays(log, user, q, open, s, [s |-> s, sent |-> << >>], 0)
      BY <2>1, <2>2, ReplaysIntro
  <2> QED BY <2>1, <2>3 DEF mine
<1>7. ASSUME NEW n \in 0..(N - 1), Good(n) PROVE Good(n + 1)
  <2> DEFINE t == after[n].s
             m == after[n].sent
             w == t.revision
  <2>1. /\ n + 1 \in 1..N /\ (n + 1) - 1 = n /\ n + 1 \in 0..N /\ n \in Nat
        /\ v + n < Len(log) /\ v + (n + 1) = (v + n) + 1
      BY <1>1
  <2>2. /\ after[n] = [s |-> t, sent |-> m]
        /\ Tracks(log, user, q, open, t, m) /\ SameLink(s, t)
        /\ t.revision = v + n
      BY <1>7 DEF Replays
  <2>3. Fresh(t, log, mine, spent)
      BY <1>7
  <2> HIDE DEF t, m
  <2>4. after[n + 1] = HistoryEntry([s |-> t, sent |-> m], log[v + (n + 1)])
      BY <1>3, <1>5, <2>1, <2>2
  <2>5. Replays(log, user, q, open, s, after[n + 1], n + 1)
      BY <1>1, <2>1, <2>2, <2>4, EntryReplays
  <2>6. after[n + 1] = HistoryEntry([s |-> t, sent |-> m], log[w + 1])
      BY <2>1, <2>2, <2>4
  <2>7. t.selfId = user /\ w < Len(log)
      BY <2>1, <2>2 DEF SameLink
  <2>8. Fresh(HistoryEntry([s |-> t, sent |-> m], log[t.revision + 1]).s, log, mine, spent)
      BY <2>2, <2>3, <2>7, EntryFresh DEF mine, w
  <2>9. Fresh(after[n + 1].s, log, mine, spent)
      BY <2>6, <2>8 DEF w
  <2> QED BY <2>5, <2>9
<1> HIDE DEF Good
<1>8. 0 \in R /\ \A n \in 0..(N - 1) : n \in R => n + 1 \in R
    BY <1>1, <1>6, <1>7
<1>9. 0..N \subseteq R
  <2> HIDE DEF R
  <2> QED BY <1>1, <1>8, BoundedInduction
<1>10. Good(N)
    BY <1>1, <1>9
<1> QED BY <1>4, <1>10 DEF Good, mine

\* A session with nothing of its own in the log reads remote operations.
LEMMA RebuildFresh ==
    ASSUME NEW log, Written(log), NEW spent, NEW s, Mirrors(s, log), Pends(s),
           NEW entries, Slice(log, s.revision, entries), Fresh(s, log, {}, spent)
    PROVE  Fresh(Rebuild(s, entries), log, {}, spent) /\ Mirrors(Rebuild(s, entries), log)
<1> DEFINE N == Len(entries)
           v == s.revision
<1>1. N \in Nat /\ v \in Nat /\ Len(log) \in Nat /\ v + N <= Len(log)
    BY IsSeqLen DEF Slice, Mirrors, Written
<1>2. PICK after : RebuildRun(s, entries, after)
    BY RebuildUnfold DEF Slice
<1>3. /\ after[0] = s
      /\ \A n \in 1..N : after[n - 1].failed = "none" =>
             after[n] = Remote(after[n - 1], entries[n].op)
    BY <1>2 DEF RebuildRun
<1>4. Rebuild(s, entries) = after[N]
    BY <1>2 DEF RebuildRun
<1>5. \A n \in 1..N : entries[n] = log[v + n]
    BY DEF Slice
<1> DEFINE Good(n) == /\ Mirrors(after[n], log) /\ Pends(after[n])
                      /\ after[n].revision = v + n
                      /\ Fresh(after[n], log, {}, spent)
           R == {n \in 0..N : Good(n)}
<1> HIDE DEF N
<1>6. Good(0)
  <2>1. v = v + 0
      BY <1>1
  <2> QED BY <1>3, <2>1
<1>7. ASSUME NEW n \in 0..(N - 1), Good(n) PROVE Good(n + 1)
  <2> DEFINE t == after[n]
             u == after[n + 1]
             w == t.revision
  <2>1. /\ n + 1 \in 1..N /\ (n + 1) - 1 = n /\ v + n < Len(log) /\ v + (n + 1) = (v + n) + 1
      BY <1>1
  <2>2. Mirrors(t, log) /\ Pends(t) /\ w = v + n /\ Fresh(t, log, {}, spent)
      BY <1>7
  <2>3. u = Remote(t, log[w + 1].op)
    <3>1. t.failed = "none"
        BY <2>2 DEF Mirrors
    <3>2. u = Remote(t, entries[n + 1].op)
        BY <1>3, <2>1, <3>1
    <3>3. entries[n + 1] = log[w + 1]
        BY <1>5, <2>1, <2>2
    <3> QED BY <3>2, <3>3
  <2>4. w < Len(log)
      BY <2>1, <2>2
  <2> HIDE DEF t, u
  <2>5. FollowsRemote(t, u, log)
      BY <2>2, <2>3, <2>4, RemoteDoes DEF w
  <2> DEFINE none == {}
  <2>6. none \subseteq Nat /\ w + 1 \notin none
      OBVIOUS
  <2>7. Fresh(t, log, none, spent)
      BY <2>2
  <2> HIDE DEF none
  <2>8. PendingFresh(u.pending, u.revision, log, none, spent)
      BY <2>2, <2>3, <2>4, <2>6, <2>7, RemoteFresh DEF w, Fresh
  <2>9. Fresh(u, log, {}, spent)
      BY <2>8 DEF Fresh, none
  <2>10. u.revision = v + (n + 1)
      BY <2>1, <2>2, <2>5 DEF FollowsRemote, w
  <2> QED BY <2>5, <2>9, <2>10 DEF FollowsRemote, u
<1> HIDE DEF Good
<1>8. 0 \in R /\ \A n \in 0..(N - 1) : n \in R => n + 1 \in R
    BY <1>1, <1>6, <1>7
<1>9. 0..N \subseteq R
  <2> HIDE DEF R
  <2> QED BY <1>1, <1>8, BoundedInduction
<1>10. Good(N)
    BY <1>1, <1>9
<1> QED BY <1>4, <1>10 DEF Good

---------------------------------------------------------------------------
(* The first baseline and local edits.                                     *)

\* A session that has never had a baseline has typed all that its text shows.
Unsynced(s, spent) ==
    /\ s.revision = 0 /\ s.synced = << >>
    /\ NoRepeats(s.text) /\ Range(s.text) \subseteq spent

\* It is one whose mirror is empty.
LEMMA AdriftUnsynced ==
    ASSUME NEW log, NEW s, Mirrors(s, log), s.revision = 0, s.pending = << >>,
           NEW mine, NEW spent, Adrift(s, log, mine, spent)
    PROVE  Unsynced(s, spent)
<1>1. s.synced = << >>
    BY TextStep DEF Mirrors
<1>2. Confirming(s) = << >>
    BY <1>1 DEF Confirming
<1>3. Range(<< >>) = {}
    BY IsSeqEmpty DEF Range
<1>4. NoRepeats(s.text) /\ \E X : Evolves(<< >>, s.text, X) /\ X \subseteq spent
    BY <1>2 DEF Adrift
<1>5. Range(s.text) \subseteq spent
    BY <1>3, <1>4 DEF Evolves
<1> QED BY <1>1, <1>4, <1>5 DEF Unsynced

\* One operation that inserts what is typed once is all that is pending.
LEMMA FreshOne ==
    ASSUME NEW log, NEW r, NEW spent, NEW o,
           NoRepeats(Inserted(o)), Brings(o) \subseteq spent
    PROVE  /\ PendingFresh(<<o>>, r, log, {}, spent)
           /\ PendingFresh(<< >>, r, log, {}, spent)
<1> DEFINE p == <<o>>
           none == << >>
<1>1. DOMAIN p = {1} /\ p[1] = o /\ Len(p) # 2
  <2>1. IsSeq(p) /\ Len(p) = 1 /\ p[1] = o
      BY IsSeqOne
  <2>2. DOMAIN p = 1..1
      BY <2>1, IsSeqLen
  <2> HIDE DEF p
  <2> QED BY <2>1, <2>2
<1>2. DOMAIN none = {} /\ Len(none) # 2
  <2>1. IsSeq(none) /\ Len(none) = 0 /\ DOMAIN none = 1..0
      BY IsSeqEmpty, IsSeqLen
  <2> HIDE DEF none
  <2> QED BY <2>1
<1> HIDE DEF p, none
<1>3. PendingFresh(p, r, log, {}, spent)
    BY <1>1 DEF PendingFresh
<1>4. PendingFresh(none, r, log, {}, spent)
    BY <1>2 DEF PendingFresh
<1> QED BY <1>3, <1>4 DEF p, none

\* The fresh OT client of establishBaseline has the whole text pending.
LEMMA FreshClientFresh ==
    ASSUME NEW log, Written(log), NEW s, Mirrors(s, log),
           NEW spent, Unsynced(s, spent)
    PROVE  Fresh(FreshClient(s).s, log, {}, spent)
<1> DEFINE d == DiffText(s.synced, s.text)
           none == << >>
           f == [s EXCEPT !.pending = none]
           t == FreshClient(s).s
<1>1. Does(d, s.synced, s.text)
  <2>1. /\ IsSeq(s.synced) /\ IsSeq(s.text)
        /\ ValidUTF8(s.synced) /\ ValidUTF8(s.text)
      BY WrittenTexts DEF Mirrors
  <2> QED BY <2>1, DiffTextDoes
<1> HIDE DEF d
<1>2. Threads(s.synced, s.text, Inserted(d))
    BY <1>1, DoesThreads
<1>3. NoRepeats(Inserted(d)) /\ Brings(d) \subseteq spent
    BY <1>2 DEF Threads, Brings, Unsynced
<1>4. SessionOK(s)
    BY DEF Mirrors
<1>5. t.pending = << >> \/ t.pending = <<d>>
  <2>1. CASE IsNoop(d)
    <3>1. t = f
        BY <2>1 DEF FreshClient, Quietly, d
    <3>2. f.pending = none
        BY <1>4 DEF SessionOK
    <3> HIDE DEF f, t
    <3> QED BY <3>1, <3>2
  <2>2. CASE ~IsNoop(d)
    <3> DEFINE p == <<d>>
               g == [f EXCEPT !.pending = p]
    <3>1. FreshClient(s) = ApplyClient(f, d)
        BY <2>2 DEF FreshClient, d
    <3>2. f.pending = << >> /\ g.pending = p
        BY <1>4 DEF SessionOK
    <3> HIDE DEF f, p
    <3>3. t = g
        BY <3>1, <3>2 DEF ApplyClient, p
    <3> HIDE DEF t, g
    <3> QED BY <3>2, <3>3 DEF p
  <2> QED BY <2>1, <2>2
<1> HIDE DEF t
<1>6. PendingFresh(t.pending, t.revision, log, {}, spent)
    BY <1>3, <1>5, FreshOne
<1> QED BY <1>6 DEF Fresh, t

\* A session that sets its first baseline.
LEMMA EstablishFresh ==
    ASSUME NEW log, Written(log), NEW s, Mirrors(s, log),
           NEW spent, Unsynced(s, spent),
           s.connected, NEW entries, Slice(log, 0, entries)
    PROVE  Fresh(EstablishBaseline(s, 0, entries).s, log, {}, spent)
<1> DEFINE n == Len(entries)
           fresh == FreshClient(s)
           new == SubSeq(entries, 0 + 1, n)
           built == Rebuild(fresh.s, new)
           t == [built EXCEPT !.baselined = TRUE, !.everBaselined = TRUE]
           r == EstablishBaseline(s, 0, entries)
<1>1. /\ n \in Nat /\ Len(log) \in Nat /\ n <= Len(log)
      /\ \A i \in 1..n : entries[i] = log[i]
  <2>1. \A i \in 1..n : 0 + i = i
      OBVIOUS
  <2> QED BY <2>1, IsSeqLen DEF Slice, Written
<1>2. Known(s, 0, entries) = 0
  <2>1. s.revision = 0
      BY DEF Unsynced
  <2> QED BY <1>1, <2>1 DEF Known
<1>3. r.s = t
    BY <1>2 DEF EstablishBaseline
<1>4. Slice(log, 0, new)
  <2>1. 0 + 1 \in Nat \ {0} /\ n \in ((0 + 1) - 1)..n
      BY <1>1
  <2>2. /\ IsSeq(new) /\ Len(new) = n - (0 + 1) + 1
        /\ \A i \in 1..(n - (0 + 1) + 1) : new[i] = entries[(0 + 1) + i - 1]
      BY <2>1, SegmentOK DEF Slice
  <2>3. n - (0 + 1) + 1 = n /\ 0 + n = n
      BY <1>1
  <2>4. \A i \in 1..n : (0 + 1) + i - 1 = i /\ 0 + i = i
      OBVIOUS
  <2> HIDE DEF new, n
  <2>5. \A i \in 1..n : new[i] = log[0 + i]
      BY <1>1, <2>2, <2>3, <2>4
  <2> QED BY <1>1, <2>2, <2>3, <2>5 DEF Slice
<1>5. StartsAfresh(s, fresh, log) /\ Fresh(fresh.s, log, {}, spent)
    BY FreshClientDoes, FreshClientFresh
<1> HIDE DEF fresh, new
<1> DEFINE a == fresh.s
<1>6. /\ Mirrors(a, log) /\ Pends(a) /\ Fresh(a, log, {}, spent) /\ a.revision = 0
    BY <1>5 DEF StartsAfresh, Unsynced
<1> HIDE DEF a
<1>7. Fresh(built, log, {}, spent) /\ SessionOK(built)
  <2>1. Fresh(Rebuild(a, new), log, {}, spent) /\ Mirrors(Rebuild(a, new), log)
      BY <1>4, <1>6, RebuildFresh
  <2> QED BY <2>1 DEF a, Mirrors
<1> HIDE DEF built
<1>8. t.pending = built.pending /\ t.revision = built.revision
    BY <1>7 DEF SessionOK
<1> HIDE DEF t
<1> QED BY <1>3, <1>7, <1>8 DEF Fresh

\* What a user has not typed yet is not in the text of its session.
LEMMA TextApart ==
    ASSUME NEW log, Written(log), LogFresh(log), NEW mine, NEW spent, NEW own,
           Sides(log, mine, spent, own), NEW s, Mirrors(s, log),
           PendingFresh(s.pending, s.revision, log, mine, spent),
           Adrift(s, log, mine, spent),
           NEW F, F \subseteq own, Apart(F, spent)
    PROVE  Apart(Range(s.text), F)
<1> DEFINE p == s.pending
           u == s.synced
           text == s.text
           V == Confirming(s)
           r == s.revision
<1>1. /\ IsSeq(p) /\ r \in 0..Len(log) /\ u = TextOf(log, r)
      /\ V = IF p = << >> THEN u ELSE Apply(p[1], u)
      /\ p # << >> => Does(p[1], u, V)
    BY DEF Mirrors, SessionOK, Confirming, Adrift
<1>2. PICK X : Evolves(V, text, X) /\ X \subseteq spent
    BY DEF Adrift
<1>3. Range(text) \subseteq Range(V) \cup spent
    BY <1>2 DEF Evolves
<1>4. Apart(Range(u), F)
  <2>1. \A n \in mine : n <= r => Apart(Brings(log[n].op), F)
      BY DEF Sides, Apart
  <2> HIDE DEF r, u
  <2> QED BY <1>1, <2>1, MirrorApart
<1>5. Range(V) \subseteq Range(u) \cup spent
  <2>1. CASE p = << >>
      BY <1>1, <2>1
  <2>2. CASE p # << >>
    <3> DEFINE o == p[1]
    <3>1. 1 \in DOMAIN p
      <4>1. Len(p) \in Nat /\ Len(p) # 0 /\ DOMAIN p = 1..Len(p)
          BY <1>1, <2>2, IsSeqLen, IsSeqNone
      <4> QED BY <4>1
    <3>2. Brings(o) \subseteq spent
        BY <3>1 DEF PendingFresh
    <3>3. Does(o, u, V)
        BY <1>1, <2>2
    <3> HIDE DEF o, u, V
    <3>4. Threads(u, V, Inserted(o))
        BY <3>3, DoesThreads
    <3> QED BY <3>2, <3>4 DEF Threads, Brings
  <2> QED BY <2>1, <2>2
<1> HIDE DEF V, u, text
<1>6. Apart(Range(text), F)
    BY <1>3, <1>4, <1>5 DEF Apart
<1> QED BY <1>6 DEF text

\* What is pending once op is dispatched on top of p.
Queued(p, op, n) ==
    /\ IsSeq(n)
    /\ \/ Len(p) = 0 /\ Len(n) = 1 /\ n[1] = op
       \/ Len(p) = 1 /\ Len(n) = 2 /\ n[1] = p[1] /\ n[2] = op
       \/ Len(p) = 2 /\ Len(n) = 2 /\ n[1] = p[1] /\ n[2] = Compose(p[2], op)

\* So it is in a session.
LEMMA ApplyClientQueued ==
    ASSUME NEW log, Written(log), NEW q, Mirrors(q, log),
           NEW d, NEW op, AfterEdit(q, d, op)
    PROVE  Queued(q.pending, op, ApplyClient(q, op).s.pending)
<1> DEFINE p == q.pending
           r == ApplyClient(q, op)
<1>1. /\ IsSeq(p) /\ Len(p) \in 0..2 /\ (p = << >> <=> Len(p) = 0) /\ SessionOK(q)
    BY PendingCases DEF Mirrors
<1>0. \A n : Pending(q, n).pending = n
    BY <1>1 DEF Pending, SessionOK
<1>2. CASE Len(p) = 0
  <2> DEFINE n == <<op>>
  <2>1. r.s = Pending(q, n)
      BY <1>1, <1>2 DEF ApplyClient, Pending
  <2>2. IsSeq(n) /\ Len(n) = 1 /\ n[1] = op
      BY IsSeqOne
  <2> HIDE DEF n, r
  <2>3. r.s.pending = n
      BY <1>0, <2>1
  <2> QED BY <1>2, <2>2, <2>3 DEF Queued, r
<1>3. CASE Len(p) = 1
  <2> DEFINE n == Append(p, op)
  <2>1. r.s = Pending(q, n)
      BY <1>1, <1>3 DEF ApplyClient, Quietly, Pending
  <2>2. IsSeq(n) /\ Len(n) = 2 /\ n[1] = p[1] /\ n[2] = op
      BY <1>1, <1>3, IsSeqAppend
  <2> HIDE DEF n, r
  <2>3. r.s.pending = n
      BY <1>0, <2>1
  <2> QED BY <1>3, <2>2, <2>3 DEF Queued, r
<1>4. CASE Len(p) = 2
  <2>1. PICK m : Does(p[2], m, d)
      BY <1>1, <1>4 DEF Unconfirmed, AfterEdit
  <2> DEFINE C == Compose(p[2], op)
             n == [p EXCEPT ![2] = C]
  <2>2. Composes(p[2], op)
      BY <2>1, ComposeDoesBoth DEF AfterEdit
  <2> HIDE DEF C
  <2>3. IsSeq(n) /\ Len(n) = 2 /\ n[1] = p[1] /\ n[2] = C
    <3>1. p \in Seq(Range(p) \cup {C})
        BY <1>1, SeqMonotonic DEF IsSeq
    <3> HIDE DEF p
    <3>2. n \in Seq(Range(p) \cup {C}) /\ Len(n) = 2
      <4> DEFINE S == Range(p) \cup {C}
      <4>1. p \in Seq(S) /\ C \in S /\ 2 \in 1..Len(p)
          BY <1>4, <3>1
      <4> HIDE DEF S
      <4> QED BY <1>4, <4>1, ExceptSeq DEF S
    <3>3. DOMAIN p = 1..2
        BY <1>1, <1>4, IsSeqLen
    <3>4. n[1] = p[1] /\ n[2] = C
        BY <3>3
    <3> HIDE DEF n
    <3> QED BY <3>2, <3>4, IsSeqIntro
  <2>4. r.s = Pending(q, n)
      BY <1>1, <1>4, <2>2 DEF ApplyClient, Quietly, Pending, C
  <2> HIDE DEF n, r
  <2>5. r.s.pending = n
      BY <1>0, <2>4
  <2> QED BY <1>4, <2>3, <2>5 DEF Queued, C, r
<1> QED BY <1>1, <1>2, <1>3, <1>4

\* An edit dispatched puts what is typed into the buffer, or is outstanding.
LEMMA ApplyClientFresh ==
    ASSUME NEW log, Written(log), NEW mine, NEW spent, NEW own,
           Sides(log, mine, spent, own),
           NEW q, Mirrors(q, log), NoRepeats(q.text),
           Fresh(q, log, mine, spent),
           NEW d, NEW op, AfterEdit(q, d, op),
           NoRepeats(Inserted(op)), Apart(Brings(op), spent)
    PROVE  Fresh(ApplyClient(q, op).s, log, mine, spent \cup Brings(op))
<1> DEFINE p == q.pending
           t == ApplyClient(q, op).s
           n == t.pending
           v == q.revision
           F == Brings(op)
           more == spent \cup F
<1>1. Queued(p, op, n)
    BY ApplyClientQueued
<1>2. t.revision = v
    BY ApplyClientDoes DEF Dispatched
<1>3. IsSeq(p) /\ Unconfirmed(p, q.synced, d) /\ Does(op, d, q.text)
    BY DEF AfterEdit, Mirrors, SessionOK
<1>4. /\ \A i \in DOMAIN p : NoRepeats(Inserted(p[i])) /\ Brings(p[i]) \subseteq spent
      /\ Len(p) = 2 => Apart(Brings(p[1]), Brings(p[2]))
      /\ \A k \in mine : \A i \in DOMAIN p :
            i = 2 \/ k <= v => Apart(Brings(log[k].op), Brings(p[i]))
    BY DEF Fresh, PendingFresh
<1>5. \A k \in mine : Apart(Brings(log[k].op), F)
    BY DEF Sides, Apart
<1>6. NoRepeats(Inserted(op)) /\ Apart(F, spent)
    OBVIOUS
<1>7. DOMAIN p = 1..Len(p) /\ DOMAIN n = 1..Len(n)
    BY <1>1, <1>3, IsSeqLen DEF Queued
<1> SUFFICES PendingFresh(n, v, log, mine, more)
    BY <1>2 DEF Fresh
<1> HIDE DEF p, n, t, v
<1>8. CASE Len(p) = 0 /\ Len(n) = 1 /\ n[1] = op
  <2>1. DOMAIN n = {1} /\ Len(n) # 2
      BY <1>7, <1>8
  <2> QED BY <1>5, <1>6, <1>8, <2>1 DEF PendingFresh
<1>9. CASE Len(p) = 1 /\ Len(n) = 2 /\ n[1] = p[1] /\ n[2] = op
  <2>1. DOMAIN n = {1, 2} /\ 1 \in DOMAIN p /\ 1 # 2
      BY <1>7, <1>9
  <2>2. Brings(p[1]) \subseteq spent /\ NoRepeats(Inserted(p[1]))
      BY <1>4, <2>1
  <2>3. \A k \in mine : k <= v => Apart(Brings(log[k].op), Brings(p[1]))
      BY <1>4, <2>1
  <2>4. Apart(Brings(p[1]), F)
      BY <1>6, <2>2 DEF Apart
  <2>5. \A i \in DOMAIN n : NoRepeats(Inserted(n[i])) /\ Brings(n[i]) \subseteq more
      BY <1>6, <1>9, <2>1, <2>2
  <2>6. \A k \in mine : \A i \in DOMAIN n :
            i = 2 \/ k <= v => Apart(Brings(log[k].op), Brings(n[i]))
      BY <1>5, <1>9, <2>1, <2>3
  <2> HIDE DEF F, more
  <2> QED BY <1>9, <2>4, <2>5, <2>6 DEF PendingFresh, F
<1>10. CASE Len(p) = 2 /\ Len(n) = 2 /\ n[1] = p[1] /\ n[2] = Compose(p[2], op)
  <2> DEFINE C == Compose(p[2], op)
  <2>1. DOMAIN n = {1, 2} /\ 1 \in DOMAIN p /\ 2 \in DOMAIN p /\ 1 # 2
      BY <1>7, <1>10
  <2>2. /\ Brings(p[1]) \subseteq spent /\ NoRepeats(Inserted(p[1]))
        /\ Brings(p[2]) \subseteq spent /\ Apart(Brings(p[1]), Brings(p[2]))
      BY <1>4, <1>10, <2>1
  <2>3. /\ \A k \in mine : k <= v => Apart(Brings(log[k].op), Brings(p[1]))
        /\ \A k \in mine : Apart(Brings(log[k].op), Brings(p[2]))
      BY <1>4, <2>1
  <2>4. PICK m : Does(p[2], m, d)
    <3>1. p # << >>
        BY <1>10, IsSeqEmpty
    <3>2. Len(p) # 1
        BY <1>10
    <3> QED BY <1>3, <3>1, <3>2 DEF Unconfirmed
  <2>5. Brings(C) \subseteq Brings(p[2]) \cup F
      BY <1>3, <2>4, ComposeBrings
  <2>6. NoRepeats(Inserted(C))
    <3>1. Does(C, m, q.text)
        BY <1>3, <2>4, ComposeDoesBoth
    <3> HIDE DEF C
    <3>2. Threads(m, q.text, Inserted(C))
        BY <3>1, DoesThreads
    <3> QED BY <3>2 DEF Threads
  <2>7. n[2] = C
      BY <1>10
  <2> HIDE DEF C
  <2>8. Apart(Brings(p[1]), Brings(C))
      BY <1>6, <2>2, <2>5 DEF Apart
  <2>9. \A k \in mine : Apart(Brings(log[k].op), Brings(C))
      BY <1>5, <2>3, <2>5 DEF Apart
  <2>10. \A i \in DOMAIN n : NoRepeats(Inserted(n[i])) /\ Brings(n[i]) \subseteq more
      BY <1>10, <2>1, <2>2, <2>5, <2>6, <2>7
  <2>11. \A k \in mine : \A i \in DOMAIN n :
            i = 2 \/ k <= v => Apart(Brings(log[k].op), Brings(n[i]))
      BY <1>10, <2>1, <2>3, <2>7, <2>9
  <2> HIDE DEF F, more
  <2> QED BY <1>10, <2>7, <2>8, <2>10, <2>11 DEF PendingFresh
<1> QED BY <1>1, <1>8, <1>9, <1>10 DEF Queued

\* More may have been typed than what is pending.
LEMMA FreshMore ==
    ASSUME NEW log, NEW mine, NEW spent, NEW own, NEW F,
           Sides(log, mine, spent, own), F \subseteq own,
           NEW s, Fresh(s, log, mine, spent)
    PROVE  /\ Sides(log, mine, spent \cup F, own)
           /\ Fresh(s, log, mine, spent \cup F)
BY DEF Sides, Fresh, PendingFresh

\* An edit of a session that cannot send it changes the text alone.
LEMMA OfflineAdrift ==
    ASSUME NEW log, Written(log), LogFresh(log), NEW mine, NEW spent, NEW own,
           Sides(log, mine, spent, own), NEW s, Mirrors(s, log),
           Fresh(s, log, mine, spent), Adrift(s, log, mine, spent),
           NEW op, NEW t, Shows(s, op, t, log),
           NoRepeats(Inserted(op)), Brings(op) \subseteq own, Apart(Brings(op), spent)
    PROVE  Adrift(t, log, mine, spent \cup Brings(op))
<1> DEFINE V == Confirming(s)
           F == Brings(op)
<1>1. Does(op, s.text, t.text) /\ t.pending = s.pending /\ t.synced = s.synced
    BY DEF Shows
<1>2. Confirming(t) = V
    BY <1>1 DEF Confirming
<1>3. s.pending # << >> => Does(s.pending[1], s.synced, V)
    BY DEF Adrift
<1>4. Apart(Range(s.text), F)
    BY TextApart DEF Fresh
<1>5. NoRepeats(s.text)
    BY DEF Adrift
<1>6. Evolves(s.text, t.text, F) /\ NoRepeats(t.text)
    BY <1>1, <1>4, <1>5, DoesEvolves
<1>7. PICK X : /\ Evolves(V, s.text, X)
               /\ X \subseteq spent
               /\ \A n \in mine : Apart(X, Brings(log[n].op))
    BY DEF Adrift
<1>8. Apart(F, Range(V))
  <2>1. Range(V) \subseteq Range(s.synced) \cup spent
    <3>1. CASE s.pending = << >>
        BY <3>1 DEF Confirming
    <3>2. CASE s.pending # << >>
      <4> DEFINE p == s.pending
                 o == p[1]
      <4>1. IsSeq(p)
          BY DEF Mirrors, SessionOK
      <4>2. 1 \in DOMAIN p
        <5>1. Len(p) \in Nat /\ Len(p) # 0 /\ DOMAIN p = 1..Len(p)
            BY <3>2, <4>1, IsSeqLen, IsSeqNone
        <5> QED BY <5>1
      <4>3. Brings(o) \subseteq spent
          BY <4>2 DEF Fresh, PendingFresh
      <4>4. Does(o, s.synced, V)
          BY <1>3, <3>2
      <4> HIDE DEF o, V
      <4>5. Threads(s.synced, V, Inserted(o))
          BY <4>4, DoesThreads
      <4> QED BY <4>3, <4>5 DEF Threads, Brings
    <3> QED BY <3>1, <3>2
  <2>2. Apart(Range(s.synced), F)
    <3> DEFINE r == s.revision
    <3>1. r \in 0..Len(log) /\ s.synced = TextOf(log, r)
        BY DEF Mirrors
    <3>2. \A n \in mine : n <= r => Apart(Brings(log[n].op), F)
        BY DEF Sides, Apart
    <3> HIDE DEF r, F
    <3>3. F \subseteq own
        BY DEF F
    <3> QED BY <3>1, <3>2, <3>3, MirrorApart
  <2> HIDE DEF V
  <2> QED BY <2>1, <2>2 DEF Apart
<1> HIDE DEF V
<1>9. Evolves(V, t.text, X \cup F)
    BY <1>6, <1>7, <1>8, EvolvesOn
<1>10. \A n \in mine : Apart(X \cup F, Brings(log[n].op))
    BY <1>7 DEF Sides, Apart
<1>11. X \cup F \subseteq spent \cup F
    BY <1>7
<1> QED BY <1>1, <1>2, <1>3, <1>6, <1>9, <1>10, <1>11 DEF Adrift

\* Session t is s after edit op: sent, or put off if it cannot be.
Edited(s, op, t, log) == IF CanDispatch(s) THEN t.baselined ELSE Shows(s, op, t, log)

\* An edit, whatever the state of the connection.
LEMMA EditFresh ==
    ASSUME NEW log, Written(log), LogFresh(log), NEW mine, NEW spent, NEW own,
           Sides(log, mine, spent, own), NEW s, Mirrors(s, log),
           s.baselined => Pends(s),
           Fresh(s, log, mine, spent), Adrift(s, log, mine, spent),
           ~s.everBaselined => mine = {} /\ s.pending = << >> /\ s.revision = 0,
           NEW op, NEW e, Does(op, s.text, e),
           NoRepeats(Inserted(op)), Brings(op) \subseteq own, Apart(Brings(op), spent)
    PROVE  /\ Edited(s, op, ApplyLocalChange(s, op).s, log)
           /\ Fresh(ApplyLocalChange(s, op).s, log, mine, spent \cup Brings(op))
           /\ Adrift(ApplyLocalChange(s, op).s, log, mine, spent \cup Brings(op))
<1> DEFINE ready == IF CanDispatch(s) /\ ~s.baselined
                    THEN EstablishBaseline(s, 0, << >>) ELSE Quietly(s)
           b == ready.s
           q == Shown(b, op)
           d == ApplyClient(q, op)
           r == ApplyLocalChange(s, op)
           F == Brings(op)
           more == spent \cup F
<1>1. r = IF CanDispatch(s) THEN [s |-> d.s, sent |-> ready.sent \o d.sent] ELSE Quietly(q)
    BY DEF ApplyLocalChange, Shown
<1>2. SessionOK(s)
    BY DEF Mirrors
<1>3. Apart(Range(s.text), F) /\ NoRepeats(s.text)
    BY TextApart DEF Adrift, Fresh
<1>4. Sides(log, mine, more, own) /\ Fresh(s, log, mine, more)
    BY FreshMore
<1>5. CASE ~CanDispatch(s)
  <2>1. ready = Quietly(s) /\ b = s
      BY <1>5 DEF Quietly
  <2> HIDE DEF ready
  <2>3. Shows(s, op, q, log)
      BY <2>1, ShownDoes
  <2>4. r.s = q
      BY <1>1, <1>5 DEF Quietly
  <2> HIDE DEF r, q
  <2>5. Adrift(q, log, mine, more)
      BY <2>3, OfflineAdrift
  <2>6. Fresh(q, log, mine, more)
      BY <1>4, <2>3 DEF Fresh, Shows
  <2> QED BY <1>5, <2>3, <2>4, <2>5, <2>6 DEF Edited, r
<1>6. ASSUME CanDispatch(s), Mirrors(b, log), Pends(b), b.text = s.text, b.baselined,
             Fresh(b, log, mine, spent)
      PROVE  /\ Edited(s, op, r.s, log)
             /\ Fresh(r.s, log, mine, more) /\ Adrift(r.s, log, mine, more)
  <2>1. Does(op, b.text, e)
      BY <1>6
  <2>2. r.s = d.s
    <3> DEFINE x == d.s
               y == ready.sent \o d.sent
    <3> HIDE DEF r, q, ready, d
    <3>1. r = [s |-> x, sent |-> y]
        BY <1>1, <1>6
    <3> HIDE DEF x, y
    <3>2. r.s = x
        BY <3>1
    <3> QED BY <3>2 DEF x
  <2> HIDE DEF b, r
  <2>3. Shows(b, op, q, log)
      BY <1>6, <2>1, ShownDoes
  <2> HIDE DEF q
  <2>4. Mirrors(q, log) /\ AfterEdit(q, b.text, op) /\ Fresh(q, log, mine, spent)
      BY <1>6, <2>3 DEF Shows, AfterEdit, Pends, Fresh
  <2>5. NoRepeats(q.text)
    <3>1. Does(op, s.text, q.text)
        BY <1>6, <2>3 DEF Shows
    <3> QED BY <1>3, <3>1, DoesEvolves
  <2>6. Fresh(d.s, log, mine, more)
      BY <2>4, <2>5, ApplyClientFresh
  <2>7. Mirrors(d.s, log) /\ Pends(d.s) /\ d.s.baselined
    <3>1. Dispatched(q, op, d, log)
        BY <2>4, ApplyClientDoes
    <3> QED BY <1>6, <2>3, <3>1 DEF Dispatched, Shows, SameLink
  <2> HIDE DEF d, more
  <2> DEFINE t == d.s
  <2> HIDE DEF t
  <2>8. Mirrors(t, log) /\ Pends(t) /\ PendingFresh(t.pending, t.revision, log, mine, more)
      BY <2>6, <2>7 DEF t, Fresh
  <2>9. Adrift(t, log, mine, more)
      BY <1>4, <2>8, ShownFresh
  <2> QED BY <1>6, <2>2, <2>6, <2>7, <2>9 DEF t, Edited
<1>7. CASE CanDispatch(s) /\ s.baselined
  <2>1. ready = Quietly(s) /\ b = s
      BY <1>7 DEF Quietly
  <2> HIDE DEF b, r
  <2> QED BY <1>6, <1>7, <2>1 DEF r
<1>8. CASE CanDispatch(s) /\ ~s.baselined
  <2> DEFINE f == FreshClient(s)
             a == f.s
             none == << >>
  <2>0. mine = {} /\ s.pending = << >> /\ s.revision = 0 /\ s.connected
      BY <1>2, <1>8 DEF CanDispatch, SessionOK
  <2>1. ready = EstablishBaseline(s, 0, none) /\ b = Based(a)
      BY <1>8, FirstBaseline
  <2>2. StartsAfresh(s, f, log)
      BY FreshClientDoes
  <2>3. Mirrors(a, log) /\ Pends(a) /\ a.connected /\ a.text = s.text
      BY <2>0, <2>2 DEF StartsAfresh, SameLink
  <2>4. Unsynced(s, spent)
      BY <2>0, AdriftUnsynced
  <2>5. Slice(log, 0, none)
    <3>1. IsSeq(none) /\ Len(none) = 0 /\ Len(log) \in Nat
        BY IsSeqEmpty, IsSeqLen DEF Written
    <3> HIDE DEF none
    <3> QED BY <3>1 DEF Slice
  <2> HIDE DEF a, none, f
  <2>6. Fresh(EstablishBaseline(s, 0, none).s, log, {}, spent)
      BY <2>0, <2>4, <2>5, EstablishFresh
  <2>7. Mirrors(b, log) /\ Pends(b) /\ b.text = s.text /\ b.baselined
    <3>1. /\ Mirrors(Based(a), log) /\ Pends(Based(a)) /\ Based(a).text = s.text
          /\ Based(a).baselined
        BY <2>3, BasedDoes
    <3> DEFINE z == Based(a)
    <3>2. b = z
        BY <2>1
    <3> HIDE DEF b, z
    <3>3. Mirrors(z, log) /\ Pends(z) /\ z.text = s.text /\ z.baselined
        BY <3>1 DEF z
    <3> QED BY <3>2, <3>3
  <2>8. Fresh(b, log, mine, spent)
    <3>1. b = EstablishBaseline(s, 0, none).s
        BY <2>1
    <3> HIDE DEF b
    <3> QED BY <2>0, <2>6, <3>1
  <2> HIDE DEF b, r
  <2> QED BY <1>6, <1>8, <2>7, <2>8 DEF r
<1> QED BY <1>5, <1>7, <1>8

---------------------------------------------------------------------------
(* The room accepts an edit.                                               *)

\* What is logged inserts what the outstanding operation of its author does.
LEMMA AcceptedInserts ==
    ASSUME NEW log, Written(log), NEW s, Mirrors(s, log),
           s.pending # << >> => Does(s.pending[1], s.synced, Confirming(s)),
           NEW user, NEW q, IsSeq(q), q # << >>, Head(q).type = "Edit",
           NEW op, RebasedTo(log, Head(q), op),
           NEW open, Outstanding(log, s.revision, user, q, s.pending, open)
    PROVE  /\ s.pending # << >> /\ NoOwn(log, s.revision, user)
           /\ Inserted(op) = Inserted(s.pending[1])
<1> DEFINE L == Len(log)
           v == s.revision
           p == s.pending
<1>1. L \in Nat /\ v \in Nat /\ v <= L /\ s.synced = TextOf(log, v)
    BY IsSeqLen DEF Written, Mirrors
<1>2. ~NoEdit(q)
    BY TailEdits
<1>3. p # << >> /\ Travels(log, v, user, q, p[1])
    BY <1>2 DEF Outstanding, Lost, Accepted
<1>4. PICK m, f : /\ OnlyEdit(q, m)
                  /\ m.revision \in 0..v
                  /\ f[m.revision] = m.op
                  /\ f[v] = p[1]
                  /\ Trace(log, f, m.revision, L)
    BY <1>3 DEF Travels
<1>5. Head(q) = m
    BY <1>4, TailEdits
<1>6. f[L] = op
    BY <1>4, <1>5 DEF RebasedTo
<1>7. Does(f[v], TextOf(log, v), Confirming(s))
    BY <1>1, <1>3, <1>4
<1> DEFINE r == m.revision
<1>8. r \in Nat /\ r <= v /\ Trace(log, f, r, L)
    BY <1>1, <1>4
<1> HIDE DEF r, L, v, p
<1>9. Trace(log, f, v, L)
  <2>1. L <= L
      BY <1>1
  <2> QED BY <1>1, <1>8, <2>1, TracePart
<1>10. InsertAlike(f, v, L)
  <2>1. L <= Len(log)
      BY <1>1 DEF L
  <2> QED BY <1>1, <1>7, <1>9, <2>1, TraceInserts
<1>11. L \in v..L
    BY <1>1
<1>12. Inserted(f[L]) = Inserted(f[v])
    BY <1>10, <1>11 DEF InsertAlike
<1> QED BY <1>3, <1>4, <1>6, <1>12 DEF Travels, v, p

\* The log once user has added something.
LEMMA EntriesGrow ==
    ASSUME NEW log, NEW more, NEW entry, Grows(log, more, entry), NEW user
    PROVE  /\ entry.id # user => Entries(more, user) = Entries(log, user)
           /\ entry.id = user => Entries(more, user) = Entries(log, user) \cup {Len(more)}
<1> DEFINE L == Len(log)
<1>1. L \in Nat /\ Len(more) = L + 1 /\ more[L + 1] = entry
      /\ \A n \in 1..L : more[n] = log[n]
    BY DEF Grows
<1>2. Entries(log, user) = {n \in 1..L : log[n].id = user}
    BY DEF Entries
<1>3. Entries(more, user) = {n \in 1..(L + 1) : more[n].id = user}
    BY <1>1 DEF Entries
<1>4. \A n : n \in 1..(L + 1) <=> n \in 1..L \/ n = L + 1
    BY <1>1
<1> HIDE DEF L
<1>5. entry.id # user => Entries(more, user) = Entries(log, user)
    BY <1>1, <1>2, <1>3, <1>4
<1>6. entry.id = user => Entries(more, user) = Entries(log, user) \cup {L + 1}
    BY <1>1, <1>2, <1>3, <1>4
<1> QED BY <1>1, <1>5, <1>6

\* Somebody else has.
LEMMA OthersEntry ==
    ASSUME NEW log, NEW more, NEW entry, Grows(log, more, entry),
           NEW mine, NEW spent, NEW own, Sides(log, mine, spent, own),
           Apart(own, Brings(entry.op)),
           NEW s, Fresh(s, log, mine, spent), Adrift(s, log, mine, spent)
    PROVE  /\ Sides(more, mine, spent, own)
           /\ Fresh(s, more, mine, spent) /\ Adrift(s, more, mine, spent)
<1> DEFINE L == Len(log)
<1>1. L \in Nat /\ Len(more) = L + 1 /\ more[L + 1] = entry
      /\ \A n \in 1..L : more[n] = log[n]
    BY DEF Grows
<1>2. /\ mine \subseteq 1..L /\ spent \subseteq own
      /\ \A n \in mine : Brings(log[n].op) \subseteq spent
      /\ \A n \in 1..L : n \notin mine => Apart(own, Brings(log[n].op))
    BY DEF Sides
<1>3. \A n : n \in 1..(L + 1) <=> n \in 1..L \/ n = L + 1
    BY <1>1
<1> HIDE DEF L
<1>4. \A n \in mine : more[n] = log[n]
    BY <1>1, <1>2
<1>5. \A n \in 1..(L + 1) : n \notin mine => Apart(own, Brings(more[n].op))
    BY <1>1, <1>2, <1>3
<1>6. Sides(more, mine, spent, own)
    BY <1>1, <1>2, <1>3, <1>4, <1>5 DEF Sides
<1>7. Fresh(s, more, mine, spent)
    BY <1>4 DEF Fresh, PendingFresh
<1>8. Adrift(s, more, mine, spent)
    BY <1>4 DEF Adrift
<1> QED BY <1>6, <1>7, <1>8

\* Its user has.
LEMMA OwnEntry ==
    ASSUME NEW log, NEW more, NEW entry, Grows(log, more, entry), LogFresh(log),
           NEW user, entry.id = user, NEW spent, NEW own,
           Sides(log, Entries(log, user), spent, own),
           NEW s, Mirrors(s, log), Pends(s), Fresh(s, log, Entries(log, user), spent),
           s.pending # << >>, NoOwn(log, s.revision, user),
           Inserted(entry.op) = Inserted(s.pending[1])
    PROVE  /\ LogFresh(more) /\ Brings(entry.op) \subseteq own
           /\ Sides(more, Entries(more, user), spent, own)
           /\ Fresh(s, more, Entries(more, user), spent)
           /\ Adrift(s, more, Entries(more, user), spent)
<1> DEFINE L == Len(log)
           mine == Entries(log, user)
           now == Entries(more, user)
           p == s.pending
           v == s.revision
           B == Brings(entry.op)
<1>1. L \in Nat /\ Len(more) = L + 1 /\ more[L + 1] = entry
      /\ \A n \in 1..L : more[n] = log[n]
    BY DEF Grows
<1>2. now = mine \cup {L + 1}
    BY <1>1, EntriesGrow
<1>3. /\ mine \subseteq 1..L /\ spent \subseteq own
      /\ \A n \in mine : Brings(log[n].op) \subseteq spent
      /\ \A n \in 1..L : n \notin mine => Apart(own, Brings(log[n].op))
    BY DEF Sides
<1>4. /\ \A i \in DOMAIN p : NoRepeats(Inserted(p[i])) /\ Brings(p[i]) \subseteq spent
      /\ Len(p) = 2 => Apart(Brings(p[1]), Brings(p[2]))
      /\ \A n \in mine : \A i \in DOMAIN p :
            i = 2 \/ n <= v => Apart(Brings(log[n].op), Brings(p[i]))
    BY DEF Fresh, PendingFresh
<1>5. DOMAIN p = 1..Len(p) /\ Len(p) \in 1..2 /\ v \in 0..L
  <2>1. IsSeq(p) /\ Len(p) <= 2 /\ v \in 0..L
      BY DEF Mirrors, SessionOK
  <2>2. Len(p) \in Nat /\ Len(p) # 0
      BY <2>1, IsSeqLen, IsSeqNone
  <2>3. DOMAIN p = 1..Len(p)
      BY <2>1, IsSeqLen
  <2> DEFINE K == Len(p)
  <2> HIDE DEF K
  <2>5. K <= 2 /\ K \in Nat /\ K # 0
      BY <2>1, <2>2 DEF K
  <2>4. K \in 1..2
      BY <2>5
  <2> QED BY <2>1, <2>3, <2>4 DEF K
<1>6. \A n \in mine : n <= v
  <2>1. ASSUME NEW n \in mine, ~(n <= v) PROVE FALSE
    <3>1. n \in (v + 1)..L /\ log[n].id = user
        BY <1>3, <1>5, <2>1 DEF Entries
    <3> QED BY <3>1 DEF NoOwn
  <2> QED BY <2>1
<1>7. B = Brings(p[1]) /\ NoRepeats(Inserted(entry.op)) /\ B \subseteq spent /\ 1 \in DOMAIN p
  <2>1. 1 \in DOMAIN p
      BY <1>5
  <2> QED BY <1>4, <2>1 DEF Brings
<1>8. \A n : n \in 1..(L + 1) <=> n \in 1..L \/ n = L + 1
    BY <1>1
<1>9. L + 1 \notin 1..L /\ ~(L + 1 <= v)
    BY <1>1, <1>5
<1>10. \A n \in 1..L : Apart(Brings(log[n].op), B)
  <2>1. ASSUME NEW n \in 1..L PROVE Apart(Brings(log[n].op), B)
    <3>1. CASE n \in mine
        BY <1>4, <1>6, <1>7, <3>1
    <3>2. CASE n \notin mine
        BY <1>3, <1>7, <3>2 DEF Apart
    <3> QED BY <3>1, <3>2
  <2> QED BY <2>1
<1> HIDE DEF B, L, mine, now
<1>11. LogFresh(more)
  <2>1. /\ \A n \in 1..L : NoRepeats(Inserted(log[n].op))
        /\ \A m, n \in 1..L : m # n => Apart(Brings(log[m].op), Brings(log[n].op))
      BY DEF LogFresh, L
  <2>2. \A n \in 1..(L + 1) : NoRepeats(Inserted(more[n].op))
      BY <1>1, <1>7, <1>8, <2>1
  <2>3. Brings(more[L + 1].op) = B
      BY <1>1 DEF B
  <2>4. \A n \in 1..L : Apart(Brings(more[n].op), B) /\ Apart(B, Brings(more[n].op))
      BY <1>1, <1>10 DEF Apart
  <2>5. \A m, n \in 1..(L + 1) : m # n => Apart(Brings(more[m].op), Brings(more[n].op))
    <3>1. ASSUME NEW m \in 1..(L + 1), NEW n \in 1..(L + 1), m # n
          PROVE  Apart(Brings(more[m].op), Brings(more[n].op))
      <4>1. CASE m \in 1..L /\ n \in 1..L
          BY <1>1, <2>1, <3>1, <4>1
      <4>2. CASE m = L + 1
          BY <1>8, <2>3, <2>4, <3>1, <4>2
      <4>3. CASE n = L + 1
          BY <1>8, <2>3, <2>4, <3>1, <4>3
      <4> QED BY <1>8, <4>1, <4>2, <4>3
    <3> QED BY <3>1
  <2> QED BY <1>1, <2>2, <2>5 DEF LogFresh
<1>12. Sides(more, now, spent, own)
  <2>1. \A n \in now : n \in 1..(L + 1) /\ Brings(more[n].op) \subseteq spent
    <3>1. ASSUME NEW n \in now PROVE n \in 1..(L + 1) /\ Brings(more[n].op) \subseteq spent
      <4>1. CASE n \in mine
          BY <1>1, <1>3, <1>8, <4>1
      <4>2. CASE n = L + 1
          BY <1>1, <1>7, <1>8, <4>2 DEF B
      <4> QED BY <1>2, <3>1, <4>1, <4>2
    <3> QED BY <3>1
  <2>2. \A n \in 1..(L + 1) : n \notin now => Apart(own, Brings(more[n].op))
      BY <1>1, <1>2, <1>3, <1>8
  <2> QED BY <1>1, <1>3, <2>1, <2>2 DEF Sides
<1>13. PendingFresh(p, v, more, now, spent)
  <2>1. ASSUME NEW n \in now, NEW i \in DOMAIN p, i = 2 \/ n <= v
        PROVE  Apart(Brings(more[n].op), Brings(p[i]))
    <3>1. CASE n \in mine
        BY <1>1, <1>3, <1>4, <2>1, <3>1
    <3>2. CASE n = L + 1
      <4>1. i = 2 /\ Len(p) = 2
        <5> DEFINE K == Len(p)
        <5>1. i = 2 /\ i \in 1..K /\ K \in 1..2
            BY <1>5, <1>9, <2>1, <3>2
        <5> HIDE DEF K
        <5>2. K = 2
            BY <5>1
        <5> QED BY <5>1, <5>2 DEF K
      <4> QED BY <1>1, <1>4, <1>7, <3>2, <4>1 DEF B
    <3> QED BY <1>2, <2>1, <3>1, <3>2
  <2> HIDE DEF p, v
  <2> QED BY <1>4, <2>1 DEF PendingFresh
<1>14. Mirrors(s, more) /\ Written(more)
    BY GrowsMirrors DEF Grows
<1>15. Adrift(s, more, now, spent)
    BY <1>11, <1>12, <1>13, <1>14, ShownFresh
<1> QED BY <1>3, <1>7, <1>11, <1>12, <1>13, <1>15 DEF Fresh, B, now, p, v

---------------------------------------------------------------------------
(* What a session reads and what its user types.                           *)

\* A History.
LEMMA HistoryFresh ==
    ASSUME NEW log, Written(log), LogFresh(log),
           NEW s, Mirrors(s, log), s.baselined => Pends(s), s.connected,
           NEW user, NEW q, IsSeq(q), NEW open \in BOOLEAN,
           NEW d, IsSeq(d), d # << >>, Head(d).type = "History",
           NEW n, Talks(s, log, user, q, d, n, open),
           ~s.baselined => s.revision <= End(Head(d)),
           ~s.baselined => s.revision = 0 /\ s.pending = << >>,
           NEW spent, NEW own, Sides(log, Entries(log, user), spent, own),
           Fresh(s, log, Entries(log, user), spent),
           Adrift(s, log, Entries(log, user), spent)
    PROVE  LET r == HandleHistory(s, Head(d).start, Head(d).ops)
           IN  /\ Fresh(r.s, log, Entries(log, user), spent)
               /\ Adrift(r.s, log, Entries(log, user), spent)
<1> DEFINE m == Head(d)
           entries == m.ops
           start == m.start
           r == HandleHistory(s, start, entries)
           t == r.s
           a == IF s.baselined THEN s.revision ELSE 0
           mine == Entries(log, user)
<1>1. Intro(s.selfId, d, user) /\ Covers(log, d, a, n) /\ Reports(log, user, q, open, s)
    BY DEF Talks
<1>2. s.selfId = user
    BY <1>1, IntroTail
<1> HIDE DEF a
<1>3. PICK b : Passes(log, m, a, b)
    BY <1>1, CoversTail
<1>4. start = a /\ Slice(log, a, entries)
    BY <1>3 DEF Passes
<1>5. Mirrors(t, log) /\ Pends(t)
  <2>1. LET x == HandleHistory(s, Head(d).start, Head(d).ops)
        IN  /\ Mirrors(x.s, log) /\ Pends(x.s) /\ x.s.baselined
            /\ IsSeq(x.sent) /\ AllLegible(log, x.sent)
            /\ s.revision <= x.s.revision
            /\ Talks(x.s, log, user, Sent(q, x.sent, open), Tail(d), n, open)
      BY HistoryTalks
  <2> QED BY <2>1
<1>6. Fresh(t, log, mine, spent)
  <2>1. CASE s.baselined
    <3> DEFINE v == s.revision
               p == s.pending
    <3>1. a = v /\ r = Replay(s, entries)
        BY <2>1 DEF HandleHistory, a
    <3>2. Outstanding(log, v, user, q, p, open)
        BY <1>1, <2>1 DEF Reports
    <3> HIDE DEF v, p, r, entries
    <3>3. Outstanding(log, v, user, Sent(q, << >>, open), p, open)
        BY <3>2, IsSeqEmpty, EmptyQueue, OutstandingMore
    <3>4. Tracks(log, user, q, open, s, << >>)
        BY <2>1, <3>3, IsSeqEmpty, EmptyQueue DEF Tracks, v, p
    <3>5. Slice(log, s.revision, entries)
        BY <1>4, <3>1 DEF v
    <3>6. Fresh(Replay(s, entries).s, log, mine, spent)
        BY <1>2, <3>4, <3>5, ReplayFresh
    <3> QED BY <3>1, <3>6
  <2>2. CASE ~s.baselined
    <3>1. a = 0 /\ r = EstablishBaseline(s, 0, entries)
        BY <1>4, <2>2 DEF HandleHistory, a
    <3>2. mine = {}
      <4>1. NoOwn(log, 0, user)
          BY <1>1, <2>2 DEF Reports, Untold
      <4>2. 0 + 1 = 1
          OBVIOUS
      <4> QED BY <4>1, <4>2 DEF NoOwn, Entries
    <3>3. Slice(log, 0, entries)
        BY <1>4, <3>1
    <3>4. s.revision = 0 /\ s.pending = << >>
        BY <2>2
    <3> HIDE DEF entries, r, mine
    <3>5. Unsynced(s, spent)
        BY <3>4, AdriftUnsynced
    <3>6. Fresh(EstablishBaseline(s, 0, entries).s, log, {}, spent)
        BY <3>3, <3>5, EstablishFresh
    <3> QED BY <3>1, <3>2, <3>6
  <2> QED BY <2>1, <2>2
<1> HIDE DEF t, mine
<1>7. PendingFresh(t.pending, t.revision, log, mine, spent) /\ Sides(log, mine, spent, own)
    BY <1>6 DEF Fresh, mine
<1>8. Adrift(t, log, mine, spent)
    BY <1>5, <1>7, ShownFresh
<1> QED BY <1>6, <1>8 DEF t, r, mine

\* A user's edit inserts what is typed.
LEMMA ChangeInserts ==
    ASSUME NEW text, NEW from \in Nat, NEW to \in Nat, to - from \in Nat,
           Len(text) - to \in Nat, NEW insert, IsSeq(insert)
    PROVE  Inserted(ChangeOp(text, from, to, insert)) = insert
<1> DEFINE kept == Retain(New, from)
           cut  == Delete(kept, to - from)
           put  == Insert(cut, insert)
           rest == Len(text) - to
           erased == to - from
<1>1. OpOK(New) /\ Inserted(New) = << >>
    BY OpEmpty, InsertedNothing DEF New
<1>2. OpOK(kept) /\ Inserted(kept) = << >>
    BY <1>1, InsertedRetain
<1> HIDE DEF kept
<1>3. OpOK(cut) /\ Inserted(cut) = << >>
  <2> HIDE DEF erased
  <2>1. erased \in Nat
      BY DEF erased
  <2>2. OpOK(Delete(kept, erased)) /\ Inserted(Delete(kept, erased)) = << >>
      BY <1>2, <2>1, InsertedDelete
  <2> QED BY <2>2 DEF erased
<1> HIDE DEF cut
<1>4. OpOK(put) /\ Inserted(put) = insert
  <2>1. Cat(<< >>, insert) = insert
      BY CatUnit
  <2> QED BY <1>3, <2>1, InsertedInsert
<1> HIDE DEF put
<1>5. Inserted(Retain(put, rest)) = insert
  <2> HIDE DEF rest
  <2>1. rest \in Nat
      BY DEF rest
  <2> QED BY <1>4, <2>1, InsertedRetain
<1> QED BY <1>5 DEF ChangeOp, put, cut, kept

\* More may have been typed than is shown.
LEMMA AdriftMore ==
    ASSUME NEW log, NEW mine, NEW spent, NEW more, spent \subseteq more,
           NEW s, Fresh(s, log, mine, spent), Adrift(s, log, mine, spent)
    PROVE  Fresh(s, log, mine, more) /\ Adrift(s, log, mine, more)
<1>1. Fresh(s, log, mine, more)
    BY DEF Fresh, PendingFresh
<1>2. PICK X : /\ Evolves(Confirming(s), s.text, X)
               /\ X \subseteq spent
               /\ \A n \in mine : Apart(X, Brings(log[n].op))
    BY DEF Adrift
<1>3. X \subseteq more
    BY <1>2
<1> QED BY <1>1, <1>2, <1>3 DEF Adrift

\* A connection shut down carries nothing any more.
LEMMA OutstandingShut ==
    ASSUME NEW log, NEW v, NEW user, NEW q, NEW p, NEW open,
           Outstanding(log, v, user, q, p, open)
    PROVE  Outstanding(log, v, user, q, p, FALSE)
BY DEF Outstanding, Lost

\* The text and the pending operations of a session are all that counts.
LEMMA FreshKept ==
    ASSUME NEW log, NEW mine, NEW spent, NEW s, NEW t, SameTexts(s, t),
           Fresh(s, log, mine, spent), Adrift(s, log, mine, spent)
    PROVE  Fresh(t, log, mine, spent) /\ Adrift(t, log, mine, spent)
BY DEF SameTexts, Fresh, Adrift, Confirming

---------------------------------------------------------------------------
(* The system.                                                             *)

\* What client c types in its first m edits.
TypedBy(c, m) == UNION {Range(Typed[c][n]) : n \in 1..m}

\* What it may type, and what it has typed.
Own(c)   == TypedBy(c, MaxEdits[c])
Spent(c) == TypedBy(c, edits[c])

\* Its one connection, and what it has added to the log.
Line(c) == <<c, 1>>
Mine(c) == IF episode[c] > 0 THEN Entries(ops, id[Line(c)]) ELSE {}

\* No byte is typed twice, nor is one of the seed's.
TypedApart ==
    /\ NoRepeats(Seed)
    /\ \A c \in Clients : \A n \in 1..MaxEdits[c] :
          NoRepeats(Typed[c][n]) /\ Apart(Range(Typed[c][n]), Range(Seed))
    /\ \A c, d \in Clients : \A n \in 1..MaxEdits[c], m \in 1..MaxEdits[d] :
          c # d \/ n # m => Apart(Range(Typed[c][n]), Range(Typed[d][m]))

\* No client connects a second time.
ConnectOnce == \A c \in Clients : MaxEpisodes[c] = 1

\* Session s of a client that has opened e connections.
Orderly(s, log, mine, spent, own, e) ==
    /\ Sides(log, mine, spent, own)
    /\ Fresh(s, log, mine, spent) /\ Adrift(s, log, mine, spent)
    /\ e = 0 => ~s.everBaselined
    /\ ~s.everBaselined => s.pending = << >>
    /\ s.connected /\ s.everBaselined => s.baselined

\* Its connection is over.
Over(s, log, user, q, state) ==
    state = "closed" /\ Outstanding(log, s.revision, user, q, s.pending, FALSE)

ClientOrderly(c) ==
    /\ edits[c] <= MaxEdits[c]
    /\ Orderly(sess[c], ops, Mine(c), Spent(c), Own(c), episode[c])
    /\ ~sess[c].connected /\ episode[c] > 0
          => Over(sess[c], ops, id[Line(c)], up[Line(c)], link[Line(c)])

OInv == LogFresh(ops) /\ \A c \in Clients : ClientOrderly(c)

\* Every connection is a client's first.
LEMMA Lines ==
    ASSUME ConnectOnce, CInv
    PROVE  /\ \A k \in Conns : k[1] \in Clients /\ k = Line(k[1]) /\ k[2] = 1
           /\ \A c \in Clients : /\ Line(c) \in Conns /\ episode[c] \in 0..1
                                 /\ Line(c)[1] = c /\ Line(c)[2] = 1
                                 /\ episode[c] = 1 => Current(c) = Line(c)
                                 /\ sess[c].connected => episode[c] = 1
           /\ \A c, d \in Clients : Line(c) = Line(d) => c = d
<1>1. ASSUME NEW k \in Conns PROVE k[1] \in Clients /\ k = Line(k[1]) /\ k[2] = 1
  <2>1. PICK c \in Clients : k \in {c} \X (1..MaxEpisodes[c])
      BY DEF Conns
  <2>2. MaxEpisodes[c] = 1 /\ 1..1 = {1}
      BY DEF ConnectOnce
  <2> QED BY <2>1, <2>2 DEF Line
<1>2. ASSUME NEW c \in Clients
      PROVE  /\ Line(c) \in Conns /\ episode[c] \in 0..1
             /\ Line(c)[1] = c /\ Line(c)[2] = 1
             /\ episode[c] = 1 => Current(c) = Line(c)
             /\ sess[c].connected => episode[c] = 1
  <2>1. MaxEpisodes[c] = 1 /\ 1 \in 1..1
      BY DEF ConnectOnce
  <2>2. Line(c) \in {c} \X (1..MaxEpisodes[c])
      BY <2>1 DEF Line
  <2>3. Line(c) \in Conns
      BY <2>2 DEF Conns
  <2>4. /\ episode[c] \in Nat /\ episode[c] <= 1
        /\ sess[c].connected => episode[c] > 0
      BY <2>1 DEF CInv, IInv, TypeOK
  <2>5. episode[c] \in 0..1 /\ (sess[c].connected => episode[c] = 1)
      BY <2>4
  <2> QED BY <2>3, <2>5 DEF Current, Line
<1>3. \A c, d \in Clients : Line(c) = Line(d) => c = d
    BY DEF Line
<1> QED BY <1>1, <1>2, <1>3

\* Clients type different bytes, and each edit new ones.
LEMMA OwnsApart ==
    ASSUME TypedApart
    PROVE  /\ \A c, d \in Clients : c # d => Apart(Own(c), Own(d))
           /\ \A c \in Clients : Apart(Own(c), Range(Seed))
<1>1. ASSUME NEW c \in Clients, NEW d \in Clients, c # d PROVE Apart(Own(c), Own(d))
  <2>1. \A n \in 1..MaxEdits[c], m \in 1..MaxEdits[d] :
           Apart(Range(Typed[c][n]), Range(Typed[d][m]))
      BY <1>1 DEF TypedApart
  <2> QED BY <2>1 DEF Own, TypedBy, Apart
<1>2. ASSUME NEW c \in Clients PROVE Apart(Own(c), Range(Seed))
  <2>1. \A n \in 1..MaxEdits[c] : Apart(Range(Typed[c][n]), Range(Seed))
      BY DEF TypedApart
  <2> QED BY <2>1 DEF Own, TypedBy, Apart
<1> QED BY <1>1, <1>2

LEMMA TypedMore ==
    ASSUME TypedApart, NEW c \in Clients, NEW n \in Nat, n + 1 <= MaxEdits[c]
    PROVE  /\ TypedBy(c, n) \subseteq Own(c)
           /\ TypedBy(c, n + 1) = TypedBy(c, n) \cup Range(Typed[c][n + 1])
           /\ TypedBy(c, n + 1) \subseteq Own(c)
           /\ Apart(Range(Typed[c][n + 1]), TypedBy(c, n))
           /\ NoRepeats(Typed[c][n + 1])
<1> DEFINE M == MaxEdits[c]
           T(m) == Range(Typed[c][m])
<1>1. M \in Nat
    BY CollabAssumption
<1>2. /\ \A m \in 1..M : NoRepeats(Typed[c][m])
      /\ \A m, l \in 1..M : m # l => Apart(T(m), T(l))
    BY DEF TypedApart
<1>3. /\ \A m : m \in 1..(n + 1) <=> m \in 1..n \/ m = n + 1
      /\ \A m \in 1..(n + 1) : m \in 1..M
      /\ n + 1 \in 1..M /\ \A m \in 1..n : m \in 1..M /\ m # n + 1
  <2>1. n + 1 <= M
      OBVIOUS
  <2> HIDE DEF M
  <2> QED BY <1>1, <2>1
<1>4. \A m : TypedBy(c, m) = UNION {T(l) : l \in 1..m}
    BY DEF TypedBy
<1>5. Own(c) = UNION {T(l) : l \in 1..M}
    BY DEF Own, TypedBy
<1> HIDE DEF M, T
<1>6. TypedBy(c, n + 1) = TypedBy(c, n) \cup T(n + 1)
    BY <1>3, <1>4
<1>7. TypedBy(c, n + 1) \subseteq Own(c)
    BY <1>3, <1>4, <1>5
<1>8. Apart(T(n + 1), TypedBy(c, n))
    BY <1>2, <1>3, <1>4 DEF Apart
<1> QED BY <1>2, <1>3, <1>6, <1>7, <1>8 DEF T

\* A step of the server's that leaves the log alone.
LEMMA ServerOrders ==
    ASSUME ConnectOnce, CInv, OInv, NEW k \in Conns, link[k] # "closed",
           UNCHANGED <<ops, id, sess, episode, edits>>,
           \A j \in Conns : j # k => link'[j] = link[j] /\ up'[j] = up[j]
    PROVE  OInv'
<1>1. ASSUME NEW c \in Clients PROVE ClientOrderly(c)'
  <2>1. ClientOrderly(c) /\ Line(c) \in Conns
      BY Lines DEF OInv
  <2>2. Mine(c)' = Mine(c) /\ Spent(c)' = Spent(c)
      BY DEF Mine, Spent
  <2>3. ASSUME ~sess[c].connected, episode[c] > 0
        PROVE  Over(sess[c], ops, id[Line(c)], up'[Line(c)], link'[Line(c)])
    <3>1. Over(sess[c], ops, id[Line(c)], up[Line(c)], link[Line(c)])
        BY <2>1, <2>3 DEF ClientOrderly
    <3>2. Line(c) # k
        BY <3>1 DEF Over
    <3> QED BY <2>1, <3>1, <3>2
  <2> QED BY <2>1, <2>2, <2>3 DEF ClientOrderly
<1> QED BY <1>1 DEF OInv

\* A step of one client's.
LEMMA ClientOrders ==
    ASSUME OInv, NEW c \in Clients, UNCHANGED ops, ClientOrderly(c)',
           \A d \in Clients : d # c =>
              /\ sess'[d] = sess[d] /\ episode'[d] = episode[d] /\ edits'[d] = edits[d]
              /\ id'[Line(d)] = id[Line(d)] /\ up'[Line(d)] = up[Line(d)]
              /\ link'[Line(d)] = link[Line(d)]
    PROVE  OInv'
<1>1. ASSUME NEW d \in Clients, d # c PROVE ClientOrderly(d)'
  <2>1. Mine(d)' = Mine(d) /\ Spent(d)' = Spent(d)
      BY <1>1 DEF Mine, Spent
  <2> QED BY <1>1, <2>1 DEF OInv, ClientOrderly
<1> QED BY <1>1 DEF OInv

\* The room accepts an edit: it comes from a client that is connected, and adds
\* what its session has outstanding.
LEMMA AcceptEditOrders ==
    ASSUME TypedApart, ConnectOnce, CInv, OInv, NEW k \in Conns, AcceptEdit(k)
    PROVE  OInv'
<1> DEFINE c == k[1]
           s == sess[c]
           user == id[k]
           q == up[k]
           open == link[k] = "open"
           spent == Spent(c)
           own == Own(c)
<1>1. /\ link[k] # "none" /\ link[k] # "closed" /\ q # << >> /\ Head(q).type = "Edit"
      /\ up' = [up EXCEPT ![k] = Tail(@)]
      /\ UNCHANGED <<link, id, sess, episode, edits>>
    BY DEF AcceptEdit, Serving, linkVars, clientVars
<1>2. PICK op : /\ RebasedTo(ops, Head(q), op)
                /\ Grows(ops, ops', Entry(id[k], op))
    BY EditLogged
<1> DEFINE entry == Entry(id[k], op)
<1>3. Grows(ops, ops', entry) /\ entry.id = user /\ entry.op = op
    BY <1>2 DEF Entry
<1> HIDE DEF entry
<1>4. c \in Clients /\ k = Line(c) /\ k[2] = 1 /\ DOMAIN up = Conns
    BY Lines DEF CInv, IInv, TypeOK
<1>5. episode[c] = 1 /\ s.connected /\ Current(c) = k
  <2>1. episode[c] \in 0..1
      BY <1>4, Lines
  <2>2. ~(k[2] > episode[k[1]])
      BY <1>1 DEF CInv, ConnsFresh
  <2>3. episode[c] = 1
      BY <1>4, <2>1, <2>2
  <2>4. Current(c) = Line(c)
      BY <1>4, <2>3, Lines
  <2>5. ~s.connected => Over(s, ops, id[Line(c)], up[Line(c)], link[Line(c)])
    <3>1. episode[c] > 0
        BY <2>3
    <3> QED BY <1>4, <3>1 DEF OInv, ClientOrderly
  <2>6. SessionOK(s)
      BY <1>4 DEF CInv, IInv, TypeOK
  <2>7. s.connected
      BY <1>1, <1>4, <2>5 DEF Over
  <2> QED BY <1>4, <2>3, <2>4, <2>7
<1>6. Mine(c) = Entries(ops, user) /\ Mine(c)' = Entries(ops', user) /\ Spent(c)' = spent
  <2>1. episode[c] > 0
      BY <1>5
  <2> QED BY <1>1, <1>4, <2>1 DEF Mine, Spent
<1>7. /\ Mirrors(s, ops) /\ (s.baselined => Pends(s))
      /\ Talks(s, ops, user, q, down[k], sent[k], open) /\ IsSeq(q)
    BY <1>4, <1>5, Touching DEF InTouch
<1>8. /\ Sides(ops, Entries(ops, user), spent, own)
      /\ Fresh(s, ops, Entries(ops, user), spent)
      /\ Adrift(s, ops, Entries(ops, user), spent)
      /\ ~s.everBaselined => s.pending = << >>
      /\ s.connected /\ s.everBaselined => s.baselined
      /\ edits[c] <= MaxEdits[c]
      /\ LogFresh(ops)
    BY <1>4, <1>6 DEF OInv, ClientOrderly, Orderly
<1>9. Reports(ops, user, q, open, s) /\ Written(ops)
    BY <1>7 DEF Talks, CInv, LogWritten
<1>10. s.baselined /\ Outstanding(ops, s.revision, user, q, s.pending, open)
  <2>1. ~NoEdit(q)
      BY <1>1, <1>7, TailEdits
  <2> QED BY <1>9, <2>1 DEF Reports, Untold
<1>11. s.pending # << >> => Does(s.pending[1], s.synced, Confirming(s))
    BY <1>8 DEF Adrift
<1> HIDE DEF s, user, q, open, own, spent
<1>12. /\ s.pending # << >> /\ NoOwn(ops, s.revision, user)
       /\ Inserted(op) = Inserted(s.pending[1])
    BY <1>1, <1>2, <1>7, <1>9, <1>10, <1>11, AcceptedInserts
<1>13. Inserted(entry.op) = Inserted(s.pending[1])
    BY <1>3, <1>12
<1>14. Pends(s)
    BY <1>7, <1>10
<1> DEFINE log == ops
           more == ops'
<1>15. /\ LogFresh(more) /\ Brings(entry.op) \subseteq own
       /\ Sides(more, Entries(more, user), spent, own)
       /\ Fresh(s, more, Entries(more, user), spent)
       /\ Adrift(s, more, Entries(more, user), spent)
  <2>1. /\ Grows(log, more, entry) /\ LogFresh(log) /\ entry.id = user
        /\ Sides(log, Entries(log, user), spent, own)
        /\ Mirrors(s, log) /\ Pends(s) /\ Fresh(s, log, Entries(log, user), spent)
        /\ s.pending # << >> /\ NoOwn(log, s.revision, user)
      BY <1>3, <1>7, <1>8, <1>12, <1>14
  <2> HIDE DEF log, more
  <2> QED BY <1>13, <2>1, OwnEntry
<1>16. ClientOrderly(c)'
  <2>1. Orderly(s, ops', Mine(c)', Spent(c)', own, episode[c])
      BY <1>5, <1>6, <1>8, <1>15 DEF Orderly
  <2> QED BY <1>1, <1>5, <1>8, <2>1 DEF ClientOrderly, s, own
<1>17. ASSUME NEW d \in Clients, d # c PROVE ClientOrderly(d)'
  <2> DEFINE j == Line(d)
             t == sess[d]
  <2>1. /\ j # k /\ j \in Conns
        /\ ClientOrderly(d)
      BY <1>4, <1>17, Lines DEF OInv
  <2>2. up'[j] = up[j]
      BY <1>1, <1>4, <2>1
  <2>3. episode[d] > 0 => entry.id # id[j]
    <3>1. episode[d] > 0 => ~(j[2] > episode[d])
      <4>1. episode[d] \in 0..1 /\ j[2] = 1
          BY Lines
      <4> HIDE DEF j
      <4> QED BY <4>1
    <3>2. id[k] # 0
        BY <1>1 DEF CInv, IdsDistinct
    <3>3. id[k] = id[j] /\ id[k] # 0 => k = j
        BY <2>1 DEF CInv, IdsDistinct
    <3> QED BY <1>3, <2>1, <3>2, <3>3 DEF user
  <2>4. Mine(d)' = Mine(d) /\ Spent(d)' = Spent(d)
    <3>1. CASE episode[d] > 0
      <4> DEFINE u == id[j]
      <4>1. Mine(d) = Entries(log, u) /\ Mine(d)' = Entries(more, u)
          BY <1>1, <3>1 DEF Mine
      <4>2. entry.id # u /\ Grows(log, more, entry)
          BY <1>3, <2>3, <3>1
      <4> HIDE DEF u, log, more
      <4>3. Entries(more, u) = Entries(log, u)
          BY <4>2, EntriesGrow
      <4> QED BY <1>1, <4>1, <4>3 DEF Spent
    <3>2. CASE ~(episode[d] > 0)
        BY <1>1, <3>2 DEF Mine, Spent
    <3> QED BY <3>1, <3>2
  <2> DEFINE mine == Mine(d)
             spend == Spent(d)
             owns == Own(d)
  <2>5. /\ Sides(log, mine, spend, owns) /\ Fresh(t, log, mine, spend)
        /\ Adrift(t, log, mine, spend)
      BY <2>1 DEF ClientOrderly, Orderly
  <2>6. Apart(owns, Brings(entry.op))
    <3>1. Apart(Own(d), Own(c))
        BY <1>4, <1>17, OwnsApart
    <3> QED BY <1>15, <3>1 DEF Apart, own
  <2>7. Grows(log, more, entry)
      BY <1>3
  <2> HIDE DEF mine, spend, owns, t, j
  <2>8. /\ Sides(more, mine, spend, owns) /\ Fresh(t, more, mine, spend)
        /\ Adrift(t, more, mine, spend)
    <3> HIDE DEF log, more
    <3> QED BY <2>5, <2>6, <2>7, OthersEntry
  <2>9. Orderly(t, more, mine, spend, owns, episode[d])
      BY <2>1, <2>8 DEF ClientOrderly, Orderly, t
  <2>10. ASSUME ~t.connected, episode[d] > 0
         PROVE  Over(t, more, id[j], up'[j], link[j])
    <3>1. Over(t, log, id[j], up[j], link[j])
        BY <2>1, <2>10 DEF ClientOrderly, t, j
    <3>2. entry.id # id[j] /\ t.revision \in 0..Len(log)
        BY <2>3, <2>10 DEF CInv, SessionsMirror, Mirrors, t
    <3> DEFINE u == id[j]
               v == t.revision
               p == t.pending
               w == up[j]
               shut == FALSE
    <3>3. Outstanding(log, v, u, w, p, shut)
        BY <3>1 DEF Over
    <3>4. v \in 0..Len(log) /\ entry.id # u
        BY <3>2
    <3> HIDE DEF u, v, p, w, shut, log, more
    <3>5. Outstanding(more, v, u, w, p, shut)
        BY <2>7, <3>3, <3>4, OutstandingGrows
    <3> QED BY <2>2, <3>1, <3>5 DEF Over, u, v, p, w, shut
  <2> QED BY <1>1, <2>1, <2>4, <2>9, <2>10 DEF ClientOrderly, t, j, mine, spend, owns
<1> QED BY <1>15, <1>16, <1>17 DEF OInv

\* A session whose texts, operations and connection stay as they are.
LEMMA TextsOrder ==
    ASSUME OInv, NEW c \in Clients,
           UNCHANGED <<ops, episode, edits, id, link>>,
           SameTexts(sess[c], sess'[c]),
           sess'[c].everBaselined = sess[c].everBaselined,
           sess'[c].connected = sess[c].connected,
           sess'[c].baselined = sess[c].baselined,
           ~sess[c].connected => up' = up
    PROVE  ClientOrderly(c)'
<1> DEFINE old == sess[c]
           s == sess'[c]
<1>1. Mine(c)' = Mine(c) /\ Spent(c)' = Spent(c)
    BY DEF Mine, Spent
<1>2. ClientOrderly(c)
    BY DEF OInv
<1>3. Fresh(old, ops, Mine(c), Spent(c)) /\ Adrift(old, ops, Mine(c), Spent(c))
    BY <1>2 DEF ClientOrderly, Orderly
<1>4. SameTexts(old, s) /\ s.revision = old.revision /\ s.pending = old.pending
    BY DEF SameTexts
<1>5. Fresh(s, ops, Mine(c), Spent(c)) /\ Adrift(s, ops, Mine(c), Spent(c))
  <2> HIDE DEF old, s
  <2> QED BY <1>3, <1>4, FreshKept
<1>6. Orderly(s, ops, Mine(c), Spent(c), Own(c), episode[c])
    BY <1>2, <1>4, <1>5 DEF ClientOrderly, Orderly
<1>7. ASSUME ~s.connected, episode[c] > 0
      PROVE  Over(s, ops, id[Line(c)], up'[Line(c)], link[Line(c)])
    BY <1>2, <1>4, <1>7 DEF ClientOrderly, Over
<1> QED BY <1>1, <1>2, <1>6, <1>7 DEF ClientOrderly

\* What a client sends goes on its own connection.
LEMMA SentAlone ==
    ASSUME ConnectOnce, CInv, NEW c \in Clients, NEW u,
           IF sess[c].connected THEN Send(Current(c), u) ELSE UNCHANGED up
    PROVE  \A d \in Clients : d # c => up'[Line(d)] = up[Line(d)]
<1>1. DOMAIN up = Conns
    BY DEF CInv, IInv, TypeOK
<1>2. CASE sess[c].connected
  <2>1. Current(c) = Line(c)
      BY <1>2, Lines
  <2>2. \A d \in Clients : d # c => Line(d) # Current(c) /\ Line(d) \in Conns
      BY <2>1, Lines
  <2> QED BY <1>1, <1>2, <2>2 DEF Send
<1>3. CASE ~sess[c].connected
    BY <1>3
<1> QED BY <1>2, <1>3

\* Who a client is, and how it is connected, is no part of its session's text.
LEMMA StatusTexts ==
    ASSUME NEW s, SessionOK(s), NEW on \in BOOLEAN, NEW user \in Nat
    PROVE  LET t == HandleStatus(s, on)
               u == HandleIdentity(s, user)
           IN  /\ SameTexts(s, t) /\ t.everBaselined = s.everBaselined /\ t.connected = on
               /\ SameTexts(s, u) /\ u.everBaselined = s.everBaselined
               /\ u.connected = s.connected /\ u.baselined = s.baselined
<1> DEFINE t == HandleStatus(s, on)
           u == HandleIdentity(s, user)
<1>1. SameTexts(s, t) /\ t.everBaselined = s.everBaselined /\ t.connected = on
    BY DEF HandleStatus, SessionOK, SameTexts
<1>2. /\ SameTexts(s, u) /\ u.everBaselined = s.everBaselined
      /\ u.connected = s.connected /\ u.baselined = s.baselined
    BY DEF HandleIdentity, SessionOK, SameTexts
<1> QED BY <1>1, <1>2

\* A client connects: its user has added nothing to the log.
LEMMA ConnectOrders ==
    ASSUME ConnectOnce, CInv, OInv, NEW c \in Clients, Connect(c)
    PROVE  OInv'
<1> DEFINE k == <<c, episode[c] + 1>>
           old == sess[c]
           s == HandleStatus(old, TRUE)
<1>1. /\ episode[c] < MaxEpisodes[c]
      /\ episode' = [episode EXCEPT ![c] = @ + 1]
      /\ sess' = [sess EXCEPT ![c] = s]
      /\ link' = [link EXCEPT ![k] = "open"]
      /\ id' = [id EXCEPT ![k] = nextID]
      /\ UNCHANGED <<ops, up, edits>>
    BY DEF Connect
<1>2. /\ DOMAIN episode = Clients /\ DOMAIN sess = Clients
      /\ DOMAIN link = Conns /\ DOMAIN id = Conns /\ SessionOK(old)
    BY DEF CInv, IInv, TypeOK
<1>3. episode[c] = 0 /\ k = Line(c) /\ Line(c) \in Conns
  <2>1. episode[c] \in 0..1 /\ MaxEpisodes[c] = 1
      BY Lines DEF ConnectOnce
  <2>2. episode[c] = 0
      BY <1>1, <2>1
  <2> QED BY <2>2, Lines DEF Line
<1> HIDE DEF k
<1>4. episode'[c] = 1 /\ sess'[c] = s /\ id'[Line(c)] = nextID
    BY <1>1, <1>2, <1>3
<1>5. SameTexts(old, s) /\ s.everBaselined = old.everBaselined /\ s.connected
    BY <1>2, StatusTexts
<1> HIDE DEF s
<1>6. Mine(c) = {} /\ Mine(c)' = {} /\ Spent(c)' = Spent(c)
  <2>1. ~(episode[c] > 0) /\ episode'[c] > 0
      BY <1>3, <1>4
  <2>2. Entries(ops, nextID) = {}
      BY DEF CInv, LogWritten, IInv, TypeOK, Entries
  <2> QED BY <1>1, <1>4, <2>1, <2>2 DEF Mine, Spent
<1>7. ClientOrderly(c)
    BY DEF OInv
<1>8. /\ Sides(ops, {}, Spent(c), Own(c)) /\ edits[c] <= MaxEdits[c]
      /\ Fresh(s, ops, {}, Spent(c)) /\ Adrift(s, ops, {}, Spent(c))
      /\ ~s.everBaselined /\ s.pending = << >>
  <2>1. /\ Sides(ops, {}, Spent(c), Own(c)) /\ edits[c] <= MaxEdits[c]
        /\ Fresh(old, ops, {}, Spent(c)) /\ Adrift(old, ops, {}, Spent(c))
        /\ ~old.everBaselined /\ old.pending = << >>
      BY <1>3, <1>6, <1>7 DEF ClientOrderly, Orderly
  <2> HIDE DEF old
  <2>2. Fresh(s, ops, {}, Spent(c)) /\ Adrift(s, ops, {}, Spent(c))
      BY <1>5, <2>1, FreshKept
  <2> QED BY <1>5, <2>1, <2>2 DEF SameTexts
<1>9. ClientOrderly(c)'
  <2>1. Orderly(s, ops', Mine(c)', Spent(c)', Own(c), episode'[c])
      BY <1>1, <1>4, <1>6, <1>8 DEF Orderly
  <2> QED BY <1>1, <1>4, <1>5, <1>8, <2>1 DEF ClientOrderly
<1>10. \A d \in Clients : d # c =>
              /\ sess'[d] = sess[d] /\ episode'[d] = episode[d] /\ edits'[d] = edits[d]
              /\ id'[Line(d)] = id[Line(d)] /\ up'[Line(d)] = up[Line(d)]
              /\ link'[Line(d)] = link[Line(d)]
  <2>1. \A d \in Clients : d # c => Line(d) # k /\ Line(d) \in Conns
      BY <1>3, Lines
  <2> QED BY <1>1, <1>2, <2>1
<1> QED BY <1>1, <1>9, <1>10, ClientOrders

\* A client learns who it is.
LEMMA ReceiveIdentityOrders ==
    ASSUME ConnectOnce, CInv, OInv, NEW c \in Clients, ReceiveIdentity(c)
    PROVE  OInv'
<1> DEFINE old == sess[c]
           m == Head(down[Current(c)])
           s == HandleIdentity(old, m.user)
<1>1. /\ old.connected /\ sess' = [sess EXCEPT ![c] = s]
      /\ down[Current(c)] # << >> /\ m.type = "Identity"
      /\ UNCHANGED <<ops, id, link, up, episode, edits>>
    BY DEF ReceiveIdentity, Incoming, roomVars, linkVars
<1>2. DOMAIN sess = Clients /\ SessionOK(old)
    BY DEF CInv, IInv, TypeOK
<1>3. m.user \in Nat
  <2> DEFINE d == down[Current(c)]
  <2>1. IsSeq(d) /\ Current(c) \in Conns
      BY <1>1, Touching
  <2>2. m = d[1] /\ 1 \in DOMAIN d
      BY <1>1, <2>1, TailIndex
  <2>3. MessageDownOK(m)
      BY <2>1, <2>2 DEF CInv, IInv, TypeOK, DownQueueOK
  <2> QED BY <1>1, <2>3 DEF MessageDownOK
<1>4. /\ SameTexts(old, s) /\ s.everBaselined = old.everBaselined
      /\ s.connected = old.connected /\ s.baselined = old.baselined
    BY <1>2, <1>3, StatusTexts
<1> HIDE DEF s
<1>5. ClientOrderly(c)'
    BY <1>1, <1>2, <1>4, TextsOrder
<1>6. \A d \in Clients : d # c => sess'[d] = sess[d]
    BY <1>1, <1>2
<1> QED BY <1>1, <1>5, <1>6, ClientOrders

\* A user moves the caret.
LEMMA MoveCaretOrders ==
    ASSUME ConnectOnce, CInv, OInv, NEW c \in Clients, MoveCaret(c)
    PROVE  OInv'
<1> DEFINE k == Current(c)
           old == sess[c]
<1>1. PICK p : /\ sess' = [sess EXCEPT ![c].caret = <<p>>]
               /\ IF old.connected THEN Send(k, <<CursorData(<<p>>)>>) ELSE UNCHANGED up
    BY DEF MoveCaret
<1> DEFINE caret == <<p>>
           s == [old EXCEPT !.caret = caret]
           u == <<CursorData(caret)>>
<1>2. /\ sess' = [sess EXCEPT ![c] = s]
      /\ IF old.connected THEN Send(k, u) ELSE UNCHANGED up
      /\ UNCHANGED <<ops, id, link, episode, edits>>
    BY <1>1 DEF MoveCaret, roomVars, linkVars
<1> HIDE DEF caret, u
<1>3. DOMAIN sess = Clients /\ SessionOK(old) /\ DOMAIN up = Conns
    BY DEF CInv, IInv, TypeOK
<1>4. /\ SameTexts(old, s) /\ s.everBaselined = old.everBaselined
      /\ s.connected = old.connected /\ s.baselined = old.baselined
    BY <1>3 DEF SessionOK, SameTexts
<1> HIDE DEF s
<1>5. sess'[c] = s /\ \A d \in Clients : d # c => sess'[d] = sess[d]
    BY <1>2, <1>3
<1>6. ClientOrderly(c)'
    BY <1>2, <1>4, <1>5, TextsOrder
<1>7. \A d \in Clients : d # c => up'[Line(d)] = up[Line(d)]
    BY <1>2, <1>3, SentAlone
<1> QED BY <1>2, <1>5, <1>6, <1>7, ClientOrders

\* The client reads the close frame: its one connection is over.
LEMMA ReceiveCloseOrders ==
    ASSUME ConnectOnce, CInv, OInv, NEW c \in Clients, ReceiveClose(c)
    PROVE  OInv'
<1> DEFINE k == Current(c)
           old == sess[c]
           s == HandleStatus(old, FALSE)
           user == id[k]
           q == up[k]
           open == link[k] = "open"
<1>1. /\ old.connected /\ sess' = [sess EXCEPT ![c] = s]
      /\ link' = [link EXCEPT ![k] = "closed"]
      /\ UNCHANGED <<ops, id, up, episode, edits>>
    BY DEF ReceiveClose, Incoming, roomVars
<1>2. /\ DOMAIN sess = Clients /\ SessionOK(old) /\ DOMAIN link = Conns
      /\ ~old.everBaselined => old.revision = 0
    BY DEF CInv, IInv, TypeOK, RevisionsInOrder, InStep
<1>3. k = Line(c) /\ k \in Conns /\ episode[c] = 1
    BY <1>1, Lines
<1>4. /\ SameTexts(old, s) /\ s.everBaselined = old.everBaselined /\ ~s.connected
    BY <1>2, StatusTexts
<1> HIDE DEF s
<1>5. sess'[c] = s /\ \A d \in Clients : d # c => sess'[d] = sess[d]
    BY <1>1, <1>2
<1>6. Mine(c)' = Mine(c) /\ Spent(c)' = Spent(c) /\ ClientOrderly(c)
    BY <1>1 DEF Mine, Spent, OInv
<1>7. Fresh(s, ops, Mine(c), Spent(c)) /\ Adrift(s, ops, Mine(c), Spent(c))
  <2>1. Fresh(old, ops, Mine(c), Spent(c)) /\ Adrift(old, ops, Mine(c), Spent(c))
      BY <1>6 DEF ClientOrderly, Orderly
  <2> HIDE DEF old
  <2> QED BY <1>4, <2>1, FreshKept
<1>8. Orderly(s, ops, Mine(c), Spent(c), Own(c), episode[c])
    BY <1>4, <1>6, <1>7 DEF ClientOrderly, Orderly, SameTexts
<1>9. Outstanding(ops, s.revision, user, q, s.pending, FALSE)
  <2>1. Reports(ops, user, q, open, old)
      BY <1>1, <1>3, Touching DEF InTouch, Talks
  <2>2. s.revision = old.revision /\ s.pending = old.pending
      BY <1>4 DEF SameTexts
  <2>3. CASE old.baselined
    <3>1. Outstanding(ops, old.revision, user, q, old.pending, open)
        BY <2>1, <2>3 DEF Reports
    <3> HIDE DEF old, user, q, open
    <3> QED BY <2>2, <3>1, OutstandingShut
  <2>4. CASE ~old.baselined
    <3>1. ~old.everBaselined
        BY <1>1, <1>6, <2>4 DEF ClientOrderly, Orderly
    <3>2. old.revision = 0 /\ old.pending = << >>
        BY <1>2, <1>6, <3>1 DEF ClientOrderly, Orderly
    <3>3. NoEdit(q) /\ NoOwn(ops, 0, user)
        BY <2>1, <2>4 DEF Reports, Untold
    <3> QED BY <2>2, <3>2, <3>3 DEF Outstanding
  <2> QED BY <2>3, <2>4
<1>10. Over(s, ops, id[Line(c)], up[Line(c)], link'[Line(c)])
    BY <1>1, <1>2, <1>3, <1>9 DEF Over
<1>11. ClientOrderly(c)'
    BY <1>1, <1>5, <1>6, <1>8, <1>10 DEF ClientOrderly
<1>12. \A d \in Clients : d # c => link'[Line(d)] = link[Line(d)]
  <2>1. \A d \in Clients : d # c => Line(d) # k /\ Line(d) \in Conns
      BY <1>3, Lines
  <2> HIDE DEF k
  <2> QED BY <1>1, <1>2, <2>1
<1> HIDE DEF k
<1> QED BY <1>1, <1>5, <1>11, <1>12, ClientOrders

\* The client reads a History.
LEMMA ReceiveHistoryOrders ==
    ASSUME ConnectOnce, CInv, OInv, NEW c \in Clients, ReceiveHistory(c)
    PROVE  OInv'
<1> DEFINE k == Current(c)
           old == sess[c]
           d == down[k]
           q == up[k]
           user == id[k]
           n == sent[k]
           open == link[k] = "open"
           m == Head(d)
           r == HandleHistory(old, m.start, m.ops)
           s == r.s
           spent == Spent(c)
           own == Own(c)
<1>1. /\ old.connected /\ d # << >> /\ m.type = "History"
      /\ sess' = [sess EXCEPT ![c] = s]
      /\ Send(k, r.sent)
      /\ UNCHANGED <<ops, id, link, episode, edits>>
    BY DEF ReceiveHistory, Incoming, roomVars, linkVars
<1>2. /\ Mirrors(old, ops) /\ (old.baselined => Pends(old))
      /\ IsSeq(d) /\ IsSeq(q)
      /\ Talks(old, ops, user, q, d, n, open)
    BY <1>1, Touching DEF InTouch
<1>3. Written(ops) /\ LogFresh(ops) /\ ClientOrderly(c)
    BY DEF CInv, LogWritten, OInv
<1>4. /\ ~old.baselined => old.revision <= End(m)
      /\ ~old.everBaselined => old.revision = 0
  <2>1. /\ old.connected /\ ~old.baselined => EndAfter(d, old.revision)
        /\ ~old.everBaselined => old.revision = 0
      BY DEF CInv, IInv, RevisionsInOrder, InStep
  <2>2. m = d[1] /\ 1 \in DOMAIN d
      BY <1>1, <1>2, TailIndex
  <2> QED BY <1>1, <2>1, <2>2 DEF EndAfter, Histories
<1>5. ~old.baselined => old.revision = 0 /\ old.pending = << >>
    BY <1>1, <1>3, <1>4 DEF ClientOrderly, Orderly
<1>6. k = Line(c) /\ k \in Conns /\ episode[c] = 1
    BY <1>1, Lines
<1>7. Mine(c) = Entries(ops, user) /\ Mine(c)' = Mine(c) /\ Spent(c)' = Spent(c)
  <2>1. episode[c] > 0
      BY <1>6
  <2> QED BY <1>1, <1>6, <2>1 DEF Mine, Spent
<1>8. /\ Sides(ops, Entries(ops, user), spent, own)
      /\ Fresh(old, ops, Entries(ops, user), spent)
      /\ Adrift(old, ops, Entries(ops, user), spent)
    BY <1>3, <1>7 DEF ClientOrderly, Orderly
<1>9. open \in BOOLEAN
    OBVIOUS
<1>10. LET x == HandleHistory(old, Head(d).start, Head(d).ops)
       IN  /\ Fresh(x.s, ops, Entries(ops, user), spent)
           /\ Adrift(x.s, ops, Entries(ops, user), spent)
  <2> HIDE DEF old, d, q, user, n, open, k, spent, own
  <2> QED BY <1>1, <1>2, <1>3, <1>4, <1>5, <1>8, <1>9, HistoryFresh
<1>11. /\ Fresh(s, ops, Entries(ops, user), spent)
       /\ Adrift(s, ops, Entries(ops, user), spent)
    BY <1>10
<1>12. s.baselined /\ s.everBaselined /\ s.connected
  <2>1. LET x == HandleHistory(sess[c], Head(down[Current(c)]).start, Head(down[Current(c)]).ops)
        IN  Mirrors(x.s, ops) /\ x.s.baselined
      BY HistoryAdvances
  <2>2. Mirrors(s, ops) /\ s.baselined
      BY <2>1
  <2> HIDE DEF s
  <2> QED BY <2>2 DEF Mirrors, SessionOK
<1>13. DOMAIN sess = Clients /\ DOMAIN up = Conns
    BY DEF CInv, IInv, TypeOK
<1> DEFINE u == r.sent
<1> HIDE DEF s, u
<1>14. sess'[c] = s /\ \A e \in Clients : e # c => sess'[e] = sess[e]
    BY <1>1, <1>13
<1>15. ClientOrderly(c)'
  <2>1. Orderly(s, ops', Mine(c)', Spent(c)', Own(c), episode'[c])
      BY <1>1, <1>6, <1>7, <1>8, <1>11, <1>12 DEF Orderly
  <2> QED BY <1>1, <1>3, <1>12, <1>14, <2>1 DEF ClientOrderly
<1>16. \A e \in Clients : e # c => up'[Line(e)] = up[Line(e)]
  <2>1. IF sess[c].connected THEN Send(Current(c), u) ELSE UNCHANGED up
      BY <1>1 DEF u
  <2> QED BY <2>1, SentAlone
<1> QED BY <1>1, <1>14, <1>15, <1>16, ClientOrders

\* A client that has never had a baseline has added nothing to the log.
LEMMA NothingYet ==
    ASSUME ConnectOnce, CInv, OInv, NEW c \in Clients, ~sess[c].everBaselined
    PROVE  Mine(c) = {} /\ sess[c].pending = << >> /\ sess[c].revision = 0
<1> DEFINE s == sess[c]
           user == id[Line(c)]
<1>1. s.revision = 0 /\ SessionOK(s)
    BY DEF CInv, IInv, TypeOK, RevisionsInOrder, InStep
<1>2. s.pending = << >> /\ ~s.baselined
    BY <1>1 DEF OInv, ClientOrderly, Orderly, SessionOK
<1>3. episode[c] > 0 => NoOwn(ops, 0, user)
  <2>1. CASE s.connected
    <3>1. Reports(ops, id[Current(c)], up[Current(c)], link[Current(c)] = "open", s)
        BY <2>1, Touching DEF InTouch, Talks
    <3>2. Current(c) = Line(c)
        BY <2>1, Lines
    <3> QED BY <1>2, <3>1, <3>2 DEF Reports, Untold
  <2>2. CASE ~s.connected /\ episode[c] > 0
    <3>1. Outstanding(ops, s.revision, user, up[Line(c)], s.pending, FALSE)
        BY <2>2 DEF OInv, ClientOrderly, Over
    <3> QED BY <1>1, <1>2, <3>1 DEF Outstanding
  <2> QED BY <2>1, <2>2
<1>4. NoOwn(ops, 0, user) => Entries(ops, user) = {}
  <2>1. 0 + 1 = 1
      OBVIOUS
  <2> QED BY <2>1 DEF NoOwn, Entries
<1> QED BY <1>1, <1>2, <1>3, <1>4 DEF Mine

\* A user edits.
LEMMA EditLocallyOrders ==
    ASSUME TypedApart, ConnectOnce, CInv, OInv, NEW c \in Clients, EditLocally(c)
    PROVE  OInv'
<1> DEFINE old == sess[c]
           n == edits[c]
           spent == Spent(c)
           own == Own(c)
           mine == Mine(c)
           now == TypedBy(c, n + 1)
<1>1. PICK from \in Boundaries(old.text), to \in Boundaries(old.text),
           insert \in {<< >>, Typed[c][n + 1]} :
          /\ to - from \in Nat
          /\ LET r == ApplyLocalChange(old, ChangeOp(old.text, from, to, insert))
             IN  /\ sess' = [sess EXCEPT ![c] = r.s]
                 /\ IF old.connected THEN Send(Current(c), r.sent) ELSE UNCHANGED up
  <2>1. MaxErased \in Nat /\ \A j : j \in 0..MaxErased => j \in Nat
      BY CollabAssumption
  <2> QED BY <2>1 DEF EditLocally
<1> DEFINE op == ChangeOp(old.text, from, to, insert)
           r == ApplyLocalChange(old, op)
           s == r.s
           u == r.sent
<1>2. /\ sess' = [sess EXCEPT ![c] = s]
      /\ IF old.connected THEN Send(Current(c), u) ELSE UNCHANGED up
      /\ n < MaxEdits[c] /\ edits' = [edits EXCEPT ![c] = @ + 1]
      /\ UNCHANGED <<ops, id, link, episode>>
    BY <1>1 DEF EditLocally, roomVars, linkVars
<1>3. /\ Mirrors(old, ops) /\ (old.baselined => Pends(old))
      /\ SessionOK(old) /\ IsSeq(old.text) /\ ValidUTF8(old.text)
      /\ Written(ops) /\ LogFresh(ops) /\ ClientOrderly(c)
    BY DEF CInv, SessionsMirror, LogWritten, Mirrors, OInv
<1>4. /\ n \in Nat /\ n + 1 <= MaxEdits[c] /\ n + 1 \in 1..MaxEdits[c]
      /\ DOMAIN sess = Clients /\ DOMAIN edits = Clients
  <2>1. /\ edits \in [Clients -> Nat] /\ MaxEdits[c] \in Nat /\ DOMAIN sess = Clients
      BY CollabAssumption DEF CInv, IInv, TypeOK
  <2>2. n \in Nat
      BY <2>1
  <2> HIDE DEF n
  <2>3. n + 1 <= MaxEdits[c] /\ n + 1 \in 1..MaxEdits[c]
      BY <1>2, <2>1, <2>2
  <2> QED BY <2>1, <2>2, <2>3
<1>5. /\ spent = TypedBy(c, n) /\ spent \subseteq own
      /\ now = spent \cup Range(Typed[c][n + 1]) /\ now \subseteq own
      /\ Apart(Range(Typed[c][n + 1]), spent) /\ NoRepeats(Typed[c][n + 1])
    BY <1>4, TypedMore DEF Spent
<1>6. Spent(c)' = now /\ Mine(c)' = mine
    BY <1>2, <1>4 DEF Spent, Mine
<1>7. IsSeq(insert) /\ NoRepeats(insert) /\ Range(insert) \subseteq Range(Typed[c][n + 1])
  <2> DEFINE none == << >>
  <2>1. IsSeq(Typed[c][n + 1])
      BY <1>4, CollabAssumption DEF IsText
  <2>2. IsSeq(none) /\ NoRepeats(none) /\ Range(none) = {}
      BY IsSeqEmpty DEF NoRepeats, Range
  <2> HIDE DEF none
  <2>3. insert = none \/ insert = Typed[c][n + 1]
      BY DEF none
  <2> QED BY <1>5, <2>1, <2>2, <2>3
<1>8. Inserted(op) = insert
  <2> DEFINE L == Len(old.text)
             rest == L - to
             gone == to - from
  <2>1. L \in Nat /\ from \in 0..L /\ to \in 0..L
      BY <1>3, IsSeqLen DEF Boundaries
  <2> HIDE DEF L
  <2>2. from \in Nat /\ to \in Nat /\ L - to \in Nat
      BY <2>1
  <2>3. Len(old.text) - to \in Nat
      BY <2>2 DEF L
  <2> QED BY <1>1, <1>7, <2>2, <2>3, ChangeInserts
<1> HIDE DEF spent, own, mine, now
<1>9. PICK e : Does(op, old.text, e)
  <2>1. Editing(op, old.text, c, n + 1)
      BY <1>1 DEF Editing
  <2> QED BY <1>3, <1>4, <2>1, EditingDoes
<1> HIDE DEF op
<1>10. /\ NoRepeats(Inserted(op)) /\ Brings(op) \subseteq own
       /\ Brings(op) \subseteq now /\ Apart(Brings(op), spent) /\ spent \subseteq now
    BY <1>5, <1>7, <1>8 DEF Brings, Apart
<1>11. /\ Sides(ops, mine, spent, own)
       /\ Fresh(old, ops, mine, spent) /\ Adrift(old, ops, mine, spent)
    BY <1>3 DEF ClientOrderly, Orderly, mine, spent, own
<1>12. ~old.everBaselined => mine = {} /\ old.pending = << >> /\ old.revision = 0
    BY NothingYet DEF mine
<1>13. /\ Edited(old, op, s, ops)
       /\ Fresh(s, ops, mine, spent \cup Brings(op))
       /\ Adrift(s, ops, mine, spent \cup Brings(op))
  <2> HIDE DEF old
  <2>1. /\ Edited(old, op, ApplyLocalChange(old, op).s, ops)
        /\ Fresh(ApplyLocalChange(old, op).s, ops, mine, spent \cup Brings(op))
        /\ Adrift(ApplyLocalChange(old, op).s, ops, mine, spent \cup Brings(op))
      BY <1>3, <1>9, <1>10, <1>11, <1>12, EditFresh
  <2> QED BY <2>1
<1>14. SessionOK(s) /\ s.connected = old.connected
    BY <1>3, ApplyLocalChangeOK
<1> HIDE DEF s, u
<1>15. Fresh(s, ops, mine, now) /\ Adrift(s, ops, mine, now)
  <2> DEFINE part == spent \cup Brings(op)
  <2>1. part \subseteq now
      BY <1>10
  <2> HIDE DEF part
  <2>2. Fresh(s, ops, mine, part) /\ Adrift(s, ops, mine, part)
      BY <1>13 DEF part
  <2> QED BY <2>1, <2>2, AdriftMore
<1>16. Sides(ops, mine, now, own)
    BY <1>5, <1>10, <1>11 DEF Sides
<1>17. /\ s.everBaselined => old.everBaselined \/ s.connected
       /\ ~s.everBaselined => s.pending = << >>
       /\ s.connected /\ s.everBaselined => s.baselined
       /\ ~s.connected => s.revision = old.revision /\ s.pending = old.pending
  <2>1. CASE CanDispatch(old)
    <3>1. s.baselined
        BY <1>13, <2>1 DEF Edited
    <3> QED BY <1>14, <3>1 DEF SessionOK
  <2>2. CASE ~CanDispatch(old)
    <3>1. Shows(old, op, s, ops)
        BY <1>13, <2>2 DEF Edited
    <3> QED BY <1>3, <3>1 DEF Shows, SameLink, ClientOrderly, Orderly
  <2> QED BY <2>1, <2>2
<1>18. sess'[c] = s /\ edits'[c] = n + 1
       /\ \A d \in Clients : d # c => sess'[d] = sess[d] /\ edits'[d] = edits[d]
    BY <1>2, <1>4
<1>19. Orderly(s, ops, mine, now, own, episode[c])
  <2>1. episode[c] = 0 => ~s.connected /\ ~old.everBaselined
    <3>1. s.connected => episode[c] = 1
        BY <1>14, Lines
    <3>2. episode[c] = 0 => ~old.everBaselined
        BY <1>3 DEF ClientOrderly, Orderly
    <3> QED BY <3>1, <3>2
  <2>2. episode[c] = 0 => ~s.everBaselined
      BY <1>17, <2>1
  <2> QED BY <1>15, <1>16, <1>17, <2>2 DEF Orderly
<1>20. ASSUME ~s.connected, episode[c] > 0
       PROVE  Over(s, ops, id[Line(c)], up'[Line(c)], link[Line(c)])
  <2>1. Over(old, ops, id[Line(c)], up[Line(c)], link[Line(c)])
      BY <1>3, <1>14, <1>20 DEF ClientOrderly
  <2>2. up' = up
      BY <1>2, <1>14, <1>20
  <2> QED BY <1>17, <1>20, <2>1, <2>2 DEF Over
<1>21. ClientOrderly(c)'
    BY <1>2, <1>4, <1>6, <1>18, <1>19, <1>20 DEF ClientOrderly, own
<1>22. \A d \in Clients : d # c => up'[Line(d)] = up[Line(d)]
    BY <1>2, SentAlone
<1> QED BY <1>2, <1>18, <1>21, <1>22, ClientOrders

\* At first nobody has typed anything.
LEMMA InitOrders == TypedApart /\ ConnectOnce /\ Init => OInv
<1> SUFFICES ASSUME TypedApart, ConnectOnce, Init PROVE OInv
    OBVIOUS
<1> DEFINE L == Len(ops)
           none == << >>
<1>1. /\ ops = NewRoomOps(Seed)
      /\ \A c \in Clients : sess[c] = NewSession /\ episode[c] = 0 /\ edits[c] = 0
    BY DEF Init
<1>2. Written(ops) /\ (L = 0 \/ L = 1)
    BY <1>1, SeedWritten
<1>3. L = 1 => Inserted(ops[1].op) = Seed
  <2>1. ASSUME L = 1 PROVE Inserted(ops[1].op) = Seed
    <3> DEFINE e == Entry(SystemUserID, Insert(New, Seed))
    <3>1. Seed # << >>
        BY <1>1, <2>1, SeedWritten
    <3>2. ops = <<e>>
        BY <1>1, <3>1 DEF NewRoomOps
    <3> HIDE DEF e
    <3>3. ops[1] = e
        BY <3>2, IsSeqOne
    <3>4. OpOK(New) /\ Inserted(New) = << >> /\ IsSeq(Seed)
        BY OpEmpty, InsertedNothing, CollabAssumption DEF New, IsText
    <3>5. Inserted(Insert(New, Seed)) = Seed
        BY <3>4, InsertedInsert, CatUnit
    <3> QED BY <3>3, <3>5 DEF e, Entry
  <2> QED BY <2>1
<1>4. \A n \in 1..L : L = 1 /\ n = 1
  <2> HIDE DEF L
  <2> QED BY <1>2
<1> HIDE DEF L
<1>5. LogFresh(ops)
    BY <1>3, <1>4 DEF LogFresh, L, TypedApart
<1>6. ASSUME NEW c \in Clients PROVE ClientOrderly(c)
  <2> DEFINE s == sess[c]
             own == Own(c)
  <2>1. /\ s.text = none /\ s.synced = none /\ s.revision = 0 /\ s.pending = none
        /\ ~s.baselined /\ ~s.connected /\ ~s.everBaselined /\ episode[c] = 0
      BY <1>1 DEF NewSession
  <2>2. Mine(c) = {}
    <3>1. ~(episode[c] > 0)
        BY <2>1
    <3> QED BY <3>1 DEF Mine
  <2>3. Spent(c) = {}
    <3>1. \A n : n \notin 1..0
        OBVIOUS
    <3> QED BY <1>1, <3>1 DEF Spent, TypedBy
  <2>4. Sides(ops, {}, {}, own)
    <3>1. Apart(own, Range(Seed))
        BY OwnsApart
    <3>2. \A n \in 1..L : Apart(own, Brings(ops[n].op))
        BY <1>3, <1>4, <3>1 DEF Brings
    <3> QED BY <3>2 DEF Sides, L
  <2>5. DOMAIN none = {} /\ IsSeq(none) /\ Len(none) # 2
      BY IsSeqEmpty
  <2> HIDE DEF none, s
  <2>6. Fresh(s, ops, {}, {})
    <3>1. PendingFresh(none, 0, ops, {}, {})
        BY <2>5 DEF PendingFresh
    <3> QED BY <2>1, <3>1 DEF Fresh
  <2>7. Adrift(s, ops, {}, {})
    <3>1. Confirming(s) = none /\ s.pending = << >>
        BY <2>1 DEF Confirming, none
    <3>2. Evolves(none, none, {})
        BY EvolvesSame
    <3>3. NoRepeats(none)
        BY <2>5 DEF NoRepeats
    <3> QED BY <2>1, <3>1, <3>2, <3>3 DEF Adrift
  <2>8. edits[c] <= MaxEdits[c]
    <3>1. MaxEdits[c] \in Nat
        BY CollabAssumption
    <3> QED BY <1>1, <3>1
  <2>9. Orderly(s, ops, {}, {}, own, episode[c])
      BY <2>1, <2>4, <2>6, <2>7 DEF Orderly, none
  <2>10. ~(episode[c] > 0)
      BY <2>1
  <2> QED BY <2>2, <2>3, <2>8, <2>9, <2>10 DEF ClientOrderly, s
<1> QED BY <1>5, <1>6 DEF OInv

\* A hang-up is a step of the server's.
LEMMA HangupOrders ==
    ASSUME ConnectOnce, CInv, OInv, NEW k \in Conns, Serving(k), NEW code, Hangup(k, code)
    PROVE  OInv'
<1>1. /\ link' = [link EXCEPT ![k] = IF @ = "open" THEN "closing" ELSE "closed"]
      /\ up' = [up EXCEPT ![k] = << >>]
      /\ UNCHANGED <<ops, id, sess, episode, edits>>
    BY DEF Hangup, clientVars
<1>2. DOMAIN link = Conns /\ DOMAIN up = Conns
    BY DEF CInv, IInv, TypeOK
<1>3. link[k] # "closed"
    BY DEF Serving
<1>4. \A j \in Conns : j # k => link'[j] = link[j] /\ up'[j] = up[j]
    BY <1>1, <1>2
<1> QED BY <1>1, <1>3, <1>4, ServerOrders

\* The server takes a caret from a queue, or fills one.
LEMMA SetCursorPushOrders ==
    ASSUME ConnectOnce, CInv, OInv, NEW k \in Conns, SetCursor(k) \/ Push(k)
    PROVE  OInv'
<1>1. DOMAIN up = Conns
    BY DEF CInv, IInv, TypeOK
<1>2. CASE SetCursor(k)
  <2>1. /\ link[k] # "closed" /\ up' = [up EXCEPT ![k] = Tail(@)]
        /\ UNCHANGED <<ops, id, link, sess, episode, edits>>
      BY <1>2 DEF SetCursor, Serving, linkVars, clientVars
  <2>2. \A j \in Conns : j # k => link'[j] = link[j] /\ up'[j] = up[j]
      BY <1>1, <2>1
  <2> QED BY <2>1, <2>2, ServerOrders
<1>3. CASE Push(k)
  <2>1. /\ link[k] # "closed"
        /\ UNCHANGED <<ops, id, link, up, sess, episode, edits>>
      BY <1>3 DEF Push, roomVars, clientVars
  <2> QED BY <2>1, ServerOrders
<1> QED BY <1>2, <1>3

\* Every step keeps the order.
LEMMA NextOrders ==
    TypedApart /\ ConnectOnce /\ CInv /\ OInv /\ [Next]_vars => OInv'
<1> SUFFICES ASSUME TypedApart, ConnectOnce, CInv, OInv, [Next]_vars PROVE OInv'
    OBVIOUS
<1>1. ASSUME NEW k \in Conns, ServerStep(k) PROVE OInv'
  <2>1. CASE Serving(k) /\ \E code : Hangup(k, code)
      BY <2>1, HangupOrders
  <2>2. RejectEdit(k) \/ ThrottleEdit(k) \/ NoticeLoss(k) \/ ServerLoses(k)
          => Serving(k) /\ \E code : Hangup(k, code)
      BY DEF RejectEdit, ThrottleEdit, NoticeLoss, ServerLoses, Serving
  <2>3. AcceptEdit(k) => OInv'
      BY AcceptEditOrders
  <2>4. SetCursor(k) \/ Push(k) => OInv'
      BY SetCursorPushOrders
  <2> QED BY <1>1, <2>1, <2>2, <2>3, <2>4 DEF ServerStep
<1>2. ASSUME NEW c \in Clients, ClientStep(c) PROVE OInv'
  <2>1. ~Lose(c)
    <3>1. sess[c].connected => episode[c] = 1 /\ MaxEpisodes[c] = 1
        BY Lines DEF ConnectOnce
    <3>2. sess[c].connected => ~(episode[c] < MaxEpisodes[c])
        BY <3>1
    <3> QED BY <3>2 DEF Lose
  <2> QED BY <1>2, <2>1, ConnectOrders, ReceiveIdentityOrders, ReceiveHistoryOrders,
             ReceiveCloseOrders, EditLocallyOrders, MoveCaretOrders DEF ClientStep, Receive
<1>3. CASE UNCHANGED vars
  <2>1. UNCHANGED <<ops, id, link, up, sess, episode, edits>>
      BY <1>3 DEF vars, roomVars, linkVars, queueVars, clientVars
  <2>2. ASSUME NEW c \in Clients PROVE ClientOrderly(c)'
    <3>1. Mine(c)' = Mine(c) /\ Spent(c)' = Spent(c) /\ ClientOrderly(c)
        BY <2>1 DEF Mine, Spent, OInv
    <3> QED BY <2>1, <3>1 DEF ClientOrderly
  <2> QED BY <2>1, <2>2 DEF OInv
<1> QED BY <1>1, <1>2, <1>3 DEF Next

\* A text that stands for the log, with bytes of own added.
Replica(log, text, own) ==
    /\ IsSeq(text) /\ NoRepeats(text)
    /\ \E r, V, mine : View(log, r, V, text, own, mine) /\ Ahead(log, r, V, mine)

\* Two such texts agree, whichever has read more of the log.
LEMMA ReplicasAgree ==
    ASSUME NEW log, Written(log), LogFresh(log),
           NEW s, NEW own, Replica(log, s, own),
           NEW t, NEW others, Replica(log, t, others), Apart(own, others),
           NEW a, NEW b, Before(s, a, b)
    PROVE  ~Before(t, b, a)
<1> SUFFICES ASSUME Before(t, b, a) PROVE FALSE
    OBVIOUS
<1>1. PICK r, V, mine : View(log, r, V, s, own, mine) /\ Ahead(log, r, V, mine)
    BY DEF Replica
<1>2. PICK q, U, theirs : View(log, q, U, t, others, theirs) /\ Ahead(log, q, U, theirs)
    BY DEF Replica
<1>3. r \in 0..Len(log) /\ q \in 0..Len(log)
    BY <1>1, <1>2 DEF View
<1>4. CASE r <= q
    BY <1>1, <1>2, <1>4, ViewsAgree
<1>5. CASE q <= r
  <2>1. Apart(others, own)
      BY DEF Apart
  <2> QED BY <1>1, <1>2, <1>5, <2>1, ViewsAgree
<1>6. r <= q \/ q <= r
  <2>1. Len(log) \in Nat
      BY IsSeqLen DEF Written
  <2> QED BY <1>3, <2>1
<1> QED BY <1>4, <1>5, <1>6

\* The room's document is one.
LEMMA DocumentReplica ==
    ASSUME CInv, OInv
    PROVE  Replica(ops, docText, {})
<1> DEFINE n == Len(ops)
           none == {}
<1>1. Written(ops) /\ LogFresh(ops) /\ docText = TextOf(ops, n)
    BY DEF CInv, LogWritten, OInv
<1>2. n \in Nat /\ n \in 0..n
  <2>1. n \in Nat
      BY <1>1, IsSeqLen DEF Written
  <2> HIDE DEF n
  <2> QED BY <2>1
<1>3. IsSeq(docText) /\ NoRepeats(docText)
    BY <1>1, <1>2, TextFresh
<1>4. Evolves(docText, docText, none)
    BY EvolvesSame
<1>5. \A S : Apart(none, S)
    BY DEF Apart
<1>6. View(ops, n, docText, docText, none, none)
  <2>1. \E W, X : /\ Evolves(TextOf(ops, n), docText, W) /\ Evolves(docText, docText, X)
                  /\ W \subseteq none /\ X \subseteq none
                  /\ \A j \in none : /\ Apart(X, Brings(ops[j].op))
                                     /\ j <= n => Apart(W, Brings(ops[j].op))
      BY <1>1, <1>4
  <2> QED BY <1>2, <1>5, <2>1 DEF View
<1>7. Ahead(ops, n, docText, none)
    BY DEF Ahead
<1> HIDE DEF n, none
<1>8. Replica(ops, docText, none)
    BY <1>3, <1>6, <1>7 DEF Replica
<1> QED BY <1>8 DEF none

\* So is what a session shows.
LEMMA SessionReplica ==
    ASSUME ConnectOnce, CInv, OInv, NEW c \in Clients
    PROVE  Replica(ops, sess[c].text, Own(c))
<1> DEFINE s == sess[c]
           user == id[Line(c)]
           q == up[Line(c)]
           mine == Mine(c)
           spent == Spent(c)
           own == Own(c)
<1>1. /\ Written(ops) /\ LogFresh(ops) /\ Mirrors(s, ops)
    BY DEF CInv, LogWritten, SessionsMirror, OInv
<1>2. /\ Sides(ops, mine, spent, own)
      /\ PendingFresh(s.pending, s.revision, ops, mine, spent)
      /\ Adrift(s, ops, mine, spent)
    BY DEF OInv, ClientOrderly, Orderly, Fresh
<1>3. \/ mine = {}
      \/ /\ mine = Entries(ops, user)
         /\ \E open : Outstanding(ops, s.revision, user, q, s.pending, open)
  <2>1. CASE ~s.everBaselined \/ ~(episode[c] > 0)
      BY <2>1, NothingYet DEF Mine
  <2>2. CASE s.everBaselined /\ episode[c] > 0
    <3>1. mine = Entries(ops, user)
        BY <2>2 DEF Mine
    <3>2. CASE s.connected
      <4>1. s.baselined /\ Current(c) = Line(c)
          BY <2>2, <3>2, Lines DEF OInv, ClientOrderly, Orderly
      <4>2. Reports(ops, id[Current(c)], up[Current(c)], link[Current(c)] = "open", s)
          BY <3>2, Touching DEF InTouch, Talks
      <4>3. Outstanding(ops, s.revision, user, q, s.pending, link[Current(c)] = "open")
          BY <4>1, <4>2 DEF Reports
      <4> QED BY <3>1, <4>3
    <3>3. CASE ~s.connected
      <4>1. Outstanding(ops, s.revision, user, q, s.pending, FALSE)
          BY <2>2, <3>3 DEF OInv, ClientOrderly, Over
      <4> QED BY <3>1, <4>1
    <3> QED BY <3>2, <3>3
  <2> QED BY <2>1, <2>2
<1> HIDE DEF s, user, q, mine, spent, own
<1>4. View(ops, s.revision, Confirming(s), s.text, own, mine)
    BY <1>1, <1>2, SessionView
<1>5. Ahead(ops, s.revision, Confirming(s), mine)
  <2>1. CASE mine = {}
      BY <2>1 DEF Ahead
  <2>2. CASE mine # {}
    <3>1. mine = Entries(ops, user)
        BY <1>3, <2>2
    <3>2. PICK open : Outstanding(ops, s.revision, user, q, s.pending, open)
        BY <1>3, <2>2
    <3> QED BY <1>1, <1>2, <3>1, <3>2, SessionAhead
  <2> QED BY <2>1, <2>2
<1>6. IsSeq(s.text) /\ NoRepeats(s.text)
    BY <1>1, <1>2 DEF Mirrors, Adrift
<1>7. Replica(ops, s.text, own)
    BY <1>4, <1>5, <1>6 DEF Replica
<1> QED BY <1>7 DEF s, own

\* All the texts there are agree.
LEMMA TextsAgree == TypedApart /\ ConnectOnce /\ CInv /\ OInv => OrderAgreement
<1> SUFFICES ASSUME TypedApart, ConnectOnce, CInv, OInv PROVE OrderAgreement
    OBVIOUS
<1>1. Written(ops) /\ LogFresh(ops)
    BY DEF CInv, LogWritten, OInv
<1>2. \A S : Apart({}, S) /\ Apart(S, {})
    BY DEF Apart
<1>3. ASSUME NEW s \in Texts, NEW t \in Texts, NEW a, NEW b, Before(s, a, b)
      PROVE  ~Before(t, b, a)
  <2>1. CASE s = t
    <3>1. IsSeq(s) /\ NoRepeats(s)
        BY DocumentReplica, SessionReplica DEF Texts, Replica
    <3> QED BY <1>3, <2>1, <3>1, BeforeOnce
  <2>2. ASSUME s # t
        PROVE  \E own, others : /\ Replica(ops, s, own) /\ Replica(ops, t, others)
                                /\ Apart(own, others)
    <3>1. CASE s = docText
      <4>1. PICK d \in Clients : t = sess[d].text
          BY <2>2, <3>1 DEF Texts
      <4> QED BY <1>2, <3>1, <4>1, DocumentReplica, SessionReplica
    <3>2. CASE t = docText
      <4>1. PICK c \in Clients : s = sess[c].text
          BY <2>2, <3>2 DEF Texts
      <4> QED BY <1>2, <3>2, <4>1, DocumentReplica, SessionReplica
    <3>3. CASE s # docText /\ t # docText
      <4>1. PICK c \in Clients : s = sess[c].text
          BY <3>3 DEF Texts
      <4>2. PICK d \in Clients : t = sess[d].text
          BY <3>3 DEF Texts
      <4>3. c # d
          BY <2>2, <4>1, <4>2
      <4>4. Apart(Own(c), Own(d))
          BY <4>3, OwnsApart
      <4> QED BY <4>1, <4>2, <4>4, SessionReplica
    <3> QED BY <3>1, <3>2, <3>3
  <2>3. CASE s # t
    <3>1. PICK own, others : /\ Replica(ops, s, own) /\ Replica(ops, t, others)
                             /\ Apart(own, others)
        BY <2>2, <2>3
    <3> QED BY <1>1, <1>3, <3>1, ReplicasAgree
  <2> QED BY <2>1, <2>3
<1> QED BY <1>3 DEF OrderAgreement

(***************************************************************************)
(* No two texts ever disagree on the order of two characters both show:    *)
(* what a user sees is never reordered later (session.ts, room.go).  It    *)
(* holds of bytes that can be told apart, each typed once, while no client *)
(* has to compute its delta again on a second connection.                  *)
(***************************************************************************)
THEOREM TextsKeepTheirOrder ==
    ASSUME TypedApart, ConnectOnce
    PROVE  Spec => []OrderAgreement
<1> DEFINE Inv == CInv /\ OInv
<1>1. Init => Inv
    BY InitKeeps, InitOrders
<1>2. Inv /\ [Next]_vars => Inv'
    BY NextKeeps, NextOrders
<1>3. Inv => OrderAgreement
    BY TextsAgree
<1> HIDE DEF Inv
<1> QED BY <1>1, <1>2, <1>3, PTL DEF Spec

(***************************************************************************)
(* Nor does a text show a byte twice that was typed once, so only a second *)
(* connection can bring one in twice (session.ts, establishBaseline, where *)
(* the delta is computed again).                                           *)
(***************************************************************************)
THEOREM TextsRepeatNothing ==
    ASSUME TypedApart, ConnectOnce
    PROVE  Spec => []NoDuplicates
<1> DEFINE Inv == CInv /\ OInv
<1>1. Init => Inv
    BY InitKeeps, InitOrders
<1>2. Inv /\ [Next]_vars => Inv'
    BY NextKeeps, NextOrders
<1>3. Inv => NoDuplicates
  <2> SUFFICES ASSUME CInv, OInv PROVE NoDuplicates
      OBVIOUS
  <2>1. \A s \in Texts : NoRepeats(s)
      BY DocumentReplica, SessionReplica DEF Texts, Replica
  <2> QED BY <2>1 DEF NoDuplicates, NoRepeats
<1> HIDE DEF Inv
<1> QED BY <1>1, <1>2, <1>3, PTL DEF Spec
=============================================================================
