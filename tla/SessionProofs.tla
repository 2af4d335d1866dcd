---------------------------- MODULE SessionProofs ----------------------------
(***************************************************************************)
(* What the session's functions do, in two parts.  To its control state:   *)
(* they keep it well typed, and advance its revision by no more than the   *)
(* history they read.  To its texts: the mirror is the text that the log   *)
(* had at the session's revision, the screen is the mirror with what is    *)
(* pending done to it, and an operation that is sent is one that the room  *)
(* can rebase along its log.                                               *)
(*                                                                         *)
(* Last, replicas of one log: texts that come from its texts by adding     *)
(* bytes of their own agree on the order of what they share.               *)
(***************************************************************************)
EXTENDS Session, OTProofs

---------------------------------------------------------------------------
(* The contracts of the session's functions.                               *)

\* A sequence of edits made at revisions up to n.
EditsUpTo(messages, n) ==
    /\ IsSeq(messages)
    /\ \A i \in DOMAIN messages :
          messages[i].type = "Edit" /\ messages[i].revision \in 0..n

\* From session s, by reading at most k entries of history, to session t
\* having sent the messages.
Advances(s, t, messages, k) ==
    /\ SessionOK(t)
    /\ t.revision \in s.revision..(s.revision + k)
    /\ t.connected = s.connected
    /\ t.baselined = s.baselined
    /\ t.everBaselined = s.everBaselined
    /\ EditsUpTo(messages, t.revision)

\* No edit at all is within any revision.
LEMMA NoEdits == ASSUME NEW n PROVE EditsUpTo(<< >>, n)
BY IsSeqEmpty DEF EditsUpTo

\* A single edit within a revision.
LEMMA OneEdit ==
    ASSUME NEW r \in Nat, NEW op, NEW n \in Nat, r <= n
    PROVE  EditsUpTo(<<Edit(r, op)>>, n)
<1>1. IsSeq(<<Edit(r, op)>>) /\ DOMAIN <<Edit(r, op)>> = 1..1
    BY IsSeqOne, IsSeqLen
<1>2. <<Edit(r, op)>>[1] = [type |-> "Edit", revision |-> r, op |-> op]
    BY DEF Edit
<1> QED BY <1>1, <1>2 DEF EditsUpTo

\* Edits within a revision are within any later one.
LEMMA MoreEdits ==
    ASSUME NEW a, NEW b, NEW m \in Nat, NEW n \in Nat, m <= n,
           EditsUpTo(a, m), EditsUpTo(b, n)
    PROVE  EditsUpTo(a \o b, n)
<1>1. /\ IsSeq(a) /\ Len(a) \in Nat /\ DOMAIN a = 1..Len(a)
      /\ IsSeq(b) /\ Len(b) \in Nat /\ DOMAIN b = 1..Len(b)
    BY IsSeqLen DEF EditsUpTo
<1>2. /\ IsSeq(a \o b)
      /\ Len(a \o b) = Len(a) + Len(b)
      /\ \A i \in 1..Len(a \o b) :
            (a \o b)[i] = IF i <= Len(a) THEN a[i] ELSE b[i - Len(a)]
    BY <1>1, IsSeqConcat
<1>3. DOMAIN (a \o b) = 1..Len(a \o b)
    BY <1>2, IsSeqLen
<1>4. ASSUME NEW i \in DOMAIN (a \o b)
      PROVE  (a \o b)[i].type = "Edit" /\ (a \o b)[i].revision \in 0..n
  <2>1. CASE i <= Len(a)
    <3>1. i \in DOMAIN a /\ (a \o b)[i] = a[i]
        BY <1>1, <1>2, <1>3, <2>1
    <3> QED BY <3>1 DEF EditsUpTo
  <2>2. CASE i > Len(a)
    <3>1. i - Len(a) \in DOMAIN b /\ (a \o b)[i] = b[i - Len(a)]
        BY <1>1, <1>2, <1>3, <2>2
    <3> QED BY <3>1 DEF EditsUpTo
  <2> QED BY <1>1, <1>3, <2>1, <2>2
<1> QED BY <1>2, <1>4 DEF EditsUpTo

\* Updating a well-typed session.
Like(s, t) ==
    /\ SessionOK(t)
    /\ t.connected = s.connected
    /\ t.baselined = s.baselined
    /\ t.everBaselined = s.everBaselined

\* Storing the pending operations (session.ts, #outstanding and #buffer).
LEMMA SetPending ==
    ASSUME NEW s, SessionOK(s), NEW p, IsSeq(p), Len(p) <= 2
    PROVE  LET t == [s EXCEPT !.pending = p]
           IN  Like(s, t) /\ t.revision = s.revision
BY DEF SessionOK, Like

\* Stopping a session keeps its revision.
LEMMA SetFailed ==
    ASSUME NEW s, SessionOK(s), NEW e \in {"ack", "ot"}
    PROVE  LET t == [s EXCEPT !.failed = e]
           IN  Like(s, t) /\ t.revision = s.revision
BY DEF SessionOK, Like

\* What has to be shown of a session step: the session is well formed, its
\* revision has advanced as far as claimed, and what it sends is within it.
LEMMA AdvancesIntro ==
    ASSUME NEW s, SessionOK(s), NEW t, Like(s, t), NEW k \in Nat,
           t.revision \in s.revision..(s.revision + k),
           NEW messages, EditsUpTo(messages, t.revision)
    PROVE  Advances(s, t, messages, k)
BY DEF Like, Advances

\* Zero, one or two operations are pending.
LEMMA PendingCases ==
    ASSUME NEW s, SessionOK(s)
    PROVE  /\ IsSeq(s.pending)
           /\ Len(s.pending) \in 0..2
           /\ s.pending = << >> <=> Len(s.pending) = 0
           /\ s.revision \in Nat
<1>1. IsSeq(s.pending) /\ s.revision \in Nat /\ Len(s.pending) <= 2
    BY DEF SessionOK
<1>2. Len(s.pending) \in Nat
    BY <1>1, IsSeqLen
<1> DEFINE n == Len(s.pending)
<1>3. n \in Nat /\ n <= 2
    BY <1>1, <1>2
<1>4. n \in 0..2
  <2> HIDE DEF n
  <2> QED BY <1>3
<1>5. s.pending = << >> <=> Len(s.pending) = 0
    BY <1>1, <1>4, EmptySeq, LenProperties DEF IsSeq
<1> QED BY <1>1, <1>4, <1>5

\* A local edit is sent or joins the buffer (client.ts, applyClient).
LEMMA ApplyClientOK ==
    ASSUME NEW s, SessionOK(s), NEW op
    PROVE  Advances(s, ApplyClient(s, op).s, ApplyClient(s, op).sent, 0)
<1>1. /\ Len(s.pending) \in 0..2 /\ IsSeq(s.pending) /\ s.revision \in Nat
      /\ s.pending = << >> <=> Len(s.pending) = 0
    BY PendingCases
<1> DEFINE C == Compose(s.pending[2], op)
           p == IF Len(s.pending) = 0 THEN <<op>>
                ELSE IF Len(s.pending) = 1 THEN Append(s.pending, op)
                ELSE [s.pending EXCEPT ![2] = C]
           t == [s EXCEPT !.pending = p]
<1>2. IsSeq(p) /\ Len(p) <= 2
  <2>1. CASE Len(s.pending) = 0
      BY <2>1, IsSeqOne
  <2>2. CASE Len(s.pending) = 1
    <3>1. p = Append(s.pending, op)
        BY <2>2
    <3> HIDE DEF p
    <3>2. IsSeq(Append(s.pending, op)) /\ Len(Append(s.pending, op)) = 1 + 1
        BY <1>1, <2>2, IsSeqAppend
    <3> QED BY <3>1, <3>2
  <2>3. CASE Len(s.pending) = 2
    <3>1. s.pending \in Seq(Range(s.pending) \cup {C})
        BY <1>1, SeqMonotonic DEF IsSeq
    <3>2. p = [s.pending EXCEPT ![2] = C]
        BY <2>3
    <3>3. p \in Seq(Range(s.pending) \cup {C}) /\ Len(p) = 2
        BY <2>3, <3>1, <3>2, ExceptSeq
    <3> HIDE DEF p
    <3> QED BY <3>3, IsSeqIntro
  <2> QED BY <1>1, <2>1, <2>2, <2>3
<1>3. \/ ApplyClient(s, op) = [s |-> t, sent |-> <<Edit(s.revision, op)>>]
      \/ ApplyClient(s, op) = [s |-> t, sent |-> << >>]
      \/ ApplyClient(s, op) = [s |-> [s EXCEPT !.failed = "ot"], sent |-> << >>]
  <2>1. CASE Len(s.pending) = 0
    <3>1. ApplyClient(s, op) = [s    |-> [s EXCEPT !.pending = <<op>>],
                                sent |-> <<Edit(s.revision, op)>>]
        BY <1>1, <2>1 DEF ApplyClient
    <3>2. p = <<op>>
        BY <2>1
    <3> HIDE DEF p
    <3> QED BY <3>1, <3>2
  <2>2. CASE Len(s.pending) = 1
      BY <1>1, <2>2 DEF ApplyClient, Quietly
  <2>3. CASE Len(s.pending) = 2
      BY <1>1, <2>3 DEF ApplyClient, Quietly
  <2> QED BY <1>1, <2>1, <2>2, <2>3
<1>4. Like(s, t) /\ t.revision = s.revision
    BY <1>2, SetPending
<1> HIDE DEF t
<1>5. CASE ApplyClient(s, op) = [s |-> t, sent |-> <<Edit(s.revision, op)>>]
    BY <1>1, <1>4, <1>5, OneEdit, AdvancesIntro
<1>6. CASE ApplyClient(s, op) = [s |-> t, sent |-> << >>]
    BY <1>1, <1>4, <1>6, NoEdits, AdvancesIntro
<1>7. CASE ApplyClient(s, op) = [s |-> [s EXCEPT !.failed = "ot"], sent |-> << >>]
  <2> DEFINE u == [s EXCEPT !.failed = "ot"]
  <2>1. Like(s, u) /\ u.revision = s.revision
      BY SetFailed
  <2>2. ApplyClient(s, op).s = u /\ ApplyClient(s, op).sent = << >>
      BY <1>7
  <2> HIDE DEF u
  <2> QED BY <1>1, <2>1, <2>2, NoEdits, AdvancesIntro
<1> QED BY <1>3, <1>5, <1>6, <1>7

\* Rebasing keeps the number of pending operations.
LEMMA PastPendingOK ==
    ASSUME NEW q, IsSeq(q), Len(q) \in 0..2, q = << >> <=> Len(q) = 0, NEW op
    PROVE  /\ IsSeq(PastPending(q, op).pending)
           /\ Len(PastPending(q, op).pending) <= 2
<1> DEFINE r == PastPending(q, op)
<1>2. CASE Len(q) = 0
  <2>1. r.pending = q
      BY <1>2 DEF PastPending
  <2> QED BY <1>2, <2>1
<1>3. CASE Len(q) = 1
  <2>1. \E x : r.pending = <<x>>
      BY <1>3 DEF PastPending, PastOne
  <2> QED BY <2>1, IsSeqOne
<1>4. CASE Len(q) = 2
  <2>1. PICK x, y : r.pending = <<x, y>>
      BY <1>4 DEF PastPending, PastTwo
  <2>2. <<x, y>> \in Seq({x, y}) /\ Len(<<x, y>>) = 2
      OBVIOUS
  <2>3. IsSeq(<<x, y>>)
      BY <2>2, IsSeqIntro, Zenon
  <2> QED BY <2>1, <2>2, <2>3
<1> QED BY <1>2, <1>3, <1>4

\* A remote operation advances the revision by one (client.ts, applyServer).
LEMMA RemoteOK ==
    ASSUME NEW s, SessionOK(s), NEW op
    PROVE  /\ Like(s, Remote(s, op))
           /\ Remote(s, op).revision \in s.revision..(s.revision + 1)
<1>1. s.revision \in Nat
    BY PendingCases
<1> DEFINE r == PastPending(s.pending, op)
           x == Apply(r.op, s.text)
           y == MoveCarets(s.caret, r.op)
           z == Apply(op, s.synced)
           p == r.pending
           t == [s EXCEPT !.revision = s.revision + 1, !.pending = p,
                          !.text = x, !.caret = y, !.synced = z]
           u == [s EXCEPT !.failed = "ot"]
<1>2. Remote(s, op) = t \/ Remote(s, op) = u
    BY DEF Remote, Folded
<1>3. Like(s, t) /\ t.revision = s.revision + 1
  <2>1. IsSeq(p) /\ Len(p) <= 2
      BY PendingCases, PastPendingOK
  <2>2. s.revision + 1 \in Nat
      BY <1>1
  <2> DEFINE n == s.revision + 1
  <2>3. t = [s EXCEPT !.revision = n, !.pending = p,
                      !.text = x, !.caret = y, !.synced = z]
      OBVIOUS
  <2> HIDE DEF p, x, y, z, t, n
  <2>4. n \in Nat
      BY <2>2 DEF n
  <2>5. Like(s, t) /\ t.revision = n
      BY <2>1, <2>3, <2>4 DEF SessionOK, Like
  <2> QED BY <2>5 DEF n
<1>4. Like(s, u) /\ u.revision = s.revision
    BY SetFailed
<1> HIDE DEF t, u
<1> QED BY <1>1, <1>2, <1>3, <1>4

\* An acknowledgement advances the revision by one and sends the buffer
\* (client.ts, serverAck).
LEMMA AckOK ==
    ASSUME NEW s, SessionOK(s), NEW op
    PROVE  Advances(s, Ack(s, op).s, Ack(s, op).sent, 1)
<1>1. /\ Len(s.pending) \in 0..2 /\ IsSeq(s.pending) /\ s.revision \in Nat
      /\ s.pending = << >> <=> Len(s.pending) = 0
    BY PendingCases
<1> DEFINE a == Ack(s, op)
           p == Tail(s.pending)
           z == Apply(op, s.synced)
           t == [s EXCEPT !.revision = s.revision + 1, !.pending = p, !.synced = z]
           u == [s EXCEPT !.failed = "ack"]
           v == [s EXCEPT !.failed = "ot"]
           e == Edit(s.revision + 1, s.pending[2])
<1>2. CASE s.pending = << >>
  <2>1. a.s = u /\ a.sent = << >>
      BY <1>2 DEF Ack, Quietly
  <2>2. Like(s, u) /\ u.revision = s.revision
      BY SetFailed
  <2> HIDE DEF a, u
  <2>3. Advances(s, u, << >>, 1)
      BY <1>1, <2>2, NoEdits, AdvancesIntro
  <2> QED BY <2>1, <2>3 DEF a
<1>3. CASE s.pending # << >> /\ ~Applies(op, s.synced)
  <2>1. a.s = v /\ a.sent = << >>
      BY <1>3 DEF Ack, Quietly
  <2>2. Like(s, v) /\ v.revision = s.revision
      BY SetFailed
  <2> HIDE DEF a, v
  <2>3. Advances(s, v, << >>, 1)
      BY <1>1, <2>2, NoEdits, AdvancesIntro
  <2> QED BY <2>1, <2>3 DEF a
<1>4. CASE s.pending # << >> /\ Applies(op, s.synced)
  <2>1. a.s = t /\ (a.sent = << >> \/ a.sent = <<e>>)
      BY <1>4 DEF Ack
  <2>2. IsSeq(p) /\ Len(p) <= 2
    <3>1. IsSeq(p) /\ Len(p) = Len(s.pending) - 1
        BY <1>1, <1>4, IsSeqTail
    <3> DEFINE n == Len(s.pending)
    <3>2. n \in 0..2
        BY <1>1
    <3>3. n - 1 <= 2
      <4> HIDE DEF n
      <4> QED BY <3>2
    <3> HIDE DEF p
    <3> QED BY <3>1, <3>3
  <2>3. s.revision + 1 \in Nat
      BY <1>1
  <2>4. Like(s, t) /\ t.revision = s.revision + 1
    <3> DEFINE n == s.revision + 1
    <3>1. t = [s EXCEPT !.revision = n, !.pending = p, !.synced = z] /\ n \in Nat
        BY <2>3
    <3> HIDE DEF p, z, t, n
    <3>3. Like(s, t) /\ t.revision = n
        BY <2>2, <3>1 DEF SessionOK, Like
    <3> QED BY <3>3 DEF n
  <2>5. EditsUpTo(<<e>>, s.revision + 1)
      BY <2>3, OneEdit
  <2> HIDE DEF a, t, e
  <2>6. Advances(s, t, << >>, 1) /\ Advances(s, t, <<e>>, 1)
      BY <1>1, <2>4, <2>5, NoEdits, AdvancesIntro
  <2> QED BY <2>1, <2>6 DEF a
<1> QED BY <1>2, <1>3, <1>4

\* What a method returns: the session, and the messages it sends.
Result(s, r, k) ==
    /\ r = [s |-> r.s, sent |-> r.sent]
    /\ Advances(s, r.s, r.sent, k)

\* What has to be shown of a replayed history.
LEMMA ResultIntro ==
    ASSUME NEW s, NEW t, NEW m, NEW k, Advances(s, t, m, k)
    PROVE  Result(s, [s |-> t, sent |-> m], k)
BY DEF Result

\* One history entry, read by a session that has sent messages before.
LEMMA HistoryEntryOK ==
    ASSUME NEW s, SessionOK(s), NEW k \in Nat, NEW t, NEW m, NEW entry,
           Advances(s, t, m, k)
    PROVE  Result(s, HistoryEntry([s |-> t, sent |-> m], entry), k + 1)
<1> DEFINE st == [s |-> t, sent |-> m]
           a == Ack(t, entry.op)
           b == Remote(t, entry.op)
           e == HistoryEntry(st, entry)
<1>1. /\ SessionOK(t)
      /\ s.revision \in Nat
      /\ t.revision \in s.revision..(s.revision + k)
      /\ t.connected = s.connected
      /\ t.baselined = s.baselined
      /\ t.everBaselined = s.everBaselined
      /\ EditsUpTo(m, t.revision)
    BY PendingCases DEF Advances
<1>2. CASE t.failed # "none"
  <2>1. e = st
      BY <1>2 DEF HistoryEntry
  <2>2. t.revision \in s.revision..(s.revision + (k + 1))
      BY <1>1
  <2>3. Advances(s, t, m, k + 1)
      BY <1>1, <2>2 DEF Advances
  <2> QED BY <2>1, <2>3, ResultIntro
<1>3. CASE t.failed = "none" /\ entry.id = t.selfId
  <2>1. e = [s |-> a.s, sent |-> m \o a.sent]
      BY <1>3 DEF HistoryEntry
  <2>2. Advances(t, a.s, a.sent, 1)
      BY <1>1, AckOK
  <2> HIDE DEF e, a
  <2>3. /\ SessionOK(a.s)
        /\ a.s.revision \in t.revision..(t.revision + 1)
        /\ a.s.connected = t.connected
        /\ a.s.baselined = t.baselined
        /\ a.s.everBaselined = t.everBaselined
        /\ EditsUpTo(a.sent, a.s.revision)
      BY <2>2 DEF Advances
  <2>4. /\ t.revision \in Nat /\ a.s.revision \in Nat
        /\ t.revision <= a.s.revision
        /\ a.s.revision \in s.revision..(s.revision + (k + 1))
      BY <1>1, <2>3
  <2>5. EditsUpTo(m \o a.sent, a.s.revision)
      BY <1>1, <2>3, <2>4, MoreEdits
  <2>6. Advances(s, a.s, m \o a.sent, k + 1)
      BY <1>1, <2>3, <2>4, <2>5 DEF Advances
  <2> QED BY <2>1, <2>6, ResultIntro DEF e
<1>4. CASE t.failed = "none" /\ entry.id # t.selfId
  <2>1. e = [s |-> b, sent |-> m]
      BY <1>4 DEF HistoryEntry
  <2>2. Like(t, b) /\ b.revision \in t.revision..(t.revision + 1)
      BY <1>1, RemoteOK
  <2> HIDE DEF e, b
  <2>3. /\ t.revision \in Nat /\ b.revision \in Nat
        /\ t.revision <= b.revision
        /\ b.revision \in s.revision..(s.revision + (k + 1))
      BY <1>1, <2>2
  <2>4. EditsUpTo(m \o << >>, b.revision)
      BY <1>1, <2>3, MoreEdits, NoEdits
  <2>5. m \o << >> = m
      BY <1>1, ConcatEmptySeq DEF EditsUpTo, IsSeq
  <2>6. Advances(s, b, m, k + 1)
      BY <1>1, <2>2, <2>3, <2>4, <2>5 DEF Advances, Like
  <2> QED BY <2>1, <2>6, ResultIntro DEF e
<1> QED BY <1>2, <1>3, <1>4

\* The loop of handleHistory, as the function its definition describes.
ReplayRun(s, entries, after) ==
    /\ after[0] = Quietly(s)
    /\ \A k \in 1..Len(entries) : after[k] = HistoryEntry(after[k - 1], entries[k])
    /\ Replay(s, entries) = after[Len(entries)]

\* There is such a function.
LEMMA ReplayUnfold ==
    ASSUME NEW s, NEW entries, IsSeq(entries)
    PROVE  \E after : ReplayRun(s, entries, after)
<1> DEFINE N == Len(entries)
           start == Quietly(s)
           Step(t, k) == HistoryEntry(t, entries[k])
           Loop(f, n) == f = [k \in 0..n |-> IF k = 0 THEN start ELSE Step(f[k - 1], k)]
           S == {n \in 0..N : \E f : Loop(f, n)}
           after == CHOOSE f : Loop(f, N)
<1>1. N \in Nat
    BY IsSeqLen
<1>2. Replay(s, entries) = after[N]
    BY DEF Replay
<1> HIDE DEF N, Step, start
<1>3. 0 \in S
  <2>1. Loop([k \in 0..0 |-> start], 0)
      OBVIOUS
  <2> HIDE DEF Loop
  <2> QED BY <1>1, <2>1
<1>4. ASSUME NEW n \in 0..(N - 1), n \in S PROVE n + 1 \in S
  <2>1. PICK f : Loop(f, n)
      BY <1>4
  <2> DEFINE g == [k \in 0..(n + 1) |-> IF k <= n THEN f[k] ELSE Step(f[n], n + 1)]
  <2>2. Loop(g, n + 1)
      BY <1>1, <2>1
  <2> HIDE DEF Loop
  <2> QED BY <1>1, <2>2
<1>5. N \in S
  <2> HIDE DEF S
  <2> QED BY <1>1, <1>3, <1>4, BoundedInduction
<1>6. Loop(after, N)
    BY <1>5
<1> HIDE DEF after
<1>7. after[0] = start /\ \A k \in 1..N : after[k] = Step(after[k - 1], k)
    BY <1>1, <1>6
<1>8. ReplayRun(s, entries, after)
    BY <1>2, <1>7 DEF ReplayRun, N, Step, start
<1> QED BY <1>8

(***************************************************************************)
(* The loop of handleHistory: the recursive function exists, and its value *)
(* at k advances the session by at most k entries.                         *)
(***************************************************************************)
LEMMA ReplayOK ==
    ASSUME NEW s, SessionOK(s), NEW entries, IsSeq(entries)
    PROVE  Result(s, Replay(s, entries), Len(entries))
<1> DEFINE N == Len(entries)
<1>1. N \in Nat /\ s.revision \in Nat
    BY IsSeqLen, PendingCases
<1>2. PICK after : ReplayRun(s, entries, after)
    BY ReplayUnfold
<1>3. after[0] = Quietly(s) /\ \A n \in 1..N : after[n] = HistoryEntry(after[n - 1], entries[n])
    BY <1>2 DEF ReplayRun
<1>4. Replay(s, entries) = after[N]
    BY <1>2 DEF ReplayRun
<1> DEFINE R == {n \in 0..N : Result(s, after[n], n)}
<1> HIDE DEF N
<1>5. 0 \in R
  <2>1. after[0] = [s |-> s, sent |-> << >>]
      BY <1>1, <1>3 DEF Quietly
  <2>2. Advances(s, s, << >>, 0)
      BY <1>1, NoEdits DEF Advances
  <2> QED BY <1>1, <2>1, <2>2, ResultIntro
<1>6. ASSUME NEW n \in 0..(N - 1), n \in R
      PROVE  n + 1 \in R
  <2>1. after[n + 1] = HistoryEntry(after[n], entries[n + 1])
      BY <1>1, <1>3
  <2>2. /\ after[n] = [s |-> after[n].s, sent |-> after[n].sent]
        /\ Advances(s, after[n].s, after[n].sent, n)
      BY <1>6 DEF Result
  <2>3. Result(s, HistoryEntry([s |-> after[n].s, sent |-> after[n].sent],
                               entries[n + 1]), n + 1)
      BY <2>2, HistoryEntryOK
  <2> QED BY <1>1, <2>1, <2>2, <2>3
<1>7. 0..N \subseteq R
  <2> HIDE DEF R
  <2> QED BY <1>1, <1>5, <1>6, BoundedInduction
<1> QED BY <1>1, <1>4, <1>7 DEF N

\* The loop of establishBaseline, as the function its definition describes.
RebuildRun(s, entries, after) ==
    /\ after[0] = s
    /\ \A k \in 1..Len(entries) : after[k] = IF after[k - 1].failed # "none" THEN after[k - 1]
                                              ELSE Remote(after[k - 1], entries[k].op)
    /\ Rebuild(s, entries) = after[Len(entries)]

\* There is such a function.
LEMMA RebuildUnfold ==
    ASSUME NEW s, NEW entries, IsSeq(entries)
    PROVE  \E after : RebuildRun(s, entries, after)
<1> DEFINE N == Len(entries)
           start == s
           Step(t, k) == IF t.failed # "none" THEN t ELSE Remote(t, entries[k].op)
           Loop(f, n) == f = [k \in 0..n |-> IF k = 0 THEN start ELSE Step(f[k - 1], k)]
           S == {n \in 0..N : \E f : Loop(f, n)}
           after == CHOOSE f : Loop(f, N)
<1>1. N \in Nat
    BY IsSeqLen
<1>2. Rebuild(s, entries) = after[N]
    BY DEF Rebuild
<1> HIDE DEF N, Step, start
<1>3. 0 \in S
  <2>1. Loop([k \in 0..0 |-> start], 0)
      OBVIOUS
  <2> HIDE DEF Loop
  <2> QED BY <1>1, <2>1
<1>4. ASSUME NEW n \in 0..(N - 1), n \in S PROVE n + 1 \in S
  <2>1. PICK f : Loop(f, n)
      BY <1>4
  <2> DEFINE g == [k \in 0..(n + 1) |-> IF k <= n THEN f[k] ELSE Step(f[n], n + 1)]
  <2>2. Loop(g, n + 1)
      BY <1>1, <2>1
  <2> HIDE DEF Loop
  <2> QED BY <1>1, <2>2
<1>5. N \in S
  <2> HIDE DEF S
  <2> QED BY <1>1, <1>3, <1>4, BoundedInduction
<1>6. Loop(after, N)
    BY <1>5
<1> HIDE DEF after
<1>7. after[0] = start /\ \A k \in 1..N : after[k] = Step(after[k - 1], k)
    BY <1>1, <1>6
<1>8. RebuildRun(s, entries, after)
    BY <1>2, <1>7 DEF RebuildRun, N, Step, start
<1> QED BY <1>8

(***************************************************************************)
(* The loop of establishBaseline.                                          *)
(***************************************************************************)
LEMMA RebuildOK ==
    ASSUME NEW s, SessionOK(s), NEW entries, IsSeq(entries)
    PROVE  /\ Like(s, Rebuild(s, entries))
           /\ Rebuild(s, entries).revision \in s.revision..(s.revision + Len(entries))
<1> DEFINE N == Len(entries)
           Turn(t, entry) == IF t.failed # "none" THEN t ELSE Remote(t, entry.op)
<1>1. N \in Nat /\ s.revision \in Nat
    BY IsSeqLen, PendingCases
<1>2. PICK after : RebuildRun(s, entries, after)
    BY RebuildUnfold
<1>3. after[0] = s /\ \A n \in 1..N : after[n] = Turn(after[n - 1], entries[n])
    BY <1>2 DEF RebuildRun
<1>4. Rebuild(s, entries) = after[N]
    BY <1>2 DEF RebuildRun
<1> DEFINE R == {n \in 0..N : /\ Like(s, after[n])
                              /\ after[n].revision \in s.revision..(s.revision + n)}
<1> HIDE DEF N
<1>5. 0 \in R
  <2>1. after[0] = s
      BY <1>1, <1>3
  <2>2. Like(s, s) /\ s.revision \in s.revision..(s.revision + 0)
      BY <1>1 DEF Like
  <2> QED BY <1>1, <2>1, <2>2
<1>6. ASSUME NEW n \in 0..(N - 1), n \in R
      PROVE  n + 1 \in R
  <2> DEFINE t == after[n]
             u == after[n + 1]
  <2>1. u = Turn(t, entries[n + 1])
      BY <1>1, <1>3
  <2>2. Like(s, t) /\ t.revision \in s.revision..(s.revision + n)
      BY <1>6
  <2>3. Like(t, u) /\ u.revision \in t.revision..(t.revision + 1)
    <3>1. CASE t.failed # "none"
      <4>1. u = t
          BY <2>1, <3>1
      <4>2. t.revision \in t.revision..(t.revision + 1)
          BY <1>1, <2>2
      <4> HIDE DEF t, u
      <4> QED BY <2>2, <4>1, <4>2 DEF Like
    <3>2. CASE t.failed = "none"
      <4>1. u = Remote(t, entries[n + 1].op)
          BY <2>1, <3>2
      <4> HIDE DEF t, u
      <4> QED BY <2>2, <4>1, RemoteOK DEF Like
    <3> QED BY <3>1, <3>2
  <2>4. Like(s, u)
      BY <2>2, <2>3 DEF Like
  <2> HIDE DEF t, u
  <2>5. u.revision \in s.revision..(s.revision + (n + 1))
      BY <1>1, <2>2, <2>3
  <2> QED BY <1>1, <2>4, <2>5 DEF u
<1>7. 0..N \subseteq R
  <2> HIDE DEF R
  <2> QED BY <1>1, <1>5, <1>6, BoundedInduction
<1> QED BY <1>1, <1>4, <1>7 DEF N

\* A client built for a new connection starts at revision 0 with nothing
\* pending (session.ts, freshClient).
LEMMA FreshClientOK ==
    ASSUME NEW s, SessionOK(s)
    PROVE  Advances(s, FreshClient(s).s, FreshClient(s).sent, 0)
<1> DEFINE d == DiffText(s.synced, s.text)
           f == [s EXCEPT !.pending = << >>]
           r == FreshClient(s)
<1>1. s.revision \in Nat
    BY PendingCases
<1>2. Like(s, f) /\ f.revision = s.revision
    BY IsSeqEmpty, SetPending
<1>3. CASE IsNoop(d)
  <2>1. r.s = f /\ r.sent = << >>
      BY <1>3 DEF FreshClient, Quietly
  <2> HIDE DEF f, r
  <2>2. Advances(s, f, << >>, 0)
      BY <1>1, <1>2, NoEdits, AdvancesIntro
  <2> QED BY <2>1, <2>2 DEF r
<1>4. CASE ~IsNoop(d)
  <2>1. r = ApplyClient(f, d)
      BY <1>4 DEF FreshClient
  <2> HIDE DEF f, r
  <2>2. Advances(f, r.s, r.sent, 0)
      BY <1>2, <2>1, ApplyClientOK DEF Like
  <2>3. Advances(s, r.s, r.sent, 0)
      BY <1>2, <2>2 DEF Advances, Like
  <2> QED BY <2>3 DEF r
<1> QED BY <1>3, <1>4

---------------------------------------------------------------------------
(* The entry points.                                                       *)

\* What a reconnecting session already knows of a history is a count of its
\* entries (session.ts, establishBaseline).
LEMMA KnownOK ==
    ASSUME NEW s, SessionOK(s), NEW start \in Nat, NEW entries, IsSeq(entries)
    PROVE  /\ Known(s, start, entries) \in 0..Len(entries)
           /\ s.revision + (Len(entries) - Known(s, start, entries))
                 <= IF s.revision <= start + Len(entries)
                    THEN start + Len(entries) ELSE s.revision
<1> DEFINE n == Len(entries)
           rev == s.revision
<1>1. n \in Nat /\ rev \in Nat
    BY IsSeqLen, PendingCases
<1>2. Known(s, start, entries) =
        IF (IF rev > start THEN rev - start ELSE 0) < n
        THEN (IF rev > start THEN rev - start ELSE 0) ELSE n
    BY DEF Known
<1> HIDE DEF n, rev
<1> QED BY <1>1, <1>2 DEF n, rev

(***************************************************************************)
(* With its baseline a session has read the history it was given, and      *)
(* nothing beyond what it or the history had reached.                      *)
(***************************************************************************)
Establishes(s, r, end) ==
    /\ SessionOK(r.s)
    /\ r.s.connected /\ r.s.baselined
    /\ r.s.revision >= s.revision
    /\ r.s.revision <= IF s.revision <= end THEN end ELSE s.revision
    /\ EditsUpTo(r.sent, r.s.revision)

\* Setting the baseline from the first history of a connection
\* (session.ts, establishBaseline).
LEMMA EstablishBaselineOK ==
    ASSUME NEW s, SessionOK(s), s.connected,
           NEW start \in Nat, NEW entries, IsSeq(entries)
    PROVE  Establishes(s, EstablishBaseline(s, start, entries), start + Len(entries))
<1> DEFINE fresh == FreshClient(s)
           known == Known(s, start, entries)
           new == SubSeq(entries, known + 1, Len(entries))
           built == Rebuild(fresh.s, new)
           t == [built EXCEPT !.baselined = TRUE, !.everBaselined = TRUE]
           r == EstablishBaseline(s, start, entries)
           end == start + Len(entries)
<1>1. r.s = t /\ r.sent = fresh.sent
    BY DEF EstablishBaseline
<1>2. Len(entries) \in Nat /\ s.revision \in Nat
    BY IsSeqLen, PendingCases
<1>3. /\ known \in 0..Len(entries)
      /\ s.revision + (Len(entries) - known)
            <= IF s.revision <= end THEN end ELSE s.revision
    BY KnownOK
<1>4. IsSeq(new) /\ Len(new) = Len(entries) - known
  <2>1. known + 1 \in Nat \ {0} /\ Len(entries) \in 0..Len(entries)
      BY <1>2, <1>3
  <2>2. /\ IsSeq(new)
        /\ Len(new) = IF known + 1 <= Len(entries)
                      THEN Len(entries) - (known + 1) + 1 ELSE 0
      BY <2>1, IsSeqSubSeq
  <2> HIDE DEF new, known
  <2> QED BY <1>2, <1>3, <2>2
<1>5. Advances(s, fresh.s, fresh.sent, 0)
    BY FreshClientOK
<1> HIDE DEF fresh, known, new
<1>6. Like(fresh.s, built) /\ built.revision \in fresh.s.revision..(fresh.s.revision + Len(new))
    BY <1>4, <1>5, RebuildOK DEF Advances
<1> HIDE DEF built
<1>7. /\ SessionOK(built) /\ built.connected
      /\ fresh.s.revision = s.revision
      /\ built.revision \in s.revision..(s.revision + Len(new))
    BY <1>2, <1>5, <1>6 DEF Advances, Like
<1>8. SessionOK(t) /\ t.connected /\ t.baselined /\ t.revision = built.revision
    BY <1>7 DEF SessionOK
<1>9. EditsUpTo(fresh.sent, built.revision)
    BY <1>2, <1>5, <1>7 DEF Advances, EditsUpTo
<1> HIDE DEF t, r, end
<1> QED BY <1>1, <1>2, <1>3, <1>4, <1>7, <1>8, <1>9 DEF Establishes, r, end

\* A history message (session.ts, the History branch of handleMessage).
LEMMA HandleHistoryOK ==
    ASSUME NEW s, SessionOK(s), s.connected,
           NEW start \in Nat, NEW entries, IsSeq(entries)
    PROVE  /\ ~s.baselined => Establishes(s, HandleHistory(s, start, entries),
                                           start + Len(entries))
           /\ s.baselined => Result(s, HandleHistory(s, start, entries), Len(entries))
BY EstablishBaselineOK, ReplayOK DEF HandleHistory

(***************************************************************************)
(* A local edit leaves the revision where it was.                          *)
(***************************************************************************)
LEMMA ApplyLocalChangeOK ==
    ASSUME NEW s, SessionOK(s), NEW op
    PROVE  LET r == ApplyLocalChange(s, op)
           IN  /\ SessionOK(r.s)
               /\ r.s.revision = s.revision
               /\ r.s.connected = s.connected
               /\ EditsUpTo(r.sent, s.revision)
               /\ s.everBaselined => /\ r.s.everBaselined
                                     /\ r.s.baselined = s.baselined
<1> DEFINE ready == IF CanDispatch(s) /\ ~s.baselined
                    THEN EstablishBaseline(s, 0, << >>) ELSE Quietly(s)
           x == Apply(op, ready.s.text)
           y == MoveCarets(ready.s.caret, op)
           edited == [ready.s EXCEPT !.text = x, !.caret = y]
           d == ApplyClient(edited, op)
           r == ApplyLocalChange(s, op)
<1>1. s.revision \in Nat
    BY PendingCases
<1>2. /\ SessionOK(ready.s)
      /\ ready.s.revision = s.revision
      /\ ready.s.connected = s.connected
      /\ EditsUpTo(ready.sent, s.revision)
      /\ s.everBaselined => /\ ready.s.everBaselined
                            /\ ready.s.baselined = s.baselined
  <2>1. CASE CanDispatch(s) /\ ~s.baselined
    <3>1. s.connected /\ ~s.everBaselined
        BY <2>1 DEF CanDispatch
    <3>2. Establishes(s, EstablishBaseline(s, 0, << >>), 0)
      <4>1. Establishes(s, EstablishBaseline(s, 0, << >>), 0 + Len(<< >>))
          BY <3>1, IsSeqEmpty, EstablishBaselineOK
      <4> QED BY <4>1, IsSeqEmpty
    <3>3. ready = EstablishBaseline(s, 0, << >>)
        BY <2>1
    <3> HIDE DEF ready
    <3>4. /\ SessionOK(ready.s) /\ ready.s.connected
          /\ ready.s.revision >= s.revision
          /\ ready.s.revision <= IF s.revision <= 0 THEN 0 ELSE s.revision
          /\ EditsUpTo(ready.sent, ready.s.revision)
        BY <3>2, <3>3 DEF Establishes
    <3>5. ready.s.revision \in Nat
        BY <3>4, PendingCases
    <3>6. ready.s.revision = s.revision
        BY <1>1, <3>4, <3>5
    <3> QED BY <3>1, <3>4, <3>6 DEF SessionOK
  <2>2. CASE ~(CanDispatch(s) /\ ~s.baselined)
    <3>1. ready.s = s /\ ready.sent = << >>
        BY <2>2 DEF Quietly
    <3> HIDE DEF ready
    <3> QED BY <3>1, NoEdits
  <2> QED BY <2>1, <2>2
<1> HIDE DEF ready
<1>3. Like(ready.s, edited) /\ edited.revision = ready.s.revision
      /\ edited.everBaselined = ready.s.everBaselined
  <2> DEFINE q == ready.s
  <2>1. SessionOK(q) /\ edited = [q EXCEPT !.text = x, !.caret = y]
      BY <1>2
  <2> HIDE DEF q, x, y, edited
  <2>2. Like(q, edited) /\ edited.revision = q.revision
      BY <2>1 DEF SessionOK, Like
  <2> QED BY <2>2 DEF Like, q
<1>4. \/ r.s = d.s /\ r.sent = ready.sent \o d.sent
      \/ r.s = edited /\ r.sent = << >>
    BY DEF ApplyLocalChange, ready, Quietly
<1> HIDE DEF edited
<1>5. Advances(edited, d.s, d.sent, 0)
    BY <1>3, ApplyClientOK DEF Like
<1>6. /\ SessionOK(d.s) /\ d.s.revision = s.revision
      /\ d.s.connected = s.connected
      /\ d.s.baselined = edited.baselined
      /\ d.s.everBaselined = edited.everBaselined
      /\ EditsUpTo(d.sent, s.revision)
    BY <1>1, <1>2, <1>3, <1>5 DEF Advances, Like
<1>7. EditsUpTo(ready.sent \o d.sent, s.revision)
    BY <1>1, <1>2, <1>6, MoreEdits
<1> HIDE DEF d, r
<1>8. CASE r.s = d.s /\ r.sent = ready.sent \o d.sent
    BY <1>2, <1>3, <1>6, <1>7, <1>8 DEF Like, r
<1>9. CASE r.s = edited /\ r.sent = << >>
    BY <1>2, <1>3, <1>9, NoEdits DEF Like, r
<1> QED BY <1>4, <1>8, <1>9

\* A change of connection status keeps a session well formed
\* (session.ts, handleStatus).
LEMMA HandleStatusOK ==
    ASSUME NEW s, SessionOK(s), NEW b \in BOOLEAN
    PROVE  LET t == HandleStatus(s, b)
           IN  /\ SessionOK(t) /\ t.revision = s.revision
               /\ t.connected = b /\ t.baselined = (s.baselined /\ b)
               /\ t.everBaselined = s.everBaselined
BY DEF HandleStatus, SessionOK

\* An Identity message only names the session (session.ts, handleMessage).
LEMMA HandleIdentityOK ==
    ASSUME NEW s, SessionOK(s), NEW user \in Nat
    PROVE  LET t == HandleIdentity(s, user)
           IN  Like(s, t) /\ t.revision = s.revision
BY DEF HandleIdentity, SessionOK, Like

---------------------------------------------------------------------------
(* The log and its texts.                                                  *)

\* The text after the first n entries of a log (room.go, ApplyEdit).
TextOf(log, n) ==
    LET text[k \in 0..n] ==
            IF k = 0 THEN << >> ELSE Apply(log[k].op, text[k - 1])
    IN  text[n]

\* Its recursion, as the function its definition describes.
TextRun(log, n, text) ==
    /\ text[0] = << >>
    /\ \A k \in 1..n : text[k] = Apply(log[k].op, text[k - 1])
    /\ TextOf(log, n) = text[n]

\* There is such a function.
LEMMA TextUnfold ==
    ASSUME NEW log, NEW n \in Nat
    PROVE  \E text : TextRun(log, n, text)
<1> DEFINE start == << >>
           Step(t, k) == Apply(log[k].op, t)
           Loop(f, m) == f = [k \in 0..m |-> IF k = 0 THEN start ELSE Step(f[k - 1], k)]
           S == {m \in 0..n : \E f : Loop(f, m)}
           text == CHOOSE f : Loop(f, n)
<1>2. TextOf(log, n) = text[n]
    BY DEF TextOf
<1> HIDE DEF Step, start
<1>3. 0 \in S
  <2>1. Loop([k \in 0..0 |-> start], 0)
      OBVIOUS
  <2> HIDE DEF Loop
  <2> QED BY <2>1
<1>4. ASSUME NEW m \in 0..(n - 1), m \in S PROVE m + 1 \in S
  <2>1. PICK f : Loop(f, m)
      BY <1>4
  <2> DEFINE g == [k \in 0..(m + 1) |-> IF k <= m THEN f[k] ELSE Step(f[m], m + 1)]
  <2>2. Loop(g, m + 1)
      BY <2>1
  <2> HIDE DEF Loop
  <2> QED BY <2>2
<1>5. n \in S
  <2> HIDE DEF S
  <2> QED BY <1>3, <1>4, BoundedInduction
<1>6. Loop(text, n)
    BY <1>5
<1> HIDE DEF text
<1>7. text[0] = start /\ \A k \in 1..n : text[k] = Step(text[k - 1], k)
    BY <1>6
<1>8. TextRun(log, n, text)
    BY <1>2, <1>7 DEF TextRun, Step, start
<1> QED BY <1>8

\* Two logs, or two traces along one, are the same from m to n.
Alike(a, b, m, n) == \A k \in m..n : a[k] = b[k]

\* Two logs that begin alike have the same texts that far.
LEMMA TextRunsAgree ==
    ASSUME NEW a, NEW b, NEW m \in Nat, NEW n \in Nat, NEW K \in Nat, K <= m, K <= n,
           NEW f, NEW g, TextRun(a, m, f), TextRun(b, n, g), Alike(a, b, 1, K)
    PROVE  f[K] = g[K]
<1> DEFINE S == {k \in 0..K : f[k] = g[k]}
<1>1. 0 \in S
    BY DEF TextRun
<1>2. ASSUME NEW k \in 0..(K - 1), k \in S PROVE k + 1 \in S
  <2> DEFINE j == k + 1
  <2>1. j \in 1..m /\ j \in 1..n /\ j \in 1..K /\ j - 1 = k /\ j \in 0..K
      OBVIOUS
  <2> HIDE DEF j
  <2>2. f[j] = Apply(a[j].op, f[k]) /\ g[j] = Apply(b[j].op, g[k])
      BY <2>1 DEF TextRun
  <2>3. f[j] = g[j]
      BY <1>2, <2>1, <2>2 DEF Alike
  <2> QED BY <2>1, <2>3 DEF j
<1>3. K \in 0..K
    OBVIOUS
<1>4. 0..K \subseteq S
  <2> HIDE DEF S
  <2> QED BY <1>1, <1>2, BoundedInduction
<1> QED BY <1>3, <1>4

\* The text at a revision is a matter of the entries up to it.
LEMMA TextSame ==
    ASSUME NEW a, NEW b, NEW n \in Nat, Alike(a, b, 1, n)
    PROVE  TextOf(a, n) = TextOf(b, n)
<1>1. PICK f : TextRun(a, n, f)
    BY TextUnfold
<1>2. PICK g : TextRun(b, n, g)
    BY TextUnfold
<1>3. n <= n
    OBVIOUS
<1>4. f[n] = g[n]
    BY <1>1, <1>2, <1>3, TextRunsAgree
<1> QED BY <1>1, <1>2, <1>4 DEF TextRun

\* Each entry makes the next text.
LEMMA TextStep ==
    ASSUME NEW log
    PROVE  /\ TextOf(log, 0) = << >>
           /\ \A n \in Nat : TextOf(log, n + 1) = Apply(log[n + 1].op, TextOf(log, n))
<1>1. TextOf(log, 0) = << >>
  <2>1. PICK f : TextRun(log, 0, f)
      BY TextUnfold
  <2> QED BY <2>1 DEF TextRun
<1>2. ASSUME NEW n \in Nat
      PROVE  TextOf(log, n + 1) = Apply(log[n + 1].op, TextOf(log, n))
  <2> DEFINE m == n + 1
  <2>1. m \in Nat /\ n <= m /\ m \in 1..m /\ m - 1 = n
      OBVIOUS
  <2> HIDE DEF m
  <2>2. PICK f : TextRun(log, n, f)
      BY TextUnfold
  <2>3. PICK g : TextRun(log, m, g)
      BY <2>1, TextUnfold
  <2>4. f[n] = g[n]
    <3>1. n <= n /\ n <= m /\ Alike(log, log, 1, n)
        BY <2>1 DEF Alike
    <3> QED BY <2>1, <2>2, <2>3, <3>1, TextRunsAgree
  <2>5. g[m] = Apply(log[m].op, g[n])
      BY <2>1, <2>3 DEF TextRun
  <2> QED BY <2>2, <2>3, <2>4, <2>5 DEF TextRun, m
<1> QED BY <1>1, <1>2

\* A log as the room writes it: each entry applies to the text before it.
Written(log) ==
    /\ IsSeq(log)
    /\ \A n \in 1..Len(log) : Does(log[n].op, TextOf(log, n - 1), TextOf(log, n))

\* What the next entry of a log does.
LEMMA WrittenNext ==
    ASSUME NEW log, Written(log), NEW n \in 0..(Len(log) - 1)
    PROVE  Does(log[n + 1].op, TextOf(log, n), TextOf(log, n + 1))
<1> DEFINE k == n + 1
<1>1. k \in 1..Len(log) /\ k - 1 = n
    BY IsSeqLen DEF Written
<1> HIDE DEF k
<1>2. Does(log[k].op, TextOf(log, k - 1), TextOf(log, k))
    BY <1>1 DEF Written
<1> QED BY <1>1, <1>2 DEF k

\* The texts of a log are texts.
LEMMA WrittenTexts ==
    ASSUME NEW log, Written(log), NEW n \in 0..Len(log)
    PROVE  IsSeq(TextOf(log, n)) /\ ValidUTF8(TextOf(log, n))
<1>1. CASE n = 0
    BY <1>1, TextStep, IsSeqEmpty, ValidNone
<1>2. CASE n # 0
  <2>1. n \in 1..Len(log)
      BY <1>2, IsSeqLen DEF Written
  <2>2. Does(log[n].op, TextOf(log, n - 1), TextOf(log, n))
      BY <2>1 DEF Written
  <2> QED BY <2>2, DoesTarget, DoesTexts
<1> QED BY <1>1, <1>2

\* A log grows by an entry that applies to its last text (room.go, ApplyEdit).
LEMMA WrittenAppend ==
    ASSUME NEW log, Written(log), NEW entry, NEW e,
           Does(entry.op, TextOf(log, Len(log)), e)
    PROVE  /\ Written(Append(log, entry))
           /\ Len(Append(log, entry)) = Len(log) + 1
           /\ \A n \in 1..Len(log) : Append(log, entry)[n] = log[n]
           /\ Append(log, entry)[Len(log) + 1] = entry
           /\ \A n \in 0..Len(log) : TextOf(Append(log, entry), n) = TextOf(log, n)
           /\ TextOf(Append(log, entry), Len(log) + 1) = e
<1> DEFINE L == Len(log)
           more == Append(log, entry)
<1>1. L \in Nat
    BY IsSeqLen DEF Written
<1>2. /\ IsSeq(more) /\ Len(more) = L + 1
      /\ \A n \in 1..(L + 1) : more[n] = IF n <= L THEN log[n] ELSE entry
    BY IsSeqAppend DEF Written
<1> HIDE DEF more
<1>3. /\ \A n \in 1..L : more[n] = log[n]
      /\ more[L + 1] = entry
    BY <1>1, <1>2
<1>4. ASSUME NEW n \in 0..L PROVE TextOf(more, n) = TextOf(log, n)
  <2>1. n \in Nat /\ Alike(more, log, 1, n)
      BY <1>1, <1>3 DEF Alike
  <2> QED BY <2>1, TextSame
<1>5. TextOf(more, L + 1) = e
  <2>1. L \in 0..L
      BY <1>1
  <2>2. TextOf(more, L) = TextOf(log, L)
      BY <1>4, <2>1
  <2>3. TextOf(more, L + 1) = Apply(more[L + 1].op, TextOf(more, L))
      BY <1>1, TextStep
  <2>4. Apply(entry.op, TextOf(log, L)) = e
      BY DEF Does
  <2> QED BY <1>3, <2>2, <2>3, <2>4
<1>6. ASSUME NEW n \in 1..(L + 1)
      PROVE  Does(more[n].op, TextOf(more, n - 1), TextOf(more, n))
  <2>1. CASE n = L + 1
    <3>1. n - 1 = L /\ L \in 0..L
        BY <1>1, <2>1
    <3>2. TextOf(more, n - 1) = TextOf(log, L) /\ TextOf(more, n) = e /\ more[n] = entry
        BY <1>3, <1>4, <1>5, <2>1, <3>1
    <3> QED BY <3>2
  <2>2. CASE n # L + 1
    <3>1. n \in 1..L /\ n - 1 \in 0..L /\ n \in 0..L
        BY <1>1, <2>2
    <3>2. /\ TextOf(more, n - 1) = TextOf(log, n - 1) /\ TextOf(more, n) = TextOf(log, n)
          /\ more[n] = log[n]
        BY <1>3, <1>4, <3>1
    <3> QED BY <3>1, <3>2 DEF Written
  <2> QED BY <2>1, <2>2
<1> QED BY <1>2, <1>3, <1>4, <1>5, <1>6 DEF Written, more

\* The log of a document that starts with a text: one entry, its insertion, or
\* none.
FirstLog(user, text) ==
    IF text = << >> THEN << >> ELSE <<Entry(user, Insert(New, text))>>

\* Its document is the text.
LEMMA FirstLogWritten ==
    ASSUME NEW user, NEW text, IsSeq(text), ValidUTF8(text)
    PROVE  LET log == FirstLog(user, text)
           IN  /\ Written(log) /\ TextOf(log, Len(log)) = text
               /\ Len(log) = IF text = << >> THEN 0 ELSE 1
               /\ \A n \in 1..Len(log) : log[n].id = user
<1> DEFINE none == << >>
           op == Insert(New, text)
           entry == Entry(user, op)
<1>1. IsSeq(none) /\ Len(none) = 0 /\ IsSeq(text)
    BY IsSeqEmpty
<1>2. Written(none) /\ TextOf(none, 0) = none
  <2>1. \A n \in 1..Len(none) : FALSE
      BY <1>1
  <2> HIDE DEF none
  <2>2. Written(none)
      BY <1>1, <2>1 DEF Written
  <2>3. TextOf(none, 0) = none
      BY TextStep DEF none
  <2> QED BY <2>2, <2>3
<1>3. CASE text = << >>
  <2>1. FirstLog(user, text) = none
      BY <1>3 DEF FirstLog
  <2>2. \A n \in 1..0 : FALSE
      OBVIOUS
  <2> HIDE DEF none
  <2> QED BY <1>1, <1>2, <1>3, <2>1, <2>2 DEF none
<1>4. CASE text # << >>
  <2> DEFINE log == <<entry>>
  <2>1. FirstLog(user, text) = log
      BY <1>4 DEF FirstLog
  <2>2. Does(op, none, text)
    <3>1. Does(none, none, none) /\ New = none
        BY DoesEmpty DEF New
    <3> HIDE DEF none
    <3>2. Does(Insert(none, text), none, Cat(none, text))
        BY <1>1, <3>1, DoesInsert
    <3>3. Cat(none, text) = text
        BY <1>1, CatUnit DEF none
    <3> QED BY <3>1, <3>2, <3>3
  <2> HIDE DEF op
  <2>3. entry.op = op /\ entry.id = user
      BY DEF Entry
  <2> HIDE DEF entry
  <2>4. Append(none, entry) = log
    <3>1. Append(none, entry) = none \o <<entry>> /\ none \o <<entry>> = <<entry>>
        BY <1>1, IsSeqAppendOne, IsSeqOne, IsSeqUnit
    <3> QED BY <3>1
  <2> HIDE DEF log, none
  <2>5. Does(entry.op, TextOf(none, Len(none)), text)
      BY <1>1, <1>2, <2>2, <2>3
  <2>6. /\ Written(Append(none, entry))
        /\ Len(Append(none, entry)) = Len(none) + 1
        /\ Append(none, entry)[Len(none) + 1] = entry
        /\ TextOf(Append(none, entry), Len(none) + 1) = text
      BY <1>2, <2>5, WrittenAppend
  <2>7. 0 + 1 = 1 /\ \A n \in 1..1 : n = 1
      OBVIOUS
  <2>8. Written(log) /\ Len(log) = 1 /\ log[1] = entry /\ TextOf(log, 1) = text
      BY <1>1, <2>4, <2>6, <2>7
  <2> QED BY <1>4, <2>1, <2>3, <2>7, <2>8
<1> QED BY <1>3, <1>4

---------------------------------------------------------------------------
(* An operation rebased along the log.                                     *)

\* f is an operation at each revision, rebased past one entry after another.
Trace(log, f, from, to) ==
    \A n \in from..(to - 1) : f[n + 1] = Transform(f[n], log[n + 1].op).a

\* A trace goes on.
LEMMA TraceMore ==
    ASSUME NEW log, NEW f, NEW r \in Nat, NEW n \in Nat, r <= n, Trace(log, f, r, n)
    PROVE  \E g : Alike(g, f, r, n) /\ Trace(log, g, r, n + 1)
<1> DEFINE next == Transform(f[n], log[n + 1].op).a
           g == [k \in r..(n + 1) |-> IF k <= n THEN f[k] ELSE next]
<1>1. /\ \A k \in r..n : k \in r..(n + 1) /\ k <= n
      /\ n + 1 \in r..(n + 1) /\ ~(n + 1 <= n) /\ n \in r..n
      /\ \A k \in r..n : k = n \/ k \in r..(n - 1)
      /\ \A k \in r..(n - 1) : k \in r..n /\ k + 1 \in r..n
      /\ n + 1 - 1 = n
    OBVIOUS
<1>2. Alike(g, f, r, n) /\ g[n + 1] = next
    BY <1>1 DEF Alike
<1> HIDE DEF g
<1>3. ASSUME NEW k \in r..n PROVE g[k + 1] = Transform(g[k], log[k + 1].op).a
  <2>1. CASE k = n
      BY <1>1, <1>2, <2>1 DEF Alike
  <2>2. CASE k \in r..(n - 1)
      BY <1>1, <1>2, <2>2 DEF Trace, Alike
  <2> QED BY <1>1, <2>1, <2>2
<1>4. Trace(log, g, r, n + 1)
    BY <1>1, <1>3 DEF Trace
<1> QED BY <1>2, <1>4

\* Any operation can be traced as far as one likes.
LEMMA TraceExists ==
    ASSUME NEW log, NEW op, NEW r \in Nat, NEW n \in Nat, r <= n
    PROVE  \E f : f[r] = op /\ Trace(log, f, r, n)
<1> DEFINE m == n - r
           S == {k \in 0..m : \E f : f[r] = op /\ Trace(log, f, r, r + k)}
<1>1. m \in Nat /\ r + m = n /\ m \in 0..m
    OBVIOUS
<1> HIDE DEF m
<1>2. 0 \in S
  <2> DEFINE f == [k \in {r} |-> op]
  <2>1. f[r] = op /\ Trace(log, f, r, r + 0)
      BY DEF Trace
  <2> HIDE DEF f
  <2> QED BY <1>1, <2>1
<1>3. ASSUME NEW k \in 0..(m - 1), k \in S PROVE k + 1 \in S
  <2>1. PICK f : f[r] = op /\ Trace(log, f, r, r + k)
      BY <1>3
  <2> DEFINE j == r + k
  <2>2. j \in Nat /\ r <= j /\ r \in r..j /\ j + 1 = r + (k + 1) /\ k + 1 \in 0..m
      BY <1>1
  <2> HIDE DEF j
  <2>3. Trace(log, f, r, j)
      BY <2>1 DEF j
  <2>4. PICK g : Alike(g, f, r, j) /\ Trace(log, g, r, j + 1)
      BY <2>2, <2>3, TraceMore
  <2>5. g[r] = op /\ Trace(log, g, r, r + (k + 1))
      BY <2>1, <2>2, <2>4 DEF Alike
  <2> QED BY <2>2, <2>5
<1>4. 0..m \subseteq S
  <2> HIDE DEF S
  <2> QED BY <1>1, <1>2, <1>3, BoundedInduction
<1>5. \E f : f[r] = op /\ Trace(log, f, r, r + m)
    BY <1>1, <1>4
<1> QED BY <1>1, <1>5

\* An operation that applies to the text at its revision applies, rebased, to
\* every later one (room.go, ApplyEdit), and none of its transforms fails.
LEMMA TraceDoes ==
    ASSUME NEW log, Written(log), NEW f, NEW r \in Nat, NEW n \in Nat, r <= n,
           n <= Len(log), Trace(log, f, r, n),
           NEW e, Does(f[r], TextOf(log, r), e)
    PROVE  /\ \A k \in r..n : \E d : Does(f[k], TextOf(log, k), d)
           /\ \A k \in r..(n - 1) : Transform(f[k], log[k + 1].op).ok
<1> DEFINE Good(k) == \E d : Does(f[k], TextOf(log, k), d)
           m == n - r
           S == {k \in 0..m : Good(r + k)}
<1>1. /\ m \in Nat /\ \A k \in 0..(m - 1) : /\ r + k \in r..(n - 1) /\ r + k \in 0..(Len(log) - 1)
                                            /\ r + (k + 1) = (r + k) + 1 /\ k + 1 \in 0..m
      /\ \A k \in r..n : k - r \in 0..m /\ r + (k - r) = k
      /\ \A k \in r..(n - 1) : k \in r..n /\ k \in 0..(Len(log) - 1)
      /\ r + 0 = r /\ 0 \in 0..m
    BY IsSeqLen DEF Written
<1> HIDE DEF m
<1>2. 0 \in S
    BY <1>1
<1>3. ASSUME NEW k \in 0..(Len(log) - 1), Good(k)
      PROVE  /\ Transform(f[k], log[k + 1].op).ok
             /\ \E d : Does(Transform(f[k], log[k + 1].op).a, TextOf(log, k + 1), d)
  <2>1. PICK d : Does(f[k], TextOf(log, k), d)
      BY <1>3
  <2>2. Does(log[k + 1].op, TextOf(log, k), TextOf(log, k + 1))
      BY WrittenNext
  <2> QED BY <2>1, <2>2, TransformConverges
<1>4. ASSUME NEW k \in 0..(m - 1), k \in S PROVE k + 1 \in S
  <2> DEFINE j == r + k
  <2>1. j \in r..(n - 1) /\ j \in 0..(Len(log) - 1) /\ r + (k + 1) = j + 1 /\ k + 1 \in 0..m
      BY <1>1
  <2>2. Good(j)
      BY <1>4
  <2> HIDE DEF j
  <2>3. \E d : Does(Transform(f[j], log[j + 1].op).a, TextOf(log, j + 1), d)
      BY <1>3, <2>1, <2>2
  <2>4. Good(j + 1)
      BY <2>1, <2>3 DEF Trace
  <2> HIDE DEF Good
  <2> QED BY <2>1, <2>4
<1>5. 0..m \subseteq S
  <2> HIDE DEF S
  <2> QED BY <1>1, <1>2, <1>4, BoundedInduction
<1>6. ASSUME NEW k \in r..n PROVE Good(k)
  <2> HIDE DEF Good
  <2>1. k - r \in S /\ r + (k - r) = k
      BY <1>1, <1>5
  <2> QED BY <2>1
<1>7. \A k \in r..(n - 1) : Transform(f[k], log[k + 1].op).ok
  <2> HIDE DEF Good
  <2> QED BY <1>1, <1>3, <1>6
<1> QED BY <1>6, <1>7

---------------------------------------------------------------------------
(* The text of a session.                                                  *)

\* The carets are inside the text.
CaretIn(caret, text) == \A i \in DOMAIN caret : caret[i] \in 0..Len(text)

\* The text on the screen is the mirror plus the pending operations.
Unconfirmed(p, synced, text) ==
    \/ p = << >> /\ text = synced
    \/ Len(p) = 1 /\ Does(p[1], synced, text)
    \/ Len(p) = 2 /\ \E m : Does(p[1], synced, m) /\ Does(p[2], m, text)

Pends(s) == Unconfirmed(s.pending, s.synced, s.text)

\* Session s has not failed, and its mirror is the log's text at its revision.
Mirrors(s, log) ==
    /\ SessionOK(s)
    /\ s.failed = "none"
    /\ IsSeq(s.text) /\ ValidUTF8(s.text)
    /\ s.revision \in 0..Len(log)
    /\ s.synced = TextOf(log, s.revision)
    /\ CaretIn(s.caret, s.text)

\* What no operation changes.
SameLink(s, t) ==
    /\ t.selfId = s.selfId
    /\ t.connected = s.connected
    /\ t.baselined = s.baselined
    /\ t.everBaselined = s.everBaselined

\* Carets follow an operation into the new text.
LEMMA CaretsMove ==
    ASSUME NEW op, NEW d, NEW e, Does(op, d, e), NEW caret, CaretIn(caret, d)
    PROVE  CaretIn(MoveCarets(caret, op), e)
<1>1. ASSUME NEW i \in DOMAIN caret PROVE TransformIndex(op, caret[i]) \in 0..Len(e)
  <2> DEFINE pos == caret[i]
  <2>1. pos \in 0..Len(d)
      BY DEF CaretIn
  <2> HIDE DEF pos
  <2>2. TransformIndex(op, pos) \in 0..Len(e)
      BY <2>1, CaretStaysInside
  <2> QED BY <2>2 DEF pos
<1> QED BY <1>1 DEF CaretIn, MoveCarets

\* r is operation op, which makes b of the mirror, and the pending operations
\* p on text, rebased past each other.
PastEachOther(r, p, op, b, text) ==
    /\ r.ok
    /\ IsSeq(r.pending) /\ Len(r.pending) = Len(p)
    /\ p # << >> => r.pending[1] = Transform(p[1], op).a
    /\ \E e : Does(r.op, text, e) /\ Unconfirmed(r.pending, b, e)

\* A remote operation and the pending ones meet in the same text (client.ts,
\* applyServer).
LEMMA PastPendingDoes ==
    ASSUME NEW p, IsSeq(p), NEW a, NEW b, NEW text, NEW op,
           Unconfirmed(p, a, text), Does(op, a, b)
    PROVE  PastEachOther(PastPending(p, op), p, op, b, text)
<1> DEFINE r == PastPending(p, op)
<1>1. p = << >> <=> Len(p) = 0
    BY IsSeqNone
<1>2. CASE Len(p) = 0
  <2>1. r.pending = p /\ r.op = op /\ r.ok = TRUE
      BY <1>1, <1>2 DEF PastPending
  <2>2. text = a
      BY <1>2 DEF Unconfirmed
  <2>3. Unconfirmed(p, b, b)
      BY <1>1, <1>2 DEF Unconfirmed
  <2> HIDE DEF r
  <2> QED BY <1>1, <1>2, <2>1, <2>2, <2>3 DEF PastEachOther, r
<1>3. CASE Len(p) = 1
  <2> DEFINE t == Transform(p[1], op)
             x == t.a
             y == t.b
             q == <<x>>
  <2>1. r.pending = q /\ r.op = y /\ r.ok = t.ok
      BY <1>1, <1>3 DEF PastPending, PastOne
  <2>2. Does(p[1], a, text)
      BY <1>1, <1>3 DEF Unconfirmed
  <2>3. t.ok /\ \E e : Does(x, b, e) /\ Does(y, text, e)
      BY <2>2, TransformConverges
  <2> HIDE DEF r, x, y
  <2>4. IsSeq(q) /\ Len(q) = 1 /\ q[1] = x
      BY IsSeqOne
  <2> HIDE DEF t, q
  <2>5. PICK e : Does(y, text, e) /\ Unconfirmed(q, b, e)
      BY <2>3, <2>4 DEF Unconfirmed
  <2>6. r.ok /\ IsSeq(r.pending) /\ Len(r.pending) = Len(p)
      BY <1>3, <2>1, <2>3, <2>4
  <2>7. r.pending[1] = Transform(p[1], op).a
      BY <2>1, <2>4 DEF x, t
  <2>8. \E f : Does(r.op, text, f) /\ Unconfirmed(r.pending, b, f)
      BY <2>1, <2>5
  <2> QED BY <2>6, <2>7, <2>8 DEF PastEachOther, r
<1>4. CASE Len(p) = 2
  <2> DEFINE t == Transform(p[1], op)
             x == t.a
             y == t.b
             u == Transform(p[2], y)
             v == u.a
             w == u.b
             q == <<x, v>>
  <2>1. r.pending = q /\ r.op = w /\ r.ok = (t.ok /\ u.ok)
      BY <1>1, <1>4 DEF PastPending, PastTwo
  <2>2. PICK m : Does(p[1], a, m) /\ Does(p[2], m, text)
      BY <1>1, <1>4 DEF Unconfirmed
  <2>3. t.ok /\ \E d : Does(x, b, d) /\ Does(y, m, d)
      BY <2>2, TransformConverges
  <2> HIDE DEF r, t, x, y
  <2>4. PICK d : Does(x, b, d) /\ Does(y, m, d)
      BY <2>3
  <2>5. u.ok /\ \E e : Does(v, d, e) /\ Does(w, text, e)
      BY <2>2, <2>4, TransformConverges
  <2>6. IsSeq(q) /\ Len(q) = 2 /\ q[1] = x /\ q[2] = v
    <3> HIDE DEF v
    <3>1. q \in Seq({x, v}) /\ Len(q) = 2 /\ q[1] = x /\ q[2] = v
        OBVIOUS
    <3> HIDE DEF q
    <3> QED BY <3>1, IsSeqIntro
  <2> HIDE DEF u, v, w, q
  <2>7. PICK e : Does(w, text, e) /\ Unconfirmed(q, b, e)
      BY <2>4, <2>5, <2>6 DEF Unconfirmed
  <2>8. r.ok /\ IsSeq(r.pending) /\ Len(r.pending) = Len(p)
      BY <1>4, <2>1, <2>3, <2>5, <2>6
  <2>9. r.pending[1] = Transform(p[1], op).a
      BY <2>1, <2>6 DEF x, t
  <2>10. \E f : Does(r.op, text, f) /\ Unconfirmed(r.pending, b, f)
      BY <2>1, <2>7
  <2> QED BY <2>8, <2>9, <2>10 DEF PastEachOther, r
<1> QED BY <1>1, <1>2, <1>3, <1>4 DEF Unconfirmed

\* Session t is s after a remote operation.
FollowsRemote(s, t, log) ==
    /\ Mirrors(t, log) /\ Pends(t) /\ SameLink(s, t)
    /\ t.revision = s.revision + 1
    /\ Len(t.pending) = Len(s.pending)
    /\ s.pending # << >> =>
          t.pending[1] = Transform(s.pending[1], log[s.revision + 1].op).a

\* A session that reads somebody else's operation moves on to the next text of
\* the log with its pending operations on top, and does not fail.
LEMMA RemoteDoes ==
    ASSUME NEW log, Written(log), NEW s, Mirrors(s, log), Pends(s),
           s.revision < Len(log)
    PROVE  FollowsRemote(s, Remote(s, log[s.revision + 1].op), log)
<1> DEFINE v == s.revision
           op == log[v + 1].op
           a == s.synced
           b == TextOf(log, v + 1)
           text == s.text
           r == PastPending(s.pending, op)
<1>1. /\ v \in Nat /\ Len(log) \in Nat /\ v \in 0..(Len(log) - 1) /\ v + 1 \in 0..Len(log)
      /\ v + 1 \in Nat
    BY IsSeqLen DEF Written, Mirrors
<1>2. Does(op, a, b)
    BY <1>1, WrittenNext DEF Mirrors
<1>3. IsSeq(s.pending) /\ SessionOK(s) /\ IsSeq(text) /\ CaretIn(s.caret, text)
    BY DEF Mirrors, SessionOK
<1>4. Unconfirmed(s.pending, a, text)
    BY DEF Pends
<1> HIDE DEF a, b, text, op
<1>5. PastEachOther(r, s.pending, op, b, text)
    BY <1>2, <1>3, <1>4, PastPendingDoes
<1> DEFINE x == r.op
           p == r.pending
<1>6. PICK e : Does(x, text, e) /\ Unconfirmed(p, b, e)
    BY <1>5 DEF PastEachOther
<1> DEFINE y == MoveCarets(s.caret, x)
           n == v + 1
           t == [s EXCEPT !.revision = n, !.pending = p,
                          !.text = e, !.caret = y, !.synced = b]
<1>7. Remote(s, op) = t
  <2>1. Applies(x, text) /\ Apply(x, text) = e
      BY <1>6, DoesApplies
  <2>2. Applies(op, a) /\ Apply(op, a) = b
      BY <1>2, DoesApplies
  <2>3. r.ok
      BY <1>5 DEF PastEachOther
  <2>4. Remote(s, op) = [s EXCEPT !.revision = s.revision + 1,
                                  !.pending  = r.pending,
                                  !.text     = Apply(r.op, s.text),
                                  !.caret    = MoveCarets(s.caret, r.op),
                                  !.synced   = Apply(op, s.synced)]
    <3>1. Remote(s, op) = Folded(s, op, r)
        BY DEF Remote
    <3> HIDE DEF r
    <3> QED BY <2>1, <2>2, <2>3, <3>1 DEF Folded, text, a, x
  <2> HIDE DEF r
  <2> QED BY <2>1, <2>2, <2>4 DEF text, a
<1>8. CaretIn(y, e)
    BY <1>3, <1>6, CaretsMove
<1>9. IsSeq(p) /\ Len(p) = Len(s.pending) /\ Len(p) <= 2
    BY <1>3, <1>5 DEF PastEachOther, SessionOK
<1>10. s.pending # << >> => p[1] = Transform(s.pending[1], op).a
    BY <1>5 DEF PastEachOther
<1> HIDE DEF r, p, x, y, v
<1>11. n \in Nat
    BY <1>1
<1> HIDE DEF n
<1>12. /\ SessionOK(t) /\ SameLink(s, t) /\ t.failed = s.failed
       /\ t.text = e /\ t.revision = n /\ t.synced = b /\ t.caret = y /\ t.pending = p
    BY <1>3, <1>9, <1>11 DEF SessionOK, SameLink
<1> HIDE DEF t
<1>13. IsSeq(e) /\ ValidUTF8(e)
    BY <1>6, DoesTarget, DoesTexts
<1>14. Mirrors(t, log)
  <2>1. n \in 0..Len(log) /\ b = TextOf(log, n)
      BY <1>1 DEF n, b, v
  <2>2. s.failed = "none"
      BY DEF Mirrors
  <2> QED BY <1>8, <1>12, <1>13, <2>1, <2>2 DEF Mirrors
<1>15. Pends(t)
    BY <1>6, <1>12 DEF Pends
<1>16. t.revision = s.revision + 1
    BY <1>12 DEF n, v
<1>17. FollowsRemote(s, t, log)
    BY <1>9, <1>10, <1>12, <1>14, <1>15, <1>16 DEF FollowsRemote, op, v
<1> QED BY <1>7, <1>17 DEF op, v

\* An edit the room can rebase: it applies to the log's text at its revision.
EditOK(log, m) ==
    /\ m.type = "Edit"
    /\ m.revision \in 0..Len(log)
    /\ \E e : Does(m.op, TextOf(log, m.revision), e)

\* r is session s after the acknowledgement of its outstanding operation, and
\* the edit it sends if there is a buffer.
FollowsAck(s, r, log) ==
    /\ Mirrors(r.s, log) /\ Pends(r.s) /\ SameLink(s, r.s)
    /\ r.s.revision = s.revision + 1
    /\ \/ /\ r.s.pending = << >>
          /\ r.sent = << >>
       \/ \E op : /\ Len(r.s.pending) = 1 /\ r.s.pending[1] = op
                  /\ r.sent = <<Edit(s.revision + 1, op)>>
                  /\ EditOK(log, Edit(s.revision + 1, op))

\* A session that reads its own outstanding operation moves on to the next text
\* of the log, keeps its own text, and sends its buffer (client.ts, serverAck).
LEMMA AckDoes ==
    ASSUME NEW log, Written(log), NEW s, Mirrors(s, log), Pends(s),
           s.revision < Len(log), s.pending # << >>,
           s.pending[1] = log[s.revision + 1].op
    PROVE  FollowsAck(s, Ack(s, log[s.revision + 1].op), log)
<1> DEFINE v == s.revision
           n == v + 1
           op == log[n].op
           a == s.synced
           b == TextOf(log, n)
           p == s.pending
           q == Tail(p)
           r == Ack(s, op)
           t == [s EXCEPT !.revision = n, !.pending = q, !.synced = b]
<1>1. /\ v \in Nat /\ Len(log) \in Nat /\ v \in 0..(Len(log) - 1) /\ n \in 0..Len(log)
      /\ n \in Nat
    BY IsSeqLen DEF Written, Mirrors
<1>2. Does(op, a, b)
    BY <1>1, WrittenNext DEF Mirrors
<1>3. /\ IsSeq(p) /\ SessionOK(s) /\ IsSeq(s.text) /\ ValidUTF8(s.text) /\ CaretIn(s.caret, s.text)
      /\ s.failed = "none"
    BY DEF Mirrors, SessionOK
<1>4. Applies(op, a) /\ Apply(op, a) = b
    BY <1>2, DoesApplies
<1>5. /\ r.s = t
      /\ r.sent = IF Len(p) = 2 THEN <<Edit(n, p[2])>> ELSE << >>
    BY <1>4 DEF Ack
<1>6. /\ IsSeq(q) /\ Len(q) = Len(p) - 1
      /\ \A i \in 1..Len(q) : q[i] = p[i + 1]
      /\ Len(p) \in 1..2
    BY <1>3, IsSeqTail, IsSeqNone, PendingCases
<1>12. Len(q) <= 2 /\ (Len(p) = 1 => q = << >>)
  <2> HIDE DEF p, q
  <2> QED BY <1>6, IsSeqNone
<1>7. Unconfirmed(q, b, s.text) /\ (Len(p) = 2 => Does(p[2], b, s.text))
  <2>1. CASE Len(p) = 1
    <3>1. Does(op, a, s.text)
        BY <2>1 DEF Pends, Unconfirmed
    <3>2. s.text = b
        BY <1>2, <3>1 DEF Does
    <3>3. q = << >>
        BY <1>12, <2>1
    <3> QED BY <2>1, <3>2, <3>3 DEF Unconfirmed
  <2>2. CASE Len(p) = 2
    <3>1. PICK m : Does(op, a, m) /\ Does(p[2], m, s.text)
        BY <2>2 DEF Pends, Unconfirmed
    <3>2. m = b
        BY <1>2, <3>1 DEF Does
    <3>3. Len(q) = 1 /\ q[1] = p[2]
        BY <1>6, <2>2
    <3> HIDE DEF q, b
    <3> QED BY <2>2, <3>1, <3>2, <3>3 DEF Unconfirmed
  <2> QED BY <1>6, <2>1, <2>2
<1>8. /\ SessionOK(t) /\ SameLink(s, t) /\ t.failed = s.failed
      /\ t.text = s.text /\ t.revision = n /\ t.synced = b /\ t.caret = s.caret
      /\ t.pending = q
  <2> HIDE DEF q, b, n
  <2> QED BY <1>1, <1>3, <1>6, <1>12 DEF SessionOK, SameLink
<1>9. Mirrors(t, log) /\ Pends(t)
  <2> HIDE DEF t
  <2> QED BY <1>1, <1>3, <1>7, <1>8 DEF Mirrors, Pends
<1>10. CASE Len(p) = 1
  <2>1. q = << >> /\ r.sent = << >>
      BY <1>5, <1>10, <1>12
  <2> HIDE DEF t, q, r, n
  <2> QED BY <1>5, <1>8, <1>9, <2>1 DEF FollowsAck, n, v, r, op
<1>11. CASE Len(p) = 2
  <2> DEFINE o == p[2]
  <2>1. Len(q) = 1 /\ q[1] = o /\ r.sent = <<Edit(n, o)>>
      BY <1>5, <1>6, <1>11
  <2>2. EditOK(log, Edit(n, o))
      BY <1>1, <1>7, <1>11 DEF EditOK, Edit
  <2> HIDE DEF t, q, r, o, n
  <2> QED BY <1>5, <1>8, <1>9, <2>1, <2>2 DEF FollowsAck, n, v, r, op
<1> QED BY <1>6, <1>10, <1>11

\* r is session s with a fresh client: its change since the last confirmed text
\* is pending and sent, if there is any.
StartsAfresh(s, r, log) ==
    /\ Mirrors(r.s, log) /\ Pends(r.s) /\ SameLink(s, r.s)
    /\ r.s.revision = s.revision
    /\ r.s.text = s.text
    /\ \/ /\ r.s.pending = << >>
          /\ r.sent = << >>
       \/ \E op : /\ r.s.pending = <<op>>
                  /\ r.sent = <<Edit(s.revision, op)>>
                  /\ EditOK(log, Edit(s.revision, op))

\* The first part of establishBaseline.
LEMMA FreshClientDoes ==
    ASSUME NEW log, Written(log), NEW s, Mirrors(s, log)
    PROVE  StartsAfresh(s, FreshClient(s), log)
<1> DEFINE d == DiffText(s.synced, s.text)
           none == << >>
           f == [s EXCEPT !.pending = none]
           r == FreshClient(s)
<1>1. Does(d, s.synced, s.text)
  <2>1. /\ IsSeq(s.synced) /\ IsSeq(s.text)
        /\ ValidUTF8(s.synced) /\ ValidUTF8(s.text)
      BY WrittenTexts DEF Mirrors
  <2> QED BY <2>1, DiffTextDoes
<1> HIDE DEF d
<1>2. IsSeq(none) /\ Len(none) = 0
    BY IsSeqEmpty
<1>5. SessionOK(s)
    BY DEF Mirrors
<1>3. CASE IsNoop(d)
  <2>1. r.s = f /\ r.sent = none
      BY <1>3 DEF FreshClient, Quietly, d
  <2> HIDE DEF none
  <2>2. /\ SessionOK(f) /\ SameLink(s, f) /\ f.failed = s.failed
        /\ f.text = s.text /\ f.revision = s.revision /\ f.synced = s.synced
        /\ f.caret = s.caret /\ f.pending = none
      BY <1>2, <1>5 DEF SessionOK, SameLink
  <2> HIDE DEF f, r
  <2>3. s.text = s.synced
      BY <1>1, <1>3, NoopDoes
  <2>4. Mirrors(f, log)
      BY <2>2 DEF Mirrors
  <2>5. Pends(f)
      BY <2>2, <2>3 DEF Pends, Unconfirmed, none
  <2> QED BY <2>1, <2>2, <2>4, <2>5 DEF StartsAfresh, r, none
<1>4. CASE ~IsNoop(d)
  <2> DEFINE p == <<d>>
             t == [s EXCEPT !.pending = p]
             m == <<Edit(s.revision, d)>>
  <2>1. r.s = t /\ r.sent = m
    <3>1. r = ApplyClient(f, d)
        BY <1>4 DEF FreshClient, d
    <3>2. f.pending = << >> /\ f.revision = s.revision /\ [f EXCEPT !.pending = p] = t
        BY <1>5 DEF SessionOK
    <3> HIDE DEF f, t, p
    <3>3. r = [s |-> [f EXCEPT !.pending = <<d>>], sent |-> <<Edit(f.revision, d)>>]
        BY <3>1, <3>2 DEF ApplyClient
    <3> HIDE DEF r
    <3> QED BY <3>2, <3>3 DEF p
  <2>2. IsSeq(p) /\ Len(p) = 1 /\ p[1] = d
      BY IsSeqOne
  <2> HIDE DEF p
  <2>3. /\ SessionOK(t) /\ SameLink(s, t) /\ t.failed = s.failed
        /\ t.text = s.text /\ t.revision = s.revision /\ t.synced = s.synced
        /\ t.caret = s.caret /\ t.pending = p
    <3>1. IsSeq(p) /\ Len(p) <= 2
        BY <2>2
    <3> QED BY <1>5, <3>1 DEF SessionOK, SameLink
  <2> HIDE DEF t, r, f
  <2>4. Mirrors(t, log)
      BY <2>3 DEF Mirrors
  <2>5. Pends(t)
      BY <1>1, <2>2, <2>3 DEF Pends, Unconfirmed
  <2>6. EditOK(log, Edit(s.revision, d))
      BY <1>1 DEF EditOK, Edit, Mirrors
  <2> QED BY <2>1, <2>3, <2>4, <2>5, <2>6 DEF StartsAfresh, r, p
<1> QED BY <1>3, <1>4

\* Entries that follow each other in the log, the first after revision from.
Slice(log, from, entries) ==
    /\ IsSeq(entries)
    /\ from + Len(entries) <= Len(log)
    /\ \A i \in 1..Len(entries) : entries[i] = log[from + i]

\* Session t is s after n remote operations, past which trace f takes its
\* outstanding one.
FollowsRemotes(s, t, n, log, f) ==
    /\ Mirrors(t, log) /\ Pends(t) /\ SameLink(s, t)
    /\ t.revision = s.revision + n
    /\ Len(t.pending) = Len(s.pending)
    /\ s.pending # << >> => t.pending[1] = f[s.revision + n]

\* The second part of establishBaseline: a session reads remote operations one
\* after the other.
LEMMA RebuildDoes ==
    ASSUME NEW log, Written(log), NEW s, Mirrors(s, log), Pends(s),
           NEW entries, Slice(log, s.revision, entries),
           NEW f, Trace(log, f, s.revision, s.revision + Len(entries)),
           s.pending # << >> => s.pending[1] = f[s.revision]
    PROVE  FollowsRemotes(s, Rebuild(s, entries), Len(entries), log, f)
<1> DEFINE N == Len(entries)
           v == s.revision
<1>1. N \in Nat /\ v \in Nat /\ Len(log) \in Nat /\ v + N <= Len(log) /\ IsSeq(s.pending)
    BY IsSeqLen DEF Slice, Mirrors, Written, SessionOK
<1>2. PICK after : RebuildRun(s, entries, after)
    BY RebuildUnfold DEF Slice
<1>3. /\ after[0] = s
      /\ \A n \in 1..N : after[n - 1].failed = "none" =>
             after[n] = Remote(after[n - 1], entries[n].op)
    BY <1>2 DEF RebuildRun
<1>4. Rebuild(s, entries) = after[N]
    BY <1>2 DEF RebuildRun
<1>5. \A n \in 1..N : entries[n] = log[v + n]
    BY DEF Slice
<1>10. \A k \in v..((v + N) - 1) : f[k + 1] = Transform(f[k], log[k + 1].op).a
  <2> DEFINE m == v + N
  <2>1. Trace(log, f, v, m)
      OBVIOUS
  <2> HIDE DEF m
  <2>2. \A k \in v..(m - 1) : f[k + 1] = Transform(f[k], log[k + 1].op).a
      BY <2>1 DEF Trace
  <2> QED BY <2>2 DEF m
<1> DEFINE R == {n \in 0..N : FollowsRemotes(s, after[n], n, log, f)}
<1> HIDE DEF N
<1>6. 0 \in R
  <2>1. v + 0 = v /\ 0 \in 0..N
      BY <1>1
  <2> QED BY <1>3, <2>1 DEF FollowsRemotes, SameLink
<1>7. ASSUME NEW n \in 0..(N - 1), n \in R PROVE n + 1 \in R
  <2> DEFINE t == after[n]
             u == after[n + 1]
             w == t.revision
  <2>1. FollowsRemotes(s, t, n, log, f)
      BY <1>7
  <2>2. /\ n + 1 \in 1..N /\ (n + 1) - 1 = n /\ n + 1 \in 0..N
        /\ v + n \in v..((v + N) - 1) /\ v + n < Len(log) /\ v + (n + 1) = (v + n) + 1
      BY <1>1, SMTT(30)
  <2>3. /\ Mirrors(t, log) /\ Pends(t) /\ w = v + n /\ SameLink(s, t)
        /\ Len(t.pending) = Len(s.pending)
      BY <2>1 DEF FollowsRemotes
  <2>4. u = Remote(t, log[w + 1].op)
    <3>1. t.failed = "none"
        BY <2>3 DEF Mirrors
    <3>2. u = Remote(t, entries[n + 1].op)
        BY <1>3, <2>2, <3>1
    <3>3. entries[n + 1] = log[w + 1]
        BY <1>5, <2>2, <2>3
    <3> QED BY <3>2, <3>3
  <2>5. w < Len(log)
      BY <2>2, <2>3
  <2>6. IsSeq(t.pending)
      BY <2>3 DEF Mirrors, SessionOK
  <2> HIDE DEF t, u
  <2>7. FollowsRemote(t, u, log)
      BY <2>3, <2>4, <2>5, RemoteDoes DEF w
  <2>8. u.revision = v + (n + 1)
      BY <2>2, <2>3, <2>7 DEF FollowsRemote, w
  <2>9. ASSUME s.pending # << >> PROVE u.pending[1] = f[v + (n + 1)]
    <3>1. t.pending # << >>
        BY <1>1, <2>3, <2>6, <2>9, IsSeqNone
    <3>2. t.pending[1] = f[v + n]
        BY <2>1, <2>9 DEF FollowsRemotes
    <3>3. u.pending[1] = Transform(f[v + n], log[(v + n) + 1].op).a
        BY <2>3, <2>7, <3>1, <3>2 DEF FollowsRemote, w
    <3>4. f[(v + n) + 1] = Transform(f[v + n], log[(v + n) + 1].op).a
      <4> DEFINE k == v + n
      <4>1. k \in v..((v + N) - 1)
          BY <2>2
      <4> HIDE DEF k
      <4>2. f[k + 1] = Transform(f[k], log[k + 1].op).a
          BY <1>10, <4>1
      <4> QED BY <4>2 DEF k
    <3> QED BY <2>2, <3>3, <3>4
  <2>10. FollowsRemotes(s, u, n + 1, log, f)
      BY <2>3, <2>7, <2>8, <2>9 DEF FollowsRemotes, FollowsRemote, SameLink
  <2> QED BY <2>2, <2>10 DEF u
<1>8. 0..N \subseteq R
  <2> HIDE DEF R
  <2> QED BY <1>1, <1>6, <1>7, BoundedInduction
<1>9. N \in 0..N
    BY <1>1
<1> QED BY <1>4, <1>8, <1>9 DEF N

\* r is session s with a baseline at revision n of the log, and the edit it
\* has sent if its text differed from the mirror.
Established(s, r, n, log) ==
    /\ Mirrors(r.s, log) /\ Pends(r.s)
    /\ r.s.selfId = s.selfId /\ r.s.connected = s.connected
    /\ r.s.baselined /\ r.s.everBaselined
    /\ r.s.revision = n
    /\ \/ /\ r.s.pending = << >>
          /\ r.sent = << >>
       \/ \E op, f : /\ r.sent = <<Edit(s.revision, op)>>
                     /\ EditOK(log, Edit(s.revision, op))
                     /\ Trace(log, f, s.revision, Len(log)) /\ f[s.revision] = op
                     /\ r.s.pending # << >> /\ r.s.pending[1] = f[n]

\* A session that sets its baseline from the first n entries of the log is at
\* revision n, and its edit is the one the server will rebase to the one it has
\* outstanding (session.ts, establishBaseline).
LEMMA EstablishBaselineDoes ==
    ASSUME NEW log, Written(log), NEW s, Mirrors(s, log),
           s.connected, NEW entries, Slice(log, 0, entries), s.revision <= Len(entries)
    PROVE  Established(s, EstablishBaseline(s, 0, entries), Len(entries), log)
<1> DEFINE n == Len(entries)
           v == s.revision
           L == Len(log)
           fresh == FreshClient(s)
           new == SubSeq(entries, v + 1, n)
           built == Rebuild(fresh.s, new)
           t == [built EXCEPT !.baselined = TRUE, !.everBaselined = TRUE]
           r == EstablishBaseline(s, 0, entries)
<1>1. /\ n \in Nat /\ v \in Nat /\ L \in Nat /\ v <= n /\ n <= L
      /\ \A i \in 1..n : entries[i] = log[i]
  <2>1. \A i \in 1..n : 0 + i = i
      OBVIOUS
  <2> QED BY <2>1, IsSeqLen DEF Slice, Mirrors, SessionOK, Written
<1>2. Known(s, 0, entries) = v
    BY <1>1 DEF Known
<1>3. r.s = t /\ r.sent = fresh.sent
    BY <1>2 DEF EstablishBaseline
<1>4. Slice(log, v, new) /\ Len(new) = n - v
  <2>1. v + 1 \in Nat \ {0} /\ n \in ((v + 1) - 1)..n
      BY <1>1
  <2>2. /\ IsSeq(new) /\ Len(new) = n - (v + 1) + 1
        /\ \A i \in 1..(n - (v + 1) + 1) : new[i] = entries[(v + 1) + i - 1]
      BY <2>1, SegmentOK DEF Slice
  <2>3. n - (v + 1) + 1 = n - v /\ v + (n - v) = n
      BY <1>1
  <2> HIDE DEF new, n, L, v
  <2>4. \A i \in 1..(n - v) : new[i] = entries[v + i] /\ v + i \in 1..n
      BY <1>1, <2>2, <2>3
  <2> QED BY <1>1, <2>2, <2>3, <2>4 DEF Slice, L
<1>5. StartsAfresh(s, fresh, log)
    BY FreshClientDoes
<1> HIDE DEF fresh
<1> DEFINE a == fresh.s
<1>6. /\ Mirrors(a, log) /\ Pends(a) /\ SameLink(s, a) /\ a.revision = v
      /\ \/ a.pending = << >> /\ fresh.sent = << >>
         \/ \E op : /\ a.pending = <<op>>
                    /\ fresh.sent = <<Edit(v, op)>>
                    /\ EditOK(log, Edit(v, op))
    BY <1>5 DEF StartsAfresh
<1> HIDE DEF a, new
<1> DEFINE Finished(f) == /\ Mirrors(built, log) /\ Pends(built) /\ SameLink(a, built)
                          /\ built.revision = n /\ Len(built.pending) = Len(a.pending)
                          /\ a.pending # << >> => built.pending[1] = f[n]
<1>7. ASSUME NEW f, Trace(log, f, v, L), a.pending # << >> => a.pending[1] = f[v]
      PROVE  Finished(f)
  <2>1. v + Len(new) = n
      BY <1>1, <1>4
  <2>2. Trace(log, f, v, n)
    <3>1. \A k \in v..(n - 1) : k \in v..(L - 1)
        BY <1>1
    <3> QED BY <1>7, <3>1 DEF Trace
  <2> HIDE DEF n, v
  <2>3. FollowsRemotes(a, Rebuild(a, new), Len(new), log, f)
      BY <1>4, <1>6, <1>7, <2>1, <2>2, RebuildDoes
  <2> QED BY <1>6, <2>1, <2>3 DEF FollowsRemotes, a
<1> HIDE DEF built
<1>8. ASSUME NEW f, Finished(f)
      PROVE  /\ Mirrors(t, log) /\ Pends(t) /\ t.selfId = s.selfId
             /\ t.connected = s.connected /\ t.baselined /\ t.everBaselined
             /\ t.revision = n /\ t.pending = built.pending
  <2>1. SessionOK(built) /\ built.connected
      BY <1>6, <1>8 DEF Mirrors, SameLink
  <2>2. /\ SessionOK(t) /\ t.selfId = built.selfId /\ t.connected = built.connected
        /\ t.baselined /\ t.everBaselined /\ t.revision = built.revision
        /\ t.pending = built.pending /\ t.failed = built.failed /\ t.text = built.text
        /\ t.synced = built.synced /\ t.caret = built.caret
      BY <2>1 DEF SessionOK
  <2> HIDE DEF t, n
  <2> QED BY <1>6, <1>8, <2>2 DEF Mirrors, Pends, SameLink
<1> HIDE DEF t
<1>9. CASE a.pending = << >> /\ fresh.sent = << >>
  <2>1. PICK f : Trace(log, f, v, L)
    <3>1. v <= L
        BY <1>1
    <3> HIDE DEF v, L
    <3> QED BY <1>1, <3>1, TraceExists
  <2>2. Finished(f)
      BY <1>7, <1>9, <2>1
  <2>3. built.pending = << >>
    <3>1. IsSeq(built.pending) /\ Len(built.pending) = 0
        BY <1>9, <2>2, IsSeqEmpty DEF Mirrors, SessionOK
    <3> QED BY <3>1, IsSeqNone
  <2> HIDE DEF Finished
  <2> QED BY <1>3, <1>8, <1>9, <2>2, <2>3 DEF Established
<1>10. CASE \E op : /\ a.pending = <<op>>
                    /\ fresh.sent = <<Edit(v, op)>>
                    /\ EditOK(log, Edit(v, op))
  <2>1. PICK op : /\ a.pending = <<op>>
                  /\ fresh.sent = <<Edit(v, op)>>
                  /\ EditOK(log, Edit(v, op))
      BY <1>10
  <2>2. PICK f : f[v] = op /\ Trace(log, f, v, L)
    <3>1. v <= L
        BY <1>1
    <3> HIDE DEF v, L
    <3> QED BY <1>1, <3>1, TraceExists
  <2>3. a.pending # << >> /\ a.pending[1] = op /\ Len(a.pending) = 1
      BY <2>1, IsSeqOne, IsSeqEmpty
  <2>4. Finished(f)
      BY <1>7, <2>2, <2>3
  <2>5. built.pending # << >> /\ built.pending[1] = f[n]
      BY <2>3, <2>4, IsSeqEmpty
  <2>6. /\ Mirrors(t, log) /\ Pends(t) /\ t.selfId = s.selfId
        /\ t.connected = s.connected /\ t.baselined /\ t.everBaselined
        /\ t.revision = n /\ t.pending = built.pending
    <3> HIDE DEF Finished
    <3> QED BY <1>8, <2>4
  <2> HIDE DEF Finished
  <2> QED BY <1>3, <2>1, <2>2, <2>5, <2>6 DEF Established
<1> QED BY <1>6, <1>9, <1>10

---------------------------------------------------------------------------
(* Local edits.                                                            *)

\* r is session q, whose screen already shows operation op, with op sent or
\* kept behind the outstanding one.
Dispatched(q, op, r, log) ==
    /\ Mirrors(r.s, log) /\ Pends(r.s) /\ SameLink(q, r.s)
    /\ r.s.revision = q.revision
    /\ r.s.pending # << >>
    /\ \/ /\ q.pending = << >>
          /\ r.s.pending[1] = op
          /\ r.sent = <<Edit(q.revision, op)>>
          /\ EditOK(log, Edit(q.revision, op))
       \/ /\ q.pending # << >>
          /\ r.s.pending[1] = q.pending[1]
          /\ r.sent = << >>

\* Session s with operations p pending.
Pending(s, p) == [s EXCEPT !.pending = p]

\* Operations p can be pending in session s.
MayPend(s, p) == IsSeq(p) /\ Len(p) <= 2 /\ Unconfirmed(p, s.synced, s.text)

\* Session t is s but for what is pending.
Repended(s, p, t, log) ==
    /\ Mirrors(t, log) /\ Pends(t) /\ SameLink(s, t)
    /\ t.revision = s.revision /\ t.pending = p

\* Replacing what is pending, and nothing else.
LEMMA PendingSet ==
    ASSUME NEW log, NEW s, Mirrors(s, log), NEW p, MayPend(s, p)
    PROVE  Repended(s, p, Pending(s, p), log)
<1> DEFINE t == Pending(s, p)
<1>1. SessionOK(s) /\ IsSeq(p) /\ Len(p) <= 2
    BY DEF Mirrors, MayPend
<1>2. /\ SessionOK(t) /\ SameLink(s, t) /\ t.failed = s.failed
      /\ t.text = s.text /\ t.revision = s.revision /\ t.synced = s.synced
      /\ t.caret = s.caret /\ t.pending = p
    BY <1>1 DEF SessionOK, SameLink, Pending
<1> HIDE DEF t
<1>3. Mirrors(t, log) /\ Pends(t)
    BY <1>2 DEF Mirrors, Pends, MayPend
<1> QED BY <1>2, <1>3 DEF t, Repended

\* The screen of session q shows operation op done to text d, and d is the
\* mirror plus the pending operations.
AfterEdit(q, d, op) ==
    /\ Unconfirmed(q.pending, q.synced, d)
    /\ Does(op, d, q.text)

\* A local operation on top of the pending ones is sent, becomes the buffer or
\* is composed with it, and that never fails (client.ts, applyClient).
LEMMA ApplyClientDoes ==
    ASSUME NEW log, Written(log), NEW q, Mirrors(q, log),
           NEW d, NEW op, AfterEdit(q, d, op)
    PROVE  Dispatched(q, op, ApplyClient(q, op), log)
<1> DEFINE p == q.pending
           r == ApplyClient(q, op)
<1>1. /\ IsSeq(p) /\ Len(p) \in 0..2 /\ (p = << >> <=> Len(p) = 0) /\ SessionOK(q)
    BY PendingCases DEF Mirrors
<1>2. CASE Len(p) = 0
  <2> DEFINE n == <<op>>
             t == Pending(q, n)
  <2>1. r.s = t /\ r.sent = <<Edit(q.revision, op)>>
      BY <1>1, <1>2 DEF ApplyClient, Pending
  <2>2. IsSeq(n) /\ Len(n) = 1 /\ n[1] = op
      BY IsSeqOne
  <2>3. d = q.synced
      BY <1>1, <1>2 DEF Unconfirmed, AfterEdit
  <2> HIDE DEF n, r
  <2>4. Len(n) <= 2 /\ n # << >>
      BY <2>2, IsSeqNone
  <2>7. Unconfirmed(n, q.synced, q.text)
      BY <2>2, <2>3 DEF Unconfirmed, AfterEdit
  <2>8. MayPend(q, n)
      BY <2>2, <2>4, <2>7 DEF MayPend
  <2>5. Repended(q, n, t, log)
      BY <2>8, PendingSet
  <2>6. EditOK(log, Edit(q.revision, op))
      BY <2>3 DEF EditOK, Edit, Mirrors, AfterEdit
  <2> HIDE DEF t
  <2> QED BY <1>1, <1>2, <2>1, <2>2, <2>4, <2>5, <2>6 DEF Dispatched, Repended, r
<1>3. CASE Len(p) = 1
  <2> DEFINE n == Append(p, op)
             t == Pending(q, n)
  <2>1. r.s = t /\ r.sent = << >>
      BY <1>1, <1>3 DEF ApplyClient, Quietly, Pending
  <2>2. IsSeq(n) /\ Len(n) = 2 /\ n[1] = p[1] /\ n[2] = op
      BY <1>1, <1>3, IsSeqAppend
  <2>3. Does(p[1], q.synced, d)
      BY <1>1, <1>3 DEF Unconfirmed, AfterEdit
  <2> HIDE DEF n, r
  <2>4. Len(n) <= 2 /\ n # << >>
      BY <2>2, IsSeqNone
  <2>7. Unconfirmed(n, q.synced, q.text)
      BY <2>2, <2>3 DEF Unconfirmed, AfterEdit
  <2>8. MayPend(q, n)
      BY <2>2, <2>4, <2>7 DEF MayPend
  <2>5. Repended(q, n, t, log)
      BY <2>8, PendingSet
  <2> HIDE DEF t
  <2> QED BY <1>1, <1>3, <2>1, <2>2, <2>4, <2>5 DEF Dispatched, Repended, r
<1>4. CASE Len(p) = 2
  <2>1. PICK m : Does(p[1], q.synced, m) /\ Does(p[2], m, d)
      BY <1>1, <1>4 DEF Unconfirmed, AfterEdit
  <2> DEFINE C == Compose(p[2], op)
             n == [p EXCEPT ![2] = C]
             t == Pending(q, n)
  <2>2. Composes(p[2], op) /\ Does(C, m, q.text)
      BY <2>1, ComposeDoesBoth DEF AfterEdit
  <2> HIDE DEF C
  <2>3. IsSeq(n) /\ Len(n) = 2 /\ n[1] = p[1] /\ n[2] = C
    <3>1. p \in Seq(Range(p) \cup {C})
        BY <1>1, SeqMonotonic DEF IsSeq
    <3> HIDE DEF p
    <3>2. n \in Seq(Range(p) \cup {C}) /\ Len(n) = 2
      <4> DEFINE S == Range(p) \cup {C}
      <4>1. p \in Seq(S) /\ C \in S /\ 2 \in 1..Len(p)
          BY <1>4, <3>1
      <4> HIDE DEF S
      <4> QED BY <1>4, <4>1, ExceptSeq DEF S
    <3>3. DOMAIN p = 1..2
        BY <1>1, <1>4, IsSeqLen
    <3>4. n[1] = p[1] /\ n[2] = C
        BY <3>3
    <3> HIDE DEF n
    <3> QED BY <3>2, <3>4, IsSeqIntro
  <2>4. r.s = t /\ r.sent = << >>
      BY <1>1, <1>4, <2>2 DEF ApplyClient, Quietly, Pending, C
  <2> HIDE DEF n, r
  <2>5. Len(n) <= 2 /\ n # << >>
      BY <2>3, IsSeqNone
  <2>7. Unconfirmed(n, q.synced, q.text)
      BY <2>1, <2>2, <2>3 DEF Unconfirmed, AfterEdit
  <2>8. MayPend(q, n)
      BY <2>3, <2>5, <2>7 DEF MayPend
  <2>6. Repended(q, n, t, log)
      BY <2>8, PendingSet
  <2> HIDE DEF t
  <2> QED BY <1>1, <1>4, <2>3, <2>4, <2>5, <2>6 DEF Dispatched, Repended, r
<1> QED BY <1>1, <1>2, <1>3, <1>4

\* Session s once its user has made edit op.
Shown(s, op) == [s EXCEPT !.text = Apply(op, @), !.caret = MoveCarets(@, op)]

\* Session t is s but for what is on the screen, which op has changed.
Shows(s, op, t, log) ==
    /\ Mirrors(t, log) /\ SameLink(s, t)
    /\ t.revision = s.revision /\ t.pending = s.pending
    /\ t.synced = s.synced
    /\ Does(op, s.text, t.text)

\* A user's edit changes the text, and moves the caret along.
LEMMA ShownDoes ==
    ASSUME NEW log, NEW s, Mirrors(s, log), NEW op, NEW e, Does(op, s.text, e)
    PROVE  Shows(s, op, Shown(s, op), log)
<1> DEFINE y == MoveCarets(s.caret, op)
           t == [s EXCEPT !.text = e, !.caret = y]
<1>1. SessionOK(s) /\ CaretIn(s.caret, s.text)
    BY DEF Mirrors
<1>2. Shown(s, op) = t
    BY DEF Shown, Does
<1>3. CaretIn(y, e)
    BY <1>1, CaretsMove
<1> HIDE DEF y
<1>4. /\ SessionOK(t) /\ SameLink(s, t) /\ t.failed = s.failed
      /\ t.text = e /\ t.revision = s.revision /\ t.synced = s.synced
      /\ t.caret = y /\ t.pending = s.pending
    BY <1>1 DEF SessionOK, SameLink
<1> HIDE DEF t
<1>5. IsSeq(e) /\ ValidUTF8(e)
    BY DoesTarget, DoesTexts
<1>6. Mirrors(t, log)
    BY <1>3, <1>4, <1>5 DEF Mirrors
<1>7. Shows(s, op, t, log)
    BY <1>4, <1>6 DEF Shows
<1> QED BY <1>2, <1>7

\* Session s with a baseline.
Based(s) == [s EXCEPT !.baselined = TRUE, !.everBaselined = TRUE]

\* A baseline changes nothing else.
LEMMA BasedDoes ==
    ASSUME NEW log, NEW s, Mirrors(s, log), Pends(s), s.connected
    PROVE  /\ Mirrors(Based(s), log) /\ Pends(Based(s))
           /\ Based(s).baselined /\ Based(s).connected
           /\ Based(s).selfId = s.selfId /\ Based(s).revision = s.revision
           /\ Based(s).pending = s.pending /\ Based(s).text = s.text
<1> DEFINE t == Based(s)
<1>1. SessionOK(s)
    BY DEF Mirrors
<1>2. /\ SessionOK(t) /\ t.failed = s.failed /\ t.baselined /\ t.connected
      /\ t.text = s.text /\ t.revision = s.revision /\ t.synced = s.synced
      /\ t.caret = s.caret /\ t.pending = s.pending /\ t.selfId = s.selfId
    BY <1>1 DEF SessionOK, Based
<1> HIDE DEF t
<1>3. Mirrors(t, log) /\ Pends(t)
    BY <1>2 DEF Mirrors, Pends
<1> QED BY <1>2, <1>3 DEF t

\* On its first connection a session sets its baseline without any history
\* (session.ts, canDispatch).
LEMMA FirstBaseline ==
    ASSUME NEW s
    PROVE  EstablishBaseline(s, 0, << >>)
              = [s |-> Based(FreshClient(s).s), sent |-> FreshClient(s).sent]
<1> DEFINE none == << >>
           new == SubSeq(none, Known(s, 0, none) + 1, Len(none))
           f == FreshClient(s)
<1>1. IsSeq(none) /\ Len(none) = 0
    BY IsSeqEmpty
<1>2. new = none
    BY <1>1
<1>3. Rebuild(f.s, none) = f.s
  <2>1. PICK after : RebuildRun(f.s, none, after)
      BY <1>1, RebuildUnfold
  <2> HIDE DEF f, none
  <2> QED BY <1>1, <2>1 DEF RebuildRun
<1>4. EstablishBaseline(s, 0, none) = [s |-> Based(Rebuild(f.s, new)), sent |-> f.sent]
    BY DEF EstablishBaseline, Based
<1> QED BY <1>2, <1>3, <1>4

\* r is session s after its user made edit op: without a baseline only the
\* screen has changed; with one, the session has either sent the operation it
\* now has outstanding, or sends nothing because it had one before.
AppliedLocally(s, r, log) ==
    /\ Mirrors(r.s, log)
    /\ r.s.selfId = s.selfId /\ r.s.connected = s.connected
    /\ r.s.revision = s.revision
    /\ \/ /\ ~s.baselined /\ ~r.s.baselined
          /\ r.sent = << >>
       \/ /\ s.baselined /\ s.pending # << >>
          /\ r.s.baselined /\ Pends(r.s)
          /\ r.s.pending # << >> /\ r.s.pending[1] = s.pending[1]
          /\ r.sent = << >>
       \/ /\ s.baselined => s.pending = << >>
          /\ r.s.baselined /\ Pends(r.s)
          /\ \E op : /\ r.s.pending # << >> /\ r.s.pending[1] = op
                     /\ r.sent = <<Edit(s.revision, op)>>
                     /\ EditOK(log, Edit(s.revision, op))

\* A user's edit, whatever the state of the connection (session.ts,
\* applyLocalChange).
LEMMA ApplyLocalChangeDoes ==
    ASSUME NEW log, Written(log), NEW s, Mirrors(s, log),
           s.baselined => Pends(s), ~s.everBaselined => s.revision = 0,
           NEW op, NEW e, Does(op, s.text, e)
    PROVE  AppliedLocally(s, ApplyLocalChange(s, op), log)
<1> DEFINE ready == IF CanDispatch(s) /\ ~s.baselined
                    THEN EstablishBaseline(s, 0, << >>) ELSE Quietly(s)
           b == ready.s
           q == Shown(b, op)
           d == ApplyClient(q, op)
           r == ApplyLocalChange(s, op)
<1>1. r = IF CanDispatch(s) THEN [s |-> d.s, sent |-> ready.sent \o d.sent] ELSE Quietly(q)
    BY DEF ApplyLocalChange, Shown
<1>2. SessionOK(s)
    BY DEF Mirrors
<1>3. CASE ~CanDispatch(s)
  <2>1. ready = Quietly(s) /\ b = s
      BY <1>3 DEF Quietly
  <2> HIDE DEF ready
  <2>2. ~s.baselined
      BY <1>2, <1>3 DEF CanDispatch, SessionOK
  <2>3. Shows(s, op, q, log)
      BY <2>1, ShownDoes
  <2>4. r.s = q /\ r.sent = << >>
      BY <1>1, <1>3 DEF Quietly
  <2> HIDE DEF r, q
  <2> QED BY <2>2, <2>3, <2>4 DEF AppliedLocally, Shows, SameLink, r
<1>4. ASSUME CanDispatch(s), Mirrors(b, log), Pends(b), b.text = s.text
      PROVE  Dispatched(q, op, d, log) /\ Shows(b, op, q, log)
  <2>1. Does(op, b.text, e)
      BY <1>4
  <2> HIDE DEF b
  <2>2. Shows(b, op, q, log)
      BY <1>4, <2>1, ShownDoes
  <2> HIDE DEF q
  <2>3. Mirrors(q, log) /\ AfterEdit(q, b.text, op)
      BY <1>4, <2>2 DEF Shows, AfterEdit, Pends
  <2> QED BY <2>2, <2>3, ApplyClientDoes
<1>5. ASSUME CanDispatch(s) PROVE r.s = d.s /\ r.sent = ready.sent \o d.sent
  <2> DEFINE x == d.s
             y == ready.sent \o d.sent
  <2> HIDE DEF r, q, ready, d
  <2>1. r = [s |-> x, sent |-> y]
      BY <1>1, <1>5
  <2> HIDE DEF x, y
  <2>2. r.s = x /\ r.sent = y
      BY <2>1
  <2> QED BY <2>2 DEF x, y
<1>6. Dispatched(q, op, d, log) => IsSeq(d.sent)
  <2> HIDE DEF d, q
  <2> QED BY IsSeqEmpty, IsSeqOne DEF Dispatched
<1>7. CASE CanDispatch(s) /\ s.baselined
  <2>1. ready = Quietly(s) /\ b = s /\ ready.sent = << >>
      BY <1>7 DEF Quietly
  <2> HIDE DEF ready, d, q
  <2>2. Dispatched(q, op, d, log) /\ Shows(s, op, q, log)
      BY <1>4, <1>7, <2>1
  <2>3. r.s = d.s /\ r.sent = d.sent
      BY <1>5, <1>6, <1>7, <2>1, <2>2, IsSeqUnit
  <2> HIDE DEF r
  <2> QED BY <1>7, <2>2, <2>3 DEF AppliedLocally, Dispatched, Shows, SameLink, r
<1>8. CASE CanDispatch(s) /\ ~s.baselined
  <2> DEFINE f == FreshClient(s)
             a == f.s
  <2>1. b = Based(a) /\ ready.sent = f.sent
      BY <1>8, FirstBaseline
  <2>2. StartsAfresh(s, f, log) /\ s.connected /\ s.revision = 0
      BY <1>8, FreshClientDoes DEF CanDispatch
  <2> HIDE DEF ready, d, q, f, b, r
  <2>3. /\ Mirrors(a, log) /\ Pends(a) /\ a.connected /\ a.selfId = s.selfId
        /\ a.revision = s.revision /\ a.text = s.text
        /\ \/ /\ a.pending = << >>
              /\ f.sent = << >>
           \/ \E o : /\ a.pending = <<o>>
                     /\ f.sent = <<Edit(s.revision, o)>>
                     /\ EditOK(log, Edit(s.revision, o))
      BY <2>2 DEF StartsAfresh, SameLink
  <2> HIDE DEF a
  <2>4. /\ Mirrors(b, log) /\ Pends(b)
        /\ b.baselined /\ b.connected
        /\ b.selfId = s.selfId /\ b.revision = s.revision
        /\ b.pending = a.pending /\ b.text = s.text
      BY <2>1, <2>3, BasedDoes
  <2>5. Dispatched(q, op, d, log) /\ Shows(b, op, q, log)
      BY <1>4, <1>8, <2>4
  <2>6. r.s = d.s /\ r.sent = f.sent \o d.sent
      BY <1>5, <1>8, <2>1
  <2>7. /\ Mirrors(r.s, log) /\ Pends(r.s) /\ r.s.baselined
        /\ r.s.selfId = s.selfId /\ r.s.connected = s.connected
        /\ r.s.revision = s.revision
      BY <2>2, <2>4, <2>5, <2>6 DEF Dispatched, Shows, SameLink
  <2>8. \E o : /\ r.s.pending # << >> /\ r.s.pending[1] = o
               /\ r.sent = <<Edit(s.revision, o)>>
               /\ EditOK(log, Edit(s.revision, o))
    <3>1. CASE a.pending = << >> /\ f.sent = << >>
      <4>1. q.pending = << >> /\ q.revision = s.revision
          BY <2>4, <2>5, <3>1 DEF Shows
      <4>2. r.sent = d.sent
          BY <1>6, <2>5, <2>6, <3>1, IsSeqUnit
      <4> QED BY <2>5, <2>6, <4>1, <4>2 DEF Dispatched
    <3>2. ASSUME NEW o, a.pending = <<o>>, f.sent = <<Edit(s.revision, o)>>,
                 EditOK(log, Edit(s.revision, o))
          PROVE  /\ r.s.pending # << >> /\ r.s.pending[1] = o
                 /\ r.sent = <<Edit(s.revision, o)>>
      <4>1. q.pending # << >> /\ q.pending[1] = o
        <5>1. q.pending = <<o>>
            BY <2>4, <2>5, <3>2 DEF Shows
        <5> QED BY <5>1
      <4>2. r.s.pending # << >> /\ r.s.pending[1] = o /\ d.sent = << >>
          BY <2>5, <2>6, <4>1 DEF Dispatched
      <4>3. IsSeq(f.sent)
          BY <3>2, IsSeqOne
      <4>4. r.sent = f.sent
          BY <2>6, <4>2, <4>3, IsSeqUnit
      <4> QED BY <3>2, <4>2, <4>4
    <3> QED BY <2>3, <3>1, <3>2
  <2> QED BY <1>8, <2>7, <2>8 DEF AppliedLocally, r
<1> QED BY <1>3, <1>7, <1>8

---------------------------------------------------------------------------
(* The texts of the log.                                                   *)

\* The bytes that came in between revisions m and n.
Brought(log, m, n) == UNION {Brings(log[k].op) : k \in (m + 1)..n}

\* No byte comes in twice.
LogFresh(log) ==
    /\ \A n \in 1..Len(log) : NoRepeats(Inserted(log[n].op))
    /\ \A m, n \in 1..Len(log) : m # n => Apart(Brings(log[m].op), Brings(log[n].op))

\* One revision more.
LEMMA BroughtMore ==
    ASSUME NEW log, NEW m \in Nat, NEW n \in Nat, m <= n
    PROVE  /\ Brought(log, m, n + 1) = Brought(log, m, n) \cup Brings(log[n + 1].op)
           /\ Brought(log, m, m) = {}
<1>1. \A k : k \in (m + 1)..(n + 1) <=> k \in (m + 1)..n \/ k = n + 1
    OBVIOUS
<1>2. \A k : k \notin (m + 1)..m
    OBVIOUS
<1> QED BY <1>1, <1>2 DEF Brought

\* Between different revisions different bytes come in.
LEMMA BroughtApart ==
    ASSUME NEW log, LogFresh(log), NEW m \in Nat, NEW n \in Nat, NEW k \in 1..Len(log),
           n <= Len(log), k \notin (m + 1)..n
    PROVE  Apart(Brought(log, m, n), Brings(log[k].op))
<1> DEFINE L == Len(log)
<1>1. \A j \in (m + 1)..n : j \in 1..L /\ j # k
  <2> HIDE DEF L
  <2> QED BY DEF L
<1> QED BY <1>1 DEF Brought, LogFresh, Apart

\* The text at a revision repeats nothing, and shows what came in until then.
LEMMA TextFresh ==
    ASSUME NEW log, Written(log), LogFresh(log), NEW n \in 0..Len(log)
    PROVE  /\ IsSeq(TextOf(log, n)) /\ NoRepeats(TextOf(log, n))
           /\ Range(TextOf(log, n)) \subseteq Brought(log, 0, n)
<1> DEFINE L == Len(log)
           Good(k) == /\ NoRepeats(TextOf(log, k))
                      /\ Range(TextOf(log, k)) \subseteq Brought(log, 0, k)
           S == {k \in 0..L : Good(k)}
<1>1. L \in Nat
    BY IsSeqLen DEF Written
<1>2. Good(0)
    BY TextStep DEF NoRepeats, Range
<1>3. ASSUME NEW k \in 0..(L - 1), Good(k) PROVE Good(k + 1)
  <2> DEFINE op == log[k + 1].op
             d == TextOf(log, k)
             e == TextOf(log, k + 1)
  <2>1. Does(op, d, e)
      BY <1>1, WrittenNext
  <2>2. k \in Nat /\ 0 <= k /\ k <= L /\ k + 1 \in 1..L /\ k + 1 \notin (0 + 1)..k
      BY <1>1
  <2>3. Apart(Brought(log, 0, k), Brings(op))
      BY <2>2, BroughtApart
  <2>4. NoRepeats(Inserted(op))
      BY <2>2 DEF LogFresh
  <2>5. Brought(log, 0, k + 1) = Brought(log, 0, k) \cup Brings(op)
      BY <2>2, BroughtMore
  <2>6. NoRepeats(d) /\ Range(d) \subseteq Brought(log, 0, k)
      BY <1>3
  <2> HIDE DEF op, d, e
  <2>7. Apart(Range(d), Brings(op))
      BY <2>3, <2>6 DEF Apart
  <2>8. NoRepeats(e) /\ Range(e) \subseteq Range(d) \cup Brings(op)
      BY <2>1, <2>4, <2>6, <2>7, DoesEvolves DEF Evolves
  <2> QED BY <2>5, <2>6, <2>8 DEF e
<1> HIDE DEF Good
<1>4. 0 \in S /\ \A k \in 0..(L - 1) : k \in S => k + 1 \in S
    BY <1>1, <1>2, <1>3
<1>5. 0..L \subseteq S
  <2> HIDE DEF S, L
  <2> QED BY <1>1, <1>4, BoundedInduction
<1> QED BY <1>5, WrittenTexts DEF Good

\* Later texts come from earlier ones.
LEMMA TextEvolves ==
    ASSUME NEW log, Written(log), LogFresh(log), NEW r \in Nat, NEW n \in Nat, r <= n,
           n <= Len(log)
    PROVE  Evolves(TextOf(log, r), TextOf(log, n), Brought(log, r, n))
<1> DEFINE m == n - r
           L == Len(log)
           u == TextOf(log, r)
           Good(k) == Evolves(u, TextOf(log, k), Brought(log, r, k))
           S == {k \in 0..m : Good(r + k)}
<1>1. m \in Nat /\ L \in Nat /\ n <= L /\ r \in 0..L
    BY IsSeqLen DEF Written
<1>2. Good(r)
    BY EvolvesSame
<1>3. Range(u) \subseteq Brought(log, 0, r)
    BY <1>1, TextFresh
<1>4. ASSUME NEW k \in r..(n - 1), Good(k) PROVE Good(k + 1)
  <2> DEFINE op == log[k + 1].op
             d == TextOf(log, k)
             e == TextOf(log, k + 1)
  <2>0. /\ k \in Nat /\ r <= k /\ k \in 0..(L - 1) /\ k \in 0..L /\ k <= L /\ k + 1 \in 1..L
        /\ k + 1 \notin (0 + 1)..k /\ k + 1 \notin (0 + 1)..r /\ r <= L
      BY <1>1
  <2>1. Does(op, d, e)
      BY <2>0, WrittenNext
  <2>2. Range(d) \subseteq Brought(log, 0, k)
      BY <2>0, TextFresh
  <2>3. Apart(Brought(log, 0, k), Brings(op)) /\ Apart(Brought(log, 0, r), Brings(op))
      BY <2>0, BroughtApart
  <2>4. Brought(log, r, k + 1) = Brought(log, r, k) \cup Brings(op)
      BY <2>0, BroughtMore
  <2>5. Evolves(u, d, Brought(log, r, k))
      BY <1>4
  <2> HIDE DEF op, d, e, u
  <2>6. Apart(Range(d), Brings(op)) /\ Apart(Brings(op), Range(u))
      BY <1>3, <2>2, <2>3 DEF Apart
  <2>7. Evolves(d, e, Brings(op))
      BY <2>1, <2>6, DoesEvolves
  <2>8. Evolves(u, e, Brought(log, r, k) \cup Brings(op))
      BY <2>5, <2>6, <2>7, EvolvesOn
  <2> QED BY <2>4, <2>8 DEF e, u
<1> HIDE DEF Good
<1>5. 0 \in S /\ \A k \in 0..(m - 1) : k \in S => k + 1 \in S
  <2>1. \A k \in 0..(m - 1) : r + k \in r..(n - 1) /\ r + (k + 1) = (r + k) + 1 /\ k + 1 \in 0..m
      BY <1>1
  <2>2. r + 0 = r /\ 0 \in 0..m
      BY <1>1
  <2> HIDE DEF m
  <2>3. 0 \in S
      BY <1>2, <2>2
  <2>4. ASSUME NEW k \in 0..(m - 1), k \in S PROVE k + 1 \in S
      BY <1>4, <2>1, <2>4
  <2> QED BY <2>3, <2>4
<1>6. r + m = n /\ m \in 0..m
    BY <1>1
<1>7. 0..m \subseteq S
  <2> HIDE DEF S, m
  <2> QED BY <1>1, <1>5, BoundedInduction
<1>8. Good(r + m)
    BY <1>6, <1>7
<1> QED BY <1>6, <1>8 DEF Good

\* Induction from one number up to another.
LEMMA RangeInduction ==
    ASSUME NEW r \in Nat, NEW n \in Nat, r <= n, NEW S,
           r \in S, \A k \in r..(n - 1) : k \in S => k + 1 \in S
    PROVE  r..n \subseteq S
<1> DEFINE m == n - r
           T == {k \in 0..m : r + k \in S}
<1>1. /\ m \in Nat /\ r + 0 = r /\ 0 \in 0..m
      /\ \A k \in 0..(m - 1) : r + k \in r..(n - 1) /\ r + (k + 1) = (r + k) + 1 /\ k + 1 \in 0..m
      /\ \A k \in r..n : k - r \in 0..m /\ r + (k - r) = k
    OBVIOUS
<1> HIDE DEF m
<1>2. 0 \in T /\ \A k \in 0..(m - 1) : k \in T => k + 1 \in T
    BY <1>1
<1>3. 0..m \subseteq T
  <2> HIDE DEF T
  <2> QED BY <1>1, <1>2, BoundedInduction
<1>4. ASSUME NEW k \in r..n PROVE k \in S
  <2>1. k - r \in T /\ r + (k - r) = k
      BY <1>1, <1>3
  <2> QED BY <2>1
<1> QED BY <1>4

\* From r to n, the operations of a trace insert the same.
InsertAlike(f, r, n) == \A k \in r..n : Inserted(f[k]) = Inserted(f[r])

\* Rebased along the log, an operation inserts what it did.
LEMMA TraceInserts ==
    ASSUME NEW log, Written(log), NEW f, NEW r \in Nat, NEW n \in Nat, r <= n,
           n <= Len(log), Trace(log, f, r, n),
           NEW e, Does(f[r], TextOf(log, r), e)
    PROVE  InsertAlike(f, r, n)
<1> DEFINE L == Len(log)
           S == {k \in r..n : Inserted(f[k]) = Inserted(f[r])}
<1>1. L \in Nat /\ n <= L
    BY IsSeqLen DEF Written
<1>2. \A k \in r..n : \E d : Does(f[k], TextOf(log, k), d)
    BY TraceDoes
<1>3. ASSUME NEW k \in r..(n - 1), k \in S PROVE k + 1 \in S
  <2>0. k \in r..n /\ k + 1 \in r..n /\ k \in 0..(L - 1)
      BY <1>1
  <2>1. PICK d : Does(f[k], TextOf(log, k), d)
      BY <1>2, <2>0
  <2>2. Does(log[k + 1].op, TextOf(log, k), TextOf(log, k + 1))
      BY <2>0, WrittenNext
  <2>3. Inserted(Transform(f[k], log[k + 1].op).a) = Inserted(f[k])
      BY <2>1, <2>2, TransformInserts
  <2>4. f[k + 1] = Transform(f[k], log[k + 1].op).a
      BY DEF Trace
  <2> QED BY <1>3, <2>0, <2>3, <2>4
<1>4. r \in S
    OBVIOUS
<1>5. r..n \subseteq S
  <2> HIDE DEF S, L
  <2> QED BY <1>3, <1>4, RangeInduction
<1> QED BY <1>5 DEF InsertAlike

(***************************************************************************)
(* What an unconfirmed operation makes of the text at its revision is the  *)
(* common origin of what it makes, rebased, of every later text: the       *)
(* operations of others that came in between only add their own bytes.     *)
(***************************************************************************)
LEMMA TraceEvolves ==
    ASSUME NEW log, Written(log), LogFresh(log),
           NEW f, NEW r \in Nat, NEW n \in Nat, r <= n,
           n <= Len(log), Trace(log, f, r, n),
           NEW V, Does(f[r], TextOf(log, r), V),
           Apart(Brings(f[r]), Brought(log, r, n))
    PROVE  \E e : Does(f[n], TextOf(log, n), e) /\ Evolves(V, e, Brought(log, r, n))
<1> DEFINE L == Len(log)
           Good(k) == \E e : Does(f[k], TextOf(log, k), e) /\ Evolves(V, e, Brought(log, r, k))
           S == {k \in r..n : Good(k)}
<1>1. L \in Nat /\ n <= L /\ r \in 0..L
    BY IsSeqLen DEF Written
<1>2. Good(r)
    BY EvolvesSame
<1>3. Range(V) \subseteq Brought(log, 0, r) \cup Brings(f[r])
  <2>1. Range(TextOf(log, r)) \subseteq Brought(log, 0, r)
      BY <1>1, TextFresh
  <2>2. Range(V) \subseteq Range(TextOf(log, r)) \cup Brings(f[r])
      BY DoesThreads DEF Threads, Brings
  <2> QED BY <2>1, <2>2
<1>4. ASSUME NEW k \in r..(n - 1), Good(k) PROVE Good(k + 1)
  <2> DEFINE op == log[k + 1].op
             t == Transform(f[k], op)
  <2>0. /\ k \in Nat /\ r <= k /\ k \in 0..(L - 1) /\ k <= L /\ r <= L /\ k + 1 \in 1..L
        /\ k + 1 \notin (0 + 1)..r /\ k + 1 \notin (r + 1)..k /\ k + 1 \in (r + 1)..n
      BY <1>1
  <2>1. PICK e : Does(f[k], TextOf(log, k), e) /\ Evolves(V, e, Brought(log, r, k))
      BY <1>4
  <2>2. Does(op, TextOf(log, k), TextOf(log, k + 1))
      BY <2>0, WrittenNext
  <2>3. PICK x : Does(t.a, TextOf(log, k + 1), x) /\ Does(t.b, e, x)
      BY <2>1, <2>2, TransformConverges
  <2>4. Brings(t.b) = Brings(op)
      BY <2>1, <2>2, TransformInserts DEF Brings
  <2>5. f[k + 1] = t.a
      BY DEF Trace
  <2>6. /\ Apart(Brought(log, 0, r), Brings(op)) /\ Apart(Brought(log, r, k), Brings(op))
        /\ Apart(Brings(f[r]), Brings(op))
    <3>1. Brings(op) \subseteq Brought(log, r, n)
        BY <2>0 DEF Brought
    <3> QED BY <2>0, <3>1, BroughtApart DEF Apart
  <2>7. Brought(log, r, k + 1) = Brought(log, r, k) \cup Brings(op)
      BY <2>0, BroughtMore
  <2> HIDE DEF op, t
  <2>8. Apart(Range(V), Brings(op)) /\ Apart(Brings(op), Range(V))
      BY <1>3, <2>6 DEF Apart
  <2>9. Apart(Range(e), Brings(op))
      BY <2>1, <2>6, <2>8 DEF Apart, Evolves
  <2>10. Evolves(e, x, Brings(op))
      BY <2>3, <2>4, <2>9, DoesEvolves
  <2>11. Evolves(V, x, Brought(log, r, k) \cup Brings(op))
      BY <2>1, <2>8, <2>10, EvolvesOn
  <2> QED BY <2>3, <2>5, <2>7, <2>11
<1> HIDE DEF Good
<1>5. r \in S /\ \A k \in r..(n - 1) : k \in S => k + 1 \in S
    BY <1>2, <1>4
<1>6. r..n \subseteq S
  <2> HIDE DEF S, L
  <2> QED BY <1>5, RangeInduction
<1>7. Good(n)
    BY <1>6
<1> QED BY <1>7 DEF Good

---------------------------------------------------------------------------
(* Two replicas of the log.                                                *)

(***************************************************************************)
(* A replica has read r entries of the log.  The operation that is on its  *)
(* way to the log, if there is one, makes V of the text at r, and what the *)
(* user has done since makes text of V.  Both only bring bytes of own, V   *)
(* none that an entry in mine up to r has brought, text none that any has; *)
(* the other entries bring no bytes of own.                                *)
(***************************************************************************)
View(log, r, V, text, own, mine) ==
    /\ r \in 0..Len(log) /\ mine \subseteq 1..Len(log)
    /\ \E W, X : /\ Evolves(TextOf(log, r), V, W) /\ Evolves(V, text, X)
                 /\ W \subseteq own /\ X \subseteq own
                 /\ \A n \in mine : /\ Apart(X, Brings(log[n].op))
                                    /\ n <= r => Apart(W, Brings(log[n].op))
    /\ \A n \in 1..Len(log) : n \notin mine => Apart(own, Brings(log[n].op))

(***************************************************************************)
(* No entry in mine is ahead of the replica, or one is, whose text has V   *)
(* for an origin.                                                          *)
(***************************************************************************)
Ahead(log, r, V, mine) ==
    \/ \A n \in mine : n <= r
    \/ \E j \in mine :
          /\ r < j /\ j <= Len(log) /\ \A n \in mine : n <= r \/ n = j
          /\ IsSeq(V) /\ NoRepeats(V)
          /\ Range(V) \subseteq Brought(log, 0, r) \cup Brings(log[j].op)
          /\ Evolves(V, TextOf(log, j), Brought(log, r, j - 1))

\* What comes from the log's text comes from the text's origins.
LEMMA ViewFrom ==
    ASSUME NEW log, Written(log), LogFresh(log), NEW q, NEW V, NEW text, NEW own, NEW mine,
           View(log, q, V, text, own, mine),
           NEW k \in Nat, k <= q, NEW u, NEW Z, Evolves(u, TextOf(log, k), Z),
           Range(u) \subseteq Brought(log, 0, k)
    PROVE  Evolves(u, text, (Z \cup Brought(log, k, q)) \cup own)
<1> DEFINE L == Len(log)
<1>1. PICK W, X : /\ Evolves(TextOf(log, q), V, W) /\ Evolves(V, text, X)
                  /\ W \subseteq own /\ X \subseteq own
                  /\ \A n \in mine : /\ Apart(X, Brings(log[n].op))
                                     /\ n <= q => Apart(W, Brings(log[n].op))
    BY DEF View
<1>2. L \in Nat /\ q \in 0..L /\ q \in Nat /\ q <= L
    BY IsSeqLen DEF Written, View
<1>3. Evolves(TextOf(log, k), TextOf(log, q), Brought(log, k, q))
    BY <1>2, TextEvolves
<1>4. \A n \in (0 + 1)..k : n \in 1..L /\ n \notin (k + 1)..q /\ n <= q
    BY <1>2
<1>5. Apart(Brought(log, k, q), Range(u))
  <2>1. \A n \in (0 + 1)..k : Apart(Brought(log, k, q), Brings(log[n].op))
      BY <1>2, <1>4, BroughtApart
  <2> QED BY <2>1 DEF Brought, Apart
<1>6. Apart(W, Range(u)) /\ Apart(X, Range(u))
  <2>1. ASSUME NEW n \in (0 + 1)..k
        PROVE  Apart(W, Brings(log[n].op)) /\ Apart(X, Brings(log[n].op))
    <3>1. CASE n \in mine
        BY <1>1, <1>4, <3>1
    <3>2. CASE n \notin mine
      <4>1. Apart(own, Brings(log[n].op))
          BY <1>4, <3>2 DEF View
      <4> QED BY <1>1, <4>1 DEF Apart
    <3> QED BY <3>1, <3>2
  <2> QED BY <2>1 DEF Brought, Apart
<1>7. Evolves(u, TextOf(log, q), Z \cup Brought(log, k, q))
    BY <1>3, <1>5, EvolvesOn
<1>8. Evolves(u, V, (Z \cup Brought(log, k, q)) \cup W)
    BY <1>1, <1>6, <1>7, EvolvesOn
<1>9. Evolves(u, text, ((Z \cup Brought(log, k, q)) \cup W) \cup X)
    BY <1>1, <1>6, <1>8, EvolvesOn
<1>10. ((Z \cup Brought(log, k, q)) \cup W) \cup X \subseteq (Z \cup Brought(log, k, q)) \cup own
    BY <1>1
<1> QED BY <1>9, <1>10, EvolvesMore

(***************************************************************************)
(* Two replicas agree on the order of what both show, whatever either has  *)
(* still to read or to have confirmed.                                     *)
(***************************************************************************)
LEMMA ViewsAgree ==
    ASSUME NEW log, Written(log), LogFresh(log),
           NEW r, NEW V, NEW s, NEW own, NEW mine, View(log, r, V, s, own, mine),
           Ahead(log, r, V, mine),
           NEW q, NEW U, NEW t, NEW others, NEW theirs, View(log, q, U, t, others, theirs),
           r <= q, Apart(own, others),
           NEW a, NEW b, Before(s, a, b)
    PROVE  ~Before(t, b, a)
<1> DEFINE L == Len(log)
<1>1. L \in Nat /\ r \in 0..L /\ q \in 0..L /\ r \in Nat /\ q \in Nat /\ r <= L /\ q <= L /\ r <= r
    BY IsSeqLen DEF Written, View
<1>2. \A n \in 1..L : n \notin mine => Apart(own, Brings(log[n].op))
    BY DEF View
<1>3. CASE \A n \in mine : n <= r \/ n > q
  <2> DEFINE u == TextOf(log, r)
  <2>1. IsSeq(u) /\ NoRepeats(u) /\ Range(u) \subseteq Brought(log, 0, r)
      BY <1>1, TextFresh
  <2>2. Evolves(u, u, {})
      BY EvolvesSame
  <2> HIDE DEF u
  <2>3. Evolves(u, TextOf(log, r), {})
      BY <2>2 DEF u
  <2>4. Evolves(u, s, ({} \cup Brought(log, r, r)) \cup own)
      BY <1>1, <2>1, <2>3, ViewFrom
  <2>5. Evolves(u, t, ({} \cup Brought(log, r, q)) \cup others)
      BY <1>1, <2>1, <2>3, ViewFrom
  <2>6. Brought(log, r, r) = {}
      BY <1>1, BroughtMore
  <2>7. Apart(own, Brought(log, r, q))
    <3>1. \A n \in (r + 1)..q : n \in 1..L /\ ~(n <= r) /\ ~(n > q)
        BY <1>1
    <3>2. \A n \in (r + 1)..q : Apart(own, Brings(log[n].op))
        BY <1>2, <1>3, <3>1
    <3> QED BY <3>2 DEF Brought, Apart
  <2>8. Apart(({} \cup Brought(log, r, r)) \cup own, ({} \cup Brought(log, r, q)) \cup others)
      BY <2>6, <2>7 DEF Apart
  <2> QED BY <2>1, <2>4, <2>5, <2>8, EvolvesAgree
<1>4. CASE ~(\A n \in mine : n <= r \/ n > q)
  <2>0. PICK n \in mine : ~(n <= r) /\ ~(n > q)
      BY <1>4
  <2>1. PICK j \in mine :
          /\ r < j /\ j <= L /\ \A k \in mine : k <= r \/ k = j
          /\ IsSeq(V) /\ NoRepeats(V)
          /\ Range(V) \subseteq Brought(log, 0, r) \cup Brings(log[j].op)
          /\ Evolves(V, TextOf(log, j), Brought(log, r, j - 1))
      BY <2>0 DEF Ahead
  <2>2. n = j
      BY <2>0, <2>1
  <2>3. j \in Nat /\ j <= q /\ j \in 1..L
    <3>1. j \in 1..L
        BY DEF View
    <3> QED BY <1>1, <2>0, <2>2, <3>1
  <2>4. Range(V) \subseteq Brought(log, 0, j)
    <3>1. \A k \in (0 + 1)..r : k \in (0 + 1)..j
        BY <1>1, <2>1, <2>3
    <3>2. j \in (0 + 1)..j
        BY <2>3
    <3> QED BY <2>1, <3>1, <3>2 DEF Brought
  <2>5. Evolves(V, t, (Brought(log, r, j - 1) \cup Brought(log, j, q)) \cup others)
      BY <2>1, <2>3, <2>4, ViewFrom
  <2>6. PICK X : Evolves(V, s, X) /\ X \subseteq own
      BY DEF View
  <2>7. Apart(own, Brought(log, r, j - 1)) /\ Apart(own, Brought(log, j, q))
    <3>1. \A k \in (r + 1)..(j - 1) : k \in 1..L /\ ~(k <= r) /\ k # j
        BY <1>1, <2>1, <2>3
    <3>2. \A k \in (j + 1)..q : k \in 1..L /\ ~(k <= r) /\ k # j
        BY <1>1, <2>1, <2>3
    <3>3. \A k \in (r + 1)..(j - 1) : Apart(own, Brings(log[k].op))
        BY <1>2, <2>1, <3>1
    <3>4. \A k \in (j + 1)..q : Apart(own, Brings(log[k].op))
        BY <1>2, <2>1, <3>2
    <3> QED BY <3>3, <3>4 DEF Brought, Apart
  <2>8. Apart(X, (Brought(log, r, j - 1) \cup Brought(log, j, q)) \cup others)
      BY <2>6, <2>7 DEF Apart
  <2> QED BY <2>1, <2>5, <2>6, <2>8, EvolvesAgree
<1> QED BY <1>3, <1>4

---------------------------------------------------------------------------
(* What one session adds to the log's text.                                *)

(***************************************************************************)
(* Of all the bytes a client may type, own, it has typed those in spent.   *)
(* The entries in mine brought only such, and the other entries none that  *)
(* it may type.                                                            *)
(***************************************************************************)
Sides(log, mine, spent, own) ==
    /\ mine \subseteq 1..Len(log) /\ spent \subseteq own
    /\ \A n \in mine : Brings(log[n].op) \subseteq spent
    /\ \A n \in 1..Len(log) : n \notin mine => Apart(own, Brings(log[n].op))

(***************************************************************************)
(* The pending operations p of a session at revision r insert each byte    *)
(* once; the buffer inserts none that is in the log, the outstanding       *)
(* operation none that was at r.                                           *)
(***************************************************************************)
PendingFresh(p, r, log, mine, spent) ==
    /\ \A i \in DOMAIN p : NoRepeats(Inserted(p[i])) /\ Brings(p[i]) \subseteq spent
    /\ Len(p) = 2 => Apart(Brings(p[1]), Brings(p[2]))
    /\ \A n \in mine : \A i \in DOMAIN p :
          i = 2 \/ n <= r => Apart(Brings(log[n].op), Brings(p[i]))

\* What the outstanding operation of session s makes of the mirror.
Confirming(s) == IF s.pending = << >> THEN s.synced ELSE Apply(s.pending[1], s.synced)

(***************************************************************************)
(* The text of session s comes from what its outstanding operation makes   *)
(* of the mirror, with bytes added that the log does not have.             *)
(***************************************************************************)
Adrift(s, log, mine, spent) ==
    /\ s.pending # << >> => Does(s.pending[1], s.synced, Confirming(s))
    /\ NoRepeats(s.text)
    /\ \E X : /\ Evolves(Confirming(s), s.text, X)
              /\ X \subseteq spent
              /\ \A n \in mine : Apart(X, Brings(log[n].op))

\* What is pending is one operation or two.
LEMMA PendingIndex ==
    ASSUME NEW p, IsSeq(p), NEW n \in Nat, Len(p) = n
    PROVE  DOMAIN p = 1..n
BY IsSeqLen

\* A session's own bytes are in its mirror only if they are in the log, so
\* pending operations can be told from it.
LEMMA MirrorApart ==
    ASSUME NEW log, Written(log), LogFresh(log), NEW mine, NEW spent, NEW own,
           Sides(log, mine, spent, own), NEW r \in 0..Len(log),
           NEW W, W \subseteq own, \A n \in mine : n <= r => Apart(Brings(log[n].op), W)
    PROVE  Apart(Range(TextOf(log, r)), W)
<1> DEFINE L == Len(log)
<1>1. Range(TextOf(log, r)) \subseteq Brought(log, 0, r)
    BY TextFresh
<1>2. L \in Nat /\ r \in Nat /\ r <= L
    BY IsSeqLen DEF Written
<1>3. \A n \in (0 + 1)..r : n \in 1..L /\ n <= r
    BY <1>2
<1>4. ASSUME NEW n \in (0 + 1)..r PROVE Apart(Brings(log[n].op), W)
  <2>1. CASE n \in mine
      BY <1>3, <2>1
  <2>2. CASE n \notin mine
      BY <1>3, <2>2 DEF Sides, Apart
  <2> QED BY <2>1, <2>2
<1> QED BY <1>1, <1>4 DEF Brought, Apart

\* What the outstanding operation makes of the mirror.
LEMMA ConfirmingFresh ==
    ASSUME NEW log, Written(log), LogFresh(log), NEW mine, NEW spent, NEW own,
           Sides(log, mine, spent, own), NEW r \in 0..Len(log),
           NEW p, Brings(p) \subseteq spent, NoRepeats(Inserted(p)),
           \A n \in mine : n <= r => Apart(Brings(log[n].op), Brings(p)),
           NEW V, Does(p, TextOf(log, r), V)
    PROVE  /\ IsSeq(V) /\ NoRepeats(V) /\ Evolves(TextOf(log, r), V, Brings(p))
           /\ Apart(Range(TextOf(log, r)), Brings(p))
<1>1. Brings(p) \subseteq own
    BY DEF Sides
<1>2. Apart(Range(TextOf(log, r)), Brings(p))
    BY <1>1, MirrorApart
<1>3. NoRepeats(TextOf(log, r))
    BY TextFresh
<1> QED BY <1>2, <1>3, DoesEvolves DEF Does

\* A session with a baseline shows its mirror and what is pending.
LEMMA ShownFresh ==
    ASSUME NEW log, Written(log), LogFresh(log), NEW mine, NEW spent, NEW own,
           Sides(log, mine, spent, own), NEW s, Mirrors(s, log), Pends(s),
           PendingFresh(s.pending, s.revision, log, mine, spent)
    PROVE  Adrift(s, log, mine, spent)
<1> DEFINE p == s.pending
           u == s.synced
           text == s.text
           V == Confirming(s)
           r == s.revision
<1>1. /\ IsSeq(p) /\ r \in 0..Len(log) /\ u = TextOf(log, r)
      /\ V = IF p = << >> THEN u ELSE Apply(p[1], u)
      /\ \/ p = << >> /\ text = u
         \/ Len(p) = 1 /\ Does(p[1], u, text)
         \/ Len(p) = 2 /\ \E m : Does(p[1], u, m) /\ Does(p[2], m, text)
    BY DEF Mirrors, SessionOK, Pends, Unconfirmed, Confirming
<1>2. /\ \A i \in DOMAIN p : NoRepeats(Inserted(p[i])) /\ Brings(p[i]) \subseteq spent
      /\ Len(p) = 2 => Apart(Brings(p[1]), Brings(p[2]))
      /\ \A n \in mine : \A i \in DOMAIN p :
            i = 2 \/ n <= r => Apart(Brings(log[n].op), Brings(p[i]))
    BY DEF PendingFresh
<1> DEFINE none == {}
<1>3. none \subseteq spent /\ \A n \in mine : Apart(none, Brings(log[n].op))
    BY DEF Apart
<1> SUFFICES /\ p # << >> => Does(p[1], u, V)
             /\ NoRepeats(text)
             /\ \E X : /\ Evolves(V, text, X)
                       /\ X \subseteq spent
                       /\ \A n \in mine : Apart(X, Brings(log[n].op))
    BY DEF Adrift
<1> HIDE DEF p, u, text, V, r, none
<1>4. CASE p = << >> /\ text = u
  <2>1. NoRepeats(u)
      BY <1>1, TextFresh
  <2>2. Evolves(V, text, none)
      BY <1>1, <1>4, EvolvesSame
  <2> QED BY <1>3, <1>4, <2>1, <2>2
<1>5. ASSUME p # << >>, 1 \in DOMAIN p, NEW m, Does(p[1], u, m)
      PROVE  /\ V = m /\ IsSeq(V) /\ NoRepeats(V) /\ Evolves(u, V, Brings(p[1]))
             /\ Apart(Range(u), Brings(p[1]))
  <2>1. V = m
      BY <1>1, <1>5, DoesTarget
  <2>2. Does(p[1], TextOf(log, r), m)
      BY <1>1, <1>5
  <2>3. /\ Brings(p[1]) \subseteq spent /\ NoRepeats(Inserted(p[1]))
        /\ \A n \in mine : n <= r => Apart(Brings(log[n].op), Brings(p[1]))
      BY <1>2, <1>5
  <2> DEFINE o == p[1]
  <2> HIDE DEF o
  <2>4. Does(o, TextOf(log, r), m) /\ Brings(o) \subseteq spent /\ NoRepeats(Inserted(o))
        /\ \A n \in mine : n <= r => Apart(Brings(log[n].op), Brings(o))
      BY <2>2, <2>3 DEF o
  <2>5. /\ IsSeq(m) /\ NoRepeats(m) /\ Evolves(TextOf(log, r), m, Brings(o))
        /\ Apart(Range(TextOf(log, r)), Brings(o))
      BY <1>1, <2>4, ConfirmingFresh
  <2> QED BY <1>1, <2>1, <2>5 DEF o
<1>6. CASE Len(p) = 1 /\ Does(p[1], u, text)
  <2>1. p # << >> /\ 1 \in DOMAIN p
    <3>1. DOMAIN p = 1..1
        BY <1>1, <1>6, PendingIndex
    <3> QED BY <1>6, <3>1, IsSeqEmpty
  <2>2. V = text /\ NoRepeats(text)
      BY <1>5, <1>6, <2>1
  <2>3. Evolves(V, text, none)
      BY <2>2, EvolvesSame
  <2> QED BY <1>3, <1>6, <2>2, <2>3
<1>7. CASE Len(p) = 2 /\ \E m : Does(p[1], u, m) /\ Does(p[2], m, text)
  <2>1. p # << >> /\ 1 \in DOMAIN p /\ 2 \in DOMAIN p
    <3>1. DOMAIN p = 1..2
        BY <1>1, <1>7, PendingIndex
    <3> QED BY <1>7, <3>1, IsSeqEmpty
  <2>2. Does(p[1], u, V) /\ Does(p[2], V, text)
    <3>1. PICK m : Does(p[1], u, m) /\ Does(p[2], m, text)
        BY <1>7
    <3> QED BY <1>5, <2>1, <3>1
  <2>3. /\ NoRepeats(V) /\ Evolves(u, V, Brings(p[1]))
      BY <1>5, <2>1, <2>2
  <2> DEFINE o == p[2]
             W == Brings(o)
  <2>4. /\ NoRepeats(Inserted(o)) /\ W \subseteq spent /\ Apart(Brings(p[1]), W)
        /\ \A n \in mine : Apart(Brings(log[n].op), W)
      BY <1>2, <1>7, <2>1
  <2>5. Apart(Range(u), W)
    <3> HIDE DEF W
    <3>1. W \subseteq own
        BY <2>4 DEF Sides
    <3>2. Apart(Range(TextOf(log, r)), W)
        BY <1>1, <2>4, <3>1, MirrorApart
    <3> QED BY <1>1, <3>2
  <2>6. Apart(Range(V), W)
      BY <2>3, <2>4, <2>5 DEF Evolves, Apart
  <2> HIDE DEF o
  <2>7. Does(o, V, text)
      BY <2>2 DEF o
  <2>8. Evolves(V, text, W) /\ NoRepeats(text)
      BY <2>3, <2>4, <2>6, <2>7, DoesEvolves
  <2>9. \A n \in mine : Apart(W, Brings(log[n].op))
      BY <2>4 DEF Apart
  <2> HIDE DEF W
  <2> QED BY <2>2, <2>4, <2>8, <2>9
<1> QED BY <1>1, <1>4, <1>6, <1>7

\* Such a session is a replica of the log.
LEMMA SessionView ==
    ASSUME NEW log, Written(log), LogFresh(log), NEW mine, NEW spent, NEW own,
           Sides(log, mine, spent, own), NEW s, Mirrors(s, log),
           PendingFresh(s.pending, s.revision, log, mine, spent),
           Adrift(s, log, mine, spent)
    PROVE  View(log, s.revision, Confirming(s), s.text, own, mine)
<1> DEFINE p == s.pending
           u == s.synced
           text == s.text
           V == Confirming(s)
           r == s.revision
<1>1. /\ IsSeq(p) /\ r \in 0..Len(log) /\ u = TextOf(log, r)
      /\ V = IF p = << >> THEN u ELSE Apply(p[1], u)
      /\ p # << >> => Does(p[1], u, V)
    BY DEF Mirrors, SessionOK, Confirming, Adrift
<1>2. PICK X : /\ Evolves(V, text, X)
               /\ X \subseteq spent
               /\ \A n \in mine : Apart(X, Brings(log[n].op))
    BY DEF Adrift
<1>3. /\ mine \subseteq 1..Len(log) /\ spent \subseteq own
      /\ \A n \in 1..Len(log) : n \notin mine => Apart(own, Brings(log[n].op))
    BY DEF Sides
<1>4. \E W : /\ Evolves(TextOf(log, r), V, W) /\ W \subseteq own
             /\ \A n \in mine : n <= r => Apart(W, Brings(log[n].op))
  <2>1. CASE p = << >>
    <3>1. Evolves(TextOf(log, r), V, {})
        BY <1>1, <2>1, EvolvesSame
    <3> QED BY <3>1 DEF Apart
  <2>2. CASE p # << >>
    <3> DEFINE o == p[1]
    <3>1. 1 \in DOMAIN p
      <4>1. Len(p) \in Nat /\ Len(p) # 0 /\ DOMAIN p = 1..Len(p)
          BY <1>1, <2>2, IsSeqLen, IsSeqNone
      <4> QED BY <4>1
    <3>2. /\ Brings(o) \subseteq spent /\ NoRepeats(Inserted(o))
          /\ \A n \in mine : n <= r => Apart(Brings(log[n].op), Brings(o))
        BY <3>1 DEF PendingFresh
    <3>3. Does(o, TextOf(log, r), V)
        BY <1>1, <2>2
    <3> HIDE DEF o, V, r
    <3>4. Evolves(TextOf(log, r), V, Brings(o))
        BY <1>1, <3>2, <3>3, ConfirmingFresh
    <3>5. \A n \in mine : n <= r => Apart(Brings(o), Brings(log[n].op))
        BY <3>2 DEF Apart
    <3>6. Brings(o) \subseteq own
        BY <1>3, <3>2
    <3> DEFINE W == Brings(o)
    <3>7. /\ Evolves(TextOf(log, r), V, W) /\ W \subseteq own
          /\ \A n \in mine : n <= r => Apart(W, Brings(log[n].op))
        BY <3>4, <3>5, <3>6
    <3> HIDE DEF W
    <3> QED BY <3>7
  <2> QED BY <2>1, <2>2
<1>5. PICK W : /\ Evolves(TextOf(log, r), V, W) /\ W \subseteq own
               /\ \A n \in mine : n <= r => Apart(W, Brings(log[n].op))
    BY <1>4
<1>6. X \subseteq own
    BY <1>2, <1>3
<1> HIDE DEF V, r, text
<1> QED BY <1>1, <1>2, <1>3, <1>5, <1>6 DEF View, V, r, text
=============================================================================
