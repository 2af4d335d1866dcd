----------------------------- MODULE CollabInv -----------------------------
(***************************************************************************)
(* The inductive invariant behind EditsInRange.                            *)
(*                                                                         *)
(* A session's revision stays within the log because the Histories on      *)
(* their way to it cover the log in order: each starts where the one       *)
(* before it ended, or later, and a session with a baseline has not read   *)
(* beyond the start of the first.                                          *)
(***************************************************************************)
EXTENDS Collab

Histories(q) == {i \in DOMAIN q : q[i].type = "History"}

End(m) == m.start + Len(m.ops)

\* The Histories of a queue are in order and end by revision n.
InOrder(q, n) ==
    /\ \A i \in Histories(q) : End(q[i]) <= n
    /\ \A i, j \in Histories(q) : i < j => End(q[i]) <= q[j].start

\* They all start, or end, at revision r or after.
StartAfter(q, r) == \A i \in Histories(q) : r <= q[i].start
EndAfter(q, r)   == \A i \in Histories(q) : r <= End(q[i])

\* The edits of a queue were made at revisions up to n.
EditsWithin(q, n) == \A i \in DOMAIN q : q[i].type = "Edit" => q[i].revision <= n

(***************************************************************************)
(* The Histories on each connection are in order, within what the write    *)
(* loop has sent, and that is within the log (conn.go, sentRevision).      *)
(***************************************************************************)
HistoriesInOrder ==
    \A k \in Conns : sent[k] <= Len(ops) /\ InOrder(down[k], sent[k])

\* Session s, whose connection was sent n operations, reads from queue q: with
\* a baseline it has read no further than that, nor into what is still on its
\* way; without one, no further than the end of any History that could give it
\* one (session.ts, establishBaseline: "everything before oldRevision is history
\* we already folded into syncedText").
InStep(s, q, n) ==
    /\ ~s.everBaselined => s.revision = 0
    /\ s.baselined => s.revision <= n /\ StartAfter(q, s.revision)
    /\ s.connected /\ ~s.baselined => EndAfter(q, s.revision)

(***************************************************************************)
(* Every session has read no further than the log, and is in step with its *)
(* connection (session.ts, handleHistory).                                 *)
(***************************************************************************)
RevisionsInOrder ==
    \A c \in Clients :
        /\ sess[c].revision <= Len(ops)
        /\ InStep(sess[c], down[Current(c)], sent[Current(c)])

\* Every edit on its way up was made at a revision of the log.
UpInRange == \A k \in Conns : EditsWithin(up[k], Len(ops))

IInv == TypeOK /\ HistoriesInOrder /\ RevisionsInOrder /\ UpInRange
=============================================================================
