------------------------------ MODULE Versions ------------------------------
(***************************************************************************)
(* What the collaboration promises, without operations or messages: the    *)
(* document has versions, a new one is only ever added at the end, and     *)
(* every replica shows one of them and only moves on to later ones.        *)
(***************************************************************************)
EXTENDS Integers, Sequences

CONSTANTS Replicas,
          Origin      \* the versions there are at the start, oldest first

VARIABLES versions,   \* every text the document has had
          at,         \* which version each replica shows, counted from 0
          shown       \* the text each replica shows

vars == <<versions, at, shown>>

Init ==
    /\ versions = Origin
    /\ at = [r \in Replicas |-> 0]
    /\ shown = [r \in Replicas |-> Origin[1]]

\* A new version: whatever it is, it comes after the others.
Publish ==
    /\ Len(versions') = Len(versions) + 1
    /\ SubSeq(versions', 1, Len(versions)) = versions
    /\ UNCHANGED <<at, shown>>

\* A replica moves on, perhaps past several versions at once.
CatchUp(r) ==
    /\ \E n \in at[r]..(Len(versions) - 1) :
          /\ at' = [at EXCEPT ![r] = n]
          /\ shown' = [shown EXCEPT ![r] = versions[n + 1]]
    /\ UNCHANGED versions

Next == Publish \/ \E r \in Replicas : CatchUp(r)

Spec == Init /\ [][Next]_vars
=============================================================================
