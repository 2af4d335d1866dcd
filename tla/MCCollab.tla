------------------------------ MODULE MCCollab ------------------------------
(***************************************************************************)
(* Collab for TLC: two clients, texts of one-byte and two-byte characters, *)
(* no two of them alike.                                                   *)
(***************************************************************************)
EXTENDS CollabInv

CONSTANTS c1, c2,
          first, second   \* the bytes of the one two-byte character

MCClients == {c1, c2}

MCLead == {first}
MCCont == {second}

MCSeed   == <<first, second>>
MCNoSeed == << >>

\* The n-th character c types, one byte each.
MCTyped == [c \in MCClients |-> [n \in 1..3 |-> <<<<c, n>>>>]]

\* But c2 types the two-byte character.
MCTypedWide == [MCTyped EXCEPT ![c2] = <<<<first, second>>>>]

\* A bound for c1 and one for c2.
Bound(x, y) == [c \in MCClients |-> IF c = c1 THEN x ELSE y]

Zero     == Bound(0, 0)
One      == Bound(1, 1)
ZeroOne  == Bound(0, 1)
TwoOne   == Bound(2, 1)
ThreeOne == Bound(3, 1)
=============================================================================
