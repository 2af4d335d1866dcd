------------------------------- MODULE MCTab -------------------------------
(***************************************************************************)
(* A tab for TLC: a database that is empty or holds one character of one   *)
(* byte, and a user who types a two-byte character and then another one.   *)
(***************************************************************************)
EXTENDS Tab

CONSTANTS lead, cont   \* the bytes of a two-byte character

MCLead  == {lead}
MCCont  == {cont}
MCSaved == {<< >>, <<0>>}
MCEmpty == {<< >>}
MCTyped == <<<<lead, cont>>, <<1>>>>
=============================================================================
