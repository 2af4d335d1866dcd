------------------------------- MODULE MCPage -------------------------------
(***************************************************************************)
(* A page for TLC: a text of two letters, one of them from somebody else   *)
(* and rough.                                                              *)
(***************************************************************************)
EXTENDS Page

MCGiven == <<[n |-> 1, by |-> "me", kind |-> "plain"],
             [n |-> 2, by |-> "them", kind |-> "rough"]>>

\* A text that Slate writes as it is.
MCPlain == <<[n |-> 1, by |-> "me", kind |-> "plain"]>>
=============================================================================
