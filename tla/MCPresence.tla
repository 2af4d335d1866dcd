----------------------------- MODULE MCPresence -----------------------------
(***************************************************************************)
(* A room for TLC; its names and clients are model values.                 *)
(***************************************************************************)
EXTENDS Presence
=============================================================================
