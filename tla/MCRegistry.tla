----------------------------- MODULE MCRegistry -----------------------------
(***************************************************************************)
(* Registry for TLC.                                                       *)
(***************************************************************************)
EXTENDS RegistryInv, TLC

\* Users come and go alike, and so do readers.
Symmetry == Permutations(Sockets) \cup Permutations(Readers)
=============================================================================
