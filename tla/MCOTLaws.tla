------------------------------ MODULE MCOTLaws ------------------------------
(***************************************************************************)
(* The laws for TLC: texts of one ASCII character and of letters that      *)
(* share a first byte or a second one.                                     *)
(***************************************************************************)
EXTENDS OTLaws

CONSTANTS x, lead1, lead2, cont1, cont2,   \* bytes
          nl, letter, wide, high, low       \* UTF-16 units

MCDocs    == {<< >>, <<x>>, <<x, lead1, cont1>>, <<lead2, cont2, x>>}
MCStrings == {<<x>>, <<lead1, cont2>>}

\* Texts of up to three characters of one to four bytes, newlines among them.
Characters == {<< >>, <<nl>>, <<letter>>, <<wide>>, <<high, low>>}
MCTexts    == {a \o b \o c : a, b, c \in Characters}
MCPieces   == {<< >>, <<nl>>, <<nl, letter, nl>>, <<high, low>>}
=============================================================================
