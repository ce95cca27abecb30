----------------------------- MODULE MCMonitor -----------------------------
(***************************************************************************)
(* A screen of 3 x 3 cells, so that the prompt alone fills a row and every *)
(* line wraps; a line buffer that two words of one letter fit into and     *)
(* three fill.  226 is KEY_UP, the character of a cursor key.              *)
(***************************************************************************)
EXTENDS Monitor

Chars == {97, Space, BS, DEL, CR, TAB, 226}
Names == {<<97>>}

Empty(at) == [buf |-> [k \in 0 .. CRT_SIZE - 1 |-> Blank], pos |-> at]
Screens == {Empty(0), Empty(CRT_SIZE - CRT_COLS)}
=============================================================================
