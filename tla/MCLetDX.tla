------------------------------- MODULE MCLetDX -------------------------------
(***************************************************************************)
(* Small instances of LetDX for TLC.                                       *)
(***************************************************************************)
EXTENDS LetDX

CONSTANTS d1, d2, c1, c2, c3

OneDaemon == [c \in Calls |-> d1]
TwoDaemons == [c \in Calls |-> IF c = c1 THEN d1 ELSE d2]

=============================================================================
