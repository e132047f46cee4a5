------------------------------ MODULE MCBitRot ------------------------------
(***************************************************************************)
(* Small instances of BitRot for TLC.                                      *)
(***************************************************************************)
EXTENDS BitRot, MCLetDB
=============================================================================
