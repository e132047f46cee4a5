---------------------------- MODULE MCReplayClock ----------------------------
(***************************************************************************)
(* A small instance of ReplayClock for TLC.                                *)
(***************************************************************************)
EXTENDS ReplayClock, MCLetDB
=============================================================================
