-------------------------- MODULE MCLetDBRefinement --------------------------
(***************************************************************************)
(* A small instance of the refinement for TLC.                             *)
(***************************************************************************)
EXTENDS LetDBRefinement, MCLetDB
=============================================================================
