------------------------------ MODULE MCFinder ------------------------------
(***************************************************************************)
(* Finder for TLC.                                                         *)
(***************************************************************************)
EXTENDS Finder, TLC
=============================================================================
