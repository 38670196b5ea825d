---------------------------- MODULE MCSearcher -----------------------------
(***************************************************************************)
(* Searcher for TLC: a repo of two shards.                                 *)
(***************************************************************************)
EXTENDS Searcher, TLC
=============================================================================
