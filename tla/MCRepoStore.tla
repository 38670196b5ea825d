---------------------------- MODULE MCRepoStore ----------------------------
(***************************************************************************)
(* RepoStore for TLC: two goroutines on two keys.                          *)
(***************************************************************************)
EXTENDS RepoStore, TLC
=============================================================================
