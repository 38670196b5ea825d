---------------------------- MODULE MCSearchApi ----------------------------
(***************************************************************************)
(* SearchApi for TLC: three repos, on this host and on others.             *)
(***************************************************************************)
EXTENDS SearchApi, TLC

CONSTANTS L, A, B, l1, l2, a1, b1

RepoHosts == l1 :> L @@ l2 :> L @@ a1 :> A @@ b1 :> B

\* A local repo and one on each of two hosts, of which one may be asked;
\* others change a repo.
ThreeHosts ==
  [keys |-> {l1, a1, b1}, maxBe |-> 1, maxMatches |-> 0,
   says |-> {"OK", "ERROR"}, faults |-> FALSE, changes |-> 1, early |-> FALSE]

\* Two local repos and a remote one, searched until two matches are found.
TwoLocal ==
  [keys |-> {l1, l2, a1}, maxBe |-> 0, maxMatches |-> 2,
   says |-> {"OK"}, faults |-> FALSE, changes |-> 0, early |-> FALSE]

\* A local repo and a remote one; one match is enough, good repos may have
\* errors, and par may return before its functions do.
ParEarly ==
  [keys |-> {l1, a1}, maxBe |-> 0, maxMatches |-> 1,
   says |-> {"none", "OK"}, faults |-> TRUE, changes |-> 0, early |-> TRUE]

Searches == {ThreeHosts, TwoLocal, ParEarly}
=============================================================================
