---------------------------- MODULE MCIndexApi -----------------------------
(***************************************************************************)
(* IndexApi for TLC: two requests for one key.                             *)
(***************************************************************************)
EXTENDS IndexApi, TLC

\* A request for another daemon's repo (whose results include all of a local
\* repo's), one that may not go there, and one that Normalize refuses.
SomeQueries ==
  {[key |-> k, local |-> FALSE, recurse |-> TRUE, valid |-> TRUE,
    web |-> FALSE] : k \in Keys}
  \cup
  {[key |-> k, local |-> FALSE, recurse |-> FALSE, valid |-> TRUE,
    web |-> FALSE] : k \in Keys}
  \cup
  {[key |-> k, local |-> TRUE, recurse |-> TRUE, valid |-> FALSE,
    web |-> TRUE] : k \in Keys}
=============================================================================
