\* Two requests race for one key; a search of the key is in
\* flight, par may return early, the process may exit.
CONSTANTS
  Keys = {k1}
  Reqs = {r1, r2}
  NoReq = NoReq
  Searches = {s1}
  Queries <- SomeQueries
SPECIFICATION FairSpec
INVARIANTS MarkerHasHandler RpcFailureLeavesNothing NoSendOnClosed
PROPERTIES OnlyStaleReplaces EventuallyAnswered
CHECK_DEADLOCK FALSE
