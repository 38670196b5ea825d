\* Three repos of four, in three setups; see MCSearchApi.
CONSTANTS
  L = L
  A = A
  B = B
  l1 = l1
  l2 = l2
  a1 = a1
  b1 = b1
  Keys = {l1, l2, a1, b1}
  Hosts = {L, A, B}
  HostOf <- RepoHosts
  LocalHost = L
  NoHost = NoHost
  QueryCap = 1
  ResultCap = 1
  Concurrency = 2
  Setups <- Searches
SPECIFICATION FairSpec
INVARIANTS MergedComplete BackendLimit StoreFollowsResults
PROPERTIES ReturnsOrLocalStuck
CHECK_DEADLOCK FALSE
