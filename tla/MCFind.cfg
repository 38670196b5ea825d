\* Find over two repos of two shards, with room for every job and for one
\* name; the service with four repos, where two matches are enough, and so
\* are two backends.
CONSTANTS
  RepoKeys = {k1, k2}
  NoKey = NoKey
  Shards = {s1, s2}
  Names = {n1}
  ShardCap = 4
  NameCap = 1
  ShardConcurrency = 2
  L = L
  A = A
  B = B
  l1 = l1
  l2 = l2
  a1 = a1
  b1 = b1
  Keys = {l1, l2, a1, b1}
  Hosts = {L, A, B}
  HostOf <- RepoHosts
  MetaOf <- RepoMetas
  LocalHost = L
  Queries <- AllQueries
  MaxMatches = 2
  MaxNames = 1
  QueryCap = 1
  ResultCap = 1
  Concurrency = 2
SPECIFICATION SumSpec
INVARIANTS FoundComplete FindComplete
PROPERTIES FinderReturns FinderJobsEnd FindServiceReturns
CHECK_DEADLOCK FALSE
