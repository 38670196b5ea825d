\* One shard more than there is room for jobs.
CONSTANTS
  RepoKeys = {k1}
  NoKey = NoKey
  Shards = {s1, s2}
  Names = {n1}
  ShardCap = 1
  NameCap = 1
  ShardConcurrency = 2
SPECIFICATION FairFind
PROPERTIES FindReturns
CHECK_DEADLOCK FALSE
