\* A search of two shards, of a repo that is re-indexed at most once; every
\* file of up to five bytes, lines too long for the buffer included.
CONSTANTS
  Searches = {a1}
  Shards = {s1, s2}
  Objs = {o1, o2}
  NoObj = NoObj
  MaxLines = 1
  Bytes <- AllBytes
  MaxSize = 5
  BufSize = 3
SPECIFICATION SumSpec
INVARIANTS DiesOnlyOfLateWrite MergedComplete BadShardCondemnsRepo FindsMatches RecordsLines
PROPERTIES ReturnsUnlessCancelled GrepEnds
CHECK_DEADLOCK FALSE
