\* One search that is cancelled.
CONSTANTS
  Searches = {a1}
  Shards = {s1, s2}
  Objs = {o1}
  NoObj = NoObj
  MaxLines = 0
SPECIFICATION FairSpec
PROPERTIES ReturnsOnceShardsEnd
CHECK_DEADLOCK FALSE
