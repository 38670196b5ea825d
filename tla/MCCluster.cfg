\* Three daemons, two requests at a time.
CONSTANTS
  Daemons = {A, B, C}
  LocalName = localhost
  Alias = alias
  Target = B
  None = None
  FrontEnds = {A, B}
  Slots = {s1, s2}
  MaxFrames = 3
  MaxCalls = 3
  MaxDeletes = 1
SPECIFICATION FairSpec
INVARIANTS IndexProxiedOnce HopsNeedLoss OkRepoIsBuilt
PROPERTY IndexEnds
CHECK_DEADLOCK FALSE
