\* Three daemons, one search more than a hop away.
CONSTANTS
  Daemons = {A, B, C}
  LocalName = localhost
  Alias = alias
  Target = B
  None = None
  FrontEnds = {A, B}
  Slots = {s1}
  MaxFrames = 3
  MaxCalls = 3
  MaxDeletes = 1
SPECIFICATION Spec
INVARIANTS SearchProxiedOnce
CHECK_DEADLOCK FALSE
