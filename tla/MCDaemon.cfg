\* Three calls of the counters; the server with two closers besides its own.
CONSTANTS
  Callers = {p1, p2, p3}
  CtrKeys = {x, y}
  Amounts = {1, 2}
  Width = 2
  GetDepth = 1
  Closers = {c1, c2}
  ServeClose = ServeClose
  MainClose = MainClose
  StartDelay = 3
  MaxDelay = 20
SPECIFICATION FairSpec
INVARIANTS ReadsAreCurrent TokensAddUp
PROPERTIES CallsReturnOrClosed CloseStopsServe AtMostOneCloseHangs
CHECK_DEADLOCK FALSE
