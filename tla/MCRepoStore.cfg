\* Two writers or iterators on two keys, any disk fault, any exit.
CONSTANTS
  Keys = {k1, k2}
  Repos = {r1}
  NoRepo = NoRepo
  Procs = {p1, p2}
  NoProc = NoProc
  DiskFaults = TRUE
SPECIFICATION FairSpec
INVARIANTS TypeOK FileIsCurrent FileIsACommit
PROPERTIES ForEachHandsOutCommitted IsPersistentMap CallsReturn
