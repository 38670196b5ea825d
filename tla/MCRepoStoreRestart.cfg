\* One goroutine, a disk that never fails, and an exit at any moment.
CONSTANTS
  Keys = {k1}
  Repos = {r1}
  NoRepo = NoRepo
  Procs = {p1}
  NoProc = NoProc
  DiskFaults = FALSE
SPECIFICATION Spec
PROPERTIES AckedSurvives
