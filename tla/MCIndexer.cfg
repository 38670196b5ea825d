\* Two shards; the file system fails, par may return early.
CONSTANTS
  Entries <- Tree
  Ext <- Extensions
  Hashed = {"todo#"}
  Special = {"sock"}
  Abs = {"/etc"}
  Shards = {s1, s2}
  ChanCap = 1
  Queries <- SomeQueries
  FsFaults = TRUE
SPECIFICATION FairSpec
INVARIANTS DeliveredIsComplete ScanFindsAll
PROPERTIES DeliveredIsFinal IndexReturns
CHECK_DEADLOCK FALSE
