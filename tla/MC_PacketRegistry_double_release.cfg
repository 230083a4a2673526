CONSTANTS
  Addrs = {a1, a2}
  JavaThreads = {t1, t2}
  CallbackThreads = {c1}
  SyncCallbacks = {}
  MaxOps = 5
  StaleReleases = TRUE

SPECIFICATION Spec

INVARIANT RemoveReportsUnregistered

CHECK_DEADLOCK FALSE
