\* Two Java threads and two callback threads, one of them delivering for a
\* graph RunGraphUntilClose runs; nativeReleaseGraph may come at any time.
CONSTANTS
  Addrs = {a1, a2, a3}
  JavaThreads = {t1, t2}
  CallbackThreads = {c1, c2}
  SyncCallbacks = {c2}
  MaxOps = 8
  StaleReleases = FALSE

SPECIFICATION Spec

INVARIANT PacketsOutliveHolders

CHECK_DEADLOCK FALSE
