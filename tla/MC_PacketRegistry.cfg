CONSTANTS
  Addrs = {a1, a2, a3}
  JavaThreads = {t1, t2}
  CallbackThreads = {c1, c2}
  SyncCallbacks = {}
  MaxOps = 8
  StaleReleases = FALSE

SPECIFICATION Spec

PROPERTY ImplementsPacketStore

\* Once the operations are used up and every handle released, or after
\* ~Graph, nothing further happens: the system really stops there.
CHECK_DEADLOCK FALSE
