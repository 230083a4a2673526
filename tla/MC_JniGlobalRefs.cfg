CONSTANTS
  Threads = {t1, t2}
  CallbackStreams = {o1}
  MaxRefs = 4

SPECIFICATION Spec

INVARIANT JavaRefsValidInCallbacks

\* After ~Graph, or with the references used up, nothing further happens.
CHECK_DEADLOCK FALSE
