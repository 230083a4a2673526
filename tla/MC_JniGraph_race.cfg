\* Two Java threads call the native methods with no lock of their own.
CONSTANTS
  Threads = {t1, t2}
  InputStreams = {s1}
  OutputStreams = {o1}
  GraphIds = {g1, g2}
  MaxCalls = 3
  MaxQueue = 1
  NULL = NULL

SPECIFICATION Spec
INVARIANT NoNullOrFreedGraphUse
SYMMETRY ThreadSymmetry
CHECK_DEADLOCK FALSE
