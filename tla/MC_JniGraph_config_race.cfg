\* Two Java threads: one starts a graph while the other configures the
\* wrapper, with no lock of their own.
CONSTANTS
  Threads = {t1, t2}
  InputStreams = {s1}
  OutputStreams = {o1}
  GraphIds = {g1, g2}
  MaxCalls = 3
  MaxQueue = 1
  NULL = NULL

SPECIFICATION Spec
INVARIANT NoConfigRace
SYMMETRY ThreadSymmetry
CHECK_DEADLOCK FALSE
