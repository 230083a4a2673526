\* One Java thread loads, registers a callback, loads again and starts.
CONSTANTS
  Threads = {t1}
  InputStreams = {s1}
  OutputStreams = {o1}
  GraphIds = {g1}
  MaxCalls = 4
  MaxQueue = 1
  NULL = NULL

SPECIFICATION Spec
PROPERTY CallbacksWiredAtStart
CHECK_DEADLOCK FALSE
