CONSTANTS
  Threads = {t1}
  InputStreams = {s1}
  OutputStreams = {o1}
  GraphIds = {g1, g2}
  MaxCalls = 6
  MaxQueue = 1
  NULL = NULL

SPECIFICATION Spec

INVARIANT TypeOK
INVARIANT NoUndefinedBehaviour
INVARIANT NoWedgedRunningGraph
PROPERTY ImplementsGraphLifecycle

\* A Java thread that has used its calls, or waits for a graph whose inputs
\* it never closed, stops: the system really halts there.
CHECK_DEADLOCK FALSE
