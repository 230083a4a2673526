\* No packet callbacks: the only references are global_java_packet_cls_.
CONSTANTS
  Threads = {t1, t2}
  CallbackStreams = {}
  MaxRefs = 2

SPECIFICATION Spec

INVARIANT AllGlobalRefsReleased

CHECK_DEADLOCK FALSE
