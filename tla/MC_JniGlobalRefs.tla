--------------------------- MODULE MC_JniGlobalRefs ---------------------------
(* The wrapper's JNI global references with two Java threads.              *)
EXTENDS JniGlobalRefs

====
