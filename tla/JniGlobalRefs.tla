---------------------------- MODULE JniGlobalRefs ----------------------------
(***************************************************************************)
(* The JNI global references of the graph wrapper (graph.cc, graph_jni.cc):*)
(* one per packet callback (nativeAddPacketCallback, owned by its          *)
(* CallbackHandler) and global_java_packet_cls_ (SetPacketJavaClass, at    *)
(* the start of StartRunningGraph and RunGraphUntilClose).  Callbacks use  *)
(* both; ~Graph deletes both.  SetPacketJavaClass tests and then sets the  *)
(* class reference without a lock, so it is two steps.  A reference is a   *)
(* number; a graph's run is reduced to whether it runs.                   *)
(***************************************************************************)
EXTENDS Naturals

CONSTANTS
  Threads,          \* Java threads calling the native methods
  CallbackStreams,  \* output streams packet callbacks are added for
  MaxRefs           \* bound on the global references created

VARIABLES
  loaded,    \* graph_loaded_
  handlers,  \* the references held by callback_handlers_
  live,      \* global references created and not deleted
  cls,       \* global_java_packet_cls_, or 0 for nullptr
  running,   \* the runs of the wrapper's graphs: "start" (running_graph_), "sync"
  alive,     \* the wrapper is not deleted
  pc,        \* pc[t]: "idle", "set_cls" (tested nullptr), "sync" (in Run)
  mode,      \* mode[t]: "start" or "sync", the call t is in
  nextRef,   \* the next reference value NewGlobalRef returns
  faults     \* callbacks that used a deleted or null reference

vars == <<loaded, handlers, live, cls, running, alive, pc, mode, nextRef,
          faults>>

NoRef == 0

\* env->NewGlobalRef succeeded: a fresh reference, now live.
NewGlobalRef == /\ nextRef <= MaxRefs
                /\ live' = live \cup {nextRef}
                /\ nextRef' = nextRef + 1

\* LoadBinaryGraph: a graph that parses sets graph_loaded_; one that does
\* not returns an error and leaves it as it was.
LoadBinaryGraph(t) ==
  /\ alive /\ pc[t] = "idle"
  /\ loaded' \in {loaded, TRUE}
  /\ UNCHANGED <<handlers, live, cls, running, alive, pc, mode, nextRef, faults>>

(***************************************************************************)
(* nativeAddPacketCallback (and the header variant): NewGlobalRef of the   *)
(* callback ("Failed to allocate" if none, which changes nothing); then   *)
(* AddCallbackHandler, which returns "Graph is not loaded!" before a       *)
(* handler takes the reference.                                            *)
(***************************************************************************)
AddPacketCallback(t) ==
  /\ alive /\ pc[t] = "idle"
  /\ CallbackStreams # {}
  /\ NewGlobalRef
  /\ handlers' = IF loaded THEN handlers \cup {nextRef} ELSE handlers
  /\ UNCHANGED <<loaded, cls, running, alive, pc, mode, faults>>

\* StartRunningGraph without its call of SetPacketJavaClass.
RunWithoutPacketClass(t) ==
  /\ alive /\ pc[t] = "idle"
  /\ \E m \in {"start", "sync"} :
       /\ "start" \notin running \/ m = "sync"
       /\ mode' = [mode EXCEPT ![t] = m]
       /\ \E ok \in BOOLEAN :
            /\ running' = running \cup (IF ok THEN {m} ELSE {})
            /\ pc' = [pc EXCEPT ![t] = IF m = "sync" /\ ok THEN "sync" ELSE "idle"]
  /\ UNCHANGED <<loaded, handlers, live, cls, alive, nextRef, faults>>

(***************************************************************************)
(* StartRunningGraph ("Graph is already running." if running_graph_ is     *)
(* set) or RunGraphUntilClose, up to SetPacketJavaClass's test: if         *)
(* global_java_packet_cls_ is nullptr the thread goes on to set it;        *)
(* otherwise the graph is initialized and started (which may fail), and a  *)
(* synchronous run keeps the thread until the graph is done.               *)
(***************************************************************************)
RunGraph(t) ==
  /\ alive /\ pc[t] = "idle"
  /\ \E m \in {"start", "sync"} :
       /\ "start" \notin running \/ m = "sync"
       /\ mode' = [mode EXCEPT ![t] = m]
       /\ IF cls = NoRef
            THEN pc' = [pc EXCEPT ![t] = "set_cls"] /\ UNCHANGED running
            ELSE \E ok \in BOOLEAN :
                   /\ running' = running \cup (IF ok THEN {m} ELSE {})
                   /\ pc' = [pc EXCEPT ![t] = IF m = "sync" /\ ok THEN "sync" ELSE "idle"]
  /\ UNCHANGED <<loaded, handlers, live, cls, alive, nextRef, faults>>

\* SetPacketJavaClass's assignment, then the run as above.  A reference
\* another thread stored since the test is overwritten.
SetPacketJavaClass(t) ==
  /\ pc[t] = "set_cls"
  /\ NewGlobalRef
  /\ cls' = nextRef
  /\ \E ok \in BOOLEAN :
       /\ running' = running \cup (IF ok THEN {mode[t]} ELSE {})
       /\ pc' = [pc EXCEPT ![t] = IF mode[t] = "sync" /\ ok THEN "sync" ELSE "idle"]
  /\ UNCHANGED <<loaded, handlers, alive, mode, faults>>

\* CallbackToJava: CreateJavaPacket with global_java_packet_cls_ and
\* CallVoidMethod on a handler's callback reference.
CallbackToJava ==
  /\ running # {}
  /\ \E r \in handlers :
       faults' = faults \cup (IF cls \in live /\ r \in live THEN {}
                              ELSE {"dead_global_ref"})
  /\ UNCHANGED <<loaded, handlers, live, cls, running, alive, pc, mode, nextRef>>

\* The graph is done: WaitUntilDone returns, or Run returns to its thread.
GraphDone ==
  /\ \E m \in running :
       /\ running' = running \ {m}
       /\ pc' = [t \in Threads |-> IF m = "sync" /\ pc[t] = "sync" THEN "idle" ELSE pc[t]]
  /\ UNCHANGED <<loaded, handlers, live, cls, alive, mode, nextRef, faults>>

(***************************************************************************)
(* nativeReleaseGraph, ~Graph: Cancel and WaitUntilDone of running_graph_, *)
(* then ReleaseCallback (DeleteGlobalRef) of every handler and             *)
(* DeleteGlobalRef of global_java_packet_cls_.  The Java side releases the *)
(* graph when no call of it is in progress.                                *)
(***************************************************************************)
ReleaseGraph(t) ==
  /\ alive
  /\ \A u \in Threads : pc[u] = "idle"
  /\ running' = running \ {"start"}
  /\ live' = live \ (handlers \cup {cls})
  /\ handlers' = {}
  /\ cls' = NoRef
  /\ alive' = FALSE
  /\ UNCHANGED <<loaded, pc, mode, nextRef, faults>>

Init ==
  /\ loaded = FALSE
  /\ handlers = {}
  /\ live = {}
  /\ cls = NoRef
  /\ running = {}
  /\ alive = TRUE
  /\ pc = [t \in Threads |-> "idle"]
  /\ mode = [t \in Threads |-> "start"]
  /\ nextRef = 1
  /\ faults = {}

Next ==
  \/ \E t \in Threads :
       \/ LoadBinaryGraph(t) \/ AddPacketCallback(t) \/ RunGraph(t)
       \/ SetPacketJavaClass(t) \/ ReleaseGraph(t)
  \/ CallbackToJava \/ GraphDone

Spec == Init /\ [][Next]_vars

-----------------------------------------------------------------------------

(* Every callback a graph delivers finds global_java_packet_cls_ and its   *)
(* handler's callback reference live: SetPacketJavaClass runs before any   *)
(* graph of the wrapper starts, whichever of the two run calls and thread  *)
(* interleavings starts it, and ~Graph deletes the references only after   *)
(* the graph is done.                                                      *)
JavaRefsValidInCallbacks == faults = {}

(* Every JNI global reference the wrapper creates is deleted by the time   *)
(* the wrapper is: ~Graph "cleans up the jni objects", and ~CallbackHandler*)
(* logs an error for a callback reference that was not released.          *)
AllGlobalRefsReleased == ~alive => live = {}

====
