------------------------------ MODULE JniGraph ------------------------------
(***************************************************************************)
(* The Java-facing wrapper mediapipe::android::Graph (jni/graph.cc) and    *)
(* its JNI entry points (jni/graph_jni.cc), called by Java threads that    *)
(* hold no native lock.  The wrapper keeps a CalculatorGraphConfig         *)
(* (graph_), the registered packet callbacks, and at most one              *)
(* asynchronously running CalculatorGraph (running_graph_);                *)
(* RunGraphUntilClose runs a second, local CalculatorGraph on the calling  *)
(* thread.                                                                 *)
(*                                                                         *)
(* Every native method that uses running_graph_ first tests it and then    *)
(* reads it again to call through it, so a call is split into the steps    *)
(* between which another thread may reset the pointer.  A blocking call    *)
(* (WaitUntilDone, WaitUntilIdle, a full WAIT_TILL_NOT_FULL add) keeps the *)
(* object it entered.  Undefined behaviour (calling through NULL, through  *)
(* a destroyed graph, or through the deleted wrapper) is recorded in       *)
(* faults and the step goes on.                                            *)
(*                                                                         *)
(* CalculatorGraph is not among this repository's sources: its lifecycle   *)
(* (construct, initialize+start, process, cancel, finish) is modelled from *)
(* spec.md sections 4.6, 4.7 and 7, at the level the wrapper observes it.  *)
(***************************************************************************)
EXTENDS Naturals, FiniteSets

CONSTANTS
  Threads,        \* Java threads calling the native methods
  InputStreams,   \* graph input streams a loaded config may declare
  OutputStreams,  \* output streams a Java packet callback may observe
  GraphIds,       \* CalculatorGraph objects a behaviour may allocate
  MaxCalls,       \* native calls made by each Java thread
  MaxQueue,       \* packets a graph holds before its inputs are full
  NULL

ASSUME /\ MaxCalls \in Nat
       /\ MaxQueue \in Nat \ {0}
       /\ NULL \notin GraphIds \cup InputStreams

VARIABLES
  graphLoaded,   \* graph_loaded_
  config,        \* graph_, the CalculatorGraphConfig, abstracted
  handlers,      \* output streams with an entry in callback_handlers_
  addMode,       \* graph_input_stream_add_mode_
  gpuResources,  \* gpu_resources_ is set (SetParentGlContext)
  runningGraph,  \* running_graph_: a graph id or NULL
  wrapperAlive,  \* the android::Graph object has not been deleted
  cg,            \* the CalculatorGraph objects, by id
  pc,            \* per Java thread: the native call it is in
  arg,           \* per Java thread: the stream argument of that call
  ptr,           \* per Java thread: the graph a blocking call entered
  calls,         \* per Java thread: native calls made so far
  faults         \* history: undefined behaviour performed so far

vars == <<graphLoaded, config, handlers, addMode, gpuResources, runningGraph,
          wrapperAlive, cg, pc, arg, ptr, calls, faults>>

-----------------------------------------------------------------------------
(* The graph configuration.  A config is valid when Initialize accepts it; *)
(* inputs are its graph input streams, sources says whether it has source  *)
(* calculators, sinks are the callback calculators AddCallbackHandler      *)
(* appended to it.                                                         *)

Config == [valid: BOOLEAN, inputs: SUBSET InputStreams, sources: BOOLEAN,
           sinks: SUBSET OutputStreams]

\* graph_ as the constructor leaves it: an empty CalculatorGraphConfig.
EmptyConfig == [valid |-> TRUE, inputs |-> {}, sources |-> FALSE, sinks |-> {}]

\* What ParseFromString may leave in graph_: it clears the message first, so
\* no callback calculator survives; a failed parse leaves a partial message.
ParsedConfigs(valid) ==
  {[valid |-> v, inputs |-> i, sources |-> s, sinks |-> {}] :
      v \in valid, i \in {{}, InputStreams}, s \in BOOLEAN}

-----------------------------------------------------------------------------
(* CalculatorGraph objects (spec.md 4.6, 4.7).  queued counts packets in   *)
(* the graph, busy is an invocation in flight, srcDone says the source     *)
(* calculators have finished, blocking is the add mode set at start.       *)

GraphState == {"unused", "constructed", "running", "done", "destroyed"}

GraphRec == [st: GraphState, open: SUBSET InputStreams, queued: 0..MaxQueue,
             busy: BOOLEAN, cancelled: BOOLEAN, failed: BOOLEAN,
             sinks: SUBSET OutputStreams, blocking: BOOLEAN, srcDone: BOOLEAN]

Unallocated == [st |-> "unused", open |-> {}, queued |-> 0, busy |-> FALSE,
                cancelled |-> FALSE, failed |-> FALSE, sinks |-> {},
                blocking |-> TRUE, srcDone |-> TRUE]

FreeIds == {g \in GraphIds : cg[g].st = "unused"}

\* new CalculatorGraph(): which unused id it takes does not matter, as ids
\* are interchangeable and never reused, so the model takes a fixed one.
NewGraphId == CHOOSE g \in FreeIds : TRUE

Running(g) == g # NULL /\ cg[g].st = "running"

Finished(g) == cg[g].st \in {"done", "destroyed"}

\* A packet for stream s is taken by graph g.
Accepts(g, s) == /\ Running(g)
                 /\ s \in cg[g].open
                 /\ ~cg[g].cancelled
                 /\ ~cg[g].failed

Full(g) == cg[g].queued = MaxQueue

\* No work is pending and no invocation is in flight.
GraphIdle(g) == ~Running(g) \/ (cg[g].queued = 0 /\ ~cg[g].busy)

\* Bug variant of Enqueue: the full-queue test is dropped.
EnqueueIgnoringFull(g, s) ==
  IF g # NULL /\ Accepts(g, s)
    THEN [cg EXCEPT ![g].queued = @ + 1]
    ELSE cg

\* AddPacketToInputStream on g: the packet is queued if g takes it and is
\* not full; otherwise an error status is returned and nothing changes.
Enqueue(g, s) ==
  IF g # NULL /\ Accepts(g, s) /\ ~Full(g)
    THEN [cg EXCEPT ![g].queued = @ + 1]
    ELSE cg

\* Deleting a graph object (unique_ptr reset or end of scope).
Destroy(c, g) == IF g = NULL THEN c ELSE [c EXCEPT ![g].st = "destroyed"]

-----------------------------------------------------------------------------
(* Undefined behaviour a step performs.                                    *)

Fault(bad) == faults' = faults \cup bad

\* A native call running on the deleted android::Graph.
WrapperUse == IF wrapperAlive THEN {} ELSE {"wrapper_uaf"}

\* running_graph_-> when running_graph_ has been reset.
NullUse(g) == IF g = NULL THEN {"null_deref"} ELSE {}

\* A blocking call returning from a graph destroyed while it was inside.
GraphUse(g) == IF cg[g].st = "destroyed" THEN {"graph_uaf"} ELSE {}

\* Between the reset of running_graph_ and the return of StartRunningGraph.
StartPCs == {"start", "start_init", "start_run"}

\* A write of a member StartRunningGraph reads (the add mode,
\* gpu_resources_, graph_ in Initialize, side_packets_ and stream_headers_
\* in StartRun) while another thread is inside it: a data race.
ConfigRace(t) == IF \E u \in Threads \ {t} : pc[u] \in StartPCs
                   THEN {"config_race"} ELSE {}

-----------------------------------------------------------------------------
(* Java threads.                                                           *)

PCs == StartPCs \cup {"idle", "add", "add_blocked", "close", "close_all",
        "close_sources", "cancel", "wait", "wait_blocked", "idle_wait",
        "idle_blocked", "profiler", "sync", "release", "released"}

\* A Java thread enters a native method.
Call(t) == /\ pc[t] = "idle"
           /\ wrapperAlive
           /\ calls[t] < MaxCalls
           /\ calls' = [calls EXCEPT ![t] = @ + 1]

\* The native method returns to Java.
Return(t) == /\ pc' = [pc EXCEPT ![t] = "idle"]
             /\ arg' = [arg EXCEPT ![t] = NULL]
             /\ ptr' = [ptr EXCEPT ![t] = NULL]

\* A blocking call enters graph g and waits in it.
Block(t, g, at) == /\ pc' = [pc EXCEPT ![t] = at]
                   /\ ptr' = [ptr EXCEPT ![t] = g]
                   /\ UNCHANGED arg

-----------------------------------------------------------------------------
(* Configuration calls: atomic, they touch only the wrapper; one that     *)
(* writes what a concurrent StartRunningGraph reads races with it.         *)

\* LoadBinaryGraph (path and byte-array forms): reading the file may fail
\* and leave graph_ alone; a failed parse leaves graph_ cleared and partly
\* filled but keeps graph_loaded_; a successful parse sets graph_loaded_.
LoadBinaryGraph(t) ==
  /\ Call(t)
  /\ \/ UNCHANGED <<config, graphLoaded, faults>>
     \/ /\ config' \in ParsedConfigs(BOOLEAN)
        /\ UNCHANGED graphLoaded
        /\ Fault(ConfigRace(t))
     \/ /\ config' \in ParsedConfigs({TRUE})
        /\ graphLoaded' = TRUE
        /\ Fault(ConfigRace(t))
  /\ UNCHANGED <<handlers, addMode, gpuResources, runningGraph, wrapperAlive,
                 cg, pc, arg, ptr>>

\* AddCallbackHandler / AddCallbackWithHeaderHandler for output stream o:
\* refused before a graph is loaded; otherwise a callback calculator is
\* appended to graph_ and its handler kept for the side packet.
AddCallbackHandler(t, o) ==
  /\ Call(t)
  /\ \/ /\ ~graphLoaded
        /\ UNCHANGED <<config, handlers, faults>>
     \/ /\ graphLoaded
        /\ config' = [config EXCEPT !.sinks = @ \cup {o}]
        /\ handlers' = handlers \cup {o}
        /\ Fault(ConfigRace(t))
  /\ UNCHANGED <<graphLoaded, addMode, gpuResources, runningGraph,
                 wrapperAlive, cg, pc, arg, ptr>>

\* nativeSetGraphInputStreamBlockingMode: read at the next start only.
SetGraphInputStreamAddMode(t, blocking) ==
  /\ Call(t)
  /\ addMode' = IF blocking THEN "WAIT_TILL_NOT_FULL" ELSE "ADD_IF_NOT_FULL"
  /\ Fault(ConfigRace(t))
  /\ UNCHANGED <<graphLoaded, config, handlers, gpuResources, runningGraph,
                 wrapperAlive, cg, pc, arg, ptr>>

\* SetParentGlContext (nativeSetParentGlContext): AlreadyExists once
\* gpu_resources_ is set, else GpuResources::Create for the Java EGL context
\* (the GPU build; the other aborts).
SetParentGlContext(t) ==
  /\ Call(t)
  /\ \/ /\ gpuResources
        /\ UNCHANGED <<gpuResources, faults>>
     \/ /\ ~gpuResources
        /\ gpuResources' = TRUE
        /\ Fault(ConfigRace(t))
  /\ UNCHANGED <<graphLoaded, config, handlers, addMode, runningGraph,
                 wrapperAlive, cg, pc, arg, ptr>>

\* AddSurfaceOutput (GPU build): "Graph is not loaded!" returns handle 0;
\* otherwise a GlSurfaceSinkCalculator is appended to graph_ and its
\* surface side packet kept, whose handle PacketRegistry models.  A surface
\* sink never calls into the wrapper, so the abstract config is unchanged.
AddSurfaceOutput(t) ==
  /\ Call(t)
  /\ \/ /\ ~graphLoaded
        /\ UNCHANGED faults
     \/ /\ graphLoaded
        /\ Fault(ConfigRace(t))
  /\ UNCHANGED <<graphLoaded, config, handlers, addMode, gpuResources,
                 runningGraph, wrapperAlive, cg, pc, arg, ptr>>

\* nativeGetCalculatorGraphConfig copies graph_ out and serializes it;
\* nativeUpdatePacketReference works on two packet handles only (modelled in
\* PacketRegistry).  Neither writes the wrapper.
ReadOnlyCall(t) ==
  /\ Call(t)
  /\ UNCHANGED <<graphLoaded, config, handlers, addMode, gpuResources,
                 runningGraph, wrapperAlive, cg, pc, arg, ptr,
                 faults>>

-----------------------------------------------------------------------------
(* Starting and running a graph.                                           *)

\* AddSidePacketsIntoGraph and AddStreamHeadersIntoGraph: the Java arrays
\* are copied into side_packets_ and stream_headers_ (SetInputSidePacket,
\* SetStreamHeader) before the start is tried; empty arrays write nothing.
CopyStartInputs(t, more) ==
  \E copies \in BOOLEAN : Fault((IF copies THEN ConfigRace(t) ELSE {}) \cup more)

\* Bug variant of StartRunningGraph: no "already running" test, so
\* running_graph_.reset(new CalculatorGraph()) deletes the current graph.
StartRunningGraphWithoutCheck(t) ==
  /\ Call(t)
  /\ \/ /\ UNCHANGED <<runningGraph, cg, pc, arg, ptr>>
     \/ /\ FreeIds # {}
        /\ cg' = [Destroy(cg, runningGraph) EXCEPT ![NewGraphId].st = "constructed"]
        /\ runningGraph' = NewGraphId
        /\ pc' = [pc EXCEPT ![t] = "start"]
        /\ UNCHANGED <<arg, ptr>>
  /\ UNCHANGED <<graphLoaded, config, handlers, addMode, gpuResources,
                 wrapperAlive, faults>>

\* AddSidePacketsIntoGraph / AddStreamHeadersIntoGraph: a names array and a
\* handles array of different lengths make the JNI call throw before any
\* graph is started.
SidePacketsRefused == UNCHANGED <<runningGraph, cg, pc, arg, ptr>>

\* nativeStartRunningGraph, first step: the side packet and header arrays
\* are copied in, then StartRunningGraph refuses if running_graph_ is set,
\* else it resets running_graph_ to a new CalculatorGraph.
StartRunningGraph(t) ==
  /\ Call(t)
  /\ CopyStartInputs(t, {})
  /\ \/ SidePacketsRefused
     \/ /\ runningGraph # NULL
        /\ UNCHANGED <<runningGraph, cg, pc, arg, ptr>>
     \/ /\ runningGraph = NULL
        /\ FreeIds # {}
        /\ cg' = [cg EXCEPT ![NewGraphId].st = "constructed"]
        /\ runningGraph' = NewGraphId
        /\ pc' = [pc EXCEPT ![t] = "start"]
        /\ UNCHANGED <<arg, ptr>>
  /\ UNCHANGED <<graphLoaded, config, handlers, addMode, gpuResources,
                 wrapperAlive>>

(***************************************************************************)
(* StartRunningGraph after the reset, through running_graph_ as it is now, *)
(* one step per call that can fail.  Each failing call logs, resets        *)
(* running_graph_ and returns its status.  The SetServicePacket loop in    *)
(* between runs over service_packets_, which no native method fills, so   *)
(* it never runs and its exit is not reachable.                            *)
(***************************************************************************)

\* A failing call: running_graph_.reset(nullptr), return the status.
StartFails(t) == /\ cg' = Destroy(cg, runningGraph)
                 /\ runningGraph' = NULL
                 /\ Return(t)

\* The next call of the start sequence is reached.
StartGoesOn(t, next) == /\ pc' = [pc EXCEPT ![t] = next]
                        /\ UNCHANGED <<cg, runningGraph, arg, ptr>>

\* SetGpuResources(gpu_resources_) (the GPU build): CalculatorGraph, outside
\* this repository, may refuse the resources.
StartSetGpuResources(t) ==
  /\ pc[t] = "start"
  /\ Fault(WrapperUse \cup NullUse(runningGraph))
  /\ \/ StartFails(t)
     \/ StartGoesOn(t, "start_init")
  /\ UNCHANGED <<graphLoaded, config, handlers, addMode, gpuResources,
                 wrapperAlive, calls>>

\* Bug variant of StartInitialize: the failure returns without the reset.
StartInitializeKeepingFailedGraph(t) ==
  LET g == runningGraph IN
  /\ pc[t] = "start_init"
  /\ Fault(WrapperUse \cup NullUse(g))
  /\ \/ /\ g # NULL /\ cg[g].st = "constructed" /\ config.valid
        /\ StartGoesOn(t, "start_run")
     \/ /\ ~(g # NULL /\ cg[g].st = "constructed" /\ config.valid)
        /\ Return(t)
        /\ UNCHANGED <<cg, runningGraph>>
  /\ UNCHANGED <<graphLoaded, config, handlers, addMode, gpuResources,
                 wrapperAlive, calls>>

\* Initialize(graph_): fails on an invalid config, or on a graph that is
\* not fresh (another thread's start has put its own graph there).
StartInitialize(t) ==
  LET g == runningGraph IN
  /\ pc[t] = "start_init"
  /\ Fault(WrapperUse \cup NullUse(g))
  /\ \/ /\ g # NULL /\ cg[g].st = "constructed" /\ config.valid
        /\ StartGoesOn(t, "start_run")
     \/ /\ ~(g # NULL /\ cg[g].st = "constructed" /\ config.valid)
        /\ StartFails(t)
  /\ UNCHANGED <<graphLoaded, config, handlers, addMode, gpuResources,
                 wrapperAlive, calls>>

\* StartRun(CreateCombinedSidePackets(), stream_headers_): may fail (a side
\* packet or header the graph needs is missing); on success the graph runs
\* with the config's input streams open, its callback calculators wired,
\* and the add mode set before Initialize.
StartRun(t) ==
  LET g == runningGraph IN
  /\ pc[t] = "start_run"
  /\ Fault(WrapperUse \cup NullUse(g))
  /\ \/ StartFails(t)
     \/ /\ g # NULL
        /\ cg[g].st = "constructed"
        /\ cg' = [cg EXCEPT ![g] = [Unallocated EXCEPT
                    !.st = "running", !.open = config.inputs,
                    !.sinks = config.sinks,
                    !.blocking = (addMode = "WAIT_TILL_NOT_FULL"),
                    !.srcDone = ~config.sources]]
        /\ Return(t)
        /\ UNCHANGED runningGraph
  /\ UNCHANGED <<graphLoaded, config, handlers, addMode, gpuResources,
                 wrapperAlive, calls>>

\* nativeRunGraphUntilClose: side packets are copied in, then a local
\* CalculatorGraph is built from graph_ and Run() on this thread.  That
\* constructor CHECKs Initialize(graph_), so an invalid graph_ aborts the
\* process; Run refuses a config with graph input streams (spec.md 9: the
\* synchronous form) and may fail to start.  The graph is not
\* running_graph_, so no other native call reaches it.
RunGraphUntilClose(t) ==
  /\ Call(t)
  /\ \/ /\ CopyStartInputs(t, {})
        /\ SidePacketsRefused
     \/ /\ ~config.valid
        /\ CopyStartInputs(t, {"abort"})
        /\ UNCHANGED <<cg, pc, arg, ptr>>
     \/ /\ config.valid
        /\ FreeIds # {}
        /\ CopyStartInputs(t, {})
        /\ LET g == NewGraphId IN
            \/ /\ config.inputs = {}
               /\ cg' = [cg EXCEPT ![g] = [Unallocated EXCEPT
                           !.st = "running", !.sinks = config.sinks,
                           !.srcDone = ~config.sources]]
               /\ Block(t, g, "sync")
            \/ /\ cg' = [cg EXCEPT ![g].st = "destroyed"]
               /\ UNCHANGED <<pc, arg, ptr>>
  /\ UNCHANGED <<graphLoaded, config, handlers, addMode, gpuResources,
                 runningGraph, wrapperAlive>>

\* Run() returns once the local graph is done; the graph goes out of scope.
RunGraphUntilCloseReturn(t) ==
  /\ pc[t] = "sync"
  /\ cg[ptr[t]].st = "done"
  /\ cg' = Destroy(cg, ptr[t])
  /\ Fault(WrapperUse)
  /\ Return(t)
  /\ UNCHANGED <<graphLoaded, config, handlers, addMode, gpuResources,
                 runningGraph, wrapperAlive, calls>>

-----------------------------------------------------------------------------
(* Calls through running_graph_.  The first step is the shared             *)
(* "if (!running_graph_) return FailedPrecondition" test; CancelGraph has  *)
(* the same test and returns silently.                                     *)

TwoStepCalls == {"add", "close", "close_all", "close_sources", "cancel",
                 "wait", "idle_wait", "profiler"}

CheckRunningWithoutNullCheck(t, op, a) ==
  /\ Call(t)
  /\ pc' = [pc EXCEPT ![t] = op]
  /\ arg' = [arg EXCEPT ![t] = a]
  /\ UNCHANGED <<graphLoaded, config, handlers, addMode, gpuResources,
                 runningGraph, wrapperAlive, cg, ptr, faults>>

\* A call to op with stream argument a tests running_graph_.
CheckRunning(t, op, a) ==
  /\ Call(t)
  /\ \/ /\ runningGraph = NULL
        /\ UNCHANGED <<pc, arg>>
     \/ /\ runningGraph # NULL
        /\ pc' = [pc EXCEPT ![t] = op]
        /\ arg' = [arg EXCEPT ![t] = a]
  /\ UNCHANGED <<graphLoaded, config, handlers, addMode, gpuResources,
                 runningGraph, wrapperAlive, cg, ptr, faults>>

\* AddPacketToInputStream (copy, move and SetTimestampAndMove forms) through
\* running_graph_: a full graph in WAIT_TILL_NOT_FULL mode blocks the
\* caller; otherwise the packet is queued or an error returned.
AddPacketToInputStream(t) ==
  LET g == runningGraph IN
  /\ pc[t] = "add"
  /\ Fault(WrapperUse \cup NullUse(g))
  /\ \/ /\ g # NULL
        /\ Accepts(g, arg[t]) /\ Full(g) /\ cg[g].blocking
        /\ Block(t, g, "add_blocked")
        /\ UNCHANGED cg
     \/ /\ ~(g # NULL /\ Accepts(g, arg[t]) /\ Full(g) /\ cg[g].blocking)
        /\ cg' = Enqueue(g, arg[t])
        /\ Return(t)
  /\ UNCHANGED <<graphLoaded, config, handlers, addMode, gpuResources,
                 runningGraph, wrapperAlive, calls>>

\* A blocked add wakes once the graph has room or no longer takes input.
AddPacketUnblock(t) ==
  LET g == ptr[t] IN
  /\ pc[t] = "add_blocked"
  /\ ~(Accepts(g, arg[t]) /\ Full(g))
  /\ Fault(WrapperUse \cup GraphUse(g))
  /\ cg' = Enqueue(g, arg[t])
  /\ Return(t)
  /\ UNCHANGED <<graphLoaded, config, handlers, addMode, gpuResources,
                 runningGraph, wrapperAlive, calls>>

\* CloseInputStream, CloseAllInputStreams and CloseAllPacketSources through
\* running_graph_; closing the packet sources also ends the source
\* calculators.
CloseStreams(t) ==
  LET g == runningGraph
      closing == IF pc[t] = "close" THEN {arg[t]} ELSE InputStreams
  IN
  /\ pc[t] \in {"close", "close_all", "close_sources"}
  /\ Fault(WrapperUse \cup NullUse(g))
  /\ cg' = IF g = NULL THEN cg
           ELSE [cg EXCEPT ![g].open = @ \ closing,
                           ![g].srcDone = @ \/ pc[t] = "close_sources"]
  /\ Return(t)
  /\ UNCHANGED <<graphLoaded, config, handlers, addMode, gpuResources,
                 runningGraph, wrapperAlive, calls>>

\* CancelGraph through running_graph_: a running graph stops dispatching.
CancelGraph(t) ==
  LET g == runningGraph IN
  /\ pc[t] = "cancel"
  /\ Fault(WrapperUse \cup NullUse(g))
  /\ cg' = IF Running(g) THEN [cg EXCEPT ![g].cancelled = TRUE] ELSE cg
  /\ Return(t)
  /\ UNCHANGED <<graphLoaded, config, handlers, addMode, gpuResources,
                 runningGraph, wrapperAlive, calls>>

\* WaitUntilDone / WaitUntilIdle enter running_graph_ and block in it.
WaitEnter(t) ==
  LET g == runningGraph IN
  /\ pc[t] \in {"wait", "idle_wait"}
  /\ Fault(WrapperUse \cup NullUse(g))
  /\ \/ /\ g = NULL
        /\ Return(t)
     \/ /\ g # NULL
        /\ Block(t, g, IF pc[t] = "wait" THEN "wait_blocked" ELSE "idle_blocked")
  /\ UNCHANGED <<graphLoaded, config, handlers, addMode, gpuResources,
                 runningGraph, wrapperAlive, cg, calls>>

\* WaitUntilDone returns when its graph is done, then resets running_graph_
\* (whatever it points to by now).
WaitUntilDone(t) ==
  /\ pc[t] = "wait_blocked"
  /\ Finished(ptr[t])
  /\ Fault(WrapperUse \cup GraphUse(ptr[t]))
  /\ cg' = Destroy(cg, runningGraph)
  /\ runningGraph' = NULL
  /\ Return(t)
  /\ UNCHANGED <<graphLoaded, config, handlers, addMode, gpuResources,
                 wrapperAlive, calls>>

\* WaitUntilIdle returns when its graph has no pending work.
WaitUntilIdle(t) ==
  /\ pc[t] = "idle_blocked"
  /\ GraphIdle(ptr[t])
  /\ Fault(WrapperUse \cup GraphUse(ptr[t]))
  /\ Return(t)
  /\ UNCHANGED <<graphLoaded, config, handlers, addMode, gpuResources,
                 runningGraph, wrapperAlive, cg, calls>>

\* GetProfilingContext (nativeGetProfiler) through running_graph_: the
\* graph's profiler is handed to Java.
GetProfilingContext(t) ==
  /\ pc[t] = "profiler"
  /\ Fault(WrapperUse \cup NullUse(runningGraph))
  /\ Return(t)
  /\ UNCHANGED <<graphLoaded, config, handlers, addMode, gpuResources,
                 runningGraph, wrapperAlive, cg, calls>>

-----------------------------------------------------------------------------
(* nativeReleaseGraph: delete of the wrapper.  ~Graph cancels and waits    *)
(* for running_graph_ if it is set, releases the callback references, and  *)
(* the members (running_graph_ among them) are destroyed.                  *)

ReleaseGraph(t) ==
  LET g == runningGraph IN
  /\ Call(t)
  /\ \/ /\ g # NULL
        /\ cg' = IF Running(g) THEN [cg EXCEPT ![g].cancelled = TRUE] ELSE cg
        /\ Block(t, g, "release")
        /\ UNCHANGED wrapperAlive
     \/ /\ g = NULL
        /\ wrapperAlive' = FALSE
        /\ pc' = [pc EXCEPT ![t] = "released"]
        /\ UNCHANGED <<cg, arg, ptr>>
  /\ UNCHANGED <<graphLoaded, config, handlers, addMode, gpuResources,
                 runningGraph, faults>>

ReleaseGraphDone(t) ==
  /\ pc[t] = "release"
  /\ Finished(ptr[t])
  /\ Fault(GraphUse(ptr[t]))
  /\ cg' = Destroy(cg, runningGraph)
  /\ wrapperAlive' = FALSE
  /\ pc' = [pc EXCEPT ![t] = "released"]
  /\ UNCHANGED <<graphLoaded, config, handlers, addMode, gpuResources,
                 runningGraph, arg, ptr, calls>>

-----------------------------------------------------------------------------
(* Inside a CalculatorGraph (spec.md 4.5, 4.6): the scheduler's steps.     *)

\* A node invocation takes a queued packet.
ProcessBegin(g) ==
  /\ Running(g)
  /\ cg[g].queued > 0
  /\ ~cg[g].busy /\ ~cg[g].cancelled /\ ~cg[g].failed
  /\ cg' = [cg EXCEPT ![g].queued = @ - 1, ![g].busy = TRUE]
  /\ UNCHANGED faults

\* The invocation ends; its output reaches the callback calculators, which
\* call CallbackToJava on the wrapper (context_).  An invocation already
\* in flight completes even on a cancelled or destroyed graph.
ProcessEnd(g) ==
  /\ cg[g].busy
  /\ cg' = [cg EXCEPT ![g].busy = FALSE]
  /\ Fault(IF cg[g].sinks # {} THEN WrapperUse ELSE {})

\* A source calculator emits a packet.
SourceEmit(g) ==
  /\ Running(g)
  /\ ~cg[g].srcDone /\ ~cg[g].cancelled /\ ~cg[g].failed
  /\ ~Full(g)
  /\ cg' = [cg EXCEPT ![g].queued = @ + 1]
  /\ UNCHANGED faults

\* The source calculators run out of input.
SourcesDone(g) ==
  /\ Running(g)
  /\ ~cg[g].srcDone
  /\ cg' = [cg EXCEPT ![g].srcDone = TRUE]
  /\ UNCHANGED faults

\* A calculator returns an error status.
CalculatorFails(g) ==
  /\ Running(g)
  /\ ~cg[g].failed /\ ~cg[g].cancelled
  /\ cg' = [cg EXCEPT ![g].failed = TRUE]
  /\ UNCHANGED faults

\* The graph is done: cancelled, failed, or drained with every input and
\* source closed, and nothing in flight.
GraphDone(g) ==
  /\ Running(g)
  /\ ~cg[g].busy
  /\ \/ cg[g].cancelled
     \/ cg[g].failed
     \/ cg[g].open = {} /\ cg[g].queued = 0 /\ cg[g].srcDone
  /\ cg' = [cg EXCEPT ![g].st = "done", ![g].open = {}, ![g].queued = 0]
  /\ UNCHANGED faults

\* What a scheduler step leaves alone: everything outside the graphs.
Internal == UNCHANGED <<graphLoaded, config, handlers, addMode, gpuResources,
                        runningGraph, wrapperAlive, pc, arg, ptr, calls>>

GraphStep(g) ==
  /\ \/ ProcessBegin(g) \/ ProcessEnd(g) \/ SourceEmit(g)
     \/ SourcesDone(g) \/ CalculatorFails(g) \/ GraphDone(g)
  /\ Internal

-----------------------------------------------------------------------------

Init ==
  /\ graphLoaded = FALSE
  /\ config = EmptyConfig
  /\ handlers = {}
  /\ addMode = "WAIT_TILL_NOT_FULL"
  /\ gpuResources = FALSE
  /\ runningGraph = NULL
  /\ wrapperAlive = TRUE
  /\ cg = [g \in GraphIds |-> Unallocated]
  /\ pc = [t \in Threads |-> "idle"]
  /\ arg = [t \in Threads |-> NULL]
  /\ ptr = [t \in Threads |-> NULL]
  /\ calls = [t \in Threads |-> 0]
  /\ faults = {}

\* A Java thread makes a native call.
JavaCall(t) ==
  \/ LoadBinaryGraph(t)
  \/ \E o \in OutputStreams : AddCallbackHandler(t, o)
  \/ \E b \in BOOLEAN : SetGraphInputStreamAddMode(t, b)
  \/ SetParentGlContext(t)
  \/ AddSurfaceOutput(t)
  \/ ReadOnlyCall(t)
  \/ StartRunningGraph(t)
  \/ RunGraphUntilClose(t)
  \/ \E s \in InputStreams : CheckRunning(t, "add", s)
  \/ \E s \in InputStreams : CheckRunning(t, "close", s)
  \/ \E op \in TwoStepCalls \ {"add", "close"} : CheckRunning(t, op, NULL)
  \/ ReleaseGraph(t)

\* A native call already entered makes progress.
NativeStep(t) ==
  \/ StartSetGpuResources(t)
  \/ StartInitialize(t)
  \/ StartRun(t)
  \/ RunGraphUntilCloseReturn(t)
  \/ AddPacketToInputStream(t)
  \/ AddPacketUnblock(t)
  \/ CloseStreams(t)
  \/ CancelGraph(t)
  \/ WaitEnter(t)
  \/ WaitUntilDone(t)
  \/ WaitUntilIdle(t)
  \/ GetProfilingContext(t)
  \/ ReleaseGraphDone(t)

\* Nothing runs after the process aborted.
Next ==
  /\ "abort" \notin faults
  /\ \/ \E t \in Threads : JavaCall(t) \/ NativeStep(t)
     \/ \E g \in GraphIds : GraphStep(g)

Spec == Init /\ [][Next]_vars

-----------------------------------------------------------------------------
(* Properties.                                                             *)

TypeOK ==
  /\ graphLoaded \in BOOLEAN
  /\ config \in Config
  /\ handlers \subseteq OutputStreams
  /\ addMode \in {"WAIT_TILL_NOT_FULL", "ADD_IF_NOT_FULL"}
  /\ gpuResources \in BOOLEAN
  /\ runningGraph \in GraphIds \cup {NULL}
  /\ wrapperAlive \in BOOLEAN
  /\ cg \in [GraphIds -> GraphRec]
  /\ pc \in [Threads -> PCs]
  /\ arg \in [Threads -> InputStreams \cup {NULL}]
  /\ ptr \in [Threads -> GraphIds \cup {NULL}]
  /\ calls \in [Threads -> 0..MaxCalls]
  /\ faults \subseteq {"wrapper_uaf", "null_deref", "graph_uaf", "config_race",
                     "abort"}

\* No native call, and no packet callback of a graph, ever runs through a
\* reset running_graph_, a destroyed CalculatorGraph or the deleted
\* android::Graph, or writes graph_ while StartRunningGraph reads it:
\* ~Graph cancels and waits for running_graph_ before its members go,
\* WaitUntilDone resets running_graph_ only after the graph is done, a
\* packet callback (CallbackToJava on context_) only runs while the graph
\* it belongs to runs, and the configuration calls are not concurrent with
\* a start.
NoUndefinedBehaviour == faults \subseteq {"abort"}

\* No native call, and no packet callback, runs through a reset
\* running_graph_, a destroyed CalculatorGraph or the deleted wrapper: each
\* call's test of running_graph_ still holds when it calls through it, and
\* ~Graph and WaitUntilDone delete a graph no other call is still inside.
NoNullOrFreedGraphUse == faults \cap {"null_deref", "graph_uaf", "wrapper_uaf"} = {}

\* No configuration call writes a member that a concurrent
\* StartRunningGraph reads (graph_, the add mode, gpu_resources_,
\* side_packets_, stream_headers_).
NoConfigRace == "config_race" \notin faults

\* Once StartRunningGraph has returned, running_graph_ never holds a graph
\* that failed to start: every failing step of StartRunningGraph resets it,
\* so a later StartRunningGraph is not refused with "already running" and
\* AddPacketToInputStream does not feed a graph that never started.
NoWedgedRunningGraph ==
  (wrapperAlive /\ runningGraph # NULL /\ \A t \in Threads : pc[t] \notin StartPCs)
    => cg[runningGraph].st \in {"running", "done"}

\* Each CalculatorGraph object as the GraphLifecycle client view sees it:
\* work is pending while a running graph has an open input, a queued packet
\* or a source that has not ended.
AbsGraphs ==
  [g \in GraphIds |->
     [st |-> cg[g].st, cancelled |-> cg[g].cancelled, failed |-> cg[g].failed,
      inflight |-> cg[g].busy,
      pending |-> Running(g) /\ (cg[g].queued > 0 \/ cg[g].open # {}
                                  \/ ~cg[g].srcDone)]]

Lifecycle == INSTANCE GraphLifecycle WITH Graphs <- GraphIds, graphs <- AbsGraphs

\* The wrapper drives every CalculatorGraph object through the life cycle
\* spec.md promises, one object per step: it deletes a graph only before it
\* runs or once it is done (WaitUntilDone, a failed StartRunningGraph, the
\* end of RunGraphUntilClose, ~Graph), so a running graph is never deleted
\* or replaced; a graph is done only with no invocation (and so no packet
\* callback) in flight, and dispatches nothing after CancelGraph or a
\* calculator error.
ImplementsGraphLifecycle == Lifecycle!Spec

\* Every graph starts with a callback calculator for each output stream a
\* packet callback was registered for (AddCallbackHandler returned OK):
\* spec.md 4.7 says the runtime invokes an attached callback with each
\* packet emitted on its stream.
CallbacksWiredAtStart ==
  [][\A g \in GraphIds :
       (cg[g].st # "running" /\ cg'[g].st = "running")
         => handlers \subseteq cg'[g].sinks]_vars

=============================================================================
