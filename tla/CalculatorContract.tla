------------------------- MODULE CalculatorContract -------------------------
(***************************************************************************)
(* CalculatorContract (framework/calculator_contract.h), as legacy         *)
(* calculators reach it: through LegacyCalculatorSupport::Scoped<T>        *)
(* (framework/legacy_calculator_support.cc), whose current_ slot names the *)
(* contract (or context) of the innermost Scoped object alive on the       *)
(* thread.  The framework resolves a node's contract on some thread inside *)
(* a Scoped<CalculatorContract>, and runs Open/Process/Close inside a      *)
(* Scoped<CalculatorContext>; a calculator may run an inner graph, so      *)
(* scopes nest.  The slot is thread_local, except in the                   *)
(* EMSCRIPTEN_WORKAROUND_FOR_B121216479 build, where it is one global and  *)
(* the program runs on one thread.  A contract keeps its input stream      *)
(* handler, that handler's options and its service requests; the packet   *)
(* type sets are left out.                                                 *)
(***************************************************************************)
EXTENDS Naturals, Sequences, SequencesExt

CONSTANTS
  Threads,         \* threads that resolve contracts and run calculators
  MainThread,      \* the one thread of the emscripten build
  Nodes,           \* nodes whose contract is resolved
  Services,        \* keys of the graph services a calculator may use
  StreamHandlers,  \* input stream handler names a calculator may set
  HandlerOptions,  \* MediaPipeOptions values a calculator may set
  MaxDepth,        \* bound on the Scoped objects alive on one thread
  NULL             \* nullptr

ASSUME MainThread \in Threads

VARIABLES
  build,     \* "thread_local", or "emscripten" (the workaround build)
  current,   \* current[<<kind, key>>]: a Scoped<T>::current_
  scopes,    \* scopes[t]: the Scoped objects alive on t, innermost last
  contract,  \* contract[n]: the CalculatorContract of node n
  phase,     \* phase[n]: "none", "resolving" (in GetContract), "resolved"
  faults     \* dereferences of a null Scoped<T>::current()

vars == <<build, current, scopes, contract, phase, faults>>

Kinds == {"contract", "context"}

\* A default-constructed contract: empty handler name, empty options and
\* no service requests.
EmptyContract ==
  [ish |-> "none", ishOptions |-> "none",
   requests |-> [s \in Services |-> "absent"]]

\* The slot of Scoped<kind>::current_ that thread t reads and writes: a
\* global in the workaround build instead of a thread-local one.
Slot(k, t) == IF build = "thread_local" THEN <<k, t>> ELSE <<k, "global">>

\* The emscripten build runs everything on its one thread.
Runs(t) == build = "thread_local" \/ t = MainThread

(***************************************************************************)
(* Scoped(T* cc): saves current_ and sets it to cc; ~Scoped() restores     *)
(* the saved value.                                                        *)
(***************************************************************************)
EnterScope(t, k, n) ==
  /\ Len(scopes[t]) < MaxDepth
  /\ scopes' = [scopes EXCEPT ![t] =
                  Append(@, [kind |-> k, obj |-> n, saved |-> current[Slot(k, t)]])]
  /\ current' = [current EXCEPT ![Slot(k, t)] = n]

LeaveScope(t) ==
  LET top == Last(scopes[t]) IN
  /\ scopes' = [scopes EXCEPT ![t] = Front(@)]
  /\ current' = [current EXCEPT ![Slot(top.kind, t)] = top.saved]

\* The node whose calculator code runs on t: that of the innermost scope.
Top(t) == Last(scopes[t])

(***************************************************************************)
(* The framework resolves node n's contract on t: Initialize, then         *)
(* GetContract inside a Scoped<CalculatorContract>.                        *)
(***************************************************************************)
BeginGetContract(t, n) ==
  /\ Runs(t) /\ phase[n] = "none"
  /\ EnterScope(t, "contract", n)
  /\ contract' = [contract EXCEPT ![n] = EmptyContract]
  /\ phase' = [phase EXCEPT ![n] = "resolving"]
  /\ UNCHANGED <<build, faults>>

\* GetContract returns; the Scoped object is destroyed.
EndGetContract(t) ==
  /\ Runs(t) /\ scopes[t] # <<>> /\ Top(t).kind = "contract"
  /\ LeaveScope(t)
  /\ phase' = [phase EXCEPT ![Top(t).obj] = "resolved"]
  /\ UNCHANGED <<build, contract, faults>>

\* Open, Process or Close of node n inside a Scoped<CalculatorContext>;
\* invocations of one node are serialized.
BeginCalculatorContext(t, n) ==
  /\ Runs(t) /\ phase[n] = "resolved"
  /\ \A u \in Threads : \A i \in DOMAIN scopes[u] :
       ~(scopes[u][i].kind = "context" /\ scopes[u][i].obj = n)
  /\ EnterScope(t, "context", n)
  /\ UNCHANGED <<build, contract, phase, faults>>

EndCalculatorContext(t) ==
  /\ Runs(t) /\ scopes[t] # <<>> /\ Top(t).kind = "context"
  /\ LeaveScope(t)
  /\ UNCHANGED <<build, contract, phase, faults>>

(***************************************************************************)
(* A legacy calculator's GetContract, running on t, reaches its contract   *)
(* through LegacyCalculatorSupport::Scoped<CalculatorContract>::current(); *)
(***************************************************************************)
ContractSlot(t) == current[Slot("contract", t)]

LegacyCall(t) ==
  /\ Runs(t) /\ scopes[t] # <<>> /\ Top(t).kind = "contract"
  /\ UNCHANGED <<build, current, scopes, phase>>

\* The write of contract' = written through the slot; nullptr is a fault.
ThroughSlot(t, written) ==
  IF ContractSlot(t) = NULL
    THEN faults' = faults \cup {"null_contract"} /\ UNCHANGED contract
    ELSE contract' = written /\ UNCHANGED faults

\* SetInputStreamHandler(name) and SetInputStreamHandlerOptions(options).
SetInputStreamHandler(t, h) ==
  /\ LegacyCall(t)
  /\ ThroughSlot(t, [contract EXCEPT ![ContractSlot(t)].ish = h])

SetInputStreamHandlerOptions(t, o) ==
  /\ LegacyCall(t)
  /\ ThroughSlot(t, [contract EXCEPT ![ContractSlot(t)].ishOptions = o])

\* A GraphServiceRequest as constructed: optional_ = false.
GraphServiceRequest == "required"

\* GraphServiceRequest::Optional(): sets optional_ on the request.
Optional(r) == "optional"

(***************************************************************************)
(* UseService(service): emplace keyed by service.key, which keeps a        *)
(* request already there, returning it; the calculator may call Optional() *)
(* on the returned request.                                                *)
(***************************************************************************)
UseService(t, s, opt) ==
  LET old == contract[ContractSlot(t)].requests[s]
      r == IF old = "absent" THEN GraphServiceRequest ELSE old
  IN /\ LegacyCall(t)
     /\ ThroughSlot(t, [contract EXCEPT ![ContractSlot(t)].requests[s] =
                          IF opt THEN Optional(r) ELSE r])

\* The getters the framework reads the resolved contract through.
GetInputStreamHandler(n) == contract[n].ish
GetInputStreamHandlerOptions(n) == contract[n].ishOptions
ServiceRequests(n) == contract[n].requests

Init ==
  /\ build \in {"thread_local", "emscripten"}
  /\ current = [sl \in Kinds \X (Threads \cup {"global"}) |-> NULL]
  /\ scopes = [t \in Threads |-> <<>>]
  /\ contract = [n \in Nodes |-> EmptyContract]
  /\ phase = [n \in Nodes |-> "none"]
  /\ faults = {}

Next ==
  \E t \in Threads :
    \/ \E n \in Nodes : BeginGetContract(t, n) \/ BeginCalculatorContext(t, n)
    \/ EndGetContract(t) \/ EndCalculatorContext(t)
    \/ \E h \in StreamHandlers : SetInputStreamHandler(t, h)
    \/ \E o \in HandlerOptions : SetInputStreamHandlerOptions(t, o)
    \/ \E s \in Services, opt \in BOOLEAN : UseService(t, s, opt)

Spec == Init /\ [][Next]_vars

====
