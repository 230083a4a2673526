---------------------------- MODULE GraphLifecycle ----------------------------
(***************************************************************************)
(* The life of a CalculatorGraph object as spec.md promises it to its      *)
(* client (4.6 Shutdown, 4.7 lifecycle, 5 Cancellation, 7 first error):    *)
(* it is constructed, started, runs, and is done; a run dispatches work    *)
(* only while neither cancelled nor failed, an invocation in flight runs   *)
(* to completion, and the graph is done only with nothing in flight and    *)
(* either cancelled, failed, or with no work left.  The object is deleted  *)
(* only outside a run.  pending is "some input is open, queued, or a       *)
(* source still produces".                                                 *)
(***************************************************************************)
CONSTANT Graphs

VARIABLE graphs   \* graphs[g]: [st, cancelled, failed, inflight, pending]

Fresh == [st |-> "unused", cancelled |-> FALSE, failed |-> FALSE,
          inflight |-> FALSE, pending |-> FALSE]

Init == graphs = [g \in Graphs |-> Fresh]

Running(g) == graphs[g].st = "running"

Construct(g) ==
  /\ graphs[g].st = "unused"
  /\ graphs' = [graphs EXCEPT ![g].st = "constructed"]

\* Initialize and StartRun (or Run) succeed: the graph runs, with work
\* pending or not.
Start(g) ==
  /\ graphs[g].st \in {"unused", "constructed"}
  /\ \E p \in BOOLEAN :
       graphs' = [graphs EXCEPT ![g] = [Fresh EXCEPT !.st = "running", !.pending = p]]

\* Packets added, inputs closed, sources producing or ending.
Work(g) ==
  /\ Running(g)
  /\ \E p \in BOOLEAN : graphs' = [graphs EXCEPT ![g].pending = p]

\* The scheduler dispatches an invocation: never after cancel() or the
\* first error.
Dispatch(g) ==
  /\ Running(g) /\ graphs[g].pending
  /\ ~graphs[g].inflight /\ ~graphs[g].cancelled /\ ~graphs[g].failed
  /\ \E p \in BOOLEAN :
       graphs' = [graphs EXCEPT ![g].inflight = TRUE, ![g].pending = p]

Complete(g) ==
  /\ Running(g) /\ graphs[g].inflight
  /\ graphs' = [graphs EXCEPT ![g].inflight = FALSE]

Cancel(g) ==
  /\ Running(g)
  /\ graphs' = [graphs EXCEPT ![g].cancelled = TRUE]

Fail(g) ==
  /\ Running(g) /\ ~graphs[g].failed
  /\ graphs' = [graphs EXCEPT ![g].failed = TRUE]

\* The graph is done: what wait_until_done waits for.
Finish(g) ==
  /\ Running(g) /\ ~graphs[g].inflight
  /\ graphs[g].cancelled \/ graphs[g].failed \/ ~graphs[g].pending
  /\ graphs' = [graphs EXCEPT ![g].st = "done", ![g].pending = FALSE]

Delete(g) ==
  /\ graphs[g].st \in {"unused", "constructed", "done"}
  /\ graphs' = [graphs EXCEPT ![g].st = "destroyed"]

Next ==
  \E g \in Graphs :
    \/ Construct(g) \/ Start(g) \/ Work(g) \/ Dispatch(g) \/ Complete(g)
    \/ Cancel(g) \/ Fail(g) \/ Finish(g) \/ Delete(g)

Spec == Init /\ [][Next]_graphs

====
