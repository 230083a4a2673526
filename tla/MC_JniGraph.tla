----------------------------- MODULE MC_JniGraph -----------------------------
(* Model-checking instance of JniGraph.  Threads, streams and graph objects *)
(* are model values given in the .cfg files: a single Java thread drives    *)
(* the asynchronous API (load, register a callback, start, feed, close,     *)
(* wait, cancel, release) in any order; two graph objects let a graph be    *)
(* started again after WaitUntilDone.                                       *)
EXTENDS JniGraph, TLC

\* Java threads are interchangeable.
ThreadSymmetry == Permutations(Threads)
=============================================================================
