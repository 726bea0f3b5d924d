---------------------------- MODULE Propagation ----------------------------
(***************************************************************************)
(* What propagate_taint promises to those who wait for the state's lock:   *)
(* in one step the scores become the least that the graph justifies, and   *)
(* the processes whose score has crossed the threshold are named.          *)
(***************************************************************************)
EXTENDS TaintGraph

VARIABLES
    graph,     \* the edges, in no order
    scores,    \* as those see them who wait for the lock
    tainted,   \* the processes that the step has tainted
    done

vars == <<graph, scores, tainted, done>>

Init ==
    /\ graph \in SUBSET Edges /\ scores \in [Pids -> Scores]
    /\ tainted = {} /\ done = FALSE

Propagate ==
    /\ ~done /\ done' = TRUE
    /\ scores' = Closure(graph, scores)
    /\ tainted' = {p \in Pids : scores[p] < Threshold /\ scores'[p] >= Threshold}
    /\ UNCHANGED graph

Spec == Init /\ [][Propagate]_vars
=============================================================================
