----------------------------- MODULE MCResolver -----------------------------
(* Resolver for TLC: its properties are about safety, and containers are    *)
(* interchangeable.  0 and 1 are no processes of the model.                 *)
EXTENDS Resolver, TLC

MCPids == 2..4
Symmetry == Permutations(Containers)

\* Bound of the run: two exits, so that a process and its parent can be gone,
\* or one of them gone and the pid of the other reused.  The run stops when no
\* group is left to resolve and none can come, or the thread has returned.
Exited == {p \in Pids : ~Alive(p)}
Reused == {p \in Pids : lives[p] > 1}

Small == Cardinality(Exited) + Cardinality(Reused) <= 2

Busy ==
    /\ phase # "ended"
    /\ emitted < MaxEvents \/ socket # << >> \/ batch # << >>

MCSpec == Init /\ [][Next /\ Busy /\ Small']_vars
=============================================================================
