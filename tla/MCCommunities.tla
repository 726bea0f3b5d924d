--------------------------- MODULE MCCommunities ---------------------------
(* Communities for TLC: four processes, of which at most one is not of the  *)
(* action, and every graph of at most MaxEdges edges, up to what makes no   *)
(* difference to the code: edges lead from a smaller pid to a larger one    *)
(* (the search and the numbering start anywhere), the count of a fork edge  *)
(* is not looked at, the processes with the first name come first, and are  *)
(* at least half of those of the action.                                    *)
EXTENDS Communities

CONSTANT First

MCPids == 1..4
MCCounts == {1, 2}

MCEdges == {e \in Edges : e.source < e.target /\ (e.fork => e.count = 1)}

MCInit ==
    /\ actionPids \in {1..4, 1..3}
    /\ comm \in {c \in [actionPids -> Comms] :
                    \E n \in actionPids : /\ 2 * n >= Cardinality(actionPids)
                                           /\ \A p \in actionPids : c[p] = First <=> p <= n}
    /\ edges \in UNION {kSubset(k, MCEdges) : k \in 0..MaxEdges}
    /\ Start

MCSpec == MCInit /\ [][Next]_vars /\ WF_vars(Next)
=============================================================================
