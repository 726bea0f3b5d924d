-------------------------- MODULE TaintPropagation --------------------------
(***************************************************************************)
(* propagate_taint, one edge at a time: passes over the list of edges      *)
(* until one of them changes nothing.                                      *)
(*                                                                         *)
(* The list has the order in which the edges were added, which for file    *)
(* and queue flows is the order of a hash table, so any order is possible. *)
(***************************************************************************)
EXTENDS TaintGraph, Sequences, FiniteSets

CONSTANT MaxEdges   \* bound: edges in the graph

ASSUME LoopAssumption == MaxEdges \in Nat

VARIABLES
    edges,    \* self.edges, a sequence
    before,   \* the scores on entry
    table,    \* process_table
    next,     \* position in edges of the pass under way
    changed,
    newly,    \* newly_tainted
    done      \* the function has returned

vars == <<edges, before, table, next, changed, newly, done>>

\* No two edges have the same key; a process is forked once, by an older one.
Graphs ==
    {g \in UNION {[1..n -> Edges] : n \in 0..MaxEdges} :
        /\ \A i, j \in DOMAIN g : g[i] = g[j] => i = j
        /\ \A i \in DOMAIN g : g[i].channel = "fork" =>
              /\ g[i].source < g[i].target
              /\ \A j \in DOMAIN g :
                    g[j].channel = "fork" /\ g[j].target = g[i].target => i = j}

Init ==
    /\ edges \in Graphs
    /\ before \in [Pids -> Scores] /\ table = before
    /\ next = 1 /\ changed = FALSE
    /\ newly = <<>> /\ done = FALSE

\* Mutant of Raises: no epsilon in the comparison.
RaisesEqually(e) ==
    /\ Score(table, e.source) >= Threshold
    /\ e.target \in DOMAIN table
    /\ Passed(e, table) >= table[e.target]

Raises(e) ==
    /\ Score(table, e.source) >= Threshold
    /\ e.target \in DOMAIN table
    /\ Passed(e, table) > table[e.target]

\* Mutant of Skip: the edge after a skipped one is skipped as well.
SkipTwo ==
    /\ ~done /\ next <= Len(edges)
    /\ ~Raises(edges[next])
    /\ next' = next + 2
    /\ UNCHANGED <<edges, before, table, changed, newly, done>>

\* The edges that "continue" passes over, or that raise nothing.
Skip ==
    /\ ~done /\ next <= Len(edges)
    /\ ~Raises(edges[next])
    /\ next' = next + 1
    /\ UNCHANGED <<edges, before, table, changed, newly, done>>

\* Mutants of Raise: newly_tainted regardless of was_tainted; a change that
\* is not noted.
RaiseAlwaysNew ==
    /\ ~done /\ next <= Len(edges)
    /\ LET e == edges[next]
           passed == Passed(e, table)
       IN /\ Raises(e)
          /\ table' = [table EXCEPT ![e.target] = passed]
          /\ newly' = IF passed >= Threshold THEN Append(newly, e.target) ELSE newly
    /\ changed' = TRUE
    /\ next' = next + 1
    /\ UNCHANGED <<edges, before, done>>

RaiseQuietly ==
    /\ ~done /\ next <= Len(edges)
    /\ LET e == edges[next]
           passed == Passed(e, table)
       IN /\ Raises(e)
          /\ table' = [table EXCEPT ![e.target] = passed]
          /\ newly' = IF table[e.target] < Threshold /\ passed >= Threshold
                      THEN Append(newly, e.target) ELSE newly
          /\ changed' = (passed < Threshold)
    /\ next' = next + 1
    /\ UNCHANGED <<edges, before, done>>

Raise ==
    /\ ~done /\ next <= Len(edges)
    /\ LET e == edges[next]
           passed == Passed(e, table)
       IN /\ Raises(e)
          /\ table' = [table EXCEPT ![e.target] = passed]
          /\ newly' = IF table[e.target] < Threshold /\ passed >= Threshold
                      THEN Append(newly, e.target) ELSE newly
    /\ changed' = TRUE
    /\ next' = next + 1
    /\ UNCHANGED <<edges, before, done>>

\* The end of a pass: another one if it changed anything.
EndPass ==
    /\ ~done /\ next = Len(edges) + 1
    /\ IF changed THEN next' = 1 /\ changed' = FALSE /\ done' = FALSE
                  ELSE done' = TRUE /\ UNCHANGED <<next, changed>>
    /\ UNCHANGED <<edges, before, table, newly>>

Next == Skip \/ Raise \/ EndPass

\* The loop runs under the state's lock in a thread that is scheduled.
Fairness == WF_vars(Next)

Spec == Init /\ [][Next]_vars /\ Fairness

-----------------------------------------------------------------------------
(* Properties.                                                             *)

TypeOK ==
    /\ edges \in Seq(Edges)
    /\ before \in [Pids -> Scores] /\ table \in [Pids -> Scores]
    /\ next \in 1..(Len(edges) + 1)
    /\ changed \in BOOLEAN /\ done \in BOOLEAN
    /\ newly \in Seq(Pids)

Graph == {edges[i] : i \in DOMAIN edges}

\* When the loop returns, every score is the least that the scores on entry
\* and the edges justify: none is missing, none too high, cycles included,
\* and the order of the edges has had no influence.  AtOnce includes it.
LeastFixpoint == done => table = Closure(Graph, before)

Crossed == {p \in Pids : before[p] < Threshold /\ table[p] >= Threshold}

\* The vector returned lists the processes whose score has crossed the
\* threshold, each once.
NewlyTaintedExact ==
    /\ {newly[i] : i \in DOMAIN newly} = Crossed
    /\ \A i, j \in DOMAIN newly : newly[i] = newly[j] => i = j

\* Those who wait for the lock see no score of a pass under way: for them the
\* function is one step, from the scores on entry to the closure.
Atomic == INSTANCE Propagation WITH
    graph   <- Graph,
    scores  <- IF done THEN table ELSE before,
    tainted <- IF done THEN {newly[i] : i \in DOMAIN newly} ELSE {}

AtOnce == Atomic!Spec

\* The loop ends, although edges may form cycles.
Termination == <>done
=============================================================================
