----------------------------- MODULE TaintGraph -----------------------------
(***************************************************************************)
(* Taint scores and the edges they spread along (state.rs, TaintGraph).    *)
(*                                                                         *)
(* A score is a grade: 0 is clean, Full what a process started by an       *)
(* action gets, Threshold the grade from which taint spreads.  A channel   *)
(* attenuates the grades that pass through it; nothing else about the      *)
(* factors 0.9, 0.7 and 0.5 matters here, nor about the rounding of their  *)
(* products.  Two scores within 1e-9 of each other have the same grade.    *)
(***************************************************************************)
EXTENDS Integers

CONSTANTS
    Pids,
    Channels,    \* ChannelType
    Scores,      \* the grades
    Threshold,   \* TAINT_THRESHOLD, 0.1
    Full,        \* 1.0
    Attenuate    \* channel -> grade -> grade: decay_factor

ASSUME TaintAssumption ==
    /\ Scores \subseteq Nat /\ 0 \in Scores /\ Full \in Scores
    /\ \A x \in Scores : x <= Full
    /\ Threshold \in Nat \ {0}
    /\ Attenuate \in [Channels -> [Scores -> Scores]]
    /\ \A c \in Channels : \A x, y \in Scores :
          x <= y => Attenuate[c][x] <= Attenuate[c][y]
    /\ \A c \in Channels : \A x \in Scores :
          Attenuate[c][x] <= x /\ (x > 0 => Attenuate[c][x] > 0)

\* What an edge_index key holds.  Edges lead from one process to another.
Edges == {e \in [source : Pids, target : Pids, channel : Channels] :
             e.source # e.target}

\* A table gives the score of every process in it; others have none.
Score(table, pid) == IF pid \in DOMAIN table THEN table[pid] ELSE 0

\* What the target of an edge is given for its source.
Passed(e, table) == Attenuate[e.channel][Score(table, e.source)]

\* Nothing is left for the edge to do.
Satisfied(e, table) ==
    Score(table, e.source) >= Threshold /\ e.target \in DOMAIN table
        => Passed(e, table) <= table[e.target]

Closed(edges, table) == \A e \in edges : Satisfied(e, table)

AtLeast(upper, lower) == \A p \in DOMAIN lower : upper[p] >= lower[p]

\* The tables that taint can be at rest in, from a given one.
Rests(edges, table) ==
    {t \in [DOMAIN table -> Scores] : AtLeast(t, table) /\ Closed(edges, t)}

Least(S) == CHOOSE m \in S : \A n \in S : m <= n

\* The least of them: what propagate_taint is to compute, whatever the order
\* of the edges.
Closure(edges, table) ==
    LET rests == Rests(edges, table)
    IN  [p \in DOMAIN table |-> Least({t[p] : t \in rests})]
=============================================================================
