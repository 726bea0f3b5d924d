----------------------- MODULE TaintPropagationProofs -----------------------
(***************************************************************************)
(* Proofs about TaintPropagation, for any processes, any graph of any      *)
(* size, any grades and any attenuation that is monotone.                  *)
(***************************************************************************)
EXTENDS TaintPropagation, TLAPS

Pass == [Skip \/ Raise \/ EndPass]_vars

-----------------------------------------------------------------------------
(* Type correctness.                                                       *)

LEMMA EdgeTypes == \A e \in Edges : /\ e.source \in Pids /\ e.target \in Pids
                                    /\ e.channel \in Channels /\ e.source # e.target
BY DEF Edges

LEMMA AppendType ==
    ASSUME NEW S, NEW seq \in Seq(S), NEW e \in S PROVE Append(seq, e) \in Seq(S)
OBVIOUS

LEMMA PassedIsScore ==
    ASSUME NEW t \in [Pids -> Scores], NEW e \in Edges
    PROVE  Passed(e, t) \in Scores /\ Score(t, e.source) = t[e.source]
<1>1. /\ Attenuate \in [Channels -> [Scores -> Scores]]
      /\ e.source \in Pids /\ e.channel \in Channels
  BY TaintAssumption, EdgeTypes
<1>2. Score(t, e.source) = t[e.source] /\ t[e.source] \in Scores
  BY <1>1 DEF Score
<1>. QED  BY <1>1, <1>2 DEF Passed

LEMMA GraphsAreSequences == Graphs \subseteq Seq(Edges)
<1>. SUFFICES ASSUME NEW g \in Graphs PROVE g \in Seq(Edges)
  OBVIOUS
<1>1. PICK n \in 0..MaxEdges : g \in [1..n -> Edges]
  BY DEF Graphs
<1>2. n \in Nat
  BY <1>1, LoopAssumption
<1>. QED  BY <1>1, <1>2

LEMMA TypeInit == Init => TypeOK
<1>. SUFFICES ASSUME Init PROVE TypeOK
  OBVIOUS
<1>1. edges \in Seq(Edges)
  BY GraphsAreSequences DEF Init
<1>2. next \in 1..(Len(edges) + 1)
  BY <1>1 DEF Init
<1>3. newly \in Seq(Pids)
  BY DEF Init
<1>. QED  BY <1>1, <1>2, <1>3 DEF Init, TypeOK

LEMMA TypeNext == TypeOK /\ [Next]_vars => TypeOK'
<1>. SUFFICES ASSUME TypeOK, [Next]_vars PROVE TypeOK'
  OBVIOUS
<1>1. CASE Skip
  BY <1>1 DEF Skip, TypeOK
<1>2. CASE Raise
  <2>1. edges[next] \in Edges /\ next' \in 1..(Len(edges) + 1) /\ edges' = edges
    BY <1>2 DEF Raise, TypeOK
  <2>2. PICK e \in Edges :
           /\ table' = [table EXCEPT ![e.target] = Passed(e, table)]
           /\ newly' = newly \/ newly' = Append(newly, e.target)
    BY <1>2, <2>1 DEF Raise
  <2>3. table' \in [Pids -> Scores]
    BY <2>2, PassedIsScore DEF TypeOK
  <2>4. newly' \in Seq(Pids)
    BY <2>2, EdgeTypes, AppendType DEF TypeOK
  <2>. QED  BY <1>2, <2>1, <2>3, <2>4 DEF Raise, TypeOK
<1>3. CASE EndPass
  <2>1. UNCHANGED <<edges, before, table, newly>>
    BY <1>3 DEF EndPass
  <2>2. next' = 1 \/ next' = next
    BY <1>3 DEF EndPass
  <2>3. next' \in 1..(Len(edges') + 1)
    BY <2>1, <2>2 DEF TypeOK
  <2>4. changed' \in BOOLEAN /\ done' \in BOOLEAN
    BY <1>3, Zenon DEF EndPass, TypeOK
  <2>. QED  BY <2>1, <2>3, <2>4, Zenon DEF TypeOK
<1>4. CASE UNCHANGED vars
  BY <1>4 DEF vars, TypeOK
<1>. QED  BY <1>1, <1>2, <1>3, <1>4 DEF Next

\* Every reachable state of the loop has its type.
THEOREM TypeCorrect == Spec => []TypeOK
<1>. QED  BY TypeInit, TypeNext, PTL DEF Spec

-----------------------------------------------------------------------------
(* The loop's invariant: the scores stay between the scores on entry and   *)
(* any table at rest above them, and as long as a pass has changed nothing *)
(* the edges behind it are satisfied.                                      *)

Between ==
    /\ AtLeast(table, before)
    /\ \A t \in [Pids -> Scores] :
          AtLeast(t, before) /\ Closed(Graph, t) => AtLeast(t, table)

Behind ==
    /\ ~changed => \A i \in 1..(next - 1) : Satisfied(edges[i], table)
    /\ done => ~changed /\ next = Len(edges) + 1

LoopInv == TypeOK /\ Between /\ Behind

LEMMA LoopInit == Init => LoopInv
<1>. SUFFICES ASSUME Init PROVE LoopInv
  OBVIOUS
<1>1. TypeOK
  BY TypeInit
<1>2. \A p \in Pids : before[p] \in Nat /\ DOMAIN before = Pids
  BY <1>1, TaintAssumption DEF TypeOK
<1>3. Between
  BY <1>2 DEF Init, Between, AtLeast
<1>4. Behind
  BY DEF Init, Behind
<1>. QED  BY <1>1, <1>3, <1>4 DEF LoopInv

\* A table at rest above another is no lower than what an edge passes there.
LEMMA PassedIsMonotone ==
    ASSUME NEW t \in [Pids -> Scores], NEW u \in [Pids -> Scores], AtLeast(t, u),
           NEW e \in Edges, Satisfied(e, t), Score(u, e.source) >= Threshold
    PROVE  Passed(e, u) <= t[e.target]
<1>1. /\ Score(u, e.source) = u[e.source] /\ Score(t, e.source) = t[e.source]
      /\ e.source \in Pids /\ e.target \in Pids /\ e.channel \in Channels
  BY PassedIsScore, EdgeTypes
<1>2. u[e.source] \in Scores /\ t[e.source] \in Scores /\ u[e.source] <= t[e.source]
  BY <1>1 DEF AtLeast
<1>3. Scores \subseteq Nat /\ Threshold \in Nat
  BY TaintAssumption
<1>4. Passed(e, u) <= Passed(e, t)
  BY <1>1, <1>2, TaintAssumption DEF Passed
<1>5. Score(t, e.source) >= Threshold
  <2>1. u[e.source] \in Nat /\ t[e.source] \in Nat /\ u[e.source] >= Threshold
    BY <1>1, <1>2, <1>3
  <2>. QED  BY <1>1, <1>2, <1>3, <2>1
<1>6. Passed(e, t) <= t[e.target]
  BY <1>1, <1>5 DEF Satisfied
<1>7. Passed(e, u) \in Nat /\ Passed(e, t) \in Nat /\ t[e.target] \in Nat
  BY <1>1, <1>3, PassedIsScore
<1>. QED  BY <1>4, <1>6, <1>7

LEMMA RaiseStep == LoopInv /\ Raise => Between' /\ Behind'
<1>. SUFFICES ASSUME LoopInv, Raise PROVE Between' /\ Behind'
  OBVIOUS
<1>1. TypeOK /\ Between
  BY DEF LoopInv
<1>. DEFINE e == edges[next]
<1>2. /\ e \in Edges /\ next \in DOMAIN edges /\ e.target \in Pids
      /\ UNCHANGED <<edges, before, done>> /\ ~done /\ changed' = TRUE
      /\ Raises(e) /\ table' = [table EXCEPT ![e.target] = Passed(e, table)]
  <2>1. next \in DOMAIN edges
    BY <1>1 DEF Raise, TypeOK
  <2>2. e \in Edges
    BY <1>1, <2>1 DEF TypeOK
  <2>. QED  BY <2>1, <2>2, EdgeTypes DEF Raise
<1>3. e \in Graph
  BY <1>2 DEF Graph
<1>. HIDE DEF e
<1>4. /\ table \in [Pids -> Scores] /\ before \in [Pids -> Scores] /\ Scores \subseteq Nat
      /\ Passed(e, table) \in Nat
  BY <1>1, <1>2, TaintAssumption, PassedIsScore DEF TypeOK
<1>5. /\ table'[e.target] = Passed(e, table) /\ table'[e.target] > table[e.target]
      /\ \A p \in Pids : p # e.target => table'[p] = table[p]
  BY <1>2, <1>4 DEF Raises
<1>6. AtLeast(table, before)'
  <2>1. \A p \in Pids : table[p] >= before[p]
    BY <1>1, <1>4 DEF Between, AtLeast
  <2>2. ASSUME NEW p \in Pids PROVE table'[p] >= before[p]
    <3>1. table[p] \in Nat /\ before[p] \in Nat
      BY <1>4
    <3>2. CASE p = e.target
      BY <1>4, <1>5, <2>1, <3>1, <3>2
    <3>3. CASE p # e.target
      BY <1>5, <2>1, <3>3
    <3>. QED  BY <3>2, <3>3
  <2>. QED  BY <1>2, <1>4, <2>2 DEF AtLeast
<1>7. ASSUME NEW t \in [Pids -> Scores], AtLeast(t, before), Closed(Graph, t)
      PROVE  \A p \in Pids : t[p] >= table'[p]
  <2>1. AtLeast(t, table)
    BY <1>1, <1>7 DEF Between
  <2>2. Satisfied(e, t)
    BY <1>3, <1>7 DEF Closed
  <2>3. Passed(e, table) <= t[e.target]
    BY <1>2, <1>4, <2>1, <2>2, PassedIsMonotone DEF Raises
  <2>4. \A p \in Pids : t[p] >= table[p]
    BY <1>4, <2>1 DEF AtLeast
  <2>. QED  BY <1>2, <1>4, <1>5, <2>3, <2>4
<1>8. Between'
  <2>1. Graph' = Graph /\ DOMAIN table' = Pids
    BY <1>2, <1>4 DEF Graph
  <2>2. ASSUME NEW t \in [Pids -> Scores], AtLeast(t, before), Closed(Graph, t)
        PROVE  AtLeast(t, table)'
    BY <1>7, <2>1, <2>2 DEF AtLeast
  <2>3. \A t \in [Pids -> Scores] : AtLeast(t, before)' /\ Closed(Graph, t)'
           => AtLeast(t, before) /\ Closed(Graph, t)
    BY <1>2, <2>1 DEF AtLeast, Closed
  <2>. QED  BY <1>6, <2>2, <2>3 DEF Between
<1>. QED  BY <1>2, <1>8 DEF Behind

LEMMA LoopNext == LoopInv /\ [Next]_vars => LoopInv'
<1>. SUFFICES ASSUME LoopInv, [Next]_vars PROVE LoopInv'
  OBVIOUS
<1>1. TypeOK'
  BY TypeNext DEF LoopInv
<1>2. ASSUME UNCHANGED <<edges, before, table>> PROVE Between'
  BY <1>2 DEF LoopInv, Between, AtLeast, Closed, Graph, Satisfied, Passed, Score
<1>3. CASE Skip
  <2>1. /\ UNCHANGED <<edges, before, table, changed, done>> /\ next' = next + 1 /\ ~done
        /\ ~Raises(edges[next]) /\ next \in 1..Len(edges) /\ next \in Nat
    BY <1>3 DEF Skip, LoopInv, TypeOK
  <2>2. edges[next] \in Edges /\ table \in [Pids -> Scores] /\ Scores \subseteq Nat
    BY <2>1, TaintAssumption DEF LoopInv, TypeOK
  <2>3. Satisfied(edges[next], table)
    <3>1. Passed(edges[next], table) \in Nat
      BY <2>2, PassedIsScore
    <3>2. edges[next].target \in Pids /\ table[edges[next].target] \in Nat
      BY <2>2, EdgeTypes
    <3>. QED  BY <2>1, <3>1, <3>2 DEF Raises, Satisfied
  <2>4. ~changed => \A i \in 1..next : Satisfied(edges[i], table)
    <3>1. \A i \in 1..next : i = next \/ i \in 1..(next - 1)
      BY <2>1
    <3>. QED  BY <2>3, <3>1 DEF LoopInv, Behind
  <2>5. ~changed' => \A i \in 1..(next' - 1) : Satisfied(edges[i], table)'
    <3>1. \A i \in 1..next : Satisfied(edges[i], table)' <=> Satisfied(edges[i], table)
      BY <2>1 DEF Satisfied, Passed, Score
    <3>2. next' - 1 = next
      BY <2>1
    <3>. QED  BY <2>1, <2>4, <3>1, <3>2
  <2>. QED  BY <1>1, <1>2, <2>1, <2>5 DEF LoopInv, Behind
<1>4. CASE Raise
  BY <1>1, <1>4, RaiseStep DEF LoopInv
<1>5. CASE EndPass
  <2>1. Behind'
    BY <1>5 DEF EndPass, LoopInv, TypeOK, Behind, Satisfied, Passed, Score
  <2>. QED  BY <1>1, <1>2, <1>5, <2>1 DEF EndPass, LoopInv
<1>6. CASE UNCHANGED vars
  <2>1. Behind'
    BY <1>6 DEF vars, LoopInv, Behind, Satisfied, Passed, Score
  <2>. QED  BY <1>1, <1>2, <1>6, <2>1 DEF vars, LoopInv
<1>. QED  BY <1>3, <1>4, <1>5, <1>6 DEF Next

THEOREM LoopInvariant == Spec => []LoopInv
<1>. QED  BY LoopInit, LoopNext, PTL DEF Spec

-----------------------------------------------------------------------------
(* What the function promises.                                             *)

LEMMA LeastIs ==
    ASSUME NEW S, NEW m \in S, S \subseteq Nat, \A n \in S : m <= n
    PROVE  Least(S) = m
<1>1. \A k \in S : (\A n \in S : k <= n) => k = m
  OBVIOUS
<1>. QED  BY <1>1 DEF Least

LEMMA RestIsLeast == LoopInv => LeastFixpoint
<1>. SUFFICES ASSUME LoopInv, done PROVE table = Closure(Graph, before)
  BY DEF LeastFixpoint
<1>1. /\ table \in [Pids -> Scores] /\ before \in [Pids -> Scores] /\ Scores \subseteq Nat
      /\ DOMAIN edges = 1..Len(edges)
  BY TaintAssumption DEF LoopInv, TypeOK
<1>2. Closed(Graph, table)
  <2>1. \A i \in DOMAIN edges : Satisfied(edges[i], table)
    <3>1. ~changed /\ next - 1 = Len(edges)
      BY DEF LoopInv, TypeOK, Behind
    <3>. QED  BY <1>1, <3>1 DEF LoopInv, Behind
  <2>. QED  BY <2>1 DEF Closed, Graph
<1>3. table \in Rests(Graph, before)
  BY <1>1, <1>2 DEF Rests, LoopInv, Between
<1>4. ASSUME NEW p \in Pids PROVE Least({t[p] : t \in Rests(Graph, before)}) = table[p]
  <2>1. \A t \in Rests(Graph, before) : t[p] \in Nat /\ table[p] <= t[p]
    BY <1>1 DEF Rests, LoopInv, Between, AtLeast
  <2>2. table[p] \in {t[p] : t \in Rests(Graph, before)}
    BY <1>3
  <2>. DEFINE S == {t[p] : t \in Rests(Graph, before)}
  <2>3. S \subseteq Nat /\ table[p] \in S /\ \A n \in S : table[p] <= n
    BY <2>1, <2>2
  <2>. HIDE DEF S
  <2>4. Least(S) = table[p]
    BY <2>3, LeastIs
  <2>. QED  BY <2>4 DEF S
<1>. QED  BY <1>1, <1>4 DEF Closure

\* The scores returned are the least fixpoint above the scores on entry: they
\* do not depend on the order of the edges.
THEOREM ReachesLeastFixpoint == Spec => []LeastFixpoint
<1>. QED  BY RestIsLeast, LoopInvariant, PTL

NewInv == LoopInv /\ NewlyTaintedExact

LEMMA NewInit == Init => NewInv
<1>. SUFFICES ASSUME Init PROVE NewInv
  OBVIOUS
<1>1. DOMAIN newly = {} /\ table = before
  BY DEF Init
<1>2. \A p \in Pids : before[p] \in Nat
  BY TaintAssumption DEF Init
<1>3. Crossed = {}
  BY <1>1, <1>2, TaintAssumption DEF Crossed
<1>. QED  BY <1>1, <1>3, LoopInit DEF NewInv, NewlyTaintedExact

LEMMA NewNext == NewInv /\ [Next]_vars => NewInv'
<1>. SUFFICES ASSUME NewInv, [Next]_vars PROVE NewInv'
  OBVIOUS
<1>1. LoopInv' /\ LoopInv /\ NewlyTaintedExact /\ TypeOK
  BY LoopNext DEF NewInv, LoopInv
<1>2. CASE UNCHANGED <<before, table, newly>>
  BY <1>1, <1>2 DEF NewInv, NewlyTaintedExact, Crossed
<1>3. CASE Raise
  <2>. DEFINE e == edges[next]
              q == e.target
  <2>1. /\ e \in Edges /\ before' = before /\ Raises(e)
        /\ table' = [table EXCEPT ![q] = Passed(e, table)]
        /\ newly' = IF table[q] < Threshold /\ Passed(e, table) >= Threshold
                    THEN Append(newly, q) ELSE newly
    BY <1>1, <1>3 DEF Raise, TypeOK
  <2>2. q \in Pids
    BY <2>1, EdgeTypes
  <2>3. /\ \A p \in Pids : table[p] \in Nat /\ before[p] \in Nat /\ before[p] <= table[p]
        /\ Threshold \in Nat /\ Passed(e, table) \in Nat
    BY <1>1, <2>1, PassedIsScore, TaintAssumption DEF LoopInv, TypeOK, Between, AtLeast
  <2>4. /\ table'[q] = Passed(e, table) /\ table'[q] > table[q]
        /\ \A p \in Pids : p # q => table'[p] = table[p]
    BY <1>1, <2>1, <2>2 DEF Raises, TypeOK
  <2>. HIDE DEF e, q
  <2>5. newly \in Seq(Pids) /\ {newly[i] : i \in DOMAIN newly} = Crossed
        /\ \A i, j \in DOMAIN newly : newly[i] = newly[j] => i = j
    BY <1>1 DEF TypeOK, NewlyTaintedExact
  <2>6. CASE table[q] < Threshold /\ Passed(e, table) >= Threshold
    <3>1. Crossed' = Crossed \cup {q} /\ q \notin Crossed
      BY <2>1, <2>2, <2>3, <2>4, <2>6 DEF Crossed
    <3>2. newly' = Append(newly, q)
      BY <2>1, <2>6
    <3>3. /\ DOMAIN newly' = DOMAIN newly \cup {Len(newly) + 1}
          /\ Len(newly) + 1 \notin DOMAIN newly
          /\ newly'[Len(newly) + 1] = q
          /\ \A i \in DOMAIN newly : newly'[i] = newly[i]
      BY <2>2, <2>5, <3>2
    <3>4. \A i \in DOMAIN newly : newly[i] # q
      BY <2>5, <3>1
    <3>5. {newly'[i] : i \in DOMAIN newly'} = Crossed'
      BY <2>5, <3>1, <3>3
    <3>6. \A i, j \in DOMAIN newly' : newly'[i] = newly'[j] => i = j
      BY <2>5, <3>3, <3>4
    <3>. QED  BY <1>1, <3>5, <3>6 DEF NewInv, NewlyTaintedExact
  <2>7. CASE ~(table[q] < Threshold /\ Passed(e, table) >= Threshold)
    <3>1. Crossed' = Crossed
      BY <2>1, <2>2, <2>3, <2>4, <2>7 DEF Crossed
    <3>2. newly' = newly
      BY <2>1, <2>7
    <3>. QED  BY <1>1, <3>1, <3>2 DEF NewInv, NewlyTaintedExact
  <2>. QED  BY <2>6, <2>7
<1>. QED  BY <1>2, <1>3 DEF Next, Skip, EndPass, vars

\* The processes returned are those that crossed the threshold, each once.
THEOREM ReturnsNewlyTainted == Spec => []NewlyTaintedExact
<1>1. NewInv => NewlyTaintedExact
  BY DEF NewInv
<1>. QED  BY <1>1, NewInit, NewNext, PTL DEF Spec
-----------------------------------------------------------------------------
(* The loop implements the step that those who wait for the lock see.      *)

LEMMA SameGraph ==
    /\ Atomic!Edges = Edges
    /\ \A g, t : Atomic!Closure(g, t) = Closure(g, t)
BY DEF Atomic!Edges, Edges, Atomic!Closure, Closure, Atomic!Rests, Rests,
       Atomic!Least, Least, Atomic!AtLeast, AtLeast, Atomic!Closed, Closed,
       Atomic!Satisfied, Satisfied, Atomic!Passed, Passed, Atomic!Score, Score

LEMMA AtOnceInit == Init => Atomic!Init
<1>. SUFFICES ASSUME Init PROVE Atomic!Init
  OBVIOUS
<1>1. edges \in Seq(Edges) /\ before \in [Pids -> Scores] /\ done = FALSE
  BY TypeInit DEF TypeOK, Init
<1>2. Graph \in SUBSET Edges
  BY <1>1 DEF Graph
<1>. QED  BY <1>1, <1>2, SameGraph DEF Atomic!Init

\* No step touches the graph or the scores on entry, and only the end of the
\* last pass uncovers what the passes have computed.
LEMMA AtOnceNext ==
    NewInv /\ LeastFixpoint' /\ [Next]_vars => Atomic!Propagate \/ UNCHANGED Atomic!vars
<1>. SUFFICES ASSUME NewInv, LeastFixpoint', [Next]_vars
              PROVE  Atomic!Propagate \/ UNCHANGED Atomic!vars
  OBVIOUS
<1>1. edges' = edges /\ before' = before /\ Graph' = Graph
  BY DEF Next, Skip, Raise, EndPass, vars, Graph
<1>. DEFINE Seen == IF done THEN table ELSE before
            Named == IF done THEN {newly[i] : i \in DOMAIN newly} ELSE {}
<1>2. CASE ~done /\ ~done'
  <2>1. Seen' = Seen /\ Named' = Named /\ done' = done
    BY <1>1, <1>2 DEF NewInv, LoopInv, TypeOK, Next, Skip, Raise, EndPass, vars
  <2>. QED  BY <1>1, <2>1 DEF Atomic!vars
<1>3. CASE ~done /\ done'
  <2>1. EndPass
    BY <1>3 DEF Next, Skip, Raise, vars
  <2>2. table' = table /\ newly' = newly
    BY <2>1 DEF EndPass
  <2>3. table' = Closure(Graph, before)
    BY <1>1, <1>3 DEF LeastFixpoint
  <2>4. {newly'[i] : i \in DOMAIN newly'} = {p \in Pids : before[p] < Threshold /\ table'[p] >= Threshold}
    BY <2>2 DEF NewInv, NewlyTaintedExact, Crossed
  <2>5. /\ Seen = before /\ Seen' = table'
        /\ Named' = {newly'[i] : i \in DOMAIN newly'}
    BY <1>3
  <2>6. done' = TRUE
    BY <1>3, <2>1, Zenon DEF EndPass
  <2>7. Seen' = Closure(Graph, Seen)
    BY <2>3, <2>5
  <2>8. Named' = {p \in Pids : Seen[p] < Threshold /\ Seen'[p] >= Threshold}
    BY <2>4, <2>5
  <2>9. Atomic!Propagate
    BY <1>1, <1>3, <2>6, <2>7, <2>8, SameGraph DEF Atomic!Propagate
  <2>. QED  BY <2>9
<1>4. CASE done
  <2>1. UNCHANGED vars
    BY <1>4 DEF Next, Skip, Raise, EndPass, vars
  <2>. QED  BY <2>1 DEF vars, Atomic!vars, Graph
<1>. QED  BY <1>2, <1>3, <1>4

\* For those who wait for the lock the function is one step.
THEOREM PropagationImplemented == Spec => AtOnce
<1>1. Atomic!Propagate \/ UNCHANGED Atomic!vars => [Atomic!Propagate]_(Atomic!vars)
  OBVIOUS
<1>. QED  BY <1>1, AtOnceInit, AtOnceNext, NewInit, NewNext, ReachesLeastFixpoint, PTL
          DEF Spec, AtOnce, Atomic!Spec
=============================================================================
