----------------------------- MODULE FlowsProofs -----------------------------
(***************************************************************************)
(* Proofs about Flows, for any processes, files, queues, grades, bounds    *)
(* and attenuation that is monotone.                                       *)
(*                                                                         *)
(* The closure of a table is a rest of it, and the least.  So a receipt    *)
(* leaves taint at rest; and, as every edge of the graph is an influence,  *)
(* the table that is full for the influenced processes and clean for the   *)
(* others is a rest too, which bounds what the closure can taint.          *)
(***************************************************************************)
EXTENDS Flows, FiniteSetTheorems, WellFoundedInduction, TLAPS

-----------------------------------------------------------------------------
(* The closure.                                                            *)

LEMMA LeastExists ==
    ASSUME NEW T, T \subseteq Nat, T # {}
    PROVE  Least(T) \in T /\ \A n \in T : Least(T) <= n
<1>. DEFINE Before == {ss \in Nat \X Nat : ss[1] < ss[2]}
<1>1. IsWellFoundedOn(Before, Nat)
  BY NatLessThanWellFounded DEF OpToRel
<1>2. PICK m \in T : \A n \in T : <<n, m>> \notin Before
  BY <1>1, WFMin
<1>3. ASSUME NEW n \in T PROVE m <= n
  <2>1. m \in Nat /\ n \in Nat /\ <<n, m>> \in Nat \X Nat
    OBVIOUS
  <2>2. ~(n < m)
    BY <1>2, <2>1
  <2>. QED  BY <2>1, <2>2
<1>. QED  BY <1>3 DEF Least

LEMMA FullRests ==
    ASSUME NEW edges \in SUBSET Edges, NEW scores,
           DOMAIN scores \subseteq Pids, scores \in [DOMAIN scores -> Scores]
    PROVE  [p \in DOMAIN scores |-> Full] \in Rests(edges, scores)
<1>. DEFINE full == [p \in DOMAIN scores |-> Full]
<1>1. full \in [DOMAIN scores -> Scores] /\ AtLeast(full, scores)
  BY TaintAssumption DEF AtLeast
<1>2. ASSUME NEW e \in edges PROVE Satisfied(e, full)
  <2>1. /\ e.channel \in Channels /\ Score(full, e.source) \in Scores
        /\ e.target \in DOMAIN scores => full[e.target] = Full
    BY <1>1, TaintAssumption DEF Edges, Score
  <2>2. /\ Attenuate[e.channel][Score(full, e.source)] \in Scores
    BY <2>1, TaintAssumption
  <2>. QED  BY <2>1, <2>2, TaintAssumption DEF Satisfied, Passed
<1>. QED  BY <1>1, <1>2 DEF Rests, Closed

\* The least rest of each process taken by itself is a rest.
LEMMA ClosureRests ==
    ASSUME NEW edges \in SUBSET Edges, NEW scores,
           DOMAIN scores \subseteq Pids, scores \in [DOMAIN scores -> Scores]
    PROVE  /\ Closure(edges, scores) \in Rests(edges, scores)
           /\ \A t \in Rests(edges, scores) : AtLeast(t, Closure(edges, scores))
<1>. DEFINE rests == Rests(edges, scores)
            c == Closure(edges, scores)
            of(p) == {t[p] : t \in rests}
<1>1. c = [p \in DOMAIN scores |-> Least(of(p))]
  BY DEF Closure
<1>2. rests # {} /\ \A t \in rests : t \in [DOMAIN scores -> Scores] /\ AtLeast(t, scores)
  BY FullRests DEF Rests
<1>3. ASSUME NEW p \in DOMAIN scores
      PROVE  (\E t \in rests : c[p] = t[p]) /\ \A t \in rests : c[p] <= t[p]
  <2>1. of(p) \subseteq Nat /\ of(p) # {}
    BY <1>2, TaintAssumption
  <2>2. Least(of(p)) \in of(p) /\ \A n \in of(p) : Least(of(p)) <= n
    <3>. HIDE DEF of
    <3>. QED  BY <2>1, LeastExists
  <2>3. c[p] = Least(of(p))
    BY <1>1
  <2>. QED  BY <2>2, <2>3
<1>4. DOMAIN c = DOMAIN scores
  BY <1>1
<1>. HIDE DEF c
<1>5. c \in [DOMAIN scores -> Scores]
  <2>1. \A p \in DOMAIN scores : c[p] \in Scores
    BY <1>2, <1>3
  <2>2. c = [p \in DOMAIN scores |-> c[p]]
    BY <1>1, <1>4 DEF c
  <2>. QED  BY <2>1, <2>2
<1>6. AtLeast(c, scores)
  BY <1>2, <1>3 DEF AtLeast
<1>7. ASSUME NEW e \in edges PROVE Satisfied(e, c)
  <2>. SUFFICES ASSUME Score(c, e.source) >= Threshold, e.target \in DOMAIN c
                PROVE  Passed(e, c) <= c[e.target]
    BY DEF Satisfied
  <2>1. e.source \in DOMAIN scores /\ Score(c, e.source) = c[e.source]
    BY <1>4, TaintAssumption DEF Score
  <2>2. PICK t \in rests : c[e.target] = t[e.target]
    BY <1>3, <1>4
  <2>3. /\ t \in [DOMAIN scores -> Scores] /\ Satisfied(e, t)
        /\ c[e.source] <= t[e.source]
        /\ e.target \in DOMAIN t /\ Score(t, e.source) = t[e.source]
    BY <1>2, <1>3, <1>4, <2>1 DEF Rests, Closed, Score
  <2>4. t[e.source] \in Scores /\ c[e.source] \in Scores /\ e.channel \in Channels
    BY <1>5, <2>1, <2>3 DEF Edges
  <2>5. t[e.source] >= Threshold
    BY <2>1, <2>3, <2>4, TaintAssumption
  <2>6. Attenuate[e.channel][t[e.source]] <= t[e.target]
    BY <2>3, <2>5 DEF Satisfied, Passed
  <2>7. Attenuate[e.channel][c[e.source]] <= Attenuate[e.channel][t[e.source]]
    BY <2>3, <2>4, TaintAssumption
  <2>8. /\ Attenuate[e.channel][t[e.source]] \in Nat
        /\ Attenuate[e.channel][c[e.source]] \in Nat
    BY <2>4, TaintAssumption
  <2>9. t[e.target] \in Nat
    BY <1>4, <2>3, TaintAssumption
  <2>. QED  BY <2>1, <2>2, <2>6, <2>7, <2>8, <2>9 DEF Passed
<1>8. c \in rests
  BY <1>5, <1>6, <1>7 DEF Rests, Closed
<1>9. \A t \in rests : AtLeast(t, c)
  <2>1. \A t \in rests : \A p \in DOMAIN scores : t[p] \in Nat /\ c[p] \in Nat
    BY <1>2, <1>5, TaintAssumption
  <2>. QED  BY <1>3, <1>4, <2>1 DEF AtLeast
<1>. QED  BY <1>8, <1>9 DEF c

-----------------------------------------------------------------------------
(* Type correctness, by groups of variables.                               *)

TypeOfProcesses ==
    /\ Known \subseteq Pids /\ table \in [Known -> Scores]
    /\ parent \in [Known -> Pids \cup {0}]
    /\ origins \subseteq Known

TypeOfGraph ==
    /\ DOMAIN graph \subseteq Edges
    /\ \A e \in DOMAIN graph : graph[e] \in 1..Sustained /\ {e.source, e.target} \subseteq Known

TypeOfNodes ==
    /\ writers \in [Files -> SUBSET Known] /\ readers \in [Files -> SUBSET Known]
    /\ senders \in [Queues -> SUBSET Known] /\ receivers \in [Queues -> SUBSET Known]

\* An action that is running has a number that no completed one has.
TypeOfAction ==
    /\ running \in BOOLEAN /\ currentId \in Nat
    /\ IsFiniteSet(completed) /\ completed \subseteq 0..currentId
    /\ completed \subseteq 0..Cardinality(completed)
    /\ running => \/ currentId = Cardinality(completed) + 1
                  \/ currentId = 0 /\ completed = {}
    /\ ~running => currentId \in completed

TypeOfAttribution == attributed \in [Known -> completed \cup {currentId, 0}]

TypeInv ==
    /\ TypeOfProcesses /\ TypeOfGraph /\ TypeOfNodes /\ TypeOfAction
    /\ TypeOfAttribution /\ fresh \in {"none", "end", "snapshot"}

LEMMA TypeInvImplies == TypeInv => TypeOK
BY DEF TypeInv, TypeOfProcesses, TypeOfGraph, TypeOfNodes, TypeOfAction, TypeOfAttribution, TypeOK

LEMMA PidsAreNumbers == Pids \subseteq Nat /\ 0 \notin Pids
BY FlowsAssumption

\* The keys that a request adds, between processes that are known.
LEMMA FlowEdges ==
    ASSUME TypeOfProcesses, TypeOfNodes
    PROVE  /\ \A e \in FileFlows : /\ e \in Edges /\ {e.source, e.target} \subseteq Known
                                   /\ <<e.source, e.target>> \in Influence
           /\ \A e \in QueueFlows : /\ e \in Edges /\ {e.source, e.target} \subseteq Known
                                    /\ <<e.source, e.target>> \in Influence
<1>1. ASSUME NEW e \in FileFlows
      PROVE  /\ e \in Edges /\ {e.source, e.target} \subseteq Known
             /\ <<e.source, e.target>> \in Influence
  <2>0. PICK f \in Files \ Infrastructure :
            \E w \in writers[f], r \in readers[f] \ writers[f] : e = Edge(w, r, "file")
    BY <1>1 DEF FileFlows
  <2>1. PICK w \in writers[f], r \in readers[f] \ writers[f] : e = Edge(w, r, "file")
    BY <2>0
  <2>2. w \in Known /\ r \in Known /\ w # r
    BY <2>1 DEF TypeOfNodes
  <2>3. e \in Edges
    BY <2>1, <2>2, FlowsAssumption DEF TypeOfProcesses, Edge, Edges
  <2>4. <<w, r>> \in UNION {writers[g] \X readers[g] : g \in Files \ Infrastructure}
    BY <2>1
  <2>5. <<w, r>> \in Influence
    BY <2>4, Zenon DEF Influence
  <2>6. e.source = w /\ e.target = r
    BY <2>1 DEF Edge
  <2>. QED  BY <2>2, <2>3, <2>5, <2>6
<1>2. ASSUME NEW e \in QueueFlows
      PROVE  /\ e \in Edges /\ {e.source, e.target} \subseteq Known
             /\ <<e.source, e.target>> \in Influence
  <2>0. PICK q \in Queues :
            \E s \in senders[q] : \E r \in receivers[q] \ {s} : e = Edge(s, r, "queue")
    BY <1>2 DEF QueueFlows
  <2>1. PICK s \in senders[q] : \E r \in receivers[q] \ {s} : e = Edge(s, r, "queue")
    BY <2>0
  <2>2. PICK r \in receivers[q] \ {s} : e = Edge(s, r, "queue")
    BY <2>1
  <2>3. s \in Known /\ r \in Known /\ s # r
    BY <2>2 DEF TypeOfNodes
  <2>4. e \in Edges
    BY <2>2, <2>3, FlowsAssumption DEF TypeOfProcesses, Edge, Edges
  <2>5. <<s, r>> \in UNION {senders[k] \X receivers[k] : k \in Queues}
    BY <2>2
  <2>6. \A i : i \in UNION {senders[k] \X receivers[k] : k \in Queues} => i \in Influence
    BY Zenon DEF Influence
  <2>7. e.source = s /\ e.target = r
    BY <2>2 DEF Edge
  <2>. QED  BY <2>3, <2>4, <2>5, <2>6, <2>7
<1>. QED  BY <1>1, <1>2

\* The graph with more edges.
LEMMA AddedEdges ==
    ASSUME TypeOfGraph, NEW keys
    PROVE  /\ DOMAIN AddEdges(graph, keys) = DOMAIN graph \cup keys
           /\ \A e \in DOMAIN graph \cup keys : AddEdges(graph, keys)[e] \in 1..Sustained
           /\ \A e \in DOMAIN graph : AddEdges(graph, keys)[e] >= graph[e]
<1>1. 1 \in 1..Sustained /\ \A n \in 1..Sustained : Counted(n) \in 1..Sustained /\ Counted(n) >= n
  BY FlowsAssumption DEF Counted
<1>2. \A e \in DOMAIN graph : graph[e] \in 1..Sustained /\ graph[e] >= graph[e]
  BY FlowsAssumption DEF TypeOfGraph
<1>. QED  BY <1>1, <1>2 DEF AddEdges

\* A process that is not known is added, with its parent.
Adds(p, ppid) ==
    /\ p \notin Known /\ ppid \in Pids \cup {0} /\ ppid < p
    /\ table' = Extend(table, p, FirstScore(ppid))
    /\ parent' = Extend(parent, p, ppid)
    /\ \E a \in AttributionOf(ppid) : attributed' = Extend(attributed, p, a)
    /\ graph' = IF ppid \in Known
                THEN AddEdges(graph, {Edge(ppid, p, "fork")}) ELSE graph
    /\ origins' = IF Active THEN origins \cup {p} ELSE origins

\* An event's process is known already, or is added.
LEMMA DispatchCases ==
    ASSUME NEW p \in Pids, Dispatch(p)
    PROVE  /\ UNCHANGED action /\ fresh' = "none"
           /\ \/ p \in Known /\ UNCHANGED <<processes, graph, origins>>
              \/ \E ppid \in Pids \cup {0} : Adds(p, ppid)
<1>1. PICK ppid \in Parents(p) : EnsureProcess(p, ppid)
  BY DEF Dispatch
<1>2. CASE p \in Known
  BY <1>1, <1>2 DEF Dispatch, EnsureProcess
<1>3. CASE p \notin Known
  BY <1>1, <1>3 DEF Dispatch, EnsureProcess, Parents, Adds
<1>. QED  BY <1>2, <1>3

LEMMA FirstScoreType ==
    ASSUME TypeOfProcesses, NEW ppid
    PROVE  /\ FirstScore(ppid) \in Scores
           /\ FirstScore(ppid) > 0 => Active \/ (ppid \in Known /\ table[ppid] > 0)
<1>1. Score(table, ppid) \in Scores
  BY TaintAssumption DEF Score, TypeOfProcesses, Known
<1>2. Attenuate["fork"][Score(table, ppid)] \in Scores
      /\ Attenuate["fork"][Score(table, ppid)] <= Score(table, ppid)
  BY <1>1, TaintAssumption, FlowsAssumption
<1>0. /\ Attenuate["fork"][Score(table, ppid)] > 0 => Score(table, ppid) > 0
      /\ ~(0 > 0)
  <2>1. Score(table, ppid) \in Nat /\ Attenuate["fork"][Score(table, ppid)] \in Nat
    BY <1>1, <1>2, TaintAssumption
  <2>2. \A a, b \in Nat : b <= a /\ b > 0 => a > 0
    OBVIOUS
  <2>. QED  BY <1>2, <2>1, <2>2
<1>3. FirstScore(ppid) > 0 => Active \/ Score(table, ppid) > 0
  <2>. SUFFICES ASSUME ~Active, ~(Score(table, ppid) > 0) PROVE ~(FirstScore(ppid) > 0)
    OBVIOUS
  <2>1. FirstScore(ppid) \in {0, Attenuate["fork"][Score(table, ppid)]}
    <3>1. CASE Known = {}
      BY <3>1 DEF FirstScore
    <3>2. CASE Known # {}
      BY <3>2, Zenon DEF FirstScore
    <3>. QED  BY <3>1, <3>2
  <2>. QED  BY <1>0, <2>1, Zenon
<1>4. FirstScore(ppid) \in {0, Full, Attenuate["fork"][Score(table, ppid)]}
  <2>1. CASE Known = {}
    BY <2>1 DEF FirstScore
  <2>2. CASE Known # {} /\ Active /\ Score(table, ppid) = 0
    BY <2>2 DEF FirstScore
  <2>3. CASE Known # {} /\ ~(Active /\ Score(table, ppid) = 0)
    BY <2>3 DEF FirstScore
  <2>. QED  BY <2>1, <2>2, <2>3
<1>5. FirstScore(ppid) \in Scores
  BY <1>2, <1>4, TaintAssumption
<1>6. Score(table, ppid) > 0 => ppid \in Known /\ table[ppid] > 0
  BY DEF Score, Known
<1>. QED  BY <1>3, <1>5, <1>6, Zenon

\* What a process that is added leaves.
LEMMA AddsStep ==
    ASSUME TypeInv, NEW p \in Pids, NEW ppid \in Pids \cup {0}, Adds(p, ppid)
    PROVE  /\ Known' = Known \cup {p}
           /\ table'[p] = FirstScore(ppid) /\ parent'[p] = ppid
           /\ \A q \in Known : /\ table'[q] = table[q] /\ parent'[q] = parent[q]
                               /\ attributed'[q] = attributed[q]
           /\ DOMAIN graph' = DOMAIN graph
                  \cup (IF ppid \in Known THEN {Edge(ppid, p, "fork")} ELSE {})
           /\ \A e \in DOMAIN graph : graph'[e] >= graph[e]
           /\ TypeOfProcesses' /\ TypeOfGraph'
           /\ attributed' \in [Known \cup {p} -> completed \cup {currentId, 0}]
<1>. USE DEF TypeInv
<1>1. /\ Known' = Known \cup {p}
      /\ table'[p] = FirstScore(ppid) /\ \A q \in Known : table'[q] = table[q]
      /\ table' \in [Known \cup {p} -> Scores]
  BY FirstScoreType DEF Adds, Extend, Known, TypeOfProcesses
<1>2. /\ parent'[p] = ppid /\ \A q \in Known : parent'[q] = parent[q]
      /\ parent' \in [Known \cup {p} -> Pids \cup {0}]
  BY DEF Adds, Extend, TypeOfProcesses
<1>3. PICK a \in AttributionOf(ppid) : attributed' = Extend(attributed, p, a)
  BY DEF Adds
<1>4. a \in completed \cup {currentId, 0}
  BY <1>3 DEF AttributionOf, TypeOfAttribution
<1>5. /\ \A q \in Known : attributed'[q] = attributed[q]
      /\ attributed' \in [Known \cup {p} -> completed \cup {currentId, 0}]
  BY <1>3, <1>4 DEF Adds, Extend, TypeOfAttribution
<1>6. TypeOfProcesses'
  BY <1>1, <1>2 DEF Adds, TypeOfProcesses
<1>7. /\ DOMAIN graph' = DOMAIN graph
             \cup (IF ppid \in Known THEN {Edge(ppid, p, "fork")} ELSE {})
      /\ \A e \in DOMAIN graph : graph'[e] >= graph[e]
      /\ TypeOfGraph'
  <2>1. CASE ppid \in Known
    <3>1. Edge(ppid, p, "fork") \in Edges
      BY <2>1, PidsAreNumbers, FlowsAssumption DEF Adds, TypeOfProcesses, Edge, Edges
    <3>2. graph' = AddEdges(graph, {Edge(ppid, p, "fork")})
      BY <2>1 DEF Adds
    <3>3. /\ DOMAIN graph' = DOMAIN graph \cup {Edge(ppid, p, "fork")}
          /\ \A e \in DOMAIN graph \cup {Edge(ppid, p, "fork")} : graph'[e] \in 1..Sustained
          /\ \A e \in DOMAIN graph : graph'[e] >= graph[e]
      BY <3>2, AddedEdges
    <3>4. TypeOfGraph'
      <4>1. ASSUME NEW e \in DOMAIN graph'
            PROVE  e \in Edges /\ {e.source, e.target} \subseteq Known'
        BY <1>1, <2>1, <3>1, <3>3 DEF TypeOfGraph, Edge
      <4>. QED  BY <3>3, <4>1 DEF TypeOfGraph
    <3>. QED  BY <2>1, <3>3, <3>4
  <2>2. CASE ppid \notin Known
    <3>1. graph' = graph
      BY <2>2 DEF Adds
    <3>2. \A e \in DOMAIN graph : graph[e] \in Int
      BY DEF TypeOfGraph
    <3>. QED  BY <1>1, <2>2, <3>1, <3>2 DEF TypeOfGraph
  <2>. QED  BY <2>1, <2>2
<1>. QED  BY <1>1, <1>2, <1>5, <1>6, <1>7

\* Nodes get a process that is known afterwards.
LEMMA NodesStep ==
    ASSUME TypeOfNodes, NEW p, NEW S, S = Known \cup {p}
    PROVE  /\ \A f \in Files : /\ [writers EXCEPT ![f] = @ \cup {p}] \in [Files -> SUBSET S]
                               /\ [readers EXCEPT ![f] = @ \cup {p}] \in [Files -> SUBSET S]
           /\ \A q \in Queues : /\ [senders EXCEPT ![q] = @ \cup {p}] \in [Queues -> SUBSET S]
                                /\ [receivers EXCEPT ![q] = @ \cup {p}] \in [Queues -> SUBSET S]
           /\ writers \in [Files -> SUBSET S] /\ readers \in [Files -> SUBSET S]
           /\ senders \in [Queues -> SUBSET S] /\ receivers \in [Queues -> SUBSET S]
BY DEF TypeOfNodes

\* A system call, and what its handler does to the nodes.
Call(p) ==
    \/ \E f \in Files : Write(p, f) \/ Read(p, f) \/ Exec(p, f)
    \/ \E q \in Queues : Send(p, q) \/ Receive(p, q)
    \/ Other(p)

NodesGrow ==
    /\ \A f \in Files : writers[f] \subseteq writers'[f] /\ readers[f] \subseteq readers'[f]
    /\ \A q \in Queues : senders[q] \subseteq senders'[q] /\ receivers[q] \subseteq receivers'[q]

LEMMA CallNodes ==
    ASSUME TypeOfNodes, NEW p \in Pids, Call(p), Known' = Known \cup {p}
    PROVE  TypeOfNodes' /\ NodesGrow /\ Dispatch(p)
<1>1. ASSUME NEW f \in Files, Write(p, f) \/ Read(p, f) \/ Exec(p, f)
      PROVE  TypeOfNodes' /\ NodesGrow /\ Dispatch(p)
  <2>1. /\ writers' = writers \/ writers' = [writers EXCEPT ![f] = @ \cup {p}]
        /\ readers' = readers \/ readers' = [readers EXCEPT ![f] = @ \cup {p}]
        /\ senders' = senders /\ receivers' = receivers
        /\ Dispatch(p)
    BY <1>1, Zenon DEF Write, Read, Exec, queues
  <2>2. TypeOfNodes'
    BY <2>1, NodesStep DEF TypeOfNodes
  <2>3. NodesGrow
    BY <2>1 DEF NodesGrow, TypeOfNodes
  <2>. QED  BY <2>1, <2>2, <2>3
<1>2. ASSUME NEW q \in Queues, Send(p, q) \/ Receive(p, q)
      PROVE  TypeOfNodes' /\ NodesGrow /\ Dispatch(p)
  <2>1. /\ senders' = senders \/ senders' = [senders EXCEPT ![q] = @ \cup {p}]
        /\ receivers' = receivers \/ receivers' = [receivers EXCEPT ![q] = @ \cup {p}]
        /\ writers' = writers /\ readers' = readers
        /\ Dispatch(p)
    BY <1>2, Zenon DEF Send, Receive, files
  <2>2. TypeOfNodes'
    BY <2>1, NodesStep DEF TypeOfNodes
  <2>3. NodesGrow
    BY <2>1 DEF NodesGrow, TypeOfNodes
  <2>. QED  BY <2>1, <2>2, <2>3
<1>3. CASE Other(p)
  <2>1. UNCHANGED <<writers, readers, senders, receivers>> /\ Dispatch(p)
    BY <1>3 DEF Other, files, queues
  <2>2. TypeOfNodes'
    BY <2>1, NodesStep DEF TypeOfNodes
  <2>. QED  BY <2>1, <2>2 DEF NodesGrow
<1>. QED  BY <1>1, <1>2, <1>3, Zenon DEF Call

LEMMA NextCases ==
    Next <=> (\E p \in Pids : Call(p)) \/ ActionStart \/ ActionEnd \/ SnapshotReceipt
BY Zenon DEF Next, Call

\* The whole of a call: the types hold, nothing is lost, and a new edge or a
\* new score comes from the new process's parent, or from the action.
LEMMA CallStep ==
    ASSUME TypeInv, NEW p \in Pids, Call(p)
    PROVE  /\ TypeInv' /\ NodesGrow /\ fresh' = "none"
           /\ Known' = Known \cup {p} /\ origins \subseteq origins'
           /\ \A q \in Known : /\ table'[q] = table[q] /\ parent'[q] = parent[q]
                               /\ attributed'[q] = attributed[q]
           /\ \A e \in DOMAIN graph : e \in DOMAIN graph' /\ graph'[e] >= graph[e]
           /\ p \notin Known /\ table'[p] > 0 =>
                  p \in origins' \/ (parent'[p] \in Known /\ table[parent'[p]] > 0)
           /\ \A e \in DOMAIN graph' \ DOMAIN graph :
                  parent'[p] \in Known /\ e = Edge(parent'[p], p, "fork")
<1>0. Dispatch(p)
  BY Zenon DEF Call, Write, Read, Exec, Send, Receive, Other
<1>1. /\ UNCHANGED <<running, currentId, completed>> /\ fresh' = "none"
      /\ \/ p \in Known /\ UNCHANGED <<processes, graph, origins>>
         \/ \E ppid \in Pids \cup {0} : Adds(p, ppid)
  BY <1>0, DispatchCases DEF action
<1>2. CASE p \in Known /\ UNCHANGED <<processes, graph, origins>>
  <2>1. UNCHANGED <<table, parent, attributed, graph, origins>>
    BY <1>2 DEF processes
  <2>2. Known' = Known \cup {p} /\ Known' = Known
    BY <1>2, <2>1 DEF Known
  <2>3. TypeOfNodes' /\ NodesGrow
    BY <2>2, CallNodes DEF TypeInv
  <2>4. TypeOfProcesses' /\ TypeOfGraph' /\ TypeOfAttribution' /\ TypeOfAction'
    BY <1>1, <2>1, <2>2
       DEF TypeInv, TypeOfProcesses, TypeOfGraph, TypeOfAttribution, TypeOfAction
  <2>5. \A e \in DOMAIN graph : graph[e] >= graph[e]
    BY DEF TypeInv, TypeOfGraph
  <2>. QED  BY <1>1, <1>2, <2>1, <2>2, <2>3, <2>4, <2>5 DEF TypeInv
<1>3. ASSUME NEW ppid \in Pids \cup {0}, Adds(p, ppid)
      PROVE  /\ TypeInv' /\ NodesGrow
             /\ Known' = Known \cup {p} /\ origins \subseteq origins'
             /\ \A q \in Known : /\ table'[q] = table[q] /\ parent'[q] = parent[q]
                                 /\ attributed'[q] = attributed[q]
             /\ \A e \in DOMAIN graph : e \in DOMAIN graph' /\ graph'[e] >= graph[e]
             /\ table'[p] > 0 =>
                    p \in origins' \/ (parent'[p] \in Known /\ table[parent'[p]] > 0)
             /\ \A e \in DOMAIN graph' \ DOMAIN graph :
                    parent'[p] \in Known /\ e = Edge(parent'[p], p, "fork")
  <2>1. /\ Known' = Known \cup {p}
        /\ table'[p] = FirstScore(ppid) /\ parent'[p] = ppid
        /\ \A q \in Known : /\ table'[q] = table[q] /\ parent'[q] = parent[q]
                            /\ attributed'[q] = attributed[q]
        /\ DOMAIN graph' = DOMAIN graph
               \cup (IF ppid \in Known THEN {Edge(ppid, p, "fork")} ELSE {})
        /\ \A e \in DOMAIN graph : graph'[e] >= graph[e]
        /\ TypeOfProcesses' /\ TypeOfGraph'
        /\ attributed' \in [Known \cup {p} -> completed \cup {currentId, 0}]
    BY <1>3, AddsStep
  <2>2. TypeOfNodes' /\ NodesGrow
    BY <2>1, CallNodes DEF TypeInv
  <2>3. TypeOfAction' /\ TypeOfAttribution'
    BY <1>1, <2>1 DEF TypeInv, TypeOfAction, TypeOfAttribution
  <2>4. TypeInv'
    BY <1>1, <2>1, <2>2, <2>3 DEF TypeInv
  <2>5. origins \subseteq origins' /\ (Active => p \in origins')
    BY <1>3, Zenon DEF Adds
  <2>6. table'[p] > 0 => p \in origins' \/ (parent'[p] \in Known /\ table[parent'[p]] > 0)
    <3>1. FirstScore(ppid) > 0 => Active \/ (ppid \in Known /\ table[ppid] > 0)
      BY FirstScoreType DEF TypeInv
    <3>. QED  BY <2>1, <2>5, <3>1, Zenon
  <2>7. \A e \in DOMAIN graph' \ DOMAIN graph :
            parent'[p] \in Known /\ e = Edge(parent'[p], p, "fork")
    BY <2>1
  <2>. QED  BY <2>1, <2>2, <2>4, <2>5, <2>6, <2>7
<1>. QED  BY <1>1, <1>2, <1>3

\* A request that adds edges and propagates.
Propagates(flows) ==
    /\ graph' = AddEdges(graph, flows)
    /\ table' = Closure(DOMAIN graph', table)
    /\ UNCHANGED <<parent, attributed, writers, readers, senders, receivers, origins>>

LEMMA PropagatesStep ==
    ASSUME TypeInv, NEW flows, Propagates(flows),
           \A e \in flows : e \in Edges /\ {e.source, e.target} \subseteq Known
    PROVE  /\ TypeOfProcesses' /\ TypeOfGraph' /\ TypeOfNodes'
           /\ Known' = Known
           /\ DOMAIN graph' = DOMAIN graph \cup flows
           /\ \A e \in DOMAIN graph : graph'[e] >= graph[e]
           /\ \A q \in Known : table'[q] >= table[q]
           /\ \A e \in DOMAIN graph' : Satisfied(e, table')
           /\ \A t \in Rests(DOMAIN graph', table) : \A q \in Known : t[q] >= table'[q]
<1>1. /\ DOMAIN graph' = DOMAIN graph \cup flows
      /\ \A e \in DOMAIN graph \cup flows : graph'[e] \in 1..Sustained
      /\ \A e \in DOMAIN graph : graph'[e] >= graph[e]
  BY AddedEdges DEF Propagates, TypeInv
<1>2. PICK g : g = DOMAIN graph'
  OBVIOUS
<1>3. g \in SUBSET Edges /\ \A e \in g : {e.source, e.target} \subseteq Known
  BY <1>1, <1>2 DEF TypeInv, TypeOfGraph
<1>4. table' \in Rests(g, table) /\ \A t \in Rests(g, table) : AtLeast(t, table')
  <2>1. DOMAIN table \subseteq Pids /\ table \in [DOMAIN table -> Scores]
    BY DEF TypeInv, TypeOfProcesses, Known
  <2>2. table' = Closure(g, table)
    BY <1>2 DEF Propagates
  <2>. QED  BY <1>3, <2>1, <2>2, ClosureRests
<1>5. table' \in [Known -> Scores] /\ Known' = Known
  BY <1>4 DEF Rests, Known
<1>6. TypeOfProcesses' /\ TypeOfGraph' /\ TypeOfNodes'
  <2>1. TypeOfProcesses'
    BY <1>5 DEF Propagates, TypeInv, TypeOfProcesses
  <2>2. TypeOfGraph'
    BY <1>1, <1>2, <1>3, <1>5 DEF TypeOfGraph
  <2>3. TypeOfNodes'
    BY <1>5 DEF Propagates, TypeInv, TypeOfNodes
  <2>. QED  BY <2>1, <2>2, <2>3
<1>7. \A q \in Known : table'[q] >= table[q]
  BY <1>4 DEF Rests, AtLeast, Known
<1>8. \A e \in g : Satisfied(e, table')
  BY <1>4 DEF Rests, Closed
<1>9. \A t \in Rests(g, table) : \A q \in Known : t[q] >= table'[q]
  BY <1>4, <1>5 DEF AtLeast
<1>. QED  BY <1>1, <1>2, <1>5, <1>6, <1>7, <1>8, <1>9

LEMMA RequestFlows ==
    ASSUME TypeInv
    PROVE  /\ ActionEnd => Propagates(FileFlows \cup QueueFlows)
           /\ SnapshotReceipt => Propagates(FileFlows)
           /\ \A e \in FileFlows \cup QueueFlows : /\ e \in Edges
                                                  /\ {e.source, e.target} \subseteq Known
                                                  /\ <<e.source, e.target>> \in Influence
<1>1. \A e \in FileFlows \cup QueueFlows : /\ e \in Edges /\ {e.source, e.target} \subseteq Known
                                         /\ <<e.source, e.target>> \in Influence
  BY FlowEdges DEF TypeInv
<1>. QED  BY <1>1 DEF ActionEnd, SnapshotReceipt, Propagates, files, queues

-----------------------------------------------------------------------------
(* Steps keep the types.                                                   *)

LEMMA StartStep == TypeInv /\ ActionStart => TypeInv'
<1>. SUFFICES ASSUME TypeInv, ActionStart PROVE TypeInv'
  OBVIOUS
<1>0. /\ UNCHANGED <<table, parent, attributed, graph, writers, readers, senders, receivers,
                     completed, origins, fresh>>
      /\ running' = TRUE /\ currentId' = Cardinality(completed) + 1
  BY DEF ActionStart, processes, files, queues
<1>1. Known' = Known
  BY <1>0 DEF Known
<1>2. TypeOfProcesses' /\ TypeOfGraph' /\ TypeOfNodes'
  BY <1>0, <1>1 DEF TypeInv, TypeOfProcesses, TypeOfGraph, TypeOfNodes
<1>3. Cardinality(completed) \in Nat
  BY FS_CardinalityType DEF TypeInv, TypeOfAction
<1>4. completed \subseteq 0..currentId'
  BY <1>0, <1>3 DEF TypeInv, TypeOfAction
<1>5. TypeOfAction'
  BY <1>0, <1>3, <1>4 DEF TypeInv, TypeOfAction
<1>6. TypeOfAttribution'
  BY <1>0, <1>1 DEF TypeInv, TypeOfAction, TypeOfAttribution
<1>. QED  BY <1>0, <1>2, <1>5, <1>6 DEF TypeInv

LEMMA EndStep == TypeInv /\ ActionEnd => TypeOfAction' /\ TypeOfAttribution'
<1>. SUFFICES ASSUME TypeInv, ActionEnd PROVE TypeOfAction' /\ TypeOfAttribution'
  OBVIOUS
<1>. DEFINE n == Cardinality(completed)
<1>1. /\ running' = FALSE /\ currentId' = currentId /\ attributed' = attributed
      /\ completed' = IF running THEN completed \cup {currentId} ELSE completed
  BY DEF ActionEnd
<1>2. n \in Nat
  BY FS_CardinalityType DEF TypeInv, TypeOfAction
<1>3. TypeOfAction'
  <2>1. CASE running
    <3>1. currentId \notin completed /\ currentId \in 0..(n + 1)
      BY <1>2, <2>1 DEF TypeInv, TypeOfAction
    <3>2. completed' = completed \cup {currentId}
      BY <1>1, <2>1
    <3>3. IsFiniteSet(completed') /\ Cardinality(completed') = n + 1
      BY <3>1, <3>2, FS_AddElement DEF TypeInv, TypeOfAction
    <3>4. completed' \subseteq 0..(n + 1) /\ completed' \subseteq 0..currentId
      BY <1>2, <3>1, <3>2 DEF TypeInv, TypeOfAction
    <3>5. currentId \in completed' /\ currentId \in Nat
      BY <3>2 DEF TypeInv, TypeOfAction
    <3>. QED  BY <1>1, <3>3, <3>4, <3>5 DEF TypeOfAction
  <2>2. CASE ~running
    BY <1>1, <2>2 DEF TypeInv, TypeOfAction
  <2>. QED  BY <2>1, <2>2
<1>4. Known' = Known
  BY RequestFlows, PropagatesStep
<1>5. TypeOfAttribution'
  <2>1. completed \subseteq completed'
    BY <1>1
  <2>. QED  BY <1>1, <1>4, <2>1 DEF TypeInv, TypeOfAttribution
<1>. QED  BY <1>3, <1>5

LEMMA TypeStep == TypeInv /\ [Next]_vars => TypeInv'
<1>. SUFFICES ASSUME TypeInv, [Next]_vars PROVE TypeInv'
  OBVIOUS
<1>1. ASSUME NEW p \in Pids, Call(p) PROVE TypeInv'
  BY <1>1, CallStep
<1>2. CASE ActionStart
  BY <1>2, StartStep
<1>3. CASE ActionEnd
  <2>1. TypeOfProcesses' /\ TypeOfGraph' /\ TypeOfNodes'
    BY <1>3, RequestFlows, PropagatesStep
  <2>2. fresh' = "end"
    BY <1>3 DEF ActionEnd
  <2>. QED  BY <1>3, <2>1, <2>2, EndStep DEF TypeInv
<1>4. CASE SnapshotReceipt
  <2>1. TypeOfProcesses' /\ TypeOfGraph' /\ TypeOfNodes' /\ Known' = Known
    BY <1>4, RequestFlows, PropagatesStep
  <2>2. fresh' = "snapshot" /\ UNCHANGED <<attributed, running, currentId, completed>>
    BY <1>4 DEF SnapshotReceipt, action
  <2>3. TypeOfAction' /\ TypeOfAttribution'
    BY <2>1, <2>2 DEF TypeInv, TypeOfAction, TypeOfAttribution
  <2>. QED  BY <2>1, <2>2, <2>3 DEF TypeInv
<1>5. CASE UNCHANGED vars
  BY <1>5 DEF vars, processes, files, queues, action, TypeInv, TypeOfProcesses, TypeOfGraph,
              TypeOfNodes, TypeOfAction, TypeOfAttribution, Known
<1>. QED  BY <1>1, <1>2, <1>3, <1>4, <1>5, NextCases

LEMMA TypeInit == Init => TypeInv
<1>. SUFFICES ASSUME Init PROVE TypeInv
  OBVIOUS
<1>1. Known = {} /\ DOMAIN graph = {} /\ DOMAIN parent = {} /\ DOMAIN attributed = {}
  BY DEF Init, Known
<1>2. TypeOfProcesses /\ TypeOfAttribution
  BY <1>1 DEF Init, TypeOfProcesses, TypeOfAttribution
<1>3. TypeOfGraph /\ TypeOfNodes
  BY <1>1 DEF Init, TypeOfGraph, TypeOfNodes
<1>4. TypeOfAction
  BY FS_EmptySet DEF Init, TypeOfAction
<1>. QED  BY <1>2, <1>3, <1>4 DEF Init, TypeInv

\* Types of the tables, the graph, the nodes and the actions.
THEOREM TypeCorrect == Spec => []TypeOK
BY TypeInit, TypeStep, TypeInvImplies, PTL DEF Spec

-----------------------------------------------------------------------------
(* Nothing is lost.                                                        *)

LEMMA GrowStep ==
    TypeInv /\ [Next]_vars =>
        /\ \A p \in Known : /\ p \in Known' /\ table'[p] >= table[p]
                            /\ parent'[p] = parent[p] /\ attributed'[p] = attributed[p]
        /\ \A e \in DOMAIN graph : e \in DOMAIN graph' /\ graph'[e] >= graph[e]
<1>. DEFINE Goal ==
        /\ \A p \in Known : /\ p \in Known' /\ table'[p] >= table[p]
                            /\ parent'[p] = parent[p] /\ attributed'[p] = attributed[p]
        /\ \A e \in DOMAIN graph : e \in DOMAIN graph' /\ graph'[e] >= graph[e]
<1>. SUFFICES ASSUME TypeInv, [Next]_vars PROVE Goal
  OBVIOUS
<1>1. /\ \A p \in Known : table[p] >= table[p]
      /\ \A e \in DOMAIN graph : graph[e] >= graph[e]
  <2>1. \A p \in Known : table[p] \in Nat
    BY TaintAssumption DEF TypeInv, TypeOfProcesses
  <2>2. \A e \in DOMAIN graph : graph[e] \in Nat
    BY FlowsAssumption DEF TypeInv, TypeOfGraph
  <2>3. \A n \in Nat : n >= n
    OBVIOUS
  <2>. QED  BY <2>1, <2>2, <2>3
<1>2. CASE UNCHANGED <<table, parent, attributed, graph>>
  BY <1>1, <1>2 DEF Known
<1>3. ASSUME NEW p \in Pids, Call(p) PROVE Goal
  BY <1>1, <1>3, CallStep
<1>4. CASE ActionEnd \/ SnapshotReceipt
  <2>1. PICK flows : Propagates(flows)
                     /\ \A e \in flows : e \in Edges /\ {e.source, e.target} \subseteq Known
    BY <1>4, RequestFlows
  <2>2. UNCHANGED <<parent, attributed>>
    BY <2>1 DEF Propagates
  <2>. QED  BY <2>1, <2>2, PropagatesStep
<1>. QED  BY <1>2, <1>3, <1>4, NextCases DEF ActionStart, processes, vars

\* Scores do not fall, and no process, parent, attribution or edge is lost.
THEOREM Grows == Spec => OnlyGrows
<1>1. Spec => []TypeInv
  BY TypeInit, TypeStep, PTL DEF Spec
<1>. QED  BY <1>1, GrowStep, PTL DEF Spec, OnlyGrows

-----------------------------------------------------------------------------
(* A receipt leaves taint at rest.                                         *)

LEMMA SpreadStep == TypeInv /\ ReceiptsSpreadTaint /\ [Next]_vars => ReceiptsSpreadTaint'
<1>. SUFFICES ASSUME TypeInv, ReceiptsSpreadTaint, [Next]_vars PROVE ReceiptsSpreadTaint'
  OBVIOUS
<1>1. ASSUME NEW p \in Pids, Call(p) PROVE ReceiptsSpreadTaint'
  <2>1. fresh' = "none"
    BY <1>1, CallStep
  <2>. QED  BY <2>1 DEF ReceiptsSpreadTaint
<1>2. CASE ActionStart \/ UNCHANGED vars
  <2>1. UNCHANGED <<table, graph, writers, readers, senders, receivers, fresh>>
    BY <1>2 DEF ActionStart, vars, processes, files, queues
  <2>. QED
    BY <2>1 DEF ReceiptsSpreadTaint, ForkFlows, FileFlows, QueueFlows, Closed, Satisfied,
                Passed, Score
<1>3. CASE ActionEnd
  <2>1. /\ DOMAIN graph' = DOMAIN graph \cup (FileFlows \cup QueueFlows)
        /\ \A e \in DOMAIN graph' : Satisfied(e, table')
    <3>1. Propagates(FileFlows \cup QueueFlows)
      BY <1>3, RequestFlows
    <3>. QED  BY <3>1, RequestFlows, PropagatesStep
  <2>2. UNCHANGED <<writers, readers, senders, receivers>>
    BY <1>3 DEF ActionEnd, files, queues
  <2>3. FileFlows' = FileFlows /\ QueueFlows' = QueueFlows
    BY <2>2 DEF FileFlows, QueueFlows
  <2>4. ForkFlows' \cup FileFlows' \cup QueueFlows' \subseteq DOMAIN graph'
    BY <2>1, <2>3 DEF ForkFlows
  <2>. QED  BY <2>1, <2>4 DEF ReceiptsSpreadTaint, Closed, Satisfied, Passed, Score
<1>4. CASE SnapshotReceipt
  <2>1. /\ DOMAIN graph' = DOMAIN graph \cup FileFlows
        /\ \A e \in DOMAIN graph' : Satisfied(e, table')
    BY <1>4, RequestFlows, PropagatesStep
  <2>2. UNCHANGED <<writers, readers>> /\ fresh' = "snapshot"
    BY <1>4 DEF SnapshotReceipt, files
  <2>3. FileFlows' = FileFlows
    BY <2>2 DEF FileFlows
  <2>4. ForkFlows' \cup FileFlows' \subseteq DOMAIN graph'
    BY <2>1, <2>3 DEF ForkFlows
  <2>. QED  BY <2>1, <2>2, <2>4 DEF ReceiptsSpreadTaint, Closed, Satisfied, Passed, Score
<1>. QED  BY <1>1, <1>2, <1>3, <1>4, NextCases

\* After a receipt, taint has spread as far as its edges carry it.
THEOREM ReceiptsSpread == Spec => []ReceiptsSpreadTaint
<1>1. Init => TypeInv /\ ReceiptsSpreadTaint
  BY TypeInit DEF Init, ReceiptsSpreadTaint
<1>. QED  BY <1>1, TypeStep, SpreadStep, PTL DEF Spec

-----------------------------------------------------------------------------
(* Where taint comes from.                                                 *)

\* Every edge of the graph is an influence.
EdgesCarry == \A e \in DOMAIN graph : <<e.source, e.target>> \in Influence

LEMMA InfluenceParts ==
    /\ \A p \in Known : parent[p] \in Known => <<parent[p], p>> \in Influence
    /\ \A f \in Files \ Infrastructure : writers[f] \X readers[f] \subseteq Influence
    /\ \A q \in Queues : senders[q] \X receivers[q] \subseteq Influence
    /\ \A i \in Influence :
          \/ \E p \in Known : parent[p] \in Known /\ i = <<parent[p], p>>
          \/ \E f \in Files \ Infrastructure : i \in writers[f] \X readers[f]
          \/ \E q \in Queues : i \in senders[q] \X receivers[q]
BY DEF Influence

\* What is reached from given processes by given pairs.
LEMMA Reached ==
    ASSUME NEW K, NEW O, NEW I, NEW R,
           R = {p \in K : \A S \in SUBSET K :
                   (O \subseteq S /\ \A i \in I : i[1] \in S => i[2] \in S) => p \in S}
    PROVE  /\ R \subseteq K /\ (O \subseteq K => O \subseteq R)
           /\ \A p, q : p \in R /\ q \in K /\ <<p, q>> \in I => q \in R
<1>1. ASSUME NEW p, NEW q, p \in R, q \in K, <<p, q>> \in I PROVE q \in R
  <2>1. ASSUME NEW S \in SUBSET K, O \subseteq S, \A i \in I : i[1] \in S => i[2] \in S
        PROVE  q \in S
    <3>1. p \in S
      BY <1>1, <2>1
    <3>2. <<p, q>>[1] \in S => <<p, q>>[2] \in S
      BY <1>1, <2>1
    <3>. QED  BY <3>1, <3>2
  <2>. QED  BY <1>1, <2>1
<1>. QED  BY <1>1

LEMMA InfluencedParts ==
    \A p, q : p \in Influenced /\ q \in Known /\ <<p, q>> \in Influence => q \in Influenced
<1>. DEFINE R == Influenced
<1>1. R = {p \in Known : \A S \in SUBSET Known :
             (origins \subseteq S /\ \A i \in Influence : i[1] \in S => i[2] \in S) => p \in S}
  BY DEF Influenced
<1>. HIDE DEF R
<1>2. \A p, q : p \in R /\ q \in Known /\ <<p, q>> \in Influence => q \in R
  BY <1>1, Reached
<1>. QED  BY <1>2 DEF R

\* What a step does not take back.
Extends ==
    /\ Known \subseteq Known' /\ origins \subseteq origins' /\ NodesGrow
    /\ \A p \in Known : parent'[p] = parent[p]

LEMMA InfluenceGrows == Extends => Influence \subseteq Influence'
<1>. SUFFICES ASSUME Extends, NEW i \in Influence PROVE i \in Influence'
  OBVIOUS
<1>1. CASE \E p \in Known : parent[p] \in Known /\ i = <<parent[p], p>>
  <2>1. PICK p \in Known : parent[p] \in Known /\ i = <<parent[p], p>>
    BY <1>1
  <2>2. p \in Known' /\ parent'[p] \in Known' /\ i = <<parent'[p], p>>
    BY <2>1 DEF Extends
  <2>. QED  BY <2>2 DEF Influence
<1>2. ASSUME NEW f \in Files \ Infrastructure, i \in writers[f] \X readers[f]
      PROVE  i \in Influence'
  <2>1. i \in writers'[f] \X readers'[f]
    BY <1>2 DEF Extends, NodesGrow
  <2>. QED  BY <2>1 DEF Influence
<1>3. ASSUME NEW q \in Queues, i \in senders[q] \X receivers[q] PROVE i \in Influence'
  <2>1. i \in senders'[q] \X receivers'[q]
    BY <1>3 DEF Extends, NodesGrow
  <2>. QED  BY <2>1 DEF Influence
<1>. QED  BY <1>1, <1>2, <1>3, InfluenceParts

LEMMA InfluencedGrows ==
    ASSUME Extends, origins \subseteq Known, \A i \in Influence : i[2] \in Known
    PROVE  Influenced \subseteq Influenced'
<1>. SUFFICES ASSUME NEW p \in Influenced,
                     NEW S \in SUBSET Known', origins' \subseteq S,
                     \A i \in Influence' : i[1] \in S => i[2] \in S
              PROVE  p \in S
  BY DEF Extends, Influenced
<1>. DEFINE T == S \cap Known
<1>1. origins \subseteq T /\ T \in SUBSET Known
  BY DEF Extends
<1>2. \A i \in Influence : i[1] \in T => i[2] \in T
  BY InfluenceGrows
<1>3. p \in T
  <2>. HIDE DEF T
  <2>. QED  BY <1>1, <1>2 DEF Influenced
<1>. QED  BY <1>3

LEMMA InfluenceTypes ==
    ASSUME TypeOfNodes PROVE \A i \in Influence : i[2] \in Known /\ i[1] \in Known
BY InfluenceParts DEF TypeOfNodes

TaintInv == TypeInv /\ EdgesCarry /\ TaintHasOrigin

LEMMA CallExtends ==
    ASSUME TypeInv, NEW p \in Pids, Call(p)
    PROVE  Extends /\ Known' = Known \cup {p} /\ TypeInv'
BY CallStep DEF Extends

LEMMA CallTaint ==
    ASSUME TaintInv, NEW p \in Pids, Call(p) PROVE EdgesCarry' /\ TaintHasOrigin'
<1>1. Extends /\ Known' = Known \cup {p} /\ TypeInv'
  BY CallExtends DEF TaintInv
<1>2. Influence \subseteq Influence' /\ Influenced \subseteq Influenced'
  BY <1>1, InfluenceGrows, InfluencedGrows, InfluenceTypes
     DEF TaintInv, TypeInv, TypeOfProcesses
<1>3. /\ \A q \in Known : table'[q] = table[q] /\ parent'[q] = parent[q]
      /\ p \notin Known /\ table'[p] > 0 =>
            p \in origins' \/ (parent'[p] \in Known /\ table[parent'[p]] > 0)
      /\ \A e \in DOMAIN graph' \ DOMAIN graph :
             parent'[p] \in Known /\ e = Edge(parent'[p], p, "fork")
  <2>1. TypeInv
    BY DEF TaintInv
  <2>. QED  BY <2>1, CallStep
<1>4. parent'[p] \in Known => <<parent'[p], p>> \in Influence'
  <2>1. p \in Known' /\ Known \subseteq Known'
    BY <1>1
  <2>. QED  BY <2>1, Zenon DEF Influence
<1>5. EdgesCarry'
  <2>1. ASSUME NEW e \in DOMAIN graph' PROVE <<e.source, e.target>> \in Influence'
    <3>1. CASE e \in DOMAIN graph
      BY <1>2, <3>1 DEF TaintInv, EdgesCarry
    <3>2. CASE e \notin DOMAIN graph
      BY <1>3, <1>4, <2>1, <3>2 DEF Edge
    <3>. QED  BY <3>1, <3>2
  <2>. QED  BY <2>1 DEF EdgesCarry
<1>6. /\ origins' \subseteq Influenced'
      /\ \A q, r : q \in Influenced' /\ r \in Known' /\ <<q, r>> \in Influence' => r \in Influenced'
  <2>1. origins' \subseteq Known'
    BY <1>1 DEF TypeInv, TypeOfProcesses
  <2>. DEFINE R == Influenced'
  <2>2. R = {q \in Known' : \A S \in SUBSET Known' :
               (origins' \subseteq S /\ \A i \in Influence' : i[1] \in S => i[2] \in S) => q \in S}
    BY DEF Influenced
  <2>. HIDE DEF R
  <2>3. /\ origins' \subseteq Known' => origins' \subseteq R
        /\ \A q, r : q \in R /\ r \in Known' /\ <<q, r>> \in Influence' => r \in R
    BY <2>2, Reached
  <2>. QED  BY <2>1, <2>3 DEF R
<1>7. TaintHasOrigin'
  <2>1. ASSUME NEW q \in Known', table'[q] > 0 PROVE q \in Influenced'
    <3>1. CASE q \in Known
      BY <1>2, <1>3, <2>1, <3>1 DEF TaintInv, TaintHasOrigin
    <3>2. CASE q \notin Known
      <4>1. q = p
        BY <1>1, <3>2
      <4>2. CASE p \in origins'
        BY <1>6, <4>1, <4>2
      <4>3. CASE parent'[p] \in Known /\ table[parent'[p]] > 0
        <5>1. parent'[p] \in Influenced'
          BY <1>2, <4>3 DEF TaintInv, TaintHasOrigin
        <5>. QED  BY <1>1, <1>4, <1>6, <4>1, <4>3, <5>1
      <4>. QED  BY <1>3, <2>1, <3>2, <4>1, <4>2, <4>3
    <3>. QED  BY <3>1, <3>2
  <2>. QED  BY <2>1 DEF TaintHasOrigin
<1>. QED  BY <1>5, <1>7

\* The influenced processes full and the others as they are: taint at rest.
LEMMA InfluencedRests ==
    ASSUME TaintInv, NEW g, g \subseteq Edges,
           \A e \in g : <<e.source, e.target>> \in Influence /\ {e.source, e.target} \subseteq Known
    PROVE  [p \in Known |-> IF p \in Influenced THEN Full ELSE table[p]] \in Rests(g, table)
<1>. DEFINE t == [p \in Known |-> IF p \in Influenced THEN Full ELSE table[p]]
<1>1. table \in [Known -> Scores] /\ Known = DOMAIN table
  BY DEF TaintInv, TypeInv, TypeOfProcesses, Known
<1>2. /\ t \in [Known -> Scores]
      /\ \A p \in Known : p \in Influenced => t[p] = Full
      /\ \A p \in Known : p \notin Influenced => t[p] = table[p]
  BY <1>1, TaintAssumption
<1>. HIDE DEF t
<1>3. AtLeast(t, table)
  <2>1. \A p \in Known : table[p] \in Nat /\ Full >= table[p] /\ table[p] >= table[p]
    BY <1>1, TaintAssumption
  <2>. QED  BY <1>1, <1>2, <2>1 DEF AtLeast
<1>4. ASSUME NEW e \in g PROVE Satisfied(e, t)
  <2>. SUFFICES ASSUME Score(t, e.source) >= Threshold PROVE Passed(e, t) <= t[e.target]
    BY DEF Satisfied
  <2>1. /\ e.source \in Known /\ e.target \in Known /\ e.channel \in Channels
        /\ Score(t, e.source) = t[e.source] /\ t[e.source] \in Scores
    BY <1>2, <1>4 DEF Edges, Score
  <2>2. e.source \in Influenced
    <3>. SUFFICES ASSUME e.source \notin Influenced PROVE FALSE
      OBVIOUS
    <3>1. t[e.source] = table[e.source]
      BY <1>2, <2>1
    <3>2. table[e.source] > 0
      BY <1>1, <2>1, <3>1, TaintAssumption
    <3>. QED  BY <2>1, <3>2 DEF TaintInv, TaintHasOrigin
  <2>3. e.target \in Influenced
    BY <1>4, <2>1, <2>2, InfluencedParts
  <2>4. t[e.target] = Full
    BY <1>2, <2>1, <2>3
  <2>5. Passed(e, t) \in Scores
    BY <2>1, TaintAssumption DEF Passed
  <2>. QED  BY <2>4, <2>5, TaintAssumption
<1>. QED  BY <1>1, <1>2, <1>3, <1>4 DEF Rests, Closed, t

LEMMA RequestTaint ==
    ASSUME TaintInv, NEW flows, Propagates(flows), flows \subseteq FileFlows \cup QueueFlows
    PROVE  EdgesCarry' /\ TaintHasOrigin'
<1>1. \A e \in flows : /\ e \in Edges /\ {e.source, e.target} \subseteq Known
                       /\ <<e.source, e.target>> \in Influence
  BY RequestFlows DEF TaintInv
<1>2. PICK g : g = DOMAIN graph'
  OBVIOUS
<1>3. /\ Known' = Known /\ g = DOMAIN graph \cup flows
      /\ \A t \in Rests(g, table) : \A q \in Known : t[q] >= table'[q]
      /\ table' \in [Known -> Scores]
  BY <1>1, <1>2, PropagatesStep DEF TaintInv, TypeOfProcesses
<1>4. Influence' = Influence /\ Influenced' = Influenced
  BY <1>3 DEF Propagates, Influence, Influenced
<1>5. \A e \in g : /\ e \in Edges /\ <<e.source, e.target>> \in Influence
                   /\ {e.source, e.target} \subseteq Known
  BY <1>1, <1>3 DEF TaintInv, EdgesCarry, TypeInv, TypeOfGraph
<1>6. EdgesCarry'
  BY <1>2, <1>4, <1>5 DEF EdgesCarry
<1>7. ASSUME NEW q \in Known, q \notin Influenced PROVE ~(table'[q] > 0)
  <2>. DEFINE t == [p \in Known |-> IF p \in Influenced THEN Full ELSE table[p]]
  <2>1. t \in Rests(g, table)
    BY <1>5, InfluencedRests
  <2>2. t[q] = table[q]
    BY <1>7
  <2>. HIDE DEF t
  <2>3. table[q] >= table'[q] /\ ~(table[q] > 0)
    BY <1>3, <1>7, <2>1, <2>2 DEF TaintInv, TaintHasOrigin
  <2>4. table[q] \in Nat /\ table'[q] \in Nat
    BY <1>3, TaintAssumption DEF TaintInv, TypeInv, TypeOfProcesses
  <2>. QED  BY <2>3, <2>4
<1>8. TaintHasOrigin'
  BY <1>3, <1>4, <1>7 DEF TaintHasOrigin
<1>. QED  BY <1>6, <1>8

LEMMA TaintStep == TaintInv /\ [Next]_vars => TaintInv'
<1>. SUFFICES ASSUME TaintInv, [Next]_vars PROVE EdgesCarry' /\ TaintHasOrigin'
  BY TypeStep DEF TaintInv
<1>1. ASSUME NEW p \in Pids, Call(p) PROVE EdgesCarry' /\ TaintHasOrigin'
  BY <1>1, CallTaint
<1>2. CASE ActionStart \/ UNCHANGED vars
  <2>1. UNCHANGED <<table, parent, graph, writers, readers, senders, receivers, origins>>
    BY <1>2 DEF ActionStart, vars, processes, files, queues
  <2>2. Known' = Known /\ Influence' = Influence
    BY <2>1 DEF Known, Influence
  <2>3. Influenced' = Influenced
    BY <2>1, <2>2 DEF Influenced
  <2>. QED  BY <2>1, <2>2, <2>3 DEF TaintInv, EdgesCarry, TaintHasOrigin
<1>3. CASE ActionEnd
  BY <1>3, RequestFlows, RequestTaint DEF TaintInv
<1>4. CASE SnapshotReceipt
  BY <1>4, RequestFlows, RequestTaint DEF TaintInv
<1>. QED  BY <1>1, <1>2, <1>3, <1>4, NextCases

\* No process is tainted that influence cannot have reached from one that
\* appeared during an action.
THEOREM TaintOrigins == Spec => []TaintHasOrigin
<1>1. Init => TaintInv
  <2>. SUFFICES ASSUME Init PROVE TaintInv
    OBVIOUS
  <2>1. Known = {} /\ DOMAIN graph = {}
    BY DEF Init, Known
  <2>. QED  BY <2>1, TypeInit DEF TaintInv, EdgesCarry, TaintHasOrigin
<1>2. TaintInv => TaintHasOrigin
  BY DEF TaintInv
<1>. QED  BY <1>1, <1>2, TaintStep, PTL DEF Spec
-----------------------------------------------------------------------------
(* The actions are those of ActionLifecycle.                               *)

LEMMA LifecycleCall ==
    ASSUME TypeInv, NEW p \in Pids, Call(p)
    PROVE  Lifecycle!Appear(p) \/ UNCHANGED Lifecycle!vars
<1>1. Dispatch(p)
  BY Zenon DEF Call, Write, Read, Exec, Send, Receive, Other
<1>2. /\ UNCHANGED <<running, currentId, completed>>
      /\ \/ p \in Known /\ UNCHANGED <<processes, graph, origins>>
         \/ \E ppid \in Pids \cup {0} : Adds(p, ppid)
  BY <1>1, DispatchCases DEF action
<1>3. CASE UNCHANGED <<processes, graph, origins>>
  BY <1>2, <1>3 DEF processes, Lifecycle!vars
<1>4. ASSUME NEW ppid \in Pids \cup {0}, Adds(p, ppid)
      PROVE  Lifecycle!Appear(p)
  <2>1. DOMAIN attributed = Known
    BY DEF TypeInv, TypeOfAttribution
  <2>2. PICK a \in AttributionOf(ppid) : attributed' = Extend(attributed, p, a)
    BY <1>4 DEF Adds
  <2>3. p \notin DOMAIN attributed
    BY <1>4, <2>1 DEF Adds
  <2>4. a \in Lifecycle!Numbers
    BY <2>1 DEF AttributionOf, Lifecycle!Numbers
  <2>. QED  BY <1>2, <2>2, <2>3, <2>4 DEF Extend, Lifecycle!Appear
<1>. QED  BY <1>2, <1>3, <1>4

LEMMA LifecycleStep ==
    ASSUME TypeInv, [Next]_vars
    PROVE  Lifecycle!Next \/ UNCHANGED Lifecycle!vars
<1>1. ASSUME NEW p \in Pids, Call(p)
      PROVE  Lifecycle!Next \/ UNCHANGED Lifecycle!vars
  BY <1>1, LifecycleCall DEF Lifecycle!Next
<1>2. CASE ActionStart
  <2>1. /\ running' = TRUE /\ currentId' = Cardinality(completed) + 1
        /\ UNCHANGED <<completed, attributed>>
    BY <1>2 DEF ActionStart, processes
  <2>2. Cardinality(completed) \in Nat /\ completed \subseteq 0..Cardinality(completed)
    BY FS_CardinalityType DEF TypeInv, TypeOfAction
  <2>3. currentId' \in Nat \ {0} /\ \A n \in completed : n < currentId'
    BY <2>1, <2>2
  <2>. QED  BY <2>1, <2>3 DEF Lifecycle!Next, Lifecycle!Start
<1>3. CASE ActionEnd /\ running
  BY <1>3 DEF ActionEnd, Lifecycle!Next, Lifecycle!End
<1>4. CASE ActionEnd /\ ~running
  <2>1. running' = FALSE /\ UNCHANGED <<currentId, completed, attributed>>
    BY <1>4 DEF ActionEnd
  <2>2. running' = running
    BY <1>4, <2>1 DEF TypeInv, TypeOfAction
  <2>. QED  BY <2>1, <2>2 DEF Lifecycle!vars
<1>5. CASE SnapshotReceipt \/ UNCHANGED vars
  BY <1>5 DEF SnapshotReceipt, vars, processes, action, Lifecycle!vars
<1>. QED  BY <1>1, <1>2, <1>3, <1>4, <1>5, NextCases

\* The actions and numbers of Flows are those that ActionLifecycle allows, as
\* are Attribution's.
THEOREM LifecycleImplemented == Spec => ActionsFollowLifecycle
<1>1. Init => Lifecycle!Init
  BY DEF Init, Lifecycle!Init
<1>2. TypeInv /\ [Next]_vars => [Lifecycle!Next]_(Lifecycle!vars)
  BY LifecycleStep
<1>. QED  BY <1>1, <1>2, TypeInit, TypeStep, PTL DEF Spec, ActionsFollowLifecycle, Lifecycle!Spec
=============================================================================
