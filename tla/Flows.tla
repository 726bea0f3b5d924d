------------------------------- MODULE Flows -------------------------------
(***************************************************************************)
(* How taint gets into a container and between its processes: the process  *)
(* table, the file and queue nodes the handlers fill in, the graph built   *)
(* from them for a receipt, and the scores propagated along it.            *)
(*                                                                         *)
(* Every action is one critical section of the state's mutex: the dispatch *)
(* of one event (handlers.rs) or one request of the harness (control.rs).  *)
(* propagate_taint is the Closure that TaintPropagation shows its loop to  *)
(* compute.  Process numbers grow: a process is younger than its parent,   *)
(* and 0 stands for a parent outside the container.                        *)
(***************************************************************************)
EXTENDS TaintGraph, FiniteSets

CONSTANTS
    Files,
    Infrastructure,  \* files whose paths build_file_flow_edges skips
    Queues,
    MaxActions,      \* bound: actions started
    Sustained        \* COMMUNITY_MERGE_EVENT_THRESHOLD, 10

ASSUME FlowsAssumption ==
    /\ Pids \subseteq Nat \ {0}
    /\ Infrastructure \subseteq Files
    /\ {"fork", "file", "queue"} \subseteq Channels
    /\ MaxActions \in Nat /\ Sustained \in Nat \ {0}

VARIABLES
    table,       \* process_table: known process -> taint_score
    parent,      \* known process -> ppid
    attributed,  \* known process -> attributed_action
    graph,       \* taint_graph: edge -> event_count
    writers,     \* file_nodes: file -> processes that wrote it
    readers,     \* file -> processes that read it, or executed it
    senders, receivers,            \* ipc_nodes: queue -> processes
    running,     \* current_action is some log
    currentId,   \* current_action_id
    completed,   \* numbers of the logs in completed_actions
    origins,     \* history: processes first seen while an action was running
    fresh        \* history: the receipt given since the last event, or "none"

processes == <<table, parent, attributed>>
files     == <<writers, readers>>
queues    == <<senders, receivers>>
action    == <<running, currentId, completed>>
vars == <<processes, graph, files, queues, action, origins, fresh>>

Known == DOMAIN table
Active == running /\ currentId > 0

Edge(source, target, channel) ==
    [source |-> source, target |-> target, channel |-> channel]

Init ==
    /\ table = << >> /\ parent = << >> /\ attributed = << >> /\ graph = << >>
    /\ writers = [f \in Files |-> {}] /\ readers = [f \in Files |-> {}]
    /\ senders = [q \in Queues |-> {}] /\ receivers = [q \in Queues |-> {}]
    /\ running = TRUE /\ currentId = 0 /\ completed = {}
    /\ origins = {} /\ fresh = "none"

-----------------------------------------------------------------------------
(* add_edge for a set of keys: a new edge has been seen once.  Nothing in   *)
(* the program tells two counts from each other that are both Sustained.   *)

Counted(n) == IF n < Sustained THEN n + 1 ELSE n

AddEdges(g, keys) ==
    [e \in DOMAIN g \cup keys |->
        IF e \notin DOMAIN g THEN 1 ELSE IF e \in keys THEN Counted(g[e]) ELSE g[e]]

Extend(f, p, value) == [q \in DOMAIN f \cup {p} |-> IF q = p THEN value ELSE f[q]]

(* ensure_process.  The first process of a container is never tainted; one *)
(* with a clean parent is when an action is running as it is dispatched.   *)

FirstScore(ppid) ==
    IF Known = {} THEN 0
    ELSE IF Active /\ Score(table, ppid) = 0 THEN Full
    ELSE Attenuate["fork"][Score(table, ppid)]

\* Mutant of EnsureProcess: a process that is known is added again.
EnsureProcessAgain(p, ppid) ==
    /\ table' = Extend(table, p, FirstScore(ppid))
    /\ parent' = Extend(parent, p, ppid)
    /\ attributed' = Extend(attributed, p, currentId)
    /\ graph' = IF ppid \in Known THEN AddEdges(graph, {Edge(ppid, p, "fork")}) ELSE graph
    /\ origins' = IF Active THEN origins \cup {p} ELSE origins

\* A fork inherits; a root gets what action_at_time makes of its record's
\* time, which can be the number of any log there is (see Attribution).
AttributionOf(ppid) ==
    IF ppid \in Known THEN {attributed[ppid]} ELSE completed \cup {currentId}

EnsureProcess(p, ppid) ==
    \/ /\ p \in Known
       /\ UNCHANGED <<processes, graph, origins>>
    \/ /\ p \notin Known
       /\ table' = Extend(table, p, FirstScore(ppid))
       /\ parent' = Extend(parent, p, ppid)
       /\ \E a \in AttributionOf(ppid) : attributed' = Extend(attributed, p, a)
       /\ graph' = IF ppid \in Known
                   THEN AddEdges(graph, {Edge(ppid, p, "fork")}) ELSE graph
       /\ origins' = IF Active THEN origins \cup {p} ELSE origins

-----------------------------------------------------------------------------
(* Dispatch: ensure_process, then what the system call's handler records.  *)

\* The ppid an event can bring; that of a known process is not read.
Parents(p) == IF p \in Known THEN {parent[p]}
              ELSE {q \in Pids \cup {0} : q < p}

Dispatch(p) ==
    /\ \E ppid \in Parents(p) : EnsureProcess(p, ppid)
    /\ fresh' = "none"
    /\ UNCHANGED action

Write(p, f) ==
    /\ Dispatch(p)
    /\ writers' = [writers EXCEPT ![f] = @ \cup {p}]
    /\ UNCHANGED <<readers, queues>>

\* open for reading, and the source of a kernel transfer.
Read(p, f) ==
    /\ Dispatch(p)
    /\ readers' = IF p \in writers[f] THEN readers
                  ELSE [readers EXCEPT ![f] = @ \cup {p}]
    /\ UNCHANGED <<writers, queues>>

Exec(p, f) ==
    /\ Dispatch(p)
    /\ readers' = [readers EXCEPT ![f] = @ \cup {p}]
    /\ UNCHANGED <<writers, queues>>

Send(p, q) ==
    /\ Dispatch(p)
    /\ senders' = [senders EXCEPT ![q] = @ \cup {p}]
    /\ UNCHANGED <<files, receivers>>

Receive(p, q) ==
    /\ Dispatch(p)
    /\ receivers' = [receivers EXCEPT ![q] = @ \cup {p}]
    /\ UNCHANGED <<files, senders>>

\* A system call that touches no file or queue node.
Other(p) == Dispatch(p) /\ UNCHANGED <<files, queues>>

-----------------------------------------------------------------------------
(* Requests.                                                               *)

\* Mutants of FileFlows and QueueFlows: no path is skipped; a process that
\* sends to itself.
FileFlowsEverywhere ==
    UNION {{Edge(w, r, "file") : w \in writers[f], r \in readers[f] \ writers[f]} :
              f \in Files}

FileFlows ==
    UNION {{Edge(w, r, "file") : w \in writers[f], r \in readers[f] \ writers[f]} :
              f \in Files \ Infrastructure}

QueueFlowsToSelf ==
    UNION {{Edge(s, r, "queue") : s \in senders[q], r \in receivers[q]} : q \in Queues}

QueueFlows ==
    UNION {UNION {{Edge(s, r, "queue") : r \in receivers[q] \ {s}} : s \in senders[q]} :
              q \in Queues}

ActionStart ==
    /\ Cardinality(completed) < MaxActions
    /\ running' = TRUE /\ currentId' = Cardinality(completed) + 1
    /\ UNCHANGED <<processes, graph, files, queues, completed, origins, fresh>>

\* Mutants of ActionEnd: taint is propagated before the flows are built; only
\* the last log is kept.
ActionEndPropagatingFirst ==
    /\ graph' = AddEdges(graph, FileFlows \cup QueueFlows)
    /\ table' = Closure(DOMAIN graph, table)
    /\ running' = FALSE
    /\ completed' = IF running THEN completed \cup {currentId} ELSE completed
    /\ fresh' = "end"
    /\ UNCHANGED <<parent, attributed, files, queues, currentId, origins>>

ActionEndKeepingLast ==
    /\ graph' = AddEdges(graph, FileFlows \cup QueueFlows)
    /\ table' = Closure(DOMAIN graph', table)
    /\ running' = FALSE
    /\ completed' = IF running THEN {currentId} ELSE completed
    /\ fresh' = "end"
    /\ UNCHANGED <<parent, attributed, files, queues, currentId, origins>>

ActionEnd ==
    /\ graph' = AddEdges(graph, FileFlows \cup QueueFlows)
    /\ table' = Closure(DOMAIN graph', table)
    /\ running' = FALSE
    /\ completed' = IF running THEN completed \cup {currentId} ELSE completed
    /\ fresh' = "end"
    /\ UNCHANGED <<parent, attributed, files, queues, currentId, origins>>

\* The receipt asked for without an end: no queue flows.
SnapshotReceipt ==
    /\ graph' = AddEdges(graph, FileFlows)
    /\ table' = Closure(DOMAIN graph', table)
    /\ fresh' = "snapshot"
    /\ UNCHANGED <<parent, attributed, files, queues, action, origins>>

Next ==
    \/ \E p \in Pids :
          \/ \E f \in Files : Write(p, f) \/ Read(p, f) \/ Exec(p, f)
          \/ \E q \in Queues : Send(p, q) \/ Receive(p, q)
          \/ Other(p)
    \/ ActionStart \/ ActionEnd \/ SnapshotReceipt

Spec == Init /\ [][Next]_vars

-----------------------------------------------------------------------------
(* Properties.                                                             *)

TypeOK ==
    /\ Known \subseteq Pids /\ table \in [Known -> Scores]
    /\ parent \in [Known -> Pids \cup {0}] /\ attributed \in [Known -> completed \cup {currentId, 0}]
    /\ DOMAIN graph \subseteq Edges
    /\ \A e \in DOMAIN graph : graph[e] \in 1..Sustained /\ {e.source, e.target} \subseteq Known
    /\ writers \in [Files -> SUBSET Known] /\ readers \in [Files -> SUBSET Known]
    /\ senders \in [Queues -> SUBSET Known] /\ receivers \in [Queues -> SUBSET Known]
    /\ running \in BOOLEAN /\ currentId \in Nat /\ completed \subseteq 0..currentId
    /\ origins \subseteq Known
    /\ fresh \in {"none", "end", "snapshot"}

ForkFlows == {e \in DOMAIN graph : e.channel = "fork"}

\* After an end, taint has spread as far as forks, files and queues carry it;
\* after a snapshot as far as forks and files do.  However often receipts are
\* asked for, and in whatever order processes, reads and writes came.
ReceiptsSpreadTaint ==
    /\ fresh # "none" => Closed(ForkFlows \cup FileFlows, table)
    /\ fresh = "end" => Closed(QueueFlows, table)

\* Everything that can have carried influence from one process to another.
Influence ==
    {<<parent[p], p>> : p \in {p \in Known : parent[p] \in Known}}
        \cup (UNION {writers[f] \X readers[f] : f \in Files \ Infrastructure})
        \cup (UNION {senders[q] \X receivers[q] : q \in Queues})

\* The processes that influence from the origins can have reached.
Influenced ==
    {p \in Known : \A S \in SUBSET Known :
        (origins \subseteq S /\ \A i \in Influence : i[1] \in S => i[2] \in S) => p \in S}

\* No process has any taint unless influence can have reached it from one
\* that appeared while an action of the harness was running.
TaintHasOrigin == \A p \in Known : table[p] > 0 => p \in Influenced

\* A score never falls, a process keeps its parent and attribution, and no
\* edge is forgotten.
OnlyGrows ==
    [][/\ \A p \in Known : /\ p \in Known' /\ table'[p] >= table[p]
                           /\ parent'[p] = parent[p] /\ attributed'[p] = attributed[p]
       /\ \A e \in DOMAIN graph : e \in DOMAIN graph' /\ graph'[e] >= graph[e]]_vars

\* The actions and attributions of this module are those that ActionLifecycle
\* allows, which Attribution implements: the choice of a root's number is
\* all that is left open here.
Lifecycle == INSTANCE ActionLifecycle

ActionsFollowLifecycle == Lifecycle!Spec

\* What the documentation says and the code does not do.

\* A snapshot shows everything accumulated so far: control.rs.
SnapshotIsComplete == fresh = "snapshot" => Closed(QueueFlows, table)
=============================================================================
