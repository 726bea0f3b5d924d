---------------------------- MODULE Communities ----------------------------
(***************************************************************************)
(* Process communities (communities.rs): the processes of an action are    *)
(* grouped for its receipt, in three passes over the edges of the          *)
(* influence graph: components of the fork edges between processes of one  *)
(* name; then, by union-find, the communities with a busy edge of another  *)
(* kind between them; then the members of each tree, collected by root.    *)
(*                                                                         *)
(* The order of pids and names is that of a HashMap, and any order of the  *)
(* edges is possible; the model takes the next one anyhow.  Labels, scores *)
(* and representatives are left out.                                       *)
(***************************************************************************)
EXTENDS Integers, FiniteSetsExt, Sequences

CONSTANTS
    Pids,
    Comms,        \* names of programs, "?" for a process not in the table
    Counts,       \* event counts an edge can have
    Threshold,    \* COMMUNITY_MERGE_EVENT_THRESHOLD
    MaxEdges      \* bound on the edges of the graph

ASSUME CommunitiesAssumption ==
    Counts \subseteq Nat /\ Threshold \in Nat /\ MaxEdges \in Nat

Edges == {e \in [source : Pids, target : Pids, fork : BOOLEAN, count : Counts] :
             e.source # e.target}

VARIABLES
    actionPids, comm, edges,    \* what detect_communities is given
    phase,         \* the pass that is running
    visited,       \* visited
    queue,         \* queue, of the search of the current component
    component,     \* component
    communities,   \* communities: the members of each
    merges,        \* merges, as the edges they come from
    parent,        \* parent
    next,          \* the community to be regrouped
    ends,          \* the arguments of the find_root calls under way
    groups         \* members by root; what is returned

input == <<actionPids, comm, edges>>
search == <<visited, queue, component>>
vars == <<input, phase, search, communities, merges, parent, ends, next, groups>>

\* What the call starts with.
Start ==
    /\ phase = "find"
    /\ visited = {} /\ queue = {} /\ component = {}
    /\ communities = <<>> /\ merges = {}
    /\ parent = <<>> /\ ends = <<>> /\ next = 1
    /\ groups = <<>>

Init ==
    /\ actionPids \in SUBSET Pids \ {{}}
    /\ comm \in [actionPids -> Comms]
    /\ edges \in UNION {kSubset(k, Edges) : k \in 0..MaxEdges}
    /\ Start

Indices == 1..Len(communities)

-----------------------------------------------------------------------------
(* Components of the fork edges.                                           *)

\* Both processes are of the action and have one name.
ForkEdge(e) ==
    /\ e.fork /\ {e.source, e.target} \subseteq actionPids
    /\ comm[e.source] = comm[e.target]

Neighbours(p) ==
    {e.target : e \in {e \in edges : ForkEdge(e) /\ e.source = p}}
        \cup {e.source : e \in {e \in edges : ForkEdge(e) /\ e.target = p}}

StartComponent(p) ==
    /\ phase = "find" /\ queue = {} /\ component = {}
    /\ p \in actionPids \ visited
    /\ queue' = {p}
    /\ UNCHANGED <<input, phase, visited, component, communities, merges, parent, ends, next, groups>>

\* Mutant of Visit: neighbours that were visited are visited again.
VisitAgain(p) ==
    /\ phase = "find" /\ p \in queue
    /\ visited' = visited \cup {p}
    /\ component' = component \cup {p}
    /\ queue' = (queue \ {p}) \cup Neighbours(p)
    /\ UNCHANGED <<input, phase, communities, merges, parent, ends, next, groups>>

Visit(p) ==
    /\ phase = "find" /\ p \in queue
    /\ visited' = visited \cup {p}
    /\ component' = component \cup {p}
    /\ queue' = (queue \ {p}) \cup (Neighbours(p) \ visited')
    /\ UNCHANGED <<input, phase, communities, merges, parent, ends, next, groups>>

EndComponent ==
    /\ phase = "find" /\ queue = {} /\ component # {}
    /\ communities' = Append(communities, component)
    /\ component' = {}
    /\ UNCHANGED <<input, phase, visited, queue, merges, parent, ends, next, groups>>

-----------------------------------------------------------------------------
(* Merging over the busy edges.                                            *)

\* pid_to_community; 0 for a process that is not of the action.
CommunityOf(p) ==
    IF p \in actionPids THEN CHOOSE i \in Indices : p \in communities[i] ELSE 0

\* Mutant of Merging: processes outside the action are taken too.
MergingAll(e) ==
    /\ ~e.fork /\ e.count >= Threshold
    /\ CommunityOf(e.source) # CommunityOf(e.target)

Merging(e) ==
    /\ ~e.fork /\ e.count >= Threshold
    /\ {e.source, e.target} \subseteq actionPids
    /\ CommunityOf(e.source) # CommunityOf(e.target)

\* Without merges the communities are returned as they are.
CollectMerges ==
    /\ phase = "find" /\ visited = actionPids /\ queue = {} /\ component = {}
    /\ merges' = {e \in edges : Merging(e)}
    /\ IF merges' = {}
       THEN phase' = "done" /\ groups' = communities /\ parent' = parent
       ELSE /\ phase' = "merge" /\ groups' = [i \in Indices |-> {}]
            /\ parent' = [i \in Indices |-> i]
    /\ UNCHANGED <<input, search, communities, ends, next>>

\* The next merge: the smaller index comes first.
TakeMerge(e) ==
    /\ phase = "merge" /\ ends = <<>> /\ e \in merges
    /\ LET c == CommunityOf(e.source)
           d == CommunityOf(e.target)
       IN  ends' = IF c < d THEN <<c, d>> ELSE <<d, c>>
    /\ merges' = merges \ {e}
    /\ UNCHANGED <<input, phase, search, communities, parent, next, groups>>

\* Mutant of AtRoot: find_root is called for the second index only.
AtRootSecond(k) == k = 1 \/ parent[ends[k]] = ends[k]

AtRoot(k) == parent[ends[k]] = ends[k]

\* A turn of the loop of find_root.
Climb(k) ==
    /\ k \in DOMAIN ends /\ ~AtRoot(k)
    /\ \A j \in 1..(k - 1) : AtRoot(j)
    /\ ends' = [ends EXCEPT ![k] = parent[@]]
    /\ UNCHANGED <<input, phase, search, communities, merges, parent, next, groups>>

\* Mutant of Linked: the root is put below the smaller root only.
LinkedBelow(a, b) == IF a < b THEN [parent EXCEPT ![b] = a] ELSE parent

\* Roots a and b, which differ.
Linked(a, b) == [parent EXCEPT ![b] = a]

Union ==
    /\ phase = "merge" /\ Len(ends) = 2 /\ AtRoot(1) /\ AtRoot(2)
    /\ parent' = IF ends[1] # ends[2] THEN Linked(ends[1], ends[2]) ELSE parent
    /\ ends' = <<>>
    /\ UNCHANGED <<input, phase, search, communities, merges, next, groups>>

EndMerges ==
    /\ phase = "merge" /\ ends = <<>> /\ merges = {}
    /\ phase' = "regroup" /\ ends' = <<next>>
    /\ UNCHANGED <<input, search, communities, merges, parent, next, groups>>

-----------------------------------------------------------------------------
(* The members of each tree.                                               *)

\* The root of the next community is found.
Regroup ==
    /\ phase = "regroup" /\ AtRoot(1)
    /\ groups' = [groups EXCEPT ![ends[1]] = @ \cup communities[next]]
    /\ next' = next + 1
    /\ IF next < Len(communities)
       THEN ends' = <<next + 1>> /\ phase' = phase
       ELSE ends' = <<>> /\ phase' = "done"
    /\ UNCHANGED <<input, search, communities, merges, parent>>

Next ==
    \/ \E p \in Pids : StartComponent(p) \/ Visit(p)
    \/ EndComponent \/ CollectMerges
    \/ \E e \in merges : TakeMerge(e)
    \/ \E k \in 1..2 : Climb(k)
    \/ Union \/ EndMerges
    \/ Regroup

\* detect_communities is one sequential call, which nothing suspends.
Spec == Init /\ [][Next]_vars /\ WF_vars(Next)

-----------------------------------------------------------------------------
(* Properties.                                                             *)

TypeOK ==
    /\ actionPids \subseteq Pids
    /\ comm \in [actionPids -> Comms] /\ edges \subseteq Edges
    /\ phase \in {"find", "merge", "regroup", "done"}
    /\ component \subseteq visited /\ visited \subseteq actionPids
    /\ queue \subseteq actionPids
    /\ communities \in Seq((SUBSET visited) \ {{}})
    /\ merges \subseteq edges
    /\ parent = <<>> \/ parent \in [Indices -> Indices]
    /\ Len(ends) <= 2 /\ \A k \in DOMAIN ends : ends[k] \in Indices
    /\ next \in 1..(Len(communities) + 1)
    /\ groups \in Seq(SUBSET actionPids)

\* What makes two processes one community: a fork edge between two of a name,
\* or a busy edge of another kind, both of the action.
Ties(e) ==
    /\ {e.source, e.target} \subseteq actionPids
    /\ IF e.fork THEN comm[e.source] = comm[e.target] ELSE e.count >= Threshold

\* The least set with p that no such edge leaves.
ClassOf(p) ==
    LET ties == {e \in edges : Ties(e)}
        closed == {S \in SUBSET actionPids :
                      p \in S /\ \A e \in ties : e.source \in S <=> e.target \in S}
    IN  {q \in actionPids : \A S \in closed : q \in S}

\* In whatever order names, processes and edges come, the communities returned
\* are the classes that those edges generate: a chain of merges is followed to
\* its end, and a process outside the action joins nothing together.
MergedByBusyEdges ==
    phase = "done" =>
        ({groups[i] : i \in DOMAIN groups} \ {{}}) = {ClassOf(p) : p \in actionPids}

\* No set of communities is closed under parent without a root in it: the trees
\* of the union-find have no cycle, so find_root cannot climb for ever, which it
\* would do with the mutex of all containers held.  The union of two trees by
\* index, in any order of merges, must link a root to another tree's root.
TreesHaveRoots ==
    parent # <<>> =>
        \A S \in SUBSET Indices :
            S # {} /\ (\A i \in S : parent[i] \in S) => \E i \in S : parent[i] = i

\* The loops of find_root and of the search come to an end: union-find keeps
\* its trees free of cycles, though a root can have a larger index than the
\* communities below it.
Finishes == <>(phase = "done")
=============================================================================
