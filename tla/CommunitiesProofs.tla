------------------------- MODULE CommunitiesProofs -------------------------
(***************************************************************************)
(* Proofs about Communities, for any processes, names, counts and edges:   *)
(* what is returned, in whatever order it was found and merged, are the    *)
(* classes that the edges generate.                                        *)
(***************************************************************************)
EXTENDS Communities, TLAPS

-----------------------------------------------------------------------------
(* The inductive invariant.                                                *)

\* No fork edge leads out of S; no tie does.
ForkJoined(S) ==
    \A e \in edges : ForkEdge(e) => (e.source \in S <=> e.target \in S)

Joined(S) == \A e \in edges : Ties(e) => (e.source \in S <=> e.target \in S)

\* Forks hold C together: nothing without a fork edge out of it splits C.
Whole(C) ==
    \A S \in SUBSET actionPids : ForkJoined(S) => C \subseteq S \/ C \cap S = {}

InputType ==
    /\ actionPids \subseteq Pids
    /\ comm \in [actionPids -> Comms] /\ edges \subseteq Edges

\* The search.
Communal(C) == C # {} /\ C \subseteq visited \ component /\ ForkJoined(C) /\ Whole(C)

Found ==
    /\ component \subseteq visited /\ visited \subseteq actionPids
    /\ queue \subseteq actionPids \ visited
    /\ communities \in Seq(SUBSET actionPids)
    /\ \A i \in Indices : Communal(communities[i])
    /\ \A i, j \in Indices : i # j => communities[i] \cap communities[j] = {}
    /\ \A p \in visited \ component : \E i \in Indices : p \in communities[i]
    /\ Whole(component \cup queue)
    /\ \A p \in component : Neighbours(p) \subseteq component \cup queue

Everyone == visited = actionPids /\ queue = {} /\ component = {}

\* The root of each index: find_root, whatever the shape of the trees.
Rooted(root) ==
    \A i \in Indices : /\ root[parent[i]] = root[i]
                       /\ parent[root[i]] = root[i]
                       /\ parent[i] = i => root[i] = i

\* Two communities that nothing without a tie out of it separates.
Tied(i, j) ==
    \A S \in SUBSET actionPids :
        Joined(S) => (communities[i] \subseteq S <=> communities[j] \subseteq S)

\* What has been put below one root belongs together, and what belongs together
\* has been, or is still to be, or is about to be.
Unions(root) ==
    /\ \A i \in Indices : Tied(i, root[i])
    /\ \A e \in edges : Merging(e) =>
          LET c == root[CommunityOf(e.source)]
              d == root[CommunityOf(e.target)]
          IN  \/ c = d
              \/ e \in merges
              \/ Len(ends) = 2 /\ {c, d} = {root[ends[1]], root[ends[2]]}

Collected(root, k) ==
    /\ groups \in [Indices -> SUBSET actionPids]
    /\ \A i \in Indices :
          groups[i] = UNION {communities[j] : j \in {j \in 1..k : root[j] = i}}

Finding ==
    /\ merges = {} /\ parent = << >> /\ ends = << >> /\ next = 1 /\ groups = << >>

MergingInv(root) ==
    /\ Everyone /\ parent \in [Indices -> Indices] /\ next = 1 /\ Len(communities) > 0
    /\ merges \subseteq {e \in edges : Merging(e)}
    /\ Rooted(root) /\ Unions(root)
    /\ \/ ends = << >>
       \/ ends \in Indices \X Indices /\ Tied(ends[1], ends[2])
    /\ groups = [i \in Indices |-> {}]

RegroupInv(root) ==
    /\ Everyone /\ parent \in [Indices -> Indices] /\ next \in Indices
    /\ merges = {}
    /\ Rooted(root) /\ Unions(root)
    /\ \E k \in Indices : ends = <<k>> /\ root[k] = root[next]
    /\ Collected(root, next - 1)

DoneInv(root) ==
    /\ Everyone /\ merges = {} /\ ends = << >>
    /\ parent = << >> \/ parent \in [Indices -> Indices]
    /\ next \in 1..(Len(communities) + 1)
    /\ Unions(root)
    /\ Collected(root, Len(communities))

CInv ==
    /\ InputType
    /\ Found
    /\ phase \in {"find", "merge", "regroup", "done"}
    /\ phase = "find" => Finding
    /\ \E root \in [Indices -> Indices] :
          /\ phase = "merge" => MergingInv(root)
          /\ phase = "regroup" => RegroupInv(root)
          /\ phase = "done" => DoneInv(root)

-----------------------------------------------------------------------------
(* Helpers.                                                                *)

LEMMA ForkIsTie ==
    ASSUME NEW e, ForkEdge(e)
    PROVE  Ties(e)
BY Zenon DEF ForkEdge, Ties

LEMMA JoinedForks ==
    ASSUME NEW S, Joined(S)
    PROVE  ForkJoined(S)
BY ForkIsTie, Zenon DEF Joined, ForkJoined

\* A neighbour is at the other end of a fork edge.
LEMMA NeighbourJoined ==
    ASSUME NEW S, ForkJoined(S), NEW p, NEW q \in Neighbours(p)
    PROVE  p \in S <=> q \in S
<1>1. PICK e \in edges : ForkEdge(e) /\ \/ e.source = p /\ e.target = q
                                        \/ e.target = p /\ e.source = q
  BY DEF Neighbours
<1>. QED  BY <1>1, Zenon DEF ForkJoined

LEMMA NeighbourType ==
    ASSUME NEW p
    PROVE  Neighbours(p) \subseteq actionPids
<1>1. \A e \in edges : ForkEdge(e) => e.source \in actionPids /\ e.target \in actionPids
  BY DEF ForkEdge
<1>. QED  BY <1>1 DEF Neighbours

\* A set whose members' neighbours are all in it.
LEMMA NeighbourClosed ==
    ASSUME NEW S, \A p \in S : Neighbours(p) \subseteq S
    PROVE  ForkJoined(S)
<1>1. ASSUME NEW e \in edges, ForkEdge(e)
      PROVE  e.target \in Neighbours(e.source) /\ e.source \in Neighbours(e.target)
  BY <1>1 DEF Neighbours
<1>. QED  BY <1>1 DEF ForkJoined

\* When every process has been visited, each is in one community.
LEMMA CommunityOfType ==
    ASSUME Found, Everyone, NEW p \in actionPids
    PROVE  /\ CommunityOf(p) \in Indices /\ p \in communities[CommunityOf(p)]
           /\ \A i \in Indices : p \in communities[i] => i = CommunityOf(p)
<1>1. \E i \in Indices : p \in communities[i]
  BY DEF Found, Everyone
<1>2. CommunityOf(p) \in Indices /\ p \in communities[CommunityOf(p)]
  BY <1>1, Zenon DEF CommunityOf
<1>3. \A i \in Indices : p \in communities[i] => i = CommunityOf(p)
  BY <1>2 DEF Found
<1>. QED  BY <1>2, <1>3

LEMMA MergingType ==
    ASSUME Found, Everyone, NEW e, Merging(e)
    PROVE  /\ CommunityOf(e.source) \in Indices /\ CommunityOf(e.target) \in Indices
           /\ Ties(e) /\ e.source \in actionPids /\ e.target \in actionPids
<1>1. e.source \in actionPids /\ e.target \in actionPids
  BY DEF Merging
<1>2. Ties(e)
  BY Zenon DEF Merging, Ties
<1>. QED  BY <1>1, <1>2, CommunityOfType

\* A busy edge ties the communities of its ends.
LEMMA BusyTies ==
    ASSUME Found, Everyone, NEW e \in edges, Merging(e)
    PROVE  Tied(CommunityOf(e.source), CommunityOf(e.target))
<1>. DEFINE c == CommunityOf(e.source)
            d == CommunityOf(e.target)
<1>1. /\ c \in Indices /\ d \in Indices /\ Ties(e)
      /\ e.source \in communities[c] /\ e.target \in communities[d]
  BY MergingType, CommunityOfType
<1>2. ASSUME NEW S \in SUBSET actionPids, Joined(S)
      PROVE  communities[c] \subseteq S <=> communities[d] \subseteq S
  <2>1. e.source \in S <=> e.target \in S
    BY <1>1, <1>2, Zenon DEF Joined
  <2>2. \A i \in {c, d} : communities[i] \subseteq S \/ communities[i] \cap S = {}
    BY <1>1, <1>2, JoinedForks DEF Found, Communal, Whole
  <2>. QED  BY <1>1, <2>1, <2>2
<1>. QED  BY <1>2 DEF Tied

-----------------------------------------------------------------------------
(* The search.                                                             *)

\* What depends on the input alone.
LEMMA SameInput ==
    ASSUME UNCHANGED input
    PROVE  /\ \A S : ForkJoined(S)' <=> ForkJoined(S)
           /\ \A S : Joined(S)' <=> Joined(S)
           /\ \A S : Whole(S)' <=> Whole(S)
           /\ \A p : Neighbours(p)' = Neighbours(p)
           /\ InputType' <=> InputType
<1>1. actionPids' = actionPids /\ comm' = comm /\ edges' = edges
  BY DEF input
<1>2. \A e : ForkEdge(e)' <=> ForkEdge(e)
  BY <1>1 DEF ForkEdge
<1>3. \A e : Ties(e)' <=> Ties(e)
  BY <1>1 DEF Ties
<1>4. \A S : ForkJoined(S)' <=> ForkJoined(S)
  BY <1>1, <1>2 DEF ForkJoined
<1>5. \A S : Joined(S)' <=> Joined(S)
  BY <1>1, <1>3 DEF Joined
<1>6. \A S : Whole(S)' <=> Whole(S)
  BY <1>1, <1>4 DEF Whole
<1>7. \A p : Neighbours(p)' = Neighbours(p)
  BY <1>1, <1>2 DEF Neighbours
<1>8. InputType' <=> InputType
  BY <1>1 DEF InputType
<1>. QED  BY <1>4, <1>5, <1>6, <1>7, <1>8

LEMMA FoundSame ==
    ASSUME Found, UNCHANGED <<input, search, communities>>
    PROVE  Found' /\ (Everyone' <=> Everyone)
<1>1. /\ actionPids' = actionPids /\ visited' = visited /\ queue' = queue
      /\ component' = component /\ communities' = communities
  BY DEF input, search
<1>2. Indices' = Indices
  BY <1>1 DEF Indices
<1>3. \A i \in Indices : Communal(communities[i])'
  BY <1>1, SameInput DEF Found, Communal
<1>. QED  BY <1>1, <1>2, <1>3, SameInput DEF Found, Everyone

LEMMA StartFound ==
    ASSUME Found, NEW p, StartComponent(p)
    PROVE  Found'
<1>1. /\ UNCHANGED input /\ actionPids' = actionPids /\ visited' = visited /\ queue' = {p}
      /\ component = {} /\ component' = {} /\ communities' = communities
      /\ p \in actionPids \ visited
  BY DEF StartComponent, input
<1>2. Indices' = Indices
  BY <1>1 DEF Indices
<1>3. \A i \in Indices : Communal(communities[i])'
  BY <1>1, SameInput DEF Found, Communal
<1>4. Whole({p})
  BY DEF Whole
<1>5. Whole(component \cup queue)'
  BY <1>1, <1>4, SameInput DEF Whole
<1>. QED  BY <1>1, <1>2, <1>3, <1>5 DEF Found

LEMMA VisitFound ==
    ASSUME Found, NEW p, Visit(p)
    PROVE  Found'
<1>1. /\ UNCHANGED input /\ actionPids' = actionPids /\ p \in queue
      /\ visited' = visited \cup {p}
      /\ component' = component \cup {p} /\ communities' = communities
      /\ queue' = (queue \ {p}) \cup (Neighbours(p) \ visited')
  BY DEF Visit, input
<1>2. Indices' = Indices
  BY <1>1 DEF Indices
<1>3. p \in actionPids \ visited
  BY <1>1 DEF Found
<1>4. visited' \ component' = visited \ component
  BY <1>1, <1>3
<1>5. \A i \in Indices : Communal(communities[i])'
  BY <1>1, <1>4, SameInput DEF Found, Communal
<1>6. Neighbours(p) \subseteq actionPids
  BY NeighbourType
<1>7. Whole(component' \cup queue')
  <2>. DEFINE C == component \cup queue
  <2>1. component' \cup queue' \subseteq C \cup Neighbours(p) /\ p \in C
    BY <1>1
  <2>2. SUFFICES ASSUME NEW S \in SUBSET actionPids, ForkJoined(S)
                 PROVE  component' \cup queue' \subseteq S \/ (component' \cup queue') \cap S = {}
    BY DEF Whole
  <2>3. C \subseteq S \/ C \cap S = {}
    BY <2>2 DEF Found, Whole
  <2>4. \A q \in Neighbours(p) : p \in S <=> q \in S
    BY <2>2, NeighbourJoined
  <2>. QED  BY <2>1, <2>3, <2>4
<1>8. Neighbours(p) \subseteq component' \cup queue'
  <2>1. ASSUME NEW q \in Neighbours(p), q \in visited \ component
        PROVE  FALSE
    <3>1. PICK i \in Indices : q \in communities[i]
      BY <2>1 DEF Found
    <3>2. ForkJoined(communities[i]) /\ communities[i] \subseteq visited
      BY DEF Found, Communal
    <3>3. p \in communities[i]
      BY <2>1, <3>1, <3>2, NeighbourJoined
    <3>. QED  BY <1>3, <3>2, <3>3
  <2>. QED  BY <1>1, <2>1
<1>9. \A q \in component' : Neighbours(q)' \subseteq component' \cup queue'
  <2>1. component \cup queue \subseteq component' \cup queue'
    BY <1>1
  <2>2. \A q \in component : Neighbours(q) \subseteq component' \cup queue'
    BY <2>1 DEF Found
  <2>. QED  BY <1>1, <1>8, <2>2, SameInput
<1>10. Whole(component \cup queue)'
  BY <1>1, <1>7, SameInput DEF Whole
<1>11. queue' \subseteq actionPids' \ visited' /\ visited' \subseteq actionPids'
       /\ component' \subseteq visited'
  BY <1>1, <1>3, <1>6 DEF Found
<1>. QED  BY <1>1, <1>2, <1>4, <1>5, <1>9, <1>10, <1>11 DEF Found

\* A sequence with one more element.
LEMMA Appended ==
    ASSUME NEW S, NEW s \in Seq(S), NEW x \in S
    PROVE  /\ Append(s, x) \in Seq(S) /\ Len(Append(s, x)) = Len(s) + 1
           /\ \A i \in 1..Len(s) : Append(s, x)[i] = s[i]
           /\ Append(s, x)[Len(s) + 1] = x
OBVIOUS

LEMMA EndFound ==
    ASSUME Found, EndComponent
    PROVE  Found'
<1>1. /\ UNCHANGED input /\ actionPids' = actionPids /\ visited' = visited
      /\ queue = {} /\ queue' = {} /\ component # {} /\ component' = {}
      /\ communities' = Append(communities, component)
  BY DEF EndComponent, input
<1>2. component \in SUBSET actionPids /\ communities \in Seq(SUBSET actionPids)
  BY DEF Found
<1>3. /\ communities' \in Seq(SUBSET actionPids') /\ Len(communities') = Len(communities) + 1
      /\ \A i \in Indices : communities'[i] = communities[i]
      /\ communities'[Len(communities) + 1] = component
  BY <1>1, <1>2, Appended DEF Indices
<1>4. Len(communities) \in Nat /\ Indices' = Indices \cup {Len(communities) + 1}
  BY <1>2, <1>3 DEF Indices
<1>5. ForkJoined(component) /\ Whole(component)
  <2>1. component \cup queue = component
    BY <1>1
  <2>. QED  BY <2>1, NeighbourClosed DEF Found
<1>6. \A i \in Indices' : Communal(communities[i])'
  <2>2. \A i \in Indices : Communal(communities[i])
    BY DEF Found
  <2>3. component \subseteq visited
    BY DEF Found
  <2>4. ASSUME NEW i \in Indices'
        PROVE  /\ communities'[i] # {} /\ communities'[i] \subseteq visited
               /\ ForkJoined(communities'[i]) /\ Whole(communities'[i])
    BY <1>1, <1>3, <1>4, <1>5, <2>2, <2>3 DEF Communal
  <2>. QED  BY <1>1, <2>4, SameInput DEF Communal
<1>7. \A i, j \in Indices' : i # j => communities'[i] \cap communities'[j] = {}
  <2>1. \A i \in Indices : communities[i] \cap component = {}
    BY DEF Found, Communal
  <2>. QED  BY <1>3, <1>4, <2>1 DEF Found
<1>8. \A q \in visited' \ component' : \E i \in Indices' : q \in communities'[i]
  BY <1>1, <1>3, <1>4 DEF Found
<1>9. Whole(component \cup queue)'
  BY <1>1 DEF Whole
<1>. QED  BY <1>1, <1>3, <1>6, <1>7, <1>8, <1>9 DEF Found

LEMMA Starts ==
    ASSUME Init
    PROVE  CInv
<1>1. /\ visited = {} /\ queue = {} /\ component = {} /\ communities = << >> /\ phase = "find"
      /\ Finding
  BY DEF Init, Start, Finding
<1>2. InputType
  BY DEF Init, kSubset, InputType
<1>3. Indices = {}
  BY <1>1 DEF Indices
<1>4. Whole(component \cup queue)
  BY <1>1 DEF Whole
<1>5. Found
  BY <1>1, <1>3, <1>4 DEF Found
<1>6. \E root \in [Indices -> Indices] : TRUE
  <2>1. [i \in Indices |-> i] \in [Indices -> Indices]
    OBVIOUS
  <2>. QED  BY <2>1
<1>. QED  BY <1>1, <1>2, <1>5, <1>6 DEF CInv

LEMMA SearchStep ==
    ASSUME CInv, NEW p, StartComponent(p) \/ Visit(p) \/ EndComponent
    PROVE  CInv'
<1>1. /\ UNCHANGED input /\ phase = "find" /\ phase' = "find"
      /\ UNCHANGED <<merges, parent, ends, next, groups>>
  BY DEF StartComponent, Visit, EndComponent
<1>2. Found'
  BY StartFound, VisitFound, EndFound DEF CInv
<1>3. InputType'
  BY <1>1, SameInput DEF CInv
<1>4. Finding'
  BY <1>1 DEF CInv, Finding
<1>5. \E root \in [Indices' -> Indices'] : TRUE
  <2>1. [i \in Indices' |-> i] \in [Indices' -> Indices']
    OBVIOUS
  <2>. QED  BY <2>1
<1>. QED  BY <1>1, <1>2, <1>3, <1>4, <1>5 DEF CInv

-----------------------------------------------------------------------------
(* The merges.                                                             *)

\* What depends on the communities found.
LEMMA SameCommunities ==
    ASSUME UNCHANGED <<input, communities>>
    PROVE  /\ Indices' = Indices
           /\ \A p : CommunityOf(p)' = CommunityOf(p)
           /\ \A e : Merging(e)' <=> Merging(e)
           /\ \A i, j : Tied(i, j)' <=> Tied(i, j)
<1>1. /\ actionPids' = actionPids /\ communities' = communities /\ edges' = edges
      /\ UNCHANGED input
  BY DEF input
<1>2. Indices' = Indices
  BY <1>1 DEF Indices
<1>3. \A p : CommunityOf(p)' = CommunityOf(p)
  BY <1>1, <1>2 DEF CommunityOf
<1>4. \A e : Merging(e)' <=> Merging(e)
  BY <1>1, <1>3 DEF Merging
<1>5. \A i, j : Tied(i, j)' <=> Tied(i, j)
  BY <1>1, SameInput DEF Tied
<1>. QED  BY <1>2, <1>3, <1>4, <1>5

LEMMA TiedEquivalence ==
    /\ \A i : Tied(i, i)
    /\ \A i, j : Tied(i, j) => Tied(j, i)
    /\ \A i, j, k : Tied(i, j) /\ Tied(j, k) => Tied(i, k)
BY Zenon DEF Tied

LEMMA CollectStep ==
    ASSUME CInv, CollectMerges
    PROVE  CInv'
<1>1. /\ UNCHANGED <<input, search, communities, ends, next>>
      /\ phase = "find" /\ Everyone /\ merges' = {e \in edges : Merging(e)}
      /\ ends = << >> /\ ends' = << >> /\ next' = 1 /\ Found /\ InputType
  BY DEF CollectMerges, Everyone, CInv, Finding
<1>2. UNCHANGED <<input, communities>> /\ UNCHANGED <<input, search, communities>>
      /\ actionPids' = actionPids /\ edges' = edges /\ communities' = communities
  BY <1>1 DEF input
<1>3. Found' /\ Everyone' /\ InputType'
  BY <1>1, <1>2, FoundSame, SameInput
<1>4. Indices' = Indices
  BY <1>2, SameCommunities
<1>5. PICK root \in [Indices -> Indices] : \A i \in Indices : root[i] = i
  <2>1. [i \in Indices |-> i] \in [Indices -> Indices]
    OBVIOUS
  <2>. QED  BY <2>1
<1>6. Unions(root)'
  <2>1. \A i \in Indices : Tied(i, root[i])'
    BY <1>2, <1>5, TiedEquivalence, SameCommunities
  <2>2. \A e \in edges : Merging(e)' => e \in merges'
    BY <1>1, <1>2, SameCommunities
  <2>. QED  BY <1>2, <1>4, <2>1, <2>2 DEF Unions
<1>7. CASE merges' = {}
  <2>1. phase' = "done" /\ groups' = communities /\ parent' = parent
    BY <1>7 DEF CollectMerges
  <2>2. parent' = << >>
    BY <1>1, <2>1 DEF CInv, Finding
  <2>3. /\ communities \in Seq(SUBSET actionPids) /\ Len(communities) \in Nat
        /\ communities \in [Indices -> SUBSET actionPids]
    BY <1>1 DEF Found, Indices
  <2>4. \A i \in Indices : {j \in 1..Len(communities) : root[j] = i} = {i}
    BY <1>5 DEF Indices
  <2>5. \A i \in Indices :
            communities[i] = UNION {communities[j] : j \in {j \in 1..Len(communities) : root[j] = i}}
    BY <2>4
  <2>6. Collected(root, Len(communities))'
    BY <1>2, <1>4, <2>1, <2>3, <2>5 DEF Collected
  <2>7. 1 \in 1..(Len(communities) + 1)
    BY <2>3
  <2>8. DoneInv(root)'
    BY <1>1, <1>2, <1>3, <1>6, <1>7, <2>2, <2>6, <2>7 DEF DoneInv
  <2>. QED  BY <1>3, <1>4, <1>5, <2>1, <2>8 DEF CInv
<1>8. CASE merges' # {}
  <2>1. /\ phase' = "merge" /\ groups' = [i \in Indices |-> {}]
        /\ parent' = [i \in Indices |-> i]
    BY <1>8 DEF CollectMerges
  <2>2. Len(communities) > 0
    <3>1. PICK e \in edges : Merging(e)
      BY <1>1, <1>8
    <3>2. CommunityOf(e.source) \in Indices
      BY <1>1, <3>1, MergingType
    <3>3. Len(communities) \in Nat
      BY <1>1 DEF Found
    <3>. QED  BY <3>2, <3>3 DEF Indices
  <2>3. Rooted(root)'
    BY <1>4, <1>5, <2>1 DEF Rooted
  <2>4. merges' \subseteq {e \in edges' : Merging(e)'}
    BY <1>1, <1>2, SameCommunities
  <2>5. MergingInv(root)'
    BY <1>1, <1>2, <1>3, <1>4, <1>6, <2>1, <2>2, <2>3, <2>4 DEF MergingInv
  <2>. QED  BY <1>3, <1>4, <1>5, <2>1, <2>5 DEF CInv
<1>. QED  BY <1>7, <1>8

\* In the passes after the search, its results stay.
LEMMA AfterSearch ==
    ASSUME CInv, UNCHANGED <<input, search, communities>>
    PROVE  /\ Found /\ Found' /\ InputType' /\ (Everyone' <=> Everyone)
           /\ UNCHANGED <<input, communities>>
           /\ actionPids' = actionPids /\ edges' = edges /\ communities' = communities
           /\ Indices' = Indices
<1>1. Found /\ InputType
  BY DEF CInv
<1>2. /\ UNCHANGED <<input, communities>>
      /\ actionPids' = actionPids /\ edges' = edges /\ communities' = communities
  BY DEF input
<1>. QED  BY <1>1, <1>2, FoundSame, SameInput, SameCommunities

LEMMA TakeStep ==
    ASSUME CInv, NEW e, TakeMerge(e)
    PROVE  CInv'
<1>1. /\ UNCHANGED <<input, search, communities>> /\ UNCHANGED <<parent, next, groups>>
      /\ phase = "merge" /\ phase' = "merge" /\ ends = << >> /\ e \in merges
      /\ merges' = merges \ {e}
  BY DEF TakeMerge
<1>2. PICK root \in [Indices -> Indices] : MergingInv(root)
  BY <1>1 DEF CInv
<1>3. /\ Found /\ Found' /\ InputType' /\ Everyone /\ Everyone' /\ Indices' = Indices
      /\ UNCHANGED <<input, communities>> /\ edges' = edges /\ communities' = communities
      /\ actionPids' = actionPids
  BY <1>1, <1>2, AfterSearch DEF MergingInv
<1>. DEFINE c == CommunityOf(e.source)
            d == CommunityOf(e.target)
<1>4. e \in edges /\ Merging(e)
  BY <1>1, <1>2 DEF MergingInv
<1>5. c \in Indices /\ d \in Indices /\ Tied(c, d) /\ Tied(d, c)
  BY <1>3, <1>4, MergingType, BusyTies, TiedEquivalence
<1>6. ends' = <<c, d>> \/ ends' = <<d, c>>
  BY DEF TakeMerge
<1>7. ends' \in Indices \X Indices /\ Tied(ends'[1], ends'[2]) /\ Len(ends') = 2
      /\ {ends'[1], ends'[2]} = {c, d}
  <2>. HIDE DEF c, d
  <2>. QED  BY <1>5, <1>6
<1>8. Unions(root)'
  <2>1. \A i \in Indices : Tied(i, root[i])'
    BY <1>2, <1>3, SameCommunities DEF MergingInv, Unions
  <2>2. ASSUME NEW f \in edges, Merging(f)
        PROVE  \/ root[CommunityOf(f.source)] = root[CommunityOf(f.target)]
               \/ f \in merges'
               \/ {root[CommunityOf(f.source)], root[CommunityOf(f.target)]}
                      = {root[ends'[1]], root[ends'[2]]}
    <3>1. CASE f = e
      <4>1. {root[c], root[d]} = {root[ends'[1]], root[ends'[2]]}
        <5>. HIDE DEF c, d
        <5>. QED  BY <1>7
      <4>. QED  BY <3>1, <4>1
    <3>2. CASE f # e
      <4>1. \/ root[CommunityOf(f.source)] = root[CommunityOf(f.target)]
            \/ f \in merges \/ Len(ends) = 2
        BY <1>2, <2>2 DEF MergingInv, Unions
      <4>2. Len(ends) = 0
        BY <1>1
      <4>. QED  BY <1>1, <3>2, <4>1, <4>2
    <3>. QED  BY <3>1, <3>2
  <2>3. \A f \in edges : Merging(f)' =>
            \/ root[CommunityOf(f.source)'] = root[CommunityOf(f.target)']
            \/ f \in merges'
            \/ {root[CommunityOf(f.source)'], root[CommunityOf(f.target)']}
                   = {root[ends'[1]], root[ends'[2]]}
    <3>. HIDE DEF c, d
    <3>. QED  BY <1>3, <2>2, SameCommunities
  <2>. HIDE DEF c, d
  <2>. QED  BY <1>3, <1>7, <2>1, <2>3 DEF Unions
<1>9. Rooted(root)'
  BY <1>1, <1>2, <1>3 DEF MergingInv, Rooted
<1>10. merges' \subseteq {f \in edges' : Merging(f)'}
  BY <1>1, <1>2, <1>3, SameCommunities DEF MergingInv
<1>11. Tied(ends[1], ends[2])'
  <2>1. \A S : Joined(S)' <=> Joined(S)
    BY <1>3, SameInput
  <2>2. \A S \in SUBSET actionPids' : Joined(S)' =>
            (communities'[ends'[1]] \subseteq S <=> communities'[ends'[2]] \subseteq S)
    BY <1>3, <1>7, <2>1 DEF Tied
  <2>. QED  BY <2>2 DEF Tied
<1>12. MergingInv(root)'
  BY <1>1, <1>2, <1>3, <1>7, <1>8, <1>9, <1>10, <1>11 DEF MergingInv
<1>. QED  BY <1>1, <1>2, <1>3, <1>12 DEF CInv

\* Any community is tied to its parent.
LEMMA ParentTied ==
    ASSUME NEW root \in [Indices -> Indices], parent \in [Indices -> Indices],
           Rooted(root), Unions(root), NEW i \in Indices
    PROVE  Tied(i, parent[i])
<1>1. Tied(i, root[i]) /\ Tied(parent[i], root[parent[i]]) /\ root[parent[i]] = root[i]
  BY DEF Unions, Rooted
<1>. QED  BY <1>1, TiedEquivalence

LEMMA ClimbStep ==
    ASSUME CInv, NEW k, Climb(k)
    PROVE  CInv'
<1>1. /\ UNCHANGED <<input, search, communities>> /\ UNCHANGED <<phase, merges, parent, next, groups>>
      /\ k \in DOMAIN ends /\ ends' = [ends EXCEPT ![k] = parent[ends[k]]]
  BY DEF Climb
<1>2. PICK root \in [Indices -> Indices] :
          /\ phase = "merge" => MergingInv(root)
          /\ phase = "regroup" => RegroupInv(root)
          /\ phase = "done" => DoneInv(root)
  BY DEF CInv
<1>3. ends # << >>
  BY <1>1
<1>4. CASE phase = "merge"
  <2>1. MergingInv(root) /\ ends \in Indices \X Indices /\ Tied(ends[1], ends[2])
    BY <1>2, <1>3, <1>4 DEF MergingInv
  <2>2. PICK x \in Indices, y \in Indices : ends = <<x, y>>
    BY <2>1
  <2>3. Tied(x, y) /\ parent \in [Indices -> Indices] /\ Rooted(root) /\ Unions(root) /\ Everyone
    BY <2>1, <2>2 DEF MergingInv
  <2>4. \/ ends' = <<parent[x], y>>
        \/ ends' = <<x, parent[y]>>
    BY <1>1, <2>2
  <2>5. /\ Tied(parent[x], y) /\ root[parent[x]] = root[x]
        /\ Tied(x, parent[y]) /\ root[parent[y]] = root[y]
        /\ parent[x] \in Indices /\ parent[y] \in Indices
    BY <2>3, ParentTied, TiedEquivalence DEF Rooted
  <2>6. PICK u \in Indices, v \in Indices :
            ends' = <<u, v>> /\ Tied(u, v) /\ root[u] = root[x] /\ root[v] = root[y]
    BY <2>3, <2>4, <2>5
  <2>7. /\ Found /\ Found' /\ InputType' /\ Everyone' /\ Indices' = Indices
        /\ UNCHANGED <<input, communities>> /\ edges' = edges /\ communities' = communities
        /\ actionPids' = actionPids
    BY <1>1, <2>3, AfterSearch
  <2>8. Tied(u, v)'
    BY <2>6, <2>7, SameCommunities
  <2>9. Unions(root)'
    <3>1. \A i \in Indices : Tied(i, root[i])'
      BY <2>3, <2>7, SameCommunities DEF Unions
    <3>2. ASSUME NEW f \in edges, Merging(f)
          PROVE  \/ root[CommunityOf(f.source)] = root[CommunityOf(f.target)]
                 \/ f \in merges
                 \/ {root[CommunityOf(f.source)], root[CommunityOf(f.target)]} = {root[u], root[v]}
      <4>1. ends[1] = x /\ ends[2] = y
        BY <2>2
      <4>. QED  BY <2>3, <2>6, <3>2, <4>1 DEF Unions
    <3>3. \A f \in edges : Merging(f)' =>
            \/ root[CommunityOf(f.source)'] = root[CommunityOf(f.target)']
            \/ f \in merges
            \/ {root[CommunityOf(f.source)'], root[CommunityOf(f.target)']} = {root[u], root[v]}
      BY <2>7, <3>2, SameCommunities
    <3>4. Len(ends') = 2 /\ ends'[1] = u /\ ends'[2] = v
      BY <2>6
    <3>. QED  BY <1>1, <2>7, <3>1, <3>3, <3>4 DEF Unions
  <2>10. Rooted(root)'
    BY <1>1, <2>3, <2>7 DEF Rooted
  <2>11. merges' \subseteq {f \in edges' : Merging(f)'}
    BY <1>1, <2>1, <2>7, SameCommunities DEF MergingInv
  <2>12. ends' \in Indices' \X Indices' /\ Tied(ends[1], ends[2])'
    <3>1. ends' \in Indices \X Indices /\ ends'[1] = u /\ ends'[2] = v
      BY <2>6
    <3>. QED  BY <2>7, <2>8, <3>1 DEF Tied
  <2>13. MergingInv(root)'
    BY <1>1, <2>1, <2>7, <2>9, <2>10, <2>11, <2>12 DEF MergingInv
  <2>. QED  BY <1>1, <1>4, <2>7, <2>13 DEF CInv
<1>5. CASE phase = "regroup"
  <2>1. /\ RegroupInv(root) /\ Everyone /\ parent \in [Indices -> Indices] /\ Rooted(root)
        /\ Unions(root) /\ Collected(root, next - 1)
    BY <1>2, <1>5 DEF RegroupInv
  <2>2. PICK x \in Indices : ends = <<x>> /\ root[x] = root[next]
    BY <2>1 DEF RegroupInv
  <2>3. ends' = <<parent[x]>>
    BY <1>1, <2>2
  <2>4. parent[x] \in Indices /\ root[parent[x]] = root[next]
    BY <2>1, <2>2 DEF Rooted
  <2>5. /\ Found /\ Found' /\ InputType' /\ Everyone' /\ Indices' = Indices
        /\ UNCHANGED <<input, communities>> /\ edges' = edges /\ communities' = communities
        /\ actionPids' = actionPids
    BY <1>1, <2>1, AfterSearch
  <2>6. Unions(root)'
    <3>1. \A i \in Indices : Tied(i, root[i])'
      BY <2>1, <2>5, SameCommunities DEF Unions
    <3>2. Len(ends) = 1
      BY <2>2
    <3>3. \A f \in edges : Merging(f) =>
              root[CommunityOf(f.source)] = root[CommunityOf(f.target)] \/ f \in merges
      BY <2>1, <3>2 DEF Unions
    <3>4. \A f \in edges : Merging(f)' =>
              root[CommunityOf(f.source)'] = root[CommunityOf(f.target)'] \/ f \in merges
      BY <2>5, <3>3, SameCommunities
    <3>. QED  BY <1>1, <2>5, <3>1, <3>4 DEF Unions
  <2>7. Rooted(root)' /\ Collected(root, next - 1)'
    BY <1>1, <2>1, <2>5 DEF Rooted, Collected
  <2>8. RegroupInv(root)'
    BY <1>1, <2>1, <2>3, <2>4, <2>5, <2>6, <2>7 DEF RegroupInv
  <2>. QED  BY <1>1, <1>5, <2>5, <2>8 DEF CInv
<1>6. CASE phase \notin {"merge", "regroup"}
  BY <1>2, <1>3, <1>6 DEF CInv, Finding, DoneInv
<1>. QED  BY <1>4, <1>5, <1>6

LEMMA UnionStep ==
    ASSUME CInv, Union
    PROVE  CInv'
<1>1. /\ UNCHANGED <<input, search, communities>> /\ UNCHANGED <<phase, merges, next, groups>>
      /\ phase = "merge" /\ ends' = << >> /\ Len(ends) = 2 /\ AtRoot(1) /\ AtRoot(2)
  BY DEF Union
<1>2. PICK root \in [Indices -> Indices] : MergingInv(root)
  BY <1>1 DEF CInv
<1>3. ends \in Indices \X Indices /\ Tied(ends[1], ends[2])
  <2>1. ends # << >>
    BY <1>1
  <2>. QED  BY <1>2, <2>1 DEF MergingInv
<1>4. PICK x \in Indices, y \in Indices : ends = <<x, y>>
  BY <1>3
<1>5. /\ Tied(x, y) /\ parent \in [Indices -> Indices] /\ Rooted(root) /\ Unions(root) /\ Everyone
      /\ parent[x] = x /\ parent[y] = y
      /\ parent' = IF x # y THEN [parent EXCEPT ![y] = x] ELSE parent
  BY <1>1, <1>2, <1>3, <1>4 DEF MergingInv, AtRoot, Union, Linked
<1>6. root[x] = x /\ root[y] = y
  BY <1>5 DEF Rooted
<1>7. /\ Found /\ Found' /\ InputType' /\ Everyone' /\ Indices' = Indices
      /\ UNCHANGED <<input, communities>> /\ edges' = edges /\ communities' = communities
      /\ actionPids' = actionPids
  BY <1>1, <1>5, AfterSearch
<1>8. PICK joint \in [Indices -> Indices] :
          \A i \in Indices : joint[i] = IF root[i] = y THEN x ELSE root[i]
  <2>1. [i \in Indices |-> IF root[i] = y THEN x ELSE root[i]] \in [Indices -> Indices]
    OBVIOUS
  <2>. QED  BY <2>1
<1>9. parent' \in [Indices -> Indices]
  BY <1>5
<1>10. Rooted(joint)'
  <2>1. CASE x = y
    BY <1>5, <1>7, <1>8, <2>1 DEF Rooted
  <2>2. CASE x # y
    <3>1. parent' = [parent EXCEPT ![y] = x]
      BY <1>5, <2>2
    <3>2. ASSUME NEW i \in Indices
          PROVE  /\ joint[parent'[i]] = joint[i] /\ parent'[joint[i]] = joint[i]
                 /\ parent'[i] = i => joint[i] = i
      <4>1. /\ root[parent[i]] = root[i] /\ parent[root[i]] = root[i]
            /\ parent[i] = i => root[i] = i
            /\ parent[i] \in Indices /\ root[i] \in Indices
        BY <1>5 DEF Rooted
      <4>2. joint[parent'[i]] = joint[i]
        BY <1>5, <1>6, <1>8, <3>1, <4>1
      <4>3. parent'[joint[i]] = joint[i]
        BY <1>5, <1>6, <1>8, <2>2, <3>1, <4>1
      <4>4. parent'[i] = i => joint[i] = i
        BY <1>5, <1>8, <2>2, <3>1, <4>1
      <4>. QED  BY <4>2, <4>3, <4>4
    <3>. QED  BY <1>7, <3>2 DEF Rooted
  <2>. QED  BY <2>1, <2>2
<1>11. Unions(joint)'
  <2>1. ASSUME NEW i \in Indices
        PROVE  Tied(i, joint[i])
    <3>1. Tied(i, root[i])
      BY <1>5 DEF Unions
    <3>2. CASE root[i] = y
      <4>1. Tied(i, y) /\ Tied(y, x) /\ joint[i] = x
        BY <1>5, <1>8, <3>1, <3>2, TiedEquivalence
      <4>. QED  BY <4>1, TiedEquivalence
    <3>3. CASE root[i] # y
      BY <1>8, <3>1, <3>3
    <3>. QED  BY <3>2, <3>3
  <2>2. ASSUME NEW f \in edges, Merging(f)
        PROVE  joint[CommunityOf(f.source)] = joint[CommunityOf(f.target)] \/ f \in merges
    <3>. DEFINE c == CommunityOf(f.source)
                d == CommunityOf(f.target)
    <3>1. c \in Indices /\ d \in Indices
      BY <1>5, <1>7, <2>2, MergingType
    <3>2. ends[1] = x /\ ends[2] = y
      BY <1>4
    <3>3. root[c] = root[d] \/ f \in merges \/ {root[c], root[d]} = {x, y}
      BY <1>5, <1>6, <2>2, <3>2 DEF Unions
    <3>. HIDE DEF c, d
    <3>4. joint[c] = joint[d] \/ f \in merges
      BY <1>8, <3>1, <3>3
    <3>. QED  BY <3>4 DEF c, d
  <2>3. \A i \in Indices : Tied(i, joint[i])'
    BY <1>7, <2>1, SameCommunities
  <2>4. \A f \in edges : Merging(f)' =>
            joint[CommunityOf(f.source)'] = joint[CommunityOf(f.target)'] \/ f \in merges
    BY <1>7, <2>2, SameCommunities
  <2>. QED  BY <1>1, <1>7, <2>3, <2>4 DEF Unions
<1>12. merges' \subseteq {f \in edges' : Merging(f)'}
  BY <1>1, <1>2, <1>7, SameCommunities DEF MergingInv
<1>13. MergingInv(joint)'
  BY <1>1, <1>2, <1>7, <1>9, <1>10, <1>11, <1>12 DEF MergingInv
<1>. QED  BY <1>1, <1>7, <1>8, <1>13 DEF CInv

\* With no edge left, the busy edges are all below one root.
LEMMA NoneLeft ==
    ASSUME CInv, UNCHANGED <<input, communities>>, NEW root, Unions(root),
           merges = {}, Len(ends) < 2, merges' = {}
    PROVE  Unions(root)'
<1>1. Indices' = Indices /\ edges' = edges
  BY SameCommunities DEF input
<1>2. \A i \in Indices : Tied(i, root[i])'
  BY SameCommunities DEF Unions
<1>3. Len(ends) # 2
  OBVIOUS
<1>4. \A f \in edges : Merging(f) => root[CommunityOf(f.source)] = root[CommunityOf(f.target)]
  BY <1>3 DEF Unions
<1>5. \A f \in edges : Merging(f)' => root[CommunityOf(f.source)'] = root[CommunityOf(f.target)']
  BY <1>4, SameCommunities
<1>. QED  BY <1>1, <1>2, <1>5 DEF Unions

LEMMA EndMergesStep ==
    ASSUME CInv, EndMerges
    PROVE  CInv'
<1>1. /\ UNCHANGED <<input, search, communities>> /\ UNCHANGED <<merges, parent, next, groups>>
      /\ phase = "merge" /\ phase' = "regroup" /\ ends = << >> /\ ends' = <<next>> /\ merges = {}
  BY DEF EndMerges
<1>2. PICK root \in [Indices -> Indices] : MergingInv(root)
  BY <1>1 DEF CInv
<1>3. /\ Found /\ Found' /\ InputType' /\ Everyone' /\ Indices' = Indices
      /\ UNCHANGED <<input, communities>> /\ actionPids' = actionPids /\ communities' = communities
  BY <1>1, <1>2, AfterSearch DEF MergingInv
<1>4. next = 1 /\ 1 \in Indices
  <2>1. Len(communities) \in Nat
    BY <1>3 DEF Found
  <2>. QED  BY <1>2, <2>1 DEF MergingInv, Indices
<1>5. Unions(root)'
  <2>1. Len(ends) < 2
    BY <1>1
  <2>. QED  BY <1>1, <1>2, <1>3, <2>1, NoneLeft DEF MergingInv
<1>6. Rooted(root)'
  BY <1>1, <1>2, <1>3 DEF MergingInv, Rooted
<1>7. Collected(root, next - 1)'
  <2>1. {j \in 1..(next - 1) : TRUE} = {}
    BY <1>4
  <2>2. groups = [i \in Indices |-> {}]
    BY <1>2 DEF MergingInv
  <2>3. \A i \in Indices : UNION {communities[j] : j \in {j \in 1..(next - 1) : root[j] = i}} = {}
    BY <2>1
  <2>. QED  BY <1>1, <1>3, <2>2, <2>3 DEF Collected
<1>8. RegroupInv(root)'
  BY <1>1, <1>2, <1>3, <1>4, <1>5, <1>6, <1>7 DEF MergingInv, RegroupInv
<1>. QED  BY <1>1, <1>3, <1>8 DEF CInv

LEMMA RegroupStep ==
    ASSUME CInv, Regroup
    PROVE  CInv'
<1>1. /\ UNCHANGED <<input, search, communities>> /\ UNCHANGED <<merges, parent>>
      /\ phase = "regroup" /\ AtRoot(1) /\ next' = next + 1
      /\ groups' = [groups EXCEPT ![ends[1]] = @ \cup communities[next]]
      /\ IF next < Len(communities)
         THEN ends' = <<next + 1>> /\ phase' = phase
         ELSE ends' = << >> /\ phase' = "done"
  BY DEF Regroup
<1>2. PICK root \in [Indices -> Indices] : RegroupInv(root)
  BY <1>1 DEF CInv
<1>3. /\ Found /\ Found' /\ InputType' /\ Everyone' /\ Indices' = Indices
      /\ UNCHANGED <<input, communities>> /\ actionPids' = actionPids /\ communities' = communities
  BY <1>1, <1>2, AfterSearch DEF RegroupInv
<1>4. /\ next \in Indices /\ merges = {} /\ Rooted(root) /\ Unions(root) /\ Collected(root, next - 1)
      /\ parent \in [Indices -> Indices]
  BY <1>2 DEF RegroupInv
<1>5. PICK k \in Indices : ends = <<k>> /\ root[k] = root[next]
  BY <1>2 DEF RegroupInv
<1>6. root[next] = k
  BY <1>1, <1>4, <1>5 DEF AtRoot, Rooted
<1>7. Len(communities) \in Nat /\ next \in Nat /\ next >= 1 /\ next <= Len(communities)
      /\ \A i \in Indices : communities[i] \subseteq actionPids
  BY <1>3, <1>4 DEF Found, Indices
<1>8. groups' = [groups EXCEPT ![k] = groups[k] \cup communities[next]]
  BY <1>1, <1>5
<1>9. /\ groups' \in [Indices' -> SUBSET actionPids']
      /\ \A i \in Indices' : groups'[i] =
            UNION {communities'[j] : j \in {j \in 1..next : root[j] = i}}
  <2>. DEFINE Under(i, n) == {j \in 1..n : root[j] = i}
  <2>1. groups' \in [Indices -> SUBSET actionPids]
    BY <1>4, <1>7, <1>8 DEF Collected
  <2>2. \A i \in Indices : groups[i] = UNION {communities[j] : j \in Under(i, next - 1)}
    BY <1>4 DEF Collected
  <2>3. ASSUME NEW i \in Indices
        PROVE  groups'[i] = UNION {communities[j] : j \in Under(i, next)}
    <3>1. 1..next = (1..(next - 1)) \cup {next}
      BY <1>7
    <3>2. CASE i = k
      <4>1. Under(i, next) = Under(i, next - 1) \cup {next}
        BY <1>6, <3>1, <3>2
      <4>2. groups'[i] = groups[i] \cup communities[next]
        BY <1>4, <1>8, <3>2 DEF Collected
      <4>. HIDE DEF Under
      <4>. QED  BY <2>2, <4>1, <4>2
    <3>3. CASE i # k
      <4>1. Under(i, next) = Under(i, next - 1)
        BY <1>6, <3>1, <3>3
      <4>2. groups'[i] = groups[i]
        BY <1>4, <1>8, <3>3 DEF Collected
      <4>. HIDE DEF Under
      <4>. QED  BY <2>2, <4>1, <4>2
    <3>. QED  BY <3>2, <3>3
  <2>. QED  BY <1>3, <2>1, <2>3
<1>10. Unions(root)'
  <2>1. Len(ends) < 2 /\ merges' = {}
    BY <1>1, <1>4, <1>5
  <2>. QED  BY <1>3, <1>4, <2>1, NoneLeft
<1>11. Rooted(root)'
  BY <1>1, <1>3, <1>4 DEF Rooted
<1>12. CASE next < Len(communities)
  <2>1. phase' = "regroup" /\ ends' = <<next + 1>> /\ next' = next + 1
    BY <1>1, <1>12
  <2>2. next + 1 \in Indices /\ (next + 1) - 1 = next
    BY <1>7, <1>12 DEF Indices
  <2>3. Collected(root, next - 1)'
    BY <1>9, <2>1, <2>2 DEF Collected
  <2>4. \E m \in Indices' : ends' = <<m>> /\ root[m] = root[next']
    BY <1>3, <2>1, <2>2
  <2>5. RegroupInv(root)'
    BY <1>1, <1>3, <1>4, <1>10, <1>11, <2>1, <2>2, <2>3, <2>4 DEF RegroupInv
  <2>. QED  BY <1>3, <2>1, <2>5 DEF CInv
<1>13. CASE ~(next < Len(communities))
  <2>1. phase' = "done" /\ ends' = << >> /\ next' = next + 1 /\ next = Len(communities)
    BY <1>1, <1>7, <1>13
  <2>2. Collected(root, Len(communities))'
    BY <1>3, <1>9, <2>1 DEF Collected
  <2>3. next' \in 1..(Len(communities') + 1)
    BY <1>3, <1>7, <2>1
  <2>4. DoneInv(root)'
    BY <1>1, <1>3, <1>4, <1>10, <2>1, <2>2, <2>3 DEF DoneInv
  <2>. QED  BY <1>3, <2>1, <2>4 DEF CInv
<1>. QED  BY <1>12, <1>13

LEMMA Inductive ==
    ASSUME CInv, [Next]_vars
    PROVE  CInv'
<1>1. CASE \E p \in Pids : StartComponent(p) \/ Visit(p)
  BY <1>1, SearchStep
<1>2. CASE EndComponent
  BY <1>2, SearchStep
<1>3. CASE CollectMerges
  BY <1>3, CollectStep
<1>4. CASE \E e \in merges : TakeMerge(e)
  BY <1>4, TakeStep
<1>5. CASE \E k \in 1..2 : Climb(k)
  BY <1>5, ClimbStep
<1>6. CASE Union
  BY <1>6, UnionStep
<1>7. CASE EndMerges
  BY <1>7, EndMergesStep
<1>8. CASE Regroup
  BY <1>8, RegroupStep
<1>9. CASE UNCHANGED vars
  <2>1. /\ UNCHANGED <<input, search, communities>>
        /\ UNCHANGED <<phase, merges, parent, next, ends, groups>>
    BY <1>9 DEF vars
  <2>2. PICK root \in [Indices -> Indices] :
            /\ phase = "merge" => MergingInv(root)
            /\ phase = "regroup" => RegroupInv(root)
            /\ phase = "done" => DoneInv(root)
    BY DEF CInv
  <2>3. /\ Found' /\ InputType' /\ (Everyone' <=> Everyone)
        /\ UNCHANGED <<input, communities>>
        /\ actionPids' = actionPids /\ edges' = edges /\ communities' = communities
        /\ Indices' = Indices
    BY <2>1, AfterSearch
  <2>4. Unions(root) => Unions(root)'
    BY <2>1, <2>3, SameCommunities DEF Unions
  <2>5. Rooted(root) => Rooted(root)'
    BY <2>1, <2>3 DEF Rooted
  <2>6. phase = "merge" => MergingInv(root)'
    <3>1. \A i, j : Tied(i, j)' <=> Tied(i, j)
      BY <2>3, SameCommunities
    <3>2. {e \in edges' : Merging(e)'} = {e \in edges : Merging(e)}
      BY <2>3, SameCommunities
    <3>3. Tied(ends[1], ends[2]) => Tied(ends[1], ends[2])'
      BY <2>1, <3>1, <2>3, SameInput DEF Tied
    <3>. QED  BY <2>1, <2>2, <2>3, <2>4, <2>5, <3>2, <3>3 DEF MergingInv
  <2>7. phase = "regroup" => RegroupInv(root)'
    BY <2>1, <2>2, <2>3, <2>4, <2>5 DEF RegroupInv, Collected
  <2>8. phase = "done" => DoneInv(root)'
    BY <2>1, <2>2, <2>3, <2>4 DEF DoneInv, Collected
  <2>9. (phase = "find" => Finding)' /\ phase' \in {"find", "merge", "regroup", "done"}
    BY <2>1 DEF CInv, Finding
  <2>. QED  BY <2>1, <2>3, <2>6, <2>7, <2>8, <2>9 DEF CInv
<1>. QED  BY <1>1, <1>2, <1>3, <1>4, <1>5, <1>6, <1>7, <1>8, <1>9, Zenon DEF Next

\* The invariant holds in every state.
LEMMA Invariant == Spec => []CInv
BY Starts, Inductive, PTL DEF Spec

-----------------------------------------------------------------------------
(* What is returned.                                                       *)

LEMMA CorrectType ==
    ASSUME CInv
    PROVE  TypeOK
<1>1. /\ Found /\ InputType
      /\ phase \in {"find", "merge", "regroup", "done"}
  BY DEF CInv
<1>2. communities \in Seq((SUBSET visited) \ {{}})
  <2>1. communities \in Seq(SUBSET actionPids)
    BY <1>1 DEF Found
  <2>2. \A i \in 1..Len(communities) : communities[i] \in (SUBSET visited) \ {{}}
    BY <1>1 DEF Found, Communal, Indices
  <2>. QED  BY <2>1, <2>2
<1>3. Len(communities) \in Nat
  BY <1>2
<1>4. PICK root \in [Indices -> Indices] :
          /\ phase = "merge" => MergingInv(root)
          /\ phase = "regroup" => RegroupInv(root)
          /\ phase = "done" => DoneInv(root)
  BY DEF CInv
<1>5. ASSUME NEW g \in [Indices -> SUBSET actionPids]
      PROVE  g \in Seq(SUBSET actionPids)
  BY <1>3 DEF Indices
<1>6. Indices \subseteq 1..(Len(communities) + 1)
  BY <1>3 DEF Indices
<1>7. CASE phase = "find"
  <2>1. Finding
    BY <1>7 DEF CInv
  <2>2. 1 \in 1..(Len(communities) + 1)
    BY <1>3
  <2>. QED  BY <1>1, <1>2, <2>1, <2>2 DEF Finding, TypeOK, Found, InputType
<1>8. CASE phase = "merge"
  <2>1. MergingInv(root)
    BY <1>4, <1>8
  <2>2. 1 \in 1..(Len(communities) + 1)
    BY <1>3
  <2>3. groups \in Seq(SUBSET actionPids)
    <3>1. groups \in [Indices -> SUBSET actionPids]
      BY <2>1 DEF MergingInv
    <3>. QED  BY <1>5, <3>1
  <2>4. Len(ends) <= 2 /\ \A k \in DOMAIN ends : ends[k] \in Indices
    <3>1. CASE ends = << >>
      BY <3>1
    <3>2. CASE ends \in Indices \X Indices
      <4>1. PICK x \in Indices, y \in Indices : ends = <<x, y>>
        BY <3>2
      <4>. QED  BY <4>1
    <3>. QED  BY <2>1, <3>1, <3>2 DEF MergingInv
  <2>. QED  BY <1>1, <1>2, <2>1, <2>2, <2>3, <2>4 DEF MergingInv, TypeOK, Found, InputType
<1>9. CASE phase = "regroup"
  <2>1. RegroupInv(root)
    BY <1>4, <1>9
  <2>2. groups \in Seq(SUBSET actionPids)
    BY <1>5, <2>1 DEF RegroupInv, Collected
  <2>3. Len(ends) <= 2 /\ \A k \in DOMAIN ends : ends[k] \in Indices
    BY <2>1 DEF RegroupInv
  <2>. QED  BY <1>1, <1>2, <1>6, <2>1, <2>2, <2>3 DEF RegroupInv, TypeOK, Found, InputType
<1>10. CASE phase = "done"
  <2>1. DoneInv(root)
    BY <1>4, <1>10
  <2>2. groups \in Seq(SUBSET actionPids)
    BY <1>5, <2>1 DEF DoneInv, Collected
  <2>. QED  BY <1>1, <1>2, <2>1, <2>2 DEF DoneInv, TypeOK, Found, InputType
<1>. QED  BY <1>1, <1>7, <1>8, <1>9, <1>10

\* Every variable of the call has its type.
THEOREM TypeCorrect == Spec => []TypeOK
BY Invariant, CorrectType, PTL

\* When the call returns, a group holds the communities below its root.
LEMMA GroupMembers ==
    ASSUME Found, Everyone, NEW root \in [Indices -> Indices],
           Collected(root, Len(communities)),
           NEW i \in Indices, NEW p \in actionPids
    PROVE  p \in groups[i] <=> root[CommunityOf(p)] = i
<1>1. /\ CommunityOf(p) \in Indices /\ p \in communities[CommunityOf(p)]
      /\ \A j \in Indices : p \in communities[j] => j = CommunityOf(p)
  BY CommunityOfType
<1>2. groups[i] = UNION {communities[j] : j \in {j \in Indices : root[j] = i}}
  BY DEF Collected, Indices
<1>. QED  BY <1>1, <1>2

\* No tie leads out of a group.
LEMMA GroupJoined ==
    ASSUME Found, Everyone, NEW root \in [Indices -> Indices], DoneInv(root), NEW i \in Indices
    PROVE  Joined(groups[i])
<1>. SUFFICES ASSUME NEW e \in edges, Ties(e)
              PROVE  e.source \in groups[i] <=> e.target \in groups[i]
  BY DEF Joined
<1>. DEFINE c == CommunityOf(e.source)
            d == CommunityOf(e.target)
<1>1. e.source \in actionPids /\ e.target \in actionPids
  BY DEF Ties
<1>2. /\ c \in Indices /\ d \in Indices /\ e.source \in communities[c]
      /\ \A j \in Indices : e.target \in communities[j] => j = d
  BY <1>1, CommunityOfType
<1>3. root[c] = root[d]
  <2>1. CASE e.fork
    <3>1. ForkEdge(e)
      BY <1>1, <2>1 DEF Ties, ForkEdge
    <3>2. e.target \in communities[c]
      BY <1>2, <3>1 DEF Found, Communal, ForkJoined
    <3>. QED  BY <1>2, <3>2
  <2>2. CASE ~e.fork /\ c # d
    <3>1. Merging(e)
      BY <1>1, <2>2 DEF Ties, Merging
    <3>2. Unions(root) /\ merges = {} /\ Len(ends) = 0
      BY DEF DoneInv
    <3>. QED  BY <3>1, <3>2 DEF Unions
  <2>. QED  BY <2>1, <2>2
<1>4. Collected(root, Len(communities))
  BY DEF DoneInv
<1>. QED  BY <1>1, <1>3, <1>4, GroupMembers

\* What has a process of a group, and no tie out of it, has the group.
LEMMA GroupLeast ==
    ASSUME Found, Everyone, NEW root \in [Indices -> Indices], DoneInv(root), NEW i \in Indices,
           NEW S \in SUBSET actionPids, Joined(S),
           NEW p \in actionPids, p \in S, p \in groups[i],
           NEW q \in actionPids, q \in groups[i]
    PROVE  q \in S
<1>1. Collected(root, Len(communities)) /\ Unions(root)
  BY DEF DoneInv
<1>2. root[CommunityOf(p)] = i /\ root[CommunityOf(q)] = i
  BY <1>1, GroupMembers
<1>3. /\ CommunityOf(p) \in Indices /\ p \in communities[CommunityOf(p)]
      /\ CommunityOf(q) \in Indices /\ q \in communities[CommunityOf(q)]
  BY CommunityOfType
<1>4. Tied(CommunityOf(p), i) /\ Tied(CommunityOf(q), i)
  BY <1>1, <1>2, <1>3 DEF Unions
<1>5. communities[CommunityOf(p)] \subseteq S
  <2>1. Whole(communities[CommunityOf(p)])
    BY <1>3 DEF Found, Communal
  <2>. QED  BY <1>3, <2>1, JoinedForks DEF Whole
<1>6. communities[CommunityOf(q)] \subseteq S
  BY <1>4, <1>5 DEF Tied
<1>. QED  BY <1>3, <1>6

LEMMA GroupIsClass ==
    ASSUME Found, Everyone, NEW root \in [Indices -> Indices], DoneInv(root), NEW i \in Indices,
           NEW p \in actionPids, p \in groups[i]
    PROVE  groups[i] = ClassOf(p)
<1>1. groups[i] \subseteq actionPids
  BY DEF DoneInv, Collected
<1>. DEFINE closed == {S \in SUBSET actionPids :
                          p \in S /\ \A e \in {e \in edges : Ties(e)} :
                                        e.source \in S <=> e.target \in S}
<1>2. closed = {S \in SUBSET actionPids : p \in S /\ Joined(S)}
  BY DEF Joined
<1>3. groups[i] \in closed
  BY <1>1, <1>2, GroupJoined
<1>4. \A S \in closed : groups[i] \subseteq S
  BY <1>1, <1>2, GroupLeast
<1>5. ClassOf(p) = {q \in actionPids : \A S \in closed : q \in S}
  BY DEF ClassOf
<1>. HIDE DEF closed
<1>. QED  BY <1>1, <1>3, <1>4, <1>5

LEMMA Merged ==
    ASSUME CInv
    PROVE  MergedByBusyEdges
<1>. SUFFICES ASSUME phase = "done"
              PROVE  ({groups[i] : i \in DOMAIN groups} \ {{}}) = {ClassOf(p) : p \in actionPids}
  BY DEF MergedByBusyEdges
<1>1. PICK root \in [Indices -> Indices] : DoneInv(root)
  BY DEF CInv
<1>2. /\ Found /\ Everyone /\ Collected(root, Len(communities)) /\ DOMAIN groups = Indices
      /\ \A i \in Indices : groups[i] \subseteq actionPids
  BY <1>1 DEF CInv, DoneInv, Collected
<1>3. ASSUME NEW i \in Indices, groups[i] # {}
      PROVE  \E p \in actionPids : groups[i] = ClassOf(p)
  <2>1. PICK p \in actionPids : p \in groups[i]
    BY <1>2, <1>3
  <2>. QED  BY <1>1, <1>2, <2>1, GroupIsClass
<1>4. ASSUME NEW p \in actionPids
      PROVE  \E i \in Indices : groups[i] = ClassOf(p) /\ groups[i] # {}
  <2>1. PICK i \in Indices : p \in groups[i]
    BY <1>2, CommunityOfType, GroupMembers
  <2>. QED  BY <1>1, <1>2, <2>1, GroupIsClass
<1>. QED  BY <1>2, <1>3, <1>4

\* Whatever the order in which names, processes and edges are taken,
\* detect_communities returns the classes that fork edges between processes of
\* a name and busy edges generate, and nothing else.
THEOREM ClassesReturned == Spec => []MergedByBusyEdges
BY Invariant, Merged, PTL

-----------------------------------------------------------------------------
(* find_root has a root to find.  A root for each index is not enough: the *)
(* map root of CInv would allow a cycle of parents below it.                *)

\* A root put below another tree's root makes no cycle: a set that is closed
\* with the one has the other in it.
LEMMA UnionKeepsRoots ==
    ASSUME CInv, TreesHaveRoots, Union
    PROVE  TreesHaveRoots'
<1>1. PICK root \in [Indices -> Indices] : MergingInv(root)
  BY DEF CInv, Union
<1>2. PICK x \in Indices, y \in Indices : ends = <<x, y>>
  <2>1. ends # << >>
    BY DEF Union
  <2>. QED  BY <1>1, <2>1 DEF MergingInv
<1>3. /\ parent \in [Indices -> Indices] /\ Indices' = Indices /\ parent # << >>
      /\ parent[x] = x /\ parent[y] = y
      /\ parent' = IF x # y THEN [parent EXCEPT ![y] = x] ELSE parent
  BY <1>1, <1>2 DEF MergingInv, AtRoot, Union, Linked, Indices
<1>4. SUFFICES ASSUME NEW S \in SUBSET Indices, S # {}, \A i \in S : parent'[i] \in S
               PROVE  \E i \in S : parent'[i] = i
  BY <1>3 DEF TreesHaveRoots
<1>5. CASE y \in S /\ x # y
  <2>1. x \in S /\ parent'[x] = x
    BY <1>3, <1>4, <1>5
  <2>. QED  BY <2>1
<1>6. CASE y \notin S \/ x = y
  <2>1. \A i \in S : parent'[i] = parent[i]
    BY <1>3, <1>6
  <2>2. \E i \in S : parent[i] = i
    BY <1>3, <1>4, <2>1 DEF TreesHaveRoots
  <2>. QED  BY <2>1, <2>2
<1>. QED  BY <1>5, <1>6

LEMMA RootsStay ==
    ASSUME CInv, TreesHaveRoots, [Next]_vars
    PROVE  TreesHaveRoots'
<1>1. CASE \E p \in Pids : StartComponent(p) \/ Visit(p)
  <2>1. parent' = << >>
    BY <1>1 DEF StartComponent, Visit, CInv, Finding
  <2>. QED  BY <2>1 DEF TreesHaveRoots
<1>2. CASE EndComponent
  <2>1. parent' = << >>
    BY <1>2 DEF EndComponent, CInv, Finding
  <2>. QED  BY <2>1 DEF TreesHaveRoots
<1>3. CASE CollectMerges
  <2>1. Indices' = Indices
    BY <1>3 DEF CollectMerges, Indices
  <2>2. parent' = << >> \/ parent' = [i \in Indices |-> i]
    BY <1>3 DEF CollectMerges, CInv, Finding
  <2>. QED  BY <2>1, <2>2 DEF TreesHaveRoots
<1>4. CASE \/ \E e \in merges : TakeMerge(e)
           \/ \E k \in 1..2 : Climb(k)
           \/ EndMerges \/ Regroup \/ UNCHANGED vars
  <2>1. parent' = parent /\ communities' = communities
    BY <1>4 DEF TakeMerge, Climb, EndMerges, Regroup, vars, search
  <2>2. Indices' = Indices
    BY <2>1 DEF Indices
  <2>. QED  BY <2>1, <2>2 DEF TreesHaveRoots
<1>5. CASE Union
  BY <1>5, UnionKeepsRoots
<1>. QED  BY <1>1, <1>2, <1>3, <1>4, <1>5, Zenon DEF Next

\* Whatever the merges and their order, the trees of the union-find have no
\* cycle: every set of communities that parent does not lead out of has a root.
THEOREM RootsExist == Spec => []TreesHaveRoots
<1>1. Init => TreesHaveRoots
  BY DEF Init, Start, TreesHaveRoots
<1>. QED  BY <1>1, Invariant, RootsStay, PTL DEF Spec
=============================================================================
