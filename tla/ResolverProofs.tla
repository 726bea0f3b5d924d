--------------------------- MODULE ResolverProofs ---------------------------
(***************************************************************************)
(* Proofs about Resolver, for any number of processes and containers, any  *)
(* depth of the walk, and any number of pids that are reused.              *)
(***************************************************************************)
EXTENDS Resolver, WellFoundedInduction, TLAPS

-----------------------------------------------------------------------------
(* Helpers.                                                                *)

\* A set of natural numbers that is not empty has a least element.
LEMMA LeastNat ==
    ASSUME NEW T \in SUBSET Nat, T # {}
    PROVE  \E x \in T : \A y \in T : x <= y
<1>1. \E x \in T : \A y \in T : ~ (<<y, x>> \in OpToRel(<, Nat))
  BY WFMin, NatLessThanWellFounded, Zenon
<1>2. PICK x \in T : \A y \in T : ~ (<<y, x>> \in OpToRel(<, Nat))
  BY <1>1
<1>3. \A y \in T : <<y, x>> \in OpToRel(<, Nat) <=> y < x
  BY Zenon DEF OpToRel
<1>4. \A y \in T : ~(y < x)
  BY <1>2, <1>3, Zenon
<1>. QED  BY <1>4

\* The first of the steps that find a container.
LEMMA FirstOfFinds ==
    ASSUME NEW T \in SUBSET Nat, T # {}
    PROVE  FirstOf(T) \in T /\ \A j \in T : FirstOf(T) <= j
BY LeastNat, Zenon DEF FirstOf

\* A fact that holds at n, and at i - 1 wherever it holds at i, holds
\* from 1 on.
LEMMA Downwards ==
    ASSUME NEW n \in Nat \ {0}, NEW T \in SUBSET Nat, n \in T,
           \A i \in 2..n : i \in T => i - 1 \in T
    PROVE  \A i \in 1..n : i \in T
<1>. SUFFICES ASSUME NEW m \in 1..n, m \notin T PROVE FALSE
  OBVIOUS
<1>. DEFINE Missing == {k \in Nat : k < n /\ n - k \notin T}
<1>1. n - m \in Missing
  OBVIOUS
<1>2. PICK k \in Missing : \A j \in Missing : k <= j
  BY <1>1, LeastNat
<1>3. k \in Nat /\ k < n /\ n - k \notin T /\ k # 0
  BY <1>2
<1>4. k - 1 \in Nat /\ k - 1 \notin Missing
  BY <1>2, <1>3
<1>5. n - (k - 1) \in T
  BY <1>3, <1>4
<1>6. n - (k - 1) \in 2..n /\ (n - (k - 1)) - 1 = n - k
  BY <1>3
<1>. QED  BY <1>3, <1>5, <1>6

\* The elements of a sequence with one more, and with one less.
LEMMA Appended ==
    ASSUME NEW S, NEW s \in Seq(S), NEW x \in S
    PROVE  /\ Append(s, x) \in Seq(S)
           /\ \A i \in DOMAIN Append(s, x) :
                 \/ Append(s, x)[i] = x
                 \/ i \in DOMAIN s /\ Append(s, x)[i] = s[i]
OBVIOUS

LEMMA FirstElement ==
    ASSUME NEW S, NEW s \in Seq(S), s # << >>
    PROVE  /\ Head(s) \in S /\ Head(s) = s[1] /\ 1 \in DOMAIN s
           /\ Tail(s) \in Seq(S)
           /\ \A i \in DOMAIN Tail(s) : i + 1 \in DOMAIN s /\ Tail(s)[i] = s[i + 1]
OBVIOUS

-----------------------------------------------------------------------------
(* Types.                                                                  *)

Item == [group : Group, eager : Containers \cup {Unknown}, same : BOOLEAN]

LEMMA CgroupType ==
    ASSUME NEW p \in Pids, Cgroup(p) # Unknown
    PROVE  Cgroup(p) \in Containers /\ Cgroup(p) = box[p] /\ Alive(p)
BY ResolverAssumption DEF Cgroup, Alive

LEMMA TypeInit == Init => TypeOK
<1>. SUFFICES ASSUME Init PROVE TypeOK
  OBVIOUS
<1>1. /\ box \in [Pids -> Containers \cup {Host, Gone}]
      /\ up \in [Pids -> Pids \cup {InitPid}] /\ lives \in [Pids -> Nat \ {0}]
  BY DEF Init
<1>2. socket \in Seq(Group) /\ batch \in Seq(Item) /\ phase = "drain"
  BY DEF Init
<1>3. /\ pidCache \in [Pids -> Containers \cup {Unknown}]
      /\ ppidCache \in [Pids -> Pids \cup {0, InitPid}]
      /\ emitted \in Nat /\ doubtful \subseteq Pids
  BY DEF Init
<1>4. last \in [truth : Containers \cup {Unknown}, found : Containers \cup {Unknown},
                doubt : BOOLEAN]
  BY DEF Init, NoGroup
<1>. QED  BY <1>1, <1>2, <1>3, <1>4 DEF TypeOK, Item

Last == [truth : Containers \cup {Unknown}, found : Containers \cup {Unknown},
         doubt : BOOLEAN]

LEMMA NoGroupType == NoGroup \in Last
BY DEF NoGroup, Last

\* The group being handled, and what the walk makes of the caches.
LEMMA HeadType ==
    ASSUME TypeOK, phase = "process"
    PROVE  /\ batch # << >> /\ batch \in Seq(Item)
           /\ Head(batch) \in Item /\ Head(batch).group \in Group
           /\ Head(batch).group.pid \in Pids
           /\ Head(batch).group.ppid \in Pids \cup {InitPid}
           /\ Head(batch).group.truth \in Containers
           /\ Head(batch).eager \in Containers \cup {Unknown}
           /\ Head(batch).same \in BOOLEAN
           /\ Head(batch).group.ppid > 0
<1>1. batch # << >> /\ batch \in Seq(Item)
  BY DEF TypeOK, Item
<1>2. Head(batch) \in Item
  BY <1>1
<1>3. /\ Head(batch).group \in Group /\ Head(batch).same \in BOOLEAN
      /\ Head(batch).eager \in Containers \cup {Unknown}
  BY <1>2 DEF Item
<1>4. /\ Head(batch).group.pid \in Pids
      /\ Head(batch).group.ppid \in Pids \cup {InitPid}
      /\ Head(batch).group.truth \in Containers
  BY <1>3 DEF Group
<1>5. ASSUME NEW x \in Pids \cup {InitPid} PROVE x > 0
  <2>1. x \in Nat /\ x # 0
    BY ResolverAssumption DEF InitPid
  <2>. QED  BY <2>1
<1>. QED  BY <1>1, <1>2, <1>3, <1>4, <1>5

LEMMA LookupType ==
    ASSUME TypeOK, NEW q \in Pids, NEW readable, Lookup(q, readable) # Unknown
    PROVE  /\ Lookup(q, readable) \in Containers
           /\ pidCache[q] = Unknown =>
                 Alive(q) /\ Lookup(q, readable) = box[q]
BY CgroupType DEF TypeOK, Lookup, Proc

\* What a step of resolution does to the cache of containers and the history.
Outcome(g) ==
    \/ UNCHANGED <<pidCache, doubtful>>
       /\ \E f \in Containers \cup {Unknown}, d \in BOOLEAN :
             last' = [truth |-> g.truth, found |-> f, doubt |-> d]
    \/ \E q \in Pids, f \in Containers, d \in BOOLEAN :
          /\ pidCache' = [pidCache EXCEPT ![q] = f, ![g.pid] = f]
          /\ Resolved(g, f, d)

LEMMA HandleOutcome ==
    ASSUME TypeOK, Handle
    PROVE  Outcome(Head(batch).group)
<1>. DEFINE item == Head(batch)
            g == item.group
<1>1. /\ phase = "process" /\ item \in Item /\ g.pid \in Pids
      /\ item.eager \in Containers \cup {Unknown} /\ item.same \in BOOLEAN
  BY HeadType DEF Handle
<1>2. \A f : [pidCache EXCEPT ![g.pid] = f] = [pidCache EXCEPT ![g.pid] = f, ![g.pid] = f]
  BY <1>1 DEF TypeOK
<1>3. ASSUME NEW f \in Containers, NEW d \in BOOLEAN,
             pidCache' = [pidCache EXCEPT ![g.pid] = f], Resolved(g, f, d)
      PROVE  Outcome(g)
  BY <1>1, <1>2, <1>3 DEF Outcome
<1>4. CASE UseEager(item)
  <2>1. (~item.same) \in BOOLEAN
    OBVIOUS
  <2>. QED  BY <1>1, <1>3, <1>4, <2>1, Zenon DEF UseEager
<1>5. CASE UseCache(g)
  <2>1. (g.pid \in doubtful \/ lives[g.pid] # g.life) \in BOOLEAN
    OBVIOUS
  <2>2. pidCache[g.pid] \in Containers
    BY <1>1, <1>5 DEF UseCache, TypeOK
  <2>. QED  BY <1>5, <2>1, <2>2, Zenon DEF UseCache, Outcome
<1>6. ASSUME NEW readable, UseProc(g, readable)
      PROVE  Outcome(g)
  <2>1. Cgroup(g.pid) \in Containers
    BY <1>1, <1>6, CgroupType DEF UseProc, Proc
  <2>2. (lives[g.pid] # g.life) \in BOOLEAN
    OBVIOUS
  <2>. QED  BY <1>3, <1>6, <2>1, <2>2, Zenon DEF UseProc
<1>7. ASSUME NEW readable, NEW walk \in Walks(g, readable), UseAncestor(g, walk, readable)
      PROVE  Outcome(g)
  <2>. DEFINE finds == Finds(walk, readable)
              i == FirstOf(finds)
              found == Lookup(walk[i], readable)
              d == \/ \E q \in Visited(walk, i) : lives[q] > 1
                   \/ walk[i] \in doubtful
  <2>1. finds \in SUBSET Nat /\ finds # {}
    BY <1>7, ResolverAssumption DEF Walks, UseAncestor, Finds
  <2>2. i \in finds
    BY <2>1, FirstOfFinds
  <2>3. walk[i] \in Pids /\ found # Unknown
    BY <2>2 DEF Finds
  <2>4. found \in Containers /\ d \in BOOLEAN
    BY <2>3, LookupType
  <2>5. /\ pidCache' = [pidCache EXCEPT ![walk[i]] = found, ![g.pid] = found]
        /\ Resolved(g, found, d)
    BY <1>7, Zenon DEF UseAncestor
  <2>. HIDE DEF found, d, i
  <2>. QED  BY <2>3, <2>4, <2>5, Zenon DEF Outcome
<1>8. CASE UseOnlyContainer(g)
  <2>1. TRUE \in BOOLEAN
    OBVIOUS
  <2>. QED  BY <1>3, <1>8, <2>1, Zenon DEF UseOnlyContainer
<1>9. CASE UseScan(g)
  <2>1. Cgroup(g.pid) \in Containers
    BY <1>1, <1>9, CgroupType DEF UseScan
  <2>2. (lives[g.pid] # g.life) \in BOOLEAN
    OBVIOUS
  <2>. QED  BY <1>3, <1>9, <2>1, <2>2, Zenon DEF UseScan
<1>10. CASE Skip(g)
  BY <1>10 DEF Skip, Outcome
<1>. HIDE DEF item, g
<1>. QED
  BY <1>4, <1>5, <1>6, <1>7, <1>8, <1>9, <1>10 DEF Handle, WalkUp, item, g

LEMMA TypeHandle ==
    ASSUME TypeOK, Handle
    PROVE  TypeOK'
<1>. DEFINE g == Head(batch).group
<1>1. /\ phase = "process" /\ batch # << >> /\ batch \in Seq(Item)
      /\ g.pid \in Pids /\ g.ppid \in Pids \cup {InitPid} /\ g.truth \in Containers
  BY HeadType DEF Handle
<1>2. ppidCache' \in [Pids -> Pids \cup {0, InitPid}]
  BY <1>1 DEF TypeOK, Handle
<1>3. Outcome(g)
  BY HandleOutcome
<1>4. /\ pidCache' \in [Pids -> Containers \cup {Unknown}]
      /\ doubtful' \subseteq Pids /\ last' \in Last
  <2>1. ASSUME NEW f \in Containers \cup {Unknown}, NEW d \in BOOLEAN
        PROVE  [truth |-> g.truth, found |-> f, doubt |-> d] \in Last
    BY <1>1 DEF Last
  <2>2. CASE UNCHANGED <<pidCache, doubtful>>
             /\ \E f \in Containers \cup {Unknown}, d \in BOOLEAN :
                   last' = [truth |-> g.truth, found |-> f, doubt |-> d]
    <3>1. last' \in Last
      BY <2>1, <2>2
    <3>. QED  BY <2>2, <3>1 DEF TypeOK
  <2>3. ASSUME NEW q \in Pids, NEW f \in Containers, NEW d \in BOOLEAN,
               pidCache' = [pidCache EXCEPT ![q] = f, ![g.pid] = f],
               Resolved(g, f, d)
        PROVE  /\ pidCache' \in [Pids -> Containers \cup {Unknown}]
               /\ doubtful' \subseteq Pids /\ last' \in Last
    <3>1. pidCache' \in [Pids -> Containers \cup {Unknown}]
      BY <1>1, <2>3 DEF TypeOK
    <3>2. doubtful' \subseteq Pids
      BY <1>1, <2>3 DEF TypeOK, Resolved
    <3>3. last' \in Last
      BY <2>1, <2>3 DEF Resolved
    <3>. QED  BY <3>1, <3>2, <3>3
  <2>. HIDE DEF g
  <2>. QED  BY <1>3, <2>2, <2>3 DEF Outcome
<1>5. /\ batch' \in Seq(Item) /\ phase' \in {"drain", "process", "ended"}
      /\ phase' = "process" => batch' # << >>
  <2>1. batch' = Tail(batch)
    BY DEF Handle
  <2>2. phase' = IF Len(batch) = 1 THEN "drain" ELSE "process"
    BY DEF Handle
  <2>3. Len(batch) # 1 => Tail(batch) # << >>
    <3>1. Len(batch) \in Nat \ {0} /\ Len(Tail(batch)) = Len(batch) - 1
      BY <1>1
    <3>2. Tail(batch) = << >> => Len(Tail(batch)) = 0
      OBVIOUS
    <3>. QED  BY <3>1, <3>2
  <2>4. Tail(batch) \in Seq(Item)
    BY <1>1
  <2>. QED  BY <2>1, <2>2, <2>3, <2>4
<1>6. UNCHANGED <<box, up, lives, socket, emitted>>
  BY DEF Handle, world
<1>. QED  BY <1>2, <1>4, <1>5, <1>6 DEF TypeOK, Item, Last

LEMMA TypeNext == TypeOK /\ [Next]_vars => TypeOK'
<1>. SUFFICES ASSUME TypeOK, [Next]_vars PROVE TypeOK'
  OBVIOUS
<1>. USE NoGroupType
<1>1. ASSUME NEW p \in Pids, Exit(p) PROVE TypeOK'
  BY <1>1 DEF Exit, TypeOK, Last, caches
<1>2. ASSUME NEW p \in Pids, Start(p) PROVE TypeOK'
  <2>1. PICK parent \in {q \in Pids : Alive(q)} \cup {InitPid} :
           /\ up' = [up EXCEPT ![p] = parent]
           /\ \E c \in Places(box, parent) : box' = [box EXCEPT ![p] = c]
    BY <1>2 DEF Start
  <2>2. Places(box, parent) \subseteq Containers \cup {Host}
    BY DEF Places
  <2>3. up' \in [Pids -> Pids \cup {InitPid}]
    BY <2>1 DEF TypeOK
  <2>4. box' \in [Pids -> Containers \cup {Host, Gone}]
    BY <2>1, <2>2 DEF TypeOK
  <2>5. lives' \in [Pids -> Nat \ {0}]
    BY <1>2 DEF Start, TypeOK
  <2>6. doubtful' \subseteq Pids
    BY <1>2 DEF Start, TypeOK
  <2>. QED  BY <1>2, <2>3, <2>4, <2>5, <2>6 DEF Start, TypeOK, Last, caches
<1>3. ASSUME NEW p \in Pids, SystemCall(p) PROVE TypeOK'
  <2>1. [pid |-> p, ppid |-> up[p], truth |-> box[p], life |-> lives[p]] \in Group
    BY <1>3 DEF SystemCall, TypeOK, Group
  <2>. QED  BY <1>3, <2>1 DEF SystemCall, TypeOK, Last, caches, world
<1>4. CASE Receive
  <2>1. socket # << >> /\ socket \in Seq(Group) /\ Head(socket) \in Group
    BY <1>4 DEF Receive, TypeOK
  <2>2. Head(socket).pid \in Pids
    BY <2>1 DEF Group
  <2>3. PICK eager \in {Unknown, Cgroup(Head(socket).pid)} :
           batch' = Append(batch, [group |-> Head(socket), eager |-> eager,
                                   same |-> lives[Head(socket).pid] = Head(socket).life])
    BY <1>4 DEF Receive
  <2>4. eager \in Containers \cup {Unknown}
    BY <2>2, <2>3, CgroupType
  <2>5. (lives[Head(socket).pid] = Head(socket).life) \in BOOLEAN
    OBVIOUS
  <2>6. [group |-> Head(socket), eager |-> eager,
         same |-> lives[Head(socket).pid] = Head(socket).life] \in Item
    BY <2>1, <2>4, <2>5 DEF Item
  <2>. DEFINE item == [group |-> Head(socket), eager |-> eager,
                       same |-> lives[Head(socket).pid] = Head(socket).life]
  <2>7. socket' = Tail(socket) /\ batch \in Seq(Item) /\ batch' = Append(batch, item)
    BY <1>4, <2>3 DEF Receive, TypeOK, Item
  <2>8. item \in Item
    BY <2>6
  <2>. HIDE DEF item
  <2>9. batch' \in Seq(Item) /\ batch' # << >> /\ socket' \in Seq(Group)
    BY <2>1, <2>7, <2>8
  <2>. QED  BY <1>4, <2>9 DEF Receive, TypeOK, Last, caches, world, Item
<1>5. CASE WouldBlock
  BY <1>5 DEF WouldBlock, TypeOK, Last, caches, world
<1>6. CASE ReceiveError
  BY <1>6 DEF ReceiveError, TypeOK, Last, caches, world
<1>7. CASE Handle
  BY <1>7, TypeHandle
<1>8. CASE UNCHANGED vars
  BY <1>8 DEF vars, world, caches, TypeOK
<1>. QED  BY <1>1, <1>2, <1>3, <1>4, <1>5, <1>6, <1>7, <1>8 DEF Next

\* Every reachable state has its type.
THEOREM TypeCorrect == Spec => []TypeOK
<1>. QED  BY TypeInit, TypeNext, PTL DEF Spec

-----------------------------------------------------------------------------
(* No group of a known family is skipped.                                  *)

LEMMA FamilyNext ==
    ASSUME TypeOK, [Next]_vars, phase = "process", batch' # batch,
           last'.found = Unknown
    PROVE  \A q \in {Head(batch).group.pid, Head(batch).group.ppid} \cap Pids :
              pidCache[q] = Unknown
<1>. DEFINE item == Head(batch)
            g == item.group
<1>1. Handle
  BY DEF Next, Exit, Start, SystemCall, Receive, WouldBlock, ReceiveError, vars
<1>2. /\ g.pid \in Pids /\ g.ppid > 0
      /\ item.eager \in Containers \cup {Unknown}
  BY HeadType
<1>3. Unknown \notin Containers
  BY ResolverAssumption
<1>4. ~UseEager(item) /\ ~UseCache(g) /\ \A readable : ~UseProc(g, readable)
  <2>1. ASSUME UseEager(item) PROVE FALSE
    BY <2>1 DEF UseEager, Resolved
  <2>2. ASSUME UseCache(g) PROVE FALSE
    BY <2>2 DEF UseCache
  <2>3. ASSUME NEW readable, UseProc(g, readable) PROVE FALSE
    BY <1>2, <2>3 DEF UseProc, Resolved, Proc
  <2>. QED  BY <2>1, <2>2, <2>3
<1>5. pidCache[g.pid] = Unknown
  BY <1>1, <1>4 DEF Handle
<1>6. PICK readable \in SUBSET {p \in Pids : Alive(p)} : WalkUp(g, readable)
  BY <1>1, <1>4 DEF Handle
<1>7. PICK walk \in Walks(g, readable) :
         \/ UseAncestor(g, walk, readable)
         \/ Finds(walk, readable) = {}
  BY <1>6 DEF WalkUp
<1>8. ~UseAncestor(g, walk, readable)
  <2>. SUFFICES ASSUME UseAncestor(g, walk, readable) PROVE FALSE
    OBVIOUS
  <2>. DEFINE i == FirstOf(Finds(walk, readable))
  <2>1. Finds(walk, readable) \in SUBSET Nat /\ Finds(walk, readable) # {}
    BY ResolverAssumption DEF Walks, UseAncestor, Finds
  <2>2. i \in Finds(walk, readable)
    BY <2>1, FirstOfFinds
  <2>3. Lookup(walk[i], readable) # Unknown
    BY <2>2 DEF Finds
  <2>4. last'.found = Lookup(walk[i], readable)
    BY DEF UseAncestor, Resolved
  <2>. QED  BY <2>3, <2>4
<1>9. walk[1] = g.ppid /\ 1 \in DOMAIN walk
  BY <1>2, ResolverAssumption DEF Walks
<1>10. g.ppid \in Pids => pidCache[g.ppid] = Unknown
  BY <1>7, <1>8, <1>9 DEF Finds, Lookup
<1>. QED  BY <1>5, <1>10

\* A group is skipped only if neither its process nor its parent is cached.
THEOREM KeptFamilies == Spec => FamilyIsKept
<1>1. TypeOK /\ [Next]_vars =>
         [LET g == Head(batch).group IN
          phase = "process" /\ batch' # batch /\ last'.found = Unknown
            => \A q \in {g.pid, g.ppid} \cap Pids : pidCache[q] = Unknown]_vars
  BY FamilyNext
<1>. QED  BY <1>1, TypeCorrect, PTL DEF Spec, FamilyIsKept

-----------------------------------------------------------------------------
(* Whose event it is.  `home` is the place of the last process of each pid, *)
(* whether it is there any more or not.  A process has the container of    *)
(* its parent, if that is in one, for as long as neither pid is reused.    *)

Inherits(place, parents) == parents \in Containers => place = parents

GroupKin(g, home) ==
    /\ g.life <= lives[g.pid]
    /\ g.life = lives[g.pid] => g.truth = home[g.pid]
    /\ g.ppid \in Pids /\ lives[g.ppid] = 1 => Inherits(g.truth, home[g.ppid])

CachedKin(table, home) ==
    \A p \in Pids :
        table[p] \in Pids /\ lives[p] = 1 /\ lives[table[p]] = 1
            => Inherits(home[p], home[table[p]])

Kin(home) ==
    /\ \A p \in Pids : Alive(p) => box[p] = home[p]
    /\ \A p \in Pids :
          Alive(p) /\ up[p] \in Pids /\ lives[up[p]] = 1
              => Inherits(home[p], home[up[p]])
    /\ CachedKin(ppidCache, home)
    /\ \A p \in Pids \ doubtful : pidCache[p] # Unknown => pidCache[p] = home[p]
    /\ \A i \in DOMAIN socket : GroupKin(socket[i], home)
    /\ \A i \in DOMAIN batch :
          /\ GroupKin(batch[i].group, home)
          /\ batch[i].eager # Unknown /\ batch[i].same
                => batch[i].eager = batch[i].group.truth

LastRight == last.found \notin {last.truth, Unknown} => last.doubt

KinInv ==
    /\ TypeOK
    /\ LastRight
    /\ \E home \in [Pids -> Containers \cup {Host}] : Kin(home)

LEMMA KinInit == Init => KinInv
<1>. SUFFICES ASSUME Init PROVE KinInv
  OBVIOUS
<1>1. TypeOK
  BY TypeInit
<1>2. LastRight
  BY DEF Init, NoGroup, LastRight
<1>3. box \in [Pids -> Containers \cup {Host}]
  BY DEF Init
<1>4. Kin(box)
  <2>1. ASSUME NEW p \in Pids, up[p] \in Pids
        PROVE  Inherits(box[p], box[up[p]])
    BY <2>1 DEF Init, Places, Inherits
  <2>2. CachedKin(ppidCache, box)
    BY ResolverAssumption DEF Init, CachedKin
  <2>3. /\ DOMAIN socket = {} /\ DOMAIN batch = {}
        /\ \A p \in Pids : pidCache[p] = Unknown
    BY DEF Init
  <2>. QED  BY <2>1, <2>2, <2>3 DEF Kin
<1>. QED  BY <1>1, <1>2, <1>3, <1>4 DEF KinInv

\* What the walk finds without doubt is the container of the group.
LEMMA WalkRight ==
    ASSUME TypeOK, NEW home \in [Pids -> Containers \cup {Host}], Kin(home),
           NEW g \in Group, GroupKin(g, home), CachedKin(ppidCache', home),
           ppidCache' \in [Pids -> Pids \cup {0, InitPid}], g.ppid > 0,
           NEW readable, NEW walk \in Walks(g, readable),
           NEW i \in Finds(walk, readable),
           \A q \in Visited(walk, i) : ~(lives[q] > 1),
           walk[i] \notin doubtful
    PROVE  Lookup(walk[i], readable) = g.truth
<1>. DEFINE found == Lookup(walk[i], readable)
            T == {j \in 1..i : walk[j] \in Pids /\ home[walk[j]] = found}
<1>1. /\ i \in 1..MaxDepth /\ walk[i] \in Pids /\ found # Unknown
      /\ walk \in [1..MaxDepth -> Pids \cup {0, InitPid}]
      /\ walk[1] = g.ppid
      /\ \A j \in 2..MaxDepth :
            walk[j] = IF walk[j - 1] \in {0, InitPid} THEN 0
                      ELSE ParentOf(walk[j - 1], readable)
      /\ MaxDepth \in Nat \ {0}
  BY ResolverAssumption DEF Finds, Walks
<1>2. found \in Containers /\ found = home[walk[i]]
  <2>1. /\ found \in Containers
        /\ pidCache[walk[i]] = Unknown => Alive(walk[i]) /\ found = box[walk[i]]
    BY <1>1, LookupType
  <2>2. pidCache[walk[i]] # Unknown => found = pidCache[walk[i]]
    BY DEF Lookup
  <2>. QED  BY <1>1, <2>1, <2>2 DEF Kin
<1>. HIDE DEF found
<1>3. \A j \in 1..i : walk[j] \in Pids => lives[walk[j]] = 1
  <2>. SUFFICES ASSUME NEW j \in 1..i, walk[j] \in Pids PROVE lives[walk[j]] = 1
    OBVIOUS
  <2>1. ~(lives[walk[j]] > 1)
    BY DEF Visited
  <2>2. lives[walk[j]] \in Nat \ {0}
    BY DEF TypeOK
  <2>. QED  BY <2>1, <2>2
<1>4. i \in T
  BY <1>1, <1>2
<1>5. ASSUME NEW j \in 2..i, j \in T PROVE j - 1 \in T
  <2>1. j \in 2..MaxDepth /\ j - 1 \in 1..MaxDepth /\ j - 1 \in 1..i /\ j \in 1..i
    BY <1>1
  <2>2. walk[j] \in Pids /\ home[walk[j]] = found
    BY <1>5
  <2>3. 0 \notin Pids
    BY ResolverAssumption
  <2>4. walk[j - 1] \in Pids /\ walk[j] = ParentOf(walk[j - 1], readable)
    BY <1>1, <2>1, <2>2, <2>3
  <2>5. lives[walk[j]] = 1 /\ lives[walk[j - 1]] = 1
    BY <1>3, <2>1, <2>2, <2>4
  <2>6. Inherits(home[walk[j - 1]], home[walk[j]])
    <3>1. CASE ppidCache'[walk[j - 1]] # 0
      BY <2>2, <2>4, <2>5, <3>1 DEF ParentOf, CachedKin
    <3>2. CASE ppidCache'[walk[j - 1]] = 0
      BY <2>2, <2>3, <2>4, <2>5, <3>2 DEF ParentOf, Kin
    <3>. QED  BY <3>1, <3>2
  <2>. QED  BY <1>2, <2>1, <2>2, <2>4, <2>6 DEF Inherits
<1>6. \A j \in 1..i : j \in T
  <2>1. i \in Nat \ {0} /\ T \in SUBSET Nat
    BY <1>1
  <2>. HIDE DEF T
  <2>. QED  BY <1>4, <1>5, <2>1, Downwards
<1>7. walk[1] \in Pids /\ home[walk[1]] = found /\ lives[walk[1]] = 1
  BY <1>1, <1>3, <1>6
<1>. QED  BY <1>1, <1>2, <1>7 DEF GroupKin, Inherits, found

\* What a handled group leaves behind: a result that is right or in doubt, and
\* in the caches nothing wrong that is not in doubt.
LEMMA HandleRight ==
    ASSUME TypeOK, NEW home \in [Pids -> Containers \cup {Host}], Kin(home),
           Handle
    PROVE  /\ LastRight'
           /\ CachedKin(ppidCache', home)
           /\ \A p \in Pids \ doubtful' :
                 pidCache'[p] # Unknown => pidCache'[p] = home[p]
<1>. DEFINE item == Head(batch)
            g == item.group
<1>1. /\ g \in Group /\ g.pid \in Pids /\ g.ppid > 0
      /\ g.ppid \in Pids \cup {InitPid} /\ batch # << >>
      /\ item.eager \in Containers \cup {Unknown} /\ item.same \in BOOLEAN
  BY HeadType DEF Handle
<1>2. /\ GroupKin(g, home)
      /\ item.eager # Unknown /\ item.same => item.eager = g.truth
  <2>1. 1 \in DOMAIN batch /\ Head(batch) = batch[1]
    BY <1>1, HeadType DEF Handle
  <2>. QED  BY <2>1 DEF Kin
<1>3. ppidCache' = [ppidCache EXCEPT ![g.pid] = g.ppid]
  BY <1>1 DEF Handle
<1>4. g.life \in Nat \ {0} /\ lives \in [Pids -> Nat \ {0}]
  BY <1>1 DEF Group, TypeOK
<1>5. CachedKin(ppidCache', home)
  <2>1. ASSUME lives[g.pid] = 1 PROVE g.truth = home[g.pid]
    BY <1>1, <1>2, <1>4, <2>1 DEF GroupKin
  <2>2. ASSUME g.ppid \in Pids, lives[g.pid] = 1, lives[g.ppid] = 1
        PROVE  Inherits(home[g.pid], home[g.ppid])
    BY <1>2, <2>1, <2>2 DEF GroupKin
  <2>3. ASSUME NEW p \in Pids, ppidCache'[p] \in Pids, lives[p] = 1,
               lives[ppidCache'[p]] = 1
        PROVE  Inherits(home[p], home[ppidCache'[p]])
    <3>1. ppidCache'[p] = IF p = g.pid THEN g.ppid ELSE ppidCache[p]
      BY <1>1, <1>3 DEF TypeOK
    <3>2. CASE p = g.pid
      BY <2>2, <2>3, <3>1, <3>2
    <3>3. CASE p # g.pid
      BY <2>3, <3>1, <3>3 DEF Kin, CachedKin
    <3>. QED  BY <3>2, <3>3
  <2>. QED  BY <2>3 DEF CachedKin
<1>6. ppidCache' \in [Pids -> Pids \cup {0, InitPid}]
  BY <1>1, <1>3 DEF TypeOK
<1>. DEFINE Caches == \A p \in Pids \ doubtful' :
                         pidCache'[p] # Unknown => pidCache'[p] = home[p]
<1>7. \A p \in Pids \ doubtful : pidCache[p] # Unknown => pidCache[p] = home[p]
  BY DEF Kin
<1>8. g.life = lives[g.pid] => g.truth = home[g.pid]
  BY <1>2 DEF GroupKin
<1>9. ASSUME NEW f \in Containers, NEW d \in BOOLEAN, NEW q \in Pids,
             pidCache' = [pidCache EXCEPT ![q] = f, ![g.pid] = f],
             Resolved(g, f, d),
             \/ d \/ lives[g.pid] # g.life
             \/ f = g.truth,
             f # g.truth => d,
             q = g.pid \/ q \in doubtful \/ f = home[q]
      PROVE  LastRight' /\ Caches
  <2>1. LastRight'
    BY <1>9 DEF Resolved, LastRight
  <2>2. ASSUME NEW p \in Pids, p \notin doubtful', pidCache'[p] # Unknown
        PROVE  pidCache'[p] = home[p]
    <3>1. pidCache'[p] = IF p = g.pid \/ p = q THEN f ELSE pidCache[p]
      BY <1>1, <1>9 DEF TypeOK
    <3>2. CASE p = g.pid
      BY <1>8, <1>9, <2>2, <3>1, <3>2 DEF Resolved
    <3>3. CASE p # g.pid
      <4>1. p \notin doubtful
        BY <1>9, <2>2, <3>3 DEF Resolved
      <4>. QED  BY <1>7, <1>9, <2>2, <3>1, <3>3, <4>1
    <3>. QED  BY <3>2, <3>3
  <2>. QED  BY <2>1, <2>2
<1>10. \A f : [pidCache EXCEPT ![g.pid] = f]
                 = [pidCache EXCEPT ![g.pid] = f, ![g.pid] = f]
  BY <1>1 DEF TypeOK
<1>11. ASSUME UseEager(item)
       PROVE  LastRight' /\ Caches
  <2>. DEFINE d == ~item.same
              f == item.eager
  <2>1. f \in Containers /\ d \in BOOLEAN
    BY <1>1, <1>11 DEF UseEager
  <2>2. pidCache' = [pidCache EXCEPT ![g.pid] = f, ![g.pid] = f]
        /\ Resolved(g, f, d)
    BY <1>10, <1>11, Zenon DEF UseEager
  <2>3. f # g.truth => d
    BY <1>2, <2>1, ResolverAssumption
  <2>. HIDE DEF d, f, Caches, item
  <2>. QED  BY <1>1, <1>9, <2>1, <2>2, <2>3
<1>12. ASSUME UseCache(g)
       PROVE  LastRight' /\ Caches
  <2>1. Caches
    BY <1>7, <1>12 DEF UseCache
  <2>2. last' = [truth |-> g.truth, found |-> pidCache[g.pid],
                 doubt |-> g.pid \in doubtful \/ lives[g.pid] # g.life]
    BY <1>12 DEF UseCache
  <2>3. g.pid \in doubtful \/ lives[g.pid] # g.life \/ pidCache[g.pid] = g.truth
    BY <1>1, <1>7, <1>8, <1>12 DEF UseCache
  <2>4. last'.truth = g.truth /\ last'.found = pidCache[g.pid]
    BY <2>2
  <2>5. last'.doubt = (g.pid \in doubtful \/ lives[g.pid] # g.life)
    BY <2>2
  <2>6. LastRight'
    BY <2>3, <2>4, <2>5, Zenon DEF LastRight
  <2>. QED  BY <2>1, <2>6
<1>13. ASSUME pidCache' = [pidCache EXCEPT ![g.pid] = Cgroup(g.pid)],
              Cgroup(g.pid) # Unknown,
              Resolved(g, Cgroup(g.pid), lives[g.pid] # g.life)
       PROVE  LastRight' /\ Caches
  <2>. DEFINE d == lives[g.pid] # g.life
              f == Cgroup(g.pid)
  <2>1. f \in Containers /\ f = home[g.pid] /\ d \in BOOLEAN
    BY <1>1, <1>13, CgroupType DEF Kin
  <2>2. pidCache' = [pidCache EXCEPT ![g.pid] = f, ![g.pid] = f] /\ Resolved(g, f, d)
    BY <1>10, <1>13, Zenon
  <2>3. f # g.truth => d
    BY <1>8, <2>1
  <2>. HIDE DEF d, f, Caches, item
  <2>. QED  BY <1>1, <1>9, <2>1, <2>2, <2>3
<1>14. ASSUME NEW readable, NEW walk \in Walks(g, readable), UseAncestor(g, walk, readable)
       PROVE  LastRight' /\ Caches
  <2>. DEFINE finds == Finds(walk, readable)
              i == FirstOf(finds)
              found == Lookup(walk[i], readable)
              d == \/ \E q \in Visited(walk, i) : lives[q] > 1
                   \/ walk[i] \in doubtful
  <2>1. finds \in SUBSET Nat /\ finds # {}
    BY <1>14, ResolverAssumption DEF Walks, UseAncestor, Finds
  <2>2. i \in finds
    BY <2>1, FirstOfFinds
  <2>3. walk[i] \in Pids /\ found # Unknown
    BY <2>2 DEF Finds
  <2>4. /\ found \in Containers /\ d \in BOOLEAN
        /\ pidCache[walk[i]] = Unknown => Alive(walk[i]) /\ found = box[walk[i]]
    BY <2>3, LookupType
  <2>5. /\ pidCache' = [pidCache EXCEPT ![walk[i]] = found, ![g.pid] = found]
        /\ Resolved(g, found, d)
    BY <1>14, Zenon DEF UseAncestor
  <2>6. walk[i] \in doubtful \/ found = home[walk[i]]
    BY <1>7, <2>3, <2>4 DEF Kin, Lookup
  <2>. HIDE DEF i
  <2>7. ASSUME ~d PROVE found = g.truth
    <3>1. walk[i] \notin doubtful /\ \A q \in Visited(walk, i) : ~(lives[q] > 1)
      BY <2>7
    <3>. HIDE DEF d, item
    <3>. QED  BY <1>1, <1>2, <1>5, <1>6, <2>2, <3>1, WalkRight
  <2>. HIDE DEF d, found, Caches, item
  <2>. QED  BY <1>9, <2>3, <2>4, <2>5, <2>6, <2>7
<1>15. ASSUME UseOnlyContainer(g)
       PROVE  LastRight' /\ Caches
  <2>1. PICK c \in Containers :
           pidCache' = [pidCache EXCEPT ![g.pid] = c] /\ Resolved(g, c, TRUE)
    BY <1>15 DEF UseOnlyContainer
  <2>. DEFINE d == TRUE
  <2>2. /\ pidCache' = [pidCache EXCEPT ![g.pid] = c, ![g.pid] = c]
        /\ Resolved(g, c, d)
    BY <1>10, <2>1
  <2>3. d \in BOOLEAN /\ d
    OBVIOUS
  <2>. HIDE DEF d, Caches, item
  <2>. QED  BY <1>1, <1>9, <2>2, <2>3
<1>16. ASSUME Skip(g)
       PROVE  LastRight' /\ Caches
  <2>1. Caches
    BY <1>7, <1>16 DEF Skip
  <2>2. last'.found = Unknown
    BY <1>16 DEF Skip
  <2>. QED  BY <2>1, <2>2, Zenon DEF LastRight
<1>17. \A readable : UseProc(g, readable) => LastRight' /\ Caches
  BY <1>13 DEF UseProc, Proc
<1>18. UseScan(g) => LastRight' /\ Caches
  BY <1>13 DEF UseScan
<1>. HIDE DEF Caches, g, item
<1>19. \A readable : WalkUp(g, readable) => LastRight' /\ Caches
  BY <1>14, <1>15, <1>16, <1>18, Zenon DEF WalkUp
<1>20. LastRight' /\ Caches
  BY <1>11, <1>12, <1>17, <1>19, Zenon DEF Handle, g, item
<1>. QED  BY <1>5, <1>20 DEF Caches

\* A process started in the place of another.
LEMMA StartKin ==
    ASSUME TypeOK, NEW home \in [Pids -> Containers \cup {Host}], Kin(home),
           NEW p \in Pids, Start(p)
    PROVE  \E next \in [Pids -> Containers \cup {Host}] : Kin(next)'
<1>1. PICK parent \in {q \in Pids : Alive(q)} \cup {InitPid} :
         /\ up' = [up EXCEPT ![p] = parent]
         /\ \E c \in Places(box, parent) : box' = [box EXCEPT ![p] = c]
  BY DEF Start
<1>2. PICK c \in Places(box, parent) : box' = [box EXCEPT ![p] = c]
  BY <1>1
<1>. DEFINE next == [home EXCEPT ![p] = c]
<1>3. c \in Containers \cup {Host} /\ next \in [Pids -> Containers \cup {Host}]
  BY <1>2 DEF Places
<1>4. /\ ~Alive(p) /\ lives[p] = 1 /\ lives' = [lives EXCEPT ![p] = 2]
      /\ doubtful' = IF pidCache[p] # Unknown THEN doubtful \cup {p} ELSE doubtful
      /\ UNCHANGED <<socket, batch, pidCache, ppidCache>>
  <2>1. ~Alive(p) /\ lives[p] = 1 /\ lives' = [lives EXCEPT ![p] = lives[p] + 1]
    BY DEF Start
  <2>2. lives' = [lives EXCEPT ![p] = 2]
    BY <2>1
  <2>. QED  BY <2>1, <2>2 DEF Start, caches
<1>5. /\ \A q \in Pids : next[q] = IF q = p THEN c ELSE home[q]
      /\ \A q \in Pids : lives'[q] = IF q = p THEN 2 ELSE lives[q]
      /\ \A q \in Pids : up'[q] = IF q = p THEN parent ELSE up[q]
      /\ \A q \in Pids : box'[q] = IF q = p THEN c ELSE box[q]
  BY <1>1, <1>2, <1>4 DEF TypeOK
<1>. HIDE DEF next
<1>6. \A q \in Pids : Alive(q)' => box'[q] = next[q]
  BY <1>5 DEF Kin, Alive
<1>7. ASSUME NEW q \in Pids, Alive(q)', up'[q] \in Pids, lives'[up'[q]] = 1
      PROVE  Inherits(next[q], next[up'[q]])
  <2>1. up'[q] # p /\ lives[up'[q]] = 1 /\ next[up'[q]] = home[up'[q]]
    BY <1>5, <1>7
  <2>2. CASE q = p
    <3>1. up'[q] = parent /\ parent \in Pids /\ Alive(parent)
      BY <1>5, <1>7, <2>2, ResolverAssumption DEF InitPid
    <3>2. box[parent] = home[parent]
      BY <3>1 DEF Kin
    <3>3. home[parent] \in Containers => c = home[parent]
      BY <1>2, <3>1, <3>2 DEF Places
    <3>. QED  BY <1>5, <2>1, <2>2, <3>1, <3>3 DEF Inherits
  <2>3. CASE q # p
    <3>1. up'[q] = up[q] /\ Alive(q) /\ next[q] = home[q]
      BY <1>5, <1>7, <2>3 DEF Alive
    <3>. QED  BY <1>7, <2>1, <3>1 DEF Kin
  <2>. QED  BY <2>2, <2>3
<1>8. CachedKin(ppidCache, next)'
  <2>. SUFFICES ASSUME NEW q \in Pids, ppidCache[q] \in Pids, lives'[q] = 1,
                       lives'[ppidCache[q]] = 1
                PROVE  Inherits(next[q], next[ppidCache[q]])
    BY <1>4 DEF CachedKin
  <2>1. q # p /\ ppidCache[q] # p /\ lives[q] = 1 /\ lives[ppidCache[q]] = 1
    BY <1>5
  <2>. QED  BY <1>5, <2>1 DEF Kin, CachedKin
<1>9. \A q \in Pids \ doubtful' : pidCache'[q] # Unknown => pidCache'[q] = next[q]
  BY <1>4, <1>5 DEF Kin
<1>10. ASSUME NEW g \in Group, GroupKin(g, home) PROVE GroupKin(g, next)'
  <2>1. g.pid \in Pids /\ g.life \in Nat /\ lives[g.pid] \in Nat
    BY DEF Group, TypeOK
  <2>2. g.life <= lives'[g.pid]
    BY <1>4, <1>5, <1>10, <2>1 DEF GroupKin
  <2>3. g.life = lives'[g.pid] => g.truth = next[g.pid]
    BY <1>4, <1>5, <1>10, <2>1 DEF GroupKin
  <2>4. g.ppid \in Pids /\ lives'[g.ppid] = 1 => Inherits(g.truth, next[g.ppid])
    BY <1>5, <1>10 DEF GroupKin
  <2>. QED  BY <2>2, <2>3, <2>4 DEF GroupKin
<1>11. \A i \in DOMAIN socket' : GroupKin(socket[i], next)'
  <2>1. \A i \in DOMAIN socket : socket[i] \in Group
    BY DEF TypeOK
  <2>. QED  BY <1>4, <1>10, <2>1 DEF Kin
<1>12. \A i \in DOMAIN batch' :
          /\ GroupKin(batch[i].group, next)'
          /\ batch'[i].eager # Unknown /\ batch'[i].same
                => batch'[i].eager = batch'[i].group.truth
  <2>1. batch \in Seq(Item)
    BY DEF TypeOK, Item
  <2>2. \A i \in DOMAIN batch : batch[i].group \in Group
    <3>1. \A i \in DOMAIN batch : batch[i] \in Item
      BY <2>1
    <3>. QED  BY <3>1 DEF Item
  <2>. QED  BY <1>4, <1>10, <2>2 DEF Kin
<1>. QED  BY <1>3, <1>4, <1>6, <1>7, <1>8, <1>9, <1>11, <1>12 DEF Kin

LEMMA KinNext == KinInv /\ [Next]_vars => KinInv'
<1>. SUFFICES ASSUME KinInv, [Next]_vars PROVE KinInv'
  OBVIOUS
<1>1. TypeOK /\ TypeOK'
  BY TypeNext DEF KinInv
<1>2. PICK home \in [Pids -> Containers \cup {Host}] : Kin(home)
  BY DEF KinInv
<1>. SUFFICES LastRight' /\ \E next \in [Pids -> Containers \cup {Host}] : Kin(next)'
  BY <1>1 DEF KinInv
<1>3. last' = NoGroup => LastRight'
  BY DEF LastRight, NoGroup
<1>4. ASSUME NEW p \in Pids, Exit(p) PROVE LastRight' /\ Kin(home)'
  <2>1. /\ \A q \in Pids : box'[q] = IF q = p THEN Gone ELSE box[q]
        /\ \A q \in Pids : up'[q] = IF up[q] = p THEN InitPid ELSE up[q]
        /\ UNCHANGED <<lives, socket, batch, pidCache, ppidCache, doubtful>>
        /\ last' = NoGroup
    BY <1>1, <1>4 DEF Exit, caches, TypeOK
  <2>2. \A q \in Pids : Alive(q)' => Alive(q) /\ box'[q] = box[q]
    BY <2>1 DEF Alive
  <2>3. \A q \in Pids : up'[q] \in Pids => up'[q] = up[q]
    BY <2>1, ResolverAssumption DEF InitPid
  <2>. QED  BY <1>2, <1>3, <2>1, <2>2, <2>3 DEF Kin, CachedKin, GroupKin
<1>5. ASSUME NEW p \in Pids, Start(p)
      PROVE  LastRight' /\ \E next \in [Pids -> Containers \cup {Host}] : Kin(next)'
  <2>1. \E next \in [Pids -> Containers \cup {Host}] : Kin(next)'
    BY <1>1, <1>2, <1>5, StartKin
  <2>. QED  BY <1>3, <1>5, <2>1 DEF Start
<1>6. ASSUME NEW p \in Pids, SystemCall(p) PROVE LastRight' /\ Kin(home)'
  <2>. DEFINE g == [pid |-> p, ppid |-> up[p], truth |-> box[p], life |-> lives[p]]
  <2>1. /\ box[p] \in Containers /\ socket' = Append(socket, g)
        /\ UNCHANGED <<box, up, lives, batch, pidCache, ppidCache, doubtful>>
        /\ last' = NoGroup
    BY <1>6 DEF SystemCall, caches, world
  <2>2. g \in Group /\ socket \in Seq(Group)
    BY <1>1, <2>1 DEF TypeOK, Group
  <2>3. GroupKin(g, home)
    <3>1. Alive(p) /\ box[p] = home[p] /\ lives[p] \in Nat
      BY <1>1, <1>2, <2>1, ResolverAssumption DEF Kin, Alive, TypeOK
    <3>2. up[p] \in Pids /\ lives[up[p]] = 1 => Inherits(box[p], home[up[p]])
      BY <1>2, <3>1 DEF Kin
    <3>. QED  BY <3>1, <3>2 DEF GroupKin
  <2>. HIDE DEF g
  <2>4. \A i \in DOMAIN socket' :
           \/ socket'[i] = g
           \/ i \in DOMAIN socket /\ socket'[i] = socket[i]
    BY <2>1, <2>2, Appended
  <2>5. \A i \in DOMAIN socket' : GroupKin(socket'[i], home)
    BY <1>2, <2>3, <2>4 DEF Kin
  <2>6. Kin(home)'
    BY <1>2, <2>1, <2>5 DEF Kin, CachedKin, GroupKin, Alive
  <2>. QED  BY <1>3, <2>1, <2>6
<1>7. CASE Receive
  <2>. DEFINE g == Head(socket)
  <2>1. PICK eager \in {Unknown, Cgroup(g.pid)} :
           batch' = Append(batch, [group |-> g, eager |-> eager,
                                   same |-> lives[g.pid] = g.life])
    BY <1>7 DEF Receive
  <2>. DEFINE item == [group |-> g, eager |-> eager, same |-> lives[g.pid] = g.life]
  <2>2. /\ socket # << >> /\ socket' = Tail(socket) /\ last' = NoGroup
        /\ UNCHANGED <<box, up, lives, pidCache, ppidCache, doubtful>>
    BY <1>7 DEF Receive, world, caches
  <2>3. /\ socket \in Seq(Group) /\ batch \in Seq(Item)
        /\ g \in Group /\ g.pid \in Pids /\ g = socket[1] /\ 1 \in DOMAIN socket
    <3>1. socket \in Seq(Group) /\ batch \in Seq(Item)
      BY <1>1 DEF TypeOK, Item
    <3>2. g \in Group /\ g = socket[1] /\ 1 \in DOMAIN socket
      BY <2>2, <3>1, FirstElement
    <3>. QED  BY <3>1, <3>2 DEF Group
  <2>4. GroupKin(g, home)
    BY <1>2, <2>3 DEF Kin
  <2>5. ASSUME eager # Unknown, lives[g.pid] = g.life PROVE eager = g.truth
    <3>1. eager = box[g.pid] /\ Alive(g.pid)
      BY <2>1, <2>3, <2>5, CgroupType
    <3>2. box[g.pid] = home[g.pid]
      BY <1>2, <2>3, <3>1 DEF Kin
    <3>. QED  BY <2>4, <2>5, <3>1, <3>2 DEF GroupKin
  <2>6. item \in Item
    <3>1. eager \in Containers \cup {Unknown}
      BY <2>1, <2>3, CgroupType
    <3>2. (lives[g.pid] = g.life) \in BOOLEAN
      OBVIOUS
    <3>. QED  BY <2>3, <3>1, <3>2 DEF Item
  <2>7. item.group = g /\ item.eager = eager /\ (item.same => lives[g.pid] = g.life)
    OBVIOUS
  <2>8. batch' = Append(batch, item)
    BY <2>1
  <2>. HIDE DEF item, g
  <2>9. \A i \in DOMAIN batch' :
           \/ batch'[i] = item
           \/ i \in DOMAIN batch /\ batch'[i] = batch[i]
    BY <2>3, <2>6, <2>8, Appended
  <2>10. \A i \in DOMAIN socket' : i + 1 \in DOMAIN socket /\ socket'[i] = socket[i + 1]
    BY <2>2, <2>3
  <2>11. \A i \in DOMAIN socket' : GroupKin(socket'[i], home)
    BY <1>2, <2>10 DEF Kin
  <2>12. \A i \in DOMAIN batch' :
            /\ GroupKin(batch'[i].group, home)
            /\ batch'[i].eager # Unknown /\ batch'[i].same
                  => batch'[i].eager = batch'[i].group.truth
    BY <1>2, <2>4, <2>5, <2>7, <2>9 DEF Kin
  <2>13. Kin(home)'
    BY <1>2, <2>2, <2>11, <2>12 DEF Kin, CachedKin, GroupKin, Alive
  <2>. QED  BY <1>3, <2>2, <2>13
<1>8. CASE WouldBlock
  BY <1>2, <1>3, <1>8 DEF WouldBlock, world, caches, Kin, CachedKin, GroupKin, Alive
<1>9. CASE ReceiveError
  <2>1. DOMAIN batch' = {} /\ last' = NoGroup
        /\ UNCHANGED <<box, up, lives, socket, pidCache, ppidCache, doubtful>>
    BY <1>9 DEF ReceiveError, world, caches
  <2>. QED  BY <1>2, <1>3, <2>1 DEF Kin, CachedKin, GroupKin, Alive
<1>10. CASE Handle
  <2>1. /\ batch' = Tail(batch) /\ batch # << >> /\ batch \in Seq(Item)
        /\ UNCHANGED <<box, up, lives, socket>>
    BY <1>1, <1>10, HeadType DEF Handle, world
  <2>2. \A i \in DOMAIN batch' : i + 1 \in DOMAIN batch /\ batch'[i] = batch[i + 1]
    BY <2>1
  <2>3. /\ LastRight' /\ CachedKin(ppidCache', home)
        /\ \A p \in Pids \ doubtful' :
              pidCache'[p] # Unknown => pidCache'[p] = home[p]
    BY <1>1, <1>2, <1>10, HandleRight
  <2>4. \A i \in DOMAIN batch' :
            /\ GroupKin(batch'[i].group, home)
            /\ batch'[i].eager # Unknown /\ batch'[i].same
                  => batch'[i].eager = batch'[i].group.truth
    BY <1>2, <2>2 DEF Kin
  <2>5. Kin(home)'
    BY <1>2, <2>1, <2>3, <2>4 DEF Kin, CachedKin, GroupKin, Alive
  <2>. QED  BY <2>3, <2>5
<1>11. CASE UNCHANGED vars
  <2>1. UNCHANGED <<box, up, lives, socket, batch, pidCache, ppidCache, doubtful, last>>
    BY <1>11 DEF vars, world, caches
  <2>2. LastRight'
    BY <2>1 DEF KinInv, LastRight
  <2>3. Kin(home)'
    BY <1>2, <2>1 DEF Kin, CachedKin, GroupKin, Alive
  <2>. QED  BY <2>2, <2>3
<1>. QED  BY <1>4, <1>5, <1>6, <1>7, <1>8, <1>9, <1>10, <1>11 DEF Next

\* An event is given to the container its process ran in, and the cache entries
\* are right, unless they rest on the guess of the only container or on a pid
\* that was reused.
THEOREM RightOrInDoubt == Spec => []RightUnlessInDoubt
<1>1. KinInv => RightUnlessInDoubt
  BY DEF KinInv, Kin, LastRight, RightUnlessInDoubt
<1>. QED  BY <1>1, KinInit, KinNext, PTL DEF Spec
=============================================================================
