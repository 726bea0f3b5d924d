---------------------------- MODULE RegistryProofs ----------------------------
(***************************************************************************)
(* Proofs about Registry, for any containers, addresses and bounds.        *)
(*                                                                         *)
(* The inductive invariant says where addresses come from: an event in     *)
(* the buffer carries none or all of what its container has; what was      *)
(* declared, or came with a container's first event, is in the map; and    *)
(* the map is true.  FlowsShown follows from it in every state.            *)
(***************************************************************************)
EXTENDS Registry, TLAPS

LEMMA PushType ==
    ASSUME NEW S, NEW seq \in Seq(S), NEW e \in S PROVE Append(seq, e) \in Seq(S)
OBVIOUS

\* What is in the tail was in the sequence.
LEMMA TailType ==
    ASSUME NEW S, NEW seq \in Seq(S), seq # << >>
    PROVE  /\ Head(seq) \in S /\ Tail(seq) \in Seq(S)
           /\ Head(seq) = seq[1] /\ 1 \in DOMAIN seq
           /\ \A i \in DOMAIN Tail(seq) : i + 1 \in DOMAIN seq /\ Tail(seq)[i] = seq[i + 1]
OBVIOUS

LEMMA AppendElement ==
    ASSUME NEW S, NEW seq \in Seq(S), NEW e \in S
    PROVE  \A i \in DOMAIN Append(seq, e) :
               (i \in DOMAIN seq /\ Append(seq, e)[i] = seq[i]) \/ Append(seq, e)[i] = e
OBVIOUS

\* An address map of containers.
Map == DOMAIN owner \subseteq Addresses /\ owner \in [DOMAIN owner -> Containers]

-----------------------------------------------------------------------------
(* Type correctness, by groups of variables.                               *)

TypeOfEvents ==
    /\ held \in [Containers -> SUBSET Addresses]
    /\ buffer \in Seq(Event)
    /\ pushed \in Nat

TypeOfTables ==
    /\ live \subseteq Containers
    /\ connected \in [Containers -> SUBSET Addresses]
    /\ Map

TypeOfGroups ==
    /\ members \in Seq(SUBSET Containers)
    /\ DOMAIN experimentOf \subseteq Containers
    /\ experimentOf \in [DOMAIN experimentOf -> DOMAIN members]

TypeOfHistory ==
    /\ reported \subseteq Containers /\ announced \subseteq Containers
    /\ declared \in [Containers -> SUBSET Addresses]

LEMMA TypeParts == TypeOK <=> TypeOfEvents /\ TypeOfTables /\ TypeOfGroups /\ TypeOfHistory
BY DEF TypeOK, TypeOfEvents, TypeOfTables, TypeOfGroups, TypeOfHistory, Map

LEMMA TypeInit == Init => TypeOK
<1>. SUFFICES ASSUME Init PROVE TypeOK
  OBVIOUS
<1>1. buffer \in Seq(Event) /\ members \in Seq(SUBSET Containers)
  BY DEF Init
<1>2. DOMAIN owner = {} /\ DOMAIN experimentOf = {}
  BY DEF Init
<1>3. owner \in [DOMAIN owner -> Containers] /\ experimentOf \in [DOMAIN experimentOf -> DOMAIN members]
  BY <1>2 DEF Init
<1>. QED  BY <1>1, <1>2, <1>3 DEF Init, TypeOK

LEMMA HeadEvent ==
    ASSUME TypeOfEvents, buffer # << >>
    PROVE  /\ Head(buffer) \in Event
           /\ Head(buffer).container \in Containers
           /\ Head(buffer).ips \in SUBSET Addresses
           /\ Contacts(Head(buffer)) \subseteq Addresses
<1>1. Head(buffer) \in Event
  BY TailType DEF TypeOfEvents
<1>. QED  BY <1>1 DEF Event, Contacts

LEMMA PushedEvent ==
    ASSUME TypeOfEvents, NEW c \in Containers, NEW target \in Addresses \cup {Nowhere},
           NEW readable \in BOOLEAN
    PROVE  [container |-> c, target |-> target,
            ips |-> IF readable THEN held[c] ELSE {}] \in Event
BY DEF TypeOfEvents, Event

LEMMA EventsStep == TypeOfEvents /\ [Next]_vars => TypeOfEvents'
<1>. SUFFICES ASSUME TypeOfEvents, [Next]_vars PROVE TypeOfEvents'
  OBVIOUS
<1>1. CASE UNCHANGED <<held, buffer, pushed>>
  BY <1>1 DEF TypeOfEvents
<1>2. ASSUME NEW c \in Containers, NEW target \in Addresses \cup {Nowhere},
             NEW readable \in BOOLEAN, Push(c, target, readable)
      PROVE  TypeOfEvents'
  <2>1. buffer' \in Seq(Event)
    BY <1>2, PushedEvent, PushType DEF Push, TypeOfEvents
  <2>. QED  BY <1>2, <2>1 DEF Push, TypeOfEvents
<1>3. CASE Dispatch
  BY <1>3, TailType DEF Dispatch, TypeOfEvents
<1>. QED
  BY <1>1, <1>2, <1>3
     DEF Next, vars, history, ActionStart, DeleteContainer, CreateExperiment, AddContainer

LEMMA TablesStep == TypeOfEvents /\ TypeOfTables /\ [Next]_vars => TypeOfTables'
<1>. SUFFICES ASSUME TypeOfEvents, TypeOfTables, [Next]_vars PROVE TypeOfTables'
  OBVIOUS
<1>1. CASE UNCHANGED tables
  BY <1>1 DEF tables, TypeOfTables, Map
<1>2. CASE Dispatch
  <2>1. PICK e \in {Head(buffer)} :
           /\ live' = live \cup {e.container}
           /\ owner' = IF e.container \in live THEN owner ELSE Claim(e.container, e.ips)
           /\ connected' = [connected EXCEPT ![e.container] = @ \cup Contacts(e)]
    BY <1>2 DEF Dispatch
  <2>2. e.container \in Containers /\ e.ips \in SUBSET Addresses /\ Contacts(e) \subseteq Addresses
    BY <1>2, <2>1, HeadEvent DEF Dispatch
  <2>3. Map'
    <3>1. CASE owner' = owner
      BY <3>1 DEF TypeOfTables, Map
    <3>2. CASE owner' = Claim(e.container, e.ips)
      BY <2>2, <3>2 DEF Claim, TypeOfTables, Map
    <3>. QED  BY <2>1, <3>1, <3>2
  <2>. QED  BY <2>1, <2>2, <2>3 DEF TypeOfTables
<1>3. ASSUME NEW c \in Containers, ActionStart(c) \/ DeleteContainer(c) PROVE TypeOfTables'
  BY <1>3 DEF ActionStart, DeleteContainer, TypeOfTables, Map
<1>4. ASSUME NEW c \in Containers, NEW x, TypeOfEvents, NEW ips \in SUBSET held[c],
             AddContainer(x, c, ips)
      PROVE  TypeOfTables'
  <2>1. ips \in SUBSET Addresses
    BY DEF TypeOfEvents
  <2>2. Map'
    BY <1>4, <2>1 DEF AddContainer, Declare, TypeOfTables, Map
  <2>. QED  BY <1>4, <2>2 DEF AddContainer, TypeOfTables
<1>. QED
  BY <1>1, <1>2, <1>3, <1>4 DEF Next, vars, tables, Push, CreateExperiment

LEMMA GroupsStep == TypeOfGroups /\ [Next]_vars => TypeOfGroups'
<1>. SUFFICES ASSUME TypeOfGroups, [Next]_vars PROVE TypeOfGroups'
  OBVIOUS
<1>1. CASE UNCHANGED groups
  BY <1>1 DEF groups, TypeOfGroups
<1>2. CASE CreateExperiment
  <2>1. members' \in Seq(SUBSET Containers)
    BY <1>2, PushType DEF CreateExperiment, TypeOfGroups
  <2>2. DOMAIN members \subseteq DOMAIN members'
    BY <1>2 DEF CreateExperiment, TypeOfGroups
  <2>. QED  BY <1>2, <2>1, <2>2 DEF CreateExperiment, TypeOfGroups
<1>3. ASSUME NEW c \in Containers, NEW x, NEW ips, AddContainer(x, c, ips) PROVE TypeOfGroups'
  <2>1. x \in DOMAIN members /\ DOMAIN members' = DOMAIN members
    BY <1>3 DEF AddContainer
  <2>2. members' \in Seq(SUBSET Containers)
    <3>1. members[x] \cup {c} \in SUBSET Containers
      BY <2>1 DEF TypeOfGroups
    <3>. QED  BY <1>3, <2>1, <3>1 DEF AddContainer, TypeOfGroups
  <2>3. /\ DOMAIN experimentOf' = DOMAIN experimentOf \cup {c}
        /\ experimentOf' \in [DOMAIN experimentOf \cup {c} -> DOMAIN members]
    BY <1>3, <2>1 DEF AddContainer, TypeOfGroups
  <2>. QED  BY <2>1, <2>2, <2>3 DEF TypeOfGroups
<1>. QED
  BY <1>1, <1>2, <1>3 DEF Next, vars, groups, Push, Dispatch, ActionStart, DeleteContainer

LEMMA HistoryStep == TypeOfEvents /\ TypeOfHistory /\ [Next]_vars => TypeOfHistory'
<1>. SUFFICES ASSUME TypeOfEvents, TypeOfHistory, [Next]_vars PROVE TypeOfHistory'
  OBVIOUS
<1>1. CASE UNCHANGED <<reported, announced, declared>>
  BY <1>1 DEF TypeOfHistory
<1>2. CASE Dispatch
  <2>1. Head(buffer).container \in Containers
    BY <1>2, HeadEvent DEF Dispatch
  <2>. QED  BY <1>2, <2>1 DEF Dispatch, TypeOfHistory
<1>3. ASSUME NEW c \in Containers, NEW x, NEW ips \in SUBSET held[c], AddContainer(x, c, ips)
      PROVE  TypeOfHistory'
  <2>1. ips \in SUBSET Addresses
    BY DEF TypeOfEvents
  <2>. QED  BY <1>3, <2>1 DEF AddContainer, TypeOfHistory
<1>. QED
  BY <1>1, <1>2, <1>3 DEF Next, vars, history, Push, ActionStart, DeleteContainer, CreateExperiment

LEMMA TypeStep == TypeOK /\ [Next]_vars => TypeOK'
<1>. SUFFICES ASSUME TypeOK, [Next]_vars PROVE TypeOK'
  OBVIOUS
<1>1. TypeOfEvents' /\ TypeOfTables' /\ TypeOfGroups' /\ TypeOfHistory'
  BY TypeParts, EventsStep, TablesStep, GroupsStep, HistoryStep
<1>. QED
  BY <1>1 DEF TypeOK, TypeOfEvents, TypeOfTables, TypeOfGroups, TypeOfHistory, Map

\* Types of the tables, of the buffer and of the history.
THEOREM TypeCorrect == Spec => []TypeOK
BY TypeInit, TypeStep, PTL DEF Spec

-----------------------------------------------------------------------------
(* Where addresses come from.                                              *)

\* An event brings all the addresses of its container or none.
EventsWhole ==
    \A i \in DOMAIN buffer : buffer[i].ips \in {{}, held[buffer[i].container]}

\* What was declared is true, and is in the map.
DeclaredMapped ==
    \A c \in Containers : declared[c] \subseteq held[c] /\ declared[c] \subseteq DOMAIN owner

\* So is what came with the first event of a container.
AnnouncedMapped == \A c \in announced : held[c] \subseteq DOMAIN owner

AddressInv == TypeOK /\ EventsWhole /\ DeclaredMapped /\ AnnouncedMapped /\ AddressesTrue

LEMMA WholeStep == TypeOK /\ EventsWhole /\ [Next]_vars => EventsWhole'
<1>. SUFFICES ASSUME TypeOK, EventsWhole, [Next]_vars PROVE EventsWhole'
  OBVIOUS
<1>. TypeOfEvents
  BY TypeParts
<1>1. CASE UNCHANGED <<held, buffer>>
  BY <1>1 DEF EventsWhole
<1>2. ASSUME NEW c \in Containers, NEW target \in Addresses \cup {Nowhere},
             NEW readable \in BOOLEAN, Push(c, target, readable)
      PROVE  EventsWhole'
  <2>1. PICK e \in Event : /\ buffer' = Append(buffer, e)
                           /\ e.container = c /\ e.ips \in {{}, held[c]}
    BY <1>2, PushedEvent DEF Push
  <2>2. \A i \in DOMAIN buffer' :
            (i \in DOMAIN buffer /\ buffer'[i] = buffer[i]) \/ buffer'[i] = e
    BY <2>1, AppendElement DEF TypeOfEvents
  <2>3. held' = held
    BY <1>2 DEF Push
  <2>. QED  BY <2>1, <2>2, <2>3 DEF EventsWhole
<1>3. CASE Dispatch
  <2>1. \A i \in DOMAIN buffer' : i + 1 \in DOMAIN buffer /\ buffer'[i] = buffer[i + 1]
    BY <1>3, TailType DEF Dispatch, TypeOfEvents
  <2>. QED  BY <1>3, <2>1 DEF Dispatch, EventsWhole
<1>. QED
  BY <1>1, <1>2, <1>3
     DEF Next, vars, ActionStart, DeleteContainer, CreateExperiment, AddContainer

\* The map as it is after a step: it grows, and what is put in it is true.
LEMMA MapStep ==
    AddressInv /\ [Next]_vars =>
        /\ DOMAIN owner \subseteq DOMAIN owner' /\ held' = held
        /\ AddressesTrue' /\ DeclaredMapped' /\ AnnouncedMapped'
<1>. DEFINE Goal == /\ DOMAIN owner \subseteq DOMAIN owner' /\ held' = held
                    /\ AddressesTrue' /\ DeclaredMapped' /\ AnnouncedMapped'
<1>. SUFFICES ASSUME AddressInv, [Next]_vars PROVE Goal
  OBVIOUS
<1>. TypeOfEvents /\ TypeOfTables /\ TypeOfGroups /\ TypeOfHistory /\ Map
  BY TypeParts DEF AddressInv, TypeOfTables
<1>1. CASE UNCHANGED <<held, owner, announced, declared>>
  BY <1>1 DEF AddressInv, AddressesTrue, DeclaredMapped, AnnouncedMapped
<1>2. CASE Dispatch
  <2>1. PICK e \in {Head(buffer)} :
           /\ owner' = IF e.container \in live THEN owner ELSE Claim(e.container, e.ips)
           /\ announced' = IF e.ips # {} /\ e.container \notin live
                           THEN announced \cup {e.container} ELSE announced
           /\ UNCHANGED <<held, declared>>
    BY <1>2 DEF Dispatch
  <2>2. /\ e.container \in Containers /\ e.ips \in SUBSET Addresses
        /\ e.ips \in {{}, held[e.container]}
    BY <1>2, <2>1, HeadEvent, TailType DEF Dispatch, AddressInv, EventsWhole, TypeOfEvents
  <2>3. CASE e.container \in live
    BY <1>1, <2>1, <2>3
  <2>4. CASE e.container \notin live
    <3>1. owner' = Claim(e.container, e.ips)
      BY <2>1, <2>4
    <3>2. /\ DOMAIN owner' = DOMAIN owner \cup e.ips
          /\ \A a \in DOMAIN owner : owner'[a] = owner[a]
          /\ \A a \in e.ips \ DOMAIN owner : owner'[a] = e.container
      BY <2>2, <3>1 DEF Claim
    <3>3. AddressesTrue'
      BY <2>1, <2>2, <3>2 DEF AddressInv, AddressesTrue
    <3>4. DeclaredMapped'
      BY <2>1, <3>2 DEF AddressInv, DeclaredMapped
    <3>5. AnnouncedMapped'
      BY <2>1, <2>2, <3>2 DEF AddressInv, AnnouncedMapped
    <3>. QED  BY <2>1, <3>2, <3>3, <3>4, <3>5
  <2>. QED  BY <2>3, <2>4
<1>3. ASSUME NEW c \in Containers, NEW x, NEW ips \in SUBSET held[c], AddContainer(x, c, ips)
      PROVE  Goal
  <2>1. ips \in SUBSET Addresses
    BY DEF TypeOfEvents
  <2>2. /\ owner' = Declare(c, ips) /\ UNCHANGED <<held, announced>>
        /\ declared' = [declared EXCEPT ![c] = @ \cup ips]
    BY <1>3 DEF AddContainer
  <2>3. /\ DOMAIN owner' = DOMAIN owner \cup ips
        /\ \A a \in ips : owner'[a] = c
        /\ \A a \in DOMAIN owner \ ips : owner'[a] = owner[a]
    BY <2>1, <2>2 DEF Declare
  <2>4. AddressesTrue'
    BY <2>2, <2>3 DEF AddressInv, AddressesTrue
  <2>5. DeclaredMapped'
    BY <2>2, <2>3 DEF AddressInv, DeclaredMapped, TypeOfHistory
  <2>6. AnnouncedMapped'
    BY <2>2, <2>3 DEF AddressInv, AnnouncedMapped
  <2>. QED  BY <2>2, <2>3, <2>4, <2>5, <2>6
<1>. QED
  BY <1>1, <1>2, <1>3
     DEF Next, vars, tables, history, Push, ActionStart, DeleteContainer, CreateExperiment

LEMMA AddressInvariant == Spec => []AddressInv
<1>1. Init => AddressInv
  BY TypeInit DEF Init, AddressInv, EventsWhole, DeclaredMapped, AnnouncedMapped, AddressesTrue
<1>2. AddressInv /\ [Next]_vars => AddressInv'
  <2>. SUFFICES ASSUME AddressInv, [Next]_vars PROVE AddressInv'
    OBVIOUS
  <2>1. TypeOK' /\ EventsWhole'
    BY TypeStep, WholeStep DEF AddressInv
  <2>. QED  BY <2>1, MapStep DEF AddressInv
<1>. QED  BY <1>1, <1>2, PTL DEF Spec

\* No address is said to be a container's that does not have it.
THEOREM AddressesAreTrue == Spec => []AddressesTrue
BY AddressInvariant, PTL DEF AddressInv

-----------------------------------------------------------------------------
(* What receipts and steps make of it.                                     *)

LEMMA RegisteredMapped ==
    ASSUME AddressInv, NEW c \in Containers
    PROVE  Registered(c) \subseteq DOMAIN owner
BY DEF AddressInv, DeclaredMapped, AnnouncedMapped, Registered

\* A registered address of one holder is that holder's in the map.
LEMMA ShownFlows == AddressInv => FlowsShown
<1>. SUFFICES ASSUME AddressInv, NEW x \in DOMAIN members,
                     NEW c \in members[x], NEW t \in members[x], NEW a \in connected[c],
                     c # t, c \in live, Holders(a) = {t}, a \in Registered(t)
              PROVE  <<c, a, t>> \in CrossFlows(x)
  BY DEF FlowsShown
<1>1. t \in Containers /\ c \in Containers
  BY DEF AddressInv, TypeOK
<1>2. a \in DOMAIN owner /\ a \in Addresses
  BY <1>1, RegisteredMapped DEF AddressInv, TypeOK
<1>3. owner[a] \in Containers /\ a \in held[owner[a]]
  BY <1>2 DEF AddressInv, TypeOK, AddressesTrue
<1>4. owner[a] = t
  BY <1>3 DEF Holders
<1>. QED  BY <1>2, <1>4 DEF CrossFlows

\* Receipts of an experiment show every connection to a registered address
\* that one other member alone has.
THEOREM FlowsAreShown == Spec => []FlowsShown
BY AddressInvariant, ShownFlows, PTL

\* An entry of the map is taken over by a declaration only.
LEMMA StandsStep ==
    TypeOK /\ [Next]_vars =>
        \A a \in DOMAIN owner :
            /\ a \in DOMAIN owner'
            /\ owner'[a] # owner[a] => buffer' = buffer /\ a \in declared'[owner'[a]]
<1>. SUFFICES ASSUME TypeOK, [Next]_vars, NEW a \in DOMAIN owner
              PROVE  /\ a \in DOMAIN owner'
                     /\ owner'[a] # owner[a] => buffer' = buffer /\ a \in declared'[owner'[a]]
  OBVIOUS
<1>. TypeOfEvents /\ Map /\ TypeOfHistory
  BY TypeParts DEF TypeOfTables
<1>1. CASE owner' = owner
  BY <1>1
<1>2. CASE Dispatch
  BY <1>2, HeadEvent DEF Dispatch, Claim
<1>3. ASSUME NEW c \in Containers, NEW x, NEW ips \in SUBSET held[c], AddContainer(x, c, ips)
      PROVE  /\ a \in DOMAIN owner'
             /\ owner'[a] # owner[a] => buffer' = buffer /\ a \in declared'[owner'[a]]
  <2>1. ips \in SUBSET Addresses
    BY DEF TypeOfEvents
  <2>2. owner' = Declare(c, ips) /\ buffer' = buffer /\ declared' = [declared EXCEPT ![c] = @ \cup ips]
    BY <1>3 DEF AddContainer
  <2>3. CASE a \in ips
    <3>1. a \in DOMAIN owner' /\ owner'[a] = c
      BY <2>1, <2>2, <2>3 DEF Declare
    <3>2. a \in declared'[c]
      BY <2>2, <2>3 DEF TypeOfHistory
    <3>. QED  BY <2>2, <3>1, <3>2
  <2>4. CASE a \notin ips
    BY <2>1, <2>2, <2>4 DEF Declare
  <2>. QED  BY <2>3, <2>4
<1>. QED
  BY <1>1, <1>2, <1>3
     DEF Next, vars, tables, Push, ActionStart, DeleteContainer, CreateExperiment

\* The first container seen with an address keeps it, but for declarations.
THEOREM FirstClaim == Spec => FirstClaimStands
BY TypeCorrect, StandsStep, PTL DEF Spec, FirstClaimStands
=============================================================================
