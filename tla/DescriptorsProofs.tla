-------------------------- MODULE DescriptorsProofs --------------------------
(***************************************************************************)
(* Proofs about Descriptors, for any pids, descriptor numbers, files and   *)
(* queues.                                                                 *)
(*                                                                         *)
(* TableAgrees is inductive beside the types, since every step that opens  *)
(* a descriptor either enters it in the table or marks it; CreditsExact    *)
(* follows step by step from the table being right.                        *)
(***************************************************************************)
EXTENDS Descriptors, TLAPS

LEMMA Kinds ==
    /\ Nothing \notin Objects
    /\ Files \subseteq Objects /\ Queues \subseteq Objects /\ Other \in Objects
    /\ Other \notin Files /\ Other \notin Queues
    /\ Files \cap Queues = {}
BY DescriptorsAssumption DEF Objects

LEMMA PidOf == \A d \in Descriptors : d[1] \in Pids /\ d = <<d[1], d[2]>> /\ d[2] \in Fds
BY DEF Descriptors

LEMMA LowestFree == \A p \in Pids : \A d \in Lowest(p) : d \in Descriptors /\ d[1] = p
BY DEF Lowest

-----------------------------------------------------------------------------
(* Type correctness.                                                       *)

\* What TypeOK says of a step that records nothing.
TypeOfTable ==
    /\ running \subseteq Pids
    /\ object \in [Descriptors -> Objects \cup {Nothing}]
    /\ \A d \in Descriptors : Open(d) => d[1] \in running
    /\ fdTable \in [Descriptors -> Objects \cup {Nothing}]
    /\ blind \subseteq Descriptors

TypeOfUses ==
    /\ recorded \subseteq Uses /\ done \subseteq Uses
    /\ murky \subseteq {"read", "send", "receive"} \X Pids

LEMMA TypeParts == TypeOK <=> TypeOfTable /\ TypeOfUses
BY DEF TypeOK, TypeOfTable, TypeOfUses

\* Only transfers and messages change what is recorded.
Unrecorded == UNCHANGED <<recorded, done, murky>>

LEMMA TableStep == TypeOfTable /\ [Next]_vars => TypeOfTable'
<1>. SUFFICES ASSUME TypeOfTable, [Next]_vars PROVE TypeOfTable'
  OBVIOUS
<1>. USE Kinds
<1>1. CASE UNCHANGED vars
  BY <1>1 DEF vars, system, history, TypeOfTable, Open
<1>2. ASSUME NEW p \in Pids, Enter(p) PROVE TypeOfTable'
  BY <1>2 DEF Enter, history, TypeOfTable, Open
<1>3. ASSUME NEW p \in Pids, Exits(p), blind' = blind,
             \/ fdTable' = fdTable
             \/ fdTable' = [d \in Descriptors |-> IF d[1] = p THEN Nothing ELSE fdTable[d]]
      PROVE  TypeOfTable'
  BY <1>3 DEF Exits, TypeOfTable, Open
<1>4. ASSUME NEW p \in Pids, NEW child \in Pids, Fork(p, child) PROVE TypeOfTable'
  <2>1. \A n \in Fds : <<p, n>> \in Descriptors /\ <<child, n>> \in Descriptors
    BY DEF Descriptors
  <2>2. object' \in [Descriptors -> Objects \cup {Nothing}]
    BY <1>4, <2>1, PidOf DEF Fork, TypeOfTable
  <2>3. \A d \in Descriptors : Open(d)' => d[1] \in running'
    BY <1>4, PidOf DEF Fork, TypeOfTable, Open
  <2>4. blind' \subseteq Descriptors
    BY <1>4, <2>1 DEF Fork, TypeOfTable
  <2>. QED  BY <1>4, <2>2, <2>3, <2>4 DEF Fork, TypeOfTable
<1>5. ASSUME NEW p \in Pids, NEW x \in Files \cup Queues, Opens(p, x) PROVE TypeOfTable'
  <2>1. PICK d \in Lowest(p) : /\ object' = [object EXCEPT ![d] = x]
                               /\ fdTable' = Enters(d, x)
                               /\ blind' = blind \ {d}
    BY <1>5 DEF Opens
  <2>2. d \in Descriptors /\ d[1] = p
    BY LowestFree
  <2>. QED  BY <1>5, <2>1, <2>2 DEF Opens, Enters, TypeOfTable, Open
<1>6. ASSUME NEW d \in Descriptors, Close(d) PROVE TypeOfTable'
  BY <1>6 DEF Close, history, TypeOfTable, Open
<1>7. ASSUME NEW d \in Descriptors, Connect(d) \/ ConnectFails(d) PROVE TypeOfTable'
  BY <1>7 DEF Connect, ConnectFails, Enters, system, TypeOfTable, Open
<1>8. ASSUME NEW d \in Descriptors, NEW x \in Objects, Install(d, x) PROVE TypeOfTable'
  BY <1>8 DEF Install, TypeOfTable, Open
<1>9. ASSUME NEW d \in Descriptors, NEW use, NEW kind, Records(d, use, kind)
      PROVE  TypeOfTable'
  BY <1>9 DEF Records, system, TypeOfTable, Open
<1>. QED
  BY <1>1, <1>2, <1>3, <1>4, <1>5, <1>6, <1>7, <1>8, <1>9
     DEF Next, ExitUnseen, ExitGroup, history, Transfer, Message

\* A step records one use at most, of a target of its kind.
LEMMA UsesStep == TypeOfTable /\ TypeOfUses /\ [Next]_vars => TypeOfUses'
<1>. SUFFICES ASSUME TypeOfTable, TypeOfUses, [Next]_vars PROVE TypeOfUses'
  OBVIOUS
<1>1. CASE Unrecorded
  BY <1>1 DEF Unrecorded, TypeOfUses
<1>2. ASSUME NEW d \in Descriptors, NEW use \in {"read", "send", "receive"}, NEW kind,
             {use} \X Pids \X kind \subseteq Uses, Records(d, use, kind)
      PROVE  TypeOfUses'
  <2>1. \A x \in kind : <<use, d[1], x>> \in Uses
    BY <1>2, PidOf
  <2>2. <<use, d[1]>> \in {"read", "send", "receive"} \X Pids
    BY PidOf
  <2>. QED  BY <1>2, <2>1, <2>2 DEF Records, Used, TypeOfUses
<1>3. ASSUME NEW d \in Descriptors, Transfer(d) PROVE TypeOfUses'
  <2>1. {"read"} \X Pids \X Files \subseteq Uses
    BY DEF Uses
  <2>. QED  BY <1>2, <1>3, <2>1 DEF Transfer
<1>4. ASSUME NEW d \in Descriptors, NEW use \in {"send", "receive"}, Message(d, use)
      PROVE  TypeOfUses'
  <2>1. {use} \X Pids \X Queues \subseteq Uses
    BY DEF Uses
  <2>. QED  BY <1>2, <1>4, <2>1 DEF Message
<1>. QED
  BY <1>1, <1>3, <1>4
     DEF Next, Unrecorded, vars, history, Enter, ExitUnseen, ExitGroup, Fork, Opens, Close,
         Connect, ConnectFails, Install

\* Types of the descriptor table, of what is recorded and of the history.
THEOREM TypeCorrect == Spec => []TypeOK
<1>1. Init => TypeOK
  BY Kinds DEF Init, TypeOK, Open
<1>2. TypeOK /\ [Next]_vars => TypeOK'
  <2>. SUFFICES ASSUME TypeOK, [Next]_vars PROVE TypeOK'
    OBVIOUS
  <2>1. TypeOfTable' /\ TypeOfUses'
    BY TypeParts, TableStep, UsesStep
  <2>. QED  BY <2>1 DEF TypeOK, TypeOfTable, TypeOfUses
<1>. QED  BY <1>1, <1>2, PTL DEF Spec

-----------------------------------------------------------------------------
(* What the table says.                                                    *)

LEMMA AgreesStep == TypeOfTable /\ TableAgrees /\ [Next]_vars => TableAgrees'
<1>. SUFFICES ASSUME TypeOfTable, TableAgrees, [Next]_vars,
                     NEW d \in Descriptors, d \notin blind', Open(d)'
              PROVE  fdTable'[d] = object'[d]
  BY DEF TableAgrees, Open
<1>. DEFINE Same == object' = object /\ fdTable' = fdTable /\ blind' = blind
<1>1. CASE Same
  BY <1>1 DEF TableAgrees, Open
<1>2. ASSUME NEW p \in Pids, Exits(p), blind' = blind,
             \/ fdTable' = fdTable
             \/ fdTable' = [e \in Descriptors |-> IF e[1] = p THEN Nothing ELSE fdTable[e]]
      PROVE  fdTable'[d] = object'[d]
  BY <1>2 DEF Exits, TableAgrees, Open
<1>3. ASSUME NEW p \in Pids, NEW child \in Pids, Fork(p, child)
      PROVE  fdTable'[d] = object'[d]
  <2>1. d[1] # child
    BY <1>3, PidOf DEF Fork, Open
  <2>. QED  BY <1>3, <2>1 DEF Fork, TableAgrees, Open
<1>4. ASSUME NEW e \in Descriptors, NEW x, fdTable' = Enters(e, x),
             \/ object' = [object EXCEPT ![e] = x]
             \/ object' = object /\ object[e] = x
             \/ object' = object /\ e \in blind',
             blind \subseteq blind' \cup {e}
      PROVE  fdTable'[d] = object'[d]
  <2>1. CASE e = d
    BY <1>4, <2>1 DEF Enters, TypeOfTable
  <2>2. CASE e # d
    BY <1>4, <2>2 DEF Enters, TypeOfTable, TableAgrees, Open
  <2>. QED  BY <2>1, <2>2
<1>5. ASSUME NEW p \in Pids, NEW x \in Files \cup Queues, Opens(p, x)
      PROVE  fdTable'[d] = object'[d]
  BY <1>4, <1>5, LowestFree DEF Opens
<1>6. ASSUME NEW e \in Descriptors, Close(e) PROVE fdTable'[d] = object'[d]
  BY <1>6 DEF Close, history, TypeOfTable, TableAgrees, Open
<1>7. ASSUME NEW e \in Descriptors, Connect(e) PROVE fdTable'[d] = object'[d]
  BY <1>4, <1>7 DEF Connect, system
<1>8. ASSUME NEW e \in Descriptors, ConnectFails(e) PROVE fdTable'[d] = object'[d]
  BY <1>4, <1>8 DEF ConnectFails, system
<1>9. ASSUME NEW e \in Descriptors, NEW x \in Objects, Install(e, x)
      PROVE  fdTable'[d] = object'[d]
  BY <1>9 DEF Install, TypeOfTable, TableAgrees, Open
<1>. QED
  BY <1>1, <1>2, <1>3, <1>5, <1>6, <1>7, <1>8, <1>9
     DEF Next, Enter, ExitUnseen, ExitGroup, Transfer, Message, Records, vars, system, history

\* The table is right about every open descriptor that the last call to give
\* it was seen of, whatever is closed, exits or is reused unseen.
THEOREM Agreement == Spec => []TableAgrees
<1>1. Init => TypeOfTable /\ TableAgrees
  BY Kinds DEF Init, TypeOfTable, TableAgrees, Open
<1>. QED  BY <1>1, TableStep, AgreesStep, PTL DEF Spec

-----------------------------------------------------------------------------
(* What transfers and messages leave behind.                               *)

LEMMA CreditsStep == TypeOfTable /\ TableAgrees /\ CreditsExact /\ [Next]_vars => CreditsExact'
<1>. SUFFICES ASSUME TypeOfTable, TableAgrees, CreditsExact, [Next]_vars
              PROVE  CreditsExact'
  OBVIOUS
<1>1. CASE Unrecorded
  BY <1>1 DEF Unrecorded, CreditsExact
<1>2. ASSUME NEW d \in Descriptors, NEW use, NEW kind, Open(d), Records(d, use, kind)
      PROVE  CreditsExact'
  <2>1. CASE d \in blind
    <3>1. done' = done /\ murky' = murky \cup {<<use, d[1]>>}
      BY <1>2, <2>1 DEF Records, Used
    <3>2. recorded' = recorded \/ recorded' = recorded \cup {<<use, d[1], Target(d)>>}
      BY <1>2 DEF Records
    <3>. QED  BY <3>1, <3>2 DEF CreditsExact
  <2>2. CASE d \notin blind
    <3>1. Target(d) = object[d]
      BY <1>2, <2>2 DEF TableAgrees, Target
    <3>2. CASE object[d] \in kind
      <4>1. /\ recorded' = recorded \cup {<<use, d[1], object[d]>>}
            /\ done' = done \cup {<<use, d[1], object[d]>>}
            /\ murky' = murky
        BY <1>2, <2>2, <3>1, <3>2 DEF Records, Used
      <4>. QED  BY <4>1 DEF CreditsExact
    <3>3. CASE object[d] \notin kind
      BY <1>2, <2>2, <3>1, <3>3 DEF Records, Used, CreditsExact
    <3>. QED  BY <3>2, <3>3
  <2>. QED  BY <2>1, <2>2
<1>3. ASSUME NEW d \in Descriptors, Transfer(d) PROVE CreditsExact'
  BY <1>2, <1>3, Kinds DEF Transfer, Open
<1>4. ASSUME NEW d \in Descriptors, NEW use \in {"send", "receive"}, Message(d, use)
      PROVE  CreditsExact'
  BY <1>2, <1>4, Kinds DEF Message, Open
<1>. QED
  BY <1>1, <1>3, <1>4
     DEF Next, Unrecorded, vars, history, Enter, ExitUnseen, ExitGroup, Fork, Opens, Close,
         Connect, ConnectFails, Install

\* Every transfer and message on a descriptor that is not blind is credited to
\* its file or queue, and nothing else is, save by users of blind ones.
THEOREM Credits == Spec => []CreditsExact
<1>1. Init => TypeOfTable /\ TableAgrees /\ CreditsExact
  BY Kinds DEF Init, TypeOfTable, TableAgrees, CreditsExact, Open
<1>. QED  BY <1>1, TableStep, AgreesStep, CreditsStep, PTL DEF Spec
=============================================================================
