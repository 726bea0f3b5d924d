------------------------ MODULE AuditAssemblyProofs ------------------------
(***************************************************************************)
(* Proofs about AuditAssembly, for any number of serials, kinds of record, *)
(* thresholds and losses.                                                  *)
(***************************************************************************)
EXTENDS AuditAssembly, FiniteSetTheorems, TLAPS

\* Calls under way are close to the newest serial received.
Close ==
    /\ maxSerial = 0 \/ maxSerial \in begun
    /\ \A s \in begun : \A t \in 1..s : t \notin ended => s - t < Spread
    /\ \A s \in begun : Arrived(s, "SYSCALL") => s <= maxSerial

\* Nothing is lost before it is emitted.
LostEmitted ==
    \A s \in Serials :
        /\ <<s, "SYSCALL">> \in lost => s \in begun
        /\ <<s, "EOE">> \in lost => s \in ended
        /\ \A k \in Aux : <<s, k>> \in lost => k \in aux[s]
        /\ aux[s] # {} => s \in begun

\* The two tables: what is in them, and what must be.
Tables ==
    /\ \A s \in pending : call[s].container /\ Arrived(s, "SYSCALL")
    /\ \A s \in skipSerials : ~call[s].container
    /\ \A s \in begun \ ended :
          Arrived(s, "SYSCALL") =>
             IF call[s].container THEN s \in pending ELSE s \in skipSerials
    /\ \A s \in pending \cup skipSerials : s <= maxSerial
    /\ \A s \in pending : group[s] = ArrivedAux(s)
    /\ \A s \in Serials \ pending : group[s] = {}

AInv == /\ TypeOK /\ Close /\ LostEmitted /\ Tables
        /\ OnlyLossLeaks /\ GroupsIntact /\ DeliveredExactly

-----------------------------------------------------------------------------
(* Type correctness.                                                       *)

LEMMA AppendType ==
    ASSUME NEW S, NEW seq \in Seq(S), NEW e \in S PROVE Append(seq, e) \in Seq(S)
OBVIOUS

LEMMA TypeInit == Init => TypeOK
BY AssemblyAssumption DEF Init, TypeOK, Serials, Calls

LEMMA TypeNext == TypeOK /\ [Next]_vars => TypeOK'
<1>. SUFFICES ASSUME TypeOK, [Next]_vars PROVE TypeOK'
  OBVIOUS
<1>. USE AssemblyAssumption
<1>1. ASSUME NEW s \in Serials, Syscall(s) PROVE TypeOK'
  <2>1. /\ begun' = begun \cup {s} /\ UNCHANGED <<ended, aux, group, delivered>>
        /\ call' \in [Serials -> Calls]
    BY <1>1 DEF Syscall, RecvSyscall, TypeOK, assembly
  <2>2. lost' \subseteq Serials \X (Aux \cup {"SYSCALL", "EOE"})
    BY <1>1 DEF Syscall, Lose, TypeOK
  <2>3. pending' \subseteq begun' /\ skipSerials' \subseteq begun'
    BY <1>1 DEF Syscall, RecvSyscall, TypeOK, assembly
  <2>4. maxSerial' = s \/ maxSerial' = maxSerial
    BY <1>1 DEF Syscall, RecvSyscall, assembly
  <2>5. maxSerial' \in 0..MaxSerial
    BY <2>4 DEF TypeOK, Serials
  <2>6. begun' \subseteq Serials /\ ended' \subseteq begun'
    BY <2>1 DEF TypeOK
  <2>. QED  BY <2>1, <2>2, <2>3, <2>5, <2>6 DEF TypeOK
<1>2. ASSUME NEW s \in Serials, NEW k \in Aux, Auxiliary(s, k) PROVE TypeOK'
  <2>1. /\ UNCHANGED <<begun, ended, call, pending, skipSerials, maxSerial, delivered>>
        /\ aux' \in [Serials -> SUBSET Aux]
    BY <1>2 DEF Auxiliary, RecvAux, TypeOK, assembly
  <2>2. lost' \subseteq Serials \X (Aux \cup {"SYSCALL", "EOE"})
    BY <1>2 DEF Auxiliary, Lose, TypeOK
  <2>3. group' \in [Serials -> SUBSET Records]
    BY <1>2 DEF Auxiliary, RecvAux, TypeOK, assembly, Records
  <2>. QED  BY <2>1, <2>2, <2>3 DEF TypeOK
<1>3. ASSUME NEW s \in Serials, Eoe(s) PROVE TypeOK'
  <2>1. UNCHANGED <<begun, call, aux, maxSerial>> /\ ended' \subseteq begun'
    BY <1>3 DEF Eoe, RecvEoe, TypeOK, assembly, Underway
  <2>2. lost' \subseteq Serials \X (Aux \cup {"SYSCALL", "EOE"})
    BY <1>3 DEF Eoe, Lose, TypeOK
  <2>3. pending' \subseteq begun /\ skipSerials' \subseteq begun
    BY <1>3 DEF Eoe, RecvEoe, Gc, TypeOK, assembly
  <2>4. group' \in [Serials -> SUBSET Records]
    BY <1>3 DEF Eoe, RecvEoe, Gc, TypeOK, assembly
  <2>5. delivered' \in Seq([serial : Serials, records : SUBSET Records])
    <3>. DEFINE Groups == [serial : Serials, records : SUBSET Records]
                this == [serial |-> s, records |-> group[s]]
    <3>1. this \in Groups /\ delivered \in Seq(Groups)
      BY DEF TypeOK
    <3>2. delivered' = delivered \/ delivered' = Append(delivered, this)
      BY <1>3 DEF Eoe, RecvEoe
    <3>. HIDE DEF Groups, this
    <3>3. delivered' \in Seq(Groups)
      BY <3>1, <3>2, AppendType
    <3>. QED  BY <3>3 DEF Groups
  <2>. QED  BY <2>1, <2>2, <2>3, <2>4, <2>5 DEF TypeOK
<1>4. CASE UNCHANGED vars
  BY <1>4 DEF vars, kernel, assembly, TypeOK
<1>. QED  BY <1>1, <1>2, <1>3, <1>4 DEF Next

\* Every reachable state of the assembly has its type.
THEOREM TypeCorrect == Spec => []TypeOK
<1>. QED  BY TypeInit, TypeNext, PTL DEF Spec

-----------------------------------------------------------------------------
(* The inductive invariant.                                                *)

LEMMA InvInit == Init => AInv
<1>. SUFFICES ASSUME Init PROVE AInv
  OBVIOUS
<1>1. TypeOK
  BY TypeInit
<1>2. Close /\ LostEmitted /\ Tables /\ OnlyLossLeaks
  BY DEF Init, Close, LostEmitted, Tables, OnlyLossLeaks, Arrived
<1>3. DOMAIN delivered = {}
  BY DEF Init
<1>4. GroupsIntact /\ DeliveredExactly
  BY <1>3 DEF Init, GroupsIntact, DeliveredExactly, DeliveredSerials, Deliverable
<1>. QED  BY <1>1, <1>2, <1>4 DEF AInv

\* A record of one kind says nothing of another kind.
LEMMA KindsDiffer == "SYSCALL" # "EOE" /\ \A k \in Aux : k # "SYSCALL" /\ k # "EOE"
BY AssemblyAssumption

\* What has been delivered belongs to calls that have ended.
LEMMA DeliveredEnded ==
    ASSUME TypeOK, DeliveredExactly, NEW i \in DOMAIN delivered
    PROVE  delivered[i].serial \in ended
BY DEF DeliveredExactly, DeliveredSerials, Deliverable

\* A step that changes nothing about the calls that have ended, and delivers
\* nothing, keeps what is said of the deliveries.
LEMMA DeliveriesKept ==
    ASSUME AInv, UNCHANGED <<ended, delivered>>,
           \A t \in ended : /\ ArrivedAux(t)' = ArrivedAux(t)
                            /\ call'[t] = call[t]
                            /\ Arrived(t, "SYSCALL")' <=> Arrived(t, "SYSCALL")
                            /\ Arrived(t, "EOE")' <=> Arrived(t, "EOE")
    PROVE  GroupsIntact' /\ DeliveredExactly'
<1>1. TypeOK /\ GroupsIntact /\ DeliveredExactly
  BY DEF AInv
<1>2. GroupsIntact'
  BY <1>1, DeliveredEnded DEF GroupsIntact
<1>3. \A t \in Serials : Deliverable(t)' <=> Deliverable(t)
  BY DEF Deliverable
<1>4. DeliveredSerials' = DeliveredSerials
  BY DEF DeliveredSerials
<1>. QED  BY <1>1, <1>2, <1>3, <1>4 DEF DeliveredExactly

LEMMA SyscallStep ==
    ASSUME AInv, NEW s \in Serials, Syscall(s) PROVE Close' /\ LostEmitted' /\ Tables'
                 /\ OnlyLossLeaks' /\ GroupsIntact' /\ DeliveredExactly'
<1>. USE AssemblyAssumption, KindsDiffer
<1>1. /\ TypeOK /\ Close /\ LostEmitted /\ Tables /\ OnlyLossLeaks
      /\ GroupsIntact /\ DeliveredExactly
  BY DEF AInv
<1>2. /\ s \notin begun /\ s \notin ended /\ begun' = begun \cup {s}
      /\ UNCHANGED <<ended, aux, group, delivered>>
      /\ \A t \in Serials : t # s => call'[t] = call[t]
  BY <1>1 DEF Syscall, MayBegin, RecvSyscall, TypeOK, assembly
<1>3. \/ RecvSyscall(s) /\ lost' = lost
      \/ lost' = lost \cup {<<s, "SYSCALL">>} /\ UNCHANGED <<pending, skipSerials, maxSerial>>
  BY DEF Syscall, Lose, assembly
<1>4. s \notin pending /\ s \notin skipSerials /\ aux[s] = {} /\ group[s] = {}
      /\ <<s, "SYSCALL">> \notin lost
  BY <1>1, <1>2 DEF TypeOK, LostEmitted, Tables
<1>5. \A t \in Serials : ArrivedAux(t)' = ArrivedAux(t)
  BY <1>1, <1>2, <1>3, <1>4 DEF ArrivedAux, Arrived, RecvSyscall, LostEmitted
<1>6. \A t \in Serials : t # s => /\ Arrived(t, "SYSCALL")' <=> Arrived(t, "SYSCALL")
                                  /\ Arrived(t, "EOE")' <=> Arrived(t, "EOE")
  BY <1>1, <1>2, <1>3 DEF Arrived
<1>7. Close'
  <2>1. maxSerial' = 0 \/ maxSerial' \in begun'
    BY <1>1, <1>2, <1>3 DEF Close, RecvSyscall
  <2>2. \A u \in begun' : \A t \in 1..u : t \notin ended' => u - t < Spread
    BY <1>1, <1>2 DEF Close, Syscall, MayBegin
  <2>3. s <= maxSerial' \/ <<s, "SYSCALL">> \in lost'
    BY <1>1, <1>3 DEF RecvSyscall, TypeOK, Serials
  <2>4. maxSerial <= maxSerial'
    BY <1>1, <1>3 DEF RecvSyscall, TypeOK, Serials
  <2>5. maxSerial \in Int /\ maxSerial' \in Int /\ begun' \subseteq Serials
    BY <1>1, <1>2, <1>3 DEF RecvSyscall, TypeOK, Serials
  <2>6. \A u \in begun' : Arrived(u, "SYSCALL")' => u <= maxSerial'
    <3>1. \A u \in begun : Arrived(u, "SYSCALL") => u <= maxSerial
      BY <1>1 DEF Close
    <3>2. \A u \in begun : u # s /\ u \in Serials /\ u \in Int
      BY <1>1, <1>2 DEF TypeOK, Serials
    <3>3. Arrived(s, "SYSCALL")' => s <= maxSerial'
      BY <2>3 DEF Arrived
    <3>4. ASSUME NEW u \in begun, Arrived(u, "SYSCALL")' PROVE u <= maxSerial'
      BY <1>6, <2>4, <2>5, <3>1, <3>2, <3>4
    <3>. QED  BY <1>2, <3>3, <3>4
  <2>. QED  BY <2>1, <2>2, <2>6 DEF Close
<1>8. LostEmitted'
  <2>1. lost' \subseteq lost \cup {<<s, "SYSCALL">>} /\ begun \subseteq begun' /\ s \in begun'
    BY <1>2, <1>3
  <2>2. ASSUME NEW t \in Serials, NEW k \in Aux \cup {"EOE"}
        PROVE  <<t, k>> \in lost' => <<t, k>> \in lost
    BY <2>1
  <2>3. ASSUME NEW t \in Serials PROVE <<t, "SYSCALL">> \in lost' => t \in begun'
    BY <1>1, <2>1 DEF LostEmitted
  <2>. QED  BY <1>1, <1>2, <2>1, <2>2, <2>3 DEF LostEmitted
<1>9. Tables'
  <2>1. \A t \in pending' : call'[t].container /\ Arrived(t, "SYSCALL")'
    <3>1. \A t \in pending : t # s /\ t \in Serials /\ call[t].container /\ Arrived(t, "SYSCALL")
      BY <1>1, <1>4 DEF Tables, TypeOK
    <3>2. s \in pending' => call'[s].container /\ Arrived(s, "SYSCALL")'
      BY <1>2, <1>3, <1>4 DEF RecvSyscall, Arrived
    <3>3. pending' \subseteq pending \cup {s}
      BY <1>3 DEF RecvSyscall
    <3>. QED  BY <1>2, <1>6, <3>1, <3>2, <3>3
  <2>2. \A t \in skipSerials' : ~call'[t].container
    BY <1>1, <1>2, <1>3, <1>4 DEF Tables, RecvSyscall, TypeOK
  <2>3. \A t \in begun' \ ended' : Arrived(t, "SYSCALL")' =>
             IF call'[t].container THEN t \in pending' ELSE t \in skipSerials'
    BY <1>1, <1>2, <1>3, <1>6 DEF Tables, RecvSyscall, Arrived, TypeOK
  <2>4. \A t \in pending' \cup skipSerials' : t <= maxSerial'
    <3>1. \A t \in pending \cup skipSerials : t \in Int /\ t <= maxSerial
      BY <1>1 DEF Tables, TypeOK, Serials
    <3>2. /\ s \in Int /\ maxSerial \in Int /\ maxSerial' \in Int
          /\ maxSerial <= maxSerial'
          /\ \/ s <= maxSerial' /\ pending' \cup skipSerials' \subseteq pending \cup skipSerials \cup {s}
             \/ pending' \cup skipSerials' = pending \cup skipSerials
      BY <1>1, <1>3 DEF RecvSyscall, TypeOK, Serials
    <3>. QED  BY <3>1, <3>2
  <2>5. \A t \in pending' : group'[t] = ArrivedAux(t)'
    <3>1. ArrivedAux(s) = {}
      BY <1>4 DEF ArrivedAux
    <3>. QED  BY <1>1, <1>2, <1>3, <1>4, <1>5, <3>1 DEF Tables, RecvSyscall, TypeOK
  <2>6. \A t \in Serials \ pending' : group'[t] = {}
    BY <1>1, <1>2, <1>3 DEF Tables, RecvSyscall
  <2>. QED  BY <2>1, <2>2, <2>3, <2>4, <2>5, <2>6 DEF Tables
<1>10. OnlyLossLeaks'
  BY <1>1, <1>2, <1>3, <1>4 DEF OnlyLossLeaks, RecvSyscall
<1>11. ended \subseteq Serials
  BY <1>1 DEF TypeOK
<1>12. GroupsIntact' /\ DeliveredExactly'
  BY <1>2, <1>5, <1>6, <1>11, DeliveriesKept
<1>. QED  BY <1>7, <1>8, <1>9, <1>10, <1>12

LEMMA AuxiliaryStep ==
    ASSUME AInv, NEW s \in Serials, NEW k \in Aux, Auxiliary(s, k)
    PROVE  /\ Close' /\ LostEmitted' /\ Tables'
           /\ OnlyLossLeaks' /\ GroupsIntact' /\ DeliveredExactly'
<1>. USE AssemblyAssumption, KindsDiffer
<1>1. /\ TypeOK /\ Close /\ LostEmitted /\ Tables /\ OnlyLossLeaks
      /\ GroupsIntact /\ DeliveredExactly
  BY DEF AInv
<1>2. /\ s \in begun /\ s \notin ended /\ k \notin aux[s]
      /\ aux' = [aux EXCEPT ![s] = @ \cup {k}]
      /\ UNCHANGED <<begun, ended, call, pending, skipSerials, maxSerial, delivered>>
  BY DEF Auxiliary, Underway, RecvAux, assembly
<1>3. \/ RecvAux(s, k) /\ lost' = lost
      \/ lost' = lost \cup {<<s, k>>} /\ group' = group
  BY DEF Auxiliary, Lose, assembly
<1>4. <<s, k>> \notin lost /\ aux'[s] = aux[s] \cup {k}
      /\ \A t \in Serials : t # s => aux'[t] = aux[t]
  BY <1>1, <1>2 DEF LostEmitted, TypeOK
<1>5. lost \subseteq lost' /\ lost' \subseteq lost \cup {<<s, k>>}
  BY <1>3
<1>6. \A t \in Serials : /\ Arrived(t, "SYSCALL")' <=> Arrived(t, "SYSCALL")
                         /\ Arrived(t, "EOE")' <=> Arrived(t, "EOE")
  BY <1>2, <1>5 DEF Arrived
<1>7. \A t \in Serials : t # s => ArrivedAux(t)' = ArrivedAux(t)
  BY <1>2, <1>4, <1>5 DEF ArrivedAux, Arrived
<1>8. ArrivedAux(s)' = IF lost' = lost THEN ArrivedAux(s) \cup {<<s, k>>} ELSE ArrivedAux(s)
  <2>1. CASE lost' = lost
    BY <1>2, <1>4, <2>1 DEF ArrivedAux, Arrived
  <2>2. CASE lost' = lost \cup {<<s, k>>} /\ lost' # lost
    BY <1>2, <1>4, <2>2 DEF ArrivedAux, Arrived
  <2>. QED  BY <1>3, <2>1, <2>2
<1>9. Close'
  BY <1>1, <1>2, <1>6 DEF Close, TypeOK
<1>10. LostEmitted'
  <2>1. ASSUME NEW t \in Serials, NEW l \in {"SYSCALL", "EOE"}
        PROVE  <<t, l>> \in lost' => <<t, l>> \in lost
    BY <1>5
  <2>2. ASSUME NEW t \in Serials, NEW l \in Aux PROVE <<t, l>> \in lost' => l \in aux'[t]
    BY <1>1, <1>4, <1>5 DEF LostEmitted
  <2>. QED  BY <1>1, <1>2, <1>4, <2>1, <2>2 DEF LostEmitted
<1>11. Tables'
  <2>1. s \in pending => s \notin skipSerials
    BY <1>1 DEF OnlyLossLeaks
  <2>2. /\ \A t \in Serials : t # s => group'[t] = group[t]
        /\ group'[s] = IF s \in pending /\ lost' = lost THEN group[s] \cup {<<s, k>>} ELSE group[s]
    BY <1>1, <1>3, <1>4, <2>1 DEF RecvAux, TypeOK
  <2>3. \A t \in pending' : group'[t] = ArrivedAux(t)'
    BY <1>1, <1>2, <1>7, <1>8, <2>2 DEF Tables, TypeOK
  <2>4. \A t \in Serials \ pending' : group'[t] = {}
    BY <1>1, <1>2, <2>2 DEF Tables
  <2>. QED  BY <1>1, <1>2, <1>6, <2>3, <2>4 DEF Tables, TypeOK
<1>12. OnlyLossLeaks'
  BY <1>1, <1>2, <1>5 DEF OnlyLossLeaks
<1>13. \A t \in ended : t \in Serials /\ t # s
  BY <1>1, <1>2 DEF TypeOK
<1>14. GroupsIntact' /\ DeliveredExactly'
  BY <1>2, <1>6, <1>7, <1>13, DeliveriesKept
<1>. QED  BY <1>9, <1>10, <1>11, <1>12, <1>14

\* gc spares every group whose call is under way.
LEMMA GcSpares ==
    ASSUME AInv, NEW groups, NEW t \in begun \ ended, Arrived(t, "SYSCALL"), Gc(groups)
    PROVE  /\ t \in groups => t \in pending'
           /\ t \in skipSerials => t \in skipSerials'
<1>1. t \in Serials /\ t \in Int /\ t >= 1 /\ maxSerial \in Nat
  BY AssemblyAssumption DEF AInv, TypeOK, Serials
<1>2. t <= maxSerial
  BY DEF AInv, Close
<1>3. maxSerial \in begun
  BY <1>1, <1>2 DEF AInv, Close
<1>4. maxSerial - t < Spread
  BY <1>1, <1>2, <1>3 DEF AInv, Close
<1>5. t > (IF maxSerial > Window THEN maxSerial - Window ELSE 0)
  BY <1>1, <1>4, AssemblyAssumption
<1>. QED  BY <1>5 DEF Gc

\* What try_recv makes of an EOE, as far as the invariant goes.
LEMMA EoeTables ==
    ASSUME AInv, NEW s \in begun \ ended, RecvEoe(s)
    PROVE  /\ pending' \subseteq pending \ {s} /\ skipSerials' \subseteq skipSerials \ {s}
           /\ \A t \in begun \ ended : t # s /\ Arrived(t, "SYSCALL") =>
                 /\ t \in pending => t \in pending'
                 /\ t \in skipSerials => t \in skipSerials'
           /\ \A t \in Serials : group'[t] = IF t \in pending' THEN group[t] ELSE {}
           /\ maxSerial' = maxSerial
<1>1. TypeOK /\ Tables /\ OnlyLossLeaks
  BY DEF AInv
<1>2. CASE s \in skipSerials /\ skipSerials' = skipSerials \ {s}
           /\ UNCHANGED <<pending, group, maxSerial>>
  BY <1>1, <1>2 DEF Tables, OnlyLossLeaks
<1>3. CASE s \notin skipSerials /\ Gc(pending \ {s}) /\ maxSerial' = maxSerial
  <2>1. /\ pending' \subseteq pending \ {s} /\ skipSerials' \subseteq skipSerials \ {s}
        /\ \A t \in Serials : group'[t] = IF t \in pending' THEN group[t] ELSE {}
    BY <1>1, <1>3 DEF Gc
  <2>. QED  BY <1>3, <2>1, GcSpares
<1>. QED  BY <1>2, <1>3 DEF RecvEoe

LEMMA EoeStep ==
    ASSUME AInv, NEW s \in Serials, Eoe(s)
    PROVE  /\ Close' /\ LostEmitted' /\ Tables'
           /\ OnlyLossLeaks' /\ GroupsIntact' /\ DeliveredExactly'
<1>. USE AssemblyAssumption, KindsDiffer
<1>1. /\ TypeOK /\ Close /\ LostEmitted /\ Tables /\ OnlyLossLeaks
      /\ GroupsIntact /\ DeliveredExactly
  BY DEF AInv
<1>2. /\ s \in begun \ ended /\ ended' = ended \cup {s}
      /\ UNCHANGED <<begun, call, aux>> /\ maxSerial' = maxSerial
  BY DEF Eoe, Underway, RecvEoe, assembly
<1>3. \/ RecvEoe(s) /\ lost' = lost
      \/ /\ lost' = lost \cup {<<s, "EOE">>}
         /\ UNCHANGED <<pending, skipSerials, group, delivered>>
  BY DEF Eoe, Lose, assembly
<1>4. lost \subseteq lost' /\ lost' \subseteq lost \cup {<<s, "EOE">>} /\ <<s, "EOE">> \notin lost
  BY <1>1, <1>2, <1>3 DEF LostEmitted
<1>5. \A t \in Serials : /\ Arrived(t, "SYSCALL")' <=> Arrived(t, "SYSCALL")
                         /\ ArrivedAux(t)' = ArrivedAux(t)
                         /\ t # s => (Arrived(t, "EOE")' <=> Arrived(t, "EOE"))
  <2>1. \A t \in Serials : \A l \in Aux \cup {"SYSCALL"} : <<t, l>> \in lost' <=> <<t, l>> \in lost
    BY <1>4
  <2>2. \A t \in Serials : t # s => (<<t, "EOE">> \in lost' <=> <<t, "EOE">> \in lost)
    BY <1>4
  <2>3. \A t \in Serials : \A l \in aux[t] : l \in Aux
    BY <1>1 DEF TypeOK
  <2>4. \A t \in Serials : ArrivedAux(t)' = ArrivedAux(t)
    BY <1>2, <2>1, <2>3 DEF Arrived, ArrivedAux
  <2>. QED  BY <1>2, <2>1, <2>2, <2>4 DEF Arrived
<1>6. /\ pending' \subseteq pending /\ skipSerials' \subseteq skipSerials
      /\ s \in pending' \cup skipSerials' => lost' # lost
      /\ \A t \in begun' \ ended' : Arrived(t, "SYSCALL") =>
            /\ t \in pending => t \in pending'
            /\ t \in skipSerials => t \in skipSerials'
      /\ \A t \in Serials : group'[t] = IF t \in pending' THEN group[t] ELSE {}
  <2>1. CASE RecvEoe(s) /\ lost' = lost
    BY <1>2, <2>1, EoeTables
  <2>2. CASE /\ lost' = lost \cup {<<s, "EOE">>}
             /\ UNCHANGED <<pending, skipSerials, group, delivered>>
    BY <1>1, <1>4, <2>2 DEF Tables
  <2>. QED  BY <1>3, <2>1, <2>2
<1>7. Close'
  BY <1>1, <1>2, <1>5 DEF Close, TypeOK
<1>8. LostEmitted'
  <2>1. ASSUME NEW t \in Serials, NEW l \in Aux \cup {"SYSCALL"}
        PROVE  <<t, l>> \in lost' => <<t, l>> \in lost
    BY <1>4
  <2>2. ASSUME NEW t \in Serials PROVE <<t, "EOE">> \in lost' => t \in ended'
    BY <1>1, <1>2, <1>4 DEF LostEmitted
  <2>. QED  BY <1>1, <1>2, <2>1, <2>2 DEF LostEmitted
<1>9. Tables'
  <2>1. \A t \in pending' : t \in Serials /\ call'[t].container /\ Arrived(t, "SYSCALL")'
                            /\ group'[t] = ArrivedAux(t)'
    BY <1>1, <1>2, <1>5, <1>6 DEF Tables, TypeOK
  <2>2. \A t \in begun' \ ended' : Arrived(t, "SYSCALL")' =>
             IF call'[t].container THEN t \in pending' ELSE t \in skipSerials'
    BY <1>1, <1>2, <1>5, <1>6 DEF Tables, TypeOK
  <2>. QED  BY <1>1, <1>2, <1>6, <2>1, <2>2 DEF Tables
<1>10. OnlyLossLeaks'
  <2>1. s \in pending' \cup skipSerials' => <<s, "EOE">> \in lost'
    BY <1>3, <1>6
  <2>. QED  BY <1>1, <1>2, <1>4, <1>6, <2>1 DEF OnlyLossLeaks
<1>11. CASE delivered' = delivered /\ ~Deliverable(s)'
  <2>1. \A t \in Serials : Deliverable(t)' <=> Deliverable(t)
    BY <1>2, <1>5, <1>11 DEF Deliverable
  <2>2. DeliveredSerials' = DeliveredSerials
    BY <1>11 DEF DeliveredSerials
  <2>3. \A i \in DOMAIN delivered : delivered[i].serial \in Serials
    BY <1>1, DeliveredEnded DEF TypeOK
  <2>4. GroupsIntact'
    BY <1>1, <1>5, <1>11, <2>3 DEF GroupsIntact
  <2>5. DeliveredExactly'
    BY <1>1, <1>11, <2>1, <2>2 DEF DeliveredExactly
  <2>. QED  BY <1>7, <1>8, <1>9, <1>10, <2>4, <2>5
<1>12. CASE /\ delivered' = Append(delivered, [serial |-> s, records |-> group[s]])
            /\ s \in pending /\ Deliverable(s)'
  <2>. DEFINE n == Len(delivered)
  <2>1. /\ n \in Nat /\ DOMAIN delivered = 1..n /\ DOMAIN delivered' = 1..(n + 1)
        /\ \A i \in 1..n : delivered'[i] = delivered[i]
        /\ delivered'[n + 1] = [serial |-> s, records |-> group[s]]
    <3>. DEFINE this == [serial |-> s, records |-> group[s]]
    <3>1. delivered \in Seq([serial : Serials, records : SUBSET Records])
      BY <1>1 DEF TypeOK
    <3>2. delivered' = Append(delivered, this)
      BY <1>12
    <3>. HIDE DEF this
    <3>3. /\ n \in Nat /\ DOMAIN delivered = 1..n /\ DOMAIN delivered' = 1..(n + 1)
          /\ \A i \in 1..n : delivered'[i] = delivered[i]
          /\ delivered'[n + 1] = this
      BY <3>1, <3>2
    <3>. QED  BY <3>3 DEF this
  <2>2. delivered'[n + 1].serial = s /\ delivered'[n + 1].records = ArrivedAux(s)'
    BY <1>1, <1>5, <1>12, <2>1 DEF Tables
  <2>3. \A i \in 1..n : delivered'[i].serial \in ended /\ delivered'[i].serial # s
    BY <1>1, <1>2, <2>1, DeliveredEnded
  <2>. HIDE DEF n
  <2>4. GroupsIntact'
    <3>1. \A i \in 1..n : \E t \in Serials :
             delivered'[i].serial = t /\ delivered'[i].records = ArrivedAux(t)'
      BY <1>1, <1>5, <2>1, <2>3 DEF GroupsIntact, TypeOK
    <3>2. \A i \in 1..(n + 1) : \E t \in Serials :
             delivered'[i].serial = t /\ delivered'[i].records = ArrivedAux(t)'
      BY <2>1, <2>2, <3>1
    <3>. QED  BY <2>1, <3>2 DEF GroupsIntact
  <2>5. DeliveredSerials' = DeliveredSerials \cup {s}
    BY <2>1, <2>2 DEF DeliveredSerials
  <2>6. \A t \in Serials : Deliverable(t)' <=> Deliverable(t) \/ t = s
    BY <1>2, <1>5, <1>12 DEF Deliverable
  <2>7. \A i, j \in DOMAIN delivered' : delivered'[i].serial = delivered'[j].serial => i = j
    BY <1>1, <2>1, <2>2, <2>3 DEF DeliveredExactly
  <2>8. DeliveredExactly'
    BY <1>1, <2>5, <2>6, <2>7 DEF DeliveredExactly
  <2>. QED  BY <1>7, <1>8, <1>9, <1>10, <2>4, <2>8
<1>13. \/ delivered' = delivered /\ ~Deliverable(s)'
       \/ /\ delivered' = Append(delivered, [serial |-> s, records |-> group[s]])
          /\ s \in pending /\ Deliverable(s)'
  <2>1. CASE lost' = lost \cup {<<s, "EOE">>}
    BY <1>3, <1>4, <2>1 DEF Deliverable, Arrived, RecvEoe
  <2>2. CASE lost' = lost /\ RecvEoe(s)
    <3>1. s \in pending <=> call[s].container /\ Arrived(s, "SYSCALL")
      BY <1>1, <1>2 DEF Tables, OnlyLossLeaks
    <3>2. s \in pending => group[s] = ArrivedAux(s)
      BY <1>1 DEF Tables
    <3>3. s \in pending => s \notin skipSerials
      BY <1>1 DEF OnlyLossLeaks
    <3>4. Deliverable(s)' <=> s \in pending /\ Wanted(s)
      BY <1>2, <1>4, <1>5, <2>2, <3>1, <3>2 DEF Deliverable, Wanted, Arrived
    <3>. QED  BY <2>2, <3>3, <3>4 DEF RecvEoe
  <2>. QED  BY <1>3, <2>1, <2>2
<1>. QED  BY <1>7, <1>8, <1>9, <1>10, <1>11, <1>12, <1>13

LEMMA InvNext == AInv /\ [Next]_vars => AInv'
<1>. SUFFICES ASSUME AInv, [Next]_vars PROVE AInv'
  OBVIOUS
<1>1. TypeOK'
  BY TypeNext DEF AInv
<1>2. CASE \E s \in Serials : Syscall(s)
  BY <1>1, <1>2, SyscallStep DEF AInv
<1>3. CASE \E s \in Serials : \E k \in Aux : Auxiliary(s, k)
  BY <1>1, <1>3, AuxiliaryStep DEF AInv
<1>4. CASE \E s \in Serials : Eoe(s)
  BY <1>1, <1>4, EoeStep DEF AInv
<1>5. CASE UNCHANGED vars
  <2>1. UNCHANGED <<begun, ended, call, aux, lost, pending, group, skipSerials,
                    maxSerial, delivered>>
    BY <1>5 DEF vars, kernel, assembly
  <2>2. Close' /\ LostEmitted' /\ Tables' /\ OnlyLossLeaks'
    BY <2>1 DEF AInv, Close, LostEmitted, Tables, OnlyLossLeaks, Arrived, ArrivedAux
  <2>3. GroupsIntact' /\ DeliveredExactly'
    <3>1. \A t \in ended : /\ ArrivedAux(t)' = ArrivedAux(t)
                           /\ call'[t] = call[t]
                           /\ Arrived(t, "SYSCALL")' <=> Arrived(t, "SYSCALL")
                           /\ Arrived(t, "EOE")' <=> Arrived(t, "EOE")
      BY <2>1 DEF ArrivedAux, Arrived
    <3>. QED  BY <2>1, <3>1, DeliveriesKept
  <2>. QED  BY <1>1, <2>2, <2>3 DEF AInv
<1>. QED  BY <1>2, <1>3, <1>4, <1>5 DEF Next

\* The inductive invariant holds of every reachable state.
THEOREM InductiveInvariant == Spec => []AInv
<1>. QED  BY InvInit, InvNext, PTL DEF Spec

-----------------------------------------------------------------------------
(* What the assembly promises.                                             *)

\* A delivered group holds exactly the records of its own call that arrived.
THEOREM GroupsAreIntact == Spec => []GroupsIntact
<1>1. AInv => GroupsIntact
  BY DEF AInv
<1>. QED  BY <1>1, InductiveInvariant, PTL

\* Exactly the calls that should be are delivered, once; gc takes none away.
THEOREM DeliveryIsExact == Spec => []DeliveredExactly
<1>1. AInv => DeliveredExactly
  BY DEF AInv
<1>. QED  BY <1>1, InductiveInvariant, PTL

\* An entry outlives its call only if the EOE was lost.
THEOREM LeaksComeFromLoss == Spec => []OnlyLossLeaks
<1>1. AInv => OnlyLossLeaks
  BY DEF AInv
<1>. QED  BY <1>1, InductiveInvariant, PTL

\* After gc has run, the table has at most Threshold or Window groups.
LEMMA GcStep ==
    ASSUME AInv, Next, NEW s \in Serials, s \notin skipSerials, s \in ended' \ ended,
           lost' = lost
    PROVE  Cardinality(pending') <= Threshold \/ Cardinality(pending') <= Window
<1>1. Eoe(s)
  BY DEF Next, Syscall, Auxiliary, Eoe
<1>2. s \in begun /\ s \notin ended /\ <<s, "EOE">> \notin lost
  BY <1>1 DEF Eoe, Underway, AInv, LostEmitted
<1>3. Gc(pending \ {s}) /\ maxSerial' = maxSerial
  BY <1>1, <1>2 DEF Eoe, Lose, RecvEoe
<1>4. TypeOK /\ \A t \in pending : t <= maxSerial
  BY DEF AInv, Tables
<1>5. pending \subseteq 1..maxSerial /\ maxSerial \in Nat
  BY <1>4, AssemblyAssumption DEF TypeOK, Serials
<1>6. CASE Cardinality(pending \ {s}) > Threshold
  <2>. DEFINE low == IF maxSerial > Window THEN maxSerial - Window ELSE 0
  <2>1. pending' \subseteq (low + 1)..maxSerial
    <3>1. \A t \in pending' : t \in pending /\ t > low
      BY <1>3, <1>6 DEF Gc
    <3>2. low \in Int
      BY <1>5, AssemblyAssumption
    <3>. HIDE DEF low
    <3>3. ASSUME NEW t \in pending' PROVE t \in (low + 1)..maxSerial
      <4>1. t \in 1..maxSerial /\ t > low
        BY <1>5, <3>1
      <4>. QED  BY <1>5, <3>2, <4>1
    <3>. QED  BY <3>3
  <2>2. low \in Nat /\ maxSerial - low <= Window /\ low <= maxSerial
    BY <1>5, AssemblyAssumption
  <2>. HIDE DEF low
  <2>3. /\ IsFiniteSet((low + 1)..maxSerial)
        /\ Cardinality((low + 1)..maxSerial) = maxSerial - low
    <3>1. low + 1 \in Int /\ maxSerial \in Int /\ (low + 1 <= maxSerial \/ low = maxSerial)
      BY <1>5, <2>2
    <3>2. /\ IsFiniteSet((low + 1)..maxSerial)
          /\ Cardinality((low + 1)..maxSerial)
                = IF low + 1 > maxSerial THEN 0 ELSE maxSerial - (low + 1) + 1
      BY <3>1, FS_Interval
    <3>. QED  BY <1>5, <2>2, <3>2
  <2>4. Cardinality(pending') <= maxSerial - low /\ Cardinality(pending') \in Nat
    BY <2>1, <2>3, FS_Subset, FS_CardinalityType
  <2>. QED  BY <1>5, <2>2, <2>4, AssemblyAssumption
<1>7. CASE ~(Cardinality(pending \ {s}) > Threshold)
  <2>1. pending' = pending \ {s}
    BY <1>3, <1>7 DEF Gc
  <2>2. IsFiniteSet(1..maxSerial)
    BY <1>5, FS_Interval
  <2>3. Cardinality(pending \ {s}) \in Nat
    BY <1>5, <2>2, FS_Subset, FS_CardinalityType
  <2>. QED  BY <1>7, <2>1, <2>3, AssemblyAssumption
<1>. QED  BY <1>6, <1>7

\* The table of groups stays small, whatever is lost.
THEOREM GcKeepsBounds == Spec => GcBounds
<1>. DEFINE Bound == \A s \in Serials :
          (s \notin skipSerials /\ s \in ended' \ ended /\ lost' = lost)
          => \/ Cardinality(pending') <= Threshold
             \/ Cardinality(pending') <= Window
<1>1. AInv /\ [Next]_vars => [Bound]_vars
  BY GcStep
<1>. QED  BY <1>1, InductiveInvariant, PTL DEF Spec, GcBounds
=============================================================================
