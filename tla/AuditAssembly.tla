--------------------------- MODULE AuditAssembly ---------------------------
(***************************************************************************)
(* try_recv and PendingEvents: how the audit thread puts the records of a  *)
(* system call, which share a serial and arrive one netlink message at a   *)
(* time, back together.                                                    *)
(*                                                                         *)
(* The kernel emits the records of one system call in order, SYSCALL       *)
(* first and EOE last, but those of different CPUs interleave and serials  *)
(* need not begin in their order.  When the socket's buffer is full the    *)
(* kernel drops records (recv reports ENOBUFS); any record may be missing. *)
(***************************************************************************)
EXTENDS Integers, Sequences, FiniteSets

CONSTANTS
    MaxSerial,   \* bound: the serials are 1..MaxSerial
    Aux,         \* kinds of ancillary record: PATH, SOCKADDR, CWD, EXECVE
    Sockaddr,    \* the one a failed call is delivered for
    Threshold,   \* PENDING_GC_THRESHOLD, 256
    Window,      \* PENDING_GC_SERIAL_WINDOW, 500
    Spread,      \* calls under way have serials less than this apart
    MaxLost      \* bound on the records lost

ASSUME AssemblyAssumption ==
    /\ MaxSerial \in Nat /\ Threshold \in Nat /\ Window \in Nat /\ Spread \in Nat
    /\ MaxLost \in Nat
    /\ Spread <= Window
    /\ Sockaddr \in Aux /\ "SYSCALL" \notin Aux /\ "EOE" \notin Aux

Serials == 1..MaxSerial

VARIABLES
    \* The kernel's side:
    begun,       \* serials whose SYSCALL record has been emitted
    ended,       \* serials whose EOE record has been emitted
    call,        \* serial -> [container, success]: what its SYSCALL says
    aux,         \* serial -> kinds of ancillary record emitted
    lost,        \* records that never arrived: {<<serial, kind>>}
    \* PendingEvents:
    pending,     \* serials with a SyscallGroup under construction
    group,       \* serial -> ancillary records its group has taken in
    skipSerials, \* skip_serials: serials of calls outside any container
    maxSerial,   \* max_serial
    \* What try_recv has returned:
    delivered    \* sequence of [serial, records]

kernel   == <<begun, ended, call, aux, lost>>
assembly == <<pending, group, skipSerials, maxSerial>>
vars == <<kernel, assembly, delivered>>

Calls == [container : BOOLEAN, success : BOOLEAN]

\* Every record that is not SYSCALL or EOE, with the serial it carries.
Records == Serials \X Aux

Init ==
    /\ begun = {} /\ ended = {} /\ lost = {}
    /\ call = [s \in Serials |-> [container |-> FALSE, success |-> FALSE]]
    /\ aux = [s \in Serials |-> {}]
    /\ pending = {} /\ group = [s \in Serials |-> {}]
    /\ skipSerials = {} /\ maxSerial = 0
    /\ delivered = <<>>

Underway == begun \ ended

\* Serials are drawn in order and used in any, but the kernel never has calls
\* under way that are Spread serials apart.
MayBegin(s) ==
    s \notin begun /\ \A t \in 1..s : t \notin ended => s - t < Spread

Lose(record) == Cardinality(lost) < MaxLost /\ lost' = lost \cup {record}

-----------------------------------------------------------------------------
(* AUDIT_SYSCALL.  The serial of a call outside a container is remembered, *)
(* to skip its other records unparsed; a container's opens a group.        *)

\* Mutant of RecvSyscall: max_serial summed up instead of compared.
RecvSyscallSumming(s) ==
    /\ maxSerial' = maxSerial + s
    /\ IF call'[s].container
       THEN /\ pending' = pending \cup {s}
            /\ UNCHANGED <<group, skipSerials, delivered>>
       ELSE /\ skipSerials' = skipSerials \cup {s}
            /\ UNCHANGED <<pending, group, delivered>>

RecvSyscall(s) ==
    /\ maxSerial' = IF s > maxSerial THEN s ELSE maxSerial
    /\ IF call'[s].container
       THEN /\ pending' = pending \cup {s}
            /\ UNCHANGED <<group, skipSerials, delivered>>
       ELSE /\ skipSerials' = skipSerials \cup {s}
            /\ UNCHANGED <<pending, group, delivered>>

Syscall(s) ==
    /\ MayBegin(s)
    /\ begun' = begun \cup {s}
    /\ \E c \in Calls : call' = [call EXCEPT ![s] = c]
    /\ \/ RecvSyscall(s) /\ UNCHANGED lost
       \/ Lose(<<s, "SYSCALL">>) /\ UNCHANGED <<assembly, delivered>>
    /\ UNCHANGED <<ended, aux>>

(* AUDIT_PATH, AUDIT_SOCKADDR, AUDIT_CWD, AUDIT_EXECVE.                    *)

\* Mutant of RecvAux: a record goes to the newest group, not to its serial's.
RecvAuxNewest(s, k) ==
    /\ group' = IF maxSerial \in pending
                THEN [group EXCEPT ![maxSerial] = @ \cup {<<s, k>>}]
                ELSE group
    /\ UNCHANGED <<pending, skipSerials, maxSerial, delivered>>

RecvAux(s, k) ==
    /\ group' = IF s \notin skipSerials /\ s \in pending
                THEN [group EXCEPT ![s] = @ \cup {<<s, k>>}]
                ELSE group
    /\ UNCHANGED <<pending, skipSerials, maxSerial, delivered>>

Auxiliary(s, k) ==
    /\ s \in Underway /\ k \notin aux[s]
    /\ aux' = [aux EXCEPT ![s] = @ \cup {k}]
    /\ \/ RecvAux(s, k) /\ UNCHANGED lost
       \/ Lose(<<s, k>>) /\ UNCHANGED <<assembly, delivered>>
    /\ UNCHANGED <<begun, ended, call>>

(* AUDIT_EOE.  A skipped call ends there, before gc.  A group is taken out *)
(* and returned if the call succeeded or has an address; then gc runs.     *)

\* Mutant of Gc: the cutoff one serial too far.
GcTooFar(groups) ==
    LET kept(S) == IF Cardinality(groups) > Threshold
                   THEN {s \in S : s > maxSerial - Window + 1} ELSE S
    IN /\ pending' = kept(groups)
       /\ skipSerials' = kept(skipSerials)
       /\ group' = [s \in Serials |-> IF s \in pending' THEN group[s] ELSE {}]

Gc(groups) ==
    LET cutoff == IF maxSerial > Window THEN maxSerial - Window ELSE 0
        kept(S) == IF Cardinality(groups) > Threshold
                   THEN {s \in S : s > cutoff} ELSE S
    IN /\ pending' = kept(groups)
       /\ skipSerials' = kept(skipSerials)
       /\ group' = [s \in Serials |-> IF s \in pending' THEN group[s] ELSE {}]

Wanted(s) == call[s].success \/ <<s, Sockaddr>> \in group[s]

\* Mutants of RecvEoe: the skipped serial is looked up and not removed, and a
\* delivery returns before gc.
RecvEoeKeepingSkips(s) ==
    \/ /\ s \in skipSerials
       /\ UNCHANGED <<assembly, delivered>>
    \/ /\ s \notin skipSerials
       /\ Gc(pending \ {s})
       /\ delivered' = IF s \in pending /\ Wanted(s)
                       THEN Append(delivered, [serial |-> s, records |-> group[s]])
                       ELSE delivered
       /\ UNCHANGED maxSerial

RecvEoeDeliveringFirst(s) ==
    \/ /\ s \in skipSerials
       /\ skipSerials' = skipSerials \ {s}
       /\ UNCHANGED <<pending, group, maxSerial, delivered>>
    \/ /\ s \notin skipSerials
       /\ IF s \in pending /\ Wanted(s)
          THEN /\ delivered' = Append(delivered, [serial |-> s, records |-> group[s]])
               /\ pending' = pending \ {s} /\ group' = [group EXCEPT ![s] = {}]
               /\ UNCHANGED skipSerials
          ELSE Gc(pending \ {s}) /\ UNCHANGED delivered
       /\ UNCHANGED maxSerial

RecvEoe(s) ==
    \/ /\ s \in skipSerials
       /\ skipSerials' = skipSerials \ {s}
       /\ UNCHANGED <<pending, group, maxSerial, delivered>>
    \/ /\ s \notin skipSerials
       /\ Gc(pending \ {s})
       /\ delivered' = IF s \in pending /\ Wanted(s)
                       THEN Append(delivered, [serial |-> s, records |-> group[s]])
                       ELSE delivered
       /\ UNCHANGED maxSerial

Eoe(s) ==
    /\ s \in Underway
    /\ ended' = ended \cup {s}
    /\ \/ RecvEoe(s) /\ UNCHANGED lost
       \/ Lose(<<s, "EOE">>) /\ UNCHANGED <<assembly, delivered>>
    /\ UNCHANGED <<begun, call, aux>>

Next == \E s \in Serials : \/ Syscall(s)
                           \/ \E k \in Aux : Auxiliary(s, k)
                           \/ Eoe(s)

Spec == Init /\ [][Next]_vars

-----------------------------------------------------------------------------
(* Properties.                                                             *)

TypeOK ==
    /\ begun \subseteq Serials /\ ended \subseteq begun
    /\ call \in [Serials -> Calls] /\ aux \in [Serials -> SUBSET Aux]
    /\ lost \subseteq Serials \X (Aux \cup {"SYSCALL", "EOE"})
    /\ pending \subseteq begun /\ skipSerials \subseteq begun
    /\ group \in [Serials -> SUBSET Records]
    /\ maxSerial \in 0..MaxSerial
    /\ delivered \in Seq([serial : Serials, records : SUBSET Records])

Arrived(s, k) == s \in begun /\ <<s, k>> \notin lost

\* The ancillary records of s that arrived.
ArrivedAux(s) == {<<s, k>> : k \in {k \in aux[s] : Arrived(s, k)}}

\* However the records of different calls interleave and whichever are lost,
\* a delivered group holds the records of its own call that arrived, all of
\* them and no other's.
GroupsIntact ==
    \A i \in DOMAIN delivered :
        delivered[i].records = ArrivedAux(delivered[i].serial)

DeliveredSerials == {delivered[i].serial : i \in DOMAIN delivered}

\* What should come out of the records of s that arrived.
Deliverable(s) ==
    /\ s \in ended
    /\ Arrived(s, "SYSCALL") /\ Arrived(s, "EOE")
    /\ call[s].container
    /\ call[s].success \/ <<s, Sockaddr>> \in ArrivedAux(s)

\* A call is delivered if and only if it ran in a container, its first and
\* last record arrived, and it succeeded or has an address; and only once.
\* In particular gc never takes a group that is still under construction.
DeliveredExactly ==
    /\ DeliveredSerials = {s \in Serials : Deliverable(s)}
    /\ \A i, j \in DOMAIN delivered :
          delivered[i].serial = delivered[j].serial => i = j

\* Nothing but a lost EOE leaves an entry behind in either table.
OnlyLossLeaks ==
    /\ \A s \in (pending \cup skipSerials) \cap ended : <<s, "EOE">> \in lost
    /\ pending \cap skipSerials = {}

\* gc keeps the table small: whenever the end of a call that is not skipped
\* has been handled, at most Window or Threshold groups remain, whatever was
\* lost before.
GcBounds ==
    [][\A s \in Serials :
          (s \notin skipSerials /\ s \in ended' \ ended /\ lost' = lost)
          => \/ Cardinality(pending') <= Threshold
             \/ Cardinality(pending') <= Window]_vars
=============================================================================
