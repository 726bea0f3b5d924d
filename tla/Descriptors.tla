---------------------------- MODULE Descriptors ----------------------------
(***************************************************************************)
(* The descriptor table (fd_table): what the daemon believes a descriptor  *)
(* of a process to be, beside what it is.                                  *)
(*                                                                         *)
(* A kernel transfer (sendfile, splice, tee, copy_file_range) and a        *)
(* message on a POSIX queue name descriptors only; the handlers look them  *)
(* up and record a read of the file, or a use of the queue.  The table is  *)
(* filled by open, mq_open, connect and bind.  The other calls that change *)
(* descriptors are not among the audited ones (AUDIT_SYSCALL_NAMES): close,*)
(* dup, pipe, socket, accept, fork, exit; and any record can be lost.      *)
(*                                                                         *)
(* Events are dispatched in the order of the calls (see Attribution), so a *)
(* call and its dispatch are one step.                                     *)
(***************************************************************************)
EXTENDS Integers

CONSTANTS
    Pids,
    Fds,
    Files,
    Queues,       \* POSIX message queues
    Other,        \* a socket, a pipe, or anything else
    Nothing       \* a descriptor that is closed; no entry in the table

ASSUME DescriptorsAssumption ==
    /\ Fds \subseteq Nat
    /\ Files \cap Queues = {} /\ Other \notin Files \cup Queues
    /\ Nothing \notin Files \cup Queues \cup {Other}

Objects     == Files \cup Queues \cup {Other}
Descriptors == Pids \X Fds
Uses        == ({"read"} \X Pids \X Files)
                    \cup ({"send", "receive"} \X Pids \X Queues)

VARIABLES
    running,    \* environment: the pids in use
    object,     \* environment: descriptor -> what it is open on
    fdTable,    \* fd_table; Other for FdTarget::Network
    recorded,   \* readers of file nodes, senders and receivers of ipc nodes
    done,       \* history: uses of descriptors that are not blind
    blind,      \* history: descriptors the daemon has been misled about
    murky       \* history: <<kind of use, pid>> of uses of blind ones

system  == <<running, object>>
history == <<done, blind, murky>>
vars == <<system, fdTable, recorded, history>>

Init ==
    /\ running = {} /\ object = [d \in Descriptors |-> Nothing]
    /\ fdTable = [d \in Descriptors |-> Nothing]
    /\ recorded = {}
    /\ done = {} /\ blind = {} /\ murky = {}

Open(d) == object[d] # Nothing

-----------------------------------------------------------------------------
(* What the daemon does not see.                                           *)

\* A process comes into the container from outside.
Enter(p) ==
    /\ p \notin running
    /\ running' = running \cup {p}
    /\ UNCHANGED <<object, fdTable, recorded, history>>

\* A child has its parent's descriptors.  (An event of a fork, if there is
\* one, does nothing to the table.)
Fork(p, child) ==
    /\ p \in running /\ child \notin running
    /\ running' = running \cup {child}
    /\ object' = [d \in Descriptors |->
                     IF d[1] = child THEN object[<<p, d[2]>>] ELSE object[d]]
    /\ blind' = blind \cup {<<child, n>> : n \in {n \in Fds : Open(<<p, n>>)}}
    /\ UNCHANGED <<fdTable, recorded, done, murky>>

Close(d) ==
    /\ Open(d)
    /\ object' = [object EXCEPT ![d] = Nothing]
    /\ UNCHANGED <<running, fdTable, recorded, history>>

\* dup, pipe, socket, accept, a descriptor passed over a socket, or an open
\* whose record was lost.
Install(d, x) ==
    /\ d[1] \in running
    /\ object' = [object EXCEPT ![d] = x]
    /\ blind' = blind \cup {d}
    /\ UNCHANGED <<running, fdTable, recorded, done, murky>>

Exits(p) ==
    /\ p \in running
    /\ running' = running \ {p}
    /\ object' = [d \in Descriptors |-> IF d[1] = p THEN Nothing ELSE object[d]]

ExitUnseen(p) == Exits(p) /\ UNCHANGED <<fdTable, recorded, history>>

-----------------------------------------------------------------------------
(* What the handlers are given.                                            *)

\* handle_exit: if a rule of somebody else's brings exit_group.
ExitGroup(p) ==
    /\ Exits(p)
    /\ fdTable' = [d \in Descriptors |-> IF d[1] = p THEN Nothing ELSE fdTable[d]]
    /\ UNCHANGED <<recorded, history>>

\* The kernel opens the lowest descriptor of a process that is not open.
Lowest(p) ==
    {d \in Descriptors : d[1] = p /\ ~Open(d)
                        /\ \A e \in Descriptors :
                              e[1] = p /\ ~Open(e) => d[2] <= e[2]}

\* Mutant of Enters: an entry that is there is kept.
EntersIfAbsent(d, x) ==
    IF fdTable[d] = Nothing THEN [fdTable EXCEPT ![d] = x] ELSE fdTable

Enters(d, x) == [fdTable EXCEPT ![d] = x]

\* handle_open and handle_mq_open.
Opens(p, x) ==
    /\ p \in running
    /\ \E d \in Lowest(p) :
        /\ object' = [object EXCEPT ![d] = x]
        /\ fdTable' = Enters(d, x)
        /\ blind' = blind \ {d}
    /\ UNCHANGED <<running, recorded, done, murky>>

\* handle_network, for connect and bind on a socket.
Connect(d) ==
    /\ object[d] = Other
    /\ fdTable' = Enters(d, Other)
    /\ blind' = blind \ {d}
    /\ UNCHANGED <<system, recorded, done, murky>>

\* The call fails, for d is no socket, but it carries an address, and such
\* groups are delivered although they failed (audit.rs:527).
ConnectFails(d) ==
    /\ object[d] \in Files \cup Queues
    /\ fdTable' = Enters(d, Other)
    /\ blind' = blind \cup {d}
    /\ UNCHANGED <<system, recorded, done, murky>>

\* Mutant of Target: a descriptor is looked up by its number alone.
TargetOfAny(d) ==
    IF \E e \in Descriptors : e[2] = d[2] /\ fdTable[e] # Nothing
    THEN fdTable[CHOOSE e \in Descriptors : e[2] = d[2] /\ fdTable[e] # Nothing]
    ELSE Nothing

\* What the table says of a descriptor.
Target(d) == fdTable[d]

\* The history of a use of d, for what it is open on.
Used(d, use, kind) ==
    /\ done' = IF d \notin blind /\ object[d] \in kind
               THEN done \cup {<<use, d[1], object[d]>>} ELSE done
    /\ murky' = IF d \in blind THEN murky \cup {<<use, d[1]>>} ELSE murky

\* Mutant of Records: whatever the target is, it is recorded.
RecordsAny(d, use, kind) ==
    /\ recorded' = IF Target(d) # Nothing
                   THEN recorded \cup {<<use, d[1], Target(d)>>} ELSE recorded
    /\ Used(d, use, kind)
    /\ UNCHANGED <<system, fdTable, blind>>

\* A lookup, and what the handler records if it finds a target of its kind.
Records(d, use, kind) ==
    /\ recorded' = IF Target(d) \in kind
                   THEN recorded \cup {<<use, d[1], Target(d)>>} ELSE recorded
    /\ Used(d, use, kind)
    /\ UNCHANGED <<system, fdTable, blind>>

\* handle_kernel_transfer: d is the source.
Transfer(d) == object[d] \in Files \cup {Other} /\ Records(d, "read", Files)

\* handle_ipc_send and handle_ipc_recv, of mq_timedsend and mq_timedreceive.
Message(d, use) == object[d] \in Queues /\ Records(d, use, Queues)

Next ==
    \/ \E p \in Pids :
          \/ Enter(p) \/ ExitUnseen(p) \/ ExitGroup(p)
          \/ \E child \in Pids : Fork(p, child)
          \/ \E x \in Files \cup Queues : Opens(p, x)
    \/ \E d \in Descriptors :
          \/ Close(d) \/ Connect(d) \/ ConnectFails(d)
          \/ \E x \in Objects : Install(d, x)
          \/ Transfer(d) \/ Message(d, "send") \/ Message(d, "receive")

Spec == Init /\ [][Next]_vars

-----------------------------------------------------------------------------
(* Properties.                                                             *)

TypeOK ==
    /\ running \subseteq Pids
    /\ object \in [Descriptors -> Objects \cup {Nothing}]
    /\ \A d \in Descriptors : Open(d) => d[1] \in running
    /\ fdTable \in [Descriptors -> Objects \cup {Nothing}]
    /\ recorded \subseteq Uses /\ done \subseteq Uses
    /\ blind \subseteq Descriptors
    /\ murky \subseteq {"read", "send", "receive"} \X Pids

\* The table is right about every descriptor that is open, except one that was
\* last given to its process by a call that is not seen (dup, socket, fork, a
\* lost record), or that a failed connect was aimed at.  Closing descriptors,
\* exits and the reuse of numbers and pids that follows do no harm by
\* themselves, although the daemon sees none of them.
TableAgrees == \A d \in Descriptors \ blind : Open(d) => fdTable[d] = object[d]

\* What transfers and messages leave on file and queue nodes is what happened:
\* every use of a descriptor that is not blind is recorded, with its object,
\* and nothing else, save by processes that have used a blind one that way.
CreditsExact ==
    /\ done \subseteq recorded
    /\ \A u \in recorded \ done : <<u[1], u[2]>> \in murky
=============================================================================
