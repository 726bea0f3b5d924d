------------------------------ MODULE Registry ------------------------------
(***************************************************************************)
(* What the daemon knows of its containers as a whole: which of them exist *)
(* (DaemonState.containers), which experiment they are in, and whose an    *)
(* address is (ip_to_container), so that a connection recorded in one of   *)
(* them can be shown as a flow to another.                                 *)
(*                                                                         *)
(* Three parties fill these tables in any order.  The receive thread puts  *)
(* events into the buffer with the addresses it read for the process; the  *)
(* processor claims them when it meets a container it does not have; the   *)
(* harness starts actions, deletes containers, makes experiments and may   *)
(* declare addresses.  Chunks of more than one event are in Attribution:   *)
(* here a request may come between any two.                                *)
(***************************************************************************)
EXTENDS Integers, Sequences, FiniteSets

CONSTANTS
    Containers,
    Addresses,
    Nowhere,         \* the target of an event that is no connection
    MaxEvents,       \* bound: events pushed
    MaxExperiments   \* bound: experiments created

ASSUME RegistryAssumption ==
    /\ Nowhere \notin Addresses
    /\ MaxEvents \in Nat /\ MaxExperiments \in Nat

VARIABLES
    held,          \* environment: the addresses each container really has
    buffer,        \* event_buf and the batch taken from it, oldest first
    live,          \* keys of containers
    connected,     \* "connect" entries of net_connections, by container
    owner,         \* ip_to_container: address -> container
    members,       \* experiments: the container_ids of exp-1, exp-2, ...
    experimentOf,  \* container_to_experiment
    pushed,        \* history: number of events pushed
    reported,      \* history: containers of dispatched events with addresses
    announced,     \* history: those whose first event was such an event
    declared       \* history: addresses declared by the harness, by container

tables  == <<live, connected, owner>>
groups  == <<members, experimentOf>>
history == <<pushed, reported, announced, declared>>
vars == <<held, buffer, tables, groups, history>>

Event == [container : Containers, ips : SUBSET Addresses,
          target : Addresses \cup {Nowhere}]

\* Containers may share addresses (network_mode: service:x), or have none.
Init ==
    /\ held \in [Containers -> SUBSET Addresses]
    /\ buffer = << >>
    /\ live = {} /\ connected = [c \in Containers |-> {}] /\ owner = << >>
    /\ members = << >> /\ experimentOf = << >>
    /\ pushed = 0 /\ reported = {} /\ announced = {}
    /\ declared = [c \in Containers |-> {}]

\* The map with the given addresses put down to c, whoever had them.
Declare(c, ips) ==
    [a \in DOMAIN owner \cup ips |-> IF a \in ips THEN c ELSE owner[a]]

\* Mutant of Claim: the last container wins.
ClaimReplacing(c, ips) == Declare(c, ips)

\* The same, but what the map has already stays.
Claim(c, ips) ==
    [a \in DOMAIN owner \cup ips |-> IF a \in DOMAIN owner THEN owner[a] ELSE c]

-----------------------------------------------------------------------------
(* The receive thread.  The addresses come with an event if the process's  *)
(* cgroup could be read when its record arrived, and are all there then.   *)

Push(c, target, readable) ==
    /\ pushed < MaxEvents
    /\ pushed' = pushed + 1
    /\ buffer' = Append(buffer, [container |-> c, target |-> target,
                                 ips |-> IF readable THEN held[c] ELSE {}])
    /\ UNCHANGED <<held, tables, groups, reported, announced, declared>>

-----------------------------------------------------------------------------
(* The processor: one round of the inner loop of daemon.rs.                *)

Contacts(e) == {e.target} \ {Nowhere}

\* Mutant of Dispatch: the target of the connection is claimed too.
DispatchClaimingTarget ==
    /\ buffer # << >>
    /\ LET e == Head(buffer) IN
        /\ live' = live \cup {e.container}
        /\ owner' = IF e.container \in live THEN owner
                    ELSE Claim(e.container, e.ips \cup Contacts(e))
        /\ connected' = [connected EXCEPT ![e.container] = @ \cup Contacts(e)]
        /\ reported' = IF e.ips # {} THEN reported \cup {e.container} ELSE reported
        /\ announced' = IF e.ips # {} /\ e.container \notin live
                        THEN announced \cup {e.container} ELSE announced
    /\ buffer' = Tail(buffer)
    /\ UNCHANGED <<held, groups, pushed, declared>>

Dispatch ==
    /\ buffer # << >>
    /\ LET e == Head(buffer) IN
        /\ live' = live \cup {e.container}
        /\ owner' = IF e.container \in live THEN owner ELSE Claim(e.container, e.ips)
        /\ connected' = [connected EXCEPT ![e.container] = @ \cup Contacts(e)]
        /\ reported' = IF e.ips # {} THEN reported \cup {e.container} ELSE reported
        /\ announced' = IF e.ips # {} /\ e.container \notin live
                        THEN announced \cup {e.container} ELSE announced
    /\ buffer' = Tail(buffer)
    /\ UNCHANGED <<held, groups, pushed, declared>>

-----------------------------------------------------------------------------
(* The harness.  A request for an experiment that does not exist changes   *)
(* nothing.                                                                *)

\* action_start creates the container, without addresses.
ActionStart(c) ==
    /\ live' = live \cup {c}
    /\ UNCHANGED <<held, buffer, connected, owner, groups, history>>

\* What was recorded goes; addresses and experiments stay.
DeleteContainer(c) ==
    /\ live' = live \ {c}
    /\ connected' = [connected EXCEPT ![c] = {}]
    /\ UNCHANGED <<held, buffer, owner, groups, history>>

CreateExperiment ==
    /\ Len(members) < MaxExperiments
    /\ members' = Append(members, {})
    /\ UNCHANGED <<held, buffer, tables, experimentOf, history>>

\* Mutant of AddContainer: the experiment need not exist.
AddContainerAnywhere(x, c, ips) ==
    /\ members' = [y \in DOMAIN members |->
                      IF y = x THEN members[y] \cup {c} ELSE members[y]]
    /\ experimentOf' = [d \in DOMAIN experimentOf \cup {c} |->
                           IF d = c THEN x ELSE experimentOf[d]]
    /\ owner' = Declare(c, ips)
    /\ declared' = [declared EXCEPT ![c] = @ \cup ips]
    /\ UNCHANGED <<held, buffer, live, connected, pushed, reported, announced>>

AddContainer(x, c, ips) ==
    /\ x \in DOMAIN members
    /\ members' = [members EXCEPT ![x] = @ \cup {c}]
    /\ experimentOf' = [d \in DOMAIN experimentOf \cup {c} |->
                           IF d = c THEN x ELSE experimentOf[d]]
    /\ owner' = Declare(c, ips)
    /\ declared' = [declared EXCEPT ![c] = @ \cup ips]
    /\ UNCHANGED <<held, buffer, live, connected, pushed, reported, announced>>

\* The harness declares what the container has (docker inspect), or less.
Next ==
    \/ \E c \in Containers, target \in Addresses \cup {Nowhere}, readable \in BOOLEAN :
          Push(c, target, readable)
    \/ Dispatch
    \/ \E c \in Containers : ActionStart(c) \/ DeleteContainer(c)
    \/ CreateExperiment
    \/ \E c \in Containers, x \in 1..MaxExperiments : \E ips \in SUBSET held[c] :
          AddContainer(x, c, ips)

Spec == Init /\ [][Next]_vars

-----------------------------------------------------------------------------
(* Receipts of an experiment (receipt.rs).                                 *)

\* Mutant of CrossFlows: the target must name this experiment as its own.
CrossFlowsByReverseMap(x) ==
    {f \in members[x] \X Addresses \X members[x] :
        /\ f[1] \in live /\ f[2] \in connected[f[1]] /\ f[2] \in DOMAIN owner
        /\ f[3] = owner[f[2]] /\ f[3] # f[1] /\ experimentOf[f[3]] = x}

\* The cross-container flows that the receipt of experiment x shows: from
\* which container, to which address, and whose it is said to be.
CrossFlows(x) ==
    {f \in members[x] \X Addresses \X members[x] :
        /\ f[1] \in live /\ f[2] \in connected[f[1]] /\ f[2] \in DOMAIN owner
        /\ f[3] = owner[f[2]] /\ f[3] # f[1]}

-----------------------------------------------------------------------------
(* Properties.                                                             *)

TypeOK ==
    /\ held \in [Containers -> SUBSET Addresses]
    /\ buffer \in Seq(Event)
    /\ live \subseteq Containers
    /\ connected \in [Containers -> SUBSET Addresses]
    /\ DOMAIN owner \subseteq Addresses /\ owner \in [DOMAIN owner -> Containers]
    /\ members \in Seq(SUBSET Containers)
    /\ DOMAIN experimentOf \subseteq Containers
    /\ experimentOf \in [DOMAIN experimentOf -> DOMAIN members]
    /\ pushed \in Nat
    /\ reported \subseteq Containers /\ announced \subseteq Containers
    /\ declared \in [Containers -> SUBSET Addresses]

\* No address is ever said to be a container's that does not have it, late
\* events, deletions and declarations notwithstanding: ip_to_container and
\* every annotation made from it (annotate_addr, cross-container flows).
AddressesTrue == \A a \in DOMAIN owner : a \in held[owner[a]]

\* The containers that have an address.
Holders(a) == {c \in Containers : a \in held[c]}

Registered(c) == IF c \in announced THEN held[c] ELSE declared[c]

\* The receipt of an experiment shows every connection of one member to an
\* address that another member alone has, once that member's first event has
\* brought its addresses or the harness has declared them: before or after
\* the connection, before or after either was added to the experiment, whatever
\* else it is in, and even when the target has been deleted since.
FlowsShown ==
    \A x \in DOMAIN members : \A c, t \in members[x] : \A a \in connected[c] :
        (c # t /\ c \in live /\ Holders(a) = {t} /\ a \in Registered(t))
            => <<c, a, t>> \in CrossFlows(x)

\* "The first one seen wins": only a declaration by the harness takes an
\* address from the container that has it; no event and no deletion does.
FirstClaimStands ==
    [][\A a \in DOMAIN owner :
        /\ a \in DOMAIN owner'
        /\ owner'[a] # owner[a] => buffer' = buffer /\ a \in declared'[owner'[a]]]_vars

\* What the documentation says and the code does not do: ip_to_container is
\* "Populated from /proc/{pid}/net/fib_trie when a container is first seen"
\* (state.rs): once an event with its addresses has been dispatched, they are there.
FirstSeenPopulates == \A c \in reported : held[c] \subseteq DOMAIN owner
=============================================================================
