------------------------------ MODULE Resolver ------------------------------
(***************************************************************************)
(* Whose event is it?  The receive thread (daemon.rs, audit_recv_loop)     *)
(* gives each assembled group the container of its process.  By the time   *)
(* it looks, the process may have exited, its parent may have, and either  *)
(* pid may be another process's.  It reads /proc as the SYSCALL record     *)
(* arrives; failing that it has two caches, the chain of parents, and a    *)
(* guess.                                                                  *)
(*                                                                         *)
(* The host is the environment: processes are started, in a container or   *)
(* outside, make system calls, and exit.  A read of /proc may fail for a   *)
(* process that is there (it exits between two reads of one step); it      *)
(* never succeeds for one that is not.  Records reach the thread in order; *)
(* the ones of host processes never get here (see AuditAssembly).          *)
(***************************************************************************)
EXTENDS Integers, Sequences, FiniteSets

CONSTANTS
    Pids,
    Containers,
    Host, Gone,    \* where a process runs that is in no container, or exited
    Unknown,       \* no container found
    MaxDepth,      \* PPID_WALK_MAX_DEPTH, 10
    MaxReused,     \* bound: pids that are given to a second process
    MaxEvents,     \* bound: system calls made in containers
    MaxInFlight    \* bound: groups emitted and not handled yet

ASSUME ResolverAssumption ==
    /\ Pids \subseteq Nat \ {0, 1}
    /\ {Host, Gone, Unknown} \cap Containers = {} /\ Host # Gone
    /\ MaxDepth \in Nat \ {0} /\ MaxReused \in Nat /\ MaxEvents \in Nat
    /\ MaxInFlight \in Nat

\* The parent of a process whose own has exited: the walk stops there.
InitPid == 1

VARIABLES
    box,        \* environment: where the process of each pid runs
    up,         \* environment: its parent
    lives,      \* environment: how many processes have had the pid
    socket,     \* groups the kernel has emitted
    batch,      \* syscall_batch
    phase,      \* "drain", "process", or "ended": the thread has returned
    pidCache,   \* pid_cache; Unknown where there is no entry
    ppidCache,  \* ppid_cache; 0 where there is no entry
    emitted,    \* history: system calls made
    doubtful,   \* history: pids whose entry rests on a guess or a reused pid
    last        \* history: the group handled in the last step, if one was

world   == <<box, up, lives>>
caches  == <<pidCache, ppidCache>>
vars == <<world, socket, batch, phase, caches, emitted, doubtful, last>>

NoGroup == [truth |-> Unknown, found |-> Unknown, doubt |-> FALSE]

\* A process started in a container stays there, and so do its children; the
\* runtime on the host starts processes anywhere.
Places(boxes, parent) ==
    IF parent \in Pids /\ boxes[parent] \in Containers THEN {boxes[parent]}
    ELSE Containers \cup {Host}

Init ==
    /\ box \in [Pids -> Containers \cup {Host}]
    /\ up \in [Pids -> Pids \cup {InitPid}]
    /\ \A p \in Pids : up[p] < p /\ box[p] \in Places(box, up[p])
    /\ lives = [p \in Pids |-> 1]
    /\ socket = << >> /\ batch = << >> /\ phase = "drain"
    /\ pidCache = [p \in Pids |-> Unknown] /\ ppidCache = [p \in Pids |-> 0]
    /\ emitted = 0 /\ doubtful = {} /\ last = NoGroup

-----------------------------------------------------------------------------
(* The host.                                                               *)

Alive(p) == box[p] # Gone

Exit(p) ==
    /\ Alive(p)
    /\ box' = [box EXCEPT ![p] = Gone]
    /\ up' = [q \in Pids |-> IF up[q] = p THEN InitPid ELSE up[q]]
    /\ last' = NoGroup
    /\ UNCHANGED <<lives, socket, batch, phase, caches, emitted, doubtful>>

\* The pid is used again.  What the caches hold of it is another process's.
Start(p) ==
    /\ ~Alive(p) /\ lives[p] = 1
    /\ Cardinality({q \in Pids : lives[q] > 1}) < MaxReused
    /\ \E parent \in {q \in Pids : Alive(q)} \cup {InitPid} :
          /\ up' = [up EXCEPT ![p] = parent]
          /\ \E c \in Places(box, parent) : box' = [box EXCEPT ![p] = c]
    /\ lives' = [lives EXCEPT ![p] = @ + 1]
    /\ doubtful' = IF pidCache[p] # Unknown THEN doubtful \cup {p} ELSE doubtful
    /\ last' = NoGroup
    /\ UNCHANGED <<socket, batch, phase, caches, emitted>>

SystemCall(p) ==
    /\ box[p] \in Containers
    /\ emitted < MaxEvents /\ Len(socket) + Len(batch) < MaxInFlight
    /\ emitted' = emitted + 1
    /\ socket' = Append(socket, [pid |-> p, ppid |-> up[p],
                                 truth |-> box[p], life |-> lives[p]])
    /\ last' = NoGroup
    /\ UNCHANGED <<world, batch, phase, caches, doubtful>>

-----------------------------------------------------------------------------
(* Phase 1: drain the socket.                                              *)

Cgroup(p) == IF box[p] \in Containers THEN box[p] ELSE Unknown

\* Eager resolution, as the SYSCALL record arrives.
Receive ==
    /\ phase = "drain" /\ socket # << >>
    /\ LET g == Head(socket) IN
        \E eager \in {Unknown, Cgroup(g.pid)} :
            batch' = Append(batch, [group |-> g, eager |-> eager,
                                    same |-> lives[g.pid] = g.life])
    /\ socket' = Tail(socket)
    /\ last' = NoGroup
    /\ UNCHANGED <<world, phase, caches, emitted, doubtful>>

\* Mutant of WouldBlock: the thread processes an empty batch.
WouldBlockEmpty ==
    /\ phase = "drain"
    /\ phase' = "process"
    /\ last' = NoGroup
    /\ UNCHANGED <<world, socket, batch, caches, emitted, doubtful>>

\* The socket is empty, a signal came, or the kernel has dropped records.
WouldBlock ==
    /\ phase = "drain" /\ batch # << >>
    /\ phase' = "process"
    /\ last' = NoGroup
    /\ UNCHANGED <<world, socket, batch, caches, emitted, doubtful>>

\* Any other error ends the thread; the groups of this round are lost.
ReceiveError ==
    /\ phase = "drain"
    /\ phase' = "ended" /\ batch' = << >>
    /\ last' = NoGroup
    /\ UNCHANGED <<world, socket, caches, emitted, doubtful>>

-----------------------------------------------------------------------------
(* Phase 2: resolve the groups of the batch.  `readable` are the processes *)
(* whose files in /proc can be read during the step.                       *)

Proc(q, readable) == IF q \in readable THEN Cgroup(q) ELSE Unknown

\* Mutant of Lookup: an ancestor's entry is not used.
LookupProc(q, readable) == Proc(q, readable)

Lookup(q, readable) ==
    IF pidCache[q] # Unknown THEN pidCache[q] ELSE Proc(q, readable)

\* read_ppid, where ppid_cache has nothing.  0 for none.
ParentOf(q, readable) ==
    IF ppidCache'[q] # 0 THEN ppidCache'[q]
    ELSE IF q \in readable /\ Alive(q) THEN up[q] ELSE 0

\* The pids the walk visits: the parent in the record, else the cached one,
\* and so on.  It stops at 0 and 1.
Walks(g, readable) ==
    {walk \in [1..MaxDepth -> Pids \cup {0, InitPid}] :
        /\ walk[1] = (IF g.ppid > 0 THEN g.ppid ELSE ppidCache'[g.pid])
        /\ \A i \in 2..MaxDepth :
              walk[i] = IF walk[i - 1] \in {0, InitPid} THEN 0
                        ELSE ParentOf(walk[i - 1], readable)}

\* The steps of the walk that find a container; the first one ends it.
Finds(walk, readable) ==
    {i \in DOMAIN walk : walk[i] \in Pids /\ Lookup(walk[i], readable) # Unknown}

FirstOf(S) == CHOOSE i \in S : \A j \in S : i <= j

Visited(walk, i) == {walk[j] : j \in 1..i}

KnownContainers == {pidCache[p] : p \in Pids} \ {Unknown}

\* The history of a step: the group of the batch's head was resolved to
\* `found`, which the cache now says, with doubt or without.
Resolved(g, found, doubt) ==
    /\ last' = [truth |-> g.truth, found |-> found, doubt |-> doubt]
    /\ doubtful' = IF doubt \/ lives[g.pid] # g.life
                   THEN doubtful \cup {g.pid} ELSE doubtful \ {g.pid}

\* Mutant of UseEager: the cache keeps what it has.
UseEagerIfAbsent(item) ==
    /\ item.eager # Unknown
    /\ pidCache' = IF pidCache[item.group.pid] = Unknown
                   THEN [pidCache EXCEPT ![item.group.pid] = item.eager] ELSE pidCache
    /\ Resolved(item.group, item.eager, ~item.same)

UseEager(item) ==
    /\ item.eager # Unknown
    /\ pidCache' = [pidCache EXCEPT ![item.group.pid] = item.eager]
    /\ Resolved(item.group, item.eager, ~item.same)

UseCache(g) ==
    /\ pidCache[g.pid] # Unknown
    /\ UNCHANGED <<pidCache, doubtful>>
    /\ last' = [truth |-> g.truth, found |-> pidCache[g.pid],
                doubt |-> g.pid \in doubtful \/ lives[g.pid] # g.life]

UseProc(g, readable) ==
    /\ Proc(g.pid, readable) # Unknown
    /\ pidCache' = [pidCache EXCEPT ![g.pid] = Cgroup(g.pid)]
    /\ Resolved(g, Cgroup(g.pid), lives[g.pid] # g.life)

\* An ancestor was found: both pids are cached.  There is doubt if a pid on the
\* way has been reused, or the ancestor's own entry is in doubt.
UseAncestor(g, walk, readable) ==
    LET finds == Finds(walk, readable)
        i     == FirstOf(finds)
        found == Lookup(walk[i], readable)
    IN  /\ finds # {}
        /\ pidCache' = [pidCache EXCEPT ![walk[i]] = found, ![g.pid] = found]
        /\ Resolved(g, found, \/ \E q \in Visited(walk, i) : lives[q] > 1
                              \/ walk[i] \in doubtful)

\* The last resort: the only container known, else a scan of the cgroups.
UseOnlyContainer(g) ==
    \E c \in Containers :
        /\ KnownContainers = {c}
        /\ pidCache' = [pidCache EXCEPT ![g.pid] = c]
        /\ Resolved(g, c, TRUE)

UseScan(g) ==
    /\ Cardinality(KnownContainers) > 1
    /\ Cgroup(g.pid) # Unknown
    /\ pidCache' = [pidCache EXCEPT ![g.pid] = Cgroup(g.pid)]
    /\ Resolved(g, Cgroup(g.pid), lives[g.pid] # g.life)

\* The group is skipped; a scan may fail to find a process that is there.
Skip(g) ==
    /\ Cardinality(KnownContainers) # 1
    /\ last' = [truth |-> g.truth, found |-> Unknown, doubt |-> FALSE]
    /\ UNCHANGED <<pidCache, doubtful>>

\* The last resort is for a walk that found no container.
WalkUp(g, readable) ==
    /\ Proc(g.pid, readable) = Unknown
    /\ \E walk \in Walks(g, readable) :
          \/ UseAncestor(g, walk, readable)
          \/ /\ Finds(walk, readable) = {}
             /\ UseOnlyContainer(g) \/ UseScan(g) \/ Skip(g)

Handle ==
    /\ phase = "process"
    /\ LET item == Head(batch)
           g    == item.group
       IN  /\ ppidCache' = IF g.ppid > 0 THEN [ppidCache EXCEPT ![g.pid] = g.ppid]
                           ELSE ppidCache
           /\ \/ UseEager(item)
              \/ item.eager = Unknown /\ UseCache(g)
              \/ /\ item.eager = Unknown /\ pidCache[g.pid] = Unknown
                 /\ \E readable \in SUBSET {p \in Pids : Alive(p)} :
                       UseProc(g, readable) \/ WalkUp(g, readable)
    /\ batch' = Tail(batch)
    /\ phase' = IF Len(batch) = 1 THEN "drain" ELSE "process"
    /\ UNCHANGED <<world, socket, emitted>>

-----------------------------------------------------------------------------
Next ==
    \/ \E p \in Pids : Exit(p) \/ Start(p) \/ SystemCall(p)
    \/ Receive \/ WouldBlock \/ ReceiveError
    \/ Handle

Spec == Init /\ [][Next]_vars

-----------------------------------------------------------------------------
(* Properties.                                                             *)

Group == [pid : Pids, ppid : Pids \cup {InitPid}, truth : Containers, life : Nat \ {0}]

TypeOK ==
    /\ box \in [Pids -> Containers \cup {Host, Gone}]
    /\ up \in [Pids -> Pids \cup {InitPid}] /\ lives \in [Pids -> Nat \ {0}]
    /\ socket \in Seq(Group)
    /\ batch \in Seq([group : Group, eager : Containers \cup {Unknown}, same : BOOLEAN])
    /\ phase \in {"drain", "process", "ended"}
    /\ phase = "process" => batch # << >>
    /\ pidCache \in [Pids -> Containers \cup {Unknown}]
    /\ ppidCache \in [Pids -> Pids \cup {0, InitPid}]
    /\ emitted \in Nat /\ doubtful \subseteq Pids
    /\ last \in [truth : Containers \cup {Unknown}, found : Containers \cup {Unknown},
                 doubt : BOOLEAN]

\* An event is given to the container its process ran in, and cache entries
\* are right, unless there is cause for doubt: the guess of the only container
\* known, a pid that was reused before the group was resolved, or an entry
\* that rests on either.  A pid that was reused is put right by its next
\* record that can be resolved at once.
RightUnlessInDoubt ==
    /\ last.found \notin {last.truth, Unknown} => last.doubt
    /\ \A p \in Pids \ doubtful :
          Alive(p) /\ pidCache[p] # Unknown => pidCache[p] = box[p]

\* A process that has been resolved, or whose parent has, is never skipped,
\* although neither is there any more when its group is looked at.
FamilyIsKept ==
    [][LET g == Head(batch).group IN
       phase = "process" /\ batch' # batch /\ last'.found = Unknown
         => \A q \in {g.pid, g.ppid} \cap Pids : pidCache[q] = Unknown]_vars
=============================================================================
