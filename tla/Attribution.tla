---------------------------- MODULE Attribution ----------------------------
(***************************************************************************)
(* The core of syscon: which agent action a syscall event is attributed to *)
(* and in which action's log it is recorded.  One monitored container.     *)
(*                                                                         *)
(* Three parties share its state.  The audit-recv thread appends events to *)
(* a buffer.  The processor task takes the whole buffer, then dispatches   *)
(* the batch in chunks, holding the daemon's mutex for one chunk at a      *)
(* time.  The HTTP handlers (start, end, delete) run whenever the mutex is *)
(* free, so they fall between two chunks of a batch, and an event is often *)
(* dispatched after the action it belongs to has ended.                    *)
(***************************************************************************)
EXTENDS Integers, Sequences, FiniteSets

CONSTANTS
    Pids,        \* process ids seen in the container
    Outside,     \* a parent the container never reports (the container shim)
    Grace,       \* how far before an action's start an event may be, 2000 ms
    Lag,         \* how old a record's timestamp is when it is pushed, at most
    ChunkSize,   \* PROCESS_CHUNK_SIZE: events dispatched per lock acquisition
    MaxTime,     \* bound on the clock
    MaxEvents,   \* bound on the events pushed
    MaxActions   \* bound on the completed actions of a container

ASSUME ConstantsAssumption ==
    /\ Outside \notin Pids
    /\ Grace \in Nat /\ Lag \in Nat
    /\ ChunkSize \in Nat \ {0}
    /\ MaxTime \in Nat \ {0} /\ MaxEvents \in Nat /\ MaxActions \in Nat

\* A syscall event, reduced to what attribution reads; ts = 0 is a record
\* whose timestamp could not be parsed.  n is the serial of the record.
Event == [n : 1..MaxEvents, pid : Pids, ppid : Pids \cup {Outside},
          ts : 0..MaxTime]

\* An action's log.  end = 0 stands for wall_end_ms = None.
ActionLog == [id : Nat, start : 0..MaxTime, end : 0..MaxTime,
              events : SUBSET Event]

NewLog(id, now) == [id |-> id, start |-> now, end |-> 0, events |-> {}]

\* current_action = None.  No log starts at time 0.
NoAction == NewLog(0, 0)

VARIABLES
    clock,       \* wall clock, ms
    buffer,      \* event_buf: pushed by the audit thread
    batch,       \* what the processor took and has not dispatched yet
    chunk,       \* events it may still dispatch before it drops the mutex
    live,        \* the container is in DaemonState.containers
    current,     \* current_action
    currentId,   \* current_action_id
    completed,   \* completed_actions
    known,       \* the keys of process_table.processes
    attributed,  \* attributed_action of each known process
    \* History, read by the properties only:
    sent,        \* number of events pushed so far
    birth,       \* the event that put a known process in the table
    dropped      \* events that found no log to go to

pipeline  == <<buffer, batch, chunk, sent>>
actions   == <<live, current, currentId, completed>>
processes == <<known, attributed, birth>>
vars == <<clock, pipeline, actions, processes, dropped>>

NoBirth == [root |-> FALSE, ppid |-> Outside, ts |-> 0]

Init ==
    /\ clock = 1
    /\ buffer = <<>> /\ batch = <<>> /\ chunk = 0
    /\ live = FALSE
    /\ current = NoAction /\ currentId = 0 /\ completed = <<>>
    /\ known = {} /\ attributed = [p \in Pids |-> 0]
    /\ sent = 0 /\ birth = [p \in Pids |-> NoBirth] /\ dropped = {}

-----------------------------------------------------------------------------
(* Wall-clock attribution: ContainerState::action_at_time.                 *)

\* A container that is created by an event or by a handler starts in its
\* lifecycle action, number 0.
Current == IF live THEN current ELSE NewLog(0, clock)

Running == Current.start # 0

\* The container's logs, oldest first: completed_actions, then the current one.
Timeline == IF Running THEN Append(completed, Current) ELSE completed

Covers(log, ts) == log.start <= ts /\ ts <= log.end

\* end of the log before the i-th; 0 before the first
PreviousEnd(i) == IF i = 1 THEN 0 ELSE completed[i - 1].end

\* The logs that start after ts, near enough, with no earlier log ending
\* at or after ts in between.
Nearby(ts) ==
    {i \in DOMAIN Timeline : /\ ts < Timeline[i].start
                             /\ Timeline[i].start - ts < Grace
                             /\ ts > PreviousEnd(i)}

\* Ties keep the log met first.
Nearest(ts) ==
    CHOOSE i \in Nearby(ts) : \A j \in Nearby(ts) :
        \/ Timeline[i].start < Timeline[j].start
        \/ Timeline[i].start = Timeline[j].start /\ i <= j

LastCovering(ts) ==
    CHOOSE i \in DOMAIN completed :
        /\ Covers(completed[i], ts)
        /\ \A j \in DOMAIN completed : Covers(completed[j], ts) => j <= i

ActionAtTime(ts) ==
    IF ts = 0 THEN currentId
    ELSE IF \E i \in DOMAIN completed : Covers(completed[i], ts)
         THEN completed[LastCovering(ts)].id
    ELSE IF Running /\ ts >= Current.start THEN Current.id
    ELSE IF Nearby(ts) # {} THEN Timeline[Nearest(ts)].id
    ELSE currentId

-----------------------------------------------------------------------------
(* Dispatch of one event: daemon.rs creates the container when it is not   *)
(* there, handlers::dispatch runs ensure_process and then one handler.     *)

\* AttributionByProcessingOrder and AttributionByTimeOnly are mutants of
\* AttributionOf: the action being processed instead of the one the record's
\* time names, and no inheritance from the parent.
\* The attribution ensure_process gives a process it sees first with e.
AttributionByProcessingOrder(e) ==
    IF e.ppid \in known THEN attributed[e.ppid] ELSE currentId

AttributionByTimeOnly(e) == ActionAtTime(e.ts)

AttributionOf(e) ==
    IF e.ppid \in known THEN attributed[e.ppid] ELSE ActionAtTime(e.ts)

EnsureProcess(e) ==
    IF e.pid \in known THEN UNCHANGED processes
    ELSE /\ known' = known \cup {e.pid}
         /\ attributed' = [attributed EXCEPT ![e.pid] = AttributionOf(e)]
         /\ birth' = [birth EXCEPT ![e.pid] =
                         [root |-> e.ppid \notin known,
                          ppid |-> e.ppid, ts |-> e.ts]]

HasLog(id) == \E i \in DOMAIN completed : completed[i].id = id

\* Mutants of the recorders: the current log before the process's own one, a
\* log's events replaced, and completed logs closed to late events.
RecordInCurrentFirst(e) ==
    /\ Running
    /\ current' = [Current EXCEPT !.events = @ \cup {e}]
    /\ UNCHANGED <<completed, dropped>>

RecordReplacing(e) ==
    /\ ~(Running /\ Current.id = attributed'[e.pid])
    /\ \E i \in DOMAIN completed :
          /\ completed[i].id = attributed'[e.pid]
          /\ completed' = [completed EXCEPT ![i].events = {e}]
    /\ current' = Current
    /\ UNCHANGED dropped

RecordNowhereOnceEnded(e) ==
    /\ ~Running
    /\ dropped' = dropped \cup {e}
    /\ UNCHANGED <<current, completed>>

\* action_for and the recorders on top of it: the log with the process's
\* action, else whatever log is current, else the event goes nowhere.
RecordInCurrent(e) ==
    /\ Running
    /\ Current.id = attributed'[e.pid] \/ ~HasLog(attributed'[e.pid])
    /\ current' = [Current EXCEPT !.events = @ \cup {e}]
    /\ UNCHANGED <<completed, dropped>>

RecordInCompleted(e) ==
    /\ ~(Running /\ Current.id = attributed'[e.pid])
    /\ \E i \in DOMAIN completed :
          /\ completed[i].id = attributed'[e.pid]
          /\ \A j \in DOMAIN completed :
                completed[j].id = attributed'[e.pid] => i <= j
          /\ completed' = [completed EXCEPT ![i].events = @ \cup {e}]
    /\ current' = Current
    /\ UNCHANGED dropped

RecordNowhere(e) ==
    /\ ~Running /\ ~HasLog(attributed'[e.pid])
    /\ dropped' = dropped \cup {e}
    /\ UNCHANGED <<current, completed>>

\* A syscall whose handler records nothing (pipe, dup, shmget, an unknown
\* number): the process is registered all the same.
RecordNothing == current' = Current /\ UNCHANGED <<completed, dropped>>

Record(e) == \/ RecordInCurrent(e)
             \/ RecordInCompleted(e)
             \/ RecordNowhere(e)
             \/ RecordNothing

Dispatch ==
    /\ chunk > 0
    /\ chunk' = chunk - 1
    /\ batch' = Tail(batch)
    /\ live' = TRUE
    /\ EnsureProcess(Head(batch))
    /\ Record(Head(batch))
    /\ UNCHANGED <<clock, buffer, sent, currentId>>

-----------------------------------------------------------------------------
(* The pipeline around it.                                                 *)

\* The audit thread pushes the event of a system call stamped up to Lag ago
\* (the kernel stamps a record when the call begins and sends it at its end).
Push ==
    /\ sent < MaxEvents
    /\ \E pid \in Pids, ppid \in Pids \cup {Outside}, ts \in 0..clock :
          /\ pid # ppid
          /\ ts = 0 \/ clock - ts <= Lag
          /\ buffer' = Append(buffer, [n |-> sent + 1, pid |-> pid,
                                       ppid |-> ppid, ts |-> ts])
    /\ sent' = sent + 1
    /\ UNCHANGED <<clock, batch, chunk, actions, processes, dropped>>

\* Mutants of TakeBatch: the buffer is copied and not emptied, and a batch is
\* replaced before it is done.
TakeCopy ==
    /\ batch = <<>> /\ buffer # <<>>
    /\ batch' = buffer
    /\ UNCHANGED <<clock, buffer, chunk, sent, actions, processes, dropped>>

TakeOverBatch ==
    /\ chunk = 0 /\ buffer # <<>>
    /\ batch' = buffer /\ buffer' = <<>>
    /\ UNCHANGED <<clock, chunk, sent, actions, processes, dropped>>

\* A tick of the processor: take everything that is in the buffer.
TakeBatch ==
    /\ batch = <<>> /\ buffer # <<>>
    /\ batch' = buffer /\ buffer' = <<>>
    /\ UNCHANGED <<clock, chunk, sent, actions, processes, dropped>>

\* Mutant of LockChunk: a full chunk whatever is left of the batch.
LockFullChunk ==
    /\ chunk = 0 /\ batch # <<>>
    /\ chunk' = ChunkSize
    /\ UNCHANGED <<clock, buffer, batch, sent, actions, processes, dropped>>

\* The processor acquires the mutex for the next chunk.
LockChunk ==
    /\ chunk = 0 /\ batch # <<>>
    /\ chunk' = IF Len(batch) < ChunkSize THEN Len(batch) ELSE ChunkSize
    /\ UNCHANGED <<clock, buffer, batch, sent, actions, processes, dropped>>

-----------------------------------------------------------------------------
(* The HTTP handlers.  Each holds the mutex throughout.                    *)

MutexFree == chunk = 0

\* Mutants of ActionStart: the number of the last completed action, and a
\* start moved back to meet the events that race ahead of the request.
ActionStartReusingNumber ==
    /\ MutexFree
    /\ Len(completed) < MaxActions
    /\ live' = TRUE
    /\ currentId' = Len(completed)
    /\ current' = NewLog(Len(completed), clock)
    /\ UNCHANGED <<clock, pipeline, completed, processes, dropped>>

ActionStartBackdated ==
    /\ MutexFree
    /\ Len(completed) < MaxActions
    /\ live' = TRUE
    /\ currentId' = Len(completed) + 1
    /\ current' = NewLog(Len(completed) + 1, IF clock > 1 THEN clock - 1 ELSE 1)
    /\ UNCHANGED <<clock, pipeline, completed, processes, dropped>>

\* POST /containers/<id>/actions.  Replaces whatever action is current.
ActionStart ==
    /\ MutexFree
    /\ Len(completed) < MaxActions
    /\ live' = TRUE
    /\ currentId' = Len(completed) + 1
    /\ current' = NewLog(Len(completed) + 1, clock)
    /\ UNCHANGED <<clock, pipeline, completed, processes, dropped>>

\* Mutant of ActionEnd: a log without events is not kept.
ActionEndKeepingNonEmpty ==
    /\ MutexFree
    /\ live /\ Running
    /\ completed' = IF current.events = {} THEN completed
                    ELSE Append(completed, [current EXCEPT !.end = clock])
    /\ current' = NoAction
    /\ UNCHANGED <<clock, pipeline, live, currentId, processes, dropped>>

\* POST /containers/<id>/actions/<n>/end.  Ends the current action, whichever
\* <n> the caller named.
ActionEnd ==
    /\ MutexFree
    /\ live /\ Running
    /\ completed' = Append(completed, [current EXCEPT !.end = clock])
    /\ current' = NoAction
    /\ UNCHANGED <<clock, pipeline, live, currentId, processes, dropped>>

\* Mutant of DeleteContainer: the process table of the container outlives it.
DeleteKeepingProcesses ==
    /\ MutexFree
    /\ live
    /\ live' = FALSE
    /\ current' = NoAction /\ currentId' = 0 /\ completed' = <<>>
    /\ dropped' = {}
    /\ UNCHANGED <<clock, pipeline, processes>>

\* DELETE /containers/<id>.  The buffer and the batch keep their events.
DeleteContainer ==
    /\ MutexFree
    /\ live
    /\ live' = FALSE
    /\ current' = NoAction /\ currentId' = 0 /\ completed' = <<>>
    /\ known' = {} /\ attributed' = [p \in Pids |-> 0]
    /\ birth' = [p \in Pids |-> NoBirth] /\ dropped' = {}
    /\ UNCHANGED <<clock, pipeline>>

\* The receipt action_end returns: generate_receipt looks for the action it
\* is asked for in current_action only.
ReceiptHasData(id) == current.start # 0 /\ current.id = id

Tick == /\ clock < MaxTime
        /\ clock' = clock + 1
        /\ UNCHANGED <<pipeline, actions, processes, dropped>>

Next == \/ Push \/ TakeBatch \/ LockChunk \/ Dispatch
        \/ ActionStart \/ ActionEnd \/ DeleteContainer
        \/ Tick

\* The processor task loops forever on its interval, and tokio's mutex is
\* fair.  Nothing obliges the harness to start or to end an action.
Fairness == WF_vars(TakeBatch) /\ WF_vars(LockChunk) /\ WF_vars(Dispatch)

Spec == Init /\ [][Next]_vars /\ Fairness
-----------------------------------------------------------------------------
(* Properties.                                                             *)

\* The types of the variables, and what ties the chunk to the batch.
TypeOK ==
    /\ clock \in 1..MaxTime
    /\ buffer \in Seq(Event) /\ batch \in Seq(Event)
    /\ chunk \in 0..Len(batch)
    /\ live \in BOOLEAN
    /\ current \in ActionLog /\ currentId \in Nat
    /\ completed \in Seq(ActionLog)
    /\ known \subseteq Pids /\ attributed \in [Pids -> Nat]
    /\ sent \in 0..MaxEvents
    /\ birth \in [Pids -> [root : BOOLEAN, ppid : Pids \cup {Outside},
                           ts : 0..MaxTime]]
    /\ dropped \subseteq Event

\* The i-th completed action is number i, or the lifecycle action 0 if it is
\* the first; the running one is the next number or the lifecycle action.  So
\* no two logs share a number, whatever starts and ends the harness repeats
\* or forgets: action_for and every receipt look logs up by number.
Numbered ==
    /\ \A i \in DOMAIN completed :
          completed[i].id = i \/ (i = 1 /\ completed[i].id = 0)
    /\ current.start # 0 =>
          /\ current.id = currentId
          /\ \/ currentId = Len(completed) + 1
             \/ completed = <<>> /\ currentId = 0
    /\ current.start = 0 =>
          IF completed = <<>> THEN currentId = 0
          ELSE currentId = completed[Len(completed)].id

\* The actions' windows of wall-clock time follow one another in the order
\* of the logs and overlap in no more than an end point; action_at_time
\* searches them on that understanding.
WindowsSequential ==
    /\ \A i \in DOMAIN completed :
          /\ 0 < completed[i].start /\ completed[i].start <= completed[i].end
          /\ completed[i].end <= clock
          /\ \A j \in DOMAIN completed :
                i < j => completed[i].end <= completed[j].start
    /\ current.start # 0 =>
          /\ 0 < current.start /\ current.start <= clock
          /\ \A i \in DOMAIN completed : completed[i].end <= current.start

\* Nothing dangles: a process attributed to an action of the harness finds
\* that action's log, however late its events are dispatched and whatever has
\* ended or been started over since.
AttributedHasLog ==
    \A p \in known : \/ attributed[p] = 0
                     \/ HasLog(attributed[p])
                     \/ current.start # 0 /\ current.id = attributed[p]

Logged == {current.events} \cup {completed[i].events : i \in DOMAIN completed}

\* An event is recorded at most once, although batches, chunks and handlers
\* interleave: it never sits in two logs, nor in a log while it is queued,
\* and its serial tells it from every other event.
RecordedOnce ==
    LET queue == batch \o buffer IN
    /\ \A i \in DOMAIN queue :
          /\ \A log \in Logged : \A e \in log : e.n < queue[i].n
          /\ \A j \in DOMAIN queue : i < j => queue[i].n < queue[j].n
    /\ \A i \in DOMAIN completed :
          /\ completed[i].events \cap current.events = {}
          /\ \A j \in DOMAIN completed :
                i # j => completed[i].events \cap completed[j].events = {}

Inside(log, ts) == log.start < ts /\ (log.end = 0 \/ ts < log.end)

\* README: new root processes are attributed by the record's wall-clock
\* time, not by the order of processing.  A process whose first event fell
\* strictly inside an action's window belongs to that action, although the
\* action may have ended and others begun before the event was dispatched.
RootCausality ==
    \A p \in known : birth[p].root =>
        /\ \A i \in DOMAIN completed :
              Inside(completed[i], birth[p].ts) => attributed[p] = completed[i].id
        /\ current.start # 0 /\ Inside(current, birth[p].ts)
              => attributed[p] = current.id

\* README: forked processes inherit their parent's attribution, and keep it:
\* a background child stays with its parent's action for as long as the
\* container is known.
ForkInheritance ==
    \A p \in known : ~birth[p].root =>
        birth[p].ppid \in known /\ attributed[p] = attributed[birth[p].ppid]

OwnOrLifecycle(log) ==
    \A e \in log.events :
       /\ e.pid \in known
       /\ \/ attributed[e.pid] = log.id
          \/ attributed[e.pid] = 0 /\ ~HasLog(0)

\* The only events recorded under another action's number are those of
\* processes older than the first action, once that action's start has thrown
\* the lifecycle log away.
OnlyLifecycleStrays ==
    /\ OwnOrLifecycle(current)
    /\ \A i \in DOMAIN completed : OwnOrLifecycle(completed[i])

\* An event of a process that belongs to an action of the harness is never
\* dropped for want of a log, although the action has ended and no other runs.
OnlyLifecycleDropped ==
    \A e \in dropped : e.pid \in known /\ attributed[e.pid] = 0

\* What a completed log says is settled: until the container is deleted, it
\* keeps its place, number and window, and only gains events (receipts of
\* ended actions are generated from it at any later time).
CompletedOnlyGrows ==
    [][live' => \A i \in DOMAIN completed :
          /\ i \in DOMAIN completed'
          /\ completed'[i].id = completed[i].id
          /\ completed'[i].start = completed[i].start
          /\ completed'[i].end = completed[i].end
          /\ completed[i].events \subseteq completed'[i].events]_vars

\* The two buffers, the chunks and the mutex together are one queue: events
\* are dispatched in the order they were pushed, each once, each eventually.
Queue == INSTANCE EventQueue WITH queue <- batch \o buffer

DispatchedInOrder == Queue!Spec

\* Late events, chunks and requests together do to numbers what ActionLifecycle
\* says: none is given to two logs, a process gets the number of a log that is
\* kept or current and never another one, and a deletion leaves nothing behind.
Lifecycle ==
    INSTANCE ActionLifecycle
    WITH running    <- Running,
         completed  <- {completed[i].id : i \in DOMAIN completed},
         attributed <- [p \in known |-> attributed[p]]

ActionsFollowLifecycle == Lifecycle!Spec

-----------------------------------------------------------------------------
(* What a comment says, and the code does not do.                          *)

\* control.rs: "End the current action and return its receipt."
EndReturnsReceipt ==
    [][ActionEnd => ReceiptHasData(current.id)']_vars
=============================================================================
