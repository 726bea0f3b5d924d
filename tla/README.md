# syscon in TLA+

[syscon](../src/README.md) is a host daemon that watches containers through the
Linux audit subsystem and tells, for every action an AI agent takes in a
container, which processes, files, connections and other containers that action
influenced. The modules in this directory state what the daemon must get right.
TLC checks them on small instances; TLAPS proves the core of them for every
value of the constants.

Paths below are relative to `src/src/`.

## 1. The system

```
kernel -> audit records -> [audit-recv thread] -> event_buf -> [processor] --+
          (netlink)         try_recv, resolve      (Vec, lock)  take, chunks  |
                                                                              v
harness -> HTTP start / end / delete / receipts ---------------> DaemonState (mutex)
```

The audit-recv thread is an OS thread. The processor and the HTTP handlers are
tokio tasks that share one `DaemonState` under one mutex; the thread and the
processor share the buffer under a lock of its own. Nothing is persisted: a
restart begins from nothing, so there is no recovery to model.

| part | source | state | operations |
|---|---|---|---|
| Audit assembly | `audit.rs` | groups of records under construction, serials to skip, the newest serial | one record in, one finished group out, garbage collection |
| Container resolution | `daemon.rs`, `docker.rs` | pid, ppid and command-line caches | resolve the container of a group, push an event |
| Event pipeline | `daemon.rs` | shared buffer, batch | push, take, dispatch in chunks under the mutex |
| Action lifecycle | `control.rs`, `events.rs`, `state.rs` | current and completed action logs | start, end, delete |
| Attribution | `state.rs`, `handlers.rs` | an action number for each process | find the action of a time, inherit, record an event |
| Handlers | `handlers.rs` | descriptor table, file and queue nodes | one handler for each system call |
| Influence graph | `state.rs` | edges with counts, taint scores | add edges, build flows, propagate taint |
| Registry | `state.rs`, `control.rs`, `daemon.rs` | containers, experiments, addresses | create, claim, add, delete |
| Communities | `communities.rs` | none | group the processes of an action |
| Receipts, graphs, rules | `receipt.rs`, `semantic.rs`, `graph.rs`, `mitre.rs` | none | functions of the state, mostly layout |

What makes each part correct, and what is hard about it:

* **Audit assembly.** Records of different system calls interleave, and the
  kernel drops any of them when the socket is full. A group must hold the records
  of its own call, be delivered once, and survive the garbage collection while it
  is under construction; what a lost record leaves behind must be bounded.
* **Event pipeline.** Batches, chunks and handlers interleave; no event may be
  lost, repeated or reordered, and each must be dispatched eventually.
* **Attribution.** An event is dispatched up to one interval after it happened,
  when its action may have ended and another begun. What counts is the time in the
  record and who forked whom, never the order of processing. The harness may
  start twice, end twice, or delete in between; logs are looked up by number, so
  numbers must stay unique and the windows of the logs ordered.
* **Influence graph.** Edges come out of hash tables in any order and form
  cycles. Scores must not depend on that order, the loop must end, flows must be
  built before they are used, and no process may be tainted without a cause.
* **Registry.** The receive thread, the processor and the harness fill the tables in
  any order, and deletions leave some of them behind. An address must never be said
  to be another container's, and a receipt of an experiment must show every flow
  whose target is known.
* **Resolution.** A group is resolved after its process and the process's parent may have
  exited, and their pids been used again. A cache entry outlives what it is about;
  a guess is cached like knowledge.
* **Descriptors.** The calls that close, duplicate and inherit descriptors are not audited,
  so the table and the kernel part ways; transfers and messages must not be credited
  to the wrong file or queue because of it.
* **Communities.** Pairs are merged in the order of a hash table's edges: the partition
  must not depend on it, and the union-find loop must end, since it runs under the
  mutex of all containers.

The hazards, each with its line and the properties that cover it,
are `hazards` in [PROJECT.json](PROJECT.json). Some that no property covers are in
section 6.

## 2. The modules

| module | models | state and actions |
|---|---|---|
| `EventQueue` | what the pipeline promises: a queue | `queue`; `Accept`, `Consume` |
| `ActionLifecycle` | what actions promise to whoever looks logs up by number | `running`, `currentId`, `completed`, `attributed`; `Start`, `End`, `Appear`, `Reset` |
| `Attribution` | pipeline, action lifecycle, attribution and recording for one container | see below |
| `AuditAssembly` | `try_recv` and `PendingEvents` | `Syscall`, `Auxiliary`, `Eoe`; each is emitted by the kernel and then received or lost |
| `TaintGraph` | scores, edges, and what it means for taint to be at rest | operators only: `Closed`, `Rests`, `Closure` |
| `Propagation` | what `propagate_taint` promises to those who wait for the lock | `Propagate`, one step |
| `TaintPropagation` | the loop of `propagate_taint`, one edge at a time | `Skip`, `Raise`, `EndPass` |
| `Flows` | process table, file and queue nodes, graph and scores of a container | one action for each kind of event and each request |
| `Registry` | containers, experiments and addresses, and the cross-container flows of a receipt | `Push`, `Dispatch`, and one action for each request |
| `Resolver` | the receive thread: eager resolution, caches, the walk up the parents, guesses | host: `Start`, `SystemCall`, `Exit`; thread: `Receive`, `WouldBlock`, `ReceiveError`, `Handle` |
| `Descriptors` | `fd_table` beside the kernel's descriptors | calls the daemon sees, and calls it does not |
| `Communities` | `detect_communities` and `find_root`, one step of a loop at a time | three passes: `StartComponent`, `Visit`, `EndComponent`; `CollectMerges`, `TakeMerge`, `Climb`, `Union`, `EndMerges`; `Regroup` |
| `MC*` | instances for TLC | symmetry, small sets, the grades and factors, bounds |
| `*Proofs` | theorems about the module they are named after | |

The modules meet where the components do. `Attribution` implements `EventQueue`.
`Attribution` and `Flows` each keep the action lifecycle and both implement `ActionLifecycle`,
the one with windows and logs, the other with the numbers alone: neither gives a process a number
that lookups would not find, or takes one back. `TaintPropagation` implements `Propagation`:
its loop is one step to everyone else, and `Flows` takes it for one, the `Closure` of `TaintGraph`. `AuditAssembly` ends where `Resolver` begins, with a
finished group, and `Resolver` where `Attribution` and `Registry` begin, with a `Push`.

### Attribution

`buffer` is `event_buf`, `batch` what `std::mem::take` left to the processor and
`chunk` the number of events it may still dispatch before it drops the mutex:
`chunk = 0` is exactly when an HTTP handler can run. `Push` is the end of
`audit_recv_loop`, `TakeBatch` the tick of the processor, `LockChunk` the
acquisition of the mutex, and `Dispatch` one round of the inner loop: it creates
the container if it is missing, runs `ensure_process` and one handler's
recording. `ActionStart`, `ActionEnd` and `DeleteContainer` are the three
handlers that write. `Tick` advances the wall clock.

A log is reduced to its number, window and set of events. `wall_end_ms = None` is
an `end` of 0; such a log covers no time, as in `action_at_time`. `ActionAtTime`
translates that function branch for branch: the newest completed log that covers
the time, else the running one, else the nearest start within `Grace`, else
`current_action_id`. `Record` is `action_for` under the recorders; `RecordNothing`
stands for the handlers that record nothing. The variables `sent`, `birth` and
`dropped` are history and no guard reads them, `sent` excepted, which also bounds
the run.

### AuditAssembly

The kernel half emits the records of a call in order, SYSCALL first and EOE last,
while the records of different calls interleave at will. `Lose` drops any of them, up
to `MaxLost`. The other half is `PendingEvents`. A group is the set of the
records it has taken in; the check of `success` and the exception for calls with
an address are in `Wanted`; `Gc` is `gc`, with its saturating subtraction.
Whose group it is belongs to `Resolver`.

The constant `Spread` limits how far apart the serials of calls under way can be.
Linux draws a call's serial when the call exits and emits its records at once, so
two calls under way at the same time are a few serials apart, one for each CPU
and interrupted emission, while `Window` is 500. The assumption `Spread <= Window`
is what `gc` relies on, and `DeliveredExactly` needs it.

### TaintGraph and TaintPropagation

Scores are grades: natural numbers with 0 for clean, `Full` for 1.0 and
`Threshold` for 0.1. A channel maps grades to grades, monotonically, never
upwards, and never a positive grade to 0, which is what multiplying by 0.9, 0.7
or 0.5 does. The epsilon of 1e-9 in the comparison makes two scores equal, so they
are one grade.
`Closure(edges, table)` is what the function is to compute: the least table above
the given one that no edge can raise. The loop is the code's: passes over the list
until one of them changes nothing.

### Flows

Each action is one critical section of the mutex: the dispatch of one event, or
one request. `Dispatch` runs `ensure_process`, with its three cases for the first
score and the fork edge, and is followed by what the handler records: `Write`
(open for writing), `Read` (open for reading, or the source of a kernel transfer),
`Exec`, `Send`, `Receive`, or nothing. `ActionEnd` builds file flows, then queue
flows, then propagates; `SnapshotReceipt` builds file flows and propagates.
Propagation is `Closure`, which `TaintPropagationProofs` shows the loop to
return. A root's attribution is any number a log may have, which includes every
result of `ActionAtTime`; how it is chosen is the subject of Attribution.
`event_count` is counted up to `Sustained`, the only value the program compares it
with. Readers and executors are one set here: every flow reads their union, and
only the former are closed to writers, which `Read` and `Exec` keep apart.

### Registry

`held` is the environment: the addresses a container really has, which containers may share.
`Push` puts an event into the buffer with all of them or none, since the file they are read
from is there or not. `Dispatch` claims them if, and only if, the container is not there:
`or_insert` in the loop of `daemon.rs`. `ActionStart` stands for `ensure_container`,
`DeleteContainer` for a deletion, which leaves addresses and experiments alone, and
`AddContainer` for the request that may declare addresses and overwrites what is there.
`CrossFlows` is the part of an experiment's receipt that reads the map.
`container_to_experiment` is written and never read in the program; it is kept in the model
so that a change that begins to read it can be checked (the mutant of `FlowsShown`).
`reported`, `announced` and `declared` are history.

### Resolver

The host half starts processes in containers or outside, lets them exit and gives their
pids to others. A group carries the pid and parent of its record and, as history, where the process really ran
(`truth`) and which process of the pid it was (`life`). `Receive` is the drain loop with
the eager read of the cgroup, which can fail; `Handle` is one round of the second loop: eager
result, `pid_cache`, `/proc`, the walk up at most `MaxDepth` parents, the only container
known, the scan. `Walks` gives the pids that a walk visits, with `ppid_cache` before `/proc`.
`doubtful` and `doubt` are history: they say which entries rest on a guess or on a reused pid.

### Descriptors

A call and the dispatch of its event are one step, because events are dispatched in order
(`DispatchedInOrder`). `Open` and `mq_open` take the lowest free number, as Linux does. What the daemon
does not see changes `object` and leaves `fdTable`: `Fork`, `Close`, `Install` (`dup`, `pipe`,
`socket`, `accept`, a lost record), `ExitUnseen`. `blind` marks the descriptors whose entry such a
call has made unreliable; `close` and exit mark none, and that they need not is part of
what `TableAgrees` says.

### Communities

A step is a turn of a loop. The hash tables' orders are choices: which process starts a
component, which neighbour is visited, which merge is next. `ends` holds the arguments of
the two `find_root` calls while they climb. Labels, scores and representatives are computed from the result and
left out.

## 3. The runs

| run | question | size |
|---|---|---|
| `attribution_pipeline` | Do numbers, windows, causality and logs survive late records, chunks, and whatever the harness does, and do they follow the lifecycle? | 2 pids, 3 events up to 2 ticks old, the first perhaps without a time, 2 actions, chunks of 2, clock to 3 |
| `attribution_delivery` | Do buffer, batch and chunks implement `EventQueue`, liveness included? | 2 pids, 3 events, 1 action |
| `assembly` | Do groups keep their records apart, is delivery exact while `gc` runs, do only losses leak, is the table bounded? | 4 serials, window 2, threshold 1, 3 losses |
| `taint_propagation` | Does the loop end in the least fixpoint for every list of edges in every order, name each tainted process once, and pass for one step? | 3 processes, 3 edges, 5 grades |
| `flows` | After each receipt, has taint spread along forks, files and queues, chains included; is it only where influence can have reached; is nothing taken back; do the numbers follow the lifecycle? | 4 grades; 2 processes with a file over 2 actions, or in 1 action with a file and either a library or a queue, or 3 of the current action with a file |
| `registry` | Are addresses true, flows shown and first claims kept, whatever the order of events and requests? | 2 containers, 2 addresses, 2 events, 2 experiments |
| `resolver` | Is an event given to the right container, and a process with a known parent never skipped, although processes exit and pids are reused? | 3 pids, 2 containers, walks of 2, 3 events, 2 exits, 1 pid reused |
| `descriptors` | Is the table right, and is each transfer and message credited to the right file or queue, while most calls on descriptors are not seen? | 2 processes, 2 descriptors, a file, a queue, 2 uses at the end |
| `communities` | Are the communities returned the classes the edges generate, in every order of merging, do the parents stay trees, and does the call end? | 4 processes, 2 names, 3 edges |

The bounds are those at which the interesting cases occur. Two pids make a
parent and its child, or two roots. Three events are a full chunk and the rest
of a batch, so that handlers come between them. Two actions and three ticks let a
record lie before, in and after a completed window and be dispatched when the next
action has started or ended. Four serials with a window of 2 make `gc` run while
calls are under way on either side of the cutoff, and three lost ends fill the table
beyond its bound; one kind of ancillary record is enough to tell groups apart, since
kinds differ in `Wanted` only. Three edges between three processes contain each cycle
of length two and three, and every order of a list in which a later edge enables an
earlier one. In `Flows`, three processes with one file make a chain of a fork and a flow,
and a second node, with two processes, tells files from libraries and from queues; a second
action, with two processes and the file, makes flows between actions, and numbers that stay when the log
is replaced. Above clean and a trace there are two grades, so that one passage
keeps the taint or loses it, by channel. What is left out are products of these: `Small` in `MCFlows` says which.
`Sustained` is 1, the least at which a count is capped. Two containers with two addresses can share one, have one each, or none, and
two events bring a container back after its deletion. Three pids are a process, its
parent and its grandparent, two exits leave a process and its parent gone, or one gone and the other's pid reused, and a depth of 2 is the least at which the bound of the walk cuts it off.
Two descriptors are needed for `Lowest` to choose; no step
looks at what uses have recorded, so uses come last in a run, in any state of the table. Three edges between four
processes are a chain of merges through every community; with more, each is
a repetition, and the theorem covers any number. Of graphs that a renaming of processes or of names
makes equal, `MCInit` takes one or a few.
In `Attribution` a record without a time can be dispatched in any order with respect to the others, so the
run lets the first one only be without (`FirstUnstamped`).

Runs of safety alone use the symmetry of pids, containers or addresses.
Runs that end when a bound is exhausted do not check deadlock: those of AuditAssembly, Flows, and
Resolver (all processes exited, or the thread has returned); TaintPropagation and Communities, which return.
Registry, Descriptors and Attribution always have a step, and their runs check deadlock.

### What the properties say

* `RecordedOnce`, `OnlyLifecycleStrays`, `OnlyLifecycleDropped`: an event sits in at
  most one log, under its own process's action; the only exceptions are processes
  older than the first action, once that action has replaced the lifecycle log.
* `RootCausality`, `ForkInheritance`: a root gets the action whose window its
  record's time lies strictly inside; a child keeps its parent's.
* `Numbered`, `WindowsSequential`, `AttributedHasLog`, `CompletedOnlyGrows`: the logs are
  an ordered list of distinct numbers and windows; a process finds its log; a
  completed log only gains events.
* `DispatchedInOrder`: the refinement of `EventQueue`. `ActionsFollowLifecycle`: that of
  `ActionLifecycle`, by `Attribution` and by `Flows`. A start never takes the number of a log that is kept,
  a log is kept only by the end of its action, and no process gets a number out of nowhere, or a second one.
* `GroupsIntact`, `DeliveredExactly`, `OnlyLossLeaks`, `GcBounds`: the four promises of
  the assembly.
* `AtOnce`, `NewlyTaintedExact`, `Termination`: to everyone but itself the loop is one step, to the closure
  of the scores on entry, whatever the order of the edges (the refinement of `Propagation`); it returns each
  tainted process once; and it ends.
* `ReceiptsSpreadTaint`, `TaintHasOrigin`, `OnlyGrows`: taint is neither missing after
  a receipt, nor there without a cause, nor taken back.
* `AddressesTrue`, `FirstClaimStands`, `FlowsShown`: an address is never said to be
  another container's; only a declaration takes it from its owner; a receipt shows
  every connection to an address that one container alone has, once that is known.
* `RightUnlessInDoubt`, `FamilyIsKept`: a resolved event is its container's, and so is an entry
  of the cache, unless a guess or a reused pid is involved; an event of a process
  that is cached, or whose parent is, is never skipped.
* `TableAgrees`, `CreditsExact`: the table is right about a descriptor that no unseen call
  has reopened; uses of such descriptors are recorded, with their object, and no
  others are.
* `MergedByBusyEdges`, `Finishes`, `TreesHaveRoots`: the communities are the classes of forks within a
  name and busy edges, the call returns, and from no index do the parents lead round in a circle.

### Fairness

The processor loops for ever on its interval and tokio's mutex queues its
waiters, so `TakeBatch`, `LockChunk` and `Dispatch` are weakly fair. Nothing
obliges the harness to start or end an action, or the kernel to emit anything:
these are not fair. In `EventQueue` only `Consume` is fair. `propagate_taint` runs in one
thread that the scheduler does not abandon: its next step is weakly fair.
`detect_communities` is one sequential call as well: `WF_vars(Next)`. The other modules
state safety alone and assume no fairness.

## 4. Where the code and its documentation differ

TLC is expected to find these three runs violated. Each shows the shortest way there.

| run | the documentation says | the code does |
|---|---|---|
| `attribution_receipt` | an end returns the action's receipt (`control.rs:119`) | the log has left `current_action` when the receipt is made from it: "No action data found" |
| `flows_snapshot` | a snapshot shows everything accumulated so far (`control.rs:258`) | it builds no queue flows |
| `registry_first_seen` | addresses are there once a container has been seen (`state.rs:643`) | a container that the harness has already created is not new to the processor, and its addresses are never claimed |

Met while modelling, with no run of their own; the models follow the code:

* `state.rs:391`: the search for the nearest start falls back to `current_action_id`, which
  the two seconds of the comment above it do not bind (`ActionAtTime`).
* The first start discards the lifecycle log; events of the processes in it go to whatever
  action is current. `OnlyLifecycleStrays` says that nothing else strays.
* `handlers.rs:478`: a root process of an action that is dispatched after the action has
  ended is attributed to it and yet clean.
* Cross-action taint changes a process's score and never its attribution (`OnlyGrows`).
* `state.rs:154`: each receipt raises `event_count`, without any event, while
  `communities.rs:21-23` takes it for a measure of sustained flow. The comment at
  `communities.rs:135` says "> 10", the code compares with `>=`.
* `state.rs:613`: a process that reads a file and then writes it has no edge, unless a receipt came in
  between; the comments at `state.rs:486` and `:575` ask for different things.
* `daemon.rs:220`: "it's unambiguous" of the only container known, to which every process
  that cannot be resolved is then given. `RightUnlessInDoubt` counts this as doubt.
* `audit.rs:433`: `/proc/pid/cgroup` is "guaranteed to exist" when the record arrives. The
  record is read after the call has returned, and the process may be gone (`Receive`).
* `ingest.rs:80`: addresses are "only non-empty for the first event"; they come with every
  event whose process can be read (`Push`).
* `state.rs:340`: `fd_table` is "populated by openat/connect/socket/pipe/mq_open"; `socket` and
  `pipe` do not touch it.
* `handlers.rs:203-205` removes the entries of a process when it exits, but no exit is audited
  (`ExitUnseen`).

## 5. What is proved

All proofs are checked by TLAPS from the named assumptions of the modules:
`ConstantsAssumption`, `AssemblyAssumption`, `TaintAssumption`, `LoopAssumption`, `FlowsAssumption`,
`RegistryAssumption`, `ResolverAssumption`, `DescriptorsAssumption` and
`CommunitiesAssumption`. They hold for any number of pids, events, actions, serials,
edges, grades, containers and descriptors; TLC evaluates the same assumptions on every run.
Every safety property of the passing runs is a theorem.

**AttributionProofs.** `TypeCorrect`, then `InductiveInvariant`: `IInv` is the
conjunction of `TypeOK`, `Numbered`, `WindowsSequential`, `AttributedHasLog`,
`ForkInheritance`, `RootCausality` and `Bookkeeping`. The last part says that times lie
in the past and that nothing is known of a container that does not exist. The parts need each other:
`RootCausality` survives an end because the window that closes cannot admit a time
it did not admit before, which needs the clock; survives a start because windows
are sequential; and holds at a dispatch because `ActionAtTime` finds the one window
that a time lies inside, for which windows must not overlap and numbers must
be unique. From `IInv` follow `NumbersUnique`, `WindowsDisjoint`, `NothingDangles`,
`CausalAttribution` and `Inheritance`; `Strays` and `Drops` state `OnlyLifecycleStrays` and
`OnlyLifecycleDropped`, and `SettledLogs` the action property `CompletedOnlyGrows`.
`EachEventOnce` (`RecordedOnce`) has an invariant of its own, `OnceInv`: besides what is
in the logs, no event of the buffer or the batch may be in either twice, or in a log
already. `PipelineIsQueue` is the safety part of `DispatchedInOrder`: under the mapping of `queue`
to `batch \o buffer`, each step accepts at the end, consumes at the front, or stutters.
`LifecycleImplemented` needs `IInv` for a start, whose number must be above those of the logs kept, and for an end, which
keeps its log. `RunningOrAbsent` says that a container not there counts as one in its lifecycle action, so
creating it at a dispatch is no step of the lifecycle; `AttributionIsKept`, that a
dispatch gives a number to its own process at most.

**AuditAssemblyProofs.** `AInv` adds three facts to the properties: `Close` (calls under way
are within `Spread` of the newest serial received), `LostEmitted` and `Tables` (what
is in each table, and what must still be there). `gc` spares a group under
construction because its serial is within `Spread <= Window` of the newest. Then
`GroupsAreIntact`, `DeliveryIsExact`, `LeaksComeFromLoss`, and `GcKeepsBounds`, which
counts the serials of a window.

**TaintPropagationProofs.** `LoopInv` says that the table lies between the scores
on entry and every table at rest above them, and that the edges behind the
position are satisfied unless something has changed in this pass. When a pass has
changed nothing, the table is at rest itself and so the least one: `ReachesLeastFixpoint`.
`ReturnsNewlyTainted` needs that a score only rises. From both, `PropagationImplemented`: under a mapping that shows
the scores on entry until the function returns, only the end of the last pass is a step of `Propagation`.

**FlowsProofs.** A least table at rest exists above any table: the pointwise minimum of
tables at rest is at rest, since attenuation is monotone. So the closure a receipt
computes is at rest (`ReceiptsSpread`) and above what was there (`Grows`). `TaintOrigins`: the
table that is full for every influenced process and clean for the others is at
rest too, since each edge of the graph is an influence, and the least one lies below it.
`LifecycleImplemented` goes through the actions: events can only add a process, with a number in use.

**RegistryProofs.** The invariant says where addresses come from: an event in the buffer
carries none or all of what its container has, what was declared or announced is in the map,
and the map is true. `AddressesAreTrue`, `FlowsAreShown` and `FirstClaim` follow.

**ResolverProofs.** `KinInv` says that there is a `home` for each pid, the place where its newest process
runs or ran, and that whatever the daemon holds of the pid is consistent with it: a child of a
parent whose pid was not reused has the parent's home if that is a container, a group of the newest process
was emitted there, and so was every cache entry that is not in doubt. The walk is then followed
downwards from the ancestor found, each process having the home of the one above.
`RightOrInDoubt` and `KeptFamilies` state the two properties, for any depth of the walk.

**DescriptorsProofs.** `TableAgrees` is inductive beside the types: every step that opens a
descriptor enters it or marks it (`Agreement`). `Credits` follows step by step.

**CommunitiesProofs.** `CInv` follows the three passes. While searching: nothing without a fork
edge out of it splits a component, and no fork edge leads out of a finished one. While merging:
there is a `root` for each index, which `parent` agrees with whatever the shape of its trees;
what has one root cannot be separated without cutting a tie; and a busy edge is below
one root, or still to come, or being worked on. While regrouping: the groups hold
what is below each root so far. At the end each group is closed under ties and the least
such set: `ClassesReturned`. That there is such a `root` for each index does not exclude a cycle of parents; it takes an
invariant of its own, `TreesHaveRoots`: every set of indexes, the empty one aside, that is closed under `parent` holds a
root. `UnionKeepsRoots` shows that a union keeps it, since it only gives a root a parent of another
tree (`RootsExist`).

**Only model-checked:** `Termination`, `Finishes` and the liveness part of
`DispatchedInOrder`, since liveness under fairness is beyond the prover.

## 6. What is not modelled, and why

* Parsing of records (`audit_parse.rs`, `ingest.rs`): one record's bytes to fields,
  stateless, with unit tests of its own.
* The socket and `auditctl`, `/proc` and cgroup files (`docker.rs`): input and output. What
  a read of them may return is an assumption of `Resolver` and `Registry`.
* Text: receipts, DOT, HTML, MITRE patterns. Which log a receipt is made from is
  in Attribution, which edges it sees in Flows, its groups in Communities, and the
  flows of an experiment in Registry; which of them it prints, and how, is layout.
* `canonicalize_path`, a function from strings to strings, better tested than modelled.
* Several containers at once: no handler of one touches the state of another, except
  through the registry.
* Display data of a process (`open_files`, `net_connections` beyond connects, command
  lines and their cache), and labels, scores and representatives of communities.
* The lists of deleters and modifiers of a file, which no flow is made from.
* Floating point: grades stand for scores (section 2).
* The dashboard (`index.html`, and `viz.js`, a vendored and minified graph library of nine lines):
  it draws what the HTTP interface returns and takes no part in what the daemon does.
* Unbounded growth and waiting: `fd_table` keeps an entry for every descriptor number ever
  used (`state.rs:341`), and the receive thread begins to resolve only when the socket has
  run dry (`daemon.rs:267`). The code states no bound, and the models' are their own.
* Details of single handlers: `openat2` passes a pointer to its flags where `openat` passes the
  flags (`ingest.rs:179`); a rename moves no writer to the new name (`handlers.rs:26`);
  `open_files` lists failed opens as well (`receipt.rs:556`).
* Restarts: nothing is persisted, and a daemon begins from nothing.

## 7. What could come next

1. `Resolver` composed with `Attribution`: an event skipped, or given to another container,
   as the cause of a missing parent in `ensure_process`.
2. The lines of a receipt, as a function of the log and the graph: which processes
   and which files of other actions it lists (`receipt.rs:292`, `:513`).
3. The lists of known containers in the cache against the containers that still exist:
   how long a guess lives on.
