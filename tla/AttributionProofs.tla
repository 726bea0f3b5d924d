------------------------- MODULE AttributionProofs -------------------------
(***************************************************************************)
(* Proofs about Attribution, for any number of processes, events, actions  *)
(* and any clock.                                                          *)
(***************************************************************************)
EXTENDS Attribution, WellFoundedInduction, TLAPS

-----------------------------------------------------------------------------
(* Lemmas about the operators action_at_time is built from.                *)

\* A set of natural numbers that is not empty has a least element.
LEMMA LeastNat ==
    ASSUME NEW T \in SUBSET Nat, T # {}
    PROVE  \E x \in T : \A y \in T : x <= y
<1>1. \E x \in T : \A y \in T : ~ (<<y, x>> \in OpToRel(<, Nat))
  BY WFMin, NatLessThanWellFounded, Zenon
<1>2. PICK x \in T : \A y \in T : ~ (<<y, x>> \in OpToRel(<, Nat))
  BY <1>1
<1>3. \A y \in T : <<y, x>> \in OpToRel(<, Nat) <=> y < x
  BY Zenon DEF OpToRel
<1>4. \A y \in T : ~(y < x)
  BY <1>2, <1>3, Zenon
<1>. QED  BY <1>4

\* So has a set of indices of a sequence a greatest one.
LEMMA GreatestIndex ==
    ASSUME NEW n \in Nat, NEW T \in SUBSET (1..n), T # {}
    PROVE  \E x \in T : \A y \in T : y <= x
<1>. DEFINE U == {n - x : x \in T}
<1>1. U \in SUBSET Nat /\ U # {}
  <2>1. \A x \in T : n - x \in Nat
    OBVIOUS
  <2>. QED  BY <2>1, Zenon
<1>2. PICK u \in U : \A v \in U : u <= v
  BY <1>1, LeastNat
<1>3. PICK x \in T : u = n - x
  OBVIOUS
<1>4. \A y \in T : n - x <= n - y
  BY <1>2, <1>3
<1>. QED  BY <1>3, <1>4

\* The container's logs, as the dispatch of an event finds them.
LEMMA TimelineType ==
    ASSUME TypeOK
    PROVE  /\ Current \in ActionLog
           /\ Timeline \in Seq(ActionLog)
           /\ Running => /\ Len(Timeline) = Len(completed) + 1
                         /\ Timeline[Len(completed) + 1] = Current
           /\ ~Running => Len(Timeline) = Len(completed)
           /\ \A i \in DOMAIN completed : Timeline[i] = completed[i]
<1>1. Current \in ActionLog
  BY ConstantsAssumption DEF TypeOK, Current, NewLog, ActionLog
<1>. QED  BY <1>1 DEF TypeOK, Timeline

\* action_at_time's nearest match is one of the matches it may choose from.
LEMMA NearestIsNearby ==
    ASSUME TypeOK, NEW ts \in Nat, Nearby(ts) # {}
    PROVE  Nearest(ts) \in Nearby(ts)
<1>. DEFINE Starts == {Timeline[i].start : i \in Nearby(ts)}
<1>1. /\ Nearby(ts) \subseteq DOMAIN Timeline
      /\ DOMAIN Timeline \subseteq Nat
      /\ \A i \in DOMAIN Timeline : Timeline[i].start \in Nat
  <2>1. Timeline \in Seq(ActionLog)
    BY TimelineType
  <2>2. DOMAIN Timeline = 1..Len(Timeline) /\ Len(Timeline) \in Nat
    BY <2>1
  <2>3. \A i \in DOMAIN Timeline : Timeline[i] \in ActionLog
    BY <2>1, <2>2
  <2>4. \A a \in ActionLog : a.start \in 0..MaxTime
    BY DEF ActionLog
  <2>. QED  BY <2>2, <2>3, <2>4, ConstantsAssumption DEF Nearby
<1>2. Starts \in SUBSET Nat /\ Starts # {}
  BY <1>1
<1>3. PICK s \in Starts : \A t \in Starts : s <= t
  BY <1>2, LeastNat
<1>. DEFINE First == {i \in Nearby(ts) : Timeline[i].start = s}
<1>4. First \in SUBSET Nat /\ First # {}
  BY <1>1, <1>3
<1>5. PICK k \in First : \A j \in First : k <= j
  BY <1>4, LeastNat
<1>6. \A j \in Nearby(ts) : \/ Timeline[k].start < Timeline[j].start
                            \/ Timeline[k].start = Timeline[j].start /\ k <= j
  BY <1>1, <1>3, <1>5
<1>. QED  BY <1>5, <1>6 DEF Nearest

\* Its exact match is the last completed window that covers the time.
LEMMA LastCoveringCovers ==
    ASSUME TypeOK, NEW ts \in Nat,
           \E i \in DOMAIN completed : Covers(completed[i], ts)
    PROVE  /\ LastCovering(ts) \in DOMAIN completed
           /\ Covers(completed[LastCovering(ts)], ts)
<1>. DEFINE Hits == {i \in DOMAIN completed : Covers(completed[i], ts)}
<1>1. Hits \in SUBSET (1..Len(completed)) /\ Hits # {} /\ Len(completed) \in Nat
  BY DEF TypeOK
<1>2. PICK k \in Hits : \A j \in Hits : j <= k
  BY <1>1, GreatestIndex
<1>. QED  BY <1>2 DEF LastCovering

\* action_at_time returns the number of one of the container's logs, or
\* current_action_id.
LEMMA ActionAtTimeIsLog ==
    ASSUME TypeOK, NEW ts \in Nat
    PROVE  \/ ActionAtTime(ts) = currentId
           \/ \E i \in DOMAIN Timeline : ActionAtTime(ts) = Timeline[i].id
<1>1. CASE ts # 0 /\ \E i \in DOMAIN completed : Covers(completed[i], ts)
  <2>1. LastCovering(ts) \in DOMAIN completed
    BY <1>1, LastCoveringCovers
  <2>2. ActionAtTime(ts) = Timeline[LastCovering(ts)].id
    BY <1>1, <2>1, TimelineType DEF ActionAtTime
  <2>3. LastCovering(ts) \in DOMAIN Timeline
    BY <2>1, TimelineType DEF TypeOK
  <2>. QED  BY <2>2, <2>3
<1>2. CASE /\ ts # 0 /\ ~ \E i \in DOMAIN completed : Covers(completed[i], ts)
           /\ Running /\ ts >= Current.start
  BY <1>2, TimelineType DEF ActionAtTime, TypeOK
<1>3. CASE /\ ts # 0 /\ ~ \E i \in DOMAIN completed : Covers(completed[i], ts)
           /\ ~(Running /\ ts >= Current.start) /\ Nearby(ts) # {}
  BY <1>3, NearestIsNearby DEF ActionAtTime, Nearby
<1>. QED  BY <1>1, <1>2, <1>3 DEF ActionAtTime

\* The attribution of a new process is a number.
LEMMA AttributionIsNumber ==
    ASSUME TypeOK, NEW e \in Event
    PROVE  AttributionOf(e) \in Nat
<1>1. e.ts \in Nat
  BY ConstantsAssumption DEF Event
<1>2. \A i \in DOMAIN Timeline : Timeline[i].id \in Nat
  <2>1. \A i \in DOMAIN Timeline : Timeline[i] \in ActionLog
    BY TimelineType
  <2>2. \A a \in ActionLog : a.id \in Nat
    BY DEF ActionLog
  <2>. QED  BY <2>1, <2>2
<1>3. ActionAtTime(e.ts) \in Nat
  BY <1>1, <1>2, ActionAtTimeIsLog DEF TypeOK
<1>. QED  BY <1>3 DEF AttributionOf, TypeOK

-----------------------------------------------------------------------------
(* Type correctness.                                                       *)

\* The values a container that is not known is described by.
LEMMA NoActionType == NoAction \in ActionLog
BY ConstantsAssumption DEF NoAction, NewLog, ActionLog

LEMMA EmptyTableType ==
    /\ [p \in Pids |-> 0] \in [Pids -> Nat]
    /\ [p \in Pids |-> NoBirth] \in
          [Pids -> [root : BOOLEAN, ppid : Pids \cup {Outside}, ts : 0..MaxTime]]
<1>1. NoBirth \in [root : BOOLEAN, ppid : Pids \cup {Outside}, ts : 0..MaxTime]
  BY ConstantsAssumption DEF NoBirth
<1>. QED  BY <1>1

LEMMA TypeInit == Init => TypeOK
<1>. SUFFICES ASSUME Init PROVE TypeOK
  OBVIOUS
<1>1. clock \in 1..MaxTime /\ sent \in 0..MaxEvents
  BY ConstantsAssumption DEF Init
<1>2. buffer \in Seq(Event) /\ batch \in Seq(Event) /\ chunk \in 0..Len(batch)
  BY DEF Init
<1>3. /\ current \in ActionLog /\ currentId \in Nat
      /\ completed \in Seq(ActionLog) /\ dropped \subseteq Event
  BY NoActionType DEF Init
<1>4. /\ live \in BOOLEAN
      /\ known \subseteq Pids /\ attributed \in [Pids -> Nat]
      /\ birth \in [Pids -> [root : BOOLEAN, ppid : Pids \cup {Outside},
                             ts : 0..MaxTime]]
  BY EmptyTableType, Zenon DEF Init
<1>. QED  BY <1>1, <1>2, <1>3, <1>4, Zenon DEF TypeOK

LEMMA TypeDispatch ==
    ASSUME TypeOK, Dispatch
    PROVE  TypeOK'
<1>. DEFINE e == Head(batch)
<1>1. batch # <<>> /\ e \in Event
  BY DEF TypeOK, Dispatch
<1>2. batch' \in Seq(Event) /\ chunk' \in 0..Len(batch')
  BY <1>1 DEF TypeOK, Dispatch
<1>3. known' \subseteq Pids /\ attributed' \in [Pids -> Nat]
  BY <1>1, AttributionIsNumber DEF TypeOK, Dispatch, EnsureProcess, processes, Event
<1>4. birth' \in [Pids -> [root : BOOLEAN, ppid : Pids \cup {Outside}, ts : 0..MaxTime]]
  <2>. DEFINE b == [root |-> e.ppid \notin known, ppid |-> e.ppid, ts |-> e.ts]
  <2>1. b \in [root : BOOLEAN, ppid : Pids \cup {Outside}, ts : 0..MaxTime]
    BY <1>1 DEF Event
  <2>2. birth' = birth \/ birth' = [birth EXCEPT ![e.pid] = b]
    BY DEF Dispatch, EnsureProcess, processes
  <2>. QED  BY <2>1, <2>2 DEF TypeOK
<1>5. current' \in ActionLog
  <2>1. Current \in ActionLog
    BY TimelineType
  <2>2. [Current EXCEPT !.events = @ \cup {e}] \in ActionLog
    BY <1>1, <2>1 DEF ActionLog
  <2>. QED  BY <2>1, <2>2 DEF Dispatch, Record, RecordInCurrent,
                              RecordInCompleted, RecordNowhere, RecordNothing, TypeOK
<1>6. completed' \in Seq(ActionLog)
  <2>1. ASSUME NEW i \in DOMAIN completed
        PROVE  [completed EXCEPT ![i].events = @ \cup {e}] \in Seq(ActionLog)
    <3>1. completed[i] \in ActionLog
      BY DEF TypeOK
    <3>2. [completed[i] EXCEPT !.events = @ \cup {e}] \in ActionLog
      BY <1>1, <3>1 DEF ActionLog
    <3>. QED  BY <3>2 DEF TypeOK
  <2>. QED  BY <2>1 DEF Dispatch, Record, RecordInCurrent,
                        RecordInCompleted, RecordNowhere, RecordNothing, TypeOK
<1>7. dropped' \subseteq Event
  BY <1>1 DEF Dispatch, Record, RecordInCurrent, RecordInCompleted,
              RecordNowhere, RecordNothing, TypeOK
<1>. QED  BY <1>2, <1>3, <1>4, <1>5, <1>6, <1>7 DEF TypeOK, Dispatch

LEMMA TypeNext == TypeOK /\ [Next]_vars => TypeOK'
<1>. SUFFICES ASSUME TypeOK, [Next]_vars PROVE TypeOK'
  OBVIOUS
<1>. USE ConstantsAssumption
<1>1. CASE Push
  <2>1. PICK pid \in Pids, ppid \in Pids \cup {Outside}, ts \in 0..clock :
           buffer' = Append(buffer, [n |-> sent + 1, pid |-> pid,
                                     ppid |-> ppid, ts |-> ts])
    BY <1>1 DEF Push
  <2>2. [n |-> sent + 1, pid |-> pid, ppid |-> ppid, ts |-> ts] \in Event
    BY <1>1 DEF Push, TypeOK, Event
  <2>. QED  BY <1>1, <2>1, <2>2 DEF Push, TypeOK, actions, processes
<1>2. CASE TakeBatch
  BY <1>2 DEF TakeBatch, TypeOK, actions, processes
<1>3. CASE LockChunk
  BY <1>3 DEF LockChunk, TypeOK, actions, processes
<1>4. CASE Dispatch
  BY <1>4, TypeDispatch
<1>5. CASE ActionStart
  <2>1. current' \in ActionLog
    BY <1>5 DEF ActionStart, NewLog, ActionLog, TypeOK
  <2>. QED  BY <1>5, <2>1 DEF ActionStart, TypeOK, pipeline, processes
<1>6. CASE ActionEnd
  <2>1. current \in ActionLog /\ clock \in 0..MaxTime
    BY DEF TypeOK
  <2>2. [current EXCEPT !.end = clock] \in ActionLog
    BY <2>1 DEF ActionLog
  <2>. QED  BY <1>6, <2>2, NoActionType DEF ActionEnd, TypeOK, pipeline, processes
<1>7. CASE DeleteContainer
  <2>1. /\ current' \in ActionLog /\ currentId' \in Nat
        /\ completed' \in Seq(ActionLog) /\ dropped' \subseteq Event
    BY <1>7, NoActionType DEF DeleteContainer
  <2>2. /\ live' \in BOOLEAN
        /\ known' \subseteq Pids /\ attributed' \in [Pids -> Nat]
        /\ birth' \in [Pids -> [root : BOOLEAN, ppid : Pids \cup {Outside},
                                ts : 0..MaxTime]]
    BY <1>7, EmptyTableType, Zenon DEF DeleteContainer
  <2>3. UNCHANGED <<clock, buffer, batch, chunk, sent>>
    BY <1>7 DEF DeleteContainer, pipeline
  <2>. QED  BY <2>1, <2>2, <2>3 DEF TypeOK
<1>8. CASE Tick
  BY <1>8 DEF Tick, TypeOK, pipeline, actions, processes
<1>9. CASE UNCHANGED vars
  BY <1>9 DEF vars, TypeOK, pipeline, actions, processes
<1>. QED  BY <1>1, <1>2, <1>3, <1>4, <1>5, <1>6, <1>7, <1>8, <1>9 DEF Next

\* Every reachable state has its type, for any constants.
THEOREM TypeCorrect == Spec => []TypeOK
<1>. QED  BY TypeInit, TypeNext, PTL DEF Spec

-----------------------------------------------------------------------------
(* The inductive invariant.  Numbered, WindowsSequential, AttributedHasLog, *)
(* ForkInheritance and RootCausality lean on one another and on the        *)
(* bookkeeping below.                                                      *)

Bookkeeping ==
    /\ current.end = 0
    /\ ~live => /\ completed = <<>> /\ currentId = 0
                /\ current.start = 0 /\ known = {}
    /\ \A p \in known : birth[p].ts <= clock
    /\ \A i \in DOMAIN batch : batch[i].ts <= clock
    /\ \A i \in DOMAIN buffer : buffer[i].ts <= clock

IInv ==
    /\ TypeOK
    /\ Numbered
    /\ WindowsSequential
    /\ Bookkeeping
    /\ AttributedHasLog
    /\ ForkInheritance
    /\ RootCausality

LEMMA InvInit == Init => IInv
<1>. SUFFICES ASSUME Init PROVE IInv
  OBVIOUS
<1>1. TypeOK
  BY TypeInit
<1>2. /\ current.start = 0 /\ current.end = 0 /\ completed = <<>>
      /\ currentId = 0 /\ known = {} /\ batch = <<>> /\ buffer = <<>>
  BY DEF Init, NoAction, NewLog
<1>3. DOMAIN completed = {} /\ DOMAIN batch = {} /\ DOMAIN buffer = {}
  BY <1>2
<1>. QED  BY <1>1, <1>2, <1>3, Zenon
          DEF IInv, Numbered, WindowsSequential, Bookkeeping, AttributedHasLog,
              ForkInheritance, RootCausality

-----------------------------------------------------------------------------
(* Dispatch.                                                               *)

\* Whatever a handler records, and wherever, no log changes but in its events.
LEMMA RecordKeepsLogs ==
    ASSUME TypeOK, NEW e \in Event, Record(e)
    PROVE  /\ current'.id = Current.id
           /\ current'.start = Current.start
           /\ current'.end = Current.end
           /\ Len(completed') = Len(completed)
           /\ DOMAIN completed' = DOMAIN completed
           /\ \A i \in DOMAIN completed :
                 /\ completed'[i].id = completed[i].id
                 /\ completed'[i].start = completed[i].start
                 /\ completed'[i].end = completed[i].end
<1>1. Current \in ActionLog
  BY TimelineType
<1>2. /\ current'.id = Current.id
      /\ current'.start = Current.start
      /\ current'.end = Current.end
  <2>1. \/ current' = Current
        \/ current' = [Current EXCEPT !.events = @ \cup {e}]
        \/ current' = current /\ ~Running /\ UNCHANGED current
    BY DEF Record, RecordInCurrent, RecordInCompleted, RecordNowhere, RecordNothing
  <2>2. CASE current' = current /\ ~Running
    <3>1. live
      BY <2>2, ConstantsAssumption DEF Running, Current, NewLog, TypeOK
    <3>. QED  BY <2>2, <3>1 DEF Current
  <2>. QED  BY <1>1, <2>1, <2>2 DEF ActionLog
<1>3. \/ completed' = completed
      \/ \E k \in DOMAIN completed :
            completed' = [completed EXCEPT ![k].events = @ \cup {e}]
  BY DEF Record, RecordInCurrent, RecordInCompleted, RecordNowhere, RecordNothing
<1>4. ASSUME NEW k \in DOMAIN completed,
             completed' = [completed EXCEPT ![k].events = @ \cup {e}]
      PROVE  /\ Len(completed') = Len(completed)
             /\ DOMAIN completed' = DOMAIN completed
             /\ \A i \in DOMAIN completed :
                   /\ completed'[i].id = completed[i].id
                   /\ completed'[i].start = completed[i].start
                   /\ completed'[i].end = completed[i].end
  <2>. DEFINE r == [completed[k] EXCEPT !.events = @ \cup {e}]
  <2>1. completed[k] \in ActionLog
    BY DEF TypeOK
  <2>2. r.id = completed[k].id /\ r.start = completed[k].start /\ r.end = completed[k].end
    BY <2>1 DEF ActionLog
  <2>3. r \in ActionLog
    BY <2>1 DEF ActionLog
  <2>4. completed' = [completed EXCEPT ![k] = r]
    BY <1>4
  <2>. HIDE DEF r
  <2>5. Len(completed') = Len(completed) /\ DOMAIN completed' = DOMAIN completed
    BY <2>3, <2>4 DEF TypeOK
  <2>. QED  BY <2>2, <2>4, <2>5 DEF TypeOK
<1>. QED  BY <1>2, <1>3, <1>4

\* action_at_time is exact for a time strictly inside a log's window.
LEMMA ActionAtTimeExact ==
    ASSUME TypeOK, WindowsSequential, Bookkeeping, NEW ts \in Nat, ts <= clock
    PROVE  /\ \A i \in DOMAIN completed :
                 Inside(completed[i], ts) => ActionAtTime(ts) = completed[i].id
           /\ Running /\ Inside(Current, ts) => ActionAtTime(ts) = Current.id
<1>1. /\ DOMAIN completed = 1..Len(completed) /\ Len(completed) \in Nat
      /\ clock \in Nat
      /\ \A i \in DOMAIN completed : /\ completed[i] \in ActionLog
                                     /\ completed[i].start \in Nat
                                     /\ completed[i].end \in Nat
  <2>1. \A i \in DOMAIN completed : completed[i] \in ActionLog
    BY DEF TypeOK
  <2>2. \A a \in ActionLog : a.start \in Nat /\ a.end \in Nat
    BY ConstantsAssumption DEF ActionLog
  <2>. QED  BY <2>1, <2>2, ConstantsAssumption DEF TypeOK
<1>2. ASSUME NEW i \in DOMAIN completed, Inside(completed[i], ts)
      PROVE  ActionAtTime(ts) = completed[i].id
  <2>1. ts # 0 /\ Covers(completed[i], ts) /\ ts < completed[i].end
    BY <1>1, <1>2 DEF Inside, Covers, WindowsSequential
  <2>. DEFINE k == LastCovering(ts)
  <2>2. k \in DOMAIN completed /\ Covers(completed[k], ts)
    BY <2>1, LastCoveringCovers
  <2>3. k = i
    <3>1. CASE i < k
      BY <1>1, <2>1, <2>2, <3>1 DEF WindowsSequential, Covers
    <3>2. CASE k < i
      BY <1>1, <1>2, <2>1, <2>2, <3>2 DEF WindowsSequential, Covers, Inside
    <3>. QED  BY <1>1, <2>2, <3>1, <3>2
  <2>. QED  BY <2>1, <2>3 DEF ActionAtTime
<1>3. ASSUME Running, Inside(Current, ts)
      PROVE  ActionAtTime(ts) = Current.id
  <2>1. live /\ Current = current
    BY <1>1, <1>3 DEF Current, Inside, NewLog
  <2>2. current.start \in Nat
    BY ConstantsAssumption DEF TypeOK, ActionLog
  <2>3. ts # 0 /\ ts > current.start
    BY <1>3, <2>1, <2>2 DEF Inside
  <2>4. \A i \in DOMAIN completed : ~Covers(completed[i], ts)
    BY <1>1, <1>3, <2>1, <2>2, <2>3 DEF Covers, WindowsSequential, Running
  <2>. QED  BY <1>3, <2>1, <2>2, <2>3, <2>4 DEF ActionAtTime
<1>. QED  BY <1>2, <1>3

\* The attribution of a new process is 0 or the number of a log there is.
LEMMA AttributionHasLog ==
    ASSUME IInv, NEW e \in Event
    PROVE  \/ AttributionOf(e) = 0
           \/ HasLog(AttributionOf(e))
           \/ Running /\ Current.id = AttributionOf(e)
<1>1. \A i \in DOMAIN Timeline :
         HasLog(Timeline[i].id) \/ (Running /\ Current.id = Timeline[i].id)
  BY TimelineType DEF IInv, TypeOK, HasLog
<1>2. currentId = 0 \/ HasLog(currentId) \/ (Running /\ Current.id = currentId)
  <2>1. CASE live /\ current.start # 0
    BY <2>1 DEF IInv, Numbered, Running, Current
  <2>2. CASE current.start = 0
    BY <2>2 DEF IInv, Numbered, HasLog, TypeOK
  <2>. QED  BY <2>1, <2>2 DEF IInv, Bookkeeping
<1>3. e.ts \in Nat
  BY ConstantsAssumption DEF Event
<1>4. CASE e.ppid \in known
  BY <1>4 DEF AttributionOf, IInv, AttributedHasLog, Bookkeeping, Running, Current
<1>5. CASE e.ppid \notin known
  BY <1>1, <1>2, <1>3, <1>5, ActionAtTimeIsLog DEF AttributionOf, IInv
<1>. QED  BY <1>4, <1>5

LEMMA InvDispatch ==
    ASSUME IInv, Dispatch
    PROVE  IInv'
<1>. DEFINE e == Head(batch)
<1>1. TypeOK /\ TypeOK'
  BY TypeDispatch DEF IInv
<1>2. batch # <<>> /\ e \in Event /\ e.ts <= clock /\ e.ts \in Nat
      /\ e.pid \in Pids /\ e.ppid \in Pids \cup {Outside}
  <2>1. batch # <<>> /\ 1 \in DOMAIN batch /\ e = batch[1] /\ e \in Event
    BY <1>1 DEF TypeOK, Dispatch
  <2>. QED  BY <2>1, ConstantsAssumption DEF IInv, Bookkeeping, Event
<1>3. EnsureProcess(e) /\ Record(e) /\ live' = TRUE
      /\ UNCHANGED <<clock, buffer, sent, currentId>>
  BY DEF Dispatch
<1>. DEFINE LogsKept ==
        /\ current'.id = Current.id
        /\ current'.start = Current.start
        /\ current'.end = Current.end
        /\ Len(completed') = Len(completed)
        /\ DOMAIN completed' = DOMAIN completed
        /\ \A i \in DOMAIN completed :
              /\ completed'[i].id = completed[i].id
              /\ completed'[i].start = completed[i].start
              /\ completed'[i].end = completed[i].end
<1>4. LogsKept
  BY <1>1, <1>2, <1>3, RecordKeepsLogs
<1>5. \/ live /\ Current = current
      \/ /\ ~live /\ completed = <<>> /\ currentId = 0 /\ known = {}
         /\ Current.id = 0 /\ Current.start = clock /\ Current.end = 0
  BY DEF Current, NewLog, IInv, Bookkeeping
<1>6. clock \in Nat /\ clock > 0 /\ completed \in Seq(ActionLog)
      /\ DOMAIN completed = 1..Len(completed) /\ Len(completed) \in Nat
  BY <1>1, ConstantsAssumption DEF TypeOK
<1>7. Numbered'
  <2>1. CASE live
    <3>1. /\ current'.id = current.id /\ current'.start = current.start
      BY <2>1, <1>4, <1>5
    <3>2. completed' = <<>> <=> completed = <<>>
      BY <1>1, <1>4, <1>6 DEF TypeOK
    <3>3. \A i \in DOMAIN completed' :
             completed'[i].id = i \/ (i = 1 /\ completed'[i].id = 0)
      BY <1>4 DEF IInv, Numbered
    <3>4. current'.start # 0 =>
             /\ current'.id = currentId'
             /\ \/ currentId' = Len(completed') + 1
                \/ completed' = <<>> /\ currentId' = 0
      BY <1>3, <1>4, <3>1, <3>2 DEF IInv, Numbered
    <3>5. current'.start = 0 =>
             IF completed' = <<>> THEN currentId' = 0
             ELSE currentId' = completed'[Len(completed')].id
      BY <1>3, <1>4, <1>6, <3>1, <3>2 DEF IInv, Numbered
    <3>. QED  BY <3>3, <3>4, <3>5 DEF Numbered
  <2>2. CASE ~live
    <3>1. Len(completed) = 0 /\ Len(completed') = 0
      BY <2>2, <1>4, <1>5
    <3>2. completed' = <<>> /\ DOMAIN completed' = {}
      BY <1>1, <3>1 DEF TypeOK
    <3>. QED  BY <2>2, <1>3, <1>4, <1>5, <1>6, <3>2 DEF Numbered
  <2>. QED  BY <2>1, <2>2
<1>8. WindowsSequential'
  <2>1. CASE live
    BY <2>1, <1>3, <1>4, <1>5 DEF IInv, WindowsSequential
  <2>2. CASE ~live
    <3>1. DOMAIN completed = {}
      BY <2>2, <1>5
    <3>. QED  BY <2>2, <3>1, <1>3, <1>4, <1>5, <1>6 DEF WindowsSequential
  <2>. QED  BY <2>1, <2>2
<1>9. \/ e.pid \in known /\ UNCHANGED processes
      \/ /\ e.pid \notin known /\ known' = known \cup {e.pid}
         /\ attributed' = [attributed EXCEPT ![e.pid] = AttributionOf(e)]
         /\ birth' = [birth EXCEPT ![e.pid] =
                         [root |-> e.ppid \notin known,
                          ppid |-> e.ppid, ts |-> e.ts]]
  BY <1>3 DEF EnsureProcess
<1>10. /\ known \subseteq known' /\ known' \subseteq known \cup {e.pid}
       /\ \A p \in known : attributed'[p] = attributed[p] /\ birth'[p] = birth[p]
  BY <1>1, <1>2, <1>9 DEF processes, TypeOK
<1>11. ASSUME NEW p \in known' \ known
       PROVE  /\ p = e.pid /\ attributed'[p] = AttributionOf(e)
              /\ birth'[p].root = (e.ppid \notin known)
              /\ birth'[p].ppid = e.ppid /\ birth'[p].ts = e.ts
  BY <1>1, <1>2, <1>9, <1>11 DEF processes, TypeOK
<1>12. Bookkeeping'
  <2>1. current'.end = 0
    BY <1>4, <1>5 DEF IInv, Bookkeeping
  <2>2. \A p \in known' : birth'[p].ts <= clock'
    BY <1>2, <1>3, <1>10, <1>11 DEF IInv, Bookkeeping
  <2>3. \A i \in DOMAIN batch' : batch'[i].ts <= clock'
    <3>1. batch' = Tail(batch)
      BY DEF Dispatch
    <3>2. \A i \in DOMAIN batch' : i + 1 \in DOMAIN batch /\ batch'[i] = batch[i + 1]
      BY <3>1, <1>1, <1>2 DEF TypeOK
    <3>. QED  BY <3>2, <1>3 DEF IInv, Bookkeeping
  <2>. QED  BY <2>1, <2>2, <2>3, <1>3 DEF IInv, Bookkeeping
<1>13. AttributedHasLog'
  <2>1. \A a : HasLog(a) => \E i \in DOMAIN completed' : completed'[i].id = a
    BY <1>4 DEF HasLog
  <2>2. \A a : Running /\ Current.id = a => current'.start # 0 /\ current'.id = a
    BY <1>4 DEF Running
  <2>3. ASSUME NEW p \in known
        PROVE  \/ attributed'[p] = 0
               \/ \E i \in DOMAIN completed' : completed'[i].id = attributed'[p]
               \/ current'.start # 0 /\ current'.id = attributed'[p]
    BY <1>4, <1>5, <1>10, <2>1, <2>3 DEF IInv, AttributedHasLog
  <2>4. ASSUME NEW p \in known' \ known
        PROVE  \/ attributed'[p] = 0
               \/ \E i \in DOMAIN completed' : completed'[i].id = attributed'[p]
               \/ current'.start # 0 /\ current'.id = attributed'[p]
    BY <1>2, <1>11, <2>1, <2>2, AttributionHasLog
  <2>. QED  BY <2>3, <2>4 DEF AttributedHasLog, HasLog
<1>14. ForkInheritance'
  <2>1. ASSUME NEW p \in known, ~birth'[p].root
        PROVE  /\ birth'[p].ppid \in known'
               /\ attributed'[p] = attributed'[birth'[p].ppid]
    BY <2>1, <1>10 DEF IInv, ForkInheritance
  <2>2. ASSUME NEW p \in known' \ known, ~birth'[p].root
        PROVE  /\ birth'[p].ppid \in known'
               /\ attributed'[p] = attributed'[birth'[p].ppid]
    <3>1. e.ppid \in known
      BY <1>11, <2>2
    <3>. QED  BY <3>1, <1>10, <1>11 DEF AttributionOf
  <2>. QED  BY <2>1, <2>2 DEF ForkInheritance
<1>15. RootCausality'
  <2>1. \A i \in DOMAIN completed : \A ts :
           Inside(completed[i], ts) <=> Inside(completed'[i], ts)
    BY <1>4 DEF Inside
  <2>2. \A ts : Inside(Current, ts) <=> Inside(current', ts)
    BY <1>4 DEF Inside
  <2>3. ASSUME NEW p \in known, birth'[p].root
        PROVE  /\ \A i \in DOMAIN completed' :
                     Inside(completed'[i], birth'[p].ts)
                        => attributed'[p] = completed'[i].id
               /\ current'.start # 0 /\ Inside(current', birth'[p].ts)
                     => attributed'[p] = current'.id
    BY <2>1, <2>2, <2>3, <1>4, <1>5, <1>10 DEF IInv, RootCausality
  <2>4. ASSUME NEW p \in known' \ known, birth'[p].root
        PROVE  /\ \A i \in DOMAIN completed' :
                     Inside(completed'[i], birth'[p].ts)
                        => attributed'[p] = completed'[i].id
               /\ current'.start # 0 /\ Inside(current', birth'[p].ts)
                     => attributed'[p] = current'.id
    <3>1. attributed'[p] = ActionAtTime(e.ts) /\ birth'[p].ts = e.ts
      BY <1>11, <2>4 DEF AttributionOf
    <3>2. /\ \A i \in DOMAIN completed :
                 Inside(completed[i], e.ts) => ActionAtTime(e.ts) = completed[i].id
          /\ Running /\ Inside(Current, e.ts) => ActionAtTime(e.ts) = Current.id
      BY <1>2, ActionAtTimeExact DEF IInv
    <3>. QED  BY <3>1, <3>2, <2>1, <2>2, <1>4 DEF Running
  <2>. QED  BY <2>3, <2>4 DEF RootCausality
<1>. QED  BY <1>1, <1>7, <1>8, <1>12, <1>13, <1>14, <1>15 DEF IInv

-----------------------------------------------------------------------------
(* The other steps.                                                        *)

\* What a step that leaves the logs and the process table alone preserves.
LEMMA InvUnchanged ==
    ASSUME IInv, UNCHANGED <<actions, processes>>, TypeOK', clock <= clock',
           \A i \in DOMAIN batch' : batch'[i].ts <= clock',
           \A i \in DOMAIN buffer' : buffer'[i].ts <= clock'
    PROVE  IInv'
<1>1. UNCHANGED <<live, current, currentId, completed, known, attributed, birth>>
  BY DEF actions, processes
<1>2. clock \in Nat /\ clock' \in Nat
  BY ConstantsAssumption DEF IInv, TypeOK
<1>3. \A i \in DOMAIN completed : completed[i].end \in Nat
  <2>1. \A i \in DOMAIN completed : completed[i] \in ActionLog
    BY DEF IInv, TypeOK
  <2>2. \A a \in ActionLog : a.end \in Nat
    BY ConstantsAssumption DEF ActionLog
  <2>. QED  BY <2>1, <2>2
<1>4. current.start \in Nat /\ \A p \in known : birth[p].ts \in Nat
  BY ConstantsAssumption DEF IInv, TypeOK, ActionLog
<1>5. Numbered' /\ AttributedHasLog' /\ ForkInheritance' /\ RootCausality'
  BY <1>1 DEF IInv, Numbered, AttributedHasLog, HasLog, ForkInheritance,
              RootCausality, Inside
<1>6. WindowsSequential'
  BY <1>1, <1>2, <1>3, <1>4 DEF IInv, WindowsSequential
<1>7. Bookkeeping'
  BY <1>1, <1>2, <1>4 DEF IInv, Bookkeeping
<1>. QED  BY <1>5, <1>6, <1>7 DEF IInv

LEMMA InvPush ==
    ASSUME IInv, Push, TypeOK'
    PROVE  IInv'
<1>1. PICK pid \in Pids, ppid \in Pids \cup {Outside}, ts \in 0..clock :
         buffer' = Append(buffer, [n |-> sent + 1, pid |-> pid,
                                   ppid |-> ppid, ts |-> ts])
  BY DEF Push
<1>2. \A i \in DOMAIN buffer' : buffer'[i].ts <= clock
  <2>1. buffer \in Seq(Event) /\ clock \in Nat
    BY ConstantsAssumption DEF IInv, TypeOK
  <2>2. \A i \in DOMAIN buffer' : \/ i \in DOMAIN buffer /\ buffer'[i] = buffer[i]
                                  \/ buffer'[i].ts = ts
    BY <1>1, <2>1
  <2>. QED  BY <2>1, <2>2 DEF IInv, Bookkeeping
<1>3. UNCHANGED <<actions, processes, clock, batch>>
  BY DEF Push
<1>4. clock <= clock'
  BY <1>3, ConstantsAssumption DEF IInv, TypeOK
<1>. QED  BY <1>2, <1>3, <1>4, InvUnchanged DEF IInv, Bookkeeping

LEMMA InvTick ==
    ASSUME IInv, Tick, TypeOK'
    PROVE  IInv'
<1>1. clock \in Nat /\ clock' = clock + 1
      /\ UNCHANGED <<batch, buffer, actions, processes>>
  BY ConstantsAssumption DEF Tick, IInv, TypeOK, pipeline
<1>2. \A e \in Event : e.ts \in Nat
  BY ConstantsAssumption DEF Event
<1>3. /\ \A i \in DOMAIN batch : batch[i] \in Event
      /\ \A i \in DOMAIN buffer : buffer[i] \in Event
  BY DEF IInv, TypeOK
<1>4. /\ \A i \in DOMAIN batch' : batch'[i].ts <= clock'
      /\ \A i \in DOMAIN buffer' : buffer'[i].ts <= clock'
  BY <1>1, <1>2, <1>3 DEF IInv, Bookkeeping
<1>. QED  BY <1>1, <1>4, InvUnchanged

LEMMA InvActionStart ==
    ASSUME IInv, ActionStart, TypeOK'
    PROVE  IInv'
<1>1. /\ live' = TRUE /\ currentId' = Len(completed) + 1
      /\ current'.id = Len(completed) + 1 /\ current'.start = clock
      /\ current'.end = 0
      /\ UNCHANGED <<clock, buffer, batch, completed, known, attributed, birth>>
  BY DEF ActionStart, NewLog, pipeline, processes
<1>2. clock \in Nat /\ clock > 0 /\ Len(completed) \in Nat
  BY ConstantsAssumption DEF IInv, TypeOK
<1>3. Numbered'
  BY <1>1, <1>2 DEF IInv, Numbered
<1>4. WindowsSequential'
  BY <1>1, <1>2 DEF IInv, WindowsSequential
<1>5. Bookkeeping'
  BY <1>1 DEF IInv, Bookkeeping
<1>6. AttributedHasLog'
  <2>1. current.start # 0 => current.id = 0 \/ current.id = Len(completed) + 1
    BY DEF IInv, Numbered
  <2>. QED  BY <1>1, <1>2, <2>1 DEF IInv, AttributedHasLog, HasLog
<1>7. ForkInheritance'
  BY <1>1 DEF IInv, ForkInheritance
<1>8. RootCausality'
  <2>1. \A p \in known : birth[p].ts \in Nat
    BY ConstantsAssumption DEF IInv, TypeOK
  <2>2. \A p \in known : ~Inside(current', birth[p].ts)
    BY <1>1, <1>2, <2>1 DEF Inside, IInv, Bookkeeping
  <2>. QED  BY <1>1, <2>2 DEF IInv, RootCausality, Inside
<1>. QED  BY <1>3, <1>4, <1>5, <1>6, <1>7, <1>8 DEF IInv

LEMMA InvActionEnd ==
    ASSUME IInv, ActionEnd, TypeOK'
    PROVE  IInv'
<1>. DEFINE log == [current EXCEPT !.end = clock]
<1>. DEFINE n == Len(completed)
<1>1. /\ current \in ActionLog /\ completed \in Seq(ActionLog) /\ n \in Nat
      /\ clock \in Nat /\ clock > 0 /\ clock \in 0..MaxTime
      /\ current.start # 0 /\ live
  BY ConstantsAssumption DEF IInv, TypeOK, ActionEnd, Running, Current
<1>2. /\ log \in ActionLog
      /\ log.id = current.id /\ log.start = current.start /\ log.end = clock
  <2>1. current \in ActionLog /\ clock \in 0..MaxTime
    BY <1>1
  <2>. QED  BY <2>1 DEF ActionLog
<1>3. /\ completed' = Append(completed, log)
      /\ current'.start = 0 /\ current'.end = 0
      /\ UNCHANGED <<clock, buffer, batch, live, currentId, known, attributed, birth>>
  BY DEF ActionEnd, NoAction, NewLog, pipeline, processes
<1>. HIDE DEF log
<1>4. /\ DOMAIN completed = 1..n /\ DOMAIN completed' = 1..(n + 1)
      /\ Len(completed') = n + 1
      /\ \A i \in 1..n : completed'[i] = completed[i]
      /\ completed'[n + 1] = log
      /\ completed' # <<>>
  BY <1>1, <1>2, <1>3
<1>5. \A i \in DOMAIN completed' :
         \/ i \in DOMAIN completed /\ completed'[i] = completed[i]
         \/ i = n + 1 /\ completed'[i] = log
  BY <1>1, <1>4
<1>6. Numbered'
  <2>1. log.id = n + 1 \/ (n = 0 /\ log.id = 0)
    BY <1>1, <1>2 DEF IInv, Numbered
  <2>2. log.id = currentId
    BY <1>1, <1>2 DEF IInv, Numbered
  <2>. QED  BY <1>1, <1>3, <1>4, <1>5, <2>1, <2>2 DEF IInv, Numbered
<1>7. WindowsSequential'
  <2>1. current.start \in Nat /\ current.start > 0 /\ current.start <= clock
        /\ \A i \in DOMAIN completed : completed[i].end <= current.start
    BY <1>1, ConstantsAssumption DEF IInv, WindowsSequential, ActionLog
  <2>2. \A i \in DOMAIN completed' :
           /\ 0 < completed'[i].start /\ completed'[i].start <= completed'[i].end
           /\ completed'[i].end <= clock
    BY <1>1, <1>2, <1>5, <2>1 DEF IInv, WindowsSequential
  <2>3. \A i, j \in DOMAIN completed' :
           i < j => completed'[i].end <= completed'[j].start
    BY <1>1, <1>2, <1>4, <2>1 DEF IInv, WindowsSequential
  <2>. QED  BY <1>3, <2>2, <2>3 DEF WindowsSequential
<1>8. Bookkeeping'
  BY <1>1, <1>3 DEF IInv, Bookkeeping
<1>9. AttributedHasLog'
  BY <1>1, <1>2, <1>3, <1>4, <1>5 DEF IInv, AttributedHasLog, HasLog
<1>10. ForkInheritance'
  BY <1>3 DEF IInv, ForkInheritance
<1>11. RootCausality'
  <2>1. \A p \in known : birth[p].ts \in Nat /\ clock \in Nat
    BY <1>1, ConstantsAssumption DEF IInv, TypeOK
  <2>2. \A p \in known : Inside(log, birth[p].ts) => Inside(current, birth[p].ts)
    BY <1>1, <1>2, <2>1 DEF Inside, IInv, Bookkeeping
  <2>. QED  BY <1>1, <1>2, <1>3, <1>5, <2>2 DEF IInv, RootCausality
<1>. QED  BY <1>6, <1>7, <1>8, <1>9, <1>10, <1>11 DEF IInv

LEMMA InvDelete ==
    ASSUME IInv, DeleteContainer, TypeOK'
    PROVE  IInv'
<1>1. /\ current'.start = 0 /\ current'.end = 0 /\ completed' = <<>>
      /\ currentId' = 0 /\ known' = {} /\ UNCHANGED <<clock, batch, buffer>>
  BY DEF DeleteContainer, NoAction, NewLog, pipeline
<1>2. DOMAIN completed' = {}
  BY <1>1
<1>3. Numbered'
  BY <1>1, <1>2, Zenon DEF Numbered
<1>4. WindowsSequential' /\ AttributedHasLog' /\ ForkInheritance' /\ RootCausality'
  BY <1>1, <1>2, Zenon
     DEF WindowsSequential, AttributedHasLog, ForkInheritance, RootCausality
<1>5. Bookkeeping'
  BY <1>1 DEF IInv, Bookkeeping
<1>. QED  BY <1>3, <1>4, <1>5 DEF IInv

LEMMA InvNext == IInv /\ [Next]_vars => IInv'
<1>. SUFFICES ASSUME IInv, [Next]_vars PROVE IInv'
  OBVIOUS
<1>1. TypeOK'
  BY TypeNext DEF IInv
<1>2. clock \in Nat
  BY ConstantsAssumption DEF IInv, TypeOK
<1>3. CASE Push
  BY <1>1, <1>3, InvPush
<1>4. CASE TakeBatch
  <2>1. UNCHANGED <<actions, processes, clock>> /\ batch' = buffer
        /\ DOMAIN buffer' = {}
    BY <1>4 DEF TakeBatch
  <2>. QED  BY <1>1, <1>2, <2>1, InvUnchanged DEF IInv, Bookkeeping
<1>5. CASE LockChunk
  <2>1. UNCHANGED <<actions, processes, clock, batch, buffer>>
    BY <1>5 DEF LockChunk
  <2>. QED  BY <1>1, <1>2, <2>1, InvUnchanged DEF IInv, Bookkeeping
<1>6. CASE Dispatch
  BY <1>6, InvDispatch
<1>7. CASE ActionStart
  BY <1>1, <1>7, InvActionStart
<1>8. CASE ActionEnd
  BY <1>1, <1>8, InvActionEnd
<1>9. CASE DeleteContainer
  BY <1>1, <1>9, InvDelete
<1>10. CASE Tick
  BY <1>1, <1>10, InvTick
<1>11. CASE UNCHANGED vars
  <2>1. UNCHANGED <<actions, processes, clock, batch, buffer>>
    BY <1>11 DEF vars, pipeline
  <2>. QED  BY <1>1, <1>2, <2>1, InvUnchanged DEF IInv, Bookkeeping
<1>. QED  BY <1>3, <1>4, <1>5, <1>6, <1>7, <1>8, <1>9, <1>10, <1>11 DEF Next

THEOREM InductiveInvariant == Spec => []IInv
<1>. QED  BY InvInit, InvNext, PTL DEF Spec

-----------------------------------------------------------------------------
(* Where events are recorded.                                              *)

RecordInv == IInv /\ OnlyLifecycleStrays /\ OnlyLifecycleDropped

\* OwnOrLifecycle of a log in the next state.
OwnNext(log) ==
    \A f \in log.events :
       /\ f.pid \in known'
       /\ \/ attributed'[f.pid] = log.id
          \/ attributed'[f.pid] = 0 /\ ~HasLog(0)'

LEMMA RecordInvDispatch ==
    ASSUME RecordInv, Dispatch
    PROVE  OnlyLifecycleStrays' /\ OnlyLifecycleDropped'
<1>. DEFINE e == Head(batch)
<1>. DEFINE a == attributed'[e.pid]
<1>1. IInv /\ IInv' /\ TypeOK
  BY InvDispatch DEF RecordInv, IInv
<1>2. e \in Event /\ e.pid \in Pids
  <2>1. batch # <<>> /\ e \in Event
    BY <1>1 DEF TypeOK, Dispatch
  <2>. QED  BY <2>1 DEF Event
<1>3. EnsureProcess(e) /\ Record(e)
  BY DEF Dispatch
<1>4. /\ e.pid \in known' /\ known \subseteq known'
      /\ \A p \in known : attributed'[p] = attributed[p]
  BY <1>1, <1>2, <1>3 DEF EnsureProcess, processes, TypeOK
<1>5. /\ current'.id = Current.id /\ current'.start = Current.start
      /\ DOMAIN completed' = DOMAIN completed
      /\ \A i \in DOMAIN completed : completed'[i].id = completed[i].id
  BY <1>1, <1>2, <1>3, RecordKeepsLogs
<1>6. \A n : (\E i \in DOMAIN completed' : completed'[i].id = n) <=> HasLog(n)
  BY <1>5 DEF HasLog
<1>7. a = 0 \/ HasLog(a) \/ (Running /\ Current.id = a)
  BY <1>1, <1>4, <1>5, <1>6 DEF IInv, AttributedHasLog, HasLog, Running
<1>8. HasLog(0)' => HasLog(0)
  BY <1>6 DEF HasLog
<1>9. OwnOrLifecycle(Current)
  BY DEF RecordInv, OnlyLifecycleStrays, Current, NewLog, OwnOrLifecycle
<1>10. Current \in ActionLog
  BY <1>1, TimelineType
<1>11. ASSUME NEW old \in ActionLog, OwnOrLifecycle(old),
              a = old.id \/ (a = 0 /\ ~HasLog(0))
       PROVE  OwnNext([old EXCEPT !.events = @ \cup {e}])
  <2>. DEFINE new == [old EXCEPT !.events = @ \cup {e}]
  <2>1. new.id = old.id /\ new.events = old.events \cup {e}
    BY DEF ActionLog
  <2>2. ASSUME NEW f \in old.events
        PROVE  /\ f.pid \in known'
               /\ \/ attributed'[f.pid] = old.id
                  \/ attributed'[f.pid] = 0 /\ ~HasLog(0)'
    BY <1>4, <1>8, <1>11 DEF OwnOrLifecycle
  <2>3. /\ e.pid \in known'
        /\ \/ attributed'[e.pid] = old.id
           \/ attributed'[e.pid] = 0 /\ ~HasLog(0)'
    BY <1>4, <1>8, <1>11
  <2>. QED  BY <2>1, <2>2, <2>3 DEF OwnNext
<1>12. ASSUME NEW old, OwnOrLifecycle(old)
       PROVE  OwnNext(old)
  BY <1>4, <1>8, <1>12 DEF OwnOrLifecycle, OwnNext
<1>13. \A i \in DOMAIN completed : OwnOrLifecycle(completed[i])
                                   /\ completed[i] \in ActionLog
  BY <1>1 DEF RecordInv, OnlyLifecycleStrays, TypeOK
<1>14. OwnNext(current') /\ \A i \in DOMAIN completed' : OwnNext(completed'[i])
  <2>1. CASE RecordInCurrent(e)
    <3>1. a = Current.id \/ (a = 0 /\ ~HasLog(0))
      BY <1>7, <2>1 DEF RecordInCurrent
    <3>2. OwnNext(current')
      BY <1>9, <1>10, <1>11, <2>1, <3>1 DEF RecordInCurrent
    <3>. QED  BY <1>12, <1>13, <2>1, <3>2 DEF RecordInCurrent
  <2>2. CASE RecordInCompleted(e)
    <3>1. PICK k \in DOMAIN completed :
             /\ completed[k].id = a
             /\ completed' = [completed EXCEPT ![k].events = @ \cup {e}]
      BY <2>2 DEF RecordInCompleted
    <3>2. OwnNext([completed[k] EXCEPT !.events = @ \cup {e}])
      BY <1>11, <1>13, <3>1
    <3>3. \A i \in DOMAIN completed' :
             \/ completed'[i] = [completed[k] EXCEPT !.events = @ \cup {e}]
             \/ completed'[i] = completed[i]
      BY <1>1, <1>5, <3>1 DEF TypeOK
    <3>4. \A i \in DOMAIN completed' : OwnNext(completed'[i])
      BY <1>5, <1>12, <1>13, <3>2, <3>3
    <3>. QED  BY <1>9, <1>12, <2>2, <3>4 DEF RecordInCompleted
  <2>3. CASE RecordNowhere(e)
    <3>1. OwnNext(current') /\ completed' = completed
      BY <1>12, <2>3 DEF RecordNowhere, RecordInv, OnlyLifecycleStrays
    <3>. QED  BY <1>12, <1>13, <3>1
  <2>4. CASE RecordNothing
    BY <1>9, <1>12, <1>13, <2>4 DEF RecordNothing
  <2>. QED  BY <1>3, <2>1, <2>2, <2>3, <2>4 DEF Record
<1>15. OnlyLifecycleStrays'
  BY <1>14 DEF OnlyLifecycleStrays, OwnOrLifecycle, OwnNext
<1>16. OnlyLifecycleDropped'
  <2>1. \/ dropped' = dropped
        \/ dropped' = dropped \cup {e} /\ ~Running /\ ~HasLog(a)
    BY <1>3 DEF Record, RecordInCurrent, RecordInCompleted, RecordNowhere, RecordNothing
  <2>. QED  BY <1>4, <1>7, <2>1 DEF RecordInv, OnlyLifecycleDropped
<1>. QED  BY <1>15, <1>16

LEMMA RecordInvInit == Init => OnlyLifecycleStrays /\ OnlyLifecycleDropped
<1>. SUFFICES ASSUME Init PROVE OnlyLifecycleStrays /\ OnlyLifecycleDropped
  OBVIOUS
<1>1. current.events = {} /\ completed = <<>> /\ dropped = {}
  BY DEF Init, NoAction, NewLog
<1>2. DOMAIN completed = {}
  BY <1>1
<1>. QED  BY <1>1, <1>2 DEF OnlyLifecycleStrays, OnlyLifecycleDropped, OwnOrLifecycle

LEMMA RecordInvNext ==
    RecordInv /\ [Next]_vars => OnlyLifecycleStrays' /\ OnlyLifecycleDropped'
<1>. SUFFICES ASSUME RecordInv, [Next]_vars
              PROVE  OnlyLifecycleStrays' /\ OnlyLifecycleDropped'
  OBVIOUS
<1>1. CASE UNCHANGED <<actions, processes, dropped>>
  BY <1>1 DEF actions, processes, RecordInv, OnlyLifecycleStrays,
              OnlyLifecycleDropped, OwnOrLifecycle, HasLog
<1>2. CASE Dispatch
  BY <1>2, RecordInvDispatch
<1>3. CASE ActionStart
  <2>1. current'.events = {} /\ UNCHANGED <<completed, known, attributed, dropped>>
    BY <1>3 DEF ActionStart, NewLog, processes
  <2>. QED  BY <2>1 DEF RecordInv, OnlyLifecycleStrays, OnlyLifecycleDropped,
                        OwnOrLifecycle, HasLog
<1>4. CASE ActionEnd
  <2>. DEFINE log == [current EXCEPT !.end = clock]
  <2>1. /\ current \in ActionLog /\ clock \in 0..MaxTime
        /\ completed \in Seq(ActionLog) /\ current.start # 0
    BY <1>4, ConstantsAssumption DEF RecordInv, IInv, TypeOK, ActionEnd, Running, Current
  <2>2. log \in ActionLog /\ log.id = current.id /\ log.events = current.events
    BY <2>1 DEF ActionLog
  <2>3. /\ completed' = Append(completed, log) /\ current'.events = {}
        /\ UNCHANGED <<known, attributed, dropped>>
    BY <1>4 DEF ActionEnd, NoAction, NewLog, processes
  <2>. HIDE DEF log
  <2>4. \A i \in DOMAIN completed' :
           \/ i \in DOMAIN completed /\ completed'[i] = completed[i]
           \/ completed'[i] = log
    BY <2>1, <2>2, <2>3
  <2>5. HasLog(0)' => HasLog(0) \/ (log.id = 0 /\ DOMAIN completed = {})
    <3>1. HasLog(0)' => HasLog(0) \/ log.id = 0
      BY <2>4 DEF HasLog
    <3>2. log.id = 0 => completed = <<>>
      BY <2>1, <2>2 DEF RecordInv, IInv, Numbered
    <3>. QED  BY <3>1, <3>2
  <2>6. OwnNext(log)
    BY <2>2, <2>3, <2>5 DEF RecordInv, OnlyLifecycleStrays, OwnOrLifecycle, OwnNext
  <2>7. \A i \in DOMAIN completed : OwnNext(completed[i])
    BY <2>3, <2>5 DEF RecordInv, OnlyLifecycleStrays, OwnOrLifecycle, OwnNext
  <2>8. OnlyLifecycleStrays'
    BY <2>3, <2>4, <2>6, <2>7 DEF OnlyLifecycleStrays, OwnOrLifecycle, OwnNext
  <2>. QED  BY <2>3, <2>8 DEF RecordInv, OnlyLifecycleDropped
<1>5. CASE DeleteContainer
  <2>1. current'.events = {} /\ completed' = <<>> /\ dropped' = {}
    BY <1>5 DEF DeleteContainer, NoAction, NewLog
  <2>2. DOMAIN completed' = {}
    BY <2>1
  <2>. QED  BY <2>1, <2>2 DEF OnlyLifecycleStrays, OnlyLifecycleDropped, OwnOrLifecycle
<1>. QED  BY <1>1, <1>2, <1>3, <1>4, <1>5
          DEF Next, vars, Push, TakeBatch, LockChunk, Tick

-----------------------------------------------------------------------------
(* The numbers of actions and of processes, seen as ActionLifecycle.       *)

\* A container that is not there is as good as one in its lifecycle action.
LEMMA RunningOrAbsent ==
    ASSUME TypeOK
    PROVE  Running <=> ~live \/ current.start # 0
BY ConstantsAssumption DEF Running, Current, NewLog, TypeOK

LEMMA RunningOrAbsentNext ==
    ASSUME TypeOK'
    PROVE  Running' <=> ~live' \/ current'.start # 0
BY ConstantsAssumption DEF Running, Current, NewLog, TypeOK

\* What a process that is new is given is the number of another process, of a
\* log that is kept, or of the newest action.
LEMMA AttributionIsKept ==
    ASSUME IInv, NEW e \in Event
    PROVE  AttributionOf(e) \in Lifecycle!Numbers
<1>1. e.ts \in Nat
  BY ConstantsAssumption DEF Event
<1>2. CASE e.ppid \in known
  <2>1. [p \in known |-> attributed[p]][e.ppid] = AttributionOf(e)
    BY <1>2 DEF AttributionOf
  <2>. QED  BY <1>2, <2>1 DEF Lifecycle!Numbers
<1>3. CASE e.ppid \notin known /\ ActionAtTime(e.ts) = currentId
  BY <1>3 DEF AttributionOf, Lifecycle!Numbers
<1>4. CASE e.ppid \notin known /\ \E i \in DOMAIN Timeline : ActionAtTime(e.ts) = Timeline[i].id
  <2>1. PICK i \in DOMAIN Timeline : AttributionOf(e) = Timeline[i].id
    BY <1>4 DEF AttributionOf
  <2>2. \/ \E j \in DOMAIN completed : completed[j].id = Timeline[i].id
        \/ Running /\ Timeline[i].id = Current.id
    BY TimelineType DEF IInv, TypeOK
  <2>3. Running => Current.id = currentId
    <3>1. CASE live
      BY <3>1 DEF Running, Current, IInv, Numbered
    <3>2. CASE ~live
      BY <3>2 DEF Current, NewLog, IInv, Bookkeeping
    <3>. QED  BY <3>1, <3>2
  <2>. QED  BY <2>1, <2>2, <2>3 DEF Lifecycle!Numbers
<1>. QED  BY <1>1, <1>2, <1>3, <1>4, ActionAtTimeIsLog DEF IInv

LEMMA LifecycleDispatch ==
    ASSUME IInv, IInv', Dispatch
    PROVE  Lifecycle!Next \/ UNCHANGED Lifecycle!vars
<1>. DEFINE e == Head(batch)
<1>1. e \in Event /\ e.pid \in Pids
  <2>1. batch \in Seq(Event) /\ batch # << >>
    BY DEF IInv, TypeOK, Dispatch
  <2>2. e \in Event
    BY <2>1
  <2>. QED  BY <2>2 DEF Event
<1>2. Record(e) /\ EnsureProcess(e) /\ live' /\ currentId' = currentId
  BY DEF Dispatch
<1>. HIDE DEF e
<1>3. Running' = Running
  <2>1. current'.start = Current.start
    BY <1>1, <1>2, RecordKeepsLogs DEF IInv
  <2>2. Running' <=> current'.start # 0
    BY <1>2 DEF Running, Current
  <2>. QED  BY <2>1, <2>2 DEF Running
<1>4. {completed[i].id : i \in DOMAIN completed}' = {completed[i].id : i \in DOMAIN completed}
  <2>1. /\ DOMAIN completed' = DOMAIN completed
        /\ \A i \in DOMAIN completed : completed'[i].id = completed[i].id
    BY <1>1, <1>2, RecordKeepsLogs DEF IInv
  <2>. QED  BY <2>1
<1>5. CASE e.pid \in known
  <2>1. known' = known /\ attributed' = attributed
    BY <1>2, <1>5 DEF EnsureProcess, processes
  <2>. QED  BY <1>2, <1>3, <1>4, <2>1 DEF Lifecycle!vars
<1>6. CASE e.pid \notin known
  <2>. DEFINE a == AttributionOf(e)
  <2>1. known' = known \cup {e.pid} /\ attributed' = [attributed EXCEPT ![e.pid] = a]
    BY <1>2, <1>6 DEF EnsureProcess
  <2>2. a \in Lifecycle!Numbers
    BY <1>1, AttributionIsKept
  <2>. HIDE DEF a
  <2>3. attributed \in [Pids -> Nat] /\ known \subseteq Pids
    BY DEF IInv, TypeOK
  <2>4. [r \in known' |-> attributed'[r]]
           = [q \in known \cup {e.pid} |-> IF q = e.pid THEN a ELSE [r \in known |-> attributed[r]][q]]
    BY <1>1, <2>1, <2>3
  <2>5. PICK p \in Pids : p = e.pid
    BY <1>1
  <2>6. Lifecycle!Appear(p)
    BY <1>2, <1>3, <1>4, <1>6, <2>2, <2>4, <2>5 DEF Lifecycle!Appear
  <2>. QED  BY <2>6 DEF Lifecycle!Next
<1>. QED  BY <1>5, <1>6

LEMMA LifecycleStart ==
    ASSUME IInv, IInv', ActionStart
    PROVE  Lifecycle!Start
<1>1. /\ live' /\ currentId' = Len(completed) + 1 /\ current' = NewLog(Len(completed) + 1, clock)
      /\ completed' = completed /\ known' = known /\ attributed' = attributed
  BY DEF ActionStart, processes
<1>2. Running'
  <2>1. current'.start = clock /\ clock # 0
    BY <1>1, ConstantsAssumption DEF NewLog, IInv, TypeOK
  <2>. QED  BY <1>1, <2>1 DEF Running, Current
<1>3. Len(completed) \in Nat /\ DOMAIN completed = 1..Len(completed)
  BY DEF IInv, TypeOK
<1>4. \A i \in DOMAIN completed : completed[i].id < currentId'
  BY <1>1, <1>3 DEF IInv, Numbered
<1>5. currentId' \in Nat \ {0}
  BY <1>1, <1>3
<1>. QED  BY <1>1, <1>2, <1>4, <1>5 DEF Lifecycle!Start

LEMMA LifecycleEnd ==
    ASSUME IInv, IInv', ActionEnd
    PROVE  Lifecycle!End
<1>1. /\ live /\ live' /\ Running /\ current' = NoAction
      /\ completed' = Append(completed, [current EXCEPT !.end = clock])
      /\ currentId' = currentId /\ known' = known /\ attributed' = attributed
  BY DEF ActionEnd, processes
<1>2. ~Running'
  BY <1>1 DEF Running, Current, NoAction, NewLog
<1>3. current.id = currentId
  BY <1>1 DEF Running, Current, IInv, Numbered
<1>. DEFINE log == [current EXCEPT !.end = clock]
<1>4. log.id = currentId
  BY <1>3 DEF IInv, TypeOK, ActionLog
<1>5. completed' = Append(completed, log) /\ completed \in Seq(ActionLog) /\ log \in ActionLog
  <2>1. current \in ActionLog /\ clock \in 0..MaxTime
    BY ConstantsAssumption DEF IInv, TypeOK
  <2>. QED  BY <1>1, <2>1 DEF IInv, TypeOK, ActionLog
<1>. HIDE DEF log
<1>6. {completed[i].id : i \in DOMAIN completed}'
         = {completed[i].id : i \in DOMAIN completed} \cup {currentId}
  <2>1. /\ DOMAIN completed' = DOMAIN completed \cup {Len(completed) + 1}
        /\ completed'[Len(completed) + 1] = log
        /\ \A i \in DOMAIN completed : completed'[i] = completed[i]
    BY <1>5
  <2>. QED  BY <1>4, <2>1
<1>7. Running' = FALSE
  BY <1>2 DEF Running
<1>. QED  BY <1>1, <1>6, <1>7 DEF Lifecycle!End

LEMMA LifecycleNext ==
    ASSUME IInv, IInv', [Next]_vars
    PROVE  Lifecycle!Next \/ UNCHANGED Lifecycle!vars
<1>1. CASE Push \/ TakeBatch \/ LockChunk \/ Tick \/ UNCHANGED vars
  <2>1. /\ live' = live /\ current' = current /\ currentId' = currentId
        /\ completed' = completed /\ known' = known /\ attributed' = attributed
    BY <1>1 DEF Push, TakeBatch, LockChunk, Tick, vars, actions, processes
  <2>2. Running' = Running
    BY <2>1, RunningOrAbsent, RunningOrAbsentNext DEF IInv, Running
  <2>. QED  BY <2>1, <2>2 DEF Lifecycle!vars
<1>2. CASE Dispatch
  BY <1>2, LifecycleDispatch
<1>3. CASE ActionStart
  BY <1>3, LifecycleStart DEF Lifecycle!Next
<1>4. CASE ActionEnd
  BY <1>4, LifecycleEnd DEF Lifecycle!Next
<1>5. CASE DeleteContainer
  <2>1. /\ ~live' /\ currentId' = 0 /\ completed' = << >> /\ known' = {}
    BY <1>5 DEF DeleteContainer
  <2>2. Running' = TRUE
    BY <2>1, RunningOrAbsentNext DEF IInv, Running
  <2>3. {completed[i].id : i \in DOMAIN completed}' = {} /\ [p \in known |-> attributed[p]]' = << >>
    BY <2>1
  <2>. QED  BY <2>1, <2>2, <2>3 DEF Lifecycle!Next, Lifecycle!Reset
<1>. QED  BY <1>1, <1>2, <1>3, <1>4, <1>5 DEF Next

-----------------------------------------------------------------------------
(* Completed logs.                                                         *)

\* The i-th completed log in the next state is an extension of this one's.
Grows(i) ==
    /\ i \in DOMAIN completed'
    /\ completed'[i].id = completed[i].id
    /\ completed'[i].start = completed[i].start
    /\ completed'[i].end = completed[i].end
    /\ completed[i].events \subseteq completed'[i].events

LEMMA GrowsNext ==
    ASSUME TypeOK, [Next]_vars, live'
    PROVE  \A i \in DOMAIN completed : Grows(i)
<1>1. CASE UNCHANGED completed
  BY <1>1 DEF Grows
<1>2. CASE Dispatch
  <2>. DEFINE e == Head(batch)
  <2>1. e \in Event /\ Record(e)
    BY <1>2 DEF TypeOK, Dispatch
  <2>2. \/ completed' = completed
        \/ \E k \in DOMAIN completed :
              completed' = [completed EXCEPT ![k].events = @ \cup {e}]
    BY <2>1 DEF Record, RecordInCurrent, RecordInCompleted, RecordNowhere,
                RecordNothing
  <2>. HIDE DEF e
  <2>3. \A i \in DOMAIN completed : completed[i] \in ActionLog
    BY DEF TypeOK
  <2>4. \A i \in DOMAIN completed :
           i \in DOMAIN completed' /\ completed[i].events \subseteq completed'[i].events
    <3>1. CASE completed' = completed
      BY <3>1
    <3>2. ASSUME NEW k \in DOMAIN completed,
                 completed' = [completed EXCEPT ![k].events = @ \cup {e}],
                 NEW i \in DOMAIN completed
          PROVE  i \in DOMAIN completed'
                 /\ completed[i].events \subseteq completed'[i].events
      <4>1. [completed[k] EXCEPT !.events = @ \cup {e}].events
               = completed[k].events \cup {e}
        BY <2>3 DEF ActionLog
      <4>2. completed' = [completed EXCEPT
                            ![k] = [completed[k] EXCEPT !.events = @ \cup {e}]]
        BY <3>2
      <4>3. i \in DOMAIN completed' /\
            completed'[i] = IF i = k
                            THEN [completed[k] EXCEPT !.events = @ \cup {e}]
                            ELSE completed[i]
        BY <4>2 DEF TypeOK
      <4>. QED  BY <4>1, <4>3
    <3>. QED  BY <2>2, <3>1, <3>2
  <2>. QED  BY <2>1, <2>4, RecordKeepsLogs DEF Grows
<1>3. CASE ActionEnd
  <2>1. /\ current \in ActionLog /\ clock \in 0..MaxTime
        /\ completed \in Seq(ActionLog)
    BY ConstantsAssumption DEF TypeOK
  <2>2. [current EXCEPT !.end = clock] \in ActionLog
    BY <2>1 DEF ActionLog
  <2>3. \A i \in DOMAIN completed : i \in DOMAIN completed' /\ completed'[i] = completed[i]
    BY <1>3, <2>1, <2>2 DEF ActionEnd
  <2>. QED  BY <2>3 DEF Grows
<1>4. CASE DeleteContainer
  BY <1>4 DEF DeleteContainer
<1>. QED  BY <1>1, <1>2, <1>3, <1>4
          DEF Next, vars, actions, Push, TakeBatch, LockChunk, ActionStart, Tick

-----------------------------------------------------------------------------
(* Each event once.  The serials of what is logged lie below those of what *)
(* is queued, and those below the next serial.                             *)

Waiting == batch \o buffer

Stamped ==
    /\ \A i \in DOMAIN Waiting : Waiting[i].n <= sent
    /\ \A log \in Logged : \A e \in log : e.n <= sent

OnceInv == TypeOK /\ RecordedOnce /\ Stamped

LEMMA LoggedTypes ==
    ASSUME TypeOK
    PROVE  /\ \A log \in Logged : log \subseteq Event
           /\ Waiting \in Seq(Event)
           /\ \A i \in DOMAIN Waiting : Waiting[i] \in Event /\ Waiting[i].n \in Nat
           /\ \A e \in Event : e.n \in Nat
<1>1. current.events \subseteq Event
  BY DEF TypeOK, ActionLog
<1>2. \A i \in DOMAIN completed : completed[i].events \subseteq Event
  <2>1. \A i \in DOMAIN completed : completed[i] \in ActionLog
    BY DEF TypeOK
  <2>. QED  BY <2>1 DEF ActionLog
<1>3. Waiting \in Seq(Event)
  BY DEF TypeOK, Waiting
<1>4. \A e \in Event : e.n \in Nat
  BY DEF Event
<1>. QED  BY <1>1, <1>2, <1>3, <1>4 DEF Logged

\* The handler puts the event into one log at most: the i-th completed one, or
\* the current one (0), or none (-1).
LEMMA IntoOneLog ==
    ASSUME TypeOK, NEW e \in Event, Record(e)
    PROVE  \E k \in Int :
              /\ current'.events \subseteq
                    current.events \cup (IF k = 0 THEN {e} ELSE {})
              /\ DOMAIN completed' = DOMAIN completed
              /\ \A i \in DOMAIN completed :
                    completed'[i].events \subseteq
                       completed[i].events \cup (IF k = i THEN {e} ELSE {})
<1>1. Current.events \subseteq current.events /\ Current \in ActionLog
  BY TimelineType DEF Current, NewLog
<1>2. completed \in Seq(ActionLog) /\ current \in ActionLog
  BY DEF TypeOK
<1>3. CASE RecordInCurrent(e)
  <2>1. current'.events = Current.events \cup {e} /\ completed' = completed
    BY <1>1, <1>3 DEF RecordInCurrent, ActionLog
  <2>. QED  BY <1>1, <2>1
<1>4. CASE RecordInCompleted(e)
  <2>1. PICK k \in DOMAIN completed :
           completed' = [completed EXCEPT ![k].events = @ \cup {e}]
    BY <1>4 DEF RecordInCompleted
  <2>2. k \in Int /\ k # 0
    BY <1>2
  <2>3. [completed[k] EXCEPT !.events = @ \cup {e}].events
           = completed[k].events \cup {e}
    BY <1>2 DEF ActionLog
  <2>4. completed' = [completed EXCEPT
                        ![k] = [completed[k] EXCEPT !.events = @ \cup {e}]]
    BY <2>1
  <2>5. DOMAIN completed' = DOMAIN completed
        /\ \A i \in DOMAIN completed :
              completed'[i] = IF i = k
                              THEN [completed[k] EXCEPT !.events = @ \cup {e}]
                              ELSE completed[i]
    BY <2>4, <1>2
  <2>6. current' = Current
    BY <1>4 DEF RecordInCompleted
  <2>. QED  BY <1>1, <2>2, <2>3, <2>5, <2>6
<1>5. CASE RecordNowhere(e)
  BY <1>5, <1>2 DEF RecordNowhere
<1>6. CASE RecordNothing
  BY <1>6, <1>1, <1>2 DEF RecordNothing
<1>. QED  BY <1>3, <1>4, <1>5, <1>6 DEF Record

LEMMA OnceDispatch ==
    ASSUME OnceInv, Dispatch
    PROVE  RecordedOnce' /\ Stamped'
<1>. DEFINE e == Head(batch)
<1>1. TypeOK /\ batch # <<>> /\ e \in Event /\ Record(e)
  BY DEF OnceInv, TypeOK, Dispatch
<1>2. /\ batch' = Tail(batch) /\ buffer' = buffer /\ sent' = sent
      /\ sent \in Nat
  BY ConstantsAssumption DEF Dispatch, OnceInv, TypeOK
<1>3. /\ 1 \in DOMAIN Waiting /\ Waiting[1] = e
      /\ \A i \in DOMAIN Waiting' : i + 1 \in DOMAIN Waiting /\ Waiting'[i] = Waiting[i + 1]
                                  /\ i \in Nat /\ 1 < i + 1
  BY <1>1, <1>2 DEF Waiting, OnceInv, TypeOK
<1>. DEFINE Add(i, k) == IF k = i THEN {e} ELSE {}
<1>4. PICK k \in Int :
         /\ current'.events \subseteq current.events \cup Add(0, k)
         /\ DOMAIN completed' = DOMAIN completed
         /\ \A i \in DOMAIN completed :
               completed'[i].events \subseteq completed[i].events \cup Add(i, k)
  BY <1>1, IntoOneLog
<1>5. \A i \in DOMAIN Waiting : Waiting[i].n \in Nat
  BY <1>1, LoggedTypes
<1>6. \A i, j \in DOMAIN Waiting : i < j => Waiting[i].n < Waiting[j].n
  BY DEF OnceInv, RecordedOnce, Waiting
<1>7. \A log \in Logged : \A f \in log : f.n \in Nat /\ f.n < e.n
  BY <1>1, <1>3, LoggedTypes DEF OnceInv, RecordedOnce, Waiting
<1>8. e.n \in Nat /\ e.n <= sent
  BY <1>3, <1>5 DEF OnceInv, Stamped
<1>. HIDE DEF e
<1>9. \A log \in Logged' : \A f \in log : f.n \in Nat /\ f.n <= e.n
  <2>1. \A f \in current'.events : f \in current.events \/ f = e
    BY <1>4
  <2>2. \A i \in DOMAIN completed' : \A f \in completed'[i].events :
           f \in completed[i].events \/ f = e
    BY <1>4
  <2>3. \A f \in current.events : f.n \in Nat /\ f.n < e.n
    BY <1>7 DEF Logged
  <2>4. \A i \in DOMAIN completed : \A f \in completed[i].events :
           f.n \in Nat /\ f.n < e.n
    BY <1>7 DEF Logged
  <2>5. \A f \in current'.events : f.n \in Nat /\ f.n <= e.n
    BY <1>8, <2>1, <2>3
  <2>6. \A i \in DOMAIN completed' : \A f \in completed'[i].events :
           f.n \in Nat /\ f.n <= e.n
    BY <1>4, <1>8, <2>2, <2>4
  <2>. QED  BY <2>5, <2>6 DEF Logged
<1>10. e \notin current.events /\ \A i \in DOMAIN completed : e \notin completed[i].events
  BY <1>7, <1>8 DEF Logged
<1>11. \A i \in DOMAIN Waiting' : e.n < Waiting'[i].n
  BY <1>3, <1>6
<1>12. \A i \in DOMAIN Waiting' :
          /\ \A log \in Logged' : \A f \in log : f.n < Waiting'[i].n
          /\ \A j \in DOMAIN Waiting' : i < j => Waiting'[i].n < Waiting'[j].n
  <2>1. \A i \in DOMAIN Waiting' : Waiting'[i].n \in Nat
    BY <1>3, <1>5
  <2>2. \A i \in DOMAIN Waiting' : \A log \in Logged' : \A f \in log : f.n < Waiting'[i].n
    BY <1>8, <1>9, <1>11, <2>1
  <2>3. \A i, j \in DOMAIN Waiting' : i < j => Waiting'[i].n < Waiting'[j].n
    BY <1>3, <1>6
  <2>. QED  BY <2>2, <2>3
<1>13. \A i \in DOMAIN completed' :
          /\ completed'[i].events \cap current'.events = {}
          /\ \A j \in DOMAIN completed' :
                i # j => completed'[i].events \cap completed'[j].events = {}
  <2>1. \A i \in DOMAIN completed :
          /\ completed[i].events \cap current.events = {}
          /\ \A j \in DOMAIN completed :
                i # j => completed[i].events \cap completed[j].events = {}
    BY DEF OnceInv, RecordedOnce
  <2>2. DOMAIN completed \subseteq Nat \ {0}
    BY <1>1 DEF TypeOK
  <2>3. ASSUME NEW i \in DOMAIN completed
        PROVE  completed'[i].events \cap current'.events = {}
    BY <1>4, <1>10, <2>1, <2>2
  <2>4. ASSUME NEW i \in DOMAIN completed, NEW j \in DOMAIN completed, i # j
        PROVE  completed'[i].events \cap completed'[j].events = {}
    <3>1. completed[i].events \cap completed[j].events = {}
      BY <2>1, <2>4
    <3>2. e \notin completed[i].events /\ e \notin completed[j].events
      BY <1>10
    <3>3. /\ completed'[i].events \subseteq completed[i].events \cup Add(i, k)
          /\ completed'[j].events \subseteq completed[j].events \cup Add(j, k)
      BY <1>4
    <3>. QED  BY <2>4, <3>1, <3>2, <3>3
  <2>. QED  BY <1>4, <2>3, <2>4
<1>14. RecordedOnce'
  BY <1>12, <1>13, Zenon DEF RecordedOnce, Waiting
<1>15. \A i \in DOMAIN Waiting' : Waiting'[i].n <= sent'
  BY <1>2, <1>3 DEF OnceInv, Stamped
<1>16. \A log \in Logged' : \A f \in log : f.n <= sent'
  BY <1>2, <1>8, <1>9
<1>. QED  BY <1>14, <1>15, <1>16 DEF Stamped

LEMMA OnceInit == Init => OnceInv
<1>. SUFFICES ASSUME Init PROVE OnceInv
  OBVIOUS
<1>1. TypeOK
  BY TypeInit
<1>2. batch = <<>> /\ buffer = <<>> /\ completed = <<>> /\ current.events = {}
  BY DEF Init, NoAction, NewLog
<1>3. Waiting = <<>> /\ DOMAIN completed = {}
  BY <1>2 DEF Waiting
<1>4. DOMAIN Waiting = {} /\ Logged = {{}}
  BY <1>2, <1>3 DEF Logged
<1>5. RecordedOnce
  BY <1>3, <1>4 DEF RecordedOnce, Waiting
<1>6. Stamped
  BY <1>4 DEF Stamped
<1>. QED  BY <1>1, <1>5, <1>6 DEF OnceInv

\* Logs that lose events, and none of which is split, change nothing.
LEMMA OnceShrinking ==
    ASSUME OnceInv, Waiting' = Waiting, sent' = sent,
           NEW f \in [DOMAIN completed' -> Int],
           \A i \in DOMAIN completed' :
              \/ f[i] = 0 /\ completed'[i].events = current.events
                 /\ current'.events = {}
              \/ f[i] \in DOMAIN completed /\ f[i] # 0
                 /\ completed'[i].events = completed[f[i]].events,
           \A i, j \in DOMAIN completed' : f[i] = f[j] => i = j,
           current'.events \subseteq current.events
    PROVE  RecordedOnce' /\ Stamped'
<1>1. \A i \in DOMAIN completed :
        /\ completed[i].events \cap current.events = {}
        /\ \A j \in DOMAIN completed :
              i # j => completed[i].events \cap completed[j].events = {}
  BY DEF OnceInv, RecordedOnce
<1>2. \A i \in DOMAIN completed' :
        /\ completed'[i].events \cap current'.events = {}
        /\ \A j \in DOMAIN completed' :
              i # j => completed'[i].events \cap completed'[j].events = {}
  <2>1. ASSUME NEW i \in DOMAIN completed'
        PROVE  completed'[i].events \cap current'.events = {}
    BY <1>1
  <2>2. ASSUME NEW i \in DOMAIN completed', NEW j \in DOMAIN completed', i # j
        PROVE  completed'[i].events \cap completed'[j].events = {}
    <3>1. f[i] # f[j]
      BY <2>2
    <3>. QED  BY <1>1, <3>1
  <2>. QED  BY <2>1, <2>2
<1>3. \A log \in Logged' : log \in Logged \/ log = {} \/ log \subseteq current.events
  BY DEF Logged
<1>4. \A log \in Logged' : \A e \in log : \E old \in Logged : e \in old
  BY <1>3 DEF Logged
<1>5. \A i \in DOMAIN Waiting' :
          /\ \A log \in Logged' : \A e \in log : e.n < Waiting'[i].n
          /\ \A j \in DOMAIN Waiting' : i < j => Waiting'[i].n < Waiting'[j].n
  BY <1>4 DEF OnceInv, RecordedOnce, Waiting
<1>6. RecordedOnce'
  BY <1>2, <1>5, Zenon DEF RecordedOnce, Waiting
<1>7. Stamped'
  BY <1>4 DEF OnceInv, Stamped
<1>. QED  BY <1>6, <1>7

LEMMA OnceNext == OnceInv /\ [Next]_vars => OnceInv'
<1>. SUFFICES ASSUME OnceInv, [Next]_vars PROVE OnceInv'
  OBVIOUS
<1>0. TypeOK /\ TypeOK'
  BY TypeNext DEF OnceInv
<1>1. ASSUME UNCHANGED <<current, completed>>, Waiting' = Waiting, sent' = sent
      PROVE  RecordedOnce' /\ Stamped'
  BY <1>1 DEF OnceInv, RecordedOnce, Stamped, Logged, Waiting
<1>2. CASE Push
  <2>1. PICK e \in Event : buffer' = Append(buffer, e) /\ e.n = sent + 1
    <3>1. PICK pid \in Pids, ppid \in Pids \cup {Outside}, ts \in 0..clock :
             buffer' = Append(buffer, [n |-> sent + 1, pid |-> pid,
                                       ppid |-> ppid, ts |-> ts])
      BY <1>2 DEF Push
    <3>2. [n |-> sent + 1, pid |-> pid, ppid |-> ppid, ts |-> ts] \in Event
      BY <1>0, <1>2, ConstantsAssumption DEF Push, TypeOK, Event
    <3>. QED  BY <3>1, <3>2
  <2>2. /\ batch' = batch /\ sent' = sent + 1 /\ sent \in Nat
        /\ UNCHANGED <<current, completed>>
    BY <1>0, <1>2, ConstantsAssumption DEF Push, actions, TypeOK
  <2>3. Logged' = Logged
    BY <2>2 DEF Logged
  <2>4. \A i \in DOMAIN Waiting' :
           \/ i \in DOMAIN Waiting /\ Waiting'[i] = Waiting[i]
           \/ i = Len(Waiting) + 1 /\ Waiting'[i] = e
    <3>1. batch \in Seq(Event) /\ buffer \in Seq(Event)
      BY <1>0 DEF TypeOK
    <3>2. Waiting' = Append(Waiting, e) /\ Waiting \in Seq(Event)
      BY <2>1, <2>2, <3>1 DEF Waiting
    <3>. QED  BY <3>2
  <2>5. /\ \A i \in DOMAIN Waiting : i \in 1..Len(Waiting) /\ Waiting[i].n \in Nat
        /\ Len(Waiting) \in Nat
    BY <1>0, LoggedTypes
  <2>6. \A log \in Logged : \A g \in log : g.n \in Nat /\ g.n <= sent
    BY <1>0, LoggedTypes DEF OnceInv, Stamped
  <2>7. \A i \in DOMAIN Waiting : Waiting[i].n <= sent
    BY DEF OnceInv, Stamped
  <2>8. \A i \in DOMAIN Waiting' : \A log \in Logged' : \A g \in log : g.n < Waiting'[i].n
    <3>1. \A i \in DOMAIN Waiting : \A log \in Logged : \A g \in log : g.n < Waiting[i].n
      BY DEF OnceInv, RecordedOnce, Waiting
    <3>. QED  BY <2>1, <2>2, <2>3, <2>4, <2>6, <3>1
  <2>9. \A i, j \in DOMAIN Waiting' : i < j => Waiting'[i].n < Waiting'[j].n
    <3>1. \A i, j \in DOMAIN Waiting : i < j => Waiting[i].n < Waiting[j].n
      BY DEF OnceInv, RecordedOnce, Waiting
    <3>. QED  BY <2>1, <2>2, <2>4, <2>5, <2>7, <3>1
  <2>10. RecordedOnce'
    <3>1. \A i \in DOMAIN completed' :
            /\ completed'[i].events \cap current'.events = {}
            /\ \A j \in DOMAIN completed' :
                  i # j => completed'[i].events \cap completed'[j].events = {}
      BY <2>2 DEF OnceInv, RecordedOnce
    <3>. QED  BY <2>8, <2>9, <3>1, Zenon DEF RecordedOnce, Waiting
  <2>11. Stamped'
    <3>1. \A i \in DOMAIN Waiting' : Waiting'[i].n <= sent'
      BY <2>1, <2>2, <2>4, <2>5, <2>7
    <3>2. \A log \in Logged' : \A g \in log : g.n <= sent'
      BY <2>2, <2>3, <2>6
    <3>. QED  BY <3>1, <3>2 DEF Stamped
  <2>. QED  BY <1>0, <2>10, <2>11 DEF OnceInv
<1>3. CASE TakeBatch
  <2>1. Waiting' = Waiting
    BY <1>0, <1>3 DEF TakeBatch, Waiting, TypeOK
  <2>. QED  BY <1>0, <1>1, <1>3, <2>1 DEF TakeBatch, actions, OnceInv
<1>4. CASE LockChunk \/ Tick \/ UNCHANGED vars
  <2>1. UNCHANGED <<batch, buffer, sent, current, completed>>
    BY <1>4 DEF LockChunk, Tick, vars, pipeline, actions
  <2>. QED  BY <1>0, <1>1, <2>1 DEF OnceInv, Waiting
<1>5. CASE Dispatch
  BY <1>0, <1>5, OnceDispatch DEF OnceInv
<1>. DEFINE Same == [i \in DOMAIN completed' |-> i]
<1>6. CASE ActionStart
  <2>1. /\ current'.events = {} /\ completed' = completed
        /\ Waiting' = Waiting /\ sent' = sent
    BY <1>6 DEF ActionStart, NewLog, pipeline, Waiting
  <2>2. DOMAIN completed \subseteq Nat \ {0}
    BY <1>0 DEF TypeOK
  <2>3. Same \in [DOMAIN completed' -> Int]
    BY <2>1, <2>2
  <2>. QED  BY <1>0, <2>1, <2>2, <2>3, OnceShrinking DEF OnceInv
<1>7. CASE ActionEnd
  <2>. DEFINE log == [current EXCEPT !.end = clock]
              n == Len(completed) + 1
              Shift == [i \in DOMAIN completed' |-> IF i = n THEN 0 ELSE i]
  <2>1. /\ completed \in Seq(ActionLog) /\ current \in ActionLog
        /\ clock \in 0..MaxTime
    BY <1>0, ConstantsAssumption DEF TypeOK
  <2>2. log \in ActionLog /\ log.events = current.events
    BY <2>1 DEF ActionLog
  <2>3. /\ completed' = Append(completed, log) /\ current'.events = {}
        /\ Waiting' = Waiting /\ sent' = sent
    BY <1>7 DEF ActionEnd, NoAction, NewLog, pipeline, Waiting
  <2>. HIDE DEF log
  <2>4. /\ n \in Nat \ {0} /\ DOMAIN completed' = 1..n
        /\ DOMAIN completed = 1..(n - 1)
        /\ completed'[n] = log
        /\ \A i \in 1..(n - 1) : completed'[i] = completed[i]
    BY <2>1, <2>2, <2>3
  <2>. HIDE DEF n
  <2>5. Shift \in [DOMAIN completed' -> Int]
    BY <2>4
  <2>6. ASSUME NEW i \in DOMAIN completed'
        PROVE  \/ Shift[i] = 0 /\ completed'[i].events = current.events
                  /\ current'.events = {}
               \/ Shift[i] \in DOMAIN completed /\ Shift[i] # 0
                  /\ completed'[i].events = completed[Shift[i]].events
    <3>1. CASE i = n
      BY <2>2, <2>3, <2>4, <3>1
    <3>2. CASE i # n
      <4>1. Shift[i] = i /\ i \in 1..(n - 1) /\ i # 0
        BY <2>4, <3>2
      <4>2. completed'[i] = completed[i]
        BY <2>4, <4>1
      <4>. QED  BY <2>4, <4>1, <4>2
    <3>. QED  BY <3>1, <3>2
  <2>7. \A i, j \in DOMAIN completed' : Shift[i] = Shift[j] => i = j
    BY <2>4
  <2>. HIDE DEF Shift
  <2>. QED  BY <1>0, <2>3, <2>5, <2>6, <2>7, OnceShrinking DEF OnceInv
<1>8. CASE DeleteContainer
  <2>1. /\ current'.events = {} /\ completed' = <<>>
        /\ Waiting' = Waiting /\ sent' = sent
    BY <1>8 DEF DeleteContainer, NoAction, NewLog, pipeline, Waiting
  <2>2. DOMAIN completed' = {}
    BY <2>1
  <2>3. Same \in [DOMAIN completed' -> Int]
    BY <2>2
  <2>. QED  BY <1>0, <2>1, <2>2, <2>3, OnceShrinking DEF OnceInv
<1>. QED  BY <1>2, <1>3, <1>4, <1>5, <1>6, <1>7, <1>8 DEF Next

-----------------------------------------------------------------------------
(* The results.                                                            *)

\* No two logs of a container ever carry the same action number.
THEOREM NumbersUnique == Spec => []Numbered
<1>1. IInv => Numbered
  BY DEF IInv
<1>. QED  BY <1>1, InductiveInvariant, PTL

\* The windows action_at_time searches never overlap in their interior.
THEOREM WindowsDisjoint == Spec => []WindowsSequential
<1>1. IInv => WindowsSequential
  BY DEF IInv
<1>. QED  BY <1>1, InductiveInvariant, PTL

\* A process attributed to an action of the harness always finds its log.
THEOREM NothingDangles == Spec => []AttributedHasLog
<1>1. IInv => AttributedHasLog
  BY DEF IInv
<1>. QED  BY <1>1, InductiveInvariant, PTL

\* A process without a known parent that appeared strictly inside an action's
\* window belongs to that action, however late it was dispatched.
THEOREM CausalAttribution == Spec => []RootCausality
<1>1. IInv => RootCausality
  BY DEF IInv
<1>. QED  BY <1>1, InductiveInvariant, PTL

\* A forked process has its parent's attribution for as long as both are known.
THEOREM Inheritance == Spec => []ForkInheritance
<1>1. IInv => ForkInheritance
  BY DEF IInv
<1>. QED  BY <1>1, InductiveInvariant, PTL

\* Both facts about the lifecycle action together: they are proved as one.
THEOREM Recording == Spec => [](OnlyLifecycleStrays /\ OnlyLifecycleDropped)
<1>1. RecordInv => OnlyLifecycleStrays /\ OnlyLifecycleDropped
  BY DEF RecordInv
<1>2. Init => RecordInv
  BY InvInit, RecordInvInit DEF RecordInv
<1>3. RecordInv /\ [Next]_vars => RecordInv'
  BY InvNext, RecordInvNext DEF RecordInv
<1>. QED  BY <1>1, <1>2, <1>3, PTL DEF Spec

\* Events recorded under another action's number are those of processes older
\* than the first action.
THEOREM Strays == Spec => []OnlyLifecycleStrays
<1>. QED  BY Recording, PTL

\* Events recorded nowhere are those of processes older than the first action.
THEOREM Drops == Spec => []OnlyLifecycleDropped
<1>. QED  BY Recording, PTL

\* However batches, chunks and handlers interleave, no event sits in two logs,
\* or in a log and a queue.
THEOREM EachEventOnce == Spec => []RecordedOnce
<1>1. OnceInv => RecordedOnce
  BY DEF OnceInv
<1>. QED  BY <1>1, OnceInit, OnceNext, PTL DEF Spec

\* Every step of buffer, batch, chunks and mutex is a step of EventQueue on the
\* events waiting, or changes none of them: nothing is lost, repeated or
\* overtaken between the audit thread and the handlers.
THEOREM PipelineIsQueue ==
    Spec => Queue!Init /\ [][Queue!Next]_(batch \o buffer)
<1>1. Init => Queue!Init
  BY DEF Init, Queue!Init
<1>2. TypeOK /\ [Next]_vars => [Queue!Next]_(batch \o buffer)
  <2>. SUFFICES ASSUME TypeOK, [Next]_vars, Waiting' # Waiting
                PROVE  Queue!Next
    BY DEF Waiting
  <2>1. batch \in Seq(Event) /\ buffer \in Seq(Event) /\ chunk \in 0..Len(batch)
    BY DEF TypeOK
  <2>2. CASE Push
    <3>1. PICK pid \in Pids, ppid \in Pids \cup {Outside}, ts \in 0..clock :
             buffer' = Append(buffer, [n |-> sent + 1, pid |-> pid,
                                       ppid |-> ppid, ts |-> ts])
      BY <2>2 DEF Push
    <3>. DEFINE e == [n |-> sent + 1, pid |-> pid, ppid |-> ppid, ts |-> ts]
    <3>2. e \in Event
      BY <2>2, ConstantsAssumption DEF Push, TypeOK, Event
    <3>. HIDE DEF e
    <3>3. batch' \o buffer' = Append(batch \o buffer, e)
      BY <2>1, <2>2, <3>1, <3>2 DEF Push, e
    <3>. QED  BY <3>2, <3>3 DEF Queue!Next, Queue!Push
  <2>3. CASE TakeBatch
    BY <2>1, <2>3 DEF TakeBatch, Waiting
  <2>4. CASE Dispatch
    <3>1. batch # <<>> /\ batch' = Tail(batch) /\ buffer' = buffer
      BY <2>1, <2>4 DEF Dispatch
    <3>2. batch \o buffer # <<>> /\ batch' \o buffer' = Tail(batch \o buffer)
      BY <2>1, <3>1
    <3>. QED  BY <3>2 DEF Queue!Next, Queue!Consume
  <2>. QED  BY <2>2, <2>3, <2>4 DEF Next, vars, pipeline, LockChunk, ActionStart,
                                    ActionEnd, DeleteContainer, Tick, Waiting
<1>. QED  BY <1>1, <1>2, TypeCorrect, PTL DEF Spec

\* Until the container is deleted, a completed log keeps its place, number and
\* window and loses no event.
THEOREM SettledLogs == Spec => CompletedOnlyGrows
<1>1. TypeOK /\ [Next]_vars =>
         [live' => \A i \in DOMAIN completed :
             /\ i \in DOMAIN completed'
             /\ completed'[i].id = completed[i].id
             /\ completed'[i].start = completed[i].start
             /\ completed'[i].end = completed[i].end
             /\ completed[i].events \subseteq completed'[i].events]_vars
  BY GrowsNext DEF Grows
<1>. QED  BY <1>1, TypeCorrect, PTL DEF Spec, CompletedOnlyGrows

\* Whatever the harness repeats and however late events are, numbers of logs and
\* processes change only as ActionLifecycle allows.
THEOREM LifecycleImplemented == Spec => ActionsFollowLifecycle
<1>1. Init => Lifecycle!Init
  <2>. SUFFICES ASSUME Init PROVE Lifecycle!Init
    OBVIOUS
  <2>1. currentId = 0 /\ completed = << >> /\ known = {} /\ ~live
    BY DEF Init
  <2>2. Running = TRUE
    BY <2>1, TypeInit, RunningOrAbsent DEF Running
  <2>3. {completed[i].id : i \in DOMAIN completed} = {} /\ [p \in known |-> attributed[p]] = << >>
    BY <2>1
  <2>. QED  BY <2>1, <2>2, <2>3 DEF Lifecycle!Init
<1>2. IInv /\ IInv' /\ [Next]_vars => [Lifecycle!Next]_(Lifecycle!vars)
  BY LifecycleNext
<1>. QED  BY <1>1, <1>2, InductiveInvariant, PTL DEF Spec, ActionsFollowLifecycle, Lifecycle!Spec
=============================================================================
