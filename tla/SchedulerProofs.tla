-------------------------- MODULE SchedulerProofs --------------------------
(***************************************************************************)
(* Proofs about Scheduler, for every value of its constants.               *)
(***************************************************************************)
EXTENDS Scheduler, FiniteSetTheorems, WellFoundedInduction, TLAPS

\* What the type invariant leaves out of the records: a coroutine that is not
\* idle knows its reminder or its device.
Shape ==
    /\ IsFiniteSet(queue)
    /\ \A t \in Tasks : task[t].pc # "idle" => task[t].notif \in Notifs
    /\ \A t \in Tasks : task[t].pc \in {"lookup", "count", "drop", "insert", "send"}
                            => DeviceOf[task[t].notif] \in Devices
    /\ \A r \in Requests : req[r].pc # "idle" => req[r].notif \in Notifs
    /\ \A k \in Conns : conn[k].pc # "closed" => conn[k].dev \in Devices
    /\ \A k \in Conns : conn[k].pc \in {"recount", "redrop"} => conn[k].hand # {}

Typed == TypeOK /\ Shape

-----------------------------------------------------------------------------

\* The queue of a device is a finite part of the table.
LEMMA QueueFinite ==
    ASSUME IsFiniteSet(queue), NEW d
    PROVE  IsFiniteSet(Queue(d)) /\ Cardinality(Queue(d)) \in Nat
  <1>1. Queue(d) \subseteq queue
    BY DEF Queue
  <1>2. IsFiniteSet(Queue(d))
    BY <1>1, FS_Subset
  <1> QED BY <1>2, FS_CardinalityType

\* A set of row numbers has a least one, since the intervals below its members
\* are finite sets and these are well-founded under inclusion.
LEMMA LeastRow ==
    ASSUME NEW R \in SUBSET Nat, R # {}
    PROVE  \E m \in R : \A i \in R : m <= i
  <1> DEFINE T == {0..i : i \in R}
  <1>1. T \subseteq FiniteSubsetsOf(Nat) /\ T # {}
    <2>1. ASSUME NEW i \in R
          PROVE  0..i \in FiniteSubsetsOf(Nat)
      <3>1. IsFiniteSet(0..i) /\ 0..i \subseteq Nat
        BY FS_Interval
      <3> QED BY <3>1 DEF FiniteSubsetsOf
    <2> QED BY <2>1
  <1>2. PICK x \in T : \A y \in T : ~ (<<y, x>> \in StrictSubsetOrdering(Nat))
    <2> HIDE DEF T
    <2> QED BY <1>1, WFMin, FS_StrictSubsetOrderingWellFounded
  <1>3. PICK m \in R : x = 0..m
    BY DEF T
  <1>4. ASSUME NEW i \in R, i < m
        PROVE  FALSE
    <2>1. 0..i \in T /\ 0..i \subseteq Nat /\ 0..m \subseteq Nat
      OBVIOUS
    <2>2. 0..i \subseteq 0..m /\ 0..i # 0..m
      BY <1>4
    <2>3. <<0..i, 0..m>> \in StrictSubsetOrdering(Nat)
      BY <2>1, <2>2 DEF StrictSubsetOrdering
    <2> QED BY <1>2, <1>3, <2>1, <2>3
  <1> QED BY <1>4

\* The replay has a first frame as long as it has one.
LEMMA FirstInHand ==
    ASSUME Typed, NEW k \in Conns, conn[k].hand # {}
    PROVE  First(k) \in conn[k].hand /\ First(k) \in Frame
  <1> DEFINE held == {f.row : f \in conn[k].hand}
  <1>1. conn[k].hand \subseteq Frame
    BY DEF Typed, TypeOK, Conn
  <1>2. held \in SUBSET Nat /\ held # {}
    BY <1>1 DEF Frame
  <1>3. PICK m \in held : \A i \in held : m <= i
    <2> HIDE DEF held
    <2> QED BY <1>2, LeastRow
  <1>4. PICK f \in conn[k].hand : f.row = m
    BY <1>3
  <1>5. \A g \in conn[k].hand : f.row <= g.row
    BY <1>3, <1>4
  <1> QED BY <1>1, <1>4, <1>5 DEF First

LEMMA TypedInit == Init => Typed
  BY ConstantsAssumption, FS_EmptySet
  DEF Init, Typed, TypeOK, Shape, Statuses, Frame, Task, IdleTask, Req, IdleReq,
      Conn, ConnPc, ClosedConn, TaskAwaits

\* A conditional update of one status.
LEMMA StatusType ==
    ASSUME status \in [Notifs -> Statuses], NEW n, NEW s \in Statuses,
           SetIfPending(n, s)
    PROVE  status' \in [Notifs -> Statuses]
  BY DEF SetIfPending, Set

\* The updates of a task's record.
TaskPc == TaskAwaits \cup {"idle", "new", "send"}

LEMMA TaskIdle ==
    ASSUME task \in [Tasks -> Task], NEW t \in Tasks
    PROVE  [task EXCEPT ![t] = IdleTask] \in [Tasks -> Task]
  BY DEF Task, IdleTask

\* One or two fields of a task's record are written.
LEMMA TaskFields ==
    ASSUME NEW x \in Task, NEW p \in TaskPc
    PROVE  /\ [x EXCEPT !.cancel = TRUE] \in Task
           /\ [x EXCEPT !.pc = p] \in Task
           /\ \A b \in BOOLEAN : [x EXCEPT !.pc = p, !.found = b] \in Task
           /\ \A c \in Nat : [x EXCEPT !.pc = p, !.count = c] \in Task
           /\ [x EXCEPT !.pc = p, !.cancel = FALSE] \in Task
  <1>1. Task = [pc : TaskPc, notif : Notifs \cup {None}, at : Nat,
                found : BOOLEAN, count : Nat, cancel : BOOLEAN]
    BY DEF Task, TaskPc
  <1> HIDE DEF Task, TaskPc
  <1> QED BY <1>1

LEMMA TaskGoto ==
    ASSUME task \in [Tasks -> Task], NEW t \in Tasks, NEW p \in TaskPc
    PROVE  [task EXCEPT ![t].pc = p] \in [Tasks -> Task]
  BY TaskFields

LEMMA TaskFound ==
    ASSUME task \in [Tasks -> Task], NEW t \in Tasks, NEW p \in TaskPc,
           NEW b \in BOOLEAN
    PROVE  [task EXCEPT ![t].pc = p, ![t].found = b] \in [Tasks -> Task]
  BY TaskFields

LEMMA TaskCounted ==
    ASSUME task \in [Tasks -> Task], NEW t \in Tasks, NEW p \in TaskPc,
           NEW c \in Nat
    PROVE  [task EXCEPT ![t].pc = p, ![t].count = c] \in [Tasks -> Task]
  BY TaskFields

LEMMA TaskUncancelled ==
    ASSUME task \in [Tasks -> Task], NEW t \in Tasks, NEW p \in TaskPc
    PROVE  [task EXCEPT ![t].pc = p, ![t].cancel = FALSE] \in [Tasks -> Task]
  BY TaskFields

LEMMA TaskStepTask ==
    ASSUME task \in [Tasks -> Task], IsFiniteSet(queue),
           NEW t \in Tasks, TaskStep(t)
    PROVE  task' \in [Tasks -> Task]
  <1>1. {"sleep", "get", "lookup", "count", "drop", "insert", "mark", "send"}
            \subseteq TaskPc
    BY DEF TaskPc, TaskAwaits
  <1>2. CASE \/ CancelNew(t) \/ Cancelled(t) \/ Raced(t) \/ Done(t)
    BY <1>2, TaskIdle DEF CancelNew, Cancelled, Raced, Done, Finish
  <1>3. CASE Wake(t)
    <2>1. (status[task[t].notif] = "pending") \in BOOLEAN /\ "get" \in TaskPc
      BY <1>1
    <2> QED BY <1>3, <2>1, TaskFound, Zenon DEF Wake
  <1>4. CASE LookUp(t)
    <2>1. (DeviceOf[task[t].notif] \in sess) \in BOOLEAN /\ "lookup" \in TaskPc
      BY <1>1
    <2> QED BY <1>4, <2>1, TaskFound, Zenon DEF LookUp
  <1>5. CASE GoOffline(t)
    <2>1. Cardinality(Queue(DeviceOf[task[t].notif])) \in Nat /\ "count" \in TaskPc
      BY <1>1, QueueFinite
    <2> QED BY <1>5, <2>1, TaskCounted, Zenon DEF GoOffline
  <1>6. CASE MarkFired(t)
    <2>1. "mark" \in TaskPc
      BY <1>1
    <2> QED BY <1>6, <2>1, TaskUncancelled, Zenon DEF MarkFired
  <1>7. CASE \/ Start(t) \/ Broadcast(t) \/ Defer(t) \/ DropForRoom(t) \/ Enqueue(t)
    BY <1>1, <1>7, TaskGoto DEF Start, Broadcast, Defer, DropForRoom, Enqueue
  <1>8. CASE SendCard(t)
    BY <1>1, <1>8, TaskGoto DEF SendCard
  <1> QED
    BY <1>2, <1>3, <1>4, <1>5, <1>6, <1>7, <1>8 DEF TaskStep

\* What else is left of the record: the reminder stays, and a task that is
\* delivering knows a device.
LEMMA TaskStepShape ==
    ASSUME Typed, NEW t \in Tasks, TaskStep(t)
    PROVE  /\ \A u \in Tasks \ {t} : task'[u] = task[u]
           /\ task'[t].pc # "idle" =>
                 /\ task[t].pc # "idle"
                 /\ task'[t].notif = task[t].notif
                 /\ task'[t].pc \in {"lookup", "count", "drop", "insert", "send"}
                       => DeviceOf[task[t].notif] \in Devices
  <1>1. /\ task \in [Tasks -> Task]
        /\ task[t].pc # "idle" => task[t].notif \in Notifs
        /\ task[t].pc \in {"lookup", "count", "drop", "insert", "send"}
              => DeviceOf[task[t].notif] \in Devices
    BY DEF Typed, TypeOK, Shape
  <1>2. \A n \in Notifs : DeviceOf[n] # None => DeviceOf[n] \in Devices
    BY ConstantsAssumption
  <1>3. CASE \/ CancelNew(t) \/ Cancelled(t) \/ Raced(t) \/ Done(t)
    BY <1>1, <1>3 DEF CancelNew, Cancelled, Raced, Done, Finish, IdleTask
  <1>4. CASE \/ Start(t) \/ Wake(t) \/ Broadcast(t) \/ Defer(t) \/ MarkFired(t)
    BY <1>1, <1>4 DEF Start, Wake, Broadcast, Defer, MarkFired, Awaiting, Task
  <1>5. CASE LookUp(t)
    BY <1>1, <1>2, <1>5 DEF LookUp, Awaiting, Task
  <1>6. CASE SendCard(t)
    BY <1>1, <1>6 DEF SendCard, Awaiting, Task
  <1>7. CASE GoOffline(t) \/ DropForRoom(t) \/ Enqueue(t)
    BY <1>1, <1>7 DEF GoOffline, DropForRoom, Enqueue, Awaiting, Task
  <1> QED
    BY <1>3, <1>4, <1>5, <1>6, <1>7 DEF TaskStep

\* The queue: frames enter with a known reminder and device, and leave.
LEMMA InsertTyped ==
    ASSUME TypeOK, IsFiniteSet(queue), NEW d \in Devices, NEW n \in Notifs,
           InsertFrame(d, n)
    PROVE  queue' \subseteq Frame /\ nextRow' \in Nat /\ IsFiniteSet(queue')
  <1>1. queue \subseteq Frame /\ nextRow \in Nat
    BY DEF TypeOK
  <1>2. queue' \subseteq Frame
    BY <1>1 DEF InsertFrame, Frame
  <1>3. nextRow' \in Nat
    BY <1>1 DEF InsertFrame
  <1>4. IsFiniteSet(queue')
    BY FS_AddElement DEF InsertFrame
  <1> QED BY <1>2, <1>3, <1>4

LEMMA DropTyped ==
    ASSUME TypeOK, IsFiniteSet(queue), NEW d, NEW c, DropOldest(d, c)
    PROVE  queue' \subseteq Frame /\ IsFiniteSet(queue') /\ lost' \subseteq Notifs
  <1>1. queue \subseteq Frame /\ lost \subseteq Notifs
    BY DEF TypeOK
  <1>2. queue' \in SUBSET queue
    BY DEF DropOldest
  <1>3. IsFiniteSet(queue')
    BY <1>2, FS_Subset
  <1>4. \A f \in Oldest(d, c - QueueCap + 1) : f.notif \in Notifs
    BY <1>1 DEF Oldest, Queue, Frame
  <1>5. lost' \subseteq Notifs
    BY <1>1, <1>4 DEF DropOldest, NotifsOf
  <1> QED BY <1>1, <1>2, <1>3, <1>5

LEMMA WriteTyped ==
    ASSUME TypeOK, NEW k, NEW n \in Notifs, WriteCard(k, n)
    PROVE  shown' \in [Notifs -> 0..2] /\ lost' \subseteq Notifs
  BY DEF TypeOK, WriteCard

LEMMA TaskStepTyped ==
    ASSUME Typed, NEW t \in Tasks, TaskStep(t)
    PROVE  Typed'
  <1>1. TypeOK /\ IsFiniteSet(queue) /\ task \in [Tasks -> Task]
    BY DEF Typed, TypeOK, Shape
  <1>2. task' \in [Tasks -> Task]
    BY <1>1, TaskStepTask
  <1>3. taskOf' \in [Notifs -> Tasks \cup {None}]
    BY <1>1
    DEF TypeOK, TaskStep, CancelNew, Start, Cancelled, Wake, Raced, Broadcast,
        LookUp, GoOffline, Defer, SendCard, DropForRoom, Enqueue, MarkFired,
        Done, Finish
  <1>4. status' = status \/ SetIfPending(task[t].notif, "fired")
    BY DEF TaskStep, CancelNew, Start, Cancelled, Wake, Raced, Broadcast, LookUp,
        GoOffline, Defer, SendCard, DropForRoom, Enqueue, MarkFired, Done, Finish
  <1>5. status' \in [Notifs -> Statuses]
    BY <1>1, <1>4, StatusType DEF Statuses, TypeOK
  <1>6. task[t].pc # "idle" => task[t].notif \in Notifs
    BY DEF Typed, Shape
  <1>7. task[t].pc \in {"lookup", "count", "drop", "insert", "send"}
            => DeviceOf[task[t].notif] \in Devices
    BY DEF Typed, Shape
  <1>8. /\ queue' \subseteq Frame /\ nextRow' \in Nat /\ IsFiniteSet(queue')
        /\ deferred' \in [Devices -> SUBSET Notifs]
        /\ handed' \subseteq Notifs /\ lost' \subseteq Notifs
        /\ shown' \in [Notifs -> 0..2]
    <2> USE <1>1, <1>6, <1>7 DEF rows, cards
    <2>1. CASE UNCHANGED <<rows, cards>>
      BY <2>1 DEF TypeOK
    <2>2. CASE Defer(t)
      BY <2>2 DEF TypeOK, Defer, Awaiting
    <2>3. CASE SendCard(t)
      BY <2>3, WriteTyped DEF TypeOK, SendCard, Awaiting
    <2>4. CASE DropForRoom(t)
      BY <2>4, DropTyped DEF TypeOK, DropForRoom
    <2>5. CASE Enqueue(t)
      <3>1. InsertFrame(DeviceOf[task[t].notif], task[t].notif)
        BY <2>5 DEF Enqueue
      <3>2. task[t].notif \in Notifs /\ DeviceOf[task[t].notif] \in Devices
        BY <2>5 DEF Enqueue, Awaiting
      <3>3. queue' \subseteq Frame /\ nextRow' \in Nat /\ IsFiniteSet(queue')
        BY <3>1, <3>2, InsertTyped
      <3> QED BY <2>5, <3>2, <3>3 DEF TypeOK, Enqueue
    <2> QED
      BY <2>1, <2>2, <2>3, <2>4, <2>5
      DEF TaskStep, CancelNew, Start, Cancelled, Wake, Raced, Broadcast, LookUp,
          GoOffline, MarkFired, Done
  <1>9. UNCHANGED <<now, up, bootAt, todo, fireAt, req, conn, sess, surf, busy,
                    acked, requests, connects, exits>>
    BY DEF TaskStep, process, bounds
  <1>10. TypeOK'
    BY <1>1, <1>2, <1>3, <1>5, <1>8, <1>9 DEF TypeOK
  <1>11. Shape'
    BY <1>6, <1>7, <1>8, <1>9, TaskStepShape DEF Typed, Shape
  <1> QED BY <1>10, <1>11 DEF Typed
\* A new task: the tasks stay typed and well formed.
LEMMA SpawnTyped ==
    ASSUME Typed, NEW n \in Notifs, NEW at \in Nat, Spawn(n, at)
    PROVE  /\ task' \in [Tasks -> Task]
           /\ taskOf' \in [Notifs -> Tasks \cup {None}]
           /\ \A t \in Tasks : task'[t].pc # "idle" => task'[t].notif \in Notifs
           /\ \A t \in Tasks :
                 task'[t].pc \in {"lookup", "count", "drop", "insert", "send"}
                    => DeviceOf[task'[t].notif] \in Devices
  <1> DEFINE new == [IdleTask EXCEPT !.pc = "new", !.notif = n, !.at = at]
  <1>1. task \in [Tasks -> Task] /\ taskOf \in [Notifs -> Tasks \cup {None}]
    BY DEF Typed, TypeOK
  <1>2. PICK t \in Tasks : /\ task' = [task EXCEPT ![t] = new]
                           /\ taskOf' = [taskOf EXCEPT ![n] = t]
    BY DEF Spawn, FreeTasks
  <1>3. new \in Task /\ new.pc = "new" /\ new.notif = n
    BY DEF IdleTask, Task
  <1>4. task' \in [Tasks -> Task]
    <2> HIDE DEF new
    <2> QED BY <1>1, <1>2, <1>3
  <1>5. taskOf' \in [Notifs -> Tasks \cup {None}]
    BY <1>1, <1>2
  <1>6. \A u \in Tasks :
            task'[u] # task[u] => task'[u].pc = "new" /\ task'[u].notif = n
    <2>1. \A u \in Tasks : task'[u] = IF u = t THEN new ELSE task[u]
      <3> HIDE DEF new
      <3> QED BY <1>1, <1>2
    <2>2. ASSUME NEW u \in Tasks, u = t
          PROVE  task'[u].pc = "new" /\ task'[u].notif = n
      <3>1. task'[u] = new
        BY <2>1, <2>2
      <3> QED BY <1>3, <3>1
    <2>3. ASSUME NEW u \in Tasks, u # t
          PROVE  task'[u] = task[u]
      BY <2>1, <2>3
    <2> QED BY <2>2, <2>3
  <1> QED BY <1>4, <1>5, <1>6 DEF Typed, Shape

\* What a call of cancel or reschedule does to the task it finds.
LEMMA CancelTaskTyped ==
    ASSUME Typed, NEW r \in Requests, CancelTask(r)
    PROVE  /\ task' \in [Tasks -> Task]
           /\ taskOf' \in [Notifs -> Tasks \cup {None}]
           /\ \A t \in Tasks : /\ task'[t].pc = task[t].pc
                               /\ task'[t].notif = task[t].notif
           /\ req' \in [Requests -> Req]
           /\ \A s \in Requests : req'[s].notif = req[s].notif
           /\ \A s \in Requests : req'[s].pc # "idle" => req[s].pc # "idle"
  <1>1. /\ task \in [Tasks -> Task] /\ taskOf \in [Notifs -> Tasks \cup {None}]
        /\ req \in [Requests -> Req] /\ req[r].notif \in Notifs
    BY DEF Typed, TypeOK, Shape, CancelTask
  <1>2. taskOf[req[r].notif] \in Tasks
    BY <1>1 DEF CancelTask, Tracked
  <1>3. task' \in [Tasks -> Task]
    <2>1. [task[taskOf[req[r].notif]] EXCEPT !.cancel = TRUE] \in Task
      BY <1>1, <1>2, TaskFields DEF TaskPc
    <2>2. task' = [task EXCEPT ![taskOf[req[r].notif]] =
                      [task[taskOf[req[r].notif]] EXCEPT !.cancel = TRUE]]
      BY DEF CancelTask
    <2> QED BY <1>1, <1>2, <2>1, <2>2
  <1>4. taskOf' \in [Notifs -> Tasks \cup {None}]
    BY <1>1 DEF CancelTask
  <1>5. \A t \in Tasks : task'[t].pc = task[t].pc /\ task'[t].notif = task[t].notif
    BY <1>1, <1>2 DEF CancelTask, Task
  <1>6. req' \in [Requests -> Req]
    BY <1>1, <1>2 DEF CancelTask, Req
  <1>7. \A s \in Requests : req'[s].notif = req[s].notif
    BY <1>1 DEF CancelTask, Req
  <1>8. \A s \in Requests : req'[s].pc # "idle" => req[s].pc # "idle"
    BY <1>1 DEF CancelTask, Req
  <1> QED BY <1>3, <1>4, <1>5, <1>6, <1>7, <1>8

\* The requests.
LEMMA ReqReturn ==
    ASSUME req \in [Requests -> Req], NEW r \in Requests, Return(r)
    PROVE  /\ req' \in [Requests -> Req]
           /\ \A s \in Requests : req'[s].pc # "idle" => req'[s] = req[s]
  <1>1. IdleReq \in Req /\ IdleReq.pc = "idle"
    BY DEF IdleReq, Req
  <1> QED BY <1>1 DEF Return

LEMMA ReqStepTyped ==
    ASSUME Typed, NEW r \in Requests, ReqStep(r)
    PROVE  Typed'
  <1>1. /\ req \in [Requests -> Req] /\ task \in [Tasks -> Task]
        /\ taskOf \in [Notifs -> Tasks \cup {None}]
        /\ status \in [Notifs -> Statuses] /\ fireAt \in [Notifs -> Nat]
        /\ acked \subseteq Notifs
    BY DEF Typed, TypeOK
  <1>2. req[r].pc # "idle" => req[r].notif \in Notifs
    BY DEF Typed, Shape
  <1>3. req[r].at \in Nat
    BY <1>1 DEF Req
  <1>4. UNCHANGED <<now, up, bootAt, todo, queue, nextRow, conn, sess, surf, busy,
                    deferred, handed, shown, lost, requests, connects, exits>>
    BY DEF ReqStep, process, rows, gate, bounds
  <1>5. /\ status' \in [Notifs -> Statuses] /\ fireAt' \in [Notifs -> Nat]
        /\ acked' \subseteq Notifs
    BY <1>1, <1>2, <1>3
    DEF ReqStep, Reject, Create, Arm, Refused, CancelTask, EndCancel, EndMove,
        Joined, Set, Statuses
  <1>6. /\ req' \in [Requests -> Req]
        /\ \A s \in Requests : req'[s].pc # "idle" =>
              req[s].pc # "idle" /\ req'[s].notif = req[s].notif
    <2>1. CASE Return(r)
      BY <1>1, <2>1, ReqReturn
    <2>2. CASE Create(r)
      <3>1. req' \in [Requests -> Req]
        BY <1>1, <2>2 DEF Create, Req
      <3>2. \A s \in Requests : req'[s].pc # "idle" =>
              req[s].pc # "idle" /\ req'[s].notif = req[s].notif
        BY <1>1, <2>2 DEF Create, Req
      <3> QED BY <3>1, <3>2
    <2>3. CASE CancelTask(r)
      BY <2>3, CancelTaskTyped
    <2> QED
      BY <2>1, <2>2, <2>3 DEF ReqStep, Reject, Arm, Refused, EndCancel, EndMove
  <1>7. /\ task' \in [Tasks -> Task]
        /\ taskOf' \in [Notifs -> Tasks \cup {None}]
        /\ \A t \in Tasks : task'[t].pc # "idle" => task'[t].notif \in Notifs
        /\ \A t \in Tasks :
              task'[t].pc \in {"lookup", "count", "drop", "insert", "send"}
                 => DeviceOf[task'[t].notif] \in Devices
    <2>1. CASE task' = task /\ taskOf' \in [Notifs -> Tasks \cup {None}]
      BY <1>1, <2>1 DEF Typed, Shape
    <2>2. CASE Arm(r) \/ EndMove(r)
      <3>1. Spawn(req[r].notif, req[r].at) /\ req[r].notif \in Notifs
        BY <1>2, <2>2 DEF Arm, EndMove
      <3> QED BY <1>3, <3>1, SpawnTyped
    <2>3. CASE CancelTask(r)
      BY <2>3, CancelTaskTyped DEF Typed, Shape
    <2>4. CASE EndCancel(r)
      <3>1. task' = task /\ taskOf' \in [Notifs -> Tasks \cup {None}]
        BY <1>1, <1>2, <2>4 DEF EndCancel
      <3> QED BY <2>1, <3>1
    <2> QED
      BY <1>1, <2>1, <2>2, <2>3, <2>4 DEF ReqStep, Reject, Create, Refused
  <1>8. TypeOK'
    BY <1>4, <1>5, <1>6, <1>7 DEF Typed, TypeOK
  <1>9. Shape'
    BY <1>4, <1>6, <1>7 DEF Typed, Shape
  <1> QED BY <1>8, <1>9 DEF Typed

LEMMA ReqCallTyped ==
    ASSUME Typed, NEW r \in Requests, ReqCall(r)
    PROVE  Typed'
  <1>1. /\ req \in [Requests -> Req] /\ requests \in Nat /\ now \in Nat
        /\ status \in [Notifs -> Statuses] /\ fireAt \in [Notifs -> Nat]
    BY DEF Typed, TypeOK
  <1>2. PICK n \in Notifs, at \in Nat :
            Cancel(r, n) \/ Schedule(r, n, at) \/ Reschedule(r, n, at)
    BY <1>1, ConstantsAssumption DEF ReqCall
  <1>3. /\ UNCHANGED <<now, up, bootAt, todo, queue, nextRow, taskOf, task, conn,
                    sess, surf, busy, deferred, handed, shown, lost, acked,
                    connects, exits>>
        /\ requests' \in Nat
    <2>1. UNCHANGED <<now, up, bootAt, todo, queue, nextRow, conn, sess, surf,
                      busy, deferred, handed, shown, lost, connects, exits>>
      BY DEF ReqCall, process, rows, gate
    <2>2. UNCHANGED <<taskOf, task, acked>> /\ requests' = requests - 1
      BY <1>2 DEF Cancel, Schedule, Reschedule
    <2>3. requests > 0
      BY <1>2 DEF Cancel, Schedule, Reschedule
    <2> QED BY <1>1, <2>1, <2>2, <2>3
  <1>4. status' \in [Notifs -> Statuses]
    BY <1>1, <1>2, StatusType DEF Cancel, Schedule, Reschedule, Set, Statuses
  <1>5. fireAt' \in [Notifs -> Nat]
    BY <1>1, <1>2 DEF Cancel, Schedule, Reschedule
  <1>6. PICK q \in Req : req' = [req EXCEPT ![r] = q] /\ q.notif = n
    <2>1. CASE Cancel(r, n)
      <3>1. (status[n] = "pending") \in BOOLEAN
        OBVIOUS
      <3>2. \A b \in BOOLEAN :
               /\ [IdleReq EXCEPT !.pc = "cancel", !.notif = n, !.ok = b] \in Req
               /\ [IdleReq EXCEPT !.pc = "cancel", !.notif = n, !.ok = b].notif = n
        BY DEF IdleReq, Req
      <3> QED BY <2>1, <3>1, <3>2, Zenon DEF Cancel
    <2>2. CASE Reschedule(r, n, at)
      <3>1. (status[n] = "pending") \in BOOLEAN
        OBVIOUS
      <3>2. \A b \in BOOLEAN :
               /\ [IdleReq EXCEPT !.pc = "move", !.notif = n, !.at = at,
                                  !.ok = b] \in Req
               /\ [IdleReq EXCEPT !.pc = "move", !.notif = n, !.at = at,
                                  !.ok = b].notif = n
        BY DEF IdleReq, Req
      <3> QED BY <2>2, <3>1, <3>2, Zenon DEF Reschedule
    <2>3. CASE Schedule(r, n, at)
      <3> DEFINE c == Cardinality(Pending(DeviceOf[n]))
                 p == IF DeviceOf[n] = None THEN "create" ELSE "count"
                 q == [IdleReq EXCEPT !.pc = p, !.notif = n, !.at = at, !.count = c]
      <3>1. c \in Nat
        <4>1. Pending(DeviceOf[n]) \in SUBSET Notifs /\ IsFiniteSet(Notifs)
          BY ConstantsAssumption DEF Pending
        <4> QED BY <4>1, FS_Subset, FS_CardinalityType
      <3>2. p \in {"create", "count"}
        OBVIOUS
      <3>3. q \in Req /\ q.notif = n
        <4> HIDE DEF c, p
        <4> QED BY <3>1, <3>2 DEF IdleReq, Req
      <3> QED BY <2>3, <3>3 DEF Schedule
    <2> QED BY <1>2, <2>1, <2>2, <2>3
  <1>7. TypeOK'
    <2>1. req' \in [Requests -> Req]
      BY <1>1, <1>6
    <2> QED BY <1>3, <1>4, <1>5, <2>1 DEF Typed, TypeOK
  <1>8. Shape'
    BY <1>1, <1>3, <1>6 DEF Typed, Shape
  <1> QED BY <1>7, <1>8 DEF Typed

-----------------------------------------------------------------------------
\* The updates of a connection's record.
LEMMA ConnGoto ==
    ASSUME conn \in [Conns -> Conn], NEW k \in Conns, NEW p \in ConnPc
    PROVE  [conn EXCEPT ![k].pc = p] \in [Conns -> Conn]
  BY DEF Conn

LEMMA ConnHand ==
    ASSUME conn \in [Conns -> Conn], NEW k \in Conns, NEW p \in ConnPc,
           NEW F \in SUBSET Frame
    PROVE  [conn EXCEPT ![k].pc = p, ![k].hand = F] \in [Conns -> Conn]
  BY DEF Conn

LEMMA ConnTake ==
    ASSUME conn \in [Conns -> Conn], NEW k \in Conns, NEW F \in SUBSET Frame
    PROVE  [conn EXCEPT ![k].hand = F] \in [Conns -> Conn]
  BY DEF Conn

LEMMA ConnFound ==
    ASSUME conn \in [Conns -> Conn], NEW k \in Conns, NEW p \in ConnPc,
           NEW b \in BOOLEAN
    PROVE  [conn EXCEPT ![k].pc = p, ![k].found = b] \in [Conns -> Conn]
  BY DEF Conn

LEMMA ConnCounted ==
    ASSUME conn \in [Conns -> Conn], NEW k \in Conns, NEW p \in ConnPc,
           NEW c \in Nat
    PROVE  [conn EXCEPT ![k].pc = p, ![k].count = c] \in [Conns -> Conn]
  BY DEF Conn

LEMMA ConnSurface ==
    ASSUME conn \in [Conns -> Conn], NEW k \in Conns, NEW p \in ConnPc,
           NEW s \in Conns \cup {None}
    PROVE  [conn EXCEPT ![k].pc = p, ![k].surface = s] \in [Conns -> Conn]
  BY DEF Conn

LEMMA ConnClosed ==
    ASSUME conn \in [Conns -> Conn], NEW k \in Conns
    PROVE  [conn EXCEPT ![k] = ClosedConn] \in [Conns -> Conn]
  <1>1. ClosedConn \in Conn
    BY DEF Conn, ConnPc, ClosedConn
  <1> QED BY <1>1

LEMMA ConnStepConn ==
    ASSUME Typed, NEW k \in Conns, ConnStep(k)
    PROVE  conn' \in [Conns -> Conn]
  <1>1. /\ conn \in [Conns -> Conn] /\ IsFiniteSet(queue) /\ queue \subseteq Frame
        /\ surf \in [Devices -> Conns \cup {None}]
    BY DEF Typed, TypeOK, Shape
  <1>2. conn[k].hand \in SUBSET Frame
    BY <1>1 DEF Conn
  <1>3. CASE \/ Attach(k) \/ NothingQueued(k) \/ Drain(k) \/ RequeueDrop(k)
             \/ Unregister(k)
    <2>1. {"attached", "ready", "deleted", "redrop", "unregistered"} \subseteq ConnPc
      BY DEF ConnPc
    <2>2. \E p \in ConnPc : conn' = [conn EXCEPT ![k].pc = p]
      BY <1>3, <2>1 DEF Attach, NothingQueued, Drain, RequeueDrop, Unregister
    <2> QED BY <1>1, <2>2, ConnGoto
  <1>4. CASE Register(k)
    <2>1. Queue(conn[k].dev) \in SUBSET Frame /\ "drain" \in ConnPc
      BY <1>1 DEF Queue, ConnPc
    <2> QED BY <1>1, <1>4, <2>1, ConnHand, Zenon DEF Register
  <1>5. CASE FindSession(k)
    <2>1. (conn[k].dev \in sess) \in BOOLEAN /\ "lookup" \in ConnPc
      BY DEF ConnPc
    <2> QED BY <1>1, <1>5, <2>1, ConnFound, Zenon DEF FindSession
  <1>6. CASE Replay(k)
    <2> DEFINE p == IF conn[k].found /\ surf[conn[k].dev] # None
                    THEN "replay" ELSE "requeue"
               s == IF conn[k].found THEN surf[conn[k].dev] ELSE None
    <2>1. conn[k].dev \in Devices
      BY <1>6 DEF Typed, Shape, Replay
    <2>2. p \in ConnPc /\ s \in Conns \cup {None}
      BY <1>1, <2>1 DEF ConnPc
    <2>3. conn' = [conn EXCEPT ![k].pc = p, ![k].surface = s]
      BY <1>6 DEF Replay
    <2> HIDE DEF p, s
    <2> QED BY <1>1, <2>2, <2>3, ConnSurface
  <1>7. CASE ReplayOne(k)
    <2>1. conn[k].hand \ {First(k)} \in SUBSET Frame
      BY <1>2
    <2> QED BY <1>1, <1>7, <2>1, ConnTake, Zenon DEF ReplayOne
  <1>8. CASE RequeueCount(k)
    <2>1. Cardinality(Queue(conn[k].dev)) \in Nat /\ "recount" \in ConnPc
      BY <1>1, QueueFinite DEF ConnPc
    <2> QED BY <1>1, <1>8, <2>1, ConnCounted, Zenon DEF RequeueCount
  <1>9. CASE RequeueInsert(k)
    <2>1. conn[k].hand \ {First(k)} \in SUBSET Frame /\ "requeue" \in ConnPc
      BY <1>2 DEF ConnPc
    <2> QED BY <1>1, <1>9, <2>1, ConnHand, Zenon DEF RequeueInsert
  <1>10. CASE ReplayDone(k)
    <2>1. None \in Conns \cup {None} /\ "ready" \in ConnPc
      BY DEF ConnPc
    <2> QED BY <1>1, <1>10, <2>1, ConnSurface, Zenon DEF ReplayDone
  <1>11. CASE Pause(k)
    BY <1>1, <1>11, ConnClosed DEF Pause
  <1> QED
    BY <1>3, <1>4, <1>5, <1>6, <1>7, <1>8, <1>9, <1>10, <1>11 DEF ConnStep

LEMMA ConnStepShape ==
    ASSUME Typed, NEW k \in Conns, ConnStep(k)
    PROVE  /\ conn[k].pc # "closed"
           /\ \A j \in Conns \ {k} : conn'[j] = conn[j]
           /\ conn'[k].pc # "closed" => conn'[k].dev = conn[k].dev
           /\ conn'[k].pc \in {"recount", "redrop"} => conn'[k].hand # {}
  <1>1. conn \in [Conns -> Conn]
    BY DEF Typed, TypeOK
  <1>2. conn[k].pc # "closed"
    BY DEF ConnStep, Attach, NothingQueued, Drain, RequeueDrop, Unregister,
           Register, FindSession, Replay, ReplayOne, RequeueCount, RequeueInsert,
           ReplayDone, Pause
  <1>7. conn[k].pc \in {"recount", "redrop"} => conn[k].hand # {}
    BY DEF Typed, Shape
  <1>3. CASE \/ Attach(k) \/ NothingQueued(k) \/ Drain(k) \/ RequeueDrop(k)
             \/ Unregister(k) \/ Register(k) \/ FindSession(k)
    BY <1>1, <1>2, <1>7, <1>3 DEF Attach, NothingQueued, Drain, RequeueDrop, Unregister,
                      Register, FindSession, Conn
  <1>4. CASE \/ ReplayOne(k) \/ RequeueCount(k) \/ RequeueInsert(k)
             \/ ReplayDone(k)
    BY <1>1, <1>2, <1>7, <1>4 DEF ReplayOne, RequeueCount, RequeueInsert, ReplayDone, Conn
  <1>5. CASE Replay(k)
    BY <1>1, <1>2, <1>7, <1>5 DEF Replay, Conn
  <1>6. CASE Pause(k)
    BY <1>1, <1>2, <1>7, <1>6 DEF Pause, ClosedConn
  <1> QED
    BY <1>3, <1>4, <1>5, <1>6 DEF ConnStep

LEMMA ConnStepTyped ==
    ASSUME Typed, NEW k \in Conns, ConnStep(k)
    PROVE  Typed'
  <1>1. TypeOK /\ IsFiniteSet(queue)
    BY DEF Typed, Shape
  <1>2. conn' \in [Conns -> Conn]
    BY ConnStepConn
  <1>3. /\ conn[k].dev \in Devices
        /\ \A j \in Conns : conn'[j].pc # "closed" => conn'[j].dev \in Devices
    BY ConnStepShape DEF Typed, Shape
  <1>4. UNCHANGED <<now, up, bootAt, todo, status, fireAt, taskOf, task, req,
                    handed, acked, requests, connects, exits>>
    BY DEF ConnStep, ConnFrame, process, Attach, NothingQueued, Drain, RequeueDrop,
           Unregister, Register, FindSession, Replay, ReplayOne, RequeueCount,
           RequeueInsert, ReplayDone, Pause
  <1>5. /\ sess' \subseteq Devices /\ busy' \subseteq Devices
        /\ surf' \in [Devices -> Conns \cup {None}]
        /\ deferred' \in [Devices -> SUBSET Notifs]
    <2>1. /\ sess \subseteq Devices /\ busy \subseteq Devices
          /\ surf \in [Devices -> Conns \cup {None}]
          /\ deferred \in [Devices -> SUBSET Notifs]
      BY <1>1 DEF TypeOK
    <2>2. CASE UNCHANGED gate
      BY <2>1, <2>2 DEF gate
    <2>3. CASE Attach(k)
      BY <1>3, <2>1, <2>3 DEF Attach
    <2>4. CASE Register(k) \/ Unregister(k)
      BY <1>3, <2>1, <2>4 DEF Register, Unregister
    <2>5. CASE Pause(k)
      BY <2>1, <2>5 DEF Pause
    <2> QED
      BY <2>2, <2>3, <2>4, <2>5
      DEF ConnStep, NothingQueued, Drain, RequeueDrop, FindSession, Replay,
          ReplayOne, RequeueCount, RequeueInsert, ReplayDone
  <1>6. /\ queue' \subseteq Frame /\ nextRow' \in Nat /\ IsFiniteSet(queue')
        /\ lost' \subseteq Notifs /\ shown' \in [Notifs -> 0..2]
    <2>1. /\ queue \subseteq Frame /\ nextRow \in Nat /\ lost \subseteq Notifs
          /\ shown \in [Notifs -> 0..2] /\ deferred \in [Devices -> SUBSET Notifs]
      BY <1>1 DEF TypeOK
    <2>2. CASE UNCHANGED <<rows, shown, lost>>
      BY <1>1, <2>1, <2>2 DEF rows
    <2>3. CASE Register(k) \/ Unregister(k)
      BY <1>1, <1>3, <2>1, <2>3 DEF Register, Unregister, rows
    <2>4. CASE Drain(k)
      <3>1. queue' \in SUBSET queue
        BY <2>4 DEF Drain
      <3>2. IsFiniteSet(queue')
        BY <1>1, <3>1, FS_Subset
      <3> QED BY <2>1, <2>4, <3>1, <3>2 DEF Drain
    <2>5. CASE ReplayOne(k)
      <3>1. First(k).notif \in Notifs
        BY <2>5, FirstInHand DEF ReplayOne, Frame
      <3>2. WriteCard(conn[k].surface, First(k).notif)
        BY <2>5 DEF ReplayOne
      <3>3. shown' \in [Notifs -> 0..2] /\ lost' \subseteq Notifs
        BY <1>1, <3>1, <3>2, WriteTyped
      <3> QED BY <1>1, <2>1, <2>5, <3>3 DEF ReplayOne, rows
    <2>6. CASE RequeueDrop(k)
      BY <1>1, <2>1, <2>6, DropTyped DEF RequeueDrop
    <2>7. CASE RequeueInsert(k)
      <3>1. conn[k].hand # {}
        BY <2>7 DEF RequeueInsert, Typed, Shape
      <3>2. First(k).notif \in Notifs
        BY <3>1, FirstInHand DEF Frame
      <3>3. InsertFrame(conn[k].dev, First(k).notif)
        BY <2>7 DEF RequeueInsert
      <3>4. queue' \subseteq Frame /\ nextRow' \in Nat /\ IsFiniteSet(queue')
        BY <1>1, <1>3, <3>2, <3>3, InsertTyped
      <3> QED BY <2>1, <2>7, <3>4 DEF RequeueInsert
    <2> QED
      BY <2>2, <2>3, <2>4, <2>5, <2>6, <2>7
      DEF ConnStep, Attach, NothingQueued, FindSession, Replay, RequeueCount,
          ReplayDone, Pause
  <1>8. TypeOK'
    BY <1>1, <1>2, <1>4, <1>5, <1>6 DEF TypeOK
  <1>9. Shape'
    <2>1. \A j \in Conns : conn'[j].pc \in {"recount", "redrop"} => conn'[j].hand # {}
      BY ConnStepShape DEF Typed, Shape
    <2> QED BY <1>3, <1>4, <1>6, <2>1 DEF Typed, Shape
  <1> QED BY <1>8, <1>9 DEF Typed

LEMMA ConnEventTyped ==
    ASSUME Typed, NEW k \in Conns, ConnEvent(k)
    PROVE  Typed'
  <1>1. conn \in [Conns -> Conn] /\ connects \in Nat
    BY DEF Typed, TypeOK
  <1>2. /\ conn' \in [Conns -> Conn] /\ connects' \in Nat
        /\ \A j \in Conns :
              /\ conn'[j].pc # "closed" => conn'[j].dev \in Devices
              /\ conn'[j].pc \in {"recount", "redrop"} => conn'[j].hand # {}
    <2>1. CASE Drop(k)
      <3>1. conn' = [conn EXCEPT ![k].open = FALSE] /\ connects' = connects
        BY <2>1 DEF Drop
      <3>2. \A j \in Conns : /\ conn'[j].pc = conn[j].pc /\ conn'[j].dev = conn[j].dev
                             /\ conn'[j].hand = conn[j].hand
        BY <1>1, <3>1 DEF Conn
      <3>3. conn' \in [Conns -> Conn]
        BY <1>1, <3>1 DEF Conn
      <3> QED BY <1>1, <3>1, <3>2, <3>3 DEF Typed, Shape
    <2>2. ASSUME NEW d \in Devices, Connect(k, d)
          PROVE  /\ conn' \in [Conns -> Conn] /\ connects' \in Nat
                 /\ \A j \in Conns :
                      /\ conn'[j].pc # "closed" => conn'[j].dev \in Devices
                      /\ conn'[j].pc \in {"recount", "redrop"} => conn'[j].hand # {}
      <3> DEFINE new == [ClosedConn EXCEPT !.pc = "evicted", !.dev = d, !.open = TRUE]
      <3>1. new \in Conn /\ new.pc = "evicted" /\ new.dev = d
        BY DEF Conn, ConnPc, ClosedConn
      <3>2. \A j \in Conns :
              /\ [conn[j] EXCEPT !.open = FALSE] \in Conn
              /\ [conn[j] EXCEPT !.open = FALSE].pc = conn[j].pc
              /\ [conn[j] EXCEPT !.open = FALSE].dev = conn[j].dev
              /\ [conn[j] EXCEPT !.open = FALSE].hand = conn[j].hand
        BY <1>1 DEF Conn
      <3>3. /\ conn' = [j \in Conns |->
                 IF j = k THEN new
                 ELSE IF conn[j].dev = d /\ conn[j].pc \in Registered
                      THEN [conn[j] EXCEPT !.open = FALSE] ELSE conn[j]]
            /\ connects' = connects - 1 /\ connects > 0
        BY <2>2 DEF Connect
      <3> HIDE DEF new
      <3>4. conn' \in [Conns -> Conn]
        BY <1>1, <3>1, <3>2, <3>3
      <3>5. \A j \in Conns : \/ conn'[j] = new
                             \/ /\ conn'[j].pc = conn[j].pc
                                /\ conn'[j].dev = conn[j].dev
                                /\ conn'[j].hand = conn[j].hand
        BY <1>1, <3>2, <3>3
      <3> QED BY <1>1, <3>1, <3>3, <3>4, <3>5 DEF Typed, Shape
    <2> QED BY <2>1, <2>2 DEF ConnEvent
  <1>3. UNCHANGED <<now, up, bootAt, todo, status, fireAt, queue, nextRow, taskOf,
                    task, req, sess, surf, busy, deferred, handed, shown, lost,
                    acked, requests, exits>>
    BY DEF ConnEvent, Drop, Connect, ConnFrame, process, rows, gate
  <1>4. TypeOK'
    BY <1>2, <1>3 DEF Typed, TypeOK
  <1>5. Shape'
    BY <1>2, <1>3 DEF Typed, Shape
  <1> QED BY <1>4, <1>5 DEF Typed

LEMMA TurnStepTyped ==
    ASSUME Typed, NEW d \in Devices, TurnStep(d)
    PROVE  Typed'
  <1>1. /\ busy \subseteq Devices /\ deferred \in [Devices -> SUBSET Notifs]
        /\ shown \in [Notifs -> 0..2] /\ lost \subseteq Notifs
    BY DEF Typed, TypeOK
  <1>2. /\ busy' \subseteq Devices /\ deferred' \in [Devices -> SUBSET Notifs]
        /\ shown' \in [Notifs -> 0..2] /\ lost' \subseteq Notifs
    <2>1. CASE TurnStart(d) \/ Discard(d)
      BY <1>1, <2>1 DEF TurnStart, Discard
    <2>2. CASE TurnEnd(d)
      <3>1. CASE conn[surf[d]].open
        BY <1>1, <2>2, <3>1 DEF TurnEnd
      <3>2. CASE ~conn[surf[d]].open
        BY <1>1, <2>2, <3>2 DEF TurnEnd
      <3> QED BY <3>1, <3>2
    <2> QED BY <2>1, <2>2 DEF TurnStep
  <1>3. UNCHANGED <<process, db, taskOf, task, req, conn, sess, surf, handed,
                    acked, bounds>>
    BY DEF TurnStep
  <1>4. TypeOK'
    BY <1>2, <1>3 DEF Typed, TypeOK, process, db, rows, bounds
  <1>5. Shape'
    BY <1>3 DEF Typed, Shape, db, rows
  <1> QED BY <1>4, <1>5 DEF Typed

-----------------------------------------------------------------------------
(* The process.                                                            *)

LEMMA BootTyped ==
    ASSUME Typed, Boot
    PROVE  Typed'
  <1>1. CASE BootList
    BY <1>1 DEF BootList, Typed, TypeOK, Shape, db, rows, history, bounds
  <1>2. CASE BootDone
    BY <1>2 DEF BootDone, Typed, TypeOK, Shape, db, rows, gate, history, bounds
  <1>3. ASSUME NEW n \in Notifs, BootFail(n)
        PROVE  Typed'
    <2>1. status' \in [Notifs -> Statuses]
      BY <1>3, StatusType DEF Typed, TypeOK, BootFail, Statuses
    <2> QED
      BY <1>3, <2>1 DEF BootFail, Typed, TypeOK, Shape, gate, history, bounds
  <1>4. ASSUME NEW n \in Notifs, BootArm(n)
        PROVE  Typed'
    <2>1. fireAt[n] \in Nat /\ Spawn(n, fireAt[n])
      BY <1>4 DEF Typed, TypeOK, BootArm
    <2>2. /\ task' \in [Tasks -> Task]
          /\ taskOf' \in [Notifs -> Tasks \cup {None}]
          /\ \A t \in Tasks : task'[t].pc # "idle" => task'[t].notif \in Notifs
          /\ \A t \in Tasks :
                task'[t].pc \in {"lookup", "count", "drop", "insert", "send"}
                   => DeviceOf[task'[t].notif] \in Devices
      BY <2>1, SpawnTyped
    <2> QED
      BY <1>4, <2>2
      DEF BootArm, Typed, TypeOK, Shape, db, rows, gate, history, bounds
  <1> QED BY <1>1, <1>2, <1>3, <1>4 DEF Boot

LEMMA ShutdownTyped ==
    ASSUME Typed, Shutdown
    PROVE  Typed'
  <1>1. task \in [Tasks -> Task]
    BY DEF Typed, TypeOK
  <1>2. \A t \in Tasks : /\ [task[t] EXCEPT !.cancel = TRUE] \in Task
                         /\ [task[t] EXCEPT !.cancel = TRUE].pc = task[t].pc
                         /\ [task[t] EXCEPT !.cancel = TRUE].notif = task[t].notif
    BY <1>1 DEF Task
  <1>3. /\ task' \in [Tasks -> Task]
        /\ \A t \in Tasks : task'[t].pc = task[t].pc /\ task'[t].notif = task[t].notif
    BY <1>1, <1>2 DEF Shutdown
  <1>4. /\ up' = "stopping"
        /\ UNCHANGED <<now, bootAt, todo, db, taskOf, req, conn, gate, history, bounds>>
    BY DEF Shutdown
  <1>5. TypeOK'
    BY <1>3, <1>4 DEF Typed, TypeOK, db, rows, gate, history, bounds
  <1>6. Shape'
    BY <1>3, <1>4 DEF Typed, Shape, db, rows
  <1> QED BY <1>5, <1>6 DEF Typed

LEMMA ExitTyped ==
    ASSUME Typed, Exit
    PROVE  Typed'
  <1>1. /\ IdleTask \in Task /\ IdleTask.pc = "idle"
        /\ IdleReq \in Req /\ IdleReq.pc = "idle"
        /\ ClosedConn \in Conn /\ ClosedConn.pc = "closed"
    BY DEF IdleTask, Task, IdleReq, Req, ClosedConn, Conn, ConnPc
  <1>2. /\ task' = [t \in Tasks |-> IdleTask] /\ req' = [r \in Requests |-> IdleReq]
        /\ conn' = [k \in Conns |-> ClosedConn]
        /\ taskOf' = [n \in Notifs |-> None]
        /\ surf' = [d \in Devices |-> None]
        /\ deferred' = [d \in Devices |-> {}] /\ busy' = {}
        /\ up' = "down" /\ bootAt' = 0 /\ todo' = {}
    BY DEF Exit
  <1>3. lost' \subseteq Notifs
    <2>1. \A k \in Conns : NotifsOf(conn[k].hand) \subseteq Notifs
      BY DEF Typed, TypeOK, Conn, NotifsOf, Frame
    <2>2. \A d \in Devices : deferred[d] \subseteq Notifs
      BY DEF Typed, TypeOK
    <2>3. UNION {NotifsOf(conn[k].hand) : k \in Conns} \subseteq Notifs
      BY <2>1
    <2>4. UNION {deferred[d] : d \in Devices} \subseteq Notifs
      BY <2>2
    <2>5. lost \subseteq Notifs
      BY DEF Typed, TypeOK
    <2> QED BY <2>3, <2>4, <2>5 DEF Exit
  <1>4. exits' \in Nat
    BY DEF Exit, Typed, TypeOK
  <1>5. UNCHANGED <<now, db, sess, handed, shown, acked, requests, connects>>
    BY DEF Exit
  <1>6. TypeOK'
    BY <1>1, <1>2, <1>3, <1>4, <1>5 DEF Typed, TypeOK, db, rows
  <1>7. Shape'
    BY <1>1, <1>2, <1>5 DEF Typed, Shape, db, rows
  <1> QED BY <1>6, <1>7 DEF Typed

LEMMA TypedNext == Typed /\ [Next]_vars => Typed'
  <1> SUFFICES ASSUME Typed, [Next]_vars
               PROVE  Typed'
    OBVIOUS
  <1>1. CASE Tick
    BY <1>1 DEF Tick, Typed, TypeOK, Shape, db, rows, gate, history, bounds
  <1>2. CASE UNCHANGED vars
    BY <1>2 DEF vars, process, Typed, TypeOK, Shape, db, rows, gate, history, bounds
  <1> QED
    BY <1>1, <1>2, TaskStepTyped, ReqStepTyped, ReqCallTyped, ConnStepTyped,
       ConnEventTyped, TurnStepTyped, BootTyped, ShutdownTyped, ExitTyped
    DEF Next

LEMMA AlwaysTyped == Spec => []Typed
  BY TypedInit, TypedNext, PTL DEF Spec

\* Whatever the sizes of the sets and the bounds, every variable keeps its
\* type: in particular no frame is put in the queue, and no card handed out,
\* for a reminder that does not exist or a device nobody named.
THEOREM TypeCorrect == Spec => []TypeOK
  <1>1. Typed => TypeOK
    BY DEF Typed
  <1> QED BY <1>1, AlwaysTyped, PTL

-----------------------------------------------------------------------------
(* A fired reminder has left the scheduler.                                *)

\* The invariant behind FiredWasHanded: by the time a task is past the card's
\* delivery it has recorded it.
HandedFirst ==
    /\ FiredWasHanded
    /\ \A t \in Tasks : task[t].pc \in {"insert", "send"} => task[t].notif \in handed

LEMMA HandedFirstNext ==
    ASSUME Typed, HandedFirst, [Next]_vars
    PROVE  HandedFirst'
  <1>1. /\ task \in [Tasks -> Task] /\ status \in [Notifs -> Statuses]
        /\ handed \subseteq Notifs /\ DeviceOf \in [Notifs -> Devices \cup {None}]
    BY ConstantsAssumption DEF Typed, TypeOK
  <1>2. \A t \in Tasks : task[t].pc # "idle" => task[t].notif \in Notifs
    BY DEF Typed, Shape
  <1>3. ASSUME NEW t \in Tasks, TaskStep(t)
        PROVE  HandedFirst'
    <2>1. handed \subseteq handed'
      BY <1>3 DEF TaskStep, CancelNew, Start, Cancelled, Wake, Raced, Broadcast,
         LookUp, GoOffline, Defer, SendCard, DropForRoom, Enqueue, MarkFired, Done,
         cards
    <2>2. \A u \in Tasks : u # t => task'[u] = task[u]
      BY <1>1, <1>3 DEF TaskStep, CancelNew, Start, Cancelled, Wake, Raced, Broadcast,
         LookUp, GoOffline, Defer, SendCard, DropForRoom, Enqueue, MarkFired, Done,
         Finish
    <2>3. task'[t].pc \in {"insert", "send"} => task'[t].notif \in handed'
      <3>1. CASE Defer(t)
        BY <1>1, <3>1 DEF Defer, Task
      <3>2. CASE SendCard(t)
        BY <1>1, <3>2 DEF SendCard, Task
      <3>3. CASE Enqueue(t)
        BY <1>1, <3>3 DEF Enqueue, Task
      <3>4. CASE MarkFired(t) \/ Broadcast(t) \/ LookUp(t) \/ GoOffline(t)
                 \/ DropForRoom(t) \/ Start(t) \/ Wake(t)
        BY <1>1, <3>4 DEF MarkFired, Broadcast, LookUp, GoOffline, DropForRoom,
                          Start, Wake, Task
      <3>5. CASE CancelNew(t) \/ Cancelled(t) \/ Raced(t) \/ Done(t)
        BY <1>1, <3>5 DEF CancelNew, Cancelled, Raced, Done, Finish, IdleTask
      <3> QED BY <1>3, <3>1, <3>2, <3>3, <3>4, <3>5 DEF TaskStep
    <2>4. \A n \in Notifs : status'[n] = "fired" /\ DeviceOf[n] # None => n \in handed'
      <3>1. CASE Defer(t) \/ SendCard(t)
        BY <1>1, <1>2, <2>1, <3>1
        DEF Defer, SendCard, SetIfPending, Set, HandedFirst, FiredWasHanded
      <3>2. CASE MarkFired(t)
        BY <1>1, <1>2, <2>1, <3>2
        DEF MarkFired, Awaiting, SetIfPending, Set, HandedFirst, FiredWasHanded
      <3>3. CASE Broadcast(t)
        BY <1>1, <1>2, <2>1, <3>3
        DEF Broadcast, SetIfPending, Set, HandedFirst, FiredWasHanded
      <3>4. CASE status' = status
        BY <2>1, <3>4 DEF HandedFirst, FiredWasHanded
      <3> QED
        BY <1>3, <3>1, <3>2, <3>3, <3>4
        DEF TaskStep, CancelNew, Start, Cancelled, Wake, Raced, LookUp, GoOffline,
            DropForRoom, Enqueue, Done
    <2> QED BY <2>1, <2>2, <2>3, <2>4 DEF HandedFirst, FiredWasHanded
  <1>4. ASSUME handed' = handed,
               \A n \in Notifs : status'[n] = "fired" => status[n] = "fired",
               \A t \in Tasks : task'[t].pc \in {"insert", "send"}
                   => task[t].pc = task'[t].pc /\ task[t].notif = task'[t].notif
        PROVE  HandedFirst'
    BY <1>4 DEF HandedFirst, FiredWasHanded
  <1>5. ASSUME NEW n \in Notifs, NEW at \in Nat, Spawn(n, at)
        PROVE  \A t \in Tasks : task'[t].pc \in {"insert", "send"} =>
                   task[t].pc = task'[t].pc /\ task[t].notif = task'[t].notif
    <2>1. PICK t \in Tasks : task' = [task EXCEPT ![t] = [IdleTask EXCEPT !.pc = "new",
                                          !.notif = n, !.at = at]]
      BY <1>5 DEF Spawn, FreeTasks
    <2> QED BY <1>1, <2>1 DEF IdleTask
  <1>6. ASSUME NEW r \in Requests, ReqStep(r) \/ ReqCall(r)
        PROVE  HandedFirst'
    <2>1. handed' = handed
      BY <1>6 DEF ReqStep, ReqCall
    <2>2. \A n \in Notifs : status'[n] = "fired" => status[n] = "fired"
      BY <1>1, <1>6 DEF ReqStep, ReqCall, Reject, Create, Arm, Refused, CancelTask,
         EndCancel, EndMove, Cancel, Schedule, Reschedule, SetIfPending, Set
    <2>3. \A t \in Tasks : task'[t].pc \in {"insert", "send"} =>
              task[t].pc = task'[t].pc /\ task[t].notif = task'[t].notif
      <3>1. CASE task' = task
        BY <3>1
      <3>2. CASE CancelTask(r)
        BY <1>1, <3>2 DEF CancelTask, Task
      <3>3. CASE Arm(r) \/ EndMove(r)
        <4>1. req[r].notif \in Notifs /\ req[r].at \in Nat
          BY <3>3 DEF Arm, EndMove, Typed, TypeOK, Shape, Req
        <4> QED BY <1>5, <3>3, <4>1 DEF Arm, EndMove
      <3> QED
        BY <1>6, <3>1, <3>2, <3>3
        DEF ReqStep, ReqCall, Reject, Create, Refused, EndCancel, Cancel, Schedule,
            Reschedule
    <2> QED BY <1>4, <2>1, <2>2, <2>3
  <1>7. ASSUME UNCHANGED <<handed, status, task>>
        PROVE  HandedFirst'
    BY <1>4, <1>7
  <1>8. CASE Boot
    <2>1. ASSUME NEW n \in Notifs, BootFail(n)
          PROVE  HandedFirst'
      <3>1. handed' = handed /\ task' = task
        BY <2>1 DEF BootFail, history
      <3>2. \A m \in Notifs : status'[m] = "fired" => status[m] = "fired"
        BY <1>1, <2>1 DEF BootFail, SetIfPending, Set
      <3> QED BY <1>4, <3>1, <3>2
    <2>2. ASSUME NEW n \in Notifs, BootArm(n)
          PROVE  HandedFirst'
      <3>1. handed' = handed /\ status' = status /\ Spawn(n, fireAt[n])
        BY <2>2 DEF BootArm, history, db
      <3>2. fireAt[n] \in Nat
        BY DEF Typed, TypeOK
      <3> QED BY <1>4, <1>5, <3>1, <3>2
    <2>3. CASE BootList \/ BootDone
      BY <1>7, <2>3 DEF BootList, BootDone, db, history
    <2> QED BY <1>8, <2>1, <2>2, <2>3 DEF Boot
  <1>9. CASE Shutdown
    <2>1. \A t \in Tasks : task'[t].pc = task[t].pc /\ task'[t].notif = task[t].notif
      BY <1>1, <1>9 DEF Shutdown, Task
    <2> QED BY <1>4, <1>9, <2>1 DEF Shutdown, db, history
  <1>10. CASE Exit
    BY <1>4, <1>10 DEF Exit, IdleTask, db
  <1>11. CASE Tick \/ UNCHANGED vars
    BY <1>7, <1>11 DEF Tick, vars, db, history
  <1>12. ASSUME NEW k \in Conns, ConnStep(k) \/ ConnEvent(k)
         PROVE  HandedFirst'
    BY <1>7, <1>12 DEF ConnStep, ConnEvent, ConnFrame
  <1>13. ASSUME NEW d \in Devices, TurnStep(d)
         PROVE  HandedFirst'
    BY <1>7, <1>13 DEF TurnStep, db
  <1> QED
    BY <1>3, <1>6, <1>8, <1>9, <1>10, <1>11, <1>12, <1>13 DEF Next

\* A reminder that names a device is marked fired in the table only after its
\* card was handed to a surface, to the turn gate or to the offline queue,
\* whatever is cancelled or rescheduled meanwhile and wherever the process dies.
THEOREM FiredIsHanded == Spec => []FiredWasHanded
  <1>1. Init => HandedFirst
    BY DEF Init, HandedFirst, FiredWasHanded, IdleTask
  <1>2. Typed /\ HandedFirst /\ [Next]_vars => HandedFirst'
    BY HandedFirstNext
  <1>3. HandedFirst => FiredWasHanded
    BY DEF HandedFirst
  <1> QED BY <1>1, <1>2, <1>3, AlwaysTyped, PTL DEF Spec

-----------------------------------------------------------------------------
(* The caps.                                                               *)

\* A subset of a finite set with one element more, or one less.
LEMMA OneMore ==
    ASSUME NEW S, NEW x, IsFiniteSet(S), NEW T \in SUBSET (S \cup {x})
    PROVE  Cardinality(T) <= Cardinality(S) + 1
  <1>1. /\ IsFiniteSet(S \cup {x})
        /\ Cardinality(S \cup {x}) = IF x \in S THEN Cardinality(S)
                                                ELSE Cardinality(S) + 1
    BY FS_AddElement
  <1>2. Cardinality(T) <= Cardinality(S \cup {x}) /\ IsFiniteSet(T)
    BY <1>1, FS_Subset
  <1>3. Cardinality(S) \in Nat /\ Cardinality(T) \in Nat
    BY <1>2, FS_CardinalityType
  <1> QED BY <1>1, <1>2, <1>3

LEMMA OneLess ==
    ASSUME NEW S, NEW x \in S, IsFiniteSet(S), NEW T \in SUBSET (S \ {x})
    PROVE  Cardinality(T) + 1 <= Cardinality(S)
  <1>1. IsFiniteSet(S \ {x}) /\ Cardinality(S \ {x}) = Cardinality(S) - 1
    BY FS_RemoveElement
  <1>2. Cardinality(T) <= Cardinality(S \ {x}) /\ IsFiniteSet(T)
    BY <1>1, FS_Subset
  <1>3. Cardinality(S) \in Nat /\ Cardinality(T) \in Nat
    BY <1>2, FS_CardinalityType
  <1> QED BY <1>1, <1>2, <1>3

\* The size of a part of a finite constant.
LEMMA PartSize ==
    ASSUME NEW S \in {Notifs, Devices, Tasks, Requests, Conns}, NEW T \in SUBSET S
    PROVE  /\ IsFiniteSet(T)
           /\ Cardinality(T) \in Nat /\ Cardinality(S) \in Nat
           /\ Cardinality(T) <= Cardinality(S)
  <1>1. IsFiniteSet(S)
    BY ConstantsAssumption
  <1>2. IsFiniteSet(T) /\ Cardinality(T) <= Cardinality(S)
    BY <1>1, FS_Subset
  <1> QED BY <1>1, <1>2, FS_CardinalityType

\* The calls that have counted and will insert.
Counters(d) == {r \in Requests : /\ req[r].pc = "count"
                                 /\ DeviceOf[req[r].notif] = d
                                 /\ req[r].count < RunawayCap}

\* No reminder becomes pending and no call passes the count.
NoneAdded == \A d \in Devices : /\ Pending(d)' \subseteq Pending(d)
                                /\ Counters(d)' \subseteq Counters(d)

LEMMA NoneAddedBound ==
    ASSUME PendingBound, NEW d \in Devices, Pending(d)' \subseteq Pending(d),
           Counters(d)' \subseteq Counters(d)
    PROVE  Cardinality(Pending(d)') + Cardinality(Counters(d)')
               <= RunawayCap - 1 + Cardinality(Requests)
  <1>1. /\ Pending(d) \subseteq Notifs /\ Pending(d)' \subseteq Notifs
        /\ Counters(d) \subseteq Requests /\ Counters(d)' \subseteq Requests
    BY DEF Pending, Counters
  <1>2. /\ IsFiniteSet(Pending(d)) /\ Cardinality(Pending(d)) \in Nat
        /\ Cardinality(Pending(d)') \in Nat
        /\ IsFiniteSet(Counters(d)) /\ Cardinality(Counters(d)) \in Nat
        /\ Cardinality(Counters(d)') \in Nat /\ Cardinality(Requests) \in Nat
    BY <1>1, PartSize
  <1>3. /\ Cardinality(Pending(d)') <= Cardinality(Pending(d))
        /\ Cardinality(Counters(d)') <= Cardinality(Counters(d))
    BY <1>2, FS_Subset
  <1>4. Cardinality(Pending(d)) + Cardinality(Counters(d))
            <= RunawayCap - 1 + Cardinality(Requests)
    BY DEF PendingBound, Counters
  <1> QED BY <1>2, <1>3, <1>4, ConstantsAssumption

\* The INSERT trades a counter for a pending row.
LEMMA CreateBound ==
    ASSUME Typed, PendingBound, NEW r \in Requests, Create(r), NEW d \in Devices
    PROVE  Cardinality(Pending(d)') + Cardinality(Counters(d)')
               <= RunawayCap - 1 + Cardinality(Requests)
  <1> DEFINE n == req[r].notif
  <1>1. /\ req \in [Requests -> Req] /\ status \in [Notifs -> Statuses]
        /\ n \in Notifs /\ req[r].pc = "count" /\ req[r].count < RunawayCap
        /\ status' = [status EXCEPT ![n] = "pending"]
        /\ req' = [req EXCEPT ![r].pc = "create"]
    BY DEF Typed, TypeOK, Shape, Create, Set
  <1>2. /\ \A m \in Notifs : m # n => status'[m] = status[m]
        /\ req'[r].pc = "create"
        /\ \A s \in Requests : s # r => req'[s] = req[s]
    BY <1>1 DEF Req
  <1>3. Counters(d)' \subseteq Counters(d) \ {r}
    BY <1>2 DEF Counters
  <1>4. CASE DeviceOf[n] # d
    <2>1. Pending(d)' \subseteq Pending(d)
      BY <1>2, <1>4 DEF Pending
    <2> QED BY <1>3, <2>1, NoneAddedBound
  <1>5. CASE DeviceOf[n] = d
    <2>1. r \in Counters(d)
      BY <1>1, <1>5 DEF Counters
    <2>2. Pending(d)' \subseteq Pending(d) \cup {n}
      BY <1>2 DEF Pending
    <2>3. /\ Pending(d) \subseteq Notifs /\ Pending(d)' \subseteq Notifs
          /\ Counters(d) \subseteq Requests /\ Counters(d)' \subseteq Requests
      BY DEF Pending, Counters
    <2>4. /\ IsFiniteSet(Pending(d)) /\ Cardinality(Pending(d)) \in Nat
          /\ Cardinality(Pending(d)') \in Nat
          /\ IsFiniteSet(Counters(d)) /\ Cardinality(Counters(d)) \in Nat
          /\ Cardinality(Counters(d)') \in Nat /\ Cardinality(Requests) \in Nat
      BY <2>3, PartSize
    <2>5. Cardinality(Pending(d)') <= Cardinality(Pending(d)) + 1
      BY <2>2, <2>4, OneMore
    <2>6. Cardinality(Counters(d)') + 1 <= Cardinality(Counters(d))
      BY <1>3, <2>1, <2>4, OneLess
    <2>7. Cardinality(Pending(d)) + Cardinality(Counters(d))
              <= RunawayCap - 1 + Cardinality(Requests)
      BY DEF PendingBound, Counters
    <2> QED BY <2>4, <2>5, <2>6, <2>7, ConstantsAssumption
  <1> QED BY <1>4, <1>5

\* A call that passes the count has seen fewer rows than the cap, and all the
\* callers together are the rest of the bound.
LEMMA ScheduleBound ==
    ASSUME Typed, PendingBound, NEW r \in Requests, NEW n \in Notifs, NEW at,
           Schedule(r, n, at), NEW d \in Devices
    PROVE  Cardinality(Pending(d)') + Cardinality(Counters(d)')
               <= RunawayCap - 1 + Cardinality(Requests)
  <1> DEFINE c == Cardinality(Pending(DeviceOf[n]))
             p == IF DeviceOf[n] = None THEN "create" ELSE "count"
             q == [IdleReq EXCEPT !.pc = p, !.notif = n, !.at = at, !.count = c]
  <1>1. /\ req \in [Requests -> Req] /\ status \in [Notifs -> Statuses]
        /\ req' = [req EXCEPT ![r] = q]
    BY DEF Typed, TypeOK, Schedule
  <1>2. q.pc = p /\ q.notif = n /\ q.count = c
    <2> HIDE DEF c, p
    <2> QED BY DEF IdleReq
  <1>3. \A s \in Requests : req'[s] = IF s = r THEN q ELSE req[s]
    <2> HIDE DEF q
    <2> QED BY <1>1
  <1>4. \A m \in Notifs : m # n => status'[m] = status[m]
    BY <1>1 DEF Schedule, Set
  <1>5. d # None
    BY ConstantsAssumption
  <1> HIDE DEF q, c
  <1>6. CASE DeviceOf[n] # d
    <2>1. Pending(d)' \subseteq Pending(d)
      BY <1>4, <1>6 DEF Pending
    <2>2. Counters(d)' \subseteq Counters(d)
      BY <1>2, <1>3, <1>6 DEF Counters
    <2> QED BY <2>1, <2>2, NoneAddedBound
  <1>7. CASE DeviceOf[n] = d
    <2>1. Pending(d)' = Pending(d)
      BY <1>5, <1>7 DEF Schedule, Pending
    <2>2. CASE c >= RunawayCap
      <3>1. c \in Nat
        BY PartSize DEF c, Pending
      <3>2. Counters(d)' \subseteq Counters(d)
        BY <1>2, <1>3, <2>2, <3>1, ConstantsAssumption DEF Counters
      <3> QED BY <2>1, <3>2, NoneAddedBound
    <2>3. CASE ~(c >= RunawayCap)
      <3>1. /\ c = Cardinality(Pending(d)') /\ c \in Nat
            /\ Cardinality(Counters(d)') \in Nat /\ Cardinality(Requests) \in Nat
            /\ Cardinality(Counters(d)') <= Cardinality(Requests)
        BY <1>7, <2>1, PartSize DEF c, Pending, Counters
      <3> QED BY <2>3, <3>1, ConstantsAssumption
    <2> QED BY <2>2, <2>3
  <1> QED BY <1>6, <1>7

\* Every other step adds none.
LEMMA OthersAddNone ==
    ASSUME Typed, [Next]_vars,
           \A r \in Requests : ~Create(r),
           \A r \in Requests, n \in Notifs, at \in now..MaxTime : ~Schedule(r, n, at)
    PROVE  NoneAdded
  <1>1. /\ status \in [Notifs -> Statuses] /\ req \in [Requests -> Req]
    BY DEF Typed, TypeOK
  <1>2. ASSUME NEW n, NEW s \in {"fired", "cancelled", "failed"}, SetIfPending(n, s)
        PROVE  \A d \in Devices : Pending(d)' \subseteq Pending(d)
    BY <1>1, <1>2 DEF SetIfPending, Set, Pending
  <1>3. ASSUME \/ status' = status
               \/ \E n, s : s \in {"fired", "cancelled", "failed"} /\ SetIfPending(n, s),
               \A r \in Requests :
                   req'[r].pc = "count" =>
                       /\ req[r].pc = "count" /\ req'[r].notif = req[r].notif
                       /\ req'[r].count = req[r].count
        PROVE  NoneAdded
    <2>1. \A d \in Devices : Pending(d)' \subseteq Pending(d)
      <3>1. CASE status' = status
        BY <3>1 DEF Pending
      <3> QED BY <1>2, <1>3, <3>1
    <2>2. \A d \in Devices : Counters(d)' \subseteq Counters(d)
      BY <1>3 DEF Counters
    <2> QED BY <2>1, <2>2 DEF NoneAdded
  <1>4. ASSUME NEW t \in Tasks, TaskStep(t)
        PROVE  NoneAdded
    <2>1. status' = status \/ SetIfPending(task[t].notif, "fired")
      BY <1>4 DEF TaskStep, CancelNew, Start, Cancelled, Wake, Raced, Broadcast, LookUp,
        GoOffline, Defer, SendCard, DropForRoom, Enqueue, MarkFired, Done, Finish
    <2>2. req' = req
      BY <1>4 DEF TaskStep
    <2> QED BY <1>3, <2>1, <2>2
  <1>5. ASSUME NEW r \in Requests, ReqStep(r)
        PROVE  NoneAdded
    <2>1. status' = status
      BY <1>5 DEF ReqStep, Reject, Arm, Refused, CancelTask, EndCancel, EndMove
    <2>2. CASE CancelTask(r)
      BY <1>1, <1>3, <2>1, <2>2 DEF CancelTask, Req
    <2>3. CASE Return(r)
      BY <1>1, <1>3, <2>1, <2>3, ReqReturn
    <2> QED BY <1>5, <2>2, <2>3 DEF ReqStep, Reject, Arm, Refused, EndCancel, EndMove
  <1>6. ASSUME NEW r \in Requests, ReqCall(r)
        PROVE  NoneAdded
    <2>1. PICK n \in Notifs : Cancel(r, n) \/ \E at \in now..MaxTime : Reschedule(r, n, at)
      BY <1>6 DEF ReqCall
    <2>2. CASE Cancel(r, n)
      <3>1. req'[r].pc # "count" /\ \A s \in Requests \ {r} : req'[s] = req[s]
        BY <1>1, <2>2 DEF Cancel, IdleReq
      <3> QED BY <1>3, <2>2, <3>1 DEF Cancel
    <2>3. CASE \E at \in now..MaxTime : Reschedule(r, n, at)
      <3>1. req'[r].pc # "count" /\ \A s \in Requests \ {r} : req'[s] = req[s]
        BY <1>1, <2>3 DEF Reschedule, IdleReq
      <3> QED BY <1>3, <2>3, <3>1 DEF Reschedule
    <2> QED BY <2>1, <2>2, <2>3
  <1>7. CASE Boot
    BY <1>3, <1>7 DEF Boot, BootList, BootDone, BootFail, BootArm, db
  <1>8. CASE Exit
    BY <1>3, <1>8 DEF Exit, IdleReq, db
  <1>9. CASE Tick \/ Shutdown \/ UNCHANGED vars
    BY <1>3, <1>9 DEF Tick, Shutdown, vars, db
  <1>10. ASSUME NEW k \in Conns, ConnStep(k) \/ ConnEvent(k)
         PROVE  NoneAdded
    BY <1>3, <1>10 DEF ConnStep, ConnEvent, ConnFrame
  <1>11. ASSUME NEW d \in Devices, TurnStep(d)
         PROVE  NoneAdded
    BY <1>3, <1>11 DEF TurnStep, db
  <1> QED
    BY <1>4, <1>5, <1>6, <1>7, <1>8, <1>9, <1>10, <1>11 DEF Next

\* The runaway cap is overshot by at most one reminder for every other caller,
\* however many calls there are and however they interleave: schedule() counts
\* in one statement and inserts in another.
THEOREM PendingIsBounded == Spec => []PendingBound
  <1>1. Init => PendingBound
    <2>1. ASSUME Init, NEW d \in Devices
          PROVE  Cardinality(Pending(d)) + Cardinality(Counters(d))
                     <= RunawayCap - 1 + Cardinality(Requests)
      <3>1. Pending(d) = {} /\ Counters(d) = {}
        BY <2>1 DEF Init, Pending, Counters, IdleReq
      <3> QED BY <3>1, FS_EmptySet, PartSize, ConstantsAssumption
    <2> QED BY <2>1 DEF PendingBound, Counters
  <1>2. Typed /\ PendingBound /\ [Next]_vars => PendingBound'
    <2> SUFFICES ASSUME Typed, PendingBound, [Next]_vars, NEW d \in Devices
                 PROVE  Cardinality(Pending(d)') + Cardinality(Counters(d)')
                            <= RunawayCap - 1 + Cardinality(Requests)
      BY DEF PendingBound, Counters
    <2>1. CASE \E r \in Requests : Create(r)
      BY <2>1, CreateBound
    <2>2. CASE \E r \in Requests, n \in Notifs, at \in now..MaxTime : Schedule(r, n, at)
      BY <2>2, ScheduleBound
    <2>3. CASE /\ \A r \in Requests : ~Create(r)
               /\ \A r \in Requests, n \in Notifs, at \in now..MaxTime :
                      ~Schedule(r, n, at)
      BY <2>3, OthersAddNone, NoneAddedBound DEF NoneAdded
    <2> QED BY <2>1, <2>2, <2>3
  <1> QED BY <1>1, <1>2, AlwaysTyped, PTL DEF Spec

-----------------------------------------------------------------------------
(* The cap of the offline queue.                                           *)

QueueLoad(d) == Cardinality(Queue(d)) + Cardinality(Writers(d))
                                      + Cardinality(Requeuers(d))
QueueRoom == QueueCap - 1 + Cardinality(Tasks) + Cardinality(Conns)

LEMMA LoadTyped ==
    ASSUME IsFiniteSet(queue), NEW d
    PROVE  /\ IsFiniteSet(Queue(d)) /\ Cardinality(Queue(d)) \in Nat
           /\ IsFiniteSet(Writers(d)) /\ Cardinality(Writers(d)) \in Nat
           /\ IsFiniteSet(Requeuers(d)) /\ Cardinality(Requeuers(d)) \in Nat
           /\ Cardinality(Writers(d)) <= Cardinality(Tasks)
           /\ Cardinality(Requeuers(d)) <= Cardinality(Conns)
           /\ Cardinality(Tasks) \in Nat /\ Cardinality(Conns) \in Nat
  <1>1. Writers(d) \subseteq Tasks /\ Requeuers(d) \subseteq Conns
    BY DEF Writers, Requeuers
  <1> QED BY <1>1, PartSize, QueueFinite

\* What the steps below say of the sets is enough to know their sizes.
LEMMA LoadPrimed ==
    ASSUME IsFiniteSet(queue'), NEW d
    PROVE  /\ IsFiniteSet(Queue(d)') /\ Cardinality(Queue(d)') \in Nat
           /\ IsFiniteSet(Writers(d)') /\ Cardinality(Writers(d)') \in Nat
           /\ IsFiniteSet(Requeuers(d)') /\ Cardinality(Requeuers(d)') \in Nat
           /\ Cardinality(Writers(d)') <= Cardinality(Tasks)
           /\ Cardinality(Requeuers(d)') <= Cardinality(Conns)
  <1>1. Writers(d)' \subseteq Tasks /\ Requeuers(d)' \subseteq Conns
    BY DEF Writers, Requeuers
  <1>2. Queue(d)' \subseteq queue'
    BY DEF Queue
  <1> QED BY <1>1, <1>2, PartSize, FS_Subset, FS_CardinalityType

LEMMA NoLoadBound ==
    ASSUME Typed, Typed', QueueBound, NEW d \in Devices,
           Queue(d)' \subseteq Queue(d), Writers(d)' \subseteq Writers(d),
           Requeuers(d)' \subseteq Requeuers(d)
    PROVE  QueueLoad(d)' <= QueueRoom
  <1>1. IsFiniteSet(queue) /\ IsFiniteSet(queue')
    BY DEF Typed, Shape
  <1>2. /\ Cardinality(Queue(d)') <= Cardinality(Queue(d))
        /\ Cardinality(Writers(d)') <= Cardinality(Writers(d))
        /\ Cardinality(Requeuers(d)') <= Cardinality(Requeuers(d))
    BY <1>1, LoadTyped, FS_Subset
  <1>3. QueueLoad(d) <= QueueRoom
    BY DEF QueueBound, QueueLoad, QueueRoom
  <1> QED
    BY <1>1, <1>2, <1>3, LoadTyped, LoadPrimed, ConstantsAssumption
    DEF QueueLoad, QueueRoom

\* A queue that was counted below the cap leaves all of the bound to the
\* writers, whoever they are.
LEMMA ShortQueueBound ==
    ASSUME Typed, Typed', NEW d \in Devices, Cardinality(Queue(d)') < QueueCap
    PROVE  QueueLoad(d)' <= QueueRoom
  <1>1. IsFiniteSet(queue) /\ IsFiniteSet(queue')
    BY DEF Typed, Shape
  <1>2. /\ Cardinality(Queue(d)') \in Nat
        /\ Cardinality(Writers(d)') \in Nat /\ Cardinality(Tasks) \in Nat
        /\ Cardinality(Requeuers(d)') \in Nat /\ Cardinality(Conns) \in Nat
        /\ Cardinality(Writers(d)') <= Cardinality(Tasks)
        /\ Cardinality(Requeuers(d)') <= Cardinality(Conns)
    BY <1>1, LoadTyped, LoadPrimed
  <1> QED BY <1>2, ConstantsAssumption DEF QueueLoad, QueueRoom

\* A writer's INSERT: a frame for a writer.
LEMMA InsertBound ==
    ASSUME Typed, Typed', QueueBound, NEW d \in Devices, NEW f,
           Queue(d)' \subseteq Queue(d) \cup {f},
           \/ /\ \E t \in Writers(d) : Writers(d)' \subseteq Writers(d) \ {t}
              /\ Requeuers(d)' \subseteq Requeuers(d)
           \/ /\ \E k \in Requeuers(d) : Requeuers(d)' \subseteq Requeuers(d) \ {k}
              /\ Writers(d)' \subseteq Writers(d)
    PROVE  QueueLoad(d)' <= QueueRoom
  <1>1. IsFiniteSet(queue) /\ IsFiniteSet(queue')
    BY DEF Typed, Shape
  <1>2. Cardinality(Queue(d)') <= Cardinality(Queue(d)) + 1
    BY <1>1, LoadTyped, OneMore
  <1>3. \/ /\ Cardinality(Writers(d)') + 1 <= Cardinality(Writers(d))
           /\ Cardinality(Requeuers(d)') <= Cardinality(Requeuers(d))
        \/ /\ Cardinality(Requeuers(d)') + 1 <= Cardinality(Requeuers(d))
           /\ Cardinality(Writers(d)') <= Cardinality(Writers(d))
    BY <1>1, LoadTyped, OneLess, FS_Subset
  <1>4. QueueLoad(d) <= QueueRoom
    BY DEF QueueBound, QueueLoad, QueueRoom
  <1> QED
    BY <1>1, <1>2, <1>3, <1>4, LoadTyped, LoadPrimed, ConstantsAssumption
    DEF QueueLoad, QueueRoom

\* A DELETE of at least one row, where there is one.
LEMMA OldestSome ==
    ASSUME Typed, NEW d, NEW c \in Nat, c >= QueueCap, Queue(d) # {}
    PROVE  \E f \in Queue(d) : f \in Oldest(d, c - QueueCap + 1)
  <1> DEFINE R == {f.row : f \in Queue(d)}
  <1>1. R \in SUBSET Nat /\ R # {}
    BY DEF Typed, TypeOK, Queue, Frame
  <1>2. PICK m \in R : \A i \in R : m <= i
    <2> HIDE DEF R
    <2> QED BY <1>1, LeastRow
  <1>3. PICK f \in Queue(d) : f.row = m
    BY <1>2
  <1>4. ASSUME NEW g \in Queue(d)
        PROVE  ~(g.row < f.row)
    <2>1. g.row \in R /\ f.row \in R
      OBVIOUS
    <2> HIDE DEF R
    <2>2. g.row \in Nat /\ f.row \in Nat /\ f.row <= g.row
      BY <1>1, <1>2, <1>3, <2>1
    <2> QED BY <2>2
  <1>5. {g \in Queue(d) : g.row < f.row} = {}
    BY <1>4
  <1>6. Cardinality({g \in Queue(d) : g.row < f.row}) = 0
    BY <1>5, FS_EmptySet
  <1>7. 0 < c - QueueCap + 1
    BY ConstantsAssumption
  <1> QED BY <1>6, <1>7 DEF Oldest

\* The DELETE makes a writer of the one that submitted it, and room for it.
LEMMA DropBound ==
    ASSUME Typed, Typed', QueueBound, NEW d \in Devices, NEW c \in Nat,
           c >= QueueCap, DropOldest(d, c),
           \/ /\ \E t : Writers(d)' \subseteq Writers(d) \cup {t}
              /\ Requeuers(d)' \subseteq Requeuers(d)
           \/ /\ \E k : Requeuers(d)' \subseteq Requeuers(d) \cup {k}
              /\ Writers(d)' \subseteq Writers(d)
    PROVE  QueueLoad(d)' <= QueueRoom
  <1>1. IsFiniteSet(queue) /\ IsFiniteSet(queue')
    BY DEF Typed, Shape
  <1>2. Queue(d)' = Queue(d) \ Oldest(d, c - QueueCap + 1)
    BY DEF DropOldest, Queue
  <1>3. CASE Queue(d) = {}
    <2>1. Cardinality(Queue(d)') = 0
      BY <1>2, <1>3, FS_EmptySet
    <2> QED BY <2>1, ShortQueueBound, ConstantsAssumption
  <1>4. CASE Queue(d) # {}
    <2>1. PICK f \in Queue(d) : Queue(d)' \subseteq Queue(d) \ {f}
      BY <1>2, <1>4, OldestSome
    <2>2. Cardinality(Queue(d)') + 1 <= Cardinality(Queue(d))
      BY <1>1, <2>1, LoadTyped, OneLess
    <2>3. \/ /\ Cardinality(Writers(d)') <= Cardinality(Writers(d)) + 1
             /\ Cardinality(Requeuers(d)') <= Cardinality(Requeuers(d))
          \/ /\ Cardinality(Requeuers(d)') <= Cardinality(Requeuers(d)) + 1
             /\ Cardinality(Writers(d)') <= Cardinality(Writers(d))
      BY <1>1, LoadTyped, OneMore, FS_Subset
    <2>4. QueueLoad(d) <= QueueRoom
      BY DEF QueueBound, QueueLoad, QueueRoom
    <2> QED
      BY <1>1, <2>2, <2>3, <2>4, LoadTyped, LoadPrimed, ConstantsAssumption
      DEF QueueLoad, QueueRoom
  <1> QED BY <1>3, <1>4

\* The steps of a task: those that count, make room or insert, and the others.
LEMMA TaskStepLoad ==
    ASSUME Typed, Typed', QueueBound, NEW t \in Tasks, TaskStep(t), NEW d \in Devices
    PROVE  QueueLoad(d)' <= QueueRoom
  <1> DEFINE e == DeviceOf[task[t].notif]
  <1>1. /\ task \in [Tasks -> Task] /\ conn' = conn
        /\ \A u \in Tasks \ {t} : task'[u] = task[u]
    BY TaskStepShape DEF Typed, TypeOK, TaskStep
  <1>2. Requeuers(d)' = Requeuers(d)
    BY <1>1 DEF Requeuers
  <1>3. Writers(d)' \subseteq Writers(d) \cup {t}
    BY <1>1 DEF Writers
  <1>4. ASSUME queue' = queue,
               \/ task'[t].pc \notin {"count", "drop"}
               \/ task'[t].pc = "count" /\ task'[t].count >= QueueCap
               \/ DeviceOf[task'[t].notif] # d
        PROVE  QueueLoad(d)' <= QueueRoom
    <2>1. task'[t].count \in Nat
      BY DEF Typed, TypeOK, Task
    <2>2. Writers(d)' \subseteq Writers(d)
      BY <1>1, <1>4, <2>1, ConstantsAssumption DEF Writers
    <2>3. Queue(d)' = Queue(d)
      BY <1>4 DEF Queue
    <2> QED BY <1>2, <2>2, <2>3, NoLoadBound
  <1>5. CASE GoOffline(t)
    <2>1. /\ task'[t].pc = "count" /\ task'[t].notif = task[t].notif
          /\ task'[t].count = Cardinality(Queue(e)) /\ queue' = queue
      BY <1>1, <1>5 DEF GoOffline, Task, rows
    <2>2. CASE e = d /\ Cardinality(Queue(d)) < QueueCap
      <3>1. Queue(d)' = Queue(d)
        BY <2>1 DEF Queue
      <3> QED BY <2>2, <3>1, ShortQueueBound
    <2>3. CASE ~(e = d /\ Cardinality(Queue(d)) < QueueCap)
      <3>1. Cardinality(Queue(d)) \in Nat
        BY QueueFinite DEF Typed, Shape
      <3> QED BY <1>4, <2>1, <2>3, <3>1, ConstantsAssumption
    <2> QED BY <2>2, <2>3
  <1>6. CASE DropForRoom(t)
    <2>1. /\ task'[t].notif = task[t].notif /\ task[t].count \in Nat
          /\ task[t].count >= QueueCap /\ DropOldest(e, task[t].count)
      BY <1>1, <1>6 DEF DropForRoom, Task
    <2>2. CASE e = d
      BY <1>2, <1>3, <2>1, <2>2, DropBound
    <2>3. CASE e # d
      <3>1. Queue(d)' \subseteq Queue(d)
        BY <2>1 DEF DropOldest, Queue
      <3>2. Writers(d)' \subseteq Writers(d)
        BY <1>1, <2>1, <2>3 DEF Writers
      <3> QED BY <1>2, <3>1, <3>2, NoLoadBound
    <2> QED BY <2>2, <2>3
  <1>7. CASE Enqueue(t)
    <2> DEFINE f == [row |-> nextRow, dev |-> e, notif |-> task[t].notif]
    <2>1. /\ queue' = queue \cup {f} /\ task'[t].pc = "insert"
          /\ \/ task[t].pc = "count" /\ task[t].count < QueueCap
             \/ task[t].pc = "drop"
      BY <1>1, <1>7 DEF Enqueue, InsertFrame, Awaiting, Task
    <2>2. Writers(d)' \subseteq Writers(d) \ {t}
      BY <1>1, <2>1 DEF Writers
    <2>3. CASE e = d
      <3>1. task[t].notif # None
        BY <2>1, ConstantsAssumption DEF Typed, Shape
      <3>2. t \in Writers(d)
        BY <2>1, <2>3, <3>1 DEF Writers
      <3>3. Queue(d)' \subseteq Queue(d) \cup {f}
        BY <2>1 DEF Queue
      <3> HIDE DEF f
      <3> QED BY <1>2, <2>2, <3>2, <3>3, InsertBound
    <2>4. CASE e # d
      <3>1. f.dev = e
        OBVIOUS
      <3>2. Queue(d)' \subseteq Queue(d)
        <4> HIDE DEF f, e
        <4> QED BY <2>1, <2>4, <3>1 DEF Queue
      <3> QED BY <1>2, <2>2, <3>2, NoLoadBound
    <2> QED BY <2>3, <2>4
  <1>8. CASE \/ CancelNew(t) \/ Cancelled(t) \/ Raced(t) \/ Done(t)
    BY <1>1, <1>4, <1>8 DEF CancelNew, Cancelled, Raced, Done, Finish, IdleTask, rows
  <1>9. CASE \/ Start(t) \/ Wake(t) \/ Broadcast(t) \/ LookUp(t) \/ Defer(t)
             \/ SendCard(t) \/ MarkFired(t)
    <2>1. task'[t].pc \notin {"count", "drop"}
      BY <1>1, <1>9 DEF Start, Wake, Broadcast, LookUp, Defer, SendCard, MarkFired, Task
    <2>2. queue' = queue
      BY <1>9 DEF Start, Wake, Broadcast, LookUp, Defer, SendCard, MarkFired, rows
    <2> QED BY <1>4, <2>1, <2>2
  <1> QED BY <1>5, <1>6, <1>7, <1>8, <1>9 DEF TaskStep

\* The steps of a connection.
LEMMA ConnStepLoad ==
    ASSUME Typed, Typed', QueueBound, NEW k \in Conns, ConnStep(k), NEW d \in Devices
    PROVE  QueueLoad(d)' <= QueueRoom
  <1> DEFINE e == conn[k].dev
  <1>1. /\ conn \in [Conns -> Conn] /\ task' = task /\ e \in Devices
        /\ \A j \in Conns \ {k} : conn'[j] = conn[j]
        /\ conn'[k].pc # "closed" => conn'[k].dev = e
    BY ConnStepShape DEF Typed, TypeOK, Shape, ConnStep, ConnFrame
  <1>2. Writers(d)' = Writers(d)
    BY <1>1 DEF Writers
  <1>3. Requeuers(d)' \subseteq Requeuers(d) \cup {k}
    BY <1>1 DEF Requeuers
  <1>4. ASSUME queue' \subseteq queue,
               \/ conn'[k].pc \notin {"recount", "redrop"}
               \/ conn'[k].pc = "recount" /\ conn'[k].count >= QueueCap
               \/ e # d
        PROVE  QueueLoad(d)' <= QueueRoom
    <2>1. conn'[k].count \in Nat
      BY DEF Typed, TypeOK, Conn
    <2>2. Requeuers(d)' \subseteq Requeuers(d)
      BY <1>1, <1>4, <2>1, ConstantsAssumption DEF Requeuers
    <2>3. Queue(d)' \subseteq Queue(d)
      BY <1>4 DEF Queue
    <2> QED BY <1>2, <2>2, <2>3, NoLoadBound
  <1>5. CASE RequeueCount(k)
    <2>1. /\ conn'[k].pc = "recount" /\ conn'[k].count = Cardinality(Queue(e))
          /\ queue' = queue
      BY <1>1, <1>5 DEF RequeueCount, Conn, rows
    <2>2. CASE e = d /\ Cardinality(Queue(d)) < QueueCap
      <3>1. Queue(d)' = Queue(d)
        BY <2>1 DEF Queue
      <3> QED BY <2>2, <3>1, ShortQueueBound
    <2>3. CASE ~(e = d /\ Cardinality(Queue(d)) < QueueCap)
      <3>1. Cardinality(Queue(d)) \in Nat
        BY QueueFinite DEF Typed, Shape
      <3> QED BY <1>4, <2>1, <2>3, <3>1, ConstantsAssumption
    <2> QED BY <2>2, <2>3
  <1>6. CASE RequeueDrop(k)
    <2>1. /\ conn[k].count \in Nat /\ conn[k].count >= QueueCap
          /\ DropOldest(e, conn[k].count)
      BY <1>1, <1>6 DEF RequeueDrop, Conn
    <2>2. CASE e = d
      BY <1>2, <1>3, <2>1, <2>2, DropBound
    <2>3. CASE e # d
      BY <1>4, <2>1, <2>3 DEF DropOldest
    <2> QED BY <2>2, <2>3
  <1>7. CASE RequeueInsert(k)
    <2> DEFINE f == [row |-> nextRow, dev |-> e, notif |-> First(k).notif]
    <2>1. /\ queue' = queue \cup {f} /\ conn'[k].pc = "requeue"
          /\ \/ conn[k].pc = "recount" /\ conn[k].count < QueueCap
             \/ conn[k].pc = "redrop"
      BY <1>1, <1>7 DEF RequeueInsert, InsertFrame, Conn
    <2>2. Requeuers(d)' \subseteq Requeuers(d) \ {k}
      BY <1>1, <2>1 DEF Requeuers
    <2>3. CASE e = d
      <3>1. k \in Requeuers(d)
        BY <2>1, <2>3 DEF Requeuers
      <3>2. Queue(d)' \subseteq Queue(d) \cup {f}
        BY <2>1 DEF Queue
      <3> HIDE DEF f
      <3> QED BY <1>2, <2>2, <3>1, <3>2, InsertBound
    <2>4. CASE e # d
      <3>1. f.dev = e
        OBVIOUS
      <3>2. Queue(d)' \subseteq Queue(d)
        <4> HIDE DEF f, e
        <4> QED BY <2>1, <2>4, <3>1 DEF Queue
      <3> QED BY <1>2, <2>2, <3>2, NoLoadBound
    <2> QED BY <2>3, <2>4
  <1>8. CASE \/ Attach(k) \/ Register(k) \/ NothingQueued(k) \/ Drain(k)
             \/ FindSession(k) \/ Unregister(k)
    <2>1. conn'[k].pc \notin {"recount", "redrop"}
      BY <1>1, <1>8 DEF Attach, Register, NothingQueued, Drain, FindSession,
                        Unregister, Conn
    <2>2. queue' \subseteq queue
      BY <1>8 DEF Attach, Register, NothingQueued, Drain, FindSession, Unregister, rows
    <2> QED BY <1>4, <2>1, <2>2
  <1>9. CASE Replay(k) \/ ReplayOne(k) \/ ReplayDone(k) \/ Pause(k)
    <2>1. conn'[k].pc \notin {"recount", "redrop"}
      BY <1>1, <1>9 DEF Replay, ReplayOne, ReplayDone, Pause, ClosedConn, Conn
    <2>2. queue' = queue
      BY <1>9 DEF Replay, ReplayOne, ReplayDone, Pause, rows
    <2> QED BY <1>4, <2>1, <2>2
  <1> QED BY <1>5, <1>6, <1>7, <1>8, <1>9 DEF ConnStep

\* The calls, the boot and the shutdown leave the writers where they are, or
\* start tasks, which are no writers yet; an exit ends them all.
LEMMA OthersNoLoad ==
    ASSUME Typed, [Next]_vars, \A t \in Tasks : ~TaskStep(t),
           \A k \in Conns : ~ConnStep(k), NEW d \in Devices
    PROVE  /\ Queue(d)' \subseteq Queue(d)
           /\ Writers(d)' \subseteq Writers(d)
           /\ Requeuers(d)' \subseteq Requeuers(d)
  <1>1. /\ task \in [Tasks -> Task] /\ conn \in [Conns -> Conn]
        /\ taskOf \in [Notifs -> Tasks \cup {None}]
    BY DEF Typed, TypeOK
  <1>2. ASSUME queue' = queue,
               \A t \in Tasks :
                   task'[t].pc \in {"count", "drop"} =>
                       /\ task'[t].pc = task[t].pc /\ task'[t].notif = task[t].notif
                       /\ task'[t].count = task[t].count,
               \A k \in Conns :
                   conn'[k].pc \in {"recount", "redrop"} =>
                       /\ conn'[k].pc = conn[k].pc /\ conn'[k].dev = conn[k].dev
                       /\ conn'[k].count = conn[k].count
        PROVE  /\ Queue(d)' \subseteq Queue(d)
               /\ Writers(d)' \subseteq Writers(d)
               /\ Requeuers(d)' \subseteq Requeuers(d)
    <2>1. Queue(d)' = Queue(d)
      BY <1>2 DEF Queue
    <2>2. Writers(d)' \subseteq Writers(d)
      BY <1>2 DEF Writers
    <2>3. Requeuers(d)' \subseteq Requeuers(d)
      BY <1>2 DEF Requeuers
    <2> QED BY <2>1, <2>2, <2>3
  <1>3. ASSUME NEW n \in Notifs, NEW at \in Nat, Spawn(n, at), UNCHANGED <<queue, conn>>
        PROVE  /\ Queue(d)' \subseteq Queue(d)
               /\ Writers(d)' \subseteq Writers(d)
               /\ Requeuers(d)' \subseteq Requeuers(d)
    <2>1. PICK t \in Tasks : task' = [task EXCEPT ![t] = [IdleTask EXCEPT !.pc = "new",
                                          !.notif = n, !.at = at]]
      BY <1>3 DEF Spawn, FreeTasks
    <2>2. task'[t].pc = "new" /\ \A u \in Tasks \ {t} : task'[u] = task[u]
      BY <1>1, <2>1 DEF IdleTask
    <2> QED BY <1>2, <1>3, <2>2
  <1>4. ASSUME NEW r \in Requests, ReqStep(r) \/ ReqCall(r)
        PROVE  /\ Queue(d)' \subseteq Queue(d)
               /\ Writers(d)' \subseteq Writers(d)
               /\ Requeuers(d)' \subseteq Requeuers(d)
    <2>1. UNCHANGED <<queue, conn>>
      BY <1>4 DEF ReqStep, ReqCall, rows
    <2>2. CASE task' = task
      BY <1>2, <2>1, <2>2
    <2>3. CASE CancelTask(r)
      <3>1. \A t \in Tasks : /\ task'[t].pc = task[t].pc
                             /\ task'[t].notif = task[t].notif
                             /\ task'[t].count = task[t].count
        BY <1>1, <2>3 DEF CancelTask, Task
      <3> QED BY <1>2, <2>1, <3>1
    <2>4. CASE Arm(r) \/ EndMove(r)
      <3>1. req[r].notif \in Notifs /\ req[r].at \in Nat
        BY <2>4 DEF Arm, EndMove, Typed, TypeOK, Shape, Req
      <3> QED BY <1>3, <2>1, <2>4, <3>1 DEF Arm, EndMove
    <2> QED
      BY <1>4, <2>2, <2>3, <2>4
      DEF ReqStep, ReqCall, Reject, Create, Refused, EndCancel, Cancel, Schedule,
          Reschedule
  <1>5. CASE Boot
    <2>1. ASSUME NEW n \in Notifs, BootArm(n)
          PROVE  /\ Queue(d)' \subseteq Queue(d)
                 /\ Writers(d)' \subseteq Writers(d)
                 /\ Requeuers(d)' \subseteq Requeuers(d)
      <3>1. fireAt[n] \in Nat
        BY DEF Typed, TypeOK
      <3> QED BY <1>3, <2>1, <3>1 DEF BootArm, db, rows
    <2> QED
      BY <1>2, <1>5, <2>1 DEF Boot, BootList, BootDone, BootFail, db, rows
  <1>6. CASE Shutdown
    <2>1. \A t \in Tasks : /\ task'[t].pc = task[t].pc
                           /\ task'[t].notif = task[t].notif
                           /\ task'[t].count = task[t].count
      BY <1>1, <1>6 DEF Shutdown, Task
    <2> QED BY <1>2, <1>6, <2>1 DEF Shutdown, db, rows
  <1>7. CASE Exit
    BY <1>2, <1>7 DEF Exit, IdleTask, ClosedConn, db, rows
  <1>8. CASE Tick \/ UNCHANGED vars
    BY <1>2, <1>8 DEF Tick, vars, db, rows
  <1>9. ASSUME NEW k \in Conns, ConnEvent(k)
        PROVE  /\ Queue(d)' \subseteq Queue(d)
               /\ Writers(d)' \subseteq Writers(d)
               /\ Requeuers(d)' \subseteq Requeuers(d)
    <2>1. queue' = queue /\ task' = task
      BY <1>9 DEF ConnEvent, Drop, Connect, ConnFrame, rows
    <2>2. \A j \in Conns : conn'[j].pc \in {"recount", "redrop"} =>
              /\ conn'[j].pc = conn[j].pc /\ conn'[j].dev = conn[j].dev
              /\ conn'[j].count = conn[j].count
      <3>1. CASE Drop(k)
        BY <1>1, <3>1 DEF Drop, Conn
      <3>2. ASSUME NEW c \in Devices, Connect(k, c)
            PROVE  \A j \in Conns : conn'[j].pc \in {"recount", "redrop"} =>
              /\ conn'[j].pc = conn[j].pc /\ conn'[j].dev = conn[j].dev
              /\ conn'[j].count = conn[j].count
        <4>1. \A j \in Conns : /\ [conn[j] EXCEPT !.open = FALSE].pc = conn[j].pc
                               /\ [conn[j] EXCEPT !.open = FALSE].dev = conn[j].dev
                               /\ [conn[j] EXCEPT !.open = FALSE].count = conn[j].count
          BY <1>1 DEF Conn
        <4>2. conn'[k].pc = "evicted"
          BY <3>2 DEF Connect, ClosedConn
        <4>3. \A j \in Conns \ {k} :
                  conn'[j] = conn[j] \/ conn'[j] = [conn[j] EXCEPT !.open = FALSE]
          BY <3>2 DEF Connect
        <4> QED BY <4>1, <4>2, <4>3
      <3> QED BY <1>9, <3>1, <3>2 DEF ConnEvent
    <2> QED BY <1>2, <2>1, <2>2
  <1>10. ASSUME NEW c \in Devices, TurnStep(c)
         PROVE  /\ Queue(d)' \subseteq Queue(d)
                /\ Writers(d)' \subseteq Writers(d)
                /\ Requeuers(d)' \subseteq Requeuers(d)
    BY <1>2, <1>10 DEF TurnStep, db, rows
  <1> QED
    BY <1>4, <1>5, <1>6, <1>7, <1>8, <1>9, <1>10 DEF Next

\* The offline queue overshoots its cap by at most one frame for every other
\* writer, a task or a connection putting its frames back, however long the
\* run: queue_notification counts, makes room and inserts in three statements.
THEOREM QueueIsBounded == Spec => []QueueBound
  <1>1. Init => QueueBound
    <2>1. ASSUME Init, NEW d \in Devices
          PROVE  Cardinality(Queue(d)) + Cardinality(Writers(d))
                     + Cardinality(Requeuers(d))
                 <= QueueCap - 1 + Cardinality(Tasks) + Cardinality(Conns)
      <3>1. Queue(d) = {} /\ Writers(d) = {} /\ Requeuers(d) = {}
        BY <2>1 DEF Init, Queue, Writers, Requeuers, IdleTask, ClosedConn
      <3> QED BY <3>1, FS_EmptySet, PartSize, ConstantsAssumption
    <2> QED BY <2>1 DEF QueueBound
  <1>2. Typed /\ QueueBound /\ [Next]_vars => QueueBound'
    <2> SUFFICES ASSUME Typed, QueueBound, [Next]_vars, NEW d \in Devices
                 PROVE  QueueLoad(d)' <= QueueRoom
      BY DEF QueueBound, QueueLoad, QueueRoom
    <2>1. Typed'
      BY TypedNext
    <2>2. CASE \E t \in Tasks : TaskStep(t)
      BY <2>1, <2>2, TaskStepLoad
    <2>3. CASE \E k \in Conns : ConnStep(k)
      BY <2>1, <2>3, ConnStepLoad
    <2>4. CASE (\A t \in Tasks : ~TaskStep(t)) /\ \A k \in Conns : ~ConnStep(k)
      BY <2>1, <2>4, OthersNoLoad, NoLoadBound
    <2> QED BY <2>2, <2>3, <2>4
  <1> QED BY <1>1, <1>2, AlwaysTyped, PTL DEF Spec

-----------------------------------------------------------------------------
(* No card vanishes.                                                       *)

\* Only a connection that is draining has frames in hand: registering,
\* connecting and closing overwrite nobody's.
HandOnly ==
    \A k \in Conns : conn[k].hand # {} =>
        conn[k].pc \in {"drain", "deleted", "lookup", "replay", "requeue",
                        "recount", "redrop"}

Waiting(n) ==
    \/ n \in NotifsOf(queue)
    \/ \E d \in Devices : n \in deferred[d]
    \/ \E k \in Conns : n \in NotifsOf(conn[k].hand)
Settled(n) == shown[n] > 0 \/ n \in lost

LEMMA AccountedIs == Accounted <=> \A n \in handed : Settled(n) \/ Waiting(n)
  BY DEF Accounted, Settled, Waiting

LEMMA AccountedPrimed == Accounted' <=> \A n \in handed' : Settled(n)' \/ Waiting(n)'
  BY DEF Accounted, Settled, Waiting

\* A step that settles what it stops waiting for.
LEMMA AccountedKept ==
    ASSUME Typed, Accounted, handed' = handed,
           \A n \in Notifs : Settled(n) => Settled(n)',
           \A n \in Notifs : Waiting(n) => Settled(n)' \/ Waiting(n)'
    PROVE  Accounted'
  <1>1. handed \subseteq Notifs
    BY DEF Typed, TypeOK
  <1> QED BY <1>1, AccountedIs, AccountedPrimed

\* A card sent is shown or lost.
LEMMA WriteSettles ==
    ASSUME Typed, NEW k, NEW n \in Notifs, WriteCard(k, n)
    PROVE  /\ Settled(n)'
           /\ \A m \in Notifs : Settled(m) => Settled(m)'
  <1>1. shown \in [Notifs -> 0..2]
    BY DEF Typed, TypeOK
  <1>2. CASE conn[k].open
    BY <1>1, <1>2 DEF WriteCard, Settled
  <1>3. CASE ~conn[k].open
    BY <1>1, <1>3 DEF WriteCard, Settled
  <1> QED BY <1>2, <1>3

\* A frame dropped to make room is lost.
LEMMA DropSettles ==
    ASSUME NEW d, NEW c, DropOldest(d, c)
    PROVE  /\ lost \subseteq lost'
           /\ \A n : n \in NotifsOf(queue) => n \in NotifsOf(queue') \/ n \in lost'
  BY DEF DropOldest, NotifsOf

LEMMA InsertKeeps ==
    ASSUME NEW d, NEW n, InsertFrame(d, n)
    PROVE  n \in NotifsOf(queue') /\ NotifsOf(queue) \subseteq NotifsOf(queue')
  <1> DEFINE f == [row |-> nextRow, dev |-> d, notif |-> n]
  <1>1. f.notif = n
    OBVIOUS
  <1>2. queue' = queue \cup {f}
    BY DEF InsertFrame
  <1> HIDE DEF f
  <1> QED BY <1>1, <1>2 DEF NotifsOf

LEMMA TaskStepAccounted ==
    ASSUME Typed, Accounted, NEW t \in Tasks, TaskStep(t)
    PROVE  Accounted'
  <1>1. /\ conn' = conn /\ shown \in [Notifs -> 0..2]
        /\ deferred \in [Devices -> SUBSET Notifs]
        /\ handed \subseteq Notifs
        /\ task[t].pc # "idle" => task[t].notif \in Notifs
        /\ task[t].pc \in {"lookup", "count", "drop", "insert", "send"}
              => DeviceOf[task[t].notif] \in Devices
    BY DEF Typed, TypeOK, Shape, TaskStep
  <1>2. CASE UNCHANGED <<rows, cards>>
    BY <1>1, <1>2, AccountedKept DEF rows, cards, Settled, Waiting
  <1>3. CASE Defer(t)
    <2>1. PICK n \in Notifs, d \in Devices :
              /\ handed' = handed \cup {n}
              /\ deferred' = [deferred EXCEPT ![d] = @ \cup {n}]
              /\ UNCHANGED <<queue, shown, lost>>
      BY <1>1, <1>3 DEF Defer, Awaiting, rows
    <2>2. n \in deferred'[d] /\ \A c \in Devices : deferred[c] \subseteq deferred'[c]
      BY <1>1, <2>1
    <2>3. \A m \in Notifs : /\ Settled(m) => Settled(m)'
                            /\ Waiting(m) => Waiting(m)'
      BY <1>1, <2>1, <2>2 DEF Settled, Waiting
    <2>4. Waiting(n)'
      BY <2>1, <2>2 DEF Waiting
    <2> QED BY <1>1, <2>1, <2>3, <2>4, AccountedIs, AccountedPrimed
  <1>4. CASE SendCard(t)
    <2>1. PICK n \in Notifs :
              /\ handed' = handed \cup {n} /\ WriteCard(surf[DeviceOf[n]], n)
              /\ UNCHANGED <<queue, deferred>>
      BY <1>1, <1>4 DEF SendCard, Awaiting, rows
    <2>2. Settled(n)' /\ \A m \in Notifs : Settled(m) => Settled(m)'
      BY <2>1, WriteSettles
    <2>3. \A m \in Notifs : Waiting(m) => Waiting(m)'
      BY <1>1, <2>1 DEF Waiting
    <2> QED BY <1>1, <2>1, <2>2, <2>3, AccountedIs, AccountedPrimed
  <1>5. CASE DropForRoom(t)
    <2>1. DropOldest(DeviceOf[task[t].notif], task[t].count)
          /\ UNCHANGED <<deferred, handed, shown>>
      BY <1>5 DEF DropForRoom
    <2>2. /\ lost \subseteq lost'
          /\ \A m : m \in NotifsOf(queue) => m \in NotifsOf(queue') \/ m \in lost'
      BY <2>1, DropSettles
    <2> QED BY <1>1, <2>1, <2>2, AccountedKept DEF Settled, Waiting
  <1>6. CASE Enqueue(t)
    <2>1. PICK n \in Notifs :
              /\ handed' = handed \cup {n} /\ InsertFrame(DeviceOf[n], n)
              /\ UNCHANGED <<deferred, shown, lost>>
      BY <1>1, <1>6 DEF Enqueue, Awaiting
    <2>2. n \in NotifsOf(queue') /\ NotifsOf(queue) \subseteq NotifsOf(queue')
      BY <2>1, InsertKeeps
    <2>3. \A m \in Notifs : /\ Settled(m) => Settled(m)'
                            /\ Waiting(m) => Waiting(m)'
      BY <1>1, <2>1, <2>2 DEF Settled, Waiting
    <2>4. Waiting(n)'
      BY <2>2 DEF Waiting
    <2> QED BY <1>1, <2>1, <2>3, <2>4, AccountedIs, AccountedPrimed
  <1> QED
    BY <1>2, <1>3, <1>4, <1>5, <1>6
    DEF TaskStep, CancelNew, Start, Cancelled, Wake, Raced, Broadcast, LookUp,
        GoOffline, MarkFired, Done

\* What a turn gate throws away is lost.
LEMMA GateAccounted ==
    ASSUME Typed, Accounted, NEW d \in Devices,
           deferred' = [deferred EXCEPT ![d] = {}],
           lost' = lost \cup deferred[d],
           UNCHANGED <<queue, handed, shown>>,
           \A k \in Conns : conn[k].hand \subseteq conn'[k].hand
    PROVE  Accounted'
  <1>1. deferred \in [Devices -> SUBSET Notifs]
    BY DEF Typed, TypeOK
  <1>2. \A m, c : c \in Devices /\ m \in deferred[c] => m \in lost' \/ m \in deferred'[c]
    BY <1>1
  <1>3. \A k \in Conns : NotifsOf(conn[k].hand) \subseteq NotifsOf(conn'[k].hand)
    BY DEF NotifsOf
  <1>4. \A m \in Notifs : Settled(m) => Settled(m)'
    BY DEF Settled
  <1>5. \A m \in Notifs : Waiting(m) => Settled(m)' \/ Waiting(m)'
    BY <1>2, <1>3 DEF Settled, Waiting
  <1> QED BY <1>4, <1>5, AccountedKept

LEMMA ConnStepAccounted ==
    ASSUME Typed, HandOnly, Accounted, NEW k \in Conns, ConnStep(k)
    PROVE  Accounted'
  <1>1. /\ conn \in [Conns -> Conn] /\ handed' = handed
        /\ conn[k].pc # "closed" /\ conn[k].dev \in Devices
        /\ \A j \in Conns \ {k} : conn'[j] = conn[j]
    BY ConnStepShape DEF Typed, TypeOK, Shape, ConnStep, ConnFrame
  <1>2. CASE Register(k)
    <2>1. conn[k].hand = {}
      BY <1>2 DEF HandOnly, Register
    <2>2. /\ deferred' = [deferred EXCEPT ![conn[k].dev] = {}]
          /\ lost' = lost \cup deferred[conn[k].dev]
          /\ UNCHANGED <<queue, shown>>
      BY <1>2 DEF Register, rows
    <2>3. \A j \in Conns : conn[j].hand \subseteq conn'[j].hand
      BY <1>1, <2>1
    <2> QED BY <1>1, <2>2, <2>3, GateAccounted
  <1>3. CASE Unregister(k)
    <2>1. \A j \in Conns : conn[j].hand \subseteq conn'[j].hand
      BY <1>1, <1>3 DEF Unregister, Conn
    <2>2. /\ deferred' = [deferred EXCEPT ![conn[k].dev] = {}]
          /\ lost' = lost \cup deferred[conn[k].dev]
          /\ UNCHANGED <<queue, shown>>
      BY <1>3 DEF Unregister, rows
    <2> QED BY <1>1, <2>1, <2>2, GateAccounted
  <1>4. CASE Drain(k)
    <2>1. /\ \A j \in Conns : conn'[j].hand = conn[j].hand
          /\ queue' = queue \ conn[k].hand /\ UNCHANGED <<deferred, shown, lost>>
      BY <1>1, <1>4 DEF Drain, Conn, gate
    <2>2. \A m : m \in NotifsOf(queue) =>
                     m \in NotifsOf(queue') \/ m \in NotifsOf(conn'[k].hand)
      BY <2>1 DEF NotifsOf
    <2> QED BY <1>1, <2>1, <2>2, AccountedKept DEF Settled, Waiting
  <1>5. CASE ReplayOne(k)
    <2>1. PICK f \in conn[k].hand : f = First(k) /\ f.notif \in Notifs
      BY <1>5, FirstInHand DEF ReplayOne, Frame
    <2>2. PICK n \in Notifs : n = f.notif
      BY <2>1
    <2>3. /\ WriteCard(conn[k].surface, n) /\ conn'[k].hand = conn[k].hand \ {f}
          /\ UNCHANGED <<queue, deferred>>
      BY <1>1, <1>5, <2>1, <2>2 DEF ReplayOne, Conn, rows, gate
    <2>4. Settled(n)' /\ \A m \in Notifs : Settled(m) => Settled(m)'
      BY <2>3, WriteSettles
    <2>5. \A m : m \in NotifsOf(conn[k].hand) =>
                     m = n \/ m \in NotifsOf(conn'[k].hand)
      BY <2>2, <2>3 DEF NotifsOf
    <2>6. \A m \in Notifs : Waiting(m) => m = n \/ Waiting(m)'
      BY <1>1, <2>3, <2>5 DEF Waiting
    <2> QED BY <1>1, <2>4, <2>6, AccountedKept
  <1>6. CASE RequeueDrop(k)
    <2>1. /\ DropOldest(conn[k].dev, conn[k].count)
          /\ \A j \in Conns : conn'[j].hand = conn[j].hand
          /\ UNCHANGED <<deferred, shown>>
      BY <1>1, <1>6 DEF RequeueDrop, Conn, gate
    <2>2. /\ lost \subseteq lost'
          /\ \A m : m \in NotifsOf(queue) => m \in NotifsOf(queue') \/ m \in lost'
      BY <2>1, DropSettles
    <2> QED BY <1>1, <2>1, <2>2, AccountedKept DEF Settled, Waiting
  <1>7. CASE RequeueInsert(k)
    <2>1. /\ InsertFrame(conn[k].dev, First(k).notif)
          /\ conn'[k].hand = conn[k].hand \ {First(k)}
          /\ UNCHANGED <<deferred, shown, lost>>
      BY <1>1, <1>7 DEF RequeueInsert, Conn, gate
    <2>2. /\ First(k).notif \in NotifsOf(queue')
          /\ NotifsOf(queue) \subseteq NotifsOf(queue')
      BY <2>1, InsertKeeps
    <2>3. \A m : m \in NotifsOf(conn[k].hand) =>
                     m = First(k).notif \/ m \in NotifsOf(conn'[k].hand)
      BY <2>1 DEF NotifsOf
    <2>4. \A m \in Notifs : Waiting(m) => Waiting(m)'
      BY <1>1, <2>1, <2>2, <2>3 DEF Waiting
    <2>5. \A m \in Notifs : Settled(m) => Settled(m)'
      BY <2>1 DEF Settled
    <2> QED BY <1>1, <2>4, <2>5, AccountedKept
  <1>8. CASE Pause(k)
    <2>1. conn[k].hand = {} /\ UNCHANGED <<queue, deferred, shown, lost>>
      BY <1>8 DEF HandOnly, Pause, rows
    <2>2. \A j \in Conns : NotifsOf(conn[j].hand) \subseteq NotifsOf(conn'[j].hand)
      BY <1>1, <2>1 DEF NotifsOf
    <2> QED BY <1>1, <2>1, <2>2, AccountedKept DEF Settled, Waiting
  <1>9. CASE \/ Attach(k) \/ NothingQueued(k) \/ FindSession(k) \/ Replay(k)
             \/ RequeueCount(k) \/ ReplayDone(k)
    <2>1. UNCHANGED <<queue, deferred, shown, lost>>
      BY <1>9 DEF Attach, NothingQueued, FindSession, Replay, RequeueCount,
                  ReplayDone, rows, gate
    <2>2. \A j \in Conns : conn'[j].hand = conn[j].hand
      <3>1. CASE Attach(k) \/ NothingQueued(k) \/ FindSession(k)
        BY <1>1, <3>1 DEF Attach, NothingQueued, FindSession, Conn
      <3>2. CASE Replay(k)
        BY <1>1, <3>2 DEF Replay, Conn
      <3>3. CASE RequeueCount(k) \/ ReplayDone(k)
        BY <1>1, <3>3 DEF RequeueCount, ReplayDone, Conn
      <3> QED BY <1>9, <3>1, <3>2, <3>3
    <2> QED BY <1>1, <2>1, <2>2, AccountedKept DEF Settled, Waiting
  <1> QED
    BY <1>2, <1>3, <1>4, <1>5, <1>6, <1>7, <1>8, <1>9 DEF ConnStep

LEMMA TurnStepAccounted ==
    ASSUME Typed, Accounted, NEW d \in Devices, TurnStep(d)
    PROVE  Accounted'
  <1>1. /\ UNCHANGED <<queue, handed, conn>>
        /\ deferred \in [Devices -> SUBSET Notifs]
        /\ shown \in [Notifs -> 0..2]
    BY DEF Typed, TypeOK, TurnStep, db, rows
  <1>2. CASE TurnStart(d)
    BY <1>1, <1>2, AccountedKept DEF TurnStart, Settled, Waiting
  <1>3. CASE Discard(d)
    BY <1>1, <1>3, GateAccounted DEF Discard
  <1>4. CASE TurnEnd(d) /\ ~conn[surf[d]].open
    BY <1>1, <1>4, GateAccounted DEF TurnEnd
  <1>5. CASE TurnEnd(d) /\ conn[surf[d]].open
    <2>1. /\ deferred' = [deferred EXCEPT ![d] = {}] /\ lost' = lost
          /\ shown' = [n \in Notifs |-> IF n \in deferred[d] /\ shown[n] < 2
                                        THEN shown[n] + 1 ELSE shown[n]]
      BY <1>5 DEF TurnEnd
    <2>2. \A n \in Notifs : /\ n \in deferred[d] => shown'[n] > 0
                            /\ shown[n] > 0 => shown'[n] > 0
      BY <1>1, <2>1
    <2>3. \A n, c : c \in Devices /\ n \in deferred[c] => c = d \/ n \in deferred'[c]
      BY <1>1, <2>1
    <2>4. \A n \in Notifs : Settled(n) => Settled(n)'
      BY <2>1, <2>2 DEF Settled
    <2>5. \A n \in Notifs : Waiting(n) => Settled(n)' \/ Waiting(n)'
      BY <1>1, <2>1, <2>2, <2>3 DEF Settled, Waiting
    <2> QED BY <1>1, <2>4, <2>5, AccountedKept
  <1> QED BY <1>2, <1>3, <1>4, <1>5 DEF TurnStep

\* An exit gives up what memory holds, and nothing in the database.
LEMMA ExitAccounted ==
    ASSUME Typed, Accounted, Exit
    PROVE  Accounted'
  <1>1. /\ UNCHANGED <<queue, handed, shown>>
        /\ lost' = lost \cup (UNION {deferred[d] : d \in Devices})
                        \cup (UNION {NotifsOf(conn[k].hand) : k \in Conns})
    BY DEF Exit, db, rows
  <1>2. \A n \in Notifs : Settled(n) => Settled(n)'
    BY <1>1 DEF Settled
  <1>3. ASSUME NEW n, NEW d \in Devices, n \in deferred[d]
        PROVE  n \in lost'
    BY <1>1, <1>3
  <1>4. ASSUME NEW n, NEW k \in Conns, n \in NotifsOf(conn[k].hand)
        PROVE  n \in lost'
    BY <1>1, <1>4
  <1>5. \A n \in Notifs : Waiting(n) => Settled(n)' \/ Waiting(n)'
    BY <1>1, <1>3, <1>4 DEF Settled, Waiting
  <1> QED BY <1>1, <1>2, <1>5, AccountedKept

LEMMA AccountedNext ==
    ASSUME Typed, HandOnly, Accounted, [Next]_vars
    PROVE  Accounted'
  <1>1. ASSUME UNCHANGED <<queue, deferred, conn, handed, shown, lost>>
        PROVE  Accounted'
    BY <1>1, AccountedKept DEF Settled, Waiting
  <1>2. ASSUME NEW r \in Requests, ReqStep(r) \/ ReqCall(r)
        PROVE  Accounted'
    BY <1>1, <1>2 DEF ReqStep, ReqCall, rows, gate
  <1>3. CASE Tick \/ Shutdown \/ UNCHANGED vars
    BY <1>1, <1>3 DEF Tick, Shutdown, vars, db, rows, gate, history
  <1>4. CASE Boot
    BY <1>1, <1>4 DEF Boot, BootList, BootDone, BootFail, BootArm, db, rows, gate,
                      history
  <1>5. ASSUME NEW k \in Conns, ConnEvent(k)
        PROVE  Accounted'
    <2>1. conn \in [Conns -> Conn] /\ UNCHANGED <<queue, deferred, handed, shown, lost>>
      BY <1>5 DEF Typed, TypeOK, ConnEvent, Drop, Connect, ConnFrame, rows, gate
    <2>2. \A j \in Conns : conn[j].hand \subseteq conn'[j].hand
      <3>1. CASE Drop(k)
        BY <2>1, <3>1 DEF Drop, Conn
      <3>2. ASSUME NEW d \in Devices, Connect(k, d)
            PROVE  \A j \in Conns : conn[j].hand \subseteq conn'[j].hand
        <4>1. \A j \in Conns : [conn[j] EXCEPT !.open = FALSE].hand = conn[j].hand
          BY <2>1 DEF Conn
        <4>2. conn[k].hand = {}
          BY <3>2 DEF HandOnly, Connect
        <4>3. \A j \in Conns \ {k} :
                  conn'[j] = conn[j] \/ conn'[j] = [conn[j] EXCEPT !.open = FALSE]
          BY <3>2 DEF Connect
        <4> QED BY <4>1, <4>2, <4>3
      <3> QED BY <1>5, <3>1, <3>2 DEF ConnEvent
    <2>3. \A j \in Conns : NotifsOf(conn[j].hand) \subseteq NotifsOf(conn'[j].hand)
      BY <2>2 DEF NotifsOf
    <2> QED BY <2>1, <2>3, AccountedKept DEF Settled, Waiting
  <1> QED
    BY <1>2, <1>3, <1>4, <1>5, TaskStepAccounted, ConnStepAccounted,
       TurnStepAccounted, ExitAccounted
    DEF Next

LEMMA HandOnlyNext ==
    ASSUME Typed, HandOnly, [Next]_vars
    PROVE  HandOnly'
  <1>1. conn \in [Conns -> Conn]
    BY DEF Typed, TypeOK
  <1>2. CASE conn' = conn
    BY <1>2 DEF HandOnly
  <1>3. ASSUME NEW k \in Conns, ConnStep(k)
        PROVE  HandOnly'
    <2>1. \A j \in Conns \ {k} : conn'[j] = conn[j]
      BY <1>3, ConnStepShape
    <2>2. conn'[k].hand # {} =>
              conn'[k].pc \in {"drain", "deleted", "lookup", "replay", "requeue",
                               "recount", "redrop"}
      <3>1. CASE \/ Register(k) \/ Drain(k) \/ FindSession(k) \/ RequeueDrop(k)
        BY <1>1, <3>1 DEF Register, Drain, FindSession, RequeueDrop, Conn
      <3>2. CASE ReplayOne(k) \/ RequeueCount(k) \/ RequeueInsert(k)
        BY <1>1, <3>2 DEF ReplayOne, RequeueCount, RequeueInsert, Conn
      <3>3. CASE Replay(k)
        BY <1>1, <3>3 DEF Replay, Conn
      <3>4. CASE Attach(k) \/ Unregister(k) \/ Pause(k)
        BY <1>1, <3>4 DEF Attach, Unregister, Pause, ClosedConn, Conn, HandOnly
      <3>5. CASE NothingQueued(k) \/ ReplayDone(k)
        BY <1>1, <3>5 DEF NothingQueued, ReplayDone, Conn
      <3> QED BY <1>3, <3>1, <3>2, <3>3, <3>4, <3>5 DEF ConnStep
    <2> QED BY <2>1, <2>2 DEF HandOnly
  <1>4. ASSUME NEW k \in Conns, ConnEvent(k)
        PROVE  HandOnly'
    <2>1. CASE Drop(k)
      BY <1>1, <2>1 DEF Drop, Conn, HandOnly
    <2>2. ASSUME NEW d \in Devices, Connect(k, d)
          PROVE  HandOnly'
      <3>1. \A j \in Conns : /\ [conn[j] EXCEPT !.open = FALSE].hand = conn[j].hand
                             /\ [conn[j] EXCEPT !.open = FALSE].pc = conn[j].pc
        BY <1>1 DEF Conn
      <3>2. conn'[k].hand = {}
        BY <2>2 DEF Connect, ClosedConn
      <3>3. \A j \in Conns \ {k} :
                conn'[j] = conn[j] \/ conn'[j] = [conn[j] EXCEPT !.open = FALSE]
        BY <2>2 DEF Connect
      <3> QED BY <3>1, <3>2, <3>3 DEF HandOnly
    <2> QED BY <1>4, <2>1, <2>2 DEF ConnEvent
  <1>5. CASE Exit
    BY <1>5 DEF Exit, ClosedConn, HandOnly
  <1> QED
    BY <1>2, <1>3, <1>4, <1>5
    DEF Next, TaskStep, ReqStep, ReqCall, TurnStep, Tick, Boot, BootList, BootDone,
        BootFail, BootArm, Shutdown, vars

\* A card that left the scheduler is shown, or still waits somewhere, or was
\* given up at one of the named places, for any number of connections that
\* drain the queue while tasks fill it, and across crashes.
THEOREM CardsAccounted == Spec => []Accounted
  <1>1. Init => HandOnly /\ Accounted
    BY DEF Init, HandOnly, Accounted, ClosedConn
  <1>2. Typed /\ HandOnly /\ Accounted /\ [Next]_vars => HandOnly' /\ Accounted'
    BY HandOnlyNext, AccountedNext
  <1> QED BY <1>1, <1>2, AlwaysTyped, PTL DEF Spec

-----------------------------------------------------------------------------
(* No reminder is left without a task.                                     *)

\* schedule() counts before it inserts: until then the row is not there, and
\* no other call knows the identifier.
Fresh ==
    \A r \in Requests : req[r].pc = "count" =>
        /\ status[req[r].notif] = "absent"
        /\ \A s \in Requests : req[s].notif = req[r].notif => s = r

LEMMA FreshNext ==
    ASSUME Typed, Fresh, [Next]_vars
    PROVE  Fresh'
  <1>1. /\ status \in [Notifs -> Statuses] /\ req \in [Requests -> Req]
        /\ None \notin Notifs
    BY ConstantsAssumption DEF Typed, TypeOK
  <1>2. \A r \in Requests : req[r].pc # "idle" => req[r].notif \in Notifs
    BY DEF Typed, Shape
  <1>3. IdleReq.pc = "idle" /\ IdleReq.notif = None
    BY DEF IdleReq
  <1>4. ASSUME req' = req,
               \A n \in Notifs : status[n] = "absent" => status'[n] = "absent"
        PROVE  Fresh'
    BY <1>2, <1>4 DEF Fresh
  <1>5. ASSUME NEW n \in Notifs, NEW s, s # "absent", SetIfPending(n, s)
        PROVE  \A m \in Notifs : status[m] = "absent" => status'[m] = "absent"
    BY <1>1, <1>5 DEF SetIfPending, Set
  <1>6. ASSUME NEW t \in Tasks, TaskStep(t)
        PROVE  Fresh'
    <2>1. task[t].pc # "idle" => task[t].notif \in Notifs
      BY DEF Typed, Shape
    <2>2. \A m \in Notifs : status[m] = "absent" => status'[m] = "absent"
      <3>1. CASE status' = status
        BY <3>1
      <3>2. CASE SetIfPending(task[t].notif, "fired") /\ task[t].pc # "idle"
        BY <1>5, <2>1, <3>2
      <3> QED
        BY <1>6, <3>1, <3>2
        DEF TaskStep, CancelNew, Start, Cancelled, Wake, Raced, Broadcast, LookUp,
            GoOffline, Defer, SendCard, DropForRoom, Enqueue, MarkFired, Done, Awaiting
    <2>3. req' = req
      BY <1>6 DEF TaskStep
    <2> QED BY <1>4, <2>2, <2>3
  <1>7. ASSUME NEW r \in Requests, ReqStep(r)
        PROVE  Fresh'
    <2>1. CASE Create(r)
      <3>1. /\ req[r].pc = "count" /\ req' = [req EXCEPT ![r].pc = "create"]
            /\ status' = [status EXCEPT ![req[r].notif] = "pending"]
        BY <2>1 DEF Create, Set
      <3>2. \A s \in Requests : req'[s].notif = req[s].notif
                                /\ (s # r => req'[s].pc = req[s].pc)
        BY <1>1, <3>1 DEF Req
      <3>3. req'[r].pc = "create"
        BY <1>1, <3>1 DEF Req
      <3> QED BY <1>1, <1>2, <3>1, <3>2, <3>3 DEF Fresh
    <2>2. CASE CancelTask(r)
      <3>1. status' = status
        BY <2>2 DEF CancelTask
      <3>2. \A s \in Requests : req'[s].notif = req[s].notif
                                /\ (s # r => req'[s].pc = req[s].pc)
        BY <1>1, <2>2 DEF CancelTask, Req
      <3>3. req'[r].pc # "count"
        BY <1>1, <2>2 DEF CancelTask, Req
      <3> QED BY <1>2, <3>1, <3>2, <3>3 DEF Fresh
    <2>3. CASE Return(r) /\ status' = status
      <3>1. \A s \in Requests : req'[s] = IF s = r THEN IdleReq ELSE req[s]
        BY <1>1, <2>3 DEF Return
      <3> QED BY <1>1, <1>2, <1>3, <2>3, <3>1 DEF Fresh
    <2> QED
      BY <1>7, <2>1, <2>2, <2>3
      DEF ReqStep, Reject, Arm, Refused, EndCancel, EndMove
  <1>8. ASSUME NEW r \in Requests, ReqCall(r)
        PROVE  Fresh'
    <2>1. PICK n \in Notifs :
              \/ Cancel(r, n)
              \/ \E at \in now..MaxTime : Schedule(r, n, at) \/ Reschedule(r, n, at)
      BY <1>8 DEF ReqCall
    <2>2. CASE Cancel(r, n) \/ \E at \in now..MaxTime : Reschedule(r, n, at)
      <3>1. /\ status[n] # "absent" /\ req[r].pc = "idle"
            /\ \A m \in Notifs : status[m] = "absent" => status'[m] = "absent"
        BY <1>5, <2>2 DEF Cancel, Reschedule
      <3>2. /\ req'[r].notif = n /\ req'[r].pc # "count"
            /\ \A s \in Requests \ {r} : req'[s] = req[s]
        <4>1. CASE Cancel(r, n)
          BY <1>1, <4>1 DEF Cancel, IdleReq
        <4>2. CASE \E at \in now..MaxTime : Reschedule(r, n, at)
          BY <1>1, <4>2 DEF Reschedule, IdleReq
        <4> QED BY <2>2, <4>1, <4>2
      <3> QED BY <1>2, <3>1, <3>2 DEF Fresh
    <2>3. ASSUME NEW at \in now..MaxTime, Schedule(r, n, at)
          PROVE  Fresh'
      <3>1. /\ status[n] = "absent" /\ \A s \in Requests : req[s].notif # n
            /\ \A m \in Notifs : m # n => status'[m] = status[m]
            /\ DeviceOf[n] # None => status' = status
        BY <1>1, <2>3 DEF Schedule, Set
      <3>2. /\ req'[r].notif = n
            /\ req'[r].pc = IF DeviceOf[n] = None THEN "create" ELSE "count"
            /\ \A s \in Requests \ {r} : req'[s] = req[s]
        BY <1>1, <2>3 DEF Schedule, IdleReq
      <3> QED BY <1>2, <3>1, <3>2 DEF Fresh
    <2> QED BY <2>1, <2>2, <2>3
  <1>9. CASE Boot
    BY <1>4, <1>5, <1>9 DEF Boot, BootList, BootDone, BootFail, BootArm, db
  <1>10. CASE Exit
    BY <1>3, <1>10 DEF Exit, Fresh
  <1>11. CASE Tick \/ Shutdown \/ UNCHANGED vars
    BY <1>4, <1>11 DEF Tick, Shutdown, vars, db
  <1>12. ASSUME NEW k \in Conns, ConnStep(k) \/ ConnEvent(k)
         PROVE  Fresh'
    BY <1>4, <1>12 DEF ConnStep, ConnEvent, ConnFrame
  <1>13. ASSUME NEW d \in Devices, TurnStep(d)
         PROVE  Fresh'
    BY <1>4, <1>13 DEF TurnStep, db
  <1> QED
    BY <1>6, <1>7, <1>8, <1>9, <1>10, <1>11, <1>12, <1>13 DEF Next

\* _tasks tracks a reminder's own task, if that is still running.
TaskOf ==
    \A n \in Notifs :
        taskOf[n] # None /\ task[taskOf[n]].pc # "idle" => task[taskOf[n]].notif = n

\* A reminder whose cancel() has moved its row is not pending and never will
\* be: its task may be cancelled without anybody taking its place.
CancelDone ==
    \A r \in Requests : req[r].pc \in {"cancel", "cancelJoin"} /\ req[r].ok =>
        status[req[r].notif] \notin {"pending", "absent"}

\* The task that will fire a reminder.
Serves(t, n) == /\ Live(t, n) /\ ~task[t].cancel
                /\ (task[t].pc = "get" => task[t].found)
                /\ task[t].pc # "mark"
Served(n) == (\E t \in Tasks : Serves(t, n)) \/ Arming(n) \/ n \in todo

LEMMA NoOrphanIs ==
    NoOrphan <=> (up \in {"boot", "up"} =>
                     \A n \in Notifs : status[n] = "pending" => Served(n))
  BY DEF NoOrphan, Served, Serves

LEMMA NoOrphanPrimed ==
    NoOrphan' <=> (up' \in {"boot", "up"} =>
                     \A n \in Notifs : status'[n] = "pending" => Served(n)')
  BY DEF NoOrphan, Served, Serves

\* What Spawn does to the tasks and to _tasks.
LEMMA SpawnFacts ==
    ASSUME Typed, NEW n \in Notifs, NEW at \in Nat, Spawn(n, at)
    PROVE  \E t \in Tasks :
              /\ task[t].pc = "idle" /\ \A m \in Notifs : taskOf[m] # t
              /\ task'[t].pc = "new" /\ task'[t].notif = n /\ ~task'[t].cancel
              /\ \A u \in Tasks \ {t} : task'[u] = task[u]
              /\ taskOf' = [taskOf EXCEPT ![n] = t]
  <1>1. task \in [Tasks -> Task]
    BY DEF Typed, TypeOK
  <1>2. PICK t \in FreeTasks :
            /\ task' = [task EXCEPT ![t] = [IdleTask EXCEPT !.pc = "new",
                                                !.notif = n, !.at = at]]
            /\ taskOf' = [taskOf EXCEPT ![n] = t]
    BY DEF Spawn
  <1>3. /\ t \in Tasks /\ task[t].pc = "idle" /\ \A m \in Notifs : taskOf[m] # t
    BY DEF FreeTasks
  <1>4. /\ task'[t].pc = "new" /\ task'[t].notif = n /\ ~task'[t].cancel
        /\ \A u \in Tasks \ {t} : task'[u] = task[u]
    BY <1>1, <1>2, <1>3 DEF IdleTask
  <1> QED BY <1>2, <1>3, <1>4

\* A new task serves its reminder, and takes nobody else's place.
LEMMA SpawnServes ==
    ASSUME Typed, NEW n \in Notifs, NEW at \in Nat, Spawn(n, at)
    PROVE  /\ \E t \in Tasks : Serves(t, n)'
           /\ \A m \in Notifs : (\E t \in Tasks : Serves(t, m))
                                     => \E t \in Tasks : Serves(t, m)'
  <1>1. PICK t \in Tasks :
              /\ task[t].pc = "idle"
              /\ task'[t].pc = "new" /\ task'[t].notif = n /\ ~task'[t].cancel
              /\ \A u \in Tasks \ {t} : task'[u] = task[u]
    BY SpawnFacts
  <1>2. Serves(t, n)'
    BY <1>1 DEF Serves, Live
  <1>3. \A m \in Notifs, u \in Tasks : Serves(u, m) => Serves(u, m)'
    BY <1>1 DEF Serves, Live
  <1> QED BY <1>2, <1>3

LEMMA TaskOfNext ==
    ASSUME Typed, TaskOf, [Next]_vars
    PROVE  TaskOf'
  <1>1. /\ task \in [Tasks -> Task] /\ taskOf \in [Notifs -> Tasks \cup {None}]
        /\ None \notin Tasks
    BY ConstantsAssumption DEF Typed, TypeOK
  <1>2. ASSUME taskOf' = taskOf,
               \A t \in Tasks : task'[t].pc # "idle" =>
                   task[t].pc # "idle" /\ task'[t].notif = task[t].notif
        PROVE  TaskOf'
    BY <1>1, <1>2 DEF TaskOf
  <1>3. ASSUME NEW n \in Notifs, NEW at \in Nat, Spawn(n, at)
        PROVE  TaskOf'
    <2>1. PICK t \in Tasks :
              /\ \A m \in Notifs : taskOf[m] # t
              /\ task'[t].notif = n
              /\ \A u \in Tasks \ {t} : task'[u] = task[u]
              /\ taskOf' = [taskOf EXCEPT ![n] = t]
      BY <1>3, SpawnFacts
    <2> QED BY <1>1, <2>1 DEF TaskOf
  <1>4. ASSUME NEW t \in Tasks, TaskStep(t)
        PROVE  TaskOf'
    <2>1. \A u \in Tasks : task'[u].pc # "idle" =>
              task[u].pc # "idle" /\ task'[u].notif = task[u].notif
      BY <1>4, TaskStepShape
    <2>2. CASE taskOf' = taskOf
      BY <1>2, <2>1, <2>2
    <2>3. CASE taskOf' = [taskOf EXCEPT ![task[t].notif] = None]
      BY <1>1, <2>1, <2>3 DEF TaskOf
    <2> QED
      BY <1>4, <2>2, <2>3
      DEF TaskStep, CancelNew, Start, Cancelled, Wake, Raced, Broadcast, LookUp,
          GoOffline, Defer, SendCard, DropForRoom, Enqueue, MarkFired, Done, Finish
  <1>5. ASSUME NEW r \in Requests, ReqStep(r) \/ ReqCall(r)
        PROVE  TaskOf'
    <2>1. CASE Arm(r) \/ EndMove(r)
      <3>1. req[r].notif \in Notifs /\ req[r].at \in Nat
        BY <2>1 DEF Arm, EndMove, Typed, TypeOK, Shape, Req
      <3> QED BY <1>3, <2>1, <3>1 DEF Arm, EndMove
    <2>2. CASE CancelTask(r)
      <3>1. \A t \in Tasks : task'[t].pc = task[t].pc /\ task'[t].notif = task[t].notif
        BY <2>2, CancelTaskTyped
      <3>2. taskOf' = [taskOf EXCEPT ![req[r].notif] = None]
        BY <2>2 DEF CancelTask
      <3> QED BY <1>1, <3>1, <3>2 DEF TaskOf
    <2>3. CASE EndCancel(r)
      <3>1. task' = task /\ \A n \in Notifs : taskOf'[n] \in {taskOf[n], None}
        BY <1>1, <2>3 DEF EndCancel
      <3> QED BY <1>1, <3>1 DEF TaskOf
    <2> QED
      BY <1>2, <1>5, <2>1, <2>2, <2>3
      DEF ReqStep, ReqCall, Reject, Create, Refused, Cancel, Schedule, Reschedule
  <1>6. CASE Boot
    <2>1. ASSUME NEW n \in Notifs, BootArm(n)
          PROVE  TaskOf'
      <3>1. fireAt[n] \in Nat
        BY DEF Typed, TypeOK
      <3> QED BY <1>3, <2>1, <3>1 DEF BootArm
    <2> QED BY <1>2, <1>6, <2>1 DEF Boot, BootList, BootDone, BootFail
  <1>7. CASE Shutdown
    <2>1. \A t \in Tasks : task'[t].pc = task[t].pc /\ task'[t].notif = task[t].notif
      BY <1>1, <1>7 DEF Shutdown, Task
    <2> QED BY <1>2, <1>7, <2>1 DEF Shutdown
  <1>8. CASE Exit
    BY <1>8 DEF Exit, TaskOf
  <1>9. CASE Tick \/ UNCHANGED vars
    BY <1>2, <1>9 DEF Tick, vars
  <1>10. ASSUME NEW k \in Conns, ConnStep(k) \/ ConnEvent(k)
         PROVE  TaskOf'
    BY <1>2, <1>10 DEF ConnStep, ConnEvent, ConnFrame
  <1>11. ASSUME NEW d \in Devices, TurnStep(d)
         PROVE  TaskOf'
    BY <1>2, <1>11 DEF TurnStep
  <1> QED
    BY <1>4, <1>5, <1>6, <1>7, <1>8, <1>9, <1>10, <1>11 DEF Next

LEMMA CancelDoneNext ==
    ASSUME Typed, Fresh, CancelDone, [Next]_vars
    PROVE  CancelDone'
  <1> DEFINE Past(m) == status[m] \notin {"pending", "absent"}
             Stays == \A m \in Notifs : Past(m) => status'[m] \notin {"pending", "absent"}
  <1>1. /\ status \in [Notifs -> Statuses] /\ req \in [Requests -> Req]
    BY DEF Typed, TypeOK
  <1>2. \A r \in Requests : req[r].pc # "idle" => req[r].notif \in Notifs
    BY DEF Typed, Shape
  <1>3. ASSUME NEW n, NEW s \in {"fired", "cancelled", "failed"}, SetIfPending(n, s)
        PROVE  Stays
    BY <1>1, <1>3 DEF SetIfPending, Set
  <1>4. ASSUME Stays,
               \A r \in Requests : req'[r].pc \in {"cancel", "cancelJoin"} =>
                   /\ req[r].pc \in {"cancel", "cancelJoin"}
                   /\ req'[r].notif = req[r].notif /\ req'[r].ok = req[r].ok
        PROVE  CancelDone'
    BY <1>2, <1>4 DEF CancelDone
  <1> HIDE DEF Stays
  <1>5. status' = status => Stays
    BY DEF Stays
  <1>6. ASSUME NEW t \in Tasks, TaskStep(t)
        PROVE  CancelDone'
    <2>1. status' = status \/ SetIfPending(task[t].notif, "fired")
      BY <1>6 DEF TaskStep, CancelNew, Start, Cancelled, Wake, Raced, Broadcast, LookUp,
        GoOffline, Defer, SendCard, DropForRoom, Enqueue, MarkFired, Done, Finish
    <2>2. req' = req
      BY <1>6 DEF TaskStep
    <2> QED BY <1>3, <1>4, <1>5, <2>1, <2>2
  <1>7. ASSUME NEW r \in Requests, ReqStep(r)
        PROVE  CancelDone'
    <2>1. CASE Create(r)
      <3>1. status[req[r].notif] = "absent"
        BY <2>1 DEF Create, Fresh
      <3>2. Stays
        BY <1>1, <2>1, <3>1 DEF Create, Set, Stays
      <3>3. req'[r].pc = "create" /\ \A s \in Requests \ {r} : req'[s] = req[s]
        BY <1>1, <2>1 DEF Create, Req
      <3> QED BY <1>4, <3>2, <3>3
    <2>2. CASE CancelTask(r)
      <3>1. \A s \in Requests : req'[s].pc \in {"cancel", "cancelJoin"} =>
                /\ req[s].pc \in {"cancel", "cancelJoin"}
                /\ req'[s].notif = req[s].notif /\ req'[s].ok = req[s].ok
        BY <1>1, <2>2 DEF CancelTask, Req
      <3> QED BY <1>4, <1>5, <2>2, <3>1 DEF CancelTask
    <2>3. CASE Return(r) /\ status' = status
      <3>1. \A s \in Requests : req'[s].pc # "idle" => req'[s] = req[s]
        BY <1>1, <2>3, ReqReturn
      <3> QED BY <1>4, <1>5, <2>3, <3>1
    <2> QED
      BY <1>7, <2>1, <2>2, <2>3 DEF ReqStep, Reject, Arm, Refused, EndCancel, EndMove
  <1>8. ASSUME NEW r \in Requests, ReqCall(r)
        PROVE  CancelDone'
    <2>1. PICK n \in Notifs :
              \/ Cancel(r, n)
              \/ \E at \in now..MaxTime : Schedule(r, n, at) \/ Reschedule(r, n, at)
      BY <1>8 DEF ReqCall
    <2>2. CASE Cancel(r, n)
      <3>1. /\ req'[r].notif = n /\ req'[r].ok = (status[n] = "pending")
            /\ \A s \in Requests \ {r} : req'[s] = req[s]
            /\ SetIfPending(n, "cancelled")
        BY <1>1, <2>2 DEF Cancel, IdleReq
      <3>2. Stays
        BY <1>3, <3>1
      <3>3. status[n] = "pending" => status'[n] = "cancelled"
        BY <1>1, <3>1 DEF SetIfPending, Set
      <3> QED BY <1>2, <3>1, <3>2, <3>3 DEF CancelDone, Stays
    <2>3. ASSUME NEW at \in now..MaxTime, Schedule(r, n, at)
          PROVE  CancelDone'
      <3>1. status[n] = "absent" /\ \A m \in Notifs : m # n => status'[m] = status[m]
        BY <1>1, <2>3 DEF Schedule, Set
      <3>2. Stays
        BY <3>1 DEF Stays
      <3>3. req'[r].pc \in {"create", "count"} /\ \A s \in Requests \ {r} : req'[s] = req[s]
        BY <1>1, <2>3 DEF Schedule, IdleReq
      <3> QED BY <1>4, <3>2, <3>3
    <2>4. ASSUME NEW at \in now..MaxTime, Reschedule(r, n, at)
          PROVE  CancelDone'
      <3>1. req'[r].pc = "move" /\ \A s \in Requests \ {r} : req'[s] = req[s]
        BY <1>1, <2>4 DEF Reschedule, IdleReq
      <3> QED BY <1>4, <1>5, <2>4, <3>1 DEF Reschedule
    <2> QED BY <2>1, <2>2, <2>3, <2>4
  <1>9. CASE Boot
    BY <1>3, <1>4, <1>5, <1>9 DEF Boot, BootList, BootDone, BootFail, BootArm, db
  <1>10. CASE Exit
    BY <1>10 DEF Exit, IdleReq, CancelDone
  <1>11. CASE Tick \/ Shutdown \/ UNCHANGED vars
    BY <1>4, <1>5, <1>11 DEF Tick, Shutdown, vars, db
  <1>12. ASSUME NEW k \in Conns, ConnStep(k) \/ ConnEvent(k)
         PROVE  CancelDone'
    BY <1>4, <1>5, <1>12 DEF ConnStep, ConnEvent, ConnFrame
  <1>13. ASSUME NEW d \in Devices, TurnStep(d)
         PROVE  CancelDone'
    BY <1>4, <1>5, <1>13 DEF TurnStep, db
  <1> QED
    BY <1>6, <1>7, <1>8, <1>9, <1>10, <1>11, <1>12, <1>13 DEF Next

\* A task that serves a reminder goes on until it has fired it.
LEMMA TaskStepServes ==
    ASSUME Typed, NEW t \in Tasks, TaskStep(t), NEW n \in Notifs,
           status'[n] = "pending", Serves(t, n)
    PROVE  Serves(t, n)'
  <1>1. /\ task \in [Tasks -> Task] /\ status \in [Notifs -> Statuses]
        /\ task[t].notif = n /\ task[t].pc # "idle" /\ ~task[t].cancel
        /\ task[t].pc = "get" => task[t].found
        /\ task[t].pc # "mark"
    BY DEF Typed, TypeOK, Serves, Live
  <1>2. status[n] = "pending" /\ ~SetIfPending(n, "fired")
    BY <1>1 DEF TaskStep, CancelNew, Start, Cancelled, Wake, Raced, Broadcast, LookUp,
        GoOffline, Defer, SendCard, DropForRoom, Enqueue, MarkFired, Done, Finish,
        SetIfPending, Set
  <1>3. CASE Start(t) \/ DropForRoom(t) \/ Enqueue(t)
    BY <1>1, <1>3 DEF Start, DropForRoom, Enqueue, Serves, Live, Task
  <1>4. CASE Wake(t)
    BY <1>1, <1>2, <1>4 DEF Wake, Serves, Live, Task
  <1>5. CASE LookUp(t) \/ GoOffline(t)
    BY <1>1, <1>5 DEF LookUp, GoOffline, Serves, Live, Task
  <1>6. CASE SendCard(t)
    BY <1>1, <1>2, <1>6 DEF SendCard, Serves, Live, Task
  <1>7. ~(\/ CancelNew(t) \/ Cancelled(t) \/ Raced(t) \/ Done(t) \/ Broadcast(t)
          \/ Defer(t) \/ MarkFired(t))
    BY <1>1, <1>2 DEF CancelNew, Cancelled, Raced, Done, Broadcast, Defer, MarkFired,
                      Awaiting
  <1> QED BY <1>3, <1>4, <1>5, <1>6, <1>7 DEF TaskStep

\* The steps of the calls: creating and moving hand over from the call to the
\* new task, and cancelling takes a task from a reminder that needs none.
LEMMA ReqStepServes ==
    ASSUME Typed, TaskOf, CancelDone, NEW r \in Requests, ReqStep(r),
           NEW n \in Notifs, status'[n] = "pending", status[n] = "pending" => Served(n)
    PROVE  Served(n)'
  <1>1. /\ task \in [Tasks -> Task] /\ status \in [Notifs -> Statuses]
        /\ req \in [Requests -> Req] /\ taskOf \in [Notifs -> Tasks \cup {None}]
        /\ todo' = todo
    BY DEF Typed, TypeOK, ReqStep, process
  <1>2. req[r].pc # "idle" => req[r].notif \in Notifs
    BY DEF Typed, Shape
  <1>3. CASE Create(r)
    <2>1. /\ \A s \in Requests \ {r} : req'[s] = req[s]
          /\ req'[r].pc = "create" /\ req'[r].notif = req[r].notif
          /\ req[r].pc = "count" /\ task' = task
          /\ n # req[r].notif => status[n] = "pending"
      BY <1>1, <1>3 DEF Create, Set, Req
    <2>2. Arming(n) => Arming(n)'
      BY <2>1 DEF Arming
    <2>3. n = req[r].notif => Arming(n)'
      BY <2>1 DEF Arming
    <2>4. \A t \in Tasks : Serves(t, n) => Serves(t, n)'
      BY <2>1 DEF Serves, Live
    <2> QED BY <1>1, <2>1, <2>2, <2>3, <2>4 DEF Served
  <1>4. CASE Arm(r) \/ EndMove(r)
    <2>1. /\ req[r].notif \in Notifs /\ req[r].at \in Nat /\ status' = status
          /\ Spawn(req[r].notif, req[r].at) /\ Return(r)
      BY <1>1, <1>2, <1>4 DEF Arm, EndMove, Req
    <2>2. PICK m \in Notifs, at \in Nat : m = req[r].notif /\ Spawn(m, at)
      BY <2>1
    <2>3. \A s \in Requests \ {r} : req'[s] = req[s]
      BY <1>1, <2>1 DEF Return
    <2>4. Arming(n) => n = m \/ Arming(n)'
      BY <2>2, <2>3 DEF Arming
    <2> QED BY <1>1, <2>1, <2>2, <2>4, SpawnServes DEF Served
  <1>5. CASE CancelTask(r)
    <2>1. PICK m \in Notifs, u \in Tasks :
              /\ m = req[r].notif /\ u = taskOf[m]
              /\ req[r].pc \in {"cancel", "move"} /\ req[r].ok
              /\ task[u].pc # "idle"
              /\ task' = [task EXCEPT ![u].cancel = TRUE]
              /\ req' = [req EXCEPT ![r].wait = u,
                         ![r].pc = IF @ = "cancel" THEN "cancelJoin" ELSE "moveJoin"]
              /\ status' = status
      BY <1>1, <1>2, <1>5 DEF CancelTask, Tracked
    <2>2. task[u].notif = m
      BY <2>1, ConstantsAssumption DEF TaskOf
    <2>3. /\ \A s \in Requests \ {r} : req'[s] = req[s]
          /\ req'[r].notif = m
          /\ req[r].pc = "move" => req'[r].pc = "moveJoin"
      BY <1>1, <2>1 DEF Req
    <2>4. CASE n = m
      <3>1. req[r].pc = "move"
        BY <2>1, <2>4 DEF CancelDone
      <3>2. Arming(n)'
        BY <2>3, <2>4, <3>1 DEF Arming
      <3> QED BY <3>2 DEF Served
    <2>5. CASE n # m
      <3>1. \A t \in Tasks \ {u} : task'[t] = task[t]
        BY <1>1, <2>1
      <3>2. \A t \in Tasks : Serves(t, n) => Serves(t, n)'
        BY <2>2, <2>5, <3>1 DEF Serves, Live
      <3>3. Arming(n) => Arming(n)'
        BY <2>1, <2>3, <2>5 DEF Arming
      <3> QED BY <1>1, <2>1, <3>2, <3>3 DEF Served
    <2> QED BY <2>4, <2>5
  <1>6. CASE Reject(r) \/ Refused(r) \/ EndCancel(r)
    <2>1. /\ Return(r) /\ status' = status /\ task' = task
          /\ \/ req[r].pc \in {"count", "cancel", "cancelJoin"}
             \/ req[r].pc = "move" /\ ~req[r].ok
      BY <1>6 DEF Reject, Refused, EndCancel
    <2>2. \A s \in Requests \ {r} : req'[s] = req[s]
      BY <1>1, <2>1 DEF Return
    <2>3. Arming(n) => Arming(n)'
      BY <2>1, <2>2 DEF Arming
    <2>4. \A t \in Tasks : Serves(t, n) => Serves(t, n)'
      BY <2>1 DEF Serves, Live
    <2> QED BY <1>1, <2>1, <2>3, <2>4 DEF Served
  <1> QED BY <1>3, <1>4, <1>5, <1>6 DEF ReqStep

LEMMA NoOrphanNext ==
    ASSUME Typed, TaskOf, CancelDone, NoOrphan, [Next]_vars
    PROVE  NoOrphan'
  <1>1. /\ task \in [Tasks -> Task] /\ status \in [Notifs -> Statuses]
        /\ req \in [Requests -> Req]
    BY DEF Typed, TypeOK
  <1>2. ASSUME UNCHANGED <<up, todo, task, req>>,
               \A n \in Notifs : status'[n] = "pending" => status[n] = "pending"
        PROVE  NoOrphan'
    <2>1. \A n \in Notifs : Served(n) => Served(n)'
      BY <1>2 DEF Served, Serves, Live, Arming
    <2> QED BY <1>2, <2>1, NoOrphanIs, NoOrphanPrimed
  <1>3. ASSUME NEW t \in Tasks, TaskStep(t)
        PROVE  NoOrphan'
    <2>1. /\ UNCHANGED <<up, todo, req>>
          /\ \A u \in Tasks \ {t} : task'[u] = task[u]
      BY <1>3, TaskStepShape DEF TaskStep, process
    <2>2. \A n \in Notifs : status'[n] = "pending" => status[n] = "pending"
      <3>1. status' = status \/ SetIfPending(task[t].notif, "fired")
        BY <1>3 DEF TaskStep, CancelNew, Start, Cancelled, Wake, Raced, Broadcast,
          LookUp, GoOffline, Defer, SendCard, DropForRoom, Enqueue, MarkFired, Done,
          Finish
      <3> QED BY <1>1, <3>1 DEF SetIfPending, Set
    <2>3. \A u \in Tasks \ {t} : \A n \in Notifs : Serves(u, n) => Serves(u, n)'
      BY <2>1 DEF Serves, Live
    <2>4. \A n \in Notifs : Arming(n) => Arming(n)'
      BY <2>1 DEF Arming
    <2>5. ASSUME NEW n \in Notifs, status'[n] = "pending", Served(n)
          PROVE  Served(n)'
      BY <1>3, <2>1, <2>3, <2>4, <2>5, TaskStepServes DEF Served
    <2> QED BY <2>1, <2>2, <2>5, NoOrphanIs, NoOrphanPrimed
  <1>4. ASSUME NEW r \in Requests, ReqStep(r)
        PROVE  NoOrphan'
    <2>1. up' = up
      BY <1>4 DEF ReqStep, process
    <2> QED BY <1>4, <2>1, ReqStepServes, NoOrphanIs, NoOrphanPrimed
  <1>5. ASSUME NEW r \in Requests, ReqCall(r)
        PROVE  NoOrphan'
    <2>1. /\ UNCHANGED <<up, todo, task>> /\ req[r].pc = "idle"
      BY <1>5 DEF ReqCall, process, Cancel, Schedule, Reschedule
    <2>2. PICK n \in Notifs :
              \/ Cancel(r, n)
              \/ \E at \in now..MaxTime : Schedule(r, n, at) \/ Reschedule(r, n, at)
      BY <1>5 DEF ReqCall
    <2>3. /\ \A s \in Requests \ {r} : req'[s] = req[s]
          /\ req'[r].notif = n
          /\ \A m \in Notifs : status'[m] = "pending" =>
                status[m] = "pending" \/ (m = n /\ req'[r].pc = "create")
      <3>1. CASE Cancel(r, n)
        BY <1>1, <3>1 DEF Cancel, SetIfPending, Set, IdleReq
      <3>2. CASE \E at \in now..MaxTime : Reschedule(r, n, at)
        BY <1>1, <3>2 DEF Reschedule, IdleReq
      <3>3. ASSUME NEW at \in now..MaxTime, Schedule(r, n, at)
            PROVE  /\ \A s \in Requests \ {r} : req'[s] = req[s]
                   /\ req'[r].notif = n
                   /\ \A m \in Notifs : status'[m] = "pending" =>
                         status[m] = "pending" \/ (m = n /\ req'[r].pc = "create")
        <4>1. /\ \A s \in Requests \ {r} : req'[s] = req[s]
              /\ req'[r].notif = n
              /\ DeviceOf[n] = None => req'[r].pc = "create"
          BY <1>1, <3>3 DEF Schedule, IdleReq
        <4>2. IF DeviceOf[n] = None THEN status' = [status EXCEPT ![n] = "pending"]
                                    ELSE status' = status
          BY <3>3 DEF Schedule, Set
        <4> QED BY <1>1, <4>1, <4>2
      <3> QED BY <2>2, <3>1, <3>2, <3>3
    <2>4. \A m \in Notifs : Arming(m) => Arming(m)'
      BY <2>1, <2>3 DEF Arming
    <2>5. req'[r].pc = "create" => Arming(n)'
      BY <2>3 DEF Arming
    <2>6. \A m \in Notifs : Served(m) => Served(m)'
      BY <2>1, <2>4 DEF Served, Serves, Live
    <2>7. Arming(n)' => Served(n)'
      BY DEF Served
    <2> QED BY <2>1, <2>3, <2>5, <2>6, <2>7, NoOrphanIs, NoOrphanPrimed
  <1>6. CASE Boot
    <2>1. CASE BootList
      <3>1. \A n \in Notifs : status'[n] = "pending" => n \in todo'
        BY <2>1 DEF BootList, db
      <3> QED BY <3>1, NoOrphanPrimed DEF Served
    <2>2. CASE BootDone
      <3>1. \A n \in Notifs : Served(n) => Served(n)'
        BY <2>2 DEF BootDone, Served, Serves, Live, Arming
      <3> QED BY <2>2, <3>1, NoOrphanIs, NoOrphanPrimed DEF BootDone, db
    <2>3. ASSUME NEW n \in Notifs, BootFail(n)
          PROVE  NoOrphan'
      <3>1. \A m \in Notifs : status'[m] = "pending" => status[m] = "pending" /\ m # n
        BY <1>1, <2>3 DEF BootFail, SetIfPending, Set
      <3>2. \A m \in Notifs : Served(m) => m = n \/ Served(m)'
        BY <2>3 DEF BootFail, Served, Serves, Live, Arming
      <3> QED BY <2>3, <3>1, <3>2, NoOrphanIs, NoOrphanPrimed DEF BootFail
    <2>4. ASSUME NEW n \in Notifs, BootArm(n)
          PROVE  NoOrphan'
      <3>1. PICK at \in Nat : Spawn(n, at)
        BY <2>4 DEF BootArm, Typed, TypeOK
      <3>2. /\ UNCHANGED <<up, status, req>> /\ todo' = todo \ {n} /\ up = "boot"
        BY <2>4 DEF BootArm, db
      <3>3. \A m \in Notifs : Arming(m) => Arming(m)'
        BY <3>2 DEF Arming
      <3>4. \A m \in Notifs : Served(m) => Served(m)'
        BY <3>1, <3>2, <3>3, SpawnServes DEF Served
      <3> QED BY <3>2, <3>4, NoOrphanIs, NoOrphanPrimed
    <2> QED BY <1>6, <2>1, <2>2, <2>3, <2>4 DEF Boot
  <1>7. CASE Shutdown \/ Exit
    BY <1>7, NoOrphanPrimed DEF Shutdown, Exit
  <1>8. CASE Tick \/ UNCHANGED vars
    BY <1>2, <1>8 DEF Tick, vars, process, db
  <1>9. ASSUME NEW k \in Conns, ConnStep(k) \/ ConnEvent(k)
        PROVE  NoOrphan'
    BY <1>2, <1>9 DEF ConnStep, ConnEvent, ConnFrame, process
  <1>10. ASSUME NEW d \in Devices, TurnStep(d)
         PROVE  NoOrphan'
    BY <1>2, <1>10 DEF TurnStep, process, db
  <1> QED
    BY <1>3, <1>4, <1>5, <1>6, <1>7, <1>8, <1>9, <1>10 DEF Next

\* While the server runs, every pending reminder has a task that will fire it,
\* or a call or the boot replay about to start one: no interleaving of
\* schedule, cancel, reschedule, their tasks and the boot leaves a row that
\* only the next restart would find.
THEOREM NoneOrphaned == Spec => []NoOrphan
  <1>1. Init => Fresh /\ TaskOf /\ CancelDone /\ NoOrphan
    BY DEF Init, Fresh, TaskOf, CancelDone, NoOrphan, IdleReq
  <1>2. Typed /\ Fresh /\ TaskOf /\ CancelDone /\ NoOrphan /\ [Next]_vars
            => Fresh' /\ TaskOf' /\ CancelDone' /\ NoOrphan'
    BY FreshNext, TaskOfNext, CancelDoneNext, NoOrphanNext
  <1> QED BY <1>1, <1>2, AlwaysTyped, PTL DEF Spec

-----------------------------------------------------------------------------
(* Scheduler implements Reminder: with the reminders that some task is     *)
(* delivering as the attempts, every step of the scheduler, its store, its *)
(* callers and the process is a step of Reminder or a stutter.             *)

Attempts == {n \in Notifs : \E t \in Tasks : Live(t, n) /\ Attempting(t)}

-----------------------------------------------------------------------------
(* The attempts.                                                           *)

\* Attempts depend on the tasks alone: a step that turns no task into a
\* delivering one can only end attempts.
LEMMA AttemptsEnd ==
    ASSUME \A t \in Tasks : \A n \in Notifs :
               (Live(t, n) /\ Attempting(t))' => Live(t, n) /\ Attempting(t)
    PROVE  Attempts' \subseteq Attempts
  BY DEF Attempts

\* A step of one task that goes on with its delivery changes no attempt.
LEMMA AttemptsKept ==
    ASSUME NEW t \in Tasks, \A u \in Tasks \ {t} : task'[u] = task[u],
           task'[t].notif = task[t].notif,
           Attempting(t)' <=> Attempting(t),
           task'[t].pc # "idle" <=> task[t].pc # "idle"
    PROVE  Attempts' = Attempts
  <1>1. \A u \in Tasks : \A n \in Notifs :
            (Live(u, n) /\ Attempting(u))' <=> Live(u, n) /\ Attempting(u)
    BY DEF Live, Attempting
  <1> QED BY <1>1 DEF Attempts

LEMMA SpawnAttempts ==
    ASSUME Typed, NEW n \in Notifs, NEW at \in Nat, Spawn(n, at)
    PROVE  Attempts' \subseteq Attempts
  <1>1. task \in [Tasks -> Task]
    BY DEF Typed, TypeOK
  <1>2. PICK t \in Tasks : task' = [task EXCEPT ![t] = [IdleTask EXCEPT !.pc = "new",
                                        !.notif = n, !.at = at]]
    BY DEF Spawn, FreeTasks
  <1>3. task'[t].pc = "new" /\ \A u \in Tasks \ {t} : task'[u] = task[u]
    BY <1>1, <1>2 DEF IdleTask
  <1>4. \A u \in Tasks : \A m \in Notifs :
            (Live(u, m) /\ Attempting(u))' => Live(u, m) /\ Attempting(u)
    BY <1>3 DEF Live, Attempting
  <1> QED BY <1>4, AttemptsEnd

-----------------------------------------------------------------------------
(* The refinement.                                                         *)

LEMMA InitRefines == Init => Promise!Init
  BY DEF Init, Promise!Init, IdleTask, Live, Attempting

\* A step that moves no row and hands nothing out, and starts no attempt.
LEMMA QuietRefines ==
    ASSUME UNCHANGED <<status, handed>>, Attempts' \subseteq Attempts
    PROVE  [Promise!Next]_(Promise!vars)
  BY DEF Promise!Next, Promise!End, Attempts

\* A conditional update of a pending row is a move of Reminder, or nothing.
LEMMA MoveRefines ==
    ASSUME status \in [Notifs -> Statuses], NEW n \in Notifs,
           NEW s \in {"fired", "cancelled", "failed"}, SetIfPending(n, s),
           handed' = handed, Attempts' = Attempts,
           s = "fired" /\ DeviceOf[n] # None => n \in handed
    PROVE  [Promise!Next]_(Promise!vars)
  <1>1. CASE status[n] = "pending"
    <2>1. status' = [status EXCEPT ![n] = s]
      BY <1>1 DEF SetIfPending, Set
    <2>2. CASE s = "fired"
      <3>1. Promise!Fire(n)
        BY <1>1, <2>1, <2>2 DEF Promise!Fire, Promise!Move, Attempts
      <3> QED BY <3>1 DEF Promise!Next
    <2>3. CASE s = "cancelled"
      <3>1. Promise!Cancel(n)
        BY <1>1, <2>1, <2>3 DEF Promise!Cancel, Promise!Move, Attempts
      <3> QED BY <3>1 DEF Promise!Next
    <2>4. CASE s = "failed"
      <3>1. Promise!Fail(n)
        BY <1>1, <2>1, <2>4 DEF Promise!Fail, Promise!Move, Attempts
      <3> QED BY <3>1 DEF Promise!Next
    <2> QED BY <2>2, <2>3, <2>4
  <1>2. CASE status[n] # "pending"
    <2>1. status' = status
      BY <1>2 DEF SetIfPending
    <2> QED BY <2>1, QuietRefines
  <1> QED BY <1>1, <1>2

\* The card leaves, and the row may be marked with it.
LEMMA HandOverRefines ==
    ASSUME status \in [Notifs -> Statuses], NEW n \in Attempts,
           handed' = handed \cup {n}, Attempts' = Attempts,
           status' = status \/ SetIfPending(n, "fired")
    PROVE  [Promise!Next]_(Promise!vars)
  <1>1. n \in Notifs
    BY DEF Attempts
  <1>2. status' \in {status, [status EXCEPT ![n] = IF @ = "pending"
                                                   THEN "fired" ELSE @]}
    BY <1>1 DEF SetIfPending, Set
  <1>3. Promise!HandOver(n)
    BY <1>2 DEF Promise!HandOver, Attempts
  <1> QED BY <1>1, <1>3 DEF Promise!Next

-----------------------------------------------------------------------------
(* The steps.                                                              *)

LEMMA TaskStepRefines ==
    ASSUME Typed, HandedFirst, NEW t \in Tasks, TaskStep(t)
    PROVE  [Promise!Next]_(Promise!vars)
  <1>1. task \in [Tasks -> Task] /\ status \in [Notifs -> Statuses]
    BY DEF Typed, TypeOK
  <1>2. task[t].pc # "idle" => task[t].notif \in Notifs
    BY DEF Typed, Shape
  <1> DEFINE n == task[t].notif
  <1>3. CASE CancelNew(t) \/ Cancelled(t) \/ Raced(t) \/ Done(t)
    <2>1. /\ UNCHANGED <<status, handed>>
          /\ task' = [task EXCEPT ![t] = IdleTask]
      BY <1>3 DEF CancelNew, Cancelled, Raced, Done, Finish, cards
    <2>2. \A u \in Tasks : \A m \in Notifs :
              (Live(u, m) /\ Attempting(u))' => Live(u, m) /\ Attempting(u)
      BY <1>1, <2>1 DEF Live, Attempting, IdleTask
    <2> QED BY <2>1, <2>2, AttemptsEnd, QuietRefines
  <1>4. CASE Start(t)
    <2>1. UNCHANGED <<status, handed>>
      BY <1>4 DEF Start, cards
    <2>2. /\ \A u \in Tasks \ {t} : task'[u] = task[u]
          /\ task[t].pc = "new" /\ task'[t].pc = "sleep"
          /\ task'[t].notif = task[t].notif
      BY <1>1, <1>4 DEF Start, Awaiting, Task
    <2>3. Attempts' = Attempts
      <3>1. Attempting(t)' <=> Attempting(t)
        BY <2>2 DEF Attempting
      <3> QED BY <2>2, <3>1, AttemptsKept
    <2> QED BY <2>1, <2>3, QuietRefines
  <1>5. CASE Wake(t)
    <2>1. UNCHANGED <<status, handed>>
      BY <1>5 DEF Wake, cards
    <2>2. /\ \A u \in Tasks \ {t} : task'[u] = task[u]
          /\ task[t].pc = "sleep" /\ task'[t].pc = "get"
          /\ task'[t].notif = task[t].notif
          /\ task'[t].found <=> status[n] = "pending"
      BY <1>1, <1>5 DEF Wake, Awaiting, Task
    <2>3. CASE status[n] = "pending"
      <3>1. Attempting(t)' /\ ~Attempting(t) /\ n \in Notifs
        BY <1>2, <2>2, <2>3 DEF Attempting
      <3>2. task'[t].notif = n /\ task'[t].pc # "idle"
        BY <2>2
      <3>3. \A u \in Tasks \ {t} : \A m \in Notifs :
                (Live(u, m) /\ Attempting(u))' <=> Live(u, m) /\ Attempting(u)
        BY <2>2 DEF Live, Attempting
      <3>4. Attempts' = Attempts \cup {n}
        <4>1. \A m \in Notifs : \A u \in Tasks :
                  (Live(u, m) /\ Attempting(u))'
                      <=> (Live(u, m) /\ Attempting(u)) \/ (u = t /\ m = n)
          <5>1. \A m \in Notifs : (Live(t, m) /\ Attempting(t))' <=> m = n
            BY <3>1, <3>2 DEF Live
          <5>2. \A m \in Notifs : ~(Live(t, m) /\ Attempting(t))
            BY <3>1
          <5> QED BY <3>3, <5>1, <5>2
        <4> QED BY <3>1, <4>1 DEF Attempts
      <3>5. Promise!Begin(n)
        BY <2>1, <2>3, <3>4 DEF Promise!Begin, Attempts
      <3> QED BY <3>1, <3>5 DEF Promise!Next
    <2>4. CASE status[n] # "pending"
      <3>1. Attempting(t)' <=> Attempting(t)
        BY <2>2, <2>4 DEF Attempting
      <3> QED BY <2>1, <2>2, <3>1, AttemptsKept, QuietRefines
    <2> QED BY <2>3, <2>4
  <1>6. ASSUME ~Start(t), ~Wake(t),
               ~(CancelNew(t) \/ Cancelled(t) \/ Raced(t) \/ Done(t))
        PROVE  Attempts' = Attempts /\ n \in Attempts
    <2>1. /\ \A u \in Tasks \ {t} : task'[u] = task[u]
          /\ task'[t].notif = task[t].notif
          /\ Attempting(t) /\ task[t].pc # "idle"
          /\ task'[t].pc \in {"lookup", "count", "drop", "insert", "send", "mark"}
      BY <1>1, <1>6 DEF TaskStep, Broadcast, LookUp, GoOffline, Defer, SendCard,
         DropForRoom, Enqueue, MarkFired, Awaiting, Attempting, Task
    <2>2. Attempting(t)' /\ task'[t].pc # "idle"
      BY <2>1 DEF Attempting
    <2>3. Live(t, n)
      BY <2>1 DEF Live
    <2> QED BY <1>2, <2>1, <2>2, <2>3, AttemptsKept DEF Attempts
  <1>7. CASE LookUp(t) \/ GoOffline(t) \/ DropForRoom(t)
    <2>1. UNCHANGED <<status, handed>>
      BY <1>7 DEF LookUp, GoOffline, DropForRoom, cards
    <2>2. ~Start(t) /\ ~Wake(t)
          /\ ~(CancelNew(t) \/ Cancelled(t) \/ Raced(t) \/ Done(t))
      BY <1>7 DEF LookUp, GoOffline, DropForRoom, Start, Wake, CancelNew,
         Cancelled, Raced, Done, Awaiting
    <2> QED BY <1>6, <2>1, <2>2, QuietRefines
  <1>8. CASE Broadcast(t)
    <2>1. ~Start(t) /\ ~Wake(t)
          /\ ~(CancelNew(t) \/ Cancelled(t) \/ Raced(t) \/ Done(t))
      BY <1>8 DEF Broadcast, Start, Wake, CancelNew, Cancelled, Raced, Done, Awaiting
    <2>2. /\ SetIfPending(n, "fired") /\ handed' = handed
          /\ DeviceOf[n] = None
      BY <1>8 DEF Broadcast, cards
    <2> QED BY <1>1, <1>2, <1>6, <2>1, <2>2, MoveRefines DEF Attempts
  <1>9. CASE MarkFired(t)
    <2>1. ~Start(t) /\ ~Wake(t)
          /\ ~(CancelNew(t) \/ Cancelled(t) \/ Raced(t) \/ Done(t))
      BY <1>9 DEF MarkFired, Start, Wake, CancelNew, Cancelled, Raced, Done,
         Awaiting, TaskAwaits
    <2>2. SetIfPending(n, "fired") /\ handed' = handed /\ n \in handed
      BY <1>9 DEF MarkFired, Awaiting, cards, HandedFirst
    <2> QED BY <1>1, <1>2, <1>6, <2>1, <2>2, MoveRefines DEF Attempts
  <1>10. CASE Defer(t) \/ SendCard(t) \/ Enqueue(t)
    <2>1. ~Start(t) /\ ~Wake(t)
          /\ ~(CancelNew(t) \/ Cancelled(t) \/ Raced(t) \/ Done(t))
      BY <1>10 DEF Defer, SendCard, Enqueue, Start, Wake, CancelNew, Cancelled,
         Raced, Done, Awaiting
    <2>2. /\ handed' = handed \cup {n}
          /\ status' = status \/ SetIfPending(n, "fired")
      BY <1>10 DEF Defer, SendCard, Enqueue
    <2> QED BY <1>1, <1>6, <2>1, <2>2, HandOverRefines
  <1> QED
    BY <1>3, <1>4, <1>5, <1>7, <1>8, <1>9, <1>10 DEF TaskStep

LEMMA ReqStepRefines ==
    ASSUME Typed, Fresh, NEW r \in Requests, ReqStep(r)
    PROVE  [Promise!Next]_(Promise!vars)
  <1>1. /\ task \in [Tasks -> Task] /\ status \in [Notifs -> Statuses]
        /\ handed' = handed
    BY DEF Typed, TypeOK, ReqStep
  <1>2. CASE Create(r)
    <2>1. /\ req[r].notif \in Notifs /\ status[req[r].notif] = "absent"
          /\ status' = [status EXCEPT ![req[r].notif] = "pending"]
          /\ task' = task
      BY <1>2 DEF Create, Set, Fresh, Typed, Shape
    <2>2. Attempts' = Attempts
      BY <2>1 DEF Attempts, Live, Attempting
    <2>3. Promise!Create(req[r].notif)
      BY <1>1, <2>1, <2>2 DEF Promise!Create, Promise!Move, Attempts
    <2> QED BY <2>1, <2>3 DEF Promise!Next
  <1>3. CASE CancelTask(r)
    <2>1. \A t \in Tasks : /\ task'[t].pc = task[t].pc
                           /\ task'[t].notif = task[t].notif
                           /\ task'[t].found = task[t].found
      BY <1>1, <1>3 DEF CancelTask, Task
    <2>2. Attempts' \subseteq Attempts
      BY <2>1, AttemptsEnd DEF Live, Attempting
    <2> QED BY <1>1, <1>3, <2>2, QuietRefines DEF CancelTask
  <1>4. CASE Arm(r) \/ EndMove(r)
    <2>1. req[r].notif \in Notifs /\ req[r].at \in Nat
      BY <1>4 DEF Arm, EndMove, Typed, TypeOK, Shape, Req
    <2> QED BY <1>1, <1>4, <2>1, SpawnAttempts, QuietRefines DEF Arm, EndMove
  <1>5. CASE UNCHANGED <<status, task>>
    <2>1. Attempts' \subseteq Attempts
      BY <1>5 DEF Attempts, Live, Attempting
    <2> QED BY <1>1, <1>5, <2>1, QuietRefines
  <1> QED
    BY <1>2, <1>3, <1>4, <1>5 DEF ReqStep, Reject, Refused, EndCancel

LEMMA ReqCallRefines ==
    ASSUME Typed, NEW r \in Requests, ReqCall(r)
    PROVE  [Promise!Next]_(Promise!vars)
  <1>1. /\ status \in [Notifs -> Statuses] /\ handed' = handed
        /\ UNCHANGED task
    BY DEF Typed, TypeOK, ReqCall, Cancel, Schedule, Reschedule
  <1>2. Attempts' = Attempts
    BY <1>1 DEF Attempts, Live, Attempting
  <1>3. PICK n \in Notifs :
            \/ Cancel(r, n)
            \/ \E at \in now..MaxTime : Schedule(r, n, at) \/ Reschedule(r, n, at)
    BY DEF ReqCall
  <1>4. CASE Cancel(r, n)
    BY <1>1, <1>2, <1>4, MoveRefines DEF Cancel
  <1>5. ASSUME NEW at \in now..MaxTime, Schedule(r, n, at)
        PROVE  [Promise!Next]_(Promise!vars)
    <2>1. CASE DeviceOf[n] = None
      <3>1. /\ status[n] = "absent"
            /\ status' = [status EXCEPT ![n] = "pending"]
        BY <1>5, <2>1 DEF Schedule, Set
      <3>2. Promise!Create(n)
        BY <1>1, <1>2, <3>1 DEF Promise!Create, Promise!Move, Attempts
      <3> QED BY <3>2 DEF Promise!Next
    <2>2. CASE DeviceOf[n] # None
      BY <1>1, <1>2, <1>5, <2>2, QuietRefines DEF Schedule
    <2> QED BY <2>1, <2>2
  <1>6. ASSUME NEW at \in now..MaxTime, Reschedule(r, n, at)
        PROVE  [Promise!Next]_(Promise!vars)
    BY <1>1, <1>2, <1>6, QuietRefines DEF Reschedule
  <1> QED BY <1>3, <1>4, <1>5, <1>6

LEMMA BootRefines ==
    ASSUME Typed, Boot
    PROVE  [Promise!Next]_(Promise!vars)
  <1>1. status \in [Notifs -> Statuses] /\ fireAt \in [Notifs -> Nat]
    BY DEF Typed, TypeOK
  <1>2. ASSUME UNCHANGED <<status, handed, task>>
        PROVE  [Promise!Next]_(Promise!vars)
    BY <1>2, QuietRefines DEF Attempts, Live, Attempting
  <1>3. CASE BootList \/ BootDone
    BY <1>2, <1>3 DEF BootList, BootDone, db, history
  <1>4. ASSUME NEW n \in Notifs, BootFail(n)
        PROVE  [Promise!Next]_(Promise!vars)
    <2>1. UNCHANGED <<handed, task>> /\ SetIfPending(n, "failed")
      BY <1>4 DEF BootFail, history
    <2>2. Attempts' = Attempts
      BY <2>1 DEF Attempts, Live, Attempting
    <2> QED BY <1>1, <2>1, <2>2, MoveRefines
  <1>5. ASSUME NEW n \in Notifs, BootArm(n)
        PROVE  [Promise!Next]_(Promise!vars)
    BY <1>1, <1>5, SpawnAttempts, QuietRefines DEF BootArm, db, history
  <1> QED BY <1>3, <1>4, <1>5 DEF Boot

LEMMA NextRefines ==
    ASSUME Typed, HandedFirst, Fresh, [Next]_vars
    PROVE  [Promise!Next]_(Promise!vars)
  <1>1. task \in [Tasks -> Task]
    BY DEF Typed, TypeOK
  <1>2. ASSUME UNCHANGED <<status, handed, task>>
        PROVE  [Promise!Next]_(Promise!vars)
    BY <1>2, QuietRefines DEF Attempts, Live, Attempting
  <1>3. CASE Tick \/ UNCHANGED vars
    BY <1>2, <1>3 DEF Tick, vars, db, history
  <1>4. ASSUME NEW k \in Conns, ConnStep(k) \/ ConnEvent(k)
        PROVE  [Promise!Next]_(Promise!vars)
    BY <1>2, <1>4 DEF ConnStep, ConnEvent, ConnFrame
  <1>5. ASSUME NEW d \in Devices, TurnStep(d)
        PROVE  [Promise!Next]_(Promise!vars)
    BY <1>2, <1>5 DEF TurnStep, db
  <1>6. CASE Shutdown
    <2>1. \A t \in Tasks : /\ task'[t].pc = task[t].pc
                           /\ task'[t].notif = task[t].notif
                           /\ task'[t].found = task[t].found
      BY <1>1, <1>6 DEF Shutdown, Task
    <2>2. Attempts' \subseteq Attempts
      BY <2>1, AttemptsEnd DEF Live, Attempting
    <2> QED BY <1>6, <2>2, QuietRefines DEF Shutdown, db, history
  <1>7. CASE Exit
    <2>1. Attempts' \subseteq Attempts
      BY <1>7 DEF Exit, Attempts, Live, IdleTask
    <2> QED BY <1>7, <2>1, QuietRefines DEF Exit, db
  <1> QED
    BY <1>3, <1>4, <1>5, <1>6, <1>7, TaskStepRefines, ReqStepRefines,
       ReqCallRefines, BootRefines
    DEF Next

\* The scheduler keeps the promise of module Reminder for every number of
\* reminders, tasks, callers, connections and restarts: fired, cancelled and
\* failed are final, no card leaves except from an attempt begun while the
\* reminder was pending, and a reminder with a device is fired only after its
\* card left.
THEOREM Refines == Spec => Implements
  <1>1. Init => Fresh
    BY DEF Init, Fresh, IdleReq
  <1>2. Init => HandedFirst
    BY DEF Init, HandedFirst, FiredWasHanded, IdleTask
  <1>3. Typed /\ HandedFirst /\ Fresh /\ [Next]_vars => HandedFirst' /\ Fresh'
    BY HandedFirstNext, FreshNext
  <1>4. Typed /\ HandedFirst /\ Fresh /\ [Next]_vars => [Promise!Next]_(Promise!vars)
    BY NextRefines
  <1> QED
    BY <1>1, <1>2, <1>3, <1>4, InitRefines, AlwaysTyped, PTL
    DEF Spec, Implements, Promise!Spec
=============================================================================
