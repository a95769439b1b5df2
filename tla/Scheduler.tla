----------------------------- MODULE Scheduler -----------------------------
(***************************************************************************)
(* The reminder scheduler of the voice server: SchedulerManager, its       *)
(* SQLite store, the REST and tool calls that drive it, the per-reminder   *)
(* asyncio tasks, and what a device connection does to it (registering a   *)
(* surface, draining the offline queue, going away).                       *)
(*                                                                         *)
(* One action is the code a coroutine runs between two awaits.  A          *)
(* statement sent to the database takes effect when it is submitted (one   *)
(* aiosqlite thread serves them in order, and cancelling the awaiting      *)
(* coroutine does not recall it); the coroutine sees the reply when it     *)
(* resumes, when other coroutines may have run.  An UPDATE/INSERT and its  *)
(* COMMIT count as one statement.                                          *)
(***************************************************************************)
EXTENDS Integers, FiniteSets

CONSTANTS
    Notifs, Devices, Tasks, Requests, Conns,
    DeviceOf,        \* the device a reminder names, or None
    None,
    RunawayCap,      \* RUNAWAY_CAP_PER_DEVICE
    QueueCap,        \* NOTIFICATION_QUEUE_CAP_PER_DEVICE
    ReplayWindow,    \* REPLAY_WINDOW_SECONDS
    MaxTime,         \* bound: the clock stops here
    MaxRequests,     \* bound: API and tool calls made
    MaxConnects,     \* bound: connections opened
    MaxExits         \* bound: crashes and shutdowns

ASSUME ConstantsAssumption ==
    /\ None \notin Notifs \cup Devices \cup Tasks \cup Conns
    /\ DeviceOf \in [Notifs -> Devices \cup {None}]
    /\ RunawayCap \in Nat \ {0} /\ QueueCap \in Nat \ {0}
    /\ ReplayWindow \in Nat /\ MaxTime \in Nat
    /\ {MaxRequests, MaxConnects, MaxExits} \subseteq Nat
    /\ \A S \in {Notifs, Devices, Tasks, Requests, Conns} : IsFiniteSet(S)

VARIABLES
    now,        \* the wall clock
    up,         \* the process: down, boot, up or stopping
    bootAt,     \* when start() read the clock
    todo,       \* rows start() has listed and not yet handled
    status, fireAt,              \* table scheduled_notifications
    queue, nextRow,              \* table notification_queue, AUTOINCREMENT
    taskOf,     \* SchedulerManager._tasks
    task,       \* the asyncio tasks: where each awaits, and what it holds
    req,        \* the callers of schedule, cancel and reschedule
    conn,       \* the device connections
    sess,       \* devices with an active session
    surf,       \* per device, the connection its surface writes to, or None
    busy,       \* devices whose session is in a turn
    deferred,   \* per device, the set of reminders the turn gate holds back
    handed,     \* history: reminders whose card left the scheduler
    shown,      \* history: cards written to a live socket (2 stands for more)
    lost,       \* history: reminders of which a card was given up
    acked,      \* history: reminders cancel() returned True for
    requests, connects, exits    \* what is left of the bounds

rows == <<queue, nextRow>>
db == <<status, fireAt, rows>>
gate == <<sess, surf, busy, deferred>>
process == <<now, up, bootAt, todo>>
cards == <<deferred, handed, shown, lost>>
history == <<handed, shown, lost, acked>>
bounds == <<requests, connects, exits>>
vars == <<process, db, taskOf, task, req, conn, gate, history, bounds>>

-----------------------------------------------------------------------------
Statuses == {"absent", "pending", "fired", "cancelled", "failed"}

\* Awaits of _run and _fire_one; "new" is a task that has not run yet.
TaskAwaits == {"sleep", "get", "lookup", "count", "drop", "insert", "mark"}
Task == [pc : TaskAwaits \cup {"idle", "new", "send"},
         notif : Notifs \cup {None}, at : Nat,
         found : BOOLEAN, count : Nat, cancel : BOOLEAN]
IdleTask == [pc |-> "idle", notif |-> None, at |-> 0,
             found |-> FALSE, count |-> 0, cancel |-> FALSE]

Req == [pc : {"idle", "count", "create", "cancel", "cancelJoin",
              "move", "moveJoin"},
        notif : Notifs \cup {None}, at : Nat,
        ok : BOOLEAN, count : Nat, wait : Tasks \cup {None}]
IdleReq == [pc |-> "idle", notif |-> None, at |-> 0,
            ok |-> FALSE, count |-> 0, wait |-> None]

Frame == [row : Nat, dev : Devices, notif : Notifs]
ConnPc == {"closed", "evicted", "attached", "drain", "deleted", "lookup",
           "replay", "requeue", "recount", "redrop", "ready", "unregistered"}
Conn == [pc : ConnPc, dev : Devices \cup {None}, open : BOOLEAN, hand : SUBSET Frame,
         found : BOOLEAN, count : Nat, surface : Conns \cup {None}]
ClosedConn == [pc |-> "closed", dev |-> None, open |-> FALSE, hand |-> {},
               found |-> FALSE, count |-> 0, surface |-> None]

Pending(d) == {n \in Notifs : status[n] = "pending" /\ DeviceOf[n] = d}
Queue(d) == {f \in queue : f.dev = d}

\* DELETE ... ORDER BY queued_at LIMIT k (row order stands for queued_at).
Oldest(d, k) ==
    {f \in Queue(d) : Cardinality({g \in Queue(d) : g.row < f.row}) < k}
NotifsOf(F) == {f.notif : f \in F}

Set(n, s) == status' = [status EXCEPT ![n] = s]
\* Mutant: without AND status = 'pending'.
SetAlways(n, s) == Set(n, s)

\* UPDATE ... WHERE id = ? AND status = 'pending'.
SetIfPending(n, s) == IF status[n] = "pending" THEN Set(n, s)
                                               ELSE UNCHANGED status

InsertFrame(d, n) ==
    /\ queue' = queue \cup {[row |-> nextRow, dev |-> d, notif |-> n]}
    /\ nextRow' = nextRow + 1
\* Mutant: makes no room for the frame to come.
DropExcess(d, count) ==
    LET gone == Oldest(d, count - QueueCap)
    IN  /\ queue' = queue \ gone
        /\ lost' = lost \cup NotifsOf(gone)

DropOldest(d, count) ==
    LET gone == Oldest(d, count - QueueCap + 1)
    IN  /\ queue' = queue \ gone
        /\ lost' = lost \cup NotifsOf(gone)

\* surface.card on the surface of connection k: a closed socket drops it.
WriteCard(k, n) ==
    IF conn[k].open
    THEN /\ shown' = [shown EXCEPT ![n] = IF @ < 2 THEN @ + 1 ELSE 2]
         /\ UNCHANGED lost
    ELSE /\ lost' = lost \cup {n}
         /\ UNCHANGED shown

-----------------------------------------------------------------------------
(* The tasks.                                                              *)

FreeTasks == {t \in Tasks : /\ task[t].pc = "idle"
                            /\ \A n \in Notifs : taskOf[n] # t
                            /\ \A r \in Requests : req[r].wait # t}

\* _tasks[n] = create_task(_run(n, at))
Spawn(n, at) ==
    \E t \in FreeTasks :
        /\ task' = [task EXCEPT ![t] = [IdleTask EXCEPT !.pc = "new",
                                            !.notif = n, !.at = at]]
        /\ taskOf' = [taskOf EXCEPT ![n] = t]

\* The finally of _run pops whatever _tasks holds for this reminder.
Finish(t) ==
    /\ taskOf' = [taskOf EXCEPT ![task[t].notif] = None]
    /\ task' = [task EXCEPT ![t] = IdleTask]

Awaiting(t, pc) == task[t].pc = pc /\ ~task[t].cancel

\* A task cancelled before its first step never enters the body of _run,
\* so its finally does not run.
CancelNew(t) ==
    /\ task[t].pc = "new" /\ task[t].cancel
    /\ task' = [task EXCEPT ![t] = IdleTask]
    /\ UNCHANGED <<rows, cards, status, taskOf>>

Start(t) ==
    /\ Awaiting(t, "new")
    /\ task' = [task EXCEPT ![t].pc = "sleep"]
    /\ UNCHANGED <<rows, cards, status, taskOf>>

\* Mutant: the sleep is shielded.
CancelledAwake(t) ==
    /\ task[t].pc \in TaskAwaits \ {"sleep"} /\ task[t].cancel
    /\ Finish(t)
    /\ UNCHANGED <<rows, cards, status>>

\* CancelledError raised at an await of _run or _fire_one.
Cancelled(t) ==
    /\ task[t].pc \in TaskAwaits /\ task[t].cancel
    /\ Finish(t)
    /\ UNCHANGED <<rows, cards, status>>

\* The sleep is over: store.get is submitted.
Wake(t) ==
    /\ Awaiting(t, "sleep")
    /\ task[t].at <= now
    /\ task' = [task EXCEPT ![t].pc = "get",
                            ![t].found = status[task[t].notif] = "pending"]
    /\ UNCHANGED <<rows, cards, status, taskOf>>

\* Not pending any more: return.
Raced(t) ==
    /\ Awaiting(t, "get") /\ ~task[t].found
    /\ Finish(t)
    /\ UNCHANGED <<rows, cards, status>>

\* Without a device there is no session to look up and nothing to queue.
Broadcast(t) ==
    /\ Awaiting(t, "get") /\ task[t].found
    /\ DeviceOf[task[t].notif] = None
    /\ SetIfPending(task[t].notif, "fired")
    /\ task' = [task EXCEPT ![t].pc = "mark"]
    /\ UNCHANGED <<rows, cards, taskOf>>

\* list_sessions(device, active) is submitted.
LookUp(t) ==
    /\ Awaiting(t, "get") /\ task[t].found
    /\ DeviceOf[task[t].notif] # None
    /\ task' = [task EXCEPT ![t].pc = "lookup",
                            ![t].found = DeviceOf[task[t].notif] \in sess]
    /\ UNCHANGED <<rows, cards, status, taskOf>>

\* Mutant: marked as fired before it is queued.
MarkThenQueue(t) ==
    LET d == DeviceOf[task[t].notif]
    IN  /\ Awaiting(t, "lookup")
        /\ ~task[t].found \/ surf[d] = None
        /\ SetIfPending(task[t].notif, "fired")
        /\ task' = [task EXCEPT ![t].pc = "count",
                                ![t].count = Cardinality(Queue(d))]
        /\ UNCHANGED <<rows, cards, taskOf>>

\* No session, or a session without a surface: the queue's COUNT is submitted.
GoOffline(t) ==
    LET d == DeviceOf[task[t].notif]
    IN  /\ Awaiting(t, "lookup")
        /\ ~task[t].found \/ surf[d] = None
        /\ task' = [task EXCEPT ![t].pc = "count",
                                ![t].count = Cardinality(Queue(d))]
        /\ UNCHANGED <<rows, cards, status, taskOf>>

\* defer_or_send with a turn under way: the gate keeps the card and
\* mark_fired is submitted.
Defer(t) ==
    LET n == task[t].notif
        d == DeviceOf[n]
    IN  /\ Awaiting(t, "lookup") /\ task[t].found
        /\ surf[d] # None /\ d \in busy
        /\ deferred' = [deferred EXCEPT ![d] = @ \cup {n}]
        /\ handed' = handed \cup {n}
        /\ SetIfPending(n, "fired")
        /\ task' = [task EXCEPT ![t].pc = "mark"]
        /\ UNCHANGED <<rows, taskOf, shown, lost>>

\* defer_or_send with an idle session.  A live socket may make the send
\* wait; a closed one returns at once and mark_fired is submitted.
SendCard(t) ==
    LET n == task[t].notif
        d == DeviceOf[n]
    IN  /\ Awaiting(t, "lookup") /\ task[t].found
        /\ surf[d] # None /\ d \notin busy
        /\ WriteCard(surf[d], n)
        /\ handed' = handed \cup {n}
        /\ IF conn[surf[d]].open
           THEN /\ task' = [task EXCEPT ![t].pc = "send"]
                /\ UNCHANGED status
           ELSE /\ task' = [task EXCEPT ![t].pc = "mark"]
                /\ SetIfPending(n, "fired")
        /\ UNCHANGED <<rows, taskOf, deferred>>

DropForRoom(t) ==
    /\ Awaiting(t, "count") /\ task[t].count >= QueueCap
    /\ DropOldest(DeviceOf[task[t].notif], task[t].count)
    /\ task' = [task EXCEPT ![t].pc = "drop"]
    /\ UNCHANGED <<status, nextRow, taskOf, deferred, handed, shown>>

Enqueue(t) ==
    LET n == task[t].notif
    IN  /\ \/ Awaiting(t, "count") /\ task[t].count < QueueCap
           \/ Awaiting(t, "drop")
        /\ InsertFrame(DeviceOf[n], n)
        /\ handed' = handed \cup {n}
        /\ task' = [task EXCEPT ![t].pc = "insert"]
        /\ UNCHANGED <<status, taskOf, deferred, shown, lost>>

\* mark_fired.  _safe_send_json returns False on CancelledError, so a task
\* cancelled during its send goes on as if it had not been.
MarkFired(t) ==
    /\ Awaiting(t, "insert") \/ task[t].pc = "send"
    /\ SetIfPending(task[t].notif, "fired")
    /\ task' = [task EXCEPT ![t].pc = "mark", ![t].cancel = FALSE]
    /\ UNCHANGED <<rows, cards, taskOf>>

Done(t) ==
    /\ Awaiting(t, "mark")
    /\ Finish(t)
    /\ UNCHANGED <<rows, cards, status>>

TaskStep(t) ==
    /\ \/ CancelNew(t) \/ Start(t) \/ Cancelled(t) \/ Wake(t) \/ Raced(t)
       \/ Broadcast(t) \/ LookUp(t) \/ GoOffline(t) \/ Defer(t) \/ SendCard(t)
       \/ DropForRoom(t) \/ Enqueue(t) \/ MarkFired(t) \/ Done(t)
    /\ UNCHANGED <<process, fireAt, req, conn, sess, surf, busy, acked, bounds>>

-----------------------------------------------------------------------------
(* schedule, cancel and reschedule.                                        *)

Return(r) == req' = [req EXCEPT ![r] = IdleReq]

\* A new reminder: count_pending_for_device is submitted, or without a device
\* the INSERT itself.  Identifiers are fresh.
Schedule(r, n, at) ==
    /\ up = "up" /\ requests > 0 /\ req[r].pc = "idle"
    /\ status[n] = "absent" /\ \A s \in Requests : req[s].notif # n
    /\ requests' = requests - 1
    /\ req' = [req EXCEPT ![r] = [IdleReq EXCEPT
                    !.pc = IF DeviceOf[n] = None THEN "create" ELSE "count",
                    !.notif = n, !.at = at,
                    !.count = Cardinality(Pending(DeviceOf[n]))]]
    /\ IF DeviceOf[n] = None
       THEN /\ Set(n, "pending")
            /\ fireAt' = [fireAt EXCEPT ![n] = at]
       ELSE UNCHANGED <<status, fireAt>>
    /\ UNCHANGED <<taskOf, task, acked>>

\* RunawayCapError.
Reject(r) ==
    /\ req[r].pc = "count" /\ req[r].count >= RunawayCap
    /\ Return(r)
    /\ UNCHANGED <<status, fireAt, taskOf, task, acked, requests>>

\* Mutant: the cap off by one.
CreateAtCap(r) ==
    /\ req[r].pc = "count" /\ req[r].count <= RunawayCap
    /\ Set(req[r].notif, "pending")
    /\ fireAt' = [fireAt EXCEPT ![req[r].notif] = req[r].at]
    /\ req' = [req EXCEPT ![r].pc = "create"]
    /\ UNCHANGED <<taskOf, task, acked, requests>>

Create(r) ==
    /\ req[r].pc = "count" /\ req[r].count < RunawayCap
    /\ Set(req[r].notif, "pending")
    /\ fireAt' = [fireAt EXCEPT ![req[r].notif] = req[r].at]
    /\ req' = [req EXCEPT ![r].pc = "create"]
    /\ UNCHANGED <<taskOf, task, acked, requests>>

Arm(r) ==
    /\ req[r].pc = "create"
    /\ Spawn(req[r].notif, req[r].at)
    /\ Return(r)
    /\ UNCHANGED <<status, fireAt, acked, requests>>

\* UPDATE ... SET status = 'cancelled' is submitted.
Cancel(r, n) ==
    /\ up = "up" /\ requests > 0 /\ req[r].pc = "idle"
    /\ status[n] # "absent"
    /\ requests' = requests - 1
    /\ req' = [req EXCEPT ![r] = [IdleReq EXCEPT !.pc = "cancel",
                    !.notif = n, !.ok = status[n] = "pending"]]
    /\ SetIfPending(n, "cancelled")
    /\ UNCHANGED <<fireAt, taskOf, task, acked>>

\* UPDATE ... SET fire_at is submitted.
Reschedule(r, n, at) ==
    /\ up = "up" /\ requests > 0 /\ req[r].pc = "idle"
    /\ status[n] # "absent"
    /\ requests' = requests - 1
    /\ req' = [req EXCEPT ![r] = [IdleReq EXCEPT !.pc = "move",
                    !.notif = n, !.at = at, !.ok = status[n] = "pending"]]
    /\ IF status[n] = "pending"
       THEN fireAt' = [fireAt EXCEPT ![n] = at]
       ELSE UNCHANGED fireAt
    /\ UNCHANGED <<status, taskOf, task, acked>>

\* Zero rows updated: False.
Refused(r) ==
    /\ req[r].pc \in {"cancel", "move"} /\ ~req[r].ok
    /\ Return(r)
    /\ UNCHANGED <<status, fireAt, taskOf, task, acked, requests>>

\* The tracked task, if it is still running, is popped, cancelled, awaited.
Tracked(n) == taskOf[n] # None /\ task[taskOf[n]].pc # "idle"

CancelTask(r) ==
    LET n == req[r].notif
    IN  /\ req[r].pc \in {"cancel", "move"} /\ req[r].ok
        /\ Tracked(n)
        /\ taskOf' = [taskOf EXCEPT ![n] = None]
        /\ task' = [task EXCEPT ![taskOf[n]].cancel = TRUE]
        /\ req' = [req EXCEPT ![r].wait = taskOf[n],
                      ![r].pc = IF @ = "cancel" THEN "cancelJoin" ELSE "moveJoin"]
        /\ UNCHANGED <<status, fireAt, acked, requests>>

\* Nothing to wait for, or the awaited task has ended.
Joined(r) ==
    \/ req[r].pc \in {"cancel", "move"} /\ req[r].ok /\ ~Tracked(req[r].notif)
    \/ req[r].pc \in {"cancelJoin", "moveJoin"} /\ task[req[r].wait].pc = "idle"

EndCancel(r) ==
    /\ req[r].pc \in {"cancel", "cancelJoin"} /\ Joined(r)
    /\ taskOf' = [taskOf EXCEPT ![req[r].notif] =
                     IF req[r].pc = "cancel" THEN None ELSE @]
    /\ acked' = acked \cup {req[r].notif}
    /\ Return(r)
    /\ UNCHANGED <<status, fireAt, task, requests>>

\* Mutant: no new task.
EndMoveIdle(r) ==
    /\ req[r].pc \in {"move", "moveJoin"} /\ Joined(r)
    /\ Return(r)
    /\ UNCHANGED <<status, fireAt, taskOf, task, acked, requests>>

EndMove(r) ==
    /\ req[r].pc \in {"move", "moveJoin"} /\ Joined(r)
    /\ Spawn(req[r].notif, req[r].at)
    /\ Return(r)
    /\ UNCHANGED <<status, fireAt, acked, requests>>

ReqStep(r) ==
    /\ \/ Reject(r) \/ Create(r) \/ Arm(r) \/ Refused(r) \/ CancelTask(r)
       \/ EndCancel(r) \/ EndMove(r)
    /\ UNCHANGED <<process, rows, conn, gate, handed, shown, lost, bounds>>

ReqCall(r) ==
    /\ \E n \in Notifs :
          \/ Cancel(r, n)
          \/ \E at \in now..MaxTime : Schedule(r, n, at) \/ Reschedule(r, n, at)
    /\ UNCHANGED <<process, rows, conn, gate, handed, shown, lost, connects, exits>>

-----------------------------------------------------------------------------
(* Device connections, as far as the scheduler sees them.  A device has    *)
(* one session, which every connection resumes.                            *)

Registered == {"drain", "deleted", "lookup", "replay", "requeue", "recount",
               "redrop", "ready", "unregistered"}

\* A register message: the device's registered connections are closed.
\* (A slot is reused once no other coroutine holds its old surface.)
Connect(k, d) ==
    /\ up = "up" /\ connects > 0
    /\ conn[k].pc = "closed" /\ \A j \in Conns : conn[j].surface # k
    /\ connects' = connects - 1
    /\ conn' = [j \in Conns |->
          IF j = k THEN [ClosedConn EXCEPT !.pc = "evicted", !.dev = d,
                                           !.open = TRUE]
          ELSE IF conn[j].dev = d /\ conn[j].pc \in Registered
               THEN [conn[j] EXCEPT !.open = FALSE] ELSE conn[j]]
    /\ UNCHANGED <<rows, gate, shown, lost>>

\* get_or_create_session is submitted.
Attach(k) ==
    /\ conn[k].pc = "evicted"
    /\ conn' = [conn EXCEPT ![k].pc = "attached"]
    /\ sess' = sess \cup {conn[k].dev}
    /\ UNCHANGED <<rows, surf, busy, deferred, shown, lost, connects>>

\* register_session replaces the state kept for the session, and the SELECT
\* of drain_queue_for_device is submitted.
Register(k) ==
    LET d == conn[k].dev
    IN  /\ conn[k].pc = "attached"
        /\ surf' = [surf EXCEPT ![d] = k]
        /\ busy' = busy \ {d}
        /\ deferred' = [deferred EXCEPT ![d] = {}]
        /\ lost' = lost \cup deferred[d]
        /\ conn' = [conn EXCEPT ![k].pc = "drain", ![k].hand = Queue(d)]
        /\ UNCHANGED <<rows, sess, shown, connects>>

NothingQueued(k) ==
    /\ conn[k].pc = "drain" /\ conn[k].hand = {}
    /\ conn' = [conn EXCEPT ![k].pc = "ready"]
    /\ UNCHANGED <<rows, gate, shown, lost, connects>>

\* Mutant: DELETE ... WHERE device_id = ?
DrainDevice(k) ==
    /\ conn[k].pc = "drain" /\ conn[k].hand # {}
    /\ queue' = queue \ Queue(conn[k].dev)
    /\ conn' = [conn EXCEPT ![k].pc = "deleted"]
    /\ UNCHANGED <<gate, nextRow, shown, lost, connects>>

\* DELETE of the rows that were read.
Drain(k) ==
    /\ conn[k].pc = "drain" /\ conn[k].hand # {}
    /\ queue' = queue \ conn[k].hand
    /\ conn' = [conn EXCEPT ![k].pc = "deleted"]
    /\ UNCHANGED <<gate, nextRow, shown, lost, connects>>

FindSession(k) ==
    /\ conn[k].pc = "deleted"
    /\ conn' = [conn EXCEPT ![k].pc = "lookup",
                            ![k].found = conn[k].dev \in sess]
    /\ UNCHANGED <<rows, gate, shown, lost, connects>>

\* The surface is looked up once; the frames go to it one by one, with a
\* pause between two, or back to the queue when there is none.
Replay(k) ==
    LET s == surf[conn[k].dev]
    IN  /\ conn[k].pc = "lookup"
        /\ conn' = [conn EXCEPT
              ![k].pc = IF conn[k].found /\ s # None THEN "replay" ELSE "requeue",
              ![k].surface = IF conn[k].found THEN s ELSE None]
        /\ UNCHANGED <<rows, gate, shown, lost, connects>>

First(k) == CHOOSE f \in conn[k].hand : \A g \in conn[k].hand : f.row <= g.row

ReplayOne(k) ==
    /\ conn[k].pc = "replay" /\ conn[k].hand # {}
    /\ WriteCard(conn[k].surface, First(k).notif)
    /\ conn' = [conn EXCEPT ![k].hand = @ \ {First(k)}]
    /\ UNCHANGED <<rows, gate, connects>>

RequeueCount(k) ==
    /\ conn[k].pc = "requeue" /\ conn[k].hand # {}
    /\ conn' = [conn EXCEPT ![k].pc = "recount",
                            ![k].count = Cardinality(Queue(conn[k].dev))]
    /\ UNCHANGED <<rows, gate, shown, lost, connects>>

RequeueDrop(k) ==
    /\ conn[k].pc = "recount" /\ conn[k].count >= QueueCap
    /\ DropOldest(conn[k].dev, conn[k].count)
    /\ conn' = [conn EXCEPT ![k].pc = "redrop"]
    /\ UNCHANGED <<gate, nextRow, shown, connects>>

RequeueInsert(k) ==
    /\ \/ conn[k].pc = "recount" /\ conn[k].count < QueueCap
       \/ conn[k].pc = "redrop"
    /\ InsertFrame(conn[k].dev, First(k).notif)
    /\ conn' = [conn EXCEPT ![k].pc = "requeue", ![k].hand = @ \ {First(k)}]
    /\ UNCHANGED <<gate, shown, lost, connects>>

ReplayDone(k) ==
    /\ conn[k].pc \in {"replay", "requeue"} /\ conn[k].hand = {}
    /\ conn' = [conn EXCEPT ![k].pc = "ready", ![k].surface = None]
    /\ UNCHANGED <<rows, gate, shown, lost, connects>>

\* The peer is gone; the read loop notices once the register handler is done.
Drop(k) ==
    /\ conn[k].open
    /\ conn' = [conn EXCEPT ![k].open = FALSE]
    /\ UNCHANGED <<rows, gate, shown, lost, connects>>

\* The disconnect chain: unregister_session, then pause_session.
Unregister(k) ==
    LET d == conn[k].dev
    IN  /\ conn[k].pc = "ready" /\ ~conn[k].open
        /\ surf' = [surf EXCEPT ![d] = None]
        /\ busy' = busy \ {d}
        /\ deferred' = [deferred EXCEPT ![d] = {}]
        /\ lost' = lost \cup deferred[d]
        /\ conn' = [conn EXCEPT ![k].pc = "unregistered"]
        /\ UNCHANGED <<rows, sess, shown, connects>>

Pause(k) ==
    /\ conn[k].pc = "unregistered"
    /\ sess' = sess \ {conn[k].dev}
    /\ conn' = [conn EXCEPT ![k] = ClosedConn]
    /\ UNCHANGED <<rows, surf, busy, deferred, shown, lost, connects>>

ConnFrame == UNCHANGED <<process, status, fireAt, taskOf, task, req, handed,
                         acked, requests, exits>>

ConnStep(k) ==
    /\ \/ Attach(k) \/ Register(k) \/ NothingQueued(k) \/ Drain(k)
       \/ FindSession(k) \/ Replay(k) \/ ReplayOne(k) \/ RequeueCount(k)
       \/ RequeueDrop(k) \/ RequeueInsert(k) \/ ReplayDone(k)
       \/ Unregister(k) \/ Pause(k)
    /\ ConnFrame

ConnEvent(k) ==
    /\ Drop(k) \/ \E d \in Devices : Connect(k, d)
    /\ ConnFrame

-----------------------------------------------------------------------------
(* The turn gate.                                                          *)

\* mark_turn_start.
TurnStart(d) ==
    /\ surf[d] # None /\ d \notin busy
    /\ busy' = busy \cup {d}
    /\ UNCHANGED <<deferred, shown, lost>>

\* mark_turn_end and the sends it drains (module Turns has them apart).
TurnEnd(d) ==
    /\ d \in busy
    /\ busy' = busy \ {d}
    /\ deferred' = [deferred EXCEPT ![d] = {}]
    /\ IF conn[surf[d]].open
       THEN /\ shown' = [n \in Notifs |->
                 IF n \in deferred[d] /\ shown[n] < 2 THEN shown[n] + 1
                                                      ELSE shown[n]]
            /\ UNCHANGED lost
       ELSE /\ lost' = lost \cup deferred[d]
            /\ UNCHANGED shown

\* discard_deferred, from a user's cancel.
Discard(d) ==
    /\ d \in busy /\ deferred[d] # {}
    /\ deferred' = [deferred EXCEPT ![d] = {}]
    /\ lost' = lost \cup deferred[d]
    /\ UNCHANGED <<busy, shown>>

TurnStep(d) ==
    /\ TurnStart(d) \/ TurnEnd(d) \/ Discard(d)
    /\ UNCHANGED <<process, db, taskOf, task, req, conn, sess, surf, handed,
                   acked, bounds>>

-----------------------------------------------------------------------------
(* The process.                                                            *)

Tick ==
    /\ now < MaxTime
    /\ now' = now + 1
    /\ UNCHANGED <<up, bootAt, todo, db, taskOf, task, req, conn, gate,
                   history, bounds>>

\* start(): list_pending.  The session manager has paused every session.
BootList ==
    /\ up = "down"
    /\ up' = "boot" /\ bootAt' = now
    /\ todo' = {n \in Notifs : status[n] = "pending"}
    /\ sess' = {}
    /\ UNCHANGED <<now, db, taskOf, task, req, conn, surf, busy, deferred,
                   history, bounds>>

Expired(n) == bootAt - fireAt[n] > ReplayWindow

\* Mutant: the expired rows are skipped.
BootSkip(n) ==
    /\ up = "boot" /\ n \in todo /\ Expired(n)
    /\ todo' = todo \ {n}
    /\ UNCHANGED <<now, up, bootAt, db, taskOf, task, req, conn, gate, history,
                   bounds>>

\* Rows come oldest first, so the expired ones are failed, with an await
\* each, before the others get their tasks.
BootFail(n) ==
    /\ up = "boot" /\ n \in todo /\ Expired(n)
    /\ SetIfPending(n, "failed")
    /\ todo' = todo \ {n}
    /\ UNCHANGED <<now, up, bootAt, fireAt, queue, nextRow, taskOf, task, req,
                   conn, gate, history, bounds>>

BootArm(n) ==
    /\ up = "boot" /\ n \in todo /\ \A m \in todo : ~Expired(m)
    /\ Spawn(n, fireAt[n])
    /\ todo' = todo \ {n}
    /\ UNCHANGED <<now, up, bootAt, db, req, conn, gate, history, bounds>>

BootDone ==
    /\ up = "boot" /\ todo = {}
    /\ up' = "up"
    /\ UNCHANGED <<now, bootAt, todo, db, taskOf, task, req, conn, gate,
                   history, bounds>>

\* shutdown() cancels the tasks it tracks and waits for them.
Shutdown ==
    /\ up = "up" /\ exits > 0
    /\ up' = "stopping"
    /\ task' = [t \in Tasks |->
          IF task[t].pc # "idle" /\ \E n \in Notifs : taskOf[n] = t
          THEN [task[t] EXCEPT !.cancel = TRUE] ELSE task[t]]
    /\ UNCHANGED <<now, bootAt, todo, db, taskOf, req, conn, gate, history,
                   bounds>>

\* The process ends, killed or after its shutdown: only the database is left.
Exit ==
    /\ up # "down" /\ exits > 0
    /\ exits' = exits - 1
    /\ up' = "down" /\ bootAt' = 0 /\ todo' = {}
    /\ taskOf' = [n \in Notifs |-> None]
    /\ task' = [t \in Tasks |-> IdleTask]
    /\ req' = [r \in Requests |-> IdleReq]
    /\ conn' = [k \in Conns |-> ClosedConn]
    /\ surf' = [d \in Devices |-> None]
    /\ busy' = {}
    /\ deferred' = [d \in Devices |-> {}]
    /\ lost' = lost \cup (UNION {deferred[d] : d \in Devices})
                    \cup (UNION {NotifsOf(conn[k].hand) : k \in Conns})
    /\ UNCHANGED <<now, db, sess, handed, shown, acked, requests, connects>>

Boot == BootList \/ BootDone \/ \E n \in Notifs : BootFail(n) \/ BootArm(n)

Init ==
    /\ now = 0 /\ up = "down" /\ bootAt = 0 /\ todo = {}
    /\ status = [n \in Notifs |-> "absent"]
    /\ fireAt = [n \in Notifs |-> 0]
    /\ queue = {} /\ nextRow = 1
    /\ taskOf = [n \in Notifs |-> None]
    /\ task = [t \in Tasks |-> IdleTask]
    /\ req = [r \in Requests |-> IdleReq]
    /\ conn = [k \in Conns |-> ClosedConn]
    /\ sess = {} /\ busy = {}
    /\ surf = [d \in Devices |-> None]
    /\ deferred = [d \in Devices |-> {}]
    /\ handed = {} /\ lost = {} /\ acked = {}
    /\ shown = [n \in Notifs |-> 0]
    /\ requests = MaxRequests /\ connects = MaxConnects /\ exits = MaxExits

Next ==
    \/ \E t \in Tasks : TaskStep(t)
    \/ \E r \in Requests : ReqStep(r) \/ ReqCall(r)
    \/ \E k \in Conns : ConnStep(k) \/ ConnEvent(k)
    \/ \E d \in Devices : TurnStep(d)
    \/ Tick \/ Boot \/ Shutdown \/ Exit

Spec == Init /\ [][Next]_vars

\* The event loop runs every coroutine that can run, the clock advances, the
\* server boots, and a process that is shutting down exits.
Fairness ==
    /\ \A t \in Tasks : WF_vars(TaskStep(t))
    /\ \A r \in Requests : WF_vars(ReqStep(r))
    /\ \A k \in Conns : WF_vars(ConnStep(k))
    /\ WF_vars(Tick) /\ WF_vars(Boot) /\ WF_vars(up = "stopping" /\ Exit)

FairSpec == Spec /\ Fairness

-----------------------------------------------------------------------------
(* Properties.                                                             *)

TypeOK ==
    /\ now \in Nat /\ bootAt \in Nat
    /\ up \in {"down", "boot", "up", "stopping"} /\ todo \subseteq Notifs
    /\ status \in [Notifs -> Statuses] /\ fireAt \in [Notifs -> Nat]
    /\ queue \subseteq Frame /\ nextRow \in Nat
    /\ taskOf \in [Notifs -> Tasks \cup {None}]
    /\ task \in [Tasks -> Task]
    /\ req \in [Requests -> Req] /\ conn \in [Conns -> Conn]
    /\ sess \subseteq Devices /\ busy \subseteq Devices
    /\ surf \in [Devices -> Conns \cup {None}]
    /\ deferred \in [Devices -> SUBSET Notifs]
    /\ handed \subseteq Notifs /\ lost \subseteq Notifs /\ acked \subseteq Notifs
    /\ shown \in [Notifs -> 0..2]
    /\ requests \in Nat /\ connects \in Nat /\ exits \in Nat

Live(t, n) == task[t].notif = n /\ task[t].pc # "idle"

\* A call that will create the task: it has the row, and returns after that.
Arming(n) == \E r \in Requests :
    /\ req[r].notif = n
    /\ \/ req[r].pc \in {"create", "moveJoin"}
       \/ req[r].pc = "move" /\ req[r].ok

\* Every pending reminder has somebody who will fire it: while the server
\* runs, a task that has not been cancelled, or a call or the boot replay
\* about to create one.  Losing the task would leave the row pending until
\* the next restart.
NoOrphan ==
    up \in {"boot", "up"} =>
        \A n \in Notifs : status[n] = "pending" =>
            \/ \E t \in Tasks : Live(t, n) /\ ~task[t].cancel
                                /\ (task[t].pc = "get" => task[t].found)
                                /\ task[t].pc # "mark"
            \/ Arming(n)
            \/ n \in todo

\* A card that left the scheduler is on a device, in the turn gate, in the
\* queue or in the hands of a replaying connection, unless it was given up at
\* one of the places that do so (a closed socket, a full queue, a turn gate
\* thrown away, an exit).  No step, and no interleaving of a drain with
\* inserts and other drains, makes one vanish otherwise.
Accounted ==
    \A n \in handed :
        \/ shown[n] > 0 \/ n \in lost
        \/ n \in NotifsOf(queue)
        \/ \E d \in Devices : n \in deferred[d]
        \/ \E k \in Conns : n \in NotifsOf(conn[k].hand)

\* A reminder for a device is marked fired only after its card left.
FiredWasHanded ==
    \A n \in Notifs : status[n] = "fired" /\ DeviceOf[n] # None => n \in handed

Writers(d) ==
    {t \in Tasks : /\ task[t].notif # None /\ DeviceOf[task[t].notif] = d
                   /\ \/ task[t].pc = "count" /\ task[t].count < QueueCap
                      \/ task[t].pc = "drop"}
Requeuers(d) ==
    {k \in Conns : /\ conn[k].dev = d
                   /\ \/ conn[k].pc = "recount" /\ conn[k].count < QueueCap
                      \/ conn[k].pc = "redrop"}

\* queue_notification counts and inserts in separate statements, so writers
\* that count together overshoot the cap; by how much is bounded by the
\* number of writers, however long the run.
QueueBound ==
    \A d \in Devices :
        Cardinality(Queue(d)) + Cardinality(Writers(d))
                              + Cardinality(Requeuers(d))
            <= QueueCap - 1 + Cardinality(Tasks) + Cardinality(Conns)

\* The same for the runaway cap, counted in schedule() before the INSERT.
PendingBound ==
    \A d \in Devices :
        Cardinality(Pending(d))
        + Cardinality({r \in Requests : /\ req[r].pc = "count"
                                        /\ DeviceOf[req[r].notif] = d
                                        /\ req[r].count < RunawayCap})
            <= RunawayCap - 1 + Cardinality(Requests)

\* The calls under way promise what Reminder says: the refinement.
Attempting(t) ==
    \/ task[t].pc = "get" /\ task[t].found
    \/ task[t].pc \in {"lookup", "count", "drop", "insert", "send", "mark"}
Promise == INSTANCE Reminder WITH
    Addressed <- {n \in Notifs : DeviceOf[n] # None},
    attempts <- {n \in Notifs : \E t \in Tasks : Live(t, n) /\ Attempting(t)}
Implements == Promise!Spec

\* Every reminder is dealt with in the end, whatever is rescheduled,
\* cancelled, or lost with a connection, as long as exits stop.
Resolved == \A n \in Notifs : (status[n] = "pending") ~> (status[n] # "pending")

\* cancel() and reschedule() await the task they cancelled: they return,
\* also when that task swallowed the cancellation in the middle of a send.
CallsReturn == \A r \in Requests : (req[r].pc # "idle") ~> (req[r].pc = "idle")

(* What the sources say and the code does not do; TLC refutes each of them *)
(* with the cfg of its name.                                               *)

\* store.py on drain_queue_for_device: concurrent register events race for
\* the queue but each frame is delivered exactly once.
ShownOnce == \A n \in Notifs : shown[n] <= 1

\* store.py on queue_notification: at worst the cap is exceeded by one.
OvershootByOne == \A d \in Devices : Cardinality(Queue(d)) <= QueueCap + 1

\* manager.py on schedule: a device that already has the cap is refused.
CapHeld == \A d \in Devices : Cardinality(Pending(d)) <= RunawayCap

\* manager.py on reschedule: the in-flight task is replaced by one targeted
\* at the new time.
OneTask == \A t, u \in Tasks : \A n \in Notifs :
    Live(t, n) /\ Live(u, n) /\ ~task[t].cancel /\ ~task[u].cancel => t = u

\* RFC-scheduler.md on DELETE: a hard cancel.  No card after it returned.
HardCancel == [][\A n \in acked : shown'[n] = shown[n]]_vars
=============================================================================
