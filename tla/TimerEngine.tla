----------------------------- MODULE TimerEngine -----------------------------
(***************************************************************************)
(* The timers of TimeTools: a worker thread, the threads that add and      *)
(* cancel tasks (callbacks are among them: the worker holds no lock while  *)
(* it runs one), and the thread that starts and stops the engine.          *)
(*                                                                         *)
(* What a thread does while it holds queue_mutex is one step.  The worker  *)
(* reads stopped before it locks, and Stop neither sets it nor notifies    *)
(* under the lock: these are steps of their own.  The time of an entry is  *)
(* what is left until it is due, negative when it is late.                 *)
(***************************************************************************)
EXTENDS Integers, FiniteSets

CONSTANTS MaxTasks,    \* bound: how many tasks are ever added
          Delays,      \* delays of tasks that run once
          Intervals,   \* intervals of repeated tasks; with 0 they run once
          MaxLate      \* bound: how late a task can be

ASSUME TimerAssumption ==
  /\ MaxTasks \in Nat
  /\ Delays \subseteq Nat
  /\ Intervals \subseteq Nat
  /\ MaxLate \in Nat

Ids == 1..MaxTasks
NoTask == 0

VARIABLES queue,              \* entries [id, due]
          cancellation_map,   \* the ids that CancelTask finds
          cancelled,          \* the flag a task shares with the map
          interval,
          next_id,
          running,
          stopped,
          worker,             \* where the worker thread is
          next_task,          \* the task it waits for or runs
          owner               \* where the thread that calls Start and Stop is

tasks == <<queue, cancellation_map, cancelled, interval, next_id>>
threads == <<running, stopped, worker, next_task, owner>>
vars == <<queue, cancellation_map, cancelled, interval, next_id,
          running, stopped, worker, next_task, owner>>

Entry == [id : Ids, due : Int]
Queued == {e.id : e \in queue}

\* The top of the heap; entries due at the same time come in any order.
IsTop(e) ==
  /\ e \in queue
  /\ \A other \in queue : e.due <= other.due

Waiting == worker \in {"wait", "wait_for"}

\* notify_one and notify_all: at most the worker waits.
Notify ==
  IF Waiting
  THEN worker' = "check" /\ next_task' = NoTask
  ELSE UNCHANGED <<worker, next_task>>

Init ==
  /\ queue = {}
  /\ cancellation_map = {}
  /\ cancelled = [id \in Ids |-> FALSE]
  /\ interval = [id \in Ids |-> 0]
  /\ next_id = 1
  /\ running = FALSE
  /\ stopped = FALSE
  /\ worker = "off"
  /\ next_task = NoTask
  /\ owner = "idle"

-----------------------------------------------------------------------------
\* Any thread.

\* Mutant of Schedule: the worker is not told.
ScheduleSilently(due, period) ==
  /\ next_id \in Ids
  /\ queue' = queue \cup {[id |-> next_id, due |-> due]}
  /\ cancellation_map' = cancellation_map \cup {next_id}
  /\ interval' = [interval EXCEPT ![next_id] = period]
  /\ next_id' = next_id + 1
  /\ UNCHANGED <<cancelled, threads>>

Schedule(due, period) ==
  /\ next_id \in Ids
  /\ queue' = queue \cup {[id |-> next_id, due |-> due]}
  /\ cancellation_map' = cancellation_map \cup {next_id}
  /\ interval' = [interval EXCEPT ![next_id] = period]
  /\ next_id' = next_id + 1
  /\ Notify
  /\ UNCHANGED <<cancelled, running, stopped, owner>>

AddTask == \E delay \in Delays : Schedule(delay, 0)

AddRepeatedTask ==
  \E period \in Intervals, immediate \in BOOLEAN :
    Schedule(IF immediate THEN 0 ELSE period, period)

\* CancelTask answers true.  When the id is not in the map it answers false
\* and changes nothing.  The entry stays in the queue until it is due.
CancelTask(id) ==
  /\ id \in cancellation_map
  /\ cancelled' = [cancelled EXCEPT ![id] = TRUE]
  /\ cancellation_map' = cancellation_map \ {id}
  /\ UNCHANGED <<queue, interval, next_id, threads>>

-----------------------------------------------------------------------------
\* The worker thread.

CheckStopped ==
  /\ worker = "check"
  /\ worker' = IF stopped THEN "returned" ELSE "lock"
  /\ UNCHANGED <<tasks, running, stopped, next_task, owner>>

WaitForTask ==
  /\ worker = "lock"
  /\ queue = {}
  /\ worker' = "wait"
  /\ UNCHANGED <<tasks, running, stopped, next_task, owner>>

\* Mutant of WaitUntilDue: waits for a notification only.
WaitForNotification ==
  /\ worker = "lock"
  /\ \E e \in queue : IsTop(e) /\ e.due > 0
  /\ worker' = "wait"
  /\ UNCHANGED <<tasks, running, stopped, next_task, owner>>

WaitUntilDue ==
  /\ worker = "lock"
  /\ \E e \in queue :
       /\ IsTop(e)
       /\ e.due > 0
       /\ next_task' = e.id
  /\ worker' = "wait_for"
  /\ UNCHANGED <<tasks, running, stopped, owner>>

\* wait_for returns when the task it waited for is due.
TimesOut ==
  /\ worker = "wait_for"
  /\ \E e \in queue : e.id = next_task /\ e.due <= 0
  /\ worker' = "check"
  /\ next_task' = NoTask
  /\ UNCHANGED <<tasks, running, stopped, owner>>

\* A condition variable may wake without a reason.
WakesSpuriously ==
  /\ Waiting
  /\ worker' = "check"
  /\ next_task' = NoTask
  /\ UNCHANGED <<tasks, running, stopped, owner>>

\* Mutant of PopDue: the id stays in the map.
PopOnly(e) ==
  /\ worker = "lock"
  /\ IsTop(e)
  /\ e.due <= 0
  /\ queue' = queue \ {e}
  /\ UNCHANGED <<cancellation_map, cancelled, interval, next_id, running, stopped, owner>>

PopDue(e) ==
  /\ worker = "lock"
  /\ IsTop(e)
  /\ e.due <= 0
  /\ queue' = queue \ {e}
  /\ cancellation_map' = cancellation_map \ {e.id}
  /\ UNCHANGED <<cancelled, interval, next_id, running, stopped, owner>>

SkipCancelled(e) ==
  /\ PopDue(e)
  /\ cancelled[e.id]
  /\ worker' = "check"
  /\ UNCHANGED next_task

\* Mutant of RunTask: the flag is not looked at.
RunAnyTask(e) ==
  /\ PopDue(e)
  /\ worker' = "callback"
  /\ next_task' = e.id

RunTask(e) ==
  /\ PopDue(e)
  /\ ~cancelled[e.id]
  /\ worker' = "callback"
  /\ next_task' = e.id

\* The callback ends, by returning or by an exception.
CallbackReturns ==
  /\ worker = "callback"
  /\ IF interval[next_task] > 0
     THEN worker' = "repeat" /\ UNCHANGED next_task
     ELSE worker' = "check" /\ next_task' = NoTask
  /\ UNCHANGED <<tasks, running, stopped, owner>>

\* The next turn of a repeated task, from now on and with the same flag.
Repeat ==
  /\ worker = "repeat"
  /\ queue' = queue \cup {[id |-> next_task, due |-> interval[next_task]]}
  /\ cancellation_map' = cancellation_map \cup {next_task}
  /\ worker' = "check"
  /\ next_task' = NoTask
  /\ UNCHANGED <<cancelled, interval, next_id, running, stopped, owner>>

WorkerStep ==
  \/ CheckStopped
  \/ WaitForTask
  \/ WaitUntilDue
  \/ TimesOut
  \/ \E e \in queue : SkipCancelled(e) \/ RunTask(e)
  \/ CallbackReturns
  \/ Repeat

-----------------------------------------------------------------------------
\* The thread that starts and stops the engine.

Start ==
  /\ owner = "idle"
  /\ ~running
  /\ running' = TRUE
  /\ stopped' = FALSE
  /\ worker' = "check"
  /\ UNCHANGED <<tasks, next_task, owner>>

Stop ==
  /\ owner = "idle"
  /\ running
  /\ stopped' = TRUE
  /\ owner' = "notify"
  /\ UNCHANGED <<tasks, running, worker, next_task>>

NotifyAll ==
  /\ owner = "notify"
  /\ Notify
  /\ owner' = "join"
  /\ UNCHANGED <<tasks, running, stopped>>

Join ==
  /\ owner = "join"
  /\ worker = "returned"
  /\ worker' = "off"
  /\ running' = FALSE
  /\ owner' = "clear"
  /\ UNCHANGED <<tasks, stopped, next_task>>

ClearQueue ==
  /\ owner = "clear"
  /\ queue' = {}
  /\ cancellation_map' = {}
  /\ owner' = "idle"
  /\ UNCHANGED <<cancelled, interval, next_id, running, stopped, worker, next_task>>

StopStep == NotifyAll \/ Join \/ ClearQueue

-----------------------------------------------------------------------------
Tick ==
  /\ \A e \in queue : e.due > -MaxLate
  /\ queue' = {[e EXCEPT !.due = e.due - 1] : e \in queue}
  /\ UNCHANGED <<cancellation_map, cancelled, interval, next_id, threads>>

Next ==
  \/ AddTask
  \/ AddRepeatedTask
  \/ \E id \in Ids : CancelTask(id)
  \/ WorkerStep
  \/ WakesSpuriously
  \/ Start
  \/ Stop
  \/ StopStep
  \/ Tick

Spec == Init /\ [][Next]_vars

\* The operating system runs both threads and lets time pass, and callbacks
\* return.  Nobody has to call the engine, and no wait has to end by itself.
FairSpec ==
  /\ Spec
  /\ WF_vars(WorkerStep)
  /\ WF_vars(StopStep)
  /\ WF_vars(Tick)

-----------------------------------------------------------------------------
TypeOK ==
  /\ queue \subseteq Entry
  /\ cancellation_map \subseteq Ids
  /\ cancelled \in [Ids -> BOOLEAN]
  /\ interval \in [Ids -> Nat]
  /\ next_id \in 1..(MaxTasks + 1)
  /\ running \in BOOLEAN
  /\ stopped \in BOOLEAN
  /\ worker \in {"off", "check", "lock", "wait", "wait_for", "callback", "repeat", "returned"}
  /\ next_task \in Ids \cup {NoTask}
  /\ owner \in {"idle", "notify", "join", "clear"}

InHand(id) == next_task = id /\ worker \in {"callback", "repeat"}

\* CancelTask finds exactly the tasks that wait in the queue and have not been
\* cancelled: the map of flags and the heap, written by three threads, agree.
MapMatchesQueue == cancellation_map = {id \in Queued : ~cancelled[id]}

\* A task is in one place: once in the queue or in the hands of the worker,
\* so that a repeated task cannot multiply.
InOnePlace ==
  /\ \A e, other \in queue : e.id = other.id => e = other
  /\ \A id \in Queued : ~InHand(id)

\* The life of a task as its caller sees it.
StatusOf(inHand, isCancelled, isQueued, isAdded) ==
  IF inHand THEN "running"
  ELSE IF isCancelled THEN "cancelled"
  ELSE IF isQueued THEN "pending"
  ELSE IF isAdded THEN "over"
  ELSE "none"

Status(id) == StatusOf(InHand(id), cancelled[id], id \in Queued, id < next_id)

AbstractTimers ==
  INSTANCE Timers WITH
    Periods <- Intervals \cup {0},
    status  <- [id \in Ids |-> Status(id)]

\* The engine implements the timers: whatever the threads do, a cancelled task
\* never runs again, one that runs once does so once, and no task is lost
\* between the queue and the worker.
ImplementsTimers == AbstractTimers!Spec

\* No task is forgotten by a worker that sleeps: while the engine is not
\* stopped, a pending task is begun or cancelled.
EveryTaskRuns ==
  \A id \in Ids :
    (running /\ ~stopped /\ Status(id) = "pending") ~> (stopped \/ Status(id) # "pending")

\* Stop returns when it meets a task in the queue: the worker wakes at the
\* latest when the task is due, and finds that it has been stopped.
StopReturnsAfterTask == (owner = "join" /\ queue # {}) ~> (owner = "idle")

\* Shutdown of the class whose operations are all thread-safe
\* (TimeTools.hpp:43): Stop returns.  It notifies once, without the lock, and
\* a worker that has just read stopped goes to sleep on an empty queue.
StopReturns == (owner = "join") ~> (owner = "idle")

=============================================================================
