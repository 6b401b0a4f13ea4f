----------------------------- MODULE TimerProofs -----------------------------
(***************************************************************************)
(* Proofs about TimerEngine, for any number of tasks and any delays.       *)
(***************************************************************************)
EXTENDS TimerEngine, TLAPS

(***************************************************************************)
(* What the three invariants of TimerEngine rest on: ids are not used      *)
(* twice, what the worker has in hand has not been cancelled, and the      *)
(* engine is only started and cleared while there is no worker.            *)
(***************************************************************************)
IdsAreFresh ==
  /\ \A id \in Queued : id < next_id
  /\ \A id \in Ids : cancelled[id] => id < next_id
  /\ next_task < next_id

HandOK ==
  /\ worker \in {"callback", "repeat"} => next_task \in Ids /\ ~cancelled[next_task]
  /\ worker = "repeat" => interval[next_task] > 0

ThreadsOK ==
  /\ ~running => worker = "off"
  /\ owner = "clear" => ~running

IInv ==
  /\ TypeOK
  /\ MapMatchesQueue
  /\ InOnePlace
  /\ IdsAreFresh
  /\ HandOK
  /\ ThreadsOK

LEMMA InitIInv == Init => IInv
<1> SUFFICES ASSUME Init PROVE IInv  OBVIOUS
<1>1. Queued = {}
  BY DEF Init, Queued
<1>2. TypeOK
  <2>1. next_id \in 1..(MaxTasks + 1)
    BY TimerAssumption DEF Init
  <2>2. cancelled \in [Ids -> BOOLEAN] /\ interval \in [Ids -> Nat]
    BY DEF Init
  <2> QED  BY <2>1, <2>2 DEF Init, TypeOK
<1>3. \A id \in Ids : ~cancelled[id]
  BY DEF Init
<1>4. MapMatchesQueue /\ InOnePlace
  BY <1>1 DEF Init, MapMatchesQueue, InOnePlace
<1>5. IdsAreFresh
  BY <1>1, <1>3 DEF Init, IdsAreFresh, NoTask
<1>6. HandOK /\ ThreadsOK
  BY DEF Init, HandOK, ThreadsOK
<1> QED  BY <1>2, <1>4, <1>5, <1>6 DEF IInv

LEMMA ScheduleIInv ==
  ASSUME IInv, NEW due \in Int, NEW period \in Nat, Schedule(due, period)
  PROVE  IInv'
<1> DEFINE entry == [id |-> next_id, due |-> due]
<1>1. entry \in Entry /\ entry.id = next_id /\ next_id \in Ids /\ queue' = queue \cup {entry}
  BY DEF Schedule, Entry
<1>2. Queued' = Queued \cup {next_id}
  BY <1>1 DEF Queued
<1>3. next_id \notin Queued
  BY <1>1 DEF IInv, IdsAreFresh, Ids
<1>4. \/ worker' = worker /\ next_task' = next_task
      \/ worker' = "check" /\ next_task' = NoTask
  BY DEF Schedule, Notify
<1> HIDE DEF entry
<1>5. TypeOK'
  BY <1>1, <1>4, TimerAssumption DEF IInv, TypeOK, Schedule, Ids
<1>6. ~cancelled[next_id]
  BY <1>1 DEF IInv, IdsAreFresh, TypeOK, Ids
<1>7. MapMatchesQueue'
  BY <1>2, <1>6 DEF IInv, MapMatchesQueue, Schedule
<1>8. InOnePlace'
  BY <1>1, <1>2, <1>3, <1>4 DEF IInv, InOnePlace, InHand, Queued, IdsAreFresh, TypeOK, Ids
<1>9. IdsAreFresh'
  <2>1. /\ next_id' = next_id + 1 /\ UNCHANGED cancelled
        /\ next_id \in Nat /\ NoTask < next_id
        /\ Queued \subseteq Nat /\ next_task \in Nat
    BY <1>1 DEF Schedule, IInv, TypeOK, Queued, Entry, Ids, NoTask
  <2>2. \A id \in Queued' : id < next_id'
    BY <1>2, <2>1 DEF IInv, IdsAreFresh
  <2>3. \A id \in Ids : cancelled'[id] => id < next_id'
    BY <2>1 DEF IInv, IdsAreFresh, Ids
  <2>4. next_task' < next_id'
    BY <1>4, <2>1 DEF IInv, IdsAreFresh, NoTask
  <2> QED  BY <2>2, <2>3, <2>4 DEF IdsAreFresh
<1>10. HandOK' /\ ThreadsOK'
  BY <1>1, <1>4 DEF IInv, HandOK, ThreadsOK, Schedule, IdsAreFresh, TypeOK, Ids, Notify, Waiting
<1> QED BY <1>5, <1>7, <1>8, <1>9, <1>10 DEF IInv

LEMMA CancelTaskIInv ==
  ASSUME IInv, NEW id \in Ids, CancelTask(id)
  PROVE  IInv'
<1>1. Queued' = Queued /\ id \in Queued
  BY DEF IInv, MapMatchesQueue, CancelTask, Queued
<1>2. TypeOK'
  BY DEF IInv, TypeOK, CancelTask, threads
<1>3. \A other \in Ids : cancelled'[other] <=> (other = id \/ cancelled[other])
  BY DEF IInv, TypeOK, CancelTask
<1>4. Queued \subseteq Ids
  BY DEF IInv, TypeOK, Queued, Entry
<1>5. MapMatchesQueue'
  BY <1>1, <1>3, <1>4 DEF IInv, MapMatchesQueue, CancelTask
<1>6. InOnePlace'
  BY <1>1 DEF IInv, InOnePlace, InHand, CancelTask, threads
<1>7. IdsAreFresh'
  BY <1>1, <1>3 DEF IInv, IdsAreFresh, CancelTask, threads
<1>8. worker \in {"callback", "repeat"} => next_task # id
  BY <1>1 DEF IInv, InOnePlace, InHand
<1>9. HandOK'
  BY <1>3, <1>8 DEF IInv, HandOK, CancelTask, threads
<1>10. ThreadsOK'
  BY DEF IInv, ThreadsOK, CancelTask, threads
<1> QED  BY <1>2, <1>5, <1>6, <1>7, <1>9, <1>10 DEF IInv

\* Steps that leave the tasks alone and take no task into hand.
Quiet ==
  /\ UNCHANGED tasks
  /\ \/ UNCHANGED <<worker, next_task>>
     \/ /\ worker' \in {"off", "check", "lock", "wait", "wait_for", "returned"}
        /\ next_task' \in Queued \cup {NoTask, next_task}
  /\ running' \in BOOLEAN
  /\ stopped' \in BOOLEAN
  /\ owner' \in {"idle", "notify", "join", "clear"}
  /\ ThreadsOK'

LEMMA QuietIInv ==
  ASSUME IInv, Quiet
  PROVE  IInv'
<1>1. Queued' = Queued
  BY DEF Quiet, tasks, Queued
<1>2. Queued \subseteq Ids
  BY DEF IInv, TypeOK, Queued, Entry
<1>3. TypeOK'
  BY <1>2 DEF IInv, TypeOK, Quiet, tasks
<1>4. MapMatchesQueue'
  BY <1>1 DEF IInv, MapMatchesQueue, Quiet, tasks
<1>5. InOnePlace'
  BY <1>1 DEF IInv, InOnePlace, InHand, Quiet, tasks
<1>6. next_task' < next_id
  BY TimerAssumption DEF IInv, TypeOK, IdsAreFresh, Quiet, NoTask, Ids
<1>7. IdsAreFresh'
  BY <1>1, <1>6 DEF IInv, IdsAreFresh, Quiet, tasks
<1>8. HandOK'
  BY DEF IInv, HandOK, Quiet, tasks
<1> QED  BY <1>3, <1>4, <1>5, <1>7, <1>8 DEF IInv, Quiet

LEMMA QuietSteps ==
  ASSUME IInv,
         \/ CheckStopped \/ WaitForTask \/ WaitUntilDue \/ TimesOut \/ WakesSpuriously
         \/ Start \/ Stop \/ NotifyAll \/ Join
         \/ CallbackReturns /\ interval[next_task] = 0
         \/ UNCHANGED vars
  PROVE  Quiet
<1> USE DEF IInv, TypeOK, ThreadsOK, Quiet, tasks
<1>1. CASE CheckStopped  BY <1>1 DEF CheckStopped
<1>2. CASE WaitForTask  BY <1>2 DEF WaitForTask
<1>3. CASE WaitUntilDue  BY <1>3 DEF WaitUntilDue, IsTop, Queued
<1>4. CASE TimesOut  BY <1>4 DEF TimesOut
<1>5. CASE WakesSpuriously  BY <1>5 DEF WakesSpuriously, Waiting
<1>6. CASE Start  BY <1>6 DEF Start
<1>7. CASE Stop  BY <1>7 DEF Stop
<1>8. CASE NotifyAll  BY <1>8 DEF NotifyAll, Notify, Waiting
<1>9. CASE Join  BY <1>9 DEF Join
<1>10. CASE CallbackReturns /\ interval[next_task] = 0  BY <1>10 DEF CallbackReturns
<1>11. CASE UNCHANGED vars  BY <1>11 DEF vars
<1> QED
  BY <1>1, <1>2, <1>3, <1>4, <1>5, <1>6, <1>7, <1>8, <1>9, <1>10, <1>11

\* A task is taken out of the queue: into hand, or away.
LEMMA PopIInv ==
  ASSUME IInv, NEW e \in queue, SkipCancelled(e) \/ RunTask(e)
  PROVE  IInv' /\ Queued' = Queued \ {e.id} /\ e.id \in Ids
<1>1. /\ e.id \in Ids /\ e.id \in Queued
      /\ queue' = queue \ {e}
      /\ cancellation_map' = cancellation_map \ {e.id}
      /\ UNCHANGED <<cancelled, interval, next_id, running, stopped, owner>>
      /\ worker = "lock"
  BY DEF SkipCancelled, RunTask, PopDue, IInv, TypeOK, Entry, Queued
<1>2. Queued' = Queued \ {e.id}
  BY <1>1 DEF Queued, IInv, InOnePlace
<1>3. \/ worker' = "check" /\ next_task' = next_task
      \/ worker' = "callback" /\ next_task' = e.id /\ ~cancelled[e.id]
  BY DEF SkipCancelled, RunTask
<1>4. TypeOK'
  BY <1>1, <1>3 DEF IInv, TypeOK
<1>5. MapMatchesQueue'
  BY <1>1, <1>2 DEF IInv, MapMatchesQueue
<1>6. InOnePlace'
  BY <1>1, <1>2, <1>3 DEF IInv, InOnePlace, InHand
<1>7. IdsAreFresh'
  BY <1>1, <1>2, <1>3 DEF IInv, IdsAreFresh
<1>8. HandOK' /\ ThreadsOK'
  BY <1>1, <1>3 DEF IInv, HandOK, ThreadsOK
<1> QED  BY <1>1, <1>2, <1>4, <1>5, <1>6, <1>7, <1>8 DEF IInv

LEMMA AgainIInv ==
  ASSUME IInv, CallbackReturns, interval[next_task] > 0
  PROVE  IInv'
<1>1. /\ UNCHANGED <<tasks, running, stopped, owner, next_task>>
      /\ worker = "callback" /\ worker' = "repeat"
  BY DEF CallbackReturns
<1>2. Queued' = Queued /\ \A id : InHand(id)' <=> InHand(id)
  BY <1>1 DEF Queued, InHand, tasks
<1>3. TypeOK' /\ IdsAreFresh'
  BY <1>1, <1>2 DEF IInv, TypeOK, IdsAreFresh, tasks
<1>4. MapMatchesQueue' /\ InOnePlace'
  BY <1>1, <1>2 DEF IInv, MapMatchesQueue, InOnePlace, tasks
<1>5. HandOK' /\ ThreadsOK'
  BY <1>1 DEF IInv, HandOK, ThreadsOK, tasks
<1> QED  BY <1>3, <1>4, <1>5 DEF IInv

LEMMA RepeatIInv ==
  ASSUME IInv, Repeat
  PROVE  IInv' /\ Queued' = Queued \cup {next_task}
<1> DEFINE entry == [id |-> next_task, due |-> interval[next_task]]
<1>1. /\ next_task \in Ids /\ ~cancelled[next_task] /\ next_task \notin Queued
      /\ next_task < next_id
  BY DEF Repeat, IInv, HandOK, InOnePlace, InHand, IdsAreFresh
<1>2. /\ entry \in Entry /\ entry.id = next_task
      /\ queue' = queue \cup {entry}
      /\ cancellation_map' = cancellation_map \cup {next_task}
      /\ worker' = "check" /\ next_task' = NoTask
      /\ UNCHANGED <<cancelled, interval, next_id, running, stopped, owner>>
  BY <1>1 DEF Repeat, Entry, IInv, TypeOK
<1> HIDE DEF entry
<1>3. Queued' = Queued \cup {next_task}
  BY <1>2 DEF Queued
<1>4. TypeOK'
  BY <1>1, <1>2 DEF IInv, TypeOK
<1>5. MapMatchesQueue'
  BY <1>1, <1>2, <1>3 DEF IInv, MapMatchesQueue
<1>6. InOnePlace'
  BY <1>1, <1>2, <1>3 DEF IInv, InOnePlace, InHand, Queued
<1>7. NoTask < next_id
  BY TimerAssumption DEF IInv, TypeOK, NoTask, Ids
<1>8. IdsAreFresh'
  BY <1>1, <1>2, <1>3, <1>7 DEF IInv, IdsAreFresh
<1>9. HandOK' /\ ThreadsOK'
  BY <1>2 DEF IInv, HandOK, ThreadsOK, Repeat
<1> QED  BY <1>3, <1>4, <1>5, <1>6, <1>8, <1>9 DEF IInv

LEMMA ClearQueueIInv ==
  ASSUME IInv, ClearQueue
  PROVE  IInv' /\ Queued' = {}
<1>1. Queued' = {}
  BY DEF ClearQueue, Queued
<1>2. TypeOK' /\ HandOK' /\ ThreadsOK'
  BY DEF IInv, TypeOK, HandOK, ThreadsOK, ClearQueue
<1>3. MapMatchesQueue' /\ InOnePlace'
  BY <1>1 DEF MapMatchesQueue, InOnePlace, ClearQueue
<1>4. IdsAreFresh'
  BY <1>1 DEF IInv, IdsAreFresh, ClearQueue
<1> QED  BY <1>1, <1>2, <1>3, <1>4 DEF IInv

\* Time changes when entries are due, and nothing else.
LEMMA TickIInv ==
  ASSUME IInv, Tick
  PROVE  IInv' /\ Queued' = Queued
<1> DEFINE later(e) == [e EXCEPT !.due = e.due - 1]
<1>1. queue' = {later(e) : e \in queue}
  BY DEF Tick
<1>2. \A e \in queue : later(e) \in Entry /\ later(e).id = e.id
  BY DEF IInv, TypeOK, Entry
<1> HIDE DEF later
<1>3. Queued' = Queued
  BY <1>1, <1>2 DEF Queued
<1>4. queue' \subseteq Entry
  BY <1>1, <1>2
<1>5. \A e, other \in queue' : e.id = other.id => e = other
  BY <1>1, <1>2 DEF IInv, InOnePlace
<1>6. UNCHANGED <<cancellation_map, cancelled, interval, next_id, threads>>
  BY DEF Tick
<1>7. TypeOK'
  BY <1>4, <1>6 DEF IInv, TypeOK, threads
<1>8. MapMatchesQueue' /\ InOnePlace'
  BY <1>3, <1>5, <1>6 DEF IInv, MapMatchesQueue, InOnePlace, InHand, threads
<1>9. IdsAreFresh' /\ HandOK' /\ ThreadsOK'
  BY <1>3, <1>6 DEF IInv, IdsAreFresh, HandOK, ThreadsOK, threads
<1> QED  BY <1>3, <1>7, <1>8, <1>9 DEF IInv

LEMMA NextIInv == IInv /\ [Next]_vars => IInv'
<1> SUFFICES ASSUME IInv, [Next]_vars PROVE IInv'  OBVIOUS
<1>1. CASE AddTask
  <2> PICK delay \in Delays : Schedule(delay, 0)  BY <1>1 DEF AddTask
  <2> QED  BY ScheduleIInv, TimerAssumption
<1>2. CASE AddRepeatedTask
  <2> PICK period \in Intervals, immediate \in BOOLEAN :
        Schedule(IF immediate THEN 0 ELSE period, period)
    BY <1>2 DEF AddRepeatedTask
  <2>1. period \in Nat /\ (IF immediate THEN 0 ELSE period) \in Int
    BY TimerAssumption
  <2> QED  BY <2>1, ScheduleIInv
<1>3. CASE \E id \in Ids : CancelTask(id)
  BY <1>3, CancelTaskIInv
<1>4. CASE \E e \in queue : SkipCancelled(e) \/ RunTask(e)
  BY <1>4, PopIInv
<1>5. CASE CallbackReturns
  <2>1. interval[next_task] = 0 \/ interval[next_task] > 0
    BY <1>5 DEF IInv, TypeOK, HandOK, CallbackReturns
  <2> QED  BY <1>5, <2>1, AgainIInv, QuietSteps, QuietIInv
<1>6. CASE Repeat
  BY <1>6, RepeatIInv
<1>7. CASE ClearQueue
  BY <1>7, ClearQueueIInv
<1>8. CASE Tick
  BY <1>8, TickIInv
<1>9. CASE \/ CheckStopped \/ WaitForTask \/ WaitUntilDue \/ TimesOut \/ WakesSpuriously
           \/ Start \/ Stop \/ NotifyAll \/ Join \/ UNCHANGED vars
  BY <1>9, QuietSteps, QuietIInv
<1> QED
  BY <1>1, <1>2, <1>3, <1>4, <1>5, <1>6, <1>7, <1>8, <1>9 DEF Next, WorkerStep, StopStep

\* Every field keeps its type.
THEOREM TimerTypeCorrect == Spec => []TypeOK
<1>1. IInv => TypeOK  BY DEF IInv
<1> QED  BY <1>1, InitIInv, NextIInv, PTL DEF Spec

\* CancelTask finds exactly the tasks that can still be cancelled.
THEOREM TimerMapMatchesQueue == Spec => []MapMatchesQueue
<1>1. IInv => MapMatchesQueue  BY DEF IInv
<1> QED  BY <1>1, InitIInv, NextIInv, PTL DEF Spec

\* A task is in the queue once, or in the hands of the worker, and not both.
THEOREM TimerInOnePlace == Spec => []InOnePlace
<1>1. IInv => InOnePlace  BY DEF IInv
<1> QED  BY <1>1, InitIInv, NextIInv, PTL DEF Spec

-----------------------------------------------------------------------------
(***************************************************************************)
(* The engine implements Timers.                                           *)
(***************************************************************************)

\* A task for which nothing changes that its status depends on.
Same(id) ==
  /\ InHand(id)' <=> InHand(id)
  /\ cancelled'[id] <=> cancelled[id]
  /\ id \in Queued' <=> id \in Queued
  /\ id < next_id' <=> id < next_id

LEMMA SameStatus ==
  ASSUME NEW id, Same(id)
  PROVE  Status(id)' = Status(id)
BY DEF Same, Status, StatusOf

statuses == [id \in Ids |-> Status(id)]

LEMMA AllSame ==
  ASSUME \A id \in Ids : Same(id), interval' = interval
  PROVE  UNCHANGED AbstractTimers!vars
<1>1. statuses' = statuses
  BY SameStatus DEF statuses
<1> QED  BY <1>1 DEF AbstractTimers!vars, statuses

LEMMA OneChanges ==
  ASSUME NEW k \in Ids, NEW value, Status(k)' = value,
         \A id \in Ids \ {k} : Same(id)
  PROVE  statuses' = [statuses EXCEPT ![k] = value]
<1>1. \A id \in Ids \ {k} : Status(id)' = Status(id)
  BY SameStatus
<1> QED  BY <1>1 DEF statuses

LEMMA ScheduleRefines ==
  ASSUME IInv, NEW due \in Int, NEW period \in Intervals \cup {0}, Schedule(due, period)
  PROVE  AbstractTimers!Next
<1>0. PICK k : k = next_id  OBVIOUS
<1> DEFINE entry == [id |-> k, due |-> due]
<1>1. /\ k \in Ids /\ k \in Nat
      /\ queue' = queue \cup {entry} /\ entry.id = k
      /\ next_id' = k + 1
      /\ cancelled' = cancelled
      /\ interval' = [interval EXCEPT ![k] = period]
  BY <1>0 DEF Schedule, Ids
<1> HIDE DEF entry
<1>2. Queued' = Queued \cup {k}
  BY <1>1 DEF Queued
<1>3. \A id : InHand(id)' <=> InHand(id)
  BY DEF InHand, Schedule, Notify, Waiting
<1>4. ~InHand(k) /\ ~cancelled[k] /\ k \notin Queued /\ ~(k < k)
  BY <1>0, <1>1 DEF IInv, IdsAreFresh, InHand, Ids
<1>5. Status(k) = "none"
  BY <1>0, <1>4 DEF Status, StatusOf
<1>6. Status(k)' = "pending"
  BY <1>0, <1>1, <1>2, <1>3, <1>4 DEF Status, StatusOf
<1>7. \A id \in Ids \ {k} : id < k + 1 <=> id < k
  BY <1>1 DEF Ids
<1>8. \A id \in Ids \ {k} : Same(id)
  BY <1>0, <1>1, <1>2, <1>3, <1>7 DEF Same
<1>9. statuses' = [statuses EXCEPT ![k] = "pending"] /\ statuses[k] = "none"
  BY <1>1, <1>5, <1>6, <1>8, OneChanges DEF statuses
<1>10. AbstractTimers!Add(k)
  BY <1>1, <1>9 DEF AbstractTimers!Add, statuses
<1> QED  BY <1>1, <1>10 DEF AbstractTimers!Next

LEMMA CancelTaskRefines ==
  ASSUME IInv, NEW k \in Ids, CancelTask(k)
  PROVE  AbstractTimers!Next
<1>1. /\ cancelled' = [cancelled EXCEPT ![k] = TRUE]
      /\ UNCHANGED <<queue, interval, next_id, worker, next_task>>
      /\ k \in Queued /\ ~cancelled[k] /\ ~InHand(k)
  BY DEF CancelTask, threads, IInv, MapMatchesQueue, InOnePlace
<1>2. cancelled'[k] /\ \A id \in Ids \ {k} : cancelled'[id] = cancelled[id]
  BY <1>1 DEF IInv, TypeOK
<1>3. Queued' = Queued /\ \A id : InHand(id)' <=> InHand(id)
  BY <1>1 DEF Queued, InHand
<1>4. Status(k) = "pending" /\ Status(k)' = "cancelled"
  BY <1>1, <1>2, <1>3 DEF Status, StatusOf
<1>5. \A id \in Ids \ {k} : Same(id)
  BY <1>1, <1>2, <1>3 DEF Same
<1>6. statuses' = [statuses EXCEPT ![k] = "cancelled"] /\ statuses[k] = "pending"
  BY <1>4, <1>5, OneChanges DEF statuses
<1>7. AbstractTimers!Cancel(k)
  BY <1>1, <1>6 DEF AbstractTimers!Cancel, statuses
<1> QED  BY <1>7 DEF AbstractTimers!Next

\* With nothing in hand no task is running.
LEMMA NobodyRuns ==
  ASSUME worker \notin {"callback", "repeat"}
  PROVE  \A id \in Ids : statuses[id] # "running"
BY DEF statuses, Status, StatusOf, InHand

LEMMA QuietRefines ==
  ASSUME IInv, Quiet, ~(worker \in {"callback", "repeat"} /\ worker' # worker)
  PROVE  UNCHANGED AbstractTimers!vars
<1>1. Queued' = Queued /\ UNCHANGED <<cancelled, interval, next_id>>
  BY DEF Quiet, tasks, Queued
<1>2. \A id : InHand(id)' <=> InHand(id)
  BY DEF Quiet, InHand, IInv, TypeOK
<1>3. \A id \in Ids : Same(id)
  BY <1>1, <1>2 DEF Same
<1> QED  BY <1>1, <1>3, AllSame

LEMMA SkipCancelledRefines ==
  ASSUME IInv, NEW e \in queue, SkipCancelled(e)
  PROVE  UNCHANGED AbstractTimers!vars
<1>1. Queued' = Queued \ {e.id} /\ e.id \in Ids
  BY PopIInv
<1>2. /\ worker = "lock" /\ worker' = "check" /\ cancelled[e.id]
      /\ UNCHANGED <<cancelled, interval, next_id, next_task>>
  BY DEF SkipCancelled, PopDue
<1>3. \A id : ~InHand(id) /\ ~InHand(id)'
  BY <1>2 DEF InHand
<1>4. Status(e.id)' = Status(e.id)
  BY <1>2, <1>3 DEF Status, StatusOf
<1>5. \A id \in Ids \ {e.id} : Same(id)
  BY <1>1, <1>2, <1>3 DEF Same
<1>6. statuses' = statuses
  BY <1>4, <1>5, SameStatus DEF statuses
<1> QED  BY <1>2, <1>6 DEF AbstractTimers!vars, statuses

LEMMA RunTaskRefines ==
  ASSUME IInv, NEW e \in queue, RunTask(e)
  PROVE  AbstractTimers!Next
<1> DEFINE k == e.id
<1>1. Queued' = Queued \ {k} /\ k \in Ids /\ k \in Queued
  BY PopIInv DEF Queued
<1>2. /\ worker = "lock" /\ worker' = "callback" /\ next_task' = k /\ ~cancelled[k]
      /\ UNCHANGED <<cancelled, interval, next_id>>
  BY DEF RunTask, PopDue
<1> HIDE DEF k
<1>3. /\ \A id : ~InHand(id)
      /\ \A id : InHand(id)' <=> id = k
  BY <1>2 DEF InHand
<1>4. Status(k) = "pending" /\ Status(k)' = "running"
  BY <1>1, <1>2, <1>3 DEF Status, StatusOf
<1>5. \A id \in Ids \ {k} : Same(id)
  BY <1>1, <1>2, <1>3 DEF Same
<1>6. statuses' = [statuses EXCEPT ![k] = "running"] /\ statuses[k] = "pending"
  BY <1>1, <1>4, <1>5, OneChanges DEF statuses
<1>7. \A id \in Ids : statuses[id] # "running"
  BY <1>2, NobodyRuns
<1>8. AbstractTimers!Begin(k)
  BY <1>2, <1>6, <1>7 DEF AbstractTimers!Begin, statuses
<1> QED  BY <1>1, <1>8 DEF AbstractTimers!Next

\* A task that runs once is over when its callback returns.
LEMMA CallbackReturnsRefines ==
  ASSUME IInv, CallbackReturns
  PROVE  AbstractTimers!Next \/ UNCHANGED AbstractTimers!vars
<1>0. PICK k : k = next_task  OBVIOUS
<1>1. k \in Ids /\ ~cancelled[k] /\ InHand(k) /\ k \notin Queued /\ k < next_id
  BY <1>0 DEF CallbackReturns, IInv, HandOK, InHand, InOnePlace, IdsAreFresh
<1>2. Queued' = Queued /\ UNCHANGED <<cancelled, interval, next_id>> /\ worker = "callback"
  BY DEF CallbackReturns, tasks, Queued
<1>3. CASE interval[k] > 0
  <2>1. \A id : InHand(id)' <=> InHand(id)
    BY <1>0, <1>2, <1>3 DEF CallbackReturns, InHand
  <2>2. \A id \in Ids : Same(id)
    BY <1>2, <2>1 DEF Same
  <2> QED  BY <1>2, <2>2, AllSame
<1>4. CASE ~(interval[k] > 0)
  <2>1. /\ \A id : InHand(id) <=> id = k
        /\ \A id : ~InHand(id)'
    BY <1>0, <1>2, <1>4 DEF CallbackReturns, InHand
  <2>2. Status(k) = "running" /\ Status(k)' = "over"
    BY <1>1, <1>2, <2>1 DEF Status, StatusOf
  <2>3. \A id \in Ids \ {k} : Same(id)
    BY <1>2, <2>1 DEF Same
  <2>4. statuses' = [statuses EXCEPT ![k] = "over"] /\ statuses[k] = "running"
    BY <1>1, <2>2, <2>3, OneChanges DEF statuses
  <2>5. AbstractTimers!Finish(k)
    BY <1>2, <1>4, <2>4 DEF AbstractTimers!Finish, statuses
  <2> QED  BY <1>1, <2>5 DEF AbstractTimers!Next
<1> QED  BY <1>3, <1>4

LEMMA RepeatRefines ==
  ASSUME IInv, Repeat
  PROVE  AbstractTimers!Next
<1>0. PICK k : k = next_task  OBVIOUS
<1>1. k \in Ids /\ ~cancelled[k] /\ interval[k] > 0
  BY <1>0 DEF Repeat, IInv, HandOK
<1>2. Queued' = Queued \cup {k}
  BY <1>0, RepeatIInv
<1>3. UNCHANGED <<cancelled, interval, next_id>>
  BY DEF Repeat
<1>4. /\ \A id : InHand(id) <=> id = k
      /\ \A id : ~InHand(id)'
  BY <1>0 DEF Repeat, InHand
<1>5. Status(k) = "running" /\ Status(k)' = "pending"
  BY <1>1, <1>2, <1>3, <1>4 DEF Status, StatusOf
<1>6. \A id \in Ids \ {k} : Same(id)
  BY <1>2, <1>3, <1>4 DEF Same
<1>7. statuses' = [statuses EXCEPT ![k] = "pending"] /\ statuses[k] = "running"
  BY <1>1, <1>5, <1>6, OneChanges DEF statuses
<1>8. AbstractTimers!Finish(k)
  BY <1>1, <1>3, <1>7 DEF AbstractTimers!Finish, statuses
<1> QED  BY <1>1, <1>8 DEF AbstractTimers!Next

LEMMA ClearQueueRefines ==
  ASSUME IInv, ClearQueue
  PROVE  AbstractTimers!Next
<1>1. Queued' = {} /\ UNCHANGED <<cancelled, interval, next_id, worker, next_task>>
  BY ClearQueueIInv DEF ClearQueue
<1>2. worker = "off"
  BY DEF ClearQueue, IInv, ThreadsOK
<1>3. \A id : ~InHand(id) /\ ~InHand(id)'
  BY <1>1, <1>2 DEF InHand
<1>4. \A id \in Queued : id < next_id
  BY DEF IInv, IdsAreFresh
<1>5. \A id \in Ids :
        Status(id)' = IF Status(id) = "pending" THEN "over" ELSE Status(id)
  BY <1>1, <1>3, <1>4 DEF Status, StatusOf
<1>6. statuses' = [id \in Ids |-> IF statuses[id] = "pending" THEN "over" ELSE statuses[id]]
  BY <1>5 DEF statuses
<1>7. \A id \in Ids : statuses[id] # "running"
  BY <1>2, NobodyRuns
<1>8. AbstractTimers!GiveUpAll
  BY <1>1, <1>6, <1>7 DEF AbstractTimers!GiveUpAll, statuses
<1> QED  BY <1>8 DEF AbstractTimers!Next

LEMMA TickRefines ==
  ASSUME IInv, Tick
  PROVE  UNCHANGED AbstractTimers!vars
<1>1. Queued' = Queued /\ UNCHANGED <<cancelled, interval, next_id, worker, next_task>>
  BY TickIInv DEF Tick, threads
<1>2. \A id : InHand(id)' <=> InHand(id)
  BY <1>1 DEF InHand
<1>3. \A id \in Ids : Same(id)
  BY <1>1, <1>2 DEF Same
<1> QED  BY <1>1, <1>3, AllSame

LEMMA NextRefines == IInv /\ [Next]_vars => [AbstractTimers!Next]_(AbstractTimers!vars)
<1> SUFFICES ASSUME IInv, [Next]_vars
             PROVE  AbstractTimers!Next \/ UNCHANGED AbstractTimers!vars
  OBVIOUS
<1>1. CASE AddTask
  <2> PICK delay \in Delays : Schedule(delay, 0)  BY <1>1 DEF AddTask
  <2> QED  BY ScheduleRefines, TimerAssumption
<1>2. CASE AddRepeatedTask
  <2> PICK period \in Intervals, immediate \in BOOLEAN :
        Schedule(IF immediate THEN 0 ELSE period, period)
    BY <1>2 DEF AddRepeatedTask
  <2>1. (IF immediate THEN 0 ELSE period) \in Int
    BY TimerAssumption
  <2> QED  BY <2>1, ScheduleRefines
<1>3. CASE \E id \in Ids : CancelTask(id)
  BY <1>3, CancelTaskRefines
<1>4. CASE \E e \in queue : SkipCancelled(e) \/ RunTask(e)
  BY <1>4, SkipCancelledRefines, RunTaskRefines
<1>5. CASE CallbackReturns
  BY <1>5, CallbackReturnsRefines
<1>6. CASE Repeat
  BY <1>6, RepeatRefines
<1>7. CASE ClearQueue
  BY <1>7, ClearQueueRefines
<1>8. CASE Tick
  BY <1>8, TickRefines
<1>9. CASE \/ CheckStopped \/ WaitForTask \/ WaitUntilDue \/ TimesOut \/ WakesSpuriously
           \/ Start \/ Stop \/ NotifyAll \/ Join \/ UNCHANGED vars
  <2>1. Quiet
    BY <1>9, QuietSteps
  <2>2. ~(worker \in {"callback", "repeat"} /\ worker' # worker)
    BY <1>9 DEF CheckStopped, WaitForTask, WaitUntilDue, TimesOut, WakesSpuriously, Waiting,
                Start, Stop, NotifyAll, Notify, Join, vars, IInv, ThreadsOK
  <2> QED  BY <2>1, <2>2, QuietRefines
<1> QED
  BY <1>1, <1>2, <1>3, <1>4, <1>5, <1>6, <1>7, <1>8, <1>9 DEF Next, WorkerStep, StopStep

LEMMA InitRefines == Init => AbstractTimers!Init
<1> SUFFICES ASSUME Init PROVE AbstractTimers!Init  OBVIOUS
<1>1. Queued = {} /\ \A id : ~InHand(id)
  BY DEF Init, Queued, InHand
<1>2. \A id \in Ids : ~cancelled[id] /\ ~(id < next_id)
  BY DEF Init, Ids
<1>3. statuses = [id \in Ids |-> "none"]
  BY <1>1, <1>2 DEF statuses, Status, StatusOf
<1> QED  BY <1>3 DEF Init, AbstractTimers!Init, statuses

\* Whatever the threads do, and however often the engine is stopped and started
\* again: a cancelled task never runs, a task that runs once runs once, and a
\* task is given up only by a stop.
THEOREM TimerImplementsTimers == Spec => ImplementsTimers
<1>1. Init => AbstractTimers!Init /\ IInv
  BY InitRefines, InitIInv
<1> QED
  BY <1>1, NextIInv, NextRefines, PTL DEF Spec, ImplementsTimers, AbstractTimers!Spec

=============================================================================
