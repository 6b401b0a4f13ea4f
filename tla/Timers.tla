------------------------------- MODULE Timers -------------------------------
(***************************************************************************)
(* What the timers promise their callers, without threads, locks or time:  *)
(* the life of each task.  TimerEngine implements this specification.      *)
(***************************************************************************)
EXTENDS Naturals

CONSTANTS Ids,       \* the tasks
          Periods    \* the intervals of tasks, 0 for one that runs once

VARIABLES status,     \* where each task is in its life
          interval    \* how often it repeats

vars == <<status, interval>>

TaskStatus == {"none", "pending", "running", "cancelled", "over"}

Init ==
  /\ status = [id \in Ids |-> "none"]
  /\ interval = [id \in Ids |-> 0]

Add(id) ==
  /\ status[id] = "none"
  /\ status' = [status EXCEPT ![id] = "pending"]
  /\ \E n \in Periods : interval' = [interval EXCEPT ![id] = n]

\* A task that has begun cannot be cancelled, and a cancelled one is so forever.
Cancel(id) ==
  /\ status[id] = "pending"
  /\ status' = [status EXCEPT ![id] = "cancelled"]
  /\ UNCHANGED interval

\* One task at a time.
Begin(id) ==
  /\ \A other \in Ids : status[other] # "running"
  /\ status[id] = "pending"
  /\ status' = [status EXCEPT ![id] = "running"]
  /\ UNCHANGED interval

\* A task is run once, or again and again.
Finish(id) ==
  /\ status[id] = "running"
  /\ status' = [status EXCEPT ![id] = IF interval[id] > 0 THEN "pending" ELSE "over"]
  /\ UNCHANGED interval

\* Stopping gives up all pending tasks together, and interrupts none.
GiveUpAll ==
  /\ \A id \in Ids : status[id] # "running"
  /\ status' = [id \in Ids |-> IF status[id] = "pending" THEN "over" ELSE status[id]]
  /\ UNCHANGED interval

Next ==
  \/ \E id \in Ids : Add(id) \/ Cancel(id) \/ Begin(id) \/ Finish(id)
  \/ GiveUpAll

Spec == Init /\ [][Next]_vars
=============================================================================
