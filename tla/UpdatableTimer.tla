--------------------------- MODULE UpdatableTimer ---------------------------
(***************************************************************************)
(* updatable_timer: a sleep whose end can be moved by a signal while it    *)
(* goes on.  UpdatableTimer.sleep waits, with a timeout, for the flag      *)
(* wake_up_time_updated; the signal sets the time and the flag.            *)
(*                                                                         *)
(* A workflow task sees the signals that came before it and then the timer *)
(* that fired, in this order; time passes between tasks, and the server    *)
(* may be late with either.  Times are datetimes throughout the code.      *)
(***************************************************************************)
EXTENDS Integers

CONSTANTS
  MaxTime,           \* times are 0..MaxTime
  WakeUpTime,        \* the argument the workflow is started with
  MaxSignals         \* calls of update_wake_up_time

TimerAssumption == MaxTime \in Nat /\ WakeUpTime \in Nat

VARIABLES
  wake_up_time, wake_up_time_updated,   \* UpdatableTimer
  sleep,                \* sleep: about to look at the time, in its wait, or done
  now,               \* the time
  deadline,          \* when the timer of the wait fires
  fired,             \* the server has fired it; the workflow has not seen it yet
  pending,           \* signals the workflow has not seen yet: their times, 0 for none
  signals,           \* how many were sent
  woke               \* history: when sleep returned

vars == <<wake_up_time, wake_up_time_updated, sleep, now, deadline, fired, pending, signals, woke>>

Times == 0..MaxTime

Init ==
  /\ wake_up_time = WakeUpTime /\ wake_up_time_updated = FALSE
  /\ sleep = "looking"
  /\ now = 0 /\ deadline = 0 /\ fired = FALSE /\ woke = 0
  /\ pending = {} /\ signals = 0
-----------------------------------------------------------------------------
(* Outside the workflow.                                                   *)

Tick ==
  /\ now < MaxTime /\ now' = now + 1
  /\ UNCHANGED <<wake_up_time, wake_up_time_updated, sleep, deadline, fired, pending, signals, woke>>

Fire ==
  /\ sleep = "waiting" /\ now >= deadline /\ ~fired /\ fired' = TRUE
  /\ UNCHANGED <<wake_up_time, wake_up_time_updated, sleep, now, deadline, pending, signals, woke>>

\* One signal at a time is under way; the sample's updater sends no other kind.
Send(t) ==
  /\ sleep # "done" /\ pending = {} /\ signals < MaxSignals
  /\ pending' = {t} /\ signals' = signals + 1
  /\ UNCHANGED <<wake_up_time, wake_up_time_updated, sleep, now, deadline, fired, woke>>
-----------------------------------------------------------------------------
(* The workflow.                                                           *)

UpdateWakeUpTime(t) ==
  /\ t \in pending /\ pending' = {} /\ sleep # "done"
  /\ wake_up_time' = t /\ wake_up_time_updated' = TRUE
  /\ UNCHANGED <<sleep, now, deadline, fired, signals, woke>>

\* The head of the loop: done, or a new wait for the time left.  A task that would
\* complete the workflow with a signal pending is made again with the signal.
SleepInterval == wake_up_time - now

Look ==
  /\ sleep = "looking"
  /\ \/ /\ SleepInterval <= 0 /\ pending = {}
        /\ sleep' = "done" /\ woke' = now
        /\ UNCHANGED <<wake_up_time_updated, deadline, fired>>
     \/ /\ SleepInterval > 0
        /\ sleep' = "waiting" /\ deadline' = now + SleepInterval /\ fired' = FALSE
        /\ wake_up_time_updated' = FALSE /\ woke' = woke
  /\ UNCHANGED <<wake_up_time, now, pending, signals>>

\* The wait ends, by the flag or by the timer.
TimedOut == /\ fired /\ pending = {} /\ ~wake_up_time_updated
WaitsAgain ==   \* mutant: the time left is not looked at again
  /\ sleep = "waiting" /\ (wake_up_time_updated \/ TimedOut) /\ fired' = FALSE
  /\ UNCHANGED <<wake_up_time, wake_up_time_updated, sleep, now, deadline, pending, signals, woke>>
WaitDoneAtOnce ==   \* mutant: done when the wait ends
  /\ sleep = "waiting" /\ (wake_up_time_updated \/ TimedOut)
  /\ sleep' = "done" /\ woke' = now
  /\ UNCHANGED <<wake_up_time, wake_up_time_updated, now, deadline, fired, pending, signals>>
WaitEnds ==
  /\ sleep = "waiting" /\ (wake_up_time_updated \/ TimedOut)
  /\ sleep' = "looking"
  /\ UNCHANGED <<wake_up_time, wake_up_time_updated, now, deadline, fired, pending, signals, woke>>

Terminated == sleep = "done" /\ UNCHANGED vars
-----------------------------------------------------------------------------
Workflow == Look \/ WaitEnds \/ \E t \in Times : UpdateWakeUpTime(t)

Next == \/ Workflow \/ Tick \/ Fire \/ Terminated
        \/ \E t \in Times : Send(t)

Spec == Init /\ [][Next]_vars

\* Time passes; the server fires timers and drives the workflow.
FairSpec == Spec /\ WF_vars(Tick) /\ WF_vars(Fire) /\ WF_vars(Workflow)
-----------------------------------------------------------------------------
(* Correctness.                                                            *)

\* Sleep does not end before the wake-up time, whatever it was moved to.
NotEarly == sleep = "done" => woke >= wake_up_time

\* Sleep ends, once nobody moves the time any more.
SleepEnds == <>(sleep = "done")
=============================================================================
