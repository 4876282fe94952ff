------------------------------ MODULE LLMStream ------------------------------
(***************************************************************************)
(* workflow_streams/, the LLM scenario: an activity streams the deltas of  *)
(* a completion into the log of its workflow and ends with a "complete"    *)
(* event; a later attempt starts with a "retry" event.  run_llm.py shows   *)
(* the deltas as they come, and clears the screen on a retry.              *)
(*                                                                         *)
(* The activity's stream client buffers what is published and flushes it   *)
(* now and then, and when its block is left, also by an exception.  A      *)
(* worker that is killed loses the buffer.  The service waits five minutes *)
(* for an attempt, which sends no heartbeat, and then starts the next one; *)
(* the one it has given up may be still at work, and goes on publishing.   *)
(***************************************************************************)
EXTENDS Naturals, Sequences

CONSTANTS
  Deltas,            \* deltas of a completion
  MaxAttempts        \* the retry policy's maximum_attempts

LLMAssumption == Deltas \in Nat /\ MaxAttempts \in Nat \ {0}

VARIABLES
  phase,             \* the workflow: "streaming", "held" open, "closed"; "failed"
  attempt,           \* the attempt that the service waits for, or the last one
  late,              \* history: an attempt that it had given up has flushed
  activity,          \* of each attempt: "none" yet, "starting", "publishing", "leaving"
                     \* the block, "reporting", "lost"
  produced,          \* of each attempt: the deltas it has published
  error,             \* of each attempt: it leaves the block with an exception
  buffer, log,       \* of each attempt: events not flushed; events in the workflow's log
  position, screen, ended, seen   \* the consumer: next offset, what it shows, whether its
                                  \* loop has ended, the attempts whose "complete" it saw

service == <<phase, attempt>>
worker == <<activity, produced, error, buffer>>
consumer == <<position, screen, ended, seen>>
vars == <<service, worker, log, late, consumer>>

Attempts == 1..MaxAttempts
Delta(a, n) == [topic |-> "delta", attempt |-> a, n |-> n]
Complete(a) == [topic |-> "complete", attempt |-> a, n |-> 0]
Retry(a) == [topic |-> "retry", attempt |-> a, n |-> 0]
FullText(a) == [n \in 1..Deltas |-> Delta(a, n)]

Init ==
  /\ phase = "streaming" /\ attempt = 1 /\ late = FALSE
  /\ activity = [a \in Attempts |-> IF a = 1 THEN "starting" ELSE "none"]
  /\ produced = [a \in Attempts |-> 0] /\ error = [a \in Attempts |-> FALSE]
  /\ buffer = [a \in Attempts |-> <<>>] /\ log = <<>>
  /\ position = 1 /\ screen = <<>> /\ ended = FALSE /\ seen = {}

Open == phase \in {"streaming", "held"}
-----------------------------------------------------------------------------
(* stream_completion, in the attempt a *)

NoRetryEvent(a) == <<>>        \* mutant: nothing announces the new attempt
RetryEvent(a) == IF a > 1 THEN <<Retry(a)>> ELSE <<>>
Begin(a) ==
  /\ activity[a] = "starting" /\ activity' = [activity EXCEPT ![a] = "publishing"]
  /\ buffer' = [buffer EXCEPT ![a] = RetryEvent(a)]
  /\ UNCHANGED <<service, produced, error, log, late, consumer>>

PublishDelta(a) ==
  /\ activity[a] = "publishing" /\ produced[a] < Deltas
  /\ produced' = [produced EXCEPT ![a] = @ + 1]
  /\ buffer' = [buffer EXCEPT ![a] = Append(@, Delta(a, produced[a] + 1))]
  /\ UNCHANGED <<service, activity, error, log, late, consumer>>

PublishComplete(a) ==
  /\ activity[a] = "publishing" /\ produced[a] = Deltas
  /\ buffer' = [buffer EXCEPT ![a] = Append(@, Complete(a))]
  /\ activity' = [activity EXCEPT ![a] = "leaving"]
  /\ UNCHANGED <<service, produced, error, log, late, consumer>>

\* The model's stream breaks off, or the worker cancels an attempt that is over time.
Break(a) ==
  /\ activity[a] = "publishing"
  /\ activity' = [activity EXCEPT ![a] = "leaving"] /\ error' = [error EXCEPT ![a] = TRUE]
  /\ UNCHANGED <<service, produced, buffer, log, late, consumer>>

\* The publish signal.  Nothing in it tells the workflow whether the attempt still counts.
Flush(a) ==
  /\ activity[a] \in {"publishing", "leaving"} /\ buffer[a] # <<>> /\ Open
  /\ log' = log \o buffer[a] /\ buffer' = [buffer EXCEPT ![a] = <<>>]
  /\ late' = (late \/ a # attempt)
  /\ UNCHANGED <<service, activity, produced, error, consumer>>

\* The block is left when all is flushed, or by the error of a flush to a closed workflow.
LeaveBlock(a) ==
  /\ activity[a] = "leaving" /\ (buffer[a] = <<>> \/ ~Open)
  /\ activity' = [activity EXCEPT ![a] = "reporting"]
  /\ error' = [error EXCEPT ![a] = @ \/ buffer[a] # <<>>]
  /\ UNCHANGED <<service, produced, buffer, log, late, consumer>>

\* The worker is killed, at any moment before the result is reported.
Kill(a) ==
  /\ activity[a] \notin {"none", "lost"}
  /\ activity' = [activity EXCEPT ![a] = "lost"] /\ buffer' = [buffer EXCEPT ![a] = <<>>]
  /\ UNCHANGED <<service, produced, error, log, late, consumer>>

Activity(a) ==
  \/ Begin(a) \/ PublishDelta(a) \/ PublishComplete(a) \/ Break(a) \/ Flush(a)
  \/ LeaveBlock(a) \/ Kill(a)
-----------------------------------------------------------------------------
(* LLMWorkflow, and the service that runs its activity *)

Return ==
  /\ phase = "streaming" /\ activity[attempt] = "reporting" /\ ~error[attempt]
  /\ phase' = "held"
  /\ UNCHANGED <<attempt, worker, log, late, consumer>>

\* After a failure: another attempt, or the end.
NextAttempt ==
  /\ IF attempt = MaxAttempts
     THEN phase' = "failed" /\ UNCHANGED <<attempt, activity>>
     ELSE /\ attempt' = attempt + 1
          /\ activity' = [activity EXCEPT ![attempt + 1] = "starting"]
          /\ UNCHANGED phase
  /\ UNCHANGED <<produced, error, buffer, log, late, consumer>>

FailAttempt ==
  /\ phase = "streaming" /\ activity[attempt] = "reporting" /\ error[attempt]
  /\ NextAttempt

\* start_to_close_timeout, whatever the attempt does: it is lost, its report is, or it is
\* still at work.
TimeOut == phase = "streaming" /\ NextAttempt

Close ==
  /\ phase = "held" /\ phase' = "closed"
  /\ UNCHANGED <<attempt, worker, log, late, consumer>>

Service == Return \/ FailAttempt \/ TimeOut \/ Close
-----------------------------------------------------------------------------
(* run_llm.py *)

Consume ==
  /\ ~ended /\ Open /\ position <= Len(log)
  /\ LET item == log[position] IN
     /\ screen' = CASE item.topic = "retry" -> <<>>
                    [] item.topic = "delta" -> Append(screen, item)
                    [] item.topic = "complete" -> screen
     /\ ended' = (item.topic = "complete")
     /\ seen' = IF item.topic = "complete" THEN {item.attempt} ELSE {}
  /\ position' = position + 1
  /\ UNCHANGED <<service, worker, log, late>>

\* The workflow has closed before the consumer has read to the end.
Exhausted ==
  /\ ~ended /\ ~Open
  /\ ended' = TRUE
  /\ UNCHANGED <<service, worker, log, late, position, screen, seen>>

Finished == ~Open /\ ended /\ UNCHANGED vars

Consumer == Consume \/ Exhausted
Next == (\E a \in Attempts : Activity(a)) \/ Service \/ Consumer \/ Finished
Spec == Init /\ [][Next]_vars
-----------------------------------------------------------------------------
\* What stands on the screen when the consumer has seen a "complete" is the full text of
\* the attempt that sent it, and nothing of the attempts that failed or were killed before.
TextApart == \A a \in seen : screen = FullText(a)

\* So it is as long as no attempt flushes that the service had given up.
ShownOnce == ~late => TextApart
=============================================================================
