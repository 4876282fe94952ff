------------------------------- MODULE Streams -------------------------------
(***************************************************************************)
(* workflow_streams/: a workflow publishes events into a log it keeps, and *)
(* subscribers read them by polling it.  TickerWorkflow truncates the log  *)
(* as it goes, under a subscriber that keeps up and one that is slow and   *)
(* reports what it missed; PipelineWorkflow keeps it all, for a subscriber *)
(* that disconnects and resumes.                                           *)
(*                                                                         *)
(* The stream (temporalio.contrib.workflow_streams) is external: offsets   *)
(* count from 0, a poll returns what the log holds from an offset on, or   *)
(* from its base if that was truncated; it waits for an event, and ends    *)
(* the iteration when the workflow has closed.  Event n has offset n.      *)
(***************************************************************************)
EXTENDS Integers, Sequences, SequencesExt, FiniteSets, FiniteSetsExt

CONSTANTS
  Count, KeepLast, TruncateEvery,   \* TickerInput
  Stages,                           \* number of stages of the pipeline
  PHASE_1_EVENTS                    \* events the resuming subscriber reads at first

Subscribers == {"fast", "slow", "resuming"}

StreamAssumption == KeepLast \in Nat /\ TruncateEvery \in Nat \ {0}

VARIABLES
  host,              \* the workflow that publishes: "ticker" or "pipeline"
  published, base,   \* the log holds the events base .. published - 1
  running,           \* "publishing", "sleeping" after an event, "held" open, "closed"
  reading,           \* each subscriber: "reading", "away", "resumed", "done"
  position,          \* the offset its next poll asks for
  batch,             \* what its last poll returned and it has not yet looked at
  shown,             \* the offsets it has shown, in order
  last_offset, dropped,   \* the slow one: the last offset, the sum of the gaps it reported
  processed          \* the resuming one: where it will resume

stream == <<host, published, base, running>>
subscriber == <<reading, position, batch, shown, last_offset, dropped, processed>>
vars == <<stream, subscriber>>

Events == IF host = "ticker" THEN Count ELSE Stages
SubscribersOf == IF host = "ticker" THEN {"fast", "slow"} ELSE {"resuming"}

Init ==
  /\ host \in {"ticker", "pipeline"}
  /\ published = 0 /\ base = 0 /\ running = "publishing"
  /\ reading = [s \in Subscribers |-> "reading"]
  /\ position = [s \in Subscribers |-> 0]
  /\ batch = [s \in Subscribers |-> <<>>]
  /\ shown = [s \in Subscribers |-> <<>>]
  /\ last_offset = -1 /\ dropped = 0 /\ processed = 0
-----------------------------------------------------------------------------
(* The workflows' run methods.                                             *)

Publish ==
  /\ running = "publishing"
  /\ published' = published + 1
  /\ running' = IF host = "pipeline" /\ published' = Stages THEN "held" ELSE "sleeping"
  /\ UNCHANGED <<host, base, subscriber>>

\* TickerWorkflow, after each sleep.
TruncateTo == published - KeepLast
MustTruncate == published % TruncateEvery = 0 /\ published > KeepLast
TickerWakes ==
  /\ host = "ticker" /\ running = "sleeping"
  /\ base' = IF MustTruncate THEN TruncateTo ELSE base
  /\ running' = IF published = Count THEN "held" ELSE "publishing"
  /\ UNCHANGED <<host, published, subscriber>>

PipelineWakes ==
  /\ host = "pipeline" /\ running = "sleeping"
  /\ running' = "publishing"
  /\ UNCHANGED <<host, published, base, subscriber>>

Close ==
  /\ running = "held"
  /\ running' = "closed"
  /\ UNCHANGED <<host, published, base, subscriber>>
-----------------------------------------------------------------------------
(* The subscribers.                                                        *)

Connected(s) == s \in SubscribersOf /\ reading[s] \in {"reading", "resumed"}

Poll(s) ==
  /\ Connected(s) /\ batch[s] = <<>> /\ running # "closed"
  /\ position[s] < published
  /\ LET from == Max({position[s], base}) IN
     batch' = [batch EXCEPT ![s] = [i \in 1..(published - from) |-> from + i - 1]]
  /\ position' = [position EXCEPT ![s] = published]
  /\ UNCHANGED <<stream, reading, shown, last_offset, dropped, processed>>

\* The workflow has closed: the iteration ends without the last event.
Exhausted(s) ==
  /\ Connected(s) /\ batch[s] = <<>> /\ running = "closed"
  /\ reading' = [reading EXCEPT ![s] = "done"]
  /\ UNCHANGED <<stream, position, batch, shown, last_offset, dropped, processed>>

\* The loop body for the next item of the batch, up to the test that ends the loop.
Show(s) ==
  /\ Connected(s) /\ batch[s] # <<>>
  /\ shown' = [shown EXCEPT ![s] = Append(@, Head(batch[s]))]
IsLast(item) == item = Events - 1

FastSubscriber ==
  /\ Show("fast")
  /\ reading' = [reading EXCEPT !["fast"] = IF IsLast(Head(batch["fast"])) THEN "done" ELSE @]
  /\ batch' = [batch EXCEPT !["fast"] = Tail(@)]
  /\ UNCHANGED <<stream, position, last_offset, dropped, processed>>

GapInclusive(item) == item - last_offset        \* mutant: counts the event itself
Gap(item) == item - last_offset - 1
SlowSubscriber ==
  LET item == Head(batch["slow"]) IN
  /\ Show("slow")
  /\ dropped' = IF last_offset >= 0 /\ item > last_offset + 1 THEN dropped + Gap(item) ELSE dropped
  /\ last_offset' = item
  /\ reading' = [reading EXCEPT !["slow"] = IF IsLast(item) THEN "done" ELSE @]
  /\ batch' = [batch EXCEPT !["slow"] = Tail(@)]
  /\ UNCHANGED <<stream, position, processed>>

\* Phase 1 ends after a few events, whatever the batch still holds.
ResumeAt(item) == item + 1
ResumingSubscriber ==
  LET s == "resuming"
      item == Head(batch[s])
      leaves == reading[s] = "reading" /\ Len(shown'[s]) >= PHASE_1_EVENTS
  IN /\ Show(s)
     /\ processed' = ResumeAt(item)
     /\ reading' = [reading EXCEPT ![s] = IF leaves THEN "away"
                                          ELSE IF @ = "resumed" /\ IsLast(item) THEN "done" ELSE @]
     /\ batch' = [batch EXCEPT ![s] = IF leaves THEN <<>> ELSE Tail(@)]
     /\ UNCHANGED <<stream, position, last_offset, dropped>>

Reconnect ==
  /\ reading["resuming"] = "away"
  /\ reading' = [reading EXCEPT !["resuming"] = "resumed"]
  /\ position' = [position EXCEPT !["resuming"] = processed]
  /\ UNCHANGED <<stream, batch, shown, last_offset, dropped, processed>>

AllDone ==
  /\ running = "closed" /\ \A s \in SubscribersOf : reading[s] = "done"
  /\ UNCHANGED vars

Workflow == Publish \/ TickerWakes \/ PipelineWakes \/ Close
Subscriber ==
  \/ \E s \in Subscribers : Poll(s) \/ Exhausted(s)
  \/ FastSubscriber \/ SlowSubscriber \/ ResumingSubscriber \/ Reconnect
Next == Workflow \/ Subscriber \/ AllDone
Spec == Init /\ [][Next]_vars
-----------------------------------------------------------------------------
\* Truncation drops nothing of the last KeepLast events, and never lets the log grow past
\* what two truncations are apart: the last event can still be read while the ticker holds
\* its run open.
LogBounded ==
  host = "ticker" =>
    /\ published - base >= Min({published, KeepLast})
    /\ published - base <= KeepLast + TruncateEvery

\* However truncations fall between its polls, and within a batch it is slow to read, the
\* slow subscriber's account is exact: from the first event it saw to the last, every
\* event was shown once, in order, or is in a gap it reported.
GapsExact ==
  LET s == shown["slow"] IN
  s # <<>> =>
    /\ \A i \in 1..(Len(s) - 1) : s[i] < s[i + 1]
    /\ Len(s) + dropped = Last(s) - s[1] + 1

\* A subscriber that goes away, in the middle of a batch or not, and resumes at the offset
\* it remembers has seen every event up to there once and in order.
NeitherMissedNorTwice ==
  shown["resuming"] = [i \in 1..Len(shown["resuming"]) |-> i - 1]

\* All three: every event is accounted for.
EventsAccounted == LogBounded /\ GapsExact /\ NeitherMissedNorTwice
=============================================================================
