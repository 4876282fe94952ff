----------------------------- MODULE Versioning -----------------------------
(***************************************************************************)
(* worker_versioning/ and patching/: the code of a workflow changes under  *)
(* workflows that are running.  A worker rebuilds a workflow by replaying  *)
(* its history with the code it has, and the activities the code asks for  *)
(* must be the ones in the history.                                        *)
(*                                                                         *)
(* app.py starts an auto-upgrading and a pinned workflow on version 1.0,   *)
(* signals them, waits for the worker of the next version and makes it     *)
(* current, and so on; until the end it never waits for the workflows.     *)
(* patching/ restarts its worker with the code of the next stage, as its   *)
(* README says: a stage ends when the workflows of the stage before have.  *)
(*                                                                         *)
(* External, the service and SDK: a workflow begins on the version that is *)
(* current at its first task; an auto-upgrading one, and any of a worker   *)
(* without versions, moves to the current one with its next task; a pinned *)
(* one stays.  Every task is a replay of the history and goes on from its  *)
(* end (a worker may have forgotten the workflow).  patched(id) answers    *)
(* the same every time: TRUE with a marker in the history, FALSE if it is  *)
(* first called within a history without one, else TRUE, and the marker is *)
(* recorded.  A marker that no call of the code accounts for is an error,  *)
(* unless deprecate_patch recorded it.                                     *)
(***************************************************************************)
EXTENDS Naturals, Sequences, SequencesExt, FiniteSets

CONSTANTS Rounds     \* how often advance_workflows signals (app.py: 3)

VersioningAssumption == Rounds \in Nat

VARIABLES
  script,            \* what is left of app.py, or of the steps of patching's README
  current,           \* the current version of the workers
  version,           \* the version each workflow is on, 0 before its first task
  inbox, signals,    \* signals sent to each workflow; those it has in its history
  history,           \* the activities in its history, of which
  completed,         \* the first so many have completed
  marker,            \* "none", "marker" or "deprecated"
  closed,            \* the workflows that have ended
  mismatched         \* those whose replay has failed

workflows == <<version, inbox, signals, history, completed, marker, closed, mismatched>>
vars == <<script, current, workflows>>

Versioned == {"AutoUpgrading", "Pinned", "Pinned2"}
Patching == {"initial", "patched", "patch-deprecated", "patch-complete"}
Workflows == Versioned \cup Patching
-----------------------------------------------------------------------------
(* The classes: the activities a run asks for, one after the other, once   *)
(* it has the signals S and patched() answers p.                           *)

Asked(S) == Cardinality({i \in 1..Len(S) : S[i] = "do-activity"})
Concluded(S) == Contains(S, "conclude")
Repeat(n, a) == [i \in 1..n |-> a]

AutoUpgradingWorkflowV1(S, p) == Repeat(Asked(S), "some_activity")
V1bUnpatched(S, p) == Repeat(Asked(S), "some_incompatible_activity")   \* mutant: no patched()
AutoUpgradingWorkflowV1b(S, p) ==
  Repeat(Asked(S), IF p THEN "some_incompatible_activity" ELSE "some_activity")
PinnedWorkflowV1(S, p) == IF Concluded(S) THEN <<"some_activity">> ELSE <<>>
PinnedWorkflowV2(S, p) ==
  <<"some_activity">> \o IF Concluded(S) THEN <<"some_incompatible_activity">> ELSE <<>>

workflow_1_initial(S, p) == <<"pre_patch_activity">>
workflow_2_patched(S, p) == IF p THEN <<"post_patch_activity">> ELSE <<"pre_patch_activity">>
workflow_3_patch_deprecated(S, p) == <<"post_patch_activity">>
workflow_4_patch_complete(S, p) == <<"post_patch_activity">>

\* The classes that each worker registers: workerv1, workerv1_1 and workerv2, and
\* patching/worker.py with its four options.
Code(w, v, S, p) ==
  CASE w = "AutoUpgrading" ->
         IF v = 1 THEN AutoUpgradingWorkflowV1(S, p) ELSE AutoUpgradingWorkflowV1b(S, p)
    [] w \in {"Pinned", "Pinned2"} ->
         IF v = 3 THEN PinnedWorkflowV2(S, p) ELSE PinnedWorkflowV1(S, p)
    [] w \in Patching ->
         CASE v = 1 -> workflow_1_initial(S, p)
           [] v = 2 -> workflow_2_patched(S, p)
           [] v = 3 -> workflow_3_patch_deprecated(S, p)
           [] v = 4 -> workflow_4_patch_complete(S, p)

\* Which of the two calls that code makes, before its first activity.
Calls(w, v) ==
  CASE w = "AutoUpgrading" -> IF v = 1 THEN "none" ELSE "patched"
    [] w \in {"Pinned", "Pinned2"} -> "none"
    [] OTHER -> <<"none", "patched", "deprecate_patch", "none">>[v]

\* The run may return: these do after their activities, the others when told.
MayReturn(w, S) == w \in Patching \/ Concluded(S)
-----------------------------------------------------------------------------
Moves(w) == version[w] = 0 \/ w \notin {"Pinned", "Pinned2"}
VersionOf(w) == IF Moves(w) THEN current ELSE version[w]

Answer(w) == marker[w] # "none" \/ history[w] = <<>>
AllAsked(w, S) == Code(w, VersionOf(w), S, Answer(w))
\* Each activity is awaited before the next.
Prefix(w, S) ==
  SubSeq(AllAsked(w, S), 1, IF completed[w] < Len(AllAsked(w, S)) THEN completed[w] + 1 ELSE completed[w])

Replays(w, S) ==
  /\ IsPrefix(history[w], AllAsked(w, S))
  /\ marker[w] = "marker" => Calls(w, VersionOf(w)) # "none"

Marker(w, S) ==
  IF AllAsked(w, S) = <<>> \/ marker[w] # "none" THEN marker[w]
  ELSE CASE Calls(w, VersionOf(w)) = "none" -> "none"
         [] Calls(w, VersionOf(w)) = "patched" -> IF Answer(w) THEN "marker" ELSE "none"
         [] Calls(w, VersionOf(w)) = "deprecate_patch" -> "deprecated"

Started(w) == inbox[w] # <<>>
News(w) ==
  \/ version[w] = 0
  \/ Tail(inbox[w]) # <<>>
  \/ completed[w] = Len(history[w]) /\ (history[w] # AllAsked(w, signals[w]) \/ MayReturn(w, signals[w]))

\* A workflow task.
Task(w) ==
  LET S == signals[w] \o Tail(inbox[w])
      new == Prefix(w, S)
  IN
  /\ Started(w) /\ w \notin closed \cup mismatched /\ News(w)
  /\ IF Replays(w, S)
     THEN /\ version' = [version EXCEPT ![w] = VersionOf(w)]
          /\ inbox' = [inbox EXCEPT ![w] = <<"started">>]
          /\ signals' = [signals EXCEPT ![w] = S]
          /\ history' = [history EXCEPT ![w] = new]
          /\ marker' = [marker EXCEPT ![w] = Marker(w, S)]
          /\ closed' = IF MayReturn(w, S) /\ completed[w] = Len(AllAsked(w, S))
                       THEN closed \cup {w} ELSE closed
          /\ UNCHANGED mismatched
     ELSE /\ mismatched' = mismatched \cup {w}
          /\ UNCHANGED <<version, inbox, signals, history, marker, closed>>
  /\ UNCHANGED <<script, current, completed>>

CompleteActivity(w) ==
  /\ completed[w] < Len(history[w])
  /\ completed' = [completed EXCEPT ![w] = @ + 1]
  /\ UNCHANGED <<script, current, version, inbox, signals, history, marker, closed, mismatched>>
-----------------------------------------------------------------------------
(* The scripts.                                                            *)

MakeCurrent(v) == [do |-> "current", version |-> v]
Start(w) == [do |-> "start", on |-> w]
Signal(w, s) == [do |-> "signal", on |-> w, signal |-> s]
Result(w) == [do |-> "result", on |-> w]
Query(w) == [do |-> "query", on |-> w]

advance_workflows ==
  [i \in 1..(2 * Rounds) |-> IF i % 2 = 1 THEN Signal("AutoUpgrading", "do-activity")
                             ELSE Signal("Pinned", "some-signal")]
Conclude(w) == <<Signal(w, "conclude"), Result(w)>>
app ==
  <<MakeCurrent(1), Start("AutoUpgrading"), Start("Pinned")>> \o advance_workflows
  \o <<MakeCurrent(2)>> \o advance_workflows
  \o <<MakeCurrent(3), Start("Pinned2")>>
  \o Conclude("AutoUpgrading") \o Conclude("Pinned") \o Conclude("Pinned2")

stages ==
  <<MakeCurrent(1), Start("initial"), Query("initial"),
    MakeCurrent(2), Start("patched"), Query("initial"), Query("patched"), Result("initial"),
    MakeCurrent(3), Start("patch-deprecated"), Query("patched"), Query("patch-deprecated"),
    Result("patched"),
    MakeCurrent(4), Start("patch-complete"), Query("patch-deprecated"), Query("patch-complete")>>

Init ==
  /\ script \in {app, stages}
  /\ current = 0
  /\ version = [w \in Workflows |-> 0]
  /\ inbox = [w \in Workflows |-> <<>>] /\ signals = [w \in Workflows |-> <<>>]
  /\ history = [w \in Workflows |-> <<>>] /\ completed = [w \in Workflows |-> 0]
  /\ marker = [w \in Workflows |-> "none"]
  /\ closed = {} /\ mismatched = {}

Do(k) == script # <<>> /\ Head(script).do = k /\ script' = Tail(script)

wait_for_worker_and_make_current ==
  /\ Do("current") /\ current' = Head(script).version
  /\ UNCHANGED workflows
Send ==
  /\ \E k \in {"start", "signal"} : Do(k)
  /\ LET h == Head(script) IN
     inbox' = [inbox EXCEPT ![h.on] = Append(@, IF h.do = "start" THEN "started" ELSE h.signal)]
  /\ UNCHANGED <<current, version, signals, history, completed, marker, closed, mismatched>>
GetResult ==
  /\ Do("result") /\ Head(script).on \in closed
  /\ UNCHANGED <<current, workflows>>
\* A query is answered after the first task, by a replay.
AskQuery ==
  LET w == Head(script).on IN
  /\ Do("query") /\ version[w] > 0
  /\ mismatched' = IF Replays(w, signals[w]) THEN mismatched ELSE mismatched \cup {w}
  /\ UNCHANGED <<current, version, inbox, signals, history, completed, marker, closed>>

Terminated == script = <<>> /\ UNCHANGED vars

Next ==
  \/ wait_for_worker_and_make_current \/ Send \/ GetResult \/ AskQuery
  \/ \E w \in Workflows : Task(w) \/ CompleteActivity(w)
  \/ Terminated
Spec == Init /\ [][Next]_vars
-----------------------------------------------------------------------------
\* However far a workflow had come when its code changed, and with whatever signals still
\* on their way, the new code replays its history.
AlwaysReplays == mismatched = {}

\* Every "do-activity" signal has been one activity when the workflow concludes, whichever
\* version it was handled by; a pinned workflow did what the version it began on does.
EachSignalOnce ==
  /\ "AutoUpgrading" \in closed => Len(history["AutoUpgrading"]) = 2 * Rounds
  /\ \A w \in closed \cap {"Pinned", "Pinned2"} :
       history[w] = IF version[w] = 3 THEN <<"some_activity", "some_incompatible_activity">>
                    ELSE <<"some_activity">>
=============================================================================
