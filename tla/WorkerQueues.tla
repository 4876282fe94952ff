---------------------------- MODULE WorkerQueues ----------------------------
(***************************************************************************)
(* worker_specific_task_queues/: a workflow downloads a file, works on it  *)
(* and deletes it, in three activities that must run on the same host.     *)
(* Every host polls a queue of its own; the first activity names the queue *)
(* of the host that happens to run it, and the others are sent there.      *)
(*                                                                         *)
(* An attempt of an activity does its work on the file system of its host  *)
(* and is then reported; a host that crashes restarts with its disk, and   *)
(* the service schedules again what it was running, as far as the retry    *)
(* policy allows.                                                          *)
(***************************************************************************)
EXTENDS Naturals, FiniteSets, TLC

CONSTANTS
  Hosts,             \* hosts, each of which runs worker.py
  Files,             \* FileProcessing workflows, each with the path of its file
  MaxCrashes         \* bound: crashes of hosts, over all

VARIABLES
  step,              \* the activity each workflow waits for, or how it ended
  attempt,           \* that activity's attempt: queued, running or done on a host
  unique_worker_task_queue,   \* the queue each workflow was given, "" before
  failing,           \* workflows in the finally block with an exception
  fs,                \* the files on the disk of each host
  crashes,
  unreported         \* workflows whose clean-up was done by an attempt that got lost

vars == <<step, attempt, unique_worker_task_queue, failing, fs, crashes, unreported>>

Activities == {"select_task_queue", "download", "work", "clean_up"}
distribution_queue == "worker_specific_task_queue-distribution-queue"

\* Every process seeds its generator with the same number before it draws the name.
task_queue(h) == "worker_specific_task_queue-host"


\* The activity of worker.py that returns it.
DrawnAgain(h) == "worker_specific_task_queue-host-2"     \* mutant: a name per call
SelectedQueue(h) == task_queue(h)

Queued == [at |-> "queued", host |-> {}]
Running(h) == [at |-> "running", host |-> {h}]
Done(h) == [at |-> "done", host |-> {h}]
On(w, h) == h \in attempt[w].host

Init ==
  /\ step = [w \in Files |-> "select_task_queue"]
  /\ attempt = [w \in Files |-> Queued]
  /\ unique_worker_task_queue = [w \in Files |-> ""]
  /\ failing = {}
  /\ fs = [h \in Hosts |-> {}]
  /\ crashes = 0
  /\ unreported = {}
-----------------------------------------------------------------------------
QueueOf(w) ==
  IF step[w] = "select_task_queue" THEN distribution_queue ELSE unique_worker_task_queue[w]
Polls(h, q) == q \in {distribution_queue, task_queue(h)}

Take(h, w) ==
  /\ step[w] \in Activities /\ attempt[w] = Queued /\ Polls(h, QueueOf(w))
  /\ attempt' = [attempt EXCEPT ![w] = Running(h)]
  /\ UNCHANGED <<step, unique_worker_task_queue, failing, fs, crashes, unreported>>

\* The workflow goes on to its next activity, or ends.
Advance(w, s) ==
  /\ step' = [step EXCEPT ![w] = s]
  /\ attempt' = [attempt EXCEPT ![w] = Queued]

\* What an attempt does to the disk of its host; the service does not know yet.
select_task_queue(h, w) == step[w] = "select_task_queue" /\ UNCHANGED fs
NotWritten(h, w) == step[w] = "download" /\ UNCHANGED fs    \* mutant: no write_file
download_file_to_worker_filesystem(h, w) ==
  step[w] = "download" /\ fs' = [fs EXCEPT ![h] = @ \cup {w}]
work_on_file_in_worker_filesystem(h, w) == step[w] = "work" /\ w \in fs[h] /\ UNCHANGED fs
clean_up_file_from_worker_filesystem(h, w) ==
  step[w] = "clean_up" /\ w \in fs[h] /\ fs' = [fs EXCEPT ![h] = @ \ {w}]

Perform(h, w) ==
  /\ attempt[w] = Running(h)
  /\ \/ select_task_queue(h, w)
     \/ download_file_to_worker_filesystem(h, w)
     \/ work_on_file_in_worker_filesystem(h, w)
     \/ clean_up_file_from_worker_filesystem(h, w)
  /\ attempt' = [attempt EXCEPT ![w] = Done(h)]
  /\ UNCHANGED <<step, unique_worker_task_queue, failing, crashes, unreported>>

\* The attempts at the activities of workflows W fail.  There is only one attempt at the
\* work: the workflow goes to its finally block.  The others are tried again.
FailAttempts(W) ==
  /\ attempt' = [w \in Files |-> IF w \in W THEN Queued ELSE attempt[w]]
  /\ step' = [w \in Files |-> IF w \in W /\ step[w] = "work" THEN "clean_up" ELSE step[w]]
  /\ failing' = failing \cup {w \in W : step[w] = "work"}

FileNotFound(h, w) ==
  /\ attempt[w] = Running(h) /\ step[w] \in {"work", "clean_up"} /\ w \notin fs[h]
  /\ FailAttempts({w})
  /\ UNCHANGED <<unique_worker_task_queue, fs, crashes, unreported>>

\* The service has the result, and the workflow goes on.
Report(h, w) ==
  /\ attempt[w] = Done(h)
  /\ unique_worker_task_queue' =
       IF step[w] = "select_task_queue" THEN [unique_worker_task_queue EXCEPT ![w] = SelectedQueue(h)]
       ELSE unique_worker_task_queue
  /\ \/ step[w] = "select_task_queue" /\ Advance(w, "download")
     \/ step[w] = "download" /\ Advance(w, "work")
     \/ step[w] = "work" /\ Advance(w, "clean_up")
     \/ step[w] = "clean_up" /\ Advance(w, IF w \in failing THEN "failed" ELSE "completed")
  /\ UNCHANGED <<failing, fs, crashes, unreported>>

\* A host crashes and restarts: its attempts time out.
Crash(h) ==
  /\ crashes < MaxCrashes /\ crashes' = crashes + 1
  /\ LET lost == {w \in Files : On(w, h)} IN
     /\ FailAttempts(lost)
     /\ unreported' = unreported \cup {w \in lost : step[w] = "clean_up" /\ attempt[w].at = "done"}
  /\ UNCHANGED <<unique_worker_task_queue, fs>>

Ended(w) == step[w] \in {"completed", "failed"}
Terminated == (\A w \in Files : Ended(w)) /\ UNCHANGED vars

Step(w) ==
  \E h \in Hosts : Take(h, w) \/ Perform(h, w) \/ FileNotFound(h, w) \/ Report(h, w)
Next == (\E w \in Files : Step(w)) \/ (\E h \in Hosts : Crash(h)) \/ Terminated

\* A worker runs its activities side by side, and none waits for another.
Spec == Init /\ [][Next]_vars
FairSpec == Spec /\ \A w \in Files : WF_vars(Step(w))
-----------------------------------------------------------------------------
\* The activities of a workflow run where its file is: whoever takes the work, or the
\* clean-up of a file that no earlier attempt has deleted, finds the file on its disk
\* (FileProcessing.run's comment on the queue it is given).
FileAccessible ==
  \A w \in Files : \A h \in Hosts :
    attempt[w] = Running(h) /\ step[w] \in {"work", "clean_up"} /\ w \notin unreported
      => w \in fs[h]

\* A workflow that has ended, well or not, leaves no file on any disk, also when its
\* host crashed between the download and the answer.
NothingLeft == \A w \in Files : Ended(w) => \A h \in Hosts : w \notin fs[h]

\* Both: the file is there as long as it is needed, and no longer.
FilesInPlace == FileAccessible /\ NothingLeft

\* Every workflow ends, through all crashes, unless one hit its host between the deletion
\* of the file and the answer: no later attempt finds the file, and they never stop.
EndsUnlessUnreported == <>(\A w \in Files : Ended(w) \/ w \in unreported)
=============================================================================
