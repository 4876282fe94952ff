------------------------------ MODULE Workflows ------------------------------
(***************************************************************************)
(* The message-passing samples that must come to an end, side by side.     *)
(* They do not interact: a step is a step of one of them, the one "sample" *)
(* names, so the state space is the sum of theirs and no product.  The     *)
(* module Samples adds to them what is defined by recursion.               *)
(***************************************************************************)
EXTENDS Naturals, Sequences, FiniteSets, TLC

CONSTANTS
  MaxPrompts, ContinueAfter,                    \* BedrockEntity
  Messages, MaxInFlight, Names, MaxRounds, None,         \* Chatbot
  Updates, Languages, Initial, Remote, English, \* Greeting, and Updates of Compensation
  MaxTime, WakeUpTime, MaxSignals,              \* UpdatableTimer
  Nodes, Jobs, Requests, MaxRuns, Unassigned, Bad, Absent,  \* ClusterManager
  Hosts, Files, MaxCrashes                      \* WorkerQueues

VARIABLES
  sample,            \* the sample that runs
  pc, params_summary, params_queue, conversation_history, prompt_queue,
  conversation_summary, chat_ended, prompt, sent, end_sent, dropped, answered,
  session, pending_message, last_response, notes, done, rounds, update, answer,
  waiters, woken, batch, queried, since,
  phase, greetings, language, approved_for_release, lock, handler, wants,
  returned, arrivals, effects, fetching,
  sleep, wake_up_time, wake_up_time_updated, now, deadline, fired, pending, signals, woke,
  nodes, jobs_assigned, cluster_started, cluster_shutdown, nodes_lock, main_pc, run,
  checked, shutdown, hpc, req, picked, result, granted,
  step, attempt, unique_worker_task_queue, failing, fs, crashes, unreported,
  exit_type, exit_pc, exit_error, workflow_exit, cancel_request, update_started,
  update_compensation_done, workflow_compensation_done, my_update, update_task, compensated,
  early

Bedrock == INSTANCE BedrockEntity
Chat    == INSTANCE Chatbot
Greet   == INSTANCE Greeting
Timer   == INSTANCE UpdatableTimer
Cluster == INSTANCE ClusterManager WITH Sizes <- {1}, lock <- nodes_lock, pc <- main_pc
Queues  == INSTANCE WorkerQueues
Exit    == INSTANCE Compensation WITH pc <- exit_pc, error <- exit_error,
             cancelled <- cancel_request, handler <- my_update, logic <- update_task

\* The assumptions on the constants, of the samples about which there are proofs.
ASSUME WorkflowsAssumption ==
  /\ Chat!ChatbotAssumption /\ Greet!GreetingAssumption
  /\ Timer!TimerAssumption /\ Cluster!ClusterAssumption

bedrock == <<pc, params_summary, params_queue, conversation_history, prompt_queue,
             conversation_summary, chat_ended, prompt, sent, end_sent, dropped, answered>>
chatbot == <<session, pending_message, last_response, notes, done, rounds, update, answer,
             waiters, woken, batch, queried, since>>
greeting == <<phase, greetings, language, approved_for_release, lock, handler, wants,
              returned, arrivals, effects, fetching>>
timer == <<sleep, wake_up_time, wake_up_time_updated, now, deadline, fired, pending, signals,
           woke>>
cluster == <<nodes, jobs_assigned, cluster_started, cluster_shutdown, nodes_lock, main_pc, run,
             checked, shutdown, hpc, req, picked, result, granted>>
queues == <<step, attempt, unique_worker_task_queue, failing, fs, crashes, unreported>>
exit == <<exit_type, exit_pc, exit_error, workflow_exit, cancel_request, update_started,
          update_compensation_done, workflow_compensation_done, my_update, update_task,
          compensated, early>>
vars == <<sample, bedrock, chatbot, greeting, timer, cluster, queues, exit>>

Only(name) ==
  /\ sample = name /\ UNCHANGED sample
  /\ IF name = "bedrock" THEN TRUE ELSE UNCHANGED bedrock
  /\ IF name = "chatbot" THEN TRUE ELSE UNCHANGED chatbot
  /\ IF name = "greeting" THEN TRUE ELSE UNCHANGED greeting
  /\ IF name = "timer" THEN TRUE ELSE UNCHANGED timer
  /\ IF name = "cluster" THEN TRUE ELSE UNCHANGED cluster
  /\ IF name = "queues" THEN TRUE ELSE UNCHANGED queues
  /\ IF name = "exit" THEN TRUE ELSE UNCHANGED exit

Init ==
  /\ Bedrock!Init /\ Chat!Init /\ Greet!Init /\ Timer!Init
  /\ Cluster!Init /\ Queues!Init /\ Exit!Init

Next ==
  \/ Only("bedrock") /\ Bedrock!Next
  \/ Only("chatbot") /\ Chat!Next
  \/ Only("greeting") /\ Greet!Next
  \/ Only("timer") /\ Timer!Next
  \/ Only("cluster") /\ Cluster!Next
  \/ Only("queues") /\ Queues!Next
  \/ Only("exit") /\ Exit!Next

Spec == Init /\ [][Next]_vars

\* The fairness of each sample's FairSpec.
Fairness ==
  /\ WF_vars(Only("bedrock") /\ Bedrock!Run)
  /\ WF_vars(Only("chatbot") /\ Chat!Loop)
  /\ WF_vars(Only("greeting") /\ Greet!Return)
  /\ \A u \in Updates : WF_vars(Only("greeting") /\ Greet!Fetched(u))
  /\ WF_vars(Only("timer") /\ Timer!Tick)
  /\ WF_vars(Only("timer") /\ Timer!Fire)
  /\ WF_vars(Only("timer") /\ Timer!Workflow)
  /\ WF_vars(Only("cluster") /\ Cluster!Main)
  /\ SF_vars(Only("cluster") /\ Cluster!ShutdownCluster)
  /\ \A h \in Requests : SF_vars(Only("cluster") /\ Cluster!Handler(h))
  /\ \A w \in Files : WF_vars(Only("queues") /\ Queues!Step(w))
  /\ WF_vars(Only("exit") /\ Exit!Main)
  /\ \A u \in Updates : WF_vars(Only("exit") /\ Exit!Handler(u))
-----------------------------------------------------------------------------
(* The properties are those of the samples' modules.                       *)

\* EntityBedrockWorkflow: no prompt is lost or answered twice, whatever was signalled
\* around a continue-as-new; each is answered in the context of all those answered
\* before, by whatever run, and the last summary reflects them all.
PromptsInContext == Bedrock!PromptsInContext

\* EntityBedrockWorkflow: every prompt is answered or refused, unless Bedrock fails.
AcceptedPromptsAnswered == Bedrock!AcceptedPromptsAnswered

\* ChatbotWorkflow: the message under query stays pending until it is answered, and an
\* update returns a response made after it offered its message.
AnswersFresh == Chat!PendingKept /\ Chat!FreshAnswer

\* GreetingWorkflow: updates that need the activity take effect in order of arrival, and
\* the workflow returns a greeting in the language of the last update that took effect,
\* after every update it accepted.
LanguageInOrder == Greet!LanguageInOrder

\* No update waits for ever: neither one that waits for its turn and its response in
\* ChatbotWorkflow, nor one that waits for the lock in GreetingWorkflow.
UpdatesAnswered == Chat!UpdatesReturn /\ Greet!UpdatesAnswered

\* UpdatableTimer: sleep does not end before the wake-up time.
NotEarly == Timer!NotEarly

\* UpdatableTimer's sleep ends, once nobody moves the time any more, and a shutdown, once
\* signalled, ends ClusterManagerWorkflow, whatever its handlers wait for.
WorkflowsEnd == []<>(sample = "timer" => sleep = "done") /\ Cluster!ShutdownCompletes

\* FileProcessing: the activities find the file where the first of them has put it, and
\* leave none behind.
FilesInPlace == Queues!FilesInPlace

\* FileProcessing: it ends, unless the report of a clean-up gets lost.
EndsUnlessUnreported ==
  []<>(sample = "queues" => \A w \in Files : Queues!Ended(w) \/ w \in unreported)

\* WaitingForHandlersAndCompensation: a successful return leaves no update without its
\* result.
ReturnAfterHandlers == Exit!ReturnAfterHandlers

\* WaitingForHandlersAndCompensation: an update is compensated exactly when its caller is
\* told that it failed, and only because the workflow failed or was cancelled.
CompensatedIffRaised == Exit!CompensatedIffRaised

\* WaitingForHandlersAndCompensation: a workflow that failed or was cancelled has answered
\* the updates that had started before, and then compensated for itself.
ExitInOrder == Exit!ExitInOrder

\* WaitingForHandlersAndCompensation: handlers and main do not wait for each other.
ExitEnds == Exit!ExitEnds
=============================================================================
