----------------------------- MODULE CoreSamples -----------------------------
(***************************************************************************)
(* message_passing/waiting_for_handlers/, polling/, schedules/,            *)
(* sleep_for_days/, external_storage/, patching/, replay/,                 *)
(* context_propagation/, workflow_streams/.                                *)
(***************************************************************************)
EXTENDS Flows, TLC

-----------------------------------------------------------------------------
(* message_passing/waiting_for_handlers/: the run method ends in one of    *)
(* three ways, each after the update handler has finished.  One starter    *)
(* runs the three one after the other, with the same workflow id.          *)
waiting_queue == "my-task-queue"
activity_executed_by_update_handler == "activity_executed_by_update_handler"
waiting_worker ==
  Worker(waiting_queue, {"SUCCESS", "FAILURE", "CANCELLATION"}, {activity_executed_by_update_handler})
my_workflow_application_logic(exit_type) ==
  <<Await({"update_started"})>>
  \o CASE exit_type = "SUCCESS" -> <<>>
       [] exit_type = "FAILURE" -> <<Raise>>
       [] exit_type = "CANCELLATION" -> <<Forever>>
WaitingForHandlersWorkflow(exit_type) ==
  [run |-> <<Try(my_workflow_application_logic(exit_type) \o <<Finished>>,
                 <<Finished, Raise>>)>>,
   my_update |-> <<Set("update_started"), Act(activity_executed_by_update_handler)>>]
check_run(w) ==
  <<Try(<<StartUpdate(w, "my_update")>>, <<>>)>>
  \o (IF w = "CANCELLATION" THEN <<Cancel(w)>> ELSE <<>>)
  \o <<Try(<<Reply(w, "my_update")>>, <<>>), Try(<<Result(w)>>, <<>>)>>
waiting_starter(exit_type) == <<Start(waiting_queue, exit_type)>> \o check_run(exit_type)
WaitingForHandlers ==
  Deployed({waiting_worker},
           [w \in {"SUCCESS", "FAILURE", "CANCELLATION"} |-> WaitingForHandlersWorkflow(w)],
           [starter |-> waiting_starter("SUCCESS") \o waiting_starter("FAILURE")
                        \o waiting_starter("CANCELLATION")])

-----------------------------------------------------------------------------
(* polling/: by heartbeats inside one attempt, by retries, and by a child  *)
(* that continues as new, whose activity never succeeds.                   *)
infrequent_compose_greeting == Tool("compose_greeting")     \* an attempt per poll
InfrequentGreeting == [run |-> infrequent_compose_greeting]
frequent_compose_greeting == Tool("compose_greeting")       \* one attempt that polls
FrequentGreeting == [run |-> frequent_compose_greeting]
frequent_worker_elsewhere ==       \* mutant: the queue of the other sample
  Worker("infrequent-activity-retry-task-queue", {"GreetingWorkflow"}, {"compose_greeting"})
frequent_worker ==
  Worker("frequent-activity-retry-task-queue", {"GreetingWorkflow"}, {"compose_greeting"})
frequent_starter == Exec("frequent-activity-retry-task-queue", "GreetingWorkflow")
infrequent_worker ==
  Worker("infrequent-activity-retry-task-queue", {"GreetingWorkflow"}, {"compose_greeting"})
infrequent_starter == Exec("infrequent-activity-retry-task-queue", "GreetingWorkflow")
periodic_worker ==
  Worker("periodic-retry-task-queue", {"GreetingWorkflow", "ChildWorkflow"}, {"compose_greeting"})
periodic_compose_greeting == <<Act("compose_greeting"), Raise>>
ChildWorkflow ==
  [run |-> Times(10, <<Try(periodic_compose_greeting, <<>>), Sleep>>) \o <<Again(2, {}, {}), Forever>>]
PeriodicGreeting == [run |-> Exec("", "ChildWorkflow")]
run_periodic == Exec("periodic-retry-task-queue", "GreetingWorkflow")

-----------------------------------------------------------------------------
(* schedules/: one script per operation on the schedule, run one after the *)
(* other.  The schedule itself is the service's.                           *)
schedule == "workflow-schedule-id"
YourSchedulesWorkflow == [run |-> Tool("your_activity")]
schedules_worker == Worker("schedules-task-queue", {"YourSchedulesWorkflow"}, {"your_activity"})
StartUnlessRunning == <<Try(<<Start("schedules-task-queue", "YourSchedulesWorkflow")>>, <<>>)>>
Schedule ==
  [run |-> <<Await({"deleted"})>>, trigger |-> StartUnlessRunning, backfill |-> StartUnlessRunning,
   pause |-> <<>>, update |-> <<>>, describe |-> <<>>, delete |-> <<Set("deleted")>>]
start_schedule == <<Start("schedules", schedule)>>
describe_schedule == <<Query(schedule, "describe")>>
list_schedule == <<>>
trigger_schedule == <<Signal(schedule, "trigger")>>
backfill_schedule == <<Signal(schedule, "backfill")>>
update_schedule == <<Query(schedule, "describe"), Signal(schedule, "update")>>
pause_schedule == <<Signal(schedule, "pause")>>
delete_schedule == <<Signal(schedule, "delete")>>
Schedules ==
  Deployed({schedules_worker, Worker("schedules", {schedule}, {})},
           schedule :> Schedule @@ [YourSchedulesWorkflow |-> YourSchedulesWorkflow],
           [main |-> start_schedule \o describe_schedule \o list_schedule \o trigger_schedule
                     \o backfill_schedule \o update_schedule \o pause_schedule \o delete_schedule])

-----------------------------------------------------------------------------
(* sleep_for_days/: mails until somebody signals; no script of the sample  *)
(* does.                                                                   *)
sleep_queue == "sleep-for-days-task-queue"
sleep_worker == Worker(sleep_queue, {"SleepForDaysWorkflow"}, {"send_email"})
SleepForDaysWorkflow ==
  [run |-> <<If("is_complete", <<>>,
                <<Until("is_complete",
                        Tool("send_email") \o <<Race(<<<<Sleep>>, <<Await({"is_complete"})>>>>)>>)>>)>>,
   complete |-> <<Set("is_complete")>>]
sleep_starter == <<Start(sleep_queue, "SleepForDaysWorkflow")>>

-----------------------------------------------------------------------------
(* external_storage/ *)
storage_queue == "external-storage-task-queue"
storage_worker ==
  Worker(storage_queue, {"ProcessOrderBatchWorkflow"}, {"fetch_orders", "process_orders"})
generate_orders == Tool("fetch_orders")
process_orders == Tool("process_orders")
ProcessOrderBatchWorkflow == [run |-> generate_orders \o process_orders]
storage_starter == Exec(storage_queue, "ProcessOrderBatchWorkflow")

-----------------------------------------------------------------------------
(* patching/, stage 2: a run whichever branch it takes.  The stages and    *)
(* what they may replay are Versioning.tla's.  The activities are given    *)
(* five minutes, retries included.                                         *)
patching_worker ==
  Worker("patching-task-queue", {"MyWorkflow"}, {"pre_patch_activity", "post_patch_activity"})
PatchedWorkflow ==
  [run |-> Bounded(<<Either({Tool("post_patch_activity"), Tool("pre_patch_activity")})>>),
   result |-> <<>>]
patching_starter == <<Start("patching-task-queue", "MyWorkflow"), Query("MyWorkflow", "result")>>

-----------------------------------------------------------------------------
(* replay/: three workflows one after the other with the same id.          *)
replay_compose_greeting == Tool("compose_greeting")
JustActivity == [run |-> replay_compose_greeting]
JustTimer == [run |-> <<Sleep>>]
TimerThenActivity == [run |-> <<Sleep>> \o replay_compose_greeting]
replay_worker ==
  Worker("replay-sample", {"JustActivity", "JustTimer", "TimerThenActivity"}, {"compose_greeting"})
replay_starter ==
  Exec("replay-sample", "JustActivity") \o Exec("replay-sample", "JustTimer")
  \o Exec("replay-sample", "TimerThenActivity")
Replay ==
  Deployed({replay_worker},
           [JustActivity |-> JustActivity, JustTimer |-> JustTimer,
            TimerThenActivity |-> TimerThenActivity],
           [starter |-> replay_starter])

-----------------------------------------------------------------------------
(* context_propagation/ *)
context_worker == Worker("context-propagation-task-queue", {"SayHelloWorkflow"}, {"say_hello_activity"})
SayHelloWorkflow ==
  [run |-> <<Await({"complete"})>> \o Tool("say_hello_activity"),
   signal_complete |-> <<Set("complete")>>]
context_starter ==
  <<Start("context-propagation-task-queue", "SayHelloWorkflow"),
    Signal("SayHelloWorkflow", "signal_complete"), Result("SayHelloWorkflow")>>

-----------------------------------------------------------------------------
(* workflow_streams/: a stream is part of the workflow that hosts it; its  *)
(* subscriber polls for the event that ends it, or until the workflow has  *)
(* closed.  What arrives is Streams.tla's.                                 *)
streams_queue == "workflow-stream-sample-task-queue"
streams_worker ==
  Worker(streams_queue, {"HubWorkflow", "OrderWorkflow", "PipelineWorkflow", "TickerWorkflow"},
         {"charge_card"})
charge_card == Tool("charge_card")
OrderWorkflow == [run |-> <<Set("received")>> \o charge_card \o <<Set("complete"), Sleep>>]
HubWorkflow ==
  [run |-> <<Await({"closed"}), Sleep>>, publish |-> <<Set("done")>>, close |-> <<Set("closed")>>]
run_publisher ==
  <<Start(streams_queue, "OrderWorkflow"), Poll("OrderWorkflow", "complete"), Result("OrderWorkflow")>>
publish_news == <<Signal("HubWorkflow", "publish"), Signal("HubWorkflow", "close")>>
consume_news == <<Poll("HubWorkflow", "done")>>
run_external_publisher ==
  <<Start(streams_queue, "HubWorkflow"), All(<<publish_news, consume_news>>), Result("HubWorkflow")>>
PipelineWorkflow == [run |-> <<Sleep, Set("complete"), Sleep>>]
TickerWorkflow == [run |-> <<Sleep, Set("last_n"), Sleep>>]
run_reconnecting_subscriber ==
  <<Start(streams_queue, "PipelineWorkflow"), Sleep, Poll("PipelineWorkflow", "complete"),
    Result("PipelineWorkflow")>>
run_truncating_ticker ==
  <<Start(streams_queue, "TickerWorkflow"),
    All(<<<<Poll("TickerWorkflow", "last_n")>>, <<Sleep, Poll("TickerWorkflow", "last_n")>>>>),
    Result("TickerWorkflow")>>
Streams == Each("workflow_streams", {streams_worker},
  [HubWorkflow |-> HubWorkflow, OrderWorkflow |-> OrderWorkflow,
   PipelineWorkflow |-> PipelineWorkflow, TickerWorkflow |-> TickerWorkflow],
  [publisher |-> run_publisher, external_publisher |-> run_external_publisher,
   reconnecting_subscriber |-> run_reconnecting_subscriber,
   truncating_ticker |-> run_truncating_ticker])
LLM_TASK_QUEUE == "workflow-stream-llm-task-queue"
run_llm_worker == Worker(LLM_TASK_QUEUE, {"LLMWorkflow"}, {"stream_completion"})
\* The activity has three attempts.
LLMWorkflow == [run |-> Bounded(Tool("stream_completion")) \o <<Set("complete"), Sleep>>]
run_llm == <<Start(LLM_TASK_QUEUE, "LLMWorkflow"), Poll("LLMWorkflow", "complete"), Result("LLMWorkflow")>>

Table == Streams @@ In("", [
  waiting_for_handlers |-> WaitingForHandlers,
  polling_frequent |-> Trio(frequent_worker, FrequentGreeting, frequent_starter),
  polling_infrequent |-> Trio(infrequent_worker, InfrequentGreeting, infrequent_starter),
  polling_periodic_sequence |->
    Deployed({periodic_worker},
             [GreetingWorkflow |-> PeriodicGreeting, ChildWorkflow |-> ChildWorkflow],
             [run_periodic |-> run_periodic]),
  schedules |-> Schedules,
  sleep_for_days |-> Trio(sleep_worker, SleepForDaysWorkflow, sleep_starter),
  external_storage |-> Trio(storage_worker, ProcessOrderBatchWorkflow, storage_starter),
  patching |-> Trio(patching_worker, PatchedWorkflow, patching_starter),
  replay |-> Replay,
  context_propagation |-> Trio(context_worker, SayHelloWorkflow, context_starter),
  workflow_streams_llm |-> Trio(run_llm_worker, LLMWorkflow, run_llm)])
=============================================================================
