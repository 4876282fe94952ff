----------------------------- MODULE OtherSamples -----------------------------
(***************************************************************************)
(* The samples about the worker and client around a workflow: tracing and  *)
(* metrics, event loops and processes, converters, activities without a    *)
(* workflow; and those of bedrock/, dsl/ and cloud_export_to_parquet/.     *)
(***************************************************************************)
EXTENDS Flows, TLC

-----------------------------------------------------------------------------
(* langfuse_tracing/, langsmith_tracing/basic/, litellm_activity/: the     *)
(* calls of the model are bounded in attempts, but for the second's.       *)
triage_worker ==
  Worker("langfuse-ticket-triage-task-queue", {"TicketTriageWorkflow"},
         {"classify_ticket", "lookup_account", "draft_reply"})
classify_ticket == Bounded(Tool("classify_ticket"))
lookup_account == Tool("lookup_account")
draft_reply == Bounded(Tool("draft_reply"))
TicketTriageWorkflow ==
  [run |-> classify_ticket \o lookup_account \o <<Await({"approval"}), Maybe(draft_reply)>>,
   approve |-> <<Set("approval")>>]
triage_starter ==
  <<Start("langfuse-ticket-triage-task-queue", "TicketTriageWorkflow"), Sleep,
    Update("TicketTriageWorkflow", "approve"), Result("TicketTriageWorkflow")>>

call_openai == Act("call_openai")
langsmith_basic_worker == Worker("langsmith-basic-task-queue", {"BasicLLMWorkflow"}, {"call_openai"})
BasicLLMWorkflow == [run |-> <<call_openai>>]
langsmith_basic_starter == Exec("langsmith-basic-task-queue", "BasicLLMWorkflow")

litellm_queue == "litellm-activity-task-queue"
call_litellm == Bounded(Tool("call_litellm"))
litellm_worker == Worker(litellm_queue, {"LiteLLMWorkflow"}, {"call_litellm"})
LiteLLMWorkflow == [run |-> call_litellm]
litellm_starter == Exec(litellm_queue, "LiteLLMWorkflow")

-----------------------------------------------------------------------------
(* bedrock/.  The second workflow ends when nobody has sent a prompt for a *)
(* while, with a summary; a prompt that comes later is dropped.  It is     *)
(* started together with its first prompt.  Every call of the model is     *)
(* given twenty seconds, retries included.                                 *)
prompt_bedrock == Bounded(Tool("prompt_bedrock"))
bedrock_basic_worker == Worker("bedrock-task-queue", {"BasicBedrockWorkflow"}, {"prompt_bedrock"})
BasicBedrockWorkflow == [run |-> prompt_bedrock]
bedrock_basic_send_message == Exec("bedrock-task-queue", "BasicBedrockWorkflow")

signals_worker == Worker("bedrock-task-queue", {"SignalQueryBedrockWorkflow"}, {"prompt_bedrock"})
PromptOrTimeout ==
  <<Race(<< <<Await({"prompt"}), Clear("prompt")>> \o prompt_bedrock, <<Sleep>> >>)>>
SignalQueryBedrockWorkflow ==
  [run |-> <<Await({"prompt"}), Clear("prompt")>> \o prompt_bedrock \o PromptOrTimeout
           \o <<Set("chat_timeout")>> \o prompt_bedrock,
   user_prompt |-> <<If("chat_timeout", <<>>, <<Set("prompt")>>)>>,
   get_conversation_history |-> <<>>, get_summary_from_history |-> <<>>]
signals_send_message ==
  <<Start("bedrock-task-queue", "SignalQueryBedrockWorkflow"),
    Signal("SignalQueryBedrockWorkflow", "user_prompt")>>
get_history ==
  <<Query("SignalQueryBedrockWorkflow", "get_conversation_history"),
    Query("SignalQueryBedrockWorkflow", "get_summary_from_history")>>

-----------------------------------------------------------------------------
(* sentry/, open_telemetry/, prometheus/, custom_metric/                   *)
sentry_worker ==
  Worker("sentry-task-queue", {"SentryExampleWorkflow"}, {"broken_activity", "working_activity"})
working_activity == Bounded(Tool("working_activity"))     \* one attempt, too
broken_activity == <<Act("broken_activity"), Raise>>      \* one attempt
SentryExampleWorkflow == [run |-> <<Either({working_activity, broken_activity})>>]
sentry_starter == <<Try(Exec("sentry-task-queue", "SentryExampleWorkflow"), <<>>)>>

otel_compose_greeting == Act("compose_greeting")
otel_worker == Worker("open_telemetry-task-queue", {"GreetingWorkflow"}, {"compose_greeting"})
OtelGreetingWorkflow == [run |-> <<otel_compose_greeting>>]
otel_starter == Exec("open_telemetry-task-queue", "GreetingWorkflow")

prometheus_compose_greeting == Act("compose_greeting")
prometheus_worker == Worker("prometheus-task-queue", {"GreetingWorkflow"}, {"compose_greeting"})
PrometheusGreetingWorkflow == [run |-> <<prometheus_compose_greeting>>]
prometheus_starter == Exec("prometheus-task-queue", "GreetingWorkflow") \o <<Forever>>

print_and_sleep == Tool("print_and_sleep")
metric_worker == Worker("custom-metric-task-queue", {"StartTwoActivitiesWorkflow"}, {"print_and_sleep"})
StartTwoActivitiesWorkflow == [run |-> <<All(<<print_and_sleep, print_and_sleep>>)>>]
metric_starter == <<Start("custom-metric-task-queue", "StartTwoActivitiesWorkflow")>>

-----------------------------------------------------------------------------
(* gevent_async/, trio_async/, worker_multiprocessing/, eager_wf_start/,   *)
(* lambda_worker/                                                          *)
compose_greeting_async == Act("compose_greeting_async")
compose_greeting_sync == Act("compose_greeting_sync")
gevent_worker ==
  Worker("gevent_async-task-queue", {"GreetingWorkflow"},
         {"compose_greeting_async", "compose_greeting_sync"})
GeventGreetingWorkflow == [run |-> <<compose_greeting_async, compose_greeting_sync>>]
gevent_starter == Exec("gevent_async-task-queue", "GreetingWorkflow")
run_combined ==
  Script("gevent_async-task-queue", [GreetingWorkflow |-> GeventGreetingWorkflow],
         {"compose_greeting_async", "compose_greeting_sync"},
         Exec("gevent_async-task-queue", "GreetingWorkflow"))

say_hello_activity_async == Act("say_hello_activity_async")
say_hello_activity_sync == Act("say_hello_activity_sync")
trio_worker ==
  Worker("trio-async-task-queue", {"SayHelloWorkflow"},
         {"say_hello_activity_async", "say_hello_activity_sync"})
SayHelloWorkflow == [run |-> <<say_hello_activity_async, say_hello_activity_sync>>]
trio_starter == Exec("trio-async-task-queue", "SayHelloWorkflow")

\* Workflows and activities have workers, and queues, of their own.
WORKFLOW_TASK_QUEUE == "workflow-task-queue"
ACTIVITY_TASK_QUEUE == "activity-task-queue"
num_workflows == {"ParallelizedWorkflow-1", "ParallelizedWorkflow-2"}
echo_pid_activity == ActOn(ACTIVITY_TASK_QUEUE, "echo_pid_activity")
workflow_worker == Worker(WORKFLOW_TASK_QUEUE, num_workflows, {})
activity_worker == Worker(ACTIVITY_TASK_QUEUE, {}, {"echo_pid_activity"})
ParallelizedWorkflow == [run |-> <<echo_pid_activity>>]
multiprocessing_starter ==
  <<All(<<Exec(WORKFLOW_TASK_QUEUE, "ParallelizedWorkflow-1"),
          Exec(WORKFLOW_TASK_QUEUE, "ParallelizedWorkflow-2")>>)>>
multiprocessing_main ==
  Deployed({workflow_worker, activity_worker}, [w \in num_workflows |-> ParallelizedWorkflow],
           [starter |-> multiprocessing_starter])

eager_queue == "eager-wf-start-task-queue"
EagerWorkflow == [run |-> Bounded(Tool("greeting"))]
eager_run ==
  Script(eager_queue, [EagerWorkflow |-> EagerWorkflow], {"greeting"},
         Exec(eager_queue, "EagerWorkflow"))

serverless_queue == "serverless-task-queue-python"
hello_activity == Act("hello_activity")
lambda_configure == Worker(serverless_queue, {"SampleWorkflow"}, {"hello_activity"})
SampleWorkflow == [run |-> <<hello_activity>>]
lambda_starter == Exec(serverless_queue, "SampleWorkflow")

-----------------------------------------------------------------------------
(* custom_decorator/: the signal cancels an activity that only ends so.    *)
(* Its handler raises when the run method has not come to start the        *)
(* activity; the starter's five seconds are taken to be enough for that.   *)
(* It has one attempt, which fails when two seconds pass without a         *)
(* heartbeat.                                                              *)
wait_for_cancel_activity ==
  <<Race(<< <<Hang("wait_for_cancel_activity")>>, <<Await({"cancelled"})>>, <<GiveUp>> >>)>>
decorator_worker ==
  Worker("custom_decorator-task-queue", {"WaitForCancelWorkflow"}, {"wait_for_cancel_activity"})
WaitForCancelWorkflow ==
  [run |-> <<Set("activity")>> \o wait_for_cancel_activity,
   cancel_activity |-> <<If("activity", <<Set("cancelled")>>, <<Raise>>)>>]
decorator_starter ==
  <<Start("custom_decorator-task-queue", "WaitForCancelWorkflow"),
    Poll("WaitForCancelWorkflow", "activity"),
    Signal("WaitForCancelWorkflow", "cancel_activity"), Result("WaitForCancelWorkflow")>>

-----------------------------------------------------------------------------
(* encryption/, custom_converter/, pydantic_converter/ and its v1: the     *)
(* converter is the client's, the workflows only pass values through.      *)
encryption_worker == Worker("encryption-task-queue", {"Workflow"}, {})
EncryptionGreetingWorkflow == [run |-> <<>>]
encryption_starter == Exec("encryption-task-queue", "Workflow")

converter_worker == Worker("custom_converter-task-queue", {"GreetingWorkflow"}, {})
ConverterGreetingWorkflow == [run |-> <<>>]
converter_starter == Exec("custom_converter-task-queue", "GreetingWorkflow")

my_activity == Act("my_activity")
pydantic_worker == Worker("pydantic_converter-task-queue", {"MyWorkflow"}, {"my_activity"})
MyWorkflow == [run |-> <<my_activity>>]
pydantic_starter == Exec("pydantic_converter-task-queue", "MyWorkflow")

my_activity_v1 == Act("my_activity")
pydantic_v1_worker == Worker("pydantic_converter-task-queue", {"MyWorkflow"}, {"my_activity"})
MyWorkflow_v1 == [run |-> <<my_activity_v1>>]
pydantic_v1_starter == Exec("pydantic_converter-task-queue", "MyWorkflow")

-----------------------------------------------------------------------------
(* hello_standalone_activity/, activity_worker/ with the workflow in Go.   *)
standalone_worker == Worker("my-standalone-activity-task-queue", {}, {"compose_greeting"})
standalone_activity == ActOn("my-standalone-activity-task-queue", "compose_greeting")
execute_activity == <<standalone_activity>>
start_activity == <<standalone_activity>>

say_hello_queue == "say-hello-task-queue"
say_hello_activity == Act("say-hello-activity")
go_worker == Worker(say_hello_queue, {"say-hello-workflow"}, {})
GoSayHelloWorkflow == [run |-> <<say_hello_activity>>]
python_activity_worker == Worker(say_hello_queue, {}, {"say-hello-activity"})
say_hello_main == Exec(say_hello_queue, "say-hello-workflow")

-----------------------------------------------------------------------------
(* cloud_export_to_parquet/: the schedule starts the workflow, whose       *)
(* activities have ten attempts.                                           *)
export_worker ==
  Worker("DATA_TRANSFORMATION_TASK_QUEUE", {"ProtoToParquet"},
         {"get_object_keys", "data_trans_and_land"})
ProtoToParquet ==
  [run |-> Bounded(Tool("get_object_keys")) \o <<UpTo(2, Bounded(Tool("data_trans_and_land")))>>]
create_schedule == <<Start("DATA_TRANSFORMATION_TASK_QUEUE", "ProtoToParquet")>>

(* dsl/: the control of the statements of the two YAML files.              *)
dsl_worker ==
  Worker("dsl-task-queue", {"DSLWorkflow"},
         {"activity1", "activity2", "activity3", "activity4", "activity5"})
workflow1_flow == [run |-> <<Act("activity1"), Act("activity2"), Act("activity3")>>]
workflow2_flow ==
  [run |-> <<Act("activity1"),
             All(<< <<Act("activity2"), Act("activity3")>>, <<Act("activity4"), Act("activity5")>> >>),
             Act("activity3")>>]
dsl_starter == Exec("dsl-task-queue", "DSLWorkflow")

Table == In("others", [
  langfuse |-> Trio(triage_worker, TicketTriageWorkflow, triage_starter),
  langsmith |-> Trio(langsmith_basic_worker, BasicLLMWorkflow, langsmith_basic_starter),
  litellm |-> Trio(litellm_worker, LiteLLMWorkflow, litellm_starter),
  bedrock_basic |-> Trio(bedrock_basic_worker, BasicBedrockWorkflow, bedrock_basic_send_message),
  bedrock_signals |->
    Trio(signals_worker, SignalQueryBedrockWorkflow, signals_send_message \o get_history),
  sentry |-> Trio(sentry_worker, SentryExampleWorkflow, sentry_starter),
  open_telemetry |-> Trio(otel_worker, OtelGreetingWorkflow, otel_starter),
  prometheus |-> Trio(prometheus_worker, PrometheusGreetingWorkflow, prometheus_starter),
  custom_metric |-> Trio(metric_worker, StartTwoActivitiesWorkflow, metric_starter),
  gevent |-> Trio(gevent_worker, GeventGreetingWorkflow, gevent_starter),
  gevent_combined |-> run_combined,
  trio |-> Trio(trio_worker, SayHelloWorkflow, trio_starter),
  multiprocessing |-> multiprocessing_main,
  eager_wf_start |-> eager_run,
  lambda_worker |-> Trio(lambda_configure, SampleWorkflow, lambda_starter),
  custom_decorator |-> Trio(decorator_worker, WaitForCancelWorkflow, decorator_starter),
  encryption |-> Trio(encryption_worker, EncryptionGreetingWorkflow, encryption_starter),
  custom_converter |-> Trio(converter_worker, ConverterGreetingWorkflow, converter_starter),
  pydantic |-> Trio(pydantic_worker, MyWorkflow, pydantic_starter),
  pydantic_v1 |-> Trio(pydantic_v1_worker, MyWorkflow_v1, pydantic_v1_starter),
  standalone_activity |->
    Deployed({standalone_worker}, <<>>, [my_application |-> execute_activity \o start_activity]),
  activity_worker |->
    Deployed({go_worker, python_activity_worker},
             [w \in {"say-hello-workflow"} |-> GoSayHelloWorkflow], [main |-> say_hello_main]),
  cloud_export |-> Trio(export_worker, ProtoToParquet, create_schedule),
  dsl_workflow1 |-> Trio(dsl_worker, workflow1_flow, dsl_starter),
  dsl_workflow2 |-> Trio(dsl_worker, workflow2_flow, dsl_starter)])
=============================================================================
