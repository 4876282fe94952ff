---------------------------- MODULE NexusSamples ----------------------------
(***************************************************************************)
(* hello_nexus/, nexus_*/: a caller workflow in one namespace calls the    *)
(* operations of a service in another.  The caller's app runs its own      *)
(* worker; the handler's worker is behind the endpoint, whose queue is     *)
(* given when the endpoint is created (the samples' READMEs).              *)
(***************************************************************************)
EXTENDS Flows, TLC

-----------------------------------------------------------------------------
(* hello_nexus/ *)
MyNexusService == {"my_sync_operation", "my_workflow_run_operation"}
hello_endpoint == "hello-nexus-basic-nexus-endpoint"
hello_handler_queue == "my-handler-task-queue"
hello_caller_queue == "hello-nexus-basic-caller-task-queue"
hello_handler_worker ==
  NexusWorker(hello_handler_queue, {"WorkflowStartedByNexusOperation"}, {}, MyNexusService)
WorkflowStartedByNexusOperation == [run |-> <<>>]
MyNexusServiceHandler ==
  [my_sync_operation |-> <<>>,
   my_workflow_run_operation |-> Exec(hello_handler_queue, "WorkflowStartedByNexusOperation")]
CallerWorkflow ==
  [run |-> <<Nexus(hello_endpoint, "my_sync_operation"),
             Nexus(hello_endpoint, "my_workflow_run_operation")>>]
execute_caller_workflow == Exec(hello_caller_queue, "CallerWorkflow")
HelloNexus == WithNexus(
  Deployed({hello_handler_worker, Worker(hello_caller_queue, {"CallerWorkflow"}, {})},
           [CallerWorkflow |-> CallerWorkflow,
            WorkflowStartedByNexusOperation |-> WorkflowStartedByNexusOperation],
           [app |-> execute_caller_workflow]),
  hello_endpoint :> hello_handler_queue, MyNexusServiceHandler)

-----------------------------------------------------------------------------
(* nexus_multiple_args/: an unknown language would fail the handler's task *)
(* for ever; the app uses two it knows, one after the other.               *)
args_endpoint == "nexus-multiple-args-nexus-endpoint"
args_handler_queue == "nexus-multiple-args-handler-task-queue"
args_caller_queue == "nexus-multiple-args-caller-task-queue"
args_service == {"hello"}
args_handler_worker == NexusWorker(args_handler_queue, {"HelloHandlerWorkflow"}, {}, args_service)
args_HelloHandlerWorkflow == [run |-> <<>>]
args_service_handler == [hello |-> Exec(args_handler_queue, "HelloHandlerWorkflow")]
args_CallerWorkflow == [run |-> <<Nexus(args_endpoint, "hello")>>]
args_app == Exec(args_caller_queue, "CallerWorkflow") \o Exec(args_caller_queue, "CallerWorkflow")
MultipleArgs == WithNexus(
  Deployed({args_handler_worker, Worker(args_caller_queue, {"CallerWorkflow"}, {})},
           [CallerWorkflow |-> args_CallerWorkflow, HelloHandlerWorkflow |-> args_HelloHandlerWorkflow],
           [app |-> args_app]),
  args_endpoint :> args_handler_queue, args_service_handler)

-----------------------------------------------------------------------------
(* nexus_cancel/: one operation per language, each backed by a workflow    *)
(* with an id of its own.  The first answer wins; the others are cancelled *)
(* and the caller waits only until the cancellation is requested.  The     *)
(* cancelled workflow still cleans up.  An operation is given ten seconds; *)
(* the first to end fails the caller when it has failed.                   *)
cancel_endpoint == "nexus-cancel-endpoint"
cancel_handler_queue == "nexus-cancel-handler-task-queue"
cancel_caller_queue == "nexus-cancel-caller-task-queue"
Language == {"EN", "FR"}              \* two of the five
cancel_handler_worker == NexusWorker(cancel_handler_queue, Language, {}, Language)
HelloHandlerWorkflow == [run |-> <<Try(<<Sleep>>, <<Sleep, Raise>>)>>]
NexusServiceHandler == [lang \in Language |-> Exec(cancel_handler_queue, lang)]
HelloCallerWorkflow ==
  LET run_operation(lang) == Bounded(<<Nexus(cancel_endpoint, lang)>>)
      cancel(lang) == <<Try(<<Cancel(lang)>>, <<>>)>>
  IN [run |-> <<Race(<<run_operation("EN"), run_operation("FR")>>),
                All(<<cancel("EN"), cancel("FR")>>)>>]
cancel_app == Exec(cancel_caller_queue, "HelloCallerWorkflow")
NexusCancel == WithNexus(
  Deployed({cancel_handler_worker, Worker(cancel_caller_queue, {"HelloCallerWorkflow"}, {})},
           [HelloCallerWorkflow |-> HelloCallerWorkflow, EN |-> HelloHandlerWorkflow,
            FR |-> HelloHandlerWorkflow],
           [app |-> cancel_app]),
  cancel_endpoint :> cancel_handler_queue, NexusServiceHandler)

-----------------------------------------------------------------------------
(* nexus_standalone_operations/: the operations are called by a client,    *)
(* each for ten seconds.                                                   *)
standalone_endpoint == "my-nexus-endpoint"
standalone_queue == "nexus-handler-queue"
standalone_service == {"echo", "hello"}
standalone_worker == NexusWorker(standalone_queue, {"HelloWorkflow"}, {}, standalone_service)
standalone_handler == [echo |-> <<>>, hello |-> Exec(standalone_queue, "HelloWorkflow")]
standalone_starter ==
  Bounded(<<Nexus(standalone_endpoint, "echo")>>) \o Bounded(<<Nexus(standalone_endpoint, "hello")>>)
Standalone == WithNexus(
  Deployed({standalone_worker}, [HelloWorkflow |-> [run |-> <<>>]], [starter |-> standalone_starter]),
  standalone_endpoint :> standalone_queue, standalone_handler)

-----------------------------------------------------------------------------
(* nexus_messaging/: a service in front of GreetingWorkflow, an entity     *)
(* with queries, an update that may need an activity, and a signal that    *)
(* ends it once its handlers have finished.                                *)
messaging_endpoint == "nexus-messaging-nexus-endpoint"
messaging_handler_queue == "nexus-messaging-handler-task-queue"
call_greeting_service == <<Act("call_greeting_service")>>
GreetingWorkflow ==
  [run |-> <<Await({"approved_for_release"}), Finished>>,
   get_languages |-> <<>>, get_language |-> <<>>,
   approve |-> <<Set("approved_for_release")>>,
   set_language_using_activity |-> <<Maybe(call_greeting_service)>>]
Operation(o) == Nexus(messaging_endpoint, o)

\* callerpattern/: the handler's worker starts the entity, or uses the one that runs.
caller_service == {"get_languages", "get_language", "set_language", "approve"}
caller_service_handler ==
  LET w == "GreetingWorkflow" IN
  [get_languages |-> <<Query(w, "get_languages")>>, get_language |-> <<Query(w, "get_language")>>,
   set_language |-> <<Update(w, "set_language_using_activity")>>, approve |-> <<Signal(w, "approve")>>]
caller_handler_worker ==
  NexusWorker(messaging_handler_queue, {"GreetingWorkflow"}, {"call_greeting_service"}, caller_service)
caller_handler_main == <<Start(messaging_handler_queue, "GreetingWorkflow")>>
messaging_CallerWorkflow ==
  [run |-> <<Operation("get_languages"), Operation("set_language"), Operation("get_language"),
             Operation("approve")>>]
caller_app == Exec("nexus-messaging-caller-task-queue", "CallerWorkflow")
\* The handler is started first.
CallerPattern == WithNexus(
  Deployed({caller_handler_worker, Worker("nexus-messaging-caller-task-queue", {"CallerWorkflow"}, {})},
           [CallerWorkflow |-> messaging_CallerWorkflow, GreetingWorkflow |-> GreetingWorkflow],
           [app |-> caller_handler_main \o caller_app]),
  messaging_endpoint :> messaging_handler_queue, caller_service_handler)

\* ondemandpattern/: the caller starts two entities itself, and waits for both in the end.
REMOTE_WORKFLOW_ONE == "UserId One"
REMOTE_WORKFLOW_TWO == "UserId Two"
Users == {REMOTE_WORKFLOW_ONE, REMOTE_WORKFLOW_TWO}
remote_service ==
  {"run_from_remote", "result", "get_languages", "get_language", "set_language", "approve"}
remote_service_handler ==
  [o \in Users \X remote_service |->
     CASE o[2] = "run_from_remote" -> <<Start(messaging_handler_queue, o[1])>>
       [] o[2] = "result" -> <<Result(o[1])>>
       [] o[2] = "set_language" -> <<Update(o[1], "set_language_using_activity")>>
       [] o[2] = "approve" -> <<Signal(o[1], "approve")>>
       [] OTHER -> <<Query(o[1], o[2])>>]
remote_handler_worker ==
  NexusWorker(messaging_handler_queue, Users, {"call_greeting_service"}, Users \X remote_service)
remote_GreetingWorkflow == GreetingWorkflow     \* the same class in a file of its own
CallerRemoteWorkflow ==
  LET both(o) == <<Operation(<<REMOTE_WORKFLOW_ONE, o>>), Operation(<<REMOTE_WORKFLOW_TWO, o>>)>>
  IN [run |-> both("run_from_remote") \o both("get_languages") \o both("set_language")
              \o both("get_language") \o both("approve") \o both("result")]
remote_app == Exec("nexus-messaging-caller-remote-task-queue", "CallerRemoteWorkflow")
OnDemandPattern == WithNexus(
  Deployed({remote_handler_worker,
            Worker("nexus-messaging-caller-remote-task-queue", {"CallerRemoteWorkflow"}, {})},
           [w \in Users |-> remote_GreetingWorkflow] @@ [CallerRemoteWorkflow |-> CallerRemoteWorkflow],
           [app |-> remote_app]),
  messaging_endpoint :> messaging_handler_queue, remote_service_handler)

Table == In("nexus", [
  hello_nexus |-> HelloNexus, multiple_args |-> MultipleArgs, cancel |-> NexusCancel,
  standalone_operations |-> Standalone, callerpattern |-> CallerPattern,
  ondemandpattern |-> OnDemandPattern])
=============================================================================
