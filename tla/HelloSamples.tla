---------------------------- MODULE HelloSamples ----------------------------
(***************************************************************************)
(* hello/: one script per sample, which runs the worker and the client.    *)
(***************************************************************************)
EXTENDS Flows, TLC

\* The scripts that execute one GreetingWorkflow, whose run awaits flow f.
Greeting(q, A, f) ==
  Script(q, [GreetingWorkflow |-> [run |-> f]], A, Exec(q, "GreetingWorkflow"))
compose_greeting == {"compose_greeting"}
Composed == <<Act("compose_greeting")>>

hello_activity           == Greeting("hello-activity-task-queue", compose_greeting, Composed)
hello_activity_async     == Greeting("hello-activity-task-queue", compose_greeting, Composed)
hello_activity_heartbeat == Greeting("hello-activity-heartbeating-task-queue", compose_greeting, Composed)
hello_activity_multiprocess ==
  Greeting("hello-activity-multiprocess-task-queue", compose_greeting, Composed)
hello_activity_retry     == Greeting("hello-activity-retry-task-queue", compose_greeting, Composed)
hello_async_activity_completion ==
  Greeting("hello-async-activity-completion-task-queue", compose_greeting, Composed)
hello_local_activity     == Greeting("hello-local-activity-task-queue", compose_greeting, Composed)
hello_mtls               == Greeting("hello-mtls-task-queue", compose_greeting, Composed)

\* Four items, one activity each, chosen by the fruit.
hello_activity_choice ==
  LET q == "hello-activity-choice-task-queue" IN
  Script(q, [PurchaseFruitsWorkflow |-> [run |->
               <<Act("order_apples"), Act("order_bananas"), Act("order_cherries"), Act("order_oranges")>>]],
         {"order_apples", "order_bananas", "order_cherries", "order_oranges"},
         Exec(q, "PurchaseFruitsWorkflow"))

hello_activity_method ==
  LET q == "hello-activity-method-task-queue" IN
  Script(q, [MyWorkflow |-> [run |-> <<Act("do_database_thing")>>]], {"do_database_thing"},
         Exec(q, "MyWorkflow"))

\* The activity heartbeats until it is cancelled with the workflow; the finally clause
\* then cleans up, and the client catches the failure of the workflow.
hello_cancellation ==
  LET q == "hello-cancellation-task-queue" w == "CancellationWorkflow" IN
  Script(q, [CancellationWorkflow |-> [run |->
               Finally(<<Hang("never_complete_activity")>>, <<Act("cleanup_activity"), Set("cleaned")>>)]],
         {"never_complete_activity", "cleanup_activity"},
         <<Start(q, w), Sleep, Cancel(w), Try(<<Result(w), Raise>>, <<>>)>>)

\* An exception that is no FailureError fails the workflow task, which is retried for
\* ever: the workflow stays open and the client waits.
hello_change_log_level ==
  Greeting("hello-change-log-level-task-queue", {}, <<Forever>>)

hello_child_workflow ==
  LET q == "hello-child-workflow-task-queue" IN
  Script(q, [GreetingWorkflow |-> [run |-> Exec("", "ComposeGreetingWorkflow")],
             ComposeGreetingWorkflow |-> [run |-> <<>>]],
         {}, Exec(q, "GreetingWorkflow"))

\* Iterations 0 to 9 continue as new, iteration 10 returns.
hello_continue_as_new ==
  LET q == "hello-continue-as-new-task-queue" IN
  Script(q, [LoopingWorkflow |-> [run |-> <<Sleep, Again(11, {}, {})>>]], {}, Exec(q, "LoopingWorkflow"))

\* One run of the cron schedule; the client never returns.
hello_cron ==
  LET q == "hello-cron-task-queue" IN
  Script(q, [GreetingWorkflow |-> [run |-> Composed]], compose_greeting,
         <<Start(q, "GreetingWorkflow"), Forever>>)

\* The activity fails twice, which is all its retry policy allows; the client catches it.
hello_exception ==
  LET q == "hello-exception-task-queue" IN
  Script(q, [GreetingWorkflow |-> [run |-> Composed \o <<Raise>>]], compose_greeting,
         <<Try(Exec(q, "GreetingWorkflow"), <<>>)>>)

hello_parallel_activity ==
  LET q == "hello-parallel-activity-task-queue" IN
  Script(q, [SayHelloWorkflow |-> [run |-> <<All([user \in 1..5 |-> <<Act("say_hello_activity")>>])>>]],
         {"say_hello_activity"}, Exec(q, "SayHelloWorkflow"))

hello_query ==
  LET q == "hello-query-task-queue" w == "GreetingWorkflow" IN
  Script(q, [GreetingWorkflow |-> [run |-> <<Sleep>>, greeting |-> <<>>]], {},
         <<Start(q, w), Query(w, "greeting"), Sleep, Query(w, "greeting")>>)

hello_search_attributes ==
  LET q == "hello-search-attributes-task-queue" IN
  Script(q, [GreetingWorkflow |-> [run |-> <<Sleep>>]], {}, <<Start(q, "GreetingWorkflow"), Sleep>>)

\* Each wake-up takes all the pending greetings before it looks at the exit flag.
hello_signal ==
  LET q == "hello-signal-task-queue" w == "GreetingWorkflow" IN
  Script(q, [GreetingWorkflow |->
               [run |-> <<Until("exit", <<Await({"pending_greetings", "exit"}), Clear("pending_greetings")>>)>>,
                submit_greeting |-> <<Set("pending_greetings")>>, exit |-> <<Set("exit")>>]],
         {}, <<Start(q, w)>> \o [user \in 1..3 |-> Signal(w, "submit_greeting")]
             \o <<Signal(w, "exit"), Result(w)>>)

hello_update ==
  LET q == "update-workflow-task-queue" w == "GreetingWorkflow" IN
  Script(q, [GreetingWorkflow |-> [run |-> <<Await({"is_complete"})>>,
                                   update_workflow_status |-> <<Set("is_complete")>>]],
         {}, <<Start(q, w), Update(w, "update_workflow_status"), Result(w)>>)

\* The three versions of hello_patch by the names they are registered under; the third's is
\* misspelt, so it never takes over a run of the second.  Each is a deployment of its own.  A
\* version's main waits for the run its id already has, if there is one.
patch_queue == "hello-patch-task-queue"
MyWorkflow == "patch-workflow" :> [run |-> Composed]
MyWorkflowPatched == "patch-workflow" :> [run |-> <<Either({Composed \o <<Sleep>>, Composed})>>]
MyWorkflowPatchDeprecated == "patch-worklow" :> [run |-> Composed \o <<Sleep>>]
hello_patch(class) ==
  LET w == CHOOSE w \in DOMAIN class : TRUE IN
  Script(patch_queue, class, compose_greeting, <<Try(Exec(patch_queue, w), <<Result(w)>>)>>)

Table == In("hello", [
  hello_activity |-> hello_activity, hello_activity_async |-> hello_activity_async,
  hello_activity_heartbeat |-> hello_activity_heartbeat,
  hello_activity_multiprocess |-> hello_activity_multiprocess,
  hello_activity_retry |-> hello_activity_retry,
  hello_async_activity_completion |-> hello_async_activity_completion,
  hello_local_activity |-> hello_local_activity, hello_mtls |-> hello_mtls,
  hello_activity_choice |-> hello_activity_choice, hello_activity_method |-> hello_activity_method,
  hello_cancellation |-> hello_cancellation, hello_change_log_level |-> hello_change_log_level,
  hello_child_workflow |-> hello_child_workflow, hello_continue_as_new |-> hello_continue_as_new,
  hello_cron |-> hello_cron, hello_exception |-> hello_exception,
  hello_parallel_activity |-> hello_parallel_activity, hello_query |-> hello_query,
  hello_search_attributes |-> hello_search_attributes, hello_signal |-> hello_signal,
  hello_update |-> hello_update, hello_patch_v1 |-> hello_patch(MyWorkflow),
  hello_patch_v2 |-> hello_patch(MyWorkflowPatched),
  hello_patch_v3 |-> hello_patch(MyWorkflowPatchDeprecated)])
=============================================================================
