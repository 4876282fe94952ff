--------------------------- MODULE StrandsSamples ---------------------------
(***************************************************************************)
(* strands_plugin/: agents of the Strands SDK.  Per sample the worker, the *)
(* workflow and the starter, each a file.  The plugin registers the model  *)
(* activity; tools are functions of the workflow's process or activities.  *)
(***************************************************************************)
EXTENDS Flows

StrandsWorker(q, w, A) == Worker(q, {w}, A \cup {"model"})

hello_world_run_worker   == StrandsWorker("strands-hello-world", "HelloWorldWorkflow", {})
HelloWorldWorkflow       == [run |-> Agent({})]
hello_world_run_workflow == Exec("strands-hello-world", "HelloWorldWorkflow")

tools_run_worker   == StrandsWorker("strands-tools", "ToolsWorkflow", {"fetch_weather", "environment"})
letter_counter     == Local
ToolsWorkflow      == [run |-> Agent({letter_counter, Tool("fetch_weather"), Tool("environment")})]
tools_run_workflow == Exec("strands-tools", "ToolsWorkflow")

structured_output_run_worker   == StrandsWorker("strands-structured-output", "StructuredOutputWorkflow", {})
StructuredOutputWorkflow       == [run |-> Agent({})]
structured_output_run_workflow == Exec("strands-structured-output", "StructuredOutputWorkflow")

\* The hook persists every tool call with an activity after the tool has run.
hooks_run_worker   == StrandsWorker("strands-hooks", "HooksWorkflow", {"persist_tool_call"})
AuditHook(tool)    == tool \o <<Act("persist_tool_call")>>
HooksWorkflow      == [run |-> Agent({AuditHook(Local)})]
hooks_run_workflow == Exec("strands-hooks", "HooksWorkflow")

\* The plugin registers the tools of the MCP clients given to the worker, by name.
mcp_run_worker   == StrandsWorker("strands-mcp", "MCPWorkflow", {"echo"})
MCPWorkflow      == [run |-> Agent({Tool("echo")})]
mcp_run_workflow == Exec("strands-mcp", "MCPWorkflow")

\* The starter reads the stream of events while it waits for the result; the model's
\* stream ends with a messageStop, which the reader looks for; it is waited for ten seconds
\* after the result.
streaming_run_worker   == StrandsWorker("strands-streaming", "StreamingWorkflow", {})
StreamingWorkflow      == [run |-> Agent({}) \o <<Set("messageStop")>>]
streaming_run_workflow ==
  <<Start("strands-streaming", "StreamingWorkflow"),
    All(<< Bounded(<<Poll("StreamingWorkflow", "messageStop")>>), <<Result("StreamingWorkflow")>> >>)>>

\* An agent that asks for approval before its tool is done, of a client that gives it.
GatedForgetful(tool) ==      \* mutant: what was approved before is reset after asking
  <<Set("pending_reason"), Clear("approval"), Await({"approval"}), Clear("pending_reason")>> \o tool
Gated(tool) == <<Set("pending_reason"), Await({"approval"}), Clear("approval"), Clear("pending_reason")>> \o tool
Asked == [approve |-> <<Set("approval")>>, pending_approval |-> <<>>]
Approver(q, w) ==
  <<Start(q, w), Poll(w, "pending_reason"), Signal(w, "approve"), Result(w)>>

human_in_the_loop_run_worker == StrandsWorker("strands-human-in-the-loop", "HumanInTheLoopWorkflow", {})
ApprovalHook == Gated(Local)
HumanInTheLoopWorkflow ==
  [run |-> Model \o ApprovalHook \o Model, approve |-> Asked.approve, pending_approval |-> <<>>]
human_in_the_loop_run_workflow == Approver("strands-human-in-the-loop", "HumanInTheLoopWorkflow")

\* The activity itself interrupts, once per name; it is called again when the agent resumes.
activity_interrupt_run_worker ==
  StrandsWorker("strands-activity-interrupt", "ActivityInterruptWorkflow", {"delete_thing"})
ActivityInterruptWorkflow ==
  [run |-> Model \o Tool("delete_thing") \o Gated(Tool("delete_thing")) \o Model,
   approve |-> Asked.approve, pending_approval |-> <<>>]
activity_interrupt_run_workflow == Approver("strands-activity-interrupt", "ActivityInterruptWorkflow")

\* Turns are updates; the run waits for the end or for the suggestion to continue as new,
\* then for its handlers.
continue_as_new_run_worker == StrandsWorker("strands-chat", "ChatWorkflow", {})
ChatUnfinished ==            \* mutant: ends under its handlers
  [run |-> <<Set("agent"), Await({"done", "agent"})>>,
   turn |-> <<Await({"agent"}), Act("model")>>, end_chat |-> <<Set("done")>>, messages |-> <<>>]
ChatWorkflow ==
  [run |-> <<Set("agent"), Maybe(<<Await({"done"})>>), FinishedAgain(2, {"done"}, {}),
             Await({"done"}), Finished>>,
   turn |-> <<Await({"agent"}), Act("model")>>, end_chat |-> <<Set("done")>>, messages |-> <<>>]
continue_as_new_run_workflow ==
  <<Start("strands-chat", "ChatWorkflow"), Update("ChatWorkflow", "turn"), Update("ChatWorkflow", "turn"),
    Signal("ChatWorkflow", "end_chat"), Result("ChatWorkflow")>>

Table == In("strands_plugin", [
  hello_world |-> Trio(hello_world_run_worker, HelloWorldWorkflow, hello_world_run_workflow),
  tools |-> Trio(tools_run_worker, ToolsWorkflow, tools_run_workflow),
  structured_output |->
    Trio(structured_output_run_worker, StructuredOutputWorkflow, structured_output_run_workflow),
  hooks |-> Trio(hooks_run_worker, HooksWorkflow, hooks_run_workflow),
  mcp |-> Trio(mcp_run_worker, MCPWorkflow, mcp_run_workflow),
  streaming |-> Trio(streaming_run_worker, StreamingWorkflow, streaming_run_workflow),
  human_in_the_loop |->
    Trio(human_in_the_loop_run_worker, HumanInTheLoopWorkflow, human_in_the_loop_run_workflow),
  activity_interrupt |->
    Trio(activity_interrupt_run_worker, ActivityInterruptWorkflow, activity_interrupt_run_workflow),
  chat |-> Trio(continue_as_new_run_worker, ChatWorkflow, continue_as_new_run_workflow)])
=============================================================================
