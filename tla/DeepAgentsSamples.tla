-------------------------- MODULE DeepAgentsSamples --------------------------
(***************************************************************************)
(* deepagents_plugin/: Deep Agents whose model, tool and file operations   *)
(* are activities that the plugin registers with every worker.             *)
(***************************************************************************)
EXTENDS Flows

DeepAgentsWorker(q, w, A) == Worker(q, {w}, A \cup {"model", "invoke_tool", "backend_op"})

hello_world_worker == DeepAgentsWorker("deepagents-hello-world", "HelloWorldAgent", {})
HelloWorldAgent == [run |-> Agent({})]
hello_world_starter == Exec("deepagents-hello-world", "HelloWorldAgent")

\* run_deep_agent continues as new when the server suggests it, with the conversation and
\* the results of the calls made so far.
continue_as_new_worker == DeepAgentsWorker("deepagents-continue-as-new", "LongResearchAgent", {})
LongResearchAgent == [run |-> Agent({Local}) \o <<Maybe(<<Again(2, {}, {})>>)>>]
continue_as_new_starter == Exec("deepagents-continue-as-new", "LongResearchAgent")

filesystem_worker == DeepAgentsWorker("deepagents-filesystem-backend", "FilesystemAgent", {})
FilesystemAgent == [run |-> Agent({Tool("backend_op")})]
filesystem_starter == Exec("deepagents-filesystem-backend", "FilesystemAgent")

\* The agent stops before the guarded tool, which the model asks for, and goes on with the
\* decision that an update brings.
human_in_the_loop_worker == DeepAgentsWorker("deepagents-human-in-the-loop", "HumanInTheLoopAgent", {})
book_trip == Tool("invoke_tool")
HumanInTheLoopAgent ==
  [run |-> Model \o <<Set("pending"), Await({"resumed"}), Clear("pending")>> \o book_trip \o Model,
   resume |-> <<Set("resumed")>>, pending_approval |-> <<>>]
human_in_the_loop_starter ==
  <<Start("deepagents-human-in-the-loop", "HumanInTheLoopAgent"), Poll("HumanInTheLoopAgent", "pending"),
    Update("HumanInTheLoopAgent", "resume"), Result("HumanInTheLoopAgent")>>

TracedAgent == [run |-> Agent({})]
langsmith_main ==
  Script("deepagents-langsmith-tracing", [TracedAgent |-> TracedAgent], {"model"},
         Exec("deepagents-langsmith-tracing", "TracedAgent"))

react_agent_worker == DeepAgentsWorker("deepagents-react-agent", "ReactAgent", {"get_weather"})
get_weather == Tool("get_weather")
web_search == Tool("invoke_tool")
ReactAgent == [run |-> Agent({get_weather, web_search})]
react_agent_starter == Exec("deepagents-react-agent", "ReactAgent")

\* The reader of the chunks is given some time after the result, and then cancelled.
streaming_worker == DeepAgentsWorker("deepagents-streaming", "StreamingWorkflow", {"invoke_model_streaming"})
StreamingWorkflow == [run |-> Tool("invoke_model_streaming")]
streaming_starter == Exec("deepagents-streaming", "StreamingWorkflow") \o <<Maybe(<<Sleep>>)>>

subagents_worker == DeepAgentsWorker("deepagents-subagents", "SubagentsWorkflow", {})
SubagentsWorkflow ==
  LET researcher == Agent({})
  IN [run |-> Agent({researcher})]
subagents_starter == Exec("deepagents-subagents", "SubagentsWorkflow")

Table == In("deepagents_plugin", [
  hello_world |-> Trio(hello_world_worker, HelloWorldAgent, hello_world_starter),
  continue_as_new |-> Trio(continue_as_new_worker, LongResearchAgent, continue_as_new_starter),
  filesystem_backend |-> Trio(filesystem_worker, FilesystemAgent, filesystem_starter),
  human_in_the_loop |->
    Trio(human_in_the_loop_worker, HumanInTheLoopAgent, human_in_the_loop_starter),
  langsmith_tracing |-> langsmith_main,
  react_agent |-> Trio(react_agent_worker, ReactAgent, react_agent_starter),
  streaming |-> Trio(streaming_worker, StreamingWorkflow, streaming_starter),
  subagents |-> Trio(subagents_worker, SubagentsWorkflow, subagents_starter)])
=============================================================================
