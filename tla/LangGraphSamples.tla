-------------------------- MODULE LangGraphSamples --------------------------
(***************************************************************************)
(* langgraph_plugin/: graphs whose nodes, and functions whose tasks, are   *)
(* activities that the plugin registers with the worker and the workflow   *)
(* executes in the order of the graph.                                     *)
(***************************************************************************)
EXTENDS Flows, TLC

LangGraphWorker(q, w, nodes) == Worker(q, {w}, nodes)
Chain(N) == [i \in DOMAIN N |-> Act(N[i])]

-----------------------------------------------------------------------------
(* Both APIs: one node.                                                    *)
make_hello_graph == Chain(<<"process_query">>)
graph_hello_worker == LangGraphWorker("langgraph-hello-world", "HelloWorldWorkflow", {"process_query"})
HelloWorldWorkflow == [run |-> make_hello_graph]
graph_hello_starter == Exec("langgraph-hello-world", "HelloWorldWorkflow")

hello_entrypoint == Chain(<<"process_query">>)
functional_hello_worker ==
  LangGraphWorker("langgraph-hello-world-functional", "HelloWorldFunctionalWorkflow", {"process_query"})
HelloWorldFunctionalWorkflow == [run |-> hello_entrypoint]
functional_hello_starter == Exec("langgraph-hello-world-functional", "HelloWorldFunctionalWorkflow")

make_chat_graph == Chain(<<"chat">>)
ChatWorkflow == [run |-> make_chat_graph]
graph_langsmith_main ==
  Script("langgraph-langsmith", [ChatWorkflow |-> ChatWorkflow], {"chat"},
         Exec("langgraph-langsmith", "ChatWorkflow"))

chat_entrypoint == Chain(<<"chat">>)
ChatFunctionalWorkflow == [run |-> chat_entrypoint]
functional_langsmith_main ==
  Script("langgraph-langsmith-functional", [ChatFunctionalWorkflow |-> ChatFunctionalWorkflow], {"chat"},
         Exec("langgraph-langsmith-functional", "ChatFunctionalWorkflow"))

-----------------------------------------------------------------------------
(* Three stages over three runs: the cache that is handed on answers for   *)
(* the stages in the later runs.  The starter gives the execution, all of  *)
(* its runs, sixty seconds.                                                *)
Phases == 3
Pipeline(stages) ==
  [run |-> Bounded(<<If("cache", <<>>, stages \o <<Set("cache")>>), Again(Phases, {}, {"cache"})>>)]

make_pipeline_graph == Chain(<<"double", "add_50", "triple">>)
graph_pipeline_worker == LangGraphWorker("langgraph-pipeline", "PipelineWorkflow", {"double", "add_50", "triple"})
PipelineWorkflow == Pipeline(make_pipeline_graph)
graph_pipeline_starter == Exec("langgraph-pipeline", "PipelineWorkflow")

pipeline_entrypoint == Chain(<<"double", "add_50", "triple">>)
functional_pipeline_worker ==
  LangGraphWorker("langgraph-pipeline-functional", "PipelineFunctionalWorkflow", {"double", "add_50", "triple"})
PipelineFunctionalWorkflow == Pipeline(pipeline_entrypoint)
functional_pipeline_starter == Exec("langgraph-pipeline-functional", "PipelineFunctionalWorkflow")

-----------------------------------------------------------------------------
(* The agent loop: two tool calls and an answer.                           *)
ToolResults == 2
React(think, act) == Times(ToolResults, Chain(<<think, act>>)) \o Chain(<<think>>)

make_agent_graph == React("agent", "tools")
graph_react_worker == LangGraphWorker("langgraph-react-agent", "ReactAgentWorkflow", {"agent", "tools"})
ReactAgentWorkflow == [run |-> make_agent_graph]
graph_react_starter == Exec("langgraph-react-agent", "ReactAgentWorkflow")

react_agent_entrypoint == React("agent_think", "execute_tool")
functional_react_worker ==
  LangGraphWorker("langgraph-react-agent-functional", "ReactAgentFunctionalWorkflow",
                  {"agent_think", "execute_tool"})
ReactAgentFunctionalWorkflow == [run |-> react_agent_entrypoint]
functional_react_starter == Exec("langgraph-react-agent-functional", "ReactAgentFunctionalWorkflow")

-----------------------------------------------------------------------------
(* The node of the review interrupts the graph; when the graph is resumed  *)
(* with the feedback, that node runs again and the draft is not made again.*)
Reviewed(draft, review) ==
  [run |-> Chain(<<draft, review>>)
           \o <<Set("draft"), Await({"human_input"})>> \o Chain(<<review>>),
   provide_feedback |-> <<Set("human_input")>>, get_draft |-> <<>>]
Reviewer(q, w) == <<Start(q, w), Poll(w, "draft"), Signal(w, "provide_feedback"), Result(w)>>

make_chatbot_graph == {"generate_draft", "human_review"}
graph_chatbot_worker == LangGraphWorker("langgraph-chatbot", "ChatbotWorkflow", make_chatbot_graph)
ChatbotWorkflow == Reviewed("generate_draft", "human_review")
graph_chatbot_starter == Reviewer("langgraph-chatbot", "ChatbotWorkflow")

chatbot_entrypoint == {"generate_draft", "request_human_review"}
functional_chatbot_worker ==
  LangGraphWorker("langgraph-chatbot-functional", "ChatbotFunctionalWorkflow", chatbot_entrypoint)
ChatbotFunctionalWorkflow == Reviewed("generate_draft", "request_human_review")
functional_chatbot_starter == Reviewer("langgraph-chatbot-functional", "ChatbotFunctionalWorkflow")

-----------------------------------------------------------------------------
(* The items (three stand for the six) are validated at the same time, and *)
(* the valid ones are processed one after the other.                       *)
Items == 3
validate_items == <<All([i \in 1..Items |-> Chain(<<"validate_item">>)])>>
classify_and_process ==
  Chain(<<"classify_item">>) \o <<Either({Chain(<<"process_urgent">>), Chain(<<"process_normal">>)})>>
control_flow_pipeline ==
  validate_items \o <<UpTo(Items, classify_and_process)>> \o Chain(<<"summarize">>)
control_flow_worker ==
  LangGraphWorker("langgraph-control-flow", "ControlFlowWorkflow",
    {"validate_item", "classify_item", "process_urgent", "process_normal", "summarize"})
ControlFlowWorkflow == [run |-> control_flow_pipeline]
control_flow_starter == Exec("langgraph-control-flow", "ControlFlowWorkflow")

-----------------------------------------------------------------------------
(* The workflow stays open until the reader of its stream has seen `done`. *)
make_streaming_graph == Chain(<<"outline", "write_story">>)
streaming_worker == LangGraphWorker("langgraph-streaming", "StreamingWorkflow", {"outline", "write_story"})
StreamingWorkflow ==
  [run |-> make_streaming_graph \o <<Set("done"), Await({"stream_acked"})>>,
   ack_stream |-> <<Set("stream_acked")>>]
streaming_starter ==
  <<Start("langgraph-streaming", "StreamingWorkflow"), Poll("StreamingWorkflow", "done"),
    Signal("StreamingWorkflow", "ack_stream"), Result("StreamingWorkflow")>>

Table ==
  In("langgraph_plugin/graph_api", [
    hello_world |-> Trio(graph_hello_worker, HelloWorldWorkflow, graph_hello_starter),
    langsmith_tracing |-> graph_langsmith_main,
    continue_as_new |-> Trio(graph_pipeline_worker, PipelineWorkflow, graph_pipeline_starter),
    react_agent |-> Trio(graph_react_worker, ReactAgentWorkflow, graph_react_starter),
    human_in_the_loop |-> Trio(graph_chatbot_worker, ChatbotWorkflow, graph_chatbot_starter),
    streaming |-> Trio(streaming_worker, StreamingWorkflow, streaming_starter)])
  @@ In("langgraph_plugin/functional_api", [
    hello_world |-> Trio(functional_hello_worker, HelloWorldFunctionalWorkflow, functional_hello_starter),
    langsmith_tracing |-> functional_langsmith_main,
    continue_as_new |->
      Trio(functional_pipeline_worker, PipelineFunctionalWorkflow, functional_pipeline_starter),
    react_agent |-> Trio(functional_react_worker, ReactAgentFunctionalWorkflow, functional_react_starter),
    human_in_the_loop |->
      Trio(functional_chatbot_worker, ChatbotFunctionalWorkflow, functional_chatbot_starter),
    control_flow |-> Trio(control_flow_worker, ControlFlowWorkflow, control_flow_starter)])
=============================================================================
