---------------------------- MODULE GoogleSamples ----------------------------
(***************************************************************************)
(* google_genai/ and google_adk_agents/: workflows that call Gemini, by    *)
(* its client and by the agents of the ADK.  The plugins register the      *)
(* activities behind the client, the models and the MCP servers they are   *)
(* given; Gemini calls the tools a prompt asks for, and answers in the     *)
(* schema it is given.                                                     *)
(***************************************************************************)
EXTENDS Flows, TLC

Calls(O) == [i \in DOMAIN O |-> Act(O[i])]
Managed == {"agents.create", "agents.get", "agents.list", "agents.delete", "files.upload",
            "interactions.create", "interactions.get", "interactions.delete"}
GenAIWorker(q, w, A) == Worker(q, {w}, A \cup {"model"} \cup Managed)
AdkWorker(q, w, A) == Worker(q, {w}, A \cup {"model"})

\* The MCP server that the workers register and the workflows use under the name echo.
EchoServer == {"echo-list_tools", "echo-call_tool"}
EchoAgent  == <<Act("echo-list_tools")>> \o Agent({Tool("echo-call_tool")})

-----------------------------------------------------------------------------
(* google_genai/                                                           *)
genai_hello_worker == GenAIWorker("google-genai-hello-world", "HelloWorldWorkflow", {})
HelloWorldWorkflow == [run |-> Model]
genai_hello_starter == Exec("google-genai-hello-world", "HelloWorldWorkflow")

\* The agent is deleted however the calls in between end.
agents_worker == GenAIWorker("google-genai-agents", "AgentsWorkflow", {})
AgentsWorkflow ==
  [run |-> Calls(<<"agents.create">>)
           \o Finally(Calls(<<"agents.get", "agents.list">>), Calls(<<"agents.delete">>))]
agents_starter == Exec("google-genai-agents", "AgentsWorkflow")

Prompts == 2
chat_worker == GenAIWorker("google-genai-chat", "ChatWorkflow", {})
ChatWorkflow == [run |-> Times(Prompts, Model)]
chat_starter == Exec("google-genai-chat", "ChatWorkflow")

files_worker == GenAIWorker("google-genai-files", "FilesWorkflow", {})
FilesWorkflow == [run |-> Calls(<<"files.upload">>) \o Model]
files_starter == Exec("google-genai-files", "FilesWorkflow")

interactions_worker == GenAIWorker("google-genai-interactions", "InteractionsWorkflow", {})
InteractionsWorkflow == [run |-> Calls(<<"interactions.create", "interactions.get", "interactions.delete">>)]
interactions_starter == Exec("google-genai-interactions", "InteractionsWorkflow")

genai_echo_session == EchoServer
genai_mcp_worker == GenAIWorker("google-genai-mcp", "McpWorkflow", genai_echo_session)
McpWorkflow == [run |-> EchoAgent]
genai_mcp_starter == Exec("google-genai-mcp", "McpWorkflow")

\* The reader gives up after a minute; the workflow holds itself open for five, so that
\* the signal always finds it open.
genai_streaming_worker == GenAIWorker("google-genai-streaming", "StreamingWorkflow", {})
StreamingWorkflow ==
  [run |-> Model \o <<Set("finish_reason"), Await({"done"})>>, finish |-> <<Set("done")>>]
consume == <<Maybe(<<Poll("StreamingWorkflow", "finish_reason")>>)>>
genai_streaming_starter ==
  <<Start("google-genai-streaming", "StreamingWorkflow")>> \o consume
  \o <<Signal("StreamingWorkflow", "finish"), Result("StreamingWorkflow")>>

structured_output_worker == GenAIWorker("google-genai-structured-output", "StructuredOutputWorkflow", {})
\* An answer that is no Recipe fails the workflow for good.
StructuredOutputWorkflow == [run |-> Bounded(Model)]
structured_output_starter == Exec("google-genai-structured-output", "StructuredOutputWorkflow")

genai_tools_worker == GenAIWorker("google-genai-tools", "ToolsWorkflow", {"get_weather"})
genai_get_weather == Tool("get_weather")
recommend_thing_to_do == Local
ToolsWorkflow == [run |-> Agent({genai_get_weather, recommend_thing_to_do})]
genai_tools_starter == Exec("google-genai-tools", "ToolsWorkflow")

vertex_ai_worker == GenAIWorker("google-genai-vertex-ai", "VertexAIWorkflow", {})
VertexAIWorkflow == [run |-> Model]
vertex_ai_starter == Exec("google-genai-vertex-ai", "VertexAIWorkflow")

-----------------------------------------------------------------------------
(* google_adk_agents/                                                      *)
patterns_worker == AdkWorker("google-adk-agents-agent-patterns", "MultiAgentWorkflow", {})
MultiAgentWorkflow ==
  LET researcher == Model
      writer == Model
  IN [run |-> Agent({researcher, writer})]
patterns_starter == Exec("google-adk-agents-agent-patterns", "MultiAgentWorkflow")

basic_worker == AdkWorker("google-adk-agents-basic", "HelloWorldAgentWorkflow", {})
HelloWorldAgentWorkflow == [run |-> Agent({})]
basic_starter == Exec("google-adk-agents-basic", "HelloWorldAgentWorkflow")

\* Messages are updates that wait until the session is there; the run waits for ever and
\* is terminated by the client, which closes it as a cancellation does that nobody catches.
chatbot_worker == AdkWorker("google-adk-agents-chatbot", "ChatbotAgentWorkflow", {})
ChatbotAgentWorkflow ==
  [run |-> <<Set("ready"), Forever>>, message |-> <<Await({"ready"})>> \o Agent({})]
chatbot_starter ==
  <<Start("google-adk-agents-chatbot", "ChatbotAgentWorkflow"),
    UpTo(2, <<Update("ChatbotAgentWorkflow", "message")>>), Cancel("ChatbotAgentWorkflow")>>

adk_mcp_worker == AdkWorker("google-adk-agents-mcp", "EchoMcpWorkflow", EchoServer)
EchoMcpWorkflow == [run |-> EchoAgent]
echo_starter == Exec("google-adk-agents-mcp", "EchoMcpWorkflow")

\* The chunks are read while the result is awaited, and no longer.
adk_streaming_worker == AdkWorker("google-adk-agents-streaming", "StreamingAgentWorkflow", {})
StreamingAgentWorkflow == [run |-> Agent({})]
adk_streaming_starter == Exec("google-adk-agents-streaming", "StreamingAgentWorkflow")

adk_tools_worker == AdkWorker("google-adk-agents-tools", "WeatherAgentWorkflow", {"get_weather"})
adk_get_weather == Tool("get_weather")
WeatherAgentWorkflow == [run |-> Agent({adk_get_weather})]
weather_starter == Exec("google-adk-agents-tools", "WeatherAgentWorkflow")

Table ==
  In("google_genai", [
    hello_world |-> Trio(genai_hello_worker, HelloWorldWorkflow, genai_hello_starter),
    agents |-> Trio(agents_worker, AgentsWorkflow, agents_starter),
    chat |-> Trio(chat_worker, ChatWorkflow, chat_starter),
    files |-> Trio(files_worker, FilesWorkflow, files_starter),
    interactions |-> Trio(interactions_worker, InteractionsWorkflow, interactions_starter),
    mcp |-> Trio(genai_mcp_worker, McpWorkflow, genai_mcp_starter),
    streaming |-> Trio(genai_streaming_worker, StreamingWorkflow, genai_streaming_starter),
    structured_output |->
      Trio(structured_output_worker, StructuredOutputWorkflow, structured_output_starter),
    tools |-> Trio(genai_tools_worker, ToolsWorkflow, genai_tools_starter),
    vertex_ai |-> Trio(vertex_ai_worker, VertexAIWorkflow, vertex_ai_starter)])
  @@ In("google_adk_agents", [
    agent_patterns |-> Trio(patterns_worker, MultiAgentWorkflow, patterns_starter),
    basic |-> Trio(basic_worker, HelloWorldAgentWorkflow, basic_starter),
    chatbot |-> Trio(chatbot_worker, ChatbotAgentWorkflow, chatbot_starter),
    mcp |-> Trio(adk_mcp_worker, EchoMcpWorkflow, echo_starter),
    streaming |-> Trio(adk_streaming_worker, StreamingAgentWorkflow, adk_streaming_starter),
    tools |-> Trio(adk_tools_worker, WeatherAgentWorkflow, weather_starter)])
=============================================================================
