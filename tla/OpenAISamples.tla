---------------------------- MODULE OpenAISamples ----------------------------
(***************************************************************************)
(* openai_agents/: agents of the OpenAI Agents SDK.  The plugin registers  *)
(* the model activity with every worker and the activities of the MCP      *)
(* servers and sandboxes it is given, under the provider's name.           *)
(***************************************************************************)
EXTENDS Flows, TLC

AgentsWorker(q, W, A) == Worker(q, W, A \cup {"model"})

-----------------------------------------------------------------------------
(* basic/ *)
basic_queue == "openai-agents-basic-task-queue"
basic_run_worker ==
  AgentsWorker(basic_queue,
    {"HelloWorldAgent", "ToolsWorkflow", "AgentLifecycleWorkflow", "DynamicSystemPromptWorkflow",
     "NonStrictOutputWorkflow", "LocalImageWorkflow", "RemoteImageWorkflow", "LifecycleWorkflow",
     "PreviousResponseIdWorkflow"},
    {"get_weather", "multiply_by_two", "random_number", "read_image_as_base64"})

get_weather          == Tool("get_weather")
read_image_as_base64 == Tool("read_image_as_base64")

HelloWorldAgent             == [run |-> Agent({})]
ToolsWorkflow               == [run |-> Agent({get_weather})]
AgentLifecycleWorkflow      == [run |-> Agent({Local})]
DynamicSystemPromptWorkflow == [run |-> Agent({})]
LocalImageWorkflow          == [run |-> read_image_as_base64 \o Agent({})]
RemoteImageWorkflow         == [run |-> Agent({})]
LifecycleWorkflow           == [run |-> Agent({Local})]
PreviousResponseIdWorkflow  == [run |-> Agent({}) \o Agent({})]

\* The strict schema is refused before the model is called; the two other schemas may be
\* met by the answer or not.  Every outcome is caught and reported.
NonStrictOutputWorkflow ==
  [run |-> <<Try(<<Either({<<Raise>>, Model})>>, <<>>), Try(Model \o <<Maybe(<<Raise>>)>>, <<>>)>>]

BasicClasses == [
  HelloWorldAgent |-> HelloWorldAgent, ToolsWorkflow |-> ToolsWorkflow,
  AgentLifecycleWorkflow |-> AgentLifecycleWorkflow,
  DynamicSystemPromptWorkflow |-> DynamicSystemPromptWorkflow,
  NonStrictOutputWorkflow |-> NonStrictOutputWorkflow, LocalImageWorkflow |-> LocalImageWorkflow,
  RemoteImageWorkflow |-> RemoteImageWorkflow, LifecycleWorkflow |-> LifecycleWorkflow,
  PreviousResponseIdWorkflow |-> PreviousResponseIdWorkflow]

run_hello_world_workflow           == Exec(basic_queue, "HelloWorldAgent")
run_tools_workflow                 == Exec(basic_queue, "ToolsWorkflow")
run_agent_lifecycle_workflow       == Exec(basic_queue, "AgentLifecycleWorkflow")
run_dynamic_system_prompt_workflow ==
  Exec(basic_queue, "DynamicSystemPromptWorkflow") \o Exec(basic_queue, "DynamicSystemPromptWorkflow")
run_non_strict_output_workflow     == Exec(basic_queue, "NonStrictOutputWorkflow")
run_local_image_workflow           == Exec(basic_queue, "LocalImageWorkflow")
run_remote_image_workflow          == Exec(basic_queue, "RemoteImageWorkflow")
run_lifecycle_workflow             == Exec(basic_queue, "LifecycleWorkflow")
run_previous_response_id_workflow  == Exec(basic_queue, "PreviousResponseIdWorkflow")

Basic == Each("openai_agents/basic", {basic_run_worker}, BasicClasses, [
  hello_world |-> run_hello_world_workflow, tools |-> run_tools_workflow,
  agent_lifecycle |-> run_agent_lifecycle_workflow,
  dynamic_system_prompt |-> run_dynamic_system_prompt_workflow,
  non_strict_output |-> run_non_strict_output_workflow, local_image |-> run_local_image_workflow,
  remote_image |-> run_remote_image_workflow, lifecycle |-> run_lifecycle_workflow,
  previous_response_id |-> run_previous_response_id_workflow])

-----------------------------------------------------------------------------
(* agent_patterns/ *)
patterns_queue == "openai-agents-patterns-task-queue"
patterns_run_worker ==
  AgentsWorker(patterns_queue,
    {"AgentsAsToolsWorkflow", "DeterministicWorkflow", "ParallelizationWorkflow", "LLMAsAJudgeWorkflow",
     "ForcingToolUseWorkflow", "InputGuardrailsWorkflow", "OutputGuardrailsWorkflow", "RoutingWorkflow"}, {})

\* The orchestrator's tools are agents.
AgentsAsToolsWorkflow  == [run |-> Agent({Model}) \o Model]
\* The outline's checker may stop the story.
DeterministicWorkflow  == [run |-> Model \o Model \o <<Maybe(Model)>>]
ParallelizationWorkflow == [run |-> <<All(<<Model, Model, Model>>)>> \o Model]
\* The outline is rewritten until the judge lets it pass.
LLMAsAJudgeWorkflow    == [run |-> Model \o Model \o <<UpTo(MaxTurns, Model \o Model)>>]
\* With the default behaviour the model sees the tool's output; the other two stop there.
ForcingToolUseWorkflow == [run |-> <<Either({Agent({Local}), Model})>>]
\* The guardrail is an agent beside the first call of the model, which it may trip.
InputGuardrailsWorkflow ==
  [run |-> <<Try(<<All(<<Agent({Local}), Model \o <<Maybe(<<Raise>>)>> >>)>>, <<>>)>>]
OutputGuardrailsWorkflow == [run |-> <<Try(Model \o <<Maybe(<<Raise>>)>>, <<>>)>>]
\* The triage agent hands off to an agent of the language.
RoutingWorkflow        == [run |-> Agent({Local})]

PatternsClasses == [
  AgentsAsToolsWorkflow |-> AgentsAsToolsWorkflow, DeterministicWorkflow |-> DeterministicWorkflow,
  ParallelizationWorkflow |-> ParallelizationWorkflow, LLMAsAJudgeWorkflow |-> LLMAsAJudgeWorkflow,
  ForcingToolUseWorkflow |-> ForcingToolUseWorkflow, InputGuardrailsWorkflow |-> InputGuardrailsWorkflow,
  OutputGuardrailsWorkflow |-> OutputGuardrailsWorkflow, RoutingWorkflow |-> RoutingWorkflow]

run_agents_as_tools_workflow   == Exec(patterns_queue, "AgentsAsToolsWorkflow")
run_deterministic_workflow     == Exec(patterns_queue, "DeterministicWorkflow")
run_parallelization_workflow   == Exec(patterns_queue, "ParallelizationWorkflow")
run_llm_as_a_judge_workflow    == Exec(patterns_queue, "LLMAsAJudgeWorkflow")
run_forcing_tool_use_workflow  ==
  LET one == Exec(patterns_queue, "ForcingToolUseWorkflow") IN one \o one \o one
run_input_guardrails_workflow  ==
  Exec(patterns_queue, "InputGuardrailsWorkflow") \o Exec(patterns_queue, "InputGuardrailsWorkflow")
run_output_guardrails_workflow ==
  Exec(patterns_queue, "OutputGuardrailsWorkflow") \o Exec(patterns_queue, "OutputGuardrailsWorkflow")
run_routing_workflow           == Exec(patterns_queue, "RoutingWorkflow")

Patterns == Each("openai_agents/agent_patterns", {patterns_run_worker}, PatternsClasses, [
  agents_as_tools |-> run_agents_as_tools_workflow, deterministic |-> run_deterministic_workflow,
  parallelization |-> run_parallelization_workflow, llm_as_a_judge |-> run_llm_as_a_judge_workflow,
  forcing_tool_use |-> run_forcing_tool_use_workflow, input_guardrails |-> run_input_guardrails_workflow,
  output_guardrails |-> run_output_guardrails_workflow, routing |-> run_routing_workflow])

-----------------------------------------------------------------------------
(* tools/, hosted_mcp/: tools that the model's provider runs. *)
tools_queue == "openai-agents-tools-task-queue"
tools_run_worker ==
  AgentsWorker(tools_queue, {"CodeInterpreterWorkflow", "FileSearchWorkflow", "ImageGeneratorWorkflow",
                             "WebSearchWorkflow"}, {})
CodeInterpreterWorkflow == [run |-> Agent({})]
FileSearchWorkflow      == [run |-> Agent({})]
ImageGeneratorWorkflow  == [run |-> Agent({})]
WebSearchWorkflow       == [run |-> Agent({})]
run_code_interpreter_workflow == Exec(tools_queue, "CodeInterpreterWorkflow")
run_file_search_workflow      == Exec(tools_queue, "FileSearchWorkflow")
run_image_generator_workflow  == Exec(tools_queue, "ImageGeneratorWorkflow")
run_web_search_workflow       == Exec(tools_queue, "WebSearchWorkflow")
HostedTools == Each("openai_agents/tools", {tools_run_worker},
  [CodeInterpreterWorkflow |-> CodeInterpreterWorkflow, FileSearchWorkflow |-> FileSearchWorkflow,
   ImageGeneratorWorkflow |-> ImageGeneratorWorkflow, WebSearchWorkflow |-> WebSearchWorkflow],
  [code_interpreter |-> run_code_interpreter_workflow, file_search |-> run_file_search_workflow,
   image_generator |-> run_image_generator_workflow, web_search |-> run_web_search_workflow])

hosted_mcp_queue == "openai-agents-hosted-mcp-task-queue"
hosted_mcp_run_worker == AgentsWorker(hosted_mcp_queue, {"SimpleMCPWorkflow", "ApprovalMCPWorkflow"}, {})
SimpleMCPWorkflow   == [run |-> Agent({})]
\* The approval callback is a function of the workflow.
ApprovalMCPWorkflow == [run |-> Agent({Local})]
run_simple_mcp_workflow   == Exec(hosted_mcp_queue, "SimpleMCPWorkflow")
run_approval_mcp_workflow == Exec(hosted_mcp_queue, "ApprovalMCPWorkflow")
HostedMCP == Each("openai_agents/hosted_mcp", {hosted_mcp_run_worker},
  [SimpleMCPWorkflow |-> SimpleMCPWorkflow, ApprovalMCPWorkflow |-> ApprovalMCPWorkflow],
  [simple |-> run_simple_mcp_workflow, approval |-> run_approval_mcp_workflow])

-----------------------------------------------------------------------------
(* mcp/: servers by the provider's name, which the workflow must use too.  *)
WithServer(server) == Agent({Tool(server)})

run_file_system_worker ==
  AgentsWorker("openai-agents-mcp-filesystem-task-queue", {"FileSystemWorkflow"}, {"FileSystemServer"})
FileSystemWorkflow ==
  [run |-> LET turn == WithServer("FileSystemServer") IN turn \o turn \o turn]
run_file_system_workflow == Exec("openai-agents-mcp-filesystem-task-queue", "FileSystemWorkflow")

\* A stateful server: the workflow opens a session, and closes it whatever happens.
run_memory_research_scratchpad_worker ==
  AgentsWorker("openai-agents-mcp-memory-task-queue", {"MemoryResearchScratchpadWorkflow"}, {"MemoryServer"})
MemoryResearchScratchpadWorkflow ==
  [run |-> LET turn == WithServer("MemoryServer") IN
           Tool("MemoryServer") \o Finally(turn \o turn \o turn \o turn, Tool("MemoryServer"))]
run_memory_research_scratchpad_workflow ==
  Exec("openai-agents-mcp-memory-task-queue", "MemoryResearchScratchpadWorkflow")

\* The instructions are a prompt of the server, or built in when it has none.
run_prompt_server_worker ==
  AgentsWorker("openai-agents-mcp-prompt-task-queue", {"PromptServerWorkflow"}, {"PromptServer"})
PromptServerWorkflow ==
  [run |-> Tool("PromptServer") \o <<Try(Tool("PromptServer") \o <<Maybe(<<Raise>>)>>, <<>>)>>
           \o Agent({})]
run_prompt_server_workflow == Exec("openai-agents-mcp-prompt-task-queue", "PromptServerWorkflow")

run_sse_worker == AgentsWorker("openai-agents-mcp-sse-task-queue", {"SseWorkflow"}, {"SseServer"})
SseWorkflow == [run |-> LET turn == WithServer("SseServer") IN turn \o turn \o turn]
run_sse_workflow == Exec("openai-agents-mcp-sse-task-queue", "SseWorkflow")

run_streamable_http_worker ==
  AgentsWorker("openai-agents-mcp-streamable-http-task-queue", {"StreamableHttpWorkflow"},
               {"StreamableHttpServer"})
StreamableHttpWorkflow ==
  [run |-> LET turn == WithServer("StreamableHttpServer") IN turn \o turn \o turn]
run_streamable_http_workflow ==
  Exec("openai-agents-mcp-streamable-http-task-queue", "StreamableHttpWorkflow")

MCP == In("openai_agents/mcp", [
  file_system |-> Trio(run_file_system_worker, FileSystemWorkflow, run_file_system_workflow),
  memory |-> Trio(run_memory_research_scratchpad_worker, MemoryResearchScratchpadWorkflow,
                  run_memory_research_scratchpad_workflow),
  prompt_server |-> Trio(run_prompt_server_worker, PromptServerWorkflow, run_prompt_server_workflow),
  sse |-> Trio(run_sse_worker, SseWorkflow, run_sse_workflow),
  streamable_http |->
    Trio(run_streamable_http_worker, StreamableHttpWorkflow, run_streamable_http_workflow)])
-----------------------------------------------------------------------------
(* One worker and one workflow each.                                       *)

\* handoffs/: the second run starts from the first one's messages; a handoff filters them.
handoffs_run_worker == AgentsWorker("openai-agents-handoffs-task-queue", {"MessageFilterWorkflow"}, {})
MessageFilterWorkflow ==
  [run |-> Agent({Local}) \o Agent({Local}) \o Agent({Local}) \o Agent({Local})]
run_message_filter_workflow == Exec("openai-agents-handoffs-task-queue", "MessageFilterWorkflow")

\* Searches run at a time; one that fails is left out of the report.
Searches == <<All([search \in 1..2 |-> <<Try(Model \o <<Maybe(<<Raise>>)>>, <<>>)>>])>>

\* financial_research_agent/: plan, search, write with two analysts as tools, verify.
financial_run_worker == AgentsWorker("financial-research-task-queue", {"FinancialResearchWorkflow"}, {})
new_planner_agent    == Agent({})
new_search_agent     == Searches
new_financials_agent == Agent({})
new_risk_agent       == Agent({})
new_writer_agent     == Agent({new_financials_agent, new_risk_agent})
new_verifier_agent   == Agent({})
FinancialResearchManager ==
  new_planner_agent \o new_search_agent \o new_writer_agent \o new_verifier_agent
FinancialResearchWorkflow == [run |-> FinancialResearchManager]
run_financial_research_workflow == Exec("financial-research-task-queue", "FinancialResearchWorkflow")

\* research_bot/
research_run_worker == AgentsWorker("openai-agents-task-queue", {"ResearchWorkflow"}, {})
research_planner == Agent({})
research_search  == Searches
research_writer  == Agent({})
ResearchManager  == research_planner \o research_search \o research_writer
ResearchWorkflow == [run |-> ResearchManager]
run_research_workflow == Exec("openai-agents-task-queue", "ResearchWorkflow")

\* customer_service/: a conversation that never ends.  The client starts the workflow when
\* its query finds none open; each of its messages is an update, and one that is refused
\* makes it read the history again.  The tools and handoffs are the workflow's own.
customer_service_run_worker == AgentsWorker("openai-agents-task-queue", {"CustomerServiceWorkflow"}, {})
init_agents == Agent({Local})
CustomerServiceWorkflow ==
  [run |-> <<FinishedAgain(2, {}, {}), Forever>>, process_user_message |-> init_agents,
   get_chat_history |-> <<>>]
run_customer_service_client ==
  LET w == "CustomerServiceWorkflow" IN
  <<Try(<<Query(w, "get_chat_history")>>, <<Start("openai-agents-task-queue", w)>>),
    UpTo(2, <<Try(<<Update(w, "process_user_message")>>, <<Query(w, "get_chat_history")>>)>>), Forever>>

\* model_providers/: two workers with different models on one queue, never run together.
model_providers_queue == "openai-agents-model-providers-task-queue"
run_gpt_oss_worker          == AgentsWorker(model_providers_queue, {"GptOssWorkflow"}, {})
run_litellm_provider_worker == AgentsWorker(model_providers_queue, {"LitellmAutoWorkflow"}, {})
GptOssWorkflow      == [run |-> Agent({Local})]
LitellmAutoWorkflow == [run |-> Agent({Local})]
run_gpt_oss_workflow      == Exec(model_providers_queue, "GptOssWorkflow")
run_litellm_auto_workflow == Exec(model_providers_queue, "LitellmAutoWorkflow")

\* reasoning_content/: the activity calls the model itself.
reasoning_run_worker ==
  AgentsWorker("reasoning-content-task-queue", {"ReasoningContentWorkflow"}, {"get_reasoning_response"})
get_reasoning_response   == Tool("get_reasoning_response")
ReasoningContentWorkflow == [run |-> get_reasoning_response]
run_reasoning_content_workflow ==
  LET one == Exec("reasoning-content-task-queue", "ReasoningContentWorkflow") IN one \o one \o one

\* sandbox/: the worker and the workflow share the names in shared.py.
TASK_QUEUE == "openai-agents-sandbox-task-queue"
SANDBOX_PROVIDER_NAME == "local"
sandbox_run_worker   == AgentsWorker(TASK_QUEUE, {"LocalSandboxWorkflow"}, {SANDBOX_PROVIDER_NAME})
LocalSandboxWorkflow == [run |-> Agent({Tool(SANDBOX_PROVIDER_NAME)})]
run_local_sandbox_workflow == Exec(TASK_QUEUE, "LocalSandboxWorkflow")

\* streaming/: the starter reads the stream up to the done marker, and then the result.
\* The workflow stays a while after the marker so that readers can get it.
streaming_queue == "openai-agents-streaming-task-queue"
streaming_run_worker ==
  AgentsWorker(streaming_queue, {"StreamTextWorkflow", "StreamItemsWorkflow"}, {"how_many_jokes"})
how_many_jokes == Tool("how_many_jokes")
StreamTextWorkflow  == [run |-> Agent({}) \o <<Set("done"), Sleep>>]
StreamItemsWorkflow == [run |-> Agent({how_many_jokes}) \o <<Set("done"), Sleep>>]
run_stream_text_workflow ==
  <<Start(streaming_queue, "StreamTextWorkflow"), Poll("StreamTextWorkflow", "done"),
    Result("StreamTextWorkflow")>>
run_stream_items_workflow ==
  <<Start(streaming_queue, "StreamItemsWorkflow"), Poll("StreamItemsWorkflow", "done"),
    Result("StreamItemsWorkflow")>>
Streaming == Each("openai_agents/streaming", {streaming_run_worker},
  [StreamTextWorkflow |-> StreamTextWorkflow, StreamItemsWorkflow |-> StreamItemsWorkflow],
  [text |-> run_stream_text_workflow, items |-> run_stream_items_workflow])

Single == In("openai_agents", [
  handoffs |-> Trio(handoffs_run_worker, MessageFilterWorkflow, run_message_filter_workflow),
  financial_research |->
    Trio(financial_run_worker, FinancialResearchWorkflow, run_financial_research_workflow),
  research_bot |-> Trio(research_run_worker, ResearchWorkflow, run_research_workflow),
  customer_service |->
    Trio(customer_service_run_worker, CustomerServiceWorkflow, run_customer_service_client),
  gpt_oss |-> Trio(run_gpt_oss_worker, GptOssWorkflow, run_gpt_oss_workflow),
  litellm_auto |-> Trio(run_litellm_provider_worker, LitellmAutoWorkflow, run_litellm_auto_workflow),
  reasoning |-> Trio(reasoning_run_worker, ReasoningContentWorkflow, run_reasoning_content_workflow),
  sandbox |-> Trio(sandbox_run_worker, LocalSandboxWorkflow, run_local_sandbox_workflow)])

Table == Basic @@ Patterns @@ HostedTools @@ HostedMCP @@ MCP @@ Streaming @@ Single
=============================================================================
