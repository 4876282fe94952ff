------------------------------ MODULE Catalogue ------------------------------
(***************************************************************************)
(* Every sample of the repository that is deployed as workers and starters.*)
(***************************************************************************)
EXTENDS TLC

Hello == INSTANCE HelloSamples

Strands == INSTANCE StrandsSamples

OpenAI == INSTANCE OpenAISamples

Nexus_ == INSTANCE NexusSamples

Core == INSTANCE CoreSamples

LangGraph == INSTANCE LangGraphSamples

Google == INSTANCE GoogleSamples

DeepAgents == INSTANCE DeepAgentsSamples

Others == INSTANCE OtherSamples

AllSamples ==
  Hello!Table @@ Strands!Table @@ OpenAI!Table @@ Nexus_!Table @@ Core!Table
    @@ LangGraph!Table @@ Google!Table @@ DeepAgents!Table @@ Others!Table
=============================================================================
