----------------------------- MODULE MCChatbot -----------------------------
EXTENDS Chatbot, TLC

Symmetric == Permutations(Messages) \cup Permutations(Names)
=============================================================================
