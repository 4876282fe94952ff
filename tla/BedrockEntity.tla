---------------------------- MODULE BedrockEntity ----------------------------
(***************************************************************************)
(* bedrock/entity: the EntityBedrockWorkflow, a chat that answers prompts  *)
(* one at a time, each in the context of the conversation so far, and      *)
(* after a number of turns continues as new with a summary and the prompts *)
(* still queued.                                                           *)
(*                                                                         *)
(* Signals that arrive before the first task of a run are handled on the   *)
(* new workflow object before its run method starts ("begin").  A run that *)
(* continues as new with a signal pending is asked again with the signal,  *)
(* so signals fall before or after, never between.                         *)
(*                                                                         *)
(* A text is the set of prompts it reflects: an entry of the history is    *)
(* its prompt, a summary is all that it was made of (Bedrock's answers are *)
(* not empty).  An activity that fails for 20 seconds fails the workflow.  *)
(***************************************************************************)
EXTENDS Naturals, Sequences, FiniteSets

CONSTANTS
  MaxPrompts,        \* prompts the users send
  ContinueAfter      \* continue_as_new_per_turns (6)

VARIABLES
  pc,
  params_summary, params_queue,     \* BedrockParams
  conversation_history, prompt_queue, conversation_summary, chat_ended,  \* the object
  prompt,            \* local variable of run
  sent,              \* the prompts signalled so far are 1..sent
  end_sent,          \* somebody has signalled end_chat
  dropped, answered  \* history: prompts refused, prompts answered

params == <<params_summary, params_queue>>
object == <<conversation_history, prompt_queue, conversation_summary, chat_ended>>
clients == <<sent, end_sent, dropped>>
vars == <<pc, params, object, prompt, clients, answered>>

Prompts == 1..MaxPrompts
Entries(s) == {s[i] : i \in 1..Len(s)}
Context == UNION Entries(conversation_history)

Closed == pc \in {"completed", "failed"}

Init ==
  /\ pc = "begin"
  /\ params_summary = {} /\ params_queue = <<>>
  /\ conversation_history = <<>> /\ prompt_queue = <<>>
  /\ conversation_summary = {} /\ chat_ended = FALSE
  /\ prompt = 0
  /\ sent = 0 /\ end_sent = FALSE /\ dropped = {} /\ answered = {}
-----------------------------------------------------------------------------
(* Signals.                                                                *)

UserPrompt ==
  /\ ~Closed /\ sent < MaxPrompts /\ sent' = sent + 1
  /\ \/ /\ chat_ended
        /\ dropped' = dropped \cup {sent + 1} /\ prompt_queue' = prompt_queue
     \/ /\ ~chat_ended
        /\ prompt_queue' = Append(prompt_queue, sent + 1) /\ dropped' = dropped
  /\ UNCHANGED <<pc, params, conversation_history, conversation_summary, chat_ended, prompt,
                 end_sent, answered>>

EndChat ==
  /\ ~Closed /\ end_sent' = TRUE
  /\ chat_ended' = TRUE
  /\ UNCHANGED <<pc, params, conversation_history, prompt_queue, conversation_summary, prompt,
                 sent, dropped, answered>>
-----------------------------------------------------------------------------
(* The run method.                                                         *)

\* Takes over the summary and the prompts of the previous run.
TakeOverNoQueue(summary, queue) ==   \* mutant: the queue is not taken over
  /\ conversation_summary' = summary
  /\ conversation_history' = IF summary = {} THEN <<>> ELSE <<summary>>
  /\ prompt_queue' = prompt_queue
TakeOver(summary, queue) ==
  /\ conversation_summary' = summary
  /\ conversation_history' = IF summary = {} THEN <<>> ELSE <<summary>>
  /\ prompt_queue' = prompt_queue \o queue
Begin ==
  /\ pc = "begin" /\ pc' = "waiting"
  /\ TakeOver(params_summary, params_queue)
  /\ UNCHANGED <<params, chat_ended, prompt, clients, answered>>

\* The next prompt goes to Bedrock, with the history.
TakePrompt ==
  /\ pc = "waiting" /\ prompt_queue # <<>> /\ pc' = "prompting"
  /\ prompt' = Head(prompt_queue)
  /\ prompt_queue' = Tail(prompt_queue)
  /\ conversation_history' = Append(conversation_history, {Head(prompt_queue)})
  /\ UNCHANGED <<params, conversation_summary, chat_ended, clients, answered>>

\* Bedrock has answered; after enough turns, a summary is asked for.
TurnsOver(h) == Len(h) >= ContinueAfter
Answered ==
  /\ pc = "prompting"
  /\ conversation_history' = Append(conversation_history, {prompt})
  /\ answered' = answered \cup {prompt}
  /\ prompt' = 0
  /\ pc' = IF TurnsOver(conversation_history') THEN "summarizing" ELSE "waiting"
  /\ UNCHANGED <<params, prompt_queue, conversation_summary, chat_ended, clients>>

\* The summary is there: continue_as_new, on a new workflow object.
Summarize == Context
ContinueAsNew ==
  /\ pc = "summarizing" /\ pc' = "begin"
  /\ params_summary' = Summarize /\ params_queue' = prompt_queue
  /\ conversation_history' = <<>> /\ prompt_queue' = <<>>
  /\ conversation_summary' = {} /\ chat_ended' = FALSE
  /\ UNCHANGED <<prompt, clients, answered>>

\* The chat has ended and no prompt is queued: a last summary, unless there is
\* nothing but the previous one.
Close ==
  /\ pc = "waiting" /\ prompt_queue = <<>> /\ chat_ended
  /\ pc' = IF Len(conversation_history) > 1 THEN "closing" ELSE "completed"
  /\ UNCHANGED <<params, object, prompt, clients, answered>>

Complete ==
  /\ pc = "closing" /\ pc' = "completed"
  /\ conversation_summary' = Summarize
  /\ UNCHANGED <<params, conversation_history, prompt_queue, chat_ended, prompt, clients, answered>>

\* An activity's schedule_to_close_timeout passes.
Fail ==
  /\ pc \in {"prompting", "summarizing", "closing"} /\ pc' = "failed"
  /\ UNCHANGED <<params, object, prompt, clients, answered>>

Terminated == Closed /\ UNCHANGED vars
-----------------------------------------------------------------------------
Run == Begin \/ TakePrompt \/ Answered \/ ContinueAsNew \/ Close \/ Complete

Next == Run \/ UserPrompt \/ EndChat \/ Fail \/ Terminated

Spec == Init /\ [][Next]_vars

\* The server drives an open workflow; nobody has to send anything.
FairSpec == Spec /\ WF_vars(Run)
-----------------------------------------------------------------------------
(* Correctness.                                                            *)

\* A prompt is in one place at a time: refused, answered, being answered, queued,
\* or on its way to the next run.  None is lost or answered twice, whatever was
\* signalled around a continue-as-new.
EachPromptOnce ==
  LET queued  == Entries(prompt_queue)
      carried == IF pc = "begin" THEN Entries(params_queue) ELSE {}
      current == IF pc = "prompting" THEN {prompt} ELSE {}
      places  == <<dropped, answered, current, queued, carried>>
  IN /\ UNION Entries(places) = 1..sent \/ pc = "failed"
     /\ \A i, k \in 1..5 : i # k => places[i] \cap places[k] = {}
     /\ Cardinality(queued) = Len(prompt_queue)

\* Each prompt is answered in the context of all the prompts answered before it,
\* by whatever run ("each continued-as-new workflow receives a summary of the
\* conversation history so far"); a chat that was ended has answered every prompt
\* it accepted, and its last summary reflects them all.
ContextComplete ==
  /\ answered \subseteq IF pc = "begin" THEN params_summary ELSE Context
  /\ pc = "completed" => /\ answered = 1..sent \ dropped
                         /\ answered \subseteq conversation_summary

\* Both: no prompt gets lost, and none is answered out of its context.
PromptsInContext == EachPromptOnce /\ ContextComplete

\* Again and again all the prompts that were sent are answered or refused, unless
\* Bedrock fails: no prompt waits for ever, in the queue or between two runs.
AcceptedPromptsAnswered ==
  []<>(pc = "failed" \/ \A p \in 1..sent : p \in answered \cup dropped)

\* README: the workflow runs until it is "explicitly ended" with end_chat.
\* Violated: continue-as-new does not pass chat_ended on.
EndChatEnds == end_sent ~> Closed
=============================================================================
