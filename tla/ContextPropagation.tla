-------------------------- MODULE ContextPropagation --------------------------
(***************************************************************************)
(* context_propagation/: interceptors that carry the user of a call in a   *)
(* header: outbound it is taken from the context variable user_id, inbound *)
(* user_id is set to it for the time of the handler.  A worker runs the    *)
(* tasks of many workflows, handlers and activities side by side; asyncio  *)
(* gives each of them a context of its own (external).                     *)
(***************************************************************************)
EXTENDS Naturals, Sequences, FiniteSets, TLC

CONSTANTS
  Users, NoUser,     \* the callers; NoUser is a client that has not set user_id
  Greetings,         \* workflow ids
  MaxAttempts        \* bound on the attempts of an activity

VARIABLES
  user_id,           \* the variable in each context
  headers,           \* the user in the headers of each task's input, NoUser if none
  token,             \* what user_id was before a handler set it
  task,              \* where each task is
  is_complete,       \* _complete of each workflow object
  tries,             \* attempts of each workflow's activity
  caller,            \* who started or signalled, NoUser before
  logged             \* the users each task has logged
vars == <<user_id, headers, token, task, is_complete, tries, caller, logged>>

Run(w)      == <<w, "run">>
Handler(w)  == <<w, "signal_complete">>
Activity(w) == <<w, "say_hello_activity">>
Tasks == Greetings \X {"run", "signal_complete", "say_hello_activity"}
Worker == <<"worker", "main">>

\* The context a task runs in.
WorkerContext(t) == Worker       \* mutant: a global variable of the worker's process
Context(t) == t

Init ==
  /\ user_id = [c \in Tasks \cup {Worker} |-> NoUser]
  /\ headers = [t \in Tasks |-> NoUser]
  /\ token = [t \in Tasks |-> <<>>]
  /\ task = [t \in Tasks |-> "none"]
  /\ is_complete = [w \in Greetings |-> FALSE]
  /\ tries = [w \in Greetings |-> 0]
  /\ caller = [t \in Tasks |-> NoUser]
  /\ logged = [t \in Tasks |-> {}]

\* Outbound: the header is set if there is a user.
set_header_from_context(t, user) == headers' = [headers EXCEPT ![t] = user]

\* Inbound: user_id is set if there is a header, and reset to what it was in the end.
Enter(t) ==
  IF headers[t] = NoUser THEN UNCHANGED <<user_id, token>>
  ELSE /\ token' = [token EXCEPT ![t] = <<user_id[Context(t)]>>]
       /\ user_id' = [user_id EXCEPT ![Context(t)] = headers[t]]
Leave(t) ==
  IF token[t] = <<>> THEN UNCHANGED <<user_id, token>>
  ELSE /\ user_id' = [user_id EXCEPT ![Context(t)] = token[t][1]]
       /\ token' = [token EXCEPT ![t] = <<>>]
Log(t, user) == logged' = [logged EXCEPT ![t] = @ \cup {user}]
UserNow(t) == user_id'[Context(t)]

Become(t, s) == task' = [task EXCEPT ![t] = s]

\* client.start_workflow and handle.signal, by whoever has the handle.
start_workflow(u, w) ==
  /\ task[Run(w)] = "none" /\ Become(Run(w), "queued")
  /\ set_header_from_context(Run(w), u) /\ caller' = [caller EXCEPT ![Run(w)] = u]
  /\ UNCHANGED <<user_id, token, is_complete, tries, logged>>
signal_workflow(u, w) ==
  /\ task[Run(w)] # "none" /\ task[Handler(w)] = "none" /\ Become(Handler(w), "queued")
  /\ set_header_from_context(Handler(w), u) /\ caller' = [caller EXCEPT ![Handler(w)] = u]
  /\ UNCHANGED <<user_id, token, is_complete, tries, logged>>

\* The run method up to its wait, and the signal handler.
execute_workflow(w) ==
  /\ task[Run(w)] = "queued" /\ Become(Run(w), "waiting")
  /\ Enter(Run(w)) /\ Log(Run(w), UserNow(Run(w)))
  /\ UNCHANGED <<headers, is_complete, tries, caller>>
handle_signal(w) ==
  /\ task[Handler(w)] = "queued" /\ Become(Handler(w), "handling")
  /\ Enter(Handler(w)) /\ Log(Handler(w), UserNow(Handler(w)))
  /\ is_complete' = [is_complete EXCEPT ![w] = TRUE]
  /\ UNCHANGED <<headers, tries, caller>>
SignalHandled(w) ==
  /\ task[Handler(w)] = "handling" /\ Become(Handler(w), "done")
  /\ Leave(Handler(w)) /\ UNCHANGED <<headers, is_complete, tries, caller, logged>>

\* The run method after its wait.
start_activity(w) ==
  /\ task[Run(w)] = "waiting" /\ is_complete[w]
  /\ task' = [task EXCEPT ![Run(w)] = "executing", ![Activity(w)] = "queued"]
  /\ set_header_from_context(Activity(w), user_id[Context(Run(w))])
  /\ UNCHANGED <<user_id, token, is_complete, tries, caller, logged>>

\* An attempt begins, and ends; it may have to be made again.
execute_activity(w) ==
  /\ task[Activity(w)] = "queued" /\ Become(Activity(w), "running")
  /\ Enter(Activity(w)) /\ Log(Activity(w), UserNow(Activity(w)))
  /\ tries' = [tries EXCEPT ![w] = @ + 1]
  /\ UNCHANGED <<headers, is_complete, caller>>
ActivityEnds(w) ==
  /\ task[Activity(w)] = "running" /\ Leave(Activity(w))
  /\ \/ Become(Activity(w), "done")
     \/ tries[w] < MaxAttempts /\ Become(Activity(w), "queued")
  /\ UNCHANGED <<headers, is_complete, tries, caller, logged>>

Return(w) ==
  /\ task[Run(w)] = "executing" /\ task[Activity(w)] = "done" /\ Become(Run(w), "done")
  /\ Leave(Run(w)) /\ UNCHANGED <<headers, is_complete, tries, caller, logged>>

Terminated == (\A w \in Greetings : task[Run(w)] = "done") /\ UNCHANGED vars
Next ==
  \/ \E w \in Greetings, u \in Users \cup {NoUser} : start_workflow(u, w) \/ signal_workflow(u, w)
  \/ \E w \in Greetings :
       \/ execute_workflow(w) \/ handle_signal(w) \/ SignalHandled(w)
       \/ start_activity(w) \/ execute_activity(w) \/ ActivityEnds(w) \/ Return(w)
  \/ Terminated

Spec == Init /\ [][Next]_vars
-----------------------------------------------------------------------------
\* ContextPropagationInterceptor: what a workflow and a signal handler log is the user who
\* called them; what the activity logs, in every attempt, is the user who started the
\* workflow, though another one's signal let it go on; and a task that has ended has left
\* no user behind.
UserOfCall ==
  \A w \in Greetings :
    /\ logged[Run(w)] \subseteq {caller[Run(w)]}
    /\ logged[Handler(w)] \subseteq {caller[Handler(w)]}
    /\ logged[Activity(w)] \subseteq {caller[Run(w)]}
    /\ \A t \in {Run(w), Handler(w), Activity(w)} : task[t] = "done" => user_id[Context(t)] = NoUser
=============================================================================
