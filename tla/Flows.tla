-------------------------------- MODULE Flows --------------------------------
(***************************************************************************)
(* The notation in which the samples' programs are written down.           *)
(*                                                                         *)
(* A flow is a sequence of steps, the control of a method of a workflow    *)
(* class or of the main function of a script: what it awaits and in which  *)
(* order.  A class is a record of its methods' flows: run, and the signal, *)
(* update and query handlers under their names.  Data is left out: a       *)
(* branch on a value is a choice (Either), a loop over data or over the    *)
(* turns of an agent is UpTo, a flag of the workflow object that a         *)
(* condition waits for is a name.                                          *)
(***************************************************************************)
EXTENDS Naturals, Sequences

\* Activities: on the task queue of the caller, on another one, and one that runs until
\* it is cancelled.
Act(a)      == [do |-> "act", on |-> "", name |-> a]
ActOn(q, a) == [do |-> "act", on |-> q, name |-> a]
Hang(a)     == [do |-> "hang", on |-> "", name |-> a]

\* Operations of a Nexus endpoint.
Nexus(e, o) == [do |-> "nexus", on |-> e, name |-> o]

\* Workflows: start on a queue ("" is the caller's), wait for the result, or both.
Start(q, w) == [do |-> "start", on |-> q, name |-> w]
Result(w)   == [do |-> "result", on |-> "", name |-> w]
Exec(q, w)  == <<Start(q, w), Result(w)>>

\* Messages to method m of workflow w.  An update waits for the handler to return; one
\* that is only started waits until it is accepted, and for the Reply later.
Signal(w, m) == [do |-> "signal", on |-> w, name |-> m]
Update(w, m) == [do |-> "update", on |-> w, name |-> m]
StartUpdate(w, m) == [do |-> "startupdate", on |-> w, name |-> m]
Accepted(w, m) == [do |-> "accepted", on |-> w, name |-> m]
Reply(w, m)  == [do |-> "reply", on |-> w, name |-> m]
Query(w, m)  == [do |-> "query", on |-> w, name |-> m]
Cancel(w)    == [do |-> "cancel", on |-> w, name |-> ""]

\* A client asks again and again until the flag c of workflow w is set, or w has closed.
Poll(w, c)  == [do |-> "poll", on |-> w, name |-> c]

\* Flags of the workflow object: wait for one of them, set one, reset one.
Await(C)    == [do |-> "await", flags |-> C]
Set(c)      == [do |-> "set", flags |-> {c}]
Clear(c)    == [do |-> "clear", flags |-> {c}]

\* all_handlers_finished, a timer, an exception, a wait for what never comes, and
\* continue-as-new unless one of the flags U is set; it hands the flags C on.  The n-th
\* run goes on instead.  The second form waits for the handlers first.
Finished    == [do |-> "finished"]
Sleep       == [do |-> "sleep"]
Raise       == [do |-> "raise"]
Forever     == [do |-> "forever"]
Again(n, U, C) == [do |-> "again", runs |-> n, flags |-> C, unless |-> U, drain |-> FALSE]
FinishedAgain(n, U, C) == [Again(n, U, C) EXCEPT !.drain = TRUE]

\* Control: one of several flows, at most n rounds of one, one or the other by a flag,
\* rounds of one until a flag is set, several at a time until all or one of them end, and
\* a flow with its exception handler.
Either(F)     == [do |-> "either", flows |-> F]
UpTo(n, f)    == [do |-> "upto", runs |-> n, body |-> f]
If(c, f, g)   == [do |-> "if", flags |-> {c}, body |-> f, other |-> g]
Until(c, f)   == [do |-> "until", flags |-> {c}, body |-> f]
All(F)        == [do |-> "all", branches |-> F]
Race(F)       == [do |-> "race", branches |-> F]
Try(f, g)     == [do |-> "try", body |-> f, other |-> g]
Maybe(f)      == Either({<<>>, f})
Times(n, f)   == [i \in 1..(n * Len(f)) |-> f[((i - 1) % Len(f)) + 1]]
Finally(f, g) == <<Try(f, g \o <<Raise>>)>> \o g

\* What the code bounds in attempts or in time: the flow ends, or before that what was
\* bounded fails for good.
GiveUp     == [do |-> "giveup"]
Bounded(f) == <<Race(<<f, <<GiveUp>>>>)>>

\* A flow that an exception has ended.
Failed == <<[do |-> "failed"]>>

\* An agent: a call of the model, then rounds of a tool that the model asks for and
\* another call of the model.  The tools T are flows; a tool that runs in the workflow's
\* process, or a handoff to another agent, is the flow Local.
MaxTurns == 2
Model == <<Act("model")>>
Local == <<>>
Agent(T) == IF T = {} THEN Model ELSE Model \o <<UpTo(MaxTurns, <<Either(T)>> \o Model)>>
Tool(a) == <<Act(a)>>

\* A worker: the queue it polls, the workflow classes and the activities registered with
\* it, the Nexus operations it handles.
Worker(q, W, A)     == [queue |-> q, workflows |-> W, activities |-> A, operations |-> {}]
NexusWorker(q, W, A, O) == [queue |-> q, workflows |-> W, activities |-> A, operations |-> O]

\* A deployment: workers, workflow classes, and the scripts that use them.
Deployed(workers, classes, clients) ==
  [workers |-> workers, classes |-> classes, clients |-> clients,
   endpoints |-> <<>>, operations |-> <<>>]

\* Workers behind Nexus endpoints: the queue of each endpoint, what each operation does.
WithNexus(deployment, endpoints, operations) ==
  [deployment EXCEPT !.endpoints = endpoints, !.operations = operations]

\* A script that runs its own worker for its classes and activities A, and then does `main`.
Script(q, classes, A, main) ==
  Deployed({Worker(q, DOMAIN classes, A)}, classes, [main |-> main])

\* One worker, one class, one starter.
Trio(worker, class, starter) ==
  Deployed({worker}, [w \in worker.workflows |-> class], [run_workflow |-> starter])

\* The samples of a directory: several starters that share its workers, each run by
\* itself; and samples with workers of their own.
Each(dir, workers, classes, starters) ==
  [s \in {dir} \X DOMAIN starters |->
     Deployed(workers, classes, [run_workflow |-> starters[s[2]]])]
In(dir, samples) == [s \in {dir} \X DOMAIN samples |-> samples[s[2]]]
=============================================================================
