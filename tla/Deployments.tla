----------------------------- MODULE Deployments -----------------------------
(***************************************************************************)
(* The samples as they are deployed: worker scripts that poll a task queue *)
(* for the workflows and activities they register, starter scripts that    *)
(* start workflows on a queue and talk to them, and the workflow classes   *)
(* in between.  The three are separate files with separate names for the   *)
(* same things; the tests build workers of their own and run none of the   *)
(* scripts.                                                                *)
(*                                                                         *)
(* This module is the Temporal service and SDK as the samples use them     *)
(* (external): it executes the flows of Flows.tla.  A behaviour is one     *)
(* sample's: `sample` never changes.                                       *)
(***************************************************************************)
EXTENDS Flows, FiniteSets, TLC

CONSTANTS
  Registry              \* for every sample its workers, classes, operations, clients

VARIABLES
  sample,
  flow,              \* what is left of each process: <<workflow, method>> or <<client, "main">>
  queue,             \* the task queue each workflow was started on, "" before
  flags,             \* the flags set in each workflow object
  mail,              \* the messages each workflow has not yet handled, in order
  runs,              \* how often each workflow continued as new
  cancelled,         \* workflows whose cancellation was requested and not yet delivered
  gaveup             \* something bounded in attempts or in time has failed for good

vars == <<sample, flow, queue, flags, mail, runs, cancelled, gaveup>>

D == Registry[sample]
Workflows == DOMAIN D.classes
Clients == DOMAIN D.clients
Main(c) == <<c, "main">>
Run(w) == <<w, "run">>
Methods(w) == {<<w, m>> : m \in DOMAIN D.classes[w]}
Processes == {Main(c) : c \in Clients} \cup UNION {Methods(w) : w \in Workflows}

\* A workflow closes with its run method.
Started(w) == queue[w] # ""
Completed(w) == Started(w) /\ flow[Run(w)] = <<>>
HasFailed(w) == Started(w) /\ flow[Run(w)] = Failed
Open(w) == Started(w) /\ flow[Run(w)] \notin {<<>>, Failed}

Init ==
  /\ sample \in DOMAIN Registry
  /\ flow = [p \in Processes |-> IF p[1] \in Clients THEN D.clients[p[1]] ELSE <<>>]
  /\ queue = [w \in Workflows |-> ""]
  /\ flags = [w \in Workflows |-> {}]
  /\ mail = [w \in Workflows |-> <<>>]
  /\ runs = [w \in Workflows |-> 0]
  /\ cancelled = {}
  /\ gaveup = FALSE
-----------------------------------------------------------------------------
(* What a flow may do next: the first steps of its parallel branches, with *)
(* the flow that is left when the step succeeds and when it raises.        *)

Within(h, i, f) == [h EXCEPT !.branches[i] = f]
Over(h) ==
  \/ h.do = "all" /\ \A i \in DOMAIN h.branches : h.branches[i] = <<>>
  \/ h.do = "race" /\ \E i \in DOMAIN h.branches : h.branches[i] = <<>>
Back(h) == IF Over(h) THEN <<>> ELSE <<h>>

\* What takes the place of a step h that succeeds, with the flags C of the workflow set.
Follow(h, C) ==
  CASE h.do = "either" -> h.flows
    [] h.do = "upto" ->
         {<<>>} \cup IF h.runs = 0 THEN {} ELSE {h.body \o <<UpTo(h.runs - 1, h.body)>>}
    [] h.do = "if" -> {IF h.flags \subseteq C THEN h.body ELSE h.other}
    [] h.do = "until" -> {h.body \o <<If(CHOOSE c \in h.flags : TRUE, <<>>, <<h>>)>>}
    [] h.do = "update" -> {<<Reply(h.on, h.name)>>}
    [] h.do = "startupdate" -> {<<Accepted(h.on, h.name)>>}
    [] h.do = "nexus" -> {D.operations[h.name]}
    [] OTHER -> {<<>>}

RECURSIVE Moves(_, _)
Moves(f, C) ==
  IF f = <<>> \/ f = Failed THEN {} ELSE
  LET h == Head(f)
      t == Tail(f)
  IN IF h.do \in {"all", "race"} THEN
       UNION {{[step |-> m.step,
                then |-> Back(Within(h, i, m.then)) \o t,
                fail |-> IF m.fail = Failed THEN Failed
                         ELSE Back(Within(h, i, m.fail)) \o t]
                 : m \in Moves(h.branches[i], C)} : i \in DOMAIN h.branches}
     ELSE IF h.do = "try" THEN
       {[step |-> m.step,
         then |-> (IF m.then = <<>> THEN <<>> ELSE <<Try(m.then, h.other)>>) \o t,
         fail |-> IF m.fail = Failed THEN h.other \o t
                  ELSE (IF m.fail = <<>> THEN <<>> ELSE <<Try(m.fail, h.other)>>) \o t]
          : m \in Moves(h.body, C)}
     ELSE {[step |-> h, then |-> r \o t, fail |-> Failed] : r \in Follow(h, C)}

\* A cancellation goes to the innermost handler around what a flow awaits.
RECURSIVE CancelIn(_)
CancelIn(f) ==
  IF f = <<>> \/ f = Failed \/ Head(f).do # "try" THEN Failed
  ELSE LET h == Head(f)
           inner == CancelIn(h.body)
       IN (IF inner = Failed THEN h.other ELSE <<Try(inner, h.other)>>) \o Tail(f)
-----------------------------------------------------------------------------
Polls(q, w) == \E k \in D.workers : k.queue = q /\ w \in k.workflows
Registered(q, a) == \E k \in D.workers : k.queue = q /\ a \in k.activities
Handles(e, o) == \E k \in D.workers : k.queue = D.endpoints[e] /\ o \in k.operations

QueueOf(p, step) == IF step.on = "" THEN queue[p[1]] ELSE step.on

\* A client runs by itself; a workflow's code runs on a worker of its queue that knows it.
CanRun(p) ==
  \/ p[1] \in Clients
  \/ p[1] \in Workflows /\ Open(p[1]) /\ Polls(queue[p[1]], p[1])

\* The steps process p may take, of kind k.
FlagsOf(p) == IF p[1] \in Workflows THEN flags[p[1]] ELSE {}
MovesOf(p) == Moves(flow[p], FlagsOf(p))
Step(p, k) == {m \in MovesOf(p) : m.step.do = k}

\* A run ends only when it has handled every message the service has for it.
Ends(p, f) == p[1] \in Workflows /\ p = Run(p[1]) /\ f \in {<<>>, Failed}
Go(p, f) ==
  /\ Ends(p, f) => mail[p[1]] = <<>>
  /\ flow' = [flow EXCEPT ![p] = f]
others == <<sample, queue, flags, mail, runs, cancelled, gaveup>>

\* Within the bounds of its retry policy and timeouts; RunsOut is what happens beyond them.
CompleteActivity(p) ==
  /\ \E m \in Step(p, "act") : Registered(QueueOf(p, m.step), m.step.name) /\ Go(p, m.then)
  /\ UNCHANGED others

\* The operation's handler runs on the worker behind the endpoint.
ServeNexus(p) ==
  /\ \E m \in Step(p, "nexus") :
       /\ Handles(m.step.on, m.step.name)
       /\ Go(p, m.then)
  /\ UNCHANGED others

\* The first task of a run is a task like any other.
FirstTask(w) == <<Sleep>> \o D.classes[w].run

\* A workflow id that is in use cannot be started.
StartWorkflow(p) ==
  \E m \in Step(p, "start") :
    LET w == m.step.name IN
    /\ \/ Open(w) /\ Go(p, m.fail) /\ UNCHANGED <<queue, flags, runs, mail>>
       \/ /\ ~Open(w)
          /\ queue' = [queue EXCEPT ![w] = QueueOf(p, m.step)]
          /\ flags' = [flags EXCEPT ![w] = {}] /\ runs' = [runs EXCEPT ![w] = 0]
          /\ mail' = [mail EXCEPT ![w] = <<>>]
          /\ flow' = [flow EXCEPT ![p] = m.then, ![Run(w)] = FirstTask(w)]
    /\ UNCHANGED <<sample, cancelled, gaveup>>

GetResult(p) ==
  /\ \E m \in Step(p, "result") :
       \/ Completed(m.step.name) /\ Go(p, m.then)
       \/ HasFailed(m.step.name) /\ Go(p, m.fail)
  /\ UNCHANGED others

\* A signal or an update is taken by the service for an open workflow.
Send(p) ==
  /\ \E m \in Step(p, "signal") \cup Step(p, "update") \cup Step(p, "startupdate") :
       LET w == m.step.on IN
          \/ /\ Open(w)
             /\ mail' = [mail EXCEPT ![w] = Append(@, m.step.name)]
             /\ Go(p, m.then)
          \/ ~Open(w) /\ Go(p, m.fail) /\ UNCHANGED mail
  /\ UNCHANGED <<sample, queue, flags, runs, cancelled, gaveup>>

\* The handler has returned, or the workflow has closed under it.
GetReply(p) ==
  /\ \E m \in Step(p, "reply") :
       LET w == m.step.on
           h == <<w, m.step.name>>
           returned == flow[h] = <<>> /\ \A i \in DOMAIN mail[w] : mail[w][i] # m.step.name
       IN \/ returned /\ Go(p, m.then)
          \/ ~returned /\ (flow[h] = Failed \/ ~Open(w)) /\ Go(p, m.fail)
  /\ UNCHANGED others

\* A worker has run the handler up to its first wait, and the run method too.
IsAccepted(w, m) ==
  /\ \A i \in DOMAIN mail[w] : mail[w][i] # m
  /\ flow[<<w, m>>] # D.classes[w][m]
  /\ flow[Run(w)] # FirstTask(w)
GetAccepted(p) ==
  /\ \E m \in Step(p, "accepted") :
       \/ IsAccepted(m.step.on, m.step.name) /\ Go(p, m.then)
       \/ ~Open(m.step.on) /\ Go(p, m.fail)
  /\ UNCHANGED others

\* A query is answered by a worker, also when the workflow has closed.
AskQuery(p) ==
  /\ \E m \in Step(p, "query") :
       LET w == m.step.on IN
       \/ Started(w) /\ Polls(queue[w], w) /\ Go(p, m.then)
       \/ ~Started(w) /\ Go(p, m.fail)
  /\ UNCHANGED others

PollFlag(p) ==
  /\ \E m \in Step(p, "poll") :
       LET w == m.step.on IN
       Started(w) /\ (~Open(w) \/ m.step.name \in flags[w]) /\ Go(p, m.then)
  /\ UNCHANGED others

RequestCancel(p) ==
  /\ \E m \in Step(p, "cancel") :
       /\ Go(p, IF Started(m.step.on) THEN m.then ELSE m.fail)
       /\ cancelled' = IF Open(m.step.on) THEN cancelled \cup {m.step.on} ELSE cancelled
  /\ UNCHANGED <<sample, queue, flags, mail, runs, gaveup>>

AllHandlersFinished(w) == \A h \in Methods(w) \ {Run(w)} : flow[h] \in {<<>>, Failed}

\* The steps in which a process only passes on: choices, loops, timers, exceptions.
PassOn(p) ==
  /\ \E m \in MovesOf(p) :
       \/ m.step.do \in {"either", "upto", "if", "until", "sleep"} /\ Go(p, m.then)
       \/ m.step.do = "await" /\ m.step.flags \cap flags[p[1]] # {} /\ Go(p, m.then)
       \/ m.step.do = "finished" /\ AllHandlersFinished(p[1]) /\ Go(p, m.then)
       \/ m.step.do = "raise" /\ Go(p, m.fail)
  /\ UNCHANGED others
Flag(p) ==
  /\ \E m \in Step(p, "set") \cup Step(p, "clear") :
       /\ flags' = [flags EXCEPT ![p[1]] = IF m.step.do = "set" THEN @ \cup m.step.flags
                                           ELSE @ \ m.step.flags]
       /\ Go(p, m.then)
  /\ UNCHANGED <<sample, queue, mail, runs, cancelled, gaveup>>

ContinueAsNew(p) ==
  /\ \E m \in Step(p, "again") :
       LET w == p[1] IN
       /\ m.step.drain => AllHandlersFinished(w)
       /\ \/ /\ runs[w] + 1 >= m.step.runs \/ m.step.unless \cap flags[w] # {}
             /\ Go(p, m.then) /\ UNCHANGED <<flags, runs>>
          \/ /\ runs[w] + 1 < m.step.runs /\ m.step.unless \cap flags[w] = {}
             /\ mail[w] = <<>>
             /\ flags' = [flags EXCEPT ![w] = @ \cap m.step.flags]
             /\ runs' = [runs EXCEPT ![w] = @ + 1]
             /\ flow' = [q \in DOMAIN flow |->
                           IF q = p THEN FirstTask(w)
                           ELSE IF q[1] = w /\ flow[q] # <<>> THEN Failed ELSE flow[q]]
  /\ UNCHANGED <<sample, queue, mail, cancelled, gaveup>>

Execute(p) ==
  /\ CanRun(p)
  /\ \/ CompleteActivity(p) \/ ServeNexus(p)
     \/ StartWorkflow(p) \/ GetResult(p)
     \/ Send(p) \/ GetAccepted(p) \/ GetReply(p) \/ AskQuery(p) \/ PollFlag(p) \/ RequestCancel(p)
     \/ PassOn(p) \/ Flag(p) \/ ContinueAsNew(p)

\* The worker hands the next message to its handler.
Handle(w) ==
  /\ CanRun(Run(w)) /\ mail[w] # <<>>
  /\ LET h == <<w, Head(mail[w])>> IN
     /\ h \in Processes /\ flow[h] = <<>>
     /\ flow' = [flow EXCEPT ![h] = D.classes[w][h[2]]]
  /\ mail' = [mail EXCEPT ![w] = Tail(@)]
  /\ UNCHANGED <<sample, queue, flags, runs, cancelled, gaveup>>

\* A cancellation is raised in the run method, wherever it waits.
DeliverCancel(w) ==
  /\ w \in cancelled /\ CanRun(Run(w))
  /\ Go(Run(w), CancelIn(flow[Run(w)]))
  /\ cancelled' = cancelled \ {w}
  /\ UNCHANGED <<sample, queue, flags, mail, runs, gaveup>>

\* The last attempt has failed or the time is over: an activity with a retry policy or a
\* schedule-to-close timeout, an operation, an execution, a client's wait_for.  The failure
\* is raised where the result was awaited.  What has no bound is retried until it succeeds.
RunsOut(p) ==
  /\ CanRun(p)
  /\ \E m \in Step(p, "giveup") : Go(p, m.fail)
  /\ gaveup' = TRUE
  /\ UNCHANGED <<sample, queue, flags, mail, runs, cancelled>>

\* A process waits for what never comes, itself or in the workflow whose result it wants.
RECURSIVE WaitsForever(_)
WaitsForever(p) ==
  \/ Step(p, "forever") # {}
  \/ \E m \in Step(p, "result") : WaitsForever(Run(m.step.name))

\* A client's script has ended, or it is one that never does.
Ended(c) == flow[Main(c)] \in {<<>>, Failed} \/ WaitsForever(Main(c))
\* The scripts have ended, or nobody can move (ClientsEnd says that this is not so).
Rest == UNCHANGED vars

Progress ==
  \/ \E p \in Processes : Execute(p)
  \/ \E w \in Workflows : Handle(w) \/ DeliverCancel(w)
Next == Progress \/ (\E p \in Processes : RunsOut(p)) \/ Rest

\* No flow goes round in circles, so it is enough that somebody who can move does.  Nothing
\* has to run out.
FairSpec == Init /\ [][Next]_vars /\ WF_vars(Progress)
-----------------------------------------------------------------------------
\* Whatever a script or a workflow waits for is somebody's work: the workflow is known to
\* a worker that polls the queue it was started on, the activity to one that polls the
\* queue it was scheduled on, the Nexus operation to one behind its endpoint.
Served ==
  /\ \A w \in Workflows : Open(w) => Polls(queue[w], w)
  /\ \A p \in Processes : \A m \in MovesOf(p) :
       /\ m.step.do \in {"act", "hang"} => Registered(QueueOf(p, m.step), m.step.name)
       /\ m.step.do = "nexus" => Handles(m.step.on, m.step.name)

\* A message a workflow has accepted is one it has a handler for.
Understood ==
  \A w \in Workflows : \A i \in DOMAIN mail[w] : mail[w][i] \in DOMAIN D.classes[w]

\* A client's script and its workflows agree: it ends in an exception only when something
\* bounded has failed for good.  Otherwise the workflows it signals and updates are open,
\* the ids it starts are free, the handlers it waits for return before their workflow closes.
ClientsSucceed == \A c \in Clients : flow[Main(c)] = Failed => gaveup

\* Every client's script comes to its end, whatever it waits for and whatever has failed.
ClientsEnd == <>(\A c \in Clients : Ended(c))
=============================================================================
