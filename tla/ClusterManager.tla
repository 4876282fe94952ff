--------------------------- MODULE ClusterManager ---------------------------
(***************************************************************************)
(* message_passing/safe_message_handlers: the ClusterManagerWorkflow, an   *)
(* entity workflow whose update handlers assign nodes to jobs and delete   *)
(* jobs under nodes_lock while the main coroutine checks the nodes' health *)
(* and continues as new.                                                   *)
(*                                                                         *)
(* Actions are the code between two awaits.  asyncio.Lock is first come,   *)
(* first served: "lock" is the queue of coroutines in their "async with",  *)
(* its head is the holder.  Activities are retried until they succeed,     *)
(* except start_cluster (bounded by its timeout: the run fails) and        *)
(* find_bad_nodes (a failure is logged, as if no node were bad).           *)
(*                                                                         *)
(* Abstractions: which of the unassigned nodes an assignment gets is left  *)
(* open; should_continue_as_new is a choice of the environment.  The       *)
(* update wait_until_cluster_started changes nothing and is left out.      *)
(***************************************************************************)
EXTENDS Naturals, Sequences, FiniteSets

CONSTANTS
  Nodes, Jobs,
  Requests,          \* update requests: at most one handler runs for each
  Sizes,             \* the values of total_num_nodes
  MaxRuns,           \* how many runs continue-as-new may chain
  Unassigned, Bad,   \* the values None and "BAD!" of the dict "nodes"
  Absent             \* the node is not (yet) in the dict

\* The values of the dict and the coroutines are told apart (the code does not keep
\* a job from being named "BAD!").
ClusterAssumption ==
  /\ Unassigned \notin Jobs /\ Bad \notin Jobs /\ Absent \notin Jobs /\ Unassigned # Bad
  /\ "main" \notin Requests

VARIABLES
  nodes, jobs_assigned, cluster_started, cluster_shutdown,  \* ClusterManagerState
  lock,          \* nodes_lock
  pc,            \* main coroutine
  run,           \* number of the run in the continue-as-new chain
  checked,       \* main: the nodes given to find_bad_nodes
  shutdown,      \* the shutdown_cluster signal: unsent, waiting, handled
  hpc,           \* handlers
  req,           \* handlers: the update's arguments
  picked,        \* handlers: the nodes given to the activity
  result,        \* handlers: what the update returned
  granted        \* history: the nodes each job was given and not deleted from

state    == <<nodes, jobs_assigned, cluster_started, cluster_shutdown>>
mainVars == <<pc, run, checked>>
handlerVars == <<hpc, req, picked, result>>
vars == <<state, lock, mainVars, shutdown, handlerVars, granted>>

Request == [op : {"assign", "delete"}, job : Jobs, num : Sizes]
NotSent == CHOOSE q \in Request : TRUE
NoResult == [kind |-> "none", nodes |-> {}]

Init ==
  /\ nodes = [n \in Nodes |-> Absent]
  /\ jobs_assigned = {}
  /\ cluster_started = FALSE /\ cluster_shutdown = FALSE
  /\ lock = <<>>
  /\ pc = "starting" /\ run = 1 /\ checked = {}
  /\ shutdown = "unsent"
  /\ hpc = [h \in Requests |-> "unsent"]
  /\ req = [h \in Requests |-> NotSent]
  /\ picked = [h \in Requests |-> {}]
  /\ result = [h \in Requests |-> NoResult]
  /\ granted = [j \in Jobs |-> {}]

NodesOf(j) == {n \in Nodes : nodes[n] = j}           \* get_assigned_nodes(job_name=j)
AssignedNodes == {n \in Nodes : nodes[n] \in Jobs}   \* get_assigned_nodes()

Open == pc \notin {"completed", "failed"}

\* The coroutine at the head of the lock's queue runs before anything else does:
\* a free lock is taken without a suspension, and a release wakes the next in
\* line within the same activation of the workflow.
Woken == /\ lock # <<>>
         /\ \/ Head(lock) = "main" /\ pc = "queued"
            \/ \E h \in Requests : Head(lock) = h /\ hpc[h] = "queued"
Idle == Open /\ ~Woken
AllHandlersFinished == /\ \A h \in Requests : hpc[h] \in {"unsent", "done"}
                       /\ shutdown # "waiting"
-----------------------------------------------------------------------------
(* Message handlers.                                                       *)

Send(h, q) ==
  /\ Open /\ hpc[h] = "unsent"
  /\ hpc' = [hpc EXCEPT ![h] = "waiting"]
  /\ req' = [req EXCEPT ![h] = q]
  /\ UNCHANGED <<state, lock, mainVars, shutdown, picked, result, granted>>

Return(h, res) ==
  /\ hpc' = [hpc EXCEPT ![h] = "done"]
  /\ result' = [result EXCEPT ![h] = res]

\* The handler finds the cluster started: it refuses after a shutdown, and
\* otherwise asks for the lock.
Enter(h) ==
  /\ Idle /\ hpc[h] = "waiting" /\ cluster_started
  /\ \/ /\ cluster_shutdown
        /\ Return(h, [kind |-> "failed", nodes |-> {}])
        /\ lock' = lock
     \/ /\ ~cluster_shutdown
        /\ hpc' = [hpc EXCEPT ![h] = "queued"]
        /\ lock' = Append(lock, h)
        /\ result' = result
  /\ UNCHANGED <<state, mainVars, shutdown, req, picked, granted>>

LockIgnored(h) == \E i \in 1..Len(lock) : lock[i] = h   \* mutant: no lock
Holds(h) == lock # <<>> /\ Head(lock) = h

IdempotencyUnguarded(j) == FALSE   \* mutant: no idempotency guard
AlreadyAssigned(j) == j \in jobs_assigned

\* assign_nodes_to_job in its critical section, up to its activity.
DecideAssign(h) ==
  LET j == req[h].job
      free == {n \in Nodes : nodes[n] = Unassigned}
  IN
  /\ Open /\ hpc[h] = "queued" /\ req[h].op = "assign" /\ Holds(h)
  /\ \/ /\ AlreadyAssigned(j)
        /\ Return(h, [kind |-> "existing", nodes |-> NodesOf(j)])
        /\ lock' = Tail(lock) /\ picked' = picked
     \/ /\ ~AlreadyAssigned(j) /\ Cardinality(free) < req[h].num
        /\ Return(h, [kind |-> "failed", nodes |-> {}])
        /\ lock' = Tail(lock) /\ picked' = picked
     \/ /\ ~AlreadyAssigned(j) /\ Cardinality(free) >= req[h].num
        /\ \E ns \in SUBSET free :
             Cardinality(ns) = req[h].num /\ picked' = [picked EXCEPT ![h] = ns]
        /\ hpc' = [hpc EXCEPT ![h] = "activity"]
        /\ UNCHANGED <<lock, result>>
  /\ UNCHANGED <<state, mainVars, shutdown, req, granted>>

\* The activity assign_nodes_to_job is done.
FinishAssign(h) ==
  LET j == req[h].job IN
  /\ Open /\ hpc[h] = "activity" /\ req[h].op = "assign"
  /\ nodes' = [n \in Nodes |-> IF n \in picked[h] THEN j ELSE nodes[n]]
  /\ jobs_assigned' = jobs_assigned \cup {j}
  /\ Return(h, [kind |-> "allocated", nodes |-> {n \in Nodes : nodes'[n] = j}])
  /\ lock' = Tail(lock)
  /\ granted' = [granted EXCEPT ![j] = picked[h]]
  /\ UNCHANGED <<cluster_started, cluster_shutdown, mainVars, shutdown, req, picked>>

\* delete_job in its critical section, up to its activity.
DecideDelete(h) ==
  /\ Open /\ hpc[h] = "queued" /\ req[h].op = "delete" /\ Holds(h)
  /\ picked' = [picked EXCEPT ![h] = NodesOf(req[h].job)]
  /\ hpc' = [hpc EXCEPT ![h] = "activity"]
  /\ UNCHANGED <<state, lock, mainVars, shutdown, req, result, granted>>

\* The activity unassign_nodes_for_job is done.
FinishDelete(h) ==
  /\ Open /\ hpc[h] = "activity" /\ req[h].op = "delete"
  /\ nodes' = [n \in Nodes |-> IF n \in picked[h] THEN Unassigned ELSE nodes[n]]
  /\ Return(h, [kind |-> "deleted", nodes |-> {}])
  /\ lock' = Tail(lock)
  /\ granted' = [granted EXCEPT ![req[h].job] = {}]
  /\ UNCHANGED <<jobs_assigned, cluster_started, cluster_shutdown, mainVars, shutdown,
                 req, picked>>

SendShutdown ==
  /\ Open /\ shutdown = "unsent" /\ shutdown' = "waiting"
  /\ UNCHANGED <<state, lock, mainVars, handlerVars, granted>>

\* Signal handler shutdown_cluster.
ShutdownCluster ==
  /\ Idle /\ shutdown = "waiting" /\ cluster_started
  /\ shutdown' = "handled"
  /\ cluster_shutdown' = TRUE
  /\ UNCHANGED <<nodes, jobs_assigned, cluster_started, lock, mainVars, handlerVars, granted>>
-----------------------------------------------------------------------------
(* The main coroutine.                                                     *)

\* start_cluster is done: every node is unassigned, and the first health check
\* asks for the lock.
ClusterStarted ==
  /\ Idle /\ pc = "starting" /\ pc' = "queued"
  /\ nodes' = [n \in Nodes |-> Unassigned]
  /\ cluster_started' = TRUE
  /\ lock' = Append(lock, "main")
  /\ UNCHANGED <<jobs_assigned, cluster_shutdown, run, checked, shutdown, handlerVars, granted>>

\* start_cluster's schedule_to_close_timeout passes: the workflow fails.
ClusterStartFails ==
  /\ Idle /\ pc = "starting" /\ pc' = "failed"
  /\ UNCHANGED <<state, lock, run, checked, shutdown, handlerVars, granted>>

\* perform_health_checks in its critical section, up to its activity.
BeginHealthCheck ==
  /\ pc = "queued" /\ Holds("main") /\ pc' = "checking"
  /\ checked' = AssignedNodes
  /\ UNCHANGED <<state, lock, run, shutdown, handlerVars, granted>>

\* find_bad_nodes is done (bad = {} also when it failed).
EndHealthCheck(bad) ==
  /\ pc = "checking" /\ pc' = "sleeping" /\ checked' = {}
  /\ nodes' = [n \in Nodes |-> IF n \in bad THEN Bad ELSE nodes[n]]
  /\ lock' = Tail(lock)
  /\ UNCHANGED <<jobs_assigned, cluster_started, cluster_shutdown, run, shutdown,
                 handlerVars, granted>>

\* The sleep ends: by a shutdown, ...
WakeToFinish ==
  /\ Idle /\ pc = "sleeping" /\ cluster_shutdown /\ pc' = "finishing"
  /\ UNCHANGED <<state, lock, run, checked, shutdown, handlerVars, granted>>

\* ... when it is time to continue as new, ...
WakeToContinue ==
  /\ Idle /\ pc = "sleeping" /\ ~cluster_shutdown /\ run < MaxRuns /\ pc' = "draining"
  /\ UNCHANGED <<state, lock, run, checked, shutdown, handlerVars, granted>>

\* ... or by the timer: the next health check.
WakeToCheck ==
  /\ Idle /\ pc = "sleeping" /\ ~cluster_shutdown /\ pc' = "queued"
  /\ lock' = Append(lock, "main")
  /\ UNCHANGED <<state, run, checked, shutdown, handlerVars, granted>>

\* continue_as_new with the state, once no handler runs; the new run has a new lock.
ContinueAsNew ==
  /\ Idle /\ pc = "draining" /\ AllHandlersFinished
  /\ pc' = "starting" /\ run' = run + 1
  /\ lock' = <<>>
  /\ UNCHANGED <<state, checked, shutdown, handlerVars, granted>>

Complete ==
  /\ Idle /\ pc = "finishing" /\ AllHandlersFinished /\ pc' = "completed"
  /\ UNCHANGED <<state, lock, run, checked, shutdown, handlerVars, granted>>

Terminated == ~Open /\ UNCHANGED vars
-----------------------------------------------------------------------------
Main == \/ ClusterStarted \/ BeginHealthCheck \/ \E bad \in SUBSET checked : EndHealthCheck(bad)
        \/ WakeToFinish \/ WakeToContinue \/ WakeToCheck \/ ContinueAsNew \/ Complete

Handler(h) == Enter(h) \/ DecideAssign(h) \/ FinishAssign(h) \/ DecideDelete(h) \/ FinishDelete(h)

Next == \/ Main \/ ClusterStartFails \/ SendShutdown \/ ShutdownCluster \/ Terminated
        \/ \E h \in Requests : Handler(h) \/ \E q \in Request : Send(h, q)

Spec == Init /\ [][Next]_vars

\* Temporal keeps driving an open workflow: timers fire, activities are retried,
\* and the event loop runs a coroutine that is ready even if the lock's queue went
\* first a number of times (strong fairness).  Nobody is obliged to send anything.
FairSpec == /\ Spec /\ WF_vars(Main) /\ SF_vars(ShutdownCluster)
            /\ \A h \in Requests : SF_vars(Handler(h))
-----------------------------------------------------------------------------
(* Correctness.                                                            *)

\* "These updates must run atomically": what a critical section read before its
\* await still holds after it.  The nodes an assignment picked are unassigned, a
\* deletion's are its job's and complete, the checked nodes are the assigned ones.
\* Nor is one cut off when the workflow returns, though handlers that looked at
\* cluster_shutdown before it was set, and then waited for the lock, go on after it.
\* (Line 220 may reset the nodes in between, in a later run: see GrantsKept.)
CriticalSectionsAtomic ==
  /\ \A h \in Requests : hpc[h] = "activity" /\ pc \notin {"completed", "failed"} =>
       /\ req[h].op = "assign" => \A n \in picked[h] : nodes[n] = Unassigned
       /\ req[h].op = "delete" /\ run = 1 => picked[h] = NodesOf(req[h].job)
  /\ pc = "checking" => checked = AssignedNodes
  /\ pc = "completed" => lock = <<>> /\ \A h \in Requests : hpc[h] \in {"unsent", "done"}

\* A job is allocated nodes by one request at most, whatever was retried or sent
\* twice; the others get what it has.
AllocatedOnce ==
  \A g, h \in Requests :
    /\ result[g].kind = "allocated" /\ result[h].kind = "allocated"
    /\ req[g].job = req[h].job
    => g = h

\* A job keeps the nodes it was given until it is deleted or they go bad.
GrantsKept ==
  \A j \in Jobs : \A n \in granted[j] : nodes[n] \in {j, Bad}

\* ... which the first run keeps: no other handler's await and no health check
\* takes a node away, and no second request is given others.
OneGrant == AllocatedOnce /\ (run = 1 => GrantsKept)

\* An answer is what was granted: as many nodes as were asked for, the same that are on
\* record until the job is deleted, and to a repeated request none but those.
AnswersAgree ==
  \A h \in Requests :
    /\ result[h].kind = "allocated" =>
         /\ Cardinality(result[h].nodes) = req[h].num
         /\ granted[req[h].job] \in {result[h].nodes, {}}
    /\ result[h].kind = "existing" =>
         \E g \in Requests : /\ result[g].kind = "allocated" /\ req[g].job = req[h].job
                            /\ result[h].nodes \subseteq result[g].nodes

\* One request's answer is the grant, every other's agrees with it, and the first run
\* keeps it.
GrantsStable == OneGrant /\ AnswersAgree

\* A shutdown, once signalled, ends the workflow: handlers that wait for the lock
\* and the health check do not keep each other from finishing.
ShutdownCompletes == shutdown = "waiting" ~> ~Open
=============================================================================
