------------------------ MODULE ClusterManagerProofs ------------------------
(***************************************************************************)
(* Proofs about ClusterManager for any number of nodes, jobs, requests and *)
(* runs.                                                                   *)
(***************************************************************************)
EXTENDS ClusterManager, TLAPS

Coroutines == Requests \cup {"main"}

TypeOK ==
  /\ nodes \in [Nodes -> Jobs \cup {Unassigned, Bad, Absent}]
  /\ jobs_assigned \subseteq Jobs
  /\ cluster_started \in BOOLEAN /\ cluster_shutdown \in BOOLEAN
  /\ lock \in Seq(Coroutines)
  /\ pc \in {"starting", "queued", "checking", "sleeping", "draining", "finishing",
             "completed", "failed"}
  /\ run \in Nat \ {0}
  /\ checked \subseteq Nodes
  /\ shutdown \in {"unsent", "waiting", "handled"}
  /\ hpc \in [Requests -> {"unsent", "waiting", "queued", "activity", "done"}]
  /\ req \in [Requests -> Request \cup {NotSent}]
  /\ \A h \in Requests : hpc[h] # "unsent" => req[h] \in Request
  /\ picked \in [Requests -> SUBSET Nodes]
  /\ result \in [Requests -> [kind : {"none", "failed", "existing", "allocated", "deleted"},
                              nodes : SUBSET Nodes]]
  /\ granted \in [Jobs -> SUBSET Nodes]

\* The queue of the lock as a set, in which nobody stands twice.
Waits(s, c) == \E i \in 1..Len(s) : s[i] = c
NobodyTwice(s) == \A i, k \in 1..Len(s) : s[i] = s[k] => i = k

\* In the queue are those in their "async with", at its head the one past its first await.
LockInv ==
  /\ NobodyTwice(lock)
  /\ \A h \in Requests : Waits(lock, h) <=> hpc[h] \in {"queued", "activity"}
  /\ Waits(lock, "main") <=> pc \in {"queued", "checking"}
  /\ \A h \in Requests : hpc[h] = "activity" => lock # <<>> /\ Head(lock) = h
  /\ pc = "checking" => lock # <<>> /\ Head(lock) = "main"

\* Before the first run has started the cluster nobody has got past that wait.
BeforeStart ==
  /\ run = 1 /\ pc = "starting" => ~cluster_started
  /\ ~cluster_started => /\ pc \in {"starting", "failed"}
                         /\ \A h \in Requests : hpc[h] \in {"unsent", "waiting"}
                         /\ \A j \in Jobs : granted[j] = {}

\* A job counts as assigned from the moment a request was answered with its nodes, and
\* not before: the request that is about to be is the only one.
AssignedJobs ==
  /\ \A h \in Requests : result[h].kind = "allocated" =>
       hpc[h] = "done" /\ req[h].job \in jobs_assigned
  /\ \A h \in Requests : hpc[h] = "activity" /\ req[h].op = "assign" =>
       req[h].job \notin jobs_assigned

IInv ==
  /\ TypeOK /\ LockInv /\ BeforeStart /\ AssignedJobs
  /\ CriticalSectionsAtomic /\ OneGrant
-----------------------------------------------------------------------------
(* The queue of a lock.                                                    *)

\* A coroutine that asks for the lock goes to the end of the queue.
LEMMA QueueAppend ==
  ASSUME NEW S, NEW s \in Seq(S), NEW c \in S, ~Waits(s, c), NobodyTwice(s)
  PROVE  /\ Append(s, c) \in Seq(S) /\ Append(s, c) # <<>>
         /\ NobodyTwice(Append(s, c))
         /\ \A d : Waits(Append(s, c), d) <=> Waits(s, d) \/ d = c
         /\ s # <<>> => Head(Append(s, c)) = Head(s)
<1>1. /\ Append(s, c) \in Seq(S) /\ Append(s, c) # <<>>
      /\ Len(Append(s, c)) = Len(s) + 1
      /\ \A i \in 1..Len(s) : Append(s, c)[i] = s[i]
      /\ Append(s, c)[Len(s) + 1] = c
      /\ Len(s) \in Nat
  OBVIOUS
<1>4. s # <<>> => Head(Append(s, c)) = Head(s)
  <2>1. s # <<>> => Head(s) = s[1] /\ 1 \in 1..Len(s)
    OBVIOUS
  <2>2. Head(Append(s, c)) = Append(s, c)[1]
    BY <1>1
  <2> QED
    BY <1>1, <2>1, <2>2
<1>2. NobodyTwice(Append(s, c))
  BY <1>1 DEF NobodyTwice, Waits
<1>3. \A d : Waits(Append(s, c), d) <=> Waits(s, d) \/ d = c
  BY <1>1 DEF Waits
<1> QED
  BY <1>1, <1>2, <1>3, <1>4

\* The holder leaves from the head of the queue.
LEMMA QueueTail ==
  ASSUME NEW S, NEW s \in Seq(S), s # <<>>, NobodyTwice(s)
  PROVE  /\ Tail(s) \in Seq(S)
         /\ NobodyTwice(Tail(s))
         /\ \A d : Waits(Tail(s), d) <=> Waits(s, d) /\ d # Head(s)
<1>1. /\ Tail(s) \in Seq(S)
      /\ Len(Tail(s)) = Len(s) - 1
      /\ \A i \in 1..Len(s) - 1 : Tail(s)[i] = s[i + 1]
      /\ Head(s) = s[1]
      /\ Len(s) \in Nat \ {0}
  OBVIOUS
<1>2. NobodyTwice(Tail(s))
  BY <1>1 DEF NobodyTwice
<1>3. ASSUME NEW d PROVE Waits(Tail(s), d) <=> Waits(s, d) /\ d # Head(s)
  <2>1. ASSUME Waits(Tail(s), d) PROVE Waits(s, d) /\ d # Head(s)
    BY <1>1, <2>1 DEF Waits, NobodyTwice
  <2>2. ASSUME Waits(s, d), d # Head(s) PROVE Waits(Tail(s), d)
    <3>1. PICK i \in 1..Len(s) : s[i] = d
      BY <2>2 DEF Waits
    <3>2. i - 1 \in 1..Len(s) - 1 /\ Tail(s)[i - 1] = s[i]
      BY <1>1, <2>2, <3>1
    <3> QED
      BY <1>1, <3>1, <3>2 DEF Waits
  <2> QED
    BY <2>1, <2>2
<1> QED
  BY <1>1, <1>2, <1>3

\* An empty queue is one in which nobody waits.
LEMMA QueueEmpty ==
  ASSUME NEW S, NEW s \in Seq(S), \A c \in S : ~Waits(s, c)
  PROVE  s = <<>>
<1>1. SUFFICES ASSUME s # <<>> PROVE FALSE
  OBVIOUS
<1>2. 1 \in 1..Len(s) /\ s[1] \in S
  BY <1>1
<1> QED
  BY <1>2 DEF Waits
-----------------------------------------------------------------------------
(* The inductive invariant.                                                *)

\* No step has been taken.
LEMMA InitInv == Init => IInv
<1> SUFFICES ASSUME Init PROVE IInv
  OBVIOUS
<1>1. TypeOK
  <2>1. lock \in Seq(Coroutines)
    BY DEF Init
  <2>2. result \in [Requests -> [kind : {"none", "failed", "existing", "allocated", "deleted"},
                                 nodes : SUBSET Nodes]]
    BY DEF Init, NoResult
  <2>3. req \in [Requests -> Request \cup {NotSent}]
    BY DEF Init
  <2>4. cluster_started \in BOOLEAN /\ cluster_shutdown \in BOOLEAN
    BY Zenon DEF Init
  <2> QED
    BY <2>1, <2>2, <2>3, <2>4 DEF Init, TypeOK
<1>2. LockInv /\ BeforeStart /\ AssignedJobs
  BY DEF Init, LockInv, NobodyTwice, Waits, BeforeStart, AssignedJobs, NoResult
<1>3. CriticalSectionsAtomic /\ OneGrant
  BY DEF Init, CriticalSectionsAtomic, OneGrant, AllocatedOnce, GrantsKept, NoResult
<1> QED
  BY <1>1, <1>2, <1>3 DEF IInv

\* Steps that touch neither the lock nor the nodes.
LEMMA OtherInv ==
  ASSUME IInv,
         \/ \E h \in Requests, q \in Request : Send(h, q)
         \/ SendShutdown \/ ShutdownCluster \/ ClusterStartFails
         \/ WakeToFinish \/ WakeToContinue
  PROVE  IInv'
<1> USE DEF IInv, state, mainVars, handlerVars, Idle, Open
<1>1. ASSUME NEW h \in Requests, NEW q \in Request, Send(h, q) PROVE IInv'
  <2> USE <1>1 DEF Send
  <2>1. TypeOK'
    BY DEF TypeOK
  <2>2. LockInv' /\ BeforeStart' /\ AssignedJobs'
    BY DEF TypeOK, LockInv, BeforeStart, AssignedJobs
  <2>3. CriticalSectionsAtomic' /\ OneGrant'
    BY DEF TypeOK, CriticalSectionsAtomic, OneGrant, AllocatedOnce, GrantsKept, NodesOf,
           AssignedNodes, AssignedJobs
  <2> QED
    BY <2>1, <2>2, <2>3
<1>2. CASE SendShutdown \/ ShutdownCluster \/ ClusterStartFails \/ WakeToFinish \/ WakeToContinue
  <2> USE <1>2 DEF SendShutdown, ShutdownCluster, ClusterStartFails, WakeToFinish, WakeToContinue
  <2>1. TypeOK'
    BY DEF TypeOK
  <2>2. LockInv' /\ BeforeStart' /\ AssignedJobs'
    BY DEF TypeOK, LockInv, BeforeStart, AssignedJobs
  <2>3. CriticalSectionsAtomic' /\ OneGrant'
    BY DEF TypeOK, CriticalSectionsAtomic, OneGrant, AllocatedOnce, GrantsKept, NodesOf,
           AssignedNodes
  <2> QED
    BY <2>1, <2>2, <2>3
<1> QED
  BY <1>1, <1>2

\* A handler finds the cluster started, and joins the queue.
LEMMA EnterInv ==
  ASSUME IInv, ClusterAssumption, NEW h \in Requests, Enter(h)
  PROVE  IInv'
<1> USE DEF IInv, state, mainVars, Return
<1>1. TypeOK /\ hpc[h] = "waiting" /\ cluster_started
  BY DEF Enter
<1>2. CASE Return(h, [kind |-> "failed", nodes |-> {}]) /\ lock' = lock
  <2>1. TypeOK'
    BY <1>1, <1>2 DEF Enter, TypeOK
  <2>2. LockInv' /\ BeforeStart' /\ AssignedJobs'
    BY <1>1, <1>2 DEF Enter, TypeOK, LockInv, BeforeStart, AssignedJobs
  <2>3. CriticalSectionsAtomic' /\ OneGrant'
    BY <1>1, <1>2 DEF Enter, TypeOK, CriticalSectionsAtomic, OneGrant, AllocatedOnce,
                      GrantsKept, NodesOf, AssignedNodes, Idle, Open
  <2> QED
    BY <2>1, <2>2, <2>3
<1>3. CASE hpc' = [hpc EXCEPT ![h] = "queued"] /\ lock' = Append(lock, h) /\ result' = result
  <2>1. ~Waits(lock, h) /\ h \in Coroutines
    BY <1>1 DEF LockInv, Coroutines
  <2>2. /\ lock' \in Seq(Coroutines) /\ lock' # <<>> /\ NobodyTwice(lock')
        /\ \A d : Waits(lock', d) <=> Waits(lock, d) \/ d = h
        /\ lock # <<>> => Head(lock') = Head(lock)
    BY <1>3, <2>1, QueueAppend DEF TypeOK, LockInv
  <2>3. TypeOK'
    BY <1>1, <1>3, <2>2 DEF Enter, TypeOK
  <2>4. LockInv'
    BY <1>1, <1>3, <2>2 DEF Enter, TypeOK, LockInv, ClusterAssumption
  <2>5. BeforeStart' /\ AssignedJobs'
    BY <1>1, <1>3 DEF Enter, TypeOK, BeforeStart, AssignedJobs
  <2>6. CriticalSectionsAtomic' /\ OneGrant'
    BY <1>1, <1>3 DEF Enter, TypeOK, CriticalSectionsAtomic, OneGrant, AllocatedOnce,
                      GrantsKept, NodesOf, AssignedNodes, Idle, Open
  <2> QED
    BY <2>3, <2>4, <2>5, <2>6
<1> QED
  BY <1>2, <1>3 DEF Enter

\* The holder leaves the critical section: the queue goes on without it.
LEMMA HolderLeaves ==
  ASSUME IInv, ClusterAssumption, NEW h \in Requests, Holds(h), hpc[h] \in {"queued", "activity"},
         lock' = Tail(lock), hpc' = [hpc EXCEPT ![h] = "done"], pc' = pc
  PROVE  lock' \in Seq(Coroutines) /\ LockInv'
<1> USE DEF IInv
<1>1. /\ lock' \in Seq(Coroutines) /\ NobodyTwice(lock')
      /\ \A d : Waits(lock', d) <=> Waits(lock, d) /\ d # h
  BY QueueTail DEF TypeOK, LockInv, Holds
<1>2. \A g \in Requests : hpc'[g] # "activity"
  BY DEF TypeOK, LockInv, Holds
<1>3. pc # "checking"
  BY DEF LockInv, Holds, ClusterAssumption
<1> QED
  BY <1>1, <1>2, <1>3 DEF TypeOK, LockInv, ClusterAssumption

\* An assignment looks at the nodes, and answers at once or goes to its activity.
LEMMA DecideAssignInv ==
  ASSUME IInv, ClusterAssumption, NEW h \in Requests, DecideAssign(h)
  PROVE  IInv'
<1> USE DEF IInv, state, mainVars
<1>1. /\ TypeOK /\ hpc[h] = "queued" /\ req[h].op = "assign" /\ Holds(h) /\ Open
      /\ UNCHANGED <<state, mainVars, shutdown, req, granted>>
  BY DEF DecideAssign
<1>2. ASSUME NEW k \in {"existing", "failed"}, NEW ns \in SUBSET Nodes,
             Return(h, [kind |-> k, nodes |-> ns]), lock' = Tail(lock), picked' = picked
      PROVE  IInv'
  <2>1. lock' \in Seq(Coroutines) /\ LockInv'
    BY <1>1, <1>2, HolderLeaves DEF Return
  <2>2. TypeOK'
    BY <1>1, <1>2, <2>1 DEF TypeOK, Return
  <2>3. BeforeStart' /\ AssignedJobs'
    BY <1>1, <1>2 DEF TypeOK, BeforeStart, AssignedJobs, Return
  <2>4. CriticalSectionsAtomic' /\ OneGrant'
    BY <1>1, <1>2 DEF TypeOK, CriticalSectionsAtomic, OneGrant, AllocatedOnce,
                      GrantsKept, NodesOf, AssignedNodes, Return, Open
  <2> QED
    BY <2>1, <2>2, <2>3, <2>4
<1>3. ASSUME NEW ns \in SUBSET {n \in Nodes : nodes[n] = Unassigned},
             req[h].job \notin jobs_assigned,
             picked' = [picked EXCEPT ![h] = ns],
             hpc' = [hpc EXCEPT ![h] = "activity"], UNCHANGED <<lock, result>>
      PROVE  IInv'
  <2>1. TypeOK'
    BY <1>1, <1>3 DEF TypeOK
  <2>2. LockInv'
    BY <1>1, <1>3 DEF TypeOK, LockInv, Holds
  <2>3. BeforeStart' /\ AssignedJobs'
    BY <1>1, <1>3 DEF TypeOK, BeforeStart, AssignedJobs
  <2>4. CriticalSectionsAtomic' /\ OneGrant'
    BY <1>1, <1>3 DEF TypeOK, CriticalSectionsAtomic, OneGrant, AllocatedOnce,
                      GrantsKept, NodesOf, AssignedNodes, Open
  <2> QED
    BY <2>1, <2>2, <2>3, <2>4
<1>4. NodesOf(req[h].job) \in SUBSET Nodes /\ {} \in SUBSET Nodes
  BY DEF NodesOf
<1> QED
  BY <1>2, <1>3, <1>4 DEF DecideAssign, AlreadyAssigned

\* The nodes are assigned: nobody else was granted them, as they were free.
LEMMA FinishAssignInv ==
  ASSUME IInv, ClusterAssumption, NEW h \in Requests, FinishAssign(h)
  PROVE  IInv'
<1> USE DEF IInv, mainVars
<1> DEFINE j == req[h].job
<1>1. /\ TypeOK /\ hpc[h] = "activity" /\ req[h].op = "assign" /\ Holds(h) /\ Open
      /\ j \in Jobs /\ j \notin jobs_assigned
      /\ \A n \in picked[h] : nodes[n] = Unassigned
  BY DEF FinishAssign, TypeOK, LockInv, Holds, Request, CriticalSectionsAtomic, AssignedJobs, Open
<1>2. lock' \in Seq(Coroutines) /\ LockInv'
  BY <1>1, HolderLeaves DEF FinishAssign, Return
<1>3. TypeOK'
  BY <1>1, <1>2 DEF FinishAssign, TypeOK, Return
<1>4. \A g \in Requests : hpc'[g] # "activity"
  BY <1>1 DEF FinishAssign, Return, TypeOK, LockInv
<1>5. pc # "checking"
  BY <1>1 DEF LockInv, Holds, ClusterAssumption
<1>6. BeforeStart' /\ AssignedJobs'
  BY <1>1, <1>4 DEF FinishAssign, TypeOK, BeforeStart, AssignedJobs, Return
<1>7. CriticalSectionsAtomic'
  BY <1>1, <1>4, <1>5 DEF FinishAssign, CriticalSectionsAtomic, Open
<1>8. AllocatedOnce'
  BY <1>1 DEF FinishAssign, TypeOK, AllocatedOnce, AssignedJobs, OneGrant, Return
<1>9. run' = 1 => GrantsKept'
  BY <1>1 DEF FinishAssign, TypeOK, OneGrant, GrantsKept, ClusterAssumption
<1> QED
  BY <1>2, <1>3, <1>6, <1>7, <1>8, <1>9 DEF OneGrant

\* A deletion looks at the nodes of its job.
LEMMA DecideDeleteInv ==
  ASSUME IInv, ClusterAssumption, NEW h \in Requests, DecideDelete(h)
  PROVE  IInv'
<1> USE DEF IInv, state, mainVars, DecideDelete
<1>1. TypeOK'
  BY DEF TypeOK, NodesOf
<1>2. LockInv'
  BY DEF TypeOK, LockInv, Holds
<1>3. BeforeStart' /\ AssignedJobs'
  BY DEF TypeOK, BeforeStart, AssignedJobs
<1>4. CriticalSectionsAtomic' /\ OneGrant'
  BY DEF TypeOK, CriticalSectionsAtomic, OneGrant, AllocatedOnce, GrantsKept, NodesOf,
         AssignedNodes, Open
<1> QED
  BY <1>1, <1>2, <1>3, <1>4

\* The job's nodes are free again, and, in the first run, no other's.
LEMMA FinishDeleteInv ==
  ASSUME IInv, ClusterAssumption, NEW h \in Requests, FinishDelete(h)
  PROVE  IInv'
<1> USE DEF IInv, mainVars
<1> DEFINE j == req[h].job
<1>1. /\ TypeOK /\ hpc[h] = "activity" /\ req[h].op = "delete" /\ Holds(h) /\ Open
      /\ j \in Jobs
      /\ run = 1 => picked[h] = NodesOf(j)
  BY DEF FinishDelete, TypeOK, LockInv, Holds, Request, CriticalSectionsAtomic, Open
<1>2. lock' \in Seq(Coroutines) /\ LockInv'
  BY <1>1, HolderLeaves DEF FinishDelete, Return
<1>3. TypeOK'
  BY <1>1, <1>2 DEF FinishDelete, TypeOK, Return
<1>4. \A g \in Requests : hpc'[g] # "activity"
  BY <1>1 DEF FinishDelete, Return, TypeOK, LockInv
<1>5. pc # "checking"
  BY <1>1 DEF LockInv, Holds, ClusterAssumption
<1>6. BeforeStart' /\ AssignedJobs'
  BY <1>1, <1>4 DEF FinishDelete, TypeOK, BeforeStart, AssignedJobs, Return
<1>7. CriticalSectionsAtomic'
  BY <1>1, <1>4, <1>5 DEF FinishDelete, CriticalSectionsAtomic, Open
<1>8. AllocatedOnce'
  BY <1>1 DEF FinishDelete, TypeOK, AllocatedOnce, OneGrant, Return
<1>9. run' = 1 => GrantsKept'
  BY <1>1 DEF FinishDelete, TypeOK, OneGrant, GrantsKept, NodesOf, ClusterAssumption
<1> QED
  BY <1>2, <1>3, <1>6, <1>7, <1>8, <1>9 DEF OneGrant

\* start_cluster is done: in the first run nobody has been granted a node.
LEMMA ClusterStartedInv ==
  ASSUME IInv, ClusterAssumption, ClusterStarted
  PROVE  IInv'
<1> USE DEF IInv, handlerVars
<1>1. ~Waits(lock, "main") /\ "main" \in Coroutines
  BY DEF ClusterStarted, LockInv, Coroutines
<1>2. /\ lock' \in Seq(Coroutines) /\ lock' # <<>> /\ NobodyTwice(lock')
      /\ \A d : Waits(lock', d) <=> Waits(lock, d) \/ d = "main"
      /\ lock # <<>> => Head(lock') = Head(lock)
  BY <1>1, QueueAppend DEF ClusterStarted, TypeOK, LockInv
<1>3. TypeOK'
  BY <1>2 DEF ClusterStarted, TypeOK
<1>4. LockInv'
  BY <1>2 DEF ClusterStarted, LockInv, ClusterAssumption
<1>5. BeforeStart' /\ AssignedJobs'
  BY DEF ClusterStarted, BeforeStart, AssignedJobs
<1>6. CriticalSectionsAtomic'
  BY DEF ClusterStarted, TypeOK, CriticalSectionsAtomic, BeforeStart, NodesOf
<1>7. OneGrant'
  BY DEF ClusterStarted, TypeOK, OneGrant, AllocatedOnce, GrantsKept, BeforeStart
<1> QED
  BY <1>3, <1>4, <1>5, <1>6, <1>7

\* The health check begins with the assigned nodes, ...
LEMMA BeginHealthCheckInv ==
  ASSUME IInv, ClusterAssumption, BeginHealthCheck
  PROVE  IInv'
<1> USE DEF IInv, state, handlerVars, BeginHealthCheck
<1>1. TypeOK'
  BY DEF TypeOK, AssignedNodes
<1>2. LockInv'
  BY DEF LockInv, Holds, ClusterAssumption
<1>3. BeforeStart' /\ AssignedJobs'
  BY DEF BeforeStart, AssignedJobs
<1>4. CriticalSectionsAtomic' /\ OneGrant'
  BY DEF CriticalSectionsAtomic, OneGrant, AllocatedOnce, GrantsKept, NodesOf, AssignedNodes
<1> QED
  BY <1>1, <1>2, <1>3, <1>4

\* ... and ends with some of them marked as bad: no handler is in its activity.
LEMMA EndHealthCheckInv ==
  ASSUME IInv, ClusterAssumption, NEW bad \in SUBSET checked, EndHealthCheck(bad)
  PROVE  IInv'
<1> USE DEF IInv, handlerVars, EndHealthCheck
<1>1. lock # <<>> /\ Head(lock) = "main"
  BY DEF LockInv
<1>2. /\ lock' \in Seq(Coroutines) /\ NobodyTwice(lock')
      /\ \A d : Waits(lock', d) <=> Waits(lock, d) /\ d # "main"
  BY <1>1, QueueTail DEF TypeOK, LockInv
<1>3. \A h \in Requests : hpc[h] # "activity"
  BY <1>1 DEF LockInv, ClusterAssumption
<1>4. TypeOK'
  BY <1>2 DEF TypeOK
<1>5. LockInv'
  BY <1>2, <1>3 DEF LockInv, ClusterAssumption
<1>6. BeforeStart' /\ AssignedJobs'
  BY DEF BeforeStart, AssignedJobs
<1>7. CriticalSectionsAtomic'
  BY <1>3 DEF CriticalSectionsAtomic
<1>8. OneGrant'
  BY DEF TypeOK, OneGrant, AllocatedOnce, GrantsKept
<1> QED
  BY <1>4, <1>5, <1>6, <1>7, <1>8

\* The timer fires: main joins the queue.
LEMMA WakeToCheckInv ==
  ASSUME IInv, ClusterAssumption, WakeToCheck
  PROVE  IInv'
<1> USE DEF IInv, state, handlerVars
<1>1. ~Waits(lock, "main") /\ "main" \in Coroutines
  BY DEF WakeToCheck, LockInv, Coroutines
<1>2. /\ lock' \in Seq(Coroutines) /\ lock' # <<>> /\ NobodyTwice(lock')
      /\ \A d : Waits(lock', d) <=> Waits(lock, d) \/ d = "main"
      /\ lock # <<>> => Head(lock') = Head(lock)
  BY <1>1, QueueAppend DEF WakeToCheck, TypeOK, LockInv
<1>3. TypeOK'
  BY <1>2 DEF WakeToCheck, TypeOK
<1>4. LockInv'
  BY <1>2 DEF WakeToCheck, LockInv, ClusterAssumption
<1>5. BeforeStart' /\ AssignedJobs'
  BY DEF WakeToCheck, BeforeStart, AssignedJobs
<1>6. CriticalSectionsAtomic' /\ OneGrant'
  BY DEF WakeToCheck, CriticalSectionsAtomic, OneGrant, AllocatedOnce, GrantsKept, NodesOf,
         AssignedNodes
<1> QED
  BY <1>3, <1>4, <1>5, <1>6

\* The run ends with no handler under way: the lock it leaves behind is free.
LEMMA EndOfRunInv ==
  ASSUME IInv, ClusterAssumption, ContinueAsNew \/ Complete
  PROVE  IInv'
<1> USE DEF IInv, state, handlerVars, ContinueAsNew, Complete
<1>1. \A h \in Requests : hpc[h] \in {"unsent", "done"}
  BY DEF AllHandlersFinished
<1>2. \A c \in Coroutines : ~Waits(lock, c)
  BY <1>1 DEF LockInv, Coroutines
<1>3. lock = <<>> /\ lock' = <<>>
  BY <1>2, QueueEmpty DEF TypeOK
<1>4. TypeOK'
  BY <1>3 DEF TypeOK
<1>5. LockInv'
  BY <1>1, <1>2, <1>3 DEF LockInv, Coroutines
<1>6. BeforeStart' /\ AssignedJobs'
  BY DEF TypeOK, BeforeStart, AssignedJobs
<1>7. CriticalSectionsAtomic' /\ OneGrant'
  BY <1>1, <1>3 DEF TypeOK, CriticalSectionsAtomic, OneGrant, AllocatedOnce, GrantsKept
<1> QED
  BY <1>4, <1>5, <1>6, <1>7

\* Every step preserves the inductive invariant.
LEMMA StepInv == ClusterAssumption /\ IInv /\ [Next]_vars => IInv'
<1> SUFFICES ASSUME ClusterAssumption, IInv, [Next]_vars PROVE IInv'
  OBVIOUS
<1>1. CASE UNCHANGED vars
  <2> USE <1>1 DEF vars, state, mainVars, handlerVars, IInv
  <2>1. TypeOK' /\ LockInv' /\ BeforeStart' /\ AssignedJobs'
    BY DEF TypeOK, LockInv, BeforeStart, AssignedJobs
  <2>2. CriticalSectionsAtomic' /\ OneGrant'
    BY DEF CriticalSectionsAtomic, OneGrant, AllocatedOnce, GrantsKept, NodesOf,
           AssignedNodes
  <2> QED
    BY <2>1, <2>2
<1>2. CASE Main
  BY <1>2, OtherInv, ClusterStartedInv, BeginHealthCheckInv, EndHealthCheckInv, WakeToCheckInv,
     EndOfRunInv DEF Main
<1>3. ASSUME NEW h \in Requests, Handler(h) PROVE IInv'
  BY <1>3, EnterInv, DecideAssignInv, FinishAssignInv, DecideDeleteInv, FinishDeleteInv
     DEF Handler
<1> QED
  BY <1>1, <1>2, <1>3, OtherInv DEF Next, Terminated
-----------------------------------------------------------------------------
(* The answers.                                                            *)

\* A job's nodes are among those it was granted, in every run, and it was granted some by a
\* request that has its answer; a section that has yet to answer has looked at them.
AnswersInv ==
  /\ AnswersAgree
  /\ \A j \in Jobs : NodesOf(j) \subseteq granted[j]
  /\ \A n \in Nodes : nodes[n] \in Jobs => nodes[n] \in jobs_assigned
  /\ \A j \in jobs_assigned : \E g \in Requests : result[g].kind = "allocated" /\ req[g].job = j
  /\ \A h \in Requests : result[h].kind \in {"allocated", "existing"} => hpc[h] = "done"
  /\ \A h \in Requests : hpc[h] = "activity" =>
       /\ req[h].op = "assign" => Cardinality(picked[h]) = req[h].num
       /\ req[h].op = "delete" => NodesOf(req[h].job) \subseteq picked[h]

\* Nothing has been asked for.
LEMMA AnswersInit == ClusterAssumption /\ Init => AnswersInv
<1> SUFFICES ASSUME ClusterAssumption, Init PROVE AnswersInv
  OBVIOUS
<1>1. AnswersAgree
  <2>1. \A h \in Requests : result[h].kind = "none"
    BY DEF Init, NoResult
  <2> QED
    BY <2>1 DEF AnswersAgree
<1>2. \A n \in Nodes : nodes[n] \notin Jobs
  BY DEF Init, ClusterAssumption
<1>3. \A h \in Requests : result[h].kind = "none" /\ hpc[h] = "unsent"
  BY DEF Init, NoResult
<1>4. jobs_assigned = {}
  BY DEF Init
<1> QED
  BY <1>1, <1>2, <1>3, <1>4 DEF AnswersInv, NodesOf

\* A step that answers nobody and gives no job a node.
LEMMA NoAnswer ==
  ASSUME IInv, AnswersInv, UNCHANGED <<jobs_assigned, result, granted>>,
         \A n \in Nodes : nodes'[n] \in Jobs => nodes'[n] = nodes[n],
         \A h \in Requests : result[h].kind \in {"allocated", "existing"} =>
           req'[h] = req[h] /\ hpc'[h] = hpc[h],
         \A h \in Requests : hpc'[h] = "activity" =>
           hpc[h] = "activity" /\ req'[h] = req[h] /\ picked'[h] = picked[h]
  PROVE  AnswersInv'
<1>1. \A j \in Jobs : NodesOf(j)' \subseteq NodesOf(j)
  BY DEF NodesOf
<1>2. AnswersAgree'
  <2> SUFFICES ASSUME NEW h \in Requests
               PROVE  /\ result[h].kind = "allocated" =>
                           /\ Cardinality(result[h].nodes) = req'[h].num
                           /\ granted[req'[h].job] \in {result[h].nodes, {}}
                      /\ result[h].kind = "existing" =>
                           \E g \in Requests : /\ result[g].kind = "allocated"
                                               /\ req'[g].job = req'[h].job
                                               /\ result[h].nodes \subseteq result[g].nodes
    BY DEF AnswersAgree
  <2>1. CASE result[h].kind = "allocated"
    BY <2>1 DEF AnswersInv, AnswersAgree
  <2>2. CASE result[h].kind = "existing"
    <3>1. PICK g \in Requests : /\ result[g].kind = "allocated" /\ req[g].job = req[h].job
                                /\ result[h].nodes \subseteq result[g].nodes
      BY <2>2 DEF AnswersInv, AnswersAgree
    <3> QED
      BY <2>2, <3>1
  <2> QED
    BY <2>1, <2>2
<1>3. \A j \in jobs_assigned' : \E g \in Requests : result'[g].kind = "allocated" /\ req'[g].job = j
  <2> SUFFICES ASSUME NEW j \in jobs_assigned
               PROVE  \E g \in Requests : result[g].kind = "allocated" /\ req'[g].job = j
    OBVIOUS
  <2>1. PICK g \in Requests : result[g].kind = "allocated" /\ req[g].job = j
    BY DEF AnswersInv
  <2> QED
    BY <2>1
<1>4. \A h \in Requests : hpc'[h] = "activity" =>
        /\ req'[h].op = "assign" => Cardinality(picked'[h]) = req'[h].num
        /\ req'[h].op = "delete" => NodesOf(req[h].job)' \subseteq picked'[h]
  <2> SUFFICES ASSUME NEW h \in Requests, hpc'[h] = "activity"
               PROVE  /\ req'[h].op = "assign" => Cardinality(picked'[h]) = req'[h].num
                      /\ req'[h].op = "delete" => NodesOf(req[h].job)' \subseteq picked'[h]
    OBVIOUS
  <2>1. hpc[h] = "activity" /\ req'[h] = req[h] /\ picked'[h] = picked[h] /\ req[h].job \in Jobs
    BY DEF IInv, TypeOK, Request
  <2> QED
    BY <1>1, <2>1 DEF AnswersInv
<1>5. \A j \in Jobs : NodesOf(j)' \subseteq granted'[j]
  BY <1>1 DEF AnswersInv
<1>6. \A n \in Nodes : nodes'[n] \in Jobs => nodes'[n] \in jobs_assigned'
  BY DEF AnswersInv
<1>7. \A h \in Requests : result'[h].kind \in {"allocated", "existing"} => hpc'[h] = "done"
  BY DEF AnswersInv
<1> QED
  BY <1>2, <1>3, <1>4, <1>5, <1>6, <1>7 DEF AnswersInv

\* A request is answered: a repeated one with the nodes that are left of the job's grant.
LEMMA DecideAssignAnswers ==
  ASSUME IInv, AnswersInv, ClusterAssumption, NEW h \in Requests, DecideAssign(h)
  PROVE  AnswersInv'
<1> DEFINE j == req[h].job
<1>1. /\ hpc[h] = "queued" /\ req[h].op = "assign" /\ Holds(h) /\ j \in Jobs
      /\ UNCHANGED <<nodes, jobs_assigned, req, granted>>
      /\ result[h].kind \notin {"allocated", "existing"}
  BY DEF DecideAssign, IInv, TypeOK, Request, state, AnswersInv
<1>2. \A g \in Requests : hpc[g] # "activity"
  BY <1>1 DEF IInv, LockInv, Holds
<1>3. ASSUME NEW k \in {"existing", "failed"}, NEW ns, Return(h, [kind |-> k, nodes |-> ns]),
             k = "existing" => ns = NodesOf(j) /\ j \in jobs_assigned
      PROVE  AnswersInv'
  <2>1. /\ result'[h].kind = k /\ result'[h].nodes = ns
        /\ \A g \in Requests \ {h} : result'[g] = result[g]
        /\ hpc'[h] = "done" /\ \A g \in Requests \ {h} : hpc'[g] = hpc[g]
        /\ \A g \in Requests : hpc'[g] # "activity"
    BY <1>2, <1>3 DEF Return, IInv, TypeOK
  <2>2. \A g \in Requests : result[g].kind = "allocated" => result'[g] = result[g]
    BY <1>1, <2>1
  <2>3. AnswersAgree'
    <3> SUFFICES ASSUME NEW i \in Requests
                 PROVE  /\ result'[i].kind = "allocated" =>
                             /\ Cardinality(result'[i].nodes) = req[i].num
                             /\ granted[req[i].job] \in {result'[i].nodes, {}}
                        /\ result'[i].kind = "existing" =>
                             \E g \in Requests : /\ result'[g].kind = "allocated"
                                                 /\ req[g].job = req[i].job
                                                 /\ result'[i].nodes \subseteq result'[g].nodes
      BY <1>1 DEF AnswersAgree
    <3>1. CASE i # h
      <4>1. result'[i] = result[i]
        BY <2>1, <3>1
      <4>2. ASSUME result[i].kind = "existing"
            PROVE  \E g \in Requests : /\ result'[g].kind = "allocated" /\ req[g].job = req[i].job
                                       /\ result[i].nodes \subseteq result'[g].nodes
        <5>1. PICK g \in Requests : /\ result[g].kind = "allocated" /\ req[g].job = req[i].job
                                    /\ result[i].nodes \subseteq result[g].nodes
          BY <4>2 DEF AnswersInv, AnswersAgree
        <5> QED
          BY <2>2, <5>1
      <4> QED
        BY <4>1, <4>2 DEF AnswersInv, AnswersAgree
    <3>2. CASE i = h /\ k = "existing"
      <4>1. PICK g \in Requests : result[g].kind = "allocated" /\ req[g].job = j
        BY <1>3, <3>2 DEF AnswersInv
      <4>2. NodesOf(j) \subseteq result[g].nodes
        BY <1>1, <4>1 DEF AnswersInv, AnswersAgree
      <4> QED
        BY <1>3, <2>1, <2>2, <3>2, <4>1, <4>2
    <3>3. CASE i = h /\ k = "failed"
      BY <2>1, <3>3
    <3> QED
      BY <3>1, <3>2, <3>3
  <2>4. \A i \in jobs_assigned' : \E g \in Requests : result'[g].kind = "allocated" /\ req'[g].job = i
    <3> SUFFICES ASSUME NEW i \in jobs_assigned
                 PROVE  \E g \in Requests : result'[g].kind = "allocated" /\ req[g].job = i
      BY <1>1
    <3>1. PICK g \in Requests : result[g].kind = "allocated" /\ req[g].job = i
      BY DEF AnswersInv
    <3> QED
      BY <2>2, <3>1
  <2>5. \A i \in Jobs : NodesOf(i)' \subseteq granted'[i]
    BY <1>1 DEF AnswersInv, NodesOf
  <2>6. \A n \in Nodes : nodes'[n] \in Jobs => nodes'[n] \in jobs_assigned'
    BY <1>1 DEF AnswersInv
  <2>7. \A g \in Requests : result'[g].kind \in {"allocated", "existing"} => hpc'[g] = "done"
    BY <2>1 DEF AnswersInv
  <2> QED
    BY <2>1, <2>3, <2>4, <2>5, <2>6, <2>7 DEF AnswersInv
<1>4. ASSUME NEW ns, Cardinality(ns) = req[h].num, picked' = [picked EXCEPT ![h] = ns],
             hpc' = [hpc EXCEPT ![h] = "activity"], UNCHANGED result
      PROVE  AnswersInv'
  <2>1. /\ hpc'[h] = "activity" /\ picked'[h] = ns
        /\ \A g \in Requests \ {h} : hpc'[g] = hpc[g] /\ hpc'[g] # "activity"
    BY <1>2, <1>4 DEF IInv, TypeOK
  <2>2. AnswersAgree'
    BY <1>1, <1>4 DEF AnswersInv, AnswersAgree
  <2>3. /\ \A i \in Jobs : NodesOf(i)' \subseteq granted'[i]
        /\ \A n \in Nodes : nodes'[n] \in Jobs => nodes'[n] \in jobs_assigned'
        /\ \A i \in jobs_assigned' : \E g \in Requests : result'[g].kind = "allocated" /\ req'[g].job = i
    BY <1>1, <1>4 DEF AnswersInv, NodesOf
  <2>4. \A g \in Requests : result'[g].kind \in {"allocated", "existing"} => hpc'[g] = "done"
    BY <1>1, <1>4, <2>1 DEF AnswersInv
  <2>5. \A g \in Requests : hpc'[g] = "activity" =>
          /\ req'[g].op = "assign" => Cardinality(picked'[g]) = req'[g].num
          /\ req'[g].op = "delete" => NodesOf(req[g].job)' \subseteq picked'[g]
    BY <1>1, <1>4, <2>1
  <2> QED
    BY <2>2, <2>3, <2>4, <2>5 DEF AnswersInv
<1> QED
  BY <1>3, <1>4 DEF DecideAssign, AlreadyAssigned

\* The job, which had no nodes, has those that were picked.
LEMMA FinishAssignAnswers ==
  ASSUME IInv, AnswersInv, ClusterAssumption, NEW h \in Requests, FinishAssign(h)
  PROVE  AnswersInv'
<1> DEFINE j == req[h].job
<1>1. /\ hpc[h] = "activity" /\ req[h].op = "assign" /\ j \in Jobs /\ j \notin jobs_assigned
      /\ picked[h] \subseteq Nodes /\ UNCHANGED <<req, picked>>
      /\ result[h].kind \notin {"allocated", "existing"}
      /\ Cardinality(picked[h]) = req[h].num
  BY DEF FinishAssign, IInv, TypeOK, Request, AssignedJobs, AnswersInv
<1>2. \A g \in Requests \ {h} : hpc[g] # "activity"
  BY <1>1 DEF IInv, LockInv
<1>3. /\ \A n \in picked[h] : nodes'[n] = j
      /\ \A n \in Nodes \ picked[h] : nodes'[n] = nodes[n]
      /\ jobs_assigned' = jobs_assigned \cup {j}
      /\ granted'[j] = picked[h] /\ \A i \in Jobs \ {j} : granted'[i] = granted[i]
  BY <1>1 DEF FinishAssign, IInv, TypeOK
<1>4. \A n \in Nodes : nodes[n] # j
  BY <1>1 DEF AnswersInv
<1>5. {n \in Nodes : nodes'[n] = j} = picked[h]
  BY <1>1, <1>3, <1>4
<1>6. /\ result'[h].kind = "allocated" /\ result'[h].nodes = picked[h]
      /\ \A g \in Requests \ {h} : result'[g] = result[g]
      /\ hpc'[h] = "done" /\ \A g \in Requests \ {h} : hpc'[g] = hpc[g]
  BY <1>5 DEF FinishAssign, Return, IInv, TypeOK
<1>7. \A g \in Requests : hpc'[g] # "activity"
  BY <1>2, <1>6
<1>8. \A g \in Requests : result[g].kind = "allocated" => req[g].job \in Jobs /\ req[g].job # j /\ g # h
  BY <1>1 DEF IInv, TypeOK, AssignedJobs, Request
<1>9. AnswersAgree'
  <2> SUFFICES ASSUME NEW i \in Requests
               PROVE  /\ result'[i].kind = "allocated" =>
                           /\ Cardinality(result'[i].nodes) = req[i].num
                           /\ granted'[req[i].job] \in {result'[i].nodes, {}}
                      /\ result'[i].kind = "existing" =>
                           \E g \in Requests : /\ result'[g].kind = "allocated"
                                               /\ req[g].job = req[i].job
                                               /\ result'[i].nodes \subseteq result'[g].nodes
    BY <1>1 DEF AnswersAgree
  <2>1. CASE i = h
    BY <1>1, <1>3, <1>6, <2>1
  <2>2. CASE i # h
    <3>1. result'[i] = result[i]
      BY <1>6, <2>2
    <3>2. ASSUME result[i].kind = "existing"
          PROVE  \E g \in Requests : /\ result'[g].kind = "allocated" /\ req[g].job = req[i].job
                                     /\ result[i].nodes \subseteq result'[g].nodes
      <4>1. PICK g \in Requests : /\ result[g].kind = "allocated" /\ req[g].job = req[i].job
                                  /\ result[i].nodes \subseteq result[g].nodes
        BY <3>2 DEF AnswersInv, AnswersAgree
      <4>2. result'[g] = result[g]
        BY <1>6, <1>8, <4>1
      <4> QED
        BY <4>1, <4>2
    <3>3. ASSUME result[i].kind = "allocated"
          PROVE  /\ Cardinality(result[i].nodes) = req[i].num
                 /\ granted'[req[i].job] \in {result[i].nodes, {}}
      BY <1>3, <1>8, <3>3 DEF AnswersInv, AnswersAgree
    <3> QED
      BY <3>1, <3>2, <3>3
  <2> QED
    BY <2>1, <2>2
<1>10. \A i \in Jobs : NodesOf(i)' \subseteq granted'[i]
  <2> SUFFICES ASSUME NEW i \in Jobs, NEW n \in Nodes, nodes'[n] = i PROVE n \in granted'[i]
    BY DEF NodesOf
  <2>1. CASE i = j
    BY <1>3, <1>5, <2>1
  <2>2. CASE i # j
    <3>1. nodes[n] = i
      BY <1>3, <2>2
    <3> QED
      BY <1>3, <2>2, <3>1 DEF AnswersInv, NodesOf
  <2> QED
    BY <2>1, <2>2
<1>11. \A n \in Nodes : nodes'[n] \in Jobs => nodes'[n] \in jobs_assigned'
  BY <1>3 DEF AnswersInv
<1>12. \A i \in jobs_assigned' : \E g \in Requests : result'[g].kind = "allocated" /\ req'[g].job = i
  <2> SUFFICES ASSUME NEW i \in jobs_assigned'
               PROVE  \E g \in Requests : result'[g].kind = "allocated" /\ req[g].job = i
    BY <1>1
  <2>1. CASE i = j
    BY <1>6, <2>1
  <2>2. CASE i \in jobs_assigned
    <3>1. PICK g \in Requests : result[g].kind = "allocated" /\ req[g].job = i
      BY <2>2 DEF AnswersInv
    <3> QED
      BY <1>6, <1>8, <3>1
  <2> QED
    BY <1>3, <2>1, <2>2
<1>13. \A g \in Requests : result'[g].kind \in {"allocated", "existing"} => hpc'[g] = "done"
  BY <1>6 DEF AnswersInv
<1> QED
  BY <1>7, <1>9, <1>10, <1>11, <1>12, <1>13 DEF AnswersInv

\* A deletion has looked at all the nodes of its job.
LEMMA DecideDeleteAnswers ==
  ASSUME IInv, AnswersInv, ClusterAssumption, NEW h \in Requests, DecideDelete(h)
  PROVE  AnswersInv'
<1>1. /\ hpc[h] = "queued" /\ req[h].op = "delete" /\ Holds(h)
      /\ UNCHANGED <<nodes, jobs_assigned, req, granted, result>>
      /\ result[h].kind \notin {"allocated", "existing"}
  BY DEF DecideDelete, state, AnswersInv
<1>2. \A g \in Requests : hpc[g] # "activity"
  BY <1>1 DEF IInv, LockInv, Holds
<1>3. /\ hpc'[h] = "activity" /\ picked'[h] = NodesOf(req[h].job)
      /\ \A g \in Requests \ {h} : hpc'[g] = hpc[g] /\ hpc'[g] # "activity"
  BY <1>2 DEF DecideDelete, IInv, TypeOK
<1>4. AnswersAgree'
  BY <1>1 DEF AnswersInv, AnswersAgree
<1>5. \A j \in Jobs : NodesOf(j)' = NodesOf(j)
  BY <1>1 DEF NodesOf
<1>6. \A g \in Requests : result'[g].kind \in {"allocated", "existing"} => hpc'[g] = "done"
  BY <1>1, <1>3 DEF AnswersInv
<1>7. \A g \in Requests : hpc'[g] = "activity" =>
        /\ req'[g].op = "assign" => Cardinality(picked'[g]) = req'[g].num
        /\ req'[g].op = "delete" => NodesOf(req[g].job)' \subseteq picked'[g]
  BY <1>1, <1>3 DEF NodesOf
<1> QED
  BY <1>1, <1>4, <1>5, <1>6, <1>7 DEF AnswersInv

\* The job has no nodes any more, whatever an earlier start of the cluster left of them.
LEMMA FinishDeleteAnswers ==
  ASSUME IInv, AnswersInv, ClusterAssumption, NEW h \in Requests, FinishDelete(h)
  PROVE  AnswersInv'
<1> DEFINE j == req[h].job
<1>1. /\ hpc[h] = "activity" /\ req[h].op = "delete" /\ j \in Jobs
      /\ UNCHANGED <<req, jobs_assigned>> /\ NodesOf(j) \subseteq picked[h]
      /\ result[h].kind \notin {"allocated", "existing"}
  BY DEF FinishDelete, IInv, TypeOK, Request, AnswersInv
<1>2. \A g \in Requests \ {h} : hpc[g] # "activity"
  BY <1>1 DEF IInv, LockInv
<1>3. /\ \A n \in Nodes : nodes'[n] = IF n \in picked[h] THEN Unassigned ELSE nodes[n]
      /\ granted'[j] = {} /\ \A i \in Jobs \ {j} : granted'[i] = granted[i]
  BY <1>1 DEF FinishDelete, IInv, TypeOK
<1>4. /\ result'[h].kind = "deleted" /\ \A g \in Requests \ {h} : result'[g] = result[g]
      /\ hpc'[h] = "done" /\ \A g \in Requests \ {h} : hpc'[g] = hpc[g]
  BY DEF FinishDelete, Return, IInv, TypeOK
<1>5. \A n \in Nodes : nodes'[n] \in Jobs => nodes'[n] = nodes[n] /\ nodes[n] # j
  BY <1>1, <1>3 DEF NodesOf, ClusterAssumption
<1>6. \A g \in Requests : result[g].kind \in {"allocated", "existing"} => g # h /\ result'[g] = result[g]
  BY <1>1, <1>4
<1>7. AnswersAgree'
  <2> SUFFICES ASSUME NEW i \in Requests
               PROVE  /\ result'[i].kind = "allocated" =>
                           /\ Cardinality(result'[i].nodes) = req[i].num
                           /\ granted'[req[i].job] \in {result'[i].nodes, {}}
                      /\ result'[i].kind = "existing" =>
                           \E g \in Requests : /\ result'[g].kind = "allocated"
                                               /\ req[g].job = req[i].job
                                               /\ result'[i].nodes \subseteq result'[g].nodes
    BY <1>1 DEF AnswersAgree
  <2>1. CASE i = h
    BY <1>4, <2>1
  <2>2. CASE i # h
    <3>1. result'[i] = result[i]
      BY <1>4, <2>2
    <3>2. ASSUME result[i].kind = "existing"
          PROVE  \E g \in Requests : /\ result'[g].kind = "allocated" /\ req[g].job = req[i].job
                                     /\ result[i].nodes \subseteq result'[g].nodes
      <4>1. PICK g \in Requests : /\ result[g].kind = "allocated" /\ req[g].job = req[i].job
                                  /\ result[i].nodes \subseteq result[g].nodes
        BY <3>2 DEF AnswersInv, AnswersAgree
      <4> QED
        BY <1>6, <4>1
    <3>3. ASSUME result[i].kind = "allocated"
          PROVE  /\ Cardinality(result[i].nodes) = req[i].num
                 /\ granted'[req[i].job] \in {result[i].nodes, {}}
      <4>1. req[i].job \in Jobs
        BY <3>3 DEF IInv, TypeOK, AssignedJobs
      <4>2. granted'[req[i].job] \in {granted[req[i].job], {}}
        BY <1>3, <4>1
      <4> QED
        BY <3>3, <4>2 DEF AnswersInv, AnswersAgree
    <3> QED
      BY <3>1, <3>2, <3>3
  <2> QED
    BY <2>1, <2>2
<1>8. \A i \in Jobs : NodesOf(i)' \subseteq granted'[i]
  <2> SUFFICES ASSUME NEW i \in Jobs, NEW n \in Nodes, nodes'[n] = i PROVE n \in granted'[i]
    BY DEF NodesOf
  <2>1. nodes[n] = i /\ i # j
    BY <1>5
  <2> QED
    BY <1>3, <2>1 DEF AnswersInv, NodesOf
<1>9. \A i \in jobs_assigned' : \E g \in Requests : result'[g].kind = "allocated" /\ req'[g].job = i
  <2> SUFFICES ASSUME NEW i \in jobs_assigned
               PROVE  \E g \in Requests : result'[g].kind = "allocated" /\ req[g].job = i
    BY <1>1
  <2>1. PICK g \in Requests : result[g].kind = "allocated" /\ req[g].job = i
    BY DEF AnswersInv
  <2> QED
    BY <1>6, <2>1
<1>10. /\ \A n \in Nodes : nodes'[n] \in Jobs => nodes'[n] \in jobs_assigned'
       /\ \A g \in Requests : result'[g].kind \in {"allocated", "existing"} => hpc'[g] = "done"
       /\ \A g \in Requests : hpc'[g] # "activity"
  BY <1>1, <1>2, <1>4, <1>5 DEF AnswersInv
<1> QED
  BY <1>7, <1>8, <1>9, <1>10 DEF AnswersInv

\* Every step keeps the answers in agreement with the nodes.
LEMMA AnswersStep ==
  ClusterAssumption /\ IInv /\ AnswersInv /\ [Next]_vars => AnswersInv'
<1> SUFFICES ASSUME ClusterAssumption, IInv, AnswersInv, [Next]_vars PROVE AnswersInv'
  OBVIOUS
<1> USE DEF vars, state, mainVars, handlerVars
<1>1. CASE UNCHANGED vars \/ Terminated
  BY <1>1, NoAnswer DEF Terminated
<1>2. CASE ClusterStarted
  <2>1. \A n \in Nodes : nodes'[n] \notin Jobs
    BY <1>2 DEF ClusterStarted, ClusterAssumption
  <2> QED
    BY <1>2, <2>1, NoAnswer DEF ClusterStarted
<1>3. ASSUME NEW bad \in SUBSET checked, EndHealthCheck(bad) PROVE AnswersInv'
  <2>1. \A n \in Nodes : nodes'[n] \in Jobs => nodes'[n] = nodes[n]
    BY <1>3 DEF EndHealthCheck, ClusterAssumption
  <2> QED
    BY <1>3, <2>1, NoAnswer DEF EndHealthCheck
<1>4. CASE BeginHealthCheck \/ WakeToFinish \/ WakeToContinue \/ WakeToCheck
  BY <1>4, NoAnswer DEF BeginHealthCheck, WakeToFinish, WakeToContinue, WakeToCheck
<1>5. CASE ContinueAsNew \/ Complete \/ ClusterStartFails \/ SendShutdown \/ ShutdownCluster
  BY <1>5, NoAnswer DEF ContinueAsNew, Complete, ClusterStartFails, SendShutdown, ShutdownCluster
<1>6. ASSUME NEW h \in Requests, NEW q \in Request, Send(h, q) PROVE AnswersInv'
  <2>1. /\ hpc[h] = "unsent" /\ hpc'[h] = "waiting"
        /\ \A g \in Requests \ {h} : hpc'[g] = hpc[g] /\ req'[g] = req[g]
        /\ UNCHANGED <<nodes, jobs_assigned, result, granted, picked>>
    BY <1>6 DEF Send, IInv, TypeOK
  <2>2. result[h].kind \notin {"allocated", "existing"}
    BY <2>1 DEF AnswersInv
  <2> QED
    BY <2>1, <2>2, NoAnswer
<1>7. ASSUME NEW h \in Requests, Enter(h) PROVE AnswersInv'
  <2>1. result[h].kind \notin {"allocated", "existing"}
    BY <1>7 DEF Enter, AnswersInv
  <2>2. CASE hpc' = [hpc EXCEPT ![h] = "queued"] /\ result' = result
    <3>1. hpc'[h] = "queued" /\ \A g \in Requests \ {h} : hpc'[g] = hpc[g]
      BY <2>2 DEF IInv, TypeOK
    <3> QED
      BY <1>7, <2>1, <2>2, <3>1, NoAnswer DEF Enter
  <2>3. CASE Return(h, [kind |-> "failed", nodes |-> {}])
    <3>1. /\ result'[h].kind = "failed" /\ \A g \in Requests \ {h} : result'[g] = result[g]
          /\ hpc'[h] = "done" /\ \A g \in Requests \ {h} : hpc'[g] = hpc[g]
          /\ UNCHANGED <<nodes, jobs_assigned, req, picked, granted>>
      BY <1>7, <2>3 DEF Enter, Return, IInv, TypeOK
    <3>2. \A g \in Requests : result'[g].kind \in {"allocated", "existing"} => result'[g] = result[g]
      BY <3>1
    <3>3. \A g \in Requests : result[g].kind \in {"allocated", "existing"} => result'[g] = result[g]
      BY <2>1, <3>1
    <3>4. AnswersAgree'
      <4> SUFFICES ASSUME NEW i \in Requests, result'[i] = result[i]
                   PROVE  /\ result[i].kind = "allocated" =>
                               /\ Cardinality(result[i].nodes) = req[i].num
                               /\ granted[req[i].job] \in {result[i].nodes, {}}
                          /\ result[i].kind = "existing" =>
                               \E g \in Requests : /\ result'[g].kind = "allocated"
                                                   /\ req[g].job = req[i].job
                                                   /\ result[i].nodes \subseteq result'[g].nodes
        BY <3>1, <3>2 DEF AnswersAgree
      <4>1. ASSUME result[i].kind = "existing"
            PROVE  \E g \in Requests : /\ result'[g].kind = "allocated" /\ req[g].job = req[i].job
                                       /\ result[i].nodes \subseteq result'[g].nodes
        <5>1. PICK g \in Requests : /\ result[g].kind = "allocated" /\ req[g].job = req[i].job
                                    /\ result[i].nodes \subseteq result[g].nodes
          BY <4>1 DEF AnswersInv, AnswersAgree
        <5> QED
          BY <3>3, <5>1
      <4> QED
        BY <4>1 DEF AnswersInv, AnswersAgree
    <3>5. \A j \in jobs_assigned' : \E g \in Requests : result'[g].kind = "allocated" /\ req'[g].job = j
      <4> SUFFICES ASSUME NEW j \in jobs_assigned
                   PROVE  \E g \in Requests : result'[g].kind = "allocated" /\ req[g].job = j
        BY <3>1
      <4>1. PICK g \in Requests : result[g].kind = "allocated" /\ req[g].job = j
        BY DEF AnswersInv
      <4> QED
        BY <3>3, <4>1
    <3>6. \A g \in Requests : result'[g].kind \in {"allocated", "existing"} => hpc'[g] = "done"
      BY <3>1, <3>2 DEF AnswersInv
    <3>7. \A g \in Requests : hpc'[g] = "activity" =>
            /\ req'[g].op = "assign" => Cardinality(picked'[g]) = req'[g].num
            /\ req'[g].op = "delete" => NodesOf(req[g].job)' \subseteq picked'[g]
      BY <3>1 DEF AnswersInv, NodesOf
    <3>8. /\ \A j \in Jobs : NodesOf(j)' \subseteq granted'[j]
          /\ \A n \in Nodes : nodes'[n] \in Jobs => nodes'[n] \in jobs_assigned'
      BY <3>1 DEF AnswersInv, NodesOf
    <3> QED
      BY <3>4, <3>5, <3>6, <3>7, <3>8 DEF AnswersInv
  <2> QED
    BY <1>7, <2>2, <2>3 DEF Enter
<1>8. ASSUME NEW h \in Requests, Handler(h) PROVE AnswersInv'
  BY <1>7, <1>8, DecideAssignAnswers, FinishAssignAnswers, DecideDeleteAnswers, FinishDeleteAnswers
     DEF Handler
<1> QED
  BY <1>1, <1>2, <1>3, <1>4, <1>5, <1>6, <1>8 DEF Next, Main
-----------------------------------------------------------------------------
\* The inductive invariant holds in every reachable state.
THEOREM Invariant == ASSUME ClusterAssumption PROVE Spec => []IInv
  BY InitInv, StepInv, PTL DEF Spec

\* The state of the cluster, the lock and the coroutines have their types.
THEOREM TypeCorrect == ASSUME ClusterAssumption PROVE Spec => []TypeOK
<1>1. IInv => TypeOK
  BY DEF IInv
<1> QED
  BY Invariant, <1>1, PTL

\* What a critical section of ClusterManagerWorkflow read before its await still holds
\* after it, however many handlers and health checks there are; none is cut off by the end
\* of the workflow.
THEOREM Atomicity == ASSUME ClusterAssumption PROVE Spec => []CriticalSectionsAtomic
<1>1. IInv => CriticalSectionsAtomic
  BY DEF IInv
<1> QED
  BY Invariant, <1>1, PTL

\* The answers agree with the nodes in every reachable state.
THEOREM AnswersInvariant == ASSUME ClusterAssumption PROVE Spec => []AnswersInv
  BY Invariant, AnswersInit, AnswersStep, PTL DEF Spec

\* assign_nodes_to_job allocates a job's nodes once, whatever was retried, every answer is
\* what was granted, and in the first run the job keeps it until it is deleted or its nodes
\* go bad.
THEOREM Grants == ASSUME ClusterAssumption PROVE Spec => []GrantsStable
<1>1. IInv /\ AnswersInv => GrantsStable
  BY DEF IInv, AnswersInv, GrantsStable
<1> QED
  BY Invariant, AnswersInvariant, <1>1, PTL
=============================================================================
