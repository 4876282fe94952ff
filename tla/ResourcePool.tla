---------------------------- MODULE ResourcePool ----------------------------
(***************************************************************************)
(* resource_pool/: the long-lived ResourcePoolWorkflow, the                *)
(* ResourcePoolClient that user workflows embed, and the                   *)
(* ResourceUserWorkflows that run two activities on an acquired resource.  *)
(*                                                                         *)
(* A workflow's code runs single-threaded and can be interrupted only at   *)
(* an await, so every action below is the code between two awaits.  What   *)
(* Temporal itself contributes (delivery of signals, activity attempts)    *)
(* is modelled from the way the code uses it:                              *)
(*  - a signal sent to the pool is in "signals" until its handler runs;    *)
(*    the handlers of signals from different senders run in any order;     *)
(*  - the result of the pool's own "await requester.signal" is one more    *)
(*    event, and a worker applies signals before such results: a signal    *)
(*    can be handled between the delivery to the user and the resumption   *)
(*    of the pool;                                                         *)
(*  - a signal to a workflow id that is not running fails with             *)
(*    ExternalWorkflowExecutionNotFound; one to a workflow id that was     *)
(*    started again reaches the new run.                                   *)
(*                                                                         *)
(* Abstractions: release keys (uuid4) are the numbers 1, 2, ...; the order *)
(* of the dict "resources" and of the list "acquired_resources" is         *)
(* dropped (any free resource, any received one may be taken).             *)
(***************************************************************************)
EXTENDS Naturals, Sequences

CONSTANTS
  Resources,       \* every resource that can be put in the pool
  InitResources,   \* those the pool is started with
  Users,           \* workflow ids of the resource users
  Inputs,          \* the inputs a user may be started with
  MaxRuns,         \* how often one user workflow id is started
  Absent, None     \* "not in the dict" and Python's None

\* ResourceUserWorkflowInput: iteration_to_fail_after, should_continue_as_new.
Input == [fail : {"never", "first", "second"}, can : BOOLEAN]

ASSUME PoolAssumption ==
  /\ InitResources \subseteq Resources
  /\ MaxRuns \in Nat
  /\ Inputs # {} /\ Inputs \subseteq Input

Holder   == [workflow_id : Users, release_signal : Nat]
Response == [resource : Resources, release_key : Nat]
Pending  == [workflow_id : Users, resource : Resources, release_key : Nat,
             outcome : {"sent", "delivered", "notfound"}]
AcquireSignal == [type : {"acquire"}, workflow_id : Users, run : Nat]
ReleaseSignal == [type : {"release"}, release_key : Nat]

ASSUME NoneAssumption ==
  /\ Absent # None
  /\ Absent \notin Holder /\ None \notin Holder
  /\ None \notin Response /\ None \notin Pending

VARIABLES
  resources,                \* pool: resource -> Absent, None or its holder
  waiters,                  \* pool: workflow ids waiting, in order
  release_key_to_resource,  \* pool: the dict, as a set of <<key, resource>>
  assigning,                \* pool: the request assign_resource awaits, or None
  can_suggested,            \* pool: is_continue_as_new_suggested()
  next_key,                 \* the next uuid4
  signals,                  \* signals sent to the pool, not yet handled
  pc,                       \* user: where its run is
  run,                      \* user: how often it was started
  input,                    \* user: the input of its run
  acquired_resources,       \* user: responses received, not yet taken
  acquired,                 \* user: the resource of its "async with", or None
  attempts,                 \* activity attempts Temporal waits for
  zombies,                  \* attempts still running that nobody waits for
  ignored,                  \* history: keys whose release was ignored
  abandoned                 \* history: keys of responses a run ended without taking

poolVars  == <<resources, waiters, release_key_to_resource, assigning,
               can_suggested, next_key>>
userVars  == <<pc, run, input, acquired_resources, acquired>>
activityVars == <<attempts, zombies>>
vars == <<poolVars, userVars, activityVars, signals, ignored, abandoned>>

TypeOK ==
  /\ resources \in [Resources -> Holder \cup {Absent, None}]
  /\ waiters \in Seq(Users)
  /\ release_key_to_resource \subseteq Nat \X Resources
  /\ assigning \in Pending \cup {None}
  /\ can_suggested \in BOOLEAN
  /\ next_key \in Nat
  /\ signals \subseteq AcquireSignal \cup ReleaseSignal
  /\ pc \in [Users -> {"idle", "waiting", "first", "second", "closed"}]
  /\ run \in [Users -> Nat]
  /\ input \in [Users -> Input]
  /\ acquired_resources \in [Users -> SUBSET Response]
  /\ acquired \in [Users -> Response \cup {None}]
  /\ attempts \subseteq Users \X Resources
  /\ zombies \subseteq Users \X Resources
  /\ ignored \subseteq Nat
  /\ abandoned \subseteq Nat

\* ResourcePoolWorkflow.__init__: the key map is rebuilt from the holders.
ReleaseKeys(rs) == {<<rs[r].release_signal, r>> :
                      r \in {q \in Resources : rs[q] \in Holder}}

Init ==
  /\ resources = [r \in Resources |-> IF r \in InitResources THEN None ELSE Absent]
  /\ waiters = <<>>
  /\ release_key_to_resource = ReleaseKeys(resources)
  /\ assigning = None
  /\ can_suggested = FALSE
  /\ next_key = 1
  /\ signals = {}
  /\ pc = [u \in Users |-> "idle"]
  /\ run = [u \in Users |-> 0]
  /\ input = [u \in Users |-> CHOOSE in \in Inputs : TRUE]   \* until its start
  /\ acquired_resources = [u \in Users |-> {}]
  /\ acquired = [u \in Users |-> None]
  /\ attempts = {} /\ zombies = {}
  /\ ignored = {} /\ abandoned = {}
-----------------------------------------------------------------------------
(* The pool workflow.                                                      *)

\* Signal handler add_resources: known resources are left alone.
AddResources(rs) ==
  /\ resources' = [r \in Resources |->
                     IF r \in rs /\ resources[r] = Absent THEN None ELSE resources[r]]
  /\ UNCHANGED <<waiters, release_key_to_resource, assigning, can_suggested,
                 next_key, userVars, activityVars, signals, ignored, abandoned>>

\* Signal handler acquire_resource.
HandleAcquire(m) ==
  /\ m \in signals /\ m.type = "acquire"
  /\ signals' = signals \ {m}
  /\ waiters' = Append(waiters, m.workflow_id)
  /\ UNCHANGED <<resources, release_key_to_resource, assigning, can_suggested,
                 next_key, userVars, activityVars, ignored, abandoned>>

ForgetKeyOmitted(k, r) == release_key_to_resource   \* mutant: no del
ForgetKey(k, r) == release_key_to_resource \ {<<k, r>>}

\* Signal handler release_resource.  Its third branch (a known key whose
\* resource is not held) is unreachable by KeyMapConsistent.
HandleRelease(m) ==
  /\ m \in signals /\ m.type = "release"
  /\ signals' = signals \ {m}
  /\ \/ /\ \A r \in Resources : <<m.release_key, r>> \notin release_key_to_resource
        /\ ignored' = ignored \cup {m.release_key}
        /\ UNCHANGED <<resources, release_key_to_resource>>
     \/ \E r \in Resources :
          /\ <<m.release_key, r>> \in release_key_to_resource
          /\ IF resources[r] = None
               THEN UNCHANGED <<resources, release_key_to_resource>>
               ELSE /\ resources' = [resources EXCEPT ![r] = None]
                    /\ release_key_to_resource' = ForgetKey(m.release_key, r)
          /\ ignored' = ignored
  /\ UNCHANGED <<waiters, assigning, can_suggested, next_key, userVars,
                 activityVars, abandoned>>

\* get_free_resource: which one is left open.
FreeUnchecked == {r \in Resources : resources[r] # Absent}   \* mutant
Free == {r \in Resources : resources[r] = None}

CanAssignResource == waiters # <<>> /\ Free # {}

\* assign_next_resource up to the await of the signal to the requester.
\* The resource is marked as held only when that await returns.
AssignNext(r) ==
  /\ assigning = None
  /\ waiters # <<>> /\ r \in Free
  /\ waiters' = Tail(waiters)
  /\ assigning' = [workflow_id |-> Head(waiters), resource |-> r,
                   release_key |-> next_key, outcome |-> "sent"]
  /\ next_key' = next_key + 1
  /\ UNCHANGED <<resources, release_key_to_resource, can_suggested, userVars,
                 activityVars, signals, ignored, abandoned>>

\* Temporal delivers the signal to the requester, whose handler
\* _handle_acquire_response keeps it, or finds no running workflow.
DeliverAssign ==
  /\ assigning # None /\ assigning.outcome = "sent"
  /\ LET u == assigning.workflow_id
         open == pc[u] \notin {"idle", "closed"}
     IN  /\ assigning' = [assigning EXCEPT !.outcome = IF open THEN "delivered"
                                                               ELSE "notfound"]
         /\ acquired_resources' =
              IF open
                THEN [acquired_resources EXCEPT ![u] = @ \cup
                        {[resource |-> assigning.resource,
                          release_key |-> assigning.release_key]}]
                ELSE acquired_resources
  /\ UNCHANGED <<resources, waiters, release_key_to_resource, can_suggested,
                 next_key, pc, run, input, acquired, activityVars, signals,
                 ignored, abandoned>>

\* The request as it is kept in resources; the mutant forgets its key.
NewHolder(a) == [workflow_id |-> a.workflow_id, release_signal |-> a.release_key]

\* assign_resource after the await.
AssignResume ==
  /\ assigning # None /\ assigning.outcome # "sent"
  /\ assigning' = None
  /\ IF assigning.outcome = "delivered"
       THEN /\ resources' = [resources EXCEPT ![assigning.resource] =
                                                NewHolder(assigning)]
            /\ release_key_to_resource' = release_key_to_resource \cup
                 {<<assigning.release_key, assigning.resource>>}
       ELSE UNCHANGED <<resources, release_key_to_resource>>
  /\ UNCHANGED <<waiters, can_suggested, next_key, userVars, activityVars,
                 signals, ignored, abandoned>>

\* The server finds the pool's history long.
SuggestContinueAsNew ==
  /\ ~can_suggested
  /\ can_suggested' = TRUE
  /\ UNCHANGED <<resources, waiters, release_key_to_resource, assigning,
                 next_key, userVars, activityVars, signals, ignored, abandoned>>

\* run: continue_as_new with resources and waiters only, followed by the next
\* run's __init__.  No handler awaits, so all_handlers_finished() is TRUE.
ContinueAsNew ==
  /\ assigning = None /\ ~CanAssignResource
  /\ can_suggested /\ can_suggested' = FALSE
  /\ release_key_to_resource' = ReleaseKeys(resources)
  /\ UNCHANGED <<resources, waiters, assigning, next_key, userVars,
                 activityVars, signals, ignored, abandoned>>
-----------------------------------------------------------------------------
(* The users and their ResourcePoolClient.                                 *)

Keys(rs) == {a.release_key : a \in rs}

\* A user is started (again) under its workflow id; its client registers the
\* handler and signals the pool.
Start(u, in) ==
  /\ pc[u] \in {"idle", "closed"} /\ run[u] < MaxRuns
  /\ pc' = [pc EXCEPT ![u] = "waiting"]
  /\ run' = [run EXCEPT ![u] = @ + 1]
  /\ input' = [input EXCEPT ![u] = in]
  /\ signals' = signals \cup {[type |-> "acquire", workflow_id |-> u, run |-> run'[u]]}
  /\ UNCHANGED <<poolVars, acquired_resources, acquired, activityVars, ignored,
                 abandoned>>

\* The wait for acquired_resources ends; the user enters the "async with".
Take(u, a) ==
  /\ pc[u] = "waiting" /\ a \in acquired_resources[u]
  /\ acquired_resources' = [acquired_resources EXCEPT ![u] = @ \ {a}]
  /\ acquired' = [acquired EXCEPT ![u] = a]
  /\ pc' = [pc EXCEPT ![u] = "first"]
  /\ UNCHANGED <<poolVars, run, input, activityVars, signals, ignored, abandoned>>

\* The run ends: what its client received and did not take is forgotten.
Close(u) ==
  /\ pc' = [pc EXCEPT ![u] = "closed"]
  /\ abandoned' = abandoned \cup Keys(acquired_resources[u])
  /\ acquired_resources' = [acquired_resources EXCEPT ![u] = {}]

\* The wait times out (max_wait_time) or is cancelled before a response came:
\* the run ends, the request stays with the pool.
GiveUp(u) ==
  /\ pc[u] = "waiting" /\ acquired_resources[u] = {}
  /\ Close(u)
  /\ UNCHANGED <<poolVars, run, input, acquired, activityVars, signals, ignored>>

\* acquire_resource's finally block, and the end of the run.
ReleaseOmitted(u) ==   \* mutant: no finally
  /\ signals' = signals
  /\ acquired' = [acquired EXCEPT ![u] = None]
  /\ Close(u)
ReleaseAndClose(u) ==
  /\ signals' = signals \cup {[type |-> "release",
                               release_key |-> acquired[u].release_key]}
  /\ acquired' = [acquired EXCEPT ![u] = None]
  /\ Close(u)

\* continue_as_new with the detached resource; the next run reattaches it and
\* will not continue as new again.
ContinueUndetached(u) ==   \* mutant: detach() not called, finally releases
  /\ pc' = [pc EXCEPT ![u] = "first"]
  /\ input' = [input EXCEPT ![u].can = FALSE]
  /\ abandoned' = abandoned \cup Keys(acquired_resources[u])
  /\ acquired_resources' = [acquired_resources EXCEPT ![u] = {}]
  /\ signals' = signals \cup {[type |-> "release",
                               release_key |-> acquired[u].release_key]}
  /\ acquired' = acquired
DetachAndContinue(u) ==
  /\ pc' = [pc EXCEPT ![u] = "first"]
  /\ input' = [input EXCEPT ![u].can = FALSE]
  /\ abandoned' = abandoned \cup Keys(acquired_resources[u])
  /\ acquired_resources' = [acquired_resources EXCEPT ![u] = {}]
  /\ UNCHANGED <<acquired, signals>>

Attempt(u) == <<u, acquired[u].resource>>

\* A worker starts (an attempt of) the use_resource activity of this iteration.
StartActivity(u) ==
  /\ pc[u] \in {"first", "second"} /\ Attempt(u) \notin attempts
  /\ attempts' = attempts \cup {Attempt(u)}
  /\ UNCHANGED <<poolVars, userVars, zombies, signals, ignored, abandoned>>

\* start_to_close_timeout passes and the attempt will be retried; whoever ran
\* the lost attempt does not learn of it.
LoseActivity(u) ==
  /\ pc[u] \in {"first", "second"} /\ Attempt(u) \in attempts
  /\ attempts' = attempts \ {Attempt(u)}
  /\ zombies' = zombies \cup {Attempt(u)}
  /\ UNCHANGED <<poolVars, userVars, signals, ignored, abandoned>>

EndZombie(z) ==
  /\ z \in zombies /\ zombies' = zombies \ {z}
  /\ UNCHANGED <<poolVars, userVars, attempts, signals, ignored, abandoned>>

\* The activity completes: fail after this iteration, go on with the second,
\* continue as new, or leave the "async with" and return.
CompleteActivity(u) ==
  /\ pc[u] \in {"first", "second"} /\ Attempt(u) \in attempts
  /\ attempts' = attempts \ {Attempt(u)}
  /\ \/ /\ input[u].fail = pc[u]
        /\ ReleaseAndClose(u) /\ input' = input
     \/ /\ input[u].fail # pc[u] /\ pc[u] = "first"
        /\ pc' = [pc EXCEPT ![u] = "second"]
        /\ UNCHANGED <<input, acquired_resources, acquired, signals, abandoned>>
     \/ /\ input[u].fail # pc[u] /\ pc[u] = "second" /\ input[u].can
        /\ DetachAndContinue(u)
     \/ /\ input[u].fail # pc[u] /\ pc[u] = "second" /\ ~input[u].can
        /\ ReleaseAndClose(u) /\ input' = input
  /\ UNCHANGED <<poolVars, run, zombies, ignored>>

\* A user is cancelled while it awaits its activity.  The default
\* cancellation type does not wait for the activity, which does not heartbeat
\* and so runs on.
CancelInUse(u) ==
  /\ pc[u] \in {"first", "second"}
  /\ attempts' = attempts \ {Attempt(u)}
  /\ zombies' = zombies \cup (attempts \cap {Attempt(u)})
  /\ ReleaseAndClose(u)
  /\ UNCHANGED <<poolVars, run, input, ignored>>
-----------------------------------------------------------------------------
Pool == \/ \E m \in signals : HandleAcquire(m) \/ HandleRelease(m)
        \/ \E r \in Resources : AssignNext(r)
        \/ DeliverAssign \/ AssignResume

User(u) == \/ \E a \in acquired_resources[u] : Take(u, a)
           \/ StartActivity(u)
           \/ CompleteActivity(u)

Environment == \/ \E rs \in SUBSET Resources : AddResources(rs)
               \/ SuggestContinueAsNew
               \/ ContinueAsNew
               \/ \E u \in Users, in \in Inputs : Start(u, in)
               \/ \E u \in Users : GiveUp(u) \/ CancelInUse(u) \/ LoseActivity(u)
               \/ \E z \in zombies : EndZombie(z)

Next == Pool \/ (\E u \in Users : User(u)) \/ Environment

Spec == Init /\ [][Next]_vars

\* Temporal keeps retrying workflow tasks and activities: the pool handles what
\* is sent to it, and a user whose activity is retried often enough gets its
\* result.  Nobody is obliged to start, cancel or time out anything.
FairSpec == /\ Spec
            /\ WF_vars(DeliverAssign) /\ WF_vars(AssignResume)
            /\ WF_vars(\E r \in Resources : AssignNext(r))
            /\ WF_vars(\E m \in signals : HandleAcquire(m))
            /\ WF_vars(\E m \in signals : HandleRelease(m))
            /\ \A u \in Users :
                 /\ WF_vars(\E a \in acquired_resources[u] : Take(u, a))
                 /\ WF_vars(StartActivity(u))
                 /\ SF_vars(CompleteActivity(u))
-----------------------------------------------------------------------------
(* Correctness.                                                            *)

\* The responses user u has: the one it works with and those not yet taken.
Has(u) == acquired_resources[u] \cup ({acquired[u]} \ {None})

\* No two responses in the users' hands name the same resource: access to a
\* resource is serialized among the user workflows, across the pool's and the
\* users' continue-as-new, failures and cancellations.
OwnershipExclusive ==
  \A u, v \in Users : \A a \in Has(u), b \in Has(v) :
    a.resource = b.resource => u = v /\ a = b

\* The pool and its users agree: whoever has a resource is registered as its
\* holder under the key it will release it with, or the pool is just about to
\* register it (the await in assign_resource has not returned yet).
HolderAgreement ==
  \A u \in Users : \A a \in Has(u) :
    \/ resources[a.resource] = [workflow_id |-> u, release_signal |-> a.release_key]
    \/ assigning = [workflow_id |-> u, resource |-> a.resource,
                    release_key |-> a.release_key, outcome |-> "delivered"]

\* release_key_to_resource, which is not passed through continue-as-new, is at
\* all times what __init__ would rebuild from the holders; in particular a key
\* it knows names a held resource.
KeyMapConsistent == release_key_to_resource = ReleaseKeys(resources)

\* A held resource will be released, unless the release was ignored or a run
\* ended with a response it had not taken: there is no other way to leak one.
LeakOnlyKnownCauses ==
  \A r \in Resources : resources[r] \in Holder =>
    LET k == resources[r].release_signal IN
      \/ \E u \in Users : k \in Keys(Has(u))
      \/ [type |-> "release", release_key |-> k] \in signals
      \/ k \in ignored \cup abandoned

\* README.md, "Caveats": a resource is permanently removed from the pool only
\* if a user times out or is terminated or all workers are gone for good (none
\* of which this model does).  Violated: see LeakOnlyKnownCauses.
NoLeak ==
  \A r \in Resources : resources[r] \in Holder =>
    \/ \E u \in Users : resources[r].release_signal \in Keys(Has(u))
    \/ [type |-> "release", release_key |-> resources[r].release_signal] \in signals

\* Two workflows' activities are on one resource at a time only when one of
\* them is an attempt that Temporal no longer waits for.
ActivitiesExclusive ==
  \A x, y \in attempts : x[2] = y[2] => x = y

\* A waiting user gets its resource or gives up, without counting on the
\* timeout, unless a resource leaked.
WaitersServed ==
  \A u \in Users : pc[u] = "waiting" ~>
    pc[u] # "waiting" \/ ignored \cup abandoned # {}

\* The users' side of the pool is the abstract lock.
Owns == {p \in Users \X Resources : \E a \in Has(p[1]) : a.resource = p[2]}
Lock == INSTANCE ResourceLock WITH owns <- Owns
LockSpec == Lock!Spec
=============================================================================
