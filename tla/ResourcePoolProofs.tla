-------------------------- MODULE ResourcePoolProofs --------------------------
(***************************************************************************)
(* Proofs about ResourcePool for any number of resources, users, inputs    *)
(* and runs.                                                               *)
(***************************************************************************)
EXTENDS ResourcePool, TLAPS

Held(r) == resources[r] \in Holder

\* Keys are never reused: a key in use is below next_key, and no two held
\* resources share one.
KeysFresh ==
  /\ \A r \in Resources : Held(r) => resources[r].release_signal < next_key
  /\ \A m \in signals : m.type = "release" => m.release_key < next_key
  /\ \A r, q \in Resources :
       Held(r) /\ Held(q) /\ resources[r].release_signal = resources[q].release_signal
         => r = q

\* While the pool awaits the delivery of a response, the resource stays free,
\* its key belongs to nobody else, and, before the delivery, nobody knows it.
AssigningFresh ==
  assigning # None =>
    /\ resources[assigning.resource] = None
    /\ assigning.release_key < next_key
    /\ \A r \in Resources : Held(r) =>
         resources[r].release_signal # assigning.release_key
    /\ assigning.outcome = "sent" =>
         \A m \in signals : m.type = "release" => m.release_key # assigning.release_key

\* A key for which a release is under way is in nobody's hands any more.
ReleasedNotHad ==
  \A m \in signals : m.type = "release" =>
    \A u \in Users : m.release_key \notin Keys(Has(u))

\* A user has a resource exactly while it is in its "async with".
AcquiredInUse ==
  \A u \in Users : /\ acquired[u] # None <=> pc[u] \in {"first", "second"}
                   /\ acquired[u] \notin acquired_resources[u]

\* A key that will come back, or that is lost for a known reason.
Accounted(k) == \/ \E u \in Users : k \in Keys(Has(u))
                \/ [type |-> "release", release_key |-> k] \in signals
                \/ k \in ignored \cup abandoned

\* What LeakOnlyKnownCauses says of a held resource holds of a delivered one.
AssigningAccounted ==
  assigning # None /\ assigning.outcome = "delivered" => Accounted(assigning.release_key)

\* An attempt Temporal waits for is one of the user that has the resource.
AttemptsOwned ==
  \A x \in attempts : acquired[x[1]] # None /\ acquired[x[1]].resource = x[2]

\* The strengthening that makes the safety properties inductive.
Safe == /\ TypeOK /\ KeyMapConsistent /\ HolderAgreement
        /\ KeysFresh /\ AssigningFresh /\ ReleasedNotHad /\ AcquiredInUse

IInv == Safe /\ LeakOnlyKnownCauses /\ AssigningAccounted /\ AttemptsOwned
-----------------------------------------------------------------------------
\* The map rebuilt by __init__ has the type of the map.
LEMMA ReleaseKeysType ==
  ASSUME NEW rs \in [Resources -> Holder \cup {Absent, None}]
  PROVE  ReleaseKeys(rs) \subseteq Nat \X Resources
<1> SUFFICES ASSUME NEW r \in Resources, rs[r] \in Holder
             PROVE  <<rs[r].release_signal, r>> \in Nat \X Resources
  BY DEF ReleaseKeys
<1> QED
  BY DEF Holder

\* The initial states are well typed.
LEMMA TypeInit == Init => TypeOK
<1> SUFFICES ASSUME Init PROVE TypeOK
  OBVIOUS
<1>1. (CHOOSE in \in Inputs : TRUE) \in Input
  BY PoolAssumption
<1>2. input \in [Users -> Input]
  BY <1>1 DEF Init
<1>3. resources \in [Resources -> Holder \cup {Absent, None}]
  BY DEF Init
<1>5. waiters \in Seq(Users)
  BY DEF Init
<1>4. release_key_to_resource \subseteq Nat \X Resources
  BY <1>3, ReleaseKeysType DEF Init
<1> QED
  BY <1>2, <1>3, <1>4, <1>5 DEF Init, TypeOK

\* Every step keeps the types.  A step of an activity is typed because a user
\* runs activities only while it has a resource (AcquiredInUse).
LEMMA TypeStep == TypeOK /\ AcquiredInUse /\ [Next]_vars => TypeOK'
<1> SUFFICES ASSUME TypeOK, AcquiredInUse, [Next]_vars PROVE TypeOK'
  OBVIOUS
<1> USE PoolAssumption, NoneAssumption DEF TypeOK
<1>0. ASSUME NEW u \in Users, pc[u] \in {"first", "second"}
      PROVE  acquired[u] \in Response /\ Attempt(u) \in Users \X Resources
  BY <1>0 DEF AcquiredInUse, Attempt, Response
<1>1. ASSUME NEW rs \in SUBSET Resources, AddResources(rs) PROVE TypeOK'
  BY <1>1 DEF AddResources, userVars, activityVars
<1>2. ASSUME NEW m \in signals, HandleAcquire(m) PROVE TypeOK'
  BY <1>2 DEF HandleAcquire, userVars, activityVars, AcquireSignal, ReleaseSignal
<1>3. ASSUME NEW m \in signals, HandleRelease(m) PROVE TypeOK'
  BY <1>3 DEF HandleRelease, ForgetKey, userVars, activityVars, AcquireSignal, ReleaseSignal
<1>4. ASSUME NEW r \in Resources, AssignNext(r) PROVE TypeOK'
  BY <1>4 DEF AssignNext, userVars, activityVars, Pending, Free
<1>5. CASE DeliverAssign
  <2>1. assigning \in Pending
    BY <1>5 DEF DeliverAssign
  <2>2. assigning' \in Pending
    BY <1>5, <2>1 DEF DeliverAssign, Pending
  <2>3. [resource |-> assigning.resource, release_key |-> assigning.release_key] \in Response
    BY <2>1 DEF Pending, Response
  <2>4. acquired_resources' \in [Users -> SUBSET Response]
    BY <1>5, <2>1, <2>3 DEF DeliverAssign, Pending
  <2> QED
    BY <1>5, <2>2, <2>4 DEF DeliverAssign, activityVars
<1>6. CASE AssignResume
  <2>1. assigning \in Pending
    BY <1>6 DEF AssignResume
  <2>2. /\ NewHolder(assigning) \in Holder
        /\ <<assigning.release_key, assigning.resource>> \in Nat \X Resources
    BY <2>1 DEF Pending, Holder, NewHolder
  <2>3. resources' \in [Resources -> Holder \cup {Absent, None}]
    BY <1>6, <2>2 DEF AssignResume
  <2>4. release_key_to_resource' \subseteq Nat \X Resources
    BY <1>6, <2>2 DEF AssignResume
  <2> QED
    BY <1>6, <2>3, <2>4 DEF AssignResume, userVars, activityVars
<1>7. CASE SuggestContinueAsNew
  BY <1>7 DEF SuggestContinueAsNew, userVars, activityVars
<1>8. CASE ContinueAsNew
  <2>1. ReleaseKeys(resources) \subseteq Nat \X Resources
    BY ReleaseKeysType
  <2> QED
    BY <1>8, <2>1 DEF ContinueAsNew, userVars, activityVars
<1>9. ASSUME NEW u \in Users, NEW in \in Inputs, Start(u, in) PROVE TypeOK'
  <2>1. [type |-> "acquire", workflow_id |-> u, run |-> run'[u]] \in AcquireSignal
    BY <1>9 DEF Start, AcquireSignal
  <2> QED
    BY <1>9, <2>1 DEF Start, poolVars, activityVars
<1>10. ASSUME NEW u \in Users, NEW a \in acquired_resources[u], Take(u, a) PROVE TypeOK'
  BY <1>10 DEF Take, poolVars, activityVars
<1>11. ASSUME NEW u \in Users, Close(u)
       PROVE  /\ pc' \in [Users -> {"idle", "waiting", "first", "second", "closed"}]
              /\ abandoned' \subseteq Nat
              /\ acquired_resources' \in [Users -> SUBSET Response]
  <2>1. Keys(acquired_resources[u]) \subseteq Nat
    BY DEF Keys, Response
  <2> QED
    BY <1>11, <2>1 DEF Close
<1>12. ASSUME NEW u \in Users, pc[u] \in {"first", "second"}, ReleaseAndClose(u)
       PROVE  /\ signals' \subseteq AcquireSignal \cup ReleaseSignal
              /\ acquired' \in [Users -> Response \cup {None}]
  BY <1>12, <1>0 DEF ReleaseAndClose, ReleaseSignal, Response
<1>13. ASSUME NEW u \in Users, GiveUp(u) PROVE TypeOK'
  BY <1>13, <1>11 DEF GiveUp, poolVars, activityVars
<1>14. ASSUME NEW u \in Users, StartActivity(u) PROVE TypeOK'
  BY <1>14, <1>0 DEF StartActivity, poolVars, userVars
<1>15. ASSUME NEW u \in Users, LoseActivity(u) PROVE TypeOK'
  BY <1>15, <1>0 DEF LoseActivity, poolVars, userVars
<1>16. ASSUME NEW z \in zombies, EndZombie(z) PROVE TypeOK'
  BY <1>16 DEF EndZombie, poolVars, userVars
<1>17. ASSUME NEW u \in Users, CompleteActivity(u) PROVE TypeOK'
  <2>1. CASE ReleaseAndClose(u) /\ input' = input
    BY <2>1, <1>17, <1>11, <1>12 DEF CompleteActivity, ReleaseAndClose, poolVars
  <2>2. CASE /\ pc' = [pc EXCEPT ![u] = "second"]
             /\ UNCHANGED <<input, acquired_resources, acquired, signals, abandoned>>
    BY <2>2, <1>17 DEF CompleteActivity, poolVars
  <2>3. CASE DetachAndContinue(u)
    <3>0. [input[u] EXCEPT !.can = FALSE] \in Input
      BY DEF Input
    <3>1. input' \in [Users -> Input]
      BY <2>3, <3>0 DEF DetachAndContinue
    <3>2. Keys(acquired_resources[u]) \subseteq Nat
      BY DEF Keys, Response
    <3> QED
      BY <2>3, <3>1, <3>2, <1>17 DEF DetachAndContinue, CompleteActivity, poolVars
  <2> QED
    BY <2>1, <2>2, <2>3, <1>17 DEF CompleteActivity
<1>18. ASSUME NEW u \in Users, CancelInUse(u) PROVE TypeOK'
  BY <1>18, <1>0, <1>11, <1>12 DEF CancelInUse, ReleaseAndClose, poolVars
<1>19. CASE UNCHANGED vars
  BY <1>19 DEF vars, poolVars, userVars, activityVars
<1> QED
  BY <1>1, <1>2, <1>3, <1>4, <1>5, <1>6, <1>7, <1>8, <1>9, <1>10, <1>13, <1>14,
     <1>15, <1>16, <1>17, <1>18, <1>19
  DEF Next, Pool, User, Environment

\* What a user has is a response, typed as such.
LEMMA HasType ==
  ASSUME TypeOK, NEW u \in Users
  PROVE  Has(u) \subseteq Response
BY DEF TypeOK, Has

\* A key of the pool's map is the key of the holder it leads to: the branch of
\* release_resource for a resource that is not held cannot be taken.
LEMMA KnownKeyIsHeld ==
  ASSUME TypeOK, KeyMapConsistent, NEW k, NEW r \in Resources,
         <<k, r>> \in release_key_to_resource
  PROVE  Held(r) /\ resources[r].release_signal = k /\ resources[r] # None
BY NoneAssumption DEF KeyMapConsistent, ReleaseKeys, Held

\* The two ways of HolderAgreement, taken apart.
LEMMA HasCases ==
  ASSUME Safe, NEW u \in Users, NEW a \in Has(u)
  PROVE  \/ /\ Held(a.resource)
            /\ resources[a.resource].workflow_id = u
            /\ resources[a.resource].release_signal = a.release_key
            /\ resources[a.resource] # None
         \/ /\ assigning # None /\ assigning.outcome = "delivered"
            /\ assigning.workflow_id = u
            /\ assigning.resource = a.resource
            /\ assigning.release_key = a.release_key
            /\ resources[a.resource] = None
<1>1. a \in Response
  BY HasType DEF Safe
<1>2. CASE resources[a.resource] = [workflow_id |-> u, release_signal |-> a.release_key]
  BY <1>1, <1>2, NoneAssumption DEF Held, Holder, Response
<1>3. CASE assigning = [workflow_id |-> u, resource |-> a.resource,
                        release_key |-> a.release_key, outcome |-> "delivered"]
  <2>1. assigning \in Pending
    BY <1>1, <1>3 DEF Pending, Response
  <2> QED
    BY <1>3, <2>1, NoneAssumption DEF Safe, AssigningFresh
<1> QED
  BY <1>2, <1>3 DEF Safe, HolderAgreement

\* Outside the window between a delivery and the pool's resumption, whoever has
\* a resource is registered.
LEMMA HasRegistered ==
  ASSUME Safe, NEW u \in Users, NEW a \in Has(u),
         assigning = None \/ assigning.outcome # "delivered"
  PROVE  resources[a.resource] = [workflow_id |-> u, release_signal |-> a.release_key]
<1>1. a \in Response
  BY HasType DEF Safe
<1>2. assigning # [workflow_id |-> u, resource |-> a.resource,
                   release_key |-> a.release_key, outcome |-> "delivered"]
  BY <1>1, NoneAssumption DEF Pending, Response
<1> QED
  BY <1>2 DEF Safe, HolderAgreement

\* Two responses in the users' hands that share their key are one response.
LEMMA SameKey ==
  ASSUME Safe, NEW u \in Users, NEW v \in Users,
         NEW a \in Has(u), NEW b \in Has(v), a.release_key = b.release_key
  PROVE  u = v /\ a = b
<1>1. a \in Response /\ b \in Response
  BY HasType DEF Safe
<1>2. a.resource \in Resources /\ b.resource \in Resources
  BY <1>1 DEF Response
<1>3. a.resource = b.resource /\ u = v
  BY <1>2, HasCases DEF Safe, KeysFresh, AssigningFresh
<1> QED
  BY <1>1, <1>3 DEF Response

\* Mutual exclusion follows from the agreement of pool and users, because the
\* resource being assigned is not registered yet.
LEMMA SafeImpliesExclusive == Safe => OwnershipExclusive
<1> SUFFICES ASSUME Safe, NEW u \in Users, NEW v \in Users,
                    NEW a \in Has(u), NEW b \in Has(v), a.resource = b.resource
             PROVE  u = v /\ a = b
  BY DEF OwnershipExclusive
<1>1. a \in Response /\ b \in Response
  BY HasType DEF Safe
<1>2. u = v /\ a.release_key = b.release_key
  BY HasCases
<1> QED
  BY <1>1, <1>2 DEF Response
-----------------------------------------------------------------------------
\* Adding resources touches no registration.
LEMMA SafeAdd == ASSUME Safe, NEW rs \in SUBSET Resources, AddResources(rs), TypeOK'
                 PROVE  Safe'
<1>1. \A r \in Resources : /\ Held(r)' <=> Held(r)
                           /\ resources[r] # Absent => resources'[r] = resources[r]
  BY NoneAssumption DEF AddResources, Safe, TypeOK, Held
<1>2. /\ UNCHANGED <<release_key_to_resource, assigning, next_key, signals, pc,
                     acquired_resources, acquired>>
      /\ \A u \in Users : Has(u)' = Has(u) /\ Keys(Has(u))' = Keys(Has(u))
  BY DEF AddResources, userVars, Has, Keys
<1>3. KeyMapConsistent'
  BY <1>1, <1>2, NoneAssumption DEF Safe, KeyMapConsistent, ReleaseKeys, Held
<1>4. HolderAgreement'
  <2> SUFFICES ASSUME NEW u \in Users, NEW a \in Has(u)
               PROVE  \/ resources'[a.resource] =
                            [workflow_id |-> u, release_signal |-> a.release_key]
                      \/ assigning = [workflow_id |-> u, resource |-> a.resource,
                                      release_key |-> a.release_key, outcome |-> "delivered"]
    BY <1>2 DEF HolderAgreement
  <2>1. a.resource \in Resources
    BY HasType DEF Safe, Response
  <2> QED
    BY <1>1, <2>1, HasCases, NoneAssumption DEF Safe, HolderAgreement, Held
<1>5. KeysFresh' /\ AssigningFresh'
  <2>1. assigning # None => assigning.resource \in Resources
    BY DEF Safe, TypeOK, Pending
  <2>2. \A r \in Resources : Held(r) => resources'[r] = resources[r]
    BY <1>1, NoneAssumption DEF Held
  <2> QED
    BY <1>1, <1>2, <2>1, <2>2, NoneAssumption DEF Safe, KeysFresh, AssigningFresh
<1>6. ReleasedNotHad' /\ AcquiredInUse'
  BY <1>2 DEF Safe, ReleasedNotHad, AcquiredInUse
<1> QED
  BY <1>3, <1>4, <1>5, <1>6 DEF Safe

\* A step that leaves the pool's registrations alone, takes responses out of the
\* users' hands but puts none in, and sends a release only for a key that was in
\* somebody's hands and no longer is, preserves the invariant.
LEMMA SafeHands ==
  ASSUME Safe, TypeOK', AcquiredInUse',
         UNCHANGED <<resources, release_key_to_resource, assigning, next_key>>,
         \A u \in Users : Has(u)' \subseteq Has(u),
         \A m \in signals' : m.type = "release" =>
           \/ m \in signals
           \/ \E u \in Users : \E a \in Has(u) :
                /\ m.release_key = a.release_key
                /\ \A v \in Users : a.release_key \notin Keys(Has(v))'
  PROVE  Safe'
<1>1. KeyMapConsistent'
  BY DEF Safe, KeyMapConsistent, ReleaseKeys
<1>2. HolderAgreement'
  BY DEF Safe, HolderAgreement
<1>3. \A u \in Users : \A a \in Has(u) :
        /\ a.release_key < next_key
        /\ assigning # None /\ assigning.outcome = "sent" => a.release_key # assigning.release_key
  <2> SUFFICES ASSUME NEW u \in Users, NEW a \in Has(u)
               PROVE  /\ a.release_key < next_key
                      /\ assigning # None /\ assigning.outcome = "sent"
                           => a.release_key # assigning.release_key
    OBVIOUS
  <2>1. a.resource \in Resources
    BY HasType DEF Safe, Response
  <2> QED
    BY <2>1, HasCases DEF Safe, KeysFresh, AssigningFresh
<1>4. KeysFresh' /\ AssigningFresh'
  BY <1>3 DEF Safe, KeysFresh, AssigningFresh, Held
<1>5. ReleasedNotHad'
  BY DEF Safe, ReleasedNotHad, Keys
<1> QED
  BY <1>1, <1>2, <1>4, <1>5 DEF Safe

\* A request only adds a waiter.
LEMMA SafeAcquire == ASSUME Safe, NEW m \in signals, HandleAcquire(m), TypeOK'
                     PROVE  Safe'
<1>1. AcquiredInUse'
  BY DEF Safe, HandleAcquire, userVars, AcquiredInUse
<1>2. \A u \in Users : Has(u)' \subseteq Has(u)
  BY DEF HandleAcquire, userVars, Has
<1> QED
  BY <1>1, <1>2, SafeHands DEF HandleAcquire

\* The handler removes the registration of exactly the resource whose key it is
\* given; by ReleasedNotHad no user relies on it any more.
LEMMA SafeRelease == ASSUME Safe, NEW m \in signals, HandleRelease(m), TypeOK'
                     PROVE  Safe'
<1>1. /\ UNCHANGED <<assigning, next_key, pc, acquired_resources, acquired>>
      /\ signals' \subseteq signals
      /\ \A u \in Users : Has(u)' = Has(u) /\ Keys(Has(u))' = Keys(Has(u))
  BY DEF HandleRelease, userVars, Has, Keys
<1>2. ReleasedNotHad' /\ AcquiredInUse'
  BY <1>1 DEF Safe, ReleasedNotHad, AcquiredInUse
<1>3. CASE UNCHANGED <<resources, release_key_to_resource>>
  BY <1>1, <1>2, <1>3 DEF Safe, KeyMapConsistent, HolderAgreement, KeysFresh,
                          AssigningFresh, ReleaseKeys, Held
<1>4. ASSUME NEW r \in Resources,
             <<m.release_key, r>> \in release_key_to_resource,
             resources' = [resources EXCEPT ![r] = None],
             release_key_to_resource' = ForgetKey(m.release_key, r)
      PROVE  Safe'
  <2>1. Held(r) /\ resources[r].release_signal = m.release_key
    BY <1>4, KnownKeyIsHeld DEF Safe
  <2>2. \A q \in Resources : /\ Held(q)' <=> Held(q) /\ q # r
                             /\ q # r => resources'[q] = resources[q]
    BY <1>4, NoneAssumption DEF Held, Safe, TypeOK
  <2>3. KeyMapConsistent'
    BY <1>4, <2>1, <2>2 DEF Safe, KeyMapConsistent, ReleaseKeys, ForgetKey, Held, KeysFresh
  <2>4. HolderAgreement'
    <3> SUFFICES ASSUME NEW u \in Users, NEW a \in Has(u)
                 PROVE  \/ resources'[a.resource] =
                              [workflow_id |-> u, release_signal |-> a.release_key]
                        \/ assigning = [workflow_id |-> u, resource |-> a.resource,
                                        release_key |-> a.release_key, outcome |-> "delivered"]
      BY <1>1 DEF HolderAgreement
    <3>1. a.resource \in Resources /\ a.release_key # m.release_key
      BY HasType DEF Safe, Response, ReleasedNotHad, Keys, HandleRelease
    <3> QED
      BY <2>1, <2>2, <3>1, HasCases DEF Safe, HolderAgreement
  <2>5. KeysFresh' /\ AssigningFresh'
    <3>1. assigning # None => assigning.resource \in Resources
      BY DEF Safe, TypeOK, Pending
    <3> QED
      BY <1>1, <2>1, <2>2, <3>1, <1>4 DEF Safe, KeysFresh, AssigningFresh, TypeOK
  <2> QED
    BY <1>2, <2>3, <2>4, <2>5 DEF Safe
<1> QED
  BY <1>3, <1>4 DEF HandleRelease

\* The key of a new assignment is fresh: nobody else uses it.
LEMMA SafeAssignNext == ASSUME Safe, NEW r \in Resources, AssignNext(r), TypeOK'
                        PROVE  Safe'
<1>1. /\ UNCHANGED <<resources, release_key_to_resource, signals, pc,
                     acquired_resources, acquired>>
      /\ assigning = None /\ next_key' = next_key + 1 /\ next_key \in Nat
      /\ assigning' = [workflow_id |-> Head(waiters), resource |-> r,
                       release_key |-> next_key, outcome |-> "sent"]
      /\ resources[r] = None
      /\ \A u \in Users : Has(u)' = Has(u) /\ Keys(Has(u))' = Keys(Has(u))
  BY DEF AssignNext, Free, userVars, Has, Keys, Safe, TypeOK
<1>2. \A q \in Resources : Held(q) => resources[q].release_signal \in Nat
  BY DEF Held, Holder
<1>3. \A m \in signals : m.type = "release" => m.release_key \in Nat
  BY DEF Safe, TypeOK, AcquireSignal, ReleaseSignal
<1>4. KeyMapConsistent' /\ AcquiredInUse' /\ ReleasedNotHad'
  BY <1>1 DEF Safe, KeyMapConsistent, ReleaseKeys, AcquiredInUse, ReleasedNotHad
<1>5. HolderAgreement'
  BY <1>1, HasRegistered DEF HolderAgreement
<1>6. KeysFresh'
  BY <1>1, <1>2, <1>3 DEF Safe, KeysFresh, Held
<1>7. AssigningFresh'
  BY <1>1, <1>2, <1>3 DEF Safe, KeysFresh, AssigningFresh, Held
<1> QED
  BY <1>4, <1>5, <1>6, <1>7 DEF Safe

\* The delivery puts into the user's hands a response for a resource nobody has.
LEMMA SafeDeliver == ASSUME Safe, DeliverAssign, TypeOK'
                     PROVE  Safe'
<1>0. PICK w \in Users, a \in Response :
        /\ w = assigning.workflow_id
        /\ a = [resource |-> assigning.resource, release_key |-> assigning.release_key]
  BY DEF DeliverAssign, Safe, TypeOK, Pending, Response
<1> USE <1>0
<1>1. /\ UNCHANGED <<resources, release_key_to_resource, signals, pc, next_key, acquired>>
      /\ assigning \in Pending /\ assigning # None /\ assigning.outcome = "sent"
  BY DEF DeliverAssign, Safe, TypeOK, Pending
<1>2. a # None
  BY NoneAssumption
<1>3. /\ assigning' \in Pending /\ assigning' # None
      /\ assigning'.workflow_id = w
      /\ assigning'.resource = assigning.resource
      /\ assigning'.release_key = assigning.release_key
      /\ assigning'.outcome \in {"delivered", "notfound"}
  BY <1>1, NoneAssumption DEF DeliverAssign, Pending
<1>4. KeyMapConsistent' /\ KeysFresh'
  BY <1>1 DEF Safe, KeyMapConsistent, ReleaseKeys, KeysFresh, Held
<1>5. AssigningFresh'
  BY <1>1, <1>3 DEF Safe, AssigningFresh, Held
<1>6. \A u \in Users : \A b \in Has(u) : b.release_key # a.release_key
  BY <1>1, HasCases, HasType DEF Safe, AssigningFresh, Response
<1>7. CASE pc[w] \in {"idle", "closed"}
  <2>1. UNCHANGED acquired_resources
    BY <1>7 DEF DeliverAssign
  <2>2. \A u \in Users : Has(u)' = Has(u) /\ Keys(Has(u))' = Keys(Has(u))
    BY <1>1, <2>1 DEF Has, Keys
  <2>3. HolderAgreement'
    BY <1>1, <2>2, HasRegistered DEF HolderAgreement
  <2>4. ReleasedNotHad' /\ AcquiredInUse'
    BY <1>1, <2>1, <2>2 DEF Safe, ReleasedNotHad, AcquiredInUse
  <2> QED
    BY <1>4, <1>5, <2>3, <2>4 DEF Safe
<1>8. CASE pc[w] \notin {"idle", "closed"}
  <2>1. /\ acquired_resources' = [acquired_resources EXCEPT ![w] = @ \cup {a}]
        /\ assigning'.outcome = "delivered"
    BY <1>1, <1>8 DEF DeliverAssign, Pending
  <2>2. /\ \A u \in Users \ {w} : Has(u)' = Has(u)
        /\ Has(w)' = Has(w) \cup {a}
    BY <1>1, <1>2, <2>1 DEF Has, Safe, TypeOK
  <2>3. assigning' = [workflow_id |-> w, resource |-> a.resource,
                      release_key |-> a.release_key, outcome |-> "delivered"]
    BY <1>1, <1>3, <2>1, <1>8 DEF DeliverAssign, Pending
  <2>4. HolderAgreement'
    <3> SUFFICES ASSUME NEW u \in Users, NEW b \in Has(u)'
                 PROVE  \/ resources'[b.resource] =
                              [workflow_id |-> u, release_signal |-> b.release_key]
                        \/ assigning' = [workflow_id |-> u, resource |-> b.resource,
                                         release_key |-> b.release_key, outcome |-> "delivered"]
      BY DEF HolderAgreement
    <3>1. CASE b \in Has(u)
      BY <1>1, <3>1, HasRegistered
    <3>2. CASE u = w /\ b = a
      BY <2>3, <3>2
    <3> QED
      BY <2>2, <3>1, <3>2
  <2>5. ReleasedNotHad'
    <3>1. \A u \in Users : Keys(Has(u))' \subseteq Keys(Has(u)) \cup {a.release_key}
      BY <2>2 DEF Keys
    <3> QED
      BY <1>1, <3>1 DEF Safe, ReleasedNotHad, AssigningFresh
  <2>6. AcquiredInUse'
    <3>1. a # acquired[w]
      BY <1>1, <1>2, <1>6 DEF Has
    <3> QED
      BY <1>1, <2>1, <3>1 DEF Safe, AcquiredInUse, TypeOK
  <2> QED
    BY <1>4, <1>5, <2>4, <2>5, <2>6 DEF Safe
<1> QED
  BY <1>7, <1>8

\* The pool registers what it assigned: the other way to agree with the user.
LEMMA SafeResume == ASSUME Safe, AssignResume, TypeOK'
                    PROVE  Safe'
<1> DEFINE r == assigning.resource
           k == assigning.release_key
<1>1. /\ UNCHANGED <<signals, pc, next_key, acquired, acquired_resources>>
      /\ assigning \in Pending /\ assigning # None /\ assigning' = None
      /\ r \in Resources /\ k \in Nat /\ resources[r] = None
      /\ \A u \in Users : Has(u)' = Has(u) /\ Keys(Has(u))' = Keys(Has(u))
  BY DEF AssignResume, userVars, Safe, TypeOK, Pending, AssigningFresh, Has, Keys
<1>2. ReleasedNotHad' /\ AcquiredInUse'
  BY <1>1 DEF Safe, ReleasedNotHad, AcquiredInUse
<1>3. CASE assigning.outcome = "delivered"
  <2>1. /\ resources' = [resources EXCEPT ![r] = NewHolder(assigning)]
        /\ release_key_to_resource' = release_key_to_resource \cup {<<k, r>>}
    BY <1>3 DEF AssignResume
  <2>2. /\ NewHolder(assigning) \in Holder
        /\ NewHolder(assigning).release_signal = k
    BY <1>1 DEF NewHolder, Holder, Pending
  <2>3. \A q \in Resources : /\ Held(q)' <=> Held(q) \/ q = r
                             /\ q # r => resources'[q] = resources[q]
                             /\ q = r => resources'[q] = NewHolder(assigning)
    BY <1>1, <2>1, <2>2 DEF Held, Safe, TypeOK
  <2>4. ~Held(r)
    BY <1>1, NoneAssumption DEF Held
  <2>5. KeyMapConsistent'
    BY <1>1, <2>1, <2>2, <2>3, <2>4 DEF Safe, KeyMapConsistent, ReleaseKeys, Held
  <2>6. HolderAgreement'
    <3> SUFFICES ASSUME NEW u \in Users, NEW a \in Has(u)
                 PROVE  resources'[a.resource] =
                          [workflow_id |-> u, release_signal |-> a.release_key]
      BY <1>1 DEF HolderAgreement
    <3>1. a.resource \in Resources
      BY HasType DEF Safe, Response
    <3>2. CASE a.resource = r
      BY <1>1, <2>3, <3>1, <3>2, HasCases DEF NewHolder
    <3>3. CASE a.resource # r
      BY <1>1, <2>3, <3>1, <3>3, HasCases DEF Safe, HolderAgreement
    <3> QED
      BY <3>2, <3>3
  <2>7. KeysFresh'
    BY <1>1, <2>2, <2>3, <2>4 DEF Safe, KeysFresh, AssigningFresh
  <2> QED
    BY <1>1, <1>2, <2>5, <2>6, <2>7 DEF Safe, AssigningFresh
<1>4. CASE assigning.outcome # "delivered"
  <2>1. UNCHANGED <<resources, release_key_to_resource>>
    BY <1>4 DEF AssignResume
  <2>2. HolderAgreement'
    BY <1>1, <1>4, <2>1, HasRegistered DEF HolderAgreement
  <2>3. KeyMapConsistent' /\ KeysFresh'
    BY <1>1, <2>1 DEF Safe, KeyMapConsistent, ReleaseKeys, KeysFresh, Held
  <2> QED
    BY <1>1, <1>2, <2>2, <2>3 DEF Safe, AssigningFresh
<1> QED
  BY <1>3, <1>4

\* continue_as_new loses nothing: the map the next run rebuilds is the old one.
LEMMA SafeContinueAsNew == ASSUME Safe, ContinueAsNew, TypeOK'
                           PROVE  Safe'
<1>1. UNCHANGED release_key_to_resource
  BY DEF Safe, ContinueAsNew, KeyMapConsistent
<1>2. AcquiredInUse'
  BY DEF Safe, ContinueAsNew, userVars, AcquiredInUse
<1>3. \A u \in Users : Has(u)' \subseteq Has(u)
  BY DEF ContinueAsNew, userVars, Has
<1> QED
  BY <1>1, <1>2, <1>3, SafeHands DEF ContinueAsNew
-----------------------------------------------------------------------------
\* Taking a response moves it within the user's hands.
LEMMA SafeTake == ASSUME Safe, NEW u \in Users, NEW a \in acquired_resources[u],
                         Take(u, a), TypeOK'
                  PROVE  Safe'
<1>1. acquired[u] = None /\ a # None /\ a \in Has(u)
  BY NoneAssumption DEF Safe, AcquiredInUse, Take, TypeOK, Has
<1>2. AcquiredInUse'
  BY <1>1 DEF Safe, TypeOK, Take, AcquiredInUse
<1>3. \A v \in Users : Has(v)' \subseteq Has(v)
  BY <1>1 DEF Take, Has, Safe, TypeOK
<1> QED
  BY <1>2, <1>3, SafeHands DEF Take, poolVars

\* A run that gives up waiting had nothing in its hands.
LEMMA SafeGiveUp == ASSUME Safe, NEW u \in Users, GiveUp(u), TypeOK'
                    PROVE  Safe'
<1>1. AcquiredInUse'
  BY DEF Safe, TypeOK, GiveUp, Close, AcquiredInUse
<1>2. \A v \in Users : Has(v)' \subseteq Has(v)
  BY DEF GiveUp, Close, Has, Safe, TypeOK
<1> QED
  BY <1>1, <1>2, SafeHands DEF GiveUp, poolVars

\* A run that releases its resource and ends keeps nothing: the key it sends
\* back was its own (SameKey) and is in nobody's hands afterwards.
LEMMA SafeRelease2 == ASSUME Safe, NEW u \in Users, pc[u] \in {"first", "second"},
                             ReleaseAndClose(u), UNCHANGED poolVars, TypeOK'
                      PROVE  Safe'
<1>1. acquired[u] \in Has(u) /\ acquired[u] # None
  BY DEF Safe, AcquiredInUse, Has
<1>2. AcquiredInUse'
  BY DEF Safe, TypeOK, ReleaseAndClose, Close, AcquiredInUse
<1>3. /\ \A v \in Users \ {u} : Has(v)' = Has(v)
      /\ Has(u)' = {}
  BY DEF ReleaseAndClose, Close, Has, Safe, TypeOK
<1>4. \A v \in Users : acquired[u].release_key \notin Keys(Has(v))'
  BY <1>1, <1>3, SameKey DEF Keys
<1> QED
  BY <1>1, <1>2, <1>3, <1>4, SafeHands DEF ReleaseAndClose, poolVars

\* A detached resource stays in the user's hands.
LEMMA SafeDetach == ASSUME Safe, NEW u \in Users, pc[u] = "second",
                           DetachAndContinue(u), UNCHANGED poolVars, TypeOK'
                    PROVE  Safe'
<1>1. AcquiredInUse'
  BY DEF Safe, TypeOK, DetachAndContinue, AcquiredInUse
<1>2. \A v \in Users : Has(v)' \subseteq Has(v)
  BY DEF DetachAndContinue, Has, Safe, TypeOK
<1> QED
  BY <1>1, <1>2, SafeHands DEF DetachAndContinue, poolVars

\* Every step preserves the inductive invariant.
LEMMA SafeStep == Safe /\ [Next]_vars => Safe'
<1> SUFFICES ASSUME Safe, [Next]_vars PROVE Safe'
  OBVIOUS
<1>T. TypeOK'
  BY TypeStep DEF Safe
<1>0. ASSUME UNCHANGED <<resources, release_key_to_resource, assigning, next_key,
                         acquired_resources, acquired>>,
             \A u \in Users : pc'[u] \in {"first", "second"} <=> pc[u] \in {"first", "second"},
             \A m \in signals' : m.type = "release" => m \in signals
      PROVE  Safe'
  <2>1. AcquiredInUse'
    BY <1>0 DEF Safe, AcquiredInUse
  <2>2. \A u \in Users : Has(u)' \subseteq Has(u)
    BY <1>0 DEF Has
  <2> QED
    BY <1>0, <1>T, <2>1, <2>2, SafeHands
<1>1. ASSUME NEW u \in Users, NEW in \in Inputs, Start(u, in) PROVE Safe'
  BY <1>0, <1>1 DEF Start, poolVars, Safe, TypeOK
<1>2. CASE SuggestContinueAsNew
  BY <1>0, <1>2 DEF SuggestContinueAsNew, userVars
<1>3. ASSUME NEW u \in Users, StartActivity(u) \/ LoseActivity(u) PROVE Safe'
  BY <1>0, <1>3 DEF StartActivity, LoseActivity, poolVars, userVars
<1>4. ASSUME NEW z \in zombies, EndZombie(z) PROVE Safe'
  BY <1>0, <1>4 DEF EndZombie, poolVars, userVars
<1>5. ASSUME NEW u \in Users, CompleteActivity(u) PROVE Safe'
  <2>1. UNCHANGED poolVars /\ pc[u] \in {"first", "second"}
    BY <1>5 DEF CompleteActivity
  <2>2. CASE ReleaseAndClose(u)
    BY <2>1, <2>2, <1>T, SafeRelease2
  <2>3. CASE /\ pc[u] = "first" /\ pc' = [pc EXCEPT ![u] = "second"]
             /\ UNCHANGED <<input, acquired_resources, acquired, signals, abandoned>>
    BY <1>0, <2>1, <2>3 DEF poolVars, Safe, TypeOK
  <2>4. CASE pc[u] = "second" /\ DetachAndContinue(u)
    BY <2>1, <2>4, <1>T, SafeDetach
  <2> QED
    BY <1>5, <2>2, <2>3, <2>4 DEF CompleteActivity
<1>6. ASSUME NEW u \in Users, CancelInUse(u) PROVE Safe'
  BY <1>6, <1>T, SafeRelease2 DEF CancelInUse
<1>7. CASE UNCHANGED vars
  BY <1>0, <1>7 DEF vars, poolVars, userVars
<1> QED
  BY <1>T, <1>1, <1>2, <1>3, <1>4, <1>5, <1>6, <1>7, SafeAdd, SafeAcquire, SafeRelease,
     SafeAssignNext, SafeDeliver, SafeResume, SafeContinueAsNew, SafeTake, SafeGiveUp
  DEF Next, Pool, User, Environment

\* The initial states satisfy the invariant.
LEMMA SafeInit == Init => Safe
<1> SUFFICES ASSUME Init PROVE Safe
  OBVIOUS
<1>1. \A r \in Resources : ~Held(r)
  BY NoneAssumption DEF Init, Held
<1>2. \A u \in Users : Has(u) = {} /\ acquired[u] = None /\ None \notin acquired_resources[u]
  BY DEF Init, Has
<1> QED
  BY <1>1, <1>2, TypeInit
  DEF Init, Safe, KeyMapConsistent, HolderAgreement, KeysFresh, AssigningFresh,
      ReleasedNotHad, AcquiredInUse

\* The inductive invariant holds in every reachable state.
THEOREM Invariant == Spec => []Safe
BY SafeInit, SafeStep, PTL DEF Spec

\* The state of the pool, its clients and its users keeps its shape.
THEOREM TypeCorrect == Spec => []TypeOK
<1>1. Safe => TypeOK
  BY DEF Safe
<1> QED
  BY <1>1, Invariant, PTL

\* Mutual exclusion: no two responses in the users' hands name the same
\* resource, whatever the interleaving of requests, releases, failures,
\* cancellations and continue-as-new.
THEOREM MutualExclusion == Spec => []OwnershipExclusive
BY SafeImpliesExclusive, Invariant, PTL

\* The pool and its users agree on who holds what under which key.
THEOREM Agreement == Spec => []HolderAgreement
<1>1. Safe => HolderAgreement
  BY DEF Safe
<1> QED
  BY <1>1, Invariant, PTL

\* continue_as_new may drop release_key_to_resource: __init__ rebuilds it.
THEOREM KeyMap == Spec => []KeyMapConsistent
<1>1. Safe => KeyMapConsistent
  BY DEF Safe
<1> QED
  BY <1>1, Invariant, PTL
-----------------------------------------------------------------------------
\* When a run ends, everything its client had not taken is abandoned; when it
\* releases, the key is on its way: no step but its own release makes the pool
\* forget about a key.
LEMMA AccountedStep ==
  ASSUME Safe, [Next]_vars, NEW k, Accounted(k)
  PROVE  \/ Accounted(k)'
         \/ \E m \in signals, r \in Resources :
              HandleRelease(m) /\ m.release_key = k /\ <<k, r>> \in release_key_to_resource
<1> USE DEF Accounted
<1>0. ASSUME UNCHANGED <<acquired_resources, acquired>>, signals \subseteq signals',
             ignored \subseteq ignored', abandoned \subseteq abandoned'
      PROVE  Accounted(k)'
  BY <1>0 DEF Has
<1>1. ASSUME NEW m \in signals, HandleAcquire(m) PROVE Accounted(k)'
  <2>1. m # [type |-> "release", release_key |-> k]
    BY <1>1 DEF HandleAcquire
  <2> QED
    BY <1>1, <2>1 DEF HandleAcquire, userVars, Has
<1>2. ASSUME NEW m \in signals, HandleRelease(m),
             \A r \in Resources : <<k, r>> \notin release_key_to_resource
      PROVE  Accounted(k)'
  <2>1. UNCHANGED <<acquired_resources, acquired, abandoned>>
    BY <1>2 DEF HandleRelease, userVars
  <2>2. CASE m = [type |-> "release", release_key |-> k]
    BY <1>2, <2>2 DEF HandleRelease
  <2>3. CASE m # [type |-> "release", release_key |-> k]
    BY <1>2, <2>1, <2>3 DEF HandleRelease, Has
  <2> QED
    BY <2>2, <2>3
<1>3. ASSUME NEW m \in signals, HandleRelease(m), m.release_key # k PROVE Accounted(k)'
  <2>1. UNCHANGED <<acquired_resources, acquired, abandoned>>
    BY <1>3 DEF HandleRelease, userVars
  <2>2. m # [type |-> "release", release_key |-> k]
    BY <1>3
  <2>3. signals' = signals \ {m} /\ ignored \subseteq ignored'
    BY <1>3 DEF HandleRelease
  <2> QED
    BY <2>1, <2>2, <2>3 DEF Has
<1>4. CASE DeliverAssign
  <2>1. \A u \in Users : Has(u) \subseteq Has(u)'
    BY <1>4 DEF DeliverAssign, Has, Safe, TypeOK
  <2> QED
    BY <1>4, <2>1 DEF DeliverAssign, Keys
<1>5. ASSUME NEW u \in Users, NEW a \in acquired_resources[u], Take(u, a) PROVE Accounted(k)'
  <2>1. a # None /\ acquired[u] = None
    BY <1>5, NoneAssumption DEF Safe, TypeOK, AcquiredInUse, Take
  <2>2. \A v \in Users : Has(v)' = Has(v)
    BY <1>5, <2>1 DEF Take, Has, Safe, TypeOK
  <2> QED
    BY <1>5, <2>2 DEF Take, Keys
<1>6. ASSUME NEW u \in Users, Close(u), signals \subseteq signals', ignored' = ignored,
             \A v \in Users \ {u} : acquired'[v] = acquired[v],
             \/ acquired[u] = None
             \/ [type |-> "release", release_key |-> acquired[u].release_key] \in signals'
      PROVE  Accounted(k)'
  <2>1. CASE k \in Keys(acquired_resources[u])
    BY <1>6, <2>1 DEF Close
  <2>2. CASE acquired[u] # None /\ k = acquired[u].release_key
    BY <1>6, <2>2
  <2>3. CASE \E v \in Users \ {u} : k \in Keys(Has(v))
    <3>1. \A v \in Users \ {u} : Has(v)' = Has(v)
      BY <1>6 DEF Close, Has, Safe, TypeOK
    <3> QED
      BY <2>3, <3>1 DEF Keys
  <2>4. CASE [type |-> "release", release_key |-> k] \in signals \/ k \in ignored \cup abandoned
    BY <1>6, <2>4 DEF Close
  <2> QED
    BY <2>1, <2>2, <2>3, <2>4 DEF Keys, Has
<1>7. ASSUME NEW u \in Users, GiveUp(u) PROVE Accounted(k)'
  BY <1>6, <1>7 DEF GiveUp, Safe, AcquiredInUse
<1>8. ASSUME NEW u \in Users, ReleaseAndClose(u), ignored' = ignored PROVE Accounted(k)'
  <2>1. \A v \in Users \ {u} : acquired'[v] = acquired[v]
    BY <1>8 DEF ReleaseAndClose, Safe, TypeOK
  <2> QED
    BY <1>6, <1>8, <2>1 DEF ReleaseAndClose
<1>9. ASSUME NEW u \in Users, DetachAndContinue(u), ignored' = ignored PROVE Accounted(k)'
  <2>1. CASE k \in Keys(acquired_resources[u])
    BY <1>9, <2>1 DEF DetachAndContinue
  <2>2. CASE \E v \in Users : \E b \in Has(v) \ acquired_resources[u] : k = b.release_key
    <3>1. \A v \in Users : Has(v) \ acquired_resources[u] \subseteq Has(v)'
      BY <1>9 DEF DetachAndContinue, Has, Safe, TypeOK
    <3> QED
      BY <2>2, <3>1 DEF Keys
  <2>3. CASE [type |-> "release", release_key |-> k] \in signals \/ k \in ignored \cup abandoned
    BY <1>9, <2>3 DEF DetachAndContinue
  <2> QED
    BY <2>1, <2>2, <2>3 DEF Keys
<1>10. ASSUME NEW u \in Users, CompleteActivity(u) PROVE Accounted(k)'
  BY <1>0, <1>8, <1>9, <1>10 DEF CompleteActivity
<1>11. ASSUME NEW u \in Users, CancelInUse(u) PROVE Accounted(k)'
  BY <1>8, <1>11 DEF CancelInUse
<1>12. ASSUME NEW rs \in SUBSET Resources, AddResources(rs) PROVE Accounted(k)'
  BY <1>0, <1>12 DEF AddResources, userVars
<1>13. ASSUME NEW r \in Resources, AssignNext(r) PROVE Accounted(k)'
  BY <1>0, <1>13 DEF AssignNext, userVars
<1>14. CASE AssignResume \/ SuggestContinueAsNew \/ ContinueAsNew
  BY <1>0, <1>14 DEF AssignResume, SuggestContinueAsNew, ContinueAsNew, userVars
<1>15. ASSUME NEW u \in Users, NEW in \in Inputs, Start(u, in) PROVE Accounted(k)'
  BY <1>0, <1>15 DEF Start
<1>16. ASSUME NEW u \in Users, StartActivity(u) \/ LoseActivity(u) PROVE Accounted(k)'
  BY <1>0, <1>16 DEF StartActivity, LoseActivity, userVars
<1>17. ASSUME NEW z \in zombies, EndZombie(z) PROVE Accounted(k)'
  BY <1>0, <1>17 DEF EndZombie, userVars
<1>18. CASE UNCHANGED vars
  BY <1>0, <1>18 DEF vars, userVars
<1> QED
  BY <1>1, <1>2, <1>3, <1>4, <1>5, <1>7, <1>10, <1>11, <1>12, <1>13, <1>14, <1>15,
     <1>16, <1>17, <1>18
  DEF Next, Pool, User, Environment

\* A resource becomes held only when its assignment is registered, and what is
\* registered was delivered before.
LEMMA LeakStep ==
  ASSUME Safe, Safe', LeakOnlyKnownCauses, AssigningAccounted, [Next]_vars
  PROVE  LeakOnlyKnownCauses' /\ AssigningAccounted'
<1>1. \A r \in Resources : Held(r) => Accounted(resources[r].release_signal)
  BY DEF LeakOnlyKnownCauses, Accounted, Held
<1>2. ASSUME NEW r \in Resources, Held(r)'
      PROVE  \/ Held(r) /\ resources'[r] = resources[r]
             \/ /\ assigning # None /\ assigning.outcome = "delivered"
                /\ resources'[r].release_signal = assigning.release_key
                /\ UNCHANGED <<signals, acquired_resources, acquired, ignored, abandoned>>
  <2>1. CASE UNCHANGED resources
    BY <1>2, <2>1 DEF Held
  <2>2. ASSUME NEW rs \in SUBSET Resources, AddResources(rs) PROVE Held(r) /\ resources'[r] = resources[r]
    BY <1>2, <2>2, NoneAssumption DEF AddResources, Held
  <2>3. ASSUME NEW m \in signals, HandleRelease(m) PROVE Held(r) /\ resources'[r] = resources[r]
    BY <1>2, <2>3, NoneAssumption DEF HandleRelease, Held, Safe, TypeOK
  <2>4. CASE AssignResume
    BY <1>2, <2>4 DEF AssignResume, NewHolder, Held, Safe, TypeOK, userVars
  <2> QED
    BY <2>1, <2>2, <2>3, <2>4
    DEF Next, Pool, User, Environment, vars, poolVars, HandleAcquire, AssignNext,
        DeliverAssign, SuggestContinueAsNew, ContinueAsNew, Start, Take, GiveUp,
        StartActivity, LoseActivity, EndZombie, CompleteActivity, CancelInUse
<1>3. ASSUME NEW m \in signals, NEW r \in Resources, HandleRelease(m),
             <<m.release_key, r>> \in release_key_to_resource
      PROVE  /\ \A q \in Resources : Held(q)' => resources'[q].release_signal # m.release_key
             /\ assigning' = assigning
             /\ assigning # None => assigning.release_key # m.release_key
  <2>1. Held(r) /\ resources[r].release_signal = m.release_key
    BY <1>3, KnownKeyIsHeld DEF Safe
  <2>2. \A q \in Resources : <<m.release_key, q>> \in release_key_to_resource => q = r
    BY <2>1, KnownKeyIsHeld DEF Safe, KeysFresh
  <2>3. resources[r] # None
    BY <2>1, NoneAssumption DEF Held
  <2>4. resources' = [resources EXCEPT ![r] = None] /\ assigning' = assigning
    BY <1>3, <2>2, <2>3 DEF HandleRelease
  <2> QED
    BY <2>1, <2>4, NoneAssumption DEF Safe, TypeOK, KeysFresh, AssigningFresh, Held
<1>4. LeakOnlyKnownCauses'
  <2> SUFFICES ASSUME NEW r \in Resources, Held(r)'
               PROVE  Accounted(resources[r].release_signal)'
    BY DEF LeakOnlyKnownCauses, Accounted, Held
  <2>1. CASE Held(r) /\ resources'[r] = resources[r]
    <3>1. Accounted(resources[r].release_signal)
      BY <1>1, <2>1
    <3>2. PICK k : k = resources[r].release_signal
      OBVIOUS
    <3>3. Accounted(k)
      BY <3>1, <3>2
    <3>4. ASSUME NEW m \in signals, NEW q \in Resources, HandleRelease(m),
                 m.release_key = k, <<k, q>> \in release_key_to_resource
          PROVE  FALSE
      <4>1. resources'[r].release_signal # m.release_key
        BY <1>3, <3>4
      <4> QED
        BY <4>1, <3>2, <3>4, <2>1
    <3>5. Accounted(k)'
      BY <3>3, <3>4, AccountedStep
    <3> QED
      BY <3>2, <3>5, <2>1 DEF Accounted
  <2>2. CASE /\ assigning # None /\ assigning.outcome = "delivered"
             /\ resources'[r].release_signal = assigning.release_key
             /\ UNCHANGED <<signals, acquired_resources, acquired, ignored, abandoned>>
    BY <2>2 DEF AssigningAccounted, Accounted, Has, Keys
  <2> QED
    BY <1>2, <2>1, <2>2
<1>5. AssigningAccounted'
  <2> SUFFICES ASSUME assigning' # None, assigning'.outcome = "delivered"
               PROVE  Accounted(assigning.release_key)'
    BY DEF AssigningAccounted
  <2>1. CASE assigning' = assigning
    <3>1. PICK k : k = assigning.release_key
      OBVIOUS
    <3>2. Accounted(k)'
      BY <2>1, <3>1, <1>3, AccountedStep DEF AssigningAccounted
    <3> QED
      BY <2>1, <3>1, <3>2 DEF Accounted
  <2>2. CASE DeliverAssign
    <3>1. /\ assigning \in Pending /\ assigning.workflow_id \in Users
          /\ assigning'.release_key = assigning.release_key
          /\ pc[assigning.workflow_id] \notin {"idle", "closed"}
      BY <2>2 DEF DeliverAssign, Safe, TypeOK, Pending
    <3>2. PICK w \in Users : w = assigning.workflow_id
      BY <3>1
    <3>3. PICK a : a = [resource |-> assigning.resource, release_key |-> assigning.release_key]
      OBVIOUS
    <3>4. acquired_resources' = [acquired_resources EXCEPT ![w] = @ \cup {a}]
      BY <2>2, <3>1, <3>2, <3>3 DEF DeliverAssign
    <3>5. a \in Has(w)' /\ a.release_key = assigning'.release_key
      BY <3>1, <3>3, <3>4 DEF Has, Safe, TypeOK
    <3>6. assigning'.release_key \in Keys(Has(w))'
      BY <3>5 DEF Keys
    <3> QED
      BY <3>6 DEF Accounted
  <2>3. ASSUME NEW r \in Resources, AssignNext(r) PROVE FALSE
    BY <2>3 DEF AssignNext
  <2>4. ~AssignResume
    BY DEF AssignResume
  <2> QED
    BY <2>1, <2>2, <2>3, <2>4
    DEF Next, Pool, User, Environment, vars, poolVars, HandleAcquire, HandleRelease,
        AddResources, SuggestContinueAsNew, ContinueAsNew, Start, Take, GiveUp,
        StartActivity, LoseActivity, EndZombie, CompleteActivity, CancelInUse
<1> QED
  BY <1>4, <1>5

\* An attempt is waited for only while its user has the resource.
LEMMA AttemptsStep ==
  ASSUME Safe, AttemptsOwned, [Next]_vars PROVE AttemptsOwned'
<1>T. attempts \subseteq Users \X Resources /\ acquired \in [Users -> Response \cup {None}]
  BY DEF Safe, TypeOK
<1>1. CASE attempts' \subseteq attempts /\ UNCHANGED acquired
  BY <1>1 DEF AttemptsOwned
<1>2. ASSUME NEW u \in Users, StartActivity(u) PROVE AttemptsOwned'
  BY <1>2 DEF StartActivity, Attempt, userVars, AttemptsOwned, Safe, AcquiredInUse
<1>3. ASSUME NEW u \in Users, NEW a \in acquired_resources[u], Take(u, a) PROVE AttemptsOwned'
  <2>1. acquired[u] = None /\ UNCHANGED attempts /\ acquired' = [acquired EXCEPT ![u] = a]
    BY <1>3 DEF Take, Safe, AcquiredInUse, activityVars
  <2> QED
    BY <2>1, <1>T DEF AttemptsOwned
<1>4. ASSUME NEW u \in Users, ReleaseAndClose(u), attempts' = attempts \ {Attempt(u)}
      PROVE  AttemptsOwned'
  <2>1. \A x \in attempts' : x[1] \in Users /\ x[1] # u
    BY <1>4, <1>T DEF AttemptsOwned, Attempt
  <2> QED
    BY <1>4, <1>T, <2>1 DEF AttemptsOwned, ReleaseAndClose
<1>5. ASSUME NEW u \in Users, CompleteActivity(u) PROVE AttemptsOwned'
  BY <1>1, <1>4, <1>5 DEF CompleteActivity, DetachAndContinue
<1>6. ASSUME NEW u \in Users, CancelInUse(u) PROVE AttemptsOwned'
  BY <1>4, <1>6 DEF CancelInUse
<1> QED
  BY <1>1, <1>2, <1>3, <1>5, <1>6
  DEF Next, Pool, User, Environment, vars, userVars, activityVars, HandleAcquire,
      HandleRelease, AssignNext, DeliverAssign, AssignResume, AddResources,
      SuggestContinueAsNew, ContinueAsNew, Start, GiveUp, LoseActivity, EndZombie

\* The full invariant, with what accounts for every key and every attempt.
THEOREM FullInvariant == Spec => []IInv
<1>1. Init => IInv
  <2> SUFFICES ASSUME Init PROVE IInv
    OBVIOUS
  <2>1. \A r \in Resources : resources[r] \notin Holder
    BY NoneAssumption DEF Init
  <2> QED
    BY <2>1, SafeInit
    DEF Init, IInv, LeakOnlyKnownCauses, AssigningAccounted, AttemptsOwned
<1>2. IInv /\ [Next]_vars => IInv'
  BY SafeStep, LeakStep, AttemptsStep DEF IInv
<1> QED
  BY <1>1, <1>2, PTL DEF Spec

\* The only ways to leak a resource are a release that was ignored and a
\* response that a run ended without taking.
THEOREM LeakCauses == Spec => []LeakOnlyKnownCauses
<1>1. IInv => LeakOnlyKnownCauses
  BY DEF IInv
<1> QED
  BY <1>1, FullInvariant, PTL

\* No two activities that Temporal waits for use the same resource.
THEOREM ActivityExclusion == Spec => []ActivitiesExclusive
<1>1. IInv => ActivitiesExclusive
  <2> SUFFICES ASSUME IInv, NEW x \in attempts, NEW y \in attempts, x[2] = y[2]
               PROVE  x = y
    BY DEF ActivitiesExclusive
  <2>1. x \in Users \X Resources /\ y \in Users \X Resources
    BY DEF IInv, Safe, TypeOK
  <2>2. acquired[x[1]] \in Has(x[1]) /\ acquired[y[1]] \in Has(y[1])
    BY DEF IInv, AttemptsOwned, Has
  <2>3. x[1] = y[1]
    BY <2>1, <2>2, SafeImpliesExclusive DEF IInv, AttemptsOwned, OwnershipExclusive
  <2> QED
    BY <2>1, <2>3
<1> QED
  BY <1>1, FullInvariant, PTL
-----------------------------------------------------------------------------
\* Every step of the pool and its users is a step of the abstract lock or leaves
\* it alone: a delivery grants a resource nobody owns, a run that ends or
\* continues as new gives back what it no longer has.
LEMMA LockStep == Safe /\ [Next]_vars => [Lock!Next]_Owns
<1> SUFFICES ASSUME Safe, [Next]_vars PROVE [Lock!Next]_Owns
  OBVIOUS
<1>0. ASSUME \A u \in Users : Has(u)' = Has(u) PROVE Owns' = Owns
  BY <1>0 DEF Owns
<1>1. CASE UNCHANGED <<acquired_resources, acquired>>
  BY <1>0, <1>1 DEF Has
<1>2. ASSUME NEW u \in Users, NEW rs \in SUBSET Resources,
             \A v \in Users \ {u} : Has(v)' = Has(v),
             Has(u)' = {a \in Has(u) : a.resource \notin rs}
      PROVE  Lock!Next
  <2>1. Owns' = Owns \ ({u} \X rs)
    BY <1>2 DEF Owns
  <2> QED
    BY <2>1 DEF Lock!Next, Lock!GiveBack
<1>3. CASE DeliverAssign
  <2>1. PICK w \in Users, a \in Response :
          /\ w = assigning.workflow_id
          /\ a = [resource |-> assigning.resource, release_key |-> assigning.release_key]
    BY <1>3 DEF DeliverAssign, Safe, TypeOK, Pending, Response
  <2>2. a.resource \in Resources /\ a # None
    BY NoneAssumption DEF Response
  <2>3. CASE pc[w] \in {"idle", "closed"}
    BY <1>1, <1>3, <2>1, <2>3 DEF DeliverAssign
  <2>4. CASE pc[w] \notin {"idle", "closed"}
    <3>1. acquired_resources' = [acquired_resources EXCEPT ![w] = @ \cup {a}] /\ acquired' = acquired
      BY <1>3, <2>1, <2>4 DEF DeliverAssign
    <3>2. /\ \A v \in Users \ {w} : Has(v)' = Has(v)
          /\ Has(w)' = Has(w) \cup {a}
      BY <2>2, <3>1 DEF Has, Safe, TypeOK
    <3>3. Owns' = Owns \cup {<<w, a.resource>>}
      BY <2>2, <3>2 DEF Owns
    <3>4. \A v \in Users : <<v, a.resource>> \notin Owns
      <4> SUFFICES ASSUME NEW v \in Users, NEW b \in Has(v), b.resource = a.resource
                   PROVE  FALSE
        BY DEF Owns
      <4>1. resources[b.resource] = None /\ assigning.outcome = "sent" /\ assigning # None
        BY <1>3, <2>1 DEF DeliverAssign, Safe, AssigningFresh
      <4> QED
        BY <4>1, HasCases
    <3> QED
      BY <2>2, <3>3, <3>4 DEF Lock!Next, Lock!Grant
  <2> QED
    BY <2>3, <2>4
<1>4. ASSUME NEW u \in Users, NEW a \in acquired_resources[u], Take(u, a) PROVE Owns' = Owns
  <2>1. a # None /\ acquired[u] = None
    BY <1>4, NoneAssumption DEF Safe, TypeOK, AcquiredInUse, Take
  <2>2. \A v \in Users : Has(v)' = Has(v)
    BY <1>4, <2>1 DEF Take, Has, Safe, TypeOK
  <2> QED
    BY <1>0, <2>2
<1>5. ASSUME NEW u \in Users, Close(u), acquired'[u] = None,
             \A v \in Users \ {u} : acquired'[v] = acquired[v]
      PROVE  Lock!Next
  <2>1. Has(u)' = {} /\ \A v \in Users \ {u} : Has(v)' = Has(v)
    BY <1>5 DEF Close, Has, Safe, TypeOK
  <2>2. Has(u)' = {a \in Has(u) : a.resource \notin Resources}
    BY <2>1, HasType DEF Safe, Response
  <2> QED
    BY <1>2, <2>1, <2>2
<1>6. ASSUME NEW u \in Users, GiveUp(u) PROVE Lock!Next
  BY <1>5, <1>6 DEF GiveUp, Safe, AcquiredInUse
<1>7. ASSUME NEW u \in Users, ReleaseAndClose(u) PROVE Lock!Next
  <2>1. acquired'[u] = None /\ \A v \in Users \ {u} : acquired'[v] = acquired[v]
    BY <1>7 DEF ReleaseAndClose, Safe, TypeOK
  <2> QED
    BY <1>5, <1>7, <2>1 DEF ReleaseAndClose
<1>8. ASSUME NEW u \in Users, DetachAndContinue(u) PROVE Lock!Next
  <2>1. /\ acquired_resources' = [acquired_resources EXCEPT ![u] = {}] /\ acquired' = acquired
        /\ \A v \in Users \ {u} : Has(v)' = Has(v)
    BY <1>8 DEF DetachAndContinue, Has, Safe, TypeOK
  <2>2. PICK rs \in SUBSET Resources : rs = {a.resource : a \in acquired_resources[u]}
    <3>1. \A a \in acquired_resources[u] : a.resource \in Resources
      BY DEF Safe, TypeOK, Response
    <3>2. {a.resource : a \in acquired_resources[u]} \in SUBSET Resources
      BY <3>1
    <3> QED
      BY <3>2
  <2>3. \A a \in acquired_resources[u] : a # None /\ a # acquired[u]
    BY NoneAssumption DEF Safe, TypeOK, AcquiredInUse
  <2>4. \A a \in acquired_resources[u] : acquired[u] # None => a.resource # acquired[u].resource
    BY <2>3, SafeImpliesExclusive DEF OwnershipExclusive, Has
  <2>5. Has(u)' = {acquired[u]} \ {None}
    BY <2>1 DEF Has, Safe, TypeOK
  <2>6. Has(u)' = {a \in Has(u) : a.resource \notin rs}
    BY <2>2, <2>4, <2>5 DEF Has
  <2> QED
    BY <1>2, <2>1, <2>6
<1>9. ASSUME NEW u \in Users, CompleteActivity(u) PROVE Lock!Next \/ Owns' = Owns
  BY <1>1, <1>7, <1>8, <1>9 DEF CompleteActivity
<1>10. ASSUME NEW u \in Users, CancelInUse(u) PROVE Lock!Next
  BY <1>7, <1>10 DEF CancelInUse
<1> QED
  BY <1>1, <1>3, <1>4, <1>6, <1>9, <1>10
  DEF Next, Pool, User, Environment, vars, userVars, HandleAcquire, HandleRelease,
      AssignNext, AssignResume, AddResources, SuggestContinueAsNew, ContinueAsNew,
      Start, StartActivity, LoseActivity, EndZombie

\* Refinement: seen from the users, the pool implements the abstract lock.
THEOREM ImplementsLock == Spec => LockSpec
<1>1. Init => Lock!Init
  BY DEF Init, Owns, Has, Lock!Init
<1> QED
  BY <1>1, LockStep, Invariant, PTL DEF Spec, LockSpec, Lock!Spec
=============================================================================
