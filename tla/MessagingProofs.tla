--------------------------- MODULE MessagingProofs ---------------------------
(***************************************************************************)
(* Proofs about the samples of Workflows: Greeting, for any number of      *)
(* updates and languages, UpdatableTimer, for any times and any number of  *)
(* signals, WorkerQueues on a single host, for any number of files and of  *)
(* crashes, Chatbot, for any number of updates open at a time, and         *)
(* BedrockEntity, about which the proofs are in a module of its own.  Each *)
(* is proved of the sample alone first, and then, at the end, of           *)
(* Workflows, in which it is one of several.                               *)
(***************************************************************************)
EXTENDS Workflows, Integers, TLAPS
-----------------------------------------------------------------------------
(* Greeting: the inductive invariant.                                      *)

GreetingTypes ==
  /\ approved_for_release \in BOOLEAN
  /\ lock \in Seq(Updates)
  /\ phase \in {"waiting", "completed"}
  /\ handler \in [Updates -> {"unsent", "rejected", "queued", "done", "failed"}]
  /\ wants \in [Updates -> Languages \cup {English}]
  /\ arrivals \in Seq(Updates) /\ effects \in Seq(Updates) /\ fetching \subseteq Updates

Occurs(s, u) == \E i \in 1..Len(s) : s[i] = u
Precedes(s, u, v) == \E i, k \in 1..Len(s) : i < k /\ s[i] = u /\ s[k] = v
\* u arrived before v.
Before(u, v) == Precedes(arrivals, u, v)

\* An update arrives once.
ArrivalsInv ==
  /\ \A i, k \in 1..Len(arrivals) : arrivals[i] = arrivals[k] => i = k
  /\ \A u \in Updates : handler[u] \in {"queued", "done", "failed"} <=> Occurs(arrivals, u)

\* In the queue of the lock are the updates that wait for the activity, in order of
\* their arrival, and behind all those that have been through it.
LockInv ==
  /\ \A u \in Updates : handler[u] = "queued" <=> Occurs(lock, u)
  /\ \A i, k \in 1..Len(lock) : i < k => Before(lock[i], lock[k])
  /\ \A i \in 1..Len(effects), k \in 1..Len(lock) :
       effects[i] \in fetching => Before(effects[i], lock[k])

\* The language is that of the last update that took effect.
EffectsInv ==
  /\ \A i \in 1..Len(effects) : handler[effects[i]] = "done"
  /\ \A i, k \in 1..Len(effects) :
       i < k /\ effects[i] \in fetching /\ effects[k] \in fetching => Before(effects[i], effects[k])
  /\ \A u \in fetching : handler[u] # "unsent"
  /\ language = IF effects = <<>> THEN English ELSE wants[effects[Len(effects)]]
  /\ language \in greetings
  /\ phase = "completed" => returned = language /\ Greet!AllHandlersFinished

GreetingInv == GreetingTypes /\ ArrivalsInv /\ LockInv /\ EffectsInv
-----------------------------------------------------------------------------
(* Sequences of updates.                                                   *)

\* What is appended comes after everything that was there.
LEMMA AppendLast ==
  ASSUME NEW S, NEW s \in Seq(S), NEW u \in S
  PROVE  /\ Append(s, u) \in Seq(S) /\ Append(s, u) # <<>>
         /\ Len(Append(s, u)) = Len(s) + 1 /\ Len(s) \in Nat
         /\ \A i \in 1..Len(s) : Append(s, u)[i] = s[i]
         /\ Append(s, u)[Len(s) + 1] = u
         /\ \A v : Occurs(Append(s, u), v) <=> Occurs(s, v) \/ v = u
         /\ \A v, w : Precedes(s, v, w) => Precedes(Append(s, u), v, w)
         /\ \A v : Occurs(s, v) => Precedes(Append(s, u), v, u)
<1>1. /\ Append(s, u) \in Seq(S) /\ Append(s, u) # <<>>
      /\ Len(Append(s, u)) = Len(s) + 1
      /\ \A i \in 1..Len(s) : Append(s, u)[i] = s[i]
      /\ Append(s, u)[Len(s) + 1] = u
      /\ Len(s) \in Nat
  OBVIOUS
<1>2. \A v : Occurs(Append(s, u), v) <=> Occurs(s, v) \/ v = u
  BY <1>1 DEF Occurs
<1>3. \A v, w : Precedes(s, v, w) => Precedes(Append(s, u), v, w)
  BY <1>1 DEF Precedes
<1>4. \A v : Occurs(s, v) => Precedes(Append(s, u), v, u)
  BY <1>1 DEF Precedes, Occurs
<1> QED
  BY <1>1, <1>2, <1>3, <1>4

\* The tail of a sequence has what comes after the head.
LEMMA TailRest ==
  ASSUME NEW S, NEW s \in Seq(S), s # <<>>
  PROVE  /\ Tail(s) \in Seq(S) /\ Len(Tail(s)) = Len(s) - 1 /\ Len(s) \in Nat \ {0}
         /\ Head(s) = s[1] /\ Head(s) \in S
         /\ \A i \in 1..Len(s) - 1 : i + 1 \in 1..Len(s) /\ Tail(s)[i] = s[i + 1]
         /\ \A v : Occurs(s, v) /\ v # Head(s) => Occurs(Tail(s), v)
<1>1. /\ Tail(s) \in Seq(S) /\ Len(Tail(s)) = Len(s) - 1
      /\ Head(s) = s[1] /\ Head(s) \in S
      /\ Len(s) \in Nat \ {0}
      /\ \A i \in 1..Len(s) - 1 : Tail(s)[i] = s[i + 1]
  OBVIOUS
<1>2. ASSUME NEW v, Occurs(s, v), v # Head(s) PROVE Occurs(Tail(s), v)
  <2>1. PICK i \in 1..Len(s) : s[i] = v
    BY <1>2 DEF Occurs
  <2>2. i - 1 \in 1..Len(s) - 1 /\ Tail(s)[i - 1] = s[i]
    BY <1>1, <1>2, <2>1
  <2> QED
    BY <1>1, <2>1, <2>2 DEF Occurs
<1> QED
  BY <1>1, <1>2
-----------------------------------------------------------------------------
(* Greeting: the steps.                                                    *)

\* No update has been sent.
LEMMA GreetingInit == Greet!GreetingAssumption /\ Greet!Init => GreetingInv
<1> SUFFICES ASSUME Greet!GreetingAssumption, Greet!Init PROVE GreetingInv
  OBVIOUS
<1> USE DEF Greet!Init
<1>1. approved_for_release \in BOOLEAN
  BY Zenon
<1>2. GreetingTypes
  BY <1>1 DEF GreetingTypes
<1>3. ArrivalsInv /\ LockInv /\ EffectsInv
  BY DEF ArrivalsInv, LockInv, EffectsInv, Occurs, Greet!GreetingAssumption
<1> QED
  BY <1>2, <1>3 DEF GreetingInv

\* An update whose greeting is known sets the language at once.
LEMMA SetAtOnce ==
  ASSUME GreetingInv, NEW u \in Updates, NEW l \in Languages, l \in greetings,
         handler[u] = "unsent", wants' = [wants EXCEPT ![u] = l],
         Greet!SetLanguage(u, l), arrivals' = Append(arrivals, u), phase = "waiting",
         UNCHANGED <<greetings, approved_for_release, lock, phase, returned, fetching>>
  PROVE  GreetingInv'
<1> USE DEF GreetingInv, Greet!SetLanguage
<1>1. /\ arrivals' \in Seq(Updates) /\ Len(arrivals') = Len(arrivals) + 1 /\ Len(arrivals) \in Nat
      /\ \A i \in 1..Len(arrivals) : arrivals'[i] = arrivals[i]
      /\ arrivals'[Len(arrivals) + 1] = u
      /\ \A v : Occurs(arrivals', v) <=> Occurs(arrivals, v) \/ v = u
      /\ \A v, w : Before(v, w) => Before(v, w)'
  BY AppendLast DEF GreetingTypes, Before
<1>2. /\ effects' \in Seq(Updates) /\ Len(effects') = Len(effects) + 1 /\ Len(effects) \in Nat
      /\ effects' # <<>>
      /\ \A i \in 1..Len(effects) : effects'[i] = effects[i]
      /\ effects'[Len(effects) + 1] = u
  BY AppendLast, SMTT(30) DEF GreetingTypes
<1>3. u \notin fetching /\ ~Occurs(arrivals, u) /\ ~Occurs(lock, u)
  BY DEF EffectsInv, ArrivalsInv, LockInv
<1>4. \A i \in 1..Len(effects) : effects[i] \in Updates /\ effects[i] # u
  BY DEF GreetingTypes, EffectsInv
<1>5. GreetingTypes'
  BY <1>1, <1>2 DEF GreetingTypes
<1>6. ArrivalsInv'
  BY <1>1, <1>3 DEF GreetingTypes, ArrivalsInv, Occurs
<1>7. LockInv'
  BY <1>1, <1>2, <1>3 DEF GreetingTypes, LockInv
<1>8. EffectsInv'
  BY <1>1, <1>2, <1>3, <1>4 DEF GreetingTypes, EffectsInv
<1> QED
  BY <1>5, <1>6, <1>7, <1>8

\* An update that needs the activity joins the queue.
LEMMA JoinsQueue ==
  ASSUME GreetingInv, NEW u \in Updates, NEW l \in Languages,
         handler[u] = "unsent", wants' = [wants EXCEPT ![u] = l],
         handler' = [handler EXCEPT ![u] = "queued"], lock' = Append(lock, u),
         fetching' = fetching \cup {u}, arrivals' = Append(arrivals, u), phase = "waiting",
         UNCHANGED <<greetings, language, approved_for_release, phase, returned, effects>>
  PROVE  GreetingInv'
<1> USE DEF GreetingInv
<1>1. /\ arrivals' \in Seq(Updates) /\ Len(arrivals') = Len(arrivals) + 1 /\ Len(arrivals) \in Nat
      /\ \A i \in 1..Len(arrivals) : arrivals'[i] = arrivals[i]
      /\ arrivals'[Len(arrivals) + 1] = u
      /\ \A v : Occurs(arrivals', v) <=> Occurs(arrivals, v) \/ v = u
      /\ \A v, w : Before(v, w) => Before(v, w)'
      /\ \A v : Occurs(arrivals, v) => Before(v, u)'
  BY AppendLast DEF GreetingTypes, Before
<1>2. /\ lock' \in Seq(Updates) /\ Len(lock') = Len(lock) + 1 /\ Len(lock) \in Nat
      /\ \A i \in 1..Len(lock) : lock'[i] = lock[i]
      /\ lock'[Len(lock) + 1] = u
      /\ \A v : Occurs(lock', v) <=> Occurs(lock, v) \/ v = u
  BY AppendLast DEF GreetingTypes
<1>3. u \notin fetching /\ ~Occurs(arrivals, u) /\ ~Occurs(lock, u)
  BY DEF EffectsInv, ArrivalsInv, LockInv
<1>4. \A i \in 1..Len(effects) : effects[i] \in Updates /\ effects[i] # u /\ Occurs(arrivals, effects[i])
  BY DEF GreetingTypes, EffectsInv, ArrivalsInv
<1>5. \A i \in 1..Len(lock) : lock[i] \in Updates /\ Occurs(arrivals, lock[i])
  BY SMTT(30) DEF GreetingTypes, LockInv, ArrivalsInv, Occurs
<1>6. GreetingTypes'
  BY <1>1, <1>2 DEF GreetingTypes
<1>7. ArrivalsInv'
  BY <1>1, <1>3 DEF GreetingTypes, ArrivalsInv, Occurs
<1>8. LockInv'
  BY <1>1, <1>2, <1>3, <1>4, <1>5 DEF GreetingTypes, LockInv
<1>9. EffectsInv'
  BY <1>1, <1>3, <1>4 DEF GreetingTypes, EffectsInv
<1> QED
  BY <1>6, <1>7, <1>8, <1>9

\* The holder leaves the queue: it is not in the rest of it, and before all of it.
LEMMA HolderLeaves ==
  ASSUME GreetingInv, NEW u \in Updates, Greet!Holds(u)
  PROVE  /\ Tail(lock) \in Seq(Updates) /\ Len(Tail(lock)) = Len(lock) - 1
         /\ Len(lock) \in Nat \ {0} /\ lock[1] = u
         /\ \A i \in 1..Len(lock) - 1 : i + 1 \in 1..Len(lock) /\ Tail(lock)[i] = lock[i + 1]
         /\ \A v \in Updates : Occurs(Tail(lock), v) <=> Occurs(lock, v) /\ v # u
         /\ \A i \in 1..Len(lock) - 1 : Before(u, Tail(lock)[i])
<1> USE DEF GreetingInv
<1>1. /\ Tail(lock) \in Seq(Updates) /\ Len(Tail(lock)) = Len(lock) - 1
      /\ Len(lock) \in Nat \ {0} /\ lock[1] = u
      /\ \A i \in 1..Len(lock) - 1 : i + 1 \in 1..Len(lock) /\ Tail(lock)[i] = lock[i + 1]
      /\ \A v : Occurs(lock, v) /\ v # u => Occurs(Tail(lock), v)
  BY TailRest DEF GreetingTypes, Greet!Holds
<1>2. \A i \in 1..Len(lock) - 1 : Before(u, Tail(lock)[i])
  BY <1>1 DEF LockInv
<1>3. ~Before(u, u)
  BY DEF Before, Precedes, ArrivalsInv
<1>4. \A v : Occurs(Tail(lock), v) => Occurs(lock, v) /\ v # u
  BY <1>1, <1>2, <1>3 DEF Occurs
<1> QED
  BY <1>1, <1>2, <1>4

\* The greeting is fetched: the language is set in the order of arrival.
LEMMA FetchedInv ==
  ASSUME GreetingInv, NEW u \in Updates, Greet!GreetingFetched(u)
  PROVE  GreetingInv'
<1> USE DEF GreetingInv, Greet!GreetingFetched, Greet!SetLanguage, Greet!Released, Greet!Open
<1>1. /\ lock' \in Seq(Updates) /\ Len(lock') = Len(lock) - 1
      /\ Len(lock) \in Nat \ {0} /\ lock[1] = u
      /\ \A i \in 1..Len(lock) - 1 : i + 1 \in 1..Len(lock) /\ lock'[i] = lock[i + 1]
      /\ \A v \in Updates : Occurs(lock', v) <=> Occurs(lock, v) /\ v # u
      /\ \A i \in 1..Len(lock) - 1 : Before(u, lock'[i])
  BY HolderLeaves
<1>2. /\ effects' \in Seq(Updates) /\ Len(effects') = Len(effects) + 1 /\ Len(effects) \in Nat
      /\ effects' # <<>>
      /\ \A i \in 1..Len(effects) : effects'[i] = effects[i]
      /\ effects'[Len(effects) + 1] = u
  BY AppendLast DEF GreetingTypes
<1>3. \A v, w : Before(v, w)' <=> Before(v, w)
  BY DEF Before
<1>4. \A i \in 1..Len(effects) : effects[i] \in Updates /\ effects[i] # u
  BY DEF GreetingTypes, EffectsInv
<1>5. GreetingTypes'
  BY <1>1, <1>2 DEF GreetingTypes
<1>6. ArrivalsInv'
  BY DEF GreetingTypes, ArrivalsInv
<1>7. LockInv'
  <2> HIDE DEF Greet!GreetingFetched, Greet!Released
  <2>0. handler' = [handler EXCEPT ![u] = "done"] /\ fetching' = fetching
    BY DEF Greet!GreetingFetched
  <2>1. \A v \in Updates : handler'[v] = "queued" <=> Occurs(lock', v)
    BY <1>1, <2>0 DEF GreetingTypes, LockInv
  <2>2. \A i, k \in 1..Len(lock') : i < k => Before(lock'[i], lock'[k])
    <3> HIDE DEF Greet!SetLanguage, Greet!Open
    <3> SUFFICES ASSUME NEW i \in 1..Len(lock'), NEW k \in 1..Len(lock'), i < k
                 PROVE  Before(lock'[i], lock'[k])
      OBVIOUS
    <3>1. /\ i + 1 \in 1..Len(lock) /\ k + 1 \in 1..Len(lock) /\ i + 1 < k + 1
          /\ lock'[i] = lock[i + 1] /\ lock'[k] = lock[k + 1]
      BY <1>1
    <3>2. Before(lock[i + 1], lock[k + 1])
      BY <3>1 DEF LockInv
    <3> QED
      BY <3>1, <3>2
  <2>3. \A i \in 1..Len(effects'), k \in 1..Len(lock') :
          effects'[i] \in fetching' => Before(effects'[i], lock'[k])
    BY <1>1, <1>2, <2>0, SMTT(30) DEF LockInv
  <2> QED
    BY <1>3, <2>1, <2>2, <2>3 DEF LockInv
<1>8. EffectsInv'
  <2>1. \A i \in 1..Len(effects) : effects[i] \in fetching => Before(effects[i], u)
    BY <1>1 DEF LockInv
  <2>2. \A i, k \in 1..Len(effects') :
          i < k /\ effects'[i] \in fetching /\ effects'[k] \in fetching
            => Before(effects'[i], effects'[k])
    BY <1>2, <2>1 DEF EffectsInv
  <2> QED
    BY <1>2, <1>3, <1>4, <2>2 DEF GreetingTypes, EffectsInv
<1> QED
  BY <1>5, <1>6, <1>7, <1>8

\* The service does not know the language: the update fails, the next has the lock.
LEMMA UnknownInv ==
  ASSUME GreetingInv, NEW u \in Updates, Greet!GreetingUnknown(u)
  PROVE  GreetingInv'
<1> USE DEF GreetingInv, Greet!GreetingUnknown, Greet!Released, Greet!Open
<1>1. /\ lock' \in Seq(Updates) /\ Len(lock') = Len(lock) - 1
      /\ Len(lock) \in Nat \ {0}
      /\ \A i \in 1..Len(lock) - 1 : i + 1 \in 1..Len(lock) /\ lock'[i] = lock[i + 1]
      /\ \A v \in Updates : Occurs(lock', v) <=> Occurs(lock, v) /\ v # u
  BY HolderLeaves
<1>2. \A v, w : Before(v, w)' <=> Before(v, w)
  BY DEF Before
<1>3. GreetingTypes'
  BY <1>1 DEF GreetingTypes
<1>4. ArrivalsInv'
  BY DEF GreetingTypes, ArrivalsInv
<1>5. LockInv'
  <2>1. \A v \in Updates : handler'[v] = "queued" <=> Occurs(lock', v)
    BY <1>1 DEF GreetingTypes, LockInv
  <2> QED
    BY <1>1, <1>2, <2>1 DEF LockInv
<1>6. EffectsInv'
  BY <1>2 DEF GreetingTypes, EffectsInv
<1> QED
  BY <1>3, <1>4, <1>5, <1>6

\* An update is rejected by its validator.
LEMMA RejectedInv ==
  ASSUME GreetingInv, NEW u \in Updates, NEW l \in Languages, handler[u] = "unsent",
         phase = "waiting", wants' = [wants EXCEPT ![u] = l],
         handler' = [handler EXCEPT ![u] = "rejected"],
         UNCHANGED <<greetings, language, approved_for_release, lock, phase, returned, arrivals,
                     effects, fetching>>
  PROVE  GreetingInv'
<1> USE DEF GreetingInv
<1>1. \A v, w : Before(v, w)' <=> Before(v, w)
  BY DEF Before
<1>2. \A i \in 1..Len(effects) : effects[i] \in Updates /\ effects[i] # u
  BY DEF GreetingTypes, EffectsInv
<1>3. GreetingTypes'
  BY DEF GreetingTypes
<1>4. ArrivalsInv' /\ LockInv'
  BY <1>1 DEF GreetingTypes, ArrivalsInv, LockInv
<1>5. EffectsInv'
  BY <1>1, <1>2 DEF GreetingTypes, EffectsInv
<1> QED
  BY <1>3, <1>4, <1>5

\* Every step preserves the inductive invariant.
LEMMA GreetingStep == GreetingInv /\ [Greet!Next]_Greet!vars => GreetingInv'
<1> SUFFICES ASSUME GreetingInv, [Greet!Next]_Greet!vars PROVE GreetingInv'
  OBVIOUS
<1> USE DEF Greet!object
<1>1. ASSUME NEW u \in Updates, NEW l \in Languages,
             Greet!UpdateSetLanguage(u, l) \/ Greet!UpdateUsingActivity(u, l)
      PROVE  GreetingInv'
  BY <1>1, SetAtOnce, JoinsQueue, RejectedInv
     DEF Greet!UpdateSetLanguage, Greet!UpdateUsingActivity, Greet!ValidLanguage, Greet!Open
<1>2. CASE Greet!Approve \/ Greet!Return \/ UNCHANGED Greet!vars
  <2> USE <1>2 DEF Greet!Approve, Greet!Return, Greet!vars, Greet!Open, GreetingInv
  <2>1. \A v, w : Before(v, w)' <=> Before(v, w)
    BY DEF Before
  <2>2. GreetingTypes' /\ ArrivalsInv' /\ LockInv'
    BY <2>1 DEF GreetingTypes, ArrivalsInv, LockInv
  <2>3. EffectsInv'
    BY <2>1 DEF EffectsInv, Greet!Releasable, Greet!AllHandlersFinished
  <2> QED
    BY <2>2, <2>3
<1> QED
  BY <1>1, <1>2, FetchedInv, UnknownInv DEF Greet!Next, Greet!Fetched, Greet!Terminated
-----------------------------------------------------------------------------
\* Greeting: the inductive invariant holds in every reachable state.
THEOREM GreetingInvariant ==
  ASSUME Greet!GreetingAssumption PROVE Greet!Spec => []GreetingInv
  BY GreetingInit, GreetingStep, PTL DEF Greet!Spec

\* The inductive invariant says what LanguageInOrder does.
LEMMA GreetingInOrder == GreetingInv => Greet!LanguageInOrder
<1> SUFFICES ASSUME GreetingInv PROVE Greet!LanguageInOrder
  OBVIOUS
<1> USE DEF GreetingInv
<1>1. ASSUME NEW i \in 1..Len(arrivals) PROVE Greet!Position(arrivals, arrivals[i]) = i
  <2> DEFINE P(k) == k \in 1..Len(arrivals) /\ arrivals[k] = arrivals[i]
  <2>1. P(i)
    OBVIOUS
  <2>2. \A k : P(k) => k = i
    BY DEF ArrivalsInv
  <2>3. (CHOOSE k \in 1..Len(arrivals) : arrivals[k] = arrivals[i]) = i
    BY <2>1, <2>2
  <2> QED
    BY <2>3 DEF Greet!Position
<1>2. \A u, v : Before(u, v) => Greet!Position(arrivals, u) < Greet!Position(arrivals, v)
  BY <1>1 DEF Before, Precedes
<1>3. Greet!FetchedInOrder
  BY <1>2 DEF Greet!FetchedInOrder, EffectsInv
<1>4. Greet!ReturnsLatest
  <2>1. \A i \in 1..Len(arrivals) : arrivals[i] \in Updates /\ Occurs(arrivals, arrivals[i])
    BY DEF GreetingTypes, Occurs
  <2> QED
    BY <2>1 DEF Greet!ReturnsLatest, GreetingTypes, EffectsInv, ArrivalsInv, Greet!AllHandlersFinished
<1> QED
  BY <1>3, <1>4 DEF Greet!LanguageInOrder

\* GreetingWorkflow: updates that need the activity take effect in order of arrival, and
\* the workflow returns a greeting in the language of the last update that took effect,
\* after every update it accepted.
LEMMA GreetingAlone ==
  ASSUME Greet!GreetingAssumption PROVE Greet!Spec => []Greet!LanguageInOrder
  BY GreetingInvariant, GreetingInOrder, PTL
-----------------------------------------------------------------------------
(* UpdatableTimer.                                                         *)

\* Sleep returns when it has looked at the time, and nothing moves the time after that.
TimerInv ==
  /\ wake_up_time \in Nat /\ now \in Nat /\ woke \in Nat
  /\ Timer!NotEarly

\* UpdatableTimer: sleep does not end before the wake-up time, however often it was moved,
\* to whatever time, and whenever the timer fired.
LEMMA TimerAlone ==
  ASSUME Timer!TimerAssumption PROVE Timer!Spec => []Timer!NotEarly
<1>1. Timer!Init => TimerInv
  BY DEF Timer!Init, Timer!TimerAssumption, TimerInv, Timer!NotEarly
<1>2. TimerInv /\ [Timer!Next]_Timer!vars => TimerInv'
  <2> SUFFICES ASSUME TimerInv, [Timer!Next]_Timer!vars PROVE TimerInv'
    OBVIOUS
  <2> USE DEF TimerInv, Timer!NotEarly
  <2>1. CASE Timer!Look
    BY <2>1 DEF Timer!Look, Timer!SleepInterval
  <2>2. CASE \E t \in Timer!Times : Timer!UpdateWakeUpTime(t)
    BY <2>2 DEF Timer!UpdateWakeUpTime, Timer!Times, Timer!TimerAssumption
  <2>3. CASE \E t \in Timer!Times : Timer!Send(t)
    BY <2>3 DEF Timer!Send
  <2>4. CASE \/ Timer!WaitEnds \/ Timer!Tick \/ Timer!Fire \/ Timer!Terminated
             \/ UNCHANGED Timer!vars
    BY <2>4 DEF Timer!WaitEnds, Timer!Tick, Timer!Fire, Timer!Terminated, Timer!vars
  <2> QED
    BY <2>1, <2>2, <2>3, <2>4 DEF Timer!Next, Timer!Workflow
<1> QED
  BY <1>1, <1>2, PTL DEF Timer!Spec, TimerInv
-----------------------------------------------------------------------------
(* WorkerQueues on a single host: the inductive invariant.  With several   *)
(* hosts the queues' names coincide, and the invariant does not hold.      *)

SingleHost == \A g, h \in Hosts : g = h

QueueTypes ==
  /\ step \in [Files -> Queues!Activities \cup {"completed", "failed"}]
  /\ attempt \in [Files -> {Queues!Queued} \cup {Queues!Running(h) : h \in Hosts}
                           \cup {Queues!Done(h) : h \in Hosts}]
  /\ fs \in [Hosts -> SUBSET Files]
  /\ unreported \subseteq Files

\* Where the file is, for each activity and before and after its attempt.
FileInv(h, w) ==
  /\ step[w] = "select_task_queue" => w \notin fs[h]
  /\ step[w] = "download" /\ attempt[w].at = "done" => w \in fs[h]
  /\ step[w] = "work" => w \in fs[h]
  /\ step[w] = "clean_up" => IF attempt[w].at = "done" THEN w \notin fs[h]
                             ELSE w \in fs[h] \/ w \in unreported
  /\ Queues!Ended(w) => w \notin fs[h]

QueueInv == QueueTypes /\ \A w \in Files, h \in Hosts : FileInv(h, w)
-----------------------------------------------------------------------------
(* WorkerQueues: the steps.                                                *)

\* An attempt's state tells whether it is done.
LEMMA AttemptStates ==
  /\ Queues!Queued.at = "queued"
  /\ \A h : Queues!Running(h).at = "running" /\ Queues!Done(h).at = "done"
  /\ \A g, h : Queues!Running(g) # Queues!Done(h) /\ Queues!Running(g) # Queues!Queued
  BY DEF Queues!Queued, Queues!Running, Queues!Done

\* There is no file.
LEMMA QueueInit == Queues!Init => QueueInv
<1> SUFFICES ASSUME Queues!Init PROVE QueueInv
  OBVIOUS
<1>1. QueueTypes
  BY DEF Queues!Init, QueueTypes, Queues!Activities
<1>2. ASSUME NEW w \in Files, NEW h \in Hosts PROVE FileInv(h, w)
  BY DEF Queues!Init, FileInv, Queues!Ended
<1> QED
  BY <1>1, <1>2 DEF QueueInv

\* An attempt is taken by a host.
LEMMA TakeInv ==
  ASSUME QueueInv, NEW w \in Files, NEW h \in Hosts, Queues!Take(h, w)
  PROVE  QueueInv'
<1> USE DEF QueueInv
<1>1. /\ attempt[w] = Queues!Queued /\ attempt' = [attempt EXCEPT ![w] = Queues!Running(h)]
      /\ UNCHANGED <<step, fs, unreported>>
  BY DEF Queues!Take
<1>2. QueueTypes'
  BY <1>1 DEF QueueTypes
<1>3. ASSUME NEW v \in Files, NEW g \in Hosts PROVE FileInv(g, v)'
  <2>1. attempt'[v].at = "done" <=> attempt[v].at = "done"
    BY <1>1, AttemptStates DEF QueueTypes
  <2> QED
    BY <1>1, <2>1 DEF FileInv, Queues!Ended
<1> QED
  BY <1>2, <1>3

\* An attempt does its work on the disk of the host.
LEMMA PerformInv ==
  ASSUME SingleHost, QueueInv, NEW w \in Files, NEW h \in Hosts, Queues!Perform(h, w)
  PROVE  QueueInv'
<1> USE DEF QueueInv
<1>1. /\ attempt[w] = Queues!Running(h) /\ attempt' = [attempt EXCEPT ![w] = Queues!Done(h)]
      /\ UNCHANGED <<step, unreported>>
      /\ \/ step[w] = "select_task_queue" /\ fs' = fs
         \/ step[w] = "download" /\ fs' = [fs EXCEPT ![h] = @ \cup {w}]
         \/ step[w] = "work" /\ fs' = fs
         \/ step[w] = "clean_up" /\ fs' = [fs EXCEPT ![h] = @ \ {w}]
  BY DEF Queues!Perform, Queues!select_task_queue, Queues!download_file_to_worker_filesystem,
         Queues!work_on_file_in_worker_filesystem, Queues!clean_up_file_from_worker_filesystem
<1>2. QueueTypes'
  BY <1>1 DEF QueueTypes
<1>3. ASSUME NEW v \in Files, NEW g \in Hosts PROVE FileInv(g, v)'
  <2>1. g = h
    BY DEF SingleHost
  <2>2. FileInv(g, v) /\ fs[h] \subseteq Files
    BY DEF QueueTypes
  <2>3. CASE v # w
    <3>1. attempt'[v] = attempt[v] /\ (v \in fs'[g] <=> v \in fs[g])
      BY <1>1, <2>3 DEF QueueTypes
    <3> QED
      BY <1>1, <2>2, <3>1 DEF FileInv, Queues!Ended
  <2>4. CASE v = w
    <3>1. attempt'[v].at = "done" /\ step' = step
      BY <1>1, <2>4, AttemptStates DEF QueueTypes
    <3>2. CASE step[w] = "select_task_queue" \/ step[w] = "work"
      BY <1>1, <2>2, <2>4, <3>1, <3>2 DEF FileInv, Queues!Ended
    <3>3. CASE step[w] = "download"
      <4>1. v \in fs'[g]
        BY <1>1, <2>1, <2>4, <3>3 DEF QueueTypes
      <4> QED
        BY <2>4, <3>1, <3>3, <4>1 DEF FileInv, Queues!Ended
    <3>4. CASE step[w] = "clean_up"
      <4>1. v \notin fs'[g]
        BY <1>1, <2>1, <2>4, <3>4 DEF QueueTypes
      <4> QED
        BY <2>4, <3>1, <3>4, <4>1 DEF FileInv, Queues!Ended
    <3> QED
      BY <1>1, <3>2, <3>3, <3>4
  <2> QED
    BY <2>3, <2>4
<1> QED
  BY <1>2, <1>3

\* Attempts fail: the work is given up, the others wait to be tried again.
LEMMA FailInv ==
  ASSUME QueueInv, NEW W \in SUBSET Files, Queues!FailAttempts(W), fs' = fs,
         unreported' \subseteq Files, unreported \subseteq unreported',
         \A w \in W : step[w] = "clean_up" /\ attempt[w].at = "done" => w \in unreported'
  PROVE  QueueInv'
<1> USE DEF QueueInv
<1>1. /\ attempt' = [w \in Files |-> IF w \in W THEN Queues!Queued ELSE attempt[w]]
      /\ step' = [w \in Files |-> IF w \in W /\ step[w] = "work" THEN "clean_up" ELSE step[w]]
  BY DEF Queues!FailAttempts
<1>2. QueueTypes'
  BY <1>1 DEF QueueTypes, Queues!Activities
<1>3. ASSUME NEW v \in Files, NEW g \in Hosts PROVE FileInv(g, v)'
  <2>1. CASE v \in W
    <3>1. attempt'[v].at = "queued"
      BY <1>1, <2>1, AttemptStates
    <3>2. step'[v] = IF step[v] = "work" THEN "clean_up" ELSE step[v]
      BY <1>1, <2>1
    <3> QED
      BY <2>1, <3>1, <3>2 DEF FileInv, Queues!Ended
  <2>2. CASE v \notin W
    <3>1. attempt'[v] = attempt[v] /\ step'[v] = step[v]
      BY <1>1, <2>2
    <3> QED
      BY <3>1 DEF FileInv, Queues!Ended
  <2> QED
    BY <2>1, <2>2
<1> QED
  BY <1>2, <1>3

\* The workflow goes on to the next activity.
LEMMA ReportInv ==
  ASSUME QueueInv, NEW w \in Files, NEW h \in Hosts, Queues!Report(h, w)
  PROVE  QueueInv'
<1> USE DEF QueueInv
<1>1. PICK s \in {"download", "work", "clean_up", "failed", "completed"} :
        /\ attempt[w] = Queues!Done(h) /\ attempt' = [attempt EXCEPT ![w] = Queues!Queued]
        /\ step' = [step EXCEPT ![w] = s]
        /\ \/ step[w] = "select_task_queue" /\ s = "download"
           \/ step[w] = "download" /\ s = "work"
           \/ step[w] = "work" /\ s = "clean_up"
           \/ step[w] = "clean_up" /\ s \in {"failed", "completed"}
        /\ UNCHANGED <<fs, unreported>>
  BY DEF Queues!Report, Queues!Advance
<1>2. QueueTypes'
  BY <1>1 DEF QueueTypes, Queues!Activities
<1>3. ASSUME NEW v \in Files, NEW g \in Hosts PROVE FileInv(g, v)'
  <2>1. CASE v = w
    <3>1. step'[v] = s /\ attempt'[v].at = "queued" /\ attempt[v].at = "done" /\ UNCHANGED fs
      BY <1>1, <2>1, AttemptStates DEF QueueTypes
    <3> QED
      BY <1>1, <2>1, <3>1 DEF FileInv, Queues!Ended
  <2>2. CASE v # w
    <3>1. step'[v] = step[v] /\ attempt'[v] = attempt[v]
      BY <1>1, <2>2 DEF QueueTypes
    <3> QED
      BY <1>1, <3>1 DEF FileInv, Queues!Ended
  <2> QED
    BY <2>1, <2>2
<1> QED
  BY <1>2, <1>3

\* Every step preserves the inductive invariant.
LEMMA QueueStep == SingleHost /\ QueueInv /\ [Queues!Next]_Queues!vars => QueueInv'
<1> SUFFICES ASSUME SingleHost, QueueInv, [Queues!Next]_Queues!vars PROVE QueueInv'
  OBVIOUS
<1>1. ASSUME NEW w \in Files, NEW h \in Hosts, Queues!FileNotFound(h, w) PROVE QueueInv'
  <2>1. Queues!FailAttempts({w}) /\ UNCHANGED <<fs, unreported>> /\ attempt[w] = Queues!Running(h)
    BY <1>1 DEF Queues!FileNotFound
  <2>2. {w} \in SUBSET Files
    OBVIOUS
  <2>3. attempt[w].at # "done"
    BY <2>1, AttemptStates
  <2> QED
    BY <2>1, <2>2, <2>3, FailInv DEF QueueInv, QueueTypes
<1>2. ASSUME NEW h \in Hosts, Queues!Crash(h) PROVE QueueInv'
  <2> DEFINE lost == {w \in Files : Queues!On(w, h)}
  <2>1. /\ Queues!FailAttempts(lost) /\ UNCHANGED fs
        /\ unreported' = unreported \cup {w \in lost : step[w] = "clean_up" /\ attempt[w].at = "done"}
    BY <1>2 DEF Queues!Crash
  <2>2. lost \in SUBSET Files
    OBVIOUS
  <2> HIDE DEF lost
  <2> QED
    BY <2>1, <2>2, FailInv DEF QueueInv, QueueTypes
<1>3. CASE UNCHANGED Queues!vars
  BY <1>3 DEF Queues!vars, QueueInv, QueueTypes, FileInv, Queues!Ended
<1> QED
  BY <1>1, <1>2, <1>3, TakeInv, PerformInv, ReportInv
     DEF Queues!Next, Queues!Step, Queues!Terminated
-----------------------------------------------------------------------------
\* WorkerQueues: the inductive invariant holds in every reachable state, on a single host.
THEOREM QueueInvariant ==
  ASSUME SingleHost PROVE Queues!Spec => []QueueInv
  BY QueueInit, QueueStep, PTL DEF Queues!Spec

\* FileProcessing on a single host, for any number of workflows and of crashes: the activities
\* find the file that the first of them has put there, and leave none behind.  (With two hosts,
\* whose queues have the same name, a run shows that they do not.)
LEMMA QueueAlone ==
  ASSUME SingleHost PROVE Queues!Spec => []Queues!FilesInPlace
<1>1. QueueInv => Queues!FilesInPlace
  <2> SUFFICES ASSUME QueueInv PROVE Queues!FileAccessible /\ Queues!NothingLeft
    BY DEF Queues!FilesInPlace
  <2>1. Queues!FileAccessible
    BY AttemptStates DEF QueueInv, FileInv, Queues!FileAccessible
  <2>2. Queues!NothingLeft
    BY DEF QueueInv, FileInv, Queues!NothingLeft
  <2> QED
    BY <2>1, <2>2
<1> QED
  BY <1>1, QueueInvariant, PTL
-----------------------------------------------------------------------------
(* Chatbot: the inductive invariant.                                       *)

ChatTypes ==
  /\ pending_message \in Messages \cup {None}
  /\ update \in [Messages -> {"unsent", "offering", "listening", "returned"}]
  /\ answer \in [Messages -> Messages \cup {None}]
  /\ queried \in Seq(Messages) /\ since \in [Messages -> Nat]

\* The response that is published was made after m was offered.
Answered(m) == \E i \in since[m] + 1 .. Len(queried) : last_response = queried[i]

\* m is under query, or its turn is still to come.
Ahead(m) ==
  /\ m \notin woken /\ pending_message # None
  /\ session = "querying" => since[m] < Len(queried)

\* Between two checks of the conditions: main is woken for a message or for the end, and
\* with an update that offers its own message only for the end.
WokenInv ==
  /\ batch => woken = {}
  /\ "main" \in woken => pending_message # None \/ done
  /\ \A m \in Messages : m \in woken /\ update[m] = "offering" =>
       session # "querying" /\ ("main" \in woken => done)

ChatInv ==
  /\ ChatTypes /\ WokenInv
  /\ session = "querying" => queried # <<>>
  /\ Chat!PendingKept /\ Chat!FreshAnswer
  /\ \A m \in Messages : update[m] = "listening" =>
       since[m] <= Len(queried) /\ (Answered(m) \/ Ahead(m))

\* In the beginning no message has come.
LEMMA ChatInit == Chat!Init => ChatInv
  BY DEF Chat!Init, ChatInv, ChatTypes, WokenInv, Chat!PendingKept, Chat!FreshAnswer

\* The conditions are looked at: with main no update is woken that offers a message, unless
\* the session is to end, and an update that listens is woken for its answer only.
LEMMA CheckInv ==
  ASSUME Chat!ChatbotAssumption, ChatInv, Chat!Check PROVE ChatInv'
<1>1. \A c \in woken' : Chat!Condition(c)
  BY DEF Chat!Check
<1>2. \A m \in Messages : m \in woken' => pending_message = None
  BY <1>1 DEF Chat!Condition, Chat!ChatbotAssumption
<1>3. "main" \in woken' => pending_message # None \/ done
  BY <1>1 DEF Chat!Condition
<1>4. session = "querying" => pending_message # None
  BY DEF ChatInv, ChatTypes, Chat!PendingKept, Chat!ChatbotAssumption
<1>5. WokenInv'
  BY <1>2, <1>3, <1>4 DEF Chat!Check, Chat!object, WokenInv
<1>6. \A m \in Messages : (Answered(m)' <=> Answered(m)) /\ (Ahead(m) => Ahead(m)')
  BY <1>2 DEF Chat!Check, Chat!object, Answered, Ahead
<1> QED
  BY <1>5, <1>6 DEF Chat!Check, Chat!object, ChatInv, ChatTypes, Chat!PendingKept, Chat!FreshAnswer

\* An update that is woken offers its message, over another's perhaps, and waits.
LEMMA OfferInv ==
  ASSUME Chat!ChatbotAssumption, ChatInv, NEW m \in Messages, Chat!Offer(m) PROVE ChatInv'
<1>1. m \in woken /\ woken' = woken \ {m} /\ update[m] = "offering"
  BY DEF Chat!Offer, Chat!Runs
<1>2. session # "querying" /\ session' = session /\ ("main" \in woken => done)
  BY <1>1 DEF ChatInv, WokenInv, Chat!Offer
<1>3. pending_message' = m /\ m # None
  BY DEF Chat!Offer, Chat!ChatbotAssumption
<1>4. ChatTypes' /\ since'[m] = Len(queried)
  BY DEF ChatInv, ChatTypes, Chat!Offer
<1>5. WokenInv'
  BY <1>1, <1>2, <1>3 DEF ChatInv, ChatTypes, WokenInv, Chat!Offer
<1>6. \A n \in Messages : n # m => since'[n] = since[n] /\ update'[n] = update[n]
  BY DEF ChatInv, ChatTypes, Chat!Offer
<1>7. \A n \in Messages : n # m => (Answered(n) => Answered(n)') /\ (Ahead(n) => Ahead(n)')
  BY <1>1, <1>2, <1>3, <1>6 DEF Answered, Ahead, Chat!Offer
<1>8. Ahead(m)'
  BY <1>1, <1>2, <1>3 DEF Ahead
<1>9. Chat!FreshAnswer'
  BY <1>4, <1>6 DEF ChatInv, ChatTypes, Chat!FreshAnswer, Chat!Offer
<1>10. \A n \in Messages : update'[n] = "listening" =>
         since'[n] <= Len(queried') /\ (Answered(n)' \/ Ahead(n)')
  BY <1>4, <1>6, <1>7, <1>8 DEF ChatInv, ChatTypes, Chat!Offer
<1> QED
  BY <1>2, <1>4, <1>5, <1>9, <1>10 DEF ChatInv, Chat!PendingKept

\* An update that is woken while it listens has its answer.
LEMMA ListenInv ==
  ASSUME ChatInv, NEW m \in Messages, Chat!Listen(m) PROVE ChatInv'
<1>1. m \in woken /\ woken' = woken \ {m} /\ update[m] = "listening"
  BY DEF Chat!Listen, Chat!Runs
<1>2. Answered(m)
  BY <1>1 DEF ChatInv, Ahead
<1>3. PICK i \in since[m] + 1 .. Len(queried) : last_response = queried[i]
  BY <1>2 DEF Answered
<1>4. ChatTypes' /\ answer'[m] = queried[i] /\ update'[m] = "returned"
  BY <1>3 DEF ChatInv, ChatTypes, Chat!Listen, Chat!object
<1>5. \A n \in Messages : n # m => answer'[n] = answer[n] /\ update'[n] = update[n]
  BY DEF ChatInv, ChatTypes, Chat!Listen
<1>6. WokenInv'
  BY <1>1, <1>4, <1>5 DEF ChatInv, WokenInv, Chat!Listen, Chat!object
<1>7. \A n \in Messages : (Answered(n)' <=> Answered(n)) /\ (Ahead(n) => Ahead(n)')
  BY <1>1 DEF Answered, Ahead, Chat!Listen, Chat!object
<1>8. Chat!FreshAnswer'
  BY <1>3, <1>4, <1>5 DEF ChatInv, Chat!FreshAnswer, Chat!Listen
<1>9. \A n \in Messages : update'[n] = "listening" =>
         since'[n] <= Len(queried') /\ (Answered(n)' \/ Ahead(n)')
  BY <1>4, <1>5, <1>7 DEF ChatInv, Chat!Listen
<1> QED
  BY <1>4, <1>6, <1>8, <1>9 DEF ChatInv, Chat!PendingKept, Chat!Listen, Chat!object

\* main goes on: with a message, which no update can replace until it is answered, or to
\* the end.
LEMMA WakeInv ==
  ASSUME Chat!ChatbotAssumption, ChatInv, Chat!Wake PROVE ChatInv'
<1>1. "main" \in woken /\ woken' = woken \ {"main"} /\ session = "waiting"
  BY DEF Chat!Wake, Chat!Runs
<1>2. \A m \in Messages : m \in woken' <=> m \in woken
  BY <1>1 DEF Chat!ChatbotAssumption
<1> USE DEF Chat!Wake, Chat!object
<1>3. CASE done /\ session' = "ended" /\ queried' = queried
  <2>1. \A m \in Messages : (Answered(m)' <=> Answered(m)) /\ (Ahead(m) => Ahead(m)')
    BY <1>2, <1>3 DEF Answered, Ahead
  <2> QED
    BY <1>1, <1>2, <1>3, <2>1 DEF ChatInv, ChatTypes, WokenInv, Chat!PendingKept, Chat!FreshAnswer
<1>4. CASE ~done /\ session' = "querying" /\ queried' = Append(queried, pending_message)
  <2>1. pending_message \in Messages
    BY <1>1, <1>4 DEF ChatInv, ChatTypes, WokenInv
  <2>2. /\ queried' \in Seq(Messages) /\ Len(queried') = Len(queried) + 1
        /\ Len(queried) \in Nat /\ queried' # <<>>
        /\ \A i \in 1..Len(queried) : queried'[i] = queried[i]
        /\ queried'[Len(queried) + 1] = pending_message
    BY <1>4, <2>1, AppendLast DEF ChatInv, ChatTypes
  <2>3. ChatTypes' /\ Chat!PendingKept'
    BY <2>2 DEF ChatInv, ChatTypes, Chat!PendingKept
  <2>4. WokenInv'
    BY <1>1, <1>2, <1>4 DEF ChatInv, WokenInv
  <2>5. \A m \in Messages : since[m] + 1 .. Len(queried) \subseteq 1..Len(queried)
    BY <2>2 DEF ChatInv, ChatTypes
  <2>6. \A m \in Messages : Answered(m) => Answered(m)'
    BY <2>2, <2>5 DEF ChatInv, ChatTypes, Answered
  <2>7. \A m \in Messages : since[m] <= Len(queried) /\ Ahead(m) => Ahead(m)'
    BY <1>2, <2>2 DEF ChatInv, ChatTypes, Ahead
  <2>8. Chat!FreshAnswer'
    <3> SUFFICES ASSUME NEW m \in Messages, update[m] = "returned"
                 PROVE  \E i \in since[m] + 1 .. Len(queried') : answer[m] = queried'[i]
      BY DEF Chat!FreshAnswer
    <3>1. PICK i \in since[m] + 1 .. Len(queried) : answer[m] = queried[i]
      BY DEF ChatInv, Chat!FreshAnswer
    <3>2. since[m] \in Nat /\ i \in 1..Len(queried) /\ i \in since[m] + 1 .. Len(queried')
      BY <2>2 DEF ChatInv, ChatTypes
    <3> QED
      BY <3>1, <3>2, <2>2
  <2>9. \A m \in Messages : update'[m] = "listening" =>
          since'[m] <= Len(queried') /\ (Answered(m)' \/ Ahead(m)')
    <3> SUFFICES ASSUME NEW m \in Messages, update[m] = "listening"
                 PROVE  since[m] <= Len(queried') /\ (Answered(m)' \/ Ahead(m)')
      OBVIOUS
    <3>1. since[m] \in Nat /\ since[m] <= Len(queried) /\ (Answered(m) \/ Ahead(m))
      BY DEF ChatInv, ChatTypes
    <3> QED
      BY <3>1, <2>2, <2>6, <2>7
  <2> QED
    BY <2>2, <2>3, <2>4, <2>8, <2>9 DEF ChatInv
<1> QED
  BY <1>3, <1>4

\* The response is that to the message under query, which was taken after all the updates
\* that listen had offered theirs.
LEMMA RespondInv ==
  ASSUME Chat!ChatbotAssumption, ChatInv, Chat!Respond PROVE ChatInv'
<1> USE DEF Chat!Respond
<1>1. session = "querying" /\ Len(queried) \in Nat \ {0} /\ session' # "querying"
  BY DEF ChatInv, ChatTypes
<1>2. woken = {} /\ woken' = {}
  BY DEF Chat!Quiet
<1>3. \A m \in Messages : update[m] = "listening" => since[m] < Len(queried)
  BY <1>1 DEF ChatInv, ChatTypes, Answered, Ahead
<1>4. \A m \in Messages : update[m] = "listening" => Answered(m)'
  BY <1>1, <1>3 DEF ChatInv, ChatTypes, Answered
<1>5. WokenInv'
  BY <1>2 DEF WokenInv
<1> QED
  BY <1>1, <1>4, <1>5 DEF ChatInv, ChatTypes, Chat!PendingKept, Chat!FreshAnswer

\* What comes from outside comes when nobody is woken.
LEMMA ArrivalInv ==
  ASSUME ChatInv, Chat!Exit \/ \E m \in Messages : Chat!Send(m) PROVE ChatInv'
<1>1. woken = {} /\ woken' = {} /\ WokenInv'
  BY DEF ChatInv, WokenInv, Chat!Exit, Chat!Send, Chat!Arrival, Chat!Quiet
<1>2. CASE Chat!Exit
  <2>1. \A m \in Messages : (Answered(m)' <=> Answered(m)) /\ (Ahead(m) => Ahead(m)')
    BY <1>1, <1>2 DEF Chat!Exit, Answered, Ahead
  <2> QED
    BY <1>1, <1>2, <2>1 DEF Chat!Exit, ChatInv, ChatTypes, Chat!PendingKept, Chat!FreshAnswer
<1>3. ASSUME NEW m \in Messages, Chat!Send(m) PROVE ChatInv'
  <2>1. \A n \in Messages : (Answered(n)' <=> Answered(n)) /\ (Ahead(n) => Ahead(n)')
    BY <1>1, <1>3 DEF Chat!Send, Chat!object, Answered, Ahead
  <2> QED
    BY <1>1, <1>3, <2>1
    DEF Chat!Send, Chat!object, ChatInv, ChatTypes, Chat!PendingKept, Chat!FreshAnswer
<1> QED
  BY <1>2, <1>3

\* The other steps of the main loop change nothing that the invariant speaks about, except
\* that the session may be over.
LEMMA LoopInv ==
  ASSUME ChatInv,
         \/ \E saved \in SUBSET Names : Chat!ToolRound(saved)
         \/ Chat!QueryFails \/ Chat!Idle \/ UNCHANGED Chat!vars
  PROVE  ChatInv'
<1>1. /\ UNCHANGED <<pending_message, last_response, done, update, answer, woken, batch, queried, since>>
      /\ session' \in {session, "failed"}
  BY DEF Chat!ToolRound, Chat!QueryFails, Chat!Idle, Chat!vars, Chat!object
<1>2. \A m \in Messages : (Answered(m)' <=> Answered(m)) /\ (Ahead(m) => Ahead(m)')
  BY <1>1 DEF Answered, Ahead
<1> QED
  BY <1>1, <1>2 DEF ChatInv, ChatTypes, WokenInv, Chat!PendingKept, Chat!FreshAnswer

\* What AnswersFresh states, of ChatbotWorkflow alone.
LEMMA ChatAlone ==
  ASSUME Chat!ChatbotAssumption
  PROVE  Chat!Spec => [](Chat!PendingKept /\ Chat!FreshAnswer)
<1>1. ChatInv /\ [Chat!Next]_Chat!vars => ChatInv'
  BY CheckInv, OfferInv, ListenInv, WakeInv, RespondInv, ArrivalInv, LoopInv
  DEF Chat!Next, Chat!Loop
<1>2. ChatInv => Chat!PendingKept /\ Chat!FreshAnswer
  BY DEF ChatInv
<1> QED
  BY ChatInit, <1>1, <1>2, PTL DEF Chat!Spec
-----------------------------------------------------------------------------
(* Compensation: the inductive invariant, for any number of updates.       *)

\* The future is set once, and tells how the main coroutine left its logic.
ExitFuture ==
  /\ workflow_exit = "exception" <=> exit_error # "none"
  /\ exit_pc \in {"logic", "blocked"} => workflow_exit = "pending"
  /\ exit_pc \in {"returning", "completed", "stuck"} => workflow_exit = "result"
  /\ exit_pc \in {"exiting", "compensating", "failed", "cancelled"} => workflow_exit = "exception"

\* Handlers compensate because of the workflow's exception.
HandlersFollow ==
  \A u \in Updates :
    /\ my_update[u] \in {"compensating", "raised"} => exit_error # "none"
    /\ u \in compensated <=> my_update[u] = "raised"
    /\ u \in early => my_update[u] # "unsent"

\* Past the wait for the handlers, those that had started are answered.
PastTheWait ==
  /\ exit_pc = "completed" => \A u \in Updates : my_update[u] \in {"unsent", "returned"}
  /\ exit_pc \in {"compensating", "failed", "cancelled"} /\ cancel_request # "late" =>
       \A u \in early : my_update[u] \in {"returned", "raised"}
  /\ exit_pc \in {"failed", "cancelled"} /\ cancel_request # "late" => workflow_compensation_done

ExitInv == Exit!TypeOK /\ ExitFuture /\ HandlersFollow /\ PastTheWait

\* No step has been taken.
LEMMA ExitInit == Exit!Init => ExitInv
  BY DEF Exit!Init, ExitInv, Exit!TypeOK, ExitFuture, HandlersFollow, PastTheWait

\* Steps of the main coroutine, the cancellation included.
LEMMA ExitMainInv ==
  ASSUME ExitInv, Exit!Main \/ Exit!Cancel
  PROVE  ExitInv'
<1> USE DEF ExitInv, ExitFuture, HandlersFollow, PastTheWait, Exit!TypeOK
<1>1. CASE Exit!ApplicationLogic
  BY <1>1 DEF Exit!ApplicationLogic, Exit!ExitWith, Exit!flags
<1>2. CASE Exit!Complete
  BY <1>2 DEF Exit!Complete, Exit!AllHandlersFinished, Exit!flags
<1>3. CASE Exit!BeginCompensation
  BY <1>3 DEF Exit!BeginCompensation, Exit!AllHandlersFinished, Exit!flags
<1>4. CASE Exit!FinishCompensation
  BY <1>4 DEF Exit!FinishCompensation
<1>5. CASE Exit!Cancel
  BY <1>5 DEF Exit!Cancel, Exit!ExitWith, Exit!flags
<1> QED
  BY <1>1, <1>2, <1>3, <1>4, <1>5 DEF Exit!Main

\* Steps of an update.
LEMMA ExitUpdateInv ==
  ASSUME ExitInv, NEW u \in Updates, Exit!StartUpdate(u) \/ Exit!Handler(u)
  PROVE  ExitInv'
<1> USE DEF ExitInv, ExitFuture, HandlersFollow, PastTheWait, Exit!TypeOK, Exit!mainVars
<1>0. Exit!Quiet => exit_pc \notin {"completed", "failed", "cancelled", "stuck"}
  BY DEF Exit!Quiet, Exit!Open, Exit!Closed
<1>1. CASE Exit!StartUpdate(u)
  BY <1>0, <1>1 DEF Exit!StartUpdate
<1>2. CASE Exit!LogicDone(u)
  BY <1>2 DEF Exit!LogicDone, Exit!flags
<1>3. CASE Exit!RaceEnds(u)
  BY <1>3 DEF Exit!RaceEnds, Exit!RaceOver, Exit!Open, Exit!Closed, Exit!flags
<1>4. CASE Exit!UpdateCompensated(u)
  BY <1>0, <1>4 DEF Exit!UpdateCompensated
<1> QED
  BY <1>1, <1>2, <1>3, <1>4 DEF Exit!Handler

\* Every step preserves the inductive invariant.
LEMMA ExitStep == ExitInv /\ [Exit!Next]_Exit!vars => ExitInv'
<1> SUFFICES ASSUME ExitInv, [Exit!Next]_Exit!vars PROVE ExitInv'
  OBVIOUS
<1>1. CASE UNCHANGED Exit!vars
  BY <1>1 DEF Exit!vars, Exit!mainVars, Exit!flags, ExitInv, Exit!TypeOK, ExitFuture, HandlersFollow, PastTheWait
<1>2. CASE Exit!Next
  BY <1>1, <1>2, ExitMainInv, ExitUpdateInv DEF Exit!Next, Exit!Terminated
<1> QED
  BY <1>1, <1>2

\* What the three properties of an exit state, of the workflow alone.
LEMMA ExitAlone ==
  Exit!Spec => [](Exit!ReturnAfterHandlers /\ Exit!CompensatedIffRaised /\ Exit!ExitInOrder)
<1>1. ExitInv => Exit!ReturnAfterHandlers /\ Exit!CompensatedIffRaised /\ Exit!ExitInOrder
  BY DEF ExitInv, HandlersFollow, PastTheWait, Exit!ReturnAfterHandlers,
         Exit!CompensatedIffRaised, Exit!ExitInOrder
<1> QED
  BY ExitInit, ExitStep, <1>1, PTL DEF Exit!Spec
-----------------------------------------------------------------------------
(* Workflows: a step of one sample leaves the others alone, so each of     *)
(* them behaves as its own specification says.                             *)

BedrockSafe == INSTANCE BedrockEntityProofs

\* The steps of the chat are those its proofs are about.
LEMMA BedrockSteps == Bedrock!Next => BedrockSafe!Next
<1>1. Bedrock!Begin => BedrockSafe!Begin
  BY DEF Bedrock!Begin, BedrockSafe!Begin, Bedrock!TakeOver, BedrockSafe!TakeOver,
      Bedrock!params, BedrockSafe!params, Bedrock!clients, BedrockSafe!clients
<1>2. Bedrock!TakePrompt => BedrockSafe!TakePrompt
  BY DEF Bedrock!TakePrompt, BedrockSafe!TakePrompt, Bedrock!params, BedrockSafe!params,
      Bedrock!clients, BedrockSafe!clients
<1>3. Bedrock!Answered => BedrockSafe!Answered
  BY DEF Bedrock!Answered, BedrockSafe!Answered, Bedrock!TurnsOver, BedrockSafe!TurnsOver,
      Bedrock!params, BedrockSafe!params, Bedrock!clients, BedrockSafe!clients
<1>4. Bedrock!ContinueAsNew => BedrockSafe!ContinueAsNew
  BY DEF Bedrock!ContinueAsNew, BedrockSafe!ContinueAsNew, Bedrock!Summarize,
      BedrockSafe!Summarize, Bedrock!Context, BedrockSafe!Context, Bedrock!Entries,
      BedrockSafe!Entries, Bedrock!clients, BedrockSafe!clients
<1>5. Bedrock!Close => BedrockSafe!Close
  BY DEF Bedrock!Close, BedrockSafe!Close, Bedrock!params, BedrockSafe!params, Bedrock!object,
      BedrockSafe!object, Bedrock!clients, BedrockSafe!clients
<1>6. Bedrock!Complete => BedrockSafe!Complete
  BY DEF Bedrock!Complete, BedrockSafe!Complete, Bedrock!Summarize, BedrockSafe!Summarize,
      Bedrock!Context, BedrockSafe!Context, Bedrock!Entries, BedrockSafe!Entries,
      Bedrock!params, BedrockSafe!params, Bedrock!clients, BedrockSafe!clients
<1>7. Bedrock!UserPrompt => BedrockSafe!UserPrompt
  BY DEF Bedrock!UserPrompt, BedrockSafe!UserPrompt, Bedrock!Closed, BedrockSafe!Closed,
      Bedrock!params, BedrockSafe!params
<1>8. Bedrock!EndChat => BedrockSafe!EndChat
  BY DEF Bedrock!EndChat, BedrockSafe!EndChat, Bedrock!Closed, BedrockSafe!Closed,
      Bedrock!params, BedrockSafe!params
<1>9. Bedrock!Fail => BedrockSafe!Fail
  BY DEF Bedrock!Fail, BedrockSafe!Fail, Bedrock!params, BedrockSafe!params, Bedrock!object,
      BedrockSafe!object, Bedrock!clients, BedrockSafe!clients
<1>10. Bedrock!Terminated => BedrockSafe!Terminated
  BY DEF Bedrock!Terminated, BedrockSafe!Terminated, Bedrock!Closed, BedrockSafe!Closed,
      Bedrock!vars, BedrockSafe!vars, Bedrock!params, BedrockSafe!params, Bedrock!object,
      BedrockSafe!object, Bedrock!clients, BedrockSafe!clients
<1> QED
  BY <1>1, <1>2, <1>3, <1>4, <1>5, <1>6, <1>7, <1>8, <1>9, <1>10
     DEF Bedrock!Next, BedrockSafe!Next, Bedrock!Run, BedrockSafe!Run

LEMMA BedrockRuns == Spec => BedrockSafe!Spec
<1>1. Init => BedrockSafe!Init
  BY DEF Init, Bedrock!Init, BedrockSafe!Init
<1>2. [Next]_vars => [BedrockSafe!Next]_BedrockSafe!vars
  <2>1. UNCHANGED bedrock => UNCHANGED BedrockSafe!vars
    BY DEF bedrock, BedrockSafe!vars, BedrockSafe!params, BedrockSafe!object, BedrockSafe!clients
  <2> QED
    BY <2>1, BedrockSteps DEF Next, Only, vars
<1> QED
  BY <1>1, <1>2, PTL DEF Spec, BedrockSafe!Spec

LEMMA ChatRuns == Spec => Chat!Spec
<1>1. Init => Chat!Init
  BY DEF Init
<1>2. [Next]_vars => [Chat!Next]_Chat!vars
  <2>1. UNCHANGED chatbot => UNCHANGED Chat!vars
    BY DEF chatbot, Chat!vars, Chat!object
  <2> QED
    BY <2>1 DEF Next, Only, vars
<1> QED
  BY <1>1, <1>2, PTL DEF Spec, Chat!Spec

LEMMA GreetingRuns == Spec => Greet!Spec
<1>1. Init => Greet!Init
  BY DEF Init
<1>2. [Next]_vars => [Greet!Next]_Greet!vars
  <2>1. UNCHANGED greeting => UNCHANGED Greet!vars
    BY DEF greeting, Greet!vars, Greet!object
  <2> QED
    BY <2>1 DEF Next, Only, vars
<1> QED
  BY <1>1, <1>2, PTL DEF Spec, Greet!Spec

LEMMA TimerRuns == Spec => Timer!Spec
<1>1. Init => Timer!Init
  BY DEF Init
<1>2. [Next]_vars => [Timer!Next]_Timer!vars
  <2>1. UNCHANGED timer => UNCHANGED Timer!vars
    BY DEF timer, Timer!vars
  <2> QED
    BY <2>1 DEF Next, Only, vars
<1> QED
  BY <1>1, <1>2, PTL DEF Spec, Timer!Spec

LEMMA QueuesRun == Spec => Queues!Spec
<1>1. Init => Queues!Init
  BY DEF Init
<1>2. [Next]_vars => [Queues!Next]_Queues!vars
  <2>1. UNCHANGED queues => UNCHANGED Queues!vars
    BY DEF queues, Queues!vars
  <2> QED
    BY <2>1 DEF Next, Only, vars
<1> QED
  BY <1>1, <1>2, PTL DEF Spec, Queues!Spec

LEMMA ExitRuns == Spec => Exit!Spec
<1>1. Init => Exit!Init
  BY DEF Init
<1>2. [Next]_vars => [Exit!Next]_Exit!vars
  <2>1. UNCHANGED exit => UNCHANGED Exit!vars
    BY DEF exit, Exit!vars, Exit!mainVars, Exit!flags
  <2> QED
    BY <2>1 DEF Next, Only, vars
<1> QED
  BY <1>1, <1>2, PTL DEF Spec, Exit!Spec

\* EntityBedrockWorkflow loses no prompt and answers none twice, however many runs it is
\* continued in, and answers each in the context of all those answered before.
THEOREM Conversation == Spec => []PromptsInContext
<1>1. \A S : Bedrock!Cardinality(S) = BedrockSafe!Cardinality(S)
  BY DEF Bedrock!Cardinality, BedrockSafe!Cardinality
<1>2. BedrockSafe!PromptsInContext => PromptsInContext
  BY <1>1
     DEF PromptsInContext, Bedrock!PromptsInContext, BedrockSafe!PromptsInContext,
         Bedrock!EachPromptOnce, BedrockSafe!EachPromptOnce, Bedrock!ContextComplete,
         BedrockSafe!ContextComplete, Bedrock!Context, BedrockSafe!Context,
         Bedrock!Entries, BedrockSafe!Entries
<1> QED
  BY <1>2, BedrockRuns, BedrockSafe!Conversation, PTL

\* ChatbotWorkflow: the message under query stays pending until it is answered, and an
\* update returns a response made after it offered its message, however many updates wait
\* for the same turn.
THEOREM ChatAnswersFresh == Spec => []AnswersFresh
  BY WorkflowsAssumption, ChatRuns, ChatAlone, PTL DEF WorkflowsAssumption, AnswersFresh

\* GreetingWorkflow: updates that need the activity take effect in order of arrival, and
\* the workflow returns a greeting in the language of the last update that took effect,
\* after every update it accepted.
THEOREM GreetingOrder == Spec => []LanguageInOrder
  BY WorkflowsAssumption, GreetingRuns, GreetingAlone, PTL DEF WorkflowsAssumption, LanguageInOrder

\* UpdatableTimer: sleep does not end before the wake-up time, however often it was moved.
THEOREM TimerNotEarly == Spec => []NotEarly
  BY WorkflowsAssumption, TimerRuns, TimerAlone, PTL DEF WorkflowsAssumption, NotEarly

\* FileProcessing on a single host: the activities find the file where the first of them
\* has put it, and leave none behind.
THEOREM QueueFilesInPlace ==
  ASSUME SingleHost PROVE Spec => []FilesInPlace
  BY QueuesRun, QueueAlone, PTL DEF FilesInPlace

\* WaitingForHandlersAndCompensation: a successful return has answered every update.
THEOREM ReturnComplete == Spec => []ReturnAfterHandlers
  BY ExitRuns, ExitAlone, PTL DEF ReturnAfterHandlers

\* WaitingForHandlersAndCompensation: updates are compensated exactly when their callers are
\* told that they failed.
THEOREM CompensationExact == Spec => []CompensatedIffRaised
  BY ExitRuns, ExitAlone, PTL DEF CompensatedIffRaised

\* WaitingForHandlersAndCompensation: on failure or cancellation, the updates first, then
\* the workflow's own compensation.
THEOREM OrderlyExit == Spec => []ExitInOrder
  BY ExitRuns, ExitAlone, PTL DEF ExitInOrder
=============================================================================
