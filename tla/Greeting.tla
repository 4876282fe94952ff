------------------------------ MODULE Greeting ------------------------------
(***************************************************************************)
(* message_passing/introduction: the GreetingWorkflow.  Updates set the    *)
(* language of a greeting, if need be after an activity has fetched the    *)
(* greeting; the activities are serialized by a lock.                      *)
(*                                                                         *)
(* Actions are the code between two awaits.  "lock" is the queue of        *)
(* asyncio.Lock, its head the holder, whose activity is under way.         *)
(* Leaving the "async with" does not suspend, so the greeting is stored    *)
(* and the language set in one step.  Queries change nothing.              *)
(***************************************************************************)
EXTENDS Naturals, Sequences

CONSTANTS
  Updates,            \* calls of the two updates
  Languages,
  Initial,            \* the languages of greetings at the start
  Remote,             \* the languages the greeting service knows
  English

\* The workflow starts with a greeting in the language it starts in.
GreetingAssumption == English \in Initial

VARIABLES
  greetings, language, approved_for_release, lock,   \* the workflow object
  phase,                \* the run method
  handler,           \* where each update is
  wants,             \* its SetLanguageInput, English before it arrives
  returned,          \* the language the workflow returned a greeting in
  arrivals,          \* history: the updates accepted, in order
  effects,           \* history: the updates that set the language, in order
  fetching           \* history: the updates that needed the activity

object == <<greetings, language, approved_for_release, lock>>
vars == <<object, phase, handler, wants, returned, arrivals, effects, fetching>>

Init ==
  /\ greetings = Initial /\ language = English
  /\ approved_for_release = FALSE /\ lock = <<>>
  /\ phase = "waiting"
  /\ handler = [u \in Updates |-> "unsent"] /\ wants = [u \in Updates |-> English]
  /\ returned = English /\ arrivals = <<>> /\ effects = <<>> /\ fetching = {}

Open == phase = "waiting"
AllHandlersFinished == \A u \in Updates : handler[u] # "queued"
\* The condition of run holds: run goes on before the next event.
Releasable == approved_for_release /\ AllHandlersFinished

SetLanguage(u, l) ==
  /\ language' = l
  /\ handler' = [handler EXCEPT ![u] = "done"]
  /\ effects' = Append(effects, u)
-----------------------------------------------------------------------------
\* set_language, with its validator.
ValidLanguage(l) == l \in greetings
UpdateSetLanguage(u, l) ==
  /\ Open /\ ~Releasable /\ handler[u] = "unsent"
  /\ wants' = [wants EXCEPT ![u] = l]
  /\ \/ /\ ~ValidLanguage(l)
        /\ handler' = [handler EXCEPT ![u] = "rejected"]
        /\ UNCHANGED <<language, arrivals, effects>>
     \/ /\ ValidLanguage(l)
        /\ SetLanguage(u, l)
        /\ arrivals' = Append(arrivals, u)
  /\ UNCHANGED <<greetings, approved_for_release, lock, phase, returned, fetching>>

\* set_language_using_activity: at once, or by way of the lock and the activity.
UpdateUsingActivity(u, l) ==
  /\ Open /\ ~Releasable /\ handler[u] = "unsent"
  /\ wants' = [wants EXCEPT ![u] = l]
  /\ arrivals' = Append(arrivals, u)
  /\ \/ /\ l \in greetings
        /\ SetLanguage(u, l) /\ UNCHANGED <<lock, fetching>>
     \/ /\ l \notin greetings
        /\ handler' = [handler EXCEPT ![u] = "queued"]
        /\ lock' = Append(lock, u) /\ fetching' = fetching \cup {u}
        /\ UNCHANGED <<language, effects>>
  /\ UNCHANGED <<greetings, approved_for_release, phase, returned>>

\* call_greeting_service has answered the holder of the lock.
AnyHolder(u) == \E i \in 1..Len(lock) : lock[i] = u   \* mutant: no lock
Holds(u) == lock # <<>> /\ Head(lock) = u
Released == Tail(lock)
GreetingFetched(u) ==
  /\ Open /\ ~Releasable /\ handler[u] = "queued" /\ Holds(u) /\ wants[u] \in Remote
  /\ greetings' = greetings \cup {wants[u]}
  /\ SetLanguage(u, wants[u])
  /\ lock' = Released
  /\ UNCHANGED <<approved_for_release, phase, wants, returned, arrivals, fetching>>

GreetingUnknown(u) ==
  /\ Open /\ ~Releasable /\ handler[u] = "queued" /\ Holds(u) /\ wants[u] \notin Remote
  /\ handler' = [handler EXCEPT ![u] = "failed"]
  /\ lock' = Released
  /\ UNCHANGED <<greetings, language, approved_for_release, phase, wants, returned, arrivals, effects,
                 fetching>>

Approve ==
  /\ Open /\ ~approved_for_release
  /\ approved_for_release' = TRUE
  /\ UNCHANGED <<greetings, language, lock, phase, handler, wants, returned, arrivals, effects,
                 fetching>>

Return ==
  /\ Open /\ Releasable /\ phase' = "completed"
  /\ returned' = language
  /\ UNCHANGED <<object, handler, wants, arrivals, effects, fetching>>

Terminated == ~Open /\ UNCHANGED vars
-----------------------------------------------------------------------------
Fetched(u) == GreetingFetched(u) \/ GreetingUnknown(u)

Next == \/ Approve \/ Return \/ Terminated
        \/ \E u \in Updates : Fetched(u) \/ \E l \in Languages :
                               UpdateSetLanguage(u, l) \/ UpdateUsingActivity(u, l)

Spec == Init /\ [][Next]_vars

\* Activities are retried until they answer, and run goes on when it can.
FairSpec == Spec /\ WF_vars(Return) /\ \A u \in Updates : WF_vars(Fetched(u))
-----------------------------------------------------------------------------
(* Correctness.                                                            *)

\* The workflow can greet in its language at any time, it returns its greeting in
\* the language of the last update that took effect, and no update that was accepted is left without an answer.
ReturnsLatest ==
  /\ language \in greetings
  /\ phase = "completed" =>
    /\ returned = IF effects = <<>> THEN English ELSE wants[effects[Len(effects)]]
    /\ \A i \in 1..Len(arrivals) : handler[arrivals[i]] \in {"done", "failed"}

Position(s, u) == CHOOSE i \in 1..Len(s) : s[i] = u

\* The updates that need the activity take effect in the order of their arrival.
\* (A call whose language is known already may overtake them all.)
FetchedInOrder ==
  \A i, k \in 1..Len(effects) :
    i < k /\ {effects[i], effects[k]} \subseteq fetching
      => Position(arrivals, effects[i]) < Position(arrivals, effects[k])

\* Both: the language is the one the last update asked for, in the order they came.
LanguageInOrder == FetchedInOrder /\ ReturnsLatest

\* An update is answered: no failure of another keeps the lock, and again and again
\* nobody waits for it.
UpdatesAnswered == []<>(\A u \in Updates : handler[u] # "queued")
=============================================================================
