------------------------------- MODULE Chatbot -------------------------------
(***************************************************************************)
(* langsmith_tracing/chatbot: the ChatbotWorkflow.  Update handlers hand   *)
(* their message to the main loop through _pending_message, and get the    *)
(* answer back through _last_response.                                     *)
(*                                                                         *)
(* wait_condition: when the workflow has nothing else to do, every waiter  *)
(* whose condition holds is woken at once ("Check"); the woken coroutines  *)
(* then run one after the other, in the order in which they began to wait, *)
(* and none of them looks at its condition again.  Events reach the        *)
(* workflow when nobody is woken and no condition holds ("Quiet"); several *)
(* signals and updates may come in one batch, before the next check.       *)
(*                                                                         *)
(* A message is the update that brought it, a response the message it      *)
(* answers; the notes are the names saved.  Tracing is left out.  An       *)
(* update that still waits when the session ends is left unanswered.       *)
(***************************************************************************)
EXTENDS Naturals, Sequences, FiniteSets

CONSTANTS
  Messages,          \* calls of message_from_user
  MaxInFlight,       \* how many the clients have open at a time
  Names,             \* names of notes
  MaxRounds,         \* rounds of tool calls in one query
  None

\* No update is the main coroutine, or nothing at all.
ChatbotAssumption == "main" \notin Messages /\ None \notin Messages

VARIABLES
  pending_message, last_response, notes, done,   \* the workflow object
  session,                \* main loop
  rounds,            \* rounds of the query so far
  update,           \* where each update is
  answer,            \* what it returned
  waiters,           \* the coroutines in a wait_condition, in order, of which
  woken,             \* these were found to have their condition hold
  batch,             \* no check since the last signal or update
  queried,           \* history: the messages given to the model
  since              \* history: how many there were when the update offered its own

object == <<pending_message, last_response, notes, done>>
vars == <<object, session, rounds, update, answer, waiters, woken, batch, queried, since>>

Open == session \notin {"ended", "failed"}
InFlight == {m \in Messages : update[m] \in {"offering", "listening"}}

Init ==
  /\ pending_message = None /\ last_response = None /\ notes = {} /\ done = FALSE
  /\ session = "waiting" /\ rounds = 0
  /\ update = [m \in Messages |-> "unsent"] /\ answer = [m \in Messages |-> None]
  /\ waiters = <<"main">> /\ woken = {} /\ batch = FALSE
  /\ queried = <<>> /\ since = [m \in Messages |-> 0]

\* The lambdas of the three wait_conditions.
ConditionBoth(c) ==          \* mutant: "and" for "or" in main's lambda
  IF c = "main" THEN pending_message # None /\ done
  ELSE pending_message = None
Condition(c) == IF c = "main" THEN pending_message # None \/ done
                              ELSE pending_message = None

Quiet == Open /\ woken = {} /\ \A i \in 1..Len(waiters) : ~Condition(waiters[i])
Arrival == Quiet \/ (Open /\ batch)
-----------------------------------------------------------------------------
(* The event loop.                                                         *)

Check ==
  /\ Open /\ woken = {} /\ ~Quiet
  /\ woken' = {waiters[i] : i \in {k \in 1..Len(waiters) : Condition(waiters[k])}}
  /\ batch' = FALSE
  /\ UNCHANGED <<object, session, rounds, update, answer, waiters, queried, since>>

\* The sequence s without its k-th element.
Without(s, k) == [i \in 1..Len(s) - 1 |-> IF i < k THEN s[i] ELSE s[i + 1]]

\* Coroutine c, the first of the woken, goes on: its wait is over, and it may begin another.
Runs(c, waitsAgain) ==
  \E k \in 1..Len(waiters) :
    /\ Open /\ waiters[k] = c /\ c \in woken /\ \A i \in 1..k - 1 : waiters[i] \notin woken
    /\ waiters' = Without(waiters, k) \o (IF waitsAgain THEN <<c>> ELSE <<>>)
    /\ woken' = woken \ {c}
-----------------------------------------------------------------------------
(* message_from_user.                                                      *)

Send(m) ==
  /\ Arrival /\ update[m] = "unsent" /\ Cardinality(InFlight) < MaxInFlight
  /\ update' = [update EXCEPT ![m] = "offering"]
  /\ waiters' = Append(waiters, m)
  /\ batch' = TRUE
  /\ UNCHANGED <<object, session, rounds, answer, woken, queried, since>>

\* The first wait is over: the message is offered, and the second wait begins.
Offer(m) ==
  /\ update[m] = "offering" /\ Runs(m, TRUE)
  /\ pending_message' = m
  /\ update' = [update EXCEPT ![m] = "listening"]
  /\ since' = [since EXCEPT ![m] = Len(queried)]
  /\ UNCHANGED <<last_response, notes, done, session, rounds, answer, batch, queried>>

\* The second wait is over.
Listen(m) ==
  /\ update[m] = "listening" /\ Runs(m, FALSE)
  /\ update' = [update EXCEPT ![m] = "returned"]
  /\ answer' = [answer EXCEPT ![m] = last_response]
  /\ UNCHANGED <<object, session, rounds, batch, queried, since>>

\* Signal exit.
Exit ==
  /\ Arrival /\ ~done /\ done' = TRUE
  /\ batch' = TRUE
  /\ UNCHANGED <<pending_message, last_response, notes, session, rounds, update, answer, waiters,
                 woken, queried, since>>
-----------------------------------------------------------------------------
(* The main loop.                                                          *)

\* The wait is over: the session ends, or the message goes to the model.
WakeAndClear ==   \* mutant: the message is cleared when it is taken
  /\ session = "waiting" /\ Runs("main", FALSE)
  /\ \/ done /\ session' = "ended" /\ queried' = queried
     \/ ~done /\ session' = "querying" /\ queried' = Append(queried, pending_message)
  /\ pending_message' = None
  /\ rounds' = 0
  /\ UNCHANGED <<last_response, notes, done, update, answer, batch, since>>
Wake ==
  /\ session = "waiting" /\ Runs("main", FALSE)
  /\ \/ done /\ session' = "ended" /\ queried' = queried
     \/ ~done /\ session' = "querying" /\ queried' = Append(queried, pending_message)
  /\ rounds' = 0
  /\ UNCHANGED <<object, update, answer, batch, since>>

\* call_openai asks for tools: notes are saved or read, and it is called again.
ToolRound(saved) ==
  /\ Quiet /\ session = "querying" /\ rounds < MaxRounds
  /\ rounds' = rounds + 1
  /\ notes' = notes \cup saved
  /\ UNCHANGED <<pending_message, last_response, done, session, update, answer, waiters, woken,
                 batch, queried, since>>

\* call_openai has an answer: it is published, the message cleared, and the loop
\* goes on unless the session is done.
Respond ==
  /\ Quiet /\ session = "querying"
  /\ last_response' = queried[Len(queried)]
  /\ pending_message' = None
  /\ \/ done /\ session' = "ended" /\ waiters' = waiters
     \/ ~done /\ session' = "waiting" /\ waiters' = Append(waiters, "main")
  /\ UNCHANGED <<notes, done, rounds, update, answer, woken, batch, queried, since>>

\* call_openai fails three times.
QueryFails ==
  /\ Quiet /\ session = "querying" /\ session' = "failed"
  /\ UNCHANGED <<object, rounds, update, answer, waiters, woken, batch, queried, since>>

\* Nobody has anything more to say, or the session is over.
Idle == ((Quiet /\ InFlight = {}) \/ ~Open) /\ UNCHANGED vars
-----------------------------------------------------------------------------
Loop == \/ Check \/ Wake \/ Respond
        \/ \E m \in Messages : Offer(m) \/ Listen(m)

Next == \/ Loop \/ Exit \/ QueryFails \/ Idle
        \/ \E m \in Messages : Send(m)
        \/ \E saved \in SUBSET Names : ToolRound(saved)

Spec == Init /\ [][Next]_vars

\* The event loop runs what can run, and the model stops asking for tools.
FairSpec == Spec /\ WF_vars(Loop)
-----------------------------------------------------------------------------
(* Correctness.                                                            *)

\* The message under query stays pending until its response is there: no update
\* replaces it, and main never finds nothing (its assert).
PendingKept == session = "querying" => pending_message = queried[Len(queried)]

\* What an update returns is a response that was made after it offered its
\* message, never one left over ("clear pending_message AFTER setting the
\* response so the update handler reads the correct response").
FreshAnswer ==
  \A m \in Messages : update[m] = "returned" =>
    \E i \in since[m] + 1 .. Len(queried) : answer[m] = queried[i]

\* An update returns the response to its own message.  Holds for a client that
\* sends one message at a time; two updates that wait for the same turn both take
\* it, the later message replaces the earlier, and both return its response.
OwnResponse == \A m \in Messages : update[m] = "returned" => answer[m] = m

\* An update does not wait for ever, however many there are: again and again all those
\* that were sent have returned, or the session is over.
UpdatesReturn == []<>(~Open \/ \A m \in Messages : update[m] \in {"unsent", "returned"})
=============================================================================
