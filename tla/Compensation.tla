---------------------------- MODULE Compensation ----------------------------
(***************************************************************************)
(* message_passing/waiting_for_handlers_and_compensation: a workflow whose *)
(* main method, before it exits, waits for its update handlers, and whose  *)
(* handlers compensate when the workflow fails or is cancelled first.      *)
(*                                                                         *)
(* An event (an update, a cancellation request, the result of an activity) *)
(* reaches the workflow when no coroutine can run: Quiet.  workflow.wait   *)
(* with FIRST_EXCEPTION returns when one of its futures has an exception   *)
(* or when all of them are done.  The server records one cancellation      *)
(* request; it raises CancelledError in the main coroutine.  Activities    *)
(* are retried until they succeed, so an update's own logic never raises.  *)
(*                                                                         *)
(* Setting a future twice raises InvalidStateError, which fails the        *)
(* workflow task; it is retried without end, and the workflow is "stuck".  *)
(***************************************************************************)
EXTENDS Naturals

CONSTANT Updates        \* calls of my_update

VARIABLES
  exit_type,            \* WorkflowInput.exit_type
  pc,                   \* main coroutine, and how the workflow closed
  error,                \* the exception the main coroutine is to raise
  workflow_exit,        \* the future of that name
  update_started, update_compensation_done, workflow_compensation_done,
  cancelled,            \* the cancellation request: no, in time, or late
  handler,              \* my_update
  logic,                \* update_task: _my_update_application_logic
  compensated,          \* history: the updates whose compensation was done
  early                 \* history: the updates that started before the workflow's exit

mainVars == <<exit_type, pc, error, workflow_exit, cancelled>>
flags == <<update_started, update_compensation_done, workflow_compensation_done>>
vars == <<mainVars, flags, handler, logic, compensated, early>>

Closed == pc \in {"completed", "failed", "cancelled"}
Open   == ~Closed /\ pc # "stuck"

TypeOK ==
  /\ exit_type \in {"SUCCESS", "FAILURE", "CANCELLATION"}
  /\ pc \in {"logic", "blocked", "returning", "exiting", "compensating",
             "completed", "failed", "cancelled", "stuck"}
  /\ error \in {"none", "failed", "cancelled"}
  /\ workflow_exit \in {"pending", "result", "exception"}
  /\ update_started \in BOOLEAN
  /\ update_compensation_done \in BOOLEAN /\ workflow_compensation_done \in BOOLEAN
  /\ cancelled \in {"no", "in time", "late"}
  /\ handler \in [Updates -> {"unsent", "racing", "compensating", "returned", "raised"}]
  /\ logic \in [Updates -> {"none", "running", "done"}]
  /\ compensated \subseteq Updates /\ early \subseteq Updates

Init ==
  /\ exit_type \in {"SUCCESS", "FAILURE", "CANCELLATION"}
  /\ pc = "logic" /\ error = "none" /\ workflow_exit = "pending" /\ cancelled = "no"
  /\ update_started = FALSE
  /\ update_compensation_done = FALSE /\ workflow_compensation_done = FALSE
  /\ handler = [u \in Updates |-> "unsent"]
  /\ logic = [u \in Updates |-> "none"]
  /\ compensated = {} /\ early = {}

FinishedWithoutWait == TRUE   \* mutant: the handlers are not waited for
AllHandlersFinished == \A u \in Updates : handler[u] \notin {"racing", "compensating"}

RaceFirstCompleted(u) == logic[u] = "done" \/ workflow_exit # "pending"   \* mutant: FIRST_COMPLETED
RaceOver(u) == workflow_exit = "exception" \/ (logic[u] = "done" /\ workflow_exit = "result")

Ready == \/ \E u \in Updates : handler[u] = "racing" /\ RaceOver(u)
         \/ pc = "logic" /\ update_started
         \/ pc \in {"returning", "exiting"} /\ AllHandlersFinished
Quiet == Open /\ ~Ready
-----------------------------------------------------------------------------
(* The main coroutine.                                                     *)

\* The except block of run: the future tells the handlers.
ExitUntold(e) == pc' = "exiting" /\ error' = e /\ workflow_exit' = workflow_exit   \* mutant
ExitWith(e) == pc' = "exiting" /\ error' = e /\ workflow_exit' = "exception"

\* _my_workflow_application_logic goes on once an update has started.
ApplicationLogic ==
  /\ pc = "logic" /\ update_started
  /\ \/ /\ exit_type = "SUCCESS"
        /\ pc' = "returning" /\ workflow_exit' = "result" /\ error' = error
     \/ exit_type = "FAILURE" /\ ExitWith("failed")
     \/ /\ exit_type = "CANCELLATION"
        /\ pc' = "blocked" /\ UNCHANGED <<workflow_exit, error>>
  /\ UNCHANGED <<exit_type, cancelled, flags, handler, logic, compensated, early>>

\* The return, once the handlers have finished.
Complete ==
  /\ pc = "returning" /\ AllHandlersFinished /\ pc' = "completed"
  /\ UNCHANGED <<exit_type, error, workflow_exit, cancelled, flags, handler, logic, compensated, early>>

\* The except block, once the handlers have finished: workflow_compensation.
BeginCompensation ==
  /\ pc = "exiting" /\ AllHandlersFinished /\ pc' = "compensating"
  /\ UNCHANGED <<exit_type, error, workflow_exit, cancelled, flags, handler, logic, compensated, early>>

\* Its activity is done; the exception is raised again.
FinishCompensation ==
  /\ Quiet /\ pc = "compensating" /\ pc' = error
  /\ update_compensation_done' = TRUE
  /\ workflow_compensation_done' = TRUE
  /\ UNCHANGED <<exit_type, error, workflow_exit, cancelled, update_started, handler, logic,
                 compensated, early>>

\* A cancellation request: CancelledError in the main coroutine.
Cancel ==
  /\ Quiet /\ cancelled = "no"
  /\ \/ \* in the application logic: the except block
        /\ pc \in {"logic", "blocked"} /\ ExitWith("cancelled")
        /\ cancelled' = "in time"
     \/ \* in the wait that follows set_result: the except block sets the future again
        /\ pc = "returning" /\ pc' = "stuck"
        /\ cancelled' = "late"
        /\ UNCHANGED <<error, workflow_exit>>
     \/ \* in the except block: out of it
        /\ pc \in {"exiting", "compensating"} /\ pc' = "cancelled"
        /\ cancelled' = "late"
        /\ UNCHANGED <<error, workflow_exit>>
  /\ UNCHANGED <<exit_type, flags, handler, logic, compensated, early>>
-----------------------------------------------------------------------------
(* The update handlers.                                                    *)

\* my_update starts its logic and races it against the workflow's exit.
StartUpdate(u) ==
  /\ Quiet /\ handler[u] = "unsent"
  /\ handler' = [handler EXCEPT ![u] = "racing"]
  /\ logic' = [logic EXCEPT ![u] = "running"]
  /\ update_started' = TRUE
  /\ early' = IF workflow_exit = "pending" THEN early \cup {u} ELSE early
  /\ UNCHANGED <<mainVars, update_compensation_done, workflow_compensation_done, compensated>>

\* activity_executed_by_update_handler is done.
LogicDone(u) ==
  /\ Quiet /\ logic[u] = "running"
  /\ logic' = [logic EXCEPT ![u] = "done"]
  /\ UNCHANGED <<mainVars, flags, handler, compensated, early>>

\* The race is over: the update's result, or compensation.
RaceEndsUncompensated(u) ==   \* mutant: raises without compensation
  /\ Open /\ handler[u] = "racing" /\ RaceOver(u)
  /\ handler' = [handler EXCEPT ![u] = IF logic[u] = "done" THEN "returned" ELSE "raised"]
  /\ UNCHANGED <<mainVars, flags, logic, compensated, early>>
RaceEnds(u) ==
  /\ Open /\ handler[u] = "racing" /\ RaceOver(u)
  /\ handler' = [handler EXCEPT ![u] = IF logic[u] = "done" THEN "returned" ELSE "compensating"]
  /\ UNCHANGED <<mainVars, flags, logic, compensated, early>>

\* The activity of my_update_compensation is done; the update's error is raised.
UpdateCompensated(u) ==
  /\ Quiet /\ handler[u] = "compensating"
  /\ handler' = [handler EXCEPT ![u] = "raised"]
  /\ compensated' = compensated \cup {u}
  /\ update_compensation_done' = TRUE
  /\ UNCHANGED <<mainVars, update_started, workflow_compensation_done, logic, early>>

Terminated == ~Open /\ UNCHANGED vars
-----------------------------------------------------------------------------
Main == ApplicationLogic \/ Complete \/ BeginCompensation \/ FinishCompensation
Handler(u) == LogicDone(u) \/ RaceEnds(u) \/ UpdateCompensated(u)

Next == \/ Main \/ Cancel \/ Terminated
        \/ \E u \in Updates : StartUpdate(u) \/ Handler(u)

Spec == Init /\ [][Next]_vars

\* Coroutines that can run do, and activities end.  Updates and the cancellation
\* are the clients' choice.
FairSpec == Spec /\ WF_vars(Main) /\ \A u \in Updates : WF_vars(Handler(u))
-----------------------------------------------------------------------------
(* Correctness.                                                            *)

\* A successful return leaves no update without its result.
ReturnAfterHandlers ==
  pc = "completed" => \A u \in Updates : handler[u] \in {"unsent", "returned"}

\* An update is compensated exactly when its caller is told that it failed, and
\* its caller is told so only because the workflow failed or was cancelled.
CompensatedIffRaised ==
  \A u \in Updates : /\ u \in compensated <=> handler[u] = "raised"
                     /\ handler[u] = "raised" => error # "none"

\* A workflow that failed or was cancelled has compensated for itself, and the
\* updates that had started before its exit were answered first, unless the
\* cancellation came while it was in its except block.
ExitInOrder ==
  pc \in {"failed", "cancelled"} /\ cancelled # "late" =>
    /\ workflow_compensation_done
    /\ \A u \in early : handler[u] \in {"returned", "raised"}

\* A workflow that leaves its application logic closes: handlers and main do not wait
\* for each other.  The one exception is a cancellation that comes after set_result,
\* where the except block sets the future a second time.
ExitEnds ==
  pc \in {"returning", "exiting"} ~> Closed \/ (pc = "stuck" /\ cancelled = "late" /\ error = "none")
-----------------------------------------------------------------------------
(* What a comment says, and the code does not do.                          *)

\* "'Race' the workflow_exit future against the handler's own application
\* logic": an update whose logic is done is answered.  FIRST_EXCEPTION waits for
\* the workflow's exit, too.
LogicDoneAnswered == \A u \in Updates : logic[u] = "done" ~> handler[u] # "racing" \/ ~Open
=============================================================================
