------------------------------- MODULE Samples -------------------------------
(***************************************************************************)
(* The samples with liveness properties, those of Workflows among them,    *)
(* and the interpreter, whose meaning is defined by recursion, checked     *)
(* side by side: a behaviour is a behaviour of one of them, the others     *)
(* stay in their initial states.                                           *)
(***************************************************************************)
EXTENDS Workflows

CONSTANTS
  Variables,                                    \* Dsl
  Registry                                      \* Deployments

VARIABLES
  program, variables, arguments, finished,
  deployment, flow, queue, flags, mail, runs, cancelled, gaveup

Interpreter == INSTANCE Dsl WITH ended <- finished
Deploy      == INSTANCE Deployments WITH sample <- deployment

\* The table of the deployed samples.
All == INSTANCE Catalogue
AllSamples == All!AllSamples

dsl == <<program, variables, arguments, finished>>
deployed == <<deployment, flow, queue, flags, mail, runs, cancelled, gaveup>>
allvars == <<vars, dsl, deployed>>

SamplesInit ==
  /\ sample \in {"bedrock", "chatbot", "greeting", "timer", "cluster", "queues", "exit",
                "dsl", "deployed"}
  /\ sample = "exit" \/ exit_type = "SUCCESS"
  /\ sample = "dsl" \/ program = Interpreter!workflow1
  /\ sample = "deployed" \/ deployment = CHOOSE d \in DOMAIN Registry : TRUE
  /\ Init /\ Interpreter!Init /\ Deploy!Init

SamplesNext ==
  \/ Next /\ UNCHANGED <<dsl, deployed>>
  \/ sample = "dsl" /\ Interpreter!Next /\ UNCHANGED <<vars, deployed>>
  \/ sample = "deployed" /\ Deploy!Next /\ UNCHANGED <<vars, dsl>>

FairSpec ==
  /\ SamplesInit /\ [][SamplesNext]_allvars /\ Fairness
  /\ WF_allvars(sample = "deployed" /\ Deploy!Progress /\ UNCHANGED <<vars, dsl>>)
-----------------------------------------------------------------------------
\* DSLWorkflow: the result does not depend on the order in which the branches proceed.
SameAsSequential == Interpreter!SameAsSequential

\* The deployed samples: whatever is waited for is the work of some worker, and every
\* message has its handler.
Served == sample = "deployed" => Deploy!Served /\ Deploy!Understood

\* The deployed samples: a client's script ends in an exception only when something that
\* is bounded in attempts or time has failed for good.
ClientsSucceed == Deploy!ClientsSucceed

\* The deployed samples: every client's script comes to its end, whatever has failed.
ClientsEnd == []<>(sample = "deployed" => \A c \in Deploy!Clients : Deploy!Ended(c))
=============================================================================
