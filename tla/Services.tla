------------------------------ MODULE Services ------------------------------
(***************************************************************************)
(* The samples whose properties are about safety, checked side by side as  *)
(* in Samples: a behaviour is a behaviour of one of them.                  *)
(***************************************************************************)
EXTENDS Naturals, Sequences, FiniteSets, TLC

CONSTANTS
  Nodes, Jobs, Requests, Sizes, MaxRuns, Unassigned, Bad, Absent,  \* ClusterManager
  Additions, Price, MaxCarts, r1, r2, r3,                   \* ShoppingCart
  Count, KeepLast, TruncateEvery, Stages, PHASE_1_EVENTS,   \* Streams
  Deltas, MaxAttempts,                                      \* LLMStream
  Rounds,                                                   \* Versioning
  Clients, Values, Large, NumPayloads, TTL, MaxTime,        \* ExternalStorage
  Users, NoUser, Greetings,                                 \* ContextPropagation
  num_delay_hour, MaxHours, MaxObjects, PageSize, maximum_attempts  \* CloudExport

VARIABLES
  sample,            \* the sample that runs
  nodes, jobs_assigned, cluster_started, cluster_shutdown, lock, pc, run, checked, shutdown,
  hpc, req, picked, result, granted,
  cart, open, items, order_submitted, request, in, subtotal, orders,
  host, published, base, running, reading, position, batch, shown, last_offset, dropped,
  processed,
  phase, attempt, late, activity, produced, error, buffer, log, consumed, screen, ended,
  seen,
  script, current, version, inbox, signals, history, completed, marker, closed, mismatched,
  prestorage_codec, poststorage_codec, redis, now, call, payloads, storing, original,
  first_stored,
  user_id, headers, token, task, is_complete, tries, caller, logged,
  objects, clock, at, read_time, keys, key, attempts, read, landed, unreported, done

\* For TLC: two items that cost something, and one that is not available.
Prices == (r1 :> 1) @@ (r2 :> 2) @@ (r3 :> 0)

Cluster == INSTANCE ClusterManager
Cart    == INSTANCE ShoppingCart WITH Requests <- Additions
Stream  == INSTANCE Streams
LLM     == INSTANCE LLMStream WITH position <- consumed
Version == INSTANCE Versioning
Storage == INSTANCE ExternalStorage WITH request <- call
Context == INSTANCE ContextPropagation WITH MaxAttempts <- 2
Export  == INSTANCE CloudExport

\* The assumptions on the constants, of the samples about which there are proofs.
ASSUME ServicesAssumption ==
  /\ Cluster!ClusterAssumption /\ Cart!CartAssumption
  /\ Stream!StreamAssumption /\ LLM!LLMAssumption
  /\ Version!VersioningAssumption
  /\ Storage!StorageAssumption /\ Export!ExportAssumption

cluster == <<nodes, jobs_assigned, cluster_started, cluster_shutdown, lock, pc, run, checked,
             shutdown, hpc, req, picked, result, granted>>
shopping == <<cart, open, items, order_submitted, request, in, subtotal, orders>>
streams == <<host, published, base, running, reading, position, batch, shown, last_offset,
             dropped, processed>>
llm == <<phase, attempt, late, activity, produced, error, buffer, log, consumed, screen,
         ended, seen>>
versioning == <<script, current, version, inbox, signals, history, completed, marker, closed,
                mismatched>>
storage == <<prestorage_codec, poststorage_codec, redis, now, call, payloads, storing,
             original, first_stored>>
context == <<user_id, headers, token, task, is_complete, tries, caller, logged>>
export == <<objects, clock, at, read_time, keys, key, attempts, read, landed, unreported, done>>
vars == <<sample, cluster, shopping, streams, llm, versioning, storage, context, export>>

Only(name) ==
  /\ sample = name /\ UNCHANGED sample
  /\ IF name = "cluster" THEN TRUE ELSE UNCHANGED cluster
  /\ IF name = "shopping" THEN TRUE ELSE UNCHANGED shopping
  /\ IF name = "streams" THEN TRUE ELSE UNCHANGED streams
  /\ IF name = "llm" THEN TRUE ELSE UNCHANGED llm
  /\ IF name = "versioning" THEN TRUE ELSE UNCHANGED versioning
  /\ IF name = "storage" THEN TRUE ELSE UNCHANGED storage
  /\ IF name = "context" THEN TRUE ELSE UNCHANGED context
  /\ IF name = "export" THEN TRUE ELSE UNCHANGED export

\* Where a sample can begin in several ways, one is enough while another sample runs.
Resting ==
  /\ sample = "streams" \/ host = "ticker"
  /\ sample = "versioning" \/ script = Version!app
  /\ sample = "storage" \/ (prestorage_codec = FALSE /\ poststorage_codec = FALSE
                            /\ original = CHOOSE o \in [Clients -> Storage!Messages] : TRUE)
  /\ sample = "export" \/ objects = [h \in Export!Hours |-> 0]

Init ==
  /\ sample \in {"cluster", "shopping", "streams", "llm", "versioning", "storage",
                "context", "export"}
  /\ Resting
  /\ Cluster!Init /\ Cart!Init /\ Stream!Init /\ LLM!Init /\ Version!Init /\ Storage!Init
  /\ Context!Init /\ Export!Init

Next ==
  \/ Only("cluster") /\ Cluster!Next
  \/ Only("shopping") /\ Cart!Next
  \/ Only("streams") /\ Stream!Next
  \/ Only("llm") /\ LLM!Next
  \/ Only("versioning") /\ Version!Next
  \/ Only("storage") /\ Storage!Next
  \/ Only("context") /\ Context!Next
  \/ Only("export") /\ Export!Next

Spec == Init /\ [][Next]_vars

Symmetric == Permutations(Nodes) \cup Permutations(Requests)
-----------------------------------------------------------------------------
(* The properties are those of the samples' modules.                       *)

\* ClusterManagerWorkflow: what a critical section read before its await still holds
\* after it.
CriticalSectionsAtomic == Cluster!CriticalSectionsAtomic

\* ClusterManagerWorkflow: a job is allocated nodes once, every answer is what was granted,
\* and in the first run the job keeps it until it is deleted or its nodes go bad.
GrantsStable == Cluster!GrantsStable

\* ShoppingCartWorkflow: an order has the acknowledged items and the announced price.
OrderExact == Cart!OrderExact

\* TickerWorkflow and the subscribers: the log is truncated to the last events and no
\* further, the slow subscriber's gaps are those there were, and the one that resumes
\* neither misses an event nor shows one twice.
EventsAccounted == Stream!EventsAccounted

\* LLMWorkflow: what is on the screen is the answer of one attempt, unless an attempt
\* that the service has given up flushes.
ShownOnce == LLM!ShownOnce

\* Worker versioning and patching: no history meets code that cannot replay it, and every
\* signal is handled once, across the versions.
VersionsCompatible == Version!AlwaysReplays /\ Version!EachSignalOnce

\* External storage: what was encoded is decoded, every payload in its place.
RoundTrip == Storage!RoundTrip

\* External storage: a payload is not lost before its time.
LostOnlyByTTL == Storage!LostOnlyByTTL

\* ContextPropagationInterceptor: everything is done as the user of the call it belongs to.
UserOfCall == Context!UserOfCall

\* ProtoToParquet: each hour is read once, and its objects land before the workflow returns.
Landed == Export!Landed
=============================================================================
