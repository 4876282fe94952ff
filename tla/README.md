# A TLA+ model of the Temporal Python samples

This directory holds a formal model of the programs of `temporalio/samples-python`
(workflows, activities, workers and clients): TLA+ modules translated from their source, TLC
configurations that check them on small instances, and TLAPS proofs for every size
of instance. The repository is a collection of samples that share no code; what
they share is Temporal. So the model is a set of independent components, each of
them a workflow (or a family of workflows) with its clients and activities, and one
set of assumptions about the server and the SDK that all of them use.

Paths are relative to the repository. `PROJECT.json` has, for every definition, the
lines it models; and the list of runs, hazards, findings and theorems.

## 1. The system and its parts

### What all components rest on (Temporal and the Python SDK; not in the repository)

* Workflow code is single-threaded and interleaves only at its awaits. **Every action
  of the model is the code between two awaits**; what an activity or another workflow
  does in the meantime is other actions.
* An event (signal, update, activity result, timer, cancellation) reaches a workflow
  when none of its coroutines can run. Signals and updates of one workflow task are
  applied before the results of activities, timers and external signals.
* `wait_condition` suspends. When the workflow has nothing else to do, *all* waiters
  whose condition holds are resolved in one pass, then run one after the other without
  looking at their condition again (modelled explicitly in `Chatbot`, where it matters;
  elsewhere at most one waiter can be concerned, or the order makes no difference).
* `asyncio.Lock` is first come, first served; a free one is taken without suspending,
  and leaving `async with` does not suspend.
* A task that closes a run, or continues it as new, while a signal is pending is made
  again with the signal: signals are handled before or after, never lost between runs.
  A handler decorated on the class may run before the new run's `run` method does; one
  set with `set_signal_handler` gets the buffered signals when it is set.
* Activities and workflow tasks are retried until they succeed, unless the code bounds
  them (`schedule_to_close_timeout`, `maximum_attempts`). An attempt that timed out may
  still be running. An exception other than a failure error fails the workflow *task*,
  which is retried without end: the workflow is stuck.
* A cancellation request is recorded once and raises `CancelledError` in the main
  coroutine only.
* A signal to a workflow that is not running fails with "not found"; an accepted signal
  is delivered, possibly twice when the sender's call is retried.

### Inventory

| part | state it keeps | operations | what is hard | correct means |
|---|---|---|---|---|
| **Resource pool** `resource_pool/` | pool: `resources`, `waiters`, `release_key_to_resource`; client: `acquired_resources`, release keys | signals `add_resources`, `acquire_resource`, release; assignment loop; continue-as-new of the pool and, with a detached resource, of the users | the holder is registered *after* an await; cancellation, give-up and restart of users; timed-out activities | a resource has one owner; pool and users agree; every leak has a known cause; waiters are served |
| **Cluster manager** `message_passing/safe_message_handlers/` | `ClusterManagerState` (`nodes`, `jobs_assigned`, flags), `nodes_lock` | updates `assign_nodes_to_job`, `delete_job`; signals; health check; continue-as-new | handlers interleave with each other, with the health check, with shutdown and with continue-as-new | critical sections are atomic; a request repeated allocates once; a job keeps its nodes; a shutdown ends it |
| **Batch sliding window** `batch_sliding_window/` | per window: `current_records`, `progress`, `children_started`, offset | divide, start windows, load a page, start children, handle completions, continue-as-new, gather | children outlive the run that started them and signal whatever run is there, perhaps before their start was confirmed, perhaps twice | every record processed once; progress exact; parallelism bounded; the batch ends with the right count |
| **Handlers and compensation** `message_passing/waiting_for_handlers_and_compensation/` | `workflow_exit` future, flags, handlers | main logic, update handlers racing the exit, compensation on both sides, cancellation | exit, updates and cancellation in any order; main waits for handlers and handlers for main | compensated iff the caller was told of the failure; orderly exit; no mutual wait |
| **Bedrock entity chat** `bedrock/entity/` | `conversation_history`, `prompt_queue`, `conversation_summary`, `chat_ended` | signals `user_prompt`, `end_chat`; the turn loop; continue-as-new | signals around continue-as-new | no prompt lost or answered twice; context complete |
| **Chatbot** `langsmith_tracing/chatbot/` | `_pending_message`, `_last_response`, `_notes`, `_done` | update `message_from_user`, signal `exit`, main loop with a tool loop | several handlers woken by one change; a response read some time after it was set | an update gets a fresh response, and returns |
| **Greeting** `message_passing/introduction/` | `greetings`, `language`, `lock`, `approved_for_release` | updates `set_language`, `set_language_using_activity`; signal `approve` | updates with and without an await; failure inside the lock | returns the last language set; order; no lock left held |
| **Shopping cart** `message_passing/update_with_start/lazy_initialization/` | `items`, `order_submitted`, runs of one id | update-with-start `add_item` with validator; signal `checkout` | additions cross each other, the checkout and the next cart | an acknowledged item is in exactly one order, at the announced price |
| **Updatable timer** `updatable_timer/` | `wake_up_time`, `wake_up_time_updated` | `sleep`, signal | the signal races the timer of the old time | not early; ends |
| **Worker-specific task queues** `worker_specific_task_queues/` | a queue name per worker, files on hosts | four activities of one file, clean-up in `finally` | crashes and lost reports between activities; are the queues distinct? | a file is used where it is; nothing left behind; ends |
| **Workflow streams** `workflow_streams/` | the log with its base offset; subscribers' offsets | publish, truncate, subscribe, reconnect; the streaming activity and its retries | truncation under a slow reader; a disconnection; half an answer published by an attempt that failed; an attempt that timed out and publishes on | gaps are exact; nothing missed or shown twice; the screen shows one answer unless an attempt given up still publishes |
| **Versions and patches** `worker_versioning/`, `patching/` | current version, histories, patch markers | promote a version, start, signal, replay, deprecate a patch | a history outlives the code that began it | every history replays; every signal handled once |
| **External storage** `external_storage/`, `external_storage_redis/` | payloads, references, keys with an expiry | encode, decode, preserve references, download, `SET NX` | two clients store the same content; references and payloads mixed; expiry not renewed | decode undoes encode in place; nothing lost before its time |
| **DSL interpreter** `dsl/` | `variables` | activity, sequence, parallel | branches share the variables | the result is that of sequential execution |
| **Context propagation** `context_propagation/` | `user_id` per context, headers | outbound and inbound interceptors | many calls in one worker; retries; one user's workflow released by another's signal | everything acts as its own caller |
| **Cloud export** `cloud_export_to_parquet/` | hours, object keys, files | schedule, list, transform and land | skipped and late runs, retries after a success | an hour is read once, its objects land before the return |
| **Deployed samples**: every other sample | flags of the workflow objects, messages, queues | worker scripts, client scripts, workflow methods, activities, Nexus operations | names agreed upon between files that no test runs together; handlers under way when a workflow ends; clients and workflows that wait for each other; attempts and times that run out | what is waited for is somebody's work; a script fails only when something bounded has failed for good; every script ends |

The samples do not interact with each other. Inside a component: pool and users by
signals both ways; batch and windows by child workflows and signals; main coroutine and
handlers of one workflow through its object's fields, locks and futures; publisher and
subscribers through the log; client, worker and workflow through the server.

## 2. Modules

| module | models | state and actions |
|---|---|---|
| `ResourceLock` | the abstract promise of the pool | a set of owner pairs; `Grant`, `GiveBack` |
| `ResourcePool` | `pool_client/*.py`, `resource_user_workflow.py` | the pool's dicts, signals under way, one run per user id; one action per handler (`AddResources`, `HandleAcquire`, `HandleRelease`), the assignment as three (`AssignNext`: up to the await; `DeliverAssign`: at the user; `AssignResume`: after the await), the user's steps, the activity attempts |
| `ResourcePoolProofs` | | theorems about `ResourcePool` |
| `ClusterManager`, `ClusterManagerProofs` | `workflow.py` | each handler is `Send`, `Enter` (after `wait_condition`), `Decide…` (in the lock, up to the activity), `Finish…`; the main coroutine likewise |
| `RecordBatch` | the abstract promise of a batch | processed records and the result |
| `SlidingWindow` | `sliding_window_workflow.py`, `record_processor_workflow.py`, `record_loader_activity.py` | the windows over their chains of runs, children and their signals |
| `ProcessBatch` | `batch_workflow.py`, composed with `SlidingWindow` (EXTENDS) | the request, the division (`SumOf` adds the partitions up), the gathering |
| `SlidingWindowProofs` | | theorems about `SlidingWindow` and `ProcessBatch` |
| `Compensation` | `waiting_for_handlers_and_compensation/workflows.py` | main coroutine, `workflow_exit`, one handler and one `update_task` per update, the cancellation |
| `BedrockEntity`, `BedrockEntityProofs` | `workflows.py` | the workflow object, the parameters of continue-as-new, the prompts sent |
| `Chatbot` | `workflows.py` | the object, and the event loop: `waiters` are the coroutines in `wait_condition`, in the order in which they began to wait, `woken` those of them whose condition was found to hold, which run next, in the order of `waiters`; `Check` |
| `Greeting`, `ShoppingCart`, `UpdatableTimer` | the workflows of these names | the object, and one state per update, request or timer |
| `WorkerQueues` | `worker.py`, `tasks.py` | hosts with their disks; one action per attempt of each activity, and the host's crash in the middle of one |
| `Streams` | `ticker_workflow.py`, `pipeline_workflow.py`, `run_truncating_ticker.py`, `run_reconnecting_subscriber.py` | the log, the publisher, a fast, a slow and a reconnecting subscriber |
| `LLMStream` | `llm_activity.py`, `llm_workflow.py`, `run_llm.py` | every attempt of the activity with its buffer, among them those the service has given up (`TimeOut`) but which still run; the attempt it waits for, the log, what is on the screen |
| `Versioning` | `worker_versioning/workflows.py`, `app.py`, `patching/` | the current version, each workflow's history; replay is an operator that compares |
| `ExternalStorage` | `handler.py`, `codec_server.py`, `_driver.py`, `_client.py` | requests of two clients step by step, Redis with expiry |
| `Dsl` | `dsl/workflow.py`, the two programs | an activity is scheduled when what precedes it has ended, and completes; `Evaluate` is the reference |
| `ContextPropagation` | `interceptor.py`, `workflows.py` | one task per run, handler and activity attempt, each in its context |
| `CloudExport` | `create_schedule.py`, `workflows.py`, `data_trans_activities.py` | the clock, the open workflow, the files |
| `Flows` | | notation: the control flow of a method or script as a sequence of steps (activity, child, signal, update, wait for a flag, timer, continue-as-new, parallel, race, try; `Bounded`: what may fail for good, because the code bounds its attempts or its time) |
| `HelloSamples`, `CoreSamples`, `NexusSamples`, `OpenAISamples`, `StrandsSamples`, `LangGraphSamples`, `GoogleSamples`, `DeepAgentsSamples`, `OtherSamples` | every other sample | one definition per worker script, workflow class, activity and client script, in that notation; a `Table` of deployments |
| `Deployments` | the Temporal service and SDK as those samples use them (external) | executes the flows of one deployment: workers, open workflows, messages, handlers, cancellation; `RunsOut`: what is bounded fails, where its result is awaited; `gaveup` remembers it |
| `Catalogue` | | all the tables |
| `Workflows` | `BedrockEntity`, `Chatbot`, `Greeting`, `UpdatableTimer`, `WorkerQueues`, `Compensation`, and a small `ClusterManager`, side by side | INSTANCEs of them; a behaviour is a behaviour of one, so the state spaces add up |
| `Samples` | `Workflows` (EXTENDS) with `Dsl` and `Deployments`, whose definitions are recursive | as `Workflows` |
| `Services` | `ClusterManager`, `ShoppingCart`, `Streams`, `LLMStream`, `Versioning`, `ExternalStorage`, `ContextPropagation`, `CloudExport` side by side | as `Workflows` |
| `MessagingProofs` | | theorems about `Workflows`: what is proved of a sample alone holds of it there |
| `StreamProofs`, `ServiceProofs` | | theorems about `Services`, likewise |
| `MCResourcePool`, `MCClusterManager`, `MCChatbot` | | inputs and symmetry for TLC |

`Samples` (`Workflows` and more, with liveness) and `Services` (safety only, with symmetry) check components that
have nothing to do with each other in one run: `sample` names the one that runs, `Only`
leaves the variables of all others alone, and their properties are those of the
components' modules. No interaction is lost, since there is none.

In the tables, data is left out: a branch on a value is a free choice (`Either`), a loop
over the turns of an agent runs up to a bound (`MaxTurns`), a condition is the flag it
waits for. A deployment has the workers, classes and clients that its README tells the
reader to run together, under the queue names, workflow ids and handler names of each
file; that these agree is what `Served` checks.

A definition whose comment says `mutant:` is a plausible defect of the definition after
it. It is used in no specification: `PROJECT.json` pairs each with the property
that must fail when the definition is replaced by it.

Abstractions of data: a release key is a number; a record is its id; a prompt, message
or item is an identity; a text is the set of prompts it reflects; which of the free
resources or nodes is taken is left open. Logging, tracing and queries, which change nothing,
are left out. The operator's `release_resource` by hand (pool) is not
modelled: it is the remedy for a leak, with a key read from the logs.

## 3. What the runs check

Deadlock is checked in every run. Symmetry is used only where no liveness is checked: in
`ResourcePoolSafety` and `Services`, whose properties are invariants and step properties
(`LostOnlyByTTL` is a `[][A]_v`; `LockSpec` is safety only) that treat the permuted values alike.

| run | bounds | shows |
|---|---|---|
| `ResourcePoolSafety` | 2 resources (one added later), 3 users, inputs "continue as new" and "fail after the first activity" | `HolderAgreement`, `KeyMapConsistent`, `LeakOnlyKnownCauses`, `ActivitiesExclusive`, and refinement of `ResourceLock` (`LockSpec`): a holder, a waiter and a third party that interferes |
| `ResourcePoolLiveness` | 1 resource, 2 users, each started twice | `WaitersServed`: a user waits only while somebody holds the resource, or after a leak |
| `ProcessBatch` | 3 records, up to 3 windows, sizes 1 to 3, every signal up to twice | `StartedOnce`, `ProgressExact`, `NoCompletionLost`, `PartitionsExact`, refinement of `RecordBatch` (`BatchSpec`), `BatchEnds`. `WindowsSpec`: the windows a batch starts behave as `SlidingWindow` alone says, so the theorems about it apply. Remainders, single-record pages (three runs in a chain), and a window of size 1 occur |
| `Samples` | 7 prompts at 6 entries per run (three runs in a chain, as in the code: 6); 3 chatbot updates open at a time; 3 language updates over 4 languages, one unknown to the service; a sleep to time 2, moved twice within 0..3; 2 nodes, 1 job, 2 requests, 2 runs of the cluster; 2 files on one host that crashes up to twice; 3 updates against the three exit types; the two DSL programs and all programs of two branches over two variables that do not interfere; every deployment of the catalogue (over 150), with every failure of what is bounded | `PromptsInContext`, `AcceptedPromptsAnswered`, `AnswersFresh`, `LanguageInOrder`, `UpdatesAnswered`, `NotEarly`, `WorkflowsEnd`, `FilesInPlace`, `EndsUnlessUnreported`, `ReturnAfterHandlers`, `CompensatedIffRaised`, `ExitInOrder`, `ExitEnds`, `SameAsSequential`; of the deployments `Served`, `ClientsSucceed`, `ClientsEnd` |
| `Services` | cluster: 3 nodes, 2 jobs, 3 requests, 2 runs (two requests contend for one job while a third deletes it or takes the other's nodes); 3 items, one unavailable, 2 carts; 6 events of which 1 is kept, truncated every 2; 2 deltas and 2 attempts, each of which may be timed out while it runs (enough for a retry and for an attempt that outlives its successor's start; `LLMShownOnce` is for any number); 2 rounds of signals over the versions; 2 clients with 2 payloads each, two values, one of them large, expiry after 2; 2 workflows, 2 users and one without a user id, 2 attempts; 4 hours, up to 3 objects in each and pages of 2, 2 attempts | `CriticalSectionsAtomic`, `GrantsStable`, `OrderExact`, `EventsAccounted`, `ShownOnce`, `VersionsCompatible`, `RoundTrip`, `LostOnlyByTTL`, `UserOfCall`, `Landed` |

Bounds are the smallest at which the hazard in `PROJECT.json` that the property is about
occurs: a third party beside two that contend, a chain of three runs, one more than a page
or a window, one retry more than none. Each property is known to be able to fail: its
mutant breaks it under the same bounds.

Properties worth reading first: `LeakOnlyKnownCauses`, `NoCompletionLost`,
`CriticalSectionsAtomic`, `ExitInOrder`, `PromptsInContext`, `AnswersFresh`,
`EventsAccounted`, `VersionsCompatible`.

### Fairness

Weak fairness is assumed of what Temporal drives: an open workflow's runnable
coroutines, delivery of accepted signals, timers, activities that are retried until
they succeed. Strong fairness in two places. `CompleteActivity` (pool): an attempt may
time out any number of times, but an activity retried for ever succeeds at some time.
`Handler` and `ShutdownCluster` (cluster manager): a coroutine that is ready is run even if
others went first a number of times. Nobody is ever obliged to start, signal, cancel or
give up anything, and no property counts on a timeout to make progress. `Respond`
(chatbot) is fair: the language model stops asking for tools. The deployed samples need
only that somebody who can move does (`Progress`): no flow goes round in circles. Nothing that is
bounded is obliged to run out (`RunsOut` is not in `Progress`), nor to succeed before it does. Scripts
that wait for ever by design (`Forever`: workers that run until interrupted) count as
ended. `EndsUnlessUnreported` excludes one case, which the code does not handle: the
report of a successful `clean_up_file_from_worker_filesystem` gets lost, and every retry
fails because the file is gone.

### Where the code and its documentation disagree

Seven runs show a sentence of the repository that the code does not keep (quoted in
`PROJECT.json`, "findings"):

* `ResourcePoolLeak`: the pool registers a holder only after `await requester.signal`;
  a release handled in between is ignored, and the resource is lost. (`LeakOnlyKnownCauses`
  holds: there is no cause but this and an abandoned response.)
* `ClusterManagerLostState`: every run of the chain executes `start_cluster` and resets
  `nodes`, so jobs lose their nodes at continue-as-new, and `jobs_assigned` keeps them
  from being assigned again.
* `CompensationRace`: `FIRST_EXCEPTION` waits for both futures, so an update whose logic
  is done is answered only when the workflow exits.
* `ChatbotTwoClients`: two updates that wait for the same turn are woken together; the
  later replaces the earlier's message, and both return its answer.
* `BedrockEntityEndLost`: `chat_ended` is not passed through continue-as-new.
* `WorkerQueueShared`: `random.seed(667)` makes every worker draw the same "unique" queue, so
  with two workers an activity looks for the file on the wrong host. (With one worker, as
  in `Samples`, `FilesInPlace` holds.)

* `LLMStreamOverlap`: an attempt that the service has timed out, and that still streams, publishes
  after the next attempt's `RETRY`; the screen shows the text of both. (`ShownOnce` holds: without
  such an attempt the screen shows one answer.)

Observations met on the way, which the models also exhibit but no run states:

* `resource_pool/pool_client/resource_pool_client.py:65`: a user that gives up leaves its
  request queued; a second run under the same workflow id can receive two resources and
  release one (variable `abandoned`).
* `resource_pool/resource_user_workflow.py:64`: a cancelled user, or a timed-out attempt,
  leaves an activity running on a resource that is already released (variable `zombies`).
* `message_passing/safe_message_handlers/workflow.py:105`: `cluster_shutdown` is checked
  before the wait for the lock, so a handler may operate after the shutdown (it is not cut
  off: `CriticalSectionsAtomic`); and `:115`: a second request never resizes a job, whatever
  the comment at `:48` says.
* `message_passing/waiting_for_handlers_and_compensation/workflows.py`: `:110` the logic
  of a compensated update is not cancelled; `:71` an update that arrives during the
  compensation is not waited for; `:80` the workflow's compensation sets the update's
  flag; `:62-69` a cancellation after `set_result` sets the future twice and leaves the
  workflow stuck (`pc = "stuck"`), the one case `ExitEnds` excepts.
* `message_passing/introduction/workflows.py:96`: an update whose language is known
  overtakes those that wait for the lock.
* `worker_versioning/workflows.py:95-97`: the comment says that the unpatched branch "will
  never be taken"; a workflow that ran an activity under version 1.0 takes it whenever it
  is replayed, and that is what keeps it compatible.
* `cloud_export_to_parquet/workflows.py:37` with `create_schedule.py`: an hour is passed over when the first
  task of its run is late, or when the run is skipped because the one before is still open;
  and `data_trans_activities.py:32` reads one page of keys only. `Landed` is stated for
  the hours that are read and the objects of one page.
* `external_storage_redis/_driver.py:162`: a second writer does not renew the expiry, so a
  payload may expire earlier than its time-to-live after it was stored last; `LostOnlyByTTL`
  counts from the first store.
* `custom_decorator/worker.py:47`: a signal in the first workflow task is handled before
  `run` has set `self.activity`, raises `AttributeError`, and the task is retried for ever;
  the sample's client waits five seconds before it signals, which the deployment assumes.
* `hello/hello_patch.py:70`: the third version is registered as "patch-worklow", so a run of the
  second that is still open has no worker when the third takes over.
* `bedrock/signals_and_queries/workflows.py:75`: prompts that arrive while the summary is
  awaited are dropped, as the code's own comment says.
* `strands_plugin/activity_interrupt/workflow.py:23`: what was approved is remembered per
  worker process, so a second workflow with the same name is not asked again.

## 4. What is proved

With TLAPS, for every value of the constants, from the assumptions named in the modules,
which TLC evaluates in every run. They say only what kind of values the code works with:

| assumption | says |
|---|---|
| `PoolAssumption`, `NoneAssumption` | the resources a pool begins with and the inputs of its users are of those there are, there is an input, the number of runs is a natural number; the marks for "nobody" and "nothing" are no holder, response or pending request |
| `WindowAssumption`, `BatchAssumption` | counts are natural numbers, page and window sizes positive; the windows are numbered from 0, and a share of a size is a size |
| `ClusterAssumption`, `ChatbotAssumption` | "unassigned", "bad", `None` and the main coroutine are no job, message or request |
| `GreetingAssumption` | English is among the greetings the workflow begins with |
| `TimerAssumption`, `StreamAssumption`, `LLMAssumption`, `StorageAssumption`, `ExportAssumption`, `CartAssumption`, `VersioningAssumption` | times, counts, sizes, prices and rounds of signals are natural numbers (a price of 0 is `get_price`'s `None`), the truncation interval and the number of attempts positive |

Nothing is assumed about how many users, requests, records, prompts, runs, events, clients, rounds
or attempts there are. Of the 28 safety invariants and four refinements and action properties
that the passing runs check, all but the three named at the end of this section are theorems.

Every proof has the same shape: an inductive invariant, found with TLC first; one lemma per
action (or per group of actions that touch the same part); a last step that reads the property off
the invariant.

**Resource pool** (`ResourcePoolProofs`). `Safe` is the inductive invariant: `TypeOK`,
`HolderAgreement`, `KeyMapConsistent`, and what they need to be inductive: keys are
fresh (below `next_key`) and belong to one response; a resource under assignment is
still free, which is what makes the registration after the await safe; a user has a
resource exactly in its `async with`. `OwnershipExclusive` follows from agreement: two
users cannot both be *the* registered holder. It gives the theorems `TypeCorrect`,
`Agreement`, `KeyMap`, `MutualExclusion`. `IInv` adds `LeakOnlyKnownCauses`, with the keys
of responses under way accounted for, and that attempts are made by owners: `LeakCauses`,
`ActivityExclusion`. `ImplementsLock`: every step of the pool and its users is a `Grant`, a
`GiveBack` or a stutter of `ResourceLock` under the mapping `Owns`.

**Sliding window** (`SlidingWindowProofs`). The invariant is per window, and a frame
lemma shows that one window's step leaves the others'. Its parts: `Positions` (where a run
may be in its range and page), `Children` (a child exists for exactly the dispatched
records, once; a dispatched record that is no longer current is done; a current record
whose child is done has a signal waiting) and `Counts` (progress is the number of
dispatched records that left the window; the window is not exceeded). Theorems:
`DispatchOnce`, `ProgressCounts`, `CompletionsKept`, `WindowRespected`, `ResultExact`.

**The batch of windows** (same module). `BatchInv`: a window that is there has the range and
the size that its number in the division gives it, and the batch has gathered only when all
are complete. `Shares` and `Ranges` say what the division does with its remainder: the shares
are positive and add up to the whole, the ranges follow one another without a gap. From
that, `BatchRunsWindows` (every step of the batch is a step of windows as `SlidingWindow`
alone describes them, so the theorems above hold in the batch), `BatchPartitions` (a record is
taken by one window; the sizes of the windows are positive and add up to the size asked for, by `Shares`,
so by `WindowRespected` they keep to it together; the result is the number of records) and
`ImplementsBatch` (a finished record is `RecordBatch`'s step, the gathering its result, all
else a stutter). The offsets and totals are sums, defined by recursion. The prover has no
induction over an operator, so each fact about sums is proved by descent: were it false
somewhere there would be a least place (`LeastNumber`, from the well-foundedness of the naturals),
and the one before it refutes that.

**Compensation** (`MessagingProofs`). `ExitFuture` ties the future to how the main
coroutine left its logic, `HandlersFollow` the handlers to it, `PastTheWait` says what is
settled once the wait for the handlers is over. Theorems: `ReturnComplete`,
`CompensationExact`, `OrderlyExit`.

**Cluster manager** (`ClusterManagerProofs`). `LockInv`: in the queue of `nodes_lock` are exactly
the coroutines inside an `async with`, each once, and only its head may be past its first
await; so what it read, nobody has changed. `BeforeStart`: nobody operates before the cluster is up.
`AssignedJobs`: a job is in `jobs_assigned` from the answer of the request that allocated its nodes.
`AnswersInv`: that answer has as many nodes as were asked for and is what is on record for the job
until it is deleted, and what a later request is told is part of it. `GrantsStable` puts
`OneGrant` (allocated once; in the first run, kept) and `AnswersAgree` together: what is on record
survives a continue-as-new, the nodes do not (`ClusterManagerLostState`), which is why the keeping
of nodes is stated for the first run.
Theorems: `TypeCorrect`, and in `ServiceProofs` `ClusterAtomicity` and `ClusterGrants`.

**Bedrock chat** (`BedrockEntityProofs`). `PlacesInv`: the prompts sent are divided among
dropped, answered, current, queued and carried over by continue-as-new, without overlap,
and only a failed run loses one. `HistoryInv`: the history of a run begins with the summary it was
given, which is why a history of one entry means that nothing has been answered yet.
Theorems: `TypeCorrect`, and in `MessagingProofs` `Conversation`.

**Chatbot** (`MessagingProofs`). `FreshAnswer` alone is not inductive, because a woken coroutine
does not look at its condition again. `WokenInv` says who may be woken together: the main loop never
with an update that offers its own message, unless the session is to end. `Answered` and `Ahead` place
each message that waits before, under or after its query. Theorem `ChatAnswersFresh`. It does
not say whose message the response is made for; `ChatbotTwoClients` shows that it need not be the update's own.

**Greeting, timer, worker queues** (`MessagingProofs`). `GreetingInv`: the queue of the lock is in order
of arrival and behind whatever has been through it, and the language is that of the last effect
(`GreetingOrder`). `sleep` returns only from a look at the time, and after
it nothing moves the wake-up time it is measured by, so `NotEarly` with the types is inductive
(`TimerNotEarly`). `QueueInv`: for each file, where it is before, in and after each attempt of
each activity (`QueueFilesInPlace`). That theorem has the hypothesis `SingleHost`, the case in
which the code is right: with two hosts the property fails, as the run `WorkerQueueShared` shows.

**Streams** (`StreamProofs`). `LogInv`: how far the log reaches at each point of the publisher's
loop. `SlowInv`: what a slow subscriber has still to show comes after what it has shown and before its
offset. `ResumingInv`: shown and fetched together are all events before its offset
(`StreamAccounted`). For the streamed answer, every event in the log continues what stands on the
screen before it, within one attempt or after a retry (`LLMShownOnce`). `LLMInv` has that only as
long as no attempt has flushed that the service had given up (`late`): such an attempt may run, and
publish into its buffer, from the moment of its timeout, and `LLMStreamOverlap` is what becomes of the
screen when it does flush.

**Headers, exports, storage, carts** (`ServiceProofs`). `ContextUserOfCall`: the context variable is the
user of the header exactly while a handler runs, and the header names the caller. `ExportLanded`: the
hours are read in order, and an object that is still awaited has no reported file.
`StorageRoundTrip`: at each stage of a request every payload stands for the original in its
place, as it is or by a reference to content that was stored (`StandsFor`); `StorageLostOnlyByTTL`
is an action property: a step that answers "not found" is later than the first store by the
time-to-live. `CartOrderExact`: the account of a cart (`Accounted`) ties its items to the requests that
were acknowledged for it, in their order, and its total to the last subtotal announced; an addition
extends the account by one, a checkout turns it into the order. The total is recursive: `TotalAppend`
shows, from the definition having one solution, that an item more costs as much more.

**Versions and patches** (`ServiceProofs`). `VersionsCompatible` says nothing about where the script
is, so `VersionInv` does: at its p-th step (`AppInv` for `app.py`, `StagesInv` for the stages of
`patching/`) it says which version is current, which workflows have been started, and how many of the
signals sent ask for an activity (`AskedBy`: every other one of the two times `Rounds` pairs). The
histories follow from who wrote them: the auto-upgrading workflow has at most one activity per
signal, all of the kind its marker tells (`AutoInv`); a pinned one has a part of what the class of its
version asks for (`PinnedInv`); one of `patching/` did its activity at the stage it was started in,
and no stage but that and the next sees it (`PatchInv`; this is where the README's order, wait for the
old workflows before the next stage, is needed). From that `AutoReplays`, `PinnedReplays` and
`PatchReplays` show that what the current code asks for extends the history, and that a marker
meets a call. Theorem `VersionsReplay`, with `VersionInvariant` for the samples alone.

**From a sample to the composition.** Lemmas named `...Runs` show that `Workflows` and `Services`, in
which a step of one sample leaves the variables of the others alone, implement each sample's own
specification. So the theorems are about the very properties that the runs `Samples` and `Services`
check.

**Only model-checked**:

* liveness, which the prover does not do under fairness (it would need `ENABLED`): `WaitersServed`,
  `BatchEnds`, `ExitEnds`, `AcceptedPromptsAnswered`, `UpdatesAnswered`, `WorkflowsEnd`,
  `EndsUnlessUnreported`, `ClientsEnd`;
* `SameAsSequential`, `Served` and `ClientsSucceed`: the meaning of a program (`Dsl`) and the flows
  of a deployment (`Deployments`, `Flows`) are defined by recursion over trees, and what such a
  definition computes for every program needs an induction the provers cannot be given.

## 5. What is not modelled, and the plan

`PROJECT.json` lists every part of the repository with what is left out of it. Left out
for good:

* conversion of payloads by third-party cryptography, schema and data-frame libraries, and
  the exporters of traces and metrics: no state of the program, and nothing to interleave;
* `openai_agents/tools/setup_knowledge_base.py` and `langfuse_tracing/verify_trace.py`:
  scripts of calls to a provider, one after the other;
* `env_config/`: reads a configuration file and connects;
* what is said to language models, and the inside of agent frameworks: an agent is its
  model and tool calls, in the orders the framework may choose;
* adapters between event loops, the Sentry interceptor, the heartbeat thread of
  `custom_decorator`.

The plan has no proof left that these provers can be given. What stays with TLC is liveness
and the three invariants of `Samples` named in section 4. For `Dsl`, the step that `SameAsSequential`
rests on is that two branches which do not interfere commute; it is about `Paths`, `At` and `Evaluate`,
which are recursive over the program's tree, so neither it nor the induction that would use it
can be a theorem here. `Served` and `ClientsSucceed` are about the samples' own registry, not about
every value of a constant: TLC goes through all of it.
