---------------------------- MODULE ProcessBatch ----------------------------
(***************************************************************************)
(* batch_sliding_window: the ProcessBatchWorkflow, which divides the       *)
(* records and the window size among sliding windows that run in parallel, *)
(* and the windows it starts (SlidingWindow).                              *)
(***************************************************************************)
EXTENDS SlidingWindow

VARIABLES
  bpc,         \* ProcessBatchWorkflow
  request,     \* its ProcessBatchWorkflowInput
  bresult      \* what it returned

batchVars == <<bpc, request, bresult>>
vars == <<windowVars, batchVars>>

\* Windows are numbered as in their workflow ids, and may be smaller than the request's.
ASSUME BatchAssumption ==
  /\ IsFiniteSet(Windows) /\ Windows = 0..Cardinality(Windows) - 1
  /\ \A n \in Sizes : 1..n \subseteq Sizes

Request == [page_size : Sizes, sliding_window_size : Sizes,
            partitions : {w + 1 : w \in Windows}]

NoResult == RecordCount + 1

Init ==
  /\ WindowInit
  /\ bpc = "counting" /\ request \in Request /\ bresult = NoResult

\* _divide_into_partitions: as evenly as possible.
DivideRemainderLost(number, n) == [i \in 0..n - 1 |-> number \div n]   \* mutant: no remainder
DivideIntoPartitions(number, n) ==
  [i \in 0..n - 1 |-> number \div n + (IF i < number % n THEN 1 ELSE 0)]

Partitions  == DivideIntoPartitions(RecordCount, request.partitions)
WindowSizes == DivideIntoPartitions(request.sliding_window_size, request.partitions)

\* f[0] + ... + f[n - 1].
SumOf(f, n) == LET sum[i \in 0..n] == IF i = 0 THEN 0 ELSE sum[i - 1] + f[i - 1] IN sum[n]

\* Where window w's range begins.
Offset(w) == SumOf(Partitions, w)

WindowInput(w) ==
  [page_size |-> request.page_size,
   sliding_window_size |-> WindowSizes[w],
   offset |-> Offset(w),
   maximum_offset |-> IF Offset(w) + Partitions[w] > RecordCount
                      THEN RecordCount ELSE Offset(w) + Partitions[w],
   progress |-> 0,
   current_records |-> {}]

\* get_record_count is done.
TooManyPartitionsIgnored == FALSE   \* mutant: no check of the request
TooManyPartitions == request.sliding_window_size < request.partitions

RefuseRequest ==
  /\ bpc = "counting" /\ TooManyPartitions
  /\ bpc' = "failed"
  /\ UNCHANGED <<windowVars, request, bresult>>

AcceptRequest ==
  /\ bpc = "counting" /\ ~TooManyPartitions
  /\ bpc' = "gathering"
  /\ UNCHANGED <<windowVars, request, bresult>>

\* The loop over the partitions; gather starts the children.
StartPartition(w) ==
  /\ bpc = "gathering" /\ w < request.partitions
  /\ StartWindow(w, WindowInput(w))
  /\ UNCHANGED batchVars

Gathered(S) == \A w \in S : pc[w] = "completed"
Gather ==
  /\ bpc = "gathering" /\ Gathered(0..request.partitions - 1)
  /\ bpc' = "completed"
  /\ bresult' = SumOf(progress, request.partitions)
  /\ UNCHANGED <<windowVars, request>>

Terminated == bpc \in {"failed", "completed"} /\ UNCHANGED vars
-----------------------------------------------------------------------------
Window(w) == WindowStep(w) /\ UNCHANGED batchVars

Next == \/ RefuseRequest \/ AcceptRequest \/ Gather \/ Terminated
        \/ \E w \in Windows : StartPartition(w) \/ Window(w)

Spec == Init /\ [][Next]_vars

\* Workflow tasks and activities are retried until they succeed; a child's timer
\* fires and its signal reaches the server.  No signal is sent twice of necessity.
FairSpec ==
  /\ Spec
  /\ WF_vars(RefuseRequest \/ AcceptRequest \/ Gather)
  /\ \A w \in Windows :
       /\ WF_vars(StartPartition(w))
       /\ WF_vars(RunStep(w) /\ UNCHANGED batchVars)
       /\ \A r \in Records :
            /\ WF_vars(HandleCompletion(w, r) /\ UNCHANGED batchVars)
            /\ WF_vars(FinishRecord(w, r) /\ UNCHANGED batchVars)
            /\ WF_vars(child[w][r] = "reporting" /\ Report(w, r) /\ UNCHANGED batchVars)
-----------------------------------------------------------------------------
(* Correctness.                                                            *)

\* Over all windows, every record has one child at most, and one when the batch
\* returns: the ranges neither overlap nor leave a record out.
EachRecordOnce ==
  \A r \in Records :
    LET takers == {w \in Windows : starts[w][r] > 0} IN
    /\ \A v, w \in takers : v = w /\ starts[w][r] = 1
    /\ bpc = "completed" => takers # {}

\* The windows together process at most sliding_window_size records at a time,
\* the size the request asked for, and every window can process one.
ParallelismBounded ==
  /\ Cardinality({p \in Windows \X Records : child[p[1]][p[2]] = "processing"})
       <= request.sliding_window_size
  /\ \A w \in Windows : pc[w] # "absent" => input[w].sliding_window_size >= 1

\* The windows that were started have the request's size between them, nothing of it lost
\* or given twice, and what they report makes the number of the records.
SharesExact ==
  LET given == 0..request.partitions - 1 IN
  /\ (\A w \in given : pc[w] # "absent") =>
       SumOf([w \in given |-> input[w].sliding_window_size], request.partitions)
         = request.sliding_window_size
  /\ bpc = "completed" => bresult = RecordCount

\* The partitions divide both the records and the window.
PartitionsExact == EachRecordOnce /\ ParallelismBounded /\ SharesExact

\* The batch promises what RecordBatch says.
Processed == {r \in Records : \E w \in Windows : child[w][r] \in {"reporting", "done"}}
Promise == INSTANCE RecordBatch WITH processed <- Processed, result <- bresult
BatchSpec == Promise!Spec

\* The batch's windows behave as SlidingWindow says of any windows.
WindowsSpec == WindowSpec

\* The batch ends: no window is left waiting for a completion or for capacity.
BatchEnds == <>(bpc \in {"failed", "completed"})
=============================================================================
