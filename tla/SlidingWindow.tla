---------------------------- MODULE SlidingWindow ----------------------------
(***************************************************************************)
(* batch_sliding_window: the SlidingWindowWorkflows, each of which works   *)
(* through a range of records with one child RecordProcessorWorkflow per   *)
(* record, at most sliding_window_size at a time, and continues as new     *)
(* after a page of them.  A child outlives the run that started it         *)
(* (ParentClosePolicy.ABANDON) and reports to whatever run its parent is   *)
(* in by the signal report_completion.                                     *)
(*                                                                         *)
(* Actions are the code between two awaits.  "inbox" counts the signals    *)
(* the server has accepted for a window and the window has not handled:    *)
(* they wait there while a new run has not set its handler.  A run that    *)
(* ends or continues as new with a signal pending is asked again by the    *)
(* server with that signal, so both need an empty inbox.                   *)
(*                                                                         *)
(* Abstractions: a record is its id, the timer a child sleeps on is left   *)
(* out; self.offset is input.offset throughout; the "state" query changes  *)
(* nothing.                                                                *)
(***************************************************************************)
EXTENDS Integers, FiniteSets

CONSTANTS
  Windows,         \* the workflow ids of the windows
  RecordCount,     \* RecordLoader.record_count
  Sizes,           \* the values of page_size and sliding_window_size
  MaxSends         \* how often a child's signal may reach the server

ASSUME WindowAssumption == /\ RecordCount \in Nat
                           /\ Sizes \subseteq Nat \ {0}
                           /\ MaxSends \in Nat \ {0}

VARIABLES
  pc,                  \* where each window's run is
  input,               \* the SlidingWindowWorkflowInput of the run
  current_records, progress, children_started,   \* fields of the workflow object
  limit,               \* the end of the page get_records returned
  child,               \* the state of each window's child for each record
  sends,               \* how often its signal reached the server
  inbox,               \* how many of them the window has yet to handle
  first,               \* history: the offset of the window's first run
  starts               \* history: how often the child was started

runVars   == <<pc, input, current_records, progress, children_started, limit>>
childVars == <<child, sends, inbox>>
windowVars == <<runVars, childVars, first, starts>>

Records == 0..RecordCount - 1
Offsets == 0..RecordCount

Input == [page_size : Sizes, sliding_window_size : Sizes,
          offset : Offsets, maximum_offset : Offsets,
          progress : Offsets, current_records : SUBSET Records]

\* The inputs of a first run.
FirstInput == {i \in [page_size : Sizes, sliding_window_size : Sizes,
                      offset : Offsets, maximum_offset : Offsets,
                      progress : {0}, current_records : {{}}] :
                 i.offset <= i.maximum_offset}
NoInput == [page_size |-> 0, sliding_window_size |-> 0, offset |-> 0,
            maximum_offset |-> 0, progress |-> 0, current_records |-> {}]

TypeOK ==
  /\ pc \in [Windows -> {"absent", "begin", "loading", "dispatching", "starting",
                         "ending", "completed"}]
  /\ input \in [Windows -> Input \cup {NoInput}]
  /\ current_records \in [Windows -> SUBSET Records]
  /\ progress \in [Windows -> Offsets]
  /\ children_started \in [Windows -> Offsets]
  /\ limit \in [Windows -> Offsets]
  /\ child \in [Windows -> [Records -> {"none", "processing", "reporting", "done"}]]
  /\ sends \in [Windows -> [Records -> 0..MaxSends]]
  /\ inbox \in [Windows -> [Records -> 0..MaxSends]]
  /\ first \in [Windows -> Offsets]
  /\ starts \in [Windows -> [Records -> Nat]]

WindowInit ==
  /\ pc = [w \in Windows |-> "absent"]
  /\ input = [w \in Windows |-> NoInput]
  /\ current_records = [w \in Windows |-> {}]
  /\ progress = [w \in Windows |-> 0]
  /\ children_started = [w \in Windows |-> 0]
  /\ limit = [w \in Windows |-> 0]
  /\ child = [w \in Windows |-> [r \in Records |-> "none"]]
  /\ sends = [w \in Windows |-> [r \in Records |-> 0]]
  /\ inbox = [w \in Windows |-> [r \in Records |-> 0]]
  /\ first = [w \in Windows |-> 0]
  /\ starts = [w \in Windows |-> [r \in Records |-> 0]]
-----------------------------------------------------------------------------
(* The window.                                                             *)

\* execute_child_workflow of the window, by its ProcessBatchWorkflow.
StartWindow(w, i) ==
  /\ pc[w] = "absent"
  /\ pc' = [pc EXCEPT ![w] = "begin"]
  /\ input' = [input EXCEPT ![w] = i]
  /\ first' = [first EXCEPT ![w] = i.offset]
  /\ UNCHANGED <<current_records, progress, children_started, limit, childVars, starts>>

\* run: takes the state over from the input, sets the handlers, and asks for a
\* page unless the range is exhausted.
Begin(w) ==
  /\ pc[w] = "begin"
  /\ current_records' = [current_records EXCEPT ![w] = input[w].current_records]
  /\ progress' = [progress EXCEPT ![w] = input[w].progress]
  /\ pc' = [pc EXCEPT ![w] = IF input[w].offset < input[w].maximum_offset
                             THEN "loading" ELSE "ending"]
  /\ UNCHANGED <<input, children_started, limit, childVars, first, starts>>

\* The activity get_records, which is retried until it succeeds.
PageEnd(i) == IF i.offset + i.page_size <= i.maximum_offset
              THEN i.offset + i.page_size ELSE i.maximum_offset
GetRecords(w) ==
  /\ pc[w] = "loading"
  /\ input[w].maximum_offset <= RecordCount
  /\ pc' = [pc EXCEPT ![w] = "dispatching"]
  /\ limit' = [limit EXCEPT ![w] = PageEnd(input[w])]
  /\ UNCHANGED <<input, current_records, progress, children_started, childVars, first, starts>>

NextRecord(w) == input[w].offset + children_started[w]

HasCapacity(w) == Cardinality(current_records[w]) < input[w].sliding_window_size

\* The record is noted as current before the child can report it.
StartChild(w, r) ==
  /\ pc[w] = "dispatching" /\ r < limit[w] /\ HasCapacity(w)
  /\ current_records' = [current_records EXCEPT ![w] = @ \cup {r}]
  /\ pc' = [pc EXCEPT ![w] = "starting"]
  /\ child' = [child EXCEPT ![w][r] = "processing"]
  /\ starts' = [starts EXCEPT ![w][r] = @ + 1]
  /\ UNCHANGED <<input, progress, children_started, limit, sends, inbox, first>>

\* start_child_workflow returns: the server has accepted the start.
ChildStartedThenNoted(w) ==   \* mutant: the record noted as current only now
  /\ pc[w] = "starting"
  /\ pc' = [pc EXCEPT ![w] = "dispatching"]
  /\ children_started' = [children_started EXCEPT ![w] = @ + 1]
  /\ current_records' = [current_records EXCEPT ![w] = @ \cup {NextRecord(w)}]
  /\ UNCHANGED <<input, progress, limit, childVars, first, starts>>
ChildStarted(w) ==
  /\ pc[w] = "starting"
  /\ pc' = [pc EXCEPT ![w] = "dispatching"]
  /\ children_started' = [children_started EXCEPT ![w] = @ + 1]
  /\ UNCHANGED <<input, current_records, progress, limit, childVars, first, starts>>

\* The page is done.
PageDone(w) ==
  /\ pc[w] = "dispatching" /\ NextRecord(w) = limit[w]
  /\ pc' = [pc EXCEPT ![w] = "ending"]
  /\ UNCHANGED <<input, current_records, progress, children_started, limit, childVars, first, starts>>

InboxEmpty(w) == \A r \in Records : inbox[w][r] = 0

\* continue_as_new: a new run, on a new workflow object.
NewInputWithoutCurrent(w) ==   \* mutant: current_records not passed on
  [input[w] EXCEPT !.offset = NextRecord(w), !.progress = progress[w]]
NewInputOldOffset(w) ==        \* mutant: the offset not advanced
  [input[w] EXCEPT !.progress = progress[w], !.current_records = current_records[w]]
NewInput(w) ==
  [input[w] EXCEPT !.offset = NextRecord(w), !.progress = progress[w],
                   !.current_records = current_records[w]]
ContinueAsNew(w) ==
  /\ pc[w] = "ending" /\ NextRecord(w) < input[w].maximum_offset
  /\ InboxEmpty(w)
  /\ pc' = [pc EXCEPT ![w] = "begin"]
  /\ input' = [input EXCEPT ![w] = NewInput(w)]
  /\ current_records' = [current_records EXCEPT ![w] = {}]
  /\ progress' = [progress EXCEPT ![w] = 0]
  /\ children_started' = [children_started EXCEPT ![w] = 0]
  /\ UNCHANGED <<limit, childVars, first, starts>>

\* The last run returns its progress once no record is current.
CompleteWindow(w) ==
  /\ pc[w] = "ending" /\ NextRecord(w) >= input[w].maximum_offset
  /\ current_records[w] = {} /\ InboxEmpty(w)
  /\ pc' = [pc EXCEPT ![w] = "completed"]
  /\ UNCHANGED <<input, current_records, progress, children_started, limit, childVars, first, starts>>

\* Signal handler report_completion, set by Begin once the state is there.
ListeningTooSoon(w) == pc[w] \notin {"absent", "completed"}   \* mutant: set in __init__
Listening(w) == pc[w] \notin {"absent", "begin", "completed"}
HandleCompletionTwice(w, r) ==   \* mutant: duplicates counted
  /\ Listening(w) /\ inbox[w][r] > 0
  /\ inbox' = [inbox EXCEPT ![w][r] = @ - 1]
  /\ current_records' = [current_records EXCEPT ![w] = @ \ {r}]
  /\ progress' = [progress EXCEPT ![w] = @ + 1]
  /\ UNCHANGED <<pc, input, children_started, limit, child, sends, first, starts>>
HandleCompletion(w, r) ==
  /\ Listening(w) /\ inbox[w][r] > 0
  /\ inbox' = [inbox EXCEPT ![w][r] = @ - 1]
  /\ \/ /\ r \in current_records[w]
        /\ current_records' = [current_records EXCEPT ![w] = @ \ {r}]
        /\ progress' = [progress EXCEPT ![w] = @ + 1]
     \/ /\ r \notin current_records[w]
        /\ UNCHANGED <<current_records, progress>>
  /\ UNCHANGED <<pc, input, children_started, limit, child, sends, first, starts>>
-----------------------------------------------------------------------------
(* The children.                                                           *)

\* _process_record ends.
FinishRecord(w, r) ==
  /\ child[w][r] = "processing"
  /\ child' = [child EXCEPT ![w][r] = "reporting"]
  /\ UNCHANGED <<runVars, sends, inbox, first, starts>>

\* The signal reaches the run that the window is in; it may do so again, by a
\* retry of the send.
Report(w, r) ==
  /\ child[w][r] \in {"reporting", "done"} /\ pc[w] # "completed"
  /\ sends[w][r] < MaxSends
  /\ sends' = [sends EXCEPT ![w][r] = @ + 1]
  /\ inbox' = [inbox EXCEPT ![w][r] = @ + 1]
  /\ child' = [child EXCEPT ![w][r] = "done"]
  /\ UNCHANGED <<runVars, first, starts>>
-----------------------------------------------------------------------------
RunStep(w) == \/ Begin(w) \/ GetRecords(w) \/ StartChild(w, NextRecord(w)) \/ ChildStarted(w)
              \/ PageDone(w) \/ ContinueAsNew(w) \/ CompleteWindow(w)

WindowStep(w) == RunStep(w) \/ \E r \in Records :
                   HandleCompletion(w, r) \/ FinishRecord(w, r) \/ Report(w, r)

WindowNext == \E w \in Windows : WindowStep(w) \/ \E i \in FirstInput : StartWindow(w, i)

WindowSpec == WindowInit /\ [][WindowNext]_windowVars
-----------------------------------------------------------------------------
(* Correctness.                                                            *)

\* What a run knows: its object's fields, or its input before it has begun.
Current(w)  == IF pc[w] = "begin" THEN input[w].current_records ELSE current_records[w]
Progress(w) == IF pc[w] = "begin" THEN input[w].progress ELSE progress[w]

\* The records the window has dispatched, over all its runs.
Dispatched(w) == first[w] .. NextRecord(w) - (IF pc[w] = "starting" THEN 0 ELSE 1)

\* At most sliding_window_size children are processing records, through any
\* number of runs.
WindowBounded ==
  \A w \in Windows : pc[w] # "absent" =>
    Cardinality({r \in Records : child[w][r] = "processing"}) <= input[w].sliding_window_size

\* A record is dispatched once, in order, and never by two runs of a window.
StartedOnce ==
  \A w \in Windows : \A r \in Records :
    starts[w][r] = IF r \in Dispatched(w) THEN 1 ELSE 0

\* A dispatched record is current until its completion was handled; progress
\* counts the others, whatever was signalled twice, before the start was
\* confirmed, or to the next run.
ProgressExact ==
  \A w \in Windows : pc[w] # "absent" =>
    /\ Current(w) \subseteq Dispatched(w)
    /\ Progress(w) = Cardinality(Dispatched(w) \ Current(w))

\* No completion is lost: a child whose record is current still works, still
\* reports, or has its signal waiting.
NoCompletionLost ==
  \A w \in Windows : \A r \in Current(w) :
    child[w][r] \in {"processing", "reporting"} \/ inbox[w][r] > 0

\* A window returns the number of records in its range, all of them processed.
ResultComplete ==
  \A w \in Windows : pc[w] = "completed" =>
    /\ progress[w] = input[w].maximum_offset - first[w]
    /\ \A r \in first[w]..input[w].maximum_offset - 1 : child[w][r] = "done"
=============================================================================
