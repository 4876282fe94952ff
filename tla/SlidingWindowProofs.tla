------------------------ MODULE SlidingWindowProofs ------------------------
(***************************************************************************)
(* Proofs about SlidingWindow for any number of windows, records, page     *)
(* sizes, window sizes and repeated signals, and about ProcessBatch, which *)
(* divides the records among them: what is proved of the windows holds of  *)
(* the batch's, and the batch implements RecordBatch.                      *)
(***************************************************************************)
EXTENDS ProcessBatch, FiniteSetTheorems, WellFoundedInduction, TLAPS

\* Where a run may be in its range and in its page.
Positions(w) ==
  /\ first[w] <= input[w].offset
  /\ input[w].offset <= input[w].maximum_offset
  /\ NextRecord(w) <= input[w].maximum_offset
  /\ pc[w] = "absent" => current_records[w] = {} /\ NextRecord(w) = 0 /\ input[w] = NoInput
  /\ pc[w] # "absent" => input[w] \in Input
  /\ pc[w] \in {"absent", "begin", "loading"} => children_started[w] = 0
  /\ pc[w] \in {"dispatching", "starting"} =>
       NextRecord(w) <= limit[w] /\ limit[w] <= input[w].maximum_offset
  /\ pc[w] = "starting" => NextRecord(w) < limit[w]
  /\ pc[w] = "completed" =>
       current_records[w] = {} /\ NextRecord(w) = input[w].maximum_offset

\* A child exists for the dispatched records; those that are not current any
\* more are done; a signal comes from a child that is done.
Children(w) ==
  /\ Current(w) \subseteq Dispatched(w)
  /\ \A r \in Records :
       /\ starts[w][r] = IF r \in Dispatched(w) THEN 1 ELSE 0
       /\ child[w][r] = "none" <=> r \notin Dispatched(w)
       /\ r \in Dispatched(w) /\ r \notin Current(w) => child[w][r] = "done"
       /\ r \in Current(w) /\ child[w][r] = "done" => inbox[w][r] > 0
       /\ inbox[w][r] > 0 => child[w][r] = "done"
       /\ inbox[w][r] <= sends[w][r]
       /\ child[w][r] # "done" => sends[w][r] = 0

\* The window is not exceeded, and progress counts what left it.
Counts(w) ==
  /\ Progress(w) = Cardinality(Dispatched(w) \ Current(w))
  /\ pc[w] # "absent" => Cardinality(Current(w)) <= input[w].sliding_window_size

IInv == TypeOK /\ \A w \in Windows : Positions(w) /\ Children(w) /\ Counts(w)

Good(w) == Positions(w) /\ Children(w) /\ Counts(w)

Same(v) == /\ pc'[v] = pc[v] /\ input'[v] = input[v]
           /\ current_records'[v] = current_records[v] /\ progress'[v] = progress[v]
           /\ children_started'[v] = children_started[v] /\ limit'[v] = limit[v]
           /\ child'[v] = child[v] /\ sends'[v] = sends[v] /\ inbox'[v] = inbox[v]
           /\ first'[v] = first[v] /\ starts'[v] = starts[v]
-----------------------------------------------------------------------------
\* The inductive invariant of a window is about that window alone.
LEMMA Frame ==
  ASSUME NEW v \in Windows, Good(v), Same(v)
  PROVE  Good(v)'
<1>1. Positions(v)'
  BY DEF Good, Same, Positions, NextRecord
<1>2. /\ Current(v)' = Current(v) /\ Dispatched(v)' = Dispatched(v)
      /\ Progress(v)' = Progress(v)
  BY DEF Same, Current, Dispatched, Progress, NextRecord
<1>3. Children(v)'
  BY <1>2 DEF Good, Same, Children
<1>4. Counts(v)'
  BY <1>2 DEF Good, Same, Counts
<1> QED
  BY <1>1, <1>3, <1>4 DEF Good

\* The types of what a window's records and offsets are compared with.
LEMMA WindowTypes ==
  ASSUME TypeOK, NEW w \in Windows, Positions(w)
  PROVE  /\ first[w] \in Nat /\ NextRecord(w) \in Nat /\ NextRecord(w) <= RecordCount
         /\ input[w].offset \in Nat /\ input[w].maximum_offset \in Nat
         /\ input[w].maximum_offset <= RecordCount
         /\ children_started[w] \in Nat /\ limit[w] \in Nat
         /\ current_records[w] \subseteq Records
         /\ input[w].current_records \subseteq Records
<1>1. input[w] \in Input \cup {NoInput}
  BY DEF TypeOK
<1>2. /\ input[w].offset \in Offsets /\ input[w].maximum_offset \in Offsets
      /\ input[w].current_records \subseteq Records
  BY <1>1, WindowAssumption DEF Input, NoInput, Offsets
<1> QED
  BY <1>2, WindowAssumption DEF TypeOK, Offsets, NextRecord, Positions

\* What a window has dispatched is a finite set of records of its range.
LEMMA DispatchedFinite ==
  ASSUME TypeOK, NEW w \in Windows, Positions(w)
  PROVE  /\ Dispatched(w) \subseteq Records
         /\ IsFiniteSet(Dispatched(w)) /\ IsFiniteSet(Current(w))
         /\ \A S \in SUBSET Dispatched(w) :
              IsFiniteSet(S) /\ Cardinality(S) \in Nat /\ Cardinality(S) <= RecordCount
<1>1. Dispatched(w) \subseteq Records
  BY WindowTypes, WindowAssumption DEF Dispatched, Records, Positions
<1>2. IsFiniteSet(Records) /\ Cardinality(Records) = RecordCount
  BY FS_Interval, WindowAssumption DEF Records
<1>3. \A S \in SUBSET Records :
        IsFiniteSet(S) /\ Cardinality(S) \in Nat /\ Cardinality(S) <= RecordCount
  BY <1>2, FS_Subset, FS_CardinalityType
<1>4. Current(w) \subseteq Records
  BY WindowTypes DEF Current
<1> QED
  BY <1>1, <1>3, <1>4
-----------------------------------------------------------------------------
\* Before any window starts.
LEMMA InitInv == WindowInit => IInv
<1> SUFFICES ASSUME WindowInit PROVE IInv
  OBVIOUS
<1>1. TypeOK
  BY WindowAssumption DEF WindowInit, TypeOK, Offsets, Records
<1>2. ASSUME NEW w \in Windows PROVE Positions(w) /\ Children(w) /\ Counts(w)
  <2>1. /\ Dispatched(w) = {} /\ Current(w) = {} /\ Progress(w) = 0
    BY <1>2 DEF WindowInit, Dispatched, Current, Progress, NextRecord, NoInput
  <2>2. Positions(w)
    BY <1>2 DEF WindowInit, Positions, NextRecord, NoInput
  <2>3. Children(w)
    BY <1>2, <2>1 DEF WindowInit, Children
  <2>4. Counts(w)
    BY <1>2, <2>1, FS_EmptySet DEF WindowInit, Counts
  <2> QED
    BY <2>2, <2>3, <2>4
<1> QED
  BY <1>1, <1>2 DEF IInv

\* A step of one window leaves the others alone.
LEMMA OthersSame ==
  ASSUME TypeOK, NEW w \in Windows,
         WindowStep(w) \/ \E i \in FirstInput : StartWindow(w, i),
         NEW v \in Windows, v # w
  PROVE  Same(v)
  BY DEF TypeOK, Same, StartWindow, Begin, GetRecords, StartChild, ChildStarted, PageDone,
         ContinueAsNew, CompleteWindow, HandleCompletion, FinishRecord, Report, RunStep,
         WindowStep, runVars, childVars
-----------------------------------------------------------------------------
\* execute_child_workflow of a window.
LEMMA StartWindowInv ==
  ASSUME IInv, NEW w \in Windows, NEW i \in FirstInput, StartWindow(w, i)
  PROVE  TypeOK' /\ Good(w)'
<1> USE DEF IInv, Good
<1>1. /\ i \in Input /\ i.progress = 0 /\ i.current_records = {}
      /\ i.offset \in Offsets /\ i.offset <= i.maximum_offset
  BY WindowAssumption DEF FirstInput, Input, Offsets, Records
<1>2. TypeOK'
  BY <1>1 DEF TypeOK, StartWindow, childVars
<1>3. Positions(w)'
  BY <1>1, WindowAssumption DEF Positions, TypeOK, StartWindow, NextRecord, Offsets
<1>4. /\ Dispatched(w)' = {} /\ Dispatched(w) = {}
      /\ Current(w)' = {} /\ Current(w) = {} /\ Progress(w)' = 0
  BY <1>1, WindowTypes
  DEF Dispatched, Current, Progress, NextRecord, StartWindow, TypeOK, Positions, NoInput, Offsets
<1>5. Children(w)'
  BY <1>4 DEF Children, StartWindow, childVars
<1>6. i.sliding_window_size \in Nat /\ input'[w] = i
  BY <1>1, WindowAssumption DEF Input, StartWindow, TypeOK
<1>7. Counts(w)'
  BY <1>4, <1>6, FS_EmptySet DEF Counts
<1> QED
  BY <1>2, <1>3, <1>5, <1>7

\* The first step of a run: the state comes from the input.
LEMMA BeginInv ==
  ASSUME IInv, NEW w \in Windows, Begin(w)
  PROVE  TypeOK' /\ Good(w)'
<1> USE DEF IInv, Good
<1>1. input[w] \in Input
  BY DEF Positions, Begin
<1>2. TypeOK'
  BY <1>1 DEF TypeOK, Begin, Input, childVars
<1>3. Positions(w)'
  BY <1>2, WindowTypes DEF Positions, Begin, NextRecord, TypeOK
<1>4. /\ Dispatched(w)' = Dispatched(w) /\ Current(w)' = Current(w)
      /\ Progress(w)' = Progress(w)
  BY DEF Dispatched, Current, Progress, NextRecord, Begin, TypeOK
<1>5. Children(w)'
  BY <1>4 DEF Children, Begin, childVars
<1>6. Counts(w)'
  BY <1>4 DEF Counts, Begin, TypeOK
<1> QED
  BY <1>2, <1>3, <1>5, <1>6

\* A page is loaded, its end confirmed, or a child's start confirmed.
LEMMA PageInv ==
  ASSUME IInv, NEW w \in Windows, GetRecords(w) \/ PageDone(w) \/ ChildStarted(w)
  PROVE  TypeOK' /\ Good(w)'
<1> USE DEF IInv, Good
<1>1. pc[w] # "absent" /\ input[w] \in Input
  BY DEF Positions, GetRecords, PageDone, ChildStarted
<1>2. input[w].page_size \in Nat
  BY <1>1, WindowAssumption DEF Input
<1>3. pc[w] = "loading" => PageEnd(input[w]) \in Offsets
  BY <1>2, WindowTypes, WindowAssumption DEF PageEnd, Offsets
<1>4. pc[w] = "starting" => children_started[w] + 1 \in Offsets
  BY WindowTypes, WindowAssumption DEF Positions, NextRecord, Offsets
<1>5. TypeOK'
  <2>1. CASE GetRecords(w)
    BY <2>1, <1>3 DEF TypeOK, GetRecords, childVars
  <2>2. CASE PageDone(w)
    BY <2>2 DEF TypeOK, PageDone, childVars
  <2>3. CASE ChildStarted(w)
    BY <2>3, <1>4 DEF TypeOK, ChildStarted, childVars
  <2> QED
    BY <2>1, <2>2, <2>3
<1>6. Positions(w)'
  <2>1. CASE GetRecords(w)
    <3>1. /\ pc[w] = "loading" /\ pc'[w] = "dispatching" /\ limit'[w] = PageEnd(input[w])
          /\ input' = input /\ children_started' = children_started /\ first' = first
          /\ current_records' = current_records
      BY <2>1 DEF GetRecords, TypeOK
    <3>2. /\ input[w].offset \in Nat /\ input[w].maximum_offset \in Nat
          /\ children_started[w] = 0
      BY <3>1, WindowTypes DEF Positions
    <3>3. NextRecord(w) <= PageEnd(input[w]) /\ PageEnd(input[w]) <= input[w].maximum_offset
      BY <3>2, <1>2 DEF NextRecord, PageEnd, Positions
    <3> QED
      BY <3>1, <3>3, <1>1 DEF Positions, NextRecord
  <2>2. CASE PageDone(w)
    BY <2>2, WindowTypes DEF Positions, PageDone, NextRecord, TypeOK
  <2>3. CASE ChildStarted(w)
    BY <2>3, WindowTypes DEF Positions, ChildStarted, NextRecord, TypeOK
  <2> QED
    BY <2>1, <2>2, <2>3
<1>7. /\ Dispatched(w)' = Dispatched(w) /\ Current(w)' = Current(w)
      /\ Progress(w)' = Progress(w)
  <2>1. CASE GetRecords(w) \/ PageDone(w)
    BY <2>1 DEF Dispatched, Current, Progress, NextRecord, GetRecords, PageDone, TypeOK
  <2>2. CASE ChildStarted(w)
    BY <2>2, WindowTypes DEF Dispatched, Current, Progress, NextRecord, ChildStarted, TypeOK
  <2> QED
    BY <2>1, <2>2
<1>8. Children(w)'
  BY <1>7 DEF Children, GetRecords, PageDone, ChildStarted, childVars
<1>9. Counts(w)'
  BY <1>7, <1>1 DEF Counts, GetRecords, PageDone, ChildStarted
<1> QED
  BY <1>5, <1>6, <1>8, <1>9

\* A record is dispatched: it was not before, and there is room for it.
LEMMA StartChildInv ==
  ASSUME IInv, NEW w \in Windows, StartChild(w, NextRecord(w))
  PROVE  TypeOK' /\ Good(w)'
<1> USE DEF IInv, Good
<1> DEFINE r == NextRecord(w)
<1>1. r \in Records /\ pc[w] = "dispatching" /\ input[w] \in Input
  BY WindowTypes, WindowAssumption DEF Positions, StartChild, Records
<1>2. TypeOK'
  BY <1>1 DEF TypeOK, StartChild
<1>3. Positions(w)'
  BY <1>1, WindowTypes DEF Positions, StartChild, NextRecord, TypeOK
<1>4. /\ Dispatched(w)' = Dispatched(w) \cup {r} /\ r \notin Dispatched(w)
      /\ Current(w) = current_records[w] /\ Current(w)' = Current(w) \cup {r}
      /\ Progress(w)' = Progress(w)
  <2>1. /\ pc'[w] = "starting" /\ input' = input /\ first' = first /\ progress' = progress
        /\ children_started' = children_started
        /\ current_records'[w] = current_records[w] \cup {r}
    BY DEF StartChild, TypeOK
  <2>2. NextRecord(w)' = NextRecord(w)
    BY <2>1 DEF NextRecord
  <2>3. first[w] \in Nat /\ NextRecord(w) \in Nat /\ first[w] <= NextRecord(w)
    BY WindowTypes DEF Positions, NextRecord
  <2>4. Dispatched(w) = first[w]..NextRecord(w) - 1 /\ Dispatched(w)' = first[w]..NextRecord(w)
    BY <1>1, <2>1, <2>2, <2>3 DEF Dispatched
  <2>5. Dispatched(w)' = Dispatched(w) \cup {r} /\ r \notin Dispatched(w)
    BY <2>3, <2>4
  <2> QED
    BY <1>1, <2>1, <2>5 DEF Current, Progress
<1>5. Children(w)'
  <2>1. /\ child'[w] = [child[w] EXCEPT ![r] = "processing"]
        /\ starts'[w] = [starts[w] EXCEPT ![r] = @ + 1]
        /\ sends' = sends /\ inbox' = inbox
    BY DEF StartChild, TypeOK
  <2>2. child[w] \in [Records -> {"none", "processing", "reporting", "done"}]
        /\ starts[w] \in [Records -> Nat]
        /\ sends[w] \in [Records -> Nat] /\ inbox[w] \in [Records -> Nat]
    BY WindowAssumption DEF TypeOK
  <2>3. child[w][r] = "none" /\ starts[w][r] = 0 /\ sends[w][r] = 0 /\ inbox[w][r] = 0
    BY <1>1, <1>4, <2>2 DEF Children
  <2> HIDE DEF r
  <2> QED
    BY <1>1, <1>4, <2>1, <2>2, <2>3 DEF Children
<1>6. Counts(w)'
  <2>1. Dispatched(w)' \ Current(w)' = Dispatched(w) \ Current(w)
    BY <1>4
  <2>2. IsFiniteSet(Current(w)) /\ Cardinality(Current(w)) \in Nat
    BY DispatchedFinite, FS_CardinalityType
  <2>3. r \notin Current(w)
    BY <1>4 DEF Children
  <2>4. Cardinality(Current(w)') = Cardinality(Current(w)) + 1
    BY <2>2, <2>3, <1>4, FS_AddElement
  <2>5. input'[w].sliding_window_size \in Nat /\ input' = input
    BY <1>1, WindowAssumption DEF Input, StartChild
  <2> QED
    <3>1. Cardinality(Current(w)) < input[w].sliding_window_size
      BY <1>4 DEF StartChild, HasCapacity
    <3>2. Cardinality(Current(w)') <= input'[w].sliding_window_size
      BY <3>1, <2>2, <2>4, <2>5
    <3>3. Progress(w)' = Cardinality(Dispatched(w)' \ Current(w)')
      BY <1>4, <2>1 DEF Counts
    <3> QED
      BY <3>2, <3>3 DEF Counts
<1> QED
  BY <1>2, <1>3, <1>5, <1>6

\* The state passes from one run to the next through the input.
LEMMA ContinueAsNewInv ==
  ASSUME IInv, NEW w \in Windows, ContinueAsNew(w)
  PROVE  TypeOK' /\ Good(w)'
<1> USE DEF IInv, Good
<1>1. input[w] \in Input /\ pc[w] = "ending"
  BY DEF Positions, ContinueAsNew
<1>2. NewInput(w) \in Input
  <2>1. /\ NextRecord(w) \in Offsets /\ progress[w] \in Offsets
        /\ current_records[w] \in SUBSET Records
    BY WindowTypes, WindowAssumption DEF Offsets, TypeOK
  <2> QED
    BY <1>1, <2>1 DEF NewInput, Input
<1>3. /\ NewInput(w).offset = NextRecord(w) /\ NewInput(w).progress = progress[w]
      /\ NewInput(w).current_records = current_records[w]
      /\ NewInput(w).maximum_offset = input[w].maximum_offset
      /\ NewInput(w).sliding_window_size = input[w].sliding_window_size
  BY <1>1 DEF NewInput, Input
<1>4. TypeOK'
  BY <1>2, WindowAssumption DEF TypeOK, ContinueAsNew, childVars, Offsets
<1>5. input'[w] = NewInput(w) /\ pc'[w] = "begin" /\ children_started'[w] = 0 /\ first' = first
  BY DEF ContinueAsNew, TypeOK
<1>6. Positions(w)'
  BY <1>2, <1>3, <1>5, WindowTypes DEF Positions, NextRecord
<1>7. /\ Dispatched(w)' = Dispatched(w) /\ Current(w)' = Current(w)
      /\ Progress(w)' = Progress(w)
  BY <1>1, <1>3, <1>5, WindowTypes DEF Dispatched, Current, Progress, NextRecord
<1>8. Children(w)'
  BY <1>7 DEF Children, ContinueAsNew, childVars
<1>9. Counts(w)'
  BY <1>1, <1>3, <1>5, <1>7 DEF Counts
<1> QED
  BY <1>4, <1>6, <1>8, <1>9

\* A window completes with nothing left.
LEMMA CompleteWindowInv ==
  ASSUME IInv, NEW w \in Windows, CompleteWindow(w)
  PROVE  TypeOK' /\ Good(w)'
<1> USE DEF IInv, Good
<1>1. TypeOK'
  BY DEF TypeOK, CompleteWindow, childVars
<1>2. Positions(w)'
  <2>1. /\ pc[w] = "ending" /\ pc'[w] = "completed" /\ input' = input /\ first' = first
        /\ children_started' = children_started /\ limit' = limit
        /\ current_records' = current_records /\ current_records[w] = {}
        /\ NextRecord(w) >= input[w].maximum_offset /\ NextRecord(w)' = NextRecord(w)
    BY DEF CompleteWindow, TypeOK, NextRecord
  <2>2. NextRecord(w) \in Nat /\ input[w].maximum_offset \in Nat
    BY WindowTypes
  <2> QED
    BY <2>1, <2>2 DEF Positions
<1>3. /\ Dispatched(w)' = Dispatched(w) /\ Current(w)' = Current(w)
      /\ Progress(w)' = Progress(w)
  BY DEF Dispatched, Current, Progress, NextRecord, CompleteWindow, TypeOK
<1>4. Children(w)'
  BY <1>3 DEF Children, CompleteWindow, childVars
<1>5. Counts(w)'
  BY <1>3 DEF Counts, CompleteWindow
<1> QED
  BY <1>1, <1>2, <1>4, <1>5

\* A completion is handled: its record leaves the window and is counted, once.
LEMMA HandleCompletionInv ==
  ASSUME IInv, NEW w \in Windows, NEW r \in Records, HandleCompletion(w, r)
  PROVE  TypeOK' /\ Good(w)'
<1> USE DEF IInv, Good
<1>1. /\ pc[w] \notin {"absent", "begin", "completed"} /\ pc' = pc /\ input' = input
      /\ children_started' = children_started /\ limit' = limit /\ first' = first
      /\ child' = child /\ sends' = sends /\ starts' = starts
      /\ inbox[w][r] > 0
  BY DEF HandleCompletion, Listening
<1>2. inbox'[w] = [inbox[w] EXCEPT ![r] = @ - 1] /\ inbox' \in [Windows -> [Records -> 0..MaxSends]]
  <2>1. inbox[w] \in [Records -> 0..MaxSends] /\ inbox[w][r] - 1 \in 0..MaxSends
    BY <1>1, WindowAssumption DEF TypeOK
  <2> QED
    BY <2>1 DEF HandleCompletion, TypeOK
<1>3. Dispatched(w)' = Dispatched(w)
  BY <1>1 DEF Dispatched, NextRecord
<1>4. Current(w) = current_records[w] /\ Current(w)' = current_records'[w]
      /\ Progress(w) = progress[w] /\ Progress(w)' = progress'[w]
  BY <1>1 DEF Current, Progress
<1>5. current_records'[w] = current_records[w] \ {r}
  BY DEF HandleCompletion, TypeOK
<1>6. Counts(w)' /\ progress'[w] \in Offsets
  <2> DEFINE D == Dispatched(w) \ Current(w)
  <2>1. IsFiniteSet(D) /\ Cardinality(D) \in Nat /\ IsFiniteSet(Current(w))
        /\ Cardinality(Current(w)) \in Nat
    BY DispatchedFinite, FS_CardinalityType
  <2>2. CASE r \in current_records[w]
    <3>1. Dispatched(w)' \ Current(w)' = D \cup {r} /\ r \notin D
      BY <2>2, <1>3, <1>4, <1>5 DEF Children
    <3>2. Cardinality(Dispatched(w)' \ Current(w)') = Cardinality(D) + 1
      BY <3>1, <2>1, FS_AddElement
    <3>3. progress'[w] = progress[w] + 1
      BY <2>2 DEF HandleCompletion, TypeOK
    <3>4. Dispatched(w)' \ Current(w)' \in SUBSET Dispatched(w)
      BY <1>3
    <3>5. Cardinality(Dispatched(w)' \ Current(w)') \in Offsets
      BY <3>4, DispatchedFinite, WindowAssumption DEF Offsets
    <3>6. Cardinality(Current(w)') <= Cardinality(Current(w))
          /\ Cardinality(Current(w)') \in Nat
      BY <1>4, <1>5, <2>1, FS_Subset, FS_CardinalityType
    <3>7. input[w].sliding_window_size \in Nat
      BY <1>1, WindowAssumption DEF Positions, Input
    <3> QED
      BY <1>1, <1>4, <2>1, <3>2, <3>3, <3>5, <3>6, <3>7 DEF Counts
  <2>3. CASE r \notin current_records[w]
    <3>1. current_records'[w] = current_records[w] /\ progress' = progress
      BY <2>3 DEF HandleCompletion
    <3> QED
      BY <3>1, <1>1, <1>3, <1>4 DEF Counts, TypeOK
  <2> QED
    BY <2>2, <2>3
<1>7. TypeOK'
  <2>1. current_records' \in [Windows -> SUBSET Records]
    <3>1. current_records \in [Windows -> SUBSET Records]
      BY DEF TypeOK
    <3>2. \/ current_records' = [current_records EXCEPT ![w] = @ \ {r}]
          \/ current_records' = current_records
      BY DEF HandleCompletion
    <3> QED
      BY <3>1, <3>2
  <2>2. progress' \in [Windows -> Offsets]
    <3>1. progress' = [progress EXCEPT ![w] = progress'[w]]
      BY DEF HandleCompletion, TypeOK
    <3> QED
      BY <3>1, <1>6 DEF TypeOK
  <2> QED
    BY <1>1, <1>2, <2>1, <2>2 DEF TypeOK
<1>8. Positions(w)'
  BY <1>1, <1>5 DEF Positions, NextRecord
<1>9. Children(w)'
  <2>1. child[w][r] = "done"
    BY <1>1 DEF Children
  <2>2. inbox[w] \in [Records -> Nat] /\ sends[w] \in [Records -> Nat]
    BY WindowAssumption DEF TypeOK
  <2> QED
    BY <1>1, <1>2, <1>3, <1>4, <1>5, <2>1, <2>2 DEF Children
<1> QED
  BY <1>6, <1>7, <1>8, <1>9

\* A child finishes its record or reports it.
LEMMA ChildInv ==
  ASSUME IInv, NEW w \in Windows, NEW r \in Records, FinishRecord(w, r) \/ Report(w, r)
  PROVE  TypeOK' /\ Good(w)'
<1> USE DEF IInv, Good
<1>1. /\ pc' = pc /\ input' = input /\ current_records' = current_records
      /\ progress' = progress /\ children_started' = children_started
      /\ limit' = limit /\ first' = first /\ starts' = starts
  BY DEF FinishRecord, Report, runVars
<1>2. /\ child[w] \in [Records -> {"none", "processing", "reporting", "done"}]
      /\ sends[w] \in [Records -> 0..MaxSends] /\ inbox[w] \in [Records -> 0..MaxSends]
  BY DEF TypeOK
<1>3. inbox[w][r] <= sends[w][r]
  BY DEF Children
<1>4. TypeOK'
  <2>1. CASE FinishRecord(w, r)
    BY <2>1, <1>1, <1>2 DEF TypeOK, FinishRecord
  <2>2. CASE Report(w, r)
    <3>1. sends[w][r] + 1 \in 0..MaxSends /\ inbox[w][r] + 1 \in 0..MaxSends
      BY <2>2, <1>2, <1>3, WindowAssumption DEF Report
    <3> QED
      BY <2>2, <3>1, <1>1, <1>2 DEF TypeOK, Report
  <2> QED
    BY <2>1, <2>2
<1>5. Positions(w)'
  BY <1>1 DEF Positions, NextRecord
<1>6. /\ Dispatched(w)' = Dispatched(w) /\ Current(w)' = Current(w)
      /\ Progress(w)' = Progress(w)
  BY <1>1 DEF Dispatched, Current, Progress, NextRecord
<1>7. Children(w)'
  <2>1. CASE FinishRecord(w, r)
    BY <2>1, <1>1, <1>2, <1>6 DEF Children, FinishRecord, TypeOK
  <2>2. CASE Report(w, r)
    <3>1. /\ child'[w] = [child[w] EXCEPT ![r] = "done"]
          /\ sends'[w] = [sends[w] EXCEPT ![r] = @ + 1]
          /\ inbox'[w] = [inbox[w] EXCEPT ![r] = @ + 1]
          /\ child[w][r] \in {"reporting", "done"}
      BY <2>2 DEF Report, TypeOK
    <3>2. sends[w] \in [Records -> Nat] /\ inbox[w] \in [Records -> Nat]
      BY <1>2, WindowAssumption
    <3> QED
      BY <3>1, <3>2, <1>1, <1>2, <1>6 DEF Children
  <2> QED
    BY <2>1, <2>2
<1>8. Counts(w)'
  BY <1>1, <1>6 DEF Counts
<1> QED
  BY <1>4, <1>5, <1>7, <1>8
-----------------------------------------------------------------------------
\* Every step of the windows preserves the inductive invariant.
LEMMA StepInv == IInv /\ [WindowNext]_windowVars => IInv'
<1> SUFFICES ASSUME IInv, [WindowNext]_windowVars PROVE IInv'
  OBVIOUS
<1>1. CASE UNCHANGED windowVars
  <2>1. TypeOK' /\ \A v \in Windows : Same(v)
    BY <1>1 DEF windowVars, runVars, childVars, IInv, TypeOK, Same
  <2> QED
    BY <2>1, Frame DEF IInv, Good
<1>2. CASE WindowNext
  <2>1. PICK w \in Windows : WindowStep(w) \/ \E i \in FirstInput : StartWindow(w, i)
    BY <1>2 DEF WindowNext
  <2>2. TypeOK' /\ Good(w)'
    BY <2>1, StartWindowInv, BeginInv, PageInv, StartChildInv, ContinueAsNewInv,
       CompleteWindowInv, HandleCompletionInv, ChildInv
    DEF WindowStep, RunStep
  <2>3. \A v \in Windows : v # w => Good(v)'
    BY <2>1, OthersSame, Frame DEF IInv, Good
  <2> QED
    BY <2>2, <2>3 DEF IInv, Good
<1> QED
  BY <1>1, <1>2

\* The windows' inductive invariant: positions, children and counts agree.
THEOREM Invariant == WindowSpec => []IInv
<1> QED
  BY InitInv, StepInv, PTL DEF WindowSpec

\* TypeOK holds whatever the sizes.
THEOREM TypeCorrect == WindowSpec => []TypeOK
<1>1. IInv => TypeOK
  BY DEF IInv
<1> QED
  BY <1>1, Invariant, PTL

\* StartedOnce: no record has two children, whatever the pages and the runs.
THEOREM DispatchOnce == WindowSpec => []StartedOnce
<1>1. IInv => StartedOnce
  BY DEF IInv, Children, StartedOnce
<1> QED
  BY <1>1, Invariant, PTL

\* ProgressExact: progress counts each finished record once, over all the runs.
THEOREM ProgressCounts == WindowSpec => []ProgressExact
<1>1. IInv => ProgressExact
  BY DEF IInv, Children, Counts, ProgressExact
<1> QED
  BY <1>1, Invariant, PTL

\* NoCompletionLost: a current record's completion is still to come.
THEOREM CompletionsKept == WindowSpec => []NoCompletionLost
<1>1. IInv => NoCompletionLost
  <2> SUFFICES ASSUME IInv, NEW w \in Windows, NEW r \in Current(w)
               PROVE  child[w][r] \in {"processing", "reporting"} \/ inbox[w][r] > 0
    BY DEF NoCompletionLost
  <2>1. r \in Records /\ r \in Dispatched(w)
    BY DispatchedFinite DEF IInv, Children
  <2> QED
    BY <2>1 DEF IInv, Children, TypeOK
<1> QED
  BY <1>1, Invariant, PTL

LEMMA BoundedInv == IInv => WindowBounded
<1> SUFFICES ASSUME IInv, NEW w \in Windows, pc[w] # "absent"
             PROVE  Cardinality({r \in Records : child[w][r] = "processing"})
                      <= input[w].sliding_window_size
  BY DEF WindowBounded
<1> DEFINE P == {r \in Records : child[w][r] = "processing"}
<1>1. P \subseteq Current(w)
  BY DEF IInv, Children
<1>2. IsFiniteSet(Current(w)) /\ Cardinality(Current(w)) <= input[w].sliding_window_size
  BY DispatchedFinite DEF IInv, Counts
<1>3. Cardinality(P) <= Cardinality(Current(w)) /\ Cardinality(P) \in Nat
      /\ Cardinality(Current(w)) \in Nat
  BY <1>1, <1>2, FS_Subset, FS_CardinalityType
<1>4. input[w].sliding_window_size \in Nat
  BY WindowAssumption DEF IInv, Positions, Input
<1> QED
  BY <1>2, <1>3, <1>4

\* WindowBounded: the window is respected over all the runs.
THEOREM WindowRespected == WindowSpec => []WindowBounded
  BY BoundedInv, Invariant, PTL

LEMMA ResultInv == IInv => ResultComplete
<1> SUFFICES ASSUME IInv, NEW w \in Windows, pc[w] = "completed"
             PROVE  /\ progress[w] = input[w].maximum_offset - first[w]
                    /\ \A r \in first[w]..input[w].maximum_offset - 1 : child[w][r] = "done"
  BY DEF ResultComplete
<1> DEFINE m == input[w].maximum_offset
<1>1. first[w] \in Nat /\ m \in Nat /\ first[w] <= m
  BY WindowTypes DEF IInv, Positions
<1>2. Dispatched(w) = first[w]..m - 1 /\ Current(w) = {} /\ Progress(w) = progress[w]
  <2>1. current_records[w] = {} /\ NextRecord(w) = m
    BY DEF IInv, Positions
  <2> QED
    BY <2>1 DEF Dispatched, Current, Progress
<1>3. Cardinality(first[w]..m - 1) = m - first[w]
  <2> HIDE DEF m
  <2>1. first[w] \in Int /\ m - 1 \in Int
    BY <1>1
  <2>2. Cardinality(first[w]..m - 1) = IF first[w] > m - 1 THEN 0 ELSE (m - 1) - first[w] + 1
    BY <2>1, FS_Interval
  <2> QED
    BY <1>1, <2>2
<1>4. Dispatched(w) \ Current(w) = first[w]..m - 1
  BY <1>2
<1>5. progress[w] = m - first[w]
  BY <1>2, <1>3, <1>4 DEF IInv, Counts
<1>6. \A r \in Dispatched(w) : r \in Records /\ child[w][r] = "done"
  BY <1>2, DispatchedFinite DEF IInv, Children
<1> QED
  BY <1>2, <1>5, <1>6

\* ResultComplete: a window returns the size of its range, all of it processed.
THEOREM ResultExact == WindowSpec => []ResultComplete
  BY ResultInv, Invariant, PTL
-----------------------------------------------------------------------------
(* Sums.  What a sum is is defined by recursion; that it is what it should *)
(* be follows from there being no least number at which it is not.         *)

\* There is no infinite descent.
LEMMA LeastNumber ==
  ASSUME NEW T, T \subseteq Nat, T # {}
  PROVE  \E n \in T : \A m \in T : n <= m
<1> DEFINE R == {p \in Nat \X Nat : p[1] < p[2]}
<1>1. R = OpToRel(<, Nat)
  BY Zenon DEF OpToRel
<1>2. IsWellFoundedOn(R, Nat)
  BY <1>1, NatLessThanWellFounded, Zenon
<1>3. PICK n \in T : \A m \in T : ~ (<<m, n>> \in R)
  <2> HIDE DEF R
  <2> QED
    BY <1>2, WFMin
<1>4. ASSUME NEW m \in T PROVE n <= m
  <2>1. m \in Nat /\ n \in Nat /\ ~(<<m, n>> \in R)
    BY <1>3
  <2> QED
    BY <2>1
<1> QED
  BY <1>4

\* g is the function of the partial sums of f, up to the m-th.
Sums(g, f, m) == /\ g \in [0..m -> Nat] /\ g[0] = 0
                 /\ \A i \in 0..m - 1 : g[i + 1] = g[i] + f[i]

\* s satisfies the definition of the sums, up to the n-th.
Rec(s, f, n) == s = [i \in 0..n |-> IF i = 0 THEN 0 ELSE s[i - 1] + f[i - 1]]

\* Two such functions agree.
LEMMA SumsAgree ==
  ASSUME NEW m \in Nat, NEW f, NEW g, NEW h, NEW n \in 0..m, Sums(g, f, m), Rec(h, f, n)
  PROVE  h[n] = g[n]
<1> DEFINE T == {i \in 0..n : h[i] # g[i]}
<1>1. SUFFICES ASSUME T # {} PROVE FALSE
  OBVIOUS
<1>2. PICK k \in T : \A i \in T : k <= i
  <2>1. T \subseteq Nat
    OBVIOUS
  <2> HIDE DEF T
  <2> QED
    BY <1>1, <2>1, LeastNumber
<1>3. k # 0
  BY DEF Sums, Rec
<1>4. k - 1 \in 0..m - 1 /\ k - 1 \in 0..n /\ k - 1 \notin T
  BY <1>2, <1>3
<1>5. h[k - 1] = g[k - 1] /\ h[k] = h[k - 1] + f[k - 1]
  BY <1>3, <1>4 DEF Rec
<1>6. g[k] = g[k - 1] + f[k - 1]
  <2>1. g[(k - 1) + 1] = g[k - 1] + f[k - 1]
    BY <1>4 DEF Sums
  <2> QED
    BY <2>1
<1> QED
  BY <1>5, <1>6

\* What satisfies the equations of the sums is the sums.
LEMMA SumIs ==
  ASSUME NEW m \in Nat, NEW f, NEW g, Sums(g, f, m)
  PROVE  \A n \in 0..m : SumOf(f, n) = g[n]
<1> SUFFICES ASSUME NEW n \in 0..m PROVE SumOf(f, n) = g[n]
  OBVIOUS
<1> DEFINE s0 == [i \in 0..n |-> g[i]]
           h == CHOOSE s : s = [i \in 0..n |-> IF i = 0 THEN 0 ELSE s[i - 1] + f[i - 1]]
<1>1. Rec(s0, f, n)
  <2>1. ASSUME NEW i \in 0..n, i # 0 PROVE g[i] = s0[i - 1] + f[i - 1]
    <3>1. i - 1 \in 0..m - 1 /\ i - 1 \in 0..n
      BY <2>1
    <3>2. g[(i - 1) + 1] = g[i - 1] + f[i - 1]
      BY <3>1 DEF Sums
    <3> QED
      BY <3>1, <3>2
  <2>2. ASSUME NEW i \in 0..n, i = 0 PROVE g[i] = 0
    BY <2>2 DEF Sums
  <2>3. \A i \in 0..n : g[i] = IF i = 0 THEN 0 ELSE s0[i - 1] + f[i - 1]
    BY <2>1, <2>2
  <2> HIDE DEF s0
  <2>4. s0 = [i \in 0..n |-> g[i]]
    BY DEF s0
  <2> QED
    BY <2>3, <2>4 DEF Rec
<1>2. Rec(h, f, n)
  BY <1>1, Zenon DEF Rec
<1>3. h[n] = g[n]
  <2> HIDE DEF h
  <2> QED
    BY <1>2, SumsAgree
<1>4. SumOf(f, n) = h[n]
  BY Zenon DEF SumOf
<1> QED
  BY <1>3, <1>4, Zenon

\* There are sums.
LEMMA SumsExist ==
  ASSUME NEW m \in Nat, NEW f, \A i \in 0..m - 1 : f[i] \in Nat
  PROVE  \E g : Sums(g, f, m)
<1> DEFINE T == {n \in 0..m : ~ \E g : Sums(g, f, n)}
<1>1. SUFFICES ASSUME T # {} PROVE FALSE
  OBVIOUS
<1>2. PICK k \in T : \A i \in T : k <= i
  <2>1. T \subseteq Nat
    OBVIOUS
  <2> HIDE DEF T
  <2> QED
    BY <1>1, <2>1, LeastNumber
<1>3. k # 0
  <2>1. Sums([i \in 0..0 |-> 0], f, 0)
    BY DEF Sums
  <2> QED
    BY <2>1
<1>4. k - 1 \in 0..m - 1 /\ k - 1 \in 0..m /\ k - 1 \notin T
  BY <1>2, <1>3
<1>5. PICK g : Sums(g, f, k - 1)
  BY <1>4
<1> DEFINE h == [i \in 0..k |-> IF i = k THEN g[k - 1] + f[k - 1] ELSE g[i]]
<1>6. \A i \in 0..k : h[i] \in Nat
  BY <1>3, <1>4, <1>5 DEF Sums
<1>7. h[0] = 0
  BY <1>3, <1>5 DEF Sums
<1>8. ASSUME NEW i \in 0..k - 1 PROVE h[i + 1] = h[i] + f[i]
  <2>1. CASE i = k - 1
    BY <2>1, <1>4
  <2>2. CASE i # k - 1
    <3>1. i \in 0..(k - 1) - 1 /\ i + 1 \in 0..k /\ i + 1 # k /\ i # k
      BY <2>2
    <3> QED
      BY <3>1, <1>5 DEF Sums
  <2> QED
    BY <2>1, <2>2
<1>9. Sums(h, f, k)
  BY <1>6, <1>7, <1>8 DEF Sums
<1> QED
  BY <1>9

\* A sum is that of one term less and that term; a longer sum is larger.
LEMMA SumStep ==
  ASSUME NEW m \in Nat, NEW f, \A i \in 0..m - 1 : f[i] \in Nat
  PROVE  /\ SumOf(f, 0) = 0
         /\ \A n \in 0..m : SumOf(f, n) \in Nat
         /\ \A n \in 0..m - 1 : SumOf(f, n + 1) = SumOf(f, n) + f[n]
<1>1. PICK g : Sums(g, f, m)
  BY SumsExist
<1>2. \A n \in 0..m : SumOf(f, n) = g[n]
  BY <1>1, SumIs
<1> QED
  BY <1>1, <1>2 DEF Sums

LEMMA SumMonotone ==
  ASSUME NEW m \in Nat, NEW f, \A i \in 0..m - 1 : f[i] \in Nat,
         NEW v \in 0..m, NEW w \in 0..m, v <= w
  PROVE  SumOf(f, v) <= SumOf(f, w)
<1> DEFINE T == {n \in v..m : SumOf(f, v) > SumOf(f, n)}
<1>1. SUFFICES ASSUME T # {} PROVE FALSE
  BY SumStep
<1>2. PICK k \in T : \A i \in T : k <= i
  <2>1. T \subseteq Nat
    OBVIOUS
  <2> HIDE DEF T
  <2> QED
    BY <1>1, <2>1, LeastNumber
<1>3. k # v /\ k - 1 \in v..m /\ k - 1 \in 0..m - 1 /\ k - 1 \notin T
  BY <1>2, SumStep
<1>4. SumOf(f, k) = SumOf(f, k - 1) + f[k - 1] /\ f[k - 1] \in Nat
  <2>1. SumOf(f, (k - 1) + 1) = SumOf(f, k - 1) + f[k - 1]
    BY <1>3, SumStep
  <2> QED
    BY <2>1, <1>3
<1> QED
  BY <1>3, <1>4, SumStep

\* The sum depends on the terms only.
LEMMA SumSame ==
  ASSUME NEW m \in Nat, NEW f, NEW h,
         \A i \in 0..m - 1 : f[i] \in Nat /\ f[i] = h[i]
  PROVE  SumOf(f, m) = SumOf(h, m)
<1>1. PICK g : Sums(g, f, m)
  BY SumsExist
<1>2. Sums(g, h, m)
  BY <1>1 DEF Sums
<1> QED
  BY <1>1, <1>2, SumIs

\* The parts into which a number is divided add up to it, and there is one for all if
\* there is enough.
LEMMA Division ==
  ASSUME NEW number \in Nat, NEW n \in Nat \ {0}
  PROVE  LET f == DivideIntoPartitions(number, n) IN
         /\ \A i \in 0..n - 1 : f[i] \in Nat /\ (n <= number => f[i] >= 1)
         /\ SumOf(f, n) = number
<1> DEFINE f == DivideIntoPartitions(number, n)
           q == number \div n
           r == number % n
           g == [i \in 0..n |-> i * q + IF i < r THEN i ELSE r]
<1>1. q \in Nat /\ r \in 0..n - 1 /\ number = n * q + r
  OBVIOUS
<1>2. n <= number => q >= 1
  <2> SUFFICES ASSUME n <= number, q < 1 PROVE FALSE
    BY <1>1
  <2>1. q = 0
    BY <1>1
  <2>2. n * q = 0
    BY <2>1
  <2> QED
    BY <1>1, <2>2
<1>3. \A i \in 0..n - 1 : f[i] = q + IF i < r THEN 1 ELSE 0
  BY DEF DivideIntoPartitions
<1> HIDE DEF q, r, f
<1>4. \A i \in 0..n : i * q \in Nat
  BY <1>1
<1>5. Sums(g, f, n)
  <2>1. ASSUME NEW i \in 0..n - 1 PROVE (i + 1) * q = i * q + q
    BY <1>1
  <2>2. 0 * q = 0
    BY <1>1
  <2> QED
    BY <1>1, <1>3, <1>4, <2>1, <2>2 DEF Sums
<1>6. SumOf(f, n) = g[n]
  BY <1>5, SumIs
<1>7. \A i \in 0..n - 1 : f[i] \in Nat /\ (n <= number => f[i] >= 1)
  BY <1>1, <1>2, <1>3
<1>8. SumOf(f, n) = number
  BY <1>1, <1>6
<1> QED
  BY <1>7, <1>8 DEF f
-----------------------------------------------------------------------------
(* ProcessBatch: the inductive invariant.                                  *)

\* The ranges of the windows follow each other, and each has its share of the request's
\* window; a window is there once the request was accepted.
Assigned(w) ==
  /\ w < request.partitions /\ bpc \in {"gathering", "completed"}
  /\ first[w] = Offset(w) /\ input[w].maximum_offset = Offset(w + 1)
  /\ input[w].sliding_window_size = WindowSizes[w]

BatchInv ==
  /\ bpc \in {"counting", "failed", "gathering", "completed"} /\ request \in Request
  /\ bpc \in {"gathering", "completed"} => ~TooManyPartitions
  /\ \A w \in Windows : pc[w] # "absent" => Assigned(w)
  /\ bresult = IF bpc = "completed" THEN RecordCount ELSE NoResult
  /\ bpc = "completed" => \A w \in 0..request.partitions - 1 : pc[w] = "completed"
-----------------------------------------------------------------------------
(* ProcessBatch: what the partitions are.                                  *)

\* The partitions of a request divide the records and the window.
LEMMA Shares ==
  ASSUME request \in Request
  PROVE  /\ request.partitions \in Nat \ {0} /\ request.sliding_window_size \in Sizes
         /\ request.page_size \in Sizes
         /\ \A w \in 0..request.partitions - 1 :
              /\ w \in Windows /\ Partitions[w] \in Nat /\ WindowSizes[w] \in Nat
              /\ ~TooManyPartitions => WindowSizes[w] >= 1
         /\ SumOf(Partitions, request.partitions) = RecordCount
         /\ SumOf(WindowSizes, request.partitions) = request.sliding_window_size
<1> DEFINE n == request.partitions
           size == request.sliding_window_size
<1>1. Cardinality(Windows) \in Nat
  BY BatchAssumption, FS_CardinalityType
<1>2. n \in Nat \ {0} /\ n <= Cardinality(Windows) /\ size \in Sizes /\ request.page_size \in Sizes
  BY <1>1, BatchAssumption DEF Request
<1>3. size \in Nat
  BY <1>2, WindowAssumption
<1>4. \A w \in 0..n - 1 : w \in Windows
  BY <1>1, <1>2, BatchAssumption
<1> HIDE DEF n, size
<1>5. /\ \A i \in 0..n - 1 : DivideIntoPartitions(RecordCount, n)[i] \in Nat
      /\ SumOf(DivideIntoPartitions(RecordCount, n), n) = RecordCount
  BY <1>2, Division, WindowAssumption
<1>6. /\ \A i \in 0..n - 1 : /\ DivideIntoPartitions(size, n)[i] \in Nat
                             /\ n <= size => DivideIntoPartitions(size, n)[i] >= 1
      /\ SumOf(DivideIntoPartitions(size, n), n) = size
  BY <1>2, <1>3, Division
<1>7. ~TooManyPartitions => n <= size
  BY <1>2, <1>3 DEF TooManyPartitions, n, size
<1> QED
  BY <1>2, <1>4, <1>5, <1>6, <1>7 DEF Partitions, WindowSizes, n, size

\* The ranges follow each other, from the first record to the last.
LEMMA Ranges ==
  ASSUME request \in Request
  PROVE  /\ Offset(0) = 0 /\ Offset(request.partitions) = RecordCount
         /\ \A w \in 0..request.partitions : Offset(w) \in 0..RecordCount
         /\ \A w \in 0..request.partitions - 1 : Offset(w + 1) = Offset(w) + Partitions[w]
         /\ \A v, w \in 0..request.partitions : v <= w => Offset(v) <= Offset(w)
<1> DEFINE n == request.partitions
<1>1. n \in Nat /\ n \in 0..n /\ \A w \in 0..n - 1 : Partitions[w] \in Nat
  BY Shares
<1>2. Offset(n) = RecordCount
  BY Shares DEF Offset
<1> HIDE DEF n
<1>3. /\ Offset(0) = 0 /\ \A w \in 0..n : Offset(w) \in Nat
      /\ \A w \in 0..n - 1 : Offset(w + 1) = Offset(w) + Partitions[w]
  BY <1>1, SumStep DEF Offset
<1>4. \A v, w \in 0..n : v <= w => Offset(v) <= Offset(w)
  BY <1>1, SumMonotone DEF Offset
<1>5. \A w \in 0..n : Offset(w) <= RecordCount
  BY <1>1, <1>2, <1>4
<1> QED
  BY <1>2, <1>3, <1>4, <1>5, WindowAssumption DEF n

\* Every record is in a range.
LEMMA RangeOf ==
  ASSUME request \in Request, NEW r \in Records
  PROVE  \E w \in 0..request.partitions - 1 : Offset(w) <= r /\ r < Offset(w + 1)
<1> DEFINE n == request.partitions
           T == {k \in 0..n : r < Offset(k)}
<1>1. n \in Nat /\ n \in T /\ r \in Nat
  BY Shares, Ranges, WindowAssumption DEF Records
<1>2. PICK k \in T : \A i \in T : k <= i
  <2>1. T \subseteq Nat /\ T # {}
    BY <1>1
  <2> HIDE DEF T
  <2> QED
    BY <2>1, LeastNumber
<1>3. k # 0
  BY <1>1, Ranges
<1>4. k - 1 \in 0..n - 1 /\ k - 1 \in 0..n /\ k - 1 \notin T /\ (k - 1) + 1 = k
  BY <1>1, <1>2, <1>3
<1>5. Offset(k - 1) \in Nat
  BY <1>4, Ranges, WindowAssumption
<1> QED
  BY <1>1, <1>4, <1>5

\* The input of a window is one that SlidingWindow allows for.
LEMMA GivenInput ==
  ASSUME request \in Request, ~TooManyPartitions,
         NEW w \in Windows, w < request.partitions
  PROVE  /\ WindowInput(w) \in FirstInput
         /\ WindowInput(w).offset = Offset(w)
         /\ WindowInput(w).maximum_offset = Offset(w + 1)
         /\ WindowInput(w).sliding_window_size = WindowSizes[w]
<1> DEFINE n == request.partitions
<1>1. w \in 0..n - 1 /\ w \in 0..n /\ w + 1 \in 0..n /\ n \in Nat
  BY Shares, BatchAssumption, FS_CardinalityType
<1>2. /\ Offset(w) \in 0..RecordCount /\ Offset(w + 1) \in 0..RecordCount
      /\ Offset(w + 1) = Offset(w) + Partitions[w] /\ Offset(w) <= Offset(w + 1)
  BY <1>1, Ranges
<1>3. /\ WindowInput(w).offset = Offset(w)
      /\ WindowInput(w).maximum_offset = Offset(w + 1)
      /\ WindowInput(w).sliding_window_size = WindowSizes[w]
  BY <1>2, WindowAssumption DEF WindowInput
<1>4. WindowSizes[w] \in Sizes
  <2>1. /\ WindowSizes[w] \in Nat /\ WindowSizes[w] >= 1 /\ request.sliding_window_size \in Sizes
        /\ SumOf(WindowSizes, n) = request.sliding_window_size
    BY <1>1, Shares
  <2>2. \A i \in 0..n - 1 : WindowSizes[i] \in Nat
    BY Shares
  <2>3. /\ SumOf(WindowSizes, w) \in Nat /\ SumOf(WindowSizes, w + 1) \in Nat
        /\ SumOf(WindowSizes, w + 1) = SumOf(WindowSizes, w) + WindowSizes[w]
    BY <1>1, <2>2, SumStep
  <2>4. SumOf(WindowSizes, w + 1) <= SumOf(WindowSizes, n)
    BY <1>1, <2>2, SumMonotone
  <2>5. request.sliding_window_size \in Nat
    BY <2>1, WindowAssumption
  <2>6. WindowSizes[w] <= request.sliding_window_size
    BY <2>1, <2>3, <2>4, <2>5
  <2> QED
    BY <2>1, <2>5, <2>6, BatchAssumption
<1>5. WindowInput(w) \in [page_size : Sizes, sliding_window_size : Sizes,
                          offset : Offsets, maximum_offset : Offsets,
                          progress : {0}, current_records : {{}}]
  BY <1>2, <1>4, Shares, WindowAssumption DEF WindowInput, Offsets
<1> QED
  BY <1>2, <1>3, <1>5 DEF FirstInput
-----------------------------------------------------------------------------
(* ProcessBatch: the invariant is inductive.                               *)

\* Ranges and shares depend on the request only, which does not change.
LEMMA RequestSame ==
  ASSUME UNCHANGED request
  PROVE  /\ \A w : Offset(w)' = Offset(w) /\ WindowSizes' = WindowSizes
         /\ TooManyPartitions' = TooManyPartitions
  BY DEF Offset, Partitions, WindowSizes, TooManyPartitions

\* What a window's own steps leave as it is, in every window.
LEMMA WindowKept ==
  ASSUME IInv, NEW w \in Windows, WindowStep(w), NEW v \in Windows
  PROVE  /\ pc'[v] = "absent" <=> pc[v] = "absent"
         /\ pc[v] = "completed" => pc'[v] = "completed"
         /\ first'[v] = first[v]
         /\ pc[v] # "absent" =>
              /\ input'[v].maximum_offset = input[v].maximum_offset
              /\ input'[v].sliding_window_size = input[v].sliding_window_size
<1>1. TypeOK /\ (pc[w] # "absent" => input[w] \in Input)
  BY DEF IInv, Positions
<1>2. CASE ContinueAsNew(w)
  BY <1>1, <1>2 DEF ContinueAsNew, NewInput, TypeOK, Input
<1>3. CASE \/ Begin(w) \/ GetRecords(w) \/ StartChild(w, NextRecord(w)) \/ ChildStarted(w)
           \/ PageDone(w) \/ CompleteWindow(w)
  BY <1>1, <1>3 DEF Begin, GetRecords, StartChild, ChildStarted, PageDone, CompleteWindow, TypeOK
<1>4. CASE \E r \in Records : HandleCompletion(w, r) \/ FinishRecord(w, r) \/ Report(w, r)
  BY <1>4 DEF HandleCompletion, FinishRecord, Report, runVars
<1> QED
  BY <1>2, <1>3, <1>4 DEF WindowStep, RunStep

\* A step of the batch is a step of its windows, or none.
LEMMA WindowsStep ==
  BatchInv /\ [Next]_vars => [WindowNext]_windowVars
<1> SUFFICES ASSUME BatchInv, [Next]_vars PROVE [WindowNext]_windowVars
  OBVIOUS
<1>1. ASSUME NEW w \in Windows, StartPartition(w) PROVE WindowNext
  <2>1. WindowInput(w) \in FirstInput
    BY <1>1, GivenInput DEF StartPartition, BatchInv
  <2> QED
    BY <1>1, <2>1 DEF StartPartition, WindowNext
<1>2. CASE \E w \in Windows : Window(w)
  BY <1>2 DEF Window, WindowNext
<1>3. CASE RefuseRequest \/ AcceptRequest \/ Gather \/ Terminated \/ UNCHANGED vars
  BY <1>3 DEF RefuseRequest, AcceptRequest, Gather, Terminated, vars
<1> QED
  BY <1>1, <1>2, <1>3 DEF Next

LEMMA BatchInit == Init => IInv /\ BatchInv
<1> SUFFICES ASSUME Init PROVE IInv /\ BatchInv
  OBVIOUS
<1>1. IInv
  BY InitInv DEF Init
<1> QED
  BY <1>1 DEF Init, BatchInv, WindowInit

\* A window is started on its share.
LEMMA StartPartitionInv ==
  ASSUME IInv, BatchInv, NEW w \in Windows, StartPartition(w) PROVE BatchInv'
<1>1. /\ pc' = [pc EXCEPT ![w] = "begin"] /\ pc[w] = "absent"
      /\ input' = [input EXCEPT ![w] = WindowInput(w)]
      /\ first' = [first EXCEPT ![w] = WindowInput(w).offset]
      /\ UNCHANGED <<bpc, request, bresult>> /\ bpc = "gathering" /\ w < request.partitions
  BY DEF StartPartition, StartWindow, batchVars
<1>2. ~TooManyPartitions /\ request \in Request
  BY <1>1 DEF BatchInv
<1>3. Assigned(w)'
  <2>1. /\ WindowInput(w).offset = Offset(w)
        /\ WindowInput(w).maximum_offset = Offset(w + 1)
        /\ WindowInput(w).sliding_window_size = WindowSizes[w]
    BY <1>1, <1>2, GivenInput
  <2>2. input'[w] = WindowInput(w) /\ first'[w] = WindowInput(w).offset
    BY <1>1 DEF IInv, TypeOK
  <2> QED
    BY <1>1, <2>1, <2>2, RequestSame DEF Assigned
<1>4. ASSUME NEW v \in Windows, v # w
      PROVE  pc'[v] = pc[v] /\ input'[v] = input[v] /\ first'[v] = first[v]
  BY <1>1, <1>4 DEF IInv, TypeOK
<1>5. ASSUME NEW v \in Windows, v # w, pc'[v] # "absent" PROVE Assigned(v)'
  <2>1. Assigned(v)
    BY <1>4, <1>5 DEF BatchInv
  <2> QED
    BY <2>1, <1>1, <1>4, <1>5, RequestSame DEF Assigned
<1> QED
  BY <1>1, <1>2, <1>3, <1>5, RequestSame DEF BatchInv, NoResult

\* The windows go on.
LEMMA WindowStepInv ==
  ASSUME IInv, BatchInv, NEW w \in Windows, Window(w) PROVE BatchInv'
<1>1. WindowStep(w) /\ UNCHANGED <<bpc, request, bresult>>
  BY DEF Window, batchVars
<1>2. ASSUME NEW v \in Windows, pc'[v] # "absent" PROVE Assigned(v)'
  <2>1. pc[v] # "absent" /\ first'[v] = first[v]
        /\ input'[v].maximum_offset = input[v].maximum_offset
        /\ input'[v].sliding_window_size = input[v].sliding_window_size
    BY <1>1, <1>2, WindowKept
  <2>2. Assigned(v)
    BY <2>1 DEF BatchInv
  <2> QED
    BY <1>1, <2>1, <2>2, RequestSame DEF Assigned
<1>3. ASSUME bpc = "completed", NEW v \in 0..request.partitions - 1 PROVE pc'[v] = "completed"
  <2>1. v \in Windows /\ pc[v] = "completed"
    BY <1>3, Shares DEF BatchInv
  <2> QED
    BY <1>1, <2>1, WindowKept
<1> QED
  BY <1>1, <1>2, <1>3, RequestSame DEF BatchInv, NoResult

\* The results add up to the number of records.
LEMMA GatherInv ==
  ASSUME IInv, BatchInv, Gather PROVE BatchInv'
<1> DEFINE n == request.partitions
<1>1. /\ bpc = "gathering" /\ bpc' = "completed" /\ UNCHANGED <<request, pc, input, first>>
      /\ \A w \in 0..n - 1 : pc[w] = "completed"
      /\ bresult' = SumOf(progress, n)
  BY DEF Gather, Gathered, windowVars, runVars
<1>2. request \in Request /\ n \in Nat
  BY Shares DEF BatchInv
<1>3. ASSUME NEW w \in 0..n - 1 PROVE Partitions[w] \in Nat /\ Partitions[w] = progress[w]
  <2>1. w \in Windows /\ Partitions[w] \in Nat /\ pc[w] = "completed"
    BY <1>1, <1>2, Shares
  <2>2. progress[w] = input[w].maximum_offset - first[w]
    BY <2>1, ResultInv DEF ResultComplete
  <2>3. first[w] = Offset(w) /\ input[w].maximum_offset = Offset(w + 1)
    BY <2>1 DEF BatchInv, Assigned
  <2>4. Offset(w + 1) = Offset(w) + Partitions[w] /\ Offset(w) \in Int
    <3>1. w \in 0..n /\ \A o \in 0..RecordCount : o \in Int
      BY <1>2, WindowAssumption
    <3> QED
      BY <3>1, <1>2, Ranges
  <2> QED
    BY <2>1, <2>2, <2>3, <2>4
<1>4. SumOf(progress, n) = RecordCount
  <2>1. SumOf(Partitions, n) = SumOf(progress, n)
    <3> HIDE DEF n
    <3> QED
      BY <1>2, <1>3, SumSame
  <2> QED
    BY <2>1, <1>2, Shares
<1>5. ASSUME NEW v \in Windows, pc'[v] # "absent" PROVE Assigned(v)'
  BY <1>1, <1>5, RequestSame DEF BatchInv, Assigned
<1> QED
  BY <1>1, <1>2, <1>4, <1>5, RequestSame DEF BatchInv

LEMMA BatchStep == IInv /\ BatchInv /\ [Next]_vars => IInv' /\ BatchInv'
<1> SUFFICES ASSUME IInv, BatchInv, [Next]_vars PROVE IInv' /\ BatchInv'
  OBVIOUS
<1>1. IInv'
  BY WindowsStep, StepInv
<1>2. CASE RefuseRequest \/ AcceptRequest
  <2>1. /\ UNCHANGED <<request, pc, input, first, bresult>> /\ bpc = "counting"
        /\ bpc' \in {"failed", "gathering"} /\ (bpc' = "gathering" => ~TooManyPartitions)
    BY <1>2 DEF RefuseRequest, AcceptRequest, windowVars, runVars
  <2>2. \A v \in Windows : pc'[v] = "absent"
    BY <2>1 DEF BatchInv, Assigned
  <2> QED
    BY <1>1, <2>1, <2>2, RequestSame DEF BatchInv, NoResult
<1>3. CASE Terminated \/ UNCHANGED vars
  <2>1. UNCHANGED <<bpc, request, bresult, pc, input, first>>
    BY <1>3 DEF Terminated, vars, batchVars, windowVars, runVars
  <2> QED
    BY <1>1, <2>1, RequestSame DEF BatchInv, Assigned, NoResult
<1> QED
  BY <1>1, <1>2, <1>3, StartPartitionInv, WindowStepInv, GatherInv DEF Next

\* The batch's inductive invariant: each window has its range and its share.
THEOREM BatchInvariant == Spec => [](IInv /\ BatchInv)
  BY BatchInit, BatchStep, PTL DEF Spec

\* Refinement: the batch's windows behave as SlidingWindow says of any windows, so that
\* what is proved of those holds of these.
THEOREM BatchRunsWindows == Spec => WindowsSpec
<1>1. Init => WindowInit
  BY DEF Init
<1> QED
  BY <1>1, BatchInvariant, WindowsStep, PTL DEF Spec, WindowsSpec, WindowSpec
-----------------------------------------------------------------------------
(* ProcessBatch: what it promises.                                         *)

\* What a window has dispatched is in its range, so that no two have dispatched the same
\* record.
LEMMA DispatchedInRange ==
  ASSUME IInv, BatchInv, NEW w \in Windows, NEW r \in Dispatched(w)
  PROVE  /\ r \in Records /\ pc[w] # "absent" /\ w \in 0..request.partitions - 1
         /\ Offset(w) <= r /\ r < Offset(w + 1)
<1>1. Positions(w) /\ TypeOK
  BY DEF IInv
<1>2. /\ first[w] \in Nat /\ NextRecord(w) \in Nat /\ input[w].maximum_offset \in Nat
      /\ limit[w] \in Nat
  BY <1>1, WindowTypes
<1>3. r \in Records
  BY <1>1, DispatchedFinite
<1>4. /\ r \in Nat /\ first[w] <= r
      /\ r < NextRecord(w) \/ (pc[w] = "starting" /\ r <= NextRecord(w))
  BY <1>2, <1>3, WindowAssumption DEF Dispatched, Records
<1>5. pc[w] # "absent"
  BY <1>1, <1>2, <1>4 DEF Positions
<1>6. r < input[w].maximum_offset
  BY <1>1, <1>2, <1>4 DEF Positions
<1>7. Assigned(w)
  BY <1>5 DEF BatchInv
<1>8. w \in 0..request.partitions - 1
  <2>1. request.partitions \in Nat /\ w \in Nat
    BY Shares, BatchAssumption, FS_CardinalityType DEF BatchInv
  <2> QED
    BY <1>7, <2>1 DEF Assigned
<1> QED
  BY <1>3, <1>4, <1>5, <1>6, <1>7, <1>8 DEF Assigned

LEMMA DispatchedOnce ==
  ASSUME IInv, BatchInv, NEW v \in Windows, NEW w \in Windows,
         NEW r \in Dispatched(v), r \in Dispatched(w)
  PROVE  v = w
<1>1. request \in Request /\ request.partitions \in Nat
  BY Shares DEF BatchInv
<1>2. /\ v \in 0..request.partitions - 1 /\ w \in 0..request.partitions - 1 /\ r \in Records
      /\ Offset(v) <= r /\ r < Offset(v + 1) /\ Offset(w) <= r /\ r < Offset(w + 1)
  BY DispatchedInRange
<1>3. ASSUME NEW i \in {v, w}, NEW k \in {v, w}, i < k PROVE FALSE
  <2>1. i + 1 \in 0..request.partitions /\ k \in 0..request.partitions /\ i + 1 <= k
    BY <1>1, <1>2, <1>3
  <2>2. Offset(i + 1) <= Offset(k) /\ Offset(i + 1) \in Nat /\ Offset(k) \in Nat /\ r \in Nat
    BY <1>1, <1>2, <2>1, Ranges, WindowAssumption DEF Records
  <2> QED
    BY <1>2, <2>2
<1> QED
  BY <1>1, <1>2, <1>3

\* When the batch has completed, every record was processed by the window of its range.
LEMMA AllDone ==
  ASSUME IInv, BatchInv, NEW r \in Records,
         \A w \in 0..request.partitions - 1 : pc[w] = "completed"
  PROVE  \E w \in Windows : child[w][r] = "done" /\ r \in Dispatched(w)
<1>1. request \in Request
  BY DEF BatchInv
<1>2. PICK w \in 0..request.partitions - 1 : Offset(w) <= r /\ r < Offset(w + 1)
  BY <1>1, RangeOf
<1>3. w \in Windows /\ pc[w] = "completed"
  BY <1>1, <1>2, Shares
<1>4. first[w] = Offset(w) /\ input[w].maximum_offset = Offset(w + 1)
  BY <1>3 DEF BatchInv, Assigned
<1>5. /\ first[w] \in Nat /\ input[w].maximum_offset \in Nat
      /\ NextRecord(w) = input[w].maximum_offset
  BY <1>3, WindowTypes DEF IInv, Positions
<1>6. r \in first[w]..input[w].maximum_offset - 1
  BY <1>2, <1>4, <1>5, WindowAssumption DEF Records
<1>7. child[w][r] = "done"
  BY <1>3, <1>6, ResultInv DEF ResultComplete
<1> QED
  BY <1>3, <1>5, <1>6, <1>7 DEF Dispatched

LEMMA OnceInv == IInv /\ BatchInv => EachRecordOnce
<1> SUFFICES ASSUME IInv, BatchInv, NEW r \in Records
             PROVE  LET takers == {w \in Windows : starts[w][r] > 0} IN
                    /\ \A v, w \in takers : v = w /\ starts[w][r] = 1
                    /\ bpc = "completed" => takers # {}
  BY DEF EachRecordOnce
<1>1. \A w \in Windows : starts[w][r] = IF r \in Dispatched(w) THEN 1 ELSE 0
  BY DEF IInv, Children
<1>2. ASSUME NEW v \in Windows, NEW w \in Windows, starts[v][r] > 0, starts[w][r] > 0
      PROVE  v = w /\ starts[w][r] = 1
  BY <1>1, <1>2, DispatchedOnce
<1>3. ASSUME bpc = "completed" PROVE \E w \in Windows : starts[w][r] > 0
  <2>1. \A w \in 0..request.partitions - 1 : pc[w] = "completed"
    BY <1>3 DEF BatchInv
  <2> QED
    BY <1>1, <2>1, AllDone
<1> QED
  BY <1>2, <1>3

\* Of the records that are being processed, those of one window.
Working(w) == {r \in Records : child[w][r] = "processing"}

LEMMA WorkingBounded ==
  ASSUME IInv, BatchInv, NEW w \in 0..request.partitions - 1
  PROVE  /\ IsFiniteSet(Working(w)) /\ Cardinality(Working(w)) \in Nat
         /\ Cardinality(Working(w)) <= WindowSizes[w]
<1>1. w \in Windows /\ WindowSizes[w] \in Nat
  BY Shares DEF BatchInv
<1>2. IsFiniteSet(Records)
  BY FS_Interval, WindowAssumption DEF Records
<1>3. IsFiniteSet(Working(w)) /\ Cardinality(Working(w)) \in Nat
  BY <1>2, FS_Subset, FS_CardinalityType DEF Working
<1>4. CASE pc[w] # "absent"
  <2>1. input[w].sliding_window_size = WindowSizes[w]
    BY <1>1, <1>4 DEF BatchInv, Assigned
  <2>2. Cardinality({r \in Records : child[w][r] = "processing"}) <= input[w].sliding_window_size
    BY <1>1, <1>4, BoundedInv DEF WindowBounded
  <2> QED
    BY <1>3, <2>1, <2>2 DEF Working
<1>5. CASE pc[w] = "absent"
  <2>1. \A r \in Records : r \notin Dispatched(w)
    BY <1>1, <1>5, DispatchedInRange
  <2>2. Working(w) = {}
    BY <1>1, <2>1 DEF Working, IInv, Children
  <2> QED
    BY <1>1, <1>3, <2>2, FS_EmptySet
<1> QED
  BY <1>4, <1>5

\* Of them, those of the first k windows.
Processing(k) ==
  {p \in Windows \X Records : p[1] < k /\ child[p[1]][p[2]] = "processing"}

LEMMA ProcessingStep ==
  ASSUME IInv, BatchInv, NEW k \in 0..request.partitions - 1, IsFiniteSet(Processing(k))
  PROVE  /\ IsFiniteSet(Processing(k + 1))
         /\ Cardinality(Processing(k + 1)) <= Cardinality(Processing(k)) + WindowSizes[k]
<1>1. k \in Windows /\ WindowSizes[k] \in Nat /\ k \in Nat /\ \A w \in Windows : w \in Nat
  BY Shares, BatchAssumption, FS_CardinalityType DEF BatchInv
<1> DEFINE Own == {k} \X Working(k)
           f == [r \in Working(k) |-> <<k, r>>]
<1>2. Processing(k + 1) = Processing(k) \cup Own
  <2>1. \A w \in Windows : w < k + 1 <=> w < k \/ w = k
    BY <1>1
  <2> QED
    BY <1>1, <2>1 DEF Processing, Working
<1>3. f \in Surjection(Working(k), Own)
  BY DEF Surjection
<1>4. IsFiniteSet(Own) /\ Cardinality(Own) <= Cardinality(Working(k))
  <2> HIDE DEF f, Own
  <2> QED
    BY <1>3, WorkingBounded, FS_Surjection
<1>5. Cardinality(Own) \in Nat /\ Cardinality(Processing(k)) \in Nat
      /\ IsFiniteSet(Processing(k) \cap Own) /\ Cardinality(Processing(k) \cap Own) \in Nat
  BY <1>4, FS_CardinalityType, FS_Subset
<1>6. /\ IsFiniteSet(Processing(k) \cup Own)
      /\ Cardinality(Processing(k) \cup Own)
           = Cardinality(Processing(k)) + Cardinality(Own) - Cardinality(Processing(k) \cap Own)
  BY <1>4, FS_Union
<1>7. Cardinality(Working(k)) \in Nat /\ Cardinality(Working(k)) <= WindowSizes[k]
  BY WorkingBounded
<1>8. Cardinality(Processing(k) \cup Own) <= Cardinality(Processing(k)) + WindowSizes[k]
  BY <1>1, <1>4, <1>5, <1>6, <1>7
<1> QED
  BY <1>2, <1>6, <1>8

LEMMA ParallelInv == IInv /\ BatchInv => ParallelismBounded
<1> SUFFICES ASSUME IInv, BatchInv PROVE ParallelismBounded
  OBVIOUS
<1> DEFINE n == request.partitions
           Fits(k) == /\ IsFiniteSet(Processing(k))
                      /\ Cardinality(Processing(k)) <= SumOf(WindowSizes, k)
           T == {k \in 0..n : ~Fits(k)}
<1>1. /\ n \in Nat \ {0} /\ SumOf(WindowSizes, n) = request.sliding_window_size
      /\ \A w \in 0..n - 1 : w \in Windows /\ WindowSizes[w] \in Nat
  BY Shares DEF BatchInv
<1>2. \A w \in Windows : w \in Nat
  BY BatchAssumption, FS_CardinalityType
<1>3. ASSUME T # {} PROVE FALSE
  <2>1. PICK k \in T : \A i \in T : k <= i
    <3>1. T \subseteq Nat
      OBVIOUS
    <3> HIDE DEF T
    <3> QED
      BY <1>3, <3>1, LeastNumber
  <2>2. k # 0
    <3>1. Processing(0) = {}
      BY <1>2 DEF Processing
    <3>2. SumOf(WindowSizes, 0) = 0
      BY <1>1, SumStep
    <3> QED
      BY <3>1, <3>2, FS_EmptySet
  <2>3. k - 1 \in 0..n - 1 /\ k - 1 \in 0..n /\ k - 1 \notin T /\ (k - 1) + 1 = k
    BY <1>1, <2>1, <2>2
  <2>4. /\ IsFiniteSet(Processing(k - 1)) /\ Cardinality(Processing(k - 1)) \in Nat
        /\ Cardinality(Processing(k - 1)) <= SumOf(WindowSizes, k - 1)
    BY <2>3, FS_CardinalityType
  <2>5. /\ IsFiniteSet(Processing(k)) /\ Cardinality(Processing(k)) \in Nat
        /\ Cardinality(Processing(k)) <= Cardinality(Processing(k - 1)) + WindowSizes[k - 1]
    <3>1. /\ IsFiniteSet(Processing((k - 1) + 1))
          /\ Cardinality(Processing((k - 1) + 1))
               <= Cardinality(Processing(k - 1)) + WindowSizes[k - 1]
      BY <2>3, <2>4, ProcessingStep
    <3> QED
      BY <2>3, <3>1, FS_CardinalityType
  <2>6. /\ SumOf(WindowSizes, k) = SumOf(WindowSizes, k - 1) + WindowSizes[k - 1]
        /\ SumOf(WindowSizes, k - 1) \in Nat /\ WindowSizes[k - 1] \in Nat
    <3>1. /\ SumOf(WindowSizes, (k - 1) + 1) = SumOf(WindowSizes, k - 1) + WindowSizes[k - 1]
          /\ SumOf(WindowSizes, k - 1) \in Nat
      BY <1>1, <2>3, SumStep
    <3> QED
      BY <1>1, <2>3, <3>1
  <2> QED
    BY <2>4, <2>5, <2>6
<1>4. Fits(n)
  BY <1>1, <1>3
<1>5. {p \in Windows \X Records : child[p[1]][p[2]] = "processing"} = Processing(n)
  <2>1. ASSUME NEW w \in Windows, NEW r \in Records, child[w][r] = "processing" PROVE w < n
    <3>1. r \in Dispatched(w)
      BY <2>1 DEF IInv, Children
    <3>2. w \in 0..n - 1
      BY <3>1, DispatchedInRange
    <3> QED
      BY <1>1, <3>2
  <2> QED
    BY <2>1 DEF Processing
<1>6. ASSUME NEW w \in Windows, pc[w] # "absent" PROVE input[w].sliding_window_size >= 1
  <2>1. Assigned(w)
    BY <1>6 DEF BatchInv
  <2>2. w \in 0..n - 1 /\ ~TooManyPartitions
    BY <1>1, <1>2, <2>1 DEF Assigned, BatchInv
  <2>3. WindowSizes[w] >= 1
    BY <2>2, Shares DEF BatchInv
  <2> QED
    BY <2>1, <2>3 DEF Assigned
<1> QED
  BY <1>1, <1>4, <1>5, <1>6 DEF ParallelismBounded

\* The sizes of the windows add up, as they are the shares of the request's.
LEMMA SharesInv == BatchInv => SharesExact
<1> SUFFICES ASSUME BatchInv PROVE SharesExact
  OBVIOUS
<1> DEFINE n == request.partitions
           given == [w \in 0..n - 1 |-> input[w].sliding_window_size]
<1>1. /\ \A w \in 0..n - 1 : w \in Windows
      /\ SumOf(WindowSizes, n) = request.sliding_window_size
  BY Shares DEF BatchInv
<1>2. bpc = "completed" => bresult = RecordCount
  BY DEF BatchInv
<1>3. ASSUME \A w \in 0..n - 1 : pc[w] # "absent"
      PROVE  SumOf(given, n) = request.sliding_window_size
  <2>1. \A w \in 0..n - 1 : input[w].sliding_window_size = WindowSizes[w]
    BY <1>1, <1>3 DEF BatchInv, Assigned
  <2>2. WindowSizes = [w \in 0..n - 1 |-> WindowSizes[w]]
    BY DEF WindowSizes, DivideIntoPartitions
  <2>3. given = WindowSizes
    BY <2>1, <2>2
  <2> HIDE DEF given
  <2> QED
    BY <1>1, <2>3
<1> QED
  BY <1>2, <1>3 DEF SharesExact

\* The partitions divide the records and the window, whatever the numbers of either: each
\* record is processed by one window, at most as many at a time as the request asked for,
\* the sizes of the windows add up to that, and the result is the number of the records.
THEOREM BatchPartitions == Spec => []PartitionsExact
  BY BatchInvariant, OnceInv, ParallelInv, SharesInv, PTL DEF PartitionsExact

\* The windows' own steps, but for the end of a record's processing, leave what was
\* processed as it is.
LEMMA ProcessedSame ==
  ASSUME IInv, NEW w \in Windows, WindowStep(w), \A r \in Records : ~FinishRecord(w, r)
  PROVE  Processed' = Processed
<1>1. child \in [Windows -> [Records -> {"none", "processing", "reporting", "done"}]]
  BY DEF IInv, TypeOK
<1>2. CASE StartChild(w, NextRecord(w))
  <2> DEFINE r == NextRecord(w)
  <2>1. r \notin Dispatched(w) /\ r \in Records
    <3>1. pc[w] = "dispatching" /\ r < limit[w] /\ limit[w] \in 0..RecordCount
      BY <1>2 DEF StartChild, IInv, TypeOK, Offsets
    <3>2. r \in Nat /\ first[w] \in Nat
      BY WindowTypes DEF IInv
    <3>3. r \in Records
      BY <3>1, <3>2, WindowAssumption DEF Records
    <3>4. Dispatched(w) = first[w]..r - 1
      BY <3>1 DEF Dispatched
    <3> HIDE DEF r
    <3> QED
      BY <3>2, <3>3, <3>4
  <2>2. child[w][r] = "none" /\ child' = [child EXCEPT ![w][r] = "processing"]
    BY <1>2, <2>1 DEF IInv, Children, StartChild
  <2> HIDE DEF r
  <2>3. \A v \in Windows, i \in Records :
          child'[v][i] \in {"reporting", "done"} <=> child[v][i] \in {"reporting", "done"}
    BY <1>1, <2>1, <2>2
  <2> QED
    BY <2>3 DEF Processed
<1>3. ASSUME NEW r \in Records, Report(w, r) PROVE Processed' = Processed
  <2>1. child[w][r] \in {"reporting", "done"} /\ child' = [child EXCEPT ![w][r] = "done"]
    BY <1>3 DEF Report
  <2>2. \A v \in Windows, i \in Records :
          child'[v][i] \in {"reporting", "done"} <=> child[v][i] \in {"reporting", "done"}
    BY <1>1, <2>1
  <2> QED
    BY <2>2 DEF Processed
<1>4. CASE \/ Begin(w) \/ GetRecords(w) \/ ChildStarted(w) \/ PageDone(w) \/ ContinueAsNew(w)
           \/ CompleteWindow(w) \/ \E r \in Records : HandleCompletion(w, r)
  <2>1. child' = child
    BY <1>4 DEF Begin, GetRecords, ChildStarted, PageDone, ContinueAsNew, CompleteWindow,
       HandleCompletion, childVars
  <2> QED
    BY <2>1 DEF Processed
<1> QED
  BY <1>2, <1>3, <1>4 DEF WindowStep, RunStep

\* The end of a record's processing is the only one it has.
LEMMA FinishProcesses ==
  ASSUME IInv, BatchInv, NEW w \in Windows, NEW r \in Records, FinishRecord(w, r)
  PROVE  r \notin Processed /\ Processed' = Processed \cup {r}
<1>1. /\ child \in [Windows -> [Records -> {"none", "processing", "reporting", "done"}]]
      /\ child[w][r] = "processing" /\ child' = [child EXCEPT ![w][r] = "reporting"]
  BY DEF IInv, TypeOK, FinishRecord
<1>2. ASSUME NEW v \in Windows, child[v][r] \in {"reporting", "done"} PROVE FALSE
  <2>1. r \in Dispatched(v) /\ r \in Dispatched(w)
    BY <1>1, <1>2 DEF IInv, Children
  <2>2. v = w
    BY <2>1, DispatchedOnce
  <2> QED
    BY <1>1, <1>2, <2>2
<1>3. ASSUME NEW i \in Records, i # r, NEW v \in Windows PROVE child'[v][i] = child[v][i]
  BY <1>1, <1>3
<1>4. child'[w][r] = "reporting"
  BY <1>1
<1> QED
  BY <1>2, <1>3, <1>4 DEF Processed

\* Every step of the batch is one that RecordBatch allows for, or is none of its business.
LEMMA PromiseStep ==
  IInv /\ BatchInv /\ [Next]_vars => [Promise!Next]_<<Processed, bresult>>
<1> SUFFICES ASSUME IInv, BatchInv, [Next]_vars
             PROVE  Promise!Next \/ UNCHANGED <<Processed, bresult>>
  OBVIOUS
<1>1. ASSUME NEW w \in Windows, NEW r \in Records, FinishRecord(w, r), UNCHANGED batchVars
      PROVE  Promise!Next
  <2>1. r \notin Processed /\ Processed' = Processed \cup {r} /\ bresult' = bresult
    BY <1>1, FinishProcesses DEF batchVars
  <2> QED
    BY <2>1 DEF Promise!Next, Promise!Process, Promise!Records, Records
<1>2. ASSUME NEW w \in Windows, Window(w), \A r \in Records : ~FinishRecord(w, r)
      PROVE  UNCHANGED <<Processed, bresult>>
  BY <1>2, ProcessedSame DEF Window, batchVars
<1>3. CASE Gather
  <2>1. /\ \A w \in 0..request.partitions - 1 : pc[w] = "completed"
        /\ bpc = "gathering" /\ bpc' = "completed" /\ child' = child
    BY <1>3 DEF Gather, Gathered, windowVars, childVars
  <2>2. \A r \in Records : r \in Processed
    BY <2>1, AllDone DEF Processed
  <2>3. Processed = Records /\ Processed' = Processed
    BY <2>1, <2>2 DEF Processed
  <2>4. bresult = NoResult /\ bresult' = RecordCount
    BY <1>3, <2>1, GatherInv DEF BatchInv
  <2> QED
    BY <2>3, <2>4 DEF Promise!Next, Promise!Finish, Promise!Records, Promise!NoResult,
       Records, NoResult
<1>4. ASSUME \/ RefuseRequest \/ AcceptRequest \/ Terminated \/ UNCHANGED vars
             \/ \E w \in Windows : StartPartition(w)
      PROVE  UNCHANGED <<Processed, bresult>>
  <2>1. child' = child /\ bresult' = bresult
    BY <1>4 DEF RefuseRequest, AcceptRequest, Terminated, StartPartition, StartWindow, vars,
       batchVars, windowVars, childVars
  <2> QED
    BY <2>1 DEF Processed
<1>5. ASSUME NEW w \in Windows, Window(w) PROVE Promise!Next \/ UNCHANGED <<Processed, bresult>>
  BY <1>1, <1>2, <1>5 DEF Window
<1> QED
  BY <1>3, <1>4, <1>5 DEF Next

\* Refinement: every record is processed once, and the batch returns their number, once all
\* of them are.
THEOREM ImplementsBatch == Spec => BatchSpec
<1>1. Init => Promise!Init
  BY DEF Init, WindowInit, Processed, NoResult, Promise!Init, Promise!NoResult
<1> QED
  BY <1>1, BatchInvariant, PromiseStep, PTL DEF Spec, BatchSpec, Promise!Spec
=============================================================================
