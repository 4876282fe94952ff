----------------------------- MODULE RecordBatch -----------------------------
(***************************************************************************)
(* What batch_sliding_window promises: every record is processed, and the  *)
(* batch returns their number, once all of them are.  A refused input      *)
(* leaves it without a result.                                             *)
(***************************************************************************)
EXTENDS Naturals

CONSTANT RecordCount

VARIABLES processed, result

Records == 0..RecordCount - 1
NoResult == RecordCount + 1

Init == processed = {} /\ result = NoResult

Process == /\ \E r \in Records \ processed : processed' = processed \cup {r}
           /\ result' = result

Finish == /\ processed = Records /\ result = NoResult
          /\ result' = RecordCount
          /\ processed' = processed

Next == Process \/ Finish

Spec == Init /\ [][Next]_<<processed, result>>
=============================================================================
