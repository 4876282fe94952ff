SPECIFICATION Spec
CONSTANTS
  Deltas = 2
  MaxAttempts = 2
INVARIANTS
  TextApart
