SPECIFICATION Spec
CONSTANTS
  Messages = {m1, m2, m3}
  Names = {n1}
  MaxRounds = 1
  None = None
  MaxInFlight = 2
SYMMETRY Symmetric
INVARIANTS
  OwnResponse
