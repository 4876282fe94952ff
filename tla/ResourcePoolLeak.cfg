SPECIFICATION Spec
CONSTANTS
  Resources = {r1}
  InitResources = {r1}
  Users = {u1, u2}
  Inputs <- PlainInputs
  MaxRuns = 1
  Absent = Absent
  None = None
INVARIANT NoLeak
