SPECIFICATION FairSpec
CONSTANTS
  Resources = {r1}
  InitResources = {r1}
  Users = {u1, u2}
  Inputs <- MixedInputs
  MaxRuns = 2
  Absent = Absent
  None = None
PROPERTY WaitersServed
