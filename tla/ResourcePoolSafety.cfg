SPECIFICATION Spec
CONSTANTS
  Resources = {r1, r2}
  InitResources = {r1}
  Users = {u1, u2, u3}
  Inputs <- MixedInputs
  MaxRuns = 1
  Absent = Absent
  None = None
SYMMETRY Symmetric
INVARIANTS
  HolderAgreement
  KeyMapConsistent
  LeakOnlyKnownCauses
  ActivitiesExclusive
PROPERTIES
  LockSpec
