SPECIFICATION Spec
CONSTANTS
  Nodes = {n1, n2}
  Jobs = {j1}
  Requests = {h1}
  Sizes = {1}
  MaxRuns = 2
  Unassigned = Unassigned
  Bad = Bad
  Absent = Absent
INVARIANT GrantsKept
