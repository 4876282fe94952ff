SPECIFICATION FairSpec
CONSTANTS
  Windows = {0, 1, 2}
  RecordCount = 3
  Sizes = {1, 2, 3}
  MaxSends = 2
INVARIANTS
  StartedOnce
  ProgressExact
  NoCompletionLost
  PartitionsExact
PROPERTIES
  BatchSpec
  WindowsSpec
  BatchEnds
