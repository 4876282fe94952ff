SPECIFICATION Spec
CONSTANTS
  Hosts = {h1, h2}
  Files = {f1}
  MaxCrashes = 0
INVARIANTS
  FileAccessible
