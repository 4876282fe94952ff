SPECIFICATION FairSpec
CONSTANTS
  MaxPrompts = 7
  ContinueAfter = 6
  Messages = {m1, m2, m3}
  MaxInFlight = 3
  Names = {n1}
  MaxRounds = 1
  None = None
  Updates = {u1, u2, u3}
  Languages = {EN, AR, FR, XX}
  Initial = {EN}
  Remote = {AR, FR}
  English = EN
  MaxTime = 3
  WakeUpTime = 2
  MaxSignals = 2
  MaxRuns = 2
  Absent = Absent
  Nodes = {k1, k2}
  Jobs = {j1}
  Requests = {h1, h2}
  Unassigned = Unassigned
  Bad = Bad
  Hosts = {host1}
  Files = {f1, f2}
  MaxCrashes = 2
  Variables = {"x", "y"}
  Registry <- AllSamples
INVARIANTS
  SameAsSequential
  PromptsInContext
  AnswersFresh
  LanguageInOrder
  NotEarly
  FilesInPlace
  ReturnAfterHandlers
  CompensatedIffRaised
  ExitInOrder
  Served
  ClientsSucceed
PROPERTIES
  AcceptedPromptsAnswered
  UpdatesAnswered
  WorkflowsEnd
  EndsUnlessUnreported
  ExitEnds
  ClientsEnd
