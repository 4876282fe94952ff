SPECIFICATION Spec
CONSTANTS
  Nodes = {n1, n2, n3}
  Jobs = {j1, j2}
  Requests = {h1, h2, h3}
  Sizes = {1, 2}
  MaxRuns = 2
  Unassigned = Unassigned
  Bad = Bad
  Absent = Absent
  r1 = r1
  r2 = r2
  r3 = r3
  Additions = {r1, r2, r3}
  Price <- Prices
  MaxCarts = 2
  Count = 6
  KeepLast = 1
  TruncateEvery = 2
  Stages = 4
  PHASE_1_EVENTS = 2
  Deltas = 2
  MaxAttempts = 2
  Rounds = 2
  Clients = {c1, c2}
  Values = {v1, v2}
  Large = {v2}
  NumPayloads = 2
  TTL = 2
  MaxTime = 3
  Users = {u1, u2}
  NoUser = NoUser
  Greetings = {w1, w2}
  num_delay_hour = 2
  MaxHours = 4
  MaxObjects = 3
  PageSize = 2
  maximum_attempts = 2
SYMMETRY Symmetric
INVARIANTS
  CriticalSectionsAtomic
  GrantsStable
  OrderExact
  EventsAccounted
  ShownOnce
  VersionsCompatible
  RoundTrip
  UserOfCall
  Landed
PROPERTIES
  LostOnlyByTTL
