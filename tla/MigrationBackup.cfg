\* Two objects of one key and different contents go into one bucket.
SPECIFICATION Spec
CONSTANTS
  p1 = p1
  p2 = p2
  a = a
  b = b
  ar = ar
  z = z
  k = k
  d1 = d1
  d2 = d2
  c1 = c1
  c2 = c2
  Providers <- MCProviders
  Segments <- MCSegments
  Paths <- MCPaths
  Contents = {c1, c2}
  Foreign = {}
  NoAcls <- SomeNoAcls
  InitialStores <- NoCopies
  TenantPlaces = {}
  Copies = {j1}
  Requests <- Collision
  Sessions = {d1}
  Workers = 2
  BatchSize = 1
  Absent = Absent
  None = None
CHECK_DEADLOCK FALSE
PROPERTIES
  DestinationIsBackup
