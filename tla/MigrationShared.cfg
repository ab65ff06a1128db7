\* Copies within a provider and across, restores of two rows into one bucket, two sessions.
SPECIFICATION Spec
CONSTANTS
  p1 = p1
  p2 = p2
  a = a
  b = b
  ar = ar
  z = z
  k = k
  d1 = d1
  d2 = d2
  c1 = c1
  c2 = c2
  Providers <- MCProviders
  Segments <- MCSegments
  Paths <- MCPaths
  Contents = {c1, c2}
  Foreign = {}
  NoAcls <- SomeNoAcls
  InitialStores <- MCStores
  TenantPlaces <- TenantsOwn
  Copies = {j1}
  Requests <- MCRequests
  Sessions = {d1, d2}
  Workers = 2
  BatchSize = 1
  Absent = Absent
  None = None
SYMMETRY MCSymmetry
CHECK_DEADLOCK FALSE
INVARIANTS
  TypeOK
  ReportedDeletedIsGone
PROPERTIES
  KeptDestination
  SourcesUntouched
  PublicUnlessNoAcls
  DeletesOnlyMigrated
