\* A tenant writes the object between the last HEAD and the deletion.
SPECIFICATION FairSpec
CONSTANTS
  p1 = p1
  p2 = p2
  b1 = b1
  b2 = b2
  ar = ar
  k1 = k1
  c1 = c1
  c2 = c2
  r1 = r1
  r2 = r2
  Providers <- MCArchiveOnly
  ArchiveProvider = p2
  Segments <- MCSegments
  ArchiveBucket = ar
  Objects <- OneObject
  Contents = {c1, c2}
  SizeOf <- SameSize
  Runs = {r1}
  Requests <- Singles
  Workers = 1
  MaxWrites = 1
  Absent = Absent
  None = None
CHECK_DEADLOCK FALSE
PROPERTIES
  EveryDeletedVersionArchived
