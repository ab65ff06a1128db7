\* One report of up to two objects: of equal key in two buckets, or the archive copy of one.
SPECIFICATION FairSpec
CONSTANTS
  p1 = p1
  p2 = p2
  b1 = b1
  b2 = b2
  ar = ar
  k1 = k1
  c1 = c1
  c2 = c2
  r1 = r1
  r2 = r2
  Providers <- MCArchiveOnly
  ArchiveProvider = p2
  Segments <- MCSegments
  ArchiveBucket = ar
  Objects <- WithArchive
  Contents = {c1, c2}
  SizeOf <- OtherSize
  Runs = {r1}
  Requests <- NoTwice
  Workers = 2
  MaxWrites = 1
  Absent = Absent
  None = None
CHECK_DEADLOCK FALSE
INVARIANTS
  ComparedCopyStays
PROPERTIES
  AuditIsFinal
  RunsEnd
  ArchiveNeverRewritten
  VerifiedStaysArchived
