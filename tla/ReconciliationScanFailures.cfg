\* One scan of two buckets, one in another region, with failing reads.
SPECIFICATION FairSpec
CONSTANTS
  m1 = m1
  t1 = t1
  b1 = b1
  b2 = b2
  b9 = b9
  k1 = k1
  k2 = k2
  s1 = s1
  s2 = s2
  Scans = {s1}
  Mappings = {m1}
  Columns = {t1}
  BucketOrder <- TwoBuckets
  KeyOrder <- MCKeys
  References <- AllKinds
  Prefixed = {k2}
  Foreign = {b2}
  Pinned <- FilesPinned
  Batch = 1
  Workers = 2
  Attempts = 2
  MaxChanges = 1
  None = None
CHECK_DEADLOCK FALSE
INVARIANTS
  StableReferencesKept
  StableFilesMatched
PROPERTIES
  ScansEnd
