\* Two scans for one request, at the same time or one after the other.
SPECIFICATION Spec
CONSTANTS
  m1 = m1
  t1 = t1
  b1 = b1
  b2 = b2
  b9 = b9
  k1 = k1
  k2 = k2
  s1 = s1
  s2 = s2
  Scans = {s1, s2}
  Mappings = {m1}
  Columns = {t1}
  BucketOrder <- OneBucket
  KeyOrder <- MCKeys
  References <- Apart
  Prefixed = {k1, k2}
  Foreign = {}
  Pinned <- RowsPinned
  Batch = 1
  Workers = 1
  Attempts = 1
  MaxChanges = 1
  None = None
SYMMETRY MCSymmetry
CHECK_DEADLOCK FALSE
INVARIANTS
  TypeOK
  StableReferencesKept
  StableFilesMatched
  LeftoversExplained
