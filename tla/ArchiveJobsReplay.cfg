\* A page that drops and reopens the stream of a job of two objects.
SPECIFICATION FairSpec
CONSTANTS
  p1 = p1
  p2 = p2
  b1 = b1
  b2 = b2
  b3 = b3
  k1 = k1
  j1 = j1
  j2 = j2
  j3 = j3
  j4 = j4
  d1 = d1
  d2 = d2
  d3 = d3
  Providers = {p1}
  Segments <- MCSegments
  Objects <- TwoObjects
  Reports <- AllReports
  Jobs = {j1}
  Clients = {d1}
  RetainedJobs = 1
  None = None
CHECK_DEADLOCK FALSE
INVARIANTS
  EndedStreamComplete
  DoneCoversReport
PROPERTIES
  StreamsEnd
  OutcomesReplayed
