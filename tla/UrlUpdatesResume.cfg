\* One page whose stream breaks twice: earlier requests are still worked on, or wait for a thread.
SPECIFICATION FairSpec
CONSTANTS
  g1 = g1
  x1 = x1
  x2 = x2
  y = y
  old = old
  new = new
  other = other
  Pages = {g1}
  MaxAttempts <- MCAttempts
  Streams <- MCStreams
  Threads = 2
  Events <- MCEvents
  Sentinel = Sentinel
  Reports <- MCReports
  TableRows = {x1, x2, y}
  AppRows = {y}
  IdOf <- MCIdOf
  Urls = {old, new, other}
  InitialTables <- MCTables
  Gone = Gone
CHECK_DEADLOCK FALSE
INVARIANTS
  TypeOK
  ExecutorExact
  NothingSkipped
  CompletedIsComplete
PROPERTIES
  ChangedRowsKept
  StreamsEnd
