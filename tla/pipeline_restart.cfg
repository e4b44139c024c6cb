\* One download, the batches and a crash at any step
SPECIFICATION FairSpec
CONSTANTS
  d1 = d1
  d2 = d2
  b1 = b1
  Downloads = {d1}
  Books = {b1}
  BookOf <- OneBook
  Ticks = {tick}
  Startup = startup
  None = None
  MaxCancels = 0
  MaxReviews = 0
  MaxRetries = 0
  MaxDeletes = 0
  MaxCrashes = 1
INVARIANTS
  OneGatePerRow
  CheckingHasGate
  ProcessingHasWorker
PROPERTIES
  JobsEnd
  CompletedIsResolved
CHECK_DEADLOCK FALSE
