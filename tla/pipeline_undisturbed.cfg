\* Two downloads of a book, one review, neither batches nor crashes
SPECIFICATION ReplaceSpec
CONSTANTS
  d1 = d1
  d2 = d2
  b1 = b1
  Downloads = {d1, d2}
  Books = {b1}
  BookOf <- OneBook
  Ticks = {}
  Startup = startup
  None = None
  Releases = {1}
  ReleaseOf <- OfOneBook
  MaxReplaces = 1
  MaxCancels = 0
  MaxReviews = 1
  MaxRetries = 0
  MaxDeletes = 0
  MaxCrashes = 0
INVARIANTS
  OneLiveDownload
  ImportOnlyApproved
  SettledBook
  ImportedHasFiles
  ReplacedIsOver
PROPERTIES
  ImportingRowEnds
  WorkflowsEnd
CHECK_DEADLOCK FALSE
