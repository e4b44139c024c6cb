\* A failed row deleted while the monitor recovers its book
SPECIFICATION Spec
CONSTANTS
  d1 = d1
  d2 = d2
  b1 = b1
  Downloads = {d1}
  Books = {b1}
  BookOf <- OneBook
  Ticks = {}
  Startup = startup
  None = None
  MaxCancels = 0
  MaxReviews = 0
  MaxRetries = 0
  MaxDeletes = 1
  MaxCrashes = 0
INVARIANTS
  ImportedHasFiles
CHECK_DEADLOCK FALSE
