\* The import batch beside the inline gate
SPECIFICATION Spec
CONSTANTS
  d1 = d1
  d2 = d2
  b1 = b1
  Downloads = {d1}
  Books = {b1}
  BookOf <- OneBook
  Ticks = {tick}
  Startup = startup
  None = None
  MaxCancels = 0
  MaxReviews = 0
  MaxRetries = 0
  MaxDeletes = 0
  MaxCrashes = 0
PROPERTIES
  NeverReplacedUnapproved
CHECK_DEADLOCK FALSE
