\* A cancel while the gate holds the row
SPECIFICATION Spec
CONSTANTS
  d1 = d1
  d2 = d2
  b1 = b1
  Downloads = {d1}
  Books = {b1}
  BookOf <- OneBook
  Ticks = {}
  Startup = startup
  None = None
  MaxCancels = 1
  MaxReviews = 0
  MaxRetries = 0
  MaxDeletes = 0
  MaxCrashes = 0
PROPERTIES
  CancelledStaysFailed
CHECK_DEADLOCK FALSE
