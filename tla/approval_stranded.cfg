\* An approval while another job of the book is active
SPECIFICATION FairSpec
CONSTANTS
  d1 = d1
  d2 = d2
  b1 = b1
  Downloads = {d1, d2}
  Books = {b1}
  BookOf <- OneBook
  Ticks = {}
  Startup = startup
  None = None
  MaxCancels = 0
  MaxReviews = 1
  MaxRetries = 1
  MaxDeletes = 0
  MaxCrashes = 0
PROPERTIES
  ImportingRowEnds
CHECK_DEADLOCK FALSE
