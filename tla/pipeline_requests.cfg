\* Two downloads of a book, a cancel, a review, a retry and a deletion
SPECIFICATION Spec
CONSTANTS
  d1 = d1
  d2 = d2
  b1 = b1
  Downloads = {d1, d2}
  Books = {b1}
  BookOf <- OneBook
  Ticks = {}
  Startup = startup
  None = None
  MaxCancels = 1
  MaxReviews = 1
  MaxRetries = 1
  MaxDeletes = 1
  MaxCrashes = 0
INVARIANTS
  TypeOK
PROPERTIES
  FailedIsFinal
CONSTRAINT TwoRequests
CHECK_DEADLOCK FALSE
