\* Swap: two names, two writes, two crashes and two failing file operations.
\* Merges: three books, and the budgets of MCMergeQueue.
\* Submissions: three items, two of them of one title, and a restart and a fault or another user.
\* Refreshes: two connectors, three items, batches of at most two.
SPECIFICATION PartsSpec
CONSTANTS
  a = a
  b = b
  Names <- TwoNames
  None = None
  MaxWrites = 2
  MaxCrashes = 2
  MaxFailures = 2
  MergeBooks = {1, 2, 3}
  Capacities = {1, 2}
  MergeBudgets <- mergeBudgets
  Submissions = {1, 2}
  Ordinals <- ordinals
  Title <- title
  SubmissionBudgets <- submissionBudgets
  Connectors = {1, 2}
  MaxBatchItems = 2
  MaxOffers = 3
INVARIANTS
  TypeOK
  NothingLost
  NeverAmbiguous
  SwapIsAtomic
  OneEnding
  SlotsAreUsed
  RequeueIsSafe
  OneJobPerItem
  CompletedAddsUp
  OneFlushAtATime
PROPERTIES
  SweepConverges
  MergesEnd
  SubmissionsComplete
  QuietAfterStop
  BatchesSettle
CHECK_DEADLOCK FALSE
