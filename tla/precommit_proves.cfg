\* One book, and the budgets of MCMergeQueue
SPECIFICATION MergeSpec
CONSTANTS
  MergeBooks = {1}
  Capacities = {1}
  MergeBudgets <- mergeBudgets
INVARIANTS
  PreCommitProves
CHECK_DEADLOCK FALSE
