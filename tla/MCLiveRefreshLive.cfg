CONSTANTS
  Mutation = {m1}
  Eval = {e1}
  MaxAttempts = 1
  Budgets <- ReliableBudgets
SPECIFICATION FairSpec
CHECK_DEADLOCK FALSE
PROPERTIES DeferredIsApplied
