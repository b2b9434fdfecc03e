SPECIFICATION Spec
CONSTANTS
  File = {f1}
  MaxPending = 1
  MaxPaths = 1
  MaxEvents = 2
  Budgets <- MCBudgets
INVARIANT TypeOK
 
CHECK_DEADLOCK FALSE
