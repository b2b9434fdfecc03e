SPECIFICATION Spec
CONSTANTS
  f1 = f1
  f2 = f2
  f3 = f3
  File = {f1, f2, f3}
  Cap = 1
  Budgets <- MCBudgets
SYMMETRY MCSymmetry
INVARIANTS TypeOK KeptInOrder 
 
CHECK_DEADLOCK FALSE
