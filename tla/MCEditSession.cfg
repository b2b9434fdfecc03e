SPECIFICATION Spec
CONSTANTS
  Content = {c1, c2, c3}
  Budgets <- MCBudgets
SYMMETRY MCSymmetry
INVARIANT TypeOK
 
PROPERTY OverwriteIsAsked
PROPERTY OwnWritesAreNotReported
CHECK_DEADLOCK FALSE
