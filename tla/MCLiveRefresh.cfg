CONSTANTS
  Mutation = {m1, m2}
  Eval = {e1}
  MaxAttempts = 1
  Budgets <- AllBudgets
SYMMETRY MCSymmetry
SPECIFICATION Spec
CHECK_DEADLOCK FALSE
INVARIANTS TypeOK  GatesClose SelfWritesAreSilent
 
