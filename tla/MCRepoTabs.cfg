CONSTANTS
  Path <- MCPath
  Resolve <- MCResolve
  NoRepo = NoRepo
  Call = {c1, c2}
  Start <- MCStart
  Budgets <- MCBudgets
SPECIFICATION Spec
INVARIANTS TypeOK ScreenIsActiveTabs NothingMissed
PROPERTY CancelRestores
CHECK_DEADLOCK FALSE
SYMMETRY MCSymmetry
