SPECIFICATION Spec
CONSTANTS
  Tracked = {t1, t2}
  Untracked = {u1}
  Text = {a, b}
  Line = {l1, l2}
  Budgets <- MCSelection
SYMMETRY MCSymmetry
INVARIANT ShowsSelectedFile
CHECK_DEADLOCK FALSE
