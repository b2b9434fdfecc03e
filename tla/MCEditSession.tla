----------------------------- MODULE MCEditSession -----------------------------
(* Three contents; the user's and the outside world's steps are budgeted.  *)
EXTENDS EditSession, TLC

With(steps) == [s \in Step |-> IF s \in DOMAIN steps THEN steps[s] ELSE 0]

MCBudgets == {
  With([type |-> 2, flush |-> 1, save |-> 1]),
  With([type |-> 1, outside |-> 2, save |-> 1]),
  With([type |-> 1, outside |-> 2, leave |-> 1]),
  With([type |-> 2, leave |-> 1, stay |-> 1]),
  With([type |-> 1, save |-> 1, leave |-> 1, failure |-> 1]),
  With([type |-> 2, save |-> 1, timeout |-> 1]),
  With([type |-> 1, outside |-> 1, compose |-> 1])
}
MCSymmetry == Permutations(Content)
================================================================================
