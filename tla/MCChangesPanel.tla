----------------------------- MODULE MCChangesPanel -----------------------------
(* Two tracked files and an untracked one, with two layouts of two lines.  *)
EXTENDS ChangesPanel, TLC

With(steps) == [s \in Step |-> IF s \in DOMAIN steps THEN steps[s] ELSE 0]

MCBudgets == {
  With([tick |-> 2, select |-> 2]),
  With([tick |-> 2, edit |-> 1]),
  With([tick |-> 1, discard |-> 1, edit |-> 1, select |-> 1]),
  With([tick |-> 2, failure |-> 1, discard |-> 1]),
  With([tick |-> 1, list |-> 1, index |-> 1]),
  With([list |-> 2, failure |-> 1, select |-> 1]),
  With([edit |-> 1, index |-> 1, failure |-> 1]),
  With([discard |-> 1, edit |-> 2])
}
MCSelection == {With([tick |-> 1, select |-> 1])}
MCSymmetry  == Permutations(Tracked) \cup Permutations(Text) \cup Permutations(Line)
================================================================================
