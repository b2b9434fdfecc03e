---------------------------- MODULE MCLiveWorkingTree ----------------------------
(* One file and its .gitignore, so two paths, and a few steps of the       *)
(* environment of two or three kinds at a time.                            *)
EXTENDS LiveWorkingTree

With(steps) == [s \in Step |-> IF s \in DOMAIN steps THEN steps[s] ELSE 0]

MCBudgets == {
  (* a change in an endless stream of events *)
  With([write |-> 1, noise |-> 1]),
  (* changes of the rules *)
  With([rules |-> 2]),
  With([rules |-> 1, write |-> 2]),
  With([rules |-> 1, write |-> 1, failure |-> 1]),
  With([rules |-> 1, write |-> 1, lost |-> 1]),
  (* the application's own saves and rules *)
  With([save |-> 1, write |-> 2, failure |-> 1]),
  With([ignore |-> 1, write |-> 2, filter |-> 1]),
  (* other ways to a read, and the watcher's end *)
  With([index |-> 1, write |-> 2, focus |-> 1, filter |-> 1]),
  With([write |-> 2, focus |-> 1, degrade |-> 1, failure |-> 1])
}
================================================================================
