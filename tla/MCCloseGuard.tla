------------------------------ MODULE MCCloseGuard ------------------------------
(* Every step of the user and the system, twice where the order matters.   *)
EXTENDS CloseGuard

With(steps) == [s \in Step |-> IF s \in DOMAIN steps THEN steps[s] ELSE 0]

MCBudgets == {
  With([edit |-> 3, close |-> 4, hang |-> 1]),
  With([edit |-> 2, close |-> 3, quit |-> 2, hang |-> 1]),
  With([edit |-> 2, close |-> 3, gone |-> 2, hang |-> 1]),
  With([edit |-> 3, close |-> 3, ending |-> 2, veto |-> 1]),
  With([edit |-> 2, close |-> 2, quit |-> 1, veto |-> 2])
}
================================================================================
