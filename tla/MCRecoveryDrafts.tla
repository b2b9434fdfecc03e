--------------------------- MODULE MCRecoveryDrafts ---------------------------
(* Three drafts where one or two may be kept.                              *)
EXTENDS RecoveryDrafts, TLC

Nothing == [k \in Step |-> 0]

(* Two writes and one kind of trouble; a list among one or two calls; an   *)
(* expired read; a delete that meets another instance's write; and three   *)
(* writes at once.                                                         *)
MCBudgets ==
  {[Nothing EXCEPT !["write"] = 3]} \cup
  {[Nothing EXCEPT !["write"] = 2, ![k] = 1] : k \in {"delete", "crash", "other", "remove", "failure"}}
    \cup {[Nothing EXCEPT !["write"] = 1, !["list"] = 1, ![k] = 1] : k \in {"write", "delete", "other", "age"}}
    \cup {[Nothing EXCEPT !["write"] = 1, !["read"] = 1, !["age"] = 1]}
    \cup {[Nothing EXCEPT !["write"] = 1, !["delete"] = 1, !["other"] = 1]}

MCSymmetry == Permutations(File)
===============================================================================
