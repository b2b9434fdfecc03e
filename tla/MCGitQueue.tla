----------------------------- MODULE MCGitQueue -----------------------------
(* A small instance of GitQueue for TLC: a task, a retried `git add' and a *)
(* cancellable read.  They are told apart by their roles, so there is no   *)
(* symmetry to use.                                                        *)
EXTENDS GitQueue

CONSTANTS task, add, read
=============================================================================
