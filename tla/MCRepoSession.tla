--------------------------- MODULE MCRepoSession ---------------------------
(* A small instance of RepoSession for TLC: two cancellable attempts, one  *)
(* caller outside an attempt, one network operation, and three calls of    *)
(* open() or dispose(), so that a plain open or a teardown fits between    *)
(* any two steps of the attempts.                                          *)
EXTENDS RepoSession, TLC

(* The attempts differ only in name, and no property names one.            *)
MCSymmetry == Permutations(Request)
=============================================================================
