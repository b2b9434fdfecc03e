---------------------------- MODULE MCLiveRefresh ----------------------------
(* LiveRefresh on small instances; each run takes one of the budget sets.  *)
EXTENDS LiveRefresh, TLC

None == [k \in Step |-> 0]
One  == [None EXCEPT !["mutation"] = 1]
Two  == [None EXCEPT !["mutation"] = 2]

(* A mutation among external changes.                                      *)
SteadyBudgets ==
  {[One EXCEPT !["write"] = 2, !["failure"] = 1, !["busy"] = 1],
   [One EXCEPT !["write"] = 1, !["operation"] = 1, !["failure"] = 1, !["busy"] = 1]}

(* The same with no failing reads.                                         *)
ReliableBudgets ==
  {[One EXCEPT !["write"] = 1, !["operation"] = 1, !["busy"] = 1]}

(* Whatever else the user can do, one kind at a time.                      *)
UserBudgets ==
  {[One EXCEPT !["write"] = 1, !["operation"] = 1, !["failure"] = 1, ![k] = 1] :
     k \in {"filter", "refresh", "fetch"}}

(* Two mutations, whose confirming reads may overlap.                      *)
OverlapBudgets ==
  {[Two EXCEPT !["write"] = 1, !["failure"] = 1], [Two EXCEPT !["operation"] = 1],
   [Two EXCEPT !["fetch"] = 1]}

(* A Refresh that fails while an operation comes and goes.                 *)
BriefBudgets == {[None EXCEPT !["operation"] = 2, !["refresh"] = 1, !["failure"] = 1]}

(* All of these.                                                           *)
AllBudgets == SteadyBudgets \cup UserBudgets \cup OverlapBudgets \cup BriefBudgets

MCSymmetry == Permutations(Mutation)
=============================================================================
