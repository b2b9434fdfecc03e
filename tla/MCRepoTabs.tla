----------------------------- MODULE MCRepoTabs ------------------------------
(* RepoTabs with a repository that can be picked by two of its folders.    *)
EXTENDS RepoTabs

MCSymmetry == Permutations(Call)

MCPath    == {"a", "a/sub", "b"}
MCResolve == [p \in MCPath |-> IF p = "a/sub" THEN "a" ELSE p]
MCStart   == <<"a", "b">>
MCNone    == [k \in Step |-> 0]

(* Revisits, opens and closes, each among the troubles it can meet.        *)
Revisits == [MCNone EXCEPT !["activate"] = 3, !["write"] = 2]
Opens    == [MCNone EXCEPT !["activate"] = 1, !["open"] = 2, !["write"] = 1]
Closes   == [MCNone EXCEPT !["activate"] = 2, !["close"] = 2, !["open"] = 1]

MCBudgets ==
  {[Revisits EXCEPT ![k] = 1] : k \in {"cancel", "failure", "mutation", "filter"}}
  \cup {[Opens EXCEPT ![k] = 1] : k \in {"cancel", "failure", "mutation", "new", "restart"}}
  \cup {[Closes EXCEPT ![k] = 1] : k \in {"cancel", "failure", "new", "write"}}
==============================================================================
