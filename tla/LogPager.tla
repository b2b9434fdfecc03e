------------------------------ MODULE LogPager ------------------------------
(***************************************************************************)
(* What a paged log reader promises (CommitPager and the class comment of  *)
(* CommitLogReader, packages/git-core/src/commitLog.ts): one sequential    *)
(* scan of the commits 1..History, newest first, handed out page by page.  *)
(* A commit is the number of its place in the walk.                        *)
(***************************************************************************)
EXTENDS Integers, Sequences

CONSTANTS
  History,   \* number of commits the walk produces
  Count      \* page sizes asked for

VARIABLES
  delivered, \* commits handed out so far
  outcome,   \* what the last page was
  source     \* how the walk behind the pager stands

Init ==
  /\ delivered = <<>>
  /\ outcome = "none"
  /\ source = "walking"

(* The walk ends: with all its output, on its own error, or cancelled.     *)
SourceEnds ==
  /\ source = "walking"
  /\ source' \in {"complete", "failed", "cancelled"}
  /\ UNCHANGED <<delivered, outcome>>

(* A page continues where the last one stopped.  It is empty only at the   *)
(* end, and it is the last one only if nothing is left to read.            *)
Page(count) ==
  /\ outcome # "error"
  /\ \E n \in 0..count :
       /\ Len(delivered) + n <= History
       /\ delivered' = [i \in 1..(Len(delivered) + n) |->
                          IF i <= Len(delivered) THEN delivered[i] ELSE i]
       /\ \/ outcome' = "more" /\ n > 0
          \/ /\ outcome' = "done"
             /\ \/ source = "complete" /\ Len(delivered') = History
                \/ source = "failed"
  /\ UNCHANGED source

(* Once a page has failed every later one fails too.  A complete walk does *)
(* not begin to fail.                                                      *)
Fail ==
  /\ source # "complete" \/ outcome = "error"
  /\ outcome' = "error"
  /\ UNCHANGED <<delivered, source>>

Next == SourceEnds \/ (\E count \in Count : Page(count)) \/ Fail

Spec == Init /\ [][Next]_<<delivered, outcome, source>>
=============================================================================
