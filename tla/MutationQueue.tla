--------------------------- MODULE MutationQueue ---------------------------
(***************************************************************************)
(* What the mutation queue of git-core promises its callers (the comments  *)
(* of enqueueGitTask and runInMutationQueue, gitProcess.ts): mutations     *)
(* take effect one call at a time, in the order of the calls; a call that  *)
(* is over has an outcome its caller can believe; and only a call that     *)
(* timed out may still change the repository after it is over.             *)
(***************************************************************************)
EXTENDS Integers, Sequences

CONSTANTS
  Mutation,   \* the queued calls
  Steps       \* [Mutation -> Nat], the git commands each one runs

VARIABLES
  queue,      \* the calls, in the order they were made
  done,       \* how many commands of each call have taken effect
  outcome     \* how each call ended, "none" until then

Init ==
  /\ queue = <<>>
  /\ done = [c \in Mutation |-> 0]
  /\ outcome = [c \in Mutation |-> "none"]

Called(c) == \E i \in DOMAIN queue : queue[i] = c

(* c is the first call that is not over.                                   *)
Turn(c) ==
  /\ outcome[c] = "none"
  /\ \E i \in DOMAIN queue :
       /\ queue[i] = c
       /\ \A j \in 1..(i - 1) : outcome[queue[j]] # "none"

Enqueue(c) ==
  /\ ~Called(c)
  /\ queue' = Append(queue, c)
  /\ UNCHANGED <<done, outcome>>

(* The next command of c takes effect, once: in its turn, or late.         *)
Effect(c) ==
  /\ Turn(c) \/ outcome[c] = "timeout"
  /\ done[c] < Steps[c]
  /\ done' = [done EXCEPT ![c] = @ + 1]
  /\ UNCHANGED <<queue, outcome>>

(* Success means that all of it happened; a refused lock or a lost race    *)
(* that the command it reports did nothing.                                *)
Settle(c) ==
  /\ Turn(c)
  /\ \E r \in {"ok", "failed", "locked", "raced", "timeout"} :
       /\ r = "ok" => done[c] = Steps[c]
       /\ r \in {"locked", "raced"} => done[c] < Steps[c]
       /\ outcome' = [outcome EXCEPT ![c] = r]
  /\ UNCHANGED <<queue, done>>

Next == \E c \in Mutation : Enqueue(c) \/ Effect(c) \/ Settle(c)

Spec == Init /\ [][Next]_<<queue, done, outcome>>
=============================================================================
