------------------------------ MODULE GitQueue ------------------------------
(***************************************************************************)
(* packages/git-core/src/gitProcess.ts: how one git command is spawned,    *)
(* bounded in time, cancelled, retried and, when it changes the            *)
(* repository, queued behind the other changes.                            *)
(*                                                                         *)
(* A call is one promise handed to the rest of git-core.  A mutation goes  *)
(* through enqueueGitTask (RunOptions.mutatesRepository, or                *)
(* runInMutationQueue); a task is a mutation of two commands, a check and  *)
(* the change it permits, run in one slot of the queue; every other call   *)
(* is a read and starts at once.  Each attempt of a command has a git      *)
(* process, which belongs to the operating system: it may hang, ignore     *)
(* SIGTERM, leave index.lock behind when it is killed, or leave a          *)
(* descendant that keeps its output open.                                  *)
(***************************************************************************)
EXTENDS Integers, Sequences

CONSTANTS
  Call,         \* the calls made
  Mutation,     \* those that are queued
  Task,         \* mutations that check before they act
  Retrying,     \* mutations whose verb is in LOCK_RETRY_VERBS
  Cancellable,  \* reads that pass a signal, and so have no timeout
  Daemon,       \* calls whose git may leave a descendant on its pipes
  MaxRetries    \* length of lockRetryDelaysMs and indexRetryDelaysMs

ASSUME CallsAssumption ==
  /\ Mutation \subseteq Call
  /\ Task \subseteq Mutation
  /\ Retrying \subseteq Mutation
  /\ Cancellable \subseteq Call \ Mutation
  /\ Daemon \subseteq Call
  /\ MaxRetries \in Nat
  /\ "free" \notin Call /\ "external" \notin Call /\ "stale" \notin Call

VARIABLES
  queue,        \* every mutation in the order of its promise chain
  at,           \* where the call is
  result,       \* what its promise settled with
  done,         \* commands of the call that have taken effect
  attempt,      \* retries of the present command
  proc,         \* the git process of the last attempt, or how it exited
  held,         \* a descendant keeps the pipes of that process open
  aborted,      \* the abort signal, and who fired it
  escalation,   \* the SIGKILL timer of armEscalation is armed
  lock,         \* who holds .git/index.lock
  breaker       \* Date.now() < lockBreakerUntil

callVars == <<queue, at, result, attempt>>
procVars == <<done, proc, held, lock>>
abortVars == <<aborted, escalation>>
vars == <<callVars, procVars, abortVars, breaker>>

Running == {"started", "holding", "wrote"}
Exited == {"ok", "failed", "locked", "raced", "killed"}
Results == {"none", "ok", "failed", "locked", "raced", "timeout", "cancelled"}

TypeOK ==
  /\ queue \in Seq(Mutation)
  /\ at \in [Call -> {"idle", "waiting", "running", "sleeping", "settled"}]
  /\ result \in [Call -> Results]
  /\ done \in [Call -> 0..2]
  /\ attempt \in [Call -> 0..MaxRetries]
  /\ proc \in [Call -> {"none"} \cup Running \cup Exited]
  /\ held \in [Call -> BOOLEAN]
  /\ aborted \in [Call -> {"no", "timeout", "cancelled"}]
  /\ escalation \in [Call -> BOOLEAN]
  /\ lock \in Call \cup {"free", "external", "stale"}
  /\ breaker \in BOOLEAN

Commands(c) == IF c \in Task THEN 2 ELSE 1

(* The command in progress is the one that takes index.lock and writes.    *)
Writing(c) == c \in Mutation /\ done[c] = Commands(c) - 1

Alive(c) == proc[c] \in Running
Aborted(c) == aborted[c] # "no"

Init ==
  /\ queue = <<>>
  /\ at = [c \in Call |-> "idle"]
  /\ result = [c \in Call |-> "none"]
  /\ done = [c \in Call |-> 0]
  /\ attempt = [c \in Call |-> 0]
  /\ proc = [c \in Call |-> "none"]
  /\ held = [c \in Call |-> FALSE]
  /\ aborted = [c \in Call |-> "no"]
  /\ escalation = [c \in Call |-> FALSE]
  /\ lock = "free"
  /\ breaker = FALSE

(* The promise settles, and the locals of its retry loop are gone.         *)
Settle(c, r) ==
  /\ at' = [at EXCEPT ![c] = "settled"]
  /\ result' = [result EXCEPT ![c] = r]
  /\ attempt' = [attempt EXCEPT ![c] = 0]

-----------------------------------------------------------------------------
(* Starting a call.                                                        *)

(* git could not be started; a caller who has cancelled hears only that.   *)
NotStarted(c) == IF aborted[c] = "cancelled" THEN "cancelled" ELSE "failed"

(* runGitTask: spawnGitRaw, or the failure to start git at all.            *)
Spawn(c, tries) ==
  \/ /\ at' = [at EXCEPT ![c] = "running"]
     /\ proc' = [proc EXCEPT ![c] = "started"]
     /\ attempt' = [attempt EXCEPT ![c] = tries]
     /\ UNCHANGED result
  \/ /\ Settle(c, NotStarted(c))
     /\ UNCHANGED proc

(* enqueueGitTask chains a mutation on gitQueueTail ...                    *)
Enqueue(c) ==
  /\ c \in Mutation
  /\ at[c] = "idle"
  /\ at' = [at EXCEPT ![c] = "waiting"]
  /\ queue' = Append(queue, c)
  /\ UNCHANGED <<result, attempt, procVars, abortVars, breaker>>

(* A faulty variant, for a mutant: a call that fails never advances it.    *)
TurnAfterSuccess(c) ==
  \E i \in DOMAIN queue :
    /\ queue[i] = c
    /\ \A j \in 1..(i - 1) : result[queue[j]] = "ok"

(* ... which has settled, with a result or a failure, when every earlier   *)
(* call has ...                                                            *)
Turn(c) ==
  \E i \in DOMAIN queue :
    /\ queue[i] = c
    /\ \A j \in 1..(i - 1) : at[queue[j]] = "settled"

(* ... and then runs it.                                                   *)
Start(c) ==
  /\ at[c] = "waiting"
  /\ Turn(c)
  /\ Spawn(c, 0)
  /\ UNCHANGED <<queue, done, held, lock, abortVars, breaker>>

(* A read does not wait.                                                   *)
Read(c) ==
  /\ c \notin Mutation
  /\ at[c] = "idle"
  /\ Spawn(c, 0)
  /\ UNCHANGED <<queue, done, held, lock, abortVars, breaker>>

-----------------------------------------------------------------------------
(* The git process.                                                        *)

(* The exit makes an armed SIGKILL timer do nothing.                       *)
Exit(c, how) ==
  /\ proc' = [proc EXCEPT ![c] = how]
  /\ escalation' = [escalation EXCEPT ![c] = FALSE]
  /\ \E open \in {FALSE} \cup (IF c \in Daemon /\ at[c] = "running"
                               THEN {TRUE} ELSE {}) :
       held' = [held EXCEPT ![c] = open]

(* git creates index.lock before it changes anything ...                   *)
GitLocks(c) ==
  /\ proc[c] = "started"
  /\ Writing(c)
  /\ lock = "free"
  /\ lock' = c
  /\ proc' = [proc EXCEPT ![c] = "holding"]
  /\ UNCHANGED <<callVars, done, held, abortVars, breaker>>

(* ... and gives up at once when the file exists.                          *)
GitFindsLock(c) ==
  /\ proc[c] = "started"
  /\ Writing(c)
  /\ lock # "free"
  /\ Exit(c, "locked")
  /\ UNCHANGED <<callVars, done, lock, aborted, breaker>>

(* The new index replaces the old one.                                     *)
GitWrites(c) ==
  /\ proc[c] = "holding"
  /\ done' = [done EXCEPT ![c] = @ + 1]
  /\ lock' = "free"
  /\ proc' = [proc EXCEPT ![c] = "wrote"]
  /\ UNCHANGED <<callVars, held, abortVars, breaker>>

(* What follows the write (a hook, the worktree) decides the exit code.    *)
GitFinishes(c) ==
  /\ proc[c] = "wrote"
  /\ Exit(c, "ok") \/ Exit(c, "failed")
  /\ UNCHANGED <<callVars, done, lock, aborted, breaker>>

(* A reading command; on Windows it may hit the renaming of the index.     *)
GitReads(c) ==
  /\ proc[c] = "started"
  /\ ~Writing(c)
  /\ \/ /\ Exit(c, "ok")
        /\ done' = [done EXCEPT ![c] = @ + 1]
     \/ /\ Exit(c, "raced")
        /\ UNCHANGED done
  /\ UNCHANGED <<callVars, lock, aborted, breaker>>

Released(c) == IF lock = c THEN {"free", "stale"} ELSE {lock}

(* It fails before it has changed anything, or crashes on its lock.        *)
GitFails(c) ==
  /\ proc[c] \in {"started", "holding"}
  /\ Exit(c, "failed")
  /\ lock' \in Released(c)
  /\ UNCHANGED <<callVars, done, aborted, breaker>>

(* It dies of the SIGTERM an abort sends; git may trap it instead.         *)
GitTerminates(c) ==
  /\ escalation[c]
  /\ Exit(c, "killed")
  /\ lock' \in Released(c)
  /\ UNCHANGED <<callVars, done, aborted, breaker>>

(* The descendant on its pipes goes away.                                  *)
DescendantEnds(c) ==
  /\ held[c]
  /\ held' = [held EXCEPT ![c] = FALSE]
  /\ UNCHANGED <<callVars, done, proc, lock, abortVars, breaker>>

(* Another program uses the index: an editor, a terminal.                  *)
ExternalLocks ==
  /\ lock = "free"
  /\ lock' = "external"
  /\ UNCHANGED <<callVars, done, proc, held, abortVars, breaker>>

ExternalUnlocks ==
  /\ lock = "external"
  /\ lock' = "free"
  /\ UNCHANGED <<callVars, done, proc, held, abortVars, breaker>>

-----------------------------------------------------------------------------
(* Timeout and cancellation.                                               *)

(* Faulty variant: the error handler's clear() stops the timer.            *)
EscalationCleared(c) == FALSE

(* The abort event reaches two listeners.  armEscalation's arms a timer,   *)
(* which re-checks for an exit before it kills.  spawn's, removed when the *)
(* process exits, sends SIGTERM and emits "error", which rejects the call  *)
(* without waiting for the process.                                        *)
EscalationOnAbort(c) == Alive(c)

AbortEvent(c, reason) ==
  /\ aborted' = [aborted EXCEPT ![c] = reason]
  /\ escalation' = [escalation EXCEPT ![c] = EscalationOnAbort(c)]
  /\ IF Alive(c)
     THEN Settle(c, reason)
     ELSE UNCHANGED <<at, result, attempt>>
  /\ UNCHANGED <<queue, procVars, breaker>>

(* armTimeout: a call without a signal of its own gets a timer, for each   *)
(* attempt.                                                                *)
TimeoutFires(c) ==
  /\ at[c] = "running"
  /\ c \notin Cancellable
  /\ ~Aborted(c)
  /\ AbortEvent(c, "timeout")

(* The caller's signal, at any moment of the call.                         *)
Cancel(c) ==
  /\ c \in Cancellable
  /\ ~Aborted(c)
  /\ \/ /\ at[c] = "running"
        /\ AbortEvent(c, "cancelled")
     \/ /\ at[c] = "sleeping"
        /\ aborted' = [aborted EXCEPT ![c] = "cancelled"]
        /\ UNCHANGED <<callVars, procVars, escalation, breaker>>

(* An attempt spawned with a signal that has fired is aborted right after. *)
AbortedAtSpawn(c) ==
  /\ at[c] = "running"
  /\ Aborted(c)
  /\ Alive(c)
  /\ AbortEvent(c, aborted[c])

(* The grace period is over: SIGKILL, which cannot be trapped.             *)
EscalationFires(c) ==
  /\ escalation[c]
  /\ Exit(c, "killed")
  /\ lock' = IF lock = c THEN "stale" ELSE lock
  /\ UNCHANGED <<callVars, done, aborted, breaker>>

-----------------------------------------------------------------------------
(* The "close" event: the process has exited and its pipes are closed.     *)

Closing(c) ==
  /\ at[c] = "running"
  /\ ~Alive(c)
  /\ ~held[c]

(* "close" with the flag of an abort must not look like a plain exit.      *)
CloseAborted(c) ==
  /\ Closing(c)
  /\ Aborted(c)
  /\ Settle(c, aborted[c])
  /\ UNCHANGED <<queue, procVars, abortVars, breaker>>

(* The command succeeded: the next one of a task, or the end of the call.  *)
(* A retried verb that succeeds clears the breaker.                        *)
CloseDone(c) ==
  /\ Closing(c)
  /\ ~Aborted(c)
  /\ proc[c] = "ok"
  /\ IF done[c] < Commands(c)
     THEN /\ Spawn(c, 0)
          /\ UNCHANGED breaker
     ELSE /\ Settle(c, "ok")
          /\ breaker' = (breaker /\ c \notin Retrying)
          /\ UNCHANGED proc
  /\ UNCHANGED <<queue, done, held, lock, abortVars>>

(* Faulty variants: every failure is retried; retries have no end.         *)
AnyFailure(c) == c \in Retrying /\ proc[c] \in {"locked", "failed"}
RetryForEver(c) == proc[c] = "raced" \/ (c \in Retrying /\ proc[c] = "locked")

(* retryOnIndexLockContention and retryReadOnlyIndexRace retry only what   *)
(* cannot have begun to write.                                             *)
Contended(c) == c \in Retrying /\ proc[c] = "locked"
Retryable(c) ==
  /\ attempt[c] < MaxRetries
  /\ proc[c] = "raced" \/ (Contended(c) /\ ~breaker)

CloseRetry(c) ==
  /\ Closing(c)
  /\ ~Aborted(c)
  /\ Retryable(c)
  /\ at' = [at EXCEPT ![c] = "sleeping"]
  /\ attempt' = [attempt EXCEPT ![c] = @ + 1]
  /\ UNCHANGED <<queue, result, procVars, abortVars, breaker>>

(* The last contended attempt trips the breaker.                           *)
CloseFailed(c) ==
  /\ Closing(c)
  /\ ~Aborted(c)
  /\ proc[c] # "ok"
  /\ ~Retryable(c)
  /\ Settle(c, proc[c])
  /\ breaker' = (breaker \/ Contended(c))
  /\ UNCHANGED <<queue, procVars, abortVars>>

(* The backoff is over; nothing looks at the signal before the next spawn. *)
Wake(c) ==
  /\ at[c] = "sleeping"
  /\ Spawn(c, attempt[c])
  /\ UNCHANGED <<queue, done, held, lock, abortVars, breaker>>

BreakerExpires ==
  /\ breaker
  /\ breaker' = FALSE
  /\ UNCHANGED <<callVars, procVars, abortVars>>

-----------------------------------------------------------------------------
Caller(c) == Enqueue(c) \/ Read(c) \/ Cancel(c)

Git(c) ==
  \/ GitLocks(c) \/ GitFindsLock(c) \/ GitWrites(c) \/ GitFinishes(c)
  \/ GitReads(c) \/ GitFails(c) \/ GitTerminates(c) \/ DescendantEnds(c)

(* What Node's event loop runs by itself.                                  *)
Loop(c) ==
  \/ Start(c) \/ TimeoutFires(c) \/ AbortedAtSpawn(c) \/ EscalationFires(c)
  \/ CloseAborted(c) \/ CloseDone(c) \/ CloseRetry(c) \/ CloseFailed(c)
  \/ Wake(c)

Next ==
  \/ \E c \in Call : Caller(c) \/ Git(c) \/ Loop(c)
  \/ ExternalLocks \/ ExternalUnlocks \/ BreakerExpires

Spec == Init /\ [][Next]_vars

(* Timers fire and promises settle; git, its descendants, other programs   *)
(* and the callers owe nothing.                                            *)
FairSpec ==
  /\ Spec
  /\ \A c \in Call :
       /\ WF_vars(Start(c))
       /\ WF_vars(TimeoutFires(c))
       /\ WF_vars(AbortedAtSpawn(c))
       /\ WF_vars(EscalationFires(c))
       /\ WF_vars(CloseAborted(c) \/ CloseDone(c) \/ CloseRetry(c)
                   \/ CloseFailed(c))
       /\ WF_vars(Wake(c))

-----------------------------------------------------------------------------
(* Properties.                                                             *)

Queue == INSTANCE MutationQueue WITH
  Steps <- [c \in Mutation |-> Commands(c)],
  done <- [c \in Mutation |-> done[c]],
  outcome <- [c \in Mutation |-> result[c]]

(* The queue of gitProcess.ts keeps the promise of MutationQueue: effects  *)
(* in the order of the calls and never twice, whatever is retried, refused *)
(* or killed, and no outcome that misleads the caller.                     *)
QueueSpec == Queue!Spec

(* Two mutations have live git processes at once only when one of them     *)
(* timed out and its process has not died yet.                             *)
OnlyAbortedOverlap ==
  \A c, d \in Mutation :
    c # d /\ Alive(c) /\ Alive(d) => Aborted(c) \/ Aborted(d)

(* Whatever git does, no call wedges the queue: every mutation settles,    *)
(* provided nothing keeps git's pipes open for ever.                       *)
EveryCallSettles ==
  (\A c \in Call : []<>~held[c]) =>
    \A c \in Mutation : at[c] = "waiting" ~> at[c] = "settled"

(* No git process outlives its call for good, a trapped SIGTERM included.  *)
NoGitOutlivesItsCall == \A c \in Call : at[c] = "settled" ~> ~Alive(c)
=============================================================================
