------------------------- MODULE GitQueue_proofs -------------------------
(***************************************************************************)
(* Safety of GitQueue for every set of calls and every number of retries,  *)
(* checked by TLAPS: mutual exclusion of the git processes of mutations,   *)
(* timed out ones apart, and the refinement of MutationQueue.              *)
(*                                                                         *)
(* Neither is inductive alone.  QueueFollowed ties where a mutation is to  *)
(* its place in the promise chain, OutlivesOnTimeout says which process    *)
(* can be alive after its call, and ProgressKept ties what a process is    *)
(* doing to what its call has already done; with the types they make IInv. *)
(***************************************************************************)
EXTENDS GitQueue, TLAPS

(* A mutation is in the chain once it has been made, its promise has a     *)
(* result once it has settled, and it runs only in its turn.               *)
QueueFollowed ==
  /\ \A c \in Mutation : at[c] # "idle" <=> \E i \in DOMAIN queue : queue[i] = c
  /\ \A c \in Mutation : at[c] = "settled" <=> result[c] # "none"
  /\ \A c \in Mutation : at[c] \in {"running", "sleeping"} => Turn(c)

(* The process of a mutation is alive while the mutation runs, and after   *)
(* that only if the mutation timed out.                                    *)
OutlivesOnTimeout ==
  /\ \A c \in Mutation : aborted[c] # "cancelled"
  /\ \A c \in Mutation :
       Alive(c) => \/ at[c] = "running"
                   \/ at[c] = "settled" /\ result[c] = "timeout" /\ Aborted(c)

(* A process that may still write belongs to a command that has not taken  *)
(* effect, and so does one that exited because it could not start to; the  *)
(* SIGKILL timer is armed only for a live process whose call is over.      *)
ProgressKept ==
  \A c \in Call :
    /\ done[c] <= Commands(c)
    /\ at[c] \in {"idle", "waiting"} => proc[c] = "none" /\ done[c] = 0
    /\ at[c] = "sleeping" => done[c] < Commands(c) /\ ~Alive(c)
    /\ at[c] = "running" => proc[c] \notin {"none", "killed"}
    /\ escalation[c] => at[c] = "settled" /\ Alive(c)
    /\ proc[c] \in {"started", "locked", "raced"} => done[c] < Commands(c)
    /\ proc[c] = "holding" => Writing(c)

IInv == TypeOK /\ QueueFollowed /\ OutlivesOnTimeout /\ ProgressKept

-----------------------------------------------------------------------------
(* What the helpers of the actions leave typed.                            *)
LEMMA SettleTyped ==
  ASSUME TypeOK, NEW c \in Call, NEW r \in Results, Settle(c, r)
  PROVE  /\ at' \in [Call -> {"idle", "waiting", "running", "sleeping", "settled"}]
         /\ result' \in [Call -> Results]
         /\ attempt' \in [Call -> 0..MaxRetries]
BY CallsAssumption DEF TypeOK, Settle, Results

(* A call whose git cannot be started has a result.                        *)
LEMMA NotStartedTyped ==
  ASSUME NEW c
  PROVE  NotStarted(c) \in Results \ {"none"}
BY DEF NotStarted, Results

LEMMA SpawnTyped ==
  ASSUME TypeOK, NEW c \in Call, NEW tries \in 0..MaxRetries, Spawn(c, tries)
  PROVE  /\ at' \in [Call -> {"idle", "waiting", "running", "sleeping", "settled"}]
         /\ result' \in [Call -> Results]
         /\ attempt' \in [Call -> 0..MaxRetries]
         /\ proc' \in [Call -> {"none"} \cup Running \cup Exited]
<1>1. CASE Settle(c, NotStarted(c)) /\ UNCHANGED proc
  BY <1>1, SettleTyped, NotStartedTyped DEF TypeOK
<1>2. CASE /\ at' = [at EXCEPT ![c] = "running"]
           /\ proc' = [proc EXCEPT ![c] = "started"]
           /\ attempt' = [attempt EXCEPT ![c] = tries]
           /\ UNCHANGED result
  BY <1>2, CallsAssumption DEF TypeOK, Running
<1>3. QED
  BY <1>1, <1>2 DEF Spawn

LEMMA ExitTyped ==
  ASSUME TypeOK, NEW c \in Call, NEW how \in Exited, Exit(c, how)
  PROVE  /\ proc' \in [Call -> {"none"} \cup Running \cup Exited]
         /\ escalation' \in [Call -> BOOLEAN]
         /\ held' \in [Call -> BOOLEAN]
<1>1. PICK open \in {FALSE} \cup (IF c \in Daemon /\ at[c] = "running"
                                  THEN {TRUE} ELSE {}) :
        held' = [held EXCEPT ![c] = open]
  BY DEF Exit
<1>2. open \in BOOLEAN
  OBVIOUS
<1>3. held' \in [Call -> BOOLEAN]
  BY <1>1, <1>2 DEF TypeOK
<1>4. QED
  BY <1>3 DEF Exit, TypeOK

LEMMA AbortTyped ==
  ASSUME TypeOK, NEW c \in Call, NEW reason \in {"timeout", "cancelled"},
         AbortEvent(c, reason)
  PROVE  TypeOK'
<1>1. aborted' \in [Call -> {"no", "timeout", "cancelled"}]
  BY DEF AbortEvent, TypeOK
<1>2. escalation' \in [Call -> BOOLEAN]
  BY DEF AbortEvent, EscalationOnAbort, TypeOK, Alive
<1>3. /\ at' \in [Call -> {"idle", "waiting", "running", "sleeping", "settled"}]
      /\ result' \in [Call -> Results]
      /\ attempt' \in [Call -> 0..MaxRetries]
  BY SettleTyped DEF AbortEvent, TypeOK, Results
<1>4. QED
  BY <1>1, <1>2, <1>3 DEF AbortEvent, TypeOK, procVars

(* Every action preserves the types.                                       *)
LEMMA TypeStep ==
  ASSUME TypeOK, ProgressKept, [Next]_vars
  PROVE  TypeOK'
<1> USE CallsAssumption DEF TypeOK, callVars, procVars, abortVars
<1>1. ASSUME NEW c \in Call, Enqueue(c) PROVE TypeOK'
  BY <1>1 DEF Enqueue
<1>2. ASSUME NEW c \in Call, Start(c) PROVE TypeOK'
  BY <1>2, SpawnTyped DEF Start
<1>3. ASSUME NEW c \in Call, Read(c) PROVE TypeOK'
  BY <1>3, SpawnTyped DEF Read
<1>4. ASSUME NEW c \in Call, Cancel(c) PROVE TypeOK'
  <2>1. CASE AbortEvent(c, "cancelled")
    BY <2>1, AbortTyped
  <2>2. CASE ~AbortEvent(c, "cancelled")
    BY <1>4, <2>2 DEF Cancel
  <2>3. QED
    BY <2>1, <2>2
<1>5. ASSUME NEW c \in Call, GitLocks(c) PROVE TypeOK'
  BY <1>5 DEF GitLocks, Running
<1>6. ASSUME NEW c \in Call, GitFindsLock(c) PROVE TypeOK'
  BY <1>6, ExitTyped DEF GitFindsLock, Exited
<1>7. ASSUME NEW c \in Call, GitWrites(c) PROVE TypeOK'
  <2>1. done[c] + 1 \in 0..2
    <3>1. done[c] = Commands(c) - 1
      BY <1>7 DEF GitWrites, Writing, ProgressKept
    <3>2. Commands(c) \in 1..2
      BY DEF Commands
    <3>3. QED
      BY <3>1, <3>2
  <2>2. done' \in [Call -> 0..2]
    BY <1>7, <2>1 DEF GitWrites
  <2>3. QED
    BY <1>7, <2>2 DEF GitWrites, Running
<1>8. ASSUME NEW c \in Call, GitFinishes(c) PROVE TypeOK'
  BY <1>8, ExitTyped DEF GitFinishes, Exited
<1>9. ASSUME NEW c \in Call, GitReads(c) PROVE TypeOK'
  <2>1. done[c] + 1 \in 0..2
    <3>1. done[c] < Commands(c) /\ done[c] \in 0..2
      BY <1>9 DEF GitReads, ProgressKept
    <3>2. Commands(c) \in 1..2
      BY DEF Commands
    <3>3. QED
      BY <3>1, <3>2
  <2>2. done' \in [Call -> 0..2]
    BY ZenonT(60), <1>9, <2>1 DEF GitReads
  <2>3. QED
    BY <1>9, <2>2, ExitTyped DEF GitReads, Exited
<1>10. ASSUME NEW c \in Call, GitFails(c) PROVE TypeOK'
  BY <1>10, ExitTyped DEF GitFails, Exited, Released
<1>11. ASSUME NEW c \in Call, GitTerminates(c) PROVE TypeOK'
  BY <1>11, ExitTyped DEF GitTerminates, Exited, Released
<1>12. ASSUME NEW c \in Call, DescendantEnds(c) PROVE TypeOK'
  BY <1>12 DEF DescendantEnds
<1>13. ASSUME NEW c \in Call, TimeoutFires(c) PROVE TypeOK'
  BY <1>13, AbortTyped DEF TimeoutFires
<1>14. ASSUME NEW c \in Call, AbortedAtSpawn(c) PROVE TypeOK'
  BY ZenonT(60), <1>14, AbortTyped DEF AbortedAtSpawn, Aborted
<1>15. ASSUME NEW c \in Call, EscalationFires(c) PROVE TypeOK'
  BY <1>15, ExitTyped DEF EscalationFires, Exited
<1>16. ASSUME NEW c \in Call, CloseAborted(c) PROVE TypeOK'
  BY <1>16, SettleTyped DEF CloseAborted, Aborted, Results
<1>17. ASSUME NEW c \in Call, CloseDone(c) PROVE TypeOK'
  <2>1. CASE done[c] < Commands(c)
    BY <1>17, <2>1, SpawnTyped DEF CloseDone
  <2>2. CASE ~(done[c] < Commands(c))
    BY <1>17, <2>2, SettleTyped DEF CloseDone, Results
  <2>3. QED
    BY <2>1, <2>2
<1>18. ASSUME NEW c \in Call, CloseRetry(c) PROVE TypeOK'
  BY <1>18 DEF CloseRetry, Retryable
<1>19. ASSUME NEW c \in Call, CloseFailed(c) PROVE TypeOK'
  <2>1. proc[c] \in Results
    BY <1>19 DEF CloseFailed, Closing, ProgressKept, Alive, Running, Exited, Results
  <2>2. QED
    BY <1>19, <2>1, SettleTyped DEF CloseFailed, Contended
<1>20. ASSUME NEW c \in Call, Wake(c) PROVE TypeOK'
  BY <1>20, SpawnTyped DEF Wake
<1>21. ASSUME ExternalLocks PROVE TypeOK'
  BY <1>21 DEF ExternalLocks
<1>22. ASSUME ExternalUnlocks PROVE TypeOK'
  BY <1>22 DEF ExternalUnlocks
<1>23. ASSUME BreakerExpires PROVE TypeOK'
  BY <1>23 DEF BreakerExpires
<1>24. ASSUME UNCHANGED vars PROVE TypeOK'
  BY <1>24 DEF vars
<1>25. QED
  BY <1>1, <1>2, <1>3, <1>4, <1>5, <1>6, <1>7, <1>8, <1>9, <1>10, <1>11, <1>12,
     <1>13, <1>14, <1>15, <1>16, <1>17, <1>18, <1>19, <1>20, <1>21, <1>22, <1>23, <1>24
  DEF Next, Caller, Git, Loop

(* A step that leaves the chain alone keeps QueueFollowed if calls only    *)
(* move forwards and a call that runs has its turn.                        *)
LEMMA QueueKept ==
  ASSUME TypeOK, QueueFollowed, queue' = queue,
         \A c \in Mutation :
           /\ at[c] = "idle" <=> at'[c] = "idle"
           /\ at[c] = "settled" => at'[c] = "settled"
           /\ at'[c] = "settled" <=> result'[c] # "none"
           /\ at'[c] \in {"running", "sleeping"} => Turn(c)
  PROVE  QueueFollowed'
<1>1. \A i \in DOMAIN queue : queue[i] \in Mutation
  BY DEF TypeOK
<1>2. ASSUME NEW c \in Mutation, Turn(c) PROVE Turn(c)'
  <2>1. PICK i \in DOMAIN queue :
          queue[i] = c /\ \A j \in 1..(i - 1) : at[queue[j]] = "settled"
    BY <1>2 DEF Turn
  <2>2. \A j \in 1..(i - 1) : j \in DOMAIN queue /\ at'[queue[j]] = "settled"
    BY <1>1, <2>1 DEF TypeOK
  <2>3. QED
    BY <2>1, <2>2 DEF Turn
<1>3. QED
  BY <1>2 DEF QueueFollowed

(* An action on one call that only moves that call forwards.               *)
LEMMA QueueMoves ==
  ASSUME TypeOK, QueueFollowed, queue' = queue, NEW c \in Call,
         at[c] \notin {"idle", "settled"},
         c \in Mutation => Turn(c),
         NEW p \in {"waiting", "running", "sleeping"}, NEW r \in Results \ {"none"},
         \/ at' = [at EXCEPT ![c] = p] /\ result' = result
         \/ at' = [at EXCEPT ![c] = "settled"] /\ result' = [result EXCEPT ![c] = r]
  PROVE  QueueFollowed'
<1>1. \A m \in Mutation :
        /\ at[m] = "idle" <=> at'[m] = "idle"
        /\ at[m] = "settled" => at'[m] = "settled"
        /\ at'[m] = "settled" <=> result'[m] # "none"
        /\ at'[m] \in {"running", "sleeping"} => Turn(m)
  BY CallsAssumption DEF TypeOK, QueueFollowed
<1>2. QED
  BY <1>1, QueueKept

(* The same when it is a read, which is not in the chain.                  *)
LEMMA QueueIgnores ==
  ASSUME TypeOK, QueueFollowed, queue' = queue, NEW c \in Call \ Mutation,
         NEW p, NEW r,
         at' = [at EXCEPT ![c] = p] \/ at' = at,
         result' = [result EXCEPT ![c] = r] \/ result' = result
  PROVE  QueueFollowed'
<1>1. \A m \in Mutation : at'[m] = at[m] /\ result'[m] = result[m]
  BY CallsAssumption DEF TypeOK
<1>2. QED
  BY <1>1, QueueKept DEF QueueFollowed

LEMMA QueueUntouched ==
  ASSUME TypeOK, QueueFollowed, UNCHANGED <<queue, at, result>>
  PROVE  QueueFollowed'
BY QueueKept DEF QueueFollowed

(* The chain grows at its end, and a settled call stays settled.           *)
LEMMA QueueStep ==
  ASSUME TypeOK, QueueFollowed, ProgressKept, [Next]_vars
  PROVE  QueueFollowed'
<1> USE CallsAssumption
<1>1. ASSUME NEW c \in Call, Enqueue(c) PROVE QueueFollowed'
  <2>1. /\ Len(queue') = Len(queue) + 1
        /\ DOMAIN queue' = 1..(Len(queue) + 1)
        /\ queue'[Len(queue) + 1] = c
        /\ \A i \in DOMAIN queue : i \in DOMAIN queue' /\ queue'[i] = queue[i]
    BY <1>1 DEF Enqueue, TypeOK
  <2>2. /\ c \in Mutation
        /\ at[c] = "idle" /\ at'[c] = "waiting"
        /\ \A m \in Call : m # c => at'[m] = at[m]
        /\ UNCHANGED result
    BY <1>1 DEF Enqueue, TypeOK
  <2>3. ASSUME NEW m \in Mutation
        PROVE at'[m] # "idle" <=> \E i \in DOMAIN queue' : queue'[i] = m
    <3>1. CASE m = c
      BY <2>1, <2>2, <3>1
    <3>2. CASE m # c
      <4>1. ASSUME NEW i \in DOMAIN queue', queue'[i] = m
            PROVE i \in DOMAIN queue /\ queue[i] = m
        BY <2>1, <3>2, <4>1 DEF TypeOK
      <4>2. (\E i \in DOMAIN queue' : queue'[i] = m) <=> \E i \in DOMAIN queue : queue[i] = m
        BY <2>1, <4>1
      <4>3. QED
        BY <2>2, <3>2, <4>2 DEF QueueFollowed
    <3>3. QED
      BY <3>1, <3>2
  <2>4. ASSUME NEW m \in Mutation
        PROVE at'[m] = "settled" <=> result'[m] # "none"
    BY <2>2, <2>4 DEF TypeOK, QueueFollowed
  <2>5. ASSUME NEW m \in Mutation, at'[m] \in {"running", "sleeping"}
        PROVE Turn(m)'
    <3>1. Turn(m) /\ m # c
      BY <2>2, <2>5 DEF QueueFollowed
    <3>2. PICK i \in DOMAIN queue :
            queue[i] = m /\ \A j \in 1..(i - 1) : at[queue[j]] = "settled"
      BY <3>1 DEF Turn
    <3>3. \A j \in 1..(i - 1) : j \in DOMAIN queue /\ queue[j] \in Mutation
      BY <3>2 DEF TypeOK
    <3>4. \A j \in 1..(i - 1) : at'[queue'[j]] = "settled"
      BY <2>1, <2>2, <3>2, <3>3
    <3>5. QED
      BY <2>1, <3>2, <3>4 DEF Turn
  <2>6. QED
    BY <2>3, <2>4, <2>5 DEF QueueFollowed
<1>2. ASSUME NEW c \in Call, Start(c) PROVE QueueFollowed'
  BY <1>2, QueueMoves, NotStartedTyped DEF Start, Spawn, Settle
<1>3. ASSUME NEW c \in Call, Read(c) PROVE QueueFollowed'
  BY <1>3, QueueIgnores DEF Read, Spawn, Settle
<1>4. ASSUME NEW c \in Call, Cancel(c) PROVE QueueFollowed'
  BY <1>4, QueueIgnores DEF Cancel, AbortEvent, Settle, callVars
<1>5. ASSUME NEW c \in Call, GitLocks(c) PROVE QueueFollowed'
  BY <1>5, QueueUntouched DEF GitLocks, callVars
<1>6. ASSUME NEW c \in Call, GitFindsLock(c) PROVE QueueFollowed'
  BY <1>6, QueueUntouched DEF GitFindsLock, callVars
<1>7. ASSUME NEW c \in Call, GitWrites(c) PROVE QueueFollowed'
  BY <1>7, QueueUntouched DEF GitWrites, callVars
<1>8. ASSUME NEW c \in Call, GitFinishes(c) PROVE QueueFollowed'
  BY <1>8, QueueUntouched DEF GitFinishes, callVars
<1>9. ASSUME NEW c \in Call, GitReads(c) PROVE QueueFollowed'
  BY <1>9, QueueUntouched DEF GitReads, callVars
<1>10. ASSUME NEW c \in Call, GitFails(c) PROVE QueueFollowed'
  BY <1>10, QueueUntouched DEF GitFails, callVars
<1>11. ASSUME NEW c \in Call, GitTerminates(c) PROVE QueueFollowed'
  BY <1>11, QueueUntouched DEF GitTerminates, callVars
<1>12. ASSUME NEW c \in Call, DescendantEnds(c) PROVE QueueFollowed'
  BY <1>12, QueueUntouched DEF DescendantEnds, callVars
<1>13. ASSUME NEW c \in Call, TimeoutFires(c) PROVE QueueFollowed'
  <2>1. CASE Alive(c)
    <3>1. c \in Mutation => Turn(c)
      BY <1>13 DEF TimeoutFires, QueueFollowed
    <3>2. PICK r \in Results \ {"none"} : AbortEvent(c, r)
      BY <1>13 DEF TimeoutFires, Aborted, TypeOK, Results
    <3>3. QED
      BY <1>13, <2>1, <3>1, <3>2, QueueMoves DEF TimeoutFires, AbortEvent, Settle
  <2>2. CASE ~Alive(c)
    BY <1>13, <2>2, QueueUntouched DEF TimeoutFires, AbortEvent
  <2>3. QED
    BY <2>1, <2>2
<1>14. ASSUME NEW c \in Call, AbortedAtSpawn(c) PROVE QueueFollowed'
  <2>1. CASE Alive(c)
    <3>1. c \in Mutation => Turn(c)
      BY <1>14 DEF AbortedAtSpawn, QueueFollowed
    <3>2. PICK r \in Results \ {"none"} : AbortEvent(c, r)
      BY <1>14 DEF AbortedAtSpawn, Aborted, TypeOK, Results
    <3>3. QED
      BY <1>14, <2>1, <3>1, <3>2, QueueMoves DEF AbortedAtSpawn, AbortEvent, Settle
  <2>2. CASE ~Alive(c)
    BY <1>14, <2>2, QueueUntouched DEF AbortedAtSpawn, AbortEvent
  <2>3. QED
    BY <2>1, <2>2
<1>15. ASSUME NEW c \in Call, EscalationFires(c) PROVE QueueFollowed'
  BY <1>15, QueueUntouched DEF EscalationFires, callVars
<1>16. ASSUME NEW c \in Call, CloseAborted(c) PROVE QueueFollowed'
  <2>1. c \in Mutation => Turn(c)
    BY <1>16 DEF CloseAborted, Closing, QueueFollowed
  <2>2. aborted[c] \in Results \ {"none"}
    BY <1>16 DEF CloseAborted, Aborted, TypeOK, Results
  <2>3. QED
    BY <1>16, <2>1, <2>2, QueueMoves DEF CloseAborted, Closing, Settle
<1>17. ASSUME NEW c \in Call, CloseDone(c) PROVE QueueFollowed'
  <2>1. c \in Mutation => Turn(c)
    BY <1>17 DEF CloseDone, Closing, QueueFollowed
  <2>2. CASE done[c] < Commands(c)
    BY <1>17, <2>1, <2>2, QueueMoves, NotStartedTyped DEF CloseDone, Closing, Spawn, Settle
  <2>3. CASE ~(done[c] < Commands(c))
    BY <1>17, <2>1, <2>3, QueueMoves DEF CloseDone, Closing, Settle, Results
  <2>4. QED
    BY <2>2, <2>3
<1>18. ASSUME NEW c \in Call, CloseRetry(c) PROVE QueueFollowed'
  <2>1. c \in Mutation => Turn(c)
    BY <1>18 DEF CloseRetry, Closing, QueueFollowed
  <2>2. "ok" \in Results \ {"none"}
    BY DEF Results
  <2>3. QED
    BY <1>18, <2>1, <2>2, QueueMoves DEF CloseRetry, Closing
<1>19. ASSUME NEW c \in Call, CloseFailed(c) PROVE QueueFollowed'
  <2>1. c \in Mutation => Turn(c)
    BY <1>19 DEF CloseFailed, Closing, QueueFollowed
  <2>2. proc[c] \in Results \ {"none"}
    BY <1>19 DEF CloseFailed, Closing, ProgressKept, Alive, Running, Exited, Results, TypeOK
  <2>3. QED
    BY <1>19, <2>1, <2>2, QueueMoves DEF CloseFailed, Closing, Settle
<1>20. ASSUME NEW c \in Call, Wake(c) PROVE QueueFollowed'
  <2>1. c \in Mutation => Turn(c)
    BY <1>20 DEF Wake, QueueFollowed
  <2>2. QED
    BY <1>20, <2>1, QueueMoves, NotStartedTyped DEF Wake, Spawn, Settle
<1>21. ASSUME ExternalLocks PROVE QueueFollowed'
  BY <1>21, QueueUntouched DEF ExternalLocks, callVars
<1>22. ASSUME ExternalUnlocks PROVE QueueFollowed'
  BY <1>22, QueueUntouched DEF ExternalUnlocks, callVars
<1>23. ASSUME BreakerExpires PROVE QueueFollowed'
  BY <1>23, QueueUntouched DEF BreakerExpires, callVars
<1>24. ASSUME UNCHANGED vars PROVE QueueFollowed'
  BY <1>24, QueueUntouched DEF vars, callVars
<1>25. QED
  BY <1>1, <1>2, <1>3, <1>4, <1>5, <1>6, <1>7, <1>8, <1>9, <1>10, <1>11, <1>12,
     <1>13, <1>14, <1>15, <1>16, <1>17, <1>18, <1>19, <1>20, <1>21, <1>22, <1>23, <1>24
  DEF Next, Caller, Git, Loop

(* Only a timeout settles a mutation whose process is alive.               *)
LEMMA OutlivesStep ==
  ASSUME TypeOK, OutlivesOnTimeout, ProgressKept, [Next]_vars
  PROVE  OutlivesOnTimeout'
<1> USE CallsAssumption
    DEF TypeOK, OutlivesOnTimeout, ProgressKept, Alive, Aborted, Running,
      Exited, callVars, procVars, abortVars
<1>1. ASSUME NEW c \in Call, Enqueue(c) PROVE OutlivesOnTimeout'
  BY <1>1 DEF Enqueue
<1>2. ASSUME NEW c \in Call, Start(c) PROVE OutlivesOnTimeout'
  BY <1>2 DEF Start, Turn, Spawn, Settle
<1>3. ASSUME NEW c \in Call, Read(c) PROVE OutlivesOnTimeout'
  BY ZenonT(60), <1>3 DEF Read, Spawn, Settle
<1>4. ASSUME NEW c \in Call, Cancel(c) PROVE OutlivesOnTimeout'
  <2>1. c \notin Mutation
    BY <1>4 DEF Cancel
  <2>2. \A m \in Mutation :
          /\ at'[m] = at[m] /\ result'[m] = result[m]
          /\ aborted'[m] = aborted[m] /\ proc'[m] = proc[m]
    BY <1>4, <2>1 DEF Cancel, AbortEvent, Settle
  <2>3. QED
    BY <2>2
<1>5. ASSUME NEW c \in Call, GitLocks(c) PROVE OutlivesOnTimeout'
  BY <1>5 DEF GitLocks
<1>6. ASSUME NEW c \in Call, GitFindsLock(c) PROVE OutlivesOnTimeout'
  BY <1>6 DEF GitFindsLock, Exit
<1>7. ASSUME NEW c \in Call, GitWrites(c) PROVE OutlivesOnTimeout'
  BY <1>7 DEF GitWrites
<1>8. ASSUME NEW c \in Call, GitFinishes(c) PROVE OutlivesOnTimeout'
  BY <1>8 DEF GitFinishes, Exit
<1>9. ASSUME NEW c \in Call, GitReads(c) PROVE OutlivesOnTimeout'
  BY <1>9 DEF GitReads, Exit
<1>10. ASSUME NEW c \in Call, GitFails(c) PROVE OutlivesOnTimeout'
  BY <1>10 DEF GitFails, Exit, Released
<1>11. ASSUME NEW c \in Call, GitTerminates(c) PROVE OutlivesOnTimeout'
  BY <1>11 DEF GitTerminates, Exit, Released
<1>12. ASSUME NEW c \in Call, DescendantEnds(c) PROVE OutlivesOnTimeout'
  BY <1>12 DEF DescendantEnds
<1>13. ASSUME NEW c \in Call, TimeoutFires(c) PROVE OutlivesOnTimeout'
  BY <1>13 DEF TimeoutFires, AbortEvent, EscalationOnAbort, Settle
<1>14. ASSUME NEW c \in Call, AbortedAtSpawn(c) PROVE OutlivesOnTimeout'
  BY <1>14 DEF AbortedAtSpawn, AbortEvent, EscalationOnAbort, Settle
<1>15. ASSUME NEW c \in Call, EscalationFires(c) PROVE OutlivesOnTimeout'
  BY <1>15 DEF EscalationFires, Exit
<1>16. ASSUME NEW c \in Call, CloseAborted(c) PROVE OutlivesOnTimeout'
  BY <1>16 DEF CloseAborted, Closing, Settle
<1>17. ASSUME NEW c \in Call, CloseDone(c) PROVE OutlivesOnTimeout'
  BY ZenonT(60), <1>17 DEF CloseDone, Closing, Settle, Spawn
<1>18. ASSUME NEW c \in Call, CloseRetry(c) PROVE OutlivesOnTimeout'
  BY <1>18 DEF CloseRetry, Closing, Retryable, Contended
<1>19. ASSUME NEW c \in Call, CloseFailed(c) PROVE OutlivesOnTimeout'
  BY <1>19 DEF CloseFailed, Closing, Settle, Retryable, Contended
<1>20. ASSUME NEW c \in Call, Wake(c) PROVE OutlivesOnTimeout'
  BY <1>20 DEF Wake, Spawn, Settle
<1>21. ASSUME ExternalLocks PROVE OutlivesOnTimeout'
  BY <1>21 DEF ExternalLocks
<1>22. ASSUME ExternalUnlocks PROVE OutlivesOnTimeout'
  BY <1>22 DEF ExternalUnlocks
<1>23. ASSUME BreakerExpires PROVE OutlivesOnTimeout'
  BY <1>23 DEF BreakerExpires
<1>24. ASSUME UNCHANGED vars PROVE OutlivesOnTimeout'
  BY <1>24 DEF vars
<1>25. QED
  BY <1>1, <1>2, <1>3, <1>4, <1>5, <1>6, <1>7, <1>8, <1>9, <1>10, <1>11, <1>12,
     <1>13, <1>14, <1>15, <1>16, <1>17, <1>18, <1>19, <1>20, <1>21, <1>22, <1>23, <1>24
  DEF Next, Caller, Git, Loop

(* A command takes effect once, by its own process.                        *)
LEMMA ProgressStep ==
  ASSUME TypeOK, OutlivesOnTimeout, ProgressKept, [Next]_vars
  PROVE  ProgressKept'
<1> USE CallsAssumption
    DEF TypeOK, ProgressKept, OutlivesOnTimeout, Commands, Writing, Alive,
      Aborted, Running, Exited, callVars, procVars, abortVars
<1>1. ASSUME NEW c \in Call, Enqueue(c) PROVE ProgressKept'
  BY <1>1 DEF Enqueue
<1>2. ASSUME NEW c \in Call, Start(c) PROVE ProgressKept'
  BY <1>2 DEF Start, Turn, Spawn, Settle
<1>3. ASSUME NEW c \in Call, Read(c) PROVE ProgressKept'
  BY <1>3 DEF Read, Spawn, Settle
<1>4. ASSUME NEW c \in Call, Cancel(c) PROVE ProgressKept'
  BY <1>4 DEF Cancel, AbortEvent, EscalationOnAbort, Settle
<1>5. ASSUME NEW c \in Call, GitLocks(c) PROVE ProgressKept'
  BY <1>5 DEF GitLocks
<1>6. ASSUME NEW c \in Call, GitFindsLock(c) PROVE ProgressKept'
  BY <1>6 DEF GitFindsLock, Exit
<1>7. ASSUME NEW c \in Call, GitWrites(c) PROVE ProgressKept'
  BY <1>7 DEF GitWrites
<1>8. ASSUME NEW c \in Call, GitFinishes(c) PROVE ProgressKept'
  <2>1. \/ proc' = [proc EXCEPT ![c] = "ok"]
        \/ proc' = [proc EXCEPT ![c] = "failed"]
    BY <1>8 DEF GitFinishes, Exit
  <2>2. escalation' = [escalation EXCEPT ![c] = FALSE]
    BY <1>8 DEF GitFinishes, Exit
  <2>3. QED
    BY <1>8, <2>1, <2>2 DEF GitFinishes
<1>9. ASSUME NEW c \in Call, GitReads(c) PROVE ProgressKept'
  <2>1. escalation' = [escalation EXCEPT ![c] = FALSE]
    BY <1>9 DEF GitReads, Exit
  <2>2. \/ /\ proc' = [proc EXCEPT ![c] = "ok"]
           /\ done' = [done EXCEPT ![c] = done[c] + 1]
        \/ /\ proc' = [proc EXCEPT ![c] = "raced"]
           /\ done' = done
    BY <1>9 DEF GitReads, Exit
  <2>3. done[c] + 1 <= Commands(c) /\ at[c] \notin {"idle", "waiting", "sleeping"}
    BY <1>9 DEF GitReads
  <2>4. \A d \in Call : d # c => /\ done'[d] = done[d] /\ proc'[d] = proc[d]
                                 /\ escalation'[d] = escalation[d]
    BY <2>1, <2>2
  <2>5. QED
    BY <1>9, <2>1, <2>2, <2>3, <2>4 DEF GitReads
<1>10. ASSUME NEW c \in Call, GitFails(c) PROVE ProgressKept'
  BY <1>10 DEF GitFails, Exit
<1>11. ASSUME NEW c \in Call, GitTerminates(c) PROVE ProgressKept'
  <2>1. /\ proc' = [proc EXCEPT ![c] = "killed"]
        /\ escalation' = [escalation EXCEPT ![c] = FALSE]
        /\ UNCHANGED <<at, done>>
        /\ at[c] = "settled"
    BY <1>11 DEF GitTerminates, Exit
  <2>2. QED
    BY <2>1
<1>12. ASSUME NEW c \in Call, DescendantEnds(c) PROVE ProgressKept'
  BY <1>12 DEF DescendantEnds
<1>13. ASSUME NEW c \in Call, TimeoutFires(c) PROVE ProgressKept'
  BY <1>13 DEF TimeoutFires, AbortEvent, EscalationOnAbort, Settle
<1>14. ASSUME NEW c \in Call, AbortedAtSpawn(c) PROVE ProgressKept'
  BY <1>14 DEF AbortedAtSpawn, AbortEvent, EscalationOnAbort, Settle
<1>15. ASSUME NEW c \in Call, EscalationFires(c) PROVE ProgressKept'
  <2>1. /\ proc' = [proc EXCEPT ![c] = "killed"]
        /\ escalation' = [escalation EXCEPT ![c] = FALSE]
        /\ UNCHANGED <<at, done>>
        /\ at[c] = "settled"
    BY <1>15 DEF EscalationFires, Exit
  <2>2. QED
    BY <2>1
<1>16. ASSUME NEW c \in Call, CloseAborted(c) PROVE ProgressKept'
  BY <1>16 DEF CloseAborted, Closing, Settle
<1>17. ASSUME NEW c \in Call, CloseDone(c) PROVE ProgressKept'
  BY <1>17 DEF CloseDone, Closing, Settle, Spawn
<1>18. ASSUME NEW c \in Call, CloseRetry(c) PROVE ProgressKept'
  BY <1>18 DEF CloseRetry, Closing, Retryable, Contended
<1>19. ASSUME NEW c \in Call, CloseFailed(c) PROVE ProgressKept'
  BY <1>19 DEF CloseFailed, Closing, Settle, Retryable, Contended
<1>20. ASSUME NEW c \in Call, Wake(c) PROVE ProgressKept'
  BY <1>20 DEF Wake, Spawn, Settle
<1>21. ASSUME ExternalLocks PROVE ProgressKept'
  BY <1>21 DEF ExternalLocks
<1>22. ASSUME ExternalUnlocks PROVE ProgressKept'
  BY <1>22 DEF ExternalUnlocks
<1>23. ASSUME BreakerExpires PROVE ProgressKept'
  BY <1>23 DEF BreakerExpires
<1>24. ASSUME UNCHANGED vars PROVE ProgressKept'
  BY <1>24 DEF vars
<1>25. QED
  BY <1>1, <1>2, <1>3, <1>4, <1>5, <1>6, <1>7, <1>8, <1>9, <1>10, <1>11, <1>12,
     <1>13, <1>14, <1>15, <1>16, <1>17, <1>18, <1>19, <1>20, <1>21, <1>22, <1>23, <1>24
  DEF Next, Caller, Git, Loop

-----------------------------------------------------------------------------
(* IInv is inductive ...                                                   *)
LEMMA InitIInv ==
  ASSUME Init
  PROVE  IInv
<1>1. TypeOK
  <2>1. queue \in Seq(Mutation)
    BY DEF Init
  <2>2. /\ lock \in Call \cup {"free", "external", "stale"}
        /\ breaker \in BOOLEAN
    BY DEF Init
  <2>3. done \in [Call -> 0..2] /\ attempt \in [Call -> 0..MaxRetries]
    BY CallsAssumption DEF Init
  <2>4. QED
    BY <2>1, <2>2, <2>3 DEF Init, TypeOK, Results
<1>2. QueueFollowed /\ OutlivesOnTimeout
  BY CallsAssumption DEF Init, QueueFollowed, OutlivesOnTimeout, Alive, Running
<1>3. ProgressKept
  <2>1. \A c \in Call : 0 <= Commands(c)
    BY DEF Commands
  <2>2. QED
    BY <2>1 DEF Init, ProgressKept, Alive, Running
<1>4. QED
  BY <1>1, <1>2, <1>3 DEF IInv

LEMMA StepIInv ==
  ASSUME IInv, [Next]_vars
  PROVE  IInv'
BY TypeStep, QueueStep, OutlivesStep, ProgressStep DEF IInv

(* ... and so holds throughout.                                            *)
LEMMA Invariance == Spec => []IInv
BY InitIInv, StepIInv, PTL DEF Spec

(* gitProcess.ts keeps its state well formed.                              *)
THEOREM TypeCorrect == Spec => []TypeOK
<1>1. IInv => TypeOK
  BY DEF IInv
<1>2. QED
  BY <1>1, Invariance, PTL

(* Mutual exclusion: of two mutations with live git processes one has      *)
(* timed out, however many calls are queued and retried.                   *)
THEOREM MutualExclusion == Spec => []OnlyAbortedOverlap
<1>1. ASSUME IInv PROVE OnlyAbortedOverlap
  <2>1. SUFFICES ASSUME NEW c \in Mutation, NEW d \in Mutation, c # d,
                        Alive(c), Alive(d), ~Aborted(c), ~Aborted(d)
                 PROVE  FALSE
    BY DEF OnlyAbortedOverlap
  <2>2. Turn(c) /\ Turn(d) /\ at[c] # "settled" /\ at[d] # "settled"
    BY <1>1, <2>1 DEF IInv, OutlivesOnTimeout, QueueFollowed
  <2>3. PICK i \in DOMAIN queue :
          queue[i] = c /\ \A k \in 1..(i - 1) : at[queue[k]] = "settled"
    BY <2>2 DEF Turn
  <2>4. PICK j \in DOMAIN queue :
          queue[j] = d /\ \A k \in 1..(j - 1) : at[queue[k]] = "settled"
    BY <2>2 DEF Turn
  <2>5. i \in Nat /\ j \in Nat /\ i >= 1 /\ j >= 1
    BY <1>1 DEF IInv, TypeOK
  <2>6. i \notin 1..(j - 1) /\ j \notin 1..(i - 1)
    BY <2>2, <2>3, <2>4
  <2>7. QED
    BY <2>1, <2>3, <2>4, <2>5, <2>6
<1>2. QED
  BY <1>1, Invariance, PTL

-----------------------------------------------------------------------------
(* Refinement of MutationQueue.                                            *)

(* A call that runs has its turn in the abstract queue too.                *)
LEMMA TurnsAgree ==
  ASSUME IInv, NEW c \in Mutation, Turn(c), at[c] # "settled"
  PROVE  Queue!Turn(c)
<1>1. PICK i \in DOMAIN queue :
        queue[i] = c /\ \A j \in 1..(i - 1) : at[queue[j]] = "settled"
  BY DEF Turn
<1>2. \A j \in 1..(i - 1) : queue[j] \in Mutation /\ result[queue[j]] # "none"
  BY <1>1 DEF IInv, TypeOK, QueueFollowed
<1>3. result[c] = "none"
  BY DEF IInv, QueueFollowed
<1>4. QED
  BY <1>1, <1>2, <1>3 DEF Queue!Turn

(* The variables of MutationQueue, under the refinement mapping.           *)
QueueVars == <<queue, [c \in Mutation |-> done[c]], [c \in Mutation |-> result[c]]>>

(* A step that neither queues, writes nor settles a mutation.              *)
LEMMA Stutter ==
  ASSUME queue' = queue,
         \A c \in Mutation : done'[c] = done[c] /\ result'[c] = result[c]
  PROVE  [Queue!Next]_QueueVars
<1>1. UNCHANGED QueueVars
  BY DEF QueueVars
<1>2. QED
  BY <1>1

(* The promise of a call settles, in the turn of the call.                 *)
LEMMA SettleMaps ==
  ASSUME IInv, NEW c \in Call, NEW r,
         c \in Mutation =>
           /\ Turn(c)
           /\ at[c] # "settled"
           /\ r \in {"ok", "failed", "locked", "raced", "timeout"}
           /\ r = "ok" => done[c] = Commands(c)
           /\ r \in {"locked", "raced"} => done[c] < Commands(c),
         Settle(c, r), UNCHANGED <<queue, done>>
  PROVE  [Queue!Next]_QueueVars
<1>1. CASE c \in Mutation
  <2>1. Queue!Turn(c)
    BY <1>1, TurnsAgree
  <2>2. [m \in Mutation |-> result[m]]' = [[m \in Mutation |-> result[m]] EXCEPT ![c] = r]
    BY CallsAssumption DEF Settle, IInv, TypeOK
  <2>3. Queue!Settle(c)
    BY <1>1, <2>1, <2>2 DEF Queue!Settle
  <2>4. QED
    BY <1>1, <2>3 DEF Queue!Next
<1>2. CASE c \notin Mutation
  <2>1. \A m \in Mutation : done'[m] = done[m] /\ result'[m] = result[m]
    BY <1>2, CallsAssumption DEF Settle, IInv, TypeOK
  <2>2. QED
    BY <2>1, Stutter
<1>3. QED
  BY <1>1, <1>2

(* A call starts a git process, or cannot.                                 *)
LEMMA SpawnMaps ==
  ASSUME IInv, NEW c \in Call, NEW tries,
         c \in Mutation => Turn(c) /\ at[c] # "settled",
         Spawn(c, tries), UNCHANGED <<queue, done>>
  PROVE  [Queue!Next]_QueueVars
<1>1. CASE Settle(c, NotStarted(c))
  <2>1. c \in Mutation => NotStarted(c) = "failed"
    BY DEF NotStarted, IInv, OutlivesOnTimeout
  <2>2. QED
    BY <1>1, <2>1, SettleMaps
<1>2. CASE UNCHANGED result
  BY <1>2, Stutter
<1>3. QED
  BY <1>1, <1>2 DEF Spawn

(* A command takes effect: in turn, or after the timeout of its call.      *)
LEMMA EffectMaps ==
  ASSUME IInv, NEW c \in Call, Alive(c), done[c] < Commands(c),
         done' = [done EXCEPT ![c] = @ + 1], UNCHANGED <<queue, result>>
  PROVE  [Queue!Next]_QueueVars
<1>1. CASE c \in Mutation
  <2>1. Queue!Turn(c) \/ result[c] = "timeout"
    <3>1. CASE at[c] = "running"
      BY <1>1, <3>1, TurnsAgree DEF IInv, QueueFollowed
    <3>2. CASE at[c] # "running"
      BY <1>1, <3>2 DEF IInv, OutlivesOnTimeout
    <3>3. QED
      BY <3>1, <3>2
  <2>2. [m \in Mutation |-> done[m]]' =
          [[m \in Mutation |-> done[m]] EXCEPT ![c] = @ + 1]
    BY <1>1, CallsAssumption DEF IInv, TypeOK
  <2>3. Queue!Effect(c)
    BY <1>1, <2>1, <2>2 DEF Queue!Effect
  <2>4. QED
    BY <1>1, <2>3 DEF Queue!Next
<1>2. CASE c \notin Mutation
  <2>1. \A m \in Mutation : done'[m] = done[m] /\ result'[m] = result[m]
    BY <1>2, CallsAssumption DEF IInv, TypeOK
  <2>2. QED
    BY <2>1, Stutter
<1>3. QED
  BY <1>1, <1>2

(* An abort settles the call as timed out or cancelled, or only sets a     *)
(* flag.                                                                   *)
LEMMA AbortMaps ==
  ASSUME IInv, NEW c \in Call, at[c] = "running", NEW reason,
         c \in Mutation => reason = "timeout", AbortEvent(c, reason)
  PROVE  [Queue!Next]_QueueVars
<1>1. UNCHANGED <<queue, done>>
  BY DEF AbortEvent, procVars
<1>2. CASE Settle(c, reason)
  BY <1>1, <1>2, SettleMaps DEF IInv, QueueFollowed
<1>3. CASE UNCHANGED result
  BY <1>1, <1>3, Stutter
<1>4. QED
  BY <1>2, <1>3 DEF AbortEvent

(* Every step of GitQueue is a step of MutationQueue or none.              *)
LEMMA StepMaps ==
  ASSUME IInv, [Next]_vars
  PROVE  [Queue!Next]_QueueVars
<1> USE CallsAssumption DEF callVars, procVars, abortVars
<1>1. ASSUME NEW c \in Call, Enqueue(c) PROVE [Queue!Next]_QueueVars
  <2>1. ~Queue!Called(c)
    BY <1>1 DEF Enqueue, IInv, QueueFollowed, Queue!Called
  <2>2. Queue!Enqueue(c)
    BY <1>1, <2>1 DEF Enqueue, Queue!Enqueue
  <2>3. QED
    BY <1>1, <2>2 DEF Enqueue, Queue!Next
<1>2. ASSUME NEW c \in Call, Start(c) PROVE [Queue!Next]_QueueVars
  BY <1>2, SpawnMaps DEF Start
<1>3. ASSUME NEW c \in Call, Read(c) PROVE [Queue!Next]_QueueVars
  BY <1>3, SpawnMaps DEF Read
<1>4. ASSUME NEW c \in Call, Wake(c) PROVE [Queue!Next]_QueueVars
  <2>1. c \in Mutation => Turn(c)
    BY <1>4 DEF Wake, IInv, QueueFollowed
  <2>2. QED
    BY <1>4, <2>1, SpawnMaps DEF Wake
<1>5. ASSUME NEW c \in Call, GitWrites(c) PROVE [Queue!Next]_QueueVars
  <2>1. Alive(c)
    BY <1>5 DEF GitWrites, Alive, Running
  <2>2. done[c] < Commands(c)
    BY <1>5 DEF GitWrites, IInv, ProgressKept, Writing, TypeOK, Commands
  <2>3. QED
    BY <1>5, <2>1, <2>2, EffectMaps DEF GitWrites
<1>6. ASSUME NEW c \in Call, GitReads(c) PROVE [Queue!Next]_QueueVars
  <2>1. Alive(c) /\ done[c] < Commands(c)
    BY <1>6 DEF GitReads, Alive, Running, IInv, ProgressKept
  <2>2. CASE done' = [done EXCEPT ![c] = @ + 1]
    BY <1>6, <2>1, <2>2, EffectMaps DEF GitReads
  <2>3. CASE UNCHANGED done
    BY <1>6, <2>3, Stutter DEF GitReads
  <2>4. QED
    BY <1>6, <2>2, <2>3 DEF GitReads
<1>7. ASSUME NEW c \in Call, Cancel(c) PROVE [Queue!Next]_QueueVars
  <2>1. CASE at[c] = "running" /\ AbortEvent(c, "cancelled")
    BY <1>7, <2>1, AbortMaps DEF Cancel
  <2>2. CASE ~(at[c] = "running" /\ AbortEvent(c, "cancelled"))
    BY <1>7, <2>2, Stutter DEF Cancel
  <2>3. QED
    BY <2>1, <2>2
<1>8. ASSUME NEW c \in Call, TimeoutFires(c) PROVE [Queue!Next]_QueueVars
  BY <1>8, AbortMaps DEF TimeoutFires
<1>9. ASSUME NEW c \in Call, AbortedAtSpawn(c) PROVE [Queue!Next]_QueueVars
  <2>1. c \in Mutation => aborted[c] = "timeout"
    BY <1>9 DEF AbortedAtSpawn, Aborted, IInv, TypeOK, OutlivesOnTimeout
  <2>2. QED
    BY <1>9, <2>1, AbortMaps DEF AbortedAtSpawn
<1>10. ASSUME NEW c \in Call, CloseAborted(c) PROVE [Queue!Next]_QueueVars
  <2>1. c \in Mutation => aborted[c] = "timeout" /\ Turn(c)
    BY <1>10 DEF CloseAborted, Closing, Aborted, IInv, TypeOK, OutlivesOnTimeout,
       QueueFollowed
  <2>2. QED
    BY <1>10, <2>1, SettleMaps DEF CloseAborted, Closing
<1>11. ASSUME NEW c \in Call, CloseDone(c) PROVE [Queue!Next]_QueueVars
  <2>1. at[c] = "running" /\ (c \in Mutation => Turn(c))
    BY <1>11 DEF CloseDone, Closing, IInv, QueueFollowed
  <2>2. CASE done[c] < Commands(c)
    BY <1>11, <2>1, <2>2, SpawnMaps DEF CloseDone
  <2>3. CASE ~(done[c] < Commands(c))
    <3>1. done[c] = Commands(c)
      BY <2>3 DEF IInv, ProgressKept, TypeOK, Commands
    <3>2. QED
      BY <1>11, <2>1, <2>3, <3>1, SettleMaps DEF CloseDone
  <2>4. QED
    BY <2>2, <2>3
<1>12. ASSUME NEW c \in Call, CloseFailed(c) PROVE [Queue!Next]_QueueVars
  <2>1. at[c] = "running" /\ (c \in Mutation => Turn(c))
    BY <1>12 DEF CloseFailed, Closing, IInv, QueueFollowed
  <2>2. /\ proc[c] \in {"failed", "locked", "raced"}
        /\ proc[c] \in {"locked", "raced"} => done[c] < Commands(c)
    BY <1>12, <2>1 DEF CloseFailed, Closing, Alive, Running, Exited, IInv, TypeOK,
       ProgressKept
  <2>3. QED
    BY <1>12, <2>1, <2>2, SettleMaps DEF CloseFailed
<1>13. ASSUME NEW c \in Call,
              \/ GitLocks(c) \/ GitFindsLock(c) \/ GitFinishes(c) \/ GitFails(c)
              \/ GitTerminates(c) \/ DescendantEnds(c) \/ EscalationFires(c)
              \/ CloseRetry(c)
       PROVE [Queue!Next]_QueueVars
  <2>1. UNCHANGED <<queue, done, result>>
    BY <1>13 DEF GitLocks, GitFindsLock, GitFinishes, GitFails, GitTerminates,
       DescendantEnds, EscalationFires, CloseRetry
  <2>2. QED
    BY <2>1, Stutter
<1>14. ASSUME ExternalLocks \/ ExternalUnlocks \/ BreakerExpires \/ UNCHANGED vars
       PROVE [Queue!Next]_QueueVars
  <2>1. UNCHANGED <<queue, done, result>>
    BY <1>14 DEF ExternalLocks, ExternalUnlocks, BreakerExpires, vars
  <2>2. QED
    BY <2>1, Stutter
<1>15. QED
  BY <1>1, <1>2, <1>3, <1>4, <1>5, <1>6, <1>7, <1>8, <1>9, <1>10, <1>11, <1>12,
     <1>13, <1>14
  DEF Next, Caller, Git, Loop

(* The queue keeps the promise of MutationQueue: effects in the order of   *)
(* the calls, none twice, none after its call except after a timeout, and  *)
(* outcomes that say what happened.                                        *)
THEOREM KeepsPromise == Spec => QueueSpec
<1>1. Init => Queue!Init
  BY CallsAssumption DEF Init, Queue!Init
<1>2. QED
  BY <1>1, StepMaps, Invariance, PTL DEF Spec, QueueSpec, Queue!Spec, QueueVars
=============================================================================
