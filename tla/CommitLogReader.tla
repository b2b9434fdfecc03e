--------------------------- MODULE CommitLogReader ---------------------------
(***************************************************************************)
(* The streaming CommitLogReader (packages/git-core/src/commitLog.ts): one *)
(* `git log' process, the events Node delivers about it, the AbortSignal   *)
(* that can end it at any moment, and the one readPage call at a time that *)
(* consumes what it prints.                                                *)
(*                                                                         *)
(* git prints the commits 1..History.  Its output reaches the reader in    *)
(* chunks that need not respect record boundaries, so the stream is        *)
(* counted in half records: half 2k-1 opens record k, half 2k completes it.*)
(*                                                                         *)
(* Node (external) delivers `data', `end', `exit', `error' and `close' of  *)
(* the child; `end' follows the last data, `close' follows `end' and       *)
(* `exit', and aborting a live child's signal sends SIGTERM and emits      *)
(* `error' inside the dispatch of the abort.                               *)
(***************************************************************************)
EXTENDS Integers, Sequences, SequencesExt

CONSTANTS
  History,     \* number of commits in the walk
  Count,       \* page sizes asked for
  MaxChunk,    \* most half records one data event brings
  GitMayFail   \* git may fail to start, exit non-zero or die by itself

ASSUME CommitLogReaderAssumption ==
  /\ History \in Nat
  /\ Count \subseteq Nat \ {0}
  /\ MaxChunk \in Nat \ {0}
  /\ GitMayFail \in BOOLEAN

VARIABLES
  (* fields of the reader *)
  started, buffered, ended, errored, aborted, processExited,
  stdoutEndedBeforeAbort, escalation,
  (* the child process and Node's streams *)
  git, exit, written, received, stdoutEnded, closed,
  (* the readPage call, and what its callers have been given *)
  call, want, delivered, outcome

reader  == <<started, buffered, ended, errored, aborted, processExited,
             stdoutEndedBeforeAbort, escalation>>
process == <<git, exit, written, received, stdoutEnded, closed>>
caller  == <<call, want, delivered, outcome>>
vars    == <<reader, process, caller>>

Init ==
  /\ started = FALSE
  /\ buffered = <<>>
  /\ ended = FALSE
  /\ errored = "no"
  /\ aborted = FALSE
  /\ processExited = FALSE
  /\ stdoutEndedBeforeAbort = FALSE
  /\ escalation = "off"
  /\ git = "none"
  /\ exit = "none"
  /\ written = 0
  /\ received = 0
  /\ stdoutEnded = FALSE
  /\ closed = FALSE
  /\ call = "idle"
  /\ want = 0
  /\ delivered = <<>>
  /\ outcome = "none"

-----------------------------------------------------------------------------
(* A faulty count of records.                                              *)
RecordBefore(h) == h \div 2

(* The record a half record belongs to.                                    *)
RecordOf(h) == (h + 1) \div 2

(* `buffered' after the half records from..to have been appended.          *)
Append2(buf, from, to) ==
  LET first == RecordOf(from)
      last  == RecordOf(to)
      kept  == IF buf # <<>> /\ Last(buf).sha = first THEN Front(buf) ELSE buf
  IN kept \o [i \in 1..(last - first + 1) |->
                [sha |-> first + i - 1, whole |-> 2 * (first + i - 1) <= to]]

(* getCompleteRecords().complete: every record the stream has moved past,  *)
(* and the last one too once the stream has ended.                         *)
Complete == IF ended \/ buffered = <<>> THEN buffered ELSE Front(buffered)

(* What readPage leaves in `buffered' after taking `take' records.         *)
Remainder(take) == SubSeq(buffered, take + 1, Len(buffered))

(* Set by the `end' handler: all output came before any cancel.            *)
EndedBeforeAbort == stdoutEndedBeforeAbort \/ ~aborted

(* A faulty start that spawns git before it arms the escalation: the error *)
(* handler's clear() then removes the listener in the same dispatch.       *)
EscalationCleared == IF escalation = "listening" THEN "cleared" ELSE escalation

(* armEscalation's listener runs first in the dispatch of the abort.       *)
EscalationOnAbort == IF escalation = "listening" THEN "armed" ELSE escalation

(* clear() removes the listener; an armed SIGKILL timer stays armed.       *)
EscalationOnClear == IF escalation = "listening" THEN "cleared" ELSE escalation

(* A faulty error handler without its early return.                        *)
ErroredAlways == "cancelled"

(* The `error' event of an abort: a cancellation, unless all output had    *)
(* already arrived.                                                        *)
ErroredOnAbort == IF stdoutEndedBeforeAbort THEN errored ELSE "cancelled"

(* markCancelled: an abort before all output has arrived fails the reader. *)
MarkCancelled ==
  IF ~stdoutEndedBeforeAbort /\ errored = "no" THEN "cancelled" ELSE errored

-----------------------------------------------------------------------------
(* readPage                                                                *)

(* readPage up to its first suspension, on a reader whose git log already  *)
(* runs.                                                                   *)
ReadPage(count) ==
  /\ call = "idle"
  /\ started
  /\ want' = count
  /\ call' = "ready"
  /\ UNCHANGED <<reader, process, delivered, outcome>>

(* The first readPage: ensureStarted spawns git.  An abort that came       *)
(* before is marked at once and kills the new child: the escalation is     *)
(* armed, and Node emits `error', which also sets `ended'.                 *)
FirstReadPage(count) ==
  /\ call = "idle"
  /\ ~started
  /\ want' = count
  /\ call' = "ready"
  /\ started' = TRUE
  /\ git' = "running"
  /\ escalation' = IF aborted THEN "armed" ELSE "listening"
  /\ errored' = IF aborted THEN "cancelled" ELSE errored
  /\ ended' = aborted
  /\ UNCHANGED <<buffered, aborted, processExited, stdoutEndedBeforeAbort,
                 exit, written, received, stdoutEnded, closed, delivered,
                 outcome>>

(* The first readPage when spawning throws (no git executable).            *)
FirstReadPageThrows(count) ==
  /\ GitMayFail
  /\ call = "idle"
  /\ ~started
  /\ want' = count
  /\ call' = "ready"
  /\ started' = TRUE
  /\ escalation' = IF aborted THEN "armed" ELSE "cleared"
  /\ errored' = IF aborted THEN "cancelled" ELSE "git"
  /\ ended' = TRUE
  /\ UNCHANGED <<buffered, aborted, processExited, stdoutEndedBeforeAbort,
                 process, delivered, outcome>>

Satisfied == Len(Complete) >= want \/ ended

(* fillUntil suspends until the next `data' or `end'.                      *)
Suspend ==
  /\ call = "ready"
  /\ errored = "no"
  /\ ~Satisfied
  /\ call' = "waiting"
  /\ UNCHANGED <<reader, process, want, delivered, outcome>>

(* The page is cut off the buffer.  parseRecord drops a truncated record,  *)
(* or takes what there is of its body.                                     *)
ServePage ==
  /\ call = "ready"
  /\ errored = "no"
  /\ Satisfied
  /\ LET take     == IF want < Len(Complete) THEN want ELSE Len(Complete)
         consumed == SubSeq(Complete, 1, take)
         cut      == take > 0 /\ ~consumed[take].whole
     IN /\ buffered' = Remainder(take)
        /\ outcome' = IF ended /\ take = Len(Complete) THEN "done" ELSE "more"
        /\ \E parsed \in {take} \cup (IF cut THEN {take - 1} ELSE {}) :
             delivered' = delivered \o [i \in 1..parsed |-> consumed[i].sha]
  /\ call' = "idle"
  /\ want' = 0
  /\ UNCHANGED <<started, ended, errored, aborted, processExited,
                 stdoutEndedBeforeAbort, escalation, process>>

(* readPage throws what was recorded.                                      *)
ReadPageThrows ==
  /\ call = "ready"
  /\ errored # "no"
  /\ outcome' = "error"
  /\ call' = "idle"
  /\ want' = 0
  /\ UNCHANGED <<reader, process, delivered>>

-----------------------------------------------------------------------------
(* git and the events of its process                                       *)

GitWrites ==
  /\ git = "running"
  /\ written < 2 * History
  /\ written' = written + 1
  /\ UNCHANGED <<reader, git, exit, received, stdoutEnded, closed, caller>>

GitFinishes ==
  /\ git = "running"
  /\ written = 2 * History
  /\ git' = "exited"
  /\ exit' = "ok"
  /\ UNCHANGED <<reader, written, received, stdoutEnded, closed, caller>>

(* git exits non-zero, or something else kills it.                         *)
GitFails ==
  /\ GitMayFail
  /\ git = "running"
  /\ git' = "exited"
  /\ exit' \in {"nonzero", "signal"}
  /\ UNCHANGED <<reader, written, received, stdoutEnded, closed, caller>>

(* git obeys the SIGTERM of an abort; it may also trap it.                 *)
GitTerminated ==
  /\ git = "running"
  /\ aborted
  /\ git' = "exited"
  /\ exit' = "killed"
  /\ UNCHANGED <<reader, written, received, stdoutEnded, closed, caller>>

(* The grace period after an abort is over: SIGKILL, unless `exit' has     *)
(* been seen.                                                              *)
EscalationFires ==
  /\ escalation = "armed"
  /\ escalation' = "fired"
  /\ IF git = "running" /\ ~processExited
       THEN git' = "exited" /\ exit' = "killed"
       ELSE UNCHANGED <<git, exit>>
  /\ UNCHANGED <<started, buffered, ended, errored, aborted, processExited,
                 stdoutEndedBeforeAbort, written, received, stdoutEnded,
                 closed, caller>>

(* A faulty wait whose listeners are taken off before they fire.           *)
StayAsleep == UNCHANGED call

(* A pending readPage wakes on `data' and `end' only.                      *)
Wake == call' = IF call = "waiting" THEN "ready" ELSE call

(* The `data' handler is never taken off: it runs between pages too.       *)
OnData ==
  /\ received < written
  /\ \E n \in 1..MaxChunk :
       /\ received + n <= written
       /\ received' = received + n
       /\ buffered' = Append2(buffered, received + 1, received + n)
  /\ Wake
  /\ UNCHANGED <<started, ended, errored, aborted, processExited,
                 stdoutEndedBeforeAbort, escalation, git, exit, written,
                 stdoutEnded, closed, want, delivered, outcome>>

OnEnd ==
  /\ git \in {"exited", "unspawned"}
  /\ received = written
  /\ ~stdoutEnded
  /\ stdoutEnded' = TRUE
  /\ ended' = TRUE
  /\ stdoutEndedBeforeAbort' = EndedBeforeAbort
  /\ Wake
  /\ UNCHANGED <<started, buffered, errored, aborted, processExited,
                 escalation, git, exit, written, received, closed, want,
                 delivered, outcome>>

OnExit ==
  /\ git = "exited"
  /\ ~processExited
  /\ processExited' = TRUE
  /\ UNCHANGED <<started, buffered, ended, errored, aborted,
                 stdoutEndedBeforeAbort, escalation, process, caller>>

(* The `error' event of a child that could not be started (the repository  *)
(* folder is gone).                                                        *)
OnSpawnError ==
  /\ GitMayFail
  /\ git = "running"
  /\ written = 0
  /\ ~aborted
  /\ git' = "unspawned"
  /\ ended' = TRUE
  /\ errored' = "git"
  /\ escalation' = EscalationOnClear
  /\ UNCHANGED <<started, buffered, aborted, processExited,
                 stdoutEndedBeforeAbort, exit, written, received, stdoutEnded,
                 closed, caller>>

(* `close': only here is the exit code looked at, and a death by a signal  *)
(* (code null) passes for success.                                         *)
OnClose ==
  /\ stdoutEnded
  /\ processExited \/ git = "unspawned"
  /\ ~closed
  /\ closed' = TRUE
  /\ ended' = TRUE
  /\ escalation' = EscalationOnClear
  /\ errored' = IF errored # "no" \/ (aborted /\ stdoutEndedBeforeAbort) THEN errored
                ELSE IF aborted THEN "cancelled"
                ELSE IF exit = "nonzero" THEN "git"
                ELSE errored
  /\ UNCHANGED <<started, buffered, aborted, processExited,
                 stdoutEndedBeforeAbort, git, exit, written, received,
                 stdoutEnded, caller>>

-----------------------------------------------------------------------------
(* The caller's signal aborts, or close() is called: killController.abort()*)
(* runs its listeners in the order they were added: the escalation's, then *)
(* spawn's (SIGTERM and `error', until `exit' has been seen), then         *)
(* markCancelled, which finds nothing left to do after an `error'.         *)
Abort ==
  /\ ~aborted
  /\ aborted' = TRUE
  /\ escalation' = EscalationOnAbort
  /\ CASE git = "none" -> UNCHANGED <<ended, errored>>
       [] git # "none" /\ (processExited \/ git = "unspawned") ->
            errored' = MarkCancelled /\ UNCHANGED ended
       [] OTHER -> errored' = ErroredOnAbort /\ ended' = TRUE
  /\ UNCHANGED <<started, buffered, processExited, stdoutEndedBeforeAbort,
                 process, caller>>

(* The same on Windows, where the escalation's listener kills the whole    *)
(* process tree at once: spawn's listener finds the child dead and emits   *)
(* no `error'.                                                             *)
AbortTreeKill ==
  /\ ~aborted
  /\ git = "running"
  /\ aborted' = TRUE
  /\ escalation' = EscalationOnAbort
  /\ git' = "exited"
  /\ exit' = "killed"
  /\ errored' = MarkCancelled
  /\ UNCHANGED <<started, buffered, ended, processExited,
                 stdoutEndedBeforeAbort, written, received, stdoutEnded,
                 closed, caller>>

-----------------------------------------------------------------------------
Event == OnData \/ OnEnd \/ OnExit \/ OnSpawnError \/ OnClose

Next ==
  \/ \E count \in Count :
       ReadPage(count) \/ FirstReadPage(count) \/ FirstReadPageThrows(count)
  \/ Suspend \/ ServePage \/ ReadPageThrows
  \/ GitWrites \/ GitFinishes \/ GitFails \/ GitTerminated \/ EscalationFires
  \/ Event \/ Abort \/ AbortTreeKill

(* Node runs its timers, delivers its events and continues an awaiting     *)
(* call.  git itself owes nothing: it may hang, or trap SIGTERM.           *)
Fairness ==
  /\ WF_vars(EscalationFires)
  /\ WF_vars(OnData) /\ WF_vars(OnEnd) /\ WF_vars(OnExit) /\ WF_vars(OnClose)
  /\ WF_vars(Suspend \/ ServePage \/ ReadPageThrows)

Spec == Init /\ [][Next]_vars /\ Fairness

-----------------------------------------------------------------------------
(* Every variable has its type.                                            *)
TypeOK ==
  /\ started \in BOOLEAN /\ ended \in BOOLEAN /\ aborted \in BOOLEAN
  /\ processExited \in BOOLEAN /\ stdoutEndedBeforeAbort \in BOOLEAN
  /\ buffered \in Seq([sha : 1..History, whole : BOOLEAN])
  /\ errored \in {"no", "git", "cancelled"}
  /\ escalation \in {"off", "listening", "cleared", "armed", "fired"}
  /\ git \in {"none", "running", "exited", "unspawned"}
  /\ exit \in {"none", "ok", "nonzero", "signal", "killed"}
  /\ written \in 0..(2 * History) /\ received \in 0..written
  /\ stdoutEnded \in BOOLEAN /\ closed \in BOOLEAN
  /\ call \in {"idle", "ready", "waiting"}
  /\ want \in Count \cup {0}
  /\ delivered \in Seq(1..History)
  /\ outcome \in {"none", "more", "done", "error"}

(* How the walk stands for the pager: complete when all its output came    *)
(* before any abort, cancelled when an abort came first.                   *)
Source == CASE exit \in {"nonzero", "signal"} -> "failed"
            [] exit = "killed" -> "cancelled"
            [] exit = "ok" /\ stdoutEnded ->
                 IF stdoutEndedBeforeAbort THEN "complete" ELSE "cancelled"
            [] OTHER -> "walking"

Pager == INSTANCE LogPager WITH source <- Source

(* What the reader implements: the sequential scan of LogPager.  Pages are *)
(* cut out of the chunks so that no commit is lost, repeated or handed out *)
(* before its end has arrived.  No page of a complete walk fails ("a later *)
(* abort must not turn it into a failure"), and a cancelled walk never     *)
(* yields a last page.                                                     *)
PagerSpec == Pager!Spec

(* FR-164/FR-197: an aborted reader's git is gone in the end, even one     *)
(* that traps SIGTERM, ...                                                 *)
AbortKillsGit == aborted ~> git # "running"

(* ... and a readPage that waits on it returns or throws.                  *)
AbortSettlesPage == aborted /\ call # "idle" ~> call = "idle"
=============================================================================
