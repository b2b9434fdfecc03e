----------------------------- MODULE LiveRefresh -----------------------------
(***************************************************************************)
(* How the renderer keeps the graph in step with the repository            *)
(* (packages/desktop/src/hooks/useRepositoryGraph.ts with selfWriteGate.ts *)
(* and useIdleGate.ts): watcher events and their evaluation, the gates of  *)
(* the app's own mutations, the confirming reads that close them, manual   *)
(* Refresh, and the deferred apply of external changes while idle.         *)
(*                                                                         *)
(* The refs and HEAD of the repository are abstracted to what the          *)
(* comparisons tell apart: ext counts the writes of other processes, own   *)
(* those of the app's mutations, op says whether a merge, rebase or        *)
(* cherry-pick is in progress.  Two snapshots are equal as refs iff ext    *)
(* and own are.  The rows on screen are known by the ext they were read at.*)
(*                                                                         *)
(* confirmedGenerationRef, generationRef and rowsEpochRef are only ever    *)
(* compared with the value a call captured when it started, so each is the *)
(* set of calls in flight whose captured value is out of date.             *)
(***************************************************************************)
EXTENDS Integers, Sequences, FiniteSets

CONSTANTS
  Mutation,     \* the app's own mutations, each issued once
  Eval,         \* evaluations of watcher events that may overlap
  MaxAttempts,  \* SETTLE_RECHECK_MAX_ATTEMPTS
  Budgets       \* bounds on the steps of the environment, one of which holds

Step == {"mutation", "write", "operation", "failure", "filter", "refresh", "fetch", "busy"}

ASSUME LiveRefreshAssumption ==
  /\ MaxAttempts \in Nat
  /\ Budgets \subseteq [Step -> Nat]
  /\ {"manual", "apply", "fetch", "filter"} \cap (Mutation \cup Eval) = {}
  /\ Mutation \cap Eval = {}

VARIABLES
  (* the repository *)
  world, event,
  (* the mutations *)
  mutation, pendingMutations,
  (* what the renderer knows and shows *)
  lastConfirmed, shown, rows, baseline,
  hasExternalChanges, operationStateAlert, pendingExternal,
  (* the calls in flight *)
  call, staleGeneration, staleConfirmed, staleRows,
  settleTimer, settleAttempts, prior,
  (* the user; what the environment has done; history *)
  idle, spent, gap

repository == <<world, event>>
gate     == <<mutation, pendingMutations>>
view     == <<lastConfirmed, shown, rows, baseline>>
notice   == <<hasExternalChanges, operationStateAlert, pendingExternal>>
flight   == <<call, staleGeneration, staleConfirmed, staleRows>>
settle   == <<settleTimer, settleAttempts>>
vars     == <<repository, gate, view, notice, flight, settle, prior, idle, spent, gap>>

Call     == Mutation \cup Eval \cup {"manual", "apply", "fetch", "filter"}
Reload   == Mutation \cup {"manual", "apply", "fetch"}
Snapshot == [ext : Nat, own : Nat, op : BOOLEAN]
NoRows   == -1
Idle     == [at |-> "idle", kind |-> "none", snap |-> [ext |-> 0, own |-> 0, op |-> FALSE],
             rows |-> NoRows, before |-> FALSE]
Asked(k) == [Idle EXCEPT !.at = "asked", !.kind = k]

Init ==
  /\ world = [ext |-> 0, own |-> 0, op |-> FALSE]
  /\ event = FALSE
  /\ mutation = [m \in Mutation |-> [at |-> "idle", wrote |-> 0]]
  /\ pendingMutations = <<>>
  /\ lastConfirmed = world
  /\ shown = world
  /\ rows = 0
  /\ baseline = NoRows
  /\ hasExternalChanges = FALSE
  /\ operationStateAlert = FALSE
  /\ pendingExternal = FALSE
  /\ call = [c \in Call |-> Idle]
  /\ staleGeneration = {}
  /\ staleConfirmed = {}
  /\ staleRows = {}
  /\ settleTimer = FALSE
  /\ settleAttempts = 0
  /\ prior = [banner |-> FALSE, alert |-> FALSE, pending |-> FALSE]
  /\ idle = TRUE
  /\ spent = [k \in Step |-> 0]
  /\ gap = {}

-----------------------------------------------------------------------------
InFlight(cs) == {c \in Call : cs[c].at # "idle"}

Spend(k) ==
  /\ spent' = [spent EXCEPT ![k] = @ + 1]
  /\ \E b \in Budgets : \A j \in Step : spent'[j] <= b[j]

(* A ref/HEAD difference other than the expected one (selfWriteGate.ts).   *)
HasUnexpectedRefChange(pre, post, expectedOwn) ==
  post.ext # pre.ext \/ post.own # expectedOwn

(* A faulty gate that overlooks an alert.                                  *)
IdleDespiteAlert(quiet, gates, alert, cs) ==
  /\ quiet
  /\ gates = <<>>
  /\ \A c \in Reload : cs[c].kind # "rows"
  /\ cs["manual"].at = "idle"

(* isIdleNow: the user is idle, and nothing of this hook's is in flight.   *)
IsIdleNow(quiet, gates, alert, cs) ==
  /\ quiet
  /\ gates = <<>>
  /\ ~alert
  /\ \A c \in Reload : cs[c].kind # "rows"
  /\ cs["manual"].at = "idle"

(* flushPendingExternal, at the end of a handler that leaves these values: *)
(* a deferred change is applied now if the app is idle.  The apply keeps   *)
(* the operation state of the last confirmed snapshot for later.           *)
FlushIf(quiet, pending, banner, gates, alert, cs, opBefore) ==
  IF pending /\ cs["apply"].at = "idle" /\ IsIdleNow(quiet, gates, alert, cs)
    THEN /\ pendingExternal' = FALSE
         /\ hasExternalChanges' = FALSE
         /\ call' = [cs EXCEPT !["apply"] = [Asked("rows") EXCEPT !.before = opBefore]]
    ELSE /\ pendingExternal' = pending
         /\ hasExternalChanges' = banner
         /\ call' = cs

Flush(pending, banner, gates, alert, cs, opBefore) ==
  FlushIf(idle, pending, banner, gates, alert, cs, opBefore)

(* requestExternalApply: apply now, or raise the banner and wait.          *)
RequestExternalApply(gates, alert, cs, opBefore) ==
  Flush(TRUE, TRUE, gates, alert, cs, opBefore)

(* A faulty end that leaves the call's row epoch behind.                   *)
ForgetGeneration(c) == /\ staleGeneration' = staleGeneration \ {c}
                       /\ UNCHANGED staleRows

(* The call c ends; `more' are the calls whose captured counter it moves.  *)
Forget(c)        == /\ staleGeneration' = staleGeneration \ {c}
                    /\ staleRows' = staleRows \ {c}
Ended(c)         == [call EXCEPT ![c] = Idle]
Moved(c, more)   == staleConfirmed' = (staleConfirmed \cup more) \ {c}

(* A notice of the repository's state is dropped because a gate is open.   *)
(* That is covered by the confirming read of an operation that has yet to  *)
(* make it, and is a gap otherwise.                                        *)
ReadToCome ==
  \E m \in Mutation : mutation[m].at = "running" \/ call[m].at = "asked"
DropForGate == gap' = IF ReadToCome THEN gap ELSE gap \cup {"late"}

(* A confirming read lands although another has been recorded since it was *)
(* asked, or has shown what it read and is not through with its rows.      *)
(* Nothing compares the two.                                               *)
Overtaken(c) ==
  IF \/ c \in staleConfirmed
     \/ \E d \in Reload \ {c, "apply"} : call[d].at \in {"walking", "walked"}
    THEN {"overtaken"} ELSE {}

(* A reload fails that has shown the refs and the state it read.  They are *)
(* not the baseline: if they change back, nobody sees a difference.        *)
LeftShown(c) ==
  IF call[c].at = "walking" /\ shown.op # lastConfirmed.op THEN {"shown"} ELSE {}

-----------------------------------------------------------------------------
(* The repository                                                          *)

ExternalWrite ==
  /\ Spend("write")
  /\ world' = [world EXCEPT !.ext = @ + 1]
  /\ event' = TRUE
  /\ UNCHANGED <<gate, view, notice, flight, settle, prior, idle, gap>>

(* Another process starts or ends a merge, rebase or cherry-pick.          *)
ExternalOperation ==
  /\ Spend("operation")
  /\ world' = [world EXCEPT !.op = ~@]
  /\ event' = TRUE
  /\ UNCHANGED <<gate, view, notice, flight, settle, prior, idle, gap>>

-----------------------------------------------------------------------------
(* The app's own mutations                                                 *)

(* beginMutation.  The UI runs one at a time, but does not wait for the    *)
(* confirming read of the one before, which may then read this one's write.*)
BeginMutation(m) ==
  /\ mutation[m].at = "idle"
  /\ \A n \in Mutation : mutation[n].at # "running"
  /\ Spend("mutation")
  /\ mutation' = [mutation EXCEPT ![m].at = "running"]
  /\ pendingMutations' = Append(pendingMutations, [owner |-> m, pre |-> lastConfirmed])
  /\ gap' = IF pendingMutations = <<>> THEN gap ELSE gap \cup {"overlap"}
  /\ UNCHANGED <<repository, view, notice, flight, settle, prior, idle>>

MutationWrites(m) ==
  /\ mutation[m].at = "running"
  /\ mutation[m].wrote = 0
  /\ world' = [world EXCEPT !.own = @ + 1]
  /\ mutation' = [mutation EXCEPT ![m].wrote = world.own + 1]
  /\ event' = TRUE
  /\ UNCHANGED <<pendingMutations, view, notice, flight, settle, prior, idle, spent, gap>>

(* The call returned, having written or not: its confirming read starts,   *)
(* refreshRefs or refreshRefsAndRows.                                      *)
MutationSettles(m) ==
  /\ mutation[m].at = "running"
  /\ mutation' = [mutation EXCEPT ![m].at = "settled"]
  /\ \E kind \in {"refs", "rows"} : call' = [call EXCEPT ![m] = Asked(kind)]
  /\ UNCHANGED <<repository, pendingMutations, view, notice, staleGeneration,
                 staleConfirmed, staleRows, settle, prior, idle, spent, gap>>

(* A fetch settles: refreshRefsAndRows too, though a fetch opens no gate.  *)
FetchSettles ==
  /\ Spend("fetch")
  /\ call["fetch"].at = "idle"
  /\ call' = [call EXCEPT !["fetch"] = Asked("rows")]
  /\ UNCHANGED <<repository, gate, view, notice, staleGeneration, staleConfirmed,
                 staleRows, settle, prior, idle, gap>>

-----------------------------------------------------------------------------
(* Reads                                                                   *)

(* git reads the refs, HEAD and operation state for the call c.            *)
ReadState(c) ==
  /\ call[c].at = "asked"
  /\ call' = [call EXCEPT ![c].at = "answered", ![c].snap = world]
  /\ UNCHANGED <<repository, gate, view, notice, staleGeneration, staleConfirmed,
                 staleRows, settle, prior, idle, spent, gap>>

-----------------------------------------------------------------------------
(* Watcher events and their evaluation                                     *)

(* The debounced event arrives.  An open gate swallows it; otherwise an    *)
(* evaluation starts.                                                      *)
OnRefsChanged ==
  /\ event
  /\ event' = FALSE
  /\ IF pendingMutations # <<>>
       THEN DropForGate /\ UNCHANGED call
       ELSE /\ \E e \in Eval : /\ call[e].at = "idle"
                               /\ call' = [call EXCEPT ![e] = Asked("eval")]
            /\ UNCHANGED gap
  /\ UNCHANGED <<world, gate, view, notice, staleGeneration, staleConfirmed,
                 staleRows, settle, prior, idle, spent>>

(* scheduleSettleRecheck: look again shortly, a bounded number of times.   *)
ScheduleSettleRecheck ==
  IF settleTimer
    THEN UNCHANGED <<settle, gap>>
    ELSE IF settleAttempts >= MaxAttempts
      THEN gap' = gap \cup {"attempts"} /\ UNCHANGED settle
      ELSE /\ settleAttempts' = settleAttempts + 1
           /\ settleTimer' = TRUE
           /\ UNCHANGED gap

SettleTimerFires ==
  /\ settleTimer
  /\ settleTimer' = FALSE
  /\ IF pendingMutations # <<>>
       THEN DropForGate /\ UNCHANGED call
       ELSE /\ \E e \in Eval : /\ call[e].at = "idle"
                               /\ call' = [call EXCEPT ![e] = Asked("eval")]
            /\ UNCHANGED gap
  /\ UNCHANGED <<repository, gate, view, notice, staleGeneration, staleConfirmed,
                 staleRows, settleAttempts, prior, idle, spent>>

(* The evaluation's answer is not used.                                    *)
EvaluationDropped(e) ==
  /\ call[e].at = "answered"
  /\ \/ /\ e \in staleGeneration
        /\ gap' = gap \cup {"filter"}
        /\ UNCHANGED settle
     \/ /\ e \notin staleGeneration
        /\ pendingMutations # <<>>
        /\ DropForGate
        /\ UNCHANGED settle
     \/ /\ e \notin staleGeneration
        /\ pendingMutations = <<>>
        /\ e \in staleConfirmed
        /\ ScheduleSettleRecheck
  /\ call' = Ended(e)
  /\ Forget(e)
  /\ Moved(e, {})
  /\ UNCHANGED <<repository, gate, view, notice, prior, idle, spent>>

(* The verdict: an operation that started or ended alerts, and any other   *)
(* difference from the last confirmed snapshot is applied or deferred.     *)
(* Either way the answer is the new baseline.                              *)
EvaluationDecides(e) ==
  /\ call[e].at = "answered"
  /\ e \notin staleGeneration
  /\ pendingMutations = <<>>
  /\ e \notin staleConfirmed
  /\ settleAttempts' = 0
  /\ lastConfirmed' = call[e].snap
  /\ Moved(e, InFlight(call))
  /\ Forget(e)
  /\ IF call[e].snap.op # lastConfirmed.op
       THEN /\ operationStateAlert' = TRUE
            /\ call' = Ended(e)
            /\ UNCHANGED <<hasExternalChanges, pendingExternal>>
       ELSE /\ UNCHANGED operationStateAlert
            /\ IF HasUnexpectedRefChange(lastConfirmed, call[e].snap, lastConfirmed.own)
                 THEN RequestExternalApply(<<>>, operationStateAlert, Ended(e), call[e].snap.op)
                 ELSE call' = Ended(e) /\ UNCHANGED <<hasExternalChanges, pendingExternal>>
  /\ UNCHANGED <<repository, gate, shown, rows, baseline, settleTimer, prior, idle, spent, gap>>

EvaluationFails(e) ==
  /\ call[e].at = "asked"
  /\ Spend("failure")
  /\ hasExternalChanges' = (hasExternalChanges \/ e \notin staleGeneration)
  /\ gap' = IF e \in staleGeneration THEN gap \cup {"filter"} ELSE gap
  /\ call' = Ended(e)
  /\ Forget(e)
  /\ Moved(e, {})
  /\ UNCHANGED <<repository, gate, view, operationStateAlert, pendingExternal,
                 settle, prior, idle>>

-----------------------------------------------------------------------------
(* refreshRefs: the confirming read that reloads no rows                   *)

(* The gate's diff: anything but the mutation's own outcome (nothing at    *)
(* all if it failed) was written by somebody else.                         *)
WrittenByOthers(m, pre, post) ==
  HasUnexpectedRefChange(pre, post, IF mutation[m].wrote > 0 THEN mutation[m].wrote
                                                            ELSE pre.own)

(* The oldest gate is closed, and its diff decides, before the read is     *)
(* recorded as the new baseline: an apply it starts has captured the       *)
(* counter that the recording then moves.                                  *)
RefreshRefs(m) ==
  /\ call[m].at = "answered"
  /\ call[m].kind = "refs"
  /\ m \notin staleGeneration
  /\ LET gates   == IF pendingMutations = <<>> THEN <<>> ELSE Tail(pendingMutations)
         flagged == /\ pendingMutations # <<>>
                    /\ WrittenByOthers(m, Head(pendingMutations).pre, call[m].snap)
     IN /\ pendingMutations' = gates
        /\ IF flagged
             THEN /\ RequestExternalApply(gates, operationStateAlert, Ended(m),
                                          lastConfirmed.op)
                  /\ Moved(m, InFlight(call'))
             ELSE /\ Flush(pendingExternal, hasExternalChanges, gates,
                           operationStateAlert, Ended(m), call[m].snap.op)
                  /\ Moved(m, InFlight(call))
  /\ shown' = call[m].snap
  /\ lastConfirmed' = call[m].snap
  /\ gap' = gap \cup Overtaken(m)
  /\ Forget(m)
  /\ UNCHANGED <<repository, mutation, rows, baseline, operationStateAlert,
                 settle, prior, idle, spent>>

(* The view has been replaced: the read is dropped, and its gate with it.  *)
RefreshRefsAbandoned(m) ==
  /\ call[m].at = "answered"
  /\ call[m].kind = "refs"
  /\ m \in staleGeneration
  /\ gap' = gap \cup {"filter"}
  /\ call' = Ended(m)
  /\ Forget(m)
  /\ Moved(m, {})
  /\ UNCHANGED <<repository, gate, view, notice, settle, prior, idle, spent>>

(* A fetch opened no gate: the one it closes is a mutation's.              *)
OthersGate(c) == IF c = "fetch" /\ pendingMutations # <<>> THEN {"fetch"} ELSE {}

(* A faulty catch that leaves the failed read's gate open.                 *)
LeaveOldestGate == UNCHANGED <<pendingMutations, hasExternalChanges>>

(* A failed confirming read still closes its gate, toward the banner.      *)
CloseOldestGate ==
  /\ pendingMutations' = IF pendingMutations = <<>> THEN <<>> ELSE Tail(pendingMutations)
  /\ hasExternalChanges' = (hasExternalChanges \/ pendingMutations # <<>>)

(* A confirming read fails: a lock collision past the retry, or a folder   *)
(* that is gone.  Nothing is done for a view that has been replaced.       *)
ConfirmingReadFails(c) ==
  /\ c \in Mutation \cup {"fetch"}
  /\ \/ call[c].at = "asked" /\ c \notin staleGeneration
     \/ call[c].at = "walking"
  /\ Spend("failure")
  /\ IF c \in staleGeneration
       THEN gap' = gap \cup {"filter"} /\ UNCHANGED <<pendingMutations, hasExternalChanges>>
       ELSE /\ CloseOldestGate
            /\ gap' = gap \cup Overtaken(c) \cup OthersGate(c) \cup LeftShown(c)
  /\ call' = Ended(c)
  /\ Forget(c)
  /\ Moved(c, {})
  /\ UNCHANGED <<repository, mutation, view, operationStateAlert, pendingExternal,
                 settle, prior, idle>>

-----------------------------------------------------------------------------
(* refreshRefsAndRows: the read that reloads the rows as well              *)

(* A faulty reload that closes a gate on a manual Refresh too.             *)
ClosesAlways(c) == TRUE

(* opts.closesGate: a manual Refresh opened no gate and closes none.       *)
ClosesGate(c) == c # "manual"

(* Refs and state are shown at once; the old readers are closed and the    *)
(* rows read again.                                                        *)
ShowRefs(c) ==
  /\ call[c].at = "answered"
  /\ call[c].kind = "rows"
  /\ c # "apply"
  /\ c \notin staleGeneration
  /\ shown' = call[c].snap
  /\ baseline' = NoRows
  /\ call' = [call EXCEPT ![c].at = "walking"]
  /\ gap' = gap \cup Overtaken(c)
  /\ UNCHANGED <<repository, gate, lastConfirmed, rows, notice, staleGeneration,
                 staleConfirmed, staleRows, settle, prior, idle, spent>>

(* A new reader replaces the row list, and the walk behind it is read.     *)
StartReader(c) ==
  /\ call[c].at = "walking"
  /\ c # "apply"
  /\ c \notin staleGeneration
  /\ call' = [call EXCEPT ![c].at = "walked", ![c].rows = world.ext]
  /\ staleRows' = (staleRows \cup InFlight(call)) \ {c}
  /\ UNCHANGED <<repository, gate, view, notice, staleGeneration, staleConfirmed,
                 settle, prior, idle, spent, gap>>

(* The rows are there: the oldest gate is closed unless this is a manual   *)
(* Refresh, and the first read becomes the baseline.                       *)
RefreshRefsAndRows(c) ==
  /\ c \in Reload \ {"apply"}
  /\ call[c].at = "walked"
  /\ c \notin staleGeneration
  /\ rows' = IF c \in staleRows THEN rows ELSE call[c].rows
  /\ pendingMutations' = IF ClosesGate(c) /\ pendingMutations # <<>>
                           THEN Tail(pendingMutations) ELSE pendingMutations
  /\ gap' = gap \cup Overtaken(c) \cup OthersGate(c)
  /\ lastConfirmed' = call[c].snap
  /\ Moved(c, InFlight(call))
  /\ Forget(c)
  /\ Flush(pendingExternal, hasExternalChanges, pendingMutations', operationStateAlert,
           Ended(c), call[c].snap.op)
  /\ UNCHANGED <<repository, mutation, shown, baseline, operationStateAlert, settle,
                 prior, idle, spent>>

(* The view has been replaced meanwhile: whatever was still to be done is  *)
(* not, and the caller takes it for done.                                  *)
RefreshRefsAndRowsAbandoned(c) ==
  /\ c \in Reload \ {"apply"}
  /\ call[c].kind = "rows"
  /\ call[c].at \in {"answered", "walking", "walked"}
  /\ c \in staleGeneration
  /\ gap' = gap \cup {"filter"}
  /\ Forget(c)
  /\ Moved(c, {})
  /\ Flush(pendingExternal, hasExternalChanges, pendingMutations, operationStateAlert,
           Ended(c), lastConfirmed.op)
  /\ UNCHANGED <<repository, gate, view, operationStateAlert, settle, prior, idle, spent>>

-----------------------------------------------------------------------------
(* Manual Refresh                                                          *)

Refresh ==
  /\ Spend("refresh")
  /\ call["manual"].at = "idle"
  /\ prior' = [banner |-> hasExternalChanges, alert |-> operationStateAlert,
               pending |-> pendingExternal]
  /\ hasExternalChanges' = FALSE
  /\ operationStateAlert' = FALSE
  /\ pendingExternal' = FALSE
  /\ call' = [call EXCEPT !["manual"] = Asked("rows")]
  /\ UNCHANGED <<repository, gate, view, staleGeneration, staleConfirmed, staleRows,
                 settle, idle, gap>>

(* A faulty catch that keeps the notices cleared.                          *)
PriorForgotten == [banner |-> FALSE, alert |-> FALSE, pending |-> FALSE]

(* What refresh() had cleared when it started.                             *)
PriorNotices == prior

(* A failed Refresh puts back what it cleared, unless the watcher has set  *)
(* it again.  The ref that the idle gate reads follows the state only when *)
(* the next render is committed, after the flush.                          *)
RefreshFails ==
  /\ \/ call["manual"].at = "asked" /\ "manual" \notin staleGeneration
     \/ call["manual"].at = "walking"
  /\ Spend("failure")
  /\ operationStateAlert' = (operationStateAlert \/ PriorNotices.alert)
  /\ Flush(pendingExternal \/ PriorNotices.pending,
           hasExternalChanges \/ PriorNotices.banner,
           pendingMutations, operationStateAlert, Ended("manual"), lastConfirmed.op)
  /\ gap' = gap \cup Overtaken("manual") \cup LeftShown("manual")
  /\ Forget("manual")
  /\ Moved("manual", {})
  /\ UNCHANGED <<repository, gate, view, settle, prior, idle>>

-----------------------------------------------------------------------------
(* The apply of a deferred change: an in-place reload                      *)

ApplyAnswered ==
  /\ call["apply"].at = "answered"
  /\ "apply" \notin staleGeneration
  /\ call' = [call EXCEPT !["apply"].at = "walking"]
  /\ UNCHANGED <<repository, gate, view, notice, staleGeneration, staleConfirmed,
                 staleRows, settle, prior, idle, spent, gap>>

ReadRowsInPlace ==
  /\ call["apply"].at = "walking"
  /\ call' = [call EXCEPT !["apply"].at = "walked", !["apply"].rows = world.ext]
  /\ UNCHANGED <<repository, gate, view, notice, staleGeneration, staleConfirmed,
                 staleRows, settle, prior, idle, spent, gap>>

(* What flushPendingExternal does after its reload, with `confirmed' the   *)
(* last confirmed snapshot by then: it goes by the counter, whoever moved  *)
(* it.  Busy again: the change stays deferred.  An operation that started  *)
(* or ended inside the reload alerts.                                      *)
AfterApply(moved, confirmed) ==
  LET cs == Ended("apply") IN
  IF ~moved
    THEN hasExternalChanges' = TRUE /\ call' = cs
         /\ UNCHANGED <<operationStateAlert, pendingExternal>>
  ELSE IF ~IsIdleNow(idle, pendingMutations, operationStateAlert, cs)
    THEN /\ pendingExternal' = TRUE
         /\ hasExternalChanges' = TRUE
         /\ call' = cs
         /\ UNCHANGED operationStateAlert
  ELSE IF call["apply"].before # confirmed.op
    THEN /\ operationStateAlert' = TRUE
         /\ call' = cs
         /\ UNCHANGED <<hasExternalChanges, pendingExternal>>
  ELSE /\ UNCHANGED operationStateAlert
       /\ Flush(pendingExternal, hasExternalChanges, pendingMutations,
                operationStateAlert, cs, confirmed.op)

(* Everything is written in one synchronous run.                           *)
ApplyInPlace ==
  /\ call["apply"].at = "walked"
  /\ "apply" \notin staleGeneration \cup staleRows
  /\ shown' = call["apply"].snap
  /\ rows' = call["apply"].rows
  /\ baseline' = NoRows
  /\ lastConfirmed' = call["apply"].snap
  /\ AfterApply(TRUE, call["apply"].snap)
  /\ staleConfirmed' = InFlight(call) \ {"apply"}
  /\ staleRows' = InFlight(call) \ {"apply"}
  /\ staleGeneration' = staleGeneration \ {"apply"}
  /\ gap' = gap \cup Overtaken("apply")
  /\ UNCHANGED <<repository, gate, settle, prior, idle, spent>>

ApplyNotMade ==
  /\ AfterApply("apply" \in staleConfirmed, lastConfirmed)
  /\ gap' = IF "apply" \in staleConfirmed THEN gap \cup {"counter"} ELSE gap
  /\ Forget("apply")
  /\ Moved("apply", {})
  /\ UNCHANGED <<repository, gate, view, settle, prior, idle>>

(* The reload throws, or finds the view or the row list replaced.          *)
ApplyFails ==
  /\ call["apply"].at \in {"asked", "walking"}
  /\ Spend("failure")
  /\ ApplyNotMade

ApplyAbandoned ==
  /\ \/ call["apply"].at = "answered" /\ "apply" \in staleGeneration
     \/ call["apply"].at = "walked" /\ "apply" \in staleGeneration \cup staleRows
  /\ ApplyNotMade
  /\ UNCHANGED spent

-----------------------------------------------------------------------------
(* Filters: they replace the rows and move the generation on               *)

(* applyFilter parks the unfiltered rows when there is a reader to park,   *)
(* and starts a new one.                                                   *)
ApplyFilter ==
  /\ Spend("filter")
  /\ call["filter"].at = "idle"
  /\ staleGeneration' = InFlight(call)
  /\ baseline' \in IF baseline = NoRows THEN {NoRows, rows} ELSE {baseline}
  /\ call' = [call EXCEPT !["filter"].at = "walking"]
  /\ UNCHANGED <<repository, gate, lastConfirmed, shown, rows, notice, staleConfirmed,
                 staleRows, settle, prior, idle, gap>>

FilterShown ==
  /\ \/ call["filter"].at = "walked"
     \/ call["filter"].at = "walking" /\ "filter" \in staleGeneration
  /\ rows' = IF "filter" \in staleGeneration \cup staleRows THEN rows
                                                             ELSE call["filter"].rows
  /\ call' = Ended("filter")
  /\ Forget("filter")
  /\ Moved("filter", {})
  /\ UNCHANGED <<repository, gate, lastConfirmed, shown, baseline, notice, settle,
                 prior, idle, spent, gap>>

(* clearFilter puts the parked rows back.                                  *)
ClearFilter ==
  /\ baseline # NoRows
  /\ staleGeneration' = InFlight(call)
  /\ rows' = baseline
  /\ baseline' = NoRows
  /\ UNCHANGED <<repository, gate, lastConfirmed, shown, notice, call, staleConfirmed,
                 staleRows, settle, prior, idle, spent, gap>>

-----------------------------------------------------------------------------
(* The user (useIdleGate)                                                  *)

BecomeBusy ==
  /\ Spend("busy")
  /\ idle
  /\ idle' = FALSE
  /\ UNCHANGED <<repository, gate, view, notice, flight, settle, prior, gap>>

(* A faulty gate that does not tell its subscribers.                       *)
NotTold == UNCHANGED <<pendingExternal, hasExternalChanges, call>>

(* setBusy(false) of the last busy source: subscribers flush.              *)
IdleSubscribers ==
  FlushIf(TRUE, pendingExternal, hasExternalChanges, pendingMutations,
          operationStateAlert, call, lastConfirmed.op)

BecomeIdle ==
  /\ ~idle
  /\ idle' = TRUE
  /\ IdleSubscribers
  /\ UNCHANGED <<repository, gate, view, operationStateAlert, staleGeneration,
                 staleConfirmed, staleRows, settle, prior, spent, gap>>

-----------------------------------------------------------------------------
MutationStep(m) ==
  \/ BeginMutation(m) \/ MutationWrites(m) \/ MutationSettles(m)
  \/ RefreshRefs(m) \/ RefreshRefsAbandoned(m)

EvalStep(e) == EvaluationDropped(e) \/ EvaluationDecides(e) \/ EvaluationFails(e)

ReloadStep(c) ==
  \/ ShowRefs(c) \/ StartReader(c) \/ RefreshRefsAndRows(c)
  \/ RefreshRefsAndRowsAbandoned(c) \/ ConfirmingReadFails(c)

ApplyStep ==
  ApplyAnswered \/ ReadRowsInPlace \/ ApplyInPlace \/ ApplyFails \/ ApplyAbandoned

Next ==
  \/ ExternalWrite \/ ExternalOperation
  \/ OnRefsChanged \/ SettleTimerFires
  \/ \E m \in Mutation : MutationStep(m)
  \/ \E e \in Eval : EvalStep(e)
  \/ \E c \in Call : ReadState(c) \/ ReloadStep(c)
  \/ FetchSettles \/ Refresh \/ RefreshFails
  \/ ApplyStep
  \/ ApplyFilter \/ FilterShown \/ ClearFilter
  \/ BecomeBusy \/ BecomeIdle

Spec == Init /\ [][Next]_vars

(* Calls settle (git has timeouts), timers and events fire, a user who is  *)
(* busy is idle again at some point.  Nothing obliges anybody to write.    *)
Progress(c) ==
  \/ ReadState(c)
  \/ ReloadStep(c)
  \/ c \in Mutation /\ (MutationSettles(c) \/ RefreshRefs(c) \/ RefreshRefsAbandoned(c))
  \/ c \in Eval /\ EvalStep(c)
  \/ c = "apply" /\ ApplyStep
  \/ c = "filter" /\ FilterShown

Fairness ==
  /\ \A c \in Call : WF_vars(Progress(c))
  /\ WF_vars(OnRefsChanged)
  /\ WF_vars(SettleTimerFires)
  /\ WF_vars(BecomeIdle)

FairSpec == Spec /\ Fairness

-----------------------------------------------------------------------------
(* Every variable has its type, and only calls in flight are out of date.  *)
TypeOK ==
  /\ world \in Snapshot /\ lastConfirmed \in Snapshot /\ shown \in Snapshot
  /\ rows \in Nat /\ baseline \in Nat \cup {NoRows}
  /\ event \in BOOLEAN /\ settleTimer \in BOOLEAN /\ idle \in BOOLEAN
  /\ mutation \in [Mutation -> [at : {"idle", "running", "settled"}, wrote : Nat]]
  /\ pendingMutations \in Seq([owner : Mutation, pre : Snapshot])
  /\ hasExternalChanges \in BOOLEAN
  /\ operationStateAlert \in BOOLEAN
  /\ pendingExternal \in BOOLEAN
  /\ call \in [Call -> [at : {"idle", "asked", "answered", "walking", "walked"},
                        kind : {"none", "refs", "rows", "eval"},
                        snap : Snapshot, rows : Nat \cup {NoRows}, before : BOOLEAN]]
  /\ staleGeneration \subseteq InFlight(call)
  /\ staleConfirmed \subseteq InFlight(call)
  /\ staleRows \subseteq InFlight(call)
  /\ settleAttempts \in 0..MaxAttempts
  /\ prior \in [banner : BOOLEAN, alert : BOOLEAN, pending : BOOLEAN]
  /\ spent \in [Step -> Nat]
  /\ gap \subseteq {"late", "filter", "attempts", "counter", "fetch", "overtaken", "overlap", "shown"}

(* Nothing is under way that could still notice a change.                  *)
Quiet ==
  /\ ~event
  /\ ~settleTimer
  /\ InFlight(call) = {}
  /\ \A m \in Mutation : mutation[m].at # "running"

(* The user sees the repository as it is, or is told that he may not.      *)
OnScreen ==
  \/ hasExternalChanges \/ pendingExternal \/ operationStateAlert
  \/ shown = world /\ rows = world.ext

(* No change made by another process goes unnoticed: once everything has   *)
(* settled, it is on screen or a notice is up (specs/live-refresh.md       *)
(* FR-462 to FR-465).  `gap' names the exceptions the code has.            *)
Surfaced == Quiet /\ gap \subseteq {"overlap"} => OnScreen

(* The app's own writes raise no notice and start no apply, however        *)
(* watcher events, confirming reads, filters and Refresh interleave        *)
(* (specs/self-write-refresh-suppression.md).                              *)
SelfWritesAreSilent ==
  (gap = {} /\ \A k \in {"write", "operation", "failure"} : spent[k] = 0)
    => /\ ~hasExternalChanges /\ ~pendingExternal /\ ~operationStateAlert
       /\ call["apply"].at = "idle"

(* No gate outlives its mutation and the confirming read, failed or not:   *)
(* the watcher is not suppressed for the rest of the session.  A filter    *)
(* that replaces the view under the read is the exception.                 *)
GatesClose ==
  (\A m \in Mutation : mutation[m].at # "running" /\ call[m].at = "idle")
    => pendingMutations = <<>> \/ "filter" \in gap

(* No deferred change is applied under the alert of an operation that      *)
(* another process started or ended: the alert waits for the user (FR-464).*)
(* A failed Refresh that puts back an alert does it in the same step.      *)
AlertHoldsBackApply ==
  [][call["apply"].at = "idle" /\ call'["apply"].at # "idle"
       => \/ ~operationStateAlert'
          \/ RefreshFails /\ prior.alert]_vars

(* A change deferred while the app is busy is applied once it no longer is *)
(* (FR-465: deferred, never dropped), unless an alert takes over.          *)
DeferredIsApplied == pendingExternal ~> (~pendingExternal \/ operationStateAlert)

=============================================================================
