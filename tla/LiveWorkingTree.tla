---------------------------- MODULE LiveWorkingTree ----------------------------
(***************************************************************************)
(* How a change in the working tree reaches the Changes list: the recursive*)
(* watcher with its ignore list and verdict cache (git-core's worktree-    *)
(* Watcher.ts), the debounce of the refs watcher (watcher.ts), the filter  *)
(* for the app's own saves (SelfWriteRegistry, main.ts), and the coalesced *)
(* status reads of the renderer (coalescedRunner.ts, refreshWorkingTreeLive*)
(* and refreshWorkingDirStatus in useRepositoryGraph.ts).                  *)
(*                                                                         *)
(* What the list shows is abstracted to the paths whose present state it   *)
(* shows (shown), and the same for the answer of a status read (sees): a   *)
(* change of a path takes it out of all of these.  There is no clock: a    *)
(* timer that was set is fresh, in time ripe, and may then fire; setting it*)
(* anew makes it fresh.  Every file has a top-level directory of its own.  *)
(* The names the watcher drops at once (.git, index.lock, the temporary    *)
(* file of a save) send no events here, nor do directories.                *)
(***************************************************************************)
EXTENDS Integers, Sequences, FiniteSets, SequencesExt

CONSTANTS
  File,
  MaxPending, MaxPaths,  \* MAX_PENDING_EVENTS, DEFAULT_MAX_PATHS
  MaxEvents,             \* bound: events of the file system under way
  Budgets                \* bounds on the steps of the environment, one of which holds

Rules == "gitignore"     \* every .gitignore
Path  == File \cup {Rules}
Timer == {"debounce", "maxWait", "ignore", "refs", "run", "cap"}
Step  == {"write", "rules", "index", "save", "ignore", "lost", "failure", "filter", "focus",
          "degrade", "noise"}

ASSUME LiveWorkingTreeAssumption ==
  /\ Rules \notin File /\ IsFiniteSet(File)
  /\ {MaxPending, MaxPaths, MaxEvents} \subseteq Nat \ {0}
  /\ Budgets \subseteq [Step -> Nat]

VARIABLES
  (* how git ignores each file: not, by a pattern, or with its directory *)
  rules,
  (* the watcher: file system events under way, its state, its batches *)
  events, watch, pending, overflowed, flush, refresh,
  (* the main process: saves whose echo is dropped, reports being checked *)
  recorded, reports,
  (* the renderer: an event under way, the runner, the reads, the list *)
  ipc, runner, reads, shown,
  timers, spent, missed

batches == <<pending, overflowed, flush>>
main    == <<recorded, reports>>
vars    == <<rules, events, watch, batches, refresh, main, ipc, runner, reads, shown, timers, spent, missed>>

Spend(k) == /\ spent[k] > 0
            /\ spent' = [spent EXCEPT ![k] = @ - 1]

Ignored(p) == p \in File /\ rules[p] # "no"

NoCache   == [p \in Path |-> "unknown"]
NewWatch  == [at |-> "walking", top |-> {}, cache |-> NoCache, ready |-> FALSE, unheard |-> FALSE]
NoFlush   == [at |-> "off", again |-> FALSE, kept |-> {}, unknown |-> {}, ignored |-> {}, cacheable |-> TRUE]
NoRefresh == [at |-> "off", trailing |-> FALSE, found |-> {}]
NoRead    == [at |-> "off", sees |-> {}, stale |-> FALSE]
Asked     == [at |-> "asked", sees |-> {}, stale |-> FALSE]

-----------------------------------------------------------------------------
(* Timers.  scheduleFlush and the runner's request set one timer anew each *)
(* time and bound the wait since the first time by another.                *)

ScheduleUnbounded(ts, timer, bound) == [ts EXCEPT ![timer] = "fresh"]     \* a mutant
Schedule(ts, timer, bound) ==
  [ts EXCEPT ![timer] = "fresh", ![bound] = IF @ = "off" THEN "fresh" ELSE @]
ScheduleFlush(ts) == Schedule(ts, "debounce", "maxWait")
Request(ts)       == Schedule(ts, "run", "cap")

Due(timer, bound) == timers[timer] = "ripe" \/ timers[bound] = "ripe"
Off(ts, which)    == [t \in Timer |-> IF t \in which THEN "off" ELSE ts[t]]

Ripen(t) ==
  /\ timers[t] = "fresh"
  /\ timers' = [timers EXCEPT ![t] = "ripe"]
  /\ UNCHANGED <<rules, events, watch, batches, refresh, main, ipc, runner, reads, shown, spent, missed>>

-----------------------------------------------------------------------------
(* The code lets the changes of ps go by without a report or a read; or a  *)
(* watcher that runs hears of them.                                        *)
Miss(ps) == missed' = missed \cup (ps \ shown)
Hear(ps) == missed' = IF watch.at = "watching" THEN missed \ ps ELSE missed \cup ps

Unseen(rs, ps) == [k \in DOMAIN rs |-> [rs[k] EXCEPT !.sees = @ \ ps]]
Changed(ps) ==
  /\ shown' = shown \ ps
  /\ reads' = Unseen(reads, ps)
ChangedAndAsked(ps) ==
  /\ shown' = shown \ ps
  /\ reads' = [Unseen(reads, ps) EXCEPT !.direct.at = "due"]
  /\ missed' = missed \ ps

(* The operating system reports a change of p to a watcher that runs.      *)
Emit(p) ==
  /\ Len(events) < MaxEvents
  /\ events' = IF watch.at = "watching" THEN Append(events, p) ELSE events

-----------------------------------------------------------------------------
(* The working tree, and what the application does in it.                  *)

(* The status does not tell of an ignored file.                            *)
ExternalWrite(f) ==
  /\ Spend("write")
  /\ Emit(f)
  /\ recorded' = recorded \ {f}
  /\ IF Ignored(f) THEN UNCHANGED <<shown, reads, missed>> ELSE Changed({f}) /\ Hear({f})
  /\ UNCHANGED <<rules, watch, batches, refresh, reports, ipc, runner, timers>>

(* Writes that leave the status as it is, for ever if need be: of ignored  *)
(* files, and of files that are already listed.                            *)
Touch(p) ==
  /\ p \in File
  /\ spent["noise"] > 0
  /\ watch.at = "watching"
  /\ Emit(p)
  /\ recorded' = recorded \ {p}
  /\ UNCHANGED <<rules, watch, batches, refresh, reports, ipc, runner, reads, shown, timers, spent, missed>>

EditRules(f, how) ==
  /\ rules[f] # how
  /\ Spend("rules")
  /\ rules' = [rules EXCEPT ![f] = how]
  /\ Emit(Rules)
  /\ Changed({f, Rules})
  /\ Hear({f, Rules})
  /\ UNCHANGED <<watch, batches, refresh, main, ipc, runner, timers>>

(* `git add' elsewhere: the watch of the git directory sees the index.     *)
IndexChange(f) ==
  /\ rules[f] = "no"
  /\ Spend("index")
  /\ Changed({f})
  /\ missed' = missed \ {f}
  /\ timers' = [timers EXCEPT !.refs = "fresh"]
  /\ UNCHANGED <<rules, events, watch, batches, refresh, main, ipc, runner>>

(* The editor saves; when it has the answer it reads the status itself.    *)
OwnSave(f) ==
  /\ rules[f] = "no" /\ reads.direct.at = "off"
  /\ Spend("save")
  /\ Emit(f)
  /\ recorded' = recorded \cup {f}
  /\ ChangedAndAsked({f})
  /\ UNCHANGED <<rules, watch, batches, refresh, reports, ipc, runner, timers>>

Expire(f) ==
  /\ f \in recorded
  /\ recorded' = recorded \ {f}
  /\ UNCHANGED <<rules, events, watch, batches, refresh, reports, ipc, runner, reads, shown, timers, spent, missed>>

(* The application adds a rule and starts its watcher anew, which forgets  *)
(* what it had batched; the renderer then reads the status.                *)
RefreshWorktreeIgnoreList ==
  /\ watch' = NewWatch
  /\ events' = <<>>
  /\ pending' = {} /\ overflowed' = FALSE
  /\ flush' = NoFlush
  /\ refresh' = NoRefresh
  /\ timers' = Off(timers, {"debounce", "maxWait", "ignore"})

IgnorePaths(f) ==
  /\ rules[f] = "no" /\ reads.direct.at = "off"
  /\ Spend("ignore")
  /\ rules' = [rules EXCEPT ![f] = "file"]
  /\ ChangedAndAsked({f, Rules})
  /\ IF watch.at # "degraded" THEN RefreshWorktreeIgnoreList
     ELSE UNCHANGED <<watch, events, batches, refresh, timers>>
  /\ UNCHANGED <<main, ipc, runner>>

-----------------------------------------------------------------------------
(* The watcher starts once the tree has been walked, or never; and it may  *)
(* stop, after which only a focus or the index brings changes to the list. *)

StartIgnoreRefresh ==
  /\ refresh' = [NoRefresh EXCEPT !.at = "called"]
  /\ watch' = [watch EXCEPT !.cache = NoCache, !.unheard = FALSE]
  /\ flush' = [flush EXCEPT !.cacheable = FALSE]

StartWatching ==
  /\ watch.at = "walking"
  /\ watch' = [NewWatch EXCEPT !.at = "watching"]
  /\ refresh' = [NoRefresh EXCEPT !.at = "called"]
  /\ UNCHANGED <<rules, events, batches, main, ipc, runner, reads, shown, timers, spent, missed>>

Degrade ==
  /\ watch.at # "degraded"
  /\ Spend("degrade")
  /\ watch' = [watch EXCEPT !.at = "degraded"]
  /\ events' = <<>>
  /\ pending' = {} /\ overflowed' = FALSE
  /\ flush' = NoFlush
  /\ timers' = Off(timers, {"debounce", "maxWait", "ignore"})
  /\ UNCHANGED <<rules, refresh, main, ipc, runner, reads, shown>>
  /\ Miss(Path)

(* While the rules have changed and the watcher has not come to terms with *)
(* it, or will not (its event was lost), it may drop what is not ignored.  *)
RulesUnsettled == \/ Rules \in ToSet(events) \/ watch.unheard
                  \/ timers.ignore # "off" \/ refresh.at # "off"
Drop(ps) == Miss(IF RulesUnsettled THEN {p \in ps : ~Ignored(p)} ELSE {})

(* onEvent.                                                                *)
OnEventIgnored ==
  /\ events # <<>> /\ Head(events) \in watch.top
  /\ events' = Tail(events)
  /\ UNCHANGED <<rules, watch, batches, refresh, main, ipc, runner, reads, shown, timers, spent>>
  /\ Drop({Head(events)})

OnEvent ==
  /\ events # <<>> /\ Head(events) \notin watch.top
  /\ events' = Tail(events)
  /\ IF Cardinality(pending) >= MaxPending THEN overflowed' = TRUE /\ UNCHANGED pending
     ELSE pending' = pending \cup {Head(events)} /\ UNCHANGED overflowed
  /\ timers' = [ScheduleFlush(timers) EXCEPT !.ignore = IF Head(events) = Rules THEN "fresh" ELSE @]
  /\ UNCHANGED <<rules, watch, flush, refresh, main, ipc, runner, reads, shown, spent, missed>>

(* The system has lost events and says so by one without a name.           *)
EventsLost ==
  /\ events # <<>>
  /\ Spend("lost")
  /\ events' = <<>>
  /\ overflowed' = TRUE
  /\ watch' = [watch EXCEPT !.unheard = @ \/ Rules \in ToSet(events)]
  /\ timers' = ScheduleFlush(timers)
  /\ UNCHANGED <<rules, pending, flush, refresh, main, ipc, runner, reads, shown, missed>>

-----------------------------------------------------------------------------
(* flush: takes the batch once the first ignore list is there, drops what  *)
(* the cache or git calls ignored, and reports the rest.                   *)

Report(paths, truncated) ==
  \E some \in SUBSET paths :
    /\ Cardinality(some) = IF Cardinality(paths) > MaxPaths THEN MaxPaths ELSE Cardinality(paths)
    /\ reports' = reports \cup {[paths |-> some, truncated |-> truncated \/ some # paths]}
ReportKept(kept) == IF kept = {} THEN UNCHANGED reports ELSE Report(kept, FALSE)

ForgetsRest(ts, more) == ts     \* a mutant
Rearm(ts, more) == IF more THEN ScheduleFlush(ts) ELSE ts

Batch(verdict) == {p \in pending : watch.cache[p] = verdict}
TakeBatch(ts) ==
  /\ pending' = {} /\ overflowed' = FALSE
  /\ IF overflowed \/ Batch("unknown") = {}
     THEN /\ flush' = NoFlush
          /\ timers' = Rearm(ts, flush.again)
          /\ IF overflowed THEN Report(pending, TRUE) ELSE ReportKept(Batch("kept"))
          /\ Drop(IF overflowed THEN {} ELSE Batch("ignored"))
     ELSE /\ flush' = [NoFlush EXCEPT !.at = "called", !.again = flush.again,
                                      !.kept = Batch("kept"), !.unknown = Batch("unknown")]
          /\ timers' = ts
          /\ Drop(Batch("ignored"))
          /\ UNCHANGED reports

Fired == Off(timers, {"debounce", "maxWait"})
FlushStarts ==
  /\ Due("debounce", "maxWait") /\ flush.at = "off"
  /\ IF watch.ready THEN TakeBatch(Fired)
     ELSE /\ flush' = [flush EXCEPT !.at = "waiting"]
          /\ timers' = Fired
          /\ UNCHANGED <<pending, overflowed, reports, missed>>
  /\ UNCHANGED <<rules, events, watch, refresh, recorded, ipc, runner, reads, shown, spent>>

FlushAgain ==
  /\ Due("debounce", "maxWait") /\ flush.at # "off"
  /\ flush' = [flush EXCEPT !.again = TRUE]
  /\ timers' = Fired
  /\ UNCHANGED <<rules, events, watch, pending, overflowed, refresh, main, ipc, runner, reads, shown, spent, missed>>

FlushIsReady ==
  /\ flush.at = "waiting" /\ watch.ready
  /\ TakeBatch(timers)
  /\ UNCHANGED <<rules, events, watch, refresh, recorded, ipc, runner, reads, shown, spent>>

(* git check-ignore; a failure counts as not ignored and is not cached.    *)
CheckIgnored ==
  /\ flush.at = "called"
  /\ \/ /\ flush' = [flush EXCEPT !.at = "answered", !.ignored = {p \in flush.unknown : Ignored(p)}]
        /\ UNCHANGED spent
     \/ /\ Spend("failure")
        /\ flush' = [flush EXCEPT !.at = "answered", !.cacheable = FALSE]
  /\ UNCHANGED <<rules, events, watch, pending, overflowed, refresh, main, ipc, runner, reads, shown, timers, missed>>

FilterIgnored ==
  /\ flush.at = "answered"
  /\ watch' = IF flush.cacheable
              THEN [watch EXCEPT !.cache = [p \in Path |->
                      IF p \notin flush.unknown THEN @[p]
                      ELSE IF p \in flush.ignored THEN "ignored" ELSE "kept"]]
              ELSE watch
  /\ ReportKept(flush.kept \cup (flush.unknown \ flush.ignored))
  /\ flush' = NoFlush
  /\ timers' = Rearm(timers, flush.again \/ pending # {} \/ overflowed)
  /\ UNCHANGED <<rules, events, pending, overflowed, refresh, recorded, ipc, runner, reads, shown, spent>>
  /\ Drop(flush.ignored)

-----------------------------------------------------------------------------
(* The list of ignored top-level directories.                              *)

IgnoreFires ==
  /\ timers.ignore = "ripe"
  /\ timers' = Off(timers, {"ignore"})
  /\ IF refresh.at = "off" THEN StartIgnoreRefresh
     ELSE refresh' = [refresh EXCEPT !.trailing = TRUE] /\ UNCHANGED <<watch, flush>>
  /\ UNCHANGED <<rules, events, pending, overflowed, main, ipc, runner, reads, shown, spent, missed>>

ComputeIgnoredTopLevelDirs ==
  /\ refresh.at = "called"
  /\ \/ /\ refresh' = [refresh EXCEPT !.at = "answered", !.found = {f \in File : rules[f] = "dir"}]
        /\ UNCHANGED spent
     \/ /\ Spend("failure")
        /\ refresh' = [refresh EXCEPT !.at = "answered"]
  /\ UNCHANGED <<rules, events, watch, batches, main, ipc, runner, reads, shown, timers, missed>>

IgnoreListLands ==
  /\ refresh.at = "answered"
  /\ IF refresh.trailing
     THEN /\ watch' = [watch EXCEPT !.top = refresh.found, !.cache = NoCache]
          /\ refresh' = [NoRefresh EXCEPT !.at = "called"]
          /\ flush' = [flush EXCEPT !.cacheable = FALSE]
     ELSE /\ watch' = [watch EXCEPT !.top = refresh.found, !.ready = TRUE]
          /\ refresh' = NoRefresh
          /\ UNCHANGED flush
  /\ UNCHANGED <<rules, events, pending, overflowed, main, ipc, runner, reads, shown, timers, spent, missed>>

-----------------------------------------------------------------------------
(* The main process: reports that say only that the app saved are dropped; *)
(* checks under way together end together.                                 *)

Covered(r) == ~r.truncated /\ r.paths # {} /\ r.paths \subseteq recorded
CoversChange ==
  /\ reports # {}
  /\ reports' = {}
  /\ ipc' = (ipc \/ \E r \in reports : ~Covered(r))
  /\ UNCHANGED <<rules, events, watch, batches, refresh, recorded, runner, reads, shown, timers, spent, missed>>

RefsFire ==
  /\ timers.refs = "ripe"
  /\ timers' = Off(timers, {"refs"})
  /\ ipc' = TRUE
  /\ UNCHANGED <<rules, events, watch, batches, refresh, main, runner, reads, shown, spent, missed>>

-----------------------------------------------------------------------------
(* The renderer.                                                           *)

OnChanged ==
  /\ ipc
  /\ ipc' = FALSE
  /\ timers' = Request(timers)
  /\ UNCHANGED <<rules, events, watch, batches, refresh, main, runner, reads, shown, spent, missed>>

Focus ==
  /\ Spend("focus")
  /\ timers' = Request(timers)
  /\ UNCHANGED <<rules, events, watch, batches, refresh, main, ipc, runner, reads, shown, missed>>

RunnerStarts ==
  /\ Due("run", "cap")
  /\ timers' = Off(timers, {"run", "cap"})
  /\ IF runner.inFlight THEN runner' = [runner EXCEPT !.trailing = TRUE] /\ UNCHANGED reads
     ELSE /\ runner' = [runner EXCEPT !.inFlight = TRUE]
          /\ reads' = [reads EXCEPT !.live = Asked]
  /\ UNCHANGED <<rules, events, watch, batches, refresh, main, ipc, shown, spent, missed>>

RefreshWorkingDirStatus ==
  /\ reads.direct.at = "due"
  /\ reads' = [reads EXCEPT !.direct = Asked]
  /\ UNCHANGED <<rules, events, watch, batches, refresh, main, ipc, runner, shown, timers, spent, missed>>

ReadStatus(k) ==
  /\ reads[k].at = "asked"
  /\ \/ reads' = [reads EXCEPT ![k].at = "answered", ![k].sees = Path] /\ UNCHANGED spent
     \/ reads' = [reads EXCEPT ![k].at = "failed", ![k].sees = Path] /\ Spend("failure")
  /\ UNCHANGED <<rules, events, watch, batches, refresh, main, ipc, runner, shown, timers, missed>>

(* The list after the answer r (applyWorkingDirChanges).  An answer that   *)
(* failed, or that a filter has made obsolete, is let go, and one that is  *)
(* older than what is shown is taken; neither leads to another read.       *)
Apply(r) ==
  IF r.at = "answered" /\ ~r.stale
  THEN shown' = r.sees /\ missed' = (missed \cup shown) \ r.sees
  ELSE shown' = shown  /\ missed' = missed \cup (r.sees \ shown)

LiveReadLands ==
  /\ reads.live.at \in {"answered", "failed"}
  /\ Apply(reads.live)
  /\ reads' = [reads EXCEPT !.live = IF runner.trailing THEN Asked ELSE NoRead]
  /\ runner' = [inFlight |-> runner.trailing, trailing |-> FALSE]
  /\ UNCHANGED <<rules, events, watch, batches, refresh, main, ipc, timers, spent>>

DirectReadLands ==
  /\ reads.direct.at \in {"answered", "failed"}
  /\ Apply(reads.direct)
  /\ reads' = [reads EXCEPT !.direct = NoRead]
  /\ UNCHANGED <<rules, events, watch, batches, refresh, main, ipc, runner, timers, spent>>

(* A filter moves the generation on.                                       *)
ApplyFilter ==
  /\ Spend("filter")
  /\ reads' = [k \in DOMAIN reads |-> [reads[k] EXCEPT !.stale = @ \/ reads[k].at \in {"asked", "answered"}]]
  /\ UNCHANGED <<rules, events, watch, batches, refresh, main, ipc, runner, shown, timers, missed>>

-----------------------------------------------------------------------------
(* The repository has just been opened, its status read before.            *)
Init ==
  /\ rules \in [File -> {"no", "file", "dir"}]
  /\ events = <<>> /\ watch = NewWatch
  /\ pending = {} /\ overflowed = FALSE /\ flush = NoFlush /\ refresh = NoRefresh
  /\ recorded = {} /\ reports = {}
  /\ ipc = FALSE
  /\ runner = [inFlight |-> FALSE, trailing |-> FALSE]
  /\ reads = [live |-> NoRead, direct |-> NoRead]
  /\ shown = Path
  /\ timers = [t \in Timer |-> "off"]
  /\ spent \in Budgets
  /\ missed = {}

Environment ==
  \/ \E f \in File : \/ ExternalWrite(f) \/ IndexChange(f) \/ OwnSave(f) \/ IgnorePaths(f) \/ Expire(f)
                     \/ \E how \in {"no", "file", "dir"} : EditRules(f, how)
  \/ \E p \in Path : Touch(p)
  \/ Degrade \/ EventsLost \/ Focus \/ ApplyFilter

Next ==
  \/ Environment
  \/ \E t \in Timer : Ripen(t)
  \/ StartWatching \/ OnEventIgnored \/ OnEvent
  \/ FlushStarts \/ FlushAgain \/ FlushIsReady \/ CheckIgnored \/ FilterIgnored
  \/ IgnoreFires \/ ComputeIgnoredTopLevelDirs \/ IgnoreListLands
  \/ CoversChange \/ RefsFire
  \/ OnChanged \/ RunnerStarts \/ RefreshWorkingDirStatus
  \/ \E k \in {"live", "direct"} : ReadStatus(k)
  \/ LiveReadLands \/ DirectReadLands

(* Timers run out and fire, events and messages arrive, git answers.       *)
Fairness ==
  /\ \A t \in Timer : WF_vars(Ripen(t))
  /\ WF_vars(StartWatching) /\ WF_vars(OnEventIgnored \/ OnEvent)
  /\ WF_vars(FlushStarts \/ FlushAgain) /\ WF_vars(FlushIsReady \/ CheckIgnored \/ FilterIgnored)
  /\ WF_vars(IgnoreFires) /\ WF_vars(ComputeIgnoredTopLevelDirs \/ IgnoreListLands)
  /\ WF_vars(CoversChange) /\ WF_vars(RefsFire)
  /\ WF_vars(OnChanged) /\ WF_vars(RunnerStarts)
  /\ WF_vars(ReadStatus("live") \/ LiveReadLands)
  /\ WF_vars(RefreshWorkingDirStatus \/ ReadStatus("direct") \/ DirectReadLands)

Spec == Init /\ [][Next]_vars /\ Fairness

-----------------------------------------------------------------------------
Status == [at : {"off", "due", "asked", "answered", "failed"}, sees : SUBSET Path, stale : BOOLEAN]

(* Types; and what is batched waits for a timer or for the end of a flush, *)
(* a run that is to follow waits for one in flight.                        *)
TypeOK ==
  /\ rules \in [File -> {"no", "file", "dir"}]
  /\ events \in Seq(Path)
  /\ watch \in [at : {"walking", "watching", "degraded"}, top : SUBSET File,
                cache : [Path -> {"unknown", "ignored", "kept"}], ready : BOOLEAN, unheard : BOOLEAN]
  /\ pending \subseteq Path /\ Cardinality(pending) <= MaxPending /\ overflowed \in BOOLEAN
  /\ flush \in [at : {"off", "waiting", "called", "answered"}, again : BOOLEAN, kept : SUBSET Path,
                unknown : SUBSET Path, ignored : SUBSET Path, cacheable : BOOLEAN]
  /\ refresh \in [at : {"off", "called", "answered"}, trailing : BOOLEAN, found : SUBSET File]
  /\ recorded \subseteq File
  /\ reports \subseteq [paths : SUBSET Path, truncated : BOOLEAN]
  /\ ipc \in BOOLEAN
  /\ runner \in [inFlight : BOOLEAN, trailing : BOOLEAN]
  /\ reads \in [live : Status, direct : Status]
  /\ shown \subseteq Path
  /\ timers \in [Timer -> {"off", "fresh", "ripe"}]
  /\ missed \subseteq Path \ shown
  /\ pending # {} \/ overflowed => timers.debounce # "off" \/ flush.at # "off"
  /\ runner.trailing => runner.inFlight
  /\ runner.inFlight <=> reads.live.at # "off"

(* FR-458 to FR-460: a change in the working tree, the rules or the index  *)
(* comes to be shown, however many other events keep coming (the bounds of *)
(* scheduleFlush and of the coalesced runner), whatever is batched, cached,*)
(* suppressed or read meanwhile, but for what missed names.                *)
ChangeIsShown ==
  \A p \in Path : (p \notin shown) ~> (p \in shown \/ p \in missed)
================================================================================
