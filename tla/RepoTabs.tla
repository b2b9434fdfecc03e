------------------------------- MODULE RepoTabs -------------------------------
(***************************************************************************)
(* Tabs over one live session: useRepoTabs.ts (activate, open, close, the  *)
(* switching lock, the per-tab cache, restore on relaunch) composed with   *)
(* the open protocol of useRepositoryGraph.ts (openRepo, reactivateTab,    *)
(* cancelOpen, closeRepo, captureTabCache).                                *)
(*                                                                         *)
(* A repository is abstracted to how often its refs have changed (disk);   *)
(* what was read of it is a snapshot [repo, ver].  The main process is     *)
(* abstracted to its live repository, which RepoSession justifies.  The    *)
(* evaluation of a watcher event, split into steps in LiveRefresh, is one  *)
(* step here; the reload it starts is not.                                 *)
(*                                                                         *)
(* generationRef is only compared with the value a call captured, so it is *)
(* the `stale' flag of every call in flight.  A handler keeps using the    *)
(* React state of the render its click came from: `seen'.                  *)
(***************************************************************************)
EXTENDS Integers, Sequences, FiniteSets, SequencesExt

CONSTANTS
  Path,      \* what can be picked: folders, some inside another's repository
  Resolve,   \* git's resolved path of each
  NoRepo,    \* null where a repository is expected
  Call,      \* switches and closes that may be in flight together
  Start,     \* the tabs of the session persisted by the last run, as paths
  Budgets    \* bounds on the steps of the environment, one of which holds

Step == {"write", "cancel", "failure", "mutation", "activate", "open", "close",
         "new", "filter", "restart"}

ASSUME RepoTabsAssumption ==
  /\ NoRepo \notin Path
  /\ Resolve \in [Path -> Path]
  /\ \A p \in Path : Resolve[Resolve[p]] = Resolve[p]
  /\ Start \in Seq(Path)
  /\ Budgets \subseteq [Step -> Nat]

VARIABLES
  (* the repositories; the main process *)
  disk, live, event,
  (* useRepoTabs *)
  tabs, activeTabId, notFoundTabId, tabCache, idSeq, switching,
  (* useRepositoryGraph, and its background calls *)
  view, mutation, apply,
  (* the switches in flight; what the environment has done *)
  call, spent

world == <<disk, live, event>>
bar   == <<tabs, activeTabId, notFoundTabId, tabCache, idSeq>>
back  == <<mutation, apply>>
vars  == <<world, bar, switching, view, back, call, spent>>

Root    == {Resolve[p] : p \in Path}
NoTab   == 0
Snap    == [repo : Root \cup {NoRepo}, ver : Nat]
NoSnap  == [repo |-> NoRepo, ver |-> 0]
NoCache == [rows |-> NoSnap, confirmed |-> NoSnap]
Now(r)  == [repo |-> r, ver |-> disk[r]]

(* The graph's state: status, repoPath, refs and hasExternalChanges are    *)
(* React state, the others are refs.  `gates' counts pendingMutations,     *)
(* `deferred' is pendingExternalRef, and gap is history: the ways in which *)
(* this screen can have missed something (see NothingMissed).              *)
IdleView ==
  [status |-> "idle", repo |-> NoRepo, refs |-> NoSnap, notice |-> FALSE,
   rows |-> NoSnap, confirmed |-> NoSnap, deferred |-> FALSE, gates |-> 0, gap |-> {}]

Quiet == [at |-> "idle", stale |-> FALSE, snap |-> NoSnap]

NoCall ==
  [at |-> "idle", kind |-> "none", stale |-> FALSE, path |-> NoRepo, tab |-> NoTab,
   previous |-> NoTab, seen |-> IdleView, prior |-> IdleView, fresh |-> NoSnap]

Tab(t, p)    == [id |-> t, path |-> p]
HasTab(t)    == \E i \in DOMAIN tabs : tabs[i].id = t
IndexOf(t)    == (CHOOSE i \in DOMAIN tabs : tabs[i].id = t)
TabPath(t)   == tabs[IndexOf(t)].path
Without(t)   == SelectSeq(tabs, LAMBDA e : e.id # t)
Renamed(t, p) == [i \in DOMAIN tabs |-> IF tabs[i].id = t THEN Tab(t, p) ELSE tabs[i]]
InFlight     == {c \in Call : call[c].at # "idle"}

Spend(k) ==
  /\ spent' = [spent EXCEPT ![k] = @ + 1]
  /\ \E b \in Budgets : \A j \in Step : spent'[j] <= b[j]

-----------------------------------------------------------------------------
(* useRepositoryGraph: what an open does to the screen                     *)

(* openRepo's resets before its first await.                               *)
Opening(v) ==
  [v EXCEPT !.status = "opening", !.notice = FALSE, !.confirmed = NoSnap,
            !.deferred = FALSE, !.gates = 0, !.gap = {}]

(* An external change being applied when the generation moves is dropped,  *)
(* although it is already the confirmed state.                             *)
Dropping(v) == [v EXCEPT !.gap = @ \cup IF apply.at # "idle" THEN {"dropped"} ELSE {}]

(* OpenAttemptSnapshot: React state as the calling render saw it, refs as  *)
(* they are.                                                               *)
OpenAttemptSnapshot(seen, v) ==
  [v EXCEPT !.status = seen.status, !.repo = seen.repo, !.refs = seen.refs,
            !.notice = seen.notice,
            !.gap = @ \cup (IF \/ seen.status # v.status \/ seen.repo # v.repo
                               \/ seen.refs # v.refs \/ seen.notice # v.notice
                               THEN {"seen"} ELSE {})
                      \cup (IF \/ \E d \in Call : call[d].at = "tail"
                               \/ v.status = "idle" /\ seen.status # "idle"
                               THEN {"tail"} ELSE {})]

(* restoreFromCancellation; pendingExternalRef is not put back.  A gate    *)
(* put back after its confirming read has gone by is never closed again.   *)
RestoreFromCancellation(v, prior) ==
  [prior EXCEPT !.deferred = v.deferred,
                !.gap = @ \cup (v.gap \cap {"deaf"})
                          \cup IF prior.gates > 0 THEN {"gates"} ELSE {}]

(* ++generationRef: every call in flight is stale, c excepted.             *)
Bump(cs, c) ==
  [d \in Call |-> [cs[d] EXCEPT !.stale = @ \/ (d # c /\ cs[d].at \notin {"idle", "dialog"})]]
BumpBackground ==
  /\ apply' = [apply EXCEPT !.stale = apply.at # "idle"]
  /\ mutation' = [mutation EXCEPT !.stale = mutation.at \in {"confirming", "read"}]

(* A faulty captureTabCache that overlooks the notice.                     *)
CaptureDespiteNotice(seen) ==
  IF seen.status = "ready" /\ apply.at = "idle" /\ view.confirmed # NoSnap
    THEN {NoCache, [rows |-> view.rows, confirmed |-> view.confirmed]}
    ELSE {NoCache}

(* captureTabCache: nothing while a change is known and not shown, nor (a  *)
(* choice here) with more than a page of rows.                             *)
CaptureTabCache(seen) ==
  IF /\ seen.status = "ready" /\ ~seen.notice
     /\ ~view.deferred /\ apply.at = "idle" /\ view.confirmed # NoSnap
    THEN {NoCache, [rows |-> view.rows, confirmed |-> view.confirmed]}
    ELSE {NoCache}

(* snapshotActiveTab.                                                      *)
SnapshotActiveTab(seen) ==
  IF activeTabId = NoTab
    THEN UNCHANGED tabCache
    ELSE \E cache \in CaptureTabCache(seen) :
           tabCache' = [tabCache EXCEPT ![activeTabId] = cache]

(* The first part of openRepo, for the call r in slot c.                   *)
OpenRepo(c, r, v) ==
  /\ view' = Opening(v)
  /\ call' = Bump([call EXCEPT ![c] =
                     [r EXCEPT !.at = "asked", !.stale = FALSE,
                               !.prior = OpenAttemptSnapshot(r.seen, Dropping(v))]], c)
  /\ BumpBackground

(* The first part of reactivateTab: straight to openRepo without a cache,  *)
(* else ask main for the repository and leave the screen alone.            *)
ReactivateTab(c, r) ==
  IF tabCache[r.tab] = NoCache
    THEN OpenRepo(c, r, view)
    ELSE /\ call' = Bump([call EXCEPT ![c] = [r EXCEPT !.at = "recheck"]], c)
         /\ BumpBackground
         /\ view' = Dropping(view)

(* The first part of closeRepo: main disposes of the session when it gets  *)
(* the message.                                                            *)
CloseRepo(c, r, at) ==
  /\ call' = Bump([call EXCEPT ![c] = [r EXCEPT !.at = at]], c)
  /\ BumpBackground
  /\ live' = NoRepo
  /\ event' = FALSE

-----------------------------------------------------------------------------
(* useRepoTabs: how a switch starts                                        *)

(* A faulty lock that lets a second switch in.                             *)
NoLock == switching' = TRUE

BeginSwitch == ~switching /\ switching' = TRUE

Free(c) == call[c].at = "idle"

ActivateTab(c, t) ==
  /\ Free(c)
  /\ HasTab(t)
  /\ t # activeTabId \/ notFoundTabId = t
  /\ BeginSwitch
  /\ Spend("activate")
  /\ LET r == [NoCall EXCEPT !.kind = "activate", !.path = TabPath(t), !.tab = t,
                             !.previous = activeTabId, !.seen = view]
     IN ReactivateTab(c, r)
  /\ IF notFoundTabId = t
       THEN UNCHANGED <<tabCache, activeTabId>>
       ELSE SnapshotActiveTab(view) /\ activeTabId' = t
  /\ notFoundTabId' = NoTab
  /\ UNCHANGED <<world, tabs, idSeq>>

(* openNewTab: the lock is taken before the native dialog opens.           *)
OpenNewTab(c) ==
  /\ Free(c)
  /\ BeginSwitch
  /\ Spend("open")
  /\ call' = [call EXCEPT ![c] = [NoCall EXCEPT !.at = "dialog", !.kind = "dialog",
                                    !.previous = activeTabId, !.seen = view]]
  /\ UNCHANGED <<world, bar, view, back>>

(* openRecentInNewTab: also a dirty guard's dialog before anything else.   *)
OpenRecentInNewTab(c) ==
  /\ Free(c)
  /\ BeginSwitch
  /\ Spend("open")
  /\ call' = [call EXCEPT ![c] = [NoCall EXCEPT !.at = "dialog", !.kind = "recent",
                                    !.previous = activeTabId, !.seen = view]]
  /\ UNCHANGED <<world, bar, view, back>>

(* The dialog was cancelled, or the user stays with unsaved changes.       *)
DialogDismissed(c) ==
  /\ call[c].at = "dialog"
  /\ switching' = FALSE
  /\ call' = [call EXCEPT ![c] = NoCall]
  /\ UNCHANGED <<world, bar, view, back, spent>>

Existing(p) == {i \in DOMAIN tabs : tabs[i].path = p}

(* A path that no tab has: a tab of its own, and the open.                 *)
NewTabOpens(c, p) ==
  /\ call[c].at = "dialog"
  /\ Existing(p) = {}
  /\ SnapshotActiveTab(call[c].seen)
  /\ idSeq' = idSeq + 1
  /\ tabs' = Append(tabs, Tab(idSeq + 1, p))
  /\ activeTabId' = idSeq + 1
  /\ OpenRepo(c, [call[c] EXCEPT !.path = p, !.tab = idSeq + 1], view)
  /\ UNCHANGED <<world, notFoundTabId, switching, spent>>

(* A path some tab has: that tab is activated, under the same lock.        *)
FocusExisting(c, p) ==
  /\ call[c].at = "dialog"
  /\ \E i \in Existing(p) :
       LET t == tabs[i].id IN
       IF t = activeTabId /\ (call[c].kind = "dialog" \/ notFoundTabId # t)
         THEN /\ switching' = FALSE
              /\ call' = [call EXCEPT ![c] = NoCall]
              /\ UNCHANGED <<bar, view, back>>
         ELSE /\ ReactivateTab(c, [call[c] EXCEPT !.kind = "activate", !.path = p,
                                                  !.tab = t])
              /\ IF notFoundTabId = t
                   THEN UNCHANGED <<tabCache, activeTabId>>
                   ELSE SnapshotActiveTab(call[c].seen) /\ activeTabId' = t
              /\ notFoundTabId' = NoTab
              /\ UNCHANGED <<tabs, idSeq, switching>>
  /\ UNCHANGED <<world, spent>>

(* newTab: the landing screen.                                             *)
NewTab(c) ==
  /\ Free(c)
  /\ Spend("new")
  /\ activeTabId # NoTab
  /\ BeginSwitch
  /\ SnapshotActiveTab(view)
  /\ activeTabId' = NoTab
  /\ CloseRepo(c, [NoCall EXCEPT !.kind = "new"], "closing")
  /\ UNCHANGED <<disk, tabs, notFoundTabId, idSeq, view>>

(* The tab that takes a closed one's place: the next one, else the one     *)
(* before it.                                                              *)
Neighbour(t) ==
  LET i == IndexOf(t)  rest == Without(t)
  IN IF i \in DOMAIN rest THEN rest[i].id
     ELSE IF i - 1 \in DOMAIN rest THEN rest[i - 1].id ELSE NoTab

(* A faulty close that leaves the flag on a tab that is gone.              *)
KeepNotFound(t) == notFoundTabId

ForgetNotFound(t) == IF notFoundTabId = t THEN NoTab ELSE notFoundTabId

(* closeTab.  Only the close of an active tab touches the session, and     *)
(* only one that leaves another tab takes the lock.                        *)
CloseTab(c, t) ==
  /\ Free(c)
  /\ ~switching
  /\ HasTab(t)
  /\ Spend("close")
  /\ tabs' = Without(t)
  /\ notFoundTabId' = ForgetNotFound(t)
  /\ LET next == Neighbour(t)
         drop == [tabCache EXCEPT ![t] = NoCache]
     IN \/ /\ t # activeTabId
           /\ tabCache' = drop
           /\ UNCHANGED <<activeTabId, switching, view, back, call, live, event>>
        \/ /\ t = activeTabId
           /\ next # NoTab
           /\ tabCache' = drop
           /\ BeginSwitch
           /\ activeTabId' = next
           /\ ReactivateTab(c, [NoCall EXCEPT !.kind = "close", !.path = TabPath(next),
                                              !.tab = next, !.seen = view])
           /\ UNCHANGED <<live, event>>
        \/ /\ t = activeTabId
           /\ next = NoTab
           /\ tabCache' = drop
           /\ activeTabId' = NoTab
           /\ CloseRepo(c, NoCall, "tail")
           /\ UNCHANGED <<switching, view>>
  /\ UNCHANGED <<disk, idSeq>>

(* The app quits and is started again: the tabs persisted at the last      *)
(* change, without duplicates, and one eager open of the active one.       *)
Persisted == [i \in DOMAIN tabs |-> tabs[i].path]

InitialTabs(paths) ==
  LET once == SelectSeq([i \in DOMAIN paths |-> [path |-> paths[i], at |-> i]],
                LAMBDA e : \A j \in 1 .. e.at - 1 : paths[j] # e.path)
  IN [i \in DOMAIN once |-> Tab(i, once[i].path)]

Restart(c) ==
  /\ Spend("restart")
  /\ tabs' = InitialTabs(Persisted)
  /\ idSeq' = Len(tabs')
  /\ tabCache' = [t \in DOMAIN tabCache |-> NoCache]
  /\ notFoundTabId' = NoTab
  /\ live' = NoRepo
  /\ event' = FALSE
  /\ apply' = Quiet
  /\ mutation' = Quiet
  /\ IF activeTabId # NoTab
       THEN \E i \in DOMAIN tabs' :
              /\ tabs'[i].path = TabPath(activeTabId)
              /\ activeTabId' = i
              /\ switching' = TRUE
              /\ view' = Opening(IdleView)
              /\ call' = [d \in Call |-> IF d = c
                            THEN [NoCall EXCEPT !.at = "asked", !.kind = "activate",
                                     !.path = tabs'[i].path, !.tab = i]
                            ELSE NoCall]
       ELSE /\ activeTabId' = NoTab
            /\ switching' = FALSE
            /\ view' = IdleView
            /\ call' = [d \in Call |-> NoCall]
  /\ UNCHANGED disk

-----------------------------------------------------------------------------
(* How a switch ends                                                       *)

Unlock(c) ==
  /\ switching' = FALSE
  /\ call' = [call EXCEPT ![c] = NoCall]

(* A faulty rollback that leaves the optimistic tab in the bar.            *)
KeepTab(t) == tabs

(* The optimistic tab of an open that came to nothing is taken away.       *)
UndoTab(t) == Without(t)

(* The open was cancelled.  A closed tab has nothing to go back to: its    *)
(* repository stays on screen under its neighbour's name.                  *)
Cancelled(c) ==
  /\ CASE call[c].kind = "activate" -> activeTabId' = call[c].previous /\ UNCHANGED tabs
       [] call[c].kind \in {"dialog", "recent"} ->
            activeTabId' = call[c].previous /\ tabs' = UndoTab(call[c].tab)
       [] OTHER -> UNCHANGED <<activeTabId, tabs>>
  /\ Unlock(c)
  /\ UNCHANGED <<notFoundTabId, tabCache, idSeq>>

(* onSettled "opened": the tab gets the resolved path; a new tab whose     *)
(* repository another tab has is collapsed into that one.                  *)
Reconcile(c, root) ==
  LET others == {i \in Existing(root) : tabs[i].id # call[c].tab}
  IN IF call[c].kind \in {"dialog", "recent"} /\ others # {}
       THEN /\ activeTabId' = tabs[CHOOSE i \in others : \A j \in others : i <= j].id
            /\ tabs' = Without(call[c].tab)
       ELSE UNCHANGED activeTabId /\ tabs' = Renamed(call[c].tab, root)

Opened(c, root) ==
  /\ IF call[c].kind = "restore" THEN UNCHANGED <<activeTabId, tabs>> ELSE Reconcile(c, root)
  /\ Unlock(c)
  /\ UNCHANGED <<notFoundTabId, tabCache, idSeq>>

(* The open failed, v being the screen.  An activated tab shows "not       *)
(* found" on the idle screen; a recent one disappears, and the tab before  *)
(* it is opened again, or the landing screen comes back.                   *)
Failed(c, v) ==
  LET r == call[c] IN
  CASE r.kind = "activate" ->
         /\ notFoundTabId' = r.tab
         /\ view' = v
         /\ CloseRepo(c, r, "closing")
         /\ UNCHANGED <<tabs, activeTabId, switching>>
    [] r.kind = "recent" /\ r.previous # NoTab ->
         /\ tabs' = UndoTab(r.tab)
         /\ activeTabId' = r.previous
         /\ OpenRepo(c, [r EXCEPT !.kind = "restore", !.path = TabPath(r.previous),
                                  !.tab = r.previous], v)
         /\ UNCHANGED <<notFoundTabId, switching, live, event>>
    [] r.kind = "recent" /\ r.previous = NoTab ->
         /\ tabs' = UndoTab(r.tab)
         /\ activeTabId' = NoTab
         /\ view' = v
         /\ CloseRepo(c, r, "closing")
         /\ UNCHANGED <<notFoundTabId, switching>>
    [] OTHER ->
         /\ view' = v
         /\ Unlock(c)
         /\ UNCHANGED <<tabs, activeTabId, notFoundTabId, back, live, event>>

(* A newer generation owns the screen: the open reports neither a cancel   *)
(* nor an error, and the switch ends as if it had been shown.              *)
Superseded(c) ==
  /\ call[c].stale
  /\ call[c].at = "recheck"
  /\ view' = [view EXCEPT !.gap = @ \cup {"filter"}]
  /\ Unlock(c)
  /\ UNCHANGED <<world, bar, back, spent>>

-----------------------------------------------------------------------------
(* The open's answers.  closeRepo's need no git process and come first.    *)

Answer(c, at) ==
  /\ call[c].at = at
  /\ ~call[c].stale
  /\ \A d \in Call : call[d].at # "tail"

RootOf(c) == Resolve[call[c].path]

OpenAnswers(c) ==
  /\ Answer(c, "asked")
  /\ view' = [view EXCEPT !.repo = RootOf(c)]
  /\ call' = [call EXCEPT ![c].at = "opened"]
  /\ UNCHANGED <<world, bar, switching, back, spent>>

(* refreshAuxData: the refs on screen are also the confirmed ones.         *)
AuxAnswers(c) ==
  /\ Answer(c, "opened")
  /\ view' = [view EXCEPT !.refs = Now(RootOf(c)), !.confirmed = Now(RootOf(c))]
  /\ call' = [call EXCEPT ![c].at = "aux"]
  /\ UNCHANGED <<world, bar, switching, back, spent>>

(* startReader and its first page; the attempt is then committed.          *)
ReaderAnswers(c) ==
  /\ Answer(c, "aux")
  /\ view' = [view EXCEPT !.rows = Now(RootOf(c))]
  /\ call' = [call EXCEPT ![c].at = "commit"]
  /\ UNCHANGED <<world, bar, switching, back, spent>>

(* What changed after it was read and before the watch began is not seen.  *)
Unwatched(root, rows) == IF rows # Now(root) THEN {"unwatched"} ELSE {}

(* An activation under another tab's name: see ActivateTab's retry.        *)
Misnamed(c) ==
  IF call[c].kind = "activate" /\ call[c].tab # activeTabId THEN {"notFound"} ELSE {}

CommitOpen(c) ==
  /\ Answer(c, "commit")
  /\ live' = RootOf(c)
  /\ event' = FALSE
  /\ view' = [view EXCEPT !.status = "ready",
                          !.gap = (@ \ {"deaf"}) \cup Unwatched(RootOf(c), view.rows)
                                    \cup Misnamed(c)]
  /\ Opened(c, RootOf(c))
  /\ UNCHANGED <<disk, back, spent>>

OpenFails(c) ==
  /\ \E at \in {"asked", "opened", "aux"} : Answer(c, at)
  /\ Spend("failure")
  /\ Failed(c, [view EXCEPT !.status = "error"])
  /\ UNCHANGED <<disk, tabCache, idSeq>>

CancelOpen(c) ==
  /\ \E at \in {"asked", "opened", "aux", "recheck"} : Answer(c, at)
  /\ Spend("cancel")
  /\ LET v == IF call[c].at = "recheck" THEN view
                ELSE RestoreFromCancellation(view, call[c].prior)
     IN view' = IF call[c].kind = "close" THEN [v EXCEPT !.gap = @ \cup {"close"}] ELSE v
  /\ Cancelled(c)
  /\ UNCHANGED <<world, back>>

(* hasUnexpectedRefChange against the cache's own confirmed snapshot.      *)
CacheHit(c) == tabCache[call[c].tab].confirmed = Now(RootOf(c))

(* reactivateTab's fresh reads: a hit commits at once, anything else is a  *)
(* full open.                                                              *)
RecheckAnswers(c) ==
  /\ Answer(c, "recheck")
  /\ \/ /\ CacheHit(c)
        /\ call' = [call EXCEPT ![c].at = "repoint", ![c].fresh = Now(RootOf(c))]
        /\ UNCHANGED <<view, back>>
     \/ /\ ~CacheHit(c)
        /\ OpenRepo(c, call[c], view)
  /\ UNCHANGED <<world, bar, switching, spent>>

RecheckFails(c) ==
  /\ Answer(c, "recheck")
  /\ Spend("failure")
  /\ OpenRepo(c, call[c], view)
  /\ UNCHANGED <<world, bar, switching>>

(* The commit of a hit: main is repointed whatever the renderer then does. *)
Repoint(c) ==
  /\ call[c].at = "repoint"
  /\ live' = RootOf(c)
  /\ event' = FALSE
  /\ IF call[c].stale
       THEN /\ view' = [view EXCEPT !.gap = @ \cup {"filter"}]
            /\ Unlock(c)
            /\ UNCHANGED bar
       ELSE LET rows == tabCache[call[c].tab].rows IN
            /\ view' = [IdleView EXCEPT !.status = "ready", !.repo = RootOf(c),
                          !.refs = call[c].fresh, !.confirmed = call[c].fresh, !.rows = rows,
                          !.gap = Unwatched(RootOf(c), call[c].fresh) \cup Misnamed(c)]
            /\ Opened(c, RootOf(c))
  /\ UNCHANGED <<disk, back, spent>>

CloseAnswers(c) ==
  /\ call[c].at = "closing"
  /\ view' = IdleView
  /\ Unlock(c)
  /\ UNCHANGED <<world, bar, back, spent>>

(* The last tab's close resets the screen whatever has started meanwhile.  *)
TailEnds(c) ==
  /\ call[c].at = "tail"
  /\ view' = IdleView
  /\ call' = [call EXCEPT ![c] = NoCall]
  /\ UNCHANGED <<world, bar, switching, back, spent>>

-----------------------------------------------------------------------------
(* Meanwhile, in the repositories and in the graph's background            *)

ExternalWrite(r) ==
  /\ Spend("write")
  /\ disk' = [disk EXCEPT ![r] = @ + 1]
  /\ event' = (event \/ r = live)
  /\ UNCHANGED <<live, bar, switching, view, back, call>>

Mutes == IF mutation.at = "running" \/ (mutation.at = "confirming" /\ ~mutation.stale)
           THEN {} ELSE {"muted"}

(* The refs event.  Nobody listens unless the status is "ready", and an    *)
(* open gate swallows it; otherwise the evaluation records what it reads   *)
(* and has a difference applied, now if idle.                              *)
OnRefsChanged ==
  /\ event
  /\ event' = FALSE
  /\ \/ /\ view.status # "ready"
        /\ view' = [view EXCEPT !.gap = @ \cup {"deaf"}]
        /\ UNCHANGED apply
     \/ /\ view.status = "ready" /\ view.gates > 0
        /\ view' = [view EXCEPT !.gap = @ \cup Mutes]
        /\ UNCHANGED apply
     \/ /\ view.status = "ready" /\ view.gates = 0
        /\ view.confirmed \in {NoSnap, Now(live)}
        /\ view' = [view EXCEPT !.confirmed = Now(live)]
        /\ UNCHANGED apply
     \/ /\ view.status = "ready" /\ view.gates = 0
        /\ view.confirmed \notin {NoSnap, Now(live)}
        /\ \/ /\ apply.at = "idle"
              /\ apply' = [Quiet EXCEPT !.at = "confirming"]
              /\ view' = [view EXCEPT !.confirmed = Now(live), !.notice = FALSE]
           \/ /\ view' = [view EXCEPT !.confirmed = Now(live), !.notice = TRUE,
                                      !.deferred = TRUE]
              /\ UNCHANGED apply
  /\ UNCHANGED <<disk, live, bar, switching, mutation, call, spent>>

(* flushPendingExternal, when the user is idle again.                      *)
FlushPendingExternal ==
  /\ view.deferred /\ view.gates = 0 /\ apply.at = "idle"
  /\ view' = [view EXCEPT !.deferred = FALSE, !.notice = FALSE]
  /\ apply' = [Quiet EXCEPT !.at = "confirming"]
  /\ UNCHANGED <<world, bar, switching, mutation, call, spent>>

BeginMutation ==
  /\ Spend("mutation")
  /\ view.status = "ready" /\ mutation.at = "idle"
  /\ view' = [view EXCEPT !.gates = @ + 1]
  /\ mutation' = [Quiet EXCEPT !.at = "running"]
  /\ UNCHANGED <<world, bar, switching, apply, call>>

(* The mutation's call returns, and its confirming read starts.            *)
MutationSettles ==
  /\ mutation.at = "running"
  /\ mutation' = [mutation EXCEPT !.at = "confirming"]
  /\ UNCHANGED <<world, bar, switching, view, apply, call, spent>>

(* A read, or a reload, of whatever repository is live when git runs.      *)
Reads(b) == [b EXCEPT !.at = "read", !.snap = IF live = NoRepo THEN NoSnap ELSE Now(live)]

MutationReads ==
  /\ mutation.at = "confirming"
  /\ mutation' = Reads(mutation)
  /\ UNCHANGED <<world, bar, switching, view, apply, call, spent>>

ApplyReads ==
  /\ apply.at = "confirming"
  /\ apply' = Reads(apply)
  /\ UNCHANGED <<world, bar, switching, view, mutation, call, spent>>

(* Its answer: dropped if the generation has moved since it was asked, and *)
(* the screen's otherwise - even if the live repository has moved since.   *)
Lands(b, gates) ==
  IF b.stale THEN view
  ELSE IF b.snap = NoSnap
    THEN [view EXCEPT !.notice = TRUE, !.gates = gates]
    ELSE [view EXCEPT !.refs = b.snap, !.rows = b.snap, !.confirmed = b.snap, !.gates = gates,
                      !.gap = @ \cup (IF b.snap.repo # view.repo THEN {"crossed"} ELSE {})
                                \cup (IF b.snap.ver < view.rows.ver THEN {"overtaken"} ELSE {})]

MutationLands ==
  /\ mutation.at = "read"
  /\ view' = Lands(mutation, IF view.gates = 0 THEN 0 ELSE view.gates - 1)
  /\ mutation' = Quiet
  /\ UNCHANGED <<world, bar, switching, apply, call, spent>>

ApplyLands ==
  /\ apply.at = "read"
  /\ view' = Lands(apply, view.gates)
  /\ apply' = Quiet
  /\ UNCHANGED <<world, bar, switching, mutation, call, spent>>

(* A filter moves the generation too, also while a cached revisit is being *)
(* checked, when the previous tab's screen is still up.  An apply that it  *)
(* supersedes falls back to the banner.                                    *)
ApplyFilter ==
  /\ Spend("filter")
  /\ view.status = "ready" /\ live # NoRepo
  /\ call' = Bump(call, NoRepo)
  /\ BumpBackground
  /\ view' = [view EXCEPT !.rows = Now(live), !.notice = @ \/ apply.at # "idle",
                          !.gap = @ \cup IF mutation'.stale THEN {"gates"} ELSE {}]
  /\ UNCHANGED <<world, bar, switching>>

-----------------------------------------------------------------------------
Init ==
  /\ disk = [r \in Root |-> 0]
  /\ live = NoRepo
  /\ event = FALSE
  /\ tabs = InitialTabs(Start)
  /\ activeTabId = NoTab
  /\ notFoundTabId = NoTab
  /\ idSeq = Len(tabs)
  /\ tabCache = [t \in 1 .. 2 * Cardinality(Path) + 2 |-> NoCache]
  /\ switching = FALSE
  /\ view = IdleView
  /\ mutation = Quiet
  /\ apply = Quiet
  /\ call = [c \in Call |-> NoCall]
  /\ spent = [k \in Step |-> 0]

User(c) ==
  \/ \E t \in DOMAIN tabCache : ActivateTab(c, t) \/ CloseTab(c, t)
  \/ OpenNewTab(c) \/ OpenRecentInNewTab(c)
  \/ \E p \in Path : NewTabOpens(c, p) \/ FocusExisting(c, p)
  \/ DialogDismissed(c)
  \/ NewTab(c)
  \/ Restart(c)

Progress(c) ==
  \/ OpenAnswers(c) \/ AuxAnswers(c) \/ ReaderAnswers(c) \/ CommitOpen(c)
  \/ RecheckAnswers(c) \/ Repoint(c) \/ Superseded(c)
  \/ CloseAnswers(c) \/ TailEnds(c)

Trouble(c) == OpenFails(c) \/ CancelOpen(c) \/ RecheckFails(c)

Background ==
  \/ \E r \in Root : ExternalWrite(r)
  \/ OnRefsChanged \/ FlushPendingExternal
  \/ BeginMutation \/ MutationSettles \/ MutationReads \/ MutationLands
  \/ ApplyReads \/ ApplyLands
  \/ ApplyFilter

Next == (\E c \in Call : User(c) \/ Progress(c) \/ Trouble(c)) \/ Background

Spec == Init /\ [][Next]_vars

-----------------------------------------------------------------------------
(* Types of every variable.                                                *)
TypeOK ==
  /\ disk \in [Root -> Nat]
  /\ live \in Root \cup {NoRepo}
  /\ \A i \in DOMAIN tabs : tabs[i].path \in Path /\ tabs[i].id \in DOMAIN tabCache
  /\ activeTabId \in {NoTab} \cup {tabs[i].id : i \in DOMAIN tabs}
  /\ notFoundTabId \in {NoTab} \cup {tabs[i].id : i \in DOMAIN tabs}
  /\ \A t \in DOMAIN tabCache : {tabCache[t].rows, tabCache[t].confirmed} \subseteq Snap
  /\ switching \in BOOLEAN
  /\ view.status \in {"idle", "opening", "ready", "error"}
  /\ {view.rows, view.refs, view.confirmed} \subseteq Snap
  /\ view.gates \in Nat

Settled == InFlight = {} /\ ~switching

(* With no switch in flight, a repository on screen is the live one of the *)
(* main process and the one of the active tab.  Not so after a filter that *)
(* supersedes a cached revisit, a cancel that follows a close, a retry of  *)
(* a not-found tab that had been left, or an open during the last close.   *)
ScreenIsActiveTabs ==
  Settled /\ view.status = "ready" /\ view.gap \cap {"filter", "close", "notFound", "tail"} = {}
    => /\ activeTabId # NoTab
       /\ TabPath(activeTabId) = view.repo
       /\ live = view.repo

(* Whatever the cache or a rollback put on screen, its rows are of the     *)
(* repository's present refs, or an event is on its way, or the user is    *)
(* told; view.gap names the exceptions.                                    *)
NothingMissed ==
  Settled /\ view.status = "ready" /\ apply.at = "idle" /\ view.gates = 0 /\ view.gap = {}
    => view.rows = Now(live) \/ event \/ view.notice

(* A cancelled open leaves the bar and the screen as they were when it was *)
(* asked for: no stray tab, the same tab active, the same repository.      *)
CancelRestores ==
  [][\A c \in Call : CancelOpen(c) /\ call[c].kind \in {"activate", "dialog", "recent"}
       => /\ activeTabId' = call[c].previous
          /\ \A i \in DOMAIN tabs' : tabs'[i].id # call[c].tab \/ call[c].kind = "activate"
          /\ call[c].at # "recheck" /\ call[c].prior.gap = {}
               => view'.rows.repo = view'.repo /\ view'.repo = live]_vars
===============================================================================
