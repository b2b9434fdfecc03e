----------------------------- MODULE RepoSession -----------------------------
(***************************************************************************)
(* The main process's RepoSession (packages/desktop/electron/              *)
(* repoSession.ts): the one live repository of a window, its paged log     *)
(* readers, its watchers, and the bookkeeping of cancellable opens.        *)
(*                                                                         *)
(* A Repository object is identified by the number of the open() call that *)
(* made it (the value of `generation' in that call); 0 stands for null.    *)
(* A JavaScript Map is a total function here, with 0 or {} where the Map   *)
(* has no entry (the code never stores an empty set).                      *)
(*                                                                         *)
(* The session is driven by its IPC handlers (main.ts).  Each synchronous  *)
(* run of a handler is one step; an awaited git call is split into the     *)
(* step that issues it and the step that settles it.  The callers are kept *)
(* to the protocol the renderer follows (useRepositoryGraph.ts): requestId *)
(* fresh for every attempt, one awaited call at a time per attempt, a      *)
(* generation check before the next call, endOpenAttempt in a `finally'.   *)
(***************************************************************************)
EXTENDS Integers, FiniteSets

CONSTANTS
  Request,        \* request ids of cancellable open attempts
  PlainCaller,    \* callers of createLogReader outside an open attempt
  NoRequest,      \* `undefined' where a requestId is expected
  FetchId,        \* request ids of fetch, pull, push and clone calls
  MaxGeneration,  \* bound on open() and dispose() calls
  MaxReaders      \* bound on readers ever created

ASSUME RepoSessionAssumption ==
  /\ NoRequest \notin Request
  /\ Request \cap PlainCaller = {}
  /\ MaxGeneration \in Nat
  /\ MaxReaders \in Nat

VARIABLES
  (* fields of RepoSession *)
  repo, readers, readerSeq, watcher, worktreeWatcher, generation,
  openAbortControllers, pendingRepos, pendingReaderIds,
  fetchAbortControllers,
  (* calls in flight in the main process *)
  opening,       \* attempts whose Repository.open is running
  plainOpening,  \* generations of running open() calls without a requestId
  reads,         \* repository a running createLogReader works on, 0 if none
  fetching,      \* fetch calls running
  aborted,       \* attempts and fetches whose AbortSignal has fired
  (* the callers *)
  phase,         \* where each attempt's caller is in the protocol
  openGen,       \* the generation of each attempt's open() call
  current,       \* the attempt the renderer's generation check lets through
  disposedAt     \* history: the generation the last dispose() left

fields == <<repo, readers, readerSeq, watcher, worktreeWatcher, generation,
            openAbortControllers, pendingRepos, pendingReaderIds,
            fetchAbortControllers>>
calls  == <<opening, plainOpening, reads, fetching, aborted>>
caller == <<phase, openGen, current, disposedAt>>
vars   == <<fields, calls, caller>>

NoRepo == 0
Caller == Request \cup PlainCaller
Phase  == {"idle", "opening", "open", "reading", "failed", "committed",
           "ended", "gone"}

(* What the session knows of a reader: the Repository it walks and the     *)
(* requestId it was created under.                                         *)
Reader == [repo : Nat, req : Request \cup {NoRequest}]

Owner(c) == IF c \in Request THEN c ELSE NoRequest

Init ==
  /\ repo = NoRepo
  /\ readers = [id \in {} |-> [repo |-> NoRepo, req |-> NoRequest]]
  /\ readerSeq = 0
  /\ watcher = NoRepo
  /\ worktreeWatcher = NoRepo
  /\ generation = 0
  /\ openAbortControllers = {}
  /\ pendingRepos = [r \in Request |-> NoRepo]
  /\ pendingReaderIds = [r \in Request |-> {}]
  /\ fetchAbortControllers = {}
  /\ opening = {}
  /\ plainOpening = {}
  /\ reads = [c \in Caller |-> NoRepo]
  /\ fetching = {}
  /\ aborted = {}
  /\ phase = [r \in Request |-> "idle"]
  /\ openGen = [r \in Request |-> 0]
  /\ current = NoRequest
  /\ disposedAt = 0

-----------------------------------------------------------------------------
(* readers.delete with the reader's close(), for every id outside keep.    *)
KeepReaders(keep) ==
  readers' = [id \in DOMAIN readers \cap keep |-> readers[id]]

(* startWatch, run in the same turn as the commit: both watchers are       *)
(* replaced by watchers of the live repository.  The working-tree watch is *)
(* best effort and may be absent.                                          *)
StartWatch(live) ==
  /\ watcher' = live
  /\ worktreeWatcher' \in {live, NoRepo}

(* A faulty open() without its generation check.                           *)
NeverStale(g) == FALSE

(* The check after the await in open(): a newer open() or a dispose() has  *)
(* been called meanwhile.                                                  *)
Stale(g) == g # generation

(* A faulty getOpenRepoFor that ignores what the attempt has staged.       *)
LiveRepoFor(r) == repo

(* getOpenRepoFor: the attempt's staged repository, else the live one.     *)
GetOpenRepoFor(r) == IF pendingRepos[r] # NoRepo THEN pendingRepos[r] ELSE repo

(* A faulty createReader that reads readerSeq without incrementing it.     *)
SameReaderSeq == readerSeq

(* ++readerSeq, the number in the next reader's id.                        *)
NextReaderSeq == readerSeq + 1

(* A faulty commitOpen that leaves the attempt's readers marked pending.   *)
PromoteAndKeepPending(r) ==
  /\ pendingRepos' = [pendingRepos EXCEPT ![r] = NoRepo]
  /\ UNCHANGED pendingReaderIds

(* commitOpen takes the attempt's entries out of both pending maps.        *)
Promote(r) ==
  /\ pendingRepos' = [pendingRepos EXCEPT ![r] = NoRepo]
  /\ pendingReaderIds' = [pendingReaderIds EXCEPT ![r] = {}]

(* A faulty endOpenAttempt that keeps the abort controller.                *)
ForgetPending(r) ==
  /\ pendingRepos' = [pendingRepos EXCEPT ![r] = NoRepo]
  /\ pendingReaderIds' = [pendingReaderIds EXCEPT ![r] = {}]
  /\ UNCHANGED openAbortControllers

(* endOpenAttempt deletes the attempt's entry of every map.                *)
Forget(r) ==
  /\ openAbortControllers' = openAbortControllers \ {r}
  /\ pendingRepos' = [pendingRepos EXCEPT ![r] = NoRepo]
  /\ pendingReaderIds' = [pendingReaderIds EXCEPT ![r] = {}]

-----------------------------------------------------------------------------
(* Cancellable attempts                                                    *)

(* openRepoCancellable up to the await: open(path, requestId) numbers the  *)
(* call and registers its AbortController.                                 *)
Open(r) ==
  /\ phase[r] = "idle"
  /\ generation < MaxGeneration
  /\ generation' = generation + 1
  /\ openAbortControllers' = openAbortControllers \cup {r}
  /\ opening' = opening \cup {r}
  /\ openGen' = [openGen EXCEPT ![r] = generation + 1]
  /\ phase' = [phase EXCEPT ![r] = "opening"]
  /\ current' = r
  /\ UNCHANGED <<repo, readers, readerSeq, watcher, worktreeWatcher,
                 pendingRepos, pendingReaderIds, fetchAbortControllers,
                 plainOpening, reads, fetching, aborted, disposedAt>>

(* The caller of r hears that its open() settled; a caller that is gone    *)
(* hears nothing.                                                          *)
Heard(r, p) ==
  phase' = IF phase[r] = "gone" THEN phase ELSE [phase EXCEPT ![r] = p]

(* Repository.open resolved: the result is staged unless a newer open() or *)
(* a dispose() has moved the generation on.                                *)
OpenResolves(r) ==
  /\ r \in opening
  /\ opening' = opening \ {r}
  /\ pendingRepos' = IF Stale(openGen[r])
                       THEN pendingRepos
                       ELSE [pendingRepos EXCEPT ![r] = openGen[r]]
  /\ Heard(r, "open")
  /\ UNCHANGED <<repo, readers, readerSeq, watcher, worktreeWatcher,
                 generation, openAbortControllers, pendingReaderIds,
                 fetchAbortControllers, plainOpening, reads, fetching,
                 aborted, openGen, current, disposedAt>>

(* Repository.open rejected: not a repository, or its signal was aborted.  *)
OpenRejects(r) ==
  /\ r \in opening
  /\ opening' = opening \ {r}
  /\ Heard(r, "failed")
  /\ UNCHANGED <<fields, plainOpening, reads, fetching, aborted, openGen,
                 current, disposedAt>>

(* createLogReader up to the await; getOpenRepoFor throws when there is    *)
(* neither a staged nor a live repository.                                 *)
CreateLogReader(r) ==
  /\ phase[r] = "open"
  /\ current = r
  /\ IF GetOpenRepoFor(r) = NoRepo
       THEN /\ phase' = [phase EXCEPT ![r] = "failed"]
            /\ UNCHANGED reads
       ELSE /\ phase' = [phase EXCEPT ![r] = "reading"]
            /\ reads' = [reads EXCEPT ![r] = GetOpenRepoFor(r)]
  /\ UNCHANGED <<fields, opening, plainOpening, fetching, aborted, openGen,
                 current, disposedAt>>

(* The same handler called outside an attempt, on the live repository.     *)
CreatePlainReader(c) ==
  /\ c \in PlainCaller
  /\ reads[c] = NoRepo
  /\ repo # NoRepo
  /\ reads' = [reads EXCEPT ![c] = repo]
  /\ UNCHANGED <<fields, opening, plainOpening, fetching, aborted, caller>>

(* createCommitLogReader resolved: createReader numbers the pager and      *)
(* files it under the attempt, whatever happened to the attempt meanwhile. *)
CreateReader(c) ==
  /\ reads[c] # NoRepo
  /\ readerSeq < MaxReaders
  /\ LET id == readerSeq + 1
         r  == Owner(c)
     IN /\ readerSeq' = NextReaderSeq
        /\ readers' = [i \in DOMAIN readers \cup {id} |->
                         IF i = id THEN [repo |-> reads[c], req |-> r]
                                   ELSE readers[i]]
        /\ IF c \in Request
             THEN /\ pendingReaderIds' = [pendingReaderIds EXCEPT ![c] = @ \cup {id}]
                  /\ Heard(c, "open")
             ELSE UNCHANGED <<pendingReaderIds, phase>>
  /\ reads' = [reads EXCEPT ![c] = NoRepo]
  /\ UNCHANGED <<repo, watcher, worktreeWatcher, generation,
                 openAbortControllers, pendingRepos, fetchAbortControllers,
                 opening, plainOpening, fetching, aborted, openGen, current,
                 disposedAt>>

(* createCommitLogReader rejected: a git error, or an aborted signal.      *)
CreateReaderRejects(c) ==
  /\ reads[c] # NoRepo
  /\ reads' = [reads EXCEPT ![c] = NoRepo]
  /\ IF c \in Request THEN Heard(c, "failed") ELSE UNCHANGED phase
  /\ UNCHANGED <<fields, opening, plainOpening, fetching, aborted, openGen,
                 current, disposedAt>>

(* An auxiliary read or the first readPage of the attempt failed.          *)
AuxReadFails(r) ==
  /\ phase[r] = "open"
  /\ phase' = [phase EXCEPT ![r] = "failed"]
  /\ UNCHANGED <<fields, calls, openGen, current, disposedAt>>

(* commitOpenRepo: promote the staged repository, keep exactly the readers *)
(* the attempt created, and only then start its watchers; a no-op if       *)
(* nothing is staged.                                                      *)
CommitOpen(r) ==
  /\ phase[r] = "open"
  /\ current = r
  /\ phase' = [phase EXCEPT ![r] = "committed"]
  /\ IF pendingRepos[r] = NoRepo
       THEN UNCHANGED <<repo, readers, watcher, worktreeWatcher, pendingRepos,
                        pendingReaderIds>>
       ELSE /\ repo' = pendingRepos[r]
            /\ KeepReaders(pendingReaderIds[r])
            /\ StartWatch(pendingRepos[r])
            /\ Promote(r)
  /\ UNCHANGED <<readerSeq, generation, openAbortControllers,
                 fetchAbortControllers, calls, openGen, current, disposedAt>>

(* endOpenAttempt: drop every piece of the attempt's bookkeeping and close *)
(* the readers it created and never committed.                             *)
EndOpenAttempt(r) ==
  /\ phase[r] \in {"open", "failed", "committed"}
  /\ phase' = [phase EXCEPT ![r] = "ended"]
  /\ Forget(r)
  /\ KeepReaders(DOMAIN readers \ pendingReaderIds[r])
  /\ UNCHANGED <<repo, readerSeq, watcher, worktreeWatcher, generation,
                 fetchAbortControllers, calls, openGen, current, disposedAt>>

(* cancelOpenRepo: abort the attempt's signal if it is still registered.   *)
CancelOpen(r) ==
  /\ r \in openAbortControllers
  /\ r \notin aborted
  /\ aborted' = aborted \cup {r}
  /\ UNCHANGED <<fields, opening, plainOpening, reads, fetching, caller>>

(* The renderer moves its generation on without opening anything (a filter *)
(* change): every attempt fails its next check.                            *)
Abandon ==
  /\ current # NoRequest
  /\ current' = NoRequest
  /\ UNCHANGED <<fields, calls, phase, openGen, disposedAt>>

-----------------------------------------------------------------------------
(* The plain openRepo channel: commits as soon as Repository.open resolves.*)

PlainOpen ==
  /\ generation < MaxGeneration
  /\ generation' = generation + 1
  /\ plainOpening' = plainOpening \cup {generation + 1}
  /\ current' = NoRequest
  /\ UNCHANGED <<repo, readers, readerSeq, watcher, worktreeWatcher,
                 openAbortControllers, pendingRepos, pendingReaderIds,
                 fetchAbortControllers, opening, reads, fetching, aborted,
                 phase, openGen, disposedAt>>

(* A stale result is not assigned, but the handler still restarts the      *)
(* watch of whatever is live (and throws if nothing is).                   *)
PlainOpenResolves(g) ==
  /\ g \in plainOpening
  /\ plainOpening' = plainOpening \ {g}
  /\ IF Stale(g)
       THEN /\ StartWatch(repo)
            /\ UNCHANGED <<repo, readers>>
       ELSE /\ repo' = g
            /\ KeepReaders({})
            /\ StartWatch(g)
  /\ UNCHANGED <<readerSeq, generation, openAbortControllers, pendingRepos,
                 pendingReaderIds, fetchAbortControllers, opening, reads,
                 fetching, aborted, caller>>

PlainOpenRejects(g) ==
  /\ g \in plainOpening
  /\ plainOpening' = plainOpening \ {g}
  /\ UNCHANGED <<fields, opening, reads, fetching, aborted, caller>>

-----------------------------------------------------------------------------
(* Readers and watchers of the live session                                *)

CloseReader(id) ==
  /\ id \in DOMAIN readers
  /\ KeepReaders(DOMAIN readers \ {id})
  /\ UNCHANGED <<repo, readerSeq, watcher, worktreeWatcher, generation,
                 openAbortControllers, pendingRepos, pendingReaderIds,
                 fetchAbortControllers, calls, caller>>

(* refreshWorktreeIgnoreList: recreate the working-tree watch; recreating  *)
(* may fail and leave none.                                                *)
RefreshWorktreeIgnoreList ==
  /\ repo # NoRepo
  /\ worktreeWatcher # NoRepo
  /\ worktreeWatcher' \in {repo, NoRepo}
  /\ UNCHANGED <<repo, readers, readerSeq, watcher, generation,
                 openAbortControllers, pendingRepos, pendingReaderIds,
                 fetchAbortControllers, calls, caller>>

-----------------------------------------------------------------------------
(* Network operations                                                      *)

RegisterFetch(f) ==
  /\ f \notin fetching
  /\ f \notin aborted
  /\ fetching' = fetching \cup {f}
  /\ fetchAbortControllers' = fetchAbortControllers \cup {f}
  /\ UNCHANGED <<repo, readers, readerSeq, watcher, worktreeWatcher,
                 generation, openAbortControllers, pendingRepos,
                 pendingReaderIds, opening, plainOpening, reads, aborted,
                 caller>>

(* The call settled, with any outcome: clearFetch in the handler's finally.*)
ClearFetch(f) ==
  /\ f \in fetching
  /\ fetching' = fetching \ {f}
  /\ fetchAbortControllers' = fetchAbortControllers \ {f}
  /\ UNCHANGED <<repo, readers, readerSeq, watcher, worktreeWatcher,
                 generation, openAbortControllers, pendingRepos,
                 pendingReaderIds, opening, plainOpening, reads, aborted,
                 caller>>

CancelFetch(f) ==
  /\ f \in fetchAbortControllers
  /\ f \notin aborted
  /\ aborted' = aborted \cup {f}
  /\ UNCHANGED <<fields, opening, plainOpening, reads, fetching, caller>>

-----------------------------------------------------------------------------
(* Teardown                                                                *)

(* A faulty dispose() that leaves the network operations running.          *)
AbortOpens == aborted' = aborted \cup openAbortControllers

(* dispose() aborts whatever is in flight: open attempts and fetches.      *)
AbortAll ==
  aborted' = aborted \cup openAbortControllers \cup fetchAbortControllers

DisposeFields ==
  /\ generation < MaxGeneration
  /\ generation' = generation + 1
  /\ disposedAt' = generation + 1
  /\ repo' = NoRepo
  /\ KeepReaders({})
  /\ watcher' = NoRepo
  /\ worktreeWatcher' = NoRepo
  /\ AbortAll
  /\ openAbortControllers' = {}
  /\ pendingRepos' = [r \in Request |-> NoRepo]
  /\ pendingReaderIds' = [r \in Request |-> {}]
  /\ fetchAbortControllers' = {}
  /\ current' = NoRequest
  /\ UNCHANGED <<readerSeq, opening, plainOpening, reads, fetching, openGen>>

(* closeRepoSession, called by a renderer that has moved its generation on.*)
Dispose ==
  /\ DisposeFields
  /\ UNCHANGED phase

(* render-process-gone and a main-frame navigation: the same teardown, and *)
(* no attempt in progress will ever reach its endOpenAttempt.              *)
RendererGone ==
  /\ DisposeFields
  /\ phase' = [r \in Request |->
                 IF phase[r] \in {"idle", "ended"} THEN phase[r] ELSE "gone"]

-----------------------------------------------------------------------------
AttemptStep(r) ==
  \/ Open(r) \/ OpenResolves(r) \/ OpenRejects(r)
  \/ CreateLogReader(r) \/ AuxReadFails(r)
  \/ CommitOpen(r) \/ EndOpenAttempt(r) \/ CancelOpen(r)

ReaderStep(c) == CreatePlainReader(c) \/ CreateReader(c) \/ CreateReaderRejects(c)

FetchStep(f) == RegisterFetch(f) \/ ClearFetch(f) \/ CancelFetch(f)

Next ==
  \/ \E r \in Request : AttemptStep(r)
  \/ \E c \in Caller : ReaderStep(c)
  \/ \E f \in FetchId : FetchStep(f)
  \/ \E g \in plainOpening : PlainOpenResolves(g) \/ PlainOpenRejects(g)
  \/ \E id \in DOMAIN readers : CloseReader(id)
  \/ PlainOpen \/ Abandon \/ RefreshWorktreeIgnoreList
  \/ Dispose \/ RendererGone

Spec == Init /\ [][Next]_vars

-----------------------------------------------------------------------------
(* Every variable has its type.                                            *)
TypeOK ==
  /\ repo \in Nat /\ watcher \in Nat /\ worktreeWatcher \in Nat
  /\ readerSeq \in Nat /\ generation \in Nat /\ disposedAt \in Nat
  /\ DOMAIN readers \subseteq 1..readerSeq
  /\ readers \in [DOMAIN readers -> Reader]
  /\ openAbortControllers \subseteq Request
  /\ pendingRepos \in [Request -> Nat]
  /\ pendingReaderIds \in [Request -> SUBSET (1..readerSeq)]
  /\ fetchAbortControllers \subseteq FetchId
  /\ opening \subseteq Request
  /\ plainOpening \subseteq Nat
  /\ reads \in [Caller -> Nat]
  /\ fetching \subseteq FetchId
  /\ aborted \subseteq Request \cup FetchId
  /\ phase \in [Request -> Phase]
  /\ openGen \in [Request -> Nat]
  /\ current \in Request \cup {NoRequest}

(* A settled attempt leaves nothing behind: no abort controller, no staged *)
(* repository, no reader waiting for a commit (endOpenAttempt's contract:  *)
(* "never neither, or openAbortControllers/pendingRepos leak entries for   *)
(* the app's remaining lifetime").                                         *)
NothingLeaks ==
  \A r \in Request :
    phase[r] \in {"idle", "ended"} =>
      /\ r \notin openAbortControllers
      /\ pendingRepos[r] = NoRepo
      /\ pendingReaderIds[r] = {}

(* FR-199, "no orphaned reader, no repo/reader mismatch": a reader created *)
(* under an attempt walks that attempt's own repository, and it either     *)
(* still waits for the attempt's outcome or that repository is the live    *)
(* one.                                                                    *)
ReadersHaveOwner ==
  \A id \in DOMAIN readers :
    LET r == readers[id].req IN
    r # NoRequest =>
      /\ readers[id].repo = openGen[r]
      /\ id \in pendingReaderIds[r] \/ repo = openGen[r]

(* FR-458: no watch outlives its repository.  A live repository has its    *)
(* ref watch, and a working-tree watch is never of another repository.     *)
WatchFollowsRepo ==
  /\ watcher = repo
  /\ worktreeWatcher \in {repo, NoRepo}

(* Both: what the session reads and watches is one repository, but for the *)
(* readers of an attempt that still has it staged.                         *)
ServesOneRepo == ReadersHaveOwner /\ WatchFollowsRepo

(* FR-164/FR-197: a git child process an attempt or a network operation    *)
(* waits for can be aborted, or has been, for as long as it runs: no       *)
(* bookkeeping is dropped while a call still depends on it.                *)
InFlightIsCancellable ==
  /\ \A r \in Request :
       r \in opening \/ reads[r] # NoRepo => r \in openAbortControllers \cup aborted
  /\ \A f \in fetching : f \in fetchAbortControllers \cup aborted

(* A stale open() never becomes live: the live repository only ever moves  *)
(* to a newer open() call, and nothing opened before a dispose() comes     *)
(* back after it (the comments of `generation' and of dispose()).          *)
LiveNeverGoesBack ==
  [][repo' # repo /\ repo' # NoRepo => repo' > repo /\ repo' > disposedAt]_vars

(* Ending an attempt, committed or not, never closes a reader that serves  *)
(* the live repository (FR-199: the previous session stays untouched, and  *)
(* after a commit endOpenAttempt is "a harmless no-op").                   *)
EndKeepsLiveReaders ==
  [][\A r \in Request : EndOpenAttempt(r) =>
       \A id \in DOMAIN readers :
         readers[id].req = NoRequest \/ readers[id].repo = repo
           => id \in DOMAIN readers']_vars
=============================================================================
