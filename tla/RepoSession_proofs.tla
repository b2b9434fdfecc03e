------------------------- MODULE RepoSession_proofs -------------------------
(***************************************************************************)
(* Safety of RepoSession for every set of requests, callers and fetches    *)
(* and every bound, checked by TLAPS.                                      *)
(*                                                                         *)
(* None of the checked invariants is inductive alone: whether a stale      *)
(* open() can become live depends on how the generation numbers of calls   *)
(* in flight relate to the session's, and whether a reader is leaked on    *)
(* where its attempt's caller stands.  GenerationsOrdered and              *)
(* ProtocolFollowed say just that, and IInv, their conjunction with the    *)
(* checked invariants, is inductive.                                       *)
(***************************************************************************)
EXTENDS RepoSession, TLAPS

(* Every open() call has a number of its own, no number is ahead of the    *)
(* session's generation, and no running plain open() carries the number    *)
(* left by the last dispose().                                             *)
GenerationsOrdered ==
  /\ repo <= generation
  /\ disposedAt <= generation
  /\ plainOpening \subseteq 1..generation
  /\ disposedAt \notin plainOpening
  /\ \A r \in Request :
       /\ openGen[r] <= generation
       /\ openGen[r] \notin plainOpening
       /\ phase[r] # "idle" => openGen[r] > 0
       /\ \A s \in Request : openGen[r] = openGen[s] /\ openGen[r] > 0 => r = s

(* What the session holds for an attempt matches its caller's progress: a  *)
(* call in flight belongs to a caller that waits for it (or is gone), only *)
(* the attempt's own repository is staged or read under its name, the      *)
(* current attempt is the newest open() and still staged, a committed      *)
(* attempt owns no pending reader, and its controller lives until the end. *)
ProtocolFollowed ==
  \A r \in Request :
    /\ r \in opening => phase[r] \in {"opening", "gone"}
    /\ reads[r] # NoRepo => phase[r] \in {"reading", "gone"} /\ reads[r] = openGen[r]
    /\ pendingRepos[r] \in {NoRepo, openGen[r]}
    /\ repo = openGen[r] /\ repo # NoRepo =>
         phase[r] \in {"committed", "ended"} /\ pendingReaderIds[r] = {}
    /\ current = r =>
         phase[r] # "idle" /\ openGen[r] = generation /\ disposedAt < generation
    /\ current = r /\ phase[r] \in {"open", "reading"} => pendingRepos[r] = generation
    /\ \A id \in pendingReaderIds[r] \cap DOMAIN readers : readers[id].req = r
    /\ \A id \in DOMAIN readers : readers[id].req = r => phase[r] # "idle"
    /\ phase[r] \notin {"idle", "ended"} => r \in openAbortControllers \cup aborted

IInv ==
  /\ TypeOK
  /\ GenerationsOrdered
  /\ ProtocolFollowed
  /\ NothingLeaks
  /\ ReadersHaveOwner
  /\ WatchFollowsRepo
  /\ InFlightIsCancellable

-----------------------------------------------------------------------------
(* One lemma per conjunct of the invariant, one step per action.           *)

(* Every action preserves the types, without help from the other conjuncts. *)
LEMMA TypeStep ==
  ASSUME TypeOK, [Next]_vars
  PROVE  TypeOK'
<1> USE RepoSessionAssumption
    DEF TypeOK, Reader, Phase, Caller, NoRepo, fields, calls, caller
<1>1. ASSUME NEW r \in Request, Open(r) PROVE TypeOK'
  BY <1>1 DEF Open
<1>2. ASSUME NEW r \in Request, OpenResolves(r) PROVE TypeOK'
  BY <1>2 DEF OpenResolves, Stale, Heard
<1>3. ASSUME NEW r \in Request, OpenRejects(r) PROVE TypeOK'
  BY <1>3 DEF OpenRejects, Heard
<1>4. ASSUME NEW r \in Request, CreateLogReader(r) PROVE TypeOK'
  BY <1>4 DEF CreateLogReader, GetOpenRepoFor
<1>5. ASSUME NEW r \in Request, AuxReadFails(r) PROVE TypeOK'
  BY <1>5 DEF AuxReadFails
<1>6. ASSUME NEW r \in Request, CommitOpen(r) PROVE TypeOK'
  BY <1>6 DEF CommitOpen, KeepReaders, StartWatch, Promote
<1>7. ASSUME NEW r \in Request, EndOpenAttempt(r) PROVE TypeOK'
  BY <1>7 DEF EndOpenAttempt, KeepReaders, Forget
<1>8. ASSUME NEW r \in Request, CancelOpen(r) PROVE TypeOK'
  BY <1>8 DEF CancelOpen
<1>9. ASSUME NEW c \in Caller, CreatePlainReader(c) PROVE TypeOK'
  BY <1>9 DEF CreatePlainReader
<1>10. ASSUME NEW c \in Caller, CreateReader(c) PROVE TypeOK'
  BY SMTT(30), <1>10 DEF CreateReader, Owner, NextReaderSeq, Heard
<1>11. ASSUME NEW c \in Caller, CreateReaderRejects(c) PROVE TypeOK'
  BY <1>11 DEF CreateReaderRejects, Heard
<1>12. ASSUME NEW f \in FetchId, RegisterFetch(f) PROVE TypeOK'
  BY <1>12 DEF RegisterFetch
<1>13. ASSUME NEW f \in FetchId, ClearFetch(f) PROVE TypeOK'
  BY <1>13 DEF ClearFetch
<1>14. ASSUME NEW f \in FetchId, CancelFetch(f) PROVE TypeOK'
  BY <1>14 DEF CancelFetch
<1>15. ASSUME NEW g \in plainOpening, PlainOpenResolves(g) PROVE TypeOK'
  <2>1. CASE Stale(g)
    BY <1>15, <2>1 DEF PlainOpenResolves, Stale, KeepReaders, StartWatch
  <2>2. CASE ~Stale(g)
    BY SMTT(30), <1>15, <2>2 DEF PlainOpenResolves, Stale, KeepReaders, StartWatch
  <2>3. QED
    BY <2>1, <2>2
<1>16. ASSUME NEW g \in plainOpening, PlainOpenRejects(g) PROVE TypeOK'
  BY <1>16 DEF PlainOpenRejects
<1>17. ASSUME NEW id \in DOMAIN readers, CloseReader(id) PROVE TypeOK'
  BY <1>17 DEF CloseReader, KeepReaders
<1>18. ASSUME PlainOpen PROVE TypeOK'
  BY <1>18 DEF PlainOpen
<1>19. ASSUME Abandon PROVE TypeOK'
  BY <1>19 DEF Abandon
<1>20. ASSUME RefreshWorktreeIgnoreList PROVE TypeOK'
  BY <1>20 DEF RefreshWorktreeIgnoreList
<1>21. ASSUME Dispose PROVE TypeOK'
  BY <1>21 DEF Dispose, DisposeFields, KeepReaders, AbortAll
<1>22. ASSUME RendererGone PROVE TypeOK'
  BY <1>22 DEF RendererGone, DisposeFields, KeepReaders, AbortAll
<1>23. ASSUME UNCHANGED vars PROVE TypeOK'
  BY <1>23 DEF vars
<1>24. QED
  BY <1>1, <1>2, <1>3, <1>4, <1>5, <1>6, <1>7, <1>8, <1>9, <1>10, <1>11, <1>12,
     <1>13, <1>14, <1>15, <1>16, <1>17, <1>18, <1>19, <1>20, <1>21, <1>22, <1>23
  DEF Next, AttemptStep, ReaderStep, FetchStep

(* A call is numbered past every earlier one, and only open() numbers calls. *)
LEMMA GenerationsStep ==
  ASSUME TypeOK, GenerationsOrdered, ProtocolFollowed, TypeOK', [Next]_vars
  PROVE  GenerationsOrdered'
<1> USE RepoSessionAssumption
    DEF TypeOK, Reader, Phase, Caller, NoRepo,
      GenerationsOrdered, ProtocolFollowed, fields, calls, caller
<1>1. ASSUME NEW r \in Request, Open(r) PROVE GenerationsOrdered'
  BY <1>1 DEF Open
<1>2. ASSUME NEW r \in Request, OpenResolves(r) PROVE GenerationsOrdered'
  BY <1>2 DEF OpenResolves, Stale, Heard
<1>3. ASSUME NEW r \in Request, OpenRejects(r) PROVE GenerationsOrdered'
  BY <1>3 DEF OpenRejects, Heard
<1>4. ASSUME NEW r \in Request, CreateLogReader(r) PROVE GenerationsOrdered'
  BY <1>4 DEF CreateLogReader, GetOpenRepoFor
<1>5. ASSUME NEW r \in Request, AuxReadFails(r) PROVE GenerationsOrdered'
  BY <1>5 DEF AuxReadFails
<1>6. ASSUME NEW r \in Request, CommitOpen(r) PROVE GenerationsOrdered'
  BY <1>6 DEF CommitOpen, KeepReaders, StartWatch, Promote
<1>7. ASSUME NEW r \in Request, EndOpenAttempt(r) PROVE GenerationsOrdered'
  BY <1>7 DEF EndOpenAttempt, KeepReaders, Forget
<1>8. ASSUME NEW r \in Request, CancelOpen(r) PROVE GenerationsOrdered'
  BY <1>8 DEF CancelOpen
<1>9. ASSUME NEW c \in Caller, CreatePlainReader(c) PROVE GenerationsOrdered'
  BY <1>9 DEF CreatePlainReader
<1>10. ASSUME NEW c \in Caller, CreateReader(c) PROVE GenerationsOrdered'
  BY <1>10 DEF CreateReader, Owner, NextReaderSeq, Heard
<1>11. ASSUME NEW c \in Caller, CreateReaderRejects(c) PROVE GenerationsOrdered'
  BY <1>11 DEF CreateReaderRejects, Heard
<1>12. ASSUME NEW f \in FetchId, RegisterFetch(f) PROVE GenerationsOrdered'
  BY <1>12 DEF RegisterFetch
<1>13. ASSUME NEW f \in FetchId, ClearFetch(f) PROVE GenerationsOrdered'
  BY <1>13 DEF ClearFetch
<1>14. ASSUME NEW f \in FetchId, CancelFetch(f) PROVE GenerationsOrdered'
  BY <1>14 DEF CancelFetch
<1>15. ASSUME NEW g \in plainOpening, PlainOpenResolves(g) PROVE GenerationsOrdered'
  BY <1>15 DEF PlainOpenResolves, Stale, KeepReaders, StartWatch
<1>16. ASSUME NEW g \in plainOpening, PlainOpenRejects(g) PROVE GenerationsOrdered'
  BY <1>16 DEF PlainOpenRejects
<1>17. ASSUME NEW id \in DOMAIN readers, CloseReader(id) PROVE GenerationsOrdered'
  BY <1>17 DEF CloseReader, KeepReaders
<1>18. ASSUME PlainOpen PROVE GenerationsOrdered'
  BY <1>18 DEF PlainOpen
<1>19. ASSUME Abandon PROVE GenerationsOrdered'
  BY <1>19 DEF Abandon
<1>20. ASSUME RefreshWorktreeIgnoreList PROVE GenerationsOrdered'
  BY <1>20 DEF RefreshWorktreeIgnoreList
<1>21. ASSUME Dispose PROVE GenerationsOrdered'
  BY <1>21 DEF Dispose, DisposeFields, KeepReaders, AbortAll
<1>22. ASSUME RendererGone PROVE GenerationsOrdered'
  BY <1>22 DEF RendererGone, DisposeFields, KeepReaders, AbortAll
<1>23. ASSUME UNCHANGED vars PROVE GenerationsOrdered'
  BY <1>23 DEF vars
<1>24. QED
  BY <1>1, <1>2, <1>3, <1>4, <1>5, <1>6, <1>7, <1>8, <1>9, <1>10, <1>11, <1>12,
     <1>13, <1>14, <1>15, <1>16, <1>17, <1>18, <1>19, <1>20, <1>21, <1>22, <1>23
  DEF Next, AttemptStep, ReaderStep, FetchStep

(* The session's bookkeeping keeps matching the callers' progress.         *)
LEMMA ProtocolStep ==
  ASSUME TypeOK, GenerationsOrdered, ProtocolFollowed, NothingLeaks,
         TypeOK', [Next]_vars
  PROVE  ProtocolFollowed'
<1> USE RepoSessionAssumption
    DEF TypeOK, Reader, Phase, Caller, NoRepo,
      GenerationsOrdered, ProtocolFollowed, NothingLeaks, fields, calls, caller
<1>1. ASSUME NEW r \in Request, Open(r) PROVE ProtocolFollowed'
  BY <1>1 DEF Open
<1>2. ASSUME NEW r \in Request, OpenResolves(r) PROVE ProtocolFollowed'
  BY <1>2 DEF OpenResolves, Stale, Heard
<1>3. ASSUME NEW r \in Request, OpenRejects(r) PROVE ProtocolFollowed'
  BY <1>3 DEF OpenRejects, Heard
<1>4. ASSUME NEW r \in Request, CreateLogReader(r) PROVE ProtocolFollowed'
  BY <1>4 DEF CreateLogReader, GetOpenRepoFor
<1>5. ASSUME NEW r \in Request, AuxReadFails(r) PROVE ProtocolFollowed'
  BY <1>5 DEF AuxReadFails
<1>6. ASSUME NEW r \in Request, CommitOpen(r) PROVE ProtocolFollowed'
  BY <1>6 DEF CommitOpen, KeepReaders, StartWatch, Promote
<1>7. ASSUME NEW r \in Request, EndOpenAttempt(r) PROVE ProtocolFollowed'
  BY <1>7 DEF EndOpenAttempt, KeepReaders, Forget
<1>8. ASSUME NEW r \in Request, CancelOpen(r) PROVE ProtocolFollowed'
  BY <1>8 DEF CancelOpen
<1>9. ASSUME NEW c \in Caller, CreatePlainReader(c) PROVE ProtocolFollowed'
  BY <1>9 DEF CreatePlainReader
<1>10. ASSUME NEW c \in Caller, CreateReader(c) PROVE ProtocolFollowed'
  BY <1>10 DEF CreateReader, Owner, NextReaderSeq, Heard
<1>11. ASSUME NEW c \in Caller, CreateReaderRejects(c) PROVE ProtocolFollowed'
  BY <1>11 DEF CreateReaderRejects, Heard
<1>12. ASSUME NEW f \in FetchId, RegisterFetch(f) PROVE ProtocolFollowed'
  BY <1>12 DEF RegisterFetch
<1>13. ASSUME NEW f \in FetchId, ClearFetch(f) PROVE ProtocolFollowed'
  BY <1>13 DEF ClearFetch
<1>14. ASSUME NEW f \in FetchId, CancelFetch(f) PROVE ProtocolFollowed'
  BY <1>14 DEF CancelFetch
<1>15. ASSUME NEW g \in plainOpening, PlainOpenResolves(g) PROVE ProtocolFollowed'
  BY <1>15 DEF PlainOpenResolves, Stale, KeepReaders, StartWatch
<1>16. ASSUME NEW g \in plainOpening, PlainOpenRejects(g) PROVE ProtocolFollowed'
  BY <1>16 DEF PlainOpenRejects
<1>17. ASSUME NEW id \in DOMAIN readers, CloseReader(id) PROVE ProtocolFollowed'
  BY <1>17 DEF CloseReader, KeepReaders
<1>18. ASSUME PlainOpen PROVE ProtocolFollowed'
  BY <1>18 DEF PlainOpen
<1>19. ASSUME Abandon PROVE ProtocolFollowed'
  BY <1>19 DEF Abandon
<1>20. ASSUME RefreshWorktreeIgnoreList PROVE ProtocolFollowed'
  BY <1>20 DEF RefreshWorktreeIgnoreList
<1>21. ASSUME Dispose PROVE ProtocolFollowed'
  BY <1>21 DEF Dispose, DisposeFields, KeepReaders, AbortAll
<1>22. ASSUME RendererGone PROVE ProtocolFollowed'
  BY <1>22 DEF RendererGone, DisposeFields, KeepReaders, AbortAll
<1>23. ASSUME UNCHANGED vars PROVE ProtocolFollowed'
  BY <1>23 DEF vars
<1>24. QED
  BY <1>1, <1>2, <1>3, <1>4, <1>5, <1>6, <1>7, <1>8, <1>9, <1>10, <1>11, <1>12,
     <1>13, <1>14, <1>15, <1>16, <1>17, <1>18, <1>19, <1>20, <1>21, <1>22, <1>23
  DEF Next, AttemptStep, ReaderStep, FetchStep

(* Only a caller that will still call endOpenAttempt adds bookkeeping.     *)
LEMMA NothingLeaksStep ==
  ASSUME TypeOK, ProtocolFollowed, NothingLeaks, TypeOK', [Next]_vars
  PROVE  NothingLeaks'
<1> USE RepoSessionAssumption
    DEF TypeOK, Reader, Phase, Caller, NoRepo,
      ProtocolFollowed, NothingLeaks, fields, calls, caller
<1>1. ASSUME NEW r \in Request, Open(r) PROVE NothingLeaks'
  BY <1>1 DEF Open
<1>2. ASSUME NEW r \in Request, OpenResolves(r) PROVE NothingLeaks'
  BY <1>2 DEF OpenResolves, Stale, Heard
<1>3. ASSUME NEW r \in Request, OpenRejects(r) PROVE NothingLeaks'
  BY <1>3 DEF OpenRejects, Heard
<1>4. ASSUME NEW r \in Request, CreateLogReader(r) PROVE NothingLeaks'
  BY <1>4 DEF CreateLogReader, GetOpenRepoFor
<1>5. ASSUME NEW r \in Request, AuxReadFails(r) PROVE NothingLeaks'
  BY <1>5 DEF AuxReadFails
<1>6. ASSUME NEW r \in Request, CommitOpen(r) PROVE NothingLeaks'
  BY <1>6 DEF CommitOpen, KeepReaders, StartWatch, Promote
<1>7. ASSUME NEW r \in Request, EndOpenAttempt(r) PROVE NothingLeaks'
  BY <1>7 DEF EndOpenAttempt, KeepReaders, Forget
<1>8. ASSUME NEW r \in Request, CancelOpen(r) PROVE NothingLeaks'
  BY <1>8 DEF CancelOpen
<1>9. ASSUME NEW c \in Caller, CreatePlainReader(c) PROVE NothingLeaks'
  BY <1>9 DEF CreatePlainReader
<1>10. ASSUME NEW c \in Caller, CreateReader(c) PROVE NothingLeaks'
  BY <1>10 DEF CreateReader, Owner, NextReaderSeq, Heard
<1>11. ASSUME NEW c \in Caller, CreateReaderRejects(c) PROVE NothingLeaks'
  BY <1>11 DEF CreateReaderRejects, Heard
<1>12. ASSUME NEW f \in FetchId, RegisterFetch(f) PROVE NothingLeaks'
  BY <1>12 DEF RegisterFetch
<1>13. ASSUME NEW f \in FetchId, ClearFetch(f) PROVE NothingLeaks'
  BY <1>13 DEF ClearFetch
<1>14. ASSUME NEW f \in FetchId, CancelFetch(f) PROVE NothingLeaks'
  BY <1>14 DEF CancelFetch
<1>15. ASSUME NEW g \in plainOpening, PlainOpenResolves(g) PROVE NothingLeaks'
  BY <1>15 DEF PlainOpenResolves, Stale, KeepReaders, StartWatch
<1>16. ASSUME NEW g \in plainOpening, PlainOpenRejects(g) PROVE NothingLeaks'
  BY <1>16 DEF PlainOpenRejects
<1>17. ASSUME NEW id \in DOMAIN readers, CloseReader(id) PROVE NothingLeaks'
  BY <1>17 DEF CloseReader, KeepReaders
<1>18. ASSUME PlainOpen PROVE NothingLeaks'
  BY <1>18 DEF PlainOpen
<1>19. ASSUME Abandon PROVE NothingLeaks'
  BY <1>19 DEF Abandon
<1>20. ASSUME RefreshWorktreeIgnoreList PROVE NothingLeaks'
  BY <1>20 DEF RefreshWorktreeIgnoreList
<1>21. ASSUME Dispose PROVE NothingLeaks'
  BY <1>21 DEF Dispose, DisposeFields, KeepReaders, AbortAll
<1>22. ASSUME RendererGone PROVE NothingLeaks'
  BY <1>22 DEF RendererGone, DisposeFields, KeepReaders, AbortAll
<1>23. ASSUME UNCHANGED vars PROVE NothingLeaks'
  BY <1>23 DEF vars
<1>24. QED
  BY <1>1, <1>2, <1>3, <1>4, <1>5, <1>6, <1>7, <1>8, <1>9, <1>10, <1>11, <1>12,
     <1>13, <1>14, <1>15, <1>16, <1>17, <1>18, <1>19, <1>20, <1>21, <1>22, <1>23
  DEF Next, AttemptStep, ReaderStep, FetchStep

(* A reader is filed under the attempt whose repository it walks, and a    *)
(* commit keeps exactly the readers of the repository it makes live.       *)
LEMMA ReadersHaveOwnerStep ==
  ASSUME TypeOK, GenerationsOrdered, ProtocolFollowed, ReadersHaveOwner,
         TypeOK', [Next]_vars
  PROVE  ReadersHaveOwner'
<1> USE RepoSessionAssumption
    DEF TypeOK, Reader, Phase, Caller, NoRepo,
      GenerationsOrdered, ProtocolFollowed, ReadersHaveOwner, fields, calls, caller
<1>1. ASSUME NEW r \in Request, Open(r) PROVE ReadersHaveOwner'
  BY <1>1 DEF Open
<1>2. ASSUME NEW r \in Request, OpenResolves(r) PROVE ReadersHaveOwner'
  BY <1>2 DEF OpenResolves, Stale, Heard
<1>3. ASSUME NEW r \in Request, OpenRejects(r) PROVE ReadersHaveOwner'
  BY <1>3 DEF OpenRejects, Heard
<1>4. ASSUME NEW r \in Request, CreateLogReader(r) PROVE ReadersHaveOwner'
  BY <1>4 DEF CreateLogReader, GetOpenRepoFor
<1>5. ASSUME NEW r \in Request, AuxReadFails(r) PROVE ReadersHaveOwner'
  BY <1>5 DEF AuxReadFails
<1>6. ASSUME NEW r \in Request, CommitOpen(r) PROVE ReadersHaveOwner'
  BY <1>6 DEF CommitOpen, KeepReaders, StartWatch, Promote
<1>7. ASSUME NEW r \in Request, EndOpenAttempt(r) PROVE ReadersHaveOwner'
  BY <1>7 DEF EndOpenAttempt, KeepReaders, Forget
<1>8. ASSUME NEW r \in Request, CancelOpen(r) PROVE ReadersHaveOwner'
  BY <1>8 DEF CancelOpen
<1>9. ASSUME NEW c \in Caller, CreatePlainReader(c) PROVE ReadersHaveOwner'
  BY <1>9 DEF CreatePlainReader
<1>10. ASSUME NEW c \in Caller, CreateReader(c) PROVE ReadersHaveOwner'
  BY <1>10 DEF CreateReader, Owner, NextReaderSeq, Heard
<1>11. ASSUME NEW c \in Caller, CreateReaderRejects(c) PROVE ReadersHaveOwner'
  BY <1>11 DEF CreateReaderRejects, Heard
<1>12. ASSUME NEW f \in FetchId, RegisterFetch(f) PROVE ReadersHaveOwner'
  BY <1>12 DEF RegisterFetch
<1>13. ASSUME NEW f \in FetchId, ClearFetch(f) PROVE ReadersHaveOwner'
  BY <1>13 DEF ClearFetch
<1>14. ASSUME NEW f \in FetchId, CancelFetch(f) PROVE ReadersHaveOwner'
  BY <1>14 DEF CancelFetch
<1>15. ASSUME NEW g \in plainOpening, PlainOpenResolves(g) PROVE ReadersHaveOwner'
  BY SMTT(30), <1>15 DEF PlainOpenResolves, Stale, KeepReaders, StartWatch
<1>16. ASSUME NEW g \in plainOpening, PlainOpenRejects(g) PROVE ReadersHaveOwner'
  BY <1>16 DEF PlainOpenRejects
<1>17. ASSUME NEW id \in DOMAIN readers, CloseReader(id) PROVE ReadersHaveOwner'
  BY <1>17 DEF CloseReader, KeepReaders
<1>18. ASSUME PlainOpen PROVE ReadersHaveOwner'
  BY <1>18 DEF PlainOpen
<1>19. ASSUME Abandon PROVE ReadersHaveOwner'
  BY <1>19 DEF Abandon
<1>20. ASSUME RefreshWorktreeIgnoreList PROVE ReadersHaveOwner'
  BY <1>20 DEF RefreshWorktreeIgnoreList
<1>21. ASSUME Dispose PROVE ReadersHaveOwner'
  BY <1>21 DEF Dispose, DisposeFields, KeepReaders, AbortAll
<1>22. ASSUME RendererGone PROVE ReadersHaveOwner'
  BY <1>22 DEF RendererGone, DisposeFields, KeepReaders, AbortAll
<1>23. ASSUME UNCHANGED vars PROVE ReadersHaveOwner'
  BY <1>23 DEF vars
<1>24. QED
  BY <1>1, <1>2, <1>3, <1>4, <1>5, <1>6, <1>7, <1>8, <1>9, <1>10, <1>11, <1>12,
     <1>13, <1>14, <1>15, <1>16, <1>17, <1>18, <1>19, <1>20, <1>21, <1>22, <1>23
  DEF Next, AttemptStep, ReaderStep, FetchStep

(* The live repository and its watchers change in the same turn.           *)
LEMMA WatchStep ==
  ASSUME TypeOK, WatchFollowsRepo, [Next]_vars
  PROVE  WatchFollowsRepo'
<1> USE RepoSessionAssumption
    DEF TypeOK, Reader, Phase, Caller, NoRepo, WatchFollowsRepo, fields, calls, caller
<1>1. ASSUME NEW r \in Request, Open(r) PROVE WatchFollowsRepo'
  BY <1>1 DEF Open
<1>2. ASSUME NEW r \in Request, OpenResolves(r) PROVE WatchFollowsRepo'
  BY <1>2 DEF OpenResolves, Stale, Heard
<1>3. ASSUME NEW r \in Request, OpenRejects(r) PROVE WatchFollowsRepo'
  BY <1>3 DEF OpenRejects, Heard
<1>4. ASSUME NEW r \in Request, CreateLogReader(r) PROVE WatchFollowsRepo'
  BY <1>4 DEF CreateLogReader, GetOpenRepoFor
<1>5. ASSUME NEW r \in Request, AuxReadFails(r) PROVE WatchFollowsRepo'
  BY <1>5 DEF AuxReadFails
<1>6. ASSUME NEW r \in Request, CommitOpen(r) PROVE WatchFollowsRepo'
  BY <1>6 DEF CommitOpen, KeepReaders, StartWatch, Promote
<1>7. ASSUME NEW r \in Request, EndOpenAttempt(r) PROVE WatchFollowsRepo'
  BY <1>7 DEF EndOpenAttempt, KeepReaders, Forget
<1>8. ASSUME NEW r \in Request, CancelOpen(r) PROVE WatchFollowsRepo'
  BY <1>8 DEF CancelOpen
<1>9. ASSUME NEW c \in Caller, CreatePlainReader(c) PROVE WatchFollowsRepo'
  BY <1>9 DEF CreatePlainReader
<1>10. ASSUME NEW c \in Caller, CreateReader(c) PROVE WatchFollowsRepo'
  BY <1>10 DEF CreateReader, Owner, NextReaderSeq, Heard
<1>11. ASSUME NEW c \in Caller, CreateReaderRejects(c) PROVE WatchFollowsRepo'
  BY <1>11 DEF CreateReaderRejects, Heard
<1>12. ASSUME NEW f \in FetchId, RegisterFetch(f) PROVE WatchFollowsRepo'
  BY <1>12 DEF RegisterFetch
<1>13. ASSUME NEW f \in FetchId, ClearFetch(f) PROVE WatchFollowsRepo'
  BY <1>13 DEF ClearFetch
<1>14. ASSUME NEW f \in FetchId, CancelFetch(f) PROVE WatchFollowsRepo'
  BY <1>14 DEF CancelFetch
<1>15. ASSUME NEW g \in plainOpening, PlainOpenResolves(g) PROVE WatchFollowsRepo'
  BY <1>15 DEF PlainOpenResolves, Stale, KeepReaders, StartWatch
<1>16. ASSUME NEW g \in plainOpening, PlainOpenRejects(g) PROVE WatchFollowsRepo'
  BY <1>16 DEF PlainOpenRejects
<1>17. ASSUME NEW id \in DOMAIN readers, CloseReader(id) PROVE WatchFollowsRepo'
  BY <1>17 DEF CloseReader, KeepReaders
<1>18. ASSUME PlainOpen PROVE WatchFollowsRepo'
  BY <1>18 DEF PlainOpen
<1>19. ASSUME Abandon PROVE WatchFollowsRepo'
  BY <1>19 DEF Abandon
<1>20. ASSUME RefreshWorktreeIgnoreList PROVE WatchFollowsRepo'
  BY <1>20 DEF RefreshWorktreeIgnoreList
<1>21. ASSUME Dispose PROVE WatchFollowsRepo'
  BY <1>21 DEF Dispose, DisposeFields, KeepReaders, AbortAll
<1>22. ASSUME RendererGone PROVE WatchFollowsRepo'
  BY <1>22 DEF RendererGone, DisposeFields, KeepReaders, AbortAll
<1>23. ASSUME UNCHANGED vars PROVE WatchFollowsRepo'
  BY <1>23 DEF vars
<1>24. QED
  BY <1>1, <1>2, <1>3, <1>4, <1>5, <1>6, <1>7, <1>8, <1>9, <1>10, <1>11, <1>12,
     <1>13, <1>14, <1>15, <1>16, <1>17, <1>18, <1>19, <1>20, <1>21, <1>22, <1>23
  DEF Next, AttemptStep, ReaderStep, FetchStep

(* A controller is dropped when nothing waits on it, or after its abort.   *)
LEMMA InFlightStep ==
  ASSUME TypeOK, ProtocolFollowed, InFlightIsCancellable, TypeOK', [Next]_vars
  PROVE  InFlightIsCancellable'
<1> USE RepoSessionAssumption
    DEF TypeOK, Reader, Phase, Caller, NoRepo,
      ProtocolFollowed, InFlightIsCancellable, fields, calls, caller
<1>1. ASSUME NEW r \in Request, Open(r) PROVE InFlightIsCancellable'
  BY <1>1 DEF Open
<1>2. ASSUME NEW r \in Request, OpenResolves(r) PROVE InFlightIsCancellable'
  BY <1>2 DEF OpenResolves, Stale, Heard
<1>3. ASSUME NEW r \in Request, OpenRejects(r) PROVE InFlightIsCancellable'
  BY <1>3 DEF OpenRejects, Heard
<1>4. ASSUME NEW r \in Request, CreateLogReader(r) PROVE InFlightIsCancellable'
  BY <1>4 DEF CreateLogReader, GetOpenRepoFor
<1>5. ASSUME NEW r \in Request, AuxReadFails(r) PROVE InFlightIsCancellable'
  BY <1>5 DEF AuxReadFails
<1>6. ASSUME NEW r \in Request, CommitOpen(r) PROVE InFlightIsCancellable'
  BY <1>6 DEF CommitOpen, KeepReaders, StartWatch, Promote
<1>7. ASSUME NEW r \in Request, EndOpenAttempt(r) PROVE InFlightIsCancellable'
  BY <1>7 DEF EndOpenAttempt, KeepReaders, Forget
<1>8. ASSUME NEW r \in Request, CancelOpen(r) PROVE InFlightIsCancellable'
  BY <1>8 DEF CancelOpen
<1>9. ASSUME NEW c \in Caller, CreatePlainReader(c) PROVE InFlightIsCancellable'
  BY <1>9 DEF CreatePlainReader
<1>10. ASSUME NEW c \in Caller, CreateReader(c) PROVE InFlightIsCancellable'
  BY <1>10 DEF CreateReader, Owner, NextReaderSeq, Heard
<1>11. ASSUME NEW c \in Caller, CreateReaderRejects(c) PROVE InFlightIsCancellable'
  BY <1>11 DEF CreateReaderRejects, Heard
<1>12. ASSUME NEW f \in FetchId, RegisterFetch(f) PROVE InFlightIsCancellable'
  BY <1>12 DEF RegisterFetch
<1>13. ASSUME NEW f \in FetchId, ClearFetch(f) PROVE InFlightIsCancellable'
  BY <1>13 DEF ClearFetch
<1>14. ASSUME NEW f \in FetchId, CancelFetch(f) PROVE InFlightIsCancellable'
  BY <1>14 DEF CancelFetch
<1>15. ASSUME NEW g \in plainOpening, PlainOpenResolves(g) PROVE InFlightIsCancellable'
  BY <1>15 DEF PlainOpenResolves, Stale, KeepReaders, StartWatch
<1>16. ASSUME NEW g \in plainOpening, PlainOpenRejects(g) PROVE InFlightIsCancellable'
  BY <1>16 DEF PlainOpenRejects
<1>17. ASSUME NEW id \in DOMAIN readers, CloseReader(id) PROVE InFlightIsCancellable'
  BY <1>17 DEF CloseReader, KeepReaders
<1>18. ASSUME PlainOpen PROVE InFlightIsCancellable'
  BY <1>18 DEF PlainOpen
<1>19. ASSUME Abandon PROVE InFlightIsCancellable'
  BY <1>19 DEF Abandon
<1>20. ASSUME RefreshWorktreeIgnoreList PROVE InFlightIsCancellable'
  BY <1>20 DEF RefreshWorktreeIgnoreList
<1>21. ASSUME Dispose PROVE InFlightIsCancellable'
  BY <1>21 DEF Dispose, DisposeFields, KeepReaders, AbortAll
<1>22. ASSUME RendererGone PROVE InFlightIsCancellable'
  BY <1>22 DEF RendererGone, DisposeFields, KeepReaders, AbortAll
<1>23. ASSUME UNCHANGED vars PROVE InFlightIsCancellable'
  BY <1>23 DEF vars
<1>24. QED
  BY <1>1, <1>2, <1>3, <1>4, <1>5, <1>6, <1>7, <1>8, <1>9, <1>10, <1>11, <1>12,
     <1>13, <1>14, <1>15, <1>16, <1>17, <1>18, <1>19, <1>20, <1>21, <1>22, <1>23
  DEF Next, AttemptStep, ReaderStep, FetchStep

-----------------------------------------------------------------------------
(* IInv holds initially and is preserved by every step.                    *)
LEMMA InductiveInvariant == Spec => []IInv
<1>1. Init => IInv
  BY RepoSessionAssumption
  DEF Init, IInv, TypeOK, Reader, Phase, Caller, NoRepo, GenerationsOrdered,
      ProtocolFollowed, NothingLeaks, ReadersHaveOwner, WatchFollowsRepo,
      InFlightIsCancellable
<1>2. IInv /\ [Next]_vars => IInv'
  <2> SUFFICES ASSUME IInv, [Next]_vars PROVE IInv'
    OBVIOUS
  <2>1. TypeOK'
    BY TypeStep DEF IInv
  <2>2. GenerationsOrdered' /\ ProtocolFollowed'
    BY <2>1, GenerationsStep, ProtocolStep DEF IInv
  <2>3. NothingLeaks' /\ ReadersHaveOwner'
    BY <2>1, NothingLeaksStep, ReadersHaveOwnerStep DEF IInv
  <2>4. WatchFollowsRepo' /\ InFlightIsCancellable'
    BY <2>1, WatchStep, InFlightStep DEF IInv
  <2>5. QED
    BY <2>1, <2>2, <2>3, <2>4 DEF IInv
<1>3. QED
  BY <1>1, <1>2, PTL DEF Spec

(* Every variable of the session always has its type.                      *)
THEOREM TypeCorrect == Spec => []TypeOK
<1>1. IInv => TypeOK
  BY DEF IInv
<1>2. QED
  BY <1>1, InductiveInvariant, PTL

(* FR-197: once endOpenAttempt has run, an attempt leaves no abort         *)
(* controller, no staged repository and no pending reader behind.          *)
THEOREM AttemptsNeverLeak == Spec => []NothingLeaks
<1>1. IInv => NothingLeaks
  BY DEF IInv
<1>2. QED
  BY <1>1, InductiveInvariant, PTL

(* FR-199: no orphaned reader, no repo/reader mismatch; FR-458: the        *)
(* watchers are always those of the live repository.                       *)
THEOREM OneRepoServed == Spec => []ServesOneRepo
<1>1. IInv => ServesOneRepo
  BY DEF IInv, ServesOneRepo
<1>2. QED
  BY <1>1, InductiveInvariant, PTL

(* FR-164: whatever runs for an attempt or a fetch can be aborted.         *)
THEOREM NothingRunsUncancellable == Spec => []InFlightIsCancellable
<1>1. IInv => InFlightIsCancellable
  BY DEF IInv
<1>2. QED
  BY <1>1, InductiveInvariant, PTL

(* The live repository only moves to newer open() calls, and a dispose()   *)
(* is final for every call made before it.  Only a commit of the current   *)
(* attempt and a plain open() that is not stale assign `repo', and both    *)
(* carry the session's present generation.                                 *)
THEOREM LiveIsNewest == Spec => LiveNeverGoesBack
<1> DEFINE A == repo' # repo /\ repo' # NoRepo => repo' > repo /\ repo' > disposedAt
<1>1. ASSUME IInv, [Next]_vars PROVE A
  <2>1. ASSUME NEW r \in Request, CommitOpen(r), repo' # repo PROVE A
    BY <1>1, <2>1, RepoSessionAssumption
    DEF IInv, TypeOK, NoRepo, GenerationsOrdered, ProtocolFollowed, CommitOpen
  <2>2. ASSUME NEW g \in plainOpening, PlainOpenResolves(g), repo' # repo PROVE A
    BY <1>1, <2>2
    DEF IInv, TypeOK, NoRepo, GenerationsOrdered, PlainOpenResolves, Stale
  <2>3. CASE Dispose \/ RendererGone
    BY <2>3 DEF Dispose, RendererGone, DisposeFields
  <2>4. CASE repo' = repo
    BY <2>4
  <2>5. QED
    BY <1>1, <2>1, <2>2, <2>3, <2>4
    DEF Next, AttemptStep, ReaderStep, FetchStep, vars, fields, Open,
        OpenResolves, OpenRejects, CreateLogReader, AuxReadFails,
        EndOpenAttempt, CancelOpen, CreatePlainReader, CreateReader,
        CreateReaderRejects, RegisterFetch, ClearFetch, CancelFetch,
        PlainOpenRejects, CloseReader, PlainOpen, Abandon,
        RefreshWorktreeIgnoreList
<1>2. IInv /\ [Next]_vars => [A]_vars
  BY <1>1
<1>3. QED
  BY <1>2, InductiveInvariant, PTL DEF Spec, LiveNeverGoesBack

(* endOpenAttempt closes readers of its own, uncommitted attempt only.     *)
THEOREM EndIsHarmless == Spec => EndKeepsLiveReaders
<1> DEFINE A == \A r \in Request : EndOpenAttempt(r) =>
       \A id \in DOMAIN readers :
         readers[id].req = NoRequest \/ readers[id].repo = repo
           => id \in DOMAIN readers'
<1>1. IInv => A
  <2> SUFFICES ASSUME IInv, NEW r \in Request, EndOpenAttempt(r),
                      NEW id \in DOMAIN readers,
                      readers[id].req = NoRequest \/ readers[id].repo = repo
               PROVE  id \in DOMAIN readers'
    OBVIOUS
  <2>1. id \notin pendingReaderIds[r]
    <3> SUFFICES ASSUME id \in pendingReaderIds[r] PROVE FALSE
      OBVIOUS
    <3>1. readers[id].req = r
      BY DEF IInv, ProtocolFollowed
    <3>2. readers[id].repo = openGen[r] /\ openGen[r] > 0
      BY <3>1, RepoSessionAssumption
      DEF IInv, ReadersHaveOwner, GenerationsOrdered, ProtocolFollowed
    <3>3. QED
      BY <3>1, <3>2, RepoSessionAssumption
      DEF IInv, TypeOK, ProtocolFollowed, NoRepo
  <2>2. QED
    BY <2>1 DEF EndOpenAttempt, KeepReaders
<1>2. IInv /\ [Next]_vars => [A]_vars
  BY <1>1
<1>3. QED
  BY <1>2, InductiveInvariant, PTL DEF Spec, EndKeepsLiveReaders
=============================================================================
