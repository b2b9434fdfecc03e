---------------------------- MODULE RecoveryDrafts ----------------------------
(***************************************************************************)
(* The store of unsaved edits in the main process (RecoveryDraftStore,     *)
(* packages/desktop/electron/recoveryDrafts.ts): one queue per file, atomic*)
(* writes, expiry, the purge, and eviction off an in-memory index that is  *)
(* rebuilt lazily while writes go on.                                      *)
(*                                                                         *)
(* One repository directory: several differ only in the outer loop.  The   *)
(* content of a draft is the number of the call that wrote it.  A record's *)
(* savedAt and its mtime are one stamp, and a size and the 50 MB cap are   *)
(* left to the count cap, which the code ors with it.  The shape checks of *)
(* paths and fields, and symbolic links, are left out.                     *)
(***************************************************************************)
EXTENDS Integers, Sequences, FiniteSets, SequencesExt

CONSTANTS
  File,     \* the files of one repository that may have a draft
  Cap,      \* MAX_DRAFT_COUNT
  Budgets   \* bounds on the steps of the environment, one of which holds

Step == {"write", "delete", "read", "list", "other", "remove", "age", "failure", "crash"}

ASSUME RecoveryDraftsAssumption ==
  /\ IsFiniteSet(File) /\ File # {}
  /\ Cap \in Nat \ {0}
  /\ Budgets \subseteq [Step -> Nat]

VARIABLES
  (* the directory *)
  dir, disk, litter, now, horizon,
  (* per file: the queue and the task at its head *)
  key, tmp,
  (* the index *)
  index, cold, scan,
  (* purge, list and eviction, one at a time each *)
  purge, list, evictTail, evict,
  (* what was asked and answered; what the environment has done *)
  asked, floor, behind, excess, spent

store  == <<dir, disk, litter, now, horizon>>
keys   == <<key, tmp>>
lookup == <<index, cold, scan>>
ghost  == <<asked, floor, behind, excess>>
vars   == <<store, keys, lookup, purge, list, evictTail, evict, ghost, spent>>

(* A record is of this store's call number no, or another instance's (0).  *)
Record == [no : Nat, born : Nat, bad : BOOLEAN]
None   == [no |-> 0, born |-> 0, bad |-> FALSE]
Age    == {"none", "young", "old"}
Task   == [kind : {"write", "delete", "read", "load", "purge", "evict"}, no : Nat, version : Nat]
Idle   == [queue |-> <<>>, version |-> 0, at |-> "start", attempt |-> 0, born |-> 0, judged |-> None]
NoScan == [on |-> FALSE, todo |-> {}, found |-> [f \in File |-> 0], log |-> [f \in File |-> "none"], dirty |-> FALSE]
NoEvict == [at |-> "idle", pass |-> 0, file |-> CHOOSE f \in File : TRUE, todo |-> {}, entry |-> [f \in File |-> 0],
            same |-> {}, stale |-> FALSE]

Live        == {f \in File : disk[f] # None}
Expired(r)  == r.born <= horizon
Condemned(r) == r.bad \/ Expired(r)
Spend(k)    == /\ spent[k] > 0
               /\ spent' = [spent EXCEPT ![k] = @ - 1]

-----------------------------------------------------------------------------
(* The queue of a file: run, and the drop of a key's state when it drains. *)

Unnumbered(kind)  == [kind |-> kind, no |-> 0, version |-> 0]
Queued(k, t) == [k EXCEPT !.queue = Append(@, t)]
Run(f, t)    == key' = [key EXCEPT ![f] = Queued(@, t)]
Running(f, kind, at) ==
  /\ key[f].queue # <<>>
  /\ Head(key[f].queue).kind = kind
  /\ key[f].at \in at
DropsEarly(k) == [Idle EXCEPT !.queue = Tail(k.queue), !.version = k.version - 1]   \* a mutant
Drained(k) == IF Len(k.queue) = 1 THEN Idle
               ELSE [Idle EXCEPT !.queue = Tail(k.queue), !.version = k.version]
Done(f) == key' = [key EXCEPT ![f] = Drained(@)]
At(f, at) == key' = [key EXCEPT ![f].at = at]

(* indexSet: while a scan runs, also in its log; the entry an eviction     *)
(* picked is another object from now on.  An entry is its file's stamp.    *)
IndexSet(f, entry) ==
  /\ index' = [index EXCEPT ![f] = entry]
  /\ scan' = IF scan.on THEN [scan EXCEPT !.log[f] = IF entry = 0 THEN "gone" ELSE "set"] ELSE scan
  /\ behind' = behind \ {f}

Unpicked(e, f) == [e EXCEPT !.same = @ \ {f}]
MarkCold == /\ cold' = TRUE
            /\ scan' = [scan EXCEPT !.dirty = scan.on]

(* A write or a delete is numbered by the order of the calls.              *)
Asks(f) == asked' = [asked EXCEPT ![f] = @ + 1]

Write(f) ==
  /\ Spend("write")
  /\ Asks(f)
  /\ LET v == key[f].version + 1
     IN key' = [key EXCEPT ![f] = Queued([@ EXCEPT !.version = v],
                                         [kind |-> "write", no |-> asked[f] + 1, version |-> v])]
  /\ UNCHANGED <<store, tmp, lookup, purge, list, evictTail, evict, floor, behind, excess>>

(* A mutant: the delete goes next and leaves the version alone.            *)
DeleteFirst(f) ==
  /\ Spend("delete")
  /\ Asks(f)
  /\ key' = [key EXCEPT ![f].queue =
               LET d == [Unnumbered("delete") EXCEPT !.no = asked[f] + 1]
               IN IF @ = <<>> THEN <<d>> ELSE <<Head(@), d>> \o Tail(@)]
  /\ UNCHANGED <<store, tmp, lookup, purge, list, evictTail, evict, floor, behind, excess>>

Delete(f) ==
  /\ Spend("delete")
  /\ Asks(f)
  /\ key' = [key EXCEPT ![f] = Queued([@ EXCEPT !.version = key[f].version + 1],
                                      [Unnumbered("delete") EXCEPT !.no = asked[f] + 1])]
  /\ UNCHANGED <<store, tmp, lookup, purge, list, evictTail, evict, floor, behind, excess>>

Read(f) ==
  /\ Spend("read")
  /\ Run(f, Unnumbered("read"))
  /\ UNCHANGED <<store, tmp, lookup, purge, list, evictTail, evict, ghost>>

-----------------------------------------------------------------------------
(* The write's task: superseded, or mkdir, a temporary file, a rename, the *)
(* index; afterwards, outside the queue, enforceCaps.                      *)

Superseded(f) == Head(key[f].queue).version # key[f].version

WriteIsSuperseded(f) ==
  /\ Running(f, "write", {"start"})
  /\ Superseded(f)
  /\ Done(f)
  /\ UNCHANGED <<store, tmp, lookup, purge, list, evictTail, evict, ghost, spent>>

WriteStarts(f) ==
  /\ Running(f, "write", {"start"})
  /\ ~Superseded(f)
  /\ dir' = TRUE
  /\ now' = now + 1
  /\ key' = [key EXCEPT ![f].at = "made", ![f].born = now + 1]
  /\ UNCHANGED <<disk, litter, horizon, tmp, lookup, purge, list, evictTail, evict, ghost, spent>>

WriteOpensTemp(f) ==
  /\ Running(f, "write", {"made"})
  /\ dir
  /\ tmp' = [tmp EXCEPT ![f] = "young"]
  /\ At(f, "temp")
  /\ UNCHANGED <<store, lookup, purge, list, evictTail, evict, ghost, spent>>

WriteRenames(f) ==
  /\ Running(f, "write", {"temp"})
  /\ tmp[f] # "none"
  /\ tmp' = [tmp EXCEPT ![f] = "none"]
  /\ disk' = [disk EXCEPT ![f] = [no |-> Head(key[f].queue).no, born |-> key[f].born, bad |-> FALSE]]
  /\ At(f, "renamed")
  /\ UNCHANGED <<dir, litter, now, horizon, lookup, purge, list, evictTail, evict, ghost, spent>>

(* ENOENT: a purge removed the directory, or a temporary file gone old.    *)
Missing(f) == \/ Running(f, "write", {"made"}) /\ ~dir
              \/ Running(f, "write", {"temp"}) /\ tmp[f] = "none"

WriteRetries(f) ==
  /\ Missing(f)
  /\ key[f].attempt = 0
  /\ dir' = TRUE
  /\ key' = [key EXCEPT ![f].at = "made", ![f].attempt = 1]
  /\ UNCHANGED <<disk, litter, now, horizon, tmp, lookup, purge, list, evictTail, evict, ghost, spent>>

WriteGivesUp(f) ==
  /\ Missing(f)
  /\ key[f].attempt = 1
  /\ Done(f)
  /\ UNCHANGED <<store, tmp, lookup, purge, list, evictTail, evict, ghost, spent>>

(* The disk is full, the rename is refused: the old draft stays.           *)
WriteFails(f) ==
  /\ Running(f, "write", {"made", "temp"})
  /\ Spend("failure")
  /\ tmp' = [tmp EXCEPT ![f] = "none"]
  /\ Done(f)
  /\ UNCHANGED <<store, lookup, purge, list, evictTail, evict, ghost>>

WriteIsSaved(f) ==
  /\ Running(f, "write", {"renamed"})
  /\ floor' = [floor EXCEPT ![f] = Head(key[f].queue).no]
  /\ Done(f)
  /\ evictTail' = Append(evictTail, f)
  /\ evict' = IF disk[f] # None THEN Unpicked(evict, f) ELSE evict
  /\ \/ disk[f] # None /\ IndexSet(f, disk[f].born) /\ UNCHANGED cold
     \/ disk[f] = None /\ MarkCold /\ UNCHANGED <<index, behind>>
  /\ UNCHANGED <<store, tmp, purge, list, asked, excess, spent>>

-----------------------------------------------------------------------------
(* The tasks that remove a draft: delete, read and the purge of an expired *)
(* or corrupt one, eviction.  Each looks, then unlinks, then (but for the  *)
(* purge) tells the index.                                                 *)

Unchecked(f) == IF disk[f] = None THEN "gone" ELSE "evict"   \* a mutant

(* What the eviction's task finds of the entry it was given.               *)
Outcome(f) == IF f \notin evict.same THEN "skip"
              ELSE IF disk[f] = None THEN "gone"
              ELSE IF disk[f].born # evict.entry[f] THEN "stale"
              ELSE "evict"

Removes(f) == CASE Running(f, "delete", {"start"})          -> disk[f] # None
                [] Running(f, "read", {"start"})            -> disk[f] # None /\ Condemned(disk[f])
                [] Running(f, "purge", {"start"})           -> disk[f] # None /\ Condemned(disk[f])
                [] Running(f, "evict", {"start"})           -> Outcome(f) = "evict"
                [] OTHER                                    -> FALSE

Looks(f) ==
  /\ Removes(f)
  /\ key' = [key EXCEPT ![f].at = "condemned", ![f].judged = disk[f]]
  /\ UNCHANGED <<store, tmp, lookup, purge, list, evictTail, evict, ghost, spent>>

(* The caller goes on when its task is done.                               *)
Onward(p) == [p EXCEPT !.at = "files"]
Evicted(outcome) == [evict EXCEPT !.at = "pick", !.stale = @ \/ outcome = "stale"]
Resumes(kind) ==
  /\ purge' = IF kind = "purge" THEN Onward(purge) ELSE purge
  /\ list'  = IF kind = "load" THEN Onward(list) ELSE list

Answered(f) ==
  floor' = [floor EXCEPT ![f] = IF Head(key[f].queue).kind = "delete" THEN Head(key[f].queue).no ELSE @]

Keeps(f) ==
  /\ \E kind \in {"delete", "read", "load", "purge"} :
       /\ Running(f, kind, {"start"})
       /\ ~Removes(f)
       /\ Resumes(kind)
  /\ Answered(f)
  /\ Done(f)
  /\ UNCHANGED <<store, tmp, lookup, evictTail, evict, asked, behind, excess, spent>>

EvictKeeps(f) ==
  /\ Running(f, "evict", {"start"})
  /\ ~Removes(f)
  /\ Done(f)
  /\ \/ /\ Outcome(f) = "gone"
        /\ IndexSet(f, 0)
        /\ evict' = Unpicked(Evicted("gone"), f)
     \/ /\ Outcome(f) \in {"skip", "stale"}
        /\ evict' = Evicted(Outcome(f))
        /\ UNCHANGED <<index, scan, behind>>
  /\ UNCHANGED <<store, tmp, cold, purge, list, evictTail, asked, floor, excess, spent>>

Unlinks(f) ==
  /\ key[f].at = "condemned"
  /\ disk[f] # None
  /\ disk' = [disk EXCEPT ![f] = None]
  /\ IF Running(f, "purge", {"condemned"})
     THEN Done(f) /\ Resumes("purge") /\ behind' = behind \cup {f}
     ELSE At(f, "unlinked") /\ UNCHANGED <<purge, list, behind>>
  /\ UNCHANGED <<dir, litter, now, horizon, tmp, lookup, evictTail, evict, asked, floor, excess, spent>>

(* Another process was faster: an idempotent delete, no word to the index. *)
FindsNothing(f) ==
  /\ key[f].at = "condemned"
  /\ disk[f] = None
  /\ Answered(f)
  /\ Done(f)
  /\ Resumes(Head(key[f].queue).kind)
  /\ evict' = IF Running(f, "evict", {"condemned"}) THEN Evicted("stale") ELSE evict
  /\ UNCHANGED <<store, tmp, lookup, evictTail, asked, behind, excess, spent>>

Forgets(f) ==
  /\ key[f].at = "unlinked"
  /\ IndexSet(f, 0)
  /\ Answered(f)
  /\ Done(f)
  /\ evict' = Unpicked(IF Running(f, "evict", {"unlinked"}) THEN Evicted("removed") ELSE evict, f)
  /\ excess' = (excess \/ disk[f] # None)
  /\ UNCHANGED <<store, tmp, cold, purge, list, evictTail, asked, spent>>

-----------------------------------------------------------------------------
(* enforceCaps: evictions one after the other, each up to two passes.      *)

Over == Cardinality({f \in File : index[f] # 0}) > Cap

EvictBegins ==
  /\ evict.at = "idle"
  /\ evictTail # <<>>
  /\ evictTail' = Tail(evictTail)
  /\ evict' = [NoEvict EXCEPT !.at = "pass", !.file = Head(evictTail)]
  /\ UNCHANGED <<store, keys, lookup, purge, list, ghost, spent>>

(* buildIndex: the names first, an lstat of each, then what was logged.    *)
ScanBegins ==
  /\ evict.at = "pass"
  /\ cold
  /\ ~scan.on
  /\ scan' = [NoScan EXCEPT !.on = TRUE, !.todo = Live]
  /\ excess' = FALSE
  /\ UNCHANGED <<store, keys, index, cold, purge, list, evictTail, evict, asked, floor, behind, spent>>

ScanStats(f) ==
  /\ scan.on
  /\ f \in scan.todo
  /\ scan' = [scan EXCEPT !.todo = @ \ {f}, !.found[f] = disk[f].born]
  /\ UNCHANGED <<store, keys, index, cold, purge, list, evictTail, evict, ghost, spent>>

LosesLog(f) == scan.found[f]   \* a mutant
Logged(f) == CASE scan.log[f] = "none" -> scan.found[f]
               [] scan.log[f] = "set"  -> index[f]
               [] scan.log[f] = "gone" -> 0

ScanEnds ==
  /\ scan.on
  /\ scan.todo = {}
  /\ index' = [f \in File |-> Logged(f)]
  /\ cold' = scan.dirty
  /\ scan' = NoScan
  /\ behind' = {f \in behind : disk[f] = None /\ Logged(f) # 0}
  /\ evict' = [evict EXCEPT !.at = "over"]
  /\ UNCHANGED <<store, keys, purge, list, evictTail, asked, floor, excess, spent>>

Warm ==
  /\ evict.at = "pass"
  /\ ~cold
  /\ evict' = [evict EXCEPT !.at = "over"]
  /\ UNCHANGED <<store, keys, lookup, purge, list, evictTail, ghost, spent>>

Sorts ==
  /\ evict.at = "over"
  /\ LET entries == {f \in File : index[f] # 0}
     IN evict' = IF Over THEN [evict EXCEPT !.at = "pick", !.todo = entries, !.same = entries, !.entry = index]
                 ELSE NoEvict
  /\ UNCHANGED <<store, keys, lookup, purge, list, evictTail, ghost, spent>>

Oldest(f) == \A g \in evict.todo : evict.entry[f] <= evict.entry[g]

PicksVictim(f) ==
  /\ evict.at = "pick"
  /\ Over
  /\ f \in evict.todo
  /\ Oldest(f)
  /\ IF f = evict.file
     THEN /\ evict' = [evict EXCEPT !.todo = @ \ {f}]
          /\ UNCHANGED key
     ELSE /\ evict' = [evict EXCEPT !.todo = @ \ {f}, !.at = "wait"]
          /\ Run(f, Unnumbered("evict"))
  /\ UNCHANGED <<store, tmp, lookup, purge, list, evictTail, ghost, spent>>

PassEnds ==
  /\ evict.at = "pick"
  /\ ~Over \/ evict.todo = {}
  /\ IF evict.stale THEN MarkCold ELSE UNCHANGED <<cold, scan>>
  /\ evict' = IF evict.stale /\ evict.pass = 0
              THEN [NoEvict EXCEPT !.at = "pass", !.pass = 1, !.file = evict.file]
              ELSE NoEvict
  /\ UNCHANGED <<store, keys, index, purge, list, evictTail, ghost, spent>>

-----------------------------------------------------------------------------
(* The purge, at the start of the application and of every list; the index *)
(* is not told of what it removes, so it goes cold before and after.       *)

Purging == [purge EXCEPT !.at = IF @ = "idle" THEN "listing" ELSE @]

PurgeLists ==
  /\ purge.at = "listing"
  /\ purge' = IF dir THEN [at |-> "files", todo |-> Live] ELSE [at |-> "end", todo |-> {}]
  /\ UNCHANGED <<store, keys, lookup, list, evictTail, evict, ghost, spent>>

PurgeAsks(f) ==
  /\ purge.at = "files"
  /\ f \in purge.todo
  /\ purge' = [at |-> "wait", todo |-> purge.todo \ {f}]
  /\ Run(f, Unnumbered("purge"))
  /\ UNCHANGED <<store, tmp, lookup, list, evictTail, evict, ghost, spent>>

Aged(a)  == IF a = "old" THEN "none" ELSE a
IsEmpty  == Live = {} /\ litter = "none" /\ \A f \in File : tmp[f] = "none"

PurgeTemps ==
  /\ purge.at = "files"
  /\ purge.todo = {}
  /\ tmp' = [f \in File |-> Aged(tmp[f])]
  /\ litter' = Aged(litter)
  /\ purge' = [purge EXCEPT !.at = "temps"]
  /\ UNCHANGED <<dir, disk, now, horizon, key, lookup, list, evictTail, evict, ghost, spent>>

PurgeChecksEmpty ==
  /\ purge.at = "temps"
  /\ purge' = [purge EXCEPT !.at = IF IsEmpty THEN "rmdir" ELSE "end"]
  /\ UNCHANGED <<store, keys, lookup, list, evictTail, evict, ghost, spent>>

PurgeRmdir ==
  /\ purge.at = "rmdir"
  /\ dir' = ~IsEmpty
  /\ purge' = [purge EXCEPT !.at = "end"]
  /\ UNCHANGED <<disk, litter, now, horizon, keys, lookup, list, evictTail, evict, ghost, spent>>

PurgeEnds ==
  /\ purge.at = "end"
  /\ MarkCold
  /\ purge' = [at |-> "idle", todo |-> {}]
  /\ list' = IF list.at = "purging" THEN [at |-> "listing", todo |-> {}] ELSE list
  /\ UNCHANGED <<store, keys, index, evictTail, evict, ghost, spent>>

(* list: a purge, its own or the one that runs, then every file in turn.   *)
List ==
  /\ list.at = "idle"
  /\ Spend("list")
  /\ list' = [at |-> "purging", todo |-> {}]
  /\ purge' = Purging
  /\ IF purge.at = "idle" THEN MarkCold ELSE UNCHANGED <<cold, scan>>
  /\ UNCHANGED <<store, keys, index, evictTail, evict, ghost>>

ListNames ==
  /\ list.at = "listing"
  /\ list' = IF dir THEN [at |-> "files", todo |-> Live] ELSE [at |-> "idle", todo |-> {}]
  /\ UNCHANGED <<store, keys, lookup, purge, evictTail, evict, ghost, spent>>

ListLoads(f) ==
  /\ list.at = "files"
  /\ f \in list.todo
  /\ list' = [at |-> "wait", todo |-> list.todo \ {f}]
  /\ Run(f, Unnumbered("load"))
  /\ UNCHANGED <<store, tmp, lookup, purge, evictTail, evict, ghost, spent>>

ListEnds ==
  /\ list.at = "files"
  /\ list.todo = {}
  /\ list' = [at |-> "idle", todo |-> {}]
  /\ UNCHANGED <<store, keys, lookup, purge, evictTail, evict, ghost, spent>>

-----------------------------------------------------------------------------
(* The environment: a second instance on the same directory (FR-553), a    *)
(* user who deletes files, time, and a crash of the main process, after    *)
(* which the application starts with a purge.                              *)

OtherWrites(f, bad) ==
  /\ Spend("other")
  /\ dir' = TRUE
  /\ now' = now + 1
  /\ disk' = [disk EXCEPT ![f] = [no |-> 0, born |-> now + 1, bad |-> bad]]
  /\ excess' = TRUE
  /\ UNCHANGED <<litter, horizon, keys, lookup, purge, list, evictTail, evict, asked, floor, behind>>

OtherRemoves(f) ==
  /\ disk[f] # None
  /\ Spend("remove")
  /\ disk' = [disk EXCEPT ![f] = None]
  /\ behind' = behind \cup {f}
  /\ UNCHANGED <<dir, litter, now, horizon, keys, lookup, purge, list, evictTail, evict, asked, floor, excess>>

TimePasses ==
  /\ horizon < now
  /\ Spend("age")
  /\ horizon' \in (horizon + 1)..now
  /\ litter' = IF litter = "young" THEN "old" ELSE litter
  /\ tmp' = [f \in File |-> IF tmp[f] = "young" THEN "old" ELSE tmp[f]]
  /\ UNCHANGED <<dir, disk, now, key, lookup, purge, list, evictTail, evict, ghost>>

Crash ==
  /\ Spend("crash")
  /\ litter' = IF \E f \in File : tmp[f] # "none" THEN "young" ELSE litter
  /\ tmp' = [f \in File |-> "none"]
  /\ key' = [f \in File |-> Idle]
  /\ index' = [f \in File |-> 0]
  /\ cold' = TRUE
  /\ scan' = NoScan
  /\ purge' = [at |-> "listing", todo |-> {}]
  /\ list' = [at |-> "idle", todo |-> {}]
  /\ evictTail' = <<>>
  /\ evict' = NoEvict
  /\ behind' = {}
  /\ excess' = TRUE
  /\ UNCHANGED <<dir, disk, now, horizon, asked, floor>>

-----------------------------------------------------------------------------
(* The start of the application over what the last run left: at most Cap   *)
(* drafts, the first call each.                                            *)
Init ==
  /\ \E kept \in {k \in SUBSET File : Cardinality(k) <= Cap} :
       /\ dir = (kept # {})
       /\ disk = [f \in File |-> IF f \in kept THEN [no |-> 1, born |-> 1, bad |-> FALSE] ELSE None]
       /\ asked = [f \in File |-> IF f \in kept THEN 1 ELSE 0]
       /\ floor = asked
  /\ litter = "none"
  /\ now = 1
  /\ horizon = 0
  /\ key = [f \in File |-> Idle]
  /\ tmp = [f \in File |-> "none"]
  /\ index = [f \in File |-> 0]
  /\ cold = TRUE
  /\ scan = NoScan
  /\ purge = [at |-> "listing", todo |-> {}]
  /\ list = [at |-> "idle", todo |-> {}]
  /\ evictTail = <<>>
  /\ evict = NoEvict
  /\ behind = {}
  /\ excess = FALSE
  /\ spent \in Budgets

Calls(f) == Write(f) \/ Delete(f) \/ Read(f)
Writes(f) ==
  \/ WriteIsSuperseded(f) \/ WriteStarts(f) \/ WriteOpensTemp(f) \/ WriteRenames(f)
  \/ WriteRetries(f) \/ WriteGivesUp(f) \/ WriteFails(f) \/ WriteIsSaved(f)
Removals(f) == Looks(f) \/ Keeps(f) \/ EvictKeeps(f) \/ Unlinks(f) \/ FindsNothing(f) \/ Forgets(f)
Evicts == EvictBegins \/ ScanBegins \/ ScanEnds \/ Warm \/ Sorts \/ PassEnds
Purges == PurgeLists \/ PurgeTemps \/ PurgeChecksEmpty \/ PurgeRmdir \/ PurgeEnds
Lists  == List \/ ListNames \/ ListEnds

Next ==
  \/ \E f \in File : Calls(f) \/ Writes(f) \/ Removals(f) \/ ScanStats(f) \/ PicksVictim(f)
                       \/ PurgeAsks(f) \/ ListLoads(f) \/ OtherRemoves(f)
  \/ \E f \in File, bad \in BOOLEAN : OtherWrites(f, bad)
  \/ Evicts \/ Purges \/ Lists \/ TimePasses \/ Crash

Spec == Init /\ [][Next]_vars

-----------------------------------------------------------------------------
TypeOK ==
  /\ dir \in BOOLEAN
  /\ disk \in [File -> Record]
  /\ litter \in Age
  /\ now \in Nat /\ horizon \in Nat
  /\ key \in [File -> [queue : Seq(Task), version : Nat,
                       at : {"start", "made", "temp", "renamed", "condemned", "unlinked"},
                       attempt : {0, 1}, born : Nat, judged : Record]]
  /\ tmp \in [File -> Age]
  /\ index \in [File -> Nat]
  /\ cold \in BOOLEAN
  /\ scan \in [on : BOOLEAN, todo : SUBSET File, found : [File -> Nat],
               log : [File -> {"none", "set", "gone"}], dirty : BOOLEAN]
  /\ purge \in [at : {"idle", "listing", "files", "wait", "temps", "rmdir", "end"}, todo : SUBSET File]
  /\ list \in [at : {"idle", "purging", "listing", "files", "wait"}, todo : SUBSET File]
  /\ evictTail \in Seq(File)
  /\ evict \in [at : {"idle", "pass", "over", "pick", "wait"}, pass : {0, 1}, file : File,
                todo : SUBSET File, entry : [File -> Nat], same : SUBSET File, stale : BOOLEAN]
  /\ asked \in [File -> Nat] /\ floor \in [File -> Nat]
  /\ behind \subseteq File
  /\ excess \in BOOLEAN
  /\ spent \in [Step -> Nat]

(* FR-545: once a write or a delete has been answered, no draft asked for  *)
(* before it is on the disk any more: the newest wins, and a late write    *)
(* never brings a deleted draft back, across crashes as well.              *)
KeptInOrder ==
  \A f \in File : disk[f].no # 0 => disk[f].no >= floor[f]

(* Whatever the store unlinks, it unlinks the very record it judged, and   *)
(* an eviction the record it sorted: never a draft saved since.  A victim  *)
(* is picked only over the cap, oldest first, and is not the draft just    *)
(* written.  The index may still count what a purge or another process     *)
(* removed behind its back, or what was unlinked a moment ago, and does    *)
(* not know the age of a draft renamed into place a moment ago.            *)
Counted == Live \cup behind \cup {f \in File : key[f].at = "unlinked"}
Older(f) == {g \in (Live \cap evict.same) \ {f, evict.file} :
               disk[g].no # 0 /\ key[g].at # "renamed" /\ disk[g].born < evict.entry[f]}
RemovalsAreJust ==
  [][\A f \in File : disk[f].no # 0 =>
       /\ Unlinks(f) => /\ disk[f] = key[f].judged
                        /\ Running(f, "evict", {"condemned"}) => disk[f].born = evict.entry[f]
       /\ PicksVictim(f) /\ f # evict.file =>
            /\ Cardinality(Counted) > Cap
            /\ Older(f) = {}]_vars

(* FR-547: when nothing runs any more the cap holds again, unless a crash  *)
(* or another instance has left more than the index has seen since, or the *)
(* index was told to forget a draft another instance had just put back.    *)
CapsHold ==
  (\A f \in File : key[f].queue = <<>>) /\ evict.at = "idle" /\ evictTail = <<>> /\ ~excess
    => Cardinality(Live) <= Cap
===============================================================================
