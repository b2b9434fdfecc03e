------------------------------ MODULE ChangesPanel ------------------------------
(***************************************************************************)
(* The Changes panel over a working tree that others write too             *)
(* (packages/desktop/src/hooks/useChangesPanel.ts with useFileDiff.ts): the *)
(* list with its optimistic stage and unstage, the selected file and its   *)
(* combined diff, the queue of ticked lines and its one worker, the discard*)
(* of lines, and the live reads that follow every change.                  *)
(*                                                                         *)
(* The diff of a tracked file is the layout of its rows, a member of Text  *)
(* or Clean, and the lines of it that are staged; the two are what the     *)
(* fingerprint covers.  A layout stands for the rows a line number names:  *)
(* staging leaves it alone, an edit of the file changes it.                *)
(*                                                                         *)
(* Two files are never alike throughout, so the path in a fingerprint      *)
(* stands for contents (the code's covers only these).                     *)
(*                                                                         *)
(* Left out: images and files whose diff is not a combined one, "all" and  *)
(* "bulk" staging, the discard of a whole file, and the commit composer.   *)
(* One status read is in flight at a time: the coalesced live reads and the*)
(* panel's own follow-up reads are not told apart.  A watcher reports every*)
(* change of the disk.                                                     *)
(***************************************************************************)
EXTENDS Integers, Sequences, FiniteSets, FiniteSetsExt

CONSTANTS
  Tracked, Untracked,   \* the files
  Text, Line,           \* layouts of a diff, and the changed lines of each
  Budgets               \* bounds on the steps of the user and the system, one of which holds

Step  == {"tick", "discard", "select", "list", "edit", "index", "failure"}
Clean == "clean"

ASSUME ChangesPanelAssumption ==
  /\ Tracked \cap Untracked = {}
  /\ Clean \notin Text
  /\ IsFiniteSet(Line) /\ Line # {}
  /\ Budgets \subseteq [Step -> Nat]

None  == [path |-> "none"]
File  == Tracked \cup Untracked
Category == {"staged", "unstaged", "untracked"}

VARIABLES
  (* the working tree and the index *)
  disk,
  (* useRepositoryGraph: the last list read, a read due, the read in flight *)
  shared, due, status,
  (* the overlay of the list, and the stage and unstage calls in flight *)
  changes, ops,
  (* selection, diff, queue, worker, dialog *)
  panel,
  (* what the environment has spent; what the code is known to miss *)
  spent, gap

lists == <<shared, due, status>>
vars  == <<disk, lists, changes, ops, panel, spent, gap>>

Spend(k) == /\ spent[k] > 0
            /\ spent' = [spent EXCEPT ![k] = @ - 1]

(* The sections a file is listed in.                                       *)
Sections(f, d) ==
  IF f \in Untracked THEN {"untracked"}
  ELSE IF d[f].text = Clean THEN {}
  ELSE (IF d[f].staged # {} THEN {"staged"} ELSE {}) \cup
       (IF d[f].staged # Line THEN {"unstaged"} ELSE {})
Lists(d) == [f \in File |-> Sections(f, d)]

Fingerprint(f, d) == [path |-> f, text |-> d[f].text, staged |-> d[f].staged]

NoDiff  == [at |-> "idle"]
NoFetch == [at |-> "idle", kind |-> "none"]
Off     == [at |-> "off"]

-----------------------------------------------------------------------------
(* useFileDiff, on a panel p: a load shows that it loads, a reload keeps   *)
(* what is shown; each supersedes the fetch before it.                     *)

Load(p, sel) ==
  [p EXCEPT !.diff = [at |-> "loading", path |-> sel.path],
            !.fetch = [at |-> "asked", kind |-> "load", sel |-> sel]]
Reload(p, sel, kind) == [p EXCEPT !.fetch = [at |-> "asked", kind |-> kind, sel |-> sel]]
Clear(p) == [p EXCEPT !.diff = NoDiff, !.fetch = NoFetch]

Ready(print, ticks) == [at |-> "ready", path |-> print.path, print |-> print, ticks |-> ticks]

(* currentCombined: the diff on screen, under the name of the selected     *)
(* file.  A file with no changes has no combined diff.                     *)
Combined(p) == p.diff.at = "ready" /\ p.diff.print.text # Clean
OnScreen(p) == p.selected # None /\ p.selected.cat # "untracked" /\ Combined(p)

-----------------------------------------------------------------------------
(* selectFile                                                              *)

(* The other row of the same file shares its diff.                         *)
Sibling(p, sel) ==
  /\ p.selected # None /\ p.selected.path = sel.path
  /\ p.selected.cat # sel.cat /\ "untracked" \notin {p.selected.cat, sel.cat}
  /\ Combined(p)

Leave(p, sel) == [p EXCEPT !.selected = sel, !.gone = FALSE, !.deferred = {}, !.queue = <<>>]

SelectFile(p, sel) ==
  IF Sibling(p, sel) THEN [p EXCEPT !.selected = sel, !.gone = FALSE]
  ELSE IF sel.cat = "untracked" THEN Clear(Leave(p, sel))
  ELSE Load(Leave(p, sel), sel)

-----------------------------------------------------------------------------
(* syncOpenFile: after every read of the list.                             *)

Sync(p, sh) ==
  LET sel  == p.selected
      rows == sh[sel.path]
      Row(cat) == [cat |-> cat, path |-> sel.path]
  IN IF sel = None THEN p
     ELSE IF p.drain.at # "off" THEN [p EXCEPT !.syncDue = TRUE]
     ELSE IF p.gone THEN
       IF rows = {} THEN p
       ELSE SelectFile(p, Row(IF "unstaged" \in rows THEN "unstaged" ELSE CHOOSE c \in rows : TRUE))
     ELSE IF rows = {} THEN
       Clear([p EXCEPT !.gone = TRUE, !.queue = <<>>, !.deferred = {}, !.dialog = None])
     ELSE IF sel.cat \notin rows THEN
       LET row == Row(CHOOSE c \in rows : TRUE) IN Reload([p EXCEPT !.selected = row], row, "live")
     ELSE IF sel.cat # "untracked" /\ p.diff.at = "ready" THEN Reload(p, sel, "live")
     ELSE p

(* A read finds no diff on screen to look at again, only an answer on its  *)
(* way that is older than itself.                                          *)
Skipped(p, sh) ==
  /\ p.selected # None /\ ~p.gone /\ p.drain.at = "off"
  /\ p.selected.cat \in sh[p.selected.path] \ {"untracked"}
  /\ p.diff.at # "ready" /\ p.fetch.at = "answered"

-----------------------------------------------------------------------------
(* requestPartialDiscard: the lines that are unstaged on screen, against   *)
(* the diff they are on.                                                   *)
OpenDialog(p, lines) ==
  IF OnScreen(p) /\ lines \ p.diff.ticks # {}
  THEN [p EXCEPT !.dialog = [path |-> p.selected.path, shown |-> p.diff.path, print |-> p.diff.print,
                             lines |-> lines \ p.diff.ticks]]
  ELSE p

(* The worker ends: a discard asked for meanwhile, then a read of the list.*)
KeepsRequest(p) == [p EXCEPT !.drain = Off, !.syncDue = FALSE]     \* a mutant
Rest(p)         == [p EXCEPT !.drain = Off, !.syncDue = FALSE, !.deferred = {}]
DrainEnds(p) ==
  LET asked == IF p.deferred = {} THEN Rest(p) ELSE OpenDialog(Rest(p), p.deferred)
  IN IF p.syncDue THEN Sync(asked, shared) ELSE asked

(* The head of its loop.  A tick whose rows have moved is refused.         *)
Unmoved(p, op) == TRUE     \* a mutant
RowsUnmoved(p, op) == Combined(p) /\ p.diff.print.text = op.text

NextOp(p, print) ==
  LET op == Head(p.queue) IN
  IF p.queue = <<>> THEN DrainEnds(p)
  ELSE IF p.selected = None \/ p.selected.path # op.path \/ print = None
    THEN DrainEnds([p EXCEPT !.queue = <<>>])
  ELSE IF op.kind = "toggle" /\ ~RowsUnmoved(p, op)
    THEN Reload([p EXCEPT !.queue = <<>>, !.drain = [at |-> "refused", target |-> p.selected]], p.selected, "own")
  ELSE [p EXCEPT !.queue = Tail(@),
                 !.drain = [at |-> "calling", target |-> p.selected, op |-> op,
                            print |-> IF op.kind = "toggle" THEN print ELSE op.print]]

Drain(p) ==
  IF p.drain.at # "off" THEN p
  ELSE NextOp(p, IF Combined(p) THEN p.diff.print ELSE None)

(* The ticks still to be answered stay on top of what git says: of each    *)
(* line the last one, if their rows are still those of the diff.           *)
Tick(ticks, op) == IF op.target = "stage" THEN ticks \cup op.lines ELSE ticks \ op.lines
Pending(p) == (IF p.drain.at \in {"calling", "ok", "error"} THEN <<p.drain.op>> ELSE <<>>) \o p.queue
Overlaid(p, print) ==
  LET queue    == Pending(p)
      Kept(op) == op.kind = "toggle" /\ op.path = print.path /\ op.text = print.text
      Of(line) == {i \in DOMAIN queue : Kept(queue[i]) /\ line \in queue[i].lines}
  IN {line \in Line : IF Of(line) = {} THEN line \in print.staged
                      ELSE queue[Max(Of(line))].target = "stage"}

-----------------------------------------------------------------------------
(* The user.  The discard's dialog is modal.                               *)

ToggleLines(lines, target) ==
  /\ panel.dialog = None
  /\ OnScreen(panel)
  /\ Spend("tick")
  /\ LET op == [kind |-> "toggle", path |-> panel.selected.path, shown |-> panel.diff.path,
                text |-> panel.diff.print.text, lines |-> lines, target |-> target]
     IN panel' = Drain([panel EXCEPT !.diff.ticks = Tick(@, op), !.queue = Append(@, op)])
  /\ gap' = IF panel.drain.at \in {"refused", "again"} THEN gap \cup {"stranded"} ELSE gap
  /\ UNCHANGED <<disk, lists, changes, ops>>

RequestDiscard(lines) ==
  /\ panel.dialog = None
  /\ panel.drain.at # "off" \/ OnScreen(panel)
  /\ Spend("discard")
  /\ panel' = IF panel.drain.at # "off" THEN [panel EXCEPT !.deferred = lines] ELSE OpenDialog(panel, lines)
  /\ UNCHANGED <<disk, lists, changes, ops, gap>>

ConfirmDiscard ==
  /\ panel.dialog # None
  /\ LET op == [kind |-> "discard", path |-> panel.dialog.path, shown |-> panel.dialog.shown,
                text |-> panel.dialog.print.text, lines |-> panel.dialog.lines, print |-> panel.dialog.print]
     IN panel' = Drain([panel EXCEPT !.dialog = None, !.queue = Append(@, op)])
  /\ UNCHANGED <<disk, lists, changes, ops, spent, gap>>

CancelDiscard ==
  /\ panel.dialog # None
  /\ panel' = [panel EXCEPT !.dialog = None]
  /\ UNCHANGED <<disk, lists, changes, ops, spent, gap>>

Select(f, cat) ==
  /\ panel.dialog = None
  /\ cat \in changes[f]
  /\ Spend("select")
  /\ panel' = SelectFile(panel, [cat |-> cat, path |-> f])
  /\ UNCHANGED <<disk, lists, changes, ops, gap>>

(* The checkpoint is clicked again: select anew.                           *)
Reselect ==
  /\ panel.dialog = None /\ panel.selected # None
  /\ Spend("select")
  /\ panel' = Clear([panel EXCEPT !.selected = None])
  /\ UNCHANGED <<disk, lists, changes, ops, gap>>

(* Nothing selected: the first file of the first section that has one.     *)
AutoSelect ==
  /\ panel.selected = None
  /\ \E f \in File : \E cat \in changes[f] :
       /\ cat = "untracked" => \A g \in File : changes[g] \subseteq {"untracked"}
       /\ cat = "unstaged" => \A g \in File : "staged" \notin changes[g]
       /\ panel' = SelectFile(panel, [cat |-> cat, path |-> f])
  /\ UNCHANGED <<disk, lists, changes, ops, spent, gap>>

(* stage, unstage: the list shows it at once.                              *)
MoveFile(f, to) ==
  /\ panel.dialog = None
  /\ changes[f] \ {to, "untracked"} # {}
  /\ Spend("list")
  /\ changes' = [changes EXCEPT ![f] = {to}]
  /\ ops' = ops \cup {[path |-> f, to |-> to, snapshot |-> changes, at |-> "sent"]}
  /\ UNCHANGED <<disk, lists, panel, gap>>

-----------------------------------------------------------------------------
(* git, in the mutation queue: it refuses a diff that is not the file's.   *)

Fresh(f, print) == print = Fingerprint(f, disk)

GitToggles ==
  /\ panel.drain.at = "calling" /\ panel.drain.op.kind = "toggle"
  /\ LET op == panel.drain.op IN
     IF Fresh(op.path, panel.drain.print)
     THEN /\ disk' = [disk EXCEPT ![op.path].staged = Tick(@, op)]
          /\ due' = TRUE
          /\ panel' = [panel EXCEPT !.drain = [at |-> "ok", target |-> @.target, op |-> op]]
     ELSE /\ panel' = [panel EXCEPT !.drain = [at |-> "error", target |-> @.target, op |-> op]]
          /\ UNCHANGED <<disk, due>>
  /\ UNCHANGED <<shared, status, changes, ops, spent, gap>>

(* The lines go from the file, whose other rows move.                      *)
GitDiscards ==
  /\ panel.drain.at = "calling" /\ panel.drain.op.kind = "discard"
  /\ LET op == panel.drain.op IN
     IF Fresh(op.path, panel.drain.print) /\ op.lines \cap disk[op.path].staged = {}
     THEN /\ \E t \in IF op.lines = Line THEN {Clean} ELSE Text \ {op.text} :
               disk' = [disk EXCEPT ![op.path].text = t]
          /\ due' = TRUE
          /\ panel' = [panel EXCEPT !.drain = [at |-> "ok", target |-> @.target, op |-> op]]
     ELSE /\ panel' = [panel EXCEPT !.drain = [at |-> "error", target |-> @.target, op |-> op]]
          /\ UNCHANGED <<disk, due>>
  /\ UNCHANGED <<shared, status, changes, ops, spent, gap>>

GitFails ==
  /\ panel.drain.at = "calling"
  /\ Spend("failure")
  /\ panel' = [panel EXCEPT !.drain = [at |-> "error", target |-> @.target, op |-> @.op]]
  /\ UNCHANGED <<disk, lists, changes, ops, gap>>

GitMoves(op) ==
  /\ op.at = "sent"
  /\ \/ /\ disk' = [disk EXCEPT ![op.path].staged =
                      IF op.to = "staged" /\ disk[op.path].text # Clean THEN Line ELSE {}]
        /\ due' = TRUE
        /\ ops' = (ops \ {op}) \cup {[op EXCEPT !.at = "ok"]}
        /\ UNCHANGED spent
     \/ /\ Spend("failure")
        /\ ops' = (ops \ {op}) \cup {[op EXCEPT !.at = "error"]}
        /\ UNCHANGED <<disk, due>>
  /\ UNCHANGED <<shared, status, changes, panel, gap>>

-----------------------------------------------------------------------------
(* Answers.                                                                *)

(* The worker's call is answered: the truth is read, and after a failure   *)
(* the later ticks are dropped.                                            *)
OpAnswered ==
  /\ panel.drain.at \in {"ok", "error"}
  /\ LET drain == panel.drain
         p     == IF drain.at = "ok" THEN [panel EXCEPT !.drain = [at |-> "reloading", target |-> drain.target]]
              ELSE [panel EXCEPT !.queue = <<>>, !.drain = [at |-> "failed", target |-> drain.target]]
     IN panel' = Reload(p, drain.target, "own")
  /\ UNCHANGED <<disk, lists, changes, ops, spent, gap>>

(* The worker goes on with the diff it has read, or with none.  Ticks made *)
(* while a failure was shown are dropped, and the truth is read once more. *)
DropsUnseen(p, print) ==     \* a mutant
  CASE p.drain.at = "reloading" -> NextOp(p, print)
    [] OTHER -> DrainEnds([p EXCEPT !.queue = <<>>])
Resume(p, print) ==
  CASE p.drain.at = "reloading" -> NextOp(p, print)
    [] p.drain.at = "failed" /\ p.queue # <<>> ->
         Reload([p EXCEPT !.queue = <<>>, !.drain.at = "again"], p.drain.target, "own")
    [] OTHER -> DrainEnds(p)

Awaiting == panel.drain.at \in {"refused", "reloading", "failed", "again"}

ReadDiff ==
  /\ panel.fetch.at = "asked"
  /\ panel' = [panel EXCEPT !.fetch = [at |-> "answered", kind |-> @.kind, sel |-> @.sel,
                                       print |-> Fingerprint(@.sel.path, disk)]]
  /\ UNCHANGED <<disk, lists, changes, ops, spent, gap>>

(* A reload of the worker's lands; the file may have been left meanwhile,  *)
(* or be shown as gone, which no later read of the list goes back on.      *)
OwnReloadLands ==
  /\ Awaiting /\ panel.fetch.at = "answered" /\ panel.fetch.kind = "own"
  /\ LET print == panel.fetch.print
         shown == [panel EXCEPT !.fetch = NoFetch, !.diff = Ready(print, Overlaid(panel, print))]
         still == panel.selected = panel.drain.target
     IN /\ panel' = IF still /\ print.text = Clean
                    THEN Resume(Clear([shown EXCEPT !.selected = None]), None)
                    ELSE Resume(shown, IF print.text = Clean THEN None ELSE print)
        /\ gap' = IF panel.selected = None THEN gap
                  ELSE gap \cup (IF panel.selected.path # print.path THEN {"crossed"} ELSE {})
                           \cup (IF panel.gone /\ print.text # Clean THEN {"revived"} ELSE {})
  /\ due' = TRUE
  /\ UNCHANGED <<disk, shared, status, changes, ops, spent>>

(* Another file was selected: its ticks are dropped, and stay on screen.   *)
OwnReloadSuperseded ==
  /\ Awaiting /\ panel.fetch.kind # "own"
  /\ panel' = Resume(panel, None)
  /\ due' = TRUE
  /\ gap' = IF panel.drain.at = "reloading" /\ panel.queue # <<>> THEN gap \cup {"stranded"} ELSE gap
  /\ UNCHANGED <<disk, shared, status, changes, ops, spent>>

OwnReloadFails ==
  /\ Awaiting /\ panel.fetch.at = "asked" /\ panel.fetch.kind = "own"
  /\ Spend("failure")
  /\ panel' = Resume([panel EXCEPT !.fetch = NoFetch, !.diff = [at |-> "error", path |-> panel.fetch.sel.path]], None)
  /\ due' = TRUE
  /\ UNCHANGED <<disk, shared, status, changes, ops, gap>>

LoadLands ==
  /\ panel.fetch.at = "answered" /\ panel.fetch.kind = "load"
  /\ panel' = [panel EXCEPT !.fetch = NoFetch, !.diff = Ready(panel.fetch.print, panel.fetch.print.staged)]
  /\ UNCHANGED <<disk, lists, changes, ops, spent, gap>>

(* A live reload: the same diff leaves what is shown; none left is said.   *)
LiveReloadLands ==
  /\ panel.fetch.at = "answered" /\ panel.fetch.kind = "live"
  /\ LET print == panel.fetch.print
         same  == panel.diff.at = "ready" /\ panel.diff.print = print
         shown == IF same THEN [panel EXCEPT !.fetch = NoFetch]
                  ELSE [panel EXCEPT !.fetch = NoFetch, !.diff = Ready(print, Overlaid(panel, print))]
     IN panel' = IF panel.selected = panel.fetch.sel /\ print.text = Clean
                 THEN Clear([shown EXCEPT !.gone = TRUE]) ELSE shown
  /\ UNCHANGED <<disk, lists, changes, ops, spent, gap>>

FetchFails ==
  /\ panel.fetch.at = "asked" /\ panel.fetch.kind \in {"load", "live"}
  /\ Spend("failure")
  /\ panel' = IF panel.fetch.kind = "live" THEN [panel EXCEPT !.fetch = NoFetch]
              ELSE [panel EXCEPT !.fetch = NoFetch, !.diff = [at |-> "error", path |-> panel.fetch.sel.path]]
  /\ gap' = IF panel.fetch.kind = "live" THEN gap \cup {"failed"} ELSE gap
  /\ UNCHANGED <<disk, lists, changes, ops>>

(* A failed call puts its snapshot back and reads nothing.                 *)
MoveAnswered(op) ==
  /\ op.at # "sent"
  /\ ops' = ops \ {op}
  /\ \/ op.at = "ok" /\ due' = TRUE /\ UNCHANGED <<changes, gap>>
     \/ /\ op.at = "error"
        /\ changes' = op.snapshot
        /\ gap' = IF op.snapshot = shared THEN gap ELSE gap \cup {"reverted"}
        /\ UNCHANGED due
  /\ UNCHANGED <<disk, shared, status, panel, spent>>

-----------------------------------------------------------------------------
(* The list is read.                                                       *)

AskStatus ==
  /\ due /\ status.at = "idle"
  /\ due' = FALSE
  /\ status' = [at |-> "asked"]
  /\ UNCHANGED <<disk, shared, changes, ops, panel, spent, gap>>

ReadStatus ==
  /\ status.at = "asked"
  /\ \/ status' = [at |-> "answered", lists |-> Lists(disk)] /\ UNCHANGED <<spent, gap>>
     \/ Spend("failure") /\ status' = [at |-> "idle"] /\ gap' = gap \cup {"failed"}
  /\ UNCHANGED <<disk, shared, due, changes, ops, panel>>

(* A call in flight keeps its optimistic list.                             *)
StatusLands ==
  /\ status.at = "answered"
  /\ status' = [at |-> "idle"]
  /\ shared' = status.lists
  /\ changes' = IF ops = {} THEN status.lists ELSE changes
  /\ panel' = Sync(panel, status.lists)
  /\ gap' = IF Skipped(panel, status.lists) THEN gap \cup {"skipped"} ELSE gap
  /\ UNCHANGED <<disk, due, ops, spent>>

-----------------------------------------------------------------------------
(* Others write: the file, or the index.  A watcher's event follows.       *)
ExternalEdit(f, text) ==
  /\ disk[f].text # text
  /\ Spend("edit")
  /\ \E s \in SUBSET disk[f].staged :
       /\ text = Clean => s = {}
       /\ disk' = [disk EXCEPT ![f] = [text |-> text, staged |-> s]]
  /\ due' = TRUE
  /\ UNCHANGED <<shared, status, changes, ops, panel, gap>>

ExternalIndex(f, s) ==
  /\ disk[f].text # Clean /\ disk[f].staged # s
  /\ Spend("index")
  /\ disk' = [disk EXCEPT ![f].staged = s]
  /\ due' = TRUE
  /\ UNCHANGED <<shared, status, changes, ops, panel, gap>>

-----------------------------------------------------------------------------
Init ==
  /\ disk \in [Tracked -> [text : Text, staged : {{}}]]
  /\ shared = Lists(disk) /\ due = FALSE /\ status = [at |-> "idle"]
  /\ changes = shared /\ ops = {}
  /\ panel = [selected |-> None, gone |-> FALSE, diff |-> NoDiff, fetch |-> NoFetch, queue |-> <<>>,
              drain |-> Off, deferred |-> {}, dialog |-> None, syncDue |-> FALSE]
  /\ spent \in Budgets
  /\ gap = {}

Next ==
  \/ \E lines \in (SUBSET Line) \ {{}} :
       RequestDiscard(lines) \/ \E target \in {"stage", "unstage"} : ToggleLines(lines, target)
  \/ ConfirmDiscard \/ CancelDiscard
  \/ \E f \in File, cat \in Category : Select(f, cat)
  \/ Reselect \/ AutoSelect
  \/ \E f \in Tracked, to \in {"staged", "unstaged"} : MoveFile(f, to)
  \/ GitToggles \/ GitDiscards \/ GitFails \/ OpAnswered
  \/ \E op \in ops : GitMoves(op) \/ MoveAnswered(op)
  \/ ReadDiff \/ OwnReloadLands \/ OwnReloadSuperseded \/ OwnReloadFails
  \/ LoadLands \/ LiveReloadLands \/ FetchFails
  \/ AskStatus \/ ReadStatus \/ StatusLands
  \/ \E f \in Tracked : \/ \E text \in Text \cup {Clean} : ExternalEdit(f, text)
                        \/ \E s \in SUBSET Line : ExternalIndex(f, s)

Spec == Init /\ [][Next]_vars

-----------------------------------------------------------------------------
Selection == [path : File, cat : Category]
Diffs     == [path : Tracked, text : Text \cup {Clean}, staged : SUBSET Line]
Toggle    == [kind : {"toggle"}, path : Tracked, shown : Tracked, text : Text,
              lines : (SUBSET Line) \ {{}}, target : {"stage", "unstage"}]
Discard   == [kind : {"discard"}, path : Tracked, shown : Tracked, text : Text,
              lines : (SUBSET Line) \ {{}}, print : Diffs]

(* The state, and what the worker owes it: a queued tick waits only while  *)
(* the worker runs, unless it was made while a refusal was shown; a request*)
(* put off for the worker's end is never kept past it; and a diff is       *)
(* waited for exactly while a fetch of it is under way.                    *)
TypeOK ==
  /\ disk \in [Tracked -> [text : Text \cup {Clean}, staged : SUBSET Line]]
  /\ \A f \in Tracked : disk[f].text = Clean => disk[f].staged = {}
  /\ {shared, changes} \subseteq [File -> SUBSET Category]
  /\ due \in BOOLEAN
  /\ status \in [at : {"idle", "asked"}] \cup [at : {"answered"}, lists : [File -> SUBSET Category]]
  /\ \A op \in ops : op.path \in Tracked /\ op.at \in {"sent", "ok", "error"}
  /\ panel.selected \in Selection \cup {None}
  /\ panel.queue \in Seq(Toggle \cup Discard)
  /\ panel.diff.at = "ready" => panel.diff.print \in Diffs /\ panel.diff.ticks \subseteq Line
  /\ panel.drain.at \in {"calling", "ok", "error"} => panel.drain.op \in Toggle \cup Discard
  /\ panel.drain.at = "off" => panel.deferred = {} /\ ~panel.syncDue /\ (panel.queue = <<>> \/ "stranded" \in gap)
  /\ panel.diff.at = "loading" => panel.fetch.at # "idle" \/ "failed" \in gap

(* git changes the rows the user ticked: the file of a tick or a discard   *)
(* that succeeds is the one whose diff was on screen at the click, and its *)
(* rows are still where they were, whatever was edited, reloaded or        *)
(* selected in between (FR-453, FR-454, FR-493).  A tick that was left in  *)
(* the queue may be of another file's diff, if that has the same rows.     *)
AppliesWhatWasSeen ==
  [][panel.drain.at = "calling" /\ panel'.drain.at = "ok" =>
       LET op == panel.drain.op
       IN disk[op.path].text = op.text /\ (op.shown = op.path \/ "stranded" \in gap)]_vars

(* When nothing is in flight the panel says what is on disk: the list and  *)
(* its overlay, the diff of the open file and every tick on it, and "gone" *)
(* only of a file without changes (FR-460, FR-461, FR-485).  The excuses   *)
(* are the gaps the code is known to have.                                 *)
Quiet == /\ panel.drain.at = "off" /\ panel.fetch.at = "idle"
         /\ ~due /\ status.at = "idle" /\ ops = {}
SettlesOnDisk ==
  Quiet /\ gap = {} =>
    /\ shared = Lists(disk) /\ changes = shared
    /\ panel.gone /\ panel.selected # None => shared[panel.selected.path] = {}
    /\ OnScreen(panel) => LET f == panel.selected.path
                          IN panel.diff.print = Fingerprint(f, disk) /\ panel.diff.ticks = disk[f].staged

(* The tracked diff that is on screen is the selected file's, and an       *)
(* untracked file shows none (useFileDiff.ts: a superseded answer never    *)
(* clobbers a newer selection's result).                                   *)
ShowsSelectedFile ==
  panel.selected # None /\ panel.diff.at = "ready" =>
    panel.diff.path = panel.selected.path /\ panel.selected.cat # "untracked"
================================================================================
