------------------------------ MODULE EditSession ------------------------------
(***************************************************************************)
(* One file open in the editor of the Changes panel: useEditSession (disk  *)
(* checks, guarded saves, the overwrite, reload and leave prompts), with   *)
(* useRecoveryDraft, which keeps the unsaved text in the draft store, and  *)
(* git-core's writeEditedFile under it.                                    *)
(*                                                                         *)
(* A content is compared as a whole, so a hash is the content it is of.    *)
(* Modal prompts keep the keyboard from the editor, and whoever was granted*)
(* leave goes on at once (or asks the next editor).  The draft store takes *)
(* its calls in the order they were made, which is what RecoveryDrafts     *)
(* shows of it.  Line endings, the conflict layer and the messages are     *)
(* left out, and so is a reload that has to rebuild the editor.            *)
(***************************************************************************)
EXTENDS Integers, Sequences, FiniteSets, SequencesExt

CONSTANTS
  Content,  \* the texts a file or a buffer may hold
  Budgets   \* bounds on the steps of the user and of other programs, one of which holds

Step == {"type", "flush", "outside", "save", "leave", "failure", "timeout", "stay", "compose"}

ASSUME EditSessionAssumption ==
  /\ Content # {}
  /\ {"deleted", "unfit", "none"} \cap Content = {}
  /\ Budgets \subseteq [Step -> Nat]

VARIABLES
  disk,                               \* the file: a content, or why it cannot be edited
  ed,                                 \* the buffer and the content its next save expects on disk
  known, shown, due, probe, checks, epoch,   \* the checks of the disk
  save,                               \* the save or resolve in flight
  timer, blocked, last,               \* useRecoveryDraft
  calls, stored,                      \* the calls to the draft store, and what it holds
  leave,                              \* the leave prompt
  excuse, discarded, spent            \* ghosts

watch == <<known, shown, due, probe, checks, epoch>>
draft == <<timer, blocked, last>>
store == <<calls, stored>>
vars  == <<disk, ed, watch, save, draft, store, leave, excuse, discarded, spent>>

Gone   == {"deleted", "unfit"}
Disk   == Content \cup Gone
Maybe  == Content \cup {"none"}
Dirty  == ed.text # ed.base
Modal  == leave.asked \/ leave.granted \/ save.at = "asking"
Saving == save.at # "idle"
Spend(k) == /\ spent[k] > 0
            /\ spent' = [spent EXCEPT ![k] = @ - 1]
Idle   == [at |-> "idle", kind |-> "save", snap |-> "none", expected |-> "none", from |-> "none", force |-> FALSE, moved |-> FALSE]
NoLeave == [asked |-> FALSE, discarding |-> FALSE, mine |-> FALSE, granted |-> FALSE]

-----------------------------------------------------------------------------
(* useRecoveryDraft.  What the store will hold once every call is answered. *)

Call(kind, text, waiter) == [kind |-> kind, text |-> text, waiter |-> waiter]
Pending == IF calls = <<>> THEN stored
           ELSE IF Last(calls).kind = "write" THEN Last(calls).text ELSE "none"

(* write: nothing without a context (the file can be edited), when blocked,*)
(* when clean, or when the text is what was last written.                  *)
Wanted  == Dirty /\ ~blocked
Write ==
  /\ calls' = IF Wanted /\ shown # "gone" /\ ed.text # last
              THEN Append(calls, Call("write", ed.text, "self")) ELSE calls
  /\ excuse' = IF ~Wanted THEN excuse
               ELSE IF shown = "gone" THEN "gone"
               ELSE IF ed.text = last /\ Pending # ed.text THEN "stale" ELSE excuse

(* deleteNow, up to its wait for the answer.                               *)
DeleteOnly(waiter) ==     \* a mutant
  /\ timer' = FALSE
  /\ blocked' = FALSE
  /\ calls' = Append(calls, Call("delete", "none", waiter))
DeleteNow(waiter) ==
  /\ timer' = FALSE
  /\ blocked' = TRUE
  /\ calls' = Append(calls, Call("delete", "none", waiter))

LeavesPending == leave.discarding \/ (leave.granted /\ discarded)

(* resume, called with a dirty buffer; under a Discard it brings the draft *)
(* back.                                                                   *)
Resume ==
  /\ blocked' = FALSE
  /\ timer' = TRUE
  /\ excuse' = IF LeavesPending THEN "resumed" ELSE IF excuse = "gone" THEN "none" ELSE excuse

DraftTimer ==
  /\ timer
  /\ timer' = FALSE
  /\ Write
  /\ UNCHANGED <<disk, ed, watch, save, blocked, last, stored, leave, discarded, spent>>

(* The editor loses focus, or the window is hidden.                        *)
Flush ==
  /\ ed.mounted
  /\ Spend("flush")
  /\ timer' = FALSE
  /\ Write
  /\ UNCHANGED <<disk, ed, watch, save, blocked, last, stored, leave, discarded>>

-----------------------------------------------------------------------------
(* The end of a save: the finally block, and for the prompt's Save its     *)
(* answer to whoever asked to leave.                                       *)

Resolved(ok) == [leave EXCEPT !.asked = FALSE, !.granted = IF leave.asked THEN ok ELSE @,
                              !.mine = IF leave.asked THEN FALSE ELSE @]
Finish(ok, clean) ==
  /\ epoch' = epoch + 1
  /\ IF save.kind = "resolve" /\ save.at = "drafting" /\ clean /\ ed.mounted
     THEN save' = [Idle EXCEPT !.at = "resolving", !.kind = "resolve"]
     ELSE save' = Idle
  /\ leave' = IF save.kind = "leave" THEN Resolved(ok /\ clean) ELSE leave

(* After afterSave: the banners go, and the file is staged if asked.       *)
AfterDraft ==
  /\ known' = "none"
  /\ shown' = "none"
  /\ IF save.kind = "stage"
     THEN /\ save' = [save EXCEPT !.at = "staging"]
          /\ UNCHANGED <<epoch, leave>>
     ELSE Finish(TRUE, ~Dirty)

(* The awaited delete is settled: afterSave makes way for a buffer that is *)
(* dirty again, leaveDiscard resolves the prompt it was clicked in, closing*)
(* another that is up by then.                                             *)
Continue(waiter, keep) ==
  CASE waiter = "save" ->
         /\ blocked' = IF Dirty /\ ed.mounted THEN FALSE ELSE blocked
         /\ timer' = IF Dirty /\ ed.mounted THEN TRUE ELSE timer
         /\ last' = keep
         /\ AfterDraft
         /\ UNCHANGED <<due, probe, checks>>
    [] waiter = "leave" ->
         /\ leave' = [leave EXCEPT !.asked = FALSE, !.discarding = FALSE, !.mine = FALSE,
                                   !.granted = @ \/ leave.mine]
         /\ last' = keep
         /\ UNCHANGED <<watch, save, timer, blocked>>
    [] OTHER ->
         /\ last' = keep
         /\ UNCHANGED <<watch, save, leave, timer, blocked>>

(* The store answers a write: saved, superseded by a later call, or failed.*)
WriteAnswered ==
  /\ calls # <<>> /\ Head(calls).kind = "write"
  /\ calls' = Tail(calls)
  /\ \/ /\ stored' = Head(calls).text
        /\ last' = IF ed.mounted THEN Head(calls).text ELSE last
        /\ UNCHANGED <<excuse, spent>>
     \/ /\ Len(calls) > 1
        /\ UNCHANGED <<stored, last, excuse, spent>>
     \/ /\ Spend("failure")
        /\ excuse' = "failed"
        /\ UNCHANGED <<stored, last>>
  /\ UNCHANGED <<disk, ed, watch, save, timer, blocked, leave, discarded>>

DeleteAnswered ==
  /\ calls # <<>> /\ Head(calls).kind = "delete"
  /\ calls' = Tail(calls)
  /\ \/ /\ stored' = "none"
        /\ Continue(Head(calls).waiter, IF Head(calls).waiter = "late" THEN last ELSE "none")
        /\ UNCHANGED <<excuse, spent>>
     \/ /\ Spend("failure")
        /\ excuse' = "failed"
        /\ Continue(Head(calls).waiter, last)
        /\ UNCHANGED stored
  /\ UNCHANGED <<disk, ed, discarded>>

(* DELETE_WAIT_MS passes: the caller goes on, and the answer that comes is *)
(* not heard.                                                              *)
HeardTwice(i) == calls' = calls     \* a mutant
Unheard(i)    == calls' = [calls EXCEPT ![i].waiter = "late"]
DeleteTimeout(i) ==
  /\ calls[i].kind = "delete" /\ calls[i].waiter # "late"
  /\ Spend("timeout")
  /\ Unheard(i)
  /\ Continue(calls[i].waiter, last)
  /\ UNCHANGED <<disk, ed, stored, excuse, discarded>>

-----------------------------------------------------------------------------
(* The user edits; going back to the base text deletes the draft.          *)

Type(t) ==
  /\ ed.mounted /\ ~Modal /\ t # ed.text
  /\ Spend("type")
  /\ ed' = [ed EXCEPT !.text = t]
  /\ excuse' = "none"
  /\ discarded' = FALSE
  /\ IF t # ed.base
     THEN /\ blocked' = FALSE
          /\ timer' = TRUE
          /\ UNCHANGED <<calls, due>>
     ELSE /\ DeleteNow("self")
          /\ due' = (due \/ shown \in Content)
  /\ UNCHANGED <<disk, known, shown, probe, checks, epoch, save, last, stored, leave>>

(* Another program writes, removes or replaces the file; the watcher tells.*)
Outside(d) ==
  /\ d # disk
  /\ Spend("outside")
  /\ disk' = d
  /\ due' = ed.mounted
  /\ save' = IF save.at = "loaded" THEN [save EXCEPT !.moved = TRUE] ELSE save
  /\ UNCHANGED <<ed, known, shown, probe, checks, epoch, draft, store, leave, excuse, discarded>>

-----------------------------------------------------------------------------
(* checkDisk: a read is in flight until it lands; undone marks one whose   *)
(* content this editor has overwritten since.                              *)

CheckStart ==
  /\ due
  /\ due' = FALSE
  /\ checks' = IF Saving THEN checks ELSE checks \cup {[seen |-> disk, epoch |-> epoch, undone |-> FALSE]}
  /\ UNCHANGED <<disk, ed, known, shown, probe, epoch, save, draft, store, leave, excuse, discarded, spent>>

IgnoresEpoch(c) == Saving     \* a mutant
Outdated(c) == c.epoch # epoch \/ Saving

(* applyDiskContent: replaceAll fires a change that the draft hook takes   *)
(* for one of the user's.                                                  *)
Reload(content) ==
  /\ ed' = [ed EXCEPT !.text = content, !.base = content, !.hash = content, !.basis = content]
  /\ known' = "none"
  /\ shown' = "none"

CheckGone(d) ==
  /\ IF known = d THEN UNCHANGED <<known, shown, probe>>
     ELSE /\ known' = d
          /\ shown' = "gone"
          /\ probe' = (probe \/ d = "deleted")
  /\ UNCHANGED <<ed, draft, excuse>>

CheckSame ==
  /\ known' = "none"
  /\ shown' = "none"
  /\ IF known \in Gone /\ Dirty
     THEN Resume /\ UNCHANGED last
     ELSE UNCHANGED <<draft, excuse>>
  /\ UNCHANGED <<ed, probe>>

(* Clean: quietly reloaded.  Dirty: a banner, once for one content.        *)
AdoptsWhenDirty(d) ==     \* a mutant
  /\ IF Dirty THEN /\ known' = d /\ shown' = d /\ ed' = [ed EXCEPT !.hash = d] /\ UNCHANGED draft
     ELSE Reload(d) /\ timer' = TRUE /\ blocked' = FALSE /\ UNCHANGED last
  /\ UNCHANGED <<probe, excuse>>
CheckOther(d) ==
  /\ IF ~Dirty
     THEN Reload(d) /\ timer' = TRUE /\ blocked' = FALSE /\ UNCHANGED last
     ELSE /\ known' = d
          /\ shown' = IF known = d THEN shown ELSE d
          /\ UNCHANGED <<ed, draft>>
  /\ UNCHANGED <<probe, excuse>>

CheckLand(c) ==
  /\ checks' = checks \ {c}
  /\ \/ /\ Outdated(c)
        /\ UNCHANGED <<ed, known, shown, probe, due, draft, excuse, spent>>
     \/ /\ ~Outdated(c)
        /\ Spend("compose")               \* an input composition is on: look again
        /\ due' = TRUE
        /\ UNCHANGED <<ed, known, shown, probe, draft, excuse>>
     \/ /\ ~Outdated(c)
        /\ \/ c.seen \in Gone /\ CheckGone(c.seen)
           \/ c.seen = ed.hash /\ CheckSame
           \/ c.seen \in Content \ {ed.hash} /\ CheckOther(c.seen)
        /\ UNCHANGED <<due, spent>>
  /\ UNCHANGED <<disk, epoch, save, store, leave, discarded>>

(* A second look, a second after the file was seen deleted.                *)
Probe ==
  /\ probe
  /\ probe' = FALSE
  /\ \/ /\ disk \in Content /\ Dirty
        /\ Resume
        /\ UNCHANGED calls
     \/ /\ disk = "deleted"
        /\ DeleteNow("self")
        /\ excuse' = IF Dirty THEN "gone" ELSE excuse
     \/ /\ disk = "unfit" \/ (disk \in Content /\ ~Dirty)
        /\ UNCHANGED <<timer, blocked, calls, excuse>>
  /\ UNCHANGED <<disk, ed, known, shown, due, checks, epoch, save, last, stored, leave, discarded, spent>>

DismissGone ==
  /\ ed.mounted /\ ~Modal /\ shown = "gone"
  /\ shown' = "none"
  /\ UNCHANGED <<disk, ed, known, due, probe, checks, epoch, save, draft, store, leave, excuse, discarded, spent>>

ConfirmReload ==
  /\ ed.mounted /\ ~Modal /\ shown \in Content
  /\ Reload(shown)
  /\ DeleteNow("self")
  /\ excuse' = "none"
  /\ UNCHANGED <<disk, due, probe, checks, epoch, save, last, stored, leave, discarded, spent>>

-----------------------------------------------------------------------------
(* save: take the text, write it through the hash guard, drop the draft,   *)
(* stage.  markResolved saves a dirty buffer first.                        *)

Begun(kind, force) ==
  [at |-> "called", kind |-> kind, snap |-> ed.text, expected |-> ed.hash, from |-> ed.basis,
   force |-> force, moved |-> FALSE]

SaveStart(kind) ==
  /\ ed.mounted /\ ~Modal /\ ~Saving
  /\ kind \in {"save", "stage"} => Dirty
  /\ kind = "stageOnly" => ~Dirty /\ known = "none" /\ shown = "none"
  /\ Spend("save")
  /\ epoch' = epoch + 1
  /\ save' = IF kind = "stageOnly" THEN [Idle EXCEPT !.at = "staging", !.kind = kind]
             ELSE IF kind = "resolve" /\ ~Dirty THEN [Idle EXCEPT !.at = "resolving", !.kind = kind]
             ELSE Begun(kind, FALSE)
  /\ UNCHANGED <<disk, ed, known, shown, due, probe, checks, draft, store, leave, excuse, discarded>>

(* A refused or failed write: the buffer is kept.                          *)
SaveRefused ==
  /\ Finish(FALSE, FALSE)
  /\ UNCHANGED <<disk, ed, known, shown, due, probe, checks, draft, store, excuse, discarded>>

(* writeEditedFile under its path lock, up to the hash it read.            *)
WriteLoad ==
  /\ save.at = "called"
  /\ \/ disk \in Gone /\ SaveRefused /\ UNCHANGED spent
     \/ Spend("failure") /\ SaveRefused
     \/ /\ disk \in Content
        /\ save' = [save EXCEPT !.at = IF disk = save.expected \/ save.force THEN "loaded" ELSE "asking"]
        /\ UNCHANGED <<disk, ed, watch, draft, store, leave, excuse, discarded, spent>>

(* The rename, unless the file is no longer the one that was read.         *)
Swappable == ~save.moved
WriteSwap ==
  /\ save.at = "loaded"
  /\ \/ /\ Swappable
        /\ disk' = save.snap
        /\ due' = (due \/ ed.mounted)
        /\ checks' = {[c EXCEPT !.undone = TRUE] : c \in checks}
        /\ save' = [save EXCEPT !.at = "written"]
        /\ UNCHANGED <<ed, known, shown, probe, epoch, draft, store, leave, excuse, discarded, spent>>
     \/ /\ ~Swappable /\ disk \in Content
        /\ save' = [save EXCEPT !.at = "asking"]
        /\ UNCHANGED <<disk, ed, watch, draft, store, leave, excuse, discarded, spent>>
     \/ ~Swappable /\ disk \in Gone /\ SaveRefused /\ UNCHANGED spent

(* The answer: the snapshot is the base from now on; typing since is dirty.*)
SaveWritten ==
  /\ save.at = "written"
  /\ ed' = [ed EXCEPT !.hash = save.snap, !.basis = save.snap, !.base = IF ed.mounted THEN save.snap ELSE @]
  /\ due' = (due \/ (ed.mounted /\ shown \in Content /\ ed.text = save.snap))
  /\ DeleteNow("save")
  /\ save' = [save EXCEPT !.at = "drafting"]
  /\ UNCHANGED <<disk, known, shown, probe, checks, epoch, last, stored, leave, excuse, discarded, spent>>

(* The overwrite prompt (FR-474).                                          *)
AnswerOverwrite(ok) ==
  /\ save.at = "asking"
  /\ IF ok
     THEN /\ save' = Begun(save.kind, TRUE)
          /\ UNCHANGED <<disk, ed, watch, draft, store, leave, excuse, discarded>>
     ELSE SaveRefused
  /\ UNCHANGED spent

(* stageFile or markConflictResolved answers; either may fail.             *)
Staged ==
  /\ save.at = "staging"
  /\ Finish(TRUE, FALSE)
  /\ UNCHANGED <<disk, ed, known, shown, due, probe, checks, draft, store, excuse, discarded, spent>>

ResolvedFile ==
  /\ save.at = "resolving"
  /\ Finish(TRUE, FALSE)
  /\ \/ known' = "none" /\ shown' = "none" /\ UNCHANGED spent
     \/ Spend("failure") /\ UNCHANGED <<known, shown>>
  /\ UNCHANGED <<disk, ed, due, probe, checks, draft, store, excuse, discarded>>

-----------------------------------------------------------------------------
(* Leaving (FR-535).                                                       *)

RequestLeave ==
  /\ ed.mounted /\ Dirty /\ ~leave.asked /\ ~leave.granted
  /\ Spend("leave")
  /\ leave' = [leave EXCEPT !.asked = TRUE]
  /\ UNCHANGED <<disk, ed, watch, save, draft, store, excuse, discarded>>

(* A save already in flight makes this one answer false at once; a Discard *)
(* that is still deleting does not stop it.                                *)
LeaveSave ==
  /\ leave.asked /\ save.at # "asking"
  /\ discarded' = FALSE
  /\ excuse' = IF leave.discarding THEN "stayed" ELSE excuse
  /\ IF Saving
     THEN leave' = Resolved(FALSE) /\ UNCHANGED <<save, epoch>>
     ELSE /\ save' = Begun("leave", FALSE)
          /\ epoch' = epoch + 1
          /\ UNCHANGED leave
  /\ UNCHANGED <<disk, ed, known, shown, due, probe, checks, draft, store, spent>>

LeaveDiscard ==
  /\ leave.asked /\ ~leave.discarding /\ ~Saving
  /\ leave' = [leave EXCEPT !.discarding = TRUE, !.mine = TRUE]
  /\ discarded' = TRUE
  /\ DeleteNow("leave")
  /\ UNCHANGED <<disk, ed, watch, save, last, stored, excuse, spent>>

LeaveCancel ==
  /\ leave.asked /\ ~leave.discarding /\ save.at # "asking"
  /\ leave' = Resolved(FALSE)
  /\ UNCHANGED <<disk, ed, watch, save, draft, store, excuse, discarded, spent>>

(* The caller stays after all: another dirty editor's prompt was cancelled.*)
Stay ==
  /\ leave.granted
  /\ Spend("stay")
  /\ leave' = [leave EXCEPT !.granted = FALSE]
  /\ excuse' = IF discarded THEN "stayed" ELSE excuse
  /\ discarded' = FALSE
  /\ UNCHANGED <<disk, ed, watch, save, draft, store>>

(* The editor goes: with leave granted, or clean so that nobody asks.  Its *)
(* layout cleanup flushes the draft, a prompt of a save is answered no.    *)
Unmount ==
  /\ ed.mounted /\ (leave.granted \/ (~Dirty /\ ~leave.asked))
  /\ ed' = [ed EXCEPT !.mounted = FALSE]
  /\ timer' = FALSE
  /\ Write
  /\ leave' = [NoLeave EXCEPT !.discarding = leave.discarding]
  /\ due' = FALSE
  /\ probe' = FALSE
  /\ checks' = {}
  /\ save' = IF save.at = "asking" THEN Idle ELSE save
  /\ UNCHANGED <<disk, known, shown, epoch, blocked, last, stored, discarded, spent>>

-----------------------------------------------------------------------------
(* A fresh open, or one that restores a draft with the hash it was based   *)
(* on.  The file may have changed since it was read.                       *)
Editor(text, base, hash) ==
  [mounted |-> TRUE, text |-> text, base |-> base, hash |-> hash, basis |-> hash]

Init ==
  /\ disk \in Disk
  /\ \/ /\ \E c \in Content : ed = Editor(c, c, c)
        /\ stored = "none" /\ due = FALSE /\ excuse = "none"
     \/ /\ \E t, c, h \in Content : ed = Editor(t, c, h) /\ stored = t
        /\ due = TRUE
        /\ excuse = IF ed.text = ed.base THEN "restored" ELSE "none"
  /\ known = "none" /\ shown = "none" /\ probe = FALSE /\ checks = {} /\ epoch = 0
  /\ save = Idle
  /\ timer = FALSE /\ blocked = FALSE /\ last = "none"
  /\ calls = <<>>
  /\ leave = NoLeave
  /\ discarded = FALSE
  /\ spent \in Budgets

Next ==
  \/ DraftTimer \/ Flush
  \/ WriteAnswered \/ DeleteAnswered
  \/ \E i \in DOMAIN calls : DeleteTimeout(i)
  \/ \E t \in Content : Type(t)
  \/ \E d \in Disk : Outside(d)
  \/ CheckStart \/ \E c \in checks : CheckLand(c)
  \/ Probe \/ DismissGone \/ ConfirmReload
  \/ \E kind \in {"save", "stage", "stageOnly", "resolve"} : SaveStart(kind)
  \/ WriteLoad \/ WriteSwap \/ SaveWritten
  \/ \E ok \in BOOLEAN : AnswerOverwrite(ok)
  \/ Staged \/ ResolvedFile
  \/ RequestLeave \/ LeaveSave \/ LeaveDiscard \/ LeaveCancel \/ Stay \/ Unmount

Spec == Init /\ [][Next]_vars

-----------------------------------------------------------------------------
Awaited(waiter) == Cardinality({i \in DOMAIN calls : calls[i].waiter = waiter})

(* Types; and a save past its write, or a Discard, waits for exactly one   *)
(* delete of the draft, so that neither hangs nor is gone on with twice.   *)
TypeOK ==
  /\ disk \in Disk
  /\ ed \in [mounted : BOOLEAN, text : Content, base : Content, hash : Content, basis : Content]
  /\ known \in Disk \cup {"none"} /\ shown \in Maybe \cup {"gone"}
  /\ due \in BOOLEAN /\ probe \in BOOLEAN /\ epoch \in Nat
  /\ checks \subseteq [seen : Disk, epoch : Nat, undone : BOOLEAN]
  /\ save \in [at : {"idle", "called", "loaded", "asking", "written", "drafting", "staging", "resolving"},
               kind : {"save", "stage", "stageOnly", "resolve", "leave"}, snap : Maybe, expected : Maybe,
               from : Maybe, force : BOOLEAN, moved : BOOLEAN]
  /\ timer \in BOOLEAN /\ blocked \in BOOLEAN /\ last \in Maybe
  /\ calls \in Seq([kind : {"write", "delete"}, text : Maybe, waiter : {"self", "save", "leave", "late"}])
  /\ stored \in Maybe
  /\ leave \in [asked : BOOLEAN, discarding : BOOLEAN, mine : BOOLEAN, granted : BOOLEAN]
  /\ excuse \in {"none", "gone", "stale", "failed", "resumed", "stayed", "restored"}
  /\ discarded \in BOOLEAN
  /\ spent \in [Step -> Nat]
  /\ Awaited("save") = IF save.at = "drafting" THEN 1 ELSE 0
  /\ Awaited("leave") = IF leave.discarding THEN 1 ELSE 0

(* A write that lands replaces only the disk content the saved text was    *)
(* made from, unless the user said yes to the overwrite prompt of this     *)
(* save: FR-474's "never overwrite without an explicit yes", from the read *)
(* that opened the file, through every reload, check and banner, to the    *)
(* rename (useEditSession.ts:357-394, editFile.ts:404-455).                *)
OverwriteIsAsked ==
  [][save.at = "loaded" /\ save'.at = "written" => save.force \/ disk = save.from]_vars

(* A disk check that read the file before our own write never reports on   *)
(* it: neither the text nor the banner changes (FR-536, the write epoch of *)
(* useEditSession.ts:111-112).                                             *)
OwnWritesAreNotReported ==
  [][\A c \in checks \ checks' : c.undone => UNCHANGED <<ed.text, ed.hash, known, shown>>]_vars

Quiet == calls = <<>> /\ ~timer /\ save.at = "idle" /\ leave = NoLeave /\ ~probe

(* At rest the store holds the text of a dirty buffer and nothing for a    *)
(* clean one; once the editor is gone, the text it had if it was dirty and *)
(* nobody discarded it, and nothing otherwise.  "a late write can never    *)
(* resurrect a deleted draft" (useRecoveryDraft.ts:30-34).  The excuses are*)
(* the ways out that the code leaves, each set where it happens and taken  *)
(* back by the next change.                                                *)
DraftFollowsBuffer ==
  Quiet /\ excuse = "none" =>
    stored = IF Dirty /\ (ed.mounted => ~blocked) /\ ~discarded THEN ed.text ELSE "none"
================================================================================
