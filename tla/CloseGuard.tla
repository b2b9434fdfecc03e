------------------------------- MODULE CloseGuard -------------------------------
(***************************************************************************)
(* Closing the window over an unsaved buffer: createCloseGuard in the main *)
(* process (packages/desktop/electron/closeGuard.ts), the handler in the   *)
(* renderer that asks the user (App.tsx), the messages between them, and   *)
(* the native confirmation for a renderer that does not answer.            *)
(*                                                                         *)
(* Messages of one direction arrive in order; those of a renderer that     *)
(* crashes or reloads are lost with it.  The prompt is modal.  What it does*)
(* to the buffer (EditSession) is here only that the buffer is clean, may  *)
(* go, or stays.  A window made anew after the last one is another run.    *)
(***************************************************************************)
EXTENDS Integers, Sequences, SequencesExt

CONSTANT Budgets   \* bounds on the steps of the user and the system, one of which holds

Step == {"edit", "close", "quit", "hang", "gone", "ending", "veto"}

ASSUME CloseGuardAssumption == Budgets \subseteq [Step -> Nat]

VARIABLES
  (* createCloseGuard *)
  dirty, asking, allowed, quitRequested, timer, fallbackOpen, acked, quitTimer, allowedTimer,
  (* the window: a close event on its way, closed *)
  closing, closed,
  (* the renderer *)
  buffer, state, requested, prompt,
  toMain,
  (* ghosts: the user let the text go, or typed or cancelled once the close was allowed *)
  settled, late, ending, spent

flags    == <<dirty, asking, allowed, quitRequested, timer, fallbackOpen, acked, quitTimer, allowedTimer>>
window   == <<closing, closed>>
renderer == <<buffer, state, requested, prompt>>
ghosts   == <<settled, late, ending>>
vars     == <<flags, window, renderer, toMain, ghosts, spent>>

Message == {"dirty", "clean", "prompting", "allow", "cancel"}
Sent(kinds) == \E i \in DOMAIN toMain : toMain[i] \in kinds
Spend(k) == /\ spent[k] > 0
            /\ spent' = [spent EXCEPT ![k] = @ - 1]

-----------------------------------------------------------------------------
(* The guard.  finish: let the close through, for a while.                 *)

NeverResets(kind) == allowedTimer' = "none"     \* a mutant
ArmAllowedReset(kind) == allowedTimer' = kind
Finish ==
  /\ timer' = FALSE
  /\ asking' = FALSE
  /\ allowed' = TRUE
  /\ ArmAllowedReset("short")
  /\ closing' = TRUE

KeepsTimer ==     \* a mutant
  /\ asking' = FALSE
  /\ quitRequested' = FALSE
  /\ UNCHANGED timer
GiveUp ==
  /\ timer' = FALSE
  /\ asking' = FALSE
  /\ quitRequested' = FALSE

(* The close event of the window (onWindowClose).  While a request is open *)
(* a second one goes to the native confirmation.                           *)
Passes == allowed \/ ~dirty

(* "closed" calls dispose.                                                 *)
CloseEventPasses ==
  /\ closing /\ Passes
  /\ closing' = FALSE
  /\ closed' = TRUE
  /\ dirty' = FALSE /\ asking' = FALSE /\ allowed' = FALSE /\ quitRequested' = FALSE
  /\ timer' = FALSE /\ quitTimer' = FALSE /\ allowedTimer' = "none"
  /\ UNCHANGED <<fallbackOpen, acked, renderer, toMain, ghosts, spent>>

(* Something else keeps the window open.                                   *)
CloseEventVetoed ==
  /\ closing /\ Passes
  /\ Spend("veto")
  /\ closing' = FALSE
  /\ quitTimer' = FALSE
  /\ UNCHANGED <<dirty, asking, allowed, quitRequested, timer, fallbackOpen, acked, allowedTimer,
                 closed, renderer, toMain, ghosts>>

(* The request is lost on a renderer that is not there yet; the timer is   *)
(* armed first.                                                            *)
Unarmed == timer' = FALSE     \* a mutant
Armed   == timer' = TRUE
CloseEventAsks ==
  /\ closing /\ ~Passes /\ ~asking
  /\ closing' = FALSE
  /\ quitTimer' = FALSE
  /\ asking' = TRUE
  /\ acked' = FALSE
  /\ Armed
  /\ requested' = IF state = "loading" THEN requested ELSE requested + 1
  /\ UNCHANGED <<dirty, allowed, quitRequested, fallbackOpen, allowedTimer, closed, buffer, state, prompt,
                 toMain, ghosts, spent>>

CloseEventAgain ==
  /\ closing /\ ~Passes /\ asking
  /\ closing' = FALSE
  /\ quitTimer' = FALSE
  /\ fallbackOpen' = TRUE
  /\ UNCHANGED <<dirty, asking, allowed, quitRequested, timer, acked, allowedTimer, closed, renderer, toMain,
                 ghosts, spent>>

(* The five seconds are over, or the system reports a hung renderer.       *)
AckTimeout ==
  /\ timer
  /\ timer' = FALSE
  /\ fallbackOpen' = TRUE
  /\ UNCHANGED <<dirty, asking, allowed, quitRequested, acked, quitTimer, allowedTimer, window, renderer,
                 toMain, ghosts, spent>>

RendererUnresponsive ==
  /\ state = "hung" /\ asking
  /\ fallbackOpen' = TRUE
  /\ UNCHANGED <<dirty, asking, allowed, quitRequested, timer, acked, quitTimer, allowedTimer, window, renderer,
                 toMain, ghosts, spent>>

(* The native box is answered; by then another request may be open.        *)
NativeAnswer(closeAnyway) ==
  /\ ~closed /\ fallbackOpen
  /\ fallbackOpen' = FALSE
  /\ settled' = (settled \/ (asking /\ closeAnyway))
  /\ \/ ~asking /\ UNCHANGED <<asking, allowed, quitRequested, timer, allowedTimer, closing>>
     \/ asking /\ closeAnyway /\ Finish /\ UNCHANGED quitRequested
     \/ asking /\ ~closeAnyway /\ GiveUp /\ UNCHANGED <<allowed, allowedTimer, closing>>
  /\ UNCHANGED <<dirty, acked, quitTimer, closed, renderer, toMain, late, ending, spent>>

(* Seconds later: the close event of closeNow has come by then.            *)
AllowedReset ==
  /\ allowedTimer # "none" /\ ~closing
  /\ allowedTimer' = "none"
  /\ allowed' = FALSE
  /\ ending' = FALSE
  /\ UNCHANGED <<dirty, asking, quitRequested, timer, fallbackOpen, acked, quitTimer, window, renderer, toMain,
                 settled, late, spent>>

QuitExpires ==
  /\ quitTimer
  /\ quitTimer' = FALSE
  /\ quitRequested' = (quitRequested /\ asking)
  /\ UNCHANGED <<dirty, asking, allowed, timer, fallbackOpen, acked, allowedTimer, window, renderer, toMain,
                 ghosts, spent>>

-----------------------------------------------------------------------------
(* The renderer's messages arrive (setEditDirty, confirmClose).            *)

SetDirty ==
  /\ Head(toMain) \in {"dirty", "clean"}
  /\ dirty' = (Head(toMain) = "dirty")
  /\ UNCHANGED <<asking, allowed, quitRequested, timer, acked, allowedTimer, closing>>

OnReply ==
  /\ Head(toMain) \in {"prompting", "allow", "cancel"}
  /\ \/ ~asking /\ UNCHANGED <<asking, allowed, quitRequested, timer, acked, allowedTimer, closing>>
     \/ /\ asking /\ Head(toMain) = "prompting"
        /\ acked' = TRUE
        /\ timer' = FALSE
        /\ UNCHANGED <<asking, allowed, quitRequested, allowedTimer, closing>>
     \/ asking /\ Head(toMain) = "allow" /\ Finish /\ UNCHANGED <<quitRequested, acked>>
     \/ asking /\ Head(toMain) = "cancel" /\ GiveUp /\ UNCHANGED <<allowed, acked, allowedTimer, closing>>
  /\ UNCHANGED dirty

Receive ==
  /\ ~closed /\ toMain # <<>>
  /\ toMain' = Tail(toMain)
  /\ SetDirty \/ OnReply
  /\ UNCHANGED <<fallbackOpen, quitTimer, closed, renderer, ghosts, spent>>

-----------------------------------------------------------------------------
(* The renderer: the mirror of the dirty state, the close request and the  *)
(* prompt.  Only a change of the dirty state is sent.                      *)

LetGo == allowedTimer # "none" \/ Sent({"allow"})
Edit(d) ==
  /\ ~closed /\ state = "up" /\ ~prompt
  /\ d \/ buffer
  /\ Spend("edit")
  /\ buffer' = d
  /\ settled' = FALSE
  /\ late' = LetGo
  /\ toMain' = IF d = buffer THEN toMain ELSE Append(toMain, IF d THEN "dirty" ELSE "clean")
  /\ UNCHANGED <<flags, window, state, requested, prompt, ending>>

(* Asked again while asking: only the acknowledgement.  Nothing dirty:     *)
(* allowed at once.                                                        *)
OnCloseRequested ==
  /\ ~closed /\ state = "up" /\ requested > 0
  /\ requested' = requested - 1
  /\ IF prompt \/ buffer
     THEN /\ prompt' = TRUE
          /\ toMain' = Append(toMain, "prompting")
     ELSE /\ toMain' = Append(Append(toMain, "prompting"), "allow")
          /\ UNCHANGED prompt
  /\ UNCHANGED <<flags, window, buffer, state, ghosts, spent>>

(* The user saves (the mirror follows), discards (the buffer stays dirty   *)
(* until it goes) or cancels.                                              *)
AnswerPrompt(answer) ==
  /\ ~closed /\ state = "up" /\ prompt
  /\ prompt' = FALSE
  /\ buffer' = (buffer /\ answer # "save")
  /\ settled' = (answer # "cancel")
  /\ late' = (answer = "cancel" /\ LetGo)
  /\ toMain' = CASE answer = "save" -> Append(IF buffer THEN Append(toMain, "clean") ELSE toMain, "allow")
                 [] answer = "discard" -> Append(toMain, "allow")
                 [] answer = "cancel" -> Append(toMain, "cancel")
  /\ UNCHANGED <<flags, window, state, requested, ending, spent>>

Hang ==
  /\ ~closed /\ state = "up"
  /\ Spend("hang")
  /\ state' = "hung"
  /\ UNCHANGED <<flags, window, buffer, requested, prompt, toMain, ghosts>>

Recover ==
  /\ state = "hung"
  /\ state' = "up"
  /\ UNCHANGED <<flags, window, buffer, requested, prompt, toMain, ghosts, spent>>

(* Crashed or reloaded.                                                    *)
RendererGone ==
  /\ ~closed /\ state # "loading"
  /\ Spend("gone")
  /\ state' = "loading"
  /\ buffer' = FALSE /\ requested' = 0 /\ prompt' = FALSE /\ toMain' = <<>>
  /\ dirty' = FALSE /\ GiveUp
  /\ UNCHANGED <<allowed, fallbackOpen, acked, quitTimer, allowedTimer, window, ghosts>>

Loaded ==
  /\ ~closed /\ state = "loading"
  /\ state' = "up"
  /\ toMain' = Append(toMain, "clean")
  /\ UNCHANGED <<flags, window, buffer, requested, prompt, ghosts, spent>>

-----------------------------------------------------------------------------
(* The user and the system.                                                *)

UserCloses ==
  /\ ~closed /\ ~closing
  /\ Spend("close")
  /\ closing' = TRUE
  /\ UNCHANGED <<flags, closed, renderer, toMain, ghosts>>

(* before-quit; the quit may be cancelled before it reaches the window.    *)
UserQuits(reaches) ==
  /\ ~closed /\ ~closing
  /\ Spend("quit")
  /\ quitRequested' = TRUE
  /\ quitTimer' = TRUE
  /\ closing' = reaches
  /\ UNCHANGED <<dirty, asking, allowed, timer, fallbackOpen, acked, allowedTimer, closed, renderer, toMain, ghosts>>

SessionEnding(final) ==
  /\ ~closed
  /\ Spend("ending")
  /\ timer' = FALSE
  /\ asking' = FALSE
  /\ allowed' = TRUE
  /\ ArmAllowedReset(IF final THEN "none" ELSE "long")
  /\ ending' = TRUE
  /\ UNCHANGED <<dirty, quitRequested, fallbackOpen, acked, quitTimer, window, renderer, toMain, settled, late>>

-----------------------------------------------------------------------------
Init ==
  /\ dirty = FALSE /\ asking = FALSE /\ allowed = FALSE /\ quitRequested = FALSE
  /\ timer = FALSE /\ fallbackOpen = FALSE /\ acked = FALSE /\ quitTimer = FALSE
  /\ allowedTimer = "none"
  /\ closing = FALSE /\ closed = FALSE
  /\ buffer = FALSE /\ state = "loading" /\ requested = 0 /\ prompt = FALSE
  /\ toMain = <<>>
  /\ settled = FALSE /\ late = FALSE /\ ending = FALSE
  /\ spent \in Budgets

Next ==
  \/ CloseEventPasses \/ CloseEventVetoed \/ CloseEventAsks \/ CloseEventAgain
  \/ AckTimeout \/ RendererUnresponsive
  \/ \E yes \in BOOLEAN : NativeAnswer(yes)
  \/ AllowedReset \/ QuitExpires
  \/ Receive
  \/ \E d \in BOOLEAN : Edit(d)
  \/ OnCloseRequested
  \/ \E answer \in {"save", "discard", "cancel"} : AnswerPrompt(answer)
  \/ Hang \/ Recover \/ RendererGone \/ Loaded
  \/ UserCloses \/ \E reaches \in BOOLEAN : UserQuits(reaches)
  \/ \E final \in BOOLEAN : SessionEnding(final)

Spec == Init /\ [][Next]_vars

-----------------------------------------------------------------------------
FlagsOK ==
  /\ dirty \in BOOLEAN /\ asking \in BOOLEAN /\ allowed \in BOOLEAN /\ quitRequested \in BOOLEAN
  /\ timer \in BOOLEAN /\ fallbackOpen \in BOOLEAN /\ acked \in BOOLEAN /\ quitTimer \in BOOLEAN
  /\ closing \in BOOLEAN /\ closed \in BOOLEAN /\ buffer \in BOOLEAN /\ prompt \in BOOLEAN
  /\ settled \in BOOLEAN /\ late \in BOOLEAN /\ ending \in BOOLEAN
DataOK ==
  /\ allowedTimer \in {"none", "short", "long"}
  /\ state \in {"loading", "up", "hung"}
  /\ requested \in Nat
  /\ toMain \in Seq(Message)
  /\ spent \in [Step -> Nat]

(* Types; and the hang timer runs only while a request is open.            *)
TypeOK == FlagsOK /\ DataOK /\ (timer => asking)

(* While a request is open the user has, or will be given, a way to answer *)
(* it: the timer that offers the native box, the box itself, or an         *)
(* acknowledged renderer whose prompt is up or whose answer is on its way. *)
(* "A hung renderer must never make the app unclosable" (closeGuard.ts:    *)
(* 93-94).                                                                 *)
AnswerComes ==
  asking => timer \/ fallbackOpen \/ (acked /\ (prompt \/ Sent({"allow", "cancel"})))

(* The window goes away over unsaved text only once the user has let it go *)
(* in the prompt or the native box, or the session ends; except in the time*)
(* a change of the dirty state needs to reach the main process, and in the *)
(* seconds a close once allowed stays allowed (closeGuard.ts:77-91).       *)
NeverClosesSilently ==
  [][closed' /\ ~closed /\ buffer => settled \/ ending \/ late \/ Sent({"dirty"})]_vars
================================================================================
