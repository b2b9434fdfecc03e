--------------------------- MODULE CloseGuard_proofs ---------------------------
(***************************************************************************)
(* CloseGuard for every number of steps, checked by TLAPS: its types, that *)
(* an open request can be answered, and that the window never goes away    *)
(* over text the user has not let go.                                      *)
(*                                                                         *)
(* The three speak of the two processes; what ties them is in the messages *)
(* between.  Acknowledged: an acknowledgement is followed by an answer.    *)
(* Mirrored: the main process knows, or is being told, that the buffer is  *)
(* dirty.  LetGoKept: where a close is allowed the user allowed it.        *)
(***************************************************************************)
EXTENDS CloseGuard, TLAPS

(* Behind an acknowledgement comes the answer, unless the prompt is up.    *)
Acknowledged ==
  \A i \in DOMAIN toMain :
    toMain[i] = "prompting" => \/ prompt
                               \/ \E j \in DOMAIN toMain : j > i /\ toMain[j] \in {"allow", "cancel"}

Mirrored ==
  /\ buffer /\ ~closed => dirty \/ \E i \in DOMAIN toMain : toMain[i] = "dirty"
  /\ \A i \in DOMAIN toMain :
       toMain[i] = "clean" => ~buffer \/ \E j \in DOMAIN toMain : j > i /\ toMain[j] = "dirty"
  /\ state = "loading" => ~buffer

LetGoKept ==
  /\ allowed => allowedTimer # "none" \/ ending
  /\ allowed /\ buffer => settled \/ ending \/ late
  /\ buffer => settled \/ late \/ \A i \in DOMAIN toMain : toMain[i] # "allow"

IInv == TypeOK /\ AnswerComes /\ Acknowledged /\ Mirrored /\ LetGoKept

-----------------------------------------------------------------------------
(* Taking a message off its channel, and putting one on.                   *)
LEMMA TailFacts ==
  ASSUME NEW s \in Seq(Message), s # <<>>
  PROVE  /\ Tail(s) \in Seq(Message)
         /\ DOMAIN s = 1..Len(s) /\ Len(s) \in Nat \ {0}
         /\ DOMAIN Tail(s) = 1..(Len(s) - 1)
         /\ \A i \in 1..(Len(s) - 1) : Tail(s)[i] = s[i + 1]
         /\ Head(s) = s[1] /\ Head(s) \in Message
  OBVIOUS

LEMMA AppendFacts ==
  ASSUME NEW s \in Seq(Message), NEW m \in Message
  PROVE  /\ Append(s, m) \in Seq(Message)
         /\ DOMAIN s = 1..Len(s) /\ Len(s) \in Nat
         /\ DOMAIN Append(s, m) = 1..(Len(s) + 1)
         /\ \A i \in 1..Len(s) : Append(s, m)[i] = s[i]
         /\ Append(s, m)[Len(s) + 1] = m
  OBVIOUS

LEMMA SpendTyped ==
  ASSUME spent \in [Step -> Nat], NEW k \in Step, Spend(k)
  PROVE  spent' \in [Step -> Nat]
BY DEF Spend

(* The initial state.                                                      *)
LEMMA InitIInv == Init => IInv
<1> SUFFICES ASSUME Init PROVE IInv
  OBVIOUS
<1>1. FlagsOK /\ (timer => asking)
  BY Zenon DEF Init, FlagsOK
<1>2. DataOK
  BY CloseGuardAssumption DEF Init, DataOK, Message
<1>3. AnswerComes
  BY Zenon DEF Init, AnswerComes
<1>4. Acknowledged /\ Mirrored /\ LetGoKept
  BY DEF Init, Acknowledged, Mirrored, LetGoKept
<1> QED
  BY <1>1, <1>2, <1>3, <1>4 DEF IInv, TypeOK

-----------------------------------------------------------------------------
(* The flags.                                                              *)
LEMMA FlagsKept ==
  ASSUME FlagsOK, timer => asking, [Next]_vars
  PROVE  FlagsOK' /\ (timer => asking)'
<1> USE DEF FlagsOK, flags, window, renderer, ghosts
<1>0. CASE UNCHANGED vars
  BY ZenonT(120), <1>0 DEF vars
<1>1. CASE CloseEventPasses
  BY Zenon, <1>1 DEF CloseEventPasses
<1>2. CASE CloseEventVetoed
  BY ZenonT(60), <1>2 DEF CloseEventVetoed
<1>3. CASE CloseEventAsks
  BY Zenon, <1>3 DEF CloseEventAsks, Armed
<1>4. CASE CloseEventAgain
  BY Zenon, <1>4 DEF CloseEventAgain
<1>5. CASE AckTimeout
  BY ZenonT(60), <1>5 DEF AckTimeout
<1>6. CASE RendererUnresponsive
  BY ZenonT(60), <1>6 DEF RendererUnresponsive
<1>7. ASSUME NEW yes \in BOOLEAN, NativeAnswer(yes) PROVE FlagsOK' /\ (timer => asking)'
  <2>1. fallbackOpen' \in BOOLEAN /\ settled' \in BOOLEAN /\ UNCHANGED <<dirty, acked, quitTimer, closed, buffer, prompt, late, ending>>
    BY Zenon, <1>7 DEF NativeAnswer
  <2>2. /\ timer' \in BOOLEAN /\ asking' \in BOOLEAN /\ allowed' \in BOOLEAN /\ quitRequested' \in BOOLEAN
        /\ closing' \in BOOLEAN
    BY Zenon, <1>7 DEF NativeAnswer, Finish, GiveUp
  <2>3. timer' => timer /\ asking' = asking
    BY Zenon, <1>7 DEF NativeAnswer, Finish, GiveUp
  <2> QED
    BY Zenon, <2>1, <2>2, <2>3
<1>8. CASE AllowedReset
  BY ZenonT(60), <1>8 DEF AllowedReset
<1>9. CASE QuitExpires
  BY ZenonT(60), <1>9 DEF QuitExpires
<1>10. CASE Receive
  <2>1. UNCHANGED <<fallbackOpen, quitTimer, closed, buffer, prompt, settled, late, ending>>
    BY Zenon, <1>10 DEF Receive
  <2>2. /\ timer' \in BOOLEAN /\ asking' \in BOOLEAN /\ allowed' \in BOOLEAN
        /\ quitRequested' \in BOOLEAN /\ acked' \in BOOLEAN /\ closing' \in BOOLEAN
        /\ dirty' \in BOOLEAN
    <3>1. CASE SetDirty
      BY Zenon, <3>1 DEF SetDirty
    <3>2. CASE OnReply
      BY Zenon, <3>2 DEF OnReply, Finish, GiveUp
    <3> QED
      BY Zenon, <1>10, <3>1, <3>2 DEF Receive
  <2>3. timer' => timer /\ asking' = asking
    BY Zenon, <1>10 DEF Receive, SetDirty, OnReply, Finish, GiveUp
  <2> QED
    BY Zenon, <2>1, <2>2, <2>3
<1>11. ASSUME NEW d \in BOOLEAN, Edit(d) PROVE FlagsOK' /\ (timer => asking)'
  BY Zenon, <1>11 DEF Edit, LetGo
<1>12. CASE OnCloseRequested
  BY ZenonT(60), <1>12 DEF OnCloseRequested
<1>13. ASSUME NEW answer \in {"save", "discard", "cancel"}, AnswerPrompt(answer) PROVE FlagsOK' /\ (timer => asking)'
  BY Zenon, <1>13 DEF AnswerPrompt, LetGo
<1>14. CASE Hang
  BY ZenonT(60), <1>14 DEF Hang
<1>15. CASE Recover
  BY ZenonT(120), <1>15 DEF Recover
<1>16. CASE RendererGone
  BY Zenon, <1>16 DEF RendererGone, GiveUp
<1>17. CASE Loaded
  BY ZenonT(60), <1>17 DEF Loaded
<1>18. CASE UserCloses
  BY ZenonT(60), <1>18 DEF UserCloses
<1>19. ASSUME NEW reaches \in BOOLEAN, UserQuits(reaches) PROVE FlagsOK' /\ (timer => asking)'
  BY Zenon, <1>19 DEF UserQuits
<1>20. ASSUME NEW final \in BOOLEAN, SessionEnding(final) PROVE FlagsOK' /\ (timer => asking)'
  BY Zenon, <1>20 DEF SessionEnding
<1> QED
  BY <1>0, <1>1, <1>2, <1>3, <1>4, <1>5, <1>6, <1>7, <1>8, <1>9, <1>10, <1>11, <1>12, <1>13, <1>14, <1>15, <1>16, <1>17, <1>18, <1>19, <1>20 DEF Next

(* The channels, the timers' kinds and the budgets.                        *)
LEMMA DataKept ==
  ASSUME DataOK, [Next]_vars
  PROVE  DataOK'
<1> USE DEF DataOK, flags, window, renderer, ghosts
<1>0. CASE UNCHANGED vars
  BY <1>0 DEF vars
<1>1. CASE CloseEventPasses
  BY <1>1 DEF CloseEventPasses
<1>2. CASE CloseEventVetoed
  BY SpendTyped, <1>2 DEF CloseEventVetoed, Step
<1>3. CASE CloseEventAsks
  BY <1>3 DEF CloseEventAsks, Armed
<1>4. CASE CloseEventAgain
  BY <1>4 DEF CloseEventAgain
<1>5. CASE AckTimeout
  BY <1>5 DEF AckTimeout
<1>6. CASE RendererUnresponsive
  BY <1>6 DEF RendererUnresponsive
<1>7. ASSUME NEW yes \in BOOLEAN, NativeAnswer(yes) PROVE DataOK'
  BY <1>7 DEF NativeAnswer, Finish, GiveUp, ArmAllowedReset
<1>8. CASE AllowedReset
  BY <1>8 DEF AllowedReset
<1>9. CASE QuitExpires
  BY <1>9 DEF QuitExpires
<1>10. CASE Receive
  BY TailFacts, <1>10 DEF Receive, SetDirty, OnReply, Finish, GiveUp, ArmAllowedReset
<1>11. ASSUME NEW d \in BOOLEAN, Edit(d) PROVE DataOK'
  BY AppendFacts, SpendTyped, <1>11 DEF Edit, Message, Step
<1>12. CASE OnCloseRequested
  <2>1. Append(toMain, "prompting") \in Seq(Message)
    BY AppendFacts DEF Message
  <2>2. Append(Append(toMain, "prompting"), "allow") \in Seq(Message)
    BY <2>1, AppendFacts DEF Message
  <2> QED
    BY SMTT(30), <2>1, <2>2, <1>12 DEF OnCloseRequested
<1>13. ASSUME NEW answer \in {"save", "discard", "cancel"}, AnswerPrompt(answer) PROVE DataOK'
  BY AppendFacts, <1>13 DEF AnswerPrompt, Message
<1>14. CASE Hang
  BY SpendTyped, <1>14 DEF Hang, Step
<1>15. CASE Recover
  BY <1>15 DEF Recover
<1>16. CASE RendererGone
  BY SpendTyped, <1>16 DEF RendererGone, GiveUp, Step
<1>17. CASE Loaded
  BY AppendFacts, <1>17 DEF Loaded, Message
<1>18. CASE UserCloses
  BY SpendTyped, <1>18 DEF UserCloses, Step
<1>19. ASSUME NEW reaches \in BOOLEAN, UserQuits(reaches) PROVE DataOK'
  BY SpendTyped, <1>19 DEF UserQuits, Step
<1>20. ASSUME NEW final \in BOOLEAN, SessionEnding(final) PROVE DataOK'
  BY SpendTyped, <1>20 DEF SessionEnding, Step, ArmAllowedReset
<1> QED
  BY <1>0, <1>1, <1>2, <1>3, <1>4, <1>5, <1>6, <1>7, <1>8, <1>9, <1>10, <1>11, <1>12, <1>13, <1>14, <1>15, <1>16, <1>17, <1>18, <1>19, <1>20 DEF Next

LEMMA TypesKept ==
  ASSUME TypeOK, [Next]_vars
  PROVE  TypeOK'
BY FlagsKept, DataKept DEF TypeOK

-----------------------------------------------------------------------------
(* Which steps touch the channel and the prompt.                           *)
Quiet == \/ CloseEventPasses \/ CloseEventVetoed \/ CloseEventAsks \/ CloseEventAgain
         \/ AckTimeout \/ RendererUnresponsive \/ \E yes \in BOOLEAN : NativeAnswer(yes)
         \/ AllowedReset \/ QuitExpires \/ Hang \/ Recover \/ UserCloses
         \/ \E reaches \in BOOLEAN : UserQuits(reaches)
         \/ \E final \in BOOLEAN : SessionEnding(final)
         \/ UNCHANGED vars

Talk == \/ Receive \/ \E d \in BOOLEAN : Edit(d) \/ OnCloseRequested
        \/ \E answer \in {"save", "discard", "cancel"} : AnswerPrompt(answer)
        \/ RendererGone \/ Loaded

LEMMA QuietOrTalk == [Next]_vars => Quiet \/ Talk
BY Zenon DEF Next, Quiet, Talk

LEMMA QuietKeeps == Quiet => UNCHANGED <<toMain, prompt, buffer>>
<1> SUFFICES ASSUME Quiet PROVE UNCHANGED <<toMain, prompt, buffer>>
  OBVIOUS
<1> USE DEF flags, window, renderer, ghosts
<1>1. CASE CloseEventPasses
  BY Zenon, <1>1 DEF CloseEventPasses
<1>2. CASE CloseEventVetoed
  BY Zenon, <1>2 DEF CloseEventVetoed
<1>3. CASE CloseEventAsks
  BY Zenon, <1>3 DEF CloseEventAsks
<1>4. CASE CloseEventAgain
  BY Zenon, <1>4 DEF CloseEventAgain
<1>5. CASE AckTimeout
  BY Zenon, <1>5 DEF AckTimeout
<1>6. CASE RendererUnresponsive
  BY Zenon, <1>6 DEF RendererUnresponsive
<1>7. CASE \E yes \in BOOLEAN : NativeAnswer(yes)
  BY Zenon, <1>7 DEF NativeAnswer
<1>8. CASE AllowedReset
  BY Zenon, <1>8 DEF AllowedReset
<1>9. CASE QuitExpires
  BY Zenon, <1>9 DEF QuitExpires
<1>10. CASE Hang
  BY Zenon, <1>10 DEF Hang
<1>11. CASE Recover
  BY Zenon, <1>11 DEF Recover
<1>12. CASE UserCloses
  BY Zenon, <1>12 DEF UserCloses
<1>13. CASE \E reaches \in BOOLEAN : UserQuits(reaches)
  BY Zenon, <1>13 DEF UserQuits
<1>14. CASE \E final \in BOOLEAN : SessionEnding(final)
  BY Zenon, <1>14 DEF SessionEnding
<1>15. CASE UNCHANGED vars
  BY Zenon, <1>15 DEF vars
<1> QED
  BY Zenon, <1>1, <1>2, <1>3, <1>4, <1>5, <1>6, <1>7, <1>8, <1>9, <1>10, <1>11, <1>12, <1>13, <1>14, <1>15 DEF Quiet

(* What ends with an answer is answered.                                   *)
LEMMA AnswerLast ==
  ASSUME NEW s \in Seq(Message), NEW m \in {"allow", "cancel"}, toMain' = Append(s, m)
  PROVE  Acknowledged' /\ Sent({"allow", "cancel"})'
<1>0. m \in Message /\ m # "prompting"
  BY DEF Message
<1>1. /\ Len(s) \in Nat /\ DOMAIN toMain' = 1..(Len(s) + 1)
      /\ toMain'[Len(s) + 1] = m
  BY <1>0, AppendFacts
<1>2. Acknowledged'
  <2> SUFFICES ASSUME NEW i \in DOMAIN toMain', toMain'[i] = "prompting"
               PROVE  \E j \in DOMAIN toMain' : j > i /\ toMain'[j] \in {"allow", "cancel"}
    BY Zenon DEF Acknowledged
  <2> QED
    BY <1>0, <1>1
<1>3. Sent({"allow", "cancel"})'
  BY <1>1 DEF Sent
<1> QED
  BY <1>2, <1>3

(* An acknowledgement is followed by its answer: the answer is sent behind *)
(* it, and the channel keeps the order.                                    *)
LEMMA AcknowledgedKept ==
  ASSUME TypeOK, Acknowledged, [Next]_vars
  PROVE  Acknowledged'
<1>0. toMain \in Seq(Message)
  BY DEF TypeOK, DataOK
<1>1. CASE Quiet
  BY QuietKeeps, <1>1 DEF Acknowledged
<1>2. CASE Receive
  <2>1. toMain # <<>> /\ toMain' = Tail(toMain) /\ prompt' = prompt
    BY Zenon, <1>2 DEF Receive, renderer
  <2> QED
    <3> SUFFICES ASSUME NEW i \in DOMAIN toMain', toMain'[i] = "prompting", ~prompt
                 PROVE  \E j \in DOMAIN toMain' : j > i /\ toMain'[j] \in {"allow", "cancel"}
      BY Zenon, <2>1 DEF Acknowledged
    <3>1. i \in Nat /\ i + 1 \in DOMAIN toMain /\ toMain[i + 1] = "prompting"
      BY <1>0, <2>1, TailFacts
    <3>2. PICK j \in DOMAIN toMain : j > i + 1 /\ toMain[j] \in {"allow", "cancel"}
      BY Zenon, <3>1 DEF Acknowledged
    <3>3. j \in Nat /\ j - 1 \in DOMAIN toMain' /\ toMain'[j - 1] = toMain[j] /\ j - 1 > i
      BY <1>0, <2>1, <3>1, <3>2, TailFacts
    <3> QED
      BY <3>2, <3>3
<1>3. ASSUME NEW d \in BOOLEAN, Edit(d) PROVE Acknowledged'
  <2>1. ~prompt /\ prompt' = prompt
    BY Zenon, <1>3 DEF Edit
  <2>2. \/ toMain' = toMain
        \/ \E m \in {"dirty", "clean"} : toMain' = Append(toMain, m)
    BY Zenon, <1>3 DEF Edit
  <2>3. CASE toMain' = toMain
    BY Zenon, <2>1, <2>3 DEF Acknowledged
  <2>4. ASSUME NEW m \in {"dirty", "clean"}, toMain' = Append(toMain, m) PROVE Acknowledged'
    <3> SUFFICES ASSUME NEW i \in DOMAIN toMain', toMain'[i] = "prompting"
                 PROVE  \E j \in DOMAIN toMain' : j > i /\ toMain'[j] \in {"allow", "cancel"}
      BY Zenon DEF Acknowledged
    <3>0. m \in Message /\ m # "prompting"
      BY DEF Message
    <3>1. i \in DOMAIN toMain /\ toMain[i] = "prompting"
      BY <1>0, <2>4, <3>0, AppendFacts
    <3>2. PICK j \in DOMAIN toMain : j > i /\ toMain[j] \in {"allow", "cancel"}
      BY Zenon, <2>1, <3>1 DEF Acknowledged
    <3> QED
      BY <1>0, <2>4, <3>0, <3>2, AppendFacts
  <2> QED
    BY Zenon, <2>2, <2>3, <2>4
<1>4. CASE OnCloseRequested
  <2>1. CASE prompt \/ buffer
    <3>1. prompt'
      BY Zenon, <1>4, <2>1 DEF OnCloseRequested
    <3> QED
      BY Zenon, <3>1 DEF Acknowledged
  <2>2. CASE ~(prompt \/ buffer)
    <3>1. toMain' = Append(Append(toMain, "prompting"), "allow")
      BY Zenon, <1>4, <2>2 DEF OnCloseRequested
    <3>2. Append(toMain, "prompting") \in Seq(Message)
      BY <1>0, AppendFacts DEF Message
    <3> QED
      BY <3>1, <3>2, AnswerLast
  <2> QED
    BY Zenon, <2>1, <2>2
<1>5. ASSUME NEW answer \in {"save", "discard", "cancel"}, AnswerPrompt(answer) PROVE Acknowledged'
  <2>1. \E s \in Seq(Message), m \in {"allow", "cancel"} : toMain' = Append(s, m)
    BY <1>0, <1>5, AppendFacts DEF AnswerPrompt, Message
  <2> QED
    BY <2>1, AnswerLast
<1>6. CASE RendererGone
  BY <1>6 DEF RendererGone, Acknowledged
<1>7. CASE Loaded
  <2>1. toMain' = Append(toMain, "clean") /\ prompt' = prompt
    BY Zenon, <1>7 DEF Loaded
  <2> QED
    <3> SUFFICES ASSUME NEW i \in DOMAIN toMain', toMain'[i] = "prompting", ~prompt
                 PROVE  \E j \in DOMAIN toMain' : j > i /\ toMain'[j] \in {"allow", "cancel"}
      BY Zenon, <2>1 DEF Acknowledged
    <3>0. "clean" \in Message
      BY DEF Message
    <3>1. i \in DOMAIN toMain /\ toMain[i] = "prompting"
      BY <1>0, <2>1, <3>0, AppendFacts
    <3>2. PICK j \in DOMAIN toMain : j > i /\ toMain[j] \in {"allow", "cancel"}
      BY Zenon, <3>1 DEF Acknowledged
    <3> QED
      BY <1>0, <2>1, <3>0, <3>2, AppendFacts
<1> QED
  BY Zenon, QuietOrTalk, <1>1, <1>2, <1>3, <1>4, <1>5, <1>6, <1>7 DEF Talk

-----------------------------------------------------------------------------
(* The mirror: a change of the dirty state is sent behind every earlier    *)
(* one, so that a buffer that is dirty is known to be, or about to be.     *)
(* Only its three conjuncts' variables matter.                             *)
LEMMA MirrorSent ==
  ASSUME toMain \in Seq(Message), NEW m \in {"prompting", "allow", "cancel", "dirty"},
         toMain' = Append(toMain, m), dirty' = dirty, closed' = closed,
         buffer' => buffer \/ m = "dirty", Mirrored, state' # "loading"
  PROVE  Mirrored'
<1>0. m \in Message /\ m # "clean"
  BY DEF Message
<1>1. /\ Len(toMain) \in Nat
      /\ DOMAIN toMain = 1..Len(toMain)
      /\ DOMAIN toMain' = 1..(Len(toMain) + 1)
      /\ \A i \in DOMAIN toMain : i \in DOMAIN toMain' /\ toMain'[i] = toMain[i]
      /\ Len(toMain) + 1 \in DOMAIN toMain'
      /\ toMain'[Len(toMain) + 1] = m
  BY <1>0, AppendFacts
<1>2. (buffer /\ ~closed => dirty \/ \E i \in DOMAIN toMain : toMain[i] = "dirty")'
  <2>1. CASE m = "dirty"
    BY Zenon, <1>1, <2>1
  <2>2. CASE m # "dirty"
    BY Zenon, <1>1, <2>2 DEF Mirrored
  <2> QED
    BY Zenon, <2>1, <2>2
<1>3. (\A i \in DOMAIN toMain :
         toMain[i] = "clean" => ~buffer \/ \E j \in DOMAIN toMain : j > i /\ toMain[j] = "dirty")'
  <2> SUFFICES ASSUME NEW i \in DOMAIN toMain', toMain'[i] = "clean", buffer'
               PROVE  \E j \in DOMAIN toMain' : j > i /\ toMain'[j] = "dirty"
    BY Zenon
  <2>1. i \in DOMAIN toMain /\ toMain[i] = "clean" /\ i < Len(toMain) + 1
    BY <1>0, <1>1
  <2>2. CASE m = "dirty"
    BY <1>1, <2>1, <2>2
  <2>3. CASE m # "dirty"
    <3>1. PICK j \in DOMAIN toMain : j > i /\ toMain[j] = "dirty"
      BY Zenon, <2>1, <2>3 DEF Mirrored
    <3> QED
      BY <1>1, <3>1
  <2> QED
    BY <2>2, <2>3
<1> QED
  BY Zenon, <1>2, <1>3 DEF Mirrored

(* And a buffer that is clean needs no mirror.                             *)
LEMMA CleanIsMirrored ==
  ASSUME ~buffer'
  PROVE  Mirrored'
BY Zenon DEF Mirrored

(* A quiet step leaves the dirty flag, but for the close that clears it,   *)
(* and loads no page.                                                      *)
LEMMA QuietMirror ==
  ASSUME Quiet
  PROVE  (closed' \/ UNCHANGED <<closed, dirty>>) /\ (state' = "loading" => state = "loading")
<1> USE DEF flags, window, renderer, ghosts
<1>1. CASE CloseEventPasses
  BY Zenon, <1>1 DEF CloseEventPasses
<1>2. CASE CloseEventVetoed
  BY Zenon, <1>2 DEF CloseEventVetoed
<1>3. CASE CloseEventAsks
  BY Zenon, <1>3 DEF CloseEventAsks
<1>4. CASE CloseEventAgain
  BY Zenon, <1>4 DEF CloseEventAgain
<1>5. CASE AckTimeout
  BY Zenon, <1>5 DEF AckTimeout
<1>6. CASE RendererUnresponsive
  BY Zenon, <1>6 DEF RendererUnresponsive
<1>7. CASE \E yes \in BOOLEAN : NativeAnswer(yes)
  BY Zenon, <1>7 DEF NativeAnswer
<1>8. CASE AllowedReset
  BY Zenon, <1>8 DEF AllowedReset
<1>9. CASE QuitExpires
  BY Zenon, <1>9 DEF QuitExpires
<1>10. CASE Hang
  <2>1. state' # "loading"
    BY <1>10 DEF Hang
  <2> QED
    BY Zenon, <1>10, <2>1 DEF Hang
<1>11. CASE Recover
  <2>1. state' # "loading"
    BY <1>11 DEF Recover
  <2> QED
    BY Zenon, <1>11, <2>1 DEF Recover
<1>12. CASE UserCloses
  BY Zenon, <1>12 DEF UserCloses
<1>13. CASE \E reaches \in BOOLEAN : UserQuits(reaches)
  BY Zenon, <1>13 DEF UserQuits
<1>14. CASE \E final \in BOOLEAN : SessionEnding(final)
  BY Zenon, <1>14 DEF SessionEnding
<1>15. CASE UNCHANGED vars
  BY Zenon, <1>15 DEF vars
<1> QED
  BY Zenon, <1>1, <1>2, <1>3, <1>4, <1>5, <1>6, <1>7, <1>8, <1>9, <1>10, <1>11, <1>12, <1>13, <1>14, <1>15 DEF Quiet

LEMMA MirroredKept ==
  ASSUME TypeOK, Mirrored, [Next]_vars
  PROVE  Mirrored'
<1>0. toMain \in Seq(Message)
  BY DEF TypeOK, DataOK
<1> USE DEF flags, window, renderer, ghosts
<1>1. CASE Quiet
  <2>1. UNCHANGED <<toMain, buffer>> /\ (closed' \/ UNCHANGED <<closed, dirty>>)
        /\ (state' = "loading" => state = "loading")
    BY QuietMirror, QuietKeeps, <1>1
  <2>2. (state = "loading" => ~buffer)'
    BY Zenon, <2>1 DEF Mirrored
  <2>3. (\A i \in DOMAIN toMain :
           toMain[i] = "clean" => ~buffer \/ \E j \in DOMAIN toMain : j > i /\ toMain[j] = "dirty")'
    BY Zenon, <2>1 DEF Mirrored
  <2>4. (buffer /\ ~closed => dirty \/ \E i \in DOMAIN toMain : toMain[i] = "dirty")'
    <3>1. CASE closed'
      BY Zenon, <3>1
    <3>2. CASE UNCHANGED <<closed, dirty>>
      BY Zenon, <2>1, <3>2 DEF Mirrored
    <3> QED
      BY Zenon, <2>1, <3>1, <3>2
  <2> QED
    BY Zenon, <2>2, <2>3, <2>4 DEF Mirrored
<1>2. CASE Receive
  <2>1. toMain # <<>> /\ toMain' = Tail(toMain) /\ UNCHANGED <<buffer, state, closed>>
    BY Zenon, <1>2 DEF Receive
  <2>2. /\ Len(toMain) \in Nat \ {0}
        /\ DOMAIN toMain = 1..Len(toMain)
        /\ DOMAIN toMain' = 1..(Len(toMain) - 1)
        /\ \A i \in DOMAIN toMain' : i + 1 \in DOMAIN toMain /\ toMain'[i] = toMain[i + 1]
        /\ Head(toMain) = toMain[1]
    BY <1>0, <2>1, TailFacts
  <2>3. (\A i \in DOMAIN toMain :
           toMain[i] = "clean" => ~buffer \/ \E j \in DOMAIN toMain : j > i /\ toMain[j] = "dirty")'
    <3> SUFFICES ASSUME NEW i \in DOMAIN toMain', toMain'[i] = "clean", buffer
                 PROVE  \E j \in DOMAIN toMain' : j > i /\ toMain'[j] = "dirty"
      BY Zenon, <2>1
    <3>1. PICK j \in DOMAIN toMain : j > i + 1 /\ toMain[j] = "dirty"
      BY Zenon, <2>2 DEF Mirrored
    <3>2. j - 1 \in DOMAIN toMain' /\ j - 1 > i /\ toMain'[j - 1] = "dirty"
      BY <2>2, <3>1
    <3> QED
      BY <3>2
  <2>4. (buffer /\ ~closed => dirty \/ \E i \in DOMAIN toMain : toMain[i] = "dirty")'
    <3> SUFFICES ASSUME buffer, ~closed, ~dirty'
                 PROVE  \E i \in DOMAIN toMain' : toMain'[i] = "dirty"
      BY Zenon, <2>1
    <3>1. \E j \in DOMAIN toMain : j > 1 /\ toMain[j] = "dirty"
      <4>1. CASE toMain[1] = "clean"
        <5>1. 1 \in DOMAIN toMain
          BY <2>2
        <5> QED
          BY Zenon, <4>1, <5>1 DEF Mirrored
      <4>2. CASE toMain[1] = "dirty"
        BY Zenon, <1>2, <2>2, <4>2 DEF Receive, SetDirty, OnReply
      <4>3. CASE toMain[1] \notin {"clean", "dirty"}
        <5>1. ~dirty
          BY Zenon, <1>2, <2>2, <4>3 DEF Receive, SetDirty, OnReply
        <5>2. PICK j \in DOMAIN toMain : toMain[j] = "dirty"
          BY Zenon, <5>1 DEF Mirrored
        <5> QED
          BY <2>2, <4>3, <5>2
      <4> QED
        BY Zenon, <4>1, <4>2, <4>3
    <3>2. PICK j \in DOMAIN toMain : j > 1 /\ toMain[j] = "dirty"
      BY <3>1
    <3>3. j - 1 \in DOMAIN toMain' /\ toMain'[j - 1] = "dirty"
      BY <2>2, <3>2
    <3> QED
      BY <3>3
  <2> QED
    BY Zenon, <2>1, <2>3, <2>4 DEF Mirrored
<1>3. ASSUME NEW d \in BOOLEAN, Edit(d) PROVE Mirrored'
  <2>0. /\ buffer' = d /\ state' # "loading" /\ UNCHANGED <<dirty, closed>>
        /\ toMain' = IF d = buffer THEN toMain ELSE Append(toMain, IF d THEN "dirty" ELSE "clean")
    <3>1. state = "up" /\ "up" # "loading"
      BY <1>3 DEF Edit
    <3> QED
      BY Zenon, <1>3, <3>1 DEF Edit
  <2>1. CASE ~d
    BY Zenon, <2>0, <2>1, CleanIsMirrored
  <2>2. CASE d /\ buffer
    <3>1. d = buffer
      BY Zenon, <2>2 DEF TypeOK, FlagsOK
    <3> QED
      BY Zenon, <2>0, <2>2, <3>1 DEF Mirrored
  <2>3. CASE d /\ ~buffer
    <3>1. toMain' = Append(toMain, "dirty")
      BY Zenon, <2>0, <2>3
    <3> QED
      BY Zenon, <1>0, <2>0, <3>1, MirrorSent
  <2> QED
    BY Zenon, <2>1, <2>2, <2>3
<1>4. CASE OnCloseRequested
  <2>0. UNCHANGED <<buffer, state, dirty, closed>> /\ state' # "loading"
    <3>1. state = "up" /\ "up" # "loading"
      BY <1>4 DEF OnCloseRequested
    <3> QED
      BY Zenon, <1>4, <3>1 DEF OnCloseRequested
  <2>1. CASE buffer \/ prompt
    <3>1. toMain' = Append(toMain, "prompting")
      BY Zenon, <1>4, <2>1 DEF OnCloseRequested
    <3> QED
      BY Zenon, <1>0, <2>0, <3>1, MirrorSent
  <2>2. CASE ~buffer
    BY Zenon, <2>0, <2>2, CleanIsMirrored
  <2> QED
    BY Zenon, <2>1, <2>2
<1>5. ASSUME NEW answer \in {"save", "discard", "cancel"}, AnswerPrompt(answer) PROVE Mirrored'
  <2>0. UNCHANGED <<state, dirty, closed>> /\ state' # "loading" /\ buffer' = (buffer /\ answer # "save")
    <3>1. state = "up" /\ "up" # "loading"
      BY <1>5 DEF AnswerPrompt
    <3> QED
      BY Zenon, <1>5, <3>1 DEF AnswerPrompt
  <2>1. CASE answer = "save"
    <3>1. ~buffer'
      BY Zenon, <2>0, <2>1
    <3> QED
      BY Zenon, <3>1, CleanIsMirrored
  <2>2. CASE answer # "save"
    <3>1. \E m \in {"prompting", "allow", "cancel", "dirty"} : toMain' = Append(toMain, m)
      BY <1>5, <2>2 DEF AnswerPrompt
    <3> QED
      BY Zenon, <1>0, <2>0, <3>1, MirrorSent
  <2> QED
    BY Zenon, <2>1, <2>2
<1>6. CASE RendererGone
  BY Zenon, <1>6, CleanIsMirrored DEF RendererGone
<1>7. CASE Loaded
  <2>1. ~buffer'
    BY Zenon, <1>7 DEF Loaded, Mirrored
  <2> QED
    BY Zenon, <2>1, CleanIsMirrored
<1> QED
  BY Zenon, QuietOrTalk, <1>1, <1>2, <1>3, <1>4, <1>5, <1>6, <1>7 DEF Talk
-----------------------------------------------------------------------------
(* Consent.                                                                *)

(* What the user does once a close is allowed, or about to be, is late.    *)
LEMMA LateIsLate ==
  ASSUME toMain \in Seq(Message), LetGoKept, UNCHANGED <<allowed, allowedTimer, ending>>, LetGo => late',
         toMain' = toMain \/ \E m \in {"dirty", "clean", "cancel"} : toMain' = Append(toMain, m)
  PROVE  LetGoKept'
<1>1. \A i \in DOMAIN toMain' : toMain'[i] = "allow" => i \in DOMAIN toMain /\ toMain[i] = "allow"
  BY AppendFacts DEF Message
<1>2. late' \/ \A i \in DOMAIN toMain' : toMain'[i] # "allow"
  <2> SUFFICES ASSUME NEW i \in DOMAIN toMain', toMain'[i] = "allow" PROVE late'
    BY Zenon
  <2>1. Sent({"allow"})
    BY Zenon, <1>1 DEF Sent
  <2> QED
    BY Zenon, <2>1 DEF LetGo
<1>3. allowed' => late' \/ ending'
  BY Zenon DEF LetGoKept, LetGo
<1> QED
  BY Zenon, <1>2, <1>3 DEF LetGoKept

(* A quiet step allows a close only where the user answered the native box *)
(* or the session ends.                                                    *)
LEMMA QuietLetsGo ==
  ASSUME Quiet, LetGoKept
  PROVE  LetGoKept'
<1>0. UNCHANGED <<toMain, buffer>>
  BY Zenon, QuietKeeps
<1> USE DEF flags, window, renderer, ghosts
<1>1. CASE CloseEventPasses
  <2>1. ~allowed' /\ UNCHANGED <<settled, late>>
    BY Zenon, <1>1 DEF CloseEventPasses
  <2> QED
    BY Zenon, <1>0, <2>1 DEF LetGoKept
<1>2. CASE CloseEventVetoed
  <2>1. UNCHANGED <<allowed, allowedTimer, ending, settled, late>>
    BY Zenon, <1>2 DEF CloseEventVetoed
  <2> QED
    BY Zenon, <1>0, <2>1 DEF LetGoKept
<1>3. CASE CloseEventAsks
  <2>1. UNCHANGED <<allowed, allowedTimer, ending, settled, late>>
    BY Zenon, <1>3 DEF CloseEventAsks
  <2> QED
    BY Zenon, <1>0, <2>1 DEF LetGoKept
<1>4. CASE CloseEventAgain
  <2>1. UNCHANGED <<allowed, allowedTimer, ending, settled, late>>
    BY Zenon, <1>4 DEF CloseEventAgain
  <2> QED
    BY Zenon, <1>0, <2>1 DEF LetGoKept
<1>5. CASE AckTimeout
  <2>1. UNCHANGED <<allowed, allowedTimer, ending, settled, late>>
    BY Zenon, <1>5 DEF AckTimeout
  <2> QED
    BY Zenon, <1>0, <2>1 DEF LetGoKept
<1>6. CASE RendererUnresponsive
  <2>1. UNCHANGED <<allowed, allowedTimer, ending, settled, late>>
    BY Zenon, <1>6 DEF RendererUnresponsive
  <2> QED
    BY Zenon, <1>0, <2>1 DEF LetGoKept
<1>7. ASSUME NEW yes \in BOOLEAN, NativeAnswer(yes) PROVE LetGoKept'
  <2>1. UNCHANGED <<late, ending>> /\ settled' = (settled \/ (asking /\ yes))
    BY Zenon, <1>7 DEF NativeAnswer
  <2>2. CASE asking /\ yes
    <3>1. allowedTimer' = "short" /\ settled'
      BY Zenon, <1>7, <2>2 DEF NativeAnswer, Finish, ArmAllowedReset
    <3>2. allowedTimer' # "none"
      BY <3>1
    <3> QED
      BY Zenon, <3>1, <3>2 DEF LetGoKept
  <2>3. CASE ~(asking /\ yes)
    <3>1. UNCHANGED <<allowed, allowedTimer>>
      BY Zenon, <1>7, <2>3 DEF NativeAnswer, GiveUp
    <3> QED
      BY Zenon, <1>0, <2>1, <3>1 DEF LetGoKept
  <2> QED
    BY Zenon, <2>2, <2>3
<1>8. CASE AllowedReset
  <2>1. ~allowed' /\ UNCHANGED <<settled, late>>
    BY Zenon, <1>8 DEF AllowedReset
  <2> QED
    BY Zenon, <1>0, <2>1 DEF LetGoKept
<1>9. CASE QuitExpires
  <2>1. UNCHANGED <<allowed, allowedTimer, ending, settled, late>>
    BY Zenon, <1>9 DEF QuitExpires
  <2> QED
    BY Zenon, <1>0, <2>1 DEF LetGoKept
<1>10. CASE Hang
  <2>1. UNCHANGED <<allowed, allowedTimer, ending, settled, late>>
    BY Zenon, <1>10 DEF Hang
  <2> QED
    BY Zenon, <1>0, <2>1 DEF LetGoKept
<1>11. CASE Recover
  <2>1. UNCHANGED <<allowed, allowedTimer, ending, settled, late>>
    BY Zenon, <1>11 DEF Recover
  <2> QED
    BY Zenon, <1>0, <2>1 DEF LetGoKept
<1>12. CASE UserCloses
  <2>1. UNCHANGED <<allowed, allowedTimer, ending, settled, late>>
    BY Zenon, <1>12 DEF UserCloses
  <2> QED
    BY Zenon, <1>0, <2>1 DEF LetGoKept
<1>13. CASE \E reaches \in BOOLEAN : UserQuits(reaches)
  <2>1. UNCHANGED <<allowed, allowedTimer, ending, settled, late>>
    BY Zenon, <1>13 DEF UserQuits
  <2> QED
    BY Zenon, <1>0, <2>1 DEF LetGoKept
<1>14. ASSUME NEW final \in BOOLEAN, SessionEnding(final) PROVE LetGoKept'
  <2>1. ending' /\ UNCHANGED <<settled, late>>
    BY Zenon, <1>14 DEF SessionEnding
  <2> QED
    BY Zenon, <1>0, <2>1 DEF LetGoKept
<1>15. CASE UNCHANGED vars
  <2>1. UNCHANGED <<allowed, allowedTimer, ending, settled, late>>
    BY Zenon, <1>15 DEF vars
  <2> QED
    BY Zenon, <1>0, <2>1 DEF LetGoKept
<1> QED
  BY Zenon, <1>1, <1>2, <1>3, <1>4, <1>5, <1>6, <1>7, <1>8, <1>9, <1>10, <1>11, <1>12, <1>13, <1>14, <1>15 DEF Quiet

(* A close that is allowed, or about to be, has the user's consent behind  *)
(* it, or typing that came too late for it.                                *)
LEMMA LetGoStays ==
  ASSUME TypeOK, LetGoKept, [Next]_vars
  PROVE  LetGoKept'
<1>0. toMain \in Seq(Message)
  BY DEF TypeOK, DataOK
<1> USE DEF flags, window, renderer, ghosts
<1>1. CASE Quiet
  BY Zenon, QuietLetsGo, <1>1
<1>2. CASE Receive
  <2>1. toMain # <<>> /\ toMain' = Tail(toMain) /\ UNCHANGED <<buffer, settled, late, ending>>
    BY Zenon, <1>2 DEF Receive
  <2>2. /\ 1 \in DOMAIN toMain /\ Head(toMain) = toMain[1]
        /\ \A i \in DOMAIN toMain' : i + 1 \in DOMAIN toMain /\ toMain'[i] = toMain[i + 1]
    BY <1>0, <2>1, TailFacts
  <2>3. (buffer => settled \/ late \/ \A i \in DOMAIN toMain : toMain[i] # "allow")'
    BY Zenon, <2>1, <2>2 DEF LetGoKept
  <2>4. CASE UNCHANGED <<allowed, allowedTimer>>
    BY Zenon, <2>1, <2>3, <2>4 DEF LetGoKept
  <2>5. CASE Head(toMain) = "allow" /\ allowedTimer' = "short"
    <3>1. allowedTimer' # "none"
      BY <2>5
    <3>2. buffer => settled \/ late
      BY Zenon, <2>2, <2>5 DEF LetGoKept
    <3> QED
      BY Zenon, <2>1, <2>3, <3>1, <3>2 DEF LetGoKept
  <2> QED
    BY Zenon, <1>2, <2>4, <2>5 DEF Receive, SetDirty, OnReply, Finish, GiveUp, ArmAllowedReset
<1>3. ASSUME NEW d \in BOOLEAN, Edit(d) PROVE LetGoKept'
  <2>1. UNCHANGED <<allowed, allowedTimer, ending>> /\ (LetGo => late')
    BY Zenon, <1>3 DEF Edit
  <2>2. toMain' = toMain \/ \E m \in {"dirty", "clean"} : toMain' = Append(toMain, m)
    BY Zenon, <1>3 DEF Edit
  <2> QED
    BY Zenon, <1>0, <2>1, <2>2, LateIsLate
<1>4. CASE OnCloseRequested
  <2>1. UNCHANGED <<allowed, allowedTimer, ending, settled, late, buffer>>
    BY Zenon, <1>4 DEF OnCloseRequested
  <2>2. CASE ~buffer
    BY Zenon, <2>1, <2>2 DEF LetGoKept
  <2>3. CASE buffer
    <3>1. toMain' = Append(toMain, "prompting")
      BY Zenon, <1>4, <2>3 DEF OnCloseRequested
    <3>2. \A i \in DOMAIN toMain' : toMain'[i] = "allow" => i \in DOMAIN toMain /\ toMain[i] = "allow"
      BY <1>0, <3>1, AppendFacts DEF Message
    <3> QED
      BY Zenon, <2>1, <3>2 DEF LetGoKept
  <2> QED
    BY Zenon, <2>2, <2>3
<1>5. ASSUME NEW answer \in {"save", "discard", "cancel"}, AnswerPrompt(answer) PROVE LetGoKept'
  <2>1. UNCHANGED <<allowed, allowedTimer, ending>>
    BY Zenon, <1>5 DEF AnswerPrompt
  <2>2. CASE answer = "cancel"
    <3>1. LetGo => late'
      BY Zenon, <1>5, <2>2 DEF AnswerPrompt
    <3>2. \E m \in {"dirty", "clean", "cancel"} : toMain' = Append(toMain, m)
      BY <1>5, <2>2 DEF AnswerPrompt
    <3> QED
      BY Zenon, <1>0, <2>1, <3>1, <3>2, LateIsLate
  <2>3. CASE answer # "cancel"
    <3>1. settled'
      BY Zenon, <1>5, <2>3 DEF AnswerPrompt
    <3> QED
      BY Zenon, <2>1, <3>1 DEF LetGoKept
  <2> QED
    BY Zenon, <2>2, <2>3
<1>6. CASE RendererGone
  <2>1. UNCHANGED <<allowed, allowedTimer, ending>> /\ ~buffer'
    BY Zenon, <1>6 DEF RendererGone
  <2> QED
    BY Zenon, <2>1 DEF LetGoKept
<1>7. CASE Loaded
  <2>1. UNCHANGED <<allowed, allowedTimer, ending, settled, late, buffer>>
    BY Zenon, <1>7 DEF Loaded
  <2>2. toMain' = Append(toMain, "clean")
    BY Zenon, <1>7 DEF Loaded
  <2>3. \A i \in DOMAIN toMain' : toMain'[i] = "allow" => i \in DOMAIN toMain /\ toMain[i] = "allow"
    BY <1>0, <2>2, AppendFacts DEF Message
  <2> QED
    BY Zenon, <2>1, <2>3 DEF LetGoKept
<1> QED
  BY Zenon, QuietOrTalk, <1>1, <1>2, <1>3, <1>4, <1>5, <1>6, <1>7 DEF Talk

(* What was sent and is not taken stays sent.                              *)
LEMMA SentStays ==
  ASSUME toMain \in Seq(Message), toMain' = toMain \/ \E m \in Message : toMain' = Append(toMain, m)
  PROVE  Sent({"allow", "cancel"}) => Sent({"allow", "cancel"})'
<1>1. \A i \in DOMAIN toMain : i \in DOMAIN toMain' /\ toMain'[i] = toMain[i]
  BY AppendFacts
<1> QED
  BY Zenon, <1>1 DEF Sent

-----------------------------------------------------------------------------
(* An answer comes.                                                        *)
LEMMA QuietAnswerComes ==
  ASSUME Quiet, AnswerComes
  PROVE  AnswerComes'
<1>0. UNCHANGED <<toMain, prompt>>
  BY Zenon, QuietKeeps
<1> USE DEF flags, window, renderer, ghosts
<1>1. CASE CloseEventPasses
  <2>1. ~asking'
    BY Zenon, <1>1 DEF CloseEventPasses, Armed, Finish, GiveUp
  <2> QED
    BY Zenon, <2>1 DEF AnswerComes
<1>2. CASE CloseEventVetoed
  <2>1. UNCHANGED <<asking, timer, fallbackOpen, acked>>
    BY Zenon, <1>2 DEF CloseEventVetoed
  <2> QED
    BY Zenon, <1>0, <2>1 DEF AnswerComes, Sent
<1>3. CASE CloseEventAsks
  <2>1. timer'
    BY Zenon, <1>3 DEF CloseEventAsks, Armed, Finish, GiveUp
  <2> QED
    BY Zenon, <2>1 DEF AnswerComes
<1>4. CASE CloseEventAgain
  <2>1. fallbackOpen'
    BY Zenon, <1>4 DEF CloseEventAgain, Armed, Finish, GiveUp
  <2> QED
    BY Zenon, <2>1 DEF AnswerComes
<1>5. CASE AckTimeout
  <2>1. fallbackOpen'
    BY Zenon, <1>5 DEF AckTimeout, Armed, Finish, GiveUp
  <2> QED
    BY Zenon, <2>1 DEF AnswerComes
<1>6. CASE RendererUnresponsive
  <2>1. fallbackOpen'
    BY Zenon, <1>6 DEF RendererUnresponsive, Armed, Finish, GiveUp
  <2> QED
    BY Zenon, <2>1 DEF AnswerComes
<1>7. CASE \E yes \in BOOLEAN : NativeAnswer(yes)
  <2>1. ~asking'
    BY Zenon, <1>7 DEF NativeAnswer, Armed, Finish, GiveUp
  <2> QED
    BY Zenon, <2>1 DEF AnswerComes
<1>8. CASE AllowedReset
  <2>1. UNCHANGED <<asking, timer, fallbackOpen, acked>>
    BY Zenon, <1>8 DEF AllowedReset
  <2> QED
    BY Zenon, <1>0, <2>1 DEF AnswerComes, Sent
<1>9. CASE QuitExpires
  <2>1. UNCHANGED <<asking, timer, fallbackOpen, acked>>
    BY Zenon, <1>9 DEF QuitExpires
  <2> QED
    BY Zenon, <1>0, <2>1 DEF AnswerComes, Sent
<1>10. CASE Hang
  <2>1. UNCHANGED <<asking, timer, fallbackOpen, acked>>
    BY Zenon, <1>10 DEF Hang
  <2> QED
    BY Zenon, <1>0, <2>1 DEF AnswerComes, Sent
<1>11. CASE Recover
  <2>1. UNCHANGED <<asking, timer, fallbackOpen, acked>>
    BY Zenon, <1>11 DEF Recover
  <2> QED
    BY Zenon, <1>0, <2>1 DEF AnswerComes, Sent
<1>12. CASE UserCloses
  <2>1. UNCHANGED <<asking, timer, fallbackOpen, acked>>
    BY Zenon, <1>12 DEF UserCloses
  <2> QED
    BY Zenon, <1>0, <2>1 DEF AnswerComes, Sent
<1>13. CASE \E reaches \in BOOLEAN : UserQuits(reaches)
  <2>1. UNCHANGED <<asking, timer, fallbackOpen, acked>>
    BY Zenon, <1>13 DEF UserQuits
  <2> QED
    BY Zenon, <1>0, <2>1 DEF AnswerComes, Sent
<1>14. CASE \E final \in BOOLEAN : SessionEnding(final)
  <2>1. ~asking'
    BY Zenon, <1>14 DEF SessionEnding, Armed, Finish, GiveUp
  <2> QED
    BY Zenon, <2>1 DEF AnswerComes
<1>15. CASE UNCHANGED vars
  <2>1. UNCHANGED <<asking, timer, fallbackOpen, acked>>
    BY Zenon, <1>15 DEF vars
  <2> QED
    BY Zenon, <1>0, <2>1 DEF AnswerComes, Sent
<1> QED
  BY Zenon, <1>1, <1>2, <1>3, <1>4, <1>5, <1>6, <1>7, <1>8, <1>9, <1>10, <1>11, <1>12, <1>13, <1>14, <1>15 DEF Quiet

(* An acknowledgement stops the timer; the answer is behind it.            *)
LEMMA AnswerStillComes ==
  ASSUME TypeOK, AnswerComes, Acknowledged, [Next]_vars
  PROVE  AnswerComes'
<1>0. toMain \in Seq(Message)
  BY DEF TypeOK, DataOK
<1> USE DEF flags, window, renderer, ghosts
<1>1. CASE Quiet
  BY Zenon, QuietAnswerComes, <1>1
<1>2. CASE Receive
  <2>1. toMain # <<>> /\ toMain' = Tail(toMain) /\ UNCHANGED <<prompt, fallbackOpen>>
    BY Zenon, <1>2 DEF Receive
  <2>2. /\ 1 \in DOMAIN toMain /\ Head(toMain) = toMain[1]
        /\ \A j \in DOMAIN toMain : j > 1 => j - 1 \in DOMAIN toMain' /\ toMain'[j - 1] = toMain[j]
        /\ \A j \in DOMAIN toMain : j = 1 \/ j > 1
    BY <1>0, <2>1, TailFacts
  <2>3. CASE ~asking \/ Head(toMain) \in {"allow", "cancel"}
    <3>1. ~asking'
      BY <1>2, <2>3 DEF Receive, SetDirty, OnReply, Finish, GiveUp
    <3> QED
      BY Zenon, <3>1 DEF AnswerComes
  <2>4. CASE Head(toMain) = "prompting" /\ asking
    <3>1. acked'
      BY <1>2, <2>4 DEF Receive, SetDirty, OnReply
    <3>2. prompt \/ \E j \in DOMAIN toMain : j > 1 /\ toMain[j] \in {"allow", "cancel"}
      BY Zenon, <2>2, <2>4 DEF Acknowledged
    <3>3. prompt' \/ Sent({"allow", "cancel"})'
      BY Zenon, <2>1, <2>2, <3>2 DEF Sent
    <3> QED
      BY Zenon, <3>1, <3>3 DEF AnswerComes
  <2>5. CASE Head(toMain) \in {"dirty", "clean"}
    <3>1. UNCHANGED <<asking, timer, acked>>
      BY <1>2, <2>5 DEF Receive, SetDirty, OnReply
    <3>2. Sent({"allow", "cancel"}) => Sent({"allow", "cancel"})'
      BY <2>2, <2>5 DEF Sent
    <3> QED
      BY Zenon, <2>1, <3>1, <3>2 DEF AnswerComes
  <2>6. Head(toMain) \in {"dirty", "clean", "prompting", "allow", "cancel"}
    BY <1>0, <2>1, TailFacts DEF Message
  <2> QED
    BY Zenon, <2>3, <2>4, <2>5, <2>6
<1>3. ASSUME NEW d \in BOOLEAN, Edit(d) PROVE AnswerComes'
  <2>1. UNCHANGED <<asking, timer, fallbackOpen, acked, prompt>>
    BY Zenon, <1>3 DEF Edit
  <2>2. toMain' = toMain \/ \E m \in Message : toMain' = Append(toMain, m)
    BY <1>3 DEF Edit, Message
  <2> QED
    BY Zenon, <1>0, <2>1, <2>2, SentStays DEF AnswerComes
<1>4. CASE OnCloseRequested
  <2>1. UNCHANGED <<asking, timer, fallbackOpen, acked>> /\ (prompt => prompt')
    BY Zenon, <1>4 DEF OnCloseRequested
  <2>2. Sent({"allow", "cancel"}) => Sent({"allow", "cancel"})'
    <3>1. CASE toMain' = Append(toMain, "prompting")
      BY <1>0, <3>1, SentStays DEF Message
    <3>2. CASE toMain' = Append(Append(toMain, "prompting"), "allow")
      <4>1. Append(toMain, "prompting") \in Seq(Message)
        BY <1>0, AppendFacts DEF Message
      <4> QED
        BY <4>1, <3>2, AnswerLast
    <3> QED
      BY Zenon, <1>4, <3>1, <3>2 DEF OnCloseRequested
  <2> QED
    BY Zenon, <2>1, <2>2 DEF AnswerComes
<1>5. ASSUME NEW answer \in {"save", "discard", "cancel"}, AnswerPrompt(answer) PROVE AnswerComes'
  <2>1. UNCHANGED <<asking, timer, fallbackOpen, acked>>
    BY Zenon, <1>5 DEF AnswerPrompt
  <2>2. \E s \in Seq(Message), m \in {"allow", "cancel"} : toMain' = Append(s, m)
    BY <1>0, <1>5, AppendFacts DEF AnswerPrompt, Message
  <2>3. Sent({"allow", "cancel"})'
    BY <2>2, AnswerLast
  <2> QED
    BY Zenon, <2>1, <2>3 DEF AnswerComes
<1>6. CASE RendererGone
  <2>1. ~asking'
    BY Zenon, <1>6 DEF RendererGone, GiveUp
  <2> QED
    BY Zenon, <2>1 DEF AnswerComes
<1>7. CASE Loaded
  <2>1. UNCHANGED <<asking, timer, fallbackOpen, acked, prompt>> /\ toMain' = Append(toMain, "clean")
    BY Zenon, <1>7 DEF Loaded
  <2>2. "clean" \in Message
    BY DEF Message
  <2> QED
    BY Zenon, <1>0, <2>1, <2>2, SentStays DEF AnswerComes
<1> QED
  BY Zenon, QuietOrTalk, <1>1, <1>2, <1>3, <1>4, <1>5, <1>6, <1>7 DEF Talk

-----------------------------------------------------------------------------
(* The invariant, and what it shows.                                       *)
LEMMA StepIInv == IInv /\ [Next]_vars => IInv'
<1> SUFFICES ASSUME IInv, [Next]_vars PROVE IInv'
  OBVIOUS
<1> QED
  BY Zenon, TypesKept, AnswerStillComes, AcknowledgedKept, MirroredKept, LetGoStays DEF IInv

(* Every variable of the guard, the window and the renderer has its type,  *)
(* and the hang timer never outlives the request it watches                *)
(* (closeGuard.ts:52-60, 66-76).                                           *)
THEOREM TypesCorrect == Spec => []TypeOK
<1>1. IInv => TypeOK
  BY DEF IInv
<1> QED
  BY InitIInv, StepIInv, <1>1, PTL DEF Spec

(* However often the user asks to close, types, quits and answers, and     *)
(* whenever the renderer hangs or dies: an open request can be answered.   *)
THEOREM CloseIsAnswerable == Spec => []AnswerComes
<1>1. IInv => AnswerComes
  BY DEF IInv
<1> QED
  BY InitIInv, StepIInv, <1>1, PTL DEF Spec

(* Only the close event closes the window, and it passes where the close   *)
(* is allowed or the buffer is thought clean.                              *)
LEMMA OnlyCloseEventCloses ==
  ASSUME [Next]_vars, closed', ~closed
  PROVE  CloseEventPasses
<1> USE DEF flags, window, renderer, ghosts
<1>1. CASE CloseEventVetoed
  BY Zenon, <1>1 DEF CloseEventVetoed
<1>2. CASE CloseEventAsks
  BY Zenon, <1>2 DEF CloseEventAsks
<1>3. CASE CloseEventAgain
  BY Zenon, <1>3 DEF CloseEventAgain
<1>4. CASE AckTimeout
  BY Zenon, <1>4 DEF AckTimeout
<1>5. CASE RendererUnresponsive
  BY Zenon, <1>5 DEF RendererUnresponsive
<1>6. CASE \E yes \in BOOLEAN : NativeAnswer(yes)
  BY Zenon, <1>6 DEF NativeAnswer
<1>7. CASE AllowedReset
  BY Zenon, <1>7 DEF AllowedReset
<1>8. CASE QuitExpires
  BY Zenon, <1>8 DEF QuitExpires
<1>9. CASE Hang
  BY Zenon, <1>9 DEF Hang
<1>10. CASE Recover
  BY Zenon, <1>10 DEF Recover
<1>11. CASE UserCloses
  BY Zenon, <1>11 DEF UserCloses
<1>12. CASE \E reaches \in BOOLEAN : UserQuits(reaches)
  BY Zenon, <1>12 DEF UserQuits
<1>13. CASE \E final \in BOOLEAN : SessionEnding(final)
  BY Zenon, <1>13 DEF SessionEnding
<1>14. CASE UNCHANGED vars
  BY Zenon, <1>14 DEF vars
<1>15. CASE Receive
  BY Zenon, <1>15 DEF Receive
<1>16. CASE \E d \in BOOLEAN : Edit(d)
  BY Zenon, <1>16 DEF Edit
<1>17. CASE OnCloseRequested
  BY Zenon, <1>17 DEF OnCloseRequested
<1>18. CASE \E answer \in {"save", "discard", "cancel"} : AnswerPrompt(answer)
  BY Zenon, <1>18 DEF AnswerPrompt
<1>19. CASE RendererGone
  BY Zenon, <1>19 DEF RendererGone
<1>20. CASE Loaded
  BY Zenon, <1>20 DEF Loaded
<1> QED
  BY Zenon, QuietOrTalk, <1>1, <1>2, <1>3, <1>4, <1>5, <1>6, <1>7, <1>8, <1>9, <1>10, <1>11, <1>12, <1>13, <1>14, <1>15, <1>16, <1>17, <1>18, <1>19, <1>20 DEF Quiet, Talk

(* Whatever the order of events, the window goes away over unsaved text    *)
(* only by the user's consent, or in the two gaps the property names.      *)
THEOREM ClosesWithConsent == Spec => NeverClosesSilently
<1>1. IInv /\ [Next]_vars =>
        (closed' /\ ~closed /\ buffer => settled \/ ending \/ late \/ Sent({"dirty"}))
  <2> SUFFICES ASSUME IInv, [Next]_vars, closed', ~closed, buffer
               PROVE  settled \/ ending \/ late \/ Sent({"dirty"})
    OBVIOUS
  <2>1. allowed \/ ~dirty
    BY Zenon, OnlyCloseEventCloses DEF CloseEventPasses, Passes
  <2>2. CASE allowed
    BY Zenon, <2>2 DEF IInv, LetGoKept
  <2>3. CASE ~dirty
    <3>1. \E i \in DOMAIN toMain : toMain[i] = "dirty"
      BY Zenon, <2>3 DEF IInv, Mirrored
    <3> QED
      BY <3>1 DEF Sent
  <2> QED
    BY Zenon, <2>1, <2>2, <2>3
<1> QED
  BY InitIInv, StepIInv, <1>1, PTL DEF Spec, NeverClosesSilently
================================================================================
