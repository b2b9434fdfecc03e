-------------------------- MODULE EditSession_proofs --------------------------
(***************************************************************************)
(* EditSession for any contents and any budgets, that is for any number of *)
(* edits, saves, checks, leaves and foreign changes, checked by TLAPS: its *)
(* types with the one delete that a save or a Discard waits for, that an   *)
(* overwrite is asked for, that no check reports on our own write, and that*)
(* the stored draft follows the buffer.                                    *)
(***************************************************************************)
EXTENDS EditSession, FiniteSetTheorems, SequenceTheorems, TLAPS

(* The phases of a save: its text is taken; it may still write.            *)
Begins  == {"called", "loaded", "asking", "written"}
Takes   == Begins \cup {"drafting"}
Target  == IF Dirty /\ (ed.mounted => ~blocked) /\ ~discarded THEN ed.text ELSE "none"
Leaving == leave.mine \/ leave.granted

(* A save under way carries a text, and the hash of the content that text  *)
(* was made from; what it has read is what it expected, unless the user    *)
(* said yes or the file moved since.                                       *)
Flight ==
  /\ save.at \in Takes => save.snap \in Content /\ save.expected \in Content
  /\ save.at \in {"called", "loaded"} => save.expected = save.from
  /\ save.at = "loaded" /\ ~save.moved => disk \in Content /\ (save.force \/ disk = save.expected)
  /\ ed.hash = ed.basis

(* Nobody waits for a write.                                               *)
Heard == \A i \in DOMAIN calls : calls[i].kind = "write" => calls[i].waiter = "self"

(* A check whose content the editor has overwritten began in an epoch that *)
(* is over, or ends with the save under way.                               *)
Checked == \A c \in checks : c.epoch <= epoch /\ (c.undone => c.epoch # epoch \/ Saving)

(* Nothing of the editor goes on once it is gone, but the save in flight   *)
(* and the calls to the store.                                             *)
Ended ==
  ~ed.mounted => ~timer /\ ~due /\ ~probe /\ checks = {} /\ ~leave.asked /\ ~leave.granted

(* The leave prompt: whose Discard it waits for, and what it does to the   *)
(* draft.                                                                  *)
Prompted ==
  /\ leave.mine => leave.asked /\ leave.discarding
  /\ ~(leave.asked /\ leave.granted)
  /\ leave.mine /\ ~discarded => excuse # "none"
  /\ discarded /\ ed.mounted => Leaving /\ ~Saving
  /\ discarded /\ ed.mounted /\ Dirty /\ excuse = "none" => blocked
  /\ leave.granted /\ Dirty /\ blocked /\ excuse = "none" => discarded

(* A save under a leave that is granted, or about to be, is the prompt's   *)
(* own, of the text that nobody can change any more; it began over a       *)
(* Discard, so the text is lost or excused.                                *)
LeaveSaves ==
  ed.mounted /\ Leaving /\ Saving =>
    /\ save.kind = "leave" /\ save.at \in Takes
    /\ save.at \in Begins => save.snap = ed.text
    /\ save.at = "drafting" => ~Dirty
    /\ Dirty => /\ excuse # "none" \/ (shown = "gone" /\ ~blocked)
                /\ excuse = "gone" => shown = "gone" \/ ~probe

(* What the store will hold is the text it should, but for a timer that    *)
(* will see to it; once the editor is gone, there is no timer.             *)
Followed ==
  excuse = "none" =>
    /\ ed.mounted => (Dirty /\ ~blocked /\ timer) \/ Pending = Target
    /\ ~ed.mounted => Pending = Target /\ (save.at \in Begins => ~Dirty \/ discarded)

IInv == TypeOK /\ Heard /\ Flight /\ Checked /\ Ended /\ Prompted /\ LeaveSaves /\ Followed

-----------------------------------------------------------------------------
(* Types, in parts.                                                        *)
Ed       == [mounted : BOOLEAN, text : Content, base : Content, hash : Content, basis : Content]
Check    == [seen : Disk, epoch : Nat, undone : BOOLEAN]
SaveType == [at : {"idle", "called", "loaded", "asking", "written", "drafting", "staging", "resolving"},
             kind : {"save", "stage", "stageOnly", "resolve", "leave"}, snap : Maybe, expected : Maybe,
             from : Maybe, force : BOOLEAN, moved : BOOLEAN]
CallType == [kind : {"write", "delete"}, text : Maybe, waiter : {"self", "save", "leave", "late"}]
LeaveType == [asked : BOOLEAN, discarding : BOOLEAN, mine : BOOLEAN, granted : BOOLEAN]
Excuse   == {"none", "gone", "stale", "failed", "resumed", "stayed", "restored"}

EdOK    == disk \in Disk /\ ed \in Ed
WatchOK == /\ known \in Disk \cup {"none"} /\ shown \in Maybe \cup {"gone"}
           /\ due \in BOOLEAN /\ probe \in BOOLEAN /\ epoch \in Nat /\ checks \subseteq Check
SaveOK  == save \in SaveType
DraftOK == timer \in BOOLEAN /\ blocked \in BOOLEAN /\ last \in Maybe
CallsOK == calls \in Seq(CallType) /\ stored \in Maybe
LeaveOK == leave \in LeaveType
GhostOK == excuse \in Excuse /\ discarded \in BOOLEAN
SpentOK == spent \in [Step -> Nat]
Typed   == EdOK /\ WatchOK /\ SaveOK /\ DraftOK /\ CallsOK /\ LeaveOK /\ GhostOK /\ SpentOK

(* Who waits for a call: one call, or none.                                *)
One(q, w)    == \E i \in DOMAIN q : q[i].waiter = w /\ \A j \in DOMAIN q : q[j].waiter = w => j = i
Nobody(q, w) == \A i \in DOMAIN q : q[i].waiter # w
Waits == /\ IF save.at = "drafting" THEN One(calls, "save") ELSE Nobody(calls, "save")
         /\ IF leave.discarding THEN One(calls, "leave") ELSE Nobody(calls, "leave")

LEMMA TextFacts ==
  /\ "none" \in Maybe /\ "none" \notin Content /\ "deleted" \notin Content /\ "unfit" \notin Content
  /\ Content \subseteq Disk /\ Content \subseteq Maybe /\ Gone \subseteq Disk /\ Disk = Content \cup Gone
  /\ Maybe = Content \cup {"none"}
BY EditSessionAssumption DEF Maybe, Disk, Gone

LEMMA QueueFacts ==
  ASSUME NEW q \in Seq(CallType)
  PROVE  /\ DOMAIN q = 1..Len(q) /\ Len(q) \in Nat
         /\ \A i \in DOMAIN q : q[i] \in CallType
         /\ q # <<>> => /\ 1 \in DOMAIN q /\ Head(q) = q[1] /\ Head(q) \in CallType
                        /\ Tail(q) \in Seq(CallType) /\ Len(Tail(q)) = Len(q) - 1
                        /\ \A i \in DOMAIN Tail(q) : i + 1 \in DOMAIN q /\ Tail(q)[i] = q[i + 1]
                        /\ \A i \in DOMAIN q : i # 1 => i - 1 \in DOMAIN Tail(q) /\ Tail(q)[i - 1] = q[i]
         /\ \A c \in CallType :
              /\ Append(q, c) \in Seq(CallType) /\ Append(q, c) # <<>>
              /\ DOMAIN Append(q, c) = 1..(Len(q) + 1) /\ Append(q, c)[Len(q) + 1] = c
              /\ \A i \in DOMAIN q : Append(q, c)[i] = q[i]
<1>1. DOMAIN q = 1..Len(q) /\ Len(q) \in Nat /\ \A i \in DOMAIN q : q[i] \in CallType
  OBVIOUS
<1>2. ASSUME q # <<>>
      PROVE  /\ 1 \in DOMAIN q /\ Head(q) = q[1] /\ Head(q) \in CallType
             /\ Tail(q) \in Seq(CallType) /\ Len(Tail(q)) = Len(q) - 1
             /\ \A i \in DOMAIN Tail(q) : i + 1 \in DOMAIN q /\ Tail(q)[i] = q[i + 1]
             /\ \A i \in DOMAIN q : i # 1 => i - 1 \in DOMAIN Tail(q) /\ Tail(q)[i - 1] = q[i]
  BY <1>2
<1>3. \A c \in CallType :
        /\ Append(q, c) \in Seq(CallType) /\ Append(q, c) # <<>>
        /\ DOMAIN Append(q, c) = 1..(Len(q) + 1) /\ Append(q, c)[Len(q) + 1] = c
        /\ \A i \in DOMAIN q : Append(q, c)[i] = q[i]
  OBVIOUS
<1> QED
  BY <1>1, <1>2, <1>3

LEMMA Counted ==
  ASSUME CallsOK, NEW w
  PROVE  /\ Awaited(w) = 1 <=> One(calls, w)
         /\ Awaited(w) = 0 <=> Nobody(calls, w)
<1> DEFINE W == {i \in DOMAIN calls : calls[i].waiter = w}
<1>1. IsFiniteSet(W)
  <2>1. DOMAIN calls = 1..Len(calls) /\ Len(calls) \in Nat
    BY QueueFacts DEF CallsOK
  <2>2. IsFiniteSet(1..Len(calls))
    BY <2>1, FS_Interval
  <2> QED
    BY <2>1, <2>2, FS_Subset
<1>2. Cardinality(W) = 0 <=> W = {}
  BY <1>1, FS_EmptySet
<1>3. Cardinality(W) = 1 <=> \E i : W = {i}
  BY <1>1, FS_Singleton
<1>4. (\E i : W = {i}) <=> One(calls, w)
  <2>1. ASSUME NEW i, W = {i} PROVE One(calls, w)
    BY <2>1 DEF One
  <2>2. ASSUME One(calls, w) PROVE \E i : W = {i}
    <3>1. PICK i \in DOMAIN calls : calls[i].waiter = w /\ \A j \in DOMAIN calls : calls[j].waiter = w => j = i
      BY <2>2 DEF One
    <3>2. W = {i}
      BY <3>1
    <3> QED
      BY <3>2
  <2> QED
    BY <2>1, <2>2
<1>5. W = {} <=> Nobody(calls, w)
  BY DEF Nobody
<1> HIDE DEF W
<1>6. Awaited(w) = Cardinality(W)
  BY DEF Awaited, W
<1> QED
  BY <1>2, <1>3, <1>4, <1>5, <1>6

LEMMA TypeParts == TypeOK <=> Typed /\ Waits
<1>1. TypeOK <=> /\ Typed
                 /\ Awaited("save") = IF save.at = "drafting" THEN 1 ELSE 0
                 /\ Awaited("leave") = IF leave.discarding THEN 1 ELSE 0
  BY DEF TypeOK, Typed, EdOK, WatchOK, SaveOK, DraftOK, CallsOK, LeaveOK, GhostOK, SpentOK,
         Ed, Check, SaveType, CallType, LeaveType, Excuse
<1>2. ASSUME Typed
      PROVE  /\ (Awaited("save") = IF save.at = "drafting" THEN 1 ELSE 0)
                  <=> IF save.at = "drafting" THEN One(calls, "save") ELSE Nobody(calls, "save")
             /\ (Awaited("leave") = IF leave.discarding THEN 1 ELSE 0)
                  <=> IF leave.discarding THEN One(calls, "leave") ELSE Nobody(calls, "leave")
  BY <1>2, Counted DEF Typed
<1> QED
  BY <1>1, <1>2 DEF Waits

(* The calls: one more, the first answered, one no longer heard.           *)
LEMMA WaitsAppend ==
  ASSUME NEW q \in Seq(CallType), NEW c \in CallType, NEW w
  PROVE  /\ c.waiter # w => (One(q, w) => One(Append(q, c), w)) /\ (Nobody(q, w) => Nobody(Append(q, c), w))
         /\ c.waiter = w => (Nobody(q, w) => One(Append(q, c), w))
<1> DEFINE r == Append(q, c)
           n == Len(q) + 1
<1>1. /\ DOMAIN q \subseteq DOMAIN r /\ n \in DOMAIN r /\ r[n] = c
      /\ \A i \in DOMAIN r : i \in DOMAIN q \/ i = n
      /\ \A i \in DOMAIN q : r[i] = q[i]
  BY QueueFacts
<1> HIDE DEF r, n
<1>2. c.waiter # w => (One(q, w) => One(r, w)) /\ (Nobody(q, w) => Nobody(r, w))
  BY <1>1 DEF One, Nobody
<1>3. c.waiter = w => (Nobody(q, w) => One(r, w))
  BY <1>1 DEF One, Nobody
<1> QED
  BY <1>2, <1>3 DEF r

LEMMA WaitsTail ==
  ASSUME NEW q \in Seq(CallType), q # <<>>, NEW w
  PROVE  /\ Head(q).waiter # w => (One(q, w) => One(Tail(q), w)) /\ (Nobody(q, w) => Nobody(Tail(q), w))
         /\ Head(q).waiter = w => ~Nobody(q, w) /\ (One(q, w) => Nobody(Tail(q), w))
<1> DEFINE r == Tail(q)
<1>1. /\ 1 \in DOMAIN q /\ Head(q) = q[1]
      /\ \A i \in DOMAIN r : i + 1 \in DOMAIN q /\ r[i] = q[i + 1] /\ i \in Nat \ {0}
      /\ \A i \in DOMAIN q : i \in Nat \ {0} /\ (i # 1 => i - 1 \in DOMAIN r /\ r[i - 1] = q[i])
  <2>1. r \in Seq(CallType) /\ DOMAIN r = 1..Len(r) /\ Len(r) \in Nat /\ DOMAIN q = 1..Len(q) /\ Len(q) \in Nat
    BY QueueFacts
  <2> QED
    BY <2>1, QueueFacts
<1> HIDE DEF r
<1>2. Head(q).waiter # w => (Nobody(q, w) => Nobody(r, w))
  BY <1>1 DEF Nobody
<1>3. ASSUME Head(q).waiter # w, One(q, w) PROVE One(r, w)
  <2>1. PICK i \in DOMAIN q : q[i].waiter = w /\ \A j \in DOMAIN q : q[j].waiter = w => j = i
    BY <1>3 DEF One
  <2>2. i # 1
    BY <1>1, <1>3, <2>1
  <2>3. i - 1 \in DOMAIN r /\ r[i - 1].waiter = w
    BY <1>1, <2>1, <2>2
  <2>4. \A j \in DOMAIN r : r[j].waiter = w => j = i - 1
    BY <1>1, <2>1
  <2> QED
    BY <2>3, <2>4 DEF One
<1>4. Head(q).waiter = w => ~Nobody(q, w)
  BY <1>1 DEF Nobody
<1>5. ASSUME Head(q).waiter = w, One(q, w) PROVE Nobody(r, w)
  <2>1. \A j \in DOMAIN q : q[j].waiter = w => j = 1
    BY <1>1, <1>5 DEF One
  <2> QED
    BY <1>1, <2>1 DEF Nobody
<1> QED
  BY <1>2, <1>3, <1>4, <1>5 DEF r

LEMMA WaitsUnheard ==
  ASSUME CallsOK, NEW i \in DOMAIN calls, Unheard(i), NEW w \in {"save", "leave", "self"}
  PROVE  /\ calls' \in Seq(CallType) /\ DOMAIN calls' = DOMAIN calls
         /\ \A j \in DOMAIN calls : calls'[j].kind = calls[j].kind /\ calls'[j].text = calls[j].text
         /\ calls[i].waiter # w => (One(calls, w) => One(calls', w)) /\ (Nobody(calls, w) => Nobody(calls', w))
         /\ calls[i].waiter = w => ~Nobody(calls, w) /\ (One(calls, w) => Nobody(calls', w))
<1>1. /\ calls' = [calls EXCEPT ![i].waiter = "late"] /\ \A j \in DOMAIN calls : calls[j] \in CallType
      /\ DOMAIN calls = 1..Len(calls) /\ Len(calls) \in Nat
  BY QueueFacts DEF CallsOK, Unheard
<1>2. [calls[i] EXCEPT !.waiter = "late"] \in CallType
  BY <1>1 DEF CallType
<1>3. calls' \in [1..Len(calls) -> CallType]
  BY <1>1, <1>2
<1>4. calls' \in Seq(CallType) /\ DOMAIN calls' = DOMAIN calls
  BY <1>1, <1>3
<1>5. \A j \in DOMAIN calls : calls'[j].kind = calls[j].kind /\ calls'[j].text = calls[j].text
                              /\ calls'[j].waiter = IF j = i THEN "late" ELSE calls[j].waiter
  BY <1>1 DEF CallType
<1>6. calls[i].waiter # w => (One(calls, w) => One(calls', w)) /\ (Nobody(calls, w) => Nobody(calls', w))
  BY <1>4, <1>5 DEF One, Nobody
<1>7. calls[i].waiter = w => ~Nobody(calls, w) /\ (One(calls, w) => Nobody(calls', w))
  BY <1>4, <1>5 DEF One, Nobody
<1> QED
  BY <1>4, <1>5, <1>6, <1>7

-----------------------------------------------------------------------------
(* What the helpers do.                                                    *)
LEMMA DeleteFacts ==
  ASSUME CallsOK, NEW w \in {"self", "save", "leave"}, DeleteNow(w)
  PROVE  /\ timer' = FALSE /\ blocked' = TRUE /\ calls' # <<>>
         /\ \E c \in CallType : /\ c.waiter = w /\ c.kind = "delete" /\ calls' = Append(calls, c)
                                /\ calls' \in Seq(CallType) /\ Last(calls') = c
<1> DEFINE c == Call("delete", "none", w)
<1>1. c \in CallType /\ c.waiter = w /\ c.kind = "delete"
  BY TextFacts DEF Call, CallType
<1>2. timer' = FALSE /\ blocked' = TRUE /\ calls' = Append(calls, c)
  BY DEF DeleteNow
<1> HIDE DEF c
<1>3. calls' # <<>> /\ calls' \in Seq(CallType) /\ Last(calls') = c
  BY <1>1, <1>2 DEF CallsOK, Last
<1> QED
  BY <1>1, <1>2, <1>3

LEMMA WriteFacts ==
  ASSUME Typed, Write
  PROVE  /\ excuse' \in Excuse
         /\ \/ calls' = calls
            \/ /\ Wanted /\ shown # "gone" /\ ed.text # last /\ excuse' = excuse
               /\ \E c \in CallType : /\ c.waiter = "self" /\ c.kind = "write" /\ c.text = ed.text
                                      /\ calls' = Append(calls, c) /\ calls' # <<>>
                                      /\ calls' \in Seq(CallType) /\ Last(calls') = c
<1> DEFINE c == Call("write", ed.text, "self")
<1>1. c \in CallType /\ c.waiter = "self" /\ c.kind = "write" /\ c.text = ed.text
  BY TextFacts DEF Call, CallType, Typed, EdOK, Ed
<1>2. excuse' \in Excuse
  BY DEF Write, Typed, GhostOK, Excuse
<1>3. calls' = calls \/ (Wanted /\ shown # "gone" /\ ed.text # last /\ excuse' = excuse /\ calls' = Append(calls, c))
  BY DEF Write
<1> HIDE DEF c
<1>4. Append(calls, c) # <<>> /\ Append(calls, c) \in Seq(CallType) /\ Last(Append(calls, c)) = c
  BY <1>1 DEF Typed, CallsOK, Last
<1> QED
  BY <1>1, <1>2, <1>3, <1>4

LEMMA IdleFacts ==
  /\ Idle \in SaveType /\ Idle.at = "idle"
  /\ [Idle EXCEPT !.at = "resolving", !.kind = "resolve"] \in SaveType
  /\ [Idle EXCEPT !.at = "resolving", !.kind = "resolve"].at = "resolving"
  /\ [Idle EXCEPT !.at = "resolving", !.kind = "resolve"].kind = "resolve"
  /\ NoLeave \in LeaveType /\ NoLeave.discarding = FALSE
BY TextFacts DEF Idle, SaveType, NoLeave, LeaveType

LEMMA ResolvedFacts ==
  ASSUME LeaveOK, NEW ok \in BOOLEAN
  PROVE  /\ Resolved(ok) \in LeaveType /\ Resolved(ok).discarding = leave.discarding
         /\ Resolved(ok).asked = FALSE
         /\ Resolved(ok).granted = (IF leave.asked THEN ok ELSE leave.granted)
         /\ Resolved(ok).mine = (IF leave.asked THEN FALSE ELSE leave.mine)
<1>1. (IF leave.asked THEN ok ELSE leave.granted) \in BOOLEAN /\ (IF leave.asked THEN FALSE ELSE leave.mine) \in BOOLEAN
  BY DEF LeaveOK, LeaveType
<1> QED
  BY <1>1 DEF LeaveOK, LeaveType, Resolved

LEMMA FinishFacts ==
  ASSUME Typed, NEW ok \in BOOLEAN, NEW clean \in BOOLEAN, Finish(ok, clean)
  PROVE  /\ epoch' = epoch + 1 /\ save' \in SaveType
         /\ save' = Idle \/ (save'.at = "resolving" /\ save'.kind = "resolve" /\ save.kind = "resolve")
         /\ leave' = IF save.kind = "leave" THEN Resolved(ok /\ clean) ELSE leave
         /\ leave' \in LeaveType /\ leave'.discarding = leave.discarding
<1>1. (ok /\ clean) \in BOOLEAN
  OBVIOUS
<1>2. epoch' = epoch + 1
  BY DEF Finish
<1>3. save' = Idle \/ (save' = [Idle EXCEPT !.at = "resolving", !.kind = "resolve"] /\ save.kind = "resolve")
  BY DEF Finish
<1>4. leave' = IF save.kind = "leave" THEN Resolved(ok /\ clean) ELSE leave
  BY DEF Finish
<1>5. leave' \in LeaveType /\ leave'.discarding = leave.discarding
  BY <1>1, <1>4, ResolvedFacts DEF Typed, LeaveOK
<1> QED
  BY <1>2, <1>3, <1>4, <1>5, IdleFacts

LEMMA BegunFacts ==
  ASSUME EdOK, NEW kind \in {"save", "stage", "stageOnly", "resolve", "leave"}, NEW force \in BOOLEAN
  PROVE  /\ Begun(kind, force) \in SaveType /\ Begun(kind, force).at = "called"
         /\ Begun(kind, force).kind = kind /\ Begun(kind, force).snap = ed.text
         /\ Begun(kind, force).expected = ed.hash /\ Begun(kind, force).from = ed.basis
BY TextFacts DEF EdOK, Ed, Begun, SaveType

LEMMA ReloadFacts ==
  ASSUME EdOK, NEW d \in Content, Reload(d)
  PROVE  /\ ed' \in Ed /\ ed'.mounted = ed.mounted /\ ed'.text = d /\ ed'.base = d
         /\ ed'.hash = d /\ ed'.basis = d /\ known' = "none" /\ shown' = "none"
BY DEF EdOK, Ed, Reload

(* After the draft of a save is gone: the save is staged, or over.         *)
LEMMA AfterDraftFacts ==
  ASSUME Typed, AfterDraft
  PROVE  /\ known' = "none" /\ shown' = "none"
         /\ \/ /\ save' \in SaveType /\ save'.at = "staging" /\ save'.kind = "stage" /\ save.kind = "stage"
               /\ UNCHANGED <<epoch, leave>>
            \/ /\ epoch' = epoch + 1 /\ save' \in SaveType
               /\ save' = Idle \/ (save'.at = "resolving" /\ save'.kind = "resolve" /\ save.kind = "resolve")
               /\ leave' = IF save.kind = "leave" THEN Resolved(~Dirty) ELSE leave
         /\ leave' \in LeaveType /\ leave'.discarding = leave.discarding
         /\ save'.at \in {"idle", "staging", "resolving"} /\ save' \in SaveType
<1>1. known' = "none" /\ shown' = "none"
  BY DEF AfterDraft
<1>2. CASE save.kind = "stage"
  BY <1>1, <1>2 DEF AfterDraft, Typed, SaveOK, SaveType, LeaveOK
<1>3. CASE save.kind # "stage"
  <2>1. Finish(TRUE, ~Dirty) /\ (~Dirty) \in BOOLEAN
    BY <1>3 DEF AfterDraft
  <2> HIDE DEF Dirty
  <2>2. (TRUE /\ ~Dirty) = ~Dirty
    OBVIOUS
  <2>3. /\ epoch' = epoch + 1 /\ save' \in SaveType
        /\ save' = Idle \/ (save'.at = "resolving" /\ save'.kind = "resolve" /\ save.kind = "resolve")
        /\ leave' = IF save.kind = "leave" THEN Resolved(TRUE /\ ~Dirty) ELSE leave
        /\ leave' \in LeaveType /\ leave'.discarding = leave.discarding
    BY <2>1, FinishFacts
  <2>4. leave' = IF save.kind = "leave" THEN Resolved(~Dirty) ELSE leave
    BY Zenon, <2>2, <2>3
  <2> QED
    BY <1>1, <2>3, <2>4, IdleFacts
<1> QED
  BY <1>2, <1>3

(* The caller of a delete goes on.                                         *)
LEMMA ContinueFacts ==
  ASSUME Typed, NEW w \in {"self", "save", "leave", "late"}, NEW keep \in Maybe, Continue(w, keep)
  PROVE  /\ last' = keep /\ due' = due /\ probe' = probe /\ checks' = checks
         /\ w = "save" => /\ AfterDraft
                          /\ IF Dirty /\ ed.mounted THEN blocked' = FALSE /\ timer' = TRUE
                             ELSE blocked' = blocked /\ timer' = timer
         /\ w # "save" => UNCHANGED <<known, shown, epoch, save, timer, blocked>>
         /\ w = "leave" => /\ leave' \in LeaveType /\ leave'.asked = FALSE /\ leave'.discarding = FALSE
                           /\ leave'.mine = FALSE /\ leave'.granted = (leave.granted \/ leave.mine)
         /\ w \in {"self", "late"} => leave' = leave
<1>1. CASE w = "save"
  BY <1>1 DEF Continue
<1>2. CASE w = "leave"
  <2>1. (leave.granted \/ leave.mine) \in BOOLEAN
    OBVIOUS
  <2> DEFINE g == leave.granted \/ leave.mine
  <2>2. /\ leave' = [leave EXCEPT !.asked = FALSE, !.discarding = FALSE, !.mine = FALSE, !.granted = g]
        /\ last' = keep /\ UNCHANGED <<watch, save, timer, blocked>>
    BY <1>2 DEF Continue, Typed, LeaveOK, LeaveType
  <2>3. leave \in LeaveType
    BY DEF Typed, LeaveOK
  <2> HIDE DEF g
  <2>4. g \in BOOLEAN
    BY <2>1 DEF g
  <2>5. leave' \in LeaveType /\ leave'.asked = FALSE /\ leave'.discarding = FALSE /\ leave'.mine = FALSE
        /\ leave'.granted = g
    BY <2>2, <2>3, <2>4 DEF LeaveType
  <2> QED
    BY <1>2, <2>2, <2>5 DEF g, watch
<1>3. CASE w \in {"self", "late"}
  BY <1>3 DEF Continue, watch
<1> QED
  BY <1>1, <1>2, <1>3

LEMMA SpendFacts ==
  ASSUME SpentOK, NEW k \in Step, Spend(k)
  PROVE  SpentOK'
BY DEF SpentOK, Spend

-----------------------------------------------------------------------------
(* Types, one part at a time.                                              *)
LEMMA AnswerFacts ==
  ASSUME Typed, DeleteAnswered
  PROVE  /\ calls # <<>> /\ calls' = Tail(calls) /\ Head(calls) \in CallType /\ Head(calls).kind = "delete"
         /\ \E keep \in Maybe : Continue(Head(calls).waiter, keep)
         /\ UNCHANGED <<disk, ed, discarded>>
         /\ \/ stored' = "none" /\ UNCHANGED <<excuse, spent>>
            \/ stored' = stored /\ excuse' = "failed" /\ Spend("failure")
<1>1. calls # <<>> /\ Head(calls) \in CallType /\ last \in Maybe /\ "none" \in Maybe
  BY QueueFacts, TextFacts DEF DeleteAnswered, Typed, CallsOK, DraftOK
<1>2. calls' = Tail(calls) /\ Head(calls).kind = "delete" /\ UNCHANGED <<disk, ed, discarded>>
  BY DEF DeleteAnswered
<1>3. \E keep \in Maybe : Continue(Head(calls).waiter, keep)
  BY <1>1 DEF DeleteAnswered
<1>4. \/ stored' = "none" /\ UNCHANGED <<excuse, spent>>
      \/ stored' = stored /\ excuse' = "failed" /\ Spend("failure")
  BY DEF DeleteAnswered
<1> QED
  BY <1>1, <1>2, <1>3, <1>4

LEMMA TimeoutFacts ==
  ASSUME Typed, NEW i \in DOMAIN calls, DeleteTimeout(i)
  PROVE  /\ Unheard(i) /\ calls[i] \in CallType /\ calls[i].waiter \in {"self", "save", "leave"}
         /\ Continue(calls[i].waiter, last) /\ last \in Maybe /\ Spend("timeout")
         /\ UNCHANGED <<disk, ed, stored, excuse, discarded>>
<1>1. calls[i] \in CallType /\ last \in Maybe
  BY QueueFacts DEF Typed, CallsOK, DraftOK
<1>2. calls[i].waiter # "late"
  BY DEF DeleteTimeout
<1> QED
  BY <1>1, <1>2 DEF DeleteTimeout, CallType

LEMMA HeadText ==
  ASSUME Typed, WriteAnswered
  PROVE  /\ calls # <<>> /\ calls' = Tail(calls) /\ Head(calls) \in CallType /\ Head(calls).text \in Maybe
         /\ Head(calls).kind = "write"
BY QueueFacts DEF WriteAnswered, Typed, CallsOK, CallType

LEMMA EdTyped ==
  ASSUME Typed, Flight, [Next]_vars
  PROVE  EdOK'
<1> USE DEF Typed, EdOK
<1>0. CASE UNCHANGED vars
  BY <1>0 DEF vars
<1>1. CASE DraftTimer
  BY <1>1 DEF DraftTimer
<1>2. CASE Flush
  BY <1>2 DEF Flush
<1>3. CASE WriteAnswered
  BY <1>3 DEF WriteAnswered
<1>4. CASE DeleteAnswered
  BY <1>4, AnswerFacts
<1>5. ASSUME NEW i \in DOMAIN calls, DeleteTimeout(i) PROVE EdOK'
  BY <1>5, TimeoutFacts
<1>6. ASSUME NEW t \in Content, Type(t) PROVE EdOK'
  BY <1>6 DEF Type, Ed
<1>7. ASSUME NEW d \in Disk, Outside(d) PROVE EdOK'
  BY <1>7 DEF Outside
<1>8. CASE CheckStart
  BY <1>8 DEF CheckStart
<1>9. ASSUME NEW c \in checks, CheckLand(c) PROVE EdOK'
  <2>0. UNCHANGED disk
    BY <1>9 DEF CheckLand
  <2>1. CASE Reload(c.seen) /\ c.seen \in Content
    BY <2>0, <2>1, ReloadFacts
  <2>2. CASE UNCHANGED ed
    BY <2>0, <2>2
  <2> QED
    BY <1>9, <2>1, <2>2 DEF CheckLand, CheckGone, CheckSame, CheckOther
<1>10. CASE Probe
  BY <1>10 DEF Probe
<1>11. CASE DismissGone
  BY <1>11 DEF DismissGone
<1>12. CASE ConfirmReload
  BY <1>12, ReloadFacts DEF ConfirmReload
<1>13. ASSUME NEW kind \in {"save", "stage", "stageOnly", "resolve"}, SaveStart(kind) PROVE EdOK'
  BY <1>13 DEF SaveStart
<1>14. CASE WriteLoad
  BY <1>14 DEF WriteLoad, SaveRefused
<1>15. CASE WriteSwap
  <2>1. save.snap \in Content /\ Content \subseteq Disk
    BY <1>15, TextFacts DEF WriteSwap, Flight, Takes, Begins
  <2> QED
    BY <1>15, <2>1 DEF WriteSwap, SaveRefused
<1>16. CASE SaveWritten
  <2>1. save.snap \in Content
    BY <1>16 DEF SaveWritten, Flight, Takes, Begins
  <2> QED
    BY <1>16, <2>1 DEF SaveWritten, Ed
<1>17. ASSUME NEW ok \in BOOLEAN, AnswerOverwrite(ok) PROVE EdOK'
  BY <1>17 DEF AnswerOverwrite, SaveRefused
<1>18. CASE Staged
  BY <1>18 DEF Staged
<1>19. CASE ResolvedFile
  BY <1>19 DEF ResolvedFile
<1>20. CASE RequestLeave
  BY <1>20 DEF RequestLeave
<1>21. CASE LeaveSave
  BY <1>21 DEF LeaveSave
<1>22. CASE LeaveDiscard
  BY <1>22 DEF LeaveDiscard
<1>23. CASE LeaveCancel
  BY <1>23 DEF LeaveCancel
<1>24. CASE Stay
  BY <1>24 DEF Stay
<1>25. CASE Unmount
  BY <1>25 DEF Unmount, Ed
<1> QED
  BY <1>0, <1>1, <1>2, <1>3, <1>4, <1>5, <1>6, <1>7, <1>8, <1>9, <1>10, <1>11, <1>12,
     <1>13, <1>14, <1>15, <1>16, <1>17, <1>18, <1>19, <1>20, <1>21, <1>22, <1>23, <1>24,
     <1>25 DEF Next

LEMMA WatchTyped ==
  ASSUME Typed, Flight, [Next]_vars
  PROVE  WatchOK'
<1>t. EdOK /\ WatchOK
  BY DEF Typed
<1>0. CASE UNCHANGED vars
  BY <1>0, <1>t DEF vars, watch, WatchOK
<1>1. CASE DraftTimer
  BY <1>1, <1>t DEF DraftTimer, watch, WatchOK
<1>2. CASE Flush
  BY <1>2, <1>t DEF Flush, watch, WatchOK
<1>3. CASE WriteAnswered
  BY <1>3, <1>t DEF WriteAnswered, watch, WatchOK
<1>4. CASE DeleteAnswered
  <2>1. PICK w \in {"self", "save", "leave", "late"}, keep \in Maybe : Continue(w, keep)
    BY <1>4, AnswerFacts DEF CallType
  <2>2. CASE w = "save"
    <3>1. AfterDraft
      BY <1>t, <2>1, <2>2, ContinueFacts
    <3>2. epoch' \in Nat /\ known' = "none" /\ shown' = "none"
      BY <3>1, <1>t, AfterDraftFacts DEF WatchOK
    <3>3. due' = due /\ probe' = probe /\ checks' = checks
      BY <2>1, ContinueFacts
    <3> QED
      BY <1>t, <3>2, <3>3, TextFacts DEF WatchOK
  <2>3. CASE w # "save"
    BY <1>t, <2>1, <2>3, ContinueFacts DEF WatchOK
  <2> QED
    BY <1>t, <2>2, <2>3
<1>5. ASSUME NEW i \in DOMAIN calls, DeleteTimeout(i) PROVE WatchOK'
  <2>1. PICK w \in {"self", "save", "leave", "late"}, keep \in Maybe : Continue(w, keep)
    BY <1>5, TimeoutFacts
  <2>2. CASE w = "save"
    <3>1. AfterDraft
      BY <1>t, <2>1, <2>2, ContinueFacts
    <3>2. epoch' \in Nat /\ known' = "none" /\ shown' = "none"
      BY <3>1, <1>t, AfterDraftFacts DEF WatchOK
    <3>3. due' = due /\ probe' = probe /\ checks' = checks
      BY <2>1, ContinueFacts
    <3> QED
      BY <1>t, <3>2, <3>3, TextFacts DEF WatchOK
  <2>3. CASE w # "save"
    BY <1>t, <2>1, <2>3, ContinueFacts DEF WatchOK
  <2> QED
    BY <1>t, <2>2, <2>3
<1>6. ASSUME NEW t \in Content, Type(t) PROVE WatchOK'
  BY <1>6, <1>t DEF Type, WatchOK
<1>7. ASSUME NEW d \in Disk, Outside(d) PROVE WatchOK'
  BY <1>7, <1>t DEF Outside, WatchOK, EdOK, Ed
<1>8. CASE CheckStart
  <2>1. [seen |-> disk, epoch |-> epoch, undone |-> FALSE] \in Check
    BY <1>t DEF Check, EdOK, WatchOK
  <2> QED
    BY <1>8, <1>t, <2>1 DEF CheckStart, WatchOK
<1>9. ASSUME NEW c \in checks, CheckLand(c) PROVE WatchOK'
  <2>1. c \in Check /\ c.seen \in Disk
    BY <1>t DEF Check, WatchOK
  <2>2. checks' \subseteq Check
    BY <1>9, <1>t DEF CheckLand, WatchOK
  <2>3. epoch' = epoch /\ due' \in BOOLEAN
    BY <1>9, <1>t DEF CheckLand, WatchOK
  <2>4. CASE UNCHANGED <<known, shown, probe>>
    BY <1>t, <2>2, <2>3, <2>4 DEF WatchOK
  <2>5. CASE CheckGone(c.seen)
    BY <1>t, <2>1, <2>2, <2>3, <2>5, TextFacts DEF CheckGone, WatchOK
  <2>6. CASE CheckSame
    BY <1>t, <2>2, <2>3, <2>6, TextFacts DEF CheckSame, WatchOK
  <2>7. CASE c.seen \in Content /\ CheckOther(c.seen)
    BY <1>t, <2>1, <2>2, <2>3, <2>7, ReloadFacts, TextFacts DEF CheckOther, WatchOK
  <2> QED
    BY <1>9, <1>t, <2>4, <2>5, <2>6, <2>7 DEF CheckLand
<1>10. CASE Probe
  BY <1>10, <1>t DEF Probe, watch, WatchOK
<1>11. CASE DismissGone
  BY <1>11, <1>t, TextFacts DEF DismissGone, WatchOK
<1>12. CASE ConfirmReload
  <2>1. known' = "none" /\ shown' = "none"
    BY <1>12, <1>t, ReloadFacts DEF ConfirmReload
  <2> QED
    BY <1>12, <1>t, <2>1, TextFacts DEF ConfirmReload, WatchOK
<1>13. ASSUME NEW kind \in {"save", "stage", "stageOnly", "resolve"}, SaveStart(kind) PROVE WatchOK'
  BY <1>13, <1>t DEF SaveStart, WatchOK
<1>14. CASE WriteLoad
  <2>1. epoch + 1 \in Nat
    BY <1>t DEF WatchOK
  <2>2. ASSUME NEW ok \in BOOLEAN, NEW clean \in BOOLEAN, Finish(ok, clean) PROVE epoch' \in Nat
    BY <1>t, <2>1, <2>2, FinishFacts
  <2>3. CASE SaveRefused
    BY <1>t, <2>2, <2>3 DEF SaveRefused, WatchOK
  <2> QED
    BY <1>14, <1>t, <2>3 DEF WriteLoad, watch, WatchOK
<1>15. CASE WriteSwap
  <2>1. epoch + 1 \in Nat
    BY <1>t DEF WatchOK
  <2>2. ASSUME NEW ok \in BOOLEAN, NEW clean \in BOOLEAN, Finish(ok, clean) PROVE epoch' \in Nat
    BY <1>t, <2>1, <2>2, FinishFacts
  <2>3. CASE SaveRefused
    BY <1>t, <2>2, <2>3 DEF SaveRefused, WatchOK
  <2>4. \A c \in checks : [c EXCEPT !.undone = TRUE] \in Check
    BY <1>t DEF Check, WatchOK
  <2>5. checks' = {[c EXCEPT !.undone = TRUE] : c \in checks} => checks' \subseteq Check
    BY <1>t, <2>4
  <2> QED
    BY <1>15, <1>t, <2>3, <2>5 DEF WriteSwap, watch, WatchOK, EdOK, Ed
<1>16. CASE SaveWritten
  BY <1>16, <1>t DEF SaveWritten, WatchOK, EdOK, Ed
<1>17. ASSUME NEW ok \in BOOLEAN, AnswerOverwrite(ok) PROVE WatchOK'
  <2>1. epoch + 1 \in Nat
    BY <1>t DEF WatchOK
  <2>2. ASSUME NEW o \in BOOLEAN, NEW clean \in BOOLEAN, Finish(o, clean) PROVE epoch' \in Nat
    BY <1>t, <2>1, <2>2, FinishFacts
  <2>3. CASE SaveRefused
    BY <1>t, <2>2, <2>3 DEF SaveRefused, WatchOK
  <2> QED
    BY <1>17, <1>t, <2>3 DEF AnswerOverwrite, watch, WatchOK
<1>18. CASE Staged
  <2>1. epoch + 1 \in Nat
    BY <1>t DEF WatchOK
  <2>2. ASSUME NEW ok \in BOOLEAN, NEW clean \in BOOLEAN, Finish(ok, clean) PROVE epoch' \in Nat
    BY <1>t, <2>1, <2>2, FinishFacts
  <2> QED
    BY <1>18, <1>t, <2>2, TextFacts DEF Staged, WatchOK
<1>19. CASE ResolvedFile
  <2>1. epoch + 1 \in Nat
    BY <1>t DEF WatchOK
  <2>2. ASSUME NEW ok \in BOOLEAN, NEW clean \in BOOLEAN, Finish(ok, clean) PROVE epoch' \in Nat
    BY <1>t, <2>1, <2>2, FinishFacts
  <2> QED
    BY <1>19, <1>t, <2>2, TextFacts DEF ResolvedFile, WatchOK
<1>20. CASE RequestLeave
  BY <1>20, <1>t DEF RequestLeave, watch, WatchOK
<1>21. CASE LeaveSave
  <2>1. epoch + 1 \in Nat
    BY <1>t DEF WatchOK
  <2> QED
    BY <1>21, <1>t, <2>1 DEF LeaveSave, WatchOK
<1>22. CASE LeaveDiscard
  BY <1>22, <1>t DEF LeaveDiscard, watch, WatchOK
<1>23. CASE LeaveCancel
  BY <1>23, <1>t DEF LeaveCancel, watch, WatchOK
<1>24. CASE Stay
  BY <1>24, <1>t DEF Stay, watch, WatchOK
<1>25. CASE Unmount
  BY <1>25, <1>t DEF Unmount, watch, WatchOK
<1> QED
  BY <1>0, <1>1, <1>2, <1>3, <1>4, <1>5, <1>6, <1>7, <1>8, <1>9, <1>10, <1>11, <1>12,
     <1>13, <1>14, <1>15, <1>16, <1>17, <1>18, <1>19, <1>20, <1>21, <1>22, <1>23, <1>24,
     <1>25 DEF Next

LEMMA SaveTyped ==
  ASSUME Typed, Flight, [Next]_vars
  PROVE  SaveOK'
<1> USE DEF Typed, SaveOK
<1>0. CASE UNCHANGED vars
  BY <1>0 DEF vars
<1>1. CASE DraftTimer
  BY <1>1 DEF DraftTimer
<1>2. CASE Flush
  BY <1>2 DEF Flush
<1>3. CASE WriteAnswered
  BY <1>3 DEF WriteAnswered
<1>4. CASE DeleteAnswered
  <2>1. PICK w \in {"self", "save", "leave", "late"}, keep \in Maybe : Continue(w, keep)
    BY <1>4, AnswerFacts DEF CallType
  <2> QED
    BY <2>1, ContinueFacts, AfterDraftFacts
<1>5. ASSUME NEW i \in DOMAIN calls, DeleteTimeout(i) PROVE SaveOK'
  <2>1. PICK w \in {"self", "save", "leave", "late"}, keep \in Maybe : Continue(w, keep)
    BY <1>5, TimeoutFacts
  <2> QED
    BY <2>1, ContinueFacts, AfterDraftFacts
<1>6. ASSUME NEW t \in Content, Type(t) PROVE SaveOK'
  BY <1>6 DEF Type
<1>7. ASSUME NEW d \in Disk, Outside(d) PROVE SaveOK'
  BY <1>7 DEF Outside, SaveType
<1>8. CASE CheckStart
  BY <1>8 DEF CheckStart
<1>9. ASSUME NEW c \in checks, CheckLand(c) PROVE SaveOK'
  BY <1>9 DEF CheckLand
<1>10. CASE Probe
  BY <1>10 DEF Probe
<1>11. CASE DismissGone
  BY <1>11 DEF DismissGone
<1>12. CASE ConfirmReload
  BY <1>12 DEF ConfirmReload
<1>13. ASSUME NEW kind \in {"save", "stage", "stageOnly", "resolve"}, SaveStart(kind) PROVE SaveOK'
  <2>1. [Idle EXCEPT !.at = "staging", !.kind = kind] \in SaveType
    BY TextFacts DEF Idle, SaveType
  <2>2. [Idle EXCEPT !.at = "resolving", !.kind = kind] \in SaveType
    BY ZenonT(60), TextFacts DEF Idle, SaveType
  <2> QED
    BY <1>13, <2>1, <2>2, BegunFacts DEF SaveStart
<1>14. CASE WriteLoad
  <2>1. CASE SaveRefused
    BY <2>1, FinishFacts DEF SaveRefused
  <2>2. CASE UNCHANGED epoch /\ save' = [save EXCEPT !.at = IF disk = save.expected \/ save.force THEN "loaded" ELSE "asking"]
    BY <2>2 DEF SaveType
  <2> QED
    BY <1>14, <2>1, <2>2 DEF WriteLoad, watch
<1>15. CASE WriteSwap
  <2>1. CASE SaveRefused
    BY <2>1, FinishFacts DEF SaveRefused
  <2>2. CASE \E at \in {"written", "asking"} : save' = [save EXCEPT !.at = at]
    BY <2>2 DEF SaveType
  <2> QED
    BY <1>15, <2>1, <2>2 DEF WriteSwap
<1>16. CASE SaveWritten
  BY <1>16 DEF SaveWritten, SaveType
<1>17. ASSUME NEW ok \in BOOLEAN, AnswerOverwrite(ok) PROVE SaveOK'
  <2>1. CASE SaveRefused
    BY <2>1, FinishFacts DEF SaveRefused
  <2>2. CASE save' = Begun(save.kind, TRUE)
    BY <2>2, BegunFacts DEF SaveType
  <2> QED
    BY <1>17, <2>1, <2>2 DEF AnswerOverwrite
<1>18. CASE Staged
  BY <1>18, FinishFacts DEF Staged
<1>19. CASE ResolvedFile
  BY <1>19, FinishFacts DEF ResolvedFile
<1>20. CASE RequestLeave
  BY <1>20 DEF RequestLeave
<1>21. CASE LeaveSave
  BY <1>21, BegunFacts DEF LeaveSave
<1>22. CASE LeaveDiscard
  BY <1>22 DEF LeaveDiscard
<1>23. CASE LeaveCancel
  BY <1>23 DEF LeaveCancel
<1>24. CASE Stay
  BY <1>24 DEF Stay
<1>25. CASE Unmount
  BY <1>25, IdleFacts DEF Unmount
<1> QED
  BY <1>0, <1>1, <1>2, <1>3, <1>4, <1>5, <1>6, <1>7, <1>8, <1>9, <1>10, <1>11, <1>12,
     <1>13, <1>14, <1>15, <1>16, <1>17, <1>18, <1>19, <1>20, <1>21, <1>22, <1>23, <1>24,
     <1>25 DEF Next

LEMMA DraftTyped ==
  ASSUME Typed, Flight, [Next]_vars
  PROVE  DraftOK'
<1> USE DEF Typed, DraftOK
<1>0. CASE UNCHANGED vars
  BY <1>0 DEF vars, draft
<1>1. CASE DraftTimer
  BY <1>1 DEF DraftTimer, draft
<1>2. CASE Flush
  BY <1>2 DEF Flush, draft
<1>3. CASE WriteAnswered
  BY <1>3, HeadText DEF WriteAnswered
<1>4. CASE DeleteAnswered
  <2>1. PICK w \in {"self", "save", "leave", "late"}, keep \in Maybe : Continue(w, keep)
    BY <1>4, AnswerFacts DEF CallType
  <2> QED
    BY <2>1, ContinueFacts
<1>5. ASSUME NEW i \in DOMAIN calls, DeleteTimeout(i) PROVE DraftOK'
  <2>1. PICK w \in {"self", "save", "leave", "late"}, keep \in Maybe : Continue(w, keep)
    BY <1>5, TimeoutFacts
  <2> QED
    BY <2>1, ContinueFacts
<1>6. ASSUME NEW t \in Content, Type(t) PROVE DraftOK'
  <2>1. CASE DeleteNow("self")
    BY <1>6, <2>1, DeleteFacts DEF Type
  <2> QED
    BY <1>6, <2>1 DEF Type, Resume
<1>7. ASSUME NEW d \in Disk, Outside(d) PROVE DraftOK'
  BY <1>7 DEF Outside, draft
<1>8. CASE CheckStart
  BY <1>8 DEF CheckStart, draft
<1>9. ASSUME NEW c \in checks, CheckLand(c) PROVE DraftOK'
  BY <1>9 DEF CheckLand, CheckGone, CheckSame, CheckOther, Resume, draft
<1>10. CASE Probe
  <2>1. CASE DeleteNow("self")
    BY <1>10, <2>1, DeleteFacts DEF Probe
  <2> QED
    BY <1>10, <2>1 DEF Probe, Resume
<1>11. CASE DismissGone
  BY <1>11 DEF DismissGone, draft
<1>12. CASE ConfirmReload
  BY <1>12, DeleteFacts DEF ConfirmReload
<1>13. ASSUME NEW kind \in {"save", "stage", "stageOnly", "resolve"}, SaveStart(kind) PROVE DraftOK'
  BY <1>13 DEF SaveStart, draft
<1>14. CASE WriteLoad
  BY <1>14 DEF WriteLoad, SaveRefused, draft
<1>15. CASE WriteSwap
  BY <1>15 DEF WriteSwap, SaveRefused, draft
<1>16. CASE SaveWritten
  BY <1>16, DeleteFacts DEF SaveWritten
<1>17. ASSUME NEW ok \in BOOLEAN, AnswerOverwrite(ok) PROVE DraftOK'
  BY <1>17 DEF AnswerOverwrite, SaveRefused, draft
<1>18. CASE Staged
  BY <1>18 DEF Staged, draft
<1>19. CASE ResolvedFile
  BY <1>19 DEF ResolvedFile, draft
<1>20. CASE RequestLeave
  BY <1>20 DEF RequestLeave, draft
<1>21. CASE LeaveSave
  BY <1>21 DEF LeaveSave, draft
<1>22. CASE LeaveDiscard
  BY <1>22, DeleteFacts DEF LeaveDiscard
<1>23. CASE LeaveCancel
  BY <1>23 DEF LeaveCancel, draft
<1>24. CASE Stay
  BY <1>24 DEF Stay, draft
<1>25. CASE Unmount
  BY <1>25 DEF Unmount
<1> QED
  BY <1>0, <1>1, <1>2, <1>3, <1>4, <1>5, <1>6, <1>7, <1>8, <1>9, <1>10, <1>11, <1>12,
     <1>13, <1>14, <1>15, <1>16, <1>17, <1>18, <1>19, <1>20, <1>21, <1>22, <1>23, <1>24,
     <1>25 DEF Next

LEMMA CallsTyped ==
  ASSUME Typed, Flight, [Next]_vars
  PROVE  CallsOK'
<1>t. CallsOK
  BY DEF Typed
<1>0. CASE UNCHANGED vars
  BY <1>0, <1>t DEF vars, store, CallsOK
<1>1. CASE DraftTimer
  BY <1>1, <1>t, WriteFacts DEF DraftTimer, CallsOK
<1>2. CASE Flush
  BY <1>2, <1>t, WriteFacts DEF Flush, CallsOK
<1>3. CASE WriteAnswered
  <2>1. Tail(calls) \in Seq(CallType)
    BY <1>3, <1>t, HeadText, QueueFacts DEF CallsOK
  <2> QED
    BY <1>3, <1>t, <2>1, HeadText DEF WriteAnswered, CallsOK
<1>4. CASE DeleteAnswered
  <2>1. Tail(calls) \in Seq(CallType)
    BY <1>4, <1>t, AnswerFacts, QueueFacts DEF CallsOK
  <2> QED
    BY <1>4, <1>t, <2>1, AnswerFacts, TextFacts DEF CallsOK
<1>5. ASSUME NEW i \in DOMAIN calls, DeleteTimeout(i) PROVE CallsOK'
  BY <1>5, <1>t, TimeoutFacts, WaitsUnheard DEF CallsOK
<1>6. ASSUME NEW t \in Content, Type(t) PROVE CallsOK'
  <2>1. CASE DeleteNow("self")
    BY <1>6, <1>t, <2>1, DeleteFacts DEF Type, CallsOK
  <2> QED
    BY <1>6, <1>t, <2>1 DEF Type, CallsOK
<1>7. ASSUME NEW d \in Disk, Outside(d) PROVE CallsOK'
  BY <1>7, <1>t DEF Outside, store, CallsOK
<1>8. CASE CheckStart
  BY <1>8, <1>t DEF CheckStart, store, CallsOK
<1>9. ASSUME NEW c \in checks, CheckLand(c) PROVE CallsOK'
  BY <1>9, <1>t DEF CheckLand, store, CallsOK
<1>10. CASE Probe
  <2>1. CASE DeleteNow("self")
    BY <1>10, <1>t, <2>1, DeleteFacts DEF Probe, CallsOK
  <2> QED
    BY <1>10, <1>t, <2>1 DEF Probe, CallsOK
<1>11. CASE DismissGone
  BY <1>11, <1>t DEF DismissGone, store, CallsOK
<1>12. CASE ConfirmReload
  BY <1>12, <1>t, DeleteFacts DEF ConfirmReload, CallsOK
<1>13. ASSUME NEW kind \in {"save", "stage", "stageOnly", "resolve"}, SaveStart(kind) PROVE CallsOK'
  BY <1>13, <1>t DEF SaveStart, store, CallsOK
<1>14. CASE WriteLoad
  BY <1>14, <1>t DEF WriteLoad, SaveRefused, store, CallsOK
<1>15. CASE WriteSwap
  BY <1>15, <1>t DEF WriteSwap, SaveRefused, store, CallsOK
<1>16. CASE SaveWritten
  BY <1>16, <1>t, DeleteFacts DEF SaveWritten, CallsOK
<1>17. ASSUME NEW ok \in BOOLEAN, AnswerOverwrite(ok) PROVE CallsOK'
  BY <1>17, <1>t DEF AnswerOverwrite, SaveRefused, store, CallsOK
<1>18. CASE Staged
  BY <1>18, <1>t DEF Staged, store, CallsOK
<1>19. CASE ResolvedFile
  BY <1>19, <1>t DEF ResolvedFile, store, CallsOK
<1>20. CASE RequestLeave
  BY <1>20, <1>t DEF RequestLeave, store, CallsOK
<1>21. CASE LeaveSave
  BY <1>21, <1>t DEF LeaveSave, store, CallsOK
<1>22. CASE LeaveDiscard
  BY <1>22, <1>t, DeleteFacts DEF LeaveDiscard, CallsOK
<1>23. CASE LeaveCancel
  BY <1>23, <1>t DEF LeaveCancel, store, CallsOK
<1>24. CASE Stay
  BY <1>24, <1>t DEF Stay, store, CallsOK
<1>25. CASE Unmount
  BY <1>25, <1>t, WriteFacts DEF Unmount, CallsOK
<1> QED
  BY <1>0, <1>1, <1>2, <1>3, <1>4, <1>5, <1>6, <1>7, <1>8, <1>9, <1>10, <1>11, <1>12,
     <1>13, <1>14, <1>15, <1>16, <1>17, <1>18, <1>19, <1>20, <1>21, <1>22, <1>23, <1>24,
     <1>25 DEF Next

LEMMA LeaveTyped ==
  ASSUME Typed, Flight, [Next]_vars
  PROVE  LeaveOK'
<1>t. LeaveOK
  BY DEF Typed
<1>0. CASE UNCHANGED vars
  BY <1>0, <1>t DEF vars, LeaveOK
<1>1. CASE DraftTimer
  BY <1>1, <1>t DEF DraftTimer, LeaveOK
<1>2. CASE Flush
  BY <1>2, <1>t DEF Flush, LeaveOK
<1>3. CASE WriteAnswered
  BY <1>3, <1>t DEF WriteAnswered, LeaveOK
<1>4. CASE DeleteAnswered
  <2>1. PICK w \in {"self", "save", "leave", "late"}, keep \in Maybe : Continue(w, keep)
    BY <1>4, AnswerFacts DEF CallType
  <2>2. CASE w = "save"
    BY <2>1, <2>2, ContinueFacts, AfterDraftFacts DEF LeaveOK
  <2>3. CASE w = "leave"
    BY <2>1, <2>3, ContinueFacts DEF LeaveOK
  <2>4. CASE w \in {"self", "late"}
    BY <2>1, <2>4, <1>t, ContinueFacts DEF LeaveOK
  <2> QED
    BY <2>2, <2>3, <2>4
<1>5. ASSUME NEW i \in DOMAIN calls, DeleteTimeout(i) PROVE LeaveOK'
  <2>1. PICK w \in {"self", "save", "leave", "late"}, keep \in Maybe : Continue(w, keep)
    BY <1>5, TimeoutFacts
  <2>2. CASE w = "save"
    BY <2>1, <2>2, ContinueFacts, AfterDraftFacts DEF LeaveOK
  <2>3. CASE w = "leave"
    BY <2>1, <2>3, ContinueFacts DEF LeaveOK
  <2>4. CASE w \in {"self", "late"}
    BY <2>1, <2>4, <1>t, ContinueFacts DEF LeaveOK
  <2> QED
    BY <2>2, <2>3, <2>4
<1>6. ASSUME NEW t \in Content, Type(t) PROVE LeaveOK'
  BY <1>6, <1>t DEF Type, LeaveOK
<1>7. ASSUME NEW d \in Disk, Outside(d) PROVE LeaveOK'
  BY <1>7, <1>t DEF Outside, LeaveOK
<1>8. CASE CheckStart
  BY <1>8, <1>t DEF CheckStart, LeaveOK
<1>9. ASSUME NEW c \in checks, CheckLand(c) PROVE LeaveOK'
  BY <1>9, <1>t DEF CheckLand, LeaveOK
<1>10. CASE Probe
  BY <1>10, <1>t DEF Probe, LeaveOK
<1>11. CASE DismissGone
  BY <1>11, <1>t DEF DismissGone, LeaveOK
<1>12. CASE ConfirmReload
  BY <1>12, <1>t DEF ConfirmReload, LeaveOK
<1>13. ASSUME NEW kind \in {"save", "stage", "stageOnly", "resolve"}, SaveStart(kind) PROVE LeaveOK'
  BY <1>13, <1>t DEF SaveStart, LeaveOK
<1>14. CASE WriteLoad
  <2>1. CASE SaveRefused
    BY <2>1, FinishFacts DEF SaveRefused, LeaveOK
  <2> QED
    BY <1>14, <1>t, <2>1 DEF WriteLoad, LeaveOK
<1>15. CASE WriteSwap
  <2>1. CASE SaveRefused
    BY <2>1, FinishFacts DEF SaveRefused, LeaveOK
  <2> QED
    BY <1>15, <1>t, <2>1 DEF WriteSwap, LeaveOK
<1>16. CASE SaveWritten
  BY <1>16, <1>t DEF SaveWritten, LeaveOK
<1>17. ASSUME NEW ok \in BOOLEAN, AnswerOverwrite(ok) PROVE LeaveOK'
  <2>1. CASE SaveRefused
    BY <2>1, FinishFacts DEF SaveRefused, LeaveOK
  <2> QED
    BY <1>17, <1>t, <2>1 DEF AnswerOverwrite, LeaveOK
<1>18. CASE Staged
  BY <1>18, FinishFacts DEF Staged, LeaveOK
<1>19. CASE ResolvedFile
  BY <1>19, FinishFacts DEF ResolvedFile, LeaveOK
<1>20. CASE RequestLeave
  BY <1>20, <1>t DEF RequestLeave, LeaveOK, LeaveType
<1>21. CASE LeaveSave
  BY <1>21, <1>t, ResolvedFacts DEF LeaveSave, LeaveOK
<1>22. CASE LeaveDiscard
  BY <1>22, <1>t DEF LeaveDiscard, LeaveOK, LeaveType
<1>23. CASE LeaveCancel
  BY <1>23, <1>t, ResolvedFacts DEF LeaveCancel, LeaveOK
<1>24. CASE Stay
  BY <1>24, <1>t DEF Stay, LeaveOK, LeaveType
<1>25. CASE Unmount
  BY <1>25, <1>t, IdleFacts DEF Unmount, LeaveOK, LeaveType, NoLeave
<1> QED
  BY <1>0, <1>1, <1>2, <1>3, <1>4, <1>5, <1>6, <1>7, <1>8, <1>9, <1>10, <1>11, <1>12,
     <1>13, <1>14, <1>15, <1>16, <1>17, <1>18, <1>19, <1>20, <1>21, <1>22, <1>23, <1>24,
     <1>25 DEF Next

LEMMA GhostTyped ==
  ASSUME Typed, Flight, [Next]_vars
  PROVE  GhostOK'
<1>t. GhostOK
  BY DEF Typed
<1>0. CASE UNCHANGED vars
  BY <1>0, <1>t DEF vars, GhostOK
<1>1. CASE DraftTimer
  BY <1>1, <1>t, WriteFacts DEF DraftTimer, GhostOK
<1>2. CASE Flush
  BY <1>2, <1>t, WriteFacts DEF Flush, GhostOK
<1>3. CASE WriteAnswered
  BY <1>3, <1>t DEF WriteAnswered, GhostOK, Excuse
<1>4. CASE DeleteAnswered
  BY <1>4, <1>t, AnswerFacts DEF GhostOK, Excuse
<1>5. ASSUME NEW i \in DOMAIN calls, DeleteTimeout(i) PROVE GhostOK'
  BY <1>5, <1>t, TimeoutFacts DEF GhostOK, Excuse
<1>6. ASSUME NEW t \in Content, Type(t) PROVE GhostOK'
  BY <1>6, <1>t DEF Type, GhostOK, Excuse
<1>7. ASSUME NEW d \in Disk, Outside(d) PROVE GhostOK'
  BY <1>7, <1>t DEF Outside, GhostOK
<1>8. CASE CheckStart
  BY <1>8, <1>t DEF CheckStart, GhostOK
<1>9. ASSUME NEW c \in checks, CheckLand(c) PROVE GhostOK'
  BY <1>9, <1>t DEF CheckLand, CheckGone, CheckSame, CheckOther, Resume, GhostOK, Excuse
<1>10. CASE Probe
  BY <1>10, <1>t DEF Probe, Resume, GhostOK, Excuse
<1>11. CASE DismissGone
  BY <1>11, <1>t DEF DismissGone, GhostOK
<1>12. CASE ConfirmReload
  BY <1>12, <1>t DEF ConfirmReload, GhostOK, Excuse
<1>13. ASSUME NEW kind \in {"save", "stage", "stageOnly", "resolve"}, SaveStart(kind) PROVE GhostOK'
  BY <1>13, <1>t DEF SaveStart, GhostOK
<1>14. CASE WriteLoad
  BY <1>14, <1>t DEF WriteLoad, SaveRefused, GhostOK
<1>15. CASE WriteSwap
  BY <1>15, <1>t DEF WriteSwap, SaveRefused, GhostOK
<1>16. CASE SaveWritten
  BY <1>16, <1>t DEF SaveWritten, GhostOK
<1>17. ASSUME NEW ok \in BOOLEAN, AnswerOverwrite(ok) PROVE GhostOK'
  BY <1>17, <1>t DEF AnswerOverwrite, SaveRefused, GhostOK
<1>18. CASE Staged
  BY <1>18, <1>t DEF Staged, GhostOK
<1>19. CASE ResolvedFile
  BY <1>19, <1>t DEF ResolvedFile, GhostOK
<1>20. CASE RequestLeave
  BY <1>20, <1>t DEF RequestLeave, GhostOK
<1>21. CASE LeaveSave
  BY <1>21, <1>t DEF LeaveSave, GhostOK, Excuse
<1>22. CASE LeaveDiscard
  BY <1>22, <1>t DEF LeaveDiscard, GhostOK
<1>23. CASE LeaveCancel
  BY <1>23, <1>t DEF LeaveCancel, GhostOK
<1>24. CASE Stay
  BY <1>24, <1>t DEF Stay, GhostOK, Excuse
<1>25. CASE Unmount
  BY <1>25, <1>t, WriteFacts DEF Unmount, GhostOK
<1> QED
  BY <1>0, <1>1, <1>2, <1>3, <1>4, <1>5, <1>6, <1>7, <1>8, <1>9, <1>10, <1>11, <1>12,
     <1>13, <1>14, <1>15, <1>16, <1>17, <1>18, <1>19, <1>20, <1>21, <1>22, <1>23, <1>24,
     <1>25 DEF Next

LEMMA SpentTyped ==
  ASSUME Typed, Flight, [Next]_vars
  PROVE  SpentOK'
<1>t. SpentOK
  BY DEF Typed
<1>0. CASE UNCHANGED vars
  BY <1>0, <1>t DEF vars, SpentOK
<1>1. CASE DraftTimer
  BY <1>1, <1>t DEF DraftTimer, SpentOK
<1>2. CASE Flush
  <2>1. CASE UNCHANGED spent
    BY <1>t, <2>1 DEF SpentOK
  <2>2. CASE Spend("flush")
    BY <1>t, <2>2, SpendFacts DEF Step
  <2> QED
    BY <1>2, <2>1, <2>2 DEF Flush
<1>3. CASE WriteAnswered
  <2>1. CASE UNCHANGED spent
    BY <1>t, <2>1 DEF SpentOK
  <2>2. CASE Spend("failure")
    BY <1>t, <2>2, SpendFacts DEF Step
  <2> QED
    BY <1>3, <2>1, <2>2 DEF WriteAnswered
<1>4. CASE DeleteAnswered
  BY <1>4, <1>t, AnswerFacts, SpendFacts DEF SpentOK, Step
<1>5. ASSUME NEW i \in DOMAIN calls, DeleteTimeout(i) PROVE SpentOK'
  BY <1>5, <1>t, TimeoutFacts, SpendFacts DEF SpentOK, Step
<1>6. ASSUME NEW t \in Content, Type(t) PROVE SpentOK'
  <2>1. CASE UNCHANGED spent
    BY <1>t, <2>1 DEF SpentOK
  <2>2. CASE Spend("type")
    BY <1>t, <2>2, SpendFacts DEF Step
  <2> QED
    BY <1>6, <2>1, <2>2 DEF Type
<1>7. ASSUME NEW d \in Disk, Outside(d) PROVE SpentOK'
  <2>1. CASE UNCHANGED spent
    BY <1>t, <2>1 DEF SpentOK
  <2>2. CASE Spend("outside")
    BY <1>t, <2>2, SpendFacts DEF Step
  <2> QED
    BY <1>7, <2>1, <2>2 DEF Outside
<1>8. CASE CheckStart
  BY <1>8, <1>t DEF CheckStart, SpentOK
<1>9. ASSUME NEW c \in checks, CheckLand(c) PROVE SpentOK'
  <2>1. CASE UNCHANGED spent
    BY <1>t, <2>1 DEF SpentOK
  <2>2. CASE Spend("compose")
    BY <1>t, <2>2, SpendFacts DEF Step
  <2> QED
    BY <1>9, <2>1, <2>2 DEF CheckLand
<1>10. CASE Probe
  BY <1>10, <1>t DEF Probe, SpentOK
<1>11. CASE DismissGone
  BY <1>11, <1>t DEF DismissGone, SpentOK
<1>12. CASE ConfirmReload
  BY <1>12, <1>t DEF ConfirmReload, SpentOK
<1>13. ASSUME NEW kind \in {"save", "stage", "stageOnly", "resolve"}, SaveStart(kind) PROVE SpentOK'
  <2>1. CASE UNCHANGED spent
    BY <1>t, <2>1 DEF SpentOK
  <2>2. CASE Spend("save")
    BY <1>t, <2>2, SpendFacts DEF Step
  <2> QED
    BY <1>13, <2>1, <2>2 DEF SaveStart
<1>14. CASE WriteLoad
  <2>1. CASE UNCHANGED spent
    BY <1>t, <2>1 DEF SpentOK
  <2>2. CASE Spend("failure")
    BY <1>t, <2>2, SpendFacts DEF Step
  <2> QED
    BY <1>14, <2>1, <2>2 DEF WriteLoad
<1>15. CASE WriteSwap
  BY <1>15, <1>t DEF WriteSwap, SpentOK
<1>16. CASE SaveWritten
  BY <1>16, <1>t DEF SaveWritten, SpentOK
<1>17. ASSUME NEW ok \in BOOLEAN, AnswerOverwrite(ok) PROVE SpentOK'
  BY <1>17, <1>t DEF AnswerOverwrite, SpentOK
<1>18. CASE Staged
  BY <1>18, <1>t DEF Staged, SpentOK
<1>19. CASE ResolvedFile
  <2>1. CASE UNCHANGED spent
    BY <1>t, <2>1 DEF SpentOK
  <2>2. CASE Spend("failure")
    BY <1>t, <2>2, SpendFacts DEF Step
  <2> QED
    BY <1>19, <2>1, <2>2 DEF ResolvedFile
<1>20. CASE RequestLeave
  <2>1. CASE UNCHANGED spent
    BY <1>t, <2>1 DEF SpentOK
  <2>2. CASE Spend("leave")
    BY <1>t, <2>2, SpendFacts DEF Step
  <2> QED
    BY <1>20, <2>1, <2>2 DEF RequestLeave
<1>21. CASE LeaveSave
  BY <1>21, <1>t DEF LeaveSave, SpentOK
<1>22. CASE LeaveDiscard
  BY <1>22, <1>t DEF LeaveDiscard, SpentOK
<1>23. CASE LeaveCancel
  BY <1>23, <1>t DEF LeaveCancel, SpentOK
<1>24. CASE Stay
  <2>1. CASE UNCHANGED spent
    BY <1>t, <2>1 DEF SpentOK
  <2>2. CASE Spend("stay")
    BY <1>t, <2>2, SpendFacts DEF Step
  <2> QED
    BY <1>24, <2>1, <2>2 DEF Stay
<1>25. CASE Unmount
  BY <1>25, <1>t DEF Unmount, SpentOK
<1> QED
  BY <1>0, <1>1, <1>2, <1>3, <1>4, <1>5, <1>6, <1>7, <1>8, <1>9, <1>10, <1>11, <1>12,
     <1>13, <1>14, <1>15, <1>16, <1>17, <1>18, <1>19, <1>20, <1>21, <1>22, <1>23, <1>24,
     <1>25 DEF Next

(* Who is waited for: nothing changes when only a call that nobody waits   *)
(* for is made.                                                            *)
LEMMA WaitsSame ==
  ASSUME Typed, Waits, (save'.at = "drafting") <=> (save.at = "drafting"), leave'.discarding = leave.discarding,
         calls' = calls \/ \E c \in CallType : c.waiter = "self" /\ calls' = Append(calls, c)
  PROVE  Waits'
<1>1. calls \in Seq(CallType)
  BY DEF Typed, CallsOK
<1>2. ASSUME NEW w \in {"save", "leave"}
      PROVE  (One(calls, w) => One(calls, w)') /\ (Nobody(calls, w) => Nobody(calls, w)')
  <2>1. CASE calls' = calls
    BY <2>1 DEF One, Nobody
  <2>2. ASSUME NEW c \in CallType, c.waiter = "self", calls' = Append(calls, c) PROVE <1>2!2
    <3>1. (One(calls, w) => One(Append(calls, c), w)) /\ (Nobody(calls, w) => Nobody(Append(calls, c), w))
      BY <1>1, <2>2, WaitsAppend
    <3> QED
      BY <2>2, <3>1 DEF One, Nobody
  <2> QED
    BY <2>1, <2>2
<1> QED
  BY <1>2 DEF Waits

LEMMA WaitsKept ==
  ASSUME Typed, Waits, Heard, [Next]_vars
  PROVE  Waits'
<1>0. CASE UNCHANGED vars
  <2>1. (save'.at = "drafting") <=> (save.at = "drafting")
    BY <1>0 DEF vars
  <2>2. leave'.discarding = leave.discarding
    BY <1>0 DEF vars
  <2>3. calls' = calls \/ \E c \in CallType : c.waiter = "self" /\ calls' = Append(calls, c)
    BY <1>0 DEF vars, store
  <2> QED
    BY <2>1, <2>2, <2>3, WaitsSame
<1>1. CASE DraftTimer
  <2>1. (save'.at = "drafting") <=> (save.at = "drafting")
    BY <1>1 DEF DraftTimer
  <2>2. leave'.discarding = leave.discarding
    BY <1>1 DEF DraftTimer
  <2>3. calls' = calls \/ \E c \in CallType : c.waiter = "self" /\ calls' = Append(calls, c)
    BY <1>1, WriteFacts DEF DraftTimer
  <2> QED
    BY <2>1, <2>2, <2>3, WaitsSame
<1>2. CASE Flush
  <2>1. (save'.at = "drafting") <=> (save.at = "drafting")
    BY <1>2 DEF Flush
  <2>2. leave'.discarding = leave.discarding
    BY <1>2 DEF Flush
  <2>3. calls' = calls \/ \E c \in CallType : c.waiter = "self" /\ calls' = Append(calls, c)
    BY <1>2, WriteFacts DEF Flush
  <2> QED
    BY <2>1, <2>2, <2>3, WaitsSame
<1>3. CASE WriteAnswered
  <2>1. calls \in Seq(CallType)
    BY DEF Typed, CallsOK
  <2>2. calls # <<>> /\ calls' = Tail(calls) /\ UNCHANGED <<save, leave>>
    BY <1>3 DEF WriteAnswered
  <2>3. Head(calls).waiter = "self"
    BY <1>3, <2>1, <2>2, QueueFacts DEF WriteAnswered, Heard
  <2>4. \A w \in {"save", "leave"} : (One(calls, w) => One(Tail(calls), w)) /\ (Nobody(calls, w) => Nobody(Tail(calls), w))
    BY <2>1, <2>2, <2>3, WaitsTail
  <2> QED
    BY <2>2, <2>4 DEF Waits, One, Nobody
<1>4. CASE DeleteAnswered
  <2>0. PICK keep \in Maybe : Continue(Head(calls).waiter, keep)
    BY <1>4, AnswerFacts
  <2> DEFINE w == Head(calls).waiter
  <2>1. w \in {"self", "save", "leave", "late"} /\ Continue(w, keep)
    BY <1>4, <2>0, AnswerFacts DEF CallType
  <2>2. \A v \in {"save", "leave"} :
                   /\ w # v => (One(calls, v) => One(calls', v)) /\ (Nobody(calls, v) => Nobody(calls', v))
                   /\ w = v => ~Nobody(calls, v) /\ (One(calls, v) => Nobody(calls', v))
    <3>1. calls \in Seq(CallType) /\ calls # <<>> /\ calls' = Tail(calls)
      BY <1>4, AnswerFacts DEF Typed, CallsOK
    <3> QED
      BY <3>1, WaitsTail
  <2> HIDE DEF w
  <2>3. CASE w = "save"
    <3>1. save.at = "drafting" /\ One(calls, "save") /\ Nobody(calls', "save")
      BY <2>2, <2>3, Zenon DEF Waits
    <3>2. AfterDraft
      BY <2>1, <2>3, ContinueFacts
    <3>3. save'.at # "drafting" /\ leave'.discarding = leave.discarding
      BY <3>2, AfterDraftFacts
    <3> QED
      BY <2>2, <2>3, <3>1, <3>3 DEF Waits, One, Nobody
  <2>4. CASE w = "leave"
    <3>1. leave.discarding /\ One(calls, "leave") /\ Nobody(calls', "leave")
      BY <2>2, <2>4, Zenon DEF Waits
    <3>2. save' = save /\ leave'.discarding = FALSE
      BY <2>1, <2>4, ContinueFacts
    <3> QED
      BY <2>2, <2>4, <3>1, <3>2 DEF Waits, One, Nobody
  <2>5. CASE w \in {"self", "late"}
    <3>1. save' = save /\ leave' = leave
      BY <2>1, <2>5, ContinueFacts
    <3> QED
      BY <2>2, <2>5, <3>1 DEF Waits, One, Nobody
  <2> QED
    BY <2>1, <2>3, <2>4, <2>5
<1>5. ASSUME NEW i \in DOMAIN calls, DeleteTimeout(i) PROVE Waits'
  <2> DEFINE w == calls[i].waiter
  <2>1. w \in {"self", "save", "leave", "late"} /\ Continue(w, last) /\ last \in Maybe
    BY <1>5, TimeoutFacts
  <2>2. \A v \in {"save", "leave"} :
                   /\ w # v => (One(calls, v) => One(calls', v)) /\ (Nobody(calls, v) => Nobody(calls', v))
                   /\ w = v => ~Nobody(calls, v) /\ (One(calls, v) => Nobody(calls', v))
    BY <1>5, TimeoutFacts, WaitsUnheard DEF Typed
  <2> HIDE DEF w
  <2>3. CASE w = "save"
    <3>1. save.at = "drafting" /\ One(calls, "save") /\ Nobody(calls', "save")
      BY <2>2, <2>3, Zenon DEF Waits
    <3>2. AfterDraft
      BY <2>1, <2>3, ContinueFacts
    <3>3. save'.at # "drafting" /\ leave'.discarding = leave.discarding
      BY <3>2, AfterDraftFacts
    <3> QED
      BY <2>2, <2>3, <3>1, <3>3 DEF Waits, One, Nobody
  <2>4. CASE w = "leave"
    <3>1. leave.discarding /\ One(calls, "leave") /\ Nobody(calls', "leave")
      BY <2>2, <2>4, Zenon DEF Waits
    <3>2. save' = save /\ leave'.discarding = FALSE
      BY <2>1, <2>4, ContinueFacts
    <3> QED
      BY <2>2, <2>4, <3>1, <3>2 DEF Waits, One, Nobody
  <2>5. CASE w \in {"self", "late"}
    <3>1. save' = save /\ leave' = leave
      BY <2>1, <2>5, ContinueFacts
    <3> QED
      BY <2>2, <2>5, <3>1 DEF Waits, One, Nobody
  <2> QED
    BY <2>1, <2>3, <2>4, <2>5
<1>6. ASSUME NEW t \in Content, Type(t) PROVE Waits'
  <2>1. (save'.at = "drafting") <=> (save.at = "drafting")
    BY <1>6 DEF Type
  <2>2. leave'.discarding = leave.discarding
    BY <1>6 DEF Type
  <2>3. calls' = calls \/ \E c \in CallType : c.waiter = "self" /\ calls' = Append(calls, c)
    <3>1. CASE DeleteNow("self")
      BY <3>1, DeleteFacts DEF Typed
    <3> QED
      BY <1>6, <3>1 DEF Type
  <2> QED
    BY <2>1, <2>2, <2>3, WaitsSame
<1>7. ASSUME NEW d \in Disk, Outside(d) PROVE Waits'
  <2>1. (save'.at = "drafting") <=> (save.at = "drafting")
    BY <1>7 DEF Outside, Typed, SaveOK, SaveType
  <2>2. leave'.discarding = leave.discarding
    BY <1>7 DEF Outside
  <2>3. calls' = calls \/ \E c \in CallType : c.waiter = "self" /\ calls' = Append(calls, c)
    BY <1>7 DEF Outside, store
  <2> QED
    BY <2>1, <2>2, <2>3, WaitsSame
<1>8. CASE CheckStart
  <2>1. (save'.at = "drafting") <=> (save.at = "drafting")
    BY <1>8 DEF CheckStart
  <2>2. leave'.discarding = leave.discarding
    BY <1>8 DEF CheckStart
  <2>3. calls' = calls \/ \E c \in CallType : c.waiter = "self" /\ calls' = Append(calls, c)
    BY <1>8 DEF CheckStart, store
  <2> QED
    BY <2>1, <2>2, <2>3, WaitsSame
<1>9. ASSUME NEW c \in checks, CheckLand(c) PROVE Waits'
  <2>1. (save'.at = "drafting") <=> (save.at = "drafting")
    BY <1>9 DEF CheckLand
  <2>2. leave'.discarding = leave.discarding
    BY <1>9 DEF CheckLand
  <2>3. calls' = calls \/ \E k \in CallType : k.waiter = "self" /\ calls' = Append(calls, k)
    BY <1>9 DEF CheckLand, store
  <2> QED
    BY <2>1, <2>2, <2>3, WaitsSame
<1>10. CASE Probe
  <2>1. (save'.at = "drafting") <=> (save.at = "drafting")
    BY <1>10 DEF Probe
  <2>2. leave'.discarding = leave.discarding
    BY <1>10 DEF Probe
  <2>3. calls' = calls \/ \E c \in CallType : c.waiter = "self" /\ calls' = Append(calls, c)
    <3>1. CASE DeleteNow("self")
      BY <3>1, DeleteFacts DEF Typed
    <3> QED
      BY <1>10, <3>1 DEF Probe
  <2> QED
    BY <2>1, <2>2, <2>3, WaitsSame
<1>11. CASE DismissGone
  <2>1. (save'.at = "drafting") <=> (save.at = "drafting")
    BY <1>11 DEF DismissGone
  <2>2. leave'.discarding = leave.discarding
    BY <1>11 DEF DismissGone
  <2>3. calls' = calls \/ \E c \in CallType : c.waiter = "self" /\ calls' = Append(calls, c)
    BY <1>11 DEF DismissGone, store
  <2> QED
    BY <2>1, <2>2, <2>3, WaitsSame
<1>12. CASE ConfirmReload
  <2>1. (save'.at = "drafting") <=> (save.at = "drafting")
    BY <1>12 DEF ConfirmReload
  <2>2. leave'.discarding = leave.discarding
    BY <1>12 DEF ConfirmReload
  <2>3. calls' = calls \/ \E c \in CallType : c.waiter = "self" /\ calls' = Append(calls, c)
    BY <1>12, DeleteFacts DEF ConfirmReload, Typed
  <2> QED
    BY <2>1, <2>2, <2>3, WaitsSame
<1>13. ASSUME NEW kind \in {"save", "stage", "stageOnly", "resolve"}, SaveStart(kind) PROVE Waits'
  <2>1. (save'.at = "drafting") <=> (save.at = "drafting")
    BY <1>13, BegunFacts DEF SaveStart, Saving, Idle, Typed
  <2>2. leave'.discarding = leave.discarding
    BY <1>13 DEF SaveStart
  <2>3. calls' = calls \/ \E c \in CallType : c.waiter = "self" /\ calls' = Append(calls, c)
    BY <1>13 DEF SaveStart, store
  <2> QED
    BY <2>1, <2>2, <2>3, WaitsSame
<1>14. CASE WriteLoad
  <2>1. (save'.at = "drafting") <=> (save.at = "drafting")
    <3>0. save.at # "drafting"
      BY <1>14 DEF WriteLoad
    <3>1. CASE SaveRefused
      <4>1. save' = Idle \/ save'.at = "resolving"
        BY <3>1, FinishFacts DEF SaveRefused
      <4> QED
        BY <3>0, <4>1, IdleFacts
    <3> QED
      BY <1>14, <3>0, <3>1, BegunFacts DEF WriteLoad, Typed, SaveOK, SaveType
  <2>2. leave'.discarding = leave.discarding
    <3>1. CASE SaveRefused
      BY <3>1, FinishFacts DEF SaveRefused
    <3> QED
      BY <1>14, <3>1 DEF WriteLoad
  <2>3. calls' = calls \/ \E c \in CallType : c.waiter = "self" /\ calls' = Append(calls, c)
    BY <1>14 DEF WriteLoad, SaveRefused, store
  <2> QED
    BY <2>1, <2>2, <2>3, WaitsSame
<1>15. CASE WriteSwap
  <2>1. (save'.at = "drafting") <=> (save.at = "drafting")
    <3>0. save.at # "drafting"
      BY <1>15 DEF WriteSwap
    <3>1. CASE SaveRefused
      <4>1. save' = Idle \/ save'.at = "resolving"
        BY <3>1, FinishFacts DEF SaveRefused
      <4> QED
        BY <3>0, <4>1, IdleFacts
    <3> QED
      BY <1>15, <3>0, <3>1, BegunFacts DEF WriteSwap, Typed, SaveOK, SaveType
  <2>2. leave'.discarding = leave.discarding
    <3>1. CASE SaveRefused
      BY <3>1, FinishFacts DEF SaveRefused
    <3> QED
      BY <1>15, <3>1 DEF WriteSwap
  <2>3. calls' = calls \/ \E c \in CallType : c.waiter = "self" /\ calls' = Append(calls, c)
    BY <1>15 DEF WriteSwap, SaveRefused, store
  <2> QED
    BY <2>1, <2>2, <2>3, WaitsSame
<1>16. CASE SaveWritten
  <2>1. calls \in Seq(CallType)
    BY DEF Typed, CallsOK
  <2>2. PICK c \in CallType : c.waiter = "save" /\ calls' = Append(calls, c)
    BY <1>16, DeleteFacts DEF SaveWritten, Typed
  <2>3. save.at = "written" /\ save'.at = "drafting" /\ leave' = leave
    BY <1>16 DEF SaveWritten, Typed, SaveOK, SaveType
  <2>4. (Nobody(calls, "save") => One(calls', "save")) /\ (One(calls, "leave") => One(calls', "leave")) /\ (Nobody(calls, "leave") => Nobody(calls', "leave"))
    BY <2>1, <2>2, WaitsAppend
  <2> QED
    BY <2>2, <2>3, <2>4 DEF Waits, One, Nobody
<1>17. ASSUME NEW ok \in BOOLEAN, AnswerOverwrite(ok) PROVE Waits'
  <2>1. (save'.at = "drafting") <=> (save.at = "drafting")
    <3>0. save.at # "drafting"
      BY <1>17 DEF AnswerOverwrite
    <3>1. CASE SaveRefused
      <4>1. save' = Idle \/ save'.at = "resolving"
        BY <3>1, FinishFacts DEF SaveRefused
      <4> QED
        BY <3>0, <4>1, IdleFacts
    <3> QED
      BY <1>17, <3>0, <3>1, BegunFacts DEF AnswerOverwrite, Typed, SaveOK, SaveType
  <2>2. leave'.discarding = leave.discarding
    <3>1. CASE SaveRefused
      BY <3>1, FinishFacts DEF SaveRefused
    <3> QED
      BY <1>17, <3>1 DEF AnswerOverwrite
  <2>3. calls' = calls \/ \E c \in CallType : c.waiter = "self" /\ calls' = Append(calls, c)
    BY <1>17 DEF AnswerOverwrite, SaveRefused, store
  <2> QED
    BY <2>1, <2>2, <2>3, WaitsSame
<1>18. CASE Staged
  <2>1. (save'.at = "drafting") <=> (save.at = "drafting")
    <3>1. save' = Idle \/ save'.at = "resolving"
      BY <1>18, FinishFacts DEF Staged
    <3> QED
      BY <1>18, <3>1, IdleFacts DEF Staged
  <2>2. leave'.discarding = leave.discarding
    BY <1>18, FinishFacts DEF Staged
  <2>3. calls' = calls \/ \E c \in CallType : c.waiter = "self" /\ calls' = Append(calls, c)
    BY <1>18 DEF Staged, store
  <2> QED
    BY <2>1, <2>2, <2>3, WaitsSame
<1>19. CASE ResolvedFile
  <2>1. (save'.at = "drafting") <=> (save.at = "drafting")
    <3>1. save' = Idle \/ save'.at = "resolving"
      BY <1>19, FinishFacts DEF ResolvedFile
    <3> QED
      BY <1>19, <3>1, IdleFacts DEF ResolvedFile
  <2>2. leave'.discarding = leave.discarding
    BY <1>19, FinishFacts DEF ResolvedFile
  <2>3. calls' = calls \/ \E c \in CallType : c.waiter = "self" /\ calls' = Append(calls, c)
    BY <1>19 DEF ResolvedFile, store
  <2> QED
    BY <2>1, <2>2, <2>3, WaitsSame
<1>20. CASE RequestLeave
  <2>1. (save'.at = "drafting") <=> (save.at = "drafting")
    BY <1>20 DEF RequestLeave
  <2>2. leave'.discarding = leave.discarding
    BY <1>20 DEF RequestLeave, Typed, LeaveOK, LeaveType
  <2>3. calls' = calls \/ \E c \in CallType : c.waiter = "self" /\ calls' = Append(calls, c)
    BY <1>20 DEF RequestLeave, store
  <2> QED
    BY <2>1, <2>2, <2>3, WaitsSame
<1>21. CASE LeaveSave
  <2>1. (save'.at = "drafting") <=> (save.at = "drafting")
    BY <1>21, BegunFacts DEF LeaveSave, Saving, Typed
  <2>2. leave'.discarding = leave.discarding
    BY <1>21, ResolvedFacts DEF LeaveSave, Typed
  <2>3. calls' = calls \/ \E c \in CallType : c.waiter = "self" /\ calls' = Append(calls, c)
    BY <1>21 DEF LeaveSave, store
  <2> QED
    BY <2>1, <2>2, <2>3, WaitsSame
<1>22. CASE LeaveDiscard
  <2>1. calls \in Seq(CallType)
    BY DEF Typed, CallsOK
  <2>2. PICK c \in CallType : c.waiter = "leave" /\ calls' = Append(calls, c)
    BY <1>22, DeleteFacts DEF LeaveDiscard, Typed
  <2>3. ~leave.discarding /\ leave'.discarding /\ save' = save
    BY <1>22 DEF LeaveDiscard, Typed, LeaveOK, LeaveType
  <2>4. (Nobody(calls, "leave") => One(calls', "leave")) /\ (One(calls, "save") => One(calls', "save")) /\ (Nobody(calls, "save") => Nobody(calls', "save"))
    BY <2>1, <2>2, WaitsAppend
  <2> QED
    BY <2>2, <2>3, <2>4 DEF Waits, One, Nobody
<1>23. CASE LeaveCancel
  <2>1. (save'.at = "drafting") <=> (save.at = "drafting")
    BY <1>23 DEF LeaveCancel
  <2>2. leave'.discarding = leave.discarding
    BY <1>23, ResolvedFacts DEF LeaveCancel, Typed
  <2>3. calls' = calls \/ \E c \in CallType : c.waiter = "self" /\ calls' = Append(calls, c)
    BY <1>23 DEF LeaveCancel, store
  <2> QED
    BY <2>1, <2>2, <2>3, WaitsSame
<1>24. CASE Stay
  <2>1. (save'.at = "drafting") <=> (save.at = "drafting")
    BY <1>24 DEF Stay
  <2>2. leave'.discarding = leave.discarding
    BY <1>24 DEF Stay, Typed, LeaveOK, LeaveType
  <2>3. calls' = calls \/ \E c \in CallType : c.waiter = "self" /\ calls' = Append(calls, c)
    BY <1>24 DEF Stay, store
  <2> QED
    BY <2>1, <2>2, <2>3, WaitsSame
<1>25. CASE Unmount
  <2>1. (save'.at = "drafting") <=> (save.at = "drafting")
    BY <1>25, IdleFacts DEF Unmount
  <2>2. leave'.discarding = leave.discarding
    BY <1>25, IdleFacts DEF Unmount, NoLeave
  <2>3. calls' = calls \/ \E c \in CallType : c.waiter = "self" /\ calls' = Append(calls, c)
    BY <1>25, WriteFacts DEF Unmount
  <2> QED
    BY <2>1, <2>2, <2>3, WaitsSame
<1> QED
  BY <1>0, <1>1, <1>2, <1>3, <1>4, <1>5, <1>6, <1>7, <1>8, <1>9, <1>10, <1>11, <1>12,
     <1>13, <1>14, <1>15, <1>16, <1>17, <1>18, <1>19, <1>20, <1>21, <1>22, <1>23, <1>24,
     <1>25 DEF Next

LEMMA HeardSame ==
  ASSUME Typed, Heard,
         calls' = calls \/ \E c \in CallType : (c.kind = "write" => c.waiter = "self") /\ calls' = Append(calls, c)
  PROVE  Heard'
<1>1. calls \in Seq(CallType)
  BY DEF Typed, CallsOK
<1>2. ASSUME NEW c \in CallType, c.kind = "write" => c.waiter = "self", calls' = Append(calls, c) PROVE Heard'
  <2>1. /\ DOMAIN Append(calls, c) = 1..(Len(calls) + 1) /\ DOMAIN calls = 1..Len(calls) /\ Len(calls) \in Nat
        /\ Append(calls, c)[Len(calls) + 1] = c /\ \A i \in DOMAIN calls : Append(calls, c)[i] = calls[i]
    BY <1>1, QueueFacts
  <2>2. \A i \in DOMAIN Append(calls, c) : i \in DOMAIN calls \/ i = Len(calls) + 1
    BY <2>1
  <2>3. \A i \in DOMAIN calls' : (i \in DOMAIN calls /\ calls'[i] = calls[i]) \/ calls'[i] = c
    BY <1>2, <2>1, <2>2
  <2> QED
    BY <1>2, <2>3 DEF Heard
<1> QED
  BY <1>2 DEF Heard

LEMMA HeardKept ==
  ASSUME Typed, Heard, [Next]_vars
  PROVE  Heard'
<1>0. CASE UNCHANGED vars
  <2>1. calls' = calls \/ \E c \in CallType : (c.kind = "write" => c.waiter = "self") /\ calls' = Append(calls, c)
    BY <1>0 DEF vars, store
  <2> QED
    BY <2>1, HeardSame
<1>1. CASE DraftTimer
  <2>1. calls' = calls \/ \E c \in CallType : (c.kind = "write" => c.waiter = "self") /\ calls' = Append(calls, c)
    BY <1>1, WriteFacts DEF DraftTimer
  <2> QED
    BY <2>1, HeardSame
<1>2. CASE Flush
  <2>1. calls' = calls \/ \E c \in CallType : (c.kind = "write" => c.waiter = "self") /\ calls' = Append(calls, c)
    BY <1>2, WriteFacts DEF Flush
  <2> QED
    BY <2>1, HeardSame
<1>3. CASE WriteAnswered
  <2>1. calls \in Seq(CallType) /\ calls # <<>> /\ calls' = Tail(calls)
    BY <1>3, HeadText DEF Typed, CallsOK
  <2>2. \A i \in DOMAIN Tail(calls) : i + 1 \in DOMAIN calls /\ Tail(calls)[i] = calls[i + 1]
    BY <2>1, QueueFacts
  <2> QED
    BY <2>1, <2>2 DEF Heard
<1>4. CASE DeleteAnswered
  <2>1. calls \in Seq(CallType) /\ calls # <<>> /\ calls' = Tail(calls)
    BY <1>4, AnswerFacts DEF Typed, CallsOK
  <2>2. \A i \in DOMAIN Tail(calls) : i + 1 \in DOMAIN calls /\ Tail(calls)[i] = calls[i + 1]
    BY <2>1, QueueFacts
  <2> QED
    BY <2>1, <2>2 DEF Heard
<1>5. ASSUME NEW i \in DOMAIN calls, DeleteTimeout(i) PROVE Heard'
  <2>1. calls[i].kind = "delete" /\ \A j \in DOMAIN calls : j # i => calls'[j] = calls[j]
    BY <1>5 DEF DeleteTimeout, Unheard
  <2>2. /\ DOMAIN calls' = DOMAIN calls
        /\ \A j \in DOMAIN calls : calls'[j].kind = calls[j].kind
    BY <1>5, TimeoutFacts, WaitsUnheard DEF Typed
  <2> QED
    BY <2>1, <2>2 DEF Heard
<1>6. ASSUME NEW t \in Content, Type(t) PROVE Heard'
  <2>1. calls' = calls \/ \E c \in CallType : (c.kind = "write" => c.waiter = "self") /\ calls' = Append(calls, c)
    <3>1. CASE DeleteNow("self")
      BY <3>1, DeleteFacts DEF Typed
    <3> QED
      BY <1>6, <3>1 DEF Type
  <2> QED
    BY <2>1, HeardSame
<1>7. ASSUME NEW d \in Disk, Outside(d) PROVE Heard'
  <2>1. calls' = calls \/ \E c \in CallType : (c.kind = "write" => c.waiter = "self") /\ calls' = Append(calls, c)
    BY <1>7 DEF Outside, store
  <2> QED
    BY <2>1, HeardSame
<1>8. CASE CheckStart
  <2>1. calls' = calls \/ \E c \in CallType : (c.kind = "write" => c.waiter = "self") /\ calls' = Append(calls, c)
    BY <1>8 DEF CheckStart, store
  <2> QED
    BY <2>1, HeardSame
<1>9. ASSUME NEW c \in checks, CheckLand(c) PROVE Heard'
  <2>1. calls' = calls \/ \E k \in CallType : (k.kind = "write" => k.waiter = "self") /\ calls' = Append(calls, k)
    BY <1>9 DEF CheckLand, store
  <2> QED
    BY <2>1, HeardSame
<1>10. CASE Probe
  <2>1. calls' = calls \/ \E c \in CallType : (c.kind = "write" => c.waiter = "self") /\ calls' = Append(calls, c)
    <3>1. CASE DeleteNow("self")
      BY <3>1, DeleteFacts DEF Typed
    <3> QED
      BY <1>10, <3>1 DEF Probe
  <2> QED
    BY <2>1, HeardSame
<1>11. CASE DismissGone
  <2>1. calls' = calls \/ \E c \in CallType : (c.kind = "write" => c.waiter = "self") /\ calls' = Append(calls, c)
    BY <1>11 DEF DismissGone, store
  <2> QED
    BY <2>1, HeardSame
<1>12. CASE ConfirmReload
  <2>1. calls' = calls \/ \E c \in CallType : (c.kind = "write" => c.waiter = "self") /\ calls' = Append(calls, c)
    BY <1>12, DeleteFacts DEF ConfirmReload, Typed
  <2> QED
    BY <2>1, HeardSame
<1>13. ASSUME NEW kind \in {"save", "stage", "stageOnly", "resolve"}, SaveStart(kind) PROVE Heard'
  <2>1. calls' = calls \/ \E c \in CallType : (c.kind = "write" => c.waiter = "self") /\ calls' = Append(calls, c)
    BY <1>13 DEF SaveStart, store
  <2> QED
    BY <2>1, HeardSame
<1>14. CASE WriteLoad
  <2>1. calls' = calls \/ \E c \in CallType : (c.kind = "write" => c.waiter = "self") /\ calls' = Append(calls, c)
    BY <1>14 DEF WriteLoad, SaveRefused, store
  <2> QED
    BY <2>1, HeardSame
<1>15. CASE WriteSwap
  <2>1. calls' = calls \/ \E c \in CallType : (c.kind = "write" => c.waiter = "self") /\ calls' = Append(calls, c)
    BY <1>15 DEF WriteSwap, SaveRefused, store
  <2> QED
    BY <2>1, HeardSame
<1>16. CASE SaveWritten
  <2>1. calls' = calls \/ \E c \in CallType : (c.kind = "write" => c.waiter = "self") /\ calls' = Append(calls, c)
    BY <1>16, DeleteFacts DEF SaveWritten, Typed
  <2> QED
    BY <2>1, HeardSame
<1>17. ASSUME NEW ok \in BOOLEAN, AnswerOverwrite(ok) PROVE Heard'
  <2>1. calls' = calls \/ \E c \in CallType : (c.kind = "write" => c.waiter = "self") /\ calls' = Append(calls, c)
    BY <1>17 DEF AnswerOverwrite, SaveRefused, store
  <2> QED
    BY <2>1, HeardSame
<1>18. CASE Staged
  <2>1. calls' = calls \/ \E c \in CallType : (c.kind = "write" => c.waiter = "self") /\ calls' = Append(calls, c)
    BY <1>18 DEF Staged, store
  <2> QED
    BY <2>1, HeardSame
<1>19. CASE ResolvedFile
  <2>1. calls' = calls \/ \E c \in CallType : (c.kind = "write" => c.waiter = "self") /\ calls' = Append(calls, c)
    BY <1>19 DEF ResolvedFile, store
  <2> QED
    BY <2>1, HeardSame
<1>20. CASE RequestLeave
  <2>1. calls' = calls \/ \E c \in CallType : (c.kind = "write" => c.waiter = "self") /\ calls' = Append(calls, c)
    BY <1>20 DEF RequestLeave, store
  <2> QED
    BY <2>1, HeardSame
<1>21. CASE LeaveSave
  <2>1. calls' = calls \/ \E c \in CallType : (c.kind = "write" => c.waiter = "self") /\ calls' = Append(calls, c)
    BY <1>21 DEF LeaveSave, store
  <2> QED
    BY <2>1, HeardSame
<1>22. CASE LeaveDiscard
  <2>1. calls' = calls \/ \E c \in CallType : (c.kind = "write" => c.waiter = "self") /\ calls' = Append(calls, c)
    BY <1>22, DeleteFacts DEF LeaveDiscard, Typed
  <2> QED
    BY <2>1, HeardSame
<1>23. CASE LeaveCancel
  <2>1. calls' = calls \/ \E c \in CallType : (c.kind = "write" => c.waiter = "self") /\ calls' = Append(calls, c)
    BY <1>23 DEF LeaveCancel, store
  <2> QED
    BY <2>1, HeardSame
<1>24. CASE Stay
  <2>1. calls' = calls \/ \E c \in CallType : (c.kind = "write" => c.waiter = "self") /\ calls' = Append(calls, c)
    BY <1>24 DEF Stay, store
  <2> QED
    BY <2>1, HeardSame
<1>25. CASE Unmount
  <2>1. calls' = calls \/ \E c \in CallType : (c.kind = "write" => c.waiter = "self") /\ calls' = Append(calls, c)
    BY <1>25, WriteFacts DEF Unmount
  <2> QED
    BY <2>1, HeardSame
<1> QED
  BY <1>0, <1>1, <1>2, <1>3, <1>4, <1>5, <1>6, <1>7, <1>8, <1>9, <1>10, <1>11, <1>12,
     <1>13, <1>14, <1>15, <1>16, <1>17, <1>18, <1>19, <1>20, <1>21, <1>22, <1>23, <1>24,
     <1>25 DEF Next

LEMMA TypeKept ==
  ASSUME TypeOK, Heard, Flight, [Next]_vars
  PROVE  TypeOK'
<1>1. Typed /\ Waits
  BY TypeParts
<1>2. EdOK' /\ WatchOK' /\ SaveOK' /\ DraftOK'
  BY <1>1, EdTyped, WatchTyped, SaveTyped, DraftTyped
<1>3. CallsOK' /\ LeaveOK' /\ GhostOK' /\ SpentOK'
  BY <1>1, CallsTyped, LeaveTyped, GhostTyped, SpentTyped
<1>4. Typed'
  BY <1>2, <1>3 DEF Typed
<1>5. Waits'
  BY <1>1, WaitsKept
<1> QED
  BY <1>4, <1>5, TypeParts, PTL

-----------------------------------------------------------------------------
(* A save under way.                                                       *)
LEMMA FlightSame ==
  ASSUME Flight, UNCHANGED <<disk, save>>, ed'.hash = ed'.basis
  PROVE  Flight'
BY DEF Flight

LEMMA FlightOver ==
  ASSUME Flight, ed'.hash = ed'.basis, save'.at \in {"idle", "staging", "resolving"}
  PROVE  Flight'
BY DEF Flight, Takes, Begins

LEMMA FlightBegun ==
  ASSUME EdOK, Flight, NEW kind \in {"save", "stage", "stageOnly", "resolve", "leave"}, NEW force \in BOOLEAN,
         save' = Begun(kind, force), ed' = ed
  PROVE  Flight'
<1>1. ed.text \in Content /\ ed.hash \in Content /\ ed.hash = ed.basis
  BY DEF EdOK, Ed, Flight
<1> QED
  BY <1>1, BegunFacts DEF Flight, Takes

LEMMA FlightKept ==
  ASSUME Typed, Flight, [Next]_vars
  PROVE  Flight'
<1>t. EdOK /\ ed \in Ed /\ save \in SaveType
  BY DEF Typed, EdOK, SaveOK
<1>0. CASE UNCHANGED vars
  <2>1. UNCHANGED <<disk, save>> /\ ed'.hash = ed'.basis
    BY <1>0 DEF vars, Flight
  <2> QED
    BY <2>1, FlightSame
<1>1. CASE DraftTimer
  <2>1. UNCHANGED <<disk, save>> /\ ed'.hash = ed'.basis
    BY <1>1, <1>t DEF DraftTimer, Flight
  <2> QED
    BY <2>1, FlightSame
<1>2. CASE Flush
  <2>1. UNCHANGED <<disk, save>> /\ ed'.hash = ed'.basis
    BY <1>2, <1>t DEF Flush, Flight
  <2> QED
    BY <2>1, FlightSame
<1>3. CASE WriteAnswered
  <2>1. UNCHANGED <<disk, save>> /\ ed'.hash = ed'.basis
    BY <1>3, <1>t DEF WriteAnswered, Flight
  <2> QED
    BY <2>1, FlightSame
<1>4. CASE DeleteAnswered
  <2>1. PICK w \in {"self", "save", "leave", "late"}, keep \in Maybe : Continue(w, keep) /\ UNCHANGED <<disk, ed>>
    BY <1>4, AnswerFacts DEF CallType
  <2>2. CASE w = "save"
    <3>1. save'.at \in {"idle", "staging", "resolving"}
      BY <2>1, <2>2, ContinueFacts, AfterDraftFacts
    <3> QED
      BY <2>1, <3>1, FlightOver DEF Flight
  <2>3. CASE w # "save"
    <3>1. save' = save
      BY <2>1, <2>3, ContinueFacts
    <3> QED
      BY <2>1, <3>1, FlightSame DEF Flight
  <2> QED
    BY <2>2, <2>3
<1>5. ASSUME NEW i \in DOMAIN calls, DeleteTimeout(i) PROVE Flight'
  <2>1. PICK w \in {"self", "save", "leave", "late"}, keep \in Maybe : Continue(w, keep) /\ UNCHANGED <<disk, ed>>
    BY <1>5, TimeoutFacts
  <2>2. CASE w = "save"
    <3>1. save'.at \in {"idle", "staging", "resolving"}
      BY <2>1, <2>2, ContinueFacts, AfterDraftFacts
    <3> QED
      BY <2>1, <3>1, FlightOver DEF Flight
  <2>3. CASE w # "save"
    <3>1. save' = save
      BY <2>1, <2>3, ContinueFacts
    <3> QED
      BY <2>1, <3>1, FlightSame DEF Flight
  <2> QED
    BY <2>2, <2>3
<1>6. ASSUME NEW t \in Content, Type(t) PROVE Flight'
  <2>1. UNCHANGED <<disk, save>> /\ ed'.hash = ed'.basis
    BY <1>6, <1>t DEF Type, Flight, Ed
  <2> QED
    BY <2>1, FlightSame
<1>7. ASSUME NEW d \in Disk, Outside(d) PROVE Flight'
  <2>1. ed' = ed /\ save'.at = save.at /\ (save.at = "loaded" => save'.moved) /\ save'.snap = save.snap
        /\ save'.expected = save.expected /\ save'.from = save.from
    BY <1>7, <1>t DEF Outside, SaveType
  <2> QED
    BY <2>1 DEF Flight, Takes, Begins
<1>8. CASE CheckStart
  <2>1. UNCHANGED <<disk, save>> /\ ed'.hash = ed'.basis
    BY <1>8, <1>t DEF CheckStart, Flight
  <2> QED
    BY <2>1, FlightSame
<1>9. ASSUME NEW c \in checks, CheckLand(c) PROVE Flight'
  <2>1. UNCHANGED <<disk, save>> /\ ed'.hash = ed'.basis
    <3>1. CASE UNCHANGED ed
      BY <1>9, <3>1 DEF CheckLand, Flight
    <3>2. CASE Reload(c.seen) /\ c.seen \in Content
      BY <1>9, <1>t, <3>2, ReloadFacts DEF CheckLand
    <3> QED
      BY <1>9, <3>1, <3>2 DEF CheckLand, CheckGone, CheckSame, CheckOther
  <2> QED
    BY <2>1, FlightSame
<1>10. CASE Probe
  <2>1. UNCHANGED <<disk, save>> /\ ed'.hash = ed'.basis
    BY <1>10, <1>t DEF Probe, Flight
  <2> QED
    BY <2>1, FlightSame
<1>11. CASE DismissGone
  <2>1. UNCHANGED <<disk, save>> /\ ed'.hash = ed'.basis
    BY <1>11, <1>t DEF DismissGone, Flight
  <2> QED
    BY <2>1, FlightSame
<1>12. CASE ConfirmReload
  <2>1. UNCHANGED <<disk, save>> /\ ed'.hash = ed'.basis
    BY <1>12, <1>t, ReloadFacts DEF ConfirmReload
  <2> QED
    BY <2>1, FlightSame
<1>13. ASSUME NEW kind \in {"save", "stage", "stageOnly", "resolve"}, SaveStart(kind) PROVE Flight'
  <2>1. CASE save' = Begun(kind, FALSE)
    BY <1>13, <1>t, <2>1, FlightBegun DEF SaveStart
  <2>2. CASE save' \in {[Idle EXCEPT !.at = "staging", !.kind = kind], [Idle EXCEPT !.at = "resolving", !.kind = kind]}
    <3>1. save'.at \in {"staging", "resolving"} /\ ed' = ed
      BY <1>13, <2>2 DEF SaveStart, Idle
    <3> QED
      BY <3>1, FlightOver DEF Flight
  <2> QED
    BY <1>13, <2>1, <2>2 DEF SaveStart
<1>14. CASE WriteLoad
  <2>1. CASE SaveRefused
    <3>1. save' = Idle \/ save'.at = "resolving"
      BY <2>1, FinishFacts DEF SaveRefused
    <3> QED
      BY <2>1, <3>1, FlightOver, IdleFacts DEF SaveRefused, Flight
  <2>2. ASSUME ~SaveRefused PROVE Flight'
    <3>1. /\ disk \in Content /\ UNCHANGED <<disk, ed>> /\ save.at = "called"
          /\ save' = [save EXCEPT !.at = IF disk = save.expected \/ save.force THEN "loaded" ELSE "asking"]
      BY <1>14, <2>2 DEF WriteLoad
    <3> QED
      BY <1>t, <3>1 DEF Flight, Takes, Begins, SaveType
  <2> QED
    BY <2>1, <2>2
<1>15. CASE WriteSwap
  <2>1. CASE SaveRefused
    <3>1. save' = Idle \/ save'.at = "resolving"
      BY <2>1, FinishFacts DEF SaveRefused
    <3> QED
      BY <2>1, <3>1, FlightOver, IdleFacts DEF SaveRefused, Flight
  <2>2. ASSUME ~SaveRefused PROVE Flight'
    <3>1. /\ ed' = ed /\ save.at = "loaded"
          /\ save' = [save EXCEPT !.at = "written"] \/ save' = [save EXCEPT !.at = "asking"]
      BY <1>15, <2>2 DEF WriteSwap
    <3> QED
      BY <1>t, <3>1 DEF Flight, Takes, Begins, SaveType
  <2> QED
    BY <2>1, <2>2
<1>16. CASE SaveWritten
  <2>1. /\ ed'.hash = save.snap /\ ed'.basis = save.snap /\ save.at = "written"
        /\ save' = [save EXCEPT !.at = "drafting"]
    BY <1>16, <1>t DEF SaveWritten, Ed
  <2> QED
    BY <1>t, <2>1 DEF Flight, Takes, Begins, SaveType
<1>17. ASSUME NEW ok \in BOOLEAN, AnswerOverwrite(ok) PROVE Flight'
  <2>1. CASE SaveRefused
    <3>1. save' = Idle \/ save'.at = "resolving"
      BY <2>1, FinishFacts DEF SaveRefused
    <3> QED
      BY <2>1, <3>1, FlightOver, IdleFacts DEF SaveRefused, Flight
  <2>2. CASE save' = Begun(save.kind, TRUE) /\ ed' = ed
    BY <1>t, <2>2, FlightBegun DEF SaveType
  <2> QED
    BY <1>17, <2>1, <2>2 DEF AnswerOverwrite
<1>18. CASE Staged
  <2>1. save' = Idle \/ save'.at = "resolving"
    BY <1>18, FinishFacts DEF Staged
  <2> QED
    BY <1>18, <2>1, FlightOver, IdleFacts DEF Staged, Flight
<1>19. CASE ResolvedFile
  <2>1. save' = Idle \/ save'.at = "resolving"
    BY <1>19, FinishFacts DEF ResolvedFile
  <2> QED
    BY <1>19, <2>1, FlightOver, IdleFacts DEF ResolvedFile, Flight
<1>20. CASE RequestLeave
  <2>1. UNCHANGED <<disk, save>> /\ ed'.hash = ed'.basis
    BY <1>20, <1>t DEF RequestLeave, Flight
  <2> QED
    BY <2>1, FlightSame
<1>21. CASE LeaveSave
  <2>1. CASE save' = Begun("leave", FALSE)
    BY <1>21, <1>t, <2>1, FlightBegun DEF LeaveSave
  <2>2. CASE UNCHANGED save
    BY <1>21, <2>2, FlightSame DEF LeaveSave, Flight
  <2> QED
    BY <1>21, <2>1, <2>2 DEF LeaveSave
<1>22. CASE LeaveDiscard
  <2>1. UNCHANGED <<disk, save>> /\ ed'.hash = ed'.basis
    BY <1>22, <1>t DEF LeaveDiscard, Flight
  <2> QED
    BY <2>1, FlightSame
<1>23. CASE LeaveCancel
  <2>1. UNCHANGED <<disk, save>> /\ ed'.hash = ed'.basis
    BY <1>23, <1>t DEF LeaveCancel, Flight
  <2> QED
    BY <2>1, FlightSame
<1>24. CASE Stay
  <2>1. UNCHANGED <<disk, save>> /\ ed'.hash = ed'.basis
    BY <1>24, <1>t DEF Stay, Flight
  <2> QED
    BY <2>1, FlightSame
<1>25. CASE Unmount
  <2>1. UNCHANGED disk /\ ed'.hash = ed'.basis
    BY <1>25, <1>t DEF Unmount, Flight, Ed
  <2>2. CASE save' = Idle
    BY <2>1, <2>2, FlightOver, IdleFacts
  <2>3. CASE save' = save
    BY <2>1, <2>3, FlightSame
  <2> QED
    BY <1>25, <2>2, <2>3 DEF Unmount
<1> QED
  BY <1>0, <1>1, <1>2, <1>3, <1>4, <1>5, <1>6, <1>7, <1>8, <1>9, <1>10, <1>11, <1>12,
     <1>13, <1>14, <1>15, <1>16, <1>17, <1>18, <1>19, <1>20, <1>21, <1>22, <1>23, <1>24,
     <1>25 DEF Next

(* The checks of the disk.                                                 *)
LEMMA CheckedSame ==
  ASSUME Typed, Checked, checks' \subseteq checks,
         epoch' = epoch + 1 \/ (epoch' = epoch /\ (Saving => Saving'))
  PROVE  Checked'
<1>1. \A c \in checks : c.epoch \in Nat /\ epoch \in Nat
  BY DEF Typed, WatchOK, Check
<1>2. CASE epoch' = epoch + 1
  BY <1>1, <1>2 DEF Checked
<1>3. CASE epoch' = epoch /\ (Saving => Saving')
  BY <1>1, <1>3 DEF Checked
<1> QED
  BY <1>2, <1>3

LEMMA CheckedKept ==
  ASSUME Typed, Checked, [Next]_vars
  PROVE  Checked'
<1>0. CASE UNCHANGED vars
  <2>1. checks' \subseteq checks
    BY <1>0 DEF vars, watch
  <2>2. epoch' = epoch + 1 \/ (epoch' = epoch /\ (Saving => Saving'))
    BY <1>0 DEF vars, watch, Saving
  <2> QED
    BY <2>1, <2>2, CheckedSame
<1>1. CASE DraftTimer
  <2>1. checks' \subseteq checks
    BY <1>1 DEF DraftTimer, watch
  <2>2. epoch' = epoch + 1 \/ (epoch' = epoch /\ (Saving => Saving'))
    BY <1>1 DEF DraftTimer, watch, Saving
  <2> QED
    BY <2>1, <2>2, CheckedSame
<1>2. CASE Flush
  <2>1. checks' \subseteq checks
    BY <1>2 DEF Flush, watch
  <2>2. epoch' = epoch + 1 \/ (epoch' = epoch /\ (Saving => Saving'))
    BY <1>2 DEF Flush, watch, Saving
  <2> QED
    BY <2>1, <2>2, CheckedSame
<1>3. CASE WriteAnswered
  <2>1. checks' \subseteq checks
    BY <1>3 DEF WriteAnswered, watch
  <2>2. epoch' = epoch + 1 \/ (epoch' = epoch /\ (Saving => Saving'))
    BY <1>3 DEF WriteAnswered, watch, Saving
  <2> QED
    BY <2>1, <2>2, CheckedSame
<1>4. CASE DeleteAnswered
  <2>1. PICK w \in {"self", "save", "leave", "late"}, keep \in Maybe : Continue(w, keep)
    BY <1>4, AnswerFacts DEF CallType
  <2>2. CASE w = "save"
    <3>1. checks' = checks /\ AfterDraft
      BY <2>1, <2>2, ContinueFacts
    <3>2. epoch' = epoch + 1 \/ (epoch' = epoch /\ save'.at = "staging")
      BY <3>1, AfterDraftFacts
    <3> QED
      BY <3>1, <3>2, CheckedSame DEF Saving
  <2>3. CASE w # "save"
    <3>1. checks' = checks /\ epoch' = epoch /\ save' = save
      BY <2>1, <2>3, ContinueFacts
    <3> QED
      BY <3>1, CheckedSame DEF Saving
  <2> QED
    BY <2>2, <2>3
<1>5. ASSUME NEW i \in DOMAIN calls, DeleteTimeout(i) PROVE Checked'
  <2>1. PICK w \in {"self", "save", "leave", "late"}, keep \in Maybe : Continue(w, keep)
    BY <1>5, TimeoutFacts
  <2>2. CASE w = "save"
    <3>1. checks' = checks /\ AfterDraft
      BY <2>1, <2>2, ContinueFacts
    <3>2. epoch' = epoch + 1 \/ (epoch' = epoch /\ save'.at = "staging")
      BY <3>1, AfterDraftFacts
    <3> QED
      BY <3>1, <3>2, CheckedSame DEF Saving
  <2>3. CASE w # "save"
    <3>1. checks' = checks /\ epoch' = epoch /\ save' = save
      BY <2>1, <2>3, ContinueFacts
    <3> QED
      BY <3>1, CheckedSame DEF Saving
  <2> QED
    BY <2>2, <2>3
<1>6. ASSUME NEW t \in Content, Type(t) PROVE Checked'
  <2>1. checks' \subseteq checks
    BY <1>6 DEF Type, watch
  <2>2. epoch' = epoch + 1 \/ (epoch' = epoch /\ (Saving => Saving'))
    BY <1>6 DEF Type, watch, Saving
  <2> QED
    BY <2>1, <2>2, CheckedSame
<1>7. ASSUME NEW d \in Disk, Outside(d) PROVE Checked'
  <2>1. checks' \subseteq checks
    BY <1>7 DEF Outside, watch
  <2>2. epoch' = epoch + 1 \/ (epoch' = epoch /\ (Saving => Saving'))
    BY <1>7 DEF Outside, Saving, Typed, SaveOK, SaveType
  <2> QED
    BY <2>1, <2>2, CheckedSame
<1>8. CASE CheckStart
  <2>1. UNCHANGED <<epoch, save>>
    BY <1>8 DEF CheckStart
  <2>2. \A c \in checks' : c \in checks \/ c = [seen |-> disk, epoch |-> epoch, undone |-> FALSE]
    BY <1>8 DEF CheckStart
  <2>3. epoch \in Nat
    BY DEF Typed, WatchOK
  <2> QED
    BY <2>1, <2>2, <2>3 DEF Checked, Saving
<1>9. ASSUME NEW c \in checks, CheckLand(c) PROVE Checked'
  <2>1. checks' \subseteq checks
    BY <1>9 DEF CheckLand, watch
  <2>2. epoch' = epoch + 1 \/ (epoch' = epoch /\ (Saving => Saving'))
    BY <1>9 DEF CheckLand, watch, Saving
  <2> QED
    BY <2>1, <2>2, CheckedSame
<1>10. CASE Probe
  <2>1. checks' \subseteq checks
    BY <1>10 DEF Probe, watch
  <2>2. epoch' = epoch + 1 \/ (epoch' = epoch /\ (Saving => Saving'))
    BY <1>10 DEF Probe, watch, Saving
  <2> QED
    BY <2>1, <2>2, CheckedSame
<1>11. CASE DismissGone
  <2>1. checks' \subseteq checks
    BY <1>11 DEF DismissGone, watch
  <2>2. epoch' = epoch + 1 \/ (epoch' = epoch /\ (Saving => Saving'))
    BY <1>11 DEF DismissGone, watch, Saving
  <2> QED
    BY <2>1, <2>2, CheckedSame
<1>12. CASE ConfirmReload
  <2>1. checks' \subseteq checks
    BY <1>12 DEF ConfirmReload, watch
  <2>2. epoch' = epoch + 1 \/ (epoch' = epoch /\ (Saving => Saving'))
    BY <1>12 DEF ConfirmReload, watch, Saving
  <2> QED
    BY <2>1, <2>2, CheckedSame
<1>13. ASSUME NEW kind \in {"save", "stage", "stageOnly", "resolve"}, SaveStart(kind) PROVE Checked'
  <2>1. checks' \subseteq checks
    BY <1>13 DEF SaveStart, watch
  <2>2. epoch' = epoch + 1 \/ (epoch' = epoch /\ (Saving => Saving'))
    BY <1>13 DEF SaveStart, watch, Saving
  <2> QED
    BY <2>1, <2>2, CheckedSame
<1>14. CASE WriteLoad
  <2>1. CASE SaveRefused
    <3>1. epoch' = epoch + 1
      BY <2>1, FinishFacts DEF SaveRefused
    <3> QED
      BY <2>1, <3>1, CheckedSame DEF SaveRefused
  <2>2. CASE checks' = checks /\ epoch' = epoch /\ Saving'
    BY <2>2, CheckedSame
  <2> QED
    BY <1>14, <2>1, <2>2 DEF WriteLoad, watch, Saving, Typed, SaveOK, SaveType
<1>15. CASE WriteSwap
  <2>1. CASE SaveRefused
    <3>1. epoch' = epoch + 1
      BY <2>1, FinishFacts DEF SaveRefused
    <3> QED
      BY <2>1, <3>1, CheckedSame DEF SaveRefused
  <2>2. CASE checks' = checks /\ epoch' = epoch /\ Saving'
    BY <2>2, CheckedSame
  <2>3. ASSUME checks' = {[c EXCEPT !.undone = TRUE] : c \in checks}, epoch' = epoch, Saving' PROVE Checked'
    <3>1. \A c \in checks : [c EXCEPT !.undone = TRUE].epoch = c.epoch
      BY DEF Typed, WatchOK, Check
    <3> QED
      BY <2>3, <3>1 DEF Checked, Saving
  <2> QED
    BY <1>15, <2>1, <2>2, <2>3 DEF WriteSwap, watch, Saving, Typed, SaveOK, SaveType
<1>16. CASE SaveWritten
  <2>1. checks' \subseteq checks
    BY <1>16 DEF SaveWritten, watch
  <2>2. epoch' = epoch + 1 \/ (epoch' = epoch /\ (Saving => Saving'))
    BY <1>16 DEF SaveWritten, Saving, Typed, SaveOK, SaveType
  <2> QED
    BY <2>1, <2>2, CheckedSame
<1>17. ASSUME NEW ok \in BOOLEAN, AnswerOverwrite(ok) PROVE Checked'
  <2>1. CASE SaveRefused
    <3>1. epoch' = epoch + 1
      BY <2>1, FinishFacts DEF SaveRefused
    <3> QED
      BY <2>1, <3>1, CheckedSame DEF SaveRefused
  <2>2. CASE checks' = checks /\ epoch' = epoch /\ Saving'
    BY <2>2, CheckedSame
  <2> QED
    BY <1>17, <2>1, <2>2, BegunFacts DEF AnswerOverwrite, watch, Saving, Typed, SaveOK, SaveType
<1>18. CASE Staged
  <2>1. checks' \subseteq checks
    BY <1>18 DEF Staged, watch
  <2>2. epoch' = epoch + 1 \/ (epoch' = epoch /\ (Saving => Saving'))
    BY <1>18, FinishFacts DEF Staged
  <2> QED
    BY <2>1, <2>2, CheckedSame
<1>19. CASE ResolvedFile
  <2>1. checks' \subseteq checks
    BY <1>19 DEF ResolvedFile, watch
  <2>2. epoch' = epoch + 1 \/ (epoch' = epoch /\ (Saving => Saving'))
    BY <1>19, FinishFacts DEF ResolvedFile
  <2> QED
    BY <2>1, <2>2, CheckedSame
<1>20. CASE RequestLeave
  <2>1. checks' \subseteq checks
    BY <1>20 DEF RequestLeave, watch
  <2>2. epoch' = epoch + 1 \/ (epoch' = epoch /\ (Saving => Saving'))
    BY <1>20 DEF RequestLeave, watch, Saving
  <2> QED
    BY <2>1, <2>2, CheckedSame
<1>21. CASE LeaveSave
  <2>1. checks' \subseteq checks
    BY <1>21 DEF LeaveSave, watch
  <2>2. epoch' = epoch + 1 \/ (epoch' = epoch /\ (Saving => Saving'))
    BY <1>21 DEF LeaveSave, watch, Saving
  <2> QED
    BY <2>1, <2>2, CheckedSame
<1>22. CASE LeaveDiscard
  <2>1. checks' \subseteq checks
    BY <1>22 DEF LeaveDiscard, watch
  <2>2. epoch' = epoch + 1 \/ (epoch' = epoch /\ (Saving => Saving'))
    BY <1>22 DEF LeaveDiscard, watch, Saving
  <2> QED
    BY <2>1, <2>2, CheckedSame
<1>23. CASE LeaveCancel
  <2>1. checks' \subseteq checks
    BY <1>23 DEF LeaveCancel, watch
  <2>2. epoch' = epoch + 1 \/ (epoch' = epoch /\ (Saving => Saving'))
    BY <1>23 DEF LeaveCancel, watch, Saving
  <2> QED
    BY <2>1, <2>2, CheckedSame
<1>24. CASE Stay
  <2>1. checks' \subseteq checks
    BY <1>24 DEF Stay, watch
  <2>2. epoch' = epoch + 1 \/ (epoch' = epoch /\ (Saving => Saving'))
    BY <1>24 DEF Stay, watch, Saving
  <2> QED
    BY <2>1, <2>2, CheckedSame
<1>25. CASE Unmount
  BY <1>25 DEF Unmount, Checked
<1> QED
  BY <1>0, <1>1, <1>2, <1>3, <1>4, <1>5, <1>6, <1>7, <1>8, <1>9, <1>10, <1>11, <1>12,
     <1>13, <1>14, <1>15, <1>16, <1>17, <1>18, <1>19, <1>20, <1>21, <1>22, <1>23, <1>24,
     <1>25 DEF Next

-----------------------------------------------------------------------------
(* The prompt answers, and the editor that is gone.                        *)
LEMMA LeaveResolved ==
  ASSUME Typed, Prompted, NEW b \in BOOLEAN, leave' = Resolved(b)
  PROVE  /\ leave' \in LeaveType /\ ~leave'.asked /\ ~leave'.mine /\ leave'.discarding = leave.discarding
         /\ leave'.granted = (IF leave.asked THEN b ELSE leave.granted)
BY ResolvedFacts DEF Typed, LeaveOK, Prompted

(* A save that ends: the prompt stays as it is or is answered.             *)
LEMMA LeaveFinished ==
  ASSUME Typed, Prompted, NEW ok \in BOOLEAN, NEW clean \in BOOLEAN, Finish(ok, clean)
  PROVE  \/ leave' = leave
         \/ /\ save.kind = "leave" /\ ~leave'.asked /\ ~leave'.mine
            /\ leave'.granted = (IF leave.asked THEN ok /\ clean ELSE leave.granted)
<1>1. leave' = leave \/ (save.kind = "leave" /\ leave' = Resolved(ok /\ clean))
  BY DEF Finish
<1>2. (ok /\ clean) \in BOOLEAN
  OBVIOUS
<1> QED
  BY <1>1, <1>2, LeaveResolved

LEMMA LeaveAfterDraft ==
  ASSUME Typed, Prompted, AfterDraft
  PROVE  \/ leave' = leave
         \/ /\ save.kind = "leave" /\ ~leave'.asked /\ ~leave'.mine
            /\ leave'.granted = (IF leave.asked THEN ~Dirty ELSE leave.granted)
<1>1. (~Dirty) \in BOOLEAN /\ (leave' = leave \/ (save.kind = "leave" /\ leave' = Resolved(~Dirty)))
  <2> HIDE DEF Dirty
  <2> QED
    BY AfterDraftFacts
<1> QED
  BY <1>1, LeaveResolved

LEMMA EndedKept ==
  ASSUME Typed, Ended, Prompted, [Next]_vars
  PROVE  Ended'
<1>t. /\ ed \in Ed /\ save \in SaveType /\ leave \in LeaveType /\ EdOK
      /\ {blocked, discarded, timer, due, probe} \subseteq BOOLEAN
  BY DEF Typed, EdOK, SaveOK, LeaveOK, DraftOK, GhostOK, WatchOK
<1>0. CASE UNCHANGED vars
  BY <1>0 DEF vars, watch, draft, Ended
<1>1. CASE DraftTimer
  BY <1>1, <1>t DEF DraftTimer, Ended, watch, draft
<1>2. CASE Flush
  BY <1>2, <1>t DEF Flush, Ended, watch, draft
<1>3. CASE WriteAnswered
  BY <1>3, <1>t DEF WriteAnswered, Ended, watch, draft
<1>4. CASE DeleteAnswered
  <2>1. PICK w \in {"self", "save", "leave", "late"}, keep \in Maybe : Continue(w, keep) /\ UNCHANGED <<disk, ed>>
    BY <1>4, AnswerFacts DEF CallType
  <2>2. due' = due /\ probe' = probe /\ checks' = checks
    BY <2>1, ContinueFacts
  <2>3. CASE w = "save"
    <3>1. AfterDraft /\ (~ed.mounted => timer' = timer)
      BY <2>1, <2>3, ContinueFacts
    <3>2. ~leave.asked => ~leave'.asked /\ leave'.granted = leave.granted
      BY <3>1, LeaveAfterDraft
    <3> QED
      BY <2>1, <2>2, <3>1, <3>2 DEF Ended
  <2>4. CASE w = "leave"
    BY <2>1, <2>2, <2>4, ContinueFacts DEF Ended, Prompted
  <2>5. CASE w \in {"self", "late"}
    BY <2>1, <2>2, <2>5, ContinueFacts DEF Ended
  <2> QED
    BY <2>1, <2>3, <2>4, <2>5
<1>5. ASSUME NEW i \in DOMAIN calls, DeleteTimeout(i) PROVE Ended'
  <2>1. PICK w \in {"self", "save", "leave", "late"}, keep \in Maybe : Continue(w, keep) /\ UNCHANGED <<disk, ed>>
    BY <1>5, TimeoutFacts
  <2>2. due' = due /\ probe' = probe /\ checks' = checks
    BY <2>1, ContinueFacts
  <2>3. CASE w = "save"
    <3>1. AfterDraft /\ (~ed.mounted => timer' = timer)
      BY <2>1, <2>3, ContinueFacts
    <3>2. ~leave.asked => ~leave'.asked /\ leave'.granted = leave.granted
      BY <3>1, LeaveAfterDraft
    <3> QED
      BY <2>1, <2>2, <3>1, <3>2 DEF Ended
  <2>4. CASE w = "leave"
    BY <2>1, <2>2, <2>4, ContinueFacts DEF Ended, Prompted
  <2>5. CASE w \in {"self", "late"}
    BY <2>1, <2>2, <2>5, ContinueFacts DEF Ended
  <2> QED
    BY <2>1, <2>3, <2>4, <2>5
<1>6. ASSUME NEW t \in Content, Type(t) PROVE Ended'
  BY <1>6, <1>t DEF Type, Ended, Ed
<1>7. ASSUME NEW d \in Disk, Outside(d) PROVE Ended'
  BY <1>7, <1>t DEF Outside, Ended, draft
<1>8. CASE CheckStart
  BY <1>8, <1>t DEF CheckStart, Ended, watch, draft
<1>9. ASSUME NEW c \in checks, CheckLand(c) PROVE Ended'
  <2>1. ed.mounted
    BY <1>9 DEF Ended
  <2>2. CASE UNCHANGED ed
    BY <2>1, <2>2 DEF Ended
  <2>3. CASE Reload(c.seen) /\ c.seen \in Content
    BY <1>t, <2>1, <2>3, ReloadFacts DEF Ended
  <2> QED
    BY <1>9, <2>2, <2>3 DEF CheckLand, CheckGone, CheckSame, CheckOther
<1>10. CASE Probe
  BY <1>10, <1>t DEF Probe, Ended, watch, draft
<1>11. CASE DismissGone
  BY <1>11, <1>t DEF DismissGone, Ended, watch, draft
<1>12. CASE ConfirmReload
  <2>1. ed'.mounted
    BY <1>12, <1>t, ReloadFacts DEF ConfirmReload
  <2> QED
    BY <2>1 DEF Ended
<1>13. ASSUME NEW kind \in {"save", "stage", "stageOnly", "resolve"}, SaveStart(kind) PROVE Ended'
  BY <1>13, <1>t DEF SaveStart, Ended, watch, draft
<1>14. CASE WriteLoad
  <2>1. CASE SaveRefused
    <3>1. leave' = leave \/ (~leave'.asked /\ leave'.granted = (IF leave.asked THEN FALSE ELSE leave.granted))
      BY <2>1, LeaveFinished DEF SaveRefused
    <3> QED
      BY <2>1, <3>1 DEF SaveRefused, Ended, draft
  <2> QED
    BY <1>14, <1>t, <2>1 DEF WriteLoad, Ended, watch, draft, Ed
<1>15. CASE WriteSwap
  <2>1. CASE SaveRefused
    <3>1. leave' = leave \/ (~leave'.asked /\ leave'.granted = (IF leave.asked THEN FALSE ELSE leave.granted))
      BY <2>1, LeaveFinished DEF SaveRefused
    <3> QED
      BY <2>1, <3>1 DEF SaveRefused, Ended, draft
  <2> QED
    BY <1>15, <1>t, <2>1 DEF WriteSwap, Ended, watch, draft, Ed
<1>16. CASE SaveWritten
  <2>1. ed'.mounted = ed.mounted
    BY <1>16, <1>t DEF SaveWritten, Ed
  <2> QED
    BY <1>16, <2>1, DeleteFacts DEF SaveWritten, Ended, Typed
<1>17. ASSUME NEW ok \in BOOLEAN, AnswerOverwrite(ok) PROVE Ended'
  <2>1. CASE SaveRefused
    <3>1. leave' = leave \/ (~leave'.asked /\ leave'.granted = (IF leave.asked THEN FALSE ELSE leave.granted))
      BY <2>1, LeaveFinished DEF SaveRefused
    <3> QED
      BY <2>1, <3>1 DEF SaveRefused, Ended, draft
  <2> QED
    BY <1>17, <1>t, <2>1 DEF AnswerOverwrite, Ended, watch, draft, Ed
<1>18. CASE Staged
  <2>1. ~leave.asked => ~leave'.asked /\ leave'.granted = leave.granted
    BY <1>18, LeaveFinished DEF Staged
  <2> QED
    BY <1>18, <2>1 DEF Staged, Ended, draft
<1>19. CASE ResolvedFile
  <2>1. ~leave.asked => ~leave'.asked /\ leave'.granted = leave.granted
    BY <1>19, LeaveFinished DEF ResolvedFile
  <2> QED
    BY <1>19, <2>1 DEF ResolvedFile, Ended, draft
<1>20. CASE RequestLeave
  BY <1>20, <1>t DEF RequestLeave, Ended, watch, draft
<1>21. CASE LeaveSave
  BY <1>21, <1>t DEF LeaveSave, Ended, watch, draft
<1>22. CASE LeaveDiscard
  BY <1>22, <1>t DEF LeaveDiscard, Ended, watch, draft
<1>23. CASE LeaveCancel
  BY <1>23, <1>t DEF LeaveCancel, Ended, watch, draft
<1>24. CASE Stay
  BY <1>24, <1>t DEF Stay, Ended, watch, draft
<1>25. CASE Unmount
  BY <1>25, <1>t DEF Unmount, Ended, NoLeave
<1> QED
  BY <1>0, <1>1, <1>2, <1>3, <1>4, <1>5, <1>6, <1>7, <1>8, <1>9, <1>10, <1>11, <1>12,
     <1>13, <1>14, <1>15, <1>16, <1>17, <1>18, <1>19, <1>20, <1>21, <1>22, <1>23, <1>24,
     <1>25 DEF Next

(* Nothing that the prompt is about changes, or only to its excuse.        *)
LEMMA PromptedSame ==
  ASSUME Prompted, UNCHANGED <<ed, leave, discarded>>, Saving' => Saving, excuse' = "none" => excuse = "none",
         blocked' = blocked
  PROVE  Prompted'
BY DEF Prompted, Leaving, Dirty

LEMMA PromptedKept ==
  ASSUME Typed, Waits, Ended, Prompted, LeaveSaves, [Next]_vars
  PROVE  Prompted'
<1>t. /\ ed \in Ed /\ save \in SaveType /\ leave \in LeaveType /\ EdOK
      /\ {blocked, discarded, timer, due, probe} \subseteq BOOLEAN
  BY DEF Typed, EdOK, SaveOK, LeaveOK, DraftOK, GhostOK, WatchOK
<1>0. CASE UNCHANGED vars
  <2>1. UNCHANGED <<ed, leave, discarded>> /\ (Saving' => Saving) /\ (excuse' = "none" => excuse = "none")
        /\ blocked' = blocked
    BY <1>0 DEF vars, watch, draft, Saving
  <2> QED
    BY <2>1, PromptedSame
<1>1. CASE DraftTimer
  <2>1. UNCHANGED <<ed, leave, discarded>> /\ (Saving' => Saving) /\ (excuse' = "none" => excuse = "none")
        /\ blocked' = blocked
    BY <1>1 DEF DraftTimer, Write, Saving
  <2> QED
    BY <2>1, PromptedSame
<1>2. CASE Flush
  <2>1. UNCHANGED <<ed, leave, discarded>> /\ (Saving' => Saving) /\ (excuse' = "none" => excuse = "none")
        /\ blocked' = blocked
    BY <1>2 DEF Flush, Write, Saving
  <2> QED
    BY <2>1, PromptedSame
<1>3. CASE WriteAnswered
  <2>1. UNCHANGED <<ed, leave, discarded>> /\ (Saving' => Saving) /\ (excuse' = "none" => excuse = "none")
        /\ blocked' = blocked
    BY <1>3 DEF WriteAnswered, watch, draft, Saving
  <2> QED
    BY <2>1, PromptedSame
<1>4. CASE DeleteAnswered
  <2>0. PICK keep \in Maybe :
           Continue(Head(calls).waiter, keep) /\ UNCHANGED <<disk, ed, discarded>>
    BY <1>4, AnswerFacts
  <2> DEFINE w == Head(calls).waiter
  <2>1. w \in {"self", "save", "leave", "late"} /\ Continue(w, keep) /\ UNCHANGED <<ed, discarded>> /\ ~Nobody(calls, w)
    BY <1>4, <2>0, AnswerFacts, WaitsTail DEF CallType, Typed, CallsOK
  <2> HIDE DEF w
  <2>2. excuse' = "none" => excuse = "none"
    BY <1>4, AnswerFacts
  <2>3. CASE w = "save"
    <3>1. save.at = "drafting" /\ ~(discarded /\ ed.mounted)
      BY <1>4, <2>1, <2>3 DEF Waits, One, Nobody, Prompted, Saving
    <3>2. AfterDraft /\ IF Dirty /\ ed.mounted THEN blocked' = FALSE /\ timer' = TRUE ELSE blocked' = blocked /\ timer' = timer
      BY <2>1, <2>3, ContinueFacts
    <3>3. \/ leave' = leave
          \/ ~leave'.asked /\ ~leave'.mine /\ leave'.granted = (IF leave.asked THEN ~Dirty ELSE leave.granted)
      BY <3>2, LeaveAfterDraft
    <3>4. ~ed.mounted => ~leave.asked /\ ~leave.granted
      BY DEF Ended
    <3>5. leave'.granted /\ Dirty' /\ blocked' /\ excuse' = "none" => discarded'
      BY <2>1, <2>2, <3>2, <3>3, <3>4 DEF Prompted, Dirty
    <3>6. (leave'.mine => leave.mine /\ leave'.asked /\ leave'.discarding) /\ ~(leave'.asked /\ leave'.granted)
      BY <3>3 DEF Prompted
    <3> QED
      BY <2>1, <2>2, <3>1, <3>5, <3>6 DEF Prompted
  <2>4. CASE w = "leave"
    <3>1. /\ UNCHANGED <<save, blocked>> /\ ~leave'.asked /\ ~leave'.mine
          /\ leave'.granted = (leave.granted \/ leave.mine)
      BY <2>1, <2>4, ContinueFacts
    <3> QED
      BY <2>1, <2>2, <3>1 DEF Prompted, Leaving, Saving, Dirty
  <2>5. CASE w \in {"self", "late"}
    <3>1. UNCHANGED <<save, blocked, leave>>
      BY <2>1, <2>5, ContinueFacts
    <3> QED
      BY <2>1, <2>2, <3>1, PromptedSame DEF Saving
  <2> QED
    BY <2>1, <2>3, <2>4, <2>5
<1>5. ASSUME NEW i \in DOMAIN calls, DeleteTimeout(i) PROVE Prompted'
  <2> DEFINE w == calls[i].waiter
  <2>1. w \in {"self", "save", "leave", "late"} /\ Continue(w, last) /\ UNCHANGED <<ed, discarded>> /\ ~Nobody(calls, w)
        /\ last \in Maybe
    BY <1>5, TimeoutFacts DEF Nobody
  <2> HIDE DEF w
  <2>2. excuse' = "none" => excuse = "none"
    BY <1>5, TimeoutFacts
  <2>3. CASE w = "save"
    <3>1. save.at = "drafting" /\ ~(discarded /\ ed.mounted)
      BY <1>5, <2>1, <2>3 DEF Waits, One, Nobody, Prompted, Saving
    <3>2. AfterDraft /\ IF Dirty /\ ed.mounted THEN blocked' = FALSE /\ timer' = TRUE ELSE blocked' = blocked /\ timer' = timer
      BY <2>1, <2>3, ContinueFacts
    <3>3. \/ leave' = leave
          \/ ~leave'.asked /\ ~leave'.mine /\ leave'.granted = (IF leave.asked THEN ~Dirty ELSE leave.granted)
      BY <3>2, LeaveAfterDraft
    <3>4. ~ed.mounted => ~leave.asked /\ ~leave.granted
      BY DEF Ended
    <3>5. leave'.granted /\ Dirty' /\ blocked' /\ excuse' = "none" => discarded'
      BY <2>1, <2>2, <3>2, <3>3, <3>4 DEF Prompted, Dirty
    <3>6. (leave'.mine => leave.mine /\ leave'.asked /\ leave'.discarding) /\ ~(leave'.asked /\ leave'.granted)
      BY <3>3 DEF Prompted
    <3> QED
      BY <2>1, <2>2, <3>1, <3>5, <3>6 DEF Prompted
  <2>4. CASE w = "leave"
    <3>1. /\ UNCHANGED <<save, blocked>> /\ ~leave'.asked /\ ~leave'.mine
          /\ leave'.granted = (leave.granted \/ leave.mine)
      BY <2>1, <2>4, ContinueFacts
    <3> QED
      BY <2>1, <2>2, <3>1 DEF Prompted, Leaving, Saving, Dirty
  <2>5. CASE w \in {"self", "late"}
    <3>1. UNCHANGED <<save, blocked, leave>>
      BY <2>1, <2>5, ContinueFacts
    <3> QED
      BY <2>1, <2>2, <3>1, PromptedSame DEF Saving
  <2> QED
    BY <2>1, <2>3, <2>4, <2>5
<1>6. ASSUME NEW t \in Content, Type(t) PROVE Prompted'
  <2>1. ed'.mounted /\ ~leave.asked /\ ~leave.granted /\ discarded' = FALSE /\ leave' = leave
    BY <1>6, <1>t DEF Type, Modal, Ed
  <2> QED
    BY <2>1 DEF Prompted
<1>7. ASSUME NEW d \in Disk, Outside(d) PROVE Prompted'
  <2>1. UNCHANGED <<ed, leave, discarded>> /\ (Saving' => Saving) /\ (excuse' = "none" => excuse = "none")
        /\ blocked' = blocked
    BY <1>7, <1>t DEF Outside, draft, Saving, SaveType
  <2> QED
    BY <2>1, PromptedSame
<1>8. CASE CheckStart
  <2>1. UNCHANGED <<ed, leave, discarded>> /\ (Saving' => Saving) /\ (excuse' = "none" => excuse = "none")
        /\ blocked' = blocked
    BY <1>8 DEF CheckStart, watch, draft, Saving
  <2> QED
    BY <2>1, PromptedSame
<1>9. ASSUME NEW c \in checks, CheckLand(c) PROVE Prompted'
  <2>0. UNCHANGED <<save, leave, discarded>>
    BY <1>9 DEF CheckLand
  <2>1. CASE UNCHANGED <<ed, draft, excuse>>
    BY <2>0, <2>1, PromptedSame DEF Saving, draft
  <2>2. CASE Resume /\ UNCHANGED <<ed, leave, discarded, save>>
    <3>1. leave.mine \/ (discarded /\ ed.mounted) => excuse' = "resumed"
      BY <2>2 DEF Prompted, Leaving, Resume, LeavesPending
    <3> QED
      BY <2>2, <3>1 DEF Prompted, Leaving, Saving, Dirty, Resume
  <2>3. CASE c.seen \in Content /\ Reload(c.seen) /\ blocked' = FALSE /\ UNCHANGED excuse
    <3>1. ed'.mounted = ed.mounted /\ ~Dirty'
      BY <1>t, <2>3, ReloadFacts DEF Dirty
    <3> QED
      BY <2>0, <2>3, <3>1 DEF Prompted, Leaving, Saving
  <2> QED
    BY <1>9, <2>0, <2>1, <2>2, <2>3 DEF CheckLand, CheckGone, CheckSame, CheckOther
<1>10. CASE Probe
  <2>0. UNCHANGED <<ed, save, leave, discarded>>
    BY <1>10 DEF Probe
  <2>1. CASE UNCHANGED <<blocked, excuse>>
    BY <2>0, <2>1, PromptedSame DEF Saving
  <2>2. CASE Resume /\ UNCHANGED <<ed, leave, discarded, save>>
    <3>1. leave.mine \/ (discarded /\ ed.mounted) => excuse' = "resumed"
      BY <2>2 DEF Prompted, Leaving, Resume, LeavesPending
    <3> QED
      BY <2>2, <3>1 DEF Prompted, Leaving, Saving, Dirty, Resume
  <2>3. CASE blocked' = TRUE /\ excuse' = IF Dirty THEN "gone" ELSE excuse
    BY <2>0, <2>3 DEF Prompted, Leaving, Saving, Dirty
  <2> QED
    BY <1>10, <2>0, <2>1, <2>2, <2>3 DEF Probe, DeleteNow
<1>11. CASE DismissGone
  <2>1. UNCHANGED <<ed, leave, discarded>> /\ (Saving' => Saving) /\ (excuse' = "none" => excuse = "none")
        /\ blocked' = blocked
    BY <1>11 DEF DismissGone, watch, draft, Saving
  <2> QED
    BY <2>1, PromptedSame
<1>12. CASE ConfirmReload
  <2>1. ed.mounted /\ ~leave.asked /\ ~leave.granted /\ UNCHANGED <<leave, discarded>>
    BY <1>12 DEF ConfirmReload, Modal
  <2>2. ~discarded /\ ~leave.mine
    BY <2>1 DEF Prompted, Leaving
  <2> QED
    BY <2>1, <2>2 DEF Prompted
<1>13. ASSUME NEW kind \in {"save", "stage", "stageOnly", "resolve"}, SaveStart(kind) PROVE Prompted'
  <2>1. ed.mounted /\ ~leave.asked /\ ~leave.granted /\ UNCHANGED <<ed, leave, discarded, excuse, blocked>>
    BY <1>13 DEF SaveStart, Modal, draft
  <2>2. ~discarded /\ ~leave.mine
    BY <2>1 DEF Prompted, Leaving
  <2> QED
    BY <2>1, <2>2 DEF Prompted
<1>14. CASE WriteLoad
  <2>1. CASE SaveRefused
    <3>1. /\ leave'.mine => leave' = leave
          /\ leave'.granted => leave.granted
          /\ ~(leave'.asked /\ leave'.granted)
      BY <2>1, LeaveFinished DEF SaveRefused, Prompted
    <3>2. UNCHANGED <<ed, blocked, excuse, discarded>> /\ Saving
      BY <1>14, <2>1 DEF SaveRefused, WriteLoad, draft, Saving
    <3> QED
      BY <3>1, <3>2 DEF Prompted, Dirty
  <2>2. ASSUME ~SaveRefused PROVE Prompted'
    <3>1. UNCHANGED <<ed, leave, discarded, excuse, blocked>> /\ Saving
      BY <1>14, <2>2 DEF WriteLoad, draft, Saving
    <3> QED
      BY <3>1, PromptedSame
  <2> QED
    BY <2>1, <2>2
<1>15. CASE WriteSwap
  <2>1. CASE SaveRefused
    <3>1. /\ leave'.mine => leave' = leave
          /\ leave'.granted => leave.granted
          /\ ~(leave'.asked /\ leave'.granted)
      BY <2>1, LeaveFinished DEF SaveRefused, Prompted
    <3>2. UNCHANGED <<ed, blocked, excuse, discarded>> /\ Saving
      BY <1>15, <2>1 DEF SaveRefused, WriteSwap, draft, Saving
    <3> QED
      BY <3>1, <3>2 DEF Prompted, Dirty
  <2>2. ASSUME ~SaveRefused PROVE Prompted'
    <3>1. UNCHANGED <<ed, leave, discarded, excuse, blocked>> /\ Saving
      BY <1>15, <2>2 DEF WriteSwap, draft, Saving
    <3> QED
      BY <3>1, PromptedSame
  <2> QED
    BY <2>1, <2>2
<1>16. CASE SaveWritten
  <2>1. /\ save.at = "written" /\ UNCHANGED <<leave, excuse, discarded>> /\ blocked' = TRUE
        /\ ed'.mounted = ed.mounted /\ ed'.text = ed.text /\ (ed.mounted => ed'.base = save.snap)
    BY <1>16, <1>t, DeleteFacts DEF SaveWritten, Ed, Typed
  <2>2. ~(discarded /\ ed.mounted)
    BY <2>1 DEF Prompted, Saving
  <2>3. leave.granted => ed.mounted /\ save.snap = ed.text
    BY <2>1 DEF Ended, LeaveSaves, Leaving, Saving, Begins
  <2>4. leave.granted => ~Dirty'
    BY <2>1, <2>3 DEF Dirty
  <2> QED
    BY <2>1, <2>2, <2>4 DEF Prompted
<1>17. ASSUME NEW ok \in BOOLEAN, AnswerOverwrite(ok) PROVE Prompted'
  <2>1. CASE SaveRefused
    <3>1. /\ leave'.mine => leave' = leave
          /\ leave'.granted => leave.granted
          /\ ~(leave'.asked /\ leave'.granted)
      BY <2>1, LeaveFinished DEF SaveRefused, Prompted
    <3>2. UNCHANGED <<ed, blocked, excuse, discarded>> /\ Saving
      BY <1>17, <2>1 DEF SaveRefused, AnswerOverwrite, draft, Saving
    <3> QED
      BY <3>1, <3>2 DEF Prompted, Dirty
  <2>2. ASSUME ~SaveRefused PROVE Prompted'
    <3>1. UNCHANGED <<ed, leave, discarded, excuse, blocked>> /\ Saving
      BY <1>17, <2>2 DEF AnswerOverwrite, draft, Saving
    <3> QED
      BY <3>1, PromptedSame
  <2> QED
    BY <2>1, <2>2
<1>18. CASE Staged
  <2>1. /\ leave'.mine => leave' = leave
        /\ leave'.granted => leave.granted
        /\ ~(leave'.asked /\ leave'.granted)
    BY <1>18, LeaveFinished DEF Staged, Prompted
  <2>2. UNCHANGED <<ed, blocked, excuse, discarded>> /\ Saving
    BY <1>18, <1>18 DEF Staged, draft, Saving
  <2> QED
    BY <2>1, <2>2 DEF Prompted, Dirty
<1>19. CASE ResolvedFile
  <2>1. /\ leave'.mine => leave' = leave
        /\ leave'.granted => leave.granted
        /\ ~(leave'.asked /\ leave'.granted)
    BY <1>19, LeaveFinished DEF ResolvedFile, Prompted
  <2>2. UNCHANGED <<ed, blocked, excuse, discarded>> /\ Saving
    BY <1>19, <1>19 DEF ResolvedFile, draft, Saving
  <2> QED
    BY <2>1, <2>2 DEF Prompted, Dirty
<1>20. CASE RequestLeave
  <2>1. /\ ed.mounted /\ ~leave.asked /\ ~leave.granted /\ UNCHANGED <<ed, save, blocked, discarded, excuse>>
        /\ leave'.asked /\ ~leave'.granted /\ leave'.mine = leave.mine
    BY <1>20, <1>t DEF RequestLeave, draft, LeaveType
  <2>2. ~discarded /\ ~leave.mine
    BY <2>1 DEF Prompted, Leaving
  <2> QED
    BY <2>1, <2>2 DEF Prompted
<1>21. CASE LeaveSave
  <2>1. /\ leave.asked /\ ~leave.granted /\ ~discarded' /\ UNCHANGED <<ed, blocked>>
        /\ leave.discarding => excuse' # "none"
    BY <1>21 DEF LeaveSave, draft, Prompted
  <2>2. leave' = leave \/ (~leave'.asked /\ ~leave'.mine /\ ~leave'.granted)
    BY <1>21, LeaveResolved DEF LeaveSave
  <2> QED
    BY <2>1, <2>2 DEF Prompted
<1>22. CASE LeaveDiscard
  <2>1. /\ leave.asked /\ UNCHANGED <<ed, save, excuse>> /\ discarded' /\ blocked' /\ ~Saving
        /\ leave'.asked /\ leave'.discarding /\ leave'.mine /\ leave'.granted = leave.granted
    BY <1>22, <1>t DEF LeaveDiscard, DeleteNow, LeaveType
  <2> QED
    BY <2>1 DEF Prompted, Leaving, Saving
<1>23. CASE LeaveCancel
  <2>1. leave.asked /\ ~leave.discarding /\ UNCHANGED <<ed, save, excuse, discarded, blocked>>
    BY <1>23 DEF LeaveCancel, draft
  <2>2. ~leave'.asked /\ ~leave'.mine /\ ~leave'.granted
    BY <1>23, <2>1, LeaveResolved DEF LeaveCancel
  <2> QED
    BY <2>1, <2>2 DEF Prompted, Leaving
<1>24. CASE Stay
  <2>1. /\ leave.granted /\ ~leave'.granted /\ leave'.mine = leave.mine /\ leave'.asked = leave.asked /\ ~discarded'
    BY <1>24, <1>t DEF Stay, LeaveType
  <2> QED
    BY <2>1 DEF Prompted
<1>25. CASE Unmount
  <2>1. ~ed'.mounted /\ ~leave'.asked /\ ~leave'.mine /\ ~leave'.granted
    BY <1>25, <1>t DEF Unmount, NoLeave, Ed
  <2> QED
    BY <2>1 DEF Prompted
<1> QED
  BY <1>0, <1>1, <1>2, <1>3, <1>4, <1>5, <1>6, <1>7, <1>8, <1>9, <1>10, <1>11, <1>12,
     <1>13, <1>14, <1>15, <1>16, <1>17, <1>18, <1>19, <1>20, <1>21, <1>22, <1>23, <1>24,
     <1>25 DEF Next

-----------------------------------------------------------------------------
(* The save of a leave prompt.                                             *)
LEMMA LeaveSavesSame ==
  ASSUME LeaveSaves, UNCHANGED <<ed, leave, save>>, excuse # "none" => excuse' # "none",
         excuse' = "none" => UNCHANGED <<blocked, shown>>,
         excuse' = "gone" => (excuse = "gone" /\ UNCHANGED <<shown, probe>>) \/ shown' = "gone" \/ ~probe'
  PROVE  LeaveSaves'
BY DEF LeaveSaves, Leaving, Saving, Dirty, Begins

LEMMA LeaveSavesOver ==
  ASSUME Prompted, ~Saving' \/ (~leave'.mine /\ ~leave'.granted) \/ ~ed'.mounted
  PROVE  LeaveSaves'
BY DEF LeaveSaves, Leaving

LEMMA LeaveSavesKept ==
  ASSUME Typed, Waits, Prompted, LeaveSaves, [Next]_vars
  PROVE  LeaveSaves'
<1>t. /\ ed \in Ed /\ save \in SaveType /\ leave \in LeaveType /\ EdOK
      /\ {blocked, discarded, timer, due, probe} \subseteq BOOLEAN
  BY DEF Typed, EdOK, SaveOK, LeaveOK, DraftOK, GhostOK, WatchOK
<1>0. CASE UNCHANGED vars
  <2>1. /\ UNCHANGED <<ed, leave, save>>
        /\ excuse # "none" => excuse' # "none"
        /\ excuse' = "none" => UNCHANGED <<blocked, shown>>
        /\ excuse' = "gone" => (excuse = "gone" /\ UNCHANGED <<shown, probe>>) \/ shown' = "gone" \/ ~probe'
    BY <1>0, <1>t DEF vars, watch, draft
  <2> QED
    BY <2>1, LeaveSavesSame
<1>1. CASE DraftTimer
  <2>1. /\ UNCHANGED <<ed, leave, save>>
        /\ excuse # "none" => excuse' # "none"
        /\ excuse' = "none" => UNCHANGED <<blocked, shown>>
        /\ excuse' = "gone" => (excuse = "gone" /\ UNCHANGED <<shown, probe>>) \/ shown' = "gone" \/ ~probe'
    BY <1>1, <1>t DEF DraftTimer, watch, draft, Write
  <2> QED
    BY <2>1, LeaveSavesSame
<1>2. CASE Flush
  <2>1. /\ UNCHANGED <<ed, leave, save>>
        /\ excuse # "none" => excuse' # "none"
        /\ excuse' = "none" => UNCHANGED <<blocked, shown>>
        /\ excuse' = "gone" => (excuse = "gone" /\ UNCHANGED <<shown, probe>>) \/ shown' = "gone" \/ ~probe'
    BY <1>2, <1>t DEF Flush, watch, draft, Write
  <2> QED
    BY <2>1, LeaveSavesSame
<1>3. CASE WriteAnswered
  <2>1. /\ UNCHANGED <<ed, leave, save>>
        /\ excuse # "none" => excuse' # "none"
        /\ excuse' = "none" => UNCHANGED <<blocked, shown>>
        /\ excuse' = "gone" => (excuse = "gone" /\ UNCHANGED <<shown, probe>>) \/ shown' = "gone" \/ ~probe'
    BY <1>3 DEF WriteAnswered, watch, draft
  <2> QED
    BY <2>1, LeaveSavesSame
<1>4. CASE DeleteAnswered
  <2>0. PICK keep \in Maybe :
           Continue(Head(calls).waiter, keep) /\ UNCHANGED <<disk, ed, discarded>>
    BY <1>4, AnswerFacts
  <2> DEFINE w == Head(calls).waiter
  <2>1. w \in {"self", "save", "leave", "late"} /\ Continue(w, keep) /\ UNCHANGED ed /\ ~Nobody(calls, w)
    BY <1>4, <2>0, AnswerFacts, WaitsTail DEF CallType, Typed, CallsOK
  <2> HIDE DEF w
  <2>2. excuse # "none" => excuse' # "none"
    BY <1>4, AnswerFacts
  <2>3. CASE w = "save"
    <3>1. save.at = "drafting" /\ Saving
      BY <1>4, <2>1, <2>3 DEF Waits, One, Nobody, Saving
    <3>2. AfterDraft
      BY <2>1, <2>3, ContinueFacts
    <3>3. leave' = leave \/ save.kind = "leave"
      BY <3>2, LeaveAfterDraft
    <3>4. ASSUME save.kind = "leave" PROVE save'.at = "idle"
      BY <3>2, <3>4, AfterDraftFacts, IdleFacts
    <3>5. CASE save.kind = "leave"
      BY <3>4, <3>5, LeaveSavesOver DEF Saving
    <3>6. CASE save.kind # "leave"
      <4>1. leave' = leave /\ ~(ed.mounted /\ Leaving)
        BY <3>1, <3>3, <3>6 DEF LeaveSaves
      <4> QED
        BY <2>1, <4>1, LeaveSavesOver DEF Leaving
    <3> QED
      BY <3>5, <3>6
  <2>4. CASE w = "leave"
    <3>1. /\ UNCHANGED <<save, blocked, shown, probe>> /\ ~leave'.mine
          /\ leave'.granted = (leave.granted \/ leave.mine)
      BY <2>1, <2>4, ContinueFacts
    <3>2. excuse' = "gone" => excuse = "gone"
      BY <1>4, AnswerFacts
    <3> QED
      BY <2>1, <2>2, <3>1, <3>2 DEF LeaveSaves, Leaving, Saving, Dirty, Begins
  <2>5. CASE w \in {"self", "late"}
    <3>1. UNCHANGED <<save, blocked, leave, shown, probe>>
      BY <2>1, <2>5, ContinueFacts
    <3>2. excuse' = "gone" => excuse = "gone"
      BY <1>4, AnswerFacts
    <3>3. excuse' = "none" => excuse = "none"
      BY <2>2
    <3> QED
      BY <2>1, <2>2, <3>1, <3>2, LeaveSavesSame
  <2> QED
    BY <2>1, <2>3, <2>4, <2>5
<1>5. ASSUME NEW i \in DOMAIN calls, DeleteTimeout(i) PROVE LeaveSaves'
  <2> DEFINE w == calls[i].waiter
  <2>1. w \in {"self", "save", "leave", "late"} /\ Continue(w, last) /\ UNCHANGED ed /\ ~Nobody(calls, w)
        /\ last \in Maybe
    BY <1>5, TimeoutFacts DEF Nobody
  <2> HIDE DEF w
  <2>2. excuse # "none" => excuse' # "none"
    BY <1>5, TimeoutFacts
  <2>3. CASE w = "save"
    <3>1. save.at = "drafting" /\ Saving
      BY <1>5, <2>1, <2>3 DEF Waits, One, Nobody, Saving
    <3>2. AfterDraft
      BY <2>1, <2>3, ContinueFacts
    <3>3. leave' = leave \/ save.kind = "leave"
      BY <3>2, LeaveAfterDraft
    <3>4. ASSUME save.kind = "leave" PROVE save'.at = "idle"
      BY <3>2, <3>4, AfterDraftFacts, IdleFacts
    <3>5. CASE save.kind = "leave"
      BY <3>4, <3>5, LeaveSavesOver DEF Saving
    <3>6. CASE save.kind # "leave"
      <4>1. leave' = leave /\ ~(ed.mounted /\ Leaving)
        BY <3>1, <3>3, <3>6 DEF LeaveSaves
      <4> QED
        BY <2>1, <4>1, LeaveSavesOver DEF Leaving
    <3> QED
      BY <3>5, <3>6
  <2>4. CASE w = "leave"
    <3>1. /\ UNCHANGED <<save, blocked, shown, probe>> /\ ~leave'.mine
          /\ leave'.granted = (leave.granted \/ leave.mine)
      BY <2>1, <2>4, ContinueFacts
    <3>2. excuse' = "gone" => excuse = "gone"
      BY <1>5, TimeoutFacts
    <3> QED
      BY <2>1, <2>2, <3>1, <3>2 DEF LeaveSaves, Leaving, Saving, Dirty, Begins
  <2>5. CASE w \in {"self", "late"}
    <3>1. UNCHANGED <<save, blocked, leave, shown, probe>>
      BY <2>1, <2>5, ContinueFacts
    <3>2. excuse' = "gone" => excuse = "gone"
      BY <1>5, TimeoutFacts
    <3>3. excuse' = "none" => excuse = "none"
      BY <2>2
    <3> QED
      BY <2>1, <2>2, <3>1, <3>2, LeaveSavesSame
  <2> QED
    BY <2>1, <2>3, <2>4, <2>5
<1>6. ASSUME NEW t \in Content, Type(t) PROVE LeaveSaves'
  <2>1. ~Saving' \/ (~leave'.mine /\ ~leave'.granted) \/ ~ed'.mounted
    BY <1>6, <1>t DEF Type, Modal, Prompted
  <2> QED
    BY <2>1, LeaveSavesOver
<1>7. ASSUME NEW d \in Disk, Outside(d) PROVE LeaveSaves'
  <2>1. /\ UNCHANGED <<ed, leave, excuse, blocked, shown, probe>>
        /\ save'.at = save.at /\ save'.kind = save.kind /\ save'.snap = save.snap
    BY <1>7, <1>t DEF Outside, draft, SaveType
  <2> QED
    BY <2>1 DEF LeaveSaves, Leaving, Saving, Dirty, Begins, Takes
<1>8. CASE CheckStart
  <2>1. /\ UNCHANGED <<ed, leave, save>>
        /\ excuse # "none" => excuse' # "none"
        /\ excuse' = "none" => UNCHANGED <<blocked, shown>>
        /\ excuse' = "gone" => (excuse = "gone" /\ UNCHANGED <<shown, probe>>) \/ shown' = "gone" \/ ~probe'
    BY <1>8, <1>t DEF CheckStart, watch, draft
  <2> QED
    BY <2>1, LeaveSavesSame
<1>9. ASSUME NEW c \in checks, CheckLand(c) PROVE LeaveSaves'
  <2>1. CASE Saving
    <3>1. UNCHANGED <<ed, leave, save, excuse, blocked, shown, probe>>
      BY <1>9, <2>1 DEF CheckLand, Outdated, draft
    <3> QED
      BY <3>1, LeaveSavesSame
  <2>2. CASE ~Saving
    <3>1. ~Saving'
      BY <1>9, <2>2 DEF CheckLand, Saving
    <3> QED
      BY <3>1, LeaveSavesOver
  <2> QED
    BY <2>1, <2>2
<1>10. CASE Probe
  <2>0. UNCHANGED <<ed, save, leave, shown>> /\ probe /\ ~probe'
    BY <1>10 DEF Probe
  <2>1. CASE UNCHANGED <<blocked, excuse>>
    BY <2>0, <2>1, LeaveSavesSame
  <2>2. CASE DeleteNow("self") /\ excuse' = IF Dirty THEN "gone" ELSE excuse
    BY <2>0, <2>2 DEF LeaveSaves, Leaving, Saving, Dirty, Begins
  <2>3. CASE Dirty /\ Resume
    <3>1. ASSUME ed.mounted, Leaving, Saving
          PROVE  excuse' # "gone" /\ (excuse' # "none" \/ (shown' = "gone" /\ ~blocked'))
      <4>1. (excuse # "none" \/ (shown = "gone" /\ ~blocked)) /\ (excuse = "gone" => shown = "gone")
        BY <2>0, <2>3, <3>1 DEF LeaveSaves
      <4> QED
        BY <2>0, <2>3, <4>1 DEF Resume
    <3> QED
      BY <2>0, <2>3, <3>1 DEF LeaveSaves, Leaving, Saving, Dirty, Begins
  <2> QED
    BY <1>10, <2>1, <2>2, <2>3 DEF Probe
<1>11. CASE DismissGone
  <2>1. ~Saving' \/ (~leave'.mine /\ ~leave'.granted) \/ ~ed'.mounted
    BY <1>11 DEF DismissGone, Modal, Prompted
  <2> QED
    BY <2>1, LeaveSavesOver
<1>12. CASE ConfirmReload
  <2>1. ~Saving' \/ (~leave'.mine /\ ~leave'.granted) \/ ~ed'.mounted
    BY <1>12, <1>t DEF ConfirmReload, Modal, Prompted
  <2> QED
    BY <2>1, LeaveSavesOver
<1>13. ASSUME NEW kind \in {"save", "stage", "stageOnly", "resolve"}, SaveStart(kind) PROVE LeaveSaves'
  <2>1. ~Saving' \/ (~leave'.mine /\ ~leave'.granted) \/ ~ed'.mounted
    BY <1>13, <1>t DEF SaveStart, Modal, Prompted
  <2> QED
    BY <2>1, LeaveSavesOver
<1>14. CASE WriteLoad
  <2>1. CASE SaveRefused
    <3>1. leave' = leave \/ (~leave'.mine /\ leave'.granted = (IF leave.asked THEN FALSE ELSE leave.granted))
      BY <2>1, LeaveFinished DEF SaveRefused
    <3>2. save' = Idle \/ save.kind = "resolve"
      BY <2>1, FinishFacts DEF SaveRefused
    <3>3. ed' = ed /\ Saving
      BY <1>14, <2>1 DEF SaveRefused, WriteLoad, Saving
    <3>4. CASE save.kind = "resolve"
      <4>1. ~(ed.mounted /\ Leaving)
        BY <3>3, <3>4 DEF LeaveSaves
      <4> QED
        BY <3>1, <3>3, <4>1, LeaveSavesOver DEF Leaving
    <3> QED
      BY <3>2, <3>4, IdleFacts, LeaveSavesOver DEF Saving
  <2>2. ASSUME ~SaveRefused PROVE LeaveSaves'
    <3>1. /\ UNCHANGED <<ed, leave, excuse, blocked, shown, probe>> /\ save.at = "called" /\ save'.at \in {"loaded", "asking"}
          /\ save'.kind = save.kind /\ save'.snap = save.snap
      BY <1>14, <1>t, <2>2 DEF WriteLoad, watch, draft, SaveType
    <3> QED
      BY <3>1 DEF LeaveSaves, Leaving, Saving, Dirty, Begins, Takes
  <2> QED
    BY <2>1, <2>2
<1>15. CASE WriteSwap
  <2>1. CASE SaveRefused
    <3>1. leave' = leave \/ (~leave'.mine /\ leave'.granted = (IF leave.asked THEN FALSE ELSE leave.granted))
      BY <2>1, LeaveFinished DEF SaveRefused
    <3>2. save' = Idle \/ save.kind = "resolve"
      BY <2>1, FinishFacts DEF SaveRefused
    <3>3. ed' = ed /\ Saving
      BY <1>15, <2>1 DEF SaveRefused, WriteSwap, Saving
    <3>4. CASE save.kind = "resolve"
      <4>1. ~(ed.mounted /\ Leaving)
        BY <3>3, <3>4 DEF LeaveSaves
      <4> QED
        BY <3>1, <3>3, <4>1, LeaveSavesOver DEF Leaving
    <3> QED
      BY <3>2, <3>4, IdleFacts, LeaveSavesOver DEF Saving
  <2>2. ASSUME ~SaveRefused PROVE LeaveSaves'
    <3>1. /\ UNCHANGED <<ed, leave, excuse, blocked, shown, probe>> /\ save.at = "loaded" /\ save'.at \in {"written", "asking"}
          /\ save'.kind = save.kind /\ save'.snap = save.snap
      BY <1>15, <1>t, <2>2 DEF WriteSwap, watch, draft, SaveType
    <3> QED
      BY <3>1 DEF LeaveSaves, Leaving, Saving, Dirty, Begins, Takes
  <2> QED
    BY <2>1, <2>2
<1>16. CASE SaveWritten
  <2>1. /\ save.at = "written" /\ UNCHANGED leave /\ save'.at = "drafting" /\ save'.kind = save.kind
        /\ ed'.mounted = ed.mounted /\ ed'.text = ed.text /\ (ed.mounted => ed'.base = save.snap)
    BY <1>16, <1>t DEF SaveWritten, Ed, SaveType
  <2> QED
    BY <2>1 DEF LeaveSaves, Leaving, Saving, Dirty, Begins, Takes
<1>17. ASSUME NEW ok \in BOOLEAN, AnswerOverwrite(ok) PROVE LeaveSaves'
  <2>1. CASE SaveRefused
    <3>1. leave' = leave \/ (~leave'.mine /\ leave'.granted = (IF leave.asked THEN FALSE ELSE leave.granted))
      BY <2>1, LeaveFinished DEF SaveRefused
    <3>2. save' = Idle \/ save.kind = "resolve"
      BY <2>1, FinishFacts DEF SaveRefused
    <3>3. ed' = ed /\ Saving
      BY <1>17, <2>1 DEF SaveRefused, AnswerOverwrite, Saving
    <3>4. CASE save.kind = "resolve"
      <4>1. ~(ed.mounted /\ Leaving)
        BY <3>3, <3>4 DEF LeaveSaves
      <4> QED
        BY <3>1, <3>3, <4>1, LeaveSavesOver DEF Leaving
    <3> QED
      BY <3>2, <3>4, IdleFacts, LeaveSavesOver DEF Saving
  <2>2. CASE save' = Begun(save.kind, TRUE) /\ UNCHANGED <<ed, watch, draft, leave, excuse>>
    <3>1. /\ UNCHANGED <<ed, leave, excuse, blocked, shown, probe>> /\ save.at = "asking" /\ save'.at = "called"
          /\ save'.kind = save.kind /\ save'.snap = ed.text
      BY <1>17, <1>t, <2>2, BegunFacts DEF AnswerOverwrite, watch, draft, SaveType
    <3> QED
      BY <3>1 DEF LeaveSaves, Leaving, Saving, Dirty, Begins, Takes
  <2> QED
    BY <1>17, <2>1, <2>2 DEF AnswerOverwrite
<1>18. CASE Staged
  <2>1. leave' = leave \/ (~leave'.mine /\ leave'.granted = (IF leave.asked THEN FALSE ELSE leave.granted))
    BY <1>18, LeaveFinished DEF Staged
  <2>2. ed' = ed /\ ~(ed.mounted /\ Leaving)
    BY <1>18 DEF Staged, LeaveSaves, Saving, Takes, Begins
  <2> QED
    BY <2>1, <2>2, LeaveSavesOver DEF Leaving
<1>19. CASE ResolvedFile
  <2>1. leave' = leave \/ (~leave'.mine /\ leave'.granted = (IF leave.asked THEN FALSE ELSE leave.granted))
    BY <1>19, LeaveFinished DEF ResolvedFile
  <2>2. ed' = ed /\ ~(ed.mounted /\ Leaving)
    BY <1>19 DEF ResolvedFile, LeaveSaves, Saving, Takes, Begins
  <2> QED
    BY <2>1, <2>2, LeaveSavesOver DEF Leaving
<1>20. CASE RequestLeave
  <2>1. ~Saving' \/ (~leave'.mine /\ ~leave'.granted) \/ ~ed'.mounted
    BY <1>20, <1>t DEF RequestLeave, Prompted, LeaveType
  <2> QED
    BY <2>1, LeaveSavesOver
<1>21. CASE LeaveSave
  <2>1. leave.asked /\ UNCHANGED <<ed, blocked, shown, probe>>
    BY <1>21 DEF LeaveSave, draft
  <2>2. CASE leave' = Resolved(FALSE)
    BY <2>1, <2>2, LeaveResolved, LeaveSavesOver
  <2>3. CASE save' = Begun("leave", FALSE) /\ leave' = leave
    <3>1. save'.kind = "leave" /\ save'.at = "called" /\ save'.snap = ed.text
      BY <1>t, <2>3, BegunFacts
    <3>2. ~leave.granted /\ (leave.mine => excuse' = "stayed")
      BY <1>21, <2>1 DEF LeaveSave, Prompted
    <3> QED
      BY <2>1, <2>3, <3>1, <3>2 DEF LeaveSaves, Leaving, Saving, Dirty, Begins, Takes
  <2> QED
    BY <1>21, <2>2, <2>3 DEF LeaveSave
<1>22. CASE LeaveDiscard
  <2>1. ~Saving' \/ (~leave'.mine /\ ~leave'.granted) \/ ~ed'.mounted
    BY <1>22 DEF LeaveDiscard, Saving
  <2> QED
    BY <2>1, LeaveSavesOver
<1>23. CASE LeaveCancel
  <2>1. ~Saving' \/ (~leave'.mine /\ ~leave'.granted) \/ ~ed'.mounted
    BY <1>23, LeaveResolved DEF LeaveCancel
  <2> QED
    BY <2>1, LeaveSavesOver
<1>24. CASE Stay
  <2>1. ~Saving' \/ (~leave'.mine /\ ~leave'.granted) \/ ~ed'.mounted
    BY <1>24, <1>t DEF Stay, Prompted, LeaveType
  <2> QED
    BY <2>1, LeaveSavesOver
<1>25. CASE Unmount
  <2>1. ~Saving' \/ (~leave'.mine /\ ~leave'.granted) \/ ~ed'.mounted
    BY <1>25, <1>t DEF Unmount, Ed
  <2> QED
    BY <2>1, LeaveSavesOver
<1> QED
  BY <1>0, <1>1, <1>2, <1>3, <1>4, <1>5, <1>6, <1>7, <1>8, <1>9, <1>10, <1>11, <1>12,
     <1>13, <1>14, <1>15, <1>16, <1>17, <1>18, <1>19, <1>20, <1>21, <1>22, <1>23, <1>24,
     <1>25 DEF Next

-----------------------------------------------------------------------------
(* What the store will hold.                                               *)
LEMMA PendingAppend ==
  ASSUME calls \in Seq(CallType), NEW c \in CallType, calls' = Append(calls, c)
  PROVE  Pending' = IF c.kind = "write" THEN c.text ELSE "none"
<1>1. calls' # <<>> /\ Last(calls') = c
  BY DEF Last
<1> QED
  BY <1>1 DEF Pending

LEMMA PendingTail ==
  ASSUME calls \in Seq(CallType), calls # <<>>, calls' = Tail(calls),
         Len(calls) > 1 \/ stored' = IF Head(calls).kind = "write" THEN Head(calls).text ELSE "none"
  PROVE  Pending' = Pending
<1>1. Len(calls) \in Nat /\ Len(calls) # 0
  OBVIOUS
<1>2. CASE Len(calls) = 1
  <2>1. Tail(calls) = <<>> /\ Last(calls) = Head(calls)
    BY <1>2 DEF Last
  <2> QED
    BY <1>2, <2>1 DEF Pending
<1>3. CASE Len(calls) > 1
  <2>1. Tail(calls) # <<>> /\ Len(Tail(calls)) = Len(calls) - 1 /\ Tail(calls)[Len(calls) - 1] = calls[Len(calls)]
    BY <1>3
  <2>2. Last(calls') = Last(calls)
    BY <2>1 DEF Last
  <2> QED
    BY <2>1, <2>2 DEF Pending
<1>4. \A n \in Nat : n # 0 => n = 1 \/ n > 1
  OBVIOUS
<1> QED
  BY <1>1, <1>2, <1>3, <1>4

LEMMA PendingSame ==
  ASSUME UNCHANGED <<calls, stored>>
  PROVE  Pending' = Pending
BY DEF Pending, Last

LEMMA PendingUnheard ==
  ASSUME Typed, NEW i \in DOMAIN calls, Unheard(i), stored' = stored
  PROVE  Pending' = Pending
<1>1. calls \in Seq(CallType) /\ calls' \in Seq(CallType) /\ DOMAIN calls' = DOMAIN calls
      /\ \A j \in DOMAIN calls : calls'[j].kind = calls[j].kind /\ calls'[j].text = calls[j].text
  BY WaitsUnheard DEF Typed, CallsOK
<1>2. Len(calls') = Len(calls) /\ Len(calls) \in Nat /\ DOMAIN calls = 1..Len(calls) /\ calls # <<>> /\ calls' # <<>>
  BY <1>1
<1>3. Len(calls) \in DOMAIN calls
  BY <1>2
<1>4. Last(calls).kind = Last(calls').kind /\ Last(calls).text = Last(calls').text
  BY <1>1, <1>2, <1>3 DEF Last
<1> QED
  BY <1>2, <1>4 DEF Pending

LEMMA PendingDeleted ==
  ASSUME Typed, NEW w \in {"self", "save", "leave"}, DeleteNow(w)
  PROVE  Pending' = "none"
<1>1. PICK c \in CallType : c.kind = "delete" /\ calls' = Append(calls, c)
  BY DeleteFacts DEF Typed
<1> QED
  BY <1>1, PendingAppend DEF Typed, CallsOK

(* A flush that leaves no excuse: the store will hold what it is to hold.  *)
LEMMA PendingWritten ==
  ASSUME Typed, Write, stored' = stored, excuse' = "none"
  PROVE  /\ Wanted => shown # "gone" /\ excuse = "none" /\ Pending' = ed.text
         /\ ~Wanted => excuse = "none" /\ Pending' = Pending
<1>1. CASE ~Wanted
  BY <1>1, PendingSame DEF Write
<1>2. CASE Wanted
  <2>1. shown # "gone" /\ excuse = "none"
    BY <1>2 DEF Write
  <2>2. CASE ed.text = last
    BY <1>2, <2>1, <2>2, PendingSame DEF Write
  <2>3. CASE ed.text # last
    <3>1. calls' # calls => \E c \in CallType : c.kind = "write" /\ c.text = ed.text /\ calls' = Append(calls, c)
      BY WriteFacts
    <3>2. calls' = Append(calls, Call("write", ed.text, "self"))
      BY <1>2, <2>1, <2>3 DEF Write
    <3>3. Call("write", ed.text, "self") \in CallType /\ Call("write", ed.text, "self").kind = "write"
          /\ Call("write", ed.text, "self").text = ed.text
      BY TextFacts DEF Call, CallType, Typed, EdOK, Ed
    <3> QED
      BY <1>2, <2>1, <3>2, <3>3, PendingAppend DEF Typed, CallsOK
  <2> QED
    BY <2>1, <2>2, <2>3
<1> QED
  BY <1>1, <1>2

(* Steps that leave the buffer and the draft as they are.                  *)
LEMMA FollowedSame ==
  ASSUME Followed, UNCHANGED <<ed, timer, blocked>>, Pending' = Pending,
         excuse' = "none" => excuse = "none" /\ discarded' = discarded,
         save'.at \in Begins => save.at \in Begins \/ ed.mounted
  PROVE  Followed'
BY DEF Followed, Target, Dirty

LEMMA FollowedKept ==
  ASSUME Typed, Ended, Prompted, LeaveSaves, Followed, [Next]_vars
  PROVE  Followed'
<1>t. /\ ed \in Ed /\ save \in SaveType /\ leave \in LeaveType /\ EdOK
      /\ {blocked, discarded, timer, due, probe} \subseteq BOOLEAN
  BY DEF Typed, EdOK, SaveOK, LeaveOK, DraftOK, GhostOK, WatchOK
<1>0. CASE UNCHANGED vars
  <2>1. /\ UNCHANGED <<ed, timer, blocked>>
        /\ excuse' = "none" => excuse = "none" /\ discarded' = discarded
        /\ save'.at \in Begins => save.at \in Begins \/ ed.mounted
    BY <1>0, <1>t DEF vars, watch, draft
  <2>2. Pending' = Pending
    BY <1>0, PendingSame DEF vars, store
  <2> QED
    BY <2>1, <2>2, FollowedSame
<1>1. CASE DraftTimer
  <2>1. ed.mounted /\ Write /\ UNCHANGED <<ed, blocked, discarded, stored>>
    BY <1>1 DEF DraftTimer, Ended
  <2> SUFFICES ASSUME excuse' = "none" PROVE Pending' = Target'
    BY <2>1 DEF Followed
  <2>2. CASE Wanted
    <3>1. Pending' = ed.text /\ ~discarded
      BY <2>1, <2>2, PendingWritten DEF Prompted, Wanted
    <3> QED
      BY <2>1, <2>2, <3>1 DEF Target, Wanted, Dirty
  <2>3. CASE ~Wanted
    BY <2>1, <2>3, PendingWritten DEF Followed, Target, Wanted, Dirty
  <2> QED
    BY <2>2, <2>3
<1>2. CASE Flush
  <2>1. ed.mounted /\ Write /\ UNCHANGED <<ed, blocked, discarded, stored>>
    BY <1>2 DEF Flush, Ended
  <2> SUFFICES ASSUME excuse' = "none" PROVE Pending' = Target'
    BY <2>1 DEF Followed
  <2>2. CASE Wanted
    <3>1. Pending' = ed.text /\ ~discarded
      BY <2>1, <2>2, PendingWritten DEF Prompted, Wanted
    <3> QED
      BY <2>1, <2>2, <3>1 DEF Target, Wanted, Dirty
  <2>3. CASE ~Wanted
    BY <2>1, <2>3, PendingWritten DEF Followed, Target, Wanted, Dirty
  <2> QED
    BY <2>2, <2>3
<1>3. CASE WriteAnswered
  <2>1. calls \in Seq(CallType) /\ calls # <<>> /\ calls' = Tail(calls) /\ Head(calls).kind = "write" /\ Len(calls) \in Nat
    BY <1>3, HeadText DEF Typed, CallsOK
  <2>2. UNCHANGED <<ed, timer, blocked, save, discarded>>
    BY <1>3 DEF WriteAnswered
  <2>3. ASSUME excuse' = "none" PROVE excuse = "none" /\ Pending' = Pending
    <3>1. excuse = "none" /\ (stored' = Head(calls).text \/ Len(calls) > 1)
      BY <1>3, <2>3 DEF WriteAnswered
    <3> QED
      BY <2>1, <3>1, PendingTail
  <2> QED
    BY <2>2, <2>3 DEF Followed, Target, Dirty
<1>4. CASE DeleteAnswered
  <2>0. PICK keep \in Maybe :
           Continue(Head(calls).waiter, keep) /\ UNCHANGED <<disk, ed, discarded>>
    BY <1>4, AnswerFacts
  <2> DEFINE w == Head(calls).waiter
  <2>1. w \in {"self", "save", "leave", "late"} /\ Continue(w, keep) /\ UNCHANGED <<ed, discarded>>
    BY <1>4, <2>0, AnswerFacts DEF CallType
  <2> HIDE DEF w
  <2>2. ASSUME excuse' = "none" PROVE excuse = "none" /\ Pending' = Pending
    <3>1. excuse = "none" /\ stored' = "none" /\ Head(calls).kind = "delete" /\ calls # <<>> /\ calls' = Tail(calls)
      BY <1>4, <2>2, AnswerFacts
    <3> QED
      BY <3>1, PendingTail DEF Typed, CallsOK
  <2>3. CASE w = "save"
    <3>1. AfterDraft /\ IF Dirty /\ ed.mounted THEN blocked' = FALSE /\ timer' = TRUE ELSE blocked' = blocked /\ timer' = timer
      BY <2>1, <2>3, ContinueFacts
    <3>2. save'.at \notin Begins
      BY <3>1, AfterDraftFacts DEF Begins
    <3> QED
      BY <2>1, <2>2, <3>1, <3>2 DEF Followed, Target, Dirty
  <2>4. CASE w # "save"
    <3>1. UNCHANGED <<save, timer, blocked>>
      BY <2>1, <2>4, ContinueFacts
    <3> QED
      BY <2>1, <2>2, <3>1 DEF Followed, Target, Dirty
  <2> QED
    BY <2>3, <2>4
<1>5. ASSUME NEW i \in DOMAIN calls, DeleteTimeout(i) PROVE Followed'
  <2> DEFINE w == calls[i].waiter
  <2>1. w \in {"self", "save", "leave", "late"} /\ Continue(w, last) /\ UNCHANGED <<ed, discarded>> /\ last \in Maybe
    BY <1>5, TimeoutFacts
  <2> HIDE DEF w
  <2>2. ASSUME excuse' = "none" PROVE excuse = "none" /\ Pending' = Pending
    BY <1>5, <2>2, TimeoutFacts, PendingUnheard
  <2>3. CASE w = "save"
    <3>1. AfterDraft /\ IF Dirty /\ ed.mounted THEN blocked' = FALSE /\ timer' = TRUE ELSE blocked' = blocked /\ timer' = timer
      BY <2>1, <2>3, ContinueFacts
    <3>2. save'.at \notin Begins
      BY <3>1, AfterDraftFacts DEF Begins
    <3> QED
      BY <2>1, <2>2, <3>1, <3>2 DEF Followed, Target, Dirty
  <2>4. CASE w # "save"
    <3>1. UNCHANGED <<save, timer, blocked>>
      BY <2>1, <2>4, ContinueFacts
    <3> QED
      BY <2>1, <2>2, <3>1 DEF Followed, Target, Dirty
  <2> QED
    BY <2>3, <2>4
<1>6. ASSUME NEW t \in Content, Type(t) PROVE Followed'
  <2>1. /\ ed'.mounted /\ ed'.text = t /\ ed'.base = ed.base
    BY <1>6, <1>t DEF Type, Ed
  <2>2. CASE t # ed.base
    BY <1>6, <2>1, <2>2 DEF Type, Followed, Dirty
  <2>3. CASE t = ed.base
    <3>1. Pending' = "none"
      BY <1>6, <2>3, PendingDeleted DEF Type
    <3> QED
      BY <2>1, <2>3, <3>1 DEF Followed, Target, Dirty
  <2> QED
    BY <2>2, <2>3
<1>7. ASSUME NEW d \in Disk, Outside(d) PROVE Followed'
  <2>1. /\ UNCHANGED <<ed, timer, blocked>>
        /\ excuse' = "none" => excuse = "none" /\ discarded' = discarded
        /\ save'.at \in Begins => save.at \in Begins \/ ed.mounted
    BY <1>7, <1>t DEF Outside, draft, SaveType
  <2>2. Pending' = Pending
    BY <1>7, PendingSame DEF Outside, store
  <2> QED
    BY <2>1, <2>2, FollowedSame
<1>8. CASE CheckStart
  <2>1. /\ UNCHANGED <<ed, timer, blocked>>
        /\ excuse' = "none" => excuse = "none" /\ discarded' = discarded
        /\ save'.at \in Begins => save.at \in Begins \/ ed.mounted
    BY <1>8, <1>t DEF CheckStart, watch, draft
  <2>2. Pending' = Pending
    BY <1>8, PendingSame DEF CheckStart, store
  <2> QED
    BY <2>1, <2>2, FollowedSame
<1>9. ASSUME NEW c \in checks, CheckLand(c) PROVE Followed'
  <2>0. UNCHANGED <<save, discarded>> /\ ed.mounted /\ Pending' = Pending
    BY <1>9, PendingSame DEF CheckLand, Ended, store
  <2>1. CASE UNCHANGED <<ed, draft, excuse>>
    BY <2>0, <2>1, FollowedSame DEF draft
  <2>2. CASE Dirty /\ Resume /\ UNCHANGED ed
    BY <2>0, <2>2 DEF Resume, Followed, Dirty
  <2>3. CASE ~Dirty /\ c.seen \in Content /\ Reload(c.seen) /\ UNCHANGED excuse
    <3>1. ed'.mounted /\ ~Dirty'
      BY <1>t, <2>0, <2>3, ReloadFacts DEF Dirty
    <3> QED
      BY <2>0, <2>3, <3>1 DEF Followed, Target
  <2> QED
    BY <1>9, <2>1, <2>2, <2>3 DEF CheckLand, CheckGone, CheckSame, CheckOther
<1>10. CASE Probe
  <2>0. UNCHANGED <<ed, save, discarded, stored>> /\ ed.mounted
    BY <1>10 DEF Probe, Ended
  <2>1. CASE UNCHANGED <<timer, blocked, calls, excuse>>
    BY <2>0, <2>1, FollowedSame, PendingSame
  <2>2. CASE Dirty /\ Resume
    BY <2>0, <2>2 DEF Resume, Followed, Dirty
  <2>3. CASE DeleteNow("self") /\ excuse' = IF Dirty THEN "gone" ELSE excuse
    <3>1. Pending' = "none"
      BY <2>3, PendingDeleted
    <3> QED
      BY <2>0, <2>3, <3>1 DEF Followed, Target, Dirty
  <2> QED
    BY <1>10, <2>1, <2>2, <2>3 DEF Probe
<1>11. CASE DismissGone
  <2>1. /\ UNCHANGED <<ed, timer, blocked>>
        /\ excuse' = "none" => excuse = "none" /\ discarded' = discarded
        /\ save'.at \in Begins => save.at \in Begins \/ ed.mounted
    BY <1>11, <1>t DEF DismissGone, watch, draft
  <2>2. Pending' = Pending
    BY <1>11, PendingSame DEF DismissGone, store
  <2> QED
    BY <2>1, <2>2, FollowedSame
<1>12. CASE ConfirmReload
  <2>1. ed'.mounted /\ ~Dirty' /\ Pending' = "none"
    BY <1>12, <1>t, ReloadFacts, PendingDeleted DEF ConfirmReload, Dirty
  <2> QED
    BY <2>1 DEF Followed, Target
<1>13. ASSUME NEW kind \in {"save", "stage", "stageOnly", "resolve"}, SaveStart(kind) PROVE Followed'
  <2>1. /\ UNCHANGED <<ed, timer, blocked>>
        /\ excuse' = "none" => excuse = "none" /\ discarded' = discarded
        /\ save'.at \in Begins => save.at \in Begins \/ ed.mounted
    BY <1>13 DEF SaveStart, draft
  <2>2. Pending' = Pending
    BY <1>13, PendingSame DEF SaveStart, store
  <2> QED
    BY <2>1, <2>2, FollowedSame
<1>14. CASE WriteLoad
  <2>1. /\ UNCHANGED <<ed, timer, blocked>>
        /\ excuse' = "none" => excuse = "none" /\ discarded' = discarded
        /\ save'.at \in Begins => save.at \in Begins \/ ed.mounted
    <3>1. CASE SaveRefused
      <4>1. save' = Idle \/ save'.at = "resolving"
        BY <3>1, FinishFacts DEF SaveRefused
      <4> QED
        BY <3>1, <4>1, IdleFacts DEF SaveRefused, draft, Begins
    <3>2. ASSUME ~SaveRefused
          PROVE  /\ UNCHANGED <<ed, timer, blocked, excuse, discarded>>
                 /\ save'.at \in Begins => save.at \in Begins
      BY <1>14, <1>t, <3>2 DEF WriteLoad, draft, Begins
    <3> QED
      BY <3>1, <3>2
  <2>2. Pending' = Pending
    BY <1>14, PendingSame DEF WriteLoad, SaveRefused, store
  <2> QED
    BY <2>1, <2>2, FollowedSame
<1>15. CASE WriteSwap
  <2>1. /\ UNCHANGED <<ed, timer, blocked>>
        /\ excuse' = "none" => excuse = "none" /\ discarded' = discarded
        /\ save'.at \in Begins => save.at \in Begins \/ ed.mounted
    <3>1. CASE SaveRefused
      <4>1. save' = Idle \/ save'.at = "resolving"
        BY <3>1, FinishFacts DEF SaveRefused
      <4> QED
        BY <3>1, <4>1, IdleFacts DEF SaveRefused, draft, Begins
    <3>2. ASSUME ~SaveRefused
          PROVE  /\ UNCHANGED <<ed, timer, blocked, excuse, discarded>>
                 /\ save'.at \in Begins => save.at \in Begins
      BY <1>15, <1>t, <3>2 DEF WriteSwap, draft, Begins
    <3> QED
      BY <3>1, <3>2
  <2>2. Pending' = Pending
    BY <1>15, PendingSame DEF WriteSwap, SaveRefused, store
  <2> QED
    BY <2>1, <2>2, FollowedSame
<1>16. CASE SaveWritten
  <2>1. /\ ed'.mounted = ed.mounted /\ ed'.text = ed.text /\ (~ed.mounted => ed'.base = ed.base) /\ blocked' /\ UNCHANGED <<excuse, discarded>>
        /\ save.at = "written" /\ save'.at = "drafting"
    BY <1>16, <1>t DEF SaveWritten, Ed, SaveType, DeleteNow
  <2>2. Pending' = "none"
    BY <1>16, PendingDeleted DEF SaveWritten
  <2> QED
    BY <2>1, <2>2 DEF Followed, Target, Dirty, Begins
<1>17. ASSUME NEW ok \in BOOLEAN, AnswerOverwrite(ok) PROVE Followed'
  <2>1. /\ UNCHANGED <<ed, timer, blocked>>
        /\ excuse' = "none" => excuse = "none" /\ discarded' = discarded
        /\ save'.at \in Begins => save.at \in Begins \/ ed.mounted
    <3>1. CASE SaveRefused
      <4>1. save' = Idle \/ save'.at = "resolving"
        BY <3>1, FinishFacts DEF SaveRefused
      <4> QED
        BY <3>1, <4>1, IdleFacts DEF SaveRefused, draft, Begins
    <3>2. ASSUME ~SaveRefused
          PROVE  /\ UNCHANGED <<ed, timer, blocked, excuse, discarded>>
                 /\ save'.at \in Begins => save.at \in Begins
      BY <1>17, <1>t, <3>2 DEF AnswerOverwrite, draft, Begins
    <3> QED
      BY <3>1, <3>2
  <2>2. Pending' = Pending
    BY <1>17, PendingSame DEF AnswerOverwrite, SaveRefused, store
  <2> QED
    BY <2>1, <2>2, FollowedSame
<1>18. CASE Staged
  <2>1. /\ UNCHANGED <<ed, timer, blocked>>
        /\ excuse' = "none" => excuse = "none" /\ discarded' = discarded
        /\ save'.at \in Begins => save.at \in Begins \/ ed.mounted
    <3>1. save' = Idle \/ save'.at = "resolving"
      BY <1>18, FinishFacts DEF Staged
    <3> QED
      BY <1>18, <3>1, IdleFacts DEF Staged, draft, Begins
  <2>2. Pending' = Pending
    BY <1>18, PendingSame DEF Staged, store
  <2> QED
    BY <2>1, <2>2, FollowedSame
<1>19. CASE ResolvedFile
  <2>1. /\ UNCHANGED <<ed, timer, blocked>>
        /\ excuse' = "none" => excuse = "none" /\ discarded' = discarded
        /\ save'.at \in Begins => save.at \in Begins \/ ed.mounted
    <3>1. save' = Idle \/ save'.at = "resolving"
      BY <1>19, FinishFacts DEF ResolvedFile
    <3> QED
      BY <1>19, <3>1, IdleFacts DEF ResolvedFile, draft, Begins
  <2>2. Pending' = Pending
    BY <1>19, PendingSame DEF ResolvedFile, store
  <2> QED
    BY <2>1, <2>2, FollowedSame
<1>20. CASE RequestLeave
  <2>1. /\ UNCHANGED <<ed, timer, blocked>>
        /\ excuse' = "none" => excuse = "none" /\ discarded' = discarded
        /\ save'.at \in Begins => save.at \in Begins \/ ed.mounted
    BY <1>20, <1>t DEF RequestLeave, watch, draft
  <2>2. Pending' = Pending
    BY <1>20, PendingSame DEF RequestLeave, store
  <2> QED
    BY <2>1, <2>2, FollowedSame
<1>21. CASE LeaveSave
  <2>1. /\ UNCHANGED <<ed, timer, blocked>>
        /\ excuse' = "none" => excuse = "none" /\ discarded' = discarded
        /\ save'.at \in Begins => save.at \in Begins \/ ed.mounted
    <3>1. leave.asked /\ ~leave.granted /\ ed.mounted /\ UNCHANGED <<ed, timer, blocked>>
      BY <1>21 DEF LeaveSave, draft, Prompted, Ended
    <3>2. ASSUME excuse' = "none" PROVE excuse = "none" /\ discarded' = discarded
      <4>1. excuse = "none" /\ ~leave.discarding /\ discarded' = FALSE
        BY <1>21, <3>2 DEF LeaveSave
      <4>2. ~leave.mine
        BY <4>1 DEF Prompted
      <4>3. ~discarded
        BY <3>1, <4>2 DEF Prompted, Leaving
      <4>4. discarded \in BOOLEAN
        BY <1>t
      <4> QED
        BY <4>1, <4>3, <4>4
    <3> QED
      BY <3>1, <3>2
  <2>2. Pending' = Pending
    BY <1>21, PendingSame DEF LeaveSave, store
  <2> QED
    BY <2>1, <2>2, FollowedSame
<1>22. CASE LeaveDiscard
  <2>1. ed.mounted /\ UNCHANGED <<ed, excuse>> /\ blocked' /\ Pending' = "none"
    BY <1>22, PendingDeleted DEF LeaveDiscard, Ended, DeleteNow
  <2> QED
    BY <2>1 DEF Followed, Target
<1>23. CASE LeaveCancel
  <2>1. /\ UNCHANGED <<ed, timer, blocked>>
        /\ excuse' = "none" => excuse = "none" /\ discarded' = discarded
        /\ save'.at \in Begins => save.at \in Begins \/ ed.mounted
    BY <1>23, <1>t DEF LeaveCancel, watch, draft
  <2>2. Pending' = Pending
    BY <1>23, PendingSame DEF LeaveCancel, store
  <2> QED
    BY <2>1, <2>2, FollowedSame
<1>24. CASE Stay
  <2>1. /\ UNCHANGED <<ed, timer, blocked>>
        /\ excuse' = "none" => excuse = "none" /\ discarded' = discarded
        /\ save'.at \in Begins => save.at \in Begins \/ ed.mounted
    BY <1>24, <1>t DEF Stay, draft
  <2>2. Pending' = Pending
    BY <1>24, PendingSame DEF Stay, store
  <2> QED
    BY <2>1, <2>2, FollowedSame
<1>25. CASE Unmount
  <2>1. /\ ed.mounted /\ (leave.granted \/ ~Dirty) /\ ~ed'.mounted /\ ed'.text = ed.text /\ ed'.base = ed.base
        /\ Write /\ UNCHANGED <<stored, discarded, blocked>>
        /\ save'.at \in Begins => save.at \in Begins
    BY <1>25, <1>t, IdleFacts DEF Unmount, Ed, Begins
  <2> SUFFICES ASSUME excuse' = "none"
               PROVE  Pending' = Target' /\ (save'.at \in Begins => ~Dirty' \/ discarded')
    BY <2>1 DEF Followed
  <2>2. excuse = "none" /\ (Wanted => shown # "gone" /\ Pending' = ed.text) /\ (~Wanted => Pending' = Pending)
    BY <2>1, PendingWritten
  <2>3. CASE Wanted
    <3>1. ~discarded
      BY <2>1, <2>2, <2>3 DEF Prompted, Wanted
    <3> QED
      BY <2>1, <2>2, <2>3, <3>1 DEF Target, Wanted, Dirty, LeaveSaves, Leaving, Saving, Begins
  <2>4. CASE ~Wanted
    <3>1. Pending' = Target /\ (Dirty => blocked /\ leave.granted)
      BY <2>1, <2>2, <2>4 DEF Followed, Wanted
    <3>2. Dirty => discarded
      BY <2>2, <3>1 DEF Prompted
    <3> QED
      BY <2>1, <3>1, <3>2 DEF Target, Dirty
  <2> QED
    BY <2>3, <2>4
<1> QED
  BY <1>0, <1>1, <1>2, <1>3, <1>4, <1>5, <1>6, <1>7, <1>8, <1>9, <1>10, <1>11, <1>12,
     <1>13, <1>14, <1>15, <1>16, <1>17, <1>18, <1>19, <1>20, <1>21, <1>22, <1>23, <1>24,
     <1>25 DEF Next

-----------------------------------------------------------------------------
LEMMA InitIInv ==
  ASSUME Init
  PROVE  IInv
<1>1. /\ ed \in Ed /\ ed.mounted = TRUE /\ ed.hash = ed.basis /\ disk \in Disk /\ stored \in Maybe
      /\ due \in BOOLEAN /\ excuse \in Excuse
  <2>1. PICK t \in Content, c \in Content, h \in Content : ed = Editor(t, c, h) /\ stored \in {"none", t}
    BY DEF Init
  <2>2. ed \in Ed /\ ed.mounted = TRUE /\ ed.hash = ed.basis
    BY <2>1 DEF Editor, Ed
  <2>3. disk \in Disk /\ due \in BOOLEAN /\ excuse \in Excuse
    BY DEF Init, Excuse
  <2> QED
    BY <2>1, <2>2, <2>3, TextFacts
<1>2. /\ known = "none" /\ shown = "none" /\ probe = FALSE /\ checks = {} /\ epoch = 0 /\ save = Idle
      /\ timer = FALSE /\ blocked = FALSE /\ last = "none" /\ calls = <<>> /\ leave = NoLeave /\ discarded = FALSE
  BY DEF Init
<1>3. spent \in [Step -> Nat]
  BY EditSessionAssumption DEF Init
<1>4. Typed
  <2>1. EdOK /\ SaveOK /\ LeaveOK /\ SpentOK
    BY <1>1, <1>2, <1>3, IdleFacts DEF EdOK, SaveOK, LeaveOK, SpentOK
  <2>2. WatchOK /\ DraftOK
    BY <1>1, <1>2, TextFacts DEF WatchOK, DraftOK
  <2>3. <<>> \in Seq(CallType)
    OBVIOUS
  <2>4. CallsOK
    BY <1>1, <1>2, <2>3 DEF CallsOK
  <2>5. GhostOK
    BY <1>1, <1>2 DEF GhostOK
  <2> QED
    BY <2>1, <2>2, <2>4, <2>5 DEF Typed
<1>5. Waits
  BY <1>2, IdleFacts DEF Waits, Nobody
<1>6. TypeOK
  BY <1>4, <1>5, TypeParts
<1>7. Heard /\ Checked
  BY <1>2 DEF Heard, Checked
<1>8. Flight
  BY <1>1, <1>2, IdleFacts DEF Flight, Takes, Begins
<1>9. Ended /\ Prompted /\ LeaveSaves
  BY <1>1, <1>2, IdleFacts DEF Ended, Prompted, LeaveSaves, Leaving, NoLeave, Saving
<1>10. Followed
  <2>1. Pending = stored
    BY <1>2 DEF Pending
  <2>2. CASE stored = "none" /\ \E c \in Content : ed = Editor(c, c, c)
    BY <1>1, <1>2, <2>1, <2>2 DEF Followed, Target, Dirty, Editor
  <2>3. CASE stored = ed.text /\ excuse = IF ed.text = ed.base THEN "restored" ELSE "none"
    BY <1>1, <1>2, <2>1, <2>3 DEF Followed, Target, Dirty
  <2> QED
    BY <2>2, <2>3 DEF Init, Editor
<1> QED
  BY <1>6, <1>7, <1>8, <1>9, <1>10 DEF IInv

LEMMA InductiveInvariant ==
  ASSUME IInv, [Next]_vars
  PROVE  IInv'
<1>1. Typed /\ Waits
  BY TypeParts DEF IInv
<1>2. TypeOK' /\ Heard' /\ Flight' /\ Checked'
  BY <1>1, TypeKept, HeardKept, FlightKept, CheckedKept DEF IInv
<1>3. Ended' /\ Prompted' /\ LeaveSaves' /\ Followed'
  BY <1>1, EndedKept, PromptedKept, LeaveSavesKept, FollowedKept DEF IInv
<1> QED
  BY <1>2, <1>3 DEF IInv

(* The strengthening holds throughout (useEditSession.ts and               *)
(* useRecoveryDraft.ts as a whole).                                        *)
THEOREM Invariance == Spec => []IInv
<1>1. Init => IInv
  BY InitIInv
<1>2. IInv /\ [Next]_vars => IInv'
  BY InductiveInvariant
<1> QED
  BY <1>1, <1>2, PTL DEF Spec

(* Every variable keeps its type, and a save past its write or a Discard   *)
(* waits for exactly one delete of the draft, which nobody else waits for: *)
(* it neither hangs nor goes on twice (deleteNow and its DELETE_WAIT_MS).  *)
THEOREM TypeCorrect == Spec => []TypeOK
<1>1. IInv => TypeOK
  BY DEF IInv
<1> QED
  BY <1>1, Invariance, PTL


(* Only the rename takes a save from its read to its write, and only when  *)
(* the file has not moved since.                                           *)
LEMMA OnlySwaps ==
  ASSUME Typed, [Next]_vars, save.at = "loaded", save'.at = "written"
  PROVE  ~save.moved
<1>t. save.at = "loaded" /\ save'.at = "written" /\ save \in SaveType
  BY DEF Typed, SaveOK
<1>0. CASE UNCHANGED vars
  <2>1. UNCHANGED save
    BY <1>0 DEF vars
  <2> QED
    BY <1>t, <2>1
<1>1. CASE DraftTimer
  <2>1. UNCHANGED save
    BY <1>1 DEF DraftTimer
  <2> QED
    BY <1>t, <2>1
<1>2. CASE Flush
  <2>1. UNCHANGED save
    BY <1>2 DEF Flush
  <2> QED
    BY <1>t, <2>1
<1>3. CASE WriteAnswered
  <2>1. UNCHANGED save
    BY <1>3 DEF WriteAnswered
  <2> QED
    BY <1>t, <2>1
<1>4. CASE DeleteAnswered
  <2>1. PICK w \in {"self", "save", "leave", "late"}, keep \in Maybe : Continue(w, keep)
    BY <1>4, AnswerFacts DEF CallType
  <2>2. CASE w = "save"
    BY <1>t, <2>1, <2>2, ContinueFacts, AfterDraftFacts
  <2>3. CASE w # "save"
    <3>1. UNCHANGED save
      BY <2>1, <2>3, ContinueFacts
    <3> QED
      BY <1>t, <3>1
  <2> QED
    BY <2>2, <2>3
<1>5. ASSUME NEW i \in DOMAIN calls, DeleteTimeout(i) PROVE ~save.moved
  <2>1. PICK w \in {"self", "save", "leave", "late"}, keep \in Maybe : Continue(w, keep)
    BY <1>5, TimeoutFacts
  <2>2. CASE w = "save"
    BY <1>t, <2>1, <2>2, ContinueFacts, AfterDraftFacts
  <2>3. CASE w # "save"
    <3>1. UNCHANGED save
      BY <2>1, <2>3, ContinueFacts
    <3> QED
      BY <1>t, <3>1
  <2> QED
    BY <2>2, <2>3
<1>6. ASSUME NEW t \in Content, Type(t) PROVE ~save.moved
  <2>1. UNCHANGED save
    BY <1>6 DEF Type
  <2> QED
    BY <1>t, <2>1
<1>7. ASSUME NEW d \in Disk, Outside(d) PROVE ~save.moved
  BY <1>7, <1>t DEF Outside, SaveType
<1>8. CASE CheckStart
  <2>1. UNCHANGED save
    BY <1>8 DEF CheckStart
  <2> QED
    BY <1>t, <2>1
<1>9. ASSUME NEW c \in checks, CheckLand(c) PROVE ~save.moved
  <2>1. UNCHANGED save
    BY <1>9 DEF CheckLand
  <2> QED
    BY <1>t, <2>1
<1>10. CASE Probe
  <2>1. UNCHANGED save
    BY <1>10 DEF Probe
  <2> QED
    BY <1>t, <2>1
<1>11. CASE DismissGone
  <2>1. UNCHANGED save
    BY <1>11 DEF DismissGone
  <2> QED
    BY <1>t, <2>1
<1>12. CASE ConfirmReload
  <2>1. UNCHANGED save
    BY <1>12 DEF ConfirmReload
  <2> QED
    BY <1>t, <2>1
<1>13. ASSUME NEW kind \in {"save", "stage", "stageOnly", "resolve"}, SaveStart(kind) PROVE ~save.moved
  BY <1>13, <1>t DEF SaveStart, Saving
<1>14. CASE WriteLoad
  BY <1>14, <1>t DEF WriteLoad
<1>15. CASE WriteSwap
  <2>1. CASE SaveRefused
    BY <1>t, <2>1, FinishFacts, IdleFacts DEF SaveRefused
  <2>2. CASE save' = [save EXCEPT !.at = "asking"]
    BY <1>t, <2>2
  <2> QED
    BY <1>15, <2>1, <2>2 DEF WriteSwap, Swappable
<1>16. CASE SaveWritten
  BY <1>16, <1>t DEF SaveWritten
<1>17. ASSUME NEW ok \in BOOLEAN, AnswerOverwrite(ok) PROVE ~save.moved
  BY <1>17, <1>t DEF AnswerOverwrite
<1>18. CASE Staged
  BY <1>18, <1>t DEF Staged
<1>19. CASE ResolvedFile
  BY <1>19, <1>t DEF ResolvedFile
<1>20. CASE RequestLeave
  <2>1. UNCHANGED save
    BY <1>20 DEF RequestLeave
  <2> QED
    BY <1>t, <2>1
<1>21. CASE LeaveSave
  BY <1>21, <1>t DEF LeaveSave, Saving
<1>22. CASE LeaveDiscard
  BY <1>22, <1>t DEF LeaveDiscard, Saving
<1>23. CASE LeaveCancel
  <2>1. UNCHANGED save
    BY <1>23 DEF LeaveCancel
  <2> QED
    BY <1>t, <2>1
<1>24. CASE Stay
  <2>1. UNCHANGED save
    BY <1>24 DEF Stay
  <2> QED
    BY <1>t, <2>1
<1>25. CASE Unmount
  BY <1>25, <1>t, IdleFacts DEF Unmount
<1> QED
  BY <1>0, <1>1, <1>2, <1>3, <1>4, <1>5, <1>6, <1>7, <1>8, <1>9, <1>10, <1>11, <1>12,
     <1>13, <1>14, <1>15, <1>16, <1>17, <1>18, <1>19, <1>20, <1>21, <1>22, <1>23, <1>24,
     <1>25 DEF Next

(* The checks that go in a step: one has landed, outdated if the editor has*)
(* overwritten what it read, or the editor is gone.                        *)
LEMMA OnlyOutdatedGo ==
  ASSUME Typed, Checked, [Next]_vars
  PROVE  \A c \in checks \ checks' : c.undone => UNCHANGED <<ed.text, ed.hash, known, shown>>
<1>0. CASE UNCHANGED vars
  <2>1. checks \subseteq checks'
    BY <1>0 DEF vars, watch
  <2> QED
    BY <2>1
<1>1. CASE DraftTimer
  <2>1. checks \subseteq checks'
    BY <1>1 DEF DraftTimer, watch
  <2> QED
    BY <2>1
<1>2. CASE Flush
  <2>1. checks \subseteq checks'
    BY <1>2 DEF Flush, watch
  <2> QED
    BY <2>1
<1>3. CASE WriteAnswered
  <2>1. checks \subseteq checks'
    BY <1>3 DEF WriteAnswered, watch
  <2> QED
    BY <2>1
<1>4. CASE DeleteAnswered
  <2>0. PICK w \in {"self", "save", "leave", "late"}, keep \in Maybe : Continue(w, keep)
    BY <1>4, AnswerFacts DEF CallType
  <2>1. checks' = checks
    BY <2>0, ContinueFacts
  <2> QED
    BY <2>1
<1>5. ASSUME NEW i \in DOMAIN calls, DeleteTimeout(i) PROVE \A c \in checks \ checks' : c.undone => UNCHANGED <<ed.text, ed.hash, known, shown>>
  <2>0. PICK w \in {"self", "save", "leave", "late"}, keep \in Maybe : Continue(w, keep)
    BY <1>5, TimeoutFacts
  <2>1. checks' = checks
    BY <2>0, ContinueFacts
  <2> QED
    BY <2>1
<1>6. ASSUME NEW t \in Content, Type(t) PROVE \A c \in checks \ checks' : c.undone => UNCHANGED <<ed.text, ed.hash, known, shown>>
  <2>1. checks \subseteq checks'
    BY <1>6 DEF Type, watch
  <2> QED
    BY <2>1
<1>7. ASSUME NEW d \in Disk, Outside(d) PROVE \A c \in checks \ checks' : c.undone => UNCHANGED <<ed.text, ed.hash, known, shown>>
  <2>1. checks \subseteq checks'
    BY <1>7 DEF Outside, watch
  <2> QED
    BY <2>1
<1>8. CASE CheckStart
  <2>1. checks \subseteq checks'
    BY <1>8 DEF CheckStart, watch
  <2> QED
    BY <2>1
<1>9. ASSUME NEW c \in checks, CheckLand(c) PROVE \A d \in checks \ checks' : d.undone => UNCHANGED <<ed.text, ed.hash, known, shown>>
  <2>1. c.undone => Outdated(c)
    BY DEF Checked, Outdated
  <2>2. \A d \in checks \ checks' : d = c
    BY <1>9 DEF CheckLand
  <2>3. Outdated(c) => UNCHANGED <<ed, known, shown>>
    BY <1>9 DEF CheckLand
  <2> QED
    BY <2>1, <2>2, <2>3
<1>10. CASE Probe
  <2>1. checks \subseteq checks'
    BY <1>10 DEF Probe, watch
  <2> QED
    BY <2>1
<1>11. CASE DismissGone
  <2>1. checks \subseteq checks'
    BY <1>11 DEF DismissGone, watch
  <2> QED
    BY <2>1
<1>12. CASE ConfirmReload
  <2>1. checks \subseteq checks'
    BY <1>12 DEF ConfirmReload, watch
  <2> QED
    BY <2>1
<1>13. ASSUME NEW kind \in {"save", "stage", "stageOnly", "resolve"}, SaveStart(kind) PROVE \A c \in checks \ checks' : c.undone => UNCHANGED <<ed.text, ed.hash, known, shown>>
  <2>1. checks \subseteq checks'
    BY <1>13 DEF SaveStart, watch
  <2> QED
    BY <2>1
<1>14. CASE WriteLoad
  <2>1. checks \subseteq checks'
    BY <1>14 DEF WriteLoad, SaveRefused, watch
  <2> QED
    BY <2>1
<1>15. CASE WriteSwap
  <2>1. UNCHANGED <<ed, known, shown>> \/ checks' = checks
    BY <1>15 DEF WriteSwap, SaveRefused, watch
  <2> QED
    BY <2>1
<1>16. CASE SaveWritten
  <2>1. checks \subseteq checks'
    BY <1>16 DEF SaveWritten, watch
  <2> QED
    BY <2>1
<1>17. ASSUME NEW ok \in BOOLEAN, AnswerOverwrite(ok) PROVE \A c \in checks \ checks' : c.undone => UNCHANGED <<ed.text, ed.hash, known, shown>>
  <2>1. checks \subseteq checks'
    BY <1>17 DEF AnswerOverwrite, SaveRefused, watch
  <2> QED
    BY <2>1
<1>18. CASE Staged
  <2>1. checks \subseteq checks'
    BY <1>18 DEF Staged, watch
  <2> QED
    BY <2>1
<1>19. CASE ResolvedFile
  <2>1. checks \subseteq checks'
    BY <1>19 DEF ResolvedFile, watch
  <2> QED
    BY <2>1
<1>20. CASE RequestLeave
  <2>1. checks \subseteq checks'
    BY <1>20 DEF RequestLeave, watch
  <2> QED
    BY <2>1
<1>21. CASE LeaveSave
  <2>1. checks \subseteq checks'
    BY <1>21 DEF LeaveSave, watch
  <2> QED
    BY <2>1
<1>22. CASE LeaveDiscard
  <2>1. checks \subseteq checks'
    BY <1>22 DEF LeaveDiscard, watch
  <2> QED
    BY <2>1
<1>23. CASE LeaveCancel
  <2>1. checks \subseteq checks'
    BY <1>23 DEF LeaveCancel, watch
  <2> QED
    BY <2>1
<1>24. CASE Stay
  <2>1. checks \subseteq checks'
    BY <1>24 DEF Stay, watch
  <2> QED
    BY <2>1
<1>25. CASE Unmount
  <2>1. UNCHANGED <<known, shown>> /\ ed'.text = ed.text /\ ed'.hash = ed.hash
    BY <1>25 DEF Unmount, Typed, EdOK, Ed
  <2> QED
    BY <2>1
<1> QED
  BY <1>0, <1>1, <1>2, <1>3, <1>4, <1>5, <1>6, <1>7, <1>8, <1>9, <1>10, <1>11, <1>12,
     <1>13, <1>14, <1>15, <1>16, <1>17, <1>18, <1>19, <1>20, <1>21, <1>22, <1>23, <1>24,
     <1>25 DEF Next

(* No write replaces a disk content other than the one its text was made   *)
(* from without a yes to the prompt of this save (FR-474).                 *)
THEOREM OverwritesAsked == Spec => OverwriteIsAsked
<1>1. ASSUME IInv, [Next]_vars
      PROVE  [save.at = "loaded" /\ save'.at = "written" => save.force \/ disk = save.from]_vars
  <2> SUFFICES ASSUME save.at = "loaded", save'.at = "written" PROVE save.force \/ disk = save.from
    OBVIOUS
  <2>1. Typed /\ Flight
    BY <1>1, TypeParts DEF IInv
  <2>2. ~save.moved
    BY <1>1, <2>1, OnlySwaps
  <2> QED
    BY <2>1, <2>2 DEF Flight
<1> QED
  BY <1>1, Invariance, PTL DEF Spec, OverwriteIsAsked

(* What a disk check read before our own write is never reported (FR-536). *)
THEOREM OwnWritesSilent == Spec => OwnWritesAreNotReported
<1> DEFINE Silent == \A c \in checks \ checks' : c.undone => UNCHANGED <<ed.text, ed.hash, known, shown>>
<1>1. ASSUME IInv, [Next]_vars PROVE Silent
  BY <1>1, OnlyOutdatedGo, TypeParts DEF IInv
<1>2. IInv /\ [Next]_vars => [Silent]_vars
  BY <1>1
<1>3. OwnWritesAreNotReported <=> [][Silent]_vars
  BY DEF OwnWritesAreNotReported
<1> HIDE DEF Silent
<1> QED
  BY <1>2, <1>3, Invariance, PTL DEF Spec

(* At rest the draft store holds the text of a dirty buffer and nothing for*)
(* a clean or a discarded one, while it is open and once it is gone.       *)
THEOREM DraftFollows == Spec => []DraftFollowsBuffer
<1>1. ASSUME Followed, Quiet, excuse = "none"
      PROVE  stored = IF Dirty /\ (ed.mounted => ~blocked) /\ ~discarded THEN ed.text ELSE "none"
  <2>1. Pending = stored
    BY <1>1 DEF Quiet, Pending
  <2>2. Pending = Target
    BY <1>1 DEF Followed, Quiet
  <2> QED
    BY <2>1, <2>2 DEF Target
<1>2. IInv => DraftFollowsBuffer
  BY <1>1 DEF IInv, DraftFollowsBuffer
<1> QED
  BY <1>2, Invariance, PTL
=============================================================================
