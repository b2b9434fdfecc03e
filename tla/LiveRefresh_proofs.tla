-------------------------- MODULE LiveRefresh_proofs --------------------------
(***************************************************************************)
(* LiveRefresh for any mutations, evaluations and budgets, checked by      *)
(* TLAPS: its types, that every gate closes, that the app's own writes are *)
(* silent, that an alert holds back the apply, and that no change made by  *)
(* others goes unnoticed.                                                  *)
(***************************************************************************)
EXTENDS LiveRefresh, FiniteSetTheorems, SequenceTheorems, TLAPS

-----------------------------------------------------------------------------
(* Types, in parts: the calls in flight, and everything else.              *)
CallState ==
  [at : {"idle", "asked", "answered", "walking", "walked"}, kind : {"none", "refs", "rows", "eval"},
   snap : Snapshot, rows : Nat \cup {NoRows}, before : BOOLEAN]

Calls(cs) ==
  /\ cs \in [Call -> CallState]
  /\ \A c \in Call : cs[c].at = "walked" => cs[c].rows \in Nat

Flight ==
  /\ Calls(call)
  /\ staleGeneration \subseteq InFlight(call)
  /\ staleConfirmed \subseteq InFlight(call)
  /\ staleRows \subseteq InFlight(call)

Gate  == [owner : Mutation, pre : Snapshot]
Plain ==
  /\ world \in Snapshot /\ lastConfirmed \in Snapshot /\ shown \in Snapshot
  /\ rows \in Nat /\ baseline \in Nat \cup {NoRows}
  /\ event \in BOOLEAN /\ settleTimer \in BOOLEAN /\ idle \in BOOLEAN
  /\ mutation \in [Mutation -> [at : {"idle", "running", "settled"}, wrote : Nat]]
  /\ pendingMutations \in Seq(Gate)
  /\ hasExternalChanges \in BOOLEAN
  /\ operationStateAlert \in BOOLEAN
  /\ pendingExternal \in BOOLEAN
  /\ settleAttempts \in 0..MaxAttempts
  /\ prior \in [banner : BOOLEAN, alert : BOOLEAN, pending : BOOLEAN]
  /\ spent \in [Step -> Nat]
  /\ gap \subseteq {"late", "filter", "attempts", "counter", "fetch", "overtaken", "overlap", "shown"}

(* A confirming read follows its mutation, which writes once it runs.      *)
Issued ==
  \A m \in Mutation : /\ mutation[m].at # "settled" => call[m].at = "idle"
                      /\ mutation[m].at = "idle" => mutation[m].wrote = 0

Types == Plain /\ Flight /\ Issued

-----------------------------------------------------------------------------
(* A mutation is busy until its confirming read has ended.                 *)
Busy == {m \in Mutation : mutation[m].at = "running" \/ call[m].at # "idle"}

(* There is a busy mutation for every open gate, and only a fetch takes a  *)
(* gate from a mutation that is still busy.                                *)
Gates == \/ "filter" \in gap
         \/ /\ IsFiniteSet(Busy) /\ Len(pendingMutations) <= Cardinality(Busy)
            /\ "fetch" \in gap \/ Len(pendingMutations) = Cardinality(Busy)

-----------------------------------------------------------------------------
(* Nobody else has written, no read has failed, and the code has taken     *)
(* none of its exceptions.                                                 *)
Undisturbed == gap = {} /\ \A k \in {"write", "operation", "failure"} : spent[k] = 0

(* No read has seen anything of others, and nothing has been said of it.   *)
Ours(s) == s.ext = 0 /\ s.op = FALSE
Untouched ==
  /\ Ours(world) /\ Ours(lastConfirmed)
  /\ \A c \in Call : Ours(call[c].snap)
  /\ \A i \in DOMAIN pendingMutations : Ours(pendingMutations[i].pre)
  /\ ~hasExternalChanges /\ ~pendingExternal /\ ~operationStateAlert
  /\ prior = [banner |-> FALSE, alert |-> FALSE, pending |-> FALSE]
  /\ call["apply"].at = "idle"

HasRead(c) == call[c].at \in {"answered", "walking", "walked"}

(* No gate is open: what is confirmed is what is there, and so is what     *)
(* every read says that may still be confirmed.                            *)
AllConfirmed ==
  /\ pendingMutations = <<>> /\ Busy = {}
  /\ lastConfirmed.own = world.own
  /\ \A c \in Call \ {"filter"} :
       HasRead(c) /\ c \notin staleConfirmed => call[c].snap.own = world.own

(* One gate is open: the repository is as its mutation found or left it.   *)
OneAtWork(m) ==
  /\ Len(pendingMutations) = 1 /\ Busy = {m}
  /\ world.own = IF mutation[m].wrote > 0 THEN mutation[m].wrote ELSE pendingMutations[1].pre.own
  /\ HasRead(m) => call[m].snap.own = world.own

Silent == Undisturbed => Untouched /\ (AllConfirmed \/ \E m \in Mutation : OneAtWork(m))

IInv == Types /\ Gates /\ Silent

-----------------------------------------------------------------------------
(* What the operators do.                                                  *)
LEMMA CallNames ==
  /\ Mutation \subseteq Call /\ Eval \subseteq Call /\ Reload \subseteq Call
  /\ {"manual", "apply", "fetch", "filter"} \subseteq Call
  /\ {"manual", "apply", "fetch", "filter"} \cap (Mutation \cup Eval) = {}
  /\ Mutation \cap Eval = {}
  /\ Reload = Mutation \cup {"manual", "apply", "fetch"}
BY LiveRefreshAssumption DEF Call, Reload

LEMMA IdleFacts ==
  /\ Idle \in CallState /\ Idle.at = "idle" /\ Ours(Idle.snap) /\ Idle.snap \in Snapshot
  /\ \A k \in {"refs", "rows", "eval"} :
       /\ Asked(k) \in CallState /\ Asked(k).at = "asked" /\ Asked(k).kind = k
       /\ Asked(k).snap = Idle.snap
       /\ \A b \in BOOLEAN : /\ [Asked(k) EXCEPT !.before = b] \in CallState
                             /\ [Asked(k) EXCEPT !.before = b].at = "asked"
BY DEF Idle, Asked, CallState, Snapshot, NoRows, Ours

LEMMA CallFacts ==
  ASSUME NEW cs, Calls(cs), NEW c \in Call
  PROVE  /\ cs[c] \in CallState /\ cs[c].snap \in Snapshot /\ cs[c].rows \in Nat \cup {NoRows}
         /\ cs[c].before \in BOOLEAN
         /\ cs[c].at \in {"idle", "asked", "answered", "walking", "walked"}
BY DEF Calls, CallState

(* One call moves on.                                                      *)
Put(cs, c, r) == [cs EXCEPT ![c] = r]

LEMMA PutFacts ==
  ASSUME NEW cs, Calls(cs), NEW c \in Call, NEW r \in CallState, r.at = "walked" => r.rows \in Nat
  PROVE  /\ Calls(Put(cs, c, r))
         /\ Put(cs, c, r)[c] = r
         /\ \A d \in Call : d # c => Put(cs, c, r)[d] = cs[d]
         /\ r.at # "idle" => InFlight(Put(cs, c, r)) = InFlight(cs) \cup {c}
         /\ r.at = "idle" => InFlight(Put(cs, c, r)) = InFlight(cs) \ {c}
<1> DEFINE n == Put(cs, c, r)
<1>1. cs \in [Call -> CallState]
  BY DEF Calls
<1>2. n \in [Call -> CallState] /\ n[c] = r /\ \A d \in Call : d # c => n[d] = cs[d]
  BY <1>1 DEF Put
<1> HIDE DEF n
<1>3. Calls(n)
  BY <1>2 DEF Calls
<1> QED
  BY <1>2, <1>3 DEF InFlight, n

LEMMA EndFacts ==
  ASSUME Calls(call), NEW c \in Call
  PROVE  /\ Calls(Ended(c)) /\ Ended(c)[c] = Idle
         /\ \A d \in Call : d # c => Ended(c)[d] = call[d]
         /\ InFlight(Ended(c)) = InFlight(call) \ {c}
<1>1. Ended(c) = Put(call, c, Idle)
  BY DEF Ended, Put
<1> QED
  BY <1>1, PutFacts, IdleFacts

(* A call is answered, walks and has walked.                               *)
LEMMA MoveFacts ==
  ASSUME Calls(call), NEW c \in Call, world \in Snapshot
  PROVE  /\ \E r \in CallState :
              /\ [call EXCEPT ![c].at = "answered", ![c].snap = world] = Put(call, c, r)
              /\ r.at = "answered" /\ r.snap = world /\ r.kind = call[c].kind
         /\ \E r \in CallState :
              /\ [call EXCEPT ![c].at = "walking"] = Put(call, c, r)
              /\ r.at = "walking" /\ r.snap = call[c].snap /\ r.kind = call[c].kind
         /\ \E r \in CallState :
              /\ [call EXCEPT ![c].at = "walked", ![c].rows = world.ext] = Put(call, c, r)
              /\ r.at = "walked" /\ r.rows = world.ext /\ r.snap = call[c].snap /\ r.kind = call[c].kind
<1>1. call \in [Call -> CallState] /\ call[c] \in CallState /\ world.ext \in Nat
  BY DEF Calls, Snapshot
<1>2. \E r \in CallState :
        /\ [call EXCEPT ![c].at = "answered", ![c].snap = world] = Put(call, c, r)
        /\ r.at = "answered" /\ r.snap = world /\ r.kind = call[c].kind
  <2> DEFINE r == [call[c] EXCEPT !.at = "answered", !.snap = world]
  <2>1. r \in CallState /\ call[c].kind = r.kind
    BY <1>1 DEF CallState
  <2>2. r.at = "answered" /\ r.snap = world /\ [call EXCEPT ![c].at = "answered", ![c].snap = world] = Put(call, c, r)
    BY <1>1 DEF CallState, Put
  <2> QED
    BY <2>1, <2>2
<1>3. \E r \in CallState :
        /\ [call EXCEPT ![c].at = "walking"] = Put(call, c, r)
        /\ r.at = "walking" /\ r.snap = call[c].snap /\ r.kind = call[c].kind
  <2> DEFINE r == [call[c] EXCEPT !.at = "walking"]
  <2>1. r \in CallState /\ call[c].kind = r.kind
    BY <1>1 DEF CallState
  <2>2. r.at = "walking" /\ r.snap = call[c].snap /\ [call EXCEPT ![c].at = "walking"] = Put(call, c, r)
    BY <1>1 DEF CallState, Put
  <2> QED
    BY <2>1, <2>2
<1>4. \E r \in CallState :
        /\ [call EXCEPT ![c].at = "walked", ![c].rows = world.ext] = Put(call, c, r)
        /\ r.at = "walked" /\ r.rows = world.ext /\ r.snap = call[c].snap /\ r.kind = call[c].kind
  <2> DEFINE r == [call[c] EXCEPT !.at = "walked", !.rows = world.ext]
  <2>1. r \in CallState /\ call[c].kind = r.kind
    BY <1>1 DEF CallState
  <2>2. r.at = "walked" /\ r.rows = world.ext /\ r.snap = call[c].snap
        /\ [call EXCEPT ![c].at = "walked", ![c].rows = world.ext] = Put(call, c, r)
    BY <1>1 DEF CallState, Put
  <2> QED
    BY <2>1, <2>2
<1> QED
  BY <1>2, <1>3, <1>4

(* The apply starts.                                                       *)
Started(cs, op) == [cs EXCEPT !["apply"] = [Asked("rows") EXCEPT !.before = op]]

LEMMA StartFacts ==
  ASSUME NEW cs, Calls(cs), NEW op, op \in BOOLEAN
  PROVE  /\ Calls(Started(cs, op)) /\ InFlight(cs) \subseteq InFlight(Started(cs, op))
         /\ \A c \in Call : c # "apply" => Started(cs, op)[c] = cs[c]
<1> DEFINE r == [Asked("rows") EXCEPT !.before = op]
<1>1. "apply" \in Call /\ r \in CallState /\ r.at = "asked" /\ Started(cs, op) = Put(cs, "apply", r)
  BY CallNames, IdleFacts DEF Started, Put
<1> HIDE DEF r
<1>2. /\ Calls(Put(cs, "apply", r)) /\ InFlight(Put(cs, "apply", r)) = InFlight(cs) \cup {"apply"}
      /\ \A c \in Call : c # "apply" => Put(cs, "apply", r)[c] = cs[c]
  BY <1>1, PutFacts
<1> QED
  BY <1>1, <1>2

(* flushPendingExternal starts the apply, or leaves all as it is.          *)
LEMMA FlushFacts ==
  ASSUME NEW quiet, NEW pending \in BOOLEAN, NEW banner \in BOOLEAN, NEW gates, NEW alert \in BOOLEAN,
         NEW cs, Calls(cs), NEW opBefore \in BOOLEAN,
         FlushIf(quiet, pending, banner, gates, alert, cs, opBefore)
  PROVE  /\ pendingExternal' \in BOOLEAN /\ hasExternalChanges' \in BOOLEAN
         /\ Calls(call') /\ InFlight(cs) \subseteq InFlight(call')
         /\ \A c \in Call : c # "apply" => call'[c] = cs[c]
         /\ \/ pendingExternal' = pending /\ hasExternalChanges' = banner /\ call' = cs
            \/ pending /\ ~alert /\ gates = <<>> /\ cs["apply"].at = "idle"
<1> DEFINE r == [Asked("rows") EXCEPT !.before = opBefore]
<1>1. "apply" \in Call /\ r \in CallState /\ r.at = "asked"
  BY CallNames, IdleFacts
<1>2. CASE pending /\ cs["apply"].at = "idle" /\ IsIdleNow(quiet, gates, alert, cs)
  <2> DEFINE n == Put(cs, "apply", r)
  <2>1. /\ pendingExternal' = FALSE /\ hasExternalChanges' = FALSE /\ call' = n
    BY <1>2 DEF FlushIf, Put
  <2>2. ~alert /\ gates = <<>>
    BY <1>2 DEF IsIdleNow
  <2>3. /\ Calls(n) /\ \A c \in Call : c # "apply" => n[c] = cs[c]
        /\ InFlight(cs) \subseteq InFlight(n)
    <3> HIDE DEF r
    <3>1. Calls(n) /\ (\A c \in Call : c # "apply" => n[c] = cs[c]) /\ InFlight(n) = InFlight(cs) \cup {"apply"}
      BY <1>1, PutFacts
    <3> QED
      BY <3>1
  <2> HIDE DEF n
  <2> QED
    BY <1>2, <2>1, <2>2, <2>3
<1>3. CASE ~(pending /\ cs["apply"].at = "idle" /\ IsIdleNow(quiet, gates, alert, cs))
  BY <1>3 DEF FlushIf
<1> QED
  BY <1>2, <1>3

(* So does requestExternalApply, behind the end of the call c.             *)
LEMMA BehindFacts ==
  ASSUME Types, NEW c \in Call, NEW gates, NEW op, op \in BOOLEAN,
         \/ RequestExternalApply(gates, operationStateAlert, Ended(c), op)
         \/ Flush(pendingExternal, hasExternalChanges, gates, operationStateAlert, Ended(c), op)
  PROVE  /\ pendingExternal' \in BOOLEAN /\ hasExternalChanges' \in BOOLEAN
         /\ Calls(call') /\ InFlight(Ended(c)) \subseteq InFlight(call')
         /\ \A d \in Call : d # "apply" => call'[d] = Ended(c)[d]
         /\ call' = Ended(c) \/ ~operationStateAlert
<1> DEFINE cs == Ended(c)
<1>1. Calls(cs) /\ pendingExternal \in BOOLEAN /\ hasExternalChanges \in BOOLEAN
  BY EndFacts DEF Types, Flight, Plain
<1>2. \/ RequestExternalApply(gates, operationStateAlert, cs, op)
      \/ FlushIf(idle, pendingExternal, hasExternalChanges, gates, operationStateAlert, cs, op)
  BY DEF Flush
<1> HIDE DEF cs
<1>3. \/ pendingExternal' = FALSE /\ hasExternalChanges' = FALSE /\ call' = Started(cs, op) /\ ~operationStateAlert
      \/ pendingExternal' = TRUE /\ hasExternalChanges' = TRUE /\ call' = cs
      \/ UNCHANGED <<pendingExternal, hasExternalChanges>> /\ call' = cs
  BY <1>2 DEF RequestExternalApply, Flush, FlushIf, IsIdleNow, Started
<1>4. pendingExternal' \in BOOLEAN /\ hasExternalChanges' \in BOOLEAN
  BY <1>1, <1>3
<1>5. call' = cs \/ (call' = Started(cs, op) /\ ~operationStateAlert)
  BY <1>3
<1>6. Calls(call') /\ InFlight(cs) \subseteq InFlight(call') /\ \A d \in Call : d # "apply" => call'[d] = cs[d]
  BY <1>1, <1>5, StartFacts
<1> QED
  BY <1>4, <1>5, <1>6 DEF cs

(* So does what follows an apply that has ended.                           *)
LEMMA AfterFacts ==
  ASSUME Types, NEW moved \in BOOLEAN, NEW confirmed \in Snapshot, AfterApply(moved, confirmed)
  PROVE  /\ pendingExternal' \in BOOLEAN /\ hasExternalChanges' \in BOOLEAN /\ operationStateAlert' \in BOOLEAN
         /\ Calls(call') /\ InFlight(call) \ {"apply"} \subseteq InFlight(call')
         /\ \A c \in Call : c # "apply" => call'[c] = call[c]
         /\ call'["apply"].at # "idle" => ~operationStateAlert'
<1> DEFINE cs == Ended("apply")
<1>1. /\ Calls(cs) /\ cs["apply"] = Idle /\ (\A c \in Call : c # "apply" => cs[c] = call[c])
      /\ InFlight(cs) = InFlight(call) \ {"apply"}
  BY CallNames, EndFacts DEF Types, Flight
<1>2. /\ pendingExternal \in BOOLEAN /\ hasExternalChanges \in BOOLEAN /\ operationStateAlert \in BOOLEAN
      /\ confirmed.op \in BOOLEAN
  BY DEF Types, Plain, Snapshot
<1>3. \/ call' = cs /\ pendingExternal' \in BOOLEAN /\ hasExternalChanges' \in BOOLEAN /\ operationStateAlert' \in BOOLEAN
      \/ /\ operationStateAlert' = operationStateAlert
         /\ FlushIf(idle, pendingExternal, hasExternalChanges, pendingMutations, operationStateAlert, cs, confirmed.op)
  BY <1>2 DEF AfterApply, Flush
<1> HIDE DEF cs
<1>4. CASE call' = cs /\ pendingExternal' \in BOOLEAN /\ hasExternalChanges' \in BOOLEAN /\ operationStateAlert' \in BOOLEAN
  BY <1>1, <1>4, IdleFacts
<1>5. CASE /\ operationStateAlert' = operationStateAlert
           /\ FlushIf(idle, pendingExternal, hasExternalChanges, pendingMutations, operationStateAlert, cs, confirmed.op)
  <2>1. /\ pendingExternal' \in BOOLEAN /\ hasExternalChanges' \in BOOLEAN
        /\ Calls(call') /\ InFlight(cs) \subseteq InFlight(call')
        /\ \A c \in Call : c # "apply" => call'[c] = cs[c]
        /\ call' = cs \/ ~operationStateAlert
    BY <1>1, <1>2, <1>5, FlushFacts
  <2> QED
    BY <1>1, <1>2, <1>5, <2>1, IdleFacts
<1> QED
  BY <1>3, <1>4, <1>5

LEMMA SpendFacts ==
  ASSUME spent \in [Step -> Nat], NEW k \in Step, Spend(k)
  PROVE  /\ spent' \in [Step -> Nat] /\ spent'[k] # 0
         /\ \A j \in Step : spent'[j] = 0 => spent[j] = 0
BY DEF Spend

(* The oldest gate is closed.                                              *)
LEMMA TailFacts ==
  ASSUME NEW q \in Seq(Gate)
  PROVE  /\ Len(q) \in Nat /\ DOMAIN q = 1..Len(q) /\ \A i \in DOMAIN q : q[i] \in Gate
         /\ <<>> \in Seq(Gate) /\ Len(<<>>) = 0 /\ DOMAIN <<>> = {}
         /\ q = <<>> <=> Len(q) = 0
         /\ q # <<>> => /\ Tail(q) \in Seq(Gate) /\ Len(Tail(q)) = Len(q) - 1
                        /\ Head(q) = q[1] /\ 1 \in DOMAIN q
                        /\ \A i \in DOMAIN Tail(q) : Tail(q)[i] = q[i + 1] /\ i + 1 \in DOMAIN q
<1>1. q # <<>> => /\ Head(q) = q[1] /\ Len(q) >= 1 /\ Tail(q) \in Seq(Gate)
                  /\ Len(Tail(q)) = Len(q) - 1
                  /\ \A i \in 1..(Len(q) - 1) : Tail(q)[i] = q[i + 1]
  BY HeadTailProperties, EmptySeq
<1>2. q = <<>> <=> Len(q) = 0
  BY EmptySeq
<1> QED
  BY <1>1, <1>2

-----------------------------------------------------------------------------
(* Types are kept.                                                         *)
LEMMA StepTyped ==
  ASSUME Types, Plain', mutation' = mutation, Calls(call'),
         \A m \in Mutation : call[m].at = "idle" => call'[m].at = "idle",
         staleGeneration' \subseteq InFlight(call'), staleConfirmed' \subseteq InFlight(call'),
         staleRows' \subseteq InFlight(call')
  PROVE  Types'
<1>1. Flight'
  BY DEF Flight, Calls, InFlight
<1>2. Issued'
  BY DEF Types, Issued
<1> QED
  BY <1>1, <1>2 DEF Types

(* The call c ends, and no other does.                                     *)
LEMMA EndTyped ==
  ASSUME Types, Plain', mutation' = mutation, NEW c \in Call, Calls(call'),
         InFlight(call) \ {c} \subseteq InFlight(call'),
         \A m \in Mutation : call[m].at = "idle" => call'[m].at = "idle",
         Forget(c), NEW more, Moved(c, more), more \ {c} \subseteq InFlight(call')
  PROVE  Types'
<1>1. /\ staleGeneration' \subseteq InFlight(call')
      /\ staleConfirmed' \subseteq InFlight(call')
      /\ staleRows' \subseteq InFlight(call')
  BY DEF Types, Flight, Forget, Moved
<1> QED
  BY <1>1, StepTyped

LEMMA EndedTyped ==
  ASSUME Types, Plain', mutation' = mutation, NEW c \in Call, call' = Ended(c), Forget(c),
         NEW more, Moved(c, more), more \subseteq InFlight(call)
  PROVE  Types'
<1>1. /\ Calls(Ended(c)) /\ Ended(c)[c] = Idle /\ (\A d \in Call : d # c => Ended(c)[d] = call[d])
      /\ InFlight(Ended(c)) = InFlight(call) \ {c} /\ Idle.at = "idle"
  BY EndFacts, IdleFacts DEF Types, Flight
<1>2. Calls(call') /\ InFlight(call') = InFlight(call) \ {c}
  BY <1>1
<1>3. \A m \in Mutation : call[m].at = "idle" => call'[m].at = "idle"
  BY <1>1, CallNames
<1>4. more \ {c} \subseteq InFlight(call') /\ InFlight(call) \ {c} \subseteq InFlight(call')
  BY <1>2
<1> QED
  BY <1>2, <1>3, <1>4, EndTyped

(* The call c moves on, or starts.                                         *)
LEMMA PutTyped ==
  ASSUME Types, Plain', mutation' = mutation, NEW c \in Call, NEW r \in CallState, r.at # "idle",
         r.at = "walked" => r.rows \in Nat, call' = Put(call, c, r),
         c \in Mutation => call[c].at # "idle",
         staleGeneration' \subseteq InFlight(call), staleConfirmed' \subseteq InFlight(call),
         staleRows' \subseteq InFlight(call)
  PROVE  Types'
<1> DEFINE n == Put(call, c, r)
<1>1. /\ Calls(n) /\ n[c] = r /\ (\A d \in Call : d # c => n[d] = call[d])
      /\ InFlight(n) = InFlight(call) \cup {c}
  BY PutFacts DEF Types, Flight
<1> HIDE DEF n
<1>3. \A m \in Mutation : call[m].at = "idle" => n[m].at = "idle"
  BY <1>1, CallNames
<1>4. call' = n
  BY DEF n
<1>5. /\ staleGeneration' \subseteq InFlight(call') /\ staleConfirmed' \subseteq InFlight(call')
      /\ staleRows' \subseteq InFlight(call') /\ Calls(call')
      /\ \A m \in Mutation : call[m].at = "idle" => call'[m].at = "idle"
  BY <1>1, <1>3, <1>4
<1> QED
  BY <1>5, StepTyped

LEMMA OwnTyped ==
  ASSUME Types, NEW m \in Mutation, BeginMutation(m) \/ MutationWrites(m) \/ MutationSettles(m)
  PROVE  Types'
<1>1. Plain /\ Flight /\ Issued /\ mutation[m] \in [at : {"idle", "running", "settled"}, wrote : Nat]
      /\ m \in Call
  BY CallNames DEF Types, Plain
<1>2. CASE BeginMutation(m)
  <2>1. spent' \in [Step -> Nat]
    BY <1>1, <1>2, SpendFacts DEF BeginMutation, Plain, Step
  <2>2. pendingMutations' \in Seq(Gate)
    <3>1. [owner |-> m, pre |-> lastConfirmed] \in Gate /\ pendingMutations \in Seq(Gate)
      BY <1>1 DEF Plain, Gate
    <3> QED
      BY <1>2, <3>1, AppendProperties DEF BeginMutation
  <2>3. mutation' = [mutation EXCEPT ![m].at = "running"] /\ UNCHANGED flight
    BY <1>2 DEF BeginMutation
  <2>4. /\ mutation' \in [Mutation -> [at : {"idle", "running", "settled"}, wrote : Nat]]
        /\ mutation'[m].at = "running" /\ mutation'[m].wrote = mutation[m].wrote
        /\ \A n \in Mutation \ {m} : mutation'[n] = mutation[n]
    BY <1>1, <2>3 DEF Plain
  <2>5. Plain'
    BY <1>1, <1>2, <2>1, <2>2, <2>4 DEF Plain, BeginMutation, repository, view, notice, settle
  <2>6. Flight'
    BY <1>1, <2>3 DEF Flight, Calls, InFlight, flight
  <2>7. Issued'
    <3>1. call[m].at = "idle" /\ call' = call
      BY <1>1, <1>2, <2>3 DEF Issued, BeginMutation, flight
    <3> QED
      BY <1>1, <2>4, <3>1 DEF Issued
  <2> QED
    BY <2>5, <2>6, <2>7 DEF Types
<1>3. CASE MutationWrites(m)
  <2>1. /\ mutation' = [mutation EXCEPT ![m].wrote = world.own + 1] /\ UNCHANGED flight
        /\ world' = [world EXCEPT !.own = @ + 1] /\ mutation[m].at = "running"
    BY <1>3 DEF MutationWrites
  <2>w. world \in Snapshot /\ world.own + 1 \in Nat
    BY <1>1 DEF Plain, Snapshot
  <2>2. /\ mutation' \in [Mutation -> [at : {"idle", "running", "settled"}, wrote : Nat]]
        /\ mutation'[m].at = "running"
        /\ \A n \in Mutation \ {m} : mutation'[n] = mutation[n]
    BY <1>1, <2>1, <2>w DEF Plain
  <2>3. world' \in Snapshot
    BY <2>1, <2>w DEF Snapshot
  <2>4. Plain'
    BY <1>1, <1>3, <2>2, <2>3 DEF Plain, MutationWrites, view, notice, settle
  <2>5. Flight'
    BY <1>1, <2>1 DEF Flight, Calls, InFlight, flight
  <2>6. Issued'
    BY <1>1, <2>1, <2>2 DEF Issued, flight
  <2> QED
    BY <2>4, <2>5, <2>6 DEF Types
<1>4. CASE MutationSettles(m)
  <2>1. /\ mutation' = [mutation EXCEPT ![m].at = "settled"]
        /\ UNCHANGED <<staleGeneration, staleConfirmed, staleRows>>
    BY <1>4 DEF MutationSettles
  <2>2. PICK k \in {"refs", "rows"} : call' = Put(call, m, Asked(k))
    BY <1>4 DEF MutationSettles, Put
  <2>3. Asked(k) \in CallState /\ Asked(k).at = "asked"
    BY IdleFacts
  <2>4. /\ Calls(call') /\ (\A c \in Call : c # m => call'[c] = call[c])
        /\ InFlight(call') = InFlight(call) \cup {m}
    BY <1>1, <2>2, <2>3, PutFacts DEF Flight
  <2>5. /\ mutation' \in [Mutation -> [at : {"idle", "running", "settled"}, wrote : Nat]]
        /\ mutation'[m].at = "settled"
        /\ \A n \in Mutation \ {m} : mutation'[n] = mutation[n]
    BY <1>1, <2>1 DEF Plain
  <2>6. Plain'
    BY <1>1, <1>4, <2>5 DEF Plain, MutationSettles, repository, view, notice, settle
  <2>7. Flight'
    BY <1>1, <2>1, <2>4 DEF Flight, Calls, InFlight
  <2>8. Issued'
    <3>1. \A n \in Mutation \ {m} : call'[n] = call[n]
      BY <2>4, CallNames
    <3> QED
      BY <1>1, <2>5, <3>1 DEF Issued
  <2> QED
    BY <2>6, <2>7, <2>8 DEF Types
<1> QED
  BY <1>2, <1>3, <1>4

(* The evaluations.                                                        *)
LEMMA EvalTyped ==
  ASSUME Types, \/ OnRefsChanged \/ SettleTimerFires
                \/ \E e \in Eval : EvalStep(e)
  PROVE  Types'
<1>1. Plain /\ Flight
  BY DEF Types
<1>2. CASE OnRefsChanged \/ SettleTimerFires
  <2>1. Plain' /\ mutation' = mutation /\ UNCHANGED <<staleGeneration, staleConfirmed, staleRows>>
    BY <1>1, <1>2 DEF OnRefsChanged, SettleTimerFires, DropForGate, Plain, repository, gate, view, notice, settle
  <2>2. CASE call' = call
    BY <1>1, <2>1, <2>2, StepTyped DEF Flight
  <2>3. CASE call' # call
    <3>1. PICK e \in Eval : call' = Put(call, e, Asked("eval"))
      BY <1>2, <2>3 DEF OnRefsChanged, SettleTimerFires, Put
    <3>2. Asked("eval") \in CallState /\ Asked("eval").at = "asked" /\ e \in Call /\ e \notin Mutation
      BY IdleFacts, CallNames
    <3>3. /\ staleGeneration' \subseteq InFlight(call) /\ staleConfirmed' \subseteq InFlight(call)
          /\ staleRows' \subseteq InFlight(call)
      BY <1>1, <2>1 DEF Flight
    <3> QED
      BY <2>1, <3>1, <3>2, <3>3, PutTyped
  <2> QED
    BY <2>2, <2>3
<1>3. ASSUME NEW e \in Eval, EvaluationDropped(e) PROVE Types'
  <2>1. Plain' /\ mutation' = mutation
    <3>0. \/ settleTimer' = settleTimer /\ settleAttempts' = settleAttempts
          \/ settleTimer' = TRUE /\ settleAttempts' = settleAttempts + 1 /\ ~(settleAttempts >= MaxAttempts)
      BY <1>3 DEF EvaluationDropped, ScheduleSettleRecheck, settle
    <3>t. settleTimer' \in BOOLEAN
      BY <1>1, <3>0 DEF Plain
    <3>1. settleAttempts' \in 0..MaxAttempts
      <4>1. settleAttempts \in 0..MaxAttempts /\ MaxAttempts \in Nat
        BY <1>1, LiveRefreshAssumption DEF Plain
      <4>2. settleAttempts' = settleAttempts \/ (settleAttempts' = settleAttempts + 1 /\ ~(settleAttempts >= MaxAttempts))
        BY <3>0
      <4> QED
        BY <4>1, <4>2
    <3>2. gap' \subseteq gap \cup {"late", "filter", "attempts"}
      BY <1>3 DEF EvaluationDropped, ScheduleSettleRecheck, DropForGate
    <3> QED
      BY <1>1, <1>3, <3>t, <3>1, <3>2 DEF EvaluationDropped, Plain, repository, gate, view, notice
  <2> QED
    BY <1>3, <2>1, CallNames, EndedTyped DEF EvaluationDropped
<1>4. ASSUME NEW e \in Eval, EvaluationDecides(e) PROVE Types'
  <2>0. /\ e \in Call /\ e \notin Mutation /\ call[e] \in CallState /\ call[e].snap \in Snapshot
        /\ Calls(Ended(e)) /\ InFlight(Ended(e)) = InFlight(call) \ {e}
        /\ \A c \in Call : c # e => Ended(e)[c] = call[c]
    BY <1>1, CallNames, CallFacts, EndFacts DEF Flight
  <2>1. /\ pendingExternal' \in BOOLEAN /\ hasExternalChanges' \in BOOLEAN /\ operationStateAlert' \in BOOLEAN
        /\ Calls(call') /\ InFlight(call) \ {e} \subseteq InFlight(call')
        /\ \A m \in Mutation : call'[m] = call[m]
    <3>1. operationStateAlert' \in BOOLEAN /\ operationStateAlert \in BOOLEAN /\ call[e].snap.op \in BOOLEAN
      BY <1>1, <1>4, <2>0 DEF EvaluationDecides, Plain, Snapshot
    <3>2. CASE call' = Ended(e) /\ UNCHANGED <<hasExternalChanges, pendingExternal>>
      BY <1>1, <2>0, <3>1, <3>2, CallNames DEF Plain
    <3>3. CASE RequestExternalApply(<<>>, operationStateAlert, Ended(e), call[e].snap.op)
      <4>1. /\ pendingExternal' \in BOOLEAN /\ hasExternalChanges' \in BOOLEAN
            /\ Calls(call') /\ InFlight(Ended(e)) \subseteq InFlight(call')
            /\ \A c \in Call : c # "apply" => call'[c] = Ended(e)[c]
        BY <2>0, <3>1, <3>3, BehindFacts
      <4> QED
        BY <2>0, <3>1, <4>1, CallNames
    <3> QED
      BY <1>4, <3>2, <3>3 DEF EvaluationDecides
  <2>2. Plain' /\ mutation' = mutation
    BY <1>1, <1>4, <2>0, <2>1, LiveRefreshAssumption DEF EvaluationDecides, Plain, repository, gate
  <2>3. Forget(e) /\ Moved(e, InFlight(call)) /\ InFlight(call) \ {e} \subseteq InFlight(call')
        /\ \A m \in Mutation : call[m].at = "idle" => call'[m].at = "idle"
    BY <1>4, <2>1 DEF EvaluationDecides
  <2> QED
    BY <2>0, <2>1, <2>2, <2>3, EndTyped
<1>5. ASSUME NEW e \in Eval, EvaluationFails(e) PROVE Types'
  <2>1. spent' \in [Step -> Nat]
    BY <1>1, <1>5, SpendFacts DEF EvaluationFails, Plain, Step
  <2>2. hasExternalChanges' \in BOOLEAN /\ gap' \subseteq gap \cup {"filter"}
    BY <1>5 DEF EvaluationFails
  <2>3. Plain' /\ mutation' = mutation
    BY <1>1, <1>5, <2>1, <2>2 DEF EvaluationFails, Plain, repository, gate, view, settle
  <2> QED
    BY <1>5, <2>3, CallNames, EndedTyped DEF EvaluationFails
<1> QED
  BY <1>2, <1>3, <1>4, <1>5 DEF EvalStep

(* The call c ends, and deferred changes are flushed behind it.            *)
LEMMA FlushedTyped ==
  ASSUME Types, Plain', mutation' = mutation, NEW c \in Call, Calls(call'),
         InFlight(Ended(c)) \subseteq InFlight(call'),
         \A d \in Call : d # "apply" => call'[d] = Ended(c)[d],
         Forget(c), NEW more, Moved(c, more), more \subseteq InFlight(call) \cup InFlight(call')
  PROVE  Types'
<1>1. /\ Ended(c)[c] = Idle /\ (\A d \in Call : d # c => Ended(c)[d] = call[d])
      /\ InFlight(Ended(c)) = InFlight(call) \ {c} /\ Idle.at = "idle"
  BY EndFacts, IdleFacts DEF Types, Flight
<1>2. \A m \in Mutation : call[m].at = "idle" => call'[m].at = "idle"
  BY <1>1, CallNames
<1>3. more \ {c} \subseteq InFlight(call') /\ InFlight(call) \ {c} \subseteq InFlight(call')
  BY <1>1
<1> QED
  BY <1>2, <1>3, EndTyped

(* refreshRefs.                                                            *)
LEMMA RefsTyped ==
  ASSUME Types, NEW m \in Mutation, RefreshRefs(m) \/ RefreshRefsAbandoned(m)
  PROVE  Types'
<1>1. Plain /\ Flight
  BY DEF Types
<1>2. /\ m \in Call /\ call[m] \in CallState /\ call[m].snap \in Snapshot
      /\ Calls(Ended(m)) /\ call[m].snap.op \in BOOLEAN /\ lastConfirmed.op \in BOOLEAN
      /\ operationStateAlert \in BOOLEAN /\ pendingExternal \in BOOLEAN /\ hasExternalChanges \in BOOLEAN
  BY <1>1, CallNames, CallFacts, EndFacts DEF Flight, Plain, Snapshot
<1>3. CASE RefreshRefs(m)
  <2> DEFINE gates == IF pendingMutations = <<>> THEN <<>> ELSE Tail(pendingMutations)
  <2>1. pendingMutations' = gates /\ gates \in Seq(Gate)
    BY <1>1, <1>3, TailFacts DEF RefreshRefs, Plain
  <2>2. \/ RequestExternalApply(gates, operationStateAlert, Ended(m), lastConfirmed.op) /\ Moved(m, InFlight(call'))
        \/ /\ Flush(pendingExternal, hasExternalChanges, gates, operationStateAlert, Ended(m), call[m].snap.op)
           /\ Moved(m, InFlight(call))
    BY <1>3 DEF RefreshRefs
  <2> HIDE DEF gates
  <2>3. PICK more : Moved(m, more) /\ more \subseteq InFlight(call) \cup InFlight(call')
    BY <2>2
  <2>4. /\ pendingExternal' \in BOOLEAN /\ hasExternalChanges' \in BOOLEAN
        /\ Calls(call') /\ InFlight(Ended(m)) \subseteq InFlight(call')
        /\ \A c \in Call : c # "apply" => call'[c] = Ended(m)[c]
    <3>1. CASE RequestExternalApply(gates, operationStateAlert, Ended(m), lastConfirmed.op)
      BY <1>2, <3>1, BehindFacts
    <3>2. CASE Flush(pendingExternal, hasExternalChanges, gates, operationStateAlert, Ended(m), call[m].snap.op)
      BY <1>2, <3>2, BehindFacts
    <3> QED
      BY <2>2, <3>1, <3>2
  <2>5. gap' \subseteq gap \cup {"overtaken"} /\ shown' = call[m].snap /\ lastConfirmed' = call[m].snap
    BY <1>3 DEF RefreshRefs, Overtaken
  <2>6. Plain' /\ mutation' = mutation
    <3>1. UNCHANGED <<world, event, mutation, rows, baseline, operationStateAlert, settleTimer, settleAttempts,
                      prior, idle, spent>>
      BY <1>3 DEF RefreshRefs, repository, settle
    <3> QED
      BY <1>1, <1>2, <2>1, <2>4, <2>5, <3>1 DEF Plain
  <2>7. Forget(m)
    BY <1>3 DEF RefreshRefs
  <2> QED
    BY <1>2, <2>3, <2>4, <2>6, <2>7, FlushedTyped
<1>4. CASE RefreshRefsAbandoned(m)
  <2>1. Plain' /\ mutation' = mutation
    BY <1>1, <1>4 DEF RefreshRefsAbandoned, Plain, repository, gate, view, notice, settle
  <2> QED
    BY <1>2, <1>4, <2>1, EndedTyped DEF RefreshRefsAbandoned
<1> QED
  BY <1>3, <1>4

(* A confirming read fails.                                                *)
LEMMA FailureTyped ==
  ASSUME Types, NEW c \in Call, ConfirmingReadFails(c)
  PROVE  Types'
<1>1. Plain /\ Flight
  BY DEF Types
<1>2. spent' \in [Step -> Nat]
  BY <1>1, SpendFacts DEF ConfirmingReadFails, Plain, Step
<1>3. /\ \/ UNCHANGED <<pendingMutations, hasExternalChanges>>
         \/ CloseOldestGate
      /\ gap' \subseteq gap \cup {"filter", "overtaken", "fetch", "shown"}
  BY DEF ConfirmingReadFails, Overtaken, OthersGate, LeftShown
<1>4. pendingMutations' \in Seq(Gate) /\ hasExternalChanges' \in BOOLEAN
  BY <1>1, <1>3, TailFacts DEF CloseOldestGate, Plain
<1>5. Plain' /\ mutation' = mutation
  BY <1>1, <1>2, <1>3, <1>4 DEF ConfirmingReadFails, Plain, repository, view, settle
<1> QED
  BY <1>5, EndedTyped DEF ConfirmingReadFails

(* git answers, and refreshRefsAndRows takes its steps.                    *)
LEMMA ReloadTyped ==
  ASSUME Types, NEW c \in Call,
         \/ ReadState(c) \/ ShowRefs(c) \/ StartReader(c)
         \/ RefreshRefsAndRows(c) \/ RefreshRefsAndRowsAbandoned(c)
  PROVE  Types'
<1>1. Plain /\ Flight /\ Calls(call)
  BY DEF Types, Flight
<1>2. /\ call[c] \in CallState /\ call[c].snap \in Snapshot
      /\ Calls(Ended(c)) /\ call[c].snap.op \in BOOLEAN /\ lastConfirmed.op \in BOOLEAN
      /\ operationStateAlert \in BOOLEAN /\ pendingExternal \in BOOLEAN /\ hasExternalChanges \in BOOLEAN
      /\ world \in Snapshot /\ world.ext \in Nat
  BY <1>1, CallNames, CallFacts, EndFacts DEF Flight, Plain, Snapshot
<1>3. CASE ReadState(c)
  <2>1. PICK r \in CallState : call' = Put(call, c, r) /\ r.at = "answered"
    BY <1>1, <1>2, <1>3, MoveFacts DEF ReadState
  <2>2. Plain' /\ mutation' = mutation
    BY <1>1, <1>3 DEF ReadState, Plain, repository, gate, view, notice, settle
  <2>3. call[c].at # "idle" /\ UNCHANGED <<staleGeneration, staleConfirmed, staleRows>>
    BY <1>3 DEF ReadState
  <2> QED
    BY <1>1, <2>1, <2>2, <2>3, PutTyped DEF Flight
<1>4. CASE ShowRefs(c)
  <2>1. PICK r \in CallState : call' = Put(call, c, r) /\ r.at = "walking"
    BY <1>1, <1>2, <1>4, MoveFacts DEF ShowRefs
  <2>2. Plain' /\ mutation' = mutation
    BY <1>1, <1>2, <1>4 DEF ShowRefs, Plain, repository, gate, notice, settle, Overtaken
  <2>3. call[c].at # "idle" /\ UNCHANGED <<staleGeneration, staleConfirmed, staleRows>>
    BY <1>4 DEF ShowRefs
  <2> QED
    BY <1>1, <2>1, <2>2, <2>3, PutTyped DEF Flight
<1>5. CASE StartReader(c)
  <2>1. PICK r \in CallState : call' = Put(call, c, r) /\ r.at = "walked" /\ r.rows = world.ext
    BY <1>1, <1>2, <1>5, MoveFacts DEF StartReader
  <2>2. Plain' /\ mutation' = mutation
    BY <1>1, <1>5 DEF StartReader, Plain, repository, gate, view, notice, settle
  <2>3. /\ call[c].at # "idle" /\ UNCHANGED <<staleGeneration, staleConfirmed>>
        /\ staleRows' \subseteq staleRows \cup InFlight(call)
    BY <1>5 DEF StartReader
  <2> QED
    BY <1>1, <1>2, <2>1, <2>2, <2>3, PutTyped DEF Flight
<1>6. CASE RefreshRefsAndRows(c)
  <2>1. /\ pendingExternal' \in BOOLEAN /\ hasExternalChanges' \in BOOLEAN
        /\ Calls(call') /\ InFlight(Ended(c)) \subseteq InFlight(call')
        /\ \A d \in Call : d # "apply" => call'[d] = Ended(c)[d]
    BY <1>2, <1>6, BehindFacts DEF RefreshRefsAndRows
  <2>2. rows' \in Nat
    <3>1. rows' = rows \/ rows' = call[c].rows
      BY <1>6 DEF RefreshRefsAndRows
    <3>2. call[c].rows \in Nat
      BY <1>1, <1>6 DEF RefreshRefsAndRows, Calls
    <3> QED
      BY <1>1, <3>1, <3>2 DEF Plain
  <2>3. pendingMutations' \in Seq(Gate)
    BY <1>1, <1>6, TailFacts DEF RefreshRefsAndRows, Plain
  <2>4. gap' \subseteq gap \cup {"overtaken", "fetch"} /\ lastConfirmed' = call[c].snap
    BY <1>6 DEF RefreshRefsAndRows, Overtaken, OthersGate
  <2>5. Plain' /\ mutation' = mutation
    BY <1>1, <1>2, <1>6, <2>1, <2>2, <2>3, <2>4 DEF RefreshRefsAndRows, Plain, repository, settle
  <2>6. Forget(c) /\ Moved(c, InFlight(call))
    BY <1>6 DEF RefreshRefsAndRows
  <2> QED
    BY <2>1, <2>5, <2>6, FlushedTyped
<1>7. CASE RefreshRefsAndRowsAbandoned(c)
  <2>1. /\ pendingExternal' \in BOOLEAN /\ hasExternalChanges' \in BOOLEAN
        /\ Calls(call') /\ InFlight(Ended(c)) \subseteq InFlight(call')
        /\ \A d \in Call : d # "apply" => call'[d] = Ended(c)[d]
    BY <1>2, <1>7, BehindFacts DEF RefreshRefsAndRowsAbandoned
  <2>2. Plain' /\ mutation' = mutation
    BY <1>1, <1>7, <2>1 DEF RefreshRefsAndRowsAbandoned, Plain, repository, gate, view, settle
  <2>3. Forget(c) /\ Moved(c, {})
    BY <1>7 DEF RefreshRefsAndRowsAbandoned
  <2> QED
    BY <2>1, <2>2, <2>3, FlushedTyped
<1> QED
  BY <1>3, <1>4, <1>5, <1>6, <1>7

(* The repository, the user, a fetch.                                      *)
LEMMA OutsideTyped ==
  ASSUME Types, ExternalWrite \/ ExternalOperation \/ FetchSettles \/ BecomeBusy
  PROVE  Types'
<1>1. Plain /\ Flight /\ Calls(call)
  BY DEF Types, Flight
<1>2. spent' \in [Step -> Nat]
  BY <1>1, SpendFacts DEF ExternalWrite, ExternalOperation, FetchSettles, BecomeBusy, Plain, Step
<1>3. world' \in Snapshot
  <2>1. world \in Snapshot /\ world.ext + 1 \in Nat /\ (~world.op) \in BOOLEAN
    BY <1>1 DEF Plain, Snapshot
  <2>2. \/ world' = [world EXCEPT !.ext = @ + 1]
        \/ world' = [world EXCEPT !.op = ~@]
        \/ world' = world
    BY DEF ExternalWrite, ExternalOperation, FetchSettles, BecomeBusy, repository
  <2> QED
    BY <2>1, <2>2 DEF Snapshot
<1>4. Plain' /\ mutation' = mutation
  BY <1>1, <1>2, <1>3
     DEF ExternalWrite, ExternalOperation, FetchSettles, BecomeBusy, Plain, repository, gate, view, notice, settle
<1>5. staleGeneration' \subseteq InFlight(call) /\ staleConfirmed' \subseteq InFlight(call)
      /\ staleRows' \subseteq InFlight(call)
  BY <1>1 DEF ExternalWrite, ExternalOperation, FetchSettles, BecomeBusy, flight, Flight
<1>6. CASE ~FetchSettles
  <2>1. call' = call
    BY <1>6 DEF ExternalWrite, ExternalOperation, BecomeBusy, flight
  <2> QED
    BY <1>1, <1>4, <1>5, <2>1, StepTyped
<1>7. CASE FetchSettles
  <2>1. call' = Put(call, "fetch", Asked("rows"))
    BY <1>7 DEF FetchSettles, Put
  <2> QED
    BY <1>4, <1>5, <2>1, IdleFacts, CallNames, PutTyped
<1> QED
  BY <1>6, <1>7

(* Manual Refresh.                                                         *)
LEMMA RefreshTyped ==
  ASSUME Types, Refresh \/ RefreshFails
  PROVE  Types'
<1>1. Plain /\ Flight /\ Calls(call) /\ "manual" \in Call /\ "manual" \notin Mutation
  BY CallNames DEF Types, Flight
<1>2. spent' \in [Step -> Nat]
  BY <1>1, SpendFacts DEF Refresh, RefreshFails, Plain, Step
<1>3. CASE Refresh
  <2>1. prior' \in [banner : BOOLEAN, alert : BOOLEAN, pending : BOOLEAN]
    BY <1>1, <1>3 DEF Refresh, Plain
  <2>2. Plain' /\ mutation' = mutation
    BY <1>1, <1>2, <1>3, <2>1 DEF Refresh, Plain, repository, gate, view, settle
  <2>3. call' = Put(call, "manual", Asked("rows")) /\ UNCHANGED <<staleGeneration, staleConfirmed, staleRows>>
    BY <1>3 DEF Refresh, Put
  <2> QED
    BY <1>1, <2>2, <2>3, IdleFacts, PutTyped DEF Flight
<1>4. CASE RefreshFails
  <2> DEFINE cs == Ended("manual")
             op == lastConfirmed.op
  <2>1. /\ hasExternalChanges \in BOOLEAN /\ pendingExternal \in BOOLEAN /\ operationStateAlert \in BOOLEAN
        /\ prior.banner \in BOOLEAN /\ prior.alert \in BOOLEAN /\ prior.pending \in BOOLEAN
        /\ op \in BOOLEAN /\ Calls(cs)
    BY <1>1, EndFacts DEF Plain, Snapshot
  <2>2. /\ operationStateAlert' \in BOOLEAN /\ gap' \subseteq gap \cup {"overtaken", "shown"}
        /\ FlushIf(idle, pendingExternal \/ prior.pending, hasExternalChanges \/ prior.banner,
                   pendingMutations, operationStateAlert, cs, op)
    BY <1>4, <2>1 DEF RefreshFails, PriorNotices, Flush, Overtaken, LeftShown
  <2> HIDE DEF cs, op
  <2>3. /\ pendingExternal' \in BOOLEAN /\ hasExternalChanges' \in BOOLEAN
        /\ call' = cs \/ call' = Started(cs, op)
    <3>1. \/ pendingExternal' = FALSE /\ hasExternalChanges' = FALSE /\ call' = Started(cs, op)
          \/ /\ pendingExternal' = (pendingExternal \/ prior.pending)
             /\ hasExternalChanges' = (hasExternalChanges \/ prior.banner)
             /\ call' = cs
      BY <2>2 DEF FlushIf, Started
    <3> QED
      BY <2>1, <3>1
  <2>4. /\ Calls(call') /\ InFlight(cs) \subseteq InFlight(call')
        /\ \A d \in Call : d # "apply" => call'[d] = cs[d]
    <3>1. /\ Calls(Started(cs, op)) /\ InFlight(cs) \subseteq InFlight(Started(cs, op))
          /\ \A d \in Call : d # "apply" => Started(cs, op)[d] = cs[d]
      BY <2>1, StartFacts
    <3> QED
      BY <2>1, <2>3, <3>1
  <2>5. Plain' /\ mutation' = mutation
    BY <1>1, <1>2, <1>4, <2>2, <2>3 DEF RefreshFails, Plain, repository, gate, view, settle
  <2>6. Forget("manual") /\ Moved("manual", {})
    BY <1>4 DEF RefreshFails
  <2> QED
    BY <1>1, <2>4, <2>5, <2>6, FlushedTyped DEF cs
<1> QED
  BY <1>3, <1>4

(* The user is idle again.                                                 *)
LEMMA IdleTyped ==
  ASSUME Types, BecomeIdle
  PROVE  Types'
<1> DEFINE op == lastConfirmed.op
<1>1. Plain /\ Flight /\ Calls(call) /\ op \in BOOLEAN
      /\ hasExternalChanges \in BOOLEAN /\ pendingExternal \in BOOLEAN
  BY DEF Types, Flight, Plain, Snapshot
<1>2. FlushIf(TRUE, pendingExternal, hasExternalChanges, pendingMutations, operationStateAlert, call, op)
  BY DEF BecomeIdle, IdleSubscribers
<1> HIDE DEF op
<1>3. /\ pendingExternal' \in BOOLEAN /\ hasExternalChanges' \in BOOLEAN
      /\ call' = call \/ call' = Started(call, op)
  BY <1>1, <1>2 DEF FlushIf, Started
<1>4. /\ Calls(call') /\ InFlight(call) \subseteq InFlight(call')
      /\ \A d \in Call : d # "apply" => call'[d] = call[d]
  BY <1>1, <1>3, StartFacts
<1>5. Plain' /\ mutation' = mutation
  BY <1>1, <1>3 DEF BecomeIdle, Plain, repository, gate, view, settle
<1>6. /\ staleGeneration' \subseteq InFlight(call') /\ staleConfirmed' \subseteq InFlight(call')
      /\ staleRows' \subseteq InFlight(call')
  BY <1>1, <1>4 DEF BecomeIdle, Flight
<1>7. \A m \in Mutation : call[m].at = "idle" => call'[m].at = "idle"
  BY <1>4, CallNames
<1> QED
  BY <1>4, <1>5, <1>6, <1>7, StepTyped

(* Filters.                                                                *)
LEMMA FilterTyped ==
  ASSUME Types, ApplyFilter \/ FilterShown \/ ClearFilter
  PROVE  Types'
<1>1. Plain /\ Flight /\ Calls(call) /\ "filter" \in Call /\ "filter" \notin Mutation
  BY CallNames DEF Types, Flight
<1>2. CASE ApplyFilter
  <2>1. spent' \in [Step -> Nat] /\ baseline' \in Nat \cup {NoRows}
    <3>1. Spend("filter") /\ "filter" \in Step /\ spent \in [Step -> Nat]
      BY <1>1, <1>2 DEF ApplyFilter, Plain, Step
    <3>2. baseline' \in {NoRows, rows, baseline} /\ rows \in Nat /\ baseline \in Nat \cup {NoRows}
      BY <1>1, <1>2 DEF ApplyFilter, Plain
    <3> QED
      BY <3>1, <3>2, SpendFacts
  <2>2. PICK r \in CallState : call' = Put(call, "filter", r) /\ r.at = "walking"
    <3>1. world \in Snapshot /\ call' = [call EXCEPT !["filter"].at = "walking"]
      BY <1>1, <1>2 DEF ApplyFilter, Plain
    <3> QED
      BY <1>1, <3>1, MoveFacts
  <2>3. Plain' /\ mutation' = mutation
    BY <1>1, <1>2, <2>1 DEF ApplyFilter, Plain, repository, gate, notice, settle
  <2>4. staleGeneration' \subseteq InFlight(call) /\ UNCHANGED <<staleConfirmed, staleRows>>
    BY <1>2 DEF ApplyFilter
  <2> QED
    BY <1>1, <2>2, <2>3, <2>4, PutTyped DEF Flight
<1>3. CASE FilterShown
  <2>1. rows' \in Nat
    <3>1. call["filter"].at = "walked" => call["filter"].rows \in Nat
      BY <1>1 DEF Calls
    <3> QED
      BY <1>1, <1>3, <3>1 DEF FilterShown, Plain
  <2>2. Plain' /\ mutation' = mutation
    BY <1>1, <1>3, <2>1 DEF FilterShown, Plain, repository, gate, notice, settle
  <2> QED
    BY <1>1, <1>3, <2>2, EndedTyped DEF FilterShown
<1>4. CASE ClearFilter
  <2>1. Plain' /\ mutation' = mutation
    BY <1>1, <1>4 DEF ClearFilter, Plain, repository, gate, notice, settle
  <2> QED
    BY <1>1, <1>4, <2>1, StepTyped DEF ClearFilter, Flight
<1> QED
  BY <1>2, <1>3, <1>4

(* The apply.                                                              *)
LEMMA ApplyTyped ==
  ASSUME Types, ApplyStep
  PROVE  Types'
<1>1. Plain /\ Flight /\ Calls(call) /\ "apply" \in Call /\ "apply" \notin Mutation /\ world \in Snapshot
      /\ call["apply"].snap \in Snapshot /\ lastConfirmed \in Snapshot
  BY CallNames, CallFacts DEF Types, Flight, Plain
<1>2. CASE ApplyAnswered \/ ReadRowsInPlace
  <2>1. PICK r \in CallState : call' = Put(call, "apply", r) /\ r.at # "idle" /\ (r.at = "walked" => r.rows \in Nat)
    <3>1. world.ext \in Nat
      BY <1>1 DEF Snapshot
    <3>2. CASE ApplyAnswered
      <4>1. PICK r \in CallState : call' = Put(call, "apply", r) /\ r.at = "walking"
        BY <1>1, <3>2, MoveFacts DEF ApplyAnswered
      <4> QED
        BY <4>1
    <3>3. CASE ReadRowsInPlace
      <4>1. PICK r \in CallState : call' = Put(call, "apply", r) /\ r.at = "walked" /\ r.rows = world.ext
        BY <1>1, <3>3, MoveFacts DEF ReadRowsInPlace
      <4> QED
        BY <3>1, <4>1
    <3> QED
      BY <1>2, <3>2, <3>3
  <2>2. Plain' /\ mutation' = mutation /\ UNCHANGED <<staleGeneration, staleConfirmed, staleRows>>
    BY <1>1, <1>2 DEF ApplyAnswered, ReadRowsInPlace, Plain, repository, gate, view, notice, settle
  <2> QED
    BY <1>1, <2>1, <2>2, PutTyped DEF Flight
<1>3. CASE ApplyInPlace
  <2>1. AfterApply(TRUE, call["apply"].snap)
    BY <1>3 DEF ApplyInPlace
  <2>2. /\ pendingExternal' \in BOOLEAN /\ hasExternalChanges' \in BOOLEAN /\ operationStateAlert' \in BOOLEAN
        /\ Calls(call') /\ InFlight(call) \ {"apply"} \subseteq InFlight(call')
        /\ \A c \in Call : c # "apply" => call'[c] = call[c]
    BY <1>1, <2>1, AfterFacts
  <2>3. rows' \in Nat
    BY <1>1, <1>3 DEF ApplyInPlace, Calls
  <2>4. Plain' /\ mutation' = mutation
    BY <1>1, <1>3, <2>2, <2>3 DEF ApplyInPlace, Plain, repository, gate, settle, Overtaken
  <2>5. /\ staleGeneration' \subseteq InFlight(call') /\ staleConfirmed' \subseteq InFlight(call')
        /\ staleRows' \subseteq InFlight(call')
    BY <1>1, <1>3, <2>2 DEF ApplyInPlace, Flight
  <2>6. \A m \in Mutation : call[m].at = "idle" => call'[m].at = "idle"
    BY <1>1, <2>2, CallNames
  <2> QED
    BY <2>2, <2>4, <2>5, <2>6, StepTyped
<1>4. CASE ApplyFails \/ ApplyAbandoned
  <2>0. spent' \in [Step -> Nat] /\ ApplyNotMade
    BY <1>1, <1>4, SpendFacts DEF ApplyFails, ApplyAbandoned, Plain, Step
  <2> DEFINE moved == "apply" \in staleConfirmed
  <2>1. AfterApply(moved, lastConfirmed) /\ moved \in BOOLEAN
    BY <2>0 DEF ApplyNotMade
  <2> HIDE DEF moved
  <2>2. /\ pendingExternal' \in BOOLEAN /\ hasExternalChanges' \in BOOLEAN /\ operationStateAlert' \in BOOLEAN
        /\ Calls(call') /\ InFlight(call) \ {"apply"} \subseteq InFlight(call')
        /\ \A c \in Call : c # "apply" => call'[c] = call[c]
    BY <1>1, <2>1, AfterFacts
  <2>4. Plain' /\ mutation' = mutation
    BY <1>1, <2>0, <2>2 DEF ApplyNotMade, Plain, repository, gate, view, settle
  <2>5. Forget("apply") /\ Moved("apply", {})
    BY <2>0 DEF ApplyNotMade
  <2>6. \A m \in Mutation : call[m].at = "idle" => call'[m].at = "idle"
    BY <1>1, <2>2, CallNames
  <2> QED
    BY <1>1, <2>2, <2>4, <2>5, <2>6, EndTyped
<1> QED
  BY <1>2, <1>3, <1>4 DEF ApplyStep

LEMMA TypesStep ==
  ASSUME Types, [Next]_vars
  PROVE  Types'
<1>1. CASE UNCHANGED vars
  <2>1. Plain' /\ mutation' = mutation /\ UNCHANGED <<call, staleGeneration, staleConfirmed, staleRows>>
    BY <1>1 DEF vars, repository, gate, view, notice, flight, settle, Types, Plain
  <2> QED
    BY <2>1, StepTyped DEF Types, Flight
<1>2. ASSUME NEW m \in Mutation, MutationStep(m) PROVE Types'
  BY <1>2, OwnTyped, RefsTyped DEF MutationStep
<1>3. ASSUME NEW c \in Call, ReadState(c) \/ ReloadStep(c) PROVE Types'
  BY <1>3, ReloadTyped, FailureTyped DEF ReloadStep
<1>4. CASE Next
  BY <1>2, <1>3, <1>4, OutsideTyped, EvalTyped, RefreshTyped, ApplyTyped, FilterTyped, IdleTyped DEF Next
<1> QED
  BY <1>1, <1>4

-----------------------------------------------------------------------------
(* What the steps do to the calls: one ends, and an apply may start behind *)
(* it, or one moves on.                                                    *)
Ending(c) ==
  \/ c \in Eval /\ EvalStep(c)
  \/ c \in Mutation /\ (RefreshRefs(c) \/ RefreshRefsAbandoned(c))
  \/ ConfirmingReadFails(c) \/ RefreshRefsAndRows(c) \/ RefreshRefsAndRowsAbandoned(c)
  \/ c = "manual" /\ RefreshFails
  \/ c = "filter" /\ FilterShown

LEMMA EndingFacts ==
  ASSUME Types, NEW c \in Call, Ending(c)
  PROVE  /\ c # "apply" /\ call[c].at # "idle" /\ call'[c].at = "idle"
         /\ \A d \in Call \ {c, "apply"} : call'[d] = call[d]
         /\ \/ call' = Ended(c)
            \/ ~operationStateAlert /\ (operationStateAlert' = operationStateAlert \/ (RefreshFails /\ prior.alert))
<1>1. Plain /\ Flight /\ Calls(call) /\ Calls(Ended(c)) /\ Ended(c)[c].at = "idle"
      /\ (\A d \in Call : d # c => Ended(c)[d] = call[d]) /\ lastConfirmed.op \in BOOLEAN
      /\ call[c].snap.op \in BOOLEAN /\ operationStateAlert \in BOOLEAN
  BY EndFacts, IdleFacts, CallFacts DEF Types, Flight, Plain, Snapshot
<1>2. c # "apply" /\ call[c].at # "idle"
  BY CallNames DEF Ending, EvalStep, EvaluationDropped, EvaluationDecides, EvaluationFails, RefreshRefs,
                   RefreshRefsAbandoned, ConfirmingReadFails, RefreshRefsAndRows, RefreshRefsAndRowsAbandoned,
                   RefreshFails, FilterShown
<1>3. CASE call' = Ended(c)
  BY <1>1, <1>2, <1>3
<1>4. ASSUME NEW gates, NEW op, op \in BOOLEAN, operationStateAlert' = operationStateAlert,
             \/ RequestExternalApply(gates, operationStateAlert, Ended(c), op)
             \/ Flush(pendingExternal, hasExternalChanges, gates, operationStateAlert, Ended(c), op)
      PROVE  /\ call'[c].at = "idle" /\ \A d \in Call \ {c, "apply"} : call'[d] = call[d]
             /\ call' = Ended(c) \/ ~operationStateAlert
  <2>1. /\ \A d \in Call : d # "apply" => call'[d] = Ended(c)[d]
        /\ call' = Ended(c) \/ ~operationStateAlert
    BY <1>4, BehindFacts
  <2> QED
    BY <1>1, <1>2, <2>1
<1>5. CASE c \in Eval /\ EvalStep(c)
  <2>1. CASE call' # Ended(c)
    <3>1. operationStateAlert' = operationStateAlert
          /\ RequestExternalApply(<<>>, operationStateAlert, Ended(c), call[c].snap.op)
      BY <1>5, <2>1 DEF EvalStep, EvaluationDropped, EvaluationDecides, EvaluationFails
    <3> QED
      BY <1>1, <1>2, <1>4, <3>1
  <2> QED
    BY <1>3, <2>1
<1>6. CASE c \in Mutation /\ (RefreshRefs(c) \/ RefreshRefsAbandoned(c))
  <2>1. CASE RefreshRefs(c)
    <3> DEFINE gates == IF pendingMutations = <<>> THEN <<>> ELSE Tail(pendingMutations)
    <3>1. /\ operationStateAlert' = operationStateAlert
          /\ \/ RequestExternalApply(gates, operationStateAlert, Ended(c), lastConfirmed.op)
             \/ Flush(pendingExternal, hasExternalChanges, gates, operationStateAlert, Ended(c), call[c].snap.op)
      BY <2>1 DEF RefreshRefs
    <3> HIDE DEF gates
    <3> QED
      BY <1>1, <1>2, <1>4, <3>1
  <2>2. CASE RefreshRefsAbandoned(c)
    BY <1>3, <2>2 DEF RefreshRefsAbandoned
  <2> QED
    BY <1>6, <2>1, <2>2
<1>7. CASE RefreshRefsAndRows(c) \/ RefreshRefsAndRowsAbandoned(c)
  <2>1. CASE RefreshRefsAndRows(c)
    <3> DEFINE gates == pendingMutations'
    <3>1. /\ operationStateAlert' = operationStateAlert
          /\ Flush(pendingExternal, hasExternalChanges, gates, operationStateAlert, Ended(c), call[c].snap.op)
      BY <2>1 DEF RefreshRefsAndRows
    <3> HIDE DEF gates
    <3> QED
      BY <1>1, <1>2, <1>4, <3>1
  <2>2. CASE RefreshRefsAndRowsAbandoned(c)
    <3>1. /\ operationStateAlert' = operationStateAlert
          /\ Flush(pendingExternal, hasExternalChanges, pendingMutations, operationStateAlert, Ended(c), lastConfirmed.op)
      BY <2>2 DEF RefreshRefsAndRowsAbandoned
    <3> QED
      BY <1>1, <1>2, <1>4, <3>1
  <2> QED
    BY <1>7, <2>1, <2>2
<1>8. CASE c = "manual" /\ RefreshFails
  <2> DEFINE cs == Ended(c)
             op == lastConfirmed.op
  <2>1. /\ operationStateAlert' = (operationStateAlert \/ prior.alert)
        /\ FlushIf(idle, pendingExternal \/ prior.pending, hasExternalChanges \/ prior.banner,
                   pendingMutations, operationStateAlert, cs, op)
    BY <1>8 DEF RefreshFails, PriorNotices, Flush
  <2> HIDE DEF cs, op
  <2>2. call' = cs \/ (~operationStateAlert /\ call' = Started(cs, op))
    BY <2>1 DEF FlushIf, IsIdleNow, Started
  <2>3. (\A d \in Call : d # "apply" => call'[d] = cs[d])
    BY <1>1, <2>2, StartFacts DEF cs, op
  <2>4. operationStateAlert' = operationStateAlert \/ prior.alert
    BY <1>1, <1>8, <2>1 DEF Plain
  <2> QED
    BY <1>1, <1>2, <1>8, <2>2, <2>3, <2>4 DEF cs
<1>9. CASE ConfirmingReadFails(c) \/ (c = "filter" /\ FilterShown)
  BY <1>3, <1>9 DEF ConfirmingReadFails, FilterShown
<1> QED
  BY <1>5, <1>6, <1>7, <1>8, <1>9 DEF Ending

(* An apply that ends may be followed by another.                          *)
LEMMA ApplyAfter ==
  ASSUME Types, ApplyInPlace \/ ApplyFails \/ ApplyAbandoned
  PROVE  \E moved \in BOOLEAN, confirmed \in Snapshot : AfterApply(moved, confirmed)
<1>1. CASE ApplyInPlace
  <2>1. AfterApply(TRUE, call["apply"].snap)
    BY <1>1 DEF ApplyInPlace
  <2>2. call["apply"].snap \in Snapshot /\ TRUE \in BOOLEAN
    BY CallFacts, CallNames DEF Types, Flight
  <2> QED
    BY <2>1, <2>2, Zenon
<1>2. CASE ApplyFails \/ ApplyAbandoned
  <2> DEFINE moved == "apply" \in staleConfirmed
  <2>1. AfterApply(moved, lastConfirmed) /\ moved \in BOOLEAN /\ lastConfirmed \in Snapshot
    BY <1>2 DEF ApplyFails, ApplyAbandoned, ApplyNotMade, Types, Plain
  <2> HIDE DEF moved
  <2> QED
    BY <2>1, Zenon
<1> QED
  BY <1>1, <1>2

(* So may the end of what kept the user busy.                              *)
LEMMA IdleFlushes ==
  ASSUME Types, BecomeIdle
  PROVE  /\ \A c \in Call : c # "apply" => call'[c] = call[c]
         /\ call' = call \/ (~operationStateAlert /\ operationStateAlert' = operationStateAlert)
<1> DEFINE op == lastConfirmed.op
<1>1. Calls(call) /\ op \in BOOLEAN
  BY DEF Types, Flight, Plain, Snapshot
<1>2. FlushIf(TRUE, pendingExternal, hasExternalChanges, pendingMutations, operationStateAlert, call, op)
      /\ operationStateAlert' = operationStateAlert
  BY DEF BecomeIdle, IdleSubscribers
<1> HIDE DEF op
<1>3. call' = call \/ (~operationStateAlert /\ call' = Started(call, op))
  BY <1>2 DEF FlushIf, IsIdleNow, Started
<1> QED
  BY <1>1, <1>2, <1>3, StartFacts

Moving(c) ==
  \/ ReadState(c) \/ ShowRefs(c) \/ StartReader(c)
  \/ c \in Eval /\ (OnRefsChanged \/ SettleTimerFires)
  \/ c = "fetch" /\ FetchSettles
  \/ c = "manual" /\ Refresh
  \/ c = "filter" /\ ApplyFilter
  \/ c = "apply" /\ (ApplyAnswered \/ ReadRowsInPlace)

(* The call asks, has just read, or goes on with what it had read.         *)
LEMMA MovingFacts ==
  ASSUME Types, NEW c \in Call, Moving(c), call'[c] # call[c]
  PROVE  /\ \A d \in Call \ {c} : call'[d] = call[d]
         /\ call'[c].at # "idle" /\ (c \in Mutation \cup {"apply"} => call[c].at # "idle")
         /\ \/ call'[c].at = "asked" /\ call'[c].snap = Idle.snap
            \/ call'[c].snap = world
            \/ (HasRead(c) \/ c = "filter") /\ call'[c].snap = call[c].snap
<1>1. Plain /\ Flight /\ Calls(call) /\ world \in Snapshot /\ call \in [Call -> CallState]
  BY DEF Types, Flight, Plain, Calls
<1>2. ASSUME NEW r \in CallState, r.at # "idle", r.at = "walked" => r.rows \in Nat, call' = Put(call, c, r)
      PROVE  call'[c] = r /\ \A d \in Call \ {c} : call'[d] = call[d]
  BY <1>1, <1>2, PutFacts
<1>3. CASE ReadState(c)
  <2>1. PICK r \in CallState : call' = Put(call, c, r) /\ r.at = "answered" /\ r.snap = world
    BY <1>1, <1>3, MoveFacts DEF ReadState
  <2> QED
    BY <1>2, <1>3, <2>1, CallNames DEF ReadState
<1>4. CASE ShowRefs(c) \/ (c = "apply" /\ ApplyAnswered) \/ (c = "filter" /\ ApplyFilter)
  <2>1. call' = [call EXCEPT ![c].at = "walking"]
    BY <1>4 DEF ShowRefs, ApplyAnswered, ApplyFilter
  <2>2. PICK r \in CallState : call' = Put(call, c, r) /\ r.at = "walking" /\ r.snap = call[c].snap
    BY <1>1, <2>1, MoveFacts
  <2>3. c = "filter" \/ (HasRead(c) /\ call[c].at # "idle")
    BY <1>4 DEF ShowRefs, ApplyAnswered, ApplyFilter, HasRead
  <2> QED
    BY <1>2, <2>2, <2>3, CallNames
<1>5. CASE StartReader(c) \/ (c = "apply" /\ ReadRowsInPlace)
  <2>1. call' = [call EXCEPT ![c].at = "walked", ![c].rows = world.ext] /\ world.ext \in Nat
    BY <1>1, <1>5 DEF StartReader, ReadRowsInPlace, Snapshot
  <2>2. PICK r \in CallState : call' = Put(call, c, r) /\ r.at = "walked" /\ r.rows = world.ext /\ r.snap = call[c].snap
    BY <1>1, <2>1, MoveFacts
  <2>3. HasRead(c) /\ call[c].at # "idle"
    BY <1>5 DEF StartReader, ReadRowsInPlace, HasRead
  <2> QED
    BY <1>2, <2>1, <2>2, <2>3
<1>6. CASE c \in Eval /\ (OnRefsChanged \/ SettleTimerFires)
  <2>1. PICK e \in Eval : call' = Put(call, e, Asked("eval"))
    BY <1>6 DEF OnRefsChanged, SettleTimerFires, Put
  <2>2. Asked("eval") \in CallState /\ Asked("eval").at = "asked" /\ Asked("eval").snap = Idle.snap /\ e \in Call
        /\ c \notin Mutation \cup {"apply"}
    BY <1>6, IdleFacts, CallNames
  <2>3. /\ Put(call, e, Asked("eval"))[e] = Asked("eval")
        /\ \A d \in Call : d # e => Put(call, e, Asked("eval"))[d] = call[d]
    BY <1>1, <2>2, PutFacts
  <2> QED
    BY <2>1, <2>2, <2>3
<1>7. CASE (c = "fetch" /\ FetchSettles) \/ (c = "manual" /\ Refresh)
  <2>1. call' = Put(call, c, Asked("rows"))
    BY <1>7 DEF FetchSettles, Refresh, Put
  <2>2. /\ Asked("rows") \in CallState /\ Asked("rows").at = "asked" /\ Asked("rows").snap = Idle.snap
        /\ c \notin Mutation \cup {"apply"}
    BY <1>7, IdleFacts, CallNames
  <2> QED
    BY <1>2, <2>1, <2>2
<1> QED
  BY <1>3, <1>4, <1>5, <1>6, <1>7 DEF Moving

-----------------------------------------------------------------------------
(* Gates: with every call of a mutation that ends a gate is closed.        *)
LEMMA GapGrows ==
  ASSUME [Next]_vars
  PROVE  gap \subseteq gap'
<1>1. ASSUME NEW m \in Mutation, MutationStep(m) PROVE gap \subseteq gap'
  BY <1>1 DEF MutationStep, BeginMutation, MutationWrites, MutationSettles, RefreshRefs, RefreshRefsAbandoned
<1>2. ASSUME NEW e \in Eval, EvalStep(e) PROVE gap \subseteq gap'
  BY <1>2 DEF EvalStep, EvaluationDropped, EvaluationDecides, EvaluationFails, DropForGate, ScheduleSettleRecheck
<1>3. ASSUME NEW c \in Call, ReadState(c) \/ ReloadStep(c) PROVE gap \subseteq gap'
  BY <1>3 DEF ReloadStep, ReadState, ShowRefs, StartReader, RefreshRefsAndRows, RefreshRefsAndRowsAbandoned,
              ConfirmingReadFails
<1>4. CASE ApplyStep
  BY <1>4 DEF ApplyStep, ApplyAnswered, ReadRowsInPlace, ApplyInPlace, ApplyFails, ApplyAbandoned, ApplyNotMade
<1>5. CASE Next
  BY <1>1, <1>2, <1>3, <1>4, <1>5
     DEF Next, ExternalWrite, ExternalOperation, OnRefsChanged, SettleTimerFires, DropForGate, FetchSettles, Refresh,
         RefreshFails, ApplyFilter, FilterShown, ClearFilter, BecomeBusy, BecomeIdle
<1> QED
  BY <1>5 DEF vars

(* No mutation's call ends.                                                *)
LEMMA StillBusy ==
  ASSUME Types, Gates, gap \subseteq gap', Busy' = Busy, pendingMutations' \in Seq(Gate),
         Len(pendingMutations') <= Len(pendingMutations),
         "fetch" \in gap' \/ pendingMutations' = pendingMutations
  PROVE  Gates'
<1>1. Len(pendingMutations) \in Nat /\ Len(pendingMutations') \in Nat
  BY TailFacts DEF Types, Plain
<1>2. CASE "filter" \in gap
  BY <1>2 DEF Gates
<1>3. CASE "filter" \notin gap
  <2> DEFINE now == Busy
             next == Busy'
  <2>1. /\ IsFiniteSet(now) /\ Len(pendingMutations) <= Cardinality(now) /\ next = now
        /\ "fetch" \in gap \/ Len(pendingMutations) = Cardinality(now)
    BY <1>3 DEF Gates
  <2>2. Cardinality(now) \in Nat
    BY <2>1, FS_CardinalityType
  <2> HIDE DEF now, next
  <2>3. /\ IsFiniteSet(next) /\ Len(pendingMutations') <= Cardinality(next)
        /\ "fetch" \in gap' \/ Len(pendingMutations') = Cardinality(next)
    BY <1>1, <2>1, <2>2
  <2> QED
    BY <2>3 DEF Gates, next
<1> QED
  BY <1>2, <1>3

(* A mutation's call ends, and closes a gate.                              *)
LEMMA OneDone ==
  ASSUME Types, Gates, gap \subseteq gap', NEW m \in Mutation, m \in Busy, Busy' = Busy \ {m},
         pendingMutations' = IF pendingMutations = <<>> THEN <<>> ELSE Tail(pendingMutations)
  PROVE  Gates'
<1> DEFINE q == pendingMutations
<1>1. /\ Len(q) \in Nat /\ q = <<>> => Len(pendingMutations') = 0
      /\ q # <<>> => Len(pendingMutations') = Len(q) - 1
  BY TailFacts DEF Types, Plain
<1>2. CASE "filter" \in gap
  BY <1>2 DEF Gates
<1>3. CASE "filter" \notin gap
  <2> DEFINE now == Busy
             next == Busy'
  <2>1. /\ IsFiniteSet(now) /\ Len(q) <= Cardinality(now) /\ next = now \ {m} /\ m \in now
        /\ "fetch" \in gap \/ Len(q) = Cardinality(now)
    BY <1>3 DEF Gates
  <2> HIDE DEF now, next
  <2>2. IsFiniteSet(next) /\ Cardinality(next) = Cardinality(now) - 1 /\ Cardinality(next) \in Nat
    <3>1. Cardinality(now) \in Nat /\ IsFiniteSet(now \ {m}) /\ Cardinality(now \ {m}) = Cardinality(now) - 1
      BY <2>1, FS_RemoveElement, FS_CardinalityType
    <3> QED
      BY <2>1, <3>1, FS_CardinalityType
  <2>3. Cardinality(now) \in Nat
    BY <2>1, FS_CardinalityType
  <2>4. /\ Len(pendingMutations') <= Cardinality(next)
        /\ "fetch" \in gap' \/ Len(pendingMutations') = Cardinality(next)
    <3>1. CASE q = <<>>
      <4>1. Len(q) = 0
        BY <1>1, <3>1, TailFacts DEF Types, Plain
      <4> QED
        BY <1>1, <2>1, <2>2, <2>3, <3>1, <4>1
    <3>2. CASE q # <<>>
      BY <1>1, <2>1, <2>2, <2>3, <3>2
    <3> QED
      BY <3>1, <3>2
  <2> QED
    BY <2>2, <2>4 DEF Gates, next
<1> QED
  BY <1>2, <1>3

(* A gate is opened.                                                       *)
LEMMA OneMore ==
  ASSUME Types, Gates, NEW m \in Mutation, BeginMutation(m)
  PROVE  Gates'
<1> DEFINE q == pendingMutations
<1>1. /\ mutation \in [Mutation -> [at : {"idle", "running", "settled"}, wrote : Nat]]
      /\ q \in Seq(Gate) /\ lastConfirmed \in Snapshot /\ call[m].at = "idle"
  BY DEF Types, Plain, Issued, BeginMutation
<1>2. m \notin Busy /\ Busy' = Busy \cup {m}
  <2>1. /\ mutation'[m].at = "running" /\ call' = call
        /\ \A n \in Mutation \ {m} : mutation'[n] = mutation[n]
    BY <1>1 DEF BeginMutation, flight
  <2>2. m \notin Busy
    BY <1>1 DEF Busy, BeginMutation
  <2> QED
    BY <2>1, <2>2 DEF Busy
<1>3. Len(pendingMutations') = Len(q) + 1 /\ Len(q) \in Nat /\ gap \subseteq gap'
  <2>1. [owner |-> m, pre |-> lastConfirmed] \in Gate
    BY <1>1 DEF Gate
  <2> QED
    BY <1>1, <2>1, AppendProperties DEF BeginMutation
<1>4. CASE "filter" \in gap
  BY <1>3, <1>4 DEF Gates
<1>5. CASE "filter" \notin gap
  <2> DEFINE now == Busy
             next == Busy'
  <2>1. /\ IsFiniteSet(now) /\ Len(q) <= Cardinality(now) /\ next = now \cup {m} /\ m \notin now
        /\ "fetch" \in gap \/ Len(q) = Cardinality(now)
    BY <1>2, <1>5 DEF Gates
  <2> HIDE DEF now, next
  <2>2. IsFiniteSet(next) /\ Cardinality(next) = Cardinality(now) + 1 /\ Cardinality(now) \in Nat
    BY <2>1, FS_AddElement, FS_CardinalityType
  <2>3. /\ Len(pendingMutations') <= Cardinality(next)
        /\ "fetch" \in gap' \/ Len(pendingMutations') = Cardinality(next)
    BY <1>3, <2>1, <2>2
  <2> QED
    BY <2>2, <2>3 DEF Gates, next
<1> QED
  BY <1>4, <1>5

LEMMA GatesStep ==
  ASSUME Types, Gates, [Next]_vars
  PROVE  Gates'
<1>1. /\ gap \subseteq gap' /\ Plain /\ Issued /\ pendingMutations \in Seq(Gate)
      /\ pendingMutations' \in Seq(Gate) /\ Len(pendingMutations) \in Nat
  BY GapGrows, TypesStep, TailFacts DEF Types, Plain
<1>2. ASSUME mutation' = mutation, \A m \in Mutation : call'[m].at = "idle" <=> call[m].at = "idle"
      PROVE  Busy' = Busy
  BY <1>2 DEF Busy
<1>3. ASSUME Busy' = Busy, pendingMutations' = pendingMutations PROVE Gates'
  <2>1. Len(pendingMutations') <= Len(pendingMutations)
    BY <1>1, <1>3
  <2> QED
    BY <1>1, <1>3, <2>1, StillBusy
<1>4. ASSUME NEW c \in Call, Moving(c), mutation' = mutation, pendingMutations' = pendingMutations,
             call'[c] # call[c]
      PROVE  Gates'
  <2>1. \A m \in Mutation : call'[m].at = "idle" <=> call[m].at = "idle"
    BY <1>4, MovingFacts, CallNames
  <2> QED
    BY <1>2, <1>3, <1>4, <2>1
<1>5. ASSUME NEW c \in Call, Ending(c) PROVE Gates'
  <2>1. /\ call[c].at # "idle" /\ call'[c].at = "idle"
        /\ \A d \in Mutation \ {c} : call'[d] = call[d]
    BY <1>5, EndingFacts, CallNames
  <2>2. mutation' = mutation
    BY <1>5 DEF Ending, EvalStep, EvaluationDropped, EvaluationDecides, EvaluationFails, RefreshRefs,
                RefreshRefsAbandoned, ConfirmingReadFails, RefreshRefsAndRows, RefreshRefsAndRowsAbandoned,
                RefreshFails, FilterShown, gate
  <2>3. \/ "filter" \in gap'
        \/ /\ pendingMutations' = IF pendingMutations = <<>> THEN <<>> ELSE Tail(pendingMutations)
           /\ c \in Mutation \/ "fetch" \in gap' \/ pendingMutations' = pendingMutations
        \/ c \notin Mutation /\ pendingMutations' = pendingMutations
    <3>1. CASE c \in Eval /\ EvalStep(c)
      BY <3>1, CallNames DEF EvalStep, EvaluationDropped, EvaluationDecides, EvaluationFails, gate
    <3>2. CASE c \in Mutation /\ (RefreshRefs(c) \/ RefreshRefsAbandoned(c))
      BY <3>2 DEF RefreshRefs, RefreshRefsAbandoned
    <3>3. CASE ConfirmingReadFails(c)
      BY <3>3, CallNames DEF ConfirmingReadFails, CloseOldestGate, OthersGate
    <3>4. CASE RefreshRefsAndRows(c) \/ RefreshRefsAndRowsAbandoned(c)
      BY <3>4, CallNames DEF RefreshRefsAndRows, RefreshRefsAndRowsAbandoned, ClosesGate, OthersGate
    <3>5. CASE (c = "manual" /\ RefreshFails) \/ (c = "filter" /\ FilterShown)
      BY <3>5, CallNames DEF RefreshFails, FilterShown, gate
    <3> QED
      BY <1>5, <3>1, <3>2, <3>3, <3>4, <3>5 DEF Ending
  <2>4. CASE "filter" \in gap'
    BY <2>4 DEF Gates
  <2>5. CASE c \in Mutation
    <3>1. mutation[c].at = "settled"
      BY <1>1, <2>1, <2>5 DEF Issued
    <3>2. c \in Busy /\ Busy' = Busy \ {c}
      BY <2>1, <2>2, <2>5, <3>1 DEF Busy
    <3> QED
      BY <1>1, <2>3, <2>4, <2>5, <3>2, OneDone
  <2>6. CASE c \notin Mutation /\ "filter" \notin gap'
    <3>1. Busy' = Busy
      BY <1>2, <2>1, <2>2, <2>6
    <3>2. Len(pendingMutations') <= Len(pendingMutations)
      <4>1. pendingMutations # <<>> => Len(Tail(pendingMutations)) = Len(pendingMutations) - 1
        BY <1>1, TailFacts
      <4>2. Len(<<>>) <= Len(pendingMutations)
        BY <1>1, TailFacts
      <4> QED
        BY <1>1, <2>3, <2>6, <4>1, <4>2
    <3> QED
      BY <1>1, <2>3, <2>6, <3>1, <3>2, StillBusy
  <2> QED
    BY <2>4, <2>5, <2>6
<1>6. ASSUME mutation' = mutation, pendingMutations' = pendingMutations,
             \A c \in Call : c # "apply" => call'[c] = call[c]
      PROVE  Gates'
  <2>1. \A m \in Mutation : call'[m].at = "idle" <=> call[m].at = "idle"
    BY <1>6, CallNames
  <2> QED
    BY <1>2, <1>3, <1>6, <2>1
<1>7. ASSUME NEW m \in Mutation, MutationStep(m) PROVE Gates'
  <2>1. CASE MutationWrites(m)
    <3>1. mutation' = [mutation EXCEPT ![m].wrote = world.own + 1] /\ call' = call
      BY <2>1 DEF MutationWrites, flight
    <3>2. \A n \in Mutation : mutation'[n].at = mutation[n].at
      BY <1>1, <3>1 DEF Plain
    <3>3. Busy' = Busy /\ pendingMutations' = pendingMutations
      BY <2>1, <3>1, <3>2 DEF Busy, MutationWrites
    <3> QED
      BY <1>3, <3>3
  <2>2. CASE MutationSettles(m)
    <3>1. PICK k \in {"refs", "rows"} : call' = Put(call, m, Asked(k))
      BY <2>2 DEF MutationSettles, Put
    <3>2. Asked(k) \in CallState /\ Asked(k).at = "asked" /\ m \in Call /\ Calls(call)
      BY IdleFacts, CallNames DEF Types, Flight
    <3>3. call'[m].at = "asked" /\ \A n \in Mutation \ {m} : call'[n] = call[n]
      <4> DEFINE r == Asked(k)
      <4>1. r \in CallState /\ r.at = "asked" /\ call' = Put(call, m, r)
        BY <3>1, <3>2
      <4> HIDE DEF r
      <4>2. Put(call, m, r)[m] = r /\ \A d \in Call : d # m => Put(call, m, r)[d] = call[d]
        BY <3>2, <4>1, PutFacts
      <4> QED
        BY <4>1, <4>2, CallNames
    <3>4. mutation[m].at = "running" /\ \A n \in Mutation \ {m} : mutation'[n] = mutation[n]
      BY <1>1, <2>2 DEF MutationSettles, Plain
    <3>5. Busy' = Busy /\ pendingMutations' = pendingMutations
      BY <2>2, <3>3, <3>4 DEF Busy, MutationSettles
    <3> QED
      BY <1>3, <3>5
  <2> QED
    BY <1>5, <1>7, <2>1, <2>2, OneMore, CallNames DEF MutationStep, Ending
<1>8. ASSUME NEW c \in Call, ReadState(c) \/ ReloadStep(c) PROVE Gates'
  <2>1. CASE RefreshRefsAndRows(c) \/ RefreshRefsAndRowsAbandoned(c) \/ ConfirmingReadFails(c)
    BY <1>5, <2>1 DEF Ending
  <2>2. CASE ReadState(c) \/ ShowRefs(c) \/ StartReader(c)
    <3>1. mutation' = mutation /\ pendingMutations' = pendingMutations
      BY <2>2 DEF ReadState, ShowRefs, StartReader, gate
    <3>2. CASE call'[c] = call[c]
      <4>1. \A d \in Call : call'[d] = call[d]
        BY <2>2, <3>2 DEF ReadState, ShowRefs, StartReader, Types, Flight, Calls
      <4> QED
        BY <1>6, <3>1, <4>1
    <3>3. CASE call'[c] # call[c]
      BY <1>4, <2>2, <3>1, <3>3 DEF Moving
    <3> QED
      BY <3>2, <3>3
  <2> QED
    BY <1>8, <2>1, <2>2 DEF ReloadStep
<1>9. ASSUME NEW e \in Eval, EvalStep(e) PROVE Gates'
  BY <1>5, <1>9, CallNames DEF Ending
<1>10. CASE OnRefsChanged \/ SettleTimerFires
  <2>1. mutation' = mutation /\ pendingMutations' = pendingMutations
    BY <1>10 DEF OnRefsChanged, SettleTimerFires, gate
  <2>2. \A m \in Mutation : call'[m] = call[m]
    BY <1>10, CallNames DEF OnRefsChanged, SettleTimerFires, Types, Flight, Calls
  <2>3. Busy' = Busy
    BY <1>2, <2>1, <2>2
  <2> QED
    BY <1>3, <2>1, <2>3
<1>11. CASE FetchSettles \/ Refresh \/ ApplyFilter
  <2>1. mutation' = mutation /\ pendingMutations' = pendingMutations
    BY <1>11 DEF FetchSettles, Refresh, ApplyFilter, gate
  <2>2. \A m \in Mutation : call'[m] = call[m]
    BY <1>11, CallNames DEF FetchSettles, Refresh, ApplyFilter, Types, Flight, Calls
  <2>3. Busy' = Busy
    BY <1>2, <2>1, <2>2
  <2> QED
    BY <1>3, <2>1, <2>3
<1>12. CASE RefreshFails
  BY <1>5, <1>12, CallNames DEF Ending
<1>13. CASE FilterShown
  BY <1>5, <1>13, CallNames DEF Ending
<1>14. CASE ApplyStep
  <2>1. mutation' = mutation /\ pendingMutations' = pendingMutations
    BY <1>14 DEF ApplyStep, ApplyAnswered, ReadRowsInPlace, ApplyInPlace, ApplyFails, ApplyAbandoned, ApplyNotMade, gate
  <2>2. \A m \in Mutation : call'[m] = call[m]
    <3>1. CASE ApplyAnswered \/ ReadRowsInPlace
      BY <3>1, CallNames DEF ApplyAnswered, ReadRowsInPlace, Types, Flight, Calls
    <3>2. CASE ApplyInPlace \/ ApplyFails \/ ApplyAbandoned
      <4>1. PICK moved \in BOOLEAN, confirmed \in Snapshot : AfterApply(moved, confirmed)
        BY <3>2, ApplyAfter
      <4> QED
        BY <4>1, AfterFacts, CallNames
    <3> QED
      BY <1>14, <3>1, <3>2 DEF ApplyStep
  <2>3. Busy' = Busy
    BY <1>2, <2>1, <2>2
  <2> QED
    BY <1>3, <2>1, <2>3
<1>15. CASE BecomeIdle
  <2>1. mutation' = mutation /\ pendingMutations' = pendingMutations
    BY <1>15 DEF BecomeIdle, gate
  <2>2. \A m \in Mutation : call'[m] = call[m]
    BY <1>15, IdleFlushes, CallNames
  <2>3. Busy' = Busy
    BY <1>2, <2>1, <2>2
  <2> QED
    BY <1>3, <2>1, <2>3
<1>16. CASE ExternalWrite \/ ExternalOperation \/ ClearFilter \/ BecomeBusy \/ UNCHANGED vars
  <2>1. mutation' = mutation /\ pendingMutations' = pendingMutations /\ call' = call
    BY <1>16 DEF ExternalWrite, ExternalOperation, ClearFilter, BecomeBusy, vars, gate, flight
  <2> QED
    BY <1>6, <2>1
<1> QED
  BY <1>7, <1>8, <1>9, <1>10, <1>11, <1>12, <1>13, <1>14, <1>15, <1>16 DEF Next

-----------------------------------------------------------------------------
(* An alert holds back the apply.                                          *)
LEMMA AlertStep ==
  ASSUME Types, [Next]_vars, call["apply"].at = "idle", call'["apply"].at # "idle"
  PROVE  ~operationStateAlert' \/ (RefreshFails /\ prior.alert)
<1>1. "apply" \in Call /\ Calls(call) /\ call \in [Call -> CallState] /\ operationStateAlert \in BOOLEAN
  BY CallNames DEF Types, Flight, Calls, Plain
<1>2. ASSUME NEW c \in Call, Ending(c) PROVE ~operationStateAlert' \/ (RefreshFails /\ prior.alert)
  <2>1. c # "apply" /\ (call' = Ended(c) \/ (~operationStateAlert /\ (operationStateAlert' = operationStateAlert \/ (RefreshFails /\ prior.alert))))
    BY <1>2, EndingFacts
  <2>2. Ended(c)["apply"] = call["apply"]
    BY <1>1, <2>1, EndFacts
  <2> QED
    BY <2>1, <2>2
<1>3. ASSUME \A c \in Call : c # "apply" \/ call'[c] = call[c] PROVE FALSE
  BY <1>1, <1>3
<1>4. ASSUME NEW c \in Call, c # "apply", \A d \in Call \ {c} : call'[d] = call[d] PROVE FALSE
  BY <1>1, <1>4
<1>5. ASSUME NEW c \in Call, ReadState(c) \/ ShowRefs(c) \/ StartReader(c) PROVE FALSE
  <2>1. call'[c] # call[c] /\ c \in Mutation \cup {"apply"} => call[c].at # "idle"
    BY <1>5, MovingFacts DEF Moving
  <2>2. \A d \in Call \ {c} : call'[d] = call[d]
    BY <1>1, <1>5 DEF ReadState, ShowRefs, StartReader
  <2> QED
    BY <1>1, <2>1, <2>2
<1>6. ASSUME NEW m \in Mutation, MutationStep(m) PROVE ~operationStateAlert' \/ (RefreshFails /\ prior.alert)
  <2>1. m \in Call /\ m # "apply"
    BY CallNames
  <2>2. CASE BeginMutation(m) \/ MutationWrites(m)
    BY <2>2 DEF BeginMutation, MutationWrites, flight
  <2>3. CASE MutationSettles(m)
    BY <1>1, <2>1, <2>3 DEF MutationSettles
  <2>4. CASE RefreshRefs(m) \/ RefreshRefsAbandoned(m)
    BY <1>2, <2>1, <2>4 DEF Ending
  <2> QED
    BY <1>6, <2>2, <2>3, <2>4 DEF MutationStep
<1>7. ASSUME NEW c \in Call, ReloadStep(c) PROVE ~operationStateAlert' \/ (RefreshFails /\ prior.alert)
  BY <1>2, <1>5, <1>7 DEF ReloadStep, Ending
<1>8. ASSUME NEW e \in Eval, EvalStep(e) PROVE ~operationStateAlert' \/ (RefreshFails /\ prior.alert)
  BY <1>2, <1>8, CallNames DEF Ending
<1>9. CASE OnRefsChanged \/ SettleTimerFires
  <2>1. call' = call \/ \E e \in Eval : call' = [call EXCEPT ![e] = Asked("eval")]
    BY <1>9 DEF OnRefsChanged, SettleTimerFires
  <2> QED
    BY <1>1, <2>1, CallNames
<1>10. CASE FetchSettles \/ Refresh \/ ApplyFilter
  BY <1>1, <1>10 DEF FetchSettles, Refresh, ApplyFilter
<1>11. CASE RefreshFails
  BY <1>2, <1>11, CallNames DEF Ending
<1>12. CASE FilterShown
  BY <1>2, <1>12, CallNames DEF Ending
<1>13. CASE ApplyStep
  BY <1>13 DEF ApplyStep, ApplyAnswered, ReadRowsInPlace, ApplyInPlace, ApplyFails, ApplyAbandoned
<1>14. CASE BecomeIdle
  BY <1>14, IdleFlushes
<1>15. CASE ExternalWrite \/ ExternalOperation \/ ClearFilter \/ BecomeBusy \/ UNCHANGED vars
  BY <1>15 DEF ExternalWrite, ExternalOperation, ClearFilter, BecomeBusy, vars, flight
<1> QED
  BY <1>5, <1>6, <1>7, <1>8, <1>9, <1>10, <1>11, <1>12, <1>13, <1>14, <1>15 DEF Next

-----------------------------------------------------------------------------
(* The app's own writes.                                                   *)
LEMMA SpentGrows ==
  ASSUME Types, [Next]_vars
  PROVE  \A j \in Step : spent'[j] = 0 => spent[j] = 0
<1>1. ASSUME NEW k \in Step, Spend(k) PROVE \A j \in Step : spent'[j] = 0 => spent[j] = 0
  BY <1>1, SpendFacts DEF Types, Plain
<1>2. spent' = spent \/ \E k \in Step : Spend(k)
  <2>1. ASSUME NEW m \in Mutation, MutationStep(m) PROVE spent' = spent \/ \E k \in Step : Spend(k)
    BY <2>1 DEF MutationStep, BeginMutation, MutationWrites, MutationSettles, RefreshRefs, RefreshRefsAbandoned, Step
  <2>2. ASSUME NEW e \in Eval, EvalStep(e) PROVE spent' = spent \/ \E k \in Step : Spend(k)
    BY <2>2 DEF EvalStep, EvaluationDropped, EvaluationDecides, EvaluationFails, Step
  <2>3. ASSUME NEW c \in Call, ReadState(c) \/ ReloadStep(c) PROVE spent' = spent \/ \E k \in Step : Spend(k)
    BY <2>3 DEF ReloadStep, ReadState, ShowRefs, StartReader, RefreshRefsAndRows, RefreshRefsAndRowsAbandoned,
                ConfirmingReadFails, Step
  <2>4. CASE ApplyStep
    BY <2>4 DEF ApplyStep, ApplyAnswered, ReadRowsInPlace, ApplyInPlace, ApplyFails, ApplyAbandoned, Step
  <2>5. CASE Next
    BY <2>1, <2>2, <2>3, <2>4, <2>5
       DEF Next, ExternalWrite, ExternalOperation, OnRefsChanged, SettleTimerFires, FetchSettles, Refresh,
           RefreshFails, ApplyFilter, FilterShown, ClearFilter, BecomeBusy, BecomeIdle, Step
  <2> QED
    BY <2>5 DEF vars
<1> QED
  BY <1>1, <1>2

(* With nothing pending, no apply starts and no notice is raised.          *)
LEMMA NothingToFlush ==
  ASSUME Untouched, NEW quiet, NEW gates, NEW cs, NEW op,
         FlushIf(quiet, pendingExternal, hasExternalChanges, gates, operationStateAlert, cs, op)
  PROVE  UNCHANGED <<pendingExternal, hasExternalChanges>> /\ call' = cs
BY DEF FlushIf, Untouched

Calm == UNCHANGED <<notice, prior>>

(* One call asks, reads, goes on or ends, and no gate closes.              *)
LEMMA CarryOn ==
  ASSUME Types, Untouched, Calm, world' = world, mutation' = mutation, pendingMutations' = pendingMutations,
         Ours(lastConfirmed'), AllConfirmed => lastConfirmed'.own = world.own,
         NEW c \in Call, c # "apply", \A d \in Call \ {c} : call'[d] = call[d], Ours(call'[c].snap),
         c \in Mutation => (call'[c].at = "idle" <=> call[c].at = "idle"),
         HasRead(c)' => \/ c = "filter"
                        \/ call'[c].snap = world
                        \/ HasRead(c) /\ call'[c].snap = call[c].snap,
         \A d \in Call : d \in staleConfirmed => d \in staleConfirmed' \/ ~HasRead(d)'
  PROVE  /\ Untouched'
         /\ AllConfirmed => AllConfirmed'
         /\ \A m \in Mutation : OneAtWork(m) => OneAtWork(m)'
<1>1. /\ \A d \in Call : Ours(call'[d].snap)
      /\ call'["apply"] = call["apply"]
      /\ Busy' = Busy
  BY CallNames DEF Untouched, Busy
<1>2. Untouched'
  BY <1>1 DEF Untouched, Calm, notice, Ours
<1>3. ASSUME AllConfirmed PROVE AllConfirmed'
  <2>1. ASSUME NEW d \in Call \ {"filter"}, HasRead(d)', d \notin staleConfirmed' PROVE call'[d].snap.own = world.own
    <3>1. d \notin staleConfirmed
      BY <2>1
    <3>2. CASE d = c
      BY <1>3, <2>1, <3>1, <3>2 DEF AllConfirmed
    <3>3. CASE d # c
      <4>1. HasRead(d) /\ call'[d] = call[d]
        BY <2>1, <3>3 DEF HasRead
      <4> QED
        BY <1>3, <3>1, <4>1 DEF AllConfirmed
    <3> QED
      BY <3>2, <3>3
  <2> QED
    BY <1>1, <1>3, <2>1 DEF AllConfirmed
<1>4. ASSUME NEW m \in Mutation, OneAtWork(m) PROVE OneAtWork(m)'
  <2>1. HasRead(m)' => call'[m].snap.own = world.own
    <3>1. m \in Call /\ m # "filter"
      BY CallNames
    <3>2. CASE m = c
      BY <1>4, <3>1, <3>2 DEF OneAtWork
    <3>3. CASE m # c
      <4>1. call'[m] = call[m]
        BY <3>1, <3>3
      <4> QED
        BY <1>4, <4>1 DEF OneAtWork, HasRead
    <3> QED
      BY <3>2, <3>3
  <2> QED
    BY <1>1, <1>4, <2>1 DEF OneAtWork
<1> QED
  BY <1>2, <1>3, <1>4

(* The confirming read of the mutation at work is recorded.                *)
LEMMA Confirmed ==
  ASSUME Types, Untouched, Calm, NEW m \in Mutation, OneAtWork(m), HasRead(m),
         world' = world, mutation' = mutation, pendingMutations' = <<>>, lastConfirmed' = call[m].snap,
         call' = Ended(m), Moved(m, InFlight(call))
  PROVE  Untouched' /\ AllConfirmed'
<1>1. /\ m \in Call /\ m # "apply" /\ Calls(call) /\ call'[m] = Idle /\ (\A d \in Call : d # m => call'[d] = call[d])
      /\ Idle.at = "idle" /\ Ours(Idle.snap) /\ mutation[m].at = "settled"
  <2>1. m \in Call /\ m # "apply" /\ Calls(call) /\ mutation[m].at = "settled"
    <3>1. call[m].at # "idle"
      BY DEF HasRead
    <3> QED
      BY <3>1, CallNames DEF Types, Flight, Issued
  <2> QED
    BY <2>1, EndFacts, IdleFacts
<1>2. Busy' = {}
  <2>1. ASSUME NEW n \in Mutation PROVE ~(mutation'[n].at = "running" \/ call'[n].at # "idle")
    <3>1. CASE n = m
      BY <1>1, <3>1
    <3>2. CASE n # m
      BY <1>1, <3>2, CallNames DEF OneAtWork, Busy
    <3> QED
      BY <3>1, <3>2
  <2> QED
    BY <2>1 DEF Busy
<1>3. Untouched'
  <2>1. \A d \in Call : Ours(call'[d].snap)
    BY <1>1 DEF Untouched
  <2>2. Ours(lastConfirmed') /\ call'["apply"] = call["apply"] /\ DOMAIN pendingMutations' = {}
    BY <1>1, CallNames, TailFacts DEF Untouched
  <2> QED
    BY <2>1, <2>2 DEF Untouched, Calm, notice, Ours
<1>4. ASSUME NEW d \in Call, HasRead(d)' PROVE d \in staleConfirmed'
  <2>1. d # m /\ call[d].at # "idle"
    BY <1>1, <1>4 DEF HasRead
  <2> QED
    BY <2>1 DEF Moved, InFlight
<1>5. lastConfirmed'.own = world'.own
  BY DEF OneAtWork
<1> QED
  BY <1>2, <1>3, <1>4, <1>5 DEF AllConfirmed

(* The mutation's own steps.                                               *)
LEMMA BeginSilent ==
  ASSUME Types, Untouched, gap' = {}, pendingMutations = <<>> => AllConfirmed,
         NEW m \in Mutation, BeginMutation(m)
  PROVE  Untouched' /\ OneAtWork(m)'
<1> DEFINE g == [owner |-> m, pre |-> lastConfirmed]
<1>1. /\ mutation \in [Mutation -> [at : {"idle", "running", "settled"}, wrote : Nat]]
      /\ lastConfirmed \in Snapshot /\ call[m].at = "idle" /\ mutation[m].wrote = 0 /\ m \in Call
  BY CallNames DEF Types, Plain, Issued, BeginMutation
<1>2. AllConfirmed /\ pendingMutations = <<>>
  BY DEF BeginMutation
<1>3. /\ call' = call /\ world' = world /\ mutation'[m].at = "running" /\ mutation'[m].wrote = 0
      /\ \A n \in Mutation \ {m} : mutation'[n] = mutation[n]
  BY <1>1 DEF BeginMutation, flight, repository
<1>4. Len(pendingMutations') = 1 /\ pendingMutations'[1] = g /\ DOMAIN pendingMutations' = {1}
  <2>1. pendingMutations' = <<g>>
    BY <1>2 DEF BeginMutation
  <2> QED
    BY <2>1
<1>5. Untouched'
  <2>1. \A i \in DOMAIN pendingMutations' : Ours(pendingMutations'[i].pre)
    BY <1>4 DEF Untouched
  <2> QED
    BY <1>3, <2>1 DEF Untouched, BeginMutation, view, notice
<1>6. Busy' = {m}
  BY <1>2, <1>3 DEF AllConfirmed, Busy
<1>7. ~HasRead(m)' /\ ~(mutation'[m].wrote > 0)
  BY <1>1, <1>3 DEF HasRead
<1>8. world'.own = pendingMutations'[1].pre.own
  BY <1>2, <1>3, <1>4 DEF AllConfirmed
<1> QED
  BY <1>4, <1>5, <1>6, <1>7, <1>8 DEF OneAtWork

LEMMA WriteSilent ==
  ASSUME Types, Untouched, NEW m \in Mutation, OneAtWork(m), MutationWrites(m)
  PROVE  Untouched' /\ OneAtWork(m)'
<1> DEFINE n == world.own + 1
<1>1. /\ mutation \in [Mutation -> [at : {"idle", "running", "settled"}, wrote : Nat]]
      /\ world \in Snapshot /\ n \in Nat /\ n > 0 /\ call[m].at = "idle"
  BY DEF Types, Plain, Snapshot, Issued, MutationWrites
<1>2. /\ call' = call /\ world' = [world EXCEPT !.own = n] /\ mutation' = [mutation EXCEPT ![m].wrote = n]
      /\ pendingMutations' = pendingMutations
  BY DEF MutationWrites, flight
<1> HIDE DEF n
<1>3. /\ mutation'[m].at = "running" /\ mutation'[m].wrote = n
      /\ \A k \in Mutation \ {m} : mutation'[k] = mutation[k]
  BY <1>1, <1>2 DEF MutationWrites
<1>4. world'.own = n /\ Ours(world')
  BY <1>1, <1>2 DEF Untouched, Ours, Snapshot
<1>5. Untouched'
  BY <1>2, <1>4 DEF Untouched, MutationWrites, view, notice
<1>6. Busy' = {m}
  BY <1>2, <1>3 DEF OneAtWork, Busy
<1>7. ~HasRead(m)'
  BY <1>1, <1>2 DEF HasRead
<1> QED
  BY <1>1, <1>2, <1>3, <1>4, <1>5, <1>6, <1>7 DEF OneAtWork

LEMMA SettleSilent ==
  ASSUME Types, Untouched, NEW m \in Mutation, OneAtWork(m), MutationSettles(m)
  PROVE  Untouched' /\ OneAtWork(m)'
<1>1. /\ mutation \in [Mutation -> [at : {"idle", "running", "settled"}, wrote : Nat]]
      /\ call \in [Call -> CallState] /\ m \in Call /\ m # "apply"
  BY CallNames DEF Types, Plain, Flight, Calls
<1>2. mutation' = [mutation EXCEPT ![m].at = "settled"] /\ pendingMutations' = pendingMutations /\ world' = world
  BY DEF MutationSettles, repository
<1>3. PICK k \in {"refs", "rows"} : call' = [call EXCEPT ![m] = Asked(k)]
  BY DEF MutationSettles
<1>4. call'[m] = Asked(k) /\ \A d \in Call \ {m} : call'[d] = call[d]
  BY <1>1, <1>3
<1>5. call'[m].at = "asked" /\ Ours(call'[m].snap)
  <2>1. Asked(k).at = "asked" /\ Asked(k).snap = Idle.snap /\ Ours(Idle.snap)
    BY IdleFacts
  <2> QED
    BY <1>4, <2>1
<1>6. mutation'[m].wrote = mutation[m].wrote /\ \A j \in Mutation \ {m} : mutation'[j] = mutation[j]
  BY <1>1, <1>2
<1>7. \A d \in Call : Ours(call'[d].snap)
  BY <1>4, <1>5 DEF Untouched
<1>8. call'["apply"] = call["apply"]
  BY <1>1, <1>4, CallNames
<1>9. Untouched'
  BY <1>2, <1>7, <1>8 DEF Untouched, MutationSettles, view, notice
<1>10. Busy' = {m}
  BY <1>4, <1>5, <1>6, CallNames DEF OneAtWork, Busy
<1>11. ~HasRead(m)'
  BY <1>5 DEF HasRead
<1> QED
  BY <1>2, <1>6, <1>9, <1>10, <1>11 DEF OneAtWork

LEMMA SilentStep ==
  ASSUME Types, Silent, [Next]_vars, Undisturbed'
  PROVE  Untouched' /\ (AllConfirmed' \/ \E m \in Mutation : OneAtWork(m)')
<1> DEFINE Goal == Untouched' /\ (AllConfirmed' \/ \E m \in Mutation : OneAtWork(m)')
<1>1. Undisturbed /\ gap = {} /\ gap' = {} /\ Untouched
  <2>1. gap = {} /\ gap' = {}
    BY GapGrows DEF Undisturbed
  <2>2. \A k \in {"write", "operation", "failure"} : spent[k] = 0
    BY SpentGrows DEF Undisturbed, Step
  <2> QED
    BY <2>1, <2>2 DEF Silent, Undisturbed
<1>2. AllConfirmed \/ \E m \in Mutation : OneAtWork(m)
  BY <1>1 DEF Silent
<1>3. ~Spend("write") /\ ~Spend("operation") /\ ~Spend("failure")
  BY SpendFacts DEF Undisturbed, Types, Plain, Step
<1>4. /\ Calls(call) /\ Issued /\ pendingMutations \in Seq(Gate) /\ world \in Snapshot
      /\ call["apply"].at = "idle" /\ "filter" \in Call /\ "filter" \notin Mutation /\ "filter" # "apply"
      /\ call \in [Call -> CallState]
  BY <1>1, CallNames DEF Types, Flight, Plain, Untouched, Calls
<1>5. pendingMutations = <<>> => AllConfirmed
  BY <1>2, <1>4, TailFacts DEF OneAtWork
<1>6. \A m \in Mutation : call[m].at # "idle" \/ mutation[m].at = "running" => OneAtWork(m)
  BY <1>2 DEF AllConfirmed, OneAtWork, Busy
<1>7. ASSUME Calm, world' = world, mutation' = mutation, pendingMutations' = pendingMutations,
             Ours(lastConfirmed'), AllConfirmed => lastConfirmed'.own = world.own,
             NEW c \in Call, c # "apply", \A d \in Call \ {c} : call'[d] = call[d], Ours(call'[c].snap),
             c \in Mutation => (call'[c].at = "idle" <=> call[c].at = "idle"),
             HasRead(c)' => \/ c = "filter"
                            \/ call'[c].snap = world
                            \/ HasRead(c) /\ call'[c].snap = call[c].snap,
             \A d \in Call : d \in staleConfirmed => d \in staleConfirmed' \/ ~HasRead(d)'
      PROVE  Goal
  BY <1>1, <1>2, <1>7, CarryOn
(* A call moves on.                                                        *)
<1>8. ASSUME NEW c \in Call, c # "apply", \A d \in Call \ {c} : call'[d] = call[d],
             Moving(c) \/ call'[c] = call[c], Calm, world' = world, mutation' = mutation,
             pendingMutations' = pendingMutations, lastConfirmed' = lastConfirmed, staleConfirmed' = staleConfirmed
      PROVE  Goal
  <2>1. Ours(lastConfirmed') /\ (AllConfirmed => lastConfirmed'.own = world.own)
    BY <1>1, <1>8 DEF Untouched, AllConfirmed
  <2>2. CASE call'[c] # call[c]
    <3>1. /\ call'[c].at # "idle" /\ (c \in Mutation => call[c].at # "idle")
          /\ \/ call'[c].at = "asked" /\ call'[c].snap = Idle.snap
             \/ call'[c].snap = world
             \/ (HasRead(c) \/ c = "filter") /\ call'[c].snap = call[c].snap
      BY <1>8, <2>2, MovingFacts
    <3>2. Ours(call'[c].snap)
      BY <1>1, <3>1, IdleFacts DEF Untouched
    <3>3. HasRead(c)' => \/ c = "filter"
                         \/ call'[c].snap = world
                         \/ HasRead(c) /\ call'[c].snap = call[c].snap
      BY <3>1 DEF HasRead
    <3> QED
      BY <1>7, <1>8, <2>1, <3>1, <3>2, <3>3
  <2>3. CASE call'[c] = call[c]
    <3>1. Ours(call'[c].snap) /\ (HasRead(c)' => HasRead(c))
      BY <1>1, <2>3 DEF Untouched, HasRead
    <3> QED
      BY <1>7, <1>8, <2>1, <2>3, <3>1
  <2> QED
    BY <2>2, <2>3
(* A call that has shown nothing, or is nobody's, ends.                    *)
<1>9. ASSUME NEW c \in Call, c # "apply", c \notin Mutation, call' = Ended(c), Calm, world' = world,
             mutation' = mutation, pendingMutations' = pendingMutations, Ours(lastConfirmed'),
             AllConfirmed => lastConfirmed'.own = world.own, NEW more, Moved(c, more)
      PROVE  Goal
  <2>1. call'[c] = Idle /\ (\A d \in Call \ {c} : call'[d] = call[d]) /\ Idle.at = "idle" /\ Ours(Idle.snap)
    BY <1>4, <1>9, EndFacts, IdleFacts
  <2>2. ~HasRead(c)'
    BY <2>1 DEF HasRead
  <2>3. \A d \in Call : d \in staleConfirmed => d \in staleConfirmed' \/ ~HasRead(d)'
    BY <1>9, <2>2 DEF Moved
  <2>4. Ours(call'[c].snap)
    BY <2>1
  <2> QED
    BY <1>7, <1>9, <2>1, <2>2, <2>3, <2>4
(* The mutation at work is through.                                        *)
<1>10. ASSUME NEW m \in Mutation, RefreshRefs(m) \/ RefreshRefsAndRows(m) PROVE Goal
  <2>0. m \in Call /\ m # "manual"
    BY CallNames
  <2>1. call[m].at # "idle" /\ HasRead(m)
    BY <1>10 DEF RefreshRefs, RefreshRefsAndRows, HasRead
  <2>2. OneAtWork(m)
    BY <1>6, <2>1
  <2>3. pendingMutations # <<>> /\ Tail(pendingMutations) = <<>> /\ Head(pendingMutations) = pendingMutations[1]
        /\ 1 \in DOMAIN pendingMutations
    <3> DEFINE q == pendingMutations
    <3>1. q \in Seq(Gate) /\ Len(q) = 1
      BY <1>4, <2>2 DEF OneAtWork
    <3> HIDE DEF q
    <3>2. q # <<>> /\ Tail(q) \in Seq(Gate) /\ Len(Tail(q)) = 0 /\ Head(q) = q[1] /\ 1 \in DOMAIN q
      BY <3>1, TailFacts
    <3>3. Tail(q) = <<>>
      BY <3>2, TailFacts
    <3> QED
      BY <3>2, <3>3 DEF q
  <2>4. CASE RefreshRefs(m)
    <3>1. ~WrittenByOthers(m, Head(pendingMutations).pre, call[m].snap)
      <4>1. Ours(pendingMutations[1].pre) /\ Ours(call[m].snap)
        BY <1>1, <2>0, <2>3 DEF Untouched
      <4>2. call[m].snap.own = IF mutation[m].wrote > 0 THEN mutation[m].wrote ELSE pendingMutations[1].pre.own
        BY <2>1, <2>2 DEF OneAtWork
      <4> QED
        BY <2>3, <4>1, <4>2 DEF WrittenByOthers, HasUnexpectedRefChange, Ours
    <3>2. /\ pendingMutations' = <<>>
          /\ \E gates : Flush(pendingExternal, hasExternalChanges, gates, operationStateAlert, Ended(m), call[m].snap.op)
          /\ Moved(m, InFlight(call))
      BY <2>3, <2>4, <3>1 DEF RefreshRefs
    <3>3. UNCHANGED <<pendingExternal, hasExternalChanges>> /\ call' = Ended(m)
      BY <1>1, <3>2, NothingToFlush DEF Flush
    <3>4. Calm /\ world' = world /\ mutation' = mutation /\ lastConfirmed' = call[m].snap
      BY <2>4, <3>3 DEF RefreshRefs, Calm, notice, repository
    <3> QED
      BY <1>1, <2>1, <2>2, <3>2, <3>3, <3>4, Confirmed
  <2>5. CASE RefreshRefsAndRows(m)
    <3>1. /\ pendingMutations' = <<>>
          /\ Flush(pendingExternal, hasExternalChanges, pendingMutations', operationStateAlert, Ended(m), call[m].snap.op)
          /\ Moved(m, InFlight(call))
      BY <2>0, <2>3, <2>5 DEF RefreshRefsAndRows, ClosesGate
    <3>2. \E gates : Flush(pendingExternal, hasExternalChanges, gates, operationStateAlert, Ended(m), call[m].snap.op)
      BY <3>1
    <3>3. UNCHANGED <<pendingExternal, hasExternalChanges>> /\ call' = Ended(m)
      BY <1>1, <3>2, NothingToFlush DEF Flush
    <3>4. Calm /\ world' = world /\ mutation' = mutation /\ lastConfirmed' = call[m].snap
      BY <2>5, <3>3 DEF RefreshRefsAndRows, Calm, notice, repository
    <3> QED
      BY <1>1, <2>1, <2>2, <3>1, <3>3, <3>4, Confirmed
  <2> QED
    BY <1>10, <2>4, <2>5
<1>11. ASSUME NEW m \in Mutation, MutationStep(m) PROVE Goal
  <2>1. CASE BeginMutation(m)
    BY <1>1, <1>4, <1>5, <2>1, BeginSilent
  <2>2. CASE MutationWrites(m)
    BY <1>1, <1>6, <2>2, WriteSilent DEF MutationWrites
  <2>3. CASE MutationSettles(m)
    BY <1>1, <1>6, <2>3, SettleSilent DEF MutationSettles
  <2>4. ~RefreshRefsAbandoned(m)
    BY <1>1 DEF RefreshRefsAbandoned
  <2> QED
    BY <1>10, <1>11, <2>1, <2>2, <2>3, <2>4 DEF MutationStep
(* A read that no mutation waits for is recorded, unless it was overtaken. *)
<1>12. ASSUME NEW c \in Call, RefreshRefsAndRows(c) PROVE Goal
  <2>1. CASE c \in Mutation
    BY <1>10, <1>12, <2>1
  <2>2. CASE c \notin Mutation
    <3>1. c \in {"manual", "fetch"} /\ HasRead(c) /\ c # "filter" /\ c # "apply"
      BY <1>12, <2>2, CallNames DEF RefreshRefsAndRows, HasRead
    <3>2. c \notin staleConfirmed /\ (c = "fetch" => pendingMutations = <<>>)
      BY <1>1, <1>12 DEF RefreshRefsAndRows, Overtaken, OthersGate
    <3>3. AllConfirmed => call[c].snap.own = world.own
      BY <3>1, <3>2 DEF AllConfirmed
    <3>4. pendingMutations' = pendingMutations /\ lastConfirmed' = call[c].snap /\ Moved(c, InFlight(call))
      BY <1>12, <3>1, <3>2 DEF RefreshRefsAndRows, ClosesGate
    <3>5. \E gates : Flush(pendingExternal, hasExternalChanges, gates, operationStateAlert, Ended(c), call[c].snap.op)
      BY <1>12 DEF RefreshRefsAndRows
    <3>6. UNCHANGED <<pendingExternal, hasExternalChanges>> /\ call' = Ended(c)
      BY <1>1, <3>5, NothingToFlush DEF Flush
    <3>7. Calm /\ world' = world /\ mutation' = mutation
      BY <1>12, <3>6 DEF RefreshRefsAndRows, Calm, notice, repository
    <3>8. Ours(lastConfirmed') /\ (AllConfirmed => lastConfirmed'.own = world.own)
      BY <1>1, <3>3, <3>4 DEF Untouched
    <3> QED
      BY <1>9, <2>2, <3>1, <3>4, <3>6, <3>7, <3>8
  <2> QED
    BY <2>1, <2>2
<1>13. ASSUME NEW c \in Call, ReadState(c) \/ ReloadStep(c) PROVE Goal
  <2>1. CASE ReadState(c) \/ ShowRefs(c) \/ StartReader(c)
    <3>1. c # "apply" /\ \A d \in Call \ {c} : call'[d] = call[d]
      BY <1>4, <2>1 DEF ReadState, ShowRefs, StartReader
    <3>2. /\ Calm /\ world' = world /\ mutation' = mutation /\ pendingMutations' = pendingMutations
          /\ lastConfirmed' = lastConfirmed /\ staleConfirmed' = staleConfirmed
      BY <2>1 DEF ReadState, ShowRefs, StartReader, Calm, repository, gate, view
    <3> QED
      BY <1>8, <2>1, <3>1, <3>2 DEF Moving
  <2>2. ~RefreshRefsAndRowsAbandoned(c) /\ ~ConfirmingReadFails(c)
    BY <1>1, <1>3 DEF RefreshRefsAndRowsAbandoned, ConfirmingReadFails
  <2> QED
    BY <1>12, <1>13, <2>1, <2>2 DEF ReloadStep
<1>14. ASSUME NEW e \in Eval, EvalStep(e) PROVE Goal
  <2>0. e \in Call /\ e # "apply" /\ e \notin Mutation /\ e # "filter"
    BY CallNames
  <2>1. CASE EvaluationDropped(e)
    <3>1. /\ call' = Ended(e) /\ Calm /\ world' = world /\ mutation' = mutation
          /\ pendingMutations' = pendingMutations /\ lastConfirmed' = lastConfirmed /\ Moved(e, {})
      BY <2>1 DEF EvaluationDropped, Calm, repository, gate, view
    <3>2. Ours(lastConfirmed') /\ (AllConfirmed => lastConfirmed'.own = world.own)
      BY <1>1, <3>1 DEF Untouched, AllConfirmed
    <3> QED
      BY <1>9, <2>0, <3>1, <3>2
  <2>2. CASE EvaluationDecides(e)
    <3>1. AllConfirmed /\ HasRead(e) /\ e \notin staleConfirmed
      BY <1>5, <2>2 DEF EvaluationDecides, HasRead
    <3>2. call[e].snap.own = world.own /\ lastConfirmed.own = world.own /\ Ours(call[e].snap) /\ Ours(lastConfirmed)
      BY <1>1, <2>0, <3>1 DEF AllConfirmed, Untouched
    <3>3. call[e].snap.op = lastConfirmed.op /\ ~HasUnexpectedRefChange(lastConfirmed, call[e].snap, lastConfirmed.own)
      BY <3>2 DEF Ours, HasUnexpectedRefChange
    <3>4. call' = Ended(e) /\ UNCHANGED <<hasExternalChanges, pendingExternal, operationStateAlert>>
      BY <2>2, <3>3 DEF EvaluationDecides
    <3>5. /\ Calm /\ world' = world /\ mutation' = mutation /\ pendingMutations' = pendingMutations
          /\ lastConfirmed' = call[e].snap /\ Moved(e, InFlight(call))
      BY <2>2, <3>4 DEF EvaluationDecides, Calm, notice, repository, gate
    <3>6. Ours(lastConfirmed') /\ (AllConfirmed => lastConfirmed'.own = world.own)
      BY <3>2, <3>5
    <3> QED
      BY <1>9, <2>0, <3>4, <3>5, <3>6
  <2>3. ~EvaluationFails(e)
    BY <1>3 DEF EvaluationFails
  <2> QED
    BY <1>14, <2>1, <2>2, <2>3 DEF EvalStep
<1>15. CASE OnRefsChanged \/ SettleTimerFires
  <2>1. /\ Calm /\ world' = world /\ mutation' = mutation /\ pendingMutations' = pendingMutations
        /\ lastConfirmed' = lastConfirmed /\ staleConfirmed' = staleConfirmed
    BY <1>15 DEF OnRefsChanged, SettleTimerFires, Calm, repository, gate, view
  <2>2. CASE call' = call
    BY <1>4, <1>8, <2>1, <2>2
  <2>3. CASE call' # call
    <3>1. PICK e \in Eval : call' = [call EXCEPT ![e] = Asked("eval")]
      BY <1>15, <2>3 DEF OnRefsChanged, SettleTimerFires
    <3>2. e \in Call /\ e # "apply" /\ Moving(e)
      BY <1>15, CallNames DEF Moving
    <3>3. \A d \in Call \ {e} : call'[d] = call[d]
      BY <1>4, <3>1
    <3> QED
      BY <1>8, <2>1, <3>2, <3>3
  <2> QED
    BY <2>2, <2>3
<1>16. CASE FetchSettles \/ ApplyFilter
  <2>1. /\ Calm /\ world' = world /\ mutation' = mutation /\ pendingMutations' = pendingMutations
        /\ lastConfirmed' = lastConfirmed /\ staleConfirmed' = staleConfirmed
    BY <1>16 DEF FetchSettles, ApplyFilter, Calm, repository, gate, view
  <2>2. CASE FetchSettles
    <3>1. "fetch" \in Call /\ "fetch" # "apply" /\ \A d \in Call \ {"fetch"} : call'[d] = call[d]
      BY <1>4, <2>2, CallNames DEF FetchSettles
    <3> QED
      BY <1>8, <2>1, <2>2, <3>1 DEF Moving
  <2>3. CASE ApplyFilter
    <3>1. \A d \in Call \ {"filter"} : call'[d] = call[d]
      BY <1>4, <2>3 DEF ApplyFilter
    <3> QED
      BY <1>4, <1>8, <2>1, <2>3, <3>1 DEF Moving
  <2> QED
    BY <1>16, <2>2, <2>3
<1>17. CASE Refresh
  <2>1. UNCHANGED prior /\ UNCHANGED notice
    <3>1. hasExternalChanges = FALSE /\ operationStateAlert = FALSE /\ pendingExternal = FALSE
      BY <1>1 DEF Untouched, Types, Plain
    <3>2. hasExternalChanges' = FALSE /\ operationStateAlert' = FALSE /\ pendingExternal' = FALSE
      BY <1>17 DEF Refresh
    <3>3. prior' = [banner |-> FALSE, alert |-> FALSE, pending |-> FALSE]
      BY <1>17, <3>1 DEF Refresh
    <3> QED
      BY <1>1, <3>1, <3>2, <3>3 DEF Untouched, notice
  <2>2. /\ Calm /\ world' = world /\ mutation' = mutation /\ pendingMutations' = pendingMutations
        /\ lastConfirmed' = lastConfirmed /\ staleConfirmed' = staleConfirmed
    BY <1>17, <2>1 DEF Refresh, Calm, repository, gate, view
  <2>3. "manual" \in Call /\ "manual" # "apply" /\ \A d \in Call \ {"manual"} : call'[d] = call[d]
    BY <1>4, <1>17, CallNames DEF Refresh
  <2> QED
    BY <1>8, <1>17, <2>2, <2>3 DEF Moving
<1>18. CASE FilterShown
  <2>1. /\ call' = Ended("filter") /\ Calm /\ world' = world /\ mutation' = mutation
        /\ pendingMutations' = pendingMutations /\ lastConfirmed' = lastConfirmed /\ Moved("filter", {})
    BY <1>18 DEF FilterShown, Calm, repository, gate
  <2>2. Ours(lastConfirmed') /\ (AllConfirmed => lastConfirmed'.own = world.own)
    BY <1>1, <2>1 DEF Untouched, AllConfirmed
  <2> QED
    BY <1>4, <1>9, <2>1, <2>2
<1>19. CASE ClearFilter \/ BecomeBusy \/ BecomeIdle \/ UNCHANGED vars
  <2>1. call' = call /\ Calm
    <3>1. CASE BecomeIdle
      <4>1. \E quiet : FlushIf(quiet, pendingExternal, hasExternalChanges, pendingMutations, operationStateAlert,
                               call, lastConfirmed.op)
        BY <3>1 DEF BecomeIdle, IdleSubscribers
      <4>2. UNCHANGED <<pendingExternal, hasExternalChanges>> /\ call' = call
        BY <1>1, <4>1, NothingToFlush
      <4> QED
        BY <3>1, <4>2 DEF BecomeIdle, Calm, notice
    <3>2. CASE ~BecomeIdle
      BY <1>19, <3>2 DEF ClearFilter, BecomeBusy, vars, flight, Calm
    <3> QED
      BY <3>1, <3>2
  <2>2. /\ world' = world /\ mutation' = mutation /\ pendingMutations' = pendingMutations
        /\ lastConfirmed' = lastConfirmed /\ staleConfirmed' = staleConfirmed
    BY <1>19 DEF ClearFilter, BecomeBusy, BecomeIdle, vars, repository, gate, view, flight
  <2> QED
    BY <1>4, <1>8, <2>1, <2>2
<1>20. ~ExternalWrite /\ ~ExternalOperation /\ ~RefreshFails /\ ~ApplyStep
  BY <1>3, <1>4 DEF ExternalWrite, ExternalOperation, RefreshFails, ApplyStep, ApplyAnswered, ReadRowsInPlace,
                    ApplyInPlace, ApplyFails, ApplyAbandoned
<1> QED
  BY <1>11, <1>13, <1>14, <1>15, <1>16, <1>17, <1>18, <1>19, <1>20 DEF Next

-----------------------------------------------------------------------------
LEMMA InitOK == Init => IInv
<1> SUFFICES ASSUME Init PROVE IInv
  OBVIOUS
<1>1. /\ call = [c \in Call |-> Idle] /\ staleGeneration = {} /\ staleConfirmed = {} /\ staleRows = {}
      /\ mutation = [m \in Mutation |-> [at |-> "idle", wrote |-> 0]] /\ pendingMutations = <<>>
      /\ world = [ext |-> 0, own |-> 0, op |-> FALSE] /\ lastConfirmed = world /\ shown = world
  BY DEF Init
<1>2. Flight
  <2>1. Calls(call)
    BY <1>1, IdleFacts DEF Calls
  <2> QED
    BY <1>1, <2>1 DEF Flight
<1>3. Plain
  <2>1. world \in Snapshot /\ lastConfirmed \in Snapshot /\ shown \in Snapshot
    BY <1>1 DEF Snapshot
  <2>2. mutation \in [Mutation -> [at : {"idle", "running", "settled"}, wrote : Nat]]
    BY <1>1
  <2>3. pendingMutations \in Seq(Gate)
    BY <1>1, TailFacts, EmptySeq
  <2>4. spent \in [Step -> Nat] /\ settleAttempts \in 0..MaxAttempts
    BY LiveRefreshAssumption DEF Init
  <2>5. prior \in [banner : BOOLEAN, alert : BOOLEAN, pending : BOOLEAN]
    BY DEF Init
  <2>6. /\ rows \in Nat /\ baseline \in Nat \cup {NoRows} /\ event \in BOOLEAN /\ settleTimer \in BOOLEAN
        /\ idle \in BOOLEAN /\ hasExternalChanges \in BOOLEAN /\ operationStateAlert \in BOOLEAN
        /\ pendingExternal \in BOOLEAN /\ gap = {}
    BY DEF Init
  <2> QED
    BY <2>1, <2>2, <2>3, <2>4, <2>5, <2>6 DEF Plain
<1>4. \A c \in Call : call[c].at = "idle" /\ Ours(call[c].snap)
  BY <1>1, IdleFacts
<1>5. \A m \in Mutation : mutation[m].at = "idle" /\ mutation[m].wrote = 0 /\ call[m].at = "idle"
  BY <1>1, <1>4, CallNames
<1>6. Issued /\ Busy = {}
  BY <1>5 DEF Issued, Busy
<1>7. Gates
  <2>1. IsFiniteSet(Busy) /\ Cardinality(Busy) = 0
    BY <1>6, FS_EmptySet
  <2>2. Len(pendingMutations) = 0
    BY <1>1
  <2> QED
    BY <2>1, <2>2 DEF Gates
<1>8. Untouched
  <2>1. Ours(world) /\ Ours(lastConfirmed) /\ call["apply"].at = "idle"
    BY <1>1, <1>4, CallNames DEF Ours
  <2>2. ~hasExternalChanges /\ ~pendingExternal /\ ~operationStateAlert
        /\ prior = [banner |-> FALSE, alert |-> FALSE, pending |-> FALSE]
    BY DEF Init
  <2>3. \A i \in DOMAIN pendingMutations : Ours(pendingMutations[i].pre)
    BY <1>1
  <2> QED
    BY <1>4, <2>1, <2>2, <2>3 DEF Untouched
<1>9. AllConfirmed
  BY <1>1, <1>4, <1>6 DEF AllConfirmed, HasRead
<1> QED
  BY <1>2, <1>3, <1>6, <1>7, <1>8, <1>9 DEF IInv, Types, Silent

LEMMA Inductive == IInv /\ [Next]_vars => IInv'
<1> SUFFICES ASSUME IInv, [Next]_vars PROVE IInv'
  OBVIOUS
<1>1. Types' /\ Gates'
  BY TypesStep, GatesStep DEF IInv
<1>2. Silent'
  BY SilentStep DEF IInv, Silent
<1> QED
  BY <1>1, <1>2 DEF IInv

THEOREM Invariance == Spec => []IInv
BY InitOK, Inductive, PTL DEF Spec

(* Every variable of the renderer's graph state keeps its type, and only   *)
(* calls that are under way count as out of date.                          *)
THEOREM TypeCorrect == Spec => []TypeOK
<1>1. IInv => TypeOK
  BY DEF IInv, Types, Plain, Flight, Calls, CallState, Gate, TypeOK
<1> QED
  BY <1>1, Invariance, PTL

(* Whatever mutations are made and however their confirming reads end, no  *)
(* gate is left open once they have, so the watcher is heard again         *)
(* (useRepositoryGraph.ts, closeOldestGate).                               *)
THEOREM GatesAlwaysClose == Spec => []GatesClose
<1>1. ASSUME IInv, \A m \in Mutation : mutation[m].at # "running" /\ call[m].at = "idle", "filter" \notin gap
      PROVE  pendingMutations = <<>>
  <2>1. Busy = {}
    BY <1>1 DEF Busy
  <2>2. Len(pendingMutations) <= 0 /\ Len(pendingMutations) \in Nat
    BY <1>1, <2>1, FS_EmptySet, TailFacts DEF IInv, Gates, Types, Plain
  <2> QED
    BY <1>1, <2>2, TailFacts DEF IInv, Types, Plain
<1>2. IInv => GatesClose
  BY <1>1 DEF GatesClose
<1> QED
  BY <1>2, Invariance, PTL

(* The app's own writes raise no banner and start no apply, unless one of  *)
(* the named exceptions of the code has been taken.                        *)
THEOREM OwnWritesSilent == Spec => []SelfWritesAreSilent
<1>1. IInv => SelfWritesAreSilent
  BY DEF IInv, Silent, Undisturbed, Untouched, SelfWritesAreSilent
<1> QED
  BY <1>1, Invariance, PTL

(* No deferred change is applied under the alert of somebody else's merge, *)
(* rebase or cherry-pick.                                                  *)
THEOREM AlertHolds == Spec => AlertHoldsBackApply
<1>1. IInv /\ [Next]_vars => [call["apply"].at = "idle" /\ call'["apply"].at # "idle"
                                => ~operationStateAlert' \/ (RefreshFails /\ prior.alert)]_vars
  BY AlertStep DEF IInv
<1> QED
  BY <1>1, Invariance, PTL DEF Spec, AlertHoldsBackApply

-----------------------------------------------------------------------------
(* No change goes unnoticed (Surfaced).  What it rests on, in parts.       *)

(* A reload of refs and rows is a call of Reload's; only it and a filter   *)
(* start readers.                                                          *)
Kinds ==
  \A c \in Call : /\ call[c].kind = "rows" => c \in Reload
                  /\ call[c].at \in {"walking", "walked"} => c \in Reload \cup {"filter"}

AtMost(s, t) == s.ext <= t.ext /\ s.own <= t.own

Reloading(c) == c \in Reload \ {"apply"} /\ call[c].at \in {"walking", "walked"}
Current(c)   == call[c].at = "walked" /\ c \notin staleRows

(* Nothing is newer than the repository.                                   *)
Bounded ==
  /\ AtMost(lastConfirmed, world) /\ AtMost(shown, world)
  /\ rows <= world.ext /\ baseline <= world.ext
  /\ \A c \in Call : AtMost(call[c].snap, world) /\ call[c].rows <= world.ext
  /\ \A c \in Reload : call[c].at = "walked" => call[c].rows >= call[c].snap.ext

(* What may still be confirmed, or be put on screen, is not older than     *)
(* what is.                                                                *)
ReadsForward ==
  \A c \in Call \ {"filter"} : HasRead(c) /\ c \notin staleConfirmed => AtMost(lastConfirmed, call[c].snap)
RowsForward == \A c \in Call : Current(c) => call[c].rows >= rows /\ call[c].rows >= baseline

(* Only one reader is current besides the apply's, which comes behind it.  *)
OneReader ==
  \A c, d \in Call : Current(c) /\ Current(d) /\ c # d /\ c # "apply" => d = "apply" /\ call[d].rows >= call[c].rows

(* No rows are parked under a reload that is not out of date.              *)
Unfiltered == \A c \in Call : Reloading(c) /\ c \notin staleGeneration => baseline = NoRows

Forward == ReadsForward /\ RowsForward /\ OneReader /\ Unfiltered

(* The code has taken none of its exceptions.                              *)
Regular == gap \subseteq {"overlap"}

(* A call the view has been replaced under will take an exception.         *)
Doomed == \E c \in staleGeneration : \/ c \in Mutation \cup Eval \cup {"fetch"}
                                     \/ c = "manual" /\ call[c].at = "walked"

(* A notice is up, or will be put back if the Refresh under way fails.     *)
Notice  == hasExternalChanges \/ pendingExternal \/ operationStateAlert
PutBack == call["manual"].at # "idle" /\ (prior.banner \/ prior.alert \/ prior.pending)

(* Somebody is about to look at the repository, or has it in hand as it is.*)
Looks(c) == call[c].at = "asked" \/ (HasRead(c) /\ call[c].snap = world)
Looking ==
  \/ event \/ settleTimer
  \/ \E m \in Mutation : mutation[m].at = "running"
  \/ \E c \in Mutation \cup Eval \cup {"apply"} : Looks(c)

(* The repository is as it was confirmed, and will be confirmed as it is.  *)
Settled ==
  /\ lastConfirmed = world
  /\ \A c \in Call \ {"filter"} : HasRead(c) /\ c \notin staleConfirmed => call[c].snap = world

Watched == Notice \/ Looking \/ (PutBack /\ Looks("manual")) \/ Settled

(* The rows on screen have what others had written up to x, or will have.  *)
RowsHave(x) ==
  /\ baseline = NoRows \/ baseline >= x
  /\ \/ rows >= x
     \/ baseline = NoRows /\ Current("filter") /\ "filter" \notin staleGeneration /\ call["filter"].rows >= x
     \/ \E c \in Reload \ {"apply"} : Current(c) /\ call[c].rows >= x

(* So has the screen what has been confirmed.                              *)
Painted ==
  /\ RowsHave(lastConfirmed.ext)
  /\ \/ AtMost(lastConfirmed, shown) /\ shown.op = lastConfirmed.op
     \/ \E c \in Call : Reloading(c)

Drawn == Notice \/ PutBack \/ call["apply"].at # "idle" \/ Painted

(* A reload that has read its rows leaves them on screen.                  *)
RowsLand == \A c \in Reload \ {"apply"} : call[c].at = "walked" => RowsHave(call[c].snap.ext)

(* A gate was opened over a state no newer than the confirmed one, and a   *)
(* reload has shown what it read.                                          *)
Baselines == \A i \in DOMAIN pendingMutations : AtMost(pendingMutations[i].pre, lastConfirmed)
OnView    == \A c \in Call : Reloading(c) => call[c].snap = shown

Kept == Baselines /\ OnView /\ Watched /\ (Doomed \/ (Drawn /\ RowsLand))

Surfacing == Kinds /\ Bounded /\ Forward /\ (Regular => Kept)

-----------------------------------------------------------------------------
(* The steps by what they do to the calls and the view.                    *)
Fresh(c) ==
  /\ call'[c].at \in {"idle", "asked"} /\ call'[c].snap = Idle.snap /\ call'[c].rows = NoRows
  /\ call'[c].kind = "rows" => c \in Reload
Rest(c) == \A d \in Call \ {c} : call'[d] = call[d] \/ (call[d].at = "idle" /\ Fresh(d))
Goes(c, at, snap, r) ==
  /\ call'[c].at = at /\ call'[c].snap = snap /\ call'[c].rows = r
  /\ call'[c].kind = call[c].kind
  /\ \A d \in Call \ {c} : call'[d] = call[d]
Stops(c) ==
  /\ call[c].at # "idle" /\ Fresh(c) /\ Rest(c) /\ world' = world
  /\ staleGeneration' = staleGeneration \ {c}

Waits ==
  /\ UNCHANGED <<view, staleGeneration, staleConfirmed, staleRows>>
  /\ AtMost(world, world')
  /\ \A d \in Call : call'[d] = call[d] \/ (call[d].at = "idle" /\ Fresh(d))
Reads(c) ==
  /\ call[c].at = "asked" /\ Goes(c, "answered", world, call[c].rows)
  /\ UNCHANGED <<world, view, staleGeneration, staleConfirmed, staleRows>>
Ends(c) ==
  /\ Stops(c) /\ UNCHANGED view
  /\ staleConfirmed' = staleConfirmed \ {c} /\ staleRows' = staleRows \ {c}
  /\ c # "filter"
  /\ Reloading(c) => \/ "filter" \in gap'
                     \/ call[c].at = "walking" /\ Overtaken(c) \cup LeftShown(c) \subseteq gap'
Confirms(c) ==
  /\ Stops(c) /\ HasRead(c) /\ c # "filter" /\ lastConfirmed' = call[c].snap
  /\ InFlight(call) \ {c} \subseteq staleConfirmed'
ConfirmsRefs(c) ==
  /\ Confirms(c) /\ call[c].at = "answered" /\ UNCHANGED <<rows, baseline>> /\ staleRows' = staleRows \ {c}
  /\ \/ c \notin staleConfirmed /\ shown' = shown
     \/ Overtaken(c) \subseteq gap' /\ shown' = call[c].snap
ConfirmsRows(c) ==
  /\ Confirms(c) /\ c \in Reload \ {"apply"} /\ call[c].at = "walked" /\ c \notin staleGeneration
  /\ UNCHANGED <<shown, baseline>> /\ staleRows' = staleRows \ {c}
  /\ rows' = IF c \in staleRows THEN rows ELSE call[c].rows
  /\ Overtaken(c) \subseteq gap'
Lands ==
  /\ Confirms("apply") /\ call["apply"].at = "walked" /\ "apply" \notin staleRows
  /\ shown' = call["apply"].snap /\ rows' = call["apply"].rows /\ baseline' = NoRows
  /\ staleRows' = InFlight(call) \ {"apply"}
  /\ Overtaken("apply") \subseteq gap'
Shows(c) ==
  /\ c \in Reload \ {"apply"} /\ call[c].at = "answered" /\ c \notin staleGeneration
  /\ Goes(c, "walking", call[c].snap, call[c].rows)
  /\ shown' = call[c].snap /\ baseline' = NoRows /\ Overtaken(c) \subseteq gap'
  /\ UNCHANGED <<world, lastConfirmed, rows, staleGeneration, staleConfirmed, staleRows>>
Starts(c) ==
  /\ call[c].at = "walking" /\ c # "apply" /\ c \notin staleGeneration
  /\ Goes(c, "walked", call[c].snap, world.ext)
  /\ staleRows' = (staleRows \cup InFlight(call)) \ {c}
  /\ UNCHANGED <<world, view, staleGeneration, staleConfirmed>>
AppliesOn ==
  /\ \/ call["apply"].at = "answered" /\ Goes("apply", "walking", call["apply"].snap, call["apply"].rows)
     \/ call["apply"].at = "walking" /\ Goes("apply", "walked", call["apply"].snap, world.ext)
  /\ UNCHANGED <<world, view, staleGeneration, staleConfirmed, staleRows>>
Filters ==
  /\ call["filter"].at = "idle" /\ Goes("filter", "walking", call["filter"].snap, call["filter"].rows)
  /\ staleGeneration' = InFlight(call)
  /\ baseline' = baseline \/ (baseline = NoRows /\ baseline' = rows)
  /\ UNCHANGED <<world, lastConfirmed, shown, rows, staleConfirmed, staleRows>>
FilterLands ==
  /\ Stops("filter") /\ UNCHANGED <<lastConfirmed, shown, baseline>>
  /\ \/ rows' = rows /\ ~("filter" \notin staleGeneration /\ Current("filter"))
     \/ rows' = call["filter"].rows /\ Current("filter")
  /\ staleConfirmed' = staleConfirmed \ {"filter"} /\ staleRows' = staleRows \ {"filter"}
Clears ==
  /\ baseline # NoRows /\ rows' = baseline /\ baseline' = NoRows /\ staleGeneration' = InFlight(call)
  /\ UNCHANGED <<world, lastConfirmed, shown, call, staleConfirmed, staleRows>>

Shape ==
  \/ Waits \/ Lands \/ AppliesOn \/ Filters \/ FilterLands \/ Clears
  \/ \E c \in Call : Reads(c) \/ Ends(c) \/ ConfirmsRefs(c) \/ ConfirmsRows(c) \/ Shows(c) \/ Starts(c)

LEMMA FreshRecords ==
  /\ Idle.at = "idle" /\ Idle.rows = NoRows /\ Idle.kind = "none"
  /\ \A k \in {"refs", "rows", "eval"} :
       /\ Asked(k).at = "asked" /\ Asked(k).snap = Idle.snap /\ Asked(k).rows = NoRows /\ Asked(k).kind = k
       /\ \A b \in BOOLEAN : LET r == [Asked(k) EXCEPT !.before = b] IN
            r.at = "asked" /\ r.snap = Idle.snap /\ r.rows = NoRows /\ r.kind = k
BY DEF Idle, Asked

(* A call ends, and an apply may start behind it.                          *)
LEMMA EndStops ==
  ASSUME Types, NEW c \in Call, call' = Ended(c)
  PROVE  Fresh(c) /\ Rest(c)
<1>1. Ended(c)[c] = Idle /\ \A d \in Call : d # c => Ended(c)[d] = call[d]
  BY EndFacts DEF Types, Flight
<1> QED
  BY <1>1, FreshRecords DEF Fresh, Rest

LEMMA StartStops ==
  ASSUME Types, NEW c \in Call, NEW op \in BOOLEAN, Ended(c)["apply"].at = "idle",
         call' = Started(Ended(c), op)
  PROVE  Fresh(c) /\ Rest(c)
<1> DEFINE cs == Ended(c)
           r == [Asked("rows") EXCEPT !.before = op]
<1>1. /\ cs[c] = Idle /\ (\A d \in Call : d # c => cs[d] = call[d])
      /\ Calls(cs) /\ "apply" \in Call /\ "apply" \in Reload
  BY EndFacts, CallNames DEF Types, Flight
<1>2. r.at = "asked" /\ r.snap = Idle.snap /\ r.rows = NoRows /\ r.kind = "rows" /\ r \in CallState
  BY FreshRecords, IdleFacts
<1>3. call' = Put(cs, "apply", r)
  BY DEF Started, Put
<1> HIDE DEF cs, r
<1>4. call'["apply"] = r /\ \A d \in Call : d # "apply" => call'[d] = cs[d]
  BY <1>1, <1>2, <1>3, PutFacts
<1>5. Fresh("apply")
  BY <1>1, <1>2, <1>4 DEF Fresh
<1>6. c # "apply" => call'[c] = Idle
  BY <1>1, <1>4
<1>7. Fresh(c)
  BY <1>5, <1>6, FreshRecords DEF Fresh
<1>8. c # "apply" => call["apply"].at = "idle"
  BY <1>1 DEF cs
<1> QED
  BY <1>1, <1>4, <1>5, <1>7, <1>8 DEF Rest

LEMMA FlushStops ==
  ASSUME Types, NEW c \in Call, NEW quiet, NEW pending, NEW banner, NEW gates, NEW alert,
         NEW op \in BOOLEAN, FlushIf(quiet, pending, banner, gates, alert, Ended(c), op)
  PROVE  Fresh(c) /\ Rest(c)
<1>1. CASE call' = Ended(c)
  BY <1>1, EndStops
<1>2. CASE call' # Ended(c)
  <2>1. Ended(c)["apply"].at = "idle" /\ call' = Started(Ended(c), op)
    BY <1>2 DEF FlushIf, Started
  <2> QED
    BY <2>1, StartStops
<1> QED
  BY <1>1, <1>2

LEMMA AfterStops ==
  ASSUME Types, NEW moved \in BOOLEAN, NEW confirmed \in Snapshot, AfterApply(moved, confirmed)
  PROVE  Fresh("apply") /\ Rest("apply")
<1>1. "apply" \in Call /\ confirmed.op \in BOOLEAN
  BY CallNames DEF Snapshot
<1>2. \/ call' = Ended("apply")
      \/ FlushIf(idle, pendingExternal, hasExternalChanges, pendingMutations, operationStateAlert,
                 Ended("apply"), confirmed.op)
  BY DEF AfterApply, Flush
<1> QED
  BY <1>1, <1>2, EndStops, FlushStops

(* One call moves on.                                                      *)
LEMMA GoesOn ==
  ASSUME Types, NEW c \in Call
  PROVE  /\ call' = [call EXCEPT ![c].at = "answered", ![c].snap = world] => Goes(c, "answered", world, call[c].rows)
         /\ call' = [call EXCEPT ![c].at = "walking"] => Goes(c, "walking", call[c].snap, call[c].rows)
         /\ call' = [call EXCEPT ![c].at = "walked", ![c].rows = world.ext]
              => Goes(c, "walked", call[c].snap, world.ext)
<1>1. call \in [Call -> CallState] /\ call[c] \in CallState
  BY DEF Types, Flight, Calls
<1>2. ASSUME call' = [call EXCEPT ![c].at = "answered", ![c].snap = world]
      PROVE  Goes(c, "answered", world, call[c].rows)
  <2>1. call' = [call EXCEPT ![c] = [call[c] EXCEPT !.at = "answered", !.snap = world]]
    BY <1>1, <1>2
  <2>2. call'[c] = [call[c] EXCEPT !.at = "answered", !.snap = world] /\ \A d \in Call \ {c} : call'[d] = call[d]
    BY <1>1, <2>1
  <2> QED
    BY <1>1, <2>2 DEF Goes, CallState
<1>3. ASSUME call' = [call EXCEPT ![c].at = "walking"] PROVE Goes(c, "walking", call[c].snap, call[c].rows)
  BY <1>1, <1>3 DEF Goes, CallState
<1>4. ASSUME call' = [call EXCEPT ![c].at = "walked", ![c].rows = world.ext]
      PROVE  Goes(c, "walked", call[c].snap, world.ext)
  BY <1>1, <1>4 DEF Goes, CallState
<1> QED
  BY <1>2, <1>3, <1>4

(* One is asked for.                                                       *)
LEMMA PutWaits ==
  ASSUME Types, NEW c \in Call, NEW k \in {"refs", "rows", "eval"}, k = "rows" => c \in Reload,
         call[c].at = "idle", call' = [call EXCEPT ![c] = Asked(k)]
  PROVE  \A d \in Call : call'[d] = call[d] \/ (call[d].at = "idle" /\ Fresh(d))
<1>1. call'[c] = Asked(k) /\ \A d \in Call \ {c} : call'[d] = call[d]
  BY DEF Types, Flight, Calls
<1>2. Fresh(c)
  BY <1>1, FreshRecords DEF Fresh
<1> QED
  BY <1>1, <1>2

LEMMA SnapshotsOrdered ==
  /\ \A s \in Snapshot : AtMost(s, s) /\ s.ext \in Nat /\ s.own \in Nat /\ AtMost(Idle.snap, s)
  /\ \A s, t, u \in Snapshot : AtMost(s, t) /\ AtMost(t, u) => AtMost(s, u)
BY DEF AtMost, Snapshot, Idle

LEMMA DecidesShape ==
  ASSUME Types, NEW e \in Eval, EvaluationDecides(e)
  PROVE  ConfirmsRefs(e)
<1>1. e \in Call /\ e # "filter" /\ lastConfirmed.op \in BOOLEAN /\ call[e].snap.op \in BOOLEAN
  BY CallNames, CallFacts DEF Types, Flight, Plain, Snapshot
<1>2. /\ call[e].at = "answered" /\ world' = world /\ UNCHANGED <<shown, rows, baseline>>
      /\ lastConfirmed' = call[e].snap /\ Forget(e) /\ Moved(e, InFlight(call)) /\ e \notin staleConfirmed
  BY DEF EvaluationDecides, repository
<1>3. \/ call' = Ended(e)
      \/ FlushIf(idle, TRUE, TRUE, <<>>, operationStateAlert, Ended(e), call[e].snap.op)
  BY DEF EvaluationDecides, RequestExternalApply, Flush
<1>4. Fresh(e) /\ Rest(e)
  BY <1>1, <1>3, EndStops, FlushStops
<1>5. InFlight(call) \ {e} \subseteq staleConfirmed'
  BY <1>2 DEF Moved
<1> QED
  BY <1>1, <1>2, <1>4, <1>5 DEF ConfirmsRefs, Confirms, Stops, Forget, HasRead

LEMMA EvalShapes ==
  ASSUME Types, NEW e \in Eval, EvalStep(e)
  PROVE  Ends(e) \/ ConfirmsRefs(e)
<1>1. e \in Call /\ e # "filter" /\ ~Reloading(e) /\ lastConfirmed.op \in BOOLEAN /\ call[e].snap \in Snapshot /\ call[e].snap.op \in BOOLEAN
  BY CallNames, CallFacts DEF Types, Flight, Plain, Snapshot, Reloading
<1>2. CASE EvaluationDropped(e) \/ EvaluationFails(e)
  <2>1. /\ call[e].at # "idle" /\ call' = Ended(e) /\ world' = world /\ UNCHANGED view
        /\ Forget(e) /\ Moved(e, {})
    BY <1>2 DEF EvaluationDropped, EvaluationFails, repository
  <2> QED
    BY <1>1, <2>1, EndStops DEF Ends, Stops, Forget, Moved
<1>3. CASE EvaluationDecides(e)
  BY <1>3, DecidesShape
<1> QED
  BY <1>2, <1>3 DEF EvalStep

LEMMA RefsShape ==
  ASSUME Types, NEW m \in Mutation, RefreshRefs(m)
  PROVE  ConfirmsRefs(m)
<1>1. m \in Call /\ m # "filter" /\ lastConfirmed.op \in BOOLEAN /\ call[m].snap.op \in BOOLEAN
  BY CallNames, CallFacts DEF Types, Flight, Plain, Snapshot
<1> DEFINE gates == IF pendingMutations = <<>> THEN <<>> ELSE Tail(pendingMutations)
<1>2. /\ call[m].at = "answered" /\ world' = world /\ UNCHANGED <<rows, baseline>>
      /\ shown' = call[m].snap /\ lastConfirmed' = call[m].snap /\ Forget(m)
      /\ gap' = gap \cup Overtaken(m)
  BY DEF RefreshRefs, repository
<1>3. \/ /\ FlushIf(idle, TRUE, TRUE, gates, operationStateAlert, Ended(m), lastConfirmed.op)
         /\ Moved(m, InFlight(call'))
      \/ /\ FlushIf(idle, pendingExternal, hasExternalChanges, gates, operationStateAlert, Ended(m), call[m].snap.op)
         /\ Moved(m, InFlight(call))
  BY DEF RefreshRefs, RequestExternalApply, Flush
<1> HIDE DEF gates
<1>4. Fresh(m) /\ Rest(m)
  BY <1>1, <1>3, FlushStops
<1>5. InFlight(call) \ {m} \subseteq InFlight(call')
  BY <1>4 DEF Rest, Fresh, InFlight
<1>6. InFlight(call) \ {m} \subseteq staleConfirmed'
  BY <1>3, <1>5 DEF Moved
<1>7. Overtaken(m) \subseteq gap'
  BY <1>2
<1> QED
  BY <1>1, <1>2, <1>4, <1>6, <1>7 DEF ConfirmsRefs, Confirms, Stops, Forget, HasRead

LEMMA RefsShapes ==
  ASSUME Types, NEW m \in Mutation, RefreshRefs(m) \/ RefreshRefsAbandoned(m)
  PROVE  Ends(m) \/ ConfirmsRefs(m)
<1>1. m \in Call /\ m # "filter" /\ lastConfirmed.op \in BOOLEAN /\ call[m].snap \in Snapshot /\ call[m].snap.op \in BOOLEAN
  BY CallNames, CallFacts DEF Types, Flight, Plain, Snapshot
<1>2. CASE RefreshRefsAbandoned(m)
  <2>1. /\ call[m].at # "idle" /\ call' = Ended(m) /\ world' = world /\ UNCHANGED view
        /\ Forget(m) /\ Moved(m, {})
    BY <1>2 DEF RefreshRefsAbandoned, repository
  <2>2. "filter" \in gap'
    BY <1>2 DEF RefreshRefsAbandoned
  <2> QED
    BY <1>1, <2>1, <2>2, EndStops DEF Ends, Stops, Forget, Moved
<1>3. CASE RefreshRefs(m)
  BY <1>3, RefsShape
<1> QED
  BY <1>2, <1>3

LEMMA RowsShape ==
  ASSUME Types, NEW c \in Call, RefreshRefsAndRows(c)
  PROVE  ConfirmsRows(c)
<1>1. call[c].snap.op \in BOOLEAN
  BY CallFacts DEF Types, Flight, Snapshot
<1>2. /\ Flush(pendingExternal, hasExternalChanges, pendingMutations', operationStateAlert, Ended(c), call[c].snap.op)
      /\ Moved(c, InFlight(call)) /\ Forget(c)
  BY DEF RefreshRefsAndRows
<1>3. Fresh(c) /\ Rest(c)
  BY <1>1, <1>2, FlushStops DEF Flush
<1>4. /\ c \in Reload \ {"apply"} /\ call[c].at = "walked" /\ c \notin staleGeneration
      /\ UNCHANGED <<world, shown, baseline>>
      /\ rows' = IF c \in staleRows THEN rows ELSE call[c].rows
      /\ Overtaken(c) \subseteq gap' /\ lastConfirmed' = call[c].snap
  BY DEF RefreshRefsAndRows, repository
<1> QED
  BY <1>2, <1>3, <1>4, CallNames DEF ConfirmsRows, Confirms, Stops, Forget, Moved, HasRead

LEMMA ReloadShapes ==
  ASSUME Types, Kinds, NEW c \in Call, ReadState(c) \/ ReloadStep(c)
  PROVE  Reads(c) \/ Shows(c) \/ Starts(c) \/ ConfirmsRows(c) \/ Ends(c)
<1>1. lastConfirmed.op \in BOOLEAN /\ call[c].snap \in Snapshot /\ call[c].snap.op \in BOOLEAN
  BY CallFacts DEF Types, Flight, Plain, Snapshot
<1>2. CASE ReadState(c)
  BY <1>2, GoesOn DEF ReadState, Reads, repository
<1>3. CASE ShowRefs(c)
  <2>1. c \in Reload \ {"apply"}
    BY <1>3 DEF ShowRefs, Kinds
  <2>2. Goes(c, "walking", call[c].snap, call[c].rows)
    BY <1>3, GoesOn DEF ShowRefs
  <2> QED
    BY <1>3, <2>1, <2>2 DEF ShowRefs, Shows, repository
<1>4. CASE StartReader(c)
  BY <1>4, GoesOn DEF StartReader, Starts, repository
<1>5. CASE RefreshRefsAndRows(c)
  BY <1>5, RowsShape
<1>6. CASE RefreshRefsAndRowsAbandoned(c)
  <2>1. /\ Flush(pendingExternal, hasExternalChanges, pendingMutations, operationStateAlert, Ended(c), lastConfirmed.op)
        /\ Moved(c, {}) /\ Forget(c) /\ UNCHANGED <<world, view>> /\ call[c].at # "idle"
    BY <1>6 DEF RefreshRefsAndRowsAbandoned, repository
  <2>2. Fresh(c) /\ Rest(c)
    BY <1>1, <2>1, FlushStops DEF Flush
  <2>3. "filter" \in gap' /\ c # "filter"
    BY <1>6, CallNames DEF RefreshRefsAndRowsAbandoned
  <2> QED
    BY <2>1, <2>2, <2>3 DEF Ends, Stops, Forget, Moved
<1>7. CASE ConfirmingReadFails(c)
  <2>1. /\ call[c].at # "idle" /\ call' = Ended(c) /\ world' = world /\ UNCHANGED view
        /\ Forget(c) /\ Moved(c, {})
    BY <1>7 DEF ConfirmingReadFails, repository
  <2>2. c # "filter" /\ (Reloading(c) => call[c].at = "walking")
    BY <1>7, CallNames DEF ConfirmingReadFails, Reloading
  <2>3. "filter" \in gap' \/ Overtaken(c) \cup LeftShown(c) \subseteq gap'
    BY <1>7 DEF ConfirmingReadFails
  <2> QED
    BY <2>1, <2>2, <2>3, EndStops DEF Ends, Stops, Forget, Moved
<1> QED
  BY <1>2, <1>3, <1>4, <1>5, <1>6, <1>7 DEF ReloadStep

LEMMA ManualShapes ==
  ASSUME Types, RefreshFails
  PROVE  Ends("manual")
<1>1. "manual" \in Call /\ lastConfirmed.op \in BOOLEAN
  BY CallNames DEF Types, Plain, Snapshot
<1>2. Fresh("manual") /\ Rest("manual")
  BY <1>1, FlushStops DEF RefreshFails, Flush
<1>3. Overtaken("manual") \cup LeftShown("manual") \subseteq gap' /\ "manual" # "filter"
      /\ (Reloading("manual") => call["manual"].at = "walking")
  BY DEF RefreshFails, Reloading
<1> QED
  BY <1>2, <1>3 DEF RefreshFails, Ends, Stops, Forget, Moved, repository

LEMMA LandsShape ==
  ASSUME Types, ApplyInPlace
  PROVE  Lands
<1>1. "apply" \in Call /\ call["apply"].snap \in Snapshot
  BY CallNames, CallFacts DEF Types, Flight
<1>2. Fresh("apply") /\ Rest("apply")
  BY <1>1, AfterStops DEF ApplyInPlace
<1> QED
  BY <1>2 DEF ApplyInPlace, Lands, Confirms, Stops, HasRead, repository

LEMMA ApplyShapes ==
  ASSUME Types, ApplyStep
  PROVE  AppliesOn \/ Lands \/ Ends("apply")
<1>1. "apply" \in Call /\ call["apply"].snap \in Snapshot /\ lastConfirmed \in Snapshot
  BY CallNames, CallFacts DEF Types, Flight, Plain
<1>2. CASE ApplyAnswered \/ ReadRowsInPlace
  BY <1>1, <1>2, GoesOn DEF ApplyAnswered, ReadRowsInPlace, AppliesOn, repository
<1>3. CASE ApplyInPlace
  BY <1>3, LandsShape
<1>4. CASE ApplyFails \/ ApplyAbandoned
  <2> DEFINE moved == "apply" \in staleConfirmed
  <2>1. ApplyNotMade /\ call["apply"].at # "idle"
    BY <1>4 DEF ApplyFails, ApplyAbandoned
  <2>2. AfterApply(moved, lastConfirmed) /\ moved \in BOOLEAN
    BY <2>1 DEF ApplyNotMade
  <2> HIDE DEF moved
  <2>3. Fresh("apply") /\ Rest("apply")
    BY <1>1, <2>2, AfterStops
  <2> QED
    BY <2>1, <2>3 DEF ApplyNotMade, Ends, Stops, Forget, Moved, Reloading, repository
<1> QED
  BY <1>2, <1>3, <1>4 DEF ApplyStep

LEMMA FilterShapes ==
  ASSUME Types, ApplyFilter \/ FilterShown \/ ClearFilter
  PROVE  Filters \/ FilterLands \/ Clears
<1>1. "filter" \in Call
  BY CallNames
<1>2. CASE ApplyFilter
  BY <1>1, <1>2, GoesOn DEF ApplyFilter, Filters, repository
<1>3. CASE FilterShown
  <2>1. Fresh("filter") /\ Rest("filter") /\ call["filter"].at # "idle"
    BY <1>1, <1>3, EndStops DEF FilterShown
  <2> QED
    BY <1>3, <2>1 DEF FilterShown, FilterLands, Stops, Forget, Moved, Current, repository
<1>4. CASE ClearFilter
  BY <1>4 DEF ClearFilter, Clears, repository
<1> QED
  BY <1>2, <1>3, <1>4

LEMMA WaitShapes ==
  ASSUME Types,
         \/ ExternalWrite \/ ExternalOperation \/ OnRefsChanged \/ SettleTimerFires
         \/ FetchSettles \/ Refresh \/ BecomeBusy \/ BecomeIdle \/ UNCHANGED vars
         \/ \E m \in Mutation : BeginMutation(m) \/ MutationWrites(m) \/ MutationSettles(m)
  PROVE  Waits
<1>1. world \in Snapshot /\ AtMost(world, world)
  BY SnapshotsOrdered DEF Types, Plain
<1>2. CASE \/ ExternalWrite \/ ExternalOperation \/ BecomeBusy \/ UNCHANGED vars
           \/ \E m \in Mutation : BeginMutation(m) \/ MutationWrites(m)
  <2>1. UNCHANGED <<view, call, staleGeneration, staleConfirmed, staleRows>>
    BY <1>2 DEF ExternalWrite, ExternalOperation, BecomeBusy, vars, BeginMutation, MutationWrites, flight
  <2>2. AtMost(world, world')
    <3>1. \/ world' = world
          \/ world' = [world EXCEPT !.ext = @ + 1]
          \/ world' = [world EXCEPT !.op = ~@]
          \/ world' = [world EXCEPT !.own = @ + 1]
      BY <1>2 DEF ExternalWrite, ExternalOperation, BecomeBusy, vars, BeginMutation, MutationWrites, repository
    <3> QED
      BY <1>1, <3>1 DEF AtMost, Snapshot
  <2> QED
    BY <2>1, <2>2 DEF Waits
<1>3. CASE OnRefsChanged \/ SettleTimerFires
  <2>1. /\ UNCHANGED <<world, view, staleGeneration, staleConfirmed, staleRows>>
        /\ \/ call' = call
           \/ \E e \in Eval : call[e].at = "idle" /\ call' = [call EXCEPT ![e] = Asked("eval")]
    BY <1>3 DEF OnRefsChanged, SettleTimerFires, repository
  <2> QED
    BY <1>1, <2>1, PutWaits, CallNames DEF Waits
<1>4. CASE FetchSettles \/ Refresh
  <2>1. /\ UNCHANGED <<world, view, staleGeneration, staleConfirmed, staleRows>>
        /\ \E c \in {"manual", "fetch"} : call[c].at = "idle" /\ call' = [call EXCEPT ![c] = Asked("rows")]
    BY <1>4 DEF FetchSettles, Refresh, repository
  <2> QED
    BY <1>1, <2>1, PutWaits, CallNames DEF Waits
<1>5. ASSUME NEW m \in Mutation, MutationSettles(m) PROVE Waits
  <2>1. UNCHANGED <<world, view, staleGeneration, staleConfirmed, staleRows>> /\ call[m].at = "idle"
    BY <1>5 DEF MutationSettles, Types, Issued, repository
  <2>2. PICK k \in {"refs", "rows"} : call' = [call EXCEPT ![m] = Asked(k)]
    BY <1>5 DEF MutationSettles
  <2>3. \A d \in Call : call'[d] = call[d] \/ (call[d].at = "idle" /\ Fresh(d))
    BY <2>1, <2>2, PutWaits, CallNames
  <2> QED
    BY <1>1, <2>1, <2>3 DEF Waits
<1>6. CASE BecomeIdle
  <2> DEFINE op == lastConfirmed.op
             r == [Asked("rows") EXCEPT !.before = op]
  <2>1. UNCHANGED <<world, view, staleGeneration, staleConfirmed, staleRows>> /\ op \in BOOLEAN
    BY <1>6 DEF BecomeIdle, repository, Types, Plain, Snapshot
  <2>2. FlushIf(TRUE, pendingExternal, hasExternalChanges, pendingMutations, operationStateAlert, call, op)
    BY <1>6 DEF BecomeIdle, IdleSubscribers
  <2>3. call' = call \/ (call["apply"].at = "idle" /\ call' = [call EXCEPT !["apply"] = r])
    BY <2>2 DEF FlushIf
  <2>4. r.at = "asked" /\ r.snap = Idle.snap /\ r.rows = NoRows /\ "apply" \in Reload /\ "apply" \in Call
    BY <2>1, FreshRecords, CallNames
  <2> HIDE DEF r, op
  <2>5. \A d \in Call : call'[d] = call[d] \/ (call[d].at = "idle" /\ Fresh(d))
    BY <2>3, <2>4 DEF Fresh, Types, Flight, Calls
  <2> QED
    BY <1>1, <2>1, <2>5 DEF Waits
<1> QED
  BY <1>2, <1>3, <1>4, <1>5, <1>6

LEMMA ShapeStep ==
  ASSUME Types, Kinds, [Next]_vars
  PROVE  Shape
<1>1. ASSUME NEW m \in Mutation, MutationStep(m) PROVE Waits \/ \E c \in Call : Ends(c) \/ ConfirmsRefs(c)
  BY <1>1, WaitShapes, RefsShapes, CallNames DEF MutationStep
<1>2. ASSUME NEW e \in Eval, EvalStep(e) PROVE \E c \in Call : Ends(c) \/ ConfirmsRefs(c)
  BY <1>2, EvalShapes, CallNames
<1>3. ASSUME NEW c \in Call, ReadState(c) \/ ReloadStep(c)
      PROVE  Reads(c) \/ Shows(c) \/ Starts(c) \/ ConfirmsRows(c) \/ Ends(c)
  BY <1>3, ReloadShapes
<1>4. CASE RefreshFails
  BY <1>4, ManualShapes, CallNames DEF Shape
<1>5. CASE ApplyStep
  BY <1>5, ApplyShapes, CallNames DEF Shape
<1>6. CASE ApplyFilter \/ FilterShown \/ ClearFilter
  BY <1>6, FilterShapes DEF Shape
<1>7. CASE \/ ExternalWrite \/ ExternalOperation \/ OnRefsChanged \/ SettleTimerFires
           \/ FetchSettles \/ Refresh \/ BecomeBusy \/ BecomeIdle \/ UNCHANGED vars
  BY <1>7, WaitShapes DEF Shape
<1> QED
  BY <1>1, <1>2, <1>3, <1>4, <1>5, <1>6, <1>7 DEF Next, Shape

(* What may become of a call.                                              *)
LEMMA CallChange ==
  ASSUME Shape, NEW d \in Call
  PROVE  \/ call'[d] = call[d]
         \/ Fresh(d)
         \/ /\ call'[d].at # "walked" /\ call'[d].snap \in {world, call[d].snap} /\ call'[d].rows = call[d].rows
            /\ call'[d].kind = call[d].kind
            /\ call'[d].at = "walking" => d \in Reload \cup {"filter"}
         \/ /\ call[d].at = "walking" /\ call'[d].snap = call[d].snap /\ call'[d].rows = world.ext
            /\ call'[d].kind = call[d].kind
<1>1. CASE Waits \/ Lands \/ FilterLands \/ Clears
  BY <1>1 DEF Waits, Lands, FilterLands, Clears, Confirms, Stops, Rest
<1>2. CASE AppliesOn \/ Filters
  BY <1>2, CallNames DEF AppliesOn, Filters, Goes
<1>3. ASSUME NEW c \in Call, Ends(c) \/ ConfirmsRefs(c) \/ ConfirmsRows(c)
      PROVE  call'[d] = call[d] \/ Fresh(d)
  BY <1>3 DEF Ends, ConfirmsRefs, ConfirmsRows, Confirms, Stops, Rest
<1>4. ASSUME NEW c \in Call, Reads(c) \/ Shows(c) \/ Starts(c), d # c
      PROVE  call'[d] = call[d]
  BY <1>4 DEF Reads, Shows, Starts, Goes
<1>5. CASE Reads(d) \/ Shows(d) \/ Starts(d)
  BY <1>5 DEF Reads, Shows, Starts, Goes
<1> QED
  BY <1>1, <1>2, <1>3, <1>4, <1>5 DEF Shape

LEMMA KindsStep ==
  ASSUME Kinds, Shape
  PROVE  Kinds'
<1> SUFFICES ASSUME NEW d \in Call
             PROVE  /\ call'[d].kind = "rows" => d \in Reload
                    /\ call'[d].at \in {"walking", "walked"} => d \in Reload \cup {"filter"}
  BY DEF Kinds
<1> QED
  BY CallChange DEF Kinds, Fresh

LEMMA Typed ==
  ASSUME Types
  PROVE  /\ world \in Snapshot /\ lastConfirmed \in Snapshot /\ shown \in Snapshot
         /\ rows \in Nat /\ baseline \in Nat \cup {NoRows} /\ NoRows \in Int /\ NoRows < 0
         /\ \A c \in Call : /\ call[c].snap \in Snapshot /\ call[c].rows \in Nat \cup {NoRows}
                            /\ call[c].at = "walked" => call[c].rows \in Nat
         /\ staleGeneration \subseteq InFlight(call) /\ staleConfirmed \subseteq InFlight(call)
         /\ staleRows \subseteq InFlight(call)
BY CallFacts DEF Types, Plain, Flight, Calls, NoRows

(* The repository moves on; what is confirmed, shown and listed comes from *)
(* what was there, or from a call.                                         *)
LEMMA ViewChange ==
  ASSUME Shape
  PROVE  /\ world' = world \/ (Waits /\ AtMost(world, world'))
         /\ lastConfirmed' = lastConfirmed \/ \E c \in Call : lastConfirmed' = call[c].snap
         /\ shown' = shown \/ \E c \in Call : shown' = call[c].snap
         /\ rows' \in {rows, baseline} \/ \E c \in Call : rows' = call[c].rows
         /\ baseline' \in {baseline, NoRows, rows}
<1>1. CASE Waits
  BY <1>1 DEF Waits, view
<1>2. CASE Lands
  BY <1>2, CallNames DEF Lands, Confirms, Stops
<1>3. CASE AppliesOn \/ Filters \/ Clears
  BY <1>3 DEF AppliesOn, Filters, Clears, view
<1>4. CASE FilterLands
  BY <1>4, CallNames DEF FilterLands, Stops
<1>5. ASSUME NEW c \in Call, Reads(c) \/ Ends(c) \/ Starts(c)
      PROVE  UNCHANGED <<world, lastConfirmed, shown, rows, baseline>>
  BY <1>5 DEF Reads, Ends, Starts, Stops, view
<1>6. ASSUME NEW c \in Call, ConfirmsRefs(c) \/ ConfirmsRows(c)
      PROVE  /\ world' = world /\ lastConfirmed' = call[c].snap /\ shown' \in {shown, call[c].snap}
             /\ rows' \in {rows, call[c].rows} /\ baseline' = baseline
  BY <1>6 DEF ConfirmsRefs, ConfirmsRows, Confirms, Stops
<1>7. ASSUME NEW c \in Call, Shows(c)
      PROVE  /\ UNCHANGED <<world, lastConfirmed, rows>> /\ shown' = call[c].snap /\ baseline' = NoRows
  BY <1>7 DEF Shows
<1> QED
  BY <1>1, <1>2, <1>3, <1>4, <1>5, <1>6, <1>7 DEF Shape

LEMMA BoundedStep ==
  ASSUME Types, Types', Bounded, Shape
  PROVE  Bounded'
<1>1. /\ world \in Snapshot /\ world' \in Snapshot /\ AtMost(world, world')
      /\ world.ext \in Nat /\ world'.ext \in Nat /\ world.ext <= world'.ext
  <2>1. world \in Snapshot /\ world' \in Snapshot
    BY DEF Types, Plain
  <2>2. AtMost(world, world')
    BY <2>1, ViewChange, SnapshotsOrdered
  <2> QED
    BY <2>1, <2>2, SnapshotsOrdered DEF AtMost
<1>2. ASSUME NEW s \in Snapshot, AtMost(s, world) PROVE AtMost(s, world')
  BY <1>1, <1>2, SnapshotsOrdered
<1>3. ASSUME NEW x \in Int, x <= world.ext PROVE x <= world'.ext
  BY <1>1, <1>3
<1>4. ASSUME NEW c \in Call
      PROVE  /\ call[c].snap \in Snapshot /\ call[c].snap.ext \in Nat /\ call[c].rows \in Int
             /\ AtMost(call[c].snap, world) /\ call[c].rows <= world.ext /\ call[c].snap.ext <= world.ext
  BY Typed, SnapshotsOrdered DEF Bounded, AtMost
<1>5. ASSUME NEW c \in Call
      PROVE  /\ AtMost(call'[c].snap, world') /\ call'[c].rows <= world'.ext
             /\ c \in Reload /\ call'[c].at = "walked" => call'[c].rows >= call'[c].snap.ext
  <2>1. CASE call'[c] = call[c]
    BY <1>2, <1>3, <1>4, <2>1 DEF Bounded
  <2>2. CASE Fresh(c)
    BY <1>1, <2>2, SnapshotsOrdered DEF Fresh, NoRows
  <2>3. CASE call'[c].at # "walked" /\ call'[c].snap \in {world, call[c].snap} /\ call'[c].rows = call[c].rows
    BY <1>1, <1>2, <1>3, <1>4, <2>3
  <2>4. CASE call'[c].snap = call[c].snap /\ call'[c].rows = world.ext
    BY <1>1, <1>2, <1>4, <2>4
  <2> QED
    BY <2>1, <2>2, <2>3, <2>4, CallChange
<1>6. AtMost(lastConfirmed', world')
  BY <1>2, <1>4, Typed, ViewChange DEF Bounded
<1>7. AtMost(shown', world')
  BY <1>2, <1>4, Typed, ViewChange DEF Bounded
<1>8. rows \in Int /\ baseline \in Int /\ NoRows \in Int /\ NoRows < 0
  BY Typed
<1>9. rows' <= world'.ext
  BY <1>3, <1>4, <1>8, ViewChange DEF Bounded
<1>10. baseline' <= world'.ext
  BY <1>1, <1>3, <1>8, ViewChange DEF Bounded
<1> QED
  BY <1>5, <1>6, <1>7, <1>9, <1>10, CallNames DEF Bounded

LEMMA ReadsForwardStep ==
  ASSUME Types, Bounded, ReadsForward, Shape
  PROVE  ReadsForward'
<1> SUFFICES ASSUME NEW c \in Call \ {"filter"}, HasRead(c)', c \notin staleConfirmed'
             PROVE  AtMost(lastConfirmed', call'[c].snap)
  BY DEF ReadsForward
<1>1. ~Fresh(c) /\ (call'[c] = call[c] => c \in InFlight(call))
  BY DEF Fresh, HasRead, InFlight
<1>2. CASE Waits
  BY <1>1, <1>2 DEF Waits, view, ReadsForward, HasRead
<1>3. ASSUME NEW d \in Call, Confirms(d) PROVE FALSE
  BY <1>1, <1>3 DEF Confirms, Stops, Rest
<1>4. CASE AppliesOn
  BY <1>4 DEF AppliesOn, Goes, view, ReadsForward, HasRead
<1>5. CASE Filters \/ Clears
  BY <1>5 DEF Filters, Clears, Goes, ReadsForward, HasRead
<1>6. ASSUME NEW d \in Call, UNCHANGED lastConfirmed, Stops(d), staleConfirmed' = staleConfirmed \ {d}
      PROVE  AtMost(lastConfirmed', call'[c].snap)
  BY <1>1, <1>6 DEF Stops, Rest, ReadsForward, HasRead
<1>7. ASSUME NEW d \in Call, Reads(d) PROVE AtMost(lastConfirmed', call'[c].snap)
  BY <1>7 DEF Reads, Goes, view, ReadsForward, HasRead, Bounded
<1>8. ASSUME NEW d \in Call, Shows(d) \/ Starts(d) PROVE AtMost(lastConfirmed', call'[c].snap)
  BY <1>8 DEF Shows, Starts, Goes, view, ReadsForward, HasRead
<1> QED
  BY <1>2, <1>3, <1>4, <1>5, <1>6, <1>7, <1>8, CallNames
     DEF Shape, Lands, FilterLands, Ends, ConfirmsRefs, ConfirmsRows, view

(* The calls are no less out of date than they were.                       *)
LEMMA StaleRowsChange ==
  ASSUME Types, Shape, NEW c \in Call, Current(c)'
  PROVE  \/ call'[c] = call[c] /\ Current(c)
         \/ /\ Starts(c) /\ call[c].at = "walking" /\ call'[c].rows = world.ext
            /\ \A d \in Call \ {c} : ~Current(d)'
         \/ AppliesOn /\ c = "apply" /\ call'[c].rows = world.ext
<1>1. call'[c].at = "walked" /\ ~Fresh(c) /\ (call'[c] = call[c] => c \in InFlight(call))
  BY DEF Current, Fresh, InFlight
<1>2. CASE Waits \/ Clears
  BY <1>1, <1>2 DEF Waits, Clears, Current
<1>3. CASE Lands
  BY <1>1, <1>3 DEF Lands, Confirms, Stops, Rest, Current
<1>4. CASE AppliesOn
  BY <1>1, <1>4 DEF AppliesOn, Goes, Current
<1>5. CASE Filters
  BY <1>1, <1>5 DEF Filters, Goes, Current
<1>6. ASSUME NEW d \in Call, Stops(d), staleRows' = staleRows \ {d} PROVE call'[c] = call[c] /\ Current(c)
  BY <1>1, <1>6 DEF Stops, Rest, Current
<1>7. ASSUME NEW d \in Call, Reads(d) \/ Shows(d) PROVE call'[c] = call[c] /\ Current(c)
  BY <1>1, <1>7 DEF Reads, Shows, Goes, Current
<1>8. ASSUME NEW d \in Call, Starts(d)
      PROVE  Starts(c) /\ call[c].at = "walking" /\ call'[c].rows = world.ext /\ \A e \in Call \ {c} : ~Current(e)'
  <2>1. \A e \in Call \ {d} : ~Current(e)'
    BY <1>8 DEF Starts, Goes, Current, InFlight
  <2> QED
    BY <1>8, <2>1 DEF Starts, Goes
<1>9. CASE FilterLands
  BY <1>6, <1>9, CallNames DEF FilterLands
<1>10. ASSUME NEW d \in Call, Ends(d) \/ ConfirmsRefs(d) \/ ConfirmsRows(d) PROVE call'[c] = call[c] /\ Current(c)
  BY <1>6, <1>10 DEF Ends, ConfirmsRefs, ConfirmsRows, Confirms
<1> QED
  BY <1>2, <1>3, <1>4, <1>5, <1>7, <1>8, <1>9, <1>10 DEF Shape

LEMMA RowsForwardStep ==
  ASSUME Types, Bounded, RowsForward, OneReader, Shape
  PROVE  RowsForward'
<1> SUFFICES ASSUME NEW c \in Call, Current(c)'
             PROVE  call'[c].rows >= rows' /\ call'[c].rows >= baseline'
  BY DEF RowsForward
<1>0. /\ rows \in Int /\ baseline \in Int /\ NoRows \in Int /\ NoRows < 0 /\ world.ext \in Int /\ rows >= 0
      /\ \A d \in Call : call[d].rows \in Int
      /\ rows <= world.ext /\ baseline <= world.ext
  BY Typed, SnapshotsOrdered DEF Bounded
<1>1. CASE UNCHANGED <<rows, baseline>>
  BY <1>0, <1>1, StaleRowsChange DEF RowsForward
<1>2. CASE AppliesOn \/ Waits
  BY <1>1, <1>2 DEF AppliesOn, Waits, view
<1>3. ASSUME NEW d \in Call, Reads(d) \/ Ends(d) \/ Starts(d) \/ ConfirmsRefs(d)
      PROVE  call'[c].rows >= rows' /\ call'[c].rows >= baseline'
  BY <1>1, <1>3 DEF Reads, Ends, Starts, ConfirmsRefs, view
<1>4. ASSUME ~AppliesOn, \A d \in Call : ~Starts(d) PROVE call'[c] = call[c] /\ Current(c)
  BY <1>4, StaleRowsChange
<1>5. ASSUME call'[c] = call[c] /\ Current(c), rows' = rows, baseline' \in {baseline, NoRows, rows}
      PROVE  call'[c].rows >= rows' /\ call'[c].rows >= baseline'
  BY <1>0, <1>5 DEF RowsForward
<1>6. ASSUME NEW d \in Call, d # "apply", Stops(d), baseline' = baseline, staleRows' = staleRows \ {d},
             rows' = rows \/ (Current(d) /\ rows' = call[d].rows)
      PROVE  call'[c].rows >= rows' /\ call'[c].rows >= baseline'
  <2>1. call'[c] = call[c] /\ Current(c) /\ c # d
    BY <1>6 DEF Stops, Rest, Fresh, Current
  <2>2. CASE rows' = rows
    BY <1>5, <1>6, <2>1, <2>2
  <2>3. CASE Current(d) /\ rows' = call[d].rows
    <3>1. call[c].rows >= call[d].rows /\ call[c].rows >= baseline
      BY <1>6, <2>1, <2>3 DEF OneReader, RowsForward
    <3> QED
      BY <1>6, <2>1, <2>3, <3>1
  <2> QED
    BY <1>6, <2>2, <2>3
<1>7. CASE Lands
  BY <1>7 DEF Lands, Confirms, Stops, Rest, Fresh, Current, InFlight
<1>8. CASE Filters
  <2>1. call'[c] = call[c] /\ Current(c)
    BY <1>8 DEF Filters, Goes, Current
  <2> QED
    BY <1>5, <1>8, <2>1 DEF Filters
<1>9. CASE Clears
  <2>1. call'[c] = call[c] /\ Current(c)
    BY <1>9 DEF Clears, Current
  <2> QED
    BY <1>0, <1>9, <2>1 DEF Clears, RowsForward
<1>10. CASE FilterLands
  BY <1>6, <1>10, CallNames DEF FilterLands
<1>11. ASSUME NEW d \in Call, ConfirmsRows(d) PROVE call'[c].rows >= rows' /\ call'[c].rows >= baseline'
  BY <1>6, <1>11 DEF ConfirmsRows, Confirms, Current
<1>12. ASSUME NEW d \in Call, Shows(d) PROVE call'[c].rows >= rows' /\ call'[c].rows >= baseline'
  <2>1. call'[c] = call[c] /\ Current(c)
    BY <1>12 DEF Shows, Goes, Current
  <2> QED
    BY <1>5, <1>12, <2>1 DEF Shows
<1> QED
  BY <1>2, <1>3, <1>7, <1>8, <1>9, <1>10, <1>11, <1>12 DEF Shape

LEMMA OneReaderStep ==
  ASSUME Types, Bounded, OneReader, Shape
  PROVE  OneReader'
<1> SUFFICES ASSUME NEW c \in Call, NEW d \in Call, Current(c)', Current(d)', c # d, c # "apply"
             PROVE  d = "apply" /\ call'[d].rows >= call'[c].rows
  BY DEF OneReader
<1>1. call'[c] = call[c] /\ Current(c)
  BY StaleRowsChange
<1>2. CASE call'[d] = call[d] /\ Current(d)
  BY <1>1, <1>2 DEF OneReader
<1>3. CASE d = "apply" /\ call'[d].rows = world.ext
  <2>1. call[c].rows <= world.ext /\ call[c].rows \in Int /\ world.ext \in Int
    BY Typed, SnapshotsOrdered DEF Bounded
  <2> QED
    BY <1>1, <1>3, <2>1
<1> QED
  BY <1>2, <1>3, StaleRowsChange

LEMMA UnfilteredStep ==
  ASSUME Types, Unfiltered, Shape
  PROVE  Unfiltered'
<1> SUFFICES ASSUME NEW c \in Call, Reloading(c)', c \notin staleGeneration'
             PROVE  baseline' = NoRows
  BY DEF Unfiltered
<1>1. c \in Reload /\ c # "apply" /\ c # "filter" /\ call'[c].at \in {"walking", "walked"} /\ ~Fresh(c)
      /\ (call'[c] = call[c] => Reloading(c) /\ c \in InFlight(call))
  BY CallNames DEF Reloading, Fresh, InFlight
<1>2. CASE Waits
  BY <1>1, <1>2 DEF Waits, view, Unfiltered
<1>3. CASE Lands \/ Clears
  BY <1>3 DEF Lands, Clears
<1>4. CASE AppliesOn
  BY <1>1, <1>4 DEF AppliesOn, Goes, view, Unfiltered
<1>5. CASE Filters
  BY <1>1, <1>5 DEF Filters, Goes
<1>6. ASSUME NEW d \in Call, Stops(d), baseline' = baseline PROVE baseline' = NoRows
  <2>1. call'[c] = call[c] /\ c # d
    BY <1>1, <1>6 DEF Stops, Rest
  <2> QED
    BY <1>1, <1>6, <2>1 DEF Stops, Unfiltered
<1>7. ASSUME NEW d \in Call, Reads(d) \/ Starts(d) PROVE baseline' = NoRows
  <2>1. Reloading(c) /\ c \notin staleGeneration
    BY <1>1, <1>7 DEF Reads, Starts, Goes, Reloading
  <2> QED
    BY <1>7, <2>1 DEF Reads, Starts, view, Unfiltered
<1>8. ASSUME NEW d \in Call, Shows(d) PROVE baseline' = NoRows
  BY <1>8 DEF Shows
<1> QED
  BY <1>2, <1>3, <1>4, <1>5, <1>6, <1>7, <1>8, CallNames
     DEF Shape, FilterLands, Ends, ConfirmsRefs, ConfirmsRows, Confirms, view

-----------------------------------------------------------------------------
(* While the code takes none of its exceptions.                            *)
LEMMA StillRegular ==
  ASSUME [Next]_vars, Regular'
  PROVE  Regular
BY GapGrows DEF Regular

(* Nobody else confirms or shows anything while the call c is at it.       *)
LEMMA Unchallenged ==
  ASSUME NEW c, Overtaken(c) \subseteq gap', Regular'
  PROVE  c \notin staleConfirmed /\ \A d \in Call : Reloading(d) => d = c
<1>1. Overtaken(c) = {}
  BY DEF Overtaken, Regular
<1> QED
  BY <1>1 DEF Overtaken, Reloading

LEMMA ConfirmsInOrder ==
  ASSUME NEW c \in Call, ConfirmsRefs(c) \/ ConfirmsRows(c) \/ (c = "apply" /\ Lands), Regular'
  PROVE  Confirms(c) /\ c \notin staleConfirmed
<1>1. CASE ConfirmsRefs(c)
  BY <1>1, Unchallenged DEF ConfirmsRefs
<1>2. CASE ConfirmsRows(c)
  BY <1>2, Unchallenged DEF ConfirmsRows
<1>3. CASE c = "apply" /\ Lands
  BY <1>3, Unchallenged DEF Lands
<1> QED
  BY <1>1, <1>2, <1>3

LEMMA ConfirmedForward ==
  ASSUME Types, ReadsForward, Shape, Regular'
  PROVE  AtMost(lastConfirmed, lastConfirmed')
<1>1. AtMost(lastConfirmed, lastConfirmed)
  BY Typed, SnapshotsOrdered
<1>2. ASSUME NEW c \in Call, ConfirmsRefs(c) \/ ConfirmsRows(c) \/ (c = "apply" /\ Lands)
      PROVE  AtMost(lastConfirmed, lastConfirmed')
  <2>1. Confirms(c) /\ c \notin staleConfirmed
    BY <1>2, ConfirmsInOrder
  <2> QED
    BY <2>1 DEF Confirms, ReadsForward
<1>3. CASE Lands
  BY <1>2, <1>3, CallNames
<1>4. CASE Waits \/ AppliesOn \/ Filters \/ FilterLands \/ Clears
  BY <1>1, <1>4 DEF Waits, AppliesOn, Filters, FilterLands, Clears, view
<1>5. ASSUME NEW c \in Call, Reads(c) \/ Ends(c) \/ Shows(c) \/ Starts(c) PROVE AtMost(lastConfirmed, lastConfirmed')
  BY <1>1, <1>5 DEF Reads, Ends, Shows, Starts, view
<1> QED
  BY <1>2, <1>3, <1>4, <1>5 DEF Shape

(* A gate is opened over what is confirmed.                                *)
LEMMA GatesChange ==
  ASSUME [Next]_vars
  PROVE  \/ pendingMutations' = pendingMutations
         \/ pendingMutations' = <<>>
         \/ pendingMutations # <<>> /\ pendingMutations' = Tail(pendingMutations)
         \/ \E m \in Mutation : pendingMutations' = Append(pendingMutations, [owner |-> m, pre |-> lastConfirmed])
<1> DEFINE Goal ==
      \/ pendingMutations' = pendingMutations
      \/ pendingMutations' = <<>>
      \/ pendingMutations # <<>> /\ pendingMutations' = Tail(pendingMutations)
      \/ \E m \in Mutation : pendingMutations' = Append(pendingMutations, [owner |-> m, pre |-> lastConfirmed])
<1>1. ASSUME NEW m \in Mutation, MutationStep(m) PROVE Goal
  BY <1>1 DEF MutationStep, BeginMutation, MutationWrites, MutationSettles, RefreshRefs, RefreshRefsAbandoned, gate
<1>2. ASSUME NEW e \in Eval, EvalStep(e) PROVE Goal
  BY <1>2 DEF EvalStep, EvaluationDropped, EvaluationDecides, EvaluationFails, gate
<1>3. ASSUME NEW c \in Call, ReadState(c) \/ ReloadStep(c) PROVE Goal
  BY <1>3 DEF ReloadStep, ReadState, ShowRefs, StartReader, RefreshRefsAndRows, RefreshRefsAndRowsAbandoned,
              ConfirmingReadFails, CloseOldestGate, gate
<1>4. CASE ApplyStep
  BY <1>4 DEF ApplyStep, ApplyAnswered, ReadRowsInPlace, ApplyInPlace, ApplyFails, ApplyAbandoned, ApplyNotMade, gate
<1>5. CASE Next
  BY <1>1, <1>2, <1>3, <1>4, <1>5
     DEF Next, ExternalWrite, ExternalOperation, OnRefsChanged, SettleTimerFires, FetchSettles, Refresh,
         RefreshFails, ApplyFilter, FilterShown, ClearFilter, BecomeBusy, BecomeIdle, gate
<1> QED
  BY <1>5 DEF vars, gate

LEMMA BaselinesStep ==
  ASSUME Types, Types', Baselines, [Next]_vars, AtMost(lastConfirmed, lastConfirmed')
  PROVE  Baselines'
<1> DEFINE q == pendingMutations
           g(m) == [owner |-> m, pre |-> lastConfirmed]
<1>1. q \in Seq(Gate) /\ lastConfirmed \in Snapshot /\ lastConfirmed' \in Snapshot
  BY DEF Types, Plain
<1>2. \A i \in DOMAIN q : q[i].pre \in Snapshot /\ AtMost(q[i].pre, lastConfirmed')
  <2>1. \A i \in DOMAIN q : q[i].pre \in Snapshot /\ AtMost(q[i].pre, lastConfirmed)
    BY <1>1, TailFacts DEF Baselines, Gate
  <2> QED
    BY <1>1, <2>1, SnapshotsOrdered
<1>3. CASE q' = q
  BY <1>2, <1>3 DEF Baselines
<1>4. CASE q' = <<>>
  BY <1>4, TailFacts DEF Baselines
<1>5. CASE q # <<>> /\ q' = Tail(q)
  <2>1. \A i \in DOMAIN Tail(q) : Tail(q)[i] = q[i + 1] /\ i + 1 \in DOMAIN q
    BY <1>1, <1>5, TailFacts
  <2> QED
    BY <1>2, <1>5, <2>1 DEF Baselines
<1>6. ASSUME NEW m \in Mutation, q' = Append(q, g(m)) PROVE Baselines'
  <2>1. g(m) \in Gate /\ g(m).pre = lastConfirmed
    BY <1>1 DEF Gate
  <2>2. /\ DOMAIN Append(q, g(m)) = 1..(Len(q) + 1) /\ DOMAIN q = 1..Len(q) /\ Len(q) \in Nat
        /\ \A i \in 1..Len(q) : Append(q, g(m))[i] = q[i]
        /\ Append(q, g(m))[Len(q) + 1] = g(m)
    BY <1>1, <2>1, AppendProperties, TailFacts
  <2> HIDE DEF g
  <2>3. \A i \in DOMAIN Append(q, g(m)) : i \in DOMAIN q \/ i = Len(q) + 1
    BY <2>2
  <2>4. \A i \in DOMAIN Append(q, g(m)) : AtMost(Append(q, g(m))[i].pre, lastConfirmed')
    BY <1>2, <2>1, <2>2, <2>3
  <2> QED
    BY <1>6, <2>4 DEF Baselines
<1> QED
  BY <1>3, <1>4, <1>5, <1>6, GatesChange

(* A reload has shown what it read.                                        *)
LEMMA OnViewStep ==
  ASSUME Types, OnView, Shape, Regular'
  PROVE  OnView'
<1> SUFFICES ASSUME NEW c \in Call, Reloading(c)' PROVE call'[c].snap = shown'
  BY DEF OnView
<1>1. c # "filter" /\ ~Fresh(c) /\ (call'[c] = call[c] => Reloading(c))
  BY CallNames DEF Reloading, Fresh
<1>2. CASE Waits \/ Clears
  BY <1>1, <1>2 DEF Waits, Clears, view, OnView
<1>3. CASE Filters \/ AppliesOn
  <2>1. call'[c] = call[c]
    BY <1>1, <1>3 DEF Filters, AppliesOn, Goes, Reloading
  <2> QED
    BY <1>1, <1>3, <2>1 DEF Filters, AppliesOn, view, OnView
<1>4. ASSUME NEW d \in Call, Stops(d), shown' = shown PROVE call'[c].snap = shown'
  BY <1>1, <1>4 DEF Stops, Rest, OnView
<1>5. ASSUME NEW d \in Call, Stops(d), Overtaken(d) \subseteq gap' PROVE FALSE
  <2>1. Reloading(c) /\ c # d
    BY <1>1, <1>5 DEF Stops, Rest
  <2> QED
    BY <1>5, <2>1, Unchallenged
<1>6. ASSUME NEW d \in Call, Reads(d) \/ Starts(d) PROVE call'[c].snap = shown'
  BY <1>1, <1>6 DEF Reads, Starts, Goes, view, OnView, Reloading
<1>7. ASSUME NEW d \in Call, Shows(d) PROVE call'[c].snap = shown'
  <2>1. CASE c = d
    BY <1>7, <2>1 DEF Shows, Goes
  <2>2. CASE c # d
    BY <1>1, <1>7, <2>2, Unchallenged DEF Shows, Goes
  <2> QED
    BY <2>1, <2>2
<1>8. ASSUME NEW d \in Call, Ends(d) \/ ConfirmsRefs(d) \/ ConfirmsRows(d) PROVE call'[c].snap = shown'
  BY <1>4, <1>5, <1>8 DEF Ends, ConfirmsRefs, ConfirmsRows, Confirms, view
<1>9. CASE Lands
  BY <1>5, <1>9, CallNames DEF Lands, Confirms
<1>10. CASE FilterLands
  BY <1>4, <1>10, CallNames DEF FilterLands
<1> QED
  BY <1>2, <1>3, <1>6, <1>7, <1>8, <1>9, <1>10 DEF Shape

(* A call that has been passed over by a filter, and has something to say, *)
(* takes an exception when it ends.                                        *)
LEMMA PassedOver ==
  ASSUME Types, [Next]_vars, NEW c \in staleGeneration, c \notin staleGeneration', c \in Call,
         c \in Mutation \cup Eval \cup {"fetch"} \/ (c = "manual" /\ call[c].at = "walked")
  PROVE  "filter" \in gap'
<1>1. c # "filter" /\ c # "apply" /\ staleGeneration \subseteq InFlight(call)
  BY CallNames, Typed
<1>2. ASSUME NEW m \in Mutation, MutationStep(m) PROVE "filter" \in gap'
  BY <1>2 DEF MutationStep, BeginMutation, MutationWrites, MutationSettles, RefreshRefs, RefreshRefsAbandoned,
              Forget, flight
<1>3. ASSUME NEW e \in Eval, EvalStep(e) PROVE "filter" \in gap'
  BY <1>3 DEF EvalStep, EvaluationDropped, EvaluationDecides, EvaluationFails, Forget
<1>4. ASSUME NEW d \in Call, ReadState(d) \/ ReloadStep(d) PROVE "filter" \in gap'
  BY <1>4 DEF ReloadStep, ReadState, ShowRefs, StartReader, RefreshRefsAndRows, RefreshRefsAndRowsAbandoned,
              ConfirmingReadFails, Forget
<1>5. ASSUME ApplyStep PROVE FALSE
  BY <1>1, <1>5 DEF ApplyStep, ApplyAnswered, ReadRowsInPlace, ApplyInPlace, ApplyFails, ApplyAbandoned, ApplyNotMade,
                    Forget
<1>6. ASSUME RefreshFails PROVE FALSE
  BY <1>6, CallNames DEF RefreshFails, Forget
<1>7. ASSUME \/ ExternalWrite \/ ExternalOperation \/ OnRefsChanged \/ SettleTimerFires \/ FetchSettles \/ Refresh
             \/ ApplyFilter \/ FilterShown \/ ClearFilter \/ BecomeBusy \/ BecomeIdle \/ UNCHANGED vars
      PROVE  FALSE
  BY <1>1, <1>7 DEF ExternalWrite, ExternalOperation, OnRefsChanged, SettleTimerFires, FetchSettles, Refresh,
                    ApplyFilter, FilterShown, ClearFilter, BecomeBusy, BecomeIdle, vars, flight, Forget
<1> QED
  BY <1>2, <1>3, <1>4, <1>5, <1>6, <1>7 DEF Next

LEMMA WalkedStays ==
  ASSUME Shape, NEW c \in Call, call[c].at = "walked", c \in staleGeneration', c # "apply"
  PROVE  call'[c] = call[c]
<1>1. CASE Waits \/ Lands \/ FilterLands \/ Clears
  BY <1>1 DEF Waits, Lands, FilterLands, Clears, Confirms, Stops, Rest
<1>2. CASE AppliesOn \/ Filters
  BY <1>2 DEF AppliesOn, Filters, Goes
<1>3. ASSUME NEW d \in Call, Ends(d) \/ ConfirmsRefs(d) \/ ConfirmsRows(d) PROVE call'[c] = call[c]
  BY <1>3 DEF Ends, ConfirmsRefs, ConfirmsRows, Confirms, Stops, Rest
<1>4. ASSUME NEW d \in Call, Reads(d) \/ Shows(d) \/ Starts(d) PROVE call'[c] = call[c]
  BY <1>4 DEF Reads, Shows, Starts, Goes
<1> QED
  BY <1>1, <1>2, <1>3, <1>4 DEF Shape

LEMMA DoomedStays ==
  ASSUME Types, [Next]_vars, Shape, Doomed, Regular'
  PROVE  Doomed'
<1>1. PICK c \in staleGeneration : \/ c \in Mutation \cup Eval \cup {"fetch"}
                                   \/ c = "manual" /\ call[c].at = "walked"
  BY DEF Doomed
<1>2. c \in Call /\ c # "apply"
  BY <1>1, Typed, CallNames DEF InFlight
<1>3. c \in staleGeneration'
  BY <1>1, <1>2, PassedOver DEF Regular
<1>4. c = "manual" /\ call[c].at = "walked" => call'[c].at = "walked"
  BY <1>2, <1>3, WalkedStays
<1> QED
  BY <1>1, <1>3, <1>4 DEF Doomed

-----------------------------------------------------------------------------
(* The rows.                                                               *)
LEMMA OneDoomed ==
  ASSUME NEW c \in Reload \ {"apply"}, c \in staleGeneration, call[c].at = "walked"
  PROVE  Doomed
BY DEF Doomed, Reload

(* Nothing else loses rows the screen has, or is to have.                  *)
LEMMA RowsHaveStay ==
  ASSUME Types, Types', Kinds, Bounded, Forward, Shape, ~Doomed, ~Doomed', Regular',
         NEW x \in Nat, x <= world.ext, RowsHave(x)
  PROVE  RowsHave(x)'
<1>0. /\ rows \in Nat /\ baseline \in Int /\ NoRows \in Int /\ NoRows < 0 /\ world.ext \in Nat
      /\ rows' \in Nat /\ baseline' \in Int
      /\ \A c \in Call : call[c].rows \in Int
      /\ "filter" \in Call /\ Reload \subseteq Call
  <2>1. rows' \in Nat /\ baseline' \in Nat \cup {NoRows}
    BY DEF Types, Plain
  <2> QED
    BY <2>1, Typed, SnapshotsOrdered, CallNames
<1>1. /\ baseline = NoRows \/ baseline >= x
      /\ \/ rows >= x
         \/ baseline = NoRows /\ Current("filter") /\ "filter" \notin staleGeneration /\ call["filter"].rows >= x
         \/ \E c \in Reload \ {"apply"} : Current(c) /\ call[c].rows >= x
  BY DEF RowsHave
(* The calls that have walked, and the rows, are as they were.             *)
<1>2. ASSUME baseline' \in {baseline, NoRows}, rows' = rows, "filter" \in staleGeneration' => "filter" \in staleGeneration,
             \A c \in Reload \cup {"filter"} : c # "apply" /\ Current(c) => Current(c)' /\ call'[c] = call[c]
      PROVE  RowsHave(x)'
  BY <1>1, <1>2, CallNames DEF RowsHave
<1>3. CASE Waits
  BY <1>0, <1>2, <1>3 DEF Waits, Current, view
<1>4. CASE AppliesOn
  BY <1>0, <1>2, <1>4, CallNames DEF AppliesOn, Goes, Current, view
<1>5. ASSUME NEW c \in Call, Reads(c) \/ Shows(c) PROVE RowsHave(x)'
  BY <1>0, <1>2, <1>5 DEF Reads, Shows, Goes, Current, view
<1>6. ASSUME NEW c \in Call, Stops(c), staleRows' = staleRows \ {c}, UNCHANGED <<rows, baseline>>,
             c \in Reload \cup {"filter"} /\ c # "apply" => ~Current(c)
      PROVE  RowsHave(x)'
  BY <1>0, <1>2, <1>6 DEF Stops, Rest, Current
<1>7. ASSUME NEW c \in Call, Ends(c) PROVE RowsHave(x)'
  <2>1. c \in Reload \ {"apply"} => ~Current(c)
    BY <1>7 DEF Ends, Current, Reloading, Regular
  <2> QED
    BY <1>6, <1>7, <2>1 DEF Ends, view
<1>8. ASSUME NEW c \in Call, ConfirmsRefs(c) PROVE RowsHave(x)'
  BY <1>6, <1>8 DEF ConfirmsRefs, Confirms, Current
<1>9. ASSUME NEW c \in Call, ConfirmsRows(c) PROVE RowsHave(x)'
  <2>1. Stops(c) /\ staleRows' = staleRows \ {c} /\ baseline' = baseline /\ call[c].at = "walked" /\ c \in Reload \ {"apply"}
        /\ rows' = (IF c \in staleRows THEN rows ELSE call[c].rows)
    BY <1>9 DEF ConfirmsRows, Confirms
  <2>2. CASE c \in staleRows
    BY <1>6, <2>1, <2>2 DEF Current
  <2>3. CASE c \notin staleRows
    <3>1. Current(c) /\ rows' = call[c].rows /\ call[c].rows >= rows
      BY <2>1, <2>3 DEF Current, Forward, RowsForward
    <3>2. \A d \in Reload \cup {"filter"} : d # "apply" /\ Current(d) => d = c
      BY <1>0, <2>1, <3>1 DEF Forward, OneReader
    <3>3. rows' >= x
      BY <1>0, <1>1, <2>1, <3>1, <3>2, CallNames
    <3> QED
      BY <1>1, <2>1, <3>3 DEF RowsHave
  <2> QED
    BY <2>2, <2>3
<1>10. CASE Lands
  <2>1. Current("apply") /\ rows' = call["apply"].rows /\ baseline' = NoRows /\ "apply" \in Call
    BY <1>10, CallNames DEF Lands, Current
  <2>2. call["apply"].rows >= rows /\ \A c \in Call \ {"apply"} : Current(c) => call["apply"].rows >= call[c].rows
    BY <2>1 DEF Forward, RowsForward, OneReader
  <2>3. rows' >= x
    BY <1>0, <1>1, <2>1, <2>2, CallNames
  <2> QED
    BY <2>1, <2>3 DEF RowsHave
<1>11. ASSUME NEW c \in Call, Starts(c) PROVE RowsHave(x)'
  <2>1. /\ call'[c].at = "walked" /\ call'[c].rows = world.ext /\ c \notin staleRows' /\ c # "apply"
        /\ UNCHANGED <<rows, baseline, staleGeneration>> /\ c \notin staleGeneration
    BY <1>11 DEF Starts, Goes, view
  <2>2. Current(c)' /\ call'[c].rows >= x
    BY <1>0, <2>1 DEF Current
  <2>3. CASE c \in Reload
    BY <1>1, <2>1, <2>2, <2>3 DEF RowsHave
  <2>4. CASE c = "filter"
    <3>1. CASE baseline = NoRows
      BY <2>1, <2>2, <2>4, <3>1 DEF RowsHave
    <3>2. CASE baseline # NoRows
      <4>1. ASSUME NEW d \in Reload \ {"apply"}, Current(d) PROVE FALSE
        <5>1. d \in staleGeneration /\ call[d].at = "walked"
          BY <1>0, <3>2, <4>1 DEF Forward, Unfiltered, Reloading, Current
        <5> QED
          BY <5>1, OneDoomed
      <4>2. rows >= x
        BY <1>1, <3>2, <4>1
      <4> QED
        BY <1>1, <2>1, <4>2 DEF RowsHave
    <3> QED
      BY <3>1, <3>2
  <2> QED
    BY <1>11, <2>1, <2>3, <2>4 DEF Starts, Kinds
<1>12. CASE Filters
  <2>1. /\ staleGeneration' = InFlight(call) /\ baseline' \in {baseline, rows} /\ rows' = rows
        /\ call["filter"].at = "idle" /\ \A c \in Call \ {"filter"} : call'[c] = call[c]
    BY <1>12 DEF Filters, Goes
  <2>2. ASSUME NEW c \in Reload \ {"apply"}, Current(c) PROVE FALSE
    <3>1. c \in staleGeneration' /\ call'[c].at = "walked"
      BY <1>0, <2>1, <2>2, CallNames DEF Current, InFlight
    <3> QED
      BY <3>1 DEF Doomed, Reload
  <2>3. rows >= x
    BY <1>1, <2>1, <2>2 DEF Current
  <2> QED
    BY <1>1, <2>1, <2>3 DEF RowsHave
<1>13. CASE FilterLands
  <2>1. Stops("filter") /\ staleRows' = staleRows \ {"filter"} /\ baseline' = baseline
    BY <1>13 DEF FilterLands
  <2>2. \A c \in Reload \ {"apply"} : Current(c) => Current(c)' /\ call'[c] = call[c]
    BY <1>0, <2>1, CallNames DEF Stops, Rest, Current
  <2>3. CASE rows' = rows /\ ~("filter" \notin staleGeneration /\ Current("filter"))
    BY <1>1, <2>1, <2>2, <2>3 DEF RowsHave
  <2>4. CASE rows' = call["filter"].rows /\ Current("filter")
    <3>1. call["filter"].rows >= rows
      BY <1>0, <2>4 DEF Forward, RowsForward
    <3>2. rows >= x => rows' >= x
      BY <1>0, <2>4, <3>1
    <3> QED
      BY <1>1, <2>1, <2>2, <2>4, <3>2 DEF RowsHave
  <2> QED
    BY <1>13, <2>3, <2>4 DEF FilterLands
<1>14. CASE Clears
  BY <1>0, <1>1, <1>14 DEF Clears, RowsHave
<1> QED
  BY <1>3, <1>4, <1>5, <1>7, <1>8, <1>9, <1>10, <1>11, <1>12, <1>13, <1>14 DEF Shape

LEMMA RowsLandStep ==
  ASSUME Types, Types', Kinds, Bounded, Forward, Shape, ~Doomed, ~Doomed', Regular', RowsLand
  PROVE  RowsLand'
<1> SUFFICES ASSUME NEW c \in Reload \ {"apply"}, call'[c].at = "walked" PROVE RowsHave(call[c].snap.ext)'
  BY DEF RowsLand
<1>1. c \in Call /\ call[c].snap \in Snapshot /\ call[c].snap.ext \in Nat /\ call[c].snap.ext <= world.ext
      /\ ~Fresh(c) /\ c # "filter" /\ c # "apply"
  BY Typed, SnapshotsOrdered, CallNames DEF Bounded, AtMost, Fresh
<1>2. CASE call'[c] = call[c]
  <2>1. PICK x \in Nat : x = call[c].snap.ext
    BY <1>1
  <2>2. RowsHave(x)
    BY <1>2, <2>1 DEF RowsLand
  <2>3. RowsHave(x)'
    BY <1>1, <2>1, <2>2, RowsHaveStay
  <2> QED
    BY <1>2, <2>1, <2>3 DEF RowsHave, Current
<1>3. CASE call'[c] # call[c]
  <2>1. Starts(c)
    <3>1. ASSUME NEW d \in Call, Stops(d) PROVE FALSE
      BY <1>1, <1>3, <3>1 DEF Stops, Rest
    <3>2. ~(Waits \/ Lands \/ AppliesOn \/ Filters \/ FilterLands \/ Clears)
      BY <1>1, <1>3, <3>1, CallNames DEF Waits, Lands, AppliesOn, Filters, FilterLands, Clears, Confirms, Goes
    <3>3. ASSUME NEW d \in Call, Reads(d) \/ Ends(d) \/ ConfirmsRefs(d) \/ ConfirmsRows(d) \/ Shows(d) PROVE FALSE
      BY <1>1, <1>3, <3>1, <3>3 DEF Reads, Ends, ConfirmsRefs, ConfirmsRows, Shows, Confirms, Goes
    <3>4. PICK d \in Call : Starts(d)
      BY <3>2, <3>3 DEF Shape
    <3> QED
      BY <1>1, <1>3, <3>4 DEF Starts, Goes
  <2>2. /\ baseline' = NoRows /\ call'[c].snap = call[c].snap /\ call'[c].rows = world.ext /\ c \notin staleRows'
    BY <1>1, <2>1 DEF Starts, Goes, view, Forward, Unfiltered, Reloading
  <2>3. Current(c)' /\ call'[c].rows >= call'[c].snap.ext
    BY <1>1, <2>2, Typed, SnapshotsOrdered DEF Current
  <2> QED
    BY <2>2, <2>3 DEF RowsHave
<1> QED
  BY <1>2, <1>3

(* A call that has shown what it read stops short of its rows.             *)
LEMMA StoppedShort ==
  ASSUME Types, ReadsForward, OnView, Regular', NEW c \in Call, Ends(c), Reloading(c)
  PROVE  AtMost(lastConfirmed, shown) /\ shown.op = lastConfirmed.op
<1>1. call[c].at = "walking" /\ Overtaken(c) \subseteq gap' /\ LeftShown(c) \subseteq gap'
  BY DEF Ends, Regular
<1>2. shown.op = lastConfirmed.op
  BY <1>1 DEF LeftShown, Regular
<1>3. c \notin staleConfirmed
  BY <1>1, Unchallenged
<1>4. call[c].snap = shown /\ c # "filter"
  BY CallNames DEF OnView, Reloading
<1> QED
  BY <1>1, <1>2, <1>3, <1>4 DEF ReadsForward, HasRead


(* What has been confirmed stays on screen, or on its way there.           *)
LEMMA PaintedStay ==
  ASSUME Types, Types', Kinds, Bounded, Forward, OnView, Shape, ~Doomed, ~Doomed', Regular', Painted,
         lastConfirmed'.ext = lastConfirmed.ext, lastConfirmed' = lastConfirmed \/ lastConfirmed' = shown'
  PROVE  Painted'
<1>1. RowsHave(lastConfirmed.ext)'
  <2>1. PICK x \in Nat : x = lastConfirmed.ext /\ x <= world.ext
    BY Typed, SnapshotsOrdered DEF Bounded, AtMost
  <2>2. RowsHave(x)
    BY <2>1 DEF Painted
  <2>3. RowsHave(x)'
    BY <2>1, <2>2, RowsHaveStay
  <2> QED
    BY <2>1, <2>3 DEF RowsHave, Current
<1> DEFINE Seen == AtMost(lastConfirmed, shown) /\ shown.op = lastConfirmed.op
           Goal == Seen' \/ \E c \in Call : Reloading(c)'
<1>2. lastConfirmed' = shown' => Seen'
  BY Typed, SnapshotsOrdered DEF Types, Plain
<1>3. Seen \/ \E c \in Call : Reloading(c)
  BY DEF Painted
<1>4. ASSUME lastConfirmed' = lastConfirmed, shown' = shown, \A c \in Call : Reloading(c) => Reloading(c)'
      PROVE  Goal
  BY <1>3, <1>4
<1>5. ASSUME lastConfirmed' = lastConfirmed PROVE Goal
  <2>1. ASSUME Waits \/ Clears \/ AppliesOn \/ Filters \/ FilterLands PROVE Goal
    <3>1. shown' = shown
      BY <2>1 DEF Waits, Clears, AppliesOn, Filters, FilterLands, view
    <3>2. \A c \in Call : Reloading(c) => call'[c] = call[c]
      BY <2>1, CallNames DEF Waits, Clears, AppliesOn, Filters, FilterLands, Stops, Rest, Goes, Reloading
    <3>3. \A c \in Call : Reloading(c) => Reloading(c)'
      BY <3>2 DEF Reloading
    <3> QED
      BY <1>4, <1>5, <3>1, <3>3
  <2>2. ASSUME NEW d \in Call, Reads(d) \/ Starts(d) PROVE Goal
    <3>1. shown' = shown /\ \A c \in Call : Reloading(c) => call'[c].at \in {"walking", "walked"}
      BY <2>2 DEF Reads, Starts, Goes, Reloading, view
    <3> QED
      BY <1>4, <1>5, <3>1 DEF Reloading
  <2>3. ASSUME NEW d \in Call, Shows(d) PROVE Goal
    BY <2>3 DEF Shows, Goes, Reloading
  <2>4. ASSUME NEW d \in Call, Ends(d) PROVE Goal
    <3>1. shown' = shown /\ \A c \in Call : Reloading(c) /\ c # d => Reloading(c)'
      BY <2>4 DEF Ends, Stops, Rest, Reloading, view
    <3>2. CASE Reloading(d)
      BY <1>5, <2>4, <3>1, <3>2, StoppedShort DEF Forward
    <3> QED
      BY <1>4, <1>5, <3>1, <3>2
  <2>5. ASSUME NEW d \in Call, ConfirmsRefs(d) PROVE Goal
    <3>1. CASE shown' = shown
      <4>1. \A c \in Call : Reloading(c) => call'[c] = call[c]
        BY <2>5 DEF ConfirmsRefs, Confirms, Stops, Rest, Reloading
      <4> QED
        BY <1>4, <1>5, <3>1, <4>1 DEF Reloading
    <3>2. CASE shown' # shown
      BY <1>2, <2>5, <3>2 DEF ConfirmsRefs, Confirms
    <3> QED
      BY <3>1, <3>2
  <2>6. ASSUME NEW d \in Call, ConfirmsRows(d) PROVE Goal
    <3>1. lastConfirmed' = call[d].snap /\ call[d].snap = shown /\ shown' = shown
      BY <2>6 DEF ConfirmsRows, Confirms, OnView, Reloading
    <3> QED
      BY <1>2, <3>1
  <2>7. ASSUME Lands PROVE Goal
    <3>1. lastConfirmed' = shown'
      BY <2>7 DEF Lands, Confirms
    <3> QED
      BY <1>2, <3>1
  <2> HIDE DEF Goal, Seen
  <2> QED
    BY <2>1, <2>2, <2>3, <2>4, <2>5, <2>6, <2>7 DEF Shape
<1>6. Goal
  <2>1. CASE lastConfirmed' = shown'
    BY <1>2, <2>1
  <2> QED
    BY <1>5, <2>1
<1> QED
  BY <1>1, <1>6 DEF Painted

(* Rows that were reloaded are on screen, with what was read before them.  *)
LEMMA RowsPaint ==
  ASSUME Types, Types', Kinds, Bounded, Forward, OnView, RowsLand, Shape, ~Doomed, ~Doomed', Regular',
         NEW c \in Call, ConfirmsRows(c) \/ (c = "apply" /\ Lands)
  PROVE  Painted'
<1>1. lastConfirmed' = call[c].snap /\ call[c].snap \in Snapshot
  BY Typed DEF ConfirmsRows, Lands, Confirms
<1>2. shown' = lastConfirmed'
  BY <1>1 DEF ConfirmsRows, Lands, Confirms, OnView, Reloading
<1>3. RowsHave(lastConfirmed.ext)'
  <2>1. PICK x \in Nat : x = call[c].snap.ext /\ x <= world.ext
    BY <1>1, SnapshotsOrdered DEF Bounded, AtMost
  <2>2. CASE ConfirmsRows(c)
    <3>1. RowsHave(x)
      BY <2>1, <2>2 DEF ConfirmsRows, RowsLand
    <3>2. RowsHave(x)'
      BY <2>1, <3>1, RowsHaveStay
    <3> QED
      BY <1>1, <2>1, <3>2 DEF RowsHave, Current
  <2>3. CASE c = "apply" /\ Lands
    <3>1. rows' = call["apply"].rows /\ call["apply"].rows >= call["apply"].snap.ext /\ baseline' = NoRows
      BY <2>3, CallNames DEF Lands, Bounded
    <3> QED
      BY <1>1, <2>3, <3>1 DEF RowsHave
  <2> QED
    BY <2>2, <2>3
<1>4. AtMost(lastConfirmed, shown)' /\ shown'.op = lastConfirmed'.op
  BY <1>1, <1>2, SnapshotsOrdered
<1> QED
  BY <1>3, <1>4 DEF Painted

-----------------------------------------------------------------------------
(* The notices.  The user is told: a notice is up, or the change is about  *)
(* to be applied.                                                          *)
Told == Notice \/ call["apply"].at = "asked"

LEMMA FlushTells ==
  ASSUME NEW quiet, NEW pending \in BOOLEAN, NEW banner \in BOOLEAN, NEW gates, NEW alert \in BOOLEAN,
         NEW cs, Calls(cs), NEW op \in BOOLEAN, FlushIf(quiet, pending, banner, gates, alert, cs, op),
         pending \/ banner
  PROVE  Told'
<1>1. CASE pendingExternal' = pending /\ hasExternalChanges' = banner
  BY <1>1 DEF Told, Notice
<1>2. CASE call' = Started(cs, op)
  <2>1. "apply" \in Call /\ [Asked("rows") EXCEPT !.before = op].at = "asked"
        /\ [Asked("rows") EXCEPT !.before = op] \in CallState
    BY CallNames, IdleFacts
  <2>2. call'["apply"] = [Asked("rows") EXCEPT !.before = op]
    BY <1>2, <2>1 DEF Started, Calls
  <2> QED
    BY <2>1, <2>2 DEF Told
<1> QED
  BY <1>1, <1>2 DEF FlushIf, Started

LEMMA AfterTells ==
  ASSUME Types, NEW moved \in BOOLEAN, NEW confirmed \in Snapshot, AfterApply(moved, confirmed)
  PROVE  /\ Notice => Told'
         /\ ~moved => Notice'
<1>1. /\ "apply" \in Call /\ Calls(Ended("apply")) /\ confirmed.op \in BOOLEAN
      /\ pendingExternal \in BOOLEAN /\ hasExternalChanges \in BOOLEAN /\ operationStateAlert \in BOOLEAN
  BY CallNames, EndFacts DEF Types, Flight, Plain, Snapshot
<1>2. CASE hasExternalChanges' = TRUE \/ operationStateAlert' = TRUE
  BY <1>2 DEF Told, Notice
<1>3. CASE /\ moved /\ operationStateAlert' = operationStateAlert
           /\ FlushIf(idle, pendingExternal, hasExternalChanges, pendingMutations, operationStateAlert,
                      Ended("apply"), confirmed.op)
  <2>1. pendingExternal \/ hasExternalChanges => Told'
    BY <1>1, <1>3, FlushTells
  <2>2. operationStateAlert => Told'
    BY <1>3 DEF Told, Notice
  <2> QED
    BY <1>3, <2>1, <2>2 DEF Notice
<1> QED
  BY <1>2, <1>3 DEF AfterApply, Flush

(* What goes on behind the end of the call c.                              *)
LEMMA BehindTells ==
  ASSUME Types, NEW c \in Call, NEW gates, NEW op \in BOOLEAN, operationStateAlert' = operationStateAlert
  PROVE  /\ Flush(pendingExternal, hasExternalChanges, gates, operationStateAlert, Ended(c), op)
              => (Notice => Told')
         /\ RequestExternalApply(gates, operationStateAlert, Ended(c), op) => Told'
<1>1. /\ Calls(Ended(c)) /\ pendingExternal \in BOOLEAN /\ hasExternalChanges \in BOOLEAN
      /\ operationStateAlert \in BOOLEAN
  BY EndFacts DEF Types, Flight, Plain
<1>2. operationStateAlert => Told'
  BY DEF Told, Notice
<1>3. ASSUME Flush(pendingExternal, hasExternalChanges, gates, operationStateAlert, Ended(c), op), Notice
      PROVE  Told'
  <2>1. pendingExternal \/ hasExternalChanges => Told'
    BY <1>1, <1>3, FlushTells DEF Flush
  <2> QED
    BY <1>2, <1>3, <2>1 DEF Notice
<1>4. ASSUME RequestExternalApply(gates, operationStateAlert, Ended(c), op) PROVE Told'
  BY <1>1, <1>4, FlushTells DEF RequestExternalApply, Flush
<1> QED
  BY <1>3, <1>4

(* A failed Refresh puts the notices back.                                 *)
LEMMA FailureTells ==
  ASSUME Types, RefreshFails, Notice \/ PutBack
  PROVE  Told'
<1>1. /\ "manual" \in Call /\ Calls(Ended("manual")) /\ pendingExternal \in BOOLEAN /\ hasExternalChanges \in BOOLEAN
      /\ operationStateAlert \in BOOLEAN /\ lastConfirmed.op \in BOOLEAN
      /\ prior.banner \in BOOLEAN /\ prior.pending \in BOOLEAN /\ prior.alert \in BOOLEAN
  BY CallNames, EndFacts DEF Types, Flight, Plain, Snapshot
<1>2. /\ operationStateAlert' = (operationStateAlert \/ prior.alert)
      /\ FlushIf(idle, pendingExternal \/ prior.pending, hasExternalChanges \/ prior.banner, pendingMutations,
                 operationStateAlert, Ended("manual"), lastConfirmed.op)
  BY DEF RefreshFails, PriorNotices, Flush
<1>3. (pendingExternal \/ prior.pending) \/ (hasExternalChanges \/ prior.banner) => Told'
  <2> DEFINE p == pendingExternal \/ prior.pending
             b == hasExternalChanges \/ prior.banner
  <2>1. p \in BOOLEAN /\ b \in BOOLEAN
    OBVIOUS
  <2>2. FlushIf(idle, p, b, pendingMutations, operationStateAlert, Ended("manual"), lastConfirmed.op)
    BY <1>2
  <2> HIDE DEF p, b
  <2>3. p \/ b => Told'
    BY <1>1, <2>1, <2>2, FlushTells
  <2> QED
    BY <2>3 DEF p, b
<1>4. operationStateAlert' => Told'
  BY DEF Told, Notice
<1> QED
  BY <1>2, <1>3, <1>4 DEF Notice, PutBack

LEMMA ApplyTells ==
  ASSUME Types, ApplyStep
  PROVE  /\ Notice => Told'
         /\ ApplyFails \/ ApplyAbandoned => Notice' \/ "counter" \in gap'
<1>1. lastConfirmed \in Snapshot /\ call["apply"].snap \in Snapshot /\ "apply" \in Call
  BY Typed, CallNames
<1>2. ASSUME ApplyAnswered \/ ReadRowsInPlace, Notice PROVE Told'
  BY <1>2 DEF ApplyAnswered, ReadRowsInPlace, notice, Told, Notice
<1>3. ASSUME ApplyInPlace, Notice PROVE Told'
  BY <1>1, <1>3, AfterTells DEF ApplyInPlace
<1>4. ASSUME ApplyNotMade PROVE (Notice => Told') /\ (Notice' \/ "counter" \in gap')
  <2>1. ("apply" \in staleConfirmed) \in BOOLEAN /\ AfterApply("apply" \in staleConfirmed, lastConfirmed)
    BY <1>4 DEF ApplyNotMade
  <2>2. (Notice => Told') /\ ("apply" \notin staleConfirmed => Notice')
    BY <1>1, <2>1, AfterTells
  <2> QED
    BY <1>4, <2>2 DEF ApplyNotMade
<1> QED
  BY <1>2, <1>3, <1>4 DEF ApplyStep, ApplyFails, ApplyAbandoned

LEMMA NoticeStays ==
  ASSUME Types, [Next]_vars, ~Refresh, Notice
  PROVE  Told'
<1>1. /\ lastConfirmed \in Snapshot /\ lastConfirmed.op \in BOOLEAN
      /\ \A c \in Call : call[c].snap.op \in BOOLEAN
  BY Typed DEF Snapshot
<1>2. UNCHANGED notice => Told'
  BY DEF Told, Notice, notice
<1>3. ASSUME NEW m \in Mutation, MutationStep(m) PROVE Told'
  <2>1. m \in Call
    BY CallNames
  <2>2. CASE RefreshRefs(m)
    <3> DEFINE gates == IF pendingMutations = <<>> THEN <<>> ELSE Tail(pendingMutations)
    <3>1. \/ RequestExternalApply(gates, operationStateAlert, Ended(m), lastConfirmed.op)
          \/ Flush(pendingExternal, hasExternalChanges, gates, operationStateAlert, Ended(m), call[m].snap.op)
      BY <2>2 DEF RefreshRefs
    <3>2. operationStateAlert' = operationStateAlert
      BY <2>2 DEF RefreshRefs
    <3> HIDE DEF gates
    <3> QED
      BY <1>1, <2>1, <3>1, <3>2, BehindTells
  <2> QED
    BY <1>2, <1>3, <2>2
       DEF MutationStep, BeginMutation, MutationWrites, MutationSettles, RefreshRefsAbandoned, notice
<1>4. ASSUME NEW e \in Eval, EvalStep(e) PROVE Told'
  <2>1. e \in Call
    BY CallNames
  <2>2. CASE EvaluationDecides(e)
    <3>1. \/ operationStateAlert' = TRUE
          \/ UNCHANGED notice
          \/ /\ operationStateAlert' = operationStateAlert
             /\ RequestExternalApply(<<>>, operationStateAlert, Ended(e), call[e].snap.op)
      BY <2>2 DEF EvaluationDecides, notice
    <3> QED
      BY <1>1, <1>2, <2>1, <3>1, BehindTells DEF Told, Notice
  <2>3. CASE EvaluationDropped(e)
    BY <1>2, <2>3 DEF EvaluationDropped
  <2>4. CASE EvaluationFails(e)
    BY <2>4 DEF EvaluationFails, Told, Notice
  <2> QED
    BY <1>4, <2>2, <2>3, <2>4 DEF EvalStep
<1>5. ASSUME NEW c \in Call, ReadState(c) \/ ReloadStep(c) PROVE Told'
  <2>1. CASE RefreshRefsAndRows(c)
    <3>1. PICK gates : Flush(pendingExternal, hasExternalChanges, gates, operationStateAlert, Ended(c), call[c].snap.op)
      BY <2>1 DEF RefreshRefsAndRows
    <3> QED
      BY <1>1, <2>1, <3>1, BehindTells DEF RefreshRefsAndRows
  <2>2. CASE RefreshRefsAndRowsAbandoned(c)
    BY <1>1, <2>2, BehindTells DEF RefreshRefsAndRowsAbandoned
  <2>3. CASE ConfirmingReadFails(c)
    BY <2>3 DEF ConfirmingReadFails, CloseOldestGate, Told, Notice
  <2> QED
    BY <1>2, <1>5, <2>1, <2>2, <2>3 DEF ReloadStep, ReadState, ShowRefs, StartReader
<1>6. CASE ApplyStep
  BY <1>6, ApplyTells
<1>7. CASE RefreshFails
  BY <1>7, FailureTells
<1>8. CASE BecomeIdle
  <2>1. operationStateAlert' = operationStateAlert
    BY <1>8 DEF BecomeIdle
  <2>2. PICK quiet : FlushIf(quiet, pendingExternal, hasExternalChanges, pendingMutations, operationStateAlert,
                             call, lastConfirmed.op)
    BY <1>8 DEF BecomeIdle, IdleSubscribers
  <2>3. Calls(call) /\ pendingExternal \in BOOLEAN /\ hasExternalChanges \in BOOLEAN /\ operationStateAlert \in BOOLEAN
    BY DEF Types, Flight, Plain
  <2>4. ASSUME pendingExternal \/ hasExternalChanges PROVE Told'
    <3>1. lastConfirmed.op \in BOOLEAN
      BY <1>1
    <3> QED
      BY <2>2, <2>3, <2>4, <3>1, FlushTells
  <2> QED
    BY <2>1, <2>4 DEF Told, Notice
<1>9. CASE \/ ExternalWrite \/ ExternalOperation \/ OnRefsChanged \/ SettleTimerFires \/ FetchSettles
           \/ ApplyFilter \/ FilterShown \/ ClearFilter \/ BecomeBusy \/ UNCHANGED vars
  BY <1>2, <1>9 DEF ExternalWrite, ExternalOperation, OnRefsChanged, SettleTimerFires, FetchSettles, ApplyFilter,
                    FilterShown, ClearFilter, BecomeBusy, vars
<1> QED
  BY <1>3, <1>4, <1>5, <1>6, <1>7, <1>8, <1>9 DEF Next

-----------------------------------------------------------------------------
(* Who moves a call.                                                       *)
LEMMA CallMoves ==
  ASSUME Types, [Next]_vars, NEW c \in Call, c # "apply", call'[c] # call[c]
  PROVE  \/ Ending(c)
         \/ /\ Moving(c) /\ call'[c].at # "idle" /\ \A d \in Call \ {c} : call'[d] = call[d]
         \/ c \in Mutation /\ MutationSettles(c)
<1>1. \A d \in Call : Ending(d) => d = c
  BY EndingFacts
<1>2. \A d \in Call : Moving(d) /\ (\A x \in Call \ {d} : call'[x] = call[x]) => d = c /\ call'[c].at # "idle"
  <2> SUFFICES ASSUME NEW d \in Call, Moving(d), \A x \in Call \ {d} : call'[x] = call[x]
               PROVE  d = c /\ call'[c].at # "idle"
    OBVIOUS
  <2>1. d = c
    OBVIOUS
  <2> QED
    BY <2>1, MovingFacts
<1>3. call \in [Call -> CallState]
  BY DEF Types, Flight, Calls
<1> DEFINE Goal ==
      \/ Ending(c)
      \/ /\ Moving(c) /\ call'[c].at # "idle" /\ \A d \in Call \ {c} : call'[d] = call[d]
      \/ c \in Mutation /\ MutationSettles(c)
<1>4. ASSUME NEW d \in Call, Ending(d) PROVE Goal
  BY <1>1, <1>4
<1>5. ASSUME NEW d \in Call, Moving(d), \A x \in Call \ {d} : call'[x] = call[x] PROVE Goal
  BY <1>2, <1>5
<1>6. ASSUME NEW m \in Mutation, MutationStep(m) PROVE Goal
  <2>1. m \in Call
    BY CallNames
  <2>2. CASE BeginMutation(m) \/ MutationWrites(m)
    BY <2>2 DEF BeginMutation, MutationWrites, flight
  <2>3. CASE MutationSettles(m)
    BY <1>3, <2>1, <2>3 DEF MutationSettles
  <2> QED
    BY <1>4, <1>6, <2>1, <2>2, <2>3 DEF MutationStep, Ending
<1>7. ASSUME NEW e \in Eval, EvalStep(e) PROVE Goal
  <2>1. e \in Call
    BY CallNames
  <2> QED
    BY <1>4, <1>7, <2>1 DEF Ending
<1>8. ASSUME NEW d \in Call, ReadState(d) \/ ReloadStep(d) PROVE Goal
  <2>1. CASE ReadState(d) \/ ShowRefs(d) \/ StartReader(d)
    <3>1. \A x \in Call \ {d} : call'[x] = call[x]
      BY <1>3, <2>1 DEF ReadState, ShowRefs, StartReader
    <3> QED
      BY <1>5, <2>1, <3>1 DEF Moving
  <2> QED
    BY <1>4, <1>8, <2>1 DEF ReloadStep, Ending
<1>9. CASE OnRefsChanged \/ SettleTimerFires
  <2>1. \/ call' = call
        \/ \E e \in Eval : call' = [call EXCEPT ![e] = Asked("eval")]
    BY <1>9 DEF OnRefsChanged, SettleTimerFires
  <2>2. PICK e \in Eval : call' = [call EXCEPT ![e] = Asked("eval")]
    BY <2>1
  <2>3. e \in Call /\ \A x \in Call \ {e} : call'[x] = call[x]
    BY <1>3, <2>2, CallNames
  <2> QED
    BY <1>5, <1>9, <2>3 DEF Moving
<1>10. CASE FetchSettles \/ Refresh \/ ApplyFilter
  <2>1. /\ {"fetch", "manual", "filter"} \subseteq Call
        /\ FetchSettles => \A x \in Call \ {"fetch"} : call'[x] = call[x]
        /\ Refresh => \A x \in Call \ {"manual"} : call'[x] = call[x]
        /\ ApplyFilter => \A x \in Call \ {"filter"} : call'[x] = call[x]
    BY <1>3, CallNames DEF FetchSettles, Refresh, ApplyFilter
  <2> QED
    BY <1>5, <1>10, <2>1 DEF Moving
<1>11. CASE RefreshFails \/ FilterShown
  BY <1>4, <1>11, CallNames DEF Ending
<1>12. CASE ApplyStep
  <2>1. CASE ApplyAnswered \/ ReadRowsInPlace
    BY <1>3, <2>1 DEF ApplyAnswered, ReadRowsInPlace
  <2>2. CASE ApplyInPlace \/ ApplyFails \/ ApplyAbandoned
    BY <2>2, ApplyAfter, AfterFacts
  <2> QED
    BY <1>12, <2>1, <2>2 DEF ApplyStep
<1>13. CASE BecomeIdle
  BY <1>13, IdleFlushes
<1>14. CASE ExternalWrite \/ ExternalOperation \/ ClearFilter \/ BecomeBusy \/ UNCHANGED vars
  BY <1>14 DEF ExternalWrite, ExternalOperation, ClearFilter, BecomeBusy, vars, flight
<1> QED
  BY <1>6, <1>7, <1>8, <1>9, <1>10, <1>11, <1>12, <1>13, <1>14 DEF Next

(* Who records what it has read.                                           *)
LEMMA Confirmers ==
  ASSUME Types, Kinds, [Next]_vars, lastConfirmed' # lastConfirmed
  PROVE  \/ \E e \in Eval : EvaluationDecides(e)
         \/ \E m \in Mutation : RefreshRefs(m)
         \/ \E c \in Call : ConfirmsRows(c) \/ (c = "apply" /\ Lands)
<1>1. ASSUME NEW m \in Mutation, MutationStep(m) PROVE RefreshRefs(m)
  BY <1>1 DEF MutationStep, BeginMutation, MutationWrites, MutationSettles, RefreshRefsAbandoned, view
<1>2. ASSUME NEW e \in Eval, EvalStep(e) PROVE EvaluationDecides(e)
  BY <1>2 DEF EvalStep, EvaluationDropped, EvaluationFails, view
<1>3. ASSUME NEW c \in Call, ReadState(c) \/ ReloadStep(c) PROVE ConfirmsRows(c)
  BY <1>3, ReloadShapes DEF Reads, Shows, Starts, Ends, view
<1>4. ASSUME ApplyStep PROVE "apply" \in Call /\ Lands
  BY <1>4, ApplyShapes, CallNames DEF AppliesOn, Ends, view
<1>5. ASSUME \/ ExternalWrite \/ ExternalOperation \/ OnRefsChanged \/ SettleTimerFires \/ FetchSettles
             \/ Refresh \/ RefreshFails \/ ApplyFilter \/ FilterShown \/ ClearFilter
             \/ BecomeBusy \/ BecomeIdle \/ UNCHANGED vars
      PROVE  FALSE
  BY <1>5 DEF ExternalWrite, ExternalOperation, OnRefsChanged, SettleTimerFires, FetchSettles, Refresh, RefreshFails,
              ApplyFilter, FilterShown, ClearFilter, BecomeBusy, BecomeIdle, vars, view
<1> QED
  BY <1>1, <1>2, <1>3, <1>4, <1>5 DEF Next

-----------------------------------------------------------------------------
(* What has been confirmed is on screen, or somebody sees to it.           *)

(* An evaluation that finds nothing new leaves what is confirmed.          *)
LEMMA DecidesTells ==
  ASSUME Types, NEW e \in Eval, EvaluationDecides(e)
  PROVE  Told' \/ lastConfirmed' = lastConfirmed
<1>1. e \in Call /\ call[e].snap \in Snapshot /\ call[e].snap.op \in BOOLEAN /\ lastConfirmed \in Snapshot
  BY Typed, CallNames DEF Snapshot
<1>2. CASE call[e].snap.op # lastConfirmed.op
  BY <1>2 DEF EvaluationDecides, Told, Notice
<1>3. CASE /\ call[e].snap.op = lastConfirmed.op
           /\ HasUnexpectedRefChange(lastConfirmed, call[e].snap, lastConfirmed.own)
  BY <1>1, <1>3, BehindTells DEF EvaluationDecides
<1>4. CASE /\ call[e].snap.op = lastConfirmed.op
           /\ ~HasUnexpectedRefChange(lastConfirmed, call[e].snap, lastConfirmed.own)
  BY <1>1, <1>4 DEF EvaluationDecides, HasUnexpectedRefChange, Snapshot
<1> QED
  BY <1>2, <1>3, <1>4

(* There is a gate for the mutation whose confirming read this is.         *)
LEMMA GateIsOpen ==
  ASSUME Types, Gates, NEW m \in Busy, {"filter", "fetch"} \cap gap = {}
  PROVE  pendingMutations # <<>>
<1>1. IsFiniteSet(Busy) /\ Len(pendingMutations) = Cardinality(Busy)
  BY DEF Gates
<1>2. Cardinality(Busy) # 0
  BY <1>1, FS_EmptySet
<1> QED
  BY <1>1, <1>2

(* A confirming read that finds nothing of others leaves what they wrote   *)
(* as it was confirmed.                                                    *)
LEMMA RefsTell ==
  ASSUME Types, Gates, ReadsForward, Baselines, NEW m \in Mutation, RefreshRefs(m), Regular'
  PROVE  Told' \/ (lastConfirmed'.ext = lastConfirmed.ext /\ lastConfirmed' = shown')
<1>1. /\ m \in Call /\ call[m].snap \in Snapshot /\ lastConfirmed \in Snapshot /\ lastConfirmed.op \in BOOLEAN
      /\ pendingMutations \in Seq(Gate)
  BY Typed, CallNames DEF Snapshot, Types, Plain
<1>2. /\ call[m].at = "answered" /\ lastConfirmed' = call[m].snap /\ shown' = call[m].snap
      /\ gap' = gap \cup Overtaken(m) /\ operationStateAlert' = operationStateAlert
  BY DEF RefreshRefs
<1>3. pendingMutations # <<>>
  BY <1>1, <1>2, GateIsOpen DEF Busy, Regular
<1>4. CASE WrittenByOthers(m, Head(pendingMutations).pre, call[m].snap)
  <2> DEFINE gates == IF pendingMutations = <<>> THEN <<>> ELSE Tail(pendingMutations)
  <2>1. RequestExternalApply(gates, operationStateAlert, Ended(m), lastConfirmed.op)
    BY <1>3, <1>4 DEF RefreshRefs
  <2> HIDE DEF gates
  <2> QED
    BY <1>1, <1>2, <2>1, BehindTells
<1>5. CASE ~WrittenByOthers(m, Head(pendingMutations).pre, call[m].snap)
  <2>1. call[m].snap.ext = Head(pendingMutations).pre.ext
    BY <1>5 DEF WrittenByOthers, HasUnexpectedRefChange
  <2>2. Head(pendingMutations).pre.ext <= lastConfirmed.ext /\ Head(pendingMutations).pre \in Snapshot
    BY <1>1, <1>3, TailFacts DEF Baselines, AtMost, Gate
  <2>3. lastConfirmed.ext <= call[m].snap.ext
    BY <1>1, <1>2, Unchallenged, CallNames DEF ReadsForward, AtMost, HasRead
  <2> QED
    BY <1>1, <1>2, <2>1, <2>2, <2>3, SnapshotsOrdered
<1> QED
  BY <1>4, <1>5

LEMMA PutBackStays ==
  ASSUME Types, Kinds, [Next]_vars, PutBack, Regular'
  PROVE  PutBack' \/ RefreshFails \/ RefreshRefsAndRows("manual")
<1>1. "manual" \in Call /\ "manual" # "apply" /\ "manual" \notin Mutation \cup Eval
  BY CallNames
<1>2. ASSUME call'["manual"].at # "idle" PROVE PutBack'
  <2>1. ~Refresh
    BY DEF Refresh, PutBack
  <2>2. prior' = prior
    BY <2>1, CallNames
       DEF Next, ExternalWrite, ExternalOperation, OnRefsChanged, SettleTimerFires, ScheduleSettleRecheck,
           MutationStep, BeginMutation, MutationWrites, MutationSettles, RefreshRefs, RefreshRefsAbandoned,
           EvalStep, EvaluationDropped, EvaluationDecides, EvaluationFails, ReadState, ReloadStep, ShowRefs,
           StartReader, RefreshRefsAndRows, RefreshRefsAndRowsAbandoned, ConfirmingReadFails, FetchSettles,
           RefreshFails, ApplyStep, ApplyAnswered, ReadRowsInPlace, ApplyInPlace, ApplyFails, ApplyAbandoned,
           ApplyNotMade, ApplyFilter, FilterShown, ClearFilter, BecomeBusy, BecomeIdle, vars
  <2> QED
    BY <1>2, <2>2 DEF PutBack
<1>3. ASSUME call'["manual"].at = "idle" PROVE RefreshFails \/ RefreshRefsAndRows("manual")
  <2>1. Ending("manual")
    BY <1>1, <1>3, CallMoves DEF PutBack
  <2>2. ~RefreshRefsAndRowsAbandoned("manual") /\ ~ConfirmingReadFails("manual")
    BY <1>1 DEF RefreshRefsAndRowsAbandoned, ConfirmingReadFails, Regular
  <2> QED
    BY <1>1, <2>1, <2>2 DEF Ending
<1> QED
  BY <1>2, <1>3

LEMMA ApplyMoves ==
  ASSUME Types, Kinds, [Next]_vars, call["apply"].at # "idle", call'["apply"] # call["apply"]
  PROVE  ReadState("apply") \/ ApplyStep
<1>1. "apply" \in Call /\ "apply" \notin Mutation \cup Eval \cup {"manual", "fetch", "filter"}
  BY CallNames
<1>2. ASSUME NEW c \in Call, c # "apply", Stops(c) PROVE FALSE
  BY <1>1, <1>2 DEF Stops, Rest
<1>3. ASSUME Waits PROVE FALSE
  BY <1>1, <1>3 DEF Waits
<1>4. ASSUME NEW m \in Mutation, MutationStep(m) PROVE FALSE
  <2>1. m \in Call /\ m # "apply"
    BY <1>1, CallNames
  <2>2. Waits \/ Ends(m) \/ ConfirmsRefs(m)
    BY <1>4, WaitShapes, RefsShapes DEF MutationStep
  <2> QED
    BY <1>2, <1>3, <2>1, <2>2 DEF Ends, ConfirmsRefs, Confirms
<1>5. ASSUME NEW e \in Eval, EvalStep(e) PROVE FALSE
  <2>1. e \in Call /\ e # "apply"
    BY <1>1, CallNames
  <2> QED
    BY <1>2, <1>5, <2>1, EvalShapes DEF Ends, ConfirmsRefs, Confirms
<1>6. ASSUME NEW c \in Call, ReadState(c) \/ ReloadStep(c), ~ReadState("apply") PROVE FALSE
  <2>1. c # "apply"
    BY <1>1, <1>6 DEF ReloadStep, ShowRefs, StartReader, RefreshRefsAndRows, RefreshRefsAndRowsAbandoned,
                      ConfirmingReadFails
  <2>2. ~(Reads(c) \/ Shows(c) \/ Starts(c))
    BY <1>1, <2>1 DEF Reads, Shows, Starts, Goes
  <2>3. ~(ConfirmsRows(c) \/ Ends(c))
    BY <1>2, <2>1 DEF ConfirmsRows, Confirms, Ends
  <2> QED
    BY <1>6, <2>2, <2>3, ReloadShapes
<1>7. ASSUME RefreshFails PROVE FALSE
  BY <1>1, <1>2, <1>7, ManualShapes, CallNames DEF Ends
<1>8. ASSUME ApplyFilter \/ FilterShown \/ ClearFilter PROVE FALSE
  <2>1. Filters \/ FilterLands \/ Clears
    BY <1>8, FilterShapes
  <2> QED
    BY <1>1, <2>1 DEF Filters, FilterLands, Clears, Goes, Stops, Rest
<1>9. ASSUME \/ ExternalWrite \/ ExternalOperation \/ OnRefsChanged \/ SettleTimerFires
             \/ FetchSettles \/ Refresh \/ BecomeBusy \/ BecomeIdle \/ UNCHANGED vars
      PROVE  FALSE
  BY <1>3, <1>9, WaitShapes
<1> QED
  BY <1>4, <1>5, <1>6, <1>7, <1>8, <1>9 DEF Next

LEMMA ApplyStays ==
  ASSUME Types, Kinds, [Next]_vars, call["apply"].at # "idle", Regular'
  PROVE  call'["apply"].at # "idle" \/ Notice' \/ Lands
<1>1. "apply" \in Call
  BY CallNames
<1>2. CASE ReadState("apply") \/ ApplyAnswered \/ ReadRowsInPlace
  BY <1>1, <1>2, GoesOn DEF ReadState, ApplyAnswered, ReadRowsInPlace, Goes
<1>3. CASE ApplyInPlace
  BY <1>3, LandsShape
<1>4. CASE ApplyFails \/ ApplyAbandoned
  BY <1>4, ApplyTells DEF Regular, ApplyStep
<1> QED
  BY <1>2, <1>3, <1>4, ApplyMoves DEF ApplyStep

LEMMA DrawnStep ==
  ASSUME Types, Types', Kinds, Gates, Bounded, Forward, Baselines, OnView, RowsLand, Drawn,
         [Next]_vars, Shape, ~Doomed, ~Doomed', Regular'
  PROVE  Drawn'
<1>1. Told' => Drawn'
  BY DEF Told, Drawn
<1>2. Painted' => Drawn'
  BY DEF Drawn
<1>3. CASE Notice
  <2>1. CASE Refresh
    BY <1>3, <2>1, CallNames DEF Refresh, Notice, Drawn, PutBack, Asked, Types, Flight, Calls
  <2>2. CASE ~Refresh
    BY <1>1, <1>3, <2>2, NoticeStays
  <2> QED
    BY <2>1, <2>2
<1>4. CASE PutBack
  <2>1. CASE PutBack'
    BY <2>1 DEF Drawn
  <2>2. CASE RefreshFails
    BY <1>1, <1>4, <2>2, FailureTells
  <2>3. CASE RefreshRefsAndRows("manual")
    <3>1. "manual" \in Call /\ ConfirmsRows("manual")
      BY <2>3, RowsShape, CallNames
    <3> QED
      BY <1>2, <3>1, RowsPaint
  <2> QED
    BY <1>4, <2>1, <2>2, <2>3, PutBackStays
<1>5. CASE call["apply"].at # "idle"
  <2>1. CASE Lands
    <3>1. "apply" \in Call
      BY CallNames
    <3> QED
      BY <1>2, <2>1, <3>1, RowsPaint
  <2> QED
    BY <1>5, <2>1, ApplyStays DEF Drawn
<1>6. CASE Painted
  <2>1. CASE lastConfirmed' = lastConfirmed
    BY <1>2, <1>6, <2>1, PaintedStay
  <2>2. ASSUME NEW e \in Eval, EvaluationDecides(e), lastConfirmed' # lastConfirmed PROVE Drawn'
    BY <1>1, <2>2, DecidesTells
  <2>3. ASSUME NEW m \in Mutation, RefreshRefs(m) PROVE Drawn'
    BY <1>1, <1>2, <1>6, <2>3, RefsTell, PaintedStay DEF Forward
  <2>4. ASSUME NEW c \in Call, ConfirmsRows(c) \/ (c = "apply" /\ Lands) PROVE Drawn'
    BY <1>2, <2>4, RowsPaint
  <2> QED
    BY <2>1, <2>2, <2>3, <2>4, Confirmers
<1> QED
  BY <1>3, <1>4, <1>5, <1>6 DEF Drawn

-----------------------------------------------------------------------------
(* Somebody is looking, until what is there is confirmed or the user told. *)

(* Nothing in flight may be confirmed behind what has just been.           *)
LEMMA ConfirmSettles ==
  ASSUME NEW d \in Call, Confirms(d), call[d].snap = world
  PROVE  Settled'
<1>1. lastConfirmed' = world'
  BY DEF Confirms, Stops
<1>2. ASSUME NEW c \in Call, HasRead(c)', c \notin staleConfirmed' PROVE FALSE
  <2>1. ~Fresh(c)
    BY <1>2 DEF Fresh, HasRead
  <2>2. call'[c] = call[c] => c \in InFlight(call)
    BY <1>2 DEF HasRead, InFlight
  <2> QED
    BY <1>2, <2>1, <2>2 DEF Confirms, Stops, Rest
<1> QED
  BY <1>1, <1>2 DEF Settled

LEMMA SettledStep ==
  ASSUME Settled, Shape, world' = world, Regular'
  PROVE  Settled'
<1>1. ASSUME NEW d \in Call, ConfirmsRefs(d) \/ ConfirmsRows(d) \/ (d = "apply" /\ Lands) PROVE Settled'
  <2>1. Confirms(d) /\ d \notin staleConfirmed
    BY <1>1, ConfirmsInOrder
  <2>2. call[d].snap = world
    BY <2>1 DEF Settled, Confirms
  <2> QED
    BY <2>1, <2>2, ConfirmSettles
<1>2. ASSUME lastConfirmed' = lastConfirmed,
             \A c \in Call \ {"filter"} : HasRead(c)' /\ c \notin staleConfirmed'
                => \/ HasRead(c) /\ c \notin staleConfirmed /\ call'[c].snap = call[c].snap
                   \/ call'[c].snap = world
      PROVE  Settled'
  BY <1>2 DEF Settled
<1>3. CASE Waits
  <2>1. \A c \in Call : HasRead(c)' => call'[c] = call[c]
    BY <1>3 DEF Waits, Fresh, HasRead
  <2> QED
    BY <1>2, <1>3, <2>1 DEF Waits, view, HasRead
<1>4. CASE AppliesOn
  BY <1>2, <1>4 DEF AppliesOn, Goes, view, HasRead
<1>5. CASE Filters \/ Clears
  BY <1>2, <1>5 DEF Filters, Clears, Goes, HasRead
<1>6. ASSUME NEW d \in Call, UNCHANGED lastConfirmed, Stops(d), staleConfirmed' = staleConfirmed \ {d} PROVE Settled'
  <2>1. \A c \in Call : HasRead(c)' => c # d /\ call'[c] = call[c]
    BY <1>6 DEF Stops, Rest, Fresh, HasRead
  <2> QED
    BY <1>2, <1>6, <2>1 DEF HasRead
<1>7. ASSUME NEW d \in Call, Reads(d) PROVE Settled'
  BY <1>2, <1>7 DEF Reads, Goes, view, HasRead
<1>8. ASSUME NEW d \in Call, Shows(d) \/ Starts(d) PROVE Settled'
  BY <1>2, <1>8 DEF Shows, Starts, Goes, view, HasRead
<1>9. CASE Lands
  BY <1>1, <1>9, CallNames
<1>10. CASE FilterLands
  BY <1>6, <1>10, CallNames DEF FilterLands
<1>11. ASSUME NEW d \in Call, Ends(d) PROVE Settled'
  BY <1>6, <1>11 DEF Ends, view
<1> QED
  BY <1>1, <1>3, <1>4, <1>5, <1>7, <1>8, <1>9, <1>10, <1>11 DEF Shape

(* Whoever is looking goes on, unless the call ends.                       *)
LEMMA LooksOn ==
  ASSUME Types, Types', [Next]_vars, world' = world, NEW c \in Call \ {"apply", "filter"}, Looks(c),
         call'[c].at # "idle"
  PROVE  Looks(c)'
<1>1. ~Ending(c)
  BY EndingFacts
<1>2. call[c].at \in {"idle", "asked", "answered", "walking", "walked"} /\ call'[c].at \in {"idle", "asked", "answered", "walking", "walked"}
  BY CallFacts DEF Types, Flight, Calls, CallState
<1>3. CASE call'[c] = call[c]
  BY <1>3 DEF Looks, HasRead
<1>4. CASE Moving(c) /\ call'[c] # call[c]
  <2>1. \/ call'[c].at = "asked"
        \/ call'[c].snap = world
        \/ HasRead(c) /\ call'[c].snap = call[c].snap
    BY <1>4, MovingFacts
  <2> QED
    BY <1>2, <2>1 DEF Looks, HasRead
<1>5. CASE c \in Mutation /\ MutationSettles(c)
  <2>1. \E k \in {"refs", "rows"} : call'[c] = Asked(k)
    BY <1>5 DEF MutationSettles, Types, Flight, Calls
  <2> QED
    BY <2>1, IdleFacts DEF Looks
<1> QED
  BY <1>1, <1>3, <1>4, <1>5, CallMoves

(* A notice is dropped for a gate only if a read is to come.               *)
LEMMA DropLooks ==
  ASSUME Types, DropForGate, Regular', mutation' = mutation,
         \A m \in Mutation : call'[m] = call[m]
  PROVE  Looking'
<1>1. ReadToCome
  BY DEF DropForGate, Regular
<1> QED
  BY <1>1 DEF ReadToCome, Looking, Looks

LEMMA EventLooks ==
  ASSUME Types, Types', OnRefsChanged \/ SettleTimerFires, Regular'
  PROVE  Looking'
<1>1. CASE pendingMutations # <<>>
  <2>1. DropForGate /\ call' = call /\ mutation' = mutation
    BY <1>1 DEF OnRefsChanged, SettleTimerFires, gate
  <2> QED
    BY <2>1, DropLooks
<1>2. CASE pendingMutations = <<>>
  <2>1. PICK e \in Eval : call' = [call EXCEPT ![e] = Asked("eval")]
    BY <1>2 DEF OnRefsChanged, SettleTimerFires
  <2>2. call'[e] = Asked("eval")
    BY <2>1, CallNames DEF Types, Flight, Calls
  <2> QED
    BY <2>2, IdleFacts DEF Looking, Looks
<1> QED
  BY <1>1, <1>2

(* The repository changes, and the watcher reports it.                     *)
LEMMA WorldReported ==
  ASSUME [Next]_vars, world' # world
  PROVE  event'
BY DEF Next, ExternalWrite, ExternalOperation, OnRefsChanged, SettleTimerFires, ScheduleSettleRecheck,
       MutationStep, BeginMutation, MutationWrites, MutationSettles, RefreshRefs, RefreshRefsAbandoned,
       EvalStep, EvaluationDropped, EvaluationDecides, EvaluationFails, ReadState, ReloadStep, ShowRefs,
       StartReader, RefreshRefsAndRows, RefreshRefsAndRowsAbandoned, ConfirmingReadFails, FetchSettles, Refresh,
       RefreshFails, ApplyStep, ApplyAnswered, ReadRowsInPlace, ApplyInPlace, ApplyFails, ApplyAbandoned,
       ApplyNotMade, ApplyFilter, FilterShown, ClearFilter, BecomeBusy, BecomeIdle, vars, repository

LEMMA SignalsStay ==
  ASSUME Types, [Next]_vars
  PROVE  /\ event => event' \/ OnRefsChanged
         /\ settleTimer => settleTimer' \/ SettleTimerFires
         /\ \A m \in Mutation : mutation[m].at = "running" => mutation'[m].at = "running" \/ MutationSettles(m)
<1>1. ASSUME event, ~OnRefsChanged PROVE event'
  BY <1>1
     DEF Next, ExternalWrite, ExternalOperation, SettleTimerFires,
         MutationStep, BeginMutation, MutationWrites, MutationSettles, RefreshRefs, RefreshRefsAbandoned,
         EvalStep, EvaluationDropped, EvaluationDecides, EvaluationFails, ReadState, ReloadStep, ShowRefs,
         StartReader, RefreshRefsAndRows, RefreshRefsAndRowsAbandoned, ConfirmingReadFails, FetchSettles, Refresh,
         RefreshFails, ApplyStep, ApplyAnswered, ReadRowsInPlace, ApplyInPlace, ApplyFails, ApplyAbandoned,
         ApplyNotMade, ApplyFilter, FilterShown, ClearFilter, BecomeBusy, BecomeIdle, vars, repository
<1>3. ASSUME settleTimer, ~SettleTimerFires PROVE settleTimer'
  <2>1. ASSUME NEW e \in Eval, EvalStep(e) PROVE settleTimer'
    BY <1>3, <2>1 DEF EvalStep, EvaluationDropped, EvaluationDecides, EvaluationFails, ScheduleSettleRecheck, settle
  <2>2. ASSUME NEW m \in Mutation, MutationStep(m) PROVE settleTimer'
    BY <1>3, <2>2 DEF MutationStep, BeginMutation, MutationWrites, MutationSettles, RefreshRefs,
                      RefreshRefsAbandoned, settle
  <2>3. ASSUME NEW c \in Call, ReadState(c) \/ ReloadStep(c) PROVE settleTimer'
    BY <1>3, <2>3 DEF ReadState, ReloadStep, ShowRefs, StartReader, RefreshRefsAndRows, RefreshRefsAndRowsAbandoned,
                      ConfirmingReadFails, settle
  <2>4. CASE ApplyStep
    BY <1>3, <2>4 DEF ApplyStep, ApplyAnswered, ReadRowsInPlace, ApplyInPlace, ApplyFails, ApplyAbandoned,
                      ApplyNotMade, settle
  <2>5. CASE \/ ExternalWrite \/ ExternalOperation \/ OnRefsChanged \/ FetchSettles \/ Refresh \/ RefreshFails
             \/ ApplyFilter \/ FilterShown \/ ClearFilter \/ BecomeBusy \/ BecomeIdle \/ UNCHANGED vars
    BY <1>3, <2>5 DEF ExternalWrite, ExternalOperation, OnRefsChanged, FetchSettles, Refresh, RefreshFails,
                      ApplyFilter, FilterShown, ClearFilter, BecomeBusy, BecomeIdle, vars, settle
  <2> QED
    BY <1>3, <2>1, <2>2, <2>3, <2>4, <2>5 DEF Next
<1>2. ASSUME NEW m \in Mutation, mutation[m].at = "running", ~MutationSettles(m) PROVE mutation'[m].at = "running"
  <2>1. mutation \in [Mutation -> [at : {"idle", "running", "settled"}, wrote : Nat]]
    BY DEF Types, Plain
  <2>2. ASSUME NEW n \in Mutation, MutationStep(n) PROVE mutation'[m].at = "running"
    BY <1>2, <2>1, <2>2 DEF MutationStep, BeginMutation, MutationWrites, MutationSettles, RefreshRefs,
                            RefreshRefsAbandoned, gate
  <2>3. CASE mutation' = mutation
    BY <1>2, <2>3
  <2> QED
    BY <2>2, <2>3
       DEF Next, ExternalWrite, ExternalOperation, OnRefsChanged, SettleTimerFires,
           EvalStep, EvaluationDropped, EvaluationDecides, EvaluationFails, ReadState, ReloadStep, ShowRefs,
           StartReader, RefreshRefsAndRows, RefreshRefsAndRowsAbandoned, ConfirmingReadFails, FetchSettles, Refresh,
           RefreshFails, ApplyStep, ApplyAnswered, ReadRowsInPlace, ApplyInPlace, ApplyFails, ApplyAbandoned,
           ApplyNotMade, ApplyFilter, FilterShown, ClearFilter, BecomeBusy, BecomeIdle, vars, gate
<1> QED
  BY <1>1, <1>2, <1>3

(* A call that has ended has left something behind.                        *)
LEMMA EndLooks ==
  ASSUME Types, Types', Kinds, Gates, [Next]_vars, Regular', world' = world,
         NEW c \in Mutation \cup Eval \cup {"manual"}, Looks(c), Ending(c)
  PROVE  \/ Notice' \/ Looking' \/ Settled'
         \/ c = "manual" /\ RefreshFails
<1>1. c \in Call /\ call[c].at # "idle" /\ Mutation \cap Eval = {} /\ "manual" \notin Mutation \cup Eval
      /\ "fetch" \notin Mutation \cup Eval /\ "filter" \notin Mutation \cup Eval
  BY CallNames DEF Looks, HasRead
<1>2. HasRead(c) => call[c].snap = world
  BY DEF Looks, HasRead
<1>3. ASSUME Confirms(c) PROVE Settled'
  BY <1>1, <1>2, <1>3, ConfirmSettles DEF Confirms
<1>4. CASE c \in Eval /\ EvalStep(c)
  <2>1. CASE EvaluationDecides(c)
    BY <1>3, <1>4, <2>1, DecidesShape DEF ConfirmsRefs
  <2>2. CASE EvaluationFails(c)
    BY <2>2 DEF EvaluationFails, Notice, Regular
  <2>3. CASE EvaluationDropped(c)
    <3>1. \/ c \notin staleGeneration /\ DropForGate
          \/ c \notin staleGeneration /\ ScheduleSettleRecheck
      BY <2>3 DEF EvaluationDropped, Regular
    <3>2. CASE DropForGate
      <4>1. mutation' = mutation /\ \A m \in Mutation : call'[m] = call[m]
        BY <1>1, <1>4, <2>3, EndFacts, CallNames DEF EvaluationDropped, gate, Types, Flight
      <4> QED
        BY <3>2, <4>1, DropLooks
    <3>3. CASE ScheduleSettleRecheck
      BY <3>3 DEF ScheduleSettleRecheck, Looking, Regular, settle
    <3> QED
      BY <3>1, <3>2, <3>3
  <2> QED
    BY <1>4, <2>1, <2>2, <2>3 DEF EvalStep
<1>5. CASE c \in Mutation /\ (RefreshRefs(c) \/ RefreshRefsAbandoned(c))
  <2>1. ~RefreshRefsAbandoned(c)
    BY DEF RefreshRefsAbandoned, Regular
  <2> QED
    BY <1>3, <1>5, <2>1, RefsShape DEF ConfirmsRefs
<1>6. CASE ConfirmingReadFails(c)
  <2>1. c \in Mutation /\ CloseOldestGate /\ gap \subseteq gap'
    BY <1>1, <1>6 DEF ConfirmingReadFails, Regular
  <2>2. pendingMutations # <<>>
    BY <1>1, <2>1, GateIsOpen DEF Busy, Regular
  <2> QED
    BY <2>1, <2>2 DEF CloseOldestGate, Notice
<1>7. CASE RefreshRefsAndRows(c)
  BY <1>1, <1>3, <1>7, RowsShape DEF ConfirmsRows
<1>8. ~RefreshRefsAndRowsAbandoned(c)
  BY DEF RefreshRefsAndRowsAbandoned, Regular
<1> QED
  BY <1>1, <1>4, <1>5, <1>6, <1>7, <1>8 DEF Ending

LEMMA ApplyLooks ==
  ASSUME Types, Types', Kinds, [Next]_vars, Regular', world' = world, Looks("apply")
  PROVE  Notice' \/ Looks("apply")' \/ Settled'
<1>1. "apply" \in Call /\ call["apply"].at # "idle"
  BY CallNames DEF Looks, HasRead
<1>2. CASE call'["apply"] = call["apply"]
  BY <1>2 DEF Looks, HasRead
<1>3. CASE ReadState("apply")
  BY <1>1, <1>3, GoesOn DEF ReadState, Goes, Looks, HasRead
<1>4. CASE ApplyAnswered \/ ReadRowsInPlace
  BY <1>1, <1>4, GoesOn DEF ApplyAnswered, ReadRowsInPlace, Goes, Looks, HasRead
<1>5. CASE ApplyInPlace
  <2>1. Lands /\ call["apply"].snap = world
    BY <1>5, LandsShape DEF Looks, HasRead, ApplyInPlace
  <2> QED
    BY <1>1, <2>1, ConfirmSettles DEF Lands
<1>6. CASE ApplyFails \/ ApplyAbandoned
  BY <1>6, ApplyTells DEF ApplyStep, Regular
<1> QED
  BY <1>1, <1>2, <1>3, <1>4, <1>5, <1>6, ApplyMoves DEF ApplyStep

LEMMA WatchedStep ==
  ASSUME Types, Types', Kinds, Gates, Watched, [Next]_vars, Shape, Regular'
  PROVE  Watched'
<1>1. /\ Mutation \cup Eval \cup {"manual"} \subseteq Call \ {"apply", "filter"}
      /\ "apply" \in Call
  BY CallNames
<1>2. Notice' \/ Looking' \/ Settled' => Watched'
  BY DEF Watched
<1>3. Told' => Watched'
  BY <1>2 DEF Told, Looking, Looks
<1>4. CASE world' # world
  BY <1>2, <1>4, WorldReported DEF Looking
<1>5. CASE world' = world
  <2>1. CASE Notice
    <3>1. CASE Refresh
      <4>1. call'["manual"].at = "asked"
        BY <1>1, <3>1, IdleFacts DEF Refresh, Types, Flight, Calls
      <4>2. prior'.banner \/ prior'.alert \/ prior'.pending
        BY <2>1, <3>1 DEF Refresh, Notice
      <4> QED
        BY <4>1, <4>2 DEF Watched, PutBack, Looks
    <3> QED
      BY <1>3, <2>1, <3>1, NoticeStays
  <2>2. CASE event \/ settleTimer
    <3>1. CASE OnRefsChanged \/ SettleTimerFires
      BY <1>2, <3>1, EventLooks
    <3> QED
      BY <1>2, <2>2, <3>1, SignalsStay DEF Looking
  <2>3. ASSUME NEW m \in Mutation, mutation[m].at = "running" PROVE Watched'
    <3>1. CASE MutationSettles(m)
      <4>1. PICK k \in {"refs", "rows"} : call' = [call EXCEPT ![m] = Asked(k)]
        BY <3>1 DEF MutationSettles
      <4>2. call'[m] = Asked(k)
        BY <1>1, <4>1 DEF Types, Flight, Calls
      <4> QED
        BY <1>2, <4>2, IdleFacts DEF Looking, Looks
    <3> QED
      BY <1>2, <2>3, <3>1, SignalsStay DEF Looking
  <2>4. ASSUME NEW c \in Mutation \cup Eval, Looks(c) PROVE Watched'
    <3>1. CASE call'[c].at = "idle"
      <4>1. Ending(c)
        <5>1. call'[c] # call[c] /\ c # "apply" /\ c \in Call
          BY <1>1, <2>4, <3>1 DEF Looks, HasRead
        <5>2. c \in Mutation /\ MutationSettles(c) => call[c].at = "idle"
          BY DEF MutationSettles, Types, Issued
        <5> QED
          BY <2>4, <3>1, <5>1, <5>2, CallMoves DEF Looks, HasRead
      <4>2. c # "manual"
        BY CallNames
      <4> QED
        BY <1>2, <1>5, <2>4, <4>1, <4>2, EndLooks
    <3>2. CASE call'[c].at # "idle"
      BY <1>1, <1>2, <1>5, <2>4, <3>2, LooksOn DEF Looking
    <3> QED
      BY <3>1, <3>2
  <2>5. CASE Looks("apply")
    BY <1>2, <1>5, <2>5, ApplyLooks DEF Looking
  <2>6. CASE PutBack /\ Looks("manual")
    <3>1. CASE RefreshFails
      BY <1>3, <2>6, <3>1, FailureTells
    <3>2. CASE RefreshRefsAndRows("manual")
      <4>1. Ending("manual")
        BY <3>2 DEF Ending
      <4>2. ConfirmsRows("manual") /\ call["manual"].snap = world
        BY <1>1, <2>6, <3>2, RowsShape DEF RefreshRefsAndRows, Looks
      <4> QED
        BY <1>1, <1>2, <4>2, ConfirmSettles DEF ConfirmsRows
    <3>3. CASE PutBack'
      <4>1. Looks("manual")'
        BY <1>1, <1>5, <2>6, <3>3, LooksOn DEF PutBack
      <4> QED
        BY <3>3, <4>1 DEF Watched
    <3> QED
      BY <2>6, <3>1, <3>2, <3>3, PutBackStays
  <2>7. CASE Settled
    BY <1>2, <1>5, <2>7, SettledStep
  <2> QED
    BY <2>1, <2>2, <2>3, <2>4, <2>5, <2>6, <2>7 DEF Watched, Looking
<1> QED
  BY <1>4, <1>5

-----------------------------------------------------------------------------
LEMMA SurfacingInit == Init => Surfacing
<1> SUFFICES ASSUME Init PROVE Surfacing
  OBVIOUS
<1>1. Types
  BY InitOK DEF IInv
<1>2. /\ \A c \in Call : call[c] = Idle
      /\ Idle.at = "idle" /\ Idle.kind = "none" /\ Idle.rows = NoRows /\ Idle.snap = world
  BY DEF Init, Idle
<1>3. /\ world \in Snapshot /\ world.ext = 0 /\ lastConfirmed = world /\ shown = world /\ rows = 0
      /\ baseline = NoRows /\ NoRows = -1 /\ pendingMutations = <<>> /\ gap = {}
  BY DEF Init, Snapshot, NoRows
<1>4. AtMost(world, world)
  BY <1>3, SnapshotsOrdered
<1>5. Reload \subseteq Call /\ "filter" \in Call
  BY CallNames
<1>6. Kinds
  BY <1>2 DEF Kinds
<1>7. Bounded
  BY <1>2, <1>3, <1>4, <1>5 DEF Bounded
<1>8. Forward
  BY <1>2, <1>3 DEF Forward, ReadsForward, RowsForward, OneReader, Unfiltered, HasRead, Current, Reloading
<1>9. Baselines /\ OnView /\ RowsLand
  BY <1>2, <1>3, <1>5 DEF Baselines, OnView, RowsLand, Reloading
<1>10. Watched
  BY <1>2, <1>3 DEF Watched, Settled, HasRead
<1>11. Drawn
  BY <1>3, <1>4 DEF Drawn, Painted, RowsHave
<1> QED
  BY <1>6, <1>7, <1>8, <1>9, <1>10, <1>11 DEF Surfacing, Kept

LEMMA SurfacingStep ==
  ASSUME IInv, IInv', Surfacing, [Next]_vars
  PROVE  Surfacing'
<1>1. Types /\ Types' /\ Gates /\ Kinds /\ Bounded /\ Forward
  BY DEF IInv, Surfacing
<1>2. Shape
  BY <1>1, ShapeStep
<1>3. Kinds' /\ Bounded'
  BY <1>1, <1>2, KindsStep, BoundedStep
<1>4. Forward'
  BY <1>1, <1>2, ReadsForwardStep, RowsForwardStep, OneReaderStep, UnfilteredStep DEF Forward
<1>5. ASSUME Regular' PROVE Kept'
  <2>1. Regular
    BY <1>5, StillRegular
  <2>2. Baselines /\ OnView /\ Watched /\ (Doomed \/ (Drawn /\ RowsLand))
    BY <2>1 DEF Surfacing, Kept
  <2>3. Baselines'
    BY <1>1, <1>2, <1>5, <2>2, ConfirmedForward, BaselinesStep DEF Forward
  <2>4. OnView'
    BY <1>1, <1>2, <1>5, <2>2, OnViewStep
  <2>5. Watched'
    BY <1>1, <1>2, <1>5, <2>2, WatchedStep
  <2>6. Doomed => Doomed'
    BY <1>1, <1>2, <1>5, DoomedStays
  <2>7. ~Doomed /\ ~Doomed' => Drawn' /\ RowsLand'
    BY <1>1, <1>2, <1>5, <2>2, DrawnStep, RowsLandStep
  <2> QED
    BY <2>2, <2>3, <2>4, <2>5, <2>6, <2>7 DEF Kept
<1> QED
  BY <1>3, <1>4, <1>5 DEF Surfacing

(* Once everything has settled, nobody is looking any more and nothing is  *)
(* on its way: what was confirmed is what is there, and on screen.         *)
LEMMA SettledOnScreen ==
  ASSUME Types, Surfacing, Quiet, Regular
  PROVE  OnScreen
<1>1. \A c \in Call : call[c].at = "idle"
  BY DEF Quiet, InFlight
<1>2. /\ ~Doomed /\ ~Looking /\ ~PutBack /\ call["apply"].at = "idle"
      /\ \A c \in Call : ~Current(c) /\ ~Reloading(c)
  BY <1>1, CallNames, Typed DEF Quiet, Doomed, Looking, Looks, HasRead, PutBack, Current, Reloading
<1>3. Bounded /\ Watched /\ Drawn
  BY <1>2 DEF Surfacing, Kept
<1>4. CASE Notice
  BY <1>4 DEF Notice, OnScreen
<1>5. CASE ~Notice
  <2>1. lastConfirmed = world
    BY <1>2, <1>3, <1>5 DEF Watched, Settled
  <2>2. Painted
    BY <1>2, <1>3, <1>5 DEF Drawn
  <2>3. rows >= world.ext /\ AtMost(world, shown) /\ shown.op = world.op
    BY <1>2, <2>1, <2>2, CallNames DEF Painted, RowsHave
  <2>4. rows <= world.ext /\ AtMost(shown, world)
    BY <1>3 DEF Bounded
  <2>5. world \in Snapshot /\ shown \in Snapshot /\ rows \in Nat
    BY Typed
  <2>6. shown = world /\ rows = world.ext
    BY <2>3, <2>4, <2>5 DEF AtMost, Snapshot
  <2> QED
    BY <2>6 DEF OnScreen
<1> QED
  BY <1>4, <1>5

(* No change made by another process goes unnoticed.  Whatever the watcher *)
(* events, evaluations, confirming reads, reloads, filters, failures and   *)
(* Refresh do to each other in useRepositoryGraph.ts, once everything has  *)
(* settled the refs, the operation state and the rows on screen are the    *)
(* repository's, or a notice is up, unless the code has taken one of its   *)
(* exceptions (specs/live-refresh.md FR-462 to FR-465).                    *)
THEOREM ChangesSurface == Spec => []Surfaced
<1>1. Init => Surfacing
  BY SurfacingInit
<1>2. IInv /\ IInv' /\ Surfacing /\ [Next]_vars => Surfacing'
  BY SurfacingStep
<1>3. IInv /\ Surfacing => Surfaced
  BY SettledOnScreen DEF IInv, Surfaced, Regular
<1> QED
  BY <1>1, <1>2, <1>3, Invariance, PTL DEF Spec
===============================================================================
