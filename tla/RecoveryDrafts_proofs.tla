------------------------ MODULE RecoveryDrafts_proofs ------------------------
(***************************************************************************)
(* RecoveryDrafts for every number of files, every cap and every number of *)
(* calls, crashes and interferences, checked by TLAPS: its types, that the *)
(* newest draft wins, that a removal hits the very record it judged, and   *)
(* that the cap holds when nothing runs any more.                          *)
(*                                                                         *)
(* The invariant goes from the queues to the cap.  Shape, Ordered, Turns   *)
(* and Judged say what a task at the head of a queue may count on; Covered,*)
(* Fresh and Passed what an index entry still says of the disk although    *)
(* other instances write there; Complete and Settled what it says, and     *)
(* what the cap bounds, when none did.                                     *)
(***************************************************************************)
EXTENDS RecoveryDrafts, FiniteSetTheorems, SequenceTheorems, TLAPS

(* The write at the head has renamed its record, and not told the index.   *)
Renamed(f) == key[f].at = "renamed"
HasEvict(f) == \E i \in DOMAIN key[f].queue : key[f].queue[i].kind = "evict"
Awaits(f) == \E i \in DOMAIN evictTail : evictTail[i] = f
(* The eviction works through a sorted index.                              *)
Sorted == evict.at \in {"pick", "wait"}

(* A task under way is at the head of its queue and of the kind its place  *)
(* belongs to; what is on the disk, or about to be, has a stamp.           *)
Shape ==
  \A f \in File :
    /\ key[f].at # "start" => key[f].queue # <<>>
    /\ key[f].at \in {"made", "temp", "renamed"} => Head(key[f].queue).kind = "write"
    /\ key[f].at \in {"condemned", "unlinked"} => Head(key[f].queue).kind \in {"delete", "read", "purge", "evict"}
    /\ key[f].at \in {"made", "temp"} => key[f].born > 0
    /\ disk[f] = None \/ disk[f].born > 0

(* The calls that change a draft wait in the order of their numbers, and   *)
(* none is answered yet; what a write has renamed into place, and a removal*)
(* unlinked, is not replaced by another draft of this store.               *)
Numbered(t) == t.kind \in {"write", "delete"}
InOrder(q, low, high) ==
  \A i \in DOMAIN q :
    Numbered(q[i]) => /\ low < q[i].no /\ q[i].no <= high
                      /\ \A j \in DOMAIN q : i < j /\ Numbered(q[j]) => q[i].no < q[j].no
Ordered ==
  \A f \in File :
    /\ floor[f] <= asked[f]
    /\ InOrder(key[f].queue, floor[f], asked[f])
    /\ Renamed(f) => disk[f].no \in {0, Head(key[f].queue).no}
    /\ key[f].at = "unlinked" => disk[f].no = 0

(* One eviction task at a time, and a scan only while its eviction waits.  *)
EvictTurns ==
  \A f \in File : \A i \in DOMAIN key[f].queue :
    key[f].queue[i].kind = "evict" =>
      /\ evict.at = "wait"
      /\ \A g \in File : \A j \in DOMAIN key[g].queue :
           key[g].queue[j].kind = "evict" => f = g /\ i = j
ScanTurns ==
  /\ scan.on => cold /\ evict.at = "pass"
  /\ ~scan.on => \A f \in File : scan.found[f] = 0
Turns == EvictTurns /\ ScanTurns

(* What a task has condemned it still finds, if it is of this store.       *)
JudgedIn(f) ==
  key[f].at = "condemned" /\ disk[f].no # 0 =>
    /\ disk[f] = key[f].judged
    /\ Head(key[f].queue).kind = "evict" => disk[f].born = evict.entry[f]
Judged == \A f \in File : JudgedIn(f)

(* The index, and what a scan has found, count what is on the disk or what *)
(* was removed behind the index's back.                                    *)
Known(f) == disk[f] # None \/ f \in behind \/ key[f].at = "unlinked"
CoveredIn(f) ==
  /\ index[f] # 0 => Known(f)
  /\ scan.found[f] # 0 /\ scan.log[f] = "none" => Known(f)
Covered == \A f \in File : CoveredIn(f)

(* An entry of a draft of this store has that draft's stamp, from the save *)
(* on, and so has the entry an eviction sorted and still holds.            *)
FreshIn(f) ==
  disk[f].no # 0 /\ ~Renamed(f) =>
    /\ index[f] # 0 => index[f] = disk[f].born
    /\ scan.found[f] # 0 /\ scan.log[f] = "none" => scan.found[f] = disk[f].born
    /\ f \in evict.same => evict.entry[f] = disk[f].born
Fresh == \A f \in File : FreshIn(f)

(* A sorted file that was passed over is not a draft of this store.        *)
PassedIn(f) ==
  Sorted /\ f \in evict.same \ evict.todo /\ f # evict.file =>
    disk[f].no = 0 \/ Renamed(f) \/ HasEvict(f)
Passed == \A f \in File : PassedIn(f)

(* While no other instance interferes, every draft on the disk is in the   *)
(* index, or known to the scan that will make it, and an eviction that goes*)
(* on either has it before it or leaves it to one that waits.              *)
InIndex(f) == ~cold \/ evict.at \in {"over", "pick", "wait"} => index[f] = disk[f].born
InScan(f) == scan.on => \/ f \in scan.todo /\ scan.log[f] = "none"
                        \/ scan.log[f] = "set" /\ index[f] = disk[f].born
                        \/ scan.log[f] = "none" /\ scan.found[f] = disk[f].born
InPass(f) == Sorted => \/ Awaits(f)
                       \/ /\ f \in evict.same /\ evict.entry[f] = disk[f].born
                          /\ f = evict.file \/ f \in evict.todo \/ HasEvict(f)
CompleteIn(f) ==
  ~excess /\ disk[f] # None /\ ~Renamed(f) => InIndex(f) /\ InScan(f) /\ InPass(f)
Complete == \A f \in File : CompleteIn(f)

(* No eviction left to do: the cap holds but for what is just being saved. *)
Settled ==
  ~excess /\ evict.at = "idle" /\ evictTail = <<>>
    => Cardinality({f \in Live : ~Renamed(f)}) <= Cap

IInv == /\ TypeOK /\ Shape /\ Ordered /\ KeptInOrder /\ Turns /\ Judged /\ Covered /\ Fresh
        /\ Passed /\ Complete /\ Settled

-----------------------------------------------------------------------------
(* The queues.                                                             *)

Key == [queue : Seq(Task), version : Nat,
        at : {"start", "made", "temp", "renamed", "condemned", "unlinked"},
        attempt : {0, 1}, born : Nat, judged : Record]

(* How a step changes the queue of f: a task more, its head done, or the   *)
(* head one place further; the other files keep theirs.                    *)
OthersSame(f) == \A g \in File \ {f} : key'[g] = key[g]
Enqueues(f, t) ==
  /\ key'[f].queue = Append(key[f].queue, t) /\ t \in Task
  /\ key'[f].at = key[f].at /\ key'[f].born = key[f].born /\ key'[f].judged = key[f].judged
  /\ OthersSame(f)
Finishes(f) ==
  /\ key[f].queue # <<>> /\ key'[f].queue = Tail(key[f].queue) /\ key'[f].at = "start"
  /\ OthersSame(f)
Moves(f, at) ==
  /\ key'[f].queue = key[f].queue /\ key'[f].at = at
  /\ OthersSame(f)

LEMMA IdleIsKey ==
  /\ Idle \in Key /\ None \in Record /\ None.no = 0 /\ None.born = 0
  /\ Idle.queue = <<>> /\ Idle.at = "start"
BY DEF Idle, Key, None, Record

LEMMA KeyEnqueues ==
  ASSUME key \in [File -> Key], NEW f \in File, NEW t \in Task, NEW v \in Nat,
         \/ key' = [key EXCEPT ![f] = Queued(@, t)]
         \/ key' = [key EXCEPT ![f] = Queued([@ EXCEPT !.version = v], t)]
  PROVE  key' \in [File -> Key] /\ Enqueues(f, t)
<1>1. key[f] \in Key /\ Append(key[f].queue, t) \in Seq(Task)
  BY DEF Key
<1>2. \A w \in Nat : Queued([key[f] EXCEPT !.version = w], t) =
                      [key[f] EXCEPT !.version = w, !.queue = Append(key[f].queue, t)]
  BY <1>1 DEF Key, Queued
<1>3. Queued(key[f], t) = [key[f] EXCEPT !.queue = Append(key[f].queue, t)]
  BY <1>1 DEF Key, Queued
<1>4. PICK k \in Key : /\ key' = [key EXCEPT ![f] = k]
                       /\ k.queue = Append(key[f].queue, t)
                       /\ k.at = key[f].at /\ k.born = key[f].born /\ k.judged = key[f].judged
  <2>1. CASE key' = [key EXCEPT ![f] = Queued(@, t)]
    <3> DEFINE k == [key[f] EXCEPT !.queue = Append(key[f].queue, t)]
    <3>1. k \in Key /\ k.queue = Append(key[f].queue, t) /\ k.at = key[f].at /\ k.born = key[f].born
          /\ k.judged = key[f].judged
      BY <1>1 DEF Key
    <3> QED
      BY Zenon, <2>1, <1>3, <3>1
  <2>2. CASE key' = [key EXCEPT ![f] = Queued([@ EXCEPT !.version = v], t)]
    <3> DEFINE k == [key[f] EXCEPT !.version = v, !.queue = Append(key[f].queue, t)]
    <3>1. k \in Key /\ k.queue = Append(key[f].queue, t) /\ k.at = key[f].at /\ k.born = key[f].born
          /\ k.judged = key[f].judged
      BY <1>1 DEF Key
    <3> QED
      BY Zenon, <2>2, <1>2, <3>1
  <2> QED
    BY <2>1, <2>2
<1> QED
  BY <1>4 DEF Enqueues, OthersSame

LEMMA KeyDone ==
  ASSUME key \in [File -> Key], NEW f \in File, key[f].queue # <<>>, Done(f)
  PROVE  key' \in [File -> Key] /\ Finishes(f)
<1>1. key[f] \in Key /\ key[f].queue \in Seq(Task) /\ Tail(key[f].queue) \in Seq(Task)
  BY DEF Key
<1>2. Drained(key[f]) \in Key /\ Drained(key[f]).queue = Tail(key[f].queue) /\ Drained(key[f]).at = "start"
  <2>1. CASE Len(key[f].queue) = 1
    <3>1. Drained(key[f]) = Idle
      BY <2>1 DEF Drained
    <3>2. Tail(key[f].queue) = <<>>
      <4>1. Tail(key[f].queue) \in Seq(Task) /\ Len(Tail(key[f].queue)) = 0
        BY <1>1, <2>1
      <4>2. \A q \in Seq(Task) : q # <<>> => Len(q) \in Nat \ {0}
        BY EmptySeq
      <4> QED
        BY <4>1, <4>2
    <3> QED
      BY <3>1, <3>2, IdleIsKey
  <2>2. CASE Len(key[f].queue) # 1
    BY <1>1, <2>2, IdleIsKey DEF Drained, Idle, Key
  <2> QED
    BY <2>1, <2>2
<1>3. key' = [key EXCEPT ![f] = Drained(key[f])]
  BY DEF Done
<1> HIDE DEF Drained
<1> QED
  BY <1>2, <1>3 DEF Finishes, OthersSame

LEMMA KeyAt ==
  ASSUME key \in [File -> Key], NEW f \in File,
         NEW at \in {"made", "temp", "renamed", "condemned", "unlinked"}, At(f, at)
  PROVE  /\ key' \in [File -> Key] /\ Moves(f, at)
         /\ key'[f].born = key[f].born /\ key'[f].judged = key[f].judged
<1>1. key[f] \in Key
  OBVIOUS
<1> QED
  BY <1>1 DEF Key, At, Moves, OthersSame

(* A task more at the end, and one less at the head.                       *)
LEMMA QueueFacts ==
  ASSUME NEW q \in Seq(Task)
  PROVE  /\ DOMAIN q = 1..Len(q) /\ Len(q) \in Nat
         /\ \A i \in DOMAIN q : q[i] \in Task
         /\ q # <<>> => /\ 1 \in DOMAIN q /\ Head(q) = q[1]
                        /\ Tail(q) \in Seq(Task) /\ Len(Tail(q)) = Len(q) - 1
                        /\ \A i \in DOMAIN Tail(q) : i + 1 \in DOMAIN q /\ Tail(q)[i] = q[i + 1]
                        /\ \A i \in DOMAIN q : i # 1 => i - 1 \in DOMAIN Tail(q) /\ Tail(q)[i - 1] = q[i]
         /\ \A t \in Task :
              /\ Append(q, t) \in Seq(Task) /\ Append(q, t) # <<>>
              /\ DOMAIN Append(q, t) = 1..(Len(q) + 1) /\ Append(q, t)[Len(q) + 1] = t
              /\ \A i \in DOMAIN q : Append(q, t)[i] = q[i]
              /\ q # <<>> => Head(Append(q, t)) = Head(q)
OBVIOUS

-----------------------------------------------------------------------------
(* Types.                                                                  *)
(* TypeOK in four parts.                                                   *)
StoreOK ==
  /\ dir \in BOOLEAN /\ litter \in Age /\ now \in Nat /\ horizon \in Nat
  /\ disk \in [File -> Record] /\ tmp \in [File -> Age]
  /\ asked \in [File -> Nat] /\ floor \in [File -> Nat]
  /\ behind \subseteq File /\ excess \in BOOLEAN
Scan == [on : BOOLEAN, todo : SUBSET File, found : [File -> Nat],
         log : [File -> {"none", "set", "gone"}], dirty : BOOLEAN]
LookupOK == index \in [File -> Nat] /\ cold \in BOOLEAN /\ scan \in Scan
Evict == [at : {"idle", "pass", "over", "pick", "wait"}, pass : {0, 1}, file : File,
          todo : SUBSET File, entry : [File -> Nat], same : SUBSET File, stale : BOOLEAN]
CallersOK ==
  /\ purge \in [at : {"idle", "listing", "files", "wait", "temps", "rmdir", "end"}, todo : SUBSET File]
  /\ list \in [at : {"idle", "purging", "listing", "files", "wait"}, todo : SUBSET File]
  /\ evictTail \in Seq(File) /\ evict \in Evict
SpentOK == spent \in [Step -> Nat]

LEMMA TypeParts ==
  TypeOK <=> StoreOK /\ key \in [File -> Key] /\ LookupOK /\ CallersOK /\ SpentOK
BY DEF TypeOK, StoreOK, Key, LookupOK, Scan, CallersOK, Evict, SpentOK

LEMMA NoneFacts ==
  /\ NoScan \in Scan /\ NoScan.on = FALSE /\ \A f \in File : NoScan.found[f] = 0 /\ NoScan.log[f] = "none"
  /\ NoEvict \in Evict /\ NoEvict.at = "idle" /\ NoEvict.same = {} /\ NoEvict.todo = {}
  /\ NoEvict.stale = FALSE /\ NoEvict.pass = 0
<1>1. (CHOOSE f \in File : TRUE) \in File
  BY RecoveryDraftsAssumption
<1> QED
  BY <1>1 DEF NoScan, Scan, NoEvict, Evict

-----------------------------------------------------------------------------
(* What each action does to the queue of its file.                         *)
LEMMA CallKey ==
  ASSUME TypeOK, NEW f \in File, Write(f) \/ Delete(f)
  PROVE  /\ key' \in [File -> Key]
         /\ \E t \in Task : Enqueues(f, t) /\ t.kind \in {"write", "delete"} /\ t.no = asked[f] + 1
<1>1. key \in [File -> Key] /\ asked \in [File -> Nat]
  BY TypeParts DEF StoreOK
<1> DEFINE v == key[f].version + 1
           w == [kind |-> "write", no |-> asked[f] + 1, version |-> v]
           d == [Unnumbered("delete") EXCEPT !.no = asked[f] + 1]
<1>2. v \in Nat
  BY <1>1 DEF Key
<1>3. w \in Task /\ w.kind = "write" /\ w.no = asked[f] + 1
  BY <1>1, <1>2 DEF Task
<1>4. d \in Task /\ d.kind = "delete" /\ d.no = asked[f] + 1
  BY <1>1 DEF Task, Unnumbered
<1>5. CASE Write(f)
  <2>1. key' = [key EXCEPT ![f] = Queued([@ EXCEPT !.version = v], w)]
    BY <1>5 DEF Write
  <2> HIDE DEF w
  <2> QED
    BY <1>1, <1>2, <1>3, <2>1, KeyEnqueues
<1>6. CASE Delete(f)
  <2>1. key' = [key EXCEPT ![f] = Queued([@ EXCEPT !.version = v], d)]
    BY <1>6 DEF Delete
  <2> HIDE DEF d
  <2> QED
    BY <1>1, <1>2, <1>4, <2>1, KeyEnqueues
<1> QED
  BY <1>5, <1>6

LEMMA RunKey ==
  ASSUME TypeOK, NEW f \in File, NEW kind \in {"read", "purge", "load", "evict"}, Run(f, Unnumbered(kind))
  PROVE  key' \in [File -> Key] /\ \E t \in Task : Enqueues(f, t) /\ t.kind = kind
<1>1. key \in [File -> Key]
  BY TypeParts
<1>2. Unnumbered(kind) \in Task /\ Unnumbered(kind).kind = kind
  BY DEF Task, Unnumbered
<1> QED
  BY <1>1, <1>2, KeyEnqueues DEF Run

LEMMA TaskKey ==
  ASSUME TypeOK, NEW f \in File, Read(f) \/ PurgeAsks(f) \/ ListLoads(f)
  PROVE  /\ key' \in [File -> Key]
         /\ \E t \in Task : Enqueues(f, t) /\ t.kind \in {"read", "purge", "load"}
<1>1. \E kind \in {"read", "purge", "load"} : Run(f, Unnumbered(kind))
  BY DEF Read, PurgeAsks, ListLoads
<1> QED
  BY <1>1, RunKey

LEMMA PickKey ==
  ASSUME TypeOK, NEW f \in File, PicksVictim(f), f # evict.file
  PROVE  /\ key' \in [File -> Key]
         /\ \E t \in Task : Enqueues(f, t) /\ t.kind = "evict"
<1>1. Run(f, Unnumbered("evict"))
  BY DEF PicksVictim
<1> QED
  BY <1>1, RunKey

Finishing(f) ==
  \/ WriteIsSuperseded(f) \/ WriteGivesUp(f) \/ WriteFails(f) \/ WriteIsSaved(f)
  \/ Keeps(f) \/ EvictKeeps(f) \/ FindsNothing(f) \/ Forgets(f)
  \/ Unlinks(f) /\ Running(f, "purge", {"condemned"})

LEMMA DoneKey ==
  ASSUME TypeOK, Shape, NEW f \in File, Finishing(f)
  PROVE  key' \in [File -> Key] /\ Finishes(f)
<1>1. key[f].queue # <<>>
  BY DEF Finishing, WriteIsSuperseded, WriteGivesUp, WriteFails, WriteIsSaved, Keeps, EvictKeeps,
         FindsNothing, Forgets, Missing, Running, Shape
<1>2. Done(f)
  BY DEF Finishing, WriteIsSuperseded, WriteGivesUp, WriteFails, WriteIsSaved, Keeps, EvictKeeps,
         FindsNothing, Forgets, Unlinks
<1> QED
  BY <1>1, <1>2, TypeParts, KeyDone

LEMMA MoveKey ==
  ASSUME TypeOK, NEW f \in File
  PROVE  /\ WriteStarts(f) \/ WriteRetries(f) =>
              key' \in [File -> Key] /\ Moves(f, "made") /\ key'[f].born \in {key[f].born, now + 1}
         /\ WriteStarts(f) => key'[f].born = now + 1
         /\ WriteRetries(f) => key'[f].born = key[f].born
         /\ WriteOpensTemp(f) =>
              key' \in [File -> Key] /\ Moves(f, "temp") /\ key'[f].born = key[f].born
         /\ WriteRenames(f) => key' \in [File -> Key] /\ Moves(f, "renamed")
         /\ Looks(f) => key' \in [File -> Key] /\ Moves(f, "condemned") /\ key'[f].judged = disk[f]
         /\ Unlinks(f) /\ ~Running(f, "purge", {"condemned"}) =>
              key' \in [File -> Key] /\ Moves(f, "unlinked")
<1>1. key \in [File -> Key] /\ now + 1 \in Nat /\ disk[f] \in Record /\ key[f] \in Key
  BY TypeParts DEF StoreOK
<1>2. ASSUME WriteStarts(f)
      PROVE  key' \in [File -> Key] /\ Moves(f, "made") /\ key'[f].born = now + 1
  <2> DEFINE k == [key[f] EXCEPT !.at = "made", !.born = now + 1]
  <2>1. k \in Key /\ k.queue = key[f].queue /\ k.at = "made" /\ k.born = now + 1
    BY <1>1 DEF Key
  <2>2. key' = [key EXCEPT ![f] = k]
    BY <1>1, <1>2 DEF WriteStarts, Key
  <2> HIDE DEF k
  <2> QED
    BY <1>1, <2>1, <2>2 DEF Moves, OthersSame
<1>3. ASSUME WriteRetries(f)
      PROVE  key' \in [File -> Key] /\ Moves(f, "made") /\ key'[f].born = key[f].born
  <2> DEFINE k == [key[f] EXCEPT !.at = "made", !.attempt = 1]
  <2>1. k \in Key /\ k.queue = key[f].queue /\ k.at = "made" /\ k.born = key[f].born
    BY <1>1 DEF Key
  <2>2. key' = [key EXCEPT ![f] = k]
    BY <1>1, <1>3 DEF WriteRetries, Key
  <2> HIDE DEF k
  <2> QED
    BY <1>1, <2>1, <2>2 DEF Moves, OthersSame
<1>4. ASSUME Looks(f)
      PROVE  key' \in [File -> Key] /\ Moves(f, "condemned") /\ key'[f].judged = disk[f]
  <2> DEFINE k == [key[f] EXCEPT !.at = "condemned", !.judged = disk[f]]
  <2>1. k \in Key /\ k.queue = key[f].queue /\ k.at = "condemned" /\ k.judged = disk[f]
    BY <1>1 DEF Key
  <2>2. key' = [key EXCEPT ![f] = k]
    BY <1>1, <1>4 DEF Looks, Key
  <2> HIDE DEF k
  <2> QED
    BY <1>1, <2>1, <2>2 DEF Moves, OthersSame
<1>5. WriteOpensTemp(f) =>
        key' \in [File -> Key] /\ Moves(f, "temp") /\ key'[f].born = key[f].born
  BY <1>1, KeyAt DEF WriteOpensTemp
<1>6. WriteRenames(f) => key' \in [File -> Key] /\ Moves(f, "renamed")
  BY <1>1, KeyAt DEF WriteRenames
<1>7. Unlinks(f) /\ ~Running(f, "purge", {"condemned"}) =>
        key' \in [File -> Key] /\ Moves(f, "unlinked")
  BY <1>1, KeyAt DEF Unlinks
<1> QED
  BY <1>2, <1>3, <1>4, <1>5, <1>6, <1>7

LEMMA KeyTyped ==
  ASSUME TypeOK, Shape, [Next]_vars
  PROVE  key' \in [File -> Key]
<1>0. CASE UNCHANGED vars
  BY TypeParts, <1>0 DEF vars, keys
<1>1. ASSUME NEW f \in File, Write(f) PROVE key' \in [File -> Key]
  BY <1>1, CallKey
<1>2. ASSUME NEW f \in File, Delete(f) PROVE key' \in [File -> Key]
  BY <1>2, CallKey
<1>3. ASSUME NEW f \in File, Read(f) PROVE key' \in [File -> Key]
  BY <1>3, TaskKey
<1>4. ASSUME NEW f \in File, WriteIsSuperseded(f) PROVE key' \in [File -> Key]
  BY <1>4, DoneKey DEF Finishing
<1>5. ASSUME NEW f \in File, WriteStarts(f) PROVE key' \in [File -> Key]
  BY <1>5, MoveKey
<1>6. ASSUME NEW f \in File, WriteOpensTemp(f) PROVE key' \in [File -> Key]
  BY <1>6, MoveKey
<1>7. ASSUME NEW f \in File, WriteRenames(f) PROVE key' \in [File -> Key]
  BY <1>7, MoveKey
<1>8. ASSUME NEW f \in File, WriteRetries(f) PROVE key' \in [File -> Key]
  BY <1>8, MoveKey
<1>9. ASSUME NEW f \in File, WriteGivesUp(f) PROVE key' \in [File -> Key]
  BY <1>9, DoneKey DEF Finishing
<1>10. ASSUME NEW f \in File, WriteFails(f) PROVE key' \in [File -> Key]
  BY <1>10, DoneKey DEF Finishing
<1>11. ASSUME NEW f \in File, WriteIsSaved(f) PROVE key' \in [File -> Key]
  BY <1>11, DoneKey DEF Finishing
<1>12. ASSUME NEW f \in File, Looks(f) PROVE key' \in [File -> Key]
  BY <1>12, MoveKey
<1>13. ASSUME NEW f \in File, Keeps(f) PROVE key' \in [File -> Key]
  BY <1>13, DoneKey DEF Finishing
<1>14. ASSUME NEW f \in File, EvictKeeps(f) PROVE key' \in [File -> Key]
  BY <1>14, DoneKey DEF Finishing
<1>15. ASSUME NEW f \in File, Unlinks(f) PROVE key' \in [File -> Key]
  BY <1>15, DoneKey, MoveKey DEF Finishing
<1>16. ASSUME NEW f \in File, FindsNothing(f) PROVE key' \in [File -> Key]
  BY <1>16, DoneKey DEF Finishing
<1>17. ASSUME NEW f \in File, Forgets(f) PROVE key' \in [File -> Key]
  BY <1>17, DoneKey DEF Finishing
<1>18. ASSUME NEW f \in File, ScanStats(f) PROVE key' \in [File -> Key]
  BY TypeParts, <1>18 DEF ScanStats, keys
<1>19. ASSUME NEW f \in File, PicksVictim(f) PROVE key' \in [File -> Key]
  <2>1. CASE f = evict.file
    BY <1>19, <2>1, TypeParts DEF PicksVictim
  <2>2. CASE f # evict.file
    BY <1>19, <2>2, PickKey
  <2> QED
    BY <2>1, <2>2
<1>20. ASSUME NEW f \in File, PurgeAsks(f) PROVE key' \in [File -> Key]
  BY <1>20, TaskKey
<1>21. ASSUME NEW f \in File, ListLoads(f) PROVE key' \in [File -> Key]
  BY <1>21, TaskKey
<1>22. ASSUME NEW f \in File, OtherRemoves(f) PROVE key' \in [File -> Key]
  BY TypeParts, <1>22 DEF OtherRemoves, keys
<1>23. ASSUME NEW f \in File, NEW bad \in BOOLEAN, OtherWrites(f, bad) PROVE key' \in [File -> Key]
  BY TypeParts, <1>23 DEF OtherWrites, keys
<1>24. CASE EvictBegins
  BY TypeParts, <1>24 DEF EvictBegins, keys
<1>25. CASE ScanBegins
  BY TypeParts, <1>25 DEF ScanBegins, keys
<1>26. CASE ScanEnds
  BY TypeParts, <1>26 DEF ScanEnds, keys
<1>27. CASE Warm
  BY TypeParts, <1>27 DEF Warm, keys
<1>28. CASE Sorts
  BY TypeParts, <1>28 DEF Sorts, keys
<1>29. CASE PassEnds
  BY TypeParts, <1>29 DEF PassEnds, keys
<1>30. CASE PurgeLists
  BY TypeParts, <1>30 DEF PurgeLists, keys
<1>31. CASE PurgeTemps
  BY TypeParts, <1>31 DEF PurgeTemps, keys
<1>32. CASE PurgeChecksEmpty
  BY TypeParts, <1>32 DEF PurgeChecksEmpty, keys
<1>33. CASE PurgeRmdir
  BY TypeParts, <1>33 DEF PurgeRmdir, keys
<1>34. CASE PurgeEnds
  BY TypeParts, <1>34 DEF PurgeEnds, keys
<1>35. CASE List
  BY TypeParts, <1>35 DEF List, keys
<1>36. CASE ListNames
  BY TypeParts, <1>36 DEF ListNames, keys
<1>37. CASE ListEnds
  BY TypeParts, <1>37 DEF ListEnds, keys
<1>38. CASE TimePasses
  BY TypeParts, <1>38 DEF TimePasses, keys
<1>39. CASE Crash
  BY <1>39, IdleIsKey DEF Crash
<1> QED
  BY <1>0, <1>1, <1>2, <1>3, <1>4, <1>5, <1>6, <1>7, <1>8, <1>9, <1>10, <1>11, <1>12, <1>13, <1>14, <1>15, <1>16, <1>17, <1>18, <1>19, <1>20, <1>21, <1>22, <1>23, <1>24, <1>25, <1>26, <1>27, <1>28, <1>29, <1>30, <1>31, <1>32, <1>33, <1>34, <1>35, <1>36, <1>37, <1>38, <1>39
     DEF Next, Calls, Writes, Removals, Evicts, Purges, Lists

LEMMA StoreTyped ==
  ASSUME StoreOK, key \in [File -> Key], Shape, [Next]_vars
  PROVE  StoreOK'
<1> USE DEF StoreOK
<1>0. CASE UNCHANGED vars
  BY <1>0 DEF vars, store, keys, ghost
<1>1. ASSUME NEW f \in File, Write(f) PROVE StoreOK'
  BY <1>1 DEF Write, Asks, store, keys, ghost
<1>2. ASSUME NEW f \in File, Delete(f) PROVE StoreOK'
  BY <1>2 DEF Delete, Asks, store, keys, ghost
<1>3. ASSUME NEW f \in File, Read(f) PROVE StoreOK'
  BY <1>3 DEF Read, store, keys, ghost
<1>4. ASSUME NEW f \in File, WriteIsSuperseded(f) PROVE StoreOK'
  BY <1>4 DEF WriteIsSuperseded, store, keys, ghost
<1>5. ASSUME NEW f \in File, WriteStarts(f) PROVE StoreOK'
  BY <1>5 DEF WriteStarts, store, keys, ghost, Age, Aged
<1>6. ASSUME NEW f \in File, WriteOpensTemp(f) PROVE StoreOK'
  BY <1>6 DEF WriteOpensTemp, store, keys, ghost, Age, Aged
<1>7. ASSUME NEW f \in File, WriteRenames(f) PROVE StoreOK'
  <2>1. [no |-> Head(key[f].queue).no, born |-> key[f].born, bad |-> FALSE] \in Record
    <3>1. key[f].queue \in Seq(Task) /\ key[f].queue # <<>> /\ key[f].born \in Nat
      BY <1>7 DEF WriteRenames, Running, Key
    <3>2. Head(key[f].queue) \in Task
      BY <3>1
    <3> QED
      BY <3>1, <3>2 DEF Task, Record
  <2> QED
    BY <1>7, <2>1 DEF WriteRenames, keys, ghost, Age
<1>8. ASSUME NEW f \in File, WriteRetries(f) PROVE StoreOK'
  BY <1>8 DEF WriteRetries, store, keys, ghost
<1>9. ASSUME NEW f \in File, WriteGivesUp(f) PROVE StoreOK'
  BY <1>9 DEF WriteGivesUp, store, keys, ghost
<1>10. ASSUME NEW f \in File, WriteFails(f) PROVE StoreOK'
  BY <1>10 DEF WriteFails, store, keys, ghost, Age
<1>11. ASSUME NEW f \in File, WriteIsSaved(f) PROVE StoreOK'
  <2>1. key[f].queue \in Seq(Task) /\ key[f].queue # <<>>
    BY <1>11 DEF WriteIsSaved, Running, Key, Shape
  <2>2. Head(key[f].queue).no \in Nat
    <3>1. Head(key[f].queue) \in Task
      BY <2>1
    <3> QED
      BY <3>1 DEF Task
  <2>3. behind' \subseteq File
    BY <1>11 DEF WriteIsSaved, IndexSet
  <2> QED
    BY <1>11, <2>2, <2>3 DEF WriteIsSaved, store, keys, ghost
<1>12. ASSUME NEW f \in File, Looks(f) PROVE StoreOK'
  BY <1>12 DEF Looks, store, keys, ghost
<1>13. ASSUME NEW f \in File, Keeps(f) PROVE StoreOK'
  <2>1. key[f].queue \in Seq(Task) /\ key[f].queue # <<>>
    BY <1>13 DEF Keeps, Running, Key, Shape
  <2>2. Head(key[f].queue).no \in Nat
    <3>1. Head(key[f].queue) \in Task
      BY <2>1
    <3> QED
      BY <3>1 DEF Task
  <2> QED
    BY <1>13, <2>2 DEF Keeps, Answered, store, keys, ghost
<1>14. ASSUME NEW f \in File, EvictKeeps(f) PROVE StoreOK'
  <2>1. behind' \subseteq File
    BY <1>14 DEF EvictKeeps, IndexSet
  <2> QED
    BY <1>14, <2>1 DEF EvictKeeps, store, keys, ghost
<1>15. ASSUME NEW f \in File, Unlinks(f) PROVE StoreOK'
  <2>1. behind' \subseteq File /\ disk' \in [File -> Record]
    BY <1>15, IdleIsKey DEF Unlinks
  <2> QED
    BY <1>15, <2>1 DEF Unlinks, store, keys, ghost
<1>16. ASSUME NEW f \in File, FindsNothing(f) PROVE StoreOK'
  <2>1. key[f].queue \in Seq(Task) /\ key[f].queue # <<>>
    BY <1>16 DEF FindsNothing, Running, Key, Shape
  <2>2. Head(key[f].queue).no \in Nat
    <3>1. Head(key[f].queue) \in Task
      BY <2>1
    <3> QED
      BY <3>1 DEF Task
  <2> QED
    BY <1>16, <2>2 DEF FindsNothing, Answered, store, keys, ghost
<1>17. ASSUME NEW f \in File, Forgets(f) PROVE StoreOK'
  <2>1. key[f].queue \in Seq(Task) /\ key[f].queue # <<>>
    BY <1>17 DEF Forgets, Running, Key, Shape
  <2>2. Head(key[f].queue).no \in Nat
    <3>1. Head(key[f].queue) \in Task
      BY <2>1
    <3> QED
      BY <3>1 DEF Task
  <2> QED
    BY <1>17, <2>2 DEF Forgets, Answered, IndexSet, store, keys, ghost
<1>18. ASSUME NEW f \in File, ScanStats(f) PROVE StoreOK'
  BY <1>18 DEF ScanStats, store, keys, ghost
<1>19. ASSUME NEW f \in File, PicksVictim(f) PROVE StoreOK'
  BY <1>19 DEF PicksVictim, store, keys, ghost
<1>20. ASSUME NEW f \in File, PurgeAsks(f) PROVE StoreOK'
  BY <1>20 DEF PurgeAsks, store, keys, ghost
<1>21. ASSUME NEW f \in File, ListLoads(f) PROVE StoreOK'
  BY <1>21 DEF ListLoads, store, keys, ghost
<1>22. ASSUME NEW f \in File, OtherRemoves(f) PROVE StoreOK'
  BY <1>22, IdleIsKey DEF OtherRemoves, keys, ghost
<1>23. ASSUME NEW f \in File, NEW bad \in BOOLEAN, OtherWrites(f, bad) PROVE StoreOK'
  <2>1. now + 1 \in Nat /\ [no |-> 0, born |-> now + 1, bad |-> bad] \in Record
    BY DEF Record
  <2> QED
    BY <1>23, <2>1 DEF OtherWrites, keys, ghost
<1>24. CASE EvictBegins
  BY <1>24 DEF EvictBegins, store, keys, ghost
<1>25. CASE ScanBegins
  BY <1>25 DEF ScanBegins, store, keys, ghost
<1>26. CASE ScanEnds
  BY <1>26 DEF ScanEnds, store, keys, ghost
<1>27. CASE Warm
  BY <1>27 DEF Warm, store, keys, ghost
<1>28. CASE Sorts
  BY <1>28 DEF Sorts, store, keys, ghost
<1>29. CASE PassEnds
  BY <1>29 DEF PassEnds, store, keys, ghost
<1>30. CASE PurgeLists
  BY <1>30 DEF PurgeLists, store, keys, ghost
<1>31. CASE PurgeTemps
  BY <1>31 DEF PurgeTemps, store, keys, ghost, Age, Aged
<1>32. CASE PurgeChecksEmpty
  BY <1>32 DEF PurgeChecksEmpty, store, keys, ghost
<1>33. CASE PurgeRmdir
  BY <1>33 DEF PurgeRmdir, store, keys, ghost
<1>34. CASE PurgeEnds
  BY <1>34 DEF PurgeEnds, store, keys, ghost
<1>35. CASE List
  BY <1>35 DEF List, store, keys, ghost
<1>36. CASE ListNames
  BY <1>36 DEF ListNames, store, keys, ghost
<1>37. CASE ListEnds
  BY <1>37 DEF ListEnds, store, keys, ghost
<1>38. CASE TimePasses
  BY <1>38 DEF TimePasses, store, keys, ghost, Age, Aged
<1>39. CASE Crash
  BY <1>39 DEF Crash, Age
<1> QED
  BY <1>0, <1>1, <1>2, <1>3, <1>4, <1>5, <1>6, <1>7, <1>8, <1>9, <1>10, <1>11, <1>12, <1>13, <1>14, <1>15, <1>16, <1>17, <1>18, <1>19, <1>20, <1>21, <1>22, <1>23, <1>24, <1>25, <1>26, <1>27, <1>28, <1>29, <1>30, <1>31, <1>32, <1>33, <1>34, <1>35, <1>36, <1>37, <1>38, <1>39
     DEF Next, Calls, Writes, Removals, Evicts, Purges, Lists

LEMMA IndexSetFacts ==
  ASSUME LookupOK, NEW f \in File, NEW entry \in Nat, IndexSet(f, entry)
  PROVE  /\ index' \in [File -> Nat] /\ scan' \in Scan
         /\ index'[f] = entry /\ \A g \in File \ {f} : index'[g] = index[g]
         /\ scan'.on = scan.on /\ scan'.todo = scan.todo /\ scan'.found = scan.found
         /\ \A g \in File \ {f} : scan'.log[g] = scan.log[g]
         /\ scan'.log[f] = IF scan.on THEN IF entry = 0 THEN "gone" ELSE "set" ELSE scan.log[f]
         /\ behind' = behind \ {f}
<1>1. index' \in [File -> Nat] /\ index'[f] = entry /\ (\A g \in File \ {f} : index'[g] = index[g])
      /\ behind' = behind \ {f}
  BY DEF IndexSet, LookupOK
<1>2. CASE scan.on
  <2>1. scan' = [scan EXCEPT !.log[f] = IF entry = 0 THEN "gone" ELSE "set"]
    BY <1>2 DEF IndexSet
  <2> QED
    BY <1>1, <1>2, <2>1 DEF LookupOK, Scan
<1>3. CASE ~scan.on
  BY <1>1, <1>3 DEF LookupOK, IndexSet
<1> QED
  BY <1>2, <1>3

LEMMA MarkColdFacts ==
  ASSUME LookupOK, MarkCold
  PROVE  /\ cold' = TRUE /\ scan' \in Scan
         /\ scan'.on = scan.on /\ scan'.todo = scan.todo /\ scan'.found = scan.found /\ scan'.log = scan.log
BY DEF LookupOK, MarkCold, Scan

LEMMA LoggedFacts ==
  ASSUME LookupOK, NEW f \in File
  PROVE  /\ Logged(f) \in Nat
         /\ scan.log[f] = "none" => Logged(f) = scan.found[f]
         /\ scan.log[f] = "set"  => Logged(f) = index[f]
         /\ scan.log[f] = "gone" => Logged(f) = 0
         /\ scan.log[f] \in {"none", "set", "gone"}
<1>1. scan.log[f] \in {"none", "set", "gone"} /\ scan.found[f] \in Nat /\ index[f] \in Nat
  BY DEF LookupOK, Scan
<1> QED
  BY <1>1 DEF Logged

LEMMA LookupTyped ==
  ASSUME StoreOK, LookupOK, [Next]_vars
  PROVE  LookupOK'
<1>0. CASE UNCHANGED vars
  BY <1>0 DEF LookupOK, lookup, vars
<1>1. ASSUME NEW f \in File, Write(f) PROVE LookupOK'
  BY <1>1 DEF LookupOK, lookup, Write
<1>2. ASSUME NEW f \in File, Delete(f) PROVE LookupOK'
  BY <1>2 DEF LookupOK, lookup, Delete
<1>3. ASSUME NEW f \in File, Read(f) PROVE LookupOK'
  BY <1>3 DEF LookupOK, lookup, Read
<1>4. ASSUME NEW f \in File, WriteIsSuperseded(f) PROVE LookupOK'
  BY <1>4 DEF LookupOK, lookup, WriteIsSuperseded
<1>5. ASSUME NEW f \in File, WriteStarts(f) PROVE LookupOK'
  BY <1>5 DEF LookupOK, lookup, WriteStarts
<1>6. ASSUME NEW f \in File, WriteOpensTemp(f) PROVE LookupOK'
  BY <1>6 DEF LookupOK, lookup, WriteOpensTemp
<1>7. ASSUME NEW f \in File, WriteRenames(f) PROVE LookupOK'
  BY <1>7 DEF LookupOK, lookup, WriteRenames
<1>8. ASSUME NEW f \in File, WriteRetries(f) PROVE LookupOK'
  BY <1>8 DEF LookupOK, lookup, WriteRetries
<1>9. ASSUME NEW f \in File, WriteGivesUp(f) PROVE LookupOK'
  BY <1>9 DEF LookupOK, lookup, WriteGivesUp
<1>10. ASSUME NEW f \in File, WriteFails(f) PROVE LookupOK'
  BY <1>10 DEF LookupOK, lookup, WriteFails
<1>11. ASSUME NEW f \in File, WriteIsSaved(f) PROVE LookupOK'
  <2>1. CASE disk[f] # None /\ IndexSet(f, disk[f].born) /\ UNCHANGED cold
    <3>1. disk[f].born \in Nat
      BY DEF StoreOK, Record
    <3> QED
      BY <2>1, <3>1, IndexSetFacts DEF LookupOK
  <2>2. CASE MarkCold /\ UNCHANGED <<index, behind>>
    BY <2>2, MarkColdFacts DEF LookupOK
  <2> QED
    BY <1>11, <2>1, <2>2 DEF WriteIsSaved
<1>12. ASSUME NEW f \in File, Looks(f) PROVE LookupOK'
  BY <1>12 DEF LookupOK, lookup, Looks
<1>13. ASSUME NEW f \in File, Keeps(f) PROVE LookupOK'
  BY <1>13 DEF LookupOK, lookup, Keeps
<1>14. ASSUME NEW f \in File, EvictKeeps(f) PROVE LookupOK'
  <2>1. CASE IndexSet(f, 0)
    BY <1>14, <2>1, IndexSetFacts DEF LookupOK, EvictKeeps
  <2>2. CASE UNCHANGED <<index, scan, behind>>
    BY <1>14, <2>2 DEF LookupOK, EvictKeeps
  <2> QED
    BY <1>14, <2>1, <2>2 DEF EvictKeeps
<1>15. ASSUME NEW f \in File, Unlinks(f) PROVE LookupOK'
  BY <1>15 DEF LookupOK, lookup, Unlinks
<1>16. ASSUME NEW f \in File, FindsNothing(f) PROVE LookupOK'
  BY <1>16 DEF LookupOK, lookup, FindsNothing
<1>17. ASSUME NEW f \in File, Forgets(f) PROVE LookupOK'
  BY <1>17, IndexSetFacts DEF LookupOK, Forgets
<1>18. ASSUME NEW f \in File, ScanStats(f) PROVE LookupOK'
  <2>1. disk[f].born \in Nat
    BY DEF StoreOK, Record
  <2>2. scan' \in Scan
    BY <1>18, <2>1 DEF ScanStats, LookupOK, Scan
  <2> QED
    BY <1>18, <2>2 DEF LookupOK, ScanStats
<1>19. ASSUME NEW f \in File, PicksVictim(f) PROVE LookupOK'
  BY <1>19 DEF LookupOK, lookup, PicksVictim
<1>20. ASSUME NEW f \in File, PurgeAsks(f) PROVE LookupOK'
  BY <1>20 DEF LookupOK, lookup, PurgeAsks
<1>21. ASSUME NEW f \in File, ListLoads(f) PROVE LookupOK'
  BY <1>21 DEF LookupOK, lookup, ListLoads
<1>22. ASSUME NEW f \in File, OtherRemoves(f) PROVE LookupOK'
  BY <1>22 DEF LookupOK, lookup, OtherRemoves
<1>23. ASSUME NEW f \in File, NEW bad \in BOOLEAN, OtherWrites(f, bad) PROVE LookupOK'
  BY <1>23 DEF LookupOK, lookup, OtherWrites
<1>24. CASE EvictBegins
  BY <1>24 DEF LookupOK, lookup, EvictBegins
<1>25. CASE ScanBegins
  <2>1. scan' \in Scan
    <3>1. Live \in SUBSET File
      BY DEF Live
    <3>2. [NoScan EXCEPT !.on = TRUE, !.todo = Live] \in Scan
      BY <3>1, NoneFacts DEF Scan
    <3> QED
      BY <1>25, <3>2 DEF ScanBegins
  <2> QED
    BY <1>25, <2>1 DEF LookupOK, ScanBegins
<1>26. CASE ScanEnds
  <2>1. index' \in [File -> Nat]
    BY <1>26, LoggedFacts DEF ScanEnds
  <2>2. scan.dirty \in BOOLEAN
    BY DEF LookupOK, Scan
  <2> QED
    BY <1>26, <2>1, <2>2, NoneFacts DEF LookupOK, ScanEnds
<1>27. CASE Warm
  BY <1>27 DEF LookupOK, lookup, Warm
<1>28. CASE Sorts
  BY <1>28 DEF LookupOK, lookup, Sorts
<1>29. CASE PassEnds
  BY <1>29, MarkColdFacts DEF LookupOK, PassEnds
<1>30. CASE PurgeLists
  BY <1>30 DEF LookupOK, lookup, PurgeLists
<1>31. CASE PurgeTemps
  BY <1>31 DEF LookupOK, lookup, PurgeTemps
<1>32. CASE PurgeChecksEmpty
  BY <1>32 DEF LookupOK, lookup, PurgeChecksEmpty
<1>33. CASE PurgeRmdir
  BY <1>33 DEF LookupOK, lookup, PurgeRmdir
<1>34. CASE PurgeEnds
  BY <1>34, MarkColdFacts DEF LookupOK, PurgeEnds
<1>35. CASE List
  BY <1>35, MarkColdFacts DEF LookupOK, List
<1>36. CASE ListNames
  BY <1>36 DEF LookupOK, lookup, ListNames
<1>37. CASE ListEnds
  BY <1>37 DEF LookupOK, lookup, ListEnds
<1>38. CASE TimePasses
  BY <1>38 DEF LookupOK, lookup, TimePasses
<1>39. CASE Crash
  BY <1>39, NoneFacts DEF LookupOK, Crash
<1> QED
  BY <1>0, <1>1, <1>2, <1>3, <1>4, <1>5, <1>6, <1>7, <1>8, <1>9, <1>10, <1>11, <1>12, <1>13, <1>14, <1>15, <1>16, <1>17, <1>18, <1>19, <1>20, <1>21, <1>22, <1>23, <1>24, <1>25, <1>26, <1>27, <1>28, <1>29, <1>30, <1>31, <1>32, <1>33, <1>34, <1>35, <1>36, <1>37, <1>38, <1>39
     DEF Next, Calls, Writes, Removals, Evicts, Purges, Lists

LEMMA EvictFacts ==
  ASSUME NEW e \in Evict, NEW f \in File
  PROVE  /\ Unpicked(e, f) \in Evict
         /\ Unpicked(e, f).same = e.same \ {f} /\ Unpicked(e, f).at = e.at /\ Unpicked(e, f).file = e.file
         /\ Unpicked(e, f).todo = e.todo /\ Unpicked(e, f).entry = e.entry
BY DEF Unpicked, Evict

LEMMA EvictedFacts ==
  ASSUME CallersOK, NEW outcome
  PROVE  /\ Evicted(outcome) \in Evict
         /\ Evicted(outcome).at = "pick" /\ Evicted(outcome).file = evict.file
         /\ Evicted(outcome).same = evict.same
         /\ Evicted(outcome).todo = evict.todo /\ Evicted(outcome).entry = evict.entry
<1>1. (evict.stale \/ outcome = "stale") \in BOOLEAN
  OBVIOUS
<1>2. evict \in Evict
  BY DEF CallersOK
<1> DEFINE b == evict.stale \/ outcome = "stale"
<1>3. Evicted(outcome) = [evict EXCEPT !.at = "pick", !.stale = b]
  BY DEF Evicted
<1> HIDE DEF b
<1> QED
  BY <1>1, <1>2, <1>3 DEF Evict, b

LEMMA ResumesTyped ==
  ASSUME CallersOK, NEW kind, Resumes(kind)
  PROVE  /\ purge' \in [at : {"idle", "listing", "files", "wait", "temps", "rmdir", "end"}, todo : SUBSET File]
         /\ list' \in [at : {"idle", "purging", "listing", "files", "wait"}, todo : SUBSET File]
BY DEF CallersOK, Resumes, Onward

LEMMA CallersTyped ==
  ASSUME LookupOK, CallersOK, [Next]_vars
  PROVE  CallersOK'
<1>0. CASE UNCHANGED vars
  BY <1>0 DEF CallersOK, vars
<1>1. ASSUME NEW f \in File, Write(f) PROVE CallersOK'
  BY <1>1 DEF CallersOK, Write
<1>2. ASSUME NEW f \in File, Delete(f) PROVE CallersOK'
  BY <1>2 DEF CallersOK, Delete
<1>3. ASSUME NEW f \in File, Read(f) PROVE CallersOK'
  BY <1>3 DEF CallersOK, Read
<1>4. ASSUME NEW f \in File, WriteIsSuperseded(f) PROVE CallersOK'
  BY <1>4 DEF CallersOK, WriteIsSuperseded
<1>5. ASSUME NEW f \in File, WriteStarts(f) PROVE CallersOK'
  BY <1>5 DEF CallersOK, WriteStarts
<1>6. ASSUME NEW f \in File, WriteOpensTemp(f) PROVE CallersOK'
  BY <1>6 DEF CallersOK, WriteOpensTemp
<1>7. ASSUME NEW f \in File, WriteRenames(f) PROVE CallersOK'
  BY <1>7 DEF CallersOK, WriteRenames
<1>8. ASSUME NEW f \in File, WriteRetries(f) PROVE CallersOK'
  BY <1>8 DEF CallersOK, WriteRetries
<1>9. ASSUME NEW f \in File, WriteGivesUp(f) PROVE CallersOK'
  BY <1>9 DEF CallersOK, WriteGivesUp
<1>10. ASSUME NEW f \in File, WriteFails(f) PROVE CallersOK'
  BY <1>10 DEF CallersOK, WriteFails
<1>11. ASSUME NEW f \in File, WriteIsSaved(f) PROVE CallersOK'
  <2>1. evict' \in Evict
    BY <1>11, EvictFacts DEF CallersOK, WriteIsSaved
  <2> QED
    BY <1>11, <2>1 DEF CallersOK, WriteIsSaved
<1>12. ASSUME NEW f \in File, Looks(f) PROVE CallersOK'
  BY <1>12 DEF CallersOK, Looks
<1>13. ASSUME NEW f \in File, Keeps(f) PROVE CallersOK'
  <2>1. PICK kind : Resumes(kind)
    BY <1>13 DEF Keeps
  <2> QED
    BY <1>13, <2>1, ResumesTyped DEF CallersOK, Keeps
<1>14. ASSUME NEW f \in File, EvictKeeps(f) PROVE CallersOK'
  <2>1. evict' \in Evict
    BY <1>14, EvictFacts, EvictedFacts DEF EvictKeeps
  <2> QED
    BY <1>14, <2>1 DEF CallersOK, EvictKeeps
<1>15. ASSUME NEW f \in File, Unlinks(f) PROVE CallersOK'
  <2>1. CASE Running(f, "purge", {"condemned"})
    BY <1>15, <2>1, ResumesTyped DEF CallersOK, Unlinks
  <2>2. CASE ~Running(f, "purge", {"condemned"})
    BY <1>15, <2>2 DEF CallersOK, Unlinks
  <2> QED
    BY <2>1, <2>2
<1>16. ASSUME NEW f \in File, FindsNothing(f) PROVE CallersOK'
  <2>1. evict' \in Evict
    BY <1>16, EvictedFacts DEF CallersOK, FindsNothing
  <2> QED
    BY <1>16, <2>1, ResumesTyped DEF CallersOK, FindsNothing
<1>17. ASSUME NEW f \in File, Forgets(f) PROVE CallersOK'
  <2>1. evict' \in Evict
    BY <1>17, EvictFacts, EvictedFacts DEF CallersOK, Forgets
  <2> QED
    BY <1>17, <2>1 DEF CallersOK, Forgets
<1>18. ASSUME NEW f \in File, ScanStats(f) PROVE CallersOK'
  BY <1>18 DEF CallersOK, ScanStats
<1>19. ASSUME NEW f \in File, PicksVictim(f) PROVE CallersOK'
  <2>1. evict' \in Evict
    <3>1. evict \in Evict
      BY DEF CallersOK
    <3>2. evict' \in {[evict EXCEPT !.todo = @ \ {f}], [evict EXCEPT !.todo = @ \ {f}, !.at = "wait"]}
      BY Zenon, <1>19 DEF PicksVictim
    <3> QED
      BY ZenonT(60), <3>1, <3>2 DEF Evict
  <2> QED
    BY <1>19, <2>1 DEF CallersOK, PicksVictim
<1>20. ASSUME NEW f \in File, PurgeAsks(f) PROVE CallersOK'
  BY <1>20 DEF CallersOK, PurgeAsks
<1>21. ASSUME NEW f \in File, ListLoads(f) PROVE CallersOK'
  BY <1>21 DEF CallersOK, ListLoads
<1>22. ASSUME NEW f \in File, OtherRemoves(f) PROVE CallersOK'
  BY <1>22 DEF CallersOK, OtherRemoves
<1>23. ASSUME NEW f \in File, NEW bad \in BOOLEAN, OtherWrites(f, bad) PROVE CallersOK'
  BY <1>23 DEF CallersOK, OtherWrites
<1>24. CASE EvictBegins
  <2>1. Tail(evictTail) \in Seq(File) /\ Head(evictTail) \in File
    BY <1>24 DEF CallersOK, EvictBegins
  <2>2. evict' \in Evict
    BY <1>24, <2>1, NoneFacts DEF EvictBegins, Evict
  <2> QED
    BY <1>24, <2>1, <2>2 DEF CallersOK, EvictBegins
<1>25. CASE ScanBegins
  BY <1>25 DEF CallersOK, ScanBegins
<1>26. CASE ScanEnds
  <2>1. evict' \in Evict
    BY <1>26 DEF CallersOK, ScanEnds, Evict
  <2> QED
    BY <1>26, <2>1 DEF CallersOK, ScanEnds
<1>27. CASE Warm
  <2>1. evict' \in Evict
    BY <1>27 DEF CallersOK, Warm, Evict
  <2> QED
    BY <1>27, <2>1 DEF CallersOK, Warm
<1>28. CASE Sorts
  <2>1. evict' \in Evict
    <3> DEFINE entries == {f \in File : index[f] # 0}
    <3>1. CASE Over
      <4>1. evict' = [evict EXCEPT !.at = "pick", !.todo = entries, !.same = entries, !.entry = index]
        BY <1>28, <3>1 DEF Sorts
      <4>2. entries \in SUBSET File /\ index \in [File -> Nat] /\ evict \in Evict
        BY DEF LookupOK, CallersOK
      <4> HIDE DEF entries
      <4> QED
        BY <4>1, <4>2 DEF Evict
    <3>2. CASE ~Over
      BY <1>28, <3>2, NoneFacts DEF Sorts
    <3> QED
      BY <3>1, <3>2
  <2> QED
    BY <1>28, <2>1 DEF CallersOK, Sorts
<1>29. CASE PassEnds
  <2>1. evict.file \in File
    BY DEF CallersOK, Evict
  <2>2. [NoEvict EXCEPT !.at = "pass", !.pass = 1, !.file = evict.file] \in Evict
    BY <2>1, NoneFacts DEF Evict
  <2>3. evict' \in Evict
    BY <1>29, <2>2, NoneFacts DEF PassEnds
  <2> QED
    BY <1>29, <2>3 DEF CallersOK, PassEnds
<1>30. CASE PurgeLists
  BY <1>30 DEF CallersOK, PurgeLists, Live
<1>31. CASE PurgeTemps
  BY <1>31 DEF CallersOK, PurgeTemps
<1>32. CASE PurgeChecksEmpty
  BY <1>32 DEF CallersOK, PurgeChecksEmpty
<1>33. CASE PurgeRmdir
  BY <1>33 DEF CallersOK, PurgeRmdir
<1>34. CASE PurgeEnds
  BY <1>34 DEF CallersOK, PurgeEnds
<1>35. CASE List
  BY <1>35 DEF CallersOK, List, Purging
<1>36. CASE ListNames
  BY <1>36 DEF CallersOK, ListNames, Live
<1>37. CASE ListEnds
  BY <1>37 DEF CallersOK, ListEnds
<1>38. CASE TimePasses
  BY <1>38 DEF CallersOK, TimePasses
<1>39. CASE Crash
  BY <1>39, NoneFacts DEF CallersOK, Crash
<1> QED
  BY <1>0, <1>1, <1>2, <1>3, <1>4, <1>5, <1>6, <1>7, <1>8, <1>9, <1>10, <1>11, <1>12, <1>13, <1>14, <1>15, <1>16, <1>17, <1>18, <1>19, <1>20, <1>21, <1>22, <1>23, <1>24, <1>25, <1>26, <1>27, <1>28, <1>29, <1>30, <1>31, <1>32, <1>33, <1>34, <1>35, <1>36, <1>37, <1>38, <1>39
     DEF Next, Calls, Writes, Removals, Evicts, Purges, Lists

LEMMA SpendTyped ==
  ASSUME SpentOK, NEW k \in Step, Spend(k)
  PROVE  SpentOK'
BY DEF Spend, SpentOK

LEMMA SpentTyped ==
  ASSUME SpentOK, [Next]_vars
  PROVE  SpentOK'
<1>0. CASE UNCHANGED vars
  BY <1>0 DEF SpentOK, vars
<1>1. ASSUME NEW f \in File, Write(f) PROVE SpentOK'
  BY <1>1, SpendTyped DEF Write, Step
<1>2. ASSUME NEW f \in File, Delete(f) PROVE SpentOK'
  BY <1>2, SpendTyped DEF Delete, Step
<1>3. ASSUME NEW f \in File, Read(f) PROVE SpentOK'
  BY <1>3, SpendTyped DEF Read, Step
<1>4. ASSUME NEW f \in File, WriteIsSuperseded(f) PROVE SpentOK'
  BY <1>4 DEF SpentOK, WriteIsSuperseded
<1>5. ASSUME NEW f \in File, WriteStarts(f) PROVE SpentOK'
  BY <1>5 DEF SpentOK, WriteStarts
<1>6. ASSUME NEW f \in File, WriteOpensTemp(f) PROVE SpentOK'
  BY <1>6 DEF SpentOK, WriteOpensTemp
<1>7. ASSUME NEW f \in File, WriteRenames(f) PROVE SpentOK'
  BY <1>7 DEF SpentOK, WriteRenames
<1>8. ASSUME NEW f \in File, WriteRetries(f) PROVE SpentOK'
  BY <1>8 DEF SpentOK, WriteRetries
<1>9. ASSUME NEW f \in File, WriteGivesUp(f) PROVE SpentOK'
  BY <1>9 DEF SpentOK, WriteGivesUp
<1>10. ASSUME NEW f \in File, WriteFails(f) PROVE SpentOK'
  BY <1>10, SpendTyped DEF WriteFails, Step
<1>11. ASSUME NEW f \in File, WriteIsSaved(f) PROVE SpentOK'
  BY <1>11 DEF SpentOK, WriteIsSaved
<1>12. ASSUME NEW f \in File, Looks(f) PROVE SpentOK'
  BY <1>12 DEF SpentOK, Looks
<1>13. ASSUME NEW f \in File, Keeps(f) PROVE SpentOK'
  BY <1>13 DEF SpentOK, Keeps
<1>14. ASSUME NEW f \in File, EvictKeeps(f) PROVE SpentOK'
  BY <1>14 DEF SpentOK, EvictKeeps
<1>15. ASSUME NEW f \in File, Unlinks(f) PROVE SpentOK'
  BY <1>15 DEF SpentOK, Unlinks
<1>16. ASSUME NEW f \in File, FindsNothing(f) PROVE SpentOK'
  BY <1>16 DEF SpentOK, FindsNothing
<1>17. ASSUME NEW f \in File, Forgets(f) PROVE SpentOK'
  BY <1>17 DEF SpentOK, Forgets
<1>18. ASSUME NEW f \in File, ScanStats(f) PROVE SpentOK'
  BY <1>18 DEF SpentOK, ScanStats
<1>19. ASSUME NEW f \in File, PicksVictim(f) PROVE SpentOK'
  BY <1>19 DEF SpentOK, PicksVictim
<1>20. ASSUME NEW f \in File, PurgeAsks(f) PROVE SpentOK'
  BY <1>20 DEF SpentOK, PurgeAsks
<1>21. ASSUME NEW f \in File, ListLoads(f) PROVE SpentOK'
  BY <1>21 DEF SpentOK, ListLoads
<1>22. ASSUME NEW f \in File, OtherRemoves(f) PROVE SpentOK'
  BY <1>22, SpendTyped DEF OtherRemoves, Step
<1>23. ASSUME NEW f \in File, NEW bad \in BOOLEAN, OtherWrites(f, bad) PROVE SpentOK'
  BY <1>23, SpendTyped DEF OtherWrites, Step
<1>24. CASE EvictBegins
  BY <1>24 DEF SpentOK, EvictBegins
<1>25. CASE ScanBegins
  BY <1>25 DEF SpentOK, ScanBegins
<1>26. CASE ScanEnds
  BY <1>26 DEF SpentOK, ScanEnds
<1>27. CASE Warm
  BY <1>27 DEF SpentOK, Warm
<1>28. CASE Sorts
  BY <1>28 DEF SpentOK, Sorts
<1>29. CASE PassEnds
  BY <1>29 DEF SpentOK, PassEnds
<1>30. CASE PurgeLists
  BY <1>30 DEF SpentOK, PurgeLists
<1>31. CASE PurgeTemps
  BY <1>31 DEF SpentOK, PurgeTemps
<1>32. CASE PurgeChecksEmpty
  BY <1>32 DEF SpentOK, PurgeChecksEmpty
<1>33. CASE PurgeRmdir
  BY <1>33 DEF SpentOK, PurgeRmdir
<1>34. CASE PurgeEnds
  BY <1>34 DEF SpentOK, PurgeEnds
<1>35. CASE List
  BY <1>35, SpendTyped DEF List, Step
<1>36. CASE ListNames
  BY <1>36 DEF SpentOK, ListNames
<1>37. CASE ListEnds
  BY <1>37 DEF SpentOK, ListEnds
<1>38. CASE TimePasses
  BY <1>38, SpendTyped DEF TimePasses, Step
<1>39. CASE Crash
  BY <1>39, SpendTyped DEF Crash, Step
<1> QED
  BY <1>0, <1>1, <1>2, <1>3, <1>4, <1>5, <1>6, <1>7, <1>8, <1>9, <1>10, <1>11, <1>12, <1>13, <1>14, <1>15, <1>16, <1>17, <1>18, <1>19, <1>20, <1>21, <1>22, <1>23, <1>24, <1>25, <1>26, <1>27, <1>28, <1>29, <1>30, <1>31, <1>32, <1>33, <1>34, <1>35, <1>36, <1>37, <1>38, <1>39
     DEF Next, Calls, Writes, Removals, Evicts, Purges, Lists

LEMMA TypeKept ==
  ASSUME TypeOK, Shape, [Next]_vars
  PROVE  TypeOK'
<1>1. StoreOK /\ key \in [File -> Key] /\ LookupOK /\ CallersOK /\ SpentOK
  BY TypeParts
<1>2. StoreOK' /\ LookupOK' /\ CallersOK' /\ SpentOK'
  BY <1>1, StoreTyped, LookupTyped, CallersTyped, SpentTyped
<1>3. key' \in [File -> Key]
  BY <1>1, KeyTyped DEF StoreOK
<1> QED
  BY <1>2, <1>3 DEF TypeOK, StoreOK, Key, LookupOK, Scan, CallersOK, Evict, SpentOK

-----------------------------------------------------------------------------
(* Tasks are under way at the heads of their queues.                       *)
Stamped == \A f \in File : disk[f] = None \/ disk[f].born > 0

LEMMA QueueTyped ==
  ASSUME TypeOK, NEW f \in File
  PROVE  key[f] \in Key /\ key[f].queue \in Seq(Task) /\ disk[f] \in Record
BY TypeParts DEF StoreOK, Key

LEMMA ShapeEnqueues ==
  ASSUME TypeOK, Shape, NEW f \in File, NEW t, Enqueues(f, t), Stamped'
  PROVE  Shape'
<1> SUFFICES ASSUME NEW g \in File
             PROVE  /\ key'[g].at # "start" => key'[g].queue # <<>>
                    /\ key'[g].at \in {"made", "temp", "renamed"} => Head(key'[g].queue).kind = "write"
                    /\ key'[g].at \in {"condemned", "unlinked"} =>
                         Head(key'[g].queue).kind \in {"delete", "read", "purge", "evict"}
                    /\ key'[g].at \in {"made", "temp"} => key'[g].born > 0
  BY DEF Shape, Stamped
<1>1. CASE g # f
  BY <1>1 DEF Enqueues, OthersSame, Shape
<1>2. CASE g = f
  <2>1. /\ key'[f].queue = Append(key[f].queue, t) /\ key'[f].at = key[f].at
        /\ key'[f].born = key[f].born /\ t \in Task /\ key[f].queue \in Seq(Task)
    BY QueueTyped DEF Enqueues
  <2>2. key'[f].queue # <<>> /\ (key[f].queue # <<>> => Head(key'[f].queue) = Head(key[f].queue))
    BY <2>1, QueueFacts
  <2> QED
    BY <1>2, <2>1, <2>2 DEF Shape
<1> QED
  BY <1>1, <1>2

LEMMA ShapeFinishes ==
  ASSUME Shape, NEW f \in File, Finishes(f), Stamped'
  PROVE  Shape'
BY DEF Finishes, OthersSame, Shape, Stamped

LEMMA ShapeMoves ==
  ASSUME Shape, NEW f \in File, NEW at, Moves(f, at), Stamped', key[f].queue # <<>>,
         at \in {"made", "temp", "renamed"} => Head(key[f].queue).kind = "write",
         at \in {"condemned", "unlinked"} => Head(key[f].queue).kind \in {"delete", "read", "purge", "evict"},
         at \in {"made", "temp"} => key'[f].born > 0
  PROVE  Shape'
<1> SUFFICES ASSUME NEW g \in File
             PROVE  /\ key'[g].at # "start" => key'[g].queue # <<>>
                    /\ key'[g].at \in {"made", "temp", "renamed"} => Head(key'[g].queue).kind = "write"
                    /\ key'[g].at \in {"condemned", "unlinked"} =>
                         Head(key'[g].queue).kind \in {"delete", "read", "purge", "evict"}
                    /\ key'[g].at \in {"made", "temp"} => key'[g].born > 0
  BY DEF Shape, Stamped
<1>1. CASE g # f
  BY <1>1 DEF Moves, OthersSame, Shape
<1>2. CASE g = f
  BY <1>2 DEF Moves
<1> QED
  BY <1>1, <1>2

LEMMA StampedKept ==
  ASSUME TypeOK, Shape, [Next]_vars
  PROVE  Stamped'
<1>0. CASE UNCHANGED vars
  BY <1>0 DEF Stamped, Shape, vars, store
<1>1. ASSUME NEW f \in File, Write(f) PROVE Stamped'
  BY <1>1 DEF Stamped, Shape, Write, store
<1>2. ASSUME NEW f \in File, Delete(f) PROVE Stamped'
  BY <1>2 DEF Stamped, Shape, Delete, store
<1>3. ASSUME NEW f \in File, Read(f) PROVE Stamped'
  BY <1>3 DEF Stamped, Shape, Read, store
<1>4. ASSUME NEW f \in File, WriteIsSuperseded(f) PROVE Stamped'
  BY <1>4 DEF Stamped, Shape, WriteIsSuperseded, store
<1>5. ASSUME NEW f \in File, WriteStarts(f) PROVE Stamped'
  BY <1>5 DEF Stamped, Shape, WriteStarts, store
<1>6. ASSUME NEW f \in File, WriteOpensTemp(f) PROVE Stamped'
  BY <1>6 DEF Stamped, Shape, WriteOpensTemp, store
<1>7. ASSUME NEW f \in File, WriteRenames(f) PROVE Stamped'
  <2>1. disk' = [disk EXCEPT ![f] = [no |-> Head(key[f].queue).no, born |-> key[f].born, bad |-> FALSE]]
        /\ key[f].at = "temp"
    BY <1>7 DEF WriteRenames, Running
  <2>2. key[f].born > 0 /\ disk \in [File -> Record]
    BY <2>1, TypeParts DEF Shape, StoreOK
  <2> QED
    BY <2>1, <2>2 DEF Stamped, Shape
<1>8. ASSUME NEW f \in File, WriteRetries(f) PROVE Stamped'
  BY <1>8 DEF Stamped, Shape, WriteRetries, store
<1>9. ASSUME NEW f \in File, WriteGivesUp(f) PROVE Stamped'
  BY <1>9 DEF Stamped, Shape, WriteGivesUp, store
<1>10. ASSUME NEW f \in File, WriteFails(f) PROVE Stamped'
  BY <1>10 DEF Stamped, Shape, WriteFails, store
<1>11. ASSUME NEW f \in File, WriteIsSaved(f) PROVE Stamped'
  BY <1>11 DEF Stamped, Shape, WriteIsSaved, store
<1>12. ASSUME NEW f \in File, Looks(f) PROVE Stamped'
  BY <1>12 DEF Stamped, Shape, Looks, store
<1>13. ASSUME NEW f \in File, Keeps(f) PROVE Stamped'
  BY <1>13 DEF Stamped, Shape, Keeps, store
<1>14. ASSUME NEW f \in File, EvictKeeps(f) PROVE Stamped'
  BY <1>14 DEF Stamped, Shape, EvictKeeps, store
<1>15. ASSUME NEW f \in File, Unlinks(f) PROVE Stamped'
  BY <1>15, TypeParts DEF StoreOK, Stamped, Shape, Unlinks
<1>16. ASSUME NEW f \in File, FindsNothing(f) PROVE Stamped'
  BY <1>16 DEF Stamped, Shape, FindsNothing, store
<1>17. ASSUME NEW f \in File, Forgets(f) PROVE Stamped'
  BY <1>17 DEF Stamped, Shape, Forgets, store
<1>18. ASSUME NEW f \in File, ScanStats(f) PROVE Stamped'
  BY <1>18 DEF Stamped, Shape, ScanStats, store
<1>19. ASSUME NEW f \in File, PicksVictim(f) PROVE Stamped'
  BY <1>19 DEF Stamped, Shape, PicksVictim, store
<1>20. ASSUME NEW f \in File, PurgeAsks(f) PROVE Stamped'
  BY <1>20 DEF Stamped, Shape, PurgeAsks, store
<1>21. ASSUME NEW f \in File, ListLoads(f) PROVE Stamped'
  BY <1>21 DEF Stamped, Shape, ListLoads, store
<1>22. ASSUME NEW f \in File, OtherRemoves(f) PROVE Stamped'
  BY <1>22, TypeParts DEF StoreOK, Stamped, Shape, OtherRemoves
<1>23. ASSUME NEW f \in File, NEW bad \in BOOLEAN, OtherWrites(f, bad) PROVE Stamped'
  BY <1>23, TypeParts DEF StoreOK, Stamped, Shape, OtherWrites
<1>24. CASE EvictBegins
  BY <1>24 DEF Stamped, Shape, EvictBegins, store
<1>25. CASE ScanBegins
  BY <1>25 DEF Stamped, Shape, ScanBegins, store
<1>26. CASE ScanEnds
  BY <1>26 DEF Stamped, Shape, ScanEnds, store
<1>27. CASE Warm
  BY <1>27 DEF Stamped, Shape, Warm, store
<1>28. CASE Sorts
  BY <1>28 DEF Stamped, Shape, Sorts, store
<1>29. CASE PassEnds
  BY <1>29 DEF Stamped, Shape, PassEnds, store
<1>30. CASE PurgeLists
  BY <1>30 DEF Stamped, Shape, PurgeLists, store
<1>31. CASE PurgeTemps
  BY <1>31 DEF Stamped, Shape, PurgeTemps, store
<1>32. CASE PurgeChecksEmpty
  BY <1>32 DEF Stamped, Shape, PurgeChecksEmpty, store
<1>33. CASE PurgeRmdir
  BY <1>33 DEF Stamped, Shape, PurgeRmdir, store
<1>34. CASE PurgeEnds
  BY <1>34 DEF Stamped, Shape, PurgeEnds, store
<1>35. CASE List
  BY <1>35 DEF Stamped, Shape, List, store
<1>36. CASE ListNames
  BY <1>36 DEF Stamped, Shape, ListNames, store
<1>37. CASE ListEnds
  BY <1>37 DEF Stamped, Shape, ListEnds, store
<1>38. CASE TimePasses
  BY <1>38 DEF Stamped, Shape, TimePasses, store
<1>39. CASE Crash
  BY <1>39 DEF Stamped, Shape, Crash, store
<1> QED
  BY <1>0, <1>1, <1>2, <1>3, <1>4, <1>5, <1>6, <1>7, <1>8, <1>9, <1>10, <1>11, <1>12, <1>13, <1>14, <1>15, <1>16, <1>17, <1>18, <1>19, <1>20, <1>21, <1>22, <1>23, <1>24, <1>25, <1>26, <1>27, <1>28, <1>29, <1>30, <1>31, <1>32, <1>33, <1>34, <1>35, <1>36, <1>37, <1>38, <1>39
     DEF Next, Calls, Writes, Removals, Evicts, Purges, Lists

LEMMA ShapeKept ==
  ASSUME TypeOK, Shape, [Next]_vars
  PROVE  Shape'
<1>0. CASE UNCHANGED vars
  BY <1>0, StampedKept DEF Stamped, Shape, vars, keys
<1>1. ASSUME NEW f \in File, Write(f) PROVE Shape'
  BY <1>1, CallKey, StampedKept, ShapeEnqueues
<1>2. ASSUME NEW f \in File, Delete(f) PROVE Shape'
  BY <1>2, CallKey, StampedKept, ShapeEnqueues
<1>3. ASSUME NEW f \in File, Read(f) PROVE Shape'
  BY <1>3, TaskKey, StampedKept, ShapeEnqueues
<1>4. ASSUME NEW f \in File, WriteIsSuperseded(f) PROVE Shape'
  BY <1>4, DoneKey, StampedKept, ShapeFinishes DEF Finishing
<1>5. ASSUME NEW f \in File, WriteStarts(f) PROVE Shape'
  <2>1. key[f].queue # <<>> /\ Head(key[f].queue).kind = "write" /\ now + 1 > 0
    BY <1>5, TypeParts DEF WriteStarts, Running, StoreOK
  <2> QED
    BY <1>5, <2>1, MoveKey, StampedKept, ShapeMoves
<1>6. ASSUME NEW f \in File, WriteOpensTemp(f) PROVE Shape'
  <2>1. key[f].queue # <<>> /\ Head(key[f].queue).kind = "write" /\ key[f].born > 0
    BY <1>6 DEF WriteOpensTemp, Missing, Running, Shape
  <2> QED
    BY <1>6, <2>1, MoveKey, StampedKept, ShapeMoves
<1>7. ASSUME NEW f \in File, WriteRenames(f) PROVE Shape'
  <2>1. key[f].queue # <<>> /\ Head(key[f].queue).kind = "write"
    BY <1>7 DEF WriteRenames, Running
  <2> QED
    BY <1>7, <2>1, MoveKey, StampedKept, ShapeMoves
<1>8. ASSUME NEW f \in File, WriteRetries(f) PROVE Shape'
  <2>1. key[f].queue # <<>> /\ Head(key[f].queue).kind = "write" /\ key[f].born > 0
    BY <1>8 DEF WriteRetries, Missing, Running, Shape
  <2> QED
    BY <1>8, <2>1, MoveKey, StampedKept, ShapeMoves
<1>9. ASSUME NEW f \in File, WriteGivesUp(f) PROVE Shape'
  BY <1>9, DoneKey, StampedKept, ShapeFinishes DEF Finishing
<1>10. ASSUME NEW f \in File, WriteFails(f) PROVE Shape'
  BY <1>10, DoneKey, StampedKept, ShapeFinishes DEF Finishing
<1>11. ASSUME NEW f \in File, WriteIsSaved(f) PROVE Shape'
  BY <1>11, DoneKey, StampedKept, ShapeFinishes DEF Finishing
<1>12. ASSUME NEW f \in File, Looks(f) PROVE Shape'
  <2>1. key[f].queue # <<>> /\ Head(key[f].queue).kind \in {"delete", "read", "purge", "evict"}
    BY <1>12 DEF Looks, Removes, Running
  <2> QED
    BY <1>12, <2>1, MoveKey, StampedKept, ShapeMoves
<1>13. ASSUME NEW f \in File, Keeps(f) PROVE Shape'
  BY <1>13, DoneKey, StampedKept, ShapeFinishes DEF Finishing
<1>14. ASSUME NEW f \in File, EvictKeeps(f) PROVE Shape'
  BY <1>14, DoneKey, StampedKept, ShapeFinishes DEF Finishing
<1>15. ASSUME NEW f \in File, Unlinks(f) PROVE Shape'
  <2>1. CASE Running(f, "purge", {"condemned"})
    BY <1>15, <2>1, DoneKey, StampedKept, ShapeFinishes DEF Finishing
  <2>2. CASE ~Running(f, "purge", {"condemned"})
    <3>1. key[f].queue # <<>> /\ Head(key[f].queue).kind \in {"delete", "read", "purge", "evict"}
      BY <1>15 DEF Unlinks, Shape
    <3> QED
      BY <1>15, <2>2, <3>1, MoveKey, StampedKept, ShapeMoves
  <2> QED
    BY <2>1, <2>2
<1>16. ASSUME NEW f \in File, FindsNothing(f) PROVE Shape'
  BY <1>16, DoneKey, StampedKept, ShapeFinishes DEF Finishing
<1>17. ASSUME NEW f \in File, Forgets(f) PROVE Shape'
  BY <1>17, DoneKey, StampedKept, ShapeFinishes DEF Finishing
<1>18. ASSUME NEW f \in File, ScanStats(f) PROVE Shape'
  BY <1>18, StampedKept DEF Stamped, Shape, ScanStats, keys
<1>19. ASSUME NEW f \in File, PicksVictim(f) PROVE Shape'
  <2>1. CASE f = evict.file
    BY <1>19, <2>1, StampedKept DEF PicksVictim, Stamped, Shape
  <2>2. CASE f # evict.file
    BY <1>19, <2>2, PickKey, StampedKept, ShapeEnqueues
  <2> QED
    BY <2>1, <2>2
<1>20. ASSUME NEW f \in File, PurgeAsks(f) PROVE Shape'
  BY <1>20, TaskKey, StampedKept, ShapeEnqueues
<1>21. ASSUME NEW f \in File, ListLoads(f) PROVE Shape'
  BY <1>21, TaskKey, StampedKept, ShapeEnqueues
<1>22. ASSUME NEW f \in File, OtherRemoves(f) PROVE Shape'
  BY <1>22, StampedKept DEF Stamped, Shape, OtherRemoves, keys
<1>23. ASSUME NEW f \in File, NEW bad \in BOOLEAN, OtherWrites(f, bad) PROVE Shape'
  BY <1>23, StampedKept DEF Stamped, Shape, OtherWrites, keys
<1>24. CASE EvictBegins
  BY <1>24, StampedKept DEF Stamped, Shape, EvictBegins, keys
<1>25. CASE ScanBegins
  BY <1>25, StampedKept DEF Stamped, Shape, ScanBegins, keys
<1>26. CASE ScanEnds
  BY <1>26, StampedKept DEF Stamped, Shape, ScanEnds, keys
<1>27. CASE Warm
  BY <1>27, StampedKept DEF Stamped, Shape, Warm, keys
<1>28. CASE Sorts
  BY <1>28, StampedKept DEF Stamped, Shape, Sorts, keys
<1>29. CASE PassEnds
  BY <1>29, StampedKept DEF Stamped, Shape, PassEnds, keys
<1>30. CASE PurgeLists
  BY <1>30, StampedKept DEF Stamped, Shape, PurgeLists, keys
<1>31. CASE PurgeTemps
  BY <1>31, StampedKept DEF Stamped, Shape, PurgeTemps, keys
<1>32. CASE PurgeChecksEmpty
  BY <1>32, StampedKept DEF Stamped, Shape, PurgeChecksEmpty, keys
<1>33. CASE PurgeRmdir
  BY <1>33, StampedKept DEF Stamped, Shape, PurgeRmdir, keys
<1>34. CASE PurgeEnds
  BY <1>34, StampedKept DEF Stamped, Shape, PurgeEnds, keys
<1>35. CASE List
  BY <1>35, StampedKept DEF Stamped, Shape, List, keys
<1>36. CASE ListNames
  BY <1>36, StampedKept DEF Stamped, Shape, ListNames, keys
<1>37. CASE ListEnds
  BY <1>37, StampedKept DEF Stamped, Shape, ListEnds, keys
<1>38. CASE TimePasses
  BY <1>38, StampedKept DEF Stamped, Shape, TimePasses, keys
<1>39. CASE Crash
  BY <1>39, IdleIsKey, StampedKept DEF Crash, Stamped, Shape
<1> QED
  BY <1>0, <1>1, <1>2, <1>3, <1>4, <1>5, <1>6, <1>7, <1>8, <1>9, <1>10, <1>11, <1>12, <1>13, <1>14, <1>15, <1>16, <1>17, <1>18, <1>19, <1>20, <1>21, <1>22, <1>23, <1>24, <1>25, <1>26, <1>27, <1>28, <1>29, <1>30, <1>31, <1>32, <1>33, <1>34, <1>35, <1>36, <1>37, <1>38, <1>39
     DEF Next, Calls, Writes, Removals, Evicts, Purges, Lists

-----------------------------------------------------------------------------
(* The newest draft wins.                                                  *)
LEMMA AppendInOrder ==
  ASSUME NEW q \in Seq(Task), NEW low \in Nat, NEW high \in Nat, InOrder(q, low, high), low <= high,
         NEW t \in Task
  PROVE  /\ t.no = high + 1 => InOrder(Append(q, t), low, high + 1)
         /\ ~Numbered(t) => InOrder(Append(q, t), low, high)
<1> DEFINE a == Append(q, t)
           n == Len(q) + 1
<1>1. /\ DOMAIN q = 1..Len(q) /\ Len(q) \in Nat /\ DOMAIN a = 1..n /\ a[n] = t
      /\ \A i \in DOMAIN q : a[i] = q[i] /\ q[i] \in Task
  BY QueueFacts
<1> HIDE DEF a
<1>2. \A i \in DOMAIN a : i = n \/ i \in DOMAIN q
  BY <1>1
<1>3. \A s \in Task : s.no \in Nat
  BY DEF Task
<1>4. ASSUME t.no = high + 1 PROVE InOrder(a, low, high + 1)
  BY <1>1, <1>2, <1>3, <1>4 DEF InOrder
<1>5. ASSUME ~Numbered(t) PROVE InOrder(a, low, high)
  BY <1>1, <1>2, <1>3, <1>5 DEF InOrder
<1> QED
  BY <1>4, <1>5 DEF a

LEMMA TailInOrder ==
  ASSUME NEW q \in Seq(Task), NEW low \in Nat, NEW high \in Nat, InOrder(q, low, high), q # <<>>
  PROVE  /\ InOrder(Tail(q), low, high)
         /\ Numbered(Head(q)) =>
              InOrder(Tail(q), Head(q).no, high) /\ low < Head(q).no /\ Head(q).no <= high
         /\ Head(q) \in Task /\ Head(q).no \in Nat
<1> DEFINE r == Tail(q)
<1>1. /\ DOMAIN q = 1..Len(q) /\ Len(q) \in Nat \ {0} /\ Head(q) = q[1] /\ 1 \in DOMAIN q
      /\ DOMAIN r = 1..(Len(q) - 1)
      /\ \A i \in DOMAIN r : i + 1 \in DOMAIN q /\ r[i] = q[i + 1]
      /\ \A i \in DOMAIN q : q[i] \in Task
  BY QueueFacts
<1> HIDE DEF r
<1>2. \A s \in Task : s.no \in Nat
  BY DEF Task
<1>3. InOrder(r, low, high)
  <2> SUFFICES ASSUME NEW i \in DOMAIN r, Numbered(r[i])
               PROVE  /\ low < r[i].no /\ r[i].no <= high
                      /\ \A j \in DOMAIN r : i < j /\ Numbered(r[j]) => r[i].no < r[j].no
    BY DEF InOrder
  <2>1. i + 1 \in DOMAIN q /\ r[i] = q[i + 1] /\ i \in Nat
    BY <1>1
  <2>2. low < r[i].no /\ r[i].no <= high
    BY <2>1 DEF InOrder
  <2>3. ASSUME NEW j \in DOMAIN r, i < j, Numbered(r[j]) PROVE r[i].no < r[j].no
    <3>1. j + 1 \in DOMAIN q /\ r[j] = q[j + 1] /\ i + 1 < j + 1
      BY <1>1, <2>1, <2>3
    <3> QED
      BY <2>1, <2>3, <3>1 DEF InOrder
  <2> QED
    BY <2>2, <2>3
<1>4. ASSUME Numbered(q[1]) PROVE InOrder(r, q[1].no, high) /\ low < q[1].no /\ q[1].no <= high
  <2>1. \A i \in DOMAIN r : Numbered(r[i]) => q[1].no < r[i].no
    BY <1>1, <1>2, <1>4 DEF InOrder
  <2> QED
    BY <1>1, <1>2, <1>3, <1>4, <2>1 DEF InOrder
<1> QED
  BY <1>1, <1>2, <1>3, <1>4 DEF r

OrderedIn(f) ==
  /\ floor[f] <= asked[f]
  /\ InOrder(key[f].queue, floor[f], asked[f])
  /\ Renamed(f) => disk[f].no \in {0, Head(key[f].queue).no}
  /\ key[f].at = "unlinked" => disk[f].no = 0
  /\ disk[f].no # 0 => disk[f].no >= floor[f]

LEMMA OrderedParts == Ordered /\ KeptInOrder <=> \A f \in File : OrderedIn(f)
BY DEF Ordered, KeptInOrder, OrderedIn

(* A file of which a step changes nothing.                                 *)
LEMMA OrderedSame ==
  ASSUME NEW f \in File, OrderedIn(f), key'[f] = key[f], disk'[f] = disk[f],
         asked'[f] = asked[f], floor'[f] = floor[f]
  PROVE  OrderedIn(f)'
BY DEF OrderedIn, Renamed, InOrder, Numbered

LEMMA OrderedEnqueues ==
  ASSUME TypeOK, Shape, NEW f \in File, OrderedIn(f), NEW t, Enqueues(f, t), UNCHANGED <<disk, floor>>,
         \/ ~Numbered(t) /\ asked'[f] = asked[f]
         \/ t.no = asked[f] + 1 /\ asked'[f] = asked[f] + 1
  PROVE  OrderedIn(f)'
<1>1. /\ key[f].queue \in Seq(Task) /\ floor[f] \in Nat /\ asked[f] \in Nat /\ t \in Task
      /\ key'[f].queue = Append(key[f].queue, t) /\ key'[f].at = key[f].at
  BY QueueTyped, TypeParts DEF StoreOK, Enqueues
<1>2. InOrder(key'[f].queue, floor'[f], asked'[f])
  BY <1>1, AppendInOrder DEF OrderedIn
<1>3. Renamed(f) => Head(key'[f].queue) = Head(key[f].queue)
  BY <1>1, QueueFacts DEF Renamed, Shape
<1> QED
  BY <1>1, <1>2, <1>3 DEF OrderedIn, Renamed

LEMMA OrderedFinishes ==
  ASSUME TypeOK, NEW f \in File, OrderedIn(f), Finishes(f), UNCHANGED <<asked>>,
         disk'[f].no \in {0, disk[f].no},
         \/ floor'[f] = floor[f]
         \/ /\ floor'[f] = Head(key[f].queue).no /\ Numbered(Head(key[f].queue))
            /\ disk'[f].no # 0 => disk'[f].no >= floor'[f]
  PROVE  OrderedIn(f)'
<1>1. /\ key[f].queue \in Seq(Task) /\ floor[f] \in Nat /\ asked[f] \in Nat /\ disk[f].no \in Nat
      /\ key'[f].queue = Tail(key[f].queue) /\ key'[f].at = "start" /\ key[f].queue # <<>>
  BY QueueTyped, TypeParts DEF StoreOK, Finishes, Record
<1>2. InOrder(key'[f].queue, floor'[f], asked'[f]) /\ floor'[f] <= asked'[f]
  BY <1>1, TailInOrder DEF OrderedIn
<1> QED
  BY <1>1, <1>2 DEF OrderedIn, Renamed

LEMMA OrderedMoves ==
  ASSUME NEW f \in File, OrderedIn(f), NEW at, Moves(f, at), UNCHANGED <<asked, floor>>,
         disk'[f].no # 0 => disk'[f].no >= floor[f],
         at = "renamed" => disk'[f].no \in {0, Head(key[f].queue).no},
         at = "unlinked" => disk'[f].no = 0
  PROVE  OrderedIn(f)'
<1>1. key'[f].queue = key[f].queue /\ key'[f].at = at /\ asked'[f] = asked[f] /\ floor'[f] = floor[f]
  BY DEF Moves
<1>2. InOrder(key'[f].queue, floor'[f], asked'[f])
  BY <1>1 DEF OrderedIn
<1> QED
  BY <1>1, <1>2 DEF OrderedIn, Renamed

LEMMA OrderedKept ==
  ASSUME TypeOK, Shape, \A f \in File : OrderedIn(f), [Next]_vars
  PROVE  \A g \in File : OrderedIn(g)'
<1>0. CASE UNCHANGED vars
  BY <1>0, OrderedSame DEF vars, store, keys, ghost
<1>1. ASSUME NEW f \in File, Write(f) PROVE \A g \in File : OrderedIn(g)'
  <2>1. \A g \in File \ {f} : /\ key'[g] = key[g] /\ disk'[g] = disk[g]
                              /\ asked'[g] = asked[g] /\ floor'[g] = floor[g]
    BY <1>1, TypeParts, CallKey DEF StoreOK, Write, Asks, Enqueues, OthersSame, store
  <2>2. OrderedIn(f)'
    <3>1. asked'[f] = asked[f] + 1 /\ UNCHANGED <<disk, floor>>
      BY <1>1, TypeParts DEF StoreOK, Write, Asks, store
    <3> QED
      BY <1>1, <3>1, CallKey, OrderedEnqueues
  <2> QED
    BY <2>1, <2>2, OrderedSame
<1>2. ASSUME NEW f \in File, Delete(f) PROVE \A g \in File : OrderedIn(g)'
  <2>1. \A g \in File \ {f} : /\ key'[g] = key[g] /\ disk'[g] = disk[g]
                              /\ asked'[g] = asked[g] /\ floor'[g] = floor[g]
    BY <1>2, TypeParts, CallKey DEF StoreOK, Delete, Asks, Enqueues, OthersSame, store
  <2>2. OrderedIn(f)'
    <3>1. asked'[f] = asked[f] + 1 /\ UNCHANGED <<disk, floor>>
      BY <1>2, TypeParts DEF StoreOK, Delete, Asks, store
    <3> QED
      BY <1>2, <3>1, CallKey, OrderedEnqueues
  <2> QED
    BY <2>1, <2>2, OrderedSame
<1>3. ASSUME NEW f \in File, Read(f) PROVE \A g \in File : OrderedIn(g)'
  <2>1. \A g \in File \ {f} : /\ key'[g] = key[g] /\ disk'[g] = disk[g]
                              /\ asked'[g] = asked[g] /\ floor'[g] = floor[g]
    BY <1>3, TypeParts, TaskKey DEF Read, Enqueues, OthersSame, store, ghost
  <2>2. OrderedIn(f)'
    <3>1. UNCHANGED <<disk, floor, asked>>
      BY <1>3 DEF Read, store, ghost
    <3> QED
      BY <1>3, <3>1, TaskKey, OrderedEnqueues DEF Numbered
  <2> QED
    BY <2>1, <2>2, OrderedSame
<1>4. ASSUME NEW f \in File, WriteIsSuperseded(f) PROVE \A g \in File : OrderedIn(g)'
  <2>1. \A g \in File \ {f} : /\ key'[g] = key[g] /\ disk'[g] = disk[g]
                              /\ asked'[g] = asked[g] /\ floor'[g] = floor[g]
    BY <1>4, TypeParts, DoneKey DEF Finishing, StoreOK, WriteIsSuperseded, Finishes, OthersSame, store, ghost, Answered, Running, IndexSet
  <2>2. OrderedIn(f)'
    <3>1. Finishes(f) /\ UNCHANGED <<disk, asked>>
      BY <1>4, DoneKey DEF Finishing, WriteIsSuperseded, store, ghost
    <3>2. floor'[f] = floor[f]
      BY <1>4 DEF WriteIsSuperseded, ghost
    <3> QED
      BY <3>1, <3>2, OrderedFinishes
  <2> QED
    BY <2>1, <2>2, OrderedSame
<1>5. ASSUME NEW f \in File, WriteStarts(f) PROVE \A g \in File : OrderedIn(g)'
  <2>1. \A g \in File \ {f} : /\ key'[g] = key[g] /\ disk'[g] = disk[g]
                              /\ asked'[g] = asked[g] /\ floor'[g] = floor[g]
    BY <1>5, TypeParts, MoveKey DEF StoreOK, WriteStarts, Moves, OthersSame, store, ghost
  <2>2. OrderedIn(f)'
    <3>1. UNCHANGED <<disk, asked, floor>>
      BY <1>5 DEF WriteStarts, store, ghost
    <3> QED
      BY <1>5, <3>1, MoveKey, OrderedMoves DEF OrderedIn
  <2> QED
    BY <2>1, <2>2, OrderedSame
<1>6. ASSUME NEW f \in File, WriteOpensTemp(f) PROVE \A g \in File : OrderedIn(g)'
  <2>1. \A g \in File \ {f} : /\ key'[g] = key[g] /\ disk'[g] = disk[g]
                              /\ asked'[g] = asked[g] /\ floor'[g] = floor[g]
    BY <1>6, TypeParts, MoveKey DEF StoreOK, WriteOpensTemp, Moves, OthersSame, store, ghost
  <2>2. OrderedIn(f)'
    <3>1. UNCHANGED <<disk, asked, floor>>
      BY <1>6 DEF WriteOpensTemp, store, ghost
    <3> QED
      BY <1>6, <3>1, MoveKey, OrderedMoves DEF OrderedIn
  <2> QED
    BY <2>1, <2>2, OrderedSame
<1>7. ASSUME NEW f \in File, WriteRenames(f) PROVE \A g \in File : OrderedIn(g)'
  <2>1. \A g \in File \ {f} : /\ key'[g] = key[g] /\ disk'[g] = disk[g]
                              /\ asked'[g] = asked[g] /\ floor'[g] = floor[g]
    BY <1>7, TypeParts, MoveKey DEF StoreOK, WriteRenames, Moves, OthersSame, ghost
  <2>2. OrderedIn(f)'
    <3>1. UNCHANGED <<asked, floor>> /\ key[f].queue # <<>> /\ Head(key[f].queue).kind = "write"
      BY <1>7 DEF WriteRenames, ghost, Running
    <3>2. disk'[f].no = Head(key[f].queue).no
      BY <1>7, TypeParts DEF WriteRenames, StoreOK
    <3>3. Head(key[f].queue).no \in Nat /\ floor[f] \in Nat /\ floor[f] < Head(key[f].queue).no
      BY <3>1, QueueTyped, TailInOrder, TypeParts DEF StoreOK, OrderedIn, Numbered
    <3> QED
      BY <1>7, <3>1, <3>2, <3>3, MoveKey, OrderedMoves
  <2> QED
    BY <2>1, <2>2, OrderedSame
<1>8. ASSUME NEW f \in File, WriteRetries(f) PROVE \A g \in File : OrderedIn(g)'
  <2>1. \A g \in File \ {f} : /\ key'[g] = key[g] /\ disk'[g] = disk[g]
                              /\ asked'[g] = asked[g] /\ floor'[g] = floor[g]
    BY <1>8, TypeParts, MoveKey DEF StoreOK, WriteRetries, Moves, OthersSame, store, ghost
  <2>2. OrderedIn(f)'
    <3>1. UNCHANGED <<disk, asked, floor>>
      BY <1>8 DEF WriteRetries, store, ghost
    <3> QED
      BY <1>8, <3>1, MoveKey, OrderedMoves DEF OrderedIn
  <2> QED
    BY <2>1, <2>2, OrderedSame
<1>9. ASSUME NEW f \in File, WriteGivesUp(f) PROVE \A g \in File : OrderedIn(g)'
  <2>1. \A g \in File \ {f} : /\ key'[g] = key[g] /\ disk'[g] = disk[g]
                              /\ asked'[g] = asked[g] /\ floor'[g] = floor[g]
    BY <1>9, TypeParts, DoneKey DEF Finishing, StoreOK, WriteGivesUp, Finishes, OthersSame, store, ghost, Answered, Running, IndexSet
  <2>2. OrderedIn(f)'
    <3>1. Finishes(f) /\ UNCHANGED <<disk, asked>>
      BY <1>9, DoneKey DEF Finishing, WriteGivesUp, store, ghost
    <3>2. floor'[f] = floor[f]
      BY <1>9 DEF WriteGivesUp, ghost
    <3> QED
      BY <3>1, <3>2, OrderedFinishes
  <2> QED
    BY <2>1, <2>2, OrderedSame
<1>10. ASSUME NEW f \in File, WriteFails(f) PROVE \A g \in File : OrderedIn(g)'
  <2>1. \A g \in File \ {f} : /\ key'[g] = key[g] /\ disk'[g] = disk[g]
                              /\ asked'[g] = asked[g] /\ floor'[g] = floor[g]
    BY <1>10, TypeParts, DoneKey DEF Finishing, StoreOK, WriteFails, Finishes, OthersSame, store, ghost, Answered, Running, IndexSet
  <2>2. OrderedIn(f)'
    <3>1. Finishes(f) /\ UNCHANGED <<disk, asked>>
      BY <1>10, DoneKey DEF Finishing, WriteFails, store, ghost
    <3>2. floor'[f] = floor[f]
      BY <1>10 DEF WriteFails, ghost
    <3> QED
      BY <3>1, <3>2, OrderedFinishes
  <2> QED
    BY <2>1, <2>2, OrderedSame
<1>11. ASSUME NEW f \in File, WriteIsSaved(f) PROVE \A g \in File : OrderedIn(g)'
  <2>1. \A g \in File \ {f} : /\ key'[g] = key[g] /\ disk'[g] = disk[g]
                              /\ asked'[g] = asked[g] /\ floor'[g] = floor[g]
    BY <1>11, TypeParts, DoneKey DEF Finishing, StoreOK, WriteIsSaved, Finishes, OthersSame, store, ghost, Answered, Running, IndexSet
  <2>2. OrderedIn(f)'
    <3>1. Finishes(f) /\ UNCHANGED <<disk, asked>>
      BY <1>11, DoneKey DEF Finishing, WriteIsSaved, store, ghost
    <3>2. /\ floor'[f] = Head(key[f].queue).no /\ Numbered(Head(key[f].queue))
          /\ disk'[f].no # 0 => disk'[f].no >= floor'[f]
      <4>1. /\ floor'[f] = Head(key[f].queue).no /\ Head(key[f].queue).kind = "write" /\ Renamed(f)
        BY <1>11, TypeParts DEF StoreOK, WriteIsSaved, Running, Renamed
      <4>2. Head(key[f].queue).no \in Nat
        BY <3>1, QueueTyped, QueueFacts DEF Finishes, Task
      <4> QED
        BY <4>1, <4>2, <3>1 DEF Numbered, OrderedIn
    <3> QED
      BY <3>1, <3>2, OrderedFinishes
  <2> QED
    BY <2>1, <2>2, OrderedSame
<1>12. ASSUME NEW f \in File, Looks(f) PROVE \A g \in File : OrderedIn(g)'
  <2>1. \A g \in File \ {f} : /\ key'[g] = key[g] /\ disk'[g] = disk[g]
                              /\ asked'[g] = asked[g] /\ floor'[g] = floor[g]
    BY <1>12, TypeParts, MoveKey DEF StoreOK, Looks, Moves, OthersSame, store, ghost
  <2>2. OrderedIn(f)'
    <3>1. UNCHANGED <<disk, asked, floor>>
      BY <1>12 DEF Looks, store, ghost
    <3> QED
      BY <1>12, <3>1, MoveKey, OrderedMoves DEF OrderedIn
  <2> QED
    BY <2>1, <2>2, OrderedSame
<1>13. ASSUME NEW f \in File, Keeps(f) PROVE \A g \in File : OrderedIn(g)'
  <2>1. \A g \in File \ {f} : /\ key'[g] = key[g] /\ disk'[g] = disk[g]
                              /\ asked'[g] = asked[g] /\ floor'[g] = floor[g]
    BY <1>13, TypeParts, DoneKey DEF Finishing, StoreOK, Keeps, Finishes, OthersSame, store, ghost, Answered, Running, IndexSet
  <2>2. OrderedIn(f)'
    <3>1. Finishes(f) /\ UNCHANGED <<disk, asked>>
      BY <1>13, DoneKey DEF Finishing, Keeps, store, ghost
    <3>2. \/ floor'[f] = floor[f]
          \/ /\ floor'[f] = Head(key[f].queue).no /\ Numbered(Head(key[f].queue))
             /\ disk'[f].no # 0 => disk'[f].no >= floor'[f]
      <4>1. CASE Head(key[f].queue).kind # "delete"
        BY <1>13, <4>1, TypeParts DEF StoreOK, Keeps, Answered
      <4>2. CASE Head(key[f].queue).kind = "delete"
        <5>1. floor'[f] = Head(key[f].queue).no
          BY <1>13, <4>2, TypeParts DEF StoreOK, Keeps, Answered
        <5>2. disk[f].no = 0
          BY <1>13, <4>2, IdleIsKey DEF Keeps, Removes, Running
        <5> QED
          BY <3>1, <4>2, <5>1, <5>2 DEF Numbered
      <4> QED
        BY <4>1, <4>2
    <3> QED
      BY <3>1, <3>2, OrderedFinishes
  <2> QED
    BY <2>1, <2>2, OrderedSame
<1>14. ASSUME NEW f \in File, EvictKeeps(f) PROVE \A g \in File : OrderedIn(g)'
  <2>1. \A g \in File \ {f} : /\ key'[g] = key[g] /\ disk'[g] = disk[g]
                              /\ asked'[g] = asked[g] /\ floor'[g] = floor[g]
    BY <1>14, TypeParts, DoneKey DEF Finishing, StoreOK, EvictKeeps, Finishes, OthersSame, store, ghost, Answered, Running, IndexSet
  <2>2. OrderedIn(f)'
    <3>1. Finishes(f) /\ UNCHANGED <<disk, asked>>
      BY <1>14, DoneKey DEF Finishing, EvictKeeps, store, ghost
    <3>2. floor'[f] = floor[f]
      BY <1>14 DEF EvictKeeps, ghost
    <3> QED
      BY <3>1, <3>2, OrderedFinishes
  <2> QED
    BY <2>1, <2>2, OrderedSame
<1>15. ASSUME NEW f \in File, Unlinks(f) PROVE \A g \in File : OrderedIn(g)'
  <2>0. disk'[f].no = 0 /\ UNCHANGED <<asked, floor>>
    BY <1>15, TypeParts, IdleIsKey DEF Unlinks, StoreOK
  <2>1. \A g \in File \ {f} : /\ key'[g] = key[g] /\ disk'[g] = disk[g]
                              /\ asked'[g] = asked[g] /\ floor'[g] = floor[g]
    <3>1. \A g \in File \ {f} : key'[g] = key[g]
      BY <1>15, DoneKey, MoveKey DEF Finishing, Finishes, Moves, OthersSame
    <3> QED
      BY <1>15, <3>1, TypeParts DEF Unlinks, StoreOK
  <2>2. OrderedIn(f)'
    <3>1. CASE Running(f, "purge", {"condemned"})
      BY <1>15, <2>0, <3>1, DoneKey, OrderedFinishes DEF Finishing
    <3>2. CASE ~Running(f, "purge", {"condemned"})
      BY <1>15, <2>0, <3>2, MoveKey, OrderedMoves
    <3> QED
      BY <3>1, <3>2
  <2> QED
    BY <2>1, <2>2, OrderedSame
<1>16. ASSUME NEW f \in File, FindsNothing(f) PROVE \A g \in File : OrderedIn(g)'
  <2>1. \A g \in File \ {f} : /\ key'[g] = key[g] /\ disk'[g] = disk[g]
                              /\ asked'[g] = asked[g] /\ floor'[g] = floor[g]
    BY <1>16, TypeParts, DoneKey DEF Finishing, StoreOK, FindsNothing, Finishes, OthersSame, store, ghost, Answered, Running, IndexSet
  <2>2. OrderedIn(f)'
    <3>1. Finishes(f) /\ UNCHANGED <<disk, asked>>
      BY <1>16, DoneKey DEF Finishing, FindsNothing, store, ghost
    <3>2. \/ floor'[f] = floor[f]
          \/ /\ floor'[f] = Head(key[f].queue).no /\ Numbered(Head(key[f].queue))
             /\ disk'[f].no # 0 => disk'[f].no >= floor'[f]
      <4>1. CASE Head(key[f].queue).kind # "delete"
        BY <1>16, <4>1, TypeParts DEF StoreOK, FindsNothing, Answered
      <4>2. CASE Head(key[f].queue).kind = "delete"
        <5>1. floor'[f] = Head(key[f].queue).no
          BY <1>16, <4>2, TypeParts DEF StoreOK, FindsNothing, Answered
        <5>2. disk[f].no = 0
          BY <1>16, <4>2, IdleIsKey DEF FindsNothing
        <5> QED
          BY <3>1, <4>2, <5>1, <5>2 DEF Numbered
      <4> QED
        BY <4>1, <4>2
    <3> QED
      BY <3>1, <3>2, OrderedFinishes
  <2> QED
    BY <2>1, <2>2, OrderedSame
<1>17. ASSUME NEW f \in File, Forgets(f) PROVE \A g \in File : OrderedIn(g)'
  <2>1. \A g \in File \ {f} : /\ key'[g] = key[g] /\ disk'[g] = disk[g]
                              /\ asked'[g] = asked[g] /\ floor'[g] = floor[g]
    BY <1>17, TypeParts, DoneKey DEF Finishing, StoreOK, Forgets, Finishes, OthersSame, store, ghost, Answered, Running, IndexSet
  <2>2. OrderedIn(f)'
    <3>1. Finishes(f) /\ UNCHANGED <<disk, asked>>
      BY <1>17, DoneKey DEF Finishing, Forgets, store, ghost
    <3>2. \/ floor'[f] = floor[f]
          \/ /\ floor'[f] = Head(key[f].queue).no /\ Numbered(Head(key[f].queue))
             /\ disk'[f].no # 0 => disk'[f].no >= floor'[f]
      <4>1. CASE Head(key[f].queue).kind # "delete"
        BY <1>17, <4>1, TypeParts DEF StoreOK, Forgets, Answered
      <4>2. CASE Head(key[f].queue).kind = "delete"
        <5>1. floor'[f] = Head(key[f].queue).no
          BY <1>17, <4>2, TypeParts DEF StoreOK, Forgets, Answered
        <5>2. disk[f].no = 0
          BY <1>17, <4>2, IdleIsKey DEF Forgets, OrderedIn
        <5> QED
          BY <3>1, <4>2, <5>1, <5>2 DEF Numbered
      <4> QED
        BY <4>1, <4>2
    <3> QED
      BY <3>1, <3>2, OrderedFinishes
  <2> QED
    BY <2>1, <2>2, OrderedSame
<1>18. ASSUME NEW f \in File, ScanStats(f) PROVE \A g \in File : OrderedIn(g)'
  BY <1>18, OrderedSame DEF ScanStats, store, keys, ghost
<1>19. ASSUME NEW f \in File, PicksVictim(f) PROVE \A g \in File : OrderedIn(g)'
  <2>1. UNCHANGED <<disk, asked, floor>>
    BY <1>19 DEF PicksVictim, store, ghost
  <2>2. CASE f = evict.file
    BY <1>19, <2>1, <2>2, OrderedSame DEF PicksVictim
  <2>3. CASE f # evict.file
    <3>1. \A g \in File \ {f} : key'[g] = key[g]
      BY <1>19, <2>3, PickKey DEF Enqueues, OthersSame
    <3>2. OrderedIn(f)'
      BY <1>19, <2>1, <2>3, PickKey, OrderedEnqueues DEF Numbered
    <3> QED
      BY <2>1, <3>1, <3>2, OrderedSame
  <2> QED
    BY <2>2, <2>3
<1>20. ASSUME NEW f \in File, PurgeAsks(f) PROVE \A g \in File : OrderedIn(g)'
  <2>1. \A g \in File \ {f} : /\ key'[g] = key[g] /\ disk'[g] = disk[g]
                              /\ asked'[g] = asked[g] /\ floor'[g] = floor[g]
    BY <1>20, TypeParts, TaskKey DEF PurgeAsks, Enqueues, OthersSame, store, ghost
  <2>2. OrderedIn(f)'
    <3>1. UNCHANGED <<disk, floor, asked>>
      BY <1>20 DEF PurgeAsks, store, ghost
    <3> QED
      BY <1>20, <3>1, TaskKey, OrderedEnqueues DEF Numbered
  <2> QED
    BY <2>1, <2>2, OrderedSame
<1>21. ASSUME NEW f \in File, ListLoads(f) PROVE \A g \in File : OrderedIn(g)'
  <2>1. \A g \in File \ {f} : /\ key'[g] = key[g] /\ disk'[g] = disk[g]
                              /\ asked'[g] = asked[g] /\ floor'[g] = floor[g]
    BY <1>21, TypeParts, TaskKey DEF ListLoads, Enqueues, OthersSame, store, ghost
  <2>2. OrderedIn(f)'
    <3>1. UNCHANGED <<disk, floor, asked>>
      BY <1>21 DEF ListLoads, store, ghost
    <3> QED
      BY <1>21, <3>1, TaskKey, OrderedEnqueues DEF Numbered
  <2> QED
    BY <2>1, <2>2, OrderedSame
<1>22. ASSUME NEW f \in File, OtherRemoves(f) PROVE \A g \in File : OrderedIn(g)'
  <2>1. /\ disk'[f].no = 0 /\ UNCHANGED <<key, asked, floor>>
        /\ \A g \in File \ {f} : disk'[g] = disk[g]
    BY <1>22, TypeParts, IdleIsKey DEF OtherRemoves, StoreOK, keys
  <2>2. OrderedIn(f)'
    BY <2>1 DEF OrderedIn, Renamed
  <2> QED
    BY <2>1, <2>2, OrderedSame
<1>23. ASSUME NEW f \in File, NEW bad \in BOOLEAN, OtherWrites(f, bad) PROVE \A g \in File : OrderedIn(g)'
  <2>1. /\ disk'[f].no = 0 /\ UNCHANGED <<key, asked, floor>>
        /\ \A g \in File \ {f} : disk'[g] = disk[g]
    BY <1>23, TypeParts, IdleIsKey DEF OtherWrites, StoreOK, keys
  <2>2. OrderedIn(f)'
    BY <2>1 DEF OrderedIn, Renamed
  <2> QED
    BY <2>1, <2>2, OrderedSame
<1>24. CASE EvictBegins
  BY <1>24, OrderedSame DEF EvictBegins, store, keys, ghost
<1>25. CASE ScanBegins
  BY <1>25, OrderedSame DEF ScanBegins, store, keys, ghost
<1>26. CASE ScanEnds
  BY <1>26, OrderedSame DEF ScanEnds, store, keys, ghost
<1>27. CASE Warm
  BY <1>27, OrderedSame DEF Warm, store, keys, ghost
<1>28. CASE Sorts
  BY <1>28, OrderedSame DEF Sorts, store, keys, ghost
<1>29. CASE PassEnds
  BY <1>29, OrderedSame DEF PassEnds, store, keys, ghost
<1>30. CASE PurgeLists
  BY <1>30, OrderedSame DEF PurgeLists, store, keys, ghost
<1>31. CASE PurgeTemps
  BY <1>31, OrderedSame DEF PurgeTemps, store, keys, ghost
<1>32. CASE PurgeChecksEmpty
  BY <1>32, OrderedSame DEF PurgeChecksEmpty, store, keys, ghost
<1>33. CASE PurgeRmdir
  BY <1>33, OrderedSame DEF PurgeRmdir, store, keys, ghost
<1>34. CASE PurgeEnds
  BY <1>34, OrderedSame DEF PurgeEnds, store, keys, ghost
<1>35. CASE List
  BY <1>35, OrderedSame DEF List, store, keys, ghost
<1>36. CASE ListNames
  BY <1>36, OrderedSame DEF ListNames, store, keys, ghost
<1>37. CASE ListEnds
  BY <1>37, OrderedSame DEF ListEnds, store, keys, ghost
<1>38. CASE TimePasses
  BY <1>38, OrderedSame DEF TimePasses, store, keys, ghost
<1>39. CASE Crash
  <2>1. UNCHANGED <<disk, asked, floor>> /\ \A g \in File : key'[g] = Idle
    BY <1>39 DEF Crash
  <2> QED
    BY <2>1, IdleIsKey DEF OrderedIn, Renamed, InOrder
<1> QED
  BY <1>0, <1>1, <1>2, <1>3, <1>4, <1>5, <1>6, <1>7, <1>8, <1>9, <1>10, <1>11, <1>12, <1>13, <1>14, <1>15, <1>16, <1>17, <1>18, <1>19, <1>20, <1>21, <1>22, <1>23, <1>24, <1>25, <1>26, <1>27, <1>28, <1>29, <1>30, <1>31, <1>32, <1>33, <1>34, <1>35, <1>36, <1>37, <1>38, <1>39
     DEF Next, Calls, Writes, Removals, Evicts, Purges, Lists

-----------------------------------------------------------------------------
(* One eviction task at a time.                                            *)
NoEvictTask == \A f \in File : ~HasEvict(f)

LEMMA NoneWhileNotWaiting ==
  ASSUME EvictTurns, evict.at # "wait"
  PROVE  NoEvictTask
BY DEF EvictTurns, NoEvictTask, HasEvict

LEMMA NoneIsTurns ==
  ASSUME NoEvictTask'
  PROVE  EvictTurns'
BY DEF EvictTurns, NoEvictTask, HasEvict

LEMMA TurnsEnqueues ==
  ASSUME TypeOK, NEW f \in File, NEW t, Enqueues(f, t), t.kind # "evict"
  PROVE  /\ NoEvictTask => NoEvictTask'
         /\ EvictTurns /\ evict'.at = evict.at => EvictTurns'
         /\ \A g \in File : HasEvict(g) <=> HasEvict(g)'
<1>1. \A g \in File : /\ DOMAIN key[g].queue \subseteq DOMAIN key'[g].queue
                      /\ \A i \in DOMAIN key'[g].queue :
                           IF i \in DOMAIN key[g].queue THEN key'[g].queue[i] = key[g].queue[i]
                           ELSE key'[g].queue[i].kind # "evict"
  <2>1. ASSUME NEW g \in File, g # f PROVE key'[g] = key[g]
    BY <2>1 DEF Enqueues, OthersSame
  <2>2. /\ DOMAIN key[f].queue = 1..Len(key[f].queue) /\ Len(key[f].queue) \in Nat
        /\ DOMAIN key'[f].queue = 1..(Len(key[f].queue) + 1)
        /\ key'[f].queue[Len(key[f].queue) + 1] = t
        /\ \A i \in DOMAIN key[f].queue : key'[f].queue[i] = key[f].queue[i]
    BY QueueTyped, QueueFacts DEF Enqueues
  <2>3. \A i \in DOMAIN key'[f].queue : i \in DOMAIN key[f].queue \/ i = Len(key[f].queue) + 1
    BY <2>2
  <2>4. DOMAIN key[f].queue \subseteq DOMAIN key'[f].queue
    BY <2>2
  <2> QED
    BY <2>1, <2>2, <2>3, <2>4
<1>2. \A g \in File : HasEvict(g) <=> HasEvict(g)'
  BY <1>1 DEF HasEvict
<1>3. EvictTurns /\ evict'.at = evict.at => EvictTurns'
  BY <1>1 DEF EvictTurns
<1> QED
  BY <1>2, <1>3 DEF NoEvictTask

LEMMA TurnsFinishes ==
  ASSUME TypeOK, EvictTurns, NEW f \in File, Finishes(f)
  PROVE  /\ Head(key[f].queue).kind = "evict" => NoEvictTask' /\ HasEvict(f) /\ evict.at = "wait"
         /\ Head(key[f].queue).kind # "evict" => \A g \in File : HasEvict(g) <=> HasEvict(g)'
         /\ Head(key[f].queue).kind # "evict" /\ evict'.at = evict.at => EvictTurns'
         /\ \A g \in File \ {f} : HasEvict(g) <=> HasEvict(g)'
<1> DEFINE q == key[f].queue
           r == key'[f].queue
<1>1. /\ 1 \in DOMAIN q /\ Head(q) = q[1]
      /\ \A i \in DOMAIN r : i + 1 \in DOMAIN q /\ r[i] = q[i + 1] /\ i \in Nat \ {0}
      /\ \A i \in DOMAIN q : i # 1 => i - 1 \in DOMAIN r /\ r[i - 1] = q[i]
  <2>1. q \in Seq(Task) /\ q # <<>> /\ r = Tail(q) /\ Tail(q) \in Seq(Task)
    BY QueueTyped, QueueFacts DEF Finishes
  <2>2. DOMAIN Tail(q) = 1..Len(Tail(q)) /\ Len(Tail(q)) \in Nat
    BY <2>1, QueueFacts
  <2> HIDE DEF q, r
  <2>3. \A i \in DOMAIN r : i \in Nat \ {0}
    BY <2>1, <2>2
  <2> QED
    BY <2>1, <2>3, QueueFacts
<1>2. \A g \in File \ {f} : key'[g] = key[g]
  BY DEF Finishes, OthersSame
<1>3. \A g \in File \ {f} : HasEvict(g) <=> HasEvict(g)'
  BY <1>2 DEF HasEvict
<1>4. ASSUME q[1].kind = "evict" PROVE NoEvictTask' /\ HasEvict(f) /\ evict.at = "wait"
  <2>1. \A g \in File : \A j \in DOMAIN key[g].queue : key[g].queue[j].kind = "evict" => f = g /\ j = 1
    BY <1>1, <1>4 DEF EvictTurns
  <2>2. \A i \in DOMAIN r : r[i].kind # "evict"
    BY <1>1, <2>1
  <2> QED
    BY <1>1, <1>2, <1>4, <2>1, <2>2 DEF NoEvictTask, HasEvict, EvictTurns
<1>5. ASSUME q[1].kind # "evict" PROVE HasEvict(f) <=> HasEvict(f)'
  BY <1>1, <1>5 DEF HasEvict
<1>6. ASSUME q[1].kind # "evict", evict'.at = evict.at PROVE EvictTurns'
  <2>1. SUFFICES ASSUME NEW g \in File, NEW i \in DOMAIN key'[g].queue, key'[g].queue[i].kind = "evict",
                        NEW h \in File, NEW j \in DOMAIN key'[h].queue, key'[h].queue[j].kind = "evict"
                 PROVE  evict'.at = "wait" /\ g = h /\ i = j
    BY DEF EvictTurns
  <2>2. PICK k \in DOMAIN key[g].queue : key[g].queue[k].kind = "evict" /\ k = IF g = f THEN i + 1 ELSE i
    BY <2>1, <1>1, <1>2
  <2>3. PICK l \in DOMAIN key[h].queue : key[h].queue[l].kind = "evict" /\ l = IF h = f THEN j + 1 ELSE j
    BY <2>1, <1>1, <1>2
  <2>4. evict.at = "wait" /\ g = h /\ k = l
    BY <2>2, <2>3 DEF EvictTurns
  <2>5. i = j
    BY <2>2, <2>3, <2>4, <1>1
  <2> QED
    BY <2>4, <2>5, <1>6
<1> QED
  BY <1>1, <1>3, <1>4, <1>5, <1>6

LEMMA TurnsMoves ==
  ASSUME \A f \in File : key'[f].queue = key[f].queue
  PROVE  /\ NoEvictTask => NoEvictTask'
         /\ EvictTurns /\ evict'.at = evict.at => EvictTurns'
         /\ \A g \in File : HasEvict(g) <=> HasEvict(g)'
BY DEF NoEvictTask, HasEvict, EvictTurns

LEMMA TurnsPicks ==
  ASSUME TypeOK, NoEvictTask, NEW f \in File, NEW t, Enqueues(f, t), evict'.at = "wait"
  PROVE  EvictTurns' /\ (t.kind = "evict" => HasEvict(f)')
<1>1. /\ DOMAIN key[f].queue = 1..Len(key[f].queue) /\ Len(key[f].queue) \in Nat
      /\ DOMAIN key'[f].queue = 1..(Len(key[f].queue) + 1)
      /\ key'[f].queue[Len(key[f].queue) + 1] = t
      /\ \A i \in DOMAIN key[f].queue : key'[f].queue[i] = key[f].queue[i]
  BY QueueTyped, QueueFacts DEF Enqueues
<1>2. \A i \in DOMAIN key'[f].queue : i \in DOMAIN key[f].queue \/ i = Len(key[f].queue) + 1
  BY <1>1
<1>3. \A g \in File \ {f} : key'[g] = key[g]
  BY DEF Enqueues, OthersSame
<1>4. \A g \in File : \A i \in DOMAIN key'[g].queue :
        key'[g].queue[i].kind = "evict" => g = f /\ i = Len(key[f].queue) + 1
  BY <1>1, <1>2, <1>3 DEF NoEvictTask, HasEvict
<1>5. EvictTurns'
  BY <1>4 DEF EvictTurns
<1>6. t.kind = "evict" => HasEvict(f)'
  <2>1. Len(key[f].queue) + 1 \in DOMAIN key'[f].queue
    BY <1>1
  <2> QED
    BY <2>1, <1>1 DEF HasEvict
<1> QED
  BY <1>5, <1>6

LEMMA EvictTurnsKept ==
  ASSUME TypeOK, Shape, EvictTurns, ScanTurns, [Next]_vars
  PROVE  EvictTurns'
<1>0. CASE UNCHANGED vars
  BY <1>0, TurnsMoves DEF vars, keys
<1>1. ASSUME NEW f \in File, Write(f) PROVE EvictTurns'
  <2>1. UNCHANGED evict /\ \E t \in Task : Enqueues(f, t) /\ t.kind # "evict"
    BY <1>1, CallKey DEF Write
  <2> QED
    BY <2>1, TurnsEnqueues
<1>2. ASSUME NEW f \in File, Delete(f) PROVE EvictTurns'
  <2>1. UNCHANGED evict /\ \E t \in Task : Enqueues(f, t) /\ t.kind # "evict"
    BY <1>2, CallKey DEF Delete
  <2> QED
    BY <2>1, TurnsEnqueues
<1>3. ASSUME NEW f \in File, Read(f) PROVE EvictTurns'
  <2>1. UNCHANGED evict /\ \E t \in Task : Enqueues(f, t) /\ t.kind # "evict"
    BY <1>3, TaskKey DEF Read
  <2> QED
    BY <2>1, TurnsEnqueues
<1>4. ASSUME NEW f \in File, WriteIsSuperseded(f) PROVE EvictTurns'
  BY <1>4, DoneKey, TurnsFinishes DEF Finishing, WriteIsSuperseded, Missing, Running
<1>5. ASSUME NEW f \in File, WriteStarts(f) PROVE EvictTurns'
  <2>1. UNCHANGED evict
    BY <1>5 DEF WriteStarts
  <2>2. \E at : Moves(f, at)
    BY <1>5, MoveKey
  <2>3. \A g \in File : key'[g].queue = key[g].queue
    BY <2>2 DEF Moves, OthersSame
  <2> QED
    BY <2>1, <2>3, TurnsMoves
<1>6. ASSUME NEW f \in File, WriteOpensTemp(f) PROVE EvictTurns'
  <2>1. UNCHANGED evict
    BY <1>6 DEF WriteOpensTemp
  <2>2. \E at : Moves(f, at)
    BY <1>6, MoveKey
  <2>3. \A g \in File : key'[g].queue = key[g].queue
    BY <2>2 DEF Moves, OthersSame
  <2> QED
    BY <2>1, <2>3, TurnsMoves
<1>7. ASSUME NEW f \in File, WriteRenames(f) PROVE EvictTurns'
  <2>1. UNCHANGED evict
    BY <1>7 DEF WriteRenames
  <2>2. \E at : Moves(f, at)
    BY <1>7, MoveKey
  <2>3. \A g \in File : key'[g].queue = key[g].queue
    BY <2>2 DEF Moves, OthersSame
  <2> QED
    BY <2>1, <2>3, TurnsMoves
<1>8. ASSUME NEW f \in File, WriteRetries(f) PROVE EvictTurns'
  <2>1. UNCHANGED evict
    BY <1>8 DEF WriteRetries
  <2>2. \E at : Moves(f, at)
    BY <1>8, MoveKey
  <2>3. \A g \in File : key'[g].queue = key[g].queue
    BY <2>2 DEF Moves, OthersSame
  <2> QED
    BY <2>1, <2>3, TurnsMoves
<1>9. ASSUME NEW f \in File, WriteGivesUp(f) PROVE EvictTurns'
  BY <1>9, DoneKey, TurnsFinishes DEF Finishing, WriteGivesUp, Missing, Running
<1>10. ASSUME NEW f \in File, WriteFails(f) PROVE EvictTurns'
  BY <1>10, DoneKey, TurnsFinishes DEF Finishing, WriteFails, Missing, Running
<1>11. ASSUME NEW f \in File, WriteIsSaved(f) PROVE EvictTurns'
  <2>1. evict'.at = evict.at
    BY <1>11, TypeParts, EvictFacts DEF WriteIsSaved, CallersOK
  <2>2. Finishes(f) /\ Head(key[f].queue).kind # "evict"
    BY <1>11, DoneKey DEF Finishing, WriteIsSaved, Running
  <2> QED
    BY <2>1, <2>2, TurnsFinishes
<1>12. ASSUME NEW f \in File, Looks(f) PROVE EvictTurns'
  <2>1. UNCHANGED evict
    BY <1>12 DEF Looks
  <2>2. \E at : Moves(f, at)
    BY <1>12, MoveKey
  <2>3. \A g \in File : key'[g].queue = key[g].queue
    BY <2>2 DEF Moves, OthersSame
  <2> QED
    BY <2>1, <2>3, TurnsMoves
<1>13. ASSUME NEW f \in File, Keeps(f) PROVE EvictTurns'
  BY <1>13, DoneKey, TurnsFinishes DEF Finishing, Keeps, Missing, Running
<1>14. ASSUME NEW f \in File, EvictKeeps(f) PROVE EvictTurns'
  <2>1. Finishes(f)
    BY <1>14, DoneKey DEF Finishing
  <2>2. Head(key[f].queue).kind # "evict" => evict'.at = evict.at
    BY <1>14, <2>1, TypeParts, EvictFacts DEF EvictKeeps, Running, CallersOK, Finishes
  <2> QED
    BY <2>1, <2>2, TurnsFinishes, NoneIsTurns
<1>15. ASSUME NEW f \in File, Unlinks(f) PROVE EvictTurns'
  <2>1. UNCHANGED evict
    BY <1>15 DEF Unlinks
  <2>2. CASE Running(f, "purge", {"condemned"})
    BY <1>15, <2>1, <2>2, DoneKey, TurnsFinishes DEF Finishing, Running
  <2>3. CASE ~Running(f, "purge", {"condemned"})
    <3>1. \A g \in File : key'[g].queue = key[g].queue
      BY <1>15, <2>3, MoveKey DEF Moves, OthersSame
    <3> QED
      BY <2>1, <3>1, TurnsMoves
  <2> QED
    BY <2>2, <2>3
<1>16. ASSUME NEW f \in File, FindsNothing(f) PROVE EvictTurns'
  <2>1. Finishes(f)
    BY <1>16, DoneKey DEF Finishing
  <2>2. Head(key[f].queue).kind # "evict" => evict'.at = evict.at
    BY <1>16, <2>1, TypeParts, EvictFacts DEF FindsNothing, Running, CallersOK, Finishes
  <2> QED
    BY <2>1, <2>2, TurnsFinishes, NoneIsTurns
<1>17. ASSUME NEW f \in File, Forgets(f) PROVE EvictTurns'
  <2>1. Finishes(f)
    BY <1>17, DoneKey DEF Finishing
  <2>2. Head(key[f].queue).kind # "evict" => evict'.at = evict.at
    BY <1>17, <2>1, TypeParts, EvictFacts DEF Forgets, Running, CallersOK, Finishes
  <2> QED
    BY <2>1, <2>2, TurnsFinishes, NoneIsTurns
<1>18. ASSUME NEW f \in File, ScanStats(f) PROVE EvictTurns'
  BY <1>18, TurnsMoves DEF ScanStats, keys
<1>19. ASSUME NEW f \in File, PicksVictim(f) PROVE EvictTurns'
  <2>0. NoEvictTask
    BY <1>19, NoneWhileNotWaiting DEF PicksVictim
  <2>1. CASE f = evict.file
    BY <1>19, <2>0, <2>1, TurnsMoves, NoneIsTurns DEF PicksVictim
  <2>2. CASE f # evict.file
    <3>1. evict'.at = "wait"
      BY <1>19, <2>2, TypeParts DEF PicksVictim, CallersOK, Evict
    <3> QED
      BY <1>19, <2>0, <2>2, <3>1, PickKey, TurnsPicks
  <2> QED
    BY <2>1, <2>2
<1>20. ASSUME NEW f \in File, PurgeAsks(f) PROVE EvictTurns'
  <2>1. UNCHANGED evict /\ \E t \in Task : Enqueues(f, t) /\ t.kind # "evict"
    BY <1>20, TaskKey DEF PurgeAsks
  <2> QED
    BY <2>1, TurnsEnqueues
<1>21. ASSUME NEW f \in File, ListLoads(f) PROVE EvictTurns'
  <2>1. UNCHANGED evict /\ \E t \in Task : Enqueues(f, t) /\ t.kind # "evict"
    BY <1>21, TaskKey DEF ListLoads
  <2> QED
    BY <2>1, TurnsEnqueues
<1>22. ASSUME NEW f \in File, OtherRemoves(f) PROVE EvictTurns'
  BY <1>22, TurnsMoves DEF OtherRemoves, keys
<1>23. ASSUME NEW f \in File, NEW bad \in BOOLEAN, OtherWrites(f, bad) PROVE EvictTurns'
  BY <1>23, TurnsMoves DEF OtherWrites, keys
<1>24. CASE EvictBegins
  <2>1. evict.at # "wait" /\ UNCHANGED key
    BY <1>24 DEF EvictBegins, keys, ScanTurns
  <2> QED
    BY <2>1, NoneWhileNotWaiting, TurnsMoves, NoneIsTurns
<1>25. CASE ScanBegins
  BY <1>25, TurnsMoves DEF ScanBegins, keys
<1>26. CASE ScanEnds
  <2>1. evict.at # "wait" /\ UNCHANGED key
    BY <1>26 DEF ScanEnds, keys, ScanTurns
  <2> QED
    BY <2>1, NoneWhileNotWaiting, TurnsMoves, NoneIsTurns
<1>27. CASE Warm
  <2>1. evict.at # "wait" /\ UNCHANGED key
    BY <1>27 DEF Warm, keys, ScanTurns
  <2> QED
    BY <2>1, NoneWhileNotWaiting, TurnsMoves, NoneIsTurns
<1>28. CASE Sorts
  <2>1. evict.at # "wait" /\ UNCHANGED key
    BY <1>28 DEF Sorts, keys, ScanTurns
  <2> QED
    BY <2>1, NoneWhileNotWaiting, TurnsMoves, NoneIsTurns
<1>29. CASE PassEnds
  <2>1. evict.at # "wait" /\ UNCHANGED key
    BY <1>29 DEF PassEnds, keys, ScanTurns
  <2> QED
    BY <2>1, NoneWhileNotWaiting, TurnsMoves, NoneIsTurns
<1>30. CASE PurgeLists
  BY <1>30, TurnsMoves DEF PurgeLists, keys
<1>31. CASE PurgeTemps
  BY <1>31, TurnsMoves DEF PurgeTemps, keys
<1>32. CASE PurgeChecksEmpty
  BY <1>32, TurnsMoves DEF PurgeChecksEmpty, keys
<1>33. CASE PurgeRmdir
  BY <1>33, TurnsMoves DEF PurgeRmdir, keys
<1>34. CASE PurgeEnds
  BY <1>34, TurnsMoves DEF PurgeEnds, keys
<1>35. CASE List
  BY <1>35, TurnsMoves DEF List, keys
<1>36. CASE ListNames
  BY <1>36, TurnsMoves DEF ListNames, keys
<1>37. CASE ListEnds
  BY <1>37, TurnsMoves DEF ListEnds, keys
<1>38. CASE TimePasses
  BY <1>38, TurnsMoves DEF TimePasses, keys
<1>39. CASE Crash
  <2>1. \A g \in File : key'[g] = Idle
    BY <1>39 DEF Crash
  <2>2. NoEvictTask'
    BY <2>1, IdleIsKey DEF NoEvictTask, HasEvict
  <2> QED
    BY <2>2, NoneIsTurns
<1> QED
  BY <1>0, <1>1, <1>2, <1>3, <1>4, <1>5, <1>6, <1>7, <1>8, <1>9, <1>10, <1>11, <1>12, <1>13, <1>14, <1>15, <1>16, <1>17, <1>18, <1>19, <1>20, <1>21, <1>22, <1>23, <1>24, <1>25, <1>26, <1>27, <1>28, <1>29, <1>30, <1>31, <1>32, <1>33, <1>34, <1>35, <1>36, <1>37, <1>38, <1>39
     DEF Next, Calls, Writes, Removals, Evicts, Purges, Lists

LEMMA EvictTurnsOfHead ==
  ASSUME TypeOK, EvictTurns, NEW f \in File, key[f].queue # <<>>, Head(key[f].queue).kind = "evict"
  PROVE  evict.at = "wait"
BY QueueTyped, QueueFacts DEF EvictTurns

LEMMA ScanTurnsKept ==
  ASSUME TypeOK, Shape, EvictTurns, ScanTurns, [Next]_vars
  PROVE  ScanTurns'
<1> USE DEF ScanTurns
<1>0. CASE UNCHANGED vars
  BY <1>0 DEF vars, lookup
<1>1. ASSUME NEW f \in File, Write(f) PROVE ScanTurns'
  BY <1>1 DEF Write, lookup
<1>2. ASSUME NEW f \in File, Delete(f) PROVE ScanTurns'
  BY <1>2 DEF Delete, lookup
<1>3. ASSUME NEW f \in File, Read(f) PROVE ScanTurns'
  BY <1>3 DEF Read, lookup
<1>4. ASSUME NEW f \in File, WriteIsSuperseded(f) PROVE ScanTurns'
  BY <1>4 DEF WriteIsSuperseded, lookup
<1>5. ASSUME NEW f \in File, WriteStarts(f) PROVE ScanTurns'
  BY <1>5 DEF WriteStarts, lookup
<1>6. ASSUME NEW f \in File, WriteOpensTemp(f) PROVE ScanTurns'
  BY <1>6 DEF WriteOpensTemp, lookup
<1>7. ASSUME NEW f \in File, WriteRenames(f) PROVE ScanTurns'
  BY <1>7 DEF WriteRenames, lookup
<1>8. ASSUME NEW f \in File, WriteRetries(f) PROVE ScanTurns'
  BY <1>8 DEF WriteRetries, lookup
<1>9. ASSUME NEW f \in File, WriteGivesUp(f) PROVE ScanTurns'
  BY <1>9 DEF WriteGivesUp, lookup
<1>10. ASSUME NEW f \in File, WriteFails(f) PROVE ScanTurns'
  BY <1>10 DEF WriteFails, lookup
<1>11. ASSUME NEW f \in File, WriteIsSaved(f) PROVE ScanTurns'
  <2>1. evict'.at = evict.at
    BY <1>11, TypeParts, EvictFacts DEF WriteIsSaved, CallersOK
  <2>2. disk[f].born \in Nat
    BY QueueTyped DEF Record
  <2>3. CASE IndexSet(f, disk[f].born) /\ UNCHANGED cold
    BY <2>1, <2>2, <2>3, TypeParts, IndexSetFacts
  <2>4. CASE MarkCold
    BY <2>1, <2>4, TypeParts, MarkColdFacts
  <2> QED
    BY <1>11, <2>3, <2>4 DEF WriteIsSaved
<1>12. ASSUME NEW f \in File, Looks(f) PROVE ScanTurns'
  BY <1>12 DEF Looks, lookup
<1>13. ASSUME NEW f \in File, Keeps(f) PROVE ScanTurns'
  BY <1>13 DEF Keeps, lookup
<1>14. ASSUME NEW f \in File, EvictKeeps(f) PROVE ScanTurns'
  <2>1. CASE IndexSet(f, 0)
    <3>1. cold' = cold /\ scan'.on = scan.on /\ scan'.found = scan.found
      BY <1>14, <2>1, TypeParts, IndexSetFacts DEF EvictKeeps
    <3>2. scan.on => evict'.at = evict.at
      BY <1>14, TypeParts, EvictFacts, EvictTurnsOfHead DEF EvictKeeps, CallersOK, Running
    <3> QED
      BY <3>1, <3>2
  <2>2. CASE ~IndexSet(f, 0)
    BY <1>14, <2>2, EvictTurnsOfHead DEF EvictKeeps, Running
  <2> QED
    BY <2>1, <2>2
<1>15. ASSUME NEW f \in File, Unlinks(f) PROVE ScanTurns'
  BY <1>15 DEF Unlinks, lookup
<1>16. ASSUME NEW f \in File, FindsNothing(f) PROVE ScanTurns'
  <2>1. scan.on => evict'.at = evict.at
    BY <1>16, EvictTurnsOfHead DEF FindsNothing, Running
  <2> QED
    BY <1>16, <2>1 DEF FindsNothing, lookup
<1>17. ASSUME NEW f \in File, Forgets(f) PROVE ScanTurns'
  <2>1. CASE IndexSet(f, 0)
    <3>1. cold' = cold /\ scan'.on = scan.on /\ scan'.found = scan.found
      BY <1>17, <2>1, TypeParts, IndexSetFacts DEF Forgets
    <3>2. scan.on => evict'.at = evict.at
      BY <1>17, TypeParts, EvictFacts, EvictTurnsOfHead DEF Forgets, CallersOK, Running
    <3> QED
      BY <3>1, <3>2
  <2>2. CASE ~IndexSet(f, 0)
    BY <1>17, <2>2, EvictTurnsOfHead DEF Forgets, Running
  <2> QED
    BY <2>1, <2>2
<1>18. ASSUME NEW f \in File, ScanStats(f) PROVE ScanTurns'
  <2>1. scan'.on
    BY <1>18, TypeParts DEF ScanStats, LookupOK, Scan
  <2> QED
    BY <1>18, <2>1 DEF ScanStats
<1>19. ASSUME NEW f \in File, PicksVictim(f) PROVE ScanTurns'
  BY <1>19 DEF PicksVictim, lookup
<1>20. ASSUME NEW f \in File, PurgeAsks(f) PROVE ScanTurns'
  BY <1>20 DEF PurgeAsks, lookup
<1>21. ASSUME NEW f \in File, ListLoads(f) PROVE ScanTurns'
  BY <1>21 DEF ListLoads, lookup
<1>22. ASSUME NEW f \in File, OtherRemoves(f) PROVE ScanTurns'
  BY <1>22 DEF OtherRemoves, lookup
<1>23. ASSUME NEW f \in File, NEW bad \in BOOLEAN, OtherWrites(f, bad) PROVE ScanTurns'
  BY <1>23 DEF OtherWrites, lookup
<1>24. CASE EvictBegins
  BY <1>24 DEF EvictBegins, lookup
<1>25. CASE ScanBegins
  <2>1. scan'.on
    BY <1>25, NoneFacts DEF ScanBegins, Scan
  <2> QED
    BY <1>25, <2>1 DEF ScanBegins
<1>26. CASE ScanEnds
  BY <1>26, NoneFacts DEF ScanEnds
<1>27. CASE Warm
  BY <1>27 DEF Warm, lookup
<1>28. CASE Sorts
  BY <1>28 DEF Sorts, lookup
<1>29. CASE PassEnds
  BY <1>29, TypeParts, MarkColdFacts DEF PassEnds, lookup
<1>30. CASE PurgeLists
  BY <1>30 DEF PurgeLists, lookup
<1>31. CASE PurgeTemps
  BY <1>31 DEF PurgeTemps, lookup
<1>32. CASE PurgeChecksEmpty
  BY <1>32 DEF PurgeChecksEmpty, lookup
<1>33. CASE PurgeRmdir
  BY <1>33 DEF PurgeRmdir, lookup
<1>34. CASE PurgeEnds
  BY <1>34, TypeParts, MarkColdFacts DEF PurgeEnds, lookup
<1>35. CASE List
  BY <1>35, TypeParts, MarkColdFacts DEF List, lookup
<1>36. CASE ListNames
  BY <1>36 DEF ListNames, lookup
<1>37. CASE ListEnds
  BY <1>37 DEF ListEnds, lookup
<1>38. CASE TimePasses
  BY <1>38 DEF TimePasses, lookup
<1>39. CASE Crash
  BY <1>39, NoneFacts DEF Crash
<1> QED
  BY <1>0, <1>1, <1>2, <1>3, <1>4, <1>5, <1>6, <1>7, <1>8, <1>9, <1>10, <1>11, <1>12, <1>13, <1>14, <1>15, <1>16, <1>17, <1>18, <1>19, <1>20, <1>21, <1>22, <1>23, <1>24, <1>25, <1>26, <1>27, <1>28, <1>29, <1>30, <1>31, <1>32, <1>33, <1>34, <1>35, <1>36, <1>37, <1>38, <1>39
     DEF Next, Calls, Writes, Removals, Evicts, Purges, Lists

-----------------------------------------------------------------------------
(* A step of one file leaves the others alone.                             *)
LEMMA OthersKept ==
  ASSUME TypeOK, Shape, NEW f \in File,
         \/ Calls(f) \/ Writes(f) \/ Removals(f) \/ PicksVictim(f) \/ PurgeAsks(f) \/ ListLoads(f)
         \/ OtherRemoves(f) \/ \E bad \in BOOLEAN : OtherWrites(f, bad)
  PROVE  \A g \in File \ {f} : key'[g] = key[g] /\ disk'[g] = disk[g]
<1>1. disk \in [File -> Record] /\ key \in [File -> Key]
  BY TypeParts DEF StoreOK
<1>2. CASE Calls(f) \/ PurgeAsks(f) \/ ListLoads(f)
  <2>1. UNCHANGED disk
    BY <1>2 DEF Calls, Write, Delete, Read, PurgeAsks, ListLoads, store
  <2> QED
    BY <1>2, <2>1, CallKey, TaskKey DEF Calls, Enqueues, OthersSame
<1>3. CASE PicksVictim(f)
  <2>1. CASE f = evict.file
    BY <1>3, <2>1 DEF PicksVictim, store
  <2>2. CASE f # evict.file
    BY <1>3, <2>2, PickKey DEF PicksVictim, store, Enqueues, OthersSame
  <2> QED
    BY <2>1, <2>2
<1>4. CASE Finishing(f)
  <2>1. \A g \in File \ {f} : key'[g] = key[g]
    BY <1>4, DoneKey DEF Finishes, OthersSame
  <2>2. \A g \in File \ {f} : disk'[g] = disk[g]
    BY <1>1, <1>4 DEF Finishing, WriteIsSuperseded, WriteGivesUp, WriteFails, WriteIsSaved, Keeps,
                      EvictKeeps, FindsNothing, Forgets, Unlinks, store
  <2> QED
    BY <2>1, <2>2
<1>5. CASE \/ WriteStarts(f) \/ WriteRetries(f) \/ WriteOpensTemp(f) \/ WriteRenames(f) \/ Looks(f)
           \/ Unlinks(f) /\ ~Running(f, "purge", {"condemned"})
  <2>1. \E at : Moves(f, at)
    BY <1>5, MoveKey
  <2>2. \A g \in File \ {f} : disk'[g] = disk[g]
    BY <1>1, <1>5 DEF WriteStarts, WriteRetries, WriteOpensTemp, WriteRenames, Looks, Unlinks, store
  <2> QED
    BY <2>1, <2>2 DEF Moves, OthersSame
<1>6. CASE OtherRemoves(f) \/ \E bad \in BOOLEAN : OtherWrites(f, bad)
  BY <1>1, <1>6 DEF OtherRemoves, OtherWrites, keys
<1> QED
  BY <1>2, <1>3, <1>4, <1>5, <1>6 DEF Writes, Removals, Finishing

(* The entries an eviction has sorted change only between evictions.       *)
LEMMA EntryKept ==
  ASSUME TypeOK, Shape, EvictTurns, ScanTurns, [Next]_vars
  PROVE  evict'.entry = evict.entry \/ NoEvictTask \/ Crash
<1>0. CASE UNCHANGED vars
  BY <1>0 DEF vars
<1>1. ASSUME NEW f \in File, Write(f) PROVE evict'.entry = evict.entry \/ NoEvictTask \/ Crash
  BY <1>1 DEF Write
<1>2. ASSUME NEW f \in File, Delete(f) PROVE evict'.entry = evict.entry \/ NoEvictTask \/ Crash
  BY <1>2 DEF Delete
<1>3. ASSUME NEW f \in File, Read(f) PROVE evict'.entry = evict.entry \/ NoEvictTask \/ Crash
  BY <1>3 DEF Read
<1>4. ASSUME NEW f \in File, WriteIsSuperseded(f) PROVE evict'.entry = evict.entry \/ NoEvictTask \/ Crash
  BY <1>4 DEF WriteIsSuperseded
<1>5. ASSUME NEW f \in File, WriteStarts(f) PROVE evict'.entry = evict.entry \/ NoEvictTask \/ Crash
  BY <1>5 DEF WriteStarts
<1>6. ASSUME NEW f \in File, WriteOpensTemp(f) PROVE evict'.entry = evict.entry \/ NoEvictTask \/ Crash
  BY <1>6 DEF WriteOpensTemp
<1>7. ASSUME NEW f \in File, WriteRenames(f) PROVE evict'.entry = evict.entry \/ NoEvictTask \/ Crash
  BY <1>7 DEF WriteRenames
<1>8. ASSUME NEW f \in File, WriteRetries(f) PROVE evict'.entry = evict.entry \/ NoEvictTask \/ Crash
  BY <1>8 DEF WriteRetries
<1>9. ASSUME NEW f \in File, WriteGivesUp(f) PROVE evict'.entry = evict.entry \/ NoEvictTask \/ Crash
  BY <1>9 DEF WriteGivesUp
<1>10. ASSUME NEW f \in File, WriteFails(f) PROVE evict'.entry = evict.entry \/ NoEvictTask \/ Crash
  BY <1>10 DEF WriteFails
<1>11. ASSUME NEW f \in File, WriteIsSaved(f) PROVE evict'.entry = evict.entry \/ NoEvictTask \/ Crash
  BY <1>11, TypeParts, EvictFacts DEF WriteIsSaved, CallersOK
<1>12. ASSUME NEW f \in File, Looks(f) PROVE evict'.entry = evict.entry \/ NoEvictTask \/ Crash
  BY <1>12 DEF Looks
<1>13. ASSUME NEW f \in File, Keeps(f) PROVE evict'.entry = evict.entry \/ NoEvictTask \/ Crash
  BY <1>13 DEF Keeps
<1>14. ASSUME NEW f \in File, EvictKeeps(f) PROVE evict'.entry = evict.entry \/ NoEvictTask \/ Crash
  BY <1>14, TypeParts, EvictFacts, EvictedFacts DEF EvictKeeps, CallersOK
<1>15. ASSUME NEW f \in File, Unlinks(f) PROVE evict'.entry = evict.entry \/ NoEvictTask \/ Crash
  BY <1>15 DEF Unlinks
<1>16. ASSUME NEW f \in File, FindsNothing(f) PROVE evict'.entry = evict.entry \/ NoEvictTask \/ Crash
  BY <1>16, TypeParts, EvictFacts, EvictedFacts DEF FindsNothing, CallersOK
<1>17. ASSUME NEW f \in File, Forgets(f) PROVE evict'.entry = evict.entry \/ NoEvictTask \/ Crash
  <2>1. evict \in Evict
    BY TypeParts DEF CallersOK
  <2>2. CASE Running(f, "evict", {"unlinked"})
    <3>1. evict' = Unpicked(Evicted("removed"), f)
      BY <1>17, <2>2 DEF Forgets
    <3>2. Evicted("removed") \in Evict /\ Evicted("removed").entry = evict.entry
      BY TypeParts, EvictedFacts
    <3> QED
      BY <3>1, <3>2, EvictFacts
  <2>3. CASE ~Running(f, "evict", {"unlinked"})
    <3>1. evict' = Unpicked(evict, f)
      BY <1>17, <2>3 DEF Forgets
    <3> QED
      BY <2>1, <3>1, EvictFacts
  <2> QED
    BY <2>2, <2>3
<1>18. ASSUME NEW f \in File, ScanStats(f) PROVE evict'.entry = evict.entry \/ NoEvictTask \/ Crash
  BY <1>18 DEF ScanStats
<1>19. ASSUME NEW f \in File, PicksVictim(f) PROVE evict'.entry = evict.entry \/ NoEvictTask \/ Crash
  BY <1>19, NoneWhileNotWaiting DEF PicksVictim
<1>20. ASSUME NEW f \in File, PurgeAsks(f) PROVE evict'.entry = evict.entry \/ NoEvictTask \/ Crash
  BY <1>20 DEF PurgeAsks
<1>21. ASSUME NEW f \in File, ListLoads(f) PROVE evict'.entry = evict.entry \/ NoEvictTask \/ Crash
  BY <1>21 DEF ListLoads
<1>22. ASSUME NEW f \in File, OtherRemoves(f) PROVE evict'.entry = evict.entry \/ NoEvictTask \/ Crash
  BY <1>22 DEF OtherRemoves
<1>23. ASSUME NEW f \in File, NEW bad \in BOOLEAN, OtherWrites(f, bad) PROVE evict'.entry = evict.entry \/ NoEvictTask \/ Crash
  BY <1>23 DEF OtherWrites
<1>24. CASE EvictBegins
  BY <1>24, NoneWhileNotWaiting DEF EvictBegins, ScanTurns
<1>25. CASE ScanBegins
  BY <1>25 DEF ScanBegins
<1>26. CASE ScanEnds
  BY <1>26, NoneWhileNotWaiting DEF ScanEnds, ScanTurns
<1>27. CASE Warm
  BY <1>27, NoneWhileNotWaiting DEF Warm, ScanTurns
<1>28. CASE Sorts
  BY <1>28, NoneWhileNotWaiting DEF Sorts, ScanTurns
<1>29. CASE PassEnds
  BY <1>29, NoneWhileNotWaiting DEF PassEnds, ScanTurns
<1>30. CASE PurgeLists
  BY <1>30 DEF PurgeLists
<1>31. CASE PurgeTemps
  BY <1>31 DEF PurgeTemps
<1>32. CASE PurgeChecksEmpty
  BY <1>32 DEF PurgeChecksEmpty
<1>33. CASE PurgeRmdir
  BY <1>33 DEF PurgeRmdir
<1>34. CASE PurgeEnds
  BY <1>34 DEF PurgeEnds
<1>35. CASE List
  BY <1>35 DEF List
<1>36. CASE ListNames
  BY <1>36 DEF ListNames
<1>37. CASE ListEnds
  BY <1>37 DEF ListEnds
<1>38. CASE TimePasses
  BY <1>38 DEF TimePasses
<1>39. CASE Crash
  BY <1>39
<1> QED
  BY <1>0, <1>1, <1>2, <1>3, <1>4, <1>5, <1>6, <1>7, <1>8, <1>9, <1>10, <1>11, <1>12, <1>13, <1>14, <1>15, <1>16, <1>17, <1>18, <1>19, <1>20, <1>21, <1>22, <1>23, <1>24, <1>25, <1>26, <1>27, <1>28, <1>29, <1>30, <1>31, <1>32, <1>33, <1>34, <1>35, <1>36, <1>37, <1>38, <1>39
     DEF Next, Calls, Writes, Removals, Evicts, Purges, Lists

-----------------------------------------------------------------------------
(* What was judged is still there.                                         *)
LEMMA JudgedSame ==
  ASSUME TypeOK, Shape, NEW f \in File, JudgedIn(f),
         key'[f] = key[f], disk'[f] = disk[f] \/ disk'[f].no = 0,
         evict'.entry = evict.entry \/ NoEvictTask
  PROVE  JudgedIn(f)'
<1>1. ASSUME key[f].at = "condemned", Head(key[f].queue).kind = "evict" PROVE HasEvict(f)
  BY <1>1, QueueTyped, QueueFacts DEF Shape, HasEvict
<1> QED
  BY <1>1 DEF JudgedIn, NoEvictTask

LEMMA JudgedElse ==
  ASSUME NEW f \in File, key'[f].at # "condemned"
  PROVE  JudgedIn(f)'
BY DEF JudgedIn

LEMMA JudgedEnqueues ==
  ASSUME TypeOK, Shape, NEW f \in File, JudgedIn(f), NEW t, Enqueues(f, t), disk'[f] = disk[f],
         evict'.entry = evict.entry \/ NoEvictTask
  PROVE  JudgedIn(f)'
<1>1. /\ key'[f].queue = Append(key[f].queue, t) /\ t \in Task /\ key[f].queue \in Seq(Task)
      /\ key'[f].at = key[f].at /\ key'[f].judged = key[f].judged
  BY QueueTyped DEF Enqueues
<1>2. ASSUME key[f].at = "condemned"
      PROVE  Head(key'[f].queue) = Head(key[f].queue) /\ (Head(key[f].queue).kind = "evict" => HasEvict(f))
  BY <1>1, <1>2, QueueFacts DEF Shape, HasEvict
<1> QED
  BY <1>1, <1>2 DEF JudgedIn, NoEvictTask

LEMMA JudgedKept ==
  ASSUME TypeOK, Shape, EvictTurns, ScanTurns, Judged, [Next]_vars
  PROVE  \A g \in File : JudgedIn(g)'
<1> USE DEF Judged
<1>a. evict'.entry = evict.entry \/ NoEvictTask \/ Crash
  BY EntryKept
<1>b. ASSUME NEW f \in File, JudgedIn(f)', ~Crash,
             \A g \in File \ {f} : key'[g] = key[g] /\ disk'[g] = disk[g]
      PROVE  \A g \in File : JudgedIn(g)'
  BY <1>a, <1>b, JudgedSame
<1>c. ASSUME Crash PROVE \A g \in File : JudgedIn(g)'
  <2>1. \A g \in File : key'[g] = Idle
    BY <1>c DEF Crash
  <2> QED
    BY <2>1, IdleIsKey DEF JudgedIn
<1>0. CASE UNCHANGED vars
  BY <1>0, <1>a, <1>c, JudgedSame DEF vars, store, keys
<1>1. ASSUME NEW f \in File, Write(f) PROVE \A g \in File : JudgedIn(g)'
  <2>1. CASE Crash
    BY <2>1, <1>c
  <2>2. CASE ~Crash
    <3>1. \A g \in File \ {f} : key'[g] = key[g] /\ disk'[g] = disk[g]
      BY <1>1, OthersKept DEF Calls
    <3>2. JudgedIn(f)'
      <4>1. UNCHANGED disk
        BY <1>1 DEF Write, store
      <4> QED
        BY <1>1, <4>1, <2>2, <1>a, CallKey, JudgedEnqueues
    <3> QED
      BY <2>2, <3>1, <3>2, <1>b
  <2> QED
    BY <2>1, <2>2
<1>2. ASSUME NEW f \in File, Delete(f) PROVE \A g \in File : JudgedIn(g)'
  <2>1. CASE Crash
    BY <2>1, <1>c
  <2>2. CASE ~Crash
    <3>1. \A g \in File \ {f} : key'[g] = key[g] /\ disk'[g] = disk[g]
      BY <1>2, OthersKept DEF Calls
    <3>2. JudgedIn(f)'
      <4>1. UNCHANGED disk
        BY <1>2 DEF Delete, store
      <4> QED
        BY <1>2, <4>1, <2>2, <1>a, CallKey, JudgedEnqueues
    <3> QED
      BY <2>2, <3>1, <3>2, <1>b
  <2> QED
    BY <2>1, <2>2
<1>3. ASSUME NEW f \in File, Read(f) PROVE \A g \in File : JudgedIn(g)'
  <2>1. CASE Crash
    BY <2>1, <1>c
  <2>2. CASE ~Crash
    <3>1. \A g \in File \ {f} : key'[g] = key[g] /\ disk'[g] = disk[g]
      BY <1>3, OthersKept DEF Calls
    <3>2. JudgedIn(f)'
      <4>1. UNCHANGED disk
        BY <1>3 DEF Read, store
      <4> QED
        BY <1>3, <4>1, <2>2, <1>a, TaskKey, JudgedEnqueues
    <3> QED
      BY <2>2, <3>1, <3>2, <1>b
  <2> QED
    BY <2>1, <2>2
<1>4. ASSUME NEW f \in File, WriteIsSuperseded(f) PROVE \A g \in File : JudgedIn(g)'
  <2>1. CASE Crash
    BY <2>1, <1>c
  <2>2. CASE ~Crash
    <3>1. \A g \in File \ {f} : key'[g] = key[g] /\ disk'[g] = disk[g]
      BY <1>4, OthersKept DEF Writes
    <3>2. JudgedIn(f)'
      BY <1>4, DoneKey, JudgedElse DEF Finishing, Finishes
    <3> QED
      BY <2>2, <3>1, <3>2, <1>b
  <2> QED
    BY <2>1, <2>2
<1>5. ASSUME NEW f \in File, WriteStarts(f) PROVE \A g \in File : JudgedIn(g)'
  <2>1. CASE Crash
    BY <2>1, <1>c
  <2>2. CASE ~Crash
    <3>1. \A g \in File \ {f} : key'[g] = key[g] /\ disk'[g] = disk[g]
      BY <1>5, OthersKept DEF Writes
    <3>2. JudgedIn(f)'
      BY <1>5, MoveKey, JudgedElse DEF Moves
    <3> QED
      BY <2>2, <3>1, <3>2, <1>b
  <2> QED
    BY <2>1, <2>2
<1>6. ASSUME NEW f \in File, WriteOpensTemp(f) PROVE \A g \in File : JudgedIn(g)'
  <2>1. CASE Crash
    BY <2>1, <1>c
  <2>2. CASE ~Crash
    <3>1. \A g \in File \ {f} : key'[g] = key[g] /\ disk'[g] = disk[g]
      BY <1>6, OthersKept DEF Writes
    <3>2. JudgedIn(f)'
      BY <1>6, MoveKey, JudgedElse DEF Moves
    <3> QED
      BY <2>2, <3>1, <3>2, <1>b
  <2> QED
    BY <2>1, <2>2
<1>7. ASSUME NEW f \in File, WriteRenames(f) PROVE \A g \in File : JudgedIn(g)'
  <2>1. CASE Crash
    BY <2>1, <1>c
  <2>2. CASE ~Crash
    <3>1. \A g \in File \ {f} : key'[g] = key[g] /\ disk'[g] = disk[g]
      BY <1>7, OthersKept DEF Writes
    <3>2. JudgedIn(f)'
      BY <1>7, MoveKey, JudgedElse DEF Moves
    <3> QED
      BY <2>2, <3>1, <3>2, <1>b
  <2> QED
    BY <2>1, <2>2
<1>8. ASSUME NEW f \in File, WriteRetries(f) PROVE \A g \in File : JudgedIn(g)'
  <2>1. CASE Crash
    BY <2>1, <1>c
  <2>2. CASE ~Crash
    <3>1. \A g \in File \ {f} : key'[g] = key[g] /\ disk'[g] = disk[g]
      BY <1>8, OthersKept DEF Writes
    <3>2. JudgedIn(f)'
      BY <1>8, MoveKey, JudgedElse DEF Moves
    <3> QED
      BY <2>2, <3>1, <3>2, <1>b
  <2> QED
    BY <2>1, <2>2
<1>9. ASSUME NEW f \in File, WriteGivesUp(f) PROVE \A g \in File : JudgedIn(g)'
  <2>1. CASE Crash
    BY <2>1, <1>c
  <2>2. CASE ~Crash
    <3>1. \A g \in File \ {f} : key'[g] = key[g] /\ disk'[g] = disk[g]
      BY <1>9, OthersKept DEF Writes
    <3>2. JudgedIn(f)'
      BY <1>9, DoneKey, JudgedElse DEF Finishing, Finishes
    <3> QED
      BY <2>2, <3>1, <3>2, <1>b
  <2> QED
    BY <2>1, <2>2
<1>10. ASSUME NEW f \in File, WriteFails(f) PROVE \A g \in File : JudgedIn(g)'
  <2>1. CASE Crash
    BY <2>1, <1>c
  <2>2. CASE ~Crash
    <3>1. \A g \in File \ {f} : key'[g] = key[g] /\ disk'[g] = disk[g]
      BY <1>10, OthersKept DEF Writes
    <3>2. JudgedIn(f)'
      BY <1>10, DoneKey, JudgedElse DEF Finishing, Finishes
    <3> QED
      BY <2>2, <3>1, <3>2, <1>b
  <2> QED
    BY <2>1, <2>2
<1>11. ASSUME NEW f \in File, WriteIsSaved(f) PROVE \A g \in File : JudgedIn(g)'
  <2>1. CASE Crash
    BY <2>1, <1>c
  <2>2. CASE ~Crash
    <3>1. \A g \in File \ {f} : key'[g] = key[g] /\ disk'[g] = disk[g]
      BY <1>11, OthersKept DEF Writes
    <3>2. JudgedIn(f)'
      BY <1>11, DoneKey, JudgedElse DEF Finishing, Finishes
    <3> QED
      BY <2>2, <3>1, <3>2, <1>b
  <2> QED
    BY <2>1, <2>2
<1>12. ASSUME NEW f \in File, Looks(f) PROVE \A g \in File : JudgedIn(g)'
  <2>1. CASE Crash
    BY <2>1, <1>c
  <2>2. CASE ~Crash
    <3>1. \A g \in File \ {f} : key'[g] = key[g] /\ disk'[g] = disk[g]
      BY <1>12, OthersKept DEF Removals
    <3>2. JudgedIn(f)'
      <4>1. UNCHANGED <<disk, evict>> /\ key'[f].judged = disk[f] /\ key'[f].queue = key[f].queue
        BY <1>12, MoveKey DEF Looks, Moves, store
      <4>2. Head(key[f].queue).kind = "evict" => disk[f].born = evict.entry[f]
        BY <1>12 DEF Looks, Removes, Running, Outcome
      <4> QED
        BY <4>1, <4>2 DEF JudgedIn
    <3> QED
      BY <2>2, <3>1, <3>2, <1>b
  <2> QED
    BY <2>1, <2>2
<1>13. ASSUME NEW f \in File, Keeps(f) PROVE \A g \in File : JudgedIn(g)'
  <2>1. CASE Crash
    BY <2>1, <1>c
  <2>2. CASE ~Crash
    <3>1. \A g \in File \ {f} : key'[g] = key[g] /\ disk'[g] = disk[g]
      BY <1>13, OthersKept DEF Removals
    <3>2. JudgedIn(f)'
      BY <1>13, DoneKey, JudgedElse DEF Finishing, Finishes
    <3> QED
      BY <2>2, <3>1, <3>2, <1>b
  <2> QED
    BY <2>1, <2>2
<1>14. ASSUME NEW f \in File, EvictKeeps(f) PROVE \A g \in File : JudgedIn(g)'
  <2>1. CASE Crash
    BY <2>1, <1>c
  <2>2. CASE ~Crash
    <3>1. \A g \in File \ {f} : key'[g] = key[g] /\ disk'[g] = disk[g]
      BY <1>14, OthersKept DEF Removals
    <3>2. JudgedIn(f)'
      BY <1>14, DoneKey, JudgedElse DEF Finishing, Finishes
    <3> QED
      BY <2>2, <3>1, <3>2, <1>b
  <2> QED
    BY <2>1, <2>2
<1>15. ASSUME NEW f \in File, Unlinks(f) PROVE \A g \in File : JudgedIn(g)'
  <2>1. CASE Crash
    BY <2>1, <1>c
  <2>2. CASE ~Crash
    <3>1. \A g \in File \ {f} : key'[g] = key[g] /\ disk'[g] = disk[g]
      BY <1>15, OthersKept DEF Removals
    <3>2. JudgedIn(f)'
      <4>1. CASE Running(f, "purge", {"condemned"})
        BY <1>15, <4>1, DoneKey, JudgedElse DEF Finishing, Finishes
      <4>2. CASE ~Running(f, "purge", {"condemned"})
        BY <1>15, <4>2, MoveKey, JudgedElse DEF Moves
      <4> QED
        BY <4>1, <4>2
    <3> QED
      BY <2>2, <3>1, <3>2, <1>b
  <2> QED
    BY <2>1, <2>2
<1>16. ASSUME NEW f \in File, FindsNothing(f) PROVE \A g \in File : JudgedIn(g)'
  <2>1. CASE Crash
    BY <2>1, <1>c
  <2>2. CASE ~Crash
    <3>1. \A g \in File \ {f} : key'[g] = key[g] /\ disk'[g] = disk[g]
      BY <1>16, OthersKept DEF Removals
    <3>2. JudgedIn(f)'
      BY <1>16, DoneKey, JudgedElse DEF Finishing, Finishes
    <3> QED
      BY <2>2, <3>1, <3>2, <1>b
  <2> QED
    BY <2>1, <2>2
<1>17. ASSUME NEW f \in File, Forgets(f) PROVE \A g \in File : JudgedIn(g)'
  <2>1. CASE Crash
    BY <2>1, <1>c
  <2>2. CASE ~Crash
    <3>1. \A g \in File \ {f} : key'[g] = key[g] /\ disk'[g] = disk[g]
      BY <1>17, OthersKept DEF Removals
    <3>2. JudgedIn(f)'
      BY <1>17, DoneKey, JudgedElse DEF Finishing, Finishes
    <3> QED
      BY <2>2, <3>1, <3>2, <1>b
  <2> QED
    BY <2>1, <2>2
<1>18. ASSUME NEW f \in File, ScanStats(f) PROVE \A g \in File : JudgedIn(g)'
  BY <1>18, <1>a, <1>c, JudgedSame DEF ScanStats, store, keys
<1>19. ASSUME NEW f \in File, PicksVictim(f) PROVE \A g \in File : JudgedIn(g)'
  <2>1. CASE Crash
    BY <2>1, <1>c
  <2>2. CASE ~Crash /\ f = evict.file
    BY <1>19, <2>2, <1>a, JudgedSame DEF PicksVictim, store
  <2>3. CASE ~Crash /\ f # evict.file
    <3>1. \A g \in File \ {f} : key'[g] = key[g] /\ disk'[g] = disk[g]
      BY <1>19, OthersKept
    <3>2. disk'[f] = disk[f]
      BY <1>19 DEF PicksVictim, store
    <3>3. JudgedIn(f)'
      BY <1>19, <2>3, <3>2, <1>a, PickKey, JudgedEnqueues
    <3> QED
      BY <2>3, <3>1, <3>3, <1>b
  <2> QED
    BY <2>1, <2>2, <2>3
<1>20. ASSUME NEW f \in File, PurgeAsks(f) PROVE \A g \in File : JudgedIn(g)'
  <2>1. CASE Crash
    BY <2>1, <1>c
  <2>2. CASE ~Crash
    <3>1. \A g \in File \ {f} : key'[g] = key[g] /\ disk'[g] = disk[g]
      BY <1>20, OthersKept
    <3>2. JudgedIn(f)'
      <4>1. UNCHANGED disk
        BY <1>20 DEF PurgeAsks, store
      <4> QED
        BY <1>20, <4>1, <2>2, <1>a, TaskKey, JudgedEnqueues
    <3> QED
      BY <2>2, <3>1, <3>2, <1>b
  <2> QED
    BY <2>1, <2>2
<1>21. ASSUME NEW f \in File, ListLoads(f) PROVE \A g \in File : JudgedIn(g)'
  <2>1. CASE Crash
    BY <2>1, <1>c
  <2>2. CASE ~Crash
    <3>1. \A g \in File \ {f} : key'[g] = key[g] /\ disk'[g] = disk[g]
      BY <1>21, OthersKept
    <3>2. JudgedIn(f)'
      <4>1. UNCHANGED disk
        BY <1>21 DEF ListLoads, store
      <4> QED
        BY <1>21, <4>1, <2>2, <1>a, TaskKey, JudgedEnqueues
    <3> QED
      BY <2>2, <3>1, <3>2, <1>b
  <2> QED
    BY <2>1, <2>2
<1>22. ASSUME NEW f \in File, OtherRemoves(f) PROVE \A g \in File : JudgedIn(g)'
  <2>1. CASE Crash
    BY <2>1, <1>c
  <2>2. CASE ~Crash
    <3>1. \A g \in File \ {f} : key'[g] = key[g] /\ disk'[g] = disk[g]
      BY <1>22, OthersKept
    <3>2. JudgedIn(f)'
      <4>1. key'[f] = key[f] /\ disk'[f].no = 0
        BY <1>22, TypeParts, IdleIsKey DEF OtherRemoves, keys, StoreOK
      <4> QED
        BY <4>1, <2>2, <1>a, JudgedSame
    <3> QED
      BY <2>2, <3>1, <3>2, <1>b
  <2> QED
    BY <2>1, <2>2
<1>23. ASSUME NEW f \in File, NEW bad \in BOOLEAN, OtherWrites(f, bad) PROVE \A g \in File : JudgedIn(g)'
  <2>1. CASE Crash
    BY <2>1, <1>c
  <2>2. CASE ~Crash
    <3>1. \A g \in File \ {f} : key'[g] = key[g] /\ disk'[g] = disk[g]
      BY <1>23, OthersKept
    <3>2. JudgedIn(f)'
      <4>1. key'[f] = key[f] /\ disk'[f].no = 0
        BY <1>23, TypeParts, IdleIsKey DEF OtherWrites, keys, StoreOK
      <4> QED
        BY <4>1, <2>2, <1>a, JudgedSame
    <3> QED
      BY <2>2, <3>1, <3>2, <1>b
  <2> QED
    BY <2>1, <2>2
<1>24. CASE EvictBegins
  BY <1>24, <1>a, <1>c, JudgedSame DEF EvictBegins, store, keys
<1>25. CASE ScanBegins
  BY <1>25, <1>a, <1>c, JudgedSame DEF ScanBegins, store, keys
<1>26. CASE ScanEnds
  BY <1>26, <1>a, <1>c, JudgedSame DEF ScanEnds, store, keys
<1>27. CASE Warm
  BY <1>27, <1>a, <1>c, JudgedSame DEF Warm, store, keys
<1>28. CASE Sorts
  BY <1>28, <1>a, <1>c, JudgedSame DEF Sorts, store, keys
<1>29. CASE PassEnds
  BY <1>29, <1>a, <1>c, JudgedSame DEF PassEnds, store, keys
<1>30. CASE PurgeLists
  BY <1>30, <1>a, <1>c, JudgedSame DEF PurgeLists, store, keys
<1>31. CASE PurgeTemps
  BY <1>31, <1>a, <1>c, JudgedSame DEF PurgeTemps, store, keys
<1>32. CASE PurgeChecksEmpty
  BY <1>32, <1>a, <1>c, JudgedSame DEF PurgeChecksEmpty, store, keys
<1>33. CASE PurgeRmdir
  BY <1>33, <1>a, <1>c, JudgedSame DEF PurgeRmdir, store, keys
<1>34. CASE PurgeEnds
  BY <1>34, <1>a, <1>c, JudgedSame DEF PurgeEnds, store, keys
<1>35. CASE List
  BY <1>35, <1>a, <1>c, JudgedSame DEF List, store, keys
<1>36. CASE ListNames
  BY <1>36, <1>a, <1>c, JudgedSame DEF ListNames, store, keys
<1>37. CASE ListEnds
  BY <1>37, <1>a, <1>c, JudgedSame DEF ListEnds, store, keys
<1>38. CASE TimePasses
  BY <1>38, <1>a, <1>c, JudgedSame DEF TimePasses, store, keys
<1>39. CASE Crash
  BY <1>39, <1>c
<1> QED
  BY <1>0, <1>1, <1>2, <1>3, <1>4, <1>5, <1>6, <1>7, <1>8, <1>9, <1>10, <1>11, <1>12, <1>13, <1>14, <1>15, <1>16, <1>17, <1>18, <1>19, <1>20, <1>21, <1>22, <1>23, <1>24, <1>25, <1>26, <1>27, <1>28, <1>29, <1>30, <1>31, <1>32, <1>33, <1>34, <1>35, <1>36, <1>37, <1>38, <1>39
     DEF Next, Calls, Writes, Removals, Evicts, Purges, Lists

-----------------------------------------------------------------------------
(* What the index and the eviction know of a file is as before.            *)
Late == evict.at \in {"over", "pick", "wait"}
Frame(g) ==
  /\ index'[g] = index[g] /\ scan'.found[g] = scan.found[g] /\ scan'.log[g] = scan.log[g]
  /\ scan'.on = scan.on /\ (g \in scan.todo => g \in scan'.todo)
  /\ (g \in behind <=> g \in behind') /\ (cold => cold') /\ (excess => excess')
  /\ evict'.file = evict.file /\ evict'.entry = evict.entry
  /\ (g \in evict.same <=> g \in evict'.same) /\ (g \in evict.todo <=> g \in evict'.todo)
  /\ (Sorted' => Sorted) /\ (Late' => Late) /\ (Awaits(g) => Awaits(g)')

(* The steps that change it for their own file.                            *)
Marks(f) == WriteIsSaved(f) \/ EvictKeeps(f) \/ Forgets(f) \/ ScanStats(f) \/ PicksVictim(f) \/ Unlinks(f)
            \/ OtherRemoves(f)
(* The steps that change it for every file.                                *)
Turning == EvictBegins \/ ScanBegins \/ ScanEnds \/ Warm \/ Sorts \/ PassEnds \/ Crash

LEMMA FrameSame ==
  ASSUME NEW g, UNCHANGED <<index, scan, behind, excess, evict>>, evictTail' = evictTail, cold => cold'
  PROVE  Frame(g)
BY DEF Frame, Sorted, Late, Awaits

LEMMA AwaitsMore ==
  ASSUME CallersOK, NEW f \in File, evictTail' = Append(evictTail, f)
  PROVE  Awaits(f)' /\ (\A g \in File : Awaits(g) => Awaits(g)') /\ evictTail' # <<>>
<1> DEFINE n == Len(evictTail) + 1
<1>1. /\ DOMAIN evictTail = 1..Len(evictTail) /\ Len(evictTail) \in Nat
      /\ DOMAIN evictTail' = 1..n /\ evictTail'[n] = f /\ n \in 1..n
      /\ \A i \in 1..Len(evictTail) : evictTail'[i] = evictTail[i] /\ i \in 1..n
  BY DEF CallersOK
<1>2. evictTail' # <<>>
  BY DEF CallersOK
<1> HIDE DEF n
<1> QED
  BY <1>1, <1>2 DEF Awaits

LEMMA EvictIsEvict ==
  ASSUME TypeOK PROVE evict \in Evict /\ CallersOK /\ LookupOK
BY TypeParts DEF CallersOK

LEMMA FrameOthers ==
  ASSUME TypeOK, Shape, EvictTurns, NEW f \in File, Next, ~Turning,
         \/ Calls(f) \/ Writes(f) \/ Removals(f) \/ ScanStats(f) \/ PicksVictim(f) \/ PurgeAsks(f)
         \/ ListLoads(f) \/ OtherRemoves(f) \/ \E bad \in BOOLEAN : OtherWrites(f, bad)
  PROVE  \A g \in File : Frame(g) \/ (g = f /\ Marks(f))
<1> SUFFICES ASSUME NEW g \in File PROVE Frame(g) \/ (g = f /\ Marks(f))
  OBVIOUS
<1> USE EvictIsEvict
<1>1. CASE \/ Calls(f) \/ PurgeAsks(f) \/ ListLoads(f) \/ WriteIsSuperseded(f) \/ WriteStarts(f)
           \/ WriteOpensTemp(f) \/ WriteRenames(f) \/ WriteRetries(f) \/ WriteGivesUp(f) \/ WriteFails(f)
           \/ Looks(f) \/ Keeps(f)
  BY <1>1, FrameSame DEF Calls, Write, Delete, Read, PurgeAsks, ListLoads, WriteIsSuperseded, WriteStarts,
     WriteOpensTemp, WriteRenames, WriteRetries, WriteGivesUp, WriteFails, Looks, Keeps, lookup, ghost
<1>2. CASE \E bad \in BOOLEAN : OtherWrites(f, bad)
  BY <1>2 DEF OtherWrites, lookup, Frame, Sorted, Late, Awaits
<1>3. CASE WriteIsSaved(f)
  <2>1. CASE g = f
    BY <1>3, <2>1 DEF Marks
  <2>2. CASE g # f
    <3>1. evict' = evict \/ evict' = Unpicked(evict, f)
      BY <1>3 DEF WriteIsSaved
    <3>2. /\ evict'.file = evict.file /\ evict'.entry = evict.entry /\ evict'.at = evict.at
          /\ evict'.todo = evict.todo /\ (g \in evict.same <=> g \in evict'.same)
      BY <2>2, <3>1, EvictFacts
    <3>3. Awaits(g) => Awaits(g)'
      BY <1>3, AwaitsMore DEF WriteIsSaved
    <3>4. /\ index'[g] = index[g] /\ scan'.found[g] = scan.found[g] /\ scan'.log[g] = scan.log[g]
          /\ scan'.on = scan.on /\ scan'.todo = scan.todo /\ (g \in behind <=> g \in behind') /\ (cold => cold')
      <4>1. disk[f].born \in Nat
        BY QueueTyped DEF Record
      <4>2. CASE IndexSet(f, disk[f].born) /\ UNCHANGED cold
        BY <2>2, <4>1, <4>2, IndexSetFacts
      <4>3. CASE MarkCold /\ UNCHANGED <<index, behind>>
        BY <4>3, MarkColdFacts
      <4> QED
        BY <1>3, <4>2, <4>3 DEF WriteIsSaved
    <3>5. excess' = excess
      BY <1>3 DEF WriteIsSaved
    <3> QED
      BY <3>2, <3>3, <3>4, <3>5 DEF Frame, Sorted, Late
  <2> QED
    BY <2>1, <2>2
<1>4. CASE EvictKeeps(f) \/ Forgets(f)
  <2>1. CASE g = f
    BY <1>4, <2>1 DEF Marks
  <2>2. CASE g # f
    <3>1. /\ evict'.file = evict.file /\ evict'.entry = evict.entry /\ evict'.todo = evict.todo
          /\ (g \in evict.same <=> g \in evict'.same) /\ evict'.at \in {evict.at, "pick"}
          /\ evict'.at # evict.at => evict.at = "wait"
      <4>1. PICK e \in Evict : /\ evict' = e \/ evict' = Unpicked(e, f)
                               /\ e.file = evict.file /\ e.entry = evict.entry /\ e.todo = evict.todo
                               /\ e.same = evict.same /\ e.at \in {evict.at, "pick"}
                               /\ e.at # evict.at => evict.at = "wait"
        <5>1. \A outcome \in {"gone", "skip", "stale", "removed"} :
                /\ Evicted(outcome) \in Evict /\ Evicted(outcome).at = "pick"
                /\ Evicted(outcome).file = evict.file /\ Evicted(outcome).same = evict.same
                /\ Evicted(outcome).todo = evict.todo /\ Evicted(outcome).entry = evict.entry
          BY EvictedFacts
        <5>2. CASE Running(f, "evict", {"start", "unlinked"})
          <6>1. evict.at = "wait"
            BY <5>2, EvictTurnsOfHead DEF Running
          <6>2. \E outcome \in {"gone", "skip", "stale", "removed"} :
                  evict' = Evicted(outcome) \/ evict' = Unpicked(Evicted(outcome), f)
            BY <1>4, <5>2 DEF EvictKeeps, Forgets, Running
          <6> QED
            BY <5>1, <6>1, <6>2
        <5>3. CASE ~Running(f, "evict", {"start", "unlinked"})
          <6>1. evict' = Unpicked(evict, f)
            BY <1>4, <5>3 DEF EvictKeeps, Forgets, Running
          <6> QED
            BY <6>1
        <5> QED
          BY <5>2, <5>3
      <4> QED
        BY <2>2, <4>1, EvictFacts
    <3>2. /\ index'[g] = index[g] /\ scan'.found[g] = scan.found[g] /\ scan'.log[g] = scan.log[g]
          /\ scan'.on = scan.on /\ scan'.todo = scan.todo /\ (g \in behind <=> g \in behind')
      <4>1. CASE IndexSet(f, 0)
        BY <2>2, <4>1, IndexSetFacts
      <4>2. CASE UNCHANGED <<index, scan, behind>>
        BY <4>2
      <4> QED
        BY <1>4, <4>1, <4>2 DEF EvictKeeps, Forgets
    <3>3. cold' = cold /\ evictTail' = evictTail
      BY <1>4 DEF EvictKeeps, Forgets
    <3>4. excess => excess'
      <4>1. CASE EvictKeeps(f)
        BY <4>1 DEF EvictKeeps
      <4>2. CASE Forgets(f)
        BY Zenon, <4>2 DEF Forgets
      <4> QED
        BY <1>4, <4>1, <4>2
    <3> QED
      BY <3>1, <3>2, <3>3, <3>4 DEF Frame, Sorted, Late, Awaits
  <2> QED
    BY <2>1, <2>2
<1>5. CASE FindsNothing(f)
  <2>1. CASE Running(f, "evict", {"condemned"})
    <3>1. evict.at = "wait" /\ evict' = Evicted("stale")
      BY <1>5, <2>1, EvictTurnsOfHead DEF FindsNothing, Running
    <3>2. /\ evict'.file = evict.file /\ evict'.entry = evict.entry /\ evict'.todo = evict.todo
          /\ evict'.same = evict.same
      BY <3>1, EvictedFacts
    <3> QED
      BY <1>5, <3>1, <3>2 DEF FindsNothing, lookup, Frame, Sorted, Late, Awaits
  <2>2. CASE ~Running(f, "evict", {"condemned"})
    BY <1>5, <2>2, FrameSame DEF FindsNothing, lookup
  <2> QED
    BY <2>1, <2>2
<1>6. CASE Unlinks(f)
  BY <1>6 DEF Unlinks, lookup, Frame, Sorted, Late, Awaits, Marks
<1>7. CASE OtherRemoves(f)
  BY <1>7 DEF OtherRemoves, lookup, Frame, Sorted, Late, Awaits, Marks
<1>8. CASE ScanStats(f)
  <2>1. CASE g = f
    BY <1>8, <2>1 DEF Marks
  <2>2. CASE g # f
    <3>1. /\ scan'.on = scan.on /\ scan'.todo = scan.todo \ {f} /\ scan'.log = scan.log
          /\ scan'.found[g] = scan.found[g]
      BY <1>8, <2>2 DEF ScanStats, LookupOK, Scan
    <3> QED
      BY <1>8, <2>2, <3>1 DEF ScanStats, ghost, Frame, Sorted, Late, Awaits
  <2> QED
    BY <2>1, <2>2
<1>9. CASE PicksVictim(f)
  <2>1. CASE g = f
    BY <1>9, <2>1 DEF Marks
  <2>2. CASE g # f
    <3>1. /\ evict'.file = evict.file /\ evict'.entry = evict.entry /\ evict'.todo = evict.todo \ {f}
          /\ evict'.same = evict.same /\ evict.at = "pick"
      BY <1>9 DEF PicksVictim, Evict
    <3> QED
      BY <1>9, <2>2, <3>1 DEF PicksVictim, lookup, ghost, Frame, Sorted, Late, Awaits
  <2> QED
    BY <2>1, <2>2
<1> QED
  BY <1>1, <1>2, <1>3, <1>4, <1>5, <1>6, <1>7, <1>8, <1>9 DEF Writes, Removals

(* What the invariant says of one file's place in the index.               *)
FileIn(g) == CoveredIn(g) /\ FreshIn(g) /\ PassedIn(g) /\ CompleteIn(g)

LEMMA FrameKeeps ==
  ASSUME NEW g \in File, FileIn(g), Frame(g), disk'[g] = disk[g], HasEvict(g) => HasEvict(g)',
         Renamed(g) => Renamed(g)', key[g].at = "unlinked" => key'[g].at = "unlinked"
  PROVE  FileIn(g)'
<1>1. CoveredIn(g)'
  BY DEF FileIn, Frame, CoveredIn, Known
<1>2. FreshIn(g)'
  BY DEF FileIn, Frame, FreshIn
<1>3. PassedIn(g)'
  BY DEF FileIn, Frame, PassedIn
<1>4. CompleteIn(g)'
  BY DEF FileIn, Frame, CompleteIn, InIndex, InScan, InPass, Late
<1> QED
  BY <1>1, <1>2, <1>3, <1>4 DEF FileIn


-----------------------------------------------------------------------------
(* A step that leaves the index and the eviction alone may end the task of *)
(* a file, but neither a save nor an eviction.                             *)
LEMMA OwnKept ==
  ASSUME TypeOK, Shape, EvictTurns, NEW f \in File,
         \/ Calls(f) \/ PurgeAsks(f) \/ ListLoads(f) \/ WriteIsSuperseded(f) \/ WriteStarts(f)
         \/ WriteOpensTemp(f) \/ WriteRetries(f) \/ WriteGivesUp(f) \/ WriteFails(f)
         \/ Looks(f) \/ Keeps(f)
  PROVE  /\ disk'[f] = disk[f] /\ (HasEvict(f) => HasEvict(f)') /\ (Renamed(f) => Renamed(f)')
         /\ (key[f].at = "unlinked" => key'[f].at = "unlinked")
<1>1. CASE Calls(f) \/ PurgeAsks(f) \/ ListLoads(f)
  <2>1. \E u \in Task : Enqueues(f, u) /\ u.kind # "evict"
    BY <1>1, CallKey, TaskKey DEF Calls
  <2>2. UNCHANGED disk
    BY <1>1 DEF Calls, Write, Delete, Read, PurgeAsks, ListLoads, store
  <2> QED
    BY <2>1, <2>2, TurnsEnqueues DEF Enqueues, Renamed
<1>2. CASE WriteIsSuperseded(f) \/ WriteGivesUp(f) \/ WriteFails(f) \/ Keeps(f)
  <2>1. Finishes(f)
    BY <1>2, DoneKey DEF Finishing
  <2>2. Head(key[f].queue).kind # "evict" /\ key[f].at \in {"start", "made", "temp"} /\ UNCHANGED disk
    BY <1>2 DEF WriteIsSuperseded, WriteGivesUp, WriteFails, Keeps, Missing, Running, store
  <2> QED
    BY <2>1, <2>2, TurnsFinishes DEF Renamed
<1>3. CASE WriteStarts(f) \/ WriteOpensTemp(f) \/ WriteRetries(f) \/ Looks(f)
  <2>1. \E at : Moves(f, at)
    BY <1>3, MoveKey
  <2>2. key[f].at \in {"start", "made", "temp"} /\ UNCHANGED disk
    BY <1>3 DEF WriteStarts, WriteOpensTemp, WriteRetries, Looks, Removes, Missing, Running, store
  <2>3. \A g \in File : key'[g].queue = key[g].queue
    BY <2>1 DEF Moves, OthersSame
  <2> QED
    BY <2>1, <2>2, <2>3, TurnsMoves DEF Renamed
<1> QED
  BY <1>1, <1>2, <1>3

LEMMA Born ==
  ASSUME TypeOK, Shape, NEW f \in File
  PROVE  /\ disk[f] \in Record /\ disk[f].born \in Nat /\ None.no = 0 /\ None.born = 0
         /\ disk[f] # None => disk[f].born # 0
BY TypeParts, IdleIsKey DEF StoreOK, Shape, Record

(* The steps that tell the index, or mark an entry, do so for their file.  *)
LEMMA SavedFile ==
  ASSUME TypeOK, Shape, Turns, NEW f \in File, FileIn(f), WriteIsSaved(f)
  PROVE  FileIn(f)'
<1> USE EvictIsEvict
<1>1. /\ Finishes(f) /\ key[f].at = "renamed" /\ Head(key[f].queue).kind # "evict" /\ UNCHANGED <<disk, excess>>
      /\ key'[f].at = "start"
  BY DoneKey DEF Finishing, WriteIsSaved, Running, store, Finishes
<1>2. Awaits(f)'
  BY AwaitsMore DEF WriteIsSaved
<1>3. CASE disk[f] # None /\ IndexSet(f, disk[f].born) /\ UNCHANGED cold
  <2>1. disk[f].born \in Nat /\ disk[f].born # 0
    BY <1>3, Born
  <2>2. index'[f] = disk'[f].born /\ (scan'.on => scan'.log[f] = "set") /\ scan'.found = scan.found
    BY <1>1, <1>3, <2>1, IndexSetFacts
  <2>3. scan'.log[f] = "none" => scan'.found[f] = 0
    BY <2>2, <1>3, <2>1, IndexSetFacts DEF Turns, ScanTurns
  <2>4. f \notin evict'.same
    BY <1>3, EvictFacts DEF WriteIsSaved
  <2>5. disk'[f] # None
    BY <1>1, <1>3
  <2>6. CoveredIn(f)'
    BY <2>3, <2>5 DEF CoveredIn, Known
  <2>7. FreshIn(f)'
    BY <2>2, <2>3, <2>4 DEF FreshIn
  <2>8. PassedIn(f)'
    BY <2>4 DEF PassedIn
  <2>9. CompleteIn(f)'
    BY <1>2, <2>2 DEF CompleteIn, InIndex, InScan, InPass
  <2> QED
    BY <2>6, <2>7, <2>8, <2>9 DEF FileIn
<1>4. CASE disk[f] = None /\ MarkCold /\ UNCHANGED <<index, behind>>
  <2>1. scan'.found = scan.found /\ scan'.log = scan.log /\ disk'[f].no = 0 /\ disk'[f] = None
    BY <1>1, <1>4, MarkColdFacts, Born
  <2>2. CoveredIn(f)'
    BY <1>1, <1>4, <2>1 DEF FileIn, CoveredIn, Known
  <2> QED
    BY <2>1, <2>2 DEF FileIn, FreshIn, PassedIn, CompleteIn
<1> QED
  BY <1>3, <1>4 DEF WriteIsSaved

LEMMA RemovedFile ==
  ASSUME TypeOK, Shape, Turns, NEW f \in File, FileIn(f), Forgets(f) \/ EvictKeeps(f)
  PROVE  FileIn(f)'
<1> USE EvictIsEvict
<1>0. Finishes(f) /\ key[f].at # "renamed" /\ key'[f].at = "start" /\ UNCHANGED disk
  BY DoneKey DEF Finishing, Forgets, EvictKeeps, Running, store, Finishes
<1>1. ASSUME IndexSet(f, 0), f \notin evict'.same, disk[f] = None \/ excess' PROVE FileIn(f)'
  <2>1. index'[f] = 0 /\ (scan'.log[f] = "none" => scan'.found[f] = 0)
    BY <1>1, IndexSetFacts DEF Turns, ScanTurns
  <2>2. CoveredIn(f)' /\ FreshIn(f)' /\ PassedIn(f)'
    BY <1>1, <2>1 DEF CoveredIn, FreshIn, PassedIn
  <2>3. CompleteIn(f)'
    BY <1>0, <1>1 DEF CompleteIn
  <2> QED
    BY <2>2, <2>3 DEF FileIn
<1>2. CASE Forgets(f)
  <2>1. f \notin evict'.same
    <3>1. Evicted("removed") \in Evict
      BY EvictedFacts
    <3>2. evict' = Unpicked(Evicted("removed"), f) \/ evict' = Unpicked(evict, f)
      BY <1>2 DEF Forgets
    <3> QED
      BY <3>1, <3>2, EvictFacts
  <2>2. disk[f] = None \/ excess'
    BY Zenon, <1>2 DEF Forgets
  <2>3. IndexSet(f, 0)
    BY <1>2 DEF Forgets
  <2> QED
    BY <1>1, <2>1, <2>2, <2>3
<1>3. CASE EvictKeeps(f)
  <2>1. CASE Outcome(f) = "gone" /\ IndexSet(f, 0) /\ evict' = Unpicked(Evicted("gone"), f)
    <3>1. f \notin evict'.same
      BY <2>1, EvictedFacts, EvictFacts
    <3>2. disk[f] = None
      BY <2>1 DEF Outcome
    <3> QED
      BY <1>1, <2>1, <3>1, <3>2
  <2>2. CASE Outcome(f) \in {"skip", "stale"} /\ evict' = Evicted(Outcome(f)) /\ UNCHANGED <<index, scan, behind>>
    <3>1. /\ evict'.same = evict.same /\ evict'.entry = evict.entry /\ evict'.file = evict.file
          /\ evict'.todo = evict.todo /\ evict'.at = "pick"
      BY <2>2, EvictedFacts
    <3>2. evict.at = "wait" /\ UNCHANGED <<cold, excess, evictTail>>
      BY <1>3, EvictTurnsOfHead DEF EvictKeeps, Running, Turns
    <3>3. f \notin evict.same \/ (disk[f] # None /\ disk[f].born # evict.entry[f])
      BY <2>2 DEF Outcome
    <3>4. CoveredIn(f)' /\ FreshIn(f)'
      <4>1. key[f].at = "start"
        BY <1>3 DEF EvictKeeps, Running
      <4> QED
        BY <1>0, <2>2, <3>1, <4>1 DEF FileIn, CoveredIn, Known, FreshIn, Renamed
    <3>5. PassedIn(f)'
      BY <1>0, <3>1, <3>3 DEF FileIn, FreshIn, PassedIn, Renamed
    <3>6. CompleteIn(f)'
      BY <1>0, <2>2, <3>1, <3>2, <3>3 DEF FileIn, CompleteIn, InIndex, InScan, InPass, Sorted, Renamed, Awaits
    <3> QED
      BY <3>4, <3>5, <3>6 DEF FileIn
  <2> QED
    BY <1>3, <2>1, <2>2 DEF EvictKeeps
<1> QED
  BY <1>2, <1>3

LEMMA DiskFile ==
  ASSUME TypeOK, Shape, Turns, NEW f \in File, FileIn(f), ~Turning, Next,
         WriteRenames(f) \/ Unlinks(f) \/ FindsNothing(f) \/ OtherRemoves(f) \/ \E bad \in BOOLEAN : OtherWrites(f, bad)
  PROVE  FileIn(f)'
<1> USE EvictIsEvict
<1>1. CASE WriteRenames(f)
  <2>1. key'[f].at = "renamed"
    BY <1>1, MoveKey DEF Moves
  <2>2. disk'[f] # None
    <3>1. disk'[f].born > 0
      BY <1>1, Born, TypeParts DEF WriteRenames, Running, Shape, StoreOK
    <3> QED
      BY <3>1, IdleIsKey
  <2> QED
    BY <2>1, <2>2 DEF FileIn, CoveredIn, Known, FreshIn, PassedIn, CompleteIn, Renamed
<1>2. CASE Unlinks(f) \/ OtherRemoves(f)
  <2>1. disk'[f] = None /\ disk'[f].no = 0
    BY <1>2, Born, TypeParts DEF Unlinks, OtherRemoves, StoreOK
  <2>2. f \in behind' \/ key'[f].at = "unlinked"
    <3>1. CASE OtherRemoves(f) \/ Running(f, "purge", {"condemned"})
      BY <1>2, <3>1 DEF Unlinks, OtherRemoves
    <3>2. CASE Unlinks(f) /\ ~Running(f, "purge", {"condemned"})
      BY <3>2, MoveKey DEF Moves
    <3> QED
      BY <1>2, <3>1, <3>2
  <2> QED
    BY <2>1, <2>2 DEF FileIn, CoveredIn, Known, FreshIn, PassedIn, CompleteIn
<1>3. CASE FindsNothing(f)
  <2>1. disk'[f] = None /\ disk[f] = None /\ disk'[f].no = 0 /\ key[f].at # "unlinked"
    BY <1>3, Born DEF FindsNothing, store
  <2>2. UNCHANGED <<index, scan, behind>>
    BY <1>3 DEF FindsNothing, lookup
  <2> QED
    BY <2>1, <2>2 DEF FileIn, CoveredIn, Known, FreshIn, PassedIn, CompleteIn
<1>4. CASE \E bad \in BOOLEAN : OtherWrites(f, bad)
  <2>1. disk'[f] # None /\ disk'[f].no = 0 /\ excess'
    <3>1. disk'[f].no = 0 /\ disk'[f].born = now + 1 /\ now \in Nat
      BY <1>4, TypeParts DEF OtherWrites, StoreOK
    <3> QED
      BY <1>4, <3>1, IdleIsKey DEF OtherWrites
  <2> QED
    BY <2>1 DEF FileIn, CoveredIn, Known, FreshIn, PassedIn, CompleteIn
<1> QED
  BY <1>1, <1>2, <1>3, <1>4

LEMMA StattedFile ==
  ASSUME TypeOK, Shape, Turns, NEW f \in File, FileIn(f), ScanStats(f)
  PROVE  FileIn(f)'
<1> USE EvictIsEvict
<1>1. /\ scan'.on /\ scan'.todo = scan.todo \ {f} /\ scan'.log = scan.log /\ scan'.found[f] = disk[f].born
      /\ scan.on /\ f \in scan.todo
  BY DEF ScanStats, LookupOK, Scan
<1>2. UNCHANGED <<disk, key, index, behind, cold, excess, evict, evictTail>>
  BY DEF ScanStats, store, keys, ghost
<1>3. CoveredIn(f)' /\ FreshIn(f)'
  BY <1>1, <1>2, Born DEF FileIn, CoveredIn, Known, FreshIn, Renamed
<1>4. PassedIn(f)'
  BY <1>2 DEF FileIn, PassedIn, Sorted, Renamed, HasEvict
<1>5. CompleteIn(f)'
  BY <1>1, <1>2 DEF FileIn, CompleteIn, InIndex, InScan, InPass, Sorted, Renamed, HasEvict, Awaits
<1> QED
  BY <1>3, <1>4, <1>5 DEF FileIn

LEMMA PickedFile ==
  ASSUME TypeOK, Shape, Turns, NEW f \in File, FileIn(f), PicksVictim(f)
  PROVE  FileIn(f)'
<1> USE EvictIsEvict
<1>1. /\ evict'.file = evict.file /\ evict'.entry = evict.entry /\ evict'.same = evict.same
      /\ evict.at = "pick" /\ f \in evict.todo /\ evict'.todo = evict.todo \ {f} /\ evict'.at \in {"pick", "wait"}
  BY DEF PicksVictim, Evict
<1>2. UNCHANGED <<disk, index, scan, behind, cold, excess, evictTail>>
  BY DEF PicksVictim, store, ghost, lookup
<1>3. (key'[f].at = key[f].at) /\ (f = evict.file \/ HasEvict(f)')
  <2>1. CASE f = evict.file
    BY <2>1 DEF PicksVictim
  <2>2. CASE f # evict.file
    <3>1. evict'.at = "wait"
      BY <2>2 DEF PicksVictim, Evict
    <3>2. NoEvictTask
      BY <1>1, NoneWhileNotWaiting DEF Turns
    <3> QED
      BY <2>2, <3>1, <3>2, PickKey, TurnsPicks DEF Enqueues
  <2> QED
    BY <2>1, <2>2
<1>4. CoveredIn(f)' /\ FreshIn(f)'
  BY <1>1, <1>2, <1>3 DEF FileIn, CoveredIn, Known, FreshIn, Renamed
<1>5. PassedIn(f)'
  BY <1>1, <1>3 DEF PassedIn
<1>6. CompleteIn(f)'
  BY <1>1, <1>2, <1>3 DEF FileIn, CompleteIn, InIndex, InScan, InPass, Sorted, Renamed, Awaits
<1> QED
  BY <1>4, <1>5, <1>6 DEF FileIn


-----------------------------------------------------------------------------
(* The steps for every file at once.                                       *)
Files == \A f \in File : FileIn(f)

LEMMA FilesParts == Files <=> Covered /\ Fresh /\ Passed /\ Complete
BY DEF Files, FileIn, Covered, Fresh, Passed, Complete

LEMMA TurningKeeps ==
  ASSUME TypeOK, Shape, Turns, Files, NEW f \in File, Turning, ~Crash
  PROVE  FileIn(f)'
<1> USE EvictIsEvict, NoneFacts DEF Files
<1>0. UNCHANGED <<disk, key>>
  BY DEF Turning, EvictBegins, ScanBegins, ScanEnds, Warm, Sorts, PassEnds, store, keys
<1>1. CASE EvictBegins
  <2>1. evict'.same = {} /\ evict'.at = "pass"
    BY <1>1 DEF EvictBegins, Evict
  <2>2. UNCHANGED <<index, scan, behind, cold, excess>>
    BY <1>1 DEF EvictBegins, lookup, ghost
  <2>3. CoveredIn(f)' /\ FreshIn(f)' /\ PassedIn(f)'
    BY <1>0, <2>1, <2>2 DEF FileIn, CoveredIn, Known, FreshIn, PassedIn, Renamed, Sorted
  <2>4. CompleteIn(f)'
    BY <1>0, <2>1, <2>2 DEF FileIn, CompleteIn, InIndex, InScan, InPass, Sorted, Renamed
  <2> QED
    BY <2>3, <2>4 DEF FileIn
<1>2. CASE ScanBegins
  <2>1. /\ scan'.on /\ scan'.todo = Live /\ scan'.found[f] = 0 /\ scan'.log[f] = "none"
        /\ evict.at = "pass" /\ cold
    BY <1>2 DEF ScanBegins, Scan
  <2>2. UNCHANGED <<index, behind, cold, evict>>
    BY <1>2 DEF ScanBegins
  <2>3. CoveredIn(f)' /\ FreshIn(f)' /\ PassedIn(f)'
    BY <1>0, <2>1, <2>2 DEF FileIn, CoveredIn, Known, FreshIn, PassedIn, Renamed, Sorted
  <2>4. CompleteIn(f)'
    BY <1>0, <2>1, <2>2 DEF CompleteIn, InIndex, InScan, InPass, Sorted, Live
  <2> QED
    BY <2>3, <2>4 DEF FileIn
<1>3. CASE ScanEnds
  <2>1. /\ index'[f] = Logged(f) /\ scan'.on = FALSE /\ scan'.found[f] = 0
        /\ (f \in behind' <=> f \in behind /\ disk[f] = None /\ Logged(f) # 0)
        /\ scan.on /\ scan.todo = {} /\ UNCHANGED <<excess, evictTail>>
    BY <1>3 DEF ScanEnds
  <2>2. evict'.at = "over" /\ evict'.same = evict.same /\ evict'.entry = evict.entry
    BY <1>3 DEF ScanEnds, Evict
  <2>3. CoveredIn(f)'
    BY <1>0, <2>1, LoggedFacts DEF FileIn, CoveredIn, Known
  <2>4. FreshIn(f)'
    BY <1>0, <2>1, <2>2, LoggedFacts DEF FileIn, FreshIn, Renamed
  <2>5. PassedIn(f)'
    BY <2>2 DEF PassedIn, Sorted
  <2>6. CompleteIn(f)'
    BY <1>0, <2>1, <2>2, LoggedFacts DEF FileIn, CompleteIn, InIndex, InScan, InPass, Renamed, Sorted
  <2> QED
    BY <2>3, <2>4, <2>5, <2>6 DEF FileIn
<1>4. CASE Warm
  <2>1. evict'.at = "over" /\ evict'.same = evict.same /\ evict'.entry = evict.entry /\ ~cold
    BY <1>4 DEF Warm, Evict
  <2>2. UNCHANGED <<index, scan, behind, cold, excess>>
    BY <1>4 DEF Warm, lookup, ghost
  <2>3. CoveredIn(f)' /\ FreshIn(f)' /\ PassedIn(f)'
    BY <1>0, <2>1, <2>2 DEF FileIn, CoveredIn, Known, FreshIn, PassedIn, Renamed, Sorted
  <2>4. CompleteIn(f)'
    BY <1>0, <2>1, <2>2 DEF FileIn, CompleteIn, InIndex, InScan, InPass, Sorted, Renamed
  <2> QED
    BY <2>3, <2>4 DEF FileIn
<1>5. CASE Sorts
  <2>1. UNCHANGED <<index, scan, behind, cold, excess>> /\ evict.at = "over"
    BY <1>5 DEF Sorts, lookup, ghost
  <2>2. CASE Over
    <3> DEFINE entries == {g \in File : index[g] # 0}
    <3>1. evict'.at = "pick" /\ evict'.todo = entries /\ evict'.same = entries /\ evict'.entry = index
      <4>1. evict' = [evict EXCEPT !.at = "pick", !.todo = entries, !.same = entries, !.entry = index]
        BY <1>5, <2>2 DEF Sorts
      <4> HIDE DEF entries
      <4> QED
        BY <4>1 DEF Evict
    <3>2. CoveredIn(f)' /\ FreshIn(f)' /\ PassedIn(f)'
      BY <1>0, <2>1, <3>1 DEF FileIn, CoveredIn, Known, FreshIn, PassedIn, Renamed
    <3>3. CompleteIn(f)'
      BY <1>0, <2>1, <3>1, Born DEF FileIn, CompleteIn, InIndex, InScan, InPass, Renamed
    <3> QED
      BY <3>2, <3>3 DEF FileIn
  <2>3. CASE ~Over
    <3>1. evict'.at = "idle" /\ evict'.same = {}
      BY <1>5, <2>3 DEF Sorts
    <3>2. CoveredIn(f)' /\ FreshIn(f)' /\ PassedIn(f)'
      BY <1>0, <2>1, <3>1 DEF FileIn, CoveredIn, Known, FreshIn, PassedIn, Renamed
    <3>3. CompleteIn(f)'
      BY <1>0, <2>1, <3>1 DEF FileIn, CompleteIn, InIndex, InScan, InPass, Renamed, Sorted
    <3> QED
      BY <3>2, <3>3 DEF FileIn
  <2> QED
    BY <2>2, <2>3
<1>6. CASE PassEnds
  <2>1. evict'.same = {} /\ evict'.at \in {"pass", "idle"}
    BY <1>6 DEF PassEnds, Evict
  <2>2. /\ UNCHANGED <<index, behind, excess>> /\ (cold => cold')
        /\ scan'.on = scan.on /\ scan'.todo = scan.todo /\ scan'.found = scan.found /\ scan'.log = scan.log
    BY <1>6, MarkColdFacts DEF PassEnds, ghost
  <2>3. CoveredIn(f)' /\ FreshIn(f)' /\ PassedIn(f)'
    BY <1>0, <2>1, <2>2 DEF FileIn, CoveredIn, Known, FreshIn, PassedIn, Renamed, Sorted
  <2>4. CompleteIn(f)'
    BY <1>0, <2>1, <2>2 DEF FileIn, CompleteIn, InIndex, InScan, InPass, Sorted, Renamed
  <2> QED
    BY <2>3, <2>4 DEF FileIn
<1> QED
  BY <1>1, <1>2, <1>3, <1>4, <1>5, <1>6 DEF Turning

LEMMA CrashKeeps ==
  ASSUME TypeOK, NEW f \in File, Crash
  PROVE  FileIn(f)'
<1>1. index'[f] = 0 /\ scan'.found[f] = 0 /\ evict'.same = {} /\ evict'.at = "idle" /\ excess' = TRUE
  BY NoneFacts DEF Crash
<1> QED
  BY <1>1 DEF FileIn, CoveredIn, FreshIn, PassedIn, CompleteIn

LEMMA StepKeeps ==
  ASSUME TypeOK, Shape, Turns, Files, NEW f \in File, Next, ~Turning,
         \/ Calls(f) \/ Writes(f) \/ Removals(f) \/ ScanStats(f) \/ PicksVictim(f) \/ PurgeAsks(f)
         \/ ListLoads(f) \/ OtherRemoves(f) \/ \E bad \in BOOLEAN : OtherWrites(f, bad)
  PROVE  Files'
<1>1. \A g \in File : FileIn(g)
  BY DEF Files
<1>2. \A g \in File : Frame(g) \/ (g = f /\ Marks(f))
  BY FrameOthers DEF Turns
<1>3. ASSUME NEW g \in File, g # f PROVE FileIn(g)'
  <2>0. /\ \/ Calls(f) \/ Writes(f) \/ Removals(f) \/ PicksVictim(f) \/ PurgeAsks(f) \/ ListLoads(f)
           \/ OtherRemoves(f) \/ \E bad \in BOOLEAN : OtherWrites(f, bad)
        => key'[g] = key[g] /\ disk'[g] = disk[g]
    BY <1>3, OthersKept
  <2>1. key'[g] = key[g] /\ disk'[g] = disk[g]
    BY <2>0 DEF ScanStats, store, keys
  <2> QED
    BY <1>1, <1>2, <1>3, <2>1, FrameKeeps DEF HasEvict, Renamed
<1>4. FileIn(f)'
  <2>1. CASE \/ Calls(f) \/ PurgeAsks(f) \/ ListLoads(f) \/ WriteIsSuperseded(f) \/ WriteStarts(f)
             \/ WriteOpensTemp(f) \/ WriteRetries(f) \/ WriteGivesUp(f) \/ WriteFails(f)
             \/ Looks(f) \/ Keeps(f)
    <3>1. Frame(f)
      BY <2>1, FrameSame DEF Calls, Write, Delete, Read, PurgeAsks, ListLoads, WriteIsSuperseded,
         WriteStarts, WriteOpensTemp, WriteRetries, WriteGivesUp, WriteFails, Looks, Keeps, lookup, ghost
    <3> QED
      BY <1>1, <2>1, <3>1, OwnKept, FrameKeeps DEF Turns
  <2>2. CASE WriteIsSaved(f)
    BY <1>1, <2>2, SavedFile
  <2>3. CASE Forgets(f) \/ EvictKeeps(f)
    BY <1>1, <2>3, RemovedFile
  <2>4. CASE \/ WriteRenames(f) \/ Unlinks(f) \/ FindsNothing(f) \/ OtherRemoves(f)
             \/ \E bad \in BOOLEAN : OtherWrites(f, bad)
    BY <1>1, <2>4, DiskFile
  <2>5. CASE ScanStats(f)
    BY <1>1, <2>5, StattedFile
  <2>6. CASE PicksVictim(f)
    BY <1>1, <2>6, PickedFile
  <2> QED
    BY <2>1, <2>2, <2>3, <2>4, <2>5, <2>6 DEF Writes, Removals
<1> QED
  BY <1>3, <1>4 DEF Files

LEMMA FilesKept ==
  ASSUME TypeOK, Shape, Turns, Files, [Next]_vars
  PROVE  Files'
<1>1. CASE Turning
  <2>1. ASSUME NEW f \in File PROVE FileIn(f)'
    BY <1>1, TurningKeeps, CrashKeeps
  <2> QED
    BY <2>1 DEF Files
<1>2. CASE UNCHANGED vars
  <2>1. UNCHANGED <<index, scan, behind, excess, cold, disk, key, evict, evictTail>>
    BY <1>2 DEF vars, store, keys, lookup, ghost
  <2>2. ASSUME NEW f \in File PROVE FileIn(f)'
    BY <2>1, FrameSame, FrameKeeps DEF Files, HasEvict, Renamed
  <2> QED
    BY <2>2 DEF Files
<1>3. CASE /\ ~Turning /\ Next
           /\ \E f \in File : \/ Calls(f) \/ Writes(f) \/ Removals(f) \/ ScanStats(f) \/ PicksVictim(f)
                              \/ PurgeAsks(f) \/ ListLoads(f) \/ OtherRemoves(f)
                              \/ \E bad \in BOOLEAN : OtherWrites(f, bad)
  BY <1>3, StepKeeps
<1>4. CASE Purges \/ Lists \/ TimePasses
  <2>1. UNCHANGED <<disk, index, behind, excess, evict, evictTail>>
    BY <1>4 DEF Purges, PurgeLists, PurgeTemps, PurgeChecksEmpty, PurgeRmdir, PurgeEnds,
       Lists, List, ListNames, ListEnds, TimePasses, store, lookup, ghost
  <2>2. UNCHANGED key
    BY <1>4 DEF Purges, PurgeLists, PurgeTemps, PurgeChecksEmpty, PurgeRmdir, PurgeEnds,
       Lists, List, ListNames, ListEnds, TimePasses, keys
  <2>3. /\ (cold => cold') /\ scan'.on = scan.on /\ scan'.todo = scan.todo /\ scan'.found = scan.found
        /\ scan'.log = scan.log
    <3>1. MarkCold \/ UNCHANGED <<cold, scan>>
      BY <1>4 DEF Purges, PurgeLists, PurgeTemps, PurgeChecksEmpty, PurgeRmdir, PurgeEnds,
         Lists, List, ListNames, ListEnds, TimePasses, lookup
    <3>2. CASE MarkCold
      BY <3>2, MarkColdFacts, EvictIsEvict
    <3>3. CASE UNCHANGED <<cold, scan>>
      BY <3>3
    <3> QED
      BY <3>1, <3>2, <3>3
  <2>4. ASSUME NEW f \in File PROVE FileIn(f)'
    <3>1. Frame(f)
      BY <2>1, <2>3 DEF Frame, Sorted, Late, Awaits
    <3> QED
      BY <2>1, <2>2, <3>1, FrameKeeps DEF Files, HasEvict, Renamed
  <2> QED
    BY <2>4 DEF Files
<1> QED
  BY <1>1, <1>2, <1>3, <1>4 DEF Next, Evicts, Turning

-----------------------------------------------------------------------------
(* The cap.                                                                *)
Unsaved == {f \in Live : ~Renamed(f)}

LEMMA Counting ==
  /\ \A S \in SUBSET File : IsFiniteSet(S) /\ Cardinality(S) \in Nat
  /\ \A S, T \in SUBSET File : S \subseteq T => Cardinality(S) <= Cardinality(T)
  /\ \A f \in File : Cardinality({f}) = 1
<1>1. \A S \in SUBSET File : IsFiniteSet(S) /\ Cardinality(S) \in Nat
  BY RecoveryDraftsAssumption, FS_Subset, FS_CardinalityType
<1> QED
  BY <1>1, FS_Subset, FS_Singleton

LEMMA SettledShrinks ==
  ASSUME Settled, Unsaved' \subseteq Unsaved, excess => excess', evict'.at = "idle" => evict.at = "idle",
         evictTail' = <<>> => evictTail = <<>>
  PROVE  Settled'
<1>1. Unsaved \in SUBSET File /\ Unsaved' \in SUBSET File
  BY DEF Unsaved, Live
<1>2. Cardinality(Unsaved') <= Cardinality(Unsaved) /\ Cardinality(Unsaved) \in Nat /\ Cardinality(Unsaved') \in Nat
  BY <1>1, Counting
<1>3. Settled <=> (~excess /\ evict.at = "idle" /\ evictTail = <<>> => Cardinality(Unsaved) <= Cap)
  BY DEF Settled, Unsaved
<1>4. Settled' <=> (~excess' /\ evict'.at = "idle" /\ evictTail' = <<>> => Cardinality(Unsaved') <= Cap)
  BY DEF Settled, Unsaved
<1>5. Cap \in Nat
  BY RecoveryDraftsAssumption
<1> HIDE DEF Unsaved, Settled
<1> QED
  BY <1>2, <1>3, <1>4, <1>5

(* Only an eviction's own turns make it idle, empty its queue or forget what*)
(* other instances did.                                                    *)
LEMMA IdleStays ==
  ASSUME TypeOK, Shape, EvictTurns, [Next]_vars, ~Turning
  PROVE  (excess => excess') /\ (evict'.at = "idle" => evict.at = "idle") /\ (evictTail' = <<>> => evictTail = <<>>)
<1>0. CASE UNCHANGED vars
  BY <1>0 DEF vars, ghost
<1>1. ASSUME NEW f \in File, Write(f) PROVE (excess => excess') /\ (evict'.at = "idle" => evict.at = "idle") /\ (evictTail' = <<>> => evictTail = <<>>)
  BY <1>1 DEF Write, ghost
<1>2. ASSUME NEW f \in File, Delete(f) PROVE (excess => excess') /\ (evict'.at = "idle" => evict.at = "idle") /\ (evictTail' = <<>> => evictTail = <<>>)
  BY <1>2 DEF Delete, ghost
<1>3. ASSUME NEW f \in File, Read(f) PROVE (excess => excess') /\ (evict'.at = "idle" => evict.at = "idle") /\ (evictTail' = <<>> => evictTail = <<>>)
  BY <1>3 DEF Read, ghost
<1>4. ASSUME NEW f \in File, WriteIsSuperseded(f) PROVE (excess => excess') /\ (evict'.at = "idle" => evict.at = "idle") /\ (evictTail' = <<>> => evictTail = <<>>)
  BY <1>4 DEF WriteIsSuperseded, ghost
<1>5. ASSUME NEW f \in File, WriteStarts(f) PROVE (excess => excess') /\ (evict'.at = "idle" => evict.at = "idle") /\ (evictTail' = <<>> => evictTail = <<>>)
  BY <1>5 DEF WriteStarts, ghost
<1>6. ASSUME NEW f \in File, WriteOpensTemp(f) PROVE (excess => excess') /\ (evict'.at = "idle" => evict.at = "idle") /\ (evictTail' = <<>> => evictTail = <<>>)
  BY <1>6 DEF WriteOpensTemp, ghost
<1>7. ASSUME NEW f \in File, WriteRenames(f) PROVE (excess => excess') /\ (evict'.at = "idle" => evict.at = "idle") /\ (evictTail' = <<>> => evictTail = <<>>)
  BY <1>7 DEF WriteRenames, ghost
<1>8. ASSUME NEW f \in File, WriteRetries(f) PROVE (excess => excess') /\ (evict'.at = "idle" => evict.at = "idle") /\ (evictTail' = <<>> => evictTail = <<>>)
  BY <1>8 DEF WriteRetries, ghost
<1>9. ASSUME NEW f \in File, WriteGivesUp(f) PROVE (excess => excess') /\ (evict'.at = "idle" => evict.at = "idle") /\ (evictTail' = <<>> => evictTail = <<>>)
  BY <1>9 DEF WriteGivesUp, ghost
<1>10. ASSUME NEW f \in File, WriteFails(f) PROVE (excess => excess') /\ (evict'.at = "idle" => evict.at = "idle") /\ (evictTail' = <<>> => evictTail = <<>>)
  BY <1>10 DEF WriteFails, ghost
<1>11. ASSUME NEW f \in File, WriteIsSaved(f) PROVE (excess => excess') /\ (evict'.at = "idle" => evict.at = "idle") /\ (evictTail' = <<>> => evictTail = <<>>)
  <2>1. evict'.at = evict.at
    BY <1>11, EvictFacts, EvictIsEvict DEF WriteIsSaved
  <2> QED
    BY <1>11, <2>1, AwaitsMore, EvictIsEvict DEF WriteIsSaved
<1>12. ASSUME NEW f \in File, Looks(f) PROVE (excess => excess') /\ (evict'.at = "idle" => evict.at = "idle") /\ (evictTail' = <<>> => evictTail = <<>>)
  BY <1>12 DEF Looks, ghost
<1>13. ASSUME NEW f \in File, Keeps(f) PROVE (excess => excess') /\ (evict'.at = "idle" => evict.at = "idle") /\ (evictTail' = <<>> => evictTail = <<>>)
  BY <1>13 DEF Keeps, ghost
<1>14. ASSUME NEW f \in File, EvictKeeps(f) PROVE (excess => excess') /\ (evict'.at = "idle" => evict.at = "idle") /\ (evictTail' = <<>> => evictTail = <<>>)
  BY <1>14, EvictedFacts, EvictFacts, EvictIsEvict DEF EvictKeeps
<1>15. ASSUME NEW f \in File, Unlinks(f) PROVE (excess => excess') /\ (evict'.at = "idle" => evict.at = "idle") /\ (evictTail' = <<>> => evictTail = <<>>)
  BY <1>15 DEF Unlinks, ghost
<1>16. ASSUME NEW f \in File, FindsNothing(f) PROVE (excess => excess') /\ (evict'.at = "idle" => evict.at = "idle") /\ (evictTail' = <<>> => evictTail = <<>>)
  BY <1>16, EvictedFacts, EvictIsEvict DEF FindsNothing
<1>17. ASSUME NEW f \in File, Forgets(f) PROVE (excess => excess') /\ (evict'.at = "idle" => evict.at = "idle") /\ (evictTail' = <<>> => evictTail = <<>>)
  <2>1. evict'.at # "idle" \/ evict'.at = evict.at
    <3>1. evict' = Unpicked(Evicted("removed"), f) \/ evict' = Unpicked(evict, f)
      BY <1>17 DEF Forgets
    <3> QED
      BY <3>1, EvictedFacts, EvictFacts, EvictIsEvict
  <2>2. excess => excess'
    BY Zenon, <1>17 DEF Forgets
  <2>3. evictTail' = evictTail
    BY <1>17 DEF Forgets
  <2> QED
    BY <2>1, <2>2, <2>3
<1>18. ASSUME NEW f \in File, ScanStats(f) PROVE (excess => excess') /\ (evict'.at = "idle" => evict.at = "idle") /\ (evictTail' = <<>> => evictTail = <<>>)
  BY <1>18 DEF ScanStats, ghost
<1>19. ASSUME NEW f \in File, PicksVictim(f) PROVE (excess => excess') /\ (evict'.at = "idle" => evict.at = "idle") /\ (evictTail' = <<>> => evictTail = <<>>)
  <2>1. evict'.at # "idle"
    BY <1>19, EvictIsEvict DEF PicksVictim, Evict
  <2> QED
    BY <1>19, <2>1 DEF PicksVictim, ghost
<1>20. ASSUME NEW f \in File, PurgeAsks(f) PROVE (excess => excess') /\ (evict'.at = "idle" => evict.at = "idle") /\ (evictTail' = <<>> => evictTail = <<>>)
  BY <1>20 DEF PurgeAsks, ghost
<1>21. ASSUME NEW f \in File, ListLoads(f) PROVE (excess => excess') /\ (evict'.at = "idle" => evict.at = "idle") /\ (evictTail' = <<>> => evictTail = <<>>)
  BY <1>21 DEF ListLoads, ghost
<1>22. ASSUME NEW f \in File, OtherRemoves(f) PROVE (excess => excess') /\ (evict'.at = "idle" => evict.at = "idle") /\ (evictTail' = <<>> => evictTail = <<>>)
  BY <1>22 DEF OtherRemoves, ghost
<1>23. ASSUME NEW f \in File, NEW bad \in BOOLEAN, OtherWrites(f, bad) PROVE (excess => excess') /\ (evict'.at = "idle" => evict.at = "idle") /\ (evictTail' = <<>> => evictTail = <<>>)
  BY <1>23 DEF OtherWrites, ghost
<1>24. CASE EvictBegins
  BY <1>24 DEF Turning
<1>25. CASE ScanBegins
  BY <1>25 DEF Turning
<1>26. CASE ScanEnds
  BY <1>26 DEF Turning
<1>27. CASE Warm
  BY <1>27 DEF Turning
<1>28. CASE Sorts
  BY <1>28 DEF Turning
<1>29. CASE PassEnds
  BY <1>29 DEF Turning
<1>30. CASE PurgeLists
  BY <1>30 DEF PurgeLists, ghost
<1>31. CASE PurgeTemps
  BY <1>31 DEF PurgeTemps, ghost
<1>32. CASE PurgeChecksEmpty
  BY <1>32 DEF PurgeChecksEmpty, ghost
<1>33. CASE PurgeRmdir
  BY <1>33 DEF PurgeRmdir, ghost
<1>34. CASE PurgeEnds
  BY <1>34 DEF PurgeEnds, ghost
<1>35. CASE List
  BY <1>35 DEF List, ghost
<1>36. CASE ListNames
  BY <1>36 DEF ListNames, ghost
<1>37. CASE ListEnds
  BY <1>37 DEF ListEnds, ghost
<1>38. CASE TimePasses
  BY <1>38 DEF TimePasses, ghost
<1>39. CASE Crash
  BY <1>39 DEF Turning
<1> QED
  BY <1>0, <1>1, <1>2, <1>3, <1>4, <1>5, <1>6, <1>7, <1>8, <1>9, <1>10, <1>11, <1>12, <1>13, <1>14, <1>15, <1>16, <1>17, <1>18, <1>19, <1>20, <1>21, <1>22, <1>23, <1>24, <1>25, <1>26, <1>27, <1>28, <1>29, <1>30, <1>31, <1>32, <1>33, <1>34, <1>35, <1>36, <1>37, <1>38, <1>39
     DEF Next, Calls, Writes, Removals, Evicts, Purges, Lists

LEMMA UnsavedShrinks ==
  ASSUME TypeOK, Shape, EvictTurns, NEW f \in File, ~WriteIsSaved(f),
         \/ Calls(f) \/ Writes(f) \/ Removals(f) \/ PicksVictim(f) \/ PurgeAsks(f)
         \/ ListLoads(f) \/ OtherRemoves(f)
  PROVE  Unsaved' \subseteq Unsaved
<1>1. \A g \in File \ {f} : key'[g] = key[g] /\ disk'[g] = disk[g]
  BY OthersKept
<1>2. disk'[f] # None /\ ~Renamed(f)' => disk[f] # None /\ ~Renamed(f)
  <2>1. CASE \/ Calls(f) \/ PurgeAsks(f) \/ ListLoads(f) \/ WriteIsSuperseded(f) \/ WriteStarts(f)
             \/ WriteOpensTemp(f) \/ WriteRetries(f) \/ WriteGivesUp(f) \/ WriteFails(f)
             \/ Looks(f) \/ Keeps(f)
    BY <2>1, OwnKept
  <2>2. CASE WriteRenames(f)
    BY <2>2, MoveKey DEF Moves, Renamed
  <2>3. CASE Unlinks(f) \/ OtherRemoves(f)
    BY <2>3, TypeParts DEF Unlinks, OtherRemoves, StoreOK
  <2>4. CASE Forgets(f) \/ EvictKeeps(f) \/ FindsNothing(f)
    BY <2>4 DEF Forgets, EvictKeeps, FindsNothing, Running, Renamed, store
  <2>5. CASE PicksVictim(f)
    <3>1. disk' = disk
      BY <2>5 DEF PicksVictim, store
    <3>2. key'[f].at = key[f].at
      BY <2>5, PickKey DEF PicksVictim, Enqueues
    <3> QED
      BY <3>1, <3>2 DEF Renamed
  <2> QED
    BY <2>1, <2>2, <2>3, <2>4, <2>5 DEF Writes, Removals
<1> QED
  BY <1>1, <1>2 DEF Unsaved, Live, Renamed

LEMMA SettledKept ==
  ASSUME TypeOK, Shape, Turns, Files, Settled, [Next]_vars
  PROVE  Settled'
<1> USE EvictIsEvict
<1>1. CASE EvictBegins \/ ScanBegins \/ ScanEnds \/ Warm
  <2>1. evict'.at # "idle"
    <3>1. CASE ScanBegins
      BY <3>1 DEF ScanBegins
    <3>2. CASE EvictBegins \/ ScanEnds \/ Warm
      BY <3>2, NoneFacts DEF EvictBegins, ScanEnds, Warm, Evict
    <3> QED
      BY <1>1, <3>1, <3>2
  <2> QED
    BY <2>1 DEF Settled
<1>2. CASE Crash \/ \E f \in File, bad \in BOOLEAN : OtherWrites(f, bad)
  BY <1>2 DEF Crash, OtherWrites, Settled
<1>3. CASE \E f \in File : WriteIsSaved(f)
  BY <1>3, AwaitsMore DEF WriteIsSaved, Settled
<1>4. CASE Sorts \/ PassEnds
  <2>0. UNCHANGED <<disk, key, excess, evictTail>>
    BY <1>4 DEF Sorts, PassEnds, store, keys, ghost
  <2>1. SUFFICES ASSUME ~excess, evict'.at = "idle", evictTail = <<>>
                 PROVE  Cardinality(Unsaved) <= Cap
    BY <2>0 DEF Settled, Unsaved, Renamed, Live
  <2>2. Cap \in Nat \ {0} /\ Unsaved \in SUBSET File
    BY RecoveryDraftsAssumption DEF Unsaved, Live
  <2>3. CASE ~Over
    <3>1. Unsaved \subseteq {f \in File : index[f] # 0}
      <4>1. evict.at \in {"over", "pick"}
        BY <1>4 DEF Sorts, PassEnds
      <4> QED
        BY <2>1, <4>1, Born DEF Unsaved, Live, Files, FileIn, CompleteIn, InIndex
    <3>2. Cardinality({f \in File : index[f] # 0}) <= Cap
      <4> DEFINE n == Cardinality({f \in File : index[f] # 0})
      <4>1. n \in Nat
        BY Counting
      <4>2. ~(n > Cap)
        BY <2>3 DEF Over
      <4> HIDE DEF n
      <4>3. n <= Cap
        BY <4>1, <4>2, <2>2
      <4> QED
        BY <4>3 DEF n
    <3> DEFINE T == {f \in File : index[f] # 0}
    <3>3. T \in SUBSET File
      OBVIOUS
    <3>4. Cardinality(Unsaved) <= Cardinality(T) /\ Cardinality(Unsaved) \in Nat /\ Cardinality(T) \in Nat
      BY <2>2, <3>1, <3>3, Counting
    <3> QED
      BY <2>2, <3>2, <3>4
  <2>4. CASE PassEnds /\ evict.todo = {}
    <3>1. Unsaved \subseteq {evict.file}
      <4>1. NoEvictTask /\ Sorted
        BY <2>4, NoneWhileNotWaiting DEF PassEnds, Turns, Sorted
      <4>2. \A f \in File : ~Awaits(f)
        BY <2>1 DEF Awaits
      <4> QED
        BY <2>1, <2>4, <4>1, <4>2 DEF Unsaved, Live, Files, FileIn, CompleteIn, InPass, NoEvictTask
    <3>2. evict.file \in File
      BY DEF Evict
    <3>3. Cardinality(Unsaved) <= Cardinality({evict.file}) /\ Cardinality({evict.file}) = 1
          /\ Cardinality(Unsaved) \in Nat
      BY <2>2, <3>1, <3>2, Counting
    <3> QED
      BY <2>2, <3>3
  <2>5. Sorts => ~Over
    BY <2>1 DEF Sorts, Evict
  <2> QED
    BY <1>4, <2>3, <2>4, <2>5 DEF PassEnds
<1>5. CASE /\ ~Turning
           /\ \/ UNCHANGED vars
              \/ Purges \/ Lists \/ TimePasses
              \/ \E f \in File : ScanStats(f)
              \/ \E f \in File : /\ ~WriteIsSaved(f)
                                /\ \/ Calls(f) \/ Writes(f) \/ Removals(f) \/ PicksVictim(f) \/ PurgeAsks(f)
                                   \/ ListLoads(f) \/ OtherRemoves(f)
  <2>1. (excess => excess') /\ (evict'.at = "idle" => evict.at = "idle") /\ (evictTail' = <<>> => evictTail = <<>>)
    BY <1>5, IdleStays DEF Turns
  <2>2. Unsaved' \subseteq Unsaved
    <3>1. CASE UNCHANGED vars \/ Purges \/ Lists \/ TimePasses \/ \E f \in File : ScanStats(f)
      <4>1. UNCHANGED disk
        BY <3>1 DEF vars, Purges, PurgeLists, PurgeTemps, PurgeChecksEmpty, PurgeRmdir, PurgeEnds,
           Lists, List, ListNames, ListEnds, TimePasses, ScanStats, store
      <4>2. UNCHANGED key
        BY <3>1 DEF vars, Purges, PurgeLists, PurgeTemps, PurgeChecksEmpty, PurgeRmdir, PurgeEnds,
           Lists, List, ListNames, ListEnds, TimePasses, ScanStats, keys
      <4> QED
        BY <4>1, <4>2 DEF Unsaved, Live, Renamed
    <3> QED
      BY <1>5, <3>1, UnsavedShrinks DEF Turns
  <2> QED
    BY <2>1, <2>2, SettledShrinks
<1> QED
  BY <1>1, <1>2, <1>3, <1>4, <1>5 DEF Next, Evicts, Turning, Writes


-----------------------------------------------------------------------------
LEMMA InitIInv == Init => IInv
<1> SUFFICES ASSUME Init PROVE IInv
  OBVIOUS
<1>1. PICK kept \in SUBSET File :
        /\ Cardinality(kept) <= Cap /\ dir = (kept # {})
        /\ disk = [f \in File |-> IF f \in kept THEN [no |-> 1, born |-> 1, bad |-> FALSE] ELSE None]
        /\ asked = [f \in File |-> IF f \in kept THEN 1 ELSE 0] /\ floor = asked
  BY DEF Init
<1>2. /\ litter = "none" /\ now = 1 /\ horizon = 0 /\ key = [f \in File |-> Idle]
      /\ tmp = [f \in File |-> "none"] /\ index = [f \in File |-> 0] /\ cold = TRUE /\ scan = NoScan
      /\ purge = [at |-> "listing", todo |-> {}] /\ list = [at |-> "idle", todo |-> {}]
      /\ evictTail = <<>> /\ evict = NoEvict /\ behind = {} /\ excess = FALSE /\ spent \in [Step -> Nat]
  BY RecoveryDraftsAssumption DEF Init
<1>3. [no |-> 1, born |-> 1, bad |-> FALSE] \in Record /\ [no |-> 1, born |-> 1, bad |-> FALSE] # None
  BY DEF Record, None
<1>4. \A f \in File : /\ disk[f].no = asked[f] /\ floor[f] = asked[f] /\ asked[f] \in {0, 1}
                      /\ disk[f] = None \/ disk[f].born > 0
  BY <1>1, IdleIsKey
<1>5. TypeOK
  <2>1. StoreOK
    <3>1. disk \in [File -> Record]
      BY <1>1, <1>3, IdleIsKey
    <3>2. asked \in [File -> Nat] /\ floor \in [File -> Nat]
      BY <1>1
    <3>3. dir \in BOOLEAN
      BY Zenon, <1>1
    <3> QED
      BY <1>2, <3>1, <3>2, <3>3 DEF StoreOK, Age
  <2>2. key \in [File -> Key] /\ LookupOK /\ CallersOK /\ SpentOK
    BY <1>2, IdleIsKey, NoneFacts DEF LookupOK, CallersOK, SpentOK
  <2> QED
    BY <2>1, <2>2, TypeParts
<1>6. Shape /\ Ordered /\ KeptInOrder /\ Judged
  <2>1. \A f \in File : key[f].queue = <<>> /\ key[f].at = "start"
    BY <1>2, IdleIsKey
  <2> QED
    BY <1>4, <2>1 DEF Shape, Ordered, KeptInOrder, Judged, JudgedIn, InOrder, Renamed
<1>7. Turns
  <2>1. \A f \in File : key[f].queue = <<>> /\ scan.found[f] = 0 /\ scan.on = FALSE
    BY <1>2, IdleIsKey, NoneFacts
  <2> QED
    BY <1>2, <2>1, NoneFacts DEF Turns, EvictTurns, ScanTurns
<1>8. Covered /\ Fresh /\ Passed /\ Complete
  <2>1. \A f \in File : index[f] = 0 /\ scan.found[f] = 0 /\ scan.on = FALSE /\ evict.same = {}
                        /\ evict.at = "idle"
    BY <1>2, NoneFacts
  <2> QED
    BY <1>2, <2>1 DEF Covered, CoveredIn, Fresh, FreshIn, Passed, PassedIn, Complete, CompleteIn,
                      InIndex, InScan, InPass, Sorted
<1>9. Settled
  <2>1. Unsaved \subseteq kept
    BY <1>1, IdleIsKey DEF Unsaved, Live
  <2>2. Unsaved \in SUBSET File
    BY DEF Unsaved, Live
  <2>3. Cardinality(Unsaved) <= Cardinality(kept) /\ Cardinality(Unsaved) \in Nat /\ Cardinality(kept) \in Nat
    BY <2>1, <2>2, Counting
  <2>4. Cardinality(Unsaved) <= Cap
    BY <1>1, <2>3, RecoveryDraftsAssumption
  <2> QED
    BY <2>4 DEF Settled, Unsaved
<1> QED
  BY <1>5, <1>6, <1>7, <1>8, <1>9 DEF IInv

LEMMA InductiveInvariant == IInv /\ [Next]_vars => IInv'
<1> SUFFICES ASSUME IInv, [Next]_vars PROVE IInv'
  OBVIOUS
<1>0. /\ TypeOK /\ Shape /\ Ordered /\ KeptInOrder /\ Turns /\ Judged /\ Covered /\ Fresh /\ Passed
      /\ Complete /\ Settled
  BY DEF IInv
<1>1. TypeOK' /\ Shape'
  BY <1>0, TypeKept, ShapeKept
<1>2. Ordered' /\ KeptInOrder'
  <2>1. \A f \in File : OrderedIn(f)'
    BY <1>0, OrderedParts, OrderedKept
  <2> QED
    BY <2>1 DEF Ordered, KeptInOrder, OrderedIn
<1>3. Turns' /\ Judged'
  BY <1>0, EvictTurnsKept, ScanTurnsKept, JudgedKept DEF Turns, Judged
<1>4. Covered' /\ Fresh' /\ Passed' /\ Complete' /\ Settled'
  <2>1. Files
    BY <1>0, FilesParts
  <2>2. Files'
    BY <1>0, <2>1, FilesKept
  <2>3. Covered' /\ Fresh' /\ Passed' /\ Complete'
    BY <2>2 DEF Files, FileIn, Covered, Fresh, Passed, Complete
  <2>4. Settled'
    BY <1>0, <2>1, SettledKept
  <2> QED
    BY <2>3, <2>4
<1> QED
  BY <1>1, <1>2, <1>3, <1>4 DEF IInv

(* The strengthening holds in every state: what a task, an index entry and *)
(* an eviction may count on, whatever interleaves with them.               *)
THEOREM Invariance == Spec => []IInv
<1>1. Init => IInv
  BY InitIInv
<1>2. IInv /\ [Next]_vars => IInv'
  BY InductiveInvariant
<1> QED
  BY <1>1, <1>2, PTL DEF Spec

(* The state of the store keeps its types.                                 *)
THEOREM TypeCorrect == Spec => []TypeOK
<1>1. IInv => TypeOK
  BY DEF IInv
<1> QED
  BY <1>1, Invariance, PTL

(* Once a write or a delete of a draft has been answered, no older draft of*)
(* that file is on the disk: a late write never brings a deleted one back, *)
(* whatever other instances, purges, evictions and crashes do meanwhile.   *)
THEOREM NewestWins == Spec => []KeptInOrder
<1>1. IInv => KeptInOrder
  BY DEF IInv
<1> QED
  BY <1>1, Invariance, PTL

LEMMA UnlinksJudged ==
  ASSUME IInv, NEW f \in File, disk[f].no # 0, Unlinks(f)
  PROVE  disk[f] = key[f].judged /\ (Running(f, "evict", {"condemned"}) => disk[f].born = evict.entry[f])
BY DEF IInv, Judged, JudgedIn, Unlinks, Running

LEMMA VictimIsOldest ==
  ASSUME IInv, NEW f \in File, PicksVictim(f)
  PROVE  Cardinality(Counted) > Cap /\ Older(f) = {}
<1>1. Cardinality(Counted) > Cap
  <2> DEFINE T == {g \in File : index[g] # 0}
  <2>1. T \subseteq Counted /\ T \in SUBSET File
    BY DEF IInv, Covered, CoveredIn, Known, Counted, Live
  <2>2. Counted \in SUBSET File
    BY TypeParts DEF IInv, StoreOK, Counted, Live
  <2>3. Cardinality(T) > Cap
    BY DEF PicksVictim, Over
  <2>4. Cardinality(T) <= Cardinality(Counted) /\ Cardinality(T) \in Nat /\ Cardinality(Counted) \in Nat
    BY <2>1, <2>2, Counting
  <2> HIDE DEF T
  <2> QED
    BY <2>3, <2>4, RecoveryDraftsAssumption
<1>2. ASSUME NEW g \in Older(f) PROVE FALSE
  <2>1. /\ g \in File /\ g \in evict.same /\ g # f /\ g # evict.file /\ disk[g].no # 0 /\ ~Renamed(g)
        /\ disk[g].born < evict.entry[f]
    BY <1>2 DEF Older, Live, Renamed
  <2>2. NoEvictTask /\ Sorted
    BY NoneWhileNotWaiting DEF IInv, Turns, PicksVictim, Sorted
  <2>3. g \in evict.todo
    BY <2>1, <2>2 DEF IInv, Passed, PassedIn, NoEvictTask
  <2>4. evict.entry[f] <= evict.entry[g]
    BY <2>3 DEF PicksVictim, Oldest
  <2>5. evict.entry[g] = disk[g].born
    BY <2>1 DEF IInv, Fresh, FreshIn
  <2>6. evict.entry[f] \in Nat /\ disk[g].born \in Nat
    BY <2>1, TypeParts, Born DEF IInv, CallersOK, Evict
  <2> QED
    BY <2>1, <2>4, <2>5, <2>6
<1> QED
  BY <1>1, <1>2

(* Whatever the store unlinks is the very record it judged, and an eviction*)
(* picks only over the cap, oldest first, never the draft just written.    *)
THEOREM RemovalsJust == Spec => RemovalsAreJust
<1> DEFINE Just == \A f \in File : disk[f].no # 0 =>
       /\ Unlinks(f) => /\ disk[f] = key[f].judged
                        /\ Running(f, "evict", {"condemned"}) => disk[f].born = evict.entry[f]
       /\ PicksVictim(f) /\ f # evict.file =>
            /\ Cardinality(Counted) > Cap
            /\ Older(f) = {}
<1>1. IInv => Just
  BY UnlinksJudged, VictimIsOldest
<1>2. IInv => [Just]_vars
  BY <1>1
<1>3. RemovalsAreJust <=> [][Just]_vars
  BY DEF RemovalsAreJust
<1> HIDE DEF Just
<1> QED
  BY <1>2, <1>3, Invariance, PTL

(* When nothing runs any more no more drafts are kept than the cap allows, *)
(* unless a crash or another instance has left more than the index has seen*)
(* since, or it was told to forget a draft that another instance had just  *)
(* put back.                                                               *)
THEOREM CapHolds == Spec => []CapsHold
<1>1. ASSUME IInv, \A f \in File : key[f].queue = <<>>, evict.at = "idle", evictTail = <<>>, ~excess
      PROVE  Cardinality(Live) <= Cap
  <2>1. \A f \in File : ~Renamed(f)
    BY <1>1 DEF IInv, Shape, Renamed
  <2>2. Live = {f \in Live : ~Renamed(f)}
    BY <2>1 DEF Live
  <2>3. Cardinality({f \in Live : ~Renamed(f)}) <= Cap
    BY <1>1 DEF IInv, Settled
  <2> QED
    BY <2>2, <2>3
<1>2. IInv => CapsHold
  BY <1>1 DEF CapsHold
<1> QED
  BY <1>2, Invariance, PTL
=============================================================================
