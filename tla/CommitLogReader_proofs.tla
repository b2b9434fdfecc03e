------------------------ MODULE CommitLogReader_proofs ------------------------
(***************************************************************************)
(* CommitLogReader for every history, page size and chunk size, checked by *)
(* TLAPS: its types, and that it implements the sequential scan LogPager   *)
(* whatever the order of chunks, aborts, exits and pages.                  *)
(*                                                                         *)
(* The pager speaks of what has been handed out; that follows from where   *)
(* the stream stands.  Lifecycle: what the child's state says of its exit  *)
(* and its output.  Verdict: what `errored' and `ended' say of the walk.   *)
(* Scan: delivered and buffered commits are the received ones, in order.   *)
(***************************************************************************)
EXTENDS CommitLogReader, SequenceTheorems, TLAPS

(* The child, its exit and its output.                                     *)
Lifecycle ==
  /\ ~started => git = "none" /\ errored = "no"
  /\ git = "exited" <=> exit # "none"
  /\ git \in {"none", "running"} => ~stdoutEnded
  /\ stdoutEnded => received = written
  /\ exit = "ok" => written = 2 * History
  /\ escalation = "armed" => aborted
  /\ call # "idle" => want \in Count

(* What is recorded of the walk.  Without an error the output has ended    *)
(* before any abort; a cancellation means that an abort came first; git's  *)
(* own error means that it failed or never ran.                            *)
Verdict ==
  /\ stdoutEndedBeforeAbort => stdoutEnded
  /\ stdoutEnded => stdoutEndedBeforeAbort \/ aborted
  /\ exit = "killed" => aborted /\ ~stdoutEndedBeforeAbort
  /\ aborted /\ git # "none" /\ ~stdoutEndedBeforeAbort => errored # "no"
  /\ errored = "no" /\ ended => stdoutEndedBeforeAbort
  /\ errored = "cancelled" => aborted /\ ~stdoutEndedBeforeAbort
  /\ errored = "git" => exit = "nonzero" \/ git \in {"none", "unspawned"}
  /\ git = "unspawned" => errored # "no"
  /\ outcome = "error" => errored # "no"

(* Commit k as it stands in the buffer when h half records have arrived.   *)
Received(k, h) == [sha |-> k, whole |-> 2 * k <= h]

(* The commit i places into the buffer, the last of which is the one the   *)
(* stream is in.                                                           *)
Slot(i) == RecordOf(received) - Len(buffered) + i

(* Only the end of the output lets go of the last record; then it may be   *)
(* dropped if it never became whole.                                       *)
Scan ==
  /\ \A i \in 1..Len(delivered) : delivered[i] = i
  /\ \A i \in 1..Len(buffered) :
       buffered[i] = Received(Slot(i), received)
  /\ \/ Len(delivered) + Len(buffered) = RecordOf(received)
     \/ /\ Len(delivered) + 1 = RecordOf(received)
        /\ Len(buffered) = 0 /\ received < 2 * RecordOf(received) /\ stdoutEnded
  /\ received > 0 /\ ~stdoutEnded => Len(buffered) > 0

IInv == TypeOK /\ Lifecycle /\ Verdict /\ Scan

Record == [sha : 1..History, whole : BOOLEAN]

-----------------------------------------------------------------------------
(* Half records and records.                                               *)
LEMMA RecordFacts ==
  ASSUME NEW h \in Nat
  PROVE  /\ RecordOf(h) \in Nat
         /\ h <= 2 * RecordOf(h) /\ 2 * RecordOf(h) <= h + 1
         /\ \A n \in Nat : h <= 2 * n => RecordOf(h) <= n
         /\ \A n \in Nat : n + n <= h => n <= RecordOf(h)
         /\ h > 0 => RecordOf(h) > 0
BY DEF RecordOf

(* What a page may be cut from.                                            *)
LEMMA CompleteFacts ==
  ASSUME buffered \in Seq(Record), ended \in BOOLEAN
  PROVE  /\ Complete \in Seq(Record)
         /\ Len(Complete) \in Nat /\ Len(buffered) \in Nat
         /\ \A i \in 1..Len(Complete) : Complete[i] = buffered[i]
         /\ Len(Complete) =
              IF ended \/ Len(buffered) = 0 THEN Len(buffered) ELSE Len(buffered) - 1
<1>1. CASE ended \/ buffered = <<>>
  BY <1>1 DEF Complete
<1>2. CASE ~ended /\ buffered # <<>>
  <2>1. Len(buffered) \in Nat \ {0}
    BY <1>2
  <2>2. Complete = SubSeq(buffered, 1, Len(buffered) - 1)
    BY <1>2 DEF Complete, Front
  <2> QED
    BY <1>2, <2>1, <2>2
<1> QED
  BY <1>1, <1>2

LEMMA ReceivedFacts ==
  ASSUME NEW k \in 1..History, NEW h \in Nat
  PROVE  /\ Received(k, h) \in Record
         /\ Received(k, h).sha = k
         /\ Received(k, h).whole <=> 2 * k <= h
         /\ \A g \in Nat : 2 * k <= h /\ h <= g => Received(k, g) = Received(k, h)
<1>0. History \in Nat /\ k \in Nat
  BY CommitLogReaderAssumption
<1>1. Received(k, h) \in Record
  BY DEF Received, Record
<1>2. Received(k, h).sha = k /\ (Received(k, h).whole <=> 2 * k <= h)
  BY DEF Received
<1>3. ASSUME NEW g \in Nat, 2 * k <= h, h <= g PROVE Received(k, g) = Received(k, h)
  <2>1. (2 * k <= g) = TRUE /\ (2 * k <= h) = TRUE
    BY <1>0, <1>3
  <2> QED
    BY Zenon, <2>1 DEF Received
<1> QED
  BY <1>1, <1>2, <1>3

(* A chunk continues the records of the buffer.                            *)
LEMMA ChunkFacts ==
  ASSUME TypeOK, Scan, ~stdoutEnded,
         NEW n \in Nat \ {0}, received + n <= 2 * History
  PROVE  LET b == Append2(buffered, received + 1, received + n)
             r == RecordOf(received + n)
         IN /\ b \in Seq(Record)
            /\ Len(b) = r - Len(delivered) /\ Len(b) > 0
            /\ \A i \in 1..Len(b) : b[i] = Received(r - Len(b) + i, received + n)
<1> DEFINE first == RecordOf(received + 1)
           last == RecordOf(received + n)
           kept == IF buffered # <<>> /\ Last(buffered).sha = first THEN Front(buffered) ELSE buffered
           more == [i \in 1..(last - first + 1) |-> Received(first + i - 1, received + n)]
           old == RecordOf(received)
           d == Len(delivered)
<1>1. Append2(buffered, received + 1, received + n) = kept \o more
  BY DEF Append2, Received
<1>2. /\ received \in Nat /\ buffered \in Seq(Record) /\ d \in Nat /\ History \in Nat
      /\ Len(buffered) \in Nat
  BY CommitLogReaderAssumption DEF TypeOK, Record
<1>3. /\ first \in Nat \ {0} /\ last \in Nat /\ first <= last /\ last <= History
      /\ first = IF 2 * old > received THEN old ELSE old + 1
      /\ received + 1 <= 2 * first /\ 2 * first <= received + 2
      /\ old \in Nat /\ (received = 0 => old = 0) /\ received <= 2 * old
  BY <1>2 DEF RecordOf
<1>4. /\ d + Len(buffered) = old
      /\ \A i \in 1..Len(buffered) : buffered[i] = Received(d + i, received)
  BY <1>2, <1>3 DEF Scan, Slot
<1> HIDE DEF first, last, old, d, more
<1>6. /\ kept \in Seq(Record) /\ Len(kept) = first - 1 - d
      /\ Len(kept) \in Nat
      /\ \A i \in 1..Len(kept) : kept[i] = buffered[i] /\ i <= Len(buffered)
  <2>1. CASE buffered = <<>>
    BY <2>1, <1>2, <1>3, <1>4 DEF Scan
  <2>2. CASE buffered # <<>>
    <3>0. Len(buffered) \in 1..Len(buffered) /\ Len(buffered) \in Nat \ {0} /\ old \in 1..History
      BY <2>2, <1>2, <1>3, <1>4
    <3>1. Last(buffered).sha = old
      <4>1. Last(buffered) = Received(old, received)
        BY <3>0, <1>4 DEF Last
      <4> QED
        BY <4>1, <3>0, <1>2, ReceivedFacts
    <3>2. CASE Last(buffered).sha = first
      <4>1. kept = SubSeq(buffered, 1, Len(buffered) - 1)
        BY <2>2, <3>2 DEF Front
      <4> HIDE DEF kept
      <4>2. Len(buffered) - 1 = first - 1 - d
        BY <3>1, <3>2, <1>2, <1>3, <1>4
      <4> QED
        BY <4>1, <4>2, <3>0, <1>2
    <3>3. CASE Last(buffered).sha # first
      <4>1. kept = buffered
        BY <3>3
      <4> HIDE DEF kept
      <4>2. Len(buffered) = first - 1 - d
        BY <3>1, <3>3, <1>2, <1>3, <1>4
      <4> QED
        BY <4>1, <4>2, <1>2
    <3> QED
      BY <3>2, <3>3
  <2> QED
    BY <2>1, <2>2
<1> HIDE DEF kept
<1>7. /\ more \in Seq(Record) /\ Len(more) = last - first + 1
      /\ \A i \in 1..(last - first + 1) : more[i] = Received(first + i - 1, received + n)
  <2>1. last - first + 1 \in Nat
    BY <1>3
  <2>2. ASSUME NEW i \in 1..(last - first + 1)
        PROVE  Received(first + i - 1, received + n) \in Record
    <3>1. first + i - 1 \in 1..History /\ received + n \in Nat
      BY <1>2, <1>3
    <3> QED
      BY <3>1, ReceivedFacts
  <2> QED
    BY <2>1, <2>2 DEF more
<1>8. /\ kept \o more \in Seq(Record) /\ Len(kept \o more) = Len(kept) + Len(more)
      /\ \A i \in 1..(Len(kept) + Len(more)) :
           (kept \o more)[i] = IF i <= Len(kept) THEN kept[i] ELSE more[i - Len(kept)]
  <2> HIDE DEF kept, more
  <2> QED
    BY ZenonT(60), <1>6, <1>7, ConcatProperties
<1>9. Len(kept \o more) = last - d /\ Len(kept \o more) > 0
  BY <1>2, <1>3, <1>6, <1>7, <1>8
<1>10. ASSUME NEW i \in 1..Len(kept \o more)
       PROVE  (kept \o more)[i] = Received(d + i, received + n)
  <2>0. i \in Nat \ {0} /\ i <= Len(kept) + Len(more)
    BY <1>6, <1>7, <1>8
  <2>1. CASE i <= Len(kept)
    <3>1. (kept \o more)[i] = buffered[i] /\ i \in 1..Len(buffered)
      BY <2>1, <2>0, <1>2, <1>6, <1>8
    <3>2. buffered[i] = Received(d + i, received)
      BY <3>1, <1>4
    <3>3. 2 * (d + i) <= received /\ d + i \in 1..History /\ received + n \in Nat /\ received <= received + n
      BY <2>1, <2>0, <1>2, <1>3, <1>6
    <3> QED
      BY <3>1, <3>2, <3>3, <1>2, ReceivedFacts
  <2>2. CASE i > Len(kept)
    <3>0. i \in 1..(Len(kept) + Len(more)) /\ ~(i <= Len(kept))
      BY <2>2, <2>0, <1>6, <1>8
    <3>1. (kept \o more)[i] = more[i - Len(kept)]
      BY Zenon, <3>0, <1>8
    <3>3. i - Len(kept) \in 1..(last - first + 1)
      BY SMTT(30), <3>0, <1>3, <1>6, <1>7
    <3>2. first + (i - Len(kept)) - 1 = d + i
      BY <2>0, <1>2, <1>3, <1>6
    <3> QED
      BY <3>1, <3>2, <3>3, <1>7
  <2> QED
    BY <2>1, <2>2, <2>0, <1>6
<1>11. \A i \in 1..Len(kept \o more) : last - Len(kept \o more) + i = d + i
  BY <1>2, <1>3, <1>9
<1> QED
  BY <1>1, <1>8, <1>9, <1>10, <1>11 DEF d, last
(* A page is the next commits of the walk, cut from the buffer.            *)
LEMMA PageFacts ==
  ASSUME TypeOK, Lifecycle, Verdict, Scan, ServePage
  PROVE  /\ want \in Count
         /\ buffered' \in Seq(Record)
         /\ \E n \in 0..want :
              /\ Len(delivered) + n <= History
              /\ delivered' = [i \in 1..(Len(delivered) + n) |-> i]
              /\ \/ outcome' = "more" /\ n > 0
                 \/ /\ outcome' = "done" /\ stdoutEndedBeforeAbort
                    /\ exit = "ok" => Len(delivered) + n = History
         /\ Scan'
<1> DEFINE take == IF want < Len(Complete) THEN want ELSE Len(Complete)
           consumed == SubSeq(Complete, 1, take)
           cut == take > 0 /\ ~consumed[take].whole
           d == Len(delivered)
           b == Len(buffered)
           r == RecordOf(received)
<1>1. /\ received \in Nat /\ received <= 2 * History /\ buffered \in Seq(Record) /\ d \in Nat /\ b \in Nat
      /\ ended \in BOOLEAN /\ History \in Nat /\ want \in Count /\ want \in Nat \ {0}
      /\ errored = "no" /\ delivered \in Seq(1..History)
  BY CommitLogReaderAssumption DEF TypeOK, Record, ServePage, Lifecycle
<1>2. /\ r \in Nat /\ received <= 2 * r /\ 2 * r <= received + 1 /\ r <= History
      /\ (received > 0 => r > 0)
  BY <1>1 DEF RecordOf
<1>3. /\ \A i \in 1..d : delivered[i] = i
      /\ \A i \in 1..b : buffered[i] = Received(r - b + i, received)
      /\ \/ d + b = r
         \/ d + 1 = r /\ b = 0 /\ received < 2 * r /\ stdoutEnded
      /\ received > 0 /\ ~stdoutEnded => b > 0
  BY DEF Scan, Slot
<1>4. /\ Complete \in Seq(Record) /\ Len(Complete) \in Nat
      /\ \A i \in 1..Len(Complete) : Complete[i] = buffered[i]
      /\ Len(Complete) = IF ended \/ b = 0 THEN b ELSE b - 1
  BY <1>1, CompleteFacts
<1>5. /\ take \in Nat /\ take <= want /\ take <= Len(Complete) /\ take <= b
      /\ take < want => take = Len(Complete)
  BY <1>1, <1>4
<1>6. /\ consumed \in Seq(Record) /\ Len(consumed) = take
      /\ \A i \in 1..take : consumed[i] = buffered[i]
  <2> HIDE DEF take
  <2> QED
    BY <1>4, <1>5
<1> HIDE DEF take, d, b, r, consumed
<1>7. /\ Len(Complete) >= want \/ ended
      /\ buffered' = SubSeq(buffered, take + 1, b)
      /\ outcome' = IF ended /\ take = Len(Complete) THEN "done" ELSE "more"
      /\ \E parsed \in {take} \cup (IF cut THEN {take - 1} ELSE {}) :
           delivered' = delivered \o [i \in 1..parsed |-> consumed[i].sha]
      /\ UNCHANGED <<ended, received, stdoutEnded>>
  BY DEF ServePage, Satisfied, Remainder, take, b, consumed, process
<1>8. ASSUME NEW i \in 1..take
      PROVE  d + b = r /\ d + i \in 1..History /\ consumed[i] = Received(d + i, received)
             /\ consumed[i].sha = d + i /\ (consumed[i].whole <=> 2 * (d + i) <= received)
  <2>1. d + b = r /\ i \in 1..b
    BY <1>1, <1>2, <1>3, <1>5
  <2>2. r - b + i = d + i /\ d + i \in 1..History
    BY <2>1, <1>1, <1>2
  <2>3. consumed[i] = Received(d + i, received)
    BY <2>1, <2>2, <1>3, <1>6
  <2> QED
    BY SMTT(30), <2>1, <2>2, <2>3, <1>1, ReceivedFacts
<1>9. PICK n \in {take} \cup (IF cut THEN {take - 1} ELSE {}) :
        delivered' = delivered \o [i \in 1..n |-> consumed[i].sha]
  BY <1>7
<1>10. /\ n \in Nat /\ n <= take
       /\ n # take => /\ n = take - 1 /\ take = b /\ ended /\ d + b = r /\ received < 2 * r
  <2>1. CASE n = take
    BY <2>1, <1>5
  <2>2. CASE n # take
    <3>1. cut /\ n = take - 1
      BY <2>2
    <3>2. take \in 1..take /\ take \in Nat \ {0}
      BY <3>1, <1>5
    <3>3. d + b = r /\ received < 2 * (d + take)
      BY <3>1, <3>2, <1>1, <1>2, <1>3, <1>5, <1>8
    <3>4. take = b
      BY <3>2, <3>3, <1>1, <1>2, <1>5
    <3>5. ended
      BY <3>2, <3>4, <1>1, <1>4, <1>5
    <3> QED
      BY <3>1, <3>2, <3>3, <3>4, <3>5
  <2> QED
    BY <2>1, <2>2
<1>11. Len(delivered) + n <= History /\ n \in 0..want
  <2>1. CASE n = 0
    BY <2>1, <1>1, <1>2, <1>3 DEF d
  <2>2. CASE n # 0
    <3>1. n \in 1..take
      BY <2>2, <1>5, <1>10
    <3> QED
      BY <3>1, <1>1, <1>5, <1>8, <1>10 DEF d
  <2> QED
    BY <2>1, <2>2
<1>12. delivered' = [i \in 1..(Len(delivered) + n) |-> i]
  <2> DEFINE page == [i \in 1..n |-> consumed[i].sha]
             whole == [i \in 1..(d + n) |-> i]
  <2>1. \A i \in 1..n : consumed[i].sha = d + i /\ consumed[i].sha \in 1..History
    BY <1>5, <1>8, <1>10
  <2>2. page \in Seq(1..History) /\ Len(page) = n /\ \A i \in 1..n : page[i] = d + i
    BY <2>1, <1>10
  <2>3. whole \in Seq(1..History) /\ Len(whole) = d + n /\ \A i \in 1..(d + n) : whole[i] = i
    <3>1. d + n \in Nat /\ d + n <= History
      BY <1>1, <1>10, <1>11 DEF d
    <3> DEFINE m == d + n
    <3>2. \A i \in 1..m : i \in 1..History
      BY <3>1, <1>1
    <3>3. whole = [i \in 1..m |-> i] /\ m \in Nat
      BY <3>1
    <3> HIDE DEF m, whole
    <3>4. whole \in Seq(1..History) /\ Len(whole) = m /\ \A i \in 1..m : whole[i] = i
      BY <3>2, <3>3
    <3> QED
      BY <3>4 DEF m
  <2> HIDE DEF page, whole
  <2>4. /\ delivered \o page \in Seq(1..History) /\ Len(delivered \o page) = d + n
        /\ \A i \in 1..(d + n) : (delivered \o page)[i] = IF i <= d THEN delivered[i] ELSE page[i - d]
    BY Zenon, <1>1, <2>2, ConcatProperties DEF d
  <2>5. ASSUME NEW i \in 1..(d + n) PROVE (delivered \o page)[i] = whole[i]
    <3>1. CASE i <= d
      <4>1. (delivered \o page)[i] = delivered[i] /\ i \in 1..d
        BY <3>1, <2>4, <1>1
      <4> QED
        BY <4>1, <2>3, <1>3
    <3>2. CASE ~(i <= d)
      <4>1. (delivered \o page)[i] = page[i - d] /\ i - d \in 1..n
        BY SMTT(30), <3>2, <2>4, <1>1, <1>10
      <4> QED
        BY <4>1, <2>2, <2>3, <1>1, <1>10
    <3> QED
      BY <3>1, <3>2
  <2>6. delivered \o page = whole
    BY <2>3, <2>4, <2>5, SeqEqual
  <2> QED
    BY <1>9, <2>6 DEF page, whole, d
<1>13. \/ outcome' = "more" /\ n > 0
       \/ /\ outcome' = "done" /\ stdoutEndedBeforeAbort
          /\ exit = "ok" => Len(delivered) + n = History
  <2>1. CASE ended /\ take = Len(Complete)
    <3>1. stdoutEndedBeforeAbort /\ stdoutEnded /\ received = written
      BY <2>1, <1>1 DEF Verdict, Lifecycle
    <3>2. ASSUME exit = "ok" PROVE d + n = History
      <4>1. received = 2 * History
        BY <3>1, <3>2 DEF Lifecycle
      <4>2. r = History /\ ~(received < 2 * r)
        BY <4>1, <1>1, <1>2
      <4> QED
        BY <4>2, <2>1, <1>1, <1>3, <1>4, <1>5, <1>10
    <3> QED
      BY <2>1, <3>1, <3>2, <1>7 DEF d
  <2>2. CASE ~(ended /\ take = Len(Complete))
    <3>1. take = want
      BY <2>2, <1>1, <1>4, <1>5, <1>7
    <3>2. n = take
      BY <2>2, <3>1, <1>1, <1>4, <1>5, <1>10
    <3> QED
      BY <2>2, <3>1, <3>2, <1>1, <1>7
  <2> QED
    BY <2>1, <2>2
<1>14. /\ buffered' \in Seq(Record) /\ Len(buffered') = b - take
       /\ \A i \in 1..(b - take) : buffered'[i] = buffered[take + i]
  BY <1>1, <1>5, <1>7 DEF b
<1>15. Scan'
  <2>1. Len(delivered') = d + n /\ \A i \in 1..(d + n) : delivered'[i] = i
    BY <1>1, <1>10, <1>12 DEF d
  <2>2. ASSUME NEW i \in 1..(b - take)
        PROVE  buffered'[i] = Received(r - (b - take) + i, received)
    <3>1. take + i \in 1..b /\ r - b + (take + i) = r - (b - take) + i
      BY <1>1, <1>2, <1>5
    <3> QED
      BY <3>1, <1>3, <1>14
  <2>3. \/ (d + n) + (b - take) = r
        \/ (d + n) + 1 = r /\ b - take = 0 /\ received < 2 * r /\ stdoutEnded
    <3>1. ended => stdoutEnded
      BY <1>1 DEF Verdict
    <3> QED
      BY <3>1, <1>1, <1>2, <1>3, <1>5, <1>10
  <2>4. received > 0 /\ ~stdoutEnded => b - take > 0
    <3>1. ended => stdoutEnded
      BY <1>1 DEF Verdict
    <3> QED
      BY <3>1, <1>1, <1>3, <1>4, <1>5
  <2>5. RecordOf(received)' = r /\ \A i \in 1..(b - take) : Slot(i)' = r - (b - take) + i
    BY <1>7, <1>14 DEF r, Slot, RecordOf
  <2>6. \A i \in 1..Len(buffered') : buffered'[i] = Received(Slot(i), received)'
    BY <2>2, <2>5, <1>7, <1>14 DEF Received
  <2> QED
    BY <2>1, <2>3, <2>4, <2>5, <2>6, <1>7, <1>14 DEF Scan
<1> QED
  BY <1>1, <1>11, <1>12, <1>13, <1>14, <1>15
-----------------------------------------------------------------------------
(* The initial state.                                                      *)
LEMMA InitIInv == Init => IInv
<1> SUFFICES ASSUME Init PROVE IInv
  OBVIOUS
<1>1. TypeOK
  <2>1. History \in Nat /\ 0 \in 0..(2 * History) /\ 0 \in 0..0
    BY CommitLogReaderAssumption
  <2>2. written \in 0..(2 * History) /\ received \in 0..written /\ want \in Count \cup {0}
    BY <2>1 DEF Init
  <2>3. buffered \in Seq([sha : 1..History, whole : BOOLEAN]) /\ delivered \in Seq(1..History)
    BY DEF Init
  <2> QED
    BY <2>2, <2>3 DEF Init, TypeOK
<1>2. Lifecycle /\ Verdict
  BY DEF Init, Lifecycle, Verdict
<1>3. Scan
  BY DEF Init, Scan, RecordOf
<1> QED
  BY <1>1, <1>2, <1>3 DEF IInv

(* The child, its exit and its output.                                     *)
LEMMA LifecycleKept ==
  ASSUME TypeOK, Lifecycle, [Next]_vars
  PROVE  Lifecycle'
<1> USE DEF Lifecycle, TypeOK, reader, process, caller
<1>0. CASE UNCHANGED vars
  BY <1>0 DEF vars
<1>1. CASE \E count \in Count : ReadPage(count)
  BY <1>1 DEF ReadPage
<1>2. CASE \E count \in Count : FirstReadPage(count)
  BY <1>2 DEF FirstReadPage
<1>3. CASE \E count \in Count : FirstReadPageThrows(count)
  BY <1>3 DEF FirstReadPageThrows
<1>4. CASE Suspend
  BY <1>4 DEF Suspend
<1>5. CASE ServePage
  BY <1>5 DEF ServePage
<1>6. CASE ReadPageThrows
  BY <1>6 DEF ReadPageThrows
<1>7. CASE GitWrites
  BY <1>7 DEF GitWrites
<1>8. CASE GitFinishes
  BY <1>8 DEF GitFinishes
<1>9. CASE GitFails
  BY <1>9 DEF GitFails
<1>10. CASE GitTerminated
  BY <1>10 DEF GitTerminated
<1>11. CASE EscalationFires
  BY <1>11 DEF EscalationFires
<1>12. CASE OnData
  <2>1. stdoutEnded = FALSE
    BY <1>12, CommitLogReaderAssumption DEF OnData
  <2> QED
    BY <1>12, <2>1 DEF OnData, Wake
<1>13. CASE OnEnd
  BY <1>13 DEF OnEnd, Wake, EndedBeforeAbort
<1>14. CASE OnExit
  BY <1>14 DEF OnExit
<1>15. CASE OnSpawnError
  BY <1>15 DEF OnSpawnError, EscalationOnClear
<1>16. CASE OnClose
  BY <1>16 DEF OnClose, EscalationOnClear
<1>17. CASE Abort
  BY <1>17 DEF Abort, EscalationOnAbort, MarkCancelled, ErroredOnAbort
<1>18. CASE AbortTreeKill
  BY <1>18 DEF AbortTreeKill, EscalationOnAbort, MarkCancelled
<1> QED
  BY <1>0, <1>1, <1>2, <1>3, <1>4, <1>5, <1>6, <1>7, <1>8, <1>9, <1>10, <1>11, <1>12, <1>13, <1>14, <1>15, <1>16, <1>17, <1>18 DEF Next, Event

(* What is recorded of the walk.                                           *)
LEMMA VerdictKept ==
  ASSUME TypeOK, Lifecycle, Verdict, [Next]_vars
  PROVE  Verdict'
<1> USE DEF Lifecycle, Verdict, TypeOK, reader, process, caller
<1>0. CASE UNCHANGED vars
  BY <1>0 DEF vars
<1>1. CASE \E count \in Count : ReadPage(count)
  BY <1>1 DEF ReadPage
<1>2. CASE \E count \in Count : FirstReadPage(count)
  BY <1>2 DEF FirstReadPage
<1>3. CASE \E count \in Count : FirstReadPageThrows(count)
  BY <1>3 DEF FirstReadPageThrows
<1>4. CASE Suspend
  BY <1>4 DEF Suspend
<1>5. CASE ServePage
  BY <1>5 DEF ServePage
<1>6. CASE ReadPageThrows
  BY <1>6 DEF ReadPageThrows
<1>7. CASE GitWrites
  BY <1>7 DEF GitWrites
<1>8. CASE GitFinishes
  BY <1>8 DEF GitFinishes
<1>9. CASE GitFails
  BY <1>9 DEF GitFails
<1>10. CASE GitTerminated
  BY <1>10 DEF GitTerminated
<1>11. CASE EscalationFires
  BY <1>11 DEF EscalationFires
<1>12. CASE OnData
  BY <1>12 DEF OnData, Wake
<1>13. CASE OnEnd
  <2>1. UNCHANGED <<git, exit, errored, aborted, outcome>> /\ ended' /\ stdoutEnded'
    BY <1>13 DEF OnEnd
  <2>2. /\ git \in {"exited", "unspawned"} /\ ~stdoutEnded
        /\ stdoutEndedBeforeAbort' = (stdoutEndedBeforeAbort \/ ~aborted)
    BY <1>13 DEF OnEnd, EndedBeforeAbort
  <2>3. stdoutEndedBeforeAbort = FALSE
    BY <2>2
  <2>4. CASE aborted
    <3>1. stdoutEndedBeforeAbort' = FALSE
      BY <2>2, <2>3, <2>4
    <3> QED
      BY <2>1, <2>2, <2>3, <2>4, <3>1
  <2>5. CASE ~aborted
    <3>1. stdoutEndedBeforeAbort' = TRUE
      BY <2>2, <2>5
    <3> QED
      BY <2>1, <2>2, <2>3, <2>5, <3>1
  <2> QED
    BY <2>4, <2>5
<1>14. CASE OnExit
  BY <1>14 DEF OnExit
<1>15. CASE OnSpawnError
  BY <1>15 DEF OnSpawnError, EscalationOnClear
<1>16. CASE OnClose
  <2>1. /\ UNCHANGED <<git, exit, aborted, stdoutEnded, stdoutEndedBeforeAbort, outcome>>
        /\ stdoutEnded /\ git # "none"
    BY <1>16 DEF OnClose
  <2>2. CASE errored # "no" \/ (aborted /\ stdoutEndedBeforeAbort)
    <3>1. errored' = errored
      BY <1>16, <2>2 DEF OnClose
    <3> QED
      BY <2>1, <2>2, <3>1
  <2>3. CASE errored = "no" /\ aborted /\ ~stdoutEndedBeforeAbort
    BY <2>1, <2>3
  <2>4. CASE errored = "no" /\ ~aborted
    <3>1. errored' = IF exit = "nonzero" THEN "git" ELSE errored
      BY <1>16, <2>4 DEF OnClose
    <3> QED
      BY <2>1, <2>4, <3>1
  <2> QED
    BY <2>2, <2>3, <2>4
<1>17. CASE Abort
  BY <1>17 DEF Abort, EscalationOnAbort, MarkCancelled, ErroredOnAbort
<1>18. CASE AbortTreeKill
  BY <1>18 DEF AbortTreeKill, EscalationOnAbort, MarkCancelled
<1> QED
  BY <1>0, <1>1, <1>2, <1>3, <1>4, <1>5, <1>6, <1>7, <1>8, <1>9, <1>10, <1>11, <1>12, <1>13, <1>14, <1>15, <1>16, <1>17, <1>18 DEF Next, Event

(* Delivered and buffered commits, in the order of the walk.               *)
LEMMA ScanKept ==
  ASSUME TypeOK, Lifecycle, Verdict, Scan, [Next]_vars
  PROVE  Scan'
<1>a. ASSUME UNCHANGED <<buffered, delivered, received>>, stdoutEnded => stdoutEnded' PROVE Scan'
  BY <1>a DEF Scan, Slot, Received
<1> USE DEF reader, process, caller
<1>0. CASE UNCHANGED vars
  BY Zenon, <1>0, <1>a DEF vars
<1>1. CASE \E count \in Count : ReadPage(count)
  <2>1. UNCHANGED <<buffered, delivered, received, stdoutEnded>>
    BY <1>1 DEF ReadPage
  <2> QED
    BY <2>1, <1>a
<1>2. CASE \E count \in Count : FirstReadPage(count)
  <2>1. UNCHANGED <<buffered, delivered, received, stdoutEnded>>
    BY <1>2 DEF FirstReadPage
  <2> QED
    BY <2>1, <1>a
<1>3. CASE \E count \in Count : FirstReadPageThrows(count)
  <2>1. UNCHANGED <<buffered, delivered, received, stdoutEnded>>
    BY <1>3 DEF FirstReadPageThrows
  <2> QED
    BY <2>1, <1>a
<1>4. CASE Suspend
  BY Zenon, <1>4, <1>a DEF Suspend, reader, process, caller
<1>5. CASE ServePage
  BY Zenon, <1>5, PageFacts
<1>6. CASE ReadPageThrows
  BY Zenon, <1>6, <1>a DEF ReadPageThrows, reader, process, caller
<1>7. CASE GitWrites
  BY Zenon, <1>7, <1>a DEF GitWrites, reader, process, caller
<1>8. CASE GitFinishes
  BY Zenon, <1>8, <1>a DEF GitFinishes, reader, process, caller
<1>9. CASE GitFails
  BY Zenon, <1>9, <1>a DEF GitFails, reader, process, caller
<1>10. CASE GitTerminated
  BY Zenon, <1>10, <1>a DEF GitTerminated, reader, process, caller
<1>11. CASE EscalationFires
  BY Zenon, <1>11, <1>a DEF EscalationFires, reader, process, caller
<1>12. CASE OnData
  <2>1. PICK n \in 1..MaxChunk :
          /\ received + n <= written
          /\ received' = received + n
          /\ buffered' = Append2(buffered, received + 1, received + n)
    BY Zenon, <1>12 DEF OnData
  <2>2. ~stdoutEnded /\ UNCHANGED <<stdoutEnded, delivered>>
    BY <1>12 DEF OnData, Lifecycle, TypeOK
  <2>3. n \in Nat \ {0} /\ received + n <= 2 * History
    BY <2>1, CommitLogReaderAssumption DEF TypeOK
  <2> DEFINE r == RecordOf(received + n)
  <2>4. /\ Len(buffered') = r - Len(delivered) /\ Len(buffered') > 0
        /\ \A i \in 1..Len(buffered') : buffered'[i] = Received(r - Len(buffered') + i, received + n)
    BY <2>1, <2>2, <2>3, ChunkFacts
  <2>5. RecordOf(received)' = r /\ \A i : Slot(i)' = r - Len(buffered') + i
    BY <2>1 DEF Slot, RecordOf
  <2>6. \A i \in 1..Len(buffered') : buffered'[i] = Received(Slot(i), received)'
    BY <2>1, <2>4, <2>5 DEF Received
  <2>7. r \in Nat /\ Len(delivered) \in Nat
    BY <2>3, CommitLogReaderAssumption DEF RecordOf, TypeOK
  <2> HIDE DEF r
  <2>8. Len(delivered') + Len(buffered') = r
    BY <2>2, <2>4, <2>7
  <2> QED
    BY <2>2, <2>4, <2>5, <2>6, <2>8 DEF Scan
<1>13. CASE OnEnd
  BY Zenon, <1>13, <1>a DEF OnEnd
<1>14. CASE OnExit
  BY Zenon, <1>14, <1>a DEF OnExit, reader, process, caller
<1>15. CASE OnSpawnError
  BY Zenon, <1>15, <1>a DEF OnSpawnError, reader, process, caller
<1>16. CASE OnClose
  BY Zenon, <1>16, <1>a DEF OnClose, reader, process, caller
<1>17. CASE Abort
  BY Zenon, <1>17, <1>a DEF Abort, reader, process, caller
<1>18. CASE AbortTreeKill
  BY Zenon, <1>18, <1>a DEF AbortTreeKill, reader, process, caller
<1> QED
  BY <1>0, <1>1, <1>2, <1>3, <1>4, <1>5, <1>6, <1>7, <1>8, <1>9, <1>10, <1>11, <1>12, <1>13, <1>14, <1>15, <1>16, <1>17, <1>18 DEF Next, Event
-----------------------------------------------------------------------------
(* Types.                                                                  *)
LEMMA TypeKept ==
  ASSUME TypeOK, Lifecycle, Verdict, Scan, [Next]_vars
  PROVE  TypeOK'
<1> USE DEF TypeOK, reader, process, caller
<1>0. CASE UNCHANGED vars
  BY <1>0 DEF vars
<1>1. CASE \E count \in Count : ReadPage(count)
  BY <1>1 DEF ReadPage
<1>2. CASE \E count \in Count : FirstReadPage(count)
  BY <1>2 DEF FirstReadPage
<1>3. CASE \E count \in Count : FirstReadPageThrows(count)
  BY <1>3 DEF FirstReadPageThrows
<1>4. CASE Suspend
  BY <1>4 DEF Suspend
<1>5. CASE ServePage
  <2>1. buffered' \in Seq([sha : 1..History, whole : BOOLEAN])
    BY <1>5, PageFacts DEF Record
  <2>2. PICK n \in 0..want :
          /\ Len(delivered) + n <= History
          /\ delivered' = [i \in 1..(Len(delivered) + n) |-> i]
          /\ outcome' \in {"more", "done"}
    BY <1>5, PageFacts
  <2>3. delivered' \in Seq(1..History)
    <3> DEFINE m == Len(delivered) + n
    <3>1. m \in Nat /\ \A i \in 1..m : i \in 1..History
      BY <2>2, <1>5, CommitLogReaderAssumption DEF ServePage, Lifecycle
    <3> HIDE DEF m
    <3> QED
      BY <2>2, <3>1 DEF m
  <2>4. /\ UNCHANGED <<started, ended, errored, aborted, processExited, stdoutEndedBeforeAbort,
                       escalation, process>>
        /\ call' = "idle" /\ want' = 0
    BY <1>5 DEF ServePage
  <2> QED
    BY <2>1, <2>2, <2>3, <2>4
<1>6. CASE ReadPageThrows
  BY <1>6 DEF ReadPageThrows
<1>7. CASE GitWrites
  <2>1. written' \in 0..(2 * History) /\ received' \in 0..written'
    BY <1>7, CommitLogReaderAssumption DEF GitWrites
  <2> QED
    BY <1>7, <2>1 DEF GitWrites
<1>8. CASE GitFinishes
  BY <1>8 DEF GitFinishes
<1>9. CASE GitFails
  BY <1>9 DEF GitFails
<1>10. CASE GitTerminated
  BY <1>10 DEF GitTerminated
<1>11. CASE EscalationFires
  BY <1>11 DEF EscalationFires
<1>12. CASE OnData
  <2>1. PICK n \in 1..MaxChunk :
          /\ received + n <= written
          /\ received' = received + n
          /\ buffered' = Append2(buffered, received + 1, received + n)
    BY Zenon, <1>12 DEF OnData
  <2>2. ~stdoutEnded
    BY <1>12 DEF OnData, Lifecycle
  <2>3. n \in Nat \ {0} /\ received + n <= 2 * History /\ written' = written
    BY <1>12, <2>1, CommitLogReaderAssumption DEF OnData
  <2>4. buffered' \in Seq([sha : 1..History, whole : BOOLEAN])
    BY <2>1, <2>2, <2>3, ChunkFacts DEF Record
  <2>5. received' \in 0..written'
    BY <2>1, <2>3
  <2> QED
    BY <1>12, <2>4, <2>5 DEF OnData, Wake
<1>13. CASE OnEnd
  BY <1>13 DEF OnEnd, Wake, EndedBeforeAbort
<1>14. CASE OnExit
  BY <1>14 DEF OnExit
<1>15. CASE OnSpawnError
  BY <1>15 DEF OnSpawnError, EscalationOnClear
<1>16. CASE OnClose
  BY <1>16 DEF OnClose, EscalationOnClear
<1>17. CASE Abort
  <2>1. /\ UNCHANGED <<started, buffered, processExited, stdoutEndedBeforeAbort, process, caller>>
        /\ aborted' = TRUE /\ escalation' \in {escalation, "armed"}
    BY <1>17 DEF Abort, EscalationOnAbort
  <2>2. errored' \in {"no", "git", "cancelled"} /\ ended' \in BOOLEAN
    <3>1. CASE git = "none"
      BY <1>17, <3>1 DEF Abort
    <3>2. CASE git # "none" /\ (processExited \/ git = "unspawned")
      BY <1>17, <3>2 DEF Abort, MarkCancelled
    <3>3. CASE git # "none" /\ ~(processExited \/ git = "unspawned")
      BY <1>17, <3>3 DEF Abort, ErroredOnAbort
    <3> QED
      BY <3>1, <3>2, <3>3
  <2> QED
    BY <2>1, <2>2
<1>18. CASE AbortTreeKill
  BY <1>18 DEF AbortTreeKill, EscalationOnAbort, MarkCancelled
<1> QED
  BY <1>0, <1>1, <1>2, <1>3, <1>4, <1>5, <1>6, <1>7, <1>8, <1>9, <1>10, <1>11, <1>12, <1>13, <1>14, <1>15, <1>16, <1>17, <1>18 DEF Next, Event

LEMMA InductiveInvariant == IInv /\ [Next]_vars => IInv'
BY TypeKept, LifecycleKept, VerdictKept, ScanKept DEF IInv

LEMMA Invariance == Spec => []IInv
<1>1. Init => IInv
  BY InitIInv
<1>2. IInv /\ [Next]_vars => IInv'
  BY InductiveInvariant
<1> QED
  BY <1>1, <1>2, PTL DEF Spec

-----------------------------------------------------------------------------
(* Every variable keeps its type: what is handed out and what waits in the *)
(* buffer are commits of the history, and no more is received than git has *)
(* written, whatever the chunks.                                           *)
THEOREM TypeCorrect == Spec => []TypeOK
<1>1. IInv => TypeOK
  BY DEF IInv
<1> QED
  BY <1>1, Invariance, PTL

-----------------------------------------------------------------------------
(* How a step changes the state of the walk.                               *)
LEMMA SourceSteps ==
  ASSUME IInv, [Next]_vars
  PROVE  \/ Source' = Source
         \/ /\ Source = "walking" /\ Source' \in {"complete", "failed", "cancelled"}
            /\ UNCHANGED <<delivered, outcome>>
<1> USE DEF IInv, reader, process, caller
<1>1. /\ exit' # exit => (exit = "none" /\ UNCHANGED <<delivered, outcome>> /\ ~stdoutEnded')
      /\ UNCHANGED <<stdoutEnded, stdoutEndedBeforeAbort>> \/ OnEnd
  <2> USE DEF Lifecycle
  <2>0. CASE UNCHANGED vars
    BY <2>0 DEF vars
  <2>1. CASE \E count \in Count : ReadPage(count)
    BY <2>1 DEF ReadPage
  <2>2. CASE \E count \in Count : FirstReadPage(count)
    BY <2>2 DEF FirstReadPage
  <2>3. CASE \E count \in Count : FirstReadPageThrows(count)
    BY <2>3 DEF FirstReadPageThrows
  <2>4. CASE Suspend
    BY <2>4 DEF Suspend
  <2>5. CASE ServePage
    BY <2>5 DEF ServePage
  <2>6. CASE ReadPageThrows
    BY <2>6 DEF ReadPageThrows
  <2>7. CASE GitWrites
    BY <2>7 DEF GitWrites
  <2>8. CASE GitFinishes
    BY <2>8 DEF GitFinishes
  <2>9. CASE GitFails
    BY <2>9 DEF GitFails
  <2>10. CASE GitTerminated
    BY <2>10 DEF GitTerminated
  <2>11. CASE EscalationFires
    BY <2>11 DEF EscalationFires
  <2>12. CASE OnData
    BY <2>12 DEF OnData
  <2>13. CASE OnEnd
    BY <2>13 DEF OnEnd
  <2>14. CASE OnExit
    BY <2>14 DEF OnExit
  <2>15. CASE OnSpawnError
    BY <2>15 DEF OnSpawnError
  <2>16. CASE OnClose
    BY <2>16 DEF OnClose
  <2>17. CASE Abort
    BY <2>17 DEF Abort
  <2>18. CASE AbortTreeKill
    BY <2>18 DEF AbortTreeKill
  <2> QED
    BY <2>0, <2>1, <2>2, <2>3, <2>4, <2>5, <2>6, <2>7, <2>8, <2>9, <2>10, <2>11, <2>12, <2>13, <2>14, <2>15, <2>16, <2>17, <2>18 DEF Next, Event
<1>2. CASE OnEnd
  <2>1. UNCHANGED <<exit, delivered, outcome>> /\ ~stdoutEnded
    BY <1>2 DEF OnEnd
  <2> QED
    BY <2>1 DEF Source, TypeOK
<1>3. CASE UNCHANGED <<stdoutEnded, stdoutEndedBeforeAbort>>
  <2>1. CASE exit' = exit
    BY <1>3, <2>1 DEF Source
  <2>2. CASE exit' # exit
    BY <1>1, <1>3, <2>2 DEF Source
  <2> QED
    BY <2>1, <2>2
<1> QED
  BY <1>1, <1>2, <1>3

(* Only a page that is served or thrown touches what the callers have.     *)
LEMMA QuietSteps ==
  ASSUME [Next]_vars
  PROVE  ServePage \/ ReadPageThrows \/ UNCHANGED <<delivered, outcome>>
<1> USE DEF reader, process, caller
<1>0. CASE UNCHANGED vars
  BY <1>0 DEF vars
<1>1. CASE \E count \in Count : ReadPage(count)
  BY <1>1 DEF ReadPage
<1>2. CASE \E count \in Count : FirstReadPage(count)
  BY <1>2 DEF FirstReadPage
<1>3. CASE \E count \in Count : FirstReadPageThrows(count)
  BY <1>3 DEF FirstReadPageThrows
<1>4. CASE Suspend
  BY <1>4 DEF Suspend
<1>5. CASE ServePage
  BY <1>5
<1>6. CASE ReadPageThrows
  BY <1>6
<1>7. CASE GitWrites
  BY <1>7 DEF GitWrites
<1>8. CASE GitFinishes
  BY <1>8 DEF GitFinishes
<1>9. CASE GitFails
  BY <1>9 DEF GitFails
<1>10. CASE GitTerminated
  BY <1>10 DEF GitTerminated
<1>11. CASE EscalationFires
  BY <1>11 DEF EscalationFires
<1>12. CASE OnData
  BY <1>12 DEF OnData
<1>13. CASE OnEnd
  BY <1>13 DEF OnEnd
<1>14. CASE OnExit
  BY <1>14 DEF OnExit
<1>15. CASE OnSpawnError
  BY <1>15 DEF OnSpawnError
<1>16. CASE OnClose
  BY <1>16 DEF OnClose
<1>17. CASE Abort
  BY <1>17 DEF Abort
<1>18. CASE AbortTreeKill
  BY <1>18 DEF AbortTreeKill
<1> QED
  BY <1>0, <1>1, <1>2, <1>3, <1>4, <1>5, <1>6, <1>7, <1>8, <1>9, <1>10, <1>11, <1>12, <1>13, <1>14, <1>15, <1>16, <1>17, <1>18 DEF Next, Event

(* A served page is a Page of the pager.                                   *)
LEMMA ServeImplementsPage ==
  ASSUME IInv, ServePage, Source' = Source
  PROVE  \E count \in Count : Pager!Page(count)
<1>1. /\ want \in Count
      /\ \E n \in 0..want :
           /\ Len(delivered) + n <= History
           /\ delivered' = [i \in 1..(Len(delivered) + n) |-> i]
           /\ \/ outcome' = "more" /\ n > 0
              \/ /\ outcome' = "done" /\ stdoutEndedBeforeAbort
                 /\ exit = "ok" => Len(delivered) + n = History
  BY PageFacts DEF IInv
<1>2. PICK n \in 0..want :
        /\ Len(delivered) + n <= History
        /\ delivered' = [i \in 1..(Len(delivered) + n) |-> i]
        /\ \/ outcome' = "more" /\ n > 0
           \/ /\ outcome' = "done" /\ stdoutEndedBeforeAbort
              /\ exit = "ok" => Len(delivered) + n = History
  BY <1>1
<1>3. errored = "no" /\ outcome # "error"
  BY DEF ServePage, IInv, Verdict
<1>4. Len(delivered) \in Nat /\ n \in Nat /\ Len(delivered') = Len(delivered) + n
  <2>1. Len(delivered) \in Nat /\ n \in Nat
    BY <1>1, CommitLogReaderAssumption DEF IInv, TypeOK
  <2> QED
    BY <2>1, <1>2
<1>5. \A i \in 1..Len(delivered) : delivered[i] = i
  BY DEF IInv, Scan
<1>6. delivered' = [i \in 1..(Len(delivered) + n) |-> IF i <= Len(delivered) THEN delivered[i] ELSE i]
  BY <1>2, <1>4, <1>5
<1>7. stdoutEndedBeforeAbort => \/ Source = "complete" /\ exit = "ok"
                                \/ Source = "failed"
  <2> SUFFICES ASSUME stdoutEndedBeforeAbort
               PROVE  (Source = "complete" /\ exit = "ok") \/ Source = "failed"
    OBVIOUS
  <2>1. stdoutEnded /\ git = "exited" /\ exit \in {"ok", "nonzero", "signal"}
    BY <1>3 DEF IInv, Verdict, Lifecycle, TypeOK
  <2> QED
    BY <2>1 DEF Source
<1>8. \/ outcome' = "more" /\ n > 0
      \/ /\ outcome' = "done"
         /\ (Source = "complete" /\ Len(delivered') = History) \/ Source = "failed"
  BY <1>2, <1>4, <1>7
<1> QED
  BY <1>1, <1>2, <1>3, <1>6, <1>8 DEF Pager!Page

(* A thrown page is a Fail of the pager.                                   *)
LEMMA ThrowImplementsFail ==
  ASSUME IInv, ReadPageThrows, Source' = Source
  PROVE  Pager!Fail
<1>1. Source # "complete"
  <2> SUFFICES ASSUME Source = "complete" PROVE FALSE
    OBVIOUS
  <2>1. exit = "ok" /\ stdoutEndedBeforeAbort
    BY DEF Source
  <2>2. errored \in {"git", "cancelled"} /\ git = "exited"
    BY <2>1 DEF IInv, TypeOK, Lifecycle, ReadPageThrows
  <2> QED
    BY <2>1, <2>2 DEF IInv, Verdict
<1> QED
  BY <1>1 DEF ReadPageThrows, Pager!Fail

(* The reader implements the pager: chunks that cut records in half, an    *)
(* abort before, between or after them, git's failure and its killing all  *)
(* show to the callers of readPage as one scan that continues, ends or     *)
(* fails.  In particular no page is lost or repeated, a walk whose output  *)
(* came before any abort never fails, and a cancelled one never yields a   *)
(* last page.                                                              *)
THEOREM ImplementsPager == Spec => PagerSpec
<1>1. Init => Pager!Init
  BY DEF Init, Source, Pager!Init
<1>2. IInv /\ [Next]_vars => [Pager!Next]_<<delivered, outcome, Source>>
  <2> SUFFICES ASSUME IInv, [Next]_vars
               PROVE  Pager!Next \/ UNCHANGED <<delivered, outcome, Source>>
    BY DEF Pager!Next
  <2>1. CASE Source' # Source
    <3>1. Pager!SourceEnds
      BY <2>1, SourceSteps DEF Pager!SourceEnds
    <3> QED
      BY <3>1 DEF Pager!Next
  <2>2. CASE Source' = Source
    <3>1. CASE ServePage
      BY <2>2, <3>1, ServeImplementsPage DEF Pager!Next
    <3>2. CASE ReadPageThrows
      BY <2>2, <3>2, ThrowImplementsFail DEF Pager!Next
    <3>3. CASE UNCHANGED <<delivered, outcome>>
      BY <2>2, <3>3
    <3> QED
      BY <3>1, <3>2, <3>3, QuietSteps
  <2> QED
    BY <2>1, <2>2
<1> QED
  BY <1>1, <1>2, Invariance, PTL DEF Spec, PagerSpec, Pager!Spec
=============================================================================
