-------------------------- MODULE ChangesPanel_proofs --------------------------
(***************************************************************************)
(* ChangesPanel for any files, layouts and lines and any budgets, checked  *)
(* by TLAPS: its types, that git changes only what the user saw, and that  *)
(* what is on screen once nothing is in flight is what is on disk.         *)
(***************************************************************************)
EXTENDS ChangesPanel, SequenceTheorems, TLAPS

-----------------------------------------------------------------------------
(* Types, in parts.  A diff, an answer and an operation say of themselves  *)
(* whose they are.                                                         *)
TrackedRow == [path : Tracked, cat : {"staged", "unstaged"}]
Row        == TrackedRow \cup [path : Untracked, cat : {"untracked"}]
Listing    == {l \in [File -> SUBSET Category] :
                 /\ \A f \in Tracked : l[f] \subseteq {"staged", "unstaged"}
                 /\ \A f \in Untracked : l[f] = {"untracked"}}

Op == Toggle \cup {d \in Discard : d.print.path = d.shown /\ d.print.text = d.text}

DiffState ==
  {NoDiff} \cup [at : {"loading", "error"}, path : Tracked] \cup
  {d \in [at : {"ready"}, path : Tracked, print : Diffs, ticks : SUBSET Line] : d.path = d.print.path}

Kind       == {"load", "live", "own"}
FetchState ==
  {NoFetch} \cup [at : {"asked"}, kind : Kind, sel : TrackedRow] \cup
  {a \in [at : {"answered"}, kind : Kind, sel : TrackedRow, print : Diffs] : a.print.path = a.sel.path}

Calling ==
  {c \in [at : {"calling"}, target : TrackedRow, op : Op, print : Diffs] :
     IF c.op.kind = "toggle" THEN c.print.text = c.op.text ELSE c.print = c.op.print}
DrainState ==
  {Off} \cup Calling \cup [at : {"ok", "error"}, target : TrackedRow, op : Op] \cup
  [at : {"refused", "reloading", "failed", "again"}, target : TrackedRow]

DialogState ==
  {d \in [path : Tracked, shown : Tracked, print : Diffs, lines : (SUBSET Line) \ {{}}] :
     d.print.path = d.shown /\ d.print.text # Clean}

PanelState ==
  [selected : Row \cup {None}, gone : BOOLEAN, diff : DiffState, fetch : FetchState, queue : Seq(Op),
   drain : DrainState, deferred : SUBSET Line, dialog : DialogState \cup {None}, syncDue : BOOLEAN]

-----------------------------------------------------------------------------
(* What holds of a panel p.  `stranded' and `failed' say which gaps are    *)
(* open.                                                                   *)

Reading(p) == p.drain.at \in {"refused", "reloading", "failed", "again"}

(* The worker: what it leaves when it ends, and whose answer it awaits.    *)
Worker(p, stranded) ==
  /\ p.drain.at = "off" => p.deferred = {} /\ ~p.syncDue
  /\ p.drain.at \in {"off", "refused", "again"} => p.queue = <<>> \/ stranded
  /\ p.dialog # None => p.drain.at = "off"
  /\ p.fetch.kind = "own" => Reading(p) /\ p.fetch.sel = p.drain.target

(* The fetches of the selection are of the selected file.                  *)
Fetching(p, failed) ==
  /\ p.fetch.kind \in {"load", "live"} => p.selected # None /\ p.fetch.sel.path = p.selected.path
  /\ p.diff.at = "loading" => p.fetch.at # "idle" \/ failed

(* Another file's diff is shown under the name of the selected one.        *)
Crossed(p) == p.selected # None /\ p.diff.at = "ready" /\ p.diff.path # p.selected.path

(* The worker is not about to go on with its queue: git will refuse its    *)
(* call, or it has failed, or there is none.                               *)
Stuck(p) == /\ p.drain.at \notin {"ok", "reloading"}
            /\ p.drain.at = "calling" => p.drain.print.path # p.drain.op.path

(* A tick or a discard made on another file's diff cannot come through:    *)
(* the worker is stuck, and drops it.                                      *)
Seen(p) ==
  /\ Crossed(p) => Stuck(p) /\ (p.dialog # None => p.dialog.print.path # p.dialog.path)
  /\ \A i \in DOMAIN p.queue : /\ p.queue[i].kind = "toggle"
                               /\ p.queue[i].shown # p.queue[i].path => Stuck(p)
  /\ p.drain.at = "calling" /\ p.drain.op.shown # p.drain.op.path => Stuck(p)

PanelOK(p, stranded, failed) ==
  /\ p \in PanelState
  /\ Worker(p, stranded)
  /\ Fetching(p, failed)
  /\ ~stranded => Seen(p)

Move      == [path : Tracked, to : {"staged", "unstaged"}, snapshot : Listing, at : {"sent", "ok", "error"}]
StatusSet == [at : {"idle", "asked"}] \cup [at : {"answered"}, lists : Listing]

World ==
  /\ disk \in [Tracked -> [text : Text \cup {Clean}, staged : SUBSET Line]]
  /\ \A f \in Tracked : disk[f].text = Clean => disk[f].staged = {}
  /\ shared \in Listing /\ changes \in Listing
  /\ due \in BOOLEAN
  /\ status \in StatusSet
  /\ ops \subseteq Move

IInv == World /\ PanelOK(panel, "stranded" \in gap, "failed" \in gap)

-----------------------------------------------------------------------------
(* What a member of each set is, and what makes one.                       *)
LEMMA RowFacts ==
  /\ \A r \in Row : /\ r.path \in File /\ r.cat \in Category
                    /\ r.cat # "untracked" => r \in TrackedRow
  /\ \A r \in TrackedRow : r \in Row /\ r.path \in Tracked /\ r.cat \in {"staged", "unstaged"}
  /\ Row \subseteq Selection
BY DEF Row, TrackedRow, File, Category, Selection

(* A row of a listing is one.                                              *)
LEMMA ListingFacts ==
  ASSUME NEW l \in Listing, NEW f \in File, NEW c \in l[f]
  PROVE  /\ [cat |-> c, path |-> f] \in Row
         /\ f \in Tracked => c # "untracked"
         /\ f \in Untracked => c = "untracked"
BY ChangesPanelAssumption DEF Listing, Row, TrackedRow, File, Category

LEMMA ListingTyped == Listing \subseteq [File -> SUBSET Category]
BY DEF Listing

LEMMA DiffFacts ==
  /\ \A d \in DiffState : /\ d.at \in {"idle", "loading", "error", "ready"}
                          /\ d.at = "ready" => /\ d.path = d.print.path /\ d.print \in Diffs
                                               /\ d.ticks \subseteq Line
  /\ NoDiff \in DiffState /\ NoDiff.at = "idle"
  /\ \A f \in Tracked : /\ [at |-> "loading", path |-> f] \in DiffState
                        /\ [at |-> "error", path |-> f] \in DiffState
  /\ \A print \in Diffs, ticks \in SUBSET Line :
       /\ Ready(print, ticks) \in DiffState /\ Ready(print, ticks).at = "ready"
       /\ Ready(print, ticks).print = print /\ Ready(print, ticks).path = print.path
       /\ Ready(print, ticks).ticks = ticks
BY DEF DiffState, NoDiff, Ready, Diffs

LEMMA TickedFacts ==
  ASSUME NEW d \in DiffState, d.at = "ready", NEW ticks \in SUBSET Line
  PROVE  /\ [d EXCEPT !.ticks = ticks] \in DiffState
         /\ [d EXCEPT !.ticks = ticks].at = "ready" /\ [d EXCEPT !.ticks = ticks].path = d.path
         /\ [d EXCEPT !.ticks = ticks].print = d.print
BY DEF DiffState, NoDiff

LEMMA FetchFacts ==
  /\ \A a \in FetchState : /\ a.at \in {"idle", "asked", "answered"}
                           /\ a.kind \in Kind \cup {"none"}
                           /\ a.at # "idle" => a.kind \in Kind /\ a.sel \in TrackedRow
                           /\ a.kind # "none" => a.at # "idle"
                           /\ a.at = "answered" => a.print \in Diffs /\ a.print.path = a.sel.path
  /\ NoFetch \in FetchState /\ NoFetch.at = "idle" /\ NoFetch.kind = "none"
  /\ \A k \in Kind, r \in TrackedRow :
       /\ [at |-> "asked", kind |-> k, sel |-> r] \in FetchState
       /\ \A print \in Diffs : print.path = r.path =>
            [at |-> "answered", kind |-> k, sel |-> r, print |-> print] \in FetchState
BY DEF FetchState, NoFetch, Kind

LEMMA OpFacts ==
  /\ \A op \in Op : /\ op.path \in Tracked /\ op.shown \in Tracked /\ op.text \in Text
                    /\ op.lines \subseteq Line /\ op.lines # {} /\ op.kind \in {"toggle", "discard"}
                    /\ op.kind = "toggle" => op \in Toggle /\ op.target \in {"stage", "unstage"}
                    /\ op.kind = "discard" => /\ op \in Discard /\ op.print \in Diffs
                                              /\ op.print.path = op.shown /\ op.print.text = op.text
  /\ Op \subseteq Toggle \cup Discard
<1>1. \A op \in Toggle : /\ op.path \in Tracked /\ op.shown \in Tracked /\ op.text \in Text
                         /\ op.lines \subseteq Line /\ op.lines # {} /\ op.kind = "toggle"
                         /\ op.target \in {"stage", "unstage"}
  BY DEF Toggle
<1>2. \A op \in Discard : /\ op.path \in Tracked /\ op.shown \in Tracked /\ op.text \in Text
                          /\ op.lines \subseteq Line /\ op.lines # {} /\ op.kind = "discard"
                          /\ op.print \in Diffs
  BY DEF Discard
<1>3. /\ Op \subseteq Toggle \cup Discard
      /\ \A op \in Op : op \notin Toggle =>
           op \in Discard /\ op.print.path = op.shown /\ op.print.text = op.text
  BY DEF Op
<1> QED
  BY <1>1, <1>2, <1>3

LEMMA DrainFacts ==
  /\ \A d \in DrainState :
       /\ d.at \in {"off", "calling", "ok", "error", "refused", "reloading", "failed", "again"}
       /\ d.at # "off" => d.target \in TrackedRow
       /\ d.at \in {"calling", "ok", "error"} => d.op \in Op
       /\ d.at = "calling" => d.print \in Diffs /\ d \in Calling
  /\ Off \in DrainState /\ Off.at = "off"
  /\ \A r \in TrackedRow : \A at \in {"refused", "reloading", "failed", "again"} :
       [at |-> at, target |-> r] \in DrainState
  /\ \A r \in TrackedRow, op \in Op : \A at \in {"ok", "error"} :
       [at |-> at, target |-> r, op |-> op] \in DrainState
  /\ \A r \in TrackedRow, op \in Op, print \in Diffs :
       (IF op.kind = "toggle" THEN print.text = op.text ELSE print = op.print) =>
         [at |-> "calling", target |-> r, op |-> op, print |-> print] \in DrainState
BY DEF DrainState, Off, Calling

LEMMA CallFacts ==
  ASSUME NEW d \in Calling
  PROVE  /\ d.at = "calling" /\ d.op \in Op /\ d.print \in Diffs /\ d.target \in TrackedRow
         /\ d.op.kind = "toggle" => d.print.text = d.op.text
         /\ d.op.kind = "discard" => d.print = d.op.print
         /\ d.print.text = d.op.text
BY OpFacts DEF Calling

LEMMA AgainFacts ==
  ASSUME NEW d \in DrainState, d.at = "failed"
  PROVE  /\ [d EXCEPT !.at = "again"] \in DrainState
         /\ [d EXCEPT !.at = "again"].at = "again" /\ [d EXCEPT !.at = "again"].target = d.target
BY DEF DrainState, Off, Calling

LEMMA DialogFacts ==
  \A d \in DialogState :
    /\ d.path \in Tracked /\ d.shown \in Tracked /\ d.print \in Diffs /\ d.print.path = d.shown
    /\ d.print.text \in Text /\ d.lines \subseteq Line /\ d.lines # {}
<1>1. \A d \in DialogState :
        /\ d.path \in Tracked /\ d.shown \in Tracked /\ d.print \in Diffs /\ d.print.path = d.shown
        /\ d.print.text # Clean /\ d.lines \subseteq Line /\ d.lines # {}
  BY DEF DialogState
<1>2. \A print \in Diffs : print.text \in Text \cup {Clean}
  BY DEF Diffs
<1> QED
  BY <1>1, <1>2

(* The parts of a panel.                                                   *)
LEMMA PanelFacts ==
  ASSUME NEW p \in PanelState
  PROVE  /\ p.selected \in Row \cup {None} /\ p.gone \in BOOLEAN /\ p.diff \in DiffState
         /\ p.fetch \in FetchState /\ p.queue \in Seq(Op) /\ p.drain \in DrainState
         /\ p.deferred \subseteq Line /\ p.dialog \in DialogState \cup {None} /\ p.syncDue \in BOOLEAN
BY DEF PanelState

LEMMA QueueFacts ==
  ASSUME NEW q \in Seq(Op)
  PROVE  /\ <<>> \in Seq(Op) /\ DOMAIN <<>> = {}
         /\ Len(q) \in Nat /\ DOMAIN q = 1..Len(q) /\ \A i \in DOMAIN q : q[i] \in Op
         /\ q # <<>> => /\ Head(q) \in Op /\ Head(q) = q[1] /\ 1 \in DOMAIN q
                        /\ Tail(q) \in Seq(Op) /\ DOMAIN Tail(q) = 1..(Len(q) - 1)
                        /\ \A i \in DOMAIN Tail(q) : Tail(q)[i] = q[i + 1] /\ i + 1 \in DOMAIN q
         /\ \A op \in Op : /\ Append(q, op) \in Seq(Op) /\ DOMAIN Append(q, op) = 1..(Len(q) + 1)
                           /\ Append(q, op) # <<>>
                           /\ \A i \in DOMAIN q : Append(q, op)[i] = q[i]
                           /\ Append(q, op)[Len(q) + 1] = op
<1>1. \A op \in Op : /\ Append(q, op) \in Seq(Op) /\ Len(Append(q, op)) = Len(q) + 1
                     /\ \A i \in 1..Len(q) : Append(q, op)[i] = q[i]
                     /\ Append(q, op)[Len(q) + 1] = op
  BY AppendProperties
<1>2. q # <<>> => /\ Head(q) = q[1] /\ Len(q) >= 1 /\ Tail(q) \in Seq(Op)
                  /\ Len(Tail(q)) = Len(q) - 1
                  /\ \A i \in 1..(Len(q) - 1) : Tail(q)[i] = q[i + 1]
  BY HeadTailProperties, EmptySeq
<1> QED
  BY <1>1, <1>2

-----------------------------------------------------------------------------
(* The operations on a panel keep what holds of it.                        *)
LEMMA ClearOK ==
  ASSUME NEW p, NEW s \in BOOLEAN, NEW f \in BOOLEAN, PanelOK(p, s, f)
  PROVE  PanelOK(Clear(p), s, f) /\ Clear(p).drain = p.drain
<1> DEFINE q == Clear(p)
<1>1. p \in PanelState
  BY DEF PanelOK
<1>2. /\ q \in PanelState /\ q.diff = NoDiff /\ q.fetch = NoFetch /\ q.selected = p.selected
      /\ q.queue = p.queue /\ q.drain = p.drain /\ q.deferred = p.deferred /\ q.dialog = p.dialog
      /\ q.syncDue = p.syncDue
  BY <1>1, DiffFacts, FetchFacts DEF Clear, PanelState
<1> HIDE DEF q
<1>3. Worker(q, s) /\ Fetching(q, f)
  BY <1>2, FetchFacts, DiffFacts DEF PanelOK, Worker, Fetching, Kind
<1>4. ~s => Seen(q)
  BY <1>2, DiffFacts DEF PanelOK, Seen, Crossed, Stuck
<1> QED
  BY <1>2, <1>3, <1>4 DEF PanelOK, q

LEMMA LiveOK ==
  ASSUME NEW p, NEW s \in BOOLEAN, NEW f \in BOOLEAN, PanelOK(p, s, f), ~Reading(p),
         NEW sel \in TrackedRow, p.selected # None, p.selected.path = sel.path
  PROVE  PanelOK(Reload(p, sel, "live"), s, f)
<1> DEFINE q == Reload(p, sel, "live")
<1>1. p \in PanelState
  BY DEF PanelOK
<1>2. /\ q \in PanelState /\ q.diff = p.diff /\ q.fetch = [at |-> "asked", kind |-> "live", sel |-> sel]
      /\ q.selected = p.selected /\ q.queue = p.queue /\ q.drain = p.drain /\ q.deferred = p.deferred
      /\ q.dialog = p.dialog /\ q.syncDue = p.syncDue
  BY <1>1, FetchFacts DEF Reload, PanelState, Kind
<1> HIDE DEF q
<1>3. Worker(q, s) /\ Fetching(q, f)
  BY <1>2 DEF PanelOK, Worker, Fetching
<1>4. ~s => Seen(q)
  BY <1>2 DEF PanelOK, Seen, Crossed, Stuck
<1> QED
  BY <1>2, <1>3, <1>4 DEF PanelOK, q

LEMMA SelectOK ==
  ASSUME NEW p, NEW s \in BOOLEAN, NEW f \in BOOLEAN, PanelOK(p, s, f), NEW sel \in Row
  PROVE  PanelOK(SelectFile(p, sel), s, f) /\ SelectFile(p, sel).drain = p.drain
<1> DEFINE q == SelectFile(p, sel)
<1>1. p \in PanelState
  BY DEF PanelOK
<1>2. CASE Sibling(p, sel)
  <2>1. /\ q \in PanelState /\ q.selected = sel /\ q.diff = p.diff /\ q.fetch = p.fetch
        /\ q.queue = p.queue /\ q.drain = p.drain /\ q.deferred = p.deferred /\ q.dialog = p.dialog
        /\ q.syncDue = p.syncDue
    BY <1>1, <1>2 DEF SelectFile, PanelState
  <2>2. p.selected # None /\ p.selected.path = sel.path
    BY <1>2 DEF Sibling
  <2> HIDE DEF q
  <2>3. sel # None
    BY <1>2, <2>2 DEF Sibling, Row, TrackedRow, None
  <2>4. Worker(q, s) /\ Fetching(q, f)
    <3>1. Worker(q, s)
      BY <2>1 DEF PanelOK, Worker, Reading
    <3>2. Fetching(q, f)
      BY <2>1, <2>2, <2>3 DEF PanelOK, Fetching
    <3> QED
      BY <3>1, <3>2
  <2>5. ~s => Seen(q)
    BY <2>1, <2>2, <2>3 DEF PanelOK, Seen, Crossed, Stuck
  <2> QED
    BY <2>1, <2>4, <2>5 DEF PanelOK, q
<1>3. CASE ~Sibling(p, sel) /\ sel.cat = "untracked"
  <2>1. /\ q \in PanelState /\ q.selected = sel /\ q.diff = NoDiff /\ q.fetch = NoFetch
        /\ q.queue = <<>> /\ q.drain = p.drain /\ q.deferred = {} /\ q.dialog = p.dialog
        /\ q.syncDue = p.syncDue
    BY <1>1, <1>3, DiffFacts, FetchFacts, QueueFacts DEF SelectFile, Clear, Leave, PanelState
  <2> HIDE DEF q
  <2>4. Worker(q, s) /\ Fetching(q, f)
    BY <2>1, FetchFacts, DiffFacts DEF PanelOK, Worker, Fetching, Kind
  <2>5. ~s => Seen(q)
    BY <2>1, DiffFacts, QueueFacts DEF PanelOK, Seen, Crossed, Stuck
  <2> QED
    BY <2>1, <2>4, <2>5 DEF PanelOK, q
<1>4. CASE ~Sibling(p, sel) /\ sel.cat # "untracked"
  <2>0. sel \in TrackedRow /\ sel.path \in Tracked
    BY <1>4, RowFacts
  <2>1. /\ q \in PanelState /\ q.selected = sel /\ q.diff = [at |-> "loading", path |-> sel.path]
        /\ q.fetch = [at |-> "asked", kind |-> "load", sel |-> sel]
        /\ q.queue = <<>> /\ q.drain = p.drain /\ q.deferred = {} /\ q.dialog = p.dialog
        /\ q.syncDue = p.syncDue
    BY <1>1, <1>4, <2>0, DiffFacts, FetchFacts, QueueFacts DEF SelectFile, Load, Leave, PanelState, Kind
  <2> HIDE DEF q
  <2>3. sel # None
    BY <2>0 DEF TrackedRow, None
  <2>4. Worker(q, s) /\ Fetching(q, f)
    BY <2>1, <2>3 DEF PanelOK, Worker, Fetching
  <2>5. ~s => Seen(q)
    BY <2>1, QueueFacts DEF PanelOK, Seen, Crossed, Stuck
  <2> QED
    BY <2>1, <2>4, <2>5 DEF PanelOK, q
<1> QED
  BY <1>2, <1>3, <1>4

(* The other row of the selected file's.                                   *)
LEMMA RowChangeOK ==
  ASSUME NEW p, NEW s \in BOOLEAN, NEW f \in BOOLEAN, PanelOK(p, s, f), p.selected # None,
         NEW row \in Row, row.path = p.selected.path
  PROVE  PanelOK([p EXCEPT !.selected = row], s, f) /\ row # None
<1> DEFINE q == [p EXCEPT !.selected = row]
<1>1. /\ q \in PanelState /\ q.selected = row /\ q.diff = p.diff /\ q.fetch = p.fetch
      /\ q.queue = p.queue /\ q.drain = p.drain /\ q.deferred = p.deferred /\ q.dialog = p.dialog
      /\ q.syncDue = p.syncDue
  BY DEF PanelOK, PanelState
<1>2. row # None
  BY DEF Row, TrackedRow, None
<1> HIDE DEF q
<1>3. Worker(q, s)
  BY <1>1 DEF PanelOK, Worker, Reading
<1>4. Fetching(q, f)
  BY <1>1, <1>2 DEF PanelOK, Fetching
<1>5. ~s => Seen(q)
  BY <1>1, <1>2 DEF PanelOK, Seen, Crossed, Stuck
<1> QED
  BY <1>1, <1>2, <1>3, <1>4, <1>5 DEF PanelOK, q

(* The file has no changes any more.                                       *)
LEMMA GoneOK ==
  ASSUME NEW p, NEW s \in BOOLEAN, NEW f \in BOOLEAN, PanelOK(p, s, f)
  PROVE  LET q == [p EXCEPT !.gone = TRUE, !.queue = <<>>, !.deferred = {}, !.dialog = None]
         IN PanelOK(q, s, f) /\ q.drain = p.drain
<1> DEFINE q == [p EXCEPT !.gone = TRUE, !.queue = <<>>, !.deferred = {}, !.dialog = None]
<1>1. /\ q \in PanelState /\ q.selected = p.selected /\ q.diff = p.diff /\ q.fetch = p.fetch
      /\ q.queue = <<>> /\ q.drain = p.drain /\ q.deferred = {} /\ q.dialog = None
      /\ q.syncDue = p.syncDue
  BY QueueFacts DEF PanelOK, PanelState
<1> HIDE DEF q
<1>2. Worker(q, s) /\ Fetching(q, f)
  BY <1>1 DEF PanelOK, Worker, Reading, Fetching
<1>3. ~s => Seen(q)
  BY <1>1, QueueFacts DEF PanelOK, Seen, Crossed, Stuck
<1> QED
  BY <1>1, <1>2, <1>3 DEF PanelOK, q

LEMMA SyncOK ==
  ASSUME NEW p, NEW s \in BOOLEAN, NEW f \in BOOLEAN, PanelOK(p, s, f), NEW sh \in Listing
  PROVE  PanelOK(Sync(p, sh), s, f) /\ Sync(p, sh).drain = p.drain
<1> DEFINE sel == p.selected
           rows == sh[sel.path]
           R(cat) == [cat |-> cat, path |-> sel.path]
<1>0. /\ p \in PanelState /\ p.drain \in DrainState /\ sel \in Row \cup {None}
      /\ p.drain.at = "off" => ~Reading(p)
  BY PanelFacts DEF PanelOK, Reading
<1>1. CASE sel = None
  BY <1>1 DEF Sync
<1>2. CASE sel # None /\ p.drain.at # "off"
  <2> DEFINE q == [p EXCEPT !.syncDue = TRUE]
  <2>1. Sync(p, sh) = q
    BY <1>2 DEF Sync
  <2>2. /\ q \in PanelState /\ q.selected = p.selected /\ q.diff = p.diff /\ q.fetch = p.fetch
        /\ q.queue = p.queue /\ q.drain = p.drain /\ q.deferred = p.deferred /\ q.dialog = p.dialog
    BY <1>0 DEF PanelState
  <2> HIDE DEF q
  <2>3. Worker(q, s) /\ Fetching(q, f)
    BY <1>2, <2>2 DEF PanelOK, Worker, Reading, Fetching
  <2>4. ~s => Seen(q)
    BY <2>2 DEF PanelOK, Seen, Crossed, Stuck
  <2> QED
    BY <2>1, <2>2, <2>3, <2>4 DEF PanelOK
<1>3. ASSUME sel # None, p.drain.at = "off"
      PROVE  PanelOK(Sync(p, sh), s, f) /\ Sync(p, sh).drain = p.drain
  <2>1. sel \in Row /\ sel.path \in File
    BY <1>0, <1>3, RowFacts
  <2>2. /\ \A c \in rows : R(c) \in Row /\ R(c).path = sel.path
        /\ \A c \in rows : sel.path \in Tracked => c # "untracked"
        /\ \A c \in rows : sel.path \in Untracked => c = "untracked"
    BY <2>1, ListingFacts
  <2>3. sel.path \in Tracked \/ (sel.path \in Untracked /\ rows = {"untracked"} /\ sel.cat = "untracked")
    BY <2>1, ChangesPanelAssumption DEF Listing, Row, TrackedRow
  <2>4. CASE p.gone /\ rows = {}
    BY <1>3, <2>4 DEF Sync
  <2>5. CASE p.gone /\ rows # {}
    <3>1. PICK c \in rows : Sync(p, sh) = SelectFile(p, R(c))
      BY <1>3, <2>5 DEF Sync
    <3> QED
      BY <2>2, <3>1, SelectOK
  <2>6. CASE ~p.gone /\ rows = {}
    BY <1>3, <2>6, GoneOK, ClearOK DEF Sync
  <2>7. CASE ~p.gone /\ rows # {} /\ sel.cat \notin rows
    <3>1. PICK c \in rows : Sync(p, sh) = Reload([p EXCEPT !.selected = R(c)], R(c), "live")
      BY <1>3, <2>7 DEF Sync
    <3> DEFINE q == [p EXCEPT !.selected = R(c)]
    <3>2. PanelOK(q, s, f) /\ R(c) # None
      BY <1>3, <2>2, RowChangeOK
    <3>3. q.selected = R(c) /\ q.drain = p.drain /\ ~Reading(q)
      BY <1>0, <1>3 DEF PanelState, Reading
    <3>4. R(c) \in TrackedRow
      BY <2>2, <2>3, <2>7, RowFacts
    <3>5. Reload(q, R(c), "live").drain = q.drain
      BY <3>2 DEF PanelOK, PanelState, Reload
    <3> HIDE DEF q, R
    <3>6. PanelOK(Reload(q, R(c), "live"), s, f)
      BY <3>2, <3>3, <3>4, LiveOK
    <3> QED
      BY <3>1, <3>3, <3>5, <3>6 DEF q
  <2>8. CASE ~p.gone /\ sel.cat \in rows /\ sel.cat # "untracked" /\ p.diff.at = "ready"
    <3>1. Sync(p, sh) = Reload(p, sel, "live")
      BY <1>3, <2>8 DEF Sync
    <3>2. sel \in TrackedRow
      BY <2>1, <2>8, RowFacts
    <3>3. Reload(p, sel, "live").drain = p.drain
      BY <1>0 DEF PanelState, Reload
    <3> QED
      BY <1>0, <1>3, <3>1, <3>2, <3>3, LiveOK
  <2>9. CASE ~p.gone /\ sel.cat \in rows /\ ~(sel.cat # "untracked" /\ p.diff.at = "ready")
    BY <1>3, <2>9 DEF Sync
  <2> QED
    BY <2>4, <2>5, <2>6, <2>7, <2>8, <2>9
<1> QED
  BY <1>1, <1>2, <1>3

LEMMA OpenDialogOK ==
  ASSUME NEW p, NEW s \in BOOLEAN, NEW f \in BOOLEAN, PanelOK(p, s, f), p.drain.at = "off",
         NEW lines \in SUBSET Line
  PROVE  PanelOK(OpenDialog(p, lines), s, f) /\ OpenDialog(p, lines).drain = p.drain
<1>1. CASE ~(OnScreen(p) /\ lines \ p.diff.ticks # {})
  BY <1>1 DEF OpenDialog
<1>2. CASE OnScreen(p) /\ lines \ p.diff.ticks # {}
  <2> DEFINE dialog == [path |-> p.selected.path, shown |-> p.diff.path, print |-> p.diff.print,
                        lines |-> lines \ p.diff.ticks]
             q == [p EXCEPT !.dialog = dialog]
  <2>1. OpenDialog(p, lines) = q
    BY <1>2 DEF OpenDialog
  <2>2. p \in PanelState /\ p.selected \in Row /\ p.selected.path \in Tracked
    BY <1>2, PanelFacts, RowFacts DEF PanelOK, OnScreen
  <2>3. p.diff.path = p.diff.print.path /\ p.diff.print \in Diffs /\ p.diff.print.text # Clean
        /\ p.diff.path \in Tracked
    BY <1>2, <2>2, PanelFacts, DiffFacts DEF OnScreen, Combined, Diffs
  <2>4. dialog \in DialogState
    BY <1>2, <2>2, <2>3 DEF DialogState
  <2>5. dialog.path = p.selected.path /\ dialog.print.path = p.diff.path
    BY <2>3
  <2> HIDE DEF dialog
  <2>6. /\ q \in PanelState /\ q.selected = p.selected /\ q.diff = p.diff /\ q.fetch = p.fetch
        /\ q.queue = p.queue /\ q.drain = p.drain /\ q.deferred = p.deferred /\ q.dialog = dialog
        /\ q.syncDue = p.syncDue
    BY <2>2, <2>4 DEF PanelState
  <2> HIDE DEF q
  <2>7. Worker(q, s) /\ Fetching(q, f)
    BY <2>6 DEF PanelOK, Worker, Reading, Fetching
  <2>8. ~s => Seen(q)
    BY <2>5, <2>6 DEF PanelOK, Seen, Crossed, Stuck
  <2> QED
    BY <2>1, <2>6, <2>7, <2>8 DEF PanelOK
<1> QED
  BY <1>1, <1>2

-----------------------------------------------------------------------------
(* The worker.  Free says of a panel that is about to be given back to the *)
(* worker's loop what PanelOK says but for the worker.                     *)
Free(p, failed) ==
  /\ p \in PanelState /\ p.dialog = None /\ p.fetch.kind # "own"
  /\ Fetching(p, failed)

(* The diff a call is made against is the one on screen.                   *)
Against(p, print) ==
  /\ print \in Diffs \cup {None}
  /\ print # None => Combined(p) /\ print = p.diff.print

LEMMA EndsOK ==
  ASSUME NEW p, NEW s \in BOOLEAN, NEW f \in BOOLEAN, Free(p, f), p.queue = <<>> \/ s, shared \in Listing
  PROVE  PanelOK(DrainEnds(p), s, f) /\ DrainEnds(p).drain.at = "off"
<1> DEFINE q == Rest(p)
           asked == IF p.deferred = {} THEN q ELSE OpenDialog(q, p.deferred)
<1>1. /\ q \in PanelState /\ q.selected = p.selected /\ q.diff = p.diff /\ q.fetch = p.fetch
      /\ q.queue = p.queue /\ q.drain = Off /\ q.deferred = {} /\ q.dialog = None
      /\ q.syncDue = FALSE /\ q.drain.at = "off"
  BY DrainFacts DEF Free, Rest, PanelState
<1>2. p.deferred \in SUBSET Line
  BY PanelFacts DEF Free
<1> HIDE DEF q
<1>3. Worker(q, s) /\ Fetching(q, f)
  BY <1>1 DEF Free, Worker, Fetching
<1>4. ~s => Seen(q)
  BY <1>1, QueueFacts DEF Seen, Crossed, Stuck
<1>5. PanelOK(q, s, f)
  BY <1>1, <1>3, <1>4 DEF PanelOK
<1>6. PanelOK(asked, s, f) /\ asked.drain.at = "off"
  BY <1>1, <1>2, <1>5, OpenDialogOK
<1>7. DrainEnds(p) = IF p.syncDue THEN Sync(asked, shared) ELSE asked
  BY DEF DrainEnds, q
<1> HIDE DEF asked
<1> QED
  BY <1>6, <1>7, SyncOK

LEMMA NextOpOK ==
  ASSUME NEW p, NEW print, NEW s \in BOOLEAN, NEW f \in BOOLEAN, Free(p, f), Against(p, print),
         shared \in Listing,
         ~s => \A i \in DOMAIN p.queue : i # 1 => p.queue[i].kind = "toggle" /\ p.queue[i].shown = p.queue[i].path,
         ~s /\ p.queue # <<>> =>
           LET op == Head(p.queue)
           IN /\ op.kind = "toggle" /\ op.shown # op.path /\ print # None => print.path # op.path
              /\ op.kind = "discard" /\ Crossed(p) => op.print.path # op.path
  PROVE  PanelOK(NextOp(p, print), s, f) /\ NextOp(p, print).drain.at \in {"off", "calling", "refused"}
<1> DEFINE op == Head(p.queue)
           e  == [p EXCEPT !.queue = <<>>]
<1>0. /\ p \in PanelState /\ p.queue \in Seq(Op) /\ p.diff \in DiffState /\ p.selected \in Row \cup {None}
      /\ p.queue # <<>> => op \in Op
  BY PanelFacts, QueueFacts DEF Free
<1>1. CASE p.queue = <<>>
  BY <1>1, EndsOK DEF NextOp
<1>2. ASSUME p.queue # <<>>, p.selected = None \/ p.selected.path # op.path \/ print = None
      PROVE  PanelOK(NextOp(p, print), s, f) /\ NextOp(p, print).drain.at \in {"off", "calling", "refused"}
  <2>1. NextOp(p, print) = DrainEnds(e)
    BY <1>2 DEF NextOp
  <2>2. /\ e \in PanelState /\ e.selected = p.selected /\ e.diff = p.diff /\ e.fetch = p.fetch
        /\ e.dialog = p.dialog /\ e.queue = <<>>
    BY <1>0, QueueFacts DEF PanelState
  <2> HIDE DEF e
  <2>3. Free(e, f)
    BY <2>2 DEF Free, Fetching
  <2> QED
    BY <2>1, <2>2, <2>3, EndsOK
<1>3. ASSUME p.queue # <<>>, p.selected # None, p.selected.path = op.path, print # None
      PROVE  PanelOK(NextOp(p, print), s, f) /\ NextOp(p, print).drain.at \in {"off", "calling", "refused"}
  <2>1. p.selected \in TrackedRow /\ op \in Op /\ op.path \in Tracked
    BY <1>0, <1>3, OpFacts, RowFacts, ChangesPanelAssumption DEF Row, TrackedRow
  <2>2. print \in Diffs /\ Combined(p) /\ print = p.diff.print /\ p.diff.at = "ready" /\ p.diff.path = print.path
    BY <1>0, <1>3, DiffFacts DEF Against, Combined
  <2>3. CASE op.kind = "toggle" /\ ~RowsUnmoved(p, op)
    <3> DEFINE d == [at |-> "refused", target |-> p.selected]
               q == Reload([p EXCEPT !.queue = <<>>, !.drain = d], p.selected, "own")
    <3>1. NextOp(p, print) = q
      BY <1>3, <2>3 DEF NextOp
    <3>2. d \in DrainState /\ d.at = "refused" /\ d.target = p.selected
      BY <2>1, DrainFacts
    <3> HIDE DEF d
    <3>3. /\ q \in PanelState /\ q.selected = p.selected /\ q.diff = p.diff
          /\ q.fetch = [at |-> "asked", kind |-> "own", sel |-> p.selected]
          /\ q.queue = <<>> /\ q.drain = d /\ q.dialog = None
      BY <1>0, <2>1, <3>2, FetchFacts, QueueFacts DEF Free, Reload, PanelState, Kind
    <3> HIDE DEF q
    <3>4. Worker(q, s) /\ Fetching(q, f)
      BY <3>2, <3>3 DEF Worker, Reading, Fetching
    <3>5. ~s => Seen(q)
      BY <3>2, <3>3, QueueFacts DEF Seen, Stuck
    <3> QED
      BY <3>1, <3>2, <3>3, <3>4, <3>5 DEF PanelOK
  <2>4. CASE ~(op.kind = "toggle" /\ ~RowsUnmoved(p, op))
    <3> DEFINE against == IF op.kind = "toggle" THEN print ELSE op.print
               d == [at |-> "calling", target |-> p.selected, op |-> op, print |-> against]
               q == [p EXCEPT !.queue = Tail(p.queue), !.drain = d]
    <3>1. NextOp(p, print) = q
      BY <1>3, <2>4 DEF NextOp
    <3>2. against \in Diffs /\ (IF op.kind = "toggle" THEN against.text = op.text ELSE against = op.print)
      BY <2>1, <2>2, <2>4, OpFacts DEF RowsUnmoved
    <3>3. d \in DrainState /\ d.at = "calling" /\ d.op = op /\ d.print = against
      BY <2>1, <3>2, DrainFacts
    <3> HIDE DEF d
    <3>4. /\ q \in PanelState /\ q.selected = p.selected /\ q.diff = p.diff /\ q.fetch = p.fetch
          /\ q.queue = Tail(p.queue) /\ q.drain = d /\ q.dialog = None
      BY <1>0, <1>3, <3>3, QueueFacts DEF Free, PanelState
    <3> HIDE DEF q
    <3>5. Worker(q, s) /\ Fetching(q, f)
      BY <3>3, <3>4 DEF Free, Worker, Fetching
    <3>6. ~s /\ op.shown # op.path => against.path # op.path
      BY <1>3, <2>1, OpFacts
    <3>7. ~s /\ Crossed(p) => against.path # op.path
      BY <1>3, <2>1, <2>2, OpFacts DEF Crossed
    <3>8. ~s => \A i \in DOMAIN q.queue : q.queue[i].kind = "toggle" /\ q.queue[i].shown = q.queue[i].path
      <4>1. \A i \in DOMAIN Tail(p.queue) : Tail(p.queue)[i] = p.queue[i + 1] /\ i + 1 \in DOMAIN p.queue /\ i + 1 # 1
        BY <1>0, <1>3, QueueFacts
      <4> QED
        BY <3>4, <4>1
    <3>9. ~s => Seen(q)
      <4>1. Crossed(q) <=> Crossed(p)
        BY <3>4 DEF Crossed
      <4>2. Stuck(q) <=> against.path # op.path
        BY <3>3, <3>4 DEF Stuck
      <4> QED
        BY <3>3, <3>4, <3>6, <3>7, <3>8, <4>1, <4>2 DEF Seen
    <3> QED
      BY <3>1, <3>3, <3>4, <3>5, <3>9 DEF PanelOK
  <2> QED
    BY <2>3, <2>4
<1> QED
  BY <1>1, <1>2, <1>3

LEMMA ResumeOK ==
  ASSUME NEW p, NEW print, NEW s \in BOOLEAN, NEW f \in BOOLEAN, Free(p, f), Against(p, print),
         shared \in Listing, Reading(p),
         p.drain.at \in {"refused", "again"} => p.queue = <<>> \/ s,
         ~s /\ p.drain.at = "reloading" =>
           \A i \in DOMAIN p.queue : p.queue[i].kind = "toggle" /\ p.queue[i].shown = p.queue[i].path
  PROVE  PanelOK(Resume(p, print), s, f) /\ Resume(p, print).drain.at \in {"off", "calling", "refused", "again"}
<1>0. /\ p \in PanelState /\ p.drain \in DrainState /\ p.queue \in Seq(Op)
  BY PanelFacts DEF Free
<1>1. CASE p.drain.at = "reloading"
  <2>1. ~s /\ p.queue # <<>> => Head(p.queue).kind = "toggle" /\ Head(p.queue).shown = Head(p.queue).path
    BY <1>0, <1>1, QueueFacts
  <2>2. Resume(p, print) = NextOp(p, print)
    BY <1>1 DEF Resume
  <2>3. ~s => \A i \in DOMAIN p.queue : i # 1 => p.queue[i].kind = "toggle" /\ p.queue[i].shown = p.queue[i].path
    BY <1>1
  <2> QED
    BY <2>1, <2>2, <2>3, NextOpOK
<1>2. CASE p.drain.at = "failed" /\ p.queue # <<>>
  <2> DEFINE d == [p.drain EXCEPT !.at = "again"]
             q == Reload([p EXCEPT !.queue = <<>>, !.drain = d], p.drain.target, "own")
  <2>1. Resume(p, print) = q
    BY <1>0, <1>2 DEF Resume, PanelState
  <2>2. d \in DrainState /\ d.at = "again" /\ d.target = p.drain.target /\ p.drain.target \in TrackedRow
    BY <1>0, <1>2, AgainFacts, DrainFacts
  <2> HIDE DEF d
  <2>3. /\ q \in PanelState /\ q.selected = p.selected /\ q.diff = p.diff
        /\ q.fetch = [at |-> "asked", kind |-> "own", sel |-> p.drain.target]
        /\ q.queue = <<>> /\ q.drain = d /\ q.dialog = None
    BY <1>0, <2>2, FetchFacts, QueueFacts DEF Free, Reload, PanelState, Kind
  <2> HIDE DEF q
  <2>4. Worker(q, s) /\ Fetching(q, f)
    BY <2>2, <2>3 DEF Worker, Reading, Fetching
  <2>5. ~s => Seen(q)
    BY <2>2, <2>3, QueueFacts DEF Seen, Stuck
  <2> QED
    BY <2>1, <2>2, <2>3, <2>4, <2>5 DEF PanelOK
<1>3. CASE p.drain.at # "reloading" /\ ~(p.drain.at = "failed" /\ p.queue # <<>>)
  <2>1. Resume(p, print) = DrainEnds(p)
    BY <1>3 DEF Resume
  <2>2. p.queue = <<>> \/ s
    BY <1>3 DEF Reading
  <2> QED
    BY <2>1, <2>2, EndsOK
<1> QED
  BY <1>1, <1>2, <1>3

-----------------------------------------------------------------------------
(* The working tree, the index and the lists keep their types.             *)
LEMMA ListsTyped ==
  ASSUME World
  PROVE  Lists(disk) \in Listing
<1>1. \A f \in File : Sections(f, disk) \subseteq Category
  BY DEF Sections, Category
<1>2. \A f \in Tracked : Sections(f, disk) \subseteq {"staged", "unstaged"}
  BY ChangesPanelAssumption DEF Sections
<1>3. \A f \in Untracked : Sections(f, disk) = {"untracked"}
  BY DEF Sections
<1> QED
  BY <1>1, <1>2, <1>3 DEF Lists, Listing, File

LEMMA TickTyped ==
  ASSUME NEW ticks \in SUBSET Line, NEW op \in Op
  PROVE  Tick(ticks, op) \subseteq Line
BY OpFacts DEF Tick

LEMMA FileDiff ==
  ASSUME World, NEW f \in Tracked
  PROVE  Fingerprint(f, disk) \in Diffs /\ Fingerprint(f, disk).path = f
         /\ Fingerprint(f, disk).text = disk[f].text
BY DEF World, Fingerprint, Diffs

(* A file changes on disk.                                                 *)
LEMMA Rewritten ==
  ASSUME World, NEW f \in Tracked
  PROVE  /\ \A ticks \in SUBSET Line :
              [disk EXCEPT ![f].staged = ticks] \in [Tracked -> [text : Text \cup {Clean}, staged : SUBSET Line]]
         /\ \A text \in Text \cup {Clean} :
              [disk EXCEPT ![f].text = text] \in [Tracked -> [text : Text \cup {Clean}, staged : SUBSET Line]]
<1> DEFINE Entry == [text : Text \cup {Clean}, staged : SUBSET Line]
<1>1. disk \in [Tracked -> Entry] /\ disk[f] \in Entry
  BY DEF World
<1>2. /\ \A ticks \in SUBSET Line : [disk[f] EXCEPT !.staged = ticks] \in Entry
      /\ \A text \in Text \cup {Clean} : [disk[f] EXCEPT !.text = text] \in Entry
  BY <1>1
<1> HIDE DEF Entry
<1>3. /\ \A ticks \in SUBSET Line : [disk EXCEPT ![f].staged = ticks] \in [Tracked -> Entry]
      /\ \A text \in Text \cup {Clean} : [disk EXCEPT ![f].text = text] \in [Tracked -> Entry]
  BY <1>1, <1>2
<1> QED
  BY <1>3 DEF Entry

LEMMA WorldStep ==
  ASSUME IInv, [Next]_vars
  PROVE  World'
<1> USE DEF IInv, lists
<1>w. World
  OBVIOUS
<1>p. panel \in PanelState /\ panel.drain \in DrainState
  BY PanelFacts DEF PanelOK
<1>0. CASE UNCHANGED vars
  BY <1>0 DEF vars, World
<1>1. ASSUME NEW lines \in (SUBSET Line) \ {{}}, RequestDiscard(lines) PROVE World'
  BY <1>1 DEF RequestDiscard, World
<1>2. ASSUME NEW lines \in (SUBSET Line) \ {{}}, NEW target \in {"stage", "unstage"}, ToggleLines(lines, target)
      PROVE  World'
  BY <1>2 DEF ToggleLines, World
<1>3. CASE ConfirmDiscard
  BY <1>3 DEF ConfirmDiscard, World
<1>4. CASE CancelDiscard
  BY <1>4 DEF CancelDiscard, World
<1>5. ASSUME NEW f \in File, NEW cat \in Category, Select(f, cat) PROVE World'
  BY <1>5 DEF Select, World
<1>6. CASE Reselect
  BY <1>6 DEF Reselect, World
<1>7. CASE AutoSelect
  BY <1>7 DEF AutoSelect, World
<1>8. ASSUME NEW f \in Tracked, NEW to \in {"staged", "unstaged"}, MoveFile(f, to) PROVE World'
  <2>1. changes' \in Listing
    <3>1. f \in File /\ f \notin Untracked /\ {to} \subseteq {"staged", "unstaged"} /\ {to} \subseteq Category
      BY ChangesPanelAssumption DEF File, Category
    <3>2. changes \in Listing /\ changes' = [changes EXCEPT ![f] = {to}]
      BY <1>8 DEF MoveFile, World
    <3>3. changes' \in [File -> SUBSET Category]
      BY <3>1, <3>2 DEF Listing
    <3>4. \A g \in File : changes'[g] = IF g = f THEN {to} ELSE changes[g]
      BY <3>2 DEF Listing
    <3>5. \A g \in Tracked : changes'[g] \subseteq {"staged", "unstaged"}
      BY <3>1, <3>2, <3>4 DEF Listing, File
    <3>6. \A g \in Untracked : changes'[g] = {"untracked"}
      BY <3>1, <3>2, <3>4 DEF Listing, File
    <3> QED
      BY <3>3, <3>5, <3>6 DEF Listing
  <2>2. [path |-> f, to |-> to, snapshot |-> changes, at |-> "sent"] \in Move
    BY DEF Move, World
  <2>3. ops' \subseteq Move
    BY <1>8, <2>2 DEF MoveFile, World
  <2> QED
    BY <1>8, <2>1, <2>3 DEF MoveFile, World
<1>9. CASE GitToggles
  <2>1. panel.drain \in Calling /\ panel.drain.op \in Op /\ panel.drain.op.path \in Tracked
        /\ panel.drain.op.text \in Text /\ panel.drain.print.text = panel.drain.op.text
    BY <1>9, <1>p, DrainFacts, CallFacts, OpFacts DEF GitToggles
  <2> DEFINE op == panel.drain.op
             ticks == Tick(disk[op.path].staged, op)
  <2>2. CASE Fresh(op.path, panel.drain.print)
    <3>1. disk' = [disk EXCEPT ![op.path].staged = ticks] /\ due' = TRUE
      BY <1>9, <2>2 DEF GitToggles
    <3>2. disk[op.path].text # Clean /\ ticks \in SUBSET Line
      BY <1>w, <2>1, <2>2, FileDiff, TickTyped, ChangesPanelAssumption DEF Fresh, World
    <3>3. disk' \in [Tracked -> [text : Text \cup {Clean}, staged : SUBSET Line]]
      BY <1>w, <2>1, <3>1, <3>2, Rewritten
    <3> HIDE DEF ticks, op
    <3>4. \A f \in Tracked : disk'[f].text = Clean => disk'[f].staged = {}
      BY <3>1, <3>2 DEF World
    <3> QED
      BY <1>9, <3>1, <3>3, <3>4 DEF GitToggles, World
  <2>3. CASE ~Fresh(op.path, panel.drain.print)
    BY <1>9, <2>3 DEF GitToggles, World
  <2> QED
    BY <2>2, <2>3
<1>10. CASE GitDiscards
  <2>1. panel.drain \in Calling /\ panel.drain.op \in Op /\ panel.drain.op.path \in Tracked
        /\ panel.drain.op.lines \subseteq Line
    BY <1>10, <1>p, DrainFacts, CallFacts, OpFacts DEF GitDiscards
  <2> DEFINE op == panel.drain.op
             goes == Fresh(op.path, panel.drain.print) /\ op.lines \cap disk[op.path].staged = {}
  <2>2. CASE goes
    <3>1. PICK t \in IF op.lines = Line THEN {Clean} ELSE Text \ {op.text} :
            disk' = [disk EXCEPT ![op.path].text = t]
      BY <1>10, <2>2 DEF GitDiscards
    <3>2. t \in Text \cup {Clean} /\ (t = Clean => op.lines = Line)
      BY ChangesPanelAssumption
    <3>3. t = Clean => disk[op.path].staged = {}
      BY <2>1, <2>2, <3>2 DEF World
    <3>4. due' = TRUE
      BY <1>10, <2>2 DEF GitDiscards
    <3>5. disk' \in [Tracked -> [text : Text \cup {Clean}, staged : SUBSET Line]]
      BY <1>w, <2>1, <3>1, <3>2, Rewritten
    <3> HIDE DEF op
    <3>6. \A f \in Tracked : disk'[f].text = Clean => disk'[f].staged = {}
      BY <3>1, <3>3 DEF World
    <3> QED
      BY <1>10, <3>4, <3>5, <3>6 DEF GitDiscards, World
  <2>3. CASE ~goes
    BY <1>10, <2>3 DEF GitDiscards, World
  <2> QED
    BY <2>2, <2>3
<1>11. CASE GitFails
  BY <1>11 DEF GitFails, World
<1>12. CASE OpAnswered
  BY <1>12 DEF OpAnswered, World
<1>13. ASSUME NEW op \in ops, GitMoves(op) PROVE World'
  <2>1. op \in Move /\ op.path \in Tracked /\ [op EXCEPT !.at = "ok"] \in Move /\ [op EXCEPT !.at = "error"] \in Move
    BY DEF Move, World
  <2>2. ops' \subseteq Move
    BY <1>13, <2>1 DEF GitMoves, World
  <2>3. /\ disk' \in [Tracked -> [text : Text \cup {Clean}, staged : SUBSET Line]]
        /\ \A f \in Tracked : disk'[f].text = Clean => disk'[f].staged = {}
    BY <1>13, <2>1 DEF GitMoves, World
  <2> QED
    BY <1>13, <2>2, <2>3 DEF GitMoves, World
<1>14. ASSUME NEW op \in ops, MoveAnswered(op) PROVE World'
  <2>1. op.snapshot \in Listing
    BY DEF Move, World
  <2> QED
    BY <1>14, <2>1 DEF MoveAnswered, World
<1>15. CASE ReadDiff
  BY <1>15 DEF ReadDiff, World
<1>16. CASE OwnReloadLands
  BY <1>16 DEF OwnReloadLands, World
<1>17. CASE OwnReloadSuperseded
  BY <1>17 DEF OwnReloadSuperseded, World
<1>18. CASE OwnReloadFails
  BY <1>18 DEF OwnReloadFails, World
<1>19. CASE LoadLands
  BY <1>19 DEF LoadLands, World
<1>20. CASE LiveReloadLands
  BY <1>20 DEF LiveReloadLands, World
<1>21. CASE FetchFails
  BY <1>21 DEF FetchFails, World
<1>22. CASE AskStatus
  BY <1>22 DEF AskStatus, World, StatusSet
<1>23. CASE ReadStatus
  <2>1. status' \in StatusSet
    BY <1>w, <1>23, ListsTyped DEF ReadStatus, StatusSet
  <2> QED
    BY <1>23, <2>1 DEF ReadStatus, World
<1>24. CASE StatusLands
  <2>1. status.lists \in Listing
    BY <1>24 DEF StatusLands, World, StatusSet
  <2> QED
    BY <1>24, <2>1 DEF StatusLands, World, StatusSet
<1>25. ASSUME NEW f \in Tracked, NEW text \in Text \cup {Clean}, ExternalEdit(f, text) PROVE World'
  <2>1. PICK s \in SUBSET disk[f].staged :
          (text = Clean => s = {}) /\ disk' = [disk EXCEPT ![f] = [text |-> text, staged |-> s]]
    BY <1>25 DEF ExternalEdit
  <2>2. /\ disk' \in [Tracked -> [text : Text \cup {Clean}, staged : SUBSET Line]]
        /\ \A g \in Tracked : disk'[g].text = Clean => disk'[g].staged = {}
    BY <2>1 DEF World
  <2> QED
    BY <1>25, <2>2 DEF ExternalEdit, World
<1>26. ASSUME NEW f \in Tracked, NEW s \in SUBSET Line, ExternalIndex(f, s) PROVE World'
  <2>1. /\ disk' \in [Tracked -> [text : Text \cup {Clean}, staged : SUBSET Line]]
        /\ \A g \in Tracked : disk'[g].text = Clean => disk'[g].staged = {}
    BY <1>26 DEF ExternalIndex, World
  <2> QED
    BY <1>26, <2>1 DEF ExternalIndex, World
<1> QED
  BY <1>0, <1>1, <1>2, <1>3, <1>4, <1>5, <1>6, <1>7, <1>8, <1>9, <1>10, <1>11, <1>12, <1>13, <1>14, <1>15,
     <1>16, <1>17, <1>18, <1>19, <1>20, <1>21, <1>22, <1>23, <1>24, <1>25, <1>26 DEF Next

-----------------------------------------------------------------------------
(* A gap stays open.                                                       *)
LEMMA Widen ==
  ASSUME NEW p, NEW s \in BOOLEAN, NEW f \in BOOLEAN, PanelOK(p, s, f),
         NEW t \in BOOLEAN, NEW g \in BOOLEAN, s => t, f => g
  PROVE  PanelOK(p, t, g)
BY DEF PanelOK, Worker, Fetching

(* What AppliesWhatWasSeen says of a step.                                 *)
Applies ==
  panel.drain.at = "calling" /\ panel'.drain.at = "ok" =>
    LET op == panel.drain.op
    IN disk[op.path].text = op.text /\ (op.shown = op.path \/ "stranded" \in gap)

Stranded == "stranded" \in gap
Failed   == "failed" \in gap
StepOK   == PanelOK(panel', Stranded', Failed') /\ Applies

(* The user ticks lines: the panel the worker is given.                    *)
LEMMA TickGiven ==
  ASSUME IInv, NEW lines \in (SUBSET Line) \ {{}}, NEW target \in {"stage", "unstage"},
         ToggleLines(lines, target)
  PROVE  /\ OnScreen(panel)
         /\ \E op \in Op, p \in PanelState :
              /\ op.kind = "toggle" /\ op.path = panel.selected.path /\ op.shown = panel.diff.path
              /\ p.diff.at = "ready" /\ p.diff.path = panel.diff.path /\ p.diff.print = panel.diff.print
              /\ p.queue = Append(panel.queue, op)
              /\ p.selected = panel.selected /\ p.gone = panel.gone /\ p.fetch = panel.fetch
              /\ p.drain = panel.drain /\ p.deferred = panel.deferred /\ p.dialog = None
              /\ p.syncDue = panel.syncDue
              /\ panel' = Drain(p)
<1> DEFINE op == [kind |-> "toggle", path |-> panel.selected.path, shown |-> panel.diff.path,
                  text |-> panel.diff.print.text, lines |-> lines, target |-> target]
           diff == [panel.diff EXCEPT !.ticks = Tick(@, op)]
           p == [panel EXCEPT !.diff = diff, !.queue = Append(@, op)]
<1>1. panel \in PanelState
  BY DEF IInv, PanelOK
<1>2. /\ panel.dialog = None /\ panel.selected # None /\ panel.selected.cat # "untracked"
      /\ panel.diff.at = "ready" /\ panel.diff.print.text # Clean
      /\ panel' = Drain(p)
  BY <1>1 DEF ToggleLines, OnScreen, Combined, PanelState
<1>3. /\ panel.selected.path \in Tracked /\ panel.diff \in DiffState /\ panel.diff.print \in Diffs
      /\ panel.diff.path = panel.diff.print.path /\ panel.queue \in Seq(Op)
      /\ panel.diff.ticks \subseteq Line
  BY <1>1, <1>2, PanelFacts, RowFacts, DiffFacts
<1>4. op \in Op /\ op.kind = "toggle"
  <2>1. panel.diff.path \in Tracked /\ panel.diff.print.text \in Text
    BY <1>2, <1>3 DEF Diffs
  <2> QED
    BY <1>3, <2>1 DEF Op, Toggle
<1>5. op.path = panel.selected.path /\ op.shown = panel.diff.path
  OBVIOUS
<1> HIDE DEF op
<1>6. diff \in DiffState /\ diff.at = "ready" /\ diff.path = panel.diff.path /\ diff.print = panel.diff.print
  BY <1>2, <1>3, <1>4, TickTyped, TickedFacts
<1> HIDE DEF diff
<1>7. /\ p \in PanelState /\ p.diff = diff /\ p.queue = Append(panel.queue, op)
      /\ p.selected = panel.selected /\ p.gone = panel.gone /\ p.fetch = panel.fetch
      /\ p.drain = panel.drain /\ p.deferred = panel.deferred /\ p.dialog = None
      /\ p.syncDue = panel.syncDue
  BY <1>1, <1>2, <1>3, <1>4, <1>6, QueueFacts DEF PanelState
<1> HIDE DEF p
<1>8. OnScreen(panel)
  BY DEF ToggleLines
<1> QED
  BY <1>2, <1>4, <1>5, <1>6, <1>7, <1>8

(* The user acts.                                                          *)
LEMMA ToggleStep ==
  ASSUME IInv, NEW lines \in (SUBSET Line) \ {{}}, NEW target \in {"stage", "unstage"},
         ToggleLines(lines, target)
  PROVE  StepOK
<1>1. /\ PanelOK(panel, Stranded, Failed) /\ panel \in PanelState /\ shared \in Listing
      /\ Stranded \in BOOLEAN /\ Failed \in BOOLEAN
  BY DEF IInv, World, PanelOK, Stranded, Failed
<1>2. /\ panel.selected # None /\ panel.selected.cat # "untracked"
      /\ panel.diff.at = "ready" /\ panel.diff.print.text # Clean
      /\ gap' = IF panel.drain.at \in {"refused", "again"} THEN gap \cup {"stranded"} ELSE gap
  BY DEF ToggleLines, OnScreen, Combined
<1>3. /\ panel.selected.path \in Tracked /\ panel.diff.print \in Diffs
      /\ panel.diff.path = panel.diff.print.path /\ panel.queue \in Seq(Op)
  BY <1>1, <1>2, PanelFacts, RowFacts, DiffFacts
<1>4. PICK op \in Op, p \in PanelState :
        /\ op.kind = "toggle" /\ op.path = panel.selected.path /\ op.shown = panel.diff.path
        /\ p.diff.at = "ready" /\ p.diff.path = panel.diff.path /\ p.diff.print = panel.diff.print
        /\ p.queue = Append(panel.queue, op)
        /\ p.selected = panel.selected /\ p.gone = panel.gone /\ p.fetch = panel.fetch
        /\ p.drain = panel.drain /\ p.deferred = panel.deferred /\ p.dialog = None
        /\ p.syncDue = panel.syncDue
        /\ panel' = Drain(p)
  BY TickGiven
<1>8. Fetching(p, Failed)
  BY <1>1, <1>4 DEF PanelOK, Fetching
<1>9. Crossed(p) <=> Crossed(panel)
  BY <1>2, <1>4 DEF Crossed
<1>10. Crossed(panel) <=> op.shown # op.path
  BY <1>2, <1>4 DEF Crossed
<1>11. \A i \in DOMAIN p.queue : (i \in DOMAIN panel.queue /\ p.queue[i] = panel.queue[i]) \/ p.queue[i] = op
  BY <1>3, <1>4, QueueFacts
<1>12. CASE panel.drain.at = "off"
  <2>1. gap' = gap
    BY <1>2, <1>12
  <2> DEFINE print == p.diff.print
  <2>2. Combined(p) /\ print \in Diffs /\ print.path = panel.diff.path
    BY <1>2, <1>3, <1>4 DEF Combined
  <2>3. panel' = NextOp(p, print)
    BY <1>4, <1>12, <2>2 DEF Drain
  <2>4. ~Stranded => Head(p.queue) = op /\ DOMAIN p.queue = {1}
    <3>1. ~Stranded => panel.queue = <<>>
      BY <1>1, <1>12 DEF PanelOK, Worker
    <3>2. panel.queue = <<>> => p.queue = <<op>>
      BY <1>4
    <3> QED
      BY <3>1, <3>2
  <2>5. Free(p, Failed) /\ Against(p, print)
    <3>1. panel.fetch.kind # "own"
      BY <1>1, <1>12 DEF PanelOK, Worker, Reading
    <3> QED
      BY <1>4, <1>8, <2>2, <3>1 DEF Free, Against
  <2> HIDE DEF print
  <2>6. PanelOK(panel', Stranded, Failed) /\ panel'.drain.at \in {"off", "calling", "refused"}
    <3>1. ~Stranded => \A i \in DOMAIN p.queue : i = 1
      BY <2>4
    <3>2. ~Stranded => Head(p.queue).kind = "toggle" /\ (Head(p.queue).shown # Head(p.queue).path => print.path # Head(p.queue).path)
      BY <1>4, <2>2, <2>4
    <3> QED
      BY <1>1, <2>3, <2>5, <3>1, <3>2, NextOpOK
  <2> QED
    BY <1>12, <2>1, <2>6 DEF StepOK, Applies, Stranded, Failed
<1>13. CASE panel.drain.at # "off"
  <2>1. panel' = p
    BY <1>4, <1>13 DEF Drain
  <2>2. Failed' = Failed /\ (Stranded => Stranded') /\ (panel.drain.at \in {"refused", "again"} => Stranded')
    BY <1>2 DEF Failed, Stranded
  <2>3. Worker(p, Stranded')
    BY <1>1, <1>4, <1>13, <2>2 DEF PanelOK, Worker, Reading
  <2>4. ~Stranded' => Seen(p)
    <3> SUFFICES ASSUME ~Stranded' PROVE Seen(p)
      OBVIOUS
    <3>1. Seen(panel)
      BY <1>1, <2>2 DEF PanelOK
    <3>2. Stuck(p) <=> Stuck(panel)
      BY <1>4 DEF Stuck
    <3>3. \A i \in DOMAIN p.queue : /\ p.queue[i].kind = "toggle"
                                    /\ p.queue[i].shown # p.queue[i].path => Stuck(p)
      BY <1>4, <1>10, <1>11, <3>1, <3>2 DEF Seen
    <3> QED
      BY <1>4, <1>9, <3>1, <3>2, <3>3 DEF Seen
  <2>5. PanelOK(p, Stranded', Failed')
    BY <1>4, <1>8, <2>2, <2>3, <2>4 DEF PanelOK
  <2> QED
    BY <1>4, <2>1, <2>5 DEF StepOK, Applies
<1> QED
  BY <1>12, <1>13

(* The user confirms a discard: the panel the worker is given.             *)
LEMMA DiscardGiven ==
  ASSUME IInv, ConfirmDiscard
  PROVE  /\ panel.drain.at = "off" /\ panel.dialog \in DialogState
         /\ \E op \in Op, p \in PanelState :
              /\ op.kind = "discard" /\ op.path = panel.dialog.path /\ op.print = panel.dialog.print
              /\ p.queue = Append(panel.queue, op) /\ p.dialog = None /\ p.diff = panel.diff
              /\ p.selected = panel.selected /\ p.gone = panel.gone /\ p.fetch = panel.fetch
              /\ p.drain = panel.drain /\ p.deferred = panel.deferred /\ p.syncDue = panel.syncDue
              /\ panel' = NextOp(p, IF Combined(p) THEN p.diff.print ELSE None)
<1> DEFINE dialog == panel.dialog
           op == [kind |-> "discard", path |-> dialog.path, shown |-> dialog.shown,
                  text |-> dialog.print.text, lines |-> dialog.lines, print |-> dialog.print]
           p == [panel EXCEPT !.dialog = None, !.queue = Append(@, op)]
<1>1. PanelOK(panel, Stranded, Failed) /\ panel \in PanelState
  BY DEF IInv, PanelOK, Stranded, Failed
<1>2. panel.dialog # None /\ panel' = Drain(p)
  BY <1>1 DEF ConfirmDiscard
<1>3. panel.drain.at = "off" /\ panel.dialog \in DialogState /\ panel.queue \in Seq(Op)
  BY <1>1, <1>2, PanelFacts DEF PanelOK, Worker
<1>4. op \in Op /\ op.kind = "discard"
  BY <1>3, DialogFacts DEF Op, Discard
<1>5. op.path = panel.dialog.path /\ op.print = panel.dialog.print
  OBVIOUS
<1> HIDE DEF op
<1>6. /\ p \in PanelState /\ p.queue = Append(panel.queue, op) /\ p.dialog = None /\ p.diff = panel.diff
      /\ p.selected = panel.selected /\ p.gone = panel.gone /\ p.fetch = panel.fetch
      /\ p.drain = panel.drain /\ p.deferred = panel.deferred /\ p.syncDue = panel.syncDue
  BY <1>1, <1>3, <1>4, QueueFacts DEF PanelState
<1> HIDE DEF p
<1>7. panel' = NextOp(p, IF Combined(p) THEN p.diff.print ELSE None)
  BY <1>2, <1>3, <1>6 DEF Drain
<1> QED
  BY <1>3, <1>4, <1>5, <1>6, <1>7

LEMMA ConfirmStep ==
  ASSUME IInv, ConfirmDiscard
  PROVE  StepOK
<1>1. /\ PanelOK(panel, Stranded, Failed) /\ panel \in PanelState /\ shared \in Listing
      /\ Stranded \in BOOLEAN /\ Failed \in BOOLEAN
  BY DEF IInv, World, PanelOK, Stranded, Failed
<1>2. gap' = gap /\ panel.dialog # None
  BY DEF ConfirmDiscard
<1>3. panel.drain.at = "off"
  BY DiscardGiven
<1>4. PICK op \in Op, p \in PanelState :
        /\ op.kind = "discard" /\ op.path = panel.dialog.path /\ op.print = panel.dialog.print
        /\ p.queue = Append(panel.queue, op) /\ p.dialog = None /\ p.diff = panel.diff
        /\ p.selected = panel.selected /\ p.gone = panel.gone /\ p.fetch = panel.fetch
        /\ p.drain = panel.drain /\ p.deferred = panel.deferred /\ p.syncDue = panel.syncDue
        /\ panel' = NextOp(p, IF Combined(p) THEN p.diff.print ELSE None)
  BY DiscardGiven
<1> DEFINE print == IF Combined(p) THEN p.diff.print ELSE None
<1>7. panel' = NextOp(p, print)
  BY <1>4
<1>8. Free(p, Failed) /\ Against(p, print)
  <2>1. panel.fetch.kind # "own"
    BY <1>1, <1>3 DEF PanelOK, Worker, Reading
  <2>2. Fetching(p, Failed)
    BY <1>1, <1>4 DEF PanelOK, Fetching
  <2>3. Combined(p) => p.diff.print \in Diffs
    BY <1>1, <1>4, PanelFacts, DiffFacts DEF Combined
  <2> QED
    BY <1>4, <2>1, <2>2, <2>3 DEF Free, Against
<1>9. ~Stranded => Head(p.queue) = op /\ DOMAIN p.queue = {1}
  <2>1. ~Stranded => panel.queue = <<>>
    BY <1>1, <1>3 DEF PanelOK, Worker
  <2>2. panel.queue = <<>> => p.queue = <<op>>
    BY <1>4
  <2> QED
    BY <2>1, <2>2
<1>10. ~Stranded /\ Crossed(p) => op.print.path # op.path
  <2>1. Crossed(p) <=> Crossed(panel)
    BY <1>4 DEF Crossed
  <2> QED
    BY <1>1, <1>2, <1>4, <2>1 DEF PanelOK, Seen
<1> HIDE DEF print
<1>11. PanelOK(panel', Stranded, Failed)
  <2>1. ~Stranded => \A i \in DOMAIN p.queue : i = 1
    BY <1>9
  <2>2. ~Stranded => Head(p.queue).kind = "discard" /\ (Crossed(p) => Head(p.queue).print.path # Head(p.queue).path)
    BY <1>4, <1>9, <1>10
  <2> QED
    BY <1>1, <1>7, <1>8, <2>1, <2>2, NextOpOK
<1> QED
  BY <1>2, <1>3, <1>11 DEF StepOK, Applies, Stranded, Failed

LEMMA UserStep ==
  ASSUME IInv,
         \/ \E lines \in (SUBSET Line) \ {{}} :
              RequestDiscard(lines) \/ \E target \in {"stage", "unstage"} : ToggleLines(lines, target)
         \/ ConfirmDiscard \/ CancelDiscard
         \/ \E f \in File, cat \in Category : Select(f, cat)
         \/ Reselect \/ AutoSelect
         \/ \E f \in Tracked, to \in {"staged", "unstaged"} : MoveFile(f, to)
  PROVE  StepOK
<1>0. /\ PanelOK(panel, Stranded, Failed) /\ panel \in PanelState /\ shared \in Listing /\ changes \in Listing
      /\ Stranded \in BOOLEAN /\ Failed \in BOOLEAN
  BY DEF IInv, World, PanelOK, Stranded, Failed
<1>s. ASSUME gap' = gap, PanelOK(panel', Stranded, Failed), panel'.drain = panel.drain PROVE StepOK
  BY <1>s DEF StepOK, Applies, Stranded, Failed
<1>1. ASSUME NEW lines \in (SUBSET Line) \ {{}}, RequestDiscard(lines) PROVE StepOK
  <2>1. CASE panel.drain.at # "off"
    <3> DEFINE q == [panel EXCEPT !.deferred = lines]
    <3>1. panel' = q /\ gap' = gap
      BY <1>1, <2>1 DEF RequestDiscard
    <3>2. /\ q \in PanelState /\ q.selected = panel.selected /\ q.diff = panel.diff /\ q.fetch = panel.fetch
          /\ q.queue = panel.queue /\ q.drain = panel.drain /\ q.dialog = panel.dialog
          /\ q.syncDue = panel.syncDue
      BY <1>0 DEF PanelState
    <3> HIDE DEF q
    <3>3. Worker(q, Stranded) /\ Fetching(q, Failed)
      BY <1>0, <2>1, <3>2 DEF PanelOK, Worker, Reading, Fetching
    <3>4. ~Stranded => Seen(q)
      BY <1>0, <3>2 DEF PanelOK, Seen, Crossed, Stuck
    <3> QED
      BY <1>s, <3>1, <3>2, <3>3, <3>4 DEF PanelOK
  <2>2. CASE panel.drain.at = "off"
    BY <1>0, <1>1, <1>s, <2>2, OpenDialogOK DEF RequestDiscard
  <2> QED
    BY <2>1, <2>2
<1>2. ASSUME NEW lines \in (SUBSET Line) \ {{}}, NEW target \in {"stage", "unstage"}, ToggleLines(lines, target)
      PROVE  StepOK
  BY <1>2, ToggleStep
<1>3. CASE ConfirmDiscard
  BY <1>3, ConfirmStep
<1>4. CASE CancelDiscard
  <2> DEFINE q == [panel EXCEPT !.dialog = None]
  <2>1. panel' = q /\ gap' = gap
    BY <1>4 DEF CancelDiscard
  <2>2. /\ q \in PanelState /\ q.selected = panel.selected /\ q.diff = panel.diff /\ q.fetch = panel.fetch
        /\ q.queue = panel.queue /\ q.drain = panel.drain /\ q.dialog = None
        /\ q.syncDue = panel.syncDue /\ q.deferred = panel.deferred
    BY <1>0 DEF PanelState
  <2> HIDE DEF q
  <2>3. Worker(q, Stranded) /\ Fetching(q, Failed)
    BY <1>0, <2>2 DEF PanelOK, Worker, Reading, Fetching
  <2>4. ~Stranded => Seen(q)
    BY <1>0, <2>2 DEF PanelOK, Seen, Crossed, Stuck
  <2> QED
    BY <1>s, <2>1, <2>2, <2>3, <2>4 DEF PanelOK
<1>5. ASSUME NEW f \in File, NEW cat \in Category, Select(f, cat) PROVE StepOK
  <2>1. [cat |-> cat, path |-> f] \in Row
    BY <1>0, <1>5, ListingFacts DEF Select
  <2>2. panel' = SelectFile(panel, [cat |-> cat, path |-> f]) /\ gap' = gap
    BY <1>5 DEF Select
  <2> QED
    BY <1>0, <1>s, <2>1, <2>2, SelectOK
<1>6. CASE Reselect
  <2> DEFINE q == Clear([panel EXCEPT !.selected = None])
  <2>1. panel' = q /\ gap' = gap
    BY <1>6 DEF Reselect
  <2>2. /\ q \in PanelState /\ q.selected = None /\ q.diff = NoDiff /\ q.fetch = NoFetch
        /\ q.queue = panel.queue /\ q.drain = panel.drain /\ q.dialog = panel.dialog
        /\ q.syncDue = panel.syncDue /\ q.deferred = panel.deferred
    BY <1>0, DiffFacts, FetchFacts DEF Clear, PanelState
  <2> HIDE DEF q
  <2>3. Worker(q, Stranded) /\ Fetching(q, Failed)
    BY <1>0, <2>2, DiffFacts, FetchFacts DEF PanelOK, Worker, Fetching
  <2>4. ~Stranded => Seen(q)
    BY <1>0, <2>2, DiffFacts DEF PanelOK, Seen, Crossed, Stuck
  <2> QED
    BY <1>s, <2>1, <2>2, <2>3, <2>4 DEF PanelOK
<1>7. CASE AutoSelect
  <2>0. PICK f \in File : \E cat \in changes[f] : panel' = SelectFile(panel, [cat |-> cat, path |-> f])
    BY <1>7 DEF AutoSelect
  <2>1. PICK cat \in changes[f] : panel' = SelectFile(panel, [cat |-> cat, path |-> f])
    BY <2>0
  <2>2. [cat |-> cat, path |-> f] \in Row
    BY <1>0, <2>1, ListingFacts
  <2>3. gap' = gap
    BY <1>7 DEF AutoSelect
  <2> QED
    BY <1>0, <1>s, <2>1, <2>2, <2>3, SelectOK
<1>8. ASSUME NEW f \in Tracked, NEW to \in {"staged", "unstaged"}, MoveFile(f, to) PROVE StepOK
  BY <1>0, <1>8, <1>s DEF MoveFile
<1> QED
  BY <1>1, <1>2, <1>3, <1>4, <1>5, <1>6, <1>7, <1>8

-----------------------------------------------------------------------------
(* git answers, and what it reads lands.                                   *)

(* The call that is out succeeds, if it was made against the file's diff.  *)
LEMMA SucceedsOK ==
  ASSUME IInv, panel.drain.at = "calling", Fresh(panel.drain.op.path, panel.drain.print),
         panel' = [panel EXCEPT !.drain = [at |-> "ok", target |-> @.target, op |-> panel.drain.op]],
         gap' = gap
  PROVE  StepOK
<1> DEFINE op == panel.drain.op
           d  == [at |-> "ok", target |-> panel.drain.target, op |-> op]
<1>1. /\ PanelOK(panel, Stranded, Failed) /\ panel \in PanelState /\ World
      /\ Stranded \in BOOLEAN /\ Failed \in BOOLEAN
  BY DEF IInv, World, PanelOK, Stranded, Failed
<1>2. panel.drain \in Calling /\ op \in Op /\ op.path \in Tracked /\ panel.drain.print.text = op.text
      /\ panel.drain.target \in TrackedRow
  BY <1>1, PanelFacts, DrainFacts, CallFacts, OpFacts
<1>3. panel.drain.print.path = op.path /\ disk[op.path].text = op.text
  BY <1>1, <1>2, FileDiff DEF Fresh
<1>4. d \in DrainState /\ d.at = "ok" /\ d.op = op
  BY <1>2, DrainFacts
<1> HIDE DEF d
<1>5. /\ panel' \in PanelState /\ panel'.selected = panel.selected /\ panel'.diff = panel.diff
      /\ panel'.fetch = panel.fetch /\ panel'.queue = panel.queue /\ panel'.drain = d
      /\ panel'.dialog = panel.dialog
  <2>1. panel' = [panel EXCEPT !.drain = d]
    BY <1>1 DEF d, PanelState
  <2> QED
    BY <1>1, <1>4, <2>1 DEF PanelState
<1>6. ~Stuck(panel)
  BY <1>3 DEF Stuck
<1>7. Worker(panel', Stranded) /\ Fetching(panel', Failed)
  BY <1>1, <1>4, <1>5 DEF PanelOK, Worker, Reading, Fetching
<1>8. ~Stranded => Seen(panel') /\ op.shown = op.path
  BY <1>1, <1>4, <1>5, <1>6 DEF PanelOK, Seen, Crossed
<1> QED
  BY <1>3, <1>5, <1>7, <1>8 DEF StepOK, Applies, PanelOK, Stranded, Failed

LEMMA FailsOK ==
  ASSUME IInv, panel.drain.at = "calling",
         panel' = [panel EXCEPT !.drain = [at |-> "error", target |-> @.target, op |-> panel.drain.op]],
         gap' = gap
  PROVE  StepOK
<1> DEFINE d == [at |-> "error", target |-> panel.drain.target, op |-> panel.drain.op]
<1>1. /\ PanelOK(panel, Stranded, Failed) /\ panel \in PanelState
      /\ Stranded \in BOOLEAN /\ Failed \in BOOLEAN
  BY DEF IInv, PanelOK, Stranded, Failed
<1>2. d \in DrainState /\ d.at = "error"
  BY <1>1, PanelFacts, DrainFacts
<1> HIDE DEF d
<1>3. /\ panel' \in PanelState /\ panel'.selected = panel.selected /\ panel'.diff = panel.diff
      /\ panel'.fetch = panel.fetch /\ panel'.queue = panel.queue /\ panel'.drain = d
      /\ panel'.dialog = panel.dialog
  <2>1. panel' = [panel EXCEPT !.drain = d]
    BY <1>1 DEF d, PanelState
  <2> QED
    BY <1>1, <1>2, <2>1 DEF PanelState
<1>4. Worker(panel', Stranded) /\ Fetching(panel', Failed)
  BY <1>1, <1>2, <1>3 DEF PanelOK, Worker, Reading, Fetching
<1>5. ~Stranded => Seen(panel')
  <2>1. Stuck(panel') /\ panel'.dialog = None
    BY <1>1, <1>2, <1>3 DEF PanelOK, Worker, Stuck
  <2> QED
    BY <1>1, <1>2, <1>3, <2>1 DEF PanelOK, Seen
<1> QED
  BY <1>2, <1>3, <1>4, <1>5 DEF StepOK, Applies, PanelOK, Stranded, Failed

LEMMA OpAnsweredStep ==
  ASSUME IInv, OpAnswered
  PROVE  StepOK
<1> DEFINE drain == panel.drain
<1>1. /\ PanelOK(panel, Stranded, Failed) /\ panel \in PanelState
      /\ Stranded \in BOOLEAN /\ Failed \in BOOLEAN
  BY DEF IInv, PanelOK, Stranded, Failed
<1>2. drain.at \in {"ok", "error"} /\ gap' = gap /\ drain.target \in TrackedRow
  BY <1>1, PanelFacts, DrainFacts DEF OpAnswered
<1>3. panel.dialog = None
  BY <1>1, <1>2 DEF PanelOK, Worker
<1>4. CASE drain.at = "ok"
  <2> DEFINE d == [at |-> "reloading", target |-> drain.target]
  <2>1. panel' = Reload([panel EXCEPT !.drain = d], drain.target, "own")
    BY <1>4 DEF OpAnswered
  <2>2. d \in DrainState /\ d.at = "reloading" /\ d.target = drain.target
    BY <1>2, DrainFacts
  <2> HIDE DEF d
  <2>3. /\ panel' \in PanelState /\ panel'.selected = panel.selected /\ panel'.diff = panel.diff
        /\ panel'.fetch = [at |-> "asked", kind |-> "own", sel |-> drain.target]
        /\ panel'.queue = panel.queue /\ panel'.drain = d /\ panel'.dialog = None
    BY <1>1, <1>2, <1>3, <2>1, <2>2, FetchFacts DEF Reload, PanelState, Kind
  <2>4. Worker(panel', Stranded) /\ Fetching(panel', Failed)
    BY <2>2, <2>3 DEF Worker, Reading, Fetching
  <2>5. ~Stranded => Seen(panel')
    BY <1>1, <1>4, <2>2, <2>3 DEF PanelOK, Seen, Crossed, Stuck
  <2> QED
    BY <1>2, <2>3, <2>4, <2>5 DEF StepOK, Applies, PanelOK, Stranded, Failed
<1>5. CASE drain.at = "error"
  <2> DEFINE d == [at |-> "failed", target |-> drain.target]
  <2>1. panel' = Reload([panel EXCEPT !.queue = <<>>, !.drain = d], drain.target, "own")
    BY <1>5 DEF OpAnswered
  <2>2. d \in DrainState /\ d.at = "failed" /\ d.target = drain.target
    BY <1>2, DrainFacts
  <2> HIDE DEF d
  <2>3. /\ panel' \in PanelState /\ panel'.selected = panel.selected /\ panel'.diff = panel.diff
        /\ panel'.fetch = [at |-> "asked", kind |-> "own", sel |-> drain.target]
        /\ panel'.queue = <<>> /\ panel'.drain = d /\ panel'.dialog = None
    BY <1>1, <1>2, <1>3, <2>1, <2>2, FetchFacts, QueueFacts, PanelFacts DEF Reload, PanelState, Kind
  <2>4. Worker(panel', Stranded) /\ Fetching(panel', Failed)
    BY <2>2, <2>3 DEF Worker, Reading, Fetching
  <2>5. ~Stranded => Seen(panel')
    BY <2>2, <2>3, QueueFacts DEF Seen, Stuck
  <2> QED
    BY <1>2, <2>3, <2>4, <2>5 DEF StepOK, Applies, PanelOK, Stranded, Failed
<1> QED
  BY <1>2, <1>4, <1>5

LEMMA GitStep ==
  ASSUME IInv, GitToggles \/ GitDiscards \/ GitFails \/ OpAnswered
  PROVE  StepOK
<1>1. CASE GitToggles
  <2>1. CASE Fresh(panel.drain.op.path, panel.drain.print)
    BY <1>1, <2>1, SucceedsOK DEF GitToggles
  <2>2. CASE ~Fresh(panel.drain.op.path, panel.drain.print)
    BY <1>1, <2>2, FailsOK DEF GitToggles
  <2> QED
    BY <2>1, <2>2
<1>2. CASE GitDiscards
  <2> DEFINE goes == /\ Fresh(panel.drain.op.path, panel.drain.print)
                     /\ panel.drain.op.lines \cap disk[panel.drain.op.path].staged = {}
  <2>1. CASE goes
    BY <1>2, <2>1, SucceedsOK DEF GitDiscards
  <2>2. CASE ~goes
    BY <1>2, <2>2, FailsOK DEF GitDiscards
  <2> QED
    BY <2>1, <2>2
<1>3. CASE GitFails
  <2>1. panel.drain.at = "calling" /\ gap' = gap
        /\ panel' = [panel EXCEPT !.drain = [at |-> "error", target |-> @.target, op |-> @.op]]
    BY <1>3 DEF GitFails
  <2>2. panel' = [panel EXCEPT !.drain = [at |-> "error", target |-> @.target, op |-> panel.drain.op]]
    BY <2>1 DEF IInv, PanelOK, PanelState
  <2> QED
    BY <2>1, <2>2, FailsOK
<1>4. CASE OpAnswered
  BY <1>4, OpAnsweredStep
<1> QED
  BY <1>1, <1>2, <1>3, <1>4

(* What is on screen, once a fetch has ended, is the selected file's.      *)
LEMMA ShowsOK ==
  ASSUME NEW p, NEW s \in BOOLEAN, NEW f \in BOOLEAN, PanelOK(p, s, f), NEW g \in BOOLEAN, f => g,
         NEW d \in DiffState,
         d.at = "loading" => g,
         d = p.diff \/ (d.at = "ready" => d.path = p.selected.path)
  PROVE  PanelOK([p EXCEPT !.fetch = NoFetch, !.diff = d], s, g)
<1> DEFINE q == [p EXCEPT !.fetch = NoFetch, !.diff = d]
<1>1. /\ q \in PanelState /\ q.selected = p.selected /\ q.diff = d /\ q.fetch = NoFetch
      /\ q.queue = p.queue /\ q.drain = p.drain /\ q.dialog = p.dialog /\ q.deferred = p.deferred
      /\ q.syncDue = p.syncDue
  BY FetchFacts DEF PanelOK, PanelState
<1> HIDE DEF q
<1>2. Worker(q, s) /\ Fetching(q, g)
  BY <1>1, FetchFacts DEF PanelOK, Worker, Reading, Fetching
<1>3. Stuck(q) <=> Stuck(p)
  BY <1>1 DEF Stuck
<1>4. Crossed(q) => Crossed(p)
  BY <1>1 DEF Crossed
<1>5. ~s => Seen(q)
  BY <1>1, <1>3, <1>4 DEF PanelOK, Seen
<1> QED
  BY <1>1, <1>2, <1>5 DEF PanelOK, q

(* What the worker finds when its reload has ended.                        *)
LEMMA WorkerGoesOn ==
  ASSUME IInv, Awaiting, NEW p, NEW print, Free(p, Failed), Against(p, print),
         p.queue = panel.queue, p.drain = panel.drain, panel' = Resume(p, print),
         Stranded => Stranded', Failed' = Failed
  PROVE  StepOK
<1>1. /\ PanelOK(panel, Stranded, Failed) /\ shared \in Listing
      /\ Stranded \in BOOLEAN /\ Failed \in BOOLEAN /\ Stranded' \in BOOLEAN
  BY DEF IInv, World, Stranded, Failed
<1>2. Reading(p)
  BY DEF Awaiting, Reading
<1>3. p.drain.at \in {"refused", "again"} => p.queue = <<>> \/ Stranded
  BY <1>1 DEF PanelOK, Worker
<1>4. ~Stranded /\ p.drain.at = "reloading" =>
        \A i \in DOMAIN p.queue : p.queue[i].kind = "toggle" /\ p.queue[i].shown = p.queue[i].path
  BY <1>1 DEF PanelOK, Seen, Stuck
<1>5. PanelOK(panel', Stranded, Failed)
  BY <1>1, <1>2, <1>3, <1>4, ResumeOK
<1>6. PanelOK(panel', Stranded', Failed')
  BY <1>1, <1>5, Widen
<1> QED
  BY <1>6 DEF StepOK, Applies, Awaiting

LEMMA OwnReloadStep ==
  ASSUME IInv, OwnReloadLands \/ OwnReloadSuperseded \/ OwnReloadFails
  PROVE  StepOK
<1>1. /\ PanelOK(panel, Stranded, Failed) /\ panel \in PanelState
      /\ Stranded \in BOOLEAN /\ Failed \in BOOLEAN
  BY DEF IInv, PanelOK, Stranded, Failed
<1>2. Awaiting /\ panel.dialog = None
  BY <1>1 DEF OwnReloadLands, OwnReloadSuperseded, OwnReloadFails, Awaiting, PanelOK, Worker
<1>3. CASE OwnReloadLands
  <2> DEFINE print == panel.fetch.print
             d     == Ready(print, Overlaid(panel, print))
             shown == [panel EXCEPT !.fetch = NoFetch, !.diff = d]
             left  == Clear([shown EXCEPT !.selected = None])
  <2>1. panel.fetch.at = "answered" /\ print \in Diffs
    BY <1>1, <1>3, PanelFacts, FetchFacts DEF OwnReloadLands
  <2>2. Overlaid(panel, print) \in SUBSET Line
    BY DEF Overlaid
  <2>3. d \in DiffState /\ d.at = "ready" /\ d.print = print
    BY <2>1, <2>2, DiffFacts
  <2>4. Stranded' = Stranded /\ Failed' = Failed
    BY <1>3 DEF OwnReloadLands, Stranded, Failed
  <2>5. \/ panel' = Resume(left, None)
        \/ panel' = Resume(shown, IF print.text = Clean THEN None ELSE print)
    BY <1>3 DEF OwnReloadLands
  <2> HIDE DEF d, print
  <2>6. /\ shown \in PanelState /\ shown.diff = d /\ shown.fetch = NoFetch /\ shown.dialog = None
        /\ shown.queue = panel.queue /\ shown.drain = panel.drain
    BY <1>1, <1>2, <2>3, FetchFacts DEF PanelState
  <2>7. /\ left \in PanelState /\ left.diff = NoDiff /\ left.fetch = NoFetch /\ left.dialog = None
        /\ left.queue = panel.queue /\ left.drain = panel.drain
    BY <2>6, FetchFacts, DiffFacts DEF PanelState, Clear
  <2> HIDE DEF shown, left
  <2>8. Free(left, Failed) /\ Against(left, None)
    BY <2>7, FetchFacts, DiffFacts DEF Free, Fetching, Against
  <2>9. Free(shown, Failed)
    BY <2>3, <2>6, FetchFacts DEF Free, Fetching
  <2>10. Against(shown, IF print.text = Clean THEN None ELSE print)
    BY <2>1, <2>3, <2>6 DEF Against, Combined
  <2> QED
    BY <1>2, <2>4, <2>5, <2>6, <2>7, <2>8, <2>9, <2>10, WorkerGoesOn
<1>4. CASE OwnReloadSuperseded
  <2>1. panel' = Resume(panel, None) /\ Failed' = Failed /\ (Stranded => Stranded')
    BY <1>4 DEF OwnReloadSuperseded, Stranded, Failed
  <2>2. Free(panel, Failed) /\ Against(panel, None)
    BY <1>1, <1>2, <1>4 DEF OwnReloadSuperseded, Free, Against, PanelOK
  <2> QED
    BY <1>2, <2>1, <2>2, WorkerGoesOn
<1>5. CASE OwnReloadFails
  <2> DEFINE d == [at |-> "error", path |-> panel.fetch.sel.path]
             q == [panel EXCEPT !.fetch = NoFetch, !.diff = d]
  <2>1. panel' = Resume(q, None) /\ Failed' = Failed /\ Stranded' = Stranded
    BY <1>5 DEF OwnReloadFails, Stranded, Failed
  <2>2. panel.fetch.sel.path \in Tracked
    BY <1>1, <1>5, PanelFacts, FetchFacts, RowFacts DEF OwnReloadFails
  <2>3. d \in DiffState /\ d.at = "error"
    BY <2>2, DiffFacts
  <2> HIDE DEF d
  <2>4. /\ q \in PanelState /\ q.diff = d /\ q.fetch = NoFetch /\ q.dialog = None
        /\ q.queue = panel.queue /\ q.drain = panel.drain
    BY <1>1, <1>2, <2>3, FetchFacts DEF PanelState
  <2> HIDE DEF q
  <2>5. Free(q, Failed) /\ Against(q, None)
    BY <2>3, <2>4, FetchFacts DEF Free, Fetching, Against
  <2> QED
    BY <1>2, <2>1, <2>4, <2>5, WorkerGoesOn
<1> QED
  BY <1>3, <1>4, <1>5

LEMMA FetchStep ==
  ASSUME IInv, ReadDiff \/ LoadLands \/ LiveReloadLands \/ FetchFails
  PROVE  StepOK
<1>1. /\ PanelOK(panel, Stranded, Failed) /\ panel \in PanelState /\ World
      /\ Stranded \in BOOLEAN /\ Failed \in BOOLEAN /\ Failed' \in BOOLEAN
  BY DEF IInv, PanelOK, Stranded, Failed
<1>2. panel.diff \in DiffState /\ panel.fetch \in FetchState
  BY <1>1, PanelFacts
<1>s. ASSUME Stranded' = Stranded, PanelOK(panel', Stranded, Failed'), panel'.drain = panel.drain
      PROVE  StepOK
  BY <1>s DEF StepOK, Applies
<1>3. CASE ReadDiff
  <2> DEFINE a == [at |-> "answered", kind |-> panel.fetch.kind, sel |-> panel.fetch.sel,
                   print |-> Fingerprint(panel.fetch.sel.path, disk)]
  <2>1. panel.fetch.kind \in Kind /\ panel.fetch.sel \in TrackedRow /\ panel.fetch.sel.path \in Tracked
    BY <1>2, <1>3, FetchFacts, RowFacts DEF ReadDiff
  <2>2. a \in FetchState /\ a.at = "answered" /\ a.kind = panel.fetch.kind /\ a.sel = panel.fetch.sel
    BY <1>1, <2>1, FileDiff, FetchFacts
  <2>3. panel' = [panel EXCEPT !.fetch = a] /\ gap' = gap
    BY <1>1, <1>3 DEF ReadDiff, PanelState
  <2> HIDE DEF a
  <2>4. /\ panel' \in PanelState /\ panel'.selected = panel.selected /\ panel'.diff = panel.diff
        /\ panel'.fetch = a /\ panel'.queue = panel.queue /\ panel'.drain = panel.drain
        /\ panel'.dialog = panel.dialog /\ panel'.deferred = panel.deferred
        /\ panel'.syncDue = panel.syncDue
    BY <1>1, <2>2, <2>3 DEF PanelState
  <2>5. Worker(panel', Stranded) /\ Fetching(panel', Failed)
    BY <1>1, <2>2, <2>4 DEF PanelOK, Worker, Reading, Fetching
  <2>6. ~Stranded => Seen(panel')
    BY <1>1, <2>4 DEF PanelOK, Seen, Crossed, Stuck
  <2>7. Stranded' = Stranded /\ Failed' = Failed
    BY <2>3 DEF Stranded, Failed
  <2> QED
    BY <1>s, <2>4, <2>5, <2>6, <2>7 DEF PanelOK
<1>4. CASE LoadLands
  <2> DEFINE d == Ready(panel.fetch.print, panel.fetch.print.staged)
  <2>1. /\ panel.fetch.print \in Diffs /\ panel.fetch.print.path = panel.selected.path
    BY <1>1, <1>2, <1>4, FetchFacts DEF LoadLands, PanelOK, Fetching
  <2>2. d \in DiffState /\ d.at = "ready" /\ d.path = panel.selected.path
    <3>1. panel.fetch.print.staged \in SUBSET Line
      BY <2>1 DEF Diffs
    <3> QED
      BY <2>1, <3>1, DiffFacts
  <2>3. panel' = [panel EXCEPT !.fetch = NoFetch, !.diff = d] /\ gap' = gap
    BY <1>4 DEF LoadLands
  <2>4. Stranded' = Stranded /\ Failed' = Failed
    BY <2>3 DEF Stranded, Failed
  <2> HIDE DEF d
  <2>5. PanelOK(panel', Stranded, Failed)
    BY <1>1, <2>2, <2>3, ShowsOK
  <2>6. panel'.drain = panel.drain
    BY <1>1, <2>3 DEF PanelState
  <2> QED
    BY <1>s, <2>4, <2>5, <2>6
<1>5. CASE LiveReloadLands
  <2> DEFINE print == panel.fetch.print
             same  == panel.diff.at = "ready" /\ panel.diff.print = print
             d     == IF same THEN panel.diff ELSE Ready(print, Overlaid(panel, print))
             shown == [panel EXCEPT !.fetch = NoFetch, !.diff = d]
             left  == [shown EXCEPT !.gone = TRUE]
  <2>1. print \in Diffs /\ print.path = panel.selected.path
    BY <1>1, <1>2, <1>5, FetchFacts DEF LiveReloadLands, PanelOK, Fetching
  <2>2. d \in DiffState /\ d.at = "ready" /\ d.path = panel.selected.path
    <3>1. Overlaid(panel, print) \in SUBSET Line
      BY DEF Overlaid
    <3> QED
      BY <1>2, <2>1, <3>1, DiffFacts
  <2>3. gap' = gap /\ (panel' = shown \/ panel' = Clear(left))
    <3>1. shown = IF same THEN [panel EXCEPT !.fetch = NoFetch]
                  ELSE [panel EXCEPT !.fetch = NoFetch, !.diff = Ready(print, Overlaid(panel, print))]
      BY <1>1 DEF PanelState
    <3> HIDE DEF shown
    <3>2. panel' = IF panel.selected = panel.fetch.sel /\ print.text = Clean
                   THEN Clear([shown EXCEPT !.gone = TRUE]) ELSE shown
      BY <1>5, <3>1 DEF LiveReloadLands
    <3> QED
      BY <1>5, <3>2 DEF LiveReloadLands
  <2> HIDE DEF d
  <2>4. PanelOK(shown, Stranded, Failed) /\ shown.drain = panel.drain
    <3>1. PanelOK(shown, Stranded, Failed)
      BY <1>1, <2>2, ShowsOK
    <3>2. shown.drain = panel.drain
      BY <1>1 DEF PanelState
    <3> QED
      BY <3>1, <3>2
  <2> HIDE DEF shown
  <2>5. PanelOK(left, Stranded, Failed) /\ left.drain = panel.drain
    <3>1. /\ left \in PanelState /\ left.selected = shown.selected /\ left.diff = shown.diff
          /\ left.fetch = shown.fetch /\ left.queue = shown.queue /\ left.drain = shown.drain
          /\ left.dialog = shown.dialog /\ left.deferred = shown.deferred /\ left.syncDue = shown.syncDue
      BY <2>4 DEF PanelOK, PanelState
    <3> HIDE DEF left
    <3>2. Worker(left, Stranded) /\ Fetching(left, Failed)
      BY <2>4, <3>1 DEF PanelOK, Worker, Reading, Fetching
    <3>3. ~Stranded => Seen(left)
      BY <2>4, <3>1 DEF PanelOK, Seen, Crossed, Stuck
    <3> QED
      BY <2>4, <3>1, <3>2, <3>3 DEF PanelOK
  <2> HIDE DEF left
  <2>6. PanelOK(panel', Stranded, Failed) /\ panel'.drain = panel.drain
    BY <1>1, <2>3, <2>4, <2>5, ClearOK
  <2>7. Stranded' = Stranded /\ Failed' = Failed
    BY <2>3 DEF Stranded, Failed
  <2> QED
    BY <1>s, <2>6, <2>7
<1>6. CASE FetchFails
  <2> DEFINE d == IF panel.fetch.kind = "live" THEN panel.diff
                  ELSE [at |-> "error", path |-> panel.fetch.sel.path]
  <2>1. /\ Stranded' = Stranded /\ (Failed => Failed')
        /\ panel.fetch.kind = "live" => Failed'
    BY <1>6 DEF FetchFails, Stranded, Failed
  <2>2. panel' = [panel EXCEPT !.fetch = NoFetch, !.diff = d]
    <3>1. [panel EXCEPT !.fetch = NoFetch, !.diff = panel.diff] = [panel EXCEPT !.fetch = NoFetch]
      BY <1>1 DEF PanelState
    <3> QED
      BY <1>6, <3>1 DEF FetchFails
  <2>3. d \in DiffState /\ (d = panel.diff \/ d.at = "error") /\ (panel.fetch.kind # "live" => d.at = "error")
    BY <1>2, <1>6, FetchFacts, RowFacts, DiffFacts DEF FetchFails
  <2> HIDE DEF d
  <2>4. PanelOK(panel', Stranded, Failed')
    BY <1>1, <2>1, <2>2, <2>3, ShowsOK
  <2>5. panel'.drain = panel.drain
    BY <1>1, <2>2 DEF PanelState
  <2> QED
    BY <1>s, <2>1, <2>4, <2>5
<1> QED
  BY <1>3, <1>4, <1>5, <1>6

(* The list is read, and others write.                                     *)
LEMMA ListStep ==
  ASSUME IInv,
         \/ \E op \in ops : GitMoves(op) \/ MoveAnswered(op)
         \/ AskStatus \/ ReadStatus \/ StatusLands
         \/ \E f \in Tracked : \/ \E text \in Text \cup {Clean} : ExternalEdit(f, text)
                               \/ \E s \in SUBSET Line : ExternalIndex(f, s)
         \/ UNCHANGED vars
  PROVE  StepOK
<1>1. /\ PanelOK(panel, Stranded, Failed) /\ World
      /\ Stranded \in BOOLEAN /\ Failed \in BOOLEAN /\ Stranded' \in BOOLEAN /\ Failed' \in BOOLEAN
  BY DEF IInv, Stranded, Failed
<1>2. CASE StatusLands
  <2>1. status.lists \in Listing /\ panel' = Sync(panel, status.lists)
    BY <1>1, <1>2 DEF StatusLands, World, StatusSet
  <2>2. Stranded' = Stranded /\ Failed' = Failed
    BY <1>2 DEF StatusLands, Stranded, Failed
  <2>3. PanelOK(panel', Stranded, Failed) /\ panel'.drain = panel.drain
    BY <1>1, <2>1, SyncOK
  <2> QED
    BY <2>2, <2>3 DEF StepOK, Applies
<1>3. CASE ~StatusLands
  <2>1. panel' = panel /\ gap \subseteq gap'
    BY <1>3 DEF GitMoves, MoveAnswered, AskStatus, ReadStatus, ExternalEdit, ExternalIndex, vars
  <2>2. (Stranded => Stranded') /\ (Failed => Failed')
    BY <2>1 DEF Stranded, Failed
  <2>3. PanelOK(panel', Stranded', Failed')
    BY <1>1, <2>1, <2>2, Widen
  <2> QED
    BY <2>1, <2>3 DEF StepOK, Applies
<1> QED
  BY <1>2, <1>3

-----------------------------------------------------------------------------
LEMMA InitOK == Init => IInv
<1> SUFFICES ASSUME Init PROVE IInv
  OBVIOUS
<1>1. /\ disk \in [Tracked -> [text : Text \cup {Clean}, staged : SUBSET Line]]
      /\ \A f \in Tracked : disk[f].text = Clean => disk[f].staged = {}
  BY ChangesPanelAssumption DEF Init
<1>2. Lists(disk) \in Listing
  <2>1. \A f \in File : Sections(f, disk) \subseteq Category
    BY DEF Sections, Category
  <2>2. \A f \in Tracked : Sections(f, disk) \subseteq {"staged", "unstaged"}
    BY ChangesPanelAssumption DEF Sections
  <2>3. \A f \in Untracked : Sections(f, disk) = {"untracked"}
    BY DEF Sections
  <2> QED
    BY <2>1, <2>2, <2>3 DEF Lists, Listing, File
<1>3. World
  BY <1>1, <1>2 DEF Init, World, StatusSet
<1>4. /\ panel \in PanelState /\ panel.selected = None /\ panel.diff = NoDiff /\ panel.fetch = NoFetch
      /\ panel.queue = <<>> /\ panel.drain = Off /\ panel.deferred = {} /\ panel.dialog = None
      /\ panel.syncDue = FALSE
  <2>1. <<>> \in Seq(Op)
    OBVIOUS
  <2> QED
    BY <2>1, DiffFacts, FetchFacts, DrainFacts DEF Init, PanelState
<1>5. Worker(panel, Stranded) /\ Fetching(panel, Failed)
  BY <1>4, DiffFacts, FetchFacts, DrainFacts DEF Worker, Fetching
<1>6. Seen(panel)
  BY <1>4, DrainFacts DEF Seen, Crossed
<1> QED
  BY <1>3, <1>4, <1>5, <1>6 DEF IInv, PanelOK, Stranded, Failed

LEMMA NextOK ==
  ASSUME IInv, [Next]_vars
  PROVE  IInv' /\ Applies
<1>1. World'
  BY WorldStep
<1>2. StepOK
  BY UserStep, GitStep, OwnReloadStep, FetchStep, ListStep DEF Next
<1> QED
  BY <1>1, <1>2 DEF StepOK, IInv, Stranded, Failed

(* What the worker, the fetches and the diff owe each other holds in every *)
(* state, whatever is selected, edited or refused in between.              *)
THEOREM Invariance == Spec => []IInv
<1>1. IInv /\ [Next]_vars => IInv'
  BY NextOK
<1> QED
  BY <1>1, InitOK, PTL DEF Spec

(* The types, and that the worker leaves no put-off request and no queued  *)
(* tick behind, but for the ones made while a refusal was shown            *)
(* (useChangesPanel.ts, the queue's drain and onDrainEnded).               *)
THEOREM TypeCorrect == Spec => []TypeOK
<1>1. IInv => TypeOK
  <2> SUFFICES ASSUME IInv PROVE TypeOK
    OBVIOUS
  <2>1. World /\ panel \in PanelState /\ Worker(panel, "stranded" \in gap) /\ Fetching(panel, "failed" \in gap)
    BY DEF IInv, PanelOK
  <2>2. /\ {shared, changes} \subseteq [File -> SUBSET Category]
        /\ status \in [at : {"idle", "asked"}] \cup [at : {"answered"}, lists : [File -> SUBSET Category]]
    BY <2>1, ListingTyped DEF World, StatusSet
  <2>3. \A op \in ops : op.path \in Tracked /\ op.at \in {"sent", "ok", "error"}
    BY <2>1 DEF World, Move
  <2>4. /\ panel.selected \in Row \cup {None} /\ panel.diff \in DiffState /\ panel.queue \in Seq(Op)
        /\ panel.drain \in DrainState
    BY <2>1, PanelFacts
  <2>5. panel.selected \in Selection \cup {None}
    BY <2>4, RowFacts
  <2>6. panel.queue \in Seq(Toggle \cup Discard)
    BY <2>4, OpFacts
  <2>7. panel.diff.at = "ready" => panel.diff.print \in Diffs /\ panel.diff.ticks \subseteq Line
    BY <2>4, DiffFacts
  <2>8. panel.drain.at \in {"calling", "ok", "error"} => panel.drain.op \in Toggle \cup Discard
    BY <2>4, DrainFacts, OpFacts
  <2> QED
    BY <2>1, <2>2, <2>3, <2>5, <2>6, <2>7, <2>8 DEF TypeOK, World, Worker, Fetching
<1> QED
  BY <1>1, Invariance, PTL

(* git changes the rows the user ticked and no others: what succeeds was   *)
(* made on the diff of the file it changes, with the rows it still has     *)
(* (useChangesPanel.ts, layoutSignature and the fingerprint of the call).  *)
THEOREM SeenApplied == Spec => AppliesWhatWasSeen
<1>1. IInv /\ [Next]_vars =>
        [panel.drain.at = "calling" /\ panel'.drain.at = "ok" =>
           LET op == panel.drain.op
           IN disk[op.path].text = op.text /\ (op.shown = op.path \/ "stranded" \in gap)]_vars
  BY NextOK DEF Applies
<1> QED
  BY <1>1, Invariance, PTL DEF Spec, AppliesWhatWasSeen

-----------------------------------------------------------------------------
(* Settling on the disk.  A worker at rest or a read to come look at the   *)
(* disk again; what the end of the last look leaves on screen is true.     *)
Looking == due \/ status.at # "idle" \/ panel.drain.at # "off"

(* The list that was read last, or the one on its way, is of the disk.     *)
ListComes ==
  \/ due \/ status.at = "asked"
  \/ IF status.at = "answered" THEN status.lists = Lists(disk) ELSE shared = Lists(disk)
OverlayComes == changes = shared \/ ops # {} \/ due \/ status.at # "idle"

(* The queue and the dialog are of the selected file.                      *)
Own(p) ==
  /\ p.selected # None => \A i \in DOMAIN p.queue : p.queue[i].path = p.selected.path
  /\ p.dialog # None => p.selected # None /\ p.dialog.path = p.selected.path

(* A file that is gone shows nothing, and waits for nothing but the worker.*)
Hidden(p) == p.gone /\ p.selected # None => ~Combined(p) /\ p.fetch.kind \notin {"load", "live"}

(* The ticks are git's, once no call is out and none is waiting.           *)
Plain(p)  == OnScreen(p) => p.diff.ticks = p.diff.print.staged
Ticked(p) ==
  p.drain.at \notin {"calling", "ok", "error"} /\ p.fetch.kind # "own" /\ p.queue = <<>> => Plain(p)

Honest(p) == Own(p) /\ Hidden(p) /\ Ticked(p)

(* With the list sh, the panel says what is on disk, or is about to.       *)
UpToDate(p, sh) ==
  /\ p.gone /\ p.selected # None => sh[p.selected.path] = {}
  /\ OnScreen(p) => p.diff.print = Fingerprint(p.selected.path, disk) \/ p.fetch.at # "idle"
  /\ p.fetch.at = "answered" => p.fetch.print = Fingerprint(p.fetch.sel.path, disk)

Settling ==
  gap = {} => /\ ListComes /\ OverlayComes
              /\ Honest(panel)
              /\ Looking \/ UpToDate(panel, shared)

(* What selecting a row does to a panel.                                   *)
LEMMA SelectFacts ==
  ASSUME NEW p \in PanelState, NEW sel
  PROVE  LET q == SelectFile(p, sel) IN
         /\ q.selected = sel /\ q.gone = FALSE /\ q.dialog = p.dialog /\ q.drain = p.drain
         /\ \/ Sibling(p, sel) /\ q.queue = p.queue /\ q.diff = p.diff /\ q.fetch = p.fetch
            \/ /\ ~Sibling(p, sel) /\ q.queue = <<>> /\ q.diff.at # "ready"
               /\ q.fetch.at # "answered" /\ q.fetch.kind # "own"
<1>1. CASE Sibling(p, sel)
  BY <1>1 DEF SelectFile, PanelState
<1>2. CASE ~Sibling(p, sel) /\ sel.cat = "untracked"
  BY <1>2 DEF SelectFile, Clear, Leave, PanelState, NoDiff, NoFetch
<1>3. CASE ~Sibling(p, sel) /\ sel.cat # "untracked"
  BY <1>3 DEF SelectFile, Load, Leave, PanelState
<1> QED
  BY <1>1, <1>2, <1>3

LEMMA SelectHonest ==
  ASSUME NEW p \in PanelState, Honest(p), NEW sel \in Row,
         p.dialog # None => p.selected # None /\ sel.path = p.selected.path
  PROVE  /\ Honest(SelectFile(p, sel))
         /\ \A sh : (Sibling(p, sel) => UpToDate(p, sh)) => UpToDate(SelectFile(p, sel), sh)
<1> DEFINE q == SelectFile(p, sel)
<1>1. sel # None
  BY DEF Row, TrackedRow, None
<1>2. /\ q.selected = sel /\ q.gone = FALSE /\ q.dialog = p.dialog /\ q.drain = p.drain
      /\ \/ Sibling(p, sel) /\ q.queue = p.queue /\ q.diff = p.diff /\ q.fetch = p.fetch
         \/ /\ ~Sibling(p, sel) /\ q.queue = <<>> /\ q.diff.at # "ready"
            /\ q.fetch.at # "answered" /\ q.fetch.kind # "own"
  BY SelectFacts
<1> HIDE DEF q
<1>3. CASE Sibling(p, sel)
  <2>1. OnScreen(p) /\ sel.path = p.selected.path
    BY <1>3 DEF Sibling, OnScreen
  <2>2. Own(q) /\ Hidden(q)
    BY <1>1, <1>2, <1>3, <2>1 DEF Honest, Own, Hidden, OnScreen
  <2>3. Ticked(q)
    BY <1>2, <1>3, <2>1 DEF Honest, Ticked, Plain
  <2>4. ASSUME NEW sh, UpToDate(p, sh) PROVE UpToDate(q, sh)
    BY <1>2, <1>3, <2>1, <2>4 DEF UpToDate
  <2> QED
    BY <1>3, <2>2, <2>3, <2>4 DEF Honest, q
<1>4. CASE ~Sibling(p, sel)
  <2>1. Own(q) /\ Hidden(q)
    BY <1>1, <1>2, <1>4 DEF Honest, Own, Hidden
  <2>2. ~OnScreen(q)
    BY <1>2, <1>4 DEF OnScreen, Combined
  <2>3. Ticked(q)
    BY <2>2 DEF Ticked, Plain
  <2>4. \A sh : UpToDate(q, sh)
    BY <1>2, <1>4, <2>2 DEF UpToDate
  <2> QED
    BY <2>1, <2>3, <2>4 DEF Honest, q
<1> QED
  BY <1>3, <1>4

(* A reload of the selected file, of whichever row.                        *)
LEMMA LiveHonest ==
  ASSUME NEW p \in PanelState, Honest(p), p.drain.at = "off", p.fetch.kind # "own", ~p.gone,
         p.selected \in TrackedRow, NEW row \in TrackedRow, row.path = p.selected.path
  PROVE  LET q == Reload([p EXCEPT !.selected = row], row, "live")
         IN Honest(q) /\ \A sh : UpToDate(q, sh)
<1> DEFINE q == Reload([p EXCEPT !.selected = row], row, "live")
<1>1. /\ q.selected = row /\ q.gone = FALSE /\ q.dialog = p.dialog /\ q.drain = p.drain
      /\ q.queue = p.queue /\ q.diff = p.diff /\ q.fetch = [at |-> "asked", kind |-> "live", sel |-> row]
  BY DEF Reload, PanelState
<1> HIDE DEF q
<1>2. row # None /\ p.selected # None /\ row.cat # "untracked" /\ p.selected.cat # "untracked"
  BY DEF TrackedRow, None
<1>3. OnScreen(q) => OnScreen(p)
  BY <1>1, <1>2 DEF OnScreen, Combined
<1>4. Own(q) /\ Hidden(q)
  BY <1>1, <1>2 DEF Honest, Own, Hidden
<1>5. Ticked(q)
  BY <1>1, <1>3 DEF Honest, Ticked, Plain
<1>6. \A sh : UpToDate(q, sh)
  BY <1>1 DEF UpToDate
<1> QED
  BY <1>4, <1>5, <1>6 DEF Honest, q

LEMMA SyncHonest ==
  ASSUME NEW p \in PanelState, Honest(p), Fetching(p, FALSE), p.drain.at = "off" => p.fetch.kind # "own",
         NEW sh \in Listing
  PROVE  /\ Honest(Sync(p, sh))
         /\ p.drain.at = "off" /\ ~Skipped(p, sh) => UpToDate(Sync(p, sh), sh)
<1> DEFINE sel == p.selected
           rows == sh[sel.path]
           R(cat) == [cat |-> cat, path |-> sel.path]
           q == Sync(p, sh)
           Goal == Honest(q) /\ (p.drain.at = "off" /\ ~Skipped(p, sh) => UpToDate(q, sh))
<1>0. /\ sel \in Row \cup {None} /\ p.fetch \in FetchState
      /\ p.gone \in BOOLEAN
  BY PanelFacts
<1>1. p.fetch.at = "answered" /\ p.drain.at = "off" => /\ p.fetch.kind \in {"load", "live"} /\ sel # None
                                 /\ p.fetch.sel \in TrackedRow /\ p.fetch.sel.path = sel.path
  BY <1>0, FetchFacts DEF Fetching, Kind
<1>2. CASE sel = None
  <2>1. q = p
    BY <1>2 DEF Sync
  <2> QED
    BY <1>1, <1>2, <2>1 DEF UpToDate, OnScreen
<1>3. CASE sel # None /\ p.drain.at # "off"
  <2>1. q = [p EXCEPT !.syncDue = TRUE]
    BY <1>3 DEF Sync
  <2>2. /\ q.selected = p.selected /\ q.diff = p.diff /\ q.fetch = p.fetch /\ q.gone = p.gone
        /\ q.queue = p.queue /\ q.drain = p.drain /\ q.dialog = p.dialog
    BY <2>1 DEF PanelState
  <2> HIDE DEF q
  <2>3. Own(q) /\ Hidden(q)
    BY <2>2 DEF Honest, Own, Hidden, Combined
  <2>4. Ticked(q)
    BY <2>2 DEF Honest, Ticked, Plain, OnScreen, Combined
  <2> QED
    BY <1>3, <2>3, <2>4 DEF Honest, q
<1>4. ASSUME sel # None, p.drain.at = "off" PROVE Goal
  <2>1. sel \in Row /\ sel.path \in File
    BY <1>0, <1>4, RowFacts
  <2>2. /\ \A c \in rows : R(c) \in Row /\ R(c).path = sel.path
        /\ \A c \in rows : sel.path \in Tracked => c # "untracked"
    BY <2>1, ListingFacts
  <2>3. sel.path \in Tracked \/ (sel.path \in Untracked /\ rows = {"untracked"} /\ sel.cat = "untracked")
    BY <2>1, ChangesPanelAssumption DEF Listing, Row, TrackedRow
  <2>4. CASE p.gone
    <3>1. ~Combined(p) /\ p.fetch.at # "answered"
      BY <1>1, <1>4, <2>4 DEF Honest, Hidden
    <3>2. CASE rows = {}
      <4>1. q = p
        BY <1>4, <2>4, <3>2 DEF Sync
      <4> HIDE DEF q
      <4> QED
        BY <3>1, <3>2, <4>1 DEF UpToDate, OnScreen
    <3>3. CASE rows # {}
      <4>1. PICK c \in rows : q = SelectFile(p, R(c))
        BY <1>4, <2>4, <3>3 DEF Sync
      <4>2. ~Sibling(p, R(c))
        BY <3>1 DEF Sibling
      <4>3. R(c) \in Row /\ R(c).path = sel.path
        BY <2>2
      <4> HIDE DEF q, R
      <4> QED
        BY <1>4, <4>1, <4>2, <4>3, SelectHonest
    <3> QED
      BY <3>2, <3>3
  <2>5. CASE ~p.gone /\ rows = {}
    <3>1. q = Clear([p EXCEPT !.gone = TRUE, !.queue = <<>>, !.deferred = {}, !.dialog = None])
      BY <1>4, <2>5 DEF Sync
    <3>2. /\ q.selected = p.selected /\ q.diff = NoDiff /\ q.fetch = NoFetch
          /\ q.queue = <<>> /\ q.dialog = None
      BY <3>1 DEF Clear, PanelState
    <3> HIDE DEF q
    <3>3. ~Combined(q)
      BY <3>2 DEF Combined, NoDiff
    <3>4. Own(q) /\ Hidden(q) /\ Ticked(q)
      BY <3>2, <3>3 DEF Own, Hidden, Ticked, Plain, OnScreen, NoFetch
    <3> QED
      BY <2>5, <3>2, <3>3, <3>4 DEF Honest, UpToDate, OnScreen, NoFetch
  <2>6. CASE ~p.gone /\ rows # {} /\ sel.cat \notin rows
    <3>1. PICK c \in rows : q = Reload([p EXCEPT !.selected = R(c)], R(c), "live")
      BY <1>4, <2>6 DEF Sync
    <3>2. R(c) \in TrackedRow /\ R(c).path = sel.path
      BY <2>2, <2>3, <2>6, RowFacts
    <3>3. sel \in TrackedRow
      BY <2>1, <2>3, <2>6, ChangesPanelAssumption DEF Row, TrackedRow
    <3> HIDE DEF q, R
    <3> QED
      BY <1>4, <2>6, <3>1, <3>2, <3>3, LiveHonest
  <2>7. CASE ~p.gone /\ sel.cat \in rows /\ sel.cat # "untracked" /\ p.diff.at = "ready"
    <3>1. q = Reload(p, sel, "live") /\ [p EXCEPT !.selected = sel] = p
      BY <1>4, <2>7 DEF Sync, PanelState
    <3>2. sel \in TrackedRow
      BY <2>1, <2>7, RowFacts
    <3> HIDE DEF q
    <3> QED
      BY <1>4, <2>7, <3>1, <3>2, LiveHonest
  <2>8. CASE ~p.gone /\ sel.cat \in rows /\ ~(sel.cat # "untracked" /\ p.diff.at = "ready")
    <3>1. q = p
      BY <1>4, <2>8 DEF Sync
    <3>2. ~OnScreen(p)
      BY <2>8 DEF OnScreen, Combined
    <3>3. p.fetch.at = "answered" => sel.cat # "untracked"
      BY <1>1, <1>4, <2>1, ChangesPanelAssumption, RowFacts DEF Row, TrackedRow
    <3>4. ~Skipped(p, sh) => p.fetch.at # "answered"
      BY <1>4, <2>8, <3>3 DEF Skipped
    <3> HIDE DEF q
    <3> QED
      BY <2>8, <3>1, <3>2, <3>4 DEF UpToDate
  <2> QED
    BY <2>4, <2>5, <2>6, <2>7, <2>8
<1> QED
  BY <1>2, <1>3, <1>4

(* Opening the dialog changes nothing else.                                *)
LEMMA OpenDialogHonest ==
  ASSUME NEW p \in PanelState, Own(p), NEW lines
  PROVE  LET q == OpenDialog(p, lines) IN
         /\ q.selected = p.selected /\ q.gone = p.gone /\ q.diff = p.diff /\ q.fetch = p.fetch
         /\ q.queue = p.queue /\ q.drain = p.drain /\ q.deferred = p.deferred /\ q.syncDue = p.syncDue
         /\ Own(q)
<1> DEFINE q == OpenDialog(p, lines)
<1>1. CASE ~(OnScreen(p) /\ lines \ p.diff.ticks # {})
  BY <1>1 DEF OpenDialog
<1>2. CASE OnScreen(p) /\ lines \ p.diff.ticks # {}
  <2>1. q = [p EXCEPT !.dialog = [path |-> p.selected.path, shown |-> p.diff.path, print |-> p.diff.print,
                                  lines |-> lines \ p.diff.ticks]]
    BY <1>2 DEF OpenDialog
  <2>2. /\ q.selected = p.selected /\ q.gone = p.gone /\ q.diff = p.diff /\ q.fetch = p.fetch
        /\ q.queue = p.queue /\ q.drain = p.drain /\ q.deferred = p.deferred /\ q.syncDue = p.syncDue
        /\ q.dialog.path = p.selected.path
    BY <2>1 DEF PanelState
  <2> HIDE DEF q
  <2>3. Own(q)
    BY <1>2, <2>2 DEF Own, OnScreen
  <2> QED
    BY <2>2, <2>3 DEF q
<1> QED
  BY <1>1, <1>2

(* What a worker that gives the panel back leaves, ...                     *)
LEMMA EndsHonest ==
  ASSUME NEW p, Free(p, FALSE), Own(p), Hidden(p), Plain(p), shared \in Listing
  PROVE  Honest(DrainEnds(p))
<1> DEFINE r == Rest(p)
           asked == IF p.deferred = {} THEN r ELSE OpenDialog(r, p.deferred)
<1>1. /\ r \in PanelState /\ r.selected = p.selected /\ r.diff = p.diff /\ r.fetch = p.fetch
      /\ r.gone = p.gone /\ r.queue = p.queue /\ r.drain = Off /\ r.dialog = None
  BY DrainFacts DEF Free, Rest, PanelState
<1>2. p.deferred \in SUBSET Line
  BY PanelFacts DEF Free
<1> HIDE DEF r
<1>3. Own(r)
  BY <1>1 DEF Free, Own
<1>4. /\ asked.selected = p.selected /\ asked.diff = p.diff /\ asked.fetch = p.fetch
      /\ asked.gone = p.gone /\ asked.queue = p.queue /\ asked.drain = Off /\ Own(asked)
  BY <1>1, <1>3, OpenDialogHonest
<1>5. asked \in PanelState
  <2>1. r.deferred = {} /\ ~r.syncDue
    BY DEF Free, Rest, PanelState, r
  <2>2. PanelOK(r, TRUE, FALSE)
    BY <1>1, <2>1, DrainFacts DEF Free, PanelOK, Worker, Fetching
  <2> QED
    BY <1>1, <1>2, <2>2, OpenDialogOK, DrainFacts DEF PanelOK
<1>6. DrainEnds(p) = IF p.syncDue THEN Sync(asked, shared) ELSE asked
  BY DEF DrainEnds, r
<1> HIDE DEF asked
<1>7. Honest(asked) /\ Fetching(asked, FALSE) /\ asked.fetch.kind # "own"
  BY <1>4 DEF Honest, Hidden, Ticked, Plain, OnScreen, Combined, Free, Fetching
<1> QED
  BY <1>5, <1>6, <1>7, SyncHonest

(* ... takes from its queue, ...                                           *)
LEMMA NextHonest ==
  ASSUME NEW p, NEW print, Free(p, FALSE), Against(p, print), Own(p), Hidden(p),
         p.queue = <<>> => Plain(p),
         print = None => p.queue = <<>> \/ ~OnScreen(p),
         shared \in Listing
  PROVE  Honest(NextOp(p, print))
<1> DEFINE op == Head(p.queue)
           e  == [p EXCEPT !.queue = <<>>]
<1>0. p \in PanelState /\ p.queue \in Seq(Op)
  BY PanelFacts DEF Free
<1>1. CASE p.queue = <<>>
  BY <1>1, EndsHonest DEF NextOp
<1>2. ASSUME p.queue # <<>>, p.selected = None \/ p.selected.path # op.path \/ print = None
      PROVE  Honest(NextOp(p, print))
  <2>1. NextOp(p, print) = DrainEnds(e)
    BY <1>2 DEF NextOp
  <2>2. /\ e \in PanelState /\ e.selected = p.selected /\ e.diff = p.diff /\ e.fetch = p.fetch
        /\ e.gone = p.gone /\ e.dialog = p.dialog /\ e.queue = <<>>
    BY <1>0, QueueFacts DEF PanelState
  <2>3. ~OnScreen(p)
    <3>1. p.selected # None => p.selected.path = op.path
      BY <1>0, <1>2, QueueFacts DEF Own
    <3> QED
      BY <1>2, <3>1 DEF OnScreen
  <2> HIDE DEF e, op
  <2>4. Free(e, FALSE) /\ Hidden(e) /\ Plain(e)
    BY <2>2, <2>3 DEF Free, Fetching, Hidden, Plain, OnScreen, Combined
  <2>5. Own(e)
    BY <2>2, QueueFacts DEF Own, Free
  <2> QED
    BY <2>1, <2>4, <2>5, EndsHonest
<1>3. ASSUME p.queue # <<>>, ~(p.selected = None \/ p.selected.path # op.path \/ print = None)
      PROVE  Honest(NextOp(p, print))
  <2>1. CASE op.kind = "toggle" /\ ~RowsUnmoved(p, op)
    <3> DEFINE q == Reload([p EXCEPT !.queue = <<>>, !.drain = [at |-> "refused", target |-> p.selected]],
                           p.selected, "own")
    <3>1. NextOp(p, print) = q
      BY <1>3, <2>1 DEF NextOp
    <3>2. /\ q.selected = p.selected /\ q.diff = p.diff /\ q.gone = p.gone /\ q.dialog = None
          /\ q.fetch.kind = "own" /\ q.queue = <<>>
      BY <1>0 DEF Free, Reload, PanelState
    <3> HIDE DEF q
    <3> QED
      BY <3>1, <3>2, QueueFacts DEF Honest, Own, Hidden, Ticked, Combined
  <2>2. CASE ~(op.kind = "toggle" /\ ~RowsUnmoved(p, op))
    <3> DEFINE d == [at |-> "calling", target |-> p.selected, op |-> op,
                     print |-> IF op.kind = "toggle" THEN print ELSE op.print]
               q == [p EXCEPT !.queue = Tail(p.queue), !.drain = d]
    <3>1. NextOp(p, print) = q
      BY <1>3, <2>2 DEF NextOp
    <3>2. d.at = "calling"
      OBVIOUS
    <3> HIDE DEF d
    <3>3. /\ q.selected = p.selected /\ q.diff = p.diff /\ q.gone = p.gone /\ q.dialog = None
          /\ q.fetch = p.fetch /\ q.queue = Tail(p.queue) /\ q.drain.at = "calling"
      BY <1>0, <3>2 DEF Free, PanelState
    <3> HIDE DEF q
    <3>4. \A i \in DOMAIN q.queue : q.queue[i] = p.queue[i + 1] /\ i + 1 \in DOMAIN p.queue
      BY <1>0, <1>3, <3>3, QueueFacts
    <3>5. Own(q)
      BY <3>3, <3>4 DEF Own
    <3> QED
      BY <3>1, <3>3, <3>5 DEF Honest, Hidden, Ticked, Combined
  <2> QED
    BY <2>1, <2>2
<1> QED
  BY <1>1, <1>2, <1>3

(* ... and does when its reload has ended.                                 *)
LEMMA ResumeHonest ==
  ASSUME NEW p, NEW print, Free(p, FALSE), Against(p, print), Own(p), Hidden(p), Reading(p),
         p.queue = <<>> => Plain(p),
         p.drain.at = "reloading" /\ print = None => p.queue = <<>> \/ ~OnScreen(p),
         p.drain.at \in {"refused", "again"} => p.queue = <<>>,
         shared \in Listing
  PROVE  Honest(Resume(p, print))
<1>0. p \in PanelState
  BY DEF Free
<1>1. CASE p.drain.at = "reloading"
  <2>1. Resume(p, print) = NextOp(p, print)
    BY <1>1 DEF Resume
  <2> QED
    BY <1>1, <2>1, NextHonest
<1>2. CASE p.drain.at = "failed" /\ p.queue # <<>>
  <2> DEFINE q == Reload([p EXCEPT !.queue = <<>>, !.drain.at = "again"], p.drain.target, "own")
  <2>1. Resume(p, print) = q
    BY <1>2 DEF Resume
  <2>2. /\ q.selected = p.selected /\ q.diff = p.diff /\ q.gone = p.gone /\ q.dialog = None
        /\ q.fetch.kind = "own" /\ q.queue = <<>>
    BY <1>0 DEF Free, Reload, PanelState
  <2> HIDE DEF q
  <2> QED
    BY <2>1, <2>2, QueueFacts DEF Honest, Own, Hidden, Ticked, Combined
<1>3. CASE p.drain.at # "reloading" /\ ~(p.drain.at = "failed" /\ p.queue # <<>>)
  <2>1. Resume(p, print) = DrainEnds(p) /\ p.queue = <<>>
    BY <1>3 DEF Resume, Reading
  <2> QED
    BY <2>1, EndsHonest
<1> QED
  BY <1>1, <1>2, <1>3

(* A worker that starts and finds nothing to do has changed nothing that   *)
(* is shown.                                                               *)
LEMMA StartsStill ==
  ASSUME NEW p \in PanelState, p.deferred = {}, ~p.syncDue, NEW print, NEW sh, UpToDate(p, sh)
  PROVE  NextOp(p, print).drain.at = "off" => UpToDate(NextOp(p, print), sh)
<1> DEFINE op == Head(p.queue)
           Still(q) == /\ q.selected = p.selected /\ q.gone = p.gone /\ q.diff = p.diff
                       /\ q.fetch = p.fetch
<1>1. ASSUME NEW q \in PanelState, Still(q), q.deferred = {}, ~q.syncDue
      PROVE  UpToDate(DrainEnds(q), sh)
  <2>1. DrainEnds(q) = Rest(q)
    <3>1. Rest(q).deferred = {} /\ ~Rest(q).syncDue
      BY <1>1 DEF Rest, PanelState
    <3> QED
      BY <1>1, <3>1 DEF DrainEnds
  <2>2. Still(Rest(q))
    BY <1>1 DEF Rest, PanelState
  <2> QED
    BY <2>1, <2>2 DEF UpToDate, OnScreen, Combined
<1>2. CASE p.queue = <<>>
  BY <1>1, <1>2 DEF NextOp
<1>3. CASE p.queue # <<>> /\ (p.selected = None \/ p.selected.path # op.path \/ print = None)
  <2> DEFINE e == [p EXCEPT !.queue = <<>>]
  <2>1. NextOp(p, print) = DrainEnds(e)
    BY <1>3 DEF NextOp
  <2>2. e \in PanelState /\ Still(e) /\ e.deferred = {} /\ ~e.syncDue
    BY QueueFacts, PanelFacts DEF PanelState
  <2> HIDE DEF e, Still
  <2> QED
    BY <1>1, <2>1, <2>2
<1>4. CASE p.queue # <<>> /\ ~(p.selected = None \/ p.selected.path # op.path \/ print = None)
  <2>1. CASE op.kind = "toggle" /\ ~RowsUnmoved(p, op)
    <3> DEFINE q == Reload([p EXCEPT !.queue = <<>>, !.drain = [at |-> "refused", target |-> p.selected]],
                           p.selected, "own")
    <3>1. NextOp(p, print) = q
      BY <1>4, <2>1 DEF NextOp
    <3>2. q.drain.at = "refused"
      BY DEF Reload, PanelState
    <3> QED
      BY <3>1, <3>2
  <2>2. CASE ~(op.kind = "toggle" /\ ~RowsUnmoved(p, op))
    <3>1. NextOp(p, print).drain.at = "calling"
      BY <1>4, <2>2 DEF NextOp, PanelState
    <3> QED
      BY <3>1
  <2> QED
    BY <2>1, <2>2
<1> QED
  BY <1>2, <1>3, <1>4

-----------------------------------------------------------------------------
(* A gap stays open.                                                       *)
LEMMA GapsStay == [Next]_vars => gap \subseteq gap'
BY DEF Next, vars, RequestDiscard, ToggleLines, ConfirmDiscard, CancelDiscard, Select, Reselect, AutoSelect,
       MoveFile, GitToggles, GitDiscards, GitFails, OpAnswered, GitMoves, MoveAnswered, ReadDiff,
       OwnReloadLands, OwnReloadSuperseded, OwnReloadFails, LoadLands, LiveReloadLands, FetchFails,
       AskStatus, ReadStatus, StatusLands, ExternalEdit, ExternalIndex

(* The list and its overlay.  Every change of the disk and every call that *)
(* succeeds makes a read due; a step that makes none leaves the list alone,*)
(* or moves it on.                                                         *)
LEMMA ListsCome ==
  ASSUME [Next]_vars, gap' = {}, ListComes, OverlayComes
  PROVE  ListComes' /\ OverlayComes'
<1>g. gap = {}
  BY GapsStay
<1>d. ASSUME due' PROVE ListComes' /\ OverlayComes'
  BY <1>d DEF ListComes, OverlayComes
<1>s. ASSUME UNCHANGED <<disk, lists, changes>>, ops # {} => ops' # {} PROVE ListComes' /\ OverlayComes'
  <2>1. ListComes'
    BY <1>s DEF lists, ListComes, Lists, Sections
  <2> QED
    BY <1>s, <2>1 DEF lists, OverlayComes
<1>0. CASE UNCHANGED vars
  BY <1>0, <1>s DEF vars
<1>1. CASE \/ \E lines \in (SUBSET Line) \ {{}} :
                RequestDiscard(lines) \/ \E target \in {"stage", "unstage"} : ToggleLines(lines, target)
           \/ ConfirmDiscard \/ CancelDiscard \/ \E f \in File, cat \in Category : Select(f, cat)
           \/ Reselect \/ AutoSelect \/ GitFails \/ OpAnswered \/ ReadDiff \/ LoadLands \/ LiveReloadLands
           \/ FetchFails
  BY <1>1, <1>s DEF RequestDiscard, ToggleLines, ConfirmDiscard, CancelDiscard, Select, Reselect, AutoSelect,
       GitFails, OpAnswered, ReadDiff, LoadLands, LiveReloadLands, FetchFails
<1>2. ASSUME NEW f \in Tracked, NEW to \in {"staged", "unstaged"}, MoveFile(f, to)
      PROVE  ListComes' /\ OverlayComes'
  <2>1. ops' # {} /\ UNCHANGED <<disk, lists>>
    BY <1>2 DEF MoveFile
  <2>2. ListComes'
    BY <2>1 DEF lists, ListComes, Lists, Sections
  <2> QED
    BY <2>1, <2>2 DEF OverlayComes
<1>3. CASE GitToggles \/ GitDiscards
  <2>1. due' \/ UNCHANGED <<disk, lists, changes, ops>>
    BY <1>3 DEF GitToggles, GitDiscards, lists
  <2> QED
    BY <1>d, <1>s, <2>1
<1>4. ASSUME NEW op \in ops, GitMoves(op) PROVE ListComes' /\ OverlayComes'
  <2>1. due' \/ (UNCHANGED <<disk, lists, changes>> /\ ops' # {})
    BY <1>4 DEF GitMoves, lists
  <2> QED
    BY <1>d, <1>s, <2>1
<1>5. ASSUME NEW op \in ops, MoveAnswered(op) PROVE ListComes' /\ OverlayComes'
  <2>1. due' \/ (UNCHANGED <<disk, lists>> /\ changes' = shared)
    BY <1>5 DEF MoveAnswered, lists
  <2>2. UNCHANGED <<disk, lists>> => ListComes'
    BY DEF lists, ListComes, Lists, Sections
  <2> QED
    BY <1>d, <2>1, <2>2 DEF OverlayComes, lists
<1>6. CASE OwnReloadLands \/ OwnReloadSuperseded \/ OwnReloadFails
  BY <1>d, <1>6 DEF OwnReloadLands, OwnReloadSuperseded, OwnReloadFails
<1>7. CASE AskStatus
  BY <1>7 DEF AskStatus, ListComes, OverlayComes
<1>8. CASE ReadStatus
  <2>1. status' = [at |-> "answered", lists |-> Lists(disk)] /\ UNCHANGED <<disk, due>>
    BY <1>8 DEF ReadStatus
  <2> QED
    BY <2>1 DEF ListComes, OverlayComes, Lists, Sections
<1>9. CASE StatusLands
  <2>1. /\ status.at = "answered" /\ status' = [at |-> "idle"] /\ shared' = status.lists
        /\ changes' = shared' \/ ops' # {}
        /\ UNCHANGED <<disk, due>>
    BY <1>9 DEF StatusLands
  <2> QED
    BY <2>1 DEF ListComes, OverlayComes, Lists, Sections
<1>10. CASE \E f \in Tracked : \/ \E text \in Text \cup {Clean} : ExternalEdit(f, text)
                               \/ \E s \in SUBSET Line : ExternalIndex(f, s)
  BY <1>d, <1>10 DEF ExternalEdit, ExternalIndex
<1> QED
  BY <1>0, <1>1, <1>2, <1>3, <1>4, <1>5, <1>6, <1>7, <1>8, <1>9, <1>10 DEF Next

(* The panel after a step that opens no gap.                               *)
PanelSettles == Honest(panel') /\ (Looking \/ UpToDate(panel, shared))'

(* What holds before such a step.                                          *)
Before == /\ IInv /\ Settling /\ gap = {} /\ gap' = {}

LEMMA BeforeFacts ==
  ASSUME Before
  PROVE  /\ PanelOK(panel, FALSE, FALSE) /\ panel \in PanelState /\ World /\ shared \in Listing
         /\ Worker(panel, FALSE) /\ Fetching(panel, FALSE)
         /\ ListComes /\ Honest(panel) /\ Own(panel) /\ Hidden(panel) /\ Ticked(panel)
         /\ Looking \/ UpToDate(panel, shared)
<1>1. PanelOK(panel, "stranded" \in gap, "failed" \in gap) /\ World
  BY DEF Before, IInv
<1>2. ("stranded" \in gap) = FALSE /\ ("failed" \in gap) = FALSE
  BY DEF Before
<1>3. PanelOK(panel, FALSE, FALSE)
  BY <1>1, <1>2
<1> QED
  BY <1>1, <1>3 DEF Before, World, PanelOK, Settling, Honest

LEMMA DiffNotNone == \A print \in Diffs : print # None
<1> SUFFICES ASSUME NEW print \in Diffs PROVE print # None
  OBVIOUS
<1>1. DOMAIN print = {"path", "text", "staged"}
  BY DEF Diffs
<1>2. DOMAIN None = {"path"}
  BY DEF None
<1> QED
  BY <1>1, <1>2

(* The disk and the list stay, and so does a worker's rest.                *)
LEMMA Rests ==
  ASSUME UNCHANGED <<disk, lists>>, Looking \/ UpToDate(panel, shared),
         panel.drain.at # "off" => panel'.drain.at # "off",
         ~Looking /\ UpToDate(panel, shared) /\ panel'.drain.at = "off" => UpToDate(panel', shared)
  PROVE  (Looking \/ UpToDate(panel, shared))'
<1>1. UpToDate(panel', shared) => UpToDate(panel, shared)'
  BY DEF UpToDate, Fingerprint, lists
<1> QED
  BY <1>1 DEF Looking, lists

LEMMA ToggleSettles ==
  ASSUME Before, NEW lines \in (SUBSET Line) \ {{}}, NEW target \in {"stage", "unstage"},
         ToggleLines(lines, target)
  PROVE  PanelSettles
<1>1. /\ PanelOK(panel, FALSE, FALSE) /\ panel \in PanelState /\ shared \in Listing
      /\ Worker(panel, FALSE) /\ Fetching(panel, FALSE)
      /\ Own(panel) /\ Hidden(panel) /\ (Looking \/ UpToDate(panel, shared))
  BY BeforeFacts
<1>2. OnScreen(panel)
  BY TickGiven DEF Before
<1>3. PICK op \in Op, p \in PanelState :
        /\ op.kind = "toggle" /\ op.path = panel.selected.path /\ op.shown = panel.diff.path
        /\ p.diff.at = "ready" /\ p.diff.path = panel.diff.path /\ p.diff.print = panel.diff.print
        /\ p.queue = Append(panel.queue, op)
        /\ p.selected = panel.selected /\ p.gone = panel.gone /\ p.fetch = panel.fetch
        /\ p.drain = panel.drain /\ p.deferred = panel.deferred /\ p.dialog = None
        /\ p.syncDue = panel.syncDue
        /\ panel' = Drain(p)
  BY TickGiven DEF Before
<1>4. UNCHANGED <<disk, lists>>
  BY DEF ToggleLines
<1>5. OnScreen(p) /\ Combined(p)
  BY <1>2, <1>3 DEF OnScreen, Combined
<1>6. p.queue # <<>> /\ p.queue \in Seq(Op) /\ p.diff.print \in Diffs
  BY <1>1, <1>3, QueueFacts, PanelFacts, DiffFacts
<1>7. Own(p)
  <2>1. \A i \in DOMAIN p.queue : (i \in DOMAIN panel.queue /\ p.queue[i] = panel.queue[i]) \/ p.queue[i] = op
    BY <1>1, <1>3, PanelFacts, QueueFacts
  <2> QED
    BY <1>1, <1>3, <2>1 DEF Own
<1>8. Hidden(p)
  BY <1>1, <1>2, <1>3 DEF Hidden, OnScreen
<1>9. UpToDate(panel, shared) => UpToDate(p, shared)
  BY <1>2, <1>3 DEF UpToDate
<1>10. CASE panel.drain.at = "off"
  <2>1. panel' = NextOp(p, p.diff.print)
    BY <1>3, <1>5, <1>10 DEF Drain
  <2>2. Free(p, FALSE) /\ Against(p, p.diff.print)
    BY <1>1, <1>3, <1>5, <1>6, <1>10 DEF Free, Against, Fetching, Worker, Reading
  <2>3. Honest(panel')
    <3>1. p.diff.print # None
      BY <1>6, DiffNotNone
    <3> QED
      BY <1>1, <1>6, <1>7, <1>8, <2>1, <2>2, <3>1, NextHonest
  <2>4. p.deferred = {} /\ ~p.syncDue
    BY <1>1, <1>3, <1>10 DEF Worker
  <2>5. UpToDate(panel, shared) /\ panel'.drain.at = "off" => UpToDate(panel', shared)
    BY <1>9, <2>1, <2>4, StartsStill
  <2> QED
    BY <1>1, <1>4, <1>10, <2>3, <2>5, Rests DEF PanelSettles
<1>11. CASE panel.drain.at # "off"
  <2>1. panel' = p
    BY <1>3, <1>11 DEF Drain
  <2>2. Honest(p)
    BY <1>6, <1>7, <1>8 DEF Honest, Ticked
  <2> QED
    BY <1>1, <1>3, <1>4, <1>11, <2>1, <2>2, Rests DEF PanelSettles
<1> QED
  BY <1>10, <1>11

LEMMA ConfirmSettles ==
  ASSUME Before, ConfirmDiscard
  PROVE  PanelSettles
<1>1. /\ PanelOK(panel, FALSE, FALSE) /\ panel \in PanelState /\ shared \in Listing
      /\ Worker(panel, FALSE) /\ Fetching(panel, FALSE)
      /\ Own(panel) /\ Hidden(panel) /\ (Looking \/ UpToDate(panel, shared))
  BY BeforeFacts
<1>2. panel.drain.at = "off" /\ panel.dialog # None
  BY DiscardGiven DEF Before, ConfirmDiscard
<1>3. PICK op \in Op, p \in PanelState :
        /\ op.kind = "discard" /\ op.path = panel.dialog.path /\ op.print = panel.dialog.print
        /\ p.queue = Append(panel.queue, op) /\ p.dialog = None /\ p.diff = panel.diff
        /\ p.selected = panel.selected /\ p.gone = panel.gone /\ p.fetch = panel.fetch
        /\ p.drain = panel.drain /\ p.deferred = panel.deferred /\ p.syncDue = panel.syncDue
        /\ panel' = NextOp(p, IF Combined(p) THEN p.diff.print ELSE None)
  BY DiscardGiven DEF Before
<1> DEFINE print == IF Combined(p) THEN p.diff.print ELSE None
<1>4. UNCHANGED <<disk, lists>>
  BY DEF ConfirmDiscard
<1>5. p.queue # <<>> /\ p.queue \in Seq(Op)
  <2>1. panel.queue \in Seq(Op)
    BY <1>1, PanelFacts
  <2> QED
    BY <1>3, <2>1, QueueFacts
<1>6. Own(p)
  <2>1. \A i \in DOMAIN p.queue : (i \in DOMAIN panel.queue /\ p.queue[i] = panel.queue[i]) \/ p.queue[i] = op
    BY <1>1, <1>3, PanelFacts, QueueFacts
  <2> QED
    BY <1>1, <1>2, <1>3, <2>1 DEF Own
<1>7. Hidden(p)
  BY <1>1, <1>3 DEF Hidden, Combined
<1>8. UpToDate(panel, shared) => UpToDate(p, shared)
  BY <1>3 DEF UpToDate, OnScreen, Combined
<1>9. Combined(p) => p.diff.print \in Diffs /\ p.diff.print # None
  <2>1. Combined(p) => p.diff.print \in Diffs
    BY <1>1, <1>3, PanelFacts, DiffFacts DEF Combined
  <2> QED
    BY <2>1, DiffNotNone
<1>10. Free(p, FALSE) /\ Against(p, print) /\ (print = None => ~OnScreen(p))
  BY <1>1, <1>2, <1>3, <1>9 DEF Free, Against, Fetching, Worker, Reading, OnScreen
<1>11. p.deferred = {} /\ ~p.syncDue
  BY <1>1, <1>2, <1>3 DEF Worker
<1>12. panel' = NextOp(p, print)
  BY <1>3
<1> HIDE DEF print
<1>13. Honest(panel')
  BY <1>1, <1>5, <1>6, <1>7, <1>10, <1>12, NextHonest
<1>14. UpToDate(panel, shared) /\ panel'.drain.at = "off" => UpToDate(panel', shared)
  BY <1>8, <1>11, <1>12, StartsStill
<1> QED
  BY <1>1, <1>2, <1>4, <1>13, <1>14, Rests DEF PanelSettles

LEMMA UserSettles ==
  ASSUME Before,
         \/ \E lines \in (SUBSET Line) \ {{}} :
              RequestDiscard(lines) \/ \E target \in {"stage", "unstage"} : ToggleLines(lines, target)
         \/ ConfirmDiscard \/ CancelDiscard
         \/ \E f \in File, cat \in Category : Select(f, cat)
         \/ Reselect \/ AutoSelect
         \/ \E f \in Tracked, to \in {"staged", "unstaged"} : MoveFile(f, to)
  PROVE  PanelSettles
<1>0. /\ panel \in PanelState /\ Honest(panel) /\ Own(panel) /\ Hidden(panel) /\ Ticked(panel)
      /\ Worker(panel, FALSE) /\ changes \in Listing
      /\ Looking \/ UpToDate(panel, shared)
  BY BeforeFacts DEF World
<1>s. ASSUME UNCHANGED <<disk, lists>>, Honest(panel'), panel'.drain = panel.drain,
             panel.drain.at = "off" /\ UpToDate(panel, shared) => UpToDate(panel', shared)
      PROVE  PanelSettles
  BY <1>0, <1>s, Rests DEF PanelSettles
<1>1. ASSUME NEW lines \in (SUBSET Line) \ {{}}, RequestDiscard(lines) PROVE PanelSettles
  <2>1. /\ panel'.selected = panel.selected /\ panel'.gone = panel.gone /\ panel'.diff = panel.diff
        /\ panel'.fetch = panel.fetch /\ panel'.queue = panel.queue /\ panel'.drain = panel.drain
        /\ Own(panel')
    <3>1. CASE panel.drain.at # "off"
      <4>1. panel' = [panel EXCEPT !.deferred = lines]
        BY <1>1, <3>1 DEF RequestDiscard
      <4> QED
        BY <1>0, <4>1 DEF PanelState, Own
    <3>2. CASE panel.drain.at = "off"
      <4>1. panel' = OpenDialog(panel, lines)
        BY <1>1, <3>2 DEF RequestDiscard
      <4> QED
        BY <1>0, <4>1, OpenDialogHonest
    <3> QED
      BY <3>1, <3>2
  <2>2. Honest(panel')
    BY <1>0, <2>1 DEF Honest, Hidden, Ticked, Plain, OnScreen, Combined
  <2>3. UpToDate(panel, shared) => UpToDate(panel', shared)
    BY <2>1 DEF UpToDate, OnScreen, Combined
  <2> QED
    BY <1>1, <1>s, <2>1, <2>2, <2>3 DEF RequestDiscard
<1>2. ASSUME NEW lines \in (SUBSET Line) \ {{}}, NEW target \in {"stage", "unstage"}, ToggleLines(lines, target)
      PROVE  PanelSettles
  BY <1>2, ToggleSettles
<1>3. CASE ConfirmDiscard
  BY <1>3, ConfirmSettles
<1>4. CASE CancelDiscard
  <2>1. /\ panel'.selected = panel.selected /\ panel'.gone = panel.gone /\ panel'.diff = panel.diff
        /\ panel'.fetch = panel.fetch /\ panel'.queue = panel.queue /\ panel'.drain = panel.drain
        /\ panel'.dialog = None
    BY <1>0, <1>4 DEF CancelDiscard, PanelState
  <2>2. Honest(panel')
    BY <1>0, <2>1 DEF Honest, Own, Hidden, Ticked, Plain, OnScreen, Combined
  <2>3. UpToDate(panel, shared) => UpToDate(panel', shared)
    BY <2>1 DEF UpToDate, OnScreen, Combined
  <2> QED
    BY <1>4, <1>s, <2>1, <2>2, <2>3 DEF CancelDiscard
<1>5. ASSUME NEW sel \in Row, panel' = SelectFile(panel, sel), panel.dialog = None, UNCHANGED <<disk, lists>>
      PROVE  PanelSettles
  <2>1. /\ Honest(panel')
        /\ UpToDate(panel, shared) => UpToDate(panel', shared)
    BY <1>0, <1>5, SelectHonest
  <2>2. panel'.drain = panel.drain
    BY <1>0, <1>5, SelectFacts
  <2> QED
    BY <1>5, <1>s, <2>1, <2>2
<1>6. ASSUME NEW f \in File, NEW cat \in Category, Select(f, cat) PROVE PanelSettles
  <2>1. [cat |-> cat, path |-> f] \in Row
    BY <1>0, <1>6, ListingFacts DEF Select
  <2> QED
    BY <1>5, <1>6, <2>1 DEF Select
<1>7. CASE Reselect
  <2>1. /\ panel'.selected = None /\ panel'.drain = panel.drain /\ panel'.dialog = None
        /\ panel'.fetch = NoFetch
    BY <1>0, <1>7 DEF Reselect, Clear, PanelState
  <2>2. Honest(panel') /\ UpToDate(panel', shared)
    BY <2>1 DEF Honest, Own, Hidden, Ticked, Plain, OnScreen, UpToDate, NoFetch
  <2> QED
    BY <1>7, <1>s, <2>1, <2>2 DEF Reselect
<1>8. CASE AutoSelect
  <2>0. PICK f \in File : \E cat \in changes[f] : panel' = SelectFile(panel, [cat |-> cat, path |-> f])
    BY <1>8 DEF AutoSelect
  <2>1. PICK cat \in changes[f] : panel' = SelectFile(panel, [cat |-> cat, path |-> f])
    BY <2>0
  <2>2. [cat |-> cat, path |-> f] \in Row
    BY <1>0, <2>1, ListingFacts
  <2>3. panel.dialog = None
    BY <1>0, <1>8 DEF AutoSelect, Own
  <2> QED
    BY <1>5, <1>8, <2>1, <2>2, <2>3 DEF AutoSelect
<1>9. ASSUME NEW f \in Tracked, NEW to \in {"staged", "unstaged"}, MoveFile(f, to) PROVE PanelSettles
  BY <1>0, <1>9, <1>s DEF MoveFile
<1> QED
  BY <1>1, <1>2, <1>3, <1>4, <1>6, <1>7, <1>8, <1>9

(* The worker is under way.                                                *)
LEMMA GitSettles ==
  ASSUME Before, GitToggles \/ GitDiscards \/ GitFails \/ OpAnswered
  PROVE  PanelSettles
<1>0. panel \in PanelState /\ Own(panel) /\ Hidden(panel)
  BY BeforeFacts
<1>1. CASE OpAnswered
  <2>1. /\ panel'.drain.at \in {"reloading", "failed"} /\ panel'.fetch.kind = "own"
        /\ panel'.dialog = panel.dialog /\ panel'.selected = panel.selected
        /\ panel'.gone = panel.gone /\ panel'.diff = panel.diff
        /\ panel'.queue = panel.queue \/ panel'.queue = <<>>
    <3> DEFINE d(at) == [at |-> at, target |-> panel.drain.target]
    <3>1. \/ panel' = Reload([panel EXCEPT !.drain = d("reloading")], panel.drain.target, "own")
          \/ panel' = Reload([panel EXCEPT !.queue = <<>>, !.drain = d("failed")], panel.drain.target, "own")
      <4>1. CASE panel.drain.at = "ok"
        BY <1>1, <4>1 DEF OpAnswered
      <4>2. CASE panel.drain.at # "ok"
        BY <1>1, <4>2 DEF OpAnswered
      <4> QED
        BY <4>1, <4>2
    <3>2. CASE panel' = Reload([panel EXCEPT !.drain = d("reloading")], panel.drain.target, "own")
      BY <1>0, <3>2 DEF Reload, PanelState
    <3>3. CASE panel' = Reload([panel EXCEPT !.queue = <<>>, !.drain = d("failed")], panel.drain.target, "own")
      BY <1>0, <3>3 DEF Reload, PanelState
    <3> QED
      BY <3>1, <3>2, <3>3
  <2>2. Own(panel')
    BY <1>0, <2>1, QueueFacts DEF Own
  <2>3. Honest(panel')
    BY <1>0, <2>1, <2>2 DEF Honest, Hidden, Ticked, Combined
  <2> QED
    BY <2>1, <2>3 DEF PanelSettles, Looking
<1>2. CASE GitToggles \/ GitDiscards \/ GitFails
  <2>1. PICK at \in {"ok", "error"} :
          panel' = [panel EXCEPT !.drain = [at |-> at, target |-> panel.drain.target, op |-> panel.drain.op]]
    BY <1>0, <1>2 DEF GitToggles, GitDiscards, GitFails, PanelState
  <2>2. /\ panel'.selected = panel.selected /\ panel'.gone = panel.gone /\ panel'.diff = panel.diff
        /\ panel'.queue = panel.queue /\ panel'.dialog = panel.dialog /\ panel'.fetch = panel.fetch
        /\ panel'.drain.at = at
    BY <1>0, <2>1 DEF PanelState
  <2>3. Honest(panel')
    BY <1>0, <2>2 DEF Honest, Own, Hidden, Ticked, Combined
  <2> QED
    BY <2>2, <2>3 DEF PanelSettles, Looking
<1> QED
  BY <1>1, <1>2

(* Nothing is pending, and the ticks are git's.                            *)
LEMMA NothingPending ==
  ASSUME NEW p, NEW print \in Diffs, p.drain.at \notin {"calling", "ok", "error"}, p.queue = <<>>
  PROVE  Overlaid(p, print) = print.staged
<1>1. Pending(p) = <<>>
  BY DEF Pending
<1>2. DOMAIN Pending(p) = {}
  BY <1>1
<1>3. Overlaid(p, print) = {line \in Line : line \in print.staged}
  BY <1>2 DEF Overlaid
<1>4. print.staged \subseteq Line
  BY DEF Diffs
<1> QED
  BY <1>3, <1>4

LEMMA OwnReloadSettles ==
  ASSUME Before, OwnReloadLands \/ OwnReloadSuperseded \/ OwnReloadFails
  PROVE  PanelSettles
<1>0. /\ panel \in PanelState /\ shared \in Listing /\ Own(panel) /\ Hidden(panel) /\ Ticked(panel)
      /\ Worker(panel, FALSE) /\ Fetching(panel, FALSE)
  BY BeforeFacts
<1>1. Awaiting /\ panel.dialog = None
  BY <1>0 DEF OwnReloadLands, OwnReloadSuperseded, OwnReloadFails, Awaiting, Worker
<1>2. due'
  BY DEF OwnReloadLands, OwnReloadSuperseded, OwnReloadFails
<1>g. gap = {} /\ gap' = {}
  BY DEF Before
<1>s. ASSUME NEW p, NEW print, panel' = Resume(p, print), Free(p, FALSE), Against(p, print), Own(p), Hidden(p),
             p.drain = panel.drain, p.queue = panel.queue,
             p.queue = <<>> => Plain(p),
             p.drain.at = "reloading" /\ print = None => p.queue = <<>> \/ ~OnScreen(p)
      PROVE  PanelSettles
  <2>1. Reading(p)
    BY <1>1, <1>s DEF Awaiting, Reading
  <2>2. p.drain.at \in {"refused", "again"} => p.queue = <<>>
    BY <1>0, <1>s DEF Worker
  <2>3. Honest(panel')
    BY <1>0, <1>s, <2>1, <2>2, ResumeHonest
  <2> QED
    BY <1>2, <2>3 DEF PanelSettles, Looking
<1>3. CASE OwnReloadLands
  <2> DEFINE print == panel.fetch.print
             d     == Ready(print, Overlaid(panel, print))
             shown == [panel EXCEPT !.fetch = NoFetch, !.diff = d]
             left  == Clear([shown EXCEPT !.selected = None])
  <2>1. panel.fetch.at = "answered" /\ print \in Diffs
    BY <1>0, <1>3, PanelFacts, FetchFacts DEF OwnReloadLands
  <2>2. d \in DiffState /\ d.at = "ready" /\ d.print = print /\ d.ticks = Overlaid(panel, print)
    <3>1. Overlaid(panel, print) \in SUBSET Line
      BY DEF Overlaid
    <3> QED
      BY <2>1, <3>1, DiffFacts
  <2>3. panel.queue = <<>> => d.ticks = print.staged
    BY <1>1, <2>1, <2>2, NothingPending DEF Awaiting
  <2>4. panel.gone /\ panel.selected # None => print.text = Clean
    BY <1>3, <1>g DEF OwnReloadLands
  <2>5. \/ panel' = Resume(left, None)
        \/ panel' = Resume(shown, IF print.text = Clean THEN None ELSE print)
    BY <1>3 DEF OwnReloadLands
  <2> HIDE DEF d, print
  <2>6. /\ shown \in PanelState /\ shown.diff = d /\ shown.fetch = NoFetch /\ shown.dialog = None
        /\ shown.selected = panel.selected /\ shown.gone = panel.gone
        /\ shown.queue = panel.queue /\ shown.drain = panel.drain
    BY <1>0, <1>1, <2>2, FetchFacts DEF PanelState
  <2>7. /\ left \in PanelState /\ left.diff = NoDiff /\ left.fetch = NoFetch /\ left.dialog = None
        /\ left.selected = None /\ left.queue = panel.queue /\ left.drain = panel.drain
    BY <2>6, FetchFacts, DiffFacts DEF PanelState, Clear
  <2> HIDE DEF shown, left
  <2>8. CASE panel' = Resume(left, None)
    <3>1. Free(left, FALSE) /\ Against(left, None)
      BY <2>7, FetchFacts, DiffFacts DEF Free, Fetching, Against
    <3>2. Own(left) /\ Hidden(left) /\ ~OnScreen(left)
      BY <2>7 DEF Own, Hidden, OnScreen
    <3> QED
      BY <1>s, <2>7, <2>8, <3>1, <3>2 DEF Plain
  <2>9. CASE panel' = Resume(shown, IF print.text = Clean THEN None ELSE print)
    <3> DEFINE made == IF print.text = Clean THEN None ELSE print
    <3>1. Free(shown, FALSE)
      BY <2>2, <2>6, FetchFacts DEF Free, Fetching
    <3>2. Against(shown, made)
      BY <2>1, <2>2, <2>6 DEF Against, Combined
    <3>3. Own(shown)
      BY <1>0, <2>6 DEF Own
    <3>4. Hidden(shown)
      BY <2>2, <2>4, <2>6, FetchFacts DEF Hidden, Combined
    <3>5. shown.queue = <<>> => Plain(shown)
      BY <2>2, <2>3, <2>6 DEF Plain
    <3>6. made = None => ~OnScreen(shown)
      BY <2>1, <2>2, <2>6, DiffNotNone DEF OnScreen, Combined
    <3>7. panel' = Resume(shown, made)
      BY <2>9
    <3> HIDE DEF made
    <3> QED
      BY <1>s, <2>6, <3>1, <3>2, <3>3, <3>4, <3>5, <3>6, <3>7
  <2> QED
    BY <2>5, <2>8, <2>9
<1>4. CASE OwnReloadSuperseded
  <2>1. /\ panel' = Resume(panel, None) /\ panel.fetch.kind # "own"
        /\ panel.drain.at = "reloading" => panel.queue = <<>>
    BY <1>4, <1>g DEF OwnReloadSuperseded
  <2>2. Free(panel, FALSE) /\ Against(panel, None)
    BY <1>0, <1>1, <2>1 DEF Free, Against
  <2>3. panel.queue = <<>> => Plain(panel)
    BY <1>0, <1>1, <2>1 DEF Ticked, Awaiting
  <2> QED
    BY <1>0, <1>s, <2>1, <2>2, <2>3
<1>5. CASE OwnReloadFails
  <2> DEFINE d == [at |-> "error", path |-> panel.fetch.sel.path]
             q == [panel EXCEPT !.fetch = NoFetch, !.diff = d]
  <2>1. panel' = Resume(q, None)
    BY <1>5 DEF OwnReloadFails
  <2>2. panel.fetch.sel.path \in Tracked
    BY <1>0, <1>5, PanelFacts, FetchFacts, RowFacts DEF OwnReloadFails
  <2>3. d \in DiffState /\ d.at = "error"
    BY <2>2, DiffFacts
  <2> HIDE DEF d
  <2>4. /\ q \in PanelState /\ q.diff = d /\ q.fetch = NoFetch /\ q.dialog = None
        /\ q.selected = panel.selected /\ q.gone = panel.gone
        /\ q.queue = panel.queue /\ q.drain = panel.drain
    BY <1>0, <1>1, <2>3, FetchFacts DEF PanelState
  <2> HIDE DEF q
  <2>5. Free(q, FALSE) /\ Against(q, None)
    BY <2>3, <2>4, FetchFacts DEF Free, Fetching, Against
  <2>6. Own(q) /\ Hidden(q) /\ ~OnScreen(q)
    BY <1>0, <2>3, <2>4, FetchFacts DEF Own, Hidden, OnScreen, Combined
  <2> QED
    BY <1>s, <2>1, <2>4, <2>5, <2>6 DEF Plain
<1> QED
  BY <1>3, <1>4, <1>5

LEMMA FetchSettles ==
  ASSUME Before, ReadDiff \/ LoadLands \/ LiveReloadLands \/ FetchFails
  PROVE  PanelSettles
<1>0. /\ panel \in PanelState /\ World /\ Own(panel) /\ Hidden(panel) /\ Ticked(panel)
      /\ Fetching(panel, FALSE) /\ ListComes
      /\ Looking \/ UpToDate(panel, shared)
      /\ panel.diff \in DiffState /\ panel.fetch \in FetchState
  BY BeforeFacts, PanelFacts
<1>d. UNCHANGED <<disk, lists>>
  BY DEF ReadDiff, LoadLands, LiveReloadLands, FetchFails
<1>s. ASSUME Honest(panel'), panel'.drain = panel.drain,
             ~Looking /\ UpToDate(panel, shared) => UpToDate(panel', shared)
      PROVE  PanelSettles
  BY <1>0, <1>d, <1>s, Rests DEF PanelSettles
<1>1. CASE ReadDiff
  <2>1. /\ panel'.selected = panel.selected /\ panel'.gone = panel.gone /\ panel'.diff = panel.diff
        /\ panel'.queue = panel.queue /\ panel'.dialog = panel.dialog /\ panel'.drain = panel.drain
        /\ panel'.fetch = [at |-> "answered", kind |-> panel.fetch.kind, sel |-> panel.fetch.sel,
                           print |-> Fingerprint(panel.fetch.sel.path, disk)]
    BY <1>0, <1>1 DEF ReadDiff, PanelState
  <2>2. Honest(panel')
    BY <1>0, <2>1 DEF Honest, Own, Hidden, Ticked, Plain, OnScreen, Combined
  <2>3. UpToDate(panel, shared) => UpToDate(panel', shared)
    BY <2>1 DEF UpToDate
  <2> QED
    BY <1>s, <2>1, <2>2, <2>3
<1>2. ASSUME panel.fetch.at = "answered", panel.fetch.kind \in {"load", "live"}
      PROVE  /\ panel.selected # None /\ ~panel.gone
             /\ panel.fetch.print \in Diffs /\ panel.fetch.sel \in TrackedRow
             /\ panel.fetch.sel.path = panel.selected.path
             /\ UpToDate(panel, shared) => panel.fetch.print = Fingerprint(panel.selected.path, disk)
  BY <1>0, <1>2, FetchFacts, PanelFacts DEF Fetching, Hidden, UpToDate
<1>3. CASE LoadLands
  <2> DEFINE print == panel.fetch.print
             d == Ready(print, print.staged)
  <2>1. /\ print \in Diffs /\ print.staged \in SUBSET Line /\ ~panel.gone
        /\ UpToDate(panel, shared) => print = Fingerprint(panel.selected.path, disk)
    BY <1>2, <1>3 DEF LoadLands, Diffs
  <2>2. d.at = "ready" /\ d.print = print /\ d.ticks = print.staged
    BY <2>1, DiffFacts
  <2>3. panel' = [panel EXCEPT !.fetch = NoFetch, !.diff = d]
    BY <1>3 DEF LoadLands
  <2> HIDE DEF d, print
  <2>4. /\ panel'.selected = panel.selected /\ ~panel'.gone /\ panel'.diff = d
        /\ panel'.queue = panel.queue /\ panel'.dialog = panel.dialog /\ panel'.drain = panel.drain
        /\ panel'.fetch = NoFetch
    BY <1>0, <2>1, <2>3 DEF PanelState
  <2>5. Honest(panel')
    BY <1>0, <2>2, <2>4 DEF Honest, Own, Hidden, Ticked, Plain
  <2>6. UpToDate(panel, shared) => UpToDate(panel', shared)
    BY <2>1, <2>2, <2>4 DEF UpToDate, NoFetch
  <2> QED
    BY <1>s, <2>4, <2>5, <2>6
<1>4. CASE LiveReloadLands
  <2> DEFINE print == panel.fetch.print
             same  == panel.diff.at = "ready" /\ panel.diff.print = print
             d     == IF same THEN panel.diff ELSE Ready(print, Overlaid(panel, print))
             shown == [panel EXCEPT !.fetch = NoFetch, !.diff = d]
             left  == Clear([shown EXCEPT !.gone = TRUE])
  <2>1. /\ print \in Diffs /\ ~panel.gone /\ panel.selected # None /\ panel.fetch.kind = "live"
        /\ panel.selected.path \in Tracked
        /\ UpToDate(panel, shared) => print = Fingerprint(panel.selected.path, disk)
    BY <1>2, <1>4, RowFacts DEF LiveReloadLands
  <2>2. panel' = shown \/ (panel' = left /\ print.text = Clean)
    <3>1. shown = IF same THEN [panel EXCEPT !.fetch = NoFetch]
                  ELSE [panel EXCEPT !.fetch = NoFetch, !.diff = Ready(print, Overlaid(panel, print))]
      BY <1>0 DEF PanelState
    <3> HIDE DEF shown
    <3>2. panel' = IF panel.selected = panel.fetch.sel /\ print.text = Clean
                   THEN Clear([shown EXCEPT !.gone = TRUE]) ELSE shown
      BY <1>4, <3>1 DEF LiveReloadLands
    <3> QED
      BY <3>2
  <2>3. d.at = "ready" /\ d.print = print
    <3>1. Overlaid(panel, print) \in SUBSET Line
      BY DEF Overlaid
    <3> QED
      BY <2>1, <3>1, DiffFacts
  <2>4. ASSUME panel.drain.at \notin {"calling", "ok", "error"}, panel.queue = <<>>, OnScreen(shown)
        PROVE  d.ticks = print.staged
    <3>1. CASE same
      <4>1. OnScreen(panel)
        BY <1>0, <2>4, <3>1 DEF OnScreen, Combined, PanelState
      <4> QED
        BY <1>0, <2>1, <2>4, <3>1, <4>1 DEF Ticked, Plain
    <3>2. CASE ~same
      <4>1. d.ticks = Overlaid(panel, print)
        BY <3>2 DEF Ready
      <4> QED
        BY <2>1, <2>4, <4>1, NothingPending
    <3> QED
      BY <3>1, <3>2
  <2> HIDE DEF d, print, same
  <2>5. /\ shown.selected = panel.selected /\ ~shown.gone /\ shown.diff = d
        /\ shown.queue = panel.queue /\ shown.dialog = panel.dialog /\ shown.drain = panel.drain
        /\ shown.fetch = NoFetch
    BY <1>0, <2>1 DEF PanelState
  <2>6. /\ left.selected = panel.selected /\ left.diff = NoDiff
        /\ left.queue = panel.queue /\ left.dialog = panel.dialog /\ left.drain = panel.drain
        /\ left.fetch = NoFetch
    BY <1>0 DEF Clear, PanelState
  <2> HIDE DEF shown, left
  <2>7. CASE panel' = shown
    <3>1. Honest(shown)
      BY <1>0, <2>3, <2>4, <2>5 DEF Honest, Own, Hidden, Ticked, Plain
    <3>2. UpToDate(panel, shared) => UpToDate(shown, shared)
      BY <2>1, <2>3, <2>5 DEF UpToDate, NoFetch
    <3> QED
      BY <1>s, <2>5, <2>7, <3>1, <3>2
  <2>8. CASE panel' = left /\ print.text = Clean
    <3>1. ~Combined(left)
      BY <2>6 DEF Combined, NoDiff
    <3>2. Honest(left)
      BY <1>0, <2>6, <3>1 DEF Honest, Own, Hidden, Ticked, Plain, OnScreen, NoFetch
    <3>3. ASSUME ~Looking, UpToDate(panel, shared) PROVE shared[panel.selected.path] = {}
      <4>1. shared = Lists(disk) /\ panel.selected.path \in File
        BY <1>0, <2>1, <3>3 DEF ListComes, Looking, File
      <4>2. disk[panel.selected.path].text = Clean
        BY <2>1, <2>8, <3>3 DEF Fingerprint
      <4> QED
        BY <2>1, <4>1, <4>2, ChangesPanelAssumption DEF Lists, Sections
    <3>4. ~Looking /\ UpToDate(panel, shared) => UpToDate(left, shared)
      BY <2>6, <3>1, <3>3 DEF UpToDate, OnScreen, NoFetch
    <3> QED
      BY <1>s, <2>6, <2>8, <3>2, <3>4
  <2> QED
    BY <2>2, <2>7, <2>8
<1>5. CASE FetchFails
  <2>1. panel.fetch.kind = "load"
    BY <1>5 DEF FetchFails, Before
  <2>2. /\ panel'.selected = panel.selected /\ panel'.gone = panel.gone /\ panel'.diff.at = "error"
        /\ panel'.queue = panel.queue /\ panel'.dialog = panel.dialog /\ panel'.drain = panel.drain
        /\ panel'.fetch = NoFetch
    BY <1>0, <1>5, <2>1 DEF FetchFails, PanelState
  <2>3. Honest(panel')
    BY <1>0, <2>2 DEF Honest, Own, Hidden, Ticked, Plain, OnScreen, Combined, NoFetch
  <2>4. UpToDate(panel, shared) => UpToDate(panel', shared)
    BY <2>2 DEF UpToDate, OnScreen, Combined, NoFetch
  <2> QED
    BY <1>s, <2>2, <2>3, <2>4
<1> QED
  BY <1>1, <1>3, <1>4, <1>5

LEMMA ListSettles ==
  ASSUME Before,
         \/ \E op \in ops : GitMoves(op) \/ MoveAnswered(op)
         \/ AskStatus \/ ReadStatus \/ StatusLands
         \/ \E f \in Tracked : \/ \E text \in Text \cup {Clean} : ExternalEdit(f, text)
                               \/ \E s \in SUBSET Line : ExternalIndex(f, s)
         \/ UNCHANGED vars
  PROVE  PanelSettles
<1>0. /\ panel \in PanelState /\ PanelOK(panel, FALSE, FALSE) /\ World /\ Honest(panel)
      /\ Worker(panel, FALSE) /\ Fetching(panel, FALSE)
      /\ Looking \/ UpToDate(panel, shared)
  BY BeforeFacts
<1>1. CASE StatusLands
  <2>1. /\ status.lists \in Listing /\ panel' = Sync(panel, status.lists) /\ shared' = status.lists
        /\ disk' = disk /\ ~Skipped(panel, status.lists)
    BY <1>0, <1>1 DEF StatusLands, World, StatusSet, Before
  <2>2. panel.drain.at = "off" => panel.fetch.kind # "own"
    BY <1>0 DEF Worker, Reading
  <2>3. Honest(panel') /\ (panel.drain.at = "off" => UpToDate(panel', shared'))
    BY <1>0, <2>1, <2>2, SyncHonest
  <2>4. panel'.drain = panel.drain
    BY <1>0, <2>1, SyncOK
  <2>5. UpToDate(panel', shared') => UpToDate(panel, shared)'
    BY <2>1 DEF UpToDate, Fingerprint
  <2> QED
    BY <2>3, <2>4, <2>5 DEF PanelSettles, Looking
<1>2. CASE ~StatusLands
  <2>1. panel' = panel
    BY <1>2 DEF GitMoves, MoveAnswered, AskStatus, ReadStatus, ExternalEdit, ExternalIndex, vars
  <2>2. due' \/ status'.at # "idle" \/ UNCHANGED <<disk, lists>>
    <3>1. ASSUME NEW op \in ops, GitMoves(op) \/ MoveAnswered(op) PROVE due' \/ UNCHANGED <<disk, lists>>
      BY <3>1 DEF GitMoves, MoveAnswered, lists
    <3>2. AskStatus \/ ReadStatus => status'.at # "idle"
      BY DEF AskStatus, ReadStatus, Before
    <3>3. ASSUME NEW f \in Tracked, \/ \E text \in Text \cup {Clean} : ExternalEdit(f, text)
                                    \/ \E s \in SUBSET Line : ExternalIndex(f, s)
          PROVE  due'
      BY <3>3 DEF ExternalEdit, ExternalIndex
    <3>4. CASE UNCHANGED vars
      BY <3>4 DEF vars
    <3> QED
      BY <1>2, <3>1, <3>2, <3>3, <3>4
  <2>3. CASE due' \/ status'.at # "idle"
    BY <1>0, <2>1, <2>3 DEF PanelSettles, Looking
  <2>4. CASE UNCHANGED <<disk, lists>>
    BY <1>0, <2>1, <2>4, Rests DEF PanelSettles
  <2> QED
    BY <2>2, <2>3, <2>4
<1> QED
  BY <1>1, <1>2

LEMMA InitSettling == Init => Settling
<1> SUFFICES ASSUME Init PROVE Settling
  OBVIOUS
<1>1. ListComes /\ OverlayComes
  BY DEF Init, ListComes, OverlayComes
<1>2. /\ panel.selected = None /\ panel.dialog = None /\ panel.fetch = NoFetch
  BY DEF Init
<1>3. Honest(panel)
  BY <1>2 DEF Honest, Own, Hidden, Ticked, Plain, OnScreen
<1>4. UpToDate(panel, shared)
  BY <1>2 DEF UpToDate, OnScreen, NoFetch
<1> QED
  BY <1>1, <1>3, <1>4 DEF Settling

LEMMA SettlingStep ==
  ASSUME IInv, Settling, [Next]_vars
  PROVE  Settling'
<1> SUFFICES ASSUME gap' = {} PROVE (ListComes /\ OverlayComes /\ Honest(panel) /\ (Looking \/ UpToDate(panel, shared)))'
  BY DEF Settling
<1>1. Before
  BY GapsStay DEF Before
<1>2. ListComes' /\ OverlayComes'
  BY <1>1, ListsCome DEF Before, Settling
<1>3. PanelSettles
  BY <1>1, UserSettles, GitSettles, OwnReloadSettles, FetchSettles, ListSettles DEF Next
<1> QED
  BY <1>2, <1>3 DEF PanelSettles

(* When nothing is in flight the panel says what is on disk, whatever was  *)
(* ticked, selected, moved or written in between, but for the gaps         *)
(* (useChangesPanel.ts, syncOpenFile and the follow-up reads; FR-460,      *)
(* FR-461, FR-485).                                                        *)
THEOREM SettledOnDisk == Spec => []SettlesOnDisk
<1>1. IInv /\ Settling => SettlesOnDisk
  <2> SUFFICES ASSUME IInv, Settling, Quiet, gap = {}
               PROVE  /\ shared = Lists(disk) /\ changes = shared
                      /\ panel.gone /\ panel.selected # None => shared[panel.selected.path] = {}
                      /\ OnScreen(panel) => LET f == panel.selected.path
                                            IN panel.diff.print = Fingerprint(f, disk) /\ panel.diff.ticks = disk[f].staged
    BY DEF SettlesOnDisk
  <2>1. /\ due = FALSE /\ status.at = "idle" /\ ops = {} /\ panel.drain.at = "off" /\ panel.fetch.at = "idle"
        /\ ~Looking
    BY DEF Quiet, IInv, World, Looking
  <2>2. shared = Lists(disk) /\ changes = shared /\ Honest(panel) /\ UpToDate(panel, shared)
    BY <2>1 DEF Settling, ListComes, OverlayComes
  <2>3. panel.queue = <<>> /\ panel.fetch.kind # "own"
    <3>1. PanelOK(panel, "stranded" \in gap, "failed" \in gap) /\ "stranded" \notin gap
      BY DEF IInv
    <3>2. Worker(panel, "stranded" \in gap)
      BY <3>1 DEF PanelOK
    <3> QED
      BY <2>1, <3>1, <3>2 DEF Worker, Reading
  <2>4. OnScreen(panel) => panel.diff.print = Fingerprint(panel.selected.path, disk)
    BY <2>1, <2>2 DEF UpToDate
  <2>5. OnScreen(panel) => panel.diff.ticks = panel.diff.print.staged
    BY <2>1, <2>2, <2>3 DEF Honest, Ticked, Plain
  <2> QED
    BY <2>2, <2>4, <2>5 DEF UpToDate, Fingerprint
<1>2. IInv /\ Settling /\ [Next]_vars => IInv' /\ Settling'
  BY NextOK, SettlingStep
<1>3. Init => IInv /\ Settling
  BY InitOK, InitSettling
<1> QED
  BY <1>1, <1>2, <1>3, PTL DEF Spec
================================================================================
