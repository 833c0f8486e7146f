------------------------ MODULE GuideSnapshots_proofs ------------------------
(***************************************************************************)
(* What a reader of a snapshot holds is complete and stays, and what was   *)
(* replaced never returns, for any threads, queues, lists, slots, tags and *)
(* faults.                                                                 *)
(***************************************************************************)
EXTENDS GuideSnapshots, FiniteSetTheorems, WellFoundedInduction, TLAPS

---------------------------------------------------------------------------
(* The types.                                                              *)

Guides == [depth : Nat, motion : Nat]
Captures == [source : {"none", "streamline", "ngx"}, guides : Guides, owned : BOOLEAN, safe : BOOLEAN,
             list : Lists \cup {0}, queue : Queues \cup {0}, view : Nat, frame : Nat, tick : Nat, seq : Nat,
             slot : AllSlots \cup {<<>>}]
SlotStates == [value : Nat \cup {InFlight}, consumed : BOOLEAN, staged : Captures, list : {"open", "closed"}]
Calls == [pc : {"idle", "tag", "bound", "lock", "reserve", "submit", "stage", "note"},
          mode : Modes \cup {"Full"}, tag : Tags \cup {<<>>}, guides : Captures, list : Lists \cup {0},
          queue : Queues \cup {0}, slot : AllSlots \cup {<<>>}, value : Nat]
Copy == [slot : AllSlots, guides : Guides, value : Nat]
States == [capture : Captures, slots : [AllSlots -> SlotStates], seq : Nat, gone : SUBSET Nat]

TypeInv ==
    /\ mode \in Modes
    /\ capture \in Captures
    /\ pending \in [Lists -> Captures]
    /\ slots \in [AllSlots -> SlotStates]
    /\ next \in [fence : [Queues -> Nat \ {0}], seq : Nat \ {0}]
    /\ submit \in Threads \cup {None}
    /\ calls \in [Threads -> Calls]
    /\ present \in [pc : {"idle", "clear", "read"}, held : SUBSET Captures]
    /\ work \in [Queues -> Seq(Copy)]
    /\ reached \in [Queues -> Nat]
    /\ texture \in [AllSlots -> Guides]
    /\ game \in [frame : Nat \ {0}, now : Nat \ {0}, togo : Nat]
    /\ gone \in SUBSET Nat

---------------------------------------------------------------------------
(* The invariant.                                                          *)

\* Guides that were not published yet have no number, and are no snapshot.
Raw(c) == ~c.owned /\ c.seq = 0

\* A thread that records or submits holds the lock, and its slot is in flight: until
\* its value is registered nobody else uses the slot, and its copy is the last.
Working == {"submit", "stage"}
Sound(t, c) ==
    /\ Raw(c.guides)
    /\ c.pc = "bound" => c.guides.list \in Lists
    /\ c.pc \in {"lock", "reserve"} \cup Working => c.list \in Lists /\ c.queue \in Queues
    /\ c.pc \in {"reserve"} \cup Working => submit = t
    /\ c.pc \in Working => /\ c.slot \in AllSlots /\ c.slot[1] = c.queue
                          /\ slots[c.slot].value = InFlight
                          /\ c.value \in 1..(next.fence[c.queue] - 1)
Callers ==
    /\ \A l \in Lists : Raw(pending[l])
    /\ \A t \in Threads : Sound(t, calls[t])

\* Values count up, and a fence is never ahead of what was handed out.
Outstanding(q) == \A i \in DOMAIN work[q] : work[q][i].value # 0 =>
                      reached[q] < work[q][i].value /\ work[q][i].value < next.fence[q]
Increasing(q) == \A i, j \in DOMAIN work[q] :
                      i < j /\ work[q][i].value # 0 /\ work[q][j].value # 0 => work[q][i].value < work[q][j].value
OneCopy(q) == \A i, j \in DOMAIN work[q] : i # j => work[q][i].slot # work[q][j].slot
Local(q) == \A i \in DOMAIN work[q] : work[q][i].slot[1] = q
Queued ==
    \A q \in Queues :
        reached[q] < next.fence[q] /\ Outstanding(q) /\ Increasing(q) /\ OneCopy(q) /\ Local(q)

\* A copy without a signal leaves its slot in flight for good; any other is known to
\* its slot, or to the thread that will register it.
Staging(t, w) == calls[t].pc = "stage" /\ calls[t].slot = w.slot /\ calls[t].value = w.value
Known(w) ==
    IF w.value = 0
    THEN slots[w.slot].value = InFlight /\ \A t \in Threads : calls[t].pc \in Working => calls[t].slot # w.slot
    ELSE \/ slots[w.slot].value = w.value
         \/ slots[w.slot].value = InFlight /\ \E t \in Threads : Staging(t, w)
Registered == \A q \in Queues : \A i \in DOMAIN work[q] : Known(work[q][i])

\* The thread that has recorded a slot: its copy is not queued yet, or is what the
\* textures will hold.  Its value is larger than any before it.
Shows(held, guides) == \A g \in {"depth", "motion"} : guides[g] \in {0, held[g]}
WillShow(x, guides) ==
    IF Copies(x) = {} THEN Shows(texture[x], guides)
    ELSE \A i \in Copies(x) : work[x[1]][i].guides = guides
Recorded ==
    \A t \in Threads :
        /\ calls[t].pc = "submit" =>
             /\ Copies(calls[t].slot) = {}
             /\ reached[calls[t].queue] < calls[t].value
             /\ \A i \in DOMAIN work[calls[t].queue] : work[calls[t].queue][i].value < calls[t].value
        /\ calls[t].pc = "stage" => WillShow(calls[t].slot, calls[t].guides.guides)

\* What a slot has staged is what its textures will hold.
Complete(s, x) == s.slots[x].value \notin {0, InFlight} /\ reached[x[1]] >= s.slots[x].value
Staged(s) ==
    \A x \in AllSlots :
        /\ s.slots[x].value < next.fence[x[1]]
        /\ s.slots[x].staged # NoCapture =>
             /\ s.slots[x].value \notin {0, InFlight}
             /\ s.slots[x].staged.owned /\ s.slots[x].staged.slot = x
             /\ WillShow(x, s.slots[x].staged.guides)

\* A snapshot that is current or held is complete, and its textures hold it.
Holds(s, c) == c.owned => c.slot \in AllSlots /\ Complete(s, c.slot) /\ Shows(texture[c.slot], c.guides)
Held(s) == Holds(s, s.capture) /\ \A c \in present.held : Holds(s, c)

\* Every capture has a number of its own, and a live one never becomes a snapshot:
\* what is gone is neither current nor staged.
Numbered(s) ==
    /\ \A n \in s.gone : n < s.seq
    /\ s.capture.seq < s.seq
    /\ s.capture.seq = 0 => s.capture = NoCapture
    /\ s.capture.seq # 0 => s.capture.seq \notin s.gone
    /\ \A x \in AllSlots : s.slots[x].staged # NoCapture =>
         /\ s.slots[x].staged.seq \in 1..(s.seq - 1) /\ s.slots[x].staged.seq \notin s.gone
         /\ s.slots[x].staged.seq = s.capture.seq => s.capture.owned
         /\ \A c \in present.held : c.seq = s.slots[x].staged.seq => c.owned
         /\ \A y \in AllSlots : x # y => s.slots[y].staged.seq # s.slots[x].staged.seq
    /\ \A c \in present.held : c.seq \in 1..(s.seq - 1) /\ (c.seq = s.capture.seq => (c.owned = s.capture.owned))

Snapshots(s) == Staged(s) /\ Held(s) /\ Numbered(s)
IInv == TypeInv /\ Callers /\ Queued /\ Registered /\ Recorded /\ Snapshots(State)

---------------------------------------------------------------------------
(* Values of the types.                                                    *)

LEMMA NoCaptureFits == NoCapture \in Captures /\ Raw(NoCapture)
BY DEF NoCapture, NoGuides, Captures, Guides, Raw

LEMMA IdleFits == Idle \in Calls /\ Raw(Idle.guides) /\ Idle.pc = "idle"
<1>1. NoCapture \in Captures /\ Raw(NoCapture)
  BY NoCaptureFits
<1> QED BY <1>1 DEF Idle, Calls

\* Two sets of guides of one frame make one.
LEMMA JoinedFits ==
    ASSUME NEW a \in Guides, NEW b \in Guides
    PROVE Joined(a, b) \in Guides
<1>1. a.depth \in Nat /\ a.motion \in Nat /\ b.depth \in Nat /\ b.motion \in Nat
  BY DEF Guides
<1>2. Joined(a, b) = [depth |-> IF b.depth = 0 THEN a.depth ELSE b.depth, motion |-> IF b.motion = 0 THEN a.motion ELSE b.motion]
  <2> DEFINE j == [depth |-> IF b.depth = 0 THEN a.depth ELSE b.depth, motion |-> IF b.motion = 0 THEN a.motion ELSE b.motion]
  <2>1. \A g \in {"depth", "motion"} : j[g] = IF b[g] = 0 THEN a[g] ELSE b[g]
    OBVIOUS
  <2>2. j = [g \in {"depth", "motion"} |-> j[g]]
    OBVIOUS
  <2> HIDE DEF j
  <2>3. j = [g \in {"depth", "motion"} |-> IF b[g] = 0 THEN a[g] ELSE b[g]]
    BY <2>1, <2>2
  <2> QED BY <2>3 DEF Joined
<1> QED BY <1>1, <1>2 DEF Guides

\* The textures show what was last copied into them.
LEMMA JoinedShows ==
    ASSUME NEW a \in Guides, NEW b \in Guides
    PROVE Shows(Joined(a, b), b)
BY DEF Joined, Shows, Guides

\* A live capture stays live when it is merged.
LEMMA MergedFits ==
    ASSUME NEW old \in Captures, NEW new \in Captures, ~new.owned
    PROVE Merged(old, new) \in Captures /\ ~Merged(old, new).owned
<1>1. new.guides \in Guides /\ old.guides \in Guides /\ new.safe \in BOOLEAN /\ old.safe \in BOOLEAN
  BY DEF Captures
<1>2. Joined(old.guides, new.guides) \in Guides
  BY <1>1, JoinedFits
<1> DEFINE g == Joined(old.guides, new.guides)
           f == new.safe /\ old.safe
           l == IF new.list = 0 THEN old.list ELSE new.list
           u == IF new.queue = 0 THEN old.queue ELSE new.queue
           m == [new EXCEPT !.guides = g, !.safe = f, !.list = l, !.queue = u]
<1>3. Merged(old, new) \in {new, m}
  BY DEF Merged
<1>4. g \in Guides /\ f \in BOOLEAN /\ l \in Lists \cup {0} /\ u \in Queues \cup {0}
  BY <1>2, <1>1 DEF Captures
<1> HIDE DEF g, f, l, u
<1>5. m \in Captures /\ ~m.owned
  BY <1>4 DEF Captures
<1> QED BY <1>3, <1>5

---------------------------------------------------------------------------
(* The lock's value: a slot may lose what it has staged.                   *)

Lessened(r, s) ==
    \A x \in AllSlots : r.slots[x].value = s.slots[x].value /\ r.slots[x].staged \in {s.slots[x].staged, NoCapture}

LEMMA LessenedFits ==
    ASSUME NEW r \in States, NEW s \in States, Lessened(r, s), Staged(s)
    PROVE Staged(r) /\ \A c : Holds(s, c) => Holds(r, c)
<1>1. Staged(r)
  BY DEF Staged, Lessened
<1>2. \A c : Holds(s, c) => Holds(r, c)
  BY DEF Holds, Complete, Lessened
<1> QED BY <1>1, <1>2

LEMMA ConsumedShape ==
    ASSUME NEW s \in States, NEW n \in Nat
    PROVE /\ Consumed(s, n) \in States
          /\ Consumed(s, n).capture = s.capture /\ Consumed(s, n).seq = s.seq
          /\ Consumed(s, n).gone = s.gone \cup {n}
          /\ Lessened(Consumed(s, n), s)
          /\ \A x \in AllSlots : Consumed(s, n).slots[x].staged =
                 IF s.slots[x].staged.seq = n /\ n # 0 THEN NoCapture ELSE s.slots[x].staged
<1> DEFINE Slot(x) == IF s.slots[x].staged.seq = n /\ n # 0
                      THEN [s.slots[x] EXCEPT !.consumed = TRUE, !.staged = NoCapture] ELSE s.slots[x]
           r == [s EXCEPT !.slots = [x \in AllSlots |-> Slot(x)], !.gone = s.gone \cup {n}]
<1>1. Consumed(s, n) = r
  BY DEF Consumed
<1>2. \A x \in AllSlots : Slot(x) \in SlotStates /\ Slot(x).value = s.slots[x].value
        /\ Slot(x).staged = IF s.slots[x].staged.seq = n /\ n # 0 THEN NoCapture ELSE s.slots[x].staged
  BY NoCaptureFits DEF States, SlotStates
<1> HIDE DEF Slot
<1>3. r.slots = [x \in AllSlots |-> Slot(x)] /\ r.gone = s.gone \cup {n} /\ r.capture = s.capture /\ r.seq = s.seq
  BY DEF States
<1>4. r \in States
  BY <1>2, <1>3 DEF States
<1>5. \A x \in AllSlots : r.slots[x] = Slot(x)
  BY <1>3
<1> HIDE DEF r
<1>6. Lessened(r, s)
  BY <1>5, <1>2 DEF Lessened
<1> QED BY <1>1, <1>2, <1>3, <1>4, <1>5, <1>6

\* A capture that may replace the current one: its number is not gone, and whoever
\* else has the number has the same capture.
Candidate(s, c) ==
    /\ Holds(s, c)
    /\ c.seq \in 1..(s.seq - 1) /\ c.seq \notin s.gone /\ c.seq # s.capture.seq
    /\ \A x \in AllSlots : s.slots[x].staged # NoCapture /\ s.slots[x].staged.seq = c.seq => c.owned
    /\ \A h \in present.held : h.seq = c.seq => (h.owned = c.owned)

LEMMA ReplacedShape ==
    ASSUME NEW s \in States, NEW c \in Captures, c.seq # s.capture.seq
    PROVE /\ Replaced(s, c) \in States
          /\ Replaced(s, c).capture = c /\ Replaced(s, c).seq = s.seq
          /\ Replaced(s, c).gone = s.gone \cup {s.capture.seq}
          /\ Lessened(Replaced(s, c), s)
          /\ \A x \in AllSlots : s.capture.owned /\ s.slots[x].staged.seq = s.capture.seq /\ s.capture.seq # 0
                 => Replaced(s, c).slots[x].staged = NoCapture
<1> DEFINE t == IF s.capture.owned THEN Consumed(s, s.capture.seq) ELSE s
           r == [t EXCEPT !.capture = c, !.gone = @ \cup {s.capture.seq}]
<1>1. Replaced(s, c) = r
  <2>1. {s.capture.seq} \ {c.seq} = {s.capture.seq}
    OBVIOUS
  <2> QED BY <2>1 DEF Replaced
<1>2. s.capture.seq \in Nat /\ s.gone \in SUBSET Nat /\ s.capture.owned \in BOOLEAN
  BY DEF States, Captures
<1>3. /\ t \in States /\ t.seq = s.seq /\ t.gone \cup {s.capture.seq} = s.gone \cup {s.capture.seq}
      /\ Lessened(t, s)
      /\ \A x \in AllSlots : s.capture.owned /\ s.slots[x].staged.seq = s.capture.seq /\ s.capture.seq # 0
             => t.slots[x].staged = NoCapture
  <2>1. CASE s.capture.owned
    BY <2>1, <1>2, ConsumedShape
  <2>2. CASE ~s.capture.owned
    BY <2>2 DEF Lessened
  <2> QED BY <2>1, <2>2, <1>2
<1> HIDE DEF t
<1>4. r \in States /\ r.capture = c /\ r.seq = t.seq /\ r.slots = t.slots /\ r.gone = t.gone \cup {s.capture.seq}
  BY <1>3, <1>2 DEF States
<1> HIDE DEF r
<1>5. Lessened(r, s)
  BY <1>3, <1>4 DEF Lessened
<1> QED BY <1>1, <1>3, <1>4, <1>5

LEMMA ReplacedFits ==
    ASSUME NEW s \in States, NEW c \in Captures, Snapshots(s), Candidate(s, c)
    PROVE /\ Replaced(s, c) \in States /\ Snapshots(Replaced(s, c)) /\ Replaced(s, c).seq = s.seq
          /\ s.gone \subseteq Replaced(s, c).gone /\ Lessened(Replaced(s, c), s)
<1> DEFINE r == Replaced(s, c)
<1>1. c.seq # s.capture.seq
  BY DEF Candidate
<1>2. /\ r \in States /\ r.capture = c /\ r.seq = s.seq /\ r.gone = s.gone \cup {s.capture.seq} /\ Lessened(r, s)
      /\ \A x \in AllSlots : s.capture.owned /\ s.slots[x].staged.seq = s.capture.seq /\ s.capture.seq # 0
             => r.slots[x].staged = NoCapture
  BY <1>1, ReplacedShape
<1> HIDE DEF r
<1>3. Staged(r) /\ \A h : Holds(s, h) => Holds(r, h)
  BY <1>2, LessenedFits DEF Snapshots
<1>4. Held(r)
  BY <1>3, <1>2 DEF Snapshots, Held, Candidate
<1>5. s.seq \in Nat /\ c.seq \in Nat /\ s.capture.seq \in Nat
  BY DEF States, Captures
<1>6. ASSUME NEW x \in AllSlots, r.slots[x].staged # NoCapture
      PROVE /\ r.slots[x].staged = s.slots[x].staged
            /\ s.slots[x].staged.seq \in 1..(s.seq - 1) /\ s.slots[x].staged.seq \notin s.gone
            /\ s.slots[x].staged.seq # s.capture.seq
            /\ \A h \in present.held : h.seq = s.slots[x].staged.seq => h.owned
            /\ \A y \in AllSlots : x # y => s.slots[y].staged.seq # s.slots[x].staged.seq
  <2>1. r.slots[x].staged = s.slots[x].staged /\ s.slots[x].staged # NoCapture
    BY <1>2, <1>6 DEF Lessened
  <2>2. /\ s.slots[x].staged.seq \in 1..(s.seq - 1) /\ s.slots[x].staged.seq \notin s.gone
        /\ s.slots[x].staged.seq = s.capture.seq => s.capture.owned
        /\ \A h \in present.held : h.seq = s.slots[x].staged.seq => h.owned
        /\ \A y \in AllSlots : x # y => s.slots[y].staged.seq # s.slots[x].staged.seq
    BY <2>1 DEF Snapshots, Numbered
  <2>3. s.slots[x].staged.seq # s.capture.seq
    BY <2>2, <2>1, <1>2, <1>6, <1>5
  <2> QED BY <2>1, <2>2, <2>3
<1>7. NoCapture.seq = 0
  BY DEF NoCapture
<1>8. Numbered(r)
  <2>1. \A n \in r.gone : n < r.seq
    BY <1>2, <1>5 DEF Snapshots, Numbered
  <2>2. r.capture.seq < r.seq /\ r.capture.seq # 0 /\ r.capture.seq \notin r.gone
    BY <1>2, <1>5, <1>1 DEF Candidate
  <2>3. ASSUME NEW x \in AllSlots, r.slots[x].staged # NoCapture
        PROVE /\ r.slots[x].staged.seq \in 1..(r.seq - 1) /\ r.slots[x].staged.seq \notin r.gone
              /\ r.slots[x].staged.seq = r.capture.seq => r.capture.owned
              /\ \A h \in present.held : h.seq = r.slots[x].staged.seq => h.owned
              /\ \A y \in AllSlots : x # y => r.slots[y].staged.seq # r.slots[x].staged.seq
    <3>1. r.slots[x].staged.seq \in 1..(r.seq - 1) /\ r.slots[x].staged.seq \notin r.gone
      BY <2>3, <1>6, <1>2
    <3>2. r.slots[x].staged.seq = r.capture.seq => r.capture.owned
      <4>1. r.slots[x].staged = s.slots[x].staged
        BY <2>3, <1>6
      <4> QED BY <4>1, <2>3, <1>2 DEF Candidate
    <3>3. \A h \in present.held : h.seq = r.slots[x].staged.seq => h.owned
      BY <2>3, <1>6
    <3>4. \A y \in AllSlots : x # y => r.slots[y].staged.seq # r.slots[x].staged.seq
      <4> TAKE y \in AllSlots
      <4> HAVE x # y
      <4>1. r.slots[y].staged \in {s.slots[y].staged, NoCapture}
        BY <1>2 DEF Lessened
      <4>2. r.slots[x].staged = s.slots[x].staged /\ s.slots[x].staged.seq # 0 /\ s.slots[y].staged.seq # s.slots[x].staged.seq
        BY <2>3, <1>6, <1>5
      <4> QED BY <4>1, <4>2, <1>7
    <3> QED BY <3>1, <3>2, <3>3, <3>4
  <2>4. ASSUME NEW h \in present.held PROVE h.seq \in 1..(r.seq - 1) /\ (h.seq = r.capture.seq => (h.owned = r.capture.owned))
    BY <2>4, <1>2 DEF Candidate, Snapshots, Numbered
  <2> QED BY <2>1, <2>2, <2>3, <2>4 DEF Numbered
<1>9. Snapshots(r)
  BY <1>3, <1>4, <1>8 DEF Snapshots
<1> QED BY <1>2, <1>9 DEF r

---------------------------------------------------------------------------
(* Promotion.                                                              *)

\* Induction over a number of steps: the least counterexample.
LEMMA LeastNatural ==
    ASSUME NEW T, T \subseteq Nat, T # {}
    PROVE \E k \in T : \A j \in T : k <= j
<1>1. PICK k \in T : \A j \in T : ~(<<j, k>> \in OpToRel(<, Nat))
  BY WFMin, NatLessThanWellFounded, Zenon
<1>2. \A j \in T : ~(j < k)
  BY <1>1 DEF OpToRel
<1>3. ASSUME NEW j \in T PROVE k <= j
  <2>1. j \in Nat /\ k \in Nat /\ ~(j < k) BY <1>2
  <2> QED BY <2>1
<1> QED BY <1>3

\* The first n steps over the slots of a queue, as a function.
Steps(h, n, s, q) == h = [i \in 0..n |-> IF i = 0 THEN s ELSE Promote(h[i - 1], <<q, i>>)]

LEMMA StepsExist ==
    ASSUME NEW s, NEW q, NEW n \in Nat
    PROVE \E h : Steps(h, n, s, q)
<1> DEFINE T == {k \in Nat : ~\E h : Steps(h, k, s, q)}
<1>1. SUFFICES ASSUME T # {} PROVE FALSE
  OBVIOUS
<1>2. PICK k \in T : \A j \in T : k <= j
  BY <1>1, LeastNatural
<1>3. CASE k = 0
  <2> DEFINE h == [i \in 0..0 |-> s]
  <2>1. Steps(h, 0, s, q)
    BY DEF Steps
  <2> QED BY <2>1, <1>2, <1>3
<1>4. CASE k # 0
  <2>1. k \in Nat /\ k - 1 \in Nat /\ k - 1 \notin T
    BY <1>2, <1>4
  <2>2. PICK h : Steps(h, k - 1, s, q)
    BY <2>1
  <2> DEFINE g == [i \in 0..k |-> IF i = k THEN Promote(h[k - 1], <<q, k>>) ELSE h[i]]
  <2>3. \A i \in 0..k : g[i] = IF i = 0 THEN s ELSE Promote(g[i - 1], <<q, i>>)
    <3> TAKE i \in 0..k
    <3>0. k \in Nat /\ i \in 0..k BY <2>1
    <3>1. CASE i = k
      <4>1. g[i] = Promote(h[k - 1], <<q, k>>) BY <3>1, <3>0
      <4>2. g[i - 1] = h[k - 1] BY <3>1, <3>0, <2>1
      <4> QED BY <4>1, <4>2, <3>1, <1>4
    <3>2. CASE i # k
      <4>1. g[i] = h[i] /\ i \in 0..(k - 1) BY <3>2, <3>0, <2>1
      <4>2. h[i] = IF i = 0 THEN s ELSE Promote(h[i - 1], <<q, i>>) BY <4>1, <2>2 DEF Steps
      <4>3. i # 0 => g[i - 1] = h[i - 1] BY <4>1, <3>0
      <4> QED BY <4>1, <4>2, <4>3
    <3> QED BY <3>1, <3>2
  <2>4. Steps(g, k, s, q)
    <3> DEFINE e == [i \in 0..k |-> IF i = 0 THEN s ELSE Promote(g[i - 1], <<q, i>>)]
    <3>1. g = [i \in 0..k |-> g[i]] OBVIOUS
    <3>2. e = [i \in 0..k |-> e[i]] OBVIOUS
    <3>3. \A i \in 0..k : e[i] = g[i] BY <2>3
    <3> HIDE DEF g
    <3>4. e = g BY <3>1, <3>2, <3>3
    <3> QED BY <3>4 DEF Steps
  <2> QED BY <2>4, <1>2
<1> QED BY <1>3, <1>4

LEMMA PromotedOfIsLast ==
    ASSUME NEW s, NEW q
    PROVE \E h : Steps(h, Slots, s, q) /\ PromotedOf(s, q) = h[Slots]
<1> DEFINE after == CHOOSE h : h = [i \in 0..Slots |-> IF i = 0 THEN s ELSE Promote(h[i - 1], <<q, i>>)]
<1>1. \E h : h = [i \in 0..Slots |-> IF i = 0 THEN s ELSE Promote(h[i - 1], <<q, i>>)]
  <2>1. Slots \in Nat BY GuidesAssumption
  <2>2. \E h : Steps(h, Slots, s, q) BY <2>1, StepsExist
  <2> QED BY <2>2, Zenon DEF Steps
<1>2. after = [i \in 0..Slots |-> IF i = 0 THEN s ELSE Promote(after[i - 1], <<q, i>>)]
  BY <1>1
<1>3. PromotedOf(s, q) = after[Slots]
  BY DEF PromotedOf
<1> QED BY <1>2, <1>3 DEF Steps

\* The first n steps over the queues, as a function.
Rounds(h, n, s, order) == h = [i \in 0..n |-> IF i = 0 THEN s ELSE PromotedOf(h[i - 1], order[i])]

LEMMA RoundsExist ==
    ASSUME NEW s, NEW order, NEW n \in Nat
    PROVE \E h : Rounds(h, n, s, order)
<1> DEFINE T == {k \in Nat : ~\E h : Rounds(h, k, s, order)}
<1>1. SUFFICES ASSUME T # {} PROVE FALSE
  OBVIOUS
<1>2. PICK k \in T : \A j \in T : k <= j
  BY <1>1, LeastNatural
<1>3. CASE k = 0
  <2> DEFINE h == [i \in 0..0 |-> s]
  <2>1. Rounds(h, 0, s, order)
    BY DEF Rounds
  <2> QED BY <2>1, <1>2, <1>3
<1>4. CASE k # 0
  <2>1. k \in Nat /\ k - 1 \in Nat /\ k - 1 \notin T
    BY <1>2, <1>4
  <2>2. PICK h : Rounds(h, k - 1, s, order)
    BY <2>1
  <2> DEFINE g == [i \in 0..k |-> IF i = k THEN PromotedOf(h[k - 1], order[k]) ELSE h[i]]
  <2>3. \A i \in 0..k : g[i] = IF i = 0 THEN s ELSE PromotedOf(g[i - 1], order[i])
    <3> TAKE i \in 0..k
    <3>0. k \in Nat /\ i \in 0..k BY <2>1
    <3>1. CASE i = k
      <4>1. g[i] = PromotedOf(h[k - 1], order[k]) BY <3>1, <3>0
      <4>2. g[i - 1] = h[k - 1] BY <3>1, <3>0, <2>1
      <4> QED BY <4>1, <4>2, <3>1, <1>4
    <3>2. CASE i # k
      <4>1. g[i] = h[i] /\ i \in 0..(k - 1) BY <3>2, <3>0, <2>1
      <4>2. h[i] = IF i = 0 THEN s ELSE PromotedOf(h[i - 1], order[i]) BY <4>1, <2>2 DEF Rounds
      <4>3. i # 0 => g[i - 1] = h[i - 1] BY <4>1, <3>0
      <4> QED BY <4>1, <4>2, <4>3
    <3> QED BY <3>1, <3>2
  <2>4. Rounds(g, k, s, order)
    <3> DEFINE e == [i \in 0..k |-> IF i = 0 THEN s ELSE PromotedOf(g[i - 1], order[i])]
    <3>1. g = [i \in 0..k |-> g[i]] OBVIOUS
    <3>2. e = [i \in 0..k |-> e[i]] OBVIOUS
    <3>3. \A i \in 0..k : e[i] = g[i] BY <2>3
    <3> HIDE DEF g
    <3>4. e = g BY <3>1, <3>2, <3>3
    <3> QED BY <3>4 DEF Rounds
  <2> QED BY <2>4, <1>2
<1> QED BY <1>3, <1>4

LEMMA PromotedIsLast ==
    ASSUME NEW s, NEW order, Len(order) \in Nat
    PROVE \E h : Rounds(h, Len(order), s, order) /\ Promoted(s, order) = h[Len(order)]
<1> DEFINE after == CHOOSE h : h = [i \in 0..Len(order) |-> IF i = 0 THEN s ELSE PromotedOf(h[i - 1], order[i])]
<1>1. \E h : h = [i \in 0..Len(order) |-> IF i = 0 THEN s ELSE PromotedOf(h[i - 1], order[i])]
  <2>1. Len(order) \in Nat OBVIOUS
  <2>2. \E h : Rounds(h, Len(order), s, order) BY <2>1, RoundsExist
  <2> QED BY <2>2, Zenon DEF Rounds
<1>2. after = [i \in 0..Len(order) |-> IF i = 0 THEN s ELSE PromotedOf(after[i - 1], order[i])]
  BY <1>1
<1>3. Promoted(s, order) = after[Len(order)]
  BY DEF Promoted
<1> QED BY <1>2, <1>3 DEF Rounds

\* What one promotion, or all of them, may make of the lock's value.
Follows(r, s) ==
    /\ r \in States /\ Snapshots(r) /\ r.seq = s.seq /\ s.gone \subseteq r.gone /\ Lessened(r, s)

LEMMA FollowsItself ==
    ASSUME NEW s \in States, Snapshots(s)
    PROVE Follows(s, s)
BY DEF Follows, Lessened

LEMMA FollowsOn ==
    ASSUME NEW r, NEW s, NEW t, s \in States, Follows(r, s), Follows(t, r)
    PROVE Follows(t, s)
<1>1. Lessened(t, s)
  BY DEF Follows, Lessened
<1> QED BY <1>1 DEF Follows

\* A number is struck off that is neither the current one nor zero.
LEMMA ConsumedFits ==
    ASSUME NEW s \in States, Snapshots(s), NEW n \in 1..(s.seq - 1), n # s.capture.seq
    PROVE Follows(Consumed(s, n), s)
<1> DEFINE r == Consumed(s, n)
<1>1. n \in Nat /\ n # 0 /\ s.seq \in Nat /\ s.capture.seq \in Nat /\ n < s.seq
  BY DEF States, Captures
<1>2. /\ r \in States /\ r.capture = s.capture /\ r.seq = s.seq /\ r.gone = s.gone \cup {n} /\ Lessened(r, s)
      /\ \A x \in AllSlots : r.slots[x].staged = IF s.slots[x].staged.seq = n THEN NoCapture ELSE s.slots[x].staged
  BY <1>1, ConsumedShape
<1> HIDE DEF r
<1>3. Staged(r) /\ \A h : Holds(s, h) => Holds(r, h)
  BY <1>2, LessenedFits DEF Snapshots
<1>4. Held(r)
  BY <1>3, <1>2 DEF Snapshots, Held
<1>5. NoCapture.seq = 0
  BY DEF NoCapture
<1>6. Numbered(r)
  <2>1. \A k \in r.gone : k < r.seq
    BY <1>2, <1>1 DEF Snapshots, Numbered
  <2>2. /\ r.capture.seq < r.seq /\ (r.capture.seq = 0 => r.capture = NoCapture)
        /\ (r.capture.seq # 0 => r.capture.seq \notin r.gone)
    BY <1>2, <1>1 DEF Snapshots, Numbered
  <2>3. ASSUME NEW x \in AllSlots, r.slots[x].staged # NoCapture
        PROVE /\ r.slots[x].staged.seq \in 1..(r.seq - 1) /\ r.slots[x].staged.seq \notin r.gone
              /\ r.slots[x].staged.seq = r.capture.seq => r.capture.owned
              /\ \A h \in present.held : h.seq = r.slots[x].staged.seq => h.owned
              /\ \A y \in AllSlots : x # y => r.slots[y].staged.seq # r.slots[x].staged.seq
    <3>1. r.slots[x].staged = s.slots[x].staged /\ s.slots[x].staged.seq # n /\ s.slots[x].staged # NoCapture
      BY <2>3, <1>2
    <3>2. /\ s.slots[x].staged.seq \in 1..(s.seq - 1) /\ s.slots[x].staged.seq \notin s.gone
          /\ s.slots[x].staged.seq = s.capture.seq => s.capture.owned
          /\ \A h \in present.held : h.seq = s.slots[x].staged.seq => h.owned
          /\ \A y \in AllSlots : x # y => s.slots[y].staged.seq # s.slots[x].staged.seq
      BY <3>1 DEF Snapshots, Numbered
    <3>3. \A y \in AllSlots : x # y => r.slots[y].staged.seq # r.slots[x].staged.seq
      BY <3>1, <3>2, <1>2, <1>5, <1>1
    <3> QED BY <3>1, <3>2, <3>3, <1>2
  <2>4. ASSUME NEW h \in present.held PROVE h.seq \in 1..(r.seq - 1) /\ (h.seq = r.capture.seq => (h.owned = r.capture.owned))
    BY <1>2 DEF Snapshots, Numbered
  <2> QED BY <2>1, <2>2, <2>3, <2>4 DEF Numbered
<1> QED BY <1>2, <1>3, <1>4, <1>6 DEF Follows, Snapshots, r

\* A slot whose value is reached has nothing queued.
LEMMA CompleteHasNoCopy ==
    ASSUME TypeInv, Queued, Registered, NEW x \in AllSlots,
           slots[x].value # InFlight, reached[x[1]] >= slots[x].value
    PROVE Copies(x) = {}
<1>1. SUFFICES ASSUME NEW i \in DOMAIN work[x[1]], work[x[1]][i].slot = x PROVE FALSE
  BY DEF Copies
<1> DEFINE w == work[x[1]][i]
<1>2. x[1] \in Queues
  BY DEF AllSlots
<1>3. Known(w) /\ w.slot = x
  BY <1>1, <1>2 DEF Registered
<1>4. w.value # 0 => reached[x[1]] < w.value
  BY <1>1, <1>2 DEF Queued, Outstanding
<1>5. w.value \in Nat /\ reached[x[1]] \in Nat /\ slots[x].value \in Nat \cup {InFlight}
  <2>1. work[x[1]] \in Seq(Copy)
    BY <1>2 DEF TypeInv
  <2>2. w \in Copy
    BY <2>1, <1>1
  <2> QED BY <2>2, <1>2 DEF TypeInv, Copy, SlotStates
<1>6. w.value = 0
  BY <1>3, <1>4, <1>5 DEF Known
<1> QED BY <1>6, <1>3 DEF Known

\* promoteCompletedSnapshotSlots, one slot.
LEMMA PromoteFits ==
    ASSUME TypeInv, Queued, Registered, NEW s \in States, Snapshots(s), Lessened(s, State), NEW x \in AllSlots
    PROVE Follows(Promote(s, x), s)
<1> DEFINE slot == s.slots[x]
           passed == \/ slot.consumed \/ slot.value \in {0, InFlight} \/ reached[x[1]] < slot.value
                     \/ slot.staged = NoCapture \/ s.capture.seq = slot.staged.seq
<1>1. CASE passed
  <2>1. Promote(s, x) = s
    BY <1>1 DEF Promote
  <2> QED BY <2>1, FollowsItself
<1>2. CASE ~passed
  <2>1. /\ slot.value \notin {0, InFlight} /\ slot.staged # NoCapture /\ slot.staged.seq # s.capture.seq
        /\ ~(reached[x[1]] < slot.value)
    BY <1>2
  <2>2. slot \in SlotStates /\ slot.staged \in Captures /\ x[1] \in Queues
    BY DEF States, SlotStates, AllSlots
  <2>3. reached[x[1]] \in Nat /\ slot.value \in Nat /\ reached[x[1]] >= slot.value
    BY <2>1, <2>2 DEF TypeInv, SlotStates
  <2>4. Complete(s, x)
    BY <2>1, <2>3 DEF Complete
  <2>5. slots[x].value = slot.value
    BY DEF Lessened, State
  <2>6. Copies(x) = {}
    BY <2>5, <2>1, <2>3, CompleteHasNoCopy
  <2>7. slot.staged.owned /\ slot.staged.slot = x /\ WillShow(x, slot.staged.guides)
    BY <2>1 DEF Snapshots, Staged
  <2>8. Holds(s, slot.staged)
    BY <2>7, <2>6, <2>4 DEF Holds, WillShow
  <2>9. /\ slot.staged.seq \in 1..(s.seq - 1) /\ slot.staged.seq \notin s.gone
        /\ \A h \in present.held : h.seq = slot.staged.seq => h.owned
    BY <2>1 DEF Snapshots, Numbered
  <2>10. Candidate(s, slot.staged)
    <3>1. \A h \in present.held : h \in Captures /\ h.owned \in BOOLEAN
      BY DEF TypeInv, Captures
    <3> QED BY <2>8, <2>9, <2>1, <2>7, <3>1 DEF Candidate
  <2>11. Promote(s, x) = IF CanReplace(s.capture, slot.staged) THEN Replaced(s, slot.staged) ELSE Consumed(s, slot.staged.seq)
    BY <1>2 DEF Promote
  <2>12. Follows(Replaced(s, slot.staged), s)
    BY <2>10, <2>2, ReplacedFits DEF Follows
  <2>13. Follows(Consumed(s, slot.staged.seq), s)
    BY <2>9, <2>1, ConsumedFits
  <2> QED BY <2>11, <2>12, <2>13
<1> QED BY <1>1, <1>2

LEMMA LessenedOn ==
    ASSUME NEW r, NEW s, NEW t, Lessened(r, s), Lessened(t, r)
    PROVE Lessened(t, s)
BY DEF Lessened

\* promoteCompletedSnapshotSlots: every slot of a queue.
LEMMA PromotedOfFits ==
    ASSUME TypeInv, Queued, Registered, NEW s \in States, Snapshots(s), Lessened(s, State), NEW q \in Queues
    PROVE Follows(PromotedOf(s, q), s)
<1>1. PICK h : Steps(h, Slots, s, q) /\ PromotedOf(s, q) = h[Slots]
  BY PromotedOfIsLast
<1>2. Slots \in Nat
  BY GuidesAssumption
<1> DEFINE T == {k \in 0..Slots : ~Follows(h[k], s)}
<1>3. T = {}
  <2>1. SUFFICES ASSUME T # {} PROVE FALSE
    OBVIOUS
  <2>2. PICK k \in T : \A j \in T : k <= j
    <3>1. T \subseteq Nat
      BY <1>2
    <3> QED BY <2>1, <3>1, LeastNatural
  <2>3. k \in 0..Slots /\ k \in Nat /\ ~Follows(h[k], s)
    BY <2>2, <1>2
  <2>4. h[k] = IF k = 0 THEN s ELSE Promote(h[k - 1], <<q, k>>)
    BY <1>1, <2>3 DEF Steps
  <2>5. k # 0
    BY <2>3, <2>4, FollowsItself
  <2>6. k - 1 \in 0..Slots /\ ~(k <= k - 1)
    BY <2>3, <2>5, <1>2
  <2>7. Follows(h[k - 1], s)
    BY <2>6, <2>2
  <2>8. h[k - 1] \in States /\ Snapshots(h[k - 1]) /\ Lessened(h[k - 1], State)
    BY <2>7, LessenedOn DEF Follows
  <2>9. <<q, k>> \in AllSlots
    BY <2>3, <2>5, <1>2 DEF AllSlots
  <2>10. Follows(Promote(h[k - 1], <<q, k>>), h[k - 1])
    BY <2>8, <2>9, PromoteFits
  <2>11. Follows(h[k], h[k - 1])
    BY <2>10, <2>4, <2>5
  <2>12. Follows(h[k], s)
    BY <2>11, <2>7, FollowsOn
  <2> QED BY <2>12, <2>3
<1>4. Slots \in 0..Slots
  BY <1>2
<1>5. Follows(h[Slots], s)
  BY <1>3, <1>4
<1> QED BY <1>5, <1>1

\* promoteCompletedSnapshotsLocked: every queue, in any order.
LEMMA PromotedFits ==
    ASSUME TypeInv, Queued, Registered, NEW s \in States, Snapshots(s), Lessened(s, State), NEW order \in SetToSeqs(Queues)
    PROVE Follows(Promoted(s, order), s)
<1>1. Cardinality(Queues) \in Nat
  BY GuidesAssumption, FS_CardinalityType
<1>2. order \in [1..Cardinality(Queues) -> Queues]
  BY DEF SetToSeqs
<1>3. Len(order) = Cardinality(Queues) /\ Len(order) \in Nat /\ \A i \in 1..Len(order) : order[i] \in Queues
  BY <1>1, <1>2
<1>4. PICK h : Rounds(h, Len(order), s, order) /\ Promoted(s, order) = h[Len(order)]
  BY <1>3, PromotedIsLast
<1> DEFINE n == Len(order)
           T == {k \in 0..n : ~Follows(h[k], s)}
<1>5. n \in Nat
  BY <1>3
<1> HIDE DEF n
<1>6. T = {}
  <2>1. SUFFICES ASSUME T # {} PROVE FALSE
    OBVIOUS
  <2>2. PICK k \in T : \A j \in T : k <= j
    <3>1. T \subseteq Nat
      BY <1>5
    <3> QED BY <2>1, <3>1, LeastNatural
  <2>3. k \in 0..n /\ k \in Nat /\ ~Follows(h[k], s)
    BY <2>2, <1>5
  <2>4. h[k] = IF k = 0 THEN s ELSE PromotedOf(h[k - 1], order[k])
    BY <1>4, <2>3 DEF Rounds, n
  <2>5. k # 0
    BY <2>3, <2>4, FollowsItself
  <2>6. k - 1 \in 0..n /\ ~(k <= k - 1) /\ k \in 1..n
    BY <2>3, <2>5, <1>5
  <2>7. Follows(h[k - 1], s)
    BY <2>6, <2>2
  <2>8. h[k - 1] \in States /\ Snapshots(h[k - 1]) /\ Lessened(h[k - 1], State)
    BY <2>7, LessenedOn DEF Follows
  <2>9. order[k] \in Queues
    BY <2>6, <1>3 DEF n
  <2>10. Follows(PromotedOf(h[k - 1], order[k]), h[k - 1])
    BY <2>8, <2>9, PromotedOfFits
  <2>11. Follows(h[k], h[k - 1])
    BY <2>10, <2>4, <2>5
  <2>12. Follows(h[k], s)
    BY <2>11, <2>7, FollowsOn
  <2> QED BY <2>12, <2>3
<1>7. n \in 0..n
  BY <1>5
<1>8. Follows(h[n], s)
  BY <1>6, <1>7
<1> QED BY <1>8, <1>4 DEF n

---------------------------------------------------------------------------
(* The other ways a capture ends or begins.                                *)

\* The current capture is dropped, with the slot it was staged in.
LEMMA DroppedFits ==
    ASSUME NEW s \in States, Snapshots(s), NEW r \in States, Lessened(r, s),
           r.capture = NoCapture, r.seq = s.seq, r.gone = s.gone \cup {s.capture.seq},
           \A x \in AllSlots : s.slots[x].staged.seq = s.capture.seq /\ s.capture.seq # 0 => r.slots[x].staged = NoCapture
    PROVE Follows(r, s)
<1>1. Staged(r) /\ \A h : Holds(s, h) => Holds(r, h)
  BY LessenedFits DEF Snapshots
<1>2. NoCapture.seq = 0 /\ ~NoCapture.owned
  BY DEF NoCapture
<1>3. Held(r)
  BY <1>1, <1>2 DEF Snapshots, Held, Holds
<1>4. s.seq \in Nat /\ s.capture.seq \in Nat
  BY DEF States, Captures
<1>5. 0 < s.seq
  BY <1>4 DEF Snapshots, Numbered
<1>6. ASSUME NEW x \in AllSlots, r.slots[x].staged # NoCapture
      PROVE /\ r.slots[x].staged = s.slots[x].staged
            /\ s.slots[x].staged.seq \in 1..(s.seq - 1) /\ s.slots[x].staged.seq \notin r.gone
            /\ \A h \in present.held : h.seq = s.slots[x].staged.seq => h.owned
            /\ \A y \in AllSlots : x # y => s.slots[y].staged.seq # s.slots[x].staged.seq
  <2>1. r.slots[x].staged = s.slots[x].staged /\ s.slots[x].staged # NoCapture
    BY <1>6 DEF Lessened
  <2>2. /\ s.slots[x].staged.seq \in 1..(s.seq - 1) /\ s.slots[x].staged.seq \notin s.gone
        /\ \A h \in present.held : h.seq = s.slots[x].staged.seq => h.owned
        /\ \A y \in AllSlots : x # y => s.slots[y].staged.seq # s.slots[x].staged.seq
    BY <2>1 DEF Snapshots, Numbered
  <2>3. s.slots[x].staged.seq # s.capture.seq
    BY <2>2, <1>6, <1>4
  <2> QED BY <2>1, <2>2, <2>3
<1>7. Numbered(r)
  <2>1. \A k \in r.gone : k < r.seq
    BY <1>4 DEF Snapshots, Numbered
  <2>2. ASSUME NEW x \in AllSlots, r.slots[x].staged # NoCapture
        PROVE /\ r.slots[x].staged.seq \in 1..(r.seq - 1) /\ r.slots[x].staged.seq \notin r.gone
              /\ r.slots[x].staged.seq # r.capture.seq
              /\ \A h \in present.held : h.seq = r.slots[x].staged.seq => h.owned
              /\ \A y \in AllSlots : x # y => r.slots[y].staged.seq # r.slots[x].staged.seq
    <3>1. \A y \in AllSlots : r.slots[y].staged \in {s.slots[y].staged, NoCapture}
      BY DEF Lessened
    <3> QED BY <2>2, <1>6, <1>2, <3>1, <1>4
  <2>3. ASSUME NEW h \in present.held PROVE h.seq \in 1..(r.seq - 1) /\ h.seq # r.capture.seq
    BY <1>2, <1>4 DEF Snapshots, Numbered
  <2> QED BY <2>1, <2>2, <2>3, <1>2, <1>5 DEF Numbered
<1> QED BY <1>1, <1>3, <1>7 DEF Follows, Snapshots

\* snapshotFor12: a snapshot that is too old is dropped.
LEMMA ExpiredFits ==
    ASSUME NEW s \in States, Snapshots(s)
    PROVE Follows([Consumed(s, s.capture.seq) EXCEPT !.capture = NoCapture], s)
<1> DEFINE n == s.capture.seq
           t == Consumed(s, n)
           r == [t EXCEPT !.capture = NoCapture]
<1>1. n \in Nat
  BY DEF States, Captures
<1> HIDE DEF n
<1>2. /\ t \in States /\ t.seq = s.seq /\ t.gone = s.gone \cup {n} /\ Lessened(t, s)
      /\ \A x \in AllSlots : s.slots[x].staged.seq = n /\ n # 0 => t.slots[x].staged = NoCapture
  BY <1>1, ConsumedShape
<1> HIDE DEF t
<1>3. r \in States /\ r.capture = NoCapture /\ r.seq = t.seq /\ r.gone = t.gone /\ r.slots = t.slots
  BY <1>2, NoCaptureFits DEF States
<1>4. Lessened(r, s)
  BY <1>3, <1>2 DEF Lessened
<1> HIDE DEF r
<1>5. Follows(r, s)
  BY <1>2, <1>3, <1>4, DroppedFits DEF n
<1> QED BY <1>5 DEF r, t, n

\* releaseCapturedGameTemporalGuides: nothing is left.
LEMMA ReleasedFits ==
    ASSUME NEW s \in States, Snapshots(s)
    PROVE Follows(Released(s), s)
<1> DEFINE Slot(x) == [s.slots[x] EXCEPT !.consumed = TRUE, !.staged = NoCapture]
           more == {s.capture.seq} \cup {s.slots[x].staged.seq : x \in AllSlots}
           r == [s EXCEPT !.capture = NoCapture, !.slots = [x \in AllSlots |-> Slot(x)], !.gone = s.gone \cup more]
<1>1. Released(s) = r
  BY DEF Released
<1>2. NoCapture.seq = 0 /\ ~NoCapture.owned /\ NoCapture \in Captures
  BY NoCaptureFits DEF NoCapture
<1>3. s.seq \in Nat /\ s.capture.seq \in Nat /\ s.capture.seq < s.seq /\ 0 < s.seq
  BY DEF States, Captures, Snapshots, Numbered
<1>4. \A n \in more : n \in Nat /\ n < s.seq
  <2>1. ASSUME NEW x \in AllSlots PROVE s.slots[x].staged.seq \in Nat /\ s.slots[x].staged.seq < s.seq
    <3>1. CASE s.slots[x].staged = NoCapture
      BY <3>1, <1>2, <1>3
    <3>2. CASE s.slots[x].staged # NoCapture
      BY <3>2, <1>3 DEF Snapshots, Numbered
    <3> QED BY <3>1, <3>2
  <2> QED BY <2>1, <1>3
<1>5. \A x \in AllSlots : Slot(x) \in SlotStates /\ Slot(x).value = s.slots[x].value /\ Slot(x).staged = NoCapture
  BY <1>2 DEF States, SlotStates
<1> HIDE DEF Slot, more
<1>6. /\ r.capture = NoCapture /\ r.slots = [x \in AllSlots |-> Slot(x)] /\ r.gone = s.gone \cup more /\ r.seq = s.seq
  BY DEF States
<1>7. r \in States
  <2>1. s.gone \cup more \in SUBSET Nat
    BY <1>4 DEF States
  <2>2. [x \in AllSlots |-> Slot(x)] \in [AllSlots -> SlotStates]
    BY <1>5
  <2> QED BY <2>1, <2>2, <1>2, <1>3 DEF States
<1>8. \A x \in AllSlots : r.slots[x] = Slot(x)
  BY <1>6
<1> HIDE DEF r
<1>9. Lessened(r, s)
  BY <1>8, <1>5 DEF Lessened
<1>10. Staged(r) /\ \A h : Holds(s, h) => Holds(r, h)
  BY <1>7, <1>9, LessenedFits DEF Snapshots
<1>11. Held(r)
  BY <1>10, <1>6, <1>2 DEF Snapshots, Held, Holds
<1>12. Numbered(r)
  <2>1. \A k \in r.gone : k < r.seq
    BY <1>6, <1>4, <1>3 DEF Snapshots, Numbered
  <2>2. ASSUME NEW h \in present.held PROVE h.seq \in 1..(r.seq - 1) /\ h.seq # r.capture.seq
    BY <1>6, <1>2, <1>3 DEF Snapshots, Numbered
  <2> QED BY <2>1, <2>2, <1>6, <1>8, <1>5, <1>2, <1>3 DEF Numbered
<1> QED BY <1>1, <1>6, <1>7, <1>9, <1>10, <1>11, <1>12 DEF Follows, Snapshots

\* publishCaptureLocked of a live capture: its number is new.
LEMMA PublishedFits ==
    ASSUME NEW s \in States, Snapshots(s), NEW new \in Captures, ~new.owned
    PROVE /\ Published(s, new) \in States /\ Snapshots(Published(s, new))
          /\ Published(s, new).seq \in {s.seq, s.seq + 1} /\ s.gone \subseteq Published(s, new).gone
          /\ Lessened(Published(s, new), s)
<1>1. CASE ~CanReplace(s.capture, new)
  <2>1. Published(s, new) = s
    BY <1>1 DEF Published
  <2> QED BY <2>1 DEF Lessened
<1>2. CASE CanReplace(s.capture, new)
  <2> DEFINE t == [s EXCEPT !.seq = @ + 1]
             m == Merged(s.capture, new)
             c == [m EXCEPT !.seq = s.seq]
  <2>1. Published(s, new) = Replaced(t, c)
    BY <1>2 DEF Published
  <2>2. s.seq \in Nat /\ s.capture \in Captures /\ s.capture.seq \in Nat
    BY DEF States, Captures
  <2>3. m \in Captures /\ ~m.owned
    BY <2>2, MergedFits
  <2> HIDE DEF m
  <2>4. c \in Captures /\ ~c.owned /\ c.seq = s.seq
    BY <2>2, <2>3 DEF Captures
  <2> HIDE DEF c
  <2>5. t \in States /\ t.seq = s.seq + 1 /\ t.capture = s.capture /\ t.slots = s.slots /\ t.gone = s.gone
    BY <2>2 DEF States
  <2> HIDE DEF t
  <2>6. Staged(t)
    BY <2>5 DEF Snapshots, Staged
  <2>7. Held(t)
    BY <2>5 DEF Snapshots, Held, Holds, Complete
  <2>8. \A n \in s.gone : n \in Nat /\ n < s.seq
    BY DEF States, Snapshots, Numbered
  <2>9. \A x \in AllSlots : s.slots[x].staged # NoCapture => s.slots[x].staged.seq \in 1..(s.seq - 1)
    BY DEF Snapshots, Numbered
  <2>10. \A h \in present.held : h.seq \in 1..(s.seq - 1)
    BY DEF Snapshots, Numbered
  <2>11. Numbered(t)
    <3>1. (\A n \in t.gone : n < t.seq) /\ t.capture.seq < t.seq
      BY <2>5, <2>8, <2>2 DEF Snapshots, Numbered
    <3>2. \A x \in AllSlots : t.slots[x].staged # NoCapture => t.slots[x].staged.seq \in 1..(t.seq - 1)
      BY <2>5, <2>9, <2>2
    <3>3. \A h \in present.held : h.seq \in 1..(t.seq - 1)
      BY <2>5, <2>10, <2>2
    <3> QED BY <3>1, <3>2, <3>3, <2>5 DEF Snapshots, Numbered
  <2>12. Candidate(t, c)
    <3>1. c.seq \in 1..(t.seq - 1) /\ c.seq \notin t.gone /\ c.seq # t.capture.seq
      BY <2>4, <2>5, <2>8, <2>2 DEF Snapshots, Numbered
    <3>2. \A x \in AllSlots : t.slots[x].staged # NoCapture => t.slots[x].staged.seq # c.seq
      BY <2>4, <2>5, <2>9, <2>2
    <3>3. \A h \in present.held : h.seq # c.seq
      BY <2>4, <2>10, <2>2
    <3> QED BY <3>1, <3>2, <3>3, <2>4 DEF Candidate, Holds
  <2>13. /\ Replaced(t, c) \in States /\ Snapshots(Replaced(t, c)) /\ Replaced(t, c).seq = t.seq
         /\ t.gone \subseteq Replaced(t, c).gone /\ Lessened(Replaced(t, c), t)
    BY <2>4, <2>5, <2>6, <2>7, <2>11, <2>12, ReplacedFits DEF Snapshots
  <2>14. Lessened(Replaced(t, c), s)
    BY <2>13, <2>5 DEF Lessened
  <2> QED BY <2>1, <2>13, <2>14, <2>5
<1> QED BY <1>1, <1>2

---------------------------------------------------------------------------
(* What an action that is about something else leaves alone.               *)

LEMMA StateFits ==
    ASSUME TypeInv
    PROVE State \in States /\ State.capture = capture /\ State.slots = slots /\ State.seq = next.seq /\ State.gone = gone
<1>1. next.seq \in Nat
  BY DEF TypeInv
<1> QED BY <1>1 DEF State, States, TypeInv

LEMMA QueuesSame ==
    ASSUME Queued, UNCHANGED <<work, reached>>, next'.fence = next.fence
    PROVE Queued'
BY DEF Queued, Outstanding, Increasing, OneCopy, Local

LEMMA CopyFits ==
    ASSUME TypeInv, NEW q \in Queues, NEW i \in DOMAIN work[q]
    PROVE work[q][i] \in Copy
<1>1. work[q] \in Seq(Copy)
  BY DEF TypeInv
<1> QED BY <1>1

\* The threads that record and submit are not concerned.
LEMMA WorkersSame ==
    ASSUME TypeInv, Registered, Recorded, UNCHANGED <<work, reached, texture>>,
           \A u \in Threads : calls[u].pc \in Working \/ calls'[u].pc \in Working => calls'[u] = calls[u],
           \A x \in AllSlots : slots'[x].value = slots[x].value
    PROVE Registered' /\ Recorded'
<1>1. ASSUME NEW q \in Queues, NEW i \in DOMAIN work[q], Known(work[q][i])
      PROVE Known(work[q][i])'
  <2> DEFINE w == work[q][i]
  <2>1. w \in Copy /\ w' = w
    BY CopyFits
  <2>2. w.slot \in AllSlots /\ slots'[w.slot].value = slots[w.slot].value
    BY <2>1 DEF Copy
  <2> HIDE DEF w
  <2>3. \A u \in Threads : Staging(u, w) => Staging(u, w)'
    BY <2>1 DEF Staging, Working
  <2>4. (\A u \in Threads : calls[u].pc \in Working => calls[u].slot # w.slot)
          => (\A u \in Threads : calls'[u].pc \in Working => calls'[u].slot # w.slot)
    OBVIOUS
  <2>5. Known(w)
    BY <1>1 DEF w
  <2>6. Known(w)'
    BY <2>1, <2>2, <2>3, <2>4, <2>5 DEF Known
  <2> QED BY <2>6 DEF w
<1>2. Registered'
  BY <1>1 DEF Registered
<1>3. ASSUME NEW u \in Threads, calls'[u].pc \in Working PROVE calls'[u] = calls[u]
  BY <1>3
<1>4. ASSUME NEW u \in Threads, calls'[u].pc = "submit"
      PROVE (/\ Copies(calls[u].slot) = {}
             /\ reached[calls[u].queue] < calls[u].value
             /\ \A i \in DOMAIN work[calls[u].queue] : work[calls[u].queue][i].value < calls[u].value)'
  <2>1. calls'[u] = calls[u] /\ calls[u].pc = "submit"
    BY <1>3, <1>4 DEF Working
  <2>2. Copies(calls[u].slot) = {} => (Copies(calls[u].slot) = {})'
    BY <2>1 DEF Copies
  <2> QED BY <2>1, <2>2 DEF Recorded
<1>5. ASSUME NEW u \in Threads, calls'[u].pc = "stage"
      PROVE WillShow(calls[u].slot, calls[u].guides.guides)'
  <2>1. calls'[u] = calls[u] /\ WillShow(calls[u].slot, calls[u].guides.guides)
    BY <1>3, <1>5 DEF Working, Recorded
  <2> QED BY <2>1 DEF WillShow, Copies, Shows
<1>6. Recorded'
  BY <1>4, <1>5 DEF Recorded
<1> QED BY <1>2, <1>6

\* One thread moves on, and what it knows is sound.
LEMMA CallersKept ==
    ASSUME TypeInv, Callers, UNCHANGED submit, next'.fence = next.fence,
           \A x \in AllSlots : slots'[x].value = slots[x].value,
           \A l \in Lists : Raw(pending'[l]),
           \A u \in Threads : calls'[u] = calls[u] \/ Sound(u, calls'[u])
    PROVE Callers'
<1>1. ASSUME NEW u \in Threads PROVE Sound(u, calls'[u])
  BY DEF Callers
<1>2. ASSUME NEW u \in Threads PROVE Sound(u, calls[u])'
  BY <1>1 DEF Sound
<1> QED BY <1>2 DEF Callers, Raw

\* The lock's value becomes one the lemmas above vouch for.
LEMMA SnapshotsBecome ==
    ASSUME TypeInv, TypeInv', NEW r \in States, Snapshots(r),
           capture' = r.capture, slots' = r.slots, gone' = r.gone, next'.seq = r.seq, next'.fence = next.fence,
           UNCHANGED <<work, reached, texture>>,
           \A c \in present'.held : c \in present.held \/ (c = r.capture /\ c.seq # 0)
    PROVE Snapshots(State)'
<1>1. State' = r
  BY DEF States, State
<1>2. Staged(State)'
  BY <1>1 DEF Snapshots, Staged, WillShow, Copies
<1>3. Held(State)'
  BY <1>1 DEF Snapshots, Held, Holds, Complete
<1>4. ASSUME NEW c \in present'.held
      PROVE /\ c.seq \in 1..(r.seq - 1) /\ (c.seq = r.capture.seq => (c.owned = r.capture.owned))
            /\ \A x \in AllSlots : r.slots[x].staged # NoCapture /\ c.seq = r.slots[x].staged.seq => c.owned
  <2>1. CASE c \in present.held
    BY <2>1 DEF Snapshots, Numbered
  <2>2. CASE c = r.capture /\ c.seq # 0
    <3>1. c.seq \in Nat /\ r.seq \in Nat
      BY <2>2 DEF States, Captures
    <3>2. c.seq < r.seq
      BY <2>2 DEF Snapshots, Numbered
    <3> QED BY <2>2, <3>1, <3>2 DEF Snapshots, Numbered
  <2> QED BY <2>1, <2>2
<1>5. Numbered(State)'
  BY <1>1, <1>4 DEF Snapshots, Numbered
<1> QED BY <1>2, <1>3, <1>5 DEF Snapshots

LEMMA SnapshotsSame ==
    ASSUME TypeInv, TypeInv', Snapshots(State), UNCHANGED <<capture, slots, gone, next, work, reached, texture>>,
           present'.held \subseteq present.held
    PROVE Snapshots(State)'
<1> DEFINE r == State
<1>1. r \in States /\ r.capture = capture /\ r.slots = slots /\ r.seq = next.seq /\ r.gone = gone /\ Snapshots(r)
  BY StateFits
<1> HIDE DEF r
<1> QED BY <1>1, SnapshotsBecome

\* A live capture learns its list or its queue.
LEMMA LiveChanged ==
    ASSUME TypeInv, TypeInv', Snapshots(State), ~capture.owned, ~capture'.owned, capture'.seq = capture.seq,
           capture.seq = 0 => capture' = NoCapture,
           UNCHANGED <<slots, gone, next, present, work, reached, texture>>
    PROVE Snapshots(State)'
<1> DEFINE s == State
           r == [s EXCEPT !.capture = capture']
<1>1. s \in States /\ s.capture = capture /\ s.slots = slots /\ s.seq = next.seq /\ s.gone = gone /\ Snapshots(s)
  BY StateFits
<1> HIDE DEF s
<1>2. capture' \in Captures
  BY DEF TypeInv
<1>3. r \in States /\ r.capture = capture' /\ r.slots = slots /\ r.seq = next.seq /\ r.gone = gone
  BY <1>1, <1>2 DEF States
<1> HIDE DEF r
<1>4. Staged(r)
  BY <1>1, <1>3 DEF Snapshots, Staged
<1>5. Held(r)
  BY <1>1, <1>3 DEF Snapshots, Held, Holds, Complete
<1>6. Numbered(r)
  <2>1. r.capture.owned = s.capture.owned /\ r.capture.seq = s.capture.seq /\ (r.capture.seq = 0 => r.capture = NoCapture)
    BY <1>1, <1>2, <1>3 DEF Captures, TypeInv
  <2> QED BY <1>1, <1>3, <2>1 DEF Snapshots, Numbered
<1>7. Snapshots(r)
  BY <1>4, <1>5, <1>6 DEF Snapshots
<1> QED BY <1>3, <1>7, SnapshotsBecome

LEMMA InitFits == Init => IInv
<1> SUFFICES ASSUME Init PROVE IInv
  OBVIOUS
<1>1. NoCapture \in Captures /\ Raw(NoCapture) /\ NoCapture.seq = 0 /\ ~NoCapture.owned
  BY NoCaptureFits DEF Raw
<1>2. TypeInv
  <2>1. NoGuides \in Guides
    BY DEF NoGuides, Guides
  <2>2. Idle \in Calls
    BY IdleFits
  <2>3. \A s \in AllSlots : slots[s] \in SlotStates
    BY <1>1 DEF Init, SlotStates
  <2>4. slots \in [AllSlots -> SlotStates]
    BY <2>3 DEF Init
  <2>5. \A q \in Queues : work[q] \in Seq(Copy)
    BY DEF Init
  <2>6. work \in [Queues -> Seq(Copy)]
    BY <2>5 DEF Init
  <2>7. game \in [frame : Nat \ {0}, now : Nat \ {0}, togo : Nat]
    BY GuidesAssumption DEF Init
  <2> QED BY <1>1, <2>1, <2>2, <2>4, <2>6, <2>7 DEF Init, TypeInv, None
<1>3. Callers
  BY <1>1, IdleFits DEF Init, Callers, Sound, Working
<1>4. Queued
  BY DEF Init, Queued, Outstanding, Increasing, OneCopy, Local
<1>5. Registered
  BY DEF Init, Registered
<1>6. Recorded
  BY IdleFits DEF Init, Recorded
<1>7. Staged(State) /\ Held(State) /\ Numbered(State)
  <2>1. \A x \in AllSlots : x[1] \in Queues
    BY DEF AllSlots
  <2>2. Staged(State)
    BY <1>1, <2>1 DEF Init, Staged, State
  <2>3. Held(State)
    BY <1>1 DEF Init, Held, Holds, State
  <2>4. Numbered(State)
    BY <1>1 DEF Init, Numbered, State
  <2> QED BY <2>2, <2>3, <2>4
<1> QED BY <1>2, <1>3, <1>4, <1>5, <1>6, <1>7 DEF IInv, Snapshots

---------------------------------------------------------------------------
(* The provider's threads.                                                 *)

\* What waits for a command list is not a snapshot.
LEMMA QueueFits ==
    ASSUME TypeInv, Callers, NEW new \in Captures, Raw(new), Queue(new)
    PROVE pending' \in [Lists -> Captures] /\ \A l \in Lists : Raw(pending'[l])
<1> DEFINE old == IF Fresh(pending[new.list].tick, new.tick, 500) THEN pending[new.list] ELSE NoCapture
           joined == Joined(old.guides, new.guides)
           frame == IF new.frame = 0 THEN old.frame ELSE new.frame
           both == [new EXCEPT !.guides = joined, !.frame = frame]
           first == IF old # NoCapture /\ SameGeneration(old, new, 250) THEN both ELSE new
           Entry(l) == CASE l = new.list -> first
                         [] l # new.list /\ Fresh(pending[l].tick, new.tick, 500) -> pending[l]
                         [] OTHER -> NoCapture
<1>1. pending' = [l \in Lists |-> Entry(l)]
  BY DEF Queue
<1>2. NoCapture \in Captures /\ Raw(NoCapture)
  BY NoCaptureFits
<1>3. ASSUME new.list \in Lists PROVE first \in Captures /\ Raw(first)
  <2>1. old \in Captures
    BY <1>2, <1>3 DEF TypeInv
  <2> HIDE DEF old
  <2>2. joined \in Guides /\ frame \in Nat
    BY <2>1, JoinedFits DEF Captures
  <2> HIDE DEF joined, frame
  <2>3. both \in Captures /\ Raw(both)
    BY <2>2 DEF Captures, Raw
  <2> HIDE DEF both
  <2> QED BY <2>3
<1> HIDE DEF first
<1>4. ASSUME NEW l \in Lists PROVE Entry(l) \in Captures /\ Raw(Entry(l))
  <2>1. pending[l] \in Captures /\ Raw(pending[l])
    BY DEF TypeInv, Callers
  <2>2. CASE l = new.list
    BY <2>2, <1>3
  <2>3. CASE l # new.list
    BY <2>3, <2>1, <1>2
  <2> QED BY <2>2, <2>3
<1> HIDE DEF Entry
<1> QED BY <1>1, <1>4

LEMMA PrunedFits ==
    ASSUME TypeInv, Callers
    PROVE Pruned \in [Lists -> Captures] /\ \A l \in Lists : Raw(Pruned[l])
BY NoCaptureFits DEF Pruned, TypeInv, Callers

\* A thread that is not recording a slot moves on, and the queues stand still.
LEMMA ThreadMoves ==
    ASSUME TypeInv, TypeInv', Callers, Queued, Registered, Recorded, NEW t \in Threads, NEW c \in Calls,
           calls' = [calls EXCEPT ![t] = c], calls[t].pc \notin Working, Sound(t, c), c.pc \notin Working,
           UNCHANGED <<submit, work, reached, texture>>, next'.fence = next.fence,
           \A x \in AllSlots : slots'[x].value = slots[x].value,
           \A l \in Lists : Raw(pending'[l])
    PROVE Callers' /\ Queued' /\ Registered' /\ Recorded'
<1>1. \A u \in Threads : calls'[u] = IF u = t THEN c ELSE calls[u]
  BY DEF TypeInv
<1>2. Callers'
  BY <1>1, CallersKept
<1>3. Queued'
  BY QueuesSame
<1>4. Registered' /\ Recorded'
  BY <1>1, WorkersSame
<1> QED BY <1>2, <1>3, <1>4

LEMMA TagKeeps ==
    ASSUME IInv, NEW t \in Threads, Tag(t)
    PROVE IInv'
<1> USE DEF IInv
<1>1. PICK tag \in Tags :
         calls' = [calls EXCEPT ![t] = [Idle EXCEPT !.pc = "tag", !.mode = mode, !.tag = tag,
                     !.guides = [NoCapture EXCEPT !.source = tag.source, !.guides[tag.kind] = game.frame,
                                   !.safe = tag.safe, !.list = tag.list, !.view = tag.view,
                                   !.frame = IF tag.dated THEN game.frame ELSE 0, !.tick = game.now]]]
  BY DEF Tag
<1> DEFINE f == IF tag.dated THEN game.frame ELSE 0
           g == [NoCapture EXCEPT !.source = tag.source, !.guides[tag.kind] = game.frame,
                                   !.safe = tag.safe, !.list = tag.list, !.view = tag.view,
                                   !.frame = f, !.tick = game.now]
           c == [Idle EXCEPT !.pc = "tag", !.mode = mode, !.tag = tag, !.guides = g]
<1>2. /\ tag.source \in {"streamline", "ngx"} /\ tag.kind \in {"depth", "motion"} /\ tag.safe \in BOOLEAN
      /\ tag.list \in Lists \cup {0} /\ tag.view \in Nat
  BY GuidesAssumption
<1>3. game.frame \in Nat /\ game.now \in Nat /\ f \in Nat /\ game.togo \in Nat /\ mode \in Modes
  BY DEF TypeInv
<1> HIDE DEF f
<1>4. g \in Captures /\ Raw(g)
  <2>1. NoCapture.guides \in Guides /\ NoCapture \in Captures /\ Raw(NoCapture)
    BY NoCaptureFits DEF Captures
  <2>2. [NoCapture.guides EXCEPT ![tag.kind] = game.frame] \in Guides
    BY <2>1, <1>2, <1>3 DEF Guides
  <2> DEFINE gs == [NoCapture.guides EXCEPT ![tag.kind] = game.frame]
  <2>3. g = [NoCapture EXCEPT !.source = tag.source, !.guides = gs, !.safe = tag.safe, !.list = tag.list, !.view = tag.view,
                                   !.frame = f, !.tick = game.now]
    OBVIOUS
  <2> HIDE DEF gs
  <2>4. [NoCapture EXCEPT !.source = tag.source, !.guides = gs, !.safe = tag.safe, !.list = tag.list, !.view = tag.view,
                                   !.frame = f, !.tick = game.now] \in Captures
    BY <2>1, <2>2, <1>2, <1>3 DEF Captures, gs
  <2>5. Raw([NoCapture EXCEPT !.source = tag.source, !.guides = gs, !.safe = tag.safe, !.list = tag.list, !.view = tag.view,
                                   !.frame = f, !.tick = game.now])
    BY <2>1 DEF Raw, Captures
  <2> HIDE DEF g
  <2> QED BY <2>3, <2>4, <2>5
<1>5. calls' = [calls EXCEPT ![t] = c]
  BY <1>1 DEF f
<1> HIDE DEF g
<1>6. c \in Calls /\ Sound(t, c) /\ c.pc \notin Working
  BY IdleFits, <1>3, <1>4 DEF Calls, Sound, Working
<1> HIDE DEF c
<1>7. TypeInv'
  <2>1. calls' \in [Threads -> Calls]
    BY <1>5, <1>6 DEF TypeInv
  <2>2. game' = [game EXCEPT !.togo = @ - 1] /\ game.togo > 0
        /\ UNCHANGED <<mode, capture, pending, slots, next, submit, present, work, reached, texture, gone>>
    BY DEF Tag
  <2>3. game' \in [frame : Nat \ {0}, now : Nat \ {0}, togo : Nat]
    <3>1. game \in [frame : Nat \ {0}, now : Nat \ {0}, togo : Nat]
      BY DEF TypeInv
    <3>2. game.togo - 1 \in Nat
      BY <2>2, <1>3
    <3> QED BY <2>2, <3>1, <3>2
  <2> QED BY <2>1, <2>2, <2>3 DEF TypeInv
<1>8. calls[t].pc \notin Working /\ UNCHANGED <<capture, slots, gone, next, work, reached, texture, present, submit, pending>>
  BY DEF Tag, Working
<1>9. Callers' /\ Queued' /\ Registered' /\ Recorded'
  BY <1>5, <1>6, <1>7, <1>8, ThreadMoves DEF Callers
<1>10. Snapshots(State)'
  BY <1>7, <1>8, SnapshotsSame
<1> QED BY <1>7, <1>9, <1>10

LEMMA CaptureKeeps ==
    ASSUME IInv, NEW t \in Threads, Capture(t)
    PROVE IInv'
<1> USE DEF IInv
<1>1. /\ calls[t].pc = "tag" /\ calls' = [calls EXCEPT ![t] = Idle]
      /\ UNCHANGED <<mode, submit, present, work, reached, texture, game>>
  BY DEF Capture
<1>2. calls[t].guides \in Captures /\ Raw(calls[t].guides)
  BY DEF TypeInv, Calls, Callers, Sound
<1> DEFINE s == State
<1>3. s \in States /\ s.capture = capture /\ s.slots = slots /\ s.seq = next.seq /\ s.gone = gone /\ Snapshots(s)
  BY StateFits
<1> HIDE DEF s
<1>4. Idle \in Calls /\ Sound(t, Idle) /\ Idle.pc \notin Working /\ calls[t].pc \notin Working
  BY IdleFits, <1>1 DEF Sound, Working
<1>5. calls' \in [Threads -> Calls]
  BY <1>1, <1>4 DEF TypeInv
<1>6. /\ pending' \in [Lists -> Captures] /\ \A l \in Lists : Raw(pending'[l])
      /\ \E r \in States : /\ capture' = r.capture /\ slots' = r.slots /\ gone' = r.gone
                           /\ next' = [next EXCEPT !.seq = r.seq] /\ r.seq \in {s.seq, s.seq + 1}
                           /\ Snapshots(r) /\ Lessened(r, s) /\ s.gone \subseteq r.gone
  <2>1. ASSUME UNCHANGED <<capture, slots, next, gone>>
        PROVE \E r \in States : /\ capture' = r.capture /\ slots' = r.slots /\ gone' = r.gone
                           /\ next' = [next EXCEPT !.seq = r.seq] /\ r.seq \in {s.seq, s.seq + 1}
                           /\ Snapshots(r) /\ Lessened(r, s) /\ s.gone \subseteq r.gone
    <3>1. next' = [next EXCEPT !.seq = s.seq]
      BY <2>1, <1>3 DEF TypeInv
    <3> QED BY <2>1, <3>1, <1>3 DEF Lessened
  <2>2. ASSUME UNCHANGED pending PROVE pending' \in [Lists -> Captures] /\ \A l \in Lists : Raw(pending'[l])
    BY <2>2 DEF TypeInv, Callers
  <2>3. CASE Waits(calls[t].mode, calls[t].tag)
    <3>1. Queue(calls[t].guides) /\ UNCHANGED <<capture, slots, next, gone>>
      BY <2>3 DEF Capture
    <3> QED BY <3>1, <2>1, <1>2, QueueFits
  <2>4. CASE ~Waits(calls[t].mode, calls[t].tag)
    <3>1. /\ UNCHANGED pending
          /\ \/ \E r \in {Published(State, calls[t].guides)} : Becomes(r) /\ next' = [next EXCEPT !.seq = r.seq]
             \/ UNCHANGED <<capture, slots, next, gone>>
      BY <2>4 DEF Capture
    <3>2. CASE UNCHANGED <<capture, slots, next, gone>>
      BY <3>1, <3>2, <2>1, <2>2
    <3>3. CASE \E r \in {Published(State, calls[t].guides)} : Becomes(r) /\ next' = [next EXCEPT !.seq = r.seq]
      <4> DEFINE r == Published(s, calls[t].guides)
      <4>1. Becomes(r) /\ next' = [next EXCEPT !.seq = r.seq]
        BY <3>3 DEF s
      <4>2. r \in States /\ Snapshots(r) /\ r.seq \in {s.seq, s.seq + 1} /\ s.gone \subseteq r.gone /\ Lessened(r, s)
        BY <1>2, <1>3, PublishedFits DEF Raw
      <4> HIDE DEF r
      <4> QED BY <4>1, <4>2, <3>1, <2>2 DEF Becomes
    <3> QED BY <3>1, <3>2, <3>3
  <2> QED BY <2>3, <2>4
<1>7. PICK r \in States : /\ capture' = r.capture /\ slots' = r.slots /\ gone' = r.gone
                           /\ next' = [next EXCEPT !.seq = r.seq] /\ r.seq \in {s.seq, s.seq + 1}
                           /\ Snapshots(r) /\ Lessened(r, s) /\ s.gone \subseteq r.gone
  BY <1>6
<1>8. next' \in [fence : [Queues -> Nat \ {0}], seq : Nat \ {0}] /\ next'.fence = next.fence /\ next'.seq = r.seq
  <2>1. next.seq \in Nat \ {0} /\ next.fence \in [Queues -> Nat \ {0}]
    BY DEF TypeInv
  <2>2. r.seq \in Nat \ {0}
    BY <2>1, <1>7, <1>3
  <2> QED BY <2>1, <2>2, <1>7 DEF TypeInv
<1>9. TypeInv'
  BY <1>1, <1>5, <1>6, <1>7, <1>8 DEF TypeInv, States
<1>10. \A x \in AllSlots : slots'[x].value = slots[x].value
  BY <1>7, <1>3 DEF Lessened
<1>11. Callers' /\ Queued' /\ Registered' /\ Recorded'
  BY <1>1, <1>4, <1>6, <1>8, <1>9, <1>10, ThreadMoves
<1>12. Snapshots(State)'
  BY <1>1, <1>7, <1>8, <1>9, SnapshotsBecome
<1> QED BY <1>9, <1>11, <1>12

LEMMA EvaluateKeeps ==
    ASSUME IInv, NEW t \in Threads, Evaluate(t)
    PROVE IInv'
<1> USE DEF IInv
<1>1. PICK list \in Lists :
         /\ capture' = [capture EXCEPT !.list = list]
         /\ calls' = IF mode = "SnapshotOnly"
                     THEN [calls EXCEPT ![t] = [Idle EXCEPT !.pc = "bound",
                             !.guides = [capture EXCEPT !.list = list, !.queue = 0, !.seq = 0]]]
                     ELSE calls
  BY DEF Evaluate
<1>2. /\ calls[t].pc = "idle" /\ capture.source = "streamline" /\ ~capture.owned
      /\ UNCHANGED <<mode, pending, slots, next, submit, present, work, reached, texture, game, gone>>
  BY DEF Evaluate
<1>3. capture \in Captures
  BY DEF TypeInv
<1>4. capture.seq # 0
  <2>1. capture # NoCapture
    BY <1>2 DEF NoCapture
  <2> QED BY <2>1, StateFits DEF Snapshots, Numbered
<1>5. capture' \in Captures /\ ~capture'.owned /\ capture'.seq = capture.seq
  BY <1>1, <1>2, <1>3 DEF Captures
<1> DEFINE g == [capture EXCEPT !.list = list, !.queue = 0, !.seq = 0]
           n == [Idle EXCEPT !.pc = "bound", !.guides = g]
           c == IF mode = "SnapshotOnly" THEN n ELSE calls[t]
<1>6. g \in Captures /\ ~g.owned /\ g.seq = 0 /\ g.list \in Lists /\ g.slot = capture.slot
  BY <1>2, <1>3 DEF Captures
<1> HIDE DEF g
<1>7. n \in Calls /\ n.pc = "bound" /\ n.guides = g
  BY <1>6, IdleFits DEF Calls
<1>8. calls' = [calls EXCEPT ![t] = c]
  <2>1. calls = [calls EXCEPT ![t] = calls[t]]
    BY DEF TypeInv
  <2> QED BY <2>1, <1>1 DEF g
<1> HIDE DEF n
<1>9. c \in Calls /\ Sound(t, c) /\ c.pc \notin Working
  BY <1>2, <1>6, <1>7 DEF TypeInv, Sound, Working, Callers, Raw
<1> HIDE DEF c
<1>10. TypeInv'
  <2>1. calls' \in [Threads -> Calls]
    BY <1>8, <1>9 DEF TypeInv
  <2> QED BY <2>1, <1>2, <1>5 DEF TypeInv
<1>11. Callers' /\ Queued' /\ Registered' /\ Recorded'
  BY <1>2, <1>8, <1>9, <1>10, ThreadMoves DEF Callers, Working
<1>12. Snapshots(State)'
  BY <1>2, <1>4, <1>5, <1>10, LiveChanged
<1> QED BY <1>10, <1>11, <1>12

LEMMA BoundKeeps ==
    ASSUME IInv, NEW t \in Threads, Bound(t)
    PROVE IInv'
<1> USE DEF IInv
<1>1. /\ calls[t].pc = "bound" /\ Queue(calls[t].guides) /\ calls' = [calls EXCEPT ![t] = Idle]
      /\ UNCHANGED <<mode, capture, slots, next, submit, present, work, reached, texture, game, gone>>
  BY DEF Bound
<1>2. calls[t].guides \in Captures /\ Raw(calls[t].guides)
  BY DEF TypeInv, Calls, Callers, Sound
<1>3. pending' \in [Lists -> Captures] /\ \A l \in Lists : Raw(pending'[l])
  BY <1>1, <1>2, QueueFits
<1>4. Idle \in Calls /\ Sound(t, Idle) /\ Idle.pc \notin Working /\ calls[t].pc \notin Working
  BY IdleFits, <1>1 DEF Sound, Working
<1>5. TypeInv'
  BY <1>1, <1>3, <1>4 DEF TypeInv
<1>6. Callers' /\ Queued' /\ Registered' /\ Recorded'
  BY <1>1, <1>3, <1>4, <1>5, ThreadMoves
<1>7. Snapshots(State)'
  BY <1>1, <1>5, SnapshotsSame
<1> QED BY <1>5, <1>6, <1>7

---------------------------------------------------------------------------
(* hookExecute, but for the slot.                                          *)

LEMMA ExecuteKeeps ==
    ASSUME IInv, NEW t \in Threads, Execute(t)
    PROVE IInv'
<1> USE DEF IInv
<1>1. PICK list \in Lists, queue \in Queues, pc \in {"lock", "note"} :
         calls' = [calls EXCEPT ![t] = [Idle EXCEPT !.pc = pc, !.list = list, !.queue = queue]]
  <2>1. PICK list \in Lists, queue \in Queues :
         LET active == mode = "SnapshotOnly" /\ Pruned # [l \in Lists |-> NoCapture]
         IN calls' = [calls EXCEPT ![t] = [Idle EXCEPT !.pc = IF active THEN "lock" ELSE "note", !.list = list, !.queue = queue]]
    BY DEF Execute
  <2> DEFINE pc == IF mode = "SnapshotOnly" /\ Pruned # [l \in Lists |-> NoCapture] THEN "lock" ELSE "note"
  <2>2. pc \in {"lock", "note"}
    OBVIOUS
  <2>3. calls' = [calls EXCEPT ![t] = [Idle EXCEPT !.pc = pc, !.list = list, !.queue = queue]]
    BY <2>1
  <2> HIDE DEF pc
  <2> QED BY <2>2, <2>3
<1>2. /\ calls[t].pc = "idle" /\ pending' = IF mode = "SnapshotOnly" THEN Pruned ELSE pending
      /\ UNCHANGED <<mode, capture, slots, next, submit, present, work, reached, texture, game, gone>>
  BY DEF Execute
<1>3. pending' \in [Lists -> Captures] /\ \A l \in Lists : Raw(pending'[l])
  BY <1>2, PrunedFits DEF TypeInv, Callers
<1> DEFINE c == [Idle EXCEPT !.pc = pc, !.list = list, !.queue = queue]
<1>4. c \in Calls /\ Sound(t, c) /\ c.pc \notin Working /\ calls[t].pc \notin Working
  BY IdleFits, <1>2 DEF Calls, Sound, Working
<1>5. calls' = [calls EXCEPT ![t] = c]
  BY <1>1
<1> HIDE DEF c
<1>6. TypeInv'
  BY <1>2, <1>3, <1>4, <1>5 DEF TypeInv
<1>7. Callers' /\ Queued' /\ Registered' /\ Recorded'
  BY <1>2, <1>3, <1>4, <1>5, <1>6, ThreadMoves
<1>8. Snapshots(State)'
  BY <1>2, <1>6, SnapshotsSame
<1> QED BY <1>6, <1>7, <1>8

\* The lock is free, so nobody records or submits.
LEMMA LockKeeps ==
    ASSUME IInv, NEW t \in Threads, Lock(t)
    PROVE IInv'
<1> USE DEF IInv
<1>1. /\ calls[t].pc = "lock" /\ submit = None /\ submit' = t
      /\ UNCHANGED <<mode, capture, pending, slots, next, present, work, reached, texture, game, gone>>
  BY DEF Lock, Serialized
<1> DEFINE pc == IF mode = "SnapshotOnly" THEN "reserve" ELSE "note"
           c == [calls[t] EXCEPT !.pc = pc]
<1>2. calls' = [calls EXCEPT ![t] = c]
  BY DEF Lock
<1>3. calls[t] \in Calls /\ calls[t].list \in Lists /\ calls[t].queue \in Queues /\ Raw(calls[t].guides)
  BY <1>1 DEF TypeInv, Callers, Sound
<1>4. c \in Calls /\ c.pc \in {"reserve", "note"} /\ c.guides = calls[t].guides /\ c.list \in Lists /\ c.queue \in Queues
  BY <1>3 DEF Calls
<1> HIDE DEF c, pc
<1>5. TypeInv'
  BY <1>1, <1>2, <1>4 DEF TypeInv
<1>6. \A u \in Threads : calls'[u] = IF u = t THEN c ELSE calls[u]
  BY <1>2 DEF TypeInv
<1>7. \A u \in Threads : u # None
  BY GuidesAssumption DEF None
<1>8. \A u \in Threads : calls[u].pc \notin {"reserve"} \cup Working
  BY <1>1, <1>7 DEF Callers, Sound
<1>9. Callers'
  <2>1. ASSUME NEW u \in Threads PROVE Sound(u, calls[u])'
    <3>1. CASE u = t
      <4>1. /\ Raw(calls'[u].guides) /\ calls'[u].pc \in {"reserve", "note"}
            /\ calls'[u].list \in Lists /\ calls'[u].queue \in Queues /\ submit' = u
        BY <1>6, <3>1, <1>3, <1>4, <1>1
      <4> QED BY <4>1 DEF Sound, Working, Raw
    <3>2. CASE u # t
      <4>1. calls'[u] = calls[u] /\ Sound(u, calls[u])
        BY <1>6, <3>2 DEF Callers
      <4> QED BY <4>1, <1>8 DEF Sound
    <3> QED BY <3>1, <3>2
  <2> QED BY <2>1, <1>1 DEF Callers
<1>10. Queued'
  BY <1>1, QueuesSame
<1>11. Registered' /\ Recorded'
  BY <1>1, <1>4, <1>6, <1>8, WorkersSame DEF Working
<1>12. Snapshots(State)'
  BY <1>1, <1>5, SnapshotsSame
<1> QED BY <1>5, <1>9, <1>10, <1>11, <1>12

LEMMA NoteKeeps ==
    ASSUME IInv, NEW t \in Threads, Note(t)
    PROVE IInv'
<1> USE DEF IInv
<1>1. /\ calls[t].pc = "note" /\ calls' = [calls EXCEPT ![t] = Idle]
      /\ capture' = IF capture.source = "streamline" /\ capture.list = calls[t].list /\ ~capture.owned
                    THEN [capture EXCEPT !.queue = calls[t].queue] ELSE capture
      /\ submit' = IF submit = t THEN None ELSE submit
      /\ UNCHANGED <<mode, pending, slots, next, present, work, reached, texture, game, gone>>
  BY DEF Note
<1>2. Idle \in Calls /\ Raw(Idle.guides) /\ Idle.pc = "idle"
  BY IdleFits
<1>3. capture \in Captures /\ calls[t].queue \in Queues \cup {0}
  BY DEF TypeInv, Calls
<1>4. capture' \in Captures
  BY <1>1, <1>3 DEF Captures
<1>5. TypeInv'
  BY <1>1, <1>2, <1>4 DEF TypeInv
<1>6. \A u \in Threads : calls'[u] = IF u = t THEN Idle ELSE calls[u]
  BY <1>1 DEF TypeInv
<1>7. Callers'
  <2>1. ASSUME NEW u \in Threads PROVE Sound(u, calls[u])'
    <3>1. CASE u = t
      BY <3>1, <1>6, <1>2 DEF Sound, Working
    <3>2. CASE u # t
      <4>1. calls'[u] = calls[u] /\ Sound(u, calls[u])
        BY <1>6, <3>2 DEF Callers
      <4>2. submit = u => submit' = u
        BY <1>1, <3>2
      <4> QED BY <4>1, <4>2, <1>1 DEF Sound
    <3> QED BY <3>1, <3>2
  <2> QED BY <2>1, <1>1 DEF Callers
<1>8. Queued'
  BY <1>1, QueuesSame
<1>9. Registered' /\ Recorded'
  BY <1>1, <1>2, <1>6, WorkersSame DEF Working
<1>10. Snapshots(State)'
  <2>1. CASE capture' = capture
    BY <2>1, <1>1, <1>5, SnapshotsSame
  <2>2. CASE capture' # capture
    <3>1. capture.source = "streamline" /\ ~capture.owned /\ capture' = [capture EXCEPT !.queue = calls[t].queue]
      BY <2>2, <1>1
    <3>2. capture.seq # 0
      <4>1. capture # NoCapture
        BY <3>1 DEF NoCapture
      <4> QED BY <4>1, StateFits DEF Snapshots, Numbered
    <3>3. ~capture'.owned /\ capture'.seq = capture.seq
      BY <3>1, <1>3 DEF Captures
    <3> QED BY <3>1, <3>2, <3>3, <1>1, <1>5, LiveChanged
  <2> QED BY <2>1, <2>2
<1> QED BY <1>5, <1>7, <1>8, <1>9, <1>10

---------------------------------------------------------------------------
(* The presenting thread.                                                  *)

\* The threads stand still while the lock's value changes.
LEMMA OthersKept ==
    ASSUME TypeInv, Callers, Queued, Registered, Recorded,
           UNCHANGED <<submit, calls, work, reached, texture>>, next'.fence = next.fence,
           \A x \in AllSlots : slots'[x].value = slots[x].value,
           \A l \in Lists : Raw(pending'[l])
    PROVE Callers' /\ Queued' /\ Registered' /\ Recorded'
<1>1. Callers'
  BY CallersKept
<1>2. Queued'
  BY QueuesSame
<1>3. Registered' /\ Recorded'
  BY WorkersSame
<1> QED BY <1>1, <1>2, <1>3

\* What the presenting thread makes of the lock's value.
LEMMA FollowKeeps ==
    ASSUME IInv, NEW r, Follows(r, State), Becomes(r), next' = next, mode' \in Modes,
           pending' \in [Lists -> Captures], \A l \in Lists : Raw(pending'[l]),
           present' \in [pc : {"idle", "clear", "read"}, held : SUBSET Captures],
           game' \in [frame : Nat \ {0}, now : Nat \ {0}, togo : Nat],
           \A c \in present'.held : c \in present.held \/ (c = r.capture /\ c.seq # 0),
           UNCHANGED <<submit, calls, work, reached, texture>>
    PROVE IInv'
<1> USE DEF IInv
<1>1. capture' = r.capture /\ slots' = r.slots /\ gone' = r.gone /\ r \in States /\ Snapshots(r) /\ r.seq = next.seq
  BY StateFits DEF Becomes, Follows
<1>2. TypeInv'
  BY <1>1 DEF TypeInv, States
<1>3. \A x \in AllSlots : slots'[x].value = slots[x].value
  BY <1>1, StateFits DEF Follows, Lessened
<1>4. Callers' /\ Queued' /\ Registered' /\ Recorded'
  BY <1>3, OthersKept
<1>5. Snapshots(State)'
  BY <1>1, <1>2, SnapshotsBecome
<1> QED BY <1>2, <1>4, <1>5

\* What snapshotFor12 gives is current, and has a number.
LEMMA ReadGives ==
    ASSUME IInv, Read
    PROVE \E r : /\ Follows(r, State) /\ Becomes(r)
                 /\ present' \in [pc : {"idle", "clear", "read"}, held : SUBSET Captures]
                 /\ \A c \in present'.held : c \in present.held \/ (c = r.capture /\ c.seq # 0)
<1> USE DEF IInv
<1>1. PICK order \in SetToSeqs(Queues) :
         LET s == Promoted(State, order)
         IN IF Fresh(s.capture.tick, game.now, MaxAge(s.capture))
            THEN Becomes(s) /\ present' = [pc |-> "idle", held |-> present.held \cup {s.capture}]
            ELSE /\ Becomes(IF s.capture.owned THEN [Consumed(s, s.capture.seq) EXCEPT !.capture = NoCapture] ELSE s)
                 /\ present' = [present EXCEPT !.pc = "idle"]
  BY DEF Read
<1> DEFINE s == Promoted(State, order)
<1>2. State \in States /\ Lessened(State, State)
  BY StateFits DEF Lessened
<1>3. Follows(s, State)
  BY <1>2, PromotedFits
<1> HIDE DEF s
<1>4. s \in States /\ Snapshots(s) /\ s.capture \in Captures
  BY <1>3 DEF Follows, States
<1>5. present \in [pc : {"idle", "clear", "read"}, held : SUBSET Captures]
  BY DEF TypeInv
<1>6. CASE Fresh(s.capture.tick, game.now, MaxAge(s.capture))
  <2>1. Becomes(s) /\ present' = [pc |-> "idle", held |-> present.held \cup {s.capture}]
    BY <1>1, <1>6 DEF s
  <2>2. s.capture.tick # 0
    BY <1>6 DEF Fresh
  <2>3. s.capture # NoCapture
    BY <2>2 DEF NoCapture
  <2>4. s.capture.seq # 0
    BY <2>3, <1>4 DEF Snapshots, Numbered
  <2> QED BY <2>1, <2>4, <1>3, <1>4, <1>5
<1>7. CASE ~Fresh(s.capture.tick, game.now, MaxAge(s.capture))
  <2>1. /\ Becomes(IF s.capture.owned THEN [Consumed(s, s.capture.seq) EXCEPT !.capture = NoCapture] ELSE s)
        /\ present' = [present EXCEPT !.pc = "idle"]
    BY <1>1, <1>7 DEF s
  <2> DEFINE e == [Consumed(s, s.capture.seq) EXCEPT !.capture = NoCapture]
             r == IF s.capture.owned THEN e ELSE s
  <2>2. Follows(e, s) /\ Follows(s, s)
    BY <1>4, ExpiredFits, FollowsItself
  <2> HIDE DEF e
  <2>3. Follows(r, s)
    BY <2>2
  <2>4. Becomes(r)
    BY <2>1 DEF e
  <2> HIDE DEF r
  <2>5. Follows(r, State)
    BY <2>3, <1>3, <1>2, FollowsOn
  <2>6. /\ present' \in [pc : {"idle", "clear", "read"}, held : SUBSET Captures]
        /\ present'.held = present.held
    BY <2>1, <1>5
  <2> QED BY <2>4, <2>5, <2>6
<1> QED BY <1>6, <1>7

LEMMA ReadKeeps ==
    ASSUME IInv, Read
    PROVE IInv'
<1>1. PICK r : /\ Follows(r, State) /\ Becomes(r)
               /\ present' \in [pc : {"idle", "clear", "read"}, held : SUBSET Captures]
               /\ \A c \in present'.held : c \in present.held \/ (c = r.capture /\ c.seq # 0)
  BY ReadGives
<1>2. game' = [game EXCEPT !.frame = @ + 1] /\ UNCHANGED <<mode, pending, next, submit, calls, work, reached, texture>>
  BY DEF Read
<1>3. game \in [frame : Nat \ {0}, now : Nat \ {0}, togo : Nat] /\ mode \in Modes /\ pending \in [Lists -> Captures]
  BY DEF IInv, TypeInv
<1>4. game.frame + 1 \in Nat \ {0}
  BY <1>3
<1>5. game' \in [frame : Nat \ {0}, now : Nat \ {0}, togo : Nat]
  BY <1>2, <1>3, <1>4
<1>6. \A l \in Lists : Raw(pending'[l])
  BY <1>2 DEF IInv, Callers
<1> QED BY <1>1, <1>2, <1>3, <1>5, <1>6, FollowKeeps

LEMMA GiveUpKeeps ==
    ASSUME IInv, GiveUp
    PROVE IInv'
<1> USE DEF IInv
<1>1. PICK c \in present.held : present' = [present EXCEPT !.held = @ \ {c}]
  BY DEF GiveUp
<1>2. UNCHANGED <<mode, capture, pending, slots, next, submit, calls, work, reached, texture, game, gone>>
  BY DEF GiveUp
<1>3. present \in [pc : {"idle", "clear", "read"}, held : SUBSET Captures]
  BY DEF TypeInv
<1>4. present' \in [pc : {"idle", "clear", "read"}, held : SUBSET Captures] /\ present'.held \subseteq present.held
  BY <1>1, <1>3
<1>5. TypeInv'
  BY <1>2, <1>4 DEF TypeInv
<1>6. Callers' /\ Queued' /\ Registered' /\ Recorded'
  BY <1>2, OthersKept DEF Callers
<1>7. Snapshots(State)'
  BY <1>2, <1>4, <1>5, SnapshotsSame
<1> QED BY <1>5, <1>6, <1>7

\* A live capture has a number that no slot has staged.
LEMMA ConsumeKeeps ==
    ASSUME IInv, Consume
    PROVE IInv'
<1> USE DEF IInv
<1>1. PICK c \in present.held : ~c.owned /\ c.seq = capture.seq
  BY DEF Consume
<1>2. /\ capture' = NoCapture /\ gone' = gone \cup {capture.seq}
      /\ UNCHANGED <<mode, pending, slots, next, submit, calls, present, work, reached, texture, game>>
  BY DEF Consume
<1> DEFINE s == State
           r == [s EXCEPT !.capture = NoCapture, !.gone = gone \cup {capture.seq}]
<1>3. s \in States /\ s.capture = capture /\ s.slots = slots /\ s.seq = next.seq /\ s.gone = gone /\ Snapshots(s)
  BY StateFits
<1> HIDE DEF s
<1>4. NoCapture \in Captures /\ gone \cup {capture.seq} \in SUBSET Nat
  BY NoCaptureFits DEF TypeInv, Captures
<1>5. r \in States /\ r.capture = NoCapture /\ r.slots = slots /\ r.seq = s.seq /\ r.gone = s.gone \cup {s.capture.seq}
  BY <1>3, <1>4 DEF States
<1> HIDE DEF r
<1>6. Lessened(r, s)
  BY <1>3, <1>5 DEF Lessened
<1>7. ASSUME NEW x \in AllSlots, s.slots[x].staged.seq = s.capture.seq, s.capture.seq # 0 PROVE FALSE
  <2>1. s.slots[x].staged # NoCapture
    BY <1>7 DEF NoCapture
  <2>2. c.seq = s.slots[x].staged.seq => c.owned
    BY <2>1, <1>3 DEF Snapshots, Numbered
  <2> QED BY <2>2, <1>1, <1>3, <1>7
<1>8. Follows(r, s)
  BY <1>3, <1>5, <1>6, <1>7, DroppedFits
<1>9. Becomes(r)
  BY <1>2, <1>3, <1>5 DEF Becomes
<1>10. /\ mode' \in Modes /\ pending' \in [Lists -> Captures] /\ \A l \in Lists : Raw(pending'[l])
       /\ present' \in [pc : {"idle", "clear", "read"}, held : SUBSET Captures] /\ present'.held = present.held
       /\ game' \in [frame : Nat \ {0}, now : Nat \ {0}, togo : Nat]
  BY <1>2 DEF TypeInv, Callers
<1> QED BY <1>2, <1>8, <1>9, <1>10, FollowKeeps DEF s

LEMMA SetModeKeeps ==
    ASSUME IInv, SetMode
    PROVE IInv'
<1> USE DEF IInv
<1>1. /\ mode' \in Modes /\ present' = [present EXCEPT !.pc = "clear"]
      /\ UNCHANGED <<capture, pending, slots, next, submit, calls, work, reached, texture, game, gone>>
  BY DEF SetMode
<1>2. present' \in [pc : {"idle", "clear", "read"}, held : SUBSET Captures] /\ present'.held = present.held
  BY <1>1 DEF TypeInv
<1>3. TypeInv'
  BY <1>1, <1>2 DEF TypeInv
<1>4. Callers' /\ Queued' /\ Registered' /\ Recorded'
  BY <1>1, OthersKept DEF Callers
<1>5. Snapshots(State)'
  BY <1>1, <1>2, <1>3, SnapshotsSame
<1> QED BY <1>3, <1>4, <1>5

LEMMA ClearKeeps ==
    ASSUME IInv, Clear
    PROVE IInv'
<1> USE DEF IInv
<1>1. /\ Becomes(Released(State)) /\ pending' = [l \in Lists |-> NoCapture] /\ present' = [present EXCEPT !.pc = "read"]
      /\ UNCHANGED <<mode, next, submit, calls, work, reached, texture, game>>
  BY DEF Clear
<1>2. Follows(Released(State), State)
  BY StateFits, ReleasedFits
<1>3. pending' \in [Lists -> Captures] /\ \A l \in Lists : Raw(pending'[l])
  BY <1>1, NoCaptureFits
<1>4. present' \in [pc : {"idle", "clear", "read"}, held : SUBSET Captures] /\ present'.held = present.held
  BY <1>1 DEF TypeInv
<1>5. mode' \in Modes /\ game' \in [frame : Nat \ {0}, now : Nat \ {0}, togo : Nat]
  BY <1>1 DEF TypeInv
<1> QED BY <1>1, <1>2, <1>3, <1>4, <1>5, FollowKeeps

LEMMA TickKeeps ==
    ASSUME IInv, Tick
    PROVE IInv'
<1> USE DEF IInv
<1>1. /\ game' = [game EXCEPT !.now = @ + Step]
      /\ UNCHANGED <<mode, capture, pending, slots, next, submit, calls, present, work, reached, texture, gone>>
  BY DEF Tick
<1>2. game \in [frame : Nat \ {0}, now : Nat \ {0}, togo : Nat] /\ Step \in Nat
  BY GuidesAssumption DEF TypeInv
<1>3. game.now + Step \in Nat \ {0}
  BY <1>2
<1>4. game' \in [frame : Nat \ {0}, now : Nat \ {0}, togo : Nat]
  BY <1>1, <1>2, <1>3
<1>5. TypeInv'
  BY <1>1, <1>4 DEF TypeInv
<1>6. Callers' /\ Queued' /\ Registered' /\ Recorded'
  BY <1>1, OthersKept DEF Callers
<1>7. Snapshots(State)'
  BY <1>1, <1>5, SnapshotsSame
<1> QED BY <1>5, <1>6, <1>7

---------------------------------------------------------------------------
(* A slot is recorded, submitted and staged.                               *)

\* A slot loses what it had staged, and nothing else changes.
LEMMA LessenedSnapshots ==
    ASSUME NEW r \in States, NEW s \in States, Lessened(r, s), Snapshots(s),
           r.capture = s.capture, r.seq = s.seq, r.gone = s.gone
    PROVE Snapshots(r)
<1>1. Staged(r) /\ \A h : Holds(s, h) => Holds(r, h)
  BY LessenedFits DEF Snapshots
<1>2. Held(r)
  BY <1>1 DEF Snapshots, Held
<1>3. NoCapture.seq = 0
  BY DEF NoCapture
<1>4. ASSUME NEW x \in AllSlots, r.slots[x].staged # NoCapture
      PROVE /\ r.slots[x].staged.seq \in 1..(r.seq - 1) /\ r.slots[x].staged.seq \notin r.gone
            /\ r.slots[x].staged.seq = r.capture.seq => r.capture.owned
            /\ \A h \in present.held : h.seq = r.slots[x].staged.seq => h.owned
            /\ \A y \in AllSlots : x # y => r.slots[y].staged.seq # r.slots[x].staged.seq
  <2>1. r.slots[x].staged = s.slots[x].staged /\ s.slots[x].staged # NoCapture
    BY <1>4 DEF Lessened
  <2>2. \A y \in AllSlots : r.slots[y].staged \in {s.slots[y].staged, NoCapture}
    BY DEF Lessened
  <2>3. s.seq \in Nat
    BY DEF States
  <2> QED BY <2>1, <2>2, <2>3, <1>3 DEF Snapshots, Numbered
<1>5. Numbered(r)
  BY <1>4 DEF Snapshots, Numbered
<1> QED BY <1>1, <1>2, <1>5 DEF Snapshots

\* A slot that may be recorded again has nothing queued, and nobody reads it.
LEMMA FreeIsIdle ==
    ASSUME IInv, NEW x \in AllSlots, Free(x)
    PROVE /\ Copies(x) = {} /\ slots[x].value # InFlight
          /\ \A c \in {capture} \cup present.held : c.slot # x
<1>1. slots[x].value # InFlight /\ reached[x[1]] >= slots[x].value /\ ~Leased(x)
  BY DEF Free
<1>2. Copies(x) = {}
  BY <1>1, CompleteHasNoCopy DEF IInv
<1> QED BY <1>1, <1>2 DEF Leased

LEMMA ReserveKeeps ==
    ASSUME IInv, NEW t \in Threads, Reserve(t)
    PROVE IInv'
<1> USE DEF IInv
<1> DEFINE k == calls[t]
           waiting == Pruned[k.list]
           free == {i \in 1..Slots : Free(<<k.queue, i>>)}
           first == CHOOSE i \in free : \A j \in free : i <= j
           x == <<k.queue, first>>
<1>1. /\ k.pc = "reserve" /\ pending' = [Pruned EXCEPT ![k.list] = NoCapture]
      /\ UNCHANGED <<mode, capture, submit, present, work, reached, texture, game, gone>>
  BY DEF Reserve
<1>2. k \in Calls /\ k.list \in Lists /\ k.queue \in Queues /\ submit = t /\ Raw(k.guides)
  BY <1>1 DEF TypeInv, Callers, Sound
<1>3. pending' \in [Lists -> Captures] /\ \A l \in Lists : Raw(pending'[l])
  BY <1>1, PrunedFits, NoCaptureFits
<1>4. waiting \in Captures /\ Raw(waiting)
  BY <1>2, PrunedFits
<1> HIDE DEF waiting
<1>5. \A u \in Threads : calls[u].pc \notin Working
  BY <1>1, <1>2 DEF Callers, Sound, Working
<1> DEFINE m == [k EXCEPT !.pc = "note"]
<1>6. m \in Calls /\ Sound(t, m) /\ m.pc \notin Working
  BY <1>2 DEF Calls, Sound, Working
<1> HIDE DEF m
<1>7. CASE waiting = NoCapture \/ free = {} \/ slots[x].list = "open"
  <2>1. calls' = [calls EXCEPT ![t] = m] /\ UNCHANGED <<slots, next>>
    BY <1>7 DEF Reserve, waiting, m
  <2>2. TypeInv'
    BY <1>1, <1>3, <1>6, <2>1 DEF TypeInv
  <2>3. Callers' /\ Queued' /\ Registered' /\ Recorded'
    BY <1>1, <1>3, <1>5, <1>6, <2>1, <2>2, ThreadMoves
  <2>4. Snapshots(State)'
    BY <1>1, <2>1, <2>2, SnapshotsSame
  <2> QED BY <2>2, <2>3, <2>4
<1>8. CASE ~(waiting = NoCapture \/ free = {} \/ slots[x].list = "open")
  <2>1. first \in free
    <3>1. free # {} /\ free \subseteq Nat
      BY <1>8, GuidesAssumption
    <3> HIDE DEF free
    <3>2. \E i \in free : \A j \in free : i <= j
      BY <3>1, LeastNatural
    <3> QED BY <3>2
  <2> HIDE DEF first
  <2>2. x \in AllSlots /\ Free(x) /\ x[1] = k.queue
    BY <2>1, <1>2 DEF AllSlots
  <2> HIDE DEF x, free
  <2>3. Copies(x) = {} /\ slots[x].value # InFlight /\ \A c \in {capture} \cup present.held : c.slot # x
    BY <2>2, FreeIsIdle
  <2>4. CASE /\ slots' = [slots EXCEPT ![x] = [value |-> InFlight, consumed |-> FALSE, staged |-> NoCapture, list |-> "closed"]]
             /\ next' = [next EXCEPT !.fence[k.queue] = @ + 1]
             /\ calls' = [calls EXCEPT ![t] = [@ EXCEPT !.pc = "submit", !.guides = waiting, !.slot = x,
                                                        !.value = next.fence[k.queue]]]
    <3> DEFINE v == next.fence[k.queue]
               c == [k EXCEPT !.pc = "submit", !.guides = waiting, !.slot = x, !.value = v]
               new == [value |-> InFlight, consumed |-> FALSE, staged |-> NoCapture, list |-> "closed"]
    <3>1. v \in Nat \ {0} /\ next \in [fence : [Queues -> Nat \ {0}], seq : Nat \ {0}]
      BY <1>2 DEF TypeInv
    <3>2. calls' = [calls EXCEPT ![t] = c]
      BY <2>4
    <3> DEFINE f == [next.fence EXCEPT ![k.queue] = v + 1]
    <3>3. next' = [next EXCEPT !.fence = f]
      BY <2>4
    <3>4. slots' = [slots EXCEPT ![x] = new]
      BY <2>4
    <3>5. new \in SlotStates
      BY NoCaptureFits DEF SlotStates
    <3>6. /\ c \in Calls /\ c.pc = "submit" /\ c.guides = waiting /\ c.slot = x /\ c.value = v
          /\ c.queue = k.queue /\ c.list = k.list
      BY <1>2, <1>4, <2>2, <3>1 DEF Calls
    <3> DEFINE old == next.fence
    <3>6a. old \in [Queues -> Nat \ {0}] /\ v + 1 \in Nat \ {0} /\ f = [old EXCEPT ![k.queue] = v + 1]
      BY <3>1
    <3>7. /\ f \in [Queues -> Nat \ {0}]
          /\ \A q \in Queues : f[q] = IF q = k.queue THEN v + 1 ELSE next.fence[q]
      <4>1. /\ f \in [Queues -> Nat \ {0}]
            /\ \A q \in Queues : f[q] = IF q = k.queue THEN v + 1 ELSE old[q]
        <5> HIDE DEF f, v, old
        <5> QED BY <3>6a
      <4> QED BY <4>1
    <3> HIDE DEF f, v, c
    <3>8. next' \in [fence : [Queues -> Nat \ {0}], seq : Nat \ {0}] /\ next'.fence = f /\ next'.seq = next.seq
      BY <3>1, <3>3, <3>7
    <3>9. TypeInv'
      BY <1>1, <1>3, <3>2, <3>4, <3>5, <3>6, <3>8 DEF TypeInv
    <3>10. /\ \A u \in Threads : calls'[u] = IF u = t THEN c ELSE calls[u]
           /\ \A y \in AllSlots : slots'[y] = IF y = x THEN new ELSE slots[y]
      BY <3>2, <3>4 DEF TypeInv
    <3>11. Callers'
      <4>1. ASSUME NEW u \in Threads PROVE Sound(u, calls[u])'
        <5>1. CASE u = t
          <6>1. v \in 1..(f[k.queue] - 1)
            BY <3>1, <3>7, <1>2
          <6>2. /\ calls'[u].pc = "submit" /\ Raw(calls'[u].guides) /\ calls'[u].list \in Lists /\ calls'[u].queue \in Queues
                /\ submit' = u /\ calls'[u].slot \in AllSlots /\ calls'[u].slot[1] = calls'[u].queue
                /\ slots'[calls'[u].slot].value = InFlight
                /\ calls'[u].value \in 1..(next'.fence[calls'[u].queue] - 1)
            BY <5>1, <3>10, <3>6, <1>1, <1>2, <1>4, <2>2, <3>8, <6>1
          <6> QED BY <6>2 DEF Sound, Working, Raw
        <5>2. CASE u # t
          <6>1. calls'[u] = calls[u] /\ Sound(u, calls[u]) /\ calls[u].pc \notin Working
            BY <3>10, <5>2, <1>5 DEF Callers
          <6> QED BY <6>1, <1>1 DEF Sound
        <5> QED BY <5>1, <5>2
      <4> QED BY <4>1, <1>3 DEF Callers, Raw
    <3>12. Queued'
      <4>1. ASSUME NEW q \in Queues
            PROVE (reached[q] < next.fence[q] /\ Outstanding(q) /\ Increasing(q) /\ OneCopy(q) /\ Local(q))'
        <5>1. next'.fence[q] \in {next.fence[q], next.fence[q] + 1} /\ next.fence[q] \in Nat /\ reached[q] \in Nat
          BY <3>7, <3>8, <1>2 DEF TypeInv, v
        <5>2. \A i \in DOMAIN work[q] : work[q][i].value \in Nat
          BY CopyFits DEF Copy
        <5>3. Outstanding(q)'
          BY <5>1, <5>2, <1>1 DEF Queued, Outstanding
        <5>4. reached'[q] < next'.fence[q]
          BY <5>1, <1>1 DEF Queued
        <5> QED BY <5>3, <5>4, <1>1 DEF Queued, Increasing, OneCopy, Local
      <4> QED BY <4>1 DEF Queued
    <3>13. Registered'
      <4>1. ASSUME NEW q \in Queues, NEW i \in DOMAIN work[q] PROVE Known(work[q][i])'
        <5> DEFINE w == work[q][i]
        <5>1. Known(w) /\ w.slot \in AllSlots /\ w' = w
          BY CopyFits, <1>1 DEF Registered, Copy
        <5>2. w.slot # x
          <6>1. w.slot[1] = q
            BY DEF Queued, Local
          <6> QED BY <6>1, <2>3 DEF Copies
        <5> HIDE DEF w
        <5>3. slots'[w.slot] = slots[w.slot]
          BY <3>10, <5>1, <5>2
        <5>4. \A u \in Threads : ~Staging(u, w)
          BY <1>5 DEF Staging, Working
        <5>5. \A u \in Threads : calls'[u].pc \in Working => calls'[u].slot # w.slot
          BY <3>10, <3>6, <1>5, <5>2
        <5>6. Known(w)'
          BY <5>1, <5>3, <5>4, <5>5 DEF Known
        <5> QED BY <5>6 DEF w
      <4> QED BY <4>1, <1>1 DEF Registered
    <3>14. Recorded'
      <4>1. ASSUME NEW u \in Threads, calls'[u].pc = "submit"
            PROVE (/\ Copies(calls[u].slot) = {}
                   /\ reached[calls[u].queue] < calls[u].value
                   /\ \A i \in DOMAIN work[calls[u].queue] : work[calls[u].queue][i].value < calls[u].value)'
        <5>1. u = t /\ calls'[u] = c
          BY <4>1, <3>10, <1>5 DEF Working
        <5>2. (Copies(calls[u].slot) = {})'
          BY <5>1, <3>6, <2>3, <1>1 DEF Copies
        <5>3. reached[k.queue] < v
          BY <1>2 DEF Queued, v
        <5>4. \A i \in DOMAIN work[k.queue] : work[k.queue][i].value < v
          BY <1>2, <3>1, CopyFits DEF Queued, Outstanding, v, Copy
        <5> QED BY <5>1, <5>2, <5>3, <5>4, <3>6, <1>1
      <4>2. ASSUME NEW u \in Threads PROVE calls'[u].pc # "stage"
        BY <3>10, <3>6, <1>5 DEF Working
      <4> QED BY <4>1, <4>2 DEF Recorded
    <3>15. State'.slots = slots' /\ State'.capture = capture /\ State'.seq = next.seq /\ State'.gone = gone
      BY <3>8, <1>1 DEF State
    <3>16. State.slots = slots /\ State.capture = capture /\ State.seq = next.seq /\ State.gone = gone
      BY StateFits
    <3>17. Staged(State)'
      <4>1. ASSUME NEW y \in AllSlots
            PROVE /\ slots'[y].value < next'.fence[y[1]]
                  /\ slots'[y].staged # NoCapture => y # x /\ slots'[y] = slots[y]
        <5>1. y[1] \in Queues /\ next.fence[y[1]] \in Nat /\ next'.fence[y[1]] \in Nat
              /\ next.fence[y[1]] <= next'.fence[y[1]]
          BY <3>7, <3>8, <3>1 DEF AllSlots, v
        <5>2. slots[y].value \in Nat \cup {InFlight} /\ slots[y].value < next.fence[y[1]]
          BY <3>16 DEF TypeInv, SlotStates, Snapshots, Staged
        <5>3. slots'[y].value \in {InFlight, slots[y].value}
          BY <3>10
        <5>4. slots'[y].value < next'.fence[y[1]]
          BY <5>1, <5>2, <5>3 DEF InFlight
        <5> QED BY <5>4, <3>10
      <4>2. \A y \in AllSlots : \A g : WillShow(y, g) => WillShow(y, g)'
        BY <1>1 DEF WillShow, Copies
      <4> QED BY <4>1, <4>2, <3>15, <3>16 DEF Snapshots, Staged
    <3>18. Held(State)'
      <4>1. \A h \in {capture} \cup present.held : Holds(State, h) => Holds(State, h)'
        BY <2>3, <3>10, <3>15, <3>16, <1>1 DEF Holds, Complete
      <4> QED BY <4>1, <3>15, <3>16, <1>1 DEF Snapshots, Held
    <3>19. Numbered(State)'
      <4>1. \A y \in AllSlots : slots'[y].staged \in {slots[y].staged, NoCapture}
        BY <3>10
      <4>2. NoCapture.seq = 0
        BY DEF NoCapture
      <4>3. next.seq \in Nat
        BY DEF TypeInv
      <4> QED BY <4>1, <4>2, <4>3, <3>15, <3>16, <1>1 DEF Snapshots, Numbered
    <3> QED BY <3>9, <3>11, <3>12, <3>13, <3>14, <3>17, <3>18, <3>19 DEF Snapshots
  <2>5. CASE /\ slots' = [slots EXCEPT ![x].staged = NoCapture, ![x].list = "open"]
             /\ calls' = [calls EXCEPT ![t].pc = "note"] /\ UNCHANGED next
    <3> DEFINE new == [slots[x] EXCEPT !.staged = NoCapture, !.list = "open"]
    <3>1. slots' = [slots EXCEPT ![x] = new]
      <4>1. slots \in [AllSlots -> SlotStates]
        BY DEF TypeInv
      <4> QED BY <4>1, <2>5, <2>2 DEF SlotStates
    <3>2. calls' = [calls EXCEPT ![t] = m]
      BY <2>5 DEF m
    <3>3. new \in SlotStates /\ new.staged = NoCapture /\ new.value = slots[x].value
      <4>1. slots[x] \in SlotStates /\ NoCapture \in Captures
        BY <2>2, NoCaptureFits DEF TypeInv
      <4> QED BY <4>1 DEF SlotStates
    <3> HIDE DEF new
    <3>4. \A y \in AllSlots : slots'[y] = IF y = x THEN new ELSE slots[y]
      BY <3>1 DEF TypeInv
    <3>5. TypeInv'
      <4>1. slots' \in [AllSlots -> SlotStates] /\ calls' \in [Threads -> Calls]
        BY <1>6, <3>1, <3>2, <3>3 DEF TypeInv
      <4> QED BY <1>1, <1>3, <2>5, <4>1 DEF TypeInv
    <3>6. \A y \in AllSlots : slots'[y].value = slots[y].value
      BY <3>3, <3>4
    <3>7. Callers' /\ Queued' /\ Registered' /\ Recorded'
      BY <1>1, <1>3, <1>5, <1>6, <2>5, <3>2, <3>5, <3>6, ThreadMoves
    <3> DEFINE s == State
               r == [s EXCEPT !.slots = slots']
    <3>8. s \in States /\ s.capture = capture /\ s.slots = slots /\ s.seq = next.seq /\ s.gone = gone /\ Snapshots(s)
      BY StateFits
    <3> HIDE DEF s
    <3>9. r \in States /\ r.capture = capture /\ r.slots = slots' /\ r.seq = next.seq /\ r.gone = gone
      BY <3>5, <3>8 DEF States, TypeInv
    <3> HIDE DEF r
    <3>10. Lessened(r, s)
      BY <3>4, <3>6, <3>3, <3>8, <3>9 DEF Lessened
    <3>11. Snapshots(r)
      BY <3>8, <3>9, <3>10, LessenedSnapshots
    <3>12. Snapshots(State)'
      BY <1>1, <2>5, <3>5, <3>9, <3>11, SnapshotsBecome
    <3> QED BY <3>5, <3>7, <3>12
  <2> QED BY <1>8, <2>4, <2>5 DEF Reserve, waiting, x, free, first
<1> QED BY <1>7, <1>8

\* A copy is queued behind all others, with the largest value or none.
LEMMA SubmitKeeps ==
    ASSUME IInv, NEW t \in Threads, Submit(t)
    PROVE IInv'
<1> USE DEF IInv
<1> DEFINE k == calls[t]
           q == k.queue
           x == k.slot
<1>1. PICK value \in Nat :
         /\ value \in {k.value, 0}
         /\ work' = [work EXCEPT ![q] = Append(@, [slot |-> x, guides |-> k.guides.guides, value |-> value])]
         /\ calls' = [calls EXCEPT ![t].pc = IF value = 0 THEN "note" ELSE "stage", ![t].guides.tick = game.now]
  <2>1. PICK value \in {k.value} \cup {0 : f \in Faults \cap {"signal"}} :
         /\ work' = [work EXCEPT ![q] = Append(@, [slot |-> x, guides |-> k.guides.guides, value |-> value])]
         /\ calls' = [calls EXCEPT ![t].pc = IF value = 0 THEN "note" ELSE "stage", ![t].guides.tick = game.now]
    BY DEF Submit
  <2>2. value \in {k.value, 0} /\ k.value \in Nat
    BY DEF TypeInv, Calls
  <2> QED BY <2>1, <2>2
<1>2. /\ k.pc = "submit"
      /\ UNCHANGED <<mode, capture, pending, slots, next, submit, present, reached, texture, game, gone>>
  BY DEF Submit
<1>3. /\ k \in Calls /\ k.list \in Lists /\ q \in Queues /\ submit = t /\ Raw(k.guides)
      /\ x \in AllSlots /\ x[1] = q /\ slots[x].value = InFlight /\ k.value \in 1..(next.fence[q] - 1)
  BY <1>2 DEF TypeInv, Callers, Sound, Working
<1>4. /\ Copies(x) = {} /\ reached[q] < k.value
      /\ \A i \in DOMAIN work[q] : work[q][i].value < k.value
  BY <1>2 DEF Recorded
<1>5. \A u \in Threads : u # t => calls[u].pc \notin Working
  BY <1>3 DEF Callers, Sound, Working
<1> DEFINE w == [slot |-> x, guides |-> k.guides.guides, value |-> value]
           pc == IF value = 0 THEN "note" ELSE "stage"
           g == [k.guides EXCEPT !.tick = game.now]
           c == [k EXCEPT !.pc = pc, !.guides = g]
<1>6. w \in Copy /\ w.slot = x /\ w.guides = k.guides.guides /\ w.value = value
  BY <1>3 DEF Calls, Captures, Copy
<1>7. g \in Captures /\ Raw(g) /\ g.guides = k.guides.guides
  BY <1>3 DEF TypeInv, Calls, Captures, Raw
<1>8. calls' = [calls EXCEPT ![t] = c]
  <2>1. calls \in [Threads -> Calls] /\ k \in Calls /\ k.guides \in Captures
    BY <1>3 DEF TypeInv, Calls
  <2> HIDE DEF pc
  <2>2. [k EXCEPT !.pc = pc, !.guides.tick = game.now] = c
    BY <2>1 DEF Calls, Captures
  <2>3. calls' = [calls EXCEPT ![t].pc = pc, ![t].guides.tick = game.now]
    BY <1>1 DEF pc
  <2>4. [calls EXCEPT ![t].pc = pc, ![t].guides.tick = game.now] = [calls EXCEPT ![t] = [k EXCEPT !.pc = pc, !.guides.tick = game.now]]
    BY <2>1, Zenon
  <2> QED BY <2>2, <2>3, <2>4
<1> HIDE DEF g
<1>9. /\ c \in Calls /\ c.pc = pc /\ pc \in {"note", "stage"} /\ c.guides = g /\ c.list = k.list /\ c.queue = q
      /\ c.slot = x /\ c.value = k.value
  BY <1>3, <1>7 DEF Calls
<1>10. (value = 0 => pc = "note") /\ (value # 0 => pc = "stage" /\ value = k.value)
  BY <1>1
<1>11. work' = [work EXCEPT ![q] = Append(work[q], w)]
  BY <1>1
<1> HIDE DEF c, pc, w
<1> DEFINE n == Len(work[q])
<1>12. /\ work[q] \in Seq(Copy) /\ n \in Nat /\ DOMAIN work[q] = 1..n /\ work'[q] = Append(work[q], w)
       /\ \A p \in Queues : p # q => work'[p] = work[p]
  BY <1>3, <1>11 DEF TypeInv
<1>13. /\ work'[q] \in Seq(Copy) /\ DOMAIN work'[q] = 1..(n + 1) /\ work'[q][n + 1] = w
       /\ \A i \in 1..n : work'[q][i] = work[q][i]
  BY <1>12, <1>6
<1>14. \A u \in Threads : calls'[u] = IF u = t THEN c ELSE calls[u]
  BY <1>8 DEF TypeInv
<1> HIDE DEF n
<1>15. TypeInv'
  <2>1. work' \in [Queues -> Seq(Copy)]
    BY <1>11, <1>12, <1>13 DEF TypeInv
  <2>2. calls' \in [Threads -> Calls]
    BY <1>8, <1>9 DEF TypeInv
  <2> QED BY <1>2, <2>1, <2>2 DEF TypeInv
<1>16. Callers'
  <2>1. ASSUME NEW u \in Threads PROVE Sound(u, calls[u])'
    <3>1. CASE u = t
      <4>1. /\ Raw(calls'[u].guides) /\ calls'[u].pc \in {"note", "stage"} /\ calls'[u].list \in Lists
            /\ calls'[u].queue = q /\ q \in Queues /\ calls'[u].slot = x /\ calls'[u].value = k.value
        BY <3>1, <1>14, <1>9, <1>7, <1>3
      <4>2. submit' = u /\ slots' = slots /\ next' = next
        BY <3>1, <1>2, <1>3
      <4>3. /\ calls'[u].slot \in AllSlots /\ calls'[u].slot[1] = calls'[u].queue /\ slots'[calls'[u].slot].value = InFlight
            /\ calls'[u].value \in 1..(next'.fence[calls'[u].queue] - 1)
        BY <4>1, <4>2, <1>3
      <4> HIDE DEF q, x, k
      <4> QED BY <4>1, <4>2, <4>3 DEF Sound, Working, Raw
    <3>2. CASE u # t
      <4>1. calls'[u] = calls[u] /\ Sound(u, calls[u])
        BY <1>14, <3>2 DEF Callers
      <4> QED BY <4>1, <1>2 DEF Sound
    <3> QED BY <3>1, <3>2
  <2> QED BY <2>1, <1>2 DEF Callers
<1>17. ASSUME NEW i \in 1..n PROVE /\ work[q][i].slot # x /\ work[q][i] \in Copy /\ work[q][i].value < k.value
  BY <1>4, <1>12, <1>3 DEF Copies
<1>18. Queued'
  <2>1. ASSUME NEW p \in Queues
        PROVE (reached[p] < next.fence[p] /\ Outstanding(p) /\ Increasing(p) /\ OneCopy(p) /\ Local(p))'
    <3>1. CASE p # q
      BY <3>1, <1>12, <1>2 DEF Queued, Outstanding, Increasing, OneCopy, Local
    <3>2. CASE p = q
      <4>1. /\ reached[q] < next.fence[q] /\ Outstanding(q) /\ Increasing(q) /\ OneCopy(q) /\ Local(q)
        BY <1>3 DEF Queued
      <4>2. next.fence[q] \in Nat /\ reached[q] \in Nat /\ k.value \in Nat /\ k.value < next.fence[q] /\ value \in {k.value, 0}
        BY <1>1, <1>3 DEF TypeInv, Calls
      <4>3. work'[q][n + 1].value = value /\ work'[q][n + 1].slot = x /\ n \in Nat
        BY <1>13, <1>6, <1>12
      <4> HIDE DEF q, x, k
      <4>4. ASSUME NEW i \in 1..(n + 1), i # n + 1
            PROVE i \in 1..n /\ i \in DOMAIN work[q] /\ work'[q][i] = work[q][i]
        BY <4>3, <4>4, <1>13, <1>12
      <4>5. Outstanding(p)'
        <5>1. ASSUME NEW i \in 1..(n + 1), work'[q][i].value # 0
              PROVE reached[q] < work'[q][i].value /\ work'[q][i].value < next.fence[q]
          BY <5>1, <4>1, <4>2, <4>3, <4>4, <1>4 DEF Outstanding
        <5> QED BY <5>1, <1>13, <1>2, <3>2 DEF Outstanding
      <4>6. Increasing(p)'
        <5>1. ASSUME NEW i \in 1..(n + 1), NEW j \in 1..(n + 1), i < j, work'[q][i].value # 0, work'[q][j].value # 0
              PROVE work'[q][i].value < work'[q][j].value
          <6>1. i # n + 1 /\ i \in 1..n
            BY <4>3, <5>1
          <6>2. CASE j = n + 1
            BY <6>1, <6>2, <4>2, <4>3, <4>4, <5>1, <1>17
          <6>3. CASE j # n + 1
            BY <6>1, <6>3, <4>1, <4>4, <5>1 DEF Increasing
          <6> QED BY <6>2, <6>3
        <5> QED BY <5>1, <1>13, <1>2, <3>2 DEF Increasing
      <4>7. OneCopy(p)'
        <5>1. ASSUME NEW i \in 1..(n + 1), NEW j \in 1..(n + 1), i # j
              PROVE work'[q][i].slot # work'[q][j].slot
          <6>1. CASE i = n + 1
            BY <6>1, <5>1, <4>3, <4>4, <1>17
          <6>2. CASE j = n + 1
            BY <6>2, <5>1, <4>3, <4>4, <1>17
          <6>3. CASE i # n + 1 /\ j # n + 1
            BY <6>3, <5>1, <4>1, <4>4 DEF OneCopy
          <6> QED BY <6>1, <6>2, <6>3
        <5> QED BY <5>1, <1>13, <1>2, <3>2 DEF OneCopy
      <4>8. Local(p)'
        <5>1. ASSUME NEW i \in 1..(n + 1) PROVE work'[q][i].slot[1] = q
          BY <4>1, <4>3, <4>4, <1>3 DEF Local
        <5> QED BY <5>1, <1>13, <1>2, <3>2 DEF Local
      <4>9. reached'[p] < next'.fence[p]
        BY <1>2, <4>1, <3>2
      <4> QED BY <3>2, <4>5, <4>6, <4>7, <4>8, <4>9
    <3> QED BY <3>1, <3>2
  <2> QED BY <2>1 DEF Queued
<1>19. Registered'
  <2>1. ASSUME NEW p \in Queues, NEW i \in DOMAIN work'[p] PROVE Known(work[p][i])'
    <3>1. CASE p = q /\ i = n + 1
      <4>1. work'[p][i].slot = x /\ work'[p][i].value = value
        BY <3>1, <1>13, <1>6
      <4>2. slots'[work'[p][i].slot].value = InFlight
        BY <4>1, <1>2, <1>3
      <4>3. value = 0 => \A u \in Threads : calls'[u].pc \notin Working
        BY <1>14, <1>9, <1>10, <1>5 DEF Working
      <4>4. value # 0 => calls'[t].pc = "stage" /\ calls'[t].slot = work'[p][i].slot /\ calls'[t].value = work'[p][i].value
        BY <1>14, <1>9, <1>10, <4>1
      <4>5. value # 0 => \E u \in Threads : Staging(u, work[p][i])'
        BY <4>4 DEF Staging
      <4> QED BY <4>1, <4>2, <4>3, <4>5 DEF Known
    <3>2. CASE ~(p = q /\ i = n + 1)
      <4>1. i \in DOMAIN work[p] /\ work'[p][i] = work[p][i]
        <5>1. CASE p # q
          BY <2>1, <5>1, <1>12
        <5>2. CASE p = q
          <6>1. i \in 1..(n + 1) /\ i # n + 1 /\ n \in Nat
            BY <2>1, <3>2, <5>2, <1>12, <1>13
          <6>2. i \in 1..n
            BY <6>1
          <6> QED BY <6>2, <5>2, <1>12, <1>13
        <5> QED BY <5>1, <5>2
      <4>2. work[p][i].slot # x
        <5>1. CASE p = q
          BY <5>1, <4>1, <1>12, <1>17
        <5>2. CASE p # q
          BY <5>2, <4>1, <1>3 DEF Queued, Local
        <5> QED BY <5>1, <5>2
      <4>3. Known(work[p][i])
        BY <4>1 DEF Registered
      <4>4. \A u \in Threads : ~Staging(u, work[p][i])
        BY <1>2, <1>5 DEF Staging, Working
      <4>5. slots' = slots
        BY <1>2
      <4>6. \A u \in Threads : calls'[u].pc \in Working => calls'[u].slot # work[p][i].slot
        BY <4>2, <1>14, <1>9, <1>5
      <4> HIDE DEF x, q, k
      <4> QED BY <4>1, <4>3, <4>4, <4>5, <4>6 DEF Known
    <3> QED BY <3>1, <3>2
  <2> QED BY <2>1 DEF Registered
<1>20. ASSUME NEW y \in AllSlots, y # x PROVE (Copies(y) = Copies(y)') /\ \A i \in Copies(y) : work'[y[1]][i] = work[y[1]][i]
  <2>1. CASE y[1] # q
    <3>1. y[1] \in Queues
      BY DEF AllSlots
    <3> QED BY <2>1, <3>1, <1>12 DEF Copies
  <2>2. CASE y[1] = q
    <3>1. DOMAIN work'[q] = 1..(n + 1) /\ DOMAIN work[q] = 1..n /\ n \in Nat
      BY <1>12, <1>13
    <3>2. work'[q][n + 1].slot = x /\ \A i \in 1..n : work'[q][i] = work[q][i]
      BY <1>13, <1>6
    <3> HIDE DEF q, x, k
    <3>3. {i \in 1..(n + 1) : work'[q][i].slot = y} = {i \in 1..n : work[q][i].slot = y}
      BY <3>1, <3>2, <1>20
    <3> QED BY <3>1, <3>2, <3>3, <2>2 DEF Copies
  <2> QED BY <2>1, <2>2
<1>21. ASSUME NEW y \in AllSlots, y # x, NEW h, WillShow(y, h) PROVE WillShow(y, h)'
  BY <1>20, <1>21, <1>2 DEF WillShow
<1>22. Recorded'
  <2>1. \A u \in Threads : calls'[u].pc # "submit"
    BY <1>14, <1>9, <1>5 DEF Working
  <2>2. ASSUME NEW u \in Threads, calls'[u].pc = "stage"
        PROVE WillShow(calls[u].slot, calls[u].guides.guides)'
    <3>1. u = t /\ calls'[u].slot = x /\ calls'[u].guides.guides = k.guides.guides
      BY <2>2, <1>14, <1>9, <1>7, <1>5 DEF Working
    <3>2. work'[x[1]][n + 1].guides = k.guides.guides /\ work'[x[1]][n + 1].slot = x /\ DOMAIN work'[x[1]] = 1..(n + 1)
      BY <1>3, <1>13, <1>6
    <3>3. \A i \in DOMAIN work'[x[1]] : work'[x[1]][i].slot = x => i = n + 1
      BY <3>2, <1>13, <1>17, <1>12, <1>3
    <3>4. n + 1 \in DOMAIN work'[x[1]]
      BY <3>2, <1>12
    <3> HIDE DEF q, x, k
    <3> QED BY <3>1, <3>2, <3>3, <3>4 DEF WillShow, Copies
  <2> QED BY <2>1, <2>2 DEF Recorded
<1>23. State' = State /\ State.slots = slots
  BY <1>2, StateFits DEF State
<1>24. Staged(State)'
  <2>1. ASSUME NEW y \in AllSlots, slots[y].staged # NoCapture PROVE y # x
    BY <2>1, <1>3, <1>23 DEF Snapshots, Staged
  <2> QED BY <2>1, <1>21, <1>23, <1>2 DEF Snapshots, Staged
<1>25. Held(State)' /\ Numbered(State)'
  BY <1>23, <1>2 DEF Snapshots, Held, Holds, Complete, Numbered
<1> QED BY <1>15, <1>16, <1>18, <1>19, <1>22, <1>24, <1>25 DEF Snapshots

\* The slot gets the value the thread has for it.
LEMMA StageKeeps ==
    ASSUME IInv, NEW t \in Threads, Stage(t)
    PROVE IInv'
<1> USE DEF IInv
<1> DEFINE k == calls[t]
           x == k.slot
           staged == [k.guides EXCEPT !.owned = TRUE, !.safe = TRUE, !.list = k.list, !.queue = k.queue,
                                      !.seq = next.seq, !.slot = k.slot]
           new == [slots[x] EXCEPT !.value = k.value, !.consumed = FALSE, !.staged = staged]
           c == [k EXCEPT !.pc = "note"]
<1>1. /\ k.pc = "stage" /\ slots' = [slots EXCEPT ![x] = new] /\ next' = [next EXCEPT !.seq = @ + 1]
      /\ calls' = [calls EXCEPT ![t] = c]
      /\ UNCHANGED <<mode, capture, pending, submit, present, work, reached, texture, game, gone>>
  BY DEF Stage
<1>2. /\ k \in Calls /\ k.list \in Lists /\ k.queue \in Queues /\ submit = t /\ Raw(k.guides)
      /\ x \in AllSlots /\ x[1] = k.queue /\ slots[x].value = InFlight /\ k.value \in 1..(next.fence[k.queue] - 1)
  BY <1>1 DEF TypeInv, Callers, Sound, Working
<1>3. WillShow(x, k.guides.guides)
  BY <1>1 DEF Recorded
<1>4. \A u \in Threads : u # t => calls[u].pc \notin Working
  BY <1>2 DEF Callers, Sound, Working
<1>5. next \in [fence : [Queues -> Nat \ {0}], seq : Nat \ {0}] /\ next.seq \in Nat \ {0} /\ next.seq + 1 \in Nat \ {0}
  BY DEF TypeInv
<1>6. /\ staged \in Captures /\ staged.owned /\ staged.slot = x /\ staged.guides = k.guides.guides /\ staged.seq = next.seq
  BY <1>2, <1>5 DEF Calls, Captures
<1> HIDE DEF staged
<1>7. new \in SlotStates /\ new.value = k.value /\ new.staged = staged
  <2>1. slots[x] \in SlotStates /\ k.value \in Nat
    BY <1>2 DEF TypeInv, Calls
  <2> QED BY <2>1, <1>6 DEF SlotStates
<1>8. c \in Calls /\ c.pc = "note" /\ c.guides = k.guides /\ c.list = k.list /\ c.queue = k.queue
  BY <1>2 DEF Calls
<1> HIDE DEF new, c
<1>9. /\ \A u \in Threads : calls'[u] = IF u = t THEN c ELSE calls[u]
      /\ \A y \in AllSlots : slots'[y] = IF y = x THEN new ELSE slots[y]
  BY <1>1, <1>2 DEF TypeInv
<1>10. next' \in [fence : [Queues -> Nat \ {0}], seq : Nat \ {0}] /\ next'.fence = next.fence /\ next'.seq = next.seq + 1
  BY <1>1, <1>5
<1>11. TypeInv'
  <2>1. slots' \in [AllSlots -> SlotStates] /\ calls' \in [Threads -> Calls]
    BY <1>1, <1>7, <1>8 DEF TypeInv
  <2> QED BY <2>1, <1>1, <1>10 DEF TypeInv
<1>12. Callers'
  <2>1. ASSUME NEW u \in Threads PROVE Sound(u, calls[u])'
    <3>1. CASE u = t
      <4>1. Raw(calls'[u].guides) /\ calls'[u].pc = "note"
        BY <3>1, <1>9, <1>8, <1>2
      <4> QED BY <4>1 DEF Sound, Working, Raw
    <3>2. CASE u # t
      <4>1. calls'[u] = calls[u] /\ Sound(u, calls[u]) /\ calls[u].pc \notin Working
        BY <1>9, <3>2, <1>4 DEF Callers
      <4> QED BY <4>1, <1>1 DEF Sound
    <3> QED BY <3>1, <3>2
  <2> QED BY <2>1, <1>1 DEF Callers
<1>13. Queued'
  BY <1>1, <1>10, QueuesSame
<1>14. Registered'
  <2>1. ASSUME NEW p \in Queues, NEW i \in DOMAIN work[p] PROVE Known(work[p][i])'
    <3> DEFINE w == work[p][i]
    <3>1. w \in Copy /\ w.slot \in AllSlots /\ w.value \in Nat /\ Known(w)
      BY CopyFits DEF Registered, Copy
    <3>2. w' = w
      BY <1>1
    <3> HIDE DEF w
    <3>3. CASE w.slot = x
      <4>1. w.value # 0
        BY <3>1, <3>3, <1>1 DEF Known, Working
      <4>2. slots[w.slot].value # w.value
        BY <3>1, <3>3, <1>2 DEF InFlight
      <4>3. PICK u \in Threads : Staging(u, w)
        BY <4>1, <4>2, <3>1 DEF Known
      <4>4. u = t
        BY <4>3, <1>4 DEF Staging, Working
      <4>5. w.value = k.value
        BY <4>3, <4>4 DEF Staging
      <4>6. slots'[w.slot].value = w.value
        BY <4>5, <3>1, <3>3, <1>9, <1>7
      <4> QED BY <4>1, <4>6, <3>2 DEF Known, w
    <3>4. CASE w.slot # x
      <4>1. slots'[w.slot] = slots[w.slot]
        BY <3>1, <3>4, <1>9
      <4>2. \A u \in Threads : ~Staging(u, w)
        BY <1>4, <3>4 DEF Staging, Working
      <4>3. \A u \in Threads : calls'[u].pc \notin Working
        BY <1>9, <1>8, <1>4 DEF Working
      <4>4. Known(w)'
        BY <4>1, <4>2, <4>3, <3>1, <3>2 DEF Known
      <4> QED BY <4>4 DEF w
    <3> QED BY <3>3, <3>4
  <2> QED BY <2>1, <1>1 DEF Registered
<1>15. Recorded'
  BY <1>9, <1>8, <1>4 DEF Recorded, Working
<1>16. /\ State'.slots = slots' /\ State'.capture = capture /\ State'.seq = next.seq + 1 /\ State'.gone = gone
       /\ State.slots = slots /\ State.capture = capture /\ State.seq = next.seq /\ State.gone = gone
  BY <1>1, <1>10, StateFits DEF State
<1>17. Staged(State)'
  <2>1. \A y \in AllSlots : \A g : WillShow(y, g) => WillShow(y, g)'
    BY <1>1 DEF WillShow, Copies
  <2>2. k.value < next.fence[x[1]] /\ k.value \notin {0, InFlight}
    BY <1>2, <1>5 DEF InFlight
  <2>3. ASSUME NEW y \in AllSlots
        PROVE (/\ State.slots[y].value < next.fence[y[1]]
               /\ State.slots[y].staged # NoCapture =>
                    /\ State.slots[y].value \notin {0, InFlight}
                    /\ State.slots[y].staged.owned /\ State.slots[y].staged.slot = y
                    /\ WillShow(y, State.slots[y].staged.guides))'
    <3>1. CASE y = x
      <4>1. State'.slots[y] = new
        BY <1>9, <1>16, <3>1
      <4> HIDE DEF x, k
      <4> QED BY <4>1, <3>1, <2>1, <2>2, <1>3, <1>6, <1>7, <1>10
    <3>2. CASE y # x
      <4>1. State'.slots[y] = State.slots[y]
        BY <1>9, <1>16, <3>2
      <4> HIDE DEF x, k
      <4> QED BY <4>1, <2>1, <1>10 DEF Snapshots, Staged
    <3> QED BY <3>1, <3>2
  <2> QED BY <2>3 DEF Staged
<1>18. Held(State)'
  <2>1. \A h : Holds(State, h) => Holds(State, h)'
    <3>1. \A y \in AllSlots : Complete(State, y) => Complete(State, y)'
      BY <1>1, <1>2, <1>9, <1>16 DEF Complete
    <3> QED BY <3>1, <1>1 DEF Holds
  <2> QED BY <2>1, <1>1, <1>16 DEF Snapshots, Held
<1>19. Numbered(State)'
  <2>1. /\ \A n \in gone : n \in Nat /\ n < next.seq
        /\ capture.seq \in Nat /\ capture.seq < next.seq
        /\ \A h \in present.held : h.seq \in 1..(next.seq - 1)
    BY <1>16 DEF TypeInv, Captures, Snapshots, Numbered
  <2>2. \A y \in AllSlots : slots[y].staged.seq \in Nat /\ slots[y].staged.seq < next.seq
    <3>1. ASSUME NEW y \in AllSlots PROVE slots[y].staged.seq \in Nat /\ slots[y].staged.seq < next.seq
      <4>1. CASE slots[y].staged = NoCapture
        BY <4>1, <1>5 DEF NoCapture
      <4>2. CASE slots[y].staged # NoCapture
        BY <4>2, <1>5, <1>16 DEF Snapshots, Numbered
      <4> QED BY <4>1, <4>2
    <3> QED BY <3>1
  <2>3. ASSUME NEW y \in AllSlots, State'.slots[y].staged # NoCapture
        PROVE /\ State'.slots[y].staged.seq \in 1..next.seq /\ State'.slots[y].staged.seq \notin gone
              /\ State'.slots[y].staged.seq = capture.seq => capture.owned
              /\ \A h \in present.held : h.seq = State'.slots[y].staged.seq => h.owned
              /\ \A z \in AllSlots : y # z => State'.slots[z].staged.seq # State'.slots[y].staged.seq
    <3>1. CASE y = x
      <4>1. State'.slots[y].staged = staged /\ \A z \in AllSlots : z # x => State'.slots[z].staged = slots[z].staged
        BY <1>9, <1>7, <1>16, <3>1
      <4> HIDE DEF x, k
      <4> QED BY <4>1, <3>1, <1>5, <1>6, <2>1, <2>2
    <3>2. CASE y # x
      <4>1. State'.slots[y].staged = slots[y].staged /\ State'.slots[x].staged = staged
            /\ \A z \in AllSlots : z # x => State'.slots[z].staged = slots[z].staged
        BY <1>9, <1>7, <1>16, <3>2, <1>2
      <4>2. slots[y].staged # NoCapture
        BY <2>3, <4>1
      <4> HIDE DEF x, k
      <4>3. /\ slots[y].staged.seq \in 1..(next.seq - 1) /\ slots[y].staged.seq \notin gone
            /\ slots[y].staged.seq = capture.seq => capture.owned
            /\ \A h \in present.held : h.seq = slots[y].staged.seq => h.owned
            /\ \A z \in AllSlots : y # z => slots[z].staged.seq # slots[y].staged.seq
        BY <4>2, <1>16 DEF Snapshots, Numbered
      <4> QED BY <4>1, <4>3, <1>5, <1>6, <2>2
    <3> QED BY <3>1, <3>2
  <2>4. (next.seq + 1) - 1 = next.seq /\ \A h \in present.held : h.seq \in 1..next.seq
    BY <2>1, <1>5
  <2>5. capture.seq < next.seq + 1 /\ \A n \in gone : n < next.seq + 1
    BY <2>1, <1>5
  <2> QED BY <2>3, <2>4, <2>5, <1>1, <1>16 DEF Snapshots, Numbered
<1> QED BY <1>11, <1>12, <1>13, <1>14, <1>15, <1>17, <1>18, <1>19 DEF Snapshots

\* The queue executes its oldest copy.
LEMMA GpuKeeps ==
    ASSUME IInv, NEW q \in Queues, Gpu(q)
    PROVE IInv'
<1> USE DEF IInv
<1> DEFINE w == Head(work[q])
           n == Len(work[q])
<1>1. /\ work[q] # <<>> /\ work' = [work EXCEPT ![q] = Tail(work[q])]
      /\ texture' = [texture EXCEPT ![w.slot] = Joined(texture[w.slot], w.guides)]
      /\ reached' = IF w.value = 0 THEN reached ELSE [reached EXCEPT ![q] = w.value]
      /\ UNCHANGED <<mode, capture, pending, slots, next, submit, calls, present, game, gone>>
  BY DEF Gpu
<1>2. /\ work[q] \in Seq(Copy) /\ n \in Nat \ {0} /\ DOMAIN work[q] = 1..n /\ w = work[q][1] /\ 1 \in DOMAIN work[q]
  <2>1. work[q] \in Seq(Copy)
    BY DEF TypeInv
  <2> QED BY <2>1, <1>1
<1>3. /\ work'[q] \in Seq(Copy) /\ DOMAIN work'[q] = 1..(n - 1)
      /\ \A i \in 1..(n - 1) : i + 1 \in 1..n /\ work'[q][i] = work[q][i + 1]
      /\ \A p \in Queues : p # q => work'[p] = work[p]
  BY <1>1, <1>2 DEF TypeInv
<1>4. /\ w \in Copy /\ w.slot \in AllSlots /\ w.guides \in Guides /\ w.value \in Nat /\ w.slot[1] = q
  BY <1>2, CopyFits DEF Copy, Queued, Local
<1>5. w.value # 0 => reached[q] < w.value /\ w.value < next.fence[q]
  BY <1>2 DEF Queued, Outstanding
<1>6. /\ \A y \in AllSlots : texture[y] \in Guides /\ (y # w.slot => texture'[y] = texture[y])
      /\ texture'[w.slot] = Joined(texture[w.slot], w.guides)
      /\ texture' \in [AllSlots -> Guides]
  BY <1>1, <1>4, JoinedFits DEF TypeInv
<1>7. /\ reached' \in [Queues -> Nat] /\ \A p \in Queues : reached[p] \in Nat /\ (p # q => reached'[p] = reached[p])
      /\ reached'[q] = IF w.value = 0 THEN reached[q] ELSE w.value
  BY <1>1, <1>4 DEF TypeInv
<1>8. \A p \in Queues : reached'[p] >= reached[p] /\ reached'[p] < next.fence[p]
  <2>1. \A p \in Queues : reached[p] < next.fence[p]
    BY DEF Queued
  <2> QED BY <2>1, <1>4, <1>5, <1>7
<1> HIDE DEF w, n
<1>9. TypeInv'
  BY <1>1, <1>3, <1>6, <1>7 DEF TypeInv
<1>10. Callers'
  BY <1>1 DEF Callers, Sound
<1>11. Queued'
  <2>1. ASSUME NEW p \in Queues
        PROVE (reached[p] < next.fence[p] /\ Outstanding(p) /\ Increasing(p) /\ OneCopy(p) /\ Local(p))'
    <3>1. CASE p # q
      BY <3>1, <1>1, <1>3, <1>7 DEF Queued, Outstanding, Increasing, OneCopy, Local
    <3>2. CASE p = q
      <4>1. Outstanding(q) /\ Increasing(q) /\ OneCopy(q) /\ Local(q)
        BY DEF Queued
      <4>2. \A i \in 1..(n - 1) : i \in Nat /\ i + 1 \in DOMAIN work[q] /\ 1 < i + 1 /\ work[q][i + 1].value \in Nat
        <5>1. \A i \in 1..(n - 1) : i \in Nat /\ i + 1 \in DOMAIN work[q] /\ 1 < i + 1
          BY <1>2, <1>3
        <5>2. \A j \in DOMAIN work[q] : work[q][j].value \in Nat
          BY CopyFits DEF Copy
        <5> QED BY <5>1, <5>2
      <4>3. Outstanding(p)'
        <5>1. ASSUME NEW i \in 1..(n - 1), work'[q][i].value # 0
              PROVE reached'[q] < work'[q][i].value /\ work'[q][i].value < next.fence[q]
          <6>1. work[q][i + 1].value # 0 /\ reached[q] < work[q][i + 1].value /\ work[q][i + 1].value < next.fence[q]
            BY <5>1, <1>3, <4>1, <4>2 DEF Outstanding
          <6>2. w.value # 0 => w.value < work[q][i + 1].value
            BY <6>1, <4>1, <4>2, <1>2 DEF Increasing
          <6> QED BY <6>1, <6>2, <1>3, <1>7
        <5> QED BY <5>1, <1>1, <1>3, <3>2 DEF Outstanding
      <4>4. Increasing(p)'
        <5>1. ASSUME NEW i \in 1..(n - 1), NEW j \in 1..(n - 1), i < j, work'[q][i].value # 0, work'[q][j].value # 0
              PROVE work'[q][i].value < work'[q][j].value
          <6>1. i + 1 < j + 1
            BY <5>1, <4>2
          <6> QED BY <6>1, <5>1, <4>1, <4>2, <1>3 DEF Increasing
        <5> QED BY <5>1, <1>3, <3>2 DEF Increasing
      <4>5. OneCopy(p)'
        <5>1. ASSUME NEW i \in 1..(n - 1), NEW j \in 1..(n - 1), i # j
              PROVE work'[q][i].slot # work'[q][j].slot
          <6>1. i + 1 # j + 1
            BY <5>1, <4>2
          <6> QED BY <6>1, <4>1, <4>2, <1>3 DEF OneCopy
        <5> QED BY <5>1, <1>3, <3>2 DEF OneCopy
      <4>6. Local(p)'
        <5>1. ASSUME NEW i \in 1..(n - 1) PROVE work'[q][i].slot[1] = q
          BY <4>1, <4>2, <1>3 DEF Local
        <5> QED BY <5>1, <1>3, <3>2 DEF Local
      <4>7. reached'[p] < next'.fence[p]
        BY <1>1, <1>8
      <4> QED BY <4>3, <4>4, <4>5, <4>6, <4>7
    <3> QED BY <3>1, <3>2
  <2> QED BY <2>1 DEF Queued
\* Whatever is queued was queued before.
<1>12. \A p \in Queues : \A i \in DOMAIN work'[p] : \E j \in DOMAIN work[p] : work'[p][i] = work[p][j]
  <2>1. ASSUME NEW p \in Queues, NEW i \in DOMAIN work'[p] PROVE \E j \in DOMAIN work[p] : work'[p][i] = work[p][j]
    <3>1. CASE p # q
      BY <3>1, <1>3
    <3>2. CASE p = q
      BY <3>2, <1>2, <1>3
    <3> QED BY <3>1, <3>2
  <2> QED BY <2>1
<1>13. Registered'
  <2>1. ASSUME NEW p \in Queues, NEW i \in DOMAIN work'[p] PROVE Known(work[p][i])'
    <3>1. PICK j \in DOMAIN work[p] : work'[p][i] = work[p][j]
      BY <1>12
    <3>2. Known(work[p][j])
      BY DEF Registered
    <3> QED BY <3>1, <3>2, <1>1 DEF Known, Staging
  <2> QED BY <2>1 DEF Registered
<1>14. ASSUME NEW y \in AllSlots, Copies(y) = {} PROVE Copies(y)' = {} /\ y # w.slot
  <2>1. y[1] \in Queues
    BY DEF AllSlots
  <2>2. Copies(y)' = {}
    BY <2>1, <1>12, <1>14 DEF Copies
  <2>3. y # w.slot
    BY <1>2, <1>4, <1>14 DEF Copies
  <2> QED BY <2>2, <2>3
\* What the textures will hold stays, and is what they hold in the end.
<1>15. ASSUME NEW y \in AllSlots, NEW h, WillShow(y, h) PROVE WillShow(y, h)'
  <2>1. y[1] \in Queues
    BY DEF AllSlots
  <2>2. CASE y = w.slot
    <3>1. 1 \in Copies(y) /\ w.guides = h
      <4>1. 1 \in Copies(y)
        BY <2>2, <1>2, <1>4 DEF Copies
      <4> QED BY <4>1, <1>2, <1>4, <1>15, <2>2 DEF WillShow
    <3>2. Copies(y)' = {}
      <4>1. ASSUME NEW i \in 1..(n - 1), work'[q][i].slot = y PROVE FALSE
        <5>1. i + 1 \in DOMAIN work[q] /\ i + 1 # 1 /\ work[q][i + 1].slot = work[q][1].slot
          BY <4>1, <1>2, <1>3, <2>2
        <5> QED BY <5>1, <1>2 DEF Queued, OneCopy
      <4> QED BY <4>1, <1>3, <1>4, <2>2 DEF Copies
    <3>3. Shows(texture'[y], h)
      BY <3>1, <2>2, <1>4, <1>6, JoinedShows
    <3> QED BY <3>2, <3>3 DEF WillShow, Shows
  <2>3. CASE y # w.slot
    <3>1. texture'[y] = texture[y]
      BY <2>3, <1>6
    <3>2. CASE Copies(y) = {}
      BY <3>1, <3>2, <1>14, <1>15 DEF WillShow, Shows
    <3>3. CASE Copies(y) # {}
      <4>1. \A i \in DOMAIN work[y[1]] : work[y[1]][i].slot = y => work[y[1]][i].guides = h
        BY <3>3, <1>15 DEF WillShow, Copies
      <4>2. \A i \in Copies(y)' : work'[y[1]][i].guides = h
        BY <4>1, <2>1, <1>12 DEF Copies
      <4>3. PICK i \in DOMAIN work[y[1]] : work[y[1]][i].slot = y
        BY <3>3 DEF Copies
      <4>4. \E j \in DOMAIN work'[y[1]] : work'[y[1]][j] = work[y[1]][i]
        <5>1. CASE y[1] # q
          BY <5>1, <2>1, <1>3
        <5>2. CASE y[1] = q
          <6>1. i \in 1..n /\ i # 1
            BY <4>3, <5>2, <1>2, <2>3
          <6>2. i - 1 \in 1..(n - 1) /\ (i - 1) + 1 = i
            BY <6>1, <1>2
          <6> QED BY <6>2, <5>2, <1>3
        <5> QED BY <5>1, <5>2
      <4>5. Copies(y)' # {}
        BY <4>3, <4>4 DEF Copies
      <4> QED BY <4>2, <4>5 DEF WillShow
    <3> QED BY <3>2, <3>3
  <2> QED BY <2>2, <2>3
<1>16. Recorded'
  <2>1. ASSUME NEW t \in Threads, calls[t].pc = "submit"
        PROVE (/\ Copies(calls[t].slot) = {}
               /\ reached[calls[t].queue] < calls[t].value
               /\ \A i \in DOMAIN work[calls[t].queue] : work[calls[t].queue][i].value < calls[t].value)'
    <3> DEFINE k == calls[t]
    <3>1. /\ Copies(k.slot) = {} /\ reached[k.queue] < k.value
          /\ \A i \in DOMAIN work[k.queue] : work[k.queue][i].value < k.value
      BY <2>1 DEF Recorded
    <3>2. k.slot \in AllSlots /\ k.queue \in Queues
      BY <2>1 DEF Callers, Sound, Working
    <3>3. calls' = calls
      BY <1>1
    <3>4. reached'[k.queue] < k.value
      <4>1. k.queue = q /\ w.value # 0 => w.value < k.value
        BY <3>1, <1>2
      <4> QED BY <4>1, <3>1, <3>2, <1>7
    <3>5. \A i \in DOMAIN work'[k.queue] : work'[k.queue][i].value < k.value
      BY <3>1, <3>2, <1>12
    <3>6. Copies(k.slot)' = {}
      <4> HIDE DEF k
      <4>1. k' = k
        BY <3>3 DEF k
      <4>2. \A y \in AllSlots : Copies(y) = {} => Copies(y)' = {}
        BY <1>14
      <4>3. \A y \in AllSlots : Copies(y)' = {} => {i \in DOMAIN work'[y[1]] : work'[y[1]][i].slot = y} = {}
        BY DEF Copies
      <4>4. {i \in DOMAIN work'[k.slot[1]] : work'[k.slot[1]][i].slot = k.slot} = {}
        BY <4>2, <4>3, <3>1, <3>2
      <4> QED BY <4>1, <4>4 DEF Copies
    <3> QED BY <3>3, <3>4, <3>5, <3>6
  <2>2. ASSUME NEW t \in Threads, calls[t].pc = "stage"
        PROVE WillShow(calls[t].slot, calls[t].guides.guides)'
    <3>1. calls[t].slot \in AllSlots /\ calls' = calls
      BY <2>2, <1>1 DEF Callers, Sound, Working
    <3>2. WillShow(calls[t].slot, calls[t].guides.guides)
      BY <2>2 DEF Recorded
    <3>3. PICK y \in AllSlots : y = calls[t].slot
      BY <3>1
    <3>5. PICK h : h = calls[t].guides.guides
      OBVIOUS
    <3>4. WillShow(y, h)'
      BY <3>2, <3>3, <3>5, <1>15
    <3> QED BY <3>1, <3>3, <3>4, <3>5 DEF WillShow, Copies, Shows
  <2> QED BY <2>1, <2>2, <1>1 DEF Recorded
<1>17. State' = State /\ State.slots = slots /\ State.capture = capture
  BY <1>1, StateFits DEF State
<1>18. Staged(State)'
  BY <1>1, <1>15, <1>17 DEF Snapshots, Staged
<1>19. Held(State)'
  <2>1. ASSUME NEW c, Holds(State, c) PROVE Holds(State, c)'
    <3>1. SUFFICES ASSUME c.owned
                   PROVE c.slot \in AllSlots /\ Complete(State, c.slot)' /\ Shows(texture[c.slot], c.guides)'
      BY DEF Holds
    <3>2. c.slot \in AllSlots /\ Complete(State, c.slot) /\ Shows(texture[c.slot], c.guides)
      BY <2>1, <3>1 DEF Holds
    <3>3. slots[c.slot].value \notin {0, InFlight} /\ reached[c.slot[1]] >= slots[c.slot].value
      BY <3>2, <1>17 DEF Complete
    <3>4. Copies(c.slot) = {}
      BY <3>2, <3>3, CompleteHasNoCopy
    <3>5. texture'[c.slot] = texture[c.slot]
      BY <3>2, <3>4, <1>6, <1>14
    <3>6. reached'[c.slot[1]] >= slots[c.slot].value
      <4>1. c.slot[1] \in Queues /\ slots[c.slot].value \in Nat
        <5>1. slots[c.slot] \in SlotStates
          BY <3>2 DEF TypeInv
        <5> QED BY <5>1, <3>2, <3>3 DEF SlotStates, AllSlots
      <4>2. reached'[c.slot[1]] \in Nat /\ reached[c.slot[1]] \in Nat /\ reached'[c.slot[1]] >= reached[c.slot[1]]
        BY <4>1, <1>7, <1>8
      <4> QED BY <4>1, <4>2, <3>3
    <3> QED BY <3>2, <3>3, <3>5, <3>6, <1>17, <1>1 DEF Complete, Shows
  <2> QED BY <2>1, <1>1, <1>17 DEF Snapshots, Held
<1>20. Numbered(State)'
  BY <1>1, <1>17 DEF Snapshots, Numbered
<1> QED BY <1>9, <1>10, <1>11, <1>13, <1>16, <1>18, <1>19, <1>20 DEF Snapshots

LEMMA NextKeeps ==
    ASSUME IInv, [Next]_vars
    PROVE IInv'
<1>1. ASSUME NEW t \in Threads,
             \/ Tag(t) \/ Capture(t) \/ Evaluate(t) \/ Bound(t)
             \/ Execute(t) \/ Lock(t) \/ Reserve(t) \/ Submit(t) \/ Stage(t) \/ Note(t)
      PROVE IInv'
  BY <1>1, TagKeeps, CaptureKeeps, EvaluateKeeps, BoundKeeps, ExecuteKeeps, LockKeeps, ReserveKeeps, SubmitKeeps,
     StageKeeps, NoteKeeps
<1>2. ASSUME Read \/ GiveUp \/ Consume \/ SetMode \/ Clear \/ Tick
      PROVE IInv'
  BY <1>2, ReadKeeps, GiveUpKeeps, ConsumeKeeps, SetModeKeeps, ClearKeeps, TickKeeps
<1>3. ASSUME NEW q \in Queues, Gpu(q) PROVE IInv'
  BY <1>3, GpuKeeps
<1>4. CASE UNCHANGED vars
  <2> USE DEF IInv
  <2>1. UNCHANGED <<mode, capture, pending, slots, next, submit, calls, present, work, reached, texture, game, gone>>
    BY <1>4 DEF vars
  <2>2. TypeInv' /\ Callers' /\ Queued'
    BY <2>1, QueuesSame DEF TypeInv, Callers, Sound
  <2>3. Registered' /\ Recorded'
    BY <2>1, WorkersSame
  <2>4. Snapshots(State)'
    BY <2>1, <2>2, SnapshotsSame
  <2> QED BY <2>2, <2>3, <2>4
<1> QED BY <1>1, <1>2, <1>3, <1>4 DEF Next

---------------------------------------------------------------------------
(* The theorems.                                                           *)

\* Whatever the threads, the queues, the tags and the faults are, the invariant holds:
\* a copy is known to its slot or to the thread that submits it, what a slot has staged
\* is what its textures will hold, and numbers tell captures apart.
THEOREM Invariance == Spec => []IInv
<1>1. Init => IInv
  BY InitFits
<1>2. IInv /\ [Next]_vars => IInv'
  BY NextKeeps
<1> QED BY <1>1, <1>2, PTL DEF Spec

LEMMA HeldIsShown ==
    ASSUME IInv
    PROVE SnapshotsHoldTheirFrame
<1> USE DEF IInv
<1>1. ASSUME NEW c \in {capture} \cup present.held, c.owned
      PROVE /\ Copies(c.slot) = {}
            /\ \A g \in {"depth", "motion"} : c.guides[g] \in {0, texture[c.slot][g]}
  <2>1. State.capture = capture /\ State.slots = slots
    BY StateFits
  <2>2. c.slot \in AllSlots /\ Complete(State, c.slot) /\ Shows(texture[c.slot], c.guides)
    BY <1>1, <2>1 DEF Snapshots, Held, Holds
  <2>3. Copies(c.slot) = {}
    BY <2>1, <2>2, CompleteHasNoCopy DEF Complete
  <2> QED BY <2>2, <2>3 DEF Shows
<1>2. ASSUME NEW x \in AllSlots, NEW i \in Copies(x), NEW j \in Copies(x) PROVE i = j
  <2>1. x[1] \in Queues
    BY DEF AllSlots
  <2> QED BY <2>1 DEF Copies, Queued, OneCopy
<1> QED BY <1>1, <1>2 DEF SnapshotsHoldTheirFrame

\* The capture a Present is given, and every one a reader still uses, shows the frame
\* that was copied; and a slot is not recorded on while its copy is queued
\* (game_temporal_guides.cpp:790-794, dxgi_hooks.cpp:112-114).
THEOREM ReadersKeepTheirFrame == Spec => []SnapshotsHoldTheirFrame
BY Invariance, HeldIsShown, PTL

\* What is gone is not forgotten.
LEMMA GoneGrows ==
    ASSUME IInv, Next
    PROVE gone \subseteq gone'
<1>1. State \in States /\ State.gone = gone /\ Snapshots(State)
  BY StateFits DEF IInv
<1>2. ASSUME NEW t \in Threads, Capture(t) PROVE gone \subseteq gone'
  <2>1. CASE gone' = gone
    BY <2>1
  <2>2. CASE gone' # gone
    <3>1. gone' = Published(State, calls[t].guides).gone /\ calls[t].pc = "tag"
      BY <1>2, <2>2 DEF Capture, Becomes
    <3>2. calls[t].guides \in Captures /\ ~calls[t].guides.owned
      BY DEF IInv, TypeInv, Calls, Callers, Sound, Raw
    <3>3. State.gone \subseteq Published(State, calls[t].guides).gone
      BY <1>1, <3>2, PublishedFits
    <3> QED BY <1>1, <3>1, <3>3
  <2> QED BY <2>1, <2>2
<1>3. ASSUME Read PROVE gone \subseteq gone'
  BY <1>1, <1>3, ReadGives DEF Follows, Becomes
<1>4. ASSUME Clear PROVE gone \subseteq gone'
  <2>1. Follows(Released(State), State) /\ Becomes(Released(State))
    BY <1>1, <1>4, ReleasedFits DEF Clear
  <2> QED BY <1>1, <2>1 DEF Follows, Becomes
<1>5. ASSUME Consume PROVE gone \subseteq gone'
  BY <1>5 DEF Consume
<1>6. ASSUME NEW t \in Threads,
             \/ Tag(t) \/ Evaluate(t) \/ Bound(t) \/ Execute(t) \/ Lock(t) \/ Reserve(t) \/ Submit(t) \/ Stage(t) \/ Note(t)
      PROVE gone \subseteq gone'
  BY <1>6 DEF Tag, Evaluate, Bound, Execute, Lock, Reserve, Submit, Stage, Note
<1>7. ASSUME GiveUp \/ SetMode \/ Tick \/ \E q \in Queues : Gpu(q)
      PROVE gone \subseteq gone'
  BY <1>7 DEF GiveUp, SetMode, Tick, Gpu
<1> QED BY <1>2, <1>3, <1>4, <1>5, <1>6, <1>7 DEF Next

\* A Present is given the capture that is current when its lookup ends.
LEMMA GivenIsCurrent ==
    ASSUME IInv, Next
    PROVE \A c \in present'.held : c \in present.held \/ (c = capture' /\ c.seq # 0)
<1>1. ASSUME Read PROVE \A c \in present'.held : c \in present.held \/ (c = capture' /\ c.seq # 0)
  BY <1>1, ReadGives DEF Becomes
<1>2. present \in [pc : {"idle", "clear", "read"}, held : SUBSET Captures]
  BY DEF IInv, TypeInv
<1>3. ASSUME GiveUp \/ SetMode \/ Clear PROVE present'.held \subseteq present.held
  BY <1>2, <1>3 DEF GiveUp, SetMode, Clear
<1>4. ASSUME Consume \/ Tick \/ \E q \in Queues : Gpu(q) PROVE present' = present
  BY <1>4 DEF Consume, Tick, Gpu
<1>5. ASSUME NEW t \in Threads,
             \/ Tag(t) \/ Capture(t) \/ Evaluate(t) \/ Bound(t)
             \/ Execute(t) \/ Lock(t) \/ Reserve(t) \/ Submit(t) \/ Stage(t) \/ Note(t)
      PROVE present' = present
  BY <1>5 DEF Tag, Capture, Evaluate, Bound, Execute, Lock, Reserve, Submit, Stage, Note
<1> QED BY <1>1, <1>3, <1>4, <1>5 DEF Next

LEMMA GoneIsNotGiven ==
    ASSUME IInv, IInv', [Next]_vars
    PROVE [/\ capture'.seq # 0 => capture'.seq \notin gone
           /\ \A c \in present'.held \ present.held : c.seq \notin gone]_vars
<1>1. CASE Next
  <2>1. gone \subseteq gone'
    BY <1>1, GoneGrows
  <2>2. capture'.seq # 0 => capture'.seq \notin gone'
    <3>1. State'.capture = capture' /\ State'.gone = gone'
      BY DEF State
    <3> QED BY <3>1 DEF IInv, Snapshots, Numbered
  <2>3. \A c \in present'.held \ present.held : c = capture' /\ c.seq # 0
    BY <1>1, GivenIsCurrent
  <2> QED BY <2>1, <2>2, <2>3
<1>2. CASE UNCHANGED vars
  BY <1>2
<1> QED BY <1>1, <1>2

\* A capture that was replaced, rejected, expired or released never comes back, neither
\* as the current one nor in a Present (game_temporal_guides.cpp:138-143, 192, 239, 757).
THEOREM GoneIsGone == Spec => GoneStaysGone
<1>1. IInv /\ IInv' /\ [Next]_vars => [/\ capture'.seq # 0 => capture'.seq \notin gone
                                      /\ \A c \in present'.held \ present.held : c.seq \notin gone]_vars
  BY GoneIsNotGiven
<1> QED BY <1>1, Invariance, PTL DEF Spec, GoneStaysGone

=============================================================================
