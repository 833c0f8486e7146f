---------------------------- MODULE NgxNR_proofs ----------------------------
(***************************************************************************)
(* Proofs about NgxNR, for any number of slots, plans and Presents.        *)
(***************************************************************************)
EXTENDS NgxNR, SequenceTheorems, WellFoundedInduction, TLAPS

Ops == {"guides", "signal", "showSlot", "showCache", "cacheSlot", "resetCache", "void",
        "wait", "initialise", "evaluate", "complete"}
Command == [op : Ops, slot : Slot \cup {0}, frame : Nat]
SlotType == [completion : Nat, submission : Nat, source : Nat, open : BOOLEAN, textures : SUBSET Textures, final : {"output", "scratch"}]
SeqType == [present : Nat, submission : Nat, consumed : Nat, producer : Nat, completion : Nat]
CacheType == [exists : BOOLEAN, valid : BOOLEAN, present : Nat]
ContentType == [guides : [Slot -> Nat], output : [Slot -> Nat], cache : Nat]
Limits == InitialFrameSlots..FrameSlots
Places == {"idle", "resources", "record", "feature", "refinement", "evaluate", "show", "reselect", "wait", "armed"}
CallType == [pc : Places, waits : BOOLEAN, caches : BOOLEAN, limit : Limits \cup {0}, slot : Slot \cup {0},
             passes : Nat, mask : BOOLEAN, recorded : {<<>>, TransitionInitial(TRUE), TransitionInitial(FALSE)},
             target : Nat, next : {"idle", "reselect", "refinement", "show"}]

Typed ==
    /\ plan \in Plans
    /\ slots \in [Slot -> SlotType] /\ active \in Slot /\ seq \in SeqType /\ cache \in CacheType
    /\ call \in CallType /\ (call.pc # "idle" => call.limit # 0)
    /\ d11 \in Seq(Command) /\ d12 \in Seq(Command)
    /\ fence \in [producer : Nat, completion : Nat] /\ content \in ContentType
    /\ \A i \in Slot : slots[i].submission <= seq.submission

\* The less-than relation of the naturals, as a set of pairs.
LessThan == {ss \in Nat \X Nat : ss[1] < ss[2]}

\* It is well founded.
LEMMA LessThanWellFounded == IsWellFoundedOn(LessThan, Nat)
<1>1. IsWellFoundedOn(OpToRel(<, Nat), Nat)
  BY NatLessThanWellFounded, Zenon
<1>2. LessThan = OpToRel(<, Nat)
  BY Zenon DEF LessThan, OpToRel
<1> QED BY <1>1, <1>2, Zenon

\* A nonempty set of naturals has a least element.
LEMMA LeastExists ==
  ASSUME NEW S \in SUBSET Nat, S # {}
  PROVE  \E m \in S : \A k \in S : m <= k
<1>1. PICK m \in S : \A k \in S : ~(<<k, m>> \in LessThan)
  BY LessThanWellFounded, WFMin, Zenon
<1>2. ASSUME NEW k \in S PROVE m <= k
  <2>1. m \in Nat /\ k \in Nat
    OBVIOUS
  <2>2. ~(<<k, m>> \in LessThan)
    BY <1>1
  <2>3. ~(k < m)
    BY <2>1, <2>2, SMT DEF LessThan
  <2> QED BY <2>1, <2>3
<1> QED BY <1>2

\* Min returns a member.
LEMMA MinIsMember ==
  ASSUME NEW S \in SUBSET Nat, S # {}
  PROVE  Min(S) \in S /\ \A k \in S : Min(S) <= k
<1>1. PICK m \in S : \A k \in S : m <= k
  BY LeastExists
<1> QED BY <1>1 DEF Min

\* The lesser and the greater of two numbers.
LEMMA OfTwo ==
  ASSUME NEW a \in Nat, NEW b \in Nat
  PROVE  Min({a, b}) \in {a, b} /\ Min({a, b}) <= a /\ Min({a, b}) <= b
         /\ Max({a, b}) \in {a, b} /\ Max({a, b}) >= a /\ Max({a, b}) >= b
<1>1. Min({a, b}) \in {a, b} /\ \A k \in {a, b} : Min({a, b}) <= k
  BY MinIsMember
<1>2. \E m \in {a, b} : \A k \in {a, b} : m >= k
  OBVIOUS
<1>3. Max({a, b}) \in {a, b} /\ \A k \in {a, b} : Max({a, b}) >= k
  BY <1>2 DEF Max
<1> QED BY <1>1, <1>3

-----------------------------------------------------------------------------
(* Sequences of commands: q is the context's, w the queue's, f a value of   *)
(* the producer fence; g is what the slots hold.                            *)

\* A command of one kind about slot i.
Is(o, c, i) == c.op = o /\ c.slot = i

\* Once a queue has executed q, whose commands o fill slots, slot i holds the frame n.
Holds(o, q, g, i, n) ==
    /\ \A p \in DOMAIN q : Is(o, q[p], i) /\ (\A r \in DOMAIN q : r > p => ~Is(o, q[r], i)) => q[p].frame = n
    /\ (\A p \in DOMAIN q : ~Is(o, q[p], i)) => g[i] = n

\* No command o about slot i is still to be executed when the queue reaches its k-th command:
\* before it there is a wait which no signal preceding such a command satisfies.
Awaited(o, q, w, f, i, k) ==
    \A p \in DOMAIN q : Is(o, q[p], i) =>
        \E j \in DOMAIN w : /\ j < k /\ w[j].op = "wait" /\ f < w[j].frame
                            /\ \A r \in 1..(p - 1) : q[r].op = "signal" => q[r].frame < w[j].frame

\* Completion values count up from what the fence has reached.
Ordered(w, f, last) ==
    \A k \in DOMAIN w : w[k].op = "complete" =>
        /\ f < w[k].frame /\ w[k].frame <= last
        /\ \A j \in 1..(k - 1) : w[j].op = "complete" => w[j].frame < w[k].frame

\* Behind each command about a slot comes a completion value the slot knows of.
Followed(w, s) ==
    \A k \in DOMAIN w : w[k].slot # 0 =>
        k + 1 \in DOMAIN w /\ w[k + 1].op = "complete" /\ w[k + 1].frame <= s[w[k].slot].completion

\* The commands of a tail.
LEMMA TailOf ==
  ASSUME NEW q \in Seq(Command), q # <<>>
  PROVE  /\ Head(q) = q[1] /\ q[1] \in Command /\ 1 \in DOMAIN q
         /\ Tail(q) \in Seq(Command) /\ Len(q) \in Nat \ {0}
         /\ DOMAIN q = 1..Len(q) /\ DOMAIN Tail(q) = 1..(Len(q) - 1)
         /\ \A p \in DOMAIN Tail(q) : p + 1 \in DOMAIN q /\ Tail(q)[p] = q[p + 1]
OBVIOUS

\* The commands of a longer sequence.
LEMMA JoinOf ==
  ASSUME NEW q \in Seq(Command), NEW x \in Seq(Command)
  PROVE  /\ q \o x \in Seq(Command) /\ Len(q) \in Nat /\ Len(x) \in Nat
         /\ DOMAIN q = 1..Len(q) /\ DOMAIN x = 1..Len(x) /\ DOMAIN (q \o x) = 1..(Len(q) + Len(x))
         /\ \A p \in DOMAIN q : p \in DOMAIN (q \o x) /\ (q \o x)[p] = q[p]
         /\ \A p \in DOMAIN (q \o x) : p \in DOMAIN q \/ (p - Len(q) \in DOMAIN x /\ (q \o x)[p] = x[p - Len(q)])
OBVIOUS

\* What slot i will hold does not change when the context executes a command.
LEMMA HoldsAfterTail ==
  ASSUME NEW o, NEW q \in Seq(Command), q # <<>>, NEW g \in [Slot -> Nat], NEW i \in Slot, NEW n, Holds(o, q, g, i, n)
  PROVE  Holds(o, Tail(q), IF Head(q).op = o THEN [g EXCEPT ![Head(q).slot] = Head(q).frame] ELSE g, i, n)
<1> DEFINE t == Tail(q)
           h == IF Head(q).op = o THEN [g EXCEPT ![Head(q).slot] = Head(q).frame] ELSE g
<1>1. ASSUME NEW p \in DOMAIN t, Is(o, t[p], i), \A r \in DOMAIN t : r > p => ~Is(o, t[r], i)
      PROVE  t[p].frame = n
  <2>1. p + 1 \in DOMAIN q /\ t[p] = q[p + 1] /\ p \in Nat
    BY TailOf
  <2>2. ASSUME NEW r \in DOMAIN q, r > p + 1 PROVE ~Is(o, q[r], i)
    <3>1. r - 1 \in DOMAIN t /\ r - 1 > p /\ t[r - 1] = q[r]
      BY <2>1, <2>2, TailOf
    <3> QED BY <3>1, <1>1
  <2> QED BY <2>1, <2>2, <1>1 DEF Holds
<1>2. ASSUME \A p \in DOMAIN t : ~Is(o, t[p], i) PROVE h[i] = n
  <2>1. \A p \in DOMAIN q : p > 1 => ~Is(o, q[p], i)
    <3> SUFFICES ASSUME NEW p \in DOMAIN q, p > 1 PROVE ~Is(o, q[p], i)
      OBVIOUS
    <3>1. p - 1 \in DOMAIN t /\ t[p - 1] = q[p]
      BY TailOf
    <3> QED BY <3>1, <1>2
  <2>2. 1 \in DOMAIN q /\ Head(q) = q[1]
    BY TailOf
  <2>3. CASE Is(o, q[1], i)
    <3>1. q[1].frame = n
      BY <2>1, <2>2, <2>3 DEF Holds
    <3> QED BY <3>1, <2>2, <2>3 DEF Is
  <2>4. CASE ~Is(o, q[1], i)
    <3>1. \A p \in DOMAIN q : ~Is(o, q[p], i)
      BY <2>1, <2>4, TailOf
    <3>2. g[i] = n
      BY <3>1 DEF Holds
    <3> QED BY <3>2, <2>2, <2>4 DEF Is
  <2> QED BY <2>3, <2>4
<1> HIDE DEF t, h
<1>3. Holds(o, t, h, i, n)
  BY <1>1, <1>2 DEF Holds
<1> QED BY <1>3 DEF t, h

\* Nor does what is awaited: a signal may raise the fence, and then it is no longer ahead.
LEMMA AwaitedAfterContext ==
  ASSUME NEW o, NEW q \in Seq(Command), q # <<>>, NEW w \in Seq(Command), NEW f \in Nat, NEW i, NEW k \in Nat,
         Awaited(o, q, w, f, i, k)
  PROVE  Awaited(o, Tail(q), w, IF Head(q).op = "signal" THEN Head(q).frame ELSE f, i, k)
<1> DEFINE t == Tail(q)
           h == IF Head(q).op = "signal" THEN Head(q).frame ELSE f
<1> SUFFICES ASSUME NEW p \in DOMAIN t, Is(o, t[p], i)
             PROVE  \E j \in DOMAIN w : /\ j < k /\ w[j].op = "wait" /\ h < w[j].frame
                                        /\ \A r \in 1..(p - 1) : t[r].op = "signal" => t[r].frame < w[j].frame
  BY DEF Awaited
<1>1. p + 1 \in DOMAIN q /\ t[p] = q[p + 1] /\ p \in Nat \ {0}
  BY TailOf
<1>2. PICK j \in DOMAIN w : /\ j < k /\ w[j].op = "wait" /\ f < w[j].frame
                            /\ \A r \in 1..p : q[r].op = "signal" => q[r].frame < w[j].frame
  BY <1>1 DEF Awaited
<1>3. h < w[j].frame
  BY <1>1, <1>2, TailOf
<1>4. ASSUME NEW r \in 1..(p - 1), t[r].op = "signal" PROVE t[r].frame < w[j].frame
  <2>1. r \in DOMAIN t /\ r + 1 \in 1..p
    BY <1>1, TailOf
  <2>2. t[r] = q[r + 1]
    BY <2>1, TailOf
  <2> QED BY <2>1, <2>2, <1>2, <1>4
<1> QED BY <1>2, <1>3, <1>4

\* The queue passes a wait only when nothing is awaited by it any more.
LEMMA AwaitedAfterQueue ==
  ASSUME NEW o, NEW q \in Seq(Command), NEW w \in Seq(Command), w # <<>>, NEW f \in Nat, NEW i, NEW k \in Nat,
         Head(w).op = "wait" => f >= Head(w).frame, Awaited(o, q, w, f, i, k + 1)
  PROVE  Awaited(o, q, Tail(w), f, i, k)
<1> DEFINE t == Tail(w)
<1> SUFFICES ASSUME NEW p \in DOMAIN q, Is(o, q[p], i)
             PROVE  \E j \in DOMAIN t : /\ j < k /\ t[j].op = "wait" /\ f < t[j].frame
                                        /\ \A r \in 1..(p - 1) : q[r].op = "signal" => q[r].frame < t[j].frame
  BY DEF Awaited
<1>1. PICK j \in DOMAIN w : /\ j < k + 1 /\ w[j].op = "wait" /\ f < w[j].frame
                            /\ \A r \in 1..(p - 1) : q[r].op = "signal" => q[r].frame < w[j].frame
  BY DEF Awaited
<1>2. j # 1
  <2>1. Head(w) = w[1] /\ w[1].frame \in Nat
    BY TailOf DEF Command
  <2> QED BY <2>1, <1>1
<1>3. j - 1 \in DOMAIN t /\ j - 1 < k /\ t[j - 1] = w[j]
  BY <1>1, <1>2, TailOf
<1> QED BY <1>1, <1>3

\* Commands without guides of slot i change neither, wherever they are appended.
LEMMA HoldsAfterJoin ==
  ASSUME NEW o, NEW q \in Seq(Command), NEW x \in Seq(Command), NEW g, NEW i, NEW n, Holds(o, q, g, i, n),
         \A p \in DOMAIN x : ~Is(o, x[p], i)
  PROVE  Holds(o, q \o x, g, i, n)
<1> DEFINE y == q \o x
<1>1. ASSUME NEW p \in DOMAIN y, Is(o, y[p], i) PROVE p \in DOMAIN q /\ y[p] = q[p]
  BY <1>1, JoinOf
<1>2. \A p \in DOMAIN q : p \in DOMAIN y /\ y[p] = q[p]
  BY JoinOf
<1> HIDE DEF y
<1>3. Holds(o, y, g, i, n)
  BY <1>1, <1>2 DEF Holds
<1> QED BY <1>3 DEF y

LEMMA AwaitedAfterJoin ==
  ASSUME NEW o, NEW q \in Seq(Command), NEW x \in Seq(Command), NEW w \in Seq(Command), NEW v \in Seq(Command),
         NEW f \in Nat, NEW i, NEW k \in Nat, Awaited(o, q, w, f, i, k), \A p \in DOMAIN x : ~Is(o, x[p], i)
  PROVE  Awaited(o, q \o x, w \o v, f, i, k)
<1> DEFINE y == q \o x
           z == w \o v
<1> SUFFICES ASSUME NEW p \in DOMAIN y, Is(o, y[p], i)
             PROVE  \E j \in DOMAIN z : /\ j < k /\ z[j].op = "wait" /\ f < z[j].frame
                                        /\ \A r \in 1..(p - 1) : y[r].op = "signal" => y[r].frame < z[j].frame
  BY DEF Awaited
<1>1. p \in DOMAIN q /\ y[p] = q[p] /\ \A r \in 1..(p - 1) : r \in DOMAIN q /\ y[r] = q[r]
  <2>1. p \in DOMAIN q /\ y[p] = q[p]
    BY JoinOf
  <2>2. \A r \in 1..(p - 1) : r \in DOMAIN q
    BY <2>1, JoinOf
  <2> QED BY <2>1, <2>2, JoinOf
<1>2. PICK j \in DOMAIN w : /\ j < k /\ w[j].op = "wait" /\ f < w[j].frame
                            /\ \A r \in 1..(p - 1) : q[r].op = "signal" => q[r].frame < w[j].frame
  BY <1>1 DEF Awaited
<1>3. j \in DOMAIN z /\ z[j] = w[j]
  BY JoinOf
<1> QED BY <1>1, <1>2, <1>3

\* At the head of the queue nothing is awaited any more, and the slot holds what it should.
LEMMA HeldAtHead ==
  ASSUME NEW o, NEW q \in Seq(Command), NEW w \in Seq(Command), NEW f, NEW g, NEW i, NEW n,
         Holds(o, q, g, i, n), Awaited(o, q, w, f, i, 1)
  PROVE  g[i] = n
<1>1. \A p \in DOMAIN q : ~Is(o, q[p], i)
  <2> SUFFICES ASSUME NEW p \in DOMAIN q, Is(o, q[p], i) PROVE FALSE
    OBVIOUS
  <2>1. PICK j \in DOMAIN w : j < 1
    BY DEF Awaited
  <2> QED BY <2>1
<1> QED BY <1>1 DEF Holds

\* Appending is joining one command.
LEMMA AppendOf ==
  ASSUME NEW q \in Seq(Command), NEW c \in Command
  PROVE  Append(q, c) = q \o <<c>> /\ <<c>> \in Seq(Command) /\ DOMAIN <<c>> = 1..1 /\ <<c>>[1] = c
OBVIOUS

\* The commands evaluate gives to the queues are commands.
LEMMA CommandsFit ==
  ASSUME NEW i \in Slot \cup {0}, NEW n \in Nat
  PROVE  /\ GuideCopy(i, n) \in Command /\ Produced(n) \in Command /\ ShowSlot(i, n) \in Command
         /\ ShowCache(n) \in Command /\ CacheSlot(i, n) \in Command /\ ResetCache \in Command /\ Void \in Command
         /\ AwaitProducer(n) \in Command /\ Initialise(i) \in Command /\ Evaluation(i, n) \in Command /\ Completed(n) \in Command
BY DEF GuideCopy, Produced, ShowSlot, ShowCache, CacheSlot, ResetCache, Void, AwaitProducer, Initialise, Evaluation,
       Completed, Command, Ops

\* The slot will hold the guides copied last.
LEMMA CopiedHolds ==
  ASSUME NEW q \in Seq(Command), NEW g, NEW i \in Slot, NEW n \in Nat
  PROVE  Holds("guides", Append(q, GuideCopy(i, n)), g, i, n)
<1> DEFINE y == Append(q, GuideCopy(i, n))
<1>1. /\ Len(q) + 1 \in DOMAIN y /\ y[Len(q) + 1] = GuideCopy(i, n) /\ Len(q) \in Nat
      /\ \A p \in DOMAIN y : p \in Nat /\ p <= Len(q) + 1
  BY CommandsFit
<1>2. Is("guides", GuideCopy(i, n), i) /\ GuideCopy(i, n).frame = n
  BY DEF Is, GuideCopy
<1> HIDE DEF y
<1>3. ASSUME NEW p \in DOMAIN y, \A r \in DOMAIN y : r > p => ~Is("guides", y[r], i) PROVE y[p].frame = n
  <2>1. p = Len(q) + 1
    BY <1>1, <1>2, <1>3
  <2> QED BY <2>1, <1>1, <1>2
<1>4. Holds("guides", y, g, i, n)
  BY <1>1, <1>2, <1>3 DEF Holds
<1> QED BY <1>4 DEF y

\* A new value, signalled behind the copies and waited for, is ahead of every other signal.
LEMMA HandedOver ==
  ASSUME NEW o, NEW q \in Seq(Command), NEW w \in Seq(Command), NEW i \in Slot, NEW n \in Nat, NEW v \in Nat, NEW f \in Nat,
         f < v, \A p \in DOMAIN q : q[p].op = "signal" => q[p].frame < v
  PROVE  Awaited(o, Append(Append(q, GuideCopy(i, n)), Produced(v)), Append(w, AwaitProducer(v)), f, i, Len(w) + 2)
<1> DEFINE y == Append(Append(q, GuideCopy(i, n)), Produced(v))
           z == Append(w, AwaitProducer(v))
<1>1. /\ Len(w) + 1 \in DOMAIN z /\ z[Len(w) + 1] = AwaitProducer(v) /\ Len(w) \in Nat /\ Len(q) \in Nat
      /\ DOMAIN y = 1..(Len(q) + 2) /\ DOMAIN q = 1..Len(q)
      /\ y[Len(q) + 1] = GuideCopy(i, n) /\ y[Len(q) + 2] = Produced(v)
      /\ \A p \in 1..Len(q) : y[p] = q[p]
  BY CommandsFit
<1>2. AwaitProducer(v).op = "wait" /\ AwaitProducer(v).frame = v /\ GuideCopy(i, n).op # "signal"
      /\ Produced(v).slot # i
  BY NgxAssumption DEF Slot, AwaitProducer, GuideCopy, Produced
<1> HIDE DEF y, z
<1>3. ASSUME NEW p \in DOMAIN y, Is(o, y[p], i), NEW r \in 1..(p - 1), y[r].op = "signal" PROVE y[r].frame < v
  <2>1. p <= Len(q) + 1 /\ p \in Nat
    BY <1>1, <1>2, <1>3 DEF Is
  <2>2. r \in 1..Len(q)
    BY <2>1, <1>1
  <2> QED BY <2>2, <1>1, <1>3
<1>4. Awaited(o, y, z, f, i, Len(w) + 2)
  BY <1>1, <1>2, <1>3, Len(w) + 1 < Len(w) + 2 DEF Awaited
<1> QED BY <1>4 DEF y, z

\* Executing a command keeps the order of completions; one that is reached raises the fence.
LEMMA OrderedAfterTail ==
  ASSUME NEW w \in Seq(Command), w # <<>>, NEW f \in Nat, NEW last \in Nat, Ordered(w, f, last)
  PROVE  Ordered(Tail(w), IF Head(w).op = "complete" THEN Head(w).frame ELSE f, last)
<1> DEFINE t == Tail(w)
           h == IF Head(w).op = "complete" THEN Head(w).frame ELSE f
<1> SUFFICES ASSUME NEW k \in DOMAIN t, t[k].op = "complete"
             PROVE  /\ h < t[k].frame /\ t[k].frame <= last
                    /\ \A j \in 1..(k - 1) : t[j].op = "complete" => t[j].frame < t[k].frame
  BY DEF Ordered
<1>1. k + 1 \in DOMAIN w /\ t[k] = w[k + 1] /\ k \in Nat \ {0} /\ Head(w) = w[1]
  BY TailOf
<1>2. /\ f < w[k + 1].frame /\ w[k + 1].frame <= last
      /\ \A j \in 1..k : w[j].op = "complete" => w[j].frame < w[k + 1].frame
  BY <1>1 DEF Ordered
<1>3. h < t[k].frame
  BY <1>1, <1>2
<1>4. ASSUME NEW j \in 1..(k - 1), t[j].op = "complete" PROVE t[j].frame < t[k].frame
  <2>1. j \in DOMAIN t /\ j + 1 \in 1..k
    BY <1>1, TailOf
  <2>2. t[j] = w[j + 1]
    BY <2>1, TailOf
  <2> QED BY <2>1, <2>2, <1>1, <1>2, <1>4
<1> QED BY <1>1, <1>2, <1>3, <1>4

LEMMA FollowedAfterTail ==
  ASSUME NEW w \in Seq(Command), w # <<>>, NEW s, Followed(w, s)
  PROVE  Followed(Tail(w), s)
<1> DEFINE t == Tail(w)
<1> SUFFICES ASSUME NEW k \in DOMAIN t, t[k].slot # 0
             PROVE  k + 1 \in DOMAIN t /\ t[k + 1].op = "complete" /\ t[k + 1].frame <= s[t[k].slot].completion
  BY DEF Followed
<1>1. k + 1 \in DOMAIN w /\ t[k] = w[k + 1] /\ k \in Nat \ {0}
  BY TailOf
<1>2. k + 2 \in DOMAIN w /\ w[k + 2].op = "complete" /\ w[k + 2].frame <= s[t[k].slot].completion
  BY <1>1 DEF Followed
<1>3. k + 1 \in DOMAIN t /\ t[k + 1] = w[k + 2]
  BY <1>1, <1>2, TailOf
<1> QED BY <1>2, <1>3

\* Nothing about a slot is queued once the fence has reached the slot's completion value.
LEMMA NothingLeft ==
  ASSUME NEW w \in Seq(Command), NEW f \in Nat, NEW last \in Nat, Ordered(w, f, last),
         NEW s \in [Slot -> SlotType], Followed(w, s), NEW i \in Slot, s[i].completion <= f
  PROVE  \A k \in DOMAIN w : w[k].slot # i
<1> SUFFICES ASSUME NEW k \in DOMAIN w, w[k].slot = i PROVE FALSE
  OBVIOUS
<1>1. i # 0
  BY NgxAssumption DEF Slot
<1>2. k + 1 \in DOMAIN w /\ w[k + 1].op = "complete" /\ w[k + 1].frame <= s[i].completion
  BY <1>1 DEF Followed
<1>3. f < w[k + 1].frame
  BY <1>2 DEF Ordered
<1>4. w[k + 1] \in Command /\ s[i] \in SlotType
  BY <1>2
<1>5. w[k + 1].frame \in Nat /\ s[i].completion \in Nat
  BY <1>4 DEF Command, SlotType
<1> QED BY <1>2, <1>3, <1>5

-----------------------------------------------------------------------------
(* The invariant.                                                           *)

\* A call has a slot from its recording until it has shown the slot.
HasSlot ==
    \/ call.pc \in {"resources", "record", "feature", "refinement", "evaluate", "show"}
    \/ call.pc \in {"wait", "armed"} /\ call.next # "reselect"

\* Fence values are handed out once, and reached later.
Bounds ==
    /\ fence.completion <= seq.completion /\ fence.producer <= seq.producer
    /\ \A i \in Slot : slots[i].completion <= seq.completion
    /\ \A p \in DOMAIN d11 : d11[p].op = "signal" => d11[p].frame <= seq.producer
    /\ \A p \in DOMAIN d11 : d11[p].op = "cacheSlot" => d11[p].slot # 0
    /\ \A k \in DOMAIN d12 : d12[k].op = "evaluate" => d12[k].slot # 0

\* The slot of a call: its list is open, or what it submitted is waited for.
CallFits ==
    /\ call.pc \in {"resources", "record", "show"} => slots[call.slot].completion <= fence.completion
    /\ call.pc = "feature" => slots[call.slot].open
    /\ call.pc = "refinement" => slots[call.slot].open \/ slots[call.slot].completion <= fence.completion
    /\ call.pc \in {"wait", "armed"} /\ call.next # "reselect" => call.target = slots[call.slot].completion

\* Each evaluation in the queue will find the guides of its frame, ...
QueueGuided ==
    \A k \in DOMAIN d12 : d12[k].op = "evaluate" =>
        /\ Holds("guides", d11, content.guides, d12[k].slot, d12[k].frame)
        /\ Awaited("guides", d11, d12, fence.producer, d12[k].slot, k)

\* ... and so will the one a call is about to append.
Preparing ==
    \/ call.pc \in {"feature", "refinement", "evaluate"}
    \/ call.pc \in {"wait", "armed"} /\ call.next = "refinement"
CallGuided ==
    Preparing => /\ Holds("guides", d11, content.guides, call.slot, seq.present)
                 /\ Awaited("guides", d11, d12, fence.producer, call.slot, Len(d12) + 1)

IInv ==
    /\ Typed /\ Bounds
    /\ HasSlot => call.slot # 0
    /\ call.pc \in {"wait", "armed"} => call.next # "idle"
    /\ Ordered(d12, fence.completion, seq.completion)
    /\ lapses = {} => Followed(d12, slots) /\ CallFits /\ QueueGuided /\ CallGuided

-----------------------------------------------------------------------------
(* The steps.                                                               *)

\* An idle call fits.
LEMMA NoCallFits == NoCall \in CallType /\ NoCall.pc = "idle"
BY DEF NoCall, CallType, Places, Slot, Limits

\* The constants' ranges.
LEMMA Ranges == Limits \subseteq Nat \ {0} /\ Slot \subseteq Nat \ {0} /\ InitialFrameSlots \in Slot /\ Limits \subseteq Slot
BY NgxAssumption DEF Limits, Slot

\* A new backend satisfies the invariant.
LEMMA Initially == Init => IInv
<1> SUFFICES ASSUME Init PROVE IInv
  OBVIOUS
<1> USE DEF Init
<1>1. FreshSlot \in SlotType /\ FreshSeq \in SeqType /\ NoCache \in CacheType /\ 0 \in Nat
  BY DEF FreshSlot, SlotType, FreshSeq, SeqType, NoCache, CacheType
<1>2. Typed
  BY <1>1, Ranges, NoCallFits DEF Typed, ContentType, FreshSlot, FreshSeq
<1>3. Bounds
  BY DEF Bounds, FreshSlot, FreshSeq
<1>4. ~HasSlot /\ ~Preparing
  BY DEF HasSlot, Preparing, NoCall
<1>5. Ordered(d12, fence.completion, seq.completion) /\ Followed(d12, slots) /\ QueueGuided
  BY DEF Ordered, Followed, QueueGuided
<1>6. CallFits /\ CallGuided
  BY <1>4, NoCallFits DEF CallFits, CallGuided
<1> QED BY <1>2, <1>3, <1>4, <1>5, <1>6, NoCallFits DEF IInv

\* What is said of slots depends on their completion values only.
LEMMA FollowedSame ==
  ASSUME NEW w \in Seq(Command), NEW s, NEW t, Followed(w, s), \A i \in Slot : t[i].completion = s[i].completion
  PROVE  Followed(w, t)
<1> SUFFICES ASSUME NEW k \in DOMAIN w, w[k].slot # 0
             PROVE  k + 1 \in DOMAIN w /\ w[k + 1].op = "complete" /\ w[k + 1].frame <= t[w[k].slot].completion
  BY DEF Followed
<1>1. w[k].slot \in Slot
  <2>1. w[k] \in Command
    OBVIOUS
  <2> QED BY <2>1 DEF Command
<1> QED BY <1>1 DEF Followed

\* Commands that copy no guides and signal nothing.
IsQuiet(c) == c.op \notin {"guides", "signal"} /\ (c.op = "cacheSlot" => c.slot # 0)
Quiet(x) == \A p \in DOMAIN x : IsQuiet(x[p])

\* None, one, and more of them.
LEMMA QuietNone == <<>> \in Seq(Command) /\ Quiet(<<>>)
BY DEF Quiet
LEMMA QuietOne ==
  ASSUME NEW c \in Command, IsQuiet(c)
  PROVE  <<c>> \in Seq(Command) /\ Quiet(<<c>>)
BY DEF Quiet
LEMMA QuietJoin ==
  ASSUME NEW x \in Seq(Command), Quiet(x), NEW y \in Seq(Command), Quiet(y)
  PROVE  x \o y \in Seq(Command) /\ Quiet(x \o y)
<1>1. x \o y \in Seq(Command)
  BY JoinOf
<1>2. ASSUME NEW p \in DOMAIN (x \o y) PROVE IsQuiet((x \o y)[p])
  <2>1. CASE p \in DOMAIN x
    BY <2>1, JoinOf DEF Quiet
  <2>2. CASE p \notin DOMAIN x
    BY <2>2, JoinOf DEF Quiet
  <2> QED BY <2>1, <2>2
<1> QED BY <1>1, <1>2 DEF Quiet

\* A step that gives the queue nothing, and the context nothing but images to copy.
LEMMA QuietKeeps ==
  ASSUME IInv, NEW x \in Seq(Command), Quiet(x), d11' = d11 \o x,
         plan' = plan, d12' = d12, fence' = fence, content' = content,
         seq' \in SeqType, seq'.completion = seq.completion, seq'.producer = seq.producer,
         slots' \in [Slot -> SlotType],
         \A i \in Slot : slots'[i].submission <= seq'.submission /\ slots'[i].completion <= seq.completion,
         active' \in Slot, cache' \in CacheType, call' \in CallType, call'.pc # "idle" => call'.limit # 0,
         HasSlot' => call'.slot # 0, call'.pc \in {"wait", "armed"} => call'.next # "idle",
         lapses' = {} => lapses = {} /\ Followed(d12, slots') /\ CallFits' /\ CallGuided'
  PROVE  IInv'
<1>1. d11 \in Seq(Command) /\ d12 \in Seq(Command) /\ d11' \in Seq(Command) /\ fence \in [producer : Nat, completion : Nat]
  BY JoinOf DEF IInv, Typed
<1>2. Typed'
  BY <1>1 DEF IInv, Typed
<1>3. Bounds'
  <2>1. ASSUME NEW p \in DOMAIN d11', d11'[p].op = "signal" PROVE d11'[p].frame <= seq.producer
    <3>1. p \in DOMAIN d11 /\ d11'[p] = d11[p]
      BY <1>1, <2>1, JoinOf DEF Quiet, IsQuiet
    <3> QED BY <3>1, <2>1 DEF IInv, Bounds
  <2>2. ASSUME NEW p \in DOMAIN d11', d11'[p].op = "cacheSlot" PROVE d11'[p].slot # 0
    <3>1. CASE p \in DOMAIN d11
      BY <1>1, <2>2, <3>1, JoinOf DEF IInv, Bounds
    <3>2. CASE p \notin DOMAIN d11
      BY <1>1, <2>2, <3>2, JoinOf DEF Quiet, IsQuiet
    <3> QED BY <3>1, <3>2
  <2> QED BY <2>1, <2>2 DEF IInv, Bounds
<1>4. Ordered(d12, fence.completion, seq.completion)'
  BY DEF IInv
<1>5. ASSUME lapses' = {} PROVE QueueGuided'
  <2>1. QueueGuided
    BY <1>5 DEF IInv
  <2>2. ASSUME NEW k \in DOMAIN d12, d12[k].op = "evaluate"
        PROVE  /\ Holds("guides", d11', content.guides, d12[k].slot, d12[k].frame)
               /\ Awaited("guides", d11', d12, fence.producer, d12[k].slot, k)
    <3>1. \A p \in DOMAIN x : ~Is("guides", x[p], d12[k].slot)
      BY DEF Is, Quiet, IsQuiet
    <3>2. Holds("guides", d11', content.guides, d12[k].slot, d12[k].frame)
      BY <1>1, <2>1, <2>2, <3>1, HoldsAfterJoin DEF QueueGuided
    <3>3. k \in Nat /\ fence.producer \in Nat /\ d12 = d12 \o <<>> /\ <<>> \in Seq(Command)
      BY <1>1
    <3>4. Awaited("guides", d11, d12, fence.producer, d12[k].slot, k)
      BY <2>1, <2>2 DEF QueueGuided
    <3>5. Awaited("guides", d11 \o x, d12 \o <<>>, fence.producer, d12[k].slot, k)
      BY <1>1, <3>1, <3>3, <3>4, AwaitedAfterJoin, Zenon
    <3>6. Awaited("guides", d11', d12, fence.producer, d12[k].slot, k)
      BY <3>3, <3>5
    <3> QED BY <3>2, <3>6
  <2> QED BY <2>2 DEF QueueGuided
<1> QED BY <1>2, <1>3, <1>4, <1>5 DEF IInv

\* A step of the call that touches no queue, and of the slots at most their lists and textures.
LEMMA CallKeeps ==
  ASSUME IInv, UNCHANGED <<plan, active, seq, cache, d11, d12, fence, content>>,
         slots' \in [Slot -> SlotType],
         \A i \in Slot : slots'[i].submission = slots[i].submission /\ slots'[i].completion = slots[i].completion,
         call' \in CallType, call'.pc # "idle" => call'.limit # 0,
         HasSlot' => call'.slot # 0, call'.pc \in {"wait", "armed"} => call'.next # "idle",
         lapses' = {} => lapses = {} /\ CallFits' /\ CallGuided'
  PROVE  IInv'
<1>1. <<>> \in Seq(Command) /\ d11' = d11 \o <<>> /\ d12 \in Seq(Command)
  BY DEF IInv, Typed
<1>2. Quiet(<<>>)
  BY QuietNone
<1>3. /\ seq \in SeqType /\ active \in Slot /\ cache \in CacheType
      /\ \A i \in Slot : slots'[i].submission <= seq.submission /\ slots'[i].completion <= seq.completion
  BY DEF IInv, Typed, Bounds
<1>4. lapses' = {} => Followed(d12, slots')
  BY <1>1, FollowedSame DEF IInv
<1> QED BY <1>1, <1>2, <1>3, <1>4, QuietKeeps

\* The slots as they were.
LEMMA SlotsKept ==
  ASSUME IInv, slots' = slots
  PROVE  /\ slots' \in [Slot -> SlotType]
         /\ \A i \in Slot : slots'[i].submission = slots[i].submission /\ slots'[i].completion = slots[i].completion
BY DEF IInv, Typed

\* The value waited for has been reached.
LEMMA AlreadyCompleteKeeps == IInv /\ AlreadyComplete => IInv'
<1> SUFFICES ASSUME IInv, AlreadyComplete PROVE IInv'
  OBVIOUS
<1>1. call \in CallType /\ call.limit # 0 /\ call.next \in {"reselect", "refinement", "show"} /\ call.pc = "wait"
  BY DEF IInv, Typed, AlreadyComplete, CallType
<1>2. call' \in CallType /\ call'.limit # 0 /\ call'.slot = call.slot /\ call'.pc = call.next
  BY <1>1 DEF AlreadyComplete, CallType, Places
<1>3. HasSlot' => call'.slot # 0
  BY <1>1, <1>2 DEF HasSlot, IInv
<1>4. ASSUME lapses' = {} PROVE lapses = {} /\ CallFits' /\ CallGuided'
  <2>1. lapses = {} /\ CallFits /\ CallGuided
    BY <1>4 DEF AlreadyComplete, IInv
  <2>2. CallFits'
    BY <1>1, <1>2, <2>1 DEF CallFits, AlreadyComplete, gpu
  <2>3. CallGuided'
    BY <1>1, <1>2, <2>1 DEF CallGuided, Preparing, AlreadyComplete, gpu
  <2> QED BY <2>1, <2>2, <2>3
<1>5. UNCHANGED <<plan, active, seq, cache, d11, d12, fence, content, slots>>
  BY DEF AlreadyComplete, gpu
<1> QED BY <1>1, <1>2, <1>3, <1>4, <1>5, SlotsKept, CallKeeps

\* The event is registered.
LEMMA ArmEventKeeps == IInv /\ ArmEvent => IInv'
<1> SUFFICES ASSUME IInv, ArmEvent PROVE IInv'
  OBVIOUS
<1>1. call \in CallType /\ call.limit # 0 /\ call.next # "idle" /\ call.pc = "wait"
  BY DEF IInv, Typed, ArmEvent
<1>2. /\ call' \in CallType /\ call'.limit # 0 /\ call'.slot = call.slot /\ call'.pc = "armed" /\ call'.next = call.next
      /\ call'.target = call.target
  BY <1>1 DEF ArmEvent, CallType, Places
<1>3. HasSlot' => call'.slot # 0
  BY <1>1, <1>2 DEF HasSlot, IInv
<1>4. ASSUME lapses' = {} PROVE lapses = {} /\ CallFits' /\ CallGuided'
  <2>1. lapses = {} /\ CallFits /\ CallGuided
    BY <1>4 DEF ArmEvent, IInv
  <2>2. CallFits'
    BY <1>1, <1>2, <2>1 DEF CallFits, ArmEvent
  <2>3. CallGuided'
    BY <1>1, <1>2, <2>1 DEF CallGuided, Preparing, ArmEvent, gpu
  <2> QED BY <2>1, <2>2, <2>3
<1>5. UNCHANGED <<plan, active, seq, cache, d11, d12, fence, content, slots>>
  BY DEF ArmEvent, gpu
<1> QED BY <1>1, <1>2, <1>3, <1>4, <1>5, SlotsKept, CallKeeps

\* Without a lapse, the event was set for the value waited for.
LEMMA WokenKeeps == IInv /\ Woken => IInv'
<1> SUFFICES ASSUME IInv, Woken PROVE IInv'
  OBVIOUS
<1>1. call \in CallType /\ call.limit # 0 /\ call.next \in {"reselect", "refinement", "show"} /\ call.pc = "armed"
  BY DEF IInv, Typed, Woken, CallType
<1>2. call' \in CallType /\ call'.limit # 0 /\ call'.slot = call.slot /\ call'.pc = call.next
  BY <1>1 DEF Woken, CallType, Places
<1>3. HasSlot' => call'.slot # 0
  BY <1>1, <1>2 DEF HasSlot, IInv
<1>4. ASSUME lapses' = {} PROVE lapses = {} /\ CallFits' /\ CallGuided'
  <2>1. lapses = {} /\ ~(fence.completion < call.target)
    BY <1>4 DEF Woken
  <2>2. CallFits /\ CallGuided /\ fence.completion \in Nat /\ call.target \in Nat
    BY <2>1, <1>1 DEF IInv, Typed, CallType
  <2>3. CallFits'
    BY <1>1, <1>2, <2>1, <2>2 DEF CallFits, Woken, gpu
  <2>4. CallGuided'
    BY <1>1, <1>2, <2>2 DEF CallGuided, Preparing, Woken, gpu
  <2> QED BY <2>1, <2>3, <2>4
<1>5. UNCHANGED <<plan, active, seq, cache, d11, d12, fence, content, slots>>
  BY DEF Woken, gpu
<1> QED BY <1>1, <1>2, <1>3, <1>4, <1>5, SlotsKept, CallKeeps

\* A call that has ended has no slot.
LEMMA IdleFits ==
  ASSUME call' = NoCall
  PROVE  /\ call' \in CallType /\ call'.pc = "idle" /\ ~HasSlot' /\ ~Preparing' /\ CallFits' /\ CallGuided'
BY NoCallFits DEF HasSlot, Preparing, CallFits, CallGuided

\* A wait expires.
LEMMA TimedOutKeeps == IInv /\ TimedOut => IInv'
<1> SUFFICES ASSUME IInv, TimedOut PROVE IInv'
  OBVIOUS
<1>1. call' = NoCall /\ UNCHANGED <<plan, active, seq, cache, d11, d12, fence, content, slots>>
  BY DEF TimedOut, gpu
<1>2. lapses' = {} => lapses = {}
  BY DEF TimedOut, Abandoned
<1> QED BY <1>1, <1>2, IdleFits, SlotsKept, CallKeeps

\* initialize touches none of this.
LEMMA InitializeKeeps == IInv /\ Initialize => IInv'
<1> SUFFICES ASSUME IInv, Initialize PROVE IInv'
  OBVIOUS
<1>1. UNCHANGED <<plan, slots, active, seq, cache, call, d11, d12, fence, content, lapses>>
  BY DEF Initialize, gpu
<1>2. call'.pc = "idle" /\ call \in CallType
  BY DEF Initialize, IInv, Typed
<1>3. ~HasSlot' /\ ~Preparing'
  BY <1>2 DEF HasSlot, Preparing
<1>4. CallFits' /\ CallGuided'
  BY <1>2, <1>3 DEF CallFits, CallGuided
<1> QED BY <1>1, <1>2, <1>3, <1>4, SlotsKept, CallKeeps

\* What a call with a slot knows of it.
LEMMA CallSlot ==
  ASSUME IInv, HasSlot
  PROVE  call.slot \in Slot /\ call.limit # 0 /\ call \in CallType /\ slots \in [Slot -> SlotType] /\ slots[call.slot] \in SlotType
<1>1. call \in CallType /\ call.slot # 0 /\ slots \in [Slot -> SlotType] /\ call.limit # 0
  BY DEF IInv, Typed, HasSlot
<1>2. call.slot \in Slot
  BY <1>1 DEF CallType
<1> QED BY <1>1, <1>2

\* The result is shown, and cached if there is a cache.
LEMMA ShowKeeps == IInv /\ Show => IInv'
<1> SUFFICES ASSUME IInv, Show PROVE IInv'
  OBVIOUS
<1> DEFINE i == call.slot
           caches == call.caches /\ cache.exists
           x == <<ShowSlot(i, seq.present)>> \o (IF caches THEN <<CacheSlot(i, slots[i].source)>> ELSE <<>>)
<1>1. i \in Slot /\ slots[i] \in SlotType /\ seq \in SeqType /\ cache \in CacheType /\ call \in CallType
  BY CallSlot DEF Show, HasSlot, IInv, Typed
<1>2. slots[i].source \in Nat /\ slots[i].submission \in Nat /\ seq.present \in Nat /\ caches \in BOOLEAN
  BY <1>1 DEF SlotType, SeqType, CacheType, CallType
<1>3. ShowSlot(i, seq.present) \in Command /\ CacheSlot(i, slots[i].source) \in Command
  BY <1>1, <1>2, CommandsFit
<1>4. IsQuiet(ShowSlot(i, seq.present)) /\ IsQuiet(CacheSlot(i, slots[i].source))
  BY <1>1, Ranges DEF ShowSlot, CacheSlot, IsQuiet
<1>5. x \in Seq(Command) /\ Quiet(x)
  <2> DEFINE y == IF caches THEN <<CacheSlot(i, slots[i].source)>> ELSE <<>>
  <2>1. y \in Seq(Command) /\ Quiet(y)
    BY <1>3, <1>4, QuietOne, QuietNone
  <2>2. <<ShowSlot(i, seq.present)>> \in Seq(Command) /\ Quiet(<<ShowSlot(i, seq.present)>>)
    BY <1>3, <1>4, QuietOne
  <2> QED BY <2>1, <2>2, QuietJoin
<1>6. d11' = d11 \o x
  BY <1>3, <1>5 DEF Show, IInv, Typed
<1>7. /\ seq' \in SeqType /\ seq'.completion = seq.completion /\ seq'.producer = seq.producer /\ seq'.submission = seq.submission
      /\ cache' \in CacheType
  BY <1>1, <1>2 DEF Show, SeqType, CacheType
<1>8. UNCHANGED <<plan, active, d12, fence, content, slots, lapses>> /\ call' = NoCall
  BY DEF Show
<1>9. \A j \in Slot : slots'[j].submission <= seq'.submission /\ slots'[j].completion <= seq.completion
  BY <1>7, <1>8 DEF IInv, Typed, Bounds
<1>10. active' \in Slot /\ slots' \in [Slot -> SlotType] /\ (lapses' = {} => lapses = {} /\ Followed(d12, slots'))
  BY <1>8 DEF IInv, Typed
<1> HIDE DEF x
<1> QED BY <1>5, <1>6, <1>7, <1>8, <1>9, <1>10, IdleFits, QuietKeeps

-----------------------------------------------------------------------------
(* Choosing a slot.                                                         *)

\* The number of active slots stays between one and the limit.
LEMMA ActiveFits ==
  ASSUME active \in Slot, NEW limit \in Limits
  PROVE  ActiveSlots(limit) \in 1..limit
<1>1. active \in Nat \ {0} /\ InitialFrameSlots \in Nat \ {0} /\ limit \in Nat \ {0}
  BY Ranges
<1>2. Max({active, InitialFrameSlots}) \in Nat \ {0}
  BY <1>1, OfTwo
<1>3. Min({Max({active, InitialFrameSlots}), limit}) \in {Max({active, InitialFrameSlots}), limit}
      /\ Min({Max({active, InitialFrameSlots}), limit}) <= limit
  BY <1>1, <1>2, OfTwo
<1> QED BY <1>1, <1>2, <1>3 DEF ActiveSlots

\* A slot that is chosen is not in flight, unless the pool has regrown over it; without
\* one, every active slot is in flight.
LEMMA SelectFits ==
  ASSUME active \in Slot, NEW limit \in Limits, NEW frames \in [Slot -> SlotType], NEW f \in Nat
  PROVE  LET d == SelectSlot(frames, f, limit)
         IN /\ d.active \in Slot /\ d.slot \in Slot \cup {0}
            /\ d.slot # 0 => frames[d.slot].completion <= f \/ d.slot \in (ActiveSlots(limit) + 1)..FrameSlots
            /\ d.slot = 0 => \A i \in 1..d.active : frames[i].completion > f
<1> DEFINE a == ActiveSlots(limit)
           free == {i \in 1..a : frames[i].completion <= f}
           d == SelectSlot(frames, f, limit)
<1>1. a \in 1..limit /\ limit \in 1..FrameSlots /\ FrameSlots \in Nat
  BY ActiveFits, Ranges, NgxAssumption DEF Slot
<1>2. d = IF free # {} THEN [slot |-> Min(free), active |-> a]
          ELSE IF a < limit THEN [slot |-> a + 1, active |-> a + 1] ELSE [slot |-> 0, active |-> a]
  BY DEF SelectSlot, ChooseNeuralSlot
<1>3. \A i \in Slot : frames[i].completion \in Nat
  BY DEF SlotType
<1> HIDE DEF a, d
<1>4. CASE free # {}
  <2>1. Min(free) \in free
    BY <1>1, <1>4, MinIsMember
  <2>2. d.slot = Min(free) /\ d.active = a
    BY <1>2, <1>4
  <2>3. d.slot \in 1..a /\ frames[d.slot].completion <= f
    BY <2>1, <2>2
  <2>4. d.active \in Slot /\ d.slot \in Slot /\ d.slot # 0
    BY <1>1, <2>2, <2>3 DEF Slot
  <2> QED BY <2>3, <2>4 DEF d
<1>5. CASE free = {} /\ a < limit
  <2>1. d.slot = a + 1 /\ d.active = a + 1
    BY <1>2, <1>5
  <2>2. d.active \in Slot /\ d.slot \in Slot /\ d.slot # 0 /\ d.slot \in (a + 1)..FrameSlots
    BY <1>1, <1>5, <2>1 DEF Slot
  <2> QED BY <2>2, Zenon DEF a, d
<1>6. CASE free = {} /\ ~(a < limit)
  <2>1. d.slot = 0 /\ d.active = a
    BY <1>2, <1>6
  <2>2. \A i \in 1..a : frames[i].completion > f
    BY <1>1, <1>3, <1>6 DEF Slot
  <2> QED BY <1>1, <2>1, <2>2 DEF Slot, d
<1> QED BY <1>4, <1>5, <1>6

\* Decisions lead to recording, to waiting for the oldest of the slots, or back.
LEMMA DecideFits ==
  ASSUME NEW c \in CallType, c.limit # 0, NEW frames \in [Slot -> SlotType], NEW f \in Nat, NEW m \in BOOLEAN,
         NEW d, d.active \in Slot, d.slot \in Slot \cup {0}, d.slot = 0 => \A i \in 1..d.active : frames[i].completion > f
  PROVE  LET e == Decide(c, frames, f, d, m)
         IN /\ e \in CallType /\ (e.pc # "idle" => e.limit # 0)
            /\ \/ e.pc = "resources" /\ e.slot = d.slot /\ d.slot # 0
               \/ e.pc = "wait" /\ e.next = "reselect"
               \/ e.pc = "idle"
<1> DEFINE e == Decide(c, frames, f, d, m)
           times == {frames[i].completion : i \in {j \in 1..d.active : frames[j].completion > f}}
<1>1. e = IF d.slot # 0 THEN [c EXCEPT !.pc = "resources", !.slot = d.slot]
          ELSE IF m THEN [c EXCEPT !.pc = "wait", !.target = Min(times), !.next = "reselect"] ELSE NoCall
  BY DEF Decide, Waiting
<1>2. CASE d.slot # 0
  <2>1. e = [c EXCEPT !.pc = "resources", !.slot = d.slot]
    BY <1>1, <1>2
  <2> HIDE DEF e
  <2>2. e \in CallType /\ e.limit # 0 /\ e.pc = "resources" /\ e.slot = d.slot
    BY <2>1, <1>2 DEF CallType, Places
  <2> QED BY <2>2, <1>2, Zenon DEF e
<1>3. CASE d.slot = 0 /\ m
  <2>1. \A i \in Slot : frames[i].completion \in Nat
    BY DEF SlotType
  <2>2. 1 \in 1..d.active /\ 1..d.active \subseteq Slot
    BY NgxAssumption DEF Slot
  <2>3. times \in SUBSET Nat /\ times # {}
    BY <1>3, <2>1, <2>2
  <2>4. Min(times) \in Nat
    BY <2>3, MinIsMember
  <2>5. e = [c EXCEPT !.pc = "wait", !.target = Min(times), !.next = "reselect"]
    BY <1>1, <1>3
  <2> HIDE DEF e, times
  <2>6. e \in CallType /\ e.limit # 0 /\ e.pc = "wait" /\ e.next = "reselect"
    BY <2>4, <2>5 DEF CallType, Places
  <2> QED BY <2>6, Zenon DEF e
<1>4. CASE d.slot = 0 /\ ~m
  <2>1. e = NoCall
    BY <1>1, <1>4
  <2> HIDE DEF e
  <2>2. e \in CallType /\ e.pc = "idle"
    BY <2>1, NoCallFits
  <2> QED BY <2>2, Zenon DEF e
<1> QED BY <1>2, <1>3, <1>4

\* Some slot of a nonempty set was submitted last.
LEMMA LatestExists ==
  ASSUME NEW frames \in [Slot -> SlotType], NEW fresh \in SUBSET Slot, fresh # {}, NEW last \in Nat,
         \A i \in Slot : frames[i].submission <= last
  PROVE  \E i \in fresh : \A j \in fresh : frames[i].submission >= frames[j].submission
<1> DEFINE ages == {last - frames[i].submission : i \in fresh}
<1>1. \A i \in Slot : frames[i].submission \in Nat
  BY DEF SlotType
<1>2. ages \in SUBSET Nat /\ ages # {}
  BY <1>1
<1>3. PICK a \in ages : \A b \in ages : a <= b
  BY <1>2, LeastExists
<1>4. PICK i \in fresh : a = last - frames[i].submission
  BY <1>3
<1>5. ASSUME NEW j \in fresh PROVE frames[i].submission >= frames[j].submission
  <2>1. a <= last - frames[j].submission
    BY <1>3
  <2> QED BY <2>1, <1>1, <1>4
<1> QED BY <1>5

\* Consuming an output copies one image.
LEMMA ConsumeFits ==
  ASSUME IInv, NEW frames \in [Slot -> SlotType], \A i \in Slot : frames[i].submission <= seq.submission,
         NEW c \in CacheType, NEW f \in Nat
  PROVE  LET u == Consume(frames, c, f)
         IN u.cache \in CacheType /\ u.copies \in Seq(Command) /\ Quiet(u.copies) /\ u.consumed \in Nat
<1> DEFINE fresh == {i \in Slot : frames[i].completion \in 1..f /\ frames[i].submission > seq.consumed}
           latest == CHOOSE i \in fresh : \A j \in fresh : frames[i].submission >= frames[j].submission
           none == fresh = {} \/ ~c.exists \/ frames[latest].final \notin frames[latest].textures
           u == Consume(frames, c, f)
<1>1. seq \in SeqType
  BY DEF IInv, Typed
<1>2. seq.submission \in Nat /\ seq.consumed \in Nat
  BY <1>1 DEF SeqType
<1>3. u = IF none THEN [cache |-> c, copies |-> <<>>, consumed |-> seq.consumed]
          ELSE [cache |-> [c EXCEPT !.valid = TRUE, !.present = frames[latest].source],
                copies |-> <<CacheSlot(latest, frames[latest].source)>>, consumed |-> frames[latest].submission]
  BY DEF Consume
<1>4. CASE none
  <2>1. u = [cache |-> c, copies |-> <<>>, consumed |-> seq.consumed]
    <3> HIDE DEF none, u, fresh, latest
    <3> QED BY <1>3, <1>4, Zenon
  <2>2. u.cache = c /\ u.copies = <<>> /\ u.consumed = seq.consumed
    <3> HIDE DEF u
    <3> QED BY <2>1
  <2> QED BY <2>2, <1>2, QuietNone
<1>5. CASE ~none
  <2>1. \E i \in fresh : \A j \in fresh : frames[i].submission >= frames[j].submission
    BY <1>2, <1>5, LatestExists
  <2>2. latest \in Slot
    BY <2>1
  <2> HIDE DEF latest, none
  <2>3. frames[latest] \in SlotType
    BY <2>2
  <2>4. frames[latest].source \in Nat /\ frames[latest].submission \in Nat
    BY <2>3 DEF SlotType
  <2>5. CacheSlot(latest, frames[latest].source) \in Command /\ IsQuiet(CacheSlot(latest, frames[latest].source))
    BY <2>2, <2>4, CommandsFit, Ranges DEF CacheSlot, IsQuiet
  <2>6. /\ u.cache = [c EXCEPT !.valid = TRUE, !.present = frames[latest].source]
        /\ u.copies = <<CacheSlot(latest, frames[latest].source)>> /\ u.consumed = frames[latest].submission
    BY <1>3, <1>5
  <2>7. u.copies \in Seq(Command) /\ Quiet(u.copies)
    BY <2>5, <2>6, QuietOne
  <2>8. u.cache \in CacheType
    BY <2>4, <2>6 DEF CacheType
  <2> QED BY <2>4, <2>6, <2>7, <2>8
<1> QED BY <1>4, <1>5

\* After the wait for a slot: an output may be consumed, then a slot is chosen once more.
LEMMA ReselectKeeps == IInv /\ Reselect => IInv'
<1> SUFFICES ASSUME IInv, Reselect PROVE IInv'
  OBVIOUS
<1> DEFINE u == Consume(slots, cache, fence.completion)
           d == SelectSlot(slots, fence.completion, call.limit)
           e == Decide(call, slots, fence.completion, d, FALSE)
<1>1. /\ call \in CallType /\ call.limit # 0 /\ active \in Slot /\ slots \in [Slot -> SlotType] /\ seq \in SeqType
      /\ fence \in [producer : Nat, completion : Nat] /\ cache \in CacheType
      /\ \A i \in Slot : slots[i].submission <= seq.submission
  BY DEF IInv, Typed, Reselect
<1>2. call.limit \in Limits /\ fence.completion \in Nat
  BY <1>1 DEF CallType
<1>3. /\ d.active \in Slot /\ d.slot \in Slot \cup {0}
      /\ d.slot # 0 => slots[d.slot].completion <= fence.completion \/ d.slot \in (ActiveSlots(call.limit) + 1)..FrameSlots
      /\ d.slot = 0 => \A i \in 1..d.active : slots[i].completion > fence.completion
  BY <1>1, <1>2, SelectFits
<1>4. /\ e \in CallType /\ (e.pc # "idle" => e.limit # 0)
      /\ \/ e.pc = "resources" /\ e.slot = d.slot /\ d.slot # 0
         \/ e.pc = "wait" /\ e.next = "reselect"
         \/ e.pc = "idle"
  BY <1>1, <1>2, <1>3, DecideFits
<1>5. u.cache \in CacheType /\ u.copies \in Seq(Command) /\ Quiet(u.copies) /\ u.consumed \in Nat
  BY <1>1, <1>2, ConsumeFits
<1>6. /\ cache' = u.cache /\ seq' = [seq EXCEPT !.consumed = u.consumed] /\ d11' = d11 \o u.copies /\ active' = d.active
      /\ call' = e /\ lapses' = Regrown(slots, d, call.limit)
      /\ UNCHANGED <<plan, slots, d12, fence, content>>
  BY DEF Reselect
<1> HIDE DEF u, d, e
<1>7. /\ seq' \in SeqType /\ seq'.completion = seq.completion /\ seq'.producer = seq.producer /\ seq'.submission = seq.submission
  BY <1>1, <1>5, <1>6 DEF SeqType
<1>8. ASSUME lapses' = {} PROVE lapses = {} /\ Followed(d12, slots') /\ CallFits' /\ CallGuided'
  <2>1. lapses = {} /\ ~(\E i \in (ActiveSlots(call.limit) + 1)..FrameSlots : i = d.slot /\ slots[i].completion > fence.completion)
    BY <1>6, <1>8 DEF Regrown
  <2>2. d.slot # 0 => slots[d.slot].completion <= fence.completion
    <3>1. d.slot \in Slot => slots[d.slot] \in SlotType
      BY <1>1
    <3>2. d.slot \in Slot => slots[d.slot].completion \in Nat
      BY <3>1 DEF SlotType
    <3> QED BY <1>2, <1>3, <2>1, <3>2
  <2>3. CallFits'
    BY <1>4, <1>6, <2>2 DEF CallFits
  <2>4. CallGuided'
    BY <1>4, <1>6 DEF CallGuided, Preparing
  <2> QED BY <2>1, <2>3, <2>4, <1>6 DEF IInv
<1>9. /\ HasSlot' => call'.slot # 0
      /\ call'.pc \in {"wait", "armed"} => call'.next # "idle"
  BY <1>4, <1>6 DEF HasSlot
<1>10. \A i \in Slot : slots'[i].submission <= seq'.submission /\ slots'[i].completion <= seq.completion
  BY <1>6, <1>7 DEF IInv, Typed, Bounds
<1> QED BY <1>1, <1>3, <1>4, <1>5, <1>6, <1>7, <1>8, <1>9, <1>10, QuietKeeps

\* Joining is associative.
LEMMA JoinTwo ==
  ASSUME NEW q \in Seq(Command), NEW a \in Seq(Command), NEW b \in Seq(Command)
  PROVE  (q \o a) \o b = q \o (a \o b)
BY ConcatAssociative

\* Two of the counters are written.
LEMMA NumbersFit ==
  ASSUME NEW q \in SeqType, NEW a \in Nat, NEW b \in Nat
  PROVE  [q EXCEPT !.present = a, !.consumed = b]
            = [present |-> a, submission |-> q.submission, consumed |-> b, producer |-> q.producer, completion |-> q.completion]
<1> DEFINE r == [q EXCEPT !.present = a, !.consumed = b]
<1>1. /\ r \in SeqType /\ r.present = a /\ r.consumed = b
      /\ r.submission = q.submission /\ r.producer = q.producer /\ r.completion = q.completion
  BY DEF SeqType
<1> HIDE DEF r
<1>2. r = [present |-> a, submission |-> q.submission, consumed |-> b, producer |-> q.producer, completion |-> q.completion]
  BY <1>1 DEF SeqType
<1> QED BY <1>2, Zenon DEF r

\* evaluate up to the choice of a slot; another extent forgets the completion values once
\* the queue is done with them.
LEMMA EvaluateKeeps ==
  ASSUME NEW mode, NEW limit \in Limits, NEW extent, IInv, Evaluate(mode, limit, extent)
  PROVE  IInv'
<1> DEFINE resized == extent # features.extent
           frames  == IF resized THEN [i \in Slot |-> [slots[i] EXCEPT !.completion = 0, !.submission = 0, !.textures = {}, !.final = "output"]] ELSE slots
           created == NeedsCache(mode) /\ (resized \/ ~cache.exists)
           kept    == IF created THEN [exists |-> TRUE, valid |-> FALSE, present |-> cache.present]
                      ELSE IF NeedsCache(mode) THEN cache ELSE NoCache
           u       == Consume(frames, kept, fence.completion)
           age     == CacheAge(u.cache, seq.present + 1)
           waits   == WaitsForCurrent(mode, u.cache, age)
           d       == SelectSlot(frames, fence.completion, limit)
           c       == [NoCall EXCEPT !.waits = waits, !.caches = NeedsCache(mode), !.limit = limit]
           e       == Decide(c, frames, fence.completion, d, waits)
           x       == (IF created THEN <<ResetCache>> ELSE <<>>) \o u.copies
                        \o (IF UsesCached(mode, u.cache, age) THEN <<ShowCache(u.cache.present)>> ELSE <<>>)
<1>1. /\ active \in Slot /\ slots \in [Slot -> SlotType] /\ seq \in SeqType /\ d12 \in Seq(Command) /\ d11 \in Seq(Command)
      /\ fence \in [producer : Nat, completion : Nat] /\ cache \in CacheType
      /\ \A i \in Slot : slots[i].submission <= seq.submission
  BY DEF IInv, Typed
<1>2. fence.completion \in Nat /\ seq.submission \in Nat /\ seq.completion \in Nat /\ seq.present \in Nat /\ cache.present \in Nat
  BY <1>1 DEF SeqType, CacheType
<1>3. /\ frames \in [Slot -> SlotType]
      /\ \A i \in Slot : frames[i].submission <= seq.submission /\ frames[i].completion <= seq.completion
  <2>1. CASE resized
    <3>1. frames = [i \in Slot |-> [slots[i] EXCEPT !.completion = 0, !.submission = 0, !.textures = {}, !.final = "output"]]
      BY <2>1
    <3> HIDE DEF frames
    <3>2. ASSUME NEW i \in Slot PROVE frames[i] \in SlotType /\ frames[i].submission = 0 /\ frames[i].completion = 0
      <4>1. frames[i] = [slots[i] EXCEPT !.completion = 0, !.submission = 0, !.textures = {}, !.final = "output"] /\ slots[i] \in SlotType
        BY <1>1, <3>1
      <4>2. {} \in SUBSET Textures /\ 0 \in Nat
        OBVIOUS
      <4> QED BY <4>1, <4>2 DEF SlotType
    <3>3. DOMAIN frames = Slot /\ frames = [i \in Slot |-> frames[i]]
      BY <3>1
    <3> QED BY <1>2, <3>2, <3>3
  <2>2. CASE ~resized
    BY <2>2, <1>1 DEF IInv, Bounds
  <2> QED BY <2>1, <2>2
<1>4. /\ call.pc = "idle" /\ cache' = u.cache /\ active' = d.active /\ slots' = frames /\ call' = e
      /\ seq' = [seq EXCEPT !.present = seq.present + 1, !.consumed = u.consumed]
      /\ d11' = d11 \o (IF created THEN <<ResetCache>> ELSE <<>>) \o u.copies
                    \o (IF UsesCached(mode, u.cache, age) THEN <<ShowCache(u.cache.present)>> ELSE <<>>)
      /\ UNCHANGED <<plan, d12, fence, content>>
      /\ IF resized THEN AwaitSubmittedWork ELSE lapses' = Regrown(frames, d, limit)
  BY DEF Evaluate
<1> HIDE DEF frames
<1>5. kept \in CacheType
  BY <1>1, <1>2 DEF CacheType, NoCache
<1> HIDE DEF kept
<1>6. u.cache \in CacheType /\ u.copies \in Seq(Command) /\ Quiet(u.copies) /\ u.consumed \in Nat
  BY <1>2, <1>3, <1>5, ConsumeFits
<1> HIDE DEF u
<1>7. /\ d.active \in Slot /\ d.slot \in Slot \cup {0}
      /\ d.slot # 0 => frames[d.slot].completion <= fence.completion \/ d.slot \in (ActiveSlots(limit) + 1)..FrameSlots
      /\ d.slot = 0 => \A i \in 1..d.active : frames[i].completion > fence.completion
  BY <1>1, <1>2, <1>3, SelectFits
<1>8. waits \in BOOLEAN /\ NeedsCache(mode) \in BOOLEAN
  BY DEF WaitsForCurrent, NeedsCache
<1>9. c \in CallType /\ c.limit # 0
  <2>1. limit # 0 /\ limit \in Limits
    BY Ranges
  <2> QED BY <1>8, <2>1 DEF NoCall, CallType, Places
<1> HIDE DEF d, c, waits
<1>10. /\ e \in CallType /\ (e.pc # "idle" => e.limit # 0)
       /\ \/ e.pc = "resources" /\ e.slot = d.slot /\ d.slot # 0
          \/ e.pc = "wait" /\ e.next = "reselect"
          \/ e.pc = "idle"
  BY <1>2, <1>3, <1>7, <1>8, <1>9, DecideFits
<1> HIDE DEF e
<1>11. /\ seq' \in SeqType /\ seq'.completion = seq.completion /\ seq'.producer = seq.producer /\ seq'.submission = seq.submission
  <2>1. seq' = [seq EXCEPT !.present = seq.present + 1, !.consumed = u.consumed]
    BY <1>4
  <2>2. seq.present + 1 \in Nat
    BY <1>2
  <2>3. seq \in SeqType /\ u.consumed \in Nat
    BY <1>1, <1>6
  <2>4. [seq EXCEPT !.present = seq.present + 1, !.consumed = u.consumed]
          = [present |-> seq.present + 1, submission |-> seq.submission, consumed |-> u.consumed,
             producer |-> seq.producer, completion |-> seq.completion]
    BY <2>2, <2>3, NumbersFit, Zenon
  <2>5. seq' = [present |-> seq.present + 1, submission |-> seq.submission, consumed |-> u.consumed,
                producer |-> seq.producer, completion |-> seq.completion]
    BY <2>1, <2>4, Zenon
  <2> QED BY <2>2, <2>3, <2>5 DEF SeqType
<1>12. x \in Seq(Command) /\ Quiet(x) /\ d11' = d11 \o x
  <2> DEFINE y == IF created THEN <<ResetCache>> ELSE <<>>
             z == IF UsesCached(mode, u.cache, age) THEN <<ShowCache(u.cache.present)>> ELSE <<>>
  <2>1. u.cache.present \in Nat
    BY <1>6 DEF CacheType
  <2>2. ResetCache \in Command /\ ShowCache(u.cache.present) \in Command
    BY <2>1, CommandsFit
  <2>3. IsQuiet(ResetCache) /\ IsQuiet(ShowCache(u.cache.present))
    BY DEF ResetCache, ShowCache, IsQuiet
  <2>4. y \in Seq(Command) /\ Quiet(y) /\ z \in Seq(Command) /\ Quiet(z)
    BY <2>2, <2>3, QuietOne, QuietNone
  <2>5. x = (y \o u.copies) \o z /\ d11' = ((d11 \o y) \o u.copies) \o z
    BY <1>4
  <2> HIDE DEF x, y, z
  <2>6. y \o u.copies \in Seq(Command) /\ Quiet(y \o u.copies)
    BY <1>6, <2>4, QuietJoin
  <2>7. x \in Seq(Command) /\ Quiet(x)
    BY <2>4, <2>5, <2>6, QuietJoin
  <2> DEFINE k == u.copies
  <2>8. k \in Seq(Command) /\ k = u.copies
    BY <1>6
  <2> HIDE DEF k
  <2>9. ((d11 \o y) \o k) \o z = d11 \o ((y \o k) \o z)
    <3>1. d11 \in Seq(Command) /\ y \in Seq(Command) /\ k \in Seq(Command) /\ z \in Seq(Command)
      BY <1>1, <2>4, <2>8
    <3> DEFINE yk == y \o k
    <3>2. (d11 \o y) \o k = d11 \o yk
      BY <3>1, JoinTwo
    <3>3. yk \in Seq(Command) /\ yk = y \o k
      BY <3>1, JoinOf
    <3> HIDE DEF yk
    <3>4. (d11 \o yk) \o z = d11 \o (yk \o z)
      BY <3>1, <3>3, JoinTwo, SMTT(20)
    <3> QED BY <3>2, <3>3, <3>4, Zenon
  <2> QED BY <2>5, <2>7, <2>8, <2>9, Zenon
<1> HIDE DEF x
<1>13. ASSUME lapses' = {} PROVE lapses = {} /\ Followed(d12, slots') /\ CallFits' /\ CallGuided'
  <2>1. CASE resized
    <3>1. lapses = {} /\ \A i \in Slot : slots[i].completion <= fence.completion
      BY <1>4, <1>13, <2>1 DEF AwaitSubmittedWork
    <3>2. \A i \in Slot : \A k \in DOMAIN d12 : d12[k].slot # i
      BY <1>1, <1>2, <3>1, NothingLeft DEF IInv
    <3>3. \A k \in DOMAIN d12 : d12[k].slot = 0
      <4> SUFFICES ASSUME NEW k \in DOMAIN d12 PROVE d12[k].slot = 0
        OBVIOUS
      <4>1. d12[k] \in Command
        BY <1>1
      <4> QED BY <3>2, <4>1 DEF Command
    <3>4. Followed(d12, slots')
      BY <3>3 DEF Followed
    <3>5. \A i \in Slot : frames[i].completion = 0
      <4>1. frames = [i \in Slot |-> [slots[i] EXCEPT !.completion = 0, !.submission = 0, !.textures = {}, !.final = "output"]]
        BY <2>1 DEF frames
      <4> SUFFICES ASSUME NEW i \in Slot PROVE frames[i].completion = 0
        OBVIOUS
      <4>2. frames[i] = [slots[i] EXCEPT !.completion = 0, !.submission = 0, !.textures = {}, !.final = "output"] /\ slots[i] \in SlotType
        BY <1>1, <4>1
      <4> QED BY <4>2 DEF SlotType
    <3>6. CallFits'
      BY <1>2, <1>4, <1>7, <1>10, <3>5 DEF CallFits
    <3>7. CallGuided'
      BY <1>4, <1>10 DEF CallGuided, Preparing
    <3> QED BY <3>1, <3>4, <3>6, <3>7
  <2>2. CASE ~resized
    <3>1. lapses = {} /\ ~(\E i \in (ActiveSlots(limit) + 1)..FrameSlots : i = d.slot /\ frames[i].completion > fence.completion)
      BY <1>4, <1>13, <2>2 DEF Regrown
    <3>2. d.slot # 0 => frames[d.slot].completion <= fence.completion
      <4>1. d.slot \in Slot => frames[d.slot] \in SlotType
        BY <1>3
      <4>2. d.slot \in Slot => frames[d.slot].completion \in Nat
        BY <4>1 DEF SlotType
      <4> QED BY <1>2, <1>7, <3>1, <4>2
    <3>3. CallFits'
      BY <1>4, <1>10, <3>2 DEF CallFits
    <3>4. CallGuided'
      BY <1>4, <1>10 DEF CallGuided, Preparing
    <3>5. Followed(d12, slots')
      BY <1>4, <2>2, <3>1 DEF IInv, frames
    <3> QED BY <3>1, <3>3, <3>4, <3>5
  <2> QED BY <2>1, <2>2
<1>14. /\ HasSlot' => call'.slot # 0
       /\ call'.pc \in {"wait", "armed"} => call'.next # "idle"
  BY <1>4, <1>10 DEF HasSlot
<1>15. \A i \in Slot : slots'[i].submission <= seq'.submission /\ slots'[i].completion <= seq.completion
  BY <1>3, <1>4, <1>11
<1> HIDE DEF resized
<1> QED BY <1>3, <1>4, <1>6, <1>7, <1>10, <1>11, <1>12, <1>13, <1>14, <1>15, QuietKeeps

-----------------------------------------------------------------------------
(* Submitting a list.                                                       *)

\* A command and the completion value behind it.
LEMMA PairOf ==
  ASSUME NEW w \in Seq(Command), NEW c \in Command, NEW e \in Command
  PROVE  /\ <<c, e>> \in Seq(Command) /\ w \o <<c, e>> \in Seq(Command) /\ Len(w) \in Nat /\ Len(w \o <<c, e>>) = Len(w) + 2
         /\ DOMAIN w = 1..Len(w) /\ DOMAIN (w \o <<c, e>>) = 1..(Len(w) + 2)
         /\ \A p \in 1..Len(w) : (w \o <<c, e>>)[p] = w[p]
         /\ (w \o <<c, e>>)[Len(w) + 1] = c /\ (w \o <<c, e>>)[Len(w) + 2] = e
OBVIOUS

\* The new completion value is the last.
LEMMA OrderedAfterJoin ==
  ASSUME NEW w \in Seq(Command), NEW f \in Nat, NEW last \in Nat, f <= last, Ordered(w, f, last),
         NEW c \in Command, c.op # "complete"
  PROVE  Ordered(w \o <<c, Completed(last + 1)>>, f, last + 1)
<1> DEFINE y == w \o <<c, Completed(last + 1)>>
<1>1. Completed(last + 1) \in Command /\ Completed(last + 1).frame = last + 1 /\ last + 1 \in Nat
  BY CommandsFit DEF Completed
<1>2. /\ Len(w) \in Nat /\ DOMAIN w = 1..Len(w) /\ DOMAIN y = 1..(Len(w) + 2)
      /\ \A p \in 1..Len(w) : y[p] = w[p]
      /\ y[Len(w) + 1] = c /\ y[Len(w) + 2] = Completed(last + 1)
  BY <1>1, PairOf
<1> HIDE DEF y
<1>3. \A p \in 1..Len(w) : w[p].frame \in Nat
  <2>1. \A p \in 1..Len(w) : w[p] \in Command
    BY <1>2
  <2> QED BY <2>1 DEF Command
<1> SUFFICES ASSUME NEW k \in DOMAIN y, y[k].op = "complete"
             PROVE  /\ f < y[k].frame /\ y[k].frame <= last + 1
                    /\ \A j \in 1..(k - 1) : y[j].op = "complete" => y[j].frame < y[k].frame
  BY DEF Ordered, y
<1>4. CASE k <= Len(w)
  <2>1. k \in 1..Len(w) /\ k \in DOMAIN w /\ y[k] = w[k]
    BY <1>2, <1>4
  <2>2. f < w[k].frame /\ w[k].frame <= last /\ \A j \in 1..(k - 1) : w[j].op = "complete" => w[j].frame < w[k].frame
    BY <2>1 DEF Ordered
  <2>3. \A j \in 1..(k - 1) : y[j] = w[j]
    BY <1>2, <2>1
  <2>4. f < y[k].frame /\ y[k].frame <= last + 1
    <3>1. w[k].frame \in Nat
      BY <1>3, <2>1
    <3> QED BY <2>1, <2>2, <3>1
  <2>5. ASSUME NEW j \in 1..(k - 1), y[j].op = "complete" PROVE y[j].frame < y[k].frame
    BY <2>1, <2>2, <2>3, <2>5
  <2> QED BY <2>4, <2>5
<1>5. CASE ~(k <= Len(w))
  <2>1. k = Len(w) + 2 /\ y[k].frame = last + 1
    BY <1>1, <1>2, <1>5
  <2>2. ASSUME NEW j \in 1..(k - 1), y[j].op = "complete" PROVE y[j].frame < last + 1
    <3>1. j \in 1..Len(w) /\ y[j] = w[j] /\ j \in DOMAIN w
      BY <1>2, <2>1, <2>2
    <3>2. w[j].frame <= last
      BY <2>2, <3>1 DEF Ordered
    <3> QED BY <1>3, <3>1, <3>2
  <2> QED BY <2>1, <2>2
<1> QED BY <1>4, <1>5

\* And the slot of the command knows of it.
LEMMA FollowedAfterJoin ==
  ASSUME NEW w \in Seq(Command), NEW v \in Nat, NEW s \in [Slot -> SlotType], NEW t \in [Slot -> SlotType], Followed(w, s),
         \A i \in Slot : s[i].completion <= t[i].completion,
         NEW c \in Command, c.slot # 0 => t[c.slot].completion = v
  PROVE  Followed(w \o <<c, Completed(v)>>, t)
<1> DEFINE y == w \o <<c, Completed(v)>>
<1>1. Completed(v) \in Command /\ Completed(v).frame = v /\ Completed(v).slot = 0 /\ Completed(v).op = "complete"
  BY CommandsFit DEF Completed
<1>2. /\ Len(w) \in Nat /\ DOMAIN w = 1..Len(w) /\ DOMAIN y = 1..(Len(w) + 2)
      /\ \A p \in 1..Len(w) : y[p] = w[p]
      /\ y[Len(w) + 1] = c /\ y[Len(w) + 2] = Completed(v)
  BY <1>1, PairOf
<1> HIDE DEF y
<1> SUFFICES ASSUME NEW k \in DOMAIN y, y[k].slot # 0
             PROVE  k + 1 \in DOMAIN y /\ y[k + 1].op = "complete" /\ y[k + 1].frame <= t[y[k].slot].completion
  BY DEF Followed, y
<1>3. CASE k <= Len(w)
  <2>1. k \in DOMAIN w /\ y[k] = w[k] /\ w[k] \in Command
    BY <1>2, <1>3
  <2>2. k + 1 \in DOMAIN w /\ w[k + 1].op = "complete" /\ w[k + 1].frame <= s[w[k].slot].completion
    BY <2>1 DEF Followed
  <2>3. w[k].slot \in Slot /\ w[k + 1] \in Command /\ y[k + 1] = w[k + 1] /\ k + 1 \in DOMAIN y
    <3>1. w[k + 1] \in Command /\ y[k + 1] = w[k + 1] /\ k + 1 \in DOMAIN y
      BY <1>2, <2>2
    <3>2. w[k].slot \in Slot
      BY <2>1 DEF Command
    <3> QED BY <3>1, <3>2
  <2>4. s[w[k].slot] \in SlotType /\ t[w[k].slot] \in SlotType
    BY <2>3
  <2>5. w[k + 1].frame \in Nat /\ s[w[k].slot].completion \in Nat /\ t[w[k].slot].completion \in Nat
    BY <2>3, <2>4 DEF Command, SlotType
  <2>6. s[w[k].slot].completion <= t[w[k].slot].completion
    BY <2>3
  <2> QED BY <2>1, <2>2, <2>3, <2>5, <2>6
<1>4. CASE ~(k <= Len(w))
  <2>1. k = Len(w) + 1
    BY <1>1, <1>2, <1>4
  <2> QED BY <1>1, <1>2, <2>1
<1> QED BY <1>3, <1>4

\* What is awaited before a command is awaited before every later one.
LEMMA AwaitedLater ==
  ASSUME NEW o, NEW q, NEW w \in Seq(Command), NEW f, NEW i, NEW k \in Nat, NEW m \in Nat, k <= m, Awaited(o, q, w, f, i, k)
  PROVE  Awaited(o, q, w, f, i, m)
<1> SUFFICES ASSUME NEW p \in DOMAIN q, Is(o, q[p], i)
             PROVE  \E j \in DOMAIN w : /\ j < m /\ w[j].op = "wait" /\ f < w[j].frame
                                        /\ \A r \in 1..(p - 1) : q[r].op = "signal" => q[r].frame < w[j].frame
  BY DEF Awaited
<1>1. PICK j \in DOMAIN w : /\ j < k /\ w[j].op = "wait" /\ f < w[j].frame
                            /\ \A r \in 1..(p - 1) : q[r].op = "signal" => q[r].frame < w[j].frame
  BY DEF Awaited
<1>2. j < m
  BY <1>1
<1> QED BY <1>1, <1>2

\* A call submits what it has recorded of its slot, whose completion value becomes the new one.
LEMMA SubmitKeeps ==
  ASSUME IInv, Preparing, NEW c \in {Initialise(call.slot), Evaluation(call.slot, seq.present)},
         d12' = d12 \o <<c, Completed(seq.completion + 1)>>, UNCHANGED <<plan, active, cache, d11, fence, content, lapses>>,
         seq' \in SeqType, seq'.completion = seq.completion + 1, seq'.producer = seq.producer, seq'.present = seq.present,
         slots' \in [Slot -> SlotType], \A i \in Slot : slots'[i].submission <= seq'.submission,
         slots'[call.slot].completion = seq.completion + 1,
         \A i \in Slot \ {call.slot} : slots'[i].completion = slots[i].completion,
         call' \in CallType, call'.pc # "idle" => call'.limit # 0,
         \/ call'.slot = call.slot /\ call'.pc = "wait" /\ call'.next # "idle" /\ call'.target = seq.completion + 1
         \/ call' = NoCall
  PROVE  IInv'
<1> DEFINE i == call.slot
           v == seq.completion + 1
           pair == <<c, Completed(v)>>
<1>1. /\ seq \in SeqType /\ d11 \in Seq(Command) /\ d12 \in Seq(Command) /\ fence \in [producer : Nat, completion : Nat]
      /\ slots \in [Slot -> SlotType]
  BY DEF IInv, Typed
<1>2. seq.completion \in Nat /\ v \in Nat /\ seq.present \in Nat /\ fence.completion \in Nat /\ fence.producer \in Nat
  BY <1>1 DEF SeqType
<1>3. i \in Slot
  BY CallSlot DEF Preparing, HasSlot
<1>4. c \in Command /\ c.slot = i /\ c.op \in {"initialise", "evaluate"} /\ (c.op = "evaluate" => c.frame = seq.present)
      /\ Completed(v) \in Command /\ Completed(v).op = "complete" /\ Completed(v).slot = 0
  <2>1. Initialise(i) \in Command /\ Evaluation(i, seq.present) \in Command /\ Completed(v) \in Command
    BY <1>2, <1>3, CommandsFit
  <2>2. CASE c = Initialise(i)
    BY <2>1, <2>2 DEF Initialise, Completed
  <2>3. CASE c = Evaluation(i, seq.present)
    BY <2>1, <2>3 DEF Evaluation, Completed
  <2> QED BY <2>2, <2>3
<1>5. /\ pair \in Seq(Command) /\ d12' \in Seq(Command) /\ Len(d12) \in Nat /\ Len(d12') = Len(d12) + 2
      /\ DOMAIN d12 = 1..Len(d12) /\ DOMAIN d12' = 1..(Len(d12) + 2)
      /\ \A p \in 1..Len(d12) : d12'[p] = d12[p]
      /\ d12'[Len(d12) + 1] = c /\ d12'[Len(d12) + 2] = Completed(v)
  BY <1>1, <1>4, PairOf
<1>6. \A j \in Slot : slots[j].completion \in Nat /\ slots[j].completion <= seq.completion
  BY <1>1 DEF IInv, Bounds, SlotType
<1>7. \A j \in Slot : slots'[j].completion <= v /\ slots[j].completion <= slots'[j].completion
  <2> SUFFICES ASSUME NEW j \in Slot PROVE slots'[j].completion <= v /\ slots[j].completion <= slots'[j].completion
    OBVIOUS
  <2>1. CASE j = i
    BY <1>2, <1>6, <2>1
  <2>2. CASE j # i
    BY <1>2, <1>6, <2>2
  <2> QED BY <2>1, <2>2
<1>8. Typed'
  BY <1>1, <1>5 DEF IInv, Typed
<1>9. Bounds'
  <2>1. fence.completion <= v
    BY <1>2 DEF IInv, Bounds
  <2>2. ASSUME NEW k \in DOMAIN d12', d12'[k].op = "evaluate" PROVE d12'[k].slot # 0
    <3>1. CASE k \in 1..Len(d12)
      BY <1>5, <2>2, <3>1 DEF IInv, Bounds
    <3>2. CASE k = Len(d12) + 1
      BY <1>3, <1>4, <1>5, <3>2, Ranges
    <3>3. CASE k = Len(d12) + 2
      BY <1>4, <1>5, <2>2, <3>3
    <3> QED BY <1>5, <3>1, <3>2, <3>3
  <2> QED BY <1>7, <2>1, <2>2 DEF IInv, Bounds
<1>10. (HasSlot' => call'.slot # 0) /\ (call'.pc \in {"wait", "armed"} => call'.next # "idle")
  BY <1>3, Ranges, NoCallFits DEF HasSlot
<1>11. Ordered(d12', fence.completion, v)
  BY <1>1, <1>2, <1>4, OrderedAfterJoin DEF IInv, Bounds
<1>12. ASSUME lapses' = {} PROVE Followed(d12', slots') /\ CallFits' /\ QueueGuided' /\ CallGuided'
  <2>1. Followed(d12, slots) /\ QueueGuided /\ CallGuided
    BY <1>12 DEF IInv
  <2>2. Followed(d12', slots')
    BY <1>1, <1>2, <1>4, <1>7, <2>1, FollowedAfterJoin
  <2>3. CallFits'
    BY NoCallFits DEF CallFits
  <2>4. Holds("guides", d11, content.guides, i, seq.present) /\ Awaited("guides", d11, d12, fence.producer, i, Len(d12) + 1)
    BY <2>1 DEF CallGuided
  <2>5. ASSUME NEW j, NEW k \in Nat, Awaited("guides", d11, d12, fence.producer, j, k) PROVE Awaited("guides", d11, d12', fence.producer, j, k)
    <3> DEFINE none == <<>>
    <3>1. none \in Seq(Command) /\ d11 \o none = d11 /\ \A p \in DOMAIN none : ~Is("guides", none[p], j)
      BY <1>1
    <3> HIDE DEF none, pair
    <3>2. Awaited("guides", d11 \o none, d12 \o pair, fence.producer, j, k)
      BY <1>1, <1>2, <1>5, <2>5, <3>1, AwaitedAfterJoin, Zenon
    <3> QED BY <3>1, <3>2, Zenon DEF pair
  <2>6. Awaited("guides", d11, d12', fence.producer, i, Len(d12) + 1)
    <3>1. Len(d12) + 1 \in Nat
      BY <1>5
    <3> HIDE DEF i, pair, v
    <3> QED BY <2>4, <2>5, <3>1, Zenon
  <2>7. QueueGuided'
    <3>1. ASSUME NEW k \in DOMAIN d12', d12'[k].op = "evaluate"
          PROVE  /\ Holds("guides", d11, content.guides, d12'[k].slot, d12'[k].frame)
                 /\ Awaited("guides", d11, d12', fence.producer, d12'[k].slot, k)
      <4>1. CASE k \in 1..Len(d12)
        <5>1. d12'[k] = d12[k] /\ k \in DOMAIN d12 /\ k \in Nat
          BY <1>5, <4>1
        <5>2. Holds("guides", d11, content.guides, d12[k].slot, d12[k].frame) /\ Awaited("guides", d11, d12, fence.producer, d12[k].slot, k)
          BY <2>1, <3>1, <5>1 DEF QueueGuided
        <5>3. Awaited("guides", d11, d12', fence.producer, d12[k].slot, k)
          BY <2>5, <5>1, <5>2
        <5> QED BY <5>1, <5>2, <5>3
      <4>2. CASE k = Len(d12) + 1
        BY <1>4, <1>5, <2>4, <2>6, <3>1, <4>2
      <4>3. CASE k = Len(d12) + 2
        BY <1>4, <1>5, <3>1, <4>3
      <4> QED BY <1>5, <4>1, <4>2, <4>3
    <3> QED BY <3>1 DEF QueueGuided
  <2>8. CallGuided'
    <3> DEFINE m == Len(d12) + 1
               n == Len(d12') + 1
               w == d12'
    <3>1. m \in Nat /\ n \in Nat /\ m <= n /\ w \in Seq(Command) /\ Awaited("guides", d11, w, fence.producer, i, m)
      <4>1. m \in Nat /\ n \in Nat /\ m <= n /\ w \in Seq(Command)
        BY <1>5
      <4>2. Awaited("guides", d11, w, fence.producer, i, m)
        BY <2>6, Zenon
      <4> QED BY <4>1, <4>2, Zenon
    <3> HIDE DEF m, n, w, i
    <3>2. Awaited("guides", d11, w, fence.producer, i, n)
      BY <3>1, AwaitedLater, Zenon
    <3> USE DEF n, w, i
    <3> QED BY <2>4, <3>1, <3>2, NoCallFits DEF CallGuided, Preparing
  <2> QED BY <2>2, <2>3, <2>7, <2>8
<1> QED BY <1>8, <1>9, <1>10, <1>11, <1>12 DEF IInv

\* The initialization of a feature: a list of barriers, which is waited for.
LEMMA InitializationKeeps ==
  ASSUME IInv, call.pc \in {"feature", "refinement"}, SubmitInitialization, UNCHANGED <<plan, active, cache, d11, fence, content>>
  PROVE  IInv'
<1> DEFINE i == call.slot
           v == seq.completion + 1
<1>1. i \in Slot /\ call.limit # 0 /\ call \in CallType /\ slots \in [Slot -> SlotType] /\ slots[i] \in SlotType /\ seq \in SeqType
  BY CallSlot DEF HasSlot, IInv, Typed
<1>2. v \in Nat
  BY <1>1 DEF SeqType
<1>3. /\ d12' = d12 \o <<Initialise(i), Completed(v)>>
      /\ seq' = [seq EXCEPT !.completion = v]
      /\ slots' = [slots EXCEPT ![i].completion = v, ![i].open = FALSE]
      /\ call' = [[call EXCEPT !.recorded = <<>>] EXCEPT !.pc = "wait", !.target = v, !.next = "refinement"]
      /\ UNCHANGED lapses
  BY DEF SubmitInitialization, Submit, Waiting
<1> HIDE DEF v
<1>4. /\ seq' \in SeqType /\ seq'.completion = v /\ seq'.producer = seq.producer /\ seq'.present = seq.present
      /\ seq'.submission = seq.submission
  BY <1>1, <1>2, <1>3 DEF SeqType
<1>5. /\ slots' \in [Slot -> SlotType] /\ slots'[i].completion = v
      /\ \A j \in Slot : slots'[j].submission = slots[j].submission
      /\ \A j \in Slot \ {i} : slots'[j].completion = slots[j].completion
  BY <1>1, <1>2, <1>3 DEF SlotType
<1>6. \A j \in Slot : slots'[j].submission <= seq'.submission
  BY <1>4, <1>5 DEF IInv, Typed
<1>7. /\ call' \in CallType /\ call'.limit # 0 /\ call'.slot = i /\ call'.pc = "wait" /\ call'.next # "idle" /\ call'.target = v
  BY <1>1, <1>2, <1>3 DEF CallType, Places
<1>8. Preparing
  BY DEF Preparing
<1> USE DEF v
<1> QED BY <1>3, <1>4, <1>5, <1>6, <1>7, <1>8, SubmitKeeps

\* A list whose Signal failed is executed all the same; the call is over, and a lapse is recorded.
LEMMA UnsignalledKeeps ==
  ASSUME IInv, call.slot \in Slot, NEW c \in {Initialise(call.slot), Evaluation(call.slot, seq.present)},
         d12' = Append(d12, c), UNCHANGED <<plan, active, cache, d11, fence, content>>,
         seq' = [seq EXCEPT !.completion = @ + 1], slots' \in [Slot -> SlotType],
         \A i \in Slot : slots'[i].submission = slots[i].submission /\ slots'[i].completion = slots[i].completion,
         call' = NoCall, lapses' # {}
  PROVE  IInv'
<1>1. /\ seq \in SeqType /\ d11 \in Seq(Command) /\ d12 \in Seq(Command) /\ fence \in [producer : Nat, completion : Nat]
      /\ slots \in [Slot -> SlotType]
  BY DEF IInv, Typed
<1>2. /\ seq' \in SeqType /\ seq'.completion = seq.completion + 1 /\ seq'.producer = seq.producer
      /\ seq'.submission = seq.submission /\ seq.completion \in Nat /\ seq.present \in Nat /\ fence.completion \in Nat
  <2> DEFINE v == seq.completion + 1
  <2>1. seq.completion \in Nat /\ seq.present \in Nat /\ fence.completion \in Nat
    BY <1>1 DEF SeqType
  <2>2. v \in Nat /\ seq' = [seq EXCEPT !.completion = v]
    BY <2>1
  <2> HIDE DEF v
  <2>3. /\ seq' \in SeqType /\ seq'.completion = v /\ seq'.producer = seq.producer /\ seq'.submission = seq.submission
    BY <1>1, <2>2 DEF SeqType
  <2> QED BY <2>1, <2>3 DEF v
<1>3. c \in Command /\ c.slot = call.slot /\ c.op \in {"initialise", "evaluate"}
  <2>1. Initialise(call.slot) \in Command /\ Evaluation(call.slot, seq.present) \in Command
    BY <1>2, CommandsFit
  <2> QED BY <2>1 DEF Initialise, Evaluation
<1>4. /\ d12' \in Seq(Command) /\ Len(d12) \in Nat /\ DOMAIN d12 = 1..Len(d12) /\ DOMAIN d12' = 1..(Len(d12) + 1)
      /\ \A k \in 1..Len(d12) : d12'[k] = d12[k]
      /\ d12'[Len(d12) + 1] = c
  BY <1>1, <1>3
<1>5. Typed'
  BY <1>1, <1>2, <1>4, NoCallFits DEF IInv, Typed
<1>6. Bounds'
  <2>1. ASSUME NEW k \in DOMAIN d12', d12'[k].op = "evaluate" PROVE d12'[k].slot # 0
    <3>1. CASE k \in 1..Len(d12)
      BY <1>4, <2>1, <3>1 DEF IInv, Bounds
    <3>2. CASE k = Len(d12) + 1
      BY <1>3, <1>4, <3>2, Ranges
    <3> QED BY <1>4, <3>1, <3>2
  <2>2. fence.completion <= seq'.completion
    BY <1>2 DEF IInv, Bounds
  <2>3. ASSUME NEW j \in Slot PROVE slots'[j].completion <= seq'.completion
    <3>1. slots[j] \in SlotType /\ slots[j].completion <= seq.completion
      BY <1>1 DEF IInv, Bounds
    <3>2. slots[j].completion \in Nat
      BY <3>1 DEF SlotType
    <3> QED BY <1>2, <3>1, <3>2
  <2> QED BY <1>2, <2>1, <2>2, <2>3 DEF IInv, Bounds
<1>7. Ordered(d12', fence.completion, seq'.completion)
  <2>1. Ordered(d12, fence.completion, seq.completion)
    BY DEF IInv
  <2>2. ASSUME NEW k \in DOMAIN d12', d12'[k].op = "complete"
        PROVE  /\ fence.completion < d12'[k].frame /\ d12'[k].frame <= seq'.completion
               /\ \A j \in 1..(k - 1) : d12'[j].op = "complete" => d12'[j].frame < d12'[k].frame
    <3>1. k \in DOMAIN d12 /\ d12'[k] = d12[k] /\ \A j \in 1..(k - 1) : d12'[j] = d12[j]
      BY <1>3, <1>4, <2>2
    <3>2. d12[k] \in Command
      BY <1>1, <3>1
    <3>3. d12[k].frame \in Nat
      BY <3>2 DEF Command
    <3>4. /\ fence.completion < d12[k].frame /\ d12[k].frame <= seq.completion
          /\ \A j \in 1..(k - 1) : d12[j].op = "complete" => d12[j].frame < d12[k].frame
      BY <2>1, <2>2, <3>1 DEF Ordered
    <3> QED BY <1>2, <3>1, <3>3, <3>4
  <2> QED BY <2>2 DEF Ordered
<1>8. ~HasSlot' /\ call'.pc = "idle"
  BY IdleFits
<1> QED BY <1>1, <1>5, <1>6, <1>7, <1>8 DEF IInv

\* So with the initialization of a feature.
LEMMA InitializationUnsignalledKeeps ==
  ASSUME IInv, call.slot \in Slot, InitializationUnsignalled, UNCHANGED <<plan, active, cache, d11, fence, content>>
  PROVE  IInv'
<1>1. slots \in [Slot -> SlotType] /\ slots[call.slot] \in SlotType
  BY DEF IInv, Typed
<1>2. /\ d12' = Append(d12, Initialise(call.slot)) /\ seq' = [seq EXCEPT !.completion = @ + 1]
      /\ slots' = [slots EXCEPT ![call.slot].open = FALSE] /\ call' = NoCall
      /\ "unsignalled" \in lapses'
  BY DEF InitializationUnsignalled, SubmitUnsignalled
<1>3. /\ slots' \in [Slot -> SlotType]
      /\ \A i \in Slot : slots'[i].submission = slots[i].submission /\ slots'[i].completion = slots[i].completion
  BY <1>1, <1>2 DEF SlotType
<1>4. lapses' # {} /\ Initialise(call.slot) \in {Initialise(call.slot), Evaluation(call.slot, seq.present)}
  BY <1>2
<1> QED BY <1>2, <1>3, <1>4, UnsignalledKeeps

\* The creation of a feature is submitted, or not tried again.
LEMMA EnsureFeatureKeeps == IInv /\ EnsureFeature => IInv'
<1> SUFFICES ASSUME IInv, EnsureFeature PROVE IInv'
  OBVIOUS
<1>1. call.slot \in Slot /\ call.limit # 0 /\ call \in CallType /\ slots \in [Slot -> SlotType] /\ slots[call.slot] \in SlotType
  BY CallSlot DEF EnsureFeature, HasSlot
<1>2. call.pc = "feature" /\ UNCHANGED <<plan, active, cache, d11, fence, content>>
  BY DEF EnsureFeature
<1>3. CASE /\ call' = [call EXCEPT !.pc = "refinement"]
           /\ UNCHANGED <<slots, seq, d12, lapses>>
  <2>1. call' \in CallType /\ call'.limit # 0 /\ call'.slot = call.slot /\ call'.pc = "refinement"
    BY <1>1, <1>3 DEF CallType, Places
  <2>2. HasSlot' => call'.slot # 0
    BY <1>1, <2>1, Ranges
  <2>3. ASSUME lapses' = {} PROVE lapses = {} /\ CallFits' /\ CallGuided'
    <3>1. lapses = {} /\ CallFits /\ CallGuided
      BY <1>3, <2>3 DEF IInv
    <3>2. CallFits'
      BY <1>2, <1>3, <2>1, <3>1 DEF CallFits
    <3>3. CallGuided'
      BY <1>2, <1>3, <2>1, <3>1 DEF CallGuided, Preparing
    <3> QED BY <3>1, <3>2, <3>3
  <2> QED BY <1>2, <1>3, <2>1, <2>2, <2>3, SlotsKept, CallKeeps
<1>4. CASE /\ slots' = [slots EXCEPT ![call.slot].open = FALSE]
           /\ call' = NoCall
           /\ UNCHANGED <<seq, d12, lapses>>
  <2>1. /\ slots' \in [Slot -> SlotType]
        /\ \A i \in Slot : slots'[i].submission = slots[i].submission /\ slots'[i].completion = slots[i].completion
    BY <1>1, <1>4 DEF SlotType
  <2> QED BY <1>2, <1>4, <2>1, IdleFits, CallKeeps
<1>5. CASE SubmitInitialization
  BY <1>1, <1>2, <1>5, InitializationKeeps DEF Preparing
<1>6. CASE InitializationUnsignalled
  BY <1>1, <1>2, <1>6, InitializationUnsignalledKeeps
<1> QED BY <1>3, <1>4, <1>5, <1>6 DEF EnsureFeature

\* The refinement feature likewise; without it the call goes on with one pass.
LEMMA EnsureRefinementKeeps == IInv /\ EnsureRefinement => IInv'
<1> SUFFICES ASSUME IInv, EnsureRefinement PROVE IInv'
  OBVIOUS
<1>1. call.slot \in Slot /\ call.limit # 0 /\ call \in CallType /\ slots \in [Slot -> SlotType] /\ slots[call.slot] \in SlotType
  BY CallSlot DEF EnsureRefinement, HasSlot
<1>2. call.pc = "refinement" /\ UNCHANGED <<plan, active, cache, d11, fence, content>>
  BY DEF EnsureRefinement
<1>3. CASE /\ slots' = [slots EXCEPT ![call.slot].open = TRUE]
           /\ call' = [call EXCEPT !.pc = "evaluate"]
           /\ UNCHANGED <<seq, d12, lapses>>
  <2>1. call' \in CallType /\ call'.limit # 0 /\ call'.slot = call.slot /\ call'.pc = "evaluate"
    BY <1>1, <1>3 DEF CallType, Places
  <2>2. /\ slots' \in [Slot -> SlotType]
        /\ \A i \in Slot : slots'[i].submission = slots[i].submission /\ slots'[i].completion = slots[i].completion
    BY <1>1, <1>3 DEF SlotType
  <2>3. HasSlot' => call'.slot # 0
    BY <1>1, <2>1, Ranges
  <2>4. ASSUME lapses' = {} PROVE lapses = {} /\ CallFits' /\ CallGuided'
    <3>1. lapses = {} /\ CallGuided
      BY <1>3, <2>4 DEF IInv
    <3>2. CallFits'
      BY <2>1 DEF CallFits
    <3>3. CallGuided'
      BY <1>2, <1>3, <2>1, <3>1 DEF CallGuided, Preparing
    <3> QED BY <3>1, <3>2, <3>3
  <2> QED BY <1>2, <1>3, <2>1, <2>2, <2>3, <2>4, CallKeeps
<1>4. CASE SubmitInitialization
  BY <1>1, <1>2, <1>4, InitializationKeeps DEF Preparing
<1>5. CASE InitializationUnsignalled
  BY <1>1, <1>2, <1>5, InitializationUnsignalledKeeps
<1> QED BY <1>3, <1>4, <1>5 DEF EnsureRefinement

\* The list with the evaluation is submitted, or evaluating it fails and the slot is abandoned.
LEMMA EvaluateSlotKeeps == IInv /\ EvaluateSlot => IInv'
<1> SUFFICES ASSUME IInv, EvaluateSlot PROVE IInv'
  OBVIOUS
<1> DEFINE i == call.slot
           v == seq.completion + 1
<1>1. i \in Slot /\ call.limit # 0 /\ call \in CallType /\ slots \in [Slot -> SlotType] /\ slots[i] \in SlotType /\ seq \in SeqType
  BY CallSlot DEF EvaluateSlot, HasSlot, IInv, Typed
<1>2. call.pc = "evaluate" /\ UNCHANGED <<plan, active, cache, d11, fence, content>>
  BY DEF EvaluateSlot
<1>3. /\ seq.completion \in Nat /\ v \in Nat /\ seq.present \in Nat /\ seq.submission \in Nat /\ seq.submission + 1 \in Nat
      /\ \A j \in Slot : slots[j].submission \in Nat /\ slots[j].submission <= seq.submission
  <2>1. seq.completion \in Nat /\ v \in Nat /\ seq.present \in Nat /\ seq.submission \in Nat /\ seq.submission + 1 \in Nat
    BY <1>1 DEF SeqType
  <2>2. \A j \in Slot : slots[j].submission \in Nat
    BY <1>1 DEF SlotType
  <2>3. \A j \in Slot : slots[j].submission <= seq.submission
    BY DEF IInv, Typed
  <2> QED BY <2>1, <2>2, <2>3
<1>4. ASSUME NEW final \in {"output", "scratch"},
              /\ d12' = d12 \o <<Evaluation(i, seq.present), Completed(v)>>
              /\ slots' = [slots EXCEPT ![i] = [@ EXCEPT !.completion = v, !.open = FALSE, !.final = final,
                                                          !.source = seq.present, !.submission = seq.submission + 1]]
              /\ seq' = [seq EXCEPT !.completion = v, !.submission = @ + 1]
              /\ call' = IF call.waits THEN Waiting(call, v, "show") ELSE NoCall
              /\ UNCHANGED lapses
      PROVE  IInv'
  <2>1. /\ seq' \in SeqType /\ seq'.completion = v /\ seq'.producer = seq.producer /\ seq'.present = seq.present
        /\ seq'.submission = seq.submission + 1
    <3>1. seq' = [seq EXCEPT !.completion = v, !.submission = seq.submission + 1]
      BY <1>4
    <3> HIDE DEF v
    <3> QED BY <1>1, <1>3, <3>1 DEF SeqType
  <2>2. /\ slots' \in [Slot -> SlotType] /\ slots'[i].completion = v /\ slots'[i].submission = seq.submission + 1
        /\ \A j \in Slot \ {i} : slots'[j] = slots[j]
    <3> DEFINE s == [slots[i] EXCEPT !.completion = v, !.open = FALSE, !.final = final,
                             !.source = seq.present, !.submission = seq.submission + 1]
    <3>1. s \in SlotType /\ s.completion = v /\ s.submission = seq.submission + 1
      BY <1>1, <1>3 DEF SlotType
    <3>2. slots' = [slots EXCEPT ![i] = s]
      BY <1>4
    <3> HIDE DEF s, v, i
    <3> QED BY <1>1, <3>1, <3>2
  <2>3. \A j \in Slot : slots'[j].submission <= seq'.submission
    BY <1>3, <2>1, <2>2
  <2>4. /\ call' \in CallType /\ (call'.pc # "idle" => call'.limit # 0)
        /\ \/ call'.slot = i /\ call'.pc = "wait" /\ call'.next # "idle" /\ call'.target = v
           \/ call' = NoCall
    <3>1. CASE call.waits
      <4>1. call' = [call EXCEPT !.pc = "wait", !.target = v, !.next = "show"]
        BY <1>4, <3>1 DEF Waiting
      <4> HIDE DEF v
      <4> QED BY <1>1, <1>3, <4>1 DEF CallType, Places
    <3>2. CASE ~call.waits
      <4>1. call' = NoCall
        BY <1>4, <3>2, Zenon
      <4> QED BY <4>1, NoCallFits
    <3> QED BY <3>1, <3>2
  <2>5. Preparing /\ \A j \in Slot \ {i} : slots'[j].completion = slots[j].completion
    BY <1>2, <2>2 DEF Preparing
  <2>6. /\ d12' = d12 \o <<Evaluation(i, seq.present), Completed(seq.completion + 1)>> /\ UNCHANGED lapses
        /\ Evaluation(i, seq.present) \in {Initialise(call.slot), Evaluation(call.slot, seq.present)}
    BY <1>4, Zenon
  <2> QED BY <1>2, <2>1, <2>2, <2>3, <2>4, <2>5, <2>6, SubmitKeeps
<1>5. CASE /\ slots' = [slots EXCEPT ![i].open = FALSE]
           /\ call' = NoCall
           /\ lapses' = Abandoned
           /\ UNCHANGED <<seq, d12>>
  <2>1. /\ slots' \in [Slot -> SlotType]
        /\ \A j \in Slot : slots'[j].submission = slots[j].submission /\ slots'[j].completion = slots[j].completion
    BY <1>1, <1>5 DEF SlotType
  <2>2. lapses' = {} => lapses = {}
    BY <1>5 DEF Abandoned
  <2> QED BY <1>2, <1>5, <2>1, <2>2, IdleFits, CallKeeps
<1>6. ASSUME NEW final \in {"output", "scratch"}, NEW barriers, SubmitUnsignalled(Evaluation(i, seq.present), barriers),
             slots' = [slots EXCEPT ![i].open = FALSE, ![i].final = final]
      PROVE  IInv'
  <2>1. /\ d12' = Append(d12, Evaluation(i, seq.present)) /\ seq' = [seq EXCEPT !.completion = @ + 1]
        /\ call' = NoCall /\ "unsignalled" \in lapses'
    BY <1>6 DEF SubmitUnsignalled
  <2>2. /\ slots' \in [Slot -> SlotType]
        /\ \A j \in Slot : slots'[j].submission = slots[j].submission /\ slots'[j].completion = slots[j].completion
    <3> HIDE DEF i
    <3> QED BY <1>1, <1>6 DEF SlotType
  <2>3. lapses' # {} /\ Evaluation(i, seq.present) \in {Initialise(i), Evaluation(i, seq.present)}
    BY <2>1
  <2> QED BY <1>1, <1>2, <2>1, <2>2, <2>3, UnsignalledKeeps
<1> QED
  <2>1. CASE /\ slots' = [slots EXCEPT ![i].open = FALSE]
             /\ call' = NoCall
             /\ lapses' = Abandoned
             /\ UNCHANGED <<seq, d12>>
    BY <1>5, <2>1
  <2>2. ASSUME NEW barriers, NEW r, NEW final \in {"output", "scratch"},
               /\ Submit(Evaluation(i, seq.present), barriers)
               /\ slots' = [slots EXCEPT ![i] = [@ EXCEPT !.completion = v, !.open = FALSE, !.final = final,
                                                     !.source = seq.present, !.submission = seq.submission + 1]]
               /\ seq' = [seq EXCEPT !.completion = v, !.submission = @ + 1]
               /\ call' = IF call.waits THEN Waiting(call, v, "show") ELSE NoCall
               /\ UNCHANGED lapses
        PROVE  IInv'
    <3>1. d12' = d12 \o <<Evaluation(i, seq.present), Completed(v)>>
      BY <2>2 DEF Submit
    <3> QED BY <1>4, <2>2, <3>1, Zenon
  <2> QED BY <1>6, <2>1, <2>2, Zenon DEF EvaluateSlot

-----------------------------------------------------------------------------
(* Recording a slot.                                                        *)

\* A wait, which is no completion and about no slot, may be appended.
LEMMA WaitFits ==
  ASSUME NEW w \in Seq(Command), NEW v \in Nat, NEW f, NEW last, NEW s
  PROVE  /\ Ordered(w, f, last) => Ordered(Append(w, AwaitProducer(v)), f, last)
         /\ Followed(w, s) => Followed(Append(w, AwaitProducer(v)), s)
<1> DEFINE y == Append(w, AwaitProducer(v))
<1>1. AwaitProducer(v) \in Command /\ AwaitProducer(v).op = "wait" /\ AwaitProducer(v).slot = 0
  BY CommandsFit DEF AwaitProducer
<1>2. /\ Len(w) \in Nat /\ DOMAIN w = 1..Len(w) /\ DOMAIN y = 1..(Len(w) + 1) /\ y[Len(w) + 1] = AwaitProducer(v)
      /\ \A p \in 1..Len(w) : y[p] = w[p]
  BY <1>1
<1> HIDE DEF y
<1>3. \A k \in DOMAIN y : y[k].op = "complete" \/ y[k].slot # 0 => k \in DOMAIN w /\ y[k] = w[k]
  BY <1>1, <1>2
<1>4. Ordered(w, f, last) => Ordered(y, f, last)
  <2> SUFFICES ASSUME Ordered(w, f, last), NEW k \in DOMAIN y, y[k].op = "complete"
               PROVE  /\ f < y[k].frame /\ y[k].frame <= last
                      /\ \A j \in 1..(k - 1) : y[j].op = "complete" => y[j].frame < y[k].frame
    BY DEF Ordered
  <2>1. k \in DOMAIN w /\ y[k] = w[k] /\ \A j \in 1..(k - 1) : y[j] = w[j]
    BY <1>2, <1>3
  <2> QED BY <2>1 DEF Ordered
<1>5. Followed(w, s) => Followed(y, s)
  <2> SUFFICES ASSUME Followed(w, s), NEW k \in DOMAIN y, y[k].slot # 0
               PROVE  k + 1 \in DOMAIN y /\ y[k + 1].op = "complete" /\ y[k + 1].frame <= s[y[k].slot].completion
    BY DEF Followed
  <2>1. k \in DOMAIN w /\ y[k] = w[k]
    BY <1>3
  <2>2. k + 1 \in DOMAIN w /\ w[k + 1].op = "complete" /\ w[k + 1].frame <= s[w[k].slot].completion
    BY <2>1 DEF Followed
  <2> QED BY <1>2, <2>1, <2>2
<1> QED BY <1>4, <1>5 DEF y

\* The guides of slot i go to the context, x, and perhaps a wait to the queue: when the queue
\* has nothing of the slot left, the other evaluations find their guides as before.
LEMMA OthersGuided ==
  ASSUME IInv, NEW i \in Slot, QueueGuided, \A k \in DOMAIN d12 : d12[k].slot # i,
         NEW x \in Seq(Command), \A p \in DOMAIN x : x[p].op = "guides" => x[p].slot = i,
         NEW z \in Seq(Command), \A p \in DOMAIN z : z[p].op # "evaluate"
  PROVE  \A k \in DOMAIN (d12 \o z) : (d12 \o z)[k].op = "evaluate" =>
            /\ Holds("guides", d11 \o x, content.guides, (d12 \o z)[k].slot, (d12 \o z)[k].frame)
            /\ Awaited("guides", d11 \o x, d12 \o z, fence.producer, (d12 \o z)[k].slot, k)
<1> DEFINE w == d12 \o z
           y == d11 \o x
<1> SUFFICES ASSUME NEW k \in DOMAIN w, w[k].op = "evaluate"
             PROVE  Holds("guides", y, content.guides, w[k].slot, w[k].frame) /\ Awaited("guides", y, w, fence.producer, w[k].slot, k)
  OBVIOUS
<1>1. d11 \in Seq(Command) /\ d12 \in Seq(Command) /\ fence.producer \in Nat
  BY DEF IInv, Typed
<1>2. k \in DOMAIN d12 /\ w[k] = d12[k] /\ k \in Nat
  BY <1>1, JoinOf
<1>3. Holds("guides", d11, content.guides, d12[k].slot, d12[k].frame) /\ Awaited("guides", d11, d12, fence.producer, d12[k].slot, k)
  BY <1>2 DEF QueueGuided
<1>4. \A p \in DOMAIN x : ~Is("guides", x[p], d12[k].slot)
  BY <1>2 DEF Is
<1>5. Holds("guides", y, content.guides, d12[k].slot, d12[k].frame)
  BY <1>1, <1>3, <1>4, HoldsAfterJoin
<1> DEFINE j == d12[k].slot
<1>6. \A p \in DOMAIN x : ~Is("guides", x[p], j)
  BY <1>4
<1>7. Awaited("guides", d11, d12, fence.producer, j, k)
  BY <1>3
<1> HIDE DEF j
<1>8. Awaited("guides", d11 \o x, d12 \o z, fence.producer, j, k)
  BY <1>1, <1>2, <1>6, <1>7, AwaitedAfterJoin, Zenon
<1> QED BY <1>2, <1>5, <1>8, Zenon DEF j

\* The commands of a hand-over, complete or not.
HandsOver(x, i, v) ==
    \A p \in DOMAIN x :
        /\ x[p].op = "guides" => x[p].slot = i
        /\ x[p].op = "signal" => x[p].frame = v
        /\ x[p].op # "cacheSlot"
LEMMA HandoverOf ==
  ASSUME NEW q \in Seq(Command), NEW i \in Slot, NEW n \in Nat, NEW v \in Nat,
         NEW y \in {Append(q, GuideCopy(i, n)), Append(Append(q, GuideCopy(i, n)), Produced(v))}
  PROVE  \E x \in Seq(Command) : y = q \o x /\ HandsOver(x, i, v)
<1>1. GuideCopy(i, n) \in Command /\ Produced(v) \in Command
  BY CommandsFit
<1>2. /\ GuideCopy(i, n).op = "guides" /\ GuideCopy(i, n).slot = i
      /\ Produced(v).op = "signal" /\ Produced(v).frame = v
  BY DEF GuideCopy, Produced
<1>3. CASE y = Append(q, GuideCopy(i, n))
  <2> DEFINE x == <<GuideCopy(i, n)>>
  <2>1. x \in Seq(Command) /\ y = q \o x
    BY <1>1, <1>3
  <2>2. HandsOver(x, i, v)
    BY <1>2 DEF HandsOver
  <2> HIDE DEF x
  <2> QED BY <2>1, <2>2, Zenon
<1>4. CASE y = Append(Append(q, GuideCopy(i, n)), Produced(v))
  <2> DEFINE x == <<GuideCopy(i, n), Produced(v)>>
  <2>1. x \in Seq(Command) /\ y = q \o x
    BY <1>1, <1>4, SMTT(20)
  <2>2. DOMAIN x = 1..2 /\ x[1] = GuideCopy(i, n) /\ x[2] = Produced(v)
    OBVIOUS
  <2> HIDE DEF x
  <2>3. HandsOver(x, i, v)
    BY <1>2, <2>2 DEF HandsOver
  <2> QED BY <2>1, <2>3, Zenon
<1> QED BY <1>3, <1>4

\* Making the slot's textures ready touches nothing the queue has still to execute: new textures
\* are made for a free slot only.
LEMMA EnsureSlotKeeps ==
  ASSUME NEW passes \in plan.passes, NEW mask \in plan.masks, IInv, EnsureSlotResources(passes, mask)
  PROVE  IInv'
<1> DEFINE i == call.slot
<1>1. /\ i \in Slot /\ call.limit # 0 /\ call \in CallType /\ slots \in [Slot -> SlotType] /\ slots[i] \in SlotType
      /\ seq \in SeqType /\ d11 \in Seq(Command) /\ d12 \in Seq(Command) /\ fence \in [producer : Nat, completion : Nat]
  BY CallSlot DEF EnsureSlotResources, HasSlot, IInv, Typed
<1>2. passes \in Nat /\ mask \in BOOLEAN
  <2>1. plan \in Plans
    BY DEF IInv, Typed
  <2>2. plan.passes \subseteq 1..4 /\ plan.masks \subseteq BOOLEAN
    BY <2>1, NgxAssumption
  <2> QED BY <2>2
<1>3. call.pc = "resources" /\ UNCHANGED <<plan, active, seq, cache, d12, fence, content>>
  BY DEF EnsureSlotResources
<1>4. /\ slots' \in [Slot -> SlotType]
      /\ \A j \in Slot : slots'[j].submission = slots[j].submission /\ slots'[j].completion = slots[j].completion
  <2>1. SlotTextures(passes, mask) \in SUBSET Textures /\ {"input", "output"} \in SUBSET Textures
    BY DEF SlotTextures, Textures
  <2>2. \/ slots' = slots
        \/ \E some \in SUBSET Textures : slots' = [slots EXCEPT ![i].textures = some]
        \/ \E some \in SUBSET Textures : slots' = [slots EXCEPT ![i].textures = some, ![i].final = "output"]
    BY <2>1, Zenon DEF EnsureSlotResources
  <2> HIDE DEF i
  <2>3. CASE slots' = slots
    BY <1>1, <2>3
  <2>4. ASSUME NEW some \in SUBSET Textures, slots' = [slots EXCEPT ![i].textures = some] 
        PROVE  /\ slots' \in [Slot -> SlotType]
               /\ \A j \in Slot : slots'[j].submission = slots[j].submission /\ slots'[j].completion = slots[j].completion
    BY <1>1, <2>4 DEF SlotType
  <2>5. ASSUME NEW some \in SUBSET Textures, slots' = [slots EXCEPT ![i].textures = some, ![i].final = "output"] 
        PROVE  /\ slots' \in [Slot -> SlotType]
               /\ \A j \in Slot : slots'[j].submission = slots[j].submission /\ slots'[j].completion = slots[j].completion
    BY <1>1, <2>5 DEF SlotType
  <2> QED BY <2>2, <2>3, <2>4, <2>5
<1>5. /\ call' \in CallType /\ (call'.pc # "idle" => call'.limit # 0)
      /\ \/ call'.pc = "record" /\ call'.slot = i
         \/ call' = NoCall
  <2>1. CASE call' = [call EXCEPT !.pc = "record", !.passes = passes, !.mask = mask]
    BY <1>1, <1>2, <2>1 DEF CallType, Places
  <2>2. CASE call' = NoCall
    BY <2>2, NoCallFits
  <2> QED BY <2>1, <2>2 DEF EnsureSlotResources
<1>6. (HasSlot' => call'.slot # 0) /\ (call'.pc \in {"wait", "armed"} => call'.next # "idle")
  BY <1>1, <1>5, Ranges, NoCallFits DEF HasSlot
<1>7. ASSUME lapses = {} PROVE CallFits' /\ CallGuided'
  <2>1. CallFits
    BY <1>7 DEF IInv
  <2>2. slots'[i].completion <= fence'.completion
    BY <1>1, <1>3, <1>4, <2>1 DEF CallFits
  <2>3. CASE call'.pc = "record" /\ call'.slot = i
    BY <2>2, <2>3 DEF CallFits, CallGuided, Preparing
  <2>4. CASE call' = NoCall
    BY <2>4, NoCallFits DEF CallFits, CallGuided, Preparing
  <2> QED BY <1>5, <2>3, <2>4
<1>8. CASE UNCHANGED <<d11, lapses>>
  BY <1>3, <1>4, <1>5, <1>6, <1>7, <1>8, CallKeeps
<1>9. CASE d11' = Append(d11, Remade(i)) /\ slots[i].completion <= fence.completion /\ lapses' = DropsOutput(i)
  <2> DEFINE x == <<Remade(i)>>
             z == <<>>
  <2>1. Remade(i) \in Command /\ Remade(i).op = "guides" /\ Remade(i).slot = i
    <3>1. GuideCopy(i, 0) \in Command
      BY <1>1, CommandsFit
    <3> QED BY <3>1 DEF Remade, GuideCopy
  <2>2. /\ x \in Seq(Command) /\ d11' = d11 \o x /\ d11' \in Seq(Command)
        /\ \A p \in DOMAIN x : x[p].op = "guides" /\ x[p].slot = i
        /\ z \in Seq(Command) /\ d12 = d12 \o z /\ \A p \in DOMAIN z : z[p].op # "evaluate"
    <3> DEFINE c == Remade(i)
    <3>1. c \in Command /\ c.op = "guides" /\ c.slot = i /\ d11' = Append(d11, c) /\ x = <<c>>
      BY <1>9, <2>1
    <3> HIDE DEF c, x
    <3> QED BY <1>1, <3>1
  <2> HIDE DEF x, z
  <2>3. lapses' = {} => lapses = {}
    BY <1>9 DEF DropsOutput
  <2>4. Typed'
    BY <1>3, <1>4, <1>5, <2>2 DEF IInv, Typed
  <2>5. Bounds'
    <3>1. ASSUME NEW p \in DOMAIN d11'
          PROVE  (d11'[p].op = "signal" => d11'[p].frame <= seq.producer) /\ (d11'[p].op = "cacheSlot" => d11'[p].slot # 0)
      <4>1. CASE p \in DOMAIN d11
        <5>1. d11'[p] = d11[p]
          BY <1>1, <2>2, <4>1, JoinOf
        <5> QED BY <4>1, <5>1 DEF IInv, Bounds
      <4>2. CASE p \notin DOMAIN d11
        <5>1. d11'[p].op = "guides"
          BY <1>1, <2>2, <4>2, JoinOf
        <5> QED BY <5>1
      <4> QED BY <4>1, <4>2
    <3> QED BY <1>3, <1>4, <3>1 DEF IInv, Bounds
  <2>6. ASSUME lapses' = {} PROVE Followed(d12, slots') /\ QueueGuided'
    <3>1. Followed(d12, slots) /\ QueueGuided
      BY <2>3, <2>6 DEF IInv
    <3>2. Followed(d12, slots')
      BY <1>1, <1>4, <3>1, FollowedSame
    <3>3. \A k \in DOMAIN d12 : d12[k].slot # i
      <4>1. /\ Ordered(d12, fence.completion, seq.completion) /\ seq.completion \in Nat /\ fence.completion \in Nat
            /\ slots[i].completion <= fence.completion
        BY <1>1, <1>9 DEF IInv, SeqType
      <4> QED BY <1>1, <3>1, <4>1, NothingLeft
    <3>4. \A k \in DOMAIN (d12 \o z) : (d12 \o z)[k].op = "evaluate" =>
            /\ Holds("guides", d11 \o x, content.guides, (d12 \o z)[k].slot, (d12 \o z)[k].frame)
            /\ Awaited("guides", d11 \o x, d12 \o z, fence.producer, (d12 \o z)[k].slot, k)
      <4>1. i \in Slot /\ \A p \in DOMAIN x : x[p].op = "guides" => x[p].slot = i
        BY <1>1, <2>2
      <4> HIDE DEF i
      <4> QED BY <2>2, <3>1, <3>3, <4>1, OthersGuided, Zenon
    <3>5. QueueGuided'
      BY <1>3, <2>2, <3>4 DEF QueueGuided
    <3> QED BY <3>2, <3>5
  <2> QED BY <1>3, <1>6, <1>7, <2>3, <2>4, <2>5, <2>6 DEF IInv
<1> QED BY <1>8, <1>9 DEF EnsureSlotResources

\* A free slot's guides are copied, its list is opened, and the queue told to wait for the copies;
\* a hand-over that fails leaves the list open and the queue uninformed.
LEMMA RecordKeeps == IInv /\ Record => IInv'
<1> SUFFICES ASSUME IInv, Record PROVE IInv'
  OBVIOUS
<1> DEFINE i == call.slot
           n == seq.present
           v == seq.producer + 1
           copied == Append(d11, GuideCopy(i, n))
<1>1. /\ i \in Slot /\ call.limit # 0 /\ call \in CallType /\ slots \in [Slot -> SlotType] /\ slots[i] \in SlotType
      /\ seq \in SeqType /\ d11 \in Seq(Command) /\ d12 \in Seq(Command) /\ fence \in [producer : Nat, completion : Nat]
      /\ fence.producer <= seq.producer
  BY CallSlot DEF Record, HasSlot, IInv, Typed, Bounds
<1>2. n \in Nat /\ v \in Nat /\ seq.producer \in Nat /\ fence.producer \in Nat /\ fence.completion \in Nat
  BY <1>1 DEF SeqType
<1>3. call.mask \in BOOLEAN
  BY <1>1 DEF CallType
<1>4. call.pc = "record" /\ UNCHANGED <<plan, active, cache, fence, content, lapses>>
  BY DEF Record
<1>6. CASE call' = NoCall /\ UNCHANGED <<slots, seq, d11, d12>>
  BY <1>4, <1>6, SlotsKept, IdleFits, CallKeeps
<1>8. CASE /\ slots' = [slots EXCEPT ![i].open = TRUE]
           /\ seq' = [seq EXCEPT !.producer = v]
           /\ \/ /\ d11' = Append(copied, Produced(v))
                 /\ d12' = Append(d12, AwaitProducer(v))
                 /\ call' = [call EXCEPT !.pc = "feature", !.recorded = TransitionInitial(call.mask)]
              \/ /\ d11' \in {copied, Append(copied, Produced(v))}
                 /\ call' = NoCall
                 /\ UNCHANGED d12
  <2>1. /\ slots' \in [Slot -> SlotType] /\ slots'[i].open
        /\ \A j \in Slot : slots'[j].submission = slots[j].submission /\ slots'[j].completion = slots[j].completion
    <3> HIDE DEF i
    <3> QED BY <1>1, <1>8 DEF SlotType
  <2>2. /\ seq' \in SeqType /\ seq'.producer = v /\ seq'.completion = seq.completion /\ seq'.submission = seq.submission
        /\ seq'.present = n
    <3> HIDE DEF v
    <3> QED BY <1>1, <1>2, <1>8 DEF SeqType
  <2>3. PICK x \in Seq(Command) : d11' = d11 \o x /\ HandsOver(x, i, v)
    <3>1. d11' \in {Append(d11, GuideCopy(i, n)), Append(Append(d11, GuideCopy(i, n)), Produced(v))}
      BY <1>8
    <3> DEFINE y == d11'
    <3>2. y \in {Append(d11, GuideCopy(i, n)), Append(Append(d11, GuideCopy(i, n)), Produced(v))}
      BY <3>1
    <3>3. d11 \in Seq(Command) /\ i \in Slot /\ n \in Nat /\ v \in Nat
      BY <1>1, <1>2
    <3> HIDE DEF y, i, n, v, copied
    <3>4. \E x \in Seq(Command) : y = d11 \o x /\ HandsOver(x, i, v)
      BY <3>2, <3>3, HandoverOf, Zenon
    <3> QED BY <3>4, Zenon DEF y
  <2>4. PICK z \in Seq(Command) :
            /\ d12' = d12 \o z
            /\ \A p \in DOMAIN z : z[p].op # "evaluate"
    <3> DEFINE z == IF d12' = d12 THEN <<>> ELSE <<AwaitProducer(v)>>
    <3>1. AwaitProducer(v) \in Command /\ AwaitProducer(v).op = "wait"
      BY <1>2, CommandsFit DEF AwaitProducer
    <3>2. d12' = d12 \/ d12' = Append(d12, AwaitProducer(v))
      BY <1>8
    <3>3. z \in Seq(Command) /\ (\A p \in DOMAIN z : z[p].op # "evaluate") /\ d12' = d12 \o z
      <4>1. CASE d12' = d12
        BY <1>1, <4>1
      <4>2. CASE d12' # d12
        <5> DEFINE w == AwaitProducer(v)
        <5>1. z = <<w>> /\ d12' = Append(d12, w) /\ w \in Command /\ w.op = "wait"
          BY <3>1, <3>2, <4>2
        <5> HIDE DEF w, z
        <5> QED BY <1>1, <5>1
      <4> QED BY <4>1, <4>2
    <3> HIDE DEF z
    <3> QED BY <3>3, Zenon
  <2>5. /\ call' \in CallType /\ (call'.pc # "idle" => call'.limit # 0)
        /\ \/ call'.pc = "feature" /\ call'.slot = i
           \/ call' = NoCall
    <3>1. CASE call' = [call EXCEPT !.pc = "feature", !.recorded = TransitionInitial(call.mask)]
      <4>1. TransitionInitial(call.mask) \in {<<>>, TransitionInitial(TRUE), TransitionInitial(FALSE)}
        BY <1>3
      <4> QED BY <1>1, <1>3, <3>1, <4>1 DEF CallType, Places
    <3>2. CASE call' = NoCall
      BY <3>2, NoCallFits
    <3> QED BY <1>8, <3>1, <3>2
  <2>6. d11' \in Seq(Command) /\ d12' \in Seq(Command)
    BY <1>1, <2>3, <2>4, JoinOf
  <2>7. Typed'
    BY <1>4, <2>1, <2>2, <2>5, <2>6 DEF IInv, Typed
  <2>8. Bounds'
    <3>1. ASSUME NEW p \in DOMAIN d11'
          PROVE  (d11'[p].op = "signal" => d11'[p].frame <= v) /\ (d11'[p].op = "cacheSlot" => d11'[p].slot # 0)
      <4>1. CASE p \in DOMAIN d11
        <5>1. d11'[p] = d11[p] /\ d11[p] \in Command
          BY <1>1, <2>3, <4>1, JoinOf
        <5>2. (d11[p].op = "signal" => d11[p].frame <= seq.producer) /\ (d11[p].op = "cacheSlot" => d11[p].slot # 0)
          BY <4>1 DEF IInv, Bounds
        <5>3. d11[p].frame \in Nat
          BY <5>1 DEF Command
        <5> QED BY <1>2, <5>1, <5>2, <5>3
      <4>2. CASE p \notin DOMAIN d11
        <5>1. p - Len(d11) \in DOMAIN x /\ d11'[p] = x[p - Len(d11)]
          BY <1>1, <2>3, <4>2, JoinOf
        <5> DEFINE m == p - Len(d11)
        <5>2. m \in DOMAIN x /\ d11'[p] = x[m]
          BY <5>1
        <5> HIDE DEF m
        <5>3. (x[m].op = "signal" => x[m].frame = v) /\ x[m].op # "cacheSlot"
          BY <2>3, <5>2 DEF HandsOver
        <5> QED BY <1>2, <5>2, <5>3
      <4> QED BY <4>1, <4>2
    <3>2. ASSUME NEW k \in DOMAIN d12', d12'[k].op = "evaluate" PROVE d12'[k].slot # 0
      <4>1. k \in DOMAIN d12 /\ d12'[k] = d12[k]
        <5>1. k \in DOMAIN d12 \/ (k - Len(d12) \in DOMAIN z /\ d12'[k] = z[k - Len(d12)])
          BY <1>1, <2>4, JoinOf
        <5>2. k \in DOMAIN d12
          BY <2>4, <3>2, <5>1
        <5> QED BY <1>1, <2>4, <5>2, JoinOf
      <4> QED BY <3>2, <4>1 DEF IInv, Bounds
    <3>3. fence.completion <= seq.completion /\ fence.producer <= v /\ \A j \in Slot : slots[j].completion <= seq.completion
      BY <1>1, <1>2 DEF IInv, Bounds
    <3> QED BY <1>4, <2>1, <2>2, <3>1, <3>2, <3>3 DEF Bounds
  <2>9. (HasSlot' => call'.slot # 0) /\ (call'.pc \in {"wait", "armed"} => call'.next # "idle")
    BY <1>1, <2>5, Ranges, NoCallFits DEF HasSlot
  <2>10. Ordered(d12', fence.completion, seq'.completion)
    <3>1. Ordered(d12, fence.completion, seq.completion)
      BY DEF IInv
    <3>2. CASE d12' = d12
      BY <2>2, <3>1, <3>2
    <3>3. CASE d12' = Append(d12, AwaitProducer(v))
      BY <1>1, <1>2, <2>2, <3>1, <3>3, WaitFits
    <3> QED BY <1>8, <3>2, <3>3
  <2>11. ASSUME lapses' = {} PROVE Followed(d12', slots') /\ CallFits' /\ QueueGuided' /\ CallGuided'
    <3>1. Followed(d12, slots) /\ CallFits /\ QueueGuided
      BY <1>4, <2>11 DEF IInv
    <3>2. \A k \in DOMAIN d12 : d12[k].slot # i
      <4>1. slots[i].completion <= fence.completion /\ Ordered(d12, fence.completion, seq.completion) /\ seq.completion \in Nat
        BY <1>1, <1>4, <3>1 DEF CallFits, IInv, SeqType
      <4> QED BY <1>1, <1>2, <3>1, <4>1, NothingLeft
    <3>3. Followed(d12', slots')
      <4>1. Followed(d12, slots')
        BY <1>1, <2>1, <3>1, FollowedSame
      <4>2. CASE d12' = d12
        BY <4>1, <4>2
      <4>3. CASE d12' = Append(d12, AwaitProducer(v))
        <5>1. Followed(Append(d12, AwaitProducer(v)), slots')
          BY <1>1, <1>2, <4>1, WaitFits
        <5> QED BY <4>3, <5>1
      <4> QED BY <1>8, <4>2, <4>3
    <3>4. CallFits'
      BY <2>1, <2>5, NoCallFits DEF CallFits
    <3>5. QueueGuided'
      <4>1. \A k \in DOMAIN (d12 \o z) : (d12 \o z)[k].op = "evaluate" =>
              /\ Holds("guides", d11 \o x, content.guides, (d12 \o z)[k].slot, (d12 \o z)[k].frame)
              /\ Awaited("guides", d11 \o x, d12 \o z, fence.producer, (d12 \o z)[k].slot, k)
        <5>1. \A p \in DOMAIN x : x[p].op = "guides" => x[p].slot = i
          BY <2>3 DEF HandsOver
        <5>2. i \in Slot /\ QueueGuided /\ \A p \in DOMAIN z : z[p].op # "evaluate"
          BY <1>1, <2>4, <3>1
        <5> HIDE DEF i
        <5> QED BY <3>2, <5>1, <5>2, OthersGuided, Zenon
      <4> QED BY <1>4, <2>3, <2>4, <4>1 DEF QueueGuided
    <3>6. CallGuided'
      <4>1. CASE call' = NoCall
        BY <4>1, IdleFits
      <4>2. CASE /\ d11' = Append(copied, Produced(v))
                 /\ d12' = Append(d12, AwaitProducer(v))
                 /\ call' = [call EXCEPT !.pc = "feature", !.recorded = TransitionInitial(call.mask)]
        <5>1. call'.slot = i
          BY <2>5, <4>2, NoCallFits DEF NoCall
        <5>2. Holds("guides", copied, content.guides, i, n)
          BY <1>1, <1>2, CopiedHolds
        <5>3. copied \in Seq(Command) /\ Produced(v) \in Command /\ Produced(v).op = "signal"
          <6>1. GuideCopy(i, n) \in Command /\ Produced(v) \in Command
            BY <1>1, <1>2, CommandsFit
          <6> QED BY <1>1, <6>1 DEF Produced
        <5>4. Holds("guides", Append(copied, Produced(v)), content.guides, i, n)
          <6> DEFINE q == copied
                     y == <<Produced(v)>>
          <6>1. q \in Seq(Command) /\ y \in Seq(Command) /\ Append(q, Produced(v)) = q \o y /\ Holds("guides", q, content.guides, i, n)
            BY <5>2, <5>3
          <6>2. \A p \in DOMAIN y : ~Is("guides", y[p], i)
            BY <5>3 DEF Is
          <6> HIDE DEF q, y
          <6>3. Holds("guides", q \o y, content.guides, i, n)
            BY <6>1, <6>2, HoldsAfterJoin
          <6> QED BY <6>1, <6>3, Zenon DEF q
        <5>5. Awaited("guides", Append(copied, Produced(v)), Append(d12, AwaitProducer(v)), fence.producer, i, Len(d12) + 2)
          <6>1. \A p \in DOMAIN d11 : d11[p].op = "signal" => d11[p].frame < v
            <7> SUFFICES ASSUME NEW p \in DOMAIN d11, d11[p].op = "signal" PROVE d11[p].frame < v
              OBVIOUS
            <7>1. d11[p] \in Command /\ d11[p].frame <= seq.producer
              BY <1>1 DEF IInv, Bounds
            <7>2. d11[p].frame \in Nat
              BY <7>1 DEF Command
            <7> QED BY <1>2, <7>1, <7>2
          <6>2. fence.producer < v
            BY <1>1, <1>2
          <6> HIDE DEF v, n, i
          <6> QED BY <1>1, <1>2, <6>1, <6>2, HandedOver
        <5>6. Len(d12') + 1 = Len(d12) + 2
          BY <1>1, <1>2, <4>2, CommandsFit
        <5>7. Holds("guides", d11', content.guides, i, n) /\ Awaited("guides", d11', d12', fence.producer, i, Len(d12') + 1)
          BY <4>2, <5>4, <5>5, <5>6
        <5> QED BY <1>4, <2>2, <5>1, <5>7 DEF CallGuided
      <4> QED BY <1>8, <4>1, <4>2
    <3> QED BY <3>3, <3>4, <3>5, <3>6
  <2> QED BY <1>4, <2>7, <2>8, <2>9, <2>10, <2>11 DEF IInv
<1> QED BY <1>4, <1>6, <1>8 DEF Record

-----------------------------------------------------------------------------
(* shutdown, and the steps of the GPU.                                      *)

\* Everything is given back; what the context has still to show copies no guides.
LEMMA ShutdownKeeps == IInv /\ Shutdown => IInv'
<1> SUFFICES ASSUME IInv, Shutdown PROVE IInv'
  OBVIOUS
<1>1. d11 \in Seq(Command) /\ seq \in SeqType /\ call \in CallType /\ plan \in Plans /\ content \in ContentType
  BY DEF IInv, Typed
<1>2. /\ call.pc = "idle" /\ call' = call /\ plan' = plan /\ content' = content /\ d12' = <<>>
      /\ slots' = [i \in Slot |-> FreshSlot] /\ active' = InitialFrameSlots /\ cache' = NoCache
      /\ seq' = [FreshSeq EXCEPT !.present = seq.present] /\ fence' = [producer |-> 0, completion |-> 0]
      /\ d11' = [k \in DOMAIN d11 |-> IF d11[k].op \in {"showSlot", "showCache", "cacheSlot"} THEN d11[k] ELSE Void]
  BY DEF Shutdown
<1>3. seq' \in SeqType /\ seq'.completion = 0 /\ seq'.producer = 0 /\ seq'.submission = 0
  <2>1. seq.present \in Nat
    BY <1>1 DEF SeqType
  <2>2. FreshSeq \in SeqType /\ FreshSeq.completion = 0 /\ FreshSeq.producer = 0 /\ FreshSeq.submission = 0
    BY DEF FreshSeq, SeqType
  <2> QED BY <1>2, <2>1, <2>2 DEF SeqType
<1>4. \A i \in Slot : slots'[i] \in SlotType /\ slots'[i].completion = 0 /\ slots'[i].submission = 0
  BY <1>2 DEF FreshSlot, SlotType
<1>5. /\ d11' \in Seq(Command)
      /\ \A p \in DOMAIN d11' : d11'[p].op # "signal" /\ (d11'[p].op = "cacheSlot" => d11'[p].slot # 0)
  <2>1. Len(d11) \in Nat /\ DOMAIN d11 = 1..Len(d11) /\ \A k \in 1..Len(d11) : d11[k] \in Command
    BY <1>1
  <2>2. Void \in Command /\ Void.op = "void"
    BY CommandsFit DEF Void
  <2>3. \A k \in 1..Len(d11) : d11'[k] = IF d11[k].op \in {"showSlot", "showCache", "cacheSlot"} THEN d11[k] ELSE Void
    BY <1>2, <2>1
  <2>4. \A k \in 1..Len(d11) : d11'[k] \in Command
    BY <2>1, <2>2, <2>3
  <2>5. DOMAIN d11' = 1..Len(d11) /\ d11' = [k \in 1..Len(d11) |-> d11'[k]]
    BY <1>2, <2>1
  <2>6. d11' \in Seq(Command)
    BY <2>1, <2>4, <2>5
  <2>7. \A p \in DOMAIN d11 : d11[p].op = "cacheSlot" => d11[p].slot # 0
    BY DEF IInv, Bounds
  <2> QED BY <2>1, <2>2, <2>3, <2>5, <2>6, <2>7
<1>6. Typed'
  <2>1. slots' \in [Slot -> SlotType]
    BY <1>2, <1>4
  <2>2. cache' \in CacheType /\ fence' \in [producer : Nat, completion : Nat] /\ d12' \in Seq(Command)
    BY <1>2 DEF NoCache, CacheType
  <2>3. active' \in Slot
    BY <1>2, Ranges
  <2> QED BY <1>1, <1>2, <1>3, <1>4, <1>5, <2>1, <2>2, <2>3 DEF Typed
<1>7. Bounds'
  BY <1>2, <1>3, <1>4, <1>5 DEF Bounds
<1>8. ~HasSlot' /\ ~Preparing' /\ call'.pc = "idle"
  BY <1>2 DEF HasSlot, Preparing
<1>9. Ordered(d12', fence'.completion, seq'.completion) /\ Followed(d12', slots') /\ QueueGuided'
  BY <1>2 DEF Ordered, Followed, QueueGuided
<1>10. CallFits' /\ CallGuided'
  BY <1>8 DEF CallFits, CallGuided
<1> QED BY <1>6, <1>7, <1>8, <1>9, <1>10 DEF IInv

\* The context executes a command.
LEMMA ContextKeeps == IInv /\ ContextStep => IInv'
<1> SUFFICES ASSUME IInv, ContextStep PROVE IInv'
  OBVIOUS
<1> DEFINE c == Head(d11)
           f == IF c.op = "signal" THEN c.frame ELSE fence.producer
           g == IF c.op = "guides" THEN [content.guides EXCEPT ![c.slot] = c.frame] ELSE content.guides
<1>1. /\ d11 \in Seq(Command) /\ d12 \in Seq(Command) /\ d11 # <<>> /\ fence \in [producer : Nat, completion : Nat]
      /\ content \in ContentType /\ slots \in [Slot -> SlotType] /\ seq \in SeqType
  BY DEF IInv, Typed, ContextStep
<1>2. /\ d11' = Tail(d11) /\ fence' = IF c.op = "signal" THEN [fence EXCEPT !.producer = c.frame] ELSE fence
      /\ content' = IF c.op = "guides"
                    THEN [content EXCEPT !.guides[c.slot] = c.frame, !.output[c.slot] = IF c.frame = 0 THEN 0 ELSE @]
                    ELSE IF c.op = "cacheSlot" THEN [content EXCEPT !.cache = content.output[c.slot]]
                    ELSE IF c.op = "resetCache" THEN [content EXCEPT !.cache = 0]
                    ELSE content
      /\ UNCHANGED <<plan, slots, active, seq, cache, call, d12, lapses>>
  BY DEF ContextStep
<1>3. /\ c = d11[1] /\ c \in Command /\ 1 \in DOMAIN d11 /\ Tail(d11) \in Seq(Command)
      /\ \A p \in DOMAIN Tail(d11) : p + 1 \in DOMAIN d11 /\ Tail(d11)[p] = d11[p + 1]
  BY <1>1, TailOf
<1>4. c.frame \in Nat /\ c.slot \in Slot \cup {0} /\ (c.op = "signal" => c.frame <= seq.producer) /\ (c.op = "cacheSlot" => c.slot # 0)
  BY <1>3 DEF Command, IInv, Bounds
<1>5. content.guides \in [Slot -> Nat] /\ content.output \in [Slot -> Nat] /\ content.cache \in Nat
  BY <1>1 DEF ContentType
<1> HIDE DEF c
<1>6. fence' \in [producer : Nat, completion : Nat] /\ fence'.producer = f /\ fence'.completion = fence.completion
  BY <1>1, <1>2, <1>4
<1>7. content' \in ContentType /\ content'.guides = g
  <2>1. CASE c.op = "guides"
    <3> DEFINE o == [content.output EXCEPT ![c.slot] = IF c.frame = 0 THEN 0 ELSE @]
    <3>1. g \in [Slot -> Nat] /\ o \in [Slot -> Nat]
      BY <1>4, <1>5, <2>1
    <3>2. content' = [content EXCEPT !.guides = g, !.output = o]
      BY <1>2, <2>1
    <3> HIDE DEF g, o
    <3> QED BY <1>1, <3>1, <3>2 DEF ContentType
  <2>2. CASE c.op = "cacheSlot"
    <3>1. content.output[c.slot] \in Nat
      BY <1>4, <1>5, <2>2
    <3>2. content' = [content EXCEPT !.cache = content.output[c.slot]] /\ g = content.guides
      BY <1>2, <2>2
    <3> HIDE DEF g
    <3> QED BY <1>1, <3>1, <3>2 DEF ContentType
  <2>3. CASE c.op = "resetCache"
    <3>1. content' = [content EXCEPT !.cache = 0] /\ g = content.guides
      BY <1>2, <2>3
    <3> HIDE DEF g
    <3> QED BY <1>1, <3>1 DEF ContentType
  <2>4. CASE c.op \notin {"guides", "cacheSlot", "resetCache"}
    BY <1>1, <1>2, <2>4
  <2> QED BY <2>1, <2>2, <2>3, <2>4
<1>8. Typed'
  BY <1>2, <1>3, <1>6, <1>7 DEF IInv, Typed
<1>9. Bounds'
  <2>1. ASSUME NEW p \in DOMAIN d11'
        PROVE  (d11'[p].op = "signal" => d11'[p].frame <= seq.producer) /\ (d11'[p].op = "cacheSlot" => d11'[p].slot # 0)
    <3>1. p + 1 \in DOMAIN d11 /\ d11'[p] = d11[p + 1]
      BY <1>2, <1>3
    <3> QED BY <3>1 DEF IInv, Bounds
  <2>2. fence.completion <= seq.completion /\ f <= seq.producer
    BY <1>4 DEF IInv, Bounds
  <2> QED BY <1>2, <1>6, <2>1, <2>2 DEF IInv, Bounds
<1>10. /\ HasSlot' => call'.slot # 0
       /\ call'.pc \in {"wait", "armed"} => call'.next # "idle"
       /\ Ordered(d12', fence'.completion, seq'.completion)
  BY <1>2, <1>6 DEF IInv, HasSlot
<1>11. ASSUME NEW j \in Slot, NEW n, NEW k \in Nat, Holds("guides", d11, content.guides, j, n), Awaited("guides", d11, d12, fence.producer, j, k)
       PROVE  Holds("guides", d11', content'.guides, j, n) /\ Awaited("guides", d11', d12, fence'.producer, j, k)
  <2>1. Holds("guides", d11', g, j, n)
    BY <1>1, <1>2, <1>5, <1>11, HoldsAfterTail DEF c
  <2>2. fence.producer \in Nat
    BY <1>1
  <2>3. Awaited("guides", d11', d12, f, j, k)
    BY <1>1, <1>2, <1>11, <2>2, AwaitedAfterContext DEF c
  <2> QED BY <1>6, <1>7, <2>1, <2>3
<1> HIDE DEF f, g
<1>12. ASSUME lapses' = {} PROVE Followed(d12', slots') /\ CallFits' /\ QueueGuided' /\ CallGuided'
  <2>1. Followed(d12, slots) /\ CallFits /\ QueueGuided /\ CallGuided
    BY <1>2, <1>12 DEF IInv
  <2>2. CallFits'
    BY <1>2, <1>6, <2>1 DEF CallFits
  <2>3. QueueGuided'
    <3>1. ASSUME NEW k \in DOMAIN d12, d12[k].op = "evaluate"
          PROVE  /\ Holds("guides", d11', content'.guides, d12[k].slot, d12[k].frame)
                 /\ Awaited("guides", d11', d12, fence'.producer, d12[k].slot, k)
      <4>1. d12[k] \in Command /\ d12[k].slot # 0 /\ k \in Nat
        BY <1>1, <3>1 DEF IInv, Bounds
      <4>2. d12[k].slot \in Slot
        BY <4>1 DEF Command
      <4> QED BY <1>11, <2>1, <3>1, <4>1, <4>2 DEF QueueGuided
    <3> QED BY <1>2, <3>1 DEF QueueGuided
  <2>4. CallGuided'
    <3>1. CASE Preparing
      <4>1. call.slot \in Slot /\ Len(d12) + 1 \in Nat
        BY <1>1, <3>1, CallSlot DEF Preparing, HasSlot
      <4>2. Holds("guides", d11', content'.guides, call.slot, seq.present) /\ Awaited("guides", d11', d12, fence'.producer, call.slot, Len(d12) + 1)
        BY <1>11, <2>1, <3>1, <4>1 DEF CallGuided
      <4> QED BY <1>2, <4>2 DEF CallGuided
    <3>2. CASE ~Preparing
      BY <1>2, <3>2 DEF CallGuided, Preparing
    <3> QED BY <3>1, <3>2
  <2> QED BY <1>2, <2>1, <2>2, <2>3, <2>4
<1> QED BY <1>8, <1>9, <1>10, <1>12 DEF IInv

\* The queue executes a command.
LEMMA QueueKeeps == IInv /\ QueueStep => IInv'
<1> SUFFICES ASSUME IInv, QueueStep PROVE IInv'
  OBVIOUS
<1> DEFINE c == Head(d12)
           f == IF c.op = "complete" THEN c.frame ELSE fence.completion
<1>1. /\ d11 \in Seq(Command) /\ d12 \in Seq(Command) /\ d12 # <<>> /\ fence \in [producer : Nat, completion : Nat]
      /\ content \in ContentType /\ slots \in [Slot -> SlotType] /\ seq \in SeqType /\ call \in CallType
  BY DEF IInv, Typed, QueueStep
<1>2. /\ d12' = Tail(d12) /\ fence' = IF c.op = "complete" THEN [fence EXCEPT !.completion = c.frame] ELSE fence
      /\ content' = IF c.op = "evaluate" THEN [content EXCEPT !.output[c.slot] = content.guides[c.slot]] ELSE content
      /\ c.op = "wait" => fence.producer >= c.frame
      /\ UNCHANGED <<plan, slots, active, seq, cache, call, d11, lapses>>
  BY DEF QueueStep
<1>3. /\ c = d12[1] /\ c \in Command /\ 1 \in DOMAIN d12 /\ Tail(d12) \in Seq(Command) /\ Len(d12) \in Nat \ {0}
      /\ DOMAIN Tail(d12) = 1..(Len(d12) - 1)
      /\ \A p \in DOMAIN Tail(d12) : p + 1 \in DOMAIN d12 /\ Tail(d12)[p] = d12[p + 1]
  BY <1>1, TailOf
<1>4. /\ c.frame \in Nat /\ c.slot \in Slot \cup {0} /\ (c.op = "evaluate" => c.slot # 0)
      /\ fence.completion \in Nat /\ fence.producer \in Nat /\ seq.completion \in Nat
  <2>1. c.frame \in Nat /\ c.slot \in Slot \cup {0}
    BY <1>3 DEF Command
  <2>2. c.op = "evaluate" => c.slot # 0
    BY <1>3 DEF IInv, Bounds
  <2>3. fence.completion \in Nat /\ fence.producer \in Nat /\ seq.completion \in Nat
    BY <1>1 DEF SeqType
  <2> QED BY <2>1, <2>2, <2>3
<1>5. Ordered(d12', f, seq.completion)
  BY <1>1, <1>2, <1>4, OrderedAfterTail DEF IInv
<1>6. f \in Nat /\ fence.completion <= f /\ f <= seq.completion
  <2>1. c.op = "complete" => fence.completion < c.frame /\ c.frame <= seq.completion
    BY <1>3 DEF IInv, Ordered
  <2>2. fence.completion <= seq.completion
    BY DEF IInv, Bounds
  <2> QED BY <1>4, <2>1, <2>2
<1> HIDE DEF c
<1>7. fence' \in [producer : Nat, completion : Nat] /\ fence'.producer = fence.producer /\ fence'.completion = f
  BY <1>1, <1>2, <1>4
<1>8. content' \in ContentType /\ content'.guides = content.guides
  <2>1. CASE c.op = "evaluate"
    <3> DEFINE o == [content.output EXCEPT ![c.slot] = content.guides[c.slot]]
    <3>1. content.guides \in [Slot -> Nat] /\ content.output \in [Slot -> Nat]
      BY <1>1 DEF ContentType
    <3>2. o \in [Slot -> Nat]
      BY <1>4, <2>1, <3>1
    <3>3. content' = [content EXCEPT !.output = o]
      BY <1>2, <2>1
    <3> HIDE DEF o
    <3> QED BY <1>1, <3>2, <3>3 DEF ContentType
  <2>2. CASE c.op # "evaluate"
    BY <1>1, <1>2, <2>2
  <2> QED BY <2>1, <2>2
<1> HIDE DEF f
<1>9. Typed'
  BY <1>2, <1>3, <1>7, <1>8 DEF IInv, Typed
<1>10. Bounds'
  <2>1. ASSUME NEW k \in DOMAIN d12', d12'[k].op = "evaluate" PROVE d12'[k].slot # 0
    <3>1. k + 1 \in DOMAIN d12 /\ d12'[k] = d12[k + 1]
      BY <1>2, <1>3
    <3> QED BY <2>1, <3>1 DEF IInv, Bounds
  <2> QED BY <1>2, <1>6, <1>7, <2>1 DEF IInv, Bounds
<1>11. (HasSlot' => call'.slot # 0) /\ (call'.pc \in {"wait", "armed"} => call'.next # "idle")
  BY <1>2 DEF IInv, HasSlot
<1>12. ASSUME NEW j, NEW k \in Nat, Awaited("guides", d11, d12, fence.producer, j, k + 1)
       PROVE  Awaited("guides", d11, d12', fence.producer, j, k)
  BY <1>1, <1>2, <1>4, <1>12, AwaitedAfterQueue DEF c
<1>13. ASSUME lapses' = {} PROVE Followed(d12', slots') /\ CallFits' /\ QueueGuided' /\ CallGuided'
  <2>1. Followed(d12, slots) /\ CallFits /\ QueueGuided /\ CallGuided
    BY <1>2, <1>13 DEF IInv
  <2>2. Followed(d12', slots')
    BY <1>1, <1>2, <2>1, FollowedAfterTail
  <2>3. CallFits'
    <3>1. HasSlot => slots[call.slot] \in SlotType
      BY CallSlot
    <3>2. HasSlot => slots[call.slot].completion \in Nat
      BY <3>1 DEF SlotType
    <3>3. HasSlot /\ slots[call.slot].completion <= fence.completion => slots[call.slot].completion <= f
      BY <1>4, <1>6, <3>2
    <3> QED BY <1>2, <1>7, <2>1, <3>3 DEF CallFits, HasSlot
  <2>4. QueueGuided'
    <3>1. ASSUME NEW k \in DOMAIN d12', d12'[k].op = "evaluate"
          PROVE  /\ Holds("guides", d11, content.guides, d12'[k].slot, d12'[k].frame)
                 /\ Awaited("guides", d11, d12', fence.producer, d12'[k].slot, k)
      <4>1. k + 1 \in DOMAIN d12 /\ d12'[k] = d12[k + 1] /\ k \in Nat
        BY <1>2, <1>3
      <4>2. /\ Holds("guides", d11, content.guides, d12[k + 1].slot, d12[k + 1].frame)
            /\ Awaited("guides", d11, d12, fence.producer, d12[k + 1].slot, k + 1)
        BY <2>1, <3>1, <4>1 DEF QueueGuided
      <4> QED BY <1>12, <4>1, <4>2
    <3> QED BY <1>2, <1>7, <1>8, <3>1 DEF QueueGuided
  <2>5. CallGuided'
    <3>1. Len(d12') + 1 = Len(d12) /\ Len(d12) \in Nat
      BY <1>1, <1>2
    <3>2. ASSUME Preparing PROVE Holds("guides", d11, content.guides, call.slot, seq.present) /\ Awaited("guides", d11, d12', fence.producer, call.slot, Len(d12') + 1)
      <4>1. Holds("guides", d11, content.guides, call.slot, seq.present) /\ Awaited("guides", d11, d12, fence.producer, call.slot, Len(d12) + 1)
        BY <2>1, <3>2 DEF CallGuided
      <4>2. Awaited("guides", d11, d12', fence.producer, call.slot, Len(d12))
        BY <1>12, <3>1, <4>1
      <4> QED BY <3>1, <4>1, <4>2
    <3> QED BY <1>2, <1>7, <1>8, <3>2 DEF CallGuided, Preparing
  <2> QED BY <2>2, <2>3, <2>4, <2>5
<1> QED BY <1>2, <1>5, <1>7, <1>9, <1>10, <1>11, <1>13 DEF IInv

\* Every step keeps the invariant.
LEMMA NextKeeps == IInv /\ [Next]_vars => IInv'
<1> SUFFICES ASSUME IInv, [Next]_vars PROVE IInv'
  OBVIOUS
<1>1. plan.limits \subseteq Limits
  <2>1. plan \in Plans
    BY DEF IInv, Typed
  <2> QED BY <2>1, NgxAssumption DEF Limits
<1>2. CASE \E mode \in plan.modes, limit \in plan.limits, extent \in plan.extents : Evaluate(mode, limit, extent)
  BY <1>1, <1>2, EvaluateKeeps
<1>3. CASE \E passes \in plan.passes, mask \in plan.masks : EnsureSlotResources(passes, mask)
  BY <1>3, EnsureSlotKeeps
<1>4. CASE AlreadyComplete \/ ArmEvent \/ Woken \/ Reselect \/ Record
  BY <1>4, RecordKeeps, AlreadyCompleteKeeps, ArmEventKeeps, WokenKeeps, ReselectKeeps
<1>5. CASE EnsureFeature \/ EnsureRefinement \/ EvaluateSlot \/ Show
  BY <1>5, EnsureFeatureKeeps, EnsureRefinementKeeps, EvaluateSlotKeeps, ShowKeeps
<1>6. CASE Initialize \/ Shutdown \/ TimedOut \/ ContextStep \/ QueueStep
  BY <1>6, InitializeKeeps, ShutdownKeeps, TimedOutKeeps, ContextKeeps, QueueKeeps
<1>7. CASE UNCHANGED vars
  BY <1>7 DEF vars, gpu, IInv, Typed, Bounds, HasSlot, CallFits, QueueGuided, CallGuided, Preparing
<1> QED BY <1>2, <1>3, <1>4, <1>5, <1>6, <1>7 DEF Next, CpuStep

\* Without lapses, the queue will find in every slot the guides of the frame it evaluates.
THEOREM Invariant == Spec => []IInv
<1>1. Init => IInv
  BY Initially
<1>2. IInv /\ [Next]_vars => IInv'
  BY NextKeeps
<1> QED BY <1>1, <1>2, PTL DEF Spec

-----------------------------------------------------------------------------
(* The theorems.                                                            *)

\* When an evaluation is at the head of the queue its slot holds its guides.
LEMMA HeadGuided == IInv /\ d12 # <<>> /\ lapses = {} /\ Head(d12).op = "evaluate"
                      => content.guides[Head(d12).slot] = Head(d12).frame
<1> SUFFICES ASSUME IInv, d12 # <<>>, lapses = {}, Head(d12).op = "evaluate"
             PROVE  content.guides[Head(d12).slot] = Head(d12).frame
  OBVIOUS
<1>1. d12 \in Seq(Command) /\ d11 \in Seq(Command) /\ QueueGuided
  BY DEF IInv, Typed
<1>2. Head(d12) = d12[1] /\ 1 \in DOMAIN d12
  BY <1>1, TailOf
<1>3. Holds("guides", d11, content.guides, d12[1].slot, d12[1].frame) /\ Awaited("guides", d11, d12, fence.producer, d12[1].slot, 1)
  BY <1>1, <1>2 DEF QueueGuided
<1>4. content.guides[d12[1].slot] = d12[1].frame
  BY <1>1, <1>3, HeldAtHead
<1> QED BY <1>2, <1>4

\* An evaluation reads the guides of its own frame: between the copies on the context and the
\* evaluation on the queue stands a wait for a value signalled behind the copies.
THEOREM OwnGuides == Spec => EvaluatesOwnGuides
<1>1. IInv => [d12 # <<>> /\ d12' = Tail(d12) /\ lapses = {} =>
                  LET c == Head(d12) IN c.op = "evaluate" => content.guides[c.slot] = c.frame]_d12
  BY HeadGuided
<1> QED BY <1>1, Invariant, PTL DEF EvaluatesOwnGuides

\* A slot whose completion value is reached has nothing in the queue.
LEMMA NotInFlight ==
  ASSUME IInv, lapses = {}, NEW i \in Slot, slots[i].completion <= fence.completion
  PROVE  ~InFlight(i)
<1>1. /\ d12 \in Seq(Command) /\ fence.completion \in Nat /\ seq.completion \in Nat /\ slots \in [Slot -> SlotType]
      /\ Ordered(d12, fence.completion, seq.completion) /\ Followed(d12, slots)
  BY DEF IInv, Typed, SeqType
<1>2. \A k \in DOMAIN d12 : d12[k].slot # i
  BY <1>1, NothingLeft
<1> QED BY <1>2 DEF InFlight

\* What becomes of a slot in the steps that submit its list or give it up: the list is closed,
\* and no completion value is forgotten.
Closes == \A i \in Slot : /\ slots'[i].open => slots[i].open
                          /\ slots'[i].completion = 0 => slots[i].completion = 0

\* The initialization of a feature closes the list.
LEMMA InitializationCloses ==
  ASSUME IInv, call.pc \in {"feature", "refinement"}, SubmitInitialization
  PROVE  Closes
<1>1. call.slot \in Slot /\ slots \in [Slot -> SlotType] /\ seq.completion \in Nat
  BY CallSlot DEF HasSlot, IInv, Typed, SeqType
<1>2. slots' = [slots EXCEPT ![call.slot].completion = seq.completion + 1, ![call.slot].open = FALSE]
  BY DEF SubmitInitialization
<1>3. ASSUME NEW i \in Slot
      PROVE  (slots'[i].open => slots[i].open) /\ (slots'[i].completion = 0 => slots[i].completion = 0)
  <2>1. slots[i] \in SlotType
    BY <1>1
  <2>2. CASE i = call.slot
    <3>1. slots'[i].open = FALSE /\ slots'[i].completion = seq.completion + 1
      BY <1>1, <1>2, <2>1, <2>2 DEF SlotType
    <3> QED BY <1>1, <3>1
  <2>3. CASE i # call.slot
    BY <1>1, <1>2, <2>3
  <2> QED BY <2>2, <2>3
<1> QED BY <1>3 DEF Closes

\* So does the execution of the list with the evaluation, and giving the slot up.
LEMMA EvaluateSlotCloses ==
  ASSUME IInv, EvaluateSlot
  PROVE  Closes
<1> DEFINE v == seq.completion + 1
<1>1. call.slot \in Slot /\ slots \in [Slot -> SlotType] /\ seq.completion \in Nat
  BY CallSlot DEF EvaluateSlot, HasSlot, IInv, Typed, SeqType
<1>2. PICK final \in {"output", "scratch"} :
        \/ slots' = [slots EXCEPT ![call.slot] = [@ EXCEPT !.completion = v, !.open = FALSE, !.final = final,
                                                         !.source = seq.present, !.submission = seq.submission + 1]]
        \/ slots' = [slots EXCEPT ![call.slot].open = FALSE, ![call.slot].final = final]
        \/ slots' = [slots EXCEPT ![call.slot].open = FALSE]
  BY Zenon DEF EvaluateSlot
<1>3. v # 0
  BY <1>1
<1> HIDE DEF v
<1>4. ASSUME NEW i \in Slot
      PROVE  (slots'[i].open => slots[i].open) /\ (slots'[i].completion = 0 => slots[i].completion = 0)
  <2>1. slots[i] \in SlotType
    BY <1>1
  <2>2. CASE i # call.slot
    BY <1>1, <1>2, <2>2
  <2>3. CASE i = call.slot
    <3>1. CASE slots' = [slots EXCEPT ![call.slot] = [@ EXCEPT !.completion = v, !.open = FALSE, !.final = final,
                                                              !.source = seq.present, !.submission = seq.submission + 1]]
      <4>1. slots'[i] = [slots[i] EXCEPT !.completion = v, !.open = FALSE, !.final = final,
                                         !.source = seq.present, !.submission = seq.submission + 1]
        BY <1>1, <2>3, <3>1
      <4>2. slots'[i].open = FALSE /\ slots'[i].completion = v
        BY <2>1, <4>1 DEF SlotType
      <4> QED BY <1>3, <4>2
    <3>2. CASE \/ slots' = [slots EXCEPT ![call.slot].open = FALSE, ![call.slot].final = final]
               \/ slots' = [slots EXCEPT ![call.slot].open = FALSE]
      BY <1>1, <2>1, <2>3, <3>2 DEF SlotType
    <3> QED BY <1>2, <3>1, <3>2
  <2> QED BY <2>2, <2>3
<1> QED BY <1>4 DEF Closes

\* What is released early is a lapse.
LEMMA AwaitedWork ==
  ASSUME AwaitSubmittedWork, lapses' = {}
  PROVE  lapses = {} /\ \A i \in Slot : slots[i].completion <= fence.completion
BY DEF AwaitSubmittedWork

\* A list is opened, and a completion value forgotten, only for a slot whose work is done.
LEMMA StepReuses ==
  ASSUME IInv, [Next]_vars, lapses' = {}, NEW i \in Slot, Recycled(i) \/ Released(i)
  PROVE  lapses = {} /\ slots[i].completion <= fence.completion
<1> USE DEF Recycled, Released
<1>1. ~Closes /\ slots' # slots
  BY DEF Closes
<1>2. lapses = {} => CallFits
  BY DEF IInv
<1>3. CASE Shutdown
  BY <1>3, AwaitedWork DEF Shutdown
<1>4. ASSUME NEW mode, NEW limit, NEW extent, Evaluate(mode, limit, extent)
      PROVE  lapses = {} /\ slots[i].completion <= fence.completion
  <2>1. CASE extent # features.extent
    BY <1>4, <2>1, AwaitedWork DEF Evaluate
  <2>2. CASE extent = features.extent
    BY <1>1, <1>4, <2>2 DEF Evaluate
  <2> QED BY <2>1, <2>2
<1>5. CASE Record
  <2>1. call.pc = "record" /\ lapses = {} /\ call.slot \in Slot /\ slots \in [Slot -> SlotType]
    BY <1>5, CallSlot DEF Record, HasSlot
  <2>2. slots[call.slot].completion <= fence.completion
    BY <1>2, <2>1 DEF CallFits
  <2>3. slots' = slots \/ slots' = [slots EXCEPT ![call.slot].open = TRUE]
    BY <1>5 DEF Record
  <2>4. i # call.slot => slots'[i] = slots[i]
    BY <2>1, <2>3
  <2> QED BY <2>1, <2>2, <2>4
<1>11. ASSUME NEW passes, NEW mask, EnsureSlotResources(passes, mask) PROVE FALSE
  <2>1. call.slot \in Slot /\ slots \in [Slot -> SlotType]
    BY <1>11, CallSlot DEF EnsureSlotResources, HasSlot
  <2>2. PICK some, final :
          \/ slots' = slots
          \/ slots' = [slots EXCEPT ![call.slot].textures = some]
          \/ slots' = [slots EXCEPT ![call.slot].textures = some, ![call.slot].final = final]
    BY <1>11, Zenon DEF EnsureSlotResources
  <2>3. ASSUME NEW j \in Slot PROVE slots'[j].open = slots[j].open /\ slots'[j].completion = slots[j].completion
    <3>1. slots[j] \in SlotType
      BY <2>1
    <3> QED BY <2>1, <2>2, <3>1 DEF SlotType
  <2> QED BY <1>1, <2>3 DEF Closes
<1>6. CASE EnsureFeature
  <2>1. call.pc = "feature" /\ call.slot \in Slot /\ slots \in [Slot -> SlotType]
    BY <1>6, CallSlot DEF EnsureFeature, HasSlot
  <2>2. slots' = [slots EXCEPT ![call.slot].open = FALSE]
    BY <1>1, <1>6, <2>1, InitializationCloses DEF EnsureFeature, InitializationUnsignalled
  <2>3. ASSUME NEW j \in Slot
        PROVE  (slots'[j].open => slots[j].open) /\ (slots'[j].completion = 0 => slots[j].completion = 0)
    <3>1. slots[j] \in SlotType
      BY <2>1
    <3> QED BY <2>1, <2>2, <3>1 DEF SlotType
  <2> QED BY <1>1, <2>3 DEF Closes
<1>7. CASE EnsureRefinement
  <2>1. call.pc = "refinement" /\ call.slot \in Slot /\ slots \in [Slot -> SlotType]
    BY <1>7, CallSlot DEF EnsureRefinement, HasSlot
  <2>2. slots' = [slots EXCEPT ![call.slot].open = TRUE] /\ lapses = {}
    <3>1. CASE SubmitInitialization
      BY <1>1, <2>1, <3>1, InitializationCloses
    <3>2. CASE InitializationUnsignalled
      BY <3>2 DEF InitializationUnsignalled, SubmitUnsignalled
    <3> QED BY <1>7, <3>1, <3>2 DEF EnsureRefinement
  <2>3. i = call.slot /\ ~slots[i].open
    <3>1. slots[i] \in SlotType
      BY <2>1
    <3> QED BY <2>1, <2>2, <3>1 DEF SlotType
  <2> QED BY <1>2, <2>1, <2>2, <2>3 DEF CallFits
<1>8. CASE EvaluateSlot
  BY <1>1, <1>8, EvaluateSlotCloses
<1>9. CASE Initialize \/ TimedOut \/ ContextStep \/ QueueStep \/ AlreadyComplete \/ ArmEvent \/ Woken \/ Reselect \/ Show
  BY <1>1, <1>9 DEF Initialize, TimedOut, ContextStep, QueueStep, AlreadyComplete, ArmEvent, Woken, Reselect, Show
<1>10. CASE UNCHANGED vars
  BY <1>1, <1>10 DEF vars
<1> QED BY <1>3, <1>4, <1>5, <1>6, <1>7, <1>8, <1>9, <1>10, <1>11 DEF Next, CpuStep

\* A slot's allocator is reset, and its resources released, only when the queue has none of
\* its commands left: the scheduler hands out slots whose completion value is reached, and
\* completion values are reached in order, behind the commands they stand for.
THEOREM SlotsExclusive == Spec => NoReuseInFlight
<1>1. IInv /\ [Next]_vars =>
        [\A i \in Slot : (Recycled(i) \/ Released(i)) /\ lapses' = {} => ~InFlight(i)]_slots
  <2>1. ASSUME IInv, [Next]_vars, lapses' = {}, NEW i \in Slot, Recycled(i) \/ Released(i)
        PROVE  ~InFlight(i)
    <3>1. lapses = {} /\ slots[i].completion <= fence.completion
      BY <2>1, StepReuses, Zenon
    <3> QED BY <2>1, <3>1, NotInFlight, Zenon
  <2> QED BY <2>1
<1> QED BY <1>1, Invariant, PTL DEF Spec, NoReuseInFlight

-----------------------------------------------------------------------------
(* Barriers.                                                                *)

States == {"common", "read", "uav"}
Barrier == [t : Textures, before : States, after : States]

\* The state of texture t, st[t] at first, when the k-th of the barriers b is executed.
Before(st, b, t, k) ==
    LET on == {j \in 1..(k - 1) : b[j].t = t} IN IF on = {} THEN st[t] ELSE b[Max(on)].after

\* Executing the barriers b in the states st, each finds its texture as it says, and leaves the states to.
Fits(st, b, to) == Replay(st, b).match /\ \A t \in Textures : Replay(st, b).states[t] = to[t]

\* A nonempty set of positions has a last one.
LEMMA MaxIsMember ==
  ASSUME NEW n \in Nat, NEW S \in SUBSET (1..n), S # {}
  PROVE  Max(S) \in S /\ \A k \in S : Max(S) >= k
<1> DEFINE gaps == {n - k : k \in S}
<1>1. gaps \in SUBSET Nat /\ gaps # {}
  <2>1. \A k \in S : n - k \in Nat
    OBVIOUS
  <2> QED BY <2>1
<1>2. PICK a \in gaps : \A b \in gaps : a <= b
  BY <1>1, LeastExists
<1>3. PICK m \in S : a = n - m
  BY <1>2
<1>4. ASSUME NEW k \in S PROVE m >= k
  <2>1. a <= n - k
    BY <1>2
  <2> QED BY <2>1, <1>3
<1> QED BY <1>4 DEF Max

\* Replay in terms of Before.
LEMMA FitsMeans ==
  ASSUME NEW st, NEW b, NEW to
  PROVE  Fits(st, b, to) <=> /\ \A k \in DOMAIN b : b[k].before = Before(st, b, b[k].t, k)
                            /\ \A t \in Textures : to[t] = Before(st, b, t, Len(b) + 1)
<1> DEFINE r == Replay(st, b)
           s == [t \in Textures |-> Before(st, b, t, Len(b) + 1)]
<1>1. r.match <=> \A k \in DOMAIN b : b[k].before = Before(st, b, b[k].t, k)
  BY DEF Replay, Before
<1>2. r.states = s
  BY DEF Replay, Before
<1>3. \A t \in Textures : s[t] = Before(st, b, t, Len(b) + 1)
  OBVIOUS
<1>4. Fits(st, b, to) <=> r.match /\ \A t \in Textures : r.states[t] = to[t]
  BY DEF Fits
<1> HIDE DEF r, s
<1> QED BY <1>1, <1>2, <1>3, <1>4

\* A texture is in the state the last barrier about it left, ...
LEMMA BeforeLast ==
  ASSUME NEW st, NEW b, NEW t, NEW k \in Nat, NEW p \in 1..(k - 1), b[p].t = t,
         \A j \in 1..(k - 1) : j > p => b[j].t # t
  PROVE  Before(st, b, t, k) = b[p].after
<1> DEFINE on == {j \in 1..(k - 1) : b[j].t = t}
<1>1. on \in SUBSET (1..(k - 1)) /\ p \in on /\ k - 1 \in Nat
  OBVIOUS
<1>2. Max(on) \in on /\ \A j \in on : Max(on) >= j
  BY <1>1, MaxIsMember
<1>3. Max(on) = p
  BY <1>1, <1>2
<1> QED BY <1>1, <1>3 DEF Before

\* ... or in its first when there is none.
LEMMA BeforeNone ==
  ASSUME NEW st, NEW b, NEW t, NEW k, \A j \in 1..(k - 1) : b[j].t # t
  PROVE  Before(st, b, t, k) = st[t]
<1>1. {j \in 1..(k - 1) : b[j].t = t} = {}
  OBVIOUS
<1> QED BY <1>1 DEF Before

\* One of the two holds.
LEMMA BeforeCases ==
  ASSUME NEW b, NEW t, NEW k \in Nat
  PROVE  \/ \E p \in 1..(k - 1) : b[p].t = t /\ \A j \in 1..(k - 1) : j > p => b[j].t # t
         \/ \A j \in 1..(k - 1) : b[j].t # t
<1> DEFINE on == {j \in 1..(k - 1) : b[j].t = t}
<1> SUFFICES ASSUME on # {} PROVE \E p \in 1..(k - 1) : b[p].t = t /\ \A j \in 1..(k - 1) : j > p => b[j].t # t
  OBVIOUS
<1>1. on \in SUBSET (1..(k - 1)) /\ k - 1 \in Nat
  OBVIOUS
<1>2. Max(on) \in on /\ \A j \in on : Max(on) >= j
  BY <1>1, MaxIsMember
<1> DEFINE m == Max(on)
<1>3. m \in on /\ \A j \in on : m >= j
  BY <1>2
<1> HIDE DEF m
<1>4. m \in 1..(k - 1) /\ b[m].t = t
  BY <1>3
<1>5. ASSUME NEW j \in 1..(k - 1), j > m PROVE b[j].t # t
  BY <1>3, <1>4, <1>5
<1> QED BY <1>4, <1>5

\* The states after any barriers are states.
LEMMA ReplayTyped ==
  ASSUME NEW st \in [Textures -> States], NEW b \in Seq(Barrier)
  PROVE  Replay(st, b).states \in [Textures -> States]
<1>1. ASSUME NEW t \in Textures PROVE Before(st, b, t, Len(b) + 1) \in States
  <2> DEFINE k == Len(b) + 1
  <2>1. k \in Nat /\ \A p \in 1..(k - 1) : b[p] \in Barrier
    OBVIOUS
  <2> HIDE DEF k
  <2>2. CASE \E p \in 1..(k - 1) : b[p].t = t /\ \A j \in 1..(k - 1) : j > p => b[j].t # t
    <3>1. PICK p \in 1..(k - 1) : b[p].t = t /\ \A j \in 1..(k - 1) : j > p => b[j].t # t
      BY <2>2
    <3>2. Before(st, b, t, k) = b[p].after
      BY <2>1, <3>1, BeforeLast
    <3>3. b[p].after \in States
      BY <2>1 DEF Barrier
    <3> QED BY <3>2, <3>3 DEF k
  <2>3. CASE \A j \in 1..(k - 1) : b[j].t # t
    <3>1. Before(st, b, t, k) = st[t]
      BY <2>3, BeforeNone
    <3> QED BY <3>1 DEF k
  <2> QED BY <2>1, <2>2, <2>3, BeforeCases
<1>2. [t \in Textures |-> Before(st, b, t, Len(b) + 1)] \in [Textures -> States]
  BY <1>1
<1>3. Replay(st, b).states = [t \in Textures |-> Before(st, b, t, Len(b) + 1)]
  BY DEF Replay, Before
<1> QED BY <1>2, <1>3, Zenon

\* Barriers that fit leave just these states.
LEMMA FitsIs ==
  ASSUME NEW st, NEW b, NEW to \in [Textures -> States], Fits(st, b, to)
  PROVE  Replay(st, b).match /\ Replay(st, b).states = to
<1> DEFINE r == Replay(st, b).states
<1>1. r = [t \in Textures |-> r[t]]
  <2> DEFINE s == [t \in Textures |-> Before(st, b, t, Len(b) + 1)]
  <2>1. r = s
    BY DEF Replay, Before
  <2>2. s = [t \in Textures |-> s[t]]
    OBVIOUS
  <2> QED BY <2>1, <2>2, Zenon
<1>2. Replay(st, b).match /\ \A t \in Textures : r[t] = to[t]
  BY DEF Fits
<1> HIDE DEF r
<1>3. r = to
  BY <1>1, <1>2
<1> QED BY <1>2, <1>3 DEF r

\* Lists of barriers compose.
LEMMA FitsJoin ==
  ASSUME NEW st \in [Textures -> States], NEW a \in Seq(Barrier), NEW b \in Seq(Barrier), NEW mid, NEW to,
         Fits(st, a, mid), Fits(mid, b, to)
  PROVE  Fits(st, a \o b, to)
<1> DEFINE y == a \o b
           m == Len(a)
           n == Len(b)
<1>1. /\ m \in Nat /\ n \in Nat /\ DOMAIN a = 1..m /\ DOMAIN b = 1..n /\ DOMAIN y = 1..(m + n) /\ Len(y) = m + n
      /\ \A p \in 1..m : y[p] = a[p] /\ a[p] \in Barrier
      /\ \A p \in 1..n : y[m + p] = b[p] /\ b[p] \in Barrier
  OBVIOUS
<1> HIDE DEF y, m, n
<1>2. /\ \A t \in Textures : mid[t] = Before(st, a, t, m + 1)
      /\ \A k \in 1..m : a[k].before = Before(st, a, a[k].t, k)
  BY <1>1, FitsMeans DEF m
<1>3. /\ \A t \in Textures : to[t] = Before(mid, b, t, n + 1)
      /\ \A k \in 1..n : b[k].before = Before(mid, b, b[k].t, k)
  BY <1>1, FitsMeans DEF n
<1>4. ASSUME NEW t, NEW k \in 1..(m + 1) PROVE Before(st, y, t, k) = Before(st, a, t, k)
  <2>1. {j \in 1..(k - 1) : y[j].t = t} = {j \in 1..(k - 1) : a[j].t = t}
    BY <1>1
  <2>2. \A j \in {j \in 1..(k - 1) : a[j].t = t} : y[j] = a[j]
    BY <1>1
  <2> DEFINE on == {j \in 1..(k - 1) : a[j].t = t}
  <2>3. CASE on = {}
    BY <2>1, <2>3 DEF Before
  <2>4. CASE on # {}
    <3>1. on \in SUBSET (1..(k - 1)) /\ k - 1 \in Nat
      BY <1>1
    <3>2. Max(on) \in on
      BY <2>4, <3>1, MaxIsMember
    <3> QED BY <2>1, <2>2, <2>4, <3>2 DEF Before
  <2> QED BY <2>3, <2>4
<1>5. ASSUME NEW t \in Textures, NEW k \in 1..(n + 1) PROVE Before(st, y, t, m + k) = Before(mid, b, t, k)
  <2> DEFINE e == m + k
  <2>1. e \in Nat /\ \A j \in 1..(e - 1) : j \in 1..m \/ (j - m \in 1..(k - 1) /\ y[j] = b[j - m])
    <3>1. ASSUME NEW j \in 1..(e - 1), j \notin 1..m PROVE j - m \in 1..(k - 1) /\ y[j] = b[j - m]
      <4> DEFINE i == j - m
      <4>1. i \in 1..(k - 1) /\ i \in 1..n /\ j = m + i
        BY <1>1, <3>1
      <4> HIDE DEF i
      <4>2. y[j] = b[i]
        BY <1>1, <4>1
      <4> QED BY <4>1, <4>2 DEF i
    <3>2. e \in Nat
      BY <1>1
    <3> QED BY <3>1, <3>2
  <2>2. \A p \in 1..(k - 1) : m + p \in 1..(e - 1) /\ y[m + p] = b[p]
    BY <1>1
  <2>3. k \in Nat
    BY <1>1
  <2> HIDE DEF e
  <2>4. CASE \E p \in 1..(k - 1) : b[p].t = t /\ \A j \in 1..(k - 1) : j > p => b[j].t # t
    <3>1. PICK p \in 1..(k - 1) : b[p].t = t /\ \A j \in 1..(k - 1) : j > p => b[j].t # t
      BY <2>4
    <3> DEFINE r == m + p
    <3>2. r \in 1..(e - 1) /\ y[r] = b[p]
      BY <2>2
    <3>3. ASSUME NEW j \in 1..(e - 1), j > r PROVE y[j].t # t
      <4>1. j - m \in 1..(k - 1) /\ j - m > p /\ y[j] = b[j - m]
        BY <1>1, <2>1, <3>3
      <4> QED BY <3>1, <4>1
    <3> HIDE DEF r
    <3>4. Before(st, y, t, e) = y[r].after
      BY <2>1, <3>1, <3>2, <3>3, BeforeLast, SMTT(20)
    <3>5. Before(mid, b, t, k) = b[p].after
      BY <2>3, <3>1, BeforeLast
    <3> QED BY <3>2, <3>4, <3>5 DEF e
  <2>5. CASE \A j \in 1..(k - 1) : b[j].t # t
    <3>1. Before(mid, b, t, k) = mid[t] /\ mid[t] = Before(st, a, t, m + 1)
      BY <1>2, <2>5, BeforeNone
    <3>2. Before(st, a, t, m + 1) = Before(st, y, t, m + 1)
      BY <1>1, <1>4
    <3>3. Before(st, y, t, e) = Before(st, y, t, m + 1)
      <4>1. m + 1 \in Nat /\ \A j \in 1..(e - 1) : j > m => y[j].t # t
        BY <1>1, <2>1, <2>5
      <4>2. {j \in 1..(e - 1) : y[j].t = t} = {j \in 1..((m + 1) - 1) : y[j].t = t}
        BY <1>1, <4>1 DEF e
      <4> QED BY <4>2 DEF Before
    <3> QED BY <3>1, <3>2, <3>3 DEF e
  <2> QED BY <2>3, <2>4, <2>5, BeforeCases
<1>6. \A t \in Textures : to[t] = Before(st, y, t, Len(y) + 1)
  <2>1. \A t \in Textures : Before(st, y, t, Len(y) + 1) = Before(mid, b, t, n + 1)
    <3> SUFFICES ASSUME NEW t \in Textures PROVE Before(st, y, t, Len(y) + 1) = Before(mid, b, t, n + 1)
      OBVIOUS
    <3> DEFINE k == n + 1
    <3>1. k \in 1..(n + 1) /\ Len(y) + 1 = m + k
      BY <1>1
    <3>2. Before(st, y, t, m + k) = Before(mid, b, t, k)
      BY <3>1, <1>5
    <3> QED BY <3>1, <3>2
  <2> QED BY <1>3, <2>1
<1>7. ASSUME NEW k \in DOMAIN y PROVE y[k].before = Before(st, y, y[k].t, k)
  <2>1. CASE k \in 1..m
    <3>1. y[k] = a[k] /\ k \in 1..(m + 1)
      BY <1>1, <2>1
    <3> QED BY <1>2, <1>4, <2>1, <3>1
  <2>2. CASE k \notin 1..m
    <3> DEFINE p == k - m
    <3>1. p \in 1..n /\ p \in 1..(n + 1) /\ k = m + p /\ y[m + p] = b[p] /\ b[p] \in Barrier
      BY <1>1, <2>2
    <3> HIDE DEF p
    <3>2. b[p].t \in Textures
      BY <3>1 DEF Barrier
    <3>3. Before(st, y, b[p].t, m + p) = Before(mid, b, b[p].t, p)
      BY <1>5, <3>1, <3>2
    <3> QED BY <1>3, <3>1, <3>3
  <2> QED BY <2>1, <2>2
<1>8. Fits(st, y, to)
  BY <1>6, <1>7, FitsMeans
<1> QED BY <1>8 DEF y

\* No barriers change nothing.
LEMMA FitsNone ==
  ASSUME NEW st \in [Textures -> States]
  PROVE  Fits(st, <<>>, st)
<1> DEFINE none == <<>>
<1>1. DOMAIN none = {} /\ Len(none) = 0
  OBVIOUS
<1>2. \A t \in Textures : Before(st, none, t, Len(none) + 1) = st[t]
  BY <1>1, BeforeNone
<1> HIDE DEF none
<1>3. Fits(st, none, st)
  BY <1>1, <1>2, FitsMeans
<1> QED BY <1>3 DEF none

\* Barriers about different textures take effect independently.
LEMMA FitsDistinct ==
  ASSUME NEW st \in [Textures -> States], NEW b \in Seq(Barrier), NEW to \in [Textures -> States],
         \A j \in DOMAIN b : \A k \in DOMAIN b : j # k => b[j].t # b[k].t,
         \A k \in DOMAIN b : b[k].before = st[b[k].t] /\ b[k].after = to[b[k].t],
         \A t \in Textures : (\A k \in DOMAIN b : b[k].t # t) => to[t] = st[t]
  PROVE  Fits(st, b, to)
<1> DEFINE n == Len(b)
<1>1. n \in Nat /\ DOMAIN b = 1..n /\ \A k \in 1..n : b[k] \in Barrier
  OBVIOUS
<1> HIDE DEF n
<1>2. ASSUME NEW k \in DOMAIN b PROVE b[k].before = Before(st, b, b[k].t, k)
  <2>1. \A j \in 1..(k - 1) : b[j].t # b[k].t
    BY <1>1
  <2> QED BY <2>1, BeforeNone
<1>3. ASSUME NEW t \in Textures PROVE Before(st, b, t, n + 1) = to[t]
  <2>1. CASE \E p \in 1..n : b[p].t = t
    <3>1. PICK p \in 1..n : b[p].t = t
      BY <2>1
    <3> DEFINE e == n + 1
    <3>2. e \in Nat /\ p \in 1..(e - 1) /\ \A j \in 1..(e - 1) : j > p => b[j].t # t
      BY <1>1, <3>1, SMTT(20)
    <3> HIDE DEF e
    <3>3. Before(st, b, t, e) = b[p].after
      BY <3>1, <3>2, BeforeLast
    <3> QED BY <1>1, <3>1, <3>3 DEF e
  <2>2. CASE \A p \in 1..n : b[p].t # t
    <3>1. \A p \in 1..((n + 1) - 1) : b[p].t # t
      BY <1>1, <2>2
    <3>2. Before(st, b, t, n + 1) = st[t]
      BY <3>1, BeforeNone
    <3> QED BY <1>1, <2>2, <3>2
  <2> QED BY <2>1, <2>2
<1> QED BY <1>2, <1>3, FitsMeans DEF n

\* Where pass p reads and where it writes, and what the textures of a slot are in behind it.
Source(p) == IF p % 2 = 0 THEN "output" ELSE "scratch"
Target(p) == IF p % 2 = 0 THEN "scratch" ELSE "output"
IsGuide(t, mask) == t \in {"input", "motion", "depth"} \/ (t = "mask" /\ mask)
After(mask, p) ==
    [t \in Textures |-> IF IsGuide(t, mask) THEN "read" ELSE IF t = Target(p) THEN "uav"
                        ELSE IF t = Source(p) /\ p > 1 THEN "read" ELSE "common"]

\* The passes there are.
LEMMA PassNumbers ==
  /\ Source(1) = "scratch" /\ Target(1) = "output" /\ Source(2) = "output" /\ Target(2) = "scratch"
  /\ Source(3) = "scratch" /\ Target(3) = "output" /\ Source(4) = "output" /\ Target(4) = "scratch"
BY DEF Source, Target

\* They are states.
LEMMA StatesOf ==
  ASSUME NEW mask \in BOOLEAN, NEW p
  PROVE  After(mask, p) \in [Textures -> States] /\ Resting \in [Textures -> States]
BY DEF After, Resting, States

\* The guides of a frame.
LEMMA GuidesOf ==
  ASSUME NEW mask \in BOOLEAN
  PROVE  \E n \in {3, 4} :
            /\ n = 4 <=> mask
            /\ Len(Guides(mask)) = n /\ DOMAIN Guides(mask) = 1..n
            /\ Guides(mask)[1] = "input" /\ Guides(mask)[2] = "motion" /\ Guides(mask)[3] = "depth"
            /\ n = 4 => Guides(mask)[4] = "mask"
<1>1. CASE mask
  <2> DEFINE a == <<"input", "motion", "depth">>
             last == "mask"
             g == a \o <<last>>
  <2>1. Guides(mask) = g
    BY <1>1 DEF Guides
  <2>2. a \in Seq(Textures)
    BY DEF Textures
  <2>3. Len(a) = 3 /\ a[1] = "input" /\ a[2] = "motion" /\ a[3] = "depth" /\ last \in Textures /\ last = "mask"
    BY DEF Textures
  <2> HIDE DEF a, last
  <2>7. g = a \o <<last>>
    OBVIOUS
  <2> HIDE DEF g
  <2>4. DOMAIN g = 1..4 /\ Len(g) = 4 /\ g[4] = "mask" /\ \A k \in 1..3 : g[k] = a[k]
    <3>1. DOMAIN g = 1..(Len(a) + 1) /\ Len(g) = Len(a) + 1 /\ g[Len(a) + 1] = last /\ \A k \in 1..Len(a) : g[k] = a[k]
      <4>1. a \in Seq(Textures) /\ last \in Textures
        BY <2>2, <2>3
      <4> QED BY <2>7, <4>1
    <3>2. Len(a) + 1 = 4
      BY <2>3
    <3> QED BY <2>3, <3>1, <3>2
  <2>5. g[1] = a[1] /\ g[2] = a[2] /\ g[3] = a[3]
    BY <2>4
  <2>6. (4 = 4 <=> mask) /\ 4 \in {3, 4}
    BY <1>1
  <2> QED BY <2>1, <2>3, <2>4, <2>5, <2>6
<1>2. CASE ~mask
  <2>1. Guides(mask) = <<"input", "motion", "depth">> \o <<>>
    BY <1>2 DEF Guides
  <2> QED BY <1>2, <2>1
<1> QED BY <1>1, <1>2

\* A barrier for each guide.
ForGuides(mask, before, after) == [i \in DOMAIN Guides(mask) |-> Transition(Guides(mask)[i], before, after)]
LEMMA GuideBarriers ==
  ASSUME NEW mask \in BOOLEAN, NEW before \in States, NEW after \in States
  PROVE  LET b == ForGuides(mask, before, after)
         IN /\ b \in Seq(Barrier)
            /\ \A k \in DOMAIN b : b[k].before = before /\ b[k].after = after /\ IsGuide(b[k].t, mask)
            /\ \A j \in DOMAIN b : \A k \in DOMAIN b : j # k => b[j].t # b[k].t
            /\ \A t \in Textures : IsGuide(t, mask) => \E k \in DOMAIN b : b[k].t = t
<1> DEFINE g == Guides(mask)
           b == [i \in DOMAIN g |-> Transition(g[i], before, after)]
<1>1. PICK n \in {3, 4} :
            /\ n = 4 <=> mask
            /\ DOMAIN g = 1..n
            /\ g[1] = "input" /\ g[2] = "motion" /\ g[3] = "depth"
            /\ n = 4 => g[4] = "mask"
  BY GuidesOf
<1> HIDE DEF g
<1>2. n \in Nat /\ DOMAIN b = 1..n /\ b = [i \in 1..n |-> b[i]]
  BY <1>1
<1>3. \A i \in 1..n : b[i].t = g[i] /\ b[i].before = before /\ b[i].after = after
  BY <1>1 DEF Transition
<1>4. \A i \in 1..n : g[i] \in Textures /\ IsGuide(g[i], mask)
  BY <1>1 DEF Textures, IsGuide
<1>5. \A i \in 1..n : b[i] \in Barrier
  BY <1>1, <1>4 DEF Barrier, Transition
<1> HIDE DEF b
<1>6. b \in Seq(Barrier)
  BY <1>2, <1>5
<1>7. \A j \in 1..n : \A k \in 1..n : j # k => g[j] # g[k]
  BY <1>1
<1>8. \A t \in Textures : IsGuide(t, mask) => \E k \in 1..n : g[k] = t
  <2> SUFFICES ASSUME NEW t \in Textures, IsGuide(t, mask) PROVE \E k \in 1..n : g[k] = t
    OBVIOUS
  <2>1. 1 \in 1..n /\ 2 \in 1..n /\ 3 \in 1..n /\ (n = 4 => 4 \in 1..n)
    BY <1>1
  <2> QED BY <1>1, <2>1 DEF IsGuide
<1>9. /\ \A k \in DOMAIN b : b[k].before = before /\ b[k].after = after /\ IsGuide(b[k].t, mask)
      /\ \A j \in DOMAIN b : \A k \in DOMAIN b : j # k => b[j].t # b[k].t
      /\ \A t \in Textures : IsGuide(t, mask) => \E k \in DOMAIN b : b[k].t = t
  BY <1>2, <1>3, <1>4, <1>7, <1>8
<1> QED BY <1>6, <1>9 DEF b, g, ForGuides

\* The beginning of a list: the guides become readable, the output writable.
LEMMA InitialFits ==
  ASSUME NEW mask \in BOOLEAN
  PROVE  TransitionInitial(mask) \in Seq(Barrier) /\ Fits(Resting, TransitionInitial(mask), After(mask, 1))
<1> DEFINE b == ForGuides(mask, "common", "read")
           o == <<Transition("output", "common", "uav")>>
           mid == [t \in Textures |-> IF IsGuide(t, mask) THEN "read" ELSE "common"]
<1>1. /\ b \in Seq(Barrier)
      /\ \A k \in DOMAIN b : b[k].before = "common" /\ b[k].after = "read" /\ IsGuide(b[k].t, mask)
      /\ \A j \in DOMAIN b : \A k \in DOMAIN b : j # k => b[j].t # b[k].t
      /\ \A t \in Textures : IsGuide(t, mask) => \E k \in DOMAIN b : b[k].t = t
  BY GuideBarriers DEF States
<1>2. o \in Seq(Barrier) /\ DOMAIN o = {1} /\ o[1] = Transition("output", "common", "uav")
  BY DEF Transition, Barrier, Textures, States
<1>3. TransitionInitial(mask) = b \o o
  BY DEF TransitionInitial, ForGuides
<1>4. mid \in [Textures -> States] /\ Resting \in [Textures -> States] /\ After(mask, 1) \in [Textures -> States]
  BY StatesOf DEF States
<1> HIDE DEF b, o
<1>5. Fits(Resting, b, mid)
  <2>1. \A k \in DOMAIN b : b[k].t \in Textures
    BY <1>1 DEF IsGuide, Textures
  <2>2. \A k \in DOMAIN b : b[k].before = Resting[b[k].t] /\ b[k].after = mid[b[k].t]
    BY <1>1, <2>1 DEF Resting
  <2>3. \A t \in Textures : (\A k \in DOMAIN b : b[k].t # t) => mid[t] = Resting[t]
    BY <1>1 DEF Resting
  <2> HIDE DEF mid
  <2> QED BY <1>1, <1>4, <2>2, <2>3, FitsDistinct
<1>6. Fits(mid, o, After(mask, 1))
  <2> DEFINE to == After(mask, 1)
  <2>1. o[1].t = "output" /\ o[1].before = "common" /\ o[1].after = "uav"
    BY <1>2 DEF Transition
  <2>2. mid["output"] = "common" /\ to["output"] = "uav" /\ \A t \in Textures : t # "output" => to[t] = mid[t]
    BY PassNumbers DEF After, IsGuide, Textures
  <2>3. to \in [Textures -> States]
    BY <1>4
  <2> HIDE DEF mid, to
  <2>4. Fits(mid, o, to)
    BY <1>2, <1>4, <2>1, <2>2, <2>3, FitsDistinct
  <2> QED BY <2>4 DEF to
<1> HIDE DEF mid
<1>7. b \o o \in Seq(Barrier) /\ Fits(Resting, b \o o, After(mask, 1))
  BY <1>1, <1>2, <1>4, <1>5, <1>6, FitsJoin
<1> QED BY <1>3, <1>7

\* Two barriers, about different textures.
LEMMA PairFits ==
  ASSUME NEW x \in Barrier, NEW y \in Barrier, x.t # y.t, NEW st \in [Textures -> States], NEW to \in [Textures -> States],
         st[x.t] = x.before, to[x.t] = x.after, st[y.t] = y.before, to[y.t] = y.after,
         \A t \in Textures : t # x.t /\ t # y.t => to[t] = st[t]
  PROVE  <<x, y>> \in Seq(Barrier) /\ Fits(st, <<x, y>>, to)
<1> DEFINE b == <<x, y>>
<1>1. b \in Seq(Barrier) /\ DOMAIN b = {1, 2} /\ b[1] = x /\ b[2] = y
  OBVIOUS
<1> HIDE DEF b
<1>2. Fits(st, b, to)
  BY <1>1, FitsDistinct
<1> QED BY <1>1, <1>2 DEF b

\* A refinement pass reads what the one before it wrote, and writes where that one read; when
\* it fails, its barriers are taken back.
LEMMA PassFits ==
  ASSUME NEW mask \in BOOLEAN, NEW p \in 2..4
  PROVE  /\ TransitionRefinement(Source(p), Target(p), p > 2) \in Seq(Barrier)
         /\ Fits(After(mask, p - 1), TransitionRefinement(Source(p), Target(p), p > 2), After(mask, p))
         /\ TransitionRefinementAbort(Source(p), Target(p), p > 2) \in Seq(Barrier)
         /\ Fits(After(mask, p), TransitionRefinementAbort(Source(p), Target(p), p > 2), After(mask, p - 1))
<1> DEFINE s == Source(p)
           t == Target(p)
           idle == IF p > 2 THEN "read" ELSE "common"
           st == After(mask, p - 1)
           to == After(mask, p)
<1>1. s \in {"output", "scratch"} /\ t \in {"output", "scratch"} /\ s # t
  BY DEF Source, Target
<1>2. p \in {2, 3, 4}
  OBVIOUS
<1>3. Target(p - 1) = s /\ Source(p - 1) = t
  <2>1. CASE p = 2
    BY <2>1, PassNumbers
  <2>2. CASE p = 3
    BY <2>2, PassNumbers
  <2>3. CASE p = 4
    BY <2>3, PassNumbers
  <2> QED BY <1>2, <2>1, <2>2, <2>3
<1>4. st \in [Textures -> States] /\ to \in [Textures -> States]
  BY StatesOf
<1>5. st[s] = "uav" /\ st[t] = idle /\ to[s] = "read" /\ to[t] = "uav"
  BY <1>1, <1>2, <1>3 DEF After, Textures, IsGuide
<1>6. \A e \in Textures : e # s /\ e # t => to[e] = st[e]
  BY <1>3 DEF After
<1>7. /\ TransitionRefinement(s, t, p > 2) = <<Transition(s, "uav", "read"), Transition(t, idle, "uav")>>
      /\ TransitionRefinementAbort(s, t, p > 2) = <<Transition(s, "read", "uav"), Transition(t, "uav", idle)>>
  BY DEF TransitionRefinement, TransitionRefinementAbort
<1>8. idle \in States
  BY DEF States
<1> HIDE DEF s, t, idle, st, to
<1>9. \A e \in {s, t}, x \in States, y \in States :
        /\ Transition(e, x, y) \in Barrier
        /\ Transition(e, x, y).t = e /\ Transition(e, x, y).before = x /\ Transition(e, x, y).after = y
  BY <1>1 DEF Transition, Barrier, Textures
<1>10. /\ TransitionRefinement(s, t, p > 2) \in Seq(Barrier)
       /\ Fits(st, TransitionRefinement(s, t, p > 2), to)
  <2> DEFINE x == Transition(s, "uav", "read")
             y == Transition(t, idle, "uav")
  <2>1. /\ x \in Barrier /\ x.t = s /\ x.before = "uav" /\ x.after = "read"
        /\ y \in Barrier /\ y.t = t /\ y.before = idle /\ y.after = "uav"
    BY <1>8, <1>9 DEF States
  <2> HIDE DEF x, y
  <2>2. <<x, y>> \in Seq(Barrier) /\ Fits(st, <<x, y>>, to)
    BY <1>1, <1>4, <1>5, <1>6, <2>1, PairFits
  <2> QED BY <1>7, <2>2 DEF x, y
<1>11. /\ TransitionRefinementAbort(s, t, p > 2) \in Seq(Barrier)
       /\ Fits(to, TransitionRefinementAbort(s, t, p > 2), st)
  <2> DEFINE x == Transition(s, "read", "uav")
             y == Transition(t, "uav", idle)
  <2>1. /\ x \in Barrier /\ x.t = s /\ x.before = "read" /\ x.after = "uav"
        /\ y \in Barrier /\ y.t = t /\ y.before = "uav" /\ y.after = idle
    BY <1>8, <1>9 DEF States
  <2> HIDE DEF x, y
  <2>2. <<x, y>> \in Seq(Barrier) /\ Fits(to, <<x, y>>, st)
    BY <1>1, <1>4, <1>5, <1>6, <2>1, PairFits
  <2> QED BY <1>7, <2>2 DEF x, y
<1> QED BY <1>10, <1>11 DEF s, t, st, to

\* The end of a list puts everything back.
LEMMA FinishFits ==
  ASSUME NEW mask \in BOOLEAN, NEW p \in 1..4
  PROVE  /\ TransitionFinish(mask, p % 2 = 0, p > 1) \in Seq(Barrier)
         /\ Fits(After(mask, p), TransitionFinish(mask, p % 2 = 0, p > 1), Resting)
<1> DEFINE b == ForGuides(mask, "read", "common")
           x == IF p > 1 THEN <<Transition(Source(p), "read", "common")>> ELSE <<>>
           y == <<Transition(Target(p), "uav", "common")>>
           st == After(mask, p)
           mid == [t \in Textures |-> IF IsGuide(t, mask) THEN "common" ELSE st[t]]
           low == [t \in Textures |-> IF t = Target(p) THEN "uav" ELSE "common"]
<1>1. /\ b \in Seq(Barrier)
      /\ \A k \in DOMAIN b : b[k].before = "read" /\ b[k].after = "common" /\ IsGuide(b[k].t, mask)
      /\ \A j \in DOMAIN b : \A k \in DOMAIN b : j # k => b[j].t # b[k].t
      /\ \A t \in Textures : IsGuide(t, mask) => \E k \in DOMAIN b : b[k].t = t
  BY GuideBarriers DEF States
<1>2. /\ Source(p) \in {"output", "scratch"} /\ Target(p) \in {"output", "scratch"} /\ Source(p) # Target(p)
      /\ \A t \in {"output", "scratch"} : t \in Textures /\ ~IsGuide(t, mask)
  BY DEF Source, Target, Textures, IsGuide
<1>3. TransitionFinish(mask, p % 2 = 0, p > 1) = (b \o x) \o y
  BY DEF TransitionFinish, Source, Target, ForGuides
<1>4. /\ st \in [Textures -> States] /\ Resting \in [Textures -> States]
      /\ mid \in [Textures -> States] /\ low \in [Textures -> States]
  <2>1. st \in [Textures -> States] /\ Resting \in [Textures -> States]
    BY StatesOf
  <2>2. mid \in [Textures -> States]
    <3> HIDE DEF st
    <3> QED BY <2>1 DEF States
  <2>3. low \in [Textures -> States]
    BY DEF States
  <2> QED BY <2>1, <2>2, <2>3
<1>5. \A t \in Textures : st[t] = IF IsGuide(t, mask) THEN "read" ELSE IF t = Target(p) THEN "uav"
                                 ELSE IF t = Source(p) /\ p > 1 THEN "read" ELSE "common"
  BY DEF After
<1> HIDE DEF b, st
<1>6. Fits(st, b, mid)
  <2>1. \A k \in DOMAIN b : b[k].t \in Textures
    BY <1>1 DEF IsGuide, Textures
  <2>2. \A k \in DOMAIN b : b[k].before = st[b[k].t] /\ b[k].after = mid[b[k].t]
    BY <1>1, <1>5, <2>1
  <2>3. \A t \in Textures : (\A k \in DOMAIN b : b[k].t # t) => mid[t] = st[t]
    BY <1>1
  <2> HIDE DEF mid
  <2> QED BY <1>1, <1>4, <2>2, <2>3, FitsDistinct
<1>7. x \in Seq(Barrier) /\ Fits(mid, x, low)
  <2>1. \A t \in Textures : mid[t] = IF t = Target(p) THEN "uav" ELSE IF t = Source(p) /\ p > 1 THEN "read" ELSE "common"
    BY <1>2, <1>5
  <2>2. \A t \in Textures : low[t] = IF t = Target(p) THEN "uav" ELSE "common"
    OBVIOUS
  <2> HIDE DEF mid, low
  <2>3. CASE p > 1
    <3> DEFINE c == Transition(Source(p), "read", "common")
               o == <<c>>
    <3>1. c \in Barrier /\ c.t = Source(p) /\ c.before = "read" /\ c.after = "common"
      BY <1>2 DEF Transition, Barrier, Textures, States
    <3>2. x = o
      BY <2>3
    <3> HIDE DEF c
    <3>3. o \in Seq(Barrier) /\ DOMAIN o = {1} /\ o[1] = c
      BY <3>1
    <3> HIDE DEF o
    <3>4. Fits(mid, o, low)
      BY <1>2, <1>4, <2>1, <2>2, <2>3, <3>1, <3>3, FitsDistinct
    <3> QED BY <3>2, <3>3, <3>4
  <2>4. CASE ~(p > 1)
    <3>1. x = <<>> /\ \A t \in Textures : mid[t] = low[t]
      BY <2>1, <2>2, <2>4
    <3>2. mid = low
      BY <1>4, <3>1
    <3> QED BY <1>4, <3>1, <3>2, FitsNone
  <2> QED BY <2>3, <2>4
<1>8. y \in Seq(Barrier) /\ Fits(low, y, Resting)
  <2> DEFINE c == Transition(Target(p), "uav", "common")
             to == Resting
  <2>1. c \in Barrier /\ c.t = Target(p) /\ c.before = "uav" /\ c.after = "common"
    BY <1>2 DEF Transition, Barrier, Textures, States
  <2>2. \A t \in Textures : low[t] = IF t = Target(p) THEN "uav" ELSE "common"
    OBVIOUS
  <2>3. \A t \in Textures : to[t] = "common"
    BY DEF Resting
  <2>4. to \in [Textures -> States]
    BY <1>4
  <2> HIDE DEF c, low, to
  <2>5. y \in Seq(Barrier) /\ DOMAIN y = {1} /\ y[1] = c
    BY <2>1 DEF c
  <2> HIDE DEF y
  <2>6. Fits(low, y, to)
    BY <1>2, <1>4, <2>1, <2>2, <2>3, <2>4, <2>5, FitsDistinct
  <2> QED BY <2>5, <2>6 DEF to
<1> HIDE DEF x, y, mid, low
<1>9. b \o x \in Seq(Barrier) /\ Fits(st, b \o x, low)
  BY <1>1, <1>4, <1>6, <1>7, FitsJoin
<1> DEFINE bx == b \o x
<1>10. bx \in Seq(Barrier) /\ Fits(st, bx, low)
  BY <1>9
<1> HIDE DEF bx
<1>11. bx \o y \in Seq(Barrier) /\ Fits(st, bx \o y, Resting)
  BY <1>4, <1>8, <1>10, FitsJoin
<1> QED BY <1>3, <1>11 DEF bx, st

\* The barriers of the passes 2..n.
Pass(p) == TransitionRefinement(Source(p), Target(p), p > 2)
Bind(n) == [k \in 1..(2 * (n - 1)) |-> Pass((k + 3) \div 2)[((k + 1) % 2) + 1]]

\* Each pass adds its two barriers.
LEMMA PassOf ==
  ASSUME NEW p \in 2..4
  PROVE  Pass(p) \in Seq(Barrier) /\ Len(Pass(p)) = 2
<1>1. Pass(p) \in Seq(Barrier)
  BY PassFits DEF Pass
<1>2. Len(Pass(p)) = 2
  BY DEF Pass, TransitionRefinement
<1> QED BY <1>1, <1>2

LEMMA BindFirst == Bind(1) = <<>>
<1>1. DOMAIN Bind(1) = {}
  BY DEF Bind
<1> QED BY <1>1 DEF Bind

LEMMA BindNext ==
  ASSUME NEW p \in 2..4, Bind(p - 1) \in Seq(Barrier)
  PROVE  Bind(p) = Bind(p - 1) \o Pass(p)
<1> DEFINE x == Pass(p)
           a == Bind(p - 1)
           b == Bind(p)
           c == a \o x
           n == 2 * (p - 2)
<1>1. p \in {2, 3, 4} /\ n \in {0, 2, 4} /\ n \in Nat
  OBVIOUS
<1>2. DOMAIN a = 1..n /\ DOMAIN b = 1..(n + 2)
  BY <1>1 DEF Bind
<1>3. \A k \in 1..n : a[k] = b[k]
  BY <1>1 DEF Bind
<1>4. b[n + 1] = x[1] /\ b[n + 2] = x[2]
  <2>1. CASE p = 2
    BY <2>1 DEF Bind
  <2>2. CASE p = 3
    BY <2>2 DEF Bind
  <2>3. CASE p = 4
    BY <2>3 DEF Bind
  <2> QED BY <1>1, <2>1, <2>2, <2>3
<1>5. b = [k \in 1..(n + 2) |-> b[k]]
  BY <1>2 DEF Bind
<1>6. a \in Seq(Barrier) /\ x \in Seq(Barrier) /\ Len(x) = 2
  BY PassOf
<1> HIDE DEF n, x, a, b
<1>7. Len(a) = n
  BY <1>1, <1>2, <1>6
<1>8. c \in Seq(Barrier) /\ Len(c) = n + 2 /\ (\A k \in 1..n : c[k] = a[k]) /\ c[n + 1] = x[1] /\ c[n + 2] = x[2]
  <2>1. /\ c \in Seq(Barrier) /\ Len(c) = Len(a) + Len(x)
        /\ \A i \in 1..Len(a) + Len(x) : c[i] = IF i <= Len(a) THEN a[i] ELSE x[i - Len(a)]
    BY <1>6, ConcatProperties
  <2> HIDE DEF c
  <2>2. \A k \in 1..(n + 2) : c[k] = IF k <= n THEN a[k] ELSE x[k - n]
    BY <1>6, <1>7, <2>1
  <2>3. (n + 1) - n = 1 /\ (n + 2) - n = 2 /\ n + 1 \in 1..(n + 2) /\ n + 2 \in 1..(n + 2) /\ ~(n + 1 <= n) /\ ~(n + 2 <= n)
    BY <1>1
  <2>4. c[n + 1] = x[1] /\ c[n + 2] = x[2]
    BY <2>2, <2>3
  <2>5. \A k \in 1..n : c[k] = a[k]
    BY <1>1, <2>2
  <2> QED BY <1>6, <1>7, <2>1, <2>4, <2>5
<1> HIDE DEF c
<1>9. c = [k \in 1..(n + 2) |-> c[k]]
  BY <1>8, LenProperties
<1>10. \A k \in 1..(n + 2) : k \in 1..n \/ k = n + 1 \/ k = n + 2
  BY <1>1
<1>11. \A k \in 1..(n + 2) : b[k] = c[k]
  BY <1>3, <1>4, <1>8, <1>10
<1>12. b = c
  BY <1>5, <1>9, <1>11
<1> QED BY <1>12 DEF a, b, c, x

\* The passes up to the n-th, one after the other.
LEMMA BindStep ==
  ASSUME NEW mask \in BOOLEAN, NEW p \in 2..4,
         Bind(p - 1) \in Seq(Barrier), Fits(After(mask, 1), Bind(p - 1), After(mask, p - 1))
  PROVE  Bind(p) \in Seq(Barrier) /\ Fits(After(mask, 1), Bind(p), After(mask, p))
<1> DEFINE a == Bind(p - 1)
           x == Pass(p)
           st == After(mask, 1)
           mid == After(mask, p - 1)
           to == After(mask, p)
<1>1. x \in Seq(Barrier) /\ Fits(mid, x, to)
  BY PassFits DEF Pass
<1>2. Bind(p) = a \o x /\ a \in Seq(Barrier) /\ Fits(st, a, mid)
  BY BindNext
<1>3. st \in [Textures -> States]
  BY StatesOf
<1> HIDE DEF a, x, st, mid, to
<1>4. a \o x \in Seq(Barrier) /\ Fits(st, a \o x, to)
  BY <1>1, <1>2, <1>3, FitsJoin
<1> QED BY <1>2, <1>4 DEF st, to

LEMMA BindFits ==
  ASSUME NEW mask \in BOOLEAN, NEW n \in 1..4
  PROVE  Bind(n) \in Seq(Barrier) /\ Fits(After(mask, 1), Bind(n), After(mask, n))
<1> DEFINE Good(p) == Bind(p) \in Seq(Barrier) /\ Fits(After(mask, 1), Bind(p), After(mask, p))
<1>1. Good(1)
  <2>1. Bind(1) = <<>> /\ <<>> \in Seq(Barrier)
    BY BindFirst
  <2>2. Fits(After(mask, 1), <<>>, After(mask, 1))
    BY StatesOf, FitsNone
  <2> QED BY <2>1, <2>2
<1>2. Good(2)
  <2>1. 2 \in 2..4 /\ 2 - 1 = 1
    OBVIOUS
  <2> QED BY <1>1, <2>1, BindStep
<1>3. Good(3)
  <2>1. 3 \in 2..4 /\ 3 - 1 = 2
    OBVIOUS
  <2> QED BY <1>2, <2>1, BindStep
<1>4. Good(4)
  <2>1. 4 \in 2..4 /\ 4 - 1 = 3
    OBVIOUS
  <2> QED BY <1>3, <2>1, BindStep
<1> HIDE DEF Good
<1>5. n \in {1, 2, 3, 4}
  OBVIOUS
<1>6. Good(n)
  BY <1>1, <1>2, <1>3, <1>4, <1>5
<1> QED BY <1>6 DEF Good

\* The barriers of all passes, one of which may fail.
LEMMA PassesFit ==
  ASSUME NEW mask \in BOOLEAN, NEW passes \in 1..4, NEW failAt \in {0} \cup (2..passes)
  PROVE  \E e \in 1..4 :
            /\ RefinementPasses(passes, failAt).scratch = (e % 2 = 0)
            /\ RefinementPasses(passes, failAt).refined = (e > 1)
            /\ RefinementPasses(passes, failAt).barriers \in Seq(Barrier)
            /\ Fits(After(mask, 1), RefinementPasses(passes, failAt).barriers, After(mask, e))
<1>1. CASE failAt = 0
  <2>1. RefinementPasses(passes, failAt).barriers = Bind(passes) \o <<>>
    BY <1>1 DEF RefinementPasses, Bind, Pass, Source, Target
  <2>2. /\ RefinementPasses(passes, failAt).scratch = (passes % 2 = 0)
        /\ RefinementPasses(passes, failAt).refined = (passes > 1)
    BY <1>1 DEF RefinementPasses
  <2>3. Bind(passes) \in Seq(Barrier) /\ Fits(After(mask, 1), Bind(passes), After(mask, passes))
    BY BindFits
  <2>4. Bind(passes) \o <<>> = Bind(passes)
    BY <2>3
  <2> QED BY <2>1, <2>2, <2>3, <2>4
<1>2. CASE failAt \in 2..passes
  <2> DEFINE e == failAt - 1
             a == Bind(failAt)
             x == TransitionRefinementAbort(Source(failAt), Target(failAt), failAt > 2)
             st == After(mask, 1)
             mid == After(mask, failAt)
             to == After(mask, failAt - 1)
  <2>1. RefinementPasses(passes, failAt).barriers = a \o x
    BY <1>2 DEF RefinementPasses, Bind, Pass, Source, Target
  <2>2. /\ RefinementPasses(passes, failAt).scratch = (e % 2 = 0)
        /\ RefinementPasses(passes, failAt).refined = (e > 1)
    BY <1>2 DEF RefinementPasses
  <2>3. failAt \in 1..4 /\ failAt \in 2..4 /\ e \in 1..4
    BY <1>2
  <2>4. a \in Seq(Barrier) /\ Fits(st, a, mid)
    BY <2>3, BindFits
  <2>5. x \in Seq(Barrier) /\ Fits(mid, x, to)
    BY <2>3, PassFits
  <2>6. st \in [Textures -> States]
    BY StatesOf
  <2> HIDE DEF a, x, st, mid, to
  <2>7. a \o x \in Seq(Barrier) /\ Fits(st, a \o x, to)
    BY <2>4, <2>5, <2>6, FitsJoin
  <2> QED BY <2>1, <2>2, <2>3, <2>7 DEF st, to
<1> QED BY <1>1, <1>2

\* A whole list, recorded in one go or with its beginning already executed, puts everything back.
LEMMA ListFits ==
  ASSUME NEW mask \in BOOLEAN, NEW passes \in 1..4, NEW failAt \in {0} \cup (2..passes),
         NEW st, NEW recorded,
         \/ st = Resting /\ recorded = TransitionInitial(mask)
         \/ st = After(mask, 1) /\ recorded = <<>>
  PROVE  LET r == RefinementPasses(passes, failAt)
             list == recorded \o r.barriers \o TransitionFinish(mask, r.scratch, r.refined)
         IN Replay(st, list).match /\ Replay(st, list).states = Resting
<1> DEFINE r == RefinementPasses(passes, failAt)
           b == r.barriers
           f == TransitionFinish(mask, r.scratch, r.refined)
           open == After(mask, 1)
<1>1. PICK e \in 1..4 :
            /\ r.scratch = (e % 2 = 0) /\ r.refined = (e > 1)
            /\ b \in Seq(Barrier) /\ Fits(open, b, After(mask, e))
  BY PassesFit
<1> DEFINE mid == After(mask, e)
           to == Resting
<1>2. f \in Seq(Barrier) /\ Fits(mid, f, to)
  BY <1>1, FinishFits
<1>3. open \in [Textures -> States] /\ to \in [Textures -> States] /\ Resting \in [Textures -> States]
  BY StatesOf
<1>4. recorded \in Seq(Barrier) /\ Fits(st, recorded, open) /\ st \in [Textures -> States]
  <2>1. CASE st = Resting /\ recorded = TransitionInitial(mask)
    BY <1>3, <2>1, InitialFits
  <2>2. CASE st = open /\ recorded = <<>>
    BY <1>3, <2>2, FitsNone
  <2> QED BY <2>1, <2>2
<1>5. Fits(open, b, mid)
  BY <1>1
<1> HIDE DEF r, b, f, open, mid, to
<1>6. recorded \o b \in Seq(Barrier) /\ Fits(st, recorded \o b, mid)
  BY <1>1, <1>4, <1>5, FitsJoin
<1> DEFINE rb == recorded \o b
<1>7. rb \in Seq(Barrier) /\ Fits(st, rb, mid)
  BY <1>6
<1> HIDE DEF rb
<1>8. Fits(st, rb \o f, to)
  BY <1>2, <1>4, <1>7, FitsJoin
<1>9. Replay(st, rb \o f).match /\ Replay(st, rb \o f).states = to
  BY <1>3, <1>8, FitsIs
<1> QED BY <1>9 DEF rb, to, r, b, f

-----------------------------------------------------------------------------
(* Types.                                                                   *)

\* What is held and which features there are, ...
Owned ==
    /\ held \subseteq AllStages
    /\ features \in [main : {"none", "created", "failed"}, refinement : {"none", "created", "unavailable"},
                     extent : plan.extents \cup {0}]

\* ... how far the counters are, ...
Counted ==
    /\ \A i \in Slot : slots[i].source <= seq.present
    /\ seq.present <= plan.presents /\ seq.consumed <= seq.submission

\* ... which completion values are waited for, ...
Armed ==
    /\ event \in [set : BOOLEAN, armed : SUBSET (1..seq.completion)]
    /\ call.pc \in {"wait", "armed"} => call.target \in 1..seq.completion

\* ... and the states of the textures.
Stated ==
    /\ texture \in [Slot -> [Textures -> States]]
    /\ call.passes \in 1..4
    /\ lapses \subseteq {"staleWake", "abandoned", "releasedEarly", "regrown", "remade", "unsignalled"}

\* Initially all four hold.
LEMMA InitiallyTyped == Init => Owned /\ Counted /\ Armed /\ Stated
<1> SUFFICES ASSUME Init PROVE Owned /\ Counted /\ Armed /\ Stated
  OBVIOUS
<1>1. plan \in Plans /\ plan.presents \in Nat
  BY NgxAssumption DEF Init
<1>2. Owned
  BY DEF Init, Owned, NoFeatures
<1>3. Counted
  BY <1>1 DEF Init, Counted, FreshSlot, FreshSeq
<1>4. Armed
  BY NoCallFits DEF Init, Armed
<1>5. Stated
  <2>1. Resting \in [Textures -> States] /\ texture = [i \in Slot |-> Resting]
    BY StatesOf DEF Init
  <2>2. texture \in [Slot -> [Textures -> States]]
    BY <2>1
  <2> QED BY <2>2 DEF Init, Stated, NoCall
<1> QED BY <1>2, <1>3, <1>4, <1>5

LEMMA OwnedKept == Owned /\ [Next]_vars => Owned'
<1> SUFFICES ASSUME Owned, [Next]_vars PROVE Owned'
  OBVIOUS
<1>1. CASE UNCHANGED <<held, features, plan>>
  BY <1>1 DEF Owned
<1>2. CASE Initialize
  <2>1. \A k \in DOMAIN InitStages : {InitStages[j] : j \in 1..(k - 1)} \subseteq AllStages
    BY DEF AllStages, InitStages
  <2>2. held' \subseteq AllStages
    BY <1>2, <2>1 DEF Initialize
  <2> QED BY <1>2, <2>2 DEF Owned, Initialize
<1>3. CASE Shutdown
  BY <1>3 DEF Shutdown, Owned, NoFeatures
<1>4. ASSUME NEW mode, NEW limit, NEW extent \in plan.extents, Evaluate(mode, limit, extent) PROVE Owned'
  BY <1>4 DEF Evaluate, Owned, NoFeatures
<1>5. CASE EnsureFeature
  BY <1>5 DEF EnsureFeature, Owned
<1>6. CASE EnsureRefinement
  BY <1>6 DEF EnsureRefinement, Owned
<1>7. CASE EvaluateSlot
  <2>1. UNCHANGED <<held, plan>> /\ (features' = features \/ features' = [features EXCEPT !.refinement = "unavailable"])
    BY <1>7 DEF EvaluateSlot
  <2> QED BY <2>1 DEF Owned
<1>8. ASSUME NEW passes, NEW mask, EnsureSlotResources(passes, mask) PROVE Owned'
  BY <1>1, <1>8 DEF EnsureSlotResources
<1>9. CASE Record \/ AlreadyComplete \/ ArmEvent \/ Woken \/ Reselect \/ Show \/ TimedOut \/ ContextStep \/ QueueStep
  BY <1>1, <1>9 DEF Record, AlreadyComplete, ArmEvent, Woken, Reselect, Show, TimedOut, ContextStep, QueueStep
<1>10. CASE UNCHANGED vars
  BY <1>1, <1>10 DEF vars
<1> QED BY <1>2, <1>3, <1>4, <1>5, <1>6, <1>7, <1>8, <1>9, <1>10 DEF Next, CpuStep

\* What Consume has counted is an output that was submitted.
LEMMA ConsumeCounts ==
  ASSUME IInv, Counted, NEW frames \in [Slot -> SlotType], \A i \in Slot : frames[i].submission <= seq.submission,
         NEW c \in CacheType, NEW f \in Nat
  PROVE  Consume(frames, c, f).consumed <= seq.submission
<1> DEFINE fresh == {i \in Slot : frames[i].completion \in 1..f /\ frames[i].submission > seq.consumed}
           latest == CHOOSE i \in fresh : \A j \in fresh : frames[i].submission >= frames[j].submission
           none == fresh = {} \/ ~c.exists \/ frames[latest].final \notin frames[latest].textures
           u == Consume(frames, c, f)
<1>1. seq \in SeqType /\ seq.submission \in Nat
  BY DEF IInv, Typed, SeqType
<1>2. u = IF none THEN [cache |-> c, copies |-> <<>>, consumed |-> seq.consumed]
          ELSE [cache |-> [c EXCEPT !.valid = TRUE, !.present = frames[latest].source],
                copies |-> <<CacheSlot(latest, frames[latest].source)>>, consumed |-> frames[latest].submission]
  BY DEF Consume
<1>3. CASE none
  <2>1. u = [cache |-> c, copies |-> <<>>, consumed |-> seq.consumed]
    <3> HIDE DEF none, u, fresh, latest
    <3> QED BY <1>2, <1>3, Zenon
  <2> HIDE DEF u
  <2>2. u.consumed <= seq.submission
    BY <2>1 DEF Counted
  <2> QED BY <2>2 DEF u
<1>4. CASE ~none
  <2>1. \E i \in fresh : \A j \in fresh : frames[i].submission >= frames[j].submission
    BY <1>1, <1>4, LatestExists
  <2>2. latest \in Slot
    BY <2>1
  <2>3. u.consumed = frames[latest].submission
    <3> HIDE DEF none, u, fresh, latest
    <3> QED BY <1>2, <1>4
  <2> HIDE DEF u, latest
  <2>4. u.consumed <= seq.submission
    BY <2>2, <2>3
  <2> QED BY <2>4 DEF u
<1> QED BY <1>3, <1>4

\* The counters of a step that consumes at most, and leaves sources and Presents alone.
LEMMA CountsKept ==
  ASSUME Counted, plan' = plan, seq'.present = seq.present, seq'.consumed <= seq'.submission,
         \A i \in Slot : slots'[i].source = slots[i].source
  PROVE  Counted'
BY DEF Counted

LEMMA CountedKept == IInv /\ Counted /\ [Next]_vars => Counted'
<1> SUFFICES ASSUME IInv, Counted, [Next]_vars PROVE Counted'
  OBVIOUS
<1>1. /\ seq \in SeqType /\ slots \in [Slot -> SlotType] /\ cache \in CacheType /\ fence.completion \in Nat
      /\ \A i \in Slot : slots[i].submission <= seq.submission
  BY DEF IInv, Typed
<1>2. /\ seq.present \in Nat /\ seq.consumed \in Nat /\ seq.submission \in Nat /\ seq.completion \in Nat /\ seq.producer \in Nat
      /\ plan.presents \in Nat /\ seq.consumed <= seq.submission
  <2>1. seq.present \in Nat /\ seq.consumed \in Nat /\ seq.submission \in Nat /\ seq.completion \in Nat /\ seq.producer \in Nat
    BY <1>1 DEF SeqType
  <2>2. plan.presents \in Nat
    BY NgxAssumption DEF IInv, Typed
  <2> QED BY <2>1, <2>2 DEF Counted
<1>3. \A i \in Slot : slots[i] \in SlotType /\ slots[i].source \in Nat /\ slots[i].submission \in Nat
  BY <1>1 DEF SlotType
<1>4. CASE UNCHANGED <<slots, seq, plan>>
  BY <1>4 DEF Counted
<1>5. CASE Shutdown
  BY <1>1, <1>2, <1>5 DEF Shutdown, Counted, FreshSlot, FreshSeq
<1>6. ASSUME NEW mode, NEW limit, NEW extent, Evaluate(mode, limit, extent) PROVE Counted'
  <2> DEFINE resized == extent # features.extent
             frames  == IF resized THEN [i \in Slot |-> [slots[i] EXCEPT !.completion = 0, !.submission = 0, !.textures = {}, !.final = "output"]] ELSE slots
             created == NeedsCache(mode) /\ (resized \/ ~cache.exists)
             kept    == IF created THEN [exists |-> TRUE, valid |-> FALSE, present |-> cache.present]
                        ELSE IF NeedsCache(mode) THEN cache ELSE NoCache
             n == seq.present + 1
             b == Consume(frames, kept, fence.completion).consumed
  <2>1. seq' = [seq EXCEPT !.present = n, !.consumed = b] /\ plan' = plan /\ slots' = frames /\ seq.present < plan.presents
    BY <1>6 DEF Evaluate
  <2>2. \A i \in Slot : frames[i] \in SlotType /\ frames[i].source = slots[i].source /\ frames[i].submission <= seq.submission
    <3>1. ASSUME NEW i \in Slot, NEW s, s = [slots[i] EXCEPT !.completion = 0, !.submission = 0, !.textures = {}, !.final = "output"]
          PROVE  s \in SlotType /\ s.source = slots[i].source /\ s.submission = 0
      BY <1>3, <3>1 DEF SlotType
    <3>2. CASE resized
      <4>1. \A i \in Slot : frames[i] = [slots[i] EXCEPT !.completion = 0, !.submission = 0, !.textures = {}, !.final = "output"]
        BY <3>2
      <4> HIDE DEF frames
      <4> SUFFICES ASSUME NEW i \in Slot
                   PROVE  frames[i] \in SlotType /\ frames[i].source = slots[i].source /\ frames[i].submission <= seq.submission
        OBVIOUS
      <4> DEFINE s == frames[i]
      <4>2. s = [slots[i] EXCEPT !.completion = 0, !.submission = 0, !.textures = {}, !.final = "output"]
        BY <4>1
      <4> HIDE DEF s
      <4>3. s \in SlotType /\ s.source = slots[i].source /\ s.submission = 0
        BY <3>1, <4>2
      <4> QED BY <1>2, <4>3 DEF s
    <3>3. CASE ~resized
      BY <1>1, <1>3, <3>3
    <3> QED BY <3>2, <3>3
  <2>3. frames \in [Slot -> SlotType]
    <3>1. DOMAIN frames = Slot /\ frames = [i \in Slot |-> frames[i]]
      BY <1>1
    <3> HIDE DEF frames
    <3> QED BY <2>2, <3>1
  <2>4. kept \in CacheType
    BY <1>1 DEF CacheType, NoCache
  <2> HIDE DEF frames, kept
  <2>5. b <= seq.submission /\ b \in Nat
    BY <1>1, <1>2, <2>2, <2>3, <2>4, ConsumeCounts, ConsumeFits
  <2>6. n \in Nat /\ n <= plan.presents /\ seq.present <= n
    BY <1>2, <2>1
  <2> HIDE DEF n, b
  <2>7. seq' = [present |-> n, submission |-> seq.submission, consumed |-> b, producer |-> seq.producer, completion |-> seq.completion]
    BY <1>1, <2>1, <2>5, <2>6, NumbersFit, Zenon
  <2>8. \A i \in Slot : slots'[i].source = slots[i].source /\ slots[i].source <= n
    BY <1>2, <1>3, <2>1, <2>2, <2>6 DEF Counted
  <2> QED BY <2>1, <2>5, <2>6, <2>7, <2>8 DEF Counted
<1>7. CASE Reselect
  <2> DEFINE b == Consume(slots, cache, fence.completion).consumed
  <2>1. b <= seq.submission /\ b \in Nat
    BY <1>1, ConsumeCounts, ConsumeFits
  <2>2. seq' = [seq EXCEPT !.consumed = b] /\ UNCHANGED <<slots, plan>>
    BY <1>7 DEF Reselect
  <2> HIDE DEF b
  <2>3. seq'.present = seq.present /\ seq'.consumed = b /\ seq'.submission = seq.submission
    BY <1>1, <2>2 DEF SeqType
  <2> QED BY <2>1, <2>2, <2>3, CountsKept
<1>8. CASE Record
  <2>1. plan' = plan /\ (seq' = seq \/ seq' = [seq EXCEPT !.producer = seq.producer + 1])
        /\ (slots' = slots \/ slots' = [slots EXCEPT ![call.slot].open = TRUE])
    BY <1>8 DEF Record
  <2>2. seq'.present = seq.present /\ seq'.consumed <= seq'.submission
    BY <1>1, <1>2, <2>1 DEF SeqType
  <2>4. \A i \in Slot : slots'[i].source = slots[i].source
    BY <1>1, <1>3, <2>1 DEF SlotType
  <2> QED BY <2>1, <2>2, <2>4, CountsKept
<1>14. ASSUME NEW passes, NEW mask, EnsureSlotResources(passes, mask) PROVE Counted'
  <2>1. PICK some, final :
          \/ slots' = slots
          \/ slots' = [slots EXCEPT ![call.slot].textures = some]
          \/ slots' = [slots EXCEPT ![call.slot].textures = some, ![call.slot].final = final]
    BY <1>14, Zenon DEF EnsureSlotResources
  <2>2. \A i \in Slot : slots'[i].source = slots[i].source
    <3>1. CASE slots' = slots \/ slots' = [slots EXCEPT ![call.slot].textures = some]
      BY <1>1, <1>3, <3>1 DEF SlotType
    <3>2. CASE slots' = [slots EXCEPT ![call.slot].textures = some, ![call.slot].final = final]
      BY <1>1, <1>3, <3>2 DEF SlotType
    <3> QED BY <2>1, <3>1, <3>2
  <2>3. plan' = plan /\ seq' = seq
    BY <1>14 DEF EnsureSlotResources
  <2> QED BY <1>2, <2>2, <2>3, CountsKept
<1>9. CASE EnsureFeature \/ EnsureRefinement
  <2> DEFINE v == seq.completion + 1
  <2>1. /\ plan' = plan /\ (seq' = seq \/ seq' = [seq EXCEPT !.completion = v])
        /\ \/ slots' = slots
           \/ slots' = [slots EXCEPT ![call.slot].open = TRUE]
           \/ slots' = [slots EXCEPT ![call.slot].open = FALSE]
           \/ slots' = [slots EXCEPT ![call.slot].completion = v, ![call.slot].open = FALSE]
    BY <1>9 DEF EnsureFeature, EnsureRefinement, SubmitInitialization, InitializationUnsignalled, SubmitUnsignalled
  <2> HIDE DEF v
  <2>2. seq'.present = seq.present /\ seq'.consumed <= seq'.submission
    BY <1>1, <1>2, <2>1 DEF SeqType
  <2>3. \A i \in Slot : slots'[i].source = slots[i].source
    <3>1. CASE slots' = [slots EXCEPT ![call.slot].completion = v, ![call.slot].open = FALSE]
      BY <1>1, <1>3, <3>1 DEF SlotType
    <3>2. CASE slots' = [slots EXCEPT ![call.slot].open = TRUE] \/ slots' = [slots EXCEPT ![call.slot].open = FALSE]
      BY <1>1, <1>3, <3>2 DEF SlotType
    <3> QED BY <2>1, <3>1, <3>2
  <2> QED BY <2>1, <2>2, <2>3, CountsKept
<1>10. CASE EvaluateSlot
  <2> DEFINE v == seq.completion + 1
             m == seq.submission + 1
             s(f) == [slots[call.slot] EXCEPT !.completion = v, !.open = FALSE, !.final = f, !.source = seq.present,
                                              !.submission = m]
  <2>1. PICK final \in {"output", "scratch"} :
          /\ plan' = plan
          /\ \/ /\ slots' = [slots EXCEPT ![call.slot] = s(final)]
                /\ seq' = [seq EXCEPT !.completion = v, !.submission = m]
             \/ slots' = [slots EXCEPT ![call.slot].open = FALSE, ![call.slot].final = final]
                /\ seq' = [seq EXCEPT !.completion = v]
             \/ slots' = [slots EXCEPT ![call.slot].open = FALSE] /\ seq' = seq
    BY <1>10, Zenon DEF EvaluateSlot, SubmitUnsignalled
  <2>2. call.slot \in Slot
    BY <1>10, CallSlot DEF EvaluateSlot, HasSlot
  <2>3. s(final).source = seq.present
    BY <1>3, <2>2 DEF SlotType
  <2>4. m \in Nat /\ seq.consumed <= m
    BY <1>2
  <2> HIDE DEF v, m, s
  <2>5. CASE /\ slots' = [slots EXCEPT ![call.slot] = s(final)]
             /\ seq' = [seq EXCEPT !.completion = v, !.submission = m]
    <3>1. seq'.present = seq.present /\ seq'.consumed = seq.consumed /\ seq'.submission = m
      BY <1>1, <2>5 DEF SeqType
    <3>2. \A i \in Slot : slots'[i].source <= seq.present
      BY <1>1, <1>2, <2>2, <2>3, <2>5 DEF Counted
    <3> QED BY <1>2, <2>1, <2>4, <3>1, <3>2 DEF Counted
  <2>6. CASE slots' = [slots EXCEPT ![call.slot].open = FALSE] /\ seq' = seq
    <3>1. \A i \in Slot : slots'[i].source = slots[i].source
      BY <1>1, <1>3, <2>6 DEF SlotType
    <3> QED BY <1>2, <2>1, <2>6, <3>1, CountsKept
  <2>7. CASE /\ slots' = [slots EXCEPT ![call.slot].open = FALSE, ![call.slot].final = final]
             /\ seq' = [seq EXCEPT !.completion = v]
    <3>1. \A i \in Slot : slots'[i].source = slots[i].source
      BY <1>1, <1>3, <2>7 DEF SlotType
    <3>2. seq'.present = seq.present /\ seq'.consumed = seq.consumed /\ seq'.submission = seq.submission
      BY <1>1, <2>7 DEF SeqType
    <3> QED BY <1>2, <2>1, <3>1, <3>2, CountsKept
  <2> QED BY <2>1, <2>5, <2>6, <2>7
<1>11. CASE Show
  <2>1. seq' = [seq EXCEPT !.consumed = slots[call.slot].submission] /\ UNCHANGED <<slots, plan>>
    BY <1>11 DEF Show
  <2>2. call.slot \in Slot
    BY <1>11, CallSlot DEF Show, HasSlot
  <2>3. seq'.present = seq.present /\ seq'.consumed = slots[call.slot].submission /\ seq'.submission = seq.submission
    BY <1>1, <2>1 DEF SeqType
  <2> QED BY <1>1, <2>1, <2>2, <2>3, CountsKept
<1>12. CASE Initialize \/ AlreadyComplete \/ ArmEvent \/ Woken \/ TimedOut \/ ContextStep \/ QueueStep
  BY <1>4, <1>12 DEF Initialize, AlreadyComplete, ArmEvent, Woken, TimedOut, ContextStep, QueueStep
<1>13. CASE UNCHANGED vars
  BY <1>4, <1>13 DEF vars
<1> QED BY <1>5, <1>6, <1>7, <1>8, <1>9, <1>10, <1>11, <1>12, <1>13, <1>14 DEF Next, CpuStep

\* A decision to wait is one for a completion value that was handed out.
LEMMA DecideWaits ==
  ASSUME NEW c \in CallType, c.pc = "reselect" \/ c.pc = "idle", NEW frames \in [Slot -> SlotType], NEW f \in Nat, NEW m \in BOOLEAN,
         NEW d, d.active \in Slot, d.slot = 0 => \A i \in 1..d.active : frames[i].completion > f,
         NEW last \in Nat, \A i \in Slot : frames[i].completion \in 0..last
  PROVE  LET e == Decide(c, frames, f, d, m)
         IN /\ e.pc \in {"resources", "idle"} \/ (e.pc = "wait" /\ m)
            /\ e.pc = "wait" => e.target \in 1..last /\ e.slot = c.slot /\ e.next = "reselect"
            /\ e.passes \in {c.passes, 1}
<1> DEFINE e == Decide(c, frames, f, d, m)
<1> DEFINE times == {frames[i].completion : i \in {j \in 1..d.active : frames[j].completion > f}}
<1>1. e = IF d.slot # 0 THEN [c EXCEPT !.pc = "resources", !.slot = d.slot]
          ELSE IF m THEN [c EXCEPT !.pc = "wait", !.target = Min(times), !.next = "reselect"] ELSE NoCall
  BY DEF Decide, Waiting
<1>2. CASE d.slot # 0
  <2>1. e = [c EXCEPT !.pc = "resources", !.slot = d.slot]
    BY <1>1, <1>2
  <2> HIDE DEF e
  <2>2. e.pc = "resources" /\ e.passes = c.passes
    BY <2>1 DEF CallType
  <2> QED BY <2>2 DEF e
<1>3. CASE d.slot = 0 /\ m
  <2>1. 1 \in 1..d.active /\ 1..d.active \subseteq Slot
    BY NgxAssumption DEF Slot
  <2>2. times \in SUBSET Nat /\ times # {} /\ times \subseteq 1..last
    BY <1>3, <2>1
  <2>3. Min(times) \in 1..last
    BY <2>2, MinIsMember
  <2>4. e = [c EXCEPT !.pc = "wait", !.target = Min(times), !.next = "reselect"]
    BY <1>1, <1>3
  <2> HIDE DEF times, e
  <2>5. e.pc = "wait" /\ e.target \in 1..last /\ e.slot = c.slot /\ e.next = "reselect" /\ e.passes = c.passes
    BY <1>3, <2>3, <2>4 DEF CallType
  <2> QED BY <1>3, <2>5 DEF e
<1>4. CASE d.slot = 0 /\ ~m
  BY <1>1, <1>4 DEF NoCall
<1> QED BY <1>2, <1>3, <1>4

\* What a submission leaves of the values waited for.
LEMMA ArmedSubmit ==
  ASSUME Armed, seq.completion \in Nat, event' = event, seq'.completion = seq.completion + 1,
         call'.pc \in {"wait", "armed"} => call'.target = seq.completion + 1
  PROVE  Armed'
BY DEF Armed

\* And a step that waits for nothing.
LEMMA ArmedIdle ==
  ASSUME Armed, event' = event, seq'.completion = seq.completion, call'.pc \notin {"wait", "armed"}
  PROVE  Armed'
BY DEF Armed

LEMMA ArmedKept == IInv /\ Armed /\ [Next]_vars => Armed'
<1> SUFFICES ASSUME IInv, Armed, [Next]_vars PROVE Armed'
  OBVIOUS
<1>1. /\ seq \in SeqType /\ slots \in [Slot -> SlotType] /\ cache \in CacheType /\ fence.completion \in Nat /\ active \in Slot
      /\ call \in CallType /\ \A i \in Slot : slots[i].completion <= seq.completion
  BY DEF IInv, Typed, Bounds
<1>2. seq.completion \in Nat /\ seq.present \in Nat
  BY <1>1 DEF SeqType
<1>3. \A i \in Slot : slots[i] \in SlotType /\ slots[i].completion \in 0..seq.completion
  BY <1>1, <1>2 DEF SlotType
<1>4. CASE UNCHANGED <<seq, event, call>>
  BY <1>4 DEF Armed
<1>5. NoCall.pc = "idle"
  BY NoCallFits
<1>6. CASE Shutdown
  BY <1>6 DEF Shutdown, Armed
<1>7. ASSUME NEW mode \in plan.modes, NEW limit \in plan.limits, NEW extent, Evaluate(mode, limit, extent) PROVE Armed'
  <2> DEFINE resized == extent # features.extent
             frames  == IF resized THEN [i \in Slot |-> [slots[i] EXCEPT !.completion = 0, !.submission = 0, !.textures = {}, !.final = "output"]] ELSE slots
             created == NeedsCache(mode) /\ (resized \/ ~cache.exists)
             kept    == IF created THEN [exists |-> TRUE, valid |-> FALSE, present |-> cache.present]
                        ELSE IF NeedsCache(mode) THEN cache ELSE NoCache
             u       == Consume(frames, kept, fence.completion)
             waits   == WaitsForCurrent(mode, u.cache, CacheAge(u.cache, seq.present + 1))
             d       == SelectSlot(frames, fence.completion, limit)
             c       == [NoCall EXCEPT !.waits = waits, !.caches = NeedsCache(mode), !.limit = limit]
             n       == seq.present + 1
  <2>1. /\ seq' = [seq EXCEPT !.present = n, !.consumed = u.consumed] /\ event' = event
        /\ call' = Decide(c, frames, fence.completion, d, waits)
    BY <1>7 DEF Evaluate
  <2>2. \A i \in Slot : frames[i] \in SlotType /\ frames[i].completion \in 0..seq.completion
    <3>1. ASSUME NEW i \in Slot, NEW s, s = [slots[i] EXCEPT !.completion = 0, !.submission = 0, !.textures = {}, !.final = "output"]
          PROVE  s \in SlotType /\ s.completion = 0
      BY <1>3, <3>1 DEF SlotType
    <3>2. CASE resized
      <4>1. \A i \in Slot : frames[i] = [slots[i] EXCEPT !.completion = 0, !.submission = 0, !.textures = {}, !.final = "output"]
        BY <3>2
      <4> HIDE DEF frames
      <4> SUFFICES ASSUME NEW i \in Slot PROVE frames[i] \in SlotType /\ frames[i].completion \in 0..seq.completion
        OBVIOUS
      <4> DEFINE s == frames[i]
      <4>2. s = [slots[i] EXCEPT !.completion = 0, !.submission = 0, !.textures = {}, !.final = "output"]
        BY <4>1
      <4> HIDE DEF s
      <4>3. s \in SlotType /\ s.completion = 0
        BY <3>1, <4>2
      <4> QED BY <1>2, <4>3 DEF s
    <3>3. CASE ~resized
      BY <1>3, <3>3
    <3> QED BY <3>2, <3>3
  <2>3. frames \in [Slot -> SlotType]
    <3>1. DOMAIN frames = Slot /\ frames = [i \in Slot |-> frames[i]]
      BY <1>1
    <3> HIDE DEF frames
    <3> QED BY <2>2, <3>1
  <2>4. limit \in Limits
    BY NgxAssumption DEF IInv, Typed, Limits
  <2> HIDE DEF frames
  <2>5. d.active \in Slot /\ (d.slot = 0 => \A i \in 1..d.active : frames[i].completion > fence.completion)
    BY <1>1, <2>3, <2>4, SelectFits
  <2>6. waits \in BOOLEAN /\ NeedsCache(mode) \in BOOLEAN
    BY DEF WaitsForCurrent, NeedsCache
  <2> HIDE DEF waits, d
  <2>7. c \in CallType /\ c.pc = "idle"
    BY <2>4, <2>6 DEF NoCall, CallType, Places
  <2> HIDE DEF c
  <2>8. \A i \in Slot : frames[i].completion \in 0..seq.completion
    BY <2>2
  <2> DEFINE e == Decide(c, frames, fence.completion, d, waits)
  <2>9. (e.pc = "wait" => e.target \in 1..seq.completion) /\ (e.pc \in {"resources", "idle"} \/ e.pc = "wait")
    <3>1. c \in CallType /\ (c.pc = "reselect" \/ c.pc = "idle")
      BY <2>7
    <3>2. fence.completion \in Nat /\ seq.completion \in Nat
      BY <1>1, <1>2
    <3>3. waits \in BOOLEAN /\ d.active \in Slot /\ (d.slot = 0 => \A i \in 1..d.active : frames[i].completion > fence.completion)
      BY <2>5, <2>6
    <3> QED BY <2>3, <2>8, <3>1, <3>2, <3>3, DecideWaits
  <2>10. call' = e
    BY <2>1
  <2> HIDE DEF e
  <2>11. seq'.completion = seq.completion
    BY <1>1, <2>1 DEF SeqType
  <2> QED BY <2>1, <2>9, <2>10, <2>11 DEF Armed
<1>8. CASE Reselect
  <2> DEFINE d == SelectSlot(slots, fence.completion, call.limit)
  <2>1. /\ seq' = [seq EXCEPT !.consumed = Consume(slots, cache, fence.completion).consumed] /\ event' = event
        /\ call' = Decide(call, slots, fence.completion, d, FALSE) /\ call.pc = "reselect"
    BY <1>8 DEF Reselect
  <2>2. call.limit \in Limits
    BY <2>1, <1>1 DEF IInv, Typed, CallType
  <2>3. d.active \in Slot /\ (d.slot = 0 => \A i \in 1..d.active : slots[i].completion > fence.completion)
    BY <1>1, <2>2, SelectFits
  <2> HIDE DEF d
  <2> DEFINE m == FALSE
  <2>6. m \in BOOLEAN /\ ~m /\ call' = Decide(call, slots, fence.completion, d, m)
    BY <2>1
  <2> HIDE DEF m
  <2>7. \A i \in Slot : slots[i].completion \in 0..seq.completion
    BY <1>3
  <2> DEFINE e == Decide(call, slots, fence.completion, d, m)
  <2>8. e.pc \in {"resources", "idle"}
    BY <1>1, <1>2, <2>1, <2>3, <2>6, <2>7, DecideWaits
  <2>4. call'.pc \in {"resources", "idle"}
    BY <2>6, <2>8
  <2>5. seq'.completion = seq.completion
    BY <1>1, <2>1 DEF SeqType
  <2> QED BY <2>1, <2>4, <2>5, ArmedIdle
<1>9. CASE Record
  <2>1. /\ event' = event /\ (seq' = seq \/ seq' = [seq EXCEPT !.producer = seq.producer + 1])
        /\ \/ call' = NoCall
           \/ call' = [call EXCEPT !.pc = "feature", !.recorded = TransitionInitial(call.mask)]
    BY <1>9 DEF Record
  <2>2. seq'.completion = seq.completion
    BY <1>1, <2>1 DEF SeqType
  <2>3. call'.pc \in {"feature", "idle"}
    BY <1>1, <1>5, <2>1 DEF CallType
  <2> QED BY <2>1, <2>2, <2>3, ArmedIdle
<1>19. ASSUME NEW passes, NEW mask, EnsureSlotResources(passes, mask) PROVE Armed'
  <2>1. /\ event' = event /\ seq' = seq
        /\ call' = NoCall \/ call' = [call EXCEPT !.pc = "record", !.passes = passes, !.mask = mask]
    BY <1>19 DEF EnsureSlotResources
  <2>2. call'.pc \in {"record", "idle"}
    BY <1>1, <1>5, <2>1 DEF CallType
  <2> QED BY <2>1, <2>2, ArmedIdle
<1>10. CASE EnsureFeature \/ EnsureRefinement
  <2> DEFINE v == seq.completion + 1
  <2>1. /\ event' = event
        /\ \/ seq' = seq /\ (call' = NoCall \/ call' = [call EXCEPT !.pc = "refinement"] \/ call' = [call EXCEPT !.pc = "evaluate"])
           \/ /\ seq' = [seq EXCEPT !.completion = v]
              /\ \/ call' = [[call EXCEPT !.recorded = <<>>] EXCEPT !.pc = "wait", !.target = v, !.next = "refinement"]
                 \/ call' = NoCall
    BY <1>10 DEF EnsureFeature, EnsureRefinement, SubmitInitialization, Waiting, InitializationUnsignalled, SubmitUnsignalled
  <2> HIDE DEF v
  <2>2. CASE seq' = seq /\ (call' = NoCall \/ call' = [call EXCEPT !.pc = "refinement"] \/ call' = [call EXCEPT !.pc = "evaluate"])
    <3>1. call'.pc \notin {"wait", "armed"}
      BY <1>1, <1>5, <2>2 DEF CallType
    <3> QED BY <2>1, <2>2, <3>1, ArmedIdle
  <2>3. CASE /\ seq' = [seq EXCEPT !.completion = v]
             /\ \/ call' = [[call EXCEPT !.recorded = <<>>] EXCEPT !.pc = "wait", !.target = v, !.next = "refinement"]
                \/ call' = NoCall
    <3>1. seq'.completion = v /\ (call'.pc \in {"wait", "armed"} => call'.target = v)
      BY <1>1, <1>5, <2>3 DEF SeqType, CallType
    <3> QED BY <1>2, <2>1, <3>1, ArmedSubmit DEF v
  <2> QED BY <2>1, <2>2, <2>3
<1>11. CASE EvaluateSlot
  <2> DEFINE v == seq.completion + 1
             m == seq.submission + 1
  <2>1. /\ event' = event
        /\ \/ seq' = seq /\ call' = NoCall
           \/ /\ seq' = [seq EXCEPT !.completion = v, !.submission = m] \/ seq' = [seq EXCEPT !.completion = v]
              /\ call' = [call EXCEPT !.pc = "wait", !.target = v, !.next = "show"] \/ call' = NoCall
    BY <1>11, Zenon DEF EvaluateSlot, Waiting, SubmitUnsignalled
  <2> HIDE DEF v, m
  <2>2. CASE seq' = seq /\ call' = NoCall
    BY <1>5, <2>1, <2>2, ArmedIdle
  <2>3. CASE /\ seq' = [seq EXCEPT !.completion = v, !.submission = m] \/ seq' = [seq EXCEPT !.completion = v]
             /\ call' = [call EXCEPT !.pc = "wait", !.target = v, !.next = "show"] \/ call' = NoCall
    <3>1. seq'.completion = v
      BY <1>1, <2>3 DEF SeqType
    <3>2. call'.pc \in {"wait", "armed"} => call'.target = v
      BY <1>1, <1>5, <2>3 DEF CallType
    <3> QED BY <1>2, <2>1, <3>1, <3>2, ArmedSubmit DEF v
  <2> QED BY <2>1, <2>2, <2>3
<1>12. CASE Show
  <2>1. call' = NoCall /\ event' = event /\ seq' = [seq EXCEPT !.consumed = slots[call.slot].submission]
    BY <1>12 DEF Show
  <2>2. seq'.completion = seq.completion
    BY <1>1, <2>1 DEF SeqType
  <2> QED BY <1>5, <2>1, <2>2, ArmedIdle
<1>13. CASE AlreadyComplete \/ Woken
  <2>1. /\ call.pc \in {"wait", "armed"} /\ call' = [call EXCEPT !.pc = call.next] /\ seq' = seq
        /\ event' = event \/ event' = [event EXCEPT !.set = FALSE]
    BY <1>13 DEF AlreadyComplete, Woken
  <2>2. call'.target = call.target
    BY <1>1, <2>1 DEF CallType
  <2> QED BY <2>1, <2>2 DEF Armed
<1>14. CASE ArmEvent
  <2>1. /\ call.pc = "wait" /\ call' = [call EXCEPT !.pc = "armed"] /\ seq' = seq
        /\ event' = [event EXCEPT !.armed = @ \cup {call.target}]
    BY <1>14 DEF ArmEvent
  <2>2. call'.target = call.target
    BY <1>1, <2>1 DEF CallType
  <2>3. call.target \in 1..seq.completion
    BY <2>1 DEF Armed
  <2>4. event' \in [set : BOOLEAN, armed : SUBSET (1..seq.completion)]
    BY <2>1, <2>3 DEF Armed
  <2> QED BY <2>1, <2>2, <2>3, <2>4 DEF Armed
<1>15. CASE TimedOut
  BY <1>5, <1>15, ArmedIdle DEF TimedOut
<1>16. CASE QueueStep
  BY <1>16 DEF QueueStep, Armed
<1>17. CASE Initialize \/ ContextStep
  BY <1>4, <1>17 DEF Initialize, ContextStep
<1>18. CASE UNCHANGED vars
  BY <1>4, <1>18 DEF vars
<1> QED BY <1>6, <1>7, <1>8, <1>9, <1>10, <1>11, <1>12, <1>13, <1>14, <1>15, <1>16, <1>17, <1>18, <1>19 DEF Next, CpuStep

\* The barriers of a call and of a whole list are barriers.
LEMMA RecordedBarriers ==
  ASSUME IInv
  PROVE  call.recorded \in Seq(Barrier) /\ call.mask \in BOOLEAN
<1>1. call.recorded \in {<<>>, TransitionInitial(TRUE), TransitionInitial(FALSE)} /\ call.mask \in BOOLEAN
  BY DEF IInv, Typed, CallType
<1>2. TransitionInitial(TRUE) \in Seq(Barrier) /\ TransitionInitial(FALSE) \in Seq(Barrier)
  BY InitialFits
<1> DEFINE a == TransitionInitial(TRUE)
           b == TransitionInitial(FALSE)
<1>3. a \in Seq(Barrier) /\ b \in Seq(Barrier)
  BY <1>2, Zenon
<1>5. <<>> \in Seq(Barrier)
  OBVIOUS
<1>6. call.recorded \in {<<>>, a, b}
  BY <1>1, Zenon
<1> HIDE DEF a, b
<1>4. call.recorded \in Seq(Barrier)
  BY <1>3, <1>5, <1>6
<1> QED BY <1>1, <1>4

LEMMA ListBarriers ==
  ASSUME NEW mask \in BOOLEAN, NEW passes \in 1..4, NEW failAt \in {0} \cup (2..passes), NEW a \in Seq(Barrier)
  PROVE  LET r == RefinementPasses(passes, failAt) IN a \o r.barriers \o TransitionFinish(mask, r.scratch, r.refined) \in Seq(Barrier)
<1> DEFINE r == RefinementPasses(passes, failAt)
           b == r.barriers
           f == TransitionFinish(mask, r.scratch, r.refined)
<1>1. PICK e \in 1..4 : r.scratch = (e % 2 = 0) /\ r.refined = (e > 1) /\ b \in Seq(Barrier)
  BY PassesFit
<1>2. f \in Seq(Barrier)
  BY <1>1, FinishFits
<1> HIDE DEF b, f
<1>3. (a \o b) \o f \in Seq(Barrier)
  BY <1>1, <1>2
<1> QED BY <1>3 DEF b, f

\* Executing a list.
LEMMA SubmitStates ==
  ASSUME texture \in [Slot -> [Textures -> States]], call.slot \in Slot, NEW b \in Seq(Barrier), Execute(b)
  PROVE  /\ texture' = [texture EXCEPT ![call.slot] = Replay(texture[call.slot], b).states]
         /\ texture' \in [Slot -> [Textures -> States]]
         /\ barriersMatch' = (barriersMatch /\ Replay(texture[call.slot], b).match)
<1> DEFINE st == texture[call.slot]
           to == Replay(st, b).states
<1>1. texture' = [texture EXCEPT ![call.slot] = to] /\ barriersMatch' = (barriersMatch /\ Replay(st, b).match)
  BY Zenon DEF Execute
<1>2. to \in [Textures -> States]
  BY ReplayTyped
<1> HIDE DEF st, to
<1>3. texture' \in [Slot -> [Textures -> States]]
  BY <1>1, <1>2
<1> QED BY <1>1, <1>3 DEF st, to

\* A step that resets no texture, or resets some.
LEMMA StatesKept ==
  ASSUME Stated, texture' = texture \/ texture' = [i \in Slot |-> Resting] \/ \E i \in Slot : texture' = [texture EXCEPT ![i] = Resting],
         call'.passes \in {call.passes, 1},
         lapses' \subseteq lapses \cup {"staleWake", "abandoned", "releasedEarly", "regrown", "remade", "unsignalled"}
  PROVE  Stated'
<1>1. Resting \in [Textures -> States]
  BY StatesOf
<1>2. texture' \in [Slot -> [Textures -> States]]
  <2>1. CASE texture' = texture
    BY <2>1 DEF Stated
  <2>2. CASE texture' = [i \in Slot |-> Resting]
    BY <1>1, <2>2
  <2>3. CASE \E i \in Slot : texture' = [texture EXCEPT ![i] = Resting]
    BY <1>1, <2>3 DEF Stated
  <2> QED BY <2>1, <2>2, <2>3
<1> QED BY <1>2 DEF Stated

\* The list of an initialization and that of an evaluation.
LEMMA InitializationSubmits ==
  ASSUME IInv, call.slot \in Slot, SubmitInitialization
  PROVE  /\ call.recorded \in Seq(Barrier) /\ Execute(call.recorded) /\ lapses' = lapses
         /\ call' = [[call EXCEPT !.recorded = <<>>] EXCEPT !.pc = "wait", !.target = seq.completion + 1, !.next = "refinement"]
         /\ call'.pc = "wait" /\ call'.next = "refinement" /\ call'.recorded = <<>> /\ call'.passes = call.passes
         /\ call'.mask = call.mask /\ call'.slot = call.slot
<1>1. call.recorded \in Seq(Barrier) /\ call \in CallType
  BY RecordedBarriers DEF IInv, Typed
<1>2. /\ Execute(call.recorded) /\ lapses' = lapses
      /\ call' = [[call EXCEPT !.recorded = <<>>] EXCEPT !.pc = "wait", !.target = seq.completion + 1, !.next = "refinement"]
  BY DEF SubmitInitialization, Waiting, Submit
<1>3. /\ call'.pc = "wait" /\ call'.next = "refinement" /\ call'.recorded = <<>> /\ call'.passes = call.passes
      /\ call'.mask = call.mask /\ call'.slot = call.slot
  <2> DEFINE v == seq.completion + 1
  <2>1. call' = [[call EXCEPT !.recorded = <<>>] EXCEPT !.pc = "wait", !.target = v, !.next = "refinement"]
    BY <1>2
  <2> HIDE DEF v
  <2> QED BY <1>1, <2>1 DEF CallType
<1> QED BY <1>1, <1>2, <1>3

\* A lapse that leaves textures other than at rest is an abandoned call.
Unfinished == IF texture'[call.slot] = Resting THEN {} ELSE {"abandoned"}
LEMMA InitializationLapses ==
  ASSUME IInv, InitializationUnsignalled
  PROVE  call.recorded \in Seq(Barrier) /\ Execute(call.recorded) /\ call' = NoCall /\ lapses' = lapses \cup {"unsignalled"} \cup Unfinished
BY RecordedBarriers DEF InitializationUnsignalled, SubmitUnsignalled, Unfinished

LEMMA EvaluationSubmits ==
  ASSUME IInv, Stated, EvaluateSlot
  PROVE  \/ \E passes \in 1..4 : \E failAt \in {0} \cup (2..passes) :
              LET r == RefinementPasses(passes, failAt)
                  b == call.recorded \o r.barriers \o TransitionFinish(call.mask, r.scratch, r.refined)
              IN b \in Seq(Barrier) /\ Execute(b) /\ (lapses' = lapses \/ lapses' = lapses \cup {"unsignalled"} \cup Unfinished)
         \/ UNCHANGED <<texture, barriersMatch>> /\ lapses' = Abandoned
<1> DEFINE passes == IF features.refinement = "created" THEN call.passes ELSE 1
           List(failAt) == call.recorded \o RefinementPasses(passes, failAt).barriers
                             \o TransitionFinish(call.mask, RefinementPasses(passes, failAt).scratch, RefinementPasses(passes, failAt).refined)
           Outcome == lapses' = lapses \/ lapses' = lapses \cup {"unsignalled"} \cup Unfinished
<1>1. passes \in 1..4
  BY DEF Stated
<1>2. \/ \E failAt \in {0} \cup (2..passes) : Execute(List(failAt)) /\ Outcome
      \/ UNCHANGED <<texture, barriersMatch>> /\ lapses' = Abandoned
  <2>1. CASE UNCHANGED <<texture, barriersMatch>> /\ lapses' = Abandoned
    BY <2>1
  <2>2. ASSUME NEW failAt \in {0} \cup (IF "refine" \in plan.faults THEN 2..passes ELSE {}),
               \/ Submit(Evaluation(call.slot, seq.present), List(failAt)) /\ UNCHANGED lapses
               \/ SubmitUnsignalled(Evaluation(call.slot, seq.present), List(failAt))
        PROVE  \E f \in {0} \cup (2..passes) : Execute(List(f)) /\ Outcome
    <3>1. failAt \in {0} \cup (2..passes)
      BY <2>2
    <3> HIDE DEF List, passes
    <3>2. Execute(List(failAt)) /\ Outcome
      BY <2>2, Zenon DEF Submit, SubmitUnsignalled, Unfinished
    <3> QED BY <3>1, <3>2, Zenon
  <2> QED BY <2>1, <2>2, Zenon DEF EvaluateSlot
<1> HIDE DEF passes
<1>3. ASSUME NEW failAt \in {0} \cup (2..passes) PROVE List(failAt) \in Seq(Barrier)
  BY <1>1, RecordedBarriers, ListBarriers
<1> QED BY <1>1, <1>2, <1>3, Zenon

LEMMA StatedKept == IInv /\ Stated /\ [Next]_vars => Stated'
<1> SUFFICES ASSUME IInv, Stated, [Next]_vars PROVE Stated'
  OBVIOUS
<1>1. /\ seq \in SeqType /\ slots \in [Slot -> SlotType] /\ cache \in CacheType /\ fence.completion \in Nat /\ active \in Slot
      /\ call \in CallType
  BY DEF IInv, Typed
<1>2. NoCall.passes = 1
  BY DEF NoCall
<1>3. CASE Initialize \/ ContextStep \/ QueueStep
  BY <1>3, StatesKept DEF Initialize, ContextStep, QueueStep
<1>4. CASE Shutdown
  BY <1>4, StatesKept DEF Shutdown, AwaitSubmittedWork
<1>5. ASSUME NEW mode, NEW limit, NEW extent, Evaluate(mode, limit, extent) PROVE Stated'
  <2>1. texture' = texture \/ texture' = [i \in Slot |-> Resting]
    BY <1>5 DEF Evaluate
  <2>2. lapses' \subseteq lapses \cup {"staleWake", "abandoned", "releasedEarly", "regrown", "remade", "unsignalled"}
    BY <1>5 DEF Evaluate, AwaitSubmittedWork, Regrown
  <2>3. call'.passes = 1
    <3>1. PICK waits, frames, d : call' = Decide([NoCall EXCEPT !.waits = waits, !.caches = NeedsCache(mode), !.limit = limit],
                                                frames, fence.completion, d, waits)
      BY <1>5 DEF Evaluate
    <3> DEFINE t == Min({frames[i].completion : i \in {j \in 1..d.active : frames[j].completion > fence.completion}})
               c == [NoCall EXCEPT !.waits = waits, !.caches = NeedsCache(mode), !.limit = limit]
    <3>2. call' = IF d.slot # 0 THEN [c EXCEPT !.pc = "resources", !.slot = d.slot]
                  ELSE IF waits THEN [c EXCEPT !.pc = "wait", !.target = t, !.next = "reselect"] ELSE NoCall
      BY <3>1 DEF Decide, Waiting
    <3> HIDE DEF t
    <3>3. c.passes = 1
      BY DEF NoCall
    <3> QED BY <1>2, <3>2, <3>3 DEF NoCall
  <2> QED BY <2>1, <2>2, <2>3, StatesKept
<1>6. CASE Reselect
  <2>1. texture' = texture
    BY <1>6 DEF Reselect
  <2>2. lapses' \subseteq lapses \cup {"staleWake", "abandoned", "releasedEarly", "regrown", "remade", "unsignalled"}
    BY <1>6 DEF Reselect, Regrown
  <2>3. call'.passes \in {call.passes, 1}
    <3> DEFINE d == SelectSlot(slots, fence.completion, call.limit)
    <3>1. call' = Decide(call, slots, fence.completion, d, FALSE)
      BY <1>6 DEF Reselect
    <3> HIDE DEF d
    <3>2. call' = IF d.slot # 0 THEN [call EXCEPT !.pc = "resources", !.slot = d.slot] ELSE NoCall
      BY <3>1 DEF Decide
    <3> QED BY <1>1, <1>2, <3>2 DEF CallType
  <2> QED BY <2>1, <2>2, <2>3, StatesKept
<1>7. ASSUME NEW passes \in plan.passes, NEW mask, EnsureSlotResources(passes, mask) PROVE Stated'
  <2>1. call.slot \in Slot
    BY <1>7, CallSlot DEF EnsureSlotResources, HasSlot
  <2>2. passes \in 1..4
    BY NgxAssumption DEF IInv, Typed
  <2>3. /\ texture' = texture \/ texture' = [texture EXCEPT ![call.slot] = Resting]
        /\ lapses' = lapses \/ lapses' = lapses \cup {"remade"}
        /\ \/ call' = NoCall
           \/ call' = [call EXCEPT !.pc = "record", !.passes = passes, !.mask = mask]
    BY <1>7 DEF EnsureSlotResources, DropsOutput
  <2>4. texture' \in [Slot -> [Textures -> States]]
    BY <2>3, StatesOf DEF Stated
  <2>5. call'.passes \in 1..4
    <3>1. ASSUME call' = [call EXCEPT !.pc = "record", !.passes = passes, !.mask = mask] PROVE call'.passes = passes
      BY <1>1, <3>1 DEF CallType
    <3> QED BY <1>2, <2>2, <2>3, <3>1
  <2> QED BY <2>3, <2>4, <2>5 DEF Stated
<1>13. CASE Record
  <2>1. /\ texture' = texture /\ lapses' = lapses
        /\ \/ call' = NoCall
           \/ call' = [call EXCEPT !.pc = "feature", !.recorded = TransitionInitial(call.mask)]
    BY <1>13 DEF Record
  <2>2. call'.passes \in {call.passes, 1}
    <3> DEFINE a == TransitionInitial(call.mask)
    <3>1. call' = NoCall \/ call' = [call EXCEPT !.pc = "feature", !.recorded = a]
      BY <2>1
    <3> HIDE DEF a
    <3> QED BY <1>1, <1>2, <3>1 DEF CallType
  <2> QED BY <2>1, <2>2, StatesKept
<1>8. CASE EnsureFeature \/ EnsureRefinement
  <2>1. call.slot \in Slot
    BY <1>8, CallSlot DEF EnsureFeature, EnsureRefinement, HasSlot
  <2>2. CASE SubmitInitialization
    <3>1. call.recorded \in Seq(Barrier) /\ Execute(call.recorded) /\ call'.passes = call.passes /\ lapses' = lapses
      BY <2>1, <2>2, InitializationSubmits
    <3>2. texture' \in [Slot -> [Textures -> States]]
      BY <2>1, <3>1, SubmitStates DEF Stated
    <3> QED BY <2>1, <3>1, <3>2 DEF Stated
  <2>3. CASE /\ texture' = texture /\ lapses' = lapses
             /\ call' = NoCall \/ call' = [call EXCEPT !.pc = "refinement"] \/ call' = [call EXCEPT !.pc = "evaluate"]
    <3>1. call'.passes \in {call.passes, 1}
      BY <1>1, <1>2, <2>3 DEF CallType
    <3> QED BY <2>1, <2>3, <3>1, StatesKept
  <2>4. CASE InitializationUnsignalled
    <3>1. call.recorded \in Seq(Barrier) /\ Execute(call.recorded) /\ call'.passes = 1
          /\ lapses' = lapses \cup {"unsignalled"} \cup Unfinished
      BY <1>2, <2>4, InitializationLapses
    <3>2. texture' \in [Slot -> [Textures -> States]]
      BY <2>1, <3>1, SubmitStates DEF Stated
    <3> QED BY <3>1, <3>2 DEF Stated, Unfinished
  <2> QED BY <1>8, <2>2, <2>3, <2>4 DEF EnsureFeature, EnsureRefinement
<1>9. CASE EvaluateSlot
  <2>1. call.slot \in Slot
    BY <1>9, CallSlot DEF EvaluateSlot, HasSlot
  <2>2. texture' \in [Slot -> [Textures -> States]]
    <3>1. \/ \E b \in Seq(Barrier) : Execute(b)
          \/ texture' = texture
      BY <1>9, EvaluationSubmits, Zenon
    <3> QED BY <2>1, <3>1, SubmitStates DEF Stated
  <2>3. lapses' = lapses \/ lapses' = Abandoned \/ lapses' = lapses \cup {"unsignalled"} \cup Unfinished
    BY <1>9, EvaluationSubmits, Zenon
  <2>4. call' = NoCall \/ call' = [call EXCEPT !.pc = "wait", !.target = seq.completion + 1, !.next = "show"]
    BY <1>9, Zenon DEF EvaluateSlot, Waiting, SubmitUnsignalled
  <2>5. call'.passes \in {call.passes, 1}
    <3> DEFINE v == seq.completion + 1
    <3>1. call' = NoCall \/ call' = [call EXCEPT !.pc = "wait", !.target = v, !.next = "show"]
      BY <2>4
    <3> HIDE DEF v
    <3> QED BY <1>1, <1>2, <3>1 DEF CallType
  <2>6. lapses' \subseteq lapses \cup {"abandoned", "unsignalled"}
    BY <2>3 DEF Abandoned, Unfinished
  <2>7. call'.passes \in 1..4
    BY <2>5 DEF Stated
  <2> QED BY <2>2, <2>6, <2>7 DEF Stated
<1>10. CASE Show \/ TimedOut
  <2>1. call' = NoCall /\ texture' = texture /\ (lapses' = lapses \/ lapses' = Abandoned)
    BY <1>10 DEF Show, TimedOut
  <2> QED BY <1>2, <2>1, StatesKept DEF Abandoned
<1>11. CASE AlreadyComplete \/ ArmEvent \/ Woken
  <2>1. /\ texture' = texture /\ (lapses' = lapses \/ lapses' = lapses \cup {"staleWake"})
        /\ call' = [call EXCEPT !.pc = call.next] \/ call' = [call EXCEPT !.pc = "armed"]
    BY <1>11 DEF AlreadyComplete, ArmEvent, Woken
  <2>2. call'.passes = call.passes
    BY <1>1, <2>1 DEF CallType
  <2> QED BY <2>1, <2>2, StatesKept
<1>12. CASE UNCHANGED vars
  BY <1>12, StatesKept DEF vars
<1> QED BY <1>3, <1>4, <1>5, <1>6, <1>7, <1>8, <1>9, <1>10, <1>11, <1>12, <1>13 DEF Next, CpuStep

\* The four and the invariant are the type invariant.
LEMMA TypesHold == IInv /\ Owned /\ Counted /\ Armed /\ Stated => TypeOK
<1> SUFFICES ASSUME IInv, Owned, Counted, Armed, Stated PROVE TypeOK
  OBVIOUS
<1>1. /\ slots \in [Slot -> SlotType] /\ active \in Slot /\ seq \in SeqType /\ fence \in [producer : Nat, completion : Nat]
      /\ fence.completion <= seq.completion /\ fence.producer <= seq.producer /\ plan \in Plans
  BY DEF IInv, Typed, Bounds
<1>2. seq.present \in Nat /\ seq.consumed \in Nat /\ seq.submission \in Nat /\ seq.completion \in Nat /\ seq.producer \in Nat
  BY <1>1 DEF SeqType
<1>3. plan.presents \in Nat
  BY <1>1, NgxAssumption
<1>4. slots \in [Slot -> [completion : Nat, submission : Nat, source : 0..plan.presents, open : BOOLEAN, textures : SUBSET Textures, final : {"output", "scratch"}]]
  <2> SUFFICES ASSUME NEW i \in Slot
               PROVE  slots[i] \in [completion : Nat, submission : Nat, source : 0..plan.presents, open : BOOLEAN, textures : SUBSET Textures, final : {"output", "scratch"}]
    BY <1>1
  <2>1. slots[i] \in SlotType
    BY <1>1
  <2>2. slots[i].source \in Nat
    BY <2>1 DEF SlotType
  <2>3. slots[i].source \in 0..plan.presents
    BY <1>2, <1>3, <2>2 DEF Counted
  <2> QED BY <2>1, <2>3 DEF SlotType
<1>5. active \in 1..FrameSlots /\ seq.present \in 0..plan.presents /\ seq.consumed \in 0..seq.submission
  BY <1>1, <1>2, <1>3 DEF Counted, Slot
<1>6. fence.completion \in 0..seq.completion /\ fence.producer \in 0..seq.producer
  BY <1>1, <1>2
<1>7. event.armed \subseteq 1..seq.completion
  BY DEF Armed
<1>8. texture \in [Slot -> [Textures -> {"common", "read", "uav"}]]
  BY DEF Stated, States
<1> QED BY <1>4, <1>5, <1>6, <1>7, <1>8 DEF TypeOK, Owned, Stated

\* The variables keep their types.
THEOREM TypeCorrect == Spec => []TypeOK
<1>1. Init => Owned /\ Counted /\ Armed /\ Stated
  BY InitiallyTyped
<1>2. IInv /\ Owned /\ Counted /\ Armed /\ Stated /\ [Next]_vars => (Owned /\ Counted /\ Armed /\ Stated)'
  BY OwnedKept, CountedKept, ArmedKept, StatedKept
<1>3. IInv /\ Owned /\ Counted /\ Armed /\ Stated => TypeOK
  BY TypesHold
<1> QED BY <1>1, <1>2, <1>3, Invariant, PTL DEF Spec

-----------------------------------------------------------------------------
(* Barriers match.                                                          *)

\* The beginning of the list has been executed with the initialization of a feature.
Begun == Preparing /\ call.recorded = <<>>

\* Every barrier matched so far, and only the textures of a begun call are not at rest.
Tidy ==
    "abandoned" \notin lapses =>
        /\ barriersMatch
        /\ \A i \in Slot : texture[i] = IF Begun /\ i = call.slot THEN After(call.mask, 1) ELSE Resting
        /\ call.pc = "feature" => call.recorded # <<>>
        /\ Preparing => call.recorded \in {<<>>, TransitionInitial(call.mask)}
        /\ call.pc \in {"wait", "armed"} /\ call.next = "refinement" => call.recorded = <<>>

\* A begun list has moved its textures, and a recorded one is not empty.
LEMMA BeginningMoves ==
  ASSUME NEW mask \in BOOLEAN
  PROVE  After(mask, 1) # Resting /\ TransitionInitial(mask) # <<>>
<1>1. After(mask, 1) # Resting
  <2> DEFINE a == After(mask, 1)
             r == Resting
  <2>1. a["output"] = "uav"
    BY PassNumbers DEF After, IsGuide, Textures
  <2>2. r["output"] = "common"
    BY DEF Resting, Textures
  <2> HIDE DEF a, r
  <2>3. a # r
    BY <2>1, <2>2
  <2> QED BY <2>3 DEF a, r
<1>2. TransitionInitial(mask) # <<>>
  <2> DEFINE i == TransitionInitial(mask)
             to == After(mask, 1)
             st == Resting
  <2>1. Fits(st, i, to) /\ st # to /\ st \in [Textures -> States] /\ to \in [Textures -> States]
    BY <1>1, InitialFits, StatesOf
  <2> HIDE DEF i, to, st
  <2>2. i # <<>>
    <3> SUFFICES ASSUME i = <<>> PROVE FALSE
      OBVIOUS
    <3>1. Fits(st, <<>>, to) /\ Fits(st, <<>>, st)
      BY <2>1, FitsNone
    <3>2. Replay(st, <<>>).states = to /\ Replay(st, <<>>).states = st
      BY <2>1, <3>1, FitsIs
    <3> QED BY <2>1, <3>2
  <2> QED BY <2>2 DEF i
<1> QED BY <1>1, <1>2

\* What follows a decision prepares nothing, and shows nothing.
LEMMA DecidedFits ==
  ASSUME NEW c, NEW frames, NEW f, NEW d, NEW m, NEW e, e = Decide(c, frames, f, d, m),
         c \in CallType \/ \E w, n, l : c = [NoCall EXCEPT !.waits = w, !.caches = n, !.limit = l]
  PROVE  \/ e = NoCall
         \/ e.pc = "resources"
         \/ e.pc = "wait" /\ e.next = "reselect"
<1> DEFINE t == Min({frames[i].completion : i \in {j \in 1..d.active : frames[j].completion > f}})
<1>1. e = IF d.slot # 0 THEN [c EXCEPT !.pc = "resources", !.slot = d.slot]
          ELSE IF m THEN [c EXCEPT !.pc = "wait", !.target = t, !.next = "reselect"] ELSE NoCall
  BY DEF Decide, Waiting
<1> HIDE DEF t
<1>2. CASE c \in CallType
  BY <1>1, <1>2 DEF CallType
<1>3. CASE \E w, n, l : c = [NoCall EXCEPT !.waits = w, !.caches = n, !.limit = l]
  BY <1>1, <1>3 DEF NoCall
<1> QED BY <1>2, <1>3

LEMMA EvaluateDecides ==
  ASSUME NEW mode, NEW limit, NEW extent, Evaluate(mode, limit, extent)
  PROVE  call.pc = "idle" /\ (call' = NoCall \/ call'.pc = "resources" \/ (call'.pc = "wait" /\ call'.next = "reselect"))
<1>1. call.pc = "idle"
  BY DEF Evaluate
<1>2. PICK w, frames, d : call' = Decide([NoCall EXCEPT !.waits = w, !.caches = NeedsCache(mode), !.limit = limit],
                                        frames, fence.completion, d, w)
  BY DEF Evaluate
<1> DEFINE c == [NoCall EXCEPT !.waits = w, !.caches = NeedsCache(mode), !.limit = limit]
<1>3. \E x, n, l : c = [NoCall EXCEPT !.waits = x, !.caches = n, !.limit = l]
  OBVIOUS
<1>4. call' = Decide(c, frames, fence.completion, d, w)
  BY <1>2
<1> HIDE DEF c
<1>5. \/ call' = NoCall
      \/ call'.pc = "resources"
      \/ call'.pc = "wait" /\ call'.next = "reselect"
  BY <1>3, <1>4, DecidedFits, ZenonT(30)
<1> QED BY <1>1, <1>5

LEMMA ReselectDecides ==
  ASSUME IInv, Reselect
  PROVE  call.pc = "reselect" /\ (call' = NoCall \/ call'.pc = "resources" \/ (call'.pc = "wait" /\ call'.next = "reselect"))
<1>1. call.pc = "reselect" /\ call \in CallType
  BY DEF Reselect, IInv, Typed
<1> DEFINE d == SelectSlot(slots, fence.completion, call.limit)
<1>2. call' = IF d.slot # 0 THEN [call EXCEPT !.pc = "resources", !.slot = d.slot] ELSE NoCall
  BY DEF Reselect, Decide
<1> HIDE DEF d
<1>3. call' = NoCall \/ call'.pc = "resources"
  BY <1>1, <1>2 DEF CallType
<1> QED BY <1>1, <1>3

\* A step outside a list's preparation finds its textures at rest and leaves them so.
LEMMA RestKept ==
  ASSUME Tidy, texture \in [Slot -> [Textures -> States]], ~Begun, ~Preparing', lapses \subseteq lapses', barriersMatch' = barriersMatch,
         texture' = texture \/ texture' = [i \in Slot |-> Resting] \/ \E i \in Slot : texture' = [texture EXCEPT ![i] = Resting]
  PROVE  Tidy'
<1> SUFFICES ASSUME "abandoned" \notin lapses' PROVE Tidy'
  BY DEF Tidy
<1>1. barriersMatch /\ \A i \in Slot : texture[i] = Resting
  BY DEF Tidy
<1>2. \A i \in Slot : texture'[i] = Resting
  BY <1>1
<1>3. call'.pc # "feature" /\ ~(call'.pc \in {"wait", "armed"} /\ call'.next = "refinement")
  BY DEF Preparing
<1> QED BY <1>1, <1>2, <1>3 DEF Tidy, Begun

\* Executing the list of an initialization begins it, if it is not begun.
LEMMA InitializationBegins ==
  ASSUME IInv, Stated, Tidy, "abandoned" \notin lapses, Preparing, call.slot \in Slot, Execute(call.recorded)
  PROVE  /\ barriersMatch' /\ texture' = [texture EXCEPT ![call.slot] = After(call.mask, 1)]
         /\ \A i \in Slot : i # call.slot => texture[i] = Resting
<1> DEFINE s == call.slot
           a == After(call.mask, 1)
           b == call.recorded
<1>1. b \in Seq(Barrier) /\ call.mask \in BOOLEAN
  BY RecordedBarriers
<1>2. /\ texture' = [texture EXCEPT ![s] = Replay(texture[s], b).states] /\ texture \in [Slot -> [Textures -> States]]
      /\ barriersMatch' = (barriersMatch /\ Replay(texture[s], b).match)
  BY <1>1, SubmitStates DEF Stated
<1>3. /\ barriersMatch /\ (b = <<>> \/ b = TransitionInitial(call.mask))
      /\ \A i \in Slot : texture[i] = IF b = <<>> /\ i = s THEN a ELSE Resting
  BY DEF Tidy, Begun
<1>5. a \in [Textures -> States] /\ Resting \in [Textures -> States]
  BY <1>1, StatesOf
<1>6. Fits(texture[s], b, a)
  <2>1. CASE b = <<>>
    <3>1. texture[s] = a /\ Fits(a, <<>>, a)
      BY <1>3, <1>5, <2>1, FitsNone
    <3> HIDE DEF a, b, s
    <3> QED BY <2>1, <3>1
  <2>2. CASE b # <<>>
    <3>1. texture[s] = Resting /\ b = TransitionInitial(call.mask)
      BY <1>3, <2>2
    <3>2. Fits(Resting, TransitionInitial(call.mask), a)
      BY <1>1, InitialFits
    <3> HIDE DEF a, b, s
    <3> QED BY <3>1, <3>2
  <2> QED BY <2>1, <2>2
<1> HIDE DEF a, b
<1>7. Replay(texture[s], b).states = a /\ Replay(texture[s], b).match
  BY <1>5, <1>6, FitsIs
<1>8. texture' = [texture EXCEPT ![s] = a] /\ barriersMatch'
  BY <1>2, <1>3, <1>7
<1>9. \A i \in Slot : i # s => texture[i] = Resting
  BY <1>3
<1> QED BY <1>8, <1>9 DEF a

LEMMA TidyInitialization ==
  ASSUME IInv, Stated, Tidy, Preparing, call.slot \in Slot, SubmitInitialization
  PROVE  Tidy'
<1> DEFINE s == call.slot
           a == After(call.mask, 1)
<1>1. /\ Execute(call.recorded) /\ lapses' = lapses
      /\ call'.pc = "wait" /\ call'.next = "refinement" /\ call'.recorded = <<>> /\ call'.mask = call.mask /\ call'.slot = s
  BY InitializationSubmits
<1> SUFFICES ASSUME "abandoned" \notin lapses PROVE Tidy'
  BY <1>1 DEF Tidy
<1>2. barriersMatch' /\ texture' = [texture EXCEPT ![s] = a] /\ \A i \in Slot : i # s => texture[i] = Resting
  BY <1>1, InitializationBegins
<1>3. texture \in [Slot -> [Textures -> States]]
  BY DEF Stated
<1>4. Preparing' /\ Begun' /\ a = After(call'.mask, 1)
  BY <1>1 DEF Preparing, Begun, a
<1> HIDE DEF a
<1>5. \A i \in Slot : texture'[i] = IF i = s THEN a ELSE Resting
  BY <1>2, <1>3
<1>6. call'.pc # "feature"
  BY <1>1
<1> QED BY <1>1, <1>2, <1>4, <1>5, <1>6 DEF Tidy

\* A list nobody awaits leaves its textures at rest, or the call is an abandoned one.
LEMMA TidyUnsignalled ==
  ASSUME IInv, Stated, Tidy, Preparing, call.slot \in Slot, InitializationUnsignalled
  PROVE  Tidy'
<1>1. Execute(call.recorded) /\ call' = NoCall /\ lapses' = lapses \cup {"unsignalled"} \cup Unfinished
  BY InitializationLapses
<1> SUFFICES ASSUME "abandoned" \notin lapses' PROVE Tidy'
  BY DEF Tidy
<1>2. "abandoned" \notin lapses /\ texture'[call.slot] = Resting
  BY <1>1 DEF Unfinished
<1>3. /\ barriersMatch' /\ texture' = [texture EXCEPT ![call.slot] = After(call.mask, 1)]
      /\ \A i \in Slot : i # call.slot => texture[i] = Resting
  BY <1>1, <1>2, InitializationBegins
<1>4. texture \in [Slot -> [Textures -> States]]
  BY DEF Stated
<1>5. \A i \in Slot : texture'[i] = Resting
  BY <1>2, <1>3, <1>4
<1>6. call'.pc = "idle" /\ ~Preparing'
  BY <1>1, NoCallFits DEF Preparing
<1> QED BY <1>3, <1>5, <1>6 DEF Tidy, Begun

LEMMA TidyKept == IInv /\ Stated /\ Tidy /\ [Next]_vars => Tidy'
<1> SUFFICES ASSUME IInv, Stated, Tidy, [Next]_vars PROVE Tidy'
  OBVIOUS
<1>1. call \in CallType /\ texture \in [Slot -> [Textures -> States]] /\ NoCall.pc = "idle"
  BY NoCallFits DEF IInv, Typed, Stated
<1>2. CASE UNCHANGED <<call, texture, barriersMatch, lapses>>
  BY <1>2 DEF Tidy, Begun, Preparing
<1>3. CASE Initialize \/ ContextStep \/ QueueStep
  BY <1>2, <1>3 DEF Initialize, ContextStep, QueueStep
<1>4. CASE Shutdown
  <2>1. /\ call.pc = "idle" /\ call' = call /\ texture' = [i \in Slot |-> Resting] /\ barriersMatch' = barriersMatch
        /\ lapses \subseteq lapses'
    BY <1>4 DEF Shutdown, AwaitSubmittedWork
  <2>2. ~Begun /\ ~Preparing'
    BY <2>1 DEF Begun, Preparing
  <2> QED BY <1>1, <2>1, <2>2, RestKept
<1>5. ASSUME NEW mode, NEW limit, NEW extent, Evaluate(mode, limit, extent) PROVE Tidy'
  <2>1. /\ texture' = texture \/ texture' = [i \in Slot |-> Resting]
        /\ barriersMatch' = barriersMatch
    BY <1>5 DEF Evaluate
  <2>2. lapses \subseteq lapses'
    BY <1>5 DEF Evaluate, AwaitSubmittedWork, Regrown
  <2>3. ~Begun /\ ~Preparing'
    BY <1>1, <1>5, EvaluateDecides DEF Begun, Preparing
  <2> QED BY <1>1, <2>1, <2>2, <2>3, RestKept
<1>6. CASE Reselect
  <2>1. texture' = texture /\ barriersMatch' = barriersMatch /\ lapses \subseteq lapses'
    BY <1>6 DEF Reselect, Regrown
  <2>2. ~Begun /\ ~Preparing'
    BY <1>1, <1>6, ReselectDecides DEF Begun, Preparing
  <2> QED BY <1>1, <2>1, <2>2, RestKept
<1>7. ASSUME NEW passes \in plan.passes, NEW mask \in plan.masks, EnsureSlotResources(passes, mask) PROVE Tidy'
  <2>1. call.slot \in Slot /\ call.pc = "resources"
    BY <1>7, CallSlot DEF EnsureSlotResources, HasSlot
  <2>2. /\ texture' = texture \/ texture' = [texture EXCEPT ![call.slot] = Resting]
        /\ lapses' = lapses \/ lapses' = DropsOutput(call.slot)
        /\ barriersMatch' = barriersMatch
        /\ call' = NoCall \/ call' = [call EXCEPT !.pc = "record", !.passes = passes, !.mask = mask]
    BY <1>7, Zenon DEF EnsureSlotResources
  <2>3. lapses \subseteq lapses'
    BY <2>2 DEF DropsOutput
  <2>4. ~Begun
    BY <2>1 DEF Begun, Preparing
  <2>5. ~Preparing'
    BY <1>1, <2>2 DEF Preparing, CallType
  <2> QED BY <1>1, <2>1, <2>2, <2>3, <2>4, <2>5, RestKept
<1>14. CASE Record
  <2>1. call.pc = "record" /\ call.mask \in BOOLEAN
    BY <1>14, RecordedBarriers DEF Record
  <2> DEFINE a == TransitionInitial(call.mask)
  <2>2. /\ UNCHANGED <<texture, lapses, barriersMatch>>
        /\ call' = NoCall \/ call' = [call EXCEPT !.pc = "feature", !.recorded = a]
    BY <1>14, Zenon DEF Record
  <2>3. ~Begun
    BY <2>1 DEF Begun, Preparing
  <2>4. a # <<>>
    BY <2>1, BeginningMoves
  <2> HIDE DEF a
  <2>5. CASE call' = NoCall
    <3>1. ~Preparing'
      BY <1>1, <2>5 DEF Preparing
    <3> QED BY <1>1, <2>1, <2>2, <2>3, <3>1, RestKept
  <2>6. CASE call' = [call EXCEPT !.pc = "feature", !.recorded = a]
    <3>1. call'.pc = "feature" /\ call'.recorded = a /\ call'.mask = call.mask
      BY <1>1, <2>6 DEF CallType
    <3> SUFFICES ASSUME "abandoned" \notin lapses PROVE Tidy'
      BY <2>2 DEF Tidy
    <3>2. barriersMatch /\ \A i \in Slot : texture[i] = Resting
      BY <2>3 DEF Tidy
    <3>3. barriersMatch' /\ \A i \in Slot : texture'[i] = Resting
      BY <2>2, <3>2
    <3>4. ~Begun'
      BY <2>4, <3>1 DEF Begun
    <3>5. call'.recorded \in {<<>>, TransitionInitial(call'.mask)}
      BY <3>1 DEF a
    <3> QED BY <2>4, <3>1, <3>3, <3>4, <3>5 DEF Tidy
  <2> QED BY <2>2, <2>5, <2>6
<1>8. CASE EnsureFeature \/ EnsureRefinement
  <2>1. /\ call.slot \in Slot /\ call.pc \in {"feature", "refinement"}
    BY <1>8, CallSlot DEF EnsureFeature, EnsureRefinement, HasSlot
  <2>2. Preparing
    BY <2>1 DEF Preparing
  <2>3. CASE SubmitInitialization
    BY <2>1, <2>2, <2>3, TidyInitialization
  <2>6. CASE InitializationUnsignalled
    BY <2>1, <2>2, <2>6, TidyUnsignalled
  <2>4. CASE /\ UNCHANGED <<texture, barriersMatch, lapses>>
             /\ call' = [call EXCEPT !.pc = "refinement"] \/ call' = [call EXCEPT !.pc = "evaluate"]
    <3>1. /\ call'.pc \in {"refinement", "evaluate"} /\ call'.slot = call.slot /\ call'.mask = call.mask
          /\ call'.recorded = call.recorded
      BY <1>1, <2>4 DEF CallType
    <3>2. Preparing' /\ (Begun' <=> Begun)
      BY <2>2, <3>1 DEF Preparing, Begun
    <3> QED BY <2>1, <2>2, <2>4, <3>1, <3>2 DEF Tidy
  <2>5. CASE UNCHANGED <<texture, barriersMatch, lapses>> /\ call' = NoCall /\ call.pc = "feature"
    <3> SUFFICES ASSUME "abandoned" \notin lapses PROVE Tidy'
      BY <2>5 DEF Tidy
    <3>1. ~Begun
      BY <2>5 DEF Tidy, Begun
    <3>2. ~Preparing'
      BY <1>1, <2>5 DEF Preparing
    <3> QED BY <1>1, <2>1, <2>5, <3>1, <3>2, RestKept
  <2> QED BY <1>8, <2>3, <2>4, <2>5, <2>6, Zenon DEF EnsureFeature, EnsureRefinement
<1>9. CASE EvaluateSlot
  <2>1. call.slot \in Slot /\ call.pc = "evaluate" /\ call.slot # 0
    BY <1>9, CallSlot, Ranges DEF EvaluateSlot, HasSlot
  <2>2. Preparing /\ call.mask \in BOOLEAN
    BY <2>1, RecordedBarriers DEF Preparing
  <2>3. ~Preparing'
    <3> DEFINE v == seq.completion + 1
    <3>1. call' = NoCall \/ call' = [call EXCEPT !.pc = "wait", !.target = v, !.next = "show"]
      BY <1>9, Zenon DEF EvaluateSlot, SubmitUnsignalled, Waiting
    <3> HIDE DEF v
    <3> QED BY <1>1, <3>1 DEF CallType, Preparing
  <2>4. call'.pc # "feature" /\ ~(call'.pc \in {"wait", "armed"} /\ call'.next = "refinement") /\ ~Begun'
    BY <2>3 DEF Preparing, Begun
  <2>5. CASE UNCHANGED <<texture, barriersMatch>> /\ lapses' = Abandoned
    <3> SUFFICES ASSUME "abandoned" \notin lapses' PROVE Tidy'
      BY DEF Tidy
    <3>1. lapses' = lapses /\ texture[call.slot] = Resting
      BY <2>1, <2>5 DEF Abandoned
    <3>2. ~Begun
      BY <2>1, <2>2, <3>1, BeginningMoves DEF Tidy
    <3> QED BY <1>1, <2>3, <2>5, <3>1, <3>2, RestKept
  <2>6. ASSUME NEW passes \in 1..4, NEW failAt \in {0} \cup (2..passes), NEW b \in Seq(Barrier),
               b = call.recorded \o RefinementPasses(passes, failAt).barriers
                     \o TransitionFinish(call.mask, RefinementPasses(passes, failAt).scratch, RefinementPasses(passes, failAt).refined),
               Execute(b), lapses' = lapses \/ lapses' = lapses \cup {"unsignalled"} \cup Unfinished
        PROVE  Tidy'
    <3> SUFFICES ASSUME "abandoned" \notin lapses' PROVE Tidy'
      BY DEF Tidy
    <3>8. "abandoned" \notin lapses
      BY <2>6
    <3> DEFINE s == call.slot
               st == texture[s]
    <3>1. /\ barriersMatch /\ (call.recorded = <<>> \/ call.recorded = TransitionInitial(call.mask))
          /\ \A i \in Slot : texture[i] = IF call.recorded = <<>> /\ i = s THEN After(call.mask, 1) ELSE Resting
      BY <2>2, <3>8 DEF Tidy, Begun
    <3>2. call.recorded = TransitionInitial(call.mask) => call.recorded # <<>>
      BY <2>2, BeginningMoves
    <3>3. \/ st = Resting /\ call.recorded = TransitionInitial(call.mask)
          \/ st = After(call.mask, 1) /\ call.recorded = <<>>
      BY <2>1, <3>1, <3>2
    <3>4. /\ texture' = [texture EXCEPT ![s] = Replay(st, b).states]
          /\ barriersMatch' = (barriersMatch /\ Replay(st, b).match)
      BY <1>1, <2>1, <2>6, SubmitStates
    <3>5. Replay(st, b).match /\ Replay(st, b).states = Resting
      <4> HIDE DEF st
      <4> QED BY <2>2, <2>6, <3>3, ListFits, ZenonT(30)
    <3>6. barriersMatch' /\ texture' = [texture EXCEPT ![s] = Resting]
      BY <3>1, <3>4, <3>5
    <3>7. \A i \in Slot : texture'[i] = Resting
      BY <1>1, <2>1, <3>1, <3>6
    <3> QED BY <2>3, <2>4, <3>6, <3>7 DEF Tidy
  <2> QED BY <1>9, <2>5, <2>6, EvaluationSubmits
<1>10. CASE Show
  <2>1. call.pc = "show" /\ call' = NoCall /\ UNCHANGED <<texture, barriersMatch, lapses>>
    BY <1>10 DEF Show
  <2>2. ~Begun /\ ~Preparing'
    BY <1>1, <2>1 DEF Begun, Preparing
  <2> QED BY <1>1, <2>1, <2>2, RestKept
<1>11. CASE TimedOut
  <2>1. call.pc = "armed" /\ call' = NoCall /\ UNCHANGED <<texture, barriersMatch>> /\ lapses' = Abandoned
    BY <1>11 DEF TimedOut
  <2> SUFFICES ASSUME "abandoned" \notin lapses' PROVE Tidy'
    BY DEF Tidy
  <2>2. lapses' = lapses /\ (call.slot # 0 => texture[call.slot] = Resting)
    BY <2>1 DEF Abandoned
  <2>3. ~Begun
    <3> SUFFICES ASSUME Begun PROVE FALSE
      OBVIOUS
    <3>1. HasSlot
      BY <2>1 DEF Begun, Preparing, HasSlot
    <3>2. call.slot # 0 /\ call.slot \in Slot
      BY <3>1, CallSlot, Ranges
    <3>3. texture[call.slot] = After(call.mask, 1) /\ call.mask \in BOOLEAN
      BY <2>2, <3>2, RecordedBarriers DEF Tidy
    <3> QED BY <2>2, <3>2, <3>3, BeginningMoves
  <2>4. ~Preparing'
    BY <1>1, <2>1 DEF Preparing
  <2> QED BY <1>1, <2>1, <2>2, <2>3, <2>4, RestKept
<1>12. CASE AlreadyComplete \/ ArmEvent \/ Woken
  <2>1. /\ call.pc \in {"wait", "armed"} /\ UNCHANGED <<texture, barriersMatch>>
        /\ lapses' = lapses \/ lapses' = lapses \cup {"staleWake"}
        /\ call' = [call EXCEPT !.pc = call.next] \/ call' = [call EXCEPT !.pc = "armed"]
    BY <1>12 DEF AlreadyComplete, ArmEvent, Woken
  <2>2. /\ call'.slot = call.slot /\ call'.mask = call.mask /\ call'.recorded = call.recorded /\ call'.next = call.next
        /\ call'.pc = call.next \/ call'.pc = "armed"
        /\ call.next \in {"idle", "reselect", "refinement", "show"}
    BY <1>1, <2>1 DEF CallType
  <2>3. (Preparing' <=> Preparing) /\ (Begun' <=> Begun)
    BY <2>1, <2>2 DEF Preparing, Begun
  <2>4. call'.pc # "feature" /\ ("abandoned" \notin lapses' => "abandoned" \notin lapses)
    BY <2>1, <2>2
  <2>5. call'.pc \in {"wait", "armed"} /\ call'.next = "refinement" => call.next = "refinement"
    BY <2>2
  <2> QED BY <2>1, <2>2, <2>3, <2>4, <2>5 DEF Tidy
<1>13. CASE UNCHANGED vars
  BY <1>2, <1>13 DEF vars
<1> QED BY <1>3, <1>4, <1>5, <1>6, <1>7, <1>8, <1>9, <1>10, <1>11, <1>12, <1>13, <1>14 DEF Next, CpuStep

\* Every barrier of an executed list names the state its texture is in, and between two calls
\* the textures are at rest: the transitions of any number of passes, one of which may fail,
\* compose, whether or not the beginning of the list was executed before.
THEOREM BarriersAlwaysMatch == Spec => []BarriersMatch
<1>1. Init => Stated /\ Tidy
  <2>1. Init => Tidy
    BY NoCallFits DEF Init, Tidy, Begun, Preparing
  <2> QED BY <2>1, InitiallyTyped
<1>2. IInv /\ Stated /\ Tidy /\ [Next]_vars => Stated' /\ Tidy'
  BY StatedKept, TidyKept
<1>3. Tidy => BarriersMatch
  BY DEF Tidy, BarriersMatch, Begun, Preparing
<1> QED BY <1>1, <1>2, <1>3, Invariant, PTL DEF Spec

-----------------------------------------------------------------------------
(* What is shown.                                                           *)

Readers == {"showSlot", "cacheSlot"}
Writes(c) == c.op \in {"cacheSlot", "resetCache"}

\* When the context reaches its p-th command the cache, which holds c now, holds the frame n.
CacheHolds(q, c, p, n) ==
    \/ \E r \in 1..(p - 1) : /\ q[r].op = "cacheSlot" /\ q[r].frame = n
                            /\ \A s \in (r + 1)..(p - 1) : ~Writes(q[s])
    \/ c = n /\ \A s \in 1..(p - 1) : ~Writes(q[s])

\* The commands q show the cache with the frames they name, and leave it as the CPU records it, k.
Cached(q, c, k) ==
    /\ \A p \in DOMAIN q : q[p].op = "showCache" => CacheHolds(q, c, p, q[p].frame)
    /\ k.valid => CacheHolds(q, c, Len(q) + 1, k.present)

\* The output of a slot that is not consumed yet will be that of its last submission, ...
Pending(i) == slots[i].submission > seq.consumed
OutputsHeld == \A i \in Slot : Pending(i) => Holds("evaluate", d12, content.output, i, slots[i].source)

\* ... which no textures made again replace, neither before nor behind a command that reads it, ...
Remakes(c) == c.op = "guides" /\ c.frame = 0
Settled(i, w) == \A k \in DOMAIN w : ~Is("evaluate", w[k], i)
Kept(q, i) == \A p \in DOMAIN q : Remakes(q[p]) => q[p].slot # i
ReadFirst(q) ==
    \A p \in DOMAIN q : Remakes(q[p]) => \A r \in DOMAIN q : r > p /\ q[r].op \in Readers => q[r].slot # q[p].slot
Undisturbed ==
    /\ \A i \in Slot : Pending(i) /\ Settled(i, d12) => Kept(d11, i)
    /\ ReadFirst(d11)

\* ... the outputs the context still has to read are there already, ...
Serves(q, out) == \A p \in DOMAIN q : q[p].op \in Readers => q[p].slot \in Slot /\ out[q[p].slot] = q[p].frame

\* ... and no evaluation overtakes their readers.
ReadersAwaited ==
    \A o \in Readers :
        /\ \A k \in DOMAIN d12 : d12[k].op = "evaluate" => Awaited(o, d11, d12, fence.producer, d12[k].slot, k)
        /\ Preparing => Awaited(o, d11, d12, fence.producer, call.slot, Len(d12) + 1)

\* The call waits for the output it will show, or shows it.
Showing == call.pc = "show" \/ (call.pc \in {"wait", "armed"} /\ call.next = "show")
CallShows == Showing => slots[call.slot].source = seq.present /\ Pending(call.slot)

\* The Presents are numbered from 1.
Numbered == call.pc # "idle" => seq.present # 0

Honest ==
    lapses = {} => /\ OutputsHeld /\ Undisturbed /\ Serves(d11, content.output) /\ ReadersAwaited /\ CallShows
                   /\ Cached(d11, content.cache, cache)

\* What the cache holds at a command depends on the commands before it.
LEMMA CacheHoldsSame ==
  ASSUME NEW q, NEW y, NEW c, NEW p \in Nat, NEW n, CacheHolds(q, c, p, n), \A s \in 1..(p - 1) : y[s] = q[s]
  PROVE  CacheHolds(y, c, p, n)
<1>1. CASE \E r \in 1..(p - 1) : /\ q[r].op = "cacheSlot" /\ q[r].frame = n
                                /\ \A s \in (r + 1)..(p - 1) : ~Writes(q[s])
  <2>1. PICK r \in 1..(p - 1) : /\ q[r].op = "cacheSlot" /\ q[r].frame = n
                               /\ \A s \in (r + 1)..(p - 1) : ~Writes(q[s])
    BY <1>1
  <2>2. y[r].op = "cacheSlot" /\ y[r].frame = n /\ \A s \in (r + 1)..(p - 1) : ~Writes(y[s])
    BY <2>1
  <2> QED BY <2>2 DEF CacheHolds
<1>2. CASE c = n /\ \A s \in 1..(p - 1) : ~Writes(q[s])
  <2>1. \A s \in 1..(p - 1) : ~Writes(y[s])
    BY <1>2
  <2> QED BY <1>2, <2>1 DEF CacheHolds
<1> QED BY <1>1, <1>2 DEF CacheHolds

\* A command appended is the last.
LEMMA OneMore ==
  ASSUME NEW q \in Seq(Command), NEW x \in Command
  PROVE  LET y == q \o <<x>>
         IN /\ y \in Seq(Command) /\ Len(q) \in Nat /\ Len(y) = Len(q) + 1 /\ y[Len(q) + 1] = x
            /\ DOMAIN q = 1..Len(q) /\ DOMAIN y = 1..(Len(q) + 1) /\ \A p \in 1..Len(q) : y[p] = q[p]
OBVIOUS

\* The cache is shown, or something that does not write it is done.
LEMMA CachedReads ==
  ASSUME NEW q \in Seq(Command), NEW c, NEW k, Cached(q, c, k), NEW x \in Command, ~Writes(x),
         x.op = "showCache" => k.valid /\ x.frame = k.present
  PROVE  Cached(q \o <<x>>, c, k)
<1> DEFINE y == q \o <<x>>
           m == Len(q)
<1>1. /\ m \in Nat /\ Len(y) = m + 1 /\ y[m + 1] = x
      /\ DOMAIN q = 1..m /\ DOMAIN y = 1..(m + 1) /\ \A p \in 1..m : y[p] = q[p]
  BY OneMore
<1> HIDE DEF y
<1>2. k.valid => CacheHolds(q, c, m + 1, k.present)
  BY DEF Cached
<1> HIDE DEF m
<1>3. \A p \in 1..m : q[p].op = "showCache" => CacheHolds(q, c, p, q[p].frame)
  BY <1>1 DEF Cached
<1>4. k.valid => CacheHolds(y, c, m + 1, k.present)
  <2> DEFINE e == m + 1
  <2>1. e \in Nat /\ \A s \in 1..(e - 1) : y[s] = q[s]
    BY <1>1
  <2>2. k.valid => CacheHolds(q, c, e, k.present)
    BY <1>2
  <2> HIDE DEF e
  <2>3. k.valid => CacheHolds(y, c, e, k.present)
    BY <2>1, <2>2, CacheHoldsSame
  <2> QED BY <2>3 DEF e
<1>5. ASSUME NEW p \in 1..(m + 1), y[p].op = "showCache" PROVE CacheHolds(y, c, p, y[p].frame)
  <2>1. CASE p = m + 1
    BY <1>1, <1>4, <1>5, <2>1
  <2>2. CASE p \in 1..m
    <3>1. y[p] = q[p] /\ CacheHolds(q, c, p, q[p].frame) /\ p \in Nat /\ \A s \in 1..(p - 1) : y[s] = q[s]
      BY <1>1, <1>3, <1>5, <2>2
    <3>2. CacheHolds(y, c, p, q[p].frame)
      BY <3>1, CacheHoldsSame
    <3> QED BY <3>1, <3>2
  <2> QED BY <1>1, <2>1, <2>2
<1>6. ASSUME k.valid PROVE CacheHolds(y, c, (m + 1) + 1, k.present)
  <2> DEFINE z == m + 1
             e == (m + 1) + 1
  <2>1. e - 1 = z /\ z - 1 = m /\ m \in Nat /\ z \in Nat
    BY <1>1
  <2>2. CacheHolds(y, c, z, k.present) /\ ~Writes(y[z])
    BY <1>1, <1>4, <1>6
  <2> SUFFICES CacheHolds(y, c, e, k.present)
    OBVIOUS
  <2> HIDE DEF z, e
  <2>3. CASE \E r \in 1..(z - 1) : /\ y[r].op = "cacheSlot" /\ y[r].frame = k.present
                                  /\ \A s \in (r + 1)..(z - 1) : ~Writes(y[s])
    <3>1. PICK r \in 1..(z - 1) : /\ y[r].op = "cacheSlot" /\ y[r].frame = k.present
                                  /\ \A s \in (r + 1)..(z - 1) : ~Writes(y[s])
      BY <2>3
    <3>2. r \in 1..(e - 1) /\ \A s \in (r + 1)..(e - 1) : s = z \/ s \in (r + 1)..(z - 1)
      BY <2>1
    <3>3. \A s \in (r + 1)..(e - 1) : ~Writes(y[s])
      BY <2>2, <3>1, <3>2
    <3> QED BY <3>1, <3>2, <3>3 DEF CacheHolds
  <2>4. CASE c = k.present /\ \A s \in 1..(z - 1) : ~Writes(y[s])
    <3>1. \A s \in 1..(e - 1) : s = z \/ s \in 1..(z - 1)
      BY <2>1
    <3>2. \A s \in 1..(e - 1) : ~Writes(y[s])
      BY <2>2, <2>4, <3>1
    <3> QED BY <2>4, <3>2 DEF CacheHolds
  <2> QED BY <2>2, <2>3, <2>4 DEF CacheHolds
<1>7. Cached(y, c, k)
  BY <1>1, <1>5, <1>6 DEF Cached
<1> QED BY <1>7 DEF y

\* The cache is written, with what is recorded of it.
LEMMA CachedWrites ==
  ASSUME NEW q \in Seq(Command), NEW c, NEW k, Cached(q, c, k), NEW x \in Command, x.op # "showCache",
         NEW e, e.valid => x.op = "cacheSlot" /\ x.frame = e.present
  PROVE  Cached(q \o <<x>>, c, e)
<1> DEFINE y == q \o <<x>>
           m == Len(q)
<1>1. /\ m \in Nat /\ Len(y) = m + 1 /\ y[m + 1] = x
      /\ DOMAIN q = 1..m /\ DOMAIN y = 1..(m + 1) /\ \A p \in 1..m : y[p] = q[p]
  BY OneMore
<1> HIDE DEF y, m
<1>2. \A p \in 1..m : q[p].op = "showCache" => CacheHolds(q, c, p, q[p].frame)
  BY <1>1 DEF Cached
<1>3. ASSUME NEW p \in 1..(m + 1), y[p].op = "showCache" PROVE CacheHolds(y, c, p, y[p].frame)
  <2>1. p \in 1..m
    BY <1>1, <1>3
  <2>2. y[p] = q[p] /\ CacheHolds(q, c, p, q[p].frame) /\ p \in Nat /\ \A s \in 1..(p - 1) : y[s] = q[s]
    BY <1>1, <1>2, <1>3, <2>1
  <2>3. CacheHolds(y, c, p, q[p].frame)
    BY <2>2, CacheHoldsSame
  <2> QED BY <2>2, <2>3
<1>4. ASSUME e.valid PROVE CacheHolds(y, c, (m + 1) + 1, e.present)
  <2> DEFINE r == m + 1
             z == (m + 1) + 1
  <2>1. r \in 1..(z - 1) /\ y[r].op = "cacheSlot" /\ y[r].frame = e.present /\ \A s \in (r + 1)..(z - 1) : ~Writes(y[s])
    BY <1>1, <1>4
  <2> HIDE DEF r, z
  <2>2. CacheHolds(y, c, z, e.present)
    BY <2>1 DEF CacheHolds
  <2> QED BY <2>2 DEF z
<1>5. Cached(y, c, e)
  BY <1>1, <1>3, <1>4 DEF Cached
<1> QED BY <1>5 DEF y

\* The context executes a command.
LEMMA CachedAfterTail ==
  ASSUME NEW q \in Seq(Command), q # <<>>, NEW c, NEW k, Cached(q, c, k),
         NEW e, Head(q).op = "cacheSlot" => e = Head(q).frame, ~Writes(Head(q)) => e = c
  PROVE  Cached(Tail(q), e, k)
<1> DEFINE t == Tail(q)
           m == Len(q)
<1>1. /\ Head(q) = q[1] /\ m \in Nat \ {0} /\ Len(t) = m - 1 /\ DOMAIN q = 1..m /\ DOMAIN t = 1..(m - 1)
      /\ \A p \in 1..(m - 1) : p + 1 \in 1..m /\ t[p] = q[p + 1]
  BY TailOf
<1> HIDE DEF t, m
<1>2. ASSUME NEW p \in 1..m, NEW n, CacheHolds(q, c, p + 1, n) PROVE CacheHolds(t, e, p, n)
  <2> DEFINE z == p + 1
  <2>1. z - 1 = p /\ p \in Nat \ {0} /\ \A s \in 1..(p - 1) : t[s] = q[s + 1] /\ s + 1 \in 2..p
    BY <1>1
  <2>2. CASE \E r \in 1..(z - 1) : q[r].op = "cacheSlot" /\ q[r].frame = n /\ \A s \in (r + 1)..(z - 1) : ~Writes(q[s])
    <3>1. PICK r \in 1..p : q[r].op = "cacheSlot" /\ q[r].frame = n /\ \A s \in (r + 1)..p : ~Writes(q[s])
      BY <2>1, <2>2
    <3>2. CASE r = 1
      <4>1. e = n
        BY <1>1, <3>1, <3>2
      <4>2. \A s \in 1..(p - 1) : ~Writes(t[s])
        <5> SUFFICES ASSUME NEW s \in 1..(p - 1) PROVE ~Writes(t[s])
          OBVIOUS
        <5> DEFINE a == s + 1
        <5>1. a \in (r + 1)..p /\ t[s] = q[a]
          BY <2>1, <3>2
        <5> HIDE DEF a
        <5> QED BY <3>1, <5>1
      <4> QED BY <4>1, <4>2 DEF CacheHolds
    <3>3. CASE r # 1
      <4> DEFINE b == r - 1
      <4>1. b \in 1..(p - 1) /\ b + 1 = r
        BY <2>1, <3>3
      <4>2. t[b] = q[r]
        BY <2>1, <4>1
      <4>3. \A s \in (b + 1)..(p - 1) : ~Writes(t[s])
        <5> SUFFICES ASSUME NEW s \in (b + 1)..(p - 1) PROVE ~Writes(t[s])
          OBVIOUS
        <5> DEFINE a == s + 1
        <5>1. a \in (r + 1)..p /\ t[s] = q[a]
          BY <2>1, <4>1
        <5> HIDE DEF a
        <5> QED BY <3>1, <5>1
      <4> HIDE DEF b
      <4> QED BY <3>1, <4>1, <4>2, <4>3 DEF CacheHolds
    <3> QED BY <3>2, <3>3
  <2>3. CASE c = n /\ \A s \in 1..(z - 1) : ~Writes(q[s])
    <3>1. \A s \in 1..p : ~Writes(q[s])
      BY <2>1, <2>3
    <3>2. e = n
      BY <1>1, <2>1, <2>3, <3>1
    <3>3. \A s \in 1..(p - 1) : ~Writes(t[s])
      <4> SUFFICES ASSUME NEW s \in 1..(p - 1) PROVE ~Writes(t[s])
        OBVIOUS
      <4> DEFINE a == s + 1
      <4>1. a \in 1..p /\ t[s] = q[a]
        BY <2>1
      <4> HIDE DEF a
      <4> QED BY <3>1, <4>1
    <3> QED BY <3>2, <3>3 DEF CacheHolds
  <2>4. CacheHolds(q, c, z, n)
    BY <1>2
  <2> HIDE DEF z
  <2> QED BY <2>2, <2>3, <2>4 DEF CacheHolds
<1>3. ASSUME NEW p \in DOMAIN t, t[p].op = "showCache" PROVE CacheHolds(t, e, p, t[p].frame)
  <2> DEFINE z == p + 1
  <2>1. p \in 1..m /\ z \in DOMAIN q /\ t[p] = q[z]
    BY <1>1
  <2> HIDE DEF z
  <2>2. CacheHolds(q, c, z, q[z].frame)
    BY <1>3, <2>1 DEF Cached
  <2> QED BY <1>2, <2>1, <2>2 DEF z
<1>4. ASSUME k.valid PROVE CacheHolds(t, e, Len(t) + 1, k.present)
  <2>1. CacheHolds(q, c, m + 1, k.present)
    BY <1>4 DEF Cached, m
  <2>2. m \in 1..m /\ Len(t) + 1 = m
    BY <1>1
  <2>3. CacheHolds(t, e, m, k.present)
    BY <1>2, <2>1, <2>2
  <2> QED BY <2>2, <2>3
<1> QED BY <1>3, <1>4 DEF Cached, t

\* Nothing valid is less.
LEMMA CachedLess ==
  ASSUME NEW q, NEW c, NEW k, Cached(q, c, k), NEW e, ~e.valid
  PROVE  Cached(q, c, e)
BY DEF Cached

\* The head of a queue shows what it names.
LEMMA HeadShows ==
  ASSUME IInv, Honest, lapses = {}, d11 # <<>>
  PROVE  Shown(Head(d11))
<1>1. Serves(d11, content.output) /\ Cached(d11, content.cache, cache) /\ d11 \in Seq(Command)
  BY DEF Honest, IInv, Typed
<1>2. Head(d11) = d11[1] /\ 1 \in DOMAIN d11
  BY <1>1, TailOf
<1>3. d11[1].op = "showSlot" => content.output[d11[1].slot] = d11[1].frame
  BY <1>1, <1>2 DEF Serves, Readers
<1>4. ASSUME d11[1].op = "showCache" PROVE content.cache = d11[1].frame
  <2> DEFINE p == 1
  <2>1. p \in DOMAIN d11 /\ p = 1 /\ d11[p].op = "showCache"
    BY <1>2, <1>4
  <2> HIDE DEF p
  <2>2. CacheHolds(d11, content.cache, p, d11[p].frame)
    BY <1>1, <2>1 DEF Cached
  <2> QED BY <2>1, <2>2 DEF CacheHolds
<1> QED BY <1>2, <1>3, <1>4 DEF Shown

\* Commands that make no textures again, and read outputs that are settled.
LEMMA ReadFirstJoin ==
  ASSUME NEW q \in Seq(Command), ReadFirst(q), NEW x \in Seq(Command), \A p \in DOMAIN x : ~Remakes(x[p]),
         \A p \in DOMAIN x : x[p].op \in Readers => Kept(q, x[p].slot)
  PROVE  ReadFirst(q \o x)
<1> DEFINE y == q \o x
<1>1. \A p \in DOMAIN y : (p \in DOMAIN q /\ y[p] = q[p]) \/ (p - Len(q) \in DOMAIN x /\ y[p] = x[p - Len(q)])
  BY JoinOf
<1> HIDE DEF y
<1>2. ASSUME NEW p \in DOMAIN y, Remakes(y[p]), NEW r \in DOMAIN y, r > p, y[r].op \in Readers PROVE y[r].slot # y[p].slot
  <2>1. p \in DOMAIN q /\ y[p] = q[p]
    BY <1>1, <1>2
  <2>2. CASE r \in DOMAIN q /\ y[r] = q[r]
    BY <1>2, <2>1, <2>2 DEF ReadFirst
  <2>3. CASE r - Len(q) \in DOMAIN x /\ y[r] = x[r - Len(q)]
    BY <1>2, <2>1, <2>3 DEF Kept
  <2> QED BY <1>1, <2>2, <2>3
<1>3. ReadFirst(y)
  BY <1>2 DEF ReadFirst
<1> QED BY <1>3 DEF y

LEMMA KeptJoin ==
  ASSUME NEW q \in Seq(Command), NEW i, Kept(q, i), NEW x \in Seq(Command), \A p \in DOMAIN x : ~Remakes(x[p])
  PROVE  Kept(q \o x, i)
<1> DEFINE y == q \o x
<1>1. \A p \in DOMAIN y : (p \in DOMAIN q /\ y[p] = q[p]) \/ (p - Len(q) \in DOMAIN x /\ y[p] = x[p - Len(q)])
  BY JoinOf
<1> HIDE DEF y
<1>2. Kept(y, i)
  BY <1>1 DEF Kept
<1> QED BY <1>2 DEF y

LEMMA UndisturbedJoin ==
  ASSUME Undisturbed, NEW q \in Seq(Command), q = d11, NEW x \in Seq(Command), d11' = q \o x, \A p \in DOMAIN x : ~Remakes(x[p]),
         \A p \in DOMAIN x : x[p].op \in Readers => x[p].slot \in Slot /\ Pending(x[p].slot) /\ Settled(x[p].slot, d12),
         \A i \in Slot : slots'[i].submission > seq'.consumed /\ Settled(i, d12') => Pending(i) /\ Settled(i, d12)
  PROVE  Undisturbed'
<1>1. ASSUME NEW i \in Slot, slots'[i].submission > seq'.consumed, Settled(i, d12') PROVE Kept(d11', i)
  <2>1. Kept(q, i)
    BY <1>1 DEF Undisturbed
  <2> QED BY <2>1, KeptJoin
<1>2. \A p \in DOMAIN x : x[p].op \in Readers => Kept(q, x[p].slot)
  BY DEF Undisturbed
<1>3. ReadFirst(q \o x)
  BY <1>2, ReadFirstJoin DEF Undisturbed
<1>4. \A i \in Slot : Pending(i)' /\ Settled(i, d12)' => Kept(d11, i)'
  BY <1>1 DEF Pending, Settled, Kept, Remakes
<1>5. ReadFirst(d11)'
  <2> DEFINE y == q \o x
  <2>1. d11' = y /\ ReadFirst(y)
    BY <1>3
  <2> HIDE DEF y
  <2> QED BY <2>1 DEF ReadFirst, Remakes
<1> QED BY <1>4, <1>5 DEF Undisturbed

\* Steps that give the queues nothing, and submit nothing.
LEMMA SilentShows ==
  ASSUME IInv, Honest, UNCHANGED <<d11, d12, content, fence, cache>>, seq'.present = seq.present, seq'.consumed = seq.consumed,
         \A i \in Slot : slots'[i].source = slots[i].source /\ slots'[i].submission = slots[i].submission,
         Preparing' => Preparing /\ call'.slot = call.slot,
         Showing' => Showing /\ call'.slot = call.slot,
         lapses' = {} => lapses = {}
  PROVE  Honest'
<1> SUFFICES ASSUME lapses' = {}
             PROVE  OutputsHeld' /\ Undisturbed' /\ Serves(d11, content.output)' /\ ReadersAwaited' /\ CallShows' /\ Cached(d11, content.cache, cache)'
  BY DEF Honest
<1>1. OutputsHeld /\ Undisturbed /\ Serves(d11, content.output) /\ ReadersAwaited /\ CallShows /\ Cached(d11, content.cache, cache)
  BY DEF Honest
<1>2. OutputsHeld'
  BY <1>1 DEF OutputsHeld, Pending
<1>3. ReadersAwaited'
  BY <1>1 DEF ReadersAwaited
<1>4. CallShows'
  <2>1. Showing => call.slot \in Slot
    BY CallSlot DEF Showing, HasSlot
  <2> QED BY <1>1, <2>1 DEF CallShows, Pending
<1>5. Undisturbed'
  BY <1>1 DEF Undisturbed, Pending
<1> QED BY <1>1, <1>2, <1>3, <1>4, <1>5

\* The readers in x are about outputs that are there, and stay.
Due(x) ==
    \A p \in DOMAIN x : x[p].op \in Readers =>
        /\ x[p].slot \in Slot /\ slots[x[p].slot].completion <= fence.completion
        /\ Pending(x[p].slot) /\ x[p].frame = slots[x[p].slot].source

\* None, one, and more of them.
LEMMA DueNone == Due(<<>>)
BY DEF Due
LEMMA DueOne ==
  ASSUME NEW c, c.op \in Readers => /\ c.slot \in Slot /\ slots[c.slot].completion <= fence.completion
                                    /\ Pending(c.slot) /\ c.frame = slots[c.slot].source
  PROVE  Due(<<c>>)
BY DEF Due
LEMMA DueJoin ==
  ASSUME NEW x \in Seq(Command), Due(x), NEW y \in Seq(Command), Due(y)
  PROVE  Due(x \o y)
<1> DEFINE z == x \o y
<1>1. \A p \in DOMAIN z : (p \in DOMAIN x /\ z[p] = x[p]) \/ (p - Len(x) \in DOMAIN y /\ z[p] = y[p - Len(x)])
  BY JoinOf
<1> HIDE DEF z
<1>2. Due(z)
  BY <1>1 DEF Due
<1> QED BY <1>2 DEF z

\* Steps that let the context read outputs, or write the cache.
LEMMA ReadersShow ==
  ASSUME IInv, Honest, NEW x \in Seq(Command), d11' = d11 \o x, UNCHANGED <<d12, content, fence>>, ~Preparing', ~Showing',
         lapses' = {} => /\ lapses = {} /\ Due(x) /\ Cached(d11', content.cache, cache')
                         /\ \A i \in Slot : slots'[i].submission > seq'.consumed => slots'[i].source = slots[i].source /\ Pending(i)
                         /\ \A p \in DOMAIN x : ~Remakes(x[p])
  PROVE  Honest'
<1> SUFFICES ASSUME lapses' = {}
             PROVE  OutputsHeld' /\ Undisturbed' /\ Serves(d11, content.output)' /\ ReadersAwaited' /\ CallShows' /\ Cached(d11, content.cache, cache)'
  BY DEF Honest
<1>1. OutputsHeld /\ Undisturbed /\ Serves(d11, content.output) /\ ReadersAwaited /\ Due(x) /\ lapses = {}
  BY DEF Honest
<1>2. /\ d11 \in Seq(Command) /\ d12 \in Seq(Command) /\ slots \in [Slot -> SlotType] /\ seq \in SeqType
      /\ fence \in [producer : Nat, completion : Nat]
      /\ Ordered(d12, fence.completion, seq.completion) /\ Followed(d12, slots)
  BY <1>1 DEF IInv, Typed
<1>3. fence.completion \in Nat /\ fence.producer \in Nat /\ seq.completion \in Nat
  BY <1>2 DEF SeqType
<1>4. OutputsHeld'
  BY <1>1 DEF OutputsHeld, Pending
<1>5. CallShows'
  BY DEF CallShows
<1>6. ASSUME NEW p \in DOMAIN x, x[p].op \in Readers
      PROVE  /\ x[p].slot \in Slot /\ content.output[x[p].slot] = x[p].frame /\ Pending(x[p].slot)
             /\ \A k \in DOMAIN d12 : d12[k].slot # x[p].slot
  <2> DEFINE j == x[p].slot
  <2>1. j \in Slot /\ slots[j].completion <= fence.completion /\ Pending(j) /\ x[p].frame = slots[j].source
    BY <1>1, <1>6 DEF Due
  <2> HIDE DEF j
  <2>2. \A k \in DOMAIN d12 : d12[k].slot # j
    BY <1>2, <1>3, <2>1, NothingLeft, ZenonT(30)
  <2>3. Holds("evaluate", d12, content.output, j, slots[j].source)
    BY <1>1, <2>1 DEF OutputsHeld
  <2>4. content.output[j] = slots[j].source
    BY <2>2, <2>3 DEF Holds, Is
  <2> QED BY <2>1, <2>2, <2>4 DEF j
<1>7. Serves(d11, content.output)'
  <2> DEFINE y == d11 \o x
  <2>1. \A p \in DOMAIN y : (p \in DOMAIN d11 /\ y[p] = d11[p]) \/ (p - Len(d11) \in DOMAIN x /\ y[p] = x[p - Len(d11)])
    BY <1>2, JoinOf
  <2> HIDE DEF y
  <2>2. Serves(y, content.output)
    BY <1>1, <1>6, <2>1 DEF Serves
  <2> QED BY <2>2 DEF y
<1>8. ReadersAwaited'
  <2> SUFFICES ASSUME NEW o \in Readers, NEW k \in DOMAIN d12, d12[k].op = "evaluate"
               PROVE  Awaited(o, d11', d12, fence.producer, d12[k].slot, k)
    BY DEF ReadersAwaited
  <2> DEFINE j == d12[k].slot
             v == <<>>
  <2>1. Awaited(o, d11, d12, fence.producer, j, k)
    BY <1>1 DEF ReadersAwaited
  <2>2. \A p \in DOMAIN x : ~Is(o, x[p], j)
    BY <1>6 DEF Is
  <2>3. k \in Nat /\ d12 = d12 \o v /\ v \in Seq(Command)
    BY <1>2
  <2> HIDE DEF j, v
  <2>4. Awaited(o, d11 \o x, d12 \o v, fence.producer, j, k)
    BY <1>2, <1>3, <2>1, <2>2, <2>3, AwaitedAfterJoin, Zenon
  <2> QED BY <2>3, <2>4 DEF j
<1>9. Undisturbed'
  <2>1. \A p \in DOMAIN x : x[p].op \in Readers => x[p].slot \in Slot /\ Pending(x[p].slot) /\ Settled(x[p].slot, d12)
    BY <1>6 DEF Settled, Is
  <2>2. \A i \in Slot : slots'[i].submission > seq'.consumed /\ Settled(i, d12') => Pending(i) /\ Settled(i, d12)
    OBVIOUS
  <2> QED BY <1>1, <1>2, <2>1, <2>2, UndisturbedJoin
<1> QED BY <1>4, <1>5, <1>7, <1>8, <1>9

\* The result of the call is shown, and cached.
LEMMA ShowShows == IInv /\ Honest /\ Show => Honest'
<1> SUFFICES ASSUME IInv, Honest, Show PROVE Honest'
  OBVIOUS
<1> DEFINE i == call.slot
           n == seq.present
           m == slots[i].source
           caches == call.caches /\ cache.exists
           c == ShowSlot(i, n)
           e == CacheSlot(i, m)
           y == IF caches THEN <<e>> ELSE <<>>
           x == <<c>> \o y
<1>1. i \in Slot /\ slots[i] \in SlotType /\ seq \in SeqType /\ cache \in CacheType /\ d11 \in Seq(Command)
  BY CallSlot DEF Show, HasSlot, IInv, Typed
<1>2. m \in Nat /\ n \in Nat
  BY <1>1 DEF SlotType, SeqType
<1>3. /\ d11' = d11 \o <<c>> \o y /\ call' = NoCall /\ call.pc = "show"
      /\ cache' = [cache EXCEPT !.valid = caches, !.present = IF caches THEN m ELSE 0]
      /\ seq' = [seq EXCEPT !.consumed = slots[i].submission]
      /\ UNCHANGED <<slots, d12, content, fence, lapses>>
  BY DEF Show
<1>4. c \in Command /\ e \in Command /\ <<c>> \in Seq(Command) /\ y \in Seq(Command)
  BY <1>1, <1>2, CommandsFit
<1>5. /\ c.op = "showSlot" /\ c.slot = i /\ c.frame = n
      /\ e.op = "cacheSlot" /\ e.slot = i /\ e.frame = m
  BY DEF ShowSlot, CacheSlot
<1>6. cache'.valid => caches /\ cache'.present = m
  BY <1>1, <1>3 DEF CacheType
<1>7. ~Preparing' /\ ~Showing'
  BY <1>3, NoCallFits DEF Preparing, Showing
<1>8. ASSUME lapses' = {} PROVE Due(x) /\ Cached(d11', content.cache, cache') /\ Pending(i)
  <2>1. lapses = {}
    BY <1>3, <1>8
  <2>2. slots[i].completion <= fence.completion /\ m = n /\ Pending(i) /\ Cached(d11, content.cache, cache)
    BY <1>3, <2>1 DEF IInv, CallFits, Honest, CallShows, Showing
  <2> HIDE DEF c, e
  <2>3. Due(<<c>>) /\ Due(<<e>>)
    BY <1>1, <1>5, <2>2, DueOne
  <2>4. Due(y)
    BY <2>3, DueNone
  <2>5. Cached(d11 \o <<c>>, content.cache, cache)
    BY <1>1, <1>4, <1>5, <2>2, CachedReads DEF Writes
  <2> DEFINE q == d11 \o <<c>>
             k == cache'
  <2>6. q \in Seq(Command) /\ Cached(q, content.cache, cache) /\ d11' = q \o y
    BY <1>1, <1>3, <1>4, <2>5, JoinOf
  <2>7. k.valid => caches /\ e.op = "cacheSlot" /\ e.frame = k.present
    BY <1>5, <1>6
  <2> HIDE DEF q, k
  <2>8. CASE caches
    <3>1. Cached(q \o <<e>>, content.cache, k)
      BY <1>4, <1>5, <2>6, <2>7, CachedWrites
    <3> QED BY <1>4, <2>2, <2>3, <2>4, <2>6, <2>8, <3>1, DueJoin DEF k
  <2>9. CASE ~caches
    <3>1. d11' = q /\ ~k.valid
      BY <2>6, <2>7, <2>9
    <3> QED BY <1>4, <2>2, <2>3, <2>4, <2>6, <3>1, DueJoin, CachedLess DEF k
  <2> QED BY <2>8, <2>9
<1>9. x \in Seq(Command) /\ d11' = d11 \o x
  <2> HIDE DEF c, y
  <2> QED BY <1>1, <1>3, <1>4, JoinOf, JoinTwo
<1>10. \A p \in DOMAIN x : ~Remakes(x[p])
  <2> HIDE DEF c, e, caches
  <2>1. \A p \in DOMAIN y : ~Remakes(y[p])
    BY <1>5 DEF Remakes
  <2>2. ~Remakes(c)
    BY <1>5 DEF Remakes
  <2>3. \A p \in DOMAIN x : x[p] = c \/ (p - 1 \in DOMAIN y /\ x[p] = y[p - 1])
    <3> HIDE DEF y
    <3> QED BY <1>4, JoinOf
  <2> HIDE DEF x, y
  <2> QED BY <2>1, <2>2, <2>3
<1> HIDE DEF x
<1>11. lapses' = {} => \A j \in Slot : slots'[j].submission > seq'.consumed => slots'[j].source = slots[j].source /\ Pending(j)
  <2> SUFFICES ASSUME lapses' = {}, NEW j \in Slot, slots'[j].submission > seq'.consumed PROVE Pending(j)
    BY <1>3
  <2>1. seq'.consumed = slots[i].submission
    BY <1>1, <1>3 DEF SeqType
  <2>2. slots[i].submission > seq.consumed
    BY <1>8 DEF Pending
  <2>3. slots[j].submission \in Nat /\ slots[i].submission \in Nat /\ seq.consumed \in Nat /\ slots \in [Slot -> SlotType]
    BY <1>1 DEF SlotType, SeqType, IInv, Typed
  <2> QED BY <1>3, <2>1, <2>2, <2>3 DEF Pending
<1> QED BY <1>3, <1>7, <1>8, <1>9, <1>10, <1>11, ReadersShow

\* What is consumed is an output that is there.
LEMMA ConsumeShows ==
  ASSUME IInv, NEW frames \in [Slot -> SlotType], \A i \in Slot : frames[i].submission <= seq.submission,
         NEW c \in CacheType, NEW f \in Nat
  PROVE  LET u == Consume(frames, c, f)
         IN \/ u.copies = <<>> /\ u.cache = c /\ u.consumed = seq.consumed
            \/ \E i \in Slot : /\ frames[i].completion \in 1..f /\ frames[i].submission > seq.consumed
                               /\ u.consumed = frames[i].submission
                               /\ u.copies = <<CacheSlot(i, frames[i].source)>>
                               /\ u.cache.present = frames[i].source
<1> DEFINE fresh == {i \in Slot : frames[i].completion \in 1..f /\ frames[i].submission > seq.consumed}
           latest == CHOOSE i \in fresh : \A j \in fresh : frames[i].submission >= frames[j].submission
           none == fresh = {} \/ ~c.exists \/ frames[latest].final \notin frames[latest].textures
           u == Consume(frames, c, f)
<1>1. seq \in SeqType
  BY DEF IInv, Typed
<1>2. seq.submission \in Nat /\ seq.consumed \in Nat
  BY <1>1 DEF SeqType
<1>3. u = IF none THEN [cache |-> c, copies |-> <<>>, consumed |-> seq.consumed]
          ELSE [cache |-> [c EXCEPT !.valid = TRUE, !.present = frames[latest].source],
                copies |-> <<CacheSlot(latest, frames[latest].source)>>, consumed |-> frames[latest].submission]
  BY DEF Consume
<1>4. CASE none
  <2>1. u = [cache |-> c, copies |-> <<>>, consumed |-> seq.consumed]
    <3> HIDE DEF none, u, fresh, latest
    <3> QED BY <1>3, <1>4, Zenon
  <2> HIDE DEF u
  <2>2. u.copies = <<>> /\ u.cache = c /\ u.consumed = seq.consumed
    BY <2>1
  <2> QED BY <2>2 DEF u
<1>5. CASE ~none
  <2>1. \E i \in fresh : \A j \in fresh : frames[i].submission >= frames[j].submission
    BY <1>2, <1>5, LatestExists
  <2>2. latest \in fresh
    BY <2>1
  <2> HIDE DEF none, latest
  <2>3. latest \in Slot /\ frames[latest].completion \in 1..f /\ frames[latest].submission > seq.consumed
    BY <2>2
  <2> DEFINE n == frames[latest].source
             b == frames[latest].submission
  <2>6. u.copies = <<CacheSlot(latest, n)>> /\ u.cache = [c EXCEPT !.valid = TRUE, !.present = n] /\ u.consumed = b
    <3> HIDE DEF fresh
    <3> QED BY <1>3, <1>5
  <2> HIDE DEF n
  <2>7. u.cache.present = n
    <3> HIDE DEF u
    <3> QED BY <2>6 DEF CacheType
  <2> USE DEF n
  <2> HIDE DEF u
  <2> QED BY <2>3, <2>6, <2>7 DEF u
<1> QED BY <1>4, <1>5

\* The copies of what is consumed, when nothing that is forgotten is.
LEMMA CopiesShow ==
  ASSUME IInv, NEW frames \in [Slot -> SlotType], \A i \in Slot : frames[i].submission <= seq.submission,
         \A i \in Slot : frames[i] = slots[i] \/ frames[i].completion = 0,
         NEW c \in CacheType, NEW u, u = Consume(frames, c, fence.completion),
         NEW q \in Seq(Command), Cached(q, content.cache, c)
  PROVE  Due(u.copies) /\ Cached(q \o u.copies, content.cache, u.cache) /\ \A p \in DOMAIN u.copies : ~Remakes(u.copies[p])
<1>1. fence.completion \in Nat
  BY DEF IInv, Typed
<1>2. \/ u.copies = <<>> /\ u.cache = c
      \/ \E i \in Slot : /\ frames[i].completion \in 1..fence.completion /\ frames[i].submission > seq.consumed
                         /\ u.copies = <<CacheSlot(i, frames[i].source)>>
                         /\ u.cache.present = frames[i].source
  BY <1>1, ConsumeShows
<1>3. CASE u.copies = <<>> /\ u.cache = c
  BY <1>3, DueNone
<1>4. ASSUME NEW i \in Slot, frames[i].completion \in 1..fence.completion, frames[i].submission > seq.consumed,
             u.copies = <<CacheSlot(i, frames[i].source)>>, u.cache.present = frames[i].source
      PROVE  Due(u.copies) /\ Cached(q \o u.copies, content.cache, u.cache) /\ \A p \in DOMAIN u.copies : ~Remakes(u.copies[p])
  <2> DEFINE e == CacheSlot(i, frames[i].source)
             k == u.cache
  <2>1. frames[i] = slots[i] /\ frames[i] \in SlotType
    BY <1>1, <1>4
  <2>2. frames[i].source \in Nat /\ frames[i].completion <= fence.completion
    BY <1>1, <1>4, <2>1 DEF SlotType
  <2>3. e \in Command
    BY <1>4, <2>2, CommandsFit
  <2>4. e.op = "cacheSlot" /\ e.slot = i /\ e.frame = slots[i].source /\ k.present = e.frame
    BY <1>4, <2>1 DEF CacheSlot
  <2> HIDE DEF e, k
  <2>5. Due(<<e>>)
    BY <1>4, <2>1, <2>2, <2>4, DueOne DEF Pending
  <2>7. ~Remakes(e)
    BY <2>4 DEF Remakes
  <2>6. Cached(q \o <<e>>, content.cache, k)
    BY <2>3, <2>4, CachedWrites
  <2>8. \A p \in DOMAIN <<e>> : ~Remakes(<<e>>[p])
    BY <2>7
  <2>9. u.copies = <<e>>
    BY <1>4 DEF e
  <2> QED BY <2>5, <2>6, <2>8, <2>9 DEF k
<1> QED BY <1>2, <1>3, <1>4

\* Consuming only raises what is consumed.
LEMMA ConsumesOn ==
  ASSUME IInv, NEW frames \in [Slot -> SlotType], \A i \in Slot : frames[i].submission <= seq.submission,
         NEW c \in CacheType, NEW f \in Nat, NEW u, u = Consume(frames, c, f)
  PROVE  u.consumed \in Nat /\ u.consumed >= seq.consumed /\ seq.consumed \in Nat
<1>1. seq.consumed \in Nat /\ \A i \in Slot : frames[i].submission \in Nat
  BY DEF IInv, Typed, SeqType, SlotType
<1>2. u.consumed = seq.consumed \/ \E i \in Slot : u.consumed = frames[i].submission /\ frames[i].submission > seq.consumed
  BY ConsumeShows
<1> QED BY <1>1, <1>2

\* After the wait for a slot an output may be consumed.
LEMMA ReselectShows == IInv /\ Honest /\ Reselect => Honest'
<1> SUFFICES ASSUME IInv, Honest, Reselect PROVE Honest'
  OBVIOUS
<1> DEFINE u == Consume(slots, cache, fence.completion)
           d == SelectSlot(slots, fence.completion, call.limit)
           x == u.copies
<1>1. /\ slots \in [Slot -> SlotType] /\ cache \in CacheType /\ d11 \in Seq(Command) /\ fence.completion \in Nat
      /\ \A i \in Slot : slots[i].submission <= seq.submission
  BY DEF IInv, Typed
<1>2. u.copies \in Seq(Command)
  BY <1>1, ConsumeFits
<1>3. /\ cache' = u.cache /\ d11' = d11 \o u.copies /\ lapses' = Regrown(slots, d, call.limit)
      /\ seq' = [seq EXCEPT !.consumed = u.consumed]
      /\ UNCHANGED <<slots, d12, fence, content>>
  BY DEF Reselect
<1>8. u.consumed \in Nat /\ u.consumed >= seq.consumed /\ seq.consumed \in Nat
  BY <1>1, ConsumesOn
<1> HIDE DEF u, d
<1>9. \A i \in Slot : slots'[i].submission > seq'.consumed => slots'[i].source = slots[i].source /\ Pending(i)
  <2>1. seq'.consumed = u.consumed /\ \A i \in Slot : slots[i].submission \in Nat
    BY <1>1, <1>3 DEF SlotType, IInv, Typed, SeqType
  <2> QED BY <1>3, <1>8, <2>1 DEF Pending
<1>4. ~Preparing' /\ ~Showing'
  BY ReselectDecides DEF NoCall, Preparing, Showing
<1>5. ASSUME lapses' = {}
      PROVE  lapses = {} /\ Due(u.copies) /\ Cached(d11', content.cache, cache') /\ \A p \in DOMAIN u.copies : ~Remakes(u.copies[p])
  <2>1. lapses = {}
    BY <1>3, <1>5 DEF Regrown
  <2>2. Cached(d11, content.cache, cache)
    BY <2>1 DEF Honest
  <2>3. Due(u.copies) /\ Cached(d11 \o u.copies, content.cache, u.cache) /\ \A p \in DOMAIN u.copies : ~Remakes(u.copies[p])
    BY <1>1, <2>2, CopiesShow DEF u
  <2> QED BY <1>3, <2>1, <2>3
<1>6. x \in Seq(Command) /\ d11' = d11 \o x
  BY <1>2, <1>3
<1>7. lapses' = {} => lapses = {} /\ Due(x) /\ Cached(d11', content.cache, cache') /\ \A p \in DOMAIN x : ~Remakes(x[p])
  BY <1>5
<1> HIDE DEF x
<1> QED BY <1>3, <1>4, <1>6, <1>7, <1>9, ReadersShow

\* evaluate resets a new cache, consumes an output, and shows the cache if it is valid then.
LEMMA EvaluateShows ==
  ASSUME NEW mode, NEW limit, NEW extent, IInv, Honest, Evaluate(mode, limit, extent)
  PROVE  Honest'
<1> DEFINE resized == extent # features.extent
           frames  == IF resized THEN [i \in Slot |-> [slots[i] EXCEPT !.completion = 0, !.submission = 0, !.textures = {}, !.final = "output"]] ELSE slots
           created == NeedsCache(mode) /\ (resized \/ ~cache.exists)
           kept    == IF created THEN [exists |-> TRUE, valid |-> FALSE, present |-> cache.present]
                      ELSE IF NeedsCache(mode) THEN cache ELSE NoCache
           u       == Consume(frames, kept, fence.completion)
           uses    == UsesCached(mode, u.cache, CacheAge(u.cache, seq.present + 1))
           y       == IF created THEN <<ResetCache>> ELSE <<>>
           z       == IF uses THEN <<ShowCache(u.cache.present)>> ELSE <<>>
           x       == (y \o u.copies) \o z
           d       == SelectSlot(frames, fence.completion, limit)
<1>1. /\ slots \in [Slot -> SlotType] /\ seq \in SeqType /\ d11 \in Seq(Command) /\ cache \in CacheType
      /\ fence.completion \in Nat /\ \A i \in Slot : slots[i].submission <= seq.submission
  BY DEF IInv, Typed
<1>2. seq.submission \in Nat /\ cache.present \in Nat
  BY <1>1 DEF SeqType, CacheType
<1>3. /\ slots' = frames /\ cache' = u.cache /\ d11' = d11 \o y \o u.copies \o z
      /\ UNCHANGED <<d12, fence, content>>
      /\ IF resized THEN AwaitSubmittedWork ELSE lapses' = Regrown(frames, d, limit)
      /\ seq' = [seq EXCEPT !.present = seq.present + 1, !.consumed = u.consumed]
  BY DEF Evaluate
<1>4. ASSUME NEW i \in Slot
      PROVE  /\ frames[i] \in SlotType /\ frames[i].submission <= seq.submission
             /\ frames[i] = slots[i] \/ (frames[i].completion = 0 /\ frames[i].submission = 0)
  <2>1. CASE resized
    <3>1. slots[i] \in SlotType /\ frames[i] = [slots[i] EXCEPT !.completion = 0, !.submission = 0, !.textures = {}, !.final = "output"]
      BY <1>1, <2>1
    <3> HIDE DEF frames
    <3>2. {} \in SUBSET Textures /\ 0 \in Nat
      OBVIOUS
    <3>3. frames[i] \in SlotType /\ frames[i].completion = 0 /\ frames[i].submission = 0
      BY <3>1, <3>2 DEF SlotType
    <3> QED BY <1>2, <3>3
  <2>2. CASE ~resized
    BY <1>1, <2>2
  <2> QED BY <2>1, <2>2
<1>5. frames \in [Slot -> SlotType]
  <2>1. frames = [i \in Slot |-> frames[i]]
    BY <1>1
  <2> HIDE DEF frames
  <2> QED BY <1>4, <2>1
<1>6. lapses' = {} => lapses = {}
  BY <1>3 DEF AwaitSubmittedWork, Regrown
<1>7. kept \in CacheType /\ (kept.valid => ~created /\ kept = cache)
  BY <1>1, <1>2 DEF CacheType, NoCache
<1>8. uses => u.cache.valid
  BY DEF UsesCached
<1> HIDE DEF frames, kept, uses, d
<1>9. u.cache \in CacheType /\ u.copies \in Seq(Command) /\ u.consumed \in Nat /\ u.consumed >= seq.consumed /\ seq.consumed \in Nat
  BY <1>1, <1>4, <1>5, <1>7, ConsumeFits, ConsumesOn
<1>10. u.cache.present \in Nat
  BY <1>9 DEF CacheType
<1> DEFINE r == ResetCache
           s == ShowCache(u.cache.present)
           copies == u.copies
           now == u.cache
<1>11. r \in Command /\ s \in Command
  BY <1>10, CommandsFit
<1>12. r.op = "resetCache" /\ s.op = "showCache" /\ s.frame = now.present
  BY DEF ResetCache, ShowCache
<1>13. copies \in Seq(Command) /\ now \in CacheType /\ (uses => now.valid) /\ cache' = now
  BY <1>3, <1>8, <1>9
<1>14. y = (IF created THEN <<r>> ELSE <<>>) /\ z = (IF uses THEN <<s>> ELSE <<>>) /\ x = (y \o copies) \o z
       /\ d11' = ((d11 \o y) \o copies) \o z
  BY <1>3
<1>15. ASSUME lapses = {} PROVE Due(x) /\ Cached(d11', content.cache, cache') /\ \A j \in DOMAIN x : ~Remakes(x[j])
  <2>1. Cached(d11, content.cache, cache)
    BY <1>15 DEF Honest
  <2> HIDE DEF r, s, created, y, z, x
  <2>2. y \in Seq(Command) /\ z \in Seq(Command)
    BY <1>11, <1>14
  <2>3. Due(<<r>>) /\ Due(<<s>>)
    BY <1>12, DueOne DEF Readers
  <2>4. Due(y) /\ Due(z)
    BY <1>14, <2>3, DueNone
  <2>5. Cached(d11 \o y, content.cache, kept)
    <3>1. CASE created
      <4>1. Cached(d11 \o <<r>>, content.cache, kept)
        BY <1>1, <1>7, <1>11, <1>12, <2>1, <3>1, CachedWrites
      <4> QED BY <1>14, <3>1, <4>1
    <3>2. CASE ~created
      <4>1. d11 \o y = d11
        BY <1>1, <1>14, <3>2
      <4> QED BY <1>7, <2>1, <4>1, CachedLess
    <3> QED BY <3>1, <3>2
  <2> DEFINE q == d11 \o y
             p == q \o copies
  <2>6. q \in Seq(Command)
    BY <1>1, <2>2, JoinOf
  <2>7. Cached(q, content.cache, kept)
    BY <2>5
  <2> HIDE DEF q
  <2>8. Due(copies) /\ Cached(p, content.cache, now) /\ \A j \in DOMAIN copies : ~Remakes(copies[j])
    BY <1>1, <1>4, <1>5, <1>7, <2>6, <2>7, CopiesShow
  <2>9. p \in Seq(Command) /\ d11' = p \o z
    BY <1>13, <1>14, <2>6, JoinOf DEF q
  <2> HIDE DEF u, copies, now, p
  <2>10. Due(y \o copies) /\ y \o copies \in Seq(Command)
    BY <1>13, <2>2, <2>4, <2>8, DueJoin, JoinOf
  <2>11. Due(x)
    BY <1>14, <2>2, <2>4, <2>10, DueJoin
  <2>12. Cached(p \o z, content.cache, now)
    <3>1. CASE uses
      <4>1. Cached(p \o <<s>>, content.cache, now)
        BY <1>11, <1>12, <1>13, <2>8, <2>9, <3>1, CachedReads DEF Writes
      <4> QED BY <1>14, <3>1, <4>1
    <3>2. CASE ~uses
      <4>1. p \o z = p
        BY <1>14, <2>9, <3>2
      <4> QED BY <2>8, <4>1
    <3> QED BY <3>1, <3>2
  <2>13. (\A j \in DOMAIN y : ~Remakes(y[j])) /\ (\A j \in DOMAIN z : ~Remakes(z[j]))
    BY <1>12, <1>14 DEF Remakes
  <2>14. \A j \in DOMAIN (y \o copies) : ~Remakes((y \o copies)[j])
    <3> DEFINE w == y \o copies
    <3>1. \A j \in DOMAIN w : (j \in DOMAIN y /\ w[j] = y[j]) \/ (j - Len(y) \in DOMAIN copies /\ w[j] = copies[j - Len(y)])
      BY <1>13, <2>2, JoinOf
    <3> HIDE DEF w
    <3>2. \A j \in DOMAIN w : ~Remakes(w[j])
      BY <2>8, <2>13, <3>1
    <3> QED BY <3>2 DEF w
  <2>15. \A j \in DOMAIN x : ~Remakes(x[j])
    <3> DEFINE w == y \o copies
    <3>1. w \in Seq(Command) /\ x = w \o z /\ \A j \in DOMAIN w : ~Remakes(w[j])
      BY <1>14, <2>10, <2>14
    <3> HIDE DEF w
    <3> DEFINE v == w \o z
    <3>2. \A j \in DOMAIN v : (j \in DOMAIN w /\ v[j] = w[j]) \/ (j - Len(w) \in DOMAIN z /\ v[j] = z[j - Len(w)])
      BY <2>2, <3>1, JoinOf
    <3>3. x = v
      BY <3>1
    <3> HIDE DEF v
    <3> QED BY <2>13, <3>1, <3>2, <3>3
  <2> QED BY <1>13, <2>9, <2>11, <2>12, <2>15
<1>16. ~Preparing' /\ ~Showing'
  BY EvaluateDecides DEF NoCall, Preparing, Showing
<1>17. x \in Seq(Command) /\ d11' = d11 \o x
  <2> HIDE DEF r, s, created, y, z, x, u, copies, now
  <2>1. y \in Seq(Command) /\ z \in Seq(Command)
    BY <1>11, <1>14
  <2> DEFINE t == y \o copies
  <2>2. (d11 \o y) \o copies = d11 \o t /\ t \in Seq(Command)
    BY <1>1, <1>13, <2>1, JoinTwo, JoinOf, SMTT(20)
  <2>3. x = t \o z /\ d11' = (d11 \o t) \o z
    BY <1>14, <2>2
  <2> HIDE DEF t
  <2>4. t \o z \in Seq(Command) /\ (d11 \o t) \o z = d11 \o (t \o z)
    BY <1>1, <2>1, <2>2, JoinTwo, JoinOf, SMTT(20)
  <2> QED BY <2>3, <2>4
<1>18. \A i \in Slot : slots'[i].submission > seq'.consumed => slots'[i].source = slots[i].source /\ Pending(i)
  <2> DEFINE n == seq.present + 1
             m == u.consumed
  <2>1. m \in Nat /\ m >= seq.consumed /\ seq.consumed \in Nat /\ seq' = [seq EXCEPT !.present = n, !.consumed = m]
    BY <1>3, <1>9
  <2> HIDE DEF n, m, u
  <2>2. seq'.consumed = m
    BY <1>1, <2>1 DEF SeqType
  <2>3. \A i \in Slot : slots[i].submission \in Nat
    BY <1>1 DEF SlotType
  <2> SUFFICES ASSUME NEW i \in Slot, frames[i].submission > m PROVE frames[i].source = slots[i].source /\ Pending(i)
    BY <1>3, <2>2
  <2>4. frames[i] = slots[i]
    BY <1>4, <2>1
  <2> QED BY <2>1, <2>3, <2>4 DEF Pending
<1> HIDE DEF x
<1> QED BY <1>3, <1>6, <1>15, <1>16, <1>17, <1>18, ReadersShow

\* Two commands are appended.
LEMMA AppendTwo ==
  ASSUME NEW q \in Seq(Command), NEW g \in Command, NEW s \in Command
  PROVE  Append(Append(q, g), s) = q \o <<g, s>>
OBVIOUS

\* The guides of a free slot are copied: no pending reader of its output is overtaken by what
\* the call will submit, since the queue waits for a signal behind them.
LEMMA HandoverShows ==
  ASSUME IInv, Honest, NEW i \in Slot, NEW n \in Nat \ {0}, NEW v, v = seq.producer + 1,
         d11' = Append(Append(d11, GuideCopy(i, n)), Produced(v)), d12' = Append(d12, AwaitProducer(v)),
         UNCHANGED <<content, fence, cache, lapses>>, seq'.present = seq.present, seq'.consumed = seq.consumed, call'.slot = i, ~Showing',
         \A j \in Slot : slots'[j].source = slots[j].source /\ slots'[j].submission = slots[j].submission
  PROVE  Honest'
<1> SUFFICES ASSUME lapses' = {}
             PROVE  OutputsHeld' /\ Undisturbed' /\ Serves(d11, content.output)' /\ ReadersAwaited' /\ CallShows' /\ Cached(d11, content.cache, cache)'
  BY DEF Honest
<1> DEFINE g == GuideCopy(i, n)
           s == Produced(v)
           a == AwaitProducer(v)
           b == Append(d11, g)
<1>1. OutputsHeld /\ Undisturbed /\ Serves(d11, content.output) /\ ReadersAwaited /\ Cached(d11, content.cache, cache)
  BY DEF Honest
<1>2. /\ d11 \in Seq(Command) /\ d12 \in Seq(Command) /\ fence.producer \in Nat /\ fence.producer <= seq.producer /\ seq.producer \in Nat
      /\ \A p \in DOMAIN d11 : d11[p].op = "signal" => d11[p].frame \in Nat /\ d11[p].frame <= seq.producer
  <2>1. d11 \in Seq(Command) /\ d12 \in Seq(Command) /\ fence.producer \in Nat /\ seq \in SeqType
    BY DEF IInv, Typed
  <2>2. \A p \in DOMAIN d11 : d11[p] \in Command
    BY <2>1
  <2> QED BY <2>1, <2>2 DEF IInv, Bounds, SeqType, Command
<1>3. v \in Nat /\ fence.producer < v /\ \A p \in DOMAIN d11 : d11[p].op = "signal" => d11[p].frame < v
  BY <1>2
<1>4. g \in Command /\ s \in Command /\ a \in Command
  BY <1>3, CommandsFit
<1>5. g.op = "guides" /\ s.op = "signal" /\ a.op = "wait" /\ g.frame # 0
  BY DEF GuideCopy, Produced, AwaitProducer
<1>6. ASSUME NEW o \in Readers PROVE Awaited(o, d11', d12', fence.producer, i, Len(d12) + 2)
  BY <1>2, <1>3, HandedOver
<1> DEFINE x == <<g, s>>
           z == <<a>>
<1>7. x \in Seq(Command) /\ z \in Seq(Command) /\ d11' = d11 \o x /\ d12' = d12 \o z
  <2>1. d11' = Append(Append(d11, g), s) /\ d12' = Append(d12, a)
    OBVIOUS
  <2>2. d11 \in Seq(Command) /\ d12 \in Seq(Command)
    BY <1>2
  <2> HIDE DEF g, s, a, b
  <2>3. x \in Seq(Command) /\ z \in Seq(Command)
    BY <1>4
  <2>4. Append(Append(d11, g), s) = d11 \o <<g, s>>
    BY <1>4, <2>2, AppendTwo
  <2>5. Append(d12, a) = d12 \o <<a>>
    BY <1>4, <2>2
  <2> QED BY <2>1, <2>3, <2>4, <2>5
<1>8. (\A p \in DOMAIN x : x[p].op \in {"guides", "signal"}) /\ (\A p \in DOMAIN z : z[p].op = "wait")
  <2> HIDE DEF g, s, a
  <2> QED BY <1>5
<1>16. \A p \in DOMAIN x : ~Remakes(x[p])
  <2> HIDE DEF g, s, a
  <2> QED BY <1>5 DEF Remakes
<1>9. Len(d12) \in Nat /\ DOMAIN d12 = 1..Len(d12) /\ Len(d12') + 1 = Len(d12) + 2 /\ DOMAIN d12' = 1..(Len(d12) + 1)
      /\ (\A k \in DOMAIN d12 : d12'[k] = d12[k]) /\ d12'[Len(d12) + 1].op = "wait"
  <2> HIDE DEF g, s, a, x, z
  <2> QED BY <1>2, <1>4, <1>5 DEF a
<1>10. Cached(d11', content.cache, cache)
  <2> HIDE DEF g, s, x
  <2>1. Cached(d11 \o <<g>>, content.cache, cache)
    BY <1>1, <1>2, <1>4, <1>5, CachedReads DEF Writes
  <2>2. b = d11 \o <<g>> /\ b \in Seq(Command)
    BY <1>2, <1>4
  <2>3. d11' = b \o <<s>>
    BY <1>4, <2>2, AppendOf DEF g, s
  <2> HIDE DEF b
  <2>4. Cached(b \o <<s>>, content.cache, cache)
    BY <1>4, <1>5, <2>1, <2>2, CachedReads DEF Writes
  <2> QED BY <2>3, <2>4
<1> HIDE DEF g, s, a, x, z, b
<1>11. OutputsHeld'
  <2> SUFFICES ASSUME NEW j \in Slot, slots'[j].submission > seq'.consumed PROVE Holds("evaluate", d12', content.output, j, slots'[j].source)
    BY DEF OutputsHeld, Pending
  <2>1. Holds("evaluate", d12, content.output, j, slots[j].source)
    BY <1>1 DEF OutputsHeld, Pending
  <2>2. \A p \in DOMAIN z : ~Is("evaluate", z[p], j)
    BY <1>8 DEF Is
  <2>3. Holds("evaluate", d12 \o z, content.output, j, slots[j].source)
    BY <1>2, <1>7, <2>1, <2>2, HoldsAfterJoin
  <2> QED BY <1>7, <2>3
<1>12. Serves(d11, content.output)'
  <2>1. \A p \in DOMAIN d11' : (p \in DOMAIN d11 /\ d11'[p] = d11[p]) \/ d11'[p].op \in {"guides", "signal"}
    <3> DEFINE y == d11 \o x
    <3>1. \A p \in DOMAIN y : (p \in DOMAIN d11 /\ y[p] = d11[p]) \/ (p - Len(d11) \in DOMAIN x /\ y[p] = x[p - Len(d11)])
      BY <1>2, <1>7, JoinOf
    <3>2. d11' = y
      BY <1>7
    <3> HIDE DEF y
    <3>3. \A p \in DOMAIN y : (p \in DOMAIN d11 /\ y[p] = d11[p]) \/ y[p].op \in {"guides", "signal"}
      BY <1>8, <3>1
    <3> QED BY <3>2, <3>3
  <2> DEFINE w == d11'
             out == content.output
  <2>2. /\ Serves(d11, out) /\ content'.output = out
        /\ \A p \in DOMAIN w : (p \in DOMAIN d11 /\ w[p] = d11[p]) \/ w[p].op \in {"guides", "signal"}
    BY <1>1, <2>1
  <2> HIDE DEF w, out
  <2>3. Serves(w, out)
    BY <2>2 DEF Serves, Readers
  <2> QED BY <2>2, <2>3 DEF w, Serves, Readers
<1>13. ReadersAwaited'
  <2> SUFFICES ASSUME NEW o \in Readers
               PROVE  /\ \A k \in DOMAIN d12' : d12'[k].op = "evaluate" => Awaited(o, d11', d12', fence.producer, d12'[k].slot, k)
                      /\ Awaited(o, d11', d12', fence.producer, i, Len(d12') + 1)
    BY DEF ReadersAwaited
  <2>1. ASSUME NEW k \in DOMAIN d12', d12'[k].op = "evaluate" PROVE Awaited(o, d11', d12', fence.producer, d12'[k].slot, k)
    <3> DEFINE j == d12[k].slot
    <3>1. k \in DOMAIN d12 /\ d12'[k] = d12[k] /\ k \in Nat
      BY <1>9, <2>1
    <3>2. Awaited(o, d11, d12, fence.producer, j, k)
      BY <1>1, <2>1, <3>1 DEF ReadersAwaited
    <3>3. \A p \in DOMAIN x : ~Is(o, x[p], j)
      BY <1>8 DEF Is, Readers
    <3> HIDE DEF j
    <3>4. Awaited(o, d11 \o x, d12 \o z, fence.producer, j, k)
      BY <1>2, <1>7, <3>1, <3>2, <3>3, AwaitedAfterJoin, Zenon
    <3> QED BY <1>7, <3>1, <3>4 DEF j
  <2>2. Awaited(o, d11', d12', fence.producer, i, Len(d12') + 1)
    BY <1>6, <1>9
  <2> QED BY <2>1, <2>2
<1>14. CallShows'
  BY DEF CallShows
<1>15. Undisturbed'
  <2>1. \A j \in Slot : Settled(j, d12') => Settled(j, d12)
    BY <1>9 DEF Settled
  <2>2. \A j \in Slot : slots'[j].submission > seq'.consumed /\ Settled(j, d12') => Pending(j) /\ Settled(j, d12)
    BY <2>1 DEF Pending
  <2>3. \A p \in DOMAIN x : ~Remakes(x[p]) /\ x[p].op \notin Readers
    BY <1>8, <1>16 DEF Readers
  <2> QED BY <1>1, <1>2, <1>7, <2>2, <2>3, UndisturbedJoin
<1> QED BY <1>10, <1>11, <1>12, <1>13, <1>14, <1>15

\* A hand-over that fails leaves the guides and perhaps the signal with the context.
LEMMA FailedHandoverShows ==
  ASSUME IInv, Honest, NEW i \in Slot, NEW n \in Nat \ {0}, NEW v \in Nat,
         d11' \in {Append(d11, GuideCopy(i, n)), Append(Append(d11, GuideCopy(i, n)), Produced(v))},
         UNCHANGED <<d12, content, fence, cache, lapses>>, call' = NoCall, seq'.consumed = seq.consumed,
         \A j \in Slot : slots'[j].source = slots[j].source /\ slots'[j].submission = slots[j].submission
  PROVE  Honest'
<1> DEFINE g == GuideCopy(i, n)
           s == Produced(v)
           b == Append(d11, g)
           x == <<g>>
           y == <<g, s>>
<1>1. d11 \in Seq(Command) /\ g \in Command /\ s \in Command
  BY CommandsFit DEF IInv, Typed
<1>2. g.op = "guides" /\ s.op = "signal" /\ g.frame # 0
  BY DEF GuideCopy, Produced
<1>3. ~Preparing' /\ ~Showing'
  BY NoCallFits DEF Preparing, Showing
<1>4. d11' = b \/ d11' = Append(b, s)
  OBVIOUS
<1> HIDE DEF g, s
<1>5. /\ b = d11 \o <<g>> /\ b \in Seq(Command) /\ Append(b, s) = b \o <<s>> /\ Append(b, s) = d11 \o y
      /\ x \in Seq(Command) /\ y \in Seq(Command)
  <2>1. b = d11 \o <<g>> /\ b \in Seq(Command)
    BY <1>1
  <2>2. x \in Seq(Command) /\ y \in Seq(Command)
    BY <1>1
  <2>3. Append(b, s) = d11 \o y
    BY <1>1
  <2>4. Append(b, s) = b \o <<s>>
    <3> HIDE DEF b
    <3> QED BY <1>1, <2>1
  <2> QED BY <2>1, <2>2, <2>3, <2>4
<1>6. Due(x) /\ Due(y)
  BY <1>2 DEF Due, Readers
<1>10. (\A p \in DOMAIN x : ~Remakes(x[p])) /\ (\A p \in DOMAIN y : ~Remakes(y[p]))
  BY <1>2 DEF Remakes
<1>11. \A j \in Slot : slots'[j].submission > seq'.consumed => slots'[j].source = slots[j].source /\ Pending(j)
  BY DEF Pending
<1> HIDE DEF b, y
<1>7. ASSUME lapses = {} PROVE Cached(b, content.cache, cache) /\ Cached(Append(b, s), content.cache, cache)
  <2>1. Cached(d11, content.cache, cache)
    BY <1>7 DEF Honest
  <2>2. Cached(b, content.cache, cache)
    BY <1>1, <1>2, <1>5, <2>1, CachedReads DEF Writes
  <2>3. Cached(b \o <<s>>, content.cache, cache)
    BY <1>1, <1>2, <1>5, <2>2, CachedReads DEF Writes
  <2> QED BY <1>5, <2>2, <2>3
<1>8. CASE d11' = b
  <2> HIDE DEF x
  <2>1. d11' = d11 \o x
    BY <1>5, <1>8 DEF x
  <2>2. lapses' = {} => lapses = {} /\ Due(x) /\ Cached(d11', content.cache, cache')
    BY <1>6, <1>7, <1>8
  <2> QED BY <1>3, <1>5, <1>10, <1>11, <2>1, <2>2, ReadersShow
<1>9. CASE d11' = Append(b, s)
  <2>1. d11' = d11 \o y
    BY <1>5, <1>9
  <2>2. lapses' = {} => lapses = {} /\ Due(y) /\ Cached(d11', content.cache, cache')
    BY <1>6, <1>7, <1>9
  <2> QED BY <1>3, <1>5, <1>10, <1>11, <2>1, <2>2, ReadersShow
<1> QED BY <1>4, <1>8, <1>9

\* Textures made again hold no output that is still to be consumed.
LEMMA RemakeShows ==
  ASSUME IInv, Honest, NEW i \in Slot, d11' = Append(d11, Remade(i)), UNCHANGED <<d12, content, fence, cache, seq>>,
         ~Preparing', ~Showing', lapses' = DropsOutput(i),
         \A j \in Slot : slots'[j].source = slots[j].source /\ slots'[j].submission = slots[j].submission
  PROVE  Honest'
<1> SUFFICES ASSUME lapses' = {}
             PROVE  OutputsHeld' /\ Undisturbed' /\ Serves(d11, content.output)' /\ ReadersAwaited' /\ CallShows' /\ Cached(d11, content.cache, cache)'
  BY DEF Honest
<1> DEFINE g == Remade(i)
           x == <<g>>
<1>1. lapses = {} /\ ~Pending(i)
  BY DEF DropsOutput, Pending
<1>2. OutputsHeld /\ Undisturbed /\ Serves(d11, content.output) /\ ReadersAwaited /\ Cached(d11, content.cache, cache)
  BY <1>1 DEF Honest
<1>3. d11 \in Seq(Command) /\ d12 \in Seq(Command) /\ g \in Command /\ fence.producer \in Nat
  BY CommandsFit DEF Remade, IInv, Typed
<1>4. g.op = "guides" /\ g.slot = i
  BY DEF Remade, GuideCopy
<1> HIDE DEF g
<1>5. /\ d11' = d11 \o x /\ x \in Seq(Command) /\ Len(d11) \in Nat /\ DOMAIN d11 = 1..Len(d11)
      /\ DOMAIN d11' = 1..(Len(d11) + 1) /\ d11'[Len(d11) + 1] = g /\ \A p \in DOMAIN d11 : d11'[p] = d11[p]
  <2>1. d11' = Append(d11, g)
    BY DEF g
  <2>2. Append(d11, g) = d11 \o x /\ x \in Seq(Command)
    BY <1>3, AppendOf
  <2> QED BY <1>3, <2>1, <2>2
<1>6. OutputsHeld' /\ CallShows'
  BY <1>2 DEF OutputsHeld, Pending, CallShows
<1>7. Undisturbed'
  <2>1. ASSUME NEW j \in Slot, slots'[j].submission > seq'.consumed, Settled(j, d12') PROVE Kept(d11', j)
    <3>1. Kept(d11, j) /\ j # i
      BY <1>1, <1>2, <2>1 DEF Undisturbed, Pending
    <3> QED BY <1>4, <1>5, <3>1 DEF Kept
  <2>2. \A p \in DOMAIN d11' : p \in DOMAIN d11 \/ p = Len(d11) + 1
    BY <1>5
  <2>3. ASSUME NEW p \in DOMAIN d11', Remakes(d11'[p]), NEW r \in DOMAIN d11', r > p, d11'[r].op \in Readers
        PROVE  d11'[r].slot # d11'[p].slot
    <3>1. r \in DOMAIN d11
      BY <1>4, <1>5, <2>2, <2>3 DEF Readers
    <3>2. p \in DOMAIN d11
      BY <1>5, <2>3, <3>1
    <3> QED BY <1>2, <1>5, <2>3, <3>1, <3>2 DEF Undisturbed, ReadFirst
  <2>4. ReadFirst(d11)'
    BY <2>3 DEF ReadFirst, Remakes
  <2>5. \A j \in Slot : Pending(j)' /\ Settled(j, d12)' => Kept(d11, j)'
    BY <2>1 DEF Pending, Settled, Kept, Remakes
  <2> QED BY <2>4, <2>5 DEF Undisturbed
<1>8. Serves(d11, content.output)'
  <2>1. \A p \in DOMAIN d11' : (p \in DOMAIN d11 /\ d11'[p] = d11[p]) \/ d11'[p].op = "guides"
    BY <1>4, <1>5
  <2> QED BY <1>2, <2>1 DEF Serves, Readers
<1>9. ReadersAwaited'
  <2> SUFFICES ASSUME NEW o \in Readers, NEW k \in DOMAIN d12, d12[k].op = "evaluate"
               PROVE  Awaited(o, d11', d12, fence.producer, d12[k].slot, k)
    BY DEF ReadersAwaited
  <2> DEFINE j == d12[k].slot
             v == <<>>
  <2>1. Awaited(o, d11, d12, fence.producer, j, k)
    BY <1>2 DEF ReadersAwaited
  <2>2. \A p \in DOMAIN x : ~Is(o, x[p], j)
    BY <1>4 DEF Is, Readers
  <2>3. k \in Nat /\ d12 = d12 \o v /\ v \in Seq(Command)
    BY <1>3
  <2> HIDE DEF j, v, x
  <2>4. Awaited(o, d11 \o x, d12 \o v, fence.producer, j, k)
    BY <1>3, <1>5, <2>1, <2>2, <2>3, AwaitedAfterJoin, Zenon
  <2> QED BY <1>5, <2>3, <2>4 DEF j
<1>10. Cached(d11', content.cache, cache)
  BY <1>2, <1>3, <1>4, <1>5, CachedReads DEF Writes
<1> QED BY <1>6, <1>7, <1>8, <1>9, <1>10

LEMMA EnsureSlotShows ==
  ASSUME NEW passes, NEW mask, IInv, Honest, EnsureSlotResources(passes, mask)
  PROVE  Honest'
<1> DEFINE i == call.slot
<1>1. i \in Slot /\ slots \in [Slot -> SlotType] /\ call \in CallType
  BY CallSlot DEF EnsureSlotResources, HasSlot, IInv, Typed
<1>2. call.pc = "resources" /\ UNCHANGED <<seq, cache, fence, content, d12>>
  BY DEF EnsureSlotResources
<1>3. ~Preparing' /\ ~Showing'
  <2>1. call' = NoCall \/ call' = [call EXCEPT !.pc = "record", !.passes = passes, !.mask = mask]
    BY Zenon DEF EnsureSlotResources
  <2> HIDE DEF i
  <2> QED BY <1>1, <2>1, NoCallFits DEF CallType, Preparing, Showing
<1>4. \A j \in Slot : slots'[j].source = slots[j].source /\ slots'[j].submission = slots[j].submission
  <2>1. \/ slots' = slots
        \/ \E w : slots' = [slots EXCEPT ![i].textures = w]
        \/ \E w : slots' = [slots EXCEPT ![i].textures = w, ![i].final = "output"]
    BY Zenon DEF EnsureSlotResources
  <2> HIDE DEF i
  <2>2. ASSUME NEW w, slots' = [slots EXCEPT ![i].textures = w]
        PROVE  \A j \in Slot : slots'[j].source = slots[j].source /\ slots'[j].submission = slots[j].submission
    BY <1>1, <2>2 DEF SlotType
  <2>3. ASSUME NEW w, slots' = [slots EXCEPT ![i].textures = w, ![i].final = "output"]
        PROVE  \A j \in Slot : slots'[j].source = slots[j].source /\ slots'[j].submission = slots[j].submission
    BY <1>1, <2>3 DEF SlotType
  <2> QED BY <2>1, <2>2, <2>3
<1>5. CASE UNCHANGED <<d11, lapses>>
  BY <1>2, <1>3, <1>4, <1>5, SilentShows
<1>6. CASE d11' = Append(d11, Remade(i)) /\ lapses' = DropsOutput(i)
  BY <1>1, <1>2, <1>3, <1>4, <1>6, RemakeShows
<1>7. UNCHANGED <<d11, lapses>> \/ (d11' = Append(d11, Remade(i)) /\ lapses' = DropsOutput(i))
  BY Zenon DEF EnsureSlotResources
<1> QED BY <1>5, <1>6, <1>7

LEMMA RecordShows ==
  ASSUME IInv, Honest, Numbered, Record
  PROVE  Honest'
<1> DEFINE i == call.slot
           n == seq.present
           v == seq.producer + 1
           r == TransitionInitial(call.mask)
<1>1. i \in Slot /\ slots \in [Slot -> SlotType] /\ seq \in SeqType /\ call \in CallType
  BY CallSlot DEF Record, HasSlot, IInv, Typed
<1>3. call.pc = "record" /\ UNCHANGED <<cache, fence, content, lapses>>
  BY DEF Record
<1>2. n \in Nat \ {0} /\ v \in Nat
  BY <1>1, <1>3 DEF SeqType, Numbered
<1>4. CASE call' = NoCall /\ UNCHANGED <<slots, seq, d11, d12>>
  <2>1. ~Preparing' /\ ~Showing'
    BY <1>4, NoCallFits DEF Preparing, Showing
  <2> QED BY <1>3, <1>4, <2>1, SilentShows
<1>5. CASE /\ slots' = [slots EXCEPT ![i].open = TRUE]
           /\ seq' = [seq EXCEPT !.producer = v]
           /\ \/ /\ d11' = Append(Append(d11, GuideCopy(i, n)), Produced(v))
                 /\ d12' = Append(d12, AwaitProducer(v))
                 /\ call' = [call EXCEPT !.pc = "feature", !.recorded = r]
              \/ /\ d11' \in {Append(d11, GuideCopy(i, n)), Append(Append(d11, GuideCopy(i, n)), Produced(v))}
                 /\ call' = NoCall
                 /\ UNCHANGED d12
  <2> HIDE DEF r
  <2>1. \A j \in Slot : slots'[j].source = slots[j].source /\ slots'[j].submission = slots[j].submission
    <3> HIDE DEF i
    <3> QED BY <1>1, <1>5 DEF SlotType
  <2>2. seq'.present = n /\ seq'.consumed = seq.consumed
    <3> HIDE DEF v
    <3> QED BY <1>1, <1>5 DEF SeqType
  <2>3. CASE /\ d11' = Append(Append(d11, GuideCopy(i, n)), Produced(v))
             /\ d12' = Append(d12, AwaitProducer(v))
             /\ call' = [call EXCEPT !.pc = "feature", !.recorded = r]
    <3>1. call'.slot = i /\ call'.pc = "feature"
      BY <1>1, <2>3 DEF CallType
    <3>2. ~Showing'
      BY <3>1 DEF Showing
    <3> QED BY <1>1, <1>2, <1>3, <2>1, <2>2, <2>3, <3>1, <3>2, HandoverShows
  <2>4. CASE /\ d11' \in {Append(d11, GuideCopy(i, n)), Append(Append(d11, GuideCopy(i, n)), Produced(v))}
             /\ call' = NoCall
             /\ UNCHANGED d12
    BY <1>1, <1>2, <1>3, <2>1, <2>2, <2>4, FailedHandoverShows
  <2> QED BY <1>5, <2>3, <2>4
<1> QED BY <1>4, <1>5, Zenon DEF Record

\* A list is submitted behind every wait for the signals that the pending readers of its slot precede.
LEMMA SubmitShows ==
  ASSUME IInv, Honest, Preparing, NEW c \in Command, c.op \in {"initialise", "evaluate"}, c.slot = call.slot,
         d12' = d12 \o <<c, Completed(seq.completion + 1)>>, UNCHANGED <<cache, d11, fence, content, lapses>>,
         seq'.present = seq.present, seq'.consumed = seq.consumed,
         \A j \in Slot : (j # call.slot \/ c.op = "initialise")
                            => slots'[j].source = slots[j].source /\ slots'[j].submission = slots[j].submission,
         c.op = "evaluate" => slots'[call.slot].source = c.frame /\ ~Preparing',
         call'.slot = call.slot \/ (~Preparing' /\ ~Showing'),
         Showing' => slots'[call.slot].source = seq.present /\ slots'[call.slot].submission > seq.consumed
  PROVE  Honest'
<1> SUFFICES ASSUME lapses' = {}
             PROVE  OutputsHeld' /\ Undisturbed' /\ Serves(d11, content.output)' /\ ReadersAwaited' /\ CallShows' /\ Cached(d11, content.cache, cache)'
  BY DEF Honest
<1> DEFINE i == call.slot
           e == Completed(seq.completion + 1)
           z == <<c, e>>
<1>1. OutputsHeld /\ Undisturbed /\ Serves(d11, content.output) /\ ReadersAwaited /\ CallShows /\ Cached(d11, content.cache, cache)
  BY DEF Honest
<1>2. d11 \in Seq(Command) /\ d12 \in Seq(Command) /\ fence.producer \in Nat /\ seq.completion + 1 \in Nat
  BY DEF IInv, Typed, SeqType
<1>3. i \in Slot
  BY CallSlot DEF Preparing, HasSlot
<1>4. e \in Command /\ e.op = "complete"
  BY <1>2, CommandsFit DEF Completed
<1> HIDE DEF e
<1>5. /\ z \in Seq(Command) /\ d12' = d12 \o z /\ Len(d12) \in Nat /\ Len(d12') + 1 = Len(d12) + 3
      /\ DOMAIN d12 = 1..Len(d12) /\ DOMAIN d12' = 1..(Len(d12) + 2)
      /\ \A p \in 1..Len(d12) : d12'[p] = d12[p]
      /\ d12'[Len(d12) + 1] = c /\ d12'[Len(d12) + 2] = e
  <2>1. d12' = d12 \o <<c, e>>
    BY DEF e
  <2>2. /\ <<c, e>> \in Seq(Command) /\ Len(d12) \in Nat /\ Len(d12 \o <<c, e>>) = Len(d12) + 2
        /\ DOMAIN d12 = 1..Len(d12) /\ DOMAIN (d12 \o <<c, e>>) = 1..(Len(d12) + 2)
        /\ \A p \in 1..Len(d12) : (d12 \o <<c, e>>)[p] = d12[p]
        /\ (d12 \o <<c, e>>)[Len(d12) + 1] = c /\ (d12 \o <<c, e>>)[Len(d12) + 2] = e
    BY <1>2, <1>4, PairOf
  <2> HIDE DEF i
  <2> QED BY <2>1, <2>2
<1>6. \A p \in DOMAIN z : z[p] = c \/ z[p] = e
  OBVIOUS
<1> HIDE DEF z
<1>7. OutputsHeld'
  <2> SUFFICES ASSUME NEW j \in Slot, slots'[j].submission > seq'.consumed PROVE Holds("evaluate", d12', content.output, j, slots'[j].source)
    BY DEF OutputsHeld, Pending
  <2>1. CASE j # i \/ c.op = "initialise"
    <3>1. slots'[j].source = slots[j].source /\ Holds("evaluate", d12, content.output, j, slots[j].source)
      BY <1>1, <2>1 DEF OutputsHeld, Pending
    <3>2. \A p \in DOMAIN z : ~Is("evaluate", z[p], j)
      BY <1>4, <1>6, <2>1 DEF Is
    <3>3. Holds("evaluate", d12 \o z, content.output, j, slots[j].source)
      BY <1>2, <1>5, <3>1, <3>2, HoldsAfterJoin
    <3> QED BY <1>5, <3>1, <3>3
  <2>2. CASE j = i /\ c.op = "evaluate"
    <3> DEFINE m == Len(d12) + 1
               w == d12'
    <3>1. m \in DOMAIN w /\ w[m] = c /\ \A p \in DOMAIN w : p > m => w[p] = e
      BY <1>5
    <3>2. \A p \in DOMAIN w : p < m \/ p = m \/ p > m
      BY <1>5
    <3>3. c.frame = slots'[j].source /\ Is("evaluate", c, j) /\ ~Is("evaluate", e, j)
      BY <1>4, <2>2 DEF Is
    <3> HIDE DEF m, w
    <3>4. Holds("evaluate", w, content.output, j, slots'[j].source)
      BY <3>1, <3>2, <3>3 DEF Holds
    <3> QED BY <3>4 DEF w
  <2> QED BY <2>1, <2>2
<1>8. ASSUME NEW o \in Readers, NEW j, NEW k \in Nat, NEW m \in Nat, k <= m, Awaited(o, d11, d12, fence.producer, j, k)
      PROVE  Awaited(o, d11, d12', fence.producer, j, m)
  <2> DEFINE x == <<>>
  <2>1. x \in Seq(Command) /\ d11 = d11 \o x /\ \A p \in DOMAIN x : ~Is(o, x[p], j)
    BY <1>2
  <2> HIDE DEF x
  <2>2. Awaited(o, d11 \o x, d12 \o z, fence.producer, j, k)
    BY <1>2, <1>5, <1>8, <2>1, AwaitedAfterJoin, Zenon
  <2>3. Awaited(o, d11, d12', fence.producer, j, k)
    BY <1>5, <2>1, <2>2
  <2> DEFINE w == d12'
  <2>4. w \in Seq(Command) /\ Awaited(o, d11, w, fence.producer, j, k)
    <3>1. d12 \o z \in Seq(Command)
      BY <1>2, <1>5, JoinOf
    <3> QED BY <1>5, <2>3, <3>1
  <2> HIDE DEF w
  <2>5. Awaited(o, d11, w, fence.producer, j, m)
    BY <1>8, <2>4, AwaitedLater
  <2> QED BY <2>5 DEF w
<1>9. ReadersAwaited'
  <2> SUFFICES ASSUME NEW o \in Readers
               PROVE  /\ \A k \in DOMAIN d12' : d12'[k].op = "evaluate" => Awaited(o, d11, d12', fence.producer, d12'[k].slot, k)
                      /\ Preparing' => Awaited(o, d11, d12', fence.producer, i, Len(d12') + 1)
    BY DEF ReadersAwaited
  <2>1. Awaited(o, d11, d12, fence.producer, i, Len(d12) + 1)
    BY <1>1 DEF ReadersAwaited
  <2>2. ASSUME NEW k \in DOMAIN d12', d12'[k].op = "evaluate" PROVE Awaited(o, d11, d12', fence.producer, d12'[k].slot, k)
    <3>1. CASE k \in 1..Len(d12)
      <4> DEFINE j == d12[k].slot
      <4>1. d12'[k].slot = j /\ k \in Nat /\ k <= k
        BY <1>5, <3>1
      <4>2. Awaited(o, d11, d12, fence.producer, j, k)
        BY <1>1, <1>5, <2>2, <3>1 DEF ReadersAwaited
      <4> HIDE DEF j
      <4>3. Awaited(o, d11, d12', fence.producer, j, k)
        BY <1>8, <4>1, <4>2
      <4> QED BY <4>1, <4>3
    <3>2. CASE k \notin 1..Len(d12)
      <4>1. k = Len(d12) + 1 /\ d12'[k].slot = i /\ k \in Nat /\ k <= k
        BY <1>4, <1>5, <2>2, <3>2
      <4>2. Awaited(o, d11, d12, fence.producer, i, k)
        BY <2>1, <4>1
      <4> HIDE DEF i
      <4>3. Awaited(o, d11, d12', fence.producer, i, k)
        BY <1>8, <4>1, <4>2
      <4> QED BY <4>1, <4>3
    <3> QED BY <3>1, <3>2
  <2>3. Awaited(o, d11, d12', fence.producer, i, Len(d12') + 1)
    <3> DEFINE k == Len(d12) + 1
               m == Len(d12') + 1
    <3>1. k \in Nat /\ m \in Nat /\ k <= m
      BY <1>5
    <3>2. Awaited(o, d11, d12, fence.producer, i, k)
      BY <2>1
    <3> HIDE DEF i, k, m
    <3>3. Awaited(o, d11, d12', fence.producer, i, m)
      BY <1>8, <3>1, <3>2
    <3> QED BY <3>3 DEF m
  <2> QED BY <2>2, <2>3
<1>10. CallShows'
  BY DEF CallShows, Pending
<1>11. Serves(d11, content.output)' /\ Cached(d11, content.cache, cache)'
  BY <1>1
<1>12. Undisturbed'
  <2>1. ASSUME NEW j \in Slot, slots'[j].submission > seq'.consumed, Settled(j, d12') PROVE Kept(d11, j)
    <3>1. Settled(j, d12) /\ ~Is("evaluate", c, j)
      <4> DEFINE m == Len(d12) + 1
                 w == d12'
      <4>1. m \in DOMAIN w /\ w[m] = c /\ \A k \in DOMAIN d12 : k \in DOMAIN w /\ w[k] = d12[k]
        BY <1>5
      <4>2. Settled(j, w)
        BY <2>1
      <4> HIDE DEF m, w
      <4> QED BY <4>1, <4>2 DEF Settled
    <3>2. j # i \/ c.op = "initialise"
      BY <3>1 DEF Is
    <3>3. Pending(j)
      BY <2>1, <3>2 DEF Pending
    <3> QED BY <1>1, <3>1, <3>3 DEF Undisturbed
  <2>2. \A j \in Slot : Pending(j)' /\ Settled(j, d12)' => Kept(d11, j)'
    BY <2>1 DEF Pending, Settled, Kept
  <2>3. ReadFirst(d11)'
    BY <1>1 DEF Undisturbed, ReadFirst
  <2> QED BY <2>2, <2>3 DEF Undisturbed
<1> QED BY <1>7, <1>9, <1>10, <1>11, <1>12

\* The initialization of a feature.
LEMMA InitializationShows ==
  ASSUME IInv, Honest, call.pc \in {"feature", "refinement"}, SubmitInitialization, UNCHANGED <<cache, d11, fence, content>>
  PROVE  Honest'
<1> DEFINE i == call.slot
           v == seq.completion + 1
           c == Initialise(i)
<1>1. i \in Slot /\ call \in CallType /\ slots \in [Slot -> SlotType] /\ seq \in SeqType
  BY CallSlot DEF HasSlot, IInv, Typed
<1>2. c \in Command /\ c.op = "initialise" /\ c.slot = i
  BY <1>1, CommandsFit DEF Initialise
<1>3. /\ d12' = d12 \o <<c, Completed(seq.completion + 1)>>
      /\ seq' = [seq EXCEPT !.completion = v]
      /\ slots' = [slots EXCEPT ![i].completion = v, ![i].open = FALSE]
      /\ call' = [[call EXCEPT !.recorded = <<>>] EXCEPT !.pc = "wait", !.target = v, !.next = "refinement"]
      /\ UNCHANGED lapses
  BY DEF SubmitInitialization, Submit, Waiting
<1> HIDE DEF v, c
<1>4. seq'.present = seq.present /\ seq'.consumed = seq.consumed
  BY <1>1, <1>3 DEF SeqType
<1>5. \A j \in Slot : slots'[j].source = slots[j].source /\ slots'[j].submission = slots[j].submission
  <2> HIDE DEF i
  <2> QED BY <1>1, <1>3 DEF SlotType
<1>6. call'.slot = i /\ call'.pc = "wait" /\ call'.next = "refinement"
  BY <1>1, <1>3 DEF CallType
<1>7. Preparing /\ ~Showing'
  BY <1>6 DEF Preparing, Showing
<1> QED BY <1>2, <1>3, <1>4, <1>5, <1>6, <1>7, SubmitShows

LEMMA EnsureShows == IInv /\ Honest /\ (EnsureFeature \/ EnsureRefinement) => Honest'
<1> SUFFICES ASSUME IInv, Honest, EnsureFeature \/ EnsureRefinement PROVE Honest'
  OBVIOUS
<1>1. call.slot \in Slot /\ call \in CallType /\ slots \in [Slot -> SlotType]
  BY CallSlot DEF EnsureFeature, EnsureRefinement, HasSlot
<1>2. call.pc \in {"feature", "refinement"} /\ UNCHANGED <<cache, d11, fence, content>>
  BY DEF EnsureFeature, EnsureRefinement
<1>3. CASE SubmitInitialization
  BY <1>2, <1>3, InitializationShows
<1>5. CASE InitializationUnsignalled
  BY <1>5 DEF InitializationUnsignalled, SubmitUnsignalled, Honest
<1>4. CASE /\ UNCHANGED <<seq, d12, lapses>>
           /\ slots' = slots \/ \E b \in BOOLEAN : slots' = [slots EXCEPT ![call.slot].open = b]
           /\ call' = NoCall \/ call' = [call EXCEPT !.pc = "refinement"] \/ call' = [call EXCEPT !.pc = "evaluate"]
  <2>1. \A j \in Slot : slots'[j].source = slots[j].source /\ slots'[j].submission = slots[j].submission
    <3>1. CASE slots' = slots
      BY <3>1
    <3>2. ASSUME NEW b \in BOOLEAN, slots' = [slots EXCEPT ![call.slot].open = b]
          PROVE  \A j \in Slot : slots'[j].source = slots[j].source /\ slots'[j].submission = slots[j].submission
      BY <1>1, <3>2 DEF SlotType
    <3> QED BY <1>4, <3>1, <3>2
  <2>2. (call' = NoCall \/ call'.pc \in {"refinement", "evaluate"}) /\ (call' # NoCall => call'.slot = call.slot)
    BY <1>1, <1>4 DEF CallType
  <2>3. Preparing /\ ~Showing' /\ (Preparing' => call'.slot = call.slot)
    BY <1>2, <2>2, NoCallFits DEF Preparing, Showing
  <2> QED BY <1>2, <1>4, <2>1, <2>3, SilentShows
<1> QED BY <1>3, <1>4, <1>5, Zenon DEF EnsureFeature, EnsureRefinement

LEMMA EvaluateSlotShows == IInv /\ Counted /\ Honest /\ EvaluateSlot => Honest'
<1> SUFFICES ASSUME IInv, Counted, Honest, EvaluateSlot PROVE Honest'
  OBVIOUS
<1> DEFINE i == call.slot
           n == seq.present
           v == seq.completion + 1
           u == seq.submission + 1
           c == Evaluation(i, n)
<1>1. i \in Slot /\ call \in CallType /\ slots \in [Slot -> SlotType] /\ slots[i] \in SlotType /\ seq \in SeqType
  BY CallSlot DEF EvaluateSlot, HasSlot, IInv, Typed
<1>2. call.pc = "evaluate" /\ UNCHANGED <<cache, d11, fence, content>>
  BY DEF EvaluateSlot
<1>3. n \in Nat /\ v \in Nat /\ u \in Nat /\ u > seq.consumed
  BY <1>1 DEF SeqType, Counted
<1>4. ASSUME NEW f, 
              /\ d12' = d12 \o <<c, Completed(seq.completion + 1)>>
              /\ slots' = [slots EXCEPT ![i] = [@ EXCEPT !.completion = v, !.open = FALSE, !.final = f, !.source = n, !.submission = u]]
              /\ seq' = [seq EXCEPT !.completion = v, !.submission = @ + 1]
              /\ call' = IF call.waits THEN Waiting(call, v, "show") ELSE NoCall
              /\ UNCHANGED lapses
      PROVE  Honest'
  <2>1. c \in Command /\ c.op = "evaluate" /\ c.slot = i /\ c.frame = n
    BY <1>1, <1>3, CommandsFit DEF Evaluation
  <2>2. seq'.present = n /\ seq'.consumed = seq.consumed
    <3>1. seq' = [seq EXCEPT !.completion = v, !.submission = u]
      BY <1>4
    <3> HIDE DEF u, v
    <3> QED BY <1>1, <3>1 DEF SeqType
  <2>3. /\ slots'[i].source = n /\ slots'[i].submission = u
        /\ \A j \in Slot : j # i => slots'[j].source = slots[j].source /\ slots'[j].submission = slots[j].submission
    <3> DEFINE s == [slots[i] EXCEPT !.completion = v, !.open = FALSE, !.final = f, !.source = n, !.submission = u]
    <3>1. s.source = n /\ s.submission = u
      <4> HIDE DEF u, v, n
      <4> QED BY <1>1 DEF SlotType
    <3>2. slots' = [slots EXCEPT ![i] = s]
      BY <1>4
    <3> HIDE DEF s, u, v, i, n
    <3> QED BY <1>1, <3>1, <3>2
  <2>4. (call'.slot = i /\ call'.pc = "wait" /\ call'.next = "show") \/ call' = NoCall
    <3>1. CASE call.waits
      <4>1. call' = [call EXCEPT !.pc = "wait", !.target = v, !.next = "show"]
        BY <1>4, <3>1 DEF Waiting
      <4> HIDE DEF v
      <4> QED BY <1>1, <4>1 DEF CallType
    <3>2. CASE ~call.waits
      BY <1>4, <3>2
    <3> QED BY <3>1, <3>2
  <2>5. ~Preparing' /\ (call'.slot = i \/ ~Showing') /\ Preparing
    BY <1>2, <2>4, NoCallFits DEF Preparing, Showing
  <2>6. /\ \A j \in Slot : (j # call.slot \/ c.op = "initialise")
                              => slots'[j].source = slots[j].source /\ slots'[j].submission = slots[j].submission
        /\ c.op = "evaluate" => slots'[call.slot].source = c.frame /\ ~Preparing'
        /\ Showing' => slots'[call.slot].source = seq.present /\ slots'[call.slot].submission > seq.consumed
        /\ call'.slot = call.slot \/ (~Preparing' /\ ~Showing')
    BY <1>3, <2>1, <2>3, <2>5
  <2> HIDE DEF c
  <2> QED BY <1>2, <1>4, <2>1, <2>2, <2>5, <2>6, SubmitShows
<1>5. CASE /\ slots' = [slots EXCEPT ![i].open = FALSE]
           /\ call' = NoCall
           /\ lapses' = Abandoned
           /\ UNCHANGED <<seq, d12>>
  <2>1. \A j \in Slot : slots'[j].source = slots[j].source /\ slots'[j].submission = slots[j].submission
    BY <1>1, <1>5 DEF SlotType
  <2>2. ~Preparing' /\ ~Showing'
    BY <1>5, NoCallFits DEF Preparing, Showing
  <2>3. lapses' = {} => lapses = {}
    BY <1>5 DEF Abandoned
  <2> QED BY <1>2, <1>5, <2>1, <2>2, <2>3, SilentShows
<1>6. CASE \E b : SubmitUnsignalled(c, b)
  BY <1>6 DEF SubmitUnsignalled, Honest
<1>7. \/ \E f : /\ d12' = d12 \o <<c, Completed(seq.completion + 1)>>
                /\ slots' = [slots EXCEPT ![i] = [@ EXCEPT !.completion = v, !.open = FALSE, !.final = f, !.source = n, !.submission = u]]
                /\ seq' = [seq EXCEPT !.completion = v, !.submission = @ + 1]
                /\ call' = IF call.waits THEN Waiting(call, v, "show") ELSE NoCall
                /\ UNCHANGED lapses
      \/ \E b : SubmitUnsignalled(c, b)
      \/ /\ slots' = [slots EXCEPT ![i].open = FALSE]
         /\ call' = NoCall
         /\ lapses' = Abandoned
         /\ UNCHANGED <<seq, d12>>
  BY Zenon DEF EvaluateSlot, Submit
<1> QED BY <1>4, <1>5, <1>6, <1>7

\* The context executes a command: what it copies into the cache is the output it names.
LEMMA ContextShows == IInv /\ Honest /\ ContextStep => Honest'
<1> SUFFICES ASSUME IInv, Honest, ContextStep, lapses' = {}
             PROVE  OutputsHeld' /\ Undisturbed' /\ Serves(d11, content.output)' /\ ReadersAwaited' /\ CallShows' /\ Cached(d11, content.cache, cache)'
  BY DEF Honest
<1> DEFINE c == Head(d11)
           f == IF c.op = "signal" THEN c.frame ELSE fence.producer
<1>1. /\ d11 \in Seq(Command) /\ d12 \in Seq(Command) /\ d11 # <<>> /\ fence \in [producer : Nat, completion : Nat]
      /\ content \in ContentType
  BY DEF IInv, Typed, ContextStep
<1>2. /\ d11' = Tail(d11) /\ fence' = IF c.op = "signal" THEN [fence EXCEPT !.producer = c.frame] ELSE fence
      /\ content' = IF c.op = "guides"
                    THEN [content EXCEPT !.guides[c.slot] = c.frame, !.output[c.slot] = IF c.frame = 0 THEN 0 ELSE @]
                    ELSE IF c.op = "cacheSlot" THEN [content EXCEPT !.cache = content.output[c.slot]]
                    ELSE IF c.op = "resetCache" THEN [content EXCEPT !.cache = 0]
                    ELSE content
      /\ UNCHANGED <<slots, seq, cache, call, d12, lapses>>
  BY DEF ContextStep
<1>3. OutputsHeld /\ Undisturbed /\ Serves(d11, content.output) /\ ReadersAwaited /\ CallShows /\ Cached(d11, content.cache, cache)
  BY <1>2 DEF Honest
<1>4. /\ c = d11[1] /\ 1 \in DOMAIN d11 /\ Tail(d11) \in Seq(Command) /\ fence.producer \in Nat /\ Len(d12) + 1 \in Nat
      /\ \A p \in DOMAIN Tail(d11) : p + 1 \in DOMAIN d11 /\ Tail(d11)[p] = d11[p + 1]
  BY <1>1, TailOf
<1> HIDE DEF c
<1>5. fence'.producer = f
  BY <1>1, <1>2
<1>6. \A j \in Slot : (Remakes(c) => c.slot # j) => content'.output[j] = content.output[j]
  <2> SUFFICES ASSUME NEW j \in Slot, Remakes(c) => c.slot # j PROVE content'.output[j] = content.output[j]
    OBVIOUS
  <2>1. CASE c.op = "guides"
    <3> DEFINE o == IF c.frame = 0 THEN 0 ELSE content.output[c.slot]
    <3>1. content' = [content EXCEPT !.guides[c.slot] = c.frame, !.output[c.slot] = o]
      BY <1>2, <2>1
    <3>2. content'.output = [content.output EXCEPT ![c.slot] = o]
      <4> HIDE DEF o
      <4> QED BY <1>1, <3>1 DEF ContentType
    <3>3. c.slot # j \/ o = content.output[c.slot]
      BY <2>1 DEF Remakes
    <3>4. content.output \in [Slot -> Nat]
      BY <1>1 DEF ContentType
    <3> HIDE DEF o
    <3> QED BY <3>2, <3>3, <3>4
  <2>2. CASE c.op # "guides"
    <3>1. content'.output = content.output
      BY <1>1, <1>2, <2>2 DEF ContentType
    <3> QED BY <3>1
  <2> QED BY <2>1, <2>2
<1>7. (c.op = "cacheSlot" => content'.cache = c.frame) /\ (~Writes(c) => content'.cache = content.cache)
  <2>1. c.op = "cacheSlot" => content.output[c.slot] = c.frame
    BY <1>3, <1>4 DEF Serves, Readers
  <2>2. c.op = "cacheSlot" => content'.cache = content.output[c.slot]
    BY <1>1, <1>2 DEF ContentType
  <2>3. ~Writes(c) => content'.cache = content.cache
    BY <1>1, <1>2 DEF Writes, ContentType
  <2> QED BY <2>1, <2>2, <2>3
<1>8. Cached(d11', content'.cache, cache')
  <2> DEFINE e == content'.cache
  <2>1. (Head(d11).op = "cacheSlot" => e = Head(d11).frame) /\ (~Writes(Head(d11)) => e = content.cache)
    BY <1>7 DEF c
  <2> HIDE DEF e
  <2>2. Cached(Tail(d11), e, cache)
    BY <1>1, <1>3, <2>1, CachedAfterTail
  <2> QED BY <1>2, <2>2 DEF e
<1>9. Serves(d11, content.output)'
  <2> SUFFICES ASSUME NEW p \in DOMAIN Tail(d11), Tail(d11)[p].op \in Readers
               PROVE  Tail(d11)[p].slot \in Slot /\ content'.output[Tail(d11)[p].slot] = Tail(d11)[p].frame
    BY <1>2 DEF Serves
  <2> DEFINE r == p + 1
  <2>1. r \in DOMAIN d11 /\ Tail(d11)[p] = d11[r]
    BY <1>4
  <2>2. r > 1
    BY <1>1, TailOf
  <2> HIDE DEF r
  <2>3. d11[r].slot \in Slot /\ content.output[d11[r].slot] = d11[r].frame
    BY <1>3, <2>1 DEF Serves
  <2>4. Remakes(c) => d11[r].slot # c.slot
    BY <1>3, <1>4, <2>1, <2>2 DEF Undisturbed, ReadFirst
  <2> QED BY <1>6, <2>1, <2>3, <2>4
<1>13. OutputsHeld'
  <2> SUFFICES ASSUME NEW j \in Slot, Pending(j) PROVE Holds("evaluate", d12, content'.output, j, slots[j].source)
    BY <1>2 DEF OutputsHeld, Pending
  <2>1. Holds("evaluate", d12, content.output, j, slots[j].source)
    BY <1>3 DEF OutputsHeld
  <2>2. CASE Remakes(c) => c.slot # j
    BY <1>6, <2>1, <2>2 DEF Holds
  <2>3. CASE Remakes(c) /\ c.slot = j
    <3>1. ~Settled(j, d12)
      BY <1>3, <1>4, <2>3 DEF Undisturbed, Kept
    <3> QED BY <2>1, <3>1 DEF Holds, Settled
  <2> QED BY <2>2, <2>3
<1>14. Undisturbed'
  <2> DEFINE q == Tail(d11)
  <2>1. \A p \in DOMAIN q : p \in Nat /\ p + 1 \in DOMAIN d11 /\ q[p] = d11[p + 1]
    BY <1>1, <1>4, TailOf
  <2>2. d11' = q
    BY <1>2
  <2> HIDE DEF q
  <2>3. \A j \in Slot : Kept(d11, j) => Kept(q, j)
    BY <2>1 DEF Kept
  <2>4. ASSUME NEW p \in DOMAIN q, Remakes(q[p]), NEW r \in DOMAIN q, r > p, q[r].op \in Readers PROVE q[r].slot # q[p].slot
    <3> DEFINE a == p + 1
               b == r + 1
    <3>1. a \in DOMAIN d11 /\ b \in DOMAIN d11 /\ q[p] = d11[a] /\ q[r] = d11[b] /\ b > a
      BY <2>1, <2>4
    <3> HIDE DEF a, b
    <3> QED BY <1>3, <2>4, <3>1 DEF Undisturbed, ReadFirst
  <2>5. ReadFirst(q)
    BY <2>4 DEF ReadFirst
  <2>6. \A j \in Slot : Pending(j)' /\ Settled(j, d12)' => Kept(d11, j)'
    BY <1>2, <1>3, <2>2, <2>3 DEF Undisturbed, Pending, Settled, Kept, Remakes
  <2>7. ReadFirst(d11)'
    BY <2>2, <2>5 DEF ReadFirst, Remakes
  <2> QED BY <2>6, <2>7 DEF Undisturbed
<1>10. ASSUME NEW o \in Readers, NEW j, NEW k \in Nat, Awaited(o, d11, d12, fence.producer, j, k)
       PROVE  Awaited(o, d11', d12, fence'.producer, j, k)
  <2>1. Awaited(o, Tail(d11), d12, f, j, k)
    BY <1>1, <1>4, <1>10, AwaitedAfterContext DEF c
  <2> QED BY <1>2, <1>5, <2>1
<1> HIDE DEF f
<1>11. ReadersAwaited'
  <2> SUFFICES ASSUME NEW o \in Readers
               PROVE  /\ \A k \in DOMAIN d12 : d12[k].op = "evaluate" => Awaited(o, d11', d12, fence'.producer, d12[k].slot, k)
                      /\ Preparing => Awaited(o, d11', d12, fence'.producer, call.slot, Len(d12) + 1)
    BY <1>2 DEF ReadersAwaited, Preparing
  <2>1. ASSUME NEW k \in DOMAIN d12, d12[k].op = "evaluate" PROVE Awaited(o, d11', d12, fence'.producer, d12[k].slot, k)
    <3>1. k \in Nat /\ Awaited(o, d11, d12, fence.producer, d12[k].slot, k)
      BY <1>1, <1>3, <2>1 DEF ReadersAwaited
    <3> QED BY <1>10, <3>1
  <2>2. ASSUME Preparing PROVE Awaited(o, d11', d12, fence'.producer, call.slot, Len(d12) + 1)
    <3>1. Awaited(o, d11, d12, fence.producer, call.slot, Len(d12) + 1)
      BY <1>3, <2>2 DEF ReadersAwaited
    <3> QED BY <1>4, <1>10, <3>1
  <2> QED BY <2>1, <2>2
<1>12. CallShows'
  BY <1>2, <1>3 DEF CallShows, Showing, Pending
<1> QED BY <1>8, <1>9, <1>11, <1>12, <1>13, <1>14

\* The queue executes a command: an evaluation finds the guides of its frame, and no reader of
\* the output it replaces.
LEMMA QueueShows == IInv /\ Honest /\ QueueStep => Honest'
<1> SUFFICES ASSUME IInv, Honest, QueueStep, lapses' = {}
             PROVE  OutputsHeld' /\ Undisturbed' /\ Serves(d11, content.output)' /\ ReadersAwaited' /\ CallShows' /\ Cached(d11, content.cache, cache)'
  BY DEF Honest
<1> DEFINE c == Head(d12)
           g == IF c.op = "evaluate" THEN [content.output EXCEPT ![c.slot] = c.frame] ELSE content.output
<1>1. /\ d11 \in Seq(Command) /\ d12 \in Seq(Command) /\ d12 # <<>> /\ fence \in [producer : Nat, completion : Nat]
      /\ content \in ContentType
  BY DEF IInv, Typed, QueueStep
<1>2. /\ d12' = Tail(d12) /\ fence' = IF c.op = "complete" THEN [fence EXCEPT !.completion = c.frame] ELSE fence
      /\ content' = IF c.op = "evaluate" THEN [content EXCEPT !.output[c.slot] = content.guides[c.slot]] ELSE content
      /\ c.op = "wait" => fence.producer >= c.frame
      /\ UNCHANGED <<slots, seq, cache, call, d11, lapses>>
  BY DEF QueueStep
<1>3. OutputsHeld /\ Undisturbed /\ Serves(d11, content.output) /\ ReadersAwaited /\ CallShows /\ Cached(d11, content.cache, cache) /\ lapses = {}
  BY <1>2 DEF Honest
<1>4. /\ c = d12[1] /\ c \in Command /\ 1 \in DOMAIN d12 /\ Tail(d12) \in Seq(Command) /\ Len(d12) \in Nat \ {0}
      /\ DOMAIN Tail(d12) = 1..(Len(d12) - 1)
      /\ \A p \in DOMAIN Tail(d12) : p + 1 \in DOMAIN d12 /\ Tail(d12)[p] = d12[p + 1]
  BY <1>1, TailOf
<1>5. /\ fence.producer \in Nat /\ content.output \in [Slot -> Nat] /\ content.guides \in [Slot -> Nat]
      /\ c.slot \in Slot \cup {0} /\ (c.op = "evaluate" => c.slot \in Slot)
  <2>1. fence.producer \in Nat /\ content.output \in [Slot -> Nat] /\ content.guides \in [Slot -> Nat]
    BY <1>1 DEF ContentType
  <2>2. c.slot \in Slot \cup {0}
    BY <1>4 DEF Command
  <2>3. c.op = "evaluate" => c.slot # 0
    BY <1>4 DEF IInv, Bounds
  <2> QED BY <2>1, <2>2, <2>3
<1>6. c.op = "evaluate" => content.guides[c.slot] = c.frame
  BY <1>1, <1>3, HeadGuided
<1> HIDE DEF c
<1>7. fence'.producer = fence.producer
  BY <1>1, <1>2
<1>8. content'.output = g /\ content'.cache = content.cache
  <2>1. CASE c.op = "evaluate"
    <3>1. content' = [content EXCEPT !.output = g]
      BY <1>2, <1>6, <2>1
    <3> HIDE DEF g
    <3> QED BY <1>1, <3>1 DEF ContentType
  <2>2. CASE c.op # "evaluate"
    BY <1>2, <2>2
  <2> QED BY <2>1, <2>2
<1>9. OutputsHeld'
  <2> SUFFICES ASSUME NEW j \in Slot, Pending(j) PROVE Holds("evaluate", d12', g, j, slots[j].source)
    BY <1>2, <1>8 DEF OutputsHeld, Pending
  <2>1. Holds("evaluate", d12, content.output, j, slots[j].source)
    BY <1>3 DEF OutputsHeld
  <2>2. Holds("evaluate", Tail(d12), g, j, slots[j].source)
    BY <1>1, <1>5, <2>1, HoldsAfterTail DEF c
  <2> QED BY <1>2, <2>2
<1>10. Serves(d11, g)
  <2>1. CASE c.op = "evaluate"
    <3>1. ASSUME NEW p \in DOMAIN d11, d11[p].op \in Readers PROVE d11[p].slot # c.slot
      <4> DEFINE o == d11[p].op
                 k == 1
      <4>1. Awaited(o, d11, d12, fence.producer, d12[k].slot, k)
        BY <1>3, <1>4, <2>1, <3>1 DEF ReadersAwaited
      <4>2. ~(\E j \in DOMAIN d12 : j < k)
        BY <1>1
      <4>3. ~Is(o, d11[p], d12[k].slot)
        <5> HIDE DEF o, k
        <5> QED BY <4>1, <4>2, <3>1 DEF Awaited
      <4> QED BY <1>4, <4>3 DEF Is
    <3>2. \A j \in Slot : j # c.slot => g[j] = content.output[j]
      BY <1>5, <2>1
    <3> HIDE DEF g
    <3> QED BY <1>3, <3>1, <3>2 DEF Serves
  <2>2. CASE c.op # "evaluate"
    BY <1>3, <2>2
  <2> QED BY <2>1, <2>2
<1> HIDE DEF g
<1>11. ASSUME NEW o \in Readers, NEW j, NEW k \in Nat, Awaited(o, d11, d12, fence.producer, j, k + 1)
       PROVE  Awaited(o, d11, d12', fence.producer, j, k)
  <2>1. Awaited(o, d11, Tail(d12), fence.producer, j, k)
    BY <1>1, <1>2, <1>5, <1>11, AwaitedAfterQueue DEF c
  <2> QED BY <1>2, <2>1
<1>12. ReadersAwaited'
  <2> SUFFICES ASSUME NEW o \in Readers
               PROVE  /\ \A k \in DOMAIN d12' : d12'[k].op = "evaluate" => Awaited(o, d11, d12', fence.producer, d12'[k].slot, k)
                      /\ Preparing => Awaited(o, d11, d12', fence.producer, call.slot, Len(d12') + 1)
    BY <1>2, <1>7 DEF ReadersAwaited, Preparing
  <2>1. ASSUME NEW k \in DOMAIN d12', d12'[k].op = "evaluate" PROVE Awaited(o, d11, d12', fence.producer, d12'[k].slot, k)
    <3>1. k + 1 \in DOMAIN d12 /\ d12'[k] = d12[k + 1] /\ k \in Nat
      BY <1>2, <1>4
    <3>2. Awaited(o, d11, d12, fence.producer, d12[k + 1].slot, k + 1)
      BY <1>3, <2>1, <3>1 DEF ReadersAwaited
    <3> QED BY <1>11, <3>1, <3>2
  <2>2. ASSUME Preparing PROVE Awaited(o, d11, d12', fence.producer, call.slot, Len(d12') + 1)
    <3>1. Len(d12') + 1 = Len(d12) /\ Len(d12) \in Nat
      BY <1>1, <1>2
    <3>2. Awaited(o, d11, d12, fence.producer, call.slot, Len(d12) + 1)
      BY <1>3, <2>2 DEF ReadersAwaited
    <3>3. Awaited(o, d11, d12', fence.producer, call.slot, Len(d12))
      BY <1>11, <3>1, <3>2
    <3> QED BY <3>1, <3>3
  <2> QED BY <2>1, <2>2
<1>13. CallShows' /\ Serves(d11, content.output)' /\ Cached(d11, content.cache, cache)'
  BY <1>2, <1>3, <1>8, <1>10 DEF CallShows, Showing, Pending
<1>14. Undisturbed'
  <2>1. ASSUME NEW j \in Slot, Pending(j), Settled(j, Tail(d12)) PROVE Kept(d11, j)
    <3>1. CASE Is("evaluate", c, j)
      <4>1. Awaited("guides", d11, d12, fence.producer, j, 1)
        <5> DEFINE k == 1
        <5>1. k \in DOMAIN d12 /\ d12[k].op = "evaluate" /\ d12[k].slot = j
          BY <1>4, <3>1 DEF Is
        <5>2. k = 1
          OBVIOUS
        <5> HIDE DEF k
        <5>3. Awaited("guides", d11, d12, fence.producer, d12[k].slot, k)
          BY <1>3, <5>1 DEF IInv, QueueGuided
        <5> QED BY <5>1, <5>2, <5>3
      <4>2. ASSUME NEW p \in DOMAIN d11 PROVE ~Is("guides", d11[p], j)
        BY <1>1, <4>1 DEF Awaited
      <4> QED BY <4>2 DEF Kept, Remakes, Is
    <3>2. CASE ~Is("evaluate", c, j)
      <4>1. ASSUME NEW k \in DOMAIN d12 PROVE ~Is("evaluate", d12[k], j)
        <5>1. CASE k = 1
          BY <1>4, <3>2, <5>1
        <5>2. CASE k # 1
          <6> DEFINE m == k - 1
          <6>1. m \in DOMAIN Tail(d12) /\ m + 1 = k
            BY <1>1, <1>4, <5>2, TailOf
          <6>2. Tail(d12)[m] = d12[k]
            BY <1>4, <6>1
          <6> HIDE DEF m
          <6> QED BY <2>1, <6>1, <6>2 DEF Settled
        <5> QED BY <5>1, <5>2
      <4> QED BY <1>3, <2>1, <4>1 DEF Undisturbed, Settled
    <3> QED BY <3>1, <3>2
  <2>2. \A j \in Slot : Pending(j)' /\ Settled(j, d12)' => Kept(d11, j)'
    BY <1>2, <2>1 DEF Pending, Settled, Kept
  <2>3. ReadFirst(d11)'
    BY <1>2, <1>3 DEF Undisturbed, ReadFirst
  <2> QED BY <2>2, <2>3 DEF Undisturbed
<1> QED BY <1>9, <1>12, <1>13, <1>14

\* What is given back leaves to the context what it has still to show and to copy.
LEMMA ShutdownShows == IInv /\ Honest /\ Shutdown => Honest'
<1> SUFFICES ASSUME IInv, Honest, Shutdown, lapses' = {}
             PROVE  OutputsHeld' /\ Undisturbed' /\ Serves(d11, content.output)' /\ ReadersAwaited' /\ CallShows' /\ Cached(d11, content.cache, cache)'
  BY DEF Honest
<1> DEFINE y == d11'
           b == content.cache
<1>1. d11 \in Seq(Command) /\ lapses = {}
  BY DEF IInv, Typed, Shutdown, AwaitSubmittedWork
<1>2. Serves(d11, content.output) /\ Cached(d11, b, cache)
  BY <1>1 DEF Honest
<1>3. /\ call.pc = "idle" /\ call' = call /\ content' = content /\ d12' = <<>>
      /\ slots' = [i \in Slot |-> FreshSlot] /\ cache' = NoCache
      /\ d11' = [k \in DOMAIN d11 |-> IF d11[k].op \in {"showSlot", "showCache", "cacheSlot"} THEN d11[k] ELSE Void]
      /\ seq' = [FreshSeq EXCEPT !.present = seq.present]
  BY DEF Shutdown
<1>4. /\ DOMAIN d11 = 1..Len(d11) /\ Len(d11) \in Nat
      /\ DOMAIN y = DOMAIN d11
      /\ \A p \in DOMAIN d11 : y[p] = d11[p] \/ (y[p].op = "void" /\ d11[p].op \notin {"showSlot", "showCache", "cacheSlot"})
  BY <1>1, <1>3 DEF Void
<1>11. \A p \in DOMAIN y : y[p].op # "guides"
  BY <1>1, <1>3 DEF Void
<1> HIDE DEF y
<1>9. \A i \in Slot : slots'[i].submission = 0 /\ seq'.consumed = 0
  BY <1>3 DEF FreshSlot, FreshSeq
<1>5. OutputsHeld'
  BY <1>9 DEF OutputsHeld, Pending
<1>10. Undisturbed'
  <2>1. \A p \in DOMAIN y : ~Remakes(y[p])
    BY <1>11 DEF Remakes
  <2>2. y = d11'
    BY DEF y
  <2>3. ReadFirst(d11)'
    BY <2>1, <2>2 DEF ReadFirst, Remakes
  <2>4. \A i \in Slot : ~(Pending(i)')
    BY <1>9 DEF Pending
  <2> QED BY <2>3, <2>4 DEF Undisturbed
<1>6. ReadersAwaited' /\ CallShows'
  BY <1>3 DEF ReadersAwaited, CallShows, Preparing, Showing
<1>7. Serves(y, content.output)
  BY <1>2, <1>4 DEF Serves, Readers
<1>8. Cached(y, b, cache')
  <2> HIDE DEF b
  <2> SUFFICES ASSUME NEW p \in DOMAIN y, y[p].op = "showCache" PROVE CacheHolds(y, b, p, y[p].frame)
    BY <1>3 DEF Cached, NoCache
  <2>1. p \in DOMAIN d11 /\ y[p] = d11[p] /\ CacheHolds(d11, b, p, d11[p].frame)
    BY <1>2, <1>4 DEF Cached
  <2>2. \A s \in 1..(p - 1) : s \in DOMAIN d11 /\ (Writes(y[s]) => Writes(d11[s]))
                              /\ (d11[s].op = "cacheSlot" => y[s] = d11[s])
    BY <1>4, <2>1 DEF Writes
  <2> DEFINE n == d11[p].frame
  <2>3. CASE \E r \in 1..(p - 1) : /\ d11[r].op = "cacheSlot" /\ d11[r].frame = n
                                  /\ \A s \in (r + 1)..(p - 1) : ~Writes(d11[s])
    <3>1. PICK r \in 1..(p - 1) : /\ d11[r].op = "cacheSlot" /\ d11[r].frame = n
                                 /\ \A s \in (r + 1)..(p - 1) : ~Writes(d11[s])
      BY <2>3
    <3>2. \A s \in (r + 1)..(p - 1) : s \in 1..(p - 1)
      BY <1>4, <2>1
    <3> QED BY <2>1, <2>2, <3>1, <3>2 DEF CacheHolds
  <2>4. CASE b = n /\ \A s \in 1..(p - 1) : ~Writes(d11[s])
    BY <2>1, <2>2, <2>4 DEF CacheHolds
  <2> QED BY <2>1, <2>3, <2>4 DEF CacheHolds
<1> QED BY <1>3, <1>5, <1>6, <1>7, <1>8, <1>10 DEF y

\* The other steps of a call.
LEMMA CallsShow == IInv /\ Honest /\ (AlreadyComplete \/ ArmEvent \/ Woken \/ TimedOut \/ Initialize) => Honest'
<1> SUFFICES ASSUME IInv, Honest, AlreadyComplete \/ ArmEvent \/ Woken \/ TimedOut \/ Initialize PROVE Honest'
  OBVIOUS
<1>1. UNCHANGED <<d11, d12, content, fence, cache, slots, seq>> /\ (lapses' = {} => lapses = {})
  BY DEF AlreadyComplete, ArmEvent, Woken, TimedOut, Initialize, gpu, Abandoned
<1>2. call \in CallType
  BY DEF IInv, Typed
<1>3. (Preparing' => Preparing /\ call'.slot = call.slot) /\ (Showing' => Showing /\ call'.slot = call.slot)
  <2>1. CASE AlreadyComplete \/ Woken
    <3>1. call.pc \in {"wait", "armed"} /\ call' = [call EXCEPT !.pc = call.next]
      BY <2>1 DEF AlreadyComplete, Woken
    <3> QED BY <1>2, <3>1 DEF CallType, Preparing, Showing
  <2>2. CASE ArmEvent
    <3>1. call.pc = "wait" /\ call' = [call EXCEPT !.pc = "armed"]
      BY <2>2 DEF ArmEvent
    <3> QED BY <1>2, <3>1 DEF CallType, Preparing, Showing
  <2>3. CASE TimedOut
    BY <2>3, NoCallFits DEF TimedOut, Preparing, Showing
  <2>4. CASE Initialize
    BY <2>4 DEF Initialize, Preparing, Showing
  <2> QED BY <2>1, <2>2, <2>3, <2>4
<1> QED BY <1>1, <1>3, SilentShows

\* Only evaluate counts Presents, and with it a call begins.
LEMMA NumberedKept == IInv /\ Numbered /\ [Next]_vars => Numbered'
<1> SUFFICES ASSUME IInv, Numbered, [Next]_vars PROVE Numbered'
  OBVIOUS
<1>1. seq \in SeqType /\ call \in CallType /\ NoCall.pc = "idle"
  BY NoCallFits DEF IInv, Typed
<1>2. CASE \E mode \in plan.modes, limit \in plan.limits, extent \in plan.extents : Evaluate(mode, limit, extent)
  <2> DEFINE n == seq.present + 1
  <2>4. PICK mode \in plan.modes, limit \in plan.limits, extent \in plan.extents : Evaluate(mode, limit, extent)
    BY <1>2
  <2>1. \E m : seq' = [seq EXCEPT !.present = n, !.consumed = m]
    BY <2>4 DEF Evaluate
  <2>2. n # 0
    BY <1>1 DEF SeqType
  <2> HIDE DEF n
  <2>3. seq'.present = n
    BY <1>1, <2>1 DEF SeqType
  <2> QED BY <2>2, <2>3 DEF Numbered
<1>3. CASE call.pc # "idle" /\ (seq'.present = seq.present \/ call' = NoCall)
  BY <1>1, <1>3 DEF Numbered
<1>4. CASE UNCHANGED call /\ seq'.present = seq.present
  BY <1>4 DEF Numbered
<1>5. CASE UNCHANGED vars \/ Initialize \/ ContextStep \/ QueueStep
  BY <1>4, <1>5 DEF vars, Initialize, ContextStep, QueueStep
<1>6. CASE Shutdown
  <2>1. seq' = [FreshSeq EXCEPT !.present = seq.present] /\ UNCHANGED call
    BY <1>6 DEF Shutdown
  <2>2. seq'.present = seq.present
    BY <2>1 DEF FreshSeq
  <2> QED BY <1>4, <2>1, <2>2
<1>7. CASE AlreadyComplete \/ ArmEvent \/ Woken \/ TimedOut
  BY <1>3, <1>7 DEF AlreadyComplete, ArmEvent, Woken, TimedOut
<1>8. CASE \E passes \in plan.passes, mask \in plan.masks : EnsureSlotResources(passes, mask)
  BY <1>3, <1>8 DEF EnsureSlotResources
<1>9. CASE Reselect \/ Record \/ Show
  <2>1. /\ call.pc # "idle"
        /\ seq' = seq \/ (\E m : seq' = [seq EXCEPT !.consumed = m]) \/ (\E m : seq' = [seq EXCEPT !.producer = m])
    BY <1>9 DEF Reselect, Record, Show
  <2>2. seq'.present = seq.present
    BY <1>1, <2>1 DEF SeqType
  <2> QED BY <1>3, <2>1, <2>2
<1>10. CASE EnsureFeature \/ EnsureRefinement
  <2>1. call.pc # "idle"
    BY <1>10 DEF EnsureFeature, EnsureRefinement
  <2>2. call' = NoCall \/ seq' = seq \/ \E m : seq' = [seq EXCEPT !.completion = m]
    BY <1>10, Zenon DEF EnsureFeature, EnsureRefinement, SubmitInitialization, InitializationUnsignalled, SubmitUnsignalled
  <2>3. call' = NoCall \/ seq'.present = seq.present
    BY <1>1, <2>2 DEF SeqType
  <2> QED BY <1>3, <2>1, <2>3
<1>11. CASE EvaluateSlot
  <2>1. call.pc # "idle"
    BY <1>11 DEF EvaluateSlot
  <2>2. call' = NoCall \/ seq' = seq \/ \E m, n : seq' = [seq EXCEPT !.completion = m, !.submission = n]
    BY <1>11, Zenon DEF EvaluateSlot, SubmitUnsignalled
  <2>3. call' = NoCall \/ seq'.present = seq.present
    BY <1>1, <2>2 DEF SeqType
  <2> QED BY <1>3, <2>1, <2>3
<1> QED BY <1>2, <1>5, <1>6, <1>7, <1>8, <1>9, <1>10, <1>11 DEF Next, CpuStep

\* Every step keeps what is shown.
LEMMA HonestKept == IInv /\ Counted /\ Numbered /\ Honest /\ [Next]_vars => Honest'
<1> SUFFICES ASSUME IInv, Counted, Numbered, Honest, [Next]_vars PROVE Honest'
  OBVIOUS
<1>1. CASE \E mode \in plan.modes, limit \in plan.limits, extent \in plan.extents : Evaluate(mode, limit, extent)
  BY <1>1, EvaluateShows
<1>2. CASE Record \/ \E passes \in plan.passes, mask \in plan.masks : EnsureSlotResources(passes, mask)
  BY <1>2, RecordShows, EnsureSlotShows
<1>3. CASE AlreadyComplete \/ ArmEvent \/ Woken \/ TimedOut \/ Initialize
  BY <1>3, CallsShow
<1>4. CASE Reselect \/ EvaluateSlot \/ Show
  BY <1>4, ReselectShows, EvaluateSlotShows, ShowShows
<1>5. CASE EnsureFeature \/ EnsureRefinement
  BY <1>5, EnsureShows
<1>6. CASE Shutdown \/ ContextStep \/ QueueStep
  BY <1>6, ShutdownShows, ContextShows, QueueShows
<1>7. CASE UNCHANGED vars
  BY <1>7 DEF vars, gpu, Honest, OutputsHeld, Undisturbed, Pending, Serves, ReadersAwaited, CallShows, Showing, Preparing, Cached
<1> QED BY <1>1, <1>2, <1>3, <1>4, <1>5, <1>6, <1>7 DEF Next, CpuStep

\* What the context shows is the frame the CPU believes it shows: it is told so only when the slot's
\* evaluation is complete, and no later evaluation overtakes what it has still to show or to cache.
THEOREM ShowsFrames == Spec => ShowsWhatItReports
<1>1. Init => Honest /\ Numbered /\ Counted
  <2> SUFFICES ASSUME Init PROVE Honest /\ Numbered
    BY InitiallyTyped
  <2>1. OutputsHeld /\ Serves(d11, content.output) /\ ReadersAwaited /\ CallShows
    BY DEF Init, OutputsHeld, Pending, FreshSlot, FreshSeq, Serves, ReadersAwaited, CallShows, Showing, Preparing, NoCall
  <2>2. Cached(d11, content.cache, cache)
    BY DEF Init, Cached, NoCache
  <2>3. Undisturbed
    BY DEF Init, Undisturbed, Kept, ReadFirst
  <2>4. Numbered
    BY NoCallFits DEF Init, Numbered
  <2> QED BY <2>1, <2>2, <2>3, <2>4 DEF Honest
<1>2. IInv /\ Counted /\ Numbered /\ Honest /\ [Next]_vars => Honest' /\ Numbered' /\ Counted'
  BY HonestKept, NumberedKept, CountedKept
<1>3. IInv /\ Honest => [d11 # <<>> /\ d11' = Tail(d11) /\ lapses = {} => Shown(Head(d11))]_d11
  BY HeadShows
<1> QED BY <1>1, <1>2, <1>3, Invariant, PTL DEF Spec, ShowsWhatItReports
=============================================================================
