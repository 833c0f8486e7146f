------------------------ MODULE SharedControl_proofs ------------------------
(***************************************************************************)
(* Proofs about SharedControl, for any number of bridges, slots, attempts  *)
(* and presents: what a settings read accepts is whole and current, what a *)
(* poll accepts is the table of one moment, no process has two slots or    *)
(* loses the one it has, and the election does not oscillate.              *)
(*                                                                         *)
(* SettingsWhole needs the invariant of a sequence lock with one writer:   *)
(* the number is odd exactly while the controller writes, and as long as   *)
(* it is the one sampled, what was copied is what is there.  OneSlotPerPid *)
(* needs that a process about to write its slot has no other.  TablesWhole *)
(* and StatusesKept need the same of the table while its writers do not    *)
(* overlap, and that there is a free slot for whoever has none.            *)
(* NoPingPong needs how far a score moves with being elected.              *)
(***************************************************************************)
EXTENDS SharedControl, FiniteSetTheorems, WellFoundedInduction, TLAPS

\* The controller's side of the settings lock.
WriterInv ==
  /\ settings.seq % 2 = 1 <=> ctl.pc \in SettingsWriting
  /\ settings.tail <= settings.head /\ settings.head <= ctl.version
  /\ ctl.pc \in {"tail", "release"} => settings.head = ctl.version
  /\ ctl.pc = "release" => settings.tail = ctl.version
  /\ ctl.pc \notin SettingsWriting =>
       settings.head = ctl.version /\ settings.tail = ctl.version

\* A bridge's side: until the number moves, what it copied is what is there.
ReaderInv ==
  \A p \in Pids :
    /\ bridge[p].read.floor <= settings.tail
    /\ bridge[p].pc \in {"head", "tail", "compare"} =>
         /\ bridge[p].read.seq % 2 = 0 /\ bridge[p].read.seq <= settings.seq
         /\ ~bridge[p].read.accepted
    /\ bridge[p].pc = "sample" => ~bridge[p].read.accepted
    /\ bridge[p].read.seq = settings.seq =>
         /\ bridge[p].pc \in {"tail", "compare"} => bridge[p].read.head = settings.head
         /\ bridge[p].pc = "compare" => bridge[p].read.tail = settings.tail

\* A process about to write its slot has no other.
TargetInv ==
  \A p \in Pids : \A i \in SlotNumbers :
    bridge[p].pc = "slotHead" /\ table.slot[i].head.pid = p => i = bridge[p].status.slot

IInv == TypeOK /\ WriterInv /\ ReaderInv /\ SettingsWhole /\ TargetInv /\ OneSlotPerPid

-----------------------------------------------------------------------------
\* The less-than relation of the naturals, as a set of pairs.
LessThan == {ss \in Nat \X Nat : ss[1] < ss[2]}

LEMMA LessThanWellFounded == IsWellFoundedOn(LessThan, Nat)
<1>1. IsWellFoundedOn(OpToRel(<, Nat), Nat)
  BY NatLessThanWellFounded, Zenon
<1>2. LessThan = OpToRel(<, Nat)
  BY Zenon DEF LessThan, OpToRel
<1> QED BY <1>1, <1>2, Zenon

\* A nonempty set of naturals has a least element.
LEMMA LeastExists ==
  ASSUME NEW S \in SUBSET Nat, S # {}
  PROVE  \E m \in S : \A k \in S : m <= k
<1>1. PICK m \in S : \A k \in S : ~(<<k, m>> \in LessThan)
  BY LessThanWellFounded, WFMin, Zenon
<1>2. ASSUME NEW k \in S PROVE m <= k
  <2>1. m \in Nat /\ k \in Nat
    OBVIOUS
  <2>2. ~(<<k, m>> \in LessThan)
    BY <1>1
  <2>3. ~(k < m)
    BY <2>1, <2>2, SMT DEF LessThan
  <2> QED BY <2>1, <2>3
<1> QED BY <1>2

\* FirstOf returns the least element of a nonempty set of slots.
LEMMA FirstOfIsMember ==
  ASSUME NEW S \in SUBSET SlotNumbers, S # {}
  PROVE  FirstOf(S) \in S
<1>1. S \in SUBSET Nat
  BY ControlAssumption DEF SlotNumbers
<1>2. \E m \in S : \A k \in S : m <= k
  BY <1>1, LeastExists
<1> QED BY <1>2 DEF FirstOf

-----------------------------------------------------------------------------
\* A candidate as poll() builds it.
CandidateType == [pid : Nat, neural : BOOLEAN, tick : Nat, pixels : Nat, api : Nat,
                  fps : Nat, root : BOOLEAN]

\* More than any score.
MaxScore == 20000000

\* Scores are bounded (renderer_selection_policy.hpp caps the pixels).
LEMMA ScoreBounded ==
  ASSUME NEW c \in CandidateType
  PROVE  rendererScore(c) \in Nat /\ rendererScore(c) <= MaxScore
<1>1. ApiBonus(c.api) \in Nat /\ ApiBonus(c.api) <= 1500000
  BY SMT DEF ApiBonus, CandidateType
<1>2. Least(c.pixels, 16777216) \in Nat /\ Least(c.pixels, 16777216) <= 16777216
  BY SMT DEF Least, CandidateType
<1>3. ASSUME NEW sum \in Nat, sum <= MaxScore, NEW fps \in Nat
      PROVE  Penalised(sum, fps) \in Nat /\ Penalised(sum, fps) <= MaxScore
  BY <1>3, SMT DEF Penalised, Least, MaxScore
<1> DEFINE sum == Least(c.pixels, 16777216) + ApiBonus(c.api)
                    + (IF c.root THEN 600000 ELSE 0) + (IF c.neural THEN 500000 ELSE 0)
<1>4. sum \in Nat /\ sum <= MaxScore /\ c.fps \in Nat
  BY <1>1, <1>2, SMT DEF CandidateType, MaxScore
<1>5. Penalised(sum, c.fps) \in Nat /\ Penalised(sum, c.fps) <= MaxScore
  <2> HIDE DEF sum
  <2> QED BY <1>3, <1>4, Zenon
<1>6. rendererScore(c) \in {0, Penalised(sum, c.fps), Penalised(sum, c.fps) \div 2}
  BY SMT DEF rendererScore
<1>7. MaxScore \in Nat
  BY SMT DEF MaxScore
<1> HIDE DEF sum
<1> QED BY <1>5, <1>6, <1>7, SMT

\* The parts of an election: who is fresh, the scores, the best, the incumbent's entry.
Fresh(cs, time) == {i \in DOMAIN cs : rendererCandidateFresh(cs[i], time)}
Scores(cs, time) == [i \in Fresh(cs, time) |-> rendererScore(cs[i])]
IsBest(cs, time, i) ==
  \A j \in Fresh(cs, time) : \/ Scores(cs, time)[j] < Scores(cs, time)[i]
                             \/ Scores(cs, time)[j] = Scores(cs, time)[i] /\ i <= j
Best(cs, time) == CHOOSE i \in Fresh(cs, time) : IsBest(cs, time, i)
Mine(cs, incumbent, time) == {i \in Fresh(cs, time) : cs[i].pid = incumbent}
Current(cs, incumbent, time) ==
  CHOOSE i \in Mine(cs, incumbent, time) : \A j \in Mine(cs, incumbent, time) : j <= i

LEMMA ElectionByParts ==
  ASSUME NEW cs, NEW incumbent, NEW time
  PROVE  electPrimaryRenderer(cs, incumbent, time) =
           IF Fresh(cs, time) = {} THEN 0
           ELSE IF Mine(cs, incumbent, time) # {}
                   /\ Scores(cs, time)[Best(cs, time)]
                        <= Hysteresis(Scores(cs, time)[Current(cs, incumbent, time)])
             THEN incumbent
             ELSE cs[Best(cs, time)].pid
BY Zenon DEF electPrimaryRenderer, Fresh, Scores, IsBest, Best, Mine, Current

\* If anybody is fresh there is a best: scores are bounded, and the first of the highest
\* wins.
LEMMA BestIsFresh ==
  ASSUME NEW D \in SUBSET Nat, NEW cs \in [D -> CandidateType], NEW time,
         Fresh(cs, time) # {}
  PROVE  Best(cs, time) \in Fresh(cs, time)
<1> DEFINE fresh == Fresh(cs, time)
           score == Scores(cs, time)
<1>1. fresh \subseteq D
  BY DEF Fresh
<1>2. MaxScore \in Nat
  BY SMT DEF MaxScore
<1>3. \A i \in fresh : score[i] \in Nat /\ score[i] <= MaxScore
  BY <1>1, ScoreBounded DEF Scores
<1> DEFINE gaps == {MaxScore - score[i] : i \in fresh}
<1> HIDE DEF fresh, score
<1>4. gaps \in SUBSET Nat /\ gaps # {}
  BY <1>2, <1>3 DEF fresh
<1>5. PICK m \in gaps : \A k \in gaps : m <= k
  <2> HIDE DEF gaps
  <2> QED BY <1>4, LeastExists
<1>6. PICK top \in fresh : m = MaxScore - score[top]
  BY <1>5
<1>7. \A j \in fresh : score[j] <= score[top]
  <2> TAKE j \in fresh
  <2>1. m <= MaxScore - score[j]
    BY <1>5
  <2> QED BY <1>2, <1>3, <1>6, <2>1
<1> DEFINE tied == {i \in fresh : score[i] = score[top]}
<1>8. tied \in SUBSET Nat /\ tied # {}
  BY <1>1
<1>9. PICK i \in tied : \A k \in tied : i <= k
  <2> HIDE DEF tied
  <2> QED BY <1>8, LeastExists
<1>10. i \in fresh /\ score[i] = score[top]
  OBVIOUS
<1>11. ASSUME NEW j \in fresh
       PROVE  score[j] < score[i] \/ (score[j] = score[i] /\ i <= j)
  <2>1. CASE score[j] = score[top]
    BY <2>1, <1>9, <1>10
  <2>2. CASE score[j] # score[top]
    BY <2>2, <1>3, <1>7, <1>10
  <2> QED BY <2>1, <2>2
<1>12. IsBest(cs, time, i)
  BY <1>11 DEF IsBest, fresh, score
<1> QED BY <1>10, <1>12 DEF Best, fresh

\* Whoever is elected is a candidate, the incumbent, or nobody.
LEMMA ElectedIsKnown ==
  ASSUME NEW D \in SUBSET Nat, NEW cs \in [D -> CandidateType],
         NEW incumbent, NEW time \in Nat
  PROVE  electPrimaryRenderer(cs, incumbent, time)
           \in {0, incumbent} \cup {cs[i].pid : i \in D}
<1>1. CASE Fresh(cs, time) = {}
  BY <1>1, ElectionByParts
<1>2. CASE Fresh(cs, time) # {}
  <2>1. Best(cs, time) \in D
    BY <1>2, BestIsFresh DEF Fresh
  <2>2. electPrimaryRenderer(cs, incumbent, time) \in {0, incumbent, cs[Best(cs, time)].pid}
    BY ElectionByParts
  <2> QED BY <2>1, <2>2
<1> QED BY <1>1, <1>2

\* Somebody is elected if anybody is fresh and there is an incumbent.
LEMMA SomebodyIsElected ==
  ASSUME NEW D \in SUBSET Nat, NEW cs \in [D -> CandidateType],
         NEW incumbent, NEW time, incumbent # 0, Fresh(cs, time) # {}
  PROVE  electPrimaryRenderer(cs, incumbent, time) # 0
<1>1. cs[Best(cs, time)].pid # 0
  BY BestIsFresh DEF Fresh, rendererCandidateFresh
<1> QED BY <1>1, ElectionByParts

\* Who replaces an incumbent with a fresh entry exceeds the score of one by the hysteresis.
LEMMA ReplacesByScore ==
  ASSUME NEW bound \in Nat, NEW cs \in [1..bound -> CandidateType], NEW incumbent, NEW time,
         Mine(cs, incumbent, time) # {},
         electPrimaryRenderer(cs, incumbent, time) # incumbent
  PROVE  \E b, c \in 1..bound :
           /\ cs[b].pid = electPrimaryRenderer(cs, incumbent, time)
           /\ cs[c].pid = incumbent
           /\ rendererScore(cs[b]) > Hysteresis(rendererScore(cs[c]))
<1> DEFINE D == 1..bound
           mine == Mine(cs, incumbent, time)
           b == Best(cs, time)
           c == Current(cs, incumbent, time)
<1>1. D \in SUBSET Nat /\ mine \subseteq D /\ mine \subseteq Fresh(cs, time)
  BY DEF Mine, Fresh
<1>2. Fresh(cs, time) # {}
  BY <1>1
<1>3. b \in Fresh(cs, time) /\ b \in D
  <2>1. b \in Fresh(cs, time)
    BY <1>1, <1>2, BestIsFresh
  <2> QED BY <2>1 DEF Fresh
<1>4. c \in mine
  <2> DEFINE gaps == {bound - i : i \in mine}
  <2> HIDE DEF mine
  <2>1. gaps \in SUBSET Nat /\ gaps # {}
    BY <1>1 DEF mine
  <2>2. PICK m \in gaps : \A k \in gaps : m <= k
    <3> HIDE DEF gaps
    <3> QED BY <2>1, LeastExists
  <2>3. PICK last \in mine : m = bound - last
    BY <2>2
  <2>4. \A j \in mine : j <= last
    <3> TAKE j \in mine
    <3>1. m <= bound - j
      BY <2>2
    <3> QED BY <1>1, <2>3, <3>1
  <2> QED BY <2>4 DEF Current, mine
<1>5. c \in D /\ c \in Fresh(cs, time) /\ cs[c].pid = incumbent
  BY <1>1, <1>4 DEF Mine
<1> HIDE DEF b, c, D, mine
<1>6. /\ electPrimaryRenderer(cs, incumbent, time) = cs[b].pid
      /\ ~(Scores(cs, time)[b] <= Hysteresis(Scores(cs, time)[c]))
  BY <1>2, ElectionByParts DEF b, c
<1>7. Scores(cs, time)[b] = rendererScore(cs[b]) /\ Scores(cs, time)[c] = rendererScore(cs[c])
  BY <1>3, <1>5 DEF Scores
<1>8. rendererScore(cs[b]) \in Nat /\ rendererScore(cs[c]) \in Nat
  BY <1>3, <1>5, ScoreBounded DEF D
<1>9. Hysteresis(rendererScore(cs[c])) \in Nat
  BY <1>8 DEF Hysteresis
<1>10. rendererScore(cs[b]) > Hysteresis(rendererScore(cs[c]))
  BY <1>6, <1>7, <1>8, <1>9
<1> QED BY <1>3, <1>5, <1>6, <1>10 DEF D

\* The candidates of a poll are candidates.
LEMMA CandidatesTyped ==
  ASSUME TypeOK
  PROVE  /\ Candidates \in [SlotNumbers -> CandidateType]
         /\ \A i \in SlotNumbers : Candidates[i].pid \in SomePid
<1>1. \A i \in SlotNumbers : ctl.poll.copy[i] \in SlotType
  BY DEF TypeOK, CtlType, PollType, TableType
<1>2. ASSUME NEW s \in SlotType PROVE Candidate(s) \in CandidateType
                                    /\ Candidate(s).pid \in SomePid
  <2>1. s.head.pid \in SomePid /\ s.head.neural \in BOOLEAN /\ s.tail.tick \in Nat
    BY DEF SlotType
  <2>2. CASE s.head.pid = 0
    BY <2>1, <2>2 DEF Candidate, CandidateType, SomePid
  <2>3. CASE s.head.pid \in Pids
    <3>1. Window[s.head.pid] \in [pixels : Nat, api : Nat, fps : Nat, root : BOOLEAN]
      BY <2>3, ControlAssumption
    <3>2. s.head.pid \in Nat /\ s.head.pid # 0
      BY <2>3, ControlAssumption
    <3> QED BY <2>1, <3>1, <3>2 DEF Candidate, CandidateType
  <2> QED BY <2>1, <2>2, <2>3 DEF SomePid
<1>3. Candidates \in [SlotNumbers -> CandidateType]
  BY <1>1, <1>2 DEF Candidates
<1>4. \A i \in SlotNumbers : Candidates[i].pid \in SomePid
  BY <1>1, <1>2 DEF Candidates
<1> QED BY <1>3, <1>4

\* What poll() publishes is a process or nobody.
LEMMA ElectedIsPid ==
  ASSUME TypeOK
  PROVE  electPrimaryRenderer(Candidates, ctl.primary, now) \in SomePid
<1>1. SlotNumbers \in SUBSET Nat /\ now \in Nat /\ ctl.primary \in SomePid
  BY ControlAssumption DEF SlotNumbers, TypeOK, CtlType
<1>2. electPrimaryRenderer(Candidates, ctl.primary, now)
        \in {0, ctl.primary} \cup {Candidates[i].pid : i \in SlotNumbers}
  BY <1>1, CandidatesTyped, ElectedIsKnown
<1> QED BY <1>1, <1>2, CandidatesTyped DEF SomePid

\* A process finds its own slot if it has one.
LEMMA ChosenSlotIsOwn ==
  ASSUME TypeOK, OneSlotPerPid, NEW p \in Pids
  PROVE  /\ ChosenSlot(p) \in SlotNumbers
         /\ \A i \in SlotNumbers : table.slot[i].head.pid = p => i = ChosenSlot(p)
<1> DEFINE own    == {i \in SlotNumbers : table.slot[i].head.pid = p}
           empty  == {i \in SlotNumbers : table.slot[i].head.pid = 0}
           oldest == {i \in SlotNumbers : \A j \in SlotNumbers :
                        table.slot[i].tail.tick <= table.slot[j].tail.tick}
<1>1. oldest # {}
  <2> DEFINE ticks == {table.slot[i].tail.tick : i \in SlotNumbers}
  <2>1. \A i \in SlotNumbers : table.slot[i].tail.tick \in Nat
    BY DEF TypeOK, TableType, SlotType
  <2>2. ticks \in SUBSET Nat /\ ticks # {}
    BY <2>1, ControlAssumption DEF SlotNumbers
  <2>3. PICK m \in ticks : \A k \in ticks : m <= k
    <3> HIDE DEF ticks
    <3> QED BY <2>2, LeastExists
  <2> QED BY <2>3
<1>2. own \in SUBSET SlotNumbers /\ empty \in SUBSET SlotNumbers
        /\ oldest \in SUBSET SlotNumbers
  OBVIOUS
<1>3. ChosenSlot(p) = FirstOf(IF own # {} THEN own ELSE IF empty # {} THEN empty ELSE oldest)
  BY DEF ChosenSlot
<1>4. own # {} => ChosenSlot(p) \in own
  BY <1>2, <1>3, FirstOfIsMember
<1>5. ChosenSlot(p) \in SlotNumbers
  <2> HIDE DEF own, empty, oldest
  <2> QED BY <1>1, <1>2, <1>3, FirstOfIsMember
<1>6. \A i, j \in own : i = j
  BY ControlAssumption DEF OneSlotPerPid
<1> QED BY <1>4, <1>5, <1>6

-----------------------------------------------------------------------------
\* The sets of program counters and the tuple of variables are only names.
USE DEF CtlPcs, BridgePcs, SettingsWriting, StatusWriting, CtlAt, At, vars

LEMMA NothingIsTyped == NoRead \in ReadType /\ NoStatus \in StatusType /\ NoPoll \in PollType
<1>1. 0 \in 0..Tries - 1 /\ 1 \in SlotNumbers
  BY ControlAssumption DEF SlotNumbers
<1>2. NoStatuses \in TableType
  BY DEF NoStatuses, TableType, EmptySlot, SlotType, SomePid
<1> QED BY <1>1, <1>2 DEF NoRead, ReadType, NoStatus, StatusType, NoPoll, PollType

\* A controller step that is not part of writing settings disturbs types only.
LEMMA PollingKeeps ==
  ASSUME IInv, TypeOK', UNCHANGED <<settings, table, bridge>>, ctl'.version = ctl.version,
         ctl.pc \notin SettingsWriting, ctl'.pc \notin SettingsWriting
  PROVE  IInv'
<1>1. WriterInv'
  BY DEF IInv, WriterInv
<1>2. ReaderInv' /\ SettingsWhole'
  BY DEF IInv, ReaderInv, SettingsWhole
<1>3. TargetInv' /\ OneSlotPerPid'
  BY DEF IInv, TargetInv, OneSlotPerPid
<1> QED BY <1>1, <1>2, <1>3 DEF IInv

\* A step of writing settings leaves the status table alone.
LEMMA WritingKeeps ==
  ASSUME IInv, TypeOK', WriterInv', ReaderInv', SettingsWhole', UNCHANGED <<table, bridge>>
  PROVE  IInv'
<1>1. TargetInv' /\ OneSlotPerPid'
  BY DEF IInv, TargetInv, OneSlotPerPid
<1> QED BY <1>1 DEF IInv

\* A step of a bridge that is not about to write its slot leaves the table, the
\* settings and the controller alone.
LEMMA ReadingKeeps ==
  ASSUME IInv, NEW p \in Pids, TypeOK', ReaderInv', SettingsWhole',
         UNCHANGED <<settings, table, ctl>>,
         \A q \in Pids \ {p} : bridge'[q] = bridge[q],
         bridge'[p].pc # "slotHead"
  PROVE  IInv'
<1>1. WriterInv' /\ OneSlotPerPid'
  BY DEF IInv, WriterInv, OneSlotPerPid
<1>2. TargetInv'
  BY DEF IInv, TargetInv
<1> QED BY <1>1, <1>2 DEF IInv

\* A step of a bridge that is not reading settings leaves them alone.
LEMMA PublishingKeeps ==
  ASSUME IInv, NEW p \in Pids, TypeOK', TargetInv', OneSlotPerPid',
         UNCHANGED <<settings, ctl>>,
         \A q \in Pids \ {p} : bridge'[q] = bridge[q],
         bridge'[p].pc \notin {"sample", "head", "tail", "compare", "consume"},
         bridge'[p].read \in {bridge[p].read, NoRead}
  PROVE  IInv'
<1>1. WriterInv'
  BY DEF IInv, WriterInv
<1>2. NoRead.floor <= settings.tail
  BY DEF NoRead, IInv, TypeOK
<1>3. ReaderInv'
  BY <1>2 DEF IInv, ReaderInv
<1>4. SettingsWhole'
  BY DEF IInv, SettingsWhole
<1> QED BY <1>1, <1>3, <1>4 DEF IInv

\* The user makes a setting.
LEMMA ChooseKeeps ==
  ASSUME IInv, NEW when \in {"before", "after", "never"}, Choose(when)
  PROVE  IInv'
<1>1. TypeOK'
  <2>1. ctl' \in CtlType
    BY Zenon DEF IInv, TypeOK, CtlType, Choose
  <2>2. budget' \in BudgetType
    BY DEF IInv, TypeOK, BudgetType, Choose
  <2>3. reset' \subseteq Pids
    BY DEF IInv, TypeOK, Choose
  <2> QED BY <2>1, <2>2, <2>3 DEF IInv, TypeOK, Choose
<1>2. UNCHANGED <<settings, table, bridge>> /\ ctl'.version = ctl.version
        /\ ctl.pc \notin SettingsWriting /\ ctl'.pc \notin SettingsWriting
  BY DEF IInv, TypeOK, Choose
<1> QED BY <1>1, <1>2, PollingKeeps

\* The settings number turns odd.
LEMMA BumpSettingsKeeps ==
  ASSUME IInv, BumpSettings
  PROVE  IInv'
<1>1. TypeOK'
  <2>1. ctl.version + 1 \in Nat
    BY DEF IInv, TypeOK, CtlType
  <2>2. ctl' \in CtlType
    BY <2>1, Zenon DEF IInv, TypeOK, CtlType, BumpSettings
  <2>3. settings' \in [seq : Nat, head : Nat, tail : Nat]
    BY DEF IInv, TypeOK, CtlType, BumpSettings
  <2> QED BY <2>2, <2>3 DEF IInv, TypeOK, BumpSettings
<1>2. WriterInv'
  BY DEF IInv, TypeOK, CtlType, WriterInv, BumpSettings
<1>3. ReaderInv'
  BY DEF IInv, TypeOK, BridgeType, ReadType, WriterInv, ReaderInv, BumpSettings
<1>4. SettingsWhole'
  BY DEF IInv, TypeOK, BridgeType, CtlType, ReadType, SettingsWhole, BumpSettings
<1>5. UNCHANGED <<table, bridge>>
  BY DEF BumpSettings
<1> QED BY <1>1, <1>2, <1>3, <1>4, <1>5, WritingKeeps

\* The first half of the settings is written.
LEMMA WriteHeadKeeps ==
  ASSUME IInv, WriteHead
  PROVE  IInv'
<1>1. TypeOK'
  <2>1. ctl' \in CtlType
    BY Zenon DEF IInv, TypeOK, CtlType, WriteHead
  <2>2. settings' \in [seq : Nat, head : Nat, tail : Nat]
    BY DEF IInv, TypeOK, CtlType, WriteHead
  <2> QED BY <2>1, <2>2 DEF IInv, TypeOK, WriteHead
<1>2. WriterInv'
  BY DEF IInv, TypeOK, CtlType, WriterInv, WriteHead
<1>3. ReaderInv'
  BY DEF IInv, TypeOK, BridgeType, ReadType, WriterInv, ReaderInv, WriteHead
<1>4. SettingsWhole'
  BY DEF IInv, TypeOK, BridgeType, CtlType, ReadType, SettingsWhole, WriteHead
<1>5. UNCHANGED <<table, bridge>>
  BY DEF WriteHead
<1> QED BY <1>1, <1>2, <1>3, <1>4, <1>5, WritingKeeps

\* The second half of the settings is written.
LEMMA WriteTailKeeps ==
  ASSUME IInv, WriteTail
  PROVE  IInv'
<1>1. TypeOK'
  <2>1. ctl' \in CtlType
    BY Zenon DEF IInv, TypeOK, CtlType, WriteTail
  <2>2. settings' \in [seq : Nat, head : Nat, tail : Nat]
    BY DEF IInv, TypeOK, CtlType, WriteTail
  <2> QED BY <2>1, <2>2 DEF IInv, TypeOK, WriteTail
<1>2. WriterInv'
  BY DEF IInv, TypeOK, CtlType, WriterInv, WriteTail
<1>3. ReaderInv'
  BY DEF IInv, TypeOK, BridgeType, ReadType, WriterInv, ReaderInv, WriteTail
<1>4. SettingsWhole'
  BY DEF IInv, TypeOK, BridgeType, CtlType, ReadType, SettingsWhole, WriteTail
<1>5. UNCHANGED <<table, bridge>>
  BY DEF WriteTail
<1> QED BY <1>1, <1>2, <1>3, <1>4, <1>5, WritingKeeps

\* The settings number turns even.
LEMMA ReleaseSettingsKeeps ==
  ASSUME IInv, ReleaseSettings
  PROVE  IInv'
<1>1. TypeOK'
  <2>1. ctl' \in CtlType
    BY Zenon DEF IInv, TypeOK, CtlType, ReleaseSettings
  <2>2. settings' \in [seq : Nat, head : Nat, tail : Nat]
    BY DEF IInv, TypeOK, CtlType, ReleaseSettings
  <2> QED BY <2>1, <2>2 DEF IInv, TypeOK, ReleaseSettings
<1>2. WriterInv'
  BY DEF IInv, TypeOK, CtlType, WriterInv, ReleaseSettings
<1>3. ReaderInv'
  BY DEF IInv, TypeOK, BridgeType, ReadType, WriterInv, ReaderInv, ReleaseSettings
<1>4. SettingsWhole'
  BY DEF IInv, TypeOK, BridgeType, CtlType, ReadType, SettingsWhole, ReleaseSettings
<1>5. UNCHANGED <<table, bridge>>
  BY DEF ReleaseSettings
<1> QED BY <1>1, <1>2, <1>3, <1>4, <1>5, WritingKeeps

\* The history of every bridge is to be reset.
LEMMA RequestResetKeeps ==
  ASSUME IInv, requestHistoryReset
  PROVE  IInv'
<1>1. TypeOK'
  <2>1. ctl' \in CtlType
    BY Zenon DEF IInv, TypeOK, CtlType, requestHistoryReset
  <2>2. reset' \subseteq Pids
    BY DEF IInv, TypeOK, requestHistoryReset
  <2> QED BY <2>1, <2>2 DEF IInv, TypeOK, requestHistoryReset
<1>2. UNCHANGED <<settings, table, bridge>> /\ ctl'.version = ctl.version
        /\ ctl.pc \notin SettingsWriting /\ ctl'.pc \notin SettingsWriting
  BY DEF IInv, TypeOK, requestHistoryReset
<1> QED BY <1>1, <1>2, PollingKeeps

\* The controller polls.
LEMMA PollKeeps ==
  ASSUME IInv, Poll
  PROVE  IInv'
<1>1. TypeOK'
  <2>1. ctl' \in CtlType
    BY Zenon DEF IInv, TypeOK, CtlType, Poll
  <2>2. budget' \in BudgetType
    BY DEF IInv, TypeOK, BudgetType, Poll
  <2> QED BY <2>1, <2>2 DEF IInv, TypeOK, Poll
<1>2. UNCHANGED <<settings, table, bridge>> /\ ctl'.version = ctl.version
        /\ ctl.pc \notin SettingsWriting /\ ctl'.pc \notin SettingsWriting
  BY DEF IInv, TypeOK, Poll
<1> QED BY <1>1, <1>2, PollingKeeps

\* It samples the number of the status table.
LEMMA SampleStatusesKeeps ==
  ASSUME IInv, SampleStatuses
  PROVE  IInv'
<1>1. TypeOK'
  <2>1. ctl.poll \in PollType /\ NoPoll \in PollType /\ 1 \in SlotNumbers
    BY NothingIsTyped, ControlAssumption DEF IInv, TypeOK, CtlType, SlotNumbers
  <2>2. PICK pc \in CtlPcs, poll \in PollType : ctl' = [ctl EXCEPT !.pc = pc, !.poll = poll]
    <3>1. CASE table.seq % 2 # 1
      <4>1. [ctl.poll EXCEPT !.seq = table.seq, !.next = 1, !.floor = table.slot] \in PollType
        BY <2>1 DEF IInv, TypeOK, PollType
      <4>2. ctl' = [ctl EXCEPT !.pc = "slotHead", !.poll =
                    [ctl.poll EXCEPT !.seq = table.seq, !.next = 1, !.floor = table.slot]]
      BY <3>1 DEF IInv, TypeOK, CtlType, SampleStatuses
    <4> QED BY <4>1, <4>2
    <3>2. CASE ~(table.seq % 2 # 1) /\ ctl.poll.tries + 1 < Tries
      <4>1. [ctl.poll EXCEPT !.tries = @ + 1] \in PollType
        BY <2>1, <3>2, ControlAssumption DEF PollType
      <4> QED BY <3>2, <4>1 DEF IInv, TypeOK, CtlType, SampleStatuses, RetryStatuses
    <3>3. CASE ~(table.seq % 2 # 1) /\ ~(ctl.poll.tries + 1 < Tries)
      BY <2>1, <3>3 DEF IInv, TypeOK, CtlType, SampleStatuses, RetryStatuses
    <3> QED BY <3>1, <3>2, <3>3
  <2>3. ctl' \in CtlType
    BY <2>2, Zenon DEF IInv, TypeOK, CtlType
  <2> QED BY <2>3 DEF IInv, TypeOK, SampleStatuses
<1>2. UNCHANGED <<settings, table, bridge>> /\ ctl'.version = ctl.version
        /\ ctl.pc \notin SettingsWriting /\ ctl'.pc \notin SettingsWriting
  BY DEF IInv, TypeOK, CtlType, SampleStatuses, RetryStatuses
<1> QED BY <1>1, <1>2, PollingKeeps

\* It copies the first half of a slot.
LEMMA CopySlotHeadKeeps ==
  ASSUME IInv, CopySlotHead
  PROVE  IInv'
<1>1. TypeOK'
  <2> DEFINE next == ctl.poll.next
             slot == [ctl.poll.copy[next] EXCEPT !.head = table.slot[next].head]
             poll == [ctl.poll EXCEPT !.copy = [ctl.poll.copy EXCEPT ![next] = slot]]
  <2>1. next \in SlotNumbers /\ ctl.poll \in PollType /\ ctl.poll.copy \in TableType
    BY DEF IInv, TypeOK, CtlType, PollType
  <2>2. slot \in SlotType
    BY <2>1 DEF IInv, TypeOK, TableType, SlotType
  <2>3. poll \in PollType
    <3> HIDE DEF next, slot
    <3> QED BY <2>1, <2>2 DEF PollType, TableType
  <2>4. ctl' = [ctl EXCEPT !.pc = "slotTail", !.poll = poll]
    BY DEF IInv, TypeOK, CtlType, PollType, CopySlotHead
  <2> HIDE DEF poll
  <2>5. ctl' \in CtlType
    BY <2>3, <2>4, Zenon DEF IInv, TypeOK, CtlType
  <2> QED BY <2>5 DEF IInv, TypeOK, CopySlotHead
<1>2. UNCHANGED <<settings, table, bridge>> /\ ctl'.version = ctl.version
        /\ ctl.pc \notin SettingsWriting /\ ctl'.pc \notin SettingsWriting
  BY DEF IInv, TypeOK, CopySlotHead
<1> QED BY <1>1, <1>2, PollingKeeps

\* It copies the second half of a slot.
LEMMA CopySlotTailKeeps ==
  ASSUME IInv, CopySlotTail
  PROVE  IInv'
<1>1. TypeOK'
  <2> DEFINE next == ctl.poll.next
             slot == [ctl.poll.copy[next] EXCEPT !.tail = table.slot[next].tail]
             poll == [ctl.poll EXCEPT !.copy = [ctl.poll.copy EXCEPT ![next] = slot]]
  <2>1. next \in SlotNumbers /\ ctl.poll \in PollType /\ ctl.poll.copy \in TableType
    BY DEF IInv, TypeOK, CtlType, PollType
  <2>2. slot \in SlotType
    BY <2>1 DEF IInv, TypeOK, TableType, SlotType
  <2>3. poll \in PollType
    <3> HIDE DEF next, slot
    <3> QED BY <2>1, <2>2 DEF PollType, TableType
  <2>4. next < Slots => next + 1 \in SlotNumbers
    BY <2>1, ControlAssumption DEF SlotNumbers
  <2>5. [poll EXCEPT !.next = IF next < Slots THEN next + 1 ELSE next] \in PollType
    <3> HIDE DEF poll
    <3> QED BY <2>1, <2>3, <2>4 DEF PollType
  <2>6. ctl' = [ctl EXCEPT !.pc = IF next < Slots THEN "slotHead" ELSE "compare",
                           !.poll = [poll EXCEPT !.next =
                                       IF next < Slots THEN next + 1 ELSE next]]
    <3>1. [ctl.poll EXCEPT !.copy[next].tail = table.slot[next].tail,
                           !.next = IF @ < Slots THEN @ + 1 ELSE @]
            = [poll EXCEPT !.next = IF next < Slots THEN next + 1 ELSE next]
      BY <2>1 DEF PollType
    <3>2. ctl' = [ctl EXCEPT !.pc = IF next < Slots THEN "slotHead" ELSE "compare",
                             !.poll = [ctl.poll EXCEPT
                               !.copy[next].tail = table.slot[next].tail,
                               !.next = IF @ < Slots THEN @ + 1 ELSE @]]
      BY Zenon DEF CopySlotTail
    <3> QED BY <3>1, <3>2, Zenon
  <2> HIDE DEF poll
  <2>7. ctl' \in CtlType
    BY <2>5, <2>6, Zenon DEF IInv, TypeOK, CtlType
  <2> QED BY <2>7 DEF IInv, TypeOK, CopySlotTail
<1>2. UNCHANGED <<settings, table, bridge>> /\ ctl'.version = ctl.version
        /\ ctl.pc \notin SettingsWriting /\ ctl'.pc \notin SettingsWriting
  BY DEF IInv, TypeOK, CopySlotTail
<1> QED BY <1>1, <1>2, PollingKeeps

\* It compares the numbers.
LEMMA CompareStatusesKeeps ==
  ASSUME IInv, CompareStatuses
  PROVE  IInv'
<1>1. TypeOK'
  <2>1. ctl.poll \in PollType /\ NoPoll \in PollType /\ 1 \in SlotNumbers
    BY NothingIsTyped, ControlAssumption DEF IInv, TypeOK, CtlType, SlotNumbers
  <2>2. PICK pc \in CtlPcs, poll \in PollType : ctl' = [ctl EXCEPT !.pc = pc, !.poll = poll]
    <3>1. CASE table.seq = ctl.poll.seq
      <4>1. [ctl.poll EXCEPT !.accepted = TRUE] \in PollType
        BY <2>1 DEF IInv, TypeOK, PollType
      <4> QED BY <3>1, <4>1 DEF IInv, TypeOK, CtlType, CompareStatuses
    <3>2. CASE ~(table.seq = ctl.poll.seq) /\ ctl.poll.tries + 1 < Tries
      <4>1. [ctl.poll EXCEPT !.tries = @ + 1] \in PollType
        BY <2>1, <3>2, ControlAssumption DEF PollType
      <4> QED BY <3>2, <4>1 DEF IInv, TypeOK, CtlType, CompareStatuses, RetryStatuses
    <3>3. CASE ~(table.seq = ctl.poll.seq) /\ ~(ctl.poll.tries + 1 < Tries)
      BY <2>1, <3>3 DEF IInv, TypeOK, CtlType, CompareStatuses, RetryStatuses
    <3> QED BY <3>1, <3>2, <3>3
  <2>3. ctl' \in CtlType
    BY <2>2, Zenon DEF IInv, TypeOK, CtlType
  <2> QED BY <2>3 DEF IInv, TypeOK, CompareStatuses
<1>2. UNCHANGED <<settings, table, bridge>> /\ ctl'.version = ctl.version
        /\ ctl.pc \notin SettingsWriting /\ ctl'.pc \notin SettingsWriting
  BY DEF IInv, TypeOK, CtlType, CompareStatuses, RetryStatuses
<1> QED BY <1>1, <1>2, PollingKeeps

\* It elects a renderer.
LEMMA ElectKeeps ==
  ASSUME IInv, Elect
  PROVE  IInv'
<1>1. TypeOK'
  <2> DEFINE elected == electPrimaryRenderer(Candidates, ctl.primary, now)
  <2>1. elected \in SomePid
    BY ElectedIsPid DEF IInv
  <2>2. NoPoll \in PollType /\ 0 \in SomePid
    BY NothingIsTyped DEF SomePid
  <2>3. PICK pc \in CtlPcs, deposed \in SomePid :
          ctl' = [ctl EXCEPT !.pc = pc, !.primary = elected, !.poll = NoPoll,
                             !.deposed = deposed]
    BY <2>2 DEF IInv, TypeOK, CtlType, Elect
  <2>4. primary' \in SomePid
    BY <2>1 DEF IInv, TypeOK, Elect
  <2> HIDE DEF elected
  <2>5. ctl' \in CtlType
    BY <2>1, <2>2, <2>3, Zenon DEF IInv, TypeOK, CtlType
  <2> QED BY <2>4, <2>5 DEF IInv, TypeOK, Elect
<1>2. UNCHANGED <<settings, table, bridge>> /\ ctl'.version = ctl.version
        /\ ctl.pc \notin SettingsWriting /\ ctl'.pc \notin SettingsWriting
  BY DEF IInv, TypeOK, Elect
<1> QED BY <1>1, <1>2, PollingKeeps

\* The clock advances.
LEMMA TickKeeps ==
  ASSUME IInv, Tick
  PROVE  IInv'
<1>1. TypeOK'
  BY DEF IInv, TypeOK, BudgetType, Tick
<1>2. WriterInv' /\ ReaderInv' /\ SettingsWhole'
  BY DEF IInv, WriterInv, ReaderInv, SettingsWhole, Tick
<1>3. TargetInv' /\ OneSlotPerPid'
  BY DEF IInv, TargetInv, OneSlotPerPid, Tick
<1> QED BY <1>1, <1>2, <1>3 DEF IInv

\* A game presents.
LEMMA PresentKeeps ==
  ASSUME IInv, NEW p \in Pids, Present(p)
  PROVE  IInv'
<1>1. TypeOK'
  <2> DEFINE read == [bridge[p].read EXCEPT !.floor = settings.tail]
             mine == [bridge[p] EXCEPT !.pc = "sample", !.frame = @ + 1, !.read = read]
  <2>1. bridge[p] \in BridgeType /\ bridge[p].read \in ReadType
    BY DEF IInv, TypeOK, BridgeType
  <2>2. read \in ReadType
    BY <2>1 DEF IInv, TypeOK, ReadType
  <2>3. bridge[p].frame + 1 \in Nat
    BY <2>1 DEF BridgeType
  <2>4. mine \in BridgeType
    <3> HIDE DEF read
    <3> QED BY <2>1, <2>2, <2>3 DEF BridgeType
  <2>5. bridge' = [bridge EXCEPT ![p] = mine]
    BY DEF IInv, TypeOK, BridgeType, Present
  <2> HIDE DEF mine
  <2>6. bridge' \in [Pids -> BridgeType]
    BY <2>4, <2>5 DEF IInv, TypeOK
  <2>7. budget' \in BudgetType
    BY DEF IInv, TypeOK, BudgetType, Present
  <2> QED BY <2>6, <2>7 DEF IInv, TypeOK, Present
<1>2. ReaderInv'
  BY DEF IInv, TypeOK, BridgeType, ReadType, WriterInv, ReaderInv, Present
<1>3. SettingsWhole'
  BY DEF IInv, TypeOK, BridgeType, ReadType, WriterInv, ReaderInv, SettingsWhole, Present
<1>4. /\ UNCHANGED <<settings, table, ctl>> /\ bridge'[p].pc # "slotHead"
      /\ \A q \in Pids \ {p} : bridge'[q] = bridge[q]
  BY DEF IInv, TypeOK, Present
<1> QED BY <1>1, <1>2, <1>3, <1>4, ReadingKeeps

\* Its bridge samples the settings number.
LEMMA SampleSettingsKeeps ==
  ASSUME IInv, NEW p \in Pids, SampleSettings(p)
  PROVE  IInv'
<1>1. TypeOK'
  <2>0. bridge \in [Pids -> BridgeType]
    BY DEF IInv, TypeOK
  <2>1. bridge[p] \in BridgeType /\ bridge[p].read \in ReadType
    BY DEF IInv, TypeOK, BridgeType
  <2>2. bridge' \in [Pids -> BridgeType]
    <3>1. CASE settings.seq % 2 # 1
      <4> DEFINE read == [bridge[p].read EXCEPT !.seq = settings.seq]
                 mine == [bridge[p] EXCEPT !.pc = "head", !.read = read]
      <4>1. read \in ReadType
        BY <2>1, <3>1, ControlAssumption DEF IInv, TypeOK, ReadType
      <4>2. mine \in BridgeType
        <5> HIDE DEF read
        <5> QED BY <2>1, <4>1 DEF BridgeType
      <4>3. bridge' = [bridge EXCEPT ![p] = mine]
        BY <2>1, <2>0, <3>1 DEF BridgeType, SampleSettings
      <4> HIDE DEF mine
      <4> QED BY <4>2, <4>3 DEF IInv, TypeOK
    <3>2. CASE ~(settings.seq % 2 # 1) /\ bridge[p].read.tries + 1 < Tries
      <4> DEFINE read == [bridge[p].read EXCEPT !.tries = @ + 1]
                 mine == [bridge[p] EXCEPT !.pc = "sample", !.read = read]
      <4>1. read \in ReadType
        BY <2>1, <3>2, ControlAssumption DEF IInv, TypeOK, ReadType
      <4>2. mine \in BridgeType
        <5> HIDE DEF read
        <5> QED BY <2>1, <4>1 DEF BridgeType
      <4>3. bridge' = [bridge EXCEPT ![p] = mine]
        BY <2>1, <2>0, <3>2 DEF BridgeType, SampleSettings, RetrySettings
      <4> HIDE DEF mine
      <4> QED BY <4>2, <4>3 DEF IInv, TypeOK
    <3>3. CASE ~(settings.seq % 2 # 1) /\ ~(bridge[p].read.tries + 1 < Tries)
      <4> DEFINE mine == [bridge[p] EXCEPT !.pc = "consume"]
      <4>2. mine \in BridgeType
        BY <2>1 DEF BridgeType
      <4>3. bridge' = [bridge EXCEPT ![p] = mine]
        BY <2>1, <2>0, <3>3 DEF BridgeType, SampleSettings, RetrySettings
      <4> HIDE DEF mine
      <4> QED BY <4>2, <4>3 DEF IInv, TypeOK
    <3> QED BY <3>1, <3>2, <3>3
  <2> QED BY <2>2 DEF IInv, TypeOK, SampleSettings
<1>2. ReaderInv'
  <2>1. \/ /\ settings.seq % 2 = 0 /\ bridge'[p].pc = "head"
           /\ bridge'[p].read = [bridge[p].read EXCEPT !.seq = settings.seq]
        \/ /\ bridge'[p].pc = "sample"
           /\ bridge'[p].read = [bridge[p].read EXCEPT !.tries = @ + 1]
        \/ bridge'[p].pc = "consume" /\ bridge'[p].read = bridge[p].read
    BY DEF IInv, TypeOK, BridgeType, SampleSettings, RetrySettings
  <2>2. UNCHANGED settings /\ bridge[p].pc = "sample"
        /\ \A q \in Pids \ {p} : bridge'[q] = bridge[q]
    BY DEF IInv, TypeOK, SampleSettings, RetrySettings
  <2>3. bridge[p].read \in ReadType /\ settings.seq \in Nat
    BY DEF IInv, TypeOK, BridgeType
  <2> QED BY <2>1, <2>2, <2>3 DEF IInv, ReadType, ReaderInv
<1>3. SettingsWhole'
  BY DEF IInv, TypeOK, BridgeType, ReadType, WriterInv, ReaderInv, SettingsWhole,
         SampleSettings, RetrySettings
<1>4. /\ UNCHANGED <<settings, table, ctl>> /\ bridge'[p].pc # "slotHead"
      /\ \A q \in Pids \ {p} : bridge'[q] = bridge[q]
  BY DEF IInv, TypeOK, BridgeType, SampleSettings, RetrySettings
<1> QED BY <1>1, <1>2, <1>3, <1>4, ReadingKeeps

\* It copies the first half of the settings.
LEMMA CopyHeadKeeps ==
  ASSUME IInv, NEW p \in Pids, CopyHead(p)
  PROVE  IInv'
<1>1. TypeOK'
  <2> DEFINE read == [bridge[p].read EXCEPT !.head = settings.head]
             mine == [bridge[p] EXCEPT !.pc = "tail", !.read = read]
  <2>1. bridge[p] \in BridgeType /\ bridge[p].read \in ReadType
    BY DEF IInv, TypeOK, BridgeType
  <2>2. read \in ReadType
    BY <2>1 DEF IInv, TypeOK, ReadType
  <2>3. mine \in BridgeType
    <3> HIDE DEF read
    <3> QED BY <2>1, <2>2 DEF BridgeType
  <2>4. bridge' = [bridge EXCEPT ![p] = mine]
    BY DEF IInv, TypeOK, BridgeType, CopyHead
  <2> HIDE DEF mine
  <2>5. bridge' \in [Pids -> BridgeType]
    BY <2>3, <2>4 DEF IInv, TypeOK
  <2> QED BY <2>5 DEF IInv, TypeOK, CopyHead
<1>2. ReaderInv'
  BY DEF IInv, TypeOK, BridgeType, ReadType, WriterInv, ReaderInv, CopyHead
<1>3. SettingsWhole'
  BY DEF IInv, TypeOK, BridgeType, ReadType, WriterInv, ReaderInv, SettingsWhole, CopyHead
<1>4. /\ UNCHANGED <<settings, table, ctl>> /\ bridge'[p].pc # "slotHead"
      /\ \A q \in Pids \ {p} : bridge'[q] = bridge[q]
  BY DEF IInv, TypeOK, CopyHead
<1> QED BY <1>1, <1>2, <1>3, <1>4, ReadingKeeps

\* It copies the second half of the settings.
LEMMA CopyTailKeeps ==
  ASSUME IInv, NEW p \in Pids, CopyTail(p)
  PROVE  IInv'
<1>1. TypeOK'
  <2> DEFINE read == [bridge[p].read EXCEPT !.tail = settings.tail]
             mine == [bridge[p] EXCEPT !.pc = "compare", !.read = read]
  <2>1. bridge[p] \in BridgeType /\ bridge[p].read \in ReadType
    BY DEF IInv, TypeOK, BridgeType
  <2>2. read \in ReadType
    BY <2>1 DEF IInv, TypeOK, ReadType
  <2>3. mine \in BridgeType
    <3> HIDE DEF read
    <3> QED BY <2>1, <2>2 DEF BridgeType
  <2>4. bridge' = [bridge EXCEPT ![p] = mine]
    BY DEF IInv, TypeOK, BridgeType, CopyTail
  <2> HIDE DEF mine
  <2>5. bridge' \in [Pids -> BridgeType]
    BY <2>3, <2>4 DEF IInv, TypeOK
  <2> QED BY <2>5 DEF IInv, TypeOK, CopyTail
<1>2. ReaderInv'
  BY DEF IInv, TypeOK, BridgeType, ReadType, WriterInv, ReaderInv, CopyTail
<1>3. SettingsWhole'
  BY DEF IInv, TypeOK, BridgeType, ReadType, WriterInv, ReaderInv, SettingsWhole, CopyTail
<1>4. /\ UNCHANGED <<settings, table, ctl>> /\ bridge'[p].pc # "slotHead"
      /\ \A q \in Pids \ {p} : bridge'[q] = bridge[q]
  BY DEF IInv, TypeOK, CopyTail
<1> QED BY <1>1, <1>2, <1>3, <1>4, ReadingKeeps

\* It compares the numbers.
LEMMA CompareSettingsKeeps ==
  ASSUME IInv, NEW p \in Pids, CompareSettings(p)
  PROVE  IInv'
<1>1. TypeOK'
  <2>0. bridge \in [Pids -> BridgeType]
    BY DEF IInv, TypeOK
  <2>1. bridge[p] \in BridgeType /\ bridge[p].read \in ReadType
    BY DEF IInv, TypeOK, BridgeType
  <2>2. bridge' \in [Pids -> BridgeType]
    <3>1. CASE settings.seq = bridge[p].read.seq
      <4> DEFINE read == [bridge[p].read EXCEPT !.accepted = TRUE]
                 mine == [bridge[p] EXCEPT !.pc = "consume", !.read = read]
      <4>1. read \in ReadType
        BY <2>1, <3>1, ControlAssumption DEF IInv, TypeOK, ReadType
      <4>2. mine \in BridgeType
        <5> HIDE DEF read
        <5> QED BY <2>1, <4>1 DEF BridgeType
      <4>3. bridge' = [bridge EXCEPT ![p] = mine]
        BY <2>1, <2>0, <3>1 DEF BridgeType, CompareSettings
      <4> HIDE DEF mine
      <4> QED BY <4>2, <4>3 DEF IInv, TypeOK
    <3>2. CASE ~(settings.seq = bridge[p].read.seq) /\ bridge[p].read.tries + 1 < Tries
      <4> DEFINE read == [bridge[p].read EXCEPT !.tries = @ + 1]
                 mine == [bridge[p] EXCEPT !.pc = "sample", !.read = read]
      <4>1. read \in ReadType
        BY <2>1, <3>2, ControlAssumption DEF IInv, TypeOK, ReadType
      <4>2. mine \in BridgeType
        <5> HIDE DEF read
        <5> QED BY <2>1, <4>1 DEF BridgeType
      <4>3. bridge' = [bridge EXCEPT ![p] = mine]
        BY <2>1, <2>0, <3>2 DEF BridgeType, CompareSettings, RetrySettings
      <4> HIDE DEF mine
      <4> QED BY <4>2, <4>3 DEF IInv, TypeOK
    <3>3. CASE ~(settings.seq = bridge[p].read.seq) /\ ~(bridge[p].read.tries + 1 < Tries)
      <4> DEFINE mine == [bridge[p] EXCEPT !.pc = "consume"]
      <4>2. mine \in BridgeType
        BY <2>1 DEF BridgeType
      <4>3. bridge' = [bridge EXCEPT ![p] = mine]
        BY <2>1, <2>0, <3>3 DEF BridgeType, CompareSettings, RetrySettings
      <4> HIDE DEF mine
      <4> QED BY <4>2, <4>3 DEF IInv, TypeOK
    <3> QED BY <3>1, <3>2, <3>3
  <2> QED BY <2>2 DEF IInv, TypeOK, CompareSettings
<1>2. ReaderInv'
  BY DEF IInv, TypeOK, BridgeType, ReadType, WriterInv, ReaderInv,
         CompareSettings, RetrySettings
<1>3. SettingsWhole'
  BY DEF IInv, TypeOK, BridgeType, ReadType, WriterInv, ReaderInv, SettingsWhole,
         CompareSettings, RetrySettings
<1>4. /\ UNCHANGED <<settings, table, ctl>> /\ bridge'[p].pc # "slotHead"
      /\ \A q \in Pids \ {p} : bridge'[q] = bridge[q]
  BY DEF IInv, TypeOK, BridgeType, CompareSettings, RetrySettings
<1> QED BY <1>1, <1>2, <1>3, <1>4, ReadingKeeps

\* Processing is disabled.
LEMMA BypassKeeps ==
  ASSUME IInv, NEW p \in Pids, Bypass(p)
  PROVE  IInv'
<1>1. TypeOK'
  <2> DEFINE status == [bridge[p].status EXCEPT !.tick = now]
             mine == [bridge[p] EXCEPT !.pc = "bump", !.read = NoRead, !.status = status,
                                      !.skipped = TRUE]
  <2>1. bridge[p] \in BridgeType /\ bridge[p].status \in StatusType /\ now \in Nat
    BY DEF IInv, TypeOK, BridgeType
  <2>2. status \in StatusType
    BY <2>1 DEF StatusType
  <2>3. NoRead \in ReadType
    BY NothingIsTyped
  <2>4. mine \in BridgeType
    <3> HIDE DEF status
    <3> QED BY <2>1, <2>2, <2>3 DEF BridgeType
  <2>5. bridge' = [bridge EXCEPT ![p] = mine]
    BY DEF IInv, TypeOK, BridgeType, Bypass
  <2> HIDE DEF mine
  <2>6. bridge' \in [Pids -> BridgeType]
    BY <2>4, <2>5 DEF IInv, TypeOK
  <2> QED BY <2>6 DEF IInv, TypeOK, Bypass
<1>2. /\ UNCHANGED <<settings, ctl>> /\ bridge'[p].read \in {bridge[p].read, NoRead}
      /\ bridge'[p].pc \notin {"sample", "head", "tail", "compare", "consume"}
      /\ \A q \in Pids \ {p} : bridge'[q] = bridge[q]
  BY DEF IInv, TypeOK, Bypass
<1>3. TargetInv'
  BY DEF IInv, TypeOK, BridgeType, TargetInv, Bypass
<1>4. OneSlotPerPid'
  BY DEF IInv, OneSlotPerPid, Bypass
<1> QED BY <1>1, <1>2, <1>3, <1>4, PublishingKeeps

\* The reset generation is consumed.
LEMMA ConsumeKeeps ==
  ASSUME IInv, NEW p \in Pids, Consume(p)
  PROVE  IInv'
<1>1. TypeOK'
  <2> DEFINE mine == [bridge[p] EXCEPT !.pc = "elected", !.cleared = @ \/ p \in reset]
  <2>1. bridge[p] \in BridgeType
    BY DEF IInv, TypeOK
  <2>2. mine \in BridgeType
    BY <2>1 DEF BridgeType
  <2>3. bridge' = [bridge EXCEPT ![p] = mine]
    BY DEF IInv, TypeOK, BridgeType, Consume
  <2> HIDE DEF mine
  <2>4. bridge' \in [Pids -> BridgeType]
    BY <2>2, <2>3 DEF IInv, TypeOK
  <2>5. reset' \subseteq Pids
    BY DEF IInv, TypeOK, Consume
  <2> QED BY <2>4, <2>5 DEF IInv, TypeOK, Consume
<1>2. /\ UNCHANGED <<settings, ctl>> /\ bridge'[p].read \in {bridge[p].read, NoRead}
      /\ bridge'[p].pc \notin {"sample", "head", "tail", "compare", "consume"}
      /\ \A q \in Pids \ {p} : bridge'[q] = bridge[q]
  BY DEF IInv, TypeOK, Consume
<1>3. TargetInv'
  BY DEF IInv, TypeOK, BridgeType, TargetInv, Consume
<1>4. OneSlotPerPid'
  BY DEF IInv, OneSlotPerPid, Consume
<1> QED BY <1>1, <1>2, <1>3, <1>4, PublishingKeeps

\* Another process is elected.
LEMMA SuppressedKeeps ==
  ASSUME IInv, NEW p \in Pids, Suppressed(p)
  PROVE  IInv'
<1>1. TypeOK'
  <2> DEFINE status == [bridge[p].status EXCEPT !.tick = now]
             mine == [bridge[p] EXCEPT !.pc = "bump", !.read = NoRead, !.status = status,
                                      !.skipped = TRUE]
  <2>1. bridge[p] \in BridgeType /\ bridge[p].status \in StatusType /\ now \in Nat
    BY DEF IInv, TypeOK, BridgeType
  <2>2. status \in StatusType
    BY <2>1 DEF StatusType
  <2>3. NoRead \in ReadType
    BY NothingIsTyped
  <2>4. mine \in BridgeType
    <3> HIDE DEF status
    <3> QED BY <2>1, <2>2, <2>3 DEF BridgeType
  <2>5. bridge' = [bridge EXCEPT ![p] = mine]
    BY DEF IInv, TypeOK, BridgeType, Suppressed
  <2> HIDE DEF mine
  <2>6. bridge' \in [Pids -> BridgeType]
    BY <2>4, <2>5 DEF IInv, TypeOK
  <2> QED BY <2>6 DEF IInv, TypeOK, Suppressed
<1>2. /\ UNCHANGED <<settings, ctl>> /\ bridge'[p].read \in {bridge[p].read, NoRead}
      /\ bridge'[p].pc \notin {"sample", "head", "tail", "compare", "consume"}
      /\ \A q \in Pids \ {p} : bridge'[q] = bridge[q]
  BY DEF IInv, TypeOK, Suppressed
<1>3. TargetInv'
  BY DEF IInv, TypeOK, BridgeType, TargetInv, Suppressed
<1>4. OneSlotPerPid'
  BY DEF IInv, OneSlotPerPid, Suppressed
<1> QED BY <1>1, <1>2, <1>3, <1>4, PublishingKeeps

\* The frame is evaluated.
LEMMA EvaluateKeeps ==
  ASSUME IInv, NEW p \in Pids, Evaluate(p)
  PROVE  IInv'
<1>1. TypeOK'
  <2> DEFINE status == [bridge[p].status EXCEPT !.tick = now, !.neural = TRUE]
             mine == [bridge[p] EXCEPT !.pc = "bump", !.read = NoRead, !.status = status,
                                      !.skipped = FALSE, !.cleared = FALSE]
  <2>1. bridge[p] \in BridgeType /\ bridge[p].status \in StatusType /\ now \in Nat
    BY DEF IInv, TypeOK, BridgeType
  <2>2. status \in StatusType
    BY <2>1 DEF StatusType
  <2>3. NoRead \in ReadType
    BY NothingIsTyped
  <2>4. mine \in BridgeType
    <3> HIDE DEF status
    <3> QED BY <2>1, <2>2, <2>3 DEF BridgeType
  <2>5. bridge' = [bridge EXCEPT ![p] = mine]
    BY DEF IInv, TypeOK, BridgeType, Evaluate
  <2> HIDE DEF mine
  <2>6. bridge' \in [Pids -> BridgeType]
    BY <2>4, <2>5 DEF IInv, TypeOK
  <2> QED BY <2>6 DEF IInv, TypeOK, Evaluate
<1>2. /\ UNCHANGED <<settings, ctl>> /\ bridge'[p].read \in {bridge[p].read, NoRead}
      /\ bridge'[p].pc \notin {"sample", "head", "tail", "compare", "consume"}
      /\ \A q \in Pids \ {p} : bridge'[q] = bridge[q]
  BY DEF IInv, TypeOK, Evaluate
<1>3. TargetInv'
  BY DEF IInv, TypeOK, BridgeType, TargetInv, Evaluate
<1>4. OneSlotPerPid'
  BY DEF IInv, OneSlotPerPid, Evaluate
<1> QED BY <1>1, <1>2, <1>3, <1>4, PublishingKeeps

\* The table's number is bumped.
LEMMA BumpStatusesKeeps ==
  ASSUME IInv, NEW p \in Pids, BumpStatuses(p)
  PROVE  IInv'
<1>1. TypeOK'
  <2> DEFINE mine == [bridge[p] EXCEPT !.pc = "scan"]
  <2>1. bridge[p] \in BridgeType
    BY DEF IInv, TypeOK
  <2>2. mine \in BridgeType
    BY <2>1 DEF BridgeType
  <2>3. bridge' = [bridge EXCEPT ![p] = mine]
    BY DEF IInv, TypeOK, BridgeType, BumpStatuses
  <2> HIDE DEF mine
  <2>4. bridge' \in [Pids -> BridgeType]
    BY <2>2, <2>3 DEF IInv, TypeOK
  <2>5. table' \in [seq : Nat, slot : TableType]
    BY DEF IInv, TypeOK, BumpStatuses
  <2>6. overlap' \in BOOLEAN
    BY DEF IInv, TypeOK, BumpStatuses
  <2> QED BY <2>4, <2>5, <2>6 DEF IInv, TypeOK, BumpStatuses
<1>2. /\ UNCHANGED <<settings, ctl>> /\ bridge'[p].read \in {bridge[p].read, NoRead}
      /\ bridge'[p].pc \notin {"sample", "head", "tail", "compare", "consume"}
      /\ \A q \in Pids \ {p} : bridge'[q] = bridge[q]
  BY DEF IInv, TypeOK, BumpStatuses
<1>3. TargetInv'
  BY DEF IInv, TypeOK, BridgeType, TargetInv, BumpStatuses
<1>4. OneSlotPerPid'
  BY DEF IInv, TypeOK, OneSlotPerPid, BumpStatuses
<1> QED BY <1>1, <1>2, <1>3, <1>4, PublishingKeeps

\* A slot is chosen: the process's own if it has one.
LEMMA ScanSlotsKeeps ==
  ASSUME IInv, NEW p \in Pids, ScanSlots(p)
  PROVE  IInv'
<1>1. TypeOK'
  <2> DEFINE status == [bridge[p].status EXCEPT !.slot = ChosenSlot(p)]
             mine == [bridge[p] EXCEPT !.pc = "slotHead", !.status = status]
  <2>1. bridge[p] \in BridgeType /\ bridge[p].status \in StatusType
    BY DEF IInv, TypeOK, BridgeType
  <2>2. ChosenSlot(p) \in SlotNumbers
    BY ChosenSlotIsOwn DEF IInv
  <2>3. status \in StatusType
    BY <2>1, <2>2 DEF StatusType
  <2>4. mine \in BridgeType
    <3> HIDE DEF status
    <3> QED BY <2>1, <2>3 DEF BridgeType
  <2>5. bridge' = [bridge EXCEPT ![p] = mine]
    BY DEF IInv, TypeOK, BridgeType, ScanSlots
  <2> HIDE DEF mine
  <2>6. bridge' \in [Pids -> BridgeType]
    BY <2>4, <2>5 DEF IInv, TypeOK
  <2> QED BY <2>6 DEF IInv, TypeOK, ScanSlots
<1>2. /\ UNCHANGED <<settings, ctl>> /\ bridge'[p].read \in {bridge[p].read, NoRead}
      /\ bridge'[p].pc \notin {"sample", "head", "tail", "compare", "consume"}
      /\ \A q \in Pids \ {p} : bridge'[q] = bridge[q]
  BY DEF IInv, TypeOK, ScanSlots
<1>3. TargetInv'
  <2>1. \A i \in SlotNumbers : table.slot[i].head.pid = p => i = ChosenSlot(p)
    BY ChosenSlotIsOwn DEF IInv
  <2> QED BY <2>1 DEF IInv, TypeOK, StatusType, TargetInv, ScanSlots
<1>4. OneSlotPerPid'
  BY DEF IInv, OneSlotPerPid, ScanSlots
<1> QED BY <1>1, <1>2, <1>3, <1>4, PublishingKeeps

\* The first half of the slot is written.
LEMMA WriteSlotHeadKeeps ==
  ASSUME IInv, NEW p \in Pids, WriteSlotHead(p)
  PROVE  IInv'
<1>1. TypeOK'
  <2> DEFINE target == bridge[p].status.slot
             slot == [table.slot[target] EXCEPT !.head =
               [pid |-> p, frame |-> bridge[p].frame, neural |-> bridge[p].status.neural]]
             slots == [table.slot EXCEPT ![target] = slot]
             mine == [bridge[p] EXCEPT !.pc = "slotTail"]
  <2>1. bridge[p] \in BridgeType /\ target \in SlotNumbers /\ table.slot \in TableType
    BY DEF IInv, TypeOK, BridgeType, StatusType
  <2>2. slot \in SlotType
    BY <2>1 DEF BridgeType, StatusType, TableType, SlotType, SomePid
  <2>3. slots \in TableType
    <3> HIDE DEF target, slot
    <3> QED BY <2>1, <2>2 DEF TableType
  <2>4. table' = [table EXCEPT !.slot = slots]
    BY DEF IInv, TypeOK, WriteSlotHead
  <2>5. table' \in [seq : Nat, slot : TableType]
    <3> HIDE DEF slots
    <3> QED BY <2>3, <2>4 DEF IInv, TypeOK
  <2>6. mine \in BridgeType
    BY <2>1 DEF BridgeType
  <2>7. bridge' = [bridge EXCEPT ![p] = mine]
    BY DEF IInv, TypeOK, BridgeType, WriteSlotHead
  <2> HIDE DEF mine, slots
  <2>8. bridge' \in [Pids -> BridgeType]
    BY <2>6, <2>7 DEF IInv, TypeOK
  <2> QED BY <2>5, <2>8 DEF IInv, TypeOK, WriteSlotHead
<1>2. /\ UNCHANGED <<settings, ctl>> /\ bridge'[p].read \in {bridge[p].read, NoRead}
      /\ bridge'[p].pc \notin {"sample", "head", "tail", "compare", "consume"}
      /\ \A q \in Pids \ {p} : bridge'[q] = bridge[q]
  BY DEF IInv, TypeOK, WriteSlotHead
<1>3. TargetInv'
  BY DEF IInv, TypeOK, BridgeType, StatusType, TableType, SlotType, TargetInv, WriteSlotHead
<1>4. OneSlotPerPid'
  BY DEF IInv, TypeOK, BridgeType, StatusType, TableType, SlotType, TargetInv,
         OneSlotPerPid, WriteSlotHead
<1> QED BY <1>1, <1>2, <1>3, <1>4, PublishingKeeps

\* The second half of the slot is written.
LEMMA WriteSlotTailKeeps ==
  ASSUME IInv, NEW p \in Pids, WriteSlotTail(p)
  PROVE  IInv'
<1>1. TypeOK'
  <2> DEFINE target == bridge[p].status.slot
             slot == [table.slot[target] EXCEPT !.tail =
               [pid |-> p, frame |-> bridge[p].frame, tick |-> bridge[p].status.tick]]
             slots == [table.slot EXCEPT ![target] = slot]
             mine == [bridge[p] EXCEPT !.pc = "release"]
  <2>1. bridge[p] \in BridgeType /\ target \in SlotNumbers /\ table.slot \in TableType
    BY DEF IInv, TypeOK, BridgeType, StatusType
  <2>2. slot \in SlotType
    BY <2>1 DEF BridgeType, StatusType, TableType, SlotType, SomePid
  <2>3. slots \in TableType
    <3> HIDE DEF target, slot
    <3> QED BY <2>1, <2>2 DEF TableType
  <2>4. table' = [table EXCEPT !.slot = slots]
    BY DEF IInv, TypeOK, WriteSlotTail
  <2>5. table' \in [seq : Nat, slot : TableType]
    <3> HIDE DEF slots
    <3> QED BY <2>3, <2>4 DEF IInv, TypeOK
  <2>6. mine \in BridgeType
    BY <2>1 DEF BridgeType
  <2>7. bridge' = [bridge EXCEPT ![p] = mine]
    BY DEF IInv, TypeOK, BridgeType, WriteSlotTail
  <2> HIDE DEF mine, slots
  <2>8. bridge' \in [Pids -> BridgeType]
    BY <2>6, <2>7 DEF IInv, TypeOK
  <2> QED BY <2>5, <2>8 DEF IInv, TypeOK, WriteSlotTail
<1>2. /\ UNCHANGED <<settings, ctl>> /\ bridge'[p].read \in {bridge[p].read, NoRead}
      /\ bridge'[p].pc \notin {"sample", "head", "tail", "compare", "consume"}
      /\ \A q \in Pids \ {p} : bridge'[q] = bridge[q]
  BY DEF IInv, TypeOK, WriteSlotTail
<1>3. TargetInv'
  BY DEF IInv, TypeOK, BridgeType, StatusType, TableType, SlotType, TargetInv, WriteSlotTail
<1>4. OneSlotPerPid'
  BY DEF IInv, TypeOK, BridgeType, StatusType, TableType, SlotType, TargetInv,
         OneSlotPerPid, WriteSlotTail
<1> QED BY <1>1, <1>2, <1>3, <1>4, PublishingKeeps

\* The table's number is bumped again.
LEMMA ReleaseStatusesKeeps ==
  ASSUME IInv, NEW p \in Pids, ReleaseStatuses(p)
  PROVE  IInv'
<1>1. TypeOK'
  <2> DEFINE mine == [bridge[p] EXCEPT !.pc = "game", !.status = NoStatus]
  <2>1. bridge[p] \in BridgeType
    BY DEF IInv, TypeOK
  <2>2. NoStatus \in StatusType
    BY NothingIsTyped
  <2>3. mine \in BridgeType
    BY <2>1, <2>2 DEF BridgeType
  <2>4. bridge' = [bridge EXCEPT ![p] = mine]
    BY DEF IInv, TypeOK, BridgeType, ReleaseStatuses
  <2> HIDE DEF mine
  <2>5. bridge' \in [Pids -> BridgeType]
    BY <2>3, <2>4 DEF IInv, TypeOK
  <2>6. table' \in [seq : Nat, slot : TableType]
    BY DEF IInv, TypeOK, ReleaseStatuses
  <2> QED BY <2>5, <2>6 DEF IInv, TypeOK, ReleaseStatuses
<1>2. /\ UNCHANGED <<settings, ctl>> /\ bridge'[p].read \in {bridge[p].read, NoRead}
      /\ bridge'[p].pc \notin {"sample", "head", "tail", "compare", "consume"}
      /\ \A q \in Pids \ {p} : bridge'[q] = bridge[q]
  BY DEF IInv, TypeOK, ReleaseStatuses
<1>3. TargetInv'
  BY DEF IInv, TypeOK, BridgeType, TargetInv, ReleaseStatuses
<1>4. OneSlotPerPid'
  BY DEF IInv, TypeOK, OneSlotPerPid, ReleaseStatuses
<1> QED BY <1>1, <1>2, <1>3, <1>4, PublishingKeeps

\* A game is killed.
LEMMA KillKeeps ==
  ASSUME IInv, NEW p \in Pids, Kill(p)
  PROVE  IInv'
<1>1. TypeOK'
  <2> DEFINE mine == [bridge[p] EXCEPT !.pc = "dead"]
  <2>1. bridge[p] \in BridgeType
    BY DEF IInv, TypeOK
  <2>2. mine \in BridgeType
    BY <2>1 DEF BridgeType
  <2>3. bridge' = [bridge EXCEPT ![p] = mine]
    BY DEF IInv, TypeOK, BridgeType, Kill
  <2> HIDE DEF mine
  <2>4. bridge' \in [Pids -> BridgeType]
    BY <2>2, <2>3 DEF IInv, TypeOK
  <2>5. budget' \in BudgetType
    BY DEF IInv, TypeOK, BudgetType, Kill
  <2>6. overlap' \in BOOLEAN
    BY DEF IInv, TypeOK, Kill
  <2> QED BY <2>4, <2>5, <2>6 DEF IInv, TypeOK, Kill
<1>2. /\ UNCHANGED <<settings, ctl>> /\ bridge'[p].read \in {bridge[p].read, NoRead}
      /\ bridge'[p].pc \notin {"sample", "head", "tail", "compare", "consume"}
      /\ \A q \in Pids \ {p} : bridge'[q] = bridge[q]
  BY DEF IInv, TypeOK, Kill
<1>3. TargetInv'
  BY DEF IInv, TypeOK, BridgeType, TargetInv, Kill
<1>4. OneSlotPerPid'
  BY DEF IInv, OneSlotPerPid, Kill
<1> QED BY <1>1, <1>2, <1>3, <1>4, PublishingKeeps

-----------------------------------------------------------------------------
LEMMA InitEstablishes == Init => IInv
<1> SUFFICES ASSUME Init PROVE IInv
  OBVIOUS
<1>1. TypeOK
  <2>1. NoStatuses \in TableType /\ 0 \in SomePid
    BY DEF NoStatuses, TableType, EmptySlot, SlotType, SomePid
  <2>2. settings \in [seq : Nat, head : Nat, tail : Nat] /\ now \in Nat \ {0}
    BY DEF Init
  <2>3. ctl \in CtlType /\ bridge \in [Pids -> BridgeType]
    BY <2>1, NothingIsTyped DEF Init, CtlType, BridgeType
  <2> QED BY <2>1, <2>2, <2>3, ControlAssumption DEF Init, TypeOK
<1>2. WriterInv /\ ReaderInv /\ SettingsWhole
  BY DEF Init, WriterInv, ReaderInv, SettingsWhole, NoRead
<1>3. TargetInv /\ OneSlotPerPid
  BY DEF Init, TargetInv, OneSlotPerPid, NoStatuses, EmptySlot
<1> QED BY <1>1, <1>2, <1>3 DEF IInv

LEMMA NextKeeps == IInv /\ [Next]_vars => IInv'
<1> SUFFICES ASSUME IInv, [Next]_vars PROVE IInv'
  OBVIOUS
<1>1. CASE UNCHANGED vars
  BY <1>1 DEF IInv, TypeOK, WriterInv, ReaderInv, SettingsWhole, TargetInv, OneSlotPerPid
<1>2. CASE ControllerNext
  BY <1>2, ChooseKeeps, BumpSettingsKeeps, WriteHeadKeeps, WriteTailKeeps,
     ReleaseSettingsKeeps, RequestResetKeeps, PollKeeps, SampleStatusesKeeps,
     CopySlotHeadKeeps, CopySlotTailKeeps, CompareStatusesKeeps, ElectKeeps
     DEF ControllerNext
<1>3. ASSUME NEW p \in Pids, BridgeNext(p) PROVE IInv'
  BY <1>3, PresentKeeps, SampleSettingsKeeps, CopyHeadKeeps, CopyTailKeeps,
     CompareSettingsKeeps, BypassKeeps, ConsumeKeeps, SuppressedKeeps, EvaluateKeeps,
     BumpStatusesKeeps, ScanSlotsKeeps, WriteSlotHeadKeeps, WriteSlotTailKeeps,
     ReleaseStatusesKeeps, KillKeeps
     DEF BridgeNext
<1>4. CASE Tick
  BY <1>4, TickKeeps
<1> QED BY <1>1, <1>2, <1>3, <1>4 DEF Next

-----------------------------------------------------------------------------
(* The status table is a sequence lock too, with as many writers as there  *)
(* are games: its invariant holds until two of them overlap.               *)

\* A status is whole when both halves are of the same publication.
Whole(slot) == slot.head.pid = slot.tail.pid /\ slot.head.frame = slot.tail.frame
IsOf(half, p, frame) == half.pid = p /\ half.frame = frame

\* Without overlap there is one writer, the number is odd exactly while it writes, and
\* every slot but the one it is in the middle of is whole.
OneWriter ==
  \A p, q \in Pids : bridge[p].pc \in StatusWriting /\ bridge[q].pc \in StatusWriting => p = q
OddWhileWriting == table.seq % 2 = 1 <=> \E p \in Pids : bridge[p].pc \in StatusWriting
SlotsWhole ==
  \A i \in SlotNumbers :
    \/ Whole(table.slot[i])
    \/ \E p \in Pids : bridge[p].pc = "slotTail" /\ bridge[p].status.slot = i
TableInv == ~overlap => OneWriter /\ OddWhileWriting /\ SlotsWhole

\* The poll's side of the lock: until the number moves, what it copied is what was there
\* when it sampled, and that was whole.
Copied ==
  /\ ctl.poll.floor = table.slot
  /\ \A i \in SlotNumbers : i < ctl.poll.next => ctl.poll.copy[i] = table.slot[i]
  /\ ctl.pc = "slotTail" => ctl.poll.copy[ctl.poll.next].head = table.slot[ctl.poll.next].head
  /\ ctl.pc = "compare" => ctl.poll.copy = table.slot
PollInv ==
  /\ ctl.poll.accepted => ctl.pc = "elect"
  /\ ctl.pc \in {"slotHead", "slotTail", "compare"} =>
       /\ ctl.poll.seq % 2 = 0 /\ ctl.poll.seq <= table.seq
       /\ ~overlap /\ ctl.poll.seq = table.seq => Copied

\* A process on its way through writeStatus has written so much of its status, and with
\* a slot for everybody it chose its own or an empty one.
Roomy == Cardinality(Pids) <= Slots
Written(p) ==
  LET slot == table.slot[bridge[p].status.slot]
      frame == bridge[p].frame
  IN
  /\ bridge[p].pc = "slotHead" /\ Roomy => slot.head.pid \in {0, p}
  /\ bridge[p].pc = "slotTail" => IsOf(slot.head, p, frame)
  /\ bridge[p].pc = "release" => IsOf(slot.head, p, frame) /\ IsOf(slot.tail, p, frame)
PublishInv == ~overlap => \A p \in Pids : Written(p)

TInv == TableInv /\ PollInv /\ TablesWhole /\ PublishInv /\ StatusesKept

\* What the table's invariant needs to know of types.
LEMMA TableTypes ==
  ASSUME TypeOK
  PROVE  /\ table.seq \in Nat /\ table.slot \in TableType /\ overlap \in BOOLEAN
         /\ ctl.poll.seq \in Nat /\ ctl.poll.next \in SlotNumbers
         /\ ctl.poll.copy \in TableType
         /\ table = [seq |-> table.seq, slot |-> table.slot]
         /\ bridge \in [Pids -> BridgeType]
         /\ \A p \in Pids : bridge[p].status.slot \in SlotNumbers /\ bridge[p].frame \in Nat
<1>1. ctl.poll.seq \in Nat /\ ctl.poll.next \in SlotNumbers /\ ctl.poll.copy \in TableType
  BY DEF TypeOK, CtlType, PollType
<1>2. ASSUME NEW p \in Pids
      PROVE  bridge[p].status.slot \in SlotNumbers /\ bridge[p].frame \in Nat
  BY DEF TypeOK, BridgeType, StatusType
<1> QED BY <1>1, <1>2 DEF TypeOK

\* What a process has written stays while neither it nor the slots change.
LEMMA WrittenStays ==
  ASSUME NEW q \in Pids, Written(q), bridge'[q] = bridge[q], table'.slot = table.slot
  PROVE  Written(q)'
BY DEF Written, IsOf, Roomy

\* A step of the controller leaves the table's side of the invariant alone.
LEMMA OnlyTheController ==
  ASSUME TInv, UNCHANGED <<table, bridge, overlap>>
  PROVE  TableInv' /\ PublishInv' /\ StatusesKept'
<1>1. TableInv'
  BY DEF TInv, TableInv, OneWriter, OddWhileWriting, SlotsWhole
<1>2. PublishInv'
  BY WrittenStays DEF TInv, PublishInv
<1>3. StatusesKept'
  BY DEF TInv, StatusesKept
<1> QED BY <1>1, <1>2, <1>3

\* A step of the controller that neither reads the table nor leaves a poll behind.
LEMMA NotPolling ==
  ASSUME TInv, UNCHANGED <<table, bridge, overlap>>, ~ctl'.poll.accepted,
         ctl'.pc \notin {"slotHead", "slotTail", "compare"}
  PROVE  TInv'
<1>1. PollInv' /\ TablesWhole'
  BY DEF PollInv, TablesWhole
<1> QED BY <1>1, OnlyTheController DEF TInv

\* A step of a poll.
LEMMA Polling ==
  ASSUME TInv, UNCHANGED <<table, bridge, overlap>>, PollInv', TablesWhole'
  PROVE  TInv'
BY OnlyTheController DEF TInv

\* A step of a bridge outside writeStatus, which does not return to the game either.
LEMMA NotPublishing ==
  ASSUME TInv, NEW p \in Pids, UNCHANGED <<table, ctl, overlap>>,
         \A q \in Pids \ {p} : bridge'[q] = bridge[q],
         bridge[p].pc \notin StatusWriting,
         bridge'[p].pc \notin StatusWriting \cup {"game"}
  PROVE  TInv'
<1>1. \A q \in Pids : bridge[q].pc \in StatusWriting <=> bridge'[q].pc \in StatusWriting
  OBVIOUS
<1>2. \A q \in Pids : bridge'[q].pc \in StatusWriting \cup {"game"} => bridge'[q] = bridge[q]
  OBVIOUS
<1>3. TableInv'
  <2>1. OneWriter' <=> OneWriter
    BY <1>1 DEF OneWriter
  <2>2. OddWhileWriting' <=> OddWhileWriting
    BY <1>1 DEF OddWhileWriting
  <2>3. SlotsWhole => SlotsWhole'
    BY DEF SlotsWhole
  <2> QED BY <2>1, <2>2, <2>3 DEF TInv, TableInv
<1>4. PollInv' /\ TablesWhole'
  BY DEF TInv, PollInv, Copied, TablesWhole
<1>5. PublishInv'
  <2> SUFFICES ASSUME ~overlap, NEW q \in Pids PROVE Written(q)'
    BY DEF PublishInv
  <2>1. CASE bridge'[q].pc \in StatusWriting
    <3>1. bridge'[q] = bridge[q]
      BY <1>2, <2>1
    <3>2. Written(q)
      BY DEF TInv, PublishInv
    <3> QED BY <3>1, <3>2, WrittenStays
  <2>2. CASE bridge'[q].pc \notin StatusWriting
    BY <2>2 DEF Written
  <2> QED BY <2>1, <2>2
<1>6. StatusesKept'
  BY <1>2 DEF TInv, StatusesKept
<1> QED BY <1>3, <1>4, <1>5, <1>6 DEF TInv

\* A writer's step: the number is odd or moves, so that no copy is taken for the table.
LEMMA WriterMovesOn ==
  ASSUME TInv, TypeOK, UNCHANGED ctl, overlap => overlap',
         \/ table'.seq = table.seq + 1
         \/ table'.seq = table.seq /\ (overlap' \/ table.seq % 2 = 1)
  PROVE  PollInv' /\ TablesWhole'
<1>1. TablesWhole'
  BY DEF TInv, TablesWhole
<1>2. table.seq \in Nat /\ ctl.poll.seq \in Nat
  BY TableTypes
<1>3. ASSUME ctl.pc \in {"slotHead", "slotTail", "compare"}
      PROVE  /\ ctl.poll.seq % 2 = 0 /\ ctl.poll.seq <= table'.seq
             /\ overlap' \/ ctl.poll.seq # table'.seq
  <2>1. ctl.poll.seq % 2 = 0 /\ ctl.poll.seq <= table.seq
    BY <1>3 DEF TInv, PollInv
  <2> QED BY <1>2, <2>1
<1> QED BY <1>1, <1>3 DEF TInv, PollInv

\* A writer that does not overlap with another is alone, and the number is odd.
LEMMA WriterIsAlone ==
  ASSUME TInv, ~overlap, NEW p \in Pids, bridge[p].pc \in StatusWriting
  PROVE  /\ table.seq % 2 = 1
         /\ \A q \in Pids \ {p} : bridge[q].pc \notin StatusWriting
         /\ \A i \in SlotNumbers : \/ Whole(table.slot[i])
                                   \/ bridge[p].pc = "slotTail" /\ i = bridge[p].status.slot
BY DEF TInv, TableInv, OneWriter, OddWhileWriting, SlotsWhole

\* An attempt that failed leaves nothing accepted.
LEMMA RetryLeavesNothing ==
  ASSUME TypeOK, ~ctl.poll.accepted, RetryStatuses
  PROVE  ~ctl'.poll.accepted /\ ctl'.pc \in {"sample", "elect"}
<1>1. ctl \in CtlType /\ ctl.poll \in PollType
  BY DEF TypeOK, CtlType
<1>2. CASE ctl.poll.tries + 1 < Tries
  <2>1. ctl' = [ctl EXCEPT !.pc = "sample", !.poll = [ctl.poll EXCEPT !.tries = @ + 1]]
    BY <1>1, <1>2 DEF RetryStatuses, CtlType
  <2>2. [ctl.poll EXCEPT !.tries = @ + 1].accepted = ctl.poll.accepted
    BY <1>1 DEF PollType
  <2>3. ctl'.pc = "sample" /\ ctl'.poll = [ctl.poll EXCEPT !.tries = @ + 1]
    BY <1>1, <2>1, Zenon DEF CtlType
  <2> QED BY <2>2, <2>3
<1>3. CASE ~(ctl.poll.tries + 1 < Tries)
  <2>1. ctl' = [ctl EXCEPT !.pc = "elect", !.poll = NoPoll]
    BY <1>3 DEF RetryStatuses
  <2>2. ctl'.pc = "elect" /\ ctl'.poll = NoPoll
    BY <1>1, <2>1 DEF CtlType
  <2> QED BY <2>2 DEF NoPoll
<1> QED BY <1>2, <1>3

\* The poll samples the number and the table.
LEMMA SampleStatusesTable ==
  ASSUME IInv, TInv, SampleStatuses
  PROVE  TInv'
<1>1. TypeOK /\ TypeOK'
  BY SampleStatusesKeeps DEF IInv
<1>2. CASE table.seq % 2 = 1
  <2>1. RetryStatuses /\ ~ctl.poll.accepted
    BY <1>2 DEF SampleStatuses, TInv, PollInv
  <2>2. ~ctl'.poll.accepted /\ ctl'.pc \in {"sample", "elect"}
    BY <1>1, <2>1, RetryLeavesNothing
  <2> QED BY <2>2, NotPolling DEF SampleStatuses
<1>3. CASE table.seq % 2 # 1
  <2>1. /\ ctl'.pc = "slotHead" /\ ctl'.poll.seq = table.seq /\ ctl'.poll.next = 1
        /\ ctl'.poll.floor = table.slot /\ ctl'.poll.accepted = ctl.poll.accepted
    <3> DEFINE poll == [ctl.poll EXCEPT !.seq = table.seq, !.next = 1, !.floor = table.slot]
    <3>1. ctl \in CtlType /\ ctl.poll \in PollType
      BY <1>1 DEF TypeOK, CtlType
    <3>2. ctl' = [ctl EXCEPT !.pc = "slotHead", !.poll = poll]
      BY <1>3 DEF SampleStatuses
    <3>3. /\ poll.seq = table.seq /\ poll.next = 1 /\ poll.floor = table.slot
          /\ poll.accepted = ctl.poll.accepted
      BY <3>1 DEF PollType
    <3> HIDE DEF poll
    <3>4. ctl'.pc = "slotHead" /\ ctl'.poll = poll
      BY <3>1, <3>2 DEF CtlType
    <3> QED BY <3>3, <3>4
  <2>2. ~ctl.poll.accepted
    BY DEF SampleStatuses, TInv, PollInv
  <2>3. UNCHANGED <<table, bridge, overlap>>
    BY DEF SampleStatuses
  <2>4. table.seq \in Nat /\ table.seq % 2 = 0
    <3>1. table.seq \in Nat
      BY <1>1, TableTypes
    <3> QED BY <3>1, <1>3
  <2>5. Copied'
    <3>1. \A i \in SlotNumbers : ~(i < 1)
      BY DEF SlotNumbers
    <3> QED BY <2>1, <2>3, <3>1 DEF Copied
  <2>6. PollInv' /\ TablesWhole'
    BY <2>1, <2>2, <2>3, <2>4, <2>5 DEF PollInv, TablesWhole
  <2> QED BY <2>3, <2>6, Polling
<1> QED BY <1>2, <1>3

\* The poll copies the first half of a slot.
LEMMA CopySlotHeadTable ==
  ASSUME IInv, TInv, CopySlotHead
  PROVE  TInv'
<1>1. TypeOK /\ UNCHANGED <<table, bridge, overlap>>
  BY DEF IInv, CopySlotHead
<1>2. ctl.poll.next \in SlotNumbers /\ ctl.poll.copy \in TableType
  BY <1>1, TableTypes
<1>3. /\ ctl.pc = "slotHead" /\ ctl'.pc = "slotTail" /\ ctl'.poll.next = ctl.poll.next
      /\ ctl'.poll.seq = ctl.poll.seq /\ ctl'.poll.accepted = ctl.poll.accepted
      /\ ctl'.poll.floor = ctl.poll.floor
      /\ ctl'.poll.copy = [ctl.poll.copy EXCEPT ![ctl.poll.next].head =
                             table.slot[ctl.poll.next].head]
  BY <1>1 DEF CopySlotHead, TypeOK, CtlType, PollType
<1>4. /\ \A i \in SlotNumbers : i < ctl.poll.next => ctl'.poll.copy[i] = ctl.poll.copy[i]
      /\ ctl'.poll.copy[ctl.poll.next].head = table.slot[ctl.poll.next].head
  <2> DEFINE n == ctl.poll.next
             half == table.slot[n].head
  <2>1. n \in SlotNumbers /\ n \in Nat /\ ctl.poll.copy[n] \in SlotType
    <3>1. n \in SlotNumbers /\ ctl.poll.copy[n] \in SlotType
      BY <1>2 DEF TableType
    <3> HIDE DEF n
    <3> QED BY <3>1 DEF SlotNumbers
  <2>2. ctl'.poll.copy = [ctl.poll.copy EXCEPT ![n] = [ctl.poll.copy[n] EXCEPT !.head = half]]
    BY <1>3
  <2>3. [ctl.poll.copy[n] EXCEPT !.head = half].head = half
    BY <2>1 DEF SlotType
  <2> HIDE DEF n, half
  <2>4. \A i \in SlotNumbers : i # n => ctl'.poll.copy[i] = ctl.poll.copy[i]
    BY <1>2, <2>2 DEF TableType
  <2>5. ctl'.poll.copy[n].head = half
    BY <1>2, <2>1, <2>2, <2>3 DEF TableType
  <2>6. \A i \in SlotNumbers : i < n => i # n
    BY <2>1
  <2> QED BY <2>4, <2>5, <2>6 DEF n, half
<1>5. Copied => Copied'
  BY <1>1, <1>3, <1>4 DEF Copied
<1>6. PollInv'
  BY <1>1, <1>3, <1>5 DEF TInv, PollInv
<1>7. TablesWhole'
  BY <1>3 DEF TablesWhole
<1> QED BY <1>1, <1>6, <1>7, Polling

\* The poll copies the second half, and goes on to the next slot.
LEMMA CopySlotTailTable ==
  ASSUME IInv, TInv, CopySlotTail
  PROVE  TInv'
<1>1. TypeOK /\ UNCHANGED <<table, bridge, overlap>>
  BY DEF IInv, CopySlotTail
<1> DEFINE n == ctl.poll.next
<1>2. n \in SlotNumbers /\ ctl.poll.copy \in TableType /\ table.slot \in TableType
  BY <1>1, TableTypes
<1>3. /\ ctl.pc = "slotTail" /\ ctl'.pc = IF n < Slots THEN "slotHead" ELSE "compare"
      /\ ctl'.poll.next = IF n < Slots THEN n + 1 ELSE n
      /\ ctl'.poll.seq = ctl.poll.seq /\ ctl'.poll.accepted = ctl.poll.accepted
      /\ ctl'.poll.floor = ctl.poll.floor
      /\ ctl'.poll.copy = [ctl.poll.copy EXCEPT ![n].tail = table.slot[n].tail]
  BY <1>1 DEF CopySlotTail, TypeOK, CtlType, PollType
<1>4. ASSUME ctl.poll.copy[n].head = table.slot[n].head
      PROVE  ctl'.poll.copy[n] = table.slot[n]
  <2>1. ctl'.poll.copy[n] = [ctl.poll.copy[n] EXCEPT !.tail = table.slot[n].tail]
    BY <1>2, <1>3 DEF TableType
  <2>2. ctl.poll.copy[n] \in SlotType /\ table.slot[n] \in SlotType
    BY <1>2 DEF TableType
  <2> HIDE DEF n
  <2> QED BY <1>4, <2>1, <2>2 DEF SlotType
<1>5. \A i \in SlotNumbers : i # n => ctl'.poll.copy[i] = ctl.poll.copy[i]
  BY <1>2, <1>3 DEF TableType
<1>6. n \in 1..Slots /\ Slots \in Nat
  BY <1>2, ControlAssumption DEF SlotNumbers
<1> HIDE DEF n
<1>7. Copied => Copied'
  <2> SUFFICES ASSUME Copied PROVE Copied'
    OBVIOUS
  <2>1. ctl.poll.copy[n].head = table.slot[n].head
    BY <1>3 DEF Copied, n
  <2>2. ASSUME NEW i \in SlotNumbers, i < n \/ i = n PROVE ctl'.poll.copy[i] = table.slot[i]
    <3>1. CASE i = n
      BY <3>1, <2>1, <1>4
    <3>2. CASE i # n
      BY <3>2, <2>2, <1>5 DEF Copied, n
    <3> QED BY <3>1, <3>2
  <2>3. ASSUME NEW i \in SlotNumbers, i < ctl'.poll.next PROVE ctl'.poll.copy[i] = table.slot[i]
    <3>1. i \in Nat
      BY DEF SlotNumbers
    <3>2. i < n \/ i = n
      BY <1>3, <1>6, <2>3, <3>1
    <3> QED BY <2>2, <3>2
  <2>4. ASSUME ctl'.pc = "compare" PROVE ctl'.poll.copy = table.slot
    <3>1. n = Slots
      BY <2>4, <1>3, <1>6
    <3>2. ASSUME NEW i \in SlotNumbers PROVE ctl'.poll.copy[i] = table.slot[i]
      <4>1. i < n \/ i = n
        BY <3>1, ControlAssumption DEF SlotNumbers
      <4> QED BY <4>1, <2>2
    <3> QED BY <3>2, <1>2, <1>3 DEF TableType
  <2>5. ctl'.poll.floor = table.slot /\ ctl'.pc # "slotTail"
    BY <1>3 DEF Copied
  <2> QED BY <1>1, <2>3, <2>4, <2>5 DEF Copied
<1>8. PollInv'
  BY <1>1, <1>3, <1>7 DEF TInv, PollInv
<1>9. TablesWhole'
  BY <1>3 DEF TablesWhole
<1> QED BY <1>1, <1>8, <1>9, Polling

\* The poll accepts what it copied if the number is the sampled one: then there was no
\* writer, and every slot is whole.
LEMMA CompareStatusesTable ==
  ASSUME IInv, TInv, CompareStatuses
  PROVE  TInv'
<1>1. TypeOK /\ UNCHANGED <<table, bridge, overlap>>
  BY DEF IInv, CompareStatuses
<1>2. CASE table.seq # ctl.poll.seq
  <2>1. RetryStatuses /\ ~ctl.poll.accepted
    BY <1>2 DEF CompareStatuses, TInv, PollInv
  <2>2. ~ctl'.poll.accepted /\ ctl'.pc \in {"sample", "elect"}
    BY <1>1, <2>1, RetryLeavesNothing
  <2> QED BY <1>1, <2>2, NotPolling
<1>3. CASE table.seq = ctl.poll.seq
  <2>1. ctl'.pc = "elect" /\ ctl'.poll.copy = ctl.poll.copy /\ ctl'.poll.floor = ctl.poll.floor
    <3> DEFINE poll == [ctl.poll EXCEPT !.accepted = TRUE]
    <3>1. ctl \in CtlType /\ ctl.poll \in PollType
      BY <1>1 DEF TypeOK, CtlType
    <3>2. ctl' = [ctl EXCEPT !.pc = "elect", !.poll = poll]
      BY <1>3, <3>1 DEF CompareStatuses, CtlType
    <3>3. poll.copy = ctl.poll.copy /\ poll.floor = ctl.poll.floor
      BY <3>1 DEF PollType
    <3> HIDE DEF poll
    <3>4. ctl'.pc = "elect" /\ ctl'.poll = poll
      BY <3>1, <3>2 DEF CtlType
    <3> QED BY <3>3, <3>4
  <2>2. PollInv'
    BY <2>1 DEF PollInv
  <2>3. ASSUME ~overlap
        PROVE  /\ ctl.poll.copy = ctl.poll.floor
               /\ \A i \in SlotNumbers : Whole(ctl.poll.copy[i])
    <3>1. Copied /\ table.seq % 2 = 0
      BY <1>3, <2>3 DEF CompareStatuses, TInv, PollInv
    <3>2. table.seq \in Nat
      BY <1>1, TableTypes
    <3>3. \A p \in Pids : bridge[p].pc \notin StatusWriting
      BY <2>3, <3>1, <3>2 DEF TInv, TableInv, OddWhileWriting
    <3>4. \A i \in SlotNumbers : Whole(table.slot[i])
      BY <2>3, <3>3 DEF TInv, TableInv, SlotsWhole
    <3> QED BY <3>1, <3>4 DEF Copied, CompareStatuses
  <2>4. TablesWhole'
    BY <1>1, <2>1, <2>3 DEF TablesWhole, Whole
  <2> QED BY <1>1, <2>2, <2>4, Polling
<1> QED BY <1>2, <1>3

\* The steps of the controller that are not of a poll, and its end.
LEMMA ControllerTable ==
  ASSUME IInv, TInv, ControllerNext
  PROVE  TInv'
<1>1. TypeOK
  BY DEF IInv
<1>2. ASSUME \/ \E when \in {"before", "after", "never"} : Choose(when)
             \/ BumpSettings \/ WriteHead \/ WriteTail \/ ReleaseSettings
             \/ requestHistoryReset \/ Poll
      PROVE  TInv'
  <2>1. /\ ctl.pc # "elect" /\ ctl'.poll = ctl.poll
        /\ ctl'.pc \in {"bump", "head", "tail", "release", "request", "idle", "sample"}
        /\ UNCHANGED <<table, bridge, overlap>>
    BY <1>1, <1>2 DEF TypeOK, CtlType, Choose, BumpSettings, WriteHead, WriteTail,
       ReleaseSettings, requestHistoryReset, Poll
  <2>2. ~ctl'.poll.accepted
    BY <2>1 DEF TInv, PollInv
  <2> QED BY <2>1, <2>2, NotPolling
<1>3. ASSUME Elect PROVE TInv'
  <2>1. UNCHANGED <<table, bridge, overlap>> /\ ctl'.pc \in {"request", "idle"}
    BY <1>1, <1>3 DEF TypeOK, CtlType, Elect
  <2>2. ctl'.poll = NoPoll
    BY <1>1, <1>3 DEF TypeOK, CtlType, Elect
  <2>3. ~ctl'.poll.accepted
    BY <2>2 DEF NoPoll
  <2> QED BY <2>1, <2>3, NotPolling
<1> QED BY <1>2, <1>3, SampleStatusesTable, CopySlotHeadTable, CopySlotTailTable,
           CompareStatusesTable DEF ControllerNext

\* What a bridge does outside writeStatus.
LEMMA ReadingTable ==
  ASSUME IInv, TInv, NEW p \in Pids,
         \/ Present(p) \/ SampleSettings(p) \/ CopyHead(p) \/ CopyTail(p)
         \/ CompareSettings(p) \/ Bypass(p) \/ Consume(p) \/ Suppressed(p) \/ Evaluate(p)
  PROVE  TInv'
<1>1. bridge \in [Pids -> BridgeType]
  BY DEF IInv, TypeOK
<1>2. UNCHANGED <<table, ctl, overlap>>
  BY DEF Present, SampleSettings, CopyHead, CopyTail, CompareSettings, Bypass, Consume,
         Suppressed, Evaluate
<1>3. \A q \in Pids \ {p} : bridge'[q] = bridge[q]
  BY <1>1 DEF Present, SampleSettings, CopyHead, CopyTail, CompareSettings, RetrySettings,
         Bypass, Consume, Suppressed, Evaluate
<1>4. bridge[p].pc \notin StatusWriting
  BY DEF Present, SampleSettings, CopyHead, CopyTail, CompareSettings, Bypass, Consume,
         Suppressed, Evaluate
<1>5. bridge'[p].pc \notin StatusWriting \cup {"game"}
  BY <1>1 DEF BridgeType, Present, SampleSettings, CopyHead, CopyTail, CompareSettings,
         RetrySettings, Bypass, Consume, Suppressed, Evaluate
<1> QED BY <1>2, <1>3, <1>4, <1>5, NotPublishing

\* A writer begins: if it is alone the number becomes odd.
LEMMA BumpStatusesTable ==
  ASSUME IInv, TInv, NEW p \in Pids, BumpStatuses(p)
  PROVE  TInv'
<1>1. /\ TypeOK /\ table.seq \in Nat /\ bridge \in [Pids -> BridgeType]
      /\ overlap \in BOOLEAN /\ overlap' \in BOOLEAN
  BY TableTypes, BumpStatusesKeeps DEF IInv, TypeOK
<1>2. /\ UNCHANGED ctl /\ (overlap => overlap')
      /\ table'.seq = table.seq + 1 /\ table'.slot = table.slot
      /\ bridge[p].pc = "bump" /\ bridge'[p].pc = "scan"
      /\ \A q \in Pids \ {p} : bridge'[q] = bridge[q]
  BY <1>1 DEF BumpStatuses, TypeOK, BridgeType
<1>3. PollInv' /\ TablesWhole'
  BY <1>1, <1>2, WriterMovesOn
<1>4. ASSUME ~overlap' PROVE \A q \in Pids \ {p} : bridge'[q].pc \notin StatusWriting
  BY <1>2, <1>4 DEF BumpStatuses
<1>5. TableInv'
  <2> SUFFICES ASSUME ~overlap' PROVE OneWriter' /\ OddWhileWriting' /\ SlotsWhole'
    BY DEF TableInv
  <2>1. OneWriter'
    BY <1>4 DEF OneWriter
  <2>2. OddWhileWriting'
    <3>1. \A q \in Pids : bridge[q].pc \notin StatusWriting
      BY <1>2, <1>4
    <3>2. table.seq % 2 # 1
      BY <1>2, <3>1 DEF TInv, TableInv, OddWhileWriting
    <3>3. table'.seq % 2 = 1
      BY <1>1, <1>2, <3>2
    <3> QED BY <1>2, <3>3 DEF OddWhileWriting
  <2>3. SlotsWhole'
    BY <1>2 DEF TInv, TableInv, SlotsWhole
  <2> QED BY <2>1, <2>2, <2>3
<1>6. PublishInv'
  <2> SUFFICES ASSUME ~overlap', NEW q \in Pids PROVE Written(q)'
    BY DEF PublishInv
  <2>1. CASE q = p
    BY <1>2, <2>1 DEF Written
  <2>2. CASE q # p
    <3>1. Written(q)
      BY <1>2 DEF TInv, PublishInv
    <3> QED BY <1>2, <2>2, <3>1, WrittenStays
  <2> QED BY <2>1, <2>2
<1>7. StatusesKept'
  BY <1>2 DEF TInv, StatusesKept
<1> QED BY <1>3, <1>5, <1>6, <1>7 DEF TInv

\* With a slot for everybody, a process without one finds an empty slot: otherwise the
\* others would have one each.
LEMMA SomeSlotIsFree ==
  ASSUME TypeOK, OneSlotPerPid, Roomy, NEW p \in Pids
  PROVE  \E i \in SlotNumbers : table.slot[i].head.pid \in {0, p}
<1> SUFFICES ASSUME \A i \in SlotNumbers : table.slot[i].head.pid \notin {0, p} PROVE FALSE
  OBVIOUS
<1> DEFINE others == Pids \ {p}
           owner == [i \in SlotNumbers |-> table.slot[i].head.pid]
<1>1. IsFiniteSet(Pids) /\ Slots \in Nat \ {0}
  BY ControlAssumption
<1>2. \A i \in SlotNumbers : table.slot[i].head.pid \in SomePid
  BY DEF TypeOK, TableType, SlotType
<1>3. owner \in [SlotNumbers -> others]
  BY <1>2 DEF SomePid
<1>4. \A i, j \in SlotNumbers : owner[i] = owner[j] => i = j
  BY DEF OneSlotPerPid
<1>5. IsFiniteSet(others) /\ Cardinality(others) = Cardinality(Pids) - 1
  BY <1>1, FS_RemoveElement
<1>6. IsFiniteSet(SlotNumbers) /\ Cardinality(SlotNumbers) = Slots
  <2>1. Cardinality(1..Slots) = IF 1 > Slots THEN 0 ELSE Slots - 1 + 1
    BY <1>1, FS_Interval
  <2> QED BY <1>1, <2>1, FS_Interval DEF SlotNumbers
<1>7. Cardinality(Pids) \in Nat
  BY <1>1, FS_CardinalityType
<1>8. Cardinality(others) < Cardinality(SlotNumbers)
  BY <1>1, <1>5, <1>6, <1>7 DEF Roomy
<1> HIDE DEF others, owner
<1>9. \E i, j \in SlotNumbers : i # j /\ owner[i] = owner[j]
  BY <1>3, <1>5, <1>6, <1>8, FS_PigeonHole
<1> QED BY <1>4, <1>9

\* The scan finds the process's own slot, or an empty one if there is room.
LEMMA ScanSlotsTable ==
  ASSUME IInv, TInv, NEW p \in Pids, ScanSlots(p)
  PROVE  TInv'
<1>1. /\ TypeOK /\ OneSlotPerPid /\ bridge \in [Pids -> BridgeType]
      /\ ChosenSlot(p) \in SlotNumbers
  BY ChosenSlotIsOwn DEF IInv, TypeOK
<1>2. /\ UNCHANGED <<table, ctl, overlap>>
      /\ bridge[p].pc = "scan" /\ bridge'[p].pc = "slotHead"
      /\ bridge'[p].status.slot = ChosenSlot(p)
      /\ \A q \in Pids \ {p} : bridge'[q] = bridge[q]
  BY <1>1 DEF ScanSlots, BridgeType, StatusType
<1>3. ASSUME Roomy PROVE table.slot[ChosenSlot(p)].head.pid \in {0, p}
  <2> DEFINE own    == {i \in SlotNumbers : table.slot[i].head.pid = p}
             empty  == {i \in SlotNumbers : table.slot[i].head.pid = 0}
             oldest == {i \in SlotNumbers : \A j \in SlotNumbers :
                          table.slot[i].tail.tick <= table.slot[j].tail.tick}
  <2>1. own # {} \/ empty # {}
    <3>1. PICK i \in SlotNumbers : table.slot[i].head.pid \in {0, p}
      BY <1>1, <1>3, SomeSlotIsFree
    <3> QED BY <3>1
  <2>2. own \in SUBSET SlotNumbers /\ empty \in SUBSET SlotNumbers
    OBVIOUS
  <2>3. ChosenSlot(p) = FirstOf(IF own # {} THEN own ELSE IF empty # {} THEN empty ELSE oldest)
    BY DEF ChosenSlot
  <2>4. ChosenSlot(p) \in own \cup empty
    <3> HIDE DEF own, empty, oldest
    <3> QED BY <2>1, <2>2, <2>3, FirstOfIsMember
  <2> QED BY <2>4
<1>4. PollInv' /\ TablesWhole'
  BY <1>2 DEF TInv, PollInv, Copied, TablesWhole
<1>5. TableInv'
  <2>1. \A q \in Pids : bridge'[q].pc \in StatusWriting <=> bridge[q].pc \in StatusWriting
    BY <1>2
  <2>2. OneWriter => OneWriter'
    BY <2>1 DEF OneWriter
  <2>3. OddWhileWriting => OddWhileWriting'
    BY <1>2, <2>1 DEF OddWhileWriting
  <2>4. SlotsWhole => SlotsWhole'
    BY <1>2 DEF SlotsWhole
  <2> QED BY <1>2, <2>2, <2>3, <2>4 DEF TInv, TableInv
<1>6. PublishInv'
  <2> SUFFICES ASSUME ~overlap, NEW q \in Pids PROVE Written(q)'
    BY <1>2 DEF PublishInv
  <2>1. CASE q = p
    BY <1>2, <1>3, <2>1 DEF Written, Roomy
  <2>2. CASE q # p
    <3>1. Written(q)
      BY <1>2 DEF TInv, PublishInv
    <3> QED BY <1>2, <2>2, <3>1, WrittenStays
  <2> QED BY <2>1, <2>2
<1>7. StatusesKept'
  BY <1>2 DEF TInv, StatusesKept
<1> QED BY <1>4, <1>5, <1>6, <1>7 DEF TInv

\* The first half of a slot is written: unless there are more processes than slots, over
\* the process's own status or nobody's.
LEMMA WriteSlotHeadTable ==
  ASSUME IInv, TInv, NEW p \in Pids, WriteSlotHead(p)
  PROVE  TInv'
<1> DEFINE s == bridge[p].status.slot
           half == [pid |-> p, frame |-> bridge[p].frame, neural |-> bridge[p].status.neural]
<1>1. /\ TypeOK /\ table.seq \in Nat /\ table.slot \in TableType /\ s \in SlotNumbers
      /\ bridge \in [Pids -> BridgeType] /\ p # 0
  BY TableTypes, ControlAssumption DEF IInv
<1>2. /\ UNCHANGED <<ctl, overlap>> /\ table'.seq = table.seq
      /\ bridge[p].pc = "slotHead" /\ bridge'[p].pc = "slotTail"
      /\ bridge'[p].status = bridge[p].status /\ bridge'[p].frame = bridge[p].frame
      /\ \A q \in Pids \ {p} : bridge'[q] = bridge[q]
  BY <1>1 DEF WriteSlotHead, TypeOK, BridgeType
<1>3. table'.slot[s].head = half /\ \A i \in SlotNumbers \ {s} : table'.slot[i] = table.slot[i]
  <2>1. table'.slot = [table.slot EXCEPT ![s] = [table.slot[s] EXCEPT !.head = half]]
    BY <1>1 DEF WriteSlotHead, TypeOK
  <2>2. [table.slot[s] EXCEPT !.head = half].head = half
    BY <1>1 DEF TableType, SlotType
  <2> HIDE DEF s, half
  <2> QED BY <1>1, <2>1, <2>2 DEF TableType
<1>4. IsOf(half, p, bridge[p].frame)
  BY DEF IsOf
<1> HIDE DEF half
<1>5. PollInv' /\ TablesWhole'
  <2>1. overlap' \/ table.seq % 2 = 1
    BY <1>2, WriterIsAlone
  <2> QED BY <1>1, <1>2, <2>1, WriterMovesOn
<1>6. TableInv'
  <2>1. \A q \in Pids : bridge'[q].pc \in StatusWriting <=> bridge[q].pc \in StatusWriting
    BY <1>2
  <2>2. OneWriter => OneWriter'
    BY <2>1 DEF OneWriter
  <2>3. OddWhileWriting => OddWhileWriting'
    BY <1>2, <2>1 DEF OddWhileWriting
  <2>4. ASSUME ~overlap PROVE SlotsWhole'
    <3>1. \A i \in SlotNumbers : Whole(table.slot[i])
      BY <1>2, <2>4, WriterIsAlone
    <3>2. ASSUME NEW i \in SlotNumbers, i # s PROVE Whole(table'.slot[i])
      BY <1>3, <3>1, <3>2
    <3>3. bridge'[p].pc = "slotTail" /\ bridge'[p].status.slot = s
      BY <1>2
    <3> QED BY <3>2, <3>3 DEF SlotsWhole
  <2> QED BY <1>2, <2>2, <2>3, <2>4 DEF TInv, TableInv
<1>7. ASSUME ~overlap, NEW q \in Pids \ {p} PROVE bridge'[q].pc \notin StatusWriting
  BY <1>2, <1>7, WriterIsAlone
<1>8. PublishInv'
  <2> SUFFICES ASSUME ~overlap, NEW q \in Pids PROVE Written(q)'
    BY <1>2 DEF PublishInv
  <2>1. CASE q = p
    BY <1>2, <1>3, <1>4, <2>1 DEF Written
  <2>2. CASE q # p
    BY <1>7, <2>2 DEF Written
  <2> QED BY <2>1, <2>2
<1>9. StatusesKept'
  <2> SUFFICES ASSUME ~overlap, Roomy, NEW q \in Pids, bridge'[q].pc = "game", bridge'[q].frame > 0
               PROVE  \E i \in SlotNumbers : /\ IsOf(table'.slot[i].head, q, bridge'[q].frame)
                                             /\ IsOf(table'.slot[i].tail, q, bridge'[q].frame)
    BY <1>2 DEF StatusesKept, Roomy, IsOf
  <2>1. q # p /\ bridge'[q] = bridge[q]
    BY <1>2
  <2>2. PICK i \in SlotNumbers : /\ IsOf(table.slot[i].head, q, bridge[q].frame)
                                 /\ IsOf(table.slot[i].tail, q, bridge[q].frame)
    BY <2>1 DEF TInv, StatusesKept, Roomy, IsOf
  <2>3. table.slot[s].head.pid \in {0, p}
    BY <1>2 DEF TInv, PublishInv, Written
  <2>4. i # s
    BY <2>1, <2>2, <2>3, ControlAssumption DEF IsOf
  <2> QED BY <1>3, <2>1, <2>2, <2>4
<1> QED BY <1>5, <1>6, <1>8, <1>9 DEF TInv

\* The second half is written, which makes the slot whole.
LEMMA WriteSlotTailTable ==
  ASSUME IInv, TInv, NEW p \in Pids, WriteSlotTail(p)
  PROVE  TInv'
<1> DEFINE s == bridge[p].status.slot
           half == [pid |-> p, frame |-> bridge[p].frame, tick |-> bridge[p].status.tick]
<1>1. /\ TypeOK /\ table.seq \in Nat /\ table.slot \in TableType /\ s \in SlotNumbers
      /\ bridge \in [Pids -> BridgeType]
  BY TableTypes DEF IInv
<1>2. /\ UNCHANGED <<ctl, overlap>> /\ table'.seq = table.seq
      /\ bridge[p].pc = "slotTail" /\ bridge'[p].pc = "release"
      /\ bridge'[p].status = bridge[p].status /\ bridge'[p].frame = bridge[p].frame
      /\ \A q \in Pids \ {p} : bridge'[q] = bridge[q]
  BY <1>1 DEF WriteSlotTail, TypeOK, BridgeType
<1>3. /\ table'.slot[s].tail = half /\ table'.slot[s].head = table.slot[s].head
      /\ \A i \in SlotNumbers \ {s} : table'.slot[i] = table.slot[i]
  <2> DEFINE slot == [table.slot[s] EXCEPT !.tail = half]
  <2>1. table'.slot = [table.slot EXCEPT ![s] = slot]
    BY <1>1 DEF WriteSlotTail, TypeOK
  <2>2. slot.tail = half /\ slot.head = table.slot[s].head
    BY <1>1 DEF TableType, SlotType
  <2> HIDE DEF s, half, slot
  <2> QED BY <1>1, <2>1, <2>2 DEF TableType
<1>4. IsOf(half, p, bridge[p].frame)
  BY DEF IsOf
<1> HIDE DEF half
<1>5. PollInv' /\ TablesWhole'
  <2>1. overlap' \/ table.seq % 2 = 1
    BY <1>2, WriterIsAlone
  <2> QED BY <1>1, <1>2, <2>1, WriterMovesOn
<1>6. ASSUME ~overlap PROVE IsOf(table.slot[s].head, p, bridge[p].frame)
  BY <1>2, <1>6 DEF TInv, PublishInv, Written
<1>7. TableInv'
  <2>1. \A q \in Pids : bridge'[q].pc \in StatusWriting <=> bridge[q].pc \in StatusWriting
    BY <1>2
  <2>2. OneWriter => OneWriter'
    BY <2>1 DEF OneWriter
  <2>3. OddWhileWriting => OddWhileWriting'
    BY <1>2, <2>1 DEF OddWhileWriting
  <2>4. ASSUME ~overlap PROVE SlotsWhole'
    <3>1. \A i \in SlotNumbers : Whole(table.slot[i]) \/ i = s
      BY <1>2, <2>4, WriterIsAlone
    <3>2. Whole(table'.slot[s])
      BY <1>3, <1>4, <1>6, <2>4 DEF Whole, IsOf
    <3>3. ASSUME NEW i \in SlotNumbers, i # s PROVE Whole(table'.slot[i])
      BY <1>3, <3>1, <3>3
    <3> HIDE DEF s
    <3> QED BY <3>2, <3>3 DEF SlotsWhole
  <2> QED BY <1>2, <2>2, <2>3, <2>4 DEF TInv, TableInv
<1>8. ASSUME ~overlap, NEW q \in Pids \ {p} PROVE bridge'[q].pc \notin StatusWriting
  BY <1>2, <1>8, WriterIsAlone
<1>9. PublishInv'
  <2> SUFFICES ASSUME ~overlap, NEW q \in Pids PROVE Written(q)'
    BY <1>2 DEF PublishInv
  <2>1. CASE q = p
    BY <1>2, <1>3, <1>4, <1>6, <2>1 DEF Written
  <2>2. CASE q # p
    BY <1>8, <2>2 DEF Written
  <2> QED BY <2>1, <2>2
<1>10. StatusesKept'
  <2> SUFFICES ASSUME ~overlap, Roomy, NEW q \in Pids, bridge'[q].pc = "game", bridge'[q].frame > 0
               PROVE  \E i \in SlotNumbers : /\ IsOf(table'.slot[i].head, q, bridge'[q].frame)
                                             /\ IsOf(table'.slot[i].tail, q, bridge'[q].frame)
    BY <1>2 DEF StatusesKept, Roomy, IsOf
  <2>1. q # p /\ bridge'[q] = bridge[q]
    BY <1>2
  <2>2. PICK i \in SlotNumbers : /\ IsOf(table.slot[i].head, q, bridge[q].frame)
                                 /\ IsOf(table.slot[i].tail, q, bridge[q].frame)
    BY <2>1 DEF TInv, StatusesKept, Roomy, IsOf
  <2>3. i # s
    BY <1>6, <2>1, <2>2 DEF IsOf
  <2> QED BY <1>3, <2>1, <2>2, <2>3
<1> QED BY <1>5, <1>7, <1>9, <1>10 DEF TInv

\* The writer is done: its status stands, and the number is even again.
LEMMA ReleaseStatusesTable ==
  ASSUME IInv, TInv, NEW p \in Pids, ReleaseStatuses(p)
  PROVE  TInv'
<1>1. /\ TypeOK /\ table.seq \in Nat /\ bridge \in [Pids -> BridgeType]
      /\ bridge[p].status.slot \in SlotNumbers
  BY TableTypes DEF IInv
<1>2. /\ UNCHANGED <<ctl, overlap>> /\ table'.seq = table.seq + 1 /\ table'.slot = table.slot
      /\ bridge[p].pc = "release" /\ bridge'[p].pc = "game" /\ bridge'[p].frame = bridge[p].frame
      /\ \A q \in Pids \ {p} : bridge'[q] = bridge[q]
  BY <1>1 DEF ReleaseStatuses, TypeOK, BridgeType
<1>3. PollInv' /\ TablesWhole'
  BY <1>1, <1>2, WriterMovesOn
<1>4. ASSUME ~overlap, NEW q \in Pids PROVE bridge'[q].pc \notin StatusWriting
  BY <1>2, <1>4, WriterIsAlone
<1>5. TableInv'
  <2> SUFFICES ASSUME ~overlap PROVE OneWriter' /\ OddWhileWriting' /\ SlotsWhole'
    BY <1>2 DEF TableInv
  <2>1. OneWriter'
    BY <1>4 DEF OneWriter
  <2>2. OddWhileWriting'
    <3>1. table.seq % 2 = 1
      BY <1>2, WriterIsAlone
    <3>2. table'.seq % 2 # 1
      BY <1>1, <1>2, <3>1
    <3> QED BY <1>4, <3>2 DEF OddWhileWriting
  <2>3. SlotsWhole'
    <3>1. \A i \in SlotNumbers : Whole(table.slot[i])
      BY <1>2, WriterIsAlone
    <3> QED BY <1>2, <3>1 DEF SlotsWhole
  <2> QED BY <2>1, <2>2, <2>3
<1>6. PublishInv'
  BY <1>2, <1>4 DEF PublishInv, Written
<1>7. StatusesKept'
  <2> SUFFICES ASSUME ~overlap, Roomy, NEW q \in Pids, bridge'[q].pc = "game", bridge'[q].frame > 0
               PROVE  \E i \in SlotNumbers : /\ IsOf(table.slot[i].head, q, bridge'[q].frame)
                                             /\ IsOf(table.slot[i].tail, q, bridge'[q].frame)
    BY <1>2 DEF StatusesKept, Roomy, IsOf
  <2>1. CASE q = p
    BY <1>1, <1>2, <2>1 DEF TInv, PublishInv, Written
  <2>2. CASE q # p
    BY <1>2, <2>2 DEF TInv, StatusesKept, Roomy, IsOf
  <2> QED BY <2>1, <2>2
<1> QED BY <1>3, <1>5, <1>6, <1>7 DEF TInv

\* A game killed outside writeStatus leaves the table as it was; inside, it overlaps.
LEMMA KillTable ==
  ASSUME IInv, TInv, NEW p \in Pids, Kill(p)
  PROVE  TInv'
<1>1. TypeOK /\ bridge \in [Pids -> BridgeType]
  BY DEF IInv, TypeOK
<1>2. /\ UNCHANGED <<table, ctl>> /\ (overlap => overlap')
      /\ overlap' = (overlap \/ bridge[p].pc \in StatusWriting)
      /\ bridge'[p].pc = "dead" /\ \A q \in Pids \ {p} : bridge'[q] = bridge[q]
  BY <1>1 DEF Kill, BridgeType
<1>3. CASE bridge[p].pc \in StatusWriting
  <2>1. overlap'
    BY <1>2, <1>3
  <2>2. PollInv' /\ TablesWhole'
    BY <1>2, <2>1 DEF TInv, PollInv, TablesWhole
  <2> QED BY <2>1, <2>2 DEF TInv, TableInv, PublishInv, StatusesKept
<1>4. CASE bridge[p].pc \notin StatusWriting
  <2>1. UNCHANGED <<table, ctl, overlap>>
    BY <1>2, <1>4 DEF IInv, TypeOK
  <2> QED BY <1>2, <1>4, <2>1, NotPublishing
<1> QED BY <1>3, <1>4

LEMMA InitTable == Init => TInv
<1> SUFFICES ASSUME Init PROVE TInv
  OBVIOUS
<1>1. \A i \in SlotNumbers : Whole(table.slot[i])
  BY DEF Init, NoStatuses, EmptySlot, Whole
<1>2. TableInv
  BY <1>1 DEF Init, TableInv, OneWriter, OddWhileWriting, SlotsWhole
<1>3. PollInv /\ TablesWhole
  BY DEF Init, PollInv, TablesWhole, NoPoll
<1>4. PublishInv /\ StatusesKept
  BY DEF Init, PublishInv, Written, StatusesKept
<1> QED BY <1>2, <1>3, <1>4 DEF TInv

LEMMA NextTable == IInv /\ TInv /\ [Next]_vars => TInv'
<1> SUFFICES ASSUME IInv, TInv, [Next]_vars PROVE TInv'
  OBVIOUS
<1>1. CASE UNCHANGED vars
  <2>1. PollInv' /\ TablesWhole'
    BY <1>1 DEF TInv, PollInv, Copied, TablesWhole
  <2> QED BY <1>1, <2>1, Polling
<1>2. CASE ControllerNext
  BY <1>2, ControllerTable
<1>3. ASSUME NEW p \in Pids, BridgeNext(p) PROVE TInv'
  BY <1>3, ReadingTable, BumpStatusesTable, ScanSlotsTable, WriteSlotHeadTable,
     WriteSlotTailTable, ReleaseStatusesTable, KillTable DEF BridgeNext
<1>4. CASE Tick
  <2>1. UNCHANGED <<table, ctl, bridge, overlap>>
    BY <1>4 DEF Tick
  <2>2. PollInv' /\ TablesWhole'
    BY <2>1 DEF TInv, PollInv, Copied, TablesWhole
  <2> QED BY <2>1, <2>2, Polling
<1> QED BY <1>1, <1>2, <1>3, <1>4 DEF Next

-----------------------------------------------------------------------------
(* The election.  A score moves with being elected, so two windows may be  *)
(* so small that each outscores the other once it is the other's turn;     *)
(* OneWay says that no two are.                                            *)

\* A process as a candidate, and the bounds of its score.
Renderer(p, neural) ==
  [pid |-> p, neural |-> neural, tick |-> 0, pixels |-> Window[p].pixels,
   api |-> Window[p].api, fps |-> Window[p].fps, root |-> Window[p].root]
Low(p)  == rendererScore(Renderer(p, FALSE))
High(p) == rendererScore(Renderer(p, TRUE))

\* One may replace the other, whichever of them works.
CanOutscore(p, q) == High(p) > Hysteresis(Low(q))
OneWay == \A p, q \in Pids : p # q => ~(CanOutscore(p, q) /\ CanOutscore(q, p))

\* Who was outscored could be.
DeposedInv ==
  ctl.deposed # 0 =>
    ctl.primary # 0 /\ ctl.primary # ctl.deposed /\ CanOutscore(ctl.primary, ctl.deposed)

LEMMA RenderersTyped ==
  ASSUME NEW p \in Pids, NEW neural \in BOOLEAN
  PROVE  Renderer(p, neural) \in CandidateType
<1>1. Window[p] \in [pixels : Nat, api : Nat, fps : Nat, root : BOOLEAN] /\ p \in Nat
  BY ControlAssumption
<1> QED BY <1>1 DEF Renderer, CandidateType

\* Working is worth half a million points at most.
LEMMA NeuralRaises ==
  ASSUME NEW p \in Pids
  PROVE  /\ Low(p) \in Nat /\ High(p) \in Nat
         /\ Low(p) <= High(p) /\ High(p) <= Low(p) + 500000
<1>1. Low(p) \in Nat /\ High(p) \in Nat
  BY RenderersTyped, ScoreBounded DEF Low, High
<1>2. Window[p] \in [pixels : Nat, api : Nat, fps : Nat, root : BOOLEAN] /\ p # 0
  BY ControlAssumption
<1> DEFINE pixels == Least(Window[p].pixels, 16777216)
           root == IF Window[p].root THEN 600000 ELSE 0
           sum == pixels + ApiBonus(Window[p].api) + root
<1>3. ApiBonus(Window[p].api) \in Nat
  BY <1>2, SMT DEF ApiBonus
<1>4. pixels \in Nat /\ root \in Nat
  BY <1>2, SMT DEF Least
<1>5. sum \in Nat
  <2> HIDE DEF pixels, root
  <2> QED BY <1>3, <1>4
<1>6. ASSUME NEW s \in Nat, NEW t \in Nat, t = s + 500000, NEW fps \in Nat
      PROVE  /\ Penalised(s, fps) \in Nat /\ Penalised(t, fps) \in Nat
             /\ Penalised(s, fps) <= Penalised(t, fps)
             /\ Penalised(t, fps) <= Penalised(s, fps) + 500000
  BY <1>6, SMT DEF Penalised, Least
<1> DEFINE a == Penalised(sum, Window[p].fps)
           b == Penalised(sum + 500000, Window[p].fps)
<1>7. a \in Nat /\ b \in Nat /\ a <= b /\ b <= a + 500000
  <2> DEFINE t == sum + 500000
             fps == Window[p].fps
  <2>1. fps \in Nat
    BY <1>2
  <2> HIDE DEF sum, fps
  <2>2. t \in Nat /\ t = sum + 500000
    BY <1>5
  <2> HIDE DEF t
  <2>3. /\ Penalised(sum, fps) \in Nat /\ Penalised(t, fps) \in Nat
        /\ Penalised(sum, fps) <= Penalised(t, fps)
        /\ Penalised(t, fps) <= Penalised(sum, fps) + 500000
    BY <1>5, <1>6, <2>1, <2>2
  <2> QED BY <2>3 DEF fps, t
<1>8. /\ sum + 0 = sum
      /\ Low(p) = IF Window[p].pixels = 0 THEN 0
                  ELSE IF pixels < 640 * 360 THEN Penalised(sum + 0, Window[p].fps) \div 2
                  ELSE Penalised(sum + 0, Window[p].fps)
  <2>1. sum + 0 = sum
    <3> HIDE DEF sum
    <3> QED BY <1>5
  <2> QED BY <1>2, <2>1, SMT DEF Low, rendererScore, Renderer
<1>9. High(p) = IF Window[p].pixels = 0 THEN 0
                ELSE IF pixels < 640 * 360 THEN b \div 2 ELSE b
  BY <1>2, SMT DEF High, rendererScore, Renderer
<1>10. Low(p) = IF Window[p].pixels = 0 THEN 0 ELSE IF pixels < 640 * 360 THEN a \div 2 ELSE a
  <2> HIDE DEF sum
  <2> QED BY <1>8
<1>11. a \div 2 <= b \div 2 /\ b \div 2 <= (a \div 2) + 500000
  <2> HIDE DEF a, b
  <2> QED BY <1>7
<1> HIDE DEF a, b, pixels
<1> QED BY <1>1, <1>7, <1>9, <1>10, <1>11

\* What a challenger must exceed grows with the incumbent's score.
LEMMA HysteresisGrows ==
  ASSUME NEW s \in Nat, NEW t \in Nat, s <= t
  PROVE  Hysteresis(s) \in Nat /\ Hysteresis(t) \in Nat /\ Hysteresis(s) <= Hysteresis(t)
BY SMT DEF Hysteresis

\* Two windows are one-way if their scores reach two million together.
LEMMA LargeWindowsAreOneWay ==
  ASSUME NEW p \in Pids, NEW q \in Pids, Low(p) + Low(q) >= 2000006
  PROVE  ~(CanOutscore(p, q) /\ CanOutscore(q, p))
<1> DEFINE lp == Low(p)  lq == Low(q)  hp == High(p)  hq == High(q)
<1>1. /\ lp \in Nat /\ hp \in Nat /\ hp <= lp + 500000
      /\ lq \in Nat /\ hq \in Nat /\ hq <= lq + 500000
  BY NeuralRaises
<1>2. CanOutscore(p, q) <=> hp > lq + lq \div 4 + 250000
  BY DEF CanOutscore, Hysteresis
<1>3. CanOutscore(q, p) <=> hq > lp + lp \div 4 + 250000
  BY DEF CanOutscore, Hysteresis
<1>4. lp + lq >= 2000006
  OBVIOUS
<1> HIDE DEF lp, lq, hp, hq
<1>5. lp \div 4 \in Nat /\ lq \div 4 \in Nat /\ lp \div 4 + lq \div 4 >= 500000
  BY <1>1, <1>4, SMT
<1> QED BY <1>1, <1>2, <1>3, <1>5, SMT

\* The score of a published status is between those bounds.
LEMMA ScoresOfPublished ==
  ASSUME TypeOK, NEW i \in SlotNumbers, NEW p \in Pids, Candidates[i].pid = p
  PROVE  /\ rendererScore(Candidates[i]) \in Nat
         /\ Low(p) <= rendererScore(Candidates[i]) /\ rendererScore(Candidates[i]) <= High(p)
<1>1. Candidates[i] \in CandidateType /\ p # 0
  BY CandidatesTyped, ControlAssumption
<1> DEFINE c == Candidates[i]
           r == Renderer(p, c.neural)
<1>2. /\ c.pid = p /\ c.pixels = Window[p].pixels /\ c.api = Window[p].api
      /\ c.fps = Window[p].fps /\ c.root = Window[p].root
  <2> DEFINE slot == ctl.poll.copy[i]
  <2>1. c = Candidate(slot)
    BY DEF Candidates
  <2> HIDE DEF c, slot
  <2>2. c.pid = slot.head.pid
    BY <2>1 DEF Candidate
  <2>3. slot.head.pid = p /\ p # 0
    BY <1>1, <2>2 DEF c
  <2>4. Window[p] \in [pixels : Nat, api : Nat, fps : Nat, root : BOOLEAN]
    BY ControlAssumption
  <2>5. /\ c.pixels = Window[p].pixels /\ c.api = Window[p].api /\ c.fps = Window[p].fps
    BY <2>1, <2>3 DEF Candidate
  <2>6. c.root = (slot.head.pid # 0 /\ Window[slot.head.pid].root)
    BY <2>1 DEF Candidate
  <2>7. c.root = Window[p].root
    BY <2>3, <2>4, <2>6
  <2> QED BY <2>2, <2>3, <2>5, <2>7
<1>3. /\ r.pid = p /\ r.pixels = Window[p].pixels /\ r.api = Window[p].api
      /\ r.fps = Window[p].fps /\ r.root = Window[p].root /\ r.neural = c.neural
  BY DEF Renderer
<1> HIDE DEF c, r
<1>4. rendererScore(c) = rendererScore(r)
  BY <1>2, <1>3, SMT DEF rendererScore
<1>5. c.neural \in BOOLEAN
  BY <1>1 DEF c, CandidateType
<1>6. r = Renderer(p, TRUE) \/ r = Renderer(p, FALSE)
  BY <1>5 DEF r
<1>7. rendererScore(c) = High(p) \/ rendererScore(c) = Low(p)
  BY <1>4, <1>6 DEF High, Low
<1> QED BY <1>7, NeuralRaises DEF c

\* Who replaces a renderer that is fresh in the table the poll read can outscore it.
LEMMA ReplacesWhoItCanOutscore ==
  ASSUME TypeOK, NEW p \in Pids, NEW q \in Pids, q = ctl.primary, p # q,
         p = electPrimaryRenderer(Candidates, ctl.primary, now),
         NEW i \in SlotNumbers, Candidates[i].pid = q,
         rendererCandidateFresh(Candidates[i], now)
  PROVE  CanOutscore(p, q)
<1>1. Candidates \in [1..Slots -> CandidateType] /\ Slots \in Nat
  BY CandidatesTyped, ControlAssumption DEF SlotNumbers
<1>2. i \in Mine(Candidates, q, now)
  BY <1>1 DEF Mine, Fresh, SlotNumbers
<1>3. PICK b, c \in 1..Slots : /\ Candidates[b].pid = p /\ Candidates[c].pid = q
                               /\ rendererScore(Candidates[b])
                                    > Hysteresis(rendererScore(Candidates[c]))
  BY <1>1, <1>2, ReplacesByScore
<1> DEFINE sb == rendererScore(Candidates[b])  sc == rendererScore(Candidates[c])
<1>4. sb \in Nat /\ sb <= High(p) /\ sc \in Nat /\ Low(q) <= sc
  BY <1>3, ScoresOfPublished DEF SlotNumbers
<1>5. sb > Hysteresis(sc)
  BY <1>3
<1> HIDE DEF sb, sc
<1>6. Low(q) \in Nat /\ High(p) \in Nat
  BY NeuralRaises
<1>7. Hysteresis(Low(q)) \in Nat /\ Hysteresis(sc) \in Nat /\ Hysteresis(Low(q)) <= Hysteresis(sc)
  BY <1>4, <1>6, HysteresisGrows
<1>8. High(p) > Hysteresis(Low(q))
  BY <1>4, <1>5, <1>6, <1>7
<1> QED BY <1>8 DEF CanOutscore

\* The controller's other steps do not change who is elected.
LEMMA OnlyElectElects ==
  ASSUME TypeOK, [Next]_vars
  PROVE  Elect \/ (ctl'.primary = ctl.primary /\ ctl'.deposed = ctl.deposed)
<1>1. ctl \in CtlType
  BY DEF TypeOK
<1>2. CASE UNCHANGED vars
  BY <1>2
<1>3. CASE ControllerNext
  <2>1. ASSUME RetryStatuses PROVE ctl'.primary = ctl.primary /\ ctl'.deposed = ctl.deposed
    BY <1>1, <2>1 DEF RetryStatuses, CtlType
  <2>2. ASSUME \/ \E when \in {"before", "after", "never"} : Choose(when)
               \/ BumpSettings \/ WriteHead \/ WriteTail
        PROVE  ctl'.primary = ctl.primary /\ ctl'.deposed = ctl.deposed
    BY <1>1, <2>2 DEF CtlType, Choose, BumpSettings, WriteHead, WriteTail
  <2>3. ASSUME ReleaseSettings \/ requestHistoryReset \/ Poll
        PROVE  ctl'.primary = ctl.primary /\ ctl'.deposed = ctl.deposed
    BY <1>1, <2>3 DEF CtlType, ReleaseSettings, requestHistoryReset, Poll
  <2>4. ASSUME SampleStatuses
        PROVE  ctl'.primary = ctl.primary /\ ctl'.deposed = ctl.deposed
    <3>1. CASE table.seq % 2 = 1
      BY <2>1, <2>4, <3>1 DEF SampleStatuses
    <3>2. CASE table.seq % 2 # 1
      <4> DEFINE poll == [ctl.poll EXCEPT !.seq = table.seq, !.next = 1, !.floor = table.slot]
      <4>1. ctl' = [ctl EXCEPT !.pc = "slotHead", !.poll = poll]
        BY <2>4, <3>2 DEF SampleStatuses
      <4> HIDE DEF poll
      <4> QED BY <1>1, <4>1 DEF CtlType
    <3> QED BY <3>1, <3>2
  <2>5. ASSUME CopySlotHead PROVE ctl'.primary = ctl.primary /\ ctl'.deposed = ctl.deposed
    BY <1>1, <2>5 DEF CtlType, CopySlotHead
  <2>6. ASSUME CopySlotTail PROVE ctl'.primary = ctl.primary /\ ctl'.deposed = ctl.deposed
    <3> DEFINE n == ctl.poll.next
               pc == IF n < Slots THEN "slotHead" ELSE "compare"
               poll == [ctl.poll EXCEPT !.copy[n].tail = table.slot[n].tail,
                                        !.next = IF @ < Slots THEN @ + 1 ELSE @]
    <3>1. ctl' = [ctl EXCEPT !.pc = pc, !.poll = poll]
      BY <2>6 DEF CopySlotTail
    <3> HIDE DEF n, pc, poll
    <3> QED BY <1>1, <3>1 DEF CtlType
  <2>7. ASSUME CompareStatuses PROVE ctl'.primary = ctl.primary /\ ctl'.deposed = ctl.deposed
    BY <1>1, <2>1, <2>7 DEF CtlType, CompareStatuses
  <2> QED BY <1>3, <2>2, <2>3, <2>4, <2>5, <2>6, <2>7 DEF ControllerNext
<1>4. ASSUME NEW p \in Pids, BridgeNext(p) PROVE UNCHANGED ctl
  BY <1>4 DEF BridgeNext, Present, SampleSettings, CopyHead, CopyTail, CompareSettings, Bypass,
     Consume, Suppressed, Evaluate, BumpStatuses, ScanSlots, WriteSlotHead, WriteSlotTail,
     ReleaseStatuses, Kill
<1>5. CASE Tick
  BY <1>5 DEF Tick
<1> QED BY <1>2, <1>3, <1>4, <1>5 DEF Next

\* What an election leaves behind.
LEMMA ElectOutcome ==
  ASSUME TypeOK, Elect
  PROVE  LET elected == electPrimaryRenderer(Candidates, ctl.primary, now) IN
         /\ ctl'.primary = elected /\ elected \in SomePid
         /\ \/ elected = ctl.primary /\ ctl'.deposed = ctl.deposed
            \/ ctl'.deposed = 0
            \/ /\ ctl.primary # 0 /\ elected # 0 /\ elected # ctl.primary
               /\ ctl'.deposed = ctl.primary
               /\ \E i \in SlotNumbers : /\ Candidates[i].pid = ctl.primary
                                         /\ rendererCandidateFresh(Candidates[i], now)
<1> DEFINE elected == electPrimaryRenderer(Candidates, ctl.primary, now)
<1>1. ctl \in CtlType /\ elected \in SomePid
  BY ElectedIsPid DEF TypeOK
<1> DEFINE handover == ctl.primary # 0 /\ elected # 0 /\ elected # ctl.primary
           competes == \E i \in SlotNumbers : /\ Candidates[i].pid = ctl.primary
                                              /\ rendererCandidateFresh(Candidates[i], now)
           deposed == IF elected = ctl.primary THEN ctl.deposed
                      ELSE IF handover /\ competes THEN ctl.primary ELSE 0
<1>2. ctl' = [ctl EXCEPT !.pc = IF handover THEN "request" ELSE "idle",
                         !.primary = elected, !.poll = NoPoll, !.deposed = deposed]
  BY DEF Elect
<1> HIDE DEF elected, deposed, competes
<1>3. ctl'.primary = elected /\ ctl'.deposed = deposed
  BY <1>1, <1>2 DEF CtlType
<1>4. \/ elected = ctl.primary /\ deposed = ctl.deposed
      \/ deposed = 0
      \/ handover /\ deposed = ctl.primary /\ competes
  BY DEF deposed
<1> QED BY <1>1, <1>3, <1>4 DEF elected, competes

LEMMA DeposedKeeps == IInv /\ DeposedInv /\ [Next]_vars => DeposedInv'
<1> SUFFICES ASSUME IInv, DeposedInv, [Next]_vars PROVE DeposedInv'
  OBVIOUS
<1>1. TypeOK /\ ctl.primary \in SomePid
  BY DEF IInv, TypeOK, CtlType
<1>2. CASE ctl'.primary = ctl.primary /\ ctl'.deposed = ctl.deposed
  BY <1>2 DEF DeposedInv, CanOutscore
<1>3. CASE Elect
  <2> DEFINE elected == electPrimaryRenderer(Candidates, ctl.primary, now)
  <2>1. ctl'.primary = elected /\ elected \in SomePid
    BY <1>1, <1>3, ElectOutcome
  <2>2. CASE elected = ctl.primary /\ ctl'.deposed = ctl.deposed
    BY <1>2, <2>1, <2>2
  <2>3. CASE ctl'.deposed = 0
    BY <2>3 DEF DeposedInv
  <2>4. ASSUME ctl.primary # 0, elected # 0, elected # ctl.primary, ctl'.deposed = ctl.primary,
               NEW i \in SlotNumbers, Candidates[i].pid = ctl.primary,
               rendererCandidateFresh(Candidates[i], now)
        PROVE  DeposedInv'
    <3>1. elected \in Pids /\ ctl.primary \in Pids
      BY <1>1, <2>1, <2>4 DEF SomePid
    <3>2. CanOutscore(elected, ctl.primary)
      BY <1>1, <2>4, <3>1, ReplacesWhoItCanOutscore
    <3> QED BY <2>1, <2>4, <3>2 DEF DeposedInv, CanOutscore
  <2> QED BY <1>1, <1>3, <2>2, <2>3, <2>4, ElectOutcome
<1> QED BY <1>1, <1>2, <1>3, OnlyElectElects

LEMMA NobodyReturns ==
  ASSUME OneWay, IInv, DeposedInv, [Next]_vars, NEW i \in SlotNumbers,
         ctl'.primary # ctl.primary, ctl'.primary = ctl.deposed,
         ctl.poll.copy[i].head.pid = ctl.primary,
         rendererCandidateFresh(Candidate(ctl.poll.copy[i]), now)
  PROVE  FALSE
<1> DEFINE elected == electPrimaryRenderer(Candidates, ctl.primary, now)
<1>1. TypeOK /\ ctl.primary \in SomePid
  BY DEF IInv, TypeOK, CtlType
<1>2. Elect
  BY <1>1, OnlyElectElects
<1>3. ctl'.primary = elected /\ elected \in SomePid
  BY <1>1, <1>2, ElectOutcome
<1>4. Candidates[i].pid = ctl.primary /\ rendererCandidateFresh(Candidates[i], now)
  BY DEF Candidates, Candidate
<1>5. ctl.primary # 0
  BY <1>4 DEF rendererCandidateFresh
<1>6. elected # 0
  <2>1. SlotNumbers \in SUBSET Nat /\ i \in Fresh(Candidates, now)
    BY <1>4, ControlAssumption DEF SlotNumbers, Fresh, Candidates
  <2> QED BY <1>1, <1>5, <2>1, CandidatesTyped, SomebodyIsElected
<1>7. elected \in Pids /\ ctl.primary \in Pids
  BY <1>1, <1>3, <1>5, <1>6 DEF SomePid
<1>8. CanOutscore(elected, ctl.primary)
  BY <1>1, <1>3, <1>4, <1>7, ReplacesWhoItCanOutscore
<1>9. CanOutscore(ctl.primary, elected)
  BY <1>3, <1>6 DEF DeposedInv
<1> QED BY <1>3, <1>7, <1>8, <1>9 DEF OneWay

-----------------------------------------------------------------------------
\* The inductive invariant holds in every reachable state of SharedControl.
THEOREM Invariance == Spec => []IInv
<1> QED BY InitEstablishes, NextKeeps, PTL DEF Spec

\* Every variable keeps its type (the block, the controller and the bridges).
THEOREM TypeCorrect == Spec => []TypeOK
<1>1. IInv => TypeOK
  BY DEF IInv
<1> QED BY <1>1, Invariance, PTL

\* readSettings never accepts halves of two settings, nor settings older than those
\* in force when the frame began, for any number of bridges and attempts.
THEOREM SettingsAreWhole == Spec => []SettingsWhole
<1>1. IInv => SettingsWhole
  BY DEF IInv
<1> QED BY <1>1, Invariance, PTL

\* writeStatus never gives a process a second slot, for any number of slots and of
\* processes writing at the same time or dying while they write.
THEOREM SlotsAreUnique == Spec => []OneSlotPerPid
<1>1. IInv => OneSlotPerPid
  BY DEF IInv
<1> QED BY <1>1, Invariance, PTL

\* readStatuses never accepts a torn table, nor one of two moments, for any number of
\* games, slots and attempts, as long as no two writers overlap.
THEOREM TablesAreWhole == Spec => []TablesWhole
<1>1. TInv => TablesWhole
  BY DEF TInv
<1>2. Spec => []TInv
  BY InitTable, NextTable, Invariance, PTL DEF Spec
<1> QED BY <1>1, <1>2, PTL

\* With a slot for every process, nobody's status is overwritten by another's: the scan
\* finds an empty slot or the process's own, and without overlap it is still so when
\* the slot is written.
THEOREM StatusesStand == Spec => []StatusesKept
<1>1. TInv => StatusesKept
  BY DEF TInv
<1>2. Spec => []TInv
  BY InitTable, NextTable, Invariance, PTL DEF Spec
<1> QED BY <1>1, <1>2, PTL

\* A renderer another one outscored stays deposed while that one publishes, for any
\* windows of which no two can each outscore the other.
THEOREM ElectionSettles ==
  ASSUME OneWay
  PROVE  Spec => NoPingPong
<1>1. Init => DeposedInv
  BY DEF Init, DeposedInv
<1>2. IInv /\ DeposedInv /\ [Next]_vars =>
        [\A i \in SlotNumbers :
           CtlAt("elect") /\ ctl'.primary # ctl.primary /\ ctl'.primary = ctl.deposed
             /\ ctl.poll.copy[i].head.pid = ctl.primary
             => ~rendererCandidateFresh(Candidate(ctl.poll.copy[i]), now)]_ctl
  BY NobodyReturns
<1> QED BY <1>1, <1>2, DeposedKeeps, Invariance, PTL DEF Spec, NoPingPong

=============================================================================
