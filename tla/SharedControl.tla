---------------------------- MODULE SharedControl ----------------------------
(***************************************************************************)
(* The memory the controller and every attached game share                 *)
(* (shared_control_win.cpp): the settings and the status table, each under *)
(* a sequence number, the elected renderer and the reset generation.  The  *)
(* controller's UI thread writes settings and polls statuses (ui.cpp); the *)
(* presenting thread of a bridge reads settings, decides whether to run    *)
(* the neural path, and publishes its status (dxgi_hooks.cpp, process).    *)
(***************************************************************************)
EXTENDS RendererElection

CONSTANTS
  Pids,          \* the attached processes
  Window,        \* what each renders: [pixels, api, fps, root]
  Slots,         \* slots of the status table (32)
  Tries,         \* attempts of a read (8)
  Disabled,      \* the settings, by version, with processing disabled
  Budgets        \* the bounds: what may still happen, one of these at the start

\* Settings the user makes, presents of each process, polls, clock ticks, and
\* processes that are killed.
BudgetType == [settings : Nat, presents : [Pids -> Nat], polls : Nat, ticks : Nat,
               kills : Nat]

ASSUME ControlAssumption ==
  /\ Pids \subseteq Nat \ {0} /\ IsFiniteSet(Pids)
  /\ Window \in [Pids -> [pixels : Nat, api : Nat, fps : Nat, root : BOOLEAN]]
  /\ Slots \in Nat \ {0} /\ Tries \in Nat \ {0}
  /\ Budgets \subseteq BudgetType

VARIABLES
  settings,  \* settingsSeq, and the settings as the two halves of a copy in progress
  table,     \* statusSeq, and the two halves of each slot
  primary,   \* primaryRendererPid
  reset,     \* the bridges whose tracker has not seen historyResetGeneration
  now,       \* GetTickCount64
  ctl,       \* the controller's UI thread
  bridge,    \* the presenting thread of each process
  budget,    \* what the bounds still allow
  overlap    \* history: two status writers at once, or one killed while writing

vars == <<settings, table, primary, reset, now, ctl, bridge, budget, overlap>>

\* A status is [head, tail]: the fields copied first and those copied last.  The
\* frame in both and the pid in the tail only serve to tell whether they belong
\* together.
EmptySlot == [head |-> [pid |-> 0, frame |-> 0, neural |-> FALSE],
              tail |-> [pid |-> 0, frame |-> 0, tick |-> 0]]

SlotNumbers == 1..Slots
NoStatuses == [i \in SlotNumbers |-> EmptySlot]

StatusWriting == {"scan", "slotHead", "slotTail", "release"}
SettingsWriting == {"head", "tail", "release"}

\* What a thread keeps only while it reads settings, publishes a status, or polls.
NoRead == [tries |-> 0, seq |-> 0, head |-> 0, tail |-> 0, accepted |-> FALSE, floor |-> 0]
NoStatus == [neural |-> FALSE, tick |-> 0, slot |-> 1]
NoPoll == [tries |-> 0, seq |-> 0, next |-> 1, copy |-> NoStatuses, accepted |-> FALSE,
           floor |-> NoStatuses]

Init ==
  /\ settings = [seq |-> 0, head |-> 0, tail |-> 0]
  /\ table = [seq |-> 0, slot |-> NoStatuses]
  /\ primary = 0 /\ reset = {} /\ now = 1 /\ overlap = FALSE
  /\ budget \in Budgets
  /\ ctl = [pc |-> "idle", version |-> 0, resetAfter |-> FALSE,
            poll |-> NoPoll, primary |-> 0, deposed |-> 0]
  /\ bridge = [p \in Pids |->
       [pc |-> "game", frame |-> 0, read |-> NoRead, status |-> NoStatus,
        cleared |-> TRUE, skipped |-> FALSE]]

CtlAt(pc) == ctl.pc = pc
At(p, pc) == bridge[p].pc = pc

-----------------------------------------------------------------------------
\* The controller writes settings: writeLive, with the history reset requested
\* after it (applyPresetIndex), before it (setChoice) or not at all (setToggle).

Choose(when) ==
  /\ CtlAt("idle") /\ budget.settings > 0
  /\ budget' = [budget EXCEPT !.settings = @ - 1]
  /\ ctl' = [ctl EXCEPT !.pc = "bump", !.resetAfter = when = "after"]
  /\ reset' = IF when = "before" THEN Pids ELSE reset
  /\ UNCHANGED <<settings, table, primary, now, bridge, overlap>>

BumpSettings ==
  /\ CtlAt("bump")
  /\ settings' = [settings EXCEPT !.seq = @ + 1]
  /\ ctl' = [ctl EXCEPT !.pc = "head", !.version = @ + 1]
  /\ UNCHANGED <<table, primary, reset, now, bridge, budget, overlap>>

WriteHead ==
  /\ CtlAt("head")
  /\ settings' = [settings EXCEPT !.head = ctl.version]
  /\ ctl' = [ctl EXCEPT !.pc = "tail"]
  /\ UNCHANGED <<table, primary, reset, now, bridge, budget, overlap>>

WriteTail ==
  /\ CtlAt("tail")
  /\ settings' = [settings EXCEPT !.tail = ctl.version]
  /\ ctl' = [ctl EXCEPT !.pc = "release"]
  /\ UNCHANGED <<table, primary, reset, now, bridge, budget, overlap>>

ReleaseSettings ==
  /\ CtlAt("release")
  /\ settings' = [settings EXCEPT !.seq = @ + 1]
  /\ ctl' = [ctl EXCEPT !.pc = IF ctl.resetAfter THEN "request" ELSE "idle"]
  /\ UNCHANGED <<table, primary, reset, now, bridge, budget, overlap>>

requestHistoryReset ==
  /\ CtlAt("request")
  /\ reset' = Pids
  /\ ctl' = [ctl EXCEPT !.pc = "idle"]
  /\ UNCHANGED <<settings, table, primary, now, bridge, budget, overlap>>

-----------------------------------------------------------------------------
\* The controller polls: readStatuses, the election, and what follows from it.

Poll ==
  /\ CtlAt("idle") /\ budget.polls > 0
  /\ budget' = [budget EXCEPT !.polls = @ - 1]
  /\ ctl' = [ctl EXCEPT !.pc = "sample"]
  /\ UNCHANGED <<settings, table, primary, reset, now, bridge, overlap>>

\* Mutant: one attempt too many.
RetryOnceMore ==
  ctl' = IF ctl.poll.tries < Tries
           THEN [ctl EXCEPT !.pc = "sample", !.poll.tries = @ + 1]
           ELSE [ctl EXCEPT !.pc = "elect", !.poll = NoPoll]

\* One attempt failed: try again, or after the last return an empty table.
RetryStatuses ==
  ctl' = IF ctl.poll.tries + 1 < Tries
           THEN [ctl EXCEPT !.pc = "sample", !.poll.tries = @ + 1]
           ELSE [ctl EXCEPT !.pc = "elect", !.poll = NoPoll]

SampleStatuses ==
  /\ CtlAt("sample")
  /\ IF table.seq % 2 = 1 THEN RetryStatuses
     ELSE ctl' = [ctl EXCEPT !.pc = "slotHead",
                             !.poll = [@ EXCEPT !.seq = table.seq, !.next = 1,
                                                !.floor = table.slot]]
  /\ UNCHANGED <<settings, table, primary, reset, now, bridge, budget, overlap>>

CopySlotHead ==
  /\ CtlAt("slotHead")
  /\ ctl' = [ctl EXCEPT !.pc = "slotTail",
                        !.poll.copy[ctl.poll.next].head = table.slot[ctl.poll.next].head]
  /\ UNCHANGED <<settings, table, primary, reset, now, bridge, budget, overlap>>

CopySlotTail ==
  /\ CtlAt("slotTail")
  /\ ctl' = [ctl EXCEPT
       !.pc = IF ctl.poll.next < Slots THEN "slotHead" ELSE "compare",
       !.poll = [ctl.poll EXCEPT !.copy[ctl.poll.next].tail = table.slot[ctl.poll.next].tail,
                                 !.next = IF @ < Slots THEN @ + 1 ELSE @]]
  /\ UNCHANGED <<settings, table, primary, reset, now, bridge, budget, overlap>>

\* Mutant: any even sequence number will do.
CompareParity ==
  /\ CtlAt("compare")
  /\ IF table.seq % 2 = 0
       THEN ctl' = [ctl EXCEPT !.pc = "elect", !.poll.accepted = TRUE]
       ELSE RetryStatuses
  /\ UNCHANGED <<settings, table, primary, reset, now, bridge, budget, overlap>>

CompareStatuses ==
  /\ CtlAt("compare")
  /\ IF table.seq = ctl.poll.seq
       THEN ctl' = [ctl EXCEPT !.pc = "elect", !.poll.accepted = TRUE]
       ELSE RetryStatuses
  /\ UNCHANGED <<settings, table, primary, reset, now, bridge, budget, overlap>>

\* The candidates of poll(), from the copy of the table.  Every process in it was
\* attached by this controller.
Candidate(slot) ==
  LET pid == slot.head.pid IN
  [pid |-> pid, neural |-> slot.head.neural, tick |-> slot.tail.tick,
   pixels |-> IF pid = 0 THEN 0 ELSE Window[pid].pixels,
   api |-> IF pid = 0 THEN 0 ELSE Window[pid].api,
   fps |-> IF pid = 0 THEN 0 ELSE Window[pid].fps,
   root |-> pid # 0 /\ Window[pid].root]

Candidates == [i \in SlotNumbers |-> Candidate(ctl.poll.copy[i])]

\* A renderer replaced by another has the history of both reset; one that is only
\* dropped, or elected after nobody was, has not.  History: deposed is who the
\* elected renderer outscored, 0 if nobody or if its status had gone stale.
Elect ==
  LET elected == electPrimaryRenderer(Candidates, ctl.primary, now)
      handover == ctl.primary # 0 /\ elected # 0 /\ elected # ctl.primary
      competes == \E i \in SlotNumbers : /\ Candidates[i].pid = ctl.primary
                                         /\ rendererCandidateFresh(Candidates[i], now)
  IN
  /\ CtlAt("elect")
  /\ primary' = IF elected = ctl.primary THEN primary ELSE elected
  /\ ctl' = [ctl EXCEPT !.pc = IF handover THEN "request" ELSE "idle",
                        !.primary = elected, !.poll = NoPoll,
                        !.deposed = IF elected = ctl.primary THEN @
                                    ELSE IF handover /\ competes THEN ctl.primary ELSE 0]
  /\ UNCHANGED <<settings, table, reset, now, bridge, budget, overlap>>

-----------------------------------------------------------------------------
\* A bridge's Present: readSettings.

Present(p) ==
  /\ At(p, "game") /\ budget.presents[p] > 0
  /\ budget' = [budget EXCEPT !.presents[p] = @ - 1]
  /\ bridge' = [bridge EXCEPT ![p].pc = "sample", ![p].frame = @ + 1,
                              ![p].read.floor = settings.tail]
  /\ UNCHANGED <<settings, table, primary, reset, now, ctl, overlap>>

\* One attempt failed: try again, or after the last use what was copied.
RetrySettings(p) ==
  bridge' = IF bridge[p].read.tries + 1 < Tries
              THEN [bridge EXCEPT ![p].pc = "sample", ![p].read.tries = @ + 1]
              ELSE [bridge EXCEPT ![p].pc = "consume"]

SampleSettings(p) ==
  /\ At(p, "sample")
  /\ IF settings.seq % 2 = 1 THEN RetrySettings(p)
     ELSE bridge' = [bridge EXCEPT ![p].pc = "head", ![p].read.seq = settings.seq]
  /\ UNCHANGED <<settings, table, primary, reset, now, ctl, budget, overlap>>

CopyHead(p) ==
  /\ At(p, "head")
  /\ bridge' = [bridge EXCEPT ![p].pc = "tail", ![p].read.head = settings.head]
  /\ UNCHANGED <<settings, table, primary, reset, now, ctl, budget, overlap>>

CopyTail(p) ==
  /\ At(p, "tail")
  /\ bridge' = [bridge EXCEPT ![p].pc = "compare", ![p].read.tail = settings.tail]
  /\ UNCHANGED <<settings, table, primary, reset, now, ctl, budget, overlap>>

\* Mutant: any even sequence number will do.
CompareSettingsParity(p) ==
  /\ At(p, "compare")
  /\ IF settings.seq % 2 = 0
       THEN bridge' = [bridge EXCEPT ![p].pc = "consume", ![p].read.accepted = TRUE]
       ELSE RetrySettings(p)
  /\ UNCHANGED <<settings, table, primary, reset, now, ctl, budget, overlap>>

CompareSettings(p) ==
  /\ At(p, "compare")
  /\ IF settings.seq = bridge[p].read.seq
       THEN bridge' = [bridge EXCEPT ![p].pc = "consume", ![p].read.accepted = TRUE]
       ELSE RetrySettings(p)
  /\ UNCHANGED <<settings, table, primary, reset, now, ctl, budget, overlap>>

-----------------------------------------------------------------------------
\* ... what it does with them ...

\* Disabled: the pipelines are left alone, the reset generation too.
Bypass(p) ==
  /\ At(p, "consume") /\ bridge[p].read.head \in Disabled
  /\ bridge' = [bridge EXCEPT ![p].pc = "bump", ![p].read = NoRead,
                              ![p].status.tick = now, ![p].skipped = TRUE]
  /\ UNCHANGED <<settings, table, primary, reset, now, ctl, budget, overlap>>

\* GenerationTracker::consume, and the pipelines reset.
Consume(p) ==
  /\ At(p, "consume") /\ bridge[p].read.head \notin Disabled
  /\ bridge' = [bridge EXCEPT ![p].pc = "elected", ![p].cleared = @ \/ p \in reset]
  /\ reset' = reset \ {p}
  /\ UNCHANGED <<settings, table, primary, now, ctl, budget, overlap>>

\* Not the elected renderer: publish a status only.
Suppressed(p) ==
  /\ At(p, "elected") /\ primary \notin {0, p}
  /\ bridge' = [bridge EXCEPT ![p].pc = "bump", ![p].read = NoRead,
                              ![p].status.tick = now, ![p].skipped = TRUE]
  /\ UNCHANGED <<settings, table, primary, reset, now, ctl, budget, overlap>>

\* The pipeline evaluates the frame, continuing its history unless it was reset.
Evaluate(p) ==
  /\ At(p, "elected") /\ primary \in {0, p}
  /\ bridge' = [bridge EXCEPT ![p].pc = "bump", ![p].read = NoRead,
                              ![p].status = [@ EXCEPT !.tick = now, !.neural = TRUE],
                              ![p].skipped = FALSE, ![p].cleared = FALSE]
  /\ UNCHANGED <<settings, table, primary, reset, now, ctl, budget, overlap>>

-----------------------------------------------------------------------------
\* ... and writeStatus.

BumpStatuses(p) ==
  /\ At(p, "bump")
  /\ table' = [table EXCEPT !.seq = @ + 1]
  /\ overlap' = (overlap \/ \E q \in Pids \ {p} : bridge[q].pc \in StatusWriting)
  /\ bridge' = [bridge EXCEPT ![p].pc = "scan"]
  /\ UNCHANGED <<settings, primary, reset, now, ctl, budget>>

\* The process's own slot, else the first empty one, else the oldest.
FirstOf(S) == CHOOSE i \in S : \A j \in S : i <= j

\* Mutant: no slot found is taken for slot zero.
ChosenOrZero(p) ==
  LET own == {i \in SlotNumbers : table.slot[i].head.pid = p}
  IN  IF own # {} THEN FirstOf(own) ELSE 1

\* Mutant: an empty slot is taken before the process's own.
EmptyFirst(p) ==
  LET own    == {i \in SlotNumbers : table.slot[i].head.pid = p}
      empty  == {i \in SlotNumbers : table.slot[i].head.pid = 0}
  IN  FirstOf(IF empty # {} THEN empty ELSE IF own # {} THEN own ELSE SlotNumbers)

ChosenSlot(p) ==
  LET own    == {i \in SlotNumbers : table.slot[i].head.pid = p}
      empty  == {i \in SlotNumbers : table.slot[i].head.pid = 0}
      oldest == {i \in SlotNumbers : \A j \in SlotNumbers :
                   table.slot[i].tail.tick <= table.slot[j].tail.tick}
  IN  FirstOf(IF own # {} THEN own ELSE IF empty # {} THEN empty ELSE oldest)

ScanSlots(p) ==
  /\ At(p, "scan")
  /\ bridge' = [bridge EXCEPT ![p].pc = "slotHead", ![p].status.slot = ChosenSlot(p)]
  /\ UNCHANGED <<settings, table, primary, reset, now, ctl, budget, overlap>>

WriteSlotHead(p) ==
  /\ At(p, "slotHead")
  /\ table' = [table EXCEPT !.slot[bridge[p].status.slot].head =
                 [pid |-> p, frame |-> bridge[p].frame, neural |-> bridge[p].status.neural]]
  /\ bridge' = [bridge EXCEPT ![p].pc = "slotTail"]
  /\ UNCHANGED <<settings, primary, reset, now, ctl, budget, overlap>>

WriteSlotTail(p) ==
  /\ At(p, "slotTail")
  /\ table' = [table EXCEPT !.slot[bridge[p].status.slot].tail =
                 [pid |-> p, frame |-> bridge[p].frame, tick |-> bridge[p].status.tick]]
  /\ bridge' = [bridge EXCEPT ![p].pc = "release"]
  /\ UNCHANGED <<settings, primary, reset, now, ctl, budget, overlap>>

ReleaseStatuses(p) ==
  /\ At(p, "release")
  /\ table' = [table EXCEPT !.seq = @ + 1]
  /\ bridge' = [bridge EXCEPT ![p].pc = "game", ![p].status = NoStatus]
  /\ UNCHANGED <<settings, primary, reset, now, ctl, budget, overlap>>

-----------------------------------------------------------------------------
\* The game is killed, wherever its presenting thread is.
Kill(p) ==
  /\ ~At(p, "dead") /\ budget.kills > 0
  /\ budget' = [budget EXCEPT !.kills = @ - 1]
  /\ overlap' = (overlap \/ bridge[p].pc \in StatusWriting)
  /\ bridge' = [bridge EXCEPT ![p].pc = "dead"]
  /\ UNCHANGED <<settings, table, primary, reset, now, ctl>>

Tick ==
  /\ budget.ticks > 0
  /\ budget' = [budget EXCEPT !.ticks = @ - 1]
  /\ now' = now + 1
  /\ UNCHANGED <<settings, table, primary, reset, ctl, bridge, overlap>>

ControllerNext ==
  \/ \E when \in {"before", "after", "never"} : Choose(when)
  \/ BumpSettings \/ WriteHead \/ WriteTail \/ ReleaseSettings \/ requestHistoryReset
  \/ Poll \/ SampleStatuses \/ CopySlotHead \/ CopySlotTail \/ CompareStatuses \/ Elect

BridgeNext(p) ==
  \/ Present(p) \/ SampleSettings(p) \/ CopyHead(p) \/ CopyTail(p) \/ CompareSettings(p)
  \/ Bypass(p) \/ Consume(p) \/ Suppressed(p) \/ Evaluate(p)
  \/ BumpStatuses(p) \/ ScanSlots(p) \/ WriteSlotHead(p) \/ WriteSlotTail(p)
  \/ ReleaseStatuses(p) \/ Kill(p)

Next == ControllerNext \/ (\E p \in Pids : BridgeNext(p)) \/ Tick

Spec == Init /\ [][Next]_vars

-----------------------------------------------------------------------------
CtlPcs == {"idle", "bump", "head", "tail", "release", "request", "sample", "slotHead",
           "slotTail", "compare", "elect"}
BridgePcs == {"game", "sample", "head", "tail", "compare", "consume", "elected", "bump",
              "scan", "slotHead", "slotTail", "release", "dead"}

SomePid == Pids \cup {0}

SlotType ==
  [head : [pid : SomePid, frame : Nat, neural : BOOLEAN],
   tail : [pid : SomePid, frame : Nat, tick : Nat]]
TableType == [SlotNumbers -> SlotType]

PollType == [tries : 0..Tries - 1, seq : Nat, next : SlotNumbers, copy : TableType,
             accepted : BOOLEAN, floor : TableType]
ReadType == [tries : 0..Tries - 1, seq : Nat, head : Nat, tail : Nat,
             accepted : BOOLEAN, floor : Nat]
StatusType == [neural : BOOLEAN, tick : Nat, slot : SlotNumbers]

CtlType == [pc : CtlPcs, version : Nat, resetAfter : BOOLEAN, poll : PollType,
            primary : SomePid, deposed : SomePid]
BridgeType == [pc : BridgePcs, frame : Nat, read : ReadType, status : StatusType,
               cleared : BOOLEAN, skipped : BOOLEAN]

\* The state is well typed: counters within the bounds and both program counters
\* at known points of the code.
TypeOK ==
  /\ settings \in [seq : Nat, head : Nat, tail : Nat]
  /\ table \in [seq : Nat, slot : TableType]
  /\ primary \in SomePid /\ reset \subseteq Pids /\ now \in Nat \ {0}
  /\ budget \in BudgetType /\ overlap \in BOOLEAN
  /\ ctl \in CtlType
  /\ bridge \in [Pids -> BridgeType]

\* Settings a read accepts are settings the user made, never halves of two, and no
\* older than those in force when the frame began (readSettings).
SettingsWhole ==
  \A p \in Pids :
    At(p, "consume") /\ bridge[p].read.accepted =>
      /\ bridge[p].read.head = bridge[p].read.tail
      /\ bridge[p].read.head \in bridge[p].read.floor..ctl.version

\* While no two games publish at once and none dies publishing, a status table a
\* read accepts is the table of one moment, each slot whole (readStatuses).
TablesWhole ==
  CtlAt("elect") /\ ctl.poll.accepted /\ ~overlap =>
    /\ ctl.poll.copy = ctl.poll.floor
    /\ \A i \in SlotNumbers :
         /\ ctl.poll.copy[i].head.pid = ctl.poll.copy[i].tail.pid
         /\ ctl.poll.copy[i].head.frame = ctl.poll.copy[i].tail.frame

\* No process ever has two slots, whoever else writes the table at the same time:
\* a stale second one would stay in the election (writeStatus).
OneSlotPerPid ==
  \A i, j \in SlotNumbers :
    i # j /\ table.slot[i].head.pid # 0 => table.slot[i].head.pid # table.slot[j].head.pid

\* With a slot for every process, a status once published stays published until
\* its process publishes the next, unless writers overlapped.
StatusesKept ==
  ~overlap /\ Cardinality(Pids) <= Slots =>
    \A p \in Pids :
      At(p, "game") /\ bridge[p].frame > 0 =>
        \E i \in SlotNumbers :
          /\ table.slot[i].head.pid = p /\ table.slot[i].head.frame = bridge[p].frame
          /\ table.slot[i].tail.pid = p /\ table.slot[i].tail.frame = bridge[p].frame

\* The election does not oscillate: a renderer another one outscored does not take its
\* place back while that one keeps publishing, although being elected itself raises a
\* score and a newer status is no reason, and whatever halves of statuses the tables
\* read were made of (renderer_selection_policy.hpp, "the incumbent survives ordinary
\* score jitter").
NoPingPong ==
  [][\A i \in SlotNumbers :
       CtlAt("elect") /\ ctl'.primary # ctl.primary /\ ctl'.primary = ctl.deposed
         /\ ctl.poll.copy[i].head.pid = ctl.primary
         => ~rendererCandidateFresh(Candidate(ctl.poll.copy[i]), now)]_ctl

=============================================================================
