---------------------------- MODULE GuideSnapshots ----------------------------
(***************************************************************************)
(* The guides the game gives to DLSS (game_temporal_guides.cpp).           *)
(*                                                                         *)
(* A provider's depth and motion are captured when the game tags them or   *)
(* evaluates DLSS, and belong to the game.  In mode "SnapshotOnly" they    *)
(* wait for their command list to be executed; a copy submitted right      *)
(* behind it fills textures of a slot, a fence tells when, and the Present *)
(* that finds the copy complete promotes the slot to the current capture.  *)
(* A slot is used again when its copy is done, its capture consumed and no *)
(* reader holds its lease.                                                 *)
(*                                                                         *)
(* A guide is the number of the frame it shows; 0: there is none.          *)
(***************************************************************************)
EXTENDS Integers, Sequences, FiniteSets, SequencesExt

CONSTANTS
    Threads,   \* game threads
    Queues,    \* the game's direct queues
    Lists,     \* command lists
    Slots,     \* slots a queue: 6 in the code
    Tags,      \* what a provider may supply: [source, kind, safe, list, known, dated, view]
    Modes,     \* capture modes that are set
    Faults,    \* which failures happen
    Step,      \* milliseconds a tick of the clock takes
    MaxTags, MaxFrames, MaxTime  \* bounds: guides supplied, Presents, the clock

ASSUME GuidesAssumption ==
    /\ Modes \subseteq {"Disabled", "PresentSafeOnly", "SnapshotOnly", "Full"}
    /\ Faults \subseteq {"resource", "signal"} /\ 0 \notin Lists \cup Queues /\ IsFiniteSet(Queues)
    /\ Tags \subseteq [source : {"streamline", "ngx"}, kind : {"depth", "motion"}, safe : BOOLEAN,
                       list : Lists \cup {0}, known : BOOLEAN, dated : BOOLEAN, view : Nat]
    /\ "none" \notin Threads
    /\ Step \in Nat /\ MaxTags \in Nat /\ MaxFrames \in Nat /\ MaxTime \in Nat /\ Slots \in Nat \ {0}

VARIABLES
    mode,      \* g_captureMode
    capture,   \* g_capture
    pending,   \* g_pendingProviders, by command list
    slots,     \* g_postSubmitQueues: [fence value, consumed, staged capture, state of the list]
    next,      \* nextFenceValue of a queue, and g_nextCaptureSequence
    submit,    \* guideSubmitMx: the thread that holds it, or none
    calls,     \* the threads' calls in progress
    present,   \* the presenting thread: [pc, held]; held: the captures it still uses
    work,      \* copies a queue still has to execute, with the value each signals
    reached,   \* values of the queues' fences
    texture,   \* what the textures of a slot hold
    game,      \* [frame, now, togo]: the frame rendered, the clock, tags still to come
    gone       \* history: captures that were replaced, rejected, expired or released

vars == <<mode, capture, pending, slots, next, submit, calls, present, work, reached, texture, game, gone>>

None == "none"
InFlight == -1
NoGuides == [depth |-> 0, motion |-> 0]
NoCapture == [source |-> "none", guides |-> NoGuides, owned |-> FALSE, safe |-> FALSE, list |-> 0, queue |-> 0,
              view |-> 0, frame |-> 0, tick |-> 0, seq |-> 0, slot |-> <<>>]
Idle == [pc |-> "idle", mode |-> "Full", tag |-> <<>>, guides |-> NoCapture, list |-> 0, queue |-> 0, slot |-> <<>>, value |-> 0]

AllSlots == Queues \X (1..Slots)

\* The mode may have been set by an earlier Present.
Init ==
    /\ mode \in Modes /\ capture = NoCapture /\ pending = [l \in Lists |-> NoCapture]
    /\ slots = [s \in AllSlots |-> [value |-> 0, consumed |-> TRUE, staged |-> NoCapture, list |-> "closed"]]
    /\ next = [fence |-> [q \in Queues |-> 1], seq |-> 1]
    /\ submit = None /\ calls = [t \in Threads |-> Idle] /\ present = [pc |-> "idle", held |-> {}]
    /\ work = [q \in Queues |-> <<>>] /\ reached = [q \in Queues |-> 0]
    /\ texture = [s \in AllSlots |-> NoGuides]
    /\ game = [frame |-> 1, now |-> 1, togo |-> MaxTags] /\ gone = {}

---------------------------------------------------------------------------
(* The current capture.                                                    *)

Priority == [none |-> 0, streamline |-> 350, ngx |-> 400]
Fresh(captured, now, maxAge) == captured # 0 /\ now - captured \in 0..maxAge
FramesMatch(a, b) == a.frame = 0 \/ b.frame = 0 \/ a.frame = b.frame
SameGeneration(a, b, age) ==
    /\ FramesMatch(a, b) /\ a.source = b.source /\ a.view = b.view
    /\ Fresh(a.tick, b.tick, age)

\* captureCanReplaceLocked: a completed snapshot supersedes a live capture, even a later one.
CanReplace(old, new) ==
    \/ old.guides = NoGuides
    \/ LET less == Priority[new.source] < Priority[old.source]
       IN /\ ~(less /\ Fresh(old.tick, new.tick, 1000))
          /\ \/ mode = "SnapshotOnly" /\ new.owned /\ ~old.owned
             \/ Priority[new.source] # Priority[old.source] \/ new.tick >= old.tick

Joined(old, new) == [g \in {"depth", "motion"} |-> IF new[g] = 0 THEN old[g] ELSE new[g]]

\* mergeSameProviderFieldsLocked: two tags of the same frame are one capture, but
\* snapshots are never spliced.
Merged(old, new) ==
    IF new.owned \/ old.owned \/ old.guides = NoGuides \/ ~SameGeneration(old, new, 100) THEN new
    ELSE [new EXCEPT !.guides = Joined(old.guides, new.guides), !.safe = @ /\ old.safe,
                     !.list = IF @ = 0 THEN old.list ELSE @, !.queue = IF @ = 0 THEN old.queue ELSE @]

\* What the lock protects, as one value.
State == [capture |-> capture, slots |-> slots, seq |-> next.seq, gone |-> gone]
Becomes(s) == capture' = s.capture /\ slots' = s.slots /\ gone' = s.gone

\* markSnapshotCaptureConsumedLocked
Consumed(s, seq) ==
    [s EXCEPT !.slots = [x \in AllSlots |-> IF s.slots[x].staged.seq = seq /\ seq # 0
                                            THEN [s.slots[x] EXCEPT !.consumed = TRUE, !.staged = NoCapture]
                                            ELSE s.slots[x]],
              !.gone = @ \cup {seq}]

\* Mutant: the slot of the capture that is replaced is forgotten.
Unretired(s, new) == [s EXCEPT !.capture = new, !.gone = @ \cup ({s.capture.seq} \ {new.seq})]

\* The end of publishCaptureLocked.
Replaced(s, new) ==
    LET t == IF s.capture.owned /\ s.capture.seq # new.seq THEN Consumed(s, s.capture.seq) ELSE s
    IN [t EXCEPT !.capture = new, !.gone = @ \cup ({s.capture.seq} \ {new.seq})]

\* publishCaptureLocked of a live capture, which is given a number.
Published(s, new) ==
    IF ~CanReplace(s.capture, new) THEN s
    ELSE Replaced([s EXCEPT !.seq = @ + 1], [Merged(s.capture, new) EXCEPT !.seq = s.seq])

\* promoteCompletedSnapshotSlots: a completed copy becomes the capture, or is retired.
Promote(s, x) ==
    LET slot == s.slots[x]
    IN IF \/ slot.consumed \/ slot.value \in {0, InFlight} \/ reached[x[1]] < slot.value
          \/ slot.staged = NoCapture \/ s.capture.seq = slot.staged.seq
       THEN s
       ELSE IF CanReplace(s.capture, slot.staged) THEN Replaced(s, slot.staged)
            ELSE Consumed(s, slot.staged.seq)

\* Slot by slot, and queue by queue in the order of the map.
PromotedOf(s, q) ==
    LET after[i \in 0..Slots] == IF i = 0 THEN s ELSE Promote(after[i - 1], <<q, i>>)
    IN after[Slots]

Promoted(s, order) ==
    LET after[i \in 0..Len(order)] == IF i = 0 THEN s ELSE PromotedOf(after[i - 1], order[i])
    IN after[Len(order)]

\* The end of setGameTemporalGuideCaptureMode; releaseCapturedGameTemporalGuides does
\* the same at detach.
Released(s) ==
    [s EXCEPT !.capture = NoCapture,
              !.slots = [x \in AllSlots |-> [s.slots[x] EXCEPT !.consumed = TRUE, !.staged = NoCapture]],
              !.gone = @ \cup {s.capture.seq} \cup {s.slots[x].staged.seq : x \in AllSlots}]

---------------------------------------------------------------------------
(* The provider's threads.                                                 *)

\* pruneStalePendingProvidersLocked
Pruned == [l \in Lists |-> IF Fresh(pending[l].tick, game.now, 500) THEN pending[l] ELSE NoCapture]

\* queuePendingProviderGuides: guides for one command list are collected.
Queue(new) ==
    LET old == IF Fresh(pending[new.list].tick, new.tick, 500) THEN pending[new.list] ELSE NoCapture
        both == [new EXCEPT !.guides = Joined(old.guides, new.guides), !.frame = IF @ = 0 THEN old.frame ELSE @]
    IN pending' = [l \in Lists |->
                     CASE l = new.list -> IF old # NoCapture /\ SameGeneration(old, new, 250) THEN both ELSE new
                       [] l # new.list /\ Fresh(pending[l].tick, new.tick, 500) -> pending[l]
                       [] OTHER -> NoCapture]

\* A tag of Streamline or an evaluation of NGX: the mode is read without the lock.
Tag(t) ==
    /\ calls[t].pc = "idle" /\ game.togo > 0
    /\ \E tag \in Tags :
         calls' = [calls EXCEPT ![t] = [Idle EXCEPT !.pc = "tag", !.mode = mode, !.tag = tag,
                     !.guides = [NoCapture EXCEPT !.source = tag.source, !.guides[tag.kind] = game.frame,
                                   !.safe = tag.safe, !.list = tag.list, !.view = tag.view,
                                   !.frame = IF tag.dated THEN game.frame ELSE 0, !.tick = game.now]]]
    /\ game' = [game EXCEPT !.togo = @ - 1]
    /\ UNCHANGED <<mode, capture, pending, slots, next, submit, present, work, reached, texture, gone>>

\* captureSlTag and captureNgx12: what the mode wants of a tag.
Waits(m, tag) == m = "SnapshotOnly" /\ tag.list # 0 /\ (tag.source = "ngx" \/ tag.known)
Live(m, tag) ==
    CASE m = "Disabled" -> FALSE
      [] m = "PresentSafeOnly" -> tag.source = "streamline" /\ tag.safe
      [] m = "SnapshotOnly" -> tag.source = "streamline" /\ tag.safe /\ ~Waits(m, tag)
      [] m = "Full" -> TRUE

\* mergeCapture reads the mode again.
Accepted(m, c) == m = "Full" \/ (m # "Disabled" /\ c.source = "streamline" /\ c.safe)

Capture(t) ==
    /\ calls[t].pc = "tag"
    /\ LET c == calls[t]
       IN IF Waits(c.mode, c.tag) THEN Queue(c.guides) /\ UNCHANGED <<capture, slots, next, gone>>
          ELSE /\ UNCHANGED pending
               /\ \E m \in {c.mode, mode} :
                    IF Live(c.mode, c.tag) /\ Accepted(m, c.guides)
                    THEN \E s \in {Published(State, c.guides)} : Becomes(s) /\ next' = [next EXCEPT !.seq = s.seq]
                    ELSE UNCHANGED <<capture, slots, next, gone>>
    /\ calls' = [calls EXCEPT ![t] = Idle]
    /\ UNCHANGED <<mode, submit, present, work, reached, texture, game>>

\* hkSlEvaluateFeature: a tag without a command list is bound to the one that uses it,
\* and in mode SnapshotOnly waits for it as well.
Evaluate(t) ==
    /\ calls[t].pc = "idle" /\ capture.source = "streamline" /\ ~capture.owned /\ capture.safe
    /\ capture.list = 0 /\ Fresh(capture.tick, game.now, 250)
    /\ \E list \in Lists :
         /\ capture' = [capture EXCEPT !.list = list]
         /\ calls' = IF mode = "SnapshotOnly"
                     THEN [calls EXCEPT ![t] = [Idle EXCEPT !.pc = "bound",
                             !.guides = [capture EXCEPT !.list = list, !.queue = 0, !.seq = 0]]]
                     ELSE calls
    /\ UNCHANGED <<mode, pending, slots, next, submit, present, work, reached, texture, game, gone>>

Bound(t) ==
    /\ calls[t].pc = "bound"
    /\ Queue(calls[t].guides)
    /\ calls' = [calls EXCEPT ![t] = Idle]
    /\ UNCHANGED <<mode, capture, slots, next, submit, present, work, reached, texture, game, gone>>

---------------------------------------------------------------------------
(* hookExecute.                                                            *)

\* The game executes a command list, from one thread at a time; with snapshots pending the batch is split, one
\* thread at a time.
Execute(t) ==
    /\ calls[t].pc = "idle"
    /\ \E list \in Lists, queue \in Queues :
         /\ pending[list] # NoCapture \/ (capture.list = list /\ capture.queue # queue)
         /\ \A u \in Threads : calls[u].list # list
         /\ LET active == mode = "SnapshotOnly" /\ Pruned # [l \in Lists |-> NoCapture]
            IN calls' = [calls EXCEPT ![t] = [Idle EXCEPT !.pc = IF active THEN "lock" ELSE "note", !.list = list, !.queue = queue]]
    /\ pending' = IF mode = "SnapshotOnly" THEN Pruned ELSE pending
    /\ UNCHANGED <<mode, capture, slots, next, submit, present, work, reached, texture, game, gone>>

\* Mutant: the submissions of two threads are not kept apart.
Unserialized(t) == TRUE

\* guideSubmitMx
Serialized(t) == submit = None

Lock(t) ==
    /\ calls[t].pc = "lock" /\ Serialized(t)
    /\ submit' = t
    /\ calls' = [calls EXCEPT ![t].pc = IF mode = "SnapshotOnly" THEN "reserve" ELSE "note"]
    /\ UNCHANGED <<mode, capture, pending, slots, next, present, work, reached, texture, game, gone>>

\* snapshotLeaseAvailable: the staged capture, the current one and every copy of it a
\* reader has share the lease.
Leased(x) == \E c \in {capture, slots[x].staged} \cup present.held : c.slot = x

\* A slot that may be recorded again.
Free(x) ==
    /\ slots[x].value # InFlight /\ reached[x[1]] >= slots[x].value
    /\ slots[x].consumed /\ ~Leased(x)

\* The first free slot of the queue, if its command list can be reset: a resource that
\* could not be created has left it recording, and the allocator then refuses.
Reserve(t) ==
    /\ calls[t].pc = "reserve"
    /\ LET c == calls[t]
           waiting == Pruned[c.list]
           free == {i \in 1..Slots : Free(<<c.queue, i>>)}
           x == <<c.queue, CHOOSE i \in free : \A j \in free : i <= j>>
       IN /\ pending' = [Pruned EXCEPT ![c.list] = NoCapture]
          /\ IF waiting = NoCapture \/ free = {} \/ slots[x].list = "open"
             THEN calls' = [calls EXCEPT ![t].pc = "note"] /\ UNCHANGED <<slots, next>>
             ELSE \/ /\ slots' = [slots EXCEPT ![x] = [value |-> InFlight, consumed |-> FALSE, staged |-> NoCapture, list |-> "closed"]]
                     /\ next' = [next EXCEPT !.fence[c.queue] = @ + 1]
                     /\ calls' = [calls EXCEPT ![t] = [@ EXCEPT !.pc = "submit", !.guides = waiting, !.slot = x,
                                                                !.value = next.fence[c.queue]]]
                  \/ /\ "resource" \in Faults
                     /\ slots' = [slots EXCEPT ![x].staged = NoCapture, ![x].list = "open"]
                     /\ calls' = [calls EXCEPT ![t].pc = "note"] /\ UNCHANGED next
    /\ UNCHANGED <<mode, capture, submit, present, work, reached, texture, game, gone>>

\* The copy and its signal; without the signal the slot stays in flight for good.
Submit(t) ==
    /\ calls[t].pc = "submit"
    /\ \E value \in {calls[t].value} \cup {0 : f \in Faults \cap {"signal"}} :
         /\ work' = [work EXCEPT ![calls[t].queue] = Append(@, [slot |-> calls[t].slot, guides |-> calls[t].guides.guides, value |-> value])]
         /\ calls' = [calls EXCEPT ![t].pc = IF value = 0 THEN "note" ELSE "stage", ![t].guides.tick = game.now]
    /\ UNCHANGED <<mode, capture, pending, slots, next, submit, present, reached, texture, game, gone>>

\* The slot becomes a candidate, whatever happened since it was reserved.
Stage(t) ==
    /\ calls[t].pc = "stage"
    /\ LET c == calls[t]
           staged == [c.guides EXCEPT !.owned = TRUE, !.safe = TRUE, !.list = c.list, !.queue = c.queue,
                                      !.seq = next.seq, !.slot = c.slot]
       IN slots' = [slots EXCEPT ![c.slot] = [@ EXCEPT !.value = c.value, !.consumed = FALSE, !.staged = staged]]
    /\ next' = [next EXCEPT !.seq = @ + 1]
    /\ calls' = [calls EXCEPT ![t].pc = "note"]
    /\ UNCHANGED <<mode, capture, pending, submit, present, work, reached, texture, game, gone>>

\* noteGameTemporalGuideCommandListExecuted, and the end of hookExecute.
Note(t) ==
    /\ calls[t].pc = "note"
    /\ capture' = IF capture.source = "streamline" /\ capture.list = calls[t].list /\ ~capture.owned
                  THEN [capture EXCEPT !.queue = calls[t].queue] ELSE capture
    /\ calls' = [calls EXCEPT ![t] = Idle]
    /\ submit' = IF submit = t THEN None ELSE submit
    /\ UNCHANGED <<mode, pending, slots, next, present, work, reached, texture, game, gone>>

---------------------------------------------------------------------------
(* The presenting thread.                                                  *)

\* snapshotFor12: the Present of a frame promotes what is complete and takes a copy of
\* the capture, unless it is too old.
MaxAge(c) == CASE c.owned -> 2000 [] ~c.owned /\ c.safe -> 750 [] OTHER -> 50

Read ==
    /\ present.pc \in {"idle", "read"} /\ game.frame <= MaxFrames
    /\ \E order \in SetToSeqs(Queues) : \E s \in {Promoted(State, order)} :
         IF Fresh(s.capture.tick, game.now, MaxAge(s.capture))
         THEN Becomes(s) /\ present' = [pc |-> "idle", held |-> present.held \cup {s.capture}]
         ELSE /\ Becomes(IF s.capture.owned THEN [Consumed(s, s.capture.seq) EXCEPT !.capture = NoCapture] ELSE s)
              /\ present' = [present EXCEPT !.pc = "idle"]
    /\ game' = [game EXCEPT !.frame = @ + 1]
    /\ UNCHANGED <<mode, pending, next, submit, calls, work, reached, texture>>

\* The pipelines give a capture up: at the end of the Present, or, for the native
\* pipeline, when its GPU work is done.
GiveUp ==
    /\ \E c \in present.held : present' = [present EXCEPT !.held = @ \ {c}]
    /\ UNCHANGED <<mode, capture, pending, slots, next, submit, calls, work, reached, texture, game, gone>>

\* consumeCapturedGameTemporalGuides, for a live capture that recovery has used.
Consume ==
    /\ \E c \in present.held : ~c.owned /\ c.seq = capture.seq
    /\ capture' = NoCapture /\ gone' = gone \cup {capture.seq}
    /\ UNCHANGED <<mode, pending, slots, next, submit, calls, present, work, reached, texture, game>>

\* setGameTemporalGuideCaptureMode, early in a Present: the mode changes first, under
\* no lock.
SetMode ==
    /\ present.pc = "idle" /\ game.frame <= MaxFrames
    /\ \E m \in Modes \ {mode} : mode' = m
    /\ present' = [present EXCEPT !.pc = "clear"]
    /\ UNCHANGED <<capture, pending, slots, next, submit, calls, work, reached, texture, game, gone>>

Clear ==
    /\ present.pc = "clear"
    /\ Becomes(Released(State))
    /\ pending' = [l \in Lists |-> NoCapture]
    /\ present' = [present EXCEPT !.pc = "read"]
    /\ UNCHANGED <<mode, next, submit, calls, work, reached, texture, game>>

---------------------------------------------------------------------------
(* The queues and the clock.                                               *)

Gpu(q) ==
    /\ work[q] # <<>>
    /\ LET w == Head(work[q])
       IN /\ work' = [work EXCEPT ![q] = Tail(@)]
          /\ texture' = [texture EXCEPT ![w.slot] = Joined(@, w.guides)]
          /\ reached' = IF w.value = 0 THEN reached ELSE [reached EXCEPT ![q] = w.value]
    /\ UNCHANGED <<mode, capture, pending, slots, next, submit, calls, present, game, gone>>

\* A thread is quick: the clock ticks between calls.
Tick ==
    /\ game.now < MaxTime /\ \A t \in Threads : calls[t].pc = "idle"
    /\ game' = [game EXCEPT !.now = @ + Step]
    /\ UNCHANGED <<mode, capture, pending, slots, next, submit, calls, present, work, reached, texture, gone>>

Next ==
    \/ \E t \in Threads :
         \/ Tag(t) \/ Capture(t) \/ Evaluate(t) \/ Bound(t)
         \/ Execute(t) \/ Lock(t) \/ Reserve(t) \/ Submit(t) \/ Stage(t) \/ Note(t)
    \/ Read \/ GiveUp \/ Consume \/ SetMode \/ Clear
    \/ \E q \in Queues : Gpu(q)
    \/ Tick

Spec == Init /\ [][Next]_vars

---------------------------------------------------------------------------
(* The properties.                                                         *)

\* What a reader holds, and what the next one would be given, is the frame that was
\* copied: no copy into its textures is outstanding, none has overwritten them, and no
\* slot is recorded on while a copy of it is queued (game_temporal_guides.cpp:790-794,
\* dxgi_hooks.cpp:112-114).
Copies(x) == {i \in DOMAIN work[x[1]] : work[x[1]][i].slot = x}
SnapshotsHoldTheirFrame ==
    /\ \A c \in {capture} \cup present.held :
         c.owned => /\ Copies(c.slot) = {}
                    /\ \A g \in {"depth", "motion"} : c.guides[g] \in {0, texture[c.slot][g]}
    /\ \A x \in AllSlots : \A i, j \in Copies(x) : i = j

\* A capture that was replaced, rejected, expired or released is never current again,
\* and no Present is given it (game_temporal_guides.cpp:138-143, 192, 239, 757).
GoneStaysGone ==
    [][/\ capture'.seq # 0 => capture'.seq \notin gone
       /\ \A c \in present'.held \ present.held : c.seq \notin gone]_vars
=============================================================================
