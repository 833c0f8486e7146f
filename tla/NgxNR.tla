------------------------------- MODULE NgxNR -------------------------------
(***************************************************************************)
(* The in-process neural backend (src/src/neural/ngx_nr.cpp): it copies a  *)
(* frame's guides into a slot on the D3D11 context, evaluates the slot on  *)
(* a D3D12 queue, and shows or caches the result on the D3D11 context      *)
(* again.  The CPU and the two GPU queues run concurrently and meet only   *)
(* in two fences and one auto-reset event.                                 *)
(*                                                                         *)
(* A GPU command takes effect when it leaves its queue.  The content of a  *)
(* texture is the number of the Present it was made from (0: nothing).     *)
(***************************************************************************)
EXTENDS Integers, Sequences, SequencesExt, FiniteSetsExt

CONSTANTS
    FrameSlots,         \* kFrameSlots
    InitialFrameSlots,  \* kInitialFrameSlots
    Plans               \* bounds: settings, sizes and failures that may occur together

ASSUME NgxAssumption ==
    /\ FrameSlots \in Nat \ {0} /\ InitialFrameSlots \in 1..FrameSlots
    /\ \A p \in Plans :
          /\ p.presents \in Nat                               \* calls of evaluate
          /\ p.limits \subseteq InitialFrameSlots..FrameSlots  \* settings.maxFramesInFlight
          /\ p.modes \subseteq {"Synchronized", "Adaptive", "Asynchronous"}  \* settings.framePacing
          /\ p.passes \subseteq 1..4                           \* settings.nrPasses
          /\ p.extents \subseteq Nat \ {0}                     \* sizes of the swapchain
          /\ p.masks \subseteq BOOLEAN             \* whether a frame comes with a control mask
          /\ p.faults \subseteq {"initialize", "textures", "create", "refineCreate", "refine", "evaluate", "handover", "signal",
                               "timeout"}

VARIABLES
    plan,        \* bound: which of Plans this behaviour follows
    held,        \* what initialize acquired and shutdown gives back
    features,    \* [main, refinement, extent]
    slots,       \* FrameSlot of each slot: [completion, submission, source, open, textures, final]
    active,      \* activeSlotCount_
    seq,         \* [present, submission, consumed, producer, completion]
    cache,       \* [exists, valid, present]: cache_, cacheValid_, cachePresentSeq_
    call,        \* the evaluate call in progress
    d11, d12,    \* commands the two GPU queues still have to execute
    fence,       \* [producer, completion]: values the fences reached
    event,       \* [set, armed]: completionEvent_ and the values registered on it
    content,     \* [guides, output, cache]: what the textures hold
    texture,     \* D3D12 resource states of each slot's textures
    barriersMatch,
    lapses       \* history: what a fault has broken so far

vars == <<plan, held, features, slots, active, seq, cache, call, d11, d12, fence, event,
          content, texture, barriersMatch, lapses>>
gpu == <<d11, d12, fence, content>>

Slot == 1..FrameSlots
NoCall == [pc |-> "idle", waits |-> FALSE, caches |-> FALSE, limit |-> 0, slot |-> 0, passes |-> 1,
           mask |-> FALSE, recorded |-> <<>>, target |-> 0, next |-> "idle"]
FreshSlot == [completion |-> 0, submission |-> 0, source |-> 0, open |-> FALSE, textures |-> {},
              final |-> "output"]
FreshSeq == [present |-> 0, submission |-> 0, consumed |-> 0, producer |-> 0, completion |-> 0]
NoCache == [exists |-> FALSE, valid |-> FALSE, present |-> 0]
NoFeatures == [main |-> "none", refinement |-> "none", extent |-> 0]

---------------------------------------------------------------------------
(* Policy (neural_scheduler_policy.hpp).                                   *)

NeedsCache(mode) == mode # "Synchronized"

\* choosePresentation
UsesCached(mode, c, age) == /\ c.valid
                            /\ mode # "Synchronized" /\ (mode = "Adaptive" => age <= 1)
WaitsForCurrent(mode, c, age) == \/ mode = "Synchronized"
                                 \/ mode = "Adaptive" /\ ~(c.valid /\ age <= 1)

\* cacheAgeFrames
CacheAge(c, present) == IF c.valid THEN present - c.present ELSE 0

\* Mutant: a slot counts as free one completion too early.
ChooseNearlyComplete(frames, completed, activeSlots, maxSlots) ==
    LET free == {i \in 1..activeSlots : frames[i].completion <= completed + 1}
    IN IF free # {} THEN [slot |-> Min(free), active |-> activeSlots]
       ELSE IF activeSlots < maxSlots THEN [slot |-> activeSlots + 1, active |-> activeSlots + 1]
       ELSE [slot |-> 0, active |-> activeSlots]

\* Mutant: the pool grows past its limit.
GrowPastLimit(frames, completed, activeSlots, maxSlots) ==
    LET free == {i \in 1..activeSlots : frames[i].completion <= completed}
    IN IF free # {} THEN [slot |-> Min(free), active |-> activeSlots]
                    ELSE [slot |-> activeSlots + 1, active |-> activeSlots + 1]

\* chooseNeuralSlot: the first active slot that is not in flight, else one slot
\* more; 0 stands for backpressure.
ChooseNeuralSlot(frames, completed, activeSlots, maxSlots) ==
    LET free == {i \in 1..activeSlots : frames[i].completion <= completed}
    IN IF free # {} THEN [slot |-> Min(free), active |-> activeSlots]
       ELSE IF activeSlots < maxSlots THEN [slot |-> activeSlots + 1, active |-> activeSlots + 1]
       ELSE [slot |-> 0, active |-> activeSlots]

\* selectSlot: the active slots are first clamped to the settings.
ActiveSlots(limit) == Min({Max({active, InitialFrameSlots}), limit})
SelectSlot(frames, completed, limit) == ChooseNeuralSlot(frames, completed, ActiveSlots(limit), limit)

\* Growing takes the next slot without looking whether it is still in flight, which it may
\* be when the limit was lowered and raised again.
Regrown(frames, d, limit) ==
    IF \E i \in (ActiveSlots(limit) + 1)..FrameSlots : i = d.slot /\ frames[i].completion > fence.completion
      THEN lapses \cup {"regrown"} ELSE lapses

---------------------------------------------------------------------------
(* Resource barriers of one evaluation.                                    *)

Textures == {"input", "motion", "depth", "mask", "output", "scratch"}
Resting == [t \in Textures |-> "common"]
Transition(t, before, after) == [t |-> t, before |-> before, after |-> after]
Guides(mask) == <<"input", "motion", "depth">> \o (IF mask THEN <<"mask">> ELSE <<>>)

TransitionInitial(mask) ==
    [i \in DOMAIN Guides(mask) |-> Transition(Guides(mask)[i], "common", "read")]
        \o <<Transition("output", "common", "uav")>>

TransitionRefinement(src, dst, dstWasRead) ==
    <<Transition(src, "uav", "read"), Transition(dst, IF dstWasRead THEN "read" ELSE "common", "uav")>>

\* Mutant: the aborted pass restores only its source.
AbortSourceOnly(src, dst, dstWasRead) == <<Transition(src, "read", "uav")>>

TransitionRefinementAbort(src, dst, dstWasRead) ==
    <<Transition(src, "read", "uav"), Transition(dst, "uav", IF dstWasRead THEN "read" ELSE "common")>>

TransitionFinish(mask, finalScratch, hadRefinement) ==
    LET last  == IF finalScratch THEN "scratch" ELSE "output"
        other == IF finalScratch THEN "output" ELSE "scratch"
    IN [i \in DOMAIN Guides(mask) |-> Transition(Guides(mask)[i], "read", "common")]
        \o (IF hadRefinement THEN <<Transition(other, "read", "common")>> ELSE <<>>)
        \o <<Transition(last, "uav", "common")>>

\* The refinement passes 2..passes, the pass failAt (0: none) failing: they ping-pong
\* between output and scratch.
RefinementPasses(passes, failAt) ==
    LET tried    == IF failAt = 0 THEN passes ELSE failAt
        executed == IF failAt = 0 THEN passes ELSE failAt - 1
        src(p)   == IF p % 2 = 0 THEN "output" ELSE "scratch"
        dst(p)   == IF p % 2 = 0 THEN "scratch" ELSE "output"
        bound    == [k \in 1..(2 * (tried - 1)) |->
                        LET p == (k + 3) \div 2
                        IN TransitionRefinement(src(p), dst(p), p > 2)[((k + 1) % 2) + 1]]
    IN [barriers |-> bound \o IF failAt = 0 THEN <<>>
                               ELSE TransitionRefinementAbort(src(failAt), dst(failAt), failAt > 2),
        scratch |-> executed % 2 = 0, refined |-> executed > 1, aborted |-> failAt # 0]

\* What executing barriers does to the states st, and whether each one names the state
\* its texture is in by then.
Replay(st, barriers) ==
    LET on(t, k) == {j \in 1..(k - 1) : barriers[j].t = t}
        before(t, k) == IF on(t, k) = {} THEN st[t] ELSE barriers[Max(on(t, k))].after
    IN [match |-> \A k \in DOMAIN barriers : barriers[k].before = before(barriers[k].t, k),
        states |-> [t \in Textures |-> before(t, Len(barriers) + 1)]]

---------------------------------------------------------------------------
(* The GPU queues.                                                         *)

GuideCopy(i, n)   == [op |-> "guides", slot |-> i, frame |-> n]
\* From here on the context sees the new textures of a slot, which hold nothing.
Remade(i)         == GuideCopy(i, 0)
Produced(v)       == [op |-> "signal", slot |-> 0, frame |-> v]
ShowSlot(i, n)    == [op |-> "showSlot", slot |-> i, frame |-> n]
ShowCache(n)      == [op |-> "showCache", slot |-> 0, frame |-> n]
CacheSlot(i, n)   == [op |-> "cacheSlot", slot |-> i, frame |-> n]
Void              == [op |-> "void", slot |-> 0, frame |-> 0]
ResetCache        == [op |-> "resetCache", slot |-> 0, frame |-> 0]
\* Mutant: the queue waits for the hand-over before this one.
AwaitPrevious(v)  == [op |-> "wait", slot |-> 0, frame |-> v - 1]
AwaitProducer(v)  == [op |-> "wait", slot |-> 0, frame |-> v]
Initialise(i)     == [op |-> "initialise", slot |-> i, frame |-> 0]
Evaluation(i, n)  == [op |-> "evaluate", slot |-> i, frame |-> n]
Completed(v)      == [op |-> "complete", slot |-> 0, frame |-> v]

\* The D3D11 context executes its next command.
ContextStep ==
    /\ d11 # <<>>
    /\ LET c == Head(d11) IN
       /\ content' = IF c.op = "guides"
                       THEN [content EXCEPT !.guides[c.slot] = c.frame, !.output[c.slot] = IF c.frame = 0 THEN 0 ELSE @]
                     ELSE IF c.op = "cacheSlot" THEN [content EXCEPT !.cache = content.output[c.slot]]
                     ELSE IF c.op = "resetCache" THEN [content EXCEPT !.cache = 0]
                     ELSE content
       /\ fence' = IF c.op = "signal" THEN [fence EXCEPT !.producer = c.frame] ELSE fence
    /\ d11' = Tail(d11)
    /\ UNCHANGED <<plan, held, features, slots, active, seq, cache, call, d12, event, texture, barriersMatch, lapses>>

\* The D3D12 queue executes its next command; reaching a completion value sets the
\* event for every registration it satisfies.
QueueStep ==
    /\ d12 # <<>>
    /\ LET c == Head(d12) IN
       /\ c.op = "wait" => fence.producer >= c.frame
       /\ content' = IF c.op = "evaluate" THEN [content EXCEPT !.output[c.slot] = content.guides[c.slot]] ELSE content
       /\ fence' = IF c.op = "complete" THEN [fence EXCEPT !.completion = c.frame] ELSE fence
       /\ event' = [set |-> event.set \/ \E v \in event.armed : v <= fence'.completion,
                    armed |-> {v \in event.armed : v > fence'.completion}]
    /\ d12' = Tail(d12)
    /\ UNCHANGED <<plan, held, features, slots, active, seq, cache, call, d11, texture, barriersMatch, lapses>>

---------------------------------------------------------------------------
(* Waiting for a completion value (waitForCompletionValue, and the same    *)
(* code in submitFeatureInitialization): the fence is read once; after     *)
(* that only the event counts.                                             *)

\* Mutant: the value before the submission's is waited for.
WaitingShort(c, value, then) == [c EXCEPT !.pc = "wait", !.target = value - 1, !.next = then]
Waiting(c, value, then) == [c EXCEPT !.pc = "wait", !.target = value, !.next = then]

AlreadyComplete ==
    /\ call.pc = "wait" /\ fence.completion >= call.target
    /\ call' = [call EXCEPT !.pc = call.next]
    /\ UNCHANGED <<plan, held, features, slots, active, seq, cache, gpu, event, texture, barriersMatch, lapses>>

\* Mutant: the event is registered for the value after the one waited for.
ArmNextValue ==
    /\ call.pc = "wait" /\ fence.completion < call.target
    /\ event' = [event EXCEPT !.armed = @ \cup {call.target + 1}]
    /\ call' = [call EXCEPT !.pc = "armed"]
    /\ UNCHANGED <<plan, held, features, slots, active, seq, cache, gpu, texture, barriersMatch, lapses>>

ArmEvent ==
    /\ call.pc = "wait" /\ fence.completion < call.target
    /\ event' = [event EXCEPT !.armed = @ \cup {call.target}]
    /\ call' = [call EXCEPT !.pc = "armed"]
    /\ UNCHANGED <<plan, held, features, slots, active, seq, cache, gpu, texture, barriersMatch, lapses>>

Woken ==
    /\ call.pc = "armed" /\ event.set
    /\ event' = [event EXCEPT !.set = FALSE]
    /\ call' = [call EXCEPT !.pc = call.next]
    /\ lapses' = IF fence.completion < call.target THEN lapses \cup {"staleWake"} ELSE lapses
    /\ UNCHANGED <<plan, held, features, slots, active, seq, cache, gpu, texture, barriersMatch>>

\* The call gives up the slot it recorded: its initialization may have been submitted,
\* and then its textures stay as transitionInitial left them.
Abandoned == IF call.slot # 0 /\ texture[call.slot] # Resting THEN lapses \cup {"abandoned"} ELSE lapses

\* The wait times out: evaluate returns false and the registration stays.
TimedOut ==
    /\ call.pc = "armed" /\ ~event.set /\ "timeout" \in plan.faults
    /\ call' = NoCall
    /\ lapses' = Abandoned
    /\ UNCHANGED <<plan, held, features, slots, active, seq, cache, gpu, event, texture, barriersMatch>>

\* waitForSubmittedWork: up to two seconds, and the result is ignored.
AwaitSubmittedWork ==
    \/ /\ \A i \in Slot : slots[i].completion <= fence.completion
       /\ UNCHANGED lapses
    \/ /\ \E i \in Slot : slots[i].completion > fence.completion
       /\ "timeout" \in plan.faults
       /\ lapses' = lapses \cup {"releasedEarly"}

---------------------------------------------------------------------------
(* initialize and shutdown.                                                *)

InitStages == <<"d3d12", "fences", "slots", "core", "parameters", "snippet", "snippetState">>
AllStages == {InitStages[k] : k \in DOMAIN InitStages}
Initialized == held = AllStages

\* A failure of the first three stages returns with what is held so far; a later one
\* shuts everything down.  (initialize starts with shutdown.)
Initialize ==
    /\ call.pc = "idle" /\ ~Initialized
    /\ \/ held' = AllStages
       \/ /\ "initialize" \in plan.faults
          /\ \E k \in DOMAIN InitStages :
                held' = IF k <= 3 THEN {InitStages[j] : j \in 1..(k - 1)} ELSE {}
    /\ UNCHANGED <<plan, features, slots, active, seq, cache, call, gpu, event, texture, barriersMatch, lapses>>

\* Present numbers are not restarted here, so that frames stay distinct.  What the
\* game's context has still to show is shown; its other commands are about what is released.
Shutdown ==
    /\ call.pc = "idle" /\ held # {} /\ AwaitSubmittedWork
    /\ held' = {}
    /\ features' = NoFeatures
    /\ slots' = [i \in Slot |-> FreshSlot]
    /\ active' = InitialFrameSlots
    /\ seq' = [FreshSeq EXCEPT !.present = seq.present]
    /\ cache' = NoCache
    /\ d11' = [k \in DOMAIN d11 |-> IF d11[k].op \in {"showSlot", "showCache", "cacheSlot"} THEN d11[k] ELSE Void]
    /\ d12' = <<>>
    /\ fence' = [producer |-> 0, completion |-> 0]
    /\ event' = [set |-> FALSE, armed |-> {}]
    /\ texture' = [i \in Slot |-> Resting]
    /\ UNCHANGED <<plan, call, content, barriersMatch>>

---------------------------------------------------------------------------
(* evaluate, from its entry to the choice of a slot.                       *)

\* consumeLatestCompletedOutput: the newest completed output not yet consumed.
Consume(frames, c, completed) ==
    LET fresh == {i \in Slot : /\ frames[i].completion \in 1..completed
                               /\ frames[i].submission > seq.consumed}
        latest == CHOOSE i \in fresh : \A j \in fresh : frames[i].submission >= frames[j].submission
    IN IF fresh = {} \/ ~c.exists \/ frames[latest].final \notin frames[latest].textures
       THEN [cache |-> c, copies |-> <<>>, consumed |-> seq.consumed]
       ELSE [cache |-> [c EXCEPT !.valid = TRUE, !.present = frames[latest].source],
             copies |-> <<CacheSlot(latest, frames[latest].source)>>,
             consumed |-> frames[latest].submission]

\* What follows from a slot decision: record, wait for the oldest job, or give up.
Decide(c, frames, completed, d, mayWait) ==
    LET inFlight == {frames[i].completion : i \in {j \in 1..d.active : frames[j].completion > completed}}
    IN IF d.slot # 0 THEN [c EXCEPT !.pc = "resources", !.slot = d.slot]
       ELSE IF mayWait THEN Waiting(c, Min(inFlight), "reselect")
       ELSE NoCall

\* ensureSharedResources: another extent releases features, slots and cache, once
\* the submitted work is done; the pacing mode decides whether there is a cache.
Evaluate(mode, limit, extent) ==
    LET resized == extent # features.extent
        frames  == IF resized THEN [i \in Slot |-> [slots[i] EXCEPT !.completion = 0, !.submission = 0, !.textures = {},
                                                                         !.final = "output"]] ELSE slots
        created == NeedsCache(mode) /\ (resized \/ ~cache.exists)
        kept    == IF created THEN [exists |-> TRUE, valid |-> FALSE, present |-> cache.present]
                   ELSE IF NeedsCache(mode) THEN cache ELSE NoCache
        used    == Consume(frames, kept, fence.completion)
        present == seq.present + 1
        age     == CacheAge(used.cache, present)
        waits   == WaitsForCurrent(mode, used.cache, age)
        d       == SelectSlot(frames, fence.completion, limit)
    IN /\ call.pc = "idle" /\ Initialized /\ seq.present < plan.presents
       /\ IF resized THEN AwaitSubmittedWork ELSE lapses' = Regrown(frames, d, limit)
       /\ features' = IF resized THEN [NoFeatures EXCEPT !.extent = extent] ELSE features
       /\ slots' = frames
       /\ texture' = IF resized THEN [i \in Slot |-> Resting] ELSE texture
       /\ cache' = used.cache
       /\ seq' = [seq EXCEPT !.present = present, !.consumed = used.consumed]
       /\ active' = d.active
       /\ d11' = d11 \o (IF created THEN <<ResetCache>> ELSE <<>>) \o used.copies
                     \o (IF UsesCached(mode, used.cache, age) THEN <<ShowCache(used.cache.present)>> ELSE <<>>)
       /\ call' = Decide([NoCall EXCEPT !.waits = waits, !.caches = NeedsCache(mode), !.limit = limit],
                         frames, fence.completion, d, waits)
       /\ UNCHANGED <<plan, held, d12, fence, event, content, barriersMatch>>

\* After the catch-up wait a slot is chosen once more, without waiting again.
Reselect ==
    LET used == Consume(slots, cache, fence.completion)
        d    == SelectSlot(slots, fence.completion, call.limit)
    IN /\ call.pc = "reselect"
       /\ cache' = used.cache
       /\ seq' = [seq EXCEPT !.consumed = used.consumed]
       /\ d11' = d11 \o used.copies
       /\ active' = d.active
       /\ call' = Decide(call, slots, fence.completion, d, FALSE)
       /\ lapses' = Regrown(slots, d, call.limit)
       /\ UNCHANGED <<plan, held, features, slots, d12, fence, event, content, texture, barriersMatch>>

---------------------------------------------------------------------------
(* evaluate, from recording the slot to showing its result.                *)

\* Executing the slot's list: its barriers apply, and a completion value follows, ...
Execute(barriers) ==
    \E list \in {barriers} : \E r \in {Replay(texture[call.slot], list)} :
        /\ texture' = [texture EXCEPT ![call.slot] = r.states]
        /\ barriersMatch' = (barriersMatch /\ r.match)
Submit(command, barriers) ==
    /\ d12' = d12 \o <<command, Completed(seq.completion + 1)>>
    /\ Execute(barriers)

\* ... unless the queue's Signal fails: the list runs, the slot keeps the completion value it
\* had, and evaluate returns false.
SubmitUnsignalled(command, barriers) ==
    /\ "signal" \in plan.faults
    /\ d12' = Append(d12, command)
    /\ Execute(barriers)
    /\ seq' = [seq EXCEPT !.completion = @ + 1]
    /\ call' = NoCall
    /\ lapses' = lapses \cup {"unsignalled"} \cup (IF texture'[call.slot] = Resting THEN {} ELSE {"abandoned"})

SlotTextures(passes, mask) ==
    {"input", "motion", "depth", "output"} \cup (IF passes > 1 THEN {"scratch"} ELSE {})
                                           \cup (IF mask THEN {"mask"} ELSE {})

\* Remaking a slot's textures drops an output that was not consumed yet; should the call fail
\* after that, consumeLatestCompletedOutput takes the new, empty texture for that output.
DropsOutput(i) == IF slots[i].submission > seq.consumed THEN lapses \cup {"remade"} ELSE lapses

\* ensureSlotResources: textures the slot has and does not need are dropped; when one is
\* missing all are made again, which a slot in flight refuses and which may fail half-way.
EnsureSlotResources(passes, mask) ==
    LET i == call.slot
        needed == SlotTextures(passes, mask)
        ready == needed \subseteq slots[i].textures
    IN /\ call.pc = "resources"
       /\ \/ /\ ready
             /\ slots' = [slots EXCEPT ![i].textures = needed]
             /\ call' = [call EXCEPT !.pc = "record", !.passes = passes, !.mask = mask]
             /\ UNCHANGED <<d11, texture, lapses>>
          \/ /\ ~ready /\ slots[i].completion > fence.completion
             /\ call' = NoCall
             /\ UNCHANGED <<slots, d11, texture, lapses>>
          \/ /\ ~ready /\ slots[i].completion <= fence.completion
             /\ \/ /\ slots' = [slots EXCEPT ![i].textures = needed, ![i].final = "output"]
                   /\ call' = [call EXCEPT !.pc = "record", !.passes = passes, !.mask = mask]
                \/ /\ "textures" \in plan.faults
                   /\ \E some \in {{}, {"input", "output"}} :
                         slots' = [slots EXCEPT ![i].textures = some, ![i].final = "output"]
                   /\ call' = NoCall
             /\ d11' = Append(d11, Remade(i))
             /\ texture' = [texture EXCEPT ![i] = Resting]
             /\ lapses' = DropsOutput(i)
       /\ UNCHANGED <<plan, held, features, active, seq, cache, d12, fence, event, content, barriersMatch>>

\* The allocator and the list are reset (which fails while the list is still open), the guides
\* are copied, and the queue is told to wait for the copies.  When that hand-over fails, with
\* or without the signal, evaluate returns with the list open.
Record ==
    LET i == call.slot
        value == seq.producer + 1
        copied == Append(d11, GuideCopy(i, seq.present))
    IN /\ call.pc = "record"
       /\ \/ /\ slots[i].open
             /\ call' = NoCall
             /\ UNCHANGED <<slots, seq, d11, d12>>
          \/ /\ ~slots[i].open
             /\ slots' = [slots EXCEPT ![i].open = TRUE]
             /\ seq' = [seq EXCEPT !.producer = value]
             /\ \/ /\ d11' = Append(copied, Produced(value))
                   /\ d12' = Append(d12, AwaitProducer(value))
                   /\ call' = [call EXCEPT !.pc = "feature", !.recorded = TransitionInitial(call.mask)]
                \/ /\ "handover" \in plan.faults
                   /\ d11' \in {copied, Append(copied, Produced(value))}
                   /\ call' = NoCall
                   /\ UNCHANGED d12
       /\ UNCHANGED <<plan, held, features, active, cache, fence, event, content, texture, barriersMatch, lapses>>

\* submitFeatureInitialization: the list recorded so far is executed and waited for.
SubmitInitialization ==
    /\ Submit(Initialise(call.slot), call.recorded)
    /\ seq' = [seq EXCEPT !.completion = @ + 1]
    /\ slots' = [slots EXCEPT ![call.slot].completion = seq.completion + 1, ![call.slot].open = FALSE]
    /\ call' = Waiting([call EXCEPT !.recorded = <<>>], seq.completion + 1, "refinement")
    /\ UNCHANGED lapses
InitializationUnsignalled ==
    /\ SubmitUnsignalled(Initialise(call.slot), call.recorded)
    /\ slots' = [slots EXCEPT ![call.slot].open = FALSE]

\* ensureFeature: one attempt, until the extent changes or the backend restarts.
EnsureFeature ==
    /\ call.pc = "feature"
    /\ \/ /\ features.main = "created"
          /\ call' = [call EXCEPT !.pc = "refinement"]
          /\ UNCHANGED <<features, slots, seq, d12, texture, barriersMatch, lapses>>
       \/ /\ features.main = "failed" \/ (features.main = "none" /\ "create" \in plan.faults)
          /\ features' = [features EXCEPT !.main = "failed"]
          /\ slots' = [slots EXCEPT ![call.slot].open = FALSE]
          /\ call' = NoCall
          /\ UNCHANGED <<seq, d12, texture, barriersMatch, lapses>>
       \/ /\ features.main = "none"
          /\ features' = [features EXCEPT !.main = "created"]
          /\ SubmitInitialization \/ InitializationUnsignalled
    /\ UNCHANGED <<plan, held, active, cache, d11, fence, event, content>>

\* ensureRefinementFeature; the list is reset again after each initialization.
EnsureRefinement ==
    /\ call.pc = "refinement"
    /\ \/ /\ call.passes = 1 \/ features.refinement # "none"
          /\ slots' = [slots EXCEPT ![call.slot].open = TRUE]
          /\ call' = [call EXCEPT !.pc = "evaluate"]
          /\ UNCHANGED <<features, seq, d12, texture, barriersMatch, lapses>>
       \/ /\ call.passes > 1 /\ features.refinement = "none" /\ "refineCreate" \in plan.faults
          /\ features' = [features EXCEPT !.refinement = "unavailable"]
          /\ slots' = [slots EXCEPT ![call.slot].open = TRUE]
          /\ call' = [call EXCEPT !.pc = "evaluate"]
          /\ UNCHANGED <<seq, d12, texture, barriersMatch, lapses>>
       \/ /\ call.passes > 1 /\ features.refinement = "none"
          /\ features' = [features EXCEPT !.refinement = "created"]
          /\ SubmitInitialization \/ InitializationUnsignalled
    /\ UNCHANGED <<plan, held, active, cache, d11, fence, event, content>>

\* The passes, the execution of the list and the slot's bookkeeping.
EvaluateSlot ==
    LET i == call.slot
        passes == IF features.refinement = "created" THEN call.passes ELSE 1
        value == seq.completion + 1
    IN /\ call.pc = "evaluate"
       /\ \/ \E failAt \in {0} \cup (IF "refine" \in plan.faults THEN 2..passes ELSE {}) :
             \E r \in {RefinementPasses(passes, failAt)} :
             LET barriers == call.recorded \o r.barriers \o TransitionFinish(call.mask, r.scratch, r.refined)
                 final == IF r.scratch THEN "scratch" ELSE "output"
             IN /\ features' = IF r.aborted THEN [features EXCEPT !.refinement = "unavailable"] ELSE features
                /\ \/ /\ Submit(Evaluation(i, seq.present), barriers)
                      /\ slots' = [slots EXCEPT ![i] = [@ EXCEPT !.completion = value, !.open = FALSE, !.final = final,
                                                            !.source = seq.present, !.submission = seq.submission + 1]]
                      /\ seq' = [seq EXCEPT !.completion = value, !.submission = @ + 1]
                      /\ call' = IF call.waits THEN Waiting(call, value, "show") ELSE NoCall
                      /\ UNCHANGED lapses
                   \/ /\ SubmitUnsignalled(Evaluation(i, seq.present), barriers)
                      /\ slots' = [slots EXCEPT ![i].open = FALSE, ![i].final = final]
          \/ /\ "evaluate" \in plan.faults
             /\ slots' = [slots EXCEPT ![i].open = FALSE]
             /\ call' = NoCall
             /\ lapses' = Abandoned
             /\ UNCHANGED <<features, seq, d12, texture, barriersMatch>>
       /\ UNCHANGED <<plan, held, active, cache, d11, fence, event, content>>

Show ==
    LET i == call.slot
        caches == call.caches /\ cache.exists
    IN /\ call.pc = "show"
       /\ d11' = d11 \o <<ShowSlot(i, seq.present)>>
                     \o (IF caches THEN <<CacheSlot(i, slots[i].source)>> ELSE <<>>)
       /\ cache' = [cache EXCEPT !.valid = caches, !.present = IF caches THEN slots[i].source ELSE 0]
       /\ seq' = [seq EXCEPT !.consumed = slots[i].submission]
       /\ call' = NoCall
       /\ UNCHANGED <<plan, held, features, slots, active, d12, fence, event, content, texture, barriersMatch, lapses>>

---------------------------------------------------------------------------
Init ==
    /\ plan \in Plans
    /\ held = {} /\ features = NoFeatures
    /\ slots = [i \in Slot |-> FreshSlot]
    /\ active = InitialFrameSlots /\ seq = FreshSeq /\ cache = NoCache /\ call = NoCall
    /\ d11 = <<>> /\ d12 = <<>>
    /\ fence = [producer |-> 0, completion |-> 0]
    /\ event = [set |-> FALSE, armed |-> {}]
    /\ content = [guides |-> [i \in Slot |-> 0], output |-> [i \in Slot |-> 0], cache |-> 0]
    /\ texture = [i \in Slot |-> Resting]
    /\ barriersMatch = TRUE /\ lapses = {}

CpuStep ==
    \/ AlreadyComplete \/ ArmEvent \/ Woken \/ Reselect
    \/ \E passes \in plan.passes, mask \in plan.masks : EnsureSlotResources(passes, mask)
    \/ Record \/ EnsureFeature \/ EnsureRefinement \/ EvaluateSlot \/ Show

Next ==
    \/ Initialize \/ Shutdown
    \/ \E mode \in plan.modes, limit \in plan.limits, extent \in plan.extents : Evaluate(mode, limit, extent)
    \/ CpuStep \/ TimedOut
    \/ ContextStep \/ QueueStep

\* The thread inside evaluate keeps running and the GPU executes what it is given.
Fairness == WF_vars(CpuStep) /\ WF_vars(ContextStep) /\ WF_vars(QueueStep)

Spec == Init /\ [][Next]_vars /\ Fairness

---------------------------------------------------------------------------
(* Properties.  Where the code keeps a promise only while nothing of these *)
(* has happened, the property says lapses = {}:                            *)
(*   staleWake     a wait ended on a registration an expired wait left     *)
(*   releasedEarly work was released after two seconds, unfinished         *)
(*   regrown       the pool grew into a slot still in flight               *)
(*   remade        textures were remade under an output not consumed       *)
(*   unsignalled   a list was executed and the Signal after it failed      *)
(*   abandoned     a call was given up between initialization and passes   *)

\* Type invariant.
TypeOK ==
    /\ held \subseteq AllStages
    /\ features \in [main : {"none", "created", "failed"}, refinement : {"none", "created", "unavailable"},
                     extent : plan.extents \cup {0}]
    /\ slots \in [Slot -> [completion : Nat, submission : Nat, source : 0..plan.presents, open : BOOLEAN,
                       textures : SUBSET Textures, final : {"output", "scratch"}]]
    /\ active \in 1..FrameSlots
    /\ seq.present \in 0..plan.presents /\ seq.consumed \in 0..seq.submission
    /\ fence.completion \in 0..seq.completion /\ fence.producer \in 0..seq.producer
    /\ event.armed \subseteq 1..seq.completion
    /\ lapses \subseteq {"staleWake", "abandoned", "releasedEarly", "regrown", "remade", "unsignalled"}
    /\ texture \in [Slot -> [Textures -> {"common", "read", "uav"}]]

\* An evaluation reads the guides of its own frame, although the slot's textures are
\* filled by another queue (ngx_nr.cpp:519-534): up to the first lapse.
EvaluatesOwnGuides ==
    [][d12 # <<>> /\ d12' = Tail(d12) /\ lapses = {} =>
         LET c == Head(d12) IN c.op = "evaluate" => content.guides[c.slot] = c.frame]_d12

\* A slot's allocator is reset, and its feature and textures are released, only when the
\* queue has nothing of it left to execute (ngx_nr.cpp:886-889 reports an attempt to
\* recycle an in-flight slot as an error): up to the first lapse.
InFlight(i) == \E k \in DOMAIN d12 : d12[k].slot = i
Recycled(i) == ~slots[i].open /\ slots'[i].open
Released(i) == slots[i].completion # 0 /\ slots'[i].completion = 0
NoReuseInFlight ==
    [][\A i \in Slot : (Recycled(i) \/ Released(i)) /\ lapses' = {} => ~InFlight(i)]_slots

\* What reaches the screen is the frame the CPU believes it shows: the current one after
\* a wait, and from the cache the one its age was computed from (ngx_nr.cpp:444-458,
\* 642-658, 1054-1073): up to the first lapse.
Shown(c) ==
    /\ c.op = "showSlot" => content.output[c.slot] = c.frame
    /\ c.op = "showCache" => content.cache = c.frame
ShowsWhatItReports ==
    [][d11 # <<>> /\ d11' = Tail(d11) /\ lapses = {} => Shown(Head(d11))]_d11

\* Every barrier of an executed list names the state its texture is in, whatever passes
\* were run or aborted (ngx_nr.cpp:1002-1032, 1075-1093), and between two calls the
\* textures of a slot are back in the common state, which sharing with D3D11 requires:
\* until a call is abandoned between a feature's initialization and its evaluation.
BarriersMatch ==
    "abandoned" \notin lapses =>
        /\ barriersMatch
        /\ call.pc = "idle" => \A i \in Slot : texture[i] = Resting

\* evaluate returns: every value it waits for is one the queue was told to signal.
EvaluateReturns == call.pc # "idle" ~> call.pc = "idle"
=============================================================================
