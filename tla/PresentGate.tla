------------------------------ MODULE PresentGate ------------------------------
(***************************************************************************)
(* What the detours of DXGI and of ExecuteCommandLists decide for each     *)
(* swapchain (dxgi_hooks.cpp): who processes a Present, when processing is *)
(* suspended after a Present that failed, which queue a D3D12 pipeline is  *)
(* built on, and when a pipeline is reset or built anew.                   *)
(*                                                                         *)
(* Threads present any swapchain and execute command lists at any time;    *)
(* the lock mx covers single steps only.                                   *)
(***************************************************************************)
EXTENDS QueueProof

CONSTANTS
    Threads,      \* threads of the game
    Chains,       \* addresses of swapchains
    Native,       \* those of D3D11; the others are D3D12's
    Queues,       \* direct queues
    Large,        \* swapchains half as large again as the others
    Marks,        \* barriers a list may hold: [legacy, enhanced, present]
    Inputs,       \* settings and outcomes a Present may meet
    Stable,       \* Presents before processing: 8 (D3D11: 3) in the code
    Steady,       \* Presents with the same colors before processing: 4 in the code
    Kinds,        \* flags of a Present: "plain", "test", "doNotWait"
    MaxCalls, MaxLists, MaxEvents  \* bounds: calls of the game; those that record lists, and others than Presents

ASSUME GateAssumption ==
    /\ Native \subseteq Chains /\ Large \subseteq Chains /\ Kinds \subseteq {"plain", "test", "doNotWait"} /\ None \notin Chains \cup Queues
    /\ Stable \in Nat /\ Steady \in Nat
    /\ Marks \subseteq [legacy : BOOLEAN, enhanced : BOOLEAN, present : BOOLEAN]
    /\ \A m \in Marks : m.legacy \/ m.enhanced
    /\ Inputs \subseteq [enabled : BOOLEAN, elected : BOOLEAN, reset : BOOLEAN, secondary : BOOLEAN,
                         external : BOOLEAN, on12 : BOOLEAN]
    /\ MaxCalls \in Nat /\ MaxLists \in Nat /\ MaxEvents \in Nat

VARIABLES
    gate,       \* swaps: one SwapCtx for each address
    capturing,  \* queueTouchCaptureEnabled
    touches,    \* commandListTouches: the list each thread records
    mode,       \* the guides' capture mode
    primary,    \* the swapchain that is processed when others are not
    quiet,      \* swapchains that displayed nothing for two seconds
    calls,      \* the threads' calls in progress
    game,       \* [calls, lists, events]: what the game has left to do
    unclean,    \* history: no clean Present was recorded since a processed one failed
    seen,       \* history: [made, latest, count] of the queues' evidence
    strayed     \* history: swapchains that kept a queue their route does not name

vars == <<gate, capturing, touches, mode, primary, quiet, calls, game, unclean, seen, strayed>>

NoTouch == [chains |-> {}, mark |-> [legacy |-> FALSE, enhanced |-> FALSE, present |-> FALSE]]
NoPipe == [on |-> None, label |-> None, recovery |-> FALSE, lost |-> FALSE]
Idle == [pc |-> "idle", chain |-> None, kind |-> "plain", owns |-> FALSE, ok |-> FALSE, alone |-> FALSE,
         queue |-> None, id |-> None, touch |-> NoTouch]

\* A swapchain that was created under the hooks, or before they were there.
NewGate(q) ==
    [proof |-> IF q = None THEN NoProof ELSE Proven(q), evidence |-> IF q = None THEN NoEvidence ELSE Created(NoEvidence, q),
     q12 |-> q, registered |-> FALSE, stable |-> 0, suppressed |-> FALSE, resync |-> FALSE, busy |-> FALSE,
     dirty |-> FALSE, steady |-> 0, built |-> FALSE, pipe |-> NoPipe]

\* Barriers are recorded from the start, until a refresh finds them unwanted.
Init ==
    /\ \E made \in [Chains -> Queues \cup {None}] :
         /\ \A s \in Native : made[s] = None
         /\ gate = [s \in Chains |-> NewGate(made[s])]
         /\ seen = [s \in Chains |-> [made |-> made[s], latest |-> made[s], count |-> [q \in Queues |-> 0]]]
    /\ capturing = TRUE /\ touches = [t \in Threads |-> NoTouch] /\ mode = "SnapshotOnly"
    /\ primary = None /\ quiet = {} /\ calls = [t \in Threads |-> Idle]
    /\ game = [calls |-> MaxCalls, lists |-> MaxLists, events |-> MaxEvents]
    /\ unclean = [s \in Chains |-> FALSE] /\ strayed = {}

---------------------------------------------------------------------------
(* Evidence.                                                               *)

\* refreshQueueTouchCapture, and setD3D12QueueTouchCaptureEnabled, which drops what the
\* lists have touched when the flag changes. The flag is taken to be stored as it is
\* computed: in the code it is stored without the lock it is computed under.
Wanted(g) == \E s \in Chains : g[s].registered /\ Route(g[s].proof, g[s].evidence, FALSE).recovery
Refresh(g) ==
    /\ capturing' = Wanted(g)
    /\ touches' = IF Wanted(g) = capturing THEN touches ELSE [t \in Threads |-> NoTouch]

\* noteQueueEvidence: the queue is kept while anything is trusted, whatever it showed.
\* All queues are of the swapchain's device; the code passes over those that are not.
Noted(c, q, m) ==
    LET once == IF m.present /\ m.enhanced THEN Scored(c.evidence, q) ELSE c.evidence
        twice == IF m.present /\ m.legacy THEN Scored(once, q) ELSE once
        proof == IF m.present THEN Observed(c.proof, q) ELSE c.proof
        trusted == proof.trusted # None \/ RecoveryTrusted(twice)
    IN [c EXCEPT !.proof = proof, !.evidence = twice,
                 !.q12 = IF trusted THEN q ELSE IF proof.proven THEN @ ELSE None]

Counted(h, q, m) ==
    IF ~m.present THEN h
    ELSE [made |-> h.made, latest |-> q,
          count |-> [h.count EXCEPT ![q] = AtMost(2, @ + (IF m.legacy /\ m.enhanced THEN 2 ELSE 1))]]

\* onResourceBarriers, onEnhancedBarriers: a list touches back buffers; that a barrier is
\* to or from PRESENT is kept for the whole list, whichever resource it was about.
Record(t, S, m) ==
    /\ calls[t].pc = "idle" /\ touches[t] = NoTouch /\ capturing /\ game.lists > 0 /\ game.calls > 0
    /\ touches' = [touches EXCEPT ![t] = [chains |-> S, mark |-> m]]
    /\ game' = [game EXCEPT !.calls = @ - 1, !.lists = @ - 1]
    /\ UNCHANGED <<gate, capturing, mode, primary, quiet, calls, unclean, seen, strayed>>

\* hookExecute: the owners of what the list touched are looked up before it is executed.
Execute(t, q) ==
    /\ calls[t].pc = "idle" /\ touches[t] # NoTouch /\ capturing
    /\ LET owners == {s \in touches[t].chains : gate[s].registered}
       IN calls' = IF owners = {} THEN calls
                   ELSE [calls EXCEPT ![t] = [Idle EXCEPT !.pc = "note", !.queue = q, !.touch = [touches[t] EXCEPT !.chains = owners]]]
    /\ touches' = [touches EXCEPT ![t] = NoTouch]
    /\ UNCHANGED <<gate, capturing, mode, primary, quiet, game, unclean, seen, strayed>>

\* ... and learn about the queue afterwards, one after the other.
Note(t, s) ==
    LET c == calls[t]
        after == [gate EXCEPT ![s] = Noted(@, c.queue, c.touch.mark)]
        rest == c.touch.chains \ {s}
    IN /\ c.pc = "note" /\ s \in c.touch.chains
       /\ gate' = after /\ Refresh(after)
       /\ seen' = [seen EXCEPT ![s] = Counted(@, c.queue, c.touch.mark)]
       /\ strayed' = IF after[s].q12 \in {None, Route(after[s].proof, after[s].evidence, FALSE).queue}
                     THEN strayed ELSE strayed \cup {s}
       /\ calls' = [calls EXCEPT ![t] = IF rest = {} THEN Idle ELSE [@ EXCEPT !.touch.chains = rest]]
       /\ UNCHANGED <<mode, primary, quiet, game, unclean>>

\* A call that is neither a Present nor a list.
Event == game.events > 0 /\ game.calls > 0 /\ game' = [game EXCEPT !.calls = @ - 1, !.events = @ - 1]

\* hookCreateSwap and its siblings: a new swapchain, at an address that was used before.
Create(s, q) ==
    LET after == [gate EXCEPT ![s].proof = Proven(q), ![s].evidence = Created(@, q), ![s].q12 = q]
    IN /\ s \notin Native /\ Event /\ \A t \in Threads : calls[t].chain # s
       /\ gate' = after /\ Refresh(after)
       /\ seen' = [seen EXCEPT ![s] = [made |-> q, latest |-> q, count |-> [x \in Queues |-> 0]]]
       /\ UNCHANGED <<mode, primary, quiet, calls, unclean, strayed>>

---------------------------------------------------------------------------
(* A Present.                                                              *)

At(t, pc) == calls[t].pc = pc
Goes(t, pc) == calls' = [calls EXCEPT ![t].pc = pc]

\* hookPresent, hookPresent1: TEST and DO_NOT_WAIT are never processed, nor is anything
\* while processing is suspended. It is alone if no other Present of its swapchain is in
\* progress between this look at the suspension and its claim.
Begin(t, s, kind) ==
    /\ At(t, "idle") /\ game.calls > 0
    /\ calls' = [u \in Threads |->
                   IF u = t THEN [Idle EXCEPT !.pc = IF kind = "plain" /\ ~gate[s].suppressed THEN "claim" ELSE "present",
                                              !.chain = s, !.kind = kind, !.alone = \A v \in Threads \ {t} : calls[v].chain # s]
                   ELSE IF calls[u].chain = s /\ calls[u].pc = "claim" THEN [calls[u] EXCEPT !.alone = FALSE]
                   ELSE calls[u]]
    /\ game' = [game EXCEPT !.calls = @ - 1]
    /\ UNCHANGED <<gate, capturing, touches, mode, primary, quiet, unclean, seen, strayed>>

\* tryBeginPresentWork, some time after the look at the suspension.
Claim(t) ==
    LET s == calls[t].chain
    IN /\ At(t, "claim")
       /\ gate' = [gate EXCEPT ![s].busy = TRUE]
       /\ calls' = [calls EXCEPT ![t].pc = IF gate[s].busy THEN "present" ELSE "process", ![t].owns = ~gate[s].busy]
       /\ UNCHANGED <<capturing, touches, mode, primary, quiet, game, unclean, seen, strayed>>

\* D3D11Pipeline::reset, D3D12On12Pipeline::reset: the history goes, the pipeline stays.
Reset(c) == [c EXCEPT !.pipe.lost = FALSE]

\* The start of process: a resync that is due, and one more stable Present.
Started(c) ==
    LET d == IF c.resync THEN [Reset(c) EXCEPT !.resync = FALSE, !.stable = 1] ELSE c
    IN [d EXCEPT !.stable = AtMost(Stable, @ + 1)]

\* The middle: settings, a history reset the user asked for, and the colors.
Colored(c, in) ==
    LET d == IF in.reset THEN Reset(c) ELSE c
    IN IF d.dirty
       THEN [Reset(d) EXCEPT !.dirty = FALSE, !.steady = 1, !.stable = 1]
       ELSE [d EXCEPT !.steady = AtMost(Steady, @ + 1)]

\* The selection of one swapchain among several.
Promotes(s) == primary \in {None, s} \/ primary \in quiet \/ (s \in Large /\ primary \notin Large)

Process(t, in) ==
    LET s == calls[t].chain
        d == Started(gate[s])
        c == IF in.enabled THEN Colored(d, in) ELSE d
        picks == in.enabled /\ in.elected /\ c.steady >= Steady
    IN /\ At(t, "process")
       /\ gate' = [gate EXCEPT ![s] = c]
       /\ primary' = IF picks /\ ~in.secondary /\ Promotes(s) THEN s ELSE primary
       /\ Goes(t, IF picks /\ (in.secondary \/ Promotes(s)) THEN "route" ELSE "present")
       /\ UNCHANGED <<capturing, touches, mode, quiet, game, unclean, seen, strayed>>

\* The 350 ms (D3D11: 120 ms) since the first Present are taken to pass with them.
Ready(c) == c.stable >= Stable

\* The D3D11 branch of process.
RouteD3D11(t) ==
    LET s == calls[t].chain
    IN /\ At(t, "route") /\ s \in Native
       /\ mode' = "Full"
       /\ IF ~Ready(gate[s]) THEN Goes(t, "present") /\ UNCHANGED gate
          ELSE \E done \in BOOLEAN :  \* the first use initializes the pipeline, which may fail
                 /\ gate' = [gate EXCEPT ![s].built = @ \/ done]
                 /\ Goes(t, IF gate[s].built \/ done THEN "use" ELSE "present")
       /\ UNCHANGED <<capturing, touches, primary, quiet, game, unclean, seen, strayed>>

\* Mutant: a pipeline is kept whatever its queue.
Kept(c, route) == c.built

\* A pipeline is used again only on its queue and in its mode.
Keeps(c, route) == c.built /\ c.pipe.label = route.queue /\ c.pipe.recovery = route.recovery

\* The D3D12 branch: back buffers, route, capture mode, pipeline.
RouteD3D12(t, in) ==
    LET s == calls[t].chain
        reg == [gate EXCEPT ![s].registered = TRUE]
        c == gate[s]
        route == Route(c.proof, c.evidence, in.external)
        proven == IF route.queue = None THEN None ELSE c.q12
        fresh == [NoPipe EXCEPT !.on = proven, !.label = route.queue, !.recovery = route.recovery]
    IN /\ At(t, "route") /\ s \notin Native
       /\ IF c.registered THEN UNCHANGED <<capturing, touches>> ELSE Refresh(reg)
       /\ mode' = IF proven # None /\ ~route.recovery THEN "Full" ELSE "SnapshotOnly"
       /\ IF ~(Ready(c) /\ proven # None /\ in.on12) THEN Goes(t, "present") /\ gate' = reg
          ELSE \E done \in BOOLEAN :
                 LET pipe == IF Keeps(c, route) THEN c.pipe ELSE IF done THEN fresh ELSE NoPipe
                     built == Keeps(c, route) \/ done
                 IN /\ gate' = [reg EXCEPT ![s].pipe = pipe, ![s].built = built]
                    /\ calls' = [calls EXCEPT ![t].pc = IF built THEN "use" ELSE "present",
                                              ![t].queue = pipe.on, ![t].id = route.queue]
       /\ UNCHANGED <<primary, quiet, game, unclean, seen, strayed>>

\* The pipeline's own process returns.
Leave(t) ==
    /\ At(t, "use")
    /\ calls' = [calls EXCEPT ![t].pc = "present", ![t].queue = None, ![t].id = None]
    /\ UNCHANGED <<gate, capturing, touches, mode, primary, quiet, game, unclean, seen, strayed>>

\* The original Present returns; ok: S_OK, and not a status or an error.
Return(t, ok) ==
    LET s == calls[t].chain
        fails == calls[t].owns /\ ~ok
    IN /\ At(t, "present")
       /\ calls' = [calls EXCEPT ![t].pc = "update", ![t].ok = ok]
       /\ unclean' = [unclean EXCEPT ![s] = @ \/ fails]
       /\ gate' = [gate EXCEPT ![s].pipe.lost = @ \/ (fails /\ gate[s].built)]
       /\ UNCHANGED <<capturing, touches, mode, primary, quiet, game, seen, strayed>>

\* Mutant: a clean Present only lifts the suspension.
UpdateOnly(t) ==
    LET s == calls[t].chain
        c == calls[t]
        arms == c.kind = "plain" /\ c.owns /\ ~c.ok
        clean == c.kind = "plain" /\ ~c.owns /\ c.ok
        clears == clean /\ gate[s].suppressed
    IN /\ At(t, "update")
       /\ gate' = [gate EXCEPT ![s].suppressed = (@ \/ arms) /\ ~clears, ![s].busy = @ /\ ~c.owns]
       /\ calls' = [calls EXCEPT ![t] = Idle]
       /\ unclean' = [unclean EXCEPT ![s] = @ /\ ~clean]
       /\ UNCHANGED <<capturing, touches, mode, primary, quiet, game, seen, strayed>>

\* countSuccessfulPresent, updatePresentMutationState and, if nothing is left to write,
\* endPresentWork: in between, others find the swapchain busy, as they did before.
Update(t) ==
    LET s == calls[t].chain
        c == calls[t]
        arms == c.kind = "plain" /\ c.owns /\ ~c.ok
        clean == c.kind = "plain" /\ ~c.owns /\ c.ok
        clears == clean /\ gate[s].suppressed
    IN /\ At(t, "update")
       /\ quiet' = IF c.ok /\ c.kind # "test" THEN quiet \ {s} ELSE quiet
       /\ gate' = [gate EXCEPT ![s].suppressed = (@ \/ arms) /\ ~clears, ![s].busy = @ /\ ~c.owns]
       /\ calls' = [calls EXCEPT ![t] = IF clears THEN [@ EXCEPT !.pc = "resync"] ELSE Idle]
       /\ unclean' = [unclean EXCEPT ![s] = @ /\ ~clean]
       /\ UNCHANGED <<capturing, touches, mode, primary, game, seen, strayed>>

\* The second assignment, without the lock.
Resync(t) ==
    /\ At(t, "resync")
    /\ gate' = [gate EXCEPT ![calls[t].chain].resync = TRUE]
    /\ calls' = [calls EXCEPT ![t] = Idle]
    /\ UNCHANGED <<capturing, touches, mode, primary, quiet, game, unclean, seen, strayed>>

---------------------------------------------------------------------------
(* Other calls of the game, and time.                                      *)

\* hookResize, hookResize1: under the lock, which process does not hold.
Resize(s) ==
    LET after == [gate EXCEPT ![s] = [Reset(@) EXCEPT !.registered = FALSE, !.dirty = TRUE]]
    IN /\ Event /\ gate' = after /\ Refresh(after)
       /\ primary' = IF primary = s THEN None ELSE primary
       /\ UNCHANGED <<mode, quiet, calls, unclean, seen, strayed>>

\* hookSetFullscreen, hookSetColorSpace, hookSetHdrMeta, or a signature that changed
Recolor(s) ==
    /\ Event /\ gate' = [gate EXCEPT ![s].dirty = TRUE]
    /\ UNCHANGED <<capturing, touches, mode, primary, quiet, calls, unclean, seen, strayed>>

\* Two seconds have passed since the last Present that was counted.
Quieten(s) ==
    /\ Event /\ quiet' = quiet \cup {s}
    /\ UNCHANGED <<gate, capturing, touches, mode, primary, calls, unclean, seen, strayed>>

Next ==
    \/ \E t \in Threads :
         \/ \E S \in SUBSET (Chains \ Native) \ {{}}, m \in Marks : Record(t, S, m)
         \/ \E q \in Queues : Execute(t, q)
         \/ \E s \in Chains : Note(t, s)
         \/ \E s \in Chains, kind \in Kinds : Begin(t, s, kind)
         \/ Claim(t)
         \/ \E in \in Inputs : Process(t, in) \/ RouteD3D12(t, in)
         \/ RouteD3D11(t) \/ Leave(t) \/ Update(t) \/ Resync(t)
         \/ \E ok \in BOOLEAN : Return(t, ok)
    \/ \E s \in Chains :
         \/ \E q \in Queues : Create(s, q)
         \/ Resize(s) \/ Recolor(s) \/ Quieten(s)

Spec == Init /\ [][Next]_vars

---------------------------------------------------------------------------
(* Properties.                                                             *)

SomeQueue == Queues \cup {None}
TouchType == [chains : SUBSET Chains, mark : Marks \cup {NoTouch.mark}]
PipeType == [on : SomeQueue, label : SomeQueue, recovery : BOOLEAN, lost : BOOLEAN]
ProofType == [candidate : SomeQueue, trusted : SomeQueue, count : 0..2, proven : BOOLEAN]
EvidenceType == [candidate : SomeQueue, score : Nat, matches : 0..2, created : BOOLEAN, seen : BOOLEAN]
GateType ==
    [proof : ProofType, evidence : EvidenceType, q12 : SomeQueue, registered : BOOLEAN,
     stable : Nat, suppressed : BOOLEAN, resync : BOOLEAN, busy : BOOLEAN,
     dirty : BOOLEAN, steady : Nat, built : BOOLEAN, pipe : PipeType]
CallPcs == {"idle", "note", "claim", "process", "route", "use", "present", "update", "resync"}
CallType ==
    [pc : CallPcs, chain : Chains \cup {None}, kind : Kinds \cup {"plain"}, owns : BOOLEAN, ok : BOOLEAN,
     alone : BOOLEAN, queue : SomeQueue, id : SomeQueue, touch : TouchType]
GameType == [calls : Nat, lists : Nat, events : Nat]
SeenType == [made : SomeQueue, latest : SomeQueue, count : [Queues -> 0..2]]

\* Type invariant.
TypeOK ==
    /\ gate \in [Chains -> GateType] /\ calls \in [Threads -> CallType]
    /\ capturing \in BOOLEAN /\ touches \in [Threads -> TouchType]
    /\ mode \in {"SnapshotOnly", "Full"} /\ primary \in Chains \cup {None} /\ quiet \subseteq Chains
    /\ game \in GameType
    /\ unclean \in [Chains -> BOOLEAN] /\ seen \in [Chains -> SeenType]
    /\ strayed \subseteq Chains

\* If a pipeline works for a Present that was alone from its look at the suspension
\* (dxgi_hooks.cpp:272) to its claim (273), a clean Present was recorded since a processed
\* one failed, and the pipeline's history holds no frame from before it
\* (present_processing_policy.hpp:5-9, dxgi_hooks.cpp:155-172), whatever other Presents,
\* resizes and lists do before the look and after the claim. Presents that are not alone
\* do reach a pipeline while processing is suspended, or before the resync (171).
CleanFirst ==
    \A t \in Threads :
        calls[t].pc = "use" /\ calls[t].alone =>
            LET s == calls[t].chain IN ~unclean[s] /\ ~gate[s].pipe.lost

\* A D3D12 pipeline works on the queue its route names, and that queue created the
\* swapchain or was sighted presenting it twice; where nothing proves a creation, no other
\* queue was sighted since (dxgi_hooks.cpp:74-79, 231-249, d3d12_recovery_policy.hpp:34-37).
\* A sighting is a list that touches a back buffer and holds a barrier to or from PRESENT.
\* Swapchains that kept a queue their route does not name are OnlyOnProvenQueue's matter.
Shown(h, q) == q = h.made \/ (h.count[q] = 2 /\ (h.made = None => h.latest = q))
StartsOnShown ==
    \A t \in Threads :
        calls'[t].pc = "use" /\ calls[t].pc # "use" /\ calls[t].chain \notin Native \cup strayed =>
            calls'[t].queue = calls'[t].id /\ Shown(seen[calls[t].chain], calls'[t].id)
WorksOnShownQueue == [][StartsOnShown]_vars

\* A swapchain is processed only on a queue that created it or was seen to present it:
\* "must stay passthrough until queue ownership is proven"
\* (docs/superpowers/plans/2026-09-13-v031-d3d12-queue-safety.md:17).
OnlyOnProvenQueue ==
    \A t \in Threads : calls[t].pc = "use" /\ calls[t].chain \notin Native =>
        Shown(seen[calls[t].chain], calls[t].queue)
=============================================================================
