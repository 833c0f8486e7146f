--------------------------- MODULE D3D11Pipeline ---------------------------
(***************************************************************************)
(* The D3D11 pipeline (src/src/gpu/d3d11_pipeline.cpp): it gathers the     *)
(* guides of a Present, chooses where its motion vectors come from, has a  *)
(* neural backend evaluate it, and keeps three histories from one Present  *)
(* to the next: the colour of the last frame, the reduced colour of the    *)
(* HLSL optical flow, and the inputs of the hardware optical flow.         *)
(* Contents of textures are the numbers of the Presents they show.         *)
(***************************************************************************)
EXTENDS TemporalGuides, NvOpticalFlow, NeuralBackends

CONSTANTS
    SettingsSet,   \* values of settings: [motion, down, gap, mode]
    Extents,       \* sizes of the swapchain
    Trackers,      \* what the trackers may have found: [depth, motion, camera]
    Supplies,      \* what a source of guides may give: [known, age, view, depth, motion, cut, source]
    Starts,        \* which backends may be able to start: sets of them
    Faults,        \* which failures happen
    NvofHardware,  \* whether the accelerator can do what it is asked for
    MaxPresents    \* bound: Presents

ASSUME PipelineAssumption ==
    /\ SettingsSet \subseteq [motion : {"Auto", "Flow", "Zero"}, down : Nat \ {0}, gap : BOOLEAN, mode : BackendModes]
    /\ Extents \subseteq Nat \ {0} /\ MaxPresents \in Nat /\ NvofHardware \in BOOLEAN
    /\ Trackers \subseteq [depth : BOOLEAN, motion : BOOLEAN, camera : BOOLEAN]
    /\ Supplies \subseteq [known : BOOLEAN, age : Nat, view : Nat, depth : BOOLEAN, motion : BOOLEAN, cut : BOOLEAN,
                           source : {"adapter", "ngx", "streamline"}]
    /\ Faults \subseteq {"upload", "resources", "view", "depth", "execute", "evaluate", "backpressure"}
    /\ \A starts \in Starts : starts \subseteq {"streamline", "ngx", "host"}

VARIABLES
    frame,      \* Presents of the game so far
    processed,  \* the last of them that reached the end of process
    resources,  \* [extent, down] of the working textures (extent 0: none)
    memory,     \* [color, low, routed, route, timed, temporal, force]: hasHistory_, hlslHistoryValid_,
                \* motionRouteValid_, lastMotionRoute_, previousTemporalValid_, previousTemporal_, forceResetNext_
    content,    \* [color, low, inputs]: what history_, historyLow_ and the flow inputs show (0: nothing of use)
    nvof,       \* nvof_
    backend,    \* backend_; seen: the last frame of its temporal history (0: none)
    forced,     \* forceExternalHost_
    call,       \* the call of process in progress
    continuity  \* history: [base, lenient, swallowed] since the backend last answered for a frame: the
                \* last Present it was not skipped at, whether resetOnTemporalGap was off by then, and
                \* whether a reset was due at a Present it was skipped at

vars == <<frame, processed, resources, memory, content, nvof, backend, forced, call, continuity>>

NoMemory == [color |-> FALSE, low |-> FALSE, routed |-> FALSE, route |-> "Zero", timed |-> FALSE,
             temporal |-> UnknownTime, force |-> TRUE]
IdleCall == [pc |-> "idle"]
NoGap == [base |-> 0, lenient |-> FALSE, swallowed |-> FALSE]

\* A guide source's answer at Present n; a frame token may be one Present old.
Supplied(k, n) ==
    LET f == IF k.known THEN n - k.age ELSE 0
    IN [temporal |-> [frame |-> f, view |-> k.view, cut |-> k.cut],
        depth |-> IF k.depth THEN <<f>> ELSE <<>>, motion |-> IF k.motion THEN <<f>> ELSE <<>>,
        cut |-> k.cut, source |-> k.source]
Guides(source, n) == {NoGuide} \cup {Supplied(k, n) : k \in {s \in Supplies : s.source = source /\ s.age < n}}

\* The guide of a Present: adapter and captures are probed, and the D3D12 pipelines
\* bring one along.
MergedGuides ==
    [n \in 1..MaxPresents |-> [t \in Trackers |->
        {Merge(Probe(adapter, captured, t.depth), external) :
            adapter \in Guides("adapter", n), captured \in Guides("ngx", n), external \in Guides("streamline", n)}]]

---------------------------------------------------------------------------
(* process, up to its first early returns.                                 *)

\* The accelerator's grid is at most 4 wide; the flow textures follow it.
Grid(s) == IF s.down > 4 THEN 4 ELSE s.down

PredictedNative(s, g, t) ==
    s.motion = "Auto" /\ (g.motion # <<>> \/ t.motion \/ (g.depth # <<>> /\ t.camera))

\* A flow without history has nothing of use in its inputs.
FlowInputs(nv) == IF nv.have THEN content.inputs ELSE <<0, 0>>

\* The guides are merged, a discontinuity of their time drops histories, and the
\* hardware flow is configured unless the game's motion is expected to do.
Gather(s, extent, g, t) ==
    LET breaks  == memory.timed /\ TemporalDiscontinuity(memory.temporal, g.temporal)
        keeps   == CanReusePresentedColorHistory(memory.temporal, g.temporal)
        flow    == IF breaks THEN ResetFlow(nvof) ELSE nvof
        asked   == s.motion # "Zero" /\ ~PredictedNative(s, g, t)
        flowNow == IF asked THEN Configured(flow, <<extent, Grid(s)>>, NvofHardware) ELSE flow
    IN /\ call.pc = "idle"
       /\ frame' = frame + 1
       /\ memory' = IF ~breaks THEN memory
                    ELSE [memory EXCEPT !.force = TRUE, !.color = @ /\ keeps, !.low = FALSE]
       /\ nvof' = flowNow
       /\ content' = [content EXCEPT !.inputs = FlowInputs(flowNow), !.color = IF memory'.color THEN @ ELSE 0,
                                     !.low = IF memory'.low THEN @ ELSE 0]
       /\ call' = [pc |-> "prepare", settings |-> s, extent |-> extent, guide |-> g, found |-> t,
                   nvof |-> asked /\ flowNow.ready,
                   down |-> IF asked /\ flowNow.ready THEN Grid(s) ELSE s.down]
       /\ UNCHANGED <<processed, resources, backend, forced, continuity>>

\* releaseViews: every history goes with the textures.
ReleaseViews ==
    /\ memory' = NoMemory
    /\ content' = [color |-> 0, low |-> 0, inputs |-> <<0, 0>>]
    /\ nvof' = ResetFlow(nvof)

\* ensureResources, ensureBackend and the first upload; each can end the call.
Prepare ==
    LET wanted  == [extent |-> call.extent, down |-> call.down]
        s       == call.settings
        isReset == [backend EXCEPT !.seen = 0]
    IN /\ call.pc = "prepare"
       /\ \/ /\ resources = wanted
             /\ UNCHANGED <<resources, memory, content, nvof>>
          \/ /\ resources # wanted
             /\ resources' = wanted
             /\ ReleaseViews
       /\ \E starts \in Starts :
             backend' = EnsureBackend(IF resources = wanted THEN backend ELSE isReset, s.mode, forced, starts, FALSE)
       /\ \/ call' = [pc |-> "motion", settings |-> s, temporal |-> call.guide.temporal, cut |-> call.guide.cut,
                      depth |-> call.guide.depth # <<>>, motion |-> call.guide.motion # <<>>, found |-> call.found,
                      nvof |-> call.nvof]
          \/ /\ "upload" \in Faults
             /\ call' = IdleCall
       /\ UNCHANGED <<frame, processed, forced, continuity>>

\* A texture of the new size cannot be made; the size is remembered all the same, and the
\* flow texture may have been made before: then the next call takes what there is for all.
PrepareFails ==
    /\ call.pc = "prepare" /\ "resources" \in Faults
    /\ resources # [extent |-> call.extent, down |-> call.down]
    /\ \E down \in {0, call.down} : resources' = [extent |-> call.extent, down |-> down]
    /\ ReleaseViews
    /\ call' = IdleCall
    /\ UNCHANGED <<frame, processed, backend, forced, continuity>>

---------------------------------------------------------------------------
(* The motion route (motion_route_policy.hpp, fallbackMotionRoute).        *)

ChooseMotionRoute(available) ==
    LET order == <<"AdapterNative", "TrackedNative", "CameraDepth", "Nvof", "Hlsl">>
        usable == {k \in 1..5 : order[k] \in available}
    IN IF usable = {} THEN "Zero" ELSE order[CHOOSE k \in usable : \A j \in usable : k <= j]

FallbackMotionRoute(source, nvofAvailable) ==
    CASE nvofAvailable -> "Nvof"
      [] ~nvofAvailable /\ source # "Zero" -> "Hlsl"
      [] OTHER -> "Zero"

\* The route wanted, and the one left when a view of the game's motion cannot be made.
WantedRoute(s, cameraReady) ==
    LET native == IF s.motion # "Auto" THEN {}
                  ELSE (IF call.motion THEN {"AdapterNative"} ELSE {})
                       \cup (IF call.found.motion THEN {"TrackedNative"} ELSE {})
                       \cup (IF cameraReady THEN {"CameraDepth"} ELSE {})
    IN IF s.motion = "Zero" THEN "Zero"
       ELSE ChooseMotionRoute(native \cup (IF call.nvof THEN {"Nvof"} ELSE {}) \cup {"Hlsl"})

RouteWithView(route, viewOk, s, cameraReady) ==
    IF route \in {"AdapterNative", "TrackedNative"} /\ ~viewOk
    THEN IF cameraReady THEN "CameraDepth" ELSE FallbackMotionRoute(s.motion, call.nvof)
    ELSE route

\* Mutant: a change of route does not reset the neural history.
RouteContinues(route, gap) == FALSE
RouteChanged(route, gap) == memory.routed /\ route # memory.route /\ gap

\* Motion vectors are made.  The hardware flow compares this frame with the other of its
\* two inputs, the HLSL flow with the reduced history; routes that use neither flow
\* restart the hardware's.
Motion(depthOk, viewOk, executeOk) ==
    LET s           == call.settings
        realDepth   == call.depth /\ depthOk
        cameraReady == realDepth /\ call.found.camera
        route       == RouteWithView(WantedRoute(s, cameraReady), viewOk, s, cameraReady)
        failed      == route = "Nvof" /\ nvof.have /\ ~executeOk
        final       == IF failed THEN FallbackMotionRoute(s.motion, FALSE) ELSE route
        flow        == CASE final = "Nvof" /\ nvof.have -> content.inputs[nvof.previous]
                         [] final = "Hlsl" /\ memory.low -> content.low
                         [] OTHER -> 0
    IN /\ call.pc = "motion"
       /\ \/ /\ route = "Nvof"
             /\ nvof' = Executed(nvof)
             /\ content' = [content EXCEPT !.inputs[nvof.write] = frame]
          \/ /\ route = "Hlsl"
             /\ UNCHANGED <<nvof, content>>
          \/ /\ route \notin {"Nvof", "Hlsl"}
             /\ nvof' = ResetFlow(nvof)
             /\ content' = [content EXCEPT !.inputs = <<0, 0>>]
       /\ memory' = [memory EXCEPT !.routed = TRUE, !.route = final, !.force = @ \/ RouteChanged(final, s.gap)]
       /\ call' = [pc |-> "evaluate", settings |-> s, temporal |-> call.temporal, cut |-> call.cut, route |-> final, flow |-> flow,
                   weak |-> final = "Zero" /\ ~realDepth]
       /\ UNCHANGED <<frame, processed, resources, backend, forced, continuity>>

---------------------------------------------------------------------------
(* The evaluation and the histories it leaves.                             *)

\* Mutant: the reduced history outlives a frame that did not write it.
KeepStaleLow(route) == [color |-> TRUE, low |-> memory.low \/ route = "Hlsl"]
Histories(route) == [color |-> TRUE, low |-> route = "Hlsl"]

\* FrameResources::resetHistory of the frame about to be evaluated.
ResetHistory == memory.force \/ call.cut \/ ~memory.color \/ call.weak

\* How evaluate may come out: the backend accumulates the frame or fails; fails after it
\* has accumulated it; or, in the game's process under backpressure, reports success
\* for a frame it leaves out.
Outcomes == {"evaluated"} \cup (IF "evaluate" \in Faults THEN {"failed", "late"} ELSE {})
                          \cup (IF "backpressure" \in Faults THEN {"skipped"} ELSE {})

Evaluate(outcome) ==
    LET s         == call.settings
        succeeded == backend.kind = "passthrough" \/ outcome \in {"evaluated", "skipped"}
        skipped   == outcome = "skipped"
        kept      == Histories(call.route)
    IN /\ call.pc = "evaluate"
       /\ skipped => backend.kind = "ngx"
       /\ backend' = IF outcome \in {"evaluated", "late"} /\ backend.kind # "passthrough"
                     THEN [backend EXCEPT !.seen = frame] ELSE backend
       /\ memory' = [memory EXCEPT !.color = kept.color, !.low = kept.low, !.timed = TRUE,
                                   !.temporal = call.temporal,
                                   !.force = ~succeeded /\ (@ \/ s.gap)]
       /\ content' = [content EXCEPT !.color = frame,
                                     !.low = CASE call.route = "Hlsl" -> frame [] ~kept.low -> 0 [] OTHER -> @]
       /\ processed' = frame
       /\ continuity' = [base |-> IF skipped THEN continuity.base ELSE frame,
                         lenient |-> ~s.gap \/ (skipped /\ continuity.lenient),
                         swallowed |-> skipped /\ (continuity.swallowed \/ ResetHistory)]
       /\ call' = IdleCall
       /\ UNCHANGED <<frame, resources, nvof, forced>>

---------------------------------------------------------------------------
(* What the hooks and the D3D12 pipeline do with it between two calls.     *)

\* A Present that is not processed: suppressed, or switched off in the settings.
PassOver ==
    /\ call.pc = "idle" /\ frame < MaxPresents
    /\ frame' = frame + 1
    /\ UNCHANGED <<processed, resources, memory, content, nvof, backend, forced, call, continuity>>

Reset ==
    /\ call.pc = "idle"
    /\ resources' = [extent |-> 0, down |-> 0]
    /\ ReleaseViews
    /\ backend' = [backend EXCEPT !.seen = 0]
    /\ UNCHANGED <<frame, processed, forced, call, continuity>>

\* suspendForNative: the textures go, and the accelerator's session with them.
SuspendForNative ==
    IF resources.extent = 0 THEN UNCHANGED <<resources, memory, content, nvof>>
    ELSE /\ resources' = [extent |-> 0, down |-> 0]
         /\ memory' = NoMemory
         /\ content' = [color |-> 0, low |-> 0, inputs |-> <<0, 0>>]
         /\ nvof' = ShutdownFlow(nvof)

\* The native D3D12 pipeline evaluates a Present on the host backend it borrows.
ProcessNatively(starts) ==
    LET b == EnsureBackend(backend, "ExternalHostNR", forced, starts, FALSE)
    IN /\ call.pc = "idle" /\ frame < MaxPresents
       /\ \E s \in SettingsSet : s.mode = "ExternalHostNR"
       /\ frame' = frame + 1
       /\ \/ /\ b.fallback
             /\ backend' = b
             /\ UNCHANGED <<resources, memory, content, nvof>>
          \/ /\ ~b.fallback
             /\ backend' = [b EXCEPT !.seen = frame + 1]
             /\ SuspendForNative
       /\ UNCHANGED <<processed, forced, call, continuity>>

RetryNeural ==
    /\ call.pc = "idle"
    /\ backend' = NoBackend
    /\ memory' = [memory EXCEPT !.force = TRUE]
    /\ UNCHANGED <<frame, processed, resources, content, nvof, forced, call, continuity>>

SetForceExternalHost(value) ==
    /\ call.pc = "idle" /\ forced # value
    /\ forced' = value
    /\ backend' = NoBackend
    /\ UNCHANGED <<frame, processed, resources, memory, content, nvof, call, continuity>>

---------------------------------------------------------------------------
May(fault) == IF fault \in Faults THEN BOOLEAN ELSE {TRUE}

Process ==
    \/ /\ frame < MaxPresents
       /\ \E t \in Trackers : \E g \in MergedGuides[frame + 1][t], s \in SettingsSet, extent \in Extents : Gather(s, extent, g, t)
    \/ Prepare
    \/ PrepareFails
    \/ \E depthOk \in May("depth"), viewOk \in May("view"), executeOk \in May("execute") : Motion(depthOk, viewOk, executeOk)
    \/ \E outcome \in Outcomes : Evaluate(outcome)

Init ==
    /\ frame = 0 /\ processed = 0
    /\ resources = [extent |-> 0, down |-> 0]
    /\ memory = NoMemory
    /\ content = [color |-> 0, low |-> 0, inputs |-> <<0, 0>>]
    /\ nvof = NoFlow /\ backend = NoBackend
    /\ forced = FALSE
    /\ call = IdleCall
    /\ continuity = NoGap

Next == \/ Process
        \/ PassOver
        \/ Reset
        \/ \E starts \in Starts : ProcessNatively(starts)
        \/ RetryNeural
        \/ \E value \in BOOLEAN : SetForceExternalHost(value)

Spec == Init /\ [][Next]_vars

---------------------------------------------------------------------------
(* Properties.                                                             *)

\* Every history a frame can be compared with is that of the last processed Present, at
\* the present size: the colour and the reduced colour always, the accelerator's input
\* whenever the last Present used it (d3d11_pipeline.cpp:354-356, 485-498, 534-538).
HistoriesFollow ==
    call.pc = "idle" =>
        /\ memory.color => content.color = processed /\ processed # 0 /\ resources.down # 0
        /\ memory.low => content.low = processed /\ memory.route = "Hlsl"
        /\ nvof.have => /\ nvof.ready /\ content.inputs[nvof.previous] # 0
                        /\ memory.routed /\ memory.route = "Nvof" => content.inputs[nvof.previous] = processed

\* The backend accumulates without a reset only onto a history that is empty or ends with
\* the last Present it did not skip, and with a flow measured from the last processed
\* Present, whatever routes, backends and failures came between (d3d11_pipeline.cpp:
\* 500-502, 516, 530): while resetOnTemporalGap is on, and unless a reset was due at a
\* skipped Present.  A skipped Present clears the flag (530 with ngx_nr.cpp:490-508), so
\* that reset is lost; and a skipped Present does not ask for one.
ResetCoversGaps ==
    call.pc = "evaluate" /\ call.settings.gap /\ ~ResetHistory =>
        /\ call.flow \in {0, processed}
        /\ ~continuity.lenient /\ ~continuity.swallowed => backend.seen \in {0, continuity.base}

\* Guides that carry a frame's time are of that frame, although up to three providers
\* contribute to them (temporal_frame.hpp:25-36, d3d11_pipeline.cpp:331-358).
GuidesOfOneFrame ==
    call.pc = "prepare" /\ call.guide.temporal.frame # 0 =>
        \A t \in {call.guide.depth, call.guide.motion} : t \in {<<>>, Tracked, <<call.guide.temporal.frame>>}
=============================================================================
