---------------------------- MODULE NrHostSession ----------------------------
(***************************************************************************)
(* One external-host session: the presenting bridge, the NRHost process    *)
(* and the two GPU queues between them.                                    *)
(***************************************************************************)
EXTENDS ExternalHostNR, NRHost

vars == <<ipcVars, bridge, host>>

Init == IpcInit /\ BridgeInit /\ HostInit

Presents ==
  \E size \in Sizes, preset \in Presets, synchronized, cut \in BOOLEAN :
    Present(size, preset, synchronized, cut)

\* The steps the presenting thread takes by itself once it is inside evaluate.
BridgeSteps ==
  \/ Connect \/ CheckPending \/ PollDrain \/ SleepDrain
  \/ Fill \/ Ensure
  \/ \E t \in Textures : Transfer(t)
  \/ TransferFails
  \/ PublishConfiguring \/ BumpGenerations \/ WakeHost \/ AwaitReady
  \/ SubmitInputs \/ StampFences \/ PublishFrame \/ KickHost
  \/ PollEnqueued \/ SleepEnqueued \/ PollCurrent \/ SleepCurrent \/ Finish
  \/ Close

HostSteps ==
  \/ OpenMapping \/ OpenBridge \/ OpenFails \/ Wait \/ CheckGeneration \/ BeginConfigure
  \/ RetireQueue \/ RetireFails
  \/ \E f \in Fields : Import(f)
  \/ ImportFails \/ Imported \/ FeatureReady \/ FeatureFails
  \/ ConfigureFailed \/ BeginFrame
  \/ \E outcome \in Outcomes : Record(outcome) \/ SignalFails(outcome)
  \/ PublishEnqueued \/ AnnounceEnqueued \/ PublishResult
  \/ PublishCompleted \/ AnnounceCompleted
  \/ StopHost \/ Exit

BridgeNext ==
  (Presents \/ BridgeSteps \/ TimeOut \/ Shutdown \/ BridgeCrash)
  /\ UNCHANGED host

HostNext == (HostSteps \/ HostCrash) /\ UNCHANGED bridge

GpuNext == (BridgeGpu \/ HostGpu) /\ UNCHANGED <<bridge, host>>

\* A host that does not wait on the game's process.
Unwatching == host.pc \notin {"start", "open"} /\ ~host.watches

\* The game is gone, but the host cannot see it and nobody will wake it again.
Orphaned ==
  HostAt("wait") /\ Unwatching /\ ~alive.bridge /\ ~event.stop /\ ~event.frame

\* A session that is over: the bridge is gone, its GPU is idle, and the host has
\* exited or is orphaned.
Ended ==
  /\ bridge.pc \in {"closed", "dead"} /\ bridgeQ = <<>>
  /\ HostAt("exited") \/ (Orphaned /\ ~Runnable(hostQ))
  /\ UNCHANGED vars

Next == BridgeNext \/ HostNext \/ GpuNext \/ Ended

Spec == Init /\ [][Next]_vars

\* Fairness: the presenting thread, the host's thread and both GPU queues keep
\* running.  Neither the game's next present, nor a timeout, nor a fault is fair.
FairSpec ==
  /\ Spec
  /\ WF_vars(BridgeSteps /\ UNCHANGED host)
  /\ WF_vars(HostSteps /\ UNCHANGED bridge)
  /\ WF_vars(BridgeGpu /\ UNCHANGED <<bridge, host>>)
  /\ WF_vars(HostGpu /\ UNCHANGED <<bridge, host>>)

-----------------------------------------------------------------------------
\* The types of the four records of the state.
SharedType ==
  [state : HostStates, frameSeq : Ordinals, enqueuedSeq : Ordinals,
   completedSeq : Ordinals, configGeneration : Ordinals,
   resourceGeneration : Ordinals, inputFence : FenceValues,
   outputFence : FenceValues, present : Ordinals, frameReset : BOOLEAN,
   lastOk : BOOLEAN, size : Sizes \cup {0}, preset : Presets \cup {0},
   stopRequested : BOOLEAN, handle : [Fields -> Ordinals]]

BridgeType ==
  [pc : BridgePcs, present : Ordinals, call : Calls,
   pipelineReset : BOOLEAN, forceReset : BOOLEAN, lastPreset : Presets,
   dirty : BOOLEAN, resourcesReady : BOOLEAN, width : Sizes \cup {0},
   generation : Ordinals, untransferred : SUBSET Textures,
   fenceValue : FenceValues, pending : Ordinals, pendingOutput : FenceValues]

HostType ==
  [pc : HostPcs, watches : BOOLEAN, configSeen : Ordinals, frameSeen : Ordinals,
   sharedFence : BOOLEAN, imported : Ordinals, unopened : SUBSET Fields,
   next : Ordinals, textures : Ordinals,
   feature : (Sizes \cup {0}) \X (Presets \cup {0}), lastFrame : Ordinals,
   reset : BOOLEAN, seq : Ordinals, output : FenceValues, ok : BOOLEAN,
   success : BOOLEAN]

EventType ==
  [frame : BOOLEAN, done : BOOLEAN, stop : BOOLEAN, fence : BOOLEAN]

\* The state is well typed: counters stay within what MaxPresents presents can
\* produce and both program counters at known points of the code.
TypeOK ==
  /\ shared \in SharedType
  /\ event \in EventType
  /\ alive \in [bridge : BOOLEAN, host : BOOLEAN]
  /\ remote \subseteq Fields \X Ordinals
  /\ fence \in FenceValues /\ armed \subseteq FenceValues
  /\ bridgeQ \in Seq(Ops) /\ hostQ \in Seq(Ops)
  /\ tex \in [Ordinals -> [input : Ordinals, output : Images]]
  /\ screen \in [frame : Ordinals, image : Images]
  /\ bridge \in BridgeType
  /\ host \in HostType

-----------------------------------------------------------------------------
\* The two GPU queues never touch the same textures at once: the bridge does not
\* copy the next frame over inputs an older request is still reading, nor read an
\* output the host is writing (external_host.cpp, "Never overwrite shared
\* textures while an older exact-sequence request is still using them").
TexturesExclusive ==
  ~ /\ Runnable(bridgeQ) /\ Head(bridgeQ).kind \in {"copyIn", "copyOut"}
    /\ Runnable(hostQ) /\ Head(hostQ).kind \in {"evaluate", "fallback"}
    /\ Head(bridgeQ).gen = Head(hostQ).gen

\* What is composited for a frame was computed from that very frame: a late or
\* older output never reaches the screen, whatever timed out, was rebuilt or
\* failed on the way.
ExactComposite == screen.image.frame = screen.frame

\* While the host lives, the handles open in its table are exactly those the
\* block still names: none is leaked by overwriting its field, none is closed
\* twice, across failed transfers, failed imports and expired waits.
HandlesOwned ==
  alive.host =>
    remote = {<<f, shared.handle[f]>> : f \in {g \in Fields : shared.handle[g] # 0}}

\* The shared fence never goes backwards, so a queue waiting for a value that was
\* reached is never stranded: Signal assigns the fence, and two processes signal.
FenceMonotone == [][fence' >= fence]_fence

\* The host resets its command allocator only when the GPU has finished with the
\* list recorded from it: processFrame begins its list with no wait of its own.
AllocatorIdle ==
  HostAt("record") =>
    \A i \in 1..Len(hostQ) : hostQ[i].kind \notin {"evaluate", "fallback"}

\* Feature 18 continues its temporal history only from the frame presented just
\* before: after a dropped frame, a discontinuity, a rebuild or an expired wait
\* the next evaluation carries a reset (with Settings::resetOnTemporalGap).
HistoryUnbroken ==
  [][HostAt("record") /\ host'.lastFrame = shared.present /\ host'.pc # "record"
     => \/ host.reset \/ shared.frameReset
        \/ host.lastFrame + 1 = shared.present]_vars

-----------------------------------------------------------------------------
\* A present returns to the game even if no deadline ever expires: every sleep of
\* the bridge is ended by an event, so no wakeup is lost.
PresentReturns == At("pending") ~> bridge.pc \in {"idle", "closed", "dead"}

\* A request left behind by an expired wait is completed, or the host has failed:
\* canWriteInputs does not stay false for ever on a live session.
PendingCompletes ==
  \A seq \in 1..MaxPresents :
    bridge.pending = seq
      ~> \/ bridge.pending # seq \/ OutputReady(seq, bridge.pendingOutput)
         \/ HostFailed \/ ~alive.host \/ ~alive.bridge

\* The host process does not outlive its session: a stop request ends it, whatever
\* it was doing, and so does the death of the game, unless the host could not open
\* the game's process, which openSession does not check (main.cpp:169, 498).
HostNotOrphaned ==
  /\ shared.stopRequested ~> ~alive.host
  /\ ~alive.bridge ~> ~alive.host \/ Unwatching

\* If no wait expires, every presented frame is composited from its own neural
\* output, through any number of resizes and preset changes, until the host fails
\* or one of the processes is gone.
EveryPresentNeural ==
  \A n \in 1..MaxPresents :
    At("pending") /\ bridge.present = n
      ~> \/ screen = [frame |-> n, image |-> [frame |-> n, neural |-> TRUE]]
         \/ HostFailed \/ ~alive.host \/ ~alive.bridge

\* The bridge reports a frame as neural only if Feature 18 produced the image it
\* composites.
NeuralMeansEvaluated ==
  At("finish") /\ shared.lastOk => tex[bridge.generation].output.neural

-----------------------------------------------------------------------------
\* The request the bridge has published and not retired, seen as ExactFrames
\* sees it.
Requesting ==
  bridge.pc \in {"kick", "enqueue", "enqueueSleep", "output", "outputSleep",
                 "finish"}

Outstanding == Requesting \/ bridge.pending # 0

Composites == {i \in 1..Len(bridgeQ) : bridgeQ[i].kind = "copyOut"}

Promise == INSTANCE ExactFrames WITH
  request  <- IF Outstanding THEN shared.present ELSE 0,
  answered <- IF Requesting THEN OutputReady(shared.frameSeq, bridge.fenceValue)
              ELSE /\ bridge.pending # 0
                   /\ OutputReady(bridge.pending, bridge.pendingOutput),
  accepted <- IF Composites = {} THEN screen.frame
              ELSE bridgeQ[CHOOSE i \in Composites : TRUE].n,
  screen   <- <<screen.frame, screen.image.frame>>,
  failed   <- HostFailed \/ ~alive.host

\* The session keeps the promise of ExactFrames: one request at a time, and only
\* its own answer is ever composited for a frame.
KeepsPromise == Promise!Spec

=============================================================================
