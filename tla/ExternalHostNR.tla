---------------------------- MODULE ExternalHostNR ----------------------------
(***************************************************************************)
(* The bridge side of an external-host session: class ExternalHostNR       *)
(* (src/neural/external_host.cpp), driven once per present by the D3D11    *)
(* pipeline, which owns the game's frame and its own history flag.         *)
(*                                                                         *)
(* bridge.pc is the point the presenting thread has reached.  A "Sleep"    *)
(* location is a blocked WaitForMultipleObjects.                           *)
(***************************************************************************)
EXTENDS HostIpc

CONSTANT ResetOnTemporalGap   \* Settings::resetOnTemporalGap

ASSUME GapAssumption == ResetOnTemporalGap \in BOOLEAN

VARIABLE bridge

BridgePcs ==
  {"connect", "idle", "pending", "drain", "drainSleep", "fill",
   "ensure", "transfer", "publish", "bump", "wake", "await", "state", "stamp",
   "number", "kick", "enqueue", "enqueueSleep", "output", "outputSleep",
   "finish", "closing", "closed", "dead"}

Calls == [size : Sizes \cup {0}, synchronized : BOOLEAN, reset : BOOLEAN]
NoCall == [size |-> 0, synchronized |-> FALSE, reset |-> FALSE]

BridgeInit ==
  \E preset \in Presets :
    bridge = [pc |-> "connect", present |-> 0, call |-> NoCall,
              pipelineReset |-> TRUE, forceReset |-> TRUE,
              lastPreset |-> preset, dirty |-> FALSE,
              resourcesReady |-> FALSE, width |-> 0, generation |-> 0,
              untransferred |-> {}, fenceValue |-> 0,
              pending |-> 0, pendingOutput |-> 0]

At(pc) == bridge.pc = pc
Goto(pc) == [bridge EXCEPT !.pc = pc]

\* Mutant: a frame that passes through asks for no reset.
PassedThroughKeepingHistory(b) == [b EXCEPT !.pc = "idle", !.call = NoCall]

\* evaluate returned false: the pipeline presents its own input instead and,
\* when it honours temporal gaps, asks for a reset with its next frame.
PassedThrough(b) ==
  [b EXCEPT !.pc = "idle", !.call = NoCall,
            !.pipelineReset = @ \/ ResetOnTemporalGap]

\* evaluate returned true.
Evaluated(b) ==
  [b EXCEPT !.pc = "idle", !.call = NoCall,
            !.pipelineReset = FALSE, !.forceReset = FALSE]

-----------------------------------------------------------------------------
\* initialize: wait for the host to announce itself, else shut the session down.
Connect ==
  /\ At("connect")
  /\ \/ /\ shared.state = "WaitingConfig"
        /\ bridge' = Goto("idle")
        /\ UNCHANGED <<shared, event>>
     \/ /\ HostFailed \/ ~alive.host
        /\ bridge' = Goto("closing")
        /\ shared' = [shared EXCEPT !.stopRequested = TRUE]
        /\ event' = [event EXCEPT !.stop = TRUE, !.frame = TRUE]
  /\ UNCHANGED <<alive, remote, gpuVars>>

\* Mutant: a configuration in flight refuses nothing.
RefusedUnlessConfiguring == HostFailed

\* The game presents and the pipeline calls evaluate.  On entry an in-flight
\* configuration keeps its transfers and a failed host gets no more work; else a
\* changed preset dirties the configuration.
Refused == HostFailed \/ shared.state = "Configuring"

Present(size, preset, synchronized, discontinuity) ==
  /\ At("idle")
  /\ bridge.present < MaxPresents
  /\ LET called == [bridge EXCEPT !.pc = "pending", !.present = @ + 1]
         changed == bridge.lastPreset # preset
     IN \/ /\ Refused
           /\ bridge' = PassedThrough(called)
        \/ /\ ~Refused
           /\ bridge' = [called EXCEPT !.lastPreset = preset,
                          !.call = [size |-> size, synchronized |-> synchronized,
                                    reset |-> bridge.pipelineReset \/ discontinuity],
                          !.dirty = @ \/ changed, !.forceReset = @ \/ changed]
  /\ UNCHANGED ipcVars

-----------------------------------------------------------------------------
\* waitForExactOutput: register on the fence, then poll and sleep.  Either event
\* only wakes the thread; the poll decides.
Register(value) ==
  /\ armed' = IF fence >= value THEN armed ELSE armed \cup {value}
  /\ event' = [event EXCEPT !.fence = fence >= value]

PollOutput(here, asleep, seq, value, ready, missed) ==
  /\ At(here)
  /\ bridge' =
       IF OutputReady(seq, value) THEN ready
       ELSE IF shared.completedSeq > seq \/ ~alive.host \/ HostFailed
       THEN missed
       ELSE Goto(asleep)
  /\ UNCHANGED ipcVars

SleepOutput(here, polling, missed) ==
  /\ At(here)
  /\ \/ /\ event.fence
        /\ event' = [event EXCEPT !.fence = FALSE]
        /\ bridge' = Goto(polling)
     \/ /\ ~event.fence /\ event.done
        /\ event' = [event EXCEPT !.done = FALSE]
        /\ bridge' = Goto(polling)
     \/ /\ ~event.fence /\ ~event.done /\ ~alive.host
        /\ bridge' = missed
        /\ UNCHANGED event
     \/ /\ "wait" \in Faults
        /\ bridge' = missed
        /\ UNCHANGED event
  /\ UNCHANGED <<shared, alive, remote, gpuVars>>

-----------------------------------------------------------------------------
Retired(b) == [b EXCEPT !.pc = "fill", !.pending = 0, !.pendingOutput = 0]

\* An older request is outstanding: retire it, or (Synchronized only) drain it.
CheckPending ==
  /\ At("pending")
  /\ \/ /\ bridge.pending = 0
        /\ bridge' = Goto("fill")
        /\ UNCHANGED <<event, armed>>
     \/ /\ bridge.pending # 0
        /\ alive.host
        /\ OutputReady(bridge.pending, bridge.pendingOutput)
        /\ bridge' = Retired(bridge)
        /\ event' = [event EXCEPT !.done = FALSE]
        /\ UNCHANGED armed
     \/ /\ bridge.pending # 0
        /\ alive.host
        /\ ~OutputReady(bridge.pending, bridge.pendingOutput)
        /\ bridge.call.synchronized
        /\ bridge' = Goto("drain")
        /\ Register(bridge.pendingOutput)
     \/ /\ bridge.pending # 0
        /\ \/ ~alive.host
           \/ /\ ~OutputReady(bridge.pending, bridge.pendingOutput)
              /\ ~bridge.call.synchronized
        /\ bridge' = PassedThrough(bridge)
        /\ UNCHANGED <<event, armed>>
  /\ UNCHANGED <<shared, alive, remote, fence, bridgeQ, hostQ, tex, screen>>

PollDrain ==
  /\ At("drain")
  /\ IF OutputReady(bridge.pending, bridge.pendingOutput)
     THEN /\ bridge' = Retired(bridge)
          /\ event' = [event EXCEPT !.done = FALSE]
          /\ UNCHANGED <<shared, alive, remote, gpuVars>>
     ELSE PollOutput("drain", "drainSleep", bridge.pending,
                     bridge.pendingOutput, bridge, PassedThrough(bridge))

SleepDrain == SleepOutput("drainSleep", "drain", PassedThrough(bridge))

-----------------------------------------------------------------------------
\* The frame parameters, written once no older request can still read them.
Fill ==
  /\ At("fill")
  /\ shared' = [shared EXCEPT !.present = bridge.present,
                 !.frameReset = bridge.call.reset \/ bridge.forceReset,
                 !.preset = bridge.lastPreset]
  /\ bridge' = Goto("ensure")
  /\ UNCHANGED <<event, alive, remote, gpuVars>>

\* ensureResources: nothing to do, only the feature to rebuild, or new textures.
Ensure ==
  /\ At("ensure")
  /\ IF bridge.resourcesReady /\ bridge.width = bridge.call.size
     THEN /\ bridge' = Goto(IF bridge.dirty THEN "publish" ELSE "state")
          /\ UNCHANGED shared
     ELSE /\ bridge' = [bridge EXCEPT !.pc = "transfer",
                         !.resourcesReady = FALSE, !.forceReset = TRUE,
                         !.width = bridge.call.size, !.generation = @ + 1,
                         !.untransferred = Textures]
          /\ shared' = [shared EXCEPT !.handle =
                         [f \in Fields |-> IF f \in Textures THEN 0 ELSE @[f]]]
  /\ UNCHANGED <<event, alive, remote, gpuVars>>

\* Duplicate one texture handle into the host.
Transfer(t) ==
  /\ At("transfer") /\ t \in bridge.untransferred
  /\ alive.host
  /\ remote' = remote \cup {<<t, bridge.generation>>}
  /\ shared' = [shared EXCEPT !.handle[t] = bridge.generation]
  /\ bridge' = [bridge EXCEPT !.untransferred = @ \ {t}]
  /\ UNCHANGED <<event, alive, gpuVars>>

\* A failure closes the handles of the unpublished batch again (~TransferBatch).
TransferFails ==
  /\ At("transfer") /\ bridge.untransferred # {}
  /\ "transfer" \in Faults \/ ~alive.host
  /\ CloseFields({t \in Textures : shared.handle[t] # 0})
  /\ bridge' = PassedThrough([bridge EXCEPT !.untransferred = {}])
  /\ UNCHANGED <<event, alive, gpuVars>>

\* Publish the configuration: the state first, the generation counters next,
\* the wake last.
PublishConfiguring ==
  /\ \/ At("transfer") /\ bridge.untransferred = {}
     \/ At("publish")
  /\ shared' = [shared EXCEPT !.state = "Configuring", !.size = bridge.width]
  /\ bridge' = Goto("bump")
  /\ UNCHANGED <<event, alive, remote, gpuVars>>

BumpGenerations ==
  /\ At("bump")
  /\ shared' = [shared EXCEPT !.configGeneration = @ + 1,
                 !.resourceGeneration = IF bridge.resourcesReady THEN @ ELSE @ + 1]
  /\ bridge' = Goto("wake")
  /\ UNCHANGED <<event, alive, remote, gpuVars>>

WakeHost ==
  /\ At("wake")
  /\ event' = [event EXCEPT !.frame = TRUE]
  /\ bridge' = Goto("await")
  /\ UNCHANGED <<shared, alive, remote, gpuVars>>

AwaitReady ==
  /\ At("await")
  /\ \/ /\ shared.state = "Ready"
        /\ bridge' = [bridge EXCEPT !.pc = "state", !.resourcesReady = TRUE,
                       !.dirty = FALSE]
     \/ /\ shared.state # "Ready"
        /\ HostFailed \/ ~alive.host
        /\ bridge' = PassedThrough(bridge)
  /\ UNCHANGED ipcVars

-----------------------------------------------------------------------------
\* Mutant: the host takes one frame after a configuration.
AcceptsFramesOnce == shared.state = "Ready"

AcceptsFrames == shared.state \in {"Ready", "Active"}

\* Queue the input copies and the fence signal behind them.
SubmitInputs ==
  /\ At("state")
  /\ \/ /\ ~AcceptsFrames
        /\ bridge' = PassedThrough(bridge)
        /\ UNCHANGED bridgeQ
     \/ /\ AcceptsFrames
        /\ LET value == bridge.fenceValue + 1
               copy == Op("copyIn", bridge.present, bridge.generation)
               next == [bridge EXCEPT !.fenceValue = @ + 2]
           IN \/ /\ bridgeQ' = bridgeQ \o
                      <<copy, Op("signal", value, bridge.generation)>>
                 /\ bridge' = [next EXCEPT !.pc = "stamp"]
              \/ /\ "signal" \in Faults
                 /\ bridgeQ' = Append(bridgeQ, copy)
                 /\ bridge' = PassedThrough(next)
  /\ UNCHANGED <<shared, event, alive, remote, fence, armed, hostQ, tex, screen>>

\* Mutant: both fences are stamped with the value of the inputs.
StampFencesLate ==
  /\ At("stamp")
  /\ shared' = [shared EXCEPT !.inputFence = bridge.fenceValue - 1,
                              !.outputFence = bridge.fenceValue - 1]
  /\ event' = [event EXCEPT !.done = FALSE]
  /\ bridge' = Goto("number")
  /\ UNCHANGED <<alive, remote, gpuVars>>

\* Mutant: the output fence is stamped one ahead of what was reserved.
StampFencesAhead ==
  /\ At("stamp")
  /\ shared' = [shared EXCEPT !.inputFence = bridge.fenceValue,
                              !.outputFence = bridge.fenceValue + 1]
  /\ event' = [event EXCEPT !.done = FALSE]
  /\ bridge' = Goto("number")
  /\ UNCHANGED <<alive, remote, gpuVars>>

StampFences ==
  /\ At("stamp")
  /\ shared' = [shared EXCEPT !.inputFence = bridge.fenceValue - 1,
                              !.outputFence = bridge.fenceValue]
  /\ event' = [event EXCEPT !.done = FALSE]
  /\ bridge' = Goto("number")
  /\ UNCHANGED <<alive, remote, gpuVars>>

PublishFrame ==
  /\ At("number")
  /\ shared' = [shared EXCEPT !.frameSeq = @ + 1]
  /\ bridge' = Goto("kick")
  /\ UNCHANGED <<event, alive, remote, gpuVars>>

KickHost ==
  /\ At("kick")
  /\ event' = [event EXCEPT !.frame = TRUE]
  /\ bridge' = Goto("enqueue")
  /\ UNCHANGED <<shared, alive, remote, gpuVars>>

\* Mutant: a request that expired is not remembered.
LeftForgotten(b) == PassedThrough([b EXCEPT !.forceReset = ResetOnTemporalGap])

\* The request stays outstanding: remember it and let the frame pass through.
LeftPending(b) ==
  PassedThrough([b EXCEPT !.pending = shared.frameSeq,
                  !.pendingOutput = bridge.fenceValue,
                  !.forceReset = ResetOnTemporalGap])

\* The host can no longer answer (or the wait itself failed): nothing is kept.
Abandoned(b) == PassedThrough([b EXCEPT !.forceReset = ResetOnTemporalGap])

PollEnqueued ==
  /\ At("enqueue")
  /\ IF shared.enqueuedSeq >= shared.frameSeq
     THEN /\ bridge' = Goto("output")
          /\ Register(bridge.fenceValue)
     ELSE /\ bridge' = IF HostFailed \/ ~alive.host THEN Abandoned(bridge)
                       ELSE Goto("enqueueSleep")
          /\ UNCHANGED <<event, armed>>
  /\ UNCHANGED <<shared, alive, remote, fence, bridgeQ, hostQ, tex, screen>>

SleepEnqueued ==
  /\ At("enqueueSleep")
  /\ \/ /\ event.done
        /\ event' = [event EXCEPT !.done = FALSE]
        /\ bridge' = Goto("enqueue")
     \/ /\ ~event.done /\ ~alive.host
        /\ bridge' = Abandoned(bridge)
        /\ UNCHANGED event
     \/ /\ "wait" \in Faults
        /\ bridge' = Abandoned(bridge)
        /\ UNCHANGED event
  /\ UNCHANGED <<shared, alive, remote, gpuVars>>

PollCurrent ==
  PollOutput("output", "outputSleep", shared.frameSeq, bridge.fenceValue,
             Goto("finish"), LeftPending(bridge))

SleepCurrent == SleepOutput("outputSleep", "output", LeftPending(bridge))

\* The exact output is complete: composite it.
Finish ==
  /\ At("finish")
  /\ bridgeQ' = Append(bridgeQ, Op("copyOut", bridge.present, bridge.generation))
  /\ bridge' = IF shared.lastOk THEN Evaluated(bridge) ELSE PassedThrough(bridge)
  /\ UNCHANGED <<shared, event, alive, remote, fence, armed, hostQ, tex, screen>>

-----------------------------------------------------------------------------
\* A bounded wait reaches its deadline.
TimeOut ==
  /\ "timeout" \in Faults
  /\ \/ /\ bridge.pc \in {"drain", "await"}
        /\ bridge' = PassedThrough(bridge)
        /\ UNCHANGED <<shared, event>>
     \/ /\ bridge.pc \in {"enqueue", "enqueueSleep"}
        /\ shared.enqueuedSeq < shared.frameSeq \/ At("enqueueSleep")
        /\ bridge' = LeftPending(bridge)
        /\ UNCHANGED <<shared, event>>
     \/ /\ At("output")
        /\ ~OutputReady(shared.frameSeq, bridge.fenceValue)
        /\ bridge' = LeftPending(bridge)
        /\ UNCHANGED <<shared, event>>
     \/ /\ bridge.pc \in {"drainSleep", "outputSleep"}
        /\ bridge' = Goto(IF At("drainSleep") THEN "drain" ELSE "output")
        /\ UNCHANGED <<shared, event>>
     \/ /\ At("connect")
        /\ bridge' = Goto("closing")
        /\ shared' = [shared EXCEPT !.stopRequested = TRUE]
        /\ event' = [event EXCEPT !.stop = TRUE, !.frame = TRUE]
  /\ UNCHANGED <<alive, remote, gpuVars>>

\* shutdown: ask the host to stop and give it a bounded time to exit.
Shutdown ==
  /\ At("idle")
  /\ shared' = [shared EXCEPT !.stopRequested = TRUE]
  /\ event' = [event EXCEPT !.stop = TRUE, !.frame = TRUE]
  /\ bridge' = Goto("closing")
  /\ UNCHANGED <<alive, remote, gpuVars>>

Close ==
  /\ At("closing")
  /\ ~alive.host \/ "timeout" \in Faults
  /\ bridge' = Goto("closed")
  /\ UNCHANGED ipcVars

\* The game process ends; its GPU work ends with it.
BridgeCrash ==
  /\ "bridgeCrash" \in Faults
  /\ alive.bridge
  /\ alive' = [alive EXCEPT !.bridge = FALSE]
  /\ bridge' = Goto("dead")
  /\ bridgeQ' = <<>>
  /\ UNCHANGED <<shared, event, remote, fence, armed, hostQ, tex, screen>>

=============================================================================
