-------------------------------- MODULE NRHost --------------------------------
(***************************************************************************)
(* The x64 neural host process (src/host/main.cpp): a single thread that   *)
(* waits for its three handles, configures on a new configuration          *)
(* generation and then processes at most one frame per wake.               *)
(***************************************************************************)
EXTENDS HostIpc

VARIABLE host

HostPcs ==
  {"start", "open", "wait", "check", "configure", "retire", "import", "feature",
   "configFailed", "frame", "record", "enqueued", "enqueuedEvent", "result",
   "complete", "completeEvent", "shutdown", "stopping", "exited"}

NoFeature == <<0, 0>>

HostInit ==
  host = [pc |-> "start", watches |-> FALSE, configSeen |-> 0, frameSeen |-> 0,
          sharedFence |-> FALSE, imported |-> 0, unopened |-> {},
          next |-> 0, textures |-> 0, feature |-> NoFeature,
          lastFrame |-> 0, reset |-> TRUE, seq |-> 0, output |-> 0,
          ok |-> FALSE, success |-> FALSE]

HostAt(pc) == host.pc = pc
HostGoto(pc) == [host EXCEPT !.pc = pc]

-----------------------------------------------------------------------------
\* openSession: the mapping and the three events, which exist while the bridge
\* holds them, ...
OpenMapping ==
  /\ HostAt("start")
  /\ alive.bridge
  /\ host' = HostGoto("open")
  /\ UNCHANGED ipcVars

\* ... then the bridge's process, whose handle is not checked: a host that could
\* not open it goes on and waits for two handles only.
OpenBridge ==
  /\ HostAt("open")
  /\ \E opened \in BOOLEAN :
       /\ opened \/ "openProcess" \in Faults \/ ~alive.bridge
       /\ host' = [host EXCEPT !.pc = "wait", !.watches = opened]
  /\ shared' = [shared EXCEPT !.state = "WaitingConfig"]
  /\ UNCHANGED <<event, alive, remote, gpuVars>>

\* Mutant: the game's process handle is not waited on.
WaitIgnoringBridge ==
  /\ HostAt("wait")
  /\ \/ /\ event.stop
        /\ host' = HostGoto("shutdown")
        /\ UNCHANGED event
     \/ /\ ~event.stop /\ event.frame
        /\ event' = [event EXCEPT !.frame = FALSE]
        /\ host' = HostGoto(IF shared.stopRequested THEN "shutdown" ELSE "check")
  /\ UNCHANGED <<shared, alive, remote, gpuVars>>

\* The main wait: stop first, then the frame event, then the bridge process if
\* its handle was opened.
Wait ==
  /\ HostAt("wait")
  /\ \/ /\ event.stop
        /\ host' = HostGoto("shutdown")
        /\ UNCHANGED event
     \/ /\ ~event.stop /\ event.frame
        /\ event' = [event EXCEPT !.frame = FALSE]
        /\ host' = HostGoto(IF shared.stopRequested THEN "shutdown" ELSE "check")
     \/ /\ ~event.stop /\ ~event.frame
        /\ host.watches /\ ~alive.bridge
        /\ host' = HostGoto("shutdown")
        /\ UNCHANGED event
  /\ UNCHANGED <<shared, alive, remote, gpuVars>>

CheckGeneration ==
  /\ HostAt("check")
  /\ host' = IF shared.configGeneration # host.configSeen
             THEN [host EXCEPT !.pc = "configure",
                                !.configSeen = shared.configGeneration]
             ELSE HostGoto("frame")
  /\ UNCHANGED ipcVars

-----------------------------------------------------------------------------
BeginConfigure ==
  /\ HostAt("configure")
  /\ shared' = [shared EXCEPT !.state = "Configuring"]
  /\ host' = HostGoto("retire")
  /\ UNCHANGED <<event, alive, remote, gpuVars>>

RequestedKey == <<shared.size, shared.preset>>

\* The GPU has retired everything that refers to the imports or the feature:
\* keep the feature only if its key is the requested one.
RetireQueue ==
  /\ HostAt("retire")
  /\ hostQ = <<>>
  /\ host' = [host EXCEPT !.pc = "import",
               !.feature = IF @ = RequestedKey THEN @ ELSE NoFeature,
               !.unopened =
                 {f \in Fields :
                    IF f = "fence" THEN ~host.sharedFence
                    ELSE host.imported # shared.resourceGeneration}]
  /\ UNCHANGED ipcVars

\* There is no device, or the drain reaches its deadline (it must when the queue
\* waits for a bridge that is gone).
RetireFails ==
  /\ HostAt("retire")
  /\ \/ "device" \in Faults /\ ~host.sharedFence
     \/ hostQ # <<>> /\ ("drain" \in Faults \/ ~alive.bridge)
  /\ CloseFields({f \in Fields : shared.handle[f] # 0})
  /\ host' = HostGoto("configFailed")
  /\ UNCHANGED <<event, alive, gpuVars>>

\* openTransferred consumes the handle whether or not the import succeeds.
Import(f) ==
  /\ HostAt("import") /\ f \in host.unopened
  /\ shared.handle[f] # 0
  /\ CloseFields({f})
  /\ host' = [host EXCEPT !.unopened = @ \ {f},
                          !.sharedFence = @ \/ f = "fence",
                          !.next = IF f = "fence" THEN @ ELSE shared.handle[f]]
  /\ UNCHANGED <<event, alive, gpuVars>>

ImportFails ==
  /\ HostAt("import") /\ host.unopened # {}
  /\ \/ "import" \in Faults
     \/ \E f \in host.unopened : shared.handle[f] = 0
  /\ CloseFields({f \in Fields : shared.handle[f] # 0})
  /\ host' = [host EXCEPT !.pc = "configFailed", !.unopened = {}]
  /\ UNCHANGED <<event, alive, gpuVars>>

Imported ==
  /\ HostAt("import") /\ host.unopened = {}
  /\ host' = [host EXCEPT !.pc = "feature", !.textures = host.next,
                          !.imported = shared.resourceGeneration]
  /\ UNCHANGED ipcVars

\* Reuse or create the feature, and announce Ready.
FeatureReady ==
  /\ HostAt("feature")
  /\ shared' = [shared EXCEPT !.state = "Ready", !.lastOk = TRUE]
  /\ host' = [host EXCEPT !.pc = "frame", !.feature = RequestedKey,
               !.lastFrame = IF host.feature = RequestedKey THEN @ ELSE 0,
               !.reset = TRUE]
  /\ UNCHANGED <<event, alive, remote, gpuVars>>

FeatureFails ==
  /\ HostAt("feature")
  /\ "create" \in Faults
  /\ host.feature # RequestedKey
  /\ host' = HostGoto("configFailed")
  /\ UNCHANGED ipcVars

ConfigureFailed ==
  /\ HostAt("configFailed")
  /\ shared' = [shared EXCEPT !.state = "Error"]
  /\ host' = HostGoto("wait")
  /\ UNCHANGED <<event, alive, remote, gpuVars>>

-----------------------------------------------------------------------------
\* processFrame: a new sequence number and a feature, else back to the wait.
BeginFrame ==
  /\ HostAt("frame")
  /\ \/ /\ shared.frameSeq <= host.frameSeen \/ host.feature = NoFeature
        /\ host' = HostGoto("wait")
        /\ UNCHANGED hostQ
     \/ /\ shared.frameSeq > host.frameSeen /\ host.feature # NoFeature
        /\ host' = [host EXCEPT !.pc = "record", !.frameSeen = shared.frameSeq,
                     !.seq = shared.frameSeq, !.output = shared.outputFence]
        /\ hostQ' = Append(hostQ, Op("wait", shared.inputFence, host.textures))
  /\ UNCHANGED <<shared, event, alive, remote, fence, armed, bridgeQ, tex, screen>>

\* Record and submit the evaluation (or the fallback copy), then the signal.
\* "close" is a list whose evaluation was recorded but that cannot be closed.
Outcomes == {"ok"} \cup (Faults \cap {"evaluate", "close"})

Submit(outcome, signalled) ==
  LET work == Op(IF outcome = "ok" THEN "evaluate" ELSE "fallback",
                 shared.present, host.textures)
      signal == Op("signal", host.output, host.textures)
  IN hostQ' = hostQ \o IF signalled THEN <<work, signal>> ELSE <<work>>

\* Mutant: every outcome is reported as evaluated.
RecordReportsOk(outcome) ==
  /\ HostAt("record")
  /\ Submit(outcome, TRUE)
  /\ host' = [host EXCEPT !.pc = "enqueued", !.success = outcome = "ok",
               !.ok = TRUE, !.reset = @ /\ outcome = "evaluate",
               !.lastFrame = IF outcome = "evaluate" THEN @ ELSE shared.present]
  /\ UNCHANGED <<shared, event, alive, remote, fence, armed, bridgeQ, tex, screen>>

Record(outcome) ==
  /\ HostAt("record")
  /\ Submit(outcome, TRUE)
  /\ host' = [host EXCEPT !.pc = "enqueued", !.success = outcome = "ok",
               !.ok = outcome # "evaluate",
               !.reset = @ /\ outcome = "evaluate",
               !.lastFrame = IF outcome = "evaluate" THEN @ ELSE shared.present]
  /\ UNCHANGED <<shared, event, alive, remote, fence, armed, bridgeQ, tex, screen>>

\* The queue refuses the output signal: the frame is completed as an error.
SignalFails(outcome) ==
  /\ HostAt("record")
  /\ "hostSignal" \in Faults
  /\ Submit(outcome, FALSE)
  /\ shared' = [shared EXCEPT !.state = "Error"]
  /\ host' = [host EXCEPT !.pc = "complete", !.reset = @ /\ outcome = "evaluate",
               !.lastFrame = IF outcome = "evaluate" THEN @ ELSE shared.present]
  /\ UNCHANGED <<event, alive, remote, fence, armed, bridgeQ, tex, screen>>

PublishEnqueued ==
  /\ HostAt("enqueued")
  /\ shared' = [shared EXCEPT !.enqueuedSeq = host.seq]
  /\ host' = HostGoto("enqueuedEvent")
  /\ UNCHANGED <<event, alive, remote, gpuVars>>

SetDone(here, next) ==
  /\ HostAt(here)
  /\ event' = [event EXCEPT !.done = TRUE]
  /\ host' = HostGoto(next)
  /\ UNCHANGED <<shared, alive, remote, gpuVars>>

AnnounceEnqueued == SetDone("enqueuedEvent", "result")

PublishResult ==
  /\ HostAt("result")
  /\ shared' = [shared EXCEPT !.lastOk = host.ok,
                 !.state = IF host.success THEN "Active" ELSE "Error"]
  /\ host' = HostGoto("complete")
  /\ UNCHANGED <<event, alive, remote, gpuVars>>

\* Mutant: the completion is published without its event.
PublishCompletedSilently ==
  /\ HostAt("complete")
  /\ shared' = [shared EXCEPT !.completedSeq = host.seq]
  /\ host' = HostGoto("wait")
  /\ UNCHANGED <<event, alive, remote, gpuVars>>

PublishCompleted ==
  /\ HostAt("complete")
  /\ shared' = [shared EXCEPT !.completedSeq = host.seq]
  /\ host' = HostGoto("completeEvent")
  /\ UNCHANGED <<event, alive, remote, gpuVars>>

AnnounceCompleted == SetDone("completeEvent", "wait")

-----------------------------------------------------------------------------
\* shutdown: retire the queue, close what was never imported, stop.
StopHost ==
  /\ HostAt("shutdown")
  /\ hostQ = <<>>
  /\ remote' = remote \ {<<f, shared.handle[f]>> : f \in Fields}
  /\ shared' = [shared EXCEPT !.state = "Stopping",
                              !.handle = [f \in Fields |-> 0]]
  /\ host' = HostGoto("stopping")
  /\ UNCHANGED <<event, alive, gpuVars>>

\* The process ends: by returning, by ExitProcess when the drain timed out, or
\* abnormally.  Its handle table and its GPU work go with it.
Gone ==
  /\ alive' = [alive EXCEPT !.host = FALSE]
  /\ remote' = {}
  /\ hostQ' = <<>>
  /\ host' = HostGoto("exited")
  /\ UNCHANGED <<shared, event, fence, armed, bridgeQ, tex, screen>>

\* There is nothing left to open: the bridge is gone, or has given up waiting.
OpenFails ==
  /\ HostAt("start")
  /\ ~alive.bridge \/ (shared.stopRequested /\ "timeout" \in Faults)
  /\ Gone

Exit ==
  /\ HostAt("stopping") \/ (HostAt("shutdown") /\ hostQ # <<>>)
  /\ Gone

HostCrash ==
  /\ "hostCrash" \in Faults
  /\ alive.host
  /\ Gone

=============================================================================
