------------------------ MODULE NrHostSession_proofs ------------------------
(***************************************************************************)
(* What a session of the bridge and the NRHost process guarantees of every *)
(* frame, for every number of presents, sizes, presets and textures, and   *)
(* for every set of faults the hypotheses of a theorem allow.              *)
(*                                                                         *)
(* None of the properties is inductive.  That the two queues never touch   *)
(* the same textures, say, follows from where each process is in its code, *)
(* from which request is outstanding, from the fence values stamped for    *)
(* it, and from what is left in each queue and in which order.  IInv says  *)
(* so in thirteen parts, each of which relies on others: a configuration   *)
(* and a frame are never in the host together (Configuration) because the  *)
(* bridge prepares only while the host has nothing of any frame            *)
(* (Ownership), which holds because only an answered request is retired    *)
(* (Stamps, Frames, Fences).  A theorem then follows from IInv, or from    *)
(* IInv and an invariant of its own that is inductive relative to it.      *)
(*                                                                         *)
(* Every theorem supposes that no wait of the bridge returns WAIT_FAILED:  *)
(* the bridge then forgets a request the host is still working on.  Where  *)
(* a theorem needs more it says so: PromiseKept that the game does not die *)
(* with copies queued, NeuralIsEvaluated that a list whose evaluation was  *)
(* recorded can be closed, HistoryIsUnbroken that the user has not turned  *)
(* Settings::resetOnTemporalGap off.                                       *)
(***************************************************************************)
EXTENDS NrHostSession, TLAPS

---------------------------------------------------------------------------
(* The session is well typed.                                              *)
(*                                                                         *)
(* TypeOK alone is not inductive: it bounds every counter by MaxPresents,  *)
(* and the code bounds only the presents.  CountersBounded ties each       *)
(* counter to bridge.present: one call of evaluate steps each generation   *)
(* and frameSeq at most once and fenceValue by two, and until the call has *)
(* passed the point that steps a counter, the counter is strictly behind.  *)

\* The points of one evaluate call before each counter is stepped.
BeforeTransfer == {"pending", "drain", "drainSleep", "fill", "ensure"}
BeforeBump == BeforeTransfer \cup {"transfer", "publish", "bump"}
BeforeSubmit == BeforeBump \cup {"wake", "await", "state"}
BeforeNumber == BeforeSubmit \cup {"stamp", "number"}

\* The counters, behind the number of presents and strictly so before their step.
CountersBounded ==
  /\ bridge.generation <= bridge.present
  /\ shared.configGeneration <= bridge.present
  /\ shared.resourceGeneration <= bridge.present
  /\ shared.frameSeq <= bridge.present
  /\ bridge.fenceValue <= 2 * bridge.present
  /\ bridge.pc \in BeforeTransfer => bridge.generation < bridge.present
  /\ bridge.pc \in BeforeBump =>
       /\ shared.configGeneration < bridge.present
       /\ shared.resourceGeneration < bridge.present
  /\ bridge.pc \in BeforeSubmit => bridge.fenceValue + 2 <= 2 * bridge.present
  /\ bridge.pc \in BeforeNumber => shared.frameSeq < bridge.present
  /\ bridge.pc = "stamp" => bridge.fenceValue >= 1

\* The inductive invariant.
Bounded == TypeOK /\ CountersBounded

USE DEF At, HostAt, Goto, HostGoto

\* Zero is an ordinal and a fence value: the reset value of every counter.
LEMMA ZeroType == 0 \in Ordinals /\ 0 \in FenceValues
BY BoundsAssumption DEF Ordinals, FenceValues

\* The state openSession and initialize start from is within the bounds.
LEMMA InitBounded == Init => Bounded
<1> SUFFICES ASSUME Init PROVE Bounded
  OBVIOUS
<1> USE BoundsAssumption DEF Ordinals, FenceValues
<1>1. shared \in SharedType
  BY DEF Init, IpcInit, SharedType, HostStates, Fields
<1>2. /\ event \in EventType
      /\ alive \in [bridge : BOOLEAN, host : BOOLEAN]
      /\ remote \subseteq Fields \X Ordinals
      /\ fence \in FenceValues /\ armed \subseteq FenceValues
      /\ bridgeQ \in Seq(Ops) /\ hostQ \in Seq(Ops)
  BY DEF Init, IpcInit, Fields, EventType
<1>3. /\ tex \in [Ordinals -> [input : Ordinals, output : Images]]
      /\ screen \in [frame : Ordinals, image : Images]
  BY DEF Init, IpcInit, Images, NoImage
<1>4. bridge \in BridgeType
  BY DEF Init, BridgeInit, BridgeType, BridgePcs, Calls, NoCall
<1>5. host \in HostType
  BY DEF Init, HostInit, HostType, HostPcs, NoFeature
<1>6. CountersBounded
  BY DEF Init, IpcInit, BridgeInit, CountersBounded, BeforeTransfer, BeforeBump, BeforeSubmit, BeforeNumber
<1> QED
  BY <1>1, <1>2, <1>3, <1>4, <1>5, <1>6 DEF Bounded, TypeOK



\* The counters of the block that only the bridge steps.
SameCounters ==
  /\ shared'.frameSeq = shared.frameSeq
  /\ shared'.configGeneration = shared.configGeneration
  /\ shared'.resourceGeneration = shared.resourceGeneration

BridgeBounded == bridge \in BridgeType /\ CountersBounded

Stages == {BeforeTransfer, BeforeBump, BeforeSubmit, BeforeNumber}

\* A step that leaves the shared block alone leaves its counters alone.
LEMMA SameCountersIfUnchanged == UNCHANGED shared => SameCounters
BY DEF SameCounters

\* Passing the input through leaves the bridge well typed.
LEMMA PassedThroughType ==
  ASSUME NEW b \in BridgeType PROVE PassedThrough(b) \in BridgeType
<1>1. "idle" \in BridgePcs /\ NoCall \in Calls
  BY DEF BridgePcs, NoCall, Calls
<1>2. (b.pipelineReset \/ ResetOnTemporalGap) \in BOOLEAN
  OBVIOUS
<1> QED
  BY <1>1, <1>2 DEF PassedThrough, BridgeType

\* What passing the input through does to the fields the bounds are about.
LEMMA PassedThroughFields ==
  ASSUME NEW b \in BridgeType
  PROVE  /\ PassedThrough(b).pc = "idle"
         /\ PassedThrough(b).present = b.present
         /\ PassedThrough(b).generation = b.generation
         /\ PassedThrough(b).fenceValue = b.fenceValue
BY DEF PassedThrough, BridgeType

\* A step by which the presenting thread leaves evaluate keeps the bounds:
\* no stage of the call is left to run.
LEMMA Leaves ==
  ASSUME Bounded, SameCounters, bridge' \in BridgeType,
         bridge'.present = bridge.present,
         bridge'.generation = bridge.generation,
         bridge'.fenceValue <= 2 * bridge.present,
         bridge'.pc \in {"idle", "closing", "closed", "dead"}
  PROVE BridgeBounded'
BY DEF Bounded, BridgeBounded, CountersBounded, SameCounters, BeforeTransfer, BeforeBump, BeforeSubmit,
   BeforeNumber, TypeOK, BridgeType, SharedType, Ordinals, FenceValues

\* evaluate returning false from an adjusted bridge state keeps the bounds.
LEMMA Returns ==
  ASSUME Bounded, SameCounters, NEW b \in BridgeType,
         b.present = bridge.present, b.generation = bridge.generation,
         b.fenceValue <= 2 * bridge.present,
         bridge' = PassedThrough(b)
  PROVE BridgeBounded'
<1>1. bridge' \in BridgeType BY PassedThroughType
<1>2. bridge'.pc = "idle" /\ bridge'.present = bridge.present /\ bridge'.generation = bridge.generation /\ bridge'.fenceValue <= 2 * bridge.present
  BY PassedThroughFields
<1> QED BY <1>1, <1>2, Leaves

\* evaluate returning false at once keeps the bounds.
LEMMA ReturnsNow ==
  ASSUME Bounded, SameCounters, bridge' = PassedThrough(bridge)
  PROVE BridgeBounded'
BY Returns DEF Bounded, TypeOK, CountersBounded

\* A step inside evaluate keeps the bounds when it does not go back to an
\* earlier stage of the call and steps no counter.
LEMMA Goes ==
  ASSUME Bounded, SameCounters, bridge' \in BridgeType,
         bridge'.present = bridge.present,
         bridge'.generation = bridge.generation,
         bridge'.fenceValue = bridge.fenceValue,
         \A stage \in Stages : bridge'.pc \in stage => bridge.pc \in stage,
         bridge'.pc # "stamp"
  PROVE BridgeBounded'
<1>1. bridge'.pc \in BeforeTransfer => bridge.pc \in BeforeTransfer BY DEF Stages
<1>2. bridge'.pc \in BeforeBump => bridge.pc \in BeforeBump BY DEF Stages
<1>3. bridge'.pc \in BeforeSubmit => bridge.pc \in BeforeSubmit BY DEF Stages
<1>4. bridge'.pc \in BeforeNumber => bridge.pc \in BeforeNumber BY DEF Stages
<1> QED
BY <1>1, <1>2, <1>3, <1>4 DEF Bounded, BridgeBounded, CountersBounded, SameCounters, TypeOK, SharedType, BridgeType

\* The same for a step that only moves the program counter.
LEMMA GoesTo ==
  ASSUME Bounded, SameCounters, NEW pc \in BridgePcs, bridge' = Goto(pc),
         \A stage \in Stages : pc \in stage => bridge.pc \in stage,
         pc # "stamp"
  PROVE BridgeBounded'
<1>1. bridge' \in BridgeType /\ bridge'.pc = pc /\
         bridge'.present = bridge.present /\
         bridge'.generation = bridge.generation /\
         bridge'.fenceValue = bridge.fenceValue
  BY DEF BridgeType, Bounded, TypeOK
<1> QED BY <1>1, Goes

\* Retiring the older request (canWriteInputs) keeps the bounds.
LEMMA Retires ==
  ASSUME Bounded, SameCounters, bridge' = Retired(bridge),
         \A stage \in Stages : bridge.pc \in stage
  PROVE  BridgeBounded'
<1>1. /\ bridge' \in BridgeType /\ bridge'.pc = "fill"
      /\ bridge'.present = bridge.present
      /\ bridge'.generation = bridge.generation
      /\ bridge'.fenceValue = bridge.fenceValue
  BY ZeroType DEF Bounded, TypeOK, BridgeType, BridgePcs, Retired
<1> QED
  BY <1>1, Goes

\* Nothing is left to step once the frame is published, or outside evaluate.
LEMMA NoStage ==
  \A pc \in {"kick", "enqueue", "enqueueSleep", "output", "outputSleep", "finish",
             "idle", "closing", "closed", "dead"}, stage \in Stages : pc \notin stage
BY DEF Stages, BeforeTransfer, BeforeBump, BeforeSubmit, BeforeNumber

\* Giving a request up because the host is gone keeps the bounds.
LEMMA Abandons ==
  ASSUME Bounded, SameCounters, bridge' = Abandoned(bridge)
  PROVE  BridgeBounded'
<1> DEFINE left == [bridge EXCEPT !.forceReset = ResetOnTemporalGap]
<1>1. /\ left \in BridgeType /\ left.present = bridge.present
      /\ left.generation = bridge.generation
      /\ left.fenceValue <= 2 * bridge.present
  BY GapAssumption DEF Bounded, TypeOK, BridgeType, CountersBounded
<1>2. bridge' = PassedThrough(left)
  BY DEF Abandoned
<1> HIDE DEF left
<1> QED
  BY <1>1, <1>2, Returns

\* Leaving a request outstanding after an expired wait keeps the bounds.
LEMMA LeavesPending ==
  ASSUME Bounded, SameCounters, bridge' = LeftPending(bridge)
  PROVE  BridgeBounded'
<1> DEFINE left == [bridge EXCEPT !.pending = shared.frameSeq,
                      !.pendingOutput = bridge.fenceValue,
                      !.forceReset = ResetOnTemporalGap]
<1>1. /\ left \in BridgeType /\ left.present = bridge.present
      /\ left.generation = bridge.generation
      /\ left.fenceValue <= 2 * bridge.present
  BY GapAssumption DEF Bounded, TypeOK, BridgeType, SharedType, CountersBounded
<1>2. bridge' = PassedThrough(left)
  BY DEF LeftPending
<1> HIDE DEF left
<1> QED
  BY <1>1, <1>2, Returns

\* Requesting the stop keeps the shared block well typed.
LEMMA AsksToStop ==
  ASSUME Bounded, shared' = [shared EXCEPT !.stopRequested = TRUE]
  PROVE  shared' \in SharedType /\ SameCounters
BY DEF Bounded, TypeOK, SharedType, SameCounters

\* Closing handle fields keeps the block and the host handle table well typed.
LEMMA CloseFieldsType ==
  ASSUME Bounded, NEW fields \in SUBSET Fields, CloseFields(fields)
  PROVE  shared' \in SharedType /\ SameCounters /\ remote' \subseteq Fields \X Ordinals
BY ZeroType DEF CloseFields, Bounded, TypeOK, SharedType, SameCounters

\* The rest of the state follows when a bridge step writes only the block,
\* the events and the bridge.
LEMMA Rest ==
  ASSUME Bounded, BridgeBounded', shared' \in SharedType,
     UNCHANGED <<alive, remote, fence, armed, bridgeQ, hostQ, tex, screen, host>>,
     event' \in EventType
  PROVE Bounded'
BY DEF Bounded, BridgeBounded, TypeOK

\* Registering on the fence keeps the events and the registrations well typed.
LEMMA RegisterType ==
  ASSUME Bounded, NEW value \in FenceValues, Register(value)
  PROVE  event' \in EventType /\ armed' \subseteq FenceValues
<1>1. event \in EventType /\ armed \subseteq FenceValues
  BY DEF Bounded, TypeOK
<1>2. (fence >= value) \in BOOLEAN
  OBVIOUS
<1>3. event' \in EventType
  BY <1>1, <1>2 DEF Register, EventType
<1> QED
  BY <1>1, <1>3 DEF Register

\* Step Connect, initialize, keeps the bounds.
LEMMA ConnectBounded == ASSUME Bounded, Connect, UNCHANGED host PROVE Bounded'
<1>1. shared' \in SharedType /\ SameCounters
  <2>1. CASE UNCHANGED shared
    BY <2>1, SameCountersIfUnchanged DEF Bounded, TypeOK
  <2>2. CASE shared' = [shared EXCEPT !.stopRequested = TRUE]
    BY <2>2, AsksToStop
  <2> QED
    BY <2>1, <2>2 DEF Connect
<1>2. event' \in EventType
  BY DEF Connect, Bounded, TypeOK, EventType
<1>3. BridgeBounded'
  <2>1. bridge' = Goto("idle") \/ bridge' = Goto("closing")
    BY DEF Connect
  <2>2. \A pc \in {"idle", "closing"}, stage \in Stages : pc \notin stage
    BY DEF Stages, BeforeTransfer, BeforeBump, BeforeSubmit, BeforeNumber
  <2> HIDE DEF Goto
  <2> QED
    BY <1>1, <2>1, <2>2, GoesTo DEF BridgePcs
<1> QED
  BY <1>1, <1>2, <1>3, Rest DEF Connect, gpuVars

\* Step CheckPending, the in-flight check of evaluate, keeps the bounds.
LEMMA CheckPendingBounded == ASSUME Bounded, CheckPending, UNCHANGED host PROVE Bounded'
<1>1. UNCHANGED <<shared, alive, remote, fence, bridgeQ, hostQ, tex, screen>> /\ SameCounters
  BY DEF CheckPending, SameCounters
<1>2. event' \in EventType
  <2>1. bridge.pendingOutput \in FenceValues
    BY DEF Bounded, TypeOK, BridgeType
  <2>2. CASE Register(bridge.pendingOutput)
    BY <2>1, <2>2, RegisterType
  <2>3. CASE UNCHANGED event \/ event' = [event EXCEPT !.done = FALSE]
    BY <2>3 DEF Bounded, TypeOK, EventType
  <2> QED
    BY <2>2, <2>3 DEF CheckPending
<1>4. armed' \subseteq FenceValues
  BY DEF CheckPending, Bounded, TypeOK, Register, BridgeType
<1>3. BridgeBounded'
  <2>1. bridge' = Goto("fill") \/ bridge' = Goto("drain") \/ bridge' = Retired(bridge) \/ bridge' = PassedThrough(bridge)
    BY DEF CheckPending
  <2>2. \A stage \in Stages : bridge.pc \in stage
    BY DEF Stages, BeforeTransfer, BeforeBump, BeforeSubmit, BeforeNumber, CheckPending
  <2>3. CASE bridge' = Retired(bridge)
    BY <1>1, <2>2, <2>3, Retires
  <2> HIDE DEF Goto
  <2> QED
    BY <1>1, <2>1, <2>2, <2>3, GoesTo, ReturnsNow DEF BridgePcs
<1> QED
  BY <1>1, <1>2, <1>3, <1>4 DEF Bounded, BridgeBounded, TypeOK

\* Step PollDrain, polling the older request, keeps the bounds.
LEMMA PollDrainBounded == ASSUME Bounded, PollDrain, UNCHANGED host PROVE Bounded'
<1>1. UNCHANGED <<shared, alive, remote, fence, armed, bridgeQ, hostQ, tex, screen>> /\ SameCounters
  BY DEF PollDrain, PollOutput, SameCounters, ipcVars, gpuVars
<1>2. event' \in EventType
  BY DEF PollDrain, PollOutput, ipcVars, Bounded, TypeOK, EventType
<1>3. BridgeBounded'
  <2>1. \/ bridge' = Goto("drainSleep") \/ bridge' = Retired(bridge)
        \/ bridge' = PassedThrough(bridge)
    BY DEF PollDrain, PollOutput
  <2>2. \A stage \in Stages : bridge.pc \in stage
    BY DEF Stages, BeforeTransfer, BeforeBump, BeforeSubmit, BeforeNumber, PollDrain
  <2>3. CASE bridge' = Retired(bridge)
    BY <1>1, <2>2, <2>3, Retires
  <2> HIDE DEF Goto
  <2> QED
    BY <1>1, <2>1, <2>2, <2>3, GoesTo, ReturnsNow DEF BridgePcs
<1> QED
  BY <1>1, <1>2, <1>3, Rest DEF Bounded, TypeOK

\* Step SleepDrain, sleeping on the older request, keeps the bounds.
LEMMA SleepDrainBounded == ASSUME Bounded, SleepDrain, UNCHANGED host PROVE Bounded'
<1>1. UNCHANGED <<shared, alive, remote, fence, armed, bridgeQ, hostQ, tex, screen>> /\ SameCounters
  BY DEF SleepDrain, SleepOutput, SameCounters, gpuVars
<1>2. event' \in EventType
  BY DEF SleepDrain, SleepOutput, Bounded, TypeOK, EventType
<1>3. BridgeBounded'
  <2>1. bridge' = Goto("drain") \/ bridge' = PassedThrough(bridge)
    BY DEF SleepDrain, SleepOutput
  <2>2. \A stage \in Stages : bridge.pc \in stage
    BY DEF Stages, BeforeTransfer, BeforeBump, BeforeSubmit, BeforeNumber, SleepDrain, SleepOutput
  <2> HIDE DEF Goto
  <2> QED
    BY <1>1, <2>1, <2>2, GoesTo, ReturnsNow DEF BridgePcs
<1> QED
  BY <1>1, <1>2, <1>3, Rest DEF Bounded, TypeOK

\* Step Fill, writing the frame parameters, keeps the bounds.
LEMMA FillBounded == ASSUME Bounded, Fill, UNCHANGED host PROVE Bounded'
<1>1. UNCHANGED <<event, alive, remote, fence, armed, bridgeQ, hostQ, tex, screen>>
  BY DEF Fill, gpuVars
<1>2. shared' \in SharedType /\ SameCounters
  BY DEF Fill, Bounded, TypeOK, SharedType, BridgeType, Calls, SameCounters
<1>3. BridgeBounded'
  <2>1. bridge' = Goto("ensure") /\ \A stage \in Stages : bridge.pc \in stage
    BY DEF Stages, BeforeTransfer, BeforeBump, BeforeSubmit, BeforeNumber, Fill
  <2> HIDE DEF Goto
  <2> QED
    BY <1>2, <2>1, GoesTo DEF BridgePcs
<1> QED
  BY <1>1, <1>2, <1>3, Rest DEF Bounded, TypeOK

\* Step Ensure, the decision of ensureResources, keeps the bounds.
LEMMA EnsureBounded == ASSUME Bounded, Ensure, UNCHANGED host PROVE Bounded'
<1>1. UNCHANGED <<event, alive, remote, fence, armed, bridgeQ, hostQ, tex, screen>>
  BY DEF Ensure, gpuVars
<1>2. shared' \in SharedType /\ SameCounters
  BY ZeroType DEF Ensure, Bounded, TypeOK, SharedType, SameCounters
<1>3. BridgeBounded'
  <2>1. CASE bridge' = Goto("publish") \/ bridge' = Goto("state")
    <3>1. \A stage \in Stages : bridge.pc \in stage
      BY DEF Stages, BeforeTransfer, BeforeBump, BeforeSubmit, BeforeNumber, Ensure
    <3> HIDE DEF Goto
    <3> QED
      BY <1>2, <2>1, <3>1, GoesTo DEF BridgePcs
  <2>2. CASE bridge' = [bridge EXCEPT !.pc = "transfer",
                         !.resourcesReady = FALSE, !.forceReset = TRUE,
                         !.width = bridge.call.size, !.generation = @ + 1,
                         !.untransferred = Textures]
    <3>1. bridge.generation + 1 \in Ordinals /\ bridge.generation + 1 <= bridge.present
      BY BoundsAssumption DEF Ensure, Bounded, TypeOK, BridgeType, CountersBounded, BeforeTransfer, Ordinals
    <3> DEFINE generation == bridge.generation + 1
               width == bridge.call.size
    <3>5. width \in Sizes \cup {0} /\ "transfer" \in BridgePcs
      BY DEF Bounded, TypeOK, BridgeType, BridgePcs, Calls
    <3>6. bridge' = [bridge EXCEPT !.pc = "transfer", !.resourcesReady = FALSE,
                      !.forceReset = TRUE, !.width = width,
                      !.generation = generation, !.untransferred = Textures]
      BY <2>2 DEF Bounded, TypeOK, BridgeType
    <3>2. bridge' \in BridgeType
      <4> generation \in Ordinals
        BY <3>1
      <4> HIDE DEF generation, width
      <4> QED
        BY <3>5, <3>6 DEF Bounded, TypeOK, BridgeType
    <3>3. /\ bridge'.pc = "transfer" /\ bridge'.present = bridge.present
          /\ bridge'.fenceValue = bridge.fenceValue
          /\ bridge'.generation <= bridge'.present
      BY <3>1, <2>2 DEF Bounded, TypeOK, BridgeType
    <3>4. \A stage \in Stages : bridge.pc \in stage
      BY DEF Stages, BeforeTransfer, BeforeBump, BeforeSubmit, BeforeNumber, Ensure
    <3> QED
      BY <1>2, <3>2, <3>3, <3>4 DEF Bounded, BridgeBounded, CountersBounded, SameCounters, Stages, BeforeTransfer
  <2> QED
    BY <2>1, <2>2 DEF Ensure
<1> QED
  BY <1>1, <1>2, <1>3, Rest DEF Bounded, TypeOK

\* Step Transfer, duplicating one texture handle, keeps the bounds.
LEMMA TransferBounded ==
  ASSUME Bounded, NEW t \in Textures, Transfer(t), UNCHANGED host PROVE Bounded'
<1>1. UNCHANGED <<event, alive, fence, armed, bridgeQ, hostQ, tex, screen>>
  BY DEF Transfer, gpuVars
<1>2. bridge.generation \in Ordinals
  BY DEF Bounded, TypeOK, BridgeType
<1>3. shared' \in SharedType /\ SameCounters
  BY <1>2 DEF Transfer, Bounded, TypeOK, SharedType, SameCounters, Fields
<1>4. remote' \subseteq Fields \X Ordinals
  BY <1>2 DEF Transfer, Bounded, TypeOK, Fields
<1>5. BridgeBounded'
  <2>1. /\ bridge' \in BridgeType /\ bridge'.pc = bridge.pc
        /\ bridge'.present = bridge.present
        /\ bridge'.generation = bridge.generation
        /\ bridge'.fenceValue = bridge.fenceValue
        /\ bridge'.pc # "stamp"
    BY DEF Transfer, Bounded, TypeOK, BridgeType
  <2> QED
    BY <1>3, <2>1, Goes
<1> QED
  BY <1>1, <1>3, <1>4, <1>5 DEF Bounded, BridgeBounded, TypeOK

\* Step TransferFails, a failed handle batch, keeps the bounds.
LEMMA TransferFailsBounded == ASSUME Bounded, TransferFails, UNCHANGED host PROVE Bounded'
<1>1. UNCHANGED <<event, alive, fence, armed, bridgeQ, hostQ, tex, screen>>
  BY DEF TransferFails, gpuVars
<1>2. CloseFields({t \in Textures : shared.handle[t] # 0})
  BY DEF TransferFails
<1>3. shared' \in SharedType /\ SameCounters /\ remote' \subseteq Fields \X Ordinals
  BY <1>2, CloseFieldsType DEF Fields
<1>4. BridgeBounded'
  <2> DEFINE emptied == [bridge EXCEPT !.untransferred = {}]
  <2>1. /\ emptied \in BridgeType
        /\ emptied.present = bridge.present
        /\ emptied.generation = bridge.generation
        /\ emptied.fenceValue <= 2 * bridge.present
    BY DEF Bounded, TypeOK, BridgeType, CountersBounded
  <2>2. bridge' = PassedThrough(emptied)
    BY DEF TransferFails
  <2> HIDE DEF emptied
  <2> QED
    BY <1>3, <2>1, <2>2, Returns
<1> QED
  BY <1>1, <1>3, <1>4 DEF Bounded, BridgeBounded, TypeOK

\* Step PublishConfiguring, publishing the configuration, keeps the bounds.
LEMMA PublishConfiguringBounded ==
  ASSUME Bounded, PublishConfiguring, UNCHANGED host PROVE Bounded'
<1>1. UNCHANGED <<event, alive, remote, fence, armed, bridgeQ, hostQ, tex, screen>>
  BY DEF PublishConfiguring, gpuVars
<1>2. shared' \in SharedType /\ SameCounters
  BY DEF PublishConfiguring, Bounded, TypeOK, SharedType, BridgeType, HostStates, SameCounters
<1>3. BridgeBounded'
  <2>1. bridge' = Goto("bump")
    BY DEF PublishConfiguring
  <2>2. \A stage \in Stages : "bump" \in stage => bridge.pc \in stage
    BY DEF Stages, BeforeTransfer, BeforeBump, BeforeSubmit, BeforeNumber, PublishConfiguring
  <2> HIDE DEF Goto
  <2> QED
    BY <1>2, <2>1, <2>2, GoesTo DEF BridgePcs
<1> QED
  BY <1>1, <1>2, <1>3, Rest DEF Bounded, TypeOK

\* Step BumpGenerations, stepping the generations (at most once per present), keeps the bounds.
LEMMA BumpGenerationsBounded ==
  ASSUME Bounded, BumpGenerations, UNCHANGED host PROVE Bounded'
<1>1. UNCHANGED <<event, alive, remote, fence, armed, bridgeQ, hostQ, tex, screen>>
  BY DEF BumpGenerations, gpuVars
<1>2. /\ shared.configGeneration + 1 \in Ordinals
      /\ shared.resourceGeneration + 1 \in Ordinals
      /\ shared.configGeneration + 1 <= bridge.present
      /\ shared.resourceGeneration + 1 <= bridge.present
  <2>1. /\ shared.configGeneration \in Nat /\ shared.resourceGeneration \in Nat
        /\ bridge.present \in Nat /\ bridge.present <= MaxPresents
    BY DEF Bounded, TypeOK, BridgeType, SharedType, Ordinals
  <2>2. /\ shared.configGeneration < bridge.present
        /\ shared.resourceGeneration < bridge.present
    BY DEF BumpGenerations, Bounded, CountersBounded, BeforeBump
  <2> QED
    BY <2>1, <2>2, BoundsAssumption DEF Ordinals
<1>3. /\ shared' \in SharedType
      /\ shared'.frameSeq = shared.frameSeq
      /\ shared'.configGeneration <= bridge.present
      /\ shared'.resourceGeneration <= bridge.present
  BY <1>2 DEF BumpGenerations, Bounded, TypeOK, SharedType, CountersBounded
<1>4. /\ bridge' \in BridgeType /\ bridge'.pc = "wake"
      /\ bridge'.present = bridge.present
      /\ bridge'.generation = bridge.generation
      /\ bridge'.fenceValue = bridge.fenceValue
  BY DEF BumpGenerations, Bounded, TypeOK, BridgeType, BridgePcs
<1>5. bridge.pc = "bump"
  BY DEF BumpGenerations
<1>6. CountersBounded'
  BY <1>3, <1>4, <1>5 DEF Bounded, CountersBounded, BeforeTransfer, BeforeBump, BeforeSubmit, BeforeNumber
<1> QED
  BY <1>1, <1>3, <1>4, <1>6, Rest DEF Bounded, TypeOK, BridgeBounded

\* Step WakeHost, waking the host, keeps the bounds.
LEMMA WakeHostBounded == ASSUME Bounded, WakeHost, UNCHANGED host PROVE Bounded'
<1>1. UNCHANGED <<shared, alive, remote, fence, armed, bridgeQ, hostQ, tex, screen>> /\ SameCounters
  BY DEF WakeHost, gpuVars, SameCounters
<1>2. event' \in EventType
  BY DEF WakeHost, Bounded, TypeOK, EventType
<1>3. BridgeBounded'
  <2>1. bridge' = Goto("await")
    BY DEF WakeHost
  <2>2. \A stage \in Stages : "await" \in stage => bridge.pc \in stage
    BY DEF Stages, BeforeTransfer, BeforeBump, BeforeSubmit, BeforeNumber, WakeHost
  <2> HIDE DEF Goto
  <2> QED
    BY <1>1, <2>1, <2>2, GoesTo DEF BridgePcs
<1> QED
  BY <1>1, <1>2, <1>3, Rest DEF Bounded, TypeOK

\* Step AwaitReady, waiting for Ready, keeps the bounds.
LEMMA AwaitReadyBounded == ASSUME Bounded, AwaitReady, UNCHANGED host PROVE Bounded'
<1>1. UNCHANGED <<shared, event, alive, remote, fence, armed, bridgeQ, hostQ, tex, screen>> /\ SameCounters
  BY DEF AwaitReady, ipcVars, SameCounters
<1>2. BridgeBounded'
  <2>1. CASE bridge' = [bridge EXCEPT !.pc = "state", !.resourcesReady = TRUE, !.dirty = FALSE]
    <3>1. /\ bridge' \in BridgeType /\ bridge'.pc = "state"
          /\ bridge'.present = bridge.present
          /\ bridge'.generation = bridge.generation
          /\ bridge'.fenceValue = bridge.fenceValue
      BY <2>1 DEF Bounded, TypeOK, BridgeType, BridgePcs
    <3>2. \A stage \in Stages : "state" \in stage => bridge.pc \in stage
      BY DEF Stages, BeforeTransfer, BeforeBump, BeforeSubmit, BeforeNumber, AwaitReady
    <3> QED
      BY <1>1, <3>1, <3>2, Goes
  <2>2. CASE bridge' = PassedThrough(bridge)
    BY <1>1, <2>2, ReturnsNow
  <2> QED
    BY <2>1, <2>2 DEF AwaitReady
<1> QED
  BY <1>1, <1>2, Rest DEF Bounded, TypeOK

\* Step Present, a present of the game, keeps the bounds.
LEMMA PresentBounded ==
  ASSUME Bounded, NEW size \in Sizes, NEW preset \in Presets,
         NEW synchronized \in BOOLEAN, NEW cut \in BOOLEAN,
         Present(size, preset, synchronized, cut), UNCHANGED host
  PROVE  Bounded'
<1> DEFINE called == [bridge EXCEPT !.pc = "pending", !.present = @ + 1]
<1>1. UNCHANGED <<shared, event, alive, remote, fence, armed, bridgeQ, hostQ, tex, screen>>
  BY DEF Present, ipcVars
<1>2. bridge.present + 1 \in Ordinals
  BY BoundsAssumption DEF Present, Bounded, TypeOK, BridgeType, Ordinals
<1>3. /\ called \in BridgeType /\ called.pc = "pending"
      /\ called.present = bridge.present + 1
      /\ called.generation = bridge.generation
      /\ called.fenceValue = bridge.fenceValue
  BY <1>2 DEF Bounded, TypeOK, BridgeType, BridgePcs
<1>4. /\ bridge' \in BridgeType /\ bridge'.pc \in {"idle", "pending"}
      /\ bridge'.present = bridge.present + 1
      /\ bridge'.generation = bridge.generation
      /\ bridge'.fenceValue = bridge.fenceValue
  <2>1. CASE bridge' = PassedThrough(called)
    <3> HIDE DEF called
    <3> QED
      BY <2>1, <1>3, PassedThroughType, PassedThroughFields
  <2>2. CASE ~Refused
    <3>1. [size |-> size, synchronized |-> synchronized,
           reset |-> bridge.pipelineReset \/ cut] \in Calls
      BY DEF Calls
    <3>2. (bridge.dirty \/ bridge.lastPreset # preset) \in BOOLEAN
      OBVIOUS
    <3>3. (bridge.forceReset \/ bridge.lastPreset # preset) \in BOOLEAN
      OBVIOUS
    <3>4. bridge' = [called EXCEPT !.lastPreset = preset,
                      !.call = [size |-> size, synchronized |-> synchronized,
                                reset |-> bridge.pipelineReset \/ cut],
                      !.dirty = bridge.dirty \/ bridge.lastPreset # preset,
                      !.forceReset = bridge.forceReset \/ bridge.lastPreset # preset]
      BY <2>2, <1>3 DEF Present, Bounded, TypeOK, BridgeType
    <3> HIDE DEF called
    <3> DEFINE call == [size |-> size, synchronized |-> synchronized,
                        reset |-> bridge.pipelineReset \/ cut]
               dirty == bridge.dirty \/ bridge.lastPreset # preset
               forceReset == bridge.forceReset \/ bridge.lastPreset # preset
    <3>5. call \in Calls /\ dirty \in BOOLEAN /\ forceReset \in BOOLEAN
      BY <3>1, <3>2, <3>3
    <3>6. bridge' = [called EXCEPT !.lastPreset = preset, !.call = call,
                      !.dirty = dirty, !.forceReset = forceReset]
      BY <3>4
    <3> HIDE DEF call, dirty, forceReset
    <3>7. bridge' \in BridgeType
      BY <1>3, <3>5, <3>6 DEF BridgeType
    <3> QED
      BY <1>3, <3>6, <3>7 DEF BridgeType
  <2> QED
    BY <2>1, <2>2 DEF Present
<1>5. CountersBounded'
  <2>1. /\ bridge.present \in Nat /\ bridge.generation \in Nat /\ bridge.fenceValue \in Nat
        /\ shared.frameSeq \in Nat /\ shared.configGeneration \in Nat /\ shared.resourceGeneration \in Nat
    BY DEF Bounded, TypeOK, BridgeType, SharedType, Ordinals, FenceValues
  <2>2. bridge'.pc # "stamp"
    BY <1>4
  <2> QED
    BY <1>1, <1>4, <2>1, <2>2 DEF Bounded, CountersBounded
<1> QED
  BY <1>1, <1>4, <1>5, Rest DEF Bounded, TypeOK, BridgeBounded

\* Step SubmitInputs, submitting the input copies (two fence values per present), keeps the bounds.
LEMMA SubmitInputsBounded == ASSUME Bounded, SubmitInputs, UNCHANGED host PROVE Bounded'
<1> DEFINE next == [bridge EXCEPT !.fenceValue = @ + 2]
           copy == Op("copyIn", bridge.present, bridge.generation)
           signal == Op("signal", bridge.fenceValue + 1, bridge.generation)
<1> USE BoundsAssumption DEF Bounded, TypeOK, ipcVars, gpuVars
<1>1. UNCHANGED <<shared, event, alive, remote, fence, armed, hostQ, tex, screen>>
  BY DEF SubmitInputs
<1>2. /\ bridge.pc = "state"
      /\ bridge.fenceValue + 1 \in FenceValues
      /\ bridge.fenceValue + 2 \in FenceValues
      /\ bridge.fenceValue + 2 <= 2 * bridge.present
  <2>1. bridge.fenceValue \in Nat /\ bridge.present \in Nat /\ bridge.present <= MaxPresents
    BY DEF BridgeType, FenceValues, Ordinals
  <2>2. bridge.pc = "state" /\ bridge.fenceValue + 2 <= 2 * bridge.present
    BY DEF SubmitInputs, CountersBounded, BeforeSubmit, BeforeBump
  <2>3. bridge.fenceValue + 2 <= 2 * MaxPresents
    BY <2>1, <2>2
  <2> QED
    BY <2>1, <2>2, <2>3 DEF FenceValues
<1>3. /\ next \in BridgeType
      /\ [next EXCEPT !.pc = "stamp"] \in BridgeType
      /\ copy \in Ops /\ signal \in Ops
   BY <1>2 DEF BridgeType, BridgePcs, Op, Ops
<1> HIDE DEF copy, signal
<1>4. CASE bridge' = PassedThrough(bridge) /\ UNCHANGED bridgeQ
  <2>1. CountersBounded'
    BY <1>4, <1>1 DEF CountersBounded, PassedThrough, BeforeTransfer, BeforeBump, BeforeSubmit, BeforeNumber, BridgeType
  <2> QED
    BY <2>1, <1>4, <1>1, PassedThroughType
<1>5. CASE bridge' = [next EXCEPT !.pc = "stamp"] /\ bridgeQ' = bridgeQ \o <<copy, signal>>
  <2>1. CountersBounded'
    BY <1>5, <1>2, <1>1 DEF CountersBounded, BeforeTransfer, BeforeBump, BeforeSubmit, BeforeNumber, BridgeType, FenceValues, Ordinals
  <2>2. bridgeQ' \in Seq(Ops)
    BY <1>5, <1>3
  <2> QED
    BY <2>1, <2>2, <1>5, <1>1, <1>3
<1>6. CASE bridge' = PassedThrough(next) /\ bridgeQ' = Append(bridgeQ, copy)
  <2>1. CountersBounded'
    BY <1>6, <1>2, <1>1 DEF CountersBounded, PassedThrough, BeforeTransfer, BeforeBump, BeforeSubmit, BeforeNumber, BridgeType, FenceValues, Ordinals
  <2> HIDE DEF next
  <2>2. bridgeQ' \in Seq(Ops)
    BY <1>6, <1>3
  <2> QED
    BY <2>1, <2>2, <1>6, <1>1, <1>3, PassedThroughType
<1> QED
  BY <1>4, <1>5, <1>6 DEF SubmitInputs, copy, signal

\* Step StampFences, stamping the fence values, keeps the bounds.
LEMMA StampFencesBounded == ASSUME Bounded, StampFences, UNCHANGED host PROVE Bounded'
<1>1. UNCHANGED <<alive, remote, fence, armed, bridgeQ, hostQ, tex, screen>>
  BY DEF StampFences, gpuVars
<1>2. bridge.fenceValue - 1 \in FenceValues /\ bridge.fenceValue \in FenceValues
  BY BoundsAssumption DEF StampFences, Bounded, TypeOK, BridgeType, CountersBounded, FenceValues
<1>3. shared' \in SharedType /\ SameCounters
  BY <1>2 DEF StampFences, Bounded, TypeOK, SharedType, SameCounters
<1>4. event' \in EventType
  BY DEF StampFences, Bounded, TypeOK, EventType
<1>5. BridgeBounded'
  <2>1. bridge' = Goto("number")
    BY DEF StampFences
  <2>2. \A stage \in Stages : "number" \in stage => bridge.pc \in stage
    BY DEF Stages, BeforeTransfer, BeforeBump, BeforeSubmit, BeforeNumber, StampFences
  <2> HIDE DEF Goto
  <2> QED
    BY <1>3, <2>1, <2>2, GoesTo DEF BridgePcs
<1> QED
  BY <1>1, <1>3, <1>4, <1>5, Rest DEF Bounded, TypeOK

\* Step PublishFrame, stepping frameSeq (at most once per present), keeps the bounds.
LEMMA PublishFrameBounded == ASSUME Bounded, PublishFrame, UNCHANGED host PROVE Bounded'
<1>1. UNCHANGED <<event, alive, remote, fence, armed, bridgeQ, hostQ, tex, screen>>
  BY DEF PublishFrame, gpuVars
<1>2. shared.frameSeq + 1 \in Ordinals /\ shared.frameSeq + 1 <= bridge.present
  <2>1. /\ shared.frameSeq \in Nat
        /\ bridge.present \in Nat /\ bridge.present <= MaxPresents
    BY DEF Bounded, TypeOK, BridgeType, SharedType, Ordinals
  <2>2. shared.frameSeq < bridge.present
    BY DEF PublishFrame, Bounded, CountersBounded, BeforeNumber
  <2> QED
    BY <2>1, <2>2, BoundsAssumption DEF Ordinals
<1>3. /\ shared' \in SharedType
      /\ shared'.frameSeq = shared.frameSeq + 1
      /\ shared'.configGeneration = shared.configGeneration
      /\ shared'.resourceGeneration = shared.resourceGeneration
  BY <1>2 DEF PublishFrame, Bounded, TypeOK, SharedType
<1>4. /\ bridge' \in BridgeType /\ bridge'.pc = "kick"
      /\ bridge'.present = bridge.present
      /\ bridge'.generation = bridge.generation
      /\ bridge'.fenceValue = bridge.fenceValue
  BY DEF PublishFrame, Bounded, TypeOK, BridgeType, BridgePcs
<1>5. CountersBounded'
  BY <1>2, <1>3, <1>4 DEF Bounded, CountersBounded, BeforeTransfer, BeforeBump, BeforeSubmit, BeforeNumber
<1> QED
  BY <1>1, <1>3, <1>4, <1>5, Rest DEF Bounded, TypeOK, BridgeBounded

\* Step KickHost, waking the host for a frame, keeps the bounds.
LEMMA KickHostBounded == ASSUME Bounded, KickHost, UNCHANGED host PROVE Bounded'
<1>1. UNCHANGED <<shared, alive, remote, fence, armed, bridgeQ, hostQ, tex, screen>> /\ SameCounters
  BY DEF KickHost, gpuVars, SameCounters
<1>2. event' \in EventType
  BY DEF KickHost, Bounded, TypeOK, EventType
<1>3. BridgeBounded'
  BY <1>1, NoStage, GoesTo DEF KickHost, BridgePcs
<1> QED
  BY <1>1, <1>2, <1>3, Rest DEF Bounded, TypeOK

\* Step PollEnqueued, polling for the enqueue, keeps the bounds.
LEMMA PollEnqueuedBounded == ASSUME Bounded, PollEnqueued, UNCHANGED host PROVE Bounded'
<1>1. UNCHANGED <<shared, alive, remote, fence, bridgeQ, hostQ, tex, screen>> /\ SameCounters
  BY DEF PollEnqueued, SameCounters
<1>2. event' \in EventType /\ armed' \subseteq FenceValues
  <2>1. bridge.fenceValue \in FenceValues
    BY DEF Bounded, TypeOK, BridgeType
  <2>2. CASE Register(bridge.fenceValue)
    BY <2>1, <2>2, RegisterType
  <2>3. CASE UNCHANGED <<event, armed>>
    BY <2>3 DEF Bounded, TypeOK
  <2> QED
    BY <2>2, <2>3 DEF PollEnqueued
<1>3. BridgeBounded'
  <2>1. bridge' = Goto("output") \/ bridge' = Goto("enqueueSleep") \/ bridge' = Abandoned(bridge)
    BY DEF PollEnqueued
  <2> HIDE DEF Goto
  <2> QED
    BY <1>1, <2>1, NoStage, GoesTo, Abandons DEF BridgePcs
<1> QED
  BY <1>1, <1>2, <1>3 DEF Bounded, TypeOK, BridgeBounded

\* Step SleepEnqueued, sleeping on the enqueue, keeps the bounds.
LEMMA SleepEnqueuedBounded == ASSUME Bounded, SleepEnqueued, UNCHANGED host PROVE Bounded'
<1>1. UNCHANGED <<shared, alive, remote, fence, armed, bridgeQ, hostQ, tex, screen>> /\ SameCounters
  BY DEF SleepEnqueued, SameCounters, gpuVars
<1>2. event' \in EventType
  BY DEF SleepEnqueued, Bounded, TypeOK, EventType
<1>3. BridgeBounded'
  <2>1. bridge' = Goto("enqueue") \/ bridge' = Abandoned(bridge)
    BY DEF SleepEnqueued
  <2> HIDE DEF Goto
  <2> QED
    BY <1>1, <2>1, NoStage, GoesTo, Abandons DEF BridgePcs
<1> QED
  BY <1>1, <1>2, <1>3, Rest DEF Bounded, TypeOK

\* Step PollCurrent, polling for the output, keeps the bounds.
LEMMA PollCurrentBounded == ASSUME Bounded, PollCurrent, UNCHANGED host PROVE Bounded'
<1>1. UNCHANGED <<shared, event, alive, remote, fence, armed, bridgeQ, hostQ, tex, screen>> /\ SameCounters
  BY DEF PollCurrent, PollOutput, SameCounters, ipcVars
<1>2. BridgeBounded'
  <2>1. bridge' = Goto("finish") \/ bridge' = Goto("outputSleep") \/ bridge' = LeftPending(bridge)
    BY DEF PollCurrent, PollOutput
  <2> HIDE DEF Goto
  <2> QED
    BY <1>1, <2>1, NoStage, GoesTo, LeavesPending DEF BridgePcs
<1> QED
  BY <1>1, <1>2, Rest DEF Bounded, TypeOK

\* Step SleepCurrent, sleeping on the output, keeps the bounds.
LEMMA SleepCurrentBounded == ASSUME Bounded, SleepCurrent, UNCHANGED host PROVE Bounded'
<1>1. UNCHANGED <<shared, alive, remote, fence, armed, bridgeQ, hostQ, tex, screen>> /\ SameCounters
  BY DEF SleepCurrent, SleepOutput, SameCounters, gpuVars
<1>2. event' \in EventType
  BY DEF SleepCurrent, SleepOutput, Bounded, TypeOK, EventType
<1>3. BridgeBounded'
  <2>1. bridge' = Goto("output") \/ bridge' = LeftPending(bridge)
    BY DEF SleepCurrent, SleepOutput
  <2> HIDE DEF Goto
  <2> QED
    BY <1>1, <2>1, NoStage, GoesTo, LeavesPending DEF BridgePcs
<1> QED
  BY <1>1, <1>2, <1>3, Rest DEF Bounded, TypeOK

\* Step Finish, compositing, keeps the bounds.
LEMMA FinishBounded == ASSUME Bounded, Finish, UNCHANGED host PROVE Bounded'
<1>1. UNCHANGED <<shared, event, alive, remote, fence, armed, hostQ, tex, screen>> /\ SameCounters
  BY DEF Finish, SameCounters
<1>2. bridgeQ' \in Seq(Ops)
  <2>1. Op("copyOut", bridge.present, bridge.generation) \in Ops
    BY DEF Op, Ops, Bounded, TypeOK, BridgeType
  <2> HIDE DEF Op
  <2> QED
    BY <2>1 DEF Finish, Bounded, TypeOK
<1>3. BridgeBounded'
  <2>1. CASE bridge' = Evaluated(bridge)
    <3>1. /\ bridge' \in BridgeType /\ bridge'.pc = "idle"
          /\ bridge'.present = bridge.present
          /\ bridge'.generation = bridge.generation
          /\ bridge'.fenceValue <= 2 * bridge.present
      <4>1. "idle" \in BridgePcs /\ NoCall \in Calls
        BY DEF BridgePcs, NoCall, Calls
      <4>2. bridge.fenceValue <= 2 * bridge.present
        BY DEF Bounded, CountersBounded
      <4> QED
        BY <2>1, <4>1, <4>2 DEF Evaluated, Bounded, TypeOK, BridgeType
    <3> QED
      BY <1>1, <3>1, Leaves
  <2>2. CASE bridge' = PassedThrough(bridge)
    BY <1>1, <2>2, ReturnsNow
  <2> QED
    BY <2>1, <2>2 DEF Finish
<1> QED
  BY <1>1, <1>2, <1>3 DEF Bounded, TypeOK, BridgeBounded

\* Step Close, the end of shutdown, keeps the bounds.
LEMMA CloseBounded == ASSUME Bounded, Close, UNCHANGED host PROVE Bounded'
<1>1. UNCHANGED <<shared, event, alive, remote, fence, armed, bridgeQ, hostQ, tex, screen>> /\ SameCounters
  BY DEF Close, SameCounters, ipcVars
<1>2. BridgeBounded'
  BY <1>1, NoStage, GoesTo DEF Close, BridgePcs
<1> QED
  BY <1>1, <1>2, Rest DEF Bounded, TypeOK

\* Step TimeOut, an expired deadline, keeps the bounds.
LEMMA TimeOutBounded == ASSUME Bounded, TimeOut, UNCHANGED host PROVE Bounded'
<1>1. UNCHANGED <<alive, remote, fence, armed, bridgeQ, hostQ, tex, screen>>
  BY DEF TimeOut, gpuVars
<1>2. shared' \in SharedType /\ SameCounters
  <2>1. CASE UNCHANGED shared
    BY <2>1, SameCountersIfUnchanged DEF Bounded, TypeOK
  <2>2. CASE shared' = [shared EXCEPT !.stopRequested = TRUE]
    BY <2>2, AsksToStop
  <2> QED
    BY <2>1, <2>2 DEF TimeOut
<1>3. event' \in EventType
  BY DEF TimeOut, Bounded, TypeOK, EventType
<1>4. BridgeBounded'
  <2>1. CASE bridge' = PassedThrough(bridge)
    BY <1>2, <2>1, ReturnsNow
  <2>2. CASE bridge' = LeftPending(bridge)
    BY <1>2, <2>2, LeavesPending
  <2>3. CASE bridge.pc = "drainSleep" /\ bridge' = Goto("drain")
    <3>1. \A stage \in Stages : bridge.pc \in stage
      BY <2>3 DEF Stages, BeforeTransfer, BeforeBump, BeforeSubmit, BeforeNumber
    <3> HIDE DEF Goto
    <3> QED
      BY <1>2, <2>3, <3>1, GoesTo DEF BridgePcs
  <2>4. CASE bridge' = Goto("output") \/ bridge' = Goto("closing")
    <3> HIDE DEF Goto
    <3> QED
      BY <1>2, <2>4, NoStage, GoesTo DEF BridgePcs
  <2> QED
    BY <2>1, <2>2, <2>3, <2>4 DEF TimeOut
<1> QED
  BY <1>1, <1>2, <1>3, <1>4, Rest DEF Bounded, TypeOK

\* Step Shutdown, requesting the stop, keeps the bounds.
LEMMA ShutdownBounded == ASSUME Bounded, Shutdown, UNCHANGED host PROVE Bounded'
<1>1. UNCHANGED <<alive, remote, fence, armed, bridgeQ, hostQ, tex, screen>>
  BY DEF Shutdown, gpuVars
<1>2. shared' \in SharedType /\ SameCounters
  BY AsksToStop DEF Shutdown
<1>3. event' \in EventType
  BY DEF Shutdown, Bounded, TypeOK, EventType
<1>4. BridgeBounded'
  BY <1>2, NoStage, GoesTo DEF Shutdown, BridgePcs
<1> QED
  BY <1>1, <1>2, <1>3, <1>4, Rest DEF Bounded, TypeOK

\* Step BridgeCrash, the death of the game process, keeps the bounds.
LEMMA BridgeCrashBounded == ASSUME Bounded, BridgeCrash, UNCHANGED host PROVE Bounded'
<1>1. UNCHANGED <<shared, event, remote, fence, armed, hostQ, tex, screen>> /\ SameCounters
  BY DEF BridgeCrash, SameCounters
<1>2. alive' \in [bridge : BOOLEAN, host : BOOLEAN]
  BY DEF BridgeCrash, Bounded, TypeOK
<1>4. bridgeQ' \in Seq(Ops)
  BY DEF BridgeCrash
<1>3. BridgeBounded'
  BY <1>1, NoStage, GoesTo DEF BridgeCrash, BridgePcs
<1> QED
  BY <1>1, <1>2, <1>3, <1>4 DEF Bounded, TypeOK, BridgeBounded

\* Every step of the bridge process keeps the bounds.
LEMMA BridgeKeepsBounded == Bounded /\ BridgeNext => Bounded'
BY PresentBounded, ConnectBounded, CheckPendingBounded, PollDrainBounded,
   SleepDrainBounded, FillBounded, EnsureBounded, TransferBounded,
   TransferFailsBounded, PublishConfiguringBounded, BumpGenerationsBounded,
   WakeHostBounded, AwaitReadyBounded, SubmitInputsBounded, StampFencesBounded,
   PublishFrameBounded, KickHostBounded, PollEnqueuedBounded,
   SleepEnqueuedBounded, PollCurrentBounded, SleepCurrentBounded,
   FinishBounded, CloseBounded, TimeOutBounded, ShutdownBounded,
   BridgeCrashBounded
   DEF BridgeNext, BridgeSteps, Presents

\* A host step that steps no counter of the block keeps the bounds when
\* what it writes is well typed.
LEMMA HostRest ==
  ASSUME Bounded, SameCounters, UNCHANGED <<bridge, fence, armed, bridgeQ, tex, screen>>,
         shared' \in SharedType, event' \in EventType,
         alive' \in [bridge : BOOLEAN, host : BOOLEAN],
         remote' \subseteq Fields \X Ordinals,
         hostQ' \in Seq(Ops), host' \in HostType
  PROVE  Bounded'
BY DEF Bounded, TypeOK, CountersBounded, SameCounters

\* Moving the host to another point of its loop keeps it well typed.
LEMMA HostGoes ==
  ASSUME Bounded, NEW pc \in HostPcs, host' = HostGoto(pc)
  PROVE  host' \in HostType
BY DEF Bounded, TypeOK, HostType

\* Step OpenMapping, the mapping and its events, keeps the bounds.
LEMMA OpenMappingBounded ==
  ASSUME Bounded, OpenMapping, UNCHANGED bridge PROVE Bounded'
<1>1. UNCHANGED <<shared, event, alive, remote, hostQ, fence, armed, bridgeQ, tex, screen>>
  BY DEF OpenMapping, ipcVars
<1>2. host' \in HostType
  BY HostGoes DEF OpenMapping, HostPcs
<1> QED
  BY <1>1, <1>2, HostRest, SameCountersIfUnchanged DEF Bounded, TypeOK

\* Step OpenBridge, the end of openSession, keeps the bounds.
LEMMA OpenBridgeBounded ==
  ASSUME Bounded, OpenBridge, UNCHANGED bridge PROVE Bounded'
<1>1. UNCHANGED <<event, alive, remote, hostQ, fence, armed, bridgeQ, tex, screen>>
  BY DEF OpenBridge, ipcVars, gpuVars
<1>2. shared' \in SharedType /\ SameCounters
  BY DEF OpenBridge, Bounded, TypeOK, SharedType, HostStates, SameCounters
<1>3. host' \in HostType
  <2>1. host \in HostType /\ "wait" \in HostPcs
    BY DEF Bounded, TypeOK, HostPcs
  <2> QED
    BY <2>1 DEF OpenBridge, HostType
<1> QED
  BY <1>1, <1>2, <1>3, HostRest DEF Bounded, TypeOK

\* Step Wait, the wait loop of wWinMain, keeps the bounds.
LEMMA WaitBounded ==
  ASSUME Bounded, Wait, UNCHANGED bridge PROVE Bounded'
<1>1. UNCHANGED <<shared, alive, remote, hostQ, fence, armed, bridgeQ, tex, screen>>
  BY DEF Wait, ipcVars, gpuVars
<1>2. event' \in EventType
  BY DEF Wait, Bounded, TypeOK, EventType
<1>3. host' \in HostType
  <2>1. host' = HostGoto("shutdown") \/ host' = HostGoto("check")
    BY DEF Wait
  <2> HIDE DEF HostGoto
  <2> QED
    BY <2>1, HostGoes DEF HostPcs
<1> QED
  BY <1>1, <1>2, <1>3, HostRest, SameCountersIfUnchanged DEF Bounded, TypeOK

\* Step CheckGeneration, the generation check, keeps the bounds.
LEMMA CheckGenerationBounded ==
  ASSUME Bounded, CheckGeneration, UNCHANGED bridge PROVE Bounded'
<1>1. UNCHANGED <<shared, event, alive, remote, hostQ, fence, armed, bridgeQ, tex, screen>>
  BY DEF CheckGeneration, ipcVars, gpuVars
<1>2. host' \in HostType
  <2>1. CASE host' = HostGoto("frame")
    BY <2>1, HostGoes DEF HostPcs
  <2>2. CASE host' = [host EXCEPT !.pc = "configure",
                                  !.configSeen = shared.configGeneration]
    <3>1. shared.configGeneration \in Ordinals
      BY DEF Bounded, TypeOK, SharedType
    <3> QED
      BY <2>2, <3>1 DEF Bounded, TypeOK, HostType, HostPcs
  <2> QED
    BY <2>1, <2>2 DEF CheckGeneration
<1> QED
  BY <1>1, <1>2, HostRest, SameCountersIfUnchanged DEF Bounded, TypeOK

\* Step BeginConfigure, the start of configure, keeps the bounds.
LEMMA BeginConfigureBounded ==
  ASSUME Bounded, BeginConfigure, UNCHANGED bridge PROVE Bounded'
<1>1. UNCHANGED <<event, alive, remote, hostQ, fence, armed, bridgeQ, tex, screen>>
  BY DEF BeginConfigure, ipcVars, gpuVars
<1>2. shared' \in SharedType /\ SameCounters
  BY DEF BeginConfigure, Bounded, TypeOK, SharedType, HostStates, SameCounters
<1>3. host' \in HostType
  BY HostGoes DEF BeginConfigure, HostPcs
<1> QED
  BY <1>1, <1>2, <1>3, HostRest, SameCountersIfUnchanged DEF Bounded, TypeOK

\* Step RetireQueue, the drain of configure, keeps the bounds.
LEMMA RetireQueueBounded ==
  ASSUME Bounded, RetireQueue, UNCHANGED bridge PROVE Bounded'
<1>1. UNCHANGED <<shared, event, alive, remote, hostQ, fence, armed, bridgeQ, tex, screen>>
  BY DEF RetireQueue, ipcVars, gpuVars
<1>2. host' \in HostType
  <2> DEFINE feature == IF host.feature = RequestedKey THEN host.feature ELSE NoFeature
             unopened == {f \in Fields :
                            IF f = "fence" THEN ~host.sharedFence
                            ELSE host.imported # shared.resourceGeneration}
  <2>1. feature \in (Sizes \cup {0}) \X (Presets \cup {0})
    BY DEF Bounded, TypeOK, HostType, NoFeature
  <2>2. unopened \in SUBSET Fields
    OBVIOUS
  <2>3. host' = [host EXCEPT !.pc = "import", !.feature = feature, !.unopened = unopened]
    BY DEF RetireQueue
  <2> HIDE DEF feature, unopened
  <2> QED
    BY <2>1, <2>2, <2>3 DEF Bounded, TypeOK, HostType, HostPcs
<1> QED
  BY <1>1, <1>2, HostRest, SameCountersIfUnchanged DEF Bounded, TypeOK

\* Step RetireFails, a failed drain, keeps the bounds.
LEMMA RetireFailsBounded ==
  ASSUME Bounded, RetireFails, UNCHANGED bridge PROVE Bounded'
<1>1. UNCHANGED <<event, alive, hostQ, fence, armed, bridgeQ, tex, screen>>
  BY DEF RetireFails, ipcVars, gpuVars
<1>2. shared' \in SharedType /\ SameCounters /\ remote' \subseteq Fields \X Ordinals
  BY CloseFieldsType DEF RetireFails
<1>3. host' \in HostType
  BY HostGoes DEF RetireFails, HostPcs
<1> QED
  BY <1>1, <1>2, <1>3, HostRest, SameCountersIfUnchanged DEF Bounded, TypeOK

\* Step Import, importing one handle, keeps the bounds.
LEMMA ImportBounded ==
  ASSUME Bounded, NEW f \in Fields, Import(f), UNCHANGED bridge PROVE Bounded'
<1>1. UNCHANGED <<event, alive, hostQ, fence, armed, bridgeQ, tex, screen>>
  BY DEF Import, ipcVars, gpuVars
<1>2. shared' \in SharedType /\ SameCounters /\ remote' \subseteq Fields \X Ordinals
  BY CloseFieldsType DEF Import
<1>3. host' \in HostType
  <2>1. shared.handle[f] \in Ordinals
    BY DEF Bounded, TypeOK, SharedType
  <2> QED
    BY <2>1 DEF Import, Bounded, TypeOK, HostType
<1> QED
  BY <1>1, <1>2, <1>3, HostRest, SameCountersIfUnchanged DEF Bounded, TypeOK

\* Step ImportFails, a failed import, keeps the bounds.
LEMMA ImportFailsBounded ==
  ASSUME Bounded, ImportFails, UNCHANGED bridge PROVE Bounded'
<1>1. UNCHANGED <<event, alive, hostQ, fence, armed, bridgeQ, tex, screen>>
  BY DEF ImportFails, ipcVars, gpuVars
<1>2. shared' \in SharedType /\ SameCounters /\ remote' \subseteq Fields \X Ordinals
  BY CloseFieldsType DEF ImportFails
<1>3. host' \in HostType
  BY DEF ImportFails, Bounded, TypeOK, HostType, HostPcs
<1> QED
  BY <1>1, <1>2, <1>3, HostRest, SameCountersIfUnchanged DEF Bounded, TypeOK

\* Step Imported, completing the import, keeps the bounds.
LEMMA ImportedBounded ==
  ASSUME Bounded, Imported, UNCHANGED bridge PROVE Bounded'
<1>1. UNCHANGED <<shared, event, alive, remote, hostQ, fence, armed, bridgeQ, tex, screen>>
  BY DEF Imported, ipcVars, gpuVars
<1>2. host' \in HostType
  BY DEF Imported, Bounded, TypeOK, HostType, HostPcs, SharedType
<1> QED
  BY <1>1, <1>2, HostRest, SameCountersIfUnchanged DEF Bounded, TypeOK

\* Step FeatureReady, announcing Ready, keeps the bounds.
LEMMA FeatureReadyBounded ==
  ASSUME Bounded, FeatureReady, UNCHANGED bridge PROVE Bounded'
<1>1. UNCHANGED <<event, alive, remote, hostQ, fence, armed, bridgeQ, tex, screen>>
  BY DEF FeatureReady, ipcVars, gpuVars
<1>2. shared' \in SharedType /\ SameCounters
  BY DEF FeatureReady, Bounded, TypeOK, SharedType, HostStates, SameCounters
<1>3. host' \in HostType
  <2> DEFINE lastFrame == IF host.feature = RequestedKey THEN host.lastFrame ELSE 0
  <2>1. RequestedKey \in (Sizes \cup {0}) \X (Presets \cup {0})
    BY DEF Bounded, TypeOK, SharedType, RequestedKey
  <2>2. lastFrame \in Ordinals
    BY ZeroType DEF Bounded, TypeOK, HostType
  <2>3. host' = [host EXCEPT !.pc = "frame", !.feature = RequestedKey,
                   !.lastFrame = lastFrame, !.reset = TRUE]
    BY DEF FeatureReady
  <2> HIDE DEF lastFrame
  <2> QED
    BY <2>1, <2>2, <2>3 DEF Bounded, TypeOK, HostType, HostPcs
<1> QED
  BY <1>1, <1>2, <1>3, HostRest, SameCountersIfUnchanged DEF Bounded, TypeOK

\* Step FeatureFails, a failed feature creation, keeps the bounds.
LEMMA FeatureFailsBounded ==
  ASSUME Bounded, FeatureFails, UNCHANGED bridge PROVE Bounded'
<1>1. UNCHANGED <<shared, event, alive, remote, hostQ, fence, armed, bridgeQ, tex, screen>>
  BY DEF FeatureFails, ipcVars, gpuVars
<1>2. host' \in HostType
  BY HostGoes DEF FeatureFails, HostPcs
<1> QED
  BY <1>1, <1>2, HostRest, SameCountersIfUnchanged DEF Bounded, TypeOK

\* Step ConfigureFailed, publishing Error, keeps the bounds.
LEMMA ConfigureFailedBounded ==
  ASSUME Bounded, ConfigureFailed, UNCHANGED bridge PROVE Bounded'
<1>1. UNCHANGED <<event, alive, remote, hostQ, fence, armed, bridgeQ, tex, screen>>
  BY DEF ConfigureFailed, ipcVars, gpuVars
<1>2. shared' \in SharedType /\ SameCounters
  BY DEF ConfigureFailed, Bounded, TypeOK, SharedType, HostStates, SameCounters
<1>3. host' \in HostType
  BY HostGoes DEF ConfigureFailed, HostPcs
<1> QED
  BY <1>1, <1>2, <1>3, HostRest, SameCountersIfUnchanged DEF Bounded, TypeOK

\* Step BeginFrame, the start of processFrame, keeps the bounds.
LEMMA BeginFrameBounded ==
  ASSUME Bounded, BeginFrame, UNCHANGED bridge PROVE Bounded'
<1>1. UNCHANGED <<shared, event, alive, remote, fence, armed, bridgeQ, tex, screen>>
  BY DEF BeginFrame, ipcVars, gpuVars
<1>2. host' \in HostType
  <2>1. shared.frameSeq \in Ordinals /\ shared.outputFence \in FenceValues
    BY DEF Bounded, TypeOK, SharedType
  <2>2. CASE host' = HostGoto("wait")
    BY <2>2, HostGoes DEF HostPcs
  <2>3. CASE host' = [host EXCEPT !.pc = "record", !.frameSeen = shared.frameSeq,
                       !.seq = shared.frameSeq, !.output = shared.outputFence]
    BY <2>1, <2>3 DEF Bounded, TypeOK, HostType, HostPcs
  <2> QED
    BY <2>2, <2>3 DEF BeginFrame
<1>3. hostQ' \in Seq(Ops)
  <2>1. Op("wait", shared.inputFence, host.textures) \in Ops
    BY DEF Op, Ops, Bounded, TypeOK, SharedType, HostType
  <2> HIDE DEF Op
  <2>2. hostQ' \in {hostQ, Append(hostQ, Op("wait", shared.inputFence, host.textures))}
    BY DEF BeginFrame
  <2>3. hostQ \in Seq(Ops)
    BY DEF Bounded, TypeOK
  <2> HIDE DEF Op
  <2>4. Append(hostQ, Op("wait", shared.inputFence, host.textures)) \in Seq(Ops)
    BY <2>1, <2>3
  <2> QED
    BY <2>2, <2>3, <2>4
<1> QED
  BY <1>1, <1>2, <1>3, HostRest, SameCountersIfUnchanged DEF Bounded, TypeOK

\* The work and the signal that processFrame submits are GPU operations.
LEMMA SubmitType ==
  ASSUME Bounded, NEW outcome \in Outcomes, NEW signalled \in BOOLEAN,
         Submit(outcome, signalled)
  PROVE  hostQ' \in Seq(Ops)
<1> DEFINE work == Op(IF outcome = "ok" THEN "evaluate" ELSE "fallback",
                      shared.present, host.textures)
           signal == Op("signal", host.output, host.textures)
<1>1. work \in Ops /\ signal \in Ops
  BY DEF Op, Ops, Bounded, TypeOK, SharedType, HostType
<1>2. hostQ' = hostQ \o IF signalled THEN <<work, signal>> ELSE <<work>>
  BY DEF Submit
<1> HIDE DEF work, signal
<1> QED
  BY <1>1, <1>2 DEF Bounded, TypeOK

\* Step Record, recording and submitting the frame, keeps the bounds.
LEMMA RecordBounded ==
  ASSUME Bounded, NEW outcome \in Outcomes, Record(outcome), UNCHANGED bridge PROVE Bounded'
<1>1. UNCHANGED <<shared, event, alive, remote, fence, armed, bridgeQ, tex, screen>>
  BY DEF Record, ipcVars, gpuVars
<1>2. hostQ' \in Seq(Ops)
  BY SubmitType DEF Record
<1>3. host' \in HostType
  <2> DEFINE success == outcome = "ok"
             ok == outcome # "evaluate"
             reset == host.reset /\ outcome = "evaluate"
             lastFrame == IF outcome = "evaluate" THEN host.lastFrame ELSE shared.present
  <2>1. success \in BOOLEAN /\ ok \in BOOLEAN /\ reset \in BOOLEAN
    OBVIOUS
  <2>2. lastFrame \in Ordinals
    BY DEF Bounded, TypeOK, SharedType, HostType
  <2>3. host' = [host EXCEPT !.pc = "enqueued", !.success = success, !.ok = ok,
                   !.reset = reset, !.lastFrame = lastFrame]
    BY DEF Record
  <2> HIDE DEF success, ok, reset, lastFrame
  <2> QED
    BY <2>1, <2>2, <2>3 DEF Bounded, TypeOK, HostType, HostPcs
<1> QED
  BY <1>1, <1>2, <1>3, HostRest, SameCountersIfUnchanged DEF Bounded, TypeOK

\* Step SignalFails, a refused output signal, keeps the bounds.
LEMMA SignalFailsBounded ==
  ASSUME Bounded, NEW outcome \in Outcomes, SignalFails(outcome), UNCHANGED bridge PROVE Bounded'
<1>1. UNCHANGED <<event, alive, remote, fence, armed, bridgeQ, tex, screen>>
  BY DEF SignalFails, ipcVars, gpuVars
<1>2. hostQ' \in Seq(Ops)
  BY SubmitType DEF SignalFails
<1>3. shared' \in SharedType /\ SameCounters
  BY DEF SignalFails, Bounded, TypeOK, SharedType, HostStates, SameCounters
<1>4. host' \in HostType
  <2> DEFINE reset == host.reset /\ outcome = "evaluate"
             lastFrame == IF outcome = "evaluate" THEN host.lastFrame ELSE shared.present
  <2>1. reset \in BOOLEAN
    OBVIOUS
  <2>2. lastFrame \in Ordinals
    BY DEF Bounded, TypeOK, SharedType, HostType
  <2>3. host' = [host EXCEPT !.pc = "complete", !.reset = reset, !.lastFrame = lastFrame]
    BY DEF SignalFails
  <2> HIDE DEF reset, lastFrame
  <2> QED
    BY <2>1, <2>2, <2>3 DEF Bounded, TypeOK, HostType, HostPcs
<1> QED
  BY <1>1, <1>2, <1>3, <1>4, HostRest, SameCountersIfUnchanged DEF Bounded, TypeOK

\* Step PublishEnqueued, publishing enqueuedSeq, keeps the bounds.
LEMMA PublishEnqueuedBounded ==
  ASSUME Bounded, PublishEnqueued, UNCHANGED bridge PROVE Bounded'
<1>1. UNCHANGED <<event, alive, remote, hostQ, fence, armed, bridgeQ, tex, screen>>
  BY DEF PublishEnqueued, ipcVars, gpuVars
<1>2. shared' \in SharedType /\ SameCounters
  BY DEF PublishEnqueued, Bounded, TypeOK, SharedType, HostStates, SameCounters, HostType
<1>3. host' \in HostType
  BY HostGoes DEF PublishEnqueued, HostPcs
<1> QED
  BY <1>1, <1>2, <1>3, HostRest, SameCountersIfUnchanged DEF Bounded, TypeOK

\* Step AnnounceEnqueued, the done event of the enqueue, keeps the bounds.
LEMMA AnnounceEnqueuedBounded ==
  ASSUME Bounded, AnnounceEnqueued, UNCHANGED bridge PROVE Bounded'
<1>1. UNCHANGED <<shared, alive, remote, hostQ, fence, armed, bridgeQ, tex, screen>>
  BY DEF AnnounceEnqueued, SetDone, gpuVars
<1>2. event' \in EventType
  BY DEF AnnounceEnqueued, SetDone, Bounded, TypeOK, EventType
<1>3. host' \in HostType
  BY HostGoes DEF AnnounceEnqueued, HostPcs, SetDone
<1> QED
  BY <1>1, <1>2, <1>3, HostRest, SameCountersIfUnchanged DEF Bounded, TypeOK

\* Step PublishResult, publishing the result, keeps the bounds.
LEMMA PublishResultBounded ==
  ASSUME Bounded, PublishResult, UNCHANGED bridge PROVE Bounded'
<1>1. UNCHANGED <<event, alive, remote, hostQ, fence, armed, bridgeQ, tex, screen>>
  BY DEF PublishResult, ipcVars, gpuVars
<1>2. shared' \in SharedType /\ SameCounters
  <2> DEFINE state == IF host.success THEN "Active" ELSE "Error"
  <2>1. state \in HostStates /\ host.ok \in BOOLEAN
    BY DEF HostStates, Bounded, TypeOK, HostType
  <2>2. shared' = [shared EXCEPT !.lastOk = host.ok, !.state = state]
    BY DEF PublishResult
  <2> HIDE DEF state
  <2> QED
    BY <2>1, <2>2 DEF Bounded, TypeOK, SharedType, SameCounters
<1>3. host' \in HostType
  BY HostGoes DEF PublishResult, HostPcs
<1> QED
  BY <1>1, <1>2, <1>3, HostRest, SameCountersIfUnchanged DEF Bounded, TypeOK

\* Step PublishCompleted, publishing completedSeq, keeps the bounds.
LEMMA PublishCompletedBounded ==
  ASSUME Bounded, PublishCompleted, UNCHANGED bridge PROVE Bounded'
<1>1. UNCHANGED <<event, alive, remote, hostQ, fence, armed, bridgeQ, tex, screen>>
  BY DEF PublishCompleted, ipcVars, gpuVars
<1>2. shared' \in SharedType /\ SameCounters
  BY DEF PublishCompleted, Bounded, TypeOK, SharedType, HostStates, SameCounters, HostType
<1>3. host' \in HostType
  BY HostGoes DEF PublishCompleted, HostPcs
<1> QED
  BY <1>1, <1>2, <1>3, HostRest, SameCountersIfUnchanged DEF Bounded, TypeOK

\* Step AnnounceCompleted, the done event of the completion, keeps the bounds.
LEMMA AnnounceCompletedBounded ==
  ASSUME Bounded, AnnounceCompleted, UNCHANGED bridge PROVE Bounded'
<1>1. UNCHANGED <<shared, alive, remote, hostQ, fence, armed, bridgeQ, tex, screen>>
  BY DEF AnnounceCompleted, SetDone, gpuVars
<1>2. event' \in EventType
  BY DEF AnnounceCompleted, SetDone, Bounded, TypeOK, EventType
<1>3. host' \in HostType
  BY HostGoes DEF AnnounceCompleted, HostPcs, SetDone
<1> QED
  BY <1>1, <1>2, <1>3, HostRest, SameCountersIfUnchanged DEF Bounded, TypeOK

\* Step StopHost, the host shutdown, keeps the bounds.
LEMMA StopHostBounded ==
  ASSUME Bounded, StopHost, UNCHANGED bridge PROVE Bounded'
<1>1. UNCHANGED <<event, alive, hostQ, fence, armed, bridgeQ, tex, screen>>
  BY DEF StopHost, ipcVars, gpuVars
<1>2. shared' \in SharedType /\ SameCounters
  BY ZeroType DEF StopHost, Bounded, TypeOK, SharedType, HostStates, SameCounters
<1>3. remote' \subseteq Fields \X Ordinals
  BY DEF StopHost, Bounded, TypeOK
<1>4. host' \in HostType
  BY HostGoes DEF StopHost, HostPcs
<1> QED
  BY <1>1, <1>2, <1>3, <1>4, HostRest, SameCountersIfUnchanged DEF Bounded, TypeOK

\* The end of the host process, however it ends, keeps the bounds.
LEMMA GoneBounded ==
  ASSUME Bounded, Gone, UNCHANGED bridge PROVE Bounded'
<1>1. UNCHANGED <<shared, event, fence, armed, bridgeQ, tex, screen>>
  BY DEF Gone
<1>2. alive' \in [bridge : BOOLEAN, host : BOOLEAN]
  BY DEF Gone, Bounded, TypeOK
<1>3. remote' = {} /\ hostQ' \in Seq(Ops)
  BY DEF Gone
<1>4. host' \in HostType
  BY HostGoes DEF Gone, HostPcs
<1> QED
  BY <1>1, <1>2, <1>3, <1>4, HostRest, SameCountersIfUnchanged DEF Bounded, TypeOK

\* Every step of the host process keeps the bounds.
LEMMA HostKeepsBounded == Bounded /\ HostNext => Bounded'
BY OpenMappingBounded, OpenBridgeBounded, WaitBounded, CheckGenerationBounded, BeginConfigureBounded,
   RetireQueueBounded, RetireFailsBounded, ImportBounded, ImportFailsBounded,
   ImportedBounded, FeatureReadyBounded, FeatureFailsBounded,
   ConfigureFailedBounded, BeginFrameBounded, RecordBounded, SignalFailsBounded,
   PublishEnqueuedBounded, AnnounceEnqueuedBounded, PublishResultBounded,
   PublishCompletedBounded, AnnounceCompletedBounded, StopHostBounded, GoneBounded
   DEF HostNext, HostSteps, OpenFails, Exit, HostCrash

\* A GPU signal keeps the fence, its registrations and the events well typed.
LEMMA SignalFenceType ==
  ASSUME Bounded, NEW value \in FenceValues, SignalFence(value)
  PROVE  fence' \in FenceValues /\ armed' \subseteq FenceValues /\ event' \in EventType
<1>1. (event.fence \/ armed' # armed) \in BOOLEAN
  OBVIOUS
<1>2. event' \in EventType
  BY <1>1 DEF SignalFence, Bounded, TypeOK, EventType
<1> QED
  BY <1>2 DEF SignalFence, Bounded, TypeOK

\* The rest of the state follows for a step of a GPU queue.
LEMMA GpuRest ==
  ASSUME Bounded, UNCHANGED <<shared, alive, remote, bridge, host>>,
         event' \in EventType, fence' \in FenceValues,
         armed' \subseteq FenceValues, bridgeQ' \in Seq(Ops), hostQ' \in Seq(Ops),
         tex' \in [Ordinals -> [input : Ordinals, output : Images]],
         screen' \in [frame : Ordinals, image : Images]
  PROVE  Bounded'
BY DEF Bounded, TypeOK, CountersBounded

\* The operation a queue executes next is a GPU operation, and so is the rest.
LEMMA HeadType ==
  ASSUME NEW queue \in Seq(Ops), Runnable(queue)
  PROVE  /\ Head(queue) \in Ops /\ Tail(queue) \in Seq(Ops)
         /\ Head(queue).gen \in Ordinals
         /\ Head(queue).kind = "signal" => Head(queue).n \in FenceValues
         /\ Head(queue).kind \in {"copyIn", "copyOut", "evaluate", "fallback"}
              => Head(queue).n \in Ordinals
<1>1. Head(queue) \in Ops /\ Tail(queue) \in Seq(Ops)
  BY DEF Runnable
<1> QED
  BY <1>1 DEF Ops

\* An operation of the bridge GPU queue keeps the bounds.
LEMMA BridgeGpuBounded ==
  ASSUME Bounded, BridgeGpu, UNCHANGED <<bridge, host>> PROVE Bounded'
<1> DEFINE op == Head(bridgeQ)
<1>1. /\ UNCHANGED <<shared, alive, remote, hostQ>>
      /\ bridgeQ' = Tail(bridgeQ) /\ Runnable(bridgeQ)
  BY DEF BridgeGpu
<1>2. /\ bridgeQ' \in Seq(Ops) /\ op.gen \in Ordinals
      /\ op.kind = "signal" => op.n \in FenceValues
      /\ op.kind \in {"copyIn", "copyOut"} => op.n \in Ordinals
  BY <1>1, HeadType DEF Bounded, TypeOK
<1> HIDE DEF op
<1>3. CASE /\ op.kind = "copyIn"
           /\ tex' = [tex EXCEPT ![op.gen].input = op.n]
           /\ UNCHANGED <<event, fence, armed, screen>>
  <2>1. tex' \in [Ordinals -> [input : Ordinals, output : Images]]
    BY <1>2, <1>3 DEF Bounded, TypeOK
  <2> QED
    BY <1>1, <1>2, <1>3, <2>1, GpuRest DEF Bounded, TypeOK
<1>4. CASE /\ op.kind = "copyOut"
           /\ screen' = [frame |-> op.n, image |-> tex[op.gen].output]
           /\ UNCHANGED <<event, fence, armed, tex>>
  <2>1. screen' \in [frame : Ordinals, image : Images]
    BY <1>2, <1>4 DEF Bounded, TypeOK
  <2> QED
    BY <1>1, <1>2, <1>4, <2>1, GpuRest DEF Bounded, TypeOK
<1>5. CASE /\ op.kind = "signal"
           /\ SignalFence(op.n)
           /\ UNCHANGED <<tex, screen>>
  BY <1>1, <1>2, <1>5, SignalFenceType, GpuRest DEF Bounded, TypeOK
<1> QED
  BY <1>3, <1>4, <1>5 DEF BridgeGpu, op

\* An operation of the host GPU queue keeps the bounds.
LEMMA HostGpuBounded ==
  ASSUME Bounded, HostGpu, UNCHANGED <<bridge, host>> PROVE Bounded'
<1> DEFINE op == Head(hostQ)
<1>1. /\ UNCHANGED <<shared, alive, remote, bridgeQ, screen>>
      /\ hostQ' = Tail(hostQ) /\ Runnable(hostQ)
  BY DEF HostGpu
<1>2. /\ hostQ' \in Seq(Ops) /\ op.gen \in Ordinals
      /\ op.kind = "signal" => op.n \in FenceValues
  BY <1>1, HeadType DEF Bounded, TypeOK
<1>3. CASE op.kind = "wait" /\ UNCHANGED <<event, fence, armed, tex>>
  BY <1>1, <1>2, <1>3, GpuRest DEF Bounded, TypeOK
<1>4. CASE /\ op.kind \in {"evaluate", "fallback"}
           /\ tex' = [tex EXCEPT ![op.gen].output =
                       [frame |-> tex[op.gen].input, neural |-> op.kind = "evaluate"]]
           /\ UNCHANGED <<event, fence, armed>>
  <2>1. (op.kind = "evaluate") \in BOOLEAN
    OBVIOUS
  <2>2. [frame |-> tex[op.gen].input, neural |-> op.kind = "evaluate"] \in Images
    BY <1>2, <2>1 DEF Images, Bounded, TypeOK
  <2>3. tex' \in [Ordinals -> [input : Ordinals, output : Images]]
    BY <1>2, <1>4, <2>2 DEF Bounded, TypeOK
  <2> QED
    BY <1>1, <1>2, <1>4, <2>3, GpuRest DEF Bounded, TypeOK
<1>5. CASE /\ op.kind = "signal" /\ SignalFence(op.n) /\ UNCHANGED tex
  BY <1>1, <1>2, <1>5, SignalFenceType, GpuRest DEF Bounded, TypeOK
<1> QED
  BY <1>3, <1>4, <1>5 DEF HostGpu

\* The bounds are inductive: every step of the session keeps them.
LEMMA NextBounded == Bounded /\ [Next]_vars => Bounded'
<1>1. Bounded /\ UNCHANGED vars => Bounded'
  BY DEF vars, ipcVars, Bounded, TypeOK, CountersBounded
<1> QED
  BY <1>1, BridgeKeepsBounded, HostKeepsBounded, BridgeGpuBounded, HostGpuBounded
     DEF Next, GpuNext, Ended

\* The session is well typed: in every reachable state of a session of any size
\* the shared block, the events, the GPU queues and both processes are within
\* their types, and no counter exceeds what the presents account for.
THEOREM TypeCorrect == Spec => []TypeOK
<1>1. Bounded => TypeOK
  BY DEF Bounded
<1> QED
  BY <1>1, InitBounded, NextBounded, PTL DEF Spec

---------------------------------------------------------------------------
(* What holds of every frame.                                              *)

-----------------------------------------------------------------------------
\* The presenting thread is through with the session, or gone with its process.
Quitting == bridge.pc \in {"closing", "closed", "dead"}

\* The points of a call between the frame parameters and the hand-over.
Preparing == {"ensure", "transfer", "publish", "bump", "wake", "await", "state",
              "stamp", "number"}

\* A configuration the host has not finished, or not even noticed.
ConfigPcs == {"configure", "retire", "import", "feature", "configFailed"}
Unnoticed == host.configSeen # shared.configGeneration
ConfigDue == host.pc \in ConfigPcs \/ Unnoticed

\* A frame the host has not noticed; one it has, and has not completed.
Unseen == host.frameSeen # shared.frameSeq
WorkPcs == {"record", "enqueued", "enqueuedEvent", "result"}
Working == host.pc \in WorkPcs \/ host.pc = "complete"

\* A frame whose output signal is still to come, and one whose inputs are there.
Ahead == Unseen \/ host.pc = "record" \/ hostQ # <<>>
Begun == \/ hostQ # <<>> /\ hostQ[1].kind # "wait"
         \/ hostQ = <<>> /\ host.pc = "record"

Work == {"evaluate", "fallback"}
NoWork == \A i \in 1..Len(hostQ) : hostQ[i].kind \notin Work
NoSignal == \A i \in 1..Len(hostQ) : hostQ[i].kind # "signal"

\* The host has nothing of any frame; the host has failed a frame for good.
Settled == ~Unseen /\ ~Working /\ hostQ = <<>>
Lost == HostFailed /\ ~Unseen /\ host.pc \notin WorkPcs /\ NoSignal

-----------------------------------------------------------------------------
\* Who is there, and that nobody stops the host before the bridge quits.
Life ==
  /\ alive.host <=> host.pc # "exited"
  /\ alive.bridge <=> bridge.pc # "dead"
  /\ ~alive.host => hostQ = <<>>
  /\ ~alive.bridge => bridgeQ = <<>>
  /\ ~Quitting => /\ ~event.stop /\ ~shared.stopRequested
                  /\ host.pc \notin {"shutdown", "stopping"}
                  /\ shared.state # "Stopping"
  /\ host.pc \in {"start", "open"} =>
       /\ shared.state = "Booting"
       /\ Quitting \/ bridge.pc = "connect"

\* The bridge's queue: at most one copy to the screen, in front, of the output
\* that is there; signals ahead of the fence, counting up to the reserved value.
BridgeOp(i) ==
  /\ bridgeQ[i].kind \in {"signal", "copyIn", "copyOut"}
  /\ bridgeQ[i].kind = "signal" =>
       fence < bridgeQ[i].n /\ bridgeQ[i].n < bridge.fenceValue
  /\ bridgeQ[i].kind = "copyOut" =>
       i = 1 /\ bridgeQ[i].n = tex[bridgeQ[i].gen].output.frame

SignalsInOrder(i, j) ==
  i < j /\ bridgeQ[i].kind = "signal" /\ bridgeQ[j].kind = "signal"
    => bridgeQ[i].n < bridgeQ[j].n

BridgeQueue ==
  /\ fence <= bridge.fenceValue
  /\ bridge.pc \in {"stamp", "number"} => fence < bridge.fenceValue
  /\ \A i \in 1..Len(bridgeQ) : BridgeOp(i)
  /\ \A i, j \in 1..Len(bridgeQ) : SignalsInOrder(i, j)
  /\ alive.bridge /\ (Outstanding \/ bridge.pc \in {"stamp", "number"})
       => \/ bridgeQ = <<>>
          \/ /\ bridgeQ[Len(bridgeQ)].kind = "signal"
             /\ bridgeQ[Len(bridgeQ)].n = bridge.fenceValue - 1

\* The host's queue: the wait for the inputs, the work, the signal of the output,
\* all of the frame that was published last.
HostQueue ==
  \A i \in 1..Len(hostQ) :
    /\ hostQ[i].kind \in {"wait", "signal"} \cup Work
    /\ hostQ[i].kind = "wait" => i = 1 /\ hostQ[i].n = shared.inputFence
    /\ hostQ[i].kind \in Work =>
         /\ hostQ[i].gen = host.textures
         /\ i = 1 \/ (i = 2 /\ hostQ[1].kind = "wait")
         /\ host.pc # "record"
    /\ hostQ[i].kind = "signal" =>
         i = Len(hostQ) /\ hostQ[i].n = shared.outputFence /\ host.pc # "record"

\* The host is at most one frame behind, and completes what it has begun.
Frames ==
  /\ alive.host => shared.frameSeq \in {host.frameSeen, host.frameSeen + 1}
  /\ Working => ~Unseen /\ host.seq = shared.frameSeq
  /\ host.pc \in WorkPcs => host.output = shared.outputFence
  /\ hostQ # <<>> => ~Unseen
  /\ shared.completedSeq <= shared.frameSeq
  /\ shared.enqueuedSeq <= shared.frameSeq
  /\ alive.host /\ (Unseen \/ Working) => shared.completedSeq < shared.frameSeq
  /\ alive.host /\ (Unseen \/ host.pc \in {"record", "enqueued"})
       => shared.enqueuedSeq < shared.frameSeq
  /\ host.pc \in {"enqueuedEvent", "result"} => shared.enqueuedSeq = shared.frameSeq

\* The fence values of the request that is outstanding are the stamped ones.
Stamps ==
  /\ bridge.pc = "number" \/ Outstanding =>
       /\ shared.inputFence + 1 = shared.outputFence
       /\ shared.outputFence = bridge.fenceValue
  /\ bridge.pending # 0 =>
       /\ bridge.pending = shared.frameSeq
       /\ bridge.pendingOutput = bridge.fenceValue
       /\ Quitting \/ bridge.pc \in {"idle", "pending", "drain", "drainSleep"}
  /\ bridge.pc \in {"drain", "drainSleep"} => bridge.pending # 0
  /\ Outstanding => shared.frameSeq # 0
  /\ shared.outputFence <= bridge.fenceValue

\* Before the output signal the fence is below it; past the wait, at the inputs.
Fences ==
  /\ alive.host /\ Ahead =>
       fence <= shared.inputFence /\ shared.inputFence + 1 = shared.outputFence
  /\ alive.host /\ Begun => fence >= shared.inputFence

\* Frame p is in the inputs of generation g, or will be when value v is signalled.
Delivered(v, g, p) ==
  \/ /\ fence < v /\ bridgeQ # <<>>
     /\ bridgeQ[Len(bridgeQ)].kind = "signal" /\ bridgeQ[Len(bridgeQ)].n = v
     /\ IF Len(bridgeQ) = 1 THEN tex[g].input = p
        ELSE bridgeQ[Len(bridgeQ) - 1] = Op("copyIn", p, g)
  \/ fence = v /\ bridgeQ = <<>> /\ tex[g].input = p

Delivery ==
  /\ alive.host /\ alive.bridge /\ Ahead =>
       Delivered(shared.inputFence, host.textures, shared.present)
  /\ alive.host /\ bridge.pc \in {"stamp", "number"} =>
       Delivered(bridge.fenceValue - 1, bridge.generation, shared.present)

\* What the host has of a frame is of the request the bridge has outstanding.
Ownership ==
  alive.host /\ ~Quitting /\ ~Outstanding =>
    Settled \/ (Lost /\ bridge.pc = "idle")

\* A failed host has either enqueued the frame that is waited for or lost it.
Failure ==
  /\ alive.host /\ bridge.pc \in {"stamp", "number"} => ~HostFailed
  /\ alive.host /\ Requesting /\ HostFailed =>
       shared.enqueuedSeq = shared.frameSeq \/ Lost

\* Work that was executed has produced the frame that is asked for.
Product ==
  /\ alive.host /\ alive.bridge /\ Outstanding /\ ~Unseen /\ host.pc # "record"
       /\ NoWork
       => tex[host.textures].output.frame = shared.present
  /\ alive.bridge /\ Outstanding /\ fence >= bridge.fenceValue
       => tex[bridge.generation].output.frame = shared.present
  /\ Requesting \/ bridge.pc \in Preparing => shared.present = bridge.present
  /\ bridge.pc = "finish" => OutputReady(shared.frameSeq, bridge.fenceValue)

\* A configuration and a frame are never in the host at the same time.
Configuration ==
  /\ alive.host /\ ConfigDue =>
       /\ Settled /\ ~Outstanding
       /\ Quitting \/ /\ bridge.pc \in {"wake", "await", "idle"}
                      /\ shared.state = "Configuring"
  /\ alive.host /\ host.pc \in ConfigPcs => ~Unnoticed
  /\ bridge.pc = "bump" => shared.state = "Configuring"

\* The host's textures are the bridge's once a configuration is through.
Handed(g) ==
  host.imported = shared.resourceGeneration /\ host.textures = g /\ host.next = g

Awaited ==
  IF Unnoticed \/ host.pc \in {"configure", "retire"}
  THEN /\ host.imported # shared.resourceGeneration
       /\ \A t \in Textures : shared.handle[t] = bridge.generation
  ELSE IF host.pc = "import"
  THEN /\ host.imported # shared.resourceGeneration
       /\ \A t \in Textures \cap host.unopened : shared.handle[t] = bridge.generation
       /\ (\E t \in Textures : t \notin host.unopened) => host.next = bridge.generation
  ELSE host.pc = "configFailed" \/ HostFailed \/ Handed(bridge.generation)

TextureSets ==
  /\ alive.host => host.imported <= shared.resourceGeneration
  /\ alive.host /\ bridge.resourcesReady => Handed(bridge.generation)
  /\ alive.host /\ ~bridge.resourcesReady /\ bridge.pc \in {"wake", "await"} => Awaited
  /\ bridge.pc \in {"publish", "state", "stamp", "number"} \/ Outstanding
       => bridge.resourcesReady
  /\ bridge.pc = "transfer" => ~bridge.resourcesReady

\* Whose the handles in the block are.
NoHandles == \A t \in Textures : shared.handle[t] = 0

Handles ==
  /\ alive.host /\ alive.bridge /\ ~ConfigDue /\ bridge.pc \notin {"transfer", "bump"}
       => NoHandles
  /\ bridge.pc = "transfer" \/ (bridge.pc = "bump" /\ ~bridge.resourcesReady)
       => bridge.generation # 0
  /\ alive.host /\ bridge.pc = "transfer" =>
       \A t \in Textures :
         shared.handle[t] = IF t \in bridge.untransferred THEN 0 ELSE bridge.generation
  /\ alive.host /\ bridge.pc = "bump" =>
       IF bridge.resourcesReady THEN NoHandles
       ELSE \A t \in Textures : shared.handle[t] = bridge.generation
  /\ alive.host /\ (Unnoticed \/ host.pc \in {"configure", "retire"})
       /\ host.imported = shared.resourceGeneration
       => NoHandles
  /\ alive.host /\ host.pc = "import" =>
       /\ \A t \in Textures \ host.unopened : shared.handle[t] = 0
       /\ host.imported = shared.resourceGeneration => Textures \cap host.unopened = {}
  /\ alive.host /\ host.pc \in {"feature", "configFailed"} => NoHandles

\* The inductive invariant, for waits that do not fail.
WaitsWork == "wait" \notin Faults

IInv ==
  /\ WaitsWork /\ Bounded
  /\ Life /\ BridgeQueue /\ HostQueue /\ Frames /\ Stamps /\ Fences /\ Delivery
  /\ Ownership /\ Failure /\ Product /\ Configuration /\ TextureSets /\ Handles

\* What a step of the bridge leaves alone when it only goes on.
BridgeData ==
  <<bridge.present, bridge.resourcesReady, bridge.generation,
    bridge.untransferred, bridge.fenceValue, bridge.pending,
    bridge.pendingOutput>>

\* A step that changes the bridge's record and its events only.
SameSession ==
  /\ UNCHANGED <<shared, alive, remote, fence, bridgeQ, hostQ, tex, screen, host>>
  /\ event'.stop = event.stop

Waiting == {"kick", "enqueue", "enqueueSleep", "output", "outputSleep"}
Draining == {"pending", "drain", "drainSleep"}

\* Where a call may go without changing anything the invariant is about.
GoesOn ==
  \/ bridge.pc \in Draining /\ bridge'.pc \in Draining /\ bridge.pending # 0
  \/ bridge.pc = "pending" /\ bridge'.pc = "fill" /\ bridge.pending = 0
  \/ bridge.pc = "ensure" /\ bridge'.pc \in {"publish", "state"} /\ bridge.resourcesReady
  \/ bridge.pc = "wake" /\ bridge'.pc = "await"
  \/ bridge.pc \in Waiting /\ bridge'.pc \in Waiting
  \/ /\ bridge.pc = "output" /\ bridge'.pc = "finish"
     /\ OutputReady(shared.frameSeq, bridge.fenceValue)
  \/ bridge.pc \in Draining \cup {"await", "state"} /\ bridge'.pc = "idle"
  \/ bridge.pc = "connect" /\ bridge'.pc = "idle" /\ shared.state # "Booting"

\* Such a step of the bridge preserves the invariant.
LEMMA GoingOn ==
  ASSUME IInv, Bounded', SameSession, UNCHANGED BridgeData, GoesOn
  PROVE  IInv'
<1> USE DEF SameSession, BridgeData, GoesOn, Waiting, Draining, Quitting, Outstanding, Requesting, HostFailed, Preparing
<1>1. Life'
  BY DEF IInv, Life
<1>2. BridgeQueue'
  BY DEF IInv, BridgeQueue, BridgeOp, SignalsInOrder
<1>3. HostQueue'
  BY DEF IInv, HostQueue
<1>4. Frames'
  BY DEF IInv, Frames, Unseen, Working
<1>5. Stamps'
  BY DEF IInv, Stamps
<1>6. Fences'
  BY DEF IInv, Fences, Ahead, Begun, Unseen
<1>7. Delivery'
  BY DEF IInv, Delivery, Delivered, Ahead, Unseen
<1>8. Ownership'
  BY DEF IInv, Ownership, Settled, Lost, Unseen, Working, NoSignal
<1>9. Failure'
  BY DEF IInv, Failure, Lost, Unseen, NoSignal
<1>10. Product'
  BY DEF IInv, Product, Unseen, NoWork, OutputReady
<1>11. Configuration'
  BY DEF IInv, Configuration, ConfigDue, Unnoticed, Settled, Unseen, Working
<1>12. TextureSets'
  BY DEF IInv, TextureSets, Handed, Awaited, Unnoticed
<1>13. Handles'
  BY DEF IInv, Handles, NoHandles, ConfigDue, Unnoticed
<1> QED
  BY <1>1, <1>2, <1>3, <1>4, <1>5, <1>6, <1>7, <1>8, <1>9, <1>10, <1>11, <1>12, <1>13
     DEF IInv, WaitsWork

\* The counters of a well-typed state are numbers.
SeqNumbers ==
  /\ shared.frameSeq \in Nat /\ shared.enqueuedSeq \in Nat
  /\ shared.completedSeq \in Nat /\ host.frameSeen \in Nat

\* So are the fence values ...
FenceNumbers ==
  /\ shared.inputFence \in Nat /\ shared.outputFence \in Nat
  /\ bridge.fenceValue \in Nat /\ fence \in Nat

\* ... and the generations.
GenNumbers ==
  /\ shared.configGeneration \in Nat /\ shared.resourceGeneration \in Nat
  /\ bridge.generation \in Nat /\ host.imported \in Nat

\* A well-typed state's counters are in these bundles.
LEMMA Numeric == ASSUME Bounded PROVE SeqNumbers /\ FenceNumbers /\ GenNumbers
<1> USE BoundsAssumption DEF Bounded, TypeOK, Ordinals, FenceValues
<1>1. shared \in SharedType /\ bridge \in BridgeType /\ host \in HostType
  OBVIOUS
<1>2. SeqNumbers
  BY <1>1 DEF SharedType, HostType, SeqNumbers
<1>3. FenceNumbers
  BY <1>1 DEF SharedType, BridgeType, FenceNumbers
<1>4. GenNumbers
  BY <1>1 DEF SharedType, BridgeType, HostType, GenNumbers
<1> QED
  BY <1>2, <1>3, <1>4

\* The value of a queued signal is a number.
LEMMA SignalValue ==
  ASSUME NEW queue \in Seq(Ops), NEW i \in 1..Len(queue), queue[i].kind \in {"signal", "wait"}
  PROVE  queue[i].n \in Nat
<1>1. queue[i] \in Ops
  OBVIOUS
<1> QED
  BY <1>1, BoundsAssumption DEF Ops, FenceValues

\* A bridge step that only moves the program counter, or returns at once.
LEMMA Moves ==
  ASSUME Bounded, NEW pc \in BridgePcs, bridge' = Goto(pc)
  PROVE  bridge'.pc = pc /\ UNCHANGED BridgeData
<1>1. bridge \in BridgeType
  BY DEF Bounded, TypeOK
<1> QED
  BY <1>1 DEF BridgeType, BridgeData

\* A call that is given up changes the point of the code and the history flag.
LEMMA PassesThrough ==
  ASSUME Bounded, bridge' = PassedThrough(bridge)
  PROVE  bridge'.pc = "idle" /\ UNCHANGED BridgeData
<1>1. bridge \in BridgeType
  BY DEF Bounded, TypeOK
<1> QED
  BY <1>1 DEF BridgeType, BridgeData, PassedThrough

\* The older request is retired: the host has nothing left of it.
LEMMA RetiresExact ==
  ASSUME IInv, Bounded', SameSession, bridge' = Retired(bridge),
         bridge.pc \in {"pending", "drain"},
         bridge.pending # 0, OutputReady(bridge.pending, bridge.pendingOutput)
  PROVE  IInv'
<1> USE DEF SameSession
<1>1. /\ bridge'.pc = "fill" /\ bridge'.pending = 0 /\ bridge'.pendingOutput = 0
      /\ bridge'.present = bridge.present /\ bridge'.resourcesReady = bridge.resourcesReady
      /\ bridge'.generation = bridge.generation
      /\ bridge'.untransferred = bridge.untransferred
      /\ bridge'.fenceValue = bridge.fenceValue
  BY DEF IInv, Bounded, TypeOK, BridgeType, Retired
<1>2. SeqNumbers /\ FenceNumbers /\ GenNumbers
  BY Numeric DEF IInv
<1>3. shared.completedSeq = shared.frameSeq /\ fence >= shared.outputFence
      /\ shared.inputFence + 1 = shared.outputFence
  BY DEF IInv, Stamps, OutputReady, Outstanding
<1>4. alive.host => ~Unseen /\ ~Working /\ hostQ = <<>>
  BY <1>2, <1>3 DEF IInv, Frames, Fences, Ahead, SeqNumbers, FenceNumbers
<1> USE DEF Unseen, Working
<1>p1. Life'
  BY <1>1, <1>4 DEF IInv, Life, Quitting
<1>p2. BridgeQueue'
  BY <1>1, <1>4 DEF IInv, BridgeQueue, BridgeOp, SignalsInOrder, Outstanding, Requesting
<1>p3. HostQueue'
  BY <1>1, <1>4 DEF IInv, HostQueue, Work
<1>p4. Frames'
  BY <1>1, <1>4 DEF IInv, Frames, Unseen, Working, WorkPcs
<1>p5. Stamps'
  BY <1>1, <1>4 DEF IInv, Stamps, Outstanding, Requesting, Quitting
<1>p6. Fences'
  BY <1>1, <1>4 DEF IInv, Fences, Ahead, Begun, Unseen
<1>p7. Delivery'
  BY <1>1, <1>4 DEF IInv, Delivery, Delivered, Ahead, Unseen
<1>p8. Ownership'
  BY <1>1, <1>4 DEF IInv, Ownership, Quitting, Outstanding, Requesting, Settled, Lost, Unseen, Working, WorkPcs, NoSignal, HostFailed
<1>p9. Failure'
  BY <1>1, <1>4 DEF IInv, Failure, Requesting, Lost, Unseen, WorkPcs, NoSignal, HostFailed
<1>p10. Product'
  BY <1>1, <1>4 DEF IInv, Product, Outstanding, Requesting, Preparing, Unseen, NoWork, Work, OutputReady
<1>p11. Configuration'
  BY <1>1, <1>4 DEF IInv, Configuration, Quitting, Outstanding, Requesting, ConfigDue, ConfigPcs, Unnoticed, Settled, Unseen, Working, WorkPcs
<1>p12. TextureSets'
  BY <1>1, <1>4 DEF IInv, TextureSets, Outstanding, Requesting, Handed, Awaited, Unnoticed, HostFailed
<1>p13. Handles'
  BY <1>1, <1>4 DEF IInv, Handles, NoHandles, ConfigDue, ConfigPcs, Unnoticed
<1> QED
  BY <1>p1, <1>p2, <1>p3, <1>p4, <1>p5, <1>p6, <1>p7, <1>p8, <1>p9, <1>p10, <1>p11, <1>p12, <1>p13 DEF IInv, WaitsWork


\* An expired wait leaves the request outstanding.
LEMMA LeavesPendingExact ==
  ASSUME IInv, Bounded', SameSession, bridge' = LeftPending(bridge), bridge.pc \in Waiting
  PROVE  IInv'
<1> USE DEF SameSession, Waiting
<1>1. /\ bridge'.pc = "idle"
      /\ bridge'.pending = shared.frameSeq /\ bridge'.pendingOutput = bridge.fenceValue
      /\ bridge'.present = bridge.present /\ bridge'.resourcesReady = bridge.resourcesReady
      /\ bridge'.generation = bridge.generation
      /\ bridge'.untransferred = bridge.untransferred
      /\ bridge'.fenceValue = bridge.fenceValue
  BY DEF IInv, Bounded, TypeOK, BridgeType, LeftPending, PassedThrough
<1>p1. Life'
  BY <1>1 DEF IInv, Life, Quitting
<1>p2. BridgeQueue'
  BY <1>1 DEF IInv, BridgeQueue, BridgeOp, SignalsInOrder, Outstanding, Requesting
<1>p3. HostQueue'
  BY <1>1 DEF IInv, HostQueue, Work
<1>p4. Frames'
  BY <1>1 DEF IInv, Frames, Unseen, Working, WorkPcs
<1>p5. Stamps'
  BY <1>1 DEF IInv, Stamps, Outstanding, Requesting, Quitting
<1>p6. Fences'
  BY <1>1 DEF IInv, Fences, Ahead, Begun, Unseen
<1>p7. Delivery'
  BY <1>1 DEF IInv, Delivery, Delivered, Ahead, Unseen
<1>p8. Ownership'
  BY <1>1 DEF IInv, Ownership, Quitting, Outstanding, Requesting, Settled, Lost, Unseen, Working, WorkPcs, NoSignal, HostFailed, Stamps
<1>p9. Failure'
  BY <1>1 DEF IInv, Failure, Requesting, Lost, Unseen, WorkPcs, NoSignal, HostFailed
<1>p10. Product'
  BY <1>1 DEF IInv, Product, Outstanding, Requesting, Preparing, Unseen, NoWork, Work, OutputReady
<1>p11. Configuration'
  BY <1>1 DEF IInv, Configuration, Quitting, Outstanding, Requesting, ConfigDue, ConfigPcs, Unnoticed, Settled, Unseen, Working, WorkPcs
<1>p12. TextureSets'
  BY <1>1 DEF IInv, TextureSets, Outstanding, Requesting, Handed, Awaited, Unnoticed, HostFailed
<1>p13. Handles'
  BY <1>1 DEF IInv, Handles, NoHandles, ConfigDue, ConfigPcs, Unnoticed
<1> QED
  BY <1>p1, <1>p2, <1>p3, <1>p4, <1>p5, <1>p6, <1>p7, <1>p8, <1>p9, <1>p10, <1>p11, <1>p12, <1>p13 DEF IInv, WaitsWork


\* A request is given up only when the host has lost it, or is gone.
LEMMA AbandonsExact ==
  ASSUME IInv, Bounded', SameSession, bridge' = Abandoned(bridge),
         bridge.pc \in {"enqueue", "enqueueSleep"},
         ~alive.host \/ (HostFailed /\ shared.enqueuedSeq < shared.frameSeq)
  PROVE  IInv'
<1> USE DEF SameSession
<1>1. bridge'.pc = "idle" /\ UNCHANGED BridgeData
  BY DEF IInv, Bounded, TypeOK, BridgeType, Abandoned, PassedThrough, BridgeData
<1>2. alive.host => Lost
  BY Numeric DEF IInv, Failure, Requesting, SeqNumbers
<1>p1. Life'
  BY <1>1, <1>2 DEF IInv, Life, Quitting, BridgeData
<1>p2. BridgeQueue'
  BY <1>1, <1>2 DEF IInv, BridgeQueue, BridgeOp, SignalsInOrder, Outstanding, Requesting, BridgeData
<1>p3. HostQueue'
  BY <1>1, <1>2 DEF IInv, HostQueue, Work, BridgeData
<1>p4. Frames'
  BY <1>1, <1>2 DEF IInv, Frames, Unseen, Working, WorkPcs, BridgeData
<1>p5. Stamps'
  BY <1>1, <1>2 DEF IInv, Stamps, Outstanding, Requesting, Quitting, BridgeData
<1>p6. Fences'
  BY <1>1, <1>2 DEF IInv, Fences, Ahead, Begun, Unseen, BridgeData
<1>p7. Delivery'
  BY <1>1, <1>2 DEF IInv, Delivery, Delivered, Ahead, Unseen, BridgeData
<1>p8. Ownership'
  BY <1>1, <1>2 DEF IInv, Ownership, Quitting, Outstanding, Requesting, Settled, Lost, Unseen, Working, WorkPcs, NoSignal, HostFailed, BridgeData
<1>p9. Failure'
  BY <1>1, <1>2 DEF IInv, Failure, Requesting, Lost, Unseen, WorkPcs, NoSignal, HostFailed, BridgeData
<1>p10. Product'
  BY <1>1, <1>2 DEF IInv, Product, Outstanding, Requesting, Preparing, Unseen, NoWork, Work, OutputReady, BridgeData
<1>p11. Configuration'
  BY <1>1, <1>2 DEF IInv, Configuration, Quitting, Outstanding, Requesting, ConfigDue, ConfigPcs, Unnoticed, Settled, Unseen, Working, WorkPcs, BridgeData
<1>p12. TextureSets'
  BY <1>1, <1>2 DEF IInv, TextureSets, Outstanding, Requesting, Handed, Awaited, Unnoticed, HostFailed, BridgeData
<1>p13. Handles'
  BY <1>1, <1>2 DEF IInv, Handles, NoHandles, ConfigDue, ConfigPcs, Unnoticed, BridgeData
<1> QED
  BY <1>p1, <1>p2, <1>p3, <1>p4, <1>p5, <1>p6, <1>p7, <1>p8, <1>p9, <1>p10, <1>p11, <1>p12, <1>p13 DEF IInv, WaitsWork


\* Once the bridge quits, the host may be stopped.
LEMMA AsksToStopExact ==
  ASSUME IInv, Bounded', bridge' = Goto("closing"), bridge.pc \in {"connect", "idle"},
         shared' = [shared EXCEPT !.stopRequested = TRUE],
         UNCHANGED <<alive, remote, gpuVars, host>>
  PROVE  IInv'
<1> USE DEF gpuVars
<1>1. bridge'.pc = "closing" /\ UNCHANGED BridgeData
  BY Moves DEF IInv, BridgePcs
<1>2. /\ shared'.state = shared.state /\ shared'.frameSeq = shared.frameSeq
      /\ shared'.enqueuedSeq = shared.enqueuedSeq /\ shared'.completedSeq = shared.completedSeq
      /\ shared'.configGeneration = shared.configGeneration
      /\ shared'.resourceGeneration = shared.resourceGeneration
      /\ shared'.inputFence = shared.inputFence /\ shared'.outputFence = shared.outputFence
      /\ shared'.present = shared.present /\ shared'.handle = shared.handle
  BY DEF IInv, Bounded, TypeOK, SharedType
<1>p1. Life'
  BY <1>1, <1>2 DEF IInv, Life, Quitting, BridgeData
<1>p2. BridgeQueue'
  BY <1>1, <1>2 DEF IInv, BridgeQueue, BridgeOp, SignalsInOrder, Outstanding, Requesting, BridgeData
<1>p3. HostQueue'
  BY <1>1, <1>2 DEF IInv, HostQueue, Work, BridgeData
<1>p4. Frames'
  BY <1>1, <1>2 DEF IInv, Frames, Unseen, Working, WorkPcs, BridgeData
<1>p5. Stamps'
  BY <1>1, <1>2 DEF IInv, Stamps, Outstanding, Requesting, Quitting, BridgeData
<1>p6. Fences'
  BY <1>1, <1>2 DEF IInv, Fences, Ahead, Begun, Unseen, BridgeData
<1>p7. Delivery'
  BY <1>1, <1>2 DEF IInv, Delivery, Delivered, Ahead, Unseen, BridgeData
<1>p8. Ownership'
  BY <1>1, <1>2 DEF IInv, Ownership, Quitting, Outstanding, Requesting, Settled, Lost, Unseen, Working, WorkPcs, NoSignal, HostFailed, BridgeData
<1>p9. Failure'
  BY <1>1, <1>2 DEF IInv, Failure, Requesting, Lost, Unseen, WorkPcs, NoSignal, HostFailed, BridgeData
<1>p10. Product'
  BY <1>1, <1>2 DEF IInv, Product, Outstanding, Requesting, Preparing, Unseen, NoWork, Work, OutputReady, BridgeData
<1>p11. Configuration'
  BY <1>1, <1>2 DEF IInv, Configuration, Quitting, Outstanding, Requesting, ConfigDue, ConfigPcs, Unnoticed, Settled, Unseen, Working, WorkPcs, BridgeData
<1>p12. TextureSets'
  BY <1>1, <1>2 DEF IInv, TextureSets, Outstanding, Requesting, Handed, Awaited, Unnoticed, HostFailed, BridgeData
<1>p13. Handles'
  BY <1>1, <1>2 DEF IInv, Handles, NoHandles, ConfigDue, ConfigPcs, Unnoticed, BridgeData
<1> QED
  BY <1>p1, <1>p2, <1>p3, <1>p4, <1>p5, <1>p6, <1>p7, <1>p8, <1>p9, <1>p10, <1>p11, <1>p12, <1>p13 DEF IInv, WaitsWork


\* Nothing is left to go wrong once the bridge has quit.
LEMMA CloseExact ==
  ASSUME IInv, Bounded', Close, UNCHANGED host
  PROVE  IInv'
<1>1. bridge.pc = "closing" /\ bridge'.pc = "closed" /\ UNCHANGED BridgeData
  BY Moves, "closed" \in BridgePcs DEF IInv, Close, BridgePcs
<1>2. UNCHANGED <<shared, event, alive, remote, fence, bridgeQ, hostQ, tex, screen, host>>
  BY DEF Close, ipcVars
<1>p1. Life'
  BY <1>1, <1>2 DEF IInv, Life, Quitting, BridgeData
<1>p2. BridgeQueue'
  BY <1>1, <1>2 DEF IInv, BridgeQueue, BridgeOp, SignalsInOrder, Outstanding, Requesting, BridgeData
<1>p3. HostQueue'
  BY <1>1, <1>2 DEF IInv, HostQueue, Work, BridgeData
<1>p4. Frames'
  BY <1>1, <1>2 DEF IInv, Frames, Unseen, Working, WorkPcs, BridgeData
<1>p5. Stamps'
  BY <1>1, <1>2 DEF IInv, Stamps, Outstanding, Requesting, Quitting, BridgeData
<1>p6. Fences'
  BY <1>1, <1>2 DEF IInv, Fences, Ahead, Begun, Unseen, BridgeData
<1>p7. Delivery'
  BY <1>1, <1>2 DEF IInv, Delivery, Delivered, Ahead, Unseen, BridgeData
<1>p8. Ownership'
  BY <1>1, <1>2 DEF IInv, Ownership, Quitting, Outstanding, Requesting, Settled, Lost, Unseen, Working, WorkPcs, NoSignal, HostFailed, BridgeData
<1>p9. Failure'
  BY <1>1, <1>2 DEF IInv, Failure, Requesting, Lost, Unseen, WorkPcs, NoSignal, HostFailed, BridgeData
<1>p10. Product'
  BY <1>1, <1>2 DEF IInv, Product, Outstanding, Requesting, Preparing, Unseen, NoWork, Work, OutputReady, BridgeData
<1>p11. Configuration'
  BY <1>1, <1>2 DEF IInv, Configuration, Quitting, Outstanding, Requesting, ConfigDue, ConfigPcs, Unnoticed, Settled, Unseen, Working, WorkPcs, BridgeData
<1>p12. TextureSets'
  BY <1>1, <1>2 DEF IInv, TextureSets, Outstanding, Requesting, Handed, Awaited, Unnoticed, HostFailed, BridgeData
<1>p13. Handles'
  BY <1>1, <1>2 DEF IInv, Handles, NoHandles, ConfigDue, ConfigPcs, Unnoticed, BridgeData
<1> QED
  BY <1>p1, <1>p2, <1>p3, <1>p4, <1>p5, <1>p6, <1>p7, <1>p8, <1>p9, <1>p10, <1>p11, <1>p12, <1>p13 DEF IInv, WaitsWork


\* The game dies and its GPU work with it: nobody is left to be shown a frame.
LEMMA BridgeCrashExact ==
  ASSUME IInv, Bounded', BridgeCrash, UNCHANGED host
  PROVE  IInv'
<1>1. bridge'.pc = "dead" /\ UNCHANGED BridgeData /\ bridge.pc # "dead"
  BY Moves DEF IInv, BridgeCrash, Life, BridgePcs
<1>2. /\ alive'.bridge = FALSE /\ alive'.host = alive.host /\ bridgeQ' = <<>>
      /\ UNCHANGED <<shared, event, remote, fence, hostQ, tex, screen, host>>
  BY DEF BridgeCrash, IInv, Bounded, TypeOK
<1>p1. Life'
  BY <1>1, <1>2 DEF IInv, Life, Quitting, BridgeData
<1>p2. BridgeQueue'
  BY <1>1, <1>2 DEF IInv, BridgeQueue, BridgeOp, SignalsInOrder, Outstanding, Requesting, BridgeData
<1>p3. HostQueue'
  BY <1>1, <1>2 DEF IInv, HostQueue, Work, BridgeData
<1>p4. Frames'
  BY <1>1, <1>2 DEF IInv, Frames, Unseen, Working, WorkPcs, BridgeData
<1>p5. Stamps'
  BY <1>1, <1>2 DEF IInv, Stamps, Outstanding, Requesting, Quitting, BridgeData
<1>p6. Fences'
  BY <1>1, <1>2 DEF IInv, Fences, Ahead, Begun, Unseen, BridgeData
<1>p7. Delivery'
  BY <1>1, <1>2 DEF IInv, Delivery, Delivered, Ahead, Unseen, BridgeData
<1>p8. Ownership'
  BY <1>1, <1>2 DEF IInv, Ownership, Quitting, Outstanding, Requesting, Settled, Lost, Unseen, Working, WorkPcs, NoSignal, HostFailed, BridgeData
<1>p9. Failure'
  BY <1>1, <1>2 DEF IInv, Failure, Requesting, Lost, Unseen, WorkPcs, NoSignal, HostFailed, BridgeData
<1>p10. Product'
  BY <1>1, <1>2 DEF IInv, Product, Outstanding, Requesting, Preparing, Unseen, NoWork, Work, OutputReady, BridgeData
<1>p11. Configuration'
  BY <1>1, <1>2 DEF IInv, Configuration, Quitting, Outstanding, Requesting, ConfigDue, ConfigPcs, Unnoticed, Settled, Unseen, Working, WorkPcs, BridgeData
<1>p12. TextureSets'
  BY <1>1, <1>2 DEF IInv, TextureSets, Outstanding, Requesting, Handed, Awaited, Unnoticed, HostFailed, BridgeData
<1>p13. Handles'
  BY <1>1, <1>2 DEF IInv, Handles, NoHandles, ConfigDue, ConfigPcs, Unnoticed, BridgeData
<1> QED
  BY <1>p1, <1>p2, <1>p3, <1>p4, <1>p5, <1>p6, <1>p7, <1>p8, <1>p9, <1>p10, <1>p11, <1>p12, <1>p13 DEF IInv, WaitsWork

\* A present refused on entry, or one that begins: a failed host gets no more work.
LEMMA PresentExact ==
  ASSUME IInv, Bounded', NEW size \in Sizes, NEW preset \in Presets,
         NEW synchronized \in BOOLEAN, NEW cut \in BOOLEAN,
         Present(size, preset, synchronized, cut), UNCHANGED host
  PROVE  IInv'
<1>1. bridge \in BridgeType /\ bridge.pc = "idle"
  BY DEF IInv, Bounded, TypeOK, Present
<1>2. /\ bridge'.pc = "idle" \/ (bridge'.pc = "pending" /\ ~Refused)
      /\ bridge'.resourcesReady = bridge.resourcesReady
      /\ bridge'.generation = bridge.generation
      /\ bridge'.untransferred = bridge.untransferred
      /\ bridge'.fenceValue = bridge.fenceValue
      /\ bridge'.pending = bridge.pending /\ bridge'.pendingOutput = bridge.pendingOutput
  <2>1. CASE Refused
    <3>1. bridge' = PassedThrough([bridge EXCEPT !.pc = "pending", !.present = @ + 1])
      BY <2>1 DEF Present
    <3> QED
      BY <1>1, <3>1 DEF PassedThrough, BridgeType
  <2>2. CASE ~Refused
    <3>1. bridge' = [[bridge EXCEPT !.pc = "pending", !.present = @ + 1]
                       EXCEPT !.lastPreset = preset,
                          !.call = [size |-> size, synchronized |-> synchronized,
                                    reset |-> bridge.pipelineReset \/ cut],
                          !.dirty = @ \/ bridge.lastPreset # preset,
                          !.forceReset = @ \/ bridge.lastPreset # preset]
      BY <2>2 DEF Present
    <3> QED
      BY <1>1, <2>2, <3>1 DEF BridgeType
  <2> QED
    BY <2>1, <2>2
<1>3. UNCHANGED <<shared, event, alive, remote, fence, bridgeQ, hostQ, tex, screen, host>>
  BY DEF Present, ipcVars
<1>p1. Life'
  BY <1>1, <1>2, <1>3 DEF IInv, Life, Quitting
<1>p2. BridgeQueue'
  BY <1>1, <1>2, <1>3 DEF IInv, BridgeQueue, BridgeOp, SignalsInOrder, Outstanding, Requesting
<1>p3. HostQueue'
  BY <1>1, <1>2, <1>3 DEF IInv, HostQueue, Work
<1>p4. Frames'
  BY <1>1, <1>2, <1>3 DEF IInv, Frames, Unseen, Working, WorkPcs
<1>p5. Stamps'
  BY <1>1, <1>2, <1>3 DEF IInv, Stamps, Outstanding, Requesting, Quitting
<1>p6. Fences'
  BY <1>1, <1>2, <1>3 DEF IInv, Fences, Ahead, Begun, Unseen
<1>p7. Delivery'
  BY <1>1, <1>2, <1>3 DEF IInv, Delivery, Delivered, Ahead, Unseen
<1>p8. Ownership'
  BY <1>1, <1>2, <1>3 DEF IInv, Ownership, Quitting, Outstanding, Requesting, Settled, Lost, Unseen, Working, WorkPcs, NoSignal, HostFailed, Refused
<1>p9. Failure'
  BY <1>1, <1>2, <1>3 DEF IInv, Failure, Requesting, Lost, Unseen, WorkPcs, NoSignal, HostFailed
<1>p10. Product'
  BY <1>1, <1>2, <1>3 DEF IInv, Product, Outstanding, Requesting, Preparing, Unseen, NoWork, Work, OutputReady
<1>p11. Configuration'
  BY <1>1, <1>2, <1>3 DEF IInv, Configuration, Quitting, Outstanding, Requesting, ConfigDue, ConfigPcs, Unnoticed, Settled, Unseen, Working, WorkPcs, Refused
<1>p12. TextureSets'
  BY <1>1, <1>2, <1>3 DEF IInv, TextureSets, Outstanding, Requesting, Handed, Awaited, Unnoticed, HostFailed
<1>p13. Handles'
  BY <1>1, <1>2, <1>3 DEF IInv, Handles, NoHandles, ConfigDue, ConfigPcs, Unnoticed
<1> QED
  BY <1>p1, <1>p2, <1>p3, <1>p4, <1>p5, <1>p6, <1>p7, <1>p8, <1>p9, <1>p10, <1>p11, <1>p12, <1>p13 DEF IInv, WaitsWork


\* The parameters are written when no request is outstanding any more.
LEMMA FillExact ==
  ASSUME IInv, Bounded', Fill, UNCHANGED host
  PROVE  IInv'
<1>1. bridge.pc = "fill" /\ bridge'.pc = "ensure" /\ UNCHANGED BridgeData
  BY Moves DEF IInv, Fill, BridgePcs
<1>2. UNCHANGED <<event, alive, remote, fence, bridgeQ, hostQ, tex, screen, host>>
  BY DEF Fill, gpuVars
<1>3. /\ shared'.state = shared.state /\ shared'.frameSeq = shared.frameSeq
      /\ shared'.enqueuedSeq = shared.enqueuedSeq /\ shared'.completedSeq = shared.completedSeq
      /\ shared'.configGeneration = shared.configGeneration
      /\ shared'.resourceGeneration = shared.resourceGeneration
      /\ shared'.inputFence = shared.inputFence /\ shared'.outputFence = shared.outputFence
      /\ shared'.present = bridge.present /\ shared'.handle = shared.handle
      /\ shared'.stopRequested = shared.stopRequested
  BY DEF IInv, Bounded, TypeOK, SharedType, Fill
<1>4. bridge.pending = 0
  BY <1>1 DEF IInv, Stamps, Quitting
<1>5. alive.host => Settled
  BY <1>1, <1>4 DEF IInv, Ownership, Outstanding, Requesting, Quitting
<1>p1. Life'
  BY <1>1, <1>2, <1>3, <1>4, <1>5 DEF IInv, Life, Quitting, BridgeData
<1>p2. BridgeQueue'
  BY <1>1, <1>2, <1>3, <1>4, <1>5 DEF IInv, BridgeQueue, BridgeOp, SignalsInOrder, Outstanding, Requesting, BridgeData
<1>p3. HostQueue'
  BY <1>1, <1>2, <1>3, <1>4, <1>5 DEF IInv, HostQueue, Work, BridgeData
<1>p4. Frames'
  BY <1>1, <1>2, <1>3, <1>4, <1>5 DEF IInv, Frames, Unseen, Working, WorkPcs, BridgeData
<1>p5. Stamps'
  BY <1>1, <1>2, <1>3, <1>4, <1>5 DEF IInv, Stamps, Outstanding, Requesting, Quitting, BridgeData
<1>p6. Fences'
  BY <1>1, <1>2, <1>3, <1>4, <1>5 DEF IInv, Fences, Ahead, Begun, Unseen, BridgeData, Settled, Working, WorkPcs
<1>p7. Delivery'
  BY <1>1, <1>2, <1>3, <1>4, <1>5 DEF IInv, Delivery, Delivered, Ahead, Unseen, BridgeData, Settled, Working, WorkPcs
<1>p8. Ownership'
  BY <1>1, <1>2, <1>3, <1>4, <1>5 DEF IInv, Ownership, Quitting, Outstanding, Requesting, Settled, Lost, Unseen, Working, WorkPcs, NoSignal, HostFailed, BridgeData
<1>p9. Failure'
  BY <1>1, <1>2, <1>3, <1>4, <1>5 DEF IInv, Failure, Requesting, Lost, Unseen, WorkPcs, NoSignal, HostFailed, BridgeData
<1>p10. Product'
  BY <1>1, <1>2, <1>3, <1>4, <1>5 DEF IInv, Product, Outstanding, Requesting, Preparing, Unseen, NoWork, Work, OutputReady, BridgeData
<1>p11. Configuration'
  BY <1>1, <1>2, <1>3, <1>4, <1>5 DEF IInv, Configuration, Quitting, Outstanding, Requesting, ConfigDue, ConfigPcs, Unnoticed, Settled, Unseen, Working, WorkPcs, BridgeData
<1>p12. TextureSets'
  BY <1>1, <1>2, <1>3, <1>4, <1>5 DEF IInv, TextureSets, Outstanding, Requesting, Handed, Awaited, Unnoticed, HostFailed, BridgeData
<1>p13. Handles'
  BY <1>1, <1>2, <1>3, <1>4, <1>5 DEF IInv, Handles, NoHandles, ConfigDue, ConfigPcs, Unnoticed, BridgeData
<1> QED
  BY <1>p1, <1>p2, <1>p3, <1>p4, <1>p5, <1>p6, <1>p7, <1>p8, <1>p9, <1>p10, <1>p11, <1>p12, <1>p13 DEF IInv, WaitsWork


\* New textures: the handles of the old ones are cleared, none is transferred yet.
LEMMA EnsureExact ==
  ASSUME IInv, Bounded', Ensure, UNCHANGED host,
         ~(bridge.resourcesReady /\ bridge.width = bridge.call.size)
  PROVE  IInv'
<1>1. bridge \in BridgeType /\ bridge.pc = "ensure" /\ shared \in SharedType
  BY DEF IInv, Bounded, TypeOK, Ensure
<1>2. /\ bridge'.pc = "transfer" /\ bridge'.resourcesReady = FALSE
      /\ bridge'.generation = bridge.generation + 1
      /\ bridge'.untransferred = Textures /\ bridge'.present = bridge.present
      /\ bridge'.fenceValue = bridge.fenceValue
      /\ bridge'.pending = bridge.pending /\ bridge'.pendingOutput = bridge.pendingOutput
  <2>1. bridge' = [bridge EXCEPT !.pc = "transfer",
                     !.resourcesReady = FALSE, !.forceReset = TRUE,
                     !.width = bridge.call.size, !.generation = @ + 1,
                     !.untransferred = Textures]
    BY DEF Ensure
  <2> QED
    BY <1>1, <2>1 DEF BridgeType
<1>3. UNCHANGED <<event, alive, remote, fence, bridgeQ, hostQ, tex, screen, host>>
  BY DEF Ensure, gpuVars
<1>4. /\ shared'.state = shared.state /\ shared'.frameSeq = shared.frameSeq
      /\ shared'.enqueuedSeq = shared.enqueuedSeq /\ shared'.completedSeq = shared.completedSeq
      /\ shared'.configGeneration = shared.configGeneration
      /\ shared'.resourceGeneration = shared.resourceGeneration
      /\ shared'.inputFence = shared.inputFence /\ shared'.outputFence = shared.outputFence
      /\ shared'.present = shared.present
      /\ \A t \in Textures : shared'.handle[t] = 0
      /\ shared'.stopRequested = shared.stopRequested
  BY <1>1 DEF SharedType, Ensure, Fields
<1>5. SeqNumbers /\ FenceNumbers /\ GenNumbers
  BY Numeric DEF IInv
<1>6. bridge.pending = 0
  BY <1>1 DEF IInv, Stamps, Quitting
<1>p1. Life'
  BY <1>1, <1>2, <1>3, <1>4, <1>6 DEF IInv, Life, Quitting
<1>p2. BridgeQueue'
  BY <1>1, <1>2, <1>3, <1>4, <1>6 DEF IInv, BridgeQueue, BridgeOp, SignalsInOrder, Outstanding, Requesting
<1>p3. HostQueue'
  BY <1>1, <1>2, <1>3, <1>4, <1>6 DEF IInv, HostQueue, Work
<1>p4. Frames'
  BY <1>1, <1>2, <1>3, <1>4, <1>6 DEF IInv, Frames, Unseen, Working, WorkPcs
<1>p5. Stamps'
  BY <1>1, <1>2, <1>3, <1>4, <1>6 DEF IInv, Stamps, Outstanding, Requesting, Quitting
<1>p6. Fences'
  BY <1>1, <1>2, <1>3, <1>4, <1>6 DEF IInv, Fences, Ahead, Begun, Unseen
<1>p7. Delivery'
  BY <1>1, <1>2, <1>3, <1>4, <1>6 DEF IInv, Delivery, Delivered, Ahead, Unseen
<1>p8. Ownership'
  BY <1>1, <1>2, <1>3, <1>4, <1>6 DEF IInv, Ownership, Quitting, Outstanding, Requesting, Settled, Lost, Unseen, Working, WorkPcs, NoSignal, HostFailed
<1>p9. Failure'
  BY <1>1, <1>2, <1>3, <1>4, <1>6 DEF IInv, Failure, Requesting, Lost, Unseen, WorkPcs, NoSignal, HostFailed
<1>p10. Product'
  BY <1>1, <1>2, <1>3, <1>4, <1>6 DEF IInv, Product, Outstanding, Requesting, Preparing, Unseen, NoWork, Work, OutputReady
<1>p11. Configuration'
  BY <1>1, <1>2, <1>3, <1>4, <1>6 DEF IInv, Configuration, Quitting, Outstanding, Requesting, ConfigDue, ConfigPcs, Unnoticed, Settled, Unseen, Working, WorkPcs
<1>p12. TextureSets'
  BY <1>1, <1>2, <1>3, <1>4, <1>6 DEF IInv, TextureSets, Outstanding, Requesting, Handed, Awaited, Unnoticed, HostFailed
<1>p13. Handles'
  BY <1>1, <1>2, <1>3, <1>4, <1>6, <1>5 DEF IInv, Handles, NoHandles, ConfigDue, ConfigPcs, Unnoticed, GenNumbers
<1> QED
  BY <1>p1, <1>p2, <1>p3, <1>p4, <1>p5, <1>p6, <1>p7, <1>p8, <1>p9, <1>p10, <1>p11, <1>p12, <1>p13 DEF IInv, WaitsWork


\* One more texture of the batch is transferred.
LEMMA TransferExact ==
  ASSUME IInv, Bounded', NEW t \in Textures, Transfer(t), UNCHANGED host
  PROVE  IInv'
<1>1. bridge \in BridgeType /\ bridge.pc = "transfer" /\ shared \in SharedType
  BY DEF IInv, Bounded, TypeOK, Transfer
<1>2. /\ bridge'.pc = "transfer" /\ bridge'.resourcesReady = bridge.resourcesReady
      /\ bridge'.generation = bridge.generation
      /\ bridge'.untransferred = bridge.untransferred \ {t}
      /\ bridge'.present = bridge.present
      /\ bridge'.fenceValue = bridge.fenceValue
      /\ bridge'.pending = bridge.pending /\ bridge'.pendingOutput = bridge.pendingOutput
  BY <1>1 DEF Transfer, BridgeType
<1>3. UNCHANGED <<event, alive, fence, bridgeQ, hostQ, tex, screen, host>>
  BY DEF Transfer, gpuVars
<1>4. /\ shared'.state = shared.state /\ shared'.frameSeq = shared.frameSeq
      /\ shared'.enqueuedSeq = shared.enqueuedSeq /\ shared'.completedSeq = shared.completedSeq
      /\ shared'.configGeneration = shared.configGeneration
      /\ shared'.resourceGeneration = shared.resourceGeneration
      /\ shared'.inputFence = shared.inputFence /\ shared'.outputFence = shared.outputFence
      /\ shared'.present = shared.present
      /\ shared'.stopRequested = shared.stopRequested
      /\ \A f \in Fields : shared'.handle[f] =
           IF f = t THEN bridge.generation ELSE shared.handle[f]
  BY <1>1 DEF SharedType, Transfer, Fields
<1>p1. Life'
  BY <1>1, <1>2, <1>3, <1>4 DEF IInv, Life, Quitting
<1>p2. BridgeQueue'
  BY <1>1, <1>2, <1>3, <1>4 DEF IInv, BridgeQueue, BridgeOp, SignalsInOrder, Outstanding, Requesting
<1>p3. HostQueue'
  BY <1>1, <1>2, <1>3, <1>4 DEF IInv, HostQueue, Work
<1>p4. Frames'
  BY <1>1, <1>2, <1>3, <1>4 DEF IInv, Frames, Unseen, Working, WorkPcs
<1>p5. Stamps'
  BY <1>1, <1>2, <1>3, <1>4 DEF IInv, Stamps, Outstanding, Requesting, Quitting
<1>p6. Fences'
  BY <1>1, <1>2, <1>3, <1>4 DEF IInv, Fences, Ahead, Begun, Unseen
<1>p7. Delivery'
  BY <1>1, <1>2, <1>3, <1>4 DEF IInv, Delivery, Delivered, Ahead, Unseen
<1>p8. Ownership'
  BY <1>1, <1>2, <1>3, <1>4 DEF IInv, Ownership, Quitting, Outstanding, Requesting, Settled, Lost, Unseen, Working, WorkPcs, NoSignal, HostFailed
<1>p9. Failure'
  BY <1>1, <1>2, <1>3, <1>4 DEF IInv, Failure, Requesting, Lost, Unseen, WorkPcs, NoSignal, HostFailed
<1>p10. Product'
  BY <1>1, <1>2, <1>3, <1>4 DEF IInv, Product, Outstanding, Requesting, Preparing, Unseen, NoWork, Work, OutputReady
<1>p11. Configuration'
  BY <1>1, <1>2, <1>3, <1>4 DEF IInv, Configuration, Quitting, Outstanding, Requesting, ConfigDue, ConfigPcs, Unnoticed, Settled, Unseen, Working, WorkPcs
<1>p12. TextureSets'
  BY <1>1, <1>2, <1>3, <1>4 DEF IInv, TextureSets, Outstanding, Requesting, Handed, Awaited, Unnoticed, HostFailed
<1>p13. Handles'
  BY <1>1, <1>2, <1>3, <1>4 DEF IInv, Handles, NoHandles, ConfigDue, ConfigPcs, Unnoticed, Fields, Configuration, Quitting
<1> QED
  BY <1>p1, <1>p2, <1>p3, <1>p4, <1>p5, <1>p6, <1>p7, <1>p8, <1>p9, <1>p10, <1>p11, <1>p12, <1>p13 DEF IInv, WaitsWork


\* The batch is withdrawn: no handle is left in the block.
LEMMA TransferFailsExact ==
  ASSUME IInv, Bounded', TransferFails, UNCHANGED host
  PROVE  IInv'
<1>1. bridge \in BridgeType /\ bridge.pc = "transfer" /\ shared \in SharedType
  BY DEF IInv, Bounded, TypeOK, TransferFails
<1>2. /\ bridge'.pc = "idle" /\ bridge'.resourcesReady = bridge.resourcesReady
      /\ bridge'.generation = bridge.generation
      /\ bridge'.present = bridge.present
      /\ bridge'.fenceValue = bridge.fenceValue
      /\ bridge'.pending = bridge.pending /\ bridge'.pendingOutput = bridge.pendingOutput
  BY <1>1 DEF TransferFails, BridgeType, PassedThrough
<1>3. UNCHANGED <<event, alive, fence, bridgeQ, hostQ, tex, screen, host>>
  BY DEF TransferFails, gpuVars
<1>4. /\ shared'.state = shared.state /\ shared'.frameSeq = shared.frameSeq
      /\ shared'.enqueuedSeq = shared.enqueuedSeq /\ shared'.completedSeq = shared.completedSeq
      /\ shared'.configGeneration = shared.configGeneration
      /\ shared'.resourceGeneration = shared.resourceGeneration
      /\ shared'.inputFence = shared.inputFence /\ shared'.outputFence = shared.outputFence
      /\ shared'.present = shared.present
      /\ shared'.stopRequested = shared.stopRequested
      /\ \A t \in Textures : shared'.handle[t] = 0
  BY <1>1 DEF SharedType, TransferFails, CloseFields, Fields
<1>p1. Life'
  BY <1>1, <1>2, <1>3, <1>4 DEF IInv, Life, Quitting
<1>p2. BridgeQueue'
  BY <1>1, <1>2, <1>3, <1>4 DEF IInv, BridgeQueue, BridgeOp, SignalsInOrder, Outstanding, Requesting
<1>p3. HostQueue'
  BY <1>1, <1>2, <1>3, <1>4 DEF IInv, HostQueue, Work
<1>p4. Frames'
  BY <1>1, <1>2, <1>3, <1>4 DEF IInv, Frames, Unseen, Working, WorkPcs
<1>p5. Stamps'
  BY <1>1, <1>2, <1>3, <1>4 DEF IInv, Stamps, Outstanding, Requesting, Quitting
<1>p6. Fences'
  BY <1>1, <1>2, <1>3, <1>4 DEF IInv, Fences, Ahead, Begun, Unseen
<1>p7. Delivery'
  BY <1>1, <1>2, <1>3, <1>4 DEF IInv, Delivery, Delivered, Ahead, Unseen
<1>p8. Ownership'
  BY <1>1, <1>2, <1>3, <1>4 DEF IInv, Ownership, Quitting, Outstanding, Requesting, Settled, Lost, Unseen, Working, WorkPcs, NoSignal, HostFailed
<1>p9. Failure'
  BY <1>1, <1>2, <1>3, <1>4 DEF IInv, Failure, Requesting, Lost, Unseen, WorkPcs, NoSignal, HostFailed
<1>p10. Product'
  BY <1>1, <1>2, <1>3, <1>4 DEF IInv, Product, Outstanding, Requesting, Preparing, Unseen, NoWork, Work, OutputReady
<1>p11. Configuration'
  BY <1>1, <1>2, <1>3, <1>4 DEF IInv, Configuration, Quitting, Outstanding, Requesting, ConfigDue, ConfigPcs, Unnoticed, Settled, Unseen, Working, WorkPcs
<1>p12. TextureSets'
  BY <1>1, <1>2, <1>3, <1>4 DEF IInv, TextureSets, Outstanding, Requesting, Handed, Awaited, Unnoticed, HostFailed
<1>p13. Handles'
  BY <1>1, <1>2, <1>3, <1>4 DEF IInv, Handles, NoHandles, ConfigDue, ConfigPcs, Unnoticed
<1> QED
  BY <1>p1, <1>p2, <1>p3, <1>p4, <1>p5, <1>p6, <1>p7, <1>p8, <1>p9, <1>p10, <1>p11, <1>p12, <1>p13 DEF IInv, WaitsWork


\* The state is published first: from here on no frame is accepted.
LEMMA PublishConfiguringExact ==
  ASSUME IInv, Bounded', PublishConfiguring, UNCHANGED host
  PROVE  IInv'
<1>1. /\ bridge.pc = "publish" \/ (bridge.pc = "transfer" /\ bridge.untransferred = {})
      /\ bridge'.pc = "bump" /\ UNCHANGED BridgeData
  BY Moves DEF IInv, PublishConfiguring, BridgePcs
<1>2. UNCHANGED <<event, alive, remote, fence, bridgeQ, hostQ, tex, screen, host>>
  BY DEF PublishConfiguring, gpuVars
<1>3. /\ shared'.state = "Configuring" /\ shared'.frameSeq = shared.frameSeq
      /\ shared'.enqueuedSeq = shared.enqueuedSeq /\ shared'.completedSeq = shared.completedSeq
      /\ shared'.configGeneration = shared.configGeneration
      /\ shared'.resourceGeneration = shared.resourceGeneration
      /\ shared'.inputFence = shared.inputFence /\ shared'.outputFence = shared.outputFence
      /\ shared'.present = shared.present /\ shared'.handle = shared.handle
      /\ shared'.stopRequested = shared.stopRequested
  BY DEF IInv, Bounded, TypeOK, SharedType, PublishConfiguring
<1>p1. Life'
  BY <1>1, <1>2, <1>3 DEF IInv, Life, Quitting, BridgeData
<1>p2. BridgeQueue'
  BY <1>1, <1>2, <1>3 DEF IInv, BridgeQueue, BridgeOp, SignalsInOrder, Outstanding, Requesting, BridgeData
<1>p3. HostQueue'
  BY <1>1, <1>2, <1>3 DEF IInv, HostQueue, Work, BridgeData
<1>p4. Frames'
  BY <1>1, <1>2, <1>3 DEF IInv, Frames, Unseen, Working, WorkPcs, BridgeData
<1>p5. Stamps'
  BY <1>1, <1>2, <1>3 DEF IInv, Stamps, Outstanding, Requesting, Quitting, BridgeData
<1>p6. Fences'
  BY <1>1, <1>2, <1>3 DEF IInv, Fences, Ahead, Begun, Unseen, BridgeData
<1>p7. Delivery'
  BY <1>1, <1>2, <1>3 DEF IInv, Delivery, Delivered, Ahead, Unseen, BridgeData
<1>p8. Ownership'
  BY <1>1, <1>2, <1>3 DEF IInv, Ownership, Quitting, Outstanding, Requesting, Settled, Lost, Unseen, Working, WorkPcs, NoSignal, HostFailed, BridgeData
<1>p9. Failure'
  BY <1>1, <1>2, <1>3 DEF IInv, Failure, Requesting, Lost, Unseen, WorkPcs, NoSignal, HostFailed, BridgeData
<1>p10. Product'
  BY <1>1, <1>2, <1>3 DEF IInv, Product, Outstanding, Requesting, Preparing, Unseen, NoWork, Work, OutputReady, BridgeData
<1>p11. Configuration'
  BY <1>1, <1>2, <1>3 DEF IInv, Configuration, Quitting, Outstanding, Requesting, ConfigDue, ConfigPcs, Unnoticed, Settled, Unseen, Working, WorkPcs, BridgeData
<1>p12. TextureSets'
  BY <1>1, <1>2, <1>3 DEF IInv, TextureSets, Outstanding, Requesting, Handed, Awaited, Unnoticed, HostFailed, BridgeData
<1>p13. Handles'
  BY <1>1, <1>2, <1>3 DEF IInv, Handles, NoHandles, ConfigDue, ConfigPcs, Unnoticed, BridgeData, Configuration, Quitting, TextureSets, Life
<1> QED
  BY <1>p1, <1>p2, <1>p3, <1>p4, <1>p5, <1>p6, <1>p7, <1>p8, <1>p9, <1>p10, <1>p11, <1>p12, <1>p13 DEF IInv, WaitsWork


\* The host has a new configuration to notice, and nothing of a frame.
LEMMA BumpGenerationsExact ==
  ASSUME IInv, Bounded', BumpGenerations, UNCHANGED host
  PROVE  IInv'
<1>1. bridge.pc = "bump" /\ bridge'.pc = "wake" /\ UNCHANGED BridgeData
  BY Moves DEF IInv, BumpGenerations, BridgePcs
<1>2. UNCHANGED <<event, alive, remote, fence, bridgeQ, hostQ, tex, screen, host>>
  BY DEF BumpGenerations, gpuVars
<1>3. /\ shared'.state = shared.state /\ shared'.frameSeq = shared.frameSeq
      /\ shared'.enqueuedSeq = shared.enqueuedSeq /\ shared'.completedSeq = shared.completedSeq
      /\ shared'.configGeneration = shared.configGeneration + 1
      /\ shared'.resourceGeneration = 
           IF bridge.resourcesReady THEN shared.resourceGeneration
           ELSE shared.resourceGeneration + 1
      /\ shared'.inputFence = shared.inputFence /\ shared'.outputFence = shared.outputFence
      /\ shared'.present = shared.present /\ shared'.handle = shared.handle
      /\ shared'.stopRequested = shared.stopRequested
  BY DEF IInv, Bounded, TypeOK, SharedType, BumpGenerations
<1>4. SeqNumbers /\ FenceNumbers /\ GenNumbers
  BY Numeric DEF IInv
<1>5. bridge.pending = 0
  BY <1>1 DEF IInv, Stamps, Quitting
<1>6. alive.host => Settled /\ ~ConfigDue
  BY <1>1, <1>5 DEF IInv, Ownership, Configuration, Outstanding, Requesting, Quitting
<1>61. shared'.configGeneration = shared.configGeneration + 1
  BY <1>3
<1>62. shared'.configGeneration # shared.configGeneration
  BY <1>4, <1>61 DEF GenNumbers
<1>7. alive.host => host.pc \notin ConfigPcs /\ host.configSeen # shared'.configGeneration
  BY <1>6, <1>62 DEF ConfigDue, Unnoticed
<1>8. bridge.resourcesReady => shared'.resourceGeneration = shared.resourceGeneration
  BY <1>3
<1>9. ~bridge.resourcesReady => /\ shared'.resourceGeneration = shared.resourceGeneration + 1
                                /\ alive.host => host.imported < shared'.resourceGeneration
  BY <1>3, <1>4 DEF IInv, TextureSets, GenNumbers
<1>p1. Life'
  BY <1>1, <1>2, <1>3, <1>5 DEF IInv, Life, Quitting, BridgeData
<1>p2. BridgeQueue'
  BY <1>1, <1>2, <1>3, <1>5 DEF IInv, BridgeQueue, BridgeOp, SignalsInOrder, Outstanding, Requesting, BridgeData
<1>p3. HostQueue'
  BY <1>1, <1>2, <1>3, <1>5 DEF IInv, HostQueue, Work, BridgeData
<1>p4. Frames'
  BY <1>1, <1>2, <1>3, <1>5 DEF IInv, Frames, Unseen, Working, WorkPcs, BridgeData
<1>p5. Stamps'
  BY <1>1, <1>2, <1>3, <1>5 DEF IInv, Stamps, Outstanding, Requesting, Quitting, BridgeData
<1>p6. Fences'
  BY <1>1, <1>2, <1>3, <1>5 DEF IInv, Fences, Ahead, Begun, Unseen, BridgeData
<1>p7. Delivery'
  BY <1>1, <1>2, <1>3, <1>5 DEF IInv, Delivery, Delivered, Ahead, Unseen, BridgeData
<1>p8. Ownership'
  BY <1>1, <1>2, <1>3, <1>5 DEF IInv, Ownership, Quitting, Outstanding, Requesting, Settled, Lost, Unseen, Working, WorkPcs, NoSignal, HostFailed, BridgeData
<1>p9. Failure'
  BY <1>1, <1>2, <1>3, <1>5 DEF IInv, Failure, Requesting, Lost, Unseen, WorkPcs, NoSignal, HostFailed, BridgeData
<1>p10. Product'
  BY <1>1, <1>2, <1>3, <1>5 DEF IInv, Product, Outstanding, Requesting, Preparing, Unseen, NoWork, Work, OutputReady, BridgeData
<1>p11. Configuration'
  BY <1>1, <1>2, <1>3, <1>5, <1>6 DEF IInv, Configuration, Quitting, Outstanding, Requesting, ConfigDue, ConfigPcs, Unnoticed, Settled, Unseen, Working, WorkPcs, BridgeData
<1>p12. TextureSets'
  BY <1>1, <1>2, <1>3, <1>5, <1>4, <1>7, <1>8, <1>9 DEF IInv, TextureSets, Outstanding, Requesting, Handed, Awaited, Unnoticed, HostFailed, BridgeData, GenNumbers, ConfigDue, ConfigPcs, Handles
<1>p13. Handles'
  BY <1>1, <1>2, <1>3, <1>5, <1>4, <1>7, <1>8, <1>9 DEF IInv, Handles, NoHandles, ConfigDue, ConfigPcs, Unnoticed, BridgeData, GenNumbers, TextureSets
<1> QED
  BY <1>p1, <1>p2, <1>p3, <1>p4, <1>p5, <1>p6, <1>p7, <1>p8, <1>p9, <1>p10, <1>p11, <1>p12, <1>p13 DEF IInv, WaitsWork


\* The configuration is through: the textures of both sides are the same.
LEMMA AwaitReadyExact ==
  ASSUME IInv, Bounded', AwaitReady, shared.state = "Ready", UNCHANGED host
  PROVE  IInv'
<1>1. bridge \in BridgeType /\ bridge.pc = "await"
  BY DEF IInv, Bounded, TypeOK, AwaitReady
<1>2. /\ bridge'.pc = "state" /\ bridge'.resourcesReady = TRUE
      /\ bridge'.generation = bridge.generation
      /\ bridge'.untransferred = bridge.untransferred
      /\ bridge'.present = bridge.present
      /\ bridge'.fenceValue = bridge.fenceValue
      /\ bridge'.pending = bridge.pending /\ bridge'.pendingOutput = bridge.pendingOutput
  BY <1>1 DEF AwaitReady, BridgeType, HostFailed
<1>3. UNCHANGED <<shared, event, alive, remote, fence, bridgeQ, hostQ, tex, screen, host>>
  BY DEF AwaitReady, ipcVars
<1>4. alive.host => ~ConfigDue
  BY <1>1 DEF IInv, Configuration, Quitting
<1>p1. Life'
  BY <1>1, <1>2, <1>3 DEF IInv, Life, Quitting
<1>p2. BridgeQueue'
  BY <1>1, <1>2, <1>3 DEF IInv, BridgeQueue, BridgeOp, SignalsInOrder, Outstanding, Requesting
<1>p3. HostQueue'
  BY <1>1, <1>2, <1>3 DEF IInv, HostQueue, Work
<1>p4. Frames'
  BY <1>1, <1>2, <1>3 DEF IInv, Frames, Unseen, Working, WorkPcs
<1>p5. Stamps'
  BY <1>1, <1>2, <1>3 DEF IInv, Stamps, Outstanding, Requesting, Quitting
<1>p6. Fences'
  BY <1>1, <1>2, <1>3 DEF IInv, Fences, Ahead, Begun, Unseen
<1>p7. Delivery'
  BY <1>1, <1>2, <1>3 DEF IInv, Delivery, Delivered, Ahead, Unseen
<1>p8. Ownership'
  BY <1>1, <1>2, <1>3 DEF IInv, Ownership, Quitting, Outstanding, Requesting, Settled, Lost, Unseen, Working, WorkPcs, NoSignal, HostFailed
<1>p9. Failure'
  BY <1>1, <1>2, <1>3 DEF IInv, Failure, Requesting, Lost, Unseen, WorkPcs, NoSignal, HostFailed
<1>p10. Product'
  BY <1>1, <1>2, <1>3 DEF IInv, Product, Outstanding, Requesting, Preparing, Unseen, NoWork, Work, OutputReady
<1>p11. Configuration'
  BY <1>1, <1>2, <1>3, <1>4 DEF IInv, Configuration, Quitting, Outstanding, Requesting, ConfigDue, ConfigPcs, Unnoticed, Settled, Unseen, Working, WorkPcs
<1>p12. TextureSets'
  BY <1>1, <1>2, <1>3, <1>4 DEF IInv, TextureSets, Outstanding, Requesting, Handed, Awaited, Unnoticed, HostFailed, ConfigDue, ConfigPcs
<1>p13. Handles'
  BY <1>1, <1>2, <1>3, <1>4 DEF IInv, Handles, NoHandles, ConfigDue, ConfigPcs, Unnoticed
<1> QED
  BY <1>p1, <1>p2, <1>p3, <1>p4, <1>p5, <1>p6, <1>p7, <1>p8, <1>p9, <1>p10, <1>p11, <1>p12, <1>p13 DEF IInv, WaitsWork


\* The fence values of the frame are stamped, around the inputs already queued.
LEMMA StampFencesExact ==
  ASSUME IInv, Bounded', StampFences, UNCHANGED host
  PROVE  IInv'
<1>1. bridge.pc = "stamp" /\ bridge'.pc = "number" /\ UNCHANGED BridgeData
  BY Moves DEF IInv, StampFences, BridgePcs
<1>2. UNCHANGED <<alive, remote, fence, bridgeQ, hostQ, tex, screen, host>>
      /\ event'.stop = event.stop
  BY DEF StampFences, gpuVars, IInv, Bounded, TypeOK, EventType
<1>3. /\ shared'.state = shared.state /\ shared'.frameSeq = shared.frameSeq
      /\ shared'.enqueuedSeq = shared.enqueuedSeq /\ shared'.completedSeq = shared.completedSeq
      /\ shared'.configGeneration = shared.configGeneration
      /\ shared'.resourceGeneration = shared.resourceGeneration
      /\ shared'.inputFence = bridge.fenceValue - 1 /\ shared'.outputFence = bridge.fenceValue
      /\ shared'.present = shared.present /\ shared'.handle = shared.handle
      /\ shared'.stopRequested = shared.stopRequested
  BY DEF IInv, Bounded, TypeOK, SharedType, StampFences
<1>4. FenceNumbers /\ bridge.fenceValue >= 1
  BY <1>1, Numeric DEF IInv, Bounded, CountersBounded
<1>5. bridge.pending = 0
  BY <1>1 DEF IInv, Stamps, Quitting
<1>6. alive.host => Settled
  BY <1>1, <1>5 DEF IInv, Ownership, Outstanding, Requesting, Quitting
<1>7. hostQ = <<>>
  BY <1>6 DEF IInv, Life, Settled
<1>p1. Life'
  BY <1>1, <1>2, <1>3, <1>4, <1>5, <1>6, <1>7 DEF IInv, Life, Quitting, BridgeData
<1>p2. BridgeQueue'
  BY <1>1, <1>2, <1>3, <1>4, <1>5, <1>6, <1>7 DEF IInv, BridgeQueue, BridgeOp, SignalsInOrder, Outstanding, Requesting, BridgeData
<1>p3. HostQueue'
  BY <1>1, <1>2, <1>3, <1>4, <1>5, <1>6, <1>7 DEF IInv, HostQueue, Work, BridgeData, FenceNumbers, Settled, Working, WorkPcs, Life
<1>p4. Frames'
  BY <1>1, <1>2, <1>3, <1>4, <1>5, <1>6, <1>7 DEF IInv, Frames, Unseen, Working, WorkPcs, BridgeData, FenceNumbers, Settled, Life
<1>p5. Stamps'
  BY <1>1, <1>2, <1>3, <1>4, <1>5, <1>6, <1>7 DEF IInv, Stamps, Outstanding, Requesting, Quitting, BridgeData, FenceNumbers, Settled, Working, WorkPcs, Life
<1>p6. Fences'
  BY <1>1, <1>2, <1>3, <1>4, <1>5, <1>6, <1>7 DEF IInv, Fences, Ahead, Begun, Unseen, BridgeData, FenceNumbers, Settled, Working, WorkPcs, Life
<1>p7. Delivery'
  BY <1>1, <1>2, <1>3, <1>4, <1>5, <1>6, <1>7 DEF IInv, Delivery, Delivered, Ahead, Unseen, BridgeData, FenceNumbers, Settled, Working, WorkPcs, Life
<1>p8. Ownership'
  BY <1>1, <1>2, <1>3, <1>4, <1>5, <1>6, <1>7 DEF IInv, Ownership, Quitting, Outstanding, Requesting, Settled, Lost, Unseen, Working, WorkPcs, NoSignal, HostFailed, BridgeData
<1>p9. Failure'
  BY <1>1, <1>2, <1>3, <1>4, <1>5, <1>6, <1>7 DEF IInv, Failure, Requesting, Lost, Unseen, WorkPcs, NoSignal, HostFailed, BridgeData
<1>p10. Product'
  BY <1>1, <1>2, <1>3, <1>4, <1>5, <1>6, <1>7 DEF IInv, Product, Outstanding, Requesting, Preparing, Unseen, NoWork, Work, OutputReady, BridgeData
<1>p11. Configuration'
  BY <1>1, <1>2, <1>3, <1>4, <1>5, <1>6, <1>7 DEF IInv, Configuration, Quitting, Outstanding, Requesting, ConfigDue, ConfigPcs, Unnoticed, Settled, Unseen, Working, WorkPcs, BridgeData
<1>p12. TextureSets'
  BY <1>1, <1>2, <1>3, <1>4, <1>5, <1>6, <1>7 DEF IInv, TextureSets, Outstanding, Requesting, Handed, Awaited, Unnoticed, HostFailed, BridgeData
<1>p13. Handles'
  BY <1>1, <1>2, <1>3, <1>4, <1>5, <1>6, <1>7 DEF IInv, Handles, NoHandles, ConfigDue, ConfigPcs, Unnoticed, BridgeData
<1> QED
  BY <1>p1, <1>p2, <1>p3, <1>p4, <1>p5, <1>p6, <1>p7, <1>p8, <1>p9, <1>p10, <1>p11, <1>p12, <1>p13 DEF IInv, WaitsWork


\* The frame is published: its inputs are queued and its fence values stamped.
LEMMA PublishFrameExact ==
  ASSUME IInv, Bounded', PublishFrame, UNCHANGED host
  PROVE  IInv'
<1>1. bridge.pc = "number" /\ bridge'.pc = "kick" /\ UNCHANGED BridgeData
  BY Moves DEF IInv, PublishFrame, BridgePcs
<1>2. UNCHANGED <<event, alive, remote, fence, bridgeQ, hostQ, tex, screen, host>>
  BY DEF PublishFrame, gpuVars
<1>3. /\ shared'.state = shared.state /\ shared'.frameSeq = shared.frameSeq + 1
      /\ shared'.enqueuedSeq = shared.enqueuedSeq /\ shared'.completedSeq = shared.completedSeq
      /\ shared'.configGeneration = shared.configGeneration
      /\ shared'.resourceGeneration = shared.resourceGeneration
      /\ shared'.inputFence = shared.inputFence /\ shared'.outputFence = shared.outputFence
      /\ shared'.present = shared.present /\ shared'.handle = shared.handle
      /\ shared'.stopRequested = shared.stopRequested
  BY DEF IInv, Bounded, TypeOK, SharedType, PublishFrame
<1>4. SeqNumbers /\ FenceNumbers /\ GenNumbers
  BY <1>1, Numeric DEF IInv
<1>5. bridge.pending = 0
  BY <1>1 DEF IInv, Stamps, Quitting
<1>6. alive.host => Settled /\ ~ConfigDue /\ ~HostFailed /\ Handed(bridge.generation)
  BY <1>1, <1>5 DEF IInv, Ownership, Outstanding, Requesting, Quitting, Configuration, Failure, TextureSets
<1>7. hostQ = <<>>
  BY <1>6 DEF IInv, Life, Settled
<1>8. fence < bridge.fenceValue
  BY <1>1 DEF IInv, BridgeQueue
<1>81. bridge.fenceValue = shared.outputFence
  BY <1>1 DEF IInv, Stamps
<1>82. shared.inputFence + 1 = shared.outputFence
  BY <1>1 DEF IInv, Stamps
<1>9. alive.host => Delivered(shared.inputFence, host.textures, shared.present)
  <2>1. alive.host => Delivered(bridge.fenceValue - 1, bridge.generation, shared.present)
    BY <1>1 DEF IInv, Delivery
  <2>2. bridge.fenceValue - 1 = shared.inputFence
    BY <1>4, <1>81, <1>82 DEF FenceNumbers
  <2>3. alive.host => bridge.generation = host.textures
    BY <1>6 DEF Handed
  <2> QED
    BY <2>1, <2>2, <2>3
<1>10. alive.host => host.pc \notin {"start", "open"}
  BY <1>1, <1>6 DEF IInv, Life, Quitting
<1>11. alive.host => host.frameSeen = shared.frameSeq /\ ~Working
  BY <1>6 DEF Settled, Unseen
<1>12. shared'.frameSeq # 0 /\ shared'.frameSeq # shared.frameSeq
  BY <1>3, <1>4 DEF SeqNumbers
<1>p1. Life'
  BY <1>1, <1>2, <1>3, <1>5, <1>10 DEF IInv, Life, Quitting, BridgeData
<1>p2. BridgeQueue'
  BY <1>1, <1>2, <1>3, <1>5 DEF IInv, BridgeQueue, BridgeOp, SignalsInOrder, Outstanding, Requesting, BridgeData
<1>p3. HostQueue'
  BY <1>1, <1>2, <1>3, <1>5, <1>4, <1>6, <1>7, <1>8, <1>81, <1>82, <1>11, <1>12 DEF IInv, HostQueue, Work, BridgeData, FenceNumbers, Settled, Working, WorkPcs, Life
<1>p4. Frames'
  BY <1>1, <1>2, <1>3, <1>5, <1>4, <1>7, <1>10, <1>11 DEF IInv, Frames, Unseen, Working, WorkPcs, BridgeData, SeqNumbers, Life
<1>p5. Stamps'
  BY <1>1, <1>2, <1>3, <1>5, <1>4, <1>6, <1>7, <1>8, <1>81, <1>82, <1>11, <1>12 DEF IInv, Stamps, Outstanding, Requesting, Quitting, BridgeData, FenceNumbers, Settled, Working, WorkPcs, Life
<1>p6. Fences'
  BY <1>1, <1>2, <1>3, <1>5, <1>4, <1>6, <1>7, <1>8, <1>81, <1>82, <1>11, <1>12 DEF IInv, Fences, Ahead, Begun, Unseen, BridgeData, FenceNumbers, Settled, Working, WorkPcs, Life
<1>p7. Delivery'
  BY <1>1, <1>2, <1>3, <1>5, <1>9 DEF IInv, Delivery, Delivered, Ahead, Unseen, BridgeData
<1>p8. Ownership'
  BY <1>1, <1>2, <1>3, <1>5, <1>4, <1>6, <1>7, <1>8, <1>81, <1>82, <1>11, <1>12 DEF IInv, Ownership, Quitting, Outstanding, Requesting, Settled, Lost, Unseen, Working, WorkPcs, NoSignal, HostFailed, BridgeData, FenceNumbers, Life
<1>p9. Failure'
  BY <1>1, <1>2, <1>3, <1>5, <1>6 DEF IInv, Failure, Requesting, Lost, Unseen, WorkPcs, NoSignal, HostFailed, BridgeData
<1>p10. Product'
  BY <1>1, <1>2, <1>3, <1>5, <1>4, <1>6, <1>7, <1>8, <1>81, <1>82, <1>11, <1>12 DEF IInv, Product, Outstanding, Requesting, Preparing, Unseen, NoWork, Work, OutputReady, BridgeData, FenceNumbers, Settled, Working, WorkPcs, Life
<1>p11. Configuration'
  BY <1>1, <1>2, <1>3, <1>5, <1>6 DEF IInv, Configuration, Quitting, Outstanding, Requesting, ConfigDue, ConfigPcs, Unnoticed, Settled, Unseen, Working, WorkPcs, BridgeData
<1>p12. TextureSets'
  BY <1>1, <1>2, <1>3, <1>5 DEF IInv, TextureSets, Outstanding, Requesting, Handed, Awaited, Unnoticed, HostFailed, BridgeData
<1>p13. Handles'
  BY <1>1, <1>2, <1>3, <1>5 DEF IInv, Handles, NoHandles, ConfigDue, ConfigPcs, Unnoticed, BridgeData
<1> QED
  BY <1>p1, <1>p2, <1>p3, <1>p4, <1>p5, <1>p6, <1>p7, <1>p8, <1>p9, <1>p10, <1>p11, <1>p12, <1>p13 DEF IInv, WaitsWork

\* The inputs of the frame and their signal are queued behind what is there.
LEMMA InputsQueued ==
  ASSUME IInv, Bounded', bridge.pc = "state", bridge'.pc = "stamp",
         AcceptsFrames, bridge'.fenceValue = bridge.fenceValue + 2,
         UNCHANGED <<bridge.present, bridge.resourcesReady, bridge.generation,
                     bridge.untransferred, bridge.pending, bridge.pendingOutput>>,
         bridgeQ' = bridgeQ \o <<Op("copyIn", bridge.present, bridge.generation),
                                 Op("signal", bridge.fenceValue + 1, bridge.generation)>>,
         UNCHANGED <<shared, event, alive, remote, fence, hostQ, tex, screen, host>>
  PROVE  IInv'
<1>1. FenceNumbers
  BY Numeric DEF IInv
<1>2. bridge.pending = 0 /\ shared.present = bridge.present
  BY DEF IInv, Stamps, Quitting, Product, Preparing
<1>3. bridgeQ \in Seq(Ops)
  BY DEF IInv, Bounded, TypeOK
<1> DEFINE copy == Op("copyIn", bridge.present, bridge.generation)
           signal == Op("signal", bridge.fenceValue + 1, bridge.generation)
<1>4. copy \in Ops /\ signal \in Ops
  <2>1. copy \in Ops
    BY DEF IInv, Bounded, TypeOK, BridgeType, Ops, Op
  <2>2. bridgeQ' \in Seq(Ops) /\ bridgeQ'[Len(bridgeQ')] = signal /\ Len(bridgeQ') \in Nat \ {0}
    BY <1>3 DEF Bounded, TypeOK
  <2> QED
    BY <2>1, <2>2
<1>5. copy.kind = "copyIn" /\ signal.kind = "signal" /\ signal.n = bridge.fenceValue + 1
  BY DEF Op
<1>6. bridgeQ' = bridgeQ \o <<copy, signal>>
  OBVIOUS
<1>61. copy = Op("copyIn", bridge.present, bridge.generation)
  OBVIOUS
<1> HIDE DEF copy, signal
<1>7. /\ Len(bridgeQ) \in Nat /\ Len(bridgeQ') = Len(bridgeQ) + 2
      /\ \A i \in 1..Len(bridgeQ) : bridgeQ'[i] = bridgeQ[i]
      /\ bridgeQ'[Len(bridgeQ) + 1] = copy /\ bridgeQ'[Len(bridgeQ) + 2] = signal
  BY <1>3, <1>4, <1>6
<1>8. bridgeQ' # <<>>
  BY <1>7
<1>9. alive.host => Settled
  BY <1>2 DEF IInv, Ownership, Outstanding, Requesting, Quitting
<1>10. alive.host => ~Ahead
  BY <1>9 DEF Settled, Ahead, Working, WorkPcs
<1>p1. Life'
  BY <1>1, <1>2 DEF IInv, Life, Quitting
<1>p2. BridgeQueue'
  <2>1. ASSUME NEW i \in 1..Len(bridgeQ') PROVE BridgeOp(i)'
    <3>1. CASE i \in 1..Len(bridgeQ)
      <4>1. bridgeQ[i].kind = "signal" => bridgeQ[i].n \in Nat
        BY <1>3, <3>1, SignalValue
      <4>2. BridgeOp(i) /\ bridgeQ'[i] = bridgeQ[i]
        BY <1>7, <3>1 DEF IInv, BridgeQueue
      <4>3. bridgeQ[i].kind = "signal" =>
              bridgeQ[i].n < bridge.fenceValue /\ bridgeQ[i].n < bridge.fenceValue + 2
        BY <1>1, <4>1, <4>2 DEF BridgeOp, FenceNumbers
      <4> QED
        BY <4>2, <4>3 DEF BridgeOp
    <3>2. CASE i = Len(bridgeQ) + 1
      BY <1>5, <1>7, <3>2 DEF BridgeOp
    <3>3. CASE i = Len(bridgeQ) + 2
      <4>1. fence <= bridge.fenceValue
        BY DEF IInv, BridgeQueue
      <4> QED
        BY <1>1, <1>5, <1>7, <3>3, <4>1 DEF BridgeOp, FenceNumbers
    <3> QED
      BY <1>7, <3>1, <3>2, <3>3
  <2>3. ASSUME NEW i \in 1..Len(bridgeQ'), NEW j \in 1..Len(bridgeQ')
        PROVE  SignalsInOrder(i, j)'
    <3>1. CASE j \in 1..Len(bridgeQ)
      BY <1>7, <3>1 DEF IInv, BridgeQueue, SignalsInOrder
    <3>2. CASE j = Len(bridgeQ) + 1
      BY <1>5, <1>7, <3>2 DEF SignalsInOrder
    <3>3. CASE j = Len(bridgeQ) + 2 /\ i \in 1..Len(bridgeQ)
      <4>1. bridgeQ[i].kind = "signal" => bridgeQ[i].n < bridge.fenceValue /\ bridgeQ[i].n \in Nat
        BY <1>3, <3>3, SignalValue DEF IInv, BridgeQueue, BridgeOp
      <4> QED
        BY <1>1, <1>5, <1>7, <3>3, <4>1 DEF SignalsInOrder, FenceNumbers
    <3>4. CASE j = Len(bridgeQ) + 2 /\ i \in {Len(bridgeQ) + 1, Len(bridgeQ) + 2}
      BY <1>5, <1>7, <3>4 DEF SignalsInOrder
    <3> QED
      BY <1>7, <3>1, <3>2, <3>3, <3>4
  <2>5. bridgeQ'[Len(bridgeQ')].kind = "signal"
        /\ bridgeQ'[Len(bridgeQ')].n = bridge'.fenceValue - 1
    BY <1>1, <1>5, <1>7 DEF FenceNumbers
  <2> QED
    BY <1>1, <2>1, <2>3, <2>5 DEF IInv, BridgeQueue, FenceNumbers
<1>p3. HostQueue'
  BY <1>1, <1>2 DEF IInv, HostQueue, Work
<1>p4. Frames'
  BY <1>1, <1>2 DEF IInv, Frames, Unseen, Working, WorkPcs
<1>p5. Stamps'
  BY <1>1, <1>2 DEF IInv, Stamps, Outstanding, Requesting, Quitting, FenceNumbers
<1>p6. Fences'
  BY <1>1, <1>2, <1>10 DEF IInv, Fences, Ahead, Begun, Unseen
<1>p7. Delivery'
  BY <1>1, <1>2, <1>5, <1>61, <1>7, <1>8, <1>10 DEF IInv, Delivery, Delivered, Ahead, Unseen, BridgeQueue, FenceNumbers
<1>p8. Ownership'
  BY <1>1, <1>2 DEF IInv, Ownership, Quitting, Outstanding, Requesting, Settled, Lost, Unseen, Working, WorkPcs, NoSignal, HostFailed
<1>p9. Failure'
  BY <1>1, <1>2 DEF IInv, Failure, Requesting, Lost, Unseen, WorkPcs, NoSignal, HostFailed, AcceptsFrames
<1>p10. Product'
  BY <1>1, <1>2 DEF IInv, Product, Outstanding, Requesting, Preparing, Unseen, NoWork, Work, OutputReady
<1>p11. Configuration'
  BY <1>1, <1>2 DEF IInv, Configuration, Quitting, Outstanding, Requesting, ConfigDue, ConfigPcs, Unnoticed, Settled, Unseen, Working, WorkPcs
<1>p12. TextureSets'
  BY <1>1, <1>2 DEF IInv, TextureSets, Outstanding, Requesting, Handed, Awaited, Unnoticed, HostFailed
<1>p13. Handles'
  BY <1>1, <1>2 DEF IInv, Handles, NoHandles, ConfigDue, ConfigPcs, Unnoticed
<1> QED
  BY <1>p1, <1>p2, <1>p3, <1>p4, <1>p5, <1>p6, <1>p7, <1>p8, <1>p9, <1>p10, <1>p11, <1>p12, <1>p13 DEF IInv, WaitsWork


\* The signal behind the inputs is refused: the copy stays queued, the values reserved.
LEMMA InputsStranded ==
  ASSUME IInv, Bounded', bridge.pc = "state", bridge'.pc = "idle",
         bridge'.fenceValue = bridge.fenceValue + 2,
         UNCHANGED <<bridge.present, bridge.resourcesReady, bridge.generation,
                     bridge.untransferred, bridge.pending, bridge.pendingOutput>>,
         bridgeQ' = Append(bridgeQ, Op("copyIn", bridge.present, bridge.generation)),
         UNCHANGED <<shared, event, alive, remote, fence, hostQ, tex, screen, host>>
  PROVE  IInv'
<1>1. FenceNumbers
  BY Numeric DEF IInv
<1>2. bridge.pending = 0
  BY DEF IInv, Stamps, Quitting
<1>3. bridgeQ \in Seq(Ops)
  BY DEF IInv, Bounded, TypeOK
<1> DEFINE copy == Op("copyIn", bridge.present, bridge.generation)
<1>4. copy.kind = "copyIn" /\ bridgeQ' = Append(bridgeQ, copy)
  BY DEF Op
<1> HIDE DEF copy
<1>5. /\ Len(bridgeQ) \in Nat /\ Len(bridgeQ') = Len(bridgeQ) + 1
      /\ \A i \in 1..Len(bridgeQ) : bridgeQ'[i] = bridgeQ[i]
      /\ bridgeQ'[Len(bridgeQ) + 1] = copy
  BY <1>3, <1>4
<1>6. alive.host => ~Ahead
  <2>1. alive.host => Settled
    BY <1>2 DEF IInv, Ownership, Outstanding, Requesting, Quitting
  <2> QED
    BY <2>1 DEF Settled, Ahead, Working, WorkPcs
<1>p1. Life'
  BY <1>1, <1>2 DEF IInv, Life, Quitting
<1>p2. BridgeQueue'
  <2>3. ASSUME NEW i \in 1..Len(bridgeQ') PROVE BridgeOp(i)'
    <3>1. CASE i \in 1..Len(bridgeQ)
      <4>1. bridgeQ[i].kind = "signal" => bridgeQ[i].n \in Nat
        BY <1>3, <3>1, SignalValue
      <4>2. BridgeOp(i) /\ bridgeQ'[i] = bridgeQ[i]
        BY <1>5, <3>1 DEF IInv, BridgeQueue
      <4> QED
        BY <1>1, <4>1, <4>2 DEF BridgeOp, FenceNumbers
    <3>2. CASE i = Len(bridgeQ) + 1
      BY <1>4, <1>5, <3>2 DEF BridgeOp
    <3> QED
      BY <1>5, <3>1, <3>2
  <2>4. \A i, j \in 1..Len(bridgeQ') : SignalsInOrder(i, j)'
    BY <1>4, <1>5 DEF IInv, BridgeQueue, SignalsInOrder
  <2> QED
    BY <1>1, <1>2, <2>3, <2>4 DEF IInv, BridgeQueue, Outstanding, Requesting, FenceNumbers
<1>p3. HostQueue'
  BY <1>1, <1>2 DEF IInv, HostQueue, Work
<1>p4. Frames'
  BY <1>1, <1>2 DEF IInv, Frames, Unseen, Working, WorkPcs
<1>p5. Stamps'
  BY <1>1, <1>2 DEF IInv, Stamps, Outstanding, Requesting, Quitting, FenceNumbers
<1>p6. Fences'
  BY <1>1, <1>2 DEF IInv, Fences, Ahead, Begun, Unseen
<1>p7. Delivery'
  BY <1>1, <1>2, <1>6 DEF IInv, Delivery, Delivered, Ahead, Unseen
<1>p8. Ownership'
  BY <1>1, <1>2 DEF IInv, Ownership, Quitting, Outstanding, Requesting, Settled, Lost, Unseen, Working, WorkPcs, NoSignal, HostFailed
<1>p9. Failure'
  BY <1>1, <1>2 DEF IInv, Failure, Requesting, Lost, Unseen, WorkPcs, NoSignal, HostFailed
<1>p10. Product'
  BY <1>1, <1>2 DEF IInv, Product, Outstanding, Requesting, Preparing, Unseen, NoWork, Work, OutputReady
<1>p11. Configuration'
  BY <1>1, <1>2 DEF IInv, Configuration, Quitting, Outstanding, Requesting, ConfigDue, ConfigPcs, Unnoticed, Settled, Unseen, Working, WorkPcs
<1>p12. TextureSets'
  BY <1>1, <1>2 DEF IInv, TextureSets, Outstanding, Requesting, Handed, Awaited, Unnoticed, HostFailed
<1>p13. Handles'
  BY <1>1, <1>2 DEF IInv, Handles, NoHandles, ConfigDue, ConfigPcs, Unnoticed
<1> QED
  BY <1>p1, <1>p2, <1>p3, <1>p4, <1>p5, <1>p6, <1>p7, <1>p8, <1>p9, <1>p10, <1>p11, <1>p12, <1>p13 DEF IInv, WaitsWork


\* The answer is composited: the queue is through with the inputs, the host with the frame.
LEMMA FinishExact ==
  ASSUME IInv, Bounded', Finish, UNCHANGED host
  PROVE  IInv'
<1>1. bridge.pc = "finish" /\ bridge'.pc = "idle" /\ UNCHANGED BridgeData
  <2>1. bridge \in BridgeType
    BY DEF IInv, Bounded, TypeOK
  <2> QED
    BY <2>1 DEF Finish, Evaluated, PassedThrough, BridgeType, BridgeData
<1>2. UNCHANGED <<shared, event, alive, remote, fence, hostQ, tex, screen, host>>
  BY DEF Finish
<1>3. bridgeQ \in Seq(Ops)
  BY DEF IInv, Bounded, TypeOK
<1>4. SeqNumbers /\ FenceNumbers
  BY Numeric DEF IInv
<1>5. /\ bridge.pending = 0 /\ alive.bridge
      /\ shared.present = bridge.present
      /\ tex[bridge.generation].output.frame = shared.present
      /\ shared.completedSeq = shared.frameSeq
  BY <1>1 DEF IInv, Stamps, Quitting, Life, Product, Requesting, Outstanding, OutputReady
<1>6. fence >= bridge.fenceValue
  BY <1>1 DEF IInv, Product, OutputReady
<1>7. shared.inputFence + 1 = shared.outputFence
  BY <1>1 DEF IInv, Stamps, Outstanding, Requesting
<1>8. shared.outputFence = bridge.fenceValue
  BY <1>1 DEF IInv, Stamps, Outstanding, Requesting
<1>9. bridgeQ = <<>>
  <2>1. bridgeQ = <<>> \/ (/\ bridgeQ[Len(bridgeQ)].kind = "signal"
                          /\ Len(bridgeQ) \in 1..Len(bridgeQ))
    BY <1>1, <1>3, <1>5 DEF IInv, BridgeQueue, Outstanding, Requesting
  <2> QED
    BY <1>3, <1>4, <1>6, <2>1, SignalValue DEF IInv, BridgeQueue, BridgeOp, FenceNumbers
<1>10. alive.host => ~Ahead /\ ~Unseen /\ ~Working /\ hostQ = <<>>
  <2>1. ~(fence <= shared.inputFence)
    BY <1>4, <1>6, <1>7, <1>8 DEF FenceNumbers
  <2> QED
    BY <1>4, <1>5, <2>1 DEF IInv, Frames, Fences, Ahead, SeqNumbers
<1> DEFINE copy == Op("copyOut", bridge.present, bridge.generation)
<1>11. copy.kind = "copyOut" /\ copy.n = tex[copy.gen].output.frame
  BY <1>5 DEF Op
<1>12. bridgeQ' = Append(bridgeQ, copy)
  BY DEF Finish
<1> HIDE DEF copy
<1>13. Len(bridgeQ') = 1 /\ bridgeQ'[1] = copy
  BY <1>9, <1>12
<1>p1. Life'
  BY <1>1, <1>2, <1>5 DEF IInv, Life, Quitting, BridgeData
<1>p2. BridgeQueue'
  BY <1>1, <1>2, <1>5, <1>11, <1>13 DEF IInv, BridgeQueue, BridgeOp, SignalsInOrder, Outstanding, Requesting, BridgeData
<1>p3. HostQueue'
  BY <1>1, <1>2, <1>5 DEF IInv, HostQueue, Work, BridgeData
<1>p4. Frames'
  BY <1>1, <1>2, <1>5 DEF IInv, Frames, Unseen, Working, WorkPcs, BridgeData
<1>p5. Stamps'
  BY <1>1, <1>2, <1>5 DEF IInv, Stamps, Outstanding, Requesting, Quitting, BridgeData
<1>p6. Fences'
  BY <1>1, <1>2, <1>5, <1>10 DEF IInv, Fences, Ahead, Begun, Unseen, BridgeData
<1>p7. Delivery'
  BY <1>1, <1>2, <1>5, <1>10 DEF IInv, Delivery, Delivered, Ahead, Unseen, BridgeData
<1>p8. Ownership'
  BY <1>1, <1>2, <1>5, <1>10 DEF IInv, Ownership, Quitting, Outstanding, Requesting, Settled, Lost, Unseen, Working, WorkPcs, NoSignal, HostFailed, BridgeData
<1>p9. Failure'
  BY <1>1, <1>2, <1>5 DEF IInv, Failure, Requesting, Lost, Unseen, WorkPcs, NoSignal, HostFailed, BridgeData
<1>p10. Product'
  BY <1>1, <1>2, <1>5 DEF IInv, Product, Outstanding, Requesting, Preparing, Unseen, NoWork, Work, OutputReady, BridgeData
<1>p11. Configuration'
  BY <1>1, <1>2, <1>5 DEF IInv, Configuration, Quitting, Outstanding, Requesting, ConfigDue, ConfigPcs, Unnoticed, Settled, Unseen, Working, WorkPcs, BridgeData
<1>p12. TextureSets'
  BY <1>1, <1>2, <1>5 DEF IInv, TextureSets, Outstanding, Requesting, Handed, Awaited, Unnoticed, HostFailed, BridgeData
<1>p13. Handles'
  BY <1>1, <1>2, <1>5 DEF IInv, Handles, NoHandles, ConfigDue, ConfigPcs, Unnoticed, BridgeData
<1> QED
  BY <1>p1, <1>p2, <1>p3, <1>p4, <1>p5, <1>p6, <1>p7, <1>p8, <1>p9, <1>p10, <1>p11, <1>p12, <1>p13 DEF IInv, WaitsWork


\* What the steps that only move a program counter leave alone.
LEMMA SameIfUnchanged ==
  ASSUME Bounded, UNCHANGED <<shared, alive, remote, fence, bridgeQ, hostQ, tex, screen, host>>,
         \/ UNCHANGED event
         \/ \E b \in BOOLEAN : event' = [event EXCEPT !.fence = b]
         \/ \E b \in BOOLEAN : event' = [event EXCEPT !.done = b]
         \/ \E b \in BOOLEAN : event' = [event EXCEPT !.frame = b]
  PROVE  SameSession
<1>1. event \in EventType
  BY DEF Bounded, TypeOK
<1> QED
  BY <1>1 DEF SameSession, EventType

\* Registering on the fence touches no event but the bridge's own.
LEMMA Registers ==
  ASSUME Bounded, NEW value, Register(value)
  PROVE  \E b \in BOOLEAN : event' = [event EXCEPT !.fence = b]
<1>1. (fence >= value) \in BOOLEAN
  OBVIOUS
<1> QED
  BY <1>1 DEF Register

\* A sleep of waitForExactOutput ends with the events alone changed.
LEMMA SleepsOnEvents ==
  ASSUME Bounded, NEW here, NEW polling, NEW missed, SleepOutput(here, polling, missed), WaitsWork,
         UNCHANGED host
  PROVE  /\ SameSession
         /\ bridge.pc = here
         /\ \/ bridge' = Goto(polling)
            \/ ~alive.host /\ bridge' = missed
<1>1. UNCHANGED <<shared, alive, remote, fence, bridgeQ, hostQ, tex, screen, host>>
  BY DEF SleepOutput, gpuVars
<1>2. \/ UNCHANGED event
      \/ \E b \in BOOLEAN : event' = [event EXCEPT !.fence = b]
      \/ \E b \in BOOLEAN : event' = [event EXCEPT !.done = b]
  BY DEF SleepOutput, WaitsWork
<1>3. SameSession
  BY <1>1, <1>2, SameIfUnchanged
<1> QED
  BY <1>3 DEF SleepOutput, WaitsWork

\* A poll of waitForExactOutput changes nothing but the bridge.
LEMMA Polls ==
  ASSUME Bounded, NEW here, NEW asleep, NEW seq, NEW value, NEW ready, NEW missed,
         PollOutput(here, asleep, seq, value, ready, missed), UNCHANGED host
  PROVE  /\ SameSession
         /\ bridge.pc = here
         /\ \/ OutputReady(seq, value) /\ bridge' = ready
            \/ ~OutputReady(seq, value) /\ bridge' = missed
            \/ ~OutputReady(seq, value) /\ bridge' = Goto(asleep)
<1>1. UNCHANGED <<shared, event, alive, remote, fence, bridgeQ, hostQ, tex, screen, host>>
  BY DEF PollOutput, ipcVars
<1>2. SameSession
  BY <1>1, SameIfUnchanged
<1> QED
  BY <1>2 DEF PollOutput

\* On entry: nothing older is outstanding, it is retired, or it is left alone.
LEMMA CheckPendingExact ==
  ASSUME IInv, Bounded', CheckPending, UNCHANGED host
  PROVE  IInv'
<1>1. Bounded /\ bridge.pc = "pending"
  BY DEF IInv, CheckPending
<1>2. SameSession
  <2>1. UNCHANGED <<shared, alive, remote, fence, bridgeQ, hostQ, tex, screen, host>>
    BY DEF CheckPending
  <2>2. \/ UNCHANGED event
        \/ \E b \in BOOLEAN : event' = [event EXCEPT !.fence = b]
        \/ \E b \in BOOLEAN : event' = [event EXCEPT !.done = b]
    BY <1>1, Registers DEF CheckPending
  <2> QED
    BY <1>1, <2>1, <2>2, SameIfUnchanged
<1>3. CASE bridge.pending = 0 /\ bridge' = Goto("fill")
  <2>1. bridge'.pc = "fill" /\ UNCHANGED BridgeData
    BY <1>1, <1>3, Moves DEF BridgePcs
  <2> QED
    BY <1>1, <1>2, <1>3, <2>1, GoingOn DEF GoesOn
<1>4. CASE bridge.pending # 0 /\ bridge' = Retired(bridge)
           /\ OutputReady(bridge.pending, bridge.pendingOutput)
  BY <1>1, <1>2, <1>4, RetiresExact
<1>5. CASE bridge.pending # 0 /\ bridge' = Goto("drain")
  <2>1. bridge'.pc = "drain" /\ UNCHANGED BridgeData
    BY <1>1, <1>5, Moves DEF BridgePcs
  <2> QED
    BY <1>1, <1>2, <1>5, <2>1, GoingOn DEF GoesOn, Draining
<1>6. CASE bridge.pending # 0 /\ bridge' = PassedThrough(bridge)
  <2>1. bridge'.pc = "idle" /\ UNCHANGED BridgeData
    BY <1>1, <1>6, PassesThrough
  <2> QED
    BY <1>1, <1>2, <2>1, GoingOn DEF GoesOn, Draining
<1> QED
  BY <1>3, <1>4, <1>5, <1>6 DEF CheckPending

\* Polling for the older request's output retires it, or changes nothing.
LEMMA PollDrainExact ==
  ASSUME IInv, Bounded', PollDrain, UNCHANGED host
  PROVE  IInv'
<1>1. Bounded /\ bridge.pc = "drain" /\ bridge.pending # 0
  BY DEF IInv, PollDrain, Stamps
<1>2. CASE OutputReady(bridge.pending, bridge.pendingOutput)
  <2>1. UNCHANGED <<shared, alive, remote, fence, bridgeQ, hostQ, tex, screen, host>>
        /\ event' = [event EXCEPT !.done = FALSE] /\ bridge' = Retired(bridge)
    BY <1>2 DEF PollDrain, gpuVars
  <2>2. SameSession
    BY <1>1, <2>1, SameIfUnchanged
  <2> QED
    BY <1>1, <1>2, <2>1, <2>2, RetiresExact
<1>3. CASE ~OutputReady(bridge.pending, bridge.pendingOutput)
  <2>1. PollOutput("drain", "drainSleep", bridge.pending, bridge.pendingOutput,
                   bridge, PassedThrough(bridge))
    BY <1>3 DEF PollDrain
  <2>2. SameSession /\ (bridge' = PassedThrough(bridge) \/ bridge' = Goto("drainSleep"))
    BY <1>1, <1>3, <2>1, Polls
  <2>3. (bridge'.pc = "idle" \/ bridge'.pc = "drainSleep") /\ UNCHANGED BridgeData
    BY <1>1, <2>2, Moves, PassesThrough DEF BridgePcs
  <2> QED
    BY <1>1, <2>2, <2>3, GoingOn DEF GoesOn, Draining
<1> QED
  BY <1>2, <1>3

\* A wakeup of the drain changes nothing but the point of the code.
LEMMA SleepDrainExact ==
  ASSUME IInv, Bounded', SleepDrain, UNCHANGED host
  PROVE  IInv'
<1>1. Bounded /\ WaitsWork
  BY DEF IInv
<1>2. SameSession /\ bridge.pc = "drainSleep"
      /\ (bridge' = Goto("drain") \/ bridge' = PassedThrough(bridge))
  BY <1>1, SleepsOnEvents DEF SleepDrain
<1>3. (bridge'.pc = "idle" \/ bridge'.pc = "drain") /\ UNCHANGED BridgeData
  BY <1>1, <1>2, Moves, PassesThrough DEF BridgePcs
<1>4. bridge.pending # 0
  BY <1>2 DEF IInv, Stamps
<1> QED
  BY <1>2, <1>3, <1>4, GoingOn DEF GoesOn, Draining

\* Waiting for the host to enqueue: on, asleep, or given up on a host that lost the frame.
LEMMA PollEnqueuedExact ==
  ASSUME IInv, Bounded', PollEnqueued, UNCHANGED host
  PROVE  IInv'
<1>1. Bounded /\ bridge.pc = "enqueue" /\ SeqNumbers
  BY Numeric DEF IInv, PollEnqueued
<1>2. SameSession
  <2>1. UNCHANGED <<shared, alive, remote, fence, bridgeQ, hostQ, tex, screen, host>>
    BY DEF PollEnqueued
  <2>2. \/ UNCHANGED event
        \/ \E b \in BOOLEAN : event' = [event EXCEPT !.fence = b]
    BY <1>1, Registers DEF PollEnqueued
  <2> QED
    BY <1>1, <2>1, <2>2, SameIfUnchanged
<1>3. CASE bridge' = Goto("output") \/ bridge' = Goto("enqueueSleep")
  <2>1. (bridge'.pc = "output" \/ bridge'.pc = "enqueueSleep") /\ UNCHANGED BridgeData
    BY <1>1, <1>3, Moves DEF BridgePcs
  <2> QED
    BY <1>1, <1>2, <2>1, GoingOn DEF GoesOn, Waiting
<1>4. CASE bridge' = Abandoned(bridge) /\ (HostFailed \/ ~alive.host)
           /\ ~(shared.enqueuedSeq >= shared.frameSeq)
  <2>1. shared.enqueuedSeq < shared.frameSeq
    BY <1>1, <1>4 DEF SeqNumbers
  <2> QED
    BY <1>1, <1>2, <1>4, <2>1, AbandonsExact
<1> QED
  BY <1>3, <1>4 DEF PollEnqueued

\* A wakeup of that wait, or the end of a host that is gone.
LEMMA SleepEnqueuedExact ==
  ASSUME IInv, Bounded', SleepEnqueued, UNCHANGED host
  PROVE  IInv'
<1>1. Bounded /\ bridge.pc = "enqueueSleep"
  BY DEF IInv, SleepEnqueued
<1>2. SameSession
  <2>1. UNCHANGED <<shared, alive, remote, fence, bridgeQ, hostQ, tex, screen, host>>
    BY DEF SleepEnqueued, gpuVars
  <2>2. \/ UNCHANGED event
        \/ \E b \in BOOLEAN : event' = [event EXCEPT !.done = b]
    BY DEF SleepEnqueued
  <2> QED
    BY <1>1, <2>1, <2>2, SameIfUnchanged
<1>3. CASE bridge' = Goto("enqueue")
  <2>1. bridge'.pc = "enqueue" /\ UNCHANGED BridgeData
    BY <1>1, <1>3, Moves DEF BridgePcs
  <2> QED
    BY <1>1, <1>2, <2>1, GoingOn DEF GoesOn, Waiting
<1>4. CASE bridge' = Abandoned(bridge) /\ ~alive.host
  BY <1>1, <1>2, <1>4, AbandonsExact
<1> QED
  BY <1>3, <1>4 DEF SleepEnqueued, IInv, WaitsWork

\* Polling for the output ends with it, with a request left behind, or in a sleep.
LEMMA PollCurrentExact ==
  ASSUME IInv, Bounded', PollCurrent, UNCHANGED host
  PROVE  IInv'
<1>1. Bounded
  BY DEF IInv
<1>2. /\ SameSession /\ bridge.pc = "output"
      /\ \/ OutputReady(shared.frameSeq, bridge.fenceValue) /\ bridge' = Goto("finish")
         \/ bridge' = LeftPending(bridge)
         \/ bridge' = Goto("outputSleep")
  BY <1>1, Polls DEF PollCurrent
<1>3. CASE bridge' = LeftPending(bridge)
  BY <1>2, <1>3, LeavesPendingExact DEF Waiting
<1>4. CASE bridge' = Goto("outputSleep")
  <2>1. bridge'.pc = "outputSleep" /\ UNCHANGED BridgeData
    BY <1>1, <1>4, Moves DEF BridgePcs
  <2> QED
    BY <1>2, <2>1, GoingOn DEF GoesOn, Waiting
<1>5. CASE OutputReady(shared.frameSeq, bridge.fenceValue) /\ bridge' = Goto("finish")
  <2>1. bridge'.pc = "finish" /\ UNCHANGED BridgeData
    BY <1>1, <1>5, Moves DEF BridgePcs
  <2> QED
    BY <1>2, <1>5, <2>1, GoingOn DEF GoesOn
<1> QED
  BY <1>2, <1>3, <1>4, <1>5

\* A wakeup of the output wait, or the end of a host that is gone.
LEMMA SleepCurrentExact ==
  ASSUME IInv, Bounded', SleepCurrent, UNCHANGED host
  PROVE  IInv'
<1>1. Bounded /\ WaitsWork
  BY DEF IInv
<1>2. SameSession /\ bridge.pc = "outputSleep"
      /\ (bridge' = Goto("output") \/ bridge' = LeftPending(bridge))
  BY <1>1, SleepsOnEvents DEF SleepCurrent
<1>3. CASE bridge' = LeftPending(bridge)
  BY <1>2, <1>3, LeavesPendingExact DEF Waiting
<1>4. CASE bridge' = Goto("output")
  <2>1. bridge'.pc = "output" /\ UNCHANGED BridgeData
    BY <1>1, <1>4, Moves DEF BridgePcs
  <2> QED
    BY <1>2, <2>1, GoingOn DEF GoesOn, Waiting
<1> QED
  BY <1>2, <1>3, <1>4

\* The host has announced itself, or the session is shut down.
LEMMA ConnectExact ==
  ASSUME IInv, Bounded', Connect, UNCHANGED host
  PROVE  IInv'
<1>1. Bounded /\ bridge.pc = "connect"
  BY DEF IInv, Connect
<1>2. CASE shared.state = "WaitingConfig" /\ bridge' = Goto("idle") /\ UNCHANGED <<shared, event>>
  <2>1. bridge'.pc = "idle" /\ UNCHANGED BridgeData
    BY <1>1, <1>2, Moves DEF BridgePcs
  <2>2. SameSession
    BY <1>1, <1>2, SameIfUnchanged DEF Connect, gpuVars
  <2> QED
    BY <1>1, <1>2, <2>1, <2>2, GoingOn DEF GoesOn
<1>3. CASE bridge' = Goto("closing") /\ shared' = [shared EXCEPT !.stopRequested = TRUE]
  BY <1>1, <1>3, AsksToStopExact DEF Connect
<1> QED
  BY <1>2, <1>3 DEF Connect

\* The bridge quits: the host may be stopped from now on.
LEMMA ShutdownExact ==
  ASSUME IInv, Bounded', Shutdown, UNCHANGED host
  PROVE  IInv'
BY AsksToStopExact DEF Shutdown

\* An expired wait gives the call up, leaving a published request behind.
LEMMA TimeOutExact ==
  ASSUME IInv, Bounded', TimeOut, UNCHANGED host
  PROVE  IInv'
<1>1. Bounded /\ UNCHANGED <<alive, remote, fence, bridgeQ, hostQ, tex, screen, host>>
  BY DEF IInv, TimeOut, gpuVars
<1>2. UNCHANGED <<shared, event>> => SameSession
  BY <1>1, SameIfUnchanged
<1>3. CASE bridge.pc \in {"drain", "await"} /\ bridge' = PassedThrough(bridge)
           /\ UNCHANGED <<shared, event>>
  <2>1. bridge'.pc = "idle" /\ UNCHANGED BridgeData
    BY <1>1, <1>3, PassesThrough
  <2> QED
    BY <1>2, <1>3, <2>1, GoingOn DEF GoesOn, Draining
<1>4. CASE bridge.pc \in {"enqueue", "enqueueSleep", "output"} /\ bridge' = LeftPending(bridge)
           /\ UNCHANGED <<shared, event>>
  BY <1>2, <1>4, LeavesPendingExact DEF Waiting
<1>5. CASE bridge.pc = "drainSleep" /\ bridge' = Goto("drain") /\ UNCHANGED <<shared, event>>
  <2>1. bridge'.pc = "drain" /\ UNCHANGED BridgeData
    BY <1>1, <1>5, Moves DEF BridgePcs
  <2>2. bridge.pending # 0
    BY <1>5 DEF IInv, Stamps
  <2> QED
    BY <1>2, <1>5, <2>1, <2>2, GoingOn DEF GoesOn, Draining
<1>6. CASE bridge.pc = "outputSleep" /\ bridge' = Goto("output") /\ UNCHANGED <<shared, event>>
  <2>1. bridge'.pc = "output" /\ UNCHANGED BridgeData
    BY <1>1, <1>6, Moves DEF BridgePcs
  <2> QED
    BY <1>2, <1>6, <2>1, GoingOn DEF GoesOn, Waiting
<1>7. CASE bridge.pc = "connect" /\ bridge' = Goto("closing")
           /\ shared' = [shared EXCEPT !.stopRequested = TRUE]
  BY <1>7, AsksToStopExact DEF TimeOut
<1> QED
  BY <1>3, <1>4, <1>5, <1>6, <1>7 DEF TimeOut

\* Nothing to configure, a feature to rebuild, or a new generation of textures.
LEMMA EnsureStepExact ==
  ASSUME IInv, Bounded', Ensure, UNCHANGED host
  PROVE  IInv'
<1>1. CASE bridge.resourcesReady /\ bridge.width = bridge.call.size
  <2>1. Bounded /\ bridge.pc = "ensure"
        /\ UNCHANGED <<shared, event, alive, remote, fence, bridgeQ, hostQ, tex, screen, host>>
        /\ (bridge' = Goto("publish") \/ bridge' = Goto("state"))
    BY <1>1 DEF IInv, Ensure, gpuVars
  <2>2. (bridge'.pc = "publish" \/ bridge'.pc = "state") /\ UNCHANGED BridgeData
    BY <2>1, Moves DEF BridgePcs
  <2>3. SameSession
    BY <2>1, SameIfUnchanged
  <2> QED
    BY <1>1, <2>1, <2>2, <2>3, GoingOn DEF GoesOn
<1>2. CASE ~(bridge.resourcesReady /\ bridge.width = bridge.call.size)
  BY <1>2, EnsureExact
<1> QED
  BY <1>1, <1>2

\* The wake after a configuration changes an event only.
LEMMA WakeHostExact ==
  ASSUME IInv, Bounded', WakeHost, UNCHANGED host
  PROVE  IInv'
<1>1. Bounded /\ bridge.pc = "wake"
      /\ UNCHANGED <<shared, alive, remote, fence, bridgeQ, hostQ, tex, screen, host>>
      /\ event' = [event EXCEPT !.frame = TRUE] /\ bridge' = Goto("await")
  BY DEF IInv, WakeHost, gpuVars
<1>2. bridge'.pc = "await" /\ UNCHANGED BridgeData
  BY <1>1, Moves DEF BridgePcs
<1>3. SameSession
  BY <1>1, SameIfUnchanged
<1> QED
  BY <1>1, <1>2, <1>3, GoingOn DEF GoesOn

\* The wake after a frame changes an event only.
LEMMA KickHostExact ==
  ASSUME IInv, Bounded', KickHost, UNCHANGED host
  PROVE  IInv'
<1>1. Bounded /\ bridge.pc = "kick"
      /\ UNCHANGED <<shared, alive, remote, fence, bridgeQ, hostQ, tex, screen, host>>
      /\ event' = [event EXCEPT !.frame = TRUE] /\ bridge' = Goto("enqueue")
  BY DEF IInv, KickHost, gpuVars
<1>2. bridge'.pc = "enqueue" /\ UNCHANGED BridgeData
  BY <1>1, Moves DEF BridgePcs
<1>3. SameSession
  BY <1>1, SameIfUnchanged
<1> QED
  BY <1>1, <1>2, <1>3, GoingOn DEF GoesOn, Waiting

\* A host that is Ready has the textures of the configuration; else the call ends.
LEMMA AwaitReadyStepExact ==
  ASSUME IInv, Bounded', AwaitReady, UNCHANGED host
  PROVE  IInv'
<1>1. CASE shared.state = "Ready"
  BY <1>1, AwaitReadyExact
<1>2. CASE shared.state # "Ready"
  <2>1. Bounded /\ bridge.pc = "await" /\ bridge' = PassedThrough(bridge)
        /\ UNCHANGED <<shared, event, alive, remote, fence, bridgeQ, hostQ, tex, screen, host>>
    BY <1>2 DEF IInv, AwaitReady, ipcVars
  <2>2. bridge'.pc = "idle" /\ UNCHANGED BridgeData
    BY <2>1, PassesThrough
  <2>3. SameSession
    BY <2>1, SameIfUnchanged
  <2> QED
    BY <2>1, <2>2, <2>3, GoingOn DEF GoesOn
<1> QED
  BY <1>1, <1>2

\* The inputs go to the queue, or the call ends with two fence values spent.
LEMMA SubmitInputsExact ==
  ASSUME IInv, Bounded', SubmitInputs, UNCHANGED host
  PROVE  IInv'
<1>1. /\ bridge \in BridgeType /\ bridge.pc = "state" /\ Bounded
      /\ UNCHANGED <<shared, event, alive, remote, fence, hostQ, tex, screen, host>>
  BY DEF IInv, Bounded, TypeOK, SubmitInputs
<1>2. CASE ~AcceptsFrames
  <2>1. bridge' = PassedThrough(bridge) /\ UNCHANGED bridgeQ
    BY <1>2 DEF SubmitInputs
  <2>2. bridge'.pc = "idle" /\ UNCHANGED BridgeData
    BY <1>1, <2>1, PassesThrough
  <2>3. SameSession
    BY <1>1, <2>1, SameIfUnchanged
  <2> QED
    BY <1>1, <2>2, <2>3, GoingOn DEF GoesOn
<1>3. CASE /\ AcceptsFrames
           /\ bridgeQ' = bridgeQ \o
                <<Op("copyIn", bridge.present, bridge.generation),
                  Op("signal", bridge.fenceValue + 1, bridge.generation)>>
           /\ bridge' = [[bridge EXCEPT !.fenceValue = @ + 2] EXCEPT !.pc = "stamp"]
  <2>1. /\ bridge'.pc = "stamp" /\ bridge'.fenceValue = bridge.fenceValue + 2
        /\ UNCHANGED <<bridge.present, bridge.resourcesReady, bridge.generation,
                       bridge.untransferred, bridge.pending, bridge.pendingOutput>>
    BY <1>1, <1>3 DEF BridgeType
  <2> QED
    BY <1>1, <1>3, <2>1, InputsQueued
<1>4. CASE /\ bridgeQ' = Append(bridgeQ, Op("copyIn", bridge.present, bridge.generation))
           /\ bridge' = PassedThrough([bridge EXCEPT !.fenceValue = @ + 2])
  <2>1. /\ bridge'.pc = "idle" /\ bridge'.fenceValue = bridge.fenceValue + 2
        /\ UNCHANGED <<bridge.present, bridge.resourcesReady, bridge.generation,
                       bridge.untransferred, bridge.pending, bridge.pendingOutput>>
    BY <1>1, <1>4 DEF BridgeType, PassedThrough
  <2> QED
    BY <1>1, <1>4, <2>1, InputsStranded
<1> QED
  BY <1>2, <1>3, <1>4 DEF SubmitInputs

\* Every step of the presenting thread preserves the invariant.
LEMMA BridgeKeepsExact == IInv /\ Bounded' /\ BridgeNext => IInv'
<1> SUFFICES ASSUME IInv, Bounded', BridgeNext PROVE IInv'
  OBVIOUS
<1>1. UNCHANGED host
  BY DEF BridgeNext
<1>2. ASSUME Presents PROVE IInv'
  BY <1>1, <1>2, PresentExact DEF Presents
<1>3. ASSUME NEW t \in Textures, Transfer(t) PROVE IInv'
  BY <1>1, <1>3, TransferExact
<1> QED
  BY <1>1, <1>2, <1>3, ConnectExact, CheckPendingExact, PollDrainExact, SleepDrainExact, FillExact,
     EnsureStepExact, TransferFailsExact, PublishConfiguringExact,
     BumpGenerationsExact, WakeHostExact, AwaitReadyStepExact, SubmitInputsExact,
     StampFencesExact, PublishFrameExact, KickHostExact, PollEnqueuedExact,
     SleepEnqueuedExact, PollCurrentExact, SleepCurrentExact, FinishExact,
     CloseExact, TimeOutExact, ShutdownExact, BridgeCrashExact
     DEF BridgeNext, BridgeSteps

\* What of the host the invariant is about, its program counter apart.
HostData ==
  <<host.configSeen, host.frameSeen, host.imported, host.unopened, host.next,
    host.textures, host.seq, host.output>>

\* A host step that only moves the program counter.
LEMMA HostMoves ==
  ASSUME Bounded, NEW pc \in HostPcs, host' = HostGoto(pc)
  PROVE  host'.pc = pc /\ UNCHANGED HostData
<1>1. host \in HostType
  BY DEF Bounded, TypeOK
<1> QED
  BY <1>1 DEF HostType, HostData

\* Where the host may go without changing anything the invariant is about.
HostGoesOn ==
  \/ host.pc = "start" /\ host'.pc = "open"
  \/ host.pc = "wait" /\ host'.pc = "check"
  \/ host.pc = "wait" /\ host'.pc = "shutdown" /\ Quitting
  \/ host.pc = "check" /\ host'.pc = "frame"
  \/ host.pc = "frame" /\ host'.pc = "wait"
  \/ host.pc = "enqueuedEvent" /\ host'.pc = "result"
  \/ host.pc = "completeEvent" /\ host'.pc = "wait"
  \/ host.pc = "feature" /\ host'.pc = "configFailed"

\* The host goes on.
LEMMA HostGoingOn ==
  ASSUME IInv, Bounded', UNCHANGED HostData, HostGoesOn, event'.stop = event.stop,
         UNCHANGED <<bridge, shared, alive, remote, fence, bridgeQ, hostQ, tex, screen>>
  PROVE  IInv'
<1> USE DEF HostGoesOn, HostData
<1>p1. Life'
  BY DEF IInv, Life, Quitting
<1>p2. BridgeQueue'
  BY DEF IInv, BridgeQueue, BridgeOp, SignalsInOrder, Outstanding, Requesting, Quitting
<1>p3. HostQueue'
  BY DEF IInv, HostQueue, Work, Quitting
<1>p4. Frames'
  BY DEF IInv, Frames, Unseen, Working, WorkPcs, Quitting
<1>p5. Stamps'
  BY DEF IInv, Stamps, Outstanding, Requesting, Quitting
<1>p6. Fences'
  BY DEF IInv, Fences, Ahead, Begun, Unseen, Quitting
<1>p7. Delivery'
  BY DEF IInv, Delivery, Delivered, Ahead, Unseen, Quitting
<1>p8. Ownership'
  BY DEF IInv, Ownership, Quitting, Outstanding, Requesting, Settled, Lost, Unseen, Working, WorkPcs, NoSignal, HostFailed
<1>p9. Failure'
  BY DEF IInv, Failure, Requesting, Lost, Unseen, WorkPcs, NoSignal, HostFailed, Quitting
<1>p10. Product'
  BY DEF IInv, Product, Outstanding, Requesting, Preparing, Unseen, NoWork, Work, OutputReady, Quitting
<1>p11. Configuration'
  BY DEF IInv, Configuration, Quitting, Outstanding, Requesting, ConfigDue, ConfigPcs, Unnoticed, Settled, Unseen, Working, WorkPcs
<1>p12. TextureSets'
  BY DEF IInv, TextureSets, Outstanding, Requesting, Handed, Awaited, Unnoticed, HostFailed, Quitting
<1>p13. Handles'
  BY DEF IInv, Handles, NoHandles, ConfigDue, ConfigPcs, Unnoticed, Quitting
<1> QED
  BY <1>p1, <1>p2, <1>p3, <1>p4, <1>p5, <1>p6, <1>p7, <1>p8, <1>p9, <1>p10, <1>p11, <1>p12, <1>p13 DEF IInv, WaitsWork


\* The host opens the mapping.
LEMMA OpenMappingExact ==
  ASSUME IInv, Bounded', OpenMapping, UNCHANGED bridge
  PROVE  IInv'
<1>1. /\ Bounded /\ host.pc = "start"
      /\ UNCHANGED <<bridge, shared, event, alive, remote, fence, bridgeQ, hostQ, tex, screen>>
  BY DEF IInv, OpenMapping, ipcVars
<1>2. host'.pc = "open" /\ UNCHANGED HostData
  BY <1>1, HostMoves DEF OpenMapping, HostPcs
<1> QED
  BY <1>1, <1>2, HostGoingOn DEF HostGoesOn

\* The host announces itself; the bridge is still connecting.
LEMMA OpenBridgeExact ==
  ASSUME IInv, Bounded', OpenBridge, UNCHANGED bridge
  PROVE  IInv'
<1>1. host.pc = "open" /\ host'.pc = "wait" /\ UNCHANGED HostData
  <2>1. host \in HostType
    BY DEF IInv, Bounded, TypeOK
  <2> QED
    BY <2>1 DEF OpenBridge, HostType, HostData
<1>2. UNCHANGED <<event, alive, remote, fence, bridgeQ, hostQ, tex, screen, bridge>>
  BY DEF OpenBridge, gpuVars
<1>3. /\ shared'.state = "WaitingConfig" /\ shared'.frameSeq = shared.frameSeq
      /\ shared'.enqueuedSeq = shared.enqueuedSeq /\ shared'.completedSeq = shared.completedSeq
      /\ shared'.configGeneration = shared.configGeneration
      /\ shared'.resourceGeneration = shared.resourceGeneration
      /\ shared'.inputFence = shared.inputFence /\ shared'.outputFence = shared.outputFence
      /\ shared'.present = shared.present /\ shared'.handle = shared.handle
      /\ shared'.stopRequested = shared.stopRequested
  BY DEF IInv, Bounded, TypeOK, SharedType, OpenBridge
<1>4. alive.host /\ (Quitting \/ bridge.pc = "connect")
  BY <1>1 DEF IInv, Life
<1>5. bridge.pending # 0 => Quitting
  BY <1>4 DEF IInv, Stamps
<1>p1. Life'
  BY <1>1, <1>2, <1>3, <1>4, <1>5 DEF IInv, Life, Quitting, HostData
<1>p2. BridgeQueue'
  BY <1>1, <1>2, <1>3, <1>4, <1>5 DEF IInv, BridgeQueue, BridgeOp, SignalsInOrder, Outstanding, Requesting, HostData
<1>p3. HostQueue'
  BY <1>1, <1>2, <1>3, <1>4, <1>5 DEF IInv, HostQueue, Work, HostData
<1>p4. Frames'
  BY <1>1, <1>2, <1>3, <1>4, <1>5 DEF IInv, Frames, Unseen, Working, WorkPcs, HostData
<1>p5. Stamps'
  BY <1>1, <1>2, <1>3, <1>4, <1>5 DEF IInv, Stamps, Outstanding, Requesting, Quitting, HostData
<1>p6. Fences'
  BY <1>1, <1>2, <1>3, <1>4, <1>5 DEF IInv, Fences, Ahead, Begun, Unseen, HostData
<1>p7. Delivery'
  BY <1>1, <1>2, <1>3, <1>4, <1>5 DEF IInv, Delivery, Delivered, Ahead, Unseen, HostData
<1>p8. Ownership'
  BY <1>1, <1>2, <1>3, <1>4, <1>5 DEF IInv, Ownership, Quitting, Outstanding, Requesting, Settled, Lost, Unseen, Working, WorkPcs, NoSignal, HostFailed, HostData
<1>p9. Failure'
  BY <1>1, <1>2, <1>3, <1>4, <1>5 DEF IInv, Failure, Requesting, Lost, Unseen, WorkPcs, NoSignal, HostFailed, HostData
<1>p10. Product'
  BY <1>1, <1>2, <1>3, <1>4, <1>5 DEF IInv, Product, Outstanding, Requesting, Preparing, Unseen, NoWork, Work, OutputReady, HostData
<1>p11. Configuration'
  BY <1>1, <1>2, <1>3, <1>4, <1>5 DEF IInv, Configuration, Quitting, Outstanding, Requesting, ConfigDue, ConfigPcs, Unnoticed, Settled, Unseen, Working, WorkPcs, HostData
<1>p12. TextureSets'
  BY <1>1, <1>2, <1>3, <1>4, <1>5 DEF IInv, TextureSets, Outstanding, Requesting, Handed, Awaited, Unnoticed, HostFailed, HostData, Quitting
<1>p13. Handles'
  BY <1>1, <1>2, <1>3, <1>4, <1>5 DEF IInv, Handles, NoHandles, ConfigDue, ConfigPcs, Unnoticed, HostData
<1> QED
  BY <1>p1, <1>p2, <1>p3, <1>p4, <1>p5, <1>p6, <1>p7, <1>p8, <1>p9, <1>p10, <1>p11, <1>p12, <1>p13 DEF IInv, WaitsWork


\* The host notices a configuration.
LEMMA NoticeExact ==
  ASSUME IInv, Bounded', CheckGeneration, shared.configGeneration # host.configSeen, UNCHANGED bridge
  PROVE  IInv'
<1>1. host \in HostType /\ host.pc = "check" /\ alive.host
  BY DEF IInv, Bounded, TypeOK, CheckGeneration, Life
<1>2. /\ host'.pc = "configure" /\ host'.configSeen = shared.configGeneration
      /\ host'.frameSeen = host.frameSeen /\ host'.imported = host.imported
      /\ host'.unopened = host.unopened /\ host'.next = host.next
      /\ host'.textures = host.textures /\ host'.seq = host.seq
      /\ host'.output = host.output
  BY <1>1 DEF CheckGeneration, HostType
<1>3. UNCHANGED <<shared, event, alive, remote, fence, bridgeQ, hostQ, tex, screen, bridge>>
  BY DEF CheckGeneration, ipcVars
<1>p1. Life'
  BY <1>1, <1>2, <1>3 DEF IInv, Life, Quitting
<1>p2. BridgeQueue'
  BY <1>1, <1>2, <1>3 DEF IInv, BridgeQueue, BridgeOp, SignalsInOrder, Outstanding, Requesting
<1>p3. HostQueue'
  BY <1>1, <1>2, <1>3 DEF IInv, HostQueue, Work
<1>p4. Frames'
  BY <1>1, <1>2, <1>3 DEF IInv, Frames, Unseen, Working, WorkPcs
<1>p5. Stamps'
  BY <1>1, <1>2, <1>3 DEF IInv, Stamps, Outstanding, Requesting, Quitting
<1>p6. Fences'
  BY <1>1, <1>2, <1>3 DEF IInv, Fences, Ahead, Begun, Unseen
<1>p7. Delivery'
  BY <1>1, <1>2, <1>3 DEF IInv, Delivery, Delivered, Ahead, Unseen
<1>p8. Ownership'
  BY <1>1, <1>2, <1>3 DEF IInv, Ownership, Quitting, Outstanding, Requesting, Settled, Lost, Unseen, Working, WorkPcs, NoSignal, HostFailed
<1>p9. Failure'
  BY <1>1, <1>2, <1>3 DEF IInv, Failure, Requesting, Lost, Unseen, WorkPcs, NoSignal, HostFailed
<1>p10. Product'
  BY <1>1, <1>2, <1>3 DEF IInv, Product, Outstanding, Requesting, Preparing, Unseen, NoWork, Work, OutputReady
<1>p11. Configuration'
  BY <1>1, <1>2, <1>3 DEF IInv, Configuration, Quitting, Outstanding, Requesting, ConfigDue, ConfigPcs, Unnoticed, Settled, Unseen, Working, WorkPcs
<1>p12. TextureSets'
  BY <1>1, <1>2, <1>3 DEF IInv, TextureSets, Outstanding, Requesting, Handed, Awaited, Unnoticed, HostFailed
<1>p13. Handles'
  BY <1>1, <1>2, <1>3 DEF IInv, Handles, NoHandles, ConfigDue, ConfigPcs, Unnoticed
<1> QED
  BY <1>p1, <1>p2, <1>p3, <1>p4, <1>p5, <1>p6, <1>p7, <1>p8, <1>p9, <1>p10, <1>p11, <1>p12, <1>p13 DEF IInv, WaitsWork


\* The host repeats that it is configuring.
LEMMA BeginConfigureExact ==
  ASSUME IInv, Bounded', BeginConfigure, UNCHANGED bridge
  PROVE  IInv'
<1>1. host.pc = "configure" /\ host'.pc = "retire" /\ UNCHANGED HostData
  BY HostMoves DEF IInv, BeginConfigure, HostPcs
<1>2. UNCHANGED <<event, alive, remote, fence, bridgeQ, hostQ, tex, screen, bridge>>
  BY DEF BeginConfigure, gpuVars
<1>3. /\ shared'.state = "Configuring" /\ shared'.frameSeq = shared.frameSeq
      /\ shared'.enqueuedSeq = shared.enqueuedSeq /\ shared'.completedSeq = shared.completedSeq
      /\ shared'.configGeneration = shared.configGeneration
      /\ shared'.resourceGeneration = shared.resourceGeneration
      /\ shared'.inputFence = shared.inputFence /\ shared'.outputFence = shared.outputFence
      /\ shared'.present = shared.present /\ shared'.handle = shared.handle
      /\ shared'.stopRequested = shared.stopRequested
  BY DEF IInv, Bounded, TypeOK, SharedType, BeginConfigure
<1>4. alive.host /\ ConfigDue
  BY <1>1 DEF IInv, Life, ConfigDue, ConfigPcs
<1>5. ~Outstanding /\ Settled /\ (Quitting \/ bridge.pc \in {"wake", "await", "idle"})
  BY <1>4 DEF IInv, Configuration
<1>p1. Life'
  BY <1>1, <1>2, <1>3, <1>4, <1>5 DEF IInv, Life, Quitting, HostData
<1>p2. BridgeQueue'
  BY <1>1, <1>2, <1>3, <1>4, <1>5 DEF IInv, BridgeQueue, BridgeOp, SignalsInOrder, Outstanding, Requesting, HostData
<1>p3. HostQueue'
  BY <1>1, <1>2, <1>3, <1>4, <1>5 DEF IInv, HostQueue, Work, HostData
<1>p4. Frames'
  BY <1>1, <1>2, <1>3, <1>4, <1>5 DEF IInv, Frames, Unseen, Working, WorkPcs, HostData
<1>p5. Stamps'
  BY <1>1, <1>2, <1>3, <1>4, <1>5 DEF IInv, Stamps, Outstanding, Requesting, Quitting, HostData
<1>p6. Fences'
  BY <1>1, <1>2, <1>3, <1>4, <1>5 DEF IInv, Fences, Ahead, Begun, Unseen, HostData
<1>p7. Delivery'
  BY <1>1, <1>2, <1>3, <1>4, <1>5 DEF IInv, Delivery, Delivered, Ahead, Unseen, HostData
<1>p8. Ownership'
  BY <1>1, <1>2, <1>3, <1>4, <1>5 DEF IInv, Ownership, Quitting, Outstanding, Requesting, Settled, Lost, Unseen, Working, WorkPcs, NoSignal, HostFailed, HostData
<1>p9. Failure'
  BY <1>1, <1>2, <1>3, <1>4, <1>5 DEF IInv, Failure, Requesting, Lost, Unseen, WorkPcs, NoSignal, HostFailed, HostData, Outstanding, Quitting
<1>p10. Product'
  BY <1>1, <1>2, <1>3, <1>4, <1>5 DEF IInv, Product, Outstanding, Requesting, Preparing, Unseen, NoWork, Work, OutputReady, HostData
<1>p11. Configuration'
  BY <1>1, <1>2, <1>3, <1>4, <1>5 DEF IInv, Configuration, Quitting, Outstanding, Requesting, ConfigDue, ConfigPcs, Unnoticed, Settled, Unseen, Working, WorkPcs, HostData
<1>p12. TextureSets'
  BY <1>1, <1>2, <1>3, <1>4, <1>5 DEF IInv, TextureSets, Outstanding, Requesting, Handed, Awaited, Unnoticed, HostFailed, HostData, Quitting
<1>p13. Handles'
  BY <1>1, <1>2, <1>3, <1>4, <1>5 DEF IInv, Handles, NoHandles, ConfigDue, ConfigPcs, Unnoticed, HostData
<1> QED
  BY <1>p1, <1>p2, <1>p3, <1>p4, <1>p5, <1>p6, <1>p7, <1>p8, <1>p9, <1>p10, <1>p11, <1>p12, <1>p13 DEF IInv, WaitsWork


\* Every texture is to be opened again if the bridge has new ones.
LEMMA RetireQueueExact ==
  ASSUME IInv, Bounded', RetireQueue, UNCHANGED bridge
  PROVE  IInv'
<1>1. host \in HostType /\ host.pc = "retire" /\ alive.host
  BY DEF IInv, Bounded, TypeOK, RetireQueue, Life
<1>2. /\ host'.pc = "import" /\ host'.configSeen = host.configSeen
      /\ host'.frameSeen = host.frameSeen /\ host'.imported = host.imported
      /\ host'.next = host.next
      /\ host'.textures = host.textures /\ host'.seq = host.seq
      /\ host'.output = host.output
      /\ \A t \in Textures : t \in host'.unopened <=> host.imported # shared.resourceGeneration
  BY <1>1, FenceFieldAssumption DEF RetireQueue, HostType, Fields
<1>3. UNCHANGED <<shared, event, alive, remote, fence, bridgeQ, hostQ, tex, screen, bridge>>
  BY DEF RetireQueue, ipcVars
<1>p1. Life'
  BY <1>1, <1>2, <1>3 DEF IInv, Life, Quitting, HostData
<1>p2. BridgeQueue'
  BY <1>1, <1>2, <1>3 DEF IInv, BridgeQueue, BridgeOp, SignalsInOrder, Outstanding, Requesting, HostData
<1>p3. HostQueue'
  BY <1>1, <1>2, <1>3 DEF IInv, HostQueue, Work, HostData
<1>p4. Frames'
  BY <1>1, <1>2, <1>3 DEF IInv, Frames, Unseen, Working, WorkPcs, HostData
<1>p5. Stamps'
  BY <1>1, <1>2, <1>3 DEF IInv, Stamps, Outstanding, Requesting, Quitting, HostData
<1>p6. Fences'
  BY <1>1, <1>2, <1>3 DEF IInv, Fences, Ahead, Begun, Unseen, HostData
<1>p7. Delivery'
  BY <1>1, <1>2, <1>3 DEF IInv, Delivery, Delivered, Ahead, Unseen, HostData
<1>p8. Ownership'
  BY <1>1, <1>2, <1>3 DEF IInv, Ownership, Quitting, Outstanding, Requesting, Settled, Lost, Unseen, Working, WorkPcs, NoSignal, HostFailed, HostData
<1>p9. Failure'
  BY <1>1, <1>2, <1>3 DEF IInv, Failure, Requesting, Lost, Unseen, WorkPcs, NoSignal, HostFailed, HostData
<1>p10. Product'
  BY <1>1, <1>2, <1>3 DEF IInv, Product, Outstanding, Requesting, Preparing, Unseen, NoWork, Work, OutputReady, HostData
<1>p11. Configuration'
  BY <1>1, <1>2, <1>3 DEF IInv, Configuration, Quitting, Outstanding, Requesting, ConfigDue, ConfigPcs, Unnoticed, Settled, Unseen, Working, WorkPcs, HostData
<1>p12. TextureSets'
  BY <1>1, <1>2, <1>3 DEF IInv, TextureSets, Outstanding, Requesting, Handed, Awaited, Unnoticed, HostFailed, HostData, Configuration, ConfigDue, ConfigPcs, Quitting
<1>p13. Handles'
  BY <1>1, <1>2, <1>3 DEF IInv, Handles, NoHandles, ConfigDue, ConfigPcs, Unnoticed, HostData, Configuration, Quitting
<1> QED
  BY <1>p1, <1>p2, <1>p3, <1>p4, <1>p5, <1>p6, <1>p7, <1>p8, <1>p9, <1>p10, <1>p11, <1>p12, <1>p13 DEF IInv, WaitsWork


\* The host gives the configuration up before it has opened anything.
LEMMA RetireFailsExact ==
  ASSUME IInv, Bounded', RetireFails, UNCHANGED bridge
  PROVE  IInv'
<1>1. host.pc = "retire" /\ host'.pc = "configFailed" /\ UNCHANGED HostData
  BY HostMoves DEF IInv, RetireFails, HostPcs
<1>2. UNCHANGED <<event, alive, fence, bridgeQ, hostQ, tex, screen, bridge>>
  BY DEF RetireFails, gpuVars
<1>3. /\ shared'.state = shared.state /\ shared'.frameSeq = shared.frameSeq
      /\ shared'.enqueuedSeq = shared.enqueuedSeq /\ shared'.completedSeq = shared.completedSeq
      /\ shared'.configGeneration = shared.configGeneration
      /\ shared'.resourceGeneration = shared.resourceGeneration
      /\ shared'.inputFence = shared.inputFence /\ shared'.outputFence = shared.outputFence
      /\ shared'.present = shared.present
      /\ shared'.stopRequested = shared.stopRequested
      /\ \A t \in Textures : shared'.handle[t] = 0
  BY DEF IInv, Bounded, TypeOK, SharedType, RetireFails, CloseFields, Fields
<1>4. alive.host /\ ConfigDue
  BY <1>1 DEF IInv, Life, ConfigDue, ConfigPcs
<1>p1. Life'
  BY <1>1, <1>2, <1>3, <1>4 DEF IInv, Life, Quitting, HostData
<1>p2. BridgeQueue'
  BY <1>1, <1>2, <1>3, <1>4 DEF IInv, BridgeQueue, BridgeOp, SignalsInOrder, Outstanding, Requesting, HostData
<1>p3. HostQueue'
  BY <1>1, <1>2, <1>3, <1>4 DEF IInv, HostQueue, Work, HostData
<1>p4. Frames'
  BY <1>1, <1>2, <1>3, <1>4 DEF IInv, Frames, Unseen, Working, WorkPcs, HostData
<1>p5. Stamps'
  BY <1>1, <1>2, <1>3, <1>4 DEF IInv, Stamps, Outstanding, Requesting, Quitting, HostData
<1>p6. Fences'
  BY <1>1, <1>2, <1>3, <1>4 DEF IInv, Fences, Ahead, Begun, Unseen, HostData
<1>p7. Delivery'
  BY <1>1, <1>2, <1>3, <1>4 DEF IInv, Delivery, Delivered, Ahead, Unseen, HostData
<1>p8. Ownership'
  BY <1>1, <1>2, <1>3, <1>4 DEF IInv, Ownership, Quitting, Outstanding, Requesting, Settled, Lost, Unseen, Working, WorkPcs, NoSignal, HostFailed, HostData
<1>p9. Failure'
  BY <1>1, <1>2, <1>3, <1>4 DEF IInv, Failure, Requesting, Lost, Unseen, WorkPcs, NoSignal, HostFailed, HostData
<1>p10. Product'
  BY <1>1, <1>2, <1>3, <1>4 DEF IInv, Product, Outstanding, Requesting, Preparing, Unseen, NoWork, Work, OutputReady, HostData
<1>p11. Configuration'
  BY <1>1, <1>2, <1>3, <1>4 DEF IInv, Configuration, Quitting, Outstanding, Requesting, ConfigDue, ConfigPcs, Unnoticed, Settled, Unseen, Working, WorkPcs, HostData
<1>p12. TextureSets'
  BY <1>1, <1>2, <1>3, <1>4 DEF IInv, TextureSets, Outstanding, Requesting, Handed, Awaited, Unnoticed, HostFailed, HostData, Configuration, Quitting, ConfigDue, ConfigPcs
<1>p13. Handles'
  BY <1>1, <1>2, <1>3, <1>4 DEF IInv, Handles, NoHandles, ConfigDue, ConfigPcs, Unnoticed, HostData, Configuration, Quitting
<1> QED
  BY <1>p1, <1>p2, <1>p3, <1>p4, <1>p5, <1>p6, <1>p7, <1>p8, <1>p9, <1>p10, <1>p11, <1>p12, <1>p13 DEF IInv, WaitsWork


\* One handle is consumed: the texture set the host assembles is the one of the handle.
LEMMA ImportExact ==
  ASSUME IInv, Bounded', NEW f \in Fields, Import(f), UNCHANGED bridge
  PROVE  IInv'
<1>1. /\ host \in HostType /\ host.pc = "import" /\ alive.host /\ shared \in SharedType
      /\ f \in host.unopened /\ shared.handle[f] # 0
  BY DEF IInv, Bounded, TypeOK, Import, Life
<1>2. /\ host'.pc = "import" /\ host'.configSeen = host.configSeen
      /\ host'.frameSeen = host.frameSeen /\ host'.imported = host.imported
      /\ host'.next = IF f = "fence" THEN host.next ELSE shared.handle[f]
      /\ host'.unopened = host.unopened \ {f}
      /\ host'.textures = host.textures /\ host'.seq = host.seq
      /\ host'.output = host.output
  BY <1>1 DEF Import, HostType
<1>3. UNCHANGED <<event, alive, fence, bridgeQ, hostQ, tex, screen, bridge>>
  BY DEF Import, gpuVars
<1>4. /\ shared'.state = shared.state /\ shared'.frameSeq = shared.frameSeq
      /\ shared'.enqueuedSeq = shared.enqueuedSeq /\ shared'.completedSeq = shared.completedSeq
      /\ shared'.configGeneration = shared.configGeneration
      /\ shared'.resourceGeneration = shared.resourceGeneration
      /\ shared'.inputFence = shared.inputFence /\ shared'.outputFence = shared.outputFence
      /\ shared'.present = shared.present
      /\ shared'.stopRequested = shared.stopRequested
      /\ \A g \in Fields : shared'.handle[g] = IF g = f THEN 0 ELSE shared.handle[g]
  BY <1>1 DEF SharedType, Import, CloseFields, Fields
<1>5. ConfigDue /\ ~Unnoticed
  BY <1>1 DEF IInv, Configuration, ConfigDue, ConfigPcs
<1>6. Quitting \/ bridge.pc \in {"wake", "await", "idle"}
  BY <1>1, <1>5 DEF IInv, Configuration
<1>p1. Life'
  BY <1>1, <1>2, <1>3, <1>4 DEF IInv, Life, Quitting, HostData
<1>p2. BridgeQueue'
  BY <1>1, <1>2, <1>3, <1>4 DEF IInv, BridgeQueue, BridgeOp, SignalsInOrder, Outstanding, Requesting, HostData
<1>p3. HostQueue'
  BY <1>1, <1>2, <1>3, <1>4 DEF IInv, HostQueue, Work, HostData
<1>p4. Frames'
  BY <1>1, <1>2, <1>3, <1>4 DEF IInv, Frames, Unseen, Working, WorkPcs, HostData
<1>p5. Stamps'
  BY <1>1, <1>2, <1>3, <1>4 DEF IInv, Stamps, Outstanding, Requesting, Quitting, HostData
<1>p6. Fences'
  BY <1>1, <1>2, <1>3, <1>4 DEF IInv, Fences, Ahead, Begun, Unseen, HostData
<1>p7. Delivery'
  BY <1>1, <1>2, <1>3, <1>4 DEF IInv, Delivery, Delivered, Ahead, Unseen, HostData
<1>p8. Ownership'
  BY <1>1, <1>2, <1>3, <1>4 DEF IInv, Ownership, Quitting, Outstanding, Requesting, Settled, Lost, Unseen, Working, WorkPcs, NoSignal, HostFailed, HostData
<1>p9. Failure'
  BY <1>1, <1>2, <1>3, <1>4 DEF IInv, Failure, Requesting, Lost, Unseen, WorkPcs, NoSignal, HostFailed, HostData
<1>p10. Product'
  BY <1>1, <1>2, <1>3, <1>4 DEF IInv, Product, Outstanding, Requesting, Preparing, Unseen, NoWork, Work, OutputReady, HostData
<1>p11. Configuration'
  BY <1>1, <1>2, <1>3, <1>4 DEF IInv, Configuration, Quitting, Outstanding, Requesting, ConfigDue, ConfigPcs, Unnoticed, Settled, Unseen, Working, WorkPcs, HostData
<1>p12. TextureSets'
  BY <1>1, <1>2, <1>3, <1>4, <1>5, <1>6, FenceFieldAssumption DEF IInv, TextureSets, Outstanding, Requesting, Handed, Awaited, Unnoticed, HostFailed, HostData, Quitting, Fields, Handles
<1>p13. Handles'
  BY <1>1, <1>2, <1>3, <1>4, <1>5, <1>6, FenceFieldAssumption DEF IInv, Handles, NoHandles, ConfigDue, ConfigPcs, Unnoticed, HostData, Quitting, Fields
<1> QED
  BY <1>p1, <1>p2, <1>p3, <1>p4, <1>p5, <1>p6, <1>p7, <1>p8, <1>p9, <1>p10, <1>p11, <1>p12, <1>p13 DEF IInv, WaitsWork


\* The host gives the configuration up with some handles opened.
LEMMA ImportFailsExact ==
  ASSUME IInv, Bounded', ImportFails, UNCHANGED bridge
  PROVE  IInv'
<1>1. /\ host \in HostType /\ host.pc = "import" /\ alive.host /\ shared \in SharedType
  BY DEF IInv, Bounded, TypeOK, ImportFails, Life
<1>2. /\ host'.pc = "configFailed" /\ host'.configSeen = host.configSeen
      /\ host'.frameSeen = host.frameSeen /\ host'.imported = host.imported
      /\ host'.next = host.next
      /\ host'.textures = host.textures /\ host'.seq = host.seq
      /\ host'.output = host.output
  BY <1>1 DEF ImportFails, HostType
<1>3. UNCHANGED <<event, alive, fence, bridgeQ, hostQ, tex, screen, bridge>>
  BY DEF ImportFails, gpuVars
<1>4. /\ shared'.state = shared.state /\ shared'.frameSeq = shared.frameSeq
      /\ shared'.enqueuedSeq = shared.enqueuedSeq /\ shared'.completedSeq = shared.completedSeq
      /\ shared'.configGeneration = shared.configGeneration
      /\ shared'.resourceGeneration = shared.resourceGeneration
      /\ shared'.inputFence = shared.inputFence /\ shared'.outputFence = shared.outputFence
      /\ shared'.present = shared.present
      /\ shared'.stopRequested = shared.stopRequested
      /\ \A t \in Textures : shared'.handle[t] = 0
  BY <1>1 DEF SharedType, ImportFails, CloseFields, Fields
<1>5. ConfigDue /\ ~Unnoticed
  BY <1>1 DEF IInv, Configuration, ConfigDue, ConfigPcs
<1>p1. Life'
  BY <1>1, <1>2, <1>3, <1>4 DEF IInv, Life, Quitting, HostData
<1>p2. BridgeQueue'
  BY <1>1, <1>2, <1>3, <1>4 DEF IInv, BridgeQueue, BridgeOp, SignalsInOrder, Outstanding, Requesting, HostData
<1>p3. HostQueue'
  BY <1>1, <1>2, <1>3, <1>4 DEF IInv, HostQueue, Work, HostData
<1>p4. Frames'
  BY <1>1, <1>2, <1>3, <1>4 DEF IInv, Frames, Unseen, Working, WorkPcs, HostData
<1>p5. Stamps'
  BY <1>1, <1>2, <1>3, <1>4 DEF IInv, Stamps, Outstanding, Requesting, Quitting, HostData
<1>p6. Fences'
  BY <1>1, <1>2, <1>3, <1>4 DEF IInv, Fences, Ahead, Begun, Unseen, HostData
<1>p7. Delivery'
  BY <1>1, <1>2, <1>3, <1>4 DEF IInv, Delivery, Delivered, Ahead, Unseen, HostData
<1>p8. Ownership'
  BY <1>1, <1>2, <1>3, <1>4 DEF IInv, Ownership, Quitting, Outstanding, Requesting, Settled, Lost, Unseen, Working, WorkPcs, NoSignal, HostFailed, HostData
<1>p9. Failure'
  BY <1>1, <1>2, <1>3, <1>4 DEF IInv, Failure, Requesting, Lost, Unseen, WorkPcs, NoSignal, HostFailed, HostData
<1>p10. Product'
  BY <1>1, <1>2, <1>3, <1>4 DEF IInv, Product, Outstanding, Requesting, Preparing, Unseen, NoWork, Work, OutputReady, HostData
<1>p11. Configuration'
  BY <1>1, <1>2, <1>3, <1>4 DEF IInv, Configuration, Quitting, Outstanding, Requesting, ConfigDue, ConfigPcs, Unnoticed, Settled, Unseen, Working, WorkPcs, HostData
<1>p12. TextureSets'
  BY <1>1, <1>2, <1>3, <1>4, <1>5 DEF IInv, TextureSets, Outstanding, Requesting, Handed, Awaited, Unnoticed, HostFailed, HostData, Configuration, Quitting
<1>p13. Handles'
  BY <1>1, <1>2, <1>3, <1>4, <1>5 DEF IInv, Handles, NoHandles, ConfigDue, ConfigPcs, Unnoticed, HostData, Configuration, Quitting
<1> QED
  BY <1>p1, <1>p2, <1>p3, <1>p4, <1>p5, <1>p6, <1>p7, <1>p8, <1>p9, <1>p10, <1>p11, <1>p12, <1>p13 DEF IInv, WaitsWork


\* The host has a complete set: all of it is of the newest generation of the bridge.
LEMMA ImportedExact ==
  ASSUME IInv, Bounded', Imported, UNCHANGED bridge
  PROVE  IInv'
<1>1. /\ host \in HostType /\ host.pc = "import" /\ alive.host /\ host.unopened = {}
  BY DEF IInv, Bounded, TypeOK, Imported, Life
<1>2. /\ host'.pc = "feature" /\ host'.configSeen = host.configSeen
      /\ host'.frameSeen = host.frameSeen /\ host'.imported = shared.resourceGeneration
      /\ host'.next = host.next /\ host'.unopened = host.unopened
      /\ host'.textures = host.next /\ host'.seq = host.seq
      /\ host'.output = host.output
  BY <1>1 DEF Imported, HostType
<1>3. UNCHANGED <<shared, event, alive, remote, fence, bridgeQ, hostQ, tex, screen, bridge>>
  BY DEF Imported, ipcVars
<1>4. ConfigDue /\ ~Unnoticed
  BY <1>1 DEF IInv, Configuration, ConfigDue, ConfigPcs
<1>5. Settled
  BY <1>1, <1>4 DEF IInv, Configuration
<1>6. ~Ahead /\ hostQ = <<>>
  BY <1>5 DEF Settled, Ahead, Working, WorkPcs
<1>7. ~Outstanding
  BY <1>1, <1>4 DEF IInv, Configuration
<1>9. GenNumbers
  BY Numeric DEF IInv
<1>8. \E t \in Textures : t \notin host.unopened
  BY <1>1, TexturesAssumption
<1>p1. Life'
  BY <1>1, <1>2, <1>3 DEF IInv, Life, Quitting, HostData
<1>p2. BridgeQueue'
  BY <1>1, <1>2, <1>3 DEF IInv, BridgeQueue, BridgeOp, SignalsInOrder, Outstanding, Requesting, HostData
<1>p3. HostQueue'
  BY <1>1, <1>2, <1>3, <1>6 DEF IInv, HostQueue, Work, HostData
<1>p4. Frames'
  BY <1>1, <1>2, <1>3 DEF IInv, Frames, Unseen, Working, WorkPcs, HostData
<1>p5. Stamps'
  BY <1>1, <1>2, <1>3 DEF IInv, Stamps, Outstanding, Requesting, Quitting, HostData
<1>p6. Fences'
  BY <1>1, <1>2, <1>3 DEF IInv, Fences, Ahead, Begun, Unseen, HostData
<1>p7. Delivery'
  <2>1. bridge.pc \notin {"stamp", "number"} \/ Quitting
    BY <1>1, <1>4 DEF IInv, Configuration, Quitting
  <2> QED
    BY <1>1, <1>2, <1>3, <1>6, <2>1 DEF Delivery, Ahead, Unseen, Quitting
<1>p8. Ownership'
  BY <1>1, <1>2, <1>3 DEF IInv, Ownership, Quitting, Outstanding, Requesting, Settled, Lost, Unseen, Working, WorkPcs, NoSignal, HostFailed, HostData
<1>p9. Failure'
  BY <1>1, <1>2, <1>3 DEF IInv, Failure, Requesting, Lost, Unseen, WorkPcs, NoSignal, HostFailed, HostData
<1>p10. Product'
  BY <1>1, <1>2, <1>3, <1>7 DEF IInv, Product, Outstanding, Requesting, Preparing, Unseen, NoWork, Work, OutputReady, HostData
<1>p11. Configuration'
  BY <1>1, <1>2, <1>3 DEF IInv, Configuration, Quitting, Outstanding, Requesting, ConfigDue, ConfigPcs, Unnoticed, Settled, Unseen, Working, WorkPcs, HostData
<1>p12. TextureSets'
  BY <1>1, <1>2, <1>3, <1>4, <1>8, <1>9 DEF IInv, TextureSets, Outstanding, Requesting, Handed, Awaited, Unnoticed, HostFailed, HostData, GenNumbers
<1>p13. Handles'
  BY <1>1, <1>2, <1>3, <1>4 DEF IInv, Handles, NoHandles, ConfigDue, ConfigPcs, Unnoticed, HostData
<1> QED
  BY <1>p1, <1>p2, <1>p3, <1>p4, <1>p5, <1>p6, <1>p7, <1>p8, <1>p9, <1>p10, <1>p11, <1>p12, <1>p13 DEF IInv, WaitsWork


\* The configuration is through.
LEMMA FeatureReadyExact ==
  ASSUME IInv, Bounded', FeatureReady, UNCHANGED bridge
  PROVE  IInv'
<1>1. /\ host \in HostType /\ host.pc = "feature" /\ alive.host
  BY DEF IInv, Bounded, TypeOK, FeatureReady, Life
<1>2. host'.pc = "frame" /\ UNCHANGED HostData
  BY <1>1 DEF FeatureReady, HostType, HostData
<1>3. UNCHANGED <<event, alive, remote, fence, bridgeQ, hostQ, tex, screen, bridge>>
  BY DEF FeatureReady, gpuVars
<1>4. /\ shared'.state = "Ready" /\ shared'.frameSeq = shared.frameSeq
      /\ shared'.enqueuedSeq = shared.enqueuedSeq /\ shared'.completedSeq = shared.completedSeq
      /\ shared'.configGeneration = shared.configGeneration
      /\ shared'.resourceGeneration = shared.resourceGeneration
      /\ shared'.inputFence = shared.inputFence /\ shared'.outputFence = shared.outputFence
      /\ shared'.present = shared.present /\ shared'.handle = shared.handle
      /\ shared'.stopRequested = shared.stopRequested
  BY DEF IInv, Bounded, TypeOK, SharedType, FeatureReady
<1>5. ConfigDue /\ ~Unnoticed
  BY <1>1 DEF IInv, Configuration, ConfigDue, ConfigPcs
<1>6. ~Outstanding /\ Settled
      /\ (Quitting \/ (bridge.pc \in {"wake", "await", "idle"} /\ shared.state = "Configuring"))
  BY <1>1, <1>5 DEF IInv, Configuration
<1>p1. Life'
  BY <1>1, <1>2, <1>3, <1>4 DEF IInv, Life, Quitting, HostData
<1>p2. BridgeQueue'
  BY <1>1, <1>2, <1>3, <1>4 DEF IInv, BridgeQueue, BridgeOp, SignalsInOrder, Outstanding, Requesting, HostData
<1>p3. HostQueue'
  BY <1>1, <1>2, <1>3, <1>4 DEF IInv, HostQueue, Work, HostData
<1>p4. Frames'
  BY <1>1, <1>2, <1>3, <1>4 DEF IInv, Frames, Unseen, Working, WorkPcs, HostData
<1>p5. Stamps'
  BY <1>1, <1>2, <1>3, <1>4 DEF IInv, Stamps, Outstanding, Requesting, Quitting, HostData
<1>p6. Fences'
  BY <1>1, <1>2, <1>3, <1>4 DEF IInv, Fences, Ahead, Begun, Unseen, HostData
<1>p7. Delivery'
  BY <1>1, <1>2, <1>3, <1>4 DEF IInv, Delivery, Delivered, Ahead, Unseen, HostData
<1>p8. Ownership'
  BY <1>1, <1>2, <1>3, <1>4, <1>6 DEF IInv, Ownership, Quitting, Outstanding, Requesting, Settled, Lost, Unseen, Working, WorkPcs, NoSignal, HostFailed, HostData
<1>p9. Failure'
  BY <1>1, <1>2, <1>3, <1>4, <1>6 DEF IInv, Failure, Requesting, Lost, Unseen, WorkPcs, NoSignal, HostFailed, HostData, Outstanding
<1>p10. Product'
  BY <1>1, <1>2, <1>3, <1>4 DEF IInv, Product, Outstanding, Requesting, Preparing, Unseen, NoWork, Work, OutputReady, HostData
<1>p11. Configuration'
  BY <1>1, <1>2, <1>3, <1>4, <1>5, <1>6 DEF IInv, Configuration, Quitting, Outstanding, Requesting, ConfigDue, ConfigPcs, Unnoticed, Settled, Unseen, Working, WorkPcs, HostData
<1>p12. TextureSets'
  BY <1>1, <1>2, <1>3, <1>4, <1>5, <1>6 DEF IInv, TextureSets, Outstanding, Requesting, Handed, Awaited, Unnoticed, HostFailed, HostData, Quitting
<1>p13. Handles'
  BY <1>1, <1>2, <1>3, <1>4 DEF IInv, Handles, NoHandles, ConfigDue, ConfigPcs, Unnoticed, HostData
<1> QED
  BY <1>p1, <1>p2, <1>p3, <1>p4, <1>p5, <1>p6, <1>p7, <1>p8, <1>p9, <1>p10, <1>p11, <1>p12, <1>p13 DEF IInv, WaitsWork


\* A configuration that failed fails the host.
LEMMA ConfigureFailedExact ==
  ASSUME IInv, Bounded', ConfigureFailed, UNCHANGED bridge
  PROVE  IInv'
<1>1. host.pc = "configFailed" /\ host'.pc = "wait" /\ UNCHANGED HostData /\ alive.host
  BY HostMoves DEF IInv, ConfigureFailed, HostPcs, Life
<1>2. UNCHANGED <<event, alive, remote, fence, bridgeQ, hostQ, tex, screen, bridge>>
  BY DEF ConfigureFailed, gpuVars
<1>3. /\ shared'.state = "Error" /\ shared'.frameSeq = shared.frameSeq
      /\ shared'.enqueuedSeq = shared.enqueuedSeq /\ shared'.completedSeq = shared.completedSeq
      /\ shared'.configGeneration = shared.configGeneration
      /\ shared'.resourceGeneration = shared.resourceGeneration
      /\ shared'.inputFence = shared.inputFence /\ shared'.outputFence = shared.outputFence
      /\ shared'.present = shared.present /\ shared'.handle = shared.handle
      /\ shared'.stopRequested = shared.stopRequested
  BY DEF IInv, Bounded, TypeOK, SharedType, ConfigureFailed
<1>4. ConfigDue /\ ~Unnoticed
  BY <1>1 DEF IInv, Configuration, ConfigDue, ConfigPcs
<1>5. ~Outstanding /\ Settled /\ (Quitting \/ bridge.pc \in {"wake", "await", "idle"})
  BY <1>1, <1>4 DEF IInv, Configuration
<1>p1. Life'
  BY <1>1, <1>2, <1>3 DEF IInv, Life, Quitting, HostData
<1>p2. BridgeQueue'
  BY <1>1, <1>2, <1>3 DEF IInv, BridgeQueue, BridgeOp, SignalsInOrder, Outstanding, Requesting, HostData
<1>p3. HostQueue'
  BY <1>1, <1>2, <1>3 DEF IInv, HostQueue, Work, HostData
<1>p4. Frames'
  BY <1>1, <1>2, <1>3 DEF IInv, Frames, Unseen, Working, WorkPcs, HostData
<1>p5. Stamps'
  BY <1>1, <1>2, <1>3 DEF IInv, Stamps, Outstanding, Requesting, Quitting, HostData
<1>p6. Fences'
  BY <1>1, <1>2, <1>3 DEF IInv, Fences, Ahead, Begun, Unseen, HostData
<1>p7. Delivery'
  BY <1>1, <1>2, <1>3 DEF IInv, Delivery, Delivered, Ahead, Unseen, HostData
<1>p8. Ownership'
  BY <1>1, <1>2, <1>3, <1>5 DEF IInv, Ownership, Quitting, Outstanding, Requesting, Settled, Lost, Unseen, Working, WorkPcs, NoSignal, HostFailed, HostData
<1>p9. Failure'
  BY <1>1, <1>2, <1>3, <1>5 DEF IInv, Failure, Requesting, Lost, Unseen, WorkPcs, NoSignal, HostFailed, HostData, Outstanding, Quitting
<1>p10. Product'
  BY <1>1, <1>2, <1>3 DEF IInv, Product, Outstanding, Requesting, Preparing, Unseen, NoWork, Work, OutputReady, HostData
<1>p11. Configuration'
  BY <1>1, <1>2, <1>3, <1>4, <1>5 DEF IInv, Configuration, Quitting, Outstanding, Requesting, ConfigDue, ConfigPcs, Unnoticed, Settled, Unseen, Working, WorkPcs, HostData
<1>p12. TextureSets'
  BY <1>1, <1>2, <1>3, <1>4, <1>5 DEF IInv, TextureSets, Outstanding, Requesting, Handed, Awaited, Unnoticed, HostFailed, HostData, Quitting
<1>p13. Handles'
  BY <1>1, <1>2, <1>3 DEF IInv, Handles, NoHandles, ConfigDue, ConfigPcs, Unnoticed, HostData
<1> QED
  BY <1>p1, <1>p2, <1>p3, <1>p4, <1>p5, <1>p6, <1>p7, <1>p8, <1>p9, <1>p10, <1>p11, <1>p12, <1>p13 DEF IInv, WaitsWork

\* A frame is begun: its inputs are waited for in front of an empty queue.
LEMMA BeginFrameExact ==
  ASSUME IInv, Bounded', shared.frameSeq > host.frameSeen, host.feature # NoFeature, BeginFrame, UNCHANGED bridge
  PROVE  IInv'
<1>0. ~(shared.frameSeq <= host.frameSeen)
  BY Numeric DEF IInv, SeqNumbers
<1>1. /\ host \in HostType /\ host.pc = "frame" /\ alive.host
  BY DEF IInv, Bounded, TypeOK, BeginFrame, Life
<1>2. /\ host'.pc = "record" /\ host'.configSeen = host.configSeen
      /\ host'.frameSeen = shared.frameSeq /\ host'.imported = host.imported
      /\ host'.next = host.next /\ host'.unopened = host.unopened
      /\ host'.textures = host.textures /\ host'.seq = shared.frameSeq
      /\ host'.output = shared.outputFence
  <2>1. host' = [host EXCEPT !.pc = "record", !.frameSeen = shared.frameSeq,
                   !.seq = shared.frameSeq, !.output = shared.outputFence]
    BY <1>0 DEF BeginFrame
  <2> QED
    BY <1>1, <2>1 DEF HostType
<1>3. UNCHANGED <<shared, event, alive, remote, fence, bridgeQ, tex, screen, bridge>>
  BY DEF BeginFrame
<1>4. Unseen /\ host.frameSeen < shared.frameSeq
  BY <1>1, Numeric DEF IInv, SeqNumbers, Unseen
<1>5. hostQ = <<>> /\ Ahead /\ ~Settled
  BY <1>4 DEF IInv, Frames, Ahead, Settled
<1>6. ~ConfigDue
  BY <1>1, <1>5 DEF IInv, Configuration
<1> DEFINE op == Op("wait", shared.inputFence, host.textures)
<1>7. op.kind = "wait" /\ op.n = shared.inputFence /\ hostQ' = Append(hostQ, op)
  BY <1>0 DEF BeginFrame, Op
<1> HIDE DEF op
<1>8. Len(hostQ') = 1 /\ hostQ'[1] = op /\ hostQ' # <<>>
  BY <1>5, <1>7
<1>9. ~(alive.host /\ Requesting /\ HostFailed)
  BY <1>1, <1>4, Numeric DEF IInv, Failure, Frames, SeqNumbers, Lost
<1>p1. Life'
  BY <1>1, <1>2, <1>3 DEF IInv, Life, Quitting, HostData
<1>p2. BridgeQueue'
  BY <1>1, <1>2, <1>3 DEF IInv, BridgeQueue, BridgeOp, SignalsInOrder, Outstanding, Requesting, HostData
<1>p3. HostQueue'
  BY <1>1, <1>2, <1>3, <1>7, <1>8 DEF IInv, HostQueue, Work, HostData
<1>p4. Frames'
  BY <1>1, <1>2, <1>3, <1>4 DEF IInv, Frames, Unseen, Working, WorkPcs, HostData
<1>p5. Stamps'
  BY <1>1, <1>2, <1>3 DEF IInv, Stamps, Outstanding, Requesting, Quitting, HostData
<1>p6. Fences'
  BY <1>1, <1>2, <1>3, <1>5, <1>7, <1>8 DEF IInv, Fences, Ahead, Begun, Unseen, HostData
<1>p7. Delivery'
  BY <1>1, <1>2, <1>3, <1>5 DEF IInv, Delivery, Delivered, Ahead, Unseen, HostData
<1>p8. Ownership'
  BY <1>1, <1>2, <1>3, <1>4 DEF IInv, Ownership, Quitting, Outstanding, Requesting, Settled, Lost, Unseen, Working, WorkPcs, NoSignal, HostFailed, HostData
<1>p9. Failure'
  BY <1>1, <1>2, <1>3, <1>9 DEF IInv, Failure, Requesting, Lost, Unseen, WorkPcs, NoSignal, HostFailed, HostData
<1>p10. Product'
  BY <1>1, <1>2, <1>3, <1>8 DEF IInv, Product, Outstanding, Requesting, Preparing, Unseen, NoWork, Work, OutputReady, HostData
<1>p11. Configuration'
  BY <1>1, <1>2, <1>3, <1>6 DEF IInv, Configuration, Quitting, Outstanding, Requesting, ConfigDue, ConfigPcs, Unnoticed, Settled, Unseen, Working, WorkPcs, HostData
<1>p12. TextureSets'
  BY <1>1, <1>2, <1>3, <1>6 DEF IInv, TextureSets, Outstanding, Requesting, Handed, Awaited, Unnoticed, HostFailed, HostData, ConfigDue
<1>p13. Handles'
  BY <1>1, <1>2, <1>3, <1>6 DEF IInv, Handles, NoHandles, ConfigDue, ConfigPcs, Unnoticed, HostData
<1> QED
  BY <1>p1, <1>p2, <1>p3, <1>p4, <1>p5, <1>p6, <1>p7, <1>p8, <1>p9, <1>p10, <1>p11, <1>p12, <1>p13 DEF IInv, WaitsWork


\* The frame is recorded and submitted, with the signal of its output.
LEMMA RecordExact ==
  ASSUME IInv, Bounded', NEW outcome \in Outcomes, Record(outcome), UNCHANGED bridge
  PROVE  IInv'
<1>1. /\ host \in HostType /\ host.pc = "record" /\ alive.host
  BY DEF IInv, Bounded, TypeOK, Record, Life
<1>2. /\ host'.pc = "enqueued" /\ host'.configSeen = host.configSeen
      /\ host'.frameSeen = host.frameSeen /\ host'.imported = host.imported
      /\ host'.next = host.next /\ host'.unopened = host.unopened
      /\ host'.textures = host.textures /\ host'.seq = host.seq
      /\ host'.output = host.output
  BY <1>1 DEF Record, HostType
<1>3. UNCHANGED <<shared, event, alive, remote, fence, bridgeQ, tex, screen, bridge>>
  BY DEF Record
<1>4. ~Unseen /\ ~Settled /\ ~Lost /\ host.output = shared.outputFence
  BY <1>1 DEF IInv, Frames, Working, WorkPcs, Settled, Lost
<1>5. Outstanding \/ Quitting
  BY <1>1, <1>4 DEF IInv, Ownership
<1>6. ~ConfigDue
  BY <1>1, <1>4 DEF IInv, Configuration
<1>7. /\ hostQ \in Seq(Ops)
      /\ \A i \in 1..Len(hostQ) : i = 1 /\ hostQ[i].kind = "wait" /\ hostQ[i].n = shared.inputFence
  BY <1>1 DEF IInv, HostQueue, Bounded, TypeOK
<1>8. hostQ = <<>> \/ Len(hostQ) = 1
  <2>1. hostQ # <<>> => Len(hostQ) \in 1..Len(hostQ)
    BY <1>7
  <2> QED
    BY <1>7, <2>1
<1> DEFINE work == Op(IF outcome = "ok" THEN "evaluate" ELSE "fallback",
                      shared.present, host.textures)
           signal == Op("signal", host.output, host.textures)
<1>9. /\ hostQ' = hostQ \o <<work, signal>>
      /\ work.kind \in Work /\ work.kind \notin {"wait", "signal"} /\ work.gen = host.textures
      /\ signal.kind = "signal" /\ signal.n = host.output
  BY DEF Record, Submit, Op, Work
<1> HIDE DEF work, signal
<1>10. /\ Len(hostQ') = Len(hostQ) + 2 /\ Len(hostQ) \in {0, 1}
       /\ \A i \in 1..Len(hostQ) : hostQ'[i] = hostQ[i]
       /\ hostQ'[Len(hostQ) + 1] = work /\ hostQ'[Len(hostQ) + 2] = signal
       /\ hostQ' # <<>>
  BY <1>7, <1>8, <1>9
<1>11. ~(alive.host /\ Requesting /\ HostFailed)
  BY <1>1, <1>4, Numeric DEF IInv, Failure, Frames, SeqNumbers
<1>p1. Life'
  BY <1>1, <1>2, <1>3 DEF IInv, Life, Quitting, HostData
<1>p2. BridgeQueue'
  BY <1>1, <1>2, <1>3 DEF IInv, BridgeQueue, BridgeOp, SignalsInOrder, Outstanding, Requesting, HostData
<1>p3. HostQueue'
  BY <1>1, <1>2, <1>3, <1>4, <1>7, <1>8, <1>9, <1>10 DEF IInv, HostQueue, Work, HostData
<1>p4. Frames'
  BY <1>1, <1>2, <1>3, <1>4 DEF IInv, Frames, Unseen, Working, WorkPcs, HostData
<1>p5. Stamps'
  BY <1>1, <1>2, <1>3 DEF IInv, Stamps, Outstanding, Requesting, Quitting, HostData
<1>p6. Fences'
  BY <1>1, <1>2, <1>3, <1>7, <1>8, <1>9, <1>10 DEF IInv, Fences, Ahead, Begun, Unseen, HostData, Work
<1>p7. Delivery'
  BY <1>1, <1>2, <1>3 DEF IInv, Delivery, Delivered, Ahead, Unseen, HostData
<1>p8. Ownership'
  BY <1>1, <1>2, <1>3, <1>5 DEF IInv, Ownership, Quitting, Outstanding, Requesting, Settled, Lost, Unseen, Working, WorkPcs, NoSignal, HostFailed, HostData
<1>p9. Failure'
  BY <1>1, <1>2, <1>3, <1>5, <1>11 DEF IInv, Failure, Requesting, Lost, Unseen, WorkPcs, NoSignal, HostFailed, HostData, Ownership, Quitting, Outstanding
<1>p10. Product'
  BY <1>1, <1>2, <1>3, <1>9, <1>10 DEF IInv, Product, Outstanding, Requesting, Preparing, Unseen, NoWork, Work, OutputReady, HostData
<1>p11. Configuration'
  BY <1>1, <1>2, <1>3, <1>6 DEF IInv, Configuration, Quitting, Outstanding, Requesting, ConfigDue, ConfigPcs, Unnoticed, Settled, Unseen, Working, WorkPcs, HostData
<1>p12. TextureSets'
  BY <1>1, <1>2, <1>3, <1>6 DEF IInv, TextureSets, Outstanding, Requesting, Handed, Awaited, Unnoticed, HostFailed, HostData, ConfigDue
<1>p13. Handles'
  BY <1>1, <1>2, <1>3, <1>6 DEF IInv, Handles, NoHandles, ConfigDue, ConfigPcs, Unnoticed, HostData
<1> QED
  BY <1>p1, <1>p2, <1>p3, <1>p4, <1>p5, <1>p6, <1>p7, <1>p8, <1>p9, <1>p10, <1>p11, <1>p12, <1>p13 DEF IInv, WaitsWork


\* The signal is refused: the host has failed, and lost the frame for good.
LEMMA SignalFailsExact ==
  ASSUME IInv, Bounded', NEW outcome \in Outcomes, SignalFails(outcome), UNCHANGED bridge
  PROVE  IInv'
<1>1. /\ host \in HostType /\ host.pc = "record" /\ alive.host
  BY DEF IInv, Bounded, TypeOK, SignalFails, Life
<1>2. /\ host'.pc = "complete" /\ host'.configSeen = host.configSeen
      /\ host'.frameSeen = host.frameSeen /\ host'.imported = host.imported
      /\ host'.next = host.next /\ host'.unopened = host.unopened
      /\ host'.textures = host.textures /\ host'.seq = host.seq
      /\ host'.output = host.output
  BY <1>1 DEF SignalFails, HostType
<1>3. UNCHANGED <<event, alive, remote, fence, bridgeQ, tex, screen, bridge>>
  BY DEF SignalFails
<1>31. /\ shared'.state = "Error" /\ shared'.frameSeq = shared.frameSeq
       /\ shared'.enqueuedSeq = shared.enqueuedSeq /\ shared'.completedSeq = shared.completedSeq
       /\ shared'.configGeneration = shared.configGeneration
       /\ shared'.resourceGeneration = shared.resourceGeneration
       /\ shared'.inputFence = shared.inputFence /\ shared'.outputFence = shared.outputFence
       /\ shared'.present = shared.present /\ shared'.handle = shared.handle
       /\ shared'.stopRequested = shared.stopRequested
  BY DEF IInv, Bounded, TypeOK, SharedType, SignalFails
<1>4. ~Unseen /\ ~Settled /\ ~Lost /\ host.output = shared.outputFence
  BY <1>1 DEF IInv, Frames, Working, WorkPcs, Settled, Lost
<1>5. Outstanding \/ Quitting
  BY <1>1, <1>4 DEF IInv, Ownership
<1>6. ~ConfigDue
  BY <1>1, <1>4 DEF IInv, Configuration
<1>7. /\ hostQ \in Seq(Ops)
      /\ \A i \in 1..Len(hostQ) : i = 1 /\ hostQ[i].kind = "wait" /\ hostQ[i].n = shared.inputFence
  BY <1>1 DEF IInv, HostQueue, Bounded, TypeOK
<1>8. hostQ = <<>> \/ Len(hostQ) = 1
  <2>1. hostQ # <<>> => Len(hostQ) \in 1..Len(hostQ)
    BY <1>7
  <2> QED
    BY <1>7, <2>1
<1> DEFINE work == Op(IF outcome = "ok" THEN "evaluate" ELSE "fallback",
                      shared.present, host.textures)
<1>9. /\ hostQ' = hostQ \o <<work>>
      /\ work.kind \in Work /\ work.kind \notin {"wait", "signal"} /\ work.gen = host.textures
  BY DEF SignalFails, Submit, Op, Work
<1> HIDE DEF work
<1>10. /\ Len(hostQ') = Len(hostQ) + 1 /\ Len(hostQ) \in {0, 1}
       /\ \A i \in 1..Len(hostQ) : hostQ'[i] = hostQ[i]
       /\ hostQ'[Len(hostQ) + 1] = work
       /\ hostQ' # <<>>
  BY <1>7, <1>8, <1>9
<1>11. Lost'
  BY <1>2, <1>31, <1>4, <1>7, <1>9, <1>10 DEF Lost, HostFailed, Unseen, WorkPcs, NoSignal
<1>12. bridge.pc \notin {"bump", "stamp", "number"} \/ Quitting
  BY <1>1, <1>5 DEF IInv, Stamps, Outstanding, Requesting
<1>p1. Life'
  BY <1>1, <1>2, <1>3, <1>31 DEF IInv, Life, Quitting, HostData
<1>p2. BridgeQueue'
  BY <1>1, <1>2, <1>3, <1>31 DEF IInv, BridgeQueue, BridgeOp, SignalsInOrder, Outstanding, Requesting, HostData
<1>p3. HostQueue'
  BY <1>1, <1>2, <1>3, <1>31, <1>4, <1>7, <1>8, <1>9, <1>10 DEF IInv, HostQueue, Work, HostData
<1>p4. Frames'
  BY <1>1, <1>2, <1>3, <1>31, <1>4 DEF IInv, Frames, Unseen, Working, WorkPcs, HostData
<1>p5. Stamps'
  BY <1>1, <1>2, <1>3, <1>31 DEF IInv, Stamps, Outstanding, Requesting, Quitting, HostData
<1>p6. Fences'
  BY <1>1, <1>2, <1>3, <1>31, <1>7, <1>8, <1>9, <1>10 DEF IInv, Fences, Ahead, Begun, Unseen, HostData, Work
<1>p7. Delivery'
  BY <1>1, <1>2, <1>3, <1>31 DEF IInv, Delivery, Delivered, Ahead, Unseen, HostData
<1>p8. Ownership'
  BY <1>1, <1>2, <1>3, <1>31, <1>5 DEF IInv, Ownership, Quitting, Outstanding, Requesting, Settled, Lost, Unseen, Working, WorkPcs, NoSignal, HostFailed, HostData
<1>p9. Failure'
  BY <1>1, <1>5, <1>11, <1>12 DEF Failure, Quitting
<1>p10. Product'
  BY <1>1, <1>2, <1>3, <1>31, <1>9, <1>10 DEF IInv, Product, Outstanding, Requesting, Preparing, Unseen, NoWork, Work, OutputReady, HostData
<1>p11. Configuration'
  BY <1>1, <1>2, <1>3, <1>31, <1>6, <1>12 DEF IInv, Configuration, Quitting, Outstanding, Requesting, ConfigDue, ConfigPcs, Unnoticed, Settled, Unseen, Working, WorkPcs, HostData
<1>p12. TextureSets'
  BY <1>1, <1>2, <1>3, <1>31, <1>6 DEF IInv, TextureSets, Outstanding, Requesting, Handed, Awaited, Unnoticed, HostFailed, HostData, ConfigDue
<1>p13. Handles'
  BY <1>1, <1>2, <1>3, <1>31, <1>6 DEF IInv, Handles, NoHandles, ConfigDue, ConfigPcs, Unnoticed, HostData
<1> QED
  BY <1>p1, <1>p2, <1>p3, <1>p4, <1>p5, <1>p6, <1>p7, <1>p8, <1>p9, <1>p10, <1>p11, <1>p12, <1>p13 DEF IInv, WaitsWork


\* The host announces that the frame is queued.
LEMMA PublishEnqueuedExact ==
  ASSUME IInv, Bounded', PublishEnqueued, UNCHANGED bridge
  PROVE  IInv'
<1>1. host.pc = "enqueued" /\ host'.pc = "enqueuedEvent" /\ UNCHANGED HostData /\ alive.host
  BY HostMoves DEF IInv, PublishEnqueued, HostPcs, Life
<1>2. UNCHANGED <<event, alive, remote, fence, bridgeQ, hostQ, tex, screen, bridge>>
  BY DEF PublishEnqueued, gpuVars
<1>3. /\ shared'.state = shared.state /\ shared'.frameSeq = shared.frameSeq
      /\ shared'.enqueuedSeq = host.seq /\ shared'.completedSeq = shared.completedSeq
      /\ shared'.configGeneration = shared.configGeneration
      /\ shared'.resourceGeneration = shared.resourceGeneration
      /\ shared'.inputFence = shared.inputFence /\ shared'.outputFence = shared.outputFence
      /\ shared'.present = shared.present /\ shared'.handle = shared.handle
      /\ shared'.stopRequested = shared.stopRequested
  BY DEF IInv, Bounded, TypeOK, SharedType, PublishEnqueued
<1>4. ~Unseen /\ ~Settled /\ host.seq = shared.frameSeq /\ SeqNumbers
  BY <1>1, Numeric DEF IInv, Frames, Working, WorkPcs, Settled
<1>5. ~ConfigDue
  BY <1>1, <1>4 DEF IInv, Configuration
<1>p1. Life'
  BY <1>1, <1>2, <1>3 DEF IInv, Life, Quitting, HostData
<1>p2. BridgeQueue'
  BY <1>1, <1>2, <1>3 DEF IInv, BridgeQueue, BridgeOp, SignalsInOrder, Outstanding, Requesting, HostData
<1>p3. HostQueue'
  BY <1>1, <1>2, <1>3 DEF IInv, HostQueue, Work, HostData
<1>p4. Frames'
  BY <1>1, <1>2, <1>3, <1>4 DEF IInv, Frames, Unseen, Working, WorkPcs, HostData, SeqNumbers
<1>p5. Stamps'
  BY <1>1, <1>2, <1>3 DEF IInv, Stamps, Outstanding, Requesting, Quitting, HostData
<1>p6. Fences'
  BY <1>1, <1>2, <1>3 DEF IInv, Fences, Ahead, Begun, Unseen, HostData
<1>p7. Delivery'
  BY <1>1, <1>2, <1>3 DEF IInv, Delivery, Delivered, Ahead, Unseen, HostData
<1>p8. Ownership'
  BY <1>1, <1>2, <1>3 DEF IInv, Ownership, Quitting, Outstanding, Requesting, Settled, Lost, Unseen, Working, WorkPcs, NoSignal, HostFailed, HostData
<1>p9. Failure'
  BY <1>1, <1>2, <1>3, <1>4 DEF IInv, Failure, Requesting, Lost, Unseen, WorkPcs, NoSignal, HostFailed, HostData
<1>p10. Product'
  BY <1>1, <1>2, <1>3 DEF IInv, Product, Outstanding, Requesting, Preparing, Unseen, NoWork, Work, OutputReady, HostData
<1>p11. Configuration'
  BY <1>1, <1>2, <1>3, <1>5 DEF IInv, Configuration, Quitting, Outstanding, Requesting, ConfigDue, ConfigPcs, Unnoticed, Settled, Unseen, Working, WorkPcs, HostData
<1>p12. TextureSets'
  BY <1>1, <1>2, <1>3, <1>5 DEF IInv, TextureSets, Outstanding, Requesting, Handed, Awaited, Unnoticed, HostFailed, HostData, ConfigDue
<1>p13. Handles'
  BY <1>1, <1>2, <1>3, <1>5 DEF IInv, Handles, NoHandles, ConfigDue, ConfigPcs, Unnoticed, HostData
<1> QED
  BY <1>p1, <1>p2, <1>p3, <1>p4, <1>p5, <1>p6, <1>p7, <1>p8, <1>p9, <1>p10, <1>p11, <1>p12, <1>p13 DEF IInv, WaitsWork


\* The result of the frame: the host may have failed with it.
LEMMA PublishResultExact ==
  ASSUME IInv, Bounded', PublishResult, UNCHANGED bridge
  PROVE  IInv'
<1>1. host.pc = "result" /\ host'.pc = "complete" /\ UNCHANGED HostData /\ alive.host
  BY HostMoves DEF IInv, PublishResult, HostPcs, Life
<1>2. UNCHANGED <<event, alive, remote, fence, bridgeQ, hostQ, tex, screen, bridge>>
  BY DEF PublishResult, gpuVars
<1>3. /\ shared'.state = (IF host.success THEN "Active" ELSE "Error") /\ shared'.frameSeq = shared.frameSeq
      /\ shared'.enqueuedSeq = shared.enqueuedSeq /\ shared'.completedSeq = shared.completedSeq
      /\ shared'.configGeneration = shared.configGeneration
      /\ shared'.resourceGeneration = shared.resourceGeneration
      /\ shared'.inputFence = shared.inputFence /\ shared'.outputFence = shared.outputFence
      /\ shared'.present = shared.present /\ shared'.handle = shared.handle
      /\ shared'.stopRequested = shared.stopRequested
  BY DEF IInv, Bounded, TypeOK, SharedType, PublishResult
<1>4. ~Unseen /\ ~Settled /\ host.seq = shared.frameSeq /\ SeqNumbers
  BY <1>1, Numeric DEF IInv, Frames, Working, WorkPcs, Settled
<1>5. ~ConfigDue
  BY <1>1, <1>4 DEF IInv, Configuration
<1>6. ~Lost /\ shared.enqueuedSeq = shared.frameSeq
  BY <1>1 DEF IInv, Lost, WorkPcs, Frames
<1>7. Outstanding \/ Quitting
  BY <1>1, <1>4, <1>6 DEF IInv, Ownership
<1>8. bridge.pc \notin {"bump", "wake", "await", "stamp", "number"} \/ Quitting
  BY <1>1, <1>7 DEF IInv, Stamps, Outstanding, Requesting
<1>p1. Life'
  BY <1>1, <1>2, <1>3 DEF IInv, Life, Quitting, HostData
<1>p2. BridgeQueue'
  BY <1>1, <1>2, <1>3 DEF IInv, BridgeQueue, BridgeOp, SignalsInOrder, Outstanding, Requesting, HostData
<1>p3. HostQueue'
  BY <1>1, <1>2, <1>3 DEF IInv, HostQueue, Work, HostData
<1>p4. Frames'
  BY <1>1, <1>2, <1>3, <1>4 DEF IInv, Frames, Unseen, Working, WorkPcs, HostData
<1>p5. Stamps'
  BY <1>1, <1>2, <1>3 DEF IInv, Stamps, Outstanding, Requesting, Quitting, HostData
<1>p6. Fences'
  BY <1>1, <1>2, <1>3 DEF IInv, Fences, Ahead, Begun, Unseen, HostData
<1>p7. Delivery'
  BY <1>1, <1>2, <1>3 DEF IInv, Delivery, Delivered, Ahead, Unseen, HostData
<1>p8. Ownership'
  BY <1>1, <1>2, <1>3, <1>7 DEF IInv, Ownership, Quitting, Outstanding, Requesting, Settled, Lost, Unseen, Working, WorkPcs, NoSignal, HostFailed, HostData
<1>p9. Failure'
  BY <1>1, <1>2, <1>3, <1>6, <1>8 DEF IInv, Failure, Requesting, Lost, Unseen, WorkPcs, NoSignal, HostFailed, HostData, Quitting
<1>p10. Product'
  BY <1>1, <1>2, <1>3 DEF IInv, Product, Outstanding, Requesting, Preparing, Unseen, NoWork, Work, OutputReady, HostData
<1>p11. Configuration'
  BY <1>1, <1>2, <1>3, <1>5, <1>8 DEF IInv, Configuration, Quitting, Outstanding, Requesting, ConfigDue, ConfigPcs, Unnoticed, Settled, Unseen, Working, WorkPcs, HostData
<1>p12. TextureSets'
  BY <1>1, <1>2, <1>3, <1>5, <1>8 DEF IInv, TextureSets, Outstanding, Requesting, Handed, Awaited, Unnoticed, HostFailed, HostData, ConfigDue, Quitting
<1>p13. Handles'
  BY <1>1, <1>2, <1>3, <1>5 DEF IInv, Handles, NoHandles, ConfigDue, ConfigPcs, Unnoticed, HostData
<1> QED
  BY <1>p1, <1>p2, <1>p3, <1>p4, <1>p5, <1>p6, <1>p7, <1>p8, <1>p9, <1>p10, <1>p11, <1>p12, <1>p13 DEF IInv, WaitsWork


\* The frame is complete: from here on its answer can be proved.
LEMMA PublishCompletedExact ==
  ASSUME IInv, Bounded', PublishCompleted, UNCHANGED bridge
  PROVE  IInv'
<1>1. host.pc = "complete" /\ host'.pc = "completeEvent" /\ UNCHANGED HostData /\ alive.host
  BY HostMoves DEF IInv, PublishCompleted, HostPcs, Life
<1>2. UNCHANGED <<event, alive, remote, fence, bridgeQ, hostQ, tex, screen, bridge>>
  BY DEF PublishCompleted, gpuVars
<1>3. /\ shared'.state = shared.state /\ shared'.frameSeq = shared.frameSeq
      /\ shared'.enqueuedSeq = shared.enqueuedSeq /\ shared'.completedSeq = host.seq
      /\ shared'.configGeneration = shared.configGeneration
      /\ shared'.resourceGeneration = shared.resourceGeneration
      /\ shared'.inputFence = shared.inputFence /\ shared'.outputFence = shared.outputFence
      /\ shared'.present = shared.present /\ shared'.handle = shared.handle
      /\ shared'.stopRequested = shared.stopRequested
  BY DEF IInv, Bounded, TypeOK, SharedType, PublishCompleted
<1>4. ~Unseen /\ ~Settled /\ host.seq = shared.frameSeq /\ SeqNumbers
  BY <1>1, Numeric DEF IInv, Frames, Working, WorkPcs, Settled
<1>5. ~ConfigDue
  BY <1>1, <1>4 DEF IInv, Configuration
<1>6. shared.completedSeq < shared.frameSeq
  BY <1>1 DEF IInv, Frames, Working
<1>7. bridge.pc # "finish"
  BY <1>4, <1>6 DEF IInv, Product, OutputReady, SeqNumbers
<1>p1. Life'
  BY <1>1, <1>2, <1>3 DEF IInv, Life, Quitting, HostData
<1>p2. BridgeQueue'
  BY <1>1, <1>2, <1>3 DEF IInv, BridgeQueue, BridgeOp, SignalsInOrder, Outstanding, Requesting, HostData
<1>p3. HostQueue'
  BY <1>1, <1>2, <1>3 DEF IInv, HostQueue, Work, HostData
<1>p4. Frames'
  BY <1>1, <1>2, <1>3, <1>4 DEF IInv, Frames, Unseen, Working, WorkPcs, HostData, SeqNumbers
<1>p5. Stamps'
  BY <1>1, <1>2, <1>3 DEF IInv, Stamps, Outstanding, Requesting, Quitting, HostData
<1>p6. Fences'
  BY <1>1, <1>2, <1>3 DEF IInv, Fences, Ahead, Begun, Unseen, HostData
<1>p7. Delivery'
  BY <1>1, <1>2, <1>3 DEF IInv, Delivery, Delivered, Ahead, Unseen, HostData
<1>p8. Ownership'
  BY <1>1, <1>2, <1>3 DEF IInv, Ownership, Quitting, Outstanding, Requesting, Settled, Lost, Unseen, Working, WorkPcs, NoSignal, HostFailed, HostData
<1>p9. Failure'
  BY <1>1, <1>2, <1>3 DEF IInv, Failure, Requesting, Lost, Unseen, WorkPcs, NoSignal, HostFailed, HostData
<1>p10. Product'
  BY <1>1, <1>2, <1>3, <1>7 DEF IInv, Product, Outstanding, Requesting, Preparing, Unseen, NoWork, Work, OutputReady, HostData
<1>p11. Configuration'
  BY <1>1, <1>2, <1>3, <1>5 DEF IInv, Configuration, Quitting, Outstanding, Requesting, ConfigDue, ConfigPcs, Unnoticed, Settled, Unseen, Working, WorkPcs, HostData
<1>p12. TextureSets'
  BY <1>1, <1>2, <1>3, <1>5 DEF IInv, TextureSets, Outstanding, Requesting, Handed, Awaited, Unnoticed, HostFailed, HostData, ConfigDue
<1>p13. Handles'
  BY <1>1, <1>2, <1>3, <1>5 DEF IInv, Handles, NoHandles, ConfigDue, ConfigPcs, Unnoticed, HostData
<1> QED
  BY <1>p1, <1>p2, <1>p3, <1>p4, <1>p5, <1>p6, <1>p7, <1>p8, <1>p9, <1>p10, <1>p11, <1>p12, <1>p13 DEF IInv, WaitsWork


\* The host stops: the bridge has quit.
LEMMA StopHostExact ==
  ASSUME IInv, Bounded', StopHost, UNCHANGED bridge
  PROVE  IInv'
<1>1. host.pc = "shutdown" /\ host'.pc = "stopping" /\ UNCHANGED HostData /\ alive.host
  BY HostMoves DEF IInv, StopHost, HostPcs, Life
<1>2. UNCHANGED <<event, alive, fence, bridgeQ, hostQ, tex, screen, bridge>>
  BY DEF StopHost, gpuVars
<1>3. /\ shared'.state = "Stopping" /\ shared'.frameSeq = shared.frameSeq
      /\ shared'.enqueuedSeq = shared.enqueuedSeq /\ shared'.completedSeq = shared.completedSeq
      /\ shared'.configGeneration = shared.configGeneration
      /\ shared'.resourceGeneration = shared.resourceGeneration
      /\ shared'.inputFence = shared.inputFence /\ shared'.outputFence = shared.outputFence
      /\ shared'.present = shared.present
      /\ shared'.stopRequested = shared.stopRequested
      /\ \A t \in Textures : shared'.handle[t] = 0
  BY DEF IInv, Bounded, TypeOK, SharedType, StopHost, Fields
<1>4. Quitting
  BY <1>1 DEF IInv, Life
<1>p1. Life'
  BY <1>1, <1>2, <1>3, <1>4 DEF IInv, Life, Quitting, HostData
<1>p2. BridgeQueue'
  BY <1>1, <1>2, <1>3, <1>4 DEF IInv, BridgeQueue, BridgeOp, SignalsInOrder, Outstanding, Requesting, HostData
<1>p3. HostQueue'
  BY <1>1, <1>2, <1>3, <1>4 DEF IInv, HostQueue, Work, HostData
<1>p4. Frames'
  BY <1>1, <1>2, <1>3, <1>4 DEF IInv, Frames, Unseen, Working, WorkPcs, HostData
<1>p5. Stamps'
  BY <1>1, <1>2, <1>3, <1>4 DEF IInv, Stamps, Outstanding, Requesting, Quitting, HostData
<1>p6. Fences'
  BY <1>1, <1>2, <1>3, <1>4 DEF IInv, Fences, Ahead, Begun, Unseen, HostData
<1>p7. Delivery'
  BY <1>1, <1>2, <1>3, <1>4 DEF IInv, Delivery, Delivered, Ahead, Unseen, HostData
<1>p8. Ownership'
  BY <1>1, <1>2, <1>3, <1>4 DEF IInv, Ownership, Quitting, Outstanding, Requesting, Settled, Lost, Unseen, Working, WorkPcs, NoSignal, HostFailed, HostData
<1>p9. Failure'
  BY <1>1, <1>2, <1>3, <1>4 DEF IInv, Failure, Requesting, Lost, Unseen, WorkPcs, NoSignal, HostFailed, HostData, Quitting, Outstanding
<1>p10. Product'
  BY <1>1, <1>2, <1>3, <1>4 DEF IInv, Product, Outstanding, Requesting, Preparing, Unseen, NoWork, Work, OutputReady, HostData, Quitting
<1>p11. Configuration'
  BY <1>1, <1>2, <1>3, <1>4 DEF IInv, Configuration, Quitting, Outstanding, Requesting, ConfigDue, ConfigPcs, Unnoticed, Settled, Unseen, Working, WorkPcs, HostData
<1>p12. TextureSets'
  BY <1>1, <1>2, <1>3, <1>4 DEF IInv, TextureSets, Outstanding, Requesting, Handed, Awaited, Unnoticed, HostFailed, HostData, Quitting
<1>p13. Handles'
  BY <1>1, <1>2, <1>3, <1>4 DEF IInv, Handles, NoHandles, ConfigDue, ConfigPcs, Unnoticed, HostData, Quitting, Outstanding, Requesting
<1> QED
  BY <1>p1, <1>p2, <1>p3, <1>p4, <1>p5, <1>p6, <1>p7, <1>p8, <1>p9, <1>p10, <1>p11, <1>p12, <1>p13 DEF IInv, WaitsWork


\* The host process ends: nothing of a frame is left to come.
LEMMA GoneExact ==
  ASSUME IInv, Bounded', Gone, UNCHANGED bridge
  PROVE  IInv'
<1>1. host'.pc = "exited" /\ UNCHANGED HostData
  BY HostMoves DEF IInv, Gone, HostPcs
<1>2. /\ alive'.host = FALSE /\ alive'.bridge = alive.bridge /\ hostQ' = <<>>
      /\ UNCHANGED <<shared, event, fence, bridgeQ, tex, screen, bridge>>
  BY DEF Gone, IInv, Bounded, TypeOK
<1>p1. Life'
  BY <1>1, <1>2 DEF IInv, Life, Quitting, HostData
<1>p2. BridgeQueue'
  BY <1>1, <1>2 DEF IInv, BridgeQueue, BridgeOp, SignalsInOrder, Outstanding, Requesting, HostData
<1>p3. HostQueue'
  BY <1>1, <1>2 DEF IInv, HostQueue, Work, HostData
<1>p4. Frames'
  BY <1>1, <1>2 DEF IInv, Frames, Unseen, Working, WorkPcs, HostData
<1>p5. Stamps'
  BY <1>1, <1>2 DEF IInv, Stamps, Outstanding, Requesting, Quitting, HostData
<1>p6. Fences'
  BY <1>1, <1>2 DEF IInv, Fences, Ahead, Begun, Unseen, HostData
<1>p7. Delivery'
  BY <1>1, <1>2 DEF IInv, Delivery, Delivered, Ahead, Unseen, HostData
<1>p8. Ownership'
  BY <1>1, <1>2 DEF IInv, Ownership, Quitting, Outstanding, Requesting, Settled, Lost, Unseen, Working, WorkPcs, NoSignal, HostFailed, HostData
<1>p9. Failure'
  BY <1>1, <1>2 DEF IInv, Failure, Requesting, Lost, Unseen, WorkPcs, NoSignal, HostFailed, HostData
<1>p10. Product'
  BY <1>1, <1>2 DEF IInv, Product, Outstanding, Requesting, Preparing, Unseen, NoWork, Work, OutputReady, HostData
<1>p11. Configuration'
  BY <1>1, <1>2 DEF IInv, Configuration, Quitting, Outstanding, Requesting, ConfigDue, ConfigPcs, Unnoticed, Settled, Unseen, Working, WorkPcs, HostData
<1>p12. TextureSets'
  BY <1>1, <1>2 DEF IInv, TextureSets, Outstanding, Requesting, Handed, Awaited, Unnoticed, HostFailed, HostData
<1>p13. Handles'
  BY <1>1, <1>2 DEF IInv, Handles, NoHandles, ConfigDue, ConfigPcs, Unnoticed, HostData
<1> QED
  BY <1>p1, <1>p2, <1>p3, <1>p4, <1>p5, <1>p6, <1>p7, <1>p8, <1>p9, <1>p10, <1>p11, <1>p12, <1>p13 DEF IInv, WaitsWork


\* The main wait consumes an event, or turns to the shutdown.
LEMMA WaitExact ==
  ASSUME IInv, Bounded', Wait, UNCHANGED bridge
  PROVE  IInv'
<1>1. /\ Bounded /\ host.pc = "wait" /\ event \in EventType
      /\ UNCHANGED <<bridge, shared, alive, remote, fence, bridgeQ, hostQ, tex, screen>>
  BY DEF IInv, Bounded, TypeOK, Wait, gpuVars
<1>2. event'.stop = event.stop
  BY <1>1 DEF Wait, EventType
<1>3. \/ host' = HostGoto("check")
      \/ host' = HostGoto("shutdown") /\ Quitting
  BY DEF Wait, IInv, Life, Quitting
<1>4. CASE host' = HostGoto("check")
  <2>1. host'.pc = "check" /\ UNCHANGED HostData
    BY <1>1, <1>4, HostMoves DEF HostPcs
  <2> QED
    BY <1>1, <1>2, <2>1, HostGoingOn DEF HostGoesOn
<1>5. CASE host' = HostGoto("shutdown") /\ Quitting
  <2>1. host'.pc = "shutdown" /\ UNCHANGED HostData
    BY <1>1, <1>5, HostMoves DEF HostPcs
  <2> QED
    BY <1>1, <1>2, <1>5, <2>1, HostGoingOn DEF HostGoesOn
<1> QED
  BY <1>3, <1>4, <1>5

\* A new configuration generation is taken note of.
LEMMA CheckGenerationExact ==
  ASSUME IInv, Bounded', CheckGeneration, UNCHANGED bridge
  PROVE  IInv'
<1>1. CASE shared.configGeneration # host.configSeen
  BY <1>1, NoticeExact
<1>2. CASE shared.configGeneration = host.configSeen
  <2>1. /\ Bounded /\ host.pc = "check" /\ host' = HostGoto("frame")
        /\ UNCHANGED <<bridge, shared, event, alive, remote, fence, bridgeQ, hostQ, tex, screen>>
    BY <1>2 DEF IInv, CheckGeneration, ipcVars
  <2>2. host'.pc = "frame" /\ UNCHANGED HostData
    BY <2>1, HostMoves DEF HostPcs
  <2> QED
    BY <2>1, <2>2, HostGoingOn DEF HostGoesOn
<1> QED
  BY <1>1, <1>2

\* A feature that cannot be created fails the configuration.
LEMMA FeatureFailsExact ==
  ASSUME IInv, Bounded', FeatureFails, UNCHANGED bridge
  PROVE  IInv'
<1>1. /\ Bounded /\ host.pc = "feature" /\ host' = HostGoto("configFailed")
      /\ UNCHANGED <<bridge, shared, event, alive, remote, fence, bridgeQ, hostQ, tex, screen>>
  BY DEF IInv, FeatureFails, ipcVars
<1>2. host'.pc = "configFailed" /\ UNCHANGED HostData
  BY <1>1, HostMoves DEF HostPcs
<1> QED
  BY <1>1, <1>2, HostGoingOn DEF HostGoesOn

\* A frame is begun, or there is none to begin.
LEMMA BeginFrameStepExact ==
  ASSUME IInv, Bounded', BeginFrame, UNCHANGED bridge
  PROVE  IInv'
<1>1. CASE shared.frameSeq > host.frameSeen /\ host.feature # NoFeature
  BY <1>1, BeginFrameExact
<1>2. CASE host' = HostGoto("wait") /\ UNCHANGED hostQ
  <2>1. /\ Bounded /\ host.pc = "frame"
        /\ UNCHANGED <<bridge, shared, event, alive, remote, fence, bridgeQ, hostQ, tex, screen>>
    BY <1>2 DEF IInv, BeginFrame
  <2>2. host'.pc = "wait" /\ UNCHANGED HostData
    BY <1>2, <2>1, HostMoves DEF HostPcs
  <2> QED
    BY <2>1, <2>2, HostGoingOn DEF HostGoesOn
<1> QED
  BY <1>1, <1>2 DEF BeginFrame

\* Setting the done event changes no data.
LEMMA AnnounceExact ==
  ASSUME IInv, Bounded', AnnounceEnqueued \/ AnnounceCompleted, UNCHANGED bridge
  PROVE  IInv'
<1>1. /\ Bounded /\ event \in EventType
      /\ UNCHANGED <<bridge, shared, alive, remote, fence, bridgeQ, hostQ, tex, screen>>
      /\ event' = [event EXCEPT !.done = TRUE]
  BY DEF IInv, Bounded, TypeOK, AnnounceEnqueued, AnnounceCompleted, SetDone, gpuVars
<1>2. event'.stop = event.stop
  BY <1>1 DEF EventType
<1>3. CASE host.pc = "enqueuedEvent" /\ host' = HostGoto("result")
  <2>1. host'.pc = "result" /\ UNCHANGED HostData
    BY <1>1, <1>3, HostMoves DEF HostPcs
  <2> QED
    BY <1>1, <1>2, <1>3, <2>1, HostGoingOn DEF HostGoesOn
<1>4. CASE host.pc = "completeEvent" /\ host' = HostGoto("wait")
  <2>1. host'.pc = "wait" /\ UNCHANGED HostData
    BY <1>1, <1>4, HostMoves DEF HostPcs
  <2> QED
    BY <1>1, <1>2, <1>4, <2>1, HostGoingOn DEF HostGoesOn
<1> QED
  BY <1>3, <1>4 DEF AnnounceEnqueued, AnnounceCompleted, SetDone

\* Every step of the host process preserves the invariant.
LEMMA HostKeepsExact == IInv /\ Bounded' /\ HostNext => IInv'
<1> SUFFICES ASSUME IInv, Bounded', HostNext PROVE IInv'
  OBVIOUS
<1>1. UNCHANGED bridge
  BY DEF HostNext
<1>2. ASSUME NEW f \in Fields, Import(f) PROVE IInv'
  BY <1>1, <1>2, ImportExact
<1>3. ASSUME NEW outcome \in Outcomes, Record(outcome) PROVE IInv'
  BY <1>1, <1>3, RecordExact
<1>4. ASSUME NEW outcome \in Outcomes, SignalFails(outcome) PROVE IInv'
  BY <1>1, <1>4, SignalFailsExact
<1>5. ASSUME OpenFails \/ Exit \/ HostCrash PROVE IInv'
  BY <1>1, <1>5, GoneExact DEF OpenFails, Exit, HostCrash
<1> QED
  BY <1>1, <1>2, <1>3, <1>4, <1>5, OpenMappingExact, OpenBridgeExact, WaitExact, CheckGenerationExact,
     BeginConfigureExact, RetireQueueExact, RetireFailsExact, ImportFailsExact,
     ImportedExact, FeatureReadyExact, FeatureFailsExact, ConfigureFailedExact,
     BeginFrameStepExact, PublishEnqueuedExact, AnnounceExact, PublishResultExact,
     PublishCompletedExact, StopHostExact
     DEF HostNext, HostSteps

\* What taking the oldest operation leaves of a queue.
LEMMA Tails ==
  ASSUME NEW queue \in Seq(Ops), queue # <<>>
  PROVE  /\ Head(queue) = queue[1] /\ queue[1] \in Ops
         /\ Len(queue) \in Nat \ {0} /\ Len(Tail(queue)) = Len(queue) - 1
         /\ \A i \in 1..Len(Tail(queue)) : Tail(queue)[i] = queue[i + 1]
         /\ Tail(queue) = <<>> <=> Len(queue) = 1
<1>1. Len(queue) \in Nat \ {0} /\ Head(queue) = queue[1] /\ queue[1] \in Ops
  OBVIOUS
<1>2. Tail(queue) \in Seq(Ops) /\ Len(Tail(queue)) = Len(queue) - 1
  OBVIOUS
<1>3. \A i \in 1..Len(Tail(queue)) : Tail(queue)[i] = queue[i + 1]
  BY <1>1, <1>2
<1>4. Tail(queue) = <<>> <=> Len(Tail(queue)) = 0
  <2>1. \A s \in Seq(Ops) : s = <<>> <=> Len(s) = 0
    OBVIOUS
  <2> QED
    BY <1>2, <2>1, Zenon
<1>5. Tail(queue) = <<>> <=> Len(queue) = 1
  BY <1>1, <1>2, <1>4
<1> QED
  BY <1>1, <1>2, <1>3, <1>5

\* The bridge's GPU takes its oldest operation.
BridgeTakes ==
  /\ bridgeQ # <<>> /\ bridgeQ' = Tail(bridgeQ)
  /\ UNCHANGED <<shared, alive, remote, hostQ, bridge, host>> /\ event'.stop = event.stop

\* What is left of the bridge's queue after its head.
LEMMA BridgeTails ==
  ASSUME IInv, BridgeTakes
  PROVE  /\ Len(bridgeQ) \in Nat \ {0} /\ Len(bridgeQ') = Len(bridgeQ) - 1
         /\ \A i \in 1..Len(bridgeQ') : bridgeQ'[i] = bridgeQ[i + 1]
         /\ bridgeQ' = <<>> <=> Len(bridgeQ) = 1
         /\ Head(bridgeQ) = bridgeQ[1] /\ bridgeQ[1] \in Ops
         /\ alive.bridge
BY Tails DEF IInv, Bounded, TypeOK, BridgeTakes, Life

\* The rest of the queue is as it was, and holds no copy to the screen.
LEMMA BridgeRests ==
  ASSUME IInv, Bounded', BridgeTakes, UNCHANGED fence,
         \A g \in Ordinals : tex'[g].output = tex[g].output
  PROVE  BridgeQueue'
<1>1. /\ Len(bridgeQ) \in Nat \ {0} /\ Len(bridgeQ') = Len(bridgeQ) - 1
      /\ \A i \in 1..Len(bridgeQ') : bridgeQ'[i] = bridgeQ[i + 1]
      /\ bridgeQ' = <<>> <=> Len(bridgeQ) = 1
  BY BridgeTails
<1>2. \A i \in 1..Len(bridgeQ') : i + 1 \in 1..Len(bridgeQ) /\ i + 1 # 1
  BY <1>1
<1>3. ASSUME NEW i \in 1..Len(bridgeQ') PROVE BridgeOp(i)'
  <2>1. BridgeOp(i + 1) /\ i + 1 # 1 /\ bridgeQ'[i] = bridgeQ[i + 1]
    BY <1>1, <1>2 DEF IInv, BridgeQueue
  <2> QED
    BY <2>1 DEF BridgeOp, BridgeTakes
<1>4. ASSUME NEW i \in 1..Len(bridgeQ'), NEW j \in 1..Len(bridgeQ') PROVE SignalsInOrder(i, j)'
  <2>1. SignalsInOrder(i + 1, j + 1)
    BY <1>2 DEF IInv, BridgeQueue
  <2>2. i < j => i + 1 < j + 1
    BY <1>1
  <2> QED
    BY <1>1, <2>1, <2>2 DEF SignalsInOrder
<1>5. bridgeQ' # <<>> => bridgeQ'[Len(bridgeQ')] = bridgeQ[Len(bridgeQ)]
  BY <1>1
<1> QED
  BY <1>1, <1>3, <1>4, <1>5 DEF IInv, BridgeQueue, BridgeTakes, Outstanding, Requesting

\* Delivery is kept by a step that leaves delivered frames delivered.
LEMMA DeliveryKept ==
  ASSUME Delivery, UNCHANGED <<shared, bridge, host>>,
         alive'.host => alive.host, alive'.bridge => alive.bridge, Ahead' => Ahead,
         host.textures \in Ordinals, bridge.generation \in Ordinals,
         \A v, p : \A g \in Ordinals : Delivered(v, g, p) => Delivered(v, g, p)'
  PROVE  Delivery'
<1>1. ASSUME alive'.host, alive'.bridge, Ahead'
      PROVE  Delivered(shared.inputFence, host.textures, shared.present)'
  <2>1. PICK v, g, p : v = shared.inputFence /\ g = host.textures /\ p = shared.present
    OBVIOUS
  <2>2. Delivered(v, g, p)
    BY <1>1, <2>1 DEF Delivery
  <2>3. Delivered(v, g, p)'
    BY <2>1, <2>2
  <2>4. v = shared'.inputFence /\ g = host'.textures /\ p = shared'.present
    BY <2>1
  <2> QED
    BY <2>3, <2>4 DEF Delivered
<1>2. ASSUME alive'.host, bridge'.pc \in {"stamp", "number"}
      PROVE  Delivered(bridge.fenceValue - 1, bridge.generation, shared.present)'
  <2>1. PICK v, g, p : v = bridge.fenceValue - 1 /\ g = bridge.generation /\ p = shared.present
    OBVIOUS
  <2>2. Delivered(v, g, p)
    BY <1>2, <2>1 DEF Delivery
  <2>3. Delivered(v, g, p)'
    BY <2>1, <2>2
  <2>4. v = bridge'.fenceValue - 1 /\ g = bridge'.generation /\ p = shared'.present
    BY <2>1
  <2> QED
    BY <2>3, <2>4 DEF Delivered
<1> QED
  BY <1>1, <1>2 DEF Delivery

\* Copying a frame into the inputs: no output changes, and what is delivered is.
LEMMA BridgeCopiesIn ==
  ASSUME IInv, Bounded', BridgeTakes, UNCHANGED <<fence, screen>>,
         bridgeQ[1].kind = "copyIn",
         tex' = [tex EXCEPT ![bridgeQ[1].gen].input = bridgeQ[1].n]
  PROVE  IInv'
<1> USE DEF BridgeTakes
<1>1. /\ Len(bridgeQ) \in Nat \ {0} /\ Len(bridgeQ') = Len(bridgeQ) - 1
      /\ \A i \in 1..Len(bridgeQ') : bridgeQ'[i] = bridgeQ[i + 1]
      /\ bridgeQ' = <<>> <=> Len(bridgeQ) = 1
      /\ bridgeQ[1] \in Ops /\ alive.bridge
  BY BridgeTails
<1>2. \A g \in Ordinals : /\ tex'[g].output = tex[g].output
                          /\ tex'[g].input = IF g = bridgeQ[1].gen THEN bridgeQ[1].n ELSE tex[g].input
  BY DEF IInv, Bounded, TypeOK
<1>3. host.textures \in Ordinals /\ bridge.generation \in Ordinals
  BY DEF IInv, Bounded, TypeOK, BridgeType, HostType
<1>4. \A v, p : \A g \in Ordinals : Delivered(v, g, p) => Delivered(v, g, p)'
  <2> SUFFICES ASSUME NEW v, NEW p, NEW g \in Ordinals, Delivered(v, g, p)
               PROVE  Delivered(v, g, p)'
    OBVIOUS
  <2>1. /\ fence < v /\ bridgeQ[Len(bridgeQ)].kind = "signal" /\ bridgeQ[Len(bridgeQ)].n = v
        /\ IF Len(bridgeQ) = 1 THEN tex[g].input = p
           ELSE bridgeQ[Len(bridgeQ) - 1] = Op("copyIn", p, g)
    BY DEF Delivered
  <2>2. Len(bridgeQ) # 1
    BY <2>1
  <2>3. bridgeQ'[Len(bridgeQ')] = bridgeQ[Len(bridgeQ)]
    BY <1>1, <2>2
  <2>4. CASE Len(bridgeQ) = 2
    <3>1. bridgeQ[1] = Op("copyIn", p, g)
      BY <2>1, <2>4
    <3>2. tex'[g].input = p
      BY <1>2, <3>1 DEF Op
    <3> QED
      BY <1>1, <2>1, <2>3, <2>4, <3>2 DEF Delivered
  <2>5. CASE Len(bridgeQ) > 2
    <3>1. bridgeQ'[Len(bridgeQ') - 1] = bridgeQ[Len(bridgeQ) - 1] /\ Len(bridgeQ') # 1
      BY <1>1, <2>5
    <3> QED
      BY <1>1, <2>1, <2>2, <2>3, <3>1 DEF Delivered
  <2> QED
    BY <1>1, <2>2, <2>4, <2>5
<1>p1. Life'
  BY DEF IInv, Life, Quitting
<1>p2. BridgeQueue'
  BY <1>2, BridgeRests
<1>p3. HostQueue'
  BY DEF IInv, HostQueue
<1>p4. Frames'
  BY DEF IInv, Frames, Unseen, Working
<1>p5. Stamps'
  BY DEF IInv, Stamps, Outstanding, Requesting, Quitting
<1>p6. Fences'
  BY DEF IInv, Fences, Ahead, Begun, Unseen
<1>p7. Delivery'
  BY <1>3, <1>4, DeliveryKept DEF IInv, Ahead, Unseen
<1>p8. Ownership'
  BY DEF IInv, Ownership, Settled, Lost, Unseen, Working, NoSignal, HostFailed, Outstanding, Requesting, Quitting
<1>p9. Failure'
  BY DEF IInv, Failure, Lost, Unseen, NoSignal, HostFailed, Requesting
<1>p10. Product'
  BY <1>2, <1>3 DEF IInv, Product, Unseen, NoWork, Outstanding, Requesting, OutputReady, Preparing
<1>p11. Configuration'
  BY DEF IInv, Configuration, ConfigDue, Unnoticed, Settled, Unseen, Working, Outstanding, Requesting, Quitting
<1>p12. TextureSets'
  BY DEF IInv, TextureSets, Handed, Awaited, Unnoticed, HostFailed, Outstanding, Requesting
<1>p13. Handles'
  BY DEF IInv, Handles, NoHandles, ConfigDue, Unnoticed
<1> QED
  BY <1>p1, <1>p2, <1>p3, <1>p4, <1>p5, <1>p6, <1>p7, <1>p8, <1>p9, <1>p10, <1>p11, <1>p12, <1>p13
     DEF IInv, WaitsWork
\* The answer reaches the screen; the textures stay what they are.
LEMMA BridgeCopiesOut ==
  ASSUME IInv, Bounded', BridgeTakes, UNCHANGED <<fence, tex>>, bridgeQ[1].kind = "copyOut"
  PROVE  IInv'
<1> USE DEF BridgeTakes
<1>1. /\ Len(bridgeQ) \in Nat \ {0} /\ Len(bridgeQ') = Len(bridgeQ) - 1
      /\ \A i \in 1..Len(bridgeQ') : bridgeQ'[i] = bridgeQ[i + 1]
      /\ bridgeQ' = <<>> <=> Len(bridgeQ) = 1
      /\ bridgeQ[1] \in Ops /\ alive.bridge
  BY BridgeTails
<1>3. host.textures \in Ordinals /\ bridge.generation \in Ordinals
  BY DEF IInv, Bounded, TypeOK, BridgeType, HostType
<1>4. \A v, p : \A g \in Ordinals : Delivered(v, g, p) => Delivered(v, g, p)'
  <2> SUFFICES ASSUME NEW v, NEW p, NEW g \in Ordinals, Delivered(v, g, p)
               PROVE  Delivered(v, g, p)'
    OBVIOUS
  <2>1. /\ fence < v /\ bridgeQ[Len(bridgeQ)].kind = "signal" /\ bridgeQ[Len(bridgeQ)].n = v
        /\ IF Len(bridgeQ) = 1 THEN tex[g].input = p
           ELSE bridgeQ[Len(bridgeQ) - 1] = Op("copyIn", p, g)
    BY DEF Delivered
  <2>2. Len(bridgeQ) # 1
    BY <2>1
  <2>3. bridgeQ'[Len(bridgeQ')] = bridgeQ[Len(bridgeQ)]
    BY <1>1, <2>2
  <2>4. Len(bridgeQ) # 2
    BY <2>1 DEF Op
  <2>5. bridgeQ'[Len(bridgeQ') - 1] = bridgeQ[Len(bridgeQ) - 1] /\ Len(bridgeQ') # 1
    BY <1>1, <2>2, <2>4
  <2> QED
    BY <1>1, <2>1, <2>2, <2>3, <2>5 DEF Delivered
<1>p1. Life'
  BY DEF IInv, Life, Quitting
<1>p2. BridgeQueue'
  BY BridgeRests
<1>p3. HostQueue'
  BY DEF IInv, HostQueue, Work
<1>p4. Frames'
  BY DEF IInv, Frames, Unseen, Working, WorkPcs
<1>p5. Stamps'
  BY DEF IInv, Stamps, Outstanding, Requesting, Quitting
<1>p6. Fences'
  BY DEF IInv, Fences, Ahead, Begun, Unseen
<1>p7. Delivery'
  BY <1>3, <1>4, DeliveryKept DEF IInv, Ahead, Unseen
<1>p8. Ownership'
  BY DEF IInv, Ownership, Quitting, Outstanding, Requesting, Settled, Lost, Unseen, Working, WorkPcs, NoSignal, HostFailed
<1>p9. Failure'
  BY DEF IInv, Failure, Requesting, Lost, Unseen, WorkPcs, NoSignal, HostFailed
<1>p10. Product'
  BY DEF IInv, Product, Outstanding, Requesting, Preparing, Unseen, NoWork, Work, OutputReady
<1>p11. Configuration'
  BY DEF IInv, Configuration, Quitting, Outstanding, Requesting, ConfigDue, ConfigPcs, Unnoticed, Settled, Unseen, Working, WorkPcs
<1>p12. TextureSets'
  BY DEF IInv, TextureSets, Outstanding, Requesting, Handed, Awaited, Unnoticed, HostFailed
<1>p13. Handles'
  BY DEF IInv, Handles, NoHandles, ConfigDue, ConfigPcs, Unnoticed
<1> QED
  BY <1>p1, <1>p2, <1>p3, <1>p4, <1>p5, <1>p6, <1>p7, <1>p8, <1>p9, <1>p10, <1>p11, <1>p12, <1>p13 DEF IInv, WaitsWork


\* The inputs are announced: the fence reaches the value of their signal.
LEMMA BridgeSignals ==
  ASSUME IInv, Bounded', BridgeTakes, UNCHANGED <<tex, screen>>,
         bridgeQ[1].kind = "signal", fence' = bridgeQ[1].n
  PROVE  IInv'
<1> USE DEF BridgeTakes
<1>1. /\ Len(bridgeQ) \in Nat \ {0} /\ Len(bridgeQ') = Len(bridgeQ) - 1
      /\ \A i \in 1..Len(bridgeQ') : bridgeQ'[i] = bridgeQ[i + 1]
      /\ bridgeQ' = <<>> <=> Len(bridgeQ) = 1
      /\ bridgeQ[1] \in Ops /\ alive.bridge
  BY BridgeTails
<1>3. host.textures \in Ordinals /\ bridge.generation \in Ordinals
  BY DEF IInv, Bounded, TypeOK, BridgeType, HostType
<1>5. FenceNumbers /\ fence' \in Nat
  BY Numeric, BoundsAssumption DEF IInv, Bounded, TypeOK, FenceValues
<1>6. fence < fence' /\ fence' < bridge.fenceValue
  <2>1. BridgeOp(1)
    BY <1>1 DEF IInv, BridgeQueue
  <2> QED
    BY <2>1 DEF BridgeOp
<1>7. \A i \in 1..Len(bridgeQ') : /\ i + 1 \in 1..Len(bridgeQ)
                                  /\ bridgeQ[i + 1].kind = "signal" => fence' < bridgeQ[i + 1].n
  <2> SUFFICES ASSUME NEW i \in 1..Len(bridgeQ')
               PROVE  /\ i + 1 \in 1..Len(bridgeQ)
                      /\ bridgeQ[i + 1].kind = "signal" => fence' < bridgeQ[i + 1].n
    OBVIOUS
  <2>1. i + 1 \in 1..Len(bridgeQ) /\ 1 \in 1..Len(bridgeQ) /\ 1 < i + 1
    BY <1>1
  <2>2. SignalsInOrder(1, i + 1)
    BY <2>1 DEF IInv, BridgeQueue
  <2> QED
    BY <2>1, <2>2 DEF SignalsInOrder
<1>8. bridgeQ' # <<>> => /\ bridgeQ'[Len(bridgeQ')] = bridgeQ[Len(bridgeQ)]
                         /\ Len(bridgeQ') \in 1..Len(bridgeQ') /\ Len(bridgeQ') + 1 = Len(bridgeQ)
  BY <1>1
<1>4. \A v, p : \A g \in Ordinals : Delivered(v, g, p) => Delivered(v, g, p)' /\ fence' <= v
  <2> SUFFICES ASSUME NEW v, NEW p, NEW g \in Ordinals, Delivered(v, g, p)
               PROVE  Delivered(v, g, p)' /\ fence' <= v
    OBVIOUS
  <2>1. /\ fence < v /\ bridgeQ[Len(bridgeQ)].kind = "signal" /\ bridgeQ[Len(bridgeQ)].n = v
        /\ IF Len(bridgeQ) = 1 THEN tex[g].input = p
           ELSE bridgeQ[Len(bridgeQ) - 1] = Op("copyIn", p, g)
    BY <1>1 DEF Delivered
  <2>2. CASE Len(bridgeQ) = 1
    <3>1. fence' = v
      BY <2>1, <2>2
    <3> QED
      BY <1>1, <1>5, <2>1, <2>2, <3>1 DEF Delivered
  <2>3. CASE Len(bridgeQ) # 1
    <3>1. fence' < v
      BY <1>1, <1>7, <1>8, <2>1, <2>3
    <3>2. v \in Nat
      BY <1>1, <2>1, SignalValue DEF IInv, Bounded, TypeOK
    <3>3. Len(bridgeQ) # 2
      BY <2>1, <2>3 DEF Op
    <3>4. bridgeQ'[Len(bridgeQ') - 1] = bridgeQ[Len(bridgeQ) - 1] /\ Len(bridgeQ') # 1
      BY <1>1, <2>3, <3>3
    <3> QED
      BY <1>1, <1>5, <1>8, <2>1, <2>3, <3>1, <3>2, <3>4 DEF Delivered
  <2> QED
    BY <2>2, <2>3
<1>9. alive.host /\ Ahead => fence' <= shared.inputFence
  BY <1>1, <1>3, <1>4 DEF IInv, Delivery
<1>10. alive.host /\ bridge.pc \in {"stamp", "number"} => fence' < bridge.fenceValue
  BY <1>6
<1>p1. Life'
  BY DEF IInv, Life, Quitting
<1>p2. BridgeQueue'
  <2>1. ASSUME NEW i \in 1..Len(bridgeQ') PROVE BridgeOp(i)'
    <3>1. BridgeOp(i + 1) /\ i + 1 # 1 /\ bridgeQ'[i] = bridgeQ[i + 1]
      BY <1>1, <1>7 DEF IInv, BridgeQueue
    <3> QED
      BY <1>7, <3>1 DEF BridgeOp
  <2>2. ASSUME NEW i \in 1..Len(bridgeQ'), NEW j \in 1..Len(bridgeQ') PROVE SignalsInOrder(i, j)'
    <3>1. SignalsInOrder(i + 1, j + 1)
      BY <1>7 DEF IInv, BridgeQueue
    <3>2. i < j => i + 1 < j + 1
      BY <1>1
    <3> QED
      BY <1>1, <3>1, <3>2 DEF SignalsInOrder
  <2>3. fence' <= bridge.fenceValue
    BY <1>5, <1>6 DEF FenceNumbers
  <2> QED
    BY <1>1, <1>6, <1>8, <2>1, <2>2, <2>3 DEF IInv, BridgeQueue, Outstanding, Requesting
<1>p3. HostQueue'
  BY DEF IInv, HostQueue, Work
<1>p4. Frames'
  BY DEF IInv, Frames, Unseen, Working, WorkPcs
<1>p5. Stamps'
  BY DEF IInv, Stamps, Outstanding, Requesting, Quitting
<1>p6. Fences'
  <2>1. alive.host /\ Begun => fence' >= shared.inputFence
    BY <1>5, <1>6 DEF IInv, Fences, FenceNumbers
  <2> QED
    BY <1>9, <2>1 DEF IInv, Fences, Ahead, Begun, Unseen
<1>p7. Delivery'
  BY <1>3, <1>4, DeliveryKept DEF IInv, Ahead, Unseen
<1>p8. Ownership'
  BY DEF IInv, Ownership, Quitting, Outstanding, Requesting, Settled, Lost, Unseen, Working, WorkPcs, NoSignal, HostFailed
<1>p9. Failure'
  BY DEF IInv, Failure, Requesting, Lost, Unseen, WorkPcs, NoSignal, HostFailed
<1>p10. Product'
  <2>1. ~(fence' >= bridge.fenceValue) /\ ~(fence >= bridge.fenceValue)
    BY <1>5, <1>6 DEF FenceNumbers
  <2> QED
    BY <2>1 DEF IInv, Product, Outstanding, Requesting, Preparing, Unseen, NoWork, OutputReady
<1>p11. Configuration'
  BY DEF IInv, Configuration, Quitting, Outstanding, Requesting, ConfigDue, ConfigPcs, Unnoticed, Settled, Unseen, Working, WorkPcs
<1>p12. TextureSets'
  BY DEF IInv, TextureSets, Outstanding, Requesting, Handed, Awaited, Unnoticed, HostFailed
<1>p13. Handles'
  BY DEF IInv, Handles, NoHandles, ConfigDue, ConfigPcs, Unnoticed
<1> QED
  BY <1>p1, <1>p2, <1>p3, <1>p4, <1>p5, <1>p6, <1>p7, <1>p8, <1>p9, <1>p10, <1>p11, <1>p12, <1>p13 DEF IInv, WaitsWork



\* The host's GPU takes its oldest operation.
HostTakes ==
  /\ hostQ # <<>> /\ hostQ' = Tail(hostQ)
  /\ UNCHANGED <<shared, alive, remote, bridgeQ, screen, bridge, host>>
  /\ event'.stop = event.stop

\* What is left of the host's queue after its head.
LEMMA HostTails ==
  ASSUME IInv, HostTakes
  PROVE  /\ Len(hostQ) \in Nat \ {0} /\ Len(hostQ') = Len(hostQ) - 1
         /\ \A i \in 1..Len(hostQ') : hostQ'[i] = hostQ[i + 1] /\ i + 1 \in 1..Len(hostQ) /\ i + 1 # 1
         /\ hostQ' = <<>> <=> Len(hostQ) = 1
         /\ Head(hostQ) = hostQ[1] /\ hostQ[1] \in Ops
         /\ alive.host
<1>1. /\ Len(hostQ) \in Nat \ {0} /\ Len(hostQ') = Len(hostQ) - 1
      /\ \A i \in 1..Len(hostQ') : hostQ'[i] = hostQ[i + 1]
      /\ hostQ' = <<>> <=> Len(hostQ) = 1
      /\ Head(hostQ) = hostQ[1] /\ hostQ[1] \in Ops
  BY Tails DEF IInv, Bounded, TypeOK, HostTakes
<1>2. alive.host
  BY DEF IInv, Life, HostTakes
<1> QED
  BY <1>1, <1>2

\* The rest of the host's queue is as it was.
LEMMA HostRests ==
  ASSUME IInv, Bounded', HostTakes
  PROVE  HostQueue'
<1>1. /\ Len(hostQ) \in Nat \ {0} /\ Len(hostQ') = Len(hostQ) - 1
      /\ \A i \in 1..Len(hostQ') : hostQ'[i] = hostQ[i + 1] /\ i + 1 \in 1..Len(hostQ) /\ i + 1 # 1
  BY HostTails
<1> SUFFICES ASSUME NEW i \in 1..Len(hostQ')
             PROVE  (/\ hostQ[i].kind \in {"wait", "signal"} \cup Work
                     /\ hostQ[i].kind = "wait" => i = 1 /\ hostQ[i].n = shared.inputFence
                     /\ hostQ[i].kind \in Work =>
                          /\ hostQ[i].gen = host.textures
                          /\ i = 1 \/ (i = 2 /\ hostQ[1].kind = "wait")
                          /\ host.pc # "record"
                     /\ hostQ[i].kind = "signal" =>
                          i = Len(hostQ) /\ hostQ[i].n = shared.outputFence /\ host.pc # "record")'
  BY DEF HostQueue
<1>2. /\ hostQ[i + 1].kind \in {"signal"} \cup Work
      /\ hostQ[i + 1].kind \in Work =>
           /\ hostQ[i + 1].gen = host.textures
           /\ i + 1 = 2
           /\ host.pc # "record"
      /\ hostQ[i + 1].kind = "signal" =>
           i + 1 = Len(hostQ) /\ hostQ[i + 1].n = shared.outputFence /\ host.pc # "record"
  BY <1>1 DEF IInv, HostQueue
<1>3. i + 1 = 2 => i = 1
  BY <1>1
<1>4. i + 1 = Len(hostQ) => i = Len(hostQ')
  BY <1>1
<1> QED
  BY <1>1, <1>2, <1>3, <1>4 DEF HostTakes, Work

\* What the queue holds none of.
LEMMA HostKinds ==
  ASSUME IInv, HostTakes
  PROVE  /\ NoWork' /\ hostQ[1].kind \notin Work => NoWork
         /\ NoSignal => NoSignal'
<1>1. /\ Len(hostQ) \in Nat \ {0} /\ Len(hostQ') = Len(hostQ) - 1
      /\ \A i \in 1..Len(hostQ') : hostQ'[i] = hostQ[i + 1] /\ i + 1 \in 1..Len(hostQ)
  BY HostTails
<1>2. ASSUME NoWork', hostQ[1].kind \notin Work, NEW i \in 1..Len(hostQ)
      PROVE  hostQ[i].kind \notin Work
  <2>1. CASE i = 1
    BY <1>2, <2>1
  <2>2. CASE i # 1
    <3>1. i - 1 \in 1..Len(hostQ') /\ (i - 1) + 1 = i
      BY <1>1, <2>2
    <3>2. hostQ'[i - 1] = hostQ[i]
      BY <1>1, <3>1
    <3>3. hostQ'[i - 1].kind \notin Work
      BY <1>2, <3>1 DEF NoWork
    <3> QED
      BY <3>2, <3>3
  <2> QED
    BY <2>1, <2>2
<1>3. NoSignal => NoSignal'
  BY <1>1 DEF NoSignal
<1> QED
  BY <1>2, <1>3 DEF NoWork

\* What is in the host's queue, oldest first.
LEMMA HostQueued ==
  ASSUME IInv, HostTakes
  PROVE  /\ ~Unseen
         /\ hostQ[1].kind \in {"wait", "evaluate", "fallback", "signal"}
         /\ hostQ[1].kind = "wait" => hostQ[1].n = shared.inputFence
         /\ hostQ[1].kind \in Work => hostQ[1].gen = host.textures /\ host.pc # "record"
         /\ hostQ[1].kind = "signal" =>
              hostQ' = <<>> /\ hostQ[1].n = shared.outputFence /\ host.pc # "record" /\ NoWork
<1>1. /\ Len(hostQ) \in Nat \ {0} /\ 1 \in 1..Len(hostQ)
      /\ hostQ' = <<>> <=> Len(hostQ) = 1
  BY HostTails
<1>2. hostQ[1].kind = "signal" => Len(hostQ) = 1
  BY <1>1 DEF IInv, HostQueue
<1>3. hostQ[1].kind = "signal" => NoWork
  <2>1. Len(hostQ) = 1 => \A i \in 1..Len(hostQ) : i = 1
    BY <1>1
  <2> QED
    BY <1>2, <2>1 DEF NoWork, Work
<1> QED
  BY <1>1, <1>2, <1>3 DEF IInv, HostQueue, Frames, HostTakes, Work

\* The wait for the inputs is through.
LEMMA HostPassesWait ==
  ASSUME IInv, Bounded', HostTakes, UNCHANGED <<fence, tex>>,
         hostQ[1].kind = "wait", fence >= hostQ[1].n
  PROVE  IInv'
<1> USE DEF HostTakes
<1>1. /\ Len(hostQ) \in Nat \ {0} /\ Len(hostQ') = Len(hostQ) - 1
      /\ \A i \in 1..Len(hostQ') : hostQ'[i] = hostQ[i + 1] /\ i + 1 \in 1..Len(hostQ) /\ i + 1 # 1
      /\ hostQ' = <<>> <=> Len(hostQ) = 1
      /\ hostQ[1] \in Ops /\ alive.host
  BY HostTails
<1>2. ~Unseen /\ hostQ # <<>>
  BY HostQueued
<1>3. /\ NoWork' /\ hostQ[1].kind \notin Work => NoWork
      /\ NoSignal => NoSignal'
  BY HostKinds DEF HostTakes
<1>30. ~Settled /\ ~ConfigDue
  BY <1>1, <1>2 DEF IInv, Configuration, Settled
<1>31. host.textures \in Ordinals /\ bridge.generation \in Ordinals
  BY DEF IInv, Bounded, TypeOK, BridgeType, HostType
<1>4. fence >= shared.inputFence
  BY HostQueued
<1>5. \A v, p : \A g \in Ordinals : Delivered(v, g, p) => Delivered(v, g, p)'
  BY DEF Delivered
<1>6. NoWork' => NoWork
  BY <1>3 DEF Work
<1>7. hostQ' # <<>> => hostQ # <<>>
  BY <1>2
<1>p1. Life'
  BY DEF IInv, Life, Quitting
<1>p2. BridgeQueue'
  BY DEF IInv, BridgeQueue, BridgeOp, SignalsInOrder, Outstanding, Requesting
<1>p3. HostQueue'
  BY HostRests
<1>p4. Frames'
  BY <1>2 DEF IInv, Frames, Unseen, Working, WorkPcs
<1>p5. Stamps'
  BY DEF IInv, Stamps, Outstanding, Requesting, Quitting
<1>p6. Fences'
  BY <1>4, <1>7 DEF IInv, Fences, Ahead, Begun, Unseen
<1>p7. Delivery'
  BY <1>2, <1>5, <1>31, DeliveryKept DEF IInv, Ahead, Unseen
<1>p8. Ownership'
  BY <1>1, <1>2, <1>3, <1>30 DEF IInv, Ownership, Quitting, Outstanding, Requesting, Settled, Lost, Unseen, Working, WorkPcs, NoSignal, HostFailed
<1>p9. Failure'
  BY <1>1, <1>2, <1>3 DEF IInv, Failure, Requesting, Lost, Unseen, WorkPcs, NoSignal, HostFailed
<1>p10. Product'
  BY <1>2, <1>6 DEF IInv, Product, Outstanding, Requesting, Preparing, Unseen, OutputReady
<1>p11. Configuration'
  BY <1>30 DEF IInv, Configuration, Quitting, Outstanding, Requesting, ConfigDue, ConfigPcs, Unnoticed, Settled, Unseen, Working, WorkPcs
<1>p12. TextureSets'
  BY DEF IInv, TextureSets, Outstanding, Requesting, Handed, Awaited, Unnoticed, HostFailed
<1>p13. Handles'
  BY DEF IInv, Handles, NoHandles, ConfigDue, ConfigPcs, Unnoticed
<1> QED
  BY <1>p1, <1>p2, <1>p3, <1>p4, <1>p5, <1>p6, <1>p7, <1>p8, <1>p9, <1>p10, <1>p11, <1>p12, <1>p13 DEF IInv, WaitsWork


\* The output is computed from the inputs of the very frame that is asked for.
LEMMA HostWorks ==
  ASSUME IInv, Bounded', HostTakes, UNCHANGED fence, hostQ[1].kind \in Work,
         tex' = [tex EXCEPT ![hostQ[1].gen].output =
                   [frame |-> tex[hostQ[1].gen].input, neural |-> hostQ[1].kind = "evaluate"]]
  PROVE  IInv'
<1> USE DEF HostTakes
<1>1. /\ Len(hostQ) \in Nat \ {0} /\ Len(hostQ') = Len(hostQ) - 1
      /\ \A i \in 1..Len(hostQ') : hostQ'[i] = hostQ[i + 1] /\ i + 1 \in 1..Len(hostQ) /\ i + 1 # 1
      /\ hostQ' = <<>> <=> Len(hostQ) = 1
      /\ hostQ[1] \in Ops /\ alive.host
  BY HostTails
<1>2. ~Unseen /\ hostQ # <<>>
  BY HostQueued
<1>3. /\ NoWork' /\ hostQ[1].kind \notin Work => NoWork
      /\ NoSignal => NoSignal'
  BY HostKinds DEF HostTakes
<1>30. ~Settled /\ ~ConfigDue
  BY <1>1, <1>2 DEF IInv, Configuration, Settled
<1>31. host.textures \in Ordinals /\ bridge.generation \in Ordinals
  BY DEF IInv, Bounded, TypeOK, BridgeType, HostType
<1>4. hostQ[1].gen = host.textures /\ host.pc # "record"
  BY HostQueued
<1>5. Ahead /\ Begun
  BY <1>2 DEF Ahead, Begun, Work
<1>6. FenceNumbers
  BY Numeric DEF IInv
<1>7. fence <= shared.inputFence /\ fence >= shared.inputFence
      /\ shared.inputFence + 1 = shared.outputFence
  BY <1>1, <1>5 DEF IInv, Fences
<1>8. fence = shared.inputFence
  BY <1>6, <1>7 DEF FenceNumbers
<1>9. bridgeQ = <<>> /\ (alive.bridge => tex[host.textures].input = shared.present)
  <2>1. alive.bridge => Delivered(shared.inputFence, host.textures, shared.present)
    BY <1>1, <1>5 DEF IInv, Delivery
  <2>2. ~(fence < shared.inputFence)
    BY <1>6, <1>8 DEF FenceNumbers
  <2> QED
    BY <2>1, <2>2 DEF IInv, Life, Delivered
<1>10. \A g \in Ordinals :
         /\ tex'[g].input = tex[g].input
         /\ g = host.textures => tex'[g].output.frame = tex[host.textures].input
  BY <1>4 DEF IInv, Bounded, TypeOK
<1>11. \A v, p : \A g \in Ordinals : Delivered(v, g, p) => Delivered(v, g, p)'
  BY <1>10 DEF Delivered
<1>12. ~(Outstanding /\ fence >= bridge.fenceValue)
  <2>1. Outstanding => shared.outputFence = bridge.fenceValue
    BY DEF IInv, Stamps
  <2>2. ~(fence >= shared.outputFence)
    BY <1>6, <1>7 DEF FenceNumbers
  <2> QED
    BY <2>1, <2>2
<1>13. Len(bridgeQ) = 0
  BY <1>9
<1>p1. Life'
  BY DEF IInv, Life, Quitting
<1>p2. BridgeQueue'
  BY <1>9, <1>13 DEF IInv, BridgeQueue, Outstanding, Requesting
<1>p3. HostQueue'
  BY HostRests
<1>p4. Frames'
  BY <1>2 DEF IInv, Frames, Unseen, Working, WorkPcs
<1>p5. Stamps'
  BY DEF IInv, Stamps, Outstanding, Requesting, Quitting
<1>p6. Fences'
  BY <1>1, <1>2, <1>4, <1>7 DEF IInv, Fences, Ahead, Begun, Unseen
<1>p7. Delivery'
  BY <1>2, <1>11, <1>31, DeliveryKept DEF IInv, Ahead, Unseen
<1>p8. Ownership'
  BY <1>1, <1>2, <1>3, <1>30 DEF IInv, Ownership, Quitting, Outstanding, Requesting, Settled, Lost, Unseen, Working, WorkPcs, NoSignal, HostFailed
<1>p9. Failure'
  BY <1>1, <1>2, <1>3 DEF IInv, Failure, Requesting, Lost, Unseen, WorkPcs, NoSignal, HostFailed
<1>p10. Product'
  <2>1. alive.bridge => tex'[host.textures].output.frame = shared.present
    BY <1>9, <1>10, <1>31
  <2> QED
    BY <1>12, <2>1 DEF IInv, Product, Outstanding, Requesting, Preparing, Unseen, OutputReady
<1>p11. Configuration'
  BY <1>30 DEF IInv, Configuration, Quitting, Outstanding, Requesting, ConfigDue, ConfigPcs, Unnoticed, Settled, Unseen, Working, WorkPcs
<1>p12. TextureSets'
  BY DEF IInv, TextureSets, Outstanding, Requesting, Handed, Awaited, Unnoticed, HostFailed
<1>p13. Handles'
  BY DEF IInv, Handles, NoHandles, ConfigDue, ConfigPcs, Unnoticed
<1> QED
  BY <1>p1, <1>p2, <1>p3, <1>p4, <1>p5, <1>p6, <1>p7, <1>p8, <1>p9, <1>p10, <1>p11, <1>p12, <1>p13 DEF IInv, WaitsWork


\* The output is there: the fence reaches the value the bridge waits for.
LEMMA HostSignals ==
  ASSUME IInv, Bounded', HostTakes, UNCHANGED tex, hostQ[1].kind = "signal", fence' = hostQ[1].n
  PROVE  IInv'
<1> USE DEF HostTakes
<1>1. /\ Len(hostQ) \in Nat \ {0} /\ Len(hostQ') = Len(hostQ) - 1
      /\ \A i \in 1..Len(hostQ') : hostQ'[i] = hostQ[i + 1] /\ i + 1 \in 1..Len(hostQ) /\ i + 1 # 1
      /\ hostQ' = <<>> <=> Len(hostQ) = 1
      /\ hostQ[1] \in Ops /\ alive.host
  BY HostTails
<1>2. ~Unseen /\ hostQ # <<>>
  BY HostQueued
<1>3. /\ NoWork' /\ hostQ[1].kind \notin Work => NoWork
      /\ NoSignal => NoSignal'
  BY HostKinds DEF HostTakes
<1>30. ~Settled /\ ~ConfigDue
  BY <1>1, <1>2 DEF IInv, Configuration, Settled
<1>31. host.textures \in Ordinals /\ bridge.generation \in Ordinals
  BY DEF IInv, Bounded, TypeOK, BridgeType, HostType
<1>4. hostQ' = <<>> /\ fence' = shared.outputFence /\ host.pc # "record" /\ NoWork
  BY HostQueued
<1>5. Ahead /\ Begun
  BY <1>2 DEF Ahead, Begun
<1>6. FenceNumbers
  BY Numeric DEF IInv
<1>7. fence <= shared.inputFence /\ fence >= shared.inputFence
      /\ shared.inputFence + 1 = shared.outputFence
  BY <1>1, <1>5 DEF IInv, Fences
<1>8. fence = shared.inputFence /\ fence < fence'
  BY <1>4, <1>6, <1>7 DEF FenceNumbers
<1>9. bridgeQ = <<>>
  <2>1. alive.bridge => Delivered(shared.inputFence, host.textures, shared.present)
    BY <1>1, <1>5 DEF IInv, Delivery
  <2>2. ~(fence < shared.inputFence)
    BY <1>6, <1>8 DEF FenceNumbers
  <2> QED
    BY <2>1, <2>2 DEF IInv, Life, Delivered
<1>10. Len(bridgeQ) = 0
  BY <1>9
<1>11. ~Ahead'
  BY <1>2, <1>4 DEF Ahead, Unseen
<1>12. alive.bridge /\ bridge.pc \in {"stamp", "number"} => FALSE
  <2>1. bridge.pc \in {"stamp", "number"} => ~Outstanding /\ ~Quitting
    BY DEF IInv, Stamps, Outstanding, Requesting, Quitting
  <2> QED
    BY <1>1, <1>30, <2>1 DEF IInv, Ownership
<1>13. fence' <= bridge.fenceValue
  BY <1>4 DEF IInv, Stamps
<1>14. bridge.pc \notin {"stamp", "number"}
  BY <1>12 DEF IInv, Life
<1>15. alive.bridge /\ Outstanding =>
         /\ tex[host.textures].output.frame = shared.present
         /\ host.textures = bridge.generation
  BY <1>1, <1>2, <1>4 DEF IInv, Product, TextureSets, Handed
<1>16. bridge.pc # "finish"
  <2>1. bridge.pc = "finish" => fence >= bridge.fenceValue /\ shared.outputFence = bridge.fenceValue
    BY DEF IInv, Product, OutputReady, Stamps, Outstanding, Requesting
  <2> QED
    BY <1>4, <1>6, <1>8, <2>1 DEF FenceNumbers
<1>p1. Life'
  BY DEF IInv, Life, Quitting
<1>p2. BridgeQueue'
  BY <1>9, <1>10, <1>13, <1>14 DEF IInv, BridgeQueue, Outstanding, Requesting
<1>p3. HostQueue'
  BY HostRests
<1>p4. Frames'
  BY <1>2 DEF IInv, Frames, Unseen, Working, WorkPcs
<1>p5. Stamps'
  BY DEF IInv, Stamps, Outstanding, Requesting, Quitting
<1>p6. Fences'
  BY <1>4, <1>11 DEF Fences, Begun
<1>p7. Delivery'
  BY <1>11, <1>14 DEF Delivery
<1>p8. Ownership'
  BY <1>1, <1>2, <1>3, <1>30 DEF IInv, Ownership, Quitting, Outstanding, Requesting, Settled, Lost, Unseen, Working, WorkPcs, NoSignal, HostFailed
<1>p9. Failure'
  BY <1>1, <1>2, <1>3 DEF IInv, Failure, Requesting, Lost, Unseen, WorkPcs, NoSignal, HostFailed
<1>p10. Product'
  BY <1>2, <1>4, <1>15, <1>16 DEF IInv, Product, Outstanding, Requesting, Preparing, Unseen
<1>p11. Configuration'
  BY <1>30 DEF IInv, Configuration, Quitting, Outstanding, Requesting, ConfigDue, ConfigPcs, Unnoticed, Settled, Unseen, Working, WorkPcs
<1>p12. TextureSets'
  BY DEF IInv, TextureSets, Outstanding, Requesting, Handed, Awaited, Unnoticed, HostFailed
<1>p13. Handles'
  BY DEF IInv, Handles, NoHandles, ConfigDue, ConfigPcs, Unnoticed
<1> QED
  BY <1>p1, <1>p2, <1>p3, <1>p4, <1>p5, <1>p6, <1>p7, <1>p8, <1>p9, <1>p10, <1>p11, <1>p12, <1>p13 DEF IInv, WaitsWork



\* Every operation of the two GPU queues preserves the invariant.
LEMMA GpuKeepsExact == IInv /\ Bounded' /\ GpuNext => IInv'
<1>1. ASSUME IInv, Bounded', BridgeGpu, UNCHANGED <<bridge, host>> PROVE IInv'
  <2>1. bridgeQ # <<>> /\ bridgeQ' = Tail(bridgeQ) /\ event \in EventType
    BY <1>1 DEF BridgeGpu, Runnable, IInv, Bounded, TypeOK
  <2>2. event'.stop = event.stop
    BY <1>1, <2>1 DEF BridgeGpu, SignalFence, EventType
  <2>3. BridgeTakes
    BY <1>1, <2>1, <2>2 DEF BridgeGpu, BridgeTakes
  <2>4. Head(bridgeQ) = bridgeQ[1]
    BY <1>1, <2>3, BridgeTails
  <2>5. CASE bridgeQ[1].kind = "copyIn"
    BY <1>1, <2>3, <2>4, <2>5, BridgeCopiesIn DEF BridgeGpu
  <2>6. CASE bridgeQ[1].kind = "copyOut"
    BY <1>1, <2>3, <2>4, <2>6, BridgeCopiesOut DEF BridgeGpu
  <2>7. CASE bridgeQ[1].kind = "signal"
    BY <1>1, <2>3, <2>4, <2>7, BridgeSignals DEF BridgeGpu, SignalFence
  <2> QED
    BY <1>1, <2>4, <2>5, <2>6, <2>7 DEF BridgeGpu
<1>2. ASSUME IInv, Bounded', HostGpu, UNCHANGED <<bridge, host>> PROVE IInv'
  <2>1. hostQ # <<>> /\ hostQ' = Tail(hostQ) /\ event \in EventType
    BY <1>2 DEF HostGpu, Runnable, IInv, Bounded, TypeOK
  <2>2. event'.stop = event.stop
    BY <1>2, <2>1 DEF HostGpu, SignalFence, EventType
  <2>3. HostTakes
    BY <1>2, <2>1, <2>2 DEF HostGpu, HostTakes
  <2>4. Head(hostQ) = hostQ[1]
    BY <1>2, <2>3, HostTails
  <2>5. CASE hostQ[1].kind = "wait"
    BY <1>2, <2>3, <2>4, <2>5, HostPassesWait DEF HostGpu, Runnable
  <2>6. CASE hostQ[1].kind \in Work
    BY <1>2, <2>3, <2>4, <2>6, HostWorks DEF HostGpu, Work
  <2>7. CASE hostQ[1].kind = "signal"
    BY <1>2, <2>3, <2>4, <2>7, HostSignals DEF HostGpu, SignalFence
  <2> QED
    BY <1>2, <2>4, <2>5, <2>6, <2>7 DEF HostGpu, Work
<1> QED
  BY <1>1, <1>2 DEF GpuNext

\* The state the two processes start from.
LEMMA InitExact == WaitsWork /\ Init => IInv
<1> SUFFICES ASSUME WaitsWork, Init PROVE IInv
  OBVIOUS
<1> USE DEF Init, IpcInit, BridgeInit, HostInit
<1>1. Bounded
  BY InitBounded
<1>2. Life /\ BridgeQueue /\ HostQueue /\ Frames /\ Stamps
  BY DEF Life, BridgeQueue, HostQueue, Frames, Stamps, Quitting, Outstanding, Requesting, Unseen, Working, WorkPcs
<1>3. Fences /\ Delivery /\ Ownership /\ Failure /\ Product
  BY DEF Fences, Delivery, Ownership, Failure, Product, Ahead, Begun, Unseen, Settled, Working, WorkPcs,
     Requesting, Outstanding, HostFailed, Preparing
<1>4. Configuration
  BY DEF Configuration, ConfigDue, Unnoticed, ConfigPcs
<1>5. TextureSets
  BY DEF TextureSets, Outstanding, Requesting
<1>6. Handles
  BY FenceFieldAssumption DEF Handles, NoHandles, Fields, Unnoticed
<1> QED
  BY <1>1, <1>2, <1>3, <1>4, <1>5, <1>6 DEF IInv

\* The invariant is inductive.
LEMMA NextExact == IInv /\ [Next]_vars => IInv'
<1> SUFFICES ASSUME IInv, [Next]_vars PROVE IInv'
  OBVIOUS
<1>1. Bounded'
  BY NextBounded DEF IInv
<1>2. ASSUME UNCHANGED vars PROVE IInv'
  <2> USE <1>2 DEF vars, ipcVars
  <2>1. UNCHANGED BridgeData /\ SameSession
    BY DEF BridgeData, SameSession
  <2>2. Life' /\ BridgeQueue' /\ HostQueue' /\ Frames' /\ Stamps' /\ Fences'
    BY DEF IInv, Life, BridgeQueue, BridgeOp, SignalsInOrder, HostQueue, Frames, Stamps, Fences, Quitting, Outstanding,
       Requesting, Unseen, Working, Ahead, Begun
  <2>3. Delivery' /\ Ownership' /\ Failure' /\ Product'
    BY DEF IInv, Delivery, Delivered, Ownership, Failure, Product, Quitting, Outstanding, Requesting, Unseen,
       Working, Ahead, Settled, Lost, NoSignal, HostFailed, NoWork, OutputReady
  <2>4. Configuration' /\ TextureSets' /\ Handles'
    BY DEF IInv, Configuration, TextureSets, Handles, Quitting, Outstanding, Requesting, Unseen, Working, Settled,
       ConfigDue, Unnoticed, Handed, Awaited, HostFailed, NoHandles
  <2> QED
    BY <1>1, <2>2, <2>3, <2>4 DEF IInv, WaitsWork
<1> QED
  BY <1>1, <1>2, BridgeKeepsExact, HostKeepsExact, GpuKeepsExact DEF Next, Ended

\* It is an invariant of the sessions whose waits do not fail.
LEMMA Exact == WaitsWork /\ Spec => []IInv
BY InitExact, NextExact, PTL DEF Spec

-----------------------------------------------------------------------------
\* Work at the head of the host's queue means that the bridge's queue is through:
\* the wait in front of it held the host's GPU until the inputs were signalled.
LEMMA WorkingAlone ==
  ASSUME IInv, hostQ # <<>>, hostQ[1].kind # "wait"
  PROVE  bridgeQ = <<>>
<1>1. alive.host /\ Ahead /\ Begun
  BY DEF IInv, Life, Ahead, Begun
<1>2. FenceNumbers
  BY Numeric DEF IInv
<1>3. fence <= shared.inputFence /\ fence >= shared.inputFence
  BY <1>1 DEF IInv, Fences
<1>4. ~(fence < shared.inputFence)
  BY <1>2, <1>3 DEF FenceNumbers
<1>5. alive.bridge => Delivered(shared.inputFence, host.textures, shared.present)
  BY <1>1 DEF IInv, Delivery
<1> QED
  BY <1>4, <1>5 DEF IInv, Life, Delivered

\* Neither GPU queue touches textures the other one is using.
THEOREM Exclusive == WaitsWork /\ Spec => []TexturesExclusive
<1>1. IInv => TexturesExclusive
  <2> SUFFICES ASSUME IInv, Runnable(bridgeQ), Runnable(hostQ),
                      Head(hostQ).kind \in {"evaluate", "fallback"}
               PROVE  FALSE
    BY DEF TexturesExclusive
  <2>1. hostQ # <<>> /\ bridgeQ # <<>> /\ Head(hostQ) = hostQ[1]
    BY DEF Runnable, IInv, Bounded, TypeOK
  <2> QED
    BY <2>1, WorkingAlone
<1> QED
  BY <1>1, Exact, PTL

\* The host's command allocator is reset only when the GPU is through with the
\* list recorded from it.
THEOREM AllocatorFree == WaitsWork /\ Spec => []AllocatorIdle
<1>1. IInv => AllocatorIdle
  BY DEF IInv, HostQueue, AllocatorIdle, Work
<1> QED
  BY <1>1, Exact, PTL

\* What is composited is the image of the frame it is composited for.
THEOREM CompositesExactly == WaitsWork /\ Spec => []ExactComposite
<1>1. Init => ExactComposite
  BY DEF Init, IpcInit, ExactComposite, NoImage
<1>2. IInv /\ ExactComposite /\ [Next]_vars => ExactComposite'
  <2> SUFFICES ASSUME IInv, ExactComposite, [Next]_vars PROVE ExactComposite'
    OBVIOUS
  <2>1. CASE UNCHANGED screen
    BY <2>1 DEF ExactComposite
  <2>2. CASE BridgeGpu /\ Head(bridgeQ).kind = "copyOut"
    <3>1. bridgeQ # <<>> /\ Head(bridgeQ) = bridgeQ[1] /\ 1 \in 1..Len(bridgeQ)
      BY <2>2 DEF BridgeGpu, Runnable, IInv, Bounded, TypeOK
    <3>2. bridgeQ[1].n = tex[bridgeQ[1].gen].output.frame
      BY <2>2, <3>1 DEF IInv, BridgeQueue, BridgeOp
    <3>3. screen' = [frame |-> bridgeQ[1].n, image |-> tex[bridgeQ[1].gen].output]
      BY <2>2, <3>1 DEF BridgeGpu
    <3> QED
      BY <3>2, <3>3 DEF ExactComposite
  <2>3. BridgeNext => UNCHANGED screen
    BY DEF BridgeNext, Presents, BridgeSteps, Present, Connect, CheckPending, PollDrain, SleepDrain,
       PollOutput, SleepOutput, Fill, Ensure, Transfer, TransferFails, PublishConfiguring,
       BumpGenerations, WakeHost, AwaitReady, SubmitInputs, StampFences, PublishFrame, KickHost,
       PollEnqueued, SleepEnqueued, PollCurrent, SleepCurrent, Finish, Close, TimeOut, Shutdown,
       BridgeCrash, ipcVars, gpuVars
  <2>4. HostNext => UNCHANGED screen
    BY DEF HostNext, HostSteps, HostCrash, OpenMapping, OpenBridge, OpenFails, Wait, CheckGeneration, BeginConfigure, RetireQueue,
       RetireFails, Import, ImportFails, Imported, FeatureReady, FeatureFails, ConfigureFailed,
       BeginFrame, Record, SignalFails, PublishEnqueued, AnnounceEnqueued, PublishResult,
       PublishCompleted, AnnounceCompleted, SetDone, StopHost, Exit, Gone, ipcVars, gpuVars
  <2>5. HostGpu => UNCHANGED screen
    BY DEF HostGpu
  <2>6. BridgeGpu => UNCHANGED screen \/ Head(bridgeQ).kind = "copyOut"
    BY DEF BridgeGpu
  <2> QED
    BY <2>1, <2>2, <2>3, <2>4, <2>5, <2>6 DEF Next, GpuNext, Ended, vars, ipcVars
<1> QED
  BY <1>1, <1>2, Exact, PTL DEF Spec

\* The fence two processes signal never goes backwards.
LEMMA FenceStep == ASSUME IInv, [Next]_vars PROVE fence' >= fence
<1>0. CASE UNCHANGED fence
  BY <1>0, Numeric DEF IInv, FenceNumbers
<1>1. FenceNumbers
  BY Numeric DEF IInv
<1>2. CASE BridgeGpu /\ Head(bridgeQ).kind = "signal" /\ fence' = Head(bridgeQ).n
  <2>1. bridgeQ # <<>> /\ Head(bridgeQ) = bridgeQ[1] /\ 1 \in 1..Len(bridgeQ)
        /\ bridgeQ \in Seq(Ops)
    BY <1>2 DEF BridgeGpu, Runnable, IInv, Bounded, TypeOK
  <2>2. fence < bridgeQ[1].n /\ bridgeQ[1].n \in Nat
    BY <1>2, <2>1, SignalValue DEF IInv, BridgeQueue, BridgeOp
  <2> QED
    BY <1>1, <1>2, <2>1, <2>2 DEF FenceNumbers
<1>3. CASE HostGpu /\ Head(hostQ).kind = "signal" /\ fence' = Head(hostQ).n
  <2>1. hostQ # <<>> /\ Head(hostQ) = hostQ[1] /\ 1 \in 1..Len(hostQ) /\ alive.host
    BY <1>3 DEF HostGpu, Runnable, IInv, Bounded, TypeOK, Life
  <2>2. fence' = shared.outputFence /\ Ahead
    BY <1>3, <2>1 DEF IInv, HostQueue, Ahead
  <2>3. fence <= shared.inputFence /\ shared.inputFence + 1 = shared.outputFence
    BY <2>1, <2>2 DEF IInv, Fences
  <2> QED
    BY <1>1, <2>2, <2>3 DEF FenceNumbers
<1>4. BridgeNext => UNCHANGED fence
  BY DEF BridgeNext, Presents, BridgeSteps, Present, Connect, CheckPending, PollDrain, SleepDrain,
     PollOutput, SleepOutput, Fill, Ensure, Transfer, TransferFails, PublishConfiguring,
     BumpGenerations, WakeHost, AwaitReady, SubmitInputs, StampFences, PublishFrame, KickHost,
     PollEnqueued, SleepEnqueued, PollCurrent, SleepCurrent, Finish, Close, TimeOut, Shutdown,
     BridgeCrash, ipcVars, gpuVars
<1>5. HostNext => UNCHANGED fence
  BY DEF HostNext, HostSteps, HostCrash, OpenMapping, OpenBridge, OpenFails, Wait, CheckGeneration, BeginConfigure, RetireQueue,
     RetireFails, Import, ImportFails, Imported, FeatureReady, FeatureFails, ConfigureFailed,
     BeginFrame, Record, SignalFails, PublishEnqueued, AnnounceEnqueued, PublishResult,
     PublishCompleted, AnnounceCompleted, SetDone, StopHost, Exit, Gone, ipcVars, gpuVars
<1>6. BridgeGpu => UNCHANGED fence \/ (Head(bridgeQ).kind = "signal" /\ fence' = Head(bridgeQ).n)
  BY DEF BridgeGpu, SignalFence
<1>7. HostGpu => UNCHANGED fence \/ (Head(hostQ).kind = "signal" /\ fence' = Head(hostQ).n)
  BY DEF HostGpu, SignalFence
<1> QED
  BY <1>0, <1>2, <1>3, <1>4, <1>5, <1>6, <1>7 DEF Next, GpuNext, Ended, vars, ipcVars

\* The fence is monotone in every behaviour.
THEOREM FenceNeverBack == WaitsWork /\ Spec => FenceMonotone
<1>1. IInv /\ [Next]_vars => [fence' >= fence]_fence
  BY FenceStep
<1> QED
  BY <1>1, Exact, PTL DEF Spec, FenceMonotone

-----------------------------------------------------------------------------
\* The handles of the host, one by one.
OwnedEach ==
  \A f \in Fields, n \in Ordinals :
    <<f, n>> \in remote <=> shared.handle[f] = n /\ n # 0

\* Stated handle by handle, HandlesOwned is the same.
LEMMA EachOwned ==
  ASSUME Bounded
  PROVE  remote = {<<f, shared.handle[f]>> : f \in {g \in Fields : shared.handle[g] # 0}} <=> OwnedEach
<1>1. /\ remote \subseteq Fields \X Ordinals
      /\ \A f \in Fields : shared.handle[f] \in Ordinals
  BY DEF Bounded, TypeOK, SharedType
<1>2. ASSUME remote = {<<f, shared.handle[f]>> : f \in {g \in Fields : shared.handle[g] # 0}}
      PROVE  OwnedEach
  BY <1>2 DEF OwnedEach
<1>3. ASSUME OwnedEach, NEW h \in remote
      PROVE  h \in {<<f, shared.handle[f]>> : f \in {g \in Fields : shared.handle[g] # 0}}
  <2>1. PICK f \in Fields, n \in Ordinals : h = <<f, n>>
    BY <1>1
  <2> QED
    BY <1>3, <2>1 DEF OwnedEach
<1>4. ASSUME OwnedEach, NEW f \in Fields, shared.handle[f] # 0
      PROVE  <<f, shared.handle[f]>> \in remote
  BY <1>1, <1>4 DEF OwnedEach
<1> QED
  BY <1>2, <1>3, <1>4

\* What HandlesOwned says, in that form.
Owned == alive.host => OwnedEach

\* Closing fields closes exactly their handles.
LEMMA ClosesOwned ==
  ASSUME Bounded, Bounded', OwnedEach, NEW fields \in SUBSET Fields, CloseFields(fields)
  PROVE  OwnedEach'
<1>1. /\ remote' = remote \ {<<f, shared.handle[f]>> : f \in fields}
      /\ \A f \in Fields : shared'.handle[f] = IF f \in fields THEN 0 ELSE shared.handle[f]
      /\ \A f \in Fields : shared.handle[f] \in Ordinals
  BY DEF CloseFields, Bounded, TypeOK, SharedType
<1> SUFFICES ASSUME NEW f \in Fields, NEW n \in Ordinals
             PROVE  <<f, n>> \in remote' <=> shared'.handle[f] = n /\ n # 0
  BY DEF OwnedEach
<1>2. <<f, n>> \in remote <=> shared.handle[f] = n /\ n # 0
  BY DEF OwnedEach
<1>3. <<f, n>> \in {<<g, shared.handle[g]>> : g \in fields} <=> f \in fields /\ n = shared.handle[f]
  OBVIOUS
<1>4. CASE f \in fields
  BY <1>1, <1>2, <1>3, <1>4
<1>5. CASE f \notin fields
  BY <1>1, <1>2, <1>3, <1>5
<1> QED
  BY <1>4, <1>5

\* No step but these touches a handle.
LEMMA SameHandles ==
  ASSUME Owned, UNCHANGED remote, shared'.handle = shared.handle, alive'.host => alive.host
  PROVE  Owned'
BY DEF Owned, OwnedEach

\* A new generation zeroes fields that were zero already.
LEMMA EnsureOwned ==
  ASSUME IInv, Bounded', Owned, Ensure, UNCHANGED host
  PROVE  Owned'
<1>1. bridge.pc = "ensure" /\ alive.bridge /\ UNCHANGED <<remote, alive>> /\ shared \in SharedType
  BY DEF Ensure, IInv, Life, Bounded, TypeOK
<1>2. alive.host => NoHandles
  BY <1>1 DEF IInv, Handles, Configuration, Quitting
<1>3. \A f \in Fields : alive.host => shared'.handle[f] = shared.handle[f]
  BY <1>1, <1>2 DEF Ensure, SharedType, NoHandles
<1> QED
  BY <1>1, <1>3 DEF Owned, OwnedEach

\* A transferred handle is entered where none was.
LEMMA TransferOwned ==
  ASSUME IInv, Bounded', Owned, NEW t \in Textures, Transfer(t), UNCHANGED host
  PROVE  Owned'
<1>1. /\ bridge.pc = "transfer" /\ UNCHANGED alive /\ shared \in SharedType /\ alive.host
      /\ t \in bridge.untransferred /\ t \in Fields /\ remote' = remote \cup {<<t, bridge.generation>>}
  BY DEF Transfer, IInv, Bounded, TypeOK, Fields
<1>2. shared.handle[t] = 0 /\ bridge.generation # 0
  BY <1>1 DEF IInv, Handles
<1>3. \A f \in Fields : shared'.handle[f] = IF f = t THEN bridge.generation ELSE shared.handle[f]
  BY <1>1 DEF Transfer, SharedType
<1> SUFFICES ASSUME NEW f \in Fields, NEW n \in Ordinals
             PROVE  <<f, n>> \in remote' <=> shared'.handle[f] = n /\ n # 0
  BY DEF Owned, OwnedEach
<1>4. <<f, n>> \in remote <=> shared.handle[f] = n /\ n # 0
  BY <1>1 DEF Owned, OwnedEach
<1>5. CASE f = t
  BY <1>1, <1>2, <1>3, <1>4, <1>5
<1>6. CASE f # t
  BY <1>1, <1>3, <1>4, <1>6
<1> QED
  BY <1>5, <1>6

\* The shutdown closes what is left.
LEMMA StopHostOwned ==
  ASSUME IInv, Bounded', Owned, StopHost
  PROVE  Owned'
<1>1. /\ UNCHANGED alive /\ shared \in SharedType
      /\ remote' = remote \ {<<f, shared.handle[f]>> : f \in Fields}
  BY DEF StopHost, IInv, Bounded, TypeOK
<1>2. \A f \in Fields : shared'.handle[f] = 0
  BY <1>1 DEF StopHost, SharedType
<1> QED
  BY <1>1, <1>2 DEF Owned, OwnedEach

\* The other steps open and close nothing.
LEMMA OthersOwned ==
  ASSUME IInv, Bounded', Owned,
         \/ Presents \/ Connect \/ CheckPending \/ PollDrain \/ SleepDrain \/ Fill
         \/ PublishConfiguring \/ BumpGenerations \/ WakeHost \/ AwaitReady
         \/ SubmitInputs \/ StampFences \/ PublishFrame \/ KickHost
         \/ PollEnqueued \/ SleepEnqueued \/ PollCurrent \/ SleepCurrent \/ Finish
         \/ Close \/ TimeOut \/ Shutdown \/ BridgeCrash
         \/ OpenMapping \/ OpenBridge \/ Wait \/ CheckGeneration \/ BeginConfigure \/ RetireQueue
         \/ Imported \/ FeatureReady \/ FeatureFails \/ ConfigureFailed \/ BeginFrame
         \/ \E outcome \in Outcomes : Record(outcome) \/ SignalFails(outcome)
         \/ PublishEnqueued \/ AnnounceEnqueued \/ PublishResult
         \/ PublishCompleted \/ AnnounceCompleted
         \/ BridgeGpu \/ HostGpu \/ UNCHANGED vars
  PROVE  Owned'
<1>1. shared \in SharedType /\ alive \in [bridge : BOOLEAN, host : BOOLEAN]
  BY DEF IInv, Bounded, TypeOK
<1>2. UNCHANGED remote
  BY DEF Presents, Present, Connect, CheckPending, PollDrain, SleepDrain,
       PollOutput, SleepOutput, Fill, PublishConfiguring,
       BumpGenerations, WakeHost, AwaitReady, SubmitInputs, StampFences, PublishFrame, KickHost,
       PollEnqueued, SleepEnqueued, PollCurrent, SleepCurrent, Finish, Close, TimeOut, Shutdown,
       BridgeCrash, OpenMapping, OpenBridge, Wait, CheckGeneration, BeginConfigure, RetireQueue,
       Imported, FeatureReady, FeatureFails, ConfigureFailed,
       BeginFrame, Record, SignalFails, PublishEnqueued, AnnounceEnqueued, PublishResult,
       PublishCompleted, AnnounceCompleted, SetDone, BridgeGpu, HostGpu, ipcVars, gpuVars, vars
<1>3. alive'.host => alive.host
  BY <1>1 DEF Presents, Present, Connect, CheckPending, PollDrain, SleepDrain,
       PollOutput, SleepOutput, Fill, PublishConfiguring,
       BumpGenerations, WakeHost, AwaitReady, SubmitInputs, StampFences, PublishFrame, KickHost,
       PollEnqueued, SleepEnqueued, PollCurrent, SleepCurrent, Finish, Close, TimeOut, Shutdown,
       BridgeCrash, OpenMapping, OpenBridge, Wait, CheckGeneration, BeginConfigure, RetireQueue,
       Imported, FeatureReady, FeatureFails, ConfigureFailed,
       BeginFrame, Record, SignalFails, PublishEnqueued, AnnounceEnqueued, PublishResult,
       PublishCompleted, AnnounceCompleted, SetDone, BridgeGpu, HostGpu, ipcVars, gpuVars, vars
<1>4. shared'.handle = shared.handle
  BY <1>1 DEF SharedType, Presents, Present, Connect, CheckPending, PollDrain, SleepDrain,
       PollOutput, SleepOutput, Fill, PublishConfiguring,
       BumpGenerations, WakeHost, AwaitReady, SubmitInputs, StampFences, PublishFrame, KickHost,
       PollEnqueued, SleepEnqueued, PollCurrent, SleepCurrent, Finish, Close, TimeOut, Shutdown,
       BridgeCrash, OpenMapping, OpenBridge, Wait, CheckGeneration, BeginConfigure, RetireQueue,
       Imported, FeatureReady, FeatureFails, ConfigureFailed,
       BeginFrame, Record, SignalFails, PublishEnqueued, AnnounceEnqueued, PublishResult,
       PublishCompleted, AnnounceCompleted, SetDone, BridgeGpu, HostGpu, ipcVars, gpuVars, vars
<1> QED
  BY <1>2, <1>3, <1>4, SameHandles

\* The handles open in the host are exactly those the block still names.
THEOREM HandlesNeverLeak == WaitsWork /\ Spec => []HandlesOwned
<1>1. Init => Owned
  <2> SUFFICES ASSUME Init, NEW f \in Fields, NEW n \in Ordinals
               PROVE  <<f, n>> \in remote <=> shared.handle[f] = n /\ n # 0
    BY DEF Owned, OwnedEach
  <2>1. shared.handle[f] = IF f = "fence" THEN 1 ELSE 0
    BY DEF Init, IpcInit
  <2>2. remote = {<<"fence", 1>>}
    BY DEF Init, IpcInit
  <2>3. <<f, n>> \in remote <=> f = "fence" /\ n = 1
    BY <2>2
  <2> QED
    BY <2>1, <2>3
<1>2. IInv /\ Owned /\ [Next]_vars => Owned'
  <2> SUFFICES ASSUME IInv, Owned, [Next]_vars PROVE Owned'
    OBVIOUS
  <2>1. Bounded /\ Bounded'
    BY NextBounded DEF IInv
  <2>2. ASSUME Ensure, UNCHANGED host PROVE Owned'
    BY <2>1, <2>2, EnsureOwned
  <2>3. ASSUME NEW t \in Textures, Transfer(t), UNCHANGED host PROVE Owned'
    BY <2>1, <2>3, TransferOwned
  <2>4. ASSUME NEW fields \in SUBSET Fields, CloseFields(fields), UNCHANGED alive PROVE Owned'
    BY <2>1, <2>4, ClosesOwned DEF Owned
  <2>5. TransferFails => Owned'
    <3>1. {t \in Textures : shared.handle[t] # 0} \subseteq Fields
      BY DEF Fields
    <3> QED
      BY <2>4, <3>1 DEF TransferFails
  <2>6. RetireFails \/ ImportFails => Owned'
    BY <2>4 DEF RetireFails, ImportFails
  <2>7. ASSUME NEW f \in Fields, Import(f) PROVE Owned'
    BY <2>4, <2>7 DEF Import
  <2>8. StopHost => Owned'
    BY <2>1, StopHostOwned
  <2>9. Gone => Owned'
    BY <2>1 DEF Gone, Owned, Bounded, TypeOK
  <2> QED
    BY <2>1, <2>2, <2>3, <2>5, <2>6, <2>7, <2>8, <2>9, OthersOwned
       DEF Next, BridgeNext, BridgeSteps, HostNext, HostSteps, GpuNext, Ended, OpenFails, Exit, HostCrash
<1>3. IInv /\ Owned => HandlesOwned
  BY EachOwned DEF IInv, Owned, HandlesOwned
<1> QED
  BY <1>1, <1>2, <1>3, Exact, PTL DEF Spec

-----------------------------------------------------------------------------
(***************************************************************************)
(* The session implements ExactFrames, as long as the game lives: with the *)
(* game its queue goes, and what it had accepted.                          *)
(***************************************************************************)

\* The state of ExactFrames, as the invariant lets it be written: at most one
\* copy to the screen is queued, in front, and the request that is remembered is
\* the one that was published.
Asked == IF Outstanding THEN shared.present ELSE 0
Answered == Outstanding /\ OutputReady(shared.frameSeq, bridge.fenceValue)
Copying == bridgeQ # <<>> /\ bridgeQ[1].kind = "copyOut"
Accepted == IF Copying THEN bridgeQ[1].n ELSE screen.frame
Out == HostFailed \/ ~alive.host

\* The frames accepted are behind the presents, strictly so until the frame of
\* the present is accepted itself; and none of them is the frame 0.
Calling == bridge.pc \in Draining \cup {"fill", "finish"} \cup Preparing \cup Waiting

Behind ==
  /\ Accepted <= bridge.present
  /\ Calling => Accepted < bridge.present
  /\ Copying => bridgeQ[1].n # 0
  /\ bridge.pending # 0 => shared.present # 0

\* What the steps of the session are to ExactFrames.
Same == UNCHANGED <<Asked, Accepted, screen>>
Stays == Same /\ (Answered' <=> Answered)
Asks ==
  /\ Asked = 0 /\ Asked' \in 1..MaxPresents /\ Asked' > Accepted
  /\ ~Answered' /\ UNCHANGED <<Accepted, screen>> /\ (Out' <=> Out)
Answers == Same /\ Asked # 0 /\ ~Answered /\ Answered' /\ (Out' <=> Out)
Accepts ==
  /\ Answered /\ Asked' = 0 /\ ~Answered' /\ Accepted' = Asked
  /\ UNCHANGED screen /\ (Out' <=> Out)
Discards ==
  /\ Answered /\ Asked' = 0 /\ ~Answered' /\ UNCHANGED <<Accepted, screen>> /\ (Out' <=> Out)
Loses ==
  /\ Out /\ Out' /\ Asked # 0 /\ Asked' = 0 /\ ~Answered'
  /\ UNCHANGED <<Accepted, screen>>
Shows ==
  /\ UNCHANGED <<Asked, Accepted>> /\ (Answered' <=> Answered) /\ (Out' <=> Out)
  /\ Accepted # 0 /\ screen'.frame = Accepted /\ screen'.image.frame = Accepted

Kept == Stays \/ Asks \/ Answers \/ Accepts \/ Discards \/ Loses \/ Shows

\* The state functions above are the refinement mapping.
LEMMA Mapped ==
  ASSUME IInv
  PROVE  /\ Composites = IF Copying THEN {1} ELSE {}
         /\ Requesting => bridge.pending = 0 /\ Outstanding
         /\ bridge.pending # 0 => /\ bridge.pending = shared.frameSeq
                                  /\ bridge.pendingOutput = bridge.fenceValue
<1>1. Requesting => bridge.pending = 0 /\ Outstanding
  BY DEF IInv, Stamps, Requesting, Outstanding, Quitting
<1>2. bridge.pending # 0 => /\ bridge.pending = shared.frameSeq
                            /\ bridge.pendingOutput = bridge.fenceValue
  BY DEF IInv, Stamps
<1>3. Len(bridgeQ) \in Nat /\ (bridgeQ # <<>> <=> 1 \in 1..Len(bridgeQ))
  BY DEF IInv, Bounded, TypeOK
<1>4. \A i \in 1..Len(bridgeQ) : bridgeQ[i].kind = "copyOut" => i = 1
  BY DEF IInv, BridgeQueue, BridgeOp
<1>5. Composites = IF Copying THEN {1} ELSE {}
  BY <1>3, <1>4 DEF Composites, Copying
<1> QED
  BY <1>1, <1>2, <1>5

\* What the instance of ExactFrames in NrHostSession substitutes.
AcceptedAt ==
  IF Composites = {} THEN screen.frame ELSE bridgeQ[CHOOSE i \in Composites : TRUE].n

AnsweredAt ==
  IF Requesting THEN OutputReady(shared.frameSeq, bridge.fenceValue)
  ELSE /\ bridge.pending # 0
       /\ OutputReady(bridge.pending, bridge.pendingOutput)

Mapping == AcceptedAt = Accepted /\ AnsweredAt = Answered

\* Under the invariant it is what is written above, before and after a step.
LEMMA Maps == (IInv => Mapping) /\ (IInv' => Mapping')
<1>1. IInv => Mapping
  <2> SUFFICES ASSUME IInv PROVE AcceptedAt = Accepted /\ AnsweredAt = Answered
    BY DEF Mapping
  <2>1. (CHOOSE i \in {1} : TRUE) = 1
    OBVIOUS
  <2>2. AcceptedAt = Accepted
    BY <2>1, Mapped DEF Accepted, AcceptedAt
  <2>3. AnsweredAt <=> Answered
    <3>1. CASE Requesting
      BY <3>1, Mapped DEF Answered, AnsweredAt
    <3>2. CASE ~Requesting /\ bridge.pending = 0
      BY <3>2 DEF Answered, Outstanding, AnsweredAt
    <3>3. CASE ~Requesting /\ bridge.pending # 0
      BY <3>3, Mapped DEF Answered, Outstanding, AnsweredAt
    <3> QED
      BY <3>1, <3>2, <3>3
  <2>4. AnsweredAt = Answered
    BY <2>3, Zenon
  <2> QED
    BY <2>2, <2>4
<1> QED
  BY <1>1, PTL

\* Such steps are steps of ExactFrames, or change nothing it sees.
LEMMA KeptIsNext ==
  ASSUME IInv, IInv', Kept
  PROVE  [Promise!Next]_Promise!vars
<1>1. /\ AcceptedAt = Accepted /\ AcceptedAt' = Accepted'
      /\ AnsweredAt = Answered /\ AnsweredAt' = Answered'
  BY Maps DEF Mapping
<1>2. (Answered \in BOOLEAN) /\ (Answered' \in BOOLEAN) /\ (Out \in BOOLEAN) /\ (Out' \in BOOLEAN)
  BY Zenon DEF Answered, Out
<1>a. ASSUME Answered' <=> Answered PROVE Answered' = Answered
  BY <1>a, Zenon
<1>o. ASSUME Out' <=> Out PROVE Out' = Out
  BY <1>o, Zenon
<1>3. CASE Stays
  BY <1>1, <1>2, <1>a, <1>o, <1>3, Zenon DEF AcceptedAt, AnsweredAt, Stays, Same, Asked, Out, Promise!Next, Promise!vars, Promise!FailOrRecover
<1>4. CASE Asks
  BY <1>1, <1>2, <1>a, <1>o, <1>4, Zenon DEF AcceptedAt, AnsweredAt, Asks, Same, Asked, Out, Promise!Next, Promise!vars, Promise!Request
<1>5. CASE Answers
  BY <1>1, <1>2, <1>a, <1>o, <1>5, Zenon DEF AcceptedAt, AnsweredAt, Answers, Same, Asked, Out, Promise!Next, Promise!vars, Promise!Answer
<1>6. CASE Accepts
  BY <1>1, <1>2, <1>a, <1>o, <1>6, Zenon DEF AcceptedAt, AnsweredAt, Accepts, Same, Asked, Out, Promise!Next, Promise!vars, Promise!Accept
<1>7. CASE Discards
  BY <1>1, <1>2, <1>a, <1>o, <1>7, Zenon DEF AcceptedAt, AnsweredAt, Discards, Same, Asked, Out, Promise!Next, Promise!vars, Promise!Discard
<1>8. CASE Loses
  BY <1>1, <1>2, <1>a, <1>o, <1>8, Zenon DEF AcceptedAt, AnsweredAt, Loses, Same, Asked, Out, Promise!Next, Promise!vars, Promise!Lose
<1>9. CASE Shows
  BY <1>1, <1>2, <1>a, <1>o, <1>9, Zenon DEF AcceptedAt, AnsweredAt, Shows, Same, Asked, Out, Promise!Next, Promise!vars, Promise!Composite
<1> QED
  BY <1>3, <1>4, <1>5, <1>6, <1>7, <1>8, <1>9 DEF Kept

\* What of the bridge's queue and the screen the mapping sees.
SameCopies ==
  UNCHANGED screen /\ (Copying' <=> Copying) /\ (Copying => bridgeQ'[1] = bridgeQ[1])

\* The same copy in front of the queue is the same accepted frame.
LEMMA CopiesStay == SameCopies => UNCHANGED Accepted
BY DEF SameCopies, Accepted

\* No request is made or given up: a step of a call that has none outstanding, or
\* one that leaves the older request alone.
LEMMA Unasked ==
  ASSUME Behind, SameCopies, ~Requesting, ~Requesting', Calling' => Calling,
         UNCHANGED <<bridge.pending, bridge.present>>,
         bridge.pending # 0 =>
           UNCHANGED <<shared.present, shared.frameSeq, shared.completedSeq,
                       bridge.fenceValue, fence>>
  PROVE  Behind' /\ Kept
<1>1. UNCHANGED Accepted
  BY CopiesStay
<1>2. Behind'
  BY <1>1 DEF Behind, SameCopies
<1>3. UNCHANGED Asked /\ (Answered' <=> Answered)
  BY DEF Asked, Answered, Outstanding, OutputReady
<1> QED
  BY <1>1, <1>2, <1>3 DEF Kept, Stays, Same, SameCopies

\* The request stays with the call that made it.
LEMMA StillAsked ==
  ASSUME IInv, Behind, SameCopies, Requesting, Requesting',
         UNCHANGED <<bridge.pending, bridge.present, shared.present, shared.frameSeq,
                     shared.completedSeq, bridge.fenceValue, fence>>
  PROVE  Behind' /\ Kept
<1>1. UNCHANGED Accepted
  BY CopiesStay
<1>2. Calling
  BY DEF Calling, Requesting, Waiting
<1>3. Behind'
  BY <1>1, <1>2 DEF Behind, SameCopies
<1>4. UNCHANGED Asked /\ (Answered' <=> Answered)
  BY DEF Asked, Answered, Outstanding, OutputReady
<1> QED
  BY <1>1, <1>3, <1>4 DEF Kept, Stays, Same, SameCopies

\* The accepted frame is a number.
LEMMA AcceptedNumber == ASSUME IInv PROVE Accepted \in Nat
<1>1. screen.frame \in Nat
  BY BoundsAssumption DEF IInv, Bounded, TypeOK, Ordinals
<1>2. ASSUME Copying PROVE bridgeQ[1].n \in Nat
  <2>1. bridgeQ[1] \in Ops
    BY <1>2 DEF IInv, Bounded, TypeOK, Copying
  <2> QED
    BY <1>2, <2>1, BoundsAssumption DEF Copying, Ops, Ordinals
<1> QED
  BY <1>1, <1>2 DEF Accepted

\* A published request asks for the frame of this present.
LEMMA PublishFrameAsks ==
  ASSUME IInv, Behind, PublishFrame
  PROVE  Behind' /\ Kept
<1>1. /\ shared \in SharedType /\ bridge \in BridgeType /\ bridge.pc = "number"
      /\ UNCHANGED <<alive, bridgeQ, screen, fence>>
  BY DEF IInv, Bounded, TypeOK, PublishFrame, gpuVars
<1>2. /\ shared'.frameSeq = shared.frameSeq + 1
      /\ UNCHANGED <<shared.present, shared.completedSeq, shared.state>>
      /\ bridge'.pc = "kick" /\ UNCHANGED <<bridge.pending, bridge.present, bridge.fenceValue>>
  BY <1>1 DEF PublishFrame, SharedType, BridgeType
<1>3. SeqNumbers /\ shared.completedSeq <= shared.frameSeq
  BY Numeric DEF IInv, Frames
<1>4. bridge.pending = 0 /\ shared.present = bridge.present
  BY <1>1 DEF IInv, Stamps, Product, Preparing, Quitting
<1>5. ~Outstanding /\ Outstanding' /\ Calling /\ Calling'
  BY <1>1, <1>2, <1>4 DEF Outstanding, Requesting, Calling, Preparing, Waiting
<1>6. ~Answered'
  BY <1>2, <1>3 DEF Answered, OutputReady, SeqNumbers
<1>7. SameCopies /\ UNCHANGED Accepted
  BY <1>1, CopiesStay DEF SameCopies, Copying
<1>8. Accepted < bridge.present /\ bridge.present \in 0..MaxPresents /\ Accepted \in Nat
  BY <1>1, <1>5, AcceptedNumber DEF Behind, BridgeType, Ordinals
<1>9. Asked = 0 /\ Asked' = bridge.present /\ Asked' \in 1..MaxPresents /\ Asked' > Accepted
  <2>1. Asked = 0 /\ Asked' = bridge.present
    BY <1>2, <1>4, <1>5 DEF Asked
  <2> QED
    BY <1>8, <2>1, BoundsAssumption
<1>10. Out' <=> Out
  BY <1>1, <1>2 DEF Out, HostFailed
<1>11. Asks
  BY <1>1, <1>6, <1>7, <1>9, <1>10 DEF Asks
<1>12. Behind'
  BY <1>2, <1>4, <1>5, <1>7 DEF Behind, SameCopies
<1> QED
  BY <1>11, <1>12 DEF Kept

\* The answer to the request is accepted for the frame that asked.
LEMMA FinishAccepts ==
  ASSUME IInv, IInv', Behind, Finish
  PROVE  Behind' /\ Kept
<1>1. /\ bridge \in BridgeType /\ bridge.pc = "finish" /\ bridgeQ \in Seq(Ops)
      /\ UNCHANGED <<shared, alive, screen, fence>>
      /\ bridgeQ' = Append(bridgeQ, Op("copyOut", bridge.present, bridge.generation))
  BY DEF IInv, Bounded, TypeOK, Finish
<1>2. bridge'.pc = "idle" /\ UNCHANGED <<bridge.pending, bridge.present, bridge.fenceValue>>
  BY <1>1 DEF Finish, Evaluated, PassedThrough, BridgeType
<1>3. Requesting /\ Calling /\ ~Requesting' /\ ~Calling'
  BY <1>1, <1>2 DEF Requesting, Calling, Draining, Preparing, Waiting
<1>4. bridge.pending = 0 /\ Outstanding
  BY <1>3, Mapped
<1>5. shared.present = bridge.present /\ Answered
  BY <1>1, <1>3, <1>4 DEF IInv, Product, Answered
<1>6. ~Outstanding' /\ ~Answered' /\ Asked' = 0 /\ Asked = bridge.present
  BY <1>2, <1>3, <1>4, <1>5 DEF Outstanding, Answered, Asked
<1>7. bridgeQ'[1] = Op("copyOut", bridge.present, bridge.generation) /\ bridgeQ' # <<>>
  <2>1. bridgeQ'[Len(bridgeQ) + 1].kind = "copyOut" /\ Len(bridgeQ) + 1 \in 1..Len(bridgeQ')
    BY <1>1 DEF Op
  <2>2. PICK k : k = Len(bridgeQ) + 1
    OBVIOUS
  <2>3. k = 1
    BY <2>1, <2>2 DEF IInv, BridgeQueue, BridgeOp
  <2> QED
    BY <1>1, <2>2, <2>3
<1>8. Copying' /\ Accepted' = bridge.present
  BY <1>7 DEF Copying, Accepted, Op
<1>9. Accepted < bridge.present /\ bridge.present \in Nat /\ Accepted \in Nat
  BY <1>1, <1>3, AcceptedNumber, BoundsAssumption DEF Behind, BridgeType, Ordinals
<1>10. Behind'
  BY <1>2, <1>3, <1>4, <1>7, <1>8, <1>9 DEF Behind, Op
<1>11. Accepts
  BY <1>1, <1>5, <1>6, <1>8 DEF Accepts, Out, HostFailed
<1> QED
  BY <1>10, <1>11 DEF Kept

\* An answer that comes too late is thrown away.
LEMMA RetiredDiscards ==
  ASSUME IInv, Behind, SameSession, bridge' = Retired(bridge),
         bridge.pc \in {"pending", "drain"}, bridge.pending # 0,
         OutputReady(bridge.pending, bridge.pendingOutput)
  PROVE  Behind' /\ Kept
<1>1. bridge \in BridgeType /\ UNCHANGED <<shared, alive, screen, fence, bridgeQ>>
  BY DEF IInv, Bounded, TypeOK, SameSession
<1>2. bridge'.pc = "fill" /\ bridge'.pending = 0 /\ UNCHANGED <<bridge.present, bridge.fenceValue>>
  BY <1>1 DEF Retired, BridgeType
<1>3. Answered /\ ~Outstanding'
  BY <1>2, Mapped DEF Answered, Outstanding, Requesting
<1>4. ~Answered' /\ Asked' = 0
  BY <1>3 DEF Answered, Asked
<1>5. SameCopies /\ UNCHANGED Accepted
  BY <1>1, CopiesStay DEF SameCopies, Copying
<1>6. Discards
  BY <1>1, <1>3, <1>4, <1>5 DEF Discards, Out, HostFailed
<1>7. Calling
  BY DEF Calling, Draining
<1>8. Behind'
  BY <1>2, <1>5, <1>7 DEF Behind, SameCopies
<1> QED
  BY <1>6, <1>8 DEF Kept

\* A request whose time is up is kept, for a later call to retire.
LEMMA LeftStays ==
  ASSUME IInv, Behind, SameSession, bridge' = LeftPending(bridge), Requesting
  PROVE  Behind' /\ Kept
<1>1. bridge \in BridgeType /\ UNCHANGED <<shared, alive, screen, fence, bridgeQ>>
  BY DEF IInv, Bounded, TypeOK, SameSession
<1>2. /\ bridge'.pc = "idle" /\ bridge'.pending = shared.frameSeq
      /\ UNCHANGED <<bridge.present, bridge.fenceValue>>
  BY <1>1 DEF LeftPending, PassedThrough, BridgeType
<1>3. shared.frameSeq # 0 /\ shared.present = bridge.present /\ Outstanding
  BY DEF IInv, Stamps, Product, Outstanding
<1>4. Outstanding' /\ UNCHANGED Asked /\ (Answered' <=> Answered)
  BY <1>1, <1>2, <1>3 DEF Outstanding, Asked, Answered, OutputReady
<1>5. SameCopies /\ UNCHANGED Accepted
  BY <1>1, CopiesStay DEF SameCopies, Copying
<1>6. Calling /\ ~Calling'
  BY <1>2 DEF Calling, Requesting, Draining, Preparing, Waiting
<1>7. bridge.present # 0
  BY <1>1, <1>6, AcceptedNumber, BoundsAssumption DEF Behind, BridgeType, Ordinals
<1>8. Behind'
  BY <1>1, <1>2, <1>3, <1>5, <1>6, <1>7 DEF Behind, SameCopies
<1> QED
  BY <1>1, <1>4, <1>5, <1>8 DEF Kept, Stays, Same

\* A request the host can no longer answer is lost.
LEMMA AbandonedLoses ==
  ASSUME IInv, Behind, SameSession, bridge' = Abandoned(bridge), Requesting, Out
  PROVE  Behind' /\ Kept
<1>1. bridge \in BridgeType /\ UNCHANGED <<shared, alive, screen, fence, bridgeQ>>
  BY DEF IInv, Bounded, TypeOK, SameSession
<1>2. bridge'.pc = "idle" /\ UNCHANGED <<bridge.pending, bridge.present, bridge.fenceValue>>
  BY <1>1 DEF Abandoned, PassedThrough, BridgeType
<1>3. bridge.pending = 0 /\ shared.present = bridge.present /\ Outstanding
  BY Mapped DEF IInv, Product
<1>4. ~Outstanding' /\ Asked' = 0 /\ ~Answered'
  BY <1>2, <1>3 DEF Outstanding, Requesting, Asked, Answered
<1>5. SameCopies /\ UNCHANGED Accepted
  BY <1>1, CopiesStay DEF SameCopies, Copying
<1>6. Calling /\ ~Calling'
  BY <1>2 DEF Calling, Requesting, Draining, Preparing, Waiting
<1>7. Asked # 0
  BY <1>1, <1>3, <1>6, AcceptedNumber, BoundsAssumption DEF Asked, Behind, BridgeType, Ordinals
<1>8. Behind'
  BY <1>2, <1>3, <1>5, <1>6 DEF Behind, SameCopies
<1>9. Loses
  BY <1>1, <1>4, <1>5, <1>7 DEF Loses, Out, HostFailed
<1> QED
  BY <1>8, <1>9 DEF Kept

\* What is asked for is a frame.
LEMMA AskedNumber == ASSUME IInv, Behind, Outstanding PROVE Asked # 0
<1>1. CASE bridge.pending # 0
  BY <1>1 DEF Behind, Asked
<1>2. CASE Requesting
  <2>1. shared.present = bridge.present /\ Calling /\ bridge \in BridgeType
    BY <1>2 DEF IInv, Bounded, TypeOK, Product, Calling, Requesting, Waiting
  <2> QED
    BY <2>1, AcceptedNumber, BoundsAssumption DEF Behind, BridgeType, Ordinals, Asked
<1> QED
  BY <1>1, <1>2 DEF Outstanding

\* The outstanding request is answered, and never unanswered, and never unanswered.
LEMMA MayAnswer ==
  ASSUME IInv, IInv', Behind, UNCHANGED <<bridge, bridgeQ, screen, shared.present, shared.frameSeq>>,
         Out' <=> Out, Answered => Answered'
  PROVE  Behind' /\ Kept
<1>1. SameCopies /\ UNCHANGED Accepted
  BY CopiesStay DEF SameCopies, Copying
<1>2. UNCHANGED Asked /\ (Outstanding' <=> Outstanding)
  BY DEF Asked, Outstanding, Requesting
<1>3. Behind'
  BY <1>1 DEF Behind, SameCopies, Calling
<1>4. CASE Answered' <=> Answered
  <2>1. Stays
    BY <1>1, <1>2, <1>4 DEF Stays, Same, SameCopies
  <2> QED
    BY <1>3, <2>1 DEF Kept
<1>5. CASE Answered' /\ ~Answered
  <2>1. Outstanding
    BY <1>2, <1>5 DEF Answered
  <2>2. Asked # 0
    BY <2>1, AskedNumber
  <2>3. Answers
    BY <1>1, <1>2, <1>5, <2>1, <2>2 DEF Answers, Same, Asked, SameCopies
  <2> QED
    BY <1>3, <2>3 DEF Kept
<1> QED
  BY <1>4, <1>5

\* A host step that publishes no completion answers nothing.
LEMMA AnswersNothing ==
  ASSUME IInv, Behind,
         UNCHANGED <<bridge, fence, bridgeQ, screen, shared.present, shared.frameSeq,
                     shared.completedSeq>>
  PROVE  Behind' /\ Kept
<1>1. SameCopies /\ UNCHANGED Accepted
  BY CopiesStay DEF SameCopies, Copying
<1>2. UNCHANGED Asked /\ (Answered' <=> Answered)
  BY DEF Asked, Answered, Outstanding, Requesting, OutputReady
<1>3. Behind'
  BY <1>1 DEF Behind, SameCopies, Calling
<1> QED
  BY <1>1, <1>2, <1>3 DEF Kept, Stays, Same, SameCopies

\* What the host's steps leave alone in the block.
LEMMA HostWrites ==
  ASSUME IInv, HostNext
  PROVE  /\ UNCHANGED <<shared.present, shared.frameSeq, shared.outputFence, shared.frameReset>>
         /\ PublishCompleted \/ UNCHANGED shared.completedSeq
<1> DEFINE G == /\ UNCHANGED <<shared.present, shared.frameSeq, shared.outputFence,
                                 shared.frameReset>>
                /\ PublishCompleted \/ UNCHANGED shared.completedSeq
<1>1. shared \in SharedType
  BY DEF IInv, Bounded, TypeOK
<1>2. ASSUME UNCHANGED shared PROVE G
  BY <1>2
<1>3. ASSUME NEW fields, CloseFields(fields) PROVE G
  BY <1>1, <1>3 DEF CloseFields, SharedType
<1>4. OpenBridge \/ BeginConfigure \/ ConfigureFailed => G
  BY <1>1 DEF OpenBridge, BeginConfigure, ConfigureFailed, SharedType
<1>5. FeatureReady => G
  BY <1>1 DEF FeatureReady, SharedType
<1>6. ASSUME NEW outcome \in Outcomes, Record(outcome) \/ SignalFails(outcome) PROVE G
  BY <1>1, <1>6 DEF Record, SignalFails, SharedType
<1>7. PublishEnqueued => G
  BY <1>1 DEF PublishEnqueued, SharedType
<1>8. PublishResult => G
  <2>1. ASSUME PublishResult, NEW state, shared' = [shared EXCEPT !.lastOk = host.ok, !.state = state]
        PROVE  G
    BY <1>1, <2>1 DEF SharedType
  <2> QED
    BY <2>1 DEF PublishResult
<1>9. PublishCompleted => G
  BY <1>1 DEF PublishCompleted, SharedType
<1>10. StopHost => G
  BY <1>1 DEF StopHost, SharedType
<1> HIDE DEF G
<1>11. RetireFails => G
  BY <1>3, Zenon DEF RetireFails
<1>12. ImportFails => G
  BY <1>3, Zenon DEF ImportFails
<1>13. ASSUME NEW f \in Fields, Import(f) PROVE G
  BY <1>3, <1>13, Zenon DEF Import
<1>14. (\/ OpenMapping \/ OpenFails \/ Wait \/ CheckGeneration \/ RetireQueue \/ Imported \/ FeatureFails \/ BeginFrame
        \/ AnnounceEnqueued \/ AnnounceCompleted \/ Exit \/ HostCrash) => UNCHANGED shared
  BY DEF OpenMapping, OpenFails, Wait, CheckGeneration, RetireQueue, Imported, FeatureFails, BeginFrame,
     AnnounceEnqueued, AnnounceCompleted, SetDone, Exit, HostCrash, Gone, ipcVars
<1>15. G
  BY <1>2, <1>4, <1>5, <1>6, <1>7, <1>8, <1>9, <1>10, <1>11, <1>12, <1>13, <1>14
     DEF HostNext, HostSteps
<1> QED
  BY <1>15 DEF G

\* A step of the host answers the request, fails, recovers, or changes nothing.
LEMMA HostKeepsPromise ==
  ASSUME IInv, IInv', Behind, HostNext
  PROVE  Behind' /\ Kept
<1>1. shared \in SharedType
  BY DEF IInv, Bounded, TypeOK
<1>2. UNCHANGED <<bridge, fence, bridgeQ, screen>>
  BY DEF HostNext, HostSteps, HostCrash, OpenMapping, OpenBridge, OpenFails, Wait, CheckGeneration, BeginConfigure, RetireQueue,
     RetireFails, Import, ImportFails, Imported, FeatureReady, FeatureFails, ConfigureFailed,
     BeginFrame, Record, SignalFails, PublishEnqueued, AnnounceEnqueued, PublishResult,
     PublishCompleted, AnnounceCompleted, SetDone, StopHost, Exit, Gone, ipcVars, gpuVars
<1>3. CASE PublishCompleted
  <2>1. /\ UNCHANGED <<alive, shared.present, shared.frameSeq, shared.state>>
        /\ shared'.completedSeq = host.seq /\ host.pc = "complete"
    BY <1>1, <1>3 DEF PublishCompleted, SharedType
  <2>2. host.seq = shared.frameSeq
    BY <2>1 DEF IInv, Frames, Working
  <2>3. Answered => Answered'
    BY <1>2, <2>1, <2>2 DEF Answered, Outstanding, Requesting, OutputReady
  <2>4. Out' <=> Out
    BY <2>1 DEF Out, HostFailed
  <2> QED
    BY <1>2, <2>1, <2>3, <2>4, MayAnswer
<1>4. CASE ~PublishCompleted
  <2>1. UNCHANGED <<shared.present, shared.frameSeq, shared.completedSeq>>
    BY <1>4, HostWrites
  <2> QED
    BY <1>2, <2>1, AnswersNothing
<1> QED
  BY <1>3, <1>4

\* The copy to the screen shows what was accepted; a signal may answer.
LEMMA GpuKeepsPromise ==
  ASSUME IInv, IInv', Behind, GpuNext
  PROVE  Behind' /\ Kept
<1>1. UNCHANGED <<shared, alive, bridge, host>>
  BY DEF GpuNext, BridgeGpu, HostGpu
<1>2. Out' <=> Out
  BY <1>1 DEF Out, HostFailed
<1>3. fence' >= fence /\ fence \in Nat /\ fence' \in Nat /\ bridge.fenceValue \in Nat
  <2>1. fence' >= fence
    BY FenceStep DEF Next
  <2>2. fence' \in Nat
    BY BoundsAssumption DEF IInv, Bounded, TypeOK, FenceValues
  <2> QED
    BY <2>1, <2>2, Numeric DEF IInv, FenceNumbers
<1>4. Answered => Answered'
  BY <1>1, <1>3 DEF Answered, Outstanding, Requesting, OutputReady
<1>5. CASE HostGpu
  BY <1>1, <1>2, <1>4, <1>5, MayAnswer DEF HostGpu
<1>6. CASE BridgeGpu
  <2>1. BridgeTakes
    <3>1. event'.stop = event.stop
      BY <1>6 DEF IInv, Bounded, TypeOK, BridgeGpu, SignalFence, EventType
    <3> QED
      BY <1>1, <1>6, <3>1 DEF BridgeGpu, BridgeTakes, Runnable
  <2>2. /\ Len(bridgeQ) \in Nat \ {0} /\ Len(bridgeQ') = Len(bridgeQ) - 1
        /\ \A i \in 1..Len(bridgeQ') : bridgeQ'[i] = bridgeQ[i + 1]
        /\ bridgeQ' = <<>> <=> Len(bridgeQ) = 1
        /\ Head(bridgeQ) = bridgeQ[1] /\ bridgeQ # <<>>
    BY <2>1, BridgeTails DEF BridgeTakes
  <2>3. ~Copying'
    <3>1. ASSUME Copying' PROVE FALSE
      <4>1. bridgeQ'[1] = bridgeQ[2] /\ 2 \in 1..Len(bridgeQ)
        BY <2>2, <3>1 DEF Copying
      <4> QED
        BY <3>1, <4>1 DEF Copying, IInv, BridgeQueue, BridgeOp
    <3> QED
      BY <3>1
  <2>4. UNCHANGED Asked /\ (Outstanding' <=> Outstanding)
    BY <1>1 DEF Asked, Outstanding, Requesting
  <2>5. CASE Copying
    <3>1. /\ UNCHANGED fence
          /\ screen' = [frame |-> bridgeQ[1].n, image |-> tex[bridgeQ[1].gen].output]
      BY <1>6, <2>2, <2>5 DEF BridgeGpu, Copying
    <3>2. bridgeQ[1].n = tex[bridgeQ[1].gen].output.frame
      BY <2>2, <2>5 DEF Copying, IInv, BridgeQueue, BridgeOp
    <3>3. Accepted = bridgeQ[1].n /\ Accepted # 0
      BY <2>5 DEF Accepted, Behind
    <3>4. Accepted' = screen'.frame
      BY <2>3 DEF Accepted
    <3>5. Answered' <=> Answered
      BY <1>1, <2>4, <3>1 DEF Answered, OutputReady
    <3>6. Shows
      BY <1>2, <2>4, <3>1, <3>2, <3>3, <3>4, <3>5 DEF Shows
    <3>7. Behind'
      BY <1>1, <2>3, <3>1, <3>3, <3>4 DEF Behind, Calling
    <3> QED
      BY <3>6, <3>7 DEF Kept
  <2>6. CASE ~Copying
    <3>1. UNCHANGED screen
      BY <1>6, <2>2, <2>6 DEF BridgeGpu, Copying
    <3>2. UNCHANGED Accepted
      BY <2>3, <2>6, <3>1 DEF Accepted
    <3>3. Behind'
      BY <1>1, <2>3, <3>2 DEF Behind, Calling
    <3>4. CASE Answered' <=> Answered
      BY <2>4, <3>1, <3>2, <3>3, <3>4 DEF Kept, Stays, Same
    <3>5. CASE Answered' /\ ~Answered
      <4>1. Asked # 0
        BY <2>4, <3>5, AskedNumber DEF Answered
      <4> QED
        BY <1>2, <2>4, <3>1, <3>2, <3>3, <3>5, <4>1 DEF Kept, Answers, Same
    <3> QED
      BY <1>4, <3>4, <3>5
  <2> QED
    BY <2>5, <2>6
<1> QED
  BY <1>5, <1>6 DEF GpuNext

\* What a step of the bridge does to the request outside Finish and PublishFrame.
LEMMA SessionSteps ==
  ASSUME IInv, Behind, SameSession, UNCHANGED BridgeData,
         (Requesting /\ Requesting') \/ (~Requesting /\ ~Requesting'),
         Calling' => Calling
  PROVE  Behind' /\ Kept
<1>1. UNCHANGED <<shared, fence, bridgeQ, screen, bridge.pending, bridge.present, bridge.fenceValue>>
  BY DEF SameSession, BridgeData
<1>2. SameCopies
  BY <1>1 DEF SameCopies, Copying
<1> QED
  BY <1>1, <1>2, Unasked, StillAsked

\* Until it publishes, a call goes on or returns, and keeps no request.
LEMMA PreparesStep ==
  ASSUME IInv, BridgeNext, bridge.pc \in {"fill"} \cup Preparing, ~PublishFrame, ~BridgeCrash
  PROVE  /\ bridge.pending = 0 /\ bridge'.pending = 0 /\ bridge'.present = bridge.present
         /\ bridge'.pc \in Preparing \cup {"idle"}
<1>1. bridge \in BridgeType /\ shared \in SharedType
  BY DEF IInv, Bounded, TypeOK
<1>2. bridge.pending = 0
  BY DEF IInv, Stamps, Preparing, Quitting
<1>3. /\ UNCHANGED <<bridge.pending, bridge.present>>
      /\ bridge'.pc \in Preparing \cup {"idle"}
  <2> USE <1>1 DEF BridgeType, Preparing
  <2>0. Fill => <1>3!:
    BY DEF Fill
  <2>1. Ensure => <1>3!:
    <3> SUFFICES ASSUME Ensure PROVE <1>3!:
      OBVIOUS
    <3>1. CASE bridge.resourcesReady /\ bridge.width = bridge.call.size
      <4>1. bridge' = Goto("publish") \/ bridge' = Goto("state")
        BY <3>1 DEF Ensure
      <4> QED
        BY <4>1
    <3>2. CASE ~(bridge.resourcesReady /\ bridge.width = bridge.call.size)
      <4>1. bridge' = [bridge EXCEPT !.pc = "transfer",
                         !.resourcesReady = FALSE, !.forceReset = TRUE,
                         !.width = bridge.call.size, !.generation = @ + 1,
                         !.untransferred = Textures]
        BY <3>2 DEF Ensure
      <4>2. bridge'.pc = "transfer" /\ bridge'.pending = bridge.pending
            /\ bridge'.present = bridge.present
        BY <4>1
      <4> QED
        BY <4>2
    <3> QED
      BY <3>1, <3>2
  <2>2. ASSUME NEW t \in Textures, Transfer(t) PROVE <1>3!:
    BY <2>2 DEF Transfer
  <2>3. TransferFails => <1>3!:
    BY DEF TransferFails, PassedThrough
  <2>4. PublishConfiguring \/ BumpGenerations \/ WakeHost => <1>3!:
    BY DEF PublishConfiguring, BumpGenerations, WakeHost
  <2>5. AwaitReady => <1>3!:
    BY DEF AwaitReady, PassedThrough
  <2>6. SubmitInputs => <1>3!:
    BY DEF SubmitInputs, PassedThrough
  <2>7. StampFences => <1>3!:
    BY DEF StampFences
  <2>8. TimeOut => <1>3!:
    BY DEF TimeOut, PassedThrough
  <2>9. \/ Fill \/ Ensure \/ \E t \in Textures : Transfer(t)
        \/ TransferFails \/ PublishConfiguring \/ BumpGenerations \/ WakeHost
        \/ AwaitReady \/ SubmitInputs \/ StampFences \/ TimeOut
    BY DEF BridgeNext, Presents, BridgeSteps, Present, Connect, CheckPending,
       PollDrain, SleepDrain, PollOutput, SleepOutput, KickHost,
       PollEnqueued, SleepEnqueued, PollCurrent, SleepCurrent, Finish, Close, Shutdown
  <2> QED
    BY <2>0, <2>1, <2>2, <2>3, <2>4, <2>5, <2>6, <2>7, <2>8, <2>9
<1> QED
  BY <1>2, <1>3

\* The steps of a call before it publishes, with no older request outstanding.
LEMMA Prepares ==
  ASSUME IInv, Behind, BridgeNext, bridge.pc \in {"fill"} \cup Preparing, ~PublishFrame,
         ~BridgeCrash
  PROVE  Behind' /\ Kept
<1>1. /\ bridge \in BridgeType /\ shared \in SharedType /\ UNCHANGED screen
      /\ bridgeQ \in Seq(Ops)
  BY DEF IInv, Bounded, TypeOK, BridgeNext, Presents, BridgeSteps, Present, Connect, CheckPending,
     PollDrain, SleepDrain,
     PollOutput, SleepOutput, Fill, Ensure, Transfer, TransferFails, PublishConfiguring,
     BumpGenerations, WakeHost, AwaitReady, SubmitInputs, StampFences, KickHost,
     PollEnqueued, SleepEnqueued, PollCurrent, SleepCurrent, Finish, Close, TimeOut, Shutdown,
     ipcVars, gpuVars
<1>2. bridge.pending = 0
  BY DEF IInv, Stamps, Preparing, Quitting
<1>3. /\ UNCHANGED <<bridge.pending, bridge.present>>
      /\ bridge'.pc \in Preparing \cup {"idle"}
  BY PreparesStep
<1>4. SameCopies
  <2>1. UNCHANGED bridgeQ \/ SubmitInputs
    BY DEF BridgeNext, Presents, BridgeSteps, Present, Connect, CheckPending, Preparing,
     PollDrain, SleepDrain,
     PollOutput, SleepOutput, Fill, Ensure, Transfer, TransferFails, PublishConfiguring,
     BumpGenerations, WakeHost, AwaitReady, StampFences, KickHost,
     PollEnqueued, SleepEnqueued, PollCurrent, SleepCurrent, Finish, Close, TimeOut, Shutdown,
     ipcVars, gpuVars
  <2>2. CASE UNCHANGED bridgeQ
    BY <1>1, <2>2 DEF SameCopies, Copying
  <2>3. CASE SubmitInputs
    <3>1. \/ UNCHANGED bridgeQ
          \/ bridgeQ' = bridgeQ \o <<Op("copyIn", bridge.present, bridge.generation),
                                     Op("signal", bridge.fenceValue + 1, bridge.generation)>>
          \/ bridgeQ' = Append(bridgeQ, Op("copyIn", bridge.present, bridge.generation))
      BY <2>3 DEF SubmitInputs
    <3>2. CASE bridgeQ = <<>>
      <4>1. bridgeQ' # <<>> => bridgeQ'[1].kind = "copyIn"
        BY <3>1, <3>2 DEF Op
      <4> QED
        BY <1>1, <3>2, <4>1 DEF SameCopies, Copying
    <3>3. CASE bridgeQ # <<>>
      <4>1. bridgeQ' # <<>> /\ bridgeQ'[1] = bridgeQ[1]
        BY <1>1, <3>1, <3>3
      <4> QED
        BY <1>1, <3>3, <4>1 DEF SameCopies, Copying
    <3> QED
      BY <3>2, <3>3
  <2> QED
    BY <2>1, <2>2, <2>3
<1>5. ~Requesting /\ ~Requesting' /\ Calling
  BY <1>3 DEF Requesting, Calling, Preparing
<1> QED
  BY <1>2, <1>3, <1>4, <1>5, Unasked

\* A step of the presenting thread asks, accepts, discards, loses, or changes nothing.
LEMMA BridgeKeepsPromise ==
  ASSUME IInv, IInv', Behind, BridgeNext, ~BridgeCrash
  PROVE  Behind' /\ Kept
<1>1. Bounded /\ bridge \in BridgeType /\ WaitsWork /\ UNCHANGED host
  BY DEF IInv, Bounded, TypeOK, BridgeNext
<1>2. CASE bridge.pc \in {"fill"} \cup Preparing
  BY <1>2, Prepares, PublishFrameAsks
<1>3. CASE Presents
  <2>1. /\ bridge.pc = "idle" /\ bridge'.pc \in {"idle", "pending"}
        /\ bridge'.present = bridge.present + 1
        /\ UNCHANGED <<bridge.pending, bridge.fenceValue>>
    <3>1. PICK size \in Sizes, preset \in Presets, synchronized \in BOOLEAN, cut \in BOOLEAN :
            Present(size, preset, synchronized, cut)
      BY <1>3 DEF Presents
    <3>2. CASE Refused
      <4>1. bridge' = PassedThrough([bridge EXCEPT !.pc = "pending", !.present = @ + 1])
        BY <3>1, <3>2 DEF Present
      <4> QED
        BY <1>1, <3>1, <4>1 DEF Present, PassedThrough, BridgeType
    <3>3. CASE ~Refused
      <4>1. bridge' = [[bridge EXCEPT !.pc = "pending", !.present = @ + 1] EXCEPT
                         !.lastPreset = preset,
                         !.call = [size |-> size, synchronized |-> synchronized,
                                   reset |-> bridge.pipelineReset \/ cut],
                         !.dirty = @ \/ bridge.lastPreset # preset,
                         !.forceReset = @ \/ bridge.lastPreset # preset]
        BY <3>1, <3>3 DEF Present
      <4>2. /\ bridge'.pc = "pending" /\ bridge'.present = bridge.present + 1
            /\ UNCHANGED <<bridge.pending, bridge.fenceValue>>
        BY <1>1, <4>1 DEF BridgeType
      <4> QED
        BY <3>1, <4>2 DEF Present
    <3> QED
      BY <3>2, <3>3
  <2>2. UNCHANGED <<shared, fence, bridgeQ, screen, alive>>
    BY <1>3 DEF Presents, Present, ipcVars
  <2>3. SameCopies /\ UNCHANGED Accepted
    BY <2>2, CopiesStay DEF SameCopies, Copying
  <2>4. UNCHANGED Asked /\ (Answered' <=> Answered)
    BY <2>1, <2>2 DEF Asked, Answered, Outstanding, Requesting, OutputReady
  <2>5. Accepted <= bridge.present /\ bridge.present \in Nat /\ Accepted \in Nat
    BY <1>1, AcceptedNumber, BoundsAssumption DEF Behind, BridgeType, Ordinals
  <2>6. Behind'
    BY <2>1, <2>2, <2>3, <2>5 DEF Behind, SameCopies
  <2> QED
    BY <2>2, <2>3, <2>4, <2>6 DEF Kept, Stays, Same
<1>4. CASE CheckPending \/ PollDrain \/ SleepDrain
  <2>1. bridge.pc \in Draining
    BY <1>4 DEF CheckPending, PollDrain, SleepDrain, SleepOutput, Draining
  <2>2. SameSession
    <3>1. UNCHANGED <<shared, alive, remote, fence, bridgeQ, hostQ, tex, screen, host>>
      BY <1>1, <1>4 DEF CheckPending, PollDrain, PollOutput, SleepDrain, SleepOutput, ipcVars, gpuVars
    <3>2. \/ UNCHANGED event
          \/ \E b \in BOOLEAN : event' = [event EXCEPT !.fence = b]
          \/ \E b \in BOOLEAN : event' = [event EXCEPT !.done = b]
      BY <1>1, <1>4, Registers
         DEF CheckPending, PollDrain, PollOutput, SleepDrain, SleepOutput, ipcVars
    <3> QED
      BY <1>1, <3>1, <3>2, SameIfUnchanged
  <2>3. \/ /\ bridge' = Retired(bridge) /\ bridge.pc \in {"pending", "drain"}
           /\ OutputReady(bridge.pending, bridge.pendingOutput) /\ bridge.pending # 0
        \/ \E pc \in Draining \cup {"fill"} : bridge' = Goto(pc)
        \/ bridge' = PassedThrough(bridge)
    BY <1>1, <1>4 DEF CheckPending, PollDrain, PollOutput, SleepDrain, SleepOutput, Draining,
       IInv, Stamps
  <2>4. ASSUME \E pc \in Draining \cup {"fill"} : bridge' = Goto(pc)
        PROVE  bridge'.pc \in Draining \cup {"fill"} /\ UNCHANGED BridgeData
    BY <1>1, <2>4, Moves DEF Draining, BridgePcs
  <2>5. ASSUME bridge' = PassedThrough(bridge)
        PROVE  bridge'.pc = "idle" /\ UNCHANGED BridgeData
    BY <1>1, <2>5, PassesThrough
  <2> QED
    BY <2>1, <2>2, <2>3, <2>4, <2>5, RetiredDiscards, SessionSteps
       DEF Calling, Requesting, Draining
<1>5. CASE PollEnqueued \/ SleepEnqueued \/ PollCurrent \/ SleepCurrent \/ KickHost
  <2>1. Requesting
    BY <1>5 DEF PollEnqueued, SleepEnqueued, PollCurrent, PollOutput, SleepCurrent, SleepOutput,
       KickHost, Requesting
  <2>2. SameSession
    <3>1. UNCHANGED <<shared, alive, remote, fence, bridgeQ, hostQ, tex, screen, host>>
      BY <1>1, <1>5 DEF PollEnqueued, SleepEnqueued, PollCurrent, PollOutput, SleepCurrent,
         SleepOutput, KickHost, ipcVars, gpuVars
    <3>2. \/ UNCHANGED event
          \/ \E b \in BOOLEAN : event' = [event EXCEPT !.fence = b]
          \/ \E b \in BOOLEAN : event' = [event EXCEPT !.done = b]
          \/ \E b \in BOOLEAN : event' = [event EXCEPT !.frame = b]
      BY <1>1, <1>5, Registers DEF PollEnqueued, SleepEnqueued, PollCurrent, PollOutput, SleepCurrent,
         SleepOutput, KickHost, ipcVars, gpuVars
    <3> QED
      BY <1>1, <3>1, <3>2, SameIfUnchanged
  <2>3. \/ \E pc \in Waiting \cup {"finish"} : bridge' = Goto(pc)
        \/ bridge' = LeftPending(bridge)
        \/ bridge' = Abandoned(bridge) /\ Out
    BY <1>1, <1>5 DEF PollEnqueued, SleepEnqueued, PollCurrent, PollOutput, SleepCurrent,
         SleepOutput, KickHost, Out, Waiting, WaitsWork
  <2>4. ASSUME \E pc \in Waiting \cup {"finish"} : bridge' = Goto(pc)
        PROVE  bridge'.pc \in Waiting \cup {"finish"} /\ UNCHANGED BridgeData
    BY <1>1, <2>4, Moves DEF Waiting, BridgePcs
  <2>5. Calling /\ (bridge'.pc \in Waiting \cup {"finish"} => Requesting')
    BY <2>1 DEF Calling, Requesting, Waiting
  <2> QED
    BY <2>1, <2>2, <2>3, <2>4, <2>5, LeftStays, AbandonedLoses, SessionSteps
<1>6. CASE Connect \/ Shutdown \/ Close
  <2>1. /\ shared \in SharedType /\ UNCHANGED <<bridgeQ, screen, alive, fence>>
        /\ bridge.pc \in {"connect", "idle", "closing"}
    BY <1>6 DEF IInv, Bounded, TypeOK, Connect, Shutdown, Close, ipcVars, gpuVars
  <2>2. /\ bridge'.pc \in {"idle", "closing", "closed"}
        /\ UNCHANGED <<bridge.pending, bridge.present, bridge.fenceValue>>
    BY <1>1, <1>6 DEF Connect, Shutdown, Close, BridgeType
  <2>3. UNCHANGED <<shared.present, shared.frameSeq, shared.completedSeq>>
    BY <1>6, <2>1 DEF Connect, Shutdown, Close, ipcVars, SharedType
  <2>4. ~Requesting /\ ~Requesting' /\ ~Calling'
    BY <2>1, <2>2 DEF Requesting, Calling, Draining, Preparing, Waiting
  <2>5. SameCopies
    BY <2>1 DEF SameCopies, Copying
  <2> QED
    BY <2>1, <2>2, <2>3, <2>4, <2>5, Unasked
<1>7. CASE TimeOut /\ bridge.pc \notin {"fill"} \cup Preparing
  <2>1. UNCHANGED <<alive, remote, fence, bridgeQ, hostQ, tex, screen, host>>
    BY <1>1, <1>7 DEF TimeOut, gpuVars
  <2>2. CASE UNCHANGED <<shared, event>>
    <3>1. SameSession
      BY <1>1, <2>1, <2>2, SameIfUnchanged
    <3>2. \/ bridge.pc \in Draining /\ bridge' = PassedThrough(bridge)
          \/ bridge.pc \in Draining /\ bridge' = Goto("drain")
          \/ Requesting /\ bridge' = LeftPending(bridge)
          \/ bridge.pc = "outputSleep" /\ bridge' = Goto("output")
          \/ bridge.pc = "connect" /\ bridge' = Goto("closing")
      BY <1>7 DEF TimeOut, Draining, Requesting, Preparing
    <3>3. (\E pc \in {"drain", "output", "closing"} : bridge' = Goto(pc)) => UNCHANGED BridgeData
      BY <1>1, Moves DEF BridgePcs
    <3>4. \A pc \in {"drain", "output", "closing"} : bridge' = Goto(pc) => bridge'.pc = pc
      BY <1>1, Moves DEF BridgePcs
    <3>5. bridge' = PassedThrough(bridge) => bridge'.pc = "idle" /\ UNCHANGED BridgeData
      BY <1>1, PassesThrough
    <3> QED
      BY <3>1, <3>2, <3>3, <3>4, <3>5, LeftStays, SessionSteps
         DEF Calling, Requesting, Draining, Waiting, Preparing
  <2>3. CASE bridge.pc = "connect" /\ bridge' = Goto("closing")
             /\ shared' = [shared EXCEPT !.stopRequested = TRUE]
    <3>1. shared \in SharedType
      BY DEF IInv, Bounded, TypeOK
    <3>2. /\ bridge'.pc = "closing"
          /\ UNCHANGED <<bridge.pending, bridge.present, bridge.fenceValue>>
          /\ UNCHANGED <<shared.present, shared.frameSeq, shared.completedSeq>>
      BY <1>1, <2>3, <3>1 DEF BridgeType, SharedType
    <3>3. ~Requesting /\ ~Requesting' /\ ~Calling' /\ SameCopies
      BY <2>1, <2>3, <3>2 DEF Requesting, Calling, Draining, Preparing, Waiting, SameCopies, Copying
    <3> QED
      BY <2>1, <3>2, <3>3, Unasked
  <2> QED
    BY <1>7, <2>2, <2>3 DEF TimeOut
<1>8. CASE Finish
  BY <1>8, FinishAccepts
<1>9. \/ bridge.pc \in {"fill"} \cup Preparing
      \/ Presents \/ Connect \/ CheckPending \/ PollDrain \/ SleepDrain \/ KickHost
      \/ PollEnqueued \/ SleepEnqueued \/ PollCurrent \/ SleepCurrent \/ Finish \/ Close
      \/ TimeOut \/ Shutdown
  BY DEF BridgeNext, BridgeSteps, Fill, Ensure, Transfer, TransferFails, PublishConfiguring,
     BumpGenerations, WakeHost, AwaitReady, SubmitInputs, StampFences, PublishFrame, Preparing
<1> QED
  BY <1>2, <1>3, <1>4, <1>5, <1>6, <1>7, <1>8, <1>9

\* The game's process ends only by closing its session.
GameLives == "bridgeCrash" \notin Faults

\* The session keeps the promise of ExactFrames.
THEOREM PromiseKept ==
  WaitsWork /\ GameLives /\ Spec => KeepsPromise
<1>1. Init => Promise!Init /\ Behind
  <2> SUFFICES ASSUME Init PROVE Promise!Init /\ Behind
    OBVIOUS
  <2> USE DEF Init, IpcInit, BridgeInit, HostInit
  <2>1. bridgeQ = <<>> /\ ~Outstanding /\ ~Requesting /\ bridge.pending = 0 /\ bridge.present = 0
        /\ bridge.pc = "connect" /\ screen.frame = 0 /\ screen.image.frame = 0
    BY DEF Outstanding, Requesting, NoImage
  <2>2. Composites = {} /\ ~Copying /\ ~Calling
    BY <2>1 DEF Composites, Copying, Calling, Draining, Preparing, Waiting
  <2>3. (HostFailed \/ ~alive.host) = FALSE
    BY DEF HostFailed
  <2>4. Promise!Init
    BY <2>1, <2>2, <2>3, Zenon DEF Promise!Init
  <2> QED
    BY <2>1, <2>2, <2>4 DEF Behind, Accepted
<1>2. IInv /\ IInv' /\ GameLives /\ Behind /\ [Next]_vars
        => GameLives' /\ Behind' /\ [Promise!Next]_Promise!vars
  <2> SUFFICES ASSUME IInv, IInv', GameLives, Behind, [Next]_vars
               PROVE  Behind' /\ Kept
    BY KeptIsNext DEF GameLives
  <2>1. CASE UNCHANGED vars
    BY <2>1, AnswersNothing DEF vars, ipcVars
  <2>2. CASE BridgeNext
    BY <2>2, BridgeKeepsPromise DEF BridgeCrash, GameLives
  <2> QED
    BY <2>1, <2>2, HostKeepsPromise, GpuKeepsPromise DEF Next, Ended
<1> QED
  BY <1>1, <1>2, Exact, PTL DEF Spec, KeepsPromise, Promise!Spec

-----------------------------------------------------------------------------
(***************************************************************************)
(* What the host reports of a frame is what it did to it.                  *)
(***************************************************************************)

\* A list whose evaluation was recorded can be closed.
CloseWorks == "close" \notin Faults

\* The work on the frame is an evaluation, queued or done.
Evaluating ==
  /\ \A i \in 1..Len(hostQ) : hostQ[i].kind # "fallback"
  /\ NoWork => tex[host.textures].output.neural

\* The output signal is queued or has been given.
Signalled == ~NoSignal \/ fence >= shared.outputFence

\* A frame the host is about to report, has reported, has completed as evaluated.
Reported ==
  /\ host.pc \in {"enqueued", "enqueuedEvent", "result"} /\ host.ok =>
       host.lastFrame = shared.present /\ (CloseWorks => Evaluating)
  /\ alive.host /\ ~Unseen /\ host.pc \notin WorkPcs /\ Outstanding /\ Signalled /\ shared.lastOk =>
       host.lastFrame = shared.present /\ (CloseWorks => Evaluating)
  /\ alive.bridge /\ Outstanding /\ fence >= bridge.fenceValue
       /\ shared.completedSeq = shared.frameSeq /\ shared.lastOk =>
       /\ host.lastFrame = shared.present
       /\ CloseWorks => tex[bridge.generation].output.neural

\* What the bridge's steps leave alone in the block.
LEMMA BridgeWrites ==
  ASSUME IInv, BridgeNext
  PROVE  /\ UNCHANGED <<shared.lastOk, shared.completedSeq>>
         /\ Fill \/ UNCHANGED <<shared.present, shared.frameReset>>
         /\ PublishFrame \/ UNCHANGED shared.frameSeq
         /\ StampFences \/ UNCHANGED shared.outputFence
<1> DEFINE G == /\ UNCHANGED <<shared.lastOk, shared.completedSeq>>
                /\ Fill \/ UNCHANGED <<shared.present, shared.frameReset>>
                /\ PublishFrame \/ UNCHANGED shared.frameSeq
                /\ StampFences \/ UNCHANGED shared.outputFence
<1>1. shared \in SharedType
  BY DEF IInv, Bounded, TypeOK
<1>2. ASSUME UNCHANGED shared PROVE G
  BY <1>2
<1>3. Fill => G
  BY <1>1 DEF Fill, SharedType
<1>4. StampFences => G
  BY <1>1 DEF StampFences, SharedType
<1>5. PublishFrame => G
  BY <1>1 DEF PublishFrame, SharedType
<1>6. BumpGenerations => G
  <2>1. ASSUME BumpGenerations, NEW r,
               shared' = [shared EXCEPT !.configGeneration = @ + 1, !.resourceGeneration = r]
        PROVE  G
    BY <1>1, <2>1 DEF SharedType
  <2> QED
    BY <2>1 DEF BumpGenerations
<1>7. PublishConfiguring => G
  BY <1>1 DEF PublishConfiguring, SharedType
<1>8. Connect \/ Shutdown \/ TimeOut =>
        UNCHANGED shared \/ shared' = [shared EXCEPT !.stopRequested = TRUE]
  BY DEF Connect, Shutdown, TimeOut
<1>9. ASSUME shared' = [shared EXCEPT !.stopRequested = TRUE] PROVE G
  BY <1>1, <1>9 DEF SharedType
<1>10. ASSUME NEW handle, shared' = [shared EXCEPT !.handle = handle] PROVE G
  BY <1>1, <1>10 DEF SharedType
<1>11. Ensure => G
  BY <1>2, <1>10 DEF Ensure
<1>12. TransferFails => G
  BY <1>10 DEF TransferFails, CloseFields
<1>13. ASSUME NEW t \in Textures, Transfer(t) PROVE G
  BY <1>1, <1>13 DEF Transfer, SharedType
<1> HIDE DEF G
<1>14. \/ Fill \/ StampFences \/ PublishFrame \/ BumpGenerations \/ PublishConfiguring
       \/ Connect \/ Shutdown \/ TimeOut \/ Ensure \/ TransferFails
       \/ (\E t \in Textures : Transfer(t))
       \/ UNCHANGED shared
  BY DEF BridgeNext, Presents, BridgeSteps, Present, CheckPending,
     PollDrain, SleepDrain, PollOutput, SleepOutput, WakeHost, AwaitReady, SubmitInputs, KickHost,
     PollEnqueued, SleepEnqueued, PollCurrent, SleepCurrent, Finish, Close, BridgeCrash, ipcVars
<1>15. G
  BY <1>2, <1>3, <1>4, <1>5, <1>6, <1>7, <1>8, <1>9, <1>11, <1>12, <1>13, <1>14
<1> QED
  BY <1>15 DEF G

\* What the bridge's steps leave alone, and what of a request.
LEMMA BridgeEffects ==
  ASSUME IInv, BridgeNext
  PROVE  /\ UNCHANGED <<host, tex, fence, hostQ, alive.host>> /\ (alive'.bridge => alive.bridge)
         /\ UNCHANGED <<shared.lastOk, shared.completedSeq>>
         /\ UNCHANGED shared.present \/ Fill
         /\ UNCHANGED shared.frameSeq \/ PublishFrame
         /\ UNCHANGED shared.outputFence \/ StampFences
         /\ \/ PublishFrame
            \/ ~Outstanding'
            \/ /\ Outstanding /\ UNCHANGED <<bridge.generation, bridge.fenceValue>>
               /\ bridge.pc \notin {"fill", "stamp", "number"}
<1>1. /\ bridge \in BridgeType /\ shared \in SharedType
      /\ alive \in [bridge : BOOLEAN, host : BOOLEAN]
  BY DEF IInv, Bounded, TypeOK
<1>2. UNCHANGED <<host, tex, fence, hostQ>>
  BY DEF BridgeNext, Presents, BridgeSteps, Present, Connect, CheckPending, PollDrain, SleepDrain,
     PollOutput, SleepOutput, Fill, Ensure, Transfer, TransferFails, PublishConfiguring,
     BumpGenerations, WakeHost, AwaitReady, SubmitInputs, StampFences, PublishFrame, KickHost,
     PollEnqueued, SleepEnqueued, PollCurrent, SleepCurrent, Finish, Close, TimeOut, Shutdown,
     BridgeCrash, ipcVars, gpuVars
<1>3. alive'.host = alive.host /\ (alive'.bridge => alive.bridge)
  BY <1>1 DEF BridgeNext, Presents, BridgeSteps, Present, Connect, CheckPending, PollDrain, SleepDrain,
     PollOutput, SleepOutput, Fill, Ensure, Transfer, TransferFails, PublishConfiguring,
     BumpGenerations, WakeHost, AwaitReady, SubmitInputs, StampFences, PublishFrame, KickHost,
     PollEnqueued, SleepEnqueued, PollCurrent, SleepCurrent, Finish, Close, TimeOut, Shutdown,
     BridgeCrash, ipcVars, gpuVars
<1>4. /\ UNCHANGED <<shared.lastOk, shared.completedSeq>>
      /\ UNCHANGED shared.present \/ Fill
      /\ UNCHANGED shared.frameSeq \/ PublishFrame
      /\ UNCHANGED shared.outputFence \/ StampFences
  BY BridgeWrites
<1>5. \/ PublishFrame
      \/ ~Outstanding'
      \/ /\ Outstanding /\ UNCHANGED <<bridge.generation, bridge.fenceValue>>
         /\ bridge.pc \notin {"fill", "stamp", "number"}
  <2>1. CASE bridge.pc \in {"fill"} \cup Preparing /\ ~BridgeCrash /\ ~PublishFrame
    <3>1. bridge'.pending = 0 /\ bridge'.pc \in Preparing \cup {"idle"}
      BY <2>1, PreparesStep
    <3> QED
      BY <3>1 DEF Outstanding, Requesting, Preparing
  <2>2. CASE BridgeCrash
    <3>1. bridge'.pc = "dead" /\ UNCHANGED <<bridge.pending, bridge.generation, bridge.fenceValue>>
      BY <1>1, <2>2 DEF BridgeCrash, BridgeType
    <3>2. bridge.pending # 0 => bridge.pc \notin {"fill", "stamp", "number"}
      BY DEF IInv, Stamps, Quitting
    <3> QED
      BY <3>1, <3>2 DEF Outstanding, Requesting
  <2>3. CASE bridge.pc \notin {"fill"} \cup Preparing /\ ~BridgeCrash
    <3>1. \/ Presents \/ Connect \/ CheckPending \/ PollDrain \/ SleepDrain \/ KickHost
          \/ PollEnqueued \/ SleepEnqueued \/ PollCurrent \/ SleepCurrent \/ Finish \/ Close
          \/ TimeOut \/ Shutdown
      BY <2>3 DEF BridgeNext, BridgeSteps, Fill, Ensure, Transfer, TransferFails, PublishConfiguring,
         BumpGenerations, WakeHost, AwaitReady, SubmitInputs, StampFences, PublishFrame, Preparing
    <3>7. Presents =>
            /\ UNCHANGED <<bridge.pending, bridge.generation, bridge.fenceValue>>
            /\ bridge'.pc \in {"idle", "pending"}
      <4> SUFFICES ASSUME Presents
                   PROVE  /\ UNCHANGED <<bridge.pending, bridge.generation, bridge.fenceValue>>
                          /\ bridge'.pc \in {"idle", "pending"}
        OBVIOUS
      <4>1. PICK size \in Sizes, preset \in Presets, synchronized \in BOOLEAN, cut \in BOOLEAN :
              Present(size, preset, synchronized, cut)
        BY DEF Presents
      <4>2. CASE Refused
        <5>1. bridge' = PassedThrough([bridge EXCEPT !.pc = "pending", !.present = @ + 1])
          BY <4>1, <4>2 DEF Present
        <5> QED
          BY <1>1, <5>1 DEF PassedThrough, BridgeType
      <4>3. CASE ~Refused
        <5>1. bridge' = [[bridge EXCEPT !.pc = "pending", !.present = @ + 1] EXCEPT
                           !.lastPreset = preset,
                           !.call = [size |-> size, synchronized |-> synchronized,
                                     reset |-> bridge.pipelineReset \/ cut],
                           !.dirty = @ \/ bridge.lastPreset # preset,
                           !.forceReset = @ \/ bridge.lastPreset # preset]
          BY <4>1, <4>3 DEF Present
        <5>2. /\ bridge'.pc = "pending" /\ bridge'.pending = bridge.pending
              /\ bridge'.generation = bridge.generation /\ bridge'.fenceValue = bridge.fenceValue
          BY <1>1, <5>1 DEF BridgeType
        <5> QED
          BY <5>2
      <4> QED
        BY <4>2, <4>3
    <3>8. Connect \/ Close \/ Shutdown =>
            /\ UNCHANGED <<bridge.pending, bridge.generation, bridge.fenceValue>>
            /\ bridge'.pc \in {"idle", "pending", "closing", "closed"}
      BY <1>1 DEF Connect, Close, Shutdown, BridgeType
    <3>a. ASSUME bridge' = PassedThrough(bridge)
          PROVE  /\ UNCHANGED <<bridge.pending, bridge.generation, bridge.fenceValue>>
                 /\ bridge'.pc = "idle"
      BY <1>1, <3>a DEF PassedThrough, BridgeType
    <3>b. ASSUME bridge' = LeftPending(bridge) \/ bridge' = Abandoned(bridge)
          PROVE  UNCHANGED <<bridge.generation, bridge.fenceValue>>
      <4>1. bridge' = LeftPending(bridge) => UNCHANGED <<bridge.generation, bridge.fenceValue>>
        BY <1>1 DEF LeftPending, PassedThrough, BridgeType
      <4>2. bridge' = Abandoned(bridge) => UNCHANGED <<bridge.generation, bridge.fenceValue>>
        BY <1>1 DEF Abandoned, PassedThrough, BridgeType
      <4> QED
        BY <3>b, <4>1, <4>2
    <3>c. ASSUME NEW pc, bridge' = [bridge EXCEPT !.pc = pc]
          PROVE  /\ UNCHANGED <<bridge.pending, bridge.generation, bridge.fenceValue>>
                 /\ bridge'.pc = pc
      BY <1>1, <3>c DEF BridgeType
    <3>d. ASSUME bridge' = Retired(bridge)
          PROVE  /\ UNCHANGED <<bridge.generation, bridge.fenceValue>>
                 /\ bridge'.pending = 0 /\ bridge'.pc = "fill"
      BY <1>1, <3>d DEF Retired, BridgeType
    <3>3. CheckPending \/ PollDrain \/ SleepDrain =>
            /\ UNCHANGED <<bridge.generation, bridge.fenceValue>>
            /\ bridge'.pending = bridge.pending \/ bridge'.pending = 0
            /\ bridge'.pc \in {"idle", "drain", "drainSleep", "fill"}
      <4>1. CheckPending => <3>3!2
        BY <3>a, <3>c, <3>d DEF CheckPending
      <4>2. PollDrain => <3>3!2
        BY <3>a, <3>c, <3>d DEF PollDrain, PollOutput
      <4>3. SleepDrain => <3>3!2
        BY <3>a, <3>c DEF SleepDrain, SleepOutput
      <4> QED
        BY <4>1, <4>2, <4>3
    <3>4. KickHost \/ PollEnqueued \/ SleepEnqueued \/ PollCurrent \/ SleepCurrent \/ Finish =>
            /\ UNCHANGED <<bridge.generation, bridge.fenceValue>>
            /\ Requesting
      <4>1. KickHost => <3>4!2
        BY <1>1 DEF KickHost, BridgeType, Requesting
      <4>2. PollEnqueued => <3>4!2
        BY <3>b, <3>c DEF PollEnqueued, Requesting
      <4>3. SleepEnqueued => <3>4!2
        BY <3>b, <3>c DEF SleepEnqueued, Requesting
      <4>4. PollCurrent => <3>4!2
        BY <3>b, <3>c DEF PollCurrent, PollOutput, Requesting
      <4>5. SleepCurrent => <3>4!2
        BY <3>b, <3>c DEF SleepCurrent, SleepOutput, Requesting
      <4>6. Finish => <3>4!2
        BY <1>1 DEF Finish, PassedThrough, Evaluated, BridgeType, Requesting
      <4> QED
        BY <4>1, <4>2, <4>3, <4>4, <4>5, <4>6
    <3>5. TimeOut =>
            /\ UNCHANGED <<bridge.generation, bridge.fenceValue>>
            /\ \/ Requesting
               \/ bridge'.pending = bridge.pending /\ bridge'.pc \in {"idle", "drain", "closing"}
      BY <3>a, <3>b, <3>c DEF TimeOut, Requesting
    <3>6. bridge.pc \notin {"fill", "stamp", "number"}
      BY <2>3 DEF Preparing
    <3> QED
      BY <3>1, <3>3, <3>4, <3>5, <3>6, <3>7, <3>8 DEF Outstanding, Requesting
  <2> QED
    BY <2>1, <2>2, <2>3
<1> QED
  BY <1>2, <1>3, <1>4, <1>5

\* The presenting thread retires a report or leaves it as it is.
LEMMA BridgeReports ==
  ASSUME IInv, IInv', Reported, BridgeNext
  PROVE  Reported'
<1>1. /\ UNCHANGED <<host, tex, fence, hostQ, alive.host>> /\ (alive'.bridge => alive.bridge)
      /\ UNCHANGED <<shared.lastOk, shared.completedSeq>>
      /\ UNCHANGED shared.present \/ Fill
      /\ UNCHANGED shared.frameSeq \/ PublishFrame
      /\ UNCHANGED shared.outputFence \/ StampFences
  BY BridgeEffects
<1>2. \/ PublishFrame
      \/ ~Outstanding'
      \/ /\ Outstanding /\ UNCHANGED <<bridge.generation, bridge.fenceValue>>
         /\ bridge.pc \notin {"fill", "stamp", "number"}
  BY BridgeEffects
<1>3. /\ (Fill => bridge.pc = "fill") /\ (StampFences => bridge.pc = "stamp")
      /\ (PublishFrame => bridge.pc = "number")
  BY DEF Fill, StampFences, PublishFrame
<1>4. NoWork' <=> NoWork
  BY <1>1 DEF NoWork
<1>5. host.pc \in {"enqueued", "enqueuedEvent", "result"} => ~Fill
  <2>1. ASSUME host.pc \in WorkPcs, bridge.pc = "fill" PROVE FALSE
    <3>1. ~Outstanding
      BY <2>1 DEF IInv, Stamps, Outstanding, Requesting, Quitting
    <3> QED
      BY <2>1, <3>1 DEF IInv, Ownership, Settled, Working, WorkPcs, Life, Quitting
  <2> QED
    BY <1>3, <2>1 DEF WorkPcs
<1>6. Reported!1'
  BY <1>1, <1>4, <1>5 DEF Reported, Evaluating
<1>7. CASE PublishFrame
  <2>1. alive'.host => Unseen'
    <3>1. bridge.pc = "number" /\ shared \in SharedType /\ SeqNumbers
      BY <1>3, <1>7, Numeric DEF IInv, Bounded, TypeOK
    <3>2. shared'.frameSeq = shared.frameSeq + 1
      BY <1>7, <3>1 DEF PublishFrame, SharedType
    <3>3. shared.frameSeq \in {host.frameSeen, host.frameSeen + 1} \/ ~alive.host
      BY DEF IInv, Frames
    <3> QED
      BY <1>1, <3>1, <3>2, <3>3 DEF Unseen, SeqNumbers
  <2>2. shared'.completedSeq # shared'.frameSeq
    <3>1. shared \in SharedType /\ SeqNumbers /\ shared.completedSeq <= shared.frameSeq
      BY Numeric DEF IInv, Bounded, TypeOK, Frames
    <3>2. shared'.frameSeq = shared.frameSeq + 1
      BY <1>7, <3>1 DEF PublishFrame, SharedType
    <3> QED
      BY <1>1, <3>1, <3>2 DEF SeqNumbers
  <2> QED
    BY <1>6, <2>1, <2>2 DEF Reported
<1>8. CASE ~Outstanding'
  BY <1>6, <1>8 DEF Reported
<1>9. CASE /\ Outstanding /\ UNCHANGED <<bridge.generation, bridge.fenceValue>>
           /\ bridge.pc \notin {"fill", "stamp", "number"}
  <2>1. UNCHANGED <<shared.present, shared.frameSeq, shared.outputFence>>
    BY <1>1, <1>3, <1>9
  <2>2. (Signalled' <=> Signalled) /\ (Unseen' <=> Unseen) /\ (Evaluating' <=> Evaluating)
    BY <1>1, <1>4, <2>1 DEF Signalled, NoSignal, Unseen, Evaluating
  <2> QED
    BY <1>1, <1>6, <1>9, <2>1, <2>2 DEF Reported
<1> QED
  BY <1>2, <1>7, <1>8, <1>9

\* What the host's steps leave alone.
HostLeaves ==
  /\ UNCHANGED <<bridge, fence, tex, shared.present, shared.frameSeq, shared.outputFence>>
  /\ UNCHANGED alive.bridge /\ (alive'.host => alive.host)

\* Every step of the host leaves all that alone.
LEMMA HostEffects == ASSUME IInv, HostNext PROVE HostLeaves
<1>1. shared \in SharedType /\ alive \in [bridge : BOOLEAN, host : BOOLEAN]
  BY DEF IInv, Bounded, TypeOK
<1>2. UNCHANGED <<bridge, fence, tex>> /\ UNCHANGED alive.bridge /\ (alive'.host => alive.host)
  BY <1>1 DEF HostNext, HostSteps, HostCrash, OpenMapping, OpenBridge, OpenFails, Wait, CheckGeneration, BeginConfigure, RetireQueue,
     RetireFails, Import, ImportFails, Imported, FeatureReady, FeatureFails, ConfigureFailed,
     BeginFrame, Record, SignalFails, PublishEnqueued, AnnounceEnqueued, PublishResult,
     PublishCompleted, AnnounceCompleted, SetDone, StopHost, Exit, Gone, ipcVars, gpuVars
<1>3. UNCHANGED <<shared.present, shared.frameSeq, shared.outputFence>>
  BY HostWrites
<1> QED
  BY <1>2, <1>3 DEF HostLeaves

\* A step that neither records, reports nor completes a frame.
HostElse ==
  /\ UNCHANGED <<hostQ, shared.lastOk, shared.completedSeq, host.lastFrame, host.ok, host.textures,
                 host.frameSeen, host.reset>>
  /\ \/ host'.pc \notin WorkPcs /\ host.pc \notin WorkPcs
     \/ host.pc = "enqueued" /\ host'.pc = "enqueuedEvent"
     \/ host.pc = "enqueuedEvent" /\ host'.pc = "result"

\* Which steps these are.
LEMMA HostElses ==
  ASSUME IInv,
         \/ OpenMapping \/ OpenBridge \/ Wait \/ CheckGeneration \/ BeginConfigure
         \/ RetireQueue \/ RetireFails \/ (\E f \in Fields : Import(f))
         \/ ImportFails \/ FeatureFails \/ ConfigureFailed
         \/ (BeginFrame /\ UNCHANGED hostQ)
         \/ PublishEnqueued \/ AnnounceEnqueued \/ AnnounceCompleted \/ StopHost
  PROVE  HostElse
<1>1. shared \in SharedType /\ host \in HostType /\ hostQ \in Seq(Ops)
  BY DEF IInv, Bounded, TypeOK
<1>2. UNCHANGED hostQ
  BY DEF OpenMapping, OpenBridge, Wait, CheckGeneration, BeginConfigure, RetireQueue, RetireFails, Import, ImportFails,
     FeatureFails, ConfigureFailed, PublishEnqueued, AnnounceEnqueued, AnnounceCompleted, SetDone, StopHost,
     ipcVars, gpuVars
<1>3. UNCHANGED <<shared.lastOk, shared.completedSeq>>
  BY <1>1 DEF OpenMapping, OpenBridge, Wait, CheckGeneration, BeginConfigure, RetireQueue, RetireFails, Import, ImportFails,
     FeatureFails, ConfigureFailed, PublishEnqueued, AnnounceEnqueued, AnnounceCompleted, SetDone, StopHost,
     BeginFrame, CloseFields, ipcVars, gpuVars, SharedType
<1>4. BeginFrame /\ UNCHANGED hostQ => host' = HostGoto("wait")
  <2>1. ASSUME hostQ' = Append(hostQ, Op("wait", shared.inputFence, host.textures)), UNCHANGED hostQ
        PROVE  FALSE
    BY <1>1, <2>1
  <2> QED
    BY <2>1 DEF BeginFrame
<1>5. /\ UNCHANGED <<host.lastFrame, host.ok, host.textures, host.frameSeen, host.reset>>
      /\ \/ host'.pc \notin WorkPcs /\ host.pc \notin WorkPcs
         \/ host.pc = "enqueued" /\ host'.pc = "enqueuedEvent"
         \/ host.pc = "enqueuedEvent" /\ host'.pc = "result"
  <2>1. OpenMapping \/ OpenBridge => <1>5!:
    BY <1>1 DEF OpenMapping, OpenBridge, HostType, WorkPcs
  <2>a. Wait => <1>5!:
    BY <1>1 DEF Wait, HostType, WorkPcs
  <2>b. CheckGeneration => <1>5!:
    BY <1>1 DEF CheckGeneration, HostType, WorkPcs
  <2>c. BeginConfigure => <1>5!:
    BY <1>1 DEF BeginConfigure, HostType, WorkPcs
  <2>2. RetireQueue => <1>5!:
    BY <1>1 DEF RetireQueue, HostType, WorkPcs
  <2>d. RetireFails => <1>5!:
    BY <1>1 DEF RetireFails, HostType, WorkPcs
  <2>e. ASSUME NEW f \in Fields, Import(f) PROVE <1>5!:
    BY <1>1, <2>e DEF Import, HostType, WorkPcs
  <2>3. ImportFails \/ FeatureFails \/ ConfigureFailed => <1>5!:
    BY <1>1 DEF ImportFails, FeatureFails, ConfigureFailed, HostType, WorkPcs
  <2>4. BeginFrame /\ UNCHANGED hostQ => <1>5!:
    BY <1>1, <1>4 DEF BeginFrame, HostType, WorkPcs
  <2>5. PublishEnqueued \/ AnnounceEnqueued \/ AnnounceCompleted \/ StopHost => <1>5!:
    BY <1>1 DEF PublishEnqueued, AnnounceEnqueued, AnnounceCompleted, SetDone, StopHost, HostType, WorkPcs
  <2> QED
    BY <2>1, <2>2, <2>3, <2>4, <2>5, <2>a, <2>b, <2>c, <2>d, <2>e
<1> QED
  BY <1>2, <1>3, <1>5 DEF HostElse

\* They leave every report as it is.
LEMMA ElseReports ==
  ASSUME IInv, Reported, HostLeaves, HostElse
  PROVE  Reported'
<1> USE DEF HostLeaves, HostElse, WorkPcs
<1>1. (Signalled' <=> Signalled) /\ (Unseen' <=> Unseen) /\ (Evaluating' <=> Evaluating)
      /\ (Outstanding' <=> Outstanding)
  BY DEF Signalled, NoSignal, Unseen, Evaluating, NoWork, Outstanding, Requesting
<1> QED
  BY <1>1 DEF Reported

\* A configuration runs when nothing is outstanding.
LEMMA ConfigReports ==
  ASSUME IInv, Reported, HostLeaves, Imported \/ FeatureReady
  PROVE  Reported'
<1>0. host \in HostType
  BY DEF IInv, Bounded, TypeOK
<1>1. /\ host.pc \in {"import", "feature"} /\ host'.pc \in {"feature", "frame"} /\ alive.host
  <2>1. Imported => host.pc = "import" /\ host'.pc = "feature"
    BY <1>0 DEF Imported, HostType
  <2>2. FeatureReady => host.pc = "feature" /\ host'.pc = "frame"
    BY <1>0 DEF FeatureReady, HostType
  <2> QED
    BY <2>1, <2>2 DEF IInv, Life
<1>2. ~Outstanding /\ ~Outstanding'
  BY <1>1 DEF IInv, Configuration, ConfigDue, ConfigPcs, HostLeaves, Outstanding, Requesting
<1> QED
  BY <1>1, <1>2 DEF Reported

\* A frame that has begun is not reported yet.
LEMMA BeginReports ==
  ASSUME IInv, Reported, HostLeaves, UNCHANGED shared,
         host' = [host EXCEPT !.pc = "record", !.frameSeen = shared.frameSeq,
                    !.seq = shared.frameSeq, !.output = shared.outputFence]
  PROVE  Reported'
<1>1. host \in HostType
  BY DEF IInv, Bounded, TypeOK
<1>2. host'.pc = "record" /\ UNCHANGED <<host.lastFrame, shared>>
  BY <1>1 DEF HostType
<1>3. Outstanding' <=> Outstanding
  BY DEF HostLeaves, Outstanding, Requesting
<1> QED
  BY <1>2, <1>3 DEF Reported, HostLeaves, WorkPcs

\* Before the frame is completed its number is behind.
LEMMA Uncompleted ==
  ASSUME IInv, host.pc \in WorkPcs
  PROVE  shared.completedSeq # shared.frameSeq /\ alive.host
<1>1. alive.host /\ shared.completedSeq < shared.frameSeq /\ SeqNumbers
  BY Numeric DEF IInv, Life, Frames, Working, WorkPcs
<1> QED
  BY <1>1 DEF SeqNumbers

\* Unless the evaluation failed, a frame is recorded as evaluated on its own history.
LEMMA RecordReports ==
  ASSUME IInv, Reported, HostLeaves, NEW outcome \in Outcomes, Record(outcome)
  PROVE  Reported'
<1>1. host \in HostType /\ host.pc = "record" /\ UNCHANGED shared /\ hostQ \in Seq(Ops)
  BY DEF IInv, Bounded, TypeOK, Record
<1>2. /\ host'.pc = "enqueued" /\ host'.ok = (outcome # "evaluate")
      /\ host'.lastFrame = IF outcome = "evaluate" THEN host.lastFrame ELSE shared.present
  BY <1>1 DEF Record, HostType
<1>3. shared'.completedSeq # shared'.frameSeq
  BY <1>1, Uncompleted DEF WorkPcs
<1>4. ASSUME CloseWorks, outcome # "evaluate" PROVE Evaluating'
  <2>1. outcome = "ok"
    BY <1>4 DEF Outcomes, CloseWorks
  <2>2. hostQ' = hostQ \o <<Op("evaluate", shared.present, host.textures),
                             Op("signal", host.output, host.textures)>>
    BY <2>1 DEF Record, Submit
  <2>3. \A i \in 1..Len(hostQ) : hostQ[i].kind \notin Work
    BY <1>1 DEF IInv, HostQueue
  <2>4. /\ Len(hostQ') = Len(hostQ) + 2
        /\ \A i \in 1..Len(hostQ) : hostQ'[i] = hostQ[i]
        /\ hostQ'[Len(hostQ) + 1] = Op("evaluate", shared.present, host.textures)
        /\ hostQ'[Len(hostQ) + 2] = Op("signal", host.output, host.textures)
    BY <1>1, <2>2
  <2>5. \A i \in 1..Len(hostQ') : hostQ'[i].kind # "fallback"
    <3> SUFFICES ASSUME NEW i \in 1..Len(hostQ') PROVE hostQ'[i].kind # "fallback"
      OBVIOUS
    <3>1. Len(hostQ) \in Nat
      BY <1>1
    <3>2. i \in 1..Len(hostQ) \/ i = Len(hostQ) + 1 \/ i = Len(hostQ) + 2
      BY <2>4, <3>1
    <3> QED
      BY <2>3, <2>4, <3>2 DEF Op, Work
  <2>6. ~NoWork'
    <3>1. Len(hostQ) + 1 \in 1..Len(hostQ') /\ hostQ'[Len(hostQ) + 1].kind = "evaluate"
      BY <1>1, <2>4 DEF Op
    <3> QED
      BY <3>1 DEF NoWork, Work
  <2> QED
    BY <2>5, <2>6 DEF Evaluating
<1> QED
  BY <1>1, <1>2, <1>3, <1>4 DEF Reported, WorkPcs

\* A frame whose signal was refused is never answered.
LEMMA SignalFailsReports ==
  ASSUME IInv, Reported, HostLeaves, NEW outcome \in Outcomes, SignalFails(outcome)
  PROVE  Reported'
<1>1. host \in HostType /\ shared \in SharedType /\ host.pc = "record" /\ hostQ \in Seq(Ops)
  BY DEF IInv, Bounded, TypeOK, SignalFails
<1>2. host'.pc = "complete" /\ UNCHANGED <<shared.completedSeq, shared.lastOk>>
  BY <1>1 DEF SignalFails, HostType, SharedType
<1>3. shared'.completedSeq # shared'.frameSeq /\ alive.host
  BY <1>1, <1>2, Uncompleted DEF WorkPcs, HostLeaves
<1>4. NoSignal'
  <2> DEFINE op == Op(IF outcome = "ok" THEN "evaluate" ELSE "fallback",
                      shared.present, host.textures)
  <2>1. hostQ' = hostQ \o <<op>> /\ op.kind # "signal"
    BY DEF SignalFails, Submit, Op
  <2> HIDE DEF op
  <2>2. \A i \in 1..Len(hostQ) : hostQ[i].kind # "signal"
    BY <1>1 DEF IInv, HostQueue
  <2>3. /\ Len(hostQ') = Len(hostQ) + 1 /\ Len(hostQ) \in Nat
        /\ \A i \in 1..Len(hostQ) : hostQ'[i] = hostQ[i]
        /\ hostQ'[Len(hostQ) + 1] = op
    BY <1>1, <2>1
  <2> QED
    BY <2>1, <2>2, <2>3 DEF NoSignal
<1>5. ~(fence >= shared.outputFence)
  <2>1. fence <= shared.inputFence /\ shared.inputFence + 1 = shared.outputFence /\ FenceNumbers
    BY <1>1, <1>3, Numeric DEF IInv, Fences, Ahead
  <2> QED
    BY <2>1 DEF FenceNumbers
<1>6. ~Signalled'
  BY <1>4, <1>5 DEF Signalled, HostLeaves
<1> QED
  BY <1>2, <1>3, <1>6 DEF Reported

\* The result that is published is the one that was recorded.
LEMMA ResultReports ==
  ASSUME IInv, Reported, HostLeaves, PublishResult
  PROVE  Reported'
<1>1. host \in HostType /\ shared \in SharedType /\ host.pc = "result" /\ UNCHANGED hostQ
  BY DEF IInv, Bounded, TypeOK, PublishResult, gpuVars
<1>2. /\ host'.pc = "complete" /\ UNCHANGED <<host.lastFrame, host.textures>>
      /\ shared'.lastOk = host.ok /\ UNCHANGED shared.completedSeq
  BY <1>1 DEF PublishResult, HostType, SharedType
<1>3. shared'.completedSeq # shared'.frameSeq
  BY <1>1, <1>2, Uncompleted DEF WorkPcs, HostLeaves
<1>4. Evaluating' <=> Evaluating
  BY <1>1, <1>2 DEF Evaluating, NoWork, HostLeaves
<1> QED
  BY <1>1, <1>2, <1>3, <1>4 DEF Reported, HostLeaves

\* When the number is published and the fence reached, the work has run.
LEMMA CompletedReports ==
  ASSUME IInv, Reported, HostLeaves, PublishCompleted
  PROVE  Reported'
<1>1. host \in HostType /\ shared \in SharedType /\ host.pc = "complete" /\ UNCHANGED hostQ
      /\ alive.host
  BY DEF IInv, Bounded, TypeOK, Life, PublishCompleted, gpuVars
<1>2. /\ host'.pc = "completeEvent" /\ UNCHANGED <<host.lastFrame, host.textures, host.frameSeen>>
      /\ UNCHANGED shared.lastOk
  BY <1>1 DEF PublishCompleted, HostType, SharedType
<1>3. (Signalled' <=> Signalled) /\ (Unseen' <=> Unseen) /\ (Evaluating' <=> Evaluating)
      /\ (Outstanding' <=> Outstanding)
  BY <1>1, <1>2 DEF Signalled, NoSignal, Unseen, Evaluating, NoWork, Outstanding, Requesting, HostLeaves
<1>4. ~Unseen
  BY <1>1 DEF IInv, Frames, Working
<1>5. ASSUME Outstanding, fence >= bridge.fenceValue, shared.lastOk
      PROVE  /\ host.lastFrame = shared.present
             /\ CloseWorks => tex[bridge.generation].output.neural
  <2>1. shared.outputFence = bridge.fenceValue /\ shared.inputFence + 1 = shared.outputFence
        /\ FenceNumbers
    BY <1>5, Numeric DEF IInv, Stamps
  <2>2. hostQ = <<>>
    <3>1. hostQ # <<>> => fence <= shared.inputFence
      BY <1>1 DEF IInv, Fences, Ahead
    <3> QED
      BY <1>5, <2>1, <3>1 DEF FenceNumbers
  <2>3. NoWork /\ Signalled
    BY <1>5, <2>1, <2>2 DEF NoWork, Signalled
  <2>4. host.textures = bridge.generation
    BY <1>1, <1>5 DEF IInv, TextureSets, Handed
  <2> QED
    BY <1>1, <1>4, <1>5, <2>3, <2>4 DEF Reported, WorkPcs, Evaluating
<1> QED
  BY <1>1, <1>2, <1>3, <1>5 DEF Reported, HostLeaves, WorkPcs

\* Every step of the host keeps the reports true.
LEMMA HostReports ==
  ASSUME IInv, Reported, HostNext
  PROVE  Reported'
<1>1. HostLeaves
  BY HostEffects
<1>2. CASE \/ OpenMapping \/ OpenBridge \/ Wait \/ CheckGeneration \/ BeginConfigure
           \/ RetireQueue \/ RetireFails \/ (\E f \in Fields : Import(f))
           \/ ImportFails \/ FeatureFails \/ ConfigureFailed
           \/ (BeginFrame /\ UNCHANGED hostQ)
           \/ PublishEnqueued \/ AnnounceEnqueued \/ AnnounceCompleted \/ StopHost
  BY <1>1, <1>2, HostElses, ElseReports
<1>3. ASSUME NEW outcome \in Outcomes, Record(outcome) PROVE Reported'
  BY <1>1, <1>3, RecordReports
<1>4. ASSUME NEW outcome \in Outcomes, SignalFails(outcome) PROVE Reported'
  BY <1>1, <1>4, SignalFailsReports
<1>5. CASE OpenFails \/ Exit \/ HostCrash
  <2>1. ~alive'.host /\ UNCHANGED <<shared, host.lastFrame>> /\ host'.pc = "exited"
    BY <1>5 DEF OpenFails, Exit, HostCrash, Gone, IInv, Bounded, TypeOK, HostType
  <2>2. Outstanding' <=> Outstanding
    BY <1>1 DEF HostLeaves, Outstanding, Requesting
  <2> QED
    BY <1>1, <2>1, <2>2 DEF Reported, HostLeaves
<1>6. CASE BeginFrame
  BY <1>1, <1>2, <1>6, BeginReports DEF BeginFrame
<1> QED
  BY <1>1, <1>2, <1>3, <1>4, <1>5, <1>6, ConfigReports, ResultReports, CompletedReports
     DEF HostNext, HostSteps

\* Every operation of the GPU queues keeps the reports true.
LEMMA GpuReports ==
  ASSUME IInv, IInv', Reported, GpuNext
  PROVE  Reported'
<1>1. UNCHANGED <<shared, bridge, host, alive>>
  BY DEF GpuNext, BridgeGpu, HostGpu
<1>2. (Outstanding' <=> Outstanding) /\ (Unseen' <=> Unseen)
  BY <1>1 DEF Outstanding, Requesting, Unseen
<1>3. FenceNumbers /\ fence' \in Nat
  BY Numeric, BoundsAssumption DEF IInv, Bounded, TypeOK, FenceValues
<1>4. bridge.generation \in Ordinals /\ host.textures \in Ordinals
      /\ tex \in [Ordinals -> [input : Ordinals, output : Images]]
  BY DEF IInv, Bounded, TypeOK, BridgeType, HostType
<1>5. CASE BridgeGpu
  <2>1. UNCHANGED hostQ
    BY <1>5 DEF BridgeGpu
  <2>2. \A g \in Ordinals : tex'[g].output = tex[g].output
    <3>1. CASE UNCHANGED tex
      BY <3>1
    <3>2. CASE tex' = [tex EXCEPT ![Head(bridgeQ).gen].input = Head(bridgeQ).n]
      BY <1>4, <3>2
    <3> QED
      BY <1>5, <3>1, <3>2 DEF BridgeGpu
  <2>3. fence' = fence \/ (fence' < bridge.fenceValue /\ bridgeQ # <<>> /\ bridgeQ[1].kind = "signal"
                          /\ fence' = bridgeQ[1].n)
    <3>1. CASE UNCHANGED fence
      BY <3>1
    <3>2. CASE Head(bridgeQ).kind = "signal" /\ fence' = Head(bridgeQ).n
      <4>1. bridgeQ # <<>> /\ Head(bridgeQ) = bridgeQ[1] /\ 1 \in 1..Len(bridgeQ)
        BY <1>5 DEF BridgeGpu, Runnable, IInv, Bounded, TypeOK
      <4> QED
        BY <3>2, <4>1 DEF IInv, BridgeQueue, BridgeOp
    <3> QED
      BY <1>5, <3>1, <3>2 DEF BridgeGpu, SignalFence
  <2>4. Outstanding /\ fence' >= bridge.fenceValue => fence >= bridge.fenceValue
    BY <1>3, <2>3 DEF FenceNumbers
  <2>5. Outstanding => shared.outputFence = bridge.fenceValue
    BY DEF IInv, Stamps
  <2>6. Outstanding /\ Signalled' => Signalled
    BY <1>1, <2>1, <2>4, <2>5 DEF Signalled, NoSignal
  <2>7. Evaluating' <=> Evaluating
    BY <1>1, <1>4, <2>1, <2>2 DEF Evaluating, NoWork
  <2> QED
    BY <1>1, <1>2, <1>4, <2>2, <2>4, <2>6, <2>7 DEF Reported
<1>6. CASE HostGpu
  <2>1. /\ hostQ # <<>> /\ hostQ' = Tail(hostQ) /\ hostQ \in Seq(Ops)
    BY <1>6 DEF HostGpu, Runnable, IInv, Bounded, TypeOK
  <2>2. /\ Head(hostQ) = hostQ[1] /\ 1 \in 1..Len(hostQ) /\ Len(hostQ) \in Nat \ {0}
        /\ Len(hostQ') = Len(hostQ) - 1
        /\ \A i \in 1..Len(hostQ') : hostQ'[i] = hostQ[i + 1] /\ i + 1 \in 1..Len(hostQ)
    BY <2>1, Tails
  <2>3. alive.host /\ hostQ[1].kind \in {"wait", "signal"} \cup Work
    BY <2>1, <2>2 DEF IInv, Life, HostQueue
  <2>4. (\A i \in 1..Len(hostQ) : hostQ[i].kind # "fallback")
          => \A i \in 1..Len(hostQ') : hostQ'[i].kind # "fallback"
    BY <2>2
  <2>5. CASE hostQ[1].kind \notin Work
    <3>1. UNCHANGED tex
      BY <1>6, <2>2, <2>5 DEF HostGpu, Work
    <3>2. NoWork' => NoWork
      <4> SUFFICES ASSUME NoWork', NEW i \in 1..Len(hostQ) PROVE hostQ[i].kind \notin Work
        BY DEF NoWork
      <4>1. CASE i = 1
        BY <2>5, <4>1
      <4>2. CASE i # 1
        <5>1. PICK k \in 1..Len(hostQ') : hostQ'[k] = hostQ[i]
          <6>1. i - 1 \in 1..Len(hostQ') /\ (i - 1) + 1 = i
            BY <2>2, <4>2
          <6> QED
            BY <2>2, <6>1
        <5> QED
          BY <5>1 DEF NoWork
      <4> QED
        BY <4>1, <4>2
    <3>3. Evaluating => Evaluating'
      BY <1>1, <2>4, <3>1, <3>2 DEF Evaluating
    <3>4. CASE hostQ[1].kind = "wait"
      <4>1. UNCHANGED fence
        BY <1>6, <2>2, <3>4 DEF HostGpu
      <4>2. NoSignal => NoSignal'
        BY <2>2 DEF NoSignal
      <4>3. Signalled' => Signalled
        BY <1>1, <4>1, <4>2 DEF Signalled
      <4> QED
        BY <1>1, <1>2, <3>1, <3>3, <4>1, <4>3 DEF Reported
    <3>5. CASE hostQ[1].kind = "signal"
      <4>1. fence' = shared.outputFence /\ Len(hostQ) = 1
        BY <1>6, <2>2, <3>5 DEF HostGpu, SignalFence, IInv, HostQueue
      <4>2. Signalled
        BY <2>2, <3>5 DEF Signalled, NoSignal
      <4>3. NoWork /\ ~Unseen
        BY <2>1, <2>2, <2>5, <4>1 DEF NoWork, IInv, Frames
      <4>4. Outstanding => host.textures = bridge.generation
        BY <2>3 DEF IInv, TextureSets, Handed
      <4>5. shared.completedSeq = shared.frameSeq => host.pc \notin WorkPcs
        BY Uncompleted
      <4>6. Reported!1' /\ Reported!2'
        BY <1>1, <1>2, <3>3, <4>2 DEF Reported
      <4>7. Reported!3'
        BY <1>1, <1>2, <2>3, <3>1, <4>2, <4>3, <4>4, <4>5 DEF Reported, Evaluating
      <4> QED
        BY <4>6, <4>7 DEF Reported
    <3> QED
      BY <2>3, <2>5, <3>4, <3>5
  <2>6. CASE hostQ[1].kind \in Work
    <3>1. /\ UNCHANGED fence /\ hostQ[1].gen = host.textures
          /\ tex' = [tex EXCEPT ![host.textures].output =
                      [frame |-> tex[host.textures].input, neural |-> hostQ[1].kind = "evaluate"]]
      BY <1>6, <2>2, <2>6 DEF HostGpu, Work, IInv, HostQueue
    <3>2. tex'[host.textures].output.neural = (hostQ[1].kind = "evaluate")
      BY <1>4, <3>1
    <3>3. Evaluating => Evaluating'
      BY <1>1, <2>2, <2>4, <2>6, <3>2 DEF Evaluating, Work
    <3>4. Signalled' => Signalled
      <4>1. NoSignal => NoSignal'
        BY <2>2 DEF NoSignal
      <4> QED
        BY <1>1, <3>1, <4>1 DEF Signalled
    <3>5. Outstanding => ~(fence >= bridge.fenceValue)
      <4>1. fence <= shared.inputFence /\ shared.inputFence + 1 = shared.outputFence
        BY <2>1, <2>3 DEF IInv, Fences, Ahead
      <4>2. Outstanding => shared.outputFence = bridge.fenceValue
        BY DEF IInv, Stamps
      <4> QED
        BY <1>3, <4>1, <4>2 DEF FenceNumbers
    <3> QED
      BY <1>1, <1>2, <3>1, <3>3, <3>4, <3>5 DEF Reported
  <2> QED
    BY <2>5, <2>6
<1> QED
  BY <1>5, <1>6 DEF GpuNext

\* Reports are true in every session whose waits do not fail.
LEMMA Reports == WaitsWork /\ Spec => []Reported
<1>1. Init => Reported
  <2> SUFFICES ASSUME Init PROVE Reported
    OBVIOUS
  <2>1. ~Outstanding /\ host.pc = "start"
    BY DEF Init, IpcInit, BridgeInit, HostInit, Outstanding, Requesting
  <2> QED
    BY <2>1 DEF Reported
<1>2. IInv /\ IInv' /\ Reported /\ [Next]_vars => Reported'
  <2> SUFFICES ASSUME IInv, IInv', Reported, [Next]_vars PROVE Reported'
    OBVIOUS
  <2>1. CASE UNCHANGED vars
    <3>1. HostLeaves /\ UNCHANGED <<shared, host, hostQ, alive>>
      BY <2>1 DEF HostLeaves, vars, ipcVars
    <3>2. (Signalled' <=> Signalled) /\ (Unseen' <=> Unseen) /\ (Evaluating' <=> Evaluating)
          /\ (Outstanding' <=> Outstanding)
      BY <3>1 DEF HostLeaves, Signalled, NoSignal, Unseen, Evaluating, NoWork, Outstanding, Requesting
    <3> QED
      BY <3>1, <3>2 DEF Reported, HostLeaves
  <2> QED
    BY <2>1, BridgeReports, HostReports, GpuReports DEF Next, Ended
<1> QED
  BY <1>1, <1>2, Exact, PTL DEF Spec

\* A frame reported as neural was evaluated by Feature 18, when a list whose
\* evaluation was recorded can be closed.
THEOREM NeuralIsEvaluated == WaitsWork /\ CloseWorks /\ Spec => []NeuralMeansEvaluated
<1>1. IInv /\ CloseWorks /\ Reported => NeuralMeansEvaluated
  <2> SUFFICES ASSUME IInv, CloseWorks, Reported, bridge.pc = "finish", shared.lastOk
               PROVE  tex[bridge.generation].output.neural
    BY DEF NeuralMeansEvaluated
  <2>1. Outstanding /\ alive.bridge
    BY DEF Outstanding, Requesting, IInv, Life
  <2>2. shared.completedSeq = shared.frameSeq /\ fence >= bridge.fenceValue
    BY DEF IInv, Product, OutputReady
  <2> QED
    BY <2>1, <2>2 DEF Reported
<1>2. CloseWorks => CloseWorks'
  BY DEF CloseWorks
<1> QED
  BY <1>1, <1>2, Exact, Reports, PTL DEF Spec

-----------------------------------------------------------------------------
(***************************************************************************)
(* The temporal history is unbroken, when a gap asks for a reset.          *)
(***************************************************************************)

\* The host resets by itself, or the last frame evaluated is that of the last
\* present, of the present before this call, of the one before the parameters.
FollowsLast == host.reset \/ host.lastFrame = bridge.present
FollowsCall == host.reset \/ host.lastFrame + 1 = bridge.present
FollowsFrame == host.reset \/ host.lastFrame + 1 = shared.present

\* At every point of a call, either a reset is on its way or the frame of the call
\* follows the last one evaluated.
Hist ==
  /\ ResetOnTemporalGap
  /\ bridge.pc = "connect" => bridge.pipelineReset
  /\ bridge.pc = "idle" =>
       bridge.pipelineReset \/ (bridge.pending = 0 /\ FollowsLast)
  /\ bridge.pc \in Draining \cup {"fill"} =>
       bridge.call.reset \/ (bridge.pending = 0 /\ FollowsCall)
  /\ bridge.pc \in Preparing => shared.frameReset \/ FollowsFrame
  /\ alive.host /\ (Unseen \/ host.pc = "record") =>
       shared.frameReset \/ FollowsFrame

\* The kinds of step of the presenting thread, as far as the history is concerned.
HistoryStep ==
  \/ bridge'.pc = "idle" /\ bridge'.pipelineReset
  \/ /\ bridge.pc = "idle" /\ bridge'.pc = "pending"
     /\ bridge'.call.reset = TRUE \/ (~bridge.pipelineReset /\ bridge'.pending = bridge.pending
                                      /\ bridge'.present = bridge.present + 1)
  \/ /\ bridge.pc \in Draining /\ bridge'.pc \in Draining \cup {"fill"}
     /\ bridge'.call = bridge.call /\ bridge'.present = bridge.present
     /\ bridge'.pending \in {0, bridge.pending}
  \/ Fill
  \/ bridge.pc \in Preparing /\ bridge'.pc \in Preparing
  \/ PublishFrame
  \/ /\ bridge.pc = "finish" /\ shared.lastOk /\ bridge'.pc = "idle"
     /\ bridge'.pending = bridge.pending /\ bridge'.present = bridge.present
  \/ bridge'.pc \notin {"connect", "idle", "fill"} \cup Draining \cup Preparing

\* Every step of the presenting thread is of one of these kinds.
LEMMA HistorySteps ==
  ASSUME IInv, Hist, BridgeNext
  PROVE  HistoryStep \/ UNCHANGED bridge
<1> USE DEF Draining, Preparing
<1>1. bridge \in BridgeType /\ ResetOnTemporalGap
  BY DEF IInv, Bounded, TypeOK, Hist
<1>2. ASSUME NEW b \in BridgeType PROVE PassedThrough(b).pc = "idle" /\ PassedThrough(b).pipelineReset
  BY <1>1, <1>2 DEF PassedThrough, BridgeType
<1>a. ASSUME bridge' = PassedThrough(bridge) \/ bridge' = LeftPending(bridge)
                \/ bridge' = Abandoned(bridge)
      PROVE  HistoryStep
  <2>1. bridge' = PassedThrough(bridge) => bridge'.pc = "idle" /\ bridge'.pipelineReset
    BY <1>1, <1>2
  <2>2. bridge' = LeftPending(bridge) => bridge'.pc = "idle" /\ bridge'.pipelineReset
    BY <1>1 DEF LeftPending, PassedThrough, BridgeType
  <2>3. bridge' = Abandoned(bridge) => bridge'.pc = "idle" /\ bridge'.pipelineReset
    BY <1>1 DEF Abandoned, PassedThrough, BridgeType
  <2> QED
    BY <1>a, <2>1, <2>2, <2>3 DEF HistoryStep
<1>b. ASSUME NEW pc, bridge' = [bridge EXCEPT !.pc = pc]
      PROVE  /\ UNCHANGED <<bridge.pending, bridge.present, bridge.call>>
             /\ bridge'.pc = pc
  BY <1>1, <1>b DEF BridgeType
<1>c. ASSUME bridge' = Retired(bridge)
      PROVE  /\ bridge'.call = bridge.call /\ bridge'.present = bridge.present
             /\ bridge'.pending = 0 /\ bridge'.pc = "fill"
  BY <1>1, <1>c DEF BridgeType, Retired
<1>3. Presents => HistoryStep
  <2> SUFFICES ASSUME Presents PROVE HistoryStep
    OBVIOUS
  <2>1. PICK size \in Sizes, preset \in Presets, synchronized \in BOOLEAN, cut \in BOOLEAN :
          Present(size, preset, synchronized, cut)
    BY DEF Presents
  <2>2. CASE Refused
    <3>1. bridge' = PassedThrough([bridge EXCEPT !.pc = "pending", !.present = @ + 1])
      BY <2>1, <2>2 DEF Present
    <3>2. bridge'.pc = "idle" /\ bridge'.pipelineReset
      BY <1>1, <3>1 DEF PassedThrough, BridgeType
    <3> QED
      BY <3>2 DEF HistoryStep
  <2>3. CASE ~Refused
    <3>1. bridge' = [[bridge EXCEPT !.pc = "pending", !.present = @ + 1] EXCEPT
                       !.lastPreset = preset,
                       !.call = [size |-> size, synchronized |-> synchronized,
                                 reset |-> bridge.pipelineReset \/ cut],
                       !.dirty = @ \/ bridge.lastPreset # preset,
                       !.forceReset = @ \/ bridge.lastPreset # preset]
      BY <2>1, <2>3 DEF Present
    <3>2. /\ bridge.pc = "idle" /\ bridge'.pc = "pending" /\ bridge'.pending = bridge.pending
          /\ bridge'.present = bridge.present + 1
          /\ bridge'.call.reset = (bridge.pipelineReset \/ cut)
      BY <1>1, <2>1, <3>1 DEF Present, BridgeType
    <3> QED
      BY <1>1, <3>2 DEF HistoryStep, BridgeType
  <2> QED
    BY <2>2, <2>3
<1>4. Connect \/ Close \/ Shutdown \/ BridgeCrash => HistoryStep
  BY <1>1 DEF Connect, Close, Shutdown, BridgeCrash, BridgeType, HistoryStep, Hist
<1>5. CheckPending \/ PollDrain \/ SleepDrain => HistoryStep
  <2>1. CheckPending => <1>5!2
    BY <1>a, <1>b, <1>c DEF CheckPending, HistoryStep
  <2>2. PollDrain => <1>5!2
    <3>1. bridge.pc = "drain" /\ bridge' = bridge => HistoryStep
      BY DEF HistoryStep
    <3> QED
      BY <1>a, <1>b, <1>c, <3>1 DEF PollDrain, PollOutput, HistoryStep
  <2>3. SleepDrain => <1>5!2
    BY <1>a, <1>b DEF SleepDrain, SleepOutput, HistoryStep
  <2> QED
    BY <2>1, <2>2, <2>3
<1>6. Fill \/ PublishFrame => HistoryStep
  BY DEF HistoryStep
<1>7. CASE /\ bridge.pc \in Preparing /\ ~PublishFrame /\ ~BridgeCrash
  <2>1. bridge'.pc \in Preparing \cup {"idle"}
    BY <1>7, PreparesStep
  <2>2. bridge'.pc = "idle" => bridge'.pipelineReset
    <3>1. bridge' # bridge /\ bridge'.pc = "idle" =>
            \/ \E b \in {bridge, [bridge EXCEPT !.untransferred = {}]} : bridge' = PassedThrough(b)
            \/ bridge' = PassedThrough([bridge EXCEPT !.fenceValue = @ + 2])
      <4> SUFFICES ASSUME bridge'.pc = "idle" PROVE <3>1!:
        OBVIOUS
      <4>1. ~Ensure
        <5>1. Ensure => bridge'.pc # "idle"
          <6> SUFFICES ASSUME Ensure PROVE bridge'.pc # "idle"
            OBVIOUS
          <6>1. CASE bridge.resourcesReady /\ bridge.width = bridge.call.size
            <7>1. bridge' = Goto("publish") \/ bridge' = Goto("state")
              BY <6>1 DEF Ensure
            <7> QED
              BY <1>1, <7>1 DEF BridgeType
          <6>2. CASE ~(bridge.resourcesReady /\ bridge.width = bridge.call.size)
            <7>1. bridge' = [bridge EXCEPT !.pc = "transfer",
                             !.resourcesReady = FALSE, !.forceReset = TRUE,
                             !.width = bridge.call.size, !.generation = @ + 1,
                             !.untransferred = Textures]
              BY <6>2 DEF Ensure
            <7> QED
              BY <1>1, <7>1 DEF BridgeType
          <6> QED
            BY <6>1, <6>2
        <5> QED
          BY <5>1
      <4>2. ~ \E t \in Textures : Transfer(t)
        BY <1>1 DEF Transfer, BridgeType
      <4>3. ~(PublishConfiguring \/ BumpGenerations \/ WakeHost \/ StampFences)
        BY <1>1 DEF PublishConfiguring, BumpGenerations, WakeHost, StampFences, BridgeType
      <4>4. TransferFails => <3>1!:
        BY DEF TransferFails
      <4>5. AwaitReady => <3>1!:
        BY <1>1 DEF AwaitReady, BridgeType
      <4>6. SubmitInputs => <3>1!:
        BY <1>1 DEF SubmitInputs, BridgeType
      <4>7. TimeOut => <3>1!:
        BY <1>7 DEF TimeOut
      <4>8. \/ TransferFails \/ AwaitReady \/ SubmitInputs \/ TimeOut
            \/ Ensure \/ (\E t \in Textures : Transfer(t))
            \/ PublishConfiguring \/ BumpGenerations \/ WakeHost \/ StampFences
        BY <1>7 DEF BridgeNext, Presents, BridgeSteps, Present, Connect, CheckPending, Fill,
           PollDrain, SleepDrain, PollOutput, SleepOutput, KickHost,
           PollEnqueued, SleepEnqueued, PollCurrent, SleepCurrent, Finish, Close, Shutdown
      <4> QED
        BY <4>1, <4>2, <4>3, <4>4, <4>5, <4>6, <4>7, <4>8
    <3>2. bridge.pc # "idle"
      BY <1>7
    <3> QED
      BY <1>1, <3>1, <3>2 DEF PassedThrough, BridgeType
  <2> QED
    BY <1>7, <2>1, <2>2 DEF HistoryStep
<1>8. KickHost \/ PollEnqueued \/ SleepEnqueued \/ PollCurrent \/ SleepCurrent \/ Finish => HistoryStep
  <2>1. KickHost \/ PollEnqueued \/ SleepEnqueued => HistoryStep
    <3>1. KickHost => <2>1!2
      BY <1>1 DEF KickHost, BridgeType, HistoryStep
    <3>2. PollEnqueued => <2>1!2
      BY <1>a, <1>b DEF PollEnqueued, HistoryStep
    <3>3. SleepEnqueued => <2>1!2
      BY <1>a, <1>b DEF SleepEnqueued, HistoryStep
    <3> QED
      BY <3>1, <3>2, <3>3
  <2>2. PollCurrent \/ SleepCurrent => HistoryStep
    <3>1. PollCurrent => <2>2!2
      BY <1>a, <1>b DEF PollCurrent, PollOutput, HistoryStep
    <3>2. SleepCurrent => <2>2!2
      BY <1>a, <1>b DEF SleepCurrent, SleepOutput, HistoryStep
    <3> QED
      BY <3>1, <3>2
  <2>3. Finish => HistoryStep
    <3>1. CASE shared.lastOk /\ Finish
      <4>1. bridge.pc = "finish" /\ bridge' = Evaluated(bridge)
        BY <3>1 DEF Finish
      <4> QED
        BY <1>1, <3>1, <4>1 DEF Evaluated, BridgeType, HistoryStep
    <3>2. CASE ~shared.lastOk /\ Finish
      <4>1. bridge' = PassedThrough(bridge)
        BY <3>2 DEF Finish
      <4> QED
        BY <1>2, <4>1, <1>1 DEF HistoryStep
    <3> QED
      BY <3>1, <3>2
  <2> QED
    BY <2>1, <2>2, <2>3
<1>9. TimeOut /\ bridge.pc \notin Preparing => HistoryStep
  <2>1. CASE bridge.pc = "drainSleep" /\ bridge' = [bridge EXCEPT !.pc = "drain"]
    BY <1>b, <2>1 DEF HistoryStep
  <2>2. CASE \E pc \in {"output", "closing"} : bridge' = [bridge EXCEPT !.pc = pc]
    BY <1>b, <2>2 DEF HistoryStep
  <2>3. TimeOut =>
          \/ bridge' = PassedThrough(bridge) \/ bridge' = LeftPending(bridge)
          \/ bridge.pc = "drainSleep" /\ bridge' = [bridge EXCEPT !.pc = "drain"]
          \/ \E pc \in {"output", "closing"} : bridge' = [bridge EXCEPT !.pc = pc]
    BY DEF TimeOut
  <2> QED
    BY <1>a, <2>1, <2>2, <2>3
<1>10. bridge.pc \notin Preparing =>
         \/ Presents \/ Connect \/ Close \/ Shutdown \/ BridgeCrash \/ CheckPending \/ PollDrain
         \/ SleepDrain \/ Fill \/ KickHost \/ PollEnqueued \/ SleepEnqueued \/ PollCurrent
         \/ SleepCurrent \/ Finish \/ TimeOut
  BY DEF BridgeNext, BridgeSteps, Ensure, Transfer, TransferFails, PublishConfiguring,
     BumpGenerations, WakeHost, AwaitReady, SubmitInputs, StampFences, PublishFrame
<1> QED
  BY <1>3, <1>4, <1>5, <1>6, <1>7, <1>8, <1>9, <1>10

\* The presenting thread asks for a reset wherever a frame does not follow.
LEMMA BridgeContinues ==
  ASSUME IInv, IInv', Reported, Hist, BridgeNext
  PROVE  Hist'
<1>1. /\ UNCHANGED <<host, alive.host>>
      /\ UNCHANGED shared.frameSeq \/ PublishFrame
      /\ UNCHANGED shared.present \/ Fill
  BY BridgeEffects
<1>3. UNCHANGED shared.frameReset \/ Fill
  BY BridgeWrites
<1>4. bridge \in BridgeType /\ shared \in SharedType /\ bridge.present \in Nat
  BY DEF IInv, Bounded, TypeOK, BridgeType, Ordinals
<1>5. (Fill => bridge.pc = "fill") /\ (PublishFrame => bridge.pc = "number")
  BY DEF Fill, PublishFrame
<1>6. ASSUME ~Fill, ~PublishFrame
      PROVE  /\ UNCHANGED <<shared.present, shared.frameReset>> /\ (Unseen' <=> Unseen)
             /\ Hist!6'
  BY <1>1, <1>3, <1>6 DEF Unseen, Hist, FollowsFrame
<1>7. CASE Fill
  <2>1. /\ shared'.present = bridge.present /\ bridge'.pc = "ensure"
        /\ shared'.frameReset = (bridge.call.reset \/ bridge.forceReset)
        /\ UNCHANGED shared.frameSeq
    BY <1>4, <1>7 DEF Fill, SharedType, BridgeType
  <2>2. bridge.call.reset \/ FollowsCall
    BY <1>5, <1>7 DEF Hist
  <2>3. shared'.frameReset \/ FollowsFrame'
    <3>1. FollowsCall => host'.reset \/ host'.lastFrame + 1 = bridge.present
      BY <1>1 DEF FollowsLast, FollowsCall, FollowsFrame
    <3>2. shared'.frameReset \/ host'.reset \/ host'.lastFrame + 1 = shared'.present
      BY <2>1, <2>2, <3>1
    <3> QED
      BY <3>2 DEF FollowsLast, FollowsCall, FollowsFrame
  <2>4. alive.host => ~Unseen /\ host.pc # "record"
    <3>1. ~Outstanding /\ ~Quitting
      BY <1>5, <1>7 DEF IInv, Stamps, Outstanding, Requesting, Quitting
    <3> QED
      BY <1>5, <1>7, <3>1 DEF IInv, Ownership, Settled, Working, WorkPcs
  <2>5. ~(alive'.host /\ (Unseen' \/ host'.pc = "record"))
    BY <1>1, <2>1, <2>4 DEF Unseen
  <2> QED
    BY <2>1, <2>3, <2>5 DEF Hist, Draining, FollowsLast, FollowsCall, FollowsFrame
<1>8. CASE PublishFrame
  <2>1. bridge'.pc = "kick" /\ UNCHANGED <<shared.present, shared.frameReset>>
    BY <1>1, <1>3, <1>4, <1>5, <1>8 DEF PublishFrame, BridgeType, SharedType
  <2>2. shared.frameReset \/ FollowsFrame
    BY <1>5, <1>8 DEF Hist, Preparing
  <2> QED
    BY <1>1, <2>1, <2>2 DEF Hist, Draining, Preparing, FollowsLast, FollowsCall, FollowsFrame
<1>9. CASE ~Fill /\ ~PublishFrame
  <2>1. Hist!1' /\ Hist!6'
    BY <1>6, <1>9 DEF Hist
  <2>2. CASE UNCHANGED bridge
    BY <1>1, <1>6, <1>9, <2>1, <2>2 DEF Hist, FollowsLast, FollowsCall, FollowsFrame
  <2>3. CASE bridge'.pc = "idle" /\ bridge'.pipelineReset
    BY <2>1, <2>3 DEF Hist, Draining, Preparing
  <2>4. CASE /\ bridge.pc = "idle" /\ bridge'.pc = "pending"
             /\ bridge'.call.reset = TRUE \/ (~bridge.pipelineReset /\ bridge'.pending = bridge.pending
                                              /\ bridge'.present = bridge.present + 1)
    BY <1>1, <2>1, <2>4 DEF Hist, Draining, Preparing, FollowsLast, FollowsCall, FollowsFrame
  <2>5. CASE /\ bridge.pc \in Draining /\ bridge'.pc \in Draining \cup {"fill"}
             /\ bridge'.call = bridge.call /\ bridge'.present = bridge.present
             /\ bridge'.pending \in {0, bridge.pending}
    BY <1>1, <2>1, <2>5 DEF Hist, Draining, Preparing, FollowsLast, FollowsCall, FollowsFrame
  <2>6. CASE bridge.pc \in Preparing /\ bridge'.pc \in Preparing
    BY <1>1, <1>6, <1>9, <2>1, <2>6 DEF Hist, Draining, Preparing, FollowsLast, FollowsCall, FollowsFrame
  <2>7. CASE /\ bridge.pc = "finish" /\ shared.lastOk /\ bridge'.pc = "idle"
             /\ bridge'.pending = bridge.pending /\ bridge'.present = bridge.present
    <3>1. Outstanding /\ alive.bridge /\ bridge.pending = 0
      BY <2>7 DEF Outstanding, Requesting, IInv, Life, Stamps, Quitting
    <3>2. shared.completedSeq = shared.frameSeq /\ fence >= bridge.fenceValue
          /\ shared.present = bridge.present
      BY <2>7 DEF IInv, Product, OutputReady, Requesting
    <3>3. host.lastFrame = bridge.present
      BY <2>7, <3>1, <3>2 DEF Reported
    <3> QED
      BY <1>1, <2>1, <2>7, <3>1, <3>3 DEF Hist, Draining, Preparing, FollowsLast, FollowsCall, FollowsFrame
  <2>8. CASE bridge'.pc \notin {"connect", "idle", "fill"} \cup Draining \cup Preparing
    BY <2>1, <2>8 DEF Hist
  <2> QED
    BY <1>9, <2>2, <2>3, <2>4, <2>5, <2>6, <2>7, <2>8, HistorySteps DEF HistoryStep
<1> QED
  BY <1>7, <1>8, <1>9

\* The host continues its history from no other frame, or resets it.
LEMMA HostContinues ==
  ASSUME IInv, Hist, HostNext
  PROVE  Hist'
<1>1. HostLeaves
  BY HostEffects
<1>2. host \in HostType /\ shared \in SharedType
  BY DEF IInv, Bounded, TypeOK
<1>3. UNCHANGED shared.frameReset
  BY HostWrites
<1>4. ASSUME UNCHANGED <<host.reset, host.lastFrame>>,
             alive'.host /\ (Unseen' \/ host'.pc = "record")
               => alive.host /\ (Unseen \/ host.pc = "record")
      PROVE  Hist'
  BY <1>1, <1>3, <1>4 DEF Hist, HostLeaves, FollowsLast, FollowsCall, FollowsFrame
<1>5. CASE HostElse
  <2>1. (Unseen' <=> Unseen) /\ (host'.pc = "record" => host.pc = "record")
    BY <1>1, <1>5 DEF HostElse, HostLeaves, Unseen, WorkPcs
  <2> QED
    BY <1>1, <1>4, <1>5, <2>1 DEF HostElse, HostLeaves
<1>6. CASE PublishResult \/ PublishCompleted \/ Imported \/ OpenFails \/ Exit \/ HostCrash
  <2>1. /\ UNCHANGED <<host.reset, host.lastFrame, host.frameSeen>> /\ host'.pc # "record"
    BY <1>2, <1>6 DEF PublishResult, PublishCompleted, Imported, OpenFails, Exit, HostCrash, Gone, HostType
  <2>2. Unseen' <=> Unseen
    BY <1>1, <2>1 DEF Unseen, HostLeaves
  <2> QED
    BY <1>1, <1>4, <2>1, <2>2 DEF HostLeaves
<1>7. CASE BeginFrame /\ ~UNCHANGED hostQ
  <2>1. host' = [host EXCEPT !.pc = "record", !.frameSeen = shared.frameSeq,
                   !.seq = shared.frameSeq, !.output = shared.outputFence]
        /\ shared.frameSeq > host.frameSeen
    BY <1>7 DEF BeginFrame
  <2>2. UNCHANGED <<host.reset, host.lastFrame>>
    BY <1>2, <2>1 DEF HostType
  <2>3. Unseen /\ alive.host
    <3>1. host.pc = "frame" /\ SeqNumbers
      BY <1>7, Numeric DEF BeginFrame, IInv, Bounded, TypeOK
    <3> QED
      BY <2>1, <3>1 DEF Unseen, IInv, Life, SeqNumbers
  <2> QED
    BY <1>4, <2>2, <2>3
<1>8. CASE FeatureReady
  <2>1. host'.reset /\ host'.pc = "frame" /\ UNCHANGED host.frameSeen
    BY <1>2, <1>8 DEF FeatureReady, HostType
  <2> QED
    BY <1>1, <1>3, <2>1 DEF Hist, HostLeaves, FollowsLast, FollowsCall, FollowsFrame
<1>9. ASSUME NEW outcome \in Outcomes, Record(outcome) \/ SignalFails(outcome) PROVE Hist'
  <2>1. host.pc = "record" /\ host'.pc \in {"enqueued", "complete"} /\ UNCHANGED host.frameSeen
    <3>1. Record(outcome) => <2>1!:
      BY <1>2 DEF Record, HostType
    <3>2. SignalFails(outcome) => <2>1!:
      BY <1>2 DEF SignalFails, HostType
    <3> QED
      BY <1>9, <3>1, <3>2
  <2>2. ~Unseen' /\ host'.pc # "record"
    BY <1>1, <2>1 DEF IInv, Frames, Working, WorkPcs, Unseen, HostLeaves
  <2>3. Outstanding \/ Quitting
    BY <2>1 DEF IInv, Ownership, Life, Settled, Working, Lost, WorkPcs
  <2>4. Requesting \/ Quitting \/ bridge.pending # 0
    BY <2>3 DEF Outstanding
  <2>5. bridge.pending # 0 =>
          Quitting \/ bridge.pc \in {"idle", "pending", "drain", "drainSleep"}
    BY DEF IInv, Stamps
  <2>6. \/ bridge.pc \notin {"connect", "idle", "fill"} \cup Draining \cup Preparing
        \/ bridge.pending # 0 /\ bridge.pc \in {"idle"} \cup Draining
    BY <2>4, <2>5 DEF Requesting, Quitting, Draining, Preparing
  <2> QED
    BY <1>1, <2>2, <2>6 DEF Hist, HostLeaves, Draining, Preparing
<1> QED
  BY <1>5, <1>6, <1>7, <1>8, <1>9, HostElses DEF HostNext, HostSteps

\* After a gap no frame is evaluated on the old history: with
\* Settings::resetOnTemporalGap, Feature 18 sees either a reset or the very next
\* frame (host/main.cpp: reset || shared->frameReset).
THEOREM HistoryIsUnbroken ==
  WaitsWork /\ ResetOnTemporalGap /\ Spec => HistoryUnbroken
<1>1. ResetOnTemporalGap /\ Init => Hist
  <2> SUFFICES ASSUME ResetOnTemporalGap, Init PROVE Hist
    OBVIOUS
  <2>1. bridge.pc = "connect" /\ bridge.pipelineReset /\ host.pc = "start" /\ ~Unseen
    BY DEF Init, IpcInit, BridgeInit, HostInit, Unseen
  <2> QED
    BY <2>1 DEF Hist, Draining, Preparing
<1>2. IInv /\ IInv' /\ Reported /\ Hist /\ [Next]_vars => Hist'
  <2> SUFFICES ASSUME IInv, IInv', Reported, Hist, [Next]_vars PROVE Hist'
    OBVIOUS
  <2>1. CASE UNCHANGED vars \/ GpuNext
    <3>1. UNCHANGED <<bridge, host, alive, shared>>
      BY <2>1 DEF vars, ipcVars, GpuNext, BridgeGpu, HostGpu
    <3> QED
      BY <3>1 DEF Hist, FollowsLast, FollowsCall, FollowsFrame, Unseen
  <2> QED
    BY <2>1, BridgeContinues, HostContinues DEF Next, Ended
<1>3. IInv /\ Hist /\ [Next]_vars =>
        [HostAt("record") /\ host'.lastFrame = shared.present /\ host'.pc # "record"
         => \/ host.reset \/ shared.frameReset
            \/ host.lastFrame + 1 = shared.present]_vars
  <2> SUFFICES ASSUME IInv, Hist, host.pc = "record"
               PROVE  host.reset \/ shared.frameReset \/ host.lastFrame + 1 = shared.present
    OBVIOUS
  <2>1. alive.host
    BY DEF IInv, Life
  <2> QED
    BY <2>1 DEF Hist, FollowsLast, FollowsCall, FollowsFrame
<1>4. ResetOnTemporalGap => ResetOnTemporalGap'
  OBVIOUS
<1> QED
  BY <1>1, <1>2, <1>3, <1>4, Exact, Reports, PTL DEF Spec, HistoryUnbroken

=============================================================================
