------------------------------- MODULE HostIpc -------------------------------
(***************************************************************************)
(* What the injected bridge and the NRHost process share: the control      *)
(* block hostipc::Shared, the named events, the handles duplicated into    *)
(* the host process, the GPU fence both devices signal, the two GPU        *)
(* queues, and the content of the shared textures.                         *)
(*                                                                         *)
(* The GPU is external code: a queue executes its operations in order and  *)
(* asynchronously to the processes, a Wait holds its queue until the fence *)
(* has reached a value, and a Signal assigns the fence.                    *)
(***************************************************************************)
EXTENDS Naturals, Sequences, FiniteSets

CONSTANTS
  MaxPresents,  \* bound: how many frames the game presents in one session
  Textures,     \* the transferable textures (color, output, motion, depth, mask)
  Sizes,        \* the back buffer sizes the game may present
  Presets,      \* the values of Settings::nrPreset
  Faults        \* the failures that may happen in a run

FaultKinds ==
  {"timeout",     \* a CPU wait reaches its deadline
   "openProcess", \* the host cannot open the game's process
   "wait",        \* WaitForMultipleObjects returns WAIT_FAILED
   "transfer",    \* a shared handle cannot be created or duplicated
   "signal",      \* the bridge cannot enqueue its fence signal
   "device",      \* the host cannot create its D3D12 device
   "drain",       \* the host gives up waiting for its own GPU queue
   "import",      \* OpenSharedHandle fails in the host
   "create",      \* Feature 18 cannot be created
   "evaluate",    \* Feature 18 fails to evaluate
   "close",       \* the recorded command list cannot be closed
   "hostSignal",  \* the host cannot enqueue its fence signal
   "hostCrash", "bridgeCrash"}

ASSUME BoundsAssumption == MaxPresents \in Nat \ {0}
ASSUME FaultsAssumption == Faults \subseteq FaultKinds
ASSUME TexturesAssumption == Textures # {}
ASSUME FenceFieldAssumption == "fence" \notin Textures

Ordinals == 0..MaxPresents                \* presents, frames and generations
FenceValues == 0..(2 * MaxPresents)
Fields == Textures \cup {"fence"}         \* the handle fields of Shared
HostStates == {"Booting", "WaitingConfig", "Configuring", "Ready", "Active",
               "Error", "Stopping"}

VARIABLES
  shared,   \* hostipc::Shared
  event,    \* frame, done, stop: named events; fence: the bridge's private one
  alive,    \* the process handles each side can wait on
  remote,   \* handles open in the host: <<field, generation>>
  fence,    \* the value of the shared GPU fence
  armed,    \* values registered with SetEventOnCompletion that have not fired
  bridgeQ,  \* operations on the bridge's GPU queue, oldest first
  hostQ,    \* operations on the host's GPU queue, oldest first
  tex,      \* per generation, the frame the input and output textures hold
  screen    \* the last frame composited, and what its image was

ipcVars == <<shared, event, alive, remote, fence, armed, bridgeQ, hostQ, tex,
             screen>>
gpuVars == <<fence, armed, bridgeQ, hostQ, tex, screen>>

\* An output image: the frame it was computed from, and whether Feature 18
\* computed it (the host's fallback is a plain copy of the input).
Images == [frame : Ordinals, neural : BOOLEAN]
NoImage == [frame |-> 0, neural |-> FALSE]

\* A GPU operation. n is a fence value for "signal" and "wait", a frame for the
\* others; gen is the generation of the textures it touches.
Ops ==
  [kind : {"signal", "wait"}, n : FenceValues, gen : Ordinals]
  \cup [kind : {"copyIn", "copyOut", "evaluate", "fallback"},
        n : Ordinals, gen : Ordinals]
Op(kind, n, gen) == [kind |-> kind, n |-> n, gen |-> gen]

IpcInit ==
  /\ shared = [state |-> "Booting", frameSeq |-> 0, enqueuedSeq |-> 0,
               completedSeq |-> 0, configGeneration |-> 0,
               resourceGeneration |-> 0, inputFence |-> 0, outputFence |-> 0,
               present |-> 0, frameReset |-> FALSE, lastOk |-> FALSE,
               size |-> 0, preset |-> 0, stopRequested |-> FALSE,
               handle |-> [f \in Fields |-> IF f = "fence" THEN 1 ELSE 0]]
  /\ event = [frame |-> FALSE, done |-> FALSE, stop |-> FALSE, fence |-> FALSE]
  /\ alive = [bridge |-> TRUE, host |-> TRUE]
  /\ remote = {<<"fence", 1>>}
  /\ fence = 0 /\ armed = {}
  /\ bridgeQ = <<>> /\ hostQ = <<>>
  /\ tex = [g \in Ordinals |-> [input |-> 0, output |-> NoImage]]
  /\ screen = [frame |-> 0, image |-> NoImage]

-----------------------------------------------------------------------------
\* Mutant: the sequence number alone proves completion.
OutputReadyBySequence(seq, value) == shared.completedSeq = seq

\* The proof of completion the bridge relies on: the exact sequence number AND
\* the GPU fence (nrHostOutputReady).
OutputReady(seq, value) ==
  shared.completedSeq = seq /\ value # 0 /\ fence >= value

HostFailed == shared.state \in {"Error", "Stopping"}

\* Close every handle still in the block and zero its field.
CloseFields(fields) ==
  /\ remote' = remote \ {<<f, shared.handle[f]>> : f \in fields}
  /\ shared' = [shared EXCEPT !.handle =
                 [f \in Fields |-> IF f \in fields THEN 0 ELSE @[f]]]

-----------------------------------------------------------------------------
SignalFence(value) ==
  /\ fence' = value
  /\ armed' = {a \in armed : a > value}
  /\ event' = [event EXCEPT !.fence = @ \/ armed' # armed]

Runnable(queue) ==
  /\ queue # <<>>
  /\ Head(queue).kind = "wait" => fence >= Head(queue).n

\* The bridge's queue: copy the game's frame into the shared input, signal,
\* copy the shared output towards the back buffer.
BridgeGpu ==
  /\ Runnable(bridgeQ)
  /\ bridgeQ' = Tail(bridgeQ)
  /\ LET op == Head(bridgeQ) IN
       \/ /\ op.kind = "copyIn"
          /\ tex' = [tex EXCEPT ![op.gen].input = op.n]
          /\ UNCHANGED <<event, fence, armed, screen>>
       \/ /\ op.kind = "copyOut"
          /\ screen' = [frame |-> op.n, image |-> tex[op.gen].output]
          /\ UNCHANGED <<event, fence, armed, tex>>
       \/ /\ op.kind = "signal"
          /\ SignalFence(op.n)
          /\ UNCHANGED <<tex, screen>>
  /\ UNCHANGED <<shared, alive, remote, hostQ>>

\* The host's queue: wait for the inputs, evaluate (or copy), signal.
HostGpu ==
  /\ Runnable(hostQ)
  /\ hostQ' = Tail(hostQ)
  /\ LET op == Head(hostQ) IN
       \/ /\ op.kind = "wait"
          /\ UNCHANGED <<event, fence, armed, tex>>
       \/ /\ op.kind \in {"evaluate", "fallback"}
          /\ tex' = [tex EXCEPT ![op.gen].output =
                      [frame |-> tex[op.gen].input,
                       neural |-> op.kind = "evaluate"]]
          /\ UNCHANGED <<event, fence, armed>>
       \/ /\ op.kind = "signal"
          /\ SignalFence(op.n)
          /\ UNCHANGED tex
  /\ UNCHANGED <<shared, alive, remote, bridgeQ, screen>>

=============================================================================
