# UniversalDLSS5: a TLA+ model of its concurrent core

UniversalDLSS5 runs a neural rendering feature (DLSS "Feature 18") inside games
that do not have it. A controller (`src/src/controller`) injects a bridge DLL
(`src/src/bridge`) into a game; the bridge hooks the game's present functions,
feeds each frame to a neural backend - most often a helper process, NRHost
(`src/src/host`) - and composites the result before the game's own Present
continues. All of this happens on threads and in processes that were not written to
know each other: the game's, the bridge's worker, NRHost's, the controller's, and
two or three GPU queues.

These modules model that coordination: what is shared, who may touch it when, what
happens when somebody is late, fails or dies. Paths below are relative to the
repository. Properties are about the code in `src/src` and `src/include`. Where the code
does not do what a document or a comment of the repository says, the text below calls it
an *observation*; one of them has a run of its own and is the finding of section 11.

Run a model with `tlc -workers 2 -config <cfg> <module>`, check proofs with
`tlapm <module>`, here in this
directory. `PROJECT.json` lists the runs, the mutants that show each
property can fail, the source lines of each definition, the hazards and the theorems.

**Lapses.** Some of those disagreements break what everything after them relies on: an expired wait
that nobody notices, an event left set, a pipeline that works although it was never
built. The modules model them as the code has them, and note each in the
variable `lapses`. The runs of these modules follow a behaviour up to its first lapse (constraint
`Unlapsed`), and the properties are about that part: they say that *nothing else*
goes wrong. Each section lists the lapses of its module, so that a reader sees what the properties do
not promise.

## 1. The system

| component | state it keeps | operations | how it interacts |
|---|---|---|---|
| **External-host bridge** `neural/external_host.cpp`, `external_host_wait.hpp` | `bridge_`: textures, fence value, pending request, configuration | `openSession`, `initialize`, `evaluate`, `ensureResources`, `shutdown` | control block `hostipc::Shared`, three named events, duplicated handles and a shared GPU fence, all with NRHost |
| **NRHost** `host/main.cpp` | imported textures, Feature 18, frame counters | configuration, frame processing, the main wait loop | as above; waits on the game's process handle |
| **Hook lifecycle** `bridge/bridge_main.cpp`, `hook_quiescence.hpp`, `dxgi_hooks.cpp` (install, shutdown) | `g_started`, `HookQuiescence`, MinHook's tables, the `swaps` map | `UniversalDLSS5_BridgeStart`, `bridgeThread`, every detour | the game's threads run in the detours while the worker removes them |
| **Injector** `injector/injector.cpp` | none of its own | load the DLL, call `BridgeStart` | remote threads in the game |
| **Shared control block** `common/shared_control_win.cpp` | settings, status table, elected renderer, reset and retry generations, unload flag | reads and writes under two sequence locks | controller and every attached game |
| **Renderer election** `renderer_selection_policy.hpp`, `controller/ui.cpp` (`poll`) | the elected pid | `electPrimaryRenderer` | reads the status table, writes `primaryRendererPid` |
| **Present hooks** `bridge/dxgi_hooks.cpp` (`process` and around it) | per swapchain: proofs, suppression, resync, generation tracker | one call per Present, Resize, SetColorSpace | calls every pipeline |
| **D3D12 queue proof and routes** `present_queue_policy.hpp`, `d3d12_recovery_policy.hpp`, `d3d12_route_policy.hpp` | evidence per queue, fences probed | evidence, trust, recovery | Present hooks |
| **Guide snapshots** `gpu/game_temporal_guides.cpp`, `snapshot_*.hpp` | a ring of copies per queue, leases | capture, submit, promote, lease | the game's own DLSS and Streamline calls |
| **In-process neural backend** `neural/ngx_nr.cpp`, `neural_scheduler_policy.hpp` | slots, fences, failure state | evaluate, pace, retire | NGX, D3D11/D3D12 queues |
| **D3D11, native D3D12 and On12 pipelines** `gpu/d3d11_pipeline.cpp`, `d3d12_native_pipeline.cpp`, `d3d12_on12.cpp` | history flag, allocator rings, retired objects | process, reset, retire | neural backends, trackers |
| **Legacy copy ring and frontends** `compat/` | a ring of staging surfaces | copy, poll, present | other graphics APIs |
| **Controller and runtime importer** `controller/` | attached processes, primary, preferences, installed runtime | launch, attach, detach, maintenance, import | control block, injector |
| Others (optical flow, Streamline and in-game NR, trackers, settings, forwarder, tools) | see `PROJECT.json` | | |

### What makes these parts correct

* **Session (bridge + NRHost)**: an output is composited only for the frame it was computed
  from; shared textures have one user at a time; a handle duplicated into NRHost is
  closed exactly once; nobody sleeps for ever; a helper never outlives its game;
  history is reset whenever a frame is missing. *Hard because* each side reads the block
  while the other writes it in several steps, every wait may expire and leave work
  behind that completes later, and either process may die between any two steps.
* **Hook lifecycle**: nothing a game thread is executing is freed; a detach ends; what
  is reported as started serves the game. *Hard because* a thread can be
  anywhere - at the first instruction of a detour, or blocked in the original function - when
  the worker decides, and because the failing paths give back things the
  succeeding paths still use.
* **Control block**: a reader sees one writer's data; a process has one slot; the
  election is stable; a reset that was requested reaches each bridge. *Hard because* a
  sequence lock is meant for one writer, and the status table has many; and any of them
  may be killed while writing.
* **Present hooks, queue proof and routes**: after a Present failed, no pipeline touches the swapchain
  before a clean Present, and none continues a history from before the failure; a D3D12 pipeline works on the queue
  that was shown to present. *Hard because* Presents of several threads overlap, calls of Resize
  and SetColorSpace come in between, and evidence for queues arrives in any order.
* **Guide snapshots**: what a reader holds is complete, of one frame, and not overwritten
  while it is read; a capture that was given up does not come back. *Hard because* the game tags, records,
  executes and presents on different threads, copies finish in any order, and every step may find the
  capture mode changed.
* **In-process backend**: the screen shows the frame the CPU accounts for; a slot is recycled after its
  last use. *Hard because* two GPU queues and the CPU meet only in two fences and an auto-reset event, and each call
  picks another way to wait.
* **D3D11 pipeline**: no history - colour, reduced colour, optical flow, backend - is compared with a frame
  that is not its successor. *Hard because* four histories are kept and dropped by different conditions, and a
  Present may leave `process` at a dozen places.
* **D3D12 pipelines**: a Present shows its own frame, and no allocator, surface, snapshot or host input is used
  again while a queue still uses it. *Hard because* waits expire, and each object has an owner of its own
  (a context, a call, a bundle of retired objects).

## 2. Modules

| module | what it is |
|---|---|
| `HostIpc` | what bridge and NRHost share: control block, events, handles, the GPU fence, both GPU queues, texture contents |
| `ExternalHostNR` | the bridge's side: `ExternalHostNR::evaluate` and what it calls, as a thread with a program counter |
| `NRHost` | the host's main loop, configuration and frame processing |
| `NrHostSession` | the composition of the three, its properties, and the refinement |
| `ExactFrames` | the abstract promise of a session: one request at a time, only its own answer on the screen |
| `BridgeLifecycle` | attach, detours, teardown, injector |
| `RendererElection` | `renderer_selection_policy.hpp` as operators |
| `SharedControl` | the control block, step by step, with the controller and the presenting threads |
| `QueueProof` | evidence, trust and routes of D3D12 queues as operators |
| `PresentGate` | the Present detours: who processes, suspension and resync, creation and reset of pipelines, with `QueueProof` |
| `GuideSnapshots` | capture, copy, promotion and leases of the game's guides |
| `NgxNR` | the in-process neural backend with its two GPU queues |
| `TemporalGuides` | frame times of guides and how several providers' guides become one |
| `NvOpticalFlow`, `NeuralBackends` | what `D3D11Pipeline` needs of the two: operators over their members |
| `D3D11Pipeline` | `process` of the D3D11 pipeline and its histories |
| `D3D12Queues` | queues, fences, events and waits of both D3D12 pipelines |
| `D3D12NativePipeline` | the pipeline on the game's own queue, with the external host |
| `D3D12On12` | the pipeline that copies the back buffer; owns and chooses the native one; both routes |
| `*_proofs` | the theorems of section 10 |
| `MC*` | constants, constraints and views of the runs |

`map` in `PROJECT.json` gives the source lines of every definition. Within a module, an
action has the name of the function or of the step of the function it stands for; the
point a thread has reached is its `pc`.

| run | shows | states |
|---|---|---|
| `session_exact`, `_transfer`, `_progress`, `_delivery` | section 3 | 2.1 M, 1.2 M, 0.19 M, 0.43 M |
| `bridge_teardown` | section 4 | 0.31 M |
| `control_table` | section 5 | 3.5 M |
| `present`, `present_otherQueue` (the finding) | section 6 | 2.1 M, until the violation |
| `guides` | section 7 | 2.8 M |
| `neural` | section 8 | 0.48 M |
| `history`, `frames` | section 9 | 1.0 M, 4.1 M |

## 3. The external-host session

**State.** `shared` is `hostipc::Shared` field by field (`frameSeq`, `enqueuedSeq`,
`completedSeq`, the two generations, the fence values, the handle fields...). `event`
holds the four events a thread can sleep on. `remote` is NRHost's handle table as far as the
bridge duplicates into it: pairs of a field and the generation of the texture. `fence`
is the shared GPU fence, `armed` the values registered with `SetEventOnCompletion`.
`bridgeQ` and `hostQ` are the GPU queues: FIFO, asynchronous, `Wait` blocks, `Signal`
assigns. `tex` says which frame each texture generation holds; `screen` is what the pipeline
composited. `tex`, `screen` and `host.lastFrame` are history variables: no step of the code reads
them. `bridge` and `host` are the two threads.

**Bridge.** `Present` is the entry of `evaluate` (refusals included), `CheckPending` to
`SleepDrain` retire or drain an older request, `Fill` and `Ensure` are
`ensureResources`, `Transfer`/`PublishConfiguring`/`BumpGenerations` hand a new set of textures over,
`SubmitInputs` to `KickHost` publish a frame, `PollEnqueued` to
`SleepCurrent` are the two waits with their wakeups, `Finish` the return. `TimeOut` is the
deadline of whatever wait the thread is in; `Shutdown`, `Close`, `BridgeCrash` end it.

**Host.** `Wait` is the main wait; `CheckGeneration` to `ConfigureFailed` are one
configuration; `BeginFrame`, `Record`, `SignalFails` and the four `Publish`/`Announce`
steps are `processFrame`, where `Record(outcome)` chooses between evaluation, fallback copy
and failure. `RetireQueue` and `RetireFails` are `executeAndDrain`.

**Faults** are the constant `Faults`: expired waits (`timeout`), failing waits (`wait`), failing
transfers, imports, feature creation, evaluation, command-list close, signals on either side,
device creation, draining, and a crash of either process. A run names the ones it
allows; `TypeCorrect` allows all, the theorems about exact frames all but a few (section 10).

**Runs.**

| run | bounds | shows | size |
|---|---|---|---|
| `session_exact` | 3 presents, 2 sizes, 1 texture, timeouts and failing submissions | `TexturesExclusive`, `ExactComposite`, `AllocatorIdle`, `NeuralMeansEvaluated`, `FenceMonotone`, `HistoryUnbroken`; and the session implements `ExactFrames` (`KeepsPromise`) | 2.1 M states |
| `session_transfer` | 2 presents, 3 textures (symmetric), 2 sizes, 2 presets, all transfer and configuration faults, crashes | `HandlesOwned` | 1.2 M |
| `session_progress` | 2 presents, stranding faults, fair threads | `PresentReturns`, `PendingCompletes`, `HostNotOrphaned` | 0.19 M |
| `session_delivery` | 2 presents, 2 sizes, 2 presets, no timeout, fatal faults | `EveryPresentNeural` | 0.43 M |

Why these bounds: a hazard of this protocol needs one request left behind by an expired wait,
a second that meets it, and a third that would use what the first two
left; a rebuild needs a second size (or preset); partial transfer and partial import
need three textures (done, failing, not yet tried). Generations and sequence numbers
are bounded by the presents, never by a guard of their own. `session_exact` leaves
the `wait` fault out: with it a forgotten request makes the fence go backwards
and strands later frames - consequences of the first observation below.

**Refinement.** `ExactFrames` has five variables: the frame asked for, whether it was answered,
the frame whose answer was accepted, what is on the screen, and
whether the service has failed. `Promise == INSTANCE ExactFrames WITH ...` in `NrHostSession`
computes them from the published or pending request (`Outstanding`),
from `OutputReady` - the pair of sequence number and fence the code checks -, from the copy
queued in `bridgeQ` and from `screen`. It is checked for the safety part; the abstract
specification states no liveness, and `PendingCompletes` and `EveryPresentNeural` stand for it.

**Fairness.** `FairSpec`: the presenting thread inside `evaluate`, the host's thread and both GPU
queues are weakly fair - they are running threads and hardware. The
game's next present, deadlines and faults are not fair, so `PresentReturns` says that a present
returns *because of an event*, not because a 2 ms wait expires anyway.

**Observations** (the model takes these steps; no run is spent on them). When the wait for
`enqueuedSeq` *fails* (`WaitFailed`, `external_host.cpp:324`), the request is not recorded as pending, and the next frame
overwrites textures the host is still reading. When the command list cannot be closed after a
successful evaluation (`host/main.cpp:451`), the fallback copy is reported as neural. A host
failure noticed while an older request is drained is overwritten by `Configuring`
(`external_host.cpp:204`, 418, 448).

**Left out.** `fence11_ == null` (native D3D12 surfaces without a D3D11 fence; the pipeline
uses it in Synchronized mode only); the numeric deadlines (any wait may expire at any time); loading of the
runtime, compatibility checks of the GPU architecture and the passes of the refined composite. A
failure of the first D3D12 calls of a frame is the outcome `evaluate` of
`Record`. Steps of a thread that touch only its own state between two shared accesses are merged
with the access.

## 4. Attach, detours and detach

**State.** `refs` is the DLL's load count, `hooksReady` whether MinHook is initialised (trampolines
exist), `hooksOpen` whether the hooked functions jump into the DLL; `active` is
`HookQuiescence::active_` as the *set* of threads that hold a `Scope`; `thread`, `worker` and `injector`
are program counters. `swaps` says whether pipelines exist.

**Actions.** A detour is `Enter` (jump, nothing counted yet), `Count` (the
`fetch_add` of `Scope`), `Check` (the look at `unloading_`), then custom work or forwarding,
`CallOriginal`/`Return`, `Leave` (the `fetch_sub`), and `BackInGame`. Code of
an unmapped DLL and freed trampolines cannot be executed: such a thread is stuck, which stands for a
crashed game; `GameIntact` keeps the model from loading the DLL again
into such a game. The worker is `bridgeThread`: `OpenControl`, `InstallHooks` or `InstallFails`,
`Detach`, `BeginUnload`, `DisableHooks`, `Sample`/`Deadline` (`waitForIdle`: three
samples of zero, or the deadline), then `Retire`, `Uninitialize`, `CloseControl`, `Free`, or the
resident end of a failed drain. `Look` to `CreateWorker` are an injector run with
`UniversalDLSS5_BridgeStart`.

**Runs.** `bridge_teardown`: two game threads, two injector runs, every fault; 314,308 states. It
checks `TeardownExclusive` (once the worker retires the pipelines, no thread does custom work),
`DetachClosesHooks` (a detach that unmaps the DLL leaves no patched function
behind, whatever the tracker hooks or a failing `MH_DisableHook` did meanwhile),
`DetachEnds` and `StartIsServed`. Besides the two threads and two runs nothing
is bounded: every variable is finite. Two threads show one being counted while the other
leaves, two injector runs the start of a second worker beside a first one that is on its way out.
`RequestUnload` can always be taken, so deadlock cannot be observed here; `DetachEnds` is the property
that would.

**Fairness.** Workers are fair except inside the drain, whose `Deadline` is fair; injector runs are fair; game
threads are not: a game may stay in its original Present for as long as it likes.

**Observations** (reached by the model; `TeardownExclusive` is about pipelines, not about code). Three samples one
millisecond apart do not see a thread stopped between the patched jump and the `fetch_add`
(`hook_quiescence.hpp:55`); it is counted after `waitForIdle` returned, and `MH_Uninitialize` frees the trampoline it
will call. When enabling all hooks fails half way, the DLL is freed under hooks that are enabled
(`dxgi_hooks.cpp:306`). The resource trackers' `MH_EnableHook(MH_ALL_HOOKS)` during the drain reopens hooks the worker had just
disabled. A bridge that stays resident leaves `g_started` at 1, so a later start reports success although
nobody serves it; a failing worker clears `g_started` before it gives its reference back.

**Left out.** Memory ordering (the counters are sequentially consistent atomics); detour classes beside
Present (they use the same `Scope`); the probing of compatibility hooks; when
`shouldAutoDetach` becomes true (it may at any time).

## 5. The control block and the election

**State.** `settings` and `table` are the two blocks under sequence locks. Each copy is two
steps (`head`, `tail`), so a torn copy has a half of each writer. `primary` is
`primaryRendererPid`, `reset` the set of bridges whose `GenerationTracker` has not yet seen
`historyResetGeneration`, `ctl` the controller's UI thread, `bridge[p]` the presenting thread
of process `p`. `overlap` is a history variable: two writers of the table at once, or one killed while
writing - the cases a sequence lock does not cover. `floor` (in the two read records) remembers
what was there when the read began, `ctl.deposed` whom the elected renderer outscored - not who merely
went stale: an incumbent that hangs for `GraceMs` and publishes again may be elected again.

**Actions.** `Choose` to `requestHistoryReset` are a setting the user makes, with the reset before it
(`setChoice`), after it (`applyPresetIndex`) or without (`setToggle`); `Poll` to
`Elect` one `poll()`; `Present` to `CompareSettings` is `readSettings`; `Bypass`,
`Consume`, `Suppressed`, `Evaluate` are what `process` does with it; `BumpStatuses` to
`ReleaseStatuses` is `writeStatus`; `Kill` may hit a game anywhere. `RendererElection` is the
policy with its actual numbers, and the run uses the windows of the repository's
own policy test (a 1076x560 D3D11 helper and a 1920x1080 D3D12 game).

**Run** `control_table` (3.5 M states): `SettingsWhole`, `TablesWhole`, `OneSlotPerPid`, `StatusesKept`, `NoPingPong`. The bounds are
*scenarios* (`Budgets`): each initial state allows one kind of contention - readers against one settings write; one
reader against three writes; two publishers, a poll and a kill;
three polls while the lead changes; two polls while statuses go stale. Two attempts per read
(`Tries`) instead of eight give every path of the retry loop: first failure, last failure. Statuses
grow old after `GraceMs` = 1 tick of a clock of two or so, instead of 2500 ms. Deadlock checking is off
because the scenarios end.

**Observations.** Frames that `process` skips (processing disabled, or another renderer
elected) leave no mark in the pipelines: the next evaluated frame continues the
history from before the gap. A `readStatuses` that collides eight times returns an empty table, which
`poll()` takes for nobody, publishing 0, and then every bridge runs the neural path. Tables torn by overlapping
writers can make the election take a stale process for a fresh one. Being elected is worth 500 000 points, the hysteresis
250 000 and a quarter: two windows of some 700 000 points each (small, without a preferred API) may outscore each other in turn. A
game killed between
its two increments leaves the parity of `statusSeq` wrong.

**Left out.** Wrapping of the sequence numbers (2^32 writes within one read); several swapchains of one process (their
presents are merged into one thread); reuse of an existing block by
`create`; `readStatus` (no caller); the retry generation, a second instance of the reset generation;
early returns of `process` that do not touch the block (they are in `PresentGate`).

## 6. The Present detours and the queue proof

**State.** `gate[s]` is the `SwapCtx` of an address: what is known of its queue (`proof`,
`evidence`, `q12`), the stabilisation counters, `suppressed` and `resync`, `busy`
(`processing`), and the pipeline, of which `lost` says that its history may hold a frame that was never
displayed. `touches` is what the command lists being recorded touched, `capturing` whether that is being recorded at
all. `unclean` and `seen` are history variables: whether a clean Present has followed the last failed
one, and what evidence there really was.

**Actions.** A Present is `Begin` (the look at the suspension), `Claim` (`tryBeginPresentWork`), `Process`
(from a pending resync to the choice of the primary swapchain), `RouteD3D11` or `RouteD3D12`
(route, capture mode, creation or reuse of the pipeline), `Leave`, `Return` (of the original Present), `Update`
and `Resync` (the two assignments of `updatePresentMutationState`). Evidence is `Record`, `Execute`
(`hookExecute` looks up the owners first), `Note` (and tells them afterwards). `Create`, `Resize`, `Recolor` and `Quieten` come
from the rest of the game. `QueueProof` has the two policies and the route as operators.

**Run** `present`: two threads, a D3D12 and a D3D11 swapchain, two queues; five calls of the game, of which
two record lists and two are neither. `Stable` is 2 (the code: 8, for D3D11 3) and `Steady` 1 (4);
the 350 and 120 ms of stabilisation are taken to pass with the Presents counted. Two threads and one
swapchain make every overlap of two calls, the second swapchain makes them compete for `primary`, and
five calls are a failed Present, a clean one, and the Presents that stabilise again.
Threads and queues are symmetric. It checks

* `CleanFirst`: a pipeline works for a Present only after a clean Present followed the last failed one, and with a history
  that holds nothing from before;
* `WorksOnShownQueue`: a D3D12 pipeline starts to work on the queue its route names, and that queue created the swapchain
  or was seen to present it twice, and, where no creation is known, is the last one seen.

**Lapses.** `late`: a Present claims the swapchain although it was suspended after it looked. `overtaken`: a clean Present that
began before the failure lifts the suspension the failure made. `torn`: another Present processes
between `suppressed = false` and `resync = true`. `resetInUse`: `hookResize` resets the pipelines
under a lock that `process` does not hold. `otherQueue`: the pipeline's queue becomes one that
is not the trusted one - the finding of section 11.

**Observations.** A barrier seen through both the legacy and the enhanced interface counts twice, so that recovery trusts a
queue after one submission. With a proof by creation, two barriers on another queue move the exact
trust there. The five seconds an inferred proof lives decide only what is logged.
`recordRecoveryQueueSubmission` and `snapshotRecoveryQueueWaits` are never called. Two D3D12
swapchains with different routes change the capture mode at every Present, which drops the captures each time. A
swapchain's context survives the swapchain: what happens at a reused address is `Create`.

**Left out.** Compatibility frontends, nested dispatch (`Present1` calling `Present`: the inner detour finds the
swapchain busy), the search for a secondary swapchain (an input), diagnostics.

## 7. Guide snapshots

**State.** `capture` is the current capture, `pending` what waits for the execution of its command list,
`slots` the ring, `work` and `reached` the queues and what their fences have reached, `texture` what a
slot's textures show, `present` the captures a Present holds with their leases. `gone` is a history
variable: captures that were replaced, rejected, expired or released.

**Actions.** The game's threads tag (`setTag`, `evaluate`), and execute lists; an execution binds what was
pending, reserves a slot, records the copy, submits it behind the game's list, signals and stages - each under
its own lock, with everything in between. `Present` promotes, takes a capture with its lease and gives it
back; `SetMode` may come at any of its points. Time passes in steps.

**Run** `guides`: two threads, one queue, two lists, two slots (the code: six), two tags (Streamline and NGX, dated and undated,
volatile and not), two Presents, and a clock of 1.5 s, which lies between the limits of 1 s (priority) and 2 s (age). Two
slots are one being read and one being copied; a third capture finds the ring full. It checks
`SnapshotsHoldTheirFrame` (what a reader holds is complete and stays) and `GoneStaysGone` (no capture that was given up is
current again or handed to a Present).

**Observations.** Staging sets `captureConsumed = false`, so that a release or a change of mode between the reservation
and the staging does not cancel that snapshot (`game_temporal_guides.cpp:842`). A failing `Signal` (833) leaves the slot in
flight for good. Failing to create a slot's textures (802) leaves its list open, and later snapshots in the slot fail. A completed
snapshot replaces a live capture even when that one is newer. The capture mode is read without the lock.
`guideSubmitMx` keeps fence values and signals in order, and with two threads that is needed.

**Left out.** The conventions of Streamline's constants and of NGX parameters; D3D11 captures, which nothing
snapshots; the search for hook targets; removal of the device.

## 8. The in-process neural backend

**State.** `slots` is the ring of `FrameSlot`s, `active` how many of them are in use, `seq` the sequence numbers, `cache` the last
result, `features` what NGX has created, `d11` and `d12` the commands the two GPU queues still have, `fence` the values
reached, `event` the completion event with the values registered on it. `texture` holds the D3D12 state of
each texture, `content` the frames shown in them.

**Actions.** One call of `evaluate` in the order of the code: initialization, guides copied on the D3D11 context, growth of the
ring, selection or acquisition of a slot, hand-over to D3D12, creation of the features with a submission
of its own, recording of main and refinement passes, submission, then what the pacing asks for:
`Synchronized` waits, `Adaptive` waits for a while, `Asynchronous` shows the cache. A wait is `AlreadyComplete`, or `ArmEvent` and then `Woken` or
`TimedOut`. `ContextStep` and `QueueStep` are the GPU.

**Run** `neural`: two slots with one at the start (the code: eight and three), three calls with all modes, one or three passes, two sizes and every failure; and four
calls in `Asynchronous` mode with timeouts while the limit on the queue goes up and down. `BarriersMatch`
(every barrier names the state its texture is in), `ShowsWhatItReports` (the frame shown is the one
whose age is reported), `EvaluatesOwnGuides`, `NoReuseInFlight` (an allocator is reset, and a slot released, only when
the queue has nothing left of it), `EvaluateReturns` (a call returns if the GPU executes what it is given).

**Lapses.** `staleWake`: an expired wait leaves its registration, whose late completion wakes the next wait at once
(`gpu_fence_wait.hpp`; 1041). `abandoned`: a call that fails between a feature's initialization and its evaluation leaves
the textures in a state the next one does not expect. `releasedEarly`: `waitForSubmittedWork` (1095) ignores
a timeout, and what is still in use is released. `regrown`: growing takes `slots[activeSlots]` without looking whether a
shrink left it in flight (`neural_scheduler_policy.hpp:72`).

**Observation.** A failing hand-over (525) leaves the slot's list open, and it can never be reset again.

**Simplified.** Of the two calls of a hand-over either can fail, in one step. Textures that are made again
keep what the old ones held until they are written: no command reads them before. On shutdown the context's
commands about released objects become `Void`.

**Left out.** Timing queries, the parameters handed to NGX, the classification of its errors.

## 9. The pipelines

**D3D11** (`D3D11Pipeline` with `TemporalGuides`, `NvOpticalFlow`, `NeuralBackends`). `memory` has the flags the pipeline
keeps from Present to Present, `content` the frames its three histories show, `backend.seen` the last frame
the backend accumulated. `Gather` is the head of `process` (guides of up to three providers, the effective motion
route), `Prepare` the copies and the reset decision, `Motion` the chosen flow, `Evaluate` the backend and what
follows; `PrepareFails` and `PassOver` are the early returns. `Reset`, `ProcessNatively` (the D3D12 route took the frame),
`RetryNeural` and `SetForceExternalHost` come in between. Run `history`: three Presents - a history is made, skipped or
broken, and compared with -, three settings (all flows, gap policy on and off, three backends), two sizes and six kinds of failure.
`HistoriesFollow`, `ResetCoversGaps`, `GuidesOfOneFrame`.

*Observations.* `suspendForNative` shuts the optical flow down, but `attempted_` stays, so that the same configuration is never
configured again (`nv_optical_flow.cpp:111`). Presents that `process` was never called for do not force a
reset, contrary to the design note of 2026-09-12 (`dxgi_hooks.cpp:180`).

**D3D12** (`D3D12Queues`, `D3D12NativePipeline`, `D3D12On12`). The back buffer is copied into `color`, a surface the
D3D11 pipeline works on, and copied back; with "on12" everything goes to one queue, with "recovery" the thread waits
between two. With complete snapshots and the external host the native pipeline takes the Present
instead: two command lists on one allocator, with the host's request between them. `copies` and `native` have the fence values of
the command contexts, `surface` the guide textures, `retired` the bundles destroyed pipelines leave behind while their
work is queued; an image is the number of the Present it shows. Run `frames`: three Presents, two pipelines after each other, both modes,
two formats and host keys, ten kinds of failure; fence values are compared relative to what is reached (view `Relative`).
`NothingUsedTwice` (allocators, surfaces, leases, the host's inputs), `PresentsOwnFrame`, `NativeHistoryFollows`.

*Lapses.* `staleWake` (`d3d12_on12.cpp:213`, as in section 8). `unbuilt`: after the native pipeline failed to build, `retryNeural` makes
`initialize` return true (56), and `begin` uses an allocator that is not there. `unguarded`: a failing D3D11 signal
(208) lets the next copy go ahead of the D3D11 work. `releasedEarly`: `reset` gives up after five seconds with
copies in flight and releases what they use.

*Observations.* In the direct path a snapshot's lease is held by the call only. A failing `externalHostForNative` (348)
does not invalidate the native history. A timeout during a second `initialize` marks the native
pipeline failed until the next retry. `recoveryWaits` is never read.

**Left out.** Shader constants, descriptors, formats and color encodings, view caches; timing.

## 10. What is proved

TLC shows the properties on the instances above; these theorems hold for every value of the constants that
satisfies the modules' named assumptions. No leaf is left open.

* `NrHostSession_proofs!TypeCorrect`: `Spec => []TypeOK`, for any textures, sizes, presets, faults and number of
  presents. `TypeOK` bounds every counter by `MaxPresents`, which the code does not check; it
  holds because of where counters are stepped. The inductive invariant `Bounded` adds
  `CountersBounded`: each counter is at most the number of presents (the fence value at most twice that), and
  strictly behind it before the point of the call that steps it (`BeforeTransfer`, `BeforeBump`,
  `BeforeSubmit`, `BeforeNumber`). Assumptions: `BoundsAssumption`, `FaultsAssumption`,
  `FenceFieldAssumption` (the fence is not a texture), `GapAssumption`.
* The rest of `NrHostSession_proofs`: every safety property of the session, for any textures, sizes, presets and number of presents,
  as long as no wait of the bridge returns `WAIT_FAILED` (`WaitsWork`). With that fault `TexturesExclusive`, `AllocatorIdle`,
  `FenceMonotone` and `KeepsPromise` are false - TLC finds the frame that is forgotten while the host works on it; the first
  observation of section 3 - and the others, which TLC does not refute on such an instance, are argued from these. All other faults are allowed,
  crashes included, unless a theorem names one:
  - `Exclusive`, `CompositesExactly`, `AllocatorFree`, `FenceNeverBack`, `HandlesNeverLeak`;
  - `PromiseKept`, the refinement of `ExactFrames`, if the game does not die (`GameLives`): with the game go the copies its
    queue had accepted;
  - `NeuralIsEvaluated`, if a list whose evaluation was recorded can be closed (`CloseWorks`; the second observation);
  - `HistoryIsUnbroken`, with `ResetOnTemporalGap`: the setting is there to turn the promise off.

  None of these is inductive, and neither is their conjunction: that two queues do not meet on a texture depends on where each
  process is, on what is outstanding, on the fence values stamped for it and on what each queue still holds. The inductive
  invariant `IInv` says that in thirteen parts on top of `Bounded`. `Life`: nobody stops the host before the bridge quits.
  `Frames`: the host is at most one frame behind and completes what it began. `Stamps` and `Fences`: the values of the
  outstanding request, and on which side of them the fence is. `BridgeQueue`, `HostQueue`: what a queue may hold, in which order -
  at most one copy to the screen, in front; one frame's wait, work and signal. `Delivery`: frame and textures the host will
  find when its wait is over. `Ownership`: a host that has something of a frame has it of the outstanding request. `Failure`: so a failed
  host has enqueued the frame or lost it for good. `Product`: work that has run made the frame that is asked for.
  `Configuration`: a configuration and a frame are never in the host at the same time. `TextureSets`, `Handles`: which
  generation the host works on, and who owns the handles in the block. `TexturesExclusive` and `AllocatorIdle` follow from `IInv` itself,
  and so does that no step moves the fence back; `ExactComposite`, `Owned` (handles), `Behind` (accepted frames are behind the presents), `Reported` (what the host reports is what it did) and `Hist` (a
  reset is on its way, or the frame follows) are inductive relative to it, the last relative to `Reported` too. For the
  refinement the substituted expressions, a CHOOSE among them, are first shown equal to plain state functions (`Maps`);
  then each step keeps one of seven relations (`Kept`), and these are steps of `ExactFrames` (`KeptIsNext`).
  `TexturesAssumption` is needed besides: the code transfers five textures.
* `BridgeLifecycle_proofs!TeardownIsExclusive` and `TypeCorrect`, for any set of threads, injector runs and
  faults. The invariant: a thread that is counted or works is in `active`
  (`ScopesCounted`), there is one worker between start and exit (`OneWorker`), a worker past
  `BeginUnload` sees `unloading` up (`FlagStaysUp`), and past its decision
  nobody does custom work. It is the store-then-look argument of `hook_quiescence.hpp`: a scope counts itself before it
  looks at the flag, the worker raises the flag before it looks at the count.
* `SharedControl_proofs`: every property of the control block and of the election, for any bridges, windows, slots,
  attempts and bounds:
  - `SettingsAreWhole` is the sequence-lock argument: the number is odd exactly while the controller
    writes (`WriterInv`), and as long as it is still the sampled one, what a bridge has copied is what is there (`ReaderInv`).
  - `SlotsAreUnique` needs that a process about to write its slot has no other (`TargetInv`), which rests on
    `ChosenSlotIsOwn`: the scan finds the process's own slot if there is one.
  - `TablesAreWhole` is the same argument for a lock with many writers, as long as they do not overlap: then one writes
    (`OneWriter`), and every slot is whole but the one it is in the middle of (`SlotsWhole`).
  - `StatusesStand` adds that a writer's slot is its own or nobody's when it writes (`Written`); with a slot for everybody the scan
    finds one, by a pigeonhole argument (`SomeSlotIsFree`; `Pids` is finite).
  - `ElectionSettles`, for windows no two of which can each outscore the other (`OneWay`). The invariant is that whoever was
    outscored could be (`DeposedInv`): published scores stay between `Low` and `High`, which are half a million apart at most
    (`NeuralRaises`). Without `OneWay` the property is false; `LargeWindowsAreOneWay` proves it of all windows whose scores
    reach two million together.
  - `TypeCorrect` contains that the elected renderer is always a process that published, the
    incumbent or nobody (`ElectedIsKnown`, which needs that scores are bounded, so that a best candidate exists).
* `PresentGate_proofs!ResumesClean`, `WorksOnShown` and `TypeCorrect`, for any threads, swapchains, queues, marks and
  inputs (`GateAssumption`). The inductive invariant `IInv` has four parts besides the types. `Owned`: a
  Present between `Claim` and `Update` that owns its swapchain is the only one that does, and holds it `busy`. `Trust`: the
  evidence a context has scored is evidence there was - matches are at most the sightings in `seen`, and
  a candidate without a creation is the last queue seen. Up to the first lapse, `Named`: the queue a pipeline is on is the one it
  is labelled with, and `Suspended`: from a failure to the resync the swapchain is suspended, owned by the call
  that failed, or due to be reset, so that whoever works has a pipeline without the old history.
* `D3D11Pipeline_proofs!HistoriesAreCurrent`, `EveryGapResets` and `GuidesAreOfOneFrame`, for any settings, sizes,
  guides, backends, faults and number of Presents (`PipelineAssumption`). The flags that allow a
  history (`memory.color`, `memory.low`, `nvof.have`) are set only by `Evaluate` or `Motion`, which bring what they stand for
  up to date, and `processed` moves only in `Evaluate`: `ColorFollows`, `LowFollows` and `FlowFollows` say at each place
  of a call what a raised flag stands for. That a reset covers every gap needs more: colour is never kept without a route,
  so a change of route is noticed and the flow that survives it is of the right Present (`FlowCovered`); and a backend that
  has seen another frame than `processed` leaves `force` raised, or the settings were `lenient` (`BackendCovered`).
  Guides are joined only when their frames match or after their metadata was invalidated (`OneFrame`, kept by `Merge`, `MergeFits`).
  `CallFits` ties what a call has found out to the state it found it in.
* `NgxNR_proofs`: every safety property of the in-process backend, for any number of slots, plans and calls
  (`NgxAssumption`); three of them, as in the run, as long as no lapse happens, `BarriersAlwaysMatch` until a call is
  abandoned, `TypeCorrect` whatever happens.
  - `OwnGuides` and `SlotsExclusive` are about what two GPU queues still have to do. `Holds` says what a slot will
    hold when a queue has executed all it has, `Awaited` that the D3D12 queue has, before its k-th command, a wait which no signal
    ahead of a copy into the slot satisfies: so an evaluation that reaches the head of the queue has nothing to
    wait for and the slot holds its frame. `Ordered` and `Followed` say that completion values count up and that behind
    every command about a slot comes one the slot knows of: so a slot whose value is reached has nothing queued. Each
    of the four is shown to survive the execution of a command and the appending of others (`HoldsAfterTail`, `AwaitedAfterJoin`,
    ...), and what remains per action is which commands it appends. `IInv` joins them.
  - `ShowsFrames` turns the same notions round: the readers are now on the context, which still has to show or cache an output
    (`Serves`), and the queue will replace the outputs (`OutputsHeld`). No evaluation overtakes a reader of its slot (`ReadersAwaited`),
    because it stands behind a wait for a signal that the reader precedes. For the cache, `CacheHolds` says what it holds
    when the context reaches its p-th command: the last copy before it decides. `Cached` asks of every pending `showCache` that this
    is the frame it names, and of the CPU's record that it will be true behind all of them. `Honest`, their conjunction, is inductive relative to `IInv`.
  - `BarriersAlwaysMatch` proves the barrier lists right for every number of passes the settings allow and any place of an abort
    (`ListFits`): `Fits(st, b, to)` - replayed from `st` the list `b` matches and ends in `to` - is compositional (`FitsJoin`), and the
    passes are a product of pairs that alternate between two states (`PassFits`, `BindFits`). `Tidy` then says whose textures
    are not at rest: those of a slot between its first list and its last.
  - `TypeCorrect` needs four invariants besides `IInv`: `Owned`, `Counted` (consumed at most what was submitted), `Armed` (registered
    values were handed out) and `Stated` (the states of the textures, and which lists a call can have recorded).
* `GuideSnapshots_proofs!ReadersKeepTheirFrame` (`SnapshotsHoldTheirFrame`) and `GoneIsGone` (`GoneStaysGone`), for any queues, slots,
  values and orders of release (`GuidesAssumption`). The inductive invariant `IInv` says, besides the types, what a call in the middle of
  its work has in hand (`Callers`), what a queue may still hold and that its signals count up (`Queued`), that a reader
  which was registered has its signal behind it in its queue (`Registered`), and for every slot (`Snapshots`) one of three
  things: `Staged`, nobody has used it since it was handed out; `Held`, its copy is recorded or executed and no later one is queued
  before the readers' signals; `Numbered`, its completion values were handed out by the fences they name. `Recorded` covers
  a candidate list that is not closed yet. A close promotes several slots at once, one after the other, each step
  using what the one before it left: `PromotedOf` and `Promoted` are recursive functions of how many are done, and what they
  keep is shown for the least count that would break it (`LeastNatural`), since no such count exists.
* `D3D12On12_proofs!NothingIsUsedTwice` (`NothingUsedTwice`), `FramesAreTheirOwn` (`PresentsOwnFrame`) and `HistoryFollows`
  (`NativeHistoryFollows`), for any formats, captures, host keys, faults and numbers of Presents and pipelines (`QueuesAssumption`), up
  to the first of the lapses of section 9: behind one of them the code breaks what `IInv` says, which is why they are named.
  - Whatever lapses, the types hold, values are handed out in order (`Values`), a command belongs to its
    context (`Kinds`) and nothing is of a Present to come (`Recent`).
  - `Devices` is about the two queues. No context has two copies queued, and it knows the value behind which its copy is done
    (`Allocators`); native lists are the pipeline's own or have a retired bundle (`Bundles`); D3D11 work on a surface there still is
    is what the CPU takes for pending (`Pending`), and nothing copies such a surface (`Surfaced`). `Sorted`: the
    queue is in the order of the Presents. `Predicted`: when the p-th command runs, the image it shows or copies will be
    its own, the last writer before it deciding (`ColorShows`, `BackNeural`, ...); `Remembered` is the same for the history.
  - `Facts` is what each place of the call adds: what is awaited (`Waiting`) and has arrived (`Arrived`), what is
    behind everything else (`Last`), which surfaces it has (`Having`), how far the queue is (`Ranked`), what
    will be there when the call's next command runs (`Showing`), and where a history still counts (`Historic`).
  - Each action keeps `IInv`; to append a command is to ask about the end of the queue, to execute one shifts every index
    by one (`ShowsPop`, `BackPop`, `BeforePop`). One step needs an invariant of its own: without a pipeline no call is in
    progress (`Idle`), or `Evaluate` could start in neither mode.
  The first property follows from `Devices`; the two others from what it says of the head of the queue (`HeadFrame`,
  `FirstFacts`). TLC has checked `IInv` and `Idle` on the instance of the run `frames`.

**Only model-checked.** Liveness under fairness and what `ENABLED` means are beyond the prover: `PresentReturns`, `PendingCompletes`,
`HostNotOrphaned`, `EveryPresentNeural`, `DetachClosesHooks`, `DetachEnds`, `StartIsServed`, `EvaluateReturns`. So are results of the
folds of the community modules for every input, which would be induction over data with an operator as parameter; where a proof needs
such a result, the model counts with a recursive function instead (`GuideSnapshots`). The safety properties of all passing runs
are theorems, with the hypotheses named above.

## 11. The finding

`present_otherQueue`: `docs/superpowers/plans/2026-09-13-v031-d3d12-queue-safety.md:17` says that D3D12 processing stays
passthrough until queue ownership is proven. `noteQueueEvidence` (`dxgi_hooks.cpp:76`) sets `q12` to the
queue of the evidence at hand whenever *anything* is trusted - also when that evidence is a barrier that proves
nothing and the trust belongs to another queue. In the run `q1` presents twice, `q2` executes one list with a barrier from COPY_DEST, and the
pipeline is built on `q2` under the name of `q1`. `OnlyOnProvenQueue` is `Shown` applied to the queue the pipeline
works on instead of the queue its route names.

## 12. Mutants

Every property of every passing run has a mutant in the module it is about: an operator named in a comment
"Mutant:" before the definition it replaces (`OutputReadyBySequence`: completion by sequence number alone;
`EmptyFirst`: an empty slot is taken before the own one; `DeadlineWhenIdle`: a drain without a deadline; `UpdateOnly`: a clean Present
lifts the suspension without a resync...). With the mutant in
place the run finds the property violated. Mutants are no part of any specification.

## 13. Plan

Done: the session, attach and detach, the control block, the Present gate with the queue proof, guide snapshots, the in-process
backend, the three pipelines; the theorems of section 10. Next, in this order:

1. The exclusive use of slots in `NgxNR`, `GuideSnapshots` and `D3D12On12` has a common abstract specification, a ring of leases ordered
   by a fence, which each of the three could be shown to implement.
2. The native D3D12 producer of the external host (`external_host.cpp`), a second form of `Ensure` and `SubmitInputs`.
3. The transactional installation of the runtime (`runtime_importer.cpp:137`) and the controller's launch and maintenance.

Related modules are composed in one instance rather than checked one by one, and runs are kept few.

## 14. Not modelled, and why

Components marked `not_modelled` in `PROJECT.json` have no state that coordination can break:
one thread per surface using the legacy copy ring; detours of other graphics APIs, which behave like those of section 4; scoring
heuristics and floating-point camera math (trackers: what they find is an input of `D3D11Pipeline` and `PresentGate`);
windows, widgets and launching (the controller: what it does to the control block is in section 5); copies of files the user waits for
(runtime importer); text formats and clamping (settings, profiles, diagnostics); a
table of forwarded exports (`nr_forwarder.cpp`); shaders, tests and tools. Calls into vendor
libraries (NGX, Streamline, the optical flow accelerator) are outcomes.

Hazards without a property are listed in `PROJECT.json`, each with the reason.
