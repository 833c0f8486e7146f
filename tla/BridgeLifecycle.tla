--------------------------- MODULE BridgeLifecycle ---------------------------
(***************************************************************************)
(* Attaching the bridge DLL to a game and detaching it again while the     *)
(* game's threads keep running through the hooked functions.               *)
(*                                                                         *)
(*   injector  loads the DLL into the game and starts its worker thread    *)
(*   worker    installs the hooks, waits for a detach, removes the hooks   *)
(*   threads   the game's own: each call of a hooked function is a detour  *)
(*                                                                         *)
(* HookQuiescence::active_ counts the scopes that are alive; it is the set *)
(* of the threads that hold one.  Nested detours of a thread are merged.   *)
(***************************************************************************)
EXTENDS Naturals

CONSTANTS
  Threads,    \* the game's threads
  Injectors,  \* the injector runs; a worker is named after the run that started it
  Faults      \* the calls that may fail

VARIABLES
  refs,        \* how often the DLL is loaded: 0 = not mapped
  started,     \* g_started
  control,     \* whether g_control maps the shared block
  unloading,   \* HookQuiescence::unloading_
  active,      \* HookQuiescence::active_
  hooksReady,  \* MinHook is initialised: the trampolines exist
  hooksOpen,   \* the hooked functions jump to their detours
  swaps,       \* whether pipelines exist
  requestUnload, \* SharedControlBlock::requestUnload
  thread,      \* where each game thread is
  worker,      \* where each bridgeThread is
  samples,     \* stableZeroSamples of each worker
  disabled,    \* hooksDisabled of each worker
  injector     \* where each injector run is

quiescence == <<unloading, active>>
minHook == <<hooksReady, hooksOpen>>
workerVars == <<worker, samples, disabled>>
vars == <<refs, started, control, quiescence, minHook, swaps, requestUnload,
          thread, workerVars, injector>>

\* A detour: entered but not counted, counted, allowed to do custom work
\* (looking up its context, processing, inside the original function,
\* bookkeeping after it), forwarding only (about to call, inside), or no
\* longer counted but not yet back in the game.
Custom == {"custom", "processing", "presenting", "bookkeeping"}
Counted == Custom \cup {"counted", "forward", "forwarding", "leaving"}
ThreadPcs == Counted \cup {"game", "prologue", "epilogue"}

\* The worker's teardown, from the decision to unload to FreeLibrary; "Patched" if
\* MH_Uninitialize failed on the way.
Retired == {"uninit", "close", "closePatched", "free", "freePatched"}
Retiring == Retired \cup {"retire"}
WorkerPcs ==
  Retiring \cup {"none", "open", "install", "running", "unload", "disable",
                 "drain", "keep", "resident", "failed", "exited"}
Gone == {"none", "resident", "exited"}

\* The workers that hold g_started.
Serving ==
  Retiring \cup {"open", "install", "running", "unload", "disable", "drain",
                 "keep"}

InjectorPcs ==
  {"idle", "load", "start", "create", "reported", "gaveUp", "noThread"}

Init ==
  /\ refs = 0 /\ started = FALSE /\ control = FALSE
  /\ unloading = FALSE /\ active = {}
  /\ hooksReady = FALSE /\ hooksOpen = FALSE /\ swaps = FALSE
  /\ requestUnload = FALSE
  /\ thread = [t \in Threads |-> "game"]
  /\ worker = [i \in Injectors |-> "none"]
  /\ samples = [i \in Injectors |-> 0]
  /\ disabled = [i \in Injectors |-> FALSE]
  /\ injector = [i \in Injectors |-> "idle"]

-----------------------------------------------------------------------------
\* A game thread's call of a hooked function.  Code of an unmapped DLL and
\* trampolines that are gone cannot be executed: such a thread is stuck.
At(t, pc) == thread[t] = pc /\ refs > 0
Goto(t, pc) == thread' = [thread EXCEPT ![t] = pc]
DetourFrame ==
  UNCHANGED <<refs, started, control, unloading, requestUnload, workerVars,
              injector>>

Enter(t) ==
  /\ thread[t] = "game" /\ hooksOpen
  /\ Goto(t, "prologue")
  /\ DetourFrame /\ UNCHANGED <<active, minHook, swaps>>

\* The constructor of Scope: count first, ...
Count(t) ==
  /\ At(t, "prologue")
  /\ active' = active \cup {t}
  /\ Goto(t, "counted")
  /\ DetourFrame /\ UNCHANGED <<minHook, swaps>>

\* ... then look.
Check(t) ==
  /\ At(t, "counted")
  /\ Goto(t, IF unloading THEN "forward" ELSE "custom")
  /\ DetourFrame /\ UNCHANGED <<active, minHook, swaps>>

\* process: the context of the swapchain is created on demand, ...
GetContext(t) ==
  /\ At(t, "custom")
  /\ swaps' = TRUE
  /\ Goto(t, "processing")
  /\ DetourFrame /\ UNCHANGED <<active, minHook>>

\* ... the resource trackers' hooks are installed from the first frames, and
\* MH_EnableHook(MH_ALL_HOOKS) enables every hook that exists, ...
EnableTrackers(t) ==
  /\ At(t, "processing") /\ hooksReady
  /\ hooksOpen' = TRUE
  /\ DetourFrame /\ UNCHANGED <<thread, active, hooksReady, swaps>>

\* ... and the original function is called.
CallOriginal(t) ==
  /\ hooksReady
  /\ \/ At(t, "processing") /\ Goto(t, "presenting")
     \/ At(t, "forward") /\ Goto(t, "forwarding")
  /\ DetourFrame /\ UNCHANGED <<active, minHook, swaps>>

Return(t) ==
  /\ \/ At(t, "presenting") /\ Goto(t, "bookkeeping")
     \/ At(t, "forwarding") /\ Goto(t, "leaving")
  /\ DetourFrame /\ UNCHANGED <<active, minHook, swaps>>

\* updatePresentMutationState, endPresentWork: the context is used once more.
Bookkeep(t) ==
  /\ At(t, "bookkeeping")
  /\ swaps' = TRUE
  /\ Goto(t, "leaving")
  /\ DetourFrame /\ UNCHANGED <<active, minHook>>

Leave(t) ==
  /\ At(t, "leaving")
  /\ active' = active \ {t}
  /\ Goto(t, "epilogue")
  /\ DetourFrame /\ UNCHANGED <<minHook, swaps>>

BackInGame(t) ==
  /\ At(t, "epilogue")
  /\ Goto(t, "game")
  /\ DetourFrame /\ UNCHANGED <<active, minHook, swaps>>

Detour(t) ==
  \/ Enter(t) \/ Count(t) \/ Check(t) \/ GetContext(t) \/ EnableTrackers(t)
  \/ CallOriginal(t) \/ Return(t) \/ Bookkeep(t) \/ Leave(t) \/ BackInGame(t)

-----------------------------------------------------------------------------
\* The worker thread.
WorkerAt(w, pc) == worker[w] = pc /\ refs > 0
WorkerGoto(w, pc) == worker' = [worker EXCEPT ![w] = pc]
WorkerFrame == UNCHANGED <<requestUnload, thread, injector>>

OpenControl(w) ==
  /\ WorkerAt(w, "open")
  /\ \/ control' = TRUE /\ WorkerGoto(w, "install") /\ UNCHANGED started
     \/ "control" \in Faults /\ control' = FALSE /\ started' = FALSE
        /\ WorkerGoto(w, "failed")
  /\ WorkerFrame
  /\ UNCHANGED <<refs, quiescence, minHook, swaps, samples, disabled>>

InstallHooks(w) ==
  /\ WorkerAt(w, "install") /\ ~hooksReady
  /\ unloading' = FALSE
  /\ hooksReady' = TRUE /\ hooksOpen' = TRUE
  /\ WorkerGoto(w, "running")
  /\ WorkerFrame
  /\ UNCHANGED <<refs, started, control, active, swaps, samples, disabled>>

\* Installing fails: MinHook is initialised already, or there is no device to
\* take the functions from, or a hook cannot be created or enabled.  The last
\* two leave MinHook initialised, and hooks enabled so far stay enabled.
HooksFail ==
  \/ hooksReady /\ UNCHANGED minHook
  \/ ~hooksReady /\ "device" \in Faults /\ UNCHANGED minHook
  \/ ~hooksReady /\ "create" \in Faults
     /\ hooksReady' = TRUE /\ UNCHANGED hooksOpen
  \/ ~hooksReady /\ "enable" \in Faults
     /\ hooksReady' = TRUE /\ hooksOpen' \in BOOLEAN

\* Mutant: a worker whose hooks cannot be installed keeps g_started.
InstallFailsStarted(w) ==
  /\ WorkerAt(w, "install")
  /\ unloading' = FALSE
  /\ HooksFail
  /\ control' = FALSE /\ UNCHANGED started
  /\ WorkerGoto(w, "failed")
  /\ WorkerFrame
  /\ UNCHANGED <<refs, active, swaps, samples, disabled>>

InstallFails(w) ==
  /\ WorkerAt(w, "install")
  /\ unloading' = FALSE
  /\ HooksFail
  /\ control' = FALSE /\ started' = FALSE
  /\ WorkerGoto(w, "failed")
  /\ WorkerFrame
  /\ UNCHANGED <<refs, active, swaps, samples, disabled>>

\* The controller asks for it, or the game's window is gone and its renderer
\* silent for shouldAutoDetach's time.
Detach(w) ==
  /\ WorkerAt(w, "running")
  /\ requestUnload \/ "autoDetach" \in Faults
  /\ WorkerGoto(w, "unload")
  /\ WorkerFrame
  /\ UNCHANGED <<refs, started, control, quiescence, minHook, swaps, samples,
                 disabled>>

BeginUnload(w) ==
  /\ WorkerAt(w, "unload")
  /\ unloading' = TRUE
  /\ WorkerGoto(w, "disable")
  /\ WorkerFrame
  /\ UNCHANGED <<refs, started, control, active, minHook, swaps, samples,
                 disabled>>

DisableHooks(w) ==
  /\ WorkerAt(w, "disable")
  /\ \/ hooksOpen' = FALSE /\ disabled' = [disabled EXCEPT ![w] = TRUE]
     \/ "disable" \in Faults /\ UNCHANGED <<hooksOpen, disabled>>
  /\ samples' = [samples EXCEPT ![w] = 0]
  /\ WorkerGoto(w, "drain")
  /\ WorkerFrame
  /\ UNCHANGED <<refs, started, control, quiescence, hooksReady, swaps>>

\* Mutant: the hooks alone decide.
DecideByHooks(w, quiesced) ==
  WorkerGoto(w, IF disabled[w] THEN "retire" ELSE "keep")

\* detachDecision
Decide(w, quiesced) ==
  WorkerGoto(w, IF disabled[w] /\ quiesced THEN "retire" ELSE "keep")

\* Mutant: one sample too many.
SampleOnceMore(w) ==
  /\ WorkerAt(w, "drain")
  /\ \/ active # {} /\ samples' = [samples EXCEPT ![w] = 0] /\ UNCHANGED worker
     \/ active = {} /\ samples[w] < 3
        /\ samples' = [samples EXCEPT ![w] = @ + 1] /\ UNCHANGED worker
     \/ active = {} /\ samples[w] = 3 /\ Decide(w, TRUE) /\ UNCHANGED samples
  /\ WorkerFrame
  /\ UNCHANGED <<refs, started, control, quiescence, minHook, swaps, disabled>>

\* waitForIdle: three samples of zero in a row, ...
Sample(w) ==
  /\ WorkerAt(w, "drain")
  /\ \/ active # {} /\ samples' = [samples EXCEPT ![w] = 0] /\ UNCHANGED worker
     \/ active = {} /\ samples[w] < 2
        /\ samples' = [samples EXCEPT ![w] = @ + 1] /\ UNCHANGED worker
     \/ active = {} /\ samples[w] = 2 /\ Decide(w, TRUE) /\ UNCHANGED samples
  /\ WorkerFrame
  /\ UNCHANGED <<refs, started, control, quiescence, minHook, swaps, disabled>>

\* Mutant: the wait has no deadline.
DeadlineWhenIdle(w) ==
  /\ WorkerAt(w, "drain") /\ active = {}
  /\ Decide(w, TRUE)
  /\ WorkerFrame
  /\ UNCHANGED <<refs, started, control, quiescence, minHook, swaps, samples,
                 disabled>>

\* ... or one at the deadline.
Deadline(w) ==
  /\ WorkerAt(w, "drain")
  /\ Decide(w, active = {})
  /\ WorkerFrame
  /\ UNCHANGED <<refs, started, control, quiescence, minHook, swaps, samples,
                 disabled>>

Retire(w) ==
  /\ WorkerAt(w, "retire")
  /\ swaps' = FALSE
  /\ WorkerGoto(w, "uninit")
  /\ WorkerFrame
  /\ UNCHANGED <<refs, started, control, quiescence, minHook, samples, disabled>>

\* Mutant: only what the worker disabled is expected to be disabled.
UninitializeDisabled(w) ==
  /\ WorkerAt(w, "uninit")
  /\ UNCHANGED hooksOpen /\ hooksReady' = FALSE
  /\ WorkerGoto(w, "close")
  /\ WorkerFrame
  /\ UNCHANGED <<refs, started, control, quiescence, swaps, samples, disabled>>

\* MH_Uninitialize disables what is enabled and frees the trampolines.  Its
\* result is ignored: when a hook cannot be disabled MinHook stays initialised.
Uninitialize(w) ==
  /\ WorkerAt(w, "uninit")
  /\ \/ hooksOpen' = FALSE /\ hooksReady' = FALSE /\ WorkerGoto(w, "close")
     \/ "uninitialize" \in Faults /\ UNCHANGED minHook
        /\ WorkerGoto(w, "closePatched")
  /\ WorkerFrame
  /\ UNCHANGED <<refs, started, control, quiescence, swaps, samples, disabled>>

CloseControl(w) ==
  /\ \/ WorkerAt(w, "close") /\ WorkerGoto(w, "free")
     \/ WorkerAt(w, "closePatched") /\ WorkerGoto(w, "freePatched")
     \/ WorkerAt(w, "keep") /\ WorkerGoto(w, "resident")
  /\ control' = FALSE
  /\ WorkerFrame
  /\ UNCHANGED <<refs, started, quiescence, minHook, swaps, samples, disabled>>

\* FreeLibraryAndExitThread: the last reference unmaps the DLL and its statics.
Free(w) ==
  /\ \E pc \in {"free", "freePatched", "failed"} : WorkerAt(w, pc)
  /\ refs' = refs - 1
  /\ IF refs > 1
     THEN UNCHANGED <<started, control, unloading, active, hooksReady, swaps>>
     ELSE /\ started' = FALSE /\ control' = FALSE /\ unloading' = FALSE
          /\ active' = {} /\ hooksReady' = FALSE /\ swaps' = FALSE
  /\ WorkerGoto(w, "exited")
  /\ WorkerFrame
  /\ UNCHANGED <<hooksOpen, samples, disabled>>

Work(w) ==
  \/ OpenControl(w) \/ InstallHooks(w) \/ InstallFails(w) \/ Detach(w)
  \/ BeginUnload(w) \/ DisableHooks(w) \/ Sample(w) \/ Deadline(w)
  \/ Retire(w) \/ Uninitialize(w) \/ CloseControl(w) \/ Free(w)

-----------------------------------------------------------------------------
\* An injector run, and the controller's unload flag.
InjectorFrame ==
  UNCHANGED <<control, quiescence, minHook, swaps, requestUnload, thread,
              samples, disabled>>
InjectorGoto(i, pc) == injector' = [injector EXCEPT ![i] = pc]

\* remoteModuleBaseFromPath: a DLL that is there already is not loaded again.
Look(i) ==
  /\ injector[i] = "idle"
  /\ InjectorGoto(i, IF refs > 0 THEN "start" ELSE "load")
  /\ InjectorFrame /\ UNCHANGED <<refs, started, worker>>

\* A game whose threads, workers or patched functions still run into a DLL that
\* is no longer mapped does not live to see another one loaded.
GameIntact ==
  /\ ~hooksOpen
  /\ \A t \in Threads : thread[t] = "game"
  /\ \A i \in Injectors : worker[i] \in Gone /\ injector[i] # "create"

\* The remote LoadLibraryW.  The injector does not wait for it
\* for ever: a run that gave up leaves the DLL loaded and its worker unstarted.
LoadDll(i) ==
  /\ injector[i] = "load"
  /\ refs > 0 \/ GameIntact
  /\ refs' = refs + 1
  /\ \/ InjectorGoto(i, "start")
     \/ "interrupted" \in Faults /\ InjectorGoto(i, "gaveUp")
  /\ InjectorFrame /\ UNCHANGED <<started, worker>>

\* UniversalDLSS5_BridgeStart: the first caller creates the worker.
BridgeStart(i) ==
  /\ injector[i] = "start" /\ refs > 0
  /\ IF started
     THEN InjectorGoto(i, "reported") /\ UNCHANGED started
     ELSE InjectorGoto(i, "create") /\ started' = TRUE
  /\ InjectorFrame /\ UNCHANGED <<refs, worker>>

CreateWorker(i) ==
  /\ injector[i] = "create" /\ refs > 0
  /\ \/ /\ WorkerGoto(i, "open") /\ InjectorGoto(i, "reported")
        /\ UNCHANGED started
     \/ /\ "thread" \in Faults
        /\ started' = FALSE /\ InjectorGoto(i, "noThread") /\ UNCHANGED worker
  /\ InjectorFrame /\ UNCHANGED refs

Inject(i) == Look(i) \/ LoadDll(i) \/ BridgeStart(i) \/ CreateWorker(i)

\* Attach clears the flag, Detach sets it.
RequestUnload(value) ==
  /\ requestUnload' = value /\ requestUnload # value
  /\ UNCHANGED <<refs, started, control, quiescence, minHook, swaps, thread,
                 workerVars, injector>>

-----------------------------------------------------------------------------
Next ==
  \/ \E t \in Threads : Detour(t)
  \/ \E i \in Injectors : Work(i) \/ Inject(i)
  \/ \E value \in BOOLEAN : RequestUnload(value)

Spec == Init /\ [][Next]_vars

\* The workers run, and deadlines pass.  The game's threads may stay where
\* they are: a call of the original function need not return.
FairSpec ==
  /\ Spec
  /\ \A w \in Injectors : WF_vars(Work(w) /\ worker[w] # "drain")
                          /\ WF_vars(Deadline(w))
                          /\ WF_vars(Inject(w))

-----------------------------------------------------------------------------
TypeOK ==
  /\ refs \in Nat
  /\ started \in BOOLEAN /\ control \in BOOLEAN /\ unloading \in BOOLEAN
  /\ active \in SUBSET Threads
  /\ hooksReady \in BOOLEAN /\ hooksOpen \in BOOLEAN /\ swaps \in BOOLEAN
  /\ requestUnload \in BOOLEAN
  /\ thread \in [Threads -> ThreadPcs]
  /\ worker \in [Injectors -> WorkerPcs]
  /\ samples \in [Injectors -> 0 .. 2]
  /\ disabled \in [Injectors -> BOOLEAN]
  /\ injector \in [Injectors -> InjectorPcs]

\* Teardown has the pipelines for itself: from the moment the worker retires
\* them no thread is anywhere in custom work, and none comes back to life
\* (the promise of HookQuiescence, against every interleaving of the detours
\* that were entered before, during and after the decision).
TeardownExclusive ==
  \A w \in Injectors : worker[w] \in Retiring =>
    /\ \A t \in Threads : thread[t] \notin Custom
    /\ worker[w] \in Retired => ~swaps

\* A detach that unmaps the DLL leaves no patched function that jumps into it,
\* whatever tracker hooks the game's threads enabled meanwhile, whether or not
\* MH_DisableHook worked, and however many workers came and went.  The one that does
\* is the worker whose MH_Uninitialize failed, whose result removeHooks ignores
\* (dxgi_hooks.cpp:328): it frees the DLL from "freePatched".
DetachClosesHooks ==
  [][\A w \in Injectors :
       worker[w] = "free" /\ worker'[w] = "exited" /\ refs' = 0 => ~hooksOpen]_vars

\* A detach ends, unloaded or resident, even if no thread ever returns from
\* the function it called (waitForIdle's deadline).  Only a worker whose start
\* failed can unmap the DLL under it: bridgeThread clears g_started before it
\* gives its reference back, so another start may come in between.
DetachEnds ==
  \A w \in Injectors :
    worker[w] = "unload" ~> worker[w] \in {"resident", "exited"} \/ refs = 0

\* A worker is in its loop, or has failed and says so; or the thread could not be
\* created, or the DLL is gone.
Served ==
  \/ \E w \in Injectors : worker[w] \in {"running", "failed"}
  \/ \E i \in Injectors : injector[i] = "noThread"
  \/ refs = 0

\* g_started has outlived the worker that set it, which detached to resident, or
\* unloaded a DLL that two injector runs had loaded.
LeftBehind ==
  /\ started
  /\ \A i \in Injectors : worker[i] \notin Serving /\ injector[i] # "create"
  /\ \E w \in Injectors :
       worker[w] = "resident" \/ (worker[w] = "exited" /\ disabled[w])

\* A call of BridgeStart leads to a worker that serves, also when an earlier run
\* gave up and left the DLL loaded without one, and after a worker that failed;
\* only a detach that keeps the DLL loaded leaves g_started behind.
StartIsRepaired ==
  \A i \in Injectors : injector[i] = "start" ~> Served \/ LeftBehind

\* What UniversalDLSS5_BridgeStart and the injector say of every call ("Idempotent
\* by design. This also repairs the case where a bridge module is already
\* present", "injected and bridge started"): somebody serves the game.
StartIsServed == \A i \in Injectors : injector[i] = "start" ~> Served

=============================================================================
