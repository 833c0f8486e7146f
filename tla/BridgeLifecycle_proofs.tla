----------------------- MODULE BridgeLifecycle_proofs -----------------------
(***************************************************************************)
(* Proofs about BridgeLifecycle, for every set of game threads and of      *)
(* injector runs and whatever may fail.                                    *)
(*                                                                         *)
(* TeardownExclusive is not inductive: it needs that a thread in custom    *)
(* work is counted, that the flag stays up while a worker tears down, and  *)
(* for that, that nobody starts a second worker meanwhile.                 *)
(***************************************************************************)
EXTENDS BridgeLifecycle, TLAPS

\* A thread that executes counted code of the mapped DLL holds a scope.
ScopesCounted ==
  refs > 0 => \A t \in Threads : thread[t] \in Counted => t \in active

\* g_started is held by one worker, or by one BridgeStart about to create it.
OneWorker ==
  refs > 0 =>
    /\ \A v, w \in Injectors :
         worker[v] \in Serving /\ worker[w] \in Serving => v = w
    /\ \A i, j \in Injectors :
         injector[i] = "create" /\ injector[j] = "create" => i = j
    /\ \A w \in Injectors : worker[w] \in Serving =>
         started /\ \A i \in Injectors : injector[i] # "create"
    /\ \A i \in Injectors : injector[i] = "create" => started

\* The flag is up from BeginUnload to the end of the worker's teardown.
FlagStaysUp ==
  refs > 0 => \A w \in Injectors :
    worker[w] \in Retiring \cup {"disable", "drain"} => unloading

IInv == TypeOK /\ ScopesCounted /\ OneWorker /\ FlagStaysUp /\ TeardownExclusive

-----------------------------------------------------------------------------
\* The sets of program counters and the tuples of variables are only names.
USE DEF Counted, Custom, ThreadPcs, WorkerPcs, Retiring, Retired, Gone,
        InjectorPcs, Serving, quiescence, minHook, workerVars

\* A thread enters a detour (the patched entry of a hooked function).
LEMMA EnterKeeps ==
  ASSUME IInv, NEW t \in Threads, Enter(t)
  PROVE  IInv'
<1>1. TypeOK'
  BY DEF IInv, TypeOK, Enter, At, Goto, DetourFrame
<1>2. ScopesCounted'
  BY DEF IInv, TypeOK, ScopesCounted, Enter, At, Goto, DetourFrame
<1>3. OneWorker'
  BY DEF IInv, TypeOK, OneWorker, Enter, At, Goto, DetourFrame
<1>4. FlagStaysUp'
  BY DEF IInv, TypeOK, OneWorker, FlagStaysUp, Enter, At, Goto, DetourFrame
<1>5. TeardownExclusive'
  BY DEF IInv, TypeOK, ScopesCounted, FlagStaysUp, TeardownExclusive, Enter,
         At, Goto, DetourFrame
<1> QED BY <1>1, <1>2, <1>3, <1>4, <1>5 DEF IInv

\* A thread is counted (HookQuiescence::Scope).
LEMMA CountKeeps ==
  ASSUME IInv, NEW t \in Threads, Count(t)
  PROVE  IInv'
<1>1. TypeOK'
  BY DEF IInv, TypeOK, Count, At, Goto, DetourFrame
<1>2. ScopesCounted'
  BY DEF IInv, TypeOK, ScopesCounted, Count, At, Goto, DetourFrame
<1>3. OneWorker'
  BY DEF IInv, TypeOK, OneWorker, Count, At, Goto, DetourFrame
<1>4. FlagStaysUp'
  BY DEF IInv, TypeOK, OneWorker, FlagStaysUp, Count, At, Goto, DetourFrame
<1>5. TeardownExclusive'
  BY DEF IInv, TypeOK, ScopesCounted, FlagStaysUp, TeardownExclusive, Count,
         At, Goto, DetourFrame
<1> QED BY <1>1, <1>2, <1>3, <1>4, <1>5 DEF IInv

\* A counted thread looks at the unloading flag.
LEMMA CheckKeeps ==
  ASSUME IInv, NEW t \in Threads, Check(t)
  PROVE  IInv'
<1>1. TypeOK'
  BY DEF IInv, TypeOK, Check, At, Goto, DetourFrame
<1>2. ScopesCounted'
  BY DEF IInv, TypeOK, ScopesCounted, Check, At, Goto, DetourFrame
<1>3. OneWorker'
  BY DEF IInv, TypeOK, OneWorker, Check, At, Goto, DetourFrame
<1>4. FlagStaysUp'
  BY DEF IInv, TypeOK, OneWorker, FlagStaysUp, Check, At, Goto, DetourFrame
<1>5. TeardownExclusive'
  BY DEF IInv, TypeOK, ScopesCounted, FlagStaysUp, TeardownExclusive, Check,
         At, Goto, DetourFrame
<1> QED BY <1>1, <1>2, <1>3, <1>4, <1>5 DEF IInv

\* A thread finds or creates its swapchain's context (getCtx).
LEMMA GetContextKeeps ==
  ASSUME IInv, NEW t \in Threads, GetContext(t)
  PROVE  IInv'
<1>1. TypeOK'
  BY DEF IInv, TypeOK, GetContext, At, Goto, DetourFrame
<1>2. ScopesCounted'
  BY DEF IInv, TypeOK, ScopesCounted, GetContext, At, Goto, DetourFrame
<1>3. OneWorker'
  BY DEF IInv, TypeOK, OneWorker, GetContext, At, Goto, DetourFrame
<1>4. FlagStaysUp'
  BY DEF IInv, TypeOK, OneWorker, FlagStaysUp, GetContext, At, Goto, DetourFrame
<1>5. TeardownExclusive'
  BY DEF IInv, TypeOK, ScopesCounted, FlagStaysUp, TeardownExclusive,
         GetContext, At, Goto, DetourFrame
<1> QED BY <1>1, <1>2, <1>3, <1>4, <1>5 DEF IInv

\* A thread enables every hook (process).
LEMMA EnableTrackersKeeps ==
  ASSUME IInv, NEW t \in Threads, EnableTrackers(t)
  PROVE  IInv'
<1>1. TypeOK'
  BY DEF IInv, TypeOK, EnableTrackers, At, Goto, DetourFrame
<1>2. ScopesCounted'
  BY DEF IInv, TypeOK, ScopesCounted, EnableTrackers, At, Goto, DetourFrame
<1>3. OneWorker'
  BY DEF IInv, TypeOK, OneWorker, EnableTrackers, At, Goto, DetourFrame
<1>4. FlagStaysUp'
  BY DEF IInv, TypeOK, OneWorker, FlagStaysUp, EnableTrackers, At, Goto,
         DetourFrame
<1>5. TeardownExclusive'
  BY DEF IInv, TypeOK, ScopesCounted, FlagStaysUp, TeardownExclusive,
         EnableTrackers, At, Goto, DetourFrame
<1> QED BY <1>1, <1>2, <1>3, <1>4, <1>5 DEF IInv

\* A thread calls the original function.
LEMMA CallOriginalKeeps ==
  ASSUME IInv, NEW t \in Threads, CallOriginal(t)
  PROVE  IInv'
<1>1. TypeOK'
  BY DEF IInv, TypeOK, CallOriginal, At, Goto, DetourFrame
<1>2. ScopesCounted'
  BY DEF IInv, TypeOK, ScopesCounted, CallOriginal, At, Goto, DetourFrame
<1>3. OneWorker'
  BY DEF IInv, TypeOK, OneWorker, CallOriginal, At, Goto, DetourFrame
<1>4. FlagStaysUp'
  BY DEF IInv, TypeOK, OneWorker, FlagStaysUp, CallOriginal, At, Goto,
         DetourFrame
<1>5. TeardownExclusive'
  BY DEF IInv, TypeOK, ScopesCounted, FlagStaysUp, TeardownExclusive,
         CallOriginal, At, Goto, DetourFrame
<1> QED BY <1>1, <1>2, <1>3, <1>4, <1>5 DEF IInv

\* The original function returns.
LEMMA ReturnKeeps ==
  ASSUME IInv, NEW t \in Threads, Return(t)
  PROVE  IInv'
<1>1. TypeOK'
  BY DEF IInv, TypeOK, Return, At, Goto, DetourFrame
<1>2. ScopesCounted'
  BY DEF IInv, TypeOK, ScopesCounted, Return, At, Goto, DetourFrame
<1>3. OneWorker'
  BY DEF IInv, TypeOK, OneWorker, Return, At, Goto, DetourFrame
<1>4. FlagStaysUp'
  BY DEF IInv, TypeOK, OneWorker, FlagStaysUp, Return, At, Goto, DetourFrame
<1>5. TeardownExclusive'
  BY DEF IInv, TypeOK, ScopesCounted, FlagStaysUp, TeardownExclusive, Return,
         At, Goto, DetourFrame
<1> QED BY <1>1, <1>2, <1>3, <1>4, <1>5 DEF IInv

\* A thread uses its context after the call (updatePresentMutationState).
LEMMA BookkeepKeeps ==
  ASSUME IInv, NEW t \in Threads, Bookkeep(t)
  PROVE  IInv'
<1>1. TypeOK'
  BY DEF IInv, TypeOK, Bookkeep, At, Goto, DetourFrame
<1>2. ScopesCounted'
  BY DEF IInv, TypeOK, ScopesCounted, Bookkeep, At, Goto, DetourFrame
<1>3. OneWorker'
  BY DEF IInv, TypeOK, OneWorker, Bookkeep, At, Goto, DetourFrame
<1>4. FlagStaysUp'
  BY DEF IInv, TypeOK, OneWorker, FlagStaysUp, Bookkeep, At, Goto, DetourFrame
<1>5. TeardownExclusive'
  BY DEF IInv, TypeOK, ScopesCounted, FlagStaysUp, TeardownExclusive,
         Bookkeep, At, Goto, DetourFrame
<1> QED BY <1>1, <1>2, <1>3, <1>4, <1>5 DEF IInv

\* A thread's scope ends.
LEMMA LeaveKeeps ==
  ASSUME IInv, NEW t \in Threads, Leave(t)
  PROVE  IInv'
<1>1. TypeOK'
  BY DEF IInv, TypeOK, Leave, At, Goto, DetourFrame
<1>2. ScopesCounted'
  BY DEF IInv, TypeOK, ScopesCounted, Leave, At, Goto, DetourFrame
<1>3. OneWorker'
  BY DEF IInv, TypeOK, OneWorker, Leave, At, Goto, DetourFrame
<1>4. FlagStaysUp'
  BY DEF IInv, TypeOK, OneWorker, FlagStaysUp, Leave, At, Goto, DetourFrame
<1>5. TeardownExclusive'
  BY DEF IInv, TypeOK, ScopesCounted, FlagStaysUp, TeardownExclusive, Leave,
         At, Goto, DetourFrame
<1> QED BY <1>1, <1>2, <1>3, <1>4, <1>5 DEF IInv

\* A thread leaves the detour.
LEMMA BackInGameKeeps ==
  ASSUME IInv, NEW t \in Threads, BackInGame(t)
  PROVE  IInv'
<1>1. TypeOK'
  BY DEF IInv, TypeOK, BackInGame, At, Goto, DetourFrame
<1>2. ScopesCounted'
  BY DEF IInv, TypeOK, ScopesCounted, BackInGame, At, Goto, DetourFrame
<1>3. OneWorker'
  BY DEF IInv, TypeOK, OneWorker, BackInGame, At, Goto, DetourFrame
<1>4. FlagStaysUp'
  BY DEF IInv, TypeOK, OneWorker, FlagStaysUp, BackInGame, At, Goto, DetourFrame
<1>5. TeardownExclusive'
  BY DEF IInv, TypeOK, ScopesCounted, FlagStaysUp, TeardownExclusive,
         BackInGame, At, Goto, DetourFrame
<1> QED BY <1>1, <1>2, <1>3, <1>4, <1>5 DEF IInv

\* The worker opens the shared block.
LEMMA OpenControlKeeps ==
  ASSUME IInv, NEW w \in Injectors, OpenControl(w)
  PROVE  IInv'
<1>1. TypeOK'
  BY DEF IInv, TypeOK, OpenControl, WorkerAt, WorkerGoto, WorkerFrame
<1>2. ScopesCounted'
  BY DEF IInv, TypeOK, ScopesCounted, OpenControl, WorkerAt, WorkerGoto,
         WorkerFrame
<1>3. OneWorker'
  BY DEF IInv, TypeOK, OneWorker, OpenControl, WorkerAt, WorkerGoto, WorkerFrame
<1>4. FlagStaysUp'
  BY DEF IInv, TypeOK, OneWorker, FlagStaysUp, OpenControl, WorkerAt,
         WorkerGoto, WorkerFrame
<1>5. TeardownExclusive'
  BY DEF IInv, TypeOK, ScopesCounted, FlagStaysUp, TeardownExclusive,
         OpenControl, WorkerAt, WorkerGoto, WorkerFrame
<1> QED BY <1>1, <1>2, <1>3, <1>4, <1>5 DEF IInv

\* The worker installs the hooks.
LEMMA InstallHooksKeeps ==
  ASSUME IInv, NEW w \in Injectors, InstallHooks(w)
  PROVE  IInv'
<1>1. TypeOK'
  BY DEF IInv, TypeOK, InstallHooks, WorkerAt, WorkerGoto, WorkerFrame
<1>2. ScopesCounted'
  BY DEF IInv, TypeOK, ScopesCounted, InstallHooks, WorkerAt, WorkerGoto,
         WorkerFrame
<1>3. OneWorker'
  BY DEF IInv, TypeOK, OneWorker, InstallHooks, WorkerAt, WorkerGoto,
         WorkerFrame
<1>4. FlagStaysUp'
  BY DEF IInv, TypeOK, OneWorker, FlagStaysUp, InstallHooks, WorkerAt,
         WorkerGoto, WorkerFrame
<1>5. TeardownExclusive'
  BY DEF IInv, TypeOK, ScopesCounted, FlagStaysUp, TeardownExclusive,
         InstallHooks, WorkerAt, WorkerGoto, WorkerFrame
<1> QED BY <1>1, <1>2, <1>3, <1>4, <1>5 DEF IInv

\* Installing the hooks fails.
LEMMA InstallFailsKeeps ==
  ASSUME IInv, NEW w \in Injectors, InstallFails(w)
  PROVE  IInv'
<1>1. TypeOK'
  BY DEF IInv, TypeOK, InstallFails, HooksFail, WorkerAt,
         WorkerGoto, WorkerFrame
<1>2. ScopesCounted'
  BY DEF IInv, TypeOK, ScopesCounted, InstallFails, HooksFail, WorkerAt, WorkerGoto,
         WorkerFrame
<1>3. OneWorker'
  BY DEF IInv, TypeOK, OneWorker, InstallFails, HooksFail, WorkerAt, WorkerGoto,
         WorkerFrame
<1>4. FlagStaysUp'
  BY DEF IInv, TypeOK, OneWorker, FlagStaysUp, InstallFails, HooksFail, WorkerAt,
         WorkerGoto, WorkerFrame
<1>5. TeardownExclusive'
  BY DEF IInv, TypeOK, ScopesCounted, FlagStaysUp, TeardownExclusive,
         InstallFails, HooksFail, WorkerAt,
         WorkerGoto, WorkerFrame
<1> QED BY <1>1, <1>2, <1>3, <1>4, <1>5 DEF IInv

\* The worker leaves its loop.
LEMMA DetachKeeps ==
  ASSUME IInv, NEW w \in Injectors, Detach(w)
  PROVE  IInv'
<1>1. TypeOK'
  BY DEF IInv, TypeOK, Detach, WorkerAt, WorkerGoto, WorkerFrame
<1>2. ScopesCounted'
  BY DEF IInv, TypeOK, ScopesCounted, Detach, WorkerAt, WorkerGoto, WorkerFrame
<1>3. OneWorker'
  BY DEF IInv, TypeOK, OneWorker, Detach, WorkerAt, WorkerGoto, WorkerFrame
<1>4. FlagStaysUp'
  BY DEF IInv, TypeOK, OneWorker, FlagStaysUp, Detach, WorkerAt, WorkerGoto,
         WorkerFrame
<1>5. TeardownExclusive'
  BY DEF IInv, TypeOK, ScopesCounted, FlagStaysUp, TeardownExclusive, Detach,
         WorkerAt, WorkerGoto, WorkerFrame
<1> QED BY <1>1, <1>2, <1>3, <1>4, <1>5 DEF IInv

\* The worker raises the flag.
LEMMA BeginUnloadKeeps ==
  ASSUME IInv, NEW w \in Injectors, BeginUnload(w)
  PROVE  IInv'
<1>1. TypeOK'
  BY DEF IInv, TypeOK, BeginUnload, WorkerAt, WorkerGoto, WorkerFrame
<1>2. ScopesCounted'
  BY DEF IInv, TypeOK, ScopesCounted, BeginUnload, WorkerAt, WorkerGoto,
         WorkerFrame
<1>3. OneWorker'
  BY DEF IInv, TypeOK, OneWorker, BeginUnload, WorkerAt, WorkerGoto, WorkerFrame
<1>4. FlagStaysUp'
  BY DEF IInv, TypeOK, OneWorker, FlagStaysUp, BeginUnload, WorkerAt,
         WorkerGoto, WorkerFrame
<1>5. TeardownExclusive'
  BY DEF IInv, TypeOK, ScopesCounted, FlagStaysUp, TeardownExclusive,
         BeginUnload, WorkerAt, WorkerGoto, WorkerFrame
<1> QED BY <1>1, <1>2, <1>3, <1>4, <1>5 DEF IInv

\* The worker closes the entries.
LEMMA DisableHooksKeeps ==
  ASSUME IInv, NEW w \in Injectors, DisableHooks(w)
  PROVE  IInv'
<1>1. TypeOK'
  <2>1. samples' \in [Injectors -> 0 .. 2]
    <3>1. 0 \in 0 .. 2 /\ samples \in [Injectors -> 0 .. 2]
      BY DEF IInv, TypeOK
    <3>2. samples' = [samples EXCEPT ![w] = 0]
      BY DEF DisableHooks
    <3> QED BY <3>1, <3>2
  <2>2. disabled' \in [Injectors -> BOOLEAN]
    <3>1. CASE disabled' = [disabled EXCEPT ![w] = TRUE]
      BY <3>1 DEF IInv, TypeOK
    <3>2. CASE UNCHANGED disabled
      BY <3>2 DEF IInv, TypeOK
    <3> QED BY <3>1, <3>2 DEF DisableHooks
  <2>3. worker' \in [Injectors -> WorkerPcs] /\ hooksOpen' \in BOOLEAN
    BY DEF IInv, TypeOK, DisableHooks, WorkerGoto, WorkerPcs
  <2> QED
    BY <2>1, <2>2, <2>3 DEF IInv, TypeOK, DisableHooks, WorkerFrame, quiescence
<1>2. ScopesCounted'
  BY DEF IInv, TypeOK, ScopesCounted, DisableHooks, WorkerAt, WorkerGoto,
         WorkerFrame
<1>3. OneWorker'
  BY DEF IInv, TypeOK, OneWorker, DisableHooks, WorkerAt, WorkerGoto,
         WorkerFrame
<1>4. FlagStaysUp'
  BY DEF IInv, TypeOK, OneWorker, FlagStaysUp, DisableHooks, WorkerAt,
         WorkerGoto, WorkerFrame
<1>5. TeardownExclusive'
  BY DEF IInv, TypeOK, ScopesCounted, FlagStaysUp, TeardownExclusive,
         DisableHooks, WorkerAt, WorkerGoto, WorkerFrame
<1> QED BY <1>1, <1>2, <1>3, <1>4, <1>5 DEF IInv

\* The worker samples the count (waitForIdle).
LEMMA SampleKeeps ==
  ASSUME IInv, NEW w \in Injectors, Sample(w)
  PROVE  IInv'
<1>1. TypeOK'
  BY DEF IInv, TypeOK, Sample, WorkerAt, WorkerGoto, Decide, WorkerFrame
<1>2. ScopesCounted'
  BY DEF IInv, TypeOK, ScopesCounted, Sample, WorkerAt, WorkerGoto, Decide,
         WorkerFrame
<1>3. OneWorker'
  BY DEF IInv, TypeOK, OneWorker, Sample, WorkerAt, WorkerGoto, Decide,
         WorkerFrame
<1>4. FlagStaysUp'
  BY DEF IInv, TypeOK, OneWorker, FlagStaysUp, Sample, WorkerAt, WorkerGoto,
         Decide, WorkerFrame
<1>5. TeardownExclusive'
  BY DEF IInv, TypeOK, ScopesCounted, FlagStaysUp, TeardownExclusive, Sample,
         WorkerAt, WorkerGoto, Decide, WorkerFrame
<1> QED BY <1>1, <1>2, <1>3, <1>4, <1>5 DEF IInv

\* The wait for the count ends.
LEMMA DeadlineKeeps ==
  ASSUME IInv, NEW w \in Injectors, Deadline(w)
  PROVE  IInv'
<1>1. TypeOK'
  BY DEF IInv, TypeOK, Deadline, WorkerAt, WorkerGoto, Decide, WorkerFrame
<1>2. ScopesCounted'
  BY DEF IInv, TypeOK, ScopesCounted, Deadline, WorkerAt, WorkerGoto, Decide,
         WorkerFrame
<1>3. OneWorker'
  BY DEF IInv, TypeOK, OneWorker, Deadline, WorkerAt, WorkerGoto, Decide,
         WorkerFrame
<1>4. FlagStaysUp'
  BY DEF IInv, TypeOK, OneWorker, FlagStaysUp, Deadline, WorkerAt, WorkerGoto,
         Decide, WorkerFrame
<1>5. TeardownExclusive'
  BY DEF IInv, TypeOK, ScopesCounted, FlagStaysUp, TeardownExclusive,
         Deadline, WorkerAt, WorkerGoto, Decide, WorkerFrame
<1> QED BY <1>1, <1>2, <1>3, <1>4, <1>5 DEF IInv

\* The worker destroys the pipelines.
LEMMA RetireKeeps ==
  ASSUME IInv, NEW w \in Injectors, Retire(w)
  PROVE  IInv'
<1>1. TypeOK'
  BY DEF IInv, TypeOK, Retire, WorkerAt, WorkerGoto, WorkerFrame
<1>2. ScopesCounted'
  BY DEF IInv, TypeOK, ScopesCounted, Retire, WorkerAt, WorkerGoto, WorkerFrame
<1>3. OneWorker'
  BY DEF IInv, TypeOK, OneWorker, Retire, WorkerAt, WorkerGoto, WorkerFrame
<1>4. FlagStaysUp'
  BY DEF IInv, TypeOK, OneWorker, FlagStaysUp, Retire, WorkerAt, WorkerGoto,
         WorkerFrame
<1>5. TeardownExclusive'
  BY DEF IInv, TypeOK, ScopesCounted, FlagStaysUp, TeardownExclusive, Retire,
         WorkerAt, WorkerGoto, WorkerFrame
<1> QED BY <1>1, <1>2, <1>3, <1>4, <1>5 DEF IInv

\* The worker frees the trampolines.
LEMMA UninitializeKeeps ==
  ASSUME IInv, NEW w \in Injectors, Uninitialize(w)
  PROVE  IInv'
<1>1. TypeOK'
  BY DEF IInv, TypeOK, Uninitialize, WorkerAt, WorkerGoto, WorkerFrame
<1>2. ScopesCounted'
  BY DEF IInv, TypeOK, ScopesCounted, Uninitialize, WorkerAt, WorkerGoto,
         WorkerFrame
<1>3. OneWorker'
  BY DEF IInv, TypeOK, OneWorker, Uninitialize, WorkerAt, WorkerGoto,
         WorkerFrame
<1>4. FlagStaysUp'
  BY DEF IInv, TypeOK, OneWorker, FlagStaysUp, Uninitialize, WorkerAt,
         WorkerGoto, WorkerFrame
<1>5. TeardownExclusive'
  BY DEF IInv, TypeOK, ScopesCounted, FlagStaysUp, TeardownExclusive,
         Uninitialize, WorkerAt, WorkerGoto, WorkerFrame
<1> QED BY <1>1, <1>2, <1>3, <1>4, <1>5 DEF IInv

\* The worker closes the shared block.
LEMMA CloseControlKeeps ==
  ASSUME IInv, NEW w \in Injectors, CloseControl(w)
  PROVE  IInv'
<1>1. TypeOK'
  BY DEF IInv, TypeOK, CloseControl, WorkerAt, WorkerGoto, WorkerFrame
<1>2. ScopesCounted'
  BY DEF IInv, TypeOK, ScopesCounted, CloseControl, WorkerAt, WorkerGoto,
         WorkerFrame
<1>3. OneWorker'
  BY DEF IInv, TypeOK, OneWorker, CloseControl, WorkerAt, WorkerGoto,
         WorkerFrame
<1>4. FlagStaysUp'
  BY DEF IInv, TypeOK, OneWorker, FlagStaysUp, CloseControl, WorkerAt,
         WorkerGoto, WorkerFrame
<1>5. TeardownExclusive'
  BY DEF IInv, TypeOK, ScopesCounted, FlagStaysUp, TeardownExclusive,
         CloseControl, WorkerAt, WorkerGoto, WorkerFrame
<1> QED BY <1>1, <1>2, <1>3, <1>4, <1>5 DEF IInv

\* The worker gives its reference to the DLL back.
LEMMA FreeKeeps ==
  ASSUME IInv, NEW w \in Injectors, Free(w)
  PROVE  IInv'
<1>1. TypeOK'
  <2>1. refs' \in Nat
    BY DEF IInv, TypeOK, Free, WorkerAt
  <2>2. /\ started' \in BOOLEAN /\ control' \in BOOLEAN /\ unloading' \in BOOLEAN
        /\ active' \in SUBSET Threads /\ hooksReady' \in BOOLEAN
        /\ swaps' \in BOOLEAN
    BY DEF IInv, TypeOK, Free
  <2>3. worker' \in [Injectors -> WorkerPcs]
    BY DEF IInv, TypeOK, Free, WorkerGoto, WorkerPcs
  <2> QED
    BY <2>1, <2>2, <2>3 DEF IInv, TypeOK, Free, WorkerFrame
<1>2. ScopesCounted'
  BY DEF IInv, TypeOK, ScopesCounted, Free, WorkerAt, WorkerGoto, WorkerFrame
<1>3. OneWorker'
  BY DEF IInv, TypeOK, OneWorker, Free, WorkerAt, WorkerGoto, WorkerFrame
<1>4. FlagStaysUp'
  BY DEF IInv, TypeOK, OneWorker, FlagStaysUp, Free, WorkerAt, WorkerGoto,
         WorkerFrame
<1>5. TeardownExclusive'
  BY DEF IInv, TypeOK, ScopesCounted, FlagStaysUp, TeardownExclusive, Free,
         WorkerAt, WorkerGoto, WorkerFrame
<1> QED BY <1>1, <1>2, <1>3, <1>4, <1>5 DEF IInv

\* An injector run looks for the DLL.
LEMMA LookKeeps ==
  ASSUME IInv, NEW i \in Injectors, Look(i)
  PROVE  IInv'
<1>1. TypeOK'
  BY DEF IInv, TypeOK, Look, InjectorGoto, WorkerGoto, InjectorFrame
<1>2. ScopesCounted'
  BY DEF IInv, TypeOK, ScopesCounted, Look, InjectorGoto, WorkerGoto,
         InjectorFrame
<1>3. OneWorker'
  BY DEF IInv, TypeOK, OneWorker, Look, InjectorGoto, WorkerGoto, InjectorFrame
<1>4. FlagStaysUp'
  BY DEF IInv, TypeOK, OneWorker, FlagStaysUp, Look, InjectorGoto, WorkerGoto,
         InjectorFrame
<1>5. TeardownExclusive'
  BY DEF IInv, TypeOK, ScopesCounted, FlagStaysUp, TeardownExclusive, Look,
         InjectorGoto, WorkerGoto, InjectorFrame
<1> QED BY <1>1, <1>2, <1>3, <1>4, <1>5 DEF IInv

\* An injector run loads the DLL.
LEMMA LoadDllKeeps ==
  ASSUME IInv, NEW i \in Injectors, LoadDll(i)
  PROVE  IInv'
<1>1. TypeOK'
  BY DEF IInv, TypeOK, LoadDll, InjectorGoto, WorkerGoto, GameIntact,
         InjectorFrame
<1>2. ScopesCounted'
  BY DEF IInv, TypeOK, ScopesCounted, LoadDll, InjectorGoto, WorkerGoto,
         GameIntact, InjectorFrame
<1>3. OneWorker'
  BY DEF IInv, TypeOK, OneWorker, LoadDll, InjectorGoto, WorkerGoto,
         GameIntact, InjectorFrame
<1>4. FlagStaysUp'
  BY DEF IInv, TypeOK, OneWorker, FlagStaysUp, LoadDll, InjectorGoto,
         WorkerGoto, GameIntact, InjectorFrame
<1>5. TeardownExclusive'
  BY DEF IInv, TypeOK, ScopesCounted, FlagStaysUp, TeardownExclusive, LoadDll,
         InjectorGoto, WorkerGoto, GameIntact, InjectorFrame
<1> QED BY <1>1, <1>2, <1>3, <1>4, <1>5 DEF IInv

\* BridgeStart takes g_started.
LEMMA BridgeStartKeeps ==
  ASSUME IInv, NEW i \in Injectors, BridgeStart(i)
  PROVE  IInv'
<1>1. TypeOK'
  BY DEF IInv, TypeOK, BridgeStart, InjectorGoto, WorkerGoto, InjectorFrame
<1>2. ScopesCounted'
  BY DEF IInv, TypeOK, ScopesCounted, BridgeStart, InjectorGoto, WorkerGoto,
         InjectorFrame
<1>3. OneWorker'
  BY DEF IInv, TypeOK, OneWorker, BridgeStart, InjectorGoto, WorkerGoto,
         InjectorFrame
<1>4. FlagStaysUp'
  BY DEF IInv, TypeOK, OneWorker, FlagStaysUp, BridgeStart, InjectorGoto,
         WorkerGoto, InjectorFrame
<1>5. TeardownExclusive'
  BY DEF IInv, TypeOK, ScopesCounted, FlagStaysUp, TeardownExclusive,
         BridgeStart, InjectorGoto, WorkerGoto, InjectorFrame
<1> QED BY <1>1, <1>2, <1>3, <1>4, <1>5 DEF IInv

\* BridgeStart creates the worker.
LEMMA CreateWorkerKeeps ==
  ASSUME IInv, NEW i \in Injectors, CreateWorker(i)
  PROVE  IInv'
<1>1. TypeOK'
  BY DEF IInv, TypeOK, CreateWorker, InjectorGoto, WorkerGoto, InjectorFrame
<1>2. ScopesCounted'
  BY DEF IInv, TypeOK, ScopesCounted, CreateWorker, InjectorGoto, WorkerGoto,
         InjectorFrame
<1>3. OneWorker'
  BY DEF IInv, TypeOK, OneWorker, CreateWorker, InjectorGoto, WorkerGoto,
         InjectorFrame
<1>4. FlagStaysUp'
  BY DEF IInv, TypeOK, OneWorker, FlagStaysUp, CreateWorker, InjectorGoto,
         WorkerGoto, InjectorFrame
<1>5. TeardownExclusive'
  BY DEF IInv, TypeOK, ScopesCounted, FlagStaysUp, TeardownExclusive,
         CreateWorker, InjectorGoto, WorkerGoto, InjectorFrame
<1> QED BY <1>1, <1>2, <1>3, <1>4, <1>5 DEF IInv

\* The controller changes its unload flag, or nothing happens.
LEMMA RequestKeeps ==
  ASSUME IInv, UNCHANGED vars \/ \E value \in BOOLEAN : RequestUnload(value)
  PROVE  IInv'
  BY DEF IInv, TypeOK, ScopesCounted, OneWorker, FlagStaysUp,
         TeardownExclusive, RequestUnload, vars

\* Nothing is loaded at first.
LEMMA InitEstablishes == Init => IInv
<1> SUFFICES ASSUME Init PROVE IInv
  OBVIOUS
<1>1. samples \in [Injectors -> 0 .. 2] /\ disabled \in [Injectors -> BOOLEAN]
  BY DEF Init
<1>2. thread \in [Threads -> ThreadPcs] /\ injector \in [Injectors -> InjectorPcs]
  BY DEF Init, ThreadPcs, InjectorPcs
<1>3. worker \in [Injectors -> WorkerPcs]
  BY DEF Init, WorkerPcs
<1>4. TypeOK
  BY <1>1, <1>2, <1>3 DEF Init, TypeOK
<1>5. ScopesCounted /\ OneWorker /\ FlagStaysUp
  BY DEF Init, ScopesCounted, OneWorker, FlagStaysUp
<1>6. TeardownExclusive
  BY DEF Init, TeardownExclusive, Retiring, Retired
<1> QED BY <1>4, <1>5, <1>6 DEF IInv

\* Every step keeps the inductive invariant.
LEMMA NextKeeps == IInv /\ [Next]_vars => IInv'
<1> SUFFICES ASSUME IInv, [Next]_vars PROVE IInv'
  OBVIOUS
<1>1. ASSUME NEW t \in Threads, Detour(t) PROVE IInv'
  BY <1>1, EnterKeeps, CountKeeps, CheckKeeps, GetContextKeeps,
     EnableTrackersKeeps, CallOriginalKeeps, ReturnKeeps, BookkeepKeeps,
     LeaveKeeps, BackInGameKeeps DEF Detour
<1>2. ASSUME NEW w \in Injectors, Work(w) PROVE IInv'
  BY <1>2, OpenControlKeeps, InstallHooksKeeps, InstallFailsKeeps, DetachKeeps,
     BeginUnloadKeeps, DisableHooksKeeps, SampleKeeps, DeadlineKeeps,
     RetireKeeps, UninitializeKeeps, CloseControlKeeps, FreeKeeps DEF Work
<1>3. ASSUME NEW i \in Injectors, Inject(i) PROVE IInv'
  BY <1>3, LookKeeps, LoadDllKeeps, BridgeStartKeeps, CreateWorkerKeeps
     DEF Inject
<1> QED BY <1>1, <1>2, <1>3, RequestKeeps DEF Next

\* The inductive invariant holds in every reachable state.
THEOREM Invariance == Spec => []IInv
  BY InitEstablishes, NextKeeps, PTL DEF Spec

\* Every variable of a bridge's life keeps its type.
THEOREM TypeCorrect == Spec => []TypeOK
<1>1. IInv => TypeOK
  BY DEF IInv
<1> QED BY <1>1, Invariance, PTL

\* However many threads the game has and whatever fails, teardown has the
\* pipelines for itself (HookQuiescence, removeHooks).
THEOREM TeardownIsExclusive == Spec => []TeardownExclusive
<1>1. IInv => TeardownExclusive
  BY DEF IInv
<1> QED BY <1>1, Invariance, PTL
=============================================================================
