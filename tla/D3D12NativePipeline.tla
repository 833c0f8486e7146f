------------------------- MODULE D3D12NativePipeline -------------------------
(***************************************************************************)
(* The native D3D12 pipeline (src/src/gpu/d3d12_native_pipeline.cpp): one  *)
(* command list records a frame's inputs, the external host evaluates them *)
(* in shared textures, a second list composes the result onto the back     *)
(* buffer.  One allocator and one fence serve both lists.                  *)
(***************************************************************************)
EXTENDS D3D12Queues

VARIABLES
    native,   \* the pipeline's members
    image,    \* [current, history]: frames held by its textures current_ and history_
    host,     \* frame of a request the external host has not finished, 0 if none
    retired   \* bundles of destroyed pipelines whose work is still queued

nativeVars == <<native, image, host, retired>>

\* inst and last tell the objects and fence values of one pipeline from its
\* successor's; value is the last one this pipeline submitted, hold is guideHold_.
NewNative(inst, last) == [inst |-> inst, last |-> last, value |-> 0, format |-> 0, built |-> FALSE, failed |-> FALSE,
                          key |-> 0, size |-> 0, hold |-> FALSE, history |-> 0]

\* reset, once the GPU has finished: the textures go, the host's request with them.
Released(n) == [n EXCEPT !.hold = FALSE, !.history = 0, !.size = 0]

NativeList(n, op) == Work(op, "native", n.inst, call.frame)

\* submit: the value moves on even when Signal fails.
Submitted(n) == [n EXCEPT !.last = @ + 1, !.value = n.last + 1]
Submit(n, list) ==
    \E s \in Signals(n.last + 1) : q12' = Append(q12, [list EXCEPT !.signal = s])

---------------------------------------------------------------------------

\* eligible: completed snapshots of depth and motion, the external host, and no
\* failure that only retryNeural forgives.
Eligible(n, capture, key) ==
    ~n.failed /\ key # 0 /\ capture = [kind |-> "snapshot", guides |-> {"depth", "motion"}]

\* releaseObsoleteHost: the settings no longer want the host the pipeline uses.
Obsolete(n, key) == n.key \notin {0, key}

ReleaseHost ==
    /\ call.pc = "release"
    /\ native' = [Released(native) EXCEPT !.key = 0] /\ host' = 0
    /\ call' = [call EXCEPT !.pc = "route"]
    /\ UNCHANGED <<mode, q12, q11, fence, event, back, lapses, image, retired>>

\* externalHostForNative, then process up to the wait of begin: an initialization that must discard the old
\* objects waits first and counts a timeout as a failure; shared inputs of a
\* missed deadline are left alone.
StartNative ==
    /\ call.pc = "native"
    /\ \/ /\ May("host")
          /\ call' = [call EXCEPT !.pc = "refused"] /\ UNCHANGED event
       \/ IF host # 0 /\ native.key = call.key /\ native.format = call.desc[2]
          THEN call' = [call EXCEPT !.pc = "nativeGone"] /\ UNCHANGED event
          ELSE Await(call, "native", native.value, "nativeBegin", "nativeLate")
    /\ UNCHANGED <<mode, q12, q11, fence, back, lapses, nativeVars>>

\* finish timed out: inside initialize this is a failure.
NativeLate ==
    /\ call.pc = "nativeLate"
    /\ native' = [native EXCEPT !.failed = @ \/ native.format # call.desc[2]]
    /\ call' = [call EXCEPT !.pc = "nativeGone"]
    /\ UNCHANGED <<mode, q12, q11, fence, event, back, lapses, image, host, retired>>

\* initialize: members are assigned before the objects that may fail to be created.
Initialized(n, desc, built) ==
    IF n.format = desc[2] THEN n
    ELSE [Released(n) EXCEPT !.format = desc[2], !.built = built, !.failed = ~built,
                             !.key = IF n.format = 0 THEN n.key ELSE 0]

\* The host of the D3D11 pipeline is shared; another one ends the history.
\* resources: another size replaces every texture.
Prepared(n, desc, key) ==
    [n EXCEPT !.key = key, !.size = desc[1],
              !.history = IF n.key = key /\ n.size = desc[1] THEN n.history ELSE 0]

NativeBegin ==
    /\ call.pc = "nativeBegin"
    /\ \E built \in {TRUE} \cup {FALSE : x \in Faults \cap {"build"}} :
         LET n == Initialized(native, call.desc, built)
             m == Prepared(n, call.desc, call.key)
         IN CASE n.failed -> /\ native' = n
                             /\ call' = [call EXCEPT !.pc = "nativeGone"]
                             /\ UNCHANGED <<q12, host, lapses>>
              \* initialize has returned TRUE for objects an earlier call failed to
              \* create, and begin calls through a null pointer.
              [] ~n.failed /\ ~n.built -> /\ call' = [call EXCEPT !.pc = "crashed"]
                                          /\ lapses' = lapses \cup {"unbuilt"}
                                          /\ UNCHANGED <<native, q12, host>>
              [] ~n.failed /\ n.built /\ host # 0 /\ m.key = n.key ->
                    /\ native' = n
                    /\ call' = [call EXCEPT !.pc = "nativeGone"]
                    /\ UNCHANGED <<q12, host, lapses>>
              [] OTHER -> /\ host' = 0
                          /\ \/ /\ native' = [Submitted(m) EXCEPT !.hold = TRUE]
                                /\ Submit(m, [NativeList(m, "nativePre") EXCEPT !.history = m.history])
                                /\ call' = [call EXCEPT !.pc = "nativeEvaluate"]
                             \/ /\ May("record")
                                /\ native' = [m EXCEPT !.failed = TRUE, !.hold = TRUE]
                                /\ call' = [call EXCEPT !.pc = "nativeGone"] /\ UNCHANGED q12
                          /\ UNCHANGED lapses
    /\ UNCHANGED <<mode, q11, fence, event, back, image, retired>>

\* backend_->evaluate: a success means that the host has waited for the inputs; a
\* missed deadline leaves the request with the host.  finish follows in any case.
NativeEvaluate ==
    /\ call.pc = "nativeEvaluate"
    /\ \/ /\ fence.native >= native.value
          /\ Await(call, "native", native.value, "nativePost", "nativeGone")
          /\ UNCHANGED <<native, host>>
       \/ /\ May("evaluate")
          /\ native' = [native EXCEPT !.history = 0]
          /\ host' \in {0, call.frame}
          /\ Await(call, "native", native.value, "nativeGone", "nativeGone")
    /\ UNCHANGED <<mode, q12, q11, fence, back, lapses, image, retired>>

\* The second list; guideHold_ is given up once the first has finished.
NativePost ==
    /\ call.pc = "nativePost"
    /\ native' = [Submitted(native) EXCEPT !.hold = FALSE]
    /\ Submit(native, NativeList(native, "nativePost"))
    /\ call' = [call EXCEPT !.pc = "nativeFinish"]
    /\ UNCHANGED <<mode, q11, fence, event, back, lapses, image, host, retired>>

NativeFinish ==
    /\ call.pc = "nativeFinish"
    /\ Await(call, "native", native.value, "nativeDone", "nativeGone")
    /\ UNCHANGED <<mode, q12, q11, fence, back, lapses, nativeVars>>

\* Mutant: Attempt does not end the history of a frame that fails.
AttemptKeeps(n) == n

\* ~Attempt: every return but the last ends the history.
AttemptFails(n) == [n EXCEPT !.history = 0]

NativeGone ==
    /\ call.pc = "nativeGone"
    /\ native' = AttemptFails(native)
    /\ Return(call, FALSE, q12)
    /\ UNCHANGED <<mode, q11, fence, event, back, lapses, image, host, retired>>

\* The host finishes a request nobody waits for any more.
HostCompletes ==
    /\ host # 0 /\ ~\E i \in DOMAIN q12 : q12[i].op = "nativePre"
    /\ host' = 0
    /\ UNCHANGED <<mode, call, q12, q11, fence, event, back, lapses, native, image, retired>>

---------------------------------------------------------------------------
(* The end of a pipeline.                                                  *)

\* retireInFlight: what is still queued keeps its bundle; a successor has objects
\* of its own.
Destroyed(n) ==
    /\ retired' = IF fence.native < n.value THEN retired \cup {[inst |-> n.inst, target |-> n.value, hold |-> n.hold]}
                  ELSE retired
    /\ native' = NewNative(n.inst + 1, n.last)

\* Retirement::completed: a wake before the target only arms the wait again.
RetirementCompletes ==
    /\ \E r \in retired : fence.native >= r.target /\ retired' = retired \ {r}
    /\ UNCHANGED <<mode, call, q12, q11, fence, event, back, lapses, native, image, host>>
=============================================================================
