------------------------------ MODULE D3D12On12 ------------------------------
(***************************************************************************)
(* D3D12On12Pipeline (src/src/gpu/d3d12_on12.cpp): the back buffer is      *)
(* copied into a surface the injector owns, a D3D11 pipeline processes the *)
(* surface, and the result is copied back before the game's Present.       *)
(*                                                                         *)
(* With "on12" the D3D11 work goes to the game's own queue and nothing is  *)
(* waited for.  In "recovery" it belongs to a device of its own: the       *)
(* thread orders the two queues by waiting, 50 ms for D3D11 and two        *)
(* seconds for D3D12, and lets a frame pass when a wait expires.           *)
(***************************************************************************)
EXTENDS D3D12NativePipeline

VARIABLES
    color,    \* ownedColor: [gen, desc, image]; gen is the Present it was created in, 0: none
    surface,  \* recoveryDepthGuide_, recoveryMotionGuide_: [gen, desc, kind]
    copies,   \* [pre, post, guide]: fenceValue of the copy contexts; next: nextCopyFenceValue_
    d11       \* [next, pending]: recoveryD11FenceValue_, recoveryD11PendingValue_

owned == <<color, surface, copies, d11>>
vars == <<mode, call, q12, q11, fence, event, back, lapses, nativeVars, owned>>

NoColor == [gen |-> 0, desc |-> <<0, 0>>, image |-> NoImage]
NoSurface == [g \in {"depth", "motion"} |-> [gen |-> 0, desc |-> <<0, 0>>, kind |-> "none"]]

Init ==
    /\ mode = "down" /\ call = NoCall /\ q12 = <<>> /\ q11 = <<>>
    /\ fence = [copy |-> 0, d11 |-> 0, native |-> 0]
    /\ event = [f \in {"copy", "d11"} |-> [set |-> FALSE, armed |-> {}]]
    /\ back = [frame |-> 1, neural |-> FALSE] /\ lapses = {}
    /\ native = NewNative(1, 0) /\ image = [current |-> 0, history |-> 0] /\ host = 0 /\ retired = {}
    /\ color = NoColor /\ surface = NoSurface
    /\ copies = [pre |-> 0, post |-> 0, guide |-> 0, next |-> 1] /\ d11 = [next |-> 1, pending |-> 0]

\* initialize; a failure leaves the swapchain without a pipeline.  A new pipeline has
\* fences and events of its own: their values continue the old ones here.
Initialize ==
    /\ mode = "down" /\ call.pc = "idle" /\ native.inst <= MaxPipelines
    /\ mode' \in Modes
    /\ event' = [f \in {"copy", "d11"} |-> [set |-> FALSE, armed |-> {}]]
    /\ UNCHANGED <<call, q12, q11, fence, back, lapses, nativeVars, owned>>

---------------------------------------------------------------------------
(* Presents.                                                               *)

\* The game renders the frame and presents it; process starts by giving up a host
\* that the settings no longer want.
Present ==
    /\ mode # "down" /\ call.pc = "idle" /\ call.frame < MaxPresents
    /\ \E desc \in Descs, key \in IF mode = "recovery" THEN HostKeys ELSE {0} :
         LET c == [NoCall EXCEPT !.frame = call.frame + 1, !.desc = desc, !.key = key]
         IN IF Obsolete(native, key) THEN Await(c, "native", native.value, "release", "route")
                                     ELSE call' = [c EXCEPT !.pc = "route"] /\ UNCHANGED event
    /\ UNCHANGED <<mode, q12, q11, fence, back, lapses, nativeVars, owned>>

\* The bridge lets the Present pass, or process cannot reach the back buffer.
PassOver ==
    /\ mode # "down" /\ call.pc = "idle" /\ call.frame < MaxPresents
    /\ Return([call EXCEPT !.frame = @ + 1], FALSE, q12)
    /\ UNCHANGED <<mode, q11, fence, event, back, lapses, nativeVars, owned>>

\* Mutant: a D3D11 frame in flight does not stop the next one.
PendingIgnored == FALSE

\* A D3D11 frame whose wait expired still uses the surfaces.
StillPending == mode = "recovery" /\ fence.d11 < d11.pending

\* The native path, or an end to its history and the surfaces of this one.
Route ==
    /\ call.pc = "route"
    /\ \/ \E capture \in Captures :
            /\ Eligible(native, capture, call.key)
            /\ call' = [call EXCEPT !.pc = "native", !.capture = capture]
            /\ UNCHANGED <<native, d11>>
       \/ /\ \E capture \in Captures : ~Eligible(native, capture, call.key)
          /\ native' = [native EXCEPT !.history = 0]
          /\ IF StillPending
             THEN call' = [call EXCEPT !.pc = "refused"] /\ UNCHANGED d11
             ELSE /\ d11' = [d11 EXCEPT !.pending = 0]
                  /\ call' = IF color.gen # 0 /\ color.desc # call.desc
                             THEN [call EXCEPT !.pc = "reset", !.after = "color"]
                             ELSE [call EXCEPT !.pc = "color"]
    /\ UNCHANGED <<mode, q12, q11, fence, event, back, lapses, image, host, retired, color, surface, copies>>

\* ensureOwnedColor, then the wait for the last copy of this context.
EnsureOwnedColor ==
    /\ call.pc = "color"
    /\ IF color.gen # 0 /\ color.desc = call.desc
       THEN /\ Await(call, "copy", copies.pre, "preCopy", "refused")
            /\ UNCHANGED color
       ELSE \/ /\ color' = [gen |-> call.frame, desc |-> call.desc, image |-> NoImage]
               /\ Await(call, "copy", copies.pre, "preCopy", "refused")
            \/ /\ May("create") /\ color' = NoColor
               /\ call' = [call EXCEPT !.pc = "refused"] /\ UNCHANGED event
    /\ UNCHANGED <<mode, q12, q11, fence, back, lapses, nativeVars, surface, copies, d11>>

\* submitBackbufferCopy and stageRecoveryGuide: record, execute and signal one copy.
SubmitCopy(ctx, work) ==
    /\ copies' = [copies EXCEPT ![ctx] = copies.next, !.next = @ + 1]
    /\ \E s \in Signals(copies.next) : q12' = Append(q12, [work EXCEPT !.signal = s])

\* Recovery waits for the copy before D3D11 touches the surface.
PreCopy ==
    /\ call.pc = "preCopy"
    /\ SubmitCopy("pre", Work("copyIn", "pre", color.gen, call.frame))
    /\ call' = [call EXCEPT !.pc = "copiedIn"]
    /\ UNCHANGED <<mode, q11, fence, event, back, lapses, nativeVars, color, surface, d11>>

CopiedIn ==
    /\ call.pc = "copiedIn"
    /\ IF mode = "recovery" THEN Await(call, "copy", copies.pre, "capture", "refused")
                            ELSE call' = [call EXCEPT !.pc = "capture"] /\ UNCHANGED event
    /\ UNCHANGED <<mode, q12, q11, fence, back, lapses, nativeVars, owned>>

---------------------------------------------------------------------------
(* Guides.                                                                 *)

\* recoveryGuideUsable, for captures that outlive the provider's command list.  On12
\* wraps them, in queue order, without a surface of its own.
Staged(capture) == IF mode = "recovery" /\ capture.kind \in {"snapshot", "tagged"} THEN capture.guides ELSE {}

\* The captured guides are read a second time: they need not be the ones of Route.
Capture ==
    /\ call.pc = "capture"
    /\ \E capture \in Captures :
         call' = [call EXCEPT !.pc = "guides", !.capture = capture, !.togo = Staged(capture)]
    /\ UNCHANGED <<mode, q12, q11, fence, event, back, lapses, nativeVars, owned>>

NextGuide == IF "depth" \in call.togo THEN "depth" ELSE "motion"
Used(c, g) == [c EXCEPT !.pc = "guides", !.togo = @ \ {g}, !.guides = @ \cup {g}]

\* openOwnedSnapshotDirect: D3D11 reads the snapshot itself.
OpenDirect ==
    /\ call.pc = "guides" /\ call.togo # {} /\ call.capture.kind = "snapshot"
    /\ surface' = [surface EXCEPT ![NextGuide] = [gen |-> call.frame, desc |-> call.desc, kind |-> "direct"]]
    /\ call' = Used(call, NextGuide)
    /\ UNCHANGED <<mode, q12, q11, fence, event, back, lapses, nativeVars, color, copies, d11>>

\* stageRecoveryGuide, up to the wait for the previous guide copy; without that copy
\* the old surface is neither released nor reused.
StageGuide ==
    /\ call.pc = "guides" /\ call.togo # {}
    /\ call.capture.kind = "snapshot" => May("open")
    /\ Await(call, "copy", copies.guide, "stage", "unstaged")
    /\ UNCHANGED <<mode, q12, q11, fence, back, lapses, nativeVars, owned>>

StageCopy ==
    /\ call.pc = "stage"
    /\ LET s == surface[NextGuide]
           kept == s.kind = "own" /\ s.desc = call.desc
           new == IF kept THEN s ELSE [gen |-> call.frame, desc |-> call.desc, kind |-> "own"]
       IN \/ /\ surface' = [surface EXCEPT ![NextGuide] = new]
             /\ SubmitCopy("guide", [Work("copyGuide", "guide", new.gen, call.frame) EXCEPT !.guides = {<<NextGuide, new.gen>>}])
             /\ call' = [call EXCEPT !.pc = "stageWait"]
          \/ /\ May("stage") /\ ~kept
             /\ surface' = [surface EXCEPT ![NextGuide] = NoSurface[NextGuide]]
             /\ call' = [call EXCEPT !.pc = "unstaged"]
             /\ UNCHANGED <<q12, copies>>
    /\ UNCHANGED <<mode, q11, fence, event, back, lapses, nativeVars, color, d11>>

StageWait ==
    /\ call.pc = "stageWait"
    /\ Await(call, "copy", copies.guide, "staged", "unstaged")
    /\ UNCHANGED <<mode, q12, q11, fence, back, lapses, nativeVars, owned>>

GuideStaged ==
    /\ call.pc \in {"staged", "unstaged"}
    /\ call' = IF call.pc = "staged" THEN Used(call, NextGuide)
               ELSE [call EXCEPT !.pc = "guides", !.togo = @ \ {NextGuide}]
    /\ UNCHANGED <<mode, q12, q11, fence, event, back, lapses, nativeVars, owned>>

---------------------------------------------------------------------------
(* Processing and the way back.                                            *)

\* Mutant: recovery copies the surface back without waiting for D3D11.
EvaluateUnwaited ==
    /\ call.pc = "guides" /\ call.togo = {}
    /\ q11' = IF mode = "on12" THEN q11 ELSE
                Append(q11, [Work("evaluate", "d11", color.gen, call.frame) EXCEPT !.neural = TRUE, !.signal = d11.next])
    /\ q12' = IF mode = "recovery" THEN q12 ELSE
                Append(q12, [Work("evaluate", "d11", color.gen, call.frame) EXCEPT !.neural = TRUE])
    /\ d11' = IF mode = "on12" THEN d11 ELSE [next |-> d11.next + 1, pending |-> d11.next]
    /\ Await([call EXCEPT !.ok = TRUE], "copy", copies.post, "postCopy", "refused")
    /\ UNCHANGED <<mode, fence, back, lapses, nativeVars, color, surface, copies>>

\* pipeline_.process on the owned color; a failure composes nothing.  Recovery then
\* signals the D3D11 fence; if that fails the work is in flight unguarded.
Evaluate ==
    /\ call.pc = "guides" /\ call.togo = {}
    /\ \E ok \in {TRUE} \cup {FALSE : x \in Faults \cap {"process"}} :
         LET c == [call EXCEPT !.ok = ok]
             work == [Work("evaluate", "d11", color.gen, call.frame) EXCEPT !.neural = ok,
                        !.guides = {<<g, surface[g].gen>> : g \in call.guides}]
         IN IF mode = "on12"
            THEN /\ q12' = Append(q12, work)
                 /\ Await(c, "copy", copies.post, "postCopy", "refused")
                 /\ UNCHANGED <<q11, d11, lapses>>
            ELSE /\ UNCHANGED q12
                 /\ \/ /\ q11' = Append(q11, [work EXCEPT !.signal = d11.next])
                       /\ d11' = [next |-> d11.next + 1, pending |-> d11.next]
                       /\ Await(c, "d11", d11.next, "evaluated", "refused")
                       /\ UNCHANGED lapses
                    \/ /\ May("signal11")
                       /\ q11' = Append(q11, work)
                       /\ d11' = [next |-> d11.next + 1, pending |-> 0]
                       /\ call' = [c EXCEPT !.pc = "refused"]
                       /\ lapses' = lapses \cup {"unguarded"}
                       /\ UNCHANGED event
    /\ UNCHANGED <<mode, fence, back, nativeVars, color, surface, copies>>

Evaluated ==
    /\ call.pc = "evaluated"
    /\ d11' = [d11 EXCEPT !.pending = 0]
    /\ Await(call, "copy", copies.post, "postCopy", "refused")
    /\ UNCHANGED <<mode, q12, q11, fence, back, lapses, nativeVars, color, surface, copies>>

PostCopy ==
    /\ call.pc = "postCopy"
    /\ SubmitCopy("post", Work("copyOut", "post", color.gen, call.frame))
    /\ call' = [call EXCEPT !.pc = "copiedOut"]
    /\ UNCHANGED <<mode, q11, fence, event, back, lapses, nativeVars, color, surface, d11>>

\* synchronizeBeforePresent, which the route sets exactly for recovery.
CopiedOut ==
    /\ call.pc = "copiedOut"
    /\ IF mode = "recovery" THEN Await(call, "copy", copies.post, "processed", "refused")
                            ELSE call' = [call EXCEPT !.pc = "processed"] /\ UNCHANGED event
    /\ UNCHANGED <<mode, q12, q11, fence, back, lapses, nativeVars, owned>>

Processed ==
    /\ call.pc = "processed"
    /\ Return(call, call.ok, q12)
    /\ UNCHANGED <<mode, q11, fence, event, back, lapses, nativeVars, owned>>

\* A natively processed frame: the surfaces of this path are given back.
NativeDone ==
    /\ call.pc = "nativeDone"
    /\ native' = [native EXCEPT !.history = call.frame]
    /\ color' = NoColor /\ surface' = NoSurface
    /\ Return(call, TRUE, q12)
    /\ UNCHANGED <<mode, q11, fence, event, back, lapses, image, host, retired, copies, d11>>

---------------------------------------------------------------------------
(* Reset, retry and the end.                                               *)

\* Resize, resynchronization, the user's reset, or another queue or mode.
Stop ==
    /\ mode # "down" /\ call.pc = "idle"
    /\ \E after \in {"idle", "down"} : call' = [call EXCEPT !.pc = "reset", !.after = after]
    /\ UNCHANGED <<mode, q12, q11, fence, event, back, lapses, nativeVars, owned>>

\* reset: the native pipeline keeps what its GPU work still uses.
ResetBegins ==
    /\ call.pc = "reset"
    /\ Await(call, "native", native.value, "resetNative", "resetCopies")
    /\ UNCHANGED <<mode, q12, q11, fence, back, lapses, nativeVars, owned>>

ResetNative ==
    /\ call.pc = "resetNative"
    /\ native' = Released(native)
    /\ call' = [call EXCEPT !.pc = "resetCopies"]
    /\ UNCHANGED <<mode, q12, q11, fence, event, back, lapses, image, host, retired, owned>>

LastCopy == Max({copies.pre, copies.post, copies.guide})

ResetCopies ==
    /\ call.pc = "resetCopies"
    /\ Await(call, "copy", LastCopy, "resetOwned", "resetOwned")
    /\ UNCHANGED <<mode, q12, q11, fence, back, lapses, nativeVars, owned>>

\* After the wait, however it ended, everything is released.
ResetOwned ==
    /\ call.pc = "resetOwned"
    /\ color' = NoColor /\ surface' = NoSurface
    /\ copies' = [copies EXCEPT !.pre = 0, !.post = 0, !.guide = 0]
    /\ d11' = [d11 EXCEPT !.pending = 0]
    /\ lapses' = IF fence.copy < LastCopy THEN lapses \cup {"releasedEarly"} ELSE lapses
    /\ call' = [call EXCEPT !.pc = call.after]
    /\ UNCHANGED <<mode, q12, q11, fence, event, back, nativeVars>>

\* ~D3D12On12Pipeline, ~D3D12NativePipeline: the native pipeline waits once more.
Destroy ==
    /\ call.pc = "down"
    /\ Await(call, "native", native.value, "destroyed", "destroyed")
    /\ UNCHANGED <<mode, q12, q11, fence, back, lapses, nativeVars, owned>>

Destroyed12 ==
    /\ call.pc = "destroyed"
    /\ Destroyed(native) /\ host' = 0
    /\ mode' = "down" /\ call' = [NoCall EXCEPT !.frame = call.frame]
    /\ UNCHANGED <<q12, q11, fence, event, back, lapses, image, owned>>

\* retryNeural: forgets a failure once the native pipeline has finished.
RetryNeural ==
    /\ mode # "down" /\ call.pc = "idle" /\ native.failed
    /\ Await(call, "native", native.value, "retried", "idle")
    /\ UNCHANGED <<mode, q12, q11, fence, back, lapses, nativeVars, owned>>

Retried ==
    /\ call.pc = "retried"
    /\ native' = [Released(native) EXCEPT !.failed = FALSE, !.key = 0] /\ host' = 0
    /\ call' = [call EXCEPT !.pc = "idle"]
    /\ UNCHANGED <<mode, q12, q11, fence, event, back, lapses, image, retired, owned>>

---------------------------------------------------------------------------
(* The queues.                                                             *)

FenceOf(ctx) == CASE ctx = "native" -> "native" [] ctx = "d11" -> "d11" [] OTHER -> "copy"

Composed(w) == IF w.op = "evaluate" /\ w.neural /\ w.gen = color.gen
               THEN [color EXCEPT !.image.neural = TRUE] ELSE color

GameQueue ==
    /\ q12 # <<>>
    /\ LET w == Head(q12)
       IN /\ q12' = Tail(q12)
          /\ Signalled(FenceOf(w.ctx), w.signal)
          /\ back' = CASE w.op = "present" -> [frame |-> w.frame + 1, neural |-> FALSE]
                       [] w.op = "copyOut" /\ w.gen = color.gen -> color.image
                       [] w.op = "nativePost" -> [frame |-> image.current, neural |-> TRUE]
                       [] OTHER -> back
          /\ color' = IF w.op = "copyIn" /\ w.gen = color.gen THEN [color EXCEPT !.image = back] ELSE Composed(w)
          /\ image' = CASE w.op = "nativePre" -> [image EXCEPT !.current = back.frame]
                        [] w.op = "nativePost" -> [image EXCEPT !.history = image.current]
                        [] OTHER -> image
    /\ UNCHANGED <<mode, call, q11, lapses, native, host, retired, surface, copies, d11>>

RecoveryQueue ==
    /\ q11 # <<>>
    /\ q11' = Tail(q11)
    /\ color' = Composed(Head(q11))
    /\ Signalled("d11", Head(q11).signal)
    /\ UNCHANGED <<mode, call, q12, back, lapses, nativeVars, surface, copies, d11>>

---------------------------------------------------------------------------

Waits == (Woken \/ Reached \/ Expired \/ Refused) /\ UNCHANGED <<nativeVars, owned>>

Native ==
    /\ \/ ReleaseHost \/ StartNative \/ NativeLate \/ NativeBegin \/ NativeEvaluate \/ NativePost
       \/ NativeFinish \/ NativeGone \/ HostCompletes \/ RetirementCompletes
    /\ UNCHANGED owned

Next ==
    \/ Initialize \/ Present \/ PassOver \/ Route \/ EnsureOwnedColor \/ PreCopy \/ CopiedIn
    \/ Capture \/ OpenDirect \/ StageGuide \/ StageCopy \/ StageWait \/ GuideStaged
    \/ Evaluate \/ Evaluated \/ PostCopy \/ CopiedOut \/ Processed \/ NativeDone
    \/ Stop \/ ResetBegins \/ ResetNative \/ ResetCopies \/ ResetOwned \/ Destroy \/ Destroyed12
    \/ RetryNeural \/ Retried \/ Waits \/ Native \/ GameQueue \/ RecoveryQueue

Spec == Init /\ [][Next]_vars

---------------------------------------------------------------------------
(* The properties, up to the first lapse.                                  *)

\* A Present shows the frame the game rendered for it, whatever was in flight when it
\* was queued, and one that was reported as processed shows its own neural image
\* (d3d12_on12.cpp:335-513, d3d12_native_pipeline.cpp:100-148).
Shown(w) == w.op = "present" => back.frame = w.frame /\ (w.neural => back.neural)
PresentsOwnFrame ==
    [][q12 # <<>> /\ q12' = Tail(q12) /\ lapses = {} => Shown(Head(q12))]_q12

\* No list is recorded on an allocator the GPU still reads, no surface is copied while
\* D3D11 uses it or released while a copy of it is queued, no snapshot is given up that
\* the native pipeline still reads, even after its end, and no input is overwritten that
\* the external host still uses.
Queued(op) == {i \in DOMAIN q12 : q12[i].op \in op}
NothingUsedTwice ==
    lapses = {} =>
        /\ \A i, j \in Queued({"copyIn", "copyOut", "copyGuide", "nativePre", "nativePost"}) :
               i # j /\ q12[i].ctx = q12[j].ctx => q12[i].ctx = "native" /\ q12[i].gen # q12[j].gen
        /\ \A i \in Queued({"copyIn", "copyOut"}) :
               q12[i].gen = color.gen /\ \A k \in DOMAIN q11 : q11[k].gen # q12[i].gen
        /\ \A i \in Queued({"copyGuide"}) : \A g \in q12[i].guides :
               surface[g[1]].gen = g[2] /\ \A k \in DOMAIN q11 : g \notin q11[k].guides
        /\ \A i \in Queued({"nativePre"}) :
               /\ q12[i].gen = native.inst => host \in {0, q12[i].frame}
               /\ \/ q12[i].gen = native.inst /\ native.hold
                  \/ \E r \in retired : r.inst = q12[i].gen /\ r.hold

\* A native evaluation that compares with a history finds the frame it was told of,
\* and no Present in between was processed on the other path
\* (d3d12_native_pipeline.cpp:102, 120, 142; d3d12_on12.cpp:359).
NativeHistoryFollows ==
    [][q12 # <<>> /\ q12' = Tail(q12) /\ lapses = {} =>
         LET w == Head(q12)
         IN w.op = "nativePre" /\ w.history # 0 => image.history = w.history /\ color.gen \notin 1..w.frame]_q12
=============================================================================
