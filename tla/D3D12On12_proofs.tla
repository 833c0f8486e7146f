--------------------------- MODULE D3D12On12_proofs ---------------------------
(***************************************************************************)
(* The three properties of D3D12On12, for every number of Presents and     *)
(* pipelines, any formats, captures and host keys and every set of faults. *)
(*                                                                         *)
(* They hold up to the first lapse, and none is inductive.  IInv says what *)
(* the two queues still hold and in which order they reach their signals   *)
(* (Devices), and what is true at each place of a call (Facts).  The       *)
(* devices are what the future is made of: a predicate such as ColorShows  *)
(* or BackNeural says what an image will be when the p-th command runs,    *)
(* so appending a command asks about the end of the queue, and executing   *)
(* one shifts p.  The facts are what makes the next command legal.         *)
(***************************************************************************)
EXTENDS D3D12On12, TLAPS

---------------------------------------------------------------------------
(* The types.                                                              *)

Kind == {"depth", "motion"}
Pcs == {"idle", "route", "release", "refused", "crashed",
        "native", "nativeLate", "nativeBegin", "nativeEvaluate", "nativePost", "nativeFinish", "nativeDone", "nativeGone",
        "color", "preCopy", "copiedIn", "capture", "guides", "stage", "stageWait", "staged", "unstaged",
        "evaluated", "postCopy", "copiedOut", "processed",
        "reset", "resetNative", "resetCopies", "resetOwned", "down", "destroyed", "retried"}
Ops == {"copyIn", "copyOut", "copyGuide", "nativePre", "nativePost", "evaluate", "present"}
Ctxs == {"pre", "post", "guide", "native", "d11", "game"}
CtxOf(op) == CASE op = "copyIn" -> "pre" [] op = "copyOut" -> "post" [] op = "copyGuide" -> "guide"
               [] op \in {"nativePre", "nativePost"} -> "native" [] op = "evaluate" -> "d11" [] OTHER -> "game"
Works == [op : Ops, ctx : Ctxs, gen : Nat, frame : Nat, guides : SUBSET (Kind \X Nat), neural : BOOLEAN,
          history : Nat, signal : Nat]
Images == [frame : Nat, neural : BOOLEAN]
Calls == [pc : Pcs \cup {"wait"}, frame : Nat, desc : Nat \X Nat, key : Nat,
          capture : [kind : {"none", "transient", "foreign", "tagged", "snapshot"}, guides : SUBSET Kind],
          togo : SUBSET Kind, guides : SUBSET Kind, ok : BOOLEAN, after : {"idle", "down", "color"},
          fence : {"copy", "d11", "native"}, value : Nat, next : Pcs, otherwise : Pcs]
Surfaces == [gen : Nat, desc : Nat \X Nat, kind : {"none", "direct", "own"}]
Natives == [inst : Nat, last : Nat, value : Nat, format : Nat, built : BOOLEAN, failed : BOOLEAN, key : Nat, size : Nat,
            hold : BOOLEAN, history : Nat]

\* Nothing depends on the events: a wake before its time is a lapse.
TypeInv ==
    /\ mode \in Modes \cup {"down"}
    /\ call \in Calls
    /\ q12 \in Seq(Works) /\ q11 \in Seq(Works)
    /\ fence \in [copy : Nat, d11 : Nat, native : Nat]
    /\ back \in Images
    /\ native \in Natives
    /\ image \in [current : Nat, history : Nat] /\ host \in Nat
    /\ retired \in SUBSET [inst : Nat, target : Nat, hold : BOOLEAN]
    /\ color \in [gen : Nat, desc : Nat \X Nat, image : Images]
    /\ surface \in [Kind -> Surfaces]
    /\ copies \in [pre : Nat, post : Nat, guide : Nat, next : Nat]
    /\ d11 \in [next : Nat, pending : Nat]

---------------------------------------------------------------------------
(* The queues.                                                             *)

\* Values are handed out in order.
Values ==
    /\ fence.copy < copies.next /\ fence.native <= native.last /\ fence.d11 < d11.next
    /\ \A i \in DOMAIN q12 :
         /\ FenceOf(q12[i].ctx) = "copy" => q12[i].signal < copies.next
         /\ FenceOf(q12[i].ctx) = "native" => q12[i].signal <= native.last
    /\ \A k \in DOMAIN q11 : q11[k].signal < d11.next

\* A command belongs to its context.  Of the game's queue only copies and native lists signal.
Kinds ==
    /\ \A i \in DOMAIN q12 :
         q12[i].ctx = CtxOf(q12[i].op) /\ (q12[i].op \in {"evaluate", "present"} => q12[i].signal = 0)
    /\ \A k \in DOMAIN q11 :
         /\ q11[k].op = "evaluate" /\ q11[k].gen <= q11[k].frame
         /\ \A g \in q11[k].guides : g[2] <= q11[k].frame

\* Nothing is of a Present to come.
Recent(n) ==
    /\ \A i \in DOMAIN q12 : q12[i].frame <= n
    /\ \A k \in DOMAIN q11 : q11[k].frame <= n
    /\ color.gen <= n /\ \A g \in Kind : surface[g].gen <= n

\* The fence f reaches v only behind the i-th command.
Before(i, f, v) == fence[f] < v /\ \A j \in 1..(i - 1) : FenceOf(q12[j].ctx) = f => q12[j].signal < v
Before11(k, v) == fence.d11 < v /\ \A j \in 1..(k - 1) : q11[j].signal < v

CopyOps == {"copyIn", "copyOut", "copyGuide"}
NativeOps == {"nativePre", "nativePost"}

\* A context has one command queued, and knows its value.
Allocators ==
    /\ \A i \in DOMAIN q12 : q12[i].op \in CopyOps => Before(i, "copy", copies[q12[i].ctx])
    /\ \A i, j \in DOMAIN q12 : i # j /\ q12[i].op \in CopyOps => q12[i].ctx # q12[j].ctx

\* So does the native pipeline; the lists of another one have a bundle that waits for them.
Own(i) ==
    /\ Before(i, "native", native.value)
    /\ q12[i].op = "nativePre" => native.hold /\ host \in {0, q12[i].frame}
Bundled(i) == \E r \in retired : r.inst = q12[i].gen /\ (q12[i].op = "nativePre" => r.hold)
Bundles ==
    /\ \A r \in retired : r.inst < native.inst
    /\ \A i, j \in DOMAIN q12 : i # j /\ q12[i].op \in NativeOps /\ q12[j].op \in NativeOps => q12[i].gen # q12[j].gen
    /\ \A i \in DOMAIN q12 : q12[i].op \in NativeOps =>
         /\ IF q12[i].gen = native.inst THEN Own(i) ELSE Bundled(i)
         /\ \A r \in retired : r.inst = q12[i].gen => Before(i, "native", r.target)

\* A D3D11 frame that uses the surfaces there are is the pending one.
Live(k) == \/ color.gen # 0 /\ q11[k].gen = color.gen
           \/ \E g \in q11[k].guides : g[2] # 0 /\ surface[g[1]].gen = g[2]
Pending == \A k \in DOMAIN q11 : Live(k) => Before11(k, d11.pending)

\* A copy is of the surfaces there are, and D3D11 has nothing to do with them.
Surfaced ==
    /\ \A i \in DOMAIN q12 :
         /\ q12[i].op \in {"copyIn", "copyOut"} =>
              color.gen # 0 /\ q12[i].gen = color.gen /\ \A k \in DOMAIN q11 : q11[k].gen # color.gen
         /\ q12[i].op = "copyGuide" =>
              \A g \in q12[i].guides : g[2] # 0 /\ surface[g[1]].gen = g[2] /\ \A k \in DOMAIN q11 : g \notin q11[k].guides
    /\ \A g \in Kind : surface[g].kind = "own" => surface[g].gen # 0

\* Commands are queued in the order of their Presents; none is older than the back buffer.
Sorted ==
    /\ \A i, j \in DOMAIN q12 : i < j =>
         q12[i].frame <= q12[j].frame /\ (q12[i].op = "present" => q12[i].frame < q12[j].frame)
    /\ \A i \in DOMAIN q12 : q12[i].frame >= back.frame

\* What the color, the back buffer and current_ will show when the p-th command runs.
None(ops, i, p) == \A h \in i..(p - 1) : q12[h].op \notin ops
ColorShows(p, f) ==
    \/ color.image.frame = f /\ None({"copyIn"}, 1, p)
    \/ \E i \in 1..(p - 1) : q12[i].op = "copyIn" /\ q12[i].frame = f /\ None({"copyIn"}, i + 1, p)
ColorNeural(p) ==
    \/ color.image.neural /\ None({"copyIn"}, 1, p)
    \/ \E i \in 1..(p - 1) : /\ q12[i].op = "evaluate" /\ q12[i].neural /\ q12[i].gen = color.gen
                             /\ None({"copyIn"}, i + 1, p)
BackNeural(p) ==
    \/ back.neural /\ None({"present", "copyOut"}, 1, p)
    \/ \E i \in 1..(p - 1) : /\ q12[i].op = "nativePost" \/ (q12[i].op = "copyOut" /\ ColorNeural(i))
                             /\ None({"present", "copyOut"}, i + 1, p)
CurrentShows(p, f) ==
    \/ image.current = f /\ None({"nativePre"}, 1, p)
    \/ \E i \in 1..(p - 1) : q12[i].op = "nativePre" /\ q12[i].frame = f /\ None({"nativePre"}, i + 1, p)

Predicted ==
    \A i \in DOMAIN q12 :
        /\ q12[i].op = "copyOut" => ColorShows(i, q12[i].frame)
        /\ q12[i].op = "nativePost" => CurrentShows(i, q12[i].frame)
        /\ q12[i].op = "present" /\ q12[i].neural => BackNeural(i)

\* A list that compares with a history will find it.
Remembered ==
    \A i \in DOMAIN q12 : q12[i].op = "nativePre" /\ q12[i].history # 0 =>
        /\ image.history = q12[i].history /\ None({"nativePost"}, 1, i)
        /\ color.gen = 0 \/ color.gen > q12[i].frame

Devices == Allocators /\ Bundles /\ Pending /\ Surfaced /\ Sorted /\ Predicted /\ Remembered

---------------------------------------------------------------------------
(* What is true at each place of a call.                                   *)

\* Where the call is, or will be when its wait is over.
Where(c) == IF c.pc = "wait" THEN c.next ELSE c.pc
Resets == {"reset", "resetNative", "resetCopies", "resetOwned"}
Coloring(c) == Where(c) = "color" \/ (Where(c) \in Resets /\ c.after = "color")
Guiding == {"guides", "stage", "stageWait", "staged", "unstaged"}
Preparing == {"preCopy", "copiedIn", "capture"} \cup Guiding

\* What it waits for, and where it goes when that does not come.
Waiting(c) ==
    c.pc = "wait" =>
        \/ c.next = "release" /\ c.fence = "native" /\ c.value = native.value /\ c.otherwise = "route"
        \/ c.next = "nativeBegin" /\ c.fence = "native" /\ c.value = native.value /\ c.otherwise = "nativeLate"
        \/ c.next \in {"nativePost", "nativeDone"} /\ c.fence = "native" /\ c.value = native.value /\ c.otherwise = "nativeGone"
        \/ c.next = "nativeGone" /\ c.otherwise = "nativeGone"
        \/ c.next \in {"preCopy", "capture"} /\ c.fence = "copy" /\ c.value = copies.pre /\ c.otherwise = "refused"
        \/ c.next \in {"stage", "staged"} /\ c.fence = "copy" /\ c.value = copies.guide /\ c.otherwise = "unstaged"
        \/ c.next = "evaluated" /\ c.fence = "d11" /\ c.value = d11.pending /\ c.otherwise = "refused"
        \/ c.next \in {"postCopy", "processed"} /\ c.fence = "copy" /\ c.value = copies.post /\ c.otherwise = "refused"
        \/ c.next = "resetNative" /\ c.fence = "native" /\ c.value = native.value /\ c.otherwise = "resetCopies"
        \/ c.next = "resetOwned" /\ c.otherwise = "resetOwned"
        \/ c.next = "destroyed" /\ c.otherwise = "destroyed"
        \/ c.next = "retried" /\ c.fence = "native" /\ c.value = native.value /\ c.otherwise = "idle"

\* Before it evaluates, whatever D3D11 has is of an earlier Present, and from Route on
\* nothing of that is in flight.
Older11(n) == \A k \in DOMAIN q11 : q11[k].frame < n
Earlier(c) == Where(c) \in {"release", "route"} \cup Preparing \/ Coloring(c) => Older11(c.frame)
NonePending(c) ==
    mode # "recovery" \/ Where(c) \in {"postCopy", "down", "destroyed"} \cup Preparing \/ Coloring(c) => d11.pending = 0

\* What it waited for has come.
Unused(ctx) == \A i \in DOMAIN q12 : q12[i].ctx # ctx
NativeUnused == \A i \in DOMAIN q12 : q12[i].op \in NativeOps => q12[i].gen # native.inst
NoneLive == \A k \in DOMAIN q11 : ~Live(k)
Arrived(c) ==
    /\ c.pc = "preCopy" => Unused("pre")
    /\ c.pc \in {"stage", "staged"} => Unused("guide")
    /\ c.pc = "postCopy" => Unused("post")
    /\ c.pc \in {"release", "resetNative", "retried", "nativeBegin", "nativePost"} => NativeUnused
    /\ c.pc = "evaluated" => NoneLive
    /\ c.pc = "nativeDone" => q12 = <<>>
    /\ c.pc = "capture" /\ mode = "recovery" => Unused("pre") /\ Unused("post") /\ Unused("guide")
    /\ Where(c) \in Guiding /\ mode = "recovery" => Unused("pre") /\ Unused("post")

\* The command it waits for is behind all others.
Behind(ops, f, v) == \A i \in DOMAIN q12 : q12[i].op \in ops => Before(i, f, v)
Begun(n) == \A i \in DOMAIN q12 : q12[i].op = "nativePre" /\ q12[i].gen = native.inst => q12[i].frame = n
Last(c) ==
    /\ c.pc = "copiedIn" \/ (c.pc = "wait" /\ c.next = "capture") => Behind(CopyOps, "copy", copies.pre)
    /\ c.pc = "nativeFinish" \/ (c.pc = "wait" /\ c.next = "nativeDone") => Behind(Ops, "native", native.value)
    /\ c.pc = "nativeEvaluate" => Begun(c.frame)

\* The call has returned: the next command is of the next Present.
Presented(c) == Where(c) \in {"idle", "down", "destroyed", "retried"} \/ (Where(c) \in Resets /\ c.after # "color")

\* The surfaces of the call.
Upcoming(c) == IF "depth" \in c.togo THEN "depth" ELSE "motion"
Untouched(c) ==
    \A i \in DOMAIN q12 : q12[i].op = "copyGuide" => \A g \in q12[i].guides :
        /\ g[1] \notin c.guides
        /\ g[1] \in c.togo => g[1] = Upcoming(c) /\ Where(c) \in {"stageWait", "staged", "unstaged"}
Having(c) ==
    /\ c.pc = "color" => color.gen = 0 \/ color.desc = c.desc
    /\ Where(c) \in {"evaluated", "postCopy"} \cup Preparing => color.gen # 0
    /\ ~Presented(c) => c.frame # 0
    /\ Where(c) \in Guiding /\ mode # "recovery" => c.togo = {}
    /\ Where(c) \in {"release", "route", "preCopy", "copiedIn", "capture"} \/ Coloring(c) => c.guides = {}
    /\ c.togo \cap c.guides = {}
    /\ Where(c) \in Guiding \ {"guides"} => c.togo # {}
    /\ Untouched(c)

\* The Presents the back buffer has still to go through.
Reach(c) == IF Presented(c) THEN c.frame ELSE c.frame - 1
Queue12(n) ==
    /\ \A i \in DOMAIN q12 : q12[i].op = "present" => q12[i].frame <= n
    /\ \A f \in back.frame..n : \E i \in DOMAIN q12 : q12[i].op = "present" /\ q12[i].frame = f
    /\ back.frame <= n + 1
Older12(n) == \A i \in DOMAIN q12 : q12[i].frame < n
Ranked(c) ==
    /\ Queue12(Reach(c))
    /\ Where(c) \in {"release", "route", "native", "nativeBegin"} \/ Coloring(c) => Older12(c.frame)

\* What the call has prepared will be there.
End == Len(q12) + 1
Evaluating == \E k \in DOMAIN q11 : q11[k].gen = color.gen /\ q11[k].neural
Showing(c) ==
    /\ Where(c) \in {"copiedIn", "capture", "evaluated", "postCopy"} \cup Guiding => ColorShows(End, c.frame)
    /\ Where(c) \in {"nativeEvaluate", "nativePost"} => CurrentShows(End, c.frame)
    /\ Where(c) = "evaluated" /\ c.ok => ColorNeural(End) \/ Evaluating
    /\ Where(c) = "postCopy" /\ c.ok => ColorNeural(End)
    /\ Where(c) \in {"copiedOut", "processed"} /\ c.ok => BackNeural(End)
    /\ Where(c) \in {"nativeFinish", "nativeDone"} => BackNeural(End)

\* The native history ends before there is a color again, or the frame fails.
Kept(h) == image.history = h /\ None({"nativePost"}, 1, End)
Composed12(n) ==
    IF q12 = <<>> THEN image.history = n ELSE q12[Len(q12)].op = "nativePost" /\ q12[Len(q12)].frame = n
Historic(c) ==
    /\ native.history # 0 =>
         color.gen = 0 /\ ~Coloring(c) /\ (Where(c) \in {"nativeFinish", "nativeDone", "nativeGone"} \/ Kept(native.history))
    /\ Where(c) \in {"nativeFinish", "nativeDone"} => Composed12(c.frame)

Facts(c) ==
    Waiting(c) /\ Earlier(c) /\ NonePending(c) /\ Arrived(c) /\ Last(c) /\ Having(c) /\ Ranked(c) /\ Showing(c) /\ Historic(c)

IInv == TypeInv /\ Values /\ Kinds /\ Recent(call.frame) /\ (lapses = {} => Devices /\ Facts(call))

---------------------------------------------------------------------------
(* Sequences, and values of the types.                                     *)

LEMMA AppendFits ==
    ASSUME NEW S, NEW s \in Seq(S), NEW w \in S
    PROVE /\ Append(s, w) \in Seq(S) /\ Len(s) \in Nat /\ Len(Append(s, w)) = Len(s) + 1
          /\ DOMAIN s = 1..Len(s) /\ DOMAIN Append(s, w) = 1..(Len(s) + 1)
          /\ \A i \in 1..Len(s) : Append(s, w)[i] = s[i]
          /\ Append(s, w)[Len(s) + 1] = w
OBVIOUS

LEMMA TailFits ==
    ASSUME NEW S, NEW s \in Seq(S), s # <<>>
    PROVE /\ Tail(s) \in Seq(S) /\ Len(s) \in Nat \ {0} /\ Len(Tail(s)) = Len(s) - 1
          /\ DOMAIN s = 1..Len(s) /\ DOMAIN Tail(s) = 1..(Len(s) - 1)
          /\ \A i \in 1..(Len(s) - 1) : Tail(s)[i] = s[i + 1]
          /\ Head(s) = s[1] /\ s[1] \in S
OBVIOUS

LEMMA WorkFits ==
    ASSUME NEW op \in Ops, NEW ctx \in Ctxs, NEW gen \in Nat, NEW frame \in Nat
    PROVE /\ Work(op, ctx, gen, frame) \in Works
          /\ Work(op, ctx, gen, frame).op = op /\ Work(op, ctx, gen, frame).ctx = ctx
          /\ Work(op, ctx, gen, frame).gen = gen /\ Work(op, ctx, gen, frame).frame = frame
          /\ Work(op, ctx, gen, frame).guides = {} /\ Work(op, ctx, gen, frame).neural = FALSE
          /\ Work(op, ctx, gen, frame).history = 0 /\ Work(op, ctx, gen, frame).signal = 0
BY DEF Work, Works

\* What may stand in a queue, and what the queue is behind which one more command stands.
LEMMA QueueFits ==
    ASSUME TypeInv
    PROVE /\ Len(q12) \in Nat /\ DOMAIN q12 = 1..Len(q12) /\ \A i \in DOMAIN q12 : q12[i] \in Works
          /\ Len(q11) \in Nat /\ DOMAIN q11 = 1..Len(q11) /\ \A k \in DOMAIN q11 : q11[k] \in Works
BY DEF TypeInv

LEMMA NoCallFits ==
    /\ NoCall \in Calls /\ NoCall.pc = "idle" /\ NoCall.frame = 0 /\ NoCall.togo = {} /\ NoCall.guides = {}
    /\ NoCall.ok = FALSE /\ NoCall.after = "idle"
BY DEF NoCall, NoCapture, Calls, Pcs

LEMMA ContextOf ==
    /\ CtxOf("copyIn") = "pre" /\ CtxOf("copyOut") = "post" /\ CtxOf("copyGuide") = "guide"
    /\ CtxOf("nativePre") = "native" /\ CtxOf("nativePost") = "native"
    /\ CtxOf("evaluate") = "d11" /\ CtxOf("present") = "game"
BY DEF CtxOf

LEMMA FencesOf ==
    /\ FenceOf("native") = "native" /\ FenceOf("d11") = "d11"
    /\ FenceOf("pre") = "copy" /\ FenceOf("post") = "copy" /\ FenceOf("guide") = "copy" /\ FenceOf("game") = "copy"
BY DEF FenceOf

---------------------------------------------------------------------------
(* Waits.                                                                  *)

\* The call goes on at next, the value being reached, or waits for it.
LEMMA AwaitGoes ==
    ASSUME TypeInv, NEW c \in Calls, NEW f \in {"copy", "d11", "native"}, NEW v \in Nat,
           NEW next \in Pcs, NEW otherwise \in Pcs, Await(c, f, v, next, otherwise)
    PROVE \E d \in Calls :
             /\ call' = d
             /\ d.frame = c.frame /\ d.desc = c.desc /\ d.key = c.key /\ d.capture = c.capture
             /\ d.togo = c.togo /\ d.guides = c.guides /\ d.ok = c.ok /\ d.after = c.after
             /\ Where(d) = next /\ next # "wait"
             /\ \/ d.pc = next /\ fence[f] >= v
                \/ d.pc = "wait" /\ d.next = next /\ d.otherwise = otherwise /\ d.fence = f /\ d.value = v
<1>1. CASE fence[f] >= v
  <2>1. call' = [c EXCEPT !.pc = next]
    BY <1>1 DEF Await
  <2> DEFINE d == [c EXCEPT !.pc = next]
  <2>2. d \in Calls /\ d.pc = next /\ d.frame = c.frame /\ d.desc = c.desc /\ d.key = c.key /\ d.capture = c.capture
        /\ d.togo = c.togo /\ d.guides = c.guides /\ d.ok = c.ok /\ d.after = c.after
    BY DEF Calls
  <2>3. next # "wait"
    BY DEF Pcs
  <2> HIDE DEF d
  <2> QED BY <1>1, <2>1, <2>2, <2>3 DEF Where, d
<1>2. CASE ~(fence[f] >= v)
  <2>1. call' = [c EXCEPT !.pc = "wait", !.fence = f, !.value = v, !.next = next, !.otherwise = otherwise]
    BY <1>2 DEF Await
  <2> DEFINE d == [c EXCEPT !.pc = "wait", !.fence = f, !.value = v, !.next = next, !.otherwise = otherwise]
  <2>2. d \in Calls /\ d.pc = "wait" /\ d.next = next /\ d.otherwise = otherwise /\ d.fence = f /\ d.value = v
        /\ d.frame = c.frame /\ d.desc = c.desc /\ d.key = c.key /\ d.capture = c.capture
        /\ d.togo = c.togo /\ d.guides = c.guides /\ d.ok = c.ok /\ d.after = c.after
    BY DEF Calls
  <2>3. next # "wait"
    BY DEF Pcs
  <2> HIDE DEF d
  <2> QED BY <1>2, <2>1, <2>2, <2>3 DEF Where, d
<1> QED BY <1>1, <1>2

\* What has reached a value is behind everything that was to signal it.
LEMMA CopyArrives ==
    ASSUME IInv, lapses = {}
    PROVE /\ fence.copy >= copies.pre => Unused("pre")
          /\ fence.copy >= copies.post => Unused("post")
          /\ fence.copy >= copies.guide => Unused("guide")
<1>1. \A i \in DOMAIN q12 : q12[i].op \in CopyOps => Before(i, "copy", copies[q12[i].ctx])
  BY DEF IInv, Devices, Allocators
<1>2. \A i \in DOMAIN q12 : q12[i].ctx = CtxOf(q12[i].op) /\ q12[i].op \in Ops
  BY QueueFits DEF IInv, Kinds, Works
<1>3. \A i \in DOMAIN q12 : q12[i].ctx \in {"pre", "post", "guide"} => fence.copy < copies[q12[i].ctx]
  BY <1>1, <1>2, ContextOf DEF Before, Ops, CopyOps
<1>4. fence.copy \in Nat /\ copies.pre \in Nat /\ copies.post \in Nat /\ copies.guide \in Nat
  BY DEF IInv, TypeInv
<1> QED BY <1>3, <1>4 DEF Unused

LEMMA NativeArrives ==
    ASSUME IInv, lapses = {}, fence.native >= native.value
    PROVE NativeUnused
<1>1. \A i \in DOMAIN q12 : q12[i].op \in NativeOps /\ q12[i].gen = native.inst => fence.native < native.value
  BY DEF IInv, Devices, Bundles, Own, Before
<1>2. fence.native \in Nat /\ native.value \in Nat
  BY DEF IInv, TypeInv, Natives
<1> QED BY <1>1, <1>2 DEF NativeUnused

LEMMA D11Arrives ==
    ASSUME IInv, lapses = {}, fence.d11 >= d11.pending
    PROVE NoneLive
<1>1. \A k \in DOMAIN q11 : Live(k) => fence.d11 < d11.pending
  BY DEF IInv, Devices, Pending, Before11
<1>2. fence.d11 \in Nat /\ d11.pending \in Nat
  BY DEF IInv, TypeInv
<1> QED BY <1>1, <1>2 DEF NoneLive

\* The last command has run: so have those before it.
LEMMA BehindArrives ==
    ASSUME TypeInv, NEW ops, NEW f \in {"copy", "d11", "native"}, NEW v \in Nat, Behind(ops, f, v), fence[f] >= v
    PROVE \A i \in DOMAIN q12 : q12[i].op \notin ops
<1>1. \A i \in DOMAIN q12 : q12[i].op \in ops => fence[f] < v
  BY DEF Behind, Before
<1>2. fence[f] \in Nat
  BY DEF TypeInv
<1> QED BY <1>1, <1>2

LEMMA QueueEmpty ==
    ASSUME TypeInv, \A i \in DOMAIN q12 : q12[i].op \notin Ops
    PROVE q12 = <<>>
<1>1. DOMAIN q12 = {}
  BY QueueFits DEF Works
<1> QED BY <1>1, QueueFits DEF TypeInv

---------------------------------------------------------------------------
(* Steps that change the call alone.                                       *)

\* Facts are about the call and the rest of the state: what is true of d is true of the
\* call that d is.
LEMMA FactsOf ==
    ASSUME NEW d, call' = d, Facts(d)'
    PROVE Facts(call)'
<1>1. Waiting(call)'
  BY DEF Facts, Waiting
<1>2. Earlier(call)'
  BY DEF Facts, Earlier
<1>3. NonePending(call)'
  BY DEF Facts, NonePending
<1>4. Arrived(call)'
  BY DEF Facts, Arrived
<1>5. Last(call)'
  BY DEF Facts, Last
<1>6. Having(call)'
  BY DEF Facts, Having
<1>7. Ranked(call)'
  BY DEF Facts, Ranked
<1>8. Showing(call)'
  BY DEF Facts, Showing
<1>9. Historic(call)'
  BY DEF Facts, Historic
<1> QED BY <1>1, <1>2, <1>3, <1>4, <1>5, <1>6, <1>7, <1>8, <1>9 DEF Facts

\* No other variable but the events and the record of lapses.
LEMMA ThreadKeeps ==
    ASSUME IInv, NEW d \in Calls, call' = d, call.frame <= d.frame,
           UNCHANGED <<mode, q12, q11, fence, back, nativeVars, owned>>,
           lapses' = {} => lapses = {} /\ Facts(d)
    PROVE IInv'
<1> USE DEF nativeVars, owned
<1>1. TypeInv'
  BY DEF IInv, TypeInv
<1>2. Values'
  BY DEF IInv, Values, FenceOf
<1>3. Kinds'
  BY DEF IInv, Kinds
<1>4. Recent(call.frame)'
  <2>1. call.frame \in Nat /\ d.frame \in Nat /\ color.gen \in Nat /\ \A g \in Kind : surface[g].gen \in Nat
    BY DEF IInv, TypeInv, Calls, Surfaces
  <2>2. (\A i \in DOMAIN q12 : q12[i].frame \in Nat) /\ \A k \in DOMAIN q11 : q11[k].frame \in Nat
    BY QueueFits DEF IInv, Works
  <2> QED BY <2>1, <2>2 DEF IInv, Recent
<1>5. ASSUME lapses' = {} PROVE Devices' /\ Facts(call)'
  <2>1. Devices
    BY <1>5 DEF IInv
  <2>2. Allocators'
    BY <2>1 DEF Devices, Allocators, Before
  <2>3. Bundles'
    BY <2>1 DEF Devices, Bundles, Own, Bundled, Before
  <2>4. Pending'
    BY <2>1 DEF Devices, Pending, Live, Before11
  <2>5. Surfaced'
    BY <2>1 DEF Devices, Surfaced
  <2>6. Sorted'
    BY <2>1 DEF Devices, Sorted
  <2>7. Predicted'
    BY <2>1 DEF Devices, Predicted, ColorShows, CurrentShows, BackNeural, ColorNeural, None
  <2>8. Remembered'
    BY <2>1 DEF Devices, Remembered, None
  <2>9. Facts(d)
    BY <1>5
  <2>10. Facts(d)'
    <3>1. Waiting(d)' /\ Earlier(d)' /\ NonePending(d)'
      BY <2>9 DEF Facts, Waiting, Earlier, Older11, NonePending
    <3>2. Arrived(d)' /\ Last(d)'
      BY <2>9 DEF Facts, Arrived, Unused, NativeUnused, NoneLive, Live, Last, Behind, Before, Begun
    <3>3. Having(d)' /\ Ranked(d)'
      BY <2>9 DEF Facts, Having, Untouched, Ranked, Queue12, Older12
    <3>4. Showing(d)' /\ Historic(d)'
      BY <2>9 DEF Facts, Showing, ColorShows, CurrentShows, BackNeural, ColorNeural, None, End, Evaluating, Historic, Kept, Composed12
    <3> QED BY <3>1, <3>2, <3>3, <3>4 DEF Facts
  <2>11. Facts(call)'
    BY <2>10, FactsOf
  <2> QED BY <2>2, <2>3, <2>4, <2>5, <2>6, <2>7, <2>8, <2>11 DEF Devices
<1> QED BY <1>1, <1>2, <1>3, <1>4, <1>5 DEF IInv

\* What the actions that only move the call rely on.
LEMMA CallFits ==
    ASSUME IInv
    PROVE /\ call \in Calls /\ call.frame \in Nat
          /\ copies.pre \in Nat /\ copies.post \in Nat /\ copies.guide \in Nat /\ native.value \in Nat
          /\ LastCopy \in Nat
<1>1. call \in Calls /\ copies.pre \in Nat /\ copies.post \in Nat /\ copies.guide \in Nat /\ native.value \in Nat
  BY DEF IInv, TypeInv, Natives
<1>2. call.frame \in Nat
  BY <1>1 DEF Calls
<1>3. LastCopy \in Nat
  BY <1>1 DEF LastCopy, Max
<1> QED BY <1>1, <1>2, <1>3

LEMMA CopiesUnused ==
    ASSUME IInv, \A i \in DOMAIN q12 : q12[i].op \notin CopyOps
    PROVE Unused("pre") /\ Unused("post") /\ Unused("guide")
<1>1. \A i \in DOMAIN q12 : q12[i].ctx = CtxOf(q12[i].op) /\ q12[i].op \in Ops
  BY QueueFits DEF IInv, Kinds, Works
<1> QED BY <1>1, ContextOf DEF Unused, Ops, CopyOps

LEMMA StageGuideKeeps ==
    ASSUME IInv, StageGuide
    PROVE IInv'
<1>1. PICK d \in Calls :
          /\ call' = d
          /\ d.frame = call.frame /\ d.desc = call.desc /\ d.key = call.key /\ d.capture = call.capture
          /\ d.togo = call.togo /\ d.guides = call.guides /\ d.ok = call.ok /\ d.after = call.after
          /\ Where(d) = "stage" /\ "stage" # "wait" /\ call.pc = "guides" /\ call.togo # {}
          /\ \/ d.pc = "stage" /\ fence.copy >= copies.guide
             \/ d.pc = "wait" /\ d.next = "stage" /\ d.otherwise = "unstaged" /\ d.fence = "copy" /\ d.value = copies.guide
  <2>1. "stage" \in Pcs /\ "unstaged" \in Pcs
    BY DEF Pcs
  <2>2. Await(call, "copy", copies.guide, "stage", "unstaged") /\ call.pc = "guides" /\ call.togo # {}
    BY DEF StageGuide
  <2> QED BY <2>1, <2>2, AwaitGoes, CallFits DEF IInv
<1>2. ASSUME lapses' = {} PROVE lapses = {} /\ Facts(d)
  <2>1. lapses = {} /\ Waiting(call) /\ Earlier(call) /\ NonePending(call) /\ Arrived(call) /\ Last(call) /\ Having(call) /\ Ranked(call) /\ Showing(call) /\ Historic(call)
    BY <1>2 DEF IInv, Facts, StageGuide
  <2>2. Waiting(d)
    BY <1>1, <2>1 DEF Waiting, Pcs
  <2>3. Earlier(d)
    BY <1>1, <2>1 DEF Earlier, Where, Coloring, Presented, Preparing, Guiding, Resets
  <2>4. NonePending(d)
    BY <1>1, <2>1 DEF NonePending, Where, Coloring, Presented, Preparing, Guiding, Resets
  <2>5. Arrived(d)
    BY <1>1, <2>1, CopyArrives DEF Arrived, Where, Coloring, Presented, Preparing, Guiding, Resets
  <2>6. Last(d)
    BY <1>1, <2>1 DEF Last
  <2>7. Having(d)
    BY <1>1, <2>1 DEF Having, Where, Coloring, Presented, Preparing, Guiding, Resets, Untouched, Upcoming
  <2>8. Ranked(d)
    BY <1>1, <2>1 DEF Ranked, Reach, Where, Coloring, Presented, Preparing, Guiding, Resets
  <2>9. Showing(d)
    BY <1>1, <2>1 DEF Showing, Where, Coloring, Presented, Preparing, Guiding, Resets
  <2>10. Historic(d)
    BY <1>1, <2>1 DEF Historic, Where, Coloring, Presented, Preparing, Guiding, Resets
  <2> QED BY <2>1, <2>2, <2>3, <2>4, <2>5, <2>6, <2>7, <2>8, <2>9, <2>10 DEF Facts
<1> QED BY <1>1, <1>2, ThreadKeeps, CallFits DEF StageGuide, nativeVars, owned

LEMMA StageWaitKeeps ==
    ASSUME IInv, StageWait
    PROVE IInv'
<1>1. PICK d \in Calls :
          /\ call' = d
          /\ d.frame = call.frame /\ d.desc = call.desc /\ d.key = call.key /\ d.capture = call.capture
          /\ d.togo = call.togo /\ d.guides = call.guides /\ d.ok = call.ok /\ d.after = call.after
          /\ Where(d) = "staged" /\ "staged" # "wait" /\ call.pc = "stageWait"
          /\ \/ d.pc = "staged" /\ fence.copy >= copies.guide
             \/ d.pc = "wait" /\ d.next = "staged" /\ d.otherwise = "unstaged" /\ d.fence = "copy" /\ d.value = copies.guide
  <2>1. "staged" \in Pcs /\ "unstaged" \in Pcs
    BY DEF Pcs
  <2>2. Await(call, "copy", copies.guide, "staged", "unstaged") /\ call.pc = "stageWait"
    BY DEF StageWait
  <2> QED BY <2>1, <2>2, AwaitGoes, CallFits DEF IInv
<1>2. ASSUME lapses' = {} PROVE lapses = {} /\ Facts(d)
  <2>1. lapses = {} /\ Waiting(call) /\ Earlier(call) /\ NonePending(call) /\ Arrived(call) /\ Last(call) /\ Having(call) /\ Ranked(call) /\ Showing(call) /\ Historic(call)
    BY <1>2 DEF IInv, Facts, StageWait
  <2>2. Waiting(d)
    BY <1>1, <2>1 DEF Waiting, Pcs
  <2>3. Earlier(d)
    BY <1>1, <2>1 DEF Earlier, Where, Coloring, Presented, Preparing, Guiding, Resets
  <2>4. NonePending(d)
    BY <1>1, <2>1 DEF NonePending, Where, Coloring, Presented, Preparing, Guiding, Resets
  <2>5. Arrived(d)
    BY <1>1, <2>1, CopyArrives DEF Arrived, Where, Coloring, Presented, Preparing, Guiding, Resets
  <2>6. Last(d)
    BY <1>1, <2>1 DEF Last
  <2>7. Having(d)
    BY <1>1, <2>1 DEF Having, Where, Coloring, Presented, Preparing, Guiding, Resets, Untouched, Upcoming
  <2>8. Ranked(d)
    BY <1>1, <2>1 DEF Ranked, Reach, Where, Coloring, Presented, Preparing, Guiding, Resets
  <2>9. Showing(d)
    BY <1>1, <2>1 DEF Showing, Where, Coloring, Presented, Preparing, Guiding, Resets
  <2>10. Historic(d)
    BY <1>1, <2>1 DEF Historic, Where, Coloring, Presented, Preparing, Guiding, Resets
  <2> QED BY <2>1, <2>2, <2>3, <2>4, <2>5, <2>6, <2>7, <2>8, <2>9, <2>10 DEF Facts
<1> QED BY <1>1, <1>2, ThreadKeeps, CallFits DEF StageWait, nativeVars, owned

LEMMA ResetBeginsKeeps ==
    ASSUME IInv, ResetBegins
    PROVE IInv'
<1>1. PICK d \in Calls :
          /\ call' = d
          /\ d.frame = call.frame /\ d.desc = call.desc /\ d.key = call.key /\ d.capture = call.capture
          /\ d.togo = call.togo /\ d.guides = call.guides /\ d.ok = call.ok /\ d.after = call.after
          /\ Where(d) = "resetNative" /\ "resetNative" # "wait" /\ call.pc = "reset"
          /\ \/ d.pc = "resetNative" /\ fence.native >= native.value
             \/ d.pc = "wait" /\ d.next = "resetNative" /\ d.otherwise = "resetCopies" /\ d.fence = "native" /\ d.value = native.value
  <2>1. "resetNative" \in Pcs /\ "resetCopies" \in Pcs
    BY DEF Pcs
  <2>2. Await(call, "native", native.value, "resetNative", "resetCopies") /\ call.pc = "reset"
    BY DEF ResetBegins
  <2> QED BY <2>1, <2>2, AwaitGoes, CallFits DEF IInv
<1>2. ASSUME lapses' = {} PROVE lapses = {} /\ Facts(d)
  <2>1. lapses = {} /\ Waiting(call) /\ Earlier(call) /\ NonePending(call) /\ Arrived(call) /\ Last(call) /\ Having(call) /\ Ranked(call) /\ Showing(call) /\ Historic(call)
    BY <1>2 DEF IInv, Facts, ResetBegins
  <2>2. Waiting(d)
    BY <1>1, <2>1 DEF Waiting, Pcs
  <2>3. Earlier(d)
    BY <1>1, <2>1 DEF Earlier, Where, Coloring, Presented, Preparing, Guiding, Resets
  <2>4. NonePending(d)
    BY <1>1, <2>1 DEF NonePending, Where, Coloring, Presented, Preparing, Guiding, Resets
  <2>5. Arrived(d)
    BY <1>1, <2>1, NativeArrives DEF Arrived, Where, Coloring, Presented, Preparing, Guiding, Resets
  <2>6. Last(d)
    BY <1>1, <2>1 DEF Last
  <2>7. Having(d)
    BY <1>1, <2>1 DEF Having, Where, Coloring, Presented, Preparing, Guiding, Resets, Untouched, Upcoming
  <2>8. Ranked(d)
    BY <1>1, <2>1 DEF Ranked, Reach, Where, Coloring, Presented, Preparing, Guiding, Resets
  <2>9. Showing(d)
    BY <1>1, <2>1 DEF Showing, Where, Coloring, Presented, Preparing, Guiding, Resets
  <2>10. Historic(d)
    BY <1>1, <2>1 DEF Historic, Where, Coloring, Presented, Preparing, Guiding, Resets
  <2> QED BY <2>1, <2>2, <2>3, <2>4, <2>5, <2>6, <2>7, <2>8, <2>9, <2>10 DEF Facts
<1> QED BY <1>1, <1>2, ThreadKeeps, CallFits DEF ResetBegins, nativeVars, owned

LEMMA ResetCopiesKeeps ==
    ASSUME IInv, ResetCopies
    PROVE IInv'
<1>1. PICK d \in Calls :
          /\ call' = d
          /\ d.frame = call.frame /\ d.desc = call.desc /\ d.key = call.key /\ d.capture = call.capture
          /\ d.togo = call.togo /\ d.guides = call.guides /\ d.ok = call.ok /\ d.after = call.after
          /\ Where(d) = "resetOwned" /\ "resetOwned" # "wait" /\ call.pc = "resetCopies"
          /\ \/ d.pc = "resetOwned" /\ fence.copy >= LastCopy
             \/ d.pc = "wait" /\ d.next = "resetOwned" /\ d.otherwise = "resetOwned" /\ d.fence = "copy" /\ d.value = LastCopy
  <2>1. "resetOwned" \in Pcs /\ "resetOwned" \in Pcs
    BY DEF Pcs
  <2>2. Await(call, "copy", LastCopy, "resetOwned", "resetOwned") /\ call.pc = "resetCopies"
    BY DEF ResetCopies
  <2> QED BY <2>1, <2>2, AwaitGoes, CallFits DEF IInv
<1>2. ASSUME lapses' = {} PROVE lapses = {} /\ Facts(d)
  <2>1. lapses = {} /\ Waiting(call) /\ Earlier(call) /\ NonePending(call) /\ Arrived(call) /\ Last(call) /\ Having(call) /\ Ranked(call) /\ Showing(call) /\ Historic(call)
    BY <1>2 DEF IInv, Facts, ResetCopies
  <2>2. Waiting(d)
    BY <1>1, <2>1 DEF Waiting, Pcs
  <2>3. Earlier(d)
    BY <1>1, <2>1 DEF Earlier, Where, Coloring, Presented, Preparing, Guiding, Resets
  <2>4. NonePending(d)
    BY <1>1, <2>1 DEF NonePending, Where, Coloring, Presented, Preparing, Guiding, Resets
  <2>5. Arrived(d)
    BY <1>1, <2>1 DEF Arrived, Where, Coloring, Presented, Preparing, Guiding, Resets
  <2>6. Last(d)
    BY <1>1, <2>1 DEF Last
  <2>7. Having(d)
    BY <1>1, <2>1 DEF Having, Where, Coloring, Presented, Preparing, Guiding, Resets, Untouched, Upcoming
  <2>8. Ranked(d)
    BY <1>1, <2>1 DEF Ranked, Reach, Where, Coloring, Presented, Preparing, Guiding, Resets
  <2>9. Showing(d)
    BY <1>1, <2>1 DEF Showing, Where, Coloring, Presented, Preparing, Guiding, Resets
  <2>10. Historic(d)
    BY <1>1, <2>1 DEF Historic, Where, Coloring, Presented, Preparing, Guiding, Resets
  <2> QED BY <2>1, <2>2, <2>3, <2>4, <2>5, <2>6, <2>7, <2>8, <2>9, <2>10 DEF Facts
<1> QED BY <1>1, <1>2, ThreadKeeps, CallFits DEF ResetCopies, nativeVars, owned

LEMMA DestroyKeeps ==
    ASSUME IInv, Destroy
    PROVE IInv'
<1>1. PICK d \in Calls :
          /\ call' = d
          /\ d.frame = call.frame /\ d.desc = call.desc /\ d.key = call.key /\ d.capture = call.capture
          /\ d.togo = call.togo /\ d.guides = call.guides /\ d.ok = call.ok /\ d.after = call.after
          /\ Where(d) = "destroyed" /\ "destroyed" # "wait" /\ call.pc = "down"
          /\ \/ d.pc = "destroyed" /\ fence.native >= native.value
             \/ d.pc = "wait" /\ d.next = "destroyed" /\ d.otherwise = "destroyed" /\ d.fence = "native" /\ d.value = native.value
  <2>1. "destroyed" \in Pcs /\ "destroyed" \in Pcs
    BY DEF Pcs
  <2>2. Await(call, "native", native.value, "destroyed", "destroyed") /\ call.pc = "down"
    BY DEF Destroy
  <2> QED BY <2>1, <2>2, AwaitGoes, CallFits DEF IInv
<1>2. ASSUME lapses' = {} PROVE lapses = {} /\ Facts(d)
  <2>1. lapses = {} /\ Waiting(call) /\ Earlier(call) /\ NonePending(call) /\ Arrived(call) /\ Last(call) /\ Having(call) /\ Ranked(call) /\ Showing(call) /\ Historic(call)
    BY <1>2 DEF IInv, Facts, Destroy
  <2>2. Waiting(d)
    BY <1>1, <2>1 DEF Waiting, Pcs
  <2>3. Earlier(d)
    BY <1>1, <2>1 DEF Earlier, Where, Coloring, Presented, Preparing, Guiding, Resets
  <2>4. NonePending(d)
    BY <1>1, <2>1 DEF NonePending, Where, Coloring, Presented, Preparing, Guiding, Resets
  <2>5. Arrived(d)
    BY <1>1, <2>1 DEF Arrived, Where, Coloring, Presented, Preparing, Guiding, Resets
  <2>6. Last(d)
    BY <1>1, <2>1 DEF Last
  <2>7. Having(d)
    BY <1>1, <2>1 DEF Having, Where, Coloring, Presented, Preparing, Guiding, Resets, Untouched, Upcoming
  <2>8. Ranked(d)
    BY <1>1, <2>1 DEF Ranked, Reach, Where, Coloring, Presented, Preparing, Guiding, Resets
  <2>9. Showing(d)
    BY <1>1, <2>1 DEF Showing, Where, Coloring, Presented, Preparing, Guiding, Resets
  <2>10. Historic(d)
    BY <1>1, <2>1 DEF Historic, Where, Coloring, Presented, Preparing, Guiding, Resets
  <2> QED BY <2>1, <2>2, <2>3, <2>4, <2>5, <2>6, <2>7, <2>8, <2>9, <2>10 DEF Facts
<1> QED BY <1>1, <1>2, ThreadKeeps, CallFits DEF Destroy, nativeVars, owned

LEMMA RetryNeuralKeeps ==
    ASSUME IInv, RetryNeural
    PROVE IInv'
<1>1. PICK d \in Calls :
          /\ call' = d
          /\ d.frame = call.frame /\ d.desc = call.desc /\ d.key = call.key /\ d.capture = call.capture
          /\ d.togo = call.togo /\ d.guides = call.guides /\ d.ok = call.ok /\ d.after = call.after
          /\ Where(d) = "retried" /\ "retried" # "wait" /\ call.pc = "idle"
          /\ \/ d.pc = "retried" /\ fence.native >= native.value
             \/ d.pc = "wait" /\ d.next = "retried" /\ d.otherwise = "idle" /\ d.fence = "native" /\ d.value = native.value
  <2>1. "retried" \in Pcs /\ "idle" \in Pcs
    BY DEF Pcs
  <2>2. Await(call, "native", native.value, "retried", "idle") /\ call.pc = "idle"
    BY DEF RetryNeural
  <2> QED BY <2>1, <2>2, AwaitGoes, CallFits DEF IInv
<1>2. ASSUME lapses' = {} PROVE lapses = {} /\ Facts(d)
  <2>1. lapses = {} /\ Waiting(call) /\ Earlier(call) /\ NonePending(call) /\ Arrived(call) /\ Last(call) /\ Having(call) /\ Ranked(call) /\ Showing(call) /\ Historic(call)
    BY <1>2 DEF IInv, Facts, RetryNeural
  <2>2. Waiting(d)
    BY <1>1, <2>1 DEF Waiting, Pcs
  <2>3. Earlier(d)
    BY <1>1, <2>1 DEF Earlier, Where, Coloring, Presented, Preparing, Guiding, Resets
  <2>4. NonePending(d)
    BY <1>1, <2>1 DEF NonePending, Where, Coloring, Presented, Preparing, Guiding, Resets
  <2>5. Arrived(d)
    BY <1>1, <2>1, NativeArrives DEF Arrived, Where, Coloring, Presented, Preparing, Guiding, Resets
  <2>6. Last(d)
    BY <1>1, <2>1 DEF Last
  <2>7. Having(d)
    BY <1>1, <2>1 DEF Having, Where, Coloring, Presented, Preparing, Guiding, Resets, Untouched, Upcoming
  <2>8. Ranked(d)
    BY <1>1, <2>1 DEF Ranked, Reach, Where, Coloring, Presented, Preparing, Guiding, Resets
  <2>9. Showing(d)
    BY <1>1, <2>1 DEF Showing, Where, Coloring, Presented, Preparing, Guiding, Resets
  <2>10. Historic(d)
    BY <1>1, <2>1 DEF Historic, Where, Coloring, Presented, Preparing, Guiding, Resets
  <2> QED BY <2>1, <2>2, <2>3, <2>4, <2>5, <2>6, <2>7, <2>8, <2>9, <2>10 DEF Facts
<1> QED BY <1>1, <1>2, ThreadKeeps, CallFits DEF RetryNeural, nativeVars, owned

LEMMA NativeFinishKeeps ==
    ASSUME IInv, NativeFinish /\ UNCHANGED owned
    PROVE IInv'
<1>1. PICK d \in Calls :
          /\ call' = d
          /\ d.frame = call.frame /\ d.desc = call.desc /\ d.key = call.key /\ d.capture = call.capture
          /\ d.togo = call.togo /\ d.guides = call.guides /\ d.ok = call.ok /\ d.after = call.after
          /\ Where(d) = "nativeDone" /\ "nativeDone" # "wait" /\ call.pc = "nativeFinish"
          /\ \/ d.pc = "nativeDone" /\ fence.native >= native.value
             \/ d.pc = "wait" /\ d.next = "nativeDone" /\ d.otherwise = "nativeGone" /\ d.fence = "native" /\ d.value = native.value
  <2>1. "nativeDone" \in Pcs /\ "nativeGone" \in Pcs
    BY DEF Pcs
  <2>2. Await(call, "native", native.value, "nativeDone", "nativeGone") /\ call.pc = "nativeFinish"
    BY DEF NativeFinish
  <2> QED BY <2>1, <2>2, AwaitGoes, CallFits DEF IInv
<1>2. ASSUME lapses' = {} PROVE lapses = {} /\ Facts(d)
  <2>1. lapses = {} /\ Waiting(call) /\ Earlier(call) /\ NonePending(call) /\ Arrived(call) /\ Last(call) /\ Having(call) /\ Ranked(call) /\ Showing(call) /\ Historic(call)
    BY <1>2 DEF IInv, Facts, NativeFinish
  <2>0. fence.native >= native.value => q12 = <<>>
    BY <1>1, <2>1, BehindArrives, QueueEmpty, CallFits DEF Last, IInv
  <2>2. Waiting(d)
    BY <1>1, <2>1 DEF Waiting, Pcs
  <2>3. Earlier(d)
    BY <1>1, <2>1 DEF Earlier, Where, Coloring, Presented, Preparing, Guiding, Resets
  <2>4. NonePending(d)
    BY <1>1, <2>1 DEF NonePending, Where, Coloring, Presented, Preparing, Guiding, Resets
  <2>5. Arrived(d)
    BY <1>1, <2>1, <2>0 DEF Arrived, Where, Coloring, Presented, Preparing, Guiding, Resets
  <2>6. Last(d)
    BY <1>1, <2>1 DEF Last
  <2>7. Having(d)
    BY <1>1, <2>1 DEF Having, Where, Coloring, Presented, Preparing, Guiding, Resets, Untouched, Upcoming
  <2>8. Ranked(d)
    BY <1>1, <2>1 DEF Ranked, Reach, Where, Coloring, Presented, Preparing, Guiding, Resets
  <2>9. Showing(d)
    BY <1>1, <2>1 DEF Showing, Where, Coloring, Presented, Preparing, Guiding, Resets
  <2>10. Historic(d)
    BY <1>1, <2>1 DEF Historic, Where, Coloring, Presented, Preparing, Guiding, Resets
  <2> QED BY <2>1, <2>2, <2>3, <2>4, <2>5, <2>6, <2>7, <2>8, <2>9, <2>10 DEF Facts
<1> QED BY <1>1, <1>2, ThreadKeeps, CallFits DEF NativeFinish, nativeVars, owned

LEMMA CopiedInKeeps ==
    ASSUME IInv, CopiedIn
    PROVE IInv'
<1>1. PICK d \in Calls :
          /\ call' = d
          /\ d.frame = call.frame /\ d.desc = call.desc /\ d.key = call.key /\ d.capture = call.capture
          /\ d.togo = call.togo /\ d.guides = call.guides /\ d.ok = call.ok /\ d.after = call.after
          /\ Where(d) = "capture" /\ "capture" # "wait" /\ call.pc = "copiedIn"
          /\ \/ d.pc = "capture" /\ (mode = "recovery" => fence.copy >= copies.pre)
             \/ mode = "recovery" /\ d.pc = "wait" /\ d.next = "capture" /\ d.otherwise = "refused" /\ d.fence = "copy" /\ d.value = copies.pre
  <2>1. CASE mode = "recovery"
    <3>1. "capture" \in Pcs /\ "refused" \in Pcs
      BY DEF Pcs
    <3>2. Await(call, "copy", copies.pre, "capture", "refused") /\ call.pc = "copiedIn"
      BY <2>1 DEF CopiedIn
    <3> QED BY <2>1, <3>1, <3>2, AwaitGoes, CallFits DEF IInv
  <2>2. CASE mode # "recovery"
    <3> DEFINE d == [call EXCEPT !.pc = "capture"]
    <3>1. d \in Calls /\ d.pc = "capture" /\ d.frame = call.frame /\ d.desc = call.desc /\ d.key = call.key /\ d.capture = call.capture
          /\ d.togo = call.togo /\ d.guides = call.guides /\ d.ok = call.ok /\ d.after = call.after
      BY CallFits DEF Calls, Pcs
    <3>2. call' = d /\ call.pc = "copiedIn"
      BY <2>2 DEF CopiedIn
    <3> HIDE DEF d
    <3> QED BY <2>2, <3>1, <3>2 DEF Where
  <2> QED BY <2>1, <2>2
<1>2. ASSUME lapses' = {} PROVE lapses = {} /\ Facts(d)
  <2>1. lapses = {} /\ Waiting(call) /\ Earlier(call) /\ NonePending(call) /\ Arrived(call) /\ Last(call) /\ Having(call) /\ Ranked(call) /\ Showing(call) /\ Historic(call)
    BY <1>2 DEF IInv, Facts, CopiedIn
  <2>0. fence.copy >= copies.pre => Unused("pre") /\ Unused("post") /\ Unused("guide")
    <3>1. SUFFICES ASSUME fence.copy >= copies.pre PROVE Unused("pre") /\ Unused("post") /\ Unused("guide")
      OBVIOUS
    <3>2. \A i \in DOMAIN q12 : q12[i].op \notin CopyOps
      BY <1>1, <2>1, <3>1, BehindArrives, CallFits DEF Last, IInv
    <3> QED BY <3>2, CopiesUnused
  <2>2. Waiting(d)
    BY <1>1, <2>1 DEF Waiting, Pcs
  <2>3. Earlier(d)
    BY <1>1, <2>1 DEF Earlier, Where, Coloring, Presented, Preparing, Guiding, Resets
  <2>4. NonePending(d)
    BY <1>1, <2>1 DEF NonePending, Where, Coloring, Presented, Preparing, Guiding, Resets
  <2>5. Arrived(d)
    BY <1>1, <2>1, <2>0 DEF Arrived, Where, Coloring, Presented, Preparing, Guiding, Resets
  <2>6. Last(d)
    BY <1>1, <2>1 DEF Last
  <2>7. Having(d)
    BY <1>1, <2>1 DEF Having, Where, Coloring, Presented, Preparing, Guiding, Resets, Untouched, Upcoming
  <2>8. Ranked(d)
    BY <1>1, <2>1 DEF Ranked, Reach, Where, Coloring, Presented, Preparing, Guiding, Resets
  <2>9. Showing(d)
    BY <1>1, <2>1 DEF Showing, Where, Coloring, Presented, Preparing, Guiding, Resets
  <2>10. Historic(d)
    BY <1>1, <2>1 DEF Historic, Where, Coloring, Presented, Preparing, Guiding, Resets
  <2> QED BY <2>1, <2>2, <2>3, <2>4, <2>5, <2>6, <2>7, <2>8, <2>9, <2>10 DEF Facts
<1> QED BY <1>1, <1>2, ThreadKeeps, CallFits DEF CopiedIn, nativeVars, owned

LEMMA CopiedOutKeeps ==
    ASSUME IInv, CopiedOut
    PROVE IInv'
<1>1. PICK d \in Calls :
          /\ call' = d
          /\ d.frame = call.frame /\ d.desc = call.desc /\ d.key = call.key /\ d.capture = call.capture
          /\ d.togo = call.togo /\ d.guides = call.guides /\ d.ok = call.ok /\ d.after = call.after
          /\ Where(d) = "processed" /\ "processed" # "wait" /\ call.pc = "copiedOut"
          /\ \/ d.pc = "processed" /\ (mode = "recovery" => fence.copy >= copies.post)
             \/ mode = "recovery" /\ d.pc = "wait" /\ d.next = "processed" /\ d.otherwise = "refused" /\ d.fence = "copy" /\ d.value = copies.post
  <2>1. CASE mode = "recovery"
    <3>1. "processed" \in Pcs /\ "refused" \in Pcs
      BY DEF Pcs
    <3>2. Await(call, "copy", copies.post, "processed", "refused") /\ call.pc = "copiedOut"
      BY <2>1 DEF CopiedOut
    <3> QED BY <2>1, <3>1, <3>2, AwaitGoes, CallFits DEF IInv
  <2>2. CASE mode # "recovery"
    <3> DEFINE d == [call EXCEPT !.pc = "processed"]
    <3>1. d \in Calls /\ d.pc = "processed" /\ d.frame = call.frame /\ d.desc = call.desc /\ d.key = call.key /\ d.capture = call.capture
          /\ d.togo = call.togo /\ d.guides = call.guides /\ d.ok = call.ok /\ d.after = call.after
      BY CallFits DEF Calls, Pcs
    <3>2. call' = d /\ call.pc = "copiedOut"
      BY <2>2 DEF CopiedOut
    <3> HIDE DEF d
    <3> QED BY <2>2, <3>1, <3>2 DEF Where
  <2> QED BY <2>1, <2>2
<1>2. ASSUME lapses' = {} PROVE lapses = {} /\ Facts(d)
  <2>1. lapses = {} /\ Waiting(call) /\ Earlier(call) /\ NonePending(call) /\ Arrived(call) /\ Last(call) /\ Having(call) /\ Ranked(call) /\ Showing(call) /\ Historic(call)
    BY <1>2 DEF IInv, Facts, CopiedOut
  <2>2. Waiting(d)
    BY <1>1, <2>1 DEF Waiting, Pcs
  <2>3. Earlier(d)
    BY <1>1, <2>1 DEF Earlier, Where, Coloring, Presented, Preparing, Guiding, Resets
  <2>4. NonePending(d)
    BY <1>1, <2>1 DEF NonePending, Where, Coloring, Presented, Preparing, Guiding, Resets
  <2>5. Arrived(d)
    BY <1>1, <2>1 DEF Arrived, Where, Coloring, Presented, Preparing, Guiding, Resets
  <2>6. Last(d)
    BY <1>1, <2>1 DEF Last
  <2>7. Having(d)
    BY <1>1, <2>1 DEF Having, Where, Coloring, Presented, Preparing, Guiding, Resets, Untouched, Upcoming
  <2>8. Ranked(d)
    BY <1>1, <2>1 DEF Ranked, Reach, Where, Coloring, Presented, Preparing, Guiding, Resets
  <2>9. Showing(d)
    BY <1>1, <2>1 DEF Showing, Where, Coloring, Presented, Preparing, Guiding, Resets
  <2>10. Historic(d)
    BY <1>1, <2>1 DEF Historic, Where, Coloring, Presented, Preparing, Guiding, Resets
  <2> QED BY <2>1, <2>2, <2>3, <2>4, <2>5, <2>6, <2>7, <2>8, <2>9, <2>10 DEF Facts
<1> QED BY <1>1, <1>2, ThreadKeeps, CallFits DEF CopiedOut, nativeVars, owned

LEMMA StopKeeps ==
    ASSUME IInv, Stop
    PROVE IInv'
<1>1. PICK d \in Calls :
          /\ call' = d /\ call.pc = "idle" /\ d.pc = "reset" /\ d.after \in {"idle", "down"}
          /\ d.frame = call.frame /\ d.togo = call.togo /\ d.guides = call.guides
  <2>1. PICK after \in {"idle", "down"} : call' = [call EXCEPT !.pc = "reset", !.after = after]
    BY DEF Stop
  <2> DEFINE d == [call EXCEPT !.pc = "reset", !.after = after]
  <2>9. "reset" \in Pcs
    BY DEF Pcs
  <2>2. d \in Calls /\ d.pc = "reset" /\ d.after = after /\ d.frame = call.frame /\ d.togo = call.togo /\ d.guides = call.guides
    BY <2>9, <2>1, CallFits DEF Calls
  <2>3. call' = d /\ call.pc = "idle"
    BY <2>1 DEF Stop
  <2> HIDE DEF d
  <2> QED BY <2>2, <2>3
<1>2. ASSUME lapses' = {} PROVE lapses = {} /\ Facts(d)
  <2>1. lapses = {} /\ Waiting(call) /\ Earlier(call) /\ NonePending(call) /\ Arrived(call) /\ Last(call) /\ Having(call) /\ Ranked(call) /\ Showing(call) /\ Historic(call)
    BY <1>2 DEF IInv, Facts, Stop
  <2>2. Waiting(d)
    BY <1>1, <2>1 DEF Waiting, Pcs
  <2>3. Earlier(d)
    BY <1>1, <2>1 DEF Earlier, Where, Coloring, Presented, Preparing, Guiding, Resets
  <2>4. NonePending(d)
    BY <1>1, <2>1 DEF NonePending, Where, Coloring, Presented, Preparing, Guiding, Resets
  <2>5. Arrived(d)
    BY <1>1, <2>1 DEF Arrived, Where, Coloring, Presented, Preparing, Guiding, Resets
  <2>6. Last(d)
    BY <1>1, <2>1 DEF Last
  <2>7. Having(d)
    BY <1>1, <2>1 DEF Having, Where, Coloring, Presented, Preparing, Guiding, Resets, Untouched, Upcoming
  <2>8. Ranked(d)
    BY <1>1, <2>1 DEF Ranked, Reach, Where, Coloring, Presented, Preparing, Guiding, Resets
  <2>9. Showing(d)
    BY <1>1, <2>1 DEF Showing, Where, Coloring, Presented, Preparing, Guiding, Resets
  <2>10. Historic(d)
    BY <1>1, <2>1 DEF Historic, Where, Coloring, Presented, Preparing, Guiding, Resets
  <2> QED BY <2>1, <2>2, <2>3, <2>4, <2>5, <2>6, <2>7, <2>8, <2>9, <2>10 DEF Facts
<1> QED BY <1>1, <1>2, ThreadKeeps, CallFits DEF Stop, nativeVars, owned

LEMMA CaptureKeeps ==
    ASSUME IInv, Capture
    PROVE IInv'
<1>1. PICK d \in Calls :
          /\ call' = d /\ call.pc = "capture" /\ d.pc = "guides"
          /\ d.frame = call.frame /\ d.desc = call.desc /\ d.guides = call.guides /\ d.ok = call.ok
          /\ mode # "recovery" => d.togo = {}
  <2>1. PICK capture \in Captures : call' = [call EXCEPT !.pc = "guides", !.capture = capture, !.togo = Staged(capture)]
    BY DEF Capture
  <2> DEFINE d == [call EXCEPT !.pc = "guides", !.capture = capture, !.togo = Staged(capture)]
  <2>2. capture \in [kind : {"none", "transient", "foreign", "tagged", "snapshot"}, guides : SUBSET Kind]
    BY QueuesAssumption DEF Kind
  <2>3. Staged(capture) \in SUBSET Kind /\ (mode # "recovery" => Staged(capture) = {})
    BY <2>2 DEF Staged
  <2>9. "guides" \in Pcs
    BY DEF Pcs
  <2>4. d \in Calls /\ d.pc = "guides" /\ d.togo = Staged(capture)
        /\ d.frame = call.frame /\ d.desc = call.desc /\ d.guides = call.guides /\ d.ok = call.ok
    BY <2>9, <2>2, <2>3, CallFits DEF Calls, Kind
  <2>5. call' = d /\ call.pc = "capture"
    BY <2>1 DEF Capture
  <2> HIDE DEF d
  <2> QED BY <2>3, <2>4, <2>5
<1>2. ASSUME lapses' = {} PROVE lapses = {} /\ Facts(d)
  <2>1. lapses = {} /\ Waiting(call) /\ Earlier(call) /\ NonePending(call) /\ Arrived(call) /\ Last(call) /\ Having(call) /\ Ranked(call) /\ Showing(call) /\ Historic(call)
    BY <1>2 DEF IInv, Facts, Capture
  <2>0. \A i \in DOMAIN q12 : q12[i].op = "copyGuide" => q12[i].ctx = "guide"
    BY ContextOf DEF IInv, Kinds
  <2>12. Untouched(d)
    <3>1. CASE mode = "recovery"
      BY <2>0, <1>1, <2>1, <3>1 DEF Untouched, Arrived, Unused
    <3>2. CASE mode # "recovery"
      BY <1>1, <2>1, <3>2 DEF Having, Untouched
    <3> QED BY <3>1, <3>2
  <2>2. Waiting(d)
    BY <1>1, <2>1 DEF Waiting, Pcs
  <2>3. Earlier(d)
    BY <1>1, <2>1 DEF Earlier, Where, Coloring, Presented, Preparing, Guiding, Resets
  <2>4. NonePending(d)
    BY <1>1, <2>1 DEF NonePending, Where, Coloring, Presented, Preparing, Guiding, Resets
  <2>5. Arrived(d)
    BY <1>1, <2>1 DEF Arrived, Where, Coloring, Presented, Preparing, Guiding, Resets
  <2>6. Last(d)
    BY <1>1, <2>1 DEF Last
  <2>7. Having(d)
    BY <1>1, <2>1, <2>12 DEF Having, Where, Coloring, Presented, Preparing, Guiding, Resets
  <2>8. Ranked(d)
    BY <1>1, <2>1 DEF Ranked, Reach, Where, Coloring, Presented, Preparing, Guiding, Resets
  <2>9. Showing(d)
    BY <1>1, <2>1 DEF Showing, Where, Coloring, Presented, Preparing, Guiding, Resets
  <2>10. Historic(d)
    BY <1>1, <2>1 DEF Historic, Where, Coloring, Presented, Preparing, Guiding, Resets
  <2> QED BY <2>1, <2>2, <2>3, <2>4, <2>5, <2>6, <2>7, <2>8, <2>9, <2>10 DEF Facts
<1> QED BY <1>1, <1>2, ThreadKeeps, CallFits DEF Capture, nativeVars, owned

LEMMA GuideStagedKeeps ==
    ASSUME IInv, GuideStaged
    PROVE IInv'
<1>1. PICK d \in Calls :
          /\ call' = d /\ call.pc \in {"staged", "unstaged"} /\ d.pc = "guides"
          /\ d.frame = call.frame /\ d.desc = call.desc /\ d.ok = call.ok
          /\ d.togo = call.togo \ {Upcoming(call)}
          /\ d.guides = IF call.pc = "staged" THEN call.guides \cup {Upcoming(call)} ELSE call.guides
  <2> DEFINE g == Upcoming(call)
             d == IF call.pc = "staged" THEN [call EXCEPT !.pc = "guides", !.togo = @ \ {g}, !.guides = @ \cup {g}]
                  ELSE [call EXCEPT !.pc = "guides", !.togo = @ \ {g}]
  <2>1. call' = d /\ call.pc \in {"staged", "unstaged"}
    BY DEF GuideStaged, Used, NextGuide, Upcoming
  <2>2. g \in Kind
    BY DEF Upcoming, Kind
  <2> HIDE DEF g
  <2>9. "guides" \in Pcs
    BY DEF Pcs
  <2>3. d \in Calls /\ d.pc = "guides" /\ d.frame = call.frame /\ d.desc = call.desc /\ d.ok = call.ok /\ d.togo = call.togo \ {g}
        /\ d.guides = IF call.pc = "staged" THEN call.guides \cup {g} ELSE call.guides
    BY <2>9, <2>2, CallFits DEF Calls, Kind
  <2> HIDE DEF d
  <2> QED BY <2>1, <2>3 DEF g
<1>2. ASSUME lapses' = {} PROVE lapses = {} /\ Facts(d)
  <2>1. lapses = {} /\ Waiting(call) /\ Earlier(call) /\ NonePending(call) /\ Arrived(call) /\ Last(call) /\ Having(call) /\ Ranked(call) /\ Showing(call) /\ Historic(call)
    BY <1>2 DEF IInv, Facts, GuideStaged
  <2>0. \A i \in DOMAIN q12 : q12[i].op = "copyGuide" => q12[i].ctx = "guide"
    BY ContextOf DEF IInv, Kinds
  <2>12. Untouched(d)
    <3>1. CASE call.pc = "staged"
      BY <2>0, <1>1, <2>1, <3>1 DEF Untouched, Arrived, Unused
    <3>2. CASE call.pc = "unstaged"
      BY <1>1, <2>1, <3>2 DEF Having, Untouched, Where
    <3> QED BY <1>1, <3>1, <3>2
  <2>2. Waiting(d)
    BY <1>1, <2>1 DEF Waiting, Pcs
  <2>3. Earlier(d)
    BY <1>1, <2>1 DEF Earlier, Where, Coloring, Presented, Preparing, Guiding, Resets
  <2>4. NonePending(d)
    BY <1>1, <2>1 DEF NonePending, Where, Coloring, Presented, Preparing, Guiding, Resets
  <2>5. Arrived(d)
    BY <1>1, <2>1 DEF Arrived, Where, Coloring, Presented, Preparing, Guiding, Resets
  <2>6. Last(d)
    BY <1>1, <2>1 DEF Last
  <2>7. Having(d)
    BY <1>1, <2>1, <2>0, <2>12 DEF Having, Where, Coloring, Presented, Preparing, Guiding, Resets
  <2>8. Ranked(d)
    BY <1>1, <2>1 DEF Ranked, Reach, Where, Coloring, Presented, Preparing, Guiding, Resets
  <2>9. Showing(d)
    BY <1>1, <2>1 DEF Showing, Where, Coloring, Presented, Preparing, Guiding, Resets
  <2>10. Historic(d)
    BY <1>1, <2>1 DEF Historic, Where, Coloring, Presented, Preparing, Guiding, Resets
  <2> QED BY <2>1, <2>2, <2>3, <2>4, <2>5, <2>6, <2>7, <2>8, <2>9, <2>10 DEF Facts
<1> QED BY <1>1, <1>2, ThreadKeeps, CallFits DEF GuideStaged, nativeVars, owned

LEMMA WokenKeeps ==
    ASSUME IInv, Woken /\ UNCHANGED <<nativeVars, owned>>
    PROVE IInv'
<1>1. PICK d \in Calls :
          /\ call' = d /\ call.pc = "wait" /\ d.pc = call.next /\ d.pc # "wait"
          /\ d.frame = call.frame /\ d.desc = call.desc /\ d.togo = call.togo /\ d.guides = call.guides
          /\ d.ok = call.ok /\ d.after = call.after
  <2> DEFINE d == [call EXCEPT !.pc = call.next]
  <2>1. call' = d /\ call.pc = "wait"
    BY DEF Woken
  <2>2. call.next \in Pcs /\ "wait" \notin Pcs
    BY CallFits DEF Calls, Pcs
  <2>3. d \in Calls /\ d.pc = call.next /\ d.frame = call.frame /\ d.desc = call.desc
        /\ d.togo = call.togo /\ d.guides = call.guides /\ d.ok = call.ok /\ d.after = call.after
    BY <2>2, CallFits DEF Calls
  <2> HIDE DEF d
  <2> QED BY <2>1, <2>2, <2>3
<1>2. ASSUME lapses' = {} PROVE lapses = {} /\ Facts(d)
  <2>1. lapses = {} /\ Waiting(call) /\ Earlier(call) /\ NonePending(call) /\ Arrived(call) /\ Last(call) /\ Having(call) /\ Ranked(call) /\ Showing(call) /\ Historic(call)
    BY <1>2 DEF IInv, Facts, Woken
  <2>0. fence[call.fence] >= call.value
    <3>1. lapses # lapses \cup {"staleWake"}
      BY <2>1
    <3>2. call.fence \in {"copy", "d11", "native"} /\ call.value \in Nat /\ fence[call.fence] \in Nat
      BY CallFits DEF IInv, TypeInv, Calls
    <3> QED BY <1>2, <3>1, <3>2 DEF Woken
  <2>12. Arrived(d)
    <3>1. Waiting(call) /\ Last(call) /\ Arrived(call)
      BY <2>1
    <3>2. call.value \in Nat /\ call.fence \in {"copy", "d11", "native"} /\ TypeInv
      BY CallFits DEF IInv, Calls
    <3>3. d.pc = "preCopy" => Unused("pre")
      BY <1>1, <2>0, <2>1, <3>1, CopyArrives DEF Waiting
    <3>4. d.pc \in {"stage", "staged"} => Unused("guide")
      BY <1>1, <2>0, <2>1, <3>1, CopyArrives DEF Waiting
    <3>5. d.pc = "postCopy" => Unused("post")
      BY <1>1, <2>0, <2>1, <3>1, CopyArrives DEF Waiting
    <3>6. d.pc \in {"release", "resetNative", "retried", "nativeBegin", "nativePost"} => NativeUnused
      BY <1>1, <2>0, <2>1, <3>1, NativeArrives DEF Waiting
    <3>7. d.pc = "evaluated" => NoneLive
      BY <1>1, <2>0, <2>1, <3>1, D11Arrives DEF Waiting
    <3>8. d.pc = "nativeDone" => q12 = <<>>
      <4>1. d.pc = "nativeDone" => call.fence = "native" /\ call.value = native.value /\ Behind(Ops, "native", native.value)
        BY <1>1, <3>1 DEF Waiting, Last
      <4> QED BY <2>0, <3>2, <4>1, BehindArrives, QueueEmpty
    <3>9. d.pc = "capture" => Unused("pre") /\ Unused("post") /\ Unused("guide")
      <4>1. d.pc = "capture" => call.fence = "copy" /\ call.value = copies.pre /\ Behind(CopyOps, "copy", copies.pre)
        BY <1>1, <3>1 DEF Waiting, Last
      <4> QED BY <2>0, <3>2, <4>1, BehindArrives, CopiesUnused
    <3> QED BY <1>1, <3>1, <3>3, <3>4, <3>5, <3>6, <3>7, <3>8, <3>9 DEF Arrived, Where, Guiding
  <2>2. Waiting(d)
    BY <1>1, <2>1 DEF Waiting, Pcs
  <2>3. Earlier(d)
    BY <1>1, <2>1 DEF Earlier, Where, Coloring, Presented, Preparing, Guiding, Resets
  <2>4. NonePending(d)
    BY <1>1, <2>1 DEF NonePending, Where, Coloring, Presented, Preparing, Guiding, Resets
  <2>5. Arrived(d)
    BY <1>1, <2>1, <2>12 DEF Arrived, Where, Coloring, Presented, Preparing, Guiding, Resets
  <2>6. Last(d)
    BY <1>1, <2>1 DEF Last, Waiting
  <2>7. Having(d)
    BY <1>1, <2>1 DEF Having, Where, Coloring, Presented, Preparing, Guiding, Resets, Waiting, Untouched, Upcoming
  <2>8. Ranked(d)
    BY <1>1, <2>1 DEF Ranked, Reach, Where, Coloring, Presented, Preparing, Guiding, Resets
  <2>9. Showing(d)
    BY <1>1, <2>1 DEF Showing, Where, Coloring, Presented, Preparing, Guiding, Resets
  <2>10. Historic(d)
    BY <1>1, <2>1 DEF Historic, Where, Coloring, Presented, Preparing, Guiding, Resets
  <2> QED BY <2>1, <2>2, <2>3, <2>4, <2>5, <2>6, <2>7, <2>8, <2>9, <2>10 DEF Facts
<1> QED BY <1>1, <1>2, ThreadKeeps, CallFits DEF Woken, nativeVars, owned

LEMMA ReachedKeeps ==
    ASSUME IInv, Reached /\ UNCHANGED <<nativeVars, owned>>
    PROVE IInv'
<1>1. PICK d \in Calls :
          /\ call' = d /\ call.pc = "wait" /\ d.pc = call.next /\ d.pc # "wait"
          /\ d.frame = call.frame /\ d.desc = call.desc /\ d.togo = call.togo /\ d.guides = call.guides
          /\ d.ok = call.ok /\ d.after = call.after
  <2> DEFINE d == [call EXCEPT !.pc = call.next]
  <2>1. call' = d /\ call.pc = "wait"
    BY DEF Reached
  <2>2. call.next \in Pcs /\ "wait" \notin Pcs
    BY CallFits DEF Calls, Pcs
  <2>3. d \in Calls /\ d.pc = call.next /\ d.frame = call.frame /\ d.desc = call.desc
        /\ d.togo = call.togo /\ d.guides = call.guides /\ d.ok = call.ok /\ d.after = call.after
    BY <2>2, CallFits DEF Calls
  <2> HIDE DEF d
  <2> QED BY <2>1, <2>2, <2>3
<1>2. ASSUME lapses' = {} PROVE lapses = {} /\ Facts(d)
  <2>1. lapses = {} /\ Waiting(call) /\ Earlier(call) /\ NonePending(call) /\ Arrived(call) /\ Last(call) /\ Having(call) /\ Ranked(call) /\ Showing(call) /\ Historic(call)
    BY <1>2 DEF IInv, Facts, Reached
  <2>0. fence[call.fence] >= call.value
    <3>1. lapses # lapses \cup {"staleWake"}
      BY <2>1
    <3>2. call.fence \in {"copy", "d11", "native"} /\ call.value \in Nat /\ fence[call.fence] \in Nat
      BY CallFits DEF IInv, TypeInv, Calls
    <3> QED BY <1>2, <3>1, <3>2 DEF Reached
  <2>12. Arrived(d)
    <3>1. Waiting(call) /\ Last(call) /\ Arrived(call)
      BY <2>1
    <3>2. call.value \in Nat /\ call.fence \in {"copy", "d11", "native"} /\ TypeInv
      BY CallFits DEF IInv, Calls
    <3>3. d.pc = "preCopy" => Unused("pre")
      BY <1>1, <2>0, <2>1, <3>1, CopyArrives DEF Waiting
    <3>4. d.pc \in {"stage", "staged"} => Unused("guide")
      BY <1>1, <2>0, <2>1, <3>1, CopyArrives DEF Waiting
    <3>5. d.pc = "postCopy" => Unused("post")
      BY <1>1, <2>0, <2>1, <3>1, CopyArrives DEF Waiting
    <3>6. d.pc \in {"release", "resetNative", "retried", "nativeBegin", "nativePost"} => NativeUnused
      BY <1>1, <2>0, <2>1, <3>1, NativeArrives DEF Waiting
    <3>7. d.pc = "evaluated" => NoneLive
      BY <1>1, <2>0, <2>1, <3>1, D11Arrives DEF Waiting
    <3>8. d.pc = "nativeDone" => q12 = <<>>
      <4>1. d.pc = "nativeDone" => call.fence = "native" /\ call.value = native.value /\ Behind(Ops, "native", native.value)
        BY <1>1, <3>1 DEF Waiting, Last
      <4> QED BY <2>0, <3>2, <4>1, BehindArrives, QueueEmpty
    <3>9. d.pc = "capture" => Unused("pre") /\ Unused("post") /\ Unused("guide")
      <4>1. d.pc = "capture" => call.fence = "copy" /\ call.value = copies.pre /\ Behind(CopyOps, "copy", copies.pre)
        BY <1>1, <3>1 DEF Waiting, Last
      <4> QED BY <2>0, <3>2, <4>1, BehindArrives, CopiesUnused
    <3> QED BY <1>1, <3>1, <3>3, <3>4, <3>5, <3>6, <3>7, <3>8, <3>9 DEF Arrived, Where, Guiding
  <2>2. Waiting(d)
    BY <1>1, <2>1 DEF Waiting, Pcs
  <2>3. Earlier(d)
    BY <1>1, <2>1 DEF Earlier, Where, Coloring, Presented, Preparing, Guiding, Resets
  <2>4. NonePending(d)
    BY <1>1, <2>1 DEF NonePending, Where, Coloring, Presented, Preparing, Guiding, Resets
  <2>5. Arrived(d)
    BY <1>1, <2>1, <2>12 DEF Arrived, Where, Coloring, Presented, Preparing, Guiding, Resets
  <2>6. Last(d)
    BY <1>1, <2>1 DEF Last, Waiting
  <2>7. Having(d)
    BY <1>1, <2>1 DEF Having, Where, Coloring, Presented, Preparing, Guiding, Resets, Waiting, Untouched, Upcoming
  <2>8. Ranked(d)
    BY <1>1, <2>1 DEF Ranked, Reach, Where, Coloring, Presented, Preparing, Guiding, Resets
  <2>9. Showing(d)
    BY <1>1, <2>1 DEF Showing, Where, Coloring, Presented, Preparing, Guiding, Resets
  <2>10. Historic(d)
    BY <1>1, <2>1 DEF Historic, Where, Coloring, Presented, Preparing, Guiding, Resets
  <2> QED BY <2>1, <2>2, <2>3, <2>4, <2>5, <2>6, <2>7, <2>8, <2>9, <2>10 DEF Facts
<1> QED BY <1>1, <1>2, ThreadKeeps, CallFits DEF Reached, nativeVars, owned

LEMMA ExpiredKeeps ==
    ASSUME IInv, Expired /\ UNCHANGED <<nativeVars, owned>>
    PROVE IInv'
<1>1. PICK d \in Calls :
          /\ call' = d /\ call.pc = "wait" /\ d.pc = call.otherwise /\ d.pc # "wait"
          /\ d.frame = call.frame /\ d.desc = call.desc /\ d.togo = call.togo /\ d.guides = call.guides
          /\ d.ok = call.ok /\ d.after = call.after
  <2> DEFINE d == [call EXCEPT !.pc = call.otherwise]
  <2>1. call' = d /\ call.pc = "wait"
    BY DEF Expired
  <2>2. call.otherwise \in Pcs /\ "wait" \notin Pcs
    BY CallFits DEF Calls, Pcs
  <2>3. d \in Calls /\ d.pc = call.otherwise /\ d.frame = call.frame /\ d.desc = call.desc
        /\ d.togo = call.togo /\ d.guides = call.guides /\ d.ok = call.ok /\ d.after = call.after
    BY <2>2, CallFits DEF Calls
  <2> HIDE DEF d
  <2> QED BY <2>1, <2>2, <2>3
<1>2. ASSUME lapses' = {} PROVE lapses = {} /\ Facts(d)
  <2>1. lapses = {} /\ Waiting(call) /\ Earlier(call) /\ NonePending(call) /\ Arrived(call) /\ Last(call) /\ Having(call) /\ Ranked(call) /\ Showing(call) /\ Historic(call)
    BY <1>2 DEF IInv, Facts, Expired
  <2>2. Waiting(d)
    BY <1>1, <2>1 DEF Waiting, Pcs, Waiting
  <2>3. Earlier(d)
    BY <1>1, <2>1 DEF Earlier, Where, Coloring, Presented, Preparing, Guiding, Resets, Waiting
  <2>4. NonePending(d)
    BY <1>1, <2>1 DEF NonePending, Where, Coloring, Presented, Preparing, Guiding, Resets, Waiting
  <2>5. Arrived(d)
    BY <1>1, <2>1 DEF Arrived, Where, Coloring, Presented, Preparing, Guiding, Resets, Waiting
  <2>6. Last(d)
    BY <1>1, <2>1 DEF Last, Waiting
  <2>7. Having(d)
    BY <1>1, <2>1 DEF Having, Where, Coloring, Presented, Preparing, Guiding, Resets, Waiting, Untouched, Upcoming
  <2>8. Ranked(d)
    BY <1>1, <2>1 DEF Ranked, Reach, Where, Coloring, Presented, Preparing, Guiding, Resets, Waiting
  <2>9. Showing(d)
    BY <1>1, <2>1 DEF Showing, Where, Coloring, Presented, Preparing, Guiding, Resets, Waiting
  <2>10. Historic(d)
    BY <1>1, <2>1 DEF Historic, Where, Coloring, Presented, Preparing, Guiding, Resets, Waiting
  <2> QED BY <2>1, <2>2, <2>3, <2>4, <2>5, <2>6, <2>7, <2>8, <2>9, <2>10 DEF Facts
<1> QED BY <1>1, <1>2, ThreadKeeps, CallFits DEF Expired, nativeVars, owned

LEMMA PresentKeeps ==
    ASSUME IInv, Present
    PROVE IInv'
<1>1. PICK d \in Calls :
          /\ call' = d /\ call.pc = "idle" /\ d.frame = call.frame + 1 /\ d.togo = {} /\ d.guides = {}
          /\ \/ d.pc = "route"
             \/ d.pc = "release" /\ fence.native >= native.value
             \/ d.pc = "wait" /\ d.next = "release" /\ d.otherwise = "route" /\ d.fence = "native" /\ d.value = native.value
  <2>1. PICK desc \in Descs, key \in IF mode = "recovery" THEN HostKeys ELSE {0} :
          LET c == [NoCall EXCEPT !.frame = call.frame + 1, !.desc = desc, !.key = key]
          IN IF Obsolete(native, key) THEN Await(c, "native", native.value, "release", "route")
                                      ELSE call' = [c EXCEPT !.pc = "route"] /\ UNCHANGED event
    BY DEF Present
  <2> DEFINE c == [NoCall EXCEPT !.frame = call.frame + 1, !.desc = desc, !.key = key]
  <2>2. desc \in Nat \X Nat /\ key \in Nat
    BY QueuesAssumption
  <2>3. {"idle", "route", "release"} \subseteq Pcs
    BY DEF Pcs
  <2>4. c \in Calls /\ c.frame = call.frame + 1 /\ c.togo = {} /\ c.guides = {}
    <3> DEFINE f == call.frame + 1
    <3>1. f \in Nat
      BY CallFits
    <3> HIDE DEF f
    <3>2. c = [NoCall EXCEPT !.frame = f, !.desc = desc, !.key = key]
      BY DEF f
    <3>3. c \in Calls /\ c.frame = f /\ c.togo = {} /\ c.guides = {}
      BY <2>2, <3>1, <3>2, NoCallFits DEF Calls
    <3> QED BY <3>3 DEF f
  <2>5. call.pc = "idle"
    BY DEF Present
  <2>6. IF Obsolete(native, key) THEN Await(c, "native", native.value, "release", "route") ELSE call' = [c EXCEPT !.pc = "route"]
    BY <2>1
  <2> HIDE DEF c
  <2>7. CASE Obsolete(native, key)
    BY <2>3, <2>4, <2>5, <2>6, <2>7, AwaitGoes, CallFits DEF IInv
  <2>8. CASE ~Obsolete(native, key)
    <3> DEFINE d == [c EXCEPT !.pc = "route"]
    <3>1. d \in Calls /\ d.pc = "route" /\ d.frame = c.frame /\ d.togo = c.togo /\ d.guides = c.guides
      BY <2>3, <2>4 DEF Calls
    <3>2. call' = d
      BY <2>6, <2>8
    <3> HIDE DEF d
    <3> QED BY <2>4, <2>5, <3>1, <3>2
  <2> QED BY <2>7, <2>8
<1>2. ASSUME lapses' = {} PROVE lapses = {} /\ Facts(d)
  <2>1. lapses = {} /\ Waiting(call) /\ Earlier(call) /\ NonePending(call) /\ Arrived(call) /\ Last(call) /\ Having(call) /\ Ranked(call) /\ Showing(call) /\ Historic(call)
    BY <1>2 DEF IInv, Facts, Present
  <2>0. Older11(d.frame) /\ Older12(d.frame)
    <3>1. Recent(call.frame) /\ call.frame \in Nat /\ d.frame = call.frame + 1
      BY <1>1, CallFits DEF IInv
    <3>2. (\A i \in DOMAIN q12 : q12[i].frame \in Nat) /\ \A k \in DOMAIN q11 : q11[k].frame \in Nat
      BY QueueFits DEF IInv, Works
    <3> QED BY <3>1, <3>2 DEF Recent, Older11, Older12
  <2>2. Waiting(d)
    BY <1>1, <2>1 DEF Waiting, Pcs
  <2>3. Earlier(d)
    BY <1>1, <2>1, <2>0 DEF Earlier, Where, Coloring, Presented, Preparing, Guiding, Resets
  <2>4. NonePending(d)
    BY <1>1, <2>1 DEF NonePending, Where, Coloring, Presented, Preparing, Guiding, Resets
  <2>5. Arrived(d)
    BY <1>1, <2>1, NativeArrives DEF Arrived, Where, Coloring, Presented, Preparing, Guiding, Resets
  <2>6. Last(d)
    BY <1>1, <2>1 DEF Last
  <2>7. Having(d)
    BY <1>1, <2>1, CallFits DEF Having, Where, Coloring, Presented, Preparing, Guiding, Resets, Untouched, Upcoming
  <2>8. Ranked(d)
    BY <1>1, <2>1, <2>0, CallFits DEF Ranked, Reach, Where, Coloring, Presented, Preparing, Guiding, Resets
  <2>9. Showing(d)
    BY <1>1, <2>1 DEF Showing, Where, Coloring, Presented, Preparing, Guiding, Resets
  <2>10. Historic(d)
    BY <1>1, <2>1 DEF Historic, Where, Coloring, Presented, Preparing, Guiding, Resets
  <2> QED BY <2>1, <2>2, <2>3, <2>4, <2>5, <2>6, <2>7, <2>8, <2>9, <2>10 DEF Facts
<1> QED BY <1>1, <1>2, ThreadKeeps, CallFits DEF Present, nativeVars, owned

LEMMA StartNativeKeeps ==
    ASSUME IInv, StartNative /\ UNCHANGED owned
    PROVE IInv'
<1>1. PICK d \in Calls :
          /\ call' = d /\ call.pc = "native"
          /\ d.frame = call.frame /\ d.desc = call.desc /\ d.togo = call.togo /\ d.guides = call.guides
          /\ d.ok = call.ok /\ d.after = call.after
          /\ \/ d.pc \in {"refused", "nativeGone"}
             \/ d.pc = "nativeBegin" /\ fence.native >= native.value
             \/ d.pc = "wait" /\ d.next = "nativeBegin" /\ d.otherwise = "nativeLate" /\ d.fence = "native" /\ d.value = native.value
  <2>1. {"refused", "nativeGone", "nativeBegin", "nativeLate"} \subseteq Pcs
    BY DEF Pcs
  <2>2. call.pc = "native"
    BY DEF StartNative
  <2>3. ASSUME NEW pc \in {"refused", "nativeGone"}, call' = [call EXCEPT !.pc = pc]
        PROVE  \E d \in Calls : call' = d /\ d.pc = pc /\ d.frame = call.frame /\ d.desc = call.desc /\ d.togo = call.togo
                                 /\ d.guides = call.guides /\ d.ok = call.ok /\ d.after = call.after
    <3> DEFINE d == [call EXCEPT !.pc = pc]
    <3>1. d \in Calls /\ d.pc = pc /\ d.frame = call.frame /\ d.desc = call.desc /\ d.togo = call.togo
          /\ d.guides = call.guides /\ d.ok = call.ok /\ d.after = call.after
      BY <2>1, CallFits DEF Calls
    <3> QED BY <2>3, <3>1
  <2>4. CASE Await(call, "native", native.value, "nativeBegin", "nativeLate")
    BY <2>1, <2>2, <2>4, AwaitGoes, CallFits DEF IInv
  <2>5. CASE call' = [call EXCEPT !.pc = "refused"]
    BY <2>2, <2>3, <2>5
  <2>6. CASE call' = [call EXCEPT !.pc = "nativeGone"]
    BY <2>2, <2>3, <2>6
  <2> QED BY <2>4, <2>5, <2>6 DEF StartNative
<1>2. ASSUME lapses' = {} PROVE lapses = {} /\ Facts(d)
  <2>1. lapses = {} /\ Waiting(call) /\ Earlier(call) /\ NonePending(call) /\ Arrived(call) /\ Last(call) /\ Having(call) /\ Ranked(call) /\ Showing(call) /\ Historic(call)
    BY <1>2 DEF IInv, Facts, StartNative
  <2>2. Waiting(d)
    BY <1>1, <2>1 DEF Waiting, Pcs
  <2>3. Earlier(d)
    BY <1>1, <2>1 DEF Earlier, Where, Coloring, Presented, Preparing, Guiding, Resets
  <2>4. NonePending(d)
    BY <1>1, <2>1 DEF NonePending, Where, Coloring, Presented, Preparing, Guiding, Resets
  <2>5. Arrived(d)
    BY <1>1, <2>1, NativeArrives DEF Arrived, Where, Coloring, Presented, Preparing, Guiding, Resets
  <2>6. Last(d)
    BY <1>1, <2>1 DEF Last
  <2>7. Having(d)
    BY <1>1, <2>1 DEF Having, Where, Coloring, Presented, Preparing, Guiding, Resets, Untouched, Upcoming
  <2>8. Ranked(d)
    BY <1>1, <2>1 DEF Ranked, Reach, Where, Coloring, Presented, Preparing, Guiding, Resets
  <2>9. Showing(d)
    BY <1>1, <2>1 DEF Showing, Where, Coloring, Presented, Preparing, Guiding, Resets
  <2>10. Historic(d)
    BY <1>1, <2>1 DEF Historic, Where, Coloring, Presented, Preparing, Guiding, Resets
  <2> QED BY <2>1, <2>2, <2>3, <2>4, <2>5, <2>6, <2>7, <2>8, <2>9, <2>10 DEF Facts
<1> QED BY <1>1, <1>2, ThreadKeeps, CallFits DEF StartNative, nativeVars, owned

---------------------------------------------------------------------------
(* One more command at the end of the game's queue.                        *)

LEMMA Appended ==
    ASSUME TypeInv, NEW w \in Works, q12' = Append(q12, w)
    PROVE /\ q12' \in Seq(Works) /\ Len(q12) \in Nat /\ End = Len(q12) + 1 /\ End' = End + 1
          /\ DOMAIN q12 = 1..Len(q12) /\ DOMAIN q12' = 1..End
          /\ \A i \in DOMAIN q12 : i \in DOMAIN q12' /\ i < End /\ i \in Nat \ {0} /\ q12'[i] = q12[i]
          /\ q12'[End] = w /\ End \in DOMAIN q12'
          /\ \A i \in DOMAIN q12' : i \in DOMAIN q12 \/ i = End
<1>1. q12 \in Seq(Works)
  BY DEF TypeInv
<1>2. Len(q12') = Len(q12) + 1
  BY <1>1, AppendFits
<1> QED BY <1>1, <1>2, AppendFits DEF End

LEMMA ValuesAppend ==
    ASSUME TypeInv, Values, NEW w \in Works, q12' = Append(q12, w), UNCHANGED <<q11, fence>>,
           copies'.next \in Nat, native'.last \in Nat, copies.next <= copies'.next, native.last <= native'.last, d11'.next = d11.next,
           FenceOf(w.ctx) = "copy" => w.signal < copies'.next,
           FenceOf(w.ctx) = "native" => w.signal <= native'.last
    PROVE Values'
<1>1. /\ fence.copy < copies.next /\ fence.native <= native.last /\ fence.d11 < d11.next
      /\ \A i \in DOMAIN q12 : /\ FenceOf(q12[i].ctx) = "copy" => q12[i].signal < copies.next
                               /\ FenceOf(q12[i].ctx) = "native" => q12[i].signal <= native.last
      /\ \A k \in DOMAIN q11 : q11[k].signal < d11.next
  BY DEF Values
<1>2. fence.copy \in Nat /\ fence.native \in Nat /\ copies.next \in Nat /\ native.last \in Nat
      /\ \A i \in DOMAIN q12 : q12[i].signal \in Nat
  BY QueueFits DEF TypeInv, Natives, Works
<1>3. fence.copy < copies'.next /\ fence.native <= native'.last
  BY <1>1, <1>2
<1>4. ASSUME NEW i \in DOMAIN q12'
      PROVE  /\ FenceOf(q12'[i].ctx) = "copy" => q12'[i].signal < copies'.next
             /\ FenceOf(q12'[i].ctx) = "native" => q12'[i].signal <= native'.last
  <2>1. CASE i \in DOMAIN q12
    BY <1>1, <1>2, <2>1, Appended
  <2>2. CASE i = End
    BY <2>2, Appended
  <2> QED BY <2>1, <2>2, Appended
<1>5. Values' = (/\ fence'.copy < copies'.next /\ fence'.native <= native'.last /\ fence'.d11 < d11'.next
                 /\ \A i \in DOMAIN q12' : /\ FenceOf(q12'[i].ctx) = "copy" => q12'[i].signal < copies'.next
                                           /\ FenceOf(q12'[i].ctx) = "native" => q12'[i].signal <= native'.last
                 /\ \A k \in DOMAIN q11' : q11'[k].signal < d11'.next)
  BY DEF Values, FenceOf
<1> QED BY <1>1, <1>3, <1>4, <1>5

LEMMA KindsAppend ==
    ASSUME TypeInv, Kinds, NEW w \in Works, q12' = Append(q12, w), UNCHANGED q11,
           w.ctx = CtxOf(w.op), w.op \in {"evaluate", "present"} => w.signal = 0
    PROVE Kinds'
BY Appended DEF Kinds, CtxOf

LEMMA RecentAppend ==
    ASSUME TypeInv, NEW n \in Nat, NEW m \in Nat, Recent(n), n <= m, NEW w \in Works, q12' = Append(q12, w), UNCHANGED q11,
           w.frame <= m, color'.gen <= m, \A g \in Kind : surface'[g].gen <= m
    PROVE Recent(m)'
<1>1. (\A i \in DOMAIN q12 : q12[i].frame \in Nat) /\ \A k \in DOMAIN q11 : q11[k].frame \in Nat
  BY QueueFits DEF Works
<1>2. \A i \in DOMAIN q12' : q12'[i].frame <= m
  BY <1>1, Appended DEF Recent
<1>3. \A k \in DOMAIN q11' : q11'[k].frame <= m
  BY <1>1 DEF Recent
<1> QED BY <1>2, <1>3 DEF Recent

\* What was before a command still is, and the new one is behind all values handed out.
LEMMA BeforeAppend ==
    ASSUME TypeInv, NEW w \in Works, q12' = Append(q12, w), UNCHANGED fence,
           NEW i \in DOMAIN q12, NEW f, NEW v
    PROVE Before(i, f, v)' <=> Before(i, f, v)
<1>1. \A j \in 1..(i - 1) : q12'[j] = q12[j]
  BY Appended
<1>2. Before(i, f, v)' = (fence'[f] < v /\ \A j \in 1..(i - 1) : FenceOf(q12'[j].ctx) = f => q12'[j].signal < v)
  BY DEF Before, FenceOf
<1> QED BY <1>1, <1>2 DEF Before

LEMMA BeforeEnd ==
    ASSUME TypeInv, NEW w \in Works, q12' = Append(q12, w), UNCHANGED fence, NEW f, NEW v, NEW e, e = End,
           fence[f] < v, \A i \in DOMAIN q12 : FenceOf(q12[i].ctx) = f => q12[i].signal < v
    PROVE Before(e, f, v)'
<1>1. \A j \in 1..(e - 1) : q12'[j] = q12[j] /\ j \in DOMAIN q12
  BY Appended
<1>2. Before(e, f, v)' = (fence'[f] < v /\ \A j \in 1..(e - 1) : FenceOf(q12'[j].ctx) = f => q12'[j].signal < v)
  BY DEF Before, FenceOf
<1> QED BY <1>1, <1>2

\* A context that has no command queued submits one.
LEMMA AllocatorsAppend ==
    ASSUME TypeInv, Values, Kinds, Allocators, NEW w \in Works, q12' = Append(q12, w), UNCHANGED fence, w.ctx = CtxOf(w.op),
           \/ w.op \notin CopyOps /\ UNCHANGED copies
           \/ /\ w.op \in CopyOps /\ Unused(w.ctx)
              /\ copies' = [copies EXCEPT ![w.ctx] = copies.next, !.next = copies.next + 1]
    PROVE Allocators'
<1>1. \A i \in DOMAIN q12 : q12[i].op \in CopyOps => Before(i, "copy", copies[q12[i].ctx])
  BY DEF Allocators
<1>2. \A i \in DOMAIN q12 : q12[i].ctx = CtxOf(q12[i].op) /\ q12[i].op \in Ops
  BY QueueFits DEF Kinds, Works
<1>3. \A op \in Ops : CtxOf(op) \in {"pre", "post", "guide"} <=> op \in CopyOps
  BY ContextOf DEF CopyOps, Ops
<1>4. w.op \in Ops
  BY DEF Works
<1>5. \A i, j \in DOMAIN q12' : i # j /\ q12'[i].op \in CopyOps => q12'[i].ctx # q12'[j].ctx
  <2> SUFFICES ASSUME NEW i \in DOMAIN q12', NEW j \in DOMAIN q12', i # j, q12'[i].op \in CopyOps
               PROVE  q12'[i].ctx # q12'[j].ctx
    OBVIOUS
  <2>1. CASE i \in DOMAIN q12 /\ j \in DOMAIN q12
    <3>1. q12'[i] = q12[i] /\ q12'[j] = q12[j]
      BY <2>1, Appended
    <3> QED BY <2>1, <3>1 DEF Allocators
  <2>2. CASE i = End
    <3>1. w.op \in CopyOps /\ Unused(w.ctx) /\ j \in DOMAIN q12
      BY <2>2, Appended
    <3> QED BY <2>2, <3>1, Appended DEF Unused
  <2>3. CASE j = End
    <3>1. i \in DOMAIN q12 /\ q12'[i] = q12[i] /\ q12'[j] = w
      BY <2>3, Appended
    <3>2. q12[i].ctx \in {"pre", "post", "guide"}
      BY <1>2, <1>3, <3>1
    <3>3. CASE w.op \notin CopyOps
      BY <1>3, <1>4, <3>1, <3>2, <3>3
    <3>4. CASE Unused(w.ctx)
      BY <3>1, <3>4 DEF Unused
    <3> QED BY <3>3, <3>4
  <2> QED BY <2>1, <2>2, <2>3, Appended
<1>6. ASSUME NEW i \in DOMAIN q12', q12'[i].op \in CopyOps
      PROVE  Before(i, "copy", copies[q12[i].ctx])'
  <2>1. CASE i \in DOMAIN q12
    <3>1. q12'[i] = q12[i]
      BY <2>1, Appended
    <3>2. copies'[q12[i].ctx] = copies[q12[i].ctx]
      <4>1. q12[i].ctx \in {"pre", "post", "guide"}
        BY <1>2, <1>3, <1>6, <2>1, <3>1
      <4>2. CASE UNCHANGED copies
        BY <4>2
      <4>3. CASE /\ Unused(w.ctx)
                 /\ copies' = [copies EXCEPT ![w.ctx] = copies.next, !.next = copies.next + 1]
        <5>1. q12[i].ctx # w.ctx
          BY <2>1, <4>3 DEF Unused
        <5>2. copies \in [pre : Nat, post : Nat, guide : Nat, next : Nat]
          BY DEF TypeInv
        <5> QED BY <4>1, <4>3, <5>1, <5>2
      <4> QED BY <4>2, <4>3
    <3>3. PICK v : v = copies[q12[i].ctx]
      OBVIOUS
    <3>4. Before(i, "copy", v)'
      BY <1>1, <1>6, <2>1, <3>1, <3>3, BeforeAppend
    <3> QED BY <3>1, <3>2, <3>3, <3>4 DEF Before
  <2>2. CASE i = End
    <3>1. q12'[i] = w /\ w.op \in CopyOps
      BY <1>6, <2>2, Appended
    <3>2. w.ctx \in {"pre", "post", "guide"}
      BY <1>3, <1>4, <3>1
    <3>3. copies'[w.ctx] = copies.next
      <4>1. copies \in [pre : Nat, post : Nat, guide : Nat, next : Nat]
        BY DEF TypeInv
      <4> QED BY <3>1, <3>2, <4>1
    <3>4. PICK v : v = copies.next
      OBVIOUS
    <3>5. Before(i, "copy", v)'
      BY <2>2, <3>4, BeforeEnd DEF Values
    <3> QED BY <3>1, <3>3, <3>4, <3>5 DEF Before
  <2> QED BY <2>1, <2>2, Appended
<1> QED BY <1>5, <1>6 DEF Allocators

\* The lists of the native pipeline are left alone.
LEMMA BundlesAppend ==
    ASSUME TypeInv, Kinds, Bundles, NEW w \in Works, q12' = Append(q12, w), UNCHANGED <<fence, host, retired>>,
           native'.inst = native.inst, native'.value = native.value, native'.hold = native.hold, w.op \notin NativeOps
    PROVE Bundles'
<1>1. \A i \in DOMAIN q12' : q12'[i].op \in NativeOps => i \in DOMAIN q12 /\ q12'[i] = q12[i]
  BY Appended
<1>2. ASSUME NEW i \in DOMAIN q12', q12'[i].op \in NativeOps
      PROVE  /\ IF q12[i].gen = native.inst THEN Own(i)' ELSE Bundled(i)'
             /\ \A r \in retired : r.inst = q12[i].gen => Before(i, "native", r.target)'
  <2>1. i \in DOMAIN q12 /\ q12'[i] = q12[i]
    BY <1>1, <1>2
  <2>2. /\ IF q12[i].gen = native.inst THEN Own(i) ELSE Bundled(i)
        /\ \A r \in retired : r.inst = q12[i].gen => Before(i, "native", r.target)
    BY <1>2, <2>1 DEF Bundles
  <2>3. \A r \in retired : r.inst = q12[i].gen => Before(i, "native", r.target)'
    BY <2>1, <2>2, BeforeAppend
  <2>4. q12[i].gen = native.inst => Own(i)'
    <3>1. PICK v : v = native.value
      OBVIOUS
    <3>2. q12[i].gen = native.inst => Before(i, "native", v)'
      BY <2>1, <2>2, <3>1, BeforeAppend DEF Own
    <3> QED BY <2>1, <2>2, <3>1, <3>2 DEF Own, Before
  <2>5. q12[i].gen # native.inst => Bundled(i)'
    BY <2>1, <2>2 DEF Bundled
  <2> QED BY <2>3, <2>4, <2>5
<1>3. \A i, j \in DOMAIN q12' : i # j /\ q12'[i].op \in NativeOps /\ q12'[j].op \in NativeOps => q12'[i].gen # q12'[j].gen
  BY <1>1 DEF Bundles
<1>4. \A r \in retired' : r.inst < native'.inst
  BY DEF Bundles
<1> QED BY <1>1, <1>2, <1>3, <1>4 DEF Bundles

\* The native pipeline submits a list, having none queued.
LEMMA BundlesSubmit ==
    ASSUME TypeInv, Values, Kinds, Bundles, NativeUnused, NEW w \in Works, q12' = Append(q12, w), UNCHANGED <<fence, retired>>,
           native'.inst = native.inst, native'.value = native.last + 1, w.op \in NativeOps, w.gen = native.inst,
           w.op = "nativePre" => native'.hold /\ host' \in {0, w.frame}
    PROVE Bundles'
<1>1. \A i \in DOMAIN q12' : q12'[i].op \in NativeOps =>
        \/ i \in DOMAIN q12 /\ q12'[i] = q12[i] /\ q12[i].gen # native.inst
        \/ i = End /\ q12'[i] = w
  BY Appended DEF NativeUnused
<1>2. native.inst \in Nat /\ native.last \in Nat /\ \A r \in retired : r.inst \in Nat
  BY DEF TypeInv, Natives
<1>3. \A i, j \in DOMAIN q12' : i # j /\ q12'[i].op \in NativeOps /\ q12'[j].op \in NativeOps => q12'[i].gen # q12'[j].gen
  BY <1>1 DEF Bundles
<1>4. ASSUME NEW i \in DOMAIN q12', q12'[i].op \in NativeOps
      PROVE  /\ IF q12'[i].gen = native.inst THEN Own(i)' ELSE Bundled(i)'
             /\ \A r \in retired : r.inst = q12'[i].gen => Before(i, "native", r.target)'
  <2>1. CASE i \in DOMAIN q12 /\ q12'[i] = q12[i] /\ q12[i].gen # native.inst
    <3>1. Bundled(i) /\ \A r \in retired : r.inst = q12[i].gen => Before(i, "native", r.target)
      BY <1>4, <2>1 DEF Bundles
    <3>2. \A r \in retired : r.inst = q12[i].gen => Before(i, "native", r.target)'
      BY <2>1, <3>1, BeforeAppend
    <3>3. Bundled(i)'
      BY <2>1, <3>1 DEF Bundled
    <3> QED BY <2>1, <3>2, <3>3
  <2>2. CASE i = End /\ q12'[i] = w
    <3>1. PICK v : v = native.last + 1
      OBVIOUS
    <3>2. fence.native < v
      <4>1. fence.native \in Nat
        BY DEF TypeInv
      <4>2. fence.native <= native.last
        BY DEF Values
      <4> QED BY <1>2, <3>1, <4>1, <4>2
    <3>3. \A j \in DOMAIN q12 : FenceOf(q12[j].ctx) = "native" => q12[j].signal < v
      <4>1. \A j \in DOMAIN q12 : q12[j].signal \in Nat
        BY QueueFits DEF Works
      <4> QED BY <1>2, <3>1, <4>1 DEF Values
    <3>4. Before(i, "native", v)'
      BY <2>2, <3>2, <3>3, BeforeEnd
    <3>5. Own(i)'
      BY <2>2, <3>1, <3>4 DEF Own, Before
    <3>6. \A r \in retired : r.inst # w.gen
      BY <1>2 DEF Bundles
    <3> QED BY <2>2, <3>5, <3>6
  <2> QED BY <1>1, <1>4, <2>1, <2>2
<1>5. \A r \in retired' : r.inst < native'.inst
  BY DEF Bundles
<1> QED BY <1>3, <1>4, <1>5 DEF Bundles

\* D3D11 has nothing more to do.
LEMMA PendingShrinks ==
    ASSUME Pending, UNCHANGED <<q11, fence>>, d11'.pending = d11.pending, \A k \in DOMAIN q11 : Live(k)' => Live(k)
    PROVE Pending'
BY DEF Pending, Before11

LEMMA SurfacedAppend ==
    ASSUME TypeInv, Surfaced, NEW w \in Works, q12' = Append(q12, w), UNCHANGED <<q11, surface>>, color'.gen = color.gen,
           w.op \in {"copyIn", "copyOut"} => color.gen # 0 /\ w.gen = color.gen /\ \A k \in DOMAIN q11 : q11[k].gen # color.gen,
           w.op # "copyGuide"
    PROVE Surfaced'
<1>1. ASSUME NEW i \in DOMAIN q12'
      PROVE  /\ q12'[i].op \in {"copyIn", "copyOut"} =>
                   color.gen # 0 /\ q12'[i].gen = color.gen /\ \A k \in DOMAIN q11 : q11[k].gen # color.gen
             /\ q12'[i].op = "copyGuide" =>
                   \A g \in q12'[i].guides : g[2] # 0 /\ surface[g[1]].gen = g[2] /\ \A k \in DOMAIN q11 : g \notin q11[k].guides
  <2>1. CASE i \in DOMAIN q12
    BY <2>1, Appended DEF Surfaced
  <2>2. CASE i = End
    BY <2>2, Appended
  <2> QED BY <2>1, <2>2, Appended
<1> QED BY <1>1 DEF Surfaced

LEMMA SortedAppend ==
    ASSUME TypeInv, Sorted, NEW w \in Works, q12' = Append(q12, w), UNCHANGED back, back.frame <= w.frame,
           \A i \in DOMAIN q12 : q12[i].frame <= w.frame /\ (q12[i].op = "present" => q12[i].frame < w.frame)
    PROVE Sorted'
<1>1. \A i, j \in DOMAIN q12' : i < j => i \in DOMAIN q12 /\ q12'[i] = q12[i]
  BY Appended
<1>2. ASSUME NEW i \in DOMAIN q12', NEW j \in DOMAIN q12', i < j
      PROVE  q12'[i].frame <= q12'[j].frame /\ (q12'[i].op = "present" => q12'[i].frame < q12'[j].frame)
  <2>1. CASE j \in DOMAIN q12
    BY <1>1, <1>2, <2>1, Appended DEF Sorted
  <2>2. CASE j = End
    BY <1>1, <1>2, <2>2, Appended
  <2> QED BY <2>1, <2>2, Appended
<1>3. \A i \in DOMAIN q12' : q12'[i].frame >= back.frame
  <2>1. w.frame \in Nat /\ back.frame \in Nat
    BY DEF TypeInv, Works, Images
  <2> QED BY <2>1, Appended DEF Sorted
<1> QED BY <1>2, <1>3 DEF Sorted

\* What will be shown to a command, and to one behind all there are.
LEMMA NoneAppend ==
    ASSUME TypeInv, NEW w \in Works, q12' = Append(q12, w), NEW ops, NEW i \in Nat \ {0}, NEW p \in DOMAIN q12'
    PROVE None(ops, i, p)' <=> None(ops, i, p)
<1>1. \A h \in i..(p - 1) : h \in DOMAIN q12 /\ q12'[h] = q12[h]
  BY Appended
<1> QED BY <1>1 DEF None

LEMMA NoneEnd ==
    ASSUME TypeInv, NEW w \in Works, q12' = Append(q12, w), NEW ops, NEW i \in Nat \ {0}, None(ops, i, End), w.op \notin ops
    PROVE None(ops, i, End)'
<1>1. \A h \in i..End : (h \in i..(End - 1) /\ q12'[h] = q12[h]) \/ h = End
  BY Appended
<1>2. \A h \in i..End : q12'[h].op \notin ops
  BY <1>1, Appended DEF None
<1>3. End' - 1 = End
  BY Appended
<1>4. None(ops, i, End)' = \A h \in i..(End' - 1) : q12'[h].op \notin ops
  BY DEF None
<1> QED BY <1>2, <1>3, <1>4

LEMMA ShowsAppend ==
    ASSUME TypeInv, NEW w \in Works, q12' = Append(q12, w), UNCHANGED <<color, back>>, image'.current = image.current, NEW p \in DOMAIN q12'
    PROVE /\ \A f : ColorShows(p, f) => ColorShows(p, f)'
          /\ ColorNeural(p) => ColorNeural(p)'
          /\ BackNeural(p) => BackNeural(p)'
          /\ \A f : CurrentShows(p, f) => CurrentShows(p, f)'
<1>1. \A i \in 1..(p - 1) : i \in DOMAIN q12 /\ i \in DOMAIN q12' /\ q12'[i] = q12[i] /\ i + 1 \in Nat \ {0}
  BY Appended
<1>2. \A ops : \A i \in Nat \ {0} : \A h \in DOMAIN q12' : None(ops, i, h)' <=> None(ops, i, h)
  BY NoneAppend
<1>3. \A f : ColorShows(p, f) => ColorShows(p, f)'
  BY <1>1, <1>2 DEF ColorShows
<1>4. \A i \in DOMAIN q12' : ColorNeural(i) => ColorNeural(i)'
  <2> SUFFICES ASSUME NEW i \in DOMAIN q12', ColorNeural(i) PROVE ColorNeural(i)'
    OBVIOUS
  <2>1. \A j \in 1..(i - 1) : j \in DOMAIN q12 /\ q12'[j] = q12[j] /\ j + 1 \in Nat \ {0}
    BY Appended
  <2> QED BY <1>2, <2>1 DEF ColorNeural
<1>5. BackNeural(p) => BackNeural(p)'
  BY <1>1, <1>2, <1>4 DEF BackNeural
<1>6. \A f : CurrentShows(p, f) => CurrentShows(p, f)'
  BY <1>1, <1>2 DEF CurrentShows
<1> QED BY <1>3, <1>4, <1>5, <1>6

LEMMA ShowsEnd ==
    ASSUME TypeInv, NEW w \in Works, q12' = Append(q12, w), UNCHANGED <<color, back>>, image'.current = image.current
    PROVE /\ \A f : (IF w.op = "copyIn" THEN w.frame = f ELSE ColorShows(End, f)) => ColorShows(End, f)'
          /\ ColorNeural(End) /\ w.op # "copyIn" => ColorNeural(End)'
          /\ w.op = "evaluate" /\ w.neural /\ w.gen = color.gen => ColorNeural(End)'
          /\ BackNeural(End) /\ w.op \notin {"present", "copyOut"} => BackNeural(End)'
          /\ w.op = "nativePost" \/ (w.op = "copyOut" /\ ColorNeural(End)) => BackNeural(End)'
          /\ \A f : (IF w.op = "nativePre" THEN w.frame = f ELSE CurrentShows(End, f)) => CurrentShows(End, f)'
<1>0. PICK e : e = Len(q12) + 1
  OBVIOUS
<1>1. e = End /\ End' = e + 1 /\ e \in DOMAIN q12' /\ e \in Nat \ {0} /\ q12'[e] = w /\ e \in 1..(End' - 1) /\ End' - 1 = e
  BY <1>0, Appended DEF End
<1>2. \A i \in 1..(e - 1) : i \in 1..(End' - 1) /\ q12'[i] = q12[i] /\ i + 1 \in Nat \ {0} /\ i \in DOMAIN q12'
  BY <1>1, Appended
<1>3. \A ops : \A i \in Nat \ {0} : w.op \notin ops /\ None(ops, i, e) => None(ops, i, End)'
  BY <1>1, NoneEnd
<1>4. \A ops : None(ops, e + 1, End)'
  BY <1>1 DEF None
<1>5. \A i \in 1..(e - 1) : ColorNeural(i) => ColorNeural(i)'
  BY <1>2, ShowsAppend
<1>6. ColorNeural(e) => ColorNeural(e)'
  BY <1>1, ShowsAppend
<1>7. \A f : (IF w.op = "copyIn" THEN w.frame = f ELSE ColorShows(e, f)) => ColorShows(End, f)'
  <2> SUFFICES ASSUME NEW f, IF w.op = "copyIn" THEN w.frame = f ELSE ColorShows(e, f) PROVE ColorShows(End, f)'
    OBVIOUS
  <2>1. CASE w.op = "copyIn"
    BY <1>1, <1>4, <2>1 DEF ColorShows
  <2>2. CASE w.op # "copyIn" /\ color.image.frame = f /\ None({"copyIn"}, 1, e)
    BY <1>3, <2>2 DEF ColorShows
  <2>3. CASE w.op # "copyIn" /\ \E i \in 1..(e - 1) : q12[i].op = "copyIn" /\ q12[i].frame = f /\ None({"copyIn"}, i + 1, e)
    BY <1>2, <1>3, <2>3 DEF ColorShows
  <2> QED BY <2>1, <2>2, <2>3 DEF ColorShows
<1>8. ColorNeural(e) /\ w.op # "copyIn" => ColorNeural(End)'
  BY <1>1, <1>2, <1>3 DEF ColorNeural
<1>9. w.op = "evaluate" /\ w.neural /\ w.gen = color.gen => ColorNeural(End)'
  BY <1>1, <1>4 DEF ColorNeural
<1>10. BackNeural(e) /\ w.op \notin {"present", "copyOut"} => BackNeural(End)'
  <2> SUFFICES ASSUME BackNeural(e), w.op \notin {"present", "copyOut"} PROVE BackNeural(End)'
    OBVIOUS
  <2>1. CASE back.neural /\ None({"present", "copyOut"}, 1, e)
    BY <1>3, <2>1 DEF BackNeural
  <2>2. CASE \E i \in 1..(e - 1) : /\ q12[i].op = "nativePost" \/ (q12[i].op = "copyOut" /\ ColorNeural(i))
                                   /\ None({"present", "copyOut"}, i + 1, e)
    BY <1>2, <1>3, <1>5, <2>2 DEF BackNeural
  <2> QED BY <2>1, <2>2 DEF BackNeural
<1>11. w.op = "nativePost" \/ (w.op = "copyOut" /\ ColorNeural(e)) => BackNeural(End)'
  BY <1>1, <1>4, <1>6 DEF BackNeural
<1>12. \A f : (IF w.op = "nativePre" THEN w.frame = f ELSE CurrentShows(e, f)) => CurrentShows(End, f)'
  BY <1>1, <1>2, <1>3, <1>4 DEF CurrentShows
<1> QED BY <1>1, <1>7, <1>8, <1>9, <1>10, <1>11, <1>12

LEMMA PredictedAppend ==
    ASSUME TypeInv, Predicted, NEW w \in Works, q12' = Append(q12, w), UNCHANGED <<color, back>>, image'.current = image.current,
           w.op = "copyOut" => ColorShows(End, w.frame),
           w.op = "nativePost" => CurrentShows(End, w.frame),
           w.op = "present" /\ w.neural => BackNeural(End)
    PROVE Predicted'
<1> SUFFICES ASSUME NEW i \in DOMAIN q12'
             PROVE  /\ q12'[i].op = "copyOut" => ColorShows(i, q12[i].frame)'
                    /\ q12'[i].op = "nativePost" => CurrentShows(i, q12[i].frame)'
                    /\ q12'[i].op = "present" /\ q12'[i].neural => BackNeural(i)'
  BY DEF Predicted
<1>1. PICK x : x = q12'[i]
  OBVIOUS
<1>2. /\ x.op = "copyOut" => ColorShows(i, x.frame)
      /\ x.op = "nativePost" => CurrentShows(i, x.frame)
      /\ x.op = "present" /\ x.neural => BackNeural(i)
  BY <1>1, Appended DEF Predicted
<1>3. /\ x.op = "copyOut" => ColorShows(i, x.frame)'
      /\ x.op = "nativePost" => CurrentShows(i, x.frame)'
      /\ x.op = "present" /\ x.neural => BackNeural(i)'
  BY <1>2, ShowsAppend
<1> QED BY <1>1, <1>3 DEF ColorShows, CurrentShows

LEMMA RememberedAppend ==
    ASSUME TypeInv, Remembered, NEW w \in Works, q12' = Append(q12, w), image'.history = image.history, color'.gen = color.gen,
           w.op = "nativePre" /\ w.history # 0 => Kept(w.history) /\ (color.gen = 0 \/ color.gen > w.frame)
    PROVE Remembered'
<1> SUFFICES ASSUME NEW i \in DOMAIN q12', q12'[i].op = "nativePre", q12'[i].history # 0
             PROVE  /\ image'.history = q12'[i].history /\ None({"nativePost"}, 1, i)'
                    /\ color'.gen = 0 \/ color'.gen > q12'[i].frame
  BY DEF Remembered
<1>1. image.history = q12'[i].history /\ None({"nativePost"}, 1, i) /\ (color.gen = 0 \/ color.gen > q12'[i].frame)
  <2>1. CASE i \in DOMAIN q12
    BY <2>1, Appended DEF Remembered
  <2>2. CASE i = End
    BY <2>2, Appended DEF Kept
  <2> QED BY <2>1, <2>2, Appended
<1>2. None({"nativePost"}, 1, i)'
  BY <1>1, NoneAppend
<1> QED BY <1>1, <1>2

\* The rest of what is said of a queue.
LEMMA UnusedAppend ==
    ASSUME TypeInv, NEW w \in Works, q12' = Append(q12, w), NEW ctx, Unused(ctx), w.ctx # ctx
    PROVE Unused(ctx)'
BY Appended DEF Unused

LEMMA BehindEnd ==
    ASSUME TypeInv, NEW w \in Works, q12' = Append(q12, w), UNCHANGED fence, NEW ops, NEW f, NEW v,
           fence[f] < v, \A i \in DOMAIN q12 : FenceOf(q12[i].ctx) = f => q12[i].signal < v
    PROVE Behind(ops, f, v)'
<1> SUFFICES ASSUME NEW i \in DOMAIN q12' PROVE Before(i, f, v)'
  BY DEF Behind
<1>1. CASE i \in DOMAIN q12
  <2>1. \A j \in 1..(i - 1) : j \in DOMAIN q12
    BY <1>1, Appended
  <2>2. Before(i, f, v)
    BY <2>1 DEF Before
  <2> QED BY <1>1, <2>2, BeforeAppend
<1>2. CASE i = End
  BY <1>2, BeforeEnd
<1> QED BY <1>1, <1>2, Appended

LEMMA KeptAppend ==
    ASSUME TypeInv, NEW w \in Works, q12' = Append(q12, w), NEW h, Kept(h), image'.history = image.history, w.op # "nativePost"
    PROVE Kept(h)'
BY NoneEnd DEF Kept

LEMMA Queue12Append ==
    ASSUME TypeInv, NEW w \in Works, q12' = Append(q12, w), UNCHANGED back, NEW n \in Nat, Queue12(n), w.op # "present"
    PROVE Queue12(n)'
<1>1. \A i \in DOMAIN q12' : q12'[i].op = "present" => q12'[i].frame <= n
  BY Appended DEF Queue12
<1>2. \A f \in back.frame..n : \E i \in DOMAIN q12' : q12'[i].op = "present" /\ q12'[i].frame = f
  BY Appended DEF Queue12
<1> QED BY <1>1, <1>2 DEF Queue12

LEMMA Queue12Presents ==
    ASSUME TypeInv, NEW w \in Works, q12' = Append(q12, w), UNCHANGED back, NEW n \in Nat, Queue12(n),
           w.op = "present" /\ w.frame = n + 1
    PROVE Queue12(n + 1)'
<1>0. back.frame \in Nat /\ \A i \in DOMAIN q12 : q12[i].frame \in Nat
  BY QueueFits DEF TypeInv, Images, Works
<1>1. \A i \in DOMAIN q12' : q12'[i].op = "present" => q12'[i].frame <= n + 1
  BY <1>0, Appended DEF Queue12
<1>2. ASSUME NEW f \in back.frame..(n + 1) PROVE \E i \in DOMAIN q12' : q12'[i].op = "present" /\ q12'[i].frame = f
  <2>1. CASE f = n + 1
    BY <2>1, Appended
  <2>2. CASE f # n + 1
    <3>1. f \in back.frame..n
      BY <1>0, <2>2
    <3> QED BY <3>1, Appended DEF Queue12
  <2> QED BY <2>1, <2>2
<1>3. back.frame <= n + 1 + 1
  BY <1>0 DEF Queue12
<1> QED BY <1>1, <1>2, <1>3 DEF Queue12

\* A command of the Present in progress is behind those of the Presents before it.
LEMMA InOrder ==
    ASSUME TypeInv, NEW n \in Nat, NEW f \in Nat, Recent(n), n <= f, Queue12(f - 1)
    PROVE /\ back.frame <= f
          /\ \A i \in DOMAIN q12 : q12[i].frame <= f /\ (q12[i].op = "present" => q12[i].frame < f)
<1>1. back.frame \in Nat /\ \A i \in DOMAIN q12 : q12[i].frame \in Nat
  BY QueueFits DEF TypeInv, Images, Works
<1> QED BY <1>1 DEF Recent, Queue12

---------------------------------------------------------------------------
(* The end of a call.                                                      *)

LEMMA PresentFits ==
    ASSUME NEW f \in Nat, NEW ok \in BOOLEAN
    PROVE \E w \in Works :
             /\ w = [Work("present", "game", 0, f) EXCEPT !.neural = ok]
             /\ w.op = "present" /\ w.ctx = CtxOf("present") /\ w.gen = 0 /\ w.frame = f /\ w.neural = ok /\ w.signal = 0
<1> DEFINE v == Work("present", "game", 0, f)
<1>1. v \in Works /\ v.op = "present" /\ v.ctx = "game" /\ v.gen = 0 /\ v.frame = f /\ v.signal = 0
  BY DEF Work, Works, Ops, Ctxs
<1> HIDE DEF v
<1> DEFINE w == [v EXCEPT !.neural = ok]
<1>2. w \in Works /\ w.op = "present" /\ w.ctx = "game" /\ w.gen = 0 /\ w.frame = f /\ w.neural = ok /\ w.signal = 0
  BY <1>1 DEF Works
<1> QED BY <1>2, ContextOf DEF v

\* Whatever the path, the Present is queued and the call is over.
LEMMA ReturnKeeps ==
    ASSUME IInv, NEW f \in Nat, NEW ok \in BOOLEAN,
           call' = [NoCall EXCEPT !.frame = f], q12' = Append(q12, [Work("present", "game", 0, f) EXCEPT !.neural = ok]),
           UNCHANGED <<mode, q11, fence, back, image, host, retired, copies, d11>>, call.frame <= f,
           native' \in Natives, native' = [native EXCEPT !.history = native'.history],
           \/ UNCHANGED <<color, surface>>
           \/ color' = NoColor /\ surface' = NoSurface /\ (lapses = {} => q12 = <<>>),
           lapses' = {} => /\ lapses = {} /\ f = Reach(call) + 1 /\ (ok => BackNeural(End))
                           /\ native'.history # 0 => color'.gen = 0 /\ Kept(native'.history)
    PROVE IInv'
<1>0. TypeInv /\ Values /\ Kinds /\ Recent(call.frame) /\ call.frame \in Nat
  BY CallFits DEF IInv
<1>1. PICK w \in Works : /\ w = [Work("present", "game", 0, f) EXCEPT !.neural = ok]
                         /\ w.op = "present" /\ w.ctx = CtxOf("present") /\ w.gen = 0 /\ w.frame = f /\ w.neural = ok /\ w.signal = 0
  BY PresentFits
<1>2. q12' = Append(q12, w)
  BY <1>1
<1>3. PICK d \in Calls : call' = d /\ d.pc = "idle" /\ d.frame = f /\ d.togo = {} /\ d.guides = {} /\ d.ok = FALSE /\ d.after = "idle"
  <2> DEFINE d == [NoCall EXCEPT !.frame = f]
  <2>1. d \in Calls /\ d.pc = "idle" /\ d.frame = f /\ d.togo = {} /\ d.guides = {} /\ d.ok = FALSE /\ d.after = "idle"
    BY NoCallFits DEF Calls
  <2> QED BY <2>1
<1>4. /\ native'.inst = native.inst /\ native'.last = native.last /\ native'.value = native.value /\ native'.hold = native.hold
      /\ native.inst \in Nat /\ native.last \in Nat /\ copies.next \in Nat
  <2>1. native \in Natives
    BY <1>0 DEF TypeInv
  <2>2. copies.next \in Nat
    BY <1>0 DEF TypeInv
  <2> QED BY <2>1, <2>2 DEF Natives
<1>5. color' \in [gen : Nat, desc : Nat \X Nat, image : Images] /\ surface' \in [Kind -> Surfaces]
      /\ (color'.gen = 0 \/ color' = color)
      /\ \A g \in Kind : (surface'[g].gen = 0 /\ surface'[g].kind = "none") \/ surface'[g] = surface[g]
  <2>1. CASE UNCHANGED <<color, surface>>
    BY <1>0, <2>1 DEF TypeInv
  <2>2. CASE color' = NoColor /\ surface' = NoSurface
    <3>1. NoColor \in [gen : Nat, desc : Nat \X Nat, image : Images] /\ NoColor.gen = 0
      BY DEF NoColor, NoImage, Images
    <3>2. NoSurface \in [Kind -> Surfaces] /\ \A g \in Kind : NoSurface[g].gen = 0 /\ NoSurface[g].kind = "none"
      BY DEF NoSurface, Surfaces, Kind
    <3> QED BY <2>2, <3>1, <3>2
  <2> QED BY <2>1, <2>2
<1>6. TypeInv'
  BY <1>0, <1>1, <1>2, <1>3, <1>5, Appended DEF TypeInv
<1>7. Values'
  <2>1. w.signal < copies'.next /\ FenceOf(w.ctx) = "copy" /\ copies'.next \in Nat
    <3>1. fence.copy \in Nat /\ fence.copy < copies.next
      BY <1>0 DEF TypeInv, Values
    <3> QED BY <1>1, <1>4, <3>1, ContextOf, FencesOf
  <2> QED BY <1>0, <1>2, <1>4, <2>1, ValuesAppend
<1>8. Kinds'
  BY <1>0, <1>1, <1>2, KindsAppend
<1>9. Recent(call.frame)'
  <2>1. color'.gen <= f /\ \A g \in Kind : surface'[g].gen <= f
    <3>1. color.gen \in Nat /\ \A g \in Kind : surface[g].gen \in Nat
      BY <1>0 DEF TypeInv, Surfaces
    <3> QED BY <1>0, <1>5, <3>1 DEF Recent
  <2>2. Recent(f)'
    <3>1. PICK n \in Nat : n = call.frame /\ n <= f /\ Recent(n) /\ w.frame <= f
      BY <1>0, <1>1
    <3> QED BY <1>0, <1>2, <2>1, <3>1, RecentAppend
  <2> QED BY <1>3, <2>2 DEF Recent
<1>10. ASSUME lapses' = {} PROVE Devices' /\ Facts(call)'
  <2>1. lapses = {} /\ Devices /\ Facts(call) /\ f = Reach(call) + 1 /\ (ok => BackNeural(End))
        /\ (native'.history # 0 => color'.gen = 0 /\ Kept(native'.history))
    BY <1>10 DEF IInv
  <2>2. Queue12(Reach(call)) /\ Reach(call) \in Nat /\ f - 1 = Reach(call)
    BY <1>0, <2>1 DEF Facts, Ranked, Having, Reach
  <2>3. Allocators'
    BY <1>0, <1>1, <1>2, <2>1, AllocatorsAppend DEF Devices, CopyOps
  <2>4. Bundles'
    BY <1>0, <1>1, <1>2, <1>4, <2>1, BundlesAppend DEF Devices, NativeOps
  <2>5. Pending'
    <3>1. \A k \in DOMAIN q11 : q11[k].guides \in SUBSET (Kind \X Nat)
      BY <1>0, QueueFits DEF Works
    <3>2. \A k \in DOMAIN q11 : Live(k)' => Live(k)
      BY <1>5, <3>1 DEF Live
    <3> QED BY <2>1, <3>2, PendingShrinks DEF Devices
  <2>6. Surfaced'
    <3>1. CASE UNCHANGED <<color, surface>>
      BY <1>0, <1>1, <1>2, <2>1, <3>1, SurfacedAppend DEF Devices
    <3>2. CASE q12 = <<>>
      <4>1. \A i \in DOMAIN q12' : q12'[i] = w
        BY <1>0, <1>2, <3>2
      <4>2. \A g \in Kind : surface'[g].kind = "own" => surface'[g].gen # 0
        BY <1>5, <2>1 DEF Devices, Surfaced
      <4> QED BY <1>1, <4>1, <4>2 DEF Surfaced
    <3> QED BY <2>1, <3>1, <3>2
  <2>7. Sorted'
    <3>1. /\ back.frame <= f
          /\ \A i \in DOMAIN q12 : q12[i].frame <= f /\ (q12[i].op = "present" => q12[i].frame < f)
      BY <1>0, <2>2, InOrder
    <3> QED BY <1>0, <1>1, <1>2, <2>1, <3>1, SortedAppend DEF Devices
  <2>8. Predicted'
    <3>1. CASE UNCHANGED <<color, surface>>
      BY <1>0, <1>1, <1>2, <2>1, <3>1, PredictedAppend DEF Devices
    <3>2. CASE q12 = <<>>
      <4>1. DOMAIN q12' = {1} /\ q12'[1] = w /\ End = 1
        BY <1>0, <1>2, <3>2 DEF End
      <4>2. ok => back.neural
        BY <2>1, <4>1 DEF BackNeural
      <4>3. ok => BackNeural(1)'
        BY <4>2 DEF BackNeural, None
      <4> QED BY <1>1, <4>1, <4>3 DEF Predicted
    <3> QED BY <2>1, <3>1, <3>2
  <2>9. Remembered'
    <3>1. CASE UNCHANGED <<color, surface>>
      BY <1>0, <1>1, <1>2, <2>1, <3>1, RememberedAppend DEF Devices
    <3>2. CASE q12 = <<>>
      <4>1. \A i \in DOMAIN q12' : q12'[i] = w
        BY <1>0, <1>2, <3>2
      <4> QED BY <1>1, <4>1 DEF Remembered
    <3> QED BY <2>1, <3>1, <3>2
  <2>10. Facts(d)'
    <3>1. Waiting(d)' /\ Earlier(d)' /\ Arrived(d)' /\ Last(d)' /\ Showing(d)'
      BY <1>3 DEF Waiting, Earlier, Arrived, Last, Showing, Where, Coloring, Preparing, Guiding, Resets
    <3>2. NonePending(d)'
      BY <1>3, <2>1 DEF Facts, NonePending, Where, Coloring, Preparing, Guiding, Resets
    <3>3. Having(d)'
      BY <1>3 DEF Having, Untouched, Where, Presented, Preparing, Guiding, Resets
    <3>4. Ranked(d)'
      <4>1. Queue12(f)'
        <5>1. PICK n : n = Reach(call)
          OBVIOUS
        <5>2. Queue12(n + 1)' /\ f = n + 1
          BY <1>0, <1>1, <1>2, <2>1, <2>2, <5>1, Queue12Presents
        <5> QED BY <5>2
      <4> QED BY <1>3, <4>1 DEF Ranked, Reach, Presented, Where, Coloring, Resets
    <3>5. Historic(d)'
      <4>1. PICK h : h = native'.history
        OBVIOUS
      <4>2. h # 0 => Kept(h)'
        BY <1>0, <1>1, <1>2, <2>1, <4>1, KeptAppend
      <4>3. h # 0 => color'.gen = 0
        BY <2>1, <4>1
      <4> QED BY <1>3, <4>1, <4>2, <4>3 DEF Historic, Kept, Where, Coloring, Resets
    <3> QED BY <3>1, <3>2, <3>3, <3>4, <3>5 DEF Facts
  <2> QED BY <1>3, <2>3, <2>4, <2>5, <2>6, <2>7, <2>8, <2>9, <2>10, FactsOf DEF Devices
<1> QED BY <1>6, <1>7, <1>8, <1>9, <1>10 DEF IInv

LEMMA HistoryEnds ==
    ASSUME TypeInv, NEW h \in Nat
    PROVE [native EXCEPT !.history = h] \in Natives /\ [native EXCEPT !.history = h].history = h
          /\ native = [native EXCEPT !.history = native.history] /\ native \in Natives
BY DEF TypeInv, Natives

\* What an early return finds: the Present has not been queued, and a history stays.
LEMMA Returns ==
    ASSUME IInv, lapses = {}, call.pc \in {"idle", "refused", "processed", "nativeGone", "nativeDone"}
    PROVE /\ Reach(call) = (IF call.pc = "idle" THEN call.frame ELSE call.frame - 1)
          /\ call.pc # "nativeGone" /\ call.pc # "nativeDone" /\ native.history # 0 => color.gen = 0 /\ Kept(native.history)
          /\ call.pc = "processed" /\ call.ok => BackNeural(End)
          /\ call.pc = "nativeDone" => q12 = <<>> /\ BackNeural(End) /\ image.history = call.frame
<1>1. Facts(call)
  BY DEF IInv
<1>2. Reach(call) = IF call.pc = "idle" THEN call.frame ELSE call.frame - 1
  BY DEF Reach, Presented, Where, Resets
<1>3. call.pc # "nativeGone" /\ call.pc # "nativeDone" /\ native.history # 0 => color.gen = 0 /\ Kept(native.history)
  BY <1>1 DEF Facts, Historic, Where
<1>4. call.pc = "processed" /\ call.ok => BackNeural(End)
  BY <1>1 DEF Facts, Showing, Where
<1>5. call.pc = "nativeDone" => q12 = <<>> /\ BackNeural(End) /\ Composed12(call.frame)
  BY <1>1 DEF Facts, Arrived, Showing, Historic, Where
<1> QED BY <1>2, <1>3, <1>4, <1>5 DEF Composed12

LEMMA PassOverKeeps ==
    ASSUME IInv, PassOver
    PROVE IInv'
<1> DEFINE f == call.frame + 1
<1>1. f \in Nat /\ call.frame <= f /\ call.frame \in Nat
  BY CallFits
<1>2. [call EXCEPT !.frame = call.frame + 1].frame = f
  BY CallFits DEF Calls
<1>3. /\ call' = [NoCall EXCEPT !.frame = f]
      /\ q12' = Append(q12, [Work("present", "game", 0, f) EXCEPT !.neural = FALSE])
  BY <1>2 DEF PassOver, Return
<1>4. /\ UNCHANGED <<mode, q11, fence, back, image, host, retired, copies, d11, color, surface, native, lapses>> /\ call.pc = "idle"
  BY DEF PassOver, nativeVars, owned
<1>5. native' \in Natives /\ native' = [native EXCEPT !.history = native'.history]
  BY <1>4, HistoryEnds DEF IInv
<1>6. lapses' = {} => /\ lapses = {} /\ f = Reach(call) + 1 /\ (FALSE => BackNeural(End))
                      /\ native'.history # 0 => color'.gen = 0 /\ Kept(native'.history)
  BY <1>4, Returns
<1> HIDE DEF f
<1> QED BY <1>1, <1>3, <1>4, <1>5, <1>6, ReturnKeeps

LEMMA RefusedKeeps ==
    ASSUME IInv, Refused /\ UNCHANGED <<nativeVars, owned>>
    PROVE IInv'
<1>1. call.frame \in Nat /\ call.frame <= call.frame
  BY CallFits
<1>2. /\ call' = [NoCall EXCEPT !.frame = call.frame]
      /\ q12' = Append(q12, [Work("present", "game", 0, call.frame) EXCEPT !.neural = FALSE])
  BY DEF Refused, Return
<1>3. /\ UNCHANGED <<mode, q11, fence, back, image, host, retired, copies, d11, color, surface, native, lapses>> /\ call.pc = "refused"
  BY DEF Refused, nativeVars, owned
<1>4. native' \in Natives /\ native' = [native EXCEPT !.history = native'.history]
  BY <1>3, HistoryEnds DEF IInv
<1>5. lapses' = {} => /\ lapses = {} /\ call.frame = Reach(call) + 1 /\ (FALSE => BackNeural(End))
                      /\ native'.history # 0 => color'.gen = 0 /\ Kept(native'.history)
  BY <1>1, <1>3, Returns
<1> QED BY <1>1, <1>2, <1>3, <1>4, <1>5, ReturnKeeps

LEMMA ProcessedKeeps ==
    ASSUME IInv, Processed
    PROVE IInv'
<1>1. call.frame \in Nat /\ call.frame <= call.frame /\ call.ok \in BOOLEAN
  BY CallFits DEF Calls
<1>2. /\ call' = [NoCall EXCEPT !.frame = call.frame]
      /\ q12' = Append(q12, [Work("present", "game", 0, call.frame) EXCEPT !.neural = call.ok])
  BY DEF Processed, Return
<1>3. /\ UNCHANGED <<mode, q11, fence, back, image, host, retired, copies, d11, color, surface, native, lapses>> /\ call.pc = "processed"
  BY DEF Processed, nativeVars, owned
<1>4. native' \in Natives /\ native' = [native EXCEPT !.history = native'.history]
  BY <1>3, HistoryEnds DEF IInv
<1>5. lapses' = {} => /\ lapses = {} /\ call.frame = Reach(call) + 1 /\ (call.ok => BackNeural(End))
                      /\ native'.history # 0 => color'.gen = 0 /\ Kept(native'.history)
  BY <1>1, <1>3, Returns
<1> QED BY <1>1, <1>2, <1>3, <1>4, <1>5, ReturnKeeps

LEMMA NativeGoneKeeps ==
    ASSUME IInv, NativeGone /\ UNCHANGED owned
    PROVE IInv'
<1>1. call.frame \in Nat /\ call.frame <= call.frame
  BY CallFits
<1>2. /\ call' = [NoCall EXCEPT !.frame = call.frame]
      /\ q12' = Append(q12, [Work("present", "game", 0, call.frame) EXCEPT !.neural = FALSE])
  BY DEF NativeGone, Return
<1>3. /\ UNCHANGED <<mode, q11, fence, back, image, host, retired, copies, d11, color, surface, lapses>> /\ call.pc = "nativeGone"
      /\ native' = [native EXCEPT !.history = 0]
  BY DEF NativeGone, AttemptFails, owned
<1>4. native' \in Natives /\ native'.history = 0 /\ native' = [native EXCEPT !.history = native'.history]
  BY <1>3, HistoryEnds DEF IInv
<1>5. lapses' = {} => /\ lapses = {} /\ call.frame = Reach(call) + 1 /\ (FALSE => BackNeural(End))
                      /\ native'.history # 0 => color'.gen = 0 /\ Kept(native'.history)
  BY <1>1, <1>3, <1>4, Returns
<1> QED BY <1>1, <1>2, <1>3, <1>4, <1>5, ReturnKeeps

LEMMA NativeDoneKeeps ==
    ASSUME IInv, NativeDone
    PROVE IInv'
<1>1. call.frame \in Nat /\ call.frame <= call.frame
  BY CallFits
<1>2. /\ call' = [NoCall EXCEPT !.frame = call.frame]
      /\ q12' = Append(q12, [Work("present", "game", 0, call.frame) EXCEPT !.neural = TRUE])
  BY DEF NativeDone, Return
<1>3. /\ UNCHANGED <<mode, q11, fence, back, image, host, retired, copies, d11, lapses>> /\ call.pc = "nativeDone"
      /\ native' = [native EXCEPT !.history = call.frame] /\ color' = NoColor /\ surface' = NoSurface
  BY DEF NativeDone
<1>4. native' \in Natives /\ native'.history = call.frame /\ native' = [native EXCEPT !.history = native'.history]
  BY <1>1, <1>3, HistoryEnds DEF IInv
<1>5. lapses = {} => q12 = <<>> /\ BackNeural(End) /\ image.history = call.frame /\ call.frame = Reach(call) + 1
  BY <1>1, <1>3, Returns
<1>6. lapses = {} => color'.gen = 0 /\ Kept(native'.history)
  BY <1>3, <1>4, <1>5 DEF NoColor, Kept, None, End
<1> QED BY <1>1, <1>2, <1>3, <1>4, <1>5, <1>6, ReturnKeeps

---------------------------------------------------------------------------
(* Copies.                                                                 *)

LEMMA SubmitFits ==
    ASSUME TypeInv, NEW ctx \in {"pre", "post", "guide"}, NEW w \in Works, SubmitCopy(ctx, w)
    PROVE /\ copies' \in [pre : Nat, post : Nat, guide : Nat, next : Nat]
          /\ copies' = [copies EXCEPT ![ctx] = copies.next, !.next = copies.next + 1]
          /\ copies'.next = copies.next + 1 /\ copies'[ctx] = copies.next
          /\ \A c \in {"pre", "post", "guide"} : c # ctx => copies'[c] = copies[c]
          /\ \E x \in Works : /\ q12' = Append(q12, x) /\ x.op = w.op /\ x.ctx = w.ctx /\ x.gen = w.gen /\ x.frame = w.frame
                              /\ x.guides = w.guides /\ x.neural = w.neural /\ x.history = w.history
                              /\ x.signal <= copies.next
<1>1. copies \in [pre : Nat, post : Nat, guide : Nat, next : Nat] /\ copies.next \in Nat /\ copies.next + 1 \in Nat
  BY DEF TypeInv
<1>2. copies' = [copies EXCEPT ![ctx] = copies.next, !.next = copies.next + 1]
  BY DEF SubmitCopy
<1>3. /\ copies' \in [pre : Nat, post : Nat, guide : Nat, next : Nat]
      /\ copies'.next = copies.next + 1 /\ copies'[ctx] = copies.next
      /\ \A c \in {"pre", "post", "guide"} : c # ctx => copies'[c] = copies[c]
  <2> DEFINE n == copies.next + 1
  <2>1. n \in Nat
    BY <1>1
  <2>2. copies' = [copies EXCEPT ![ctx] = copies.next, !.next = n]
    BY <1>2
  <2> HIDE DEF n
  <2>3. /\ copies' \in [pre : Nat, post : Nat, guide : Nat, next : Nat]
        /\ copies'.next = n /\ copies'[ctx] = copies.next
        /\ \A c \in {"pre", "post", "guide"} : c # ctx => copies'[c] = copies[c]
    BY <1>1, <2>1, <2>2
  <2> QED BY <2>3 DEF n
<1>4. PICK s \in Signals(copies.next) : q12' = Append(q12, [w EXCEPT !.signal = s])
  BY DEF SubmitCopy
<1>5. s \in Nat /\ s <= copies.next
  BY <1>1 DEF Signals
<1> DEFINE x == [w EXCEPT !.signal = s]
<1>6. x \in Works /\ x.op = w.op /\ x.ctx = w.ctx /\ x.gen = w.gen /\ x.frame = w.frame
      /\ x.guides = w.guides /\ x.neural = w.neural /\ x.history = w.history /\ x.signal = s
  BY <1>5 DEF Works
<1>7. q12' = Append(q12, x)
  BY <1>4
<1> HIDE DEF x
<1> QED BY <1>2, <1>3, <1>5, <1>6, <1>7

\* With nothing pending, D3D11 uses none of the surfaces there are.
LEMMA NoPending ==
    ASSUME IInv, lapses = {}, d11.pending = 0
    PROVE NoneLive /\ (color.gen # 0 => \A k \in DOMAIN q11 : q11[k].gen # color.gen)
<1>1. NoneLive
  <2>1. fence.d11 \in Nat
    BY DEF IInv, TypeInv
  <2> QED BY <2>1, D11Arrives
<1> QED BY <1>1 DEF NoneLive, Live

\* The surface is filled from the back buffer, or copied back.
LEMMA SurfaceCopyFits ==
    ASSUME IInv, NEW op \in {"copyIn", "copyOut"}, SubmitCopy(CtxOf(op), Work(op, CtxOf(op), color.gen, call.frame))
    PROVE /\ \E x \in Works : q12' = Append(q12, x) /\ x.op = op /\ x.ctx = CtxOf(op) /\ x.gen = color.gen /\ x.frame = call.frame
                              /\ x.signal <= copies.next
          /\ copies' \in [pre : Nat, post : Nat, guide : Nat, next : Nat]
          /\ copies' = [copies EXCEPT ![CtxOf(op)] = copies.next, !.next = copies.next + 1] /\ copies'.next = copies.next + 1
          /\ copies'[CtxOf(op)] = copies.next /\ copies.next \in Nat /\ copies'.next \in Nat
<1>0. TypeInv /\ call.frame \in Nat /\ color.gen \in Nat /\ copies.next \in Nat
  <2>1. TypeInv
    BY DEF IInv
  <2> QED BY <2>1, CallFits DEF TypeInv
<1>1. CtxOf(op) \in {"pre", "post"} /\ op \in Ops /\ CtxOf(op) \in Ctxs
  BY ContextOf DEF Ops, Ctxs
<1> DEFINE v == Work(op, CtxOf(op), color.gen, call.frame)
<1>2. v \in Works /\ v.op = op /\ v.ctx = CtxOf(op) /\ v.gen = color.gen /\ v.frame = call.frame /\ SubmitCopy(CtxOf(op), v)
  BY <1>0, <1>1 DEF Work, Works
<1> HIDE DEF v
<1>3. PICK x \in Works : q12' = Append(q12, x) /\ x.op = v.op /\ x.ctx = v.ctx /\ x.gen = v.gen /\ x.frame = v.frame
                         /\ x.signal <= copies.next
  BY <1>0, <1>1, <1>2, SubmitFits
<1>4. /\ copies' \in [pre : Nat, post : Nat, guide : Nat, next : Nat]
      /\ copies' = [copies EXCEPT ![CtxOf(op)] = copies.next, !.next = copies.next + 1] /\ copies'.next = copies.next + 1
      /\ copies'[CtxOf(op)] = copies.next
  <2>1. PICK c \in {"pre", "post", "guide"} : c = CtxOf(op) /\ SubmitCopy(c, v)
    BY <1>1, <1>2
  <2>2. /\ copies' \in [pre : Nat, post : Nat, guide : Nat, next : Nat]
        /\ copies' = [copies EXCEPT ![c] = copies.next, !.next = copies.next + 1] /\ copies'.next = copies.next + 1
        /\ copies'[c] = copies.next
    BY <1>0, <1>2, <2>1, SubmitFits
  <2> QED BY <2>1, <2>2
<1>5. q12' = Append(q12, x) /\ x.op = op /\ x.ctx = CtxOf(op) /\ x.gen = color.gen /\ x.frame = call.frame /\ x.signal <= copies.next
  BY <1>2, <1>3
<1>6. copies'.next \in Nat
  BY <1>4
<1> QED BY <1>0, <1>4, <1>5, <1>6

\* The surface is filled from the back buffer, or copied back.
LEMMA SurfaceCopyKeeps ==
    ASSUME IInv, NEW op \in {"copyIn", "copyOut"}, SubmitCopy(CtxOf(op), Work(op, CtxOf(op), color.gen, call.frame)),
           NEW d \in Calls, call' = d, d.frame = call.frame,
           UNCHANGED <<mode, q11, fence, back, lapses, nativeVars, color, surface, d11>>,
           lapses = {} => /\ Unused(CtxOf(op)) /\ color.gen # 0 /\ d11.pending = 0 /\ Queue12(call.frame - 1)
                          /\ op = "copyOut" => ColorShows(End, call.frame)
                          /\ Facts(d)'
    PROVE IInv'
<1> USE DEF nativeVars
<1>0. TypeInv /\ Values /\ Kinds /\ Recent(call.frame) /\ call.frame \in Nat /\ color.gen \in Nat
  <2>1. TypeInv
    BY DEF IInv
  <2> QED BY <2>1, CallFits DEF IInv, TypeInv
<1>1. CtxOf(op) \in {"pre", "post"} /\ FenceOf(CtxOf(op)) = "copy" /\ op \in Ops /\ CtxOf(op) \in Ctxs /\ op \in CopyOps /\ op \notin NativeOps
  BY ContextOf, FencesOf DEF Ops, Ctxs, CopyOps, NativeOps
<1>3. PICK x \in Works : q12' = Append(q12, x) /\ x.op = op /\ x.ctx = CtxOf(op) /\ x.gen = color.gen /\ x.frame = call.frame
                         /\ x.signal <= copies.next
  BY SurfaceCopyFits
<1>4. /\ copies' \in [pre : Nat, post : Nat, guide : Nat, next : Nat]
      /\ copies' = [copies EXCEPT ![CtxOf(op)] = copies.next, !.next = copies.next + 1] /\ copies'.next = copies.next + 1
      /\ copies.next \in Nat /\ copies'.next \in Nat
  BY SurfaceCopyFits
<1>5. TypeInv'
  BY <1>0, <1>3, <1>4, Appended DEF TypeInv
<1>6. Values'
  <2>1. native'.last \in Nat /\ native.last <= native'.last
    BY <1>0 DEF TypeInv, Natives
  <2>2. x.signal < copies'.next /\ copies.next <= copies'.next
    <3>1. x.signal \in Nat
      BY DEF Works
    <3>2. x.signal <= copies.next
      BY <1>3
    <3>3. copies'.next = copies.next + 1 /\ copies.next \in Nat
      BY <1>4
    <3> QED BY <3>1, <3>2, <3>3
  <2>3. FenceOf(x.ctx) = "copy"
    BY <1>1, <1>3
  <2> QED BY <1>0, <1>3, <1>4, <2>1, <2>2, <2>3, ValuesAppend
<1>7. Kinds'
  BY <1>0, <1>3, KindsAppend
<1>8. Recent(call.frame)'
  <2>1. PICK n \in Nat : n = call.frame /\ n <= n /\ Recent(n) /\ x.frame <= n
    BY <1>0, <1>3
  <2>2. color'.gen <= n /\ \A g \in Kind : surface'[g].gen <= n
    BY <2>1 DEF Recent
  <2>3. Recent(n)'
    BY <1>0, <1>3, <2>1, <2>2, RecentAppend
  <2> QED BY <2>1, <2>3 DEF Recent
<1>9. ASSUME lapses' = {} PROVE Devices' /\ Facts(call)'
  <2>1. lapses = {} /\ Devices
    BY <1>9 DEF IInv
  <2>2. /\ Unused(x.ctx) /\ color.gen # 0 /\ d11.pending = 0 /\ Queue12(call.frame - 1)
        /\ op = "copyOut" => ColorShows(End, call.frame)
        /\ Facts(d)'
    BY <1>3, <2>1
  <2>3. Allocators'
    BY <1>0, <1>1, <1>3, <1>4, <2>1, <2>2, AllocatorsAppend DEF Devices
  <2>4. Bundles'
    BY <1>0, <1>1, <1>3, <2>1, BundlesAppend DEF Devices
  <2>5. Pending'
    BY <2>1, PendingShrinks DEF Devices, Live
  <2>6. Surfaced'
    BY <1>0, <1>3, <2>1, <2>2, NoPending, SurfacedAppend DEF Devices
  <2>7. Sorted'
    <3>1. PICK f \in Nat : f = call.frame /\ Recent(f) /\ Queue12(f - 1) /\ f <= f
      BY <1>0, <2>2
    <3>2. /\ back.frame <= f
          /\ \A i \in DOMAIN q12 : q12[i].frame <= f /\ (q12[i].op = "present" => q12[i].frame < f)
      BY <1>0, <3>1, InOrder
    <3> QED BY <1>0, <1>3, <2>1, <3>1, <3>2, SortedAppend DEF Devices
  <2>8. Predicted'
    BY <1>0, <1>3, <2>1, <2>2, PredictedAppend DEF Devices
  <2>9. Remembered'
    BY <1>0, <1>3, <2>1, RememberedAppend DEF Devices
  <2> QED BY <2>2, <2>3, <2>4, <2>5, <2>6, <2>7, <2>8, <2>9, FactsOf DEF Devices
<1> QED BY <1>5, <1>6, <1>7, <1>8, <1>9 DEF IInv

\* A copy of a surface touches no guide.
LEMMA UntouchedAppend ==
    ASSUME TypeInv, NEW w \in Works, q12' = Append(q12, w), w.op # "copyGuide", Untouched(call),
           NEW d, d.guides = call.guides, d.togo = call.togo, Where(call) \notin {"stageWait", "staged", "unstaged"}
    PROVE Untouched(d)'
<1>1. \A i \in DOMAIN q12' : q12'[i].op = "copyGuide" => i \in DOMAIN q12 /\ q12'[i] = q12[i]
  BY Appended
<1> QED BY <1>1 DEF Untouched

LEMMA PreCopyKeeps ==
    ASSUME IInv, PreCopy
    PROVE IInv'
<1>0. TypeInv /\ Values
  BY DEF IInv
<1>1. PICK d \in Calls : /\ call' = d /\ call.pc = "preCopy" /\ d.pc = "copiedIn" /\ d.frame = call.frame
                         /\ d.togo = call.togo /\ d.guides = call.guides
  <2> DEFINE d == [call EXCEPT !.pc = "copiedIn"]
  <2>0. "copiedIn" \in Pcs
    BY DEF Pcs
  <2>1. d \in Calls /\ d.pc = "copiedIn" /\ d.frame = call.frame /\ d.togo = call.togo /\ d.guides = call.guides
    BY <2>0, CallFits DEF Calls
  <2>2. call' = d /\ call.pc = "preCopy"
    BY DEF PreCopy
  <2> HIDE DEF d
  <2> QED BY <2>1, <2>2
<1>2. SubmitCopy(CtxOf("copyIn"), Work("copyIn", CtxOf("copyIn"), color.gen, call.frame))
  BY ContextOf DEF PreCopy
<1>3. PICK x \in Works : q12' = Append(q12, x) /\ x.op = "copyIn" /\ x.ctx = "pre" /\ x.frame = call.frame
  BY <1>2, SurfaceCopyFits, ContextOf
<1>4. copies'.pre = copies.next
  BY <1>2, SurfaceCopyFits, ContextOf
<1>5. UNCHANGED <<mode, q11, fence, back, lapses, nativeVars, color, surface, d11>>
  BY DEF PreCopy
<1>6. ASSUME lapses = {}
      PROVE  /\ Unused("pre") /\ color.gen # 0 /\ d11.pending = 0 /\ Queue12(call.frame - 1)
             /\ Facts(d)'
  <2>1. Facts(call)
    BY <1>6 DEF IInv
  <2>2. Unused("pre") /\ color.gen # 0 /\ d11.pending = 0 /\ call.frame # 0 /\ Untouched(call) /\ Older11(call.frame)
        /\ call.guides = {}
    BY <1>1, <2>1 DEF Facts, Arrived, Having, NonePending, Earlier, Where, Preparing, Presented, Resets
  <2>3. Queue12(call.frame - 1) /\ native.history = 0
    BY <1>1, <2>1, <2>2 DEF Facts, Ranked, Reach, Presented, Historic, Where, Resets
  <2>4. Waiting(d)' /\ Arrived(d)'
    BY <1>1 DEF Waiting, Arrived, Where, Guiding
  <2>5. Earlier(d)' /\ NonePending(d)'
    BY <1>1, <1>5, <2>2 DEF Earlier, NonePending, Older11
  <2>6. Last(d)'
    <3>1. PICK v : v = copies.next
      OBVIOUS
    <3>2. Behind(CopyOps, "copy", v)'
      BY <1>0, <1>3, <1>5, <3>1, BehindEnd DEF Values
    <3> QED BY <1>1, <1>4, <3>1, <3>2 DEF Last, Behind, Before
  <2>7. Having(d)'
    <3>1. Untouched(d)'
      BY <1>0, <1>1, <1>3, <2>2, UntouchedAppend DEF Where
    <3> QED BY <1>1, <1>5, <2>2, <3>1 DEF Having, Where, Coloring, Resets, Guiding, Preparing
  <2>8. Ranked(d)'
    <3>1. PICK n \in Nat : n = call.frame - 1
      BY <2>2, CallFits
    <3>2. Queue12(n)'
      BY <1>0, <1>3, <1>5, <2>3, <3>1, Queue12Append
    <3> QED BY <1>1, <3>1, <3>2 DEF Ranked, Reach, Presented, Coloring, Where, Resets
  <2>9. Showing(d)'
    <3>1. PICK f : f = call.frame
      OBVIOUS
    <3>2. ColorShows(End, f)'
      BY <1>0, <1>3, <1>5, <3>1, ShowsEnd DEF nativeVars
    <3> QED BY <1>1, <3>1, <3>2 DEF Showing, Where
  <2>10. Historic(d)'
    BY <1>1, <1>5, <2>3 DEF Historic, Where, nativeVars
  <2> QED BY <2>2, <2>3, <2>4, <2>5, <2>6, <2>7, <2>8, <2>9, <2>10 DEF Facts
<1> QED BY <1>1, <1>2, <1>5, <1>6, SurfaceCopyKeeps, ContextOf

LEMMA PostCopyKeeps ==
    ASSUME IInv, PostCopy
    PROVE IInv'
<1>0. TypeInv /\ Values
  BY DEF IInv
<1>1. PICK d \in Calls : /\ call' = d /\ call.pc = "postCopy" /\ d.pc = "copiedOut" /\ d.frame = call.frame
                         /\ d.togo = call.togo /\ d.guides = call.guides /\ d.ok = call.ok
  <2> DEFINE d == [call EXCEPT !.pc = "copiedOut"]
  <2>0. "copiedOut" \in Pcs
    BY DEF Pcs
  <2>1. d \in Calls /\ d.pc = "copiedOut" /\ d.frame = call.frame /\ d.togo = call.togo /\ d.guides = call.guides /\ d.ok = call.ok
    BY <2>0, CallFits DEF Calls
  <2>2. call' = d /\ call.pc = "postCopy"
    BY DEF PostCopy
  <2> HIDE DEF d
  <2> QED BY <2>1, <2>2
<1>2. SubmitCopy(CtxOf("copyOut"), Work("copyOut", CtxOf("copyOut"), color.gen, call.frame))
  BY ContextOf DEF PostCopy
<1>3. PICK x \in Works : q12' = Append(q12, x) /\ x.op = "copyOut" /\ x.ctx = "post" /\ x.frame = call.frame
  BY <1>2, SurfaceCopyFits, ContextOf
<1>5. UNCHANGED <<mode, q11, fence, back, lapses, nativeVars, color, surface, d11>>
  BY DEF PostCopy
<1>6. ASSUME lapses = {}
      PROVE  /\ Unused("post") /\ color.gen # 0 /\ d11.pending = 0 /\ Queue12(call.frame - 1) /\ ColorShows(End, call.frame)
             /\ Facts(d)'
  <2>1. Facts(call)
    BY <1>6 DEF IInv
  <2>2. Unused("post") /\ color.gen # 0 /\ d11.pending = 0 /\ call.frame # 0 /\ Untouched(call) /\ call.togo \cap call.guides = {}
    BY <1>1, <2>1 DEF Facts, Arrived, Having, NonePending, Earlier, Where, Preparing, Presented, Resets
  <2>3. Queue12(call.frame - 1) /\ native.history = 0 /\ ColorShows(End, call.frame) /\ (call.ok => ColorNeural(End))
    BY <1>1, <2>1, <2>2 DEF Facts, Ranked, Reach, Presented, Historic, Showing, Where, Resets
  <2>4. Waiting(d)' /\ Arrived(d)' /\ Last(d)' /\ Earlier(d)'
    BY <1>1 DEF Waiting, Arrived, Last, Earlier, Coloring, Where, Guiding, Preparing, Resets
  <2>5. NonePending(d)'
    BY <1>1, <1>5, <2>2 DEF NonePending
  <2>7. Having(d)'
    <3>1. Untouched(d)'
      BY <1>0, <1>1, <1>3, <2>2, UntouchedAppend DEF Where
    <3> QED BY <1>1, <1>5, <2>2, <3>1 DEF Having, Where, Coloring, Resets, Guiding, Preparing
  <2>8. Ranked(d)'
    <3>1. PICK n \in Nat : n = call.frame - 1
      BY <2>2, CallFits
    <3>2. Queue12(n)'
      BY <1>0, <1>3, <1>5, <2>3, <3>1, Queue12Append
    <3> QED BY <1>1, <3>1, <3>2 DEF Ranked, Reach, Presented, Coloring, Where, Resets
  <2>9. Showing(d)'
    <3>1. d.ok => BackNeural(End)'
      BY <1>0, <1>1, <1>3, <1>5, <2>3, ShowsEnd DEF nativeVars
    <3> QED BY <1>1, <3>1 DEF Showing, Where, Guiding
  <2>10. Historic(d)'
    BY <1>1, <1>5, <2>3 DEF Historic, Where, nativeVars
  <2> QED BY <2>2, <2>3, <2>4, <2>5, <2>7, <2>8, <2>9, <2>10 DEF Facts
<1> QED BY <1>1, <1>2, <1>5, <1>6, SurfaceCopyKeeps, ContextOf

---------------------------------------------------------------------------
(* Surfaces.                                                               *)

\* A surface that no copy is queued for is replaced by none, or by one of this Present.
LEMMA ColorReplaced ==
    ASSUME IInv, lapses = {}, Unused("pre"), Unused("post"), UNCHANGED <<q12, q11, fence, back, image>>,
           \/ color'.gen = 0
           \/ color'.gen = call.frame /\ Older11(call.frame) /\ Older12(call.frame),
           \/ UNCHANGED surface /\ d11'.pending = d11.pending
           \/ surface' = NoSurface /\ Unused("guide") /\ color'.gen = 0
    PROVE Pending' /\ Surfaced' /\ Sorted' /\ Predicted' /\ Remembered'
<1>0. TypeInv /\ Kinds /\ Devices /\ call.frame \in Nat /\ color.gen \in Nat
  <2>1. TypeInv
    BY DEF IInv
  <2> QED BY <2>1, CallFits DEF IInv, TypeInv
<1>1. \A i \in DOMAIN q12 : q12[i].op \notin {"copyIn", "copyOut"} /\ (Unused("guide") => q12[i].op # "copyGuide")
  BY <1>0, ContextOf DEF Kinds, Unused
<1>2. Pending'
  <2>1. \A k \in DOMAIN q11 : q11[k] \in Works /\ q11[k].gen <= q11[k].frame
    BY <1>0, QueueFits DEF Kinds
  <2>2. \A k \in DOMAIN q11 : q11[k].gen \in Nat /\ q11[k].frame \in Nat /\ q11[k].guides \in SUBSET (Kind \X Nat)
    BY <2>1 DEF Works
  <2>3. \A k \in DOMAIN q11 : color'.gen # 0 => q11[k].gen # color'.gen
    BY <1>0, <2>1, <2>2 DEF Older11
  <2>4. CASE UNCHANGED surface /\ d11'.pending = d11.pending
    <3>1. \A k \in DOMAIN q11 : Live(k)' => Live(k)
      BY <2>3, <2>4 DEF Live
    <3> QED BY <1>0, <2>4, <3>1, PendingShrinks DEF Devices
  <2>5. CASE surface' = NoSurface /\ color'.gen = 0
    <3>1. \A g \in Kind : surface'[g].gen = 0
      BY <2>5 DEF NoSurface, Kind
    <3>2. \A k \in DOMAIN q11 : ~Live(k)'
      BY <2>2, <2>5, <3>1 DEF Live
    <3> QED BY <3>2 DEF Pending
  <2> QED BY <2>4, <2>5
<1>3. Surfaced'
  <2>1. CASE UNCHANGED surface
    BY <1>0, <1>1, <2>1 DEF Devices, Surfaced
  <2>2. CASE surface' = NoSurface /\ Unused("guide")
    <3>1. \A g \in Kind : surface'[g].kind = "none"
      BY <2>2 DEF NoSurface, Kind
    <3> QED BY <1>1, <2>2, <3>1 DEF Surfaced
  <2> QED BY <2>1, <2>2
<1>4. Sorted'
  BY <1>0 DEF Devices, Sorted
<1>5. Predicted'
  <2>1. \A p \in DOMAIN q12 : BackNeural(p) => BackNeural(p)'
    <3> SUFFICES ASSUME NEW p \in DOMAIN q12, BackNeural(p) PROVE BackNeural(p)'
      OBVIOUS
    <3>1. \A i \in 1..(p - 1) : i \in DOMAIN q12
      BY <1>0, QueueFits
    <3> QED BY <1>1, <3>1 DEF BackNeural, None
  <2>2. \A p \in DOMAIN q12 : \A f : CurrentShows(p, f) => CurrentShows(p, f)'
    BY DEF CurrentShows, None
  <2>3. Predicted
    BY <1>0 DEF Devices
  <2>4. ASSUME NEW i \in DOMAIN q12
        PROVE  /\ q12'[i].op # "copyOut"
               /\ q12'[i].op = "nativePost" => CurrentShows(i, q12[i].frame)'
               /\ q12'[i].op = "present" /\ q12'[i].neural => BackNeural(i)'
    <3>1. PICK f : f = q12[i].frame
      OBVIOUS
    <3>2. q12[i].op = "nativePost" => CurrentShows(i, f)'
      BY <2>2, <2>3, <3>1 DEF Predicted
    <3> QED BY <1>1, <2>1, <2>3, <3>1, <3>2 DEF Predicted, CurrentShows
  <2> QED BY <2>4 DEF Predicted
<1>6. Remembered'
  BY <1>0 DEF Devices, Remembered, None, Older12
<1> QED BY <1>2, <1>3, <1>4, <1>5, <1>6

LEMMA EnsureOwnedColorKeeps ==
    ASSUME IInv, EnsureOwnedColor
    PROVE IInv'
<1> USE DEF nativeVars
<1>0. TypeInv /\ Values /\ Kinds /\ Recent(call.frame) /\ call \in Calls /\ call.frame \in Nat /\ copies.pre \in Nat /\ call.pc = "color"
  BY CallFits DEF IInv, EnsureOwnedColor
<1>1. UNCHANGED <<mode, q12, q11, fence, back, lapses, native, image, host, retired, surface, copies, d11>>
  BY DEF EnsureOwnedColor
<1>2. /\ color' \in [gen : Nat, desc : Nat \X Nat, image : Images]
      /\ \/ UNCHANGED color /\ color.gen # 0 /\ Await(call, "copy", copies.pre, "preCopy", "refused")
         \/ ~(color.gen # 0 /\ color.desc = call.desc) /\ color'.gen = call.frame /\ Await(call, "copy", copies.pre, "preCopy", "refused")
         \/ ~(color.gen # 0 /\ color.desc = call.desc) /\ color'.gen = 0 /\ call' = [call EXCEPT !.pc = "refused"]
  <2>1. NoImage \in Images /\ call.desc \in Nat \X Nat
    BY <1>0 DEF NoImage, Images, Calls
  <2>2. CASE color' = color
    BY <1>0, <2>2 DEF TypeInv, EnsureOwnedColor, NoColor
  <2>3. CASE color' = [gen |-> call.frame, desc |-> call.desc, image |-> NoImage]
    BY <1>0, <2>1, <2>3 DEF TypeInv, EnsureOwnedColor, NoColor
  <2>4. CASE color' = NoColor
    BY <1>0, <2>1, <2>4 DEF TypeInv, EnsureOwnedColor, NoColor
  <2> QED BY <2>2, <2>3, <2>4 DEF EnsureOwnedColor
<1>3. PICK d \in Calls :
         /\ call' = d /\ d.frame = call.frame /\ d.togo = call.togo /\ d.guides = call.guides
         /\ \/ d.pc = "refused" /\ color'.gen = 0
            \/ /\ Where(d) = "preCopy" /\ ((color' = color /\ color.gen # 0) \/ color'.gen = call.frame)
               /\ \/ d.pc = "preCopy" /\ fence.copy >= copies.pre
                  \/ d.pc = "wait" /\ d.next = "preCopy" /\ d.otherwise = "refused" /\ d.fence = "copy" /\ d.value = copies.pre
  <2>1. {"preCopy", "refused"} \subseteq Pcs
    BY DEF Pcs
  <2>2. CASE Await(call, "copy", copies.pre, "preCopy", "refused")
    <3>1. PICK d \in Calls :
             /\ call' = d /\ d.frame = call.frame /\ d.togo = call.togo /\ d.guides = call.guides /\ Where(d) = "preCopy"
             /\ \/ d.pc = "preCopy" /\ fence.copy >= copies.pre
                \/ d.pc = "wait" /\ d.next = "preCopy" /\ d.otherwise = "refused" /\ d.fence = "copy" /\ d.value = copies.pre
      BY <1>0, <2>1, <2>2, AwaitGoes
    <3>2. CASE (color' = color /\ color.gen # 0) \/ color'.gen = call.frame
      BY <3>1, <3>2
    <3>3. CASE color'.gen = 0 /\ call' = [call EXCEPT !.pc = "refused"]
      <4>1. d.pc = "refused"
        BY <1>0, <3>1, <3>3 DEF Calls
      <4> QED BY <3>1, <3>3, <4>1
    <3> QED BY <1>2, <3>2, <3>3
  <2>3. CASE color'.gen = 0 /\ call' = [call EXCEPT !.pc = "refused"]
    <3> DEFINE d == [call EXCEPT !.pc = "refused"]
    <3>1. d \in Calls /\ d.pc = "refused" /\ d.frame = call.frame /\ d.togo = call.togo /\ d.guides = call.guides
      BY <1>0, <2>1 DEF Calls
    <3> QED BY <2>3, <3>1
  <2> QED BY <1>2, <2>2, <2>3
<1>4. TypeInv'
  BY <1>0, <1>1, <1>2, <1>3 DEF TypeInv
<1>5. Values'
  BY <1>0, <1>1 DEF Values, FenceOf
<1>6. Kinds'
  BY <1>0, <1>1 DEF Kinds
<1>7. Recent(call.frame)'
  <2>1. color'.gen <= call.frame
    BY <1>0, <1>2 DEF Recent
  <2> QED BY <1>0, <1>1, <1>3, <2>1 DEF Recent
<1>8. ASSUME lapses' = {} PROVE Devices' /\ Facts(call)'
  <2>1. lapses = {} /\ Devices /\ Facts(call)
    BY <1>1, <1>8 DEF IInv
  <2>2. Older11(call.frame) /\ Older12(call.frame) /\ (color.gen = 0 \/ color.desc = call.desc) /\ d11.pending = 0 /\ native.history = 0
        /\ call.frame # 0 /\ Untouched(call) /\ Queue12(call.frame - 1) /\ call.guides = {}
    BY <1>0, <2>1 DEF Facts, Earlier, Ranked, Having, NonePending, Historic, Reach, Presented, Coloring, Where, Resets
  <2>3. color.gen = 0 => Unused("pre") /\ Unused("post")
    <3>1. \A i \in DOMAIN q12 : color.gen = 0 => q12[i].op \notin {"copyIn", "copyOut"}
      BY <2>1 DEF Devices, Surfaced
    <3>2. \A i \in DOMAIN q12 : q12[i].op \in Ops /\ q12[i].ctx = CtxOf(q12[i].op)
      BY <1>0, QueueFits DEF Kinds, Works
    <3> QED BY <3>1, <3>2, ContextOf DEF Unused, Ops
  <2>4. Allocators' /\ Bundles'
    BY <1>1, <2>1 DEF Devices, Allocators, Bundles, Own, Bundled, Before
  <2>5. Pending' /\ Surfaced' /\ Sorted' /\ Predicted' /\ Remembered'
    <3>1. CASE UNCHANGED color
      BY <1>1, <2>1, <3>1 DEF Devices, Pending, Live, Before11, Surfaced, Sorted, Predicted, ColorShows, CurrentShows, BackNeural,
         ColorNeural, None, Remembered
    <3>2. CASE color.gen = 0
      <4>1. color'.gen = 0 \/ color'.gen = call.frame
        BY <1>2, <3>2
      <4> QED BY <1>1, <2>1, <2>2, <2>3, <3>2, <4>1, ColorReplaced
    <3> QED BY <1>2, <2>2, <3>1, <3>2
  <2>6. Facts(d)'
    <3>1. Waiting(d)'
      BY <1>1, <1>3 DEF Waiting
    <3>2. Earlier(d)' /\ NonePending(d)'
      BY <1>1, <1>3, <2>2 DEF Earlier, NonePending, Older11
    <3>3. Arrived(d)'
      <4>1. d.pc = "preCopy" => Unused("pre")'
        BY <1>1, <1>3, <2>1, CopyArrives DEF Unused
      <4> QED BY <1>3, <4>1 DEF Arrived, Where, Guiding
    <3>4. Last(d)'
      BY <1>3 DEF Last
    <3>5. Having(d)'
      <4>1. Untouched(d)'
        BY <1>0, <1>1, <1>3, <2>2 DEF Untouched, Where
      <4>2. Where(d) = "preCopy" => color'.gen # 0
        BY <1>3, <2>2 DEF Where
      <4>3. d.pc # "color" /\ Where(d) \in {"preCopy", "refused"}
        BY <1>3 DEF Where
      <4> QED BY <1>1, <1>3, <2>2, <4>1, <4>2, <4>3 DEF Having, Guiding, Preparing
    <3>6. Ranked(d)'
      <4>2. PICK n : n = call.frame - 1
        OBVIOUS
      <4>3. Queue12(n)'
        BY <1>1, <2>2, <4>2 DEF Queue12
      <4> QED BY <1>3, <4>2, <4>3 DEF Ranked, Reach, Presented, Coloring, Where, Resets
    <3>7. Showing(d)'
      BY <1>3 DEF Showing, Where, Guiding
    <3>8. Historic(d)'
      BY <1>1, <1>3, <2>2 DEF Historic, Where
    <3> QED BY <3>1, <3>2, <3>3, <3>4, <3>5, <3>6, <3>7, <3>8 DEF Facts
  <2> QED BY <1>3, <2>4, <2>5, <2>6, FactsOf DEF Devices
<1> QED BY <1>4, <1>5, <1>6, <1>7, <1>8 DEF IInv

\* reset gives everything up; none of it is in use when its wait was not cut short.
LEMMA LastIsLast ==
    ASSUME TypeInv
    PROVE LastCopy \in Nat /\ LastCopy >= copies.pre /\ LastCopy >= copies.post /\ LastCopy >= copies.guide
<1>1. copies.pre \in Nat /\ copies.post \in Nat /\ copies.guide \in Nat
  BY DEF TypeInv
<1> DEFINE S == {copies.pre, copies.post, copies.guide}
<1>2. \E x \in S : \A y \in S : x >= y
  BY <1>1
<1>3. LastCopy \in S /\ \A y \in S : LastCopy >= y
  BY <1>2 DEF LastCopy, Max
<1> QED BY <1>1, <1>3

LEMMA ResetOwnedKeeps ==
    ASSUME IInv, ResetOwned
    PROVE IInv'
<1> USE DEF nativeVars
<1>0. TypeInv /\ Values /\ Kinds /\ Recent(call.frame) /\ call \in Calls /\ call.frame \in Nat /\ call.pc = "resetOwned"
  BY CallFits DEF IInv, ResetOwned
<1>1. /\ UNCHANGED <<mode, q12, q11, fence, event, back, native, image, host, retired>>
      /\ color' = NoColor /\ surface' = NoSurface
      /\ copies' = [copies EXCEPT !.pre = 0, !.post = 0, !.guide = 0] /\ d11' = [d11 EXCEPT !.pending = 0]
      /\ lapses' = IF fence.copy < LastCopy THEN lapses \cup {"releasedEarly"} ELSE lapses
  BY DEF ResetOwned
<1>2. PICK d \in Calls : call' = d /\ d.pc = call.after /\ d.frame = call.frame /\ d.desc = call.desc /\ d.togo = call.togo
                         /\ d.guides = call.guides /\ d.ok = call.ok /\ d.after = call.after
  <2> DEFINE d == [call EXCEPT !.pc = call.after]
  <2>1. call.after \in {"idle", "down", "color"} /\ {"idle", "down", "color"} \subseteq Pcs
    BY <1>0 DEF Calls, Pcs
  <2>2. d \in Calls /\ d.pc = call.after /\ d.frame = call.frame /\ d.desc = call.desc /\ d.togo = call.togo
        /\ d.guides = call.guides /\ d.ok = call.ok /\ d.after = call.after
    BY <1>0, <2>1 DEF Calls
  <2> QED BY <2>2 DEF ResetOwned
<1>3. /\ color' \in [gen : Nat, desc : Nat \X Nat, image : Images] /\ color'.gen = 0
      /\ surface' \in [Kind -> Surfaces] /\ \A g \in Kind : surface'[g].gen = 0
  BY <1>1 DEF NoColor, NoImage, Images, NoSurface, Surfaces, Kind
<1>4. /\ copies \in [pre : Nat, post : Nat, guide : Nat, next : Nat] /\ d11 \in [next : Nat, pending : Nat]
      /\ copies' \in [pre : Nat, post : Nat, guide : Nat, next : Nat] /\ d11' \in [next : Nat, pending : Nat]
      /\ copies'.next = copies.next /\ d11'.next = d11.next /\ d11'.pending = 0
  BY <1>0, <1>1 DEF TypeInv
<1>5. TypeInv'
  BY <1>0, <1>1, <1>2, <1>3, <1>4 DEF TypeInv
<1>6. Values'
  BY <1>0, <1>1, <1>4 DEF Values, FenceOf
<1>7. Kinds'
  BY <1>0, <1>1 DEF Kinds
<1>8. Recent(call.frame)'
  BY <1>0, <1>1, <1>2, <1>3 DEF Recent
<1>9. ASSUME lapses' = {} PROVE Devices' /\ Facts(call)'
  <2>1. lapses = {} /\ fence.copy >= LastCopy
    <3>1. lapses \cup {"releasedEarly"} # {}
      OBVIOUS
    <3>2. fence.copy \in Nat /\ LastCopy \in Nat
      BY <1>0, LastIsLast DEF TypeInv
    <3> QED BY <1>1, <1>9, <3>1, <3>2
  <2>2. Devices /\ Facts(call)
    BY <2>1 DEF IInv
  <2>3. Unused("pre") /\ Unused("post") /\ Unused("guide")
    <3>1. fence.copy \in Nat /\ copies.pre \in Nat /\ copies.post \in Nat /\ copies.guide \in Nat
      BY <1>0 DEF TypeInv
    <3>2. fence.copy >= copies.pre /\ fence.copy >= copies.post /\ fence.copy >= copies.guide
      BY <1>0, <2>1, <3>1, LastIsLast
    <3> QED BY <2>1, <3>2, CopyArrives
  <2>4. Allocators'
    <3>1. \A i \in DOMAIN q12 : q12[i].op \notin CopyOps
      BY <1>0, <2>3, ContextOf DEF Kinds, Unused, CopyOps
    <3> QED BY <1>1, <3>1 DEF Allocators
  <2>5. Bundles'
    BY <1>1, <2>2 DEF Devices, Bundles, Own, Bundled, Before
  <2>6. Pending' /\ Surfaced' /\ Sorted' /\ Predicted' /\ Remembered'
    BY <1>1, <1>3, <2>1, <2>3, ColorReplaced
  <2>7. Facts(d)'
    <3>1. Waiting(d)' /\ Last(d)'
      BY <1>0, <1>2 DEF Waiting, Last, Calls
    <3>2. Earlier(d)'
      BY <1>0, <1>1, <1>2, <2>2 DEF Facts, Earlier, Older11, Coloring, Where, Resets, Preparing, Guiding, Calls
    <3>3. NonePending(d)'
      BY <1>4 DEF NonePending
    <3>4. Arrived(d)' /\ Showing(d)'
      <4>1. Where(d) = d.pc /\ d.pc \in {"idle", "down", "color"}
        BY <1>0, <1>2 DEF Where, Calls
      <4> QED BY <4>1 DEF Arrived, Showing, Guiding
    <3>5. Having(d)'
      <4>1. Untouched(d)'
        BY <1>0, <1>1, <1>2, <2>3, ContextOf DEF Untouched, Kinds, Unused
      <4>2. Where(d) = d.pc /\ d.pc \in {"idle", "down", "color"} /\ (d.pc = "color" => Coloring(call)) /\ (~Presented(d) => ~Presented(call))
            /\ (Coloring(d) => Coloring(call))
        BY <1>0, <1>2 DEF Where, Calls, Coloring, Presented, Resets
      <4>3. (~Presented(call) => call.frame # 0) /\ (Coloring(call) => call.guides = {}) /\ call.togo \cap call.guides = {}
        BY <2>2 DEF Facts, Having
      <4>4. /\ d.pc = "color" => color'.gen = 0
            /\ Where(d) \notin {"evaluated", "postCopy"} \cup Preparing /\ Where(d) \notin Guiding
            /\ Where(d) \notin {"release", "route", "preCopy", "copiedIn", "capture"}
        BY <1>3, <4>2 DEF Preparing, Guiding
      <4>5. (~Presented(d) => d.frame # 0) /\ (Coloring(d) => d.guides = {}) /\ d.togo \cap d.guides = {}
        BY <1>2, <4>2, <4>3
      <4> QED BY <4>1, <4>4, <4>5 DEF Having
    <3>6. Ranked(d)'
      <4>1. Where(d) = d.pc /\ d.pc \in {"idle", "down", "color"} /\ (Presented(d) <=> Presented(call)) /\ (Coloring(d) => Coloring(call))
        BY <1>0, <1>2 DEF Where, Calls, Coloring, Presented, Resets
      <4>2. PICK n, f : n = Reach(call) /\ f = call.frame
        OBVIOUS
      <4>3. Queue12(n)' /\ (Coloring(call) => Older12(f)')
        BY <1>1, <2>2, <4>2 DEF Facts, Ranked, Queue12, Older12
      <4> QED BY <1>2, <4>1, <4>2, <4>3 DEF Ranked, Reach, Older12
    <3>7. Historic(d)'
      <4>1. Where(d) = d.pc /\ d.pc \in {"idle", "down", "color"} /\ (Coloring(d) => Coloring(call))
        BY <1>0, <1>2 DEF Where, Calls, Coloring, Resets
      <4>2. native.history # 0 => ~Coloring(call) /\ Kept(native.history)
        BY <1>0, <2>2 DEF Facts, Historic, Where
      <4> QED BY <1>1, <1>3, <4>1, <4>2 DEF Historic, Kept, None, End
    <3> QED BY <3>1, <3>2, <3>3, <3>4, <3>5, <3>6, <3>7 DEF Facts
  <2> QED BY <1>2, <2>4, <2>5, <2>6, <2>7, FactsOf DEF Devices
<1> QED BY <1>5, <1>6, <1>7, <1>8, <1>9 DEF IInv

\* The surface of one guide is given up or created anew.
LEMMA GuideReplaced ==
    ASSUME IInv, lapses = {}, NEW g \in Kind, NEW s \in Surfaces, surface' = [surface EXCEPT ![g] = s],
           UNCHANGED <<q11, fence, color, d11>>,
           s.gen \in {0, surface[g].gen} \/ (s.gen = call.frame /\ Older11(call.frame))
    PROVE /\ Pending'
          /\ surface' \in [Kind -> Surfaces] /\ surface'[g] = s /\ \A h \in Kind : h # g => surface'[h] = surface[h]
<1>0. TypeInv /\ Kinds /\ Devices /\ call.frame \in Nat /\ surface \in [Kind -> Surfaces]
  <2>1. TypeInv
    BY DEF IInv
  <2> QED BY <2>1, CallFits DEF IInv, TypeInv
<1>1. surface' \in [Kind -> Surfaces] /\ surface'[g] = s /\ \A h \in Kind : h # g => surface'[h] = surface[h]
  BY <1>0
<1>2. ASSUME NEW k \in DOMAIN q11, Live(k)' PROVE Live(k)
  <2>1. q11[k] \in Works /\ \A h \in q11[k].guides : h[2] <= q11[k].frame
    BY <1>0, QueueFits DEF Kinds
  <2>2. q11[k].frame \in Nat /\ q11[k].guides \in SUBSET (Kind \X Nat)
    BY <2>1 DEF Works
  <2>3. CASE color.gen # 0 /\ q11[k].gen = color.gen
    BY <2>3 DEF Live
  <2>4. CASE \E h \in q11[k].guides : h[2] # 0 /\ surface'[h[1]].gen = h[2]
    <3>1. PICK h \in q11[k].guides : h[2] # 0 /\ surface'[h[1]].gen = h[2]
      BY <2>4
    <3>2. h[1] \in Kind /\ h[2] \in Nat /\ h[2] <= q11[k].frame
      BY <2>1, <2>2
    <3>3. CASE h[1] # g
      BY <1>1, <3>1, <3>2, <3>3 DEF Live
    <3>4. CASE h[1] = g /\ s.gen \in {0, surface[g].gen}
      BY <1>1, <3>1, <3>2, <3>4 DEF Live
    <3>5. CASE h[1] = g /\ s.gen = call.frame /\ Older11(call.frame)
      <4>1. q11[k].frame < call.frame /\ h[2] = call.frame
        BY <1>1, <3>1, <3>5 DEF Older11
      <4> QED BY <1>0, <2>2, <3>2, <4>1
    <3> QED BY <3>3, <3>4, <3>5
  <2> QED BY <1>2, <2>3, <2>4 DEF Live
<1>3. Pending'
  BY <1>0, <1>2, PendingShrinks DEF Devices
<1> QED BY <1>1, <1>3

LEMMA OpenDirectKeeps ==
    ASSUME IInv, OpenDirect
    PROVE IInv'
<1> USE DEF nativeVars
<1>0. TypeInv /\ Values /\ Kinds /\ Recent(call.frame) /\ call \in Calls /\ call.frame \in Nat
      /\ call.pc = "guides" /\ call.togo # {}
  BY CallFits DEF IInv, OpenDirect
<1>1. PICK g \in Kind : g = NextGuide /\ g = Upcoming(call) /\ g \in call.togo
  <2>1. call.togo \in SUBSET Kind
    BY <1>0 DEF Calls
  <2> QED BY <1>0, <2>1 DEF NextGuide, Upcoming, Kind
<1>2. PICK s \in Surfaces : s.gen = call.frame /\ s.kind = "direct" /\ surface' = [surface EXCEPT ![g] = s]
  <2>1. [gen |-> call.frame, desc |-> call.desc, kind |-> "direct"] \in Surfaces
    BY <1>0 DEF Surfaces, Calls
  <2> QED BY <1>1, <2>1 DEF OpenDirect
<1>3. UNCHANGED <<mode, q12, q11, fence, back, lapses, native, image, host, retired, color, copies, d11>>
  BY DEF OpenDirect
<1>4. PICK d \in Calls : call' = d /\ d.pc = "guides" /\ d.togo = call.togo \ {g} /\ d.guides = call.guides \cup {g}
                         /\ d.frame = call.frame
  <2> DEFINE d == [call EXCEPT !.pc = "guides", !.togo = @ \ {g}, !.guides = @ \cup {g}]
  <2>1. "guides" \in Pcs
    BY DEF Pcs
  <2>2. d \in Calls /\ d.pc = "guides" /\ d.togo = call.togo \ {g} /\ d.guides = call.guides \cup {g} /\ d.frame = call.frame
    BY <1>0, <2>1 DEF Calls
  <2> QED BY <1>1, <2>2 DEF OpenDirect, Used
<1>5. surface' \in [Kind -> Surfaces] /\ surface'[g] = s /\ \A h \in Kind : h # g => surface'[h] = surface[h]
  BY <1>0, <1>2 DEF TypeInv
<1>6. TypeInv'
  BY <1>0, <1>3, <1>4, <1>5 DEF TypeInv
<1>7. Values'
  BY <1>0, <1>3 DEF Values, FenceOf
<1>8. Kinds'
  BY <1>0, <1>3 DEF Kinds
<1>9. Recent(call.frame)'
  <2>1. \A h \in Kind : surface'[h].gen <= call.frame
    BY <1>0, <1>2, <1>5 DEF Recent
  <2> QED BY <1>0, <1>3, <1>4, <2>1 DEF Recent
<1>10. ASSUME lapses' = {} PROVE Devices' /\ Facts(call)'
  <2>1. lapses = {} /\ Devices /\ Facts(call)
    BY <1>3, <1>10 DEF IInv
  <2>2. Older11(call.frame) /\ Untouched(call) /\ call.togo \cap call.guides = {} /\ (mode # "recovery" => call.togo = {}) /\ call.frame # 0
    BY <1>0, <2>1 DEF Facts, Earlier, Having, Where, Preparing, Guiding, Presented, Resets
  <2>3. Pending'
    BY <1>2, <1>3, <2>1, <2>2, GuideReplaced
  <2>4. \A i \in DOMAIN q12 : q12[i].op = "copyGuide" => \A h \in q12[i].guides : h[1] \notin call.guides /\ h[1] \notin call.togo
    BY <1>0, <2>2 DEF Untouched, Where
  <2>5. \A i \in DOMAIN q12 : \A h \in q12[i].guides : h[1] \in Kind
    BY <1>0, QueueFits DEF Works
  <2>6. Surfaced'
    <3>1. \A i \in DOMAIN q12 : q12[i].op = "copyGuide" => \A h \in q12[i].guides : surface'[h[1]] = surface[h[1]]
      BY <1>1, <1>5, <2>4, <2>5
    <3>2. \A h \in Kind : surface'[h].kind = "own" => surface'[h].gen # 0
      BY <1>2, <1>5, <2>1 DEF Devices, Surfaced
    <3>3. Surfaced
      BY <2>1 DEF Devices
    <3> QED BY <1>3, <3>1, <3>2, <3>3 DEF Surfaced
  <2>7. Allocators' /\ Bundles'
    BY <1>3, <2>1 DEF Devices, Allocators, Bundles, Own, Bundled, Before
  <2>8. Sorted' /\ Predicted' /\ Remembered'
    BY <1>3, <2>1 DEF Devices, Sorted, Predicted, ColorShows, CurrentShows, BackNeural, ColorNeural, None, Remembered
  <2>9. Facts(d)'
    <3>1. Waiting(d)' /\ Last(d)'
      BY <1>4 DEF Waiting, Last
    <3>2. Earlier(d)' /\ NonePending(d)'
      BY <1>0, <1>3, <1>4, <2>1, <2>2 DEF Facts, Earlier, NonePending, Older11, Where, Preparing, Guiding
    <3>3. Arrived(d)'
      BY <1>0, <1>3, <1>4, <2>1 DEF Facts, Arrived, Unused, Where, Guiding
    <3>4. Having(d)'
      <4>1. Untouched(d)'
        BY <1>1, <1>3, <1>4, <2>4 DEF Untouched
      <4>2. color.gen # 0
        BY <1>0, <2>1 DEF Facts, Having, Where, Preparing, Guiding
      <4>3. d.togo \cap d.guides = {} /\ (mode # "recovery" => d.togo = {})
        BY <1>4, <2>2
      <4> QED BY <1>3, <1>4, <2>2, <4>1, <4>2, <4>3 DEF Having, Where, Coloring, Resets
    <3>5. Ranked(d)'
      <4>1. PICK n : n = call.frame - 1
        OBVIOUS
      <4>2. Queue12(n)
        BY <1>0, <2>1, <4>1 DEF Facts, Ranked, Reach, Presented, Where, Resets
      <4>3. Queue12(n)'
        BY <1>3, <4>2 DEF Queue12
      <4> QED BY <1>4, <4>1, <4>3 DEF Ranked, Reach, Presented, Coloring, Where, Resets
    <3>6. Showing(d)'
      <4>1. PICK f : f = call.frame
        OBVIOUS
      <4>2. ColorShows(End, f)
        BY <1>0, <2>1, <4>1 DEF Facts, Showing, Where, Guiding
      <4>3. ColorShows(End, f)'
        BY <1>3, <4>2 DEF ColorShows, None, End
      <4> QED BY <1>4, <4>1, <4>3 DEF Showing, Where
    <3>7. Historic(d)'
      <4>1. native.history # 0 => color.gen = 0
        BY <2>1 DEF Facts, Historic
      <4>2. color.gen # 0
        BY <1>0, <2>1 DEF Facts, Having, Where, Preparing, Guiding
      <4> QED BY <1>3, <1>4, <4>1, <4>2 DEF Historic, Where
    <3> QED BY <3>1, <3>2, <3>3, <3>4, <3>5, <3>6, <3>7 DEF Facts
  <2> QED BY <1>4, <2>3, <2>6, <2>7, <2>8, <2>9, FactsOf DEF Devices
<1> QED BY <1>6, <1>7, <1>8, <1>9, <1>10 DEF IInv

LEMMA StageCopyFits ==
    ASSUME IInv, StageCopy
    PROVE \E g \in Kind, s \in Surfaces, d \in Calls :
             /\ g = Upcoming(call) /\ surface' = [surface EXCEPT ![g] = s]
             /\ call' = d /\ d.togo = call.togo /\ d.guides = call.guides /\ d.frame = call.frame
             /\ \/ /\ s = surface[g] \/ s.gen = call.frame
                   /\ s.kind = "own" /\ d.pc = "stageWait"
                   /\ SubmitCopy("guide", [Work("copyGuide", "guide", s.gen, call.frame) EXCEPT !.guides = {<<g, s.gen>>}])
                \/ s.gen = 0 /\ s.kind = "none" /\ d.pc = "unstaged" /\ UNCHANGED <<q12, copies>>
<1>0. TypeInv /\ call \in Calls /\ call.frame \in Nat /\ call.desc \in Nat \X Nat /\ surface \in [Kind -> Surfaces]
  <2>1. TypeInv
    BY DEF IInv
  <2> QED BY <2>1, CallFits DEF TypeInv, Calls
<1>1. PICK g \in Kind : g = NextGuide /\ g = Upcoming(call)
  BY DEF NextGuide, Upcoming, Kind
<1>2. ASSUME NEW pc \in {"stageWait", "unstaged"}, call' = [call EXCEPT !.pc = pc]
      PROVE  \E d \in Calls : call' = d /\ d.pc = pc /\ d.togo = call.togo /\ d.guides = call.guides /\ d.frame = call.frame
  <2> DEFINE d == [call EXCEPT !.pc = pc]
  <2>1. pc \in Pcs
    BY DEF Pcs
  <2>2. d \in Calls /\ d.pc = pc /\ d.togo = call.togo /\ d.guides = call.guides /\ d.frame = call.frame
    BY <1>0, <2>1 DEF Calls
  <2> QED BY <1>2, <2>2
<1> DEFINE s == surface[g]
           kept == s.kind = "own" /\ s.desc = call.desc
           new == IF kept THEN s ELSE [gen |-> call.frame, desc |-> call.desc, kind |-> "own"]
<1>3. \/ /\ surface' = [surface EXCEPT ![g] = new]
         /\ SubmitCopy("guide", [Work("copyGuide", "guide", new.gen, call.frame) EXCEPT !.guides = {<<g, new.gen>>}])
         /\ call' = [call EXCEPT !.pc = "stageWait"]
      \/ /\ surface' = [surface EXCEPT ![g] = NoSurface[g]]
         /\ call' = [call EXCEPT !.pc = "unstaged"]
         /\ UNCHANGED <<q12, copies>>
  BY <1>1 DEF StageCopy
<1>4. new \in Surfaces /\ new.kind = "own" /\ (new = s \/ new.gen = call.frame)
  <2>1. s \in Surfaces
    BY <1>0
  <2>2. [gen |-> call.frame, desc |-> call.desc, kind |-> "own"] \in Surfaces
    BY <1>0 DEF Surfaces
  <2> QED BY <2>1, <2>2
<1>5. NoSurface[g] \in Surfaces /\ NoSurface[g].gen = 0 /\ NoSurface[g].kind = "none"
  BY DEF NoSurface, Surfaces, Kind
<1> HIDE DEF new
<1>6. CASE /\ surface' = [surface EXCEPT ![g] = new]
           /\ SubmitCopy("guide", [Work("copyGuide", "guide", new.gen, call.frame) EXCEPT !.guides = {<<g, new.gen>>}])
           /\ call' = [call EXCEPT !.pc = "stageWait"]
  <2>1. PICK d \in Calls : call' = d /\ d.pc = "stageWait" /\ d.togo = call.togo /\ d.guides = call.guides /\ d.frame = call.frame
    BY <1>2, <1>6
  <2> QED BY <1>1, <1>4, <1>6, <2>1
<1>7. CASE /\ surface' = [surface EXCEPT ![g] = NoSurface[g]]
           /\ call' = [call EXCEPT !.pc = "unstaged"]
           /\ UNCHANGED <<q12, copies>>
  <2>1. PICK d \in Calls : call' = d /\ d.pc = "unstaged" /\ d.togo = call.togo /\ d.guides = call.guides /\ d.frame = call.frame
    BY <1>2, <1>7
  <2> QED BY <1>1, <1>5, <1>7, <2>1
<1> QED BY <1>3, <1>6, <1>7

\* At this place, the copies of guides have all been executed.
LEMMA StageFinds ==
    ASSUME IInv, lapses = {}, call.pc = "stage"
    PROVE /\ Unused("pre") /\ Unused("post") /\ Unused("guide") /\ mode = "recovery" /\ d11.pending = 0 /\ Older11(call.frame)
          /\ call.frame # 0 /\ Upcoming(call) \in call.togo /\ Upcoming(call) \notin call.guides /\ call.togo \cap call.guides = {}
          /\ Queue12(call.frame - 1) /\ ColorShows(End, call.frame) /\ native.history = 0 /\ color.gen # 0
          /\ \A i \in DOMAIN q12 : q12[i].op \notin CopyOps
<1>1. Facts(call) /\ Kinds /\ call.togo \in SUBSET Kind
  BY CallFits DEF IInv, Calls
<1>2. mode = "recovery" /\ d11.pending = 0 /\ Older11(call.frame) /\ call.frame # 0 /\ call.togo # {} /\ call.togo \cap call.guides = {}
      /\ color.gen # 0
  BY <1>1 DEF Facts, Earlier, Having, NonePending, Where, Preparing, Guiding, Presented, Resets
<1>3. Unused("pre") /\ Unused("post") /\ Unused("guide")
  BY <1>1, <1>2 DEF Facts, Arrived, Where, Guiding
<1>4. Queue12(call.frame - 1) /\ ColorShows(End, call.frame) /\ native.history = 0
  BY <1>1, <1>2 DEF Facts, Ranked, Reach, Showing, Historic, Presented, Where, Resets, Guiding
<1>5. Upcoming(call) \in call.togo
  BY <1>1, <1>2 DEF Upcoming, Kind
<1>6. \A i \in DOMAIN q12 : q12[i].op \notin CopyOps
  BY <1>1, <1>3, ContextOf DEF Kinds, Unused, CopyOps
<1> QED BY <1>2, <1>3, <1>4, <1>5, <1>6

LEMMA StageCopyKeeps ==
    ASSUME IInv, StageCopy
    PROVE IInv'
<1> USE DEF nativeVars
<1>0. TypeInv /\ Values /\ Kinds /\ Recent(call.frame) /\ call \in Calls /\ call.frame \in Nat /\ call.pc = "stage"
  BY CallFits DEF IInv, StageCopy
<1>1. PICK g \in Kind, s \in Surfaces, d \in Calls :
         /\ g = Upcoming(call) /\ surface' = [surface EXCEPT ![g] = s]
         /\ call' = d /\ d.togo = call.togo /\ d.guides = call.guides /\ d.frame = call.frame
         /\ \/ /\ s = surface[g] \/ s.gen = call.frame
               /\ s.kind = "own" /\ d.pc = "stageWait"
               /\ SubmitCopy("guide", [Work("copyGuide", "guide", s.gen, call.frame) EXCEPT !.guides = {<<g, s.gen>>}])
            \/ s.gen = 0 /\ s.kind = "none" /\ d.pc = "unstaged" /\ UNCHANGED <<q12, copies>>
  BY StageCopyFits
<1>2. UNCHANGED <<mode, q11, fence, back, lapses, native, image, host, retired, color, d11>>
  BY DEF StageCopy
<1>3. surface' \in [Kind -> Surfaces] /\ surface'[g] = s /\ \A h \in Kind : h # g => surface'[h] = surface[h]
  BY <1>0, <1>1 DEF TypeInv
<1>4. \A h \in Kind : surface'[h].gen <= call.frame
  <2>1. s.gen <= call.frame
    BY <1>0, <1>1 DEF Recent
  <2> QED BY <1>0, <1>3, <2>1 DEF Recent
<1>5. lapses = {} => Pending' /\ (\A h \in Kind : surface'[h].kind = "own" => surface'[h].gen # 0)
  <2> SUFFICES ASSUME lapses = {} PROVE Pending' /\ \A h \in Kind : surface'[h].kind = "own" => surface'[h].gen # 0
    OBVIOUS
  <2>1. s.gen \in {0, surface[g].gen} \/ (s.gen = call.frame /\ Older11(call.frame))
    BY <1>0, <1>1, StageFinds
  <2>2. Pending'
    BY <1>1, <1>2, <2>1, GuideReplaced
  <2>3. Surfaced /\ call.frame # 0
    BY <1>0, StageFinds DEF IInv, Devices
  <2> QED BY <1>1, <1>3, <2>2, <2>3 DEF Surfaced
<1>6. CASE d.pc = "unstaged"
  <2>1. s.gen = 0 /\ s.kind = "none" /\ UNCHANGED <<q12, copies>>
    BY <1>1, <1>6
  <2>2. TypeInv'
    BY <1>0, <1>1, <1>2, <1>3, <2>1 DEF TypeInv
  <2>3. Values' /\ Kinds'
    BY <1>0, <1>2, <2>1 DEF Values, Kinds, FenceOf, CtxOf
  <2>4. Recent(call.frame)'
    BY <1>0, <1>1, <1>2, <1>4, <2>1 DEF Recent
  <2>5. ASSUME lapses' = {} PROVE Devices' /\ Facts(call)'
    <3>1. lapses = {} /\ Devices /\ Facts(call)
      BY <1>2, <2>5 DEF IInv
    <3>2. \A i \in DOMAIN q12 : q12[i].op \notin CopyOps
      BY <1>0, <3>1, StageFinds
    <3>3. Surfaced'
      BY <1>5, <2>1, <3>1, <3>2 DEF Surfaced, CopyOps
    <3>4. Allocators' /\ Bundles'
      BY <1>2, <2>1, <3>1 DEF Devices, Allocators, Bundles, Own, Bundled, Before
    <3>5. Sorted' /\ Predicted' /\ Remembered'
      BY <1>2, <2>1, <3>1 DEF Devices, Sorted, Predicted, ColorShows, CurrentShows, BackNeural, ColorNeural, None, Remembered
    <3>6. Facts(d)'
      <4>0. /\ Unused("pre") /\ Unused("post") /\ mode = "recovery" /\ d11.pending = 0 /\ Older11(call.frame)
            /\ call.frame # 0 /\ Upcoming(call) \in call.togo /\ call.togo \cap call.guides = {}
            /\ Queue12(call.frame - 1) /\ ColorShows(End, call.frame) /\ native.history = 0 /\ color.gen # 0
        BY <1>0, <3>1, StageFinds
      <4>1. Waiting(d)' /\ Last(d)'
        BY <1>6 DEF Waiting, Last
      <4>2. Earlier(d)' /\ NonePending(d)' /\ Arrived(d)'
        BY <1>1, <1>2, <1>6, <2>1, <4>0 DEF Earlier, NonePending, Arrived, Older11, Unused
      <4>3. Having(d)'
        <5>1. Untouched(d)'
          BY <2>1, <3>2 DEF Untouched, CopyOps
        <5> QED BY <1>1, <1>2, <1>6, <4>0, <5>1 DEF Having, Where, Coloring, Resets
      <4>4. Ranked(d)'
        <5>1. PICK n : n = call.frame - 1
          OBVIOUS
        <5>2. Queue12(n)'
          BY <1>2, <2>1, <4>0, <5>1 DEF Queue12
        <5> QED BY <1>1, <1>6, <5>1, <5>2 DEF Ranked, Reach, Presented, Coloring, Where, Resets
      <4>5. Showing(d)'
        <5>1. PICK f : f = call.frame
          OBVIOUS
        <5>2. ColorShows(End, f)'
          BY <1>2, <2>1, <4>0, <5>1 DEF ColorShows, None, End
        <5> QED BY <1>1, <1>6, <5>1, <5>2 DEF Showing, Where
      <4>6. Historic(d)'
        BY <1>2, <1>6, <4>0 DEF Historic, Where
      <4> QED BY <4>1, <4>2, <4>3, <4>4, <4>5, <4>6 DEF Facts
    <3> QED BY <1>1, <1>5, <3>1, <3>3, <3>4, <3>5, <3>6, FactsOf DEF Devices
  <2> QED BY <2>2, <2>3, <2>4, <2>5 DEF IInv
<1>7. CASE d.pc = "stageWait"
  <2> DEFINE v == [Work("copyGuide", "guide", s.gen, call.frame) EXCEPT !.guides = {<<g, s.gen>>}]
  <2>1. SubmitCopy("guide", v) /\ s.kind = "own"
    BY <1>1, <1>7
  <2>2. /\ v \in Works /\ v.op = "copyGuide" /\ v.ctx = "guide" /\ v.gen = s.gen /\ v.frame = call.frame /\ v.guides = {<<g, s.gen>>}
    <3>1. s.gen \in Nat /\ <<g, s.gen>> \in Kind \X Nat
      BY DEF Surfaces
    <3>2. {<<g, s.gen>>} \in SUBSET (Kind \X Nat)
      BY <3>1
    <3> DEFINE u == Work("copyGuide", "guide", s.gen, call.frame)
    <3>3. u \in Works /\ u.op = "copyGuide" /\ u.ctx = "guide" /\ u.gen = s.gen /\ u.frame = call.frame
      BY <1>0, <3>1 DEF Work, Works, Ops, Ctxs
    <3> HIDE DEF u
    <3>4. v = [u EXCEPT !.guides = {<<g, s.gen>>}]
      BY DEF u
    <3> HIDE DEF v
    <3> QED BY <3>2, <3>3, <3>4 DEF Works
  <2> HIDE DEF v
  <2>3. PICK x \in Works : /\ q12' = Append(q12, x) /\ x.op = "copyGuide" /\ x.ctx = "guide" /\ x.gen = s.gen /\ x.frame = call.frame
                           /\ x.guides = {<<g, s.gen>>} /\ x.signal <= copies.next
    <3>1. PICK x \in Works : /\ q12' = Append(q12, x) /\ x.op = v.op /\ x.ctx = v.ctx /\ x.gen = v.gen /\ x.frame = v.frame
                             /\ x.guides = v.guides /\ x.signal <= copies.next
      BY <1>0, <2>1, <2>2, SubmitFits
    <3> QED BY <2>2, <3>1
  <2>4. /\ copies' \in [pre : Nat, post : Nat, guide : Nat, next : Nat]
        /\ copies' = [copies EXCEPT !["guide"] = copies.next, !.next = copies.next + 1] /\ copies'.next = copies.next + 1
        /\ copies.next \in Nat /\ copies'.next \in Nat
    <3>1. copies.next \in Nat
      BY <1>0 DEF TypeInv
    <3>2. copies' \in [pre : Nat, post : Nat, guide : Nat, next : Nat] /\ copies'.next = copies.next + 1
          /\ copies' = [copies EXCEPT !["guide"] = copies.next, !.next = copies.next + 1]
      BY <1>0, <2>1, <2>2, SubmitFits
    <3> QED BY <3>1, <3>2
  <2>5. TypeInv'
    BY <1>0, <1>1, <1>2, <1>3, <2>3, <2>4, Appended DEF TypeInv
  <2>6. Values'
    <3>1. native'.last \in Nat /\ native.last <= native'.last
      BY <1>0, <1>2 DEF TypeInv, Natives
    <3>2. x.signal < copies'.next /\ copies.next <= copies'.next
      <4>1. x.signal \in Nat /\ x.signal <= copies.next
        BY <2>3 DEF Works
      <4>2. copies'.next = copies.next + 1 /\ copies.next \in Nat
        BY <2>4
      <4> QED BY <4>1, <4>2
    <3>3. FenceOf(x.ctx) = "copy"
      BY <2>3, FencesOf
    <3> QED BY <1>0, <1>2, <2>3, <2>4, <3>1, <3>2, <3>3, ValuesAppend
  <2>7. Kinds'
    BY <1>0, <1>2, <2>3, ContextOf, KindsAppend
  <2>8. Recent(call.frame)'
    <3>1. PICK n \in Nat : n = call.frame /\ n <= n /\ Recent(n) /\ x.frame <= n
      BY <1>0, <2>3
    <3>2. color'.gen <= n /\ \A h \in Kind : surface'[h].gen <= n
      BY <1>2, <1>4, <3>1 DEF Recent
    <3>3. Recent(n)'
      BY <1>0, <1>2, <2>3, <3>1, <3>2, RecentAppend
    <3> QED BY <1>1, <3>1, <3>3 DEF Recent
  <2>9. ASSUME lapses' = {} PROVE Devices' /\ Facts(call)'
    <3>1. lapses = {} /\ Devices /\ Facts(call)
      BY <1>2, <2>9 DEF IInv
    <3>2. /\ Unused("pre") /\ Unused("post") /\ Unused("guide") /\ mode = "recovery" /\ d11.pending = 0 /\ Older11(call.frame)
          /\ call.frame # 0 /\ g \in call.togo /\ g \notin call.guides /\ call.togo \cap call.guides = {}
          /\ Queue12(call.frame - 1) /\ ColorShows(End, call.frame) /\ native.history = 0 /\ color.gen # 0
          /\ \A i \in DOMAIN q12 : q12[i].op \notin CopyOps
      BY <1>0, <1>1, <3>1, StageFinds
    <3>3. Allocators'
      BY <1>0, <1>2, <2>3, <2>4, <3>1, <3>2, ContextOf, AllocatorsAppend DEF Devices, CopyOps
    <3>4. Bundles'
      BY <1>0, <1>2, <2>3, <3>1, BundlesAppend DEF Devices, NativeOps
    <3>5. Surfaced'
      <4>1. \A i \in DOMAIN q12' : q12'[i].op \in CopyOps => q12'[i] = x
        BY <1>0, <2>3, <3>2, Appended
      <4>2. s.gen # 0 /\ surface'[g].gen = s.gen
        BY <1>3, <1>5, <2>1, <3>1
      <4>3. \A k \in DOMAIN q11 : <<g, s.gen>> \notin q11[k].guides
        <5> SUFFICES ASSUME NEW k \in DOMAIN q11, <<g, s.gen>> \in q11[k].guides PROVE FALSE
          OBVIOUS
        <5>1. q11[k] \in Works /\ s.gen <= q11[k].frame /\ q11[k].frame < call.frame
          BY <1>0, <3>2, QueueFits DEF Kinds, Older11
        <5>2. s.gen # call.frame
          BY <1>0, <5>1 DEF Works, Surfaces
        <5>3. surface[g].gen = s.gen
          BY <1>1, <1>7, <5>2
        <5>4. Live(k)
          BY <4>2, <5>3 DEF Live
        <5> QED BY <3>1, <3>2, <5>4, NoPending DEF NoneLive
      <4>4. /\ x.op = "copyGuide"
            /\ \A h \in x.guides : h[2] # 0 /\ surface'[h[1]].gen = h[2] /\ \A k \in DOMAIN q11 : h \notin q11[k].guides
        BY <2>3, <4>2, <4>3
      <4> QED BY <1>2, <1>5, <3>1, <4>1, <4>4 DEF Surfaced, CopyOps
    <3>6. Sorted'
      <4>1. PICK f \in Nat : f = call.frame /\ Recent(f) /\ Queue12(f - 1) /\ f <= f
        BY <1>0, <3>2
      <4>2. /\ back.frame <= f
            /\ \A i \in DOMAIN q12 : q12[i].frame <= f /\ (q12[i].op = "present" => q12[i].frame < f)
        BY <1>0, <4>1, InOrder
      <4> QED BY <1>0, <1>2, <2>3, <3>1, <4>1, <4>2, SortedAppend DEF Devices
    <3>7. Predicted'
      BY <1>0, <1>2, <2>3, <3>1, PredictedAppend DEF Devices
    <3>8. Remembered'
      BY <1>0, <1>2, <2>3, <3>1, RememberedAppend DEF Devices
    <3>9. Facts(d)'
      <4>1. Waiting(d)' /\ Last(d)'
        BY <1>7 DEF Waiting, Last
      <4>2. Earlier(d)' /\ NonePending(d)'
        BY <1>1, <1>2, <3>2 DEF Earlier, NonePending, Older11
      <4>3. Arrived(d)'
        <5>1. Unused("pre")' /\ Unused("post")'
          BY <1>0, <2>3, <3>2, UnusedAppend
        <5> QED BY <1>7, <5>1 DEF Arrived, Where
      <4>4. Having(d)'
        <5>1. Untouched(d)'
          <6>1. \A i \in DOMAIN q12' : q12'[i].op = "copyGuide" => q12'[i] = x
            BY <1>0, <2>3, <3>2, Appended DEF CopyOps
          <6>2. \A h \in x.guides : h[1] = g
            BY <2>3
          <6>3. g = Upcoming(d) /\ g \notin d.guides
            BY <1>1, <3>2 DEF Upcoming
          <6> QED BY <1>7, <6>1, <6>2, <6>3 DEF Untouched, Where
        <5> QED BY <1>1, <1>2, <1>7, <3>2, <5>1 DEF Having, Where, Coloring, Resets
      <4>5. Ranked(d)'
        <5>1. PICK n \in Nat : n = call.frame - 1
          BY <1>0, <3>2
        <5>2. Queue12(n)'
          BY <1>0, <1>2, <2>3, <3>2, <5>1, Queue12Append
        <5> QED BY <1>1, <1>7, <5>1, <5>2 DEF Ranked, Reach, Presented, Coloring, Where, Resets
      <4>6. Showing(d)'
        <5>1. PICK f : f = call.frame
          OBVIOUS
        <5>2. ColorShows(End, f)'
          BY <1>0, <1>2, <2>3, <3>2, <5>1, ShowsEnd
        <5> QED BY <1>1, <1>7, <5>1, <5>2 DEF Showing, Where
      <4>7. Historic(d)'
        BY <1>2, <1>7, <3>2 DEF Historic, Where
      <4> QED BY <4>1, <4>2, <4>3, <4>4, <4>5, <4>6, <4>7 DEF Facts
    <3> QED BY <1>1, <1>5, <3>1, <3>3, <3>4, <3>5, <3>6, <3>7, <3>8, <3>9, FactsOf DEF Devices
  <2> QED BY <2>5, <2>6, <2>7, <2>8, <2>9 DEF IInv
<1> QED BY <1>1, <1>6, <1>7

---------------------------------------------------------------------------
(* Steps that change members of the native pipeline, or what is pending.   *)

\* Of these a fact sees the pipeline, its last value, its history and the pending frame.
LEMMA StateKept ==
    ASSUME NEW d, UNCHANGED <<mode, q12, q11, fence, back, image, color, surface, copies>>,
           native'.inst = native.inst, native'.value = native.value
    PROVE /\ Waiting(d) /\ d11'.pending = d11.pending => Waiting(d)'
          /\ Earlier(d) => Earlier(d)'
          /\ NonePending(d) /\ d11'.pending \in {0, d11.pending} => NonePending(d)'
          /\ Arrived(d) => Arrived(d)'
          /\ Last(d) => Last(d)'
          /\ Having(d) => Having(d)'
          /\ Ranked(d) => Ranked(d)'
          /\ Showing(d) => Showing(d)'
          /\ Historic(d) /\ native'.history \in {0, native.history} => Historic(d)'
<1>1. Waiting(d) /\ d11'.pending = d11.pending => Waiting(d)'
  BY DEF Waiting
<1>2. Earlier(d) => Earlier(d)'
  BY DEF Earlier, Older11
<1>3. NonePending(d) /\ d11'.pending \in {0, d11.pending} => NonePending(d)'
  BY DEF NonePending
<1>4. Arrived(d) => Arrived(d)'
  BY DEF Arrived, Unused, NativeUnused, NoneLive, Live
<1>5. Last(d) => Last(d)'
  BY DEF Last, Behind, Before, Begun
<1>6. Having(d) => Having(d)'
  BY DEF Having, Untouched
<1>7. Ranked(d) => Ranked(d)'
  BY DEF Ranked, Queue12, Older12
<1>8. Showing(d) => Showing(d)'
  BY DEF Showing, ColorShows, CurrentShows, BackNeural, ColorNeural, None, End, Evaluating
<1>9. Historic(d) /\ native'.history \in {0, native.history} => Historic(d)'
  BY DEF Historic, Kept, None, End, Composed12
<1> QED BY <1>1, <1>2, <1>3, <1>4, <1>5, <1>6, <1>7, <1>8, <1>9

\* Neither the queues nor the images change.
LEMMA MembersKeep ==
    ASSUME IInv, NEW d \in Calls, call' = d, call.frame <= d.frame,
           UNCHANGED <<q12, q11, fence, back, image, color, surface, copies>>,
           mode' \in Modes \cup {"down"}, native' \in Natives, native'.last = native.last, host' \in Nat,
           retired' \in SUBSET [inst : Nat, target : Nat, hold : BOOLEAN],
           d11' \in [next : Nat, pending : Nat], d11'.next = d11.next,
           lapses' = {} => lapses = {} /\ Bundles' /\ Pending' /\ Facts(d)'
    PROVE IInv'
<1>1. TypeInv'
  BY DEF IInv, TypeInv
<1>2. Values'
  BY DEF IInv, Values, FenceOf
<1>3. Kinds'
  BY DEF IInv, Kinds
<1>4. Recent(call.frame)'
  <2>1. call.frame \in Nat /\ d.frame \in Nat /\ color.gen \in Nat /\ \A g \in Kind : surface[g].gen \in Nat
    BY DEF IInv, TypeInv, Calls, Surfaces
  <2>2. (\A i \in DOMAIN q12 : q12[i].frame \in Nat) /\ \A k \in DOMAIN q11 : q11[k].frame \in Nat
    BY QueueFits DEF IInv, Works
  <2> QED BY <2>1, <2>2 DEF IInv, Recent
<1>5. ASSUME lapses' = {} PROVE Devices' /\ Facts(call)'
  <2>1. Devices /\ Bundles' /\ Pending' /\ Facts(d)'
    BY <1>5 DEF IInv
  <2>2. Allocators' /\ Surfaced' /\ Sorted'
    BY <2>1 DEF Devices, Allocators, Before, Surfaced, Sorted
  <2>3. Predicted'
    BY <2>1 DEF Devices, Predicted, ColorShows, CurrentShows, BackNeural, ColorNeural, None
  <2>4. Remembered'
    BY <2>1 DEF Devices, Remembered, None
  <2> QED BY <2>1, <2>2, <2>3, <2>4, FactsOf DEF Devices
<1> QED BY <1>1, <1>2, <1>3, <1>4, <1>5 DEF IInv

\* The lists of this pipeline keep their snapshots and their host, or there are none.
LEMMA BundlesKept ==
    ASSUME Bundles, UNCHANGED <<q12, fence, retired>>, native'.inst = native.inst, native'.value = native.value,
           \/ native'.hold = native.hold /\ host' \in {0, host}
           \/ native'.hold = native.hold /\ Begun(call.frame) /\ host' \in {0, call.frame}
           \/ NativeUnused
    PROVE Bundles'
<1> SUFFICES ASSUME NEW i \in DOMAIN q12, q12[i].op \in NativeOps
             PROVE  /\ IF q12[i].gen = native.inst THEN Own(i)' ELSE Bundled(i)'
                    /\ \A r \in retired : r.inst = q12[i].gen => Before(i, "native", r.target)'
  BY DEF Bundles
<1>1. \A r \in retired : r.inst = q12[i].gen => Before(i, "native", r.target)'
  BY DEF Bundles, Before
<1>2. q12[i].gen # native.inst => Bundled(i)'
  BY DEF Bundles, Bundled
<1>3. ASSUME q12[i].gen = native.inst PROVE Own(i)'
  <2>1. Own(i) /\ ~NativeUnused
    BY <1>3 DEF Bundles, NativeUnused
  <2>2. Before(i, "native", native.value)'
    BY <2>1 DEF Own, Before
  <2>3. q12[i].op = "nativePre" => native'.hold /\ host' \in {0, q12[i].frame}
    BY <1>3, <2>1 DEF Own, Begun
  <2> QED BY <2>2, <2>3 DEF Own
<1> QED BY <1>1, <1>2, <1>3

LEMMA PendingKept ==
    ASSUME UNCHANGED <<q11, fence, color, surface>>,
           \/ d11'.pending = d11.pending /\ Pending
           \/ NoneLive
    PROVE Pending'
BY DEF Pending, Before11, Live, NoneLive

LEMMA InitializeKeeps ==
    ASSUME IInv, Initialize
    PROVE IInv'
<1> USE DEF nativeVars, owned
<1>1. /\ mode = "down" /\ call.pc = "idle" /\ mode' \in Modes
      /\ UNCHANGED <<call, q12, q11, fence, back, lapses, native, image, host, retired, color, surface, copies, d11>>
  BY DEF Initialize
<1>2. PICK d \in Calls : d = call /\ d.frame = call.frame /\ d.pc = "idle"
  BY <1>1, CallFits
<1>3. /\ native \in Natives /\ host \in Nat /\ retired \in SUBSET [inst : Nat, target : Nat, hold : BOOLEAN]
      /\ d11 \in [next : Nat, pending : Nat]
  BY DEF IInv, TypeInv
<1>4. ASSUME lapses = {} PROVE Bundles' /\ Pending' /\ Facts(d)'
  <2>1. Devices /\ Facts(d)
    BY <1>2, <1>4 DEF IInv
  <2>2. Bundles' /\ Pending'
    BY <1>1, <2>1, BundlesKept, PendingKept DEF Devices
  <2>3. d11.pending = 0
    BY <1>1, <2>1 DEF Facts, NonePending
  <2>4. Waiting(d)' /\ Arrived(d)' /\ Last(d)' /\ Showing(d)' /\ Earlier(d)' /\ NonePending(d)'
    BY <1>1, <1>2, <2>3 DEF Waiting, Arrived, Last, Showing, Earlier, NonePending, Where, Coloring, Guiding, Preparing, Resets
  <2>5. Having(d)' /\ Ranked(d)'
    BY <1>1, <1>2, <2>1 DEF Facts, Having, Untouched, Ranked, Queue12, Older12, Where, Guiding
  <2>6. Historic(d)'
    BY <1>1, <2>1 DEF Facts, Historic, Kept, None, End, Composed12
  <2> QED BY <2>2, <2>4, <2>5, <2>6 DEF Facts
<1> QED
  <2>1. call.frame <= d.frame /\ call' = d
    BY <1>1, <1>2, CallFits
  <2> QED BY <1>1, <1>3, <1>4, <2>1, MembersKeep

\* The one who decides where the frame goes finds what the last one has left.
LEMMA RouteKeeps ==
    ASSUME IInv, Route
    PROVE IInv'
<1>0. TypeInv /\ call \in Calls /\ call.frame \in Nat /\ call.pc = "route"
  BY CallFits DEF IInv, Route
<1>1. UNCHANGED <<mode, q12, q11, fence, event, back, lapses, image, host, retired, color, surface, copies>>
  BY DEF Route
<1>2. /\ native \in Natives /\ host \in Nat /\ retired \in SUBSET [inst : Nat, target : Nat, hold : BOOLEAN]
      /\ d11 \in [next : Nat, pending : Nat] /\ mode \in Modes \cup {"down"}
  BY <1>0 DEF TypeInv
<1>3. {"native", "refused", "reset", "color"} \subseteq Pcs /\ "color" \in {"idle", "down", "color"}
  BY DEF Pcs
<1>4. PICK d \in Calls :
         /\ call' = d /\ d.frame = call.frame /\ d.desc = call.desc /\ d.togo = call.togo /\ d.guides = call.guides /\ d.ok = call.ok
         /\ \/ d.pc = "native" /\ UNCHANGED <<native, d11>>
            \/ d.pc = "refused" /\ native' = [native EXCEPT !.history = 0] /\ UNCHANGED d11
            \/ /\ d.pc = "reset" /\ d.after = "color"
               /\ native' = [native EXCEPT !.history = 0] /\ d11' = [d11 EXCEPT !.pending = 0] /\ ~StillPending
            \/ /\ d.pc = "color" /\ (color.gen = 0 \/ color.desc = d.desc)
               /\ native' = [native EXCEPT !.history = 0] /\ d11' = [d11 EXCEPT !.pending = 0] /\ ~StillPending
  <2>1. CASE UNCHANGED <<native, d11>> /\ \E capture \in Captures : call' = [call EXCEPT !.pc = "native", !.capture = capture]
    <3>1. PICK capture \in Captures : call' = [call EXCEPT !.pc = "native", !.capture = capture]
      BY <2>1
    <3> DEFINE d == [call EXCEPT !.pc = "native", !.capture = capture]
    <3>2. capture \in [kind : {"none", "transient", "foreign", "tagged", "snapshot"}, guides : SUBSET Kind]
      BY QueuesAssumption DEF Kind
    <3>3. d \in Calls /\ d.frame = call.frame /\ d.desc = call.desc /\ d.togo = call.togo /\ d.guides = call.guides
          /\ d.ok = call.ok /\ d.pc = "native"
      BY <1>0, <1>3, <3>2 DEF Calls
    <3> HIDE DEF d
    <3>4. call' = d
      BY <3>1 DEF d
    <3> QED BY <2>1, <3>3, <3>4
  <2>2. CASE native' = [native EXCEPT !.history = 0] /\ StillPending /\ call' = [call EXCEPT !.pc = "refused"] /\ UNCHANGED d11
    <3> DEFINE d == [call EXCEPT !.pc = "refused"]
    <3>1. d \in Calls /\ d.frame = call.frame /\ d.desc = call.desc /\ d.togo = call.togo /\ d.guides = call.guides
          /\ d.ok = call.ok /\ d.pc = "refused"
      BY <1>0, <1>3 DEF Calls
    <3>2. call' = d
      BY <2>2
    <3> HIDE DEF d
    <3> QED BY <2>2, <3>1, <3>2
  <2>3. CASE /\ native' = [native EXCEPT !.history = 0] /\ ~StillPending /\ d11' = [d11 EXCEPT !.pending = 0]
             /\ call' = [call EXCEPT !.pc = "reset", !.after = "color"]
    <3> DEFINE d == [call EXCEPT !.pc = "reset", !.after = "color"]
    <3>1. d \in Calls /\ d.frame = call.frame /\ d.desc = call.desc /\ d.togo = call.togo /\ d.guides = call.guides
          /\ d.ok = call.ok /\ d.pc = "reset" /\ d.after = "color"
      BY <1>0, <1>3 DEF Calls
    <3>2. call' = d
      BY <2>3
    <3> HIDE DEF d
    <3> QED BY <2>3, <3>1, <3>2
  <2>4. CASE /\ native' = [native EXCEPT !.history = 0] /\ ~StillPending /\ d11' = [d11 EXCEPT !.pending = 0]
             /\ ~(color.gen # 0 /\ color.desc # call.desc) /\ call' = [call EXCEPT !.pc = "color"]
    <3> DEFINE d == [call EXCEPT !.pc = "color"]
    <3>1. d \in Calls /\ d.frame = call.frame /\ d.desc = call.desc /\ d.togo = call.togo /\ d.guides = call.guides
          /\ d.ok = call.ok /\ d.pc = "color"
      BY <1>0, <1>3 DEF Calls
    <3>2. call' = d
      BY <2>4
    <3> HIDE DEF d
    <3> QED BY <2>4, <3>1, <3>2
  <2> QED BY <2>1, <2>2, <2>3, <2>4 DEF Route
<1>5. /\ native' \in Natives /\ native'.last = native.last /\ native'.inst = native.inst /\ native'.value = native.value
      /\ native'.hold = native.hold /\ native'.history \in {0, native.history} /\ (d.pc # "native" => native'.history = 0)
  BY <1>2, <1>4 DEF Natives
<1>6. /\ d11' \in [next : Nat, pending : Nat] /\ d11'.next = d11.next /\ d11'.pending \in {0, d11.pending}
      /\ (d.pc \in {"reset", "color"} => d11'.pending = 0) /\ (d.pc \notin {"reset", "color"} => d11'.pending = d11.pending)
  BY <1>2, <1>4
<1>7. ASSUME lapses = {} PROVE Bundles' /\ Pending' /\ Facts(d)'
  <2>1. Devices /\ Facts(call)
    BY <1>7 DEF IInv
  <2>2. Bundles'
    BY <1>1, <1>5, <2>1, BundlesKept DEF Devices
  <2>3. mode # "recovery" => d11.pending = 0
    BY <2>1 DEF Facts, NonePending
  <2>4. Pending'
    <3>1. CASE d11'.pending = d11.pending
      BY <1>1, <2>1, <3>1, PendingKept DEF Devices
    <3>2. CASE ~StillPending
      <4>1. fence.d11 \in Nat /\ d11.pending \in Nat
        BY <1>0 DEF TypeInv
      <4>2. fence.d11 >= d11.pending
        BY <2>3, <3>2, <4>1 DEF StillPending
      <4> QED BY <1>1, <1>7, <4>2, D11Arrives, PendingKept
    <3> QED BY <1>4, <3>1, <3>2
  <2>5. Older11(call.frame) /\ call.frame # 0 /\ call.guides = {} /\ Queue12(call.frame - 1) /\ Older12(call.frame)
        /\ Untouched(call) /\ (native.history # 0 => color.gen = 0 /\ Kept(native.history))
    BY <1>0, <2>1 DEF Facts, Earlier, Having, Ranked, Historic, Reach, Presented, Coloring, Where, Resets
  <2>6. Waiting(d)' /\ Arrived(d)' /\ Last(d)' /\ Showing(d)'
    BY <1>4 DEF Waiting, Arrived, Last, Showing, Where, Guiding
  <2>7. Earlier(d)' /\ NonePending(d)'
    BY <1>1, <1>4, <1>6, <2>3, <2>5 DEF Earlier, NonePending, Older11, Where, Coloring, Preparing, Guiding, Resets
  <2>8. Having(d)'
    <3>1. Untouched(d)'
      BY <1>0, <1>1, <1>4, <2>5 DEF Untouched, Where
    <3> QED BY <1>1, <1>4, <2>5, <3>1 DEF Having, Where, Coloring, Resets, Guiding, Preparing
  <2>9. Ranked(d)'
    <3>1. PICK n : n = call.frame - 1
      OBVIOUS
    <3>2. Queue12(n)' /\ (\A f : f = call.frame => Older12(f)')
      BY <1>1, <2>5, <3>1 DEF Queue12, Older12
    <3> QED BY <1>4, <3>1, <3>2 DEF Ranked, Reach, Presented, Coloring, Where, Resets, Older12
  <2>10. Historic(d)'
    <3>1. native'.history # 0 => Where(d) = "native" /\ color.gen = 0 /\ Kept(native.history) /\ native'.history = native.history
      BY <1>4, <1>5, <2>5 DEF Where
    <3>2. Where(d) \notin {"nativeFinish", "nativeDone"} /\ (Where(d) = "native" => ~Coloring(d))
      BY <1>4 DEF Where, Coloring, Resets
    <3> QED BY <1>1, <3>1, <3>2 DEF Historic, Kept, None, End
  <2> QED BY <2>2, <2>4, <2>6, <2>7, <2>8, <2>9, <2>10 DEF Facts
<1> QED
  <2>1. call.frame <= d.frame
    BY <1>0, <1>4
  <2> QED BY <1>1, <1>2, <1>4, <1>5, <1>6, <1>7, <2>1, MembersKeep

LEMMA EvaluatedKeeps ==
    ASSUME IInv, Evaluated
    PROVE IInv'
<1> USE DEF nativeVars
<1>0. TypeInv /\ call \in Calls /\ call.frame \in Nat /\ copies.post \in Nat /\ call.pc = "evaluated"
  BY CallFits DEF IInv, Evaluated
<1>1. /\ UNCHANGED <<mode, q12, q11, fence, back, lapses, native, image, host, retired, color, surface, copies>>
      /\ d11' = [d11 EXCEPT !.pending = 0] /\ Await(call, "copy", copies.post, "postCopy", "refused")
  BY DEF Evaluated
<1>2. /\ native \in Natives /\ host \in Nat /\ retired \in SUBSET [inst : Nat, target : Nat, hold : BOOLEAN]
      /\ d11 \in [next : Nat, pending : Nat] /\ mode \in Modes \cup {"down"}
  BY <1>0 DEF TypeInv
<1>3. d11' \in [next : Nat, pending : Nat] /\ d11'.next = d11.next /\ d11'.pending = 0
  BY <1>1, <1>2
<1>4. PICK d \in Calls :
         /\ call' = d /\ d.frame = call.frame /\ d.togo = call.togo /\ d.guides = call.guides /\ d.ok = call.ok /\ Where(d) = "postCopy"
         /\ \/ d.pc = "postCopy" /\ fence.copy >= copies.post
            \/ d.pc = "wait" /\ d.next = "postCopy" /\ d.otherwise = "refused" /\ d.fence = "copy" /\ d.value = copies.post
  <2>1. {"postCopy", "refused"} \subseteq Pcs
    BY DEF Pcs
  <2> QED BY <1>0, <1>1, <2>1, AwaitGoes
<1>5. ASSUME lapses = {} PROVE Bundles' /\ Pending' /\ Facts(d)'
  <2>1. Devices /\ Facts(call)
    BY <1>5 DEF IInv
  <2>2. NoneLive /\ color.gen # 0 /\ call.frame # 0 /\ Untouched(call) /\ call.togo \cap call.guides = {}
    BY <1>0, <2>1 DEF Facts, Arrived, Having, Where, Presented, Resets
  <2>3. Queue12(call.frame - 1) /\ ColorShows(End, call.frame) /\ native.history = 0
    BY <1>0, <2>1, <2>2 DEF Facts, Ranked, Reach, Presented, Showing, Historic, Where, Resets
  <2>4. call.ok => ColorNeural(End)
    <3>1. ~Evaluating
      BY <2>2 DEF Evaluating, NoneLive, Live
    <3> QED BY <1>0, <2>1, <3>1 DEF Facts, Showing, Where
  <2>5. Bundles' /\ Pending'
    BY <1>1, <2>1, <2>2, BundlesKept, PendingKept DEF Devices
  <2>6. Waiting(d)'
    BY <1>1, <1>4 DEF Waiting
  <2>7. Arrived(d)'
    <3>1. d.pc = "postCopy" => Unused("post")
      BY <1>4, <1>5, CopyArrives
    <3>2. Arrived(d)
      BY <1>4, <3>1 DEF Arrived, Where, Guiding
    <3> QED BY <1>1, <3>2, StateKept
  <2>8. Earlier(d) /\ Last(d) /\ Having(d) /\ Ranked(d) /\ Showing(d) /\ Historic(d)
    <3>1. Earlier(d) /\ Last(d)
      BY <1>4 DEF Earlier, Last, Coloring, Preparing, Guiding, Resets
    <3>2. Having(d)
      BY <1>0, <1>4, <2>2 DEF Having, Untouched, Where, Coloring, Preparing, Guiding, Resets
    <3>3. Ranked(d)
      BY <1>4, <2>3 DEF Ranked, Reach, Presented, Coloring, Resets
    <3>4. Showing(d)
      BY <1>4, <2>3, <2>4 DEF Showing, Guiding
    <3>5. Historic(d)
      BY <1>4, <2>3 DEF Historic
    <3> QED BY <3>1, <3>2, <3>3, <3>4, <3>5
  <2>9. NonePending(d)'
    BY <1>3 DEF NonePending
  <2>10. Earlier(d)' /\ Last(d)' /\ Having(d)' /\ Ranked(d)' /\ Showing(d)' /\ Historic(d)'
    BY <1>1, <2>8, StateKept
  <2> QED BY <2>5, <2>6, <2>7, <2>9, <2>10 DEF Facts
<1> QED
  <2>1. call.frame <= d.frame
    BY <1>0, <1>4
  <2> QED BY <1>1, <1>2, <1>3, <1>4, <1>5, <2>1, MembersKeep

\* The members a reset clears.
LEMMA ReleasedFits ==
    ASSUME TypeInv
    PROVE /\ native \in Natives /\ host \in Nat /\ retired \in SUBSET [inst : Nat, target : Nat, hold : BOOLEAN]
          /\ d11 \in [next : Nat, pending : Nat] /\ mode \in Modes \cup {"down"}
          /\ Released(native) \in Natives
          /\ Released(native).inst = native.inst /\ Released(native).last = native.last /\ Released(native).value = native.value
          /\ Released(native).history = 0
BY DEF TypeInv, Natives, Released

\* A call that has moved without a wait, and released what the pipeline no longer uses.
LEMMA ReleaseKeeps ==
    ASSUME IInv, UNCHANGED <<mode, q12, q11, fence, back, lapses, image, retired, color, surface, copies, d11>>,
           NEW d \in Calls, call' = d, d.frame = call.frame, native' \in Natives, native'.inst = native.inst,
           native'.last = native.last, native'.value = native.value, native'.history = 0, host' \in {0, host},
           lapses = {} => NativeUnused /\ Waiting(d) /\ Earlier(d) /\ NonePending(d) /\ Arrived(d) /\ Last(d) /\ Having(d)
                          /\ Ranked(d) /\ Showing(d) /\ (Where(d) \notin {"nativeFinish", "nativeDone"})
    PROVE IInv'
<1>0. TypeInv
  BY DEF IInv
<1>1. ASSUME lapses = {} PROVE Bundles' /\ Pending' /\ Facts(d)'
  <2>1. Devices
    BY <1>1 DEF IInv
  <2>2. Bundles' /\ Pending'
    BY <1>1, <2>1, BundlesKept, PendingKept DEF Devices
  <2>3. Waiting(d)' /\ Earlier(d)' /\ NonePending(d)' /\ Arrived(d)' /\ Last(d)' /\ Having(d)' /\ Ranked(d)' /\ Showing(d)'
    BY <1>1, StateKept
  <2>4. Historic(d)'
    BY <1>1 DEF Historic
  <2> QED BY <2>2, <2>3, <2>4 DEF Facts
<1> QED
  <2>1. call.frame <= d.frame
    BY CallFits
  <2>2. host' \in Nat
    BY <1>0 DEF TypeInv
  <2> QED BY <1>0, <1>1, <2>1, <2>2, ReleasedFits, MembersKeep

LEMMA ResetNativeKeeps ==
    ASSUME IInv, ResetNative
    PROVE IInv'
<1> USE DEF owned
<1>0. TypeInv /\ call \in Calls /\ call.pc = "resetNative"
  BY CallFits DEF IInv, ResetNative
<1>1. /\ UNCHANGED <<mode, q12, q11, fence, back, lapses, image, host, retired, color, surface, copies, d11>>
      /\ native' = Released(native)
  BY DEF ResetNative
<1>2. PICK d \in Calls : call' = d /\ d.pc = "resetCopies" /\ d.frame = call.frame /\ d.togo = call.togo /\ d.guides = call.guides
                         /\ d.after = call.after
  <2> DEFINE d == [call EXCEPT !.pc = "resetCopies"]
  <2>0. "resetCopies" \in Pcs
    BY DEF Pcs
  <2>1. d \in Calls /\ d.pc = "resetCopies" /\ d.frame = call.frame /\ d.togo = call.togo /\ d.guides = call.guides
        /\ d.after = call.after
    BY <1>0, <2>0 DEF Calls
  <2>2. call' = d
    BY DEF ResetNative
  <2> HIDE DEF d
  <2> QED BY <2>1, <2>2
<1>3. /\ Where(d) = "resetCopies" /\ Where(call) = "resetNative" /\ (Coloring(d) <=> Coloring(call))
      /\ (Presented(d) <=> Presented(call)) /\ Reach(d) = Reach(call)
  BY <1>0, <1>2 DEF Where, Coloring, Presented, Resets, Reach
<1>4. ASSUME lapses = {}
      PROVE  NativeUnused /\ Waiting(d) /\ Earlier(d) /\ NonePending(d) /\ Arrived(d) /\ Last(d) /\ Having(d)
             /\ Ranked(d) /\ Showing(d)
  <2>1. Facts(call)
    BY <1>4 DEF IInv
  <2>2. NativeUnused
    BY <1>0, <2>1 DEF Facts, Arrived
  <2>3. Waiting(d) /\ Arrived(d) /\ Last(d) /\ Showing(d)
    BY <1>2, <1>3 DEF Waiting, Arrived, Last, Showing, Guiding
  <2>4. Earlier(d) /\ NonePending(d)
    BY <1>2, <1>3, <2>1 DEF Facts, Earlier, NonePending, Preparing, Guiding
  <2>5. Having(d)
    <3>1. Untouched(d)
      BY <1>2, <1>3, <2>1 DEF Facts, Having, Untouched
    <3> QED BY <1>2, <1>3, <2>1, <3>1 DEF Facts, Having, Preparing, Guiding
  <2>6. Ranked(d)
    BY <1>2, <1>3, <2>1 DEF Facts, Ranked
  <2> QED BY <2>2, <2>3, <2>4, <2>5, <2>6
<1> QED BY <1>0, <1>1, <1>2, <1>3, <1>4, ReleasedFits, ReleaseKeeps

LEMMA ReleaseHostKeeps ==
    ASSUME IInv, ReleaseHost /\ UNCHANGED owned
    PROVE IInv'
<1> USE DEF owned
<1>0. TypeInv /\ call \in Calls /\ call.pc = "release"
  BY CallFits DEF IInv, ReleaseHost
<1>1. /\ UNCHANGED <<mode, q12, q11, fence, back, lapses, image, retired, color, surface, copies, d11>>
      /\ native' = [Released(native) EXCEPT !.key = 0] /\ host' = 0
  BY DEF ReleaseHost
<1>2. PICK d \in Calls : call' = d /\ d.pc = "route" /\ d.frame = call.frame /\ d.togo = call.togo /\ d.guides = call.guides
  <2> DEFINE d == [call EXCEPT !.pc = "route"]
  <2>0. "route" \in Pcs
    BY DEF Pcs
  <2>1. d \in Calls /\ d.pc = "route" /\ d.frame = call.frame /\ d.togo = call.togo /\ d.guides = call.guides
    BY <1>0, <2>0 DEF Calls
  <2>2. call' = d
    BY DEF ReleaseHost
  <2> HIDE DEF d
  <2> QED BY <2>1, <2>2
<1>3. native' \in Natives /\ native'.inst = native.inst /\ native'.last = native.last /\ native'.value = native.value
      /\ native'.history = 0
  BY <1>0, <1>1, ReleasedFits DEF Natives
<1>4. ASSUME lapses = {}
      PROVE  NativeUnused /\ Waiting(d) /\ Earlier(d) /\ NonePending(d) /\ Arrived(d) /\ Last(d) /\ Having(d)
             /\ Ranked(d) /\ Showing(d)
  <2>1. Facts(call)
    BY <1>4 DEF IInv
  <2>2. NativeUnused
    BY <1>0, <2>1 DEF Facts, Arrived
  <2>3. Waiting(d) /\ Arrived(d) /\ Last(d) /\ Showing(d)
    BY <1>2 DEF Waiting, Arrived, Last, Showing, Guiding, Where
  <2>4. Earlier(d) /\ NonePending(d)
    BY <1>0, <1>2, <2>1 DEF Facts, Earlier, NonePending, Preparing, Guiding, Where, Coloring, Resets
  <2>5. Having(d)
    <3>1. Untouched(d)
      BY <1>0, <1>2, <2>1 DEF Facts, Having, Untouched, Where
    <3> QED BY <1>0, <1>2, <2>1, <3>1 DEF Facts, Having, Preparing, Guiding, Where, Coloring, Resets, Presented
  <2>6. Ranked(d)
    BY <1>0, <1>2, <2>1 DEF Facts, Ranked, Reach, Presented, Where, Coloring, Resets
  <2> QED BY <2>2, <2>3, <2>4, <2>5, <2>6
<1> QED
  <2>1. Where(d) \notin {"nativeFinish", "nativeDone"}
    BY <1>2 DEF Where
  <2> QED BY <1>1, <1>2, <1>3, <1>4, <2>1, ReleaseKeeps

LEMMA RetriedKeeps ==
    ASSUME IInv, Retried
    PROVE IInv'
<1> USE DEF owned
<1>0. TypeInv /\ call \in Calls /\ call.pc = "retried"
  BY CallFits DEF IInv, Retried
<1>1. /\ UNCHANGED <<mode, q12, q11, fence, back, lapses, image, retired, color, surface, copies, d11>>
      /\ native' = [Released(native) EXCEPT !.failed = FALSE, !.key = 0] /\ host' = 0
  BY DEF Retried
<1>2. PICK d \in Calls : call' = d /\ d.pc = "idle" /\ d.frame = call.frame /\ d.togo = call.togo /\ d.guides = call.guides
  <2> DEFINE d == [call EXCEPT !.pc = "idle"]
  <2>0. "idle" \in Pcs
    BY DEF Pcs
  <2>1. d \in Calls /\ d.pc = "idle" /\ d.frame = call.frame /\ d.togo = call.togo /\ d.guides = call.guides
    BY <1>0, <2>0 DEF Calls
  <2>2. call' = d
    BY DEF Retried
  <2> HIDE DEF d
  <2> QED BY <2>1, <2>2
<1>3. native' \in Natives /\ native'.inst = native.inst /\ native'.last = native.last /\ native'.value = native.value
      /\ native'.history = 0
  BY <1>0, <1>1, ReleasedFits DEF Natives
<1>4. ASSUME lapses = {}
      PROVE  NativeUnused /\ Waiting(d) /\ Earlier(d) /\ NonePending(d) /\ Arrived(d) /\ Last(d) /\ Having(d)
             /\ Ranked(d) /\ Showing(d)
  <2>1. Facts(call)
    BY <1>4 DEF IInv
  <2>2. NativeUnused
    BY <1>0, <2>1 DEF Facts, Arrived
  <2>3. Waiting(d) /\ Arrived(d) /\ Last(d) /\ Showing(d) /\ Earlier(d)
    BY <1>2 DEF Waiting, Arrived, Last, Showing, Earlier, Guiding, Preparing, Where, Coloring, Resets
  <2>4. NonePending(d)
    BY <1>2, <2>1 DEF Facts, NonePending, Preparing, Guiding, Where, Coloring, Resets
  <2>5. Having(d)
    <3>1. Untouched(d)
      BY <1>0, <1>2, <2>1 DEF Facts, Having, Untouched, Where
    <3> QED BY <1>0, <1>2, <2>1, <3>1 DEF Facts, Having, Preparing, Guiding, Where, Coloring, Resets, Presented
  <2>6. Ranked(d)
    BY <1>0, <1>2, <2>1 DEF Facts, Ranked, Reach, Presented, Where, Coloring, Resets
  <2> QED BY <2>2, <2>3, <2>4, <2>5, <2>6
<1> QED
  <2>1. Where(d) \notin {"nativeFinish", "nativeDone"}
    BY <1>2 DEF Where
  <2> QED BY <1>1, <1>2, <1>3, <1>4, <2>1, ReleaseKeeps

\* A frame that is late for the inputs leaves everything but the record of the failure.
LEMMA NativeLateKeeps ==
    ASSUME IInv, NativeLate /\ UNCHANGED owned
    PROVE IInv'
<1> USE DEF owned
<1>0. TypeInv /\ call \in Calls /\ call.pc = "nativeLate"
  BY CallFits DEF IInv, NativeLate
<1>1. /\ UNCHANGED <<mode, q12, q11, fence, back, lapses, image, host, retired, color, surface, copies, d11>>
      /\ native' = [native EXCEPT !.failed = native.failed \/ native.format # call.desc[2]]
  BY DEF NativeLate
<1>2. PICK d \in Calls : call' = d /\ d.pc = "nativeGone" /\ d.frame = call.frame /\ d.togo = call.togo /\ d.guides = call.guides
  <2> DEFINE d == [call EXCEPT !.pc = "nativeGone"]
  <2>0. "nativeGone" \in Pcs
    BY DEF Pcs
  <2>1. d \in Calls /\ d.pc = "nativeGone" /\ d.frame = call.frame /\ d.togo = call.togo /\ d.guides = call.guides
    BY <1>0, <2>0 DEF Calls
  <2>2. call' = d
    BY DEF NativeLate
  <2> HIDE DEF d
  <2> QED BY <2>1, <2>2
<1>3. /\ native' \in Natives /\ native'.inst = native.inst /\ native'.last = native.last /\ native'.value = native.value
      /\ native'.history = native.history /\ native'.hold = native.hold
  <2>1. native \in Natives /\ (native.failed \/ native.format # call.desc[2]) \in BOOLEAN
    BY <1>0 DEF TypeInv, Natives
  <2> DEFINE b == native.failed \/ native.format # call.desc[2]
  <2>2. native' = [native EXCEPT !.failed = b] /\ b \in BOOLEAN
    BY <1>1, <2>1
  <2> HIDE DEF b
  <2> QED BY <2>1, <2>2 DEF Natives
<1>4. ASSUME lapses = {} PROVE Bundles' /\ Pending' /\ Facts(d)'
  <2>1. Devices /\ Facts(call)
    BY <1>4 DEF IInv
  <2>2. Bundles' /\ Pending'
    BY <1>1, <1>3, <2>1, BundlesKept, PendingKept DEF Devices
  <2>3. Waiting(d) /\ Arrived(d) /\ Last(d) /\ Showing(d) /\ Earlier(d)
    BY <1>2 DEF Waiting, Arrived, Last, Showing, Earlier, Guiding, Preparing, Where, Coloring, Resets
  <2>4. NonePending(d)
    BY <1>2, <2>1 DEF Facts, NonePending, Preparing, Guiding, Where, Coloring, Resets
  <2>5. Having(d)
    <3>1. Untouched(d)
      BY <1>0, <1>2, <2>1 DEF Facts, Having, Untouched, Where
    <3> QED BY <1>0, <1>2, <2>1, <3>1 DEF Facts, Having, Preparing, Guiding, Where, Coloring, Resets, Presented
  <2>6. Ranked(d)
    BY <1>0, <1>2, <2>1 DEF Facts, Ranked, Reach, Presented, Where, Coloring, Resets
  <2>7. Historic(d)
    BY <1>0, <1>2, <2>1 DEF Facts, Historic, Where, Coloring, Resets
  <2>8. Waiting(d)' /\ Earlier(d)' /\ NonePending(d)' /\ Arrived(d)' /\ Last(d)' /\ Having(d)' /\ Ranked(d)' /\ Showing(d)' /\ Historic(d)'
    BY <1>1, <1>3, <2>3, <2>4, <2>5, <2>6, <2>7, StateKept
  <2> QED BY <2>2, <2>8 DEF Facts
<1> QED
  <2>1. call.frame <= d.frame
    BY <1>2, CallFits
  <2> QED BY <1>0, <1>1, <1>2, <1>3, <1>4, <2>1, ReleasedFits, MembersKeep

LEMMA NativeEvaluateKeeps ==
    ASSUME IInv, NativeEvaluate /\ UNCHANGED owned
    PROVE IInv'
<1> USE DEF owned
<1>0. TypeInv /\ call \in Calls /\ call.pc = "nativeEvaluate" /\ native.value \in Nat /\ call.frame \in Nat
  BY CallFits DEF IInv, NativeEvaluate
<1>1. UNCHANGED <<mode, q12, q11, fence, back, lapses, image, retired, color, surface, copies, d11>>
  BY DEF NativeEvaluate
<1>2. PICK d \in Calls :
         /\ call' = d /\ d.frame = call.frame /\ d.togo = call.togo /\ d.guides = call.guides
         /\ \/ UNCHANGED <<native, host>> /\ Where(d) = "nativePost" /\ d.pc = "nativePost" /\ fence.native >= native.value
            \/ /\ native' = [native EXCEPT !.history = 0] /\ host' \in {0, call.frame} /\ Where(d) = "nativeGone"
               /\ \/ d.pc = "nativeGone"
                  \/ d.pc = "wait" /\ d.next = "nativeGone" /\ d.otherwise = "nativeGone"
  <2>1. {"nativePost", "nativeGone"} \subseteq Pcs
    BY DEF Pcs
  <2>2. CASE fence.native >= native.value /\ Await(call, "native", native.value, "nativePost", "nativeGone") /\ UNCHANGED <<native, host>>
    <3> DEFINE d == [call EXCEPT !.pc = "nativePost"]
    <3>1. d \in Calls /\ d.pc = "nativePost" /\ d.frame = call.frame /\ d.togo = call.togo /\ d.guides = call.guides
      BY <1>0, <2>1 DEF Calls
    <3>2. call' = d
      BY <2>2 DEF Await
    <3> HIDE DEF d
    <3> QED BY <2>2, <3>1, <3>2 DEF Where
  <2>3. CASE /\ native' = [native EXCEPT !.history = 0] /\ host' \in {0, call.frame}
             /\ Await(call, "native", native.value, "nativeGone", "nativeGone")
    BY <1>0, <2>1, <2>3, AwaitGoes
  <2> QED BY <2>2, <2>3 DEF NativeEvaluate
<1>3. /\ native' \in Natives /\ native'.inst = native.inst /\ native'.last = native.last /\ native'.value = native.value
      /\ native'.history \in {0, native.history} /\ native'.hold = native.hold /\ host' \in Nat
  BY <1>0, <1>2, ReleasedFits DEF Natives
<1>4. ASSUME lapses = {} PROVE Bundles' /\ Pending' /\ Facts(d)'
  <2>1. Devices /\ Facts(call)
    BY <1>4 DEF IInv
  <2>2. Begun(call.frame) /\ CurrentShows(End, call.frame)
    BY <1>0, <2>1 DEF Facts, Last, Showing, Where
  <2>3. Bundles' /\ Pending'
    BY <1>1, <1>2, <1>3, <2>1, <2>2, BundlesKept, PendingKept DEF Devices
  <2>4. Waiting(d) /\ Last(d) /\ Earlier(d)
    BY <1>2 DEF Waiting, Last, Earlier, Guiding, Preparing, Where, Coloring, Resets
  <2>5. Arrived(d)
    <3>1. d.pc = "nativePost" => NativeUnused
      BY <1>2, <1>4, NativeArrives
    <3> QED BY <1>2, <3>1 DEF Arrived, Guiding
  <2>6. Showing(d)
    BY <1>2, <2>2 DEF Showing, Guiding
  <2>7. NonePending(d)
    BY <1>2, <2>1 DEF Facts, NonePending, Preparing, Guiding, Coloring, Resets
  <2>8. Having(d)
    <3>1. Untouched(d)
      BY <1>0, <1>2, <2>1 DEF Facts, Having, Untouched, Where
    <3> QED BY <1>0, <1>2, <2>1, <3>1 DEF Facts, Having, Preparing, Guiding, Where, Coloring, Resets, Presented
  <2>9. Ranked(d)
    BY <1>0, <1>2, <2>1 DEF Facts, Ranked, Reach, Presented, Where, Coloring, Resets
  <2>10. Historic(d)
    BY <1>0, <1>2, <2>1 DEF Facts, Historic, Where, Coloring, Resets
  <2>11. Waiting(d)' /\ Earlier(d)' /\ NonePending(d)' /\ Arrived(d)' /\ Last(d)' /\ Having(d)' /\ Ranked(d)' /\ Showing(d)' /\ Historic(d)'
    BY <1>1, <1>3, <2>4, <2>5, <2>6, <2>7, <2>8, <2>9, <2>10, StateKept
  <2> QED BY <2>3, <2>11 DEF Facts
<1> QED
  <2>1. call.frame <= d.frame
    BY <1>2, CallFits
  <2> QED BY <1>0, <1>1, <1>2, <1>3, <1>4, <2>1, ReleasedFits, MembersKeep

\* The host is done with the inputs of a frame nobody waits for.
LEMMA HostCompletesKeeps ==
    ASSUME IInv, HostCompletes /\ UNCHANGED owned
    PROVE IInv'
<1>1. UNCHANGED <<mode, call, q12, q11, fence, back, lapses, native, image, retired, color, surface, copies, d11>> /\ host' = 0
  BY DEF HostCompletes, owned
<1>2. PICK d \in Calls : d = call /\ d.frame = call.frame /\ call.frame \in Nat
  BY CallFits
<1>3. ASSUME lapses = {} PROVE Bundles' /\ Pending' /\ Facts(d)'
  <2>1. Devices /\ Facts(d)
    BY <1>2, <1>3 DEF IInv
  <2>2. Bundles' /\ Pending'
    BY <1>1, <2>1, BundlesKept, PendingKept DEF Devices
  <2>3. Waiting(d)' /\ Earlier(d)' /\ NonePending(d)' /\ Arrived(d)' /\ Last(d)' /\ Having(d)' /\ Ranked(d)' /\ Showing(d)' /\ Historic(d)'
    BY <1>1, <2>1, StateKept DEF Facts
  <2> QED BY <2>2, <2>3 DEF Facts
<1> QED
  <2>1. call' = d /\ call.frame <= d.frame /\ TypeInv
    BY <1>1, <1>2 DEF IInv
  <2> QED BY <1>1, <1>2, <1>3, <2>1, ReleasedFits, MembersKeep

\* A bundle goes when no list of its pipeline is queued any more.
LEMMA RetirementCompletesKeeps ==
    ASSUME IInv, RetirementCompletes /\ UNCHANGED owned
    PROVE IInv'
<1>1. UNCHANGED <<mode, call, q12, q11, fence, back, lapses, native, image, host, color, surface, copies, d11>>
  BY DEF RetirementCompletes, owned
<1>2. PICK b \in retired : fence.native >= b.target /\ retired' = retired \ {b}
  BY DEF RetirementCompletes
<1>3. PICK d \in Calls : d = call /\ d.frame = call.frame /\ call.frame \in Nat
  BY CallFits
<1>4. TypeInv /\ retired' \in SUBSET [inst : Nat, target : Nat, hold : BOOLEAN] /\ b.target \in Nat /\ fence.native \in Nat
  <2>1. TypeInv
    BY DEF IInv
  <2> QED BY <1>2, <2>1 DEF TypeInv
<1>5. ASSUME lapses = {} PROVE Bundles' /\ Pending' /\ Facts(d)'
  <2>1. Devices /\ Facts(d)
    BY <1>3, <1>5 DEF IInv
  <2>2. \A i \in DOMAIN q12 : q12[i].op \in NativeOps => b.inst # q12[i].gen
    BY <1>2, <1>4, <2>1 DEF Devices, Bundles, Before
  <2>3. Bundles'
    <3> SUFFICES ASSUME NEW i \in DOMAIN q12, q12[i].op \in NativeOps
                 PROVE  /\ IF q12[i].gen = native.inst THEN Own(i)' ELSE Bundled(i)'
                        /\ \A r \in retired : r.inst = q12[i].gen => Before(i, "native", r.target)'
      BY <1>1, <1>2, <2>1 DEF Devices, Bundles
    <3>1. \A r \in retired : r.inst = q12[i].gen => Before(i, "native", r.target)'
      BY <1>1, <2>1 DEF Devices, Bundles, Before
    <3>2. q12[i].gen = native.inst => Own(i)'
      BY <1>1, <2>1 DEF Devices, Bundles, Own, Before
    <3>3. q12[i].gen # native.inst => Bundled(i)'
      BY <1>1, <1>2, <2>1, <2>2 DEF Devices, Bundles, Bundled
    <3> QED BY <3>1, <3>2, <3>3
  <2>4. Pending'
    BY <1>1, <2>1, PendingKept DEF Devices
  <2>5. Waiting(d)' /\ Earlier(d)' /\ NonePending(d)' /\ Arrived(d)' /\ Last(d)' /\ Having(d)' /\ Ranked(d)' /\ Showing(d)' /\ Historic(d)'
    BY <1>1, <2>1, StateKept DEF Facts
  <2> QED BY <2>3, <2>4, <2>5 DEF Facts
<1> QED
  <2>1. call' = d /\ call.frame <= d.frame
    BY <1>1, <1>3
  <2> QED BY <1>1, <1>3, <1>4, <1>5, <2>1, ReleasedFits, MembersKeep

\* A pipeline ends; what it has queued is kept by a bundle.
LEMMA Destroyed12Keeps ==
    ASSUME IInv, Destroyed12
    PROVE IInv'
<1> USE DEF owned
<1>0. TypeInv /\ call.frame \in Nat /\ call \in Calls /\ call.pc = "destroyed"
  BY CallFits DEF IInv, Destroyed12
<1>1. /\ UNCHANGED <<q12, q11, fence, back, lapses, image, color, surface, copies, d11>> /\ mode' = "down" /\ host' = 0
      /\ native' = NewNative(native.inst + 1, native.last)
  BY DEF Destroyed12, Destroyed
<1>2. PICK b \in [inst : Nat, target : Nat, hold : BOOLEAN] :
         /\ b.inst = native.inst /\ b.target = native.value /\ b.hold = native.hold
         /\ retired' = IF fence.native < native.value THEN retired \cup {b} ELSE retired
  <2> DEFINE b == [inst |-> native.inst, target |-> native.value, hold |-> native.hold]
  <2>1. native.inst \in Nat /\ native.value \in Nat /\ native.hold \in BOOLEAN
    BY <1>0 DEF TypeInv, Natives
  <2>2. b \in [inst : Nat, target : Nat, hold : BOOLEAN] /\ b.inst = native.inst /\ b.target = native.value /\ b.hold = native.hold
    BY <2>1
  <2>3. retired' = IF fence.native < native.value THEN retired \cup {b} ELSE retired
    BY DEF Destroyed12, Destroyed
  <2> HIDE DEF b
  <2> QED BY <2>2, <2>3
<1>3. PICK d \in Calls : call' = d /\ d.pc = "idle" /\ d.frame = call.frame /\ d.togo = {} /\ d.guides = {}
  <2> DEFINE d == [NoCall EXCEPT !.frame = call.frame]
  <2>1. d \in Calls /\ d.pc = "idle" /\ d.frame = call.frame /\ d.togo = {} /\ d.guides = {}
    BY <1>0, NoCallFits DEF Calls
  <2>2. call' = d
    BY DEF Destroyed12
  <2> HIDE DEF d
  <2> QED BY <2>1, <2>2
<1>4. /\ native' \in Natives /\ native'.last = native.last /\ native'.inst = native.inst + 1 /\ native'.history = 0
      /\ native.inst \in Nat /\ native.value \in Nat /\ fence.native \in Nat /\ d11 \in [next : Nat, pending : Nat]
      /\ retired \in SUBSET [inst : Nat, target : Nat, hold : BOOLEAN]
  <2>1. native.inst \in Nat /\ native.last \in Nat /\ native.value \in Nat
    BY <1>0 DEF TypeInv, Natives
  <2>2. native.inst + 1 \in Nat
    BY <2>1
  <2>3. fence.native \in Nat /\ d11 \in [next : Nat, pending : Nat] /\ retired \in SUBSET [inst : Nat, target : Nat, hold : BOOLEAN]
    BY <1>0 DEF TypeInv
  <2> QED BY <1>1, <2>1, <2>2, <2>3 DEF NewNative, Natives
<1>5. ASSUME lapses = {} PROVE Bundles' /\ Pending' /\ Facts(d)'
  <2>1. Devices /\ Facts(call)
    BY <1>5 DEF IInv
  <2>2. Bundles'
    <3>1. \A r \in retired' : r.inst < native'.inst
      BY <1>2, <1>4, <2>1 DEF Devices, Bundles
    <3>2. ASSUME NEW i \in DOMAIN q12, q12[i].op \in NativeOps
          PROVE  /\ q12[i].gen # native'.inst /\ Bundled(i)'
                 /\ \A r \in retired' : r.inst = q12[i].gen => Before(i, "native", r.target)'
      <4>1. CASE q12[i].gen = native.inst
        <5>1. Own(i)
          BY <2>1, <3>2, <4>1 DEF Devices, Bundles
        <5>2. Before(i, "native", native.value) /\ fence.native < native.value /\ (q12[i].op = "nativePre" => native.hold)
          BY <5>1 DEF Own, Before
        <5>3. b \in retired' /\ retired' = retired \cup {b}
          BY <1>2, <5>2
        <5>4. \A r \in retired : r.inst # native.inst
          BY <1>4, <2>1 DEF Devices, Bundles
        <5>5. \A r \in retired' : r.inst = q12[i].gen => r = b
          BY <4>1, <5>3, <5>4
        <5>6. Before(i, "native", b.target)'
          BY <1>1, <1>2, <5>2 DEF Before
        <5>7. Bundled(i)'
          BY <1>1, <1>2, <4>1, <5>2, <5>3 DEF Bundled
        <5>8. \A r \in retired' : r.inst = q12[i].gen => Before(i, "native", r.target)'
          BY <5>5, <5>6
        <5> QED BY <1>4, <4>1, <5>7, <5>8
      <4>2. CASE q12[i].gen # native.inst
        <5>1. PICK r \in retired : r.inst = q12[i].gen /\ (q12[i].op = "nativePre" => r.hold)
          BY <2>1, <3>2, <4>2 DEF Devices, Bundles, Bundled
        <5>2. r \in retired' /\ r.inst < native.inst /\ r.inst \in Nat
          BY <1>2, <1>4, <2>1 DEF Devices, Bundles
        <5>3. Bundled(i)'
          BY <1>1, <5>1, <5>2 DEF Bundled
        <5>4. \A s \in retired : s.inst = q12[i].gen => Before(i, "native", s.target)'
          BY <1>1, <2>1, <3>2 DEF Devices, Bundles, Before
        <5>5. \A s \in retired' : s.inst = q12[i].gen => s \in retired
          BY <1>2, <4>2
        <5> QED BY <1>4, <5>1, <5>2, <5>3, <5>4, <5>5
      <4> QED BY <4>1, <4>2
    <3>3. \A i, j \in DOMAIN q12 : i # j /\ q12[i].op \in NativeOps /\ q12[j].op \in NativeOps => q12[i].gen # q12[j].gen
      BY <2>1 DEF Devices, Bundles
    <3> QED BY <1>1, <3>1, <3>2, <3>3 DEF Bundles
  <2>3. Pending'
    BY <1>1, <2>1, PendingKept DEF Devices
  <2>4. Waiting(d)' /\ Arrived(d)' /\ Last(d)' /\ Showing(d)' /\ Earlier(d)'
    BY <1>3 DEF Waiting, Arrived, Last, Showing, Earlier, Where, Coloring, Preparing, Guiding, Resets
  <2>5. NonePending(d)'
    BY <1>0, <1>1, <2>1 DEF Facts, NonePending, Where
  <2>6. Having(d)'
    BY <1>3 DEF Having, Untouched, Where, Presented, Coloring, Preparing, Guiding, Resets
  <2>7. Ranked(d)'
    <3>1. PICK n : n = call.frame
      OBVIOUS
    <3>2. Queue12(n)'
      BY <1>0, <1>1, <2>1, <3>1 DEF Facts, Ranked, Queue12, Reach, Presented, Where
    <3> QED BY <1>3, <3>1, <3>2 DEF Ranked, Reach, Presented, Where, Coloring, Resets
  <2>8. Historic(d)'
    BY <1>3, <1>4 DEF Historic, Where
  <2> QED BY <2>2, <2>3, <2>4, <2>5, <2>6, <2>7, <2>8 DEF Facts
<1> QED
  <2>1. call.frame <= d.frame
    BY <1>0, <1>3
  <2>2. mode' \in Modes \cup {"down"} /\ host' \in Nat
    BY <1>1
  <2>3. retired' \in SUBSET [inst : Nat, target : Nat, hold : BOOLEAN] /\ d11' \in [next : Nat, pending : Nat]
    BY <1>1, <1>2, <1>4
  <2> QED BY <1>1, <1>3, <1>4, <1>5, <2>1, <2>2, <2>3, MembersKeep

---------------------------------------------------------------------------
(* Evaluations and the native lists.                                       *)

\* Work of the call in progress is queued behind all others.
LEMMA WorkQueued ==
    ASSUME IInv, NEW d \in Calls, call' = d, d.frame = call.frame,
           NEW w \in Works, q12' = Append(q12, w), w.frame = call.frame, w.ctx = CtxOf(w.op),
           UNCHANGED <<mode, q11, fence, back, lapses, image, retired, color, surface, copies, d11>>,
           native' \in Natives, host' \in Nat, native.last <= native'.last,
           \/ w.op = "evaluate" /\ w.signal = 0 /\ UNCHANGED <<native, host>>
           \/ w.op \in NativeOps /\ w.signal <= native'.last,
           lapses = {} => /\ call.frame # 0 /\ Queue12(call.frame - 1) /\ (w.op \in NativeOps => Bundles')
                          /\ w.op = "nativePost" => CurrentShows(End, w.frame)
                          /\ w.op = "nativePre" /\ w.history # 0 => Kept(w.history) /\ color.gen = 0
                          /\ Facts(d)'
    PROVE IInv'
<1>0. TypeInv /\ Values /\ Kinds /\ Recent(call.frame) /\ call.frame \in Nat
  BY CallFits DEF IInv
<1>1. w.op \in {"evaluate", "nativePre", "nativePost"} /\ w.op \notin CopyOps
  BY DEF NativeOps, CopyOps
<1>2. TypeInv'
  BY <1>0, Appended DEF TypeInv
<1>3. Values'
  <2>1. native'.last \in Nat /\ copies.next \in Nat /\ copies'.next \in Nat /\ copies.next <= copies'.next
    BY <1>0 DEF TypeInv, Natives
  <2>2. (FenceOf(w.ctx) = "copy" => w.signal < copies'.next) /\ (FenceOf(w.ctx) = "native" => w.signal <= native'.last)
    <3>1. w.op = "evaluate" => FenceOf(w.ctx) = "d11"
      BY ContextOf, FencesOf
    <3>2. w.op \in NativeOps => FenceOf(w.ctx) = "native"
      BY ContextOf, FencesOf DEF NativeOps
    <3> QED BY <3>1, <3>2
  <2>3. d11'.next = d11.next
    OBVIOUS
  <2> QED BY <1>0, <2>1, <2>2, <2>3, ValuesAppend
<1>4. Kinds'
  BY <1>0, <1>1, KindsAppend DEF NativeOps
<1>5. Recent(call.frame)'
  <2>1. PICK n \in Nat : n = call.frame /\ Recent(n) /\ n <= n /\ w.frame <= n
    BY <1>0
  <2>2. color'.gen <= n /\ \A g \in Kind : surface'[g].gen <= n
    BY <2>1 DEF Recent
  <2>3. Recent(n)'
    BY <1>0, <2>1, <2>2, RecentAppend
  <2> QED BY <2>1, <2>3 DEF Recent
<1>6. ASSUME lapses = {} PROVE Devices' /\ Facts(call)'
  <2>1. Devices /\ Facts(d)'
    BY <1>6 DEF IInv
  <2>2. Allocators'
    BY <1>0, <1>1, <2>1, AllocatorsAppend DEF Devices
  <2>3. Bundles'
    <3>1. CASE w.op = "evaluate" /\ UNCHANGED <<native, host>>
      BY <1>0, <2>1, <3>1, BundlesAppend DEF Devices, NativeOps
    <3> QED BY <1>6, <3>1
  <2>4. Pending'
    <3>1. \A k \in DOMAIN q11 : Live(k)' => Live(k)
      BY DEF Live
    <3> QED BY <2>1, <3>1, PendingShrinks DEF Devices
  <2>5. Surfaced'
    BY <1>0, <1>1, <2>1, SurfacedAppend DEF Devices
  <2>6. Sorted'
    <3>1. PICK f \in Nat : f = call.frame /\ Recent(f) /\ Queue12(f - 1) /\ f <= f
      BY <1>0, <1>6
    <3>2. /\ back.frame <= f
          /\ \A i \in DOMAIN q12 : q12[i].frame <= f /\ (q12[i].op = "present" => q12[i].frame < f)
      BY <1>0, <3>1, InOrder
    <3> QED BY <1>0, <2>1, <3>1, <3>2, SortedAppend DEF Devices
  <2>7. Predicted'
    BY <1>0, <1>1, <1>6, <2>1, PredictedAppend DEF Devices
  <2>8. Remembered'
    BY <1>0, <1>6, <2>1, RememberedAppend DEF Devices
  <2> QED BY <2>1, <2>2, <2>3, <2>4, <2>5, <2>6, <2>7, <2>8, FactsOf DEF Devices
<1> QED BY <1>2, <1>3, <1>4, <1>5, <1>6 DEF IInv

\* What the pipeline evaluates: the surfaces of the call.
LEMMA EvaluationFits ==
    ASSUME TypeInv, call \in Calls, call.frame \in Nat, NEW ok \in BOOLEAN
    PROVE \E w \in Works :
             /\ w = [Work("evaluate", "d11", color.gen, call.frame) EXCEPT !.neural = ok,
                       !.guides = {<<g, surface[g].gen>> : g \in call.guides}]
             /\ w.op = "evaluate" /\ w.ctx = "d11" /\ w.gen = color.gen /\ w.frame = call.frame /\ w.neural = ok /\ w.signal = 0
             /\ w.guides = {<<g, surface[g].gen>> : g \in call.guides}
<1> DEFINE gs == {<<g, surface[g].gen>> : g \in call.guides}
<1> DEFINE v == Work("evaluate", "d11", color.gen, call.frame)
<1>1. color.gen \in Nat /\ \A g \in Kind : surface[g].gen \in Nat
  BY DEF TypeInv, Surfaces
<1>2. gs \in SUBSET (Kind \X Nat)
  BY <1>1 DEF Calls
<1>3. v \in Works /\ v.op = "evaluate" /\ v.ctx = "d11" /\ v.gen = color.gen /\ v.frame = call.frame /\ v.signal = 0
  BY <1>1 DEF Work, Works, Ops, Ctxs
<1> HIDE DEF v, gs
<1> DEFINE w == [v EXCEPT !.neural = ok, !.guides = gs]
<1>4. w \in Works /\ w.op = "evaluate" /\ w.ctx = "d11" /\ w.gen = color.gen /\ w.frame = call.frame /\ w.neural = ok
      /\ w.signal = 0 /\ w.guides = gs
  BY <1>2, <1>3 DEF Works
<1> QED BY <1>4 DEF v, gs

\* Behind the game's queue the evaluation is one more command; D3D11 of its own works
\* beside it, on what no command of the queue touches.
LEMMA EvaluateKeeps ==
    ASSUME IInv, mode # "down", Evaluate
    PROVE IInv'
<1> USE DEF nativeVars
<1>0. TypeInv /\ Values /\ Kinds /\ Recent(call.frame) /\ call \in Calls /\ call.frame \in Nat /\ copies.post \in Nat
      /\ call.pc = "guides" /\ call.togo = {}
  BY CallFits DEF IInv, Evaluate
<1>1. UNCHANGED <<mode, fence, back, native, image, host, retired, color, surface, copies>>
  BY DEF Evaluate
<1>2. PICK ok \in BOOLEAN :
        LET c == [call EXCEPT !.ok = ok]
            work == [Work("evaluate", "d11", color.gen, call.frame) EXCEPT !.neural = ok,
                       !.guides = {<<g, surface[g].gen>> : g \in call.guides}]
        IN IF mode = "on12"
           THEN /\ q12' = Append(q12, work)
                /\ Await(c, "copy", copies.post, "postCopy", "refused")
                /\ UNCHANGED <<q11, d11, lapses>>
           ELSE /\ UNCHANGED q12
                /\ \/ /\ q11' = Append(q11, [work EXCEPT !.signal = d11.next])
                      /\ d11' = [next |-> d11.next + 1, pending |-> d11.next]
                      /\ Await(c, "d11", d11.next, "evaluated", "refused")
                      /\ UNCHANGED lapses
                   \/ /\ q11' = Append(q11, work)
                      /\ d11' = [next |-> d11.next + 1, pending |-> 0]
                      /\ call' = [c EXCEPT !.pc = "refused"]
                      /\ lapses' = lapses \cup {"unguarded"}
  BY DEF Evaluate
<1>3. PICK w \in Works :
         /\ w = [Work("evaluate", "d11", color.gen, call.frame) EXCEPT !.neural = ok,
                   !.guides = {<<g, surface[g].gen>> : g \in call.guides}]
         /\ w.op = "evaluate" /\ w.ctx = "d11" /\ w.gen = color.gen /\ w.frame = call.frame /\ w.neural = ok /\ w.signal = 0
         /\ w.guides = {<<g, surface[g].gen>> : g \in call.guides}
  BY <1>0, EvaluationFits
<1>4. PICK c \in Calls : c = [call EXCEPT !.ok = ok] /\ c.frame = call.frame /\ c.togo = {} /\ c.guides = call.guides /\ c.ok = ok
  <2> DEFINE c == [call EXCEPT !.ok = ok]
  <2>1. c \in Calls /\ c.frame = call.frame /\ c.togo = {} /\ c.guides = call.guides /\ c.ok = ok
    BY <1>0 DEF Calls
  <2> QED BY <2>1
<1>5. {"postCopy", "evaluated", "refused"} \subseteq Pcs
  BY DEF Pcs
<1>6. lapses = {} => /\ color.gen # 0 /\ call.frame # 0 /\ Untouched(call) /\ Queue12(call.frame - 1)
                     /\ ColorShows(End, call.frame) /\ native.history = 0 /\ d11.pending = 0
                     /\ (mode = "recovery" => Unused("pre") /\ Unused("post"))
  <2> SUFFICES ASSUME lapses = {}
               PROVE  /\ color.gen # 0 /\ call.frame # 0 /\ Untouched(call) /\ Queue12(call.frame - 1)
                      /\ ColorShows(End, call.frame) /\ native.history = 0 /\ d11.pending = 0
                      /\ (mode = "recovery" => Unused("pre") /\ Unused("post"))
    OBVIOUS
  <2>1. Facts(call)
    BY DEF IInv
  <2>2. Where(call) = "guides" /\ ~Presented(call) /\ Where(call) \in Guiding /\ Where(call) \in Preparing
    BY <1>0 DEF Where, Presented, Guiding, Preparing, Resets
  <2>3. color.gen # 0 /\ call.frame # 0 /\ Untouched(call)
    BY <2>1, <2>2 DEF Facts, Having
  <2>4. Queue12(call.frame - 1) /\ ColorShows(End, call.frame)
    BY <2>1, <2>2 DEF Facts, Ranked, Reach, Showing
  <2>5. native.history = 0 /\ d11.pending = 0
    BY <2>1, <2>2, <2>3 DEF Facts, Historic, NonePending
  <2>6. mode = "recovery" => Unused("pre") /\ Unused("post")
    BY <2>1, <2>2 DEF Facts, Arrived
  <2> QED BY <2>3, <2>4, <2>5, <2>6
<1>7. CASE mode = "on12"
  <2>1. q12' = Append(q12, w) /\ Await(c, "copy", copies.post, "postCopy", "refused") /\ UNCHANGED <<q11, d11, lapses>>
    BY <1>2, <1>3, <1>4, <1>7
  <2>2. PICK d \in Calls :
           /\ call' = d /\ d.frame = c.frame /\ d.togo = c.togo /\ d.guides = c.guides /\ d.ok = c.ok /\ Where(d) = "postCopy"
           /\ \/ d.pc = "postCopy" /\ fence.copy >= copies.post
              \/ d.pc = "wait" /\ d.next = "postCopy" /\ d.otherwise = "refused" /\ d.fence = "copy" /\ d.value = copies.post
    BY <1>0, <1>5, <2>1, AwaitGoes
  <2>3. ASSUME lapses = {} PROVE Facts(d)'
    <3>1. Waiting(d)' /\ Last(d)'
      BY <1>1, <2>2 DEF Waiting, Last
    <3>2. Earlier(d)' /\ NonePending(d)'
      BY <1>6, <2>1, <2>2, <2>3 DEF Earlier, NonePending, Coloring, Preparing, Guiding, Resets
    <3>3. Arrived(d)'
      <4>1. d.pc = "postCopy" => Unused("post")'
        <5>1. d.pc = "postCopy" => Unused("post")
          BY <2>2, <2>3, CopyArrives
        <5> QED BY <1>0, <1>3, <2>1, <5>1, UnusedAppend
      <4> QED BY <2>2, <4>1 DEF Arrived, Guiding
    <3>4. Having(d)'
      <4>1. Untouched(d)'
        BY <1>0, <1>3, <1>4, <1>6, <2>1, <2>2, <2>3, UntouchedAppend DEF Where
      <4> QED BY <1>1, <1>4, <1>6, <2>2, <2>3, <4>1 DEF Having, Coloring, Preparing, Guiding, Resets
    <3>5. Ranked(d)'
      <4>1. PICK n \in Nat : n = call.frame - 1
        BY <1>0, <1>6, <2>3
      <4>2. Queue12(n)'
        BY <1>0, <1>1, <1>3, <1>6, <2>1, <2>3, <4>1, Queue12Append
      <4> QED BY <1>4, <2>2, <4>1, <4>2 DEF Ranked, Reach, Presented, Coloring, Resets
    <3>6. Showing(d)'
      <4>1. PICK f : f = call.frame
        OBVIOUS
      <4>2. ColorShows(End, f)' /\ (ok => ColorNeural(End)')
        BY <1>0, <1>1, <1>3, <1>6, <2>1, <2>3, <4>1, ShowsEnd
      <4> QED BY <1>4, <2>2, <4>1, <4>2 DEF Showing, Guiding
    <3>7. Historic(d)'
      BY <1>1, <1>6, <2>2, <2>3 DEF Historic
    <3> QED BY <3>1, <3>2, <3>3, <3>4, <3>5, <3>6, <3>7 DEF Facts
  <2>4. native' \in Natives /\ host' \in Nat /\ native.last <= native'.last
    <3>1. native \in Natives /\ host \in Nat
      BY <1>0 DEF TypeInv
    <3> QED BY <1>1, <3>1 DEF Natives
  <2>5. w.ctx = CtxOf(w.op) /\ w.op \notin NativeOps
    BY <1>3, ContextOf DEF NativeOps
  <2>6. d.frame = call.frame /\ w.op # "nativePost" /\ w.op # "nativePre"
    BY <1>3, <1>4, <2>2
  <2> QED BY <1>1, <1>3, <1>6, <2>1, <2>2, <2>3, <2>4, <2>5, <2>6, WorkQueued
<1>8. CASE mode # "on12"
  <2>0. mode = "recovery" /\ UNCHANGED q12 /\ d11 \in [next : Nat, pending : Nat] /\ fence.d11 \in Nat /\ fence.d11 < d11.next
    BY <1>0, <1>2, <1>8, QueuesAssumption DEF TypeInv, Values
  <2>1. PICK x \in Works, d \in Calls :
           /\ q11' = Append(q11, x) /\ x.op = "evaluate" /\ x.gen = color.gen /\ x.frame = call.frame /\ x.neural = ok
           /\ x.guides = w.guides /\ x.signal \in {0, d11.next}
           /\ call' = d /\ d.frame = call.frame /\ d.togo = {} /\ d.guides = call.guides /\ d.ok = ok
           /\ d11' \in [next : Nat, pending : Nat] /\ d11'.next = d11.next + 1
           /\ \/ lapses' # {}
              \/ /\ lapses' = lapses /\ d11'.pending = d11.next
                 /\ Where(d) = "evaluated" /\ d.pc = "wait" /\ d.next = "evaluated" /\ d.otherwise = "refused" /\ d.fence = "d11"
                 /\ d.value = d11.next
    <3>1. CASE /\ q11' = Append(q11, [w EXCEPT !.signal = d11.next])
               /\ d11' = [next |-> d11.next + 1, pending |-> d11.next]
               /\ Await(c, "d11", d11.next, "evaluated", "refused")
               /\ UNCHANGED lapses
      <4> DEFINE x == [w EXCEPT !.signal = d11.next]
      <4>1. x \in Works /\ x.op = "evaluate" /\ x.gen = color.gen /\ x.frame = call.frame /\ x.neural = ok
            /\ x.guides = w.guides /\ x.signal = d11.next
        BY <1>3, <2>0 DEF Works
      <4>2. q11' = Append(q11, x)
        BY <3>1
      <4> HIDE DEF x
      <4>3. d11.next \in Nat
        BY <2>0
      <4>4. PICK d \in Calls :
               /\ call' = d /\ d.frame = c.frame /\ d.togo = c.togo /\ d.guides = c.guides /\ d.ok = c.ok /\ Where(d) = "evaluated"
               /\ \/ d.pc = "evaluated" /\ fence.d11 >= d11.next
                  \/ d.pc = "wait" /\ d.next = "evaluated" /\ d.otherwise = "refused" /\ d.fence = "d11" /\ d.value = d11.next
        BY <1>0, <1>5, <3>1, <4>3, AwaitGoes
      <4>5. d.pc # "evaluated"
        BY <2>0, <4>4
      <4>6. d11' \in [next : Nat, pending : Nat] /\ d11'.next = d11.next + 1 /\ d11'.pending = d11.next
        BY <3>1, <4>3
      <4> QED BY <1>4, <3>1, <4>1, <4>2, <4>4, <4>5, <4>6
    <3>2. CASE /\ q11' = Append(q11, w)
               /\ d11' = [next |-> d11.next + 1, pending |-> 0]
               /\ call' = [c EXCEPT !.pc = "refused"]
               /\ lapses' = lapses \cup {"unguarded"}
      <4> DEFINE d == [c EXCEPT !.pc = "refused"]
      <4>1. d \in Calls /\ d.frame = call.frame /\ d.togo = {} /\ d.guides = call.guides /\ d.ok = ok
        BY <1>4, <1>5 DEF Calls
      <4>2. call' = d /\ lapses' # {}
        BY <3>2
      <4>3. d11' \in [next : Nat, pending : Nat] /\ d11'.next = d11.next + 1
        <5>1. d11.next \in Nat
          BY <2>0
        <5> QED BY <3>2, <5>1
      <4> HIDE DEF d
      <4> QED BY <1>3, <3>2, <4>1, <4>2, <4>3
    <3> QED BY <1>2, <1>3, <1>4, <1>8, <3>1, <3>2
  <2>2. q11 \in Seq(Works) /\ d11.next \in Nat
    BY <1>0, <2>0 DEF TypeInv
  <2>3. /\ q11' \in Seq(Works) /\ Len(q11) \in Nat /\ DOMAIN q11 = 1..Len(q11) /\ DOMAIN q11' = 1..(Len(q11) + 1)
        /\ \A k \in DOMAIN q11 : q11'[k] = q11[k] /\ k \in DOMAIN q11'
        /\ q11'[Len(q11) + 1] = x /\ (Len(q11) + 1) \in DOMAIN q11'
        /\ \A k \in DOMAIN q11' : k \in DOMAIN q11 \/ q11'[k] = x
    <3>1. /\ q11' \in Seq(Works) /\ Len(q11) \in Nat /\ DOMAIN q11 = 1..Len(q11) /\ DOMAIN q11' = 1..(Len(q11) + 1)
          /\ (\A k \in 1..Len(q11) : q11'[k] = q11[k]) /\ q11'[Len(q11) + 1] = x
      BY <2>1, <2>2, AppendFits
    <3> QED BY <3>1
  <2>4. \A k \in DOMAIN q11' : q11'[k].signal <= d11.next /\ q11'[k].signal \in Nat
    <3>1. \A k \in DOMAIN q11 : q11[k].signal < d11.next /\ q11[k].signal \in Nat
      BY <1>0, QueueFits DEF Values, Works
    <3> QED BY <2>1, <2>2, <2>3, <3>1
  <2>5. \A g \in x.guides : \E h \in call.guides : h \in Kind /\ g = <<h, surface[h].gen>> /\ surface[h].gen <= call.frame
    <3>1. \A h \in call.guides : h \in Kind /\ surface[h].gen <= call.frame
      <4>1. call.guides \in SUBSET Kind
        BY <1>0 DEF Calls
      <4> QED BY <1>0, <4>1 DEF Recent
    <3>2. x.guides = {<<h, surface[h].gen>> : h \in call.guides}
      BY <1>3, <2>1
    <3> QED BY <3>1, <3>2
  <2>6. TypeInv'
    BY <1>0, <1>1, <2>0, <2>1, <2>3 DEF TypeInv
  <2>7. Values'
    <3>1. fence.d11 < d11.next + 1 /\ \A k \in DOMAIN q11' : q11'[k].signal < d11.next + 1
      BY <2>0, <2>2, <2>4
    <3> QED BY <1>0, <1>1, <2>0, <2>1, <3>1 DEF Values, FenceOf
  <2>8. Kinds'
    <3>1. x.gen <= x.frame /\ \A g \in x.guides : g[2] <= x.frame
      <4>1. color.gen <= call.frame
        BY <1>0 DEF Recent
      <4> QED BY <2>1, <2>5, <4>1
    <3>2. \A k \in DOMAIN q11' : /\ q11'[k].op = "evaluate" /\ q11'[k].gen <= q11'[k].frame
                                 /\ \A g \in q11'[k].guides : g[2] <= q11'[k].frame
      BY <1>0, <2>1, <2>3, <3>1 DEF Kinds
    <3> QED BY <1>0, <2>0, <3>2 DEF Kinds
  <2>9. Recent(call.frame)'
    <3>1. x.frame <= call.frame
      BY <1>0, <2>1
    <3> QED BY <1>0, <1>1, <2>0, <2>1, <2>3, <3>1 DEF Recent
  <2>10. ASSUME lapses' = {} PROVE Devices' /\ Facts(call)'
    <3>1. /\ lapses = {} /\ d11'.pending = d11.next
          /\ Where(d) = "evaluated" /\ d.pc = "wait" /\ d.next = "evaluated" /\ d.otherwise = "refused" /\ d.fence = "d11"
          /\ d.value = d11.next
      BY <2>1, <2>10
    <3>2. Devices /\ Facts(call)
      BY <3>1 DEF IInv
    <3>3. Allocators' /\ Bundles'
      BY <1>1, <2>0, <3>2 DEF Devices, Allocators, Bundles, Own, Bundled, Before
    <3>4. Pending'
      <4>1. \A k \in DOMAIN q11' : \A j \in 1..(k - 1) : q11'[j].signal < d11.next
        <5>1. \A k \in DOMAIN q11' : \A j \in 1..(k - 1) : j \in DOMAIN q11
          BY <2>3
        <5>2. \A j \in DOMAIN q11 : q11'[j].signal < d11.next
          BY <1>0, <2>3 DEF Values
        <5> QED BY <5>1, <5>2
      <4> QED BY <1>1, <2>0, <3>1, <4>1 DEF Pending, Before11
    <3>5. Surfaced'
      <4>1. \A i \in DOMAIN q12 : q12[i].op \notin {"copyIn", "copyOut"}
        BY <1>0, <1>6, <2>0, <3>1, ContextOf DEF Kinds, Unused
      <4>2. \A i \in DOMAIN q12 : q12[i].op = "copyGuide" => \A g \in q12[i].guides : g \notin x.guides
        <5>1. \A g \in x.guides : g[1] \in call.guides
          BY <2>5
        <5> QED BY <1>6, <3>1, <5>1 DEF Untouched
      <4>3. \A i \in DOMAIN q12 : q12[i].op = "copyGuide" => \A g \in q12[i].guides :
               g[2] # 0 /\ surface[g[1]].gen = g[2] /\ \A k \in DOMAIN q11' : g \notin q11'[k].guides
        BY <2>3, <3>2, <4>2 DEF Devices, Surfaced
      <4>4. \A g \in Kind : surface[g].kind = "own" => surface[g].gen # 0
        BY <3>2 DEF Devices, Surfaced
      <4> QED BY <1>1, <2>0, <4>1, <4>3, <4>4 DEF Surfaced
    <3>6. Sorted' /\ Remembered'
      BY <1>1, <2>0, <3>2 DEF Devices, Sorted, Remembered, None
    <3>7. Predicted'
      BY <1>1, <2>0, <3>2 DEF Devices, Predicted, ColorShows, CurrentShows, BackNeural, ColorNeural, None
    <3>8. Facts(d)'
      <4>1. Waiting(d)' /\ Earlier(d)' /\ Last(d)' /\ Arrived(d)'
        BY <3>1 DEF Waiting, Earlier, Last, Arrived, Coloring, Preparing, Guiding, Resets
      <4>2. NonePending(d)'
        BY <1>1, <2>0, <3>1 DEF NonePending, Coloring, Preparing, Guiding, Resets
      <4>3. Having(d)'
        <5>1. Untouched(d)'
          BY <1>6, <2>0, <2>1, <3>1 DEF Untouched
        <5> QED BY <1>1, <1>6, <2>1, <3>1, <5>1 DEF Having, Coloring, Guiding, Preparing, Resets
      <4>4. Ranked(d)'
        <5>1. PICK n : n = call.frame - 1
          OBVIOUS
        <5>2. Queue12(n)'
          BY <1>1, <1>6, <2>0, <3>1, <5>1 DEF Queue12
        <5> QED BY <2>1, <3>1, <5>1, <5>2 DEF Ranked, Reach, Presented, Coloring, Resets
      <4>5. Showing(d)'
        <5>1. PICK f : f = call.frame
          OBVIOUS
        <5>2. ColorShows(End, f)'
          BY <1>1, <1>6, <2>0, <3>1, <5>1 DEF ColorShows, None, End
        <5>3. ok => Evaluating'
          BY <1>1, <2>1, <2>3 DEF Evaluating
        <5> QED BY <2>1, <3>1, <5>1, <5>2, <5>3 DEF Showing, Guiding
      <4>6. Historic(d)'
        BY <1>1, <1>6, <3>1 DEF Historic
      <4> QED BY <4>1, <4>2, <4>3, <4>4, <4>5, <4>6 DEF Facts
    <3> QED BY <2>1, <3>3, <3>4, <3>5, <3>6, <3>7, <3>8, FactsOf DEF Devices
  <2> QED BY <2>6, <2>7, <2>8, <2>9, <2>10 DEF IInv
<1> QED BY <1>7, <1>8

\* A native frame that is given up leaves nothing of its own behind.
LEMMA GoneKeeps ==
    ASSUME IInv, call.pc = "nativeBegin", call' = [call EXCEPT !.pc = "nativeGone"],
           UNCHANGED <<mode, q12, q11, fence, back, lapses, image, retired, color, surface, copies, d11>>,
           native' \in Natives, native'.inst = native.inst, native'.last = native.last, native'.value = native.value,
           native'.history \in {0, native.history}, host' \in {0, host}
    PROVE IInv'
<1>0. TypeInv /\ call \in Calls
  BY CallFits DEF IInv
<1>1. PICK d \in Calls : call' = d /\ d.pc = "nativeGone" /\ d.frame = call.frame /\ d.togo = call.togo /\ d.guides = call.guides
  <2> DEFINE d == [call EXCEPT !.pc = "nativeGone"]
  <2>0. "nativeGone" \in Pcs
    BY DEF Pcs
  <2>1. d \in Calls /\ d.pc = "nativeGone" /\ d.frame = call.frame /\ d.togo = call.togo /\ d.guides = call.guides
    BY <1>0, <2>0 DEF Calls
  <2>2. call' = d
    OBVIOUS
  <2> HIDE DEF d
  <2> QED BY <2>1, <2>2
<1>2. ASSUME lapses = {} PROVE Bundles' /\ Pending' /\ Facts(d)'
  <2>1. Devices /\ Facts(call) /\ NativeUnused
    BY <1>2 DEF IInv, Facts, Arrived
  <2>2. Bundles' /\ Pending'
    BY <2>1, BundlesKept, PendingKept DEF Devices
  <2>3. Waiting(d) /\ Arrived(d) /\ Last(d) /\ Showing(d) /\ Earlier(d)
    BY <1>1 DEF Waiting, Arrived, Last, Showing, Earlier, Guiding, Preparing, Where, Coloring, Resets
  <2>4. NonePending(d)
    BY <1>1, <2>1 DEF Facts, NonePending, Preparing, Guiding, Where, Coloring, Resets
  <2>5. Having(d)
    <3>1. Untouched(d)
      BY <1>1, <2>1 DEF Facts, Having, Untouched, Where
    <3> QED BY <1>1, <2>1, <3>1 DEF Facts, Having, Preparing, Guiding, Where, Coloring, Resets, Presented
  <2>6. Ranked(d)
    BY <1>1, <2>1 DEF Facts, Ranked, Reach, Presented, Where, Coloring, Resets
  <2>7. Historic(d)
    BY <1>1, <2>1 DEF Facts, Historic, Where, Coloring, Resets
  <2>8. Waiting(d)' /\ Earlier(d)' /\ NonePending(d)' /\ Arrived(d)' /\ Last(d)' /\ Having(d)' /\ Ranked(d)' /\ Showing(d)' /\ Historic(d)'
    BY <2>3, <2>4, <2>5, <2>6, <2>7, StateKept
  <2> QED BY <2>2, <2>8 DEF Facts
<1> QED
  <2>1. call.frame <= d.frame /\ host' \in Nat
    BY <1>0, <1>1, CallFits, ReleasedFits
  <2> QED BY <1>0, <1>1, <1>2, <2>1, ReleasedFits, MembersKeep

\* What begin makes of the members.
LEMMA BegunFits ==
    ASSUME TypeInv, call \in Calls, NEW built \in BOOLEAN,
           NEW n, n = Initialized(native, call.desc, built), NEW m, m = Prepared(n, call.desc, call.key)
    PROVE /\ n \in Natives /\ n.inst = native.inst /\ n.last = native.last /\ n.value = native.value
          /\ n.history \in {0, native.history}
          /\ m \in Natives /\ m.inst = native.inst /\ m.last = native.last /\ m.value = native.value
          /\ m.history \in {0, native.history}
<1>1. native \in Natives /\ Released(native) \in Natives /\ native.format \in Nat /\ native.key \in Nat
      /\ Released(native).inst = native.inst /\ Released(native).last = native.last /\ Released(native).value = native.value
      /\ Released(native).history = 0
  BY ReleasedFits DEF Natives
<1>2. call.desc[1] \in Nat /\ call.desc[2] \in Nat /\ call.key \in Nat
  BY DEF Calls
<1>3. n \in Natives /\ n.inst = native.inst /\ n.last = native.last /\ n.value = native.value /\ n.history \in {0, native.history}
  <2>1. CASE native.format = call.desc[2]
    BY <1>1, <2>1 DEF Initialized
  <2>2. CASE native.format # call.desc[2]
    <3> DEFINE r == Released(native)
    <3> DEFINE k == IF native.format = 0 THEN native.key ELSE 0
    <3>1. n = [r EXCEPT !.format = call.desc[2], !.built = built, !.failed = ~built, !.key = k]
      BY <2>2 DEF Initialized
    <3>2. k \in Nat /\ (~built) \in BOOLEAN /\ r \in Natives
      BY <1>1
    <3>3. r.inst = native.inst /\ r.last = native.last /\ r.value = native.value /\ r.history = 0
      BY <1>1
    <3> HIDE DEF r, k
    <3> QED BY <1>2, <3>1, <3>2, <3>3 DEF Natives
  <2> QED BY <2>1, <2>2
<1>4. m \in Natives /\ m.inst = native.inst /\ m.last = native.last /\ m.value = native.value /\ m.history \in {0, native.history}
  <2> DEFINE h == IF n.key = call.key /\ n.size = call.desc[1] THEN n.history ELSE 0
  <2>1. m = [n EXCEPT !.key = call.key, !.size = call.desc[1], !.history = h]
    BY DEF Prepared
  <2>2. h \in {0, n.history} /\ h \in Nat
    BY <1>3 DEF Natives
  <2> HIDE DEF h
  <2> QED BY <1>2, <1>3, <2>1, <2>2 DEF Natives
<1> QED BY <1>3, <1>4

\* A list as it is submitted.
LEMMA ListFits ==
    ASSUME NEW list \in Works, NEW v \in Nat, NEW s \in Signals(v), NEW w, w = [list EXCEPT !.signal = s]
    PROVE /\ w \in Works /\ w.op = list.op /\ w.ctx = list.ctx /\ w.gen = list.gen /\ w.frame = list.frame
          /\ w.history = list.history /\ w.signal <= v
<1>1. s \in Nat /\ s <= v
  BY DEF Signals
<1> QED BY <1>1 DEF Works

LEMMA NativeWorkFits ==
    ASSUME NEW op \in NativeOps, NEW inst \in Nat, NEW frame \in Nat, NEW a, a = Work(op, "native", inst, frame)
    PROVE a \in Works /\ a.op = op /\ a.ctx = "native" /\ a.gen = inst /\ a.frame = frame
<1>1. op \in Ops
  BY DEF NativeOps, Ops
<1> QED BY <1>1 DEF Work, Works, Ctxs

LEMMA NativeBeginKeeps ==
    ASSUME IInv, NativeBegin /\ UNCHANGED owned
    PROVE IInv'
<1> USE DEF owned
<1>0. TypeInv /\ Values /\ Kinds /\ call \in Calls /\ call.frame \in Nat /\ call.pc = "nativeBegin"
  BY CallFits DEF IInv, NativeBegin
<1>1. UNCHANGED <<mode, q11, fence, event, back, image, retired, color, surface, copies, d11>>
  BY DEF NativeBegin
<1>2. PICK built \in BOOLEAN :
        LET n == Initialized(native, call.desc, built)
            m == Prepared(n, call.desc, call.key)
        IN \/ /\ native' = n /\ call' = [call EXCEPT !.pc = "nativeGone"] /\ UNCHANGED <<q12, host, lapses>>
           \/ /\ call' = [call EXCEPT !.pc = "crashed"] /\ lapses' = lapses \cup {"unbuilt"} /\ UNCHANGED <<native, q12, host>>
           \/ /\ host' = 0 /\ native' = [Submitted(m) EXCEPT !.hold = TRUE]
              /\ Submit(m, [NativeList(m, "nativePre") EXCEPT !.history = m.history])
              /\ call' = [call EXCEPT !.pc = "nativeEvaluate"] /\ UNCHANGED lapses
           \/ /\ host' = 0 /\ native' = [m EXCEPT !.failed = TRUE, !.hold = TRUE]
              /\ call' = [call EXCEPT !.pc = "nativeGone"] /\ UNCHANGED <<q12, lapses>>
  BY DEF NativeBegin
<1> DEFINE n == Initialized(native, call.desc, built)
<1> DEFINE m == Prepared(n, call.desc, call.key)
<1>3. \/ native' = n /\ call' = [call EXCEPT !.pc = "nativeGone"] /\ UNCHANGED <<q12, host, lapses>>
      \/ call' = [call EXCEPT !.pc = "crashed"] /\ lapses' = lapses \cup {"unbuilt"} /\ UNCHANGED <<native, q12, host>>
      \/ /\ host' = 0 /\ native' = [Submitted(m) EXCEPT !.hold = TRUE]
         /\ Submit(m, [NativeList(m, "nativePre") EXCEPT !.history = m.history])
         /\ call' = [call EXCEPT !.pc = "nativeEvaluate"] /\ UNCHANGED lapses
      \/ /\ host' = 0 /\ native' = [m EXCEPT !.failed = TRUE, !.hold = TRUE]
         /\ call' = [call EXCEPT !.pc = "nativeGone"] /\ UNCHANGED <<q12, lapses>>
  BY <1>2
<1>4. /\ n \in Natives /\ n.inst = native.inst /\ n.last = native.last /\ n.value = native.value
      /\ n.history \in {0, native.history}
      /\ m \in Natives /\ m.inst = native.inst /\ m.last = native.last /\ m.value = native.value
      /\ m.history \in {0, native.history}
  BY <1>0, BegunFits
<1> HIDE DEF n, m
<1>5. CASE native' = n /\ call' = [call EXCEPT !.pc = "nativeGone"] /\ UNCHANGED <<q12, host, lapses>>
  BY <1>0, <1>1, <1>4, <1>5, GoneKeeps
<1>6. CASE call' = [call EXCEPT !.pc = "crashed"] /\ lapses' = lapses \cup {"unbuilt"} /\ UNCHANGED <<native, q12, host>>
  <2> DEFINE d == [call EXCEPT !.pc = "crashed"]
  <2>0. "crashed" \in Pcs
    BY DEF Pcs
  <2>1. d \in Calls /\ call.frame <= d.frame
    BY <1>0, <2>0 DEF Calls
  <2>2. call' = d /\ lapses' # {}
    BY <1>6
  <2> HIDE DEF d
  <2> QED BY <1>1, <1>6, <2>1, <2>2, ThreadKeeps DEF nativeVars
<1>7. CASE /\ host' = 0 /\ native' = [m EXCEPT !.failed = TRUE, !.hold = TRUE]
           /\ call' = [call EXCEPT !.pc = "nativeGone"] /\ UNCHANGED <<q12, lapses>>
  <2>1. /\ native' \in Natives /\ native'.inst = native.inst /\ native'.last = native.last /\ native'.value = native.value
        /\ native'.history \in {0, native.history}
    BY <1>4, <1>7 DEF Natives
  <2> QED BY <1>0, <1>1, <1>7, <2>1, GoneKeeps
<1>8. CASE /\ host' = 0 /\ native' = [Submitted(m) EXCEPT !.hold = TRUE]
           /\ Submit(m, [NativeList(m, "nativePre") EXCEPT !.history = m.history])
           /\ call' = [call EXCEPT !.pc = "nativeEvaluate"] /\ UNCHANGED lapses
  <2>1. native.last \in Nat /\ native.inst \in Nat /\ m.history \in Nat /\ native.last + 1 \in Nat
    BY <1>4 DEF Natives
  <2>2. /\ native' \in Natives /\ native'.inst = native.inst /\ native'.last = native.last + 1 /\ native'.value = native.last + 1
        /\ native'.history = m.history /\ native'.hold = TRUE
    BY <1>4, <1>8, <2>1 DEF Submitted, Natives
  <2>3. PICK w \in Works : /\ q12' = Append(q12, w) /\ w.op = "nativePre" /\ w.ctx = "native" /\ w.gen = native.inst
                           /\ w.frame = call.frame /\ w.history = m.history /\ w.signal <= native.last + 1
    <3> DEFINE a == Work("nativePre", "native", native.inst, call.frame)
    <3> DEFINE list == [a EXCEPT !.history = m.history]
    <3>1. PICK s \in Signals(native.last + 1) : q12' = Append(q12, [list EXCEPT !.signal = s])
      BY <1>4, <1>8 DEF Submit, NativeList
    <3>2. "nativePre" \in NativeOps
      BY DEF NativeOps
    <3>3. list \in Works /\ list.op = "nativePre" /\ list.ctx = "native" /\ list.gen = native.inst /\ list.frame = call.frame
          /\ list.history = m.history
      <4>1. a \in Works /\ a.op = "nativePre" /\ a.ctx = "native" /\ a.gen = native.inst /\ a.frame = call.frame
        BY <1>0, <2>1, <3>2, NativeWorkFits
      <4> HIDE DEF a
      <4> QED BY <2>1, <4>1 DEF Works
    <3> HIDE DEF list
    <3> DEFINE w == [list EXCEPT !.signal = s]
    <3>4. /\ w \in Works /\ w.op = list.op /\ w.ctx = list.ctx /\ w.gen = list.gen /\ w.frame = list.frame
          /\ w.history = list.history /\ w.signal <= native.last + 1
      BY <2>1, <3>3, ListFits
    <3>5. q12' = Append(q12, w)
      BY <3>1
    <3> HIDE DEF w
    <3> QED BY <3>3, <3>4, <3>5
  <2>4. PICK d \in Calls : call' = d /\ d.pc = "nativeEvaluate" /\ d.frame = call.frame /\ d.togo = call.togo /\ d.guides = call.guides
    <3> DEFINE d == [call EXCEPT !.pc = "nativeEvaluate"]
    <3>0. "nativeEvaluate" \in Pcs
      BY DEF Pcs
    <3>1. d \in Calls /\ d.pc = "nativeEvaluate" /\ d.frame = call.frame /\ d.togo = call.togo /\ d.guides = call.guides
      BY <1>0, <3>0 DEF Calls
    <3>2. call' = d
      BY <1>8
    <3> HIDE DEF d
    <3> QED BY <3>1, <3>2
  <2>5. ASSUME lapses = {}
        PROVE  /\ call.frame # 0 /\ Queue12(call.frame - 1) /\ Bundles'
               /\ m.history # 0 => Kept(m.history) /\ color.gen = 0
               /\ Facts(d)'
    <3>1. Devices /\ Facts(call)
      BY <2>5 DEF IInv
    <3>2. Where(call) = "nativeBegin" /\ ~Presented(call)
      BY <1>0 DEF Where, Presented, Resets
    <3>3. NativeUnused /\ call.frame # 0 /\ Untouched(call) /\ Queue12(call.frame - 1)
          /\ call.togo \cap call.guides = {}
      BY <1>0, <3>1, <3>2 DEF Facts, Arrived, Having, Ranked, Reach
    <3>4. m.history # 0 => Kept(m.history) /\ color.gen = 0
      BY <1>4, <3>1, <3>2 DEF Facts, Historic
    <3>5. Bundles'
      <4>1. w.op \in NativeOps
        BY <2>3 DEF NativeOps
      <4> QED BY <1>0, <1>1, <1>8, <2>2, <2>3, <3>1, <3>3, <4>1, BundlesSubmit DEF Devices
    <3>6. Where(d) = "nativeEvaluate" /\ ~Presented(d) /\ ~Coloring(d)
      BY <2>4 DEF Where, Presented, Coloring, Resets
    <3>7. Waiting(d)' /\ Earlier(d)' /\ Arrived(d)'
      BY <2>4, <3>6 DEF Waiting, Earlier, Arrived, Preparing, Guiding
    <3>8. NonePending(d)'
      BY <1>1, <3>1, <3>6 DEF Facts, NonePending, Preparing, Guiding
    <3>9. Last(d)'
      <4>1. \A i \in DOMAIN q12' : q12'[i].op = "nativePre" /\ q12'[i].gen = native.inst => q12'[i].frame = call.frame
        <5>1. \A i \in DOMAIN q12' : (i \in DOMAIN q12 /\ q12'[i] = q12[i]) \/ q12'[i] = w
          BY <1>0, <2>3, Appended
        <5> QED BY <2>3, <3>3, <5>1 DEF NativeUnused, NativeOps
      <4>2. PICK f : f = call.frame
        OBVIOUS
      <4>3. Begun(f)'
        BY <2>2, <4>1, <4>2 DEF Begun
      <4> QED BY <2>4, <4>2, <4>3 DEF Last, Begun
    <3>10. Having(d)'
      <4>1. Untouched(d)'
        BY <1>0, <2>3, <2>4, <3>2, <3>3, UntouchedAppend
      <4> QED BY <2>4, <3>3, <3>6, <4>1 DEF Having, Preparing, Guiding
    <3>11. Ranked(d)'
      <4>1. PICK k \in Nat : k = call.frame - 1
        BY <1>0, <3>3
      <4>2. Queue12(k)'
        BY <1>0, <1>1, <2>3, <3>3, <4>1, Queue12Append
      <4> QED BY <2>4, <3>6, <4>1, <4>2 DEF Ranked, Reach
    <3>12. Showing(d)'
      <4>1. PICK f : f = call.frame
        OBVIOUS
      <4>2. CurrentShows(End, f)'
        BY <1>0, <1>1, <2>3, <4>1, ShowsEnd
      <4> QED BY <2>4, <3>6, <4>1, <4>2 DEF Showing, Guiding
    <3>13. Historic(d)'
      <4>1. PICK h : h = m.history
        OBVIOUS
      <4>2. h # 0 => Kept(h)' /\ color.gen = 0
        BY <1>0, <1>1, <2>3, <3>4, <4>1, KeptAppend
      <4> QED BY <1>1, <2>2, <3>6, <4>1, <4>2 DEF Historic, Kept
    <3> QED BY <3>3, <3>4, <3>5, <3>7, <3>8, <3>9, <3>10, <3>11, <3>12, <3>13 DEF Facts
  <2>6. w.op \in NativeOps /\ w.ctx = CtxOf(w.op) /\ w.op # "nativePost" /\ native.last <= native'.last /\ w.signal <= native'.last
        /\ host' \in Nat
    BY <1>8, <2>1, <2>2, <2>3, ContextOf DEF NativeOps
  <2> QED BY <1>1, <1>8, <2>2, <2>3, <2>4, <2>5, <2>6, WorkQueued
<1> QED BY <1>3, <1>5, <1>6, <1>7, <1>8

LEMMA NativePostKeeps ==
    ASSUME IInv, NativePost /\ UNCHANGED owned
    PROVE IInv'
<1> USE DEF owned
<1>0. TypeInv /\ Values /\ Kinds /\ call \in Calls /\ call.frame \in Nat /\ call.pc = "nativePost" /\ native \in Natives
  BY CallFits, ReleasedFits DEF IInv, NativePost
<1>1. /\ UNCHANGED <<mode, q11, fence, event, back, lapses, image, host, retired, color, surface, copies, d11>>
      /\ native' = [Submitted(native) EXCEPT !.hold = FALSE]
  BY DEF NativePost
<1>2. native.last \in Nat /\ native.inst \in Nat /\ native.last + 1 \in Nat /\ host \in Nat
  BY <1>0, ReleasedFits DEF Natives
<1>3. /\ native' \in Natives /\ native'.inst = native.inst /\ native'.last = native.last + 1 /\ native'.value = native.last + 1
      /\ native'.history = native.history
  BY <1>0, <1>1, <1>2 DEF Submitted, Natives
<1>4. PICK w \in Works : /\ q12' = Append(q12, w) /\ w.op = "nativePost" /\ w.ctx = "native" /\ w.gen = native.inst
                         /\ w.frame = call.frame /\ w.signal <= native.last + 1
  <2> DEFINE list == Work("nativePost", "native", native.inst, call.frame)
  <2>1. PICK s \in Signals(native.last + 1) : q12' = Append(q12, [list EXCEPT !.signal = s])
    BY DEF NativePost, Submit, NativeList
  <2>2. "nativePost" \in NativeOps /\ 0 \in Nat
    BY DEF NativeOps
  <2>3. list \in Works /\ list.op = "nativePost" /\ list.ctx = "native" /\ list.gen = native.inst /\ list.frame = call.frame
    BY <1>0, <1>2, <2>2, NativeWorkFits
  <2> HIDE DEF list
  <2> DEFINE w == [list EXCEPT !.signal = s]
  <2>4. /\ w \in Works /\ w.op = list.op /\ w.ctx = list.ctx /\ w.gen = list.gen /\ w.frame = list.frame
        /\ w.history = list.history /\ w.signal <= native.last + 1
    BY <1>2, <2>3, ListFits
  <2>5. q12' = Append(q12, w)
    BY <2>1
  <2> HIDE DEF w
  <2> QED BY <2>3, <2>4, <2>5
<1>5. PICK d \in Calls : call' = d /\ d.pc = "nativeFinish" /\ d.frame = call.frame /\ d.togo = call.togo /\ d.guides = call.guides
  <2> DEFINE d == [call EXCEPT !.pc = "nativeFinish"]
  <2>0. "nativeFinish" \in Pcs
    BY DEF Pcs
  <2>1. d \in Calls /\ d.pc = "nativeFinish" /\ d.frame = call.frame /\ d.togo = call.togo /\ d.guides = call.guides
    BY <1>0, <2>0 DEF Calls
  <2>2. call' = d
    BY DEF NativePost
  <2> HIDE DEF d
  <2> QED BY <2>1, <2>2
<1>6. ASSUME lapses = {}
      PROVE  /\ call.frame # 0 /\ Queue12(call.frame - 1) /\ Bundles' /\ CurrentShows(End, w.frame)
             /\ Facts(d)'
  <2>1. Devices /\ Facts(call)
    BY <1>6 DEF IInv
  <2>2. Where(call) = "nativePost" /\ ~Presented(call)
    BY <1>0 DEF Where, Presented, Resets
  <2>3. NativeUnused /\ call.frame # 0 /\ Untouched(call) /\ Queue12(call.frame - 1)
        /\ call.togo \cap call.guides = {} /\ CurrentShows(End, call.frame)
    BY <1>0, <2>1, <2>2 DEF Facts, Arrived, Having, Ranked, Reach, Showing
  <2>4. native.history # 0 => color.gen = 0
    BY <2>1 DEF Facts, Historic
  <2>5. Bundles'
    <3>1. w.op \in NativeOps
      BY <1>4 DEF NativeOps
    <3> QED BY <1>0, <1>1, <1>3, <1>4, <2>1, <2>3, <3>1, BundlesSubmit DEF Devices
  <2>6. Where(d) = "nativeFinish" /\ ~Presented(d) /\ ~Coloring(d)
    BY <1>5 DEF Where, Presented, Coloring, Resets
  <2>7. Waiting(d)' /\ Earlier(d)' /\ Arrived(d)'
    BY <1>5, <2>6 DEF Waiting, Earlier, Arrived, Preparing, Guiding
  <2>8. NonePending(d)'
    BY <1>1, <2>1, <2>6 DEF Facts, NonePending, Preparing, Guiding
  <2>9. Last(d)'
    <3>1. PICK v : v = native.last + 1
      OBVIOUS
    <3>2. fence.native \in Nat /\ fence.native <= native.last /\ \A i \in DOMAIN q12 : q12[i].signal \in Nat
      BY <1>0, QueueFits DEF TypeInv, Values, Works
    <3>3. fence["native"] < v /\ \A i \in DOMAIN q12 : FenceOf(q12[i].ctx) = "native" => q12[i].signal < v
      BY <1>0, <1>2, <3>1, <3>2 DEF Values
    <3>4. Behind(Ops, "native", v)'
      BY <1>0, <1>1, <1>4, <3>3, BehindEnd
    <3> QED BY <1>3, <1>5, <3>1, <3>4 DEF Last, Behind, Before
  <2>10. Having(d)'
    <3>1. Untouched(d)'
      BY <1>0, <1>4, <1>5, <2>2, <2>3, UntouchedAppend
    <3> QED BY <1>5, <2>3, <2>6, <3>1 DEF Having, Preparing, Guiding
  <2>11. Ranked(d)'
    <3>1. PICK k \in Nat : k = call.frame - 1
      BY <1>0, <2>3
    <3>2. Queue12(k)'
      BY <1>0, <1>1, <1>4, <2>3, <3>1, Queue12Append
    <3> QED BY <1>5, <2>6, <3>1, <3>2 DEF Ranked, Reach
  <2>12. Showing(d)'
    <3>1. BackNeural(End)'
      BY <1>0, <1>1, <1>4, ShowsEnd
    <3> QED BY <2>6, <3>1 DEF Showing, Guiding
  <2>13. Historic(d)'
    <3>1. Len(q12) \in Nat /\ Len(q12') = Len(q12) + 1 /\ q12'[Len(q12')] = w /\ q12' # <<>>
      <4>1. q12 \in Seq(Works)
        BY <1>0 DEF TypeInv
      <4> QED BY <1>4, <4>1, AppendFits
    <3>2. PICK f : f = call.frame
      OBVIOUS
    <3>3. Composed12(f)'
      BY <1>4, <3>1, <3>2 DEF Composed12
    <3> QED BY <1>1, <1>3, <1>5, <2>4, <2>6, <3>2, <3>3 DEF Historic, Composed12
  <2> QED BY <1>4, <2>3, <2>5, <2>7, <2>8, <2>9, <2>10, <2>11, <2>12, <2>13 DEF Facts
<1>7. w.op \in NativeOps /\ w.ctx = CtxOf(w.op) /\ w.op # "nativePre" /\ native.last <= native'.last /\ w.signal <= native'.last
      /\ host' \in Nat
  BY <1>1, <1>2, <1>3, <1>4, ContextOf DEF NativeOps
<1> QED BY <1>1, <1>3, <1>4, <1>5, <1>6, <1>7, WorkQueued

---------------------------------------------------------------------------
(* The game's queue.                                                       *)

\* The first command leaves, and all others move up.
LEMMA Popped ==
    ASSUME TypeInv, q12 # <<>>, q12' = Tail(q12)
    PROVE /\ q12' \in Seq(Works) /\ Len(q12) \in Nat \ {0} /\ Len(q12') = Len(q12) - 1
          /\ DOMAIN q12 = 1..Len(q12) /\ DOMAIN q12' = 1..(Len(q12) - 1)
          /\ End = Len(q12) + 1 /\ End' = Len(q12)
          /\ 1 \in DOMAIN q12 /\ q12[1] \in Works /\ Head(q12) = q12[1]
          /\ \A i \in DOMAIN q12' : i \in Nat \ {0} /\ (i + 1) \in DOMAIN q12 /\ q12'[i] = q12[i + 1]
          /\ \A i \in DOMAIN q12 : i = 1 \/ ((i - 1) \in DOMAIN q12' /\ q12'[i - 1] = q12[i])
<1>1. q12 \in Seq(Works)
  BY DEF TypeInv
<1>2. /\ q12' \in Seq(Works) /\ Len(q12) \in Nat \ {0} /\ Len(q12') = Len(q12) - 1
      /\ DOMAIN q12 = 1..Len(q12) /\ DOMAIN q12' = 1..(Len(q12) - 1)
      /\ \A i \in 1..(Len(q12) - 1) : q12'[i] = q12[i + 1]
      /\ Head(q12) = q12[1] /\ q12[1] \in Works
  BY <1>1, TailFits
<1>3. End = Len(q12) + 1 /\ End' = Len(q12)
  BY <1>2 DEF End
<1>4. \A i \in DOMAIN q12' : i \in Nat \ {0} /\ (i + 1) \in DOMAIN q12 /\ q12'[i] = q12[i + 1]
  BY <1>2
<1>5. \A i \in DOMAIN q12 : i = 1 \/ ((i - 1) \in DOMAIN q12' /\ q12'[i - 1] = q12[i])
  <2> SUFFICES ASSUME NEW i \in DOMAIN q12, i # 1 PROVE (i - 1) \in DOMAIN q12' /\ q12'[i - 1] = q12[i]
    OBVIOUS
  <2>1. (i - 1) \in 1..(Len(q12) - 1) /\ (i - 1) + 1 = i
    BY <1>2
  <2> QED BY <1>2, <2>1
<1> QED BY <1>2, <1>3, <1>4, <1>5

\* A fence moves only for the command that leaves, and of D3D11's there is none.
LEMMA PoppedFence ==
    ASSUME TypeInv, Kinds, GameQueue
    PROVE /\ fence' \in [copy : Nat, d11 : Nat, native : Nat] /\ fence'.d11 = fence.d11
          /\ \A f \in {"copy", "d11", "native"} :
               fence'[f] = fence[f] \/ (FenceOf(q12[1].ctx) = f /\ fence'[f] = q12[1].signal)
<1>1. q12 # <<>> /\ q12' = Tail(q12) /\ Signalled(FenceOf(Head(q12).ctx), Head(q12).signal)
  BY DEF GameQueue
<1>2. q12[1] \in Works /\ Head(q12) = q12[1] /\ 1 \in DOMAIN q12
  BY <1>1, Popped
<1>3. q12[1].signal \in Nat /\ q12[1].op \in Ops
  BY <1>2 DEF Works
<1>4. q12[1].ctx = CtxOf(q12[1].op) /\ (q12[1].op \in {"evaluate", "present"} => q12[1].signal = 0)
  BY <1>2 DEF Kinds
<1>5. FenceOf(q12[1].ctx) \in {"copy", "d11", "native"} /\ (FenceOf(q12[1].ctx) = "d11" => q12[1].signal = 0)
  BY <1>3, <1>4, ContextOf, FencesOf DEF Ops
<1>6. PICK g, v : g = FenceOf(q12[1].ctx) /\ v = q12[1].signal
  OBVIOUS
<1>7. fence \in [copy : Nat, d11 : Nat, native : Nat]
  BY DEF TypeInv
<1>8. fence' = (IF v = 0 THEN fence ELSE [fence EXCEPT ![g] = v])
  BY <1>1, <1>2, <1>6 DEF Signalled
<1>9. g \in {"copy", "d11", "native"} /\ (g = "d11" => v = 0) /\ v \in Nat
  BY <1>3, <1>5, <1>6
<1>10. /\ fence' \in [copy : Nat, d11 : Nat, native : Nat] /\ fence'.d11 = fence.d11
       /\ \A f \in {"copy", "d11", "native"} : fence'[f] = fence[f] \/ (g = f /\ fence'[f] = v)
  BY <1>7, <1>8, <1>9
<1> QED BY <1>6, <1>10

LEMMA BeforePop ==
    ASSUME TypeInv, Kinds, GameQueue, NEW i \in DOMAIN q12', NEW f \in {"copy", "d11", "native"}, NEW v, Before(i + 1, f, v)
    PROVE Before(i, f, v)'
<1>1. q12 # <<>> /\ q12' = Tail(q12)
  BY DEF GameQueue
<1>2. i \in Nat \ {0} /\ DOMAIN q12' = 1..(Len(q12) - 1) /\ Len(q12) \in Nat /\ (i + 1) - 1 = i
  BY <1>1, Popped
<1>3. fence[f] < v /\ \A j \in 1..i : FenceOf(q12[j].ctx) = f => q12[j].signal < v
  BY <1>2 DEF Before
<1>4. fence'[f] < v
  <2>1. FenceOf(q12[1].ctx) = f => q12[1].signal < v
    BY <1>2, <1>3
  <2> QED BY <1>3, <2>1, PoppedFence
<1>5. \A j \in 1..(i - 1) : FenceOf(q12'[j].ctx) = f => q12'[j].signal < v
  <2> SUFFICES ASSUME NEW j \in 1..(i - 1) PROVE FenceOf(q12'[j].ctx) = f => q12'[j].signal < v
    OBVIOUS
  <2>1. j \in DOMAIN q12' /\ (j + 1) \in 1..i
    BY <1>2
  <2>2. q12'[j] = q12[j + 1]
    BY <1>1, <2>1, Popped
  <2> QED BY <1>3, <2>1, <2>2
<1> QED BY <1>4, <1>5 DEF Before, FenceOf

\* What the command does to the images.
LEMMA PoppedImages ==
    ASSUME TypeInv, GameQueue
    PROVE /\ color' \in [gen : Nat, desc : Nat \X Nat, image : Images] /\ color'.gen = color.gen /\ color'.desc = color.desc
          /\ color'.image.frame = (IF q12[1].op = "copyIn" /\ q12[1].gen = color.gen THEN back.frame ELSE color.image.frame)
          /\ q12[1].op # "copyIn" /\ color.image.neural => color'.image.neural
          /\ q12[1].op = "evaluate" /\ q12[1].neural /\ q12[1].gen = color.gen => color'.image.neural
          /\ back' \in Images
          /\ q12[1].op = "present" => back'.frame = q12[1].frame + 1
          /\ q12[1].op = "copyOut" /\ q12[1].gen = color.gen => back' = color.image
          /\ q12[1].op = "nativePost" => back'.frame = image.current /\ back'.neural
          /\ q12[1].op \notin {"present", "copyOut", "nativePost"} => back' = back
          /\ image' \in [current : Nat, history : Nat]
          /\ image'.current = (IF q12[1].op = "nativePre" THEN back.frame ELSE image.current)
          /\ image'.history = (IF q12[1].op = "nativePost" THEN image.current ELSE image.history)
<1>1. q12 # <<>> /\ q12' = Tail(q12)
  BY DEF GameQueue
<1>2. q12[1] \in Works /\ Head(q12) = q12[1]
  BY <1>1, Popped
<1>3. PICK w \in Works : w = q12[1]
  BY <1>2
<1>4. /\ back' = CASE w.op = "present" -> [frame |-> w.frame + 1, neural |-> FALSE]
                   [] w.op = "copyOut" /\ w.gen = color.gen -> color.image
                   [] w.op = "nativePost" -> [frame |-> image.current, neural |-> TRUE]
                   [] OTHER -> back
      /\ color' = IF w.op = "copyIn" /\ w.gen = color.gen THEN [color EXCEPT !.image = back] ELSE Composed(w)
      /\ image' = CASE w.op = "nativePre" -> [image EXCEPT !.current = back.frame]
                    [] w.op = "nativePost" -> [image EXCEPT !.history = image.current]
                    [] OTHER -> image
  BY <1>2, <1>3 DEF GameQueue
<1>5. /\ color \in [gen : Nat, desc : Nat \X Nat, image : Images] /\ back \in Images /\ back.frame \in Nat
      /\ image \in [current : Nat, history : Nat] /\ image.current \in Nat /\ color.image \in Images /\ w.frame \in Nat
  BY DEF TypeInv, Images, Works
<1>6. /\ color' \in [gen : Nat, desc : Nat \X Nat, image : Images] /\ color'.gen = color.gen /\ color'.desc = color.desc
      /\ color'.image.frame = (IF w.op = "copyIn" /\ w.gen = color.gen THEN back.frame ELSE color.image.frame)
      /\ w.op # "copyIn" /\ color.image.neural => color'.image.neural
      /\ w.op = "evaluate" /\ w.neural /\ w.gen = color.gen => color'.image.neural
  <2>1. CASE w.op = "copyIn" /\ w.gen = color.gen
    BY <1>4, <1>5, <2>1
  <2>2. CASE ~(w.op = "copyIn" /\ w.gen = color.gen) /\ w.op = "evaluate" /\ w.neural /\ w.gen = color.gen
    <3> DEFINE x == [color.image EXCEPT !.neural = TRUE]
    <3>1. x \in Images /\ x.frame = color.image.frame /\ x.neural = TRUE
      BY <1>5 DEF Images
    <3>2. color' = [color EXCEPT !.image = x]
      BY <1>4, <2>2 DEF Composed
    <3> HIDE DEF x
    <3> QED BY <1>5, <2>2, <3>1, <3>2
  <2>3. CASE ~(w.op = "copyIn" /\ w.gen = color.gen) /\ ~(w.op = "evaluate" /\ w.neural /\ w.gen = color.gen)
    BY <1>4, <1>5, <2>3 DEF Composed
  <2> QED BY <2>1, <2>2, <2>3
<1>7. /\ back' \in Images
      /\ w.op = "present" => back'.frame = w.frame + 1
      /\ w.op = "copyOut" /\ w.gen = color.gen => back' = color.image
      /\ w.op = "nativePost" => back'.frame = image.current /\ back'.neural
      /\ w.op \notin {"present", "copyOut", "nativePost"} => back' = back
  <2>1. /\ [frame |-> w.frame + 1, neural |-> FALSE] \in Images /\ [frame |-> image.current, neural |-> TRUE] \in Images
    BY <1>5 DEF Images
  <2>2. CASE w.op = "present"
    BY <1>4, <2>1, <2>2
  <2>3. CASE w.op = "copyOut" /\ w.gen = color.gen
    BY <1>4, <1>5, <2>3
  <2>4. CASE w.op = "nativePost"
    BY <1>4, <2>1, <2>4
  <2>5. CASE w.op \notin {"present", "nativePost"} /\ ~(w.op = "copyOut" /\ w.gen = color.gen)
    BY <1>4, <1>5, <2>5
  <2> QED BY <2>2, <2>3, <2>4, <2>5
<1>8. /\ image' \in [current : Nat, history : Nat]
      /\ image'.current = (IF w.op = "nativePre" THEN back.frame ELSE image.current)
      /\ image'.history = (IF w.op = "nativePost" THEN image.current ELSE image.history)
  BY <1>4, <1>5
<1> QED BY <1>3, <1>6, <1>7, <1>8

\* The command that leaves is of the Present whose frame the back buffer holds, and leaves
\* that frame there unless it is the Present.
LEMMA HeadFrame ==
    ASSUME IInv, lapses = {}, q12 # <<>>
    PROVE q12[1].frame = back.frame /\ q12[1].frame \in Nat /\ 1 \in DOMAIN q12
<1>1. TypeInv /\ call.frame \in Nat /\ Recent(call.frame) /\ Sorted /\ Queue12(Reach(call))
  BY CallFits DEF IInv, Devices, Facts, Ranked
<1>2. q12 \in Seq(Works) /\ Len(q12) \in Nat \ {0} /\ DOMAIN q12 = 1..Len(q12) /\ 1 \in DOMAIN q12 /\ q12[1] \in Works
  BY <1>1, TailFits DEF TypeInv
<1>3. q12[1].frame \in Nat /\ back.frame \in Nat
  BY <1>1, <1>2 DEF Works, TypeInv, Images
<1>4. back.frame <= q12[1].frame /\ q12[1].frame <= call.frame
  BY <1>1, <1>2, <1>3 DEF Sorted, Recent
<1>5. Reach(call) \in Int /\ call.frame <= Reach(call) + 1
  BY <1>1 DEF Reach
<1>6. CASE back.frame <= Reach(call)
  <2>1. back.frame \in back.frame..Reach(call)
    BY <1>3, <1>5, <1>6
  <2>2. PICK i \in DOMAIN q12 : q12[i].frame = back.frame
    BY <1>1, <2>1 DEF Queue12
  <2>3. i = 1 \/ 1 < i
    BY <1>2
  <2>4. q12[1].frame <= back.frame
    BY <1>1, <1>2, <1>3, <2>2, <2>3 DEF Sorted
  <2> QED BY <1>2, <1>3, <1>4, <2>4
<1>7. CASE ~(back.frame <= Reach(call))
  <2>1. PICK n \in Int : n = Reach(call) /\ call.frame <= n + 1
    BY <1>5
  <2>2. back.frame <= n + 1
    BY <1>1, <2>1 DEF Queue12
  <2>3. ~(back.frame <= n) /\ call.frame \in Nat
    BY <1>1, <1>7, <2>1
  <2> QED BY <1>2, <1>3, <1>4, <2>1, <2>2, <2>3
<1> QED BY <1>6, <1>7

LEMMA FirstFacts ==
    ASSUME IInv, lapses = {}, q12 # <<>>
    PROVE /\ q12[1].op \in {"copyIn", "copyOut"} => q12[1].gen = color.gen
          /\ q12[1].op = "copyOut" => color.image.frame = q12[1].frame
          /\ q12[1].op = "nativePost" => image.current = q12[1].frame
          /\ q12[1].op = "present" /\ q12[1].neural => back.neural
          /\ q12[1].op = "nativePre" /\ q12[1].history # 0 =>
               image.history = q12[1].history /\ (color.gen = 0 \/ color.gen > q12[1].frame)
<1>1. Surfaced /\ Predicted /\ Remembered /\ 1 \in DOMAIN q12
  BY HeadFrame DEF IInv, Devices
<1>2. \A i \in 1..(1 - 1) : FALSE
  OBVIOUS
<1>3. q12[1].op = "copyOut" => ColorShows(1, q12[1].frame)
  BY <1>1 DEF Predicted
<1>4. q12[1].op = "nativePost" => CurrentShows(1, q12[1].frame)
  BY <1>1 DEF Predicted
<1>5. q12[1].op = "present" /\ q12[1].neural => BackNeural(1)
  BY <1>1 DEF Predicted
<1>6. \A f : ColorShows(1, f) => color.image.frame = f
  BY <1>2 DEF ColorShows
<1>7. \A f : CurrentShows(1, f) => image.current = f
  BY <1>2 DEF CurrentShows
<1>8. BackNeural(1) => back.neural
  BY <1>2 DEF BackNeural
<1> QED BY <1>1, <1>3, <1>4, <1>5, <1>6, <1>7, <1>8 DEF Surfaced, Remembered

LEMMA BackFrame ==
    ASSUME IInv, lapses = {}, GameQueue
    PROVE back'.frame = (IF q12[1].op = "present" THEN back.frame + 1 ELSE back.frame)
<1>1. TypeInv /\ q12 # <<>> /\ q12' = Tail(q12)
  BY DEF IInv, GameQueue
<1>2. q12[1].frame = back.frame /\ q12[1].frame \in Nat /\ q12[1] \in Works
  BY <1>1, HeadFrame, Popped
<1>3. /\ q12[1].op = "copyOut" => back' = color.image /\ color.image.frame = q12[1].frame
      /\ q12[1].op = "nativePost" => back'.frame = image.current /\ image.current = q12[1].frame
      /\ q12[1].op = "present" => back'.frame = q12[1].frame + 1
      /\ q12[1].op \notin {"present", "copyOut", "nativePost"} => back' = back
  BY <1>1, FirstFacts, PoppedImages
<1> QED BY <1>2, <1>3

\* None of the commands before another, once the first has left.
LEMMA NonePop ==
    ASSUME TypeInv, q12 # <<>>, q12' = Tail(q12), NEW ops, NEW p \in Nat \ {0}, p <= Len(q12), NEW i \in Nat \ {0}, None(ops, i + 1, p + 1)
    PROVE None(ops, i, p)'
<1>1. \A h \in i..(p - 1) : h \in DOMAIN q12' /\ (h + 1) \in (i + 1)..((p + 1) - 1)
  BY Popped
<1>2. \A h \in DOMAIN q12' : q12'[h] = q12[h + 1]
  BY Popped
<1> QED BY <1>1, <1>2 DEF None

LEMMA NoneFirst ==
    ASSUME TypeInv, q12 # <<>>, q12' = Tail(q12), NEW ops, NEW p \in Nat \ {0}, p <= Len(q12), None(ops, 1, p + 1)
    PROVE q12[1].op \notin ops /\ None(ops, 1, p)'
<1>1. 1 \in 1..((p + 1) - 1) /\ \A h \in (1 + 1)..((p + 1) - 1) : h \in 1..((p + 1) - 1)
  OBVIOUS
<1>2. q12[1].op \notin ops /\ None(ops, 1 + 1, p + 1)
  BY <1>1 DEF None
<1> QED BY <1>2, NonePop

\* What will show when the command behind it has moved up still will.
LEMMA ShowsPop ==
    ASSUME IInv, lapses = {}, GameQueue, NEW p \in Nat \ {0}, p <= Len(q12)
    PROVE /\ \A f : ColorShows(p + 1, f) => ColorShows(p, f)'
          /\ ColorNeural(p + 1) => ColorNeural(p)'
          /\ \A f : CurrentShows(p + 1, f) => CurrentShows(p, f)'
<1>0. TypeInv /\ q12 # <<>> /\ q12' = Tail(q12) /\ (p + 1) - 1 = p
  BY DEF IInv, GameQueue
<1>1. q12[1].frame = back.frame /\ (q12[1].op \in {"copyIn", "copyOut"} => q12[1].gen = color.gen)
  BY <1>0, HeadFrame, FirstFacts
<1>2. \A i \in 1..p : i = 1 \/ ((i - 1) \in 1..(p - 1) /\ i - 1 \in Nat \ {0} /\ q12'[i - 1] = q12[i] /\ (i - 1) + 1 = i)
  <2>1. \A i \in 1..p : i \in DOMAIN q12
    BY <1>0, Popped
  <2>2. \A i \in DOMAIN q12 : i = 1 \/ q12'[i - 1] = q12[i]
    BY <1>0, Popped
  <2> QED BY <2>1, <2>2
<1>3. ASSUME NEW f, ColorShows(p + 1, f) PROVE ColorShows(p, f)'
  <2>1. CASE color.image.frame = f /\ None({"copyIn"}, 1, p + 1)
    <3>1. q12[1].op # "copyIn" /\ None({"copyIn"}, 1, p)'
      BY <1>0, <2>1, NoneFirst
    <3>2. color'.image.frame = f
      BY <1>0, <2>1, <3>1, PoppedImages
    <3> QED BY <3>1, <3>2 DEF ColorShows
  <2>2. ASSUME NEW i \in 1..p, q12[i].op = "copyIn", q12[i].frame = f, None({"copyIn"}, i + 1, p + 1)
        PROVE  ColorShows(p, f)'
    <3>1. None({"copyIn"}, i, p)' /\ i \in Nat \ {0}
      BY <1>0, <2>2, NonePop
    <3>2. CASE i = 1
      <4>1. color'.image.frame = f
        BY <1>0, <1>1, <2>2, <3>2, PoppedImages
      <4> QED BY <3>1, <3>2, <4>1 DEF ColorShows
    <3>3. CASE i # 1
      <4>1. PICK j \in 1..(p - 1) : j = i - 1 /\ q12'[j] = q12[i] /\ j + 1 = i
        BY <1>2, <3>3
      <4>2. None({"copyIn"}, j + 1, p)'
        BY <3>1, <4>1
      <4> QED BY <2>2, <4>1, <4>2 DEF ColorShows
    <3> QED BY <3>2, <3>3
  <2> QED BY <1>0, <1>3, <2>1, <2>2 DEF ColorShows
<1>4. ASSUME ColorNeural(p + 1) PROVE ColorNeural(p)'
  <2>1. CASE color.image.neural /\ None({"copyIn"}, 1, p + 1)
    <3>1. q12[1].op # "copyIn" /\ None({"copyIn"}, 1, p)'
      BY <1>0, <2>1, NoneFirst
    <3>2. color'.image.neural
      BY <1>0, <2>1, <3>1, PoppedImages
    <3> QED BY <3>1, <3>2 DEF ColorNeural
  <2>2. ASSUME NEW i \in 1..p, q12[i].op = "evaluate", q12[i].neural, q12[i].gen = color.gen, None({"copyIn"}, i + 1, p + 1)
        PROVE  ColorNeural(p)'
    <3>1. None({"copyIn"}, i, p)' /\ i \in Nat \ {0}
      BY <1>0, <2>2, NonePop
    <3>2. CASE i = 1
      <4>1. color'.image.neural
        BY <1>0, <2>2, <3>2, PoppedImages
      <4> QED BY <3>1, <3>2, <4>1 DEF ColorNeural
    <3>3. CASE i # 1
      <4>1. PICK j \in 1..(p - 1) : j = i - 1 /\ q12'[j] = q12[i] /\ j + 1 = i
        BY <1>2, <3>3
      <4>2. None({"copyIn"}, j + 1, p)' /\ color'.gen = color.gen
        BY <1>0, <3>1, <4>1, PoppedImages
      <4> QED BY <2>2, <4>1, <4>2 DEF ColorNeural
    <3> QED BY <3>2, <3>3
  <2> QED BY <1>0, <1>4, <2>1, <2>2 DEF ColorNeural
<1>5. ASSUME NEW f, CurrentShows(p + 1, f) PROVE CurrentShows(p, f)'
  <2>1. CASE image.current = f /\ None({"nativePre"}, 1, p + 1)
    <3>1. q12[1].op # "nativePre" /\ None({"nativePre"}, 1, p)'
      BY <1>0, <2>1, NoneFirst
    <3>2. image'.current = f
      BY <1>0, <2>1, <3>1, PoppedImages
    <3> QED BY <3>1, <3>2 DEF CurrentShows
  <2>2. ASSUME NEW i \in 1..p, q12[i].op = "nativePre", q12[i].frame = f, None({"nativePre"}, i + 1, p + 1)
        PROVE  CurrentShows(p, f)'
    <3>1. None({"nativePre"}, i, p)' /\ i \in Nat \ {0}
      BY <1>0, <2>2, NonePop
    <3>2. CASE i = 1
      <4>1. image'.current = f
        BY <1>0, <1>1, <2>2, <3>2, PoppedImages
      <4> QED BY <3>1, <3>2, <4>1 DEF CurrentShows
    <3>3. CASE i # 1
      <4>1. PICK j \in 1..(p - 1) : j = i - 1 /\ q12'[j] = q12[i] /\ j + 1 = i
        BY <1>2, <3>3
      <4>2. None({"nativePre"}, j + 1, p)'
        BY <3>1, <4>1
      <4> QED BY <2>2, <4>1, <4>2 DEF CurrentShows
    <3> QED BY <3>2, <3>3
  <2> QED BY <1>0, <1>5, <2>1, <2>2 DEF CurrentShows
<1> QED BY <1>3, <1>4, <1>5

LEMMA BackPop ==
    ASSUME IInv, lapses = {}, GameQueue, NEW p \in Nat \ {0}, p <= Len(q12), BackNeural(p + 1)
    PROVE BackNeural(p)'
<1>0. TypeInv /\ q12 # <<>> /\ q12' = Tail(q12) /\ (p + 1) - 1 = p
  BY DEF IInv, GameQueue
<1>1. q12[1].op = "copyOut" => back' = color.image
  BY <1>0, FirstFacts, PoppedImages
<1>2. \A i \in 1..p : i = 1 \/ ((i - 1) \in 1..(p - 1) /\ i - 1 \in Nat \ {0} /\ q12'[i - 1] = q12[i] /\ (i - 1) + 1 = i)
  <2>1. \A i \in 1..p : i \in DOMAIN q12
    BY <1>0, Popped
  <2>2. \A i \in DOMAIN q12 : i = 1 \/ q12'[i - 1] = q12[i]
    BY <1>0, Popped
  <2> QED BY <2>1, <2>2
<1>3. CASE back.neural /\ None({"present", "copyOut"}, 1, p + 1)
  <2>1. q12[1].op \notin {"present", "copyOut"} /\ None({"present", "copyOut"}, 1, p)'
    BY <1>0, <1>3, NoneFirst
  <2>2. back'.neural
    BY <1>0, <1>3, <2>1, PoppedImages
  <2> QED BY <2>1, <2>2 DEF BackNeural
<1>4. ASSUME NEW i \in 1..p, q12[i].op = "nativePost" \/ (q12[i].op = "copyOut" /\ ColorNeural(i)), None({"present", "copyOut"}, i + 1, p + 1)
      PROVE  BackNeural(p)'
  <2>1. None({"present", "copyOut"}, i, p)' /\ i \in Nat \ {0}
    BY <1>0, <1>4, NonePop
  <2>2. CASE i = 1
    <3>1. ColorNeural(1) => color.image.neural
      BY DEF ColorNeural
    <3>2. back'.neural
      BY <1>0, <1>1, <1>4, <2>2, <3>1, PoppedImages
    <3> QED BY <2>1, <2>2, <3>2 DEF BackNeural
  <2>3. CASE i # 1
    <3>1. PICK j \in 1..(p - 1) : j = i - 1 /\ q12'[j] = q12[i] /\ j + 1 = i /\ j \in Nat \ {0}
      BY <1>2, <2>3
    <3>2. None({"present", "copyOut"}, j + 1, p)'
      BY <2>1, <3>1
    <3>3. q12[i].op = "nativePost" \/ (q12[i].op = "copyOut" /\ ColorNeural(j)')
      <4>1. j <= Len(q12)
        BY <1>0, <3>1, Popped
      <4>2. ColorNeural(j + 1) => ColorNeural(j)'
        BY <3>1, <4>1, ShowsPop
      <4> QED BY <1>4, <3>1, <4>2
    <3> QED BY <3>1, <3>2, <3>3 DEF BackNeural
  <2> QED BY <2>2, <2>3
<1> QED BY <1>0, <1>3, <1>4 DEF BackNeural

LEMMA QueuePop ==
    ASSUME IInv, lapses = {}, GameQueue, NEW n \in Nat, Queue12(n)
    PROVE Queue12(n)'
<1>0. TypeInv /\ q12 # <<>> /\ q12' = Tail(q12) /\ back.frame \in Nat
  BY DEF IInv, GameQueue, TypeInv, Images
<1>1. back'.frame = (IF q12[1].op = "present" THEN back.frame + 1 ELSE back.frame) /\ q12[1].frame = back.frame /\ 1 \in DOMAIN q12
  BY <1>0, BackFrame, HeadFrame
<1>2. \A i \in DOMAIN q12' : q12'[i].op = "present" => q12'[i].frame <= n
  BY <1>0, Popped DEF Queue12
<1>3. ASSUME NEW f \in back'.frame..n PROVE \E i \in DOMAIN q12' : q12'[i].op = "present" /\ q12'[i].frame = f
  <2>1. f \in back.frame..n /\ (q12[1].op = "present" => f # q12[1].frame)
    BY <1>0, <1>1, <1>3
  <2>2. PICK i \in DOMAIN q12 : q12[i].op = "present" /\ q12[i].frame = f
    BY <2>1 DEF Queue12
  <2>3. i # 1
    BY <2>1, <2>2
  <2> QED BY <1>0, <2>2, <2>3, Popped
<1>4. back'.frame <= n + 1
  <2>1. q12[1].op = "present" => q12[1].frame <= n
    BY <1>1 DEF Queue12
  <2>2. back.frame <= n + 1
    BY DEF Queue12
  <2> QED BY <1>0, <1>1, <2>1, <2>2
<1> QED BY <1>2, <1>3, <1>4 DEF Queue12

LEMMA DevicesPop ==
    ASSUME IInv, lapses = {}, GameQueue
    PROVE Devices'
<1>0. TypeInv /\ Kinds /\ Devices /\ q12 # <<>> /\ q12' = Tail(q12)
  BY DEF IInv, GameQueue
<1>1. UNCHANGED <<call, q11, native, host, retired, surface, copies, d11>> /\ color'.gen = color.gen /\ fence'.d11 = fence.d11
  BY <1>0, PoppedImages, PoppedFence DEF GameQueue
<1>2. \A i \in DOMAIN q12' : i \in Nat \ {0} /\ (i + 1) \in DOMAIN q12 /\ q12'[i] = q12[i + 1]
  BY <1>0, Popped
<1>3. Allocators'
  <2>1. ASSUME NEW i \in DOMAIN q12', q12'[i].op \in CopyOps PROVE Before(i, "copy", copies[q12[i].ctx])'
    <3>1. PICK v : v = copies[q12'[i].ctx]
      OBVIOUS
    <3>2. Before(i + 1, "copy", v)
      BY <1>0, <1>2, <2>1, <3>1 DEF Devices, Allocators
    <3>3. Before(i, "copy", v)'
      BY <1>0, <3>2, BeforePop
    <3> QED BY <1>1, <3>1, <3>3 DEF Before
  <2>2. ASSUME NEW i \in DOMAIN q12', NEW j \in DOMAIN q12', i # j, q12'[i].op \in CopyOps PROVE q12'[i].ctx # q12'[j].ctx
    <3>1. i + 1 # j + 1
      BY <1>2, <2>2
    <3> QED BY <1>0, <1>2, <2>2, <3>1 DEF Devices, Allocators
  <2> QED BY <1>1, <2>1, <2>2 DEF Allocators, Before
<1>4. Bundles'
  <2>1. ASSUME NEW i \in DOMAIN q12', q12'[i].op \in NativeOps
        PROVE  /\ IF q12'[i].gen = native.inst THEN Own(i)' ELSE Bundled(i)'
               /\ \A r \in retired : r.inst = q12'[i].gen => Before(i, "native", r.target)'
    <3>1. /\ IF q12[i + 1].gen = native.inst THEN Own(i + 1) ELSE Bundled(i + 1)
          /\ \A r \in retired : r.inst = q12[i + 1].gen => Before(i + 1, "native", r.target)
      BY <1>0, <1>2, <2>1 DEF Devices, Bundles
    <3>2. CASE q12[i + 1].gen = native.inst
      <4>1. Before(i + 1, "native", native.value) /\ (q12[i + 1].op = "nativePre" => native.hold /\ host \in {0, q12[i + 1].frame})
        BY <3>1, <3>2 DEF Own
      <4>2. PICK v : v = native.value
        OBVIOUS
      <4>3. Before(i, "native", v)'
        BY <1>0, <4>1, <4>2, BeforePop
      <4>4. Own(i)'
        BY <1>1, <1>2, <4>1, <4>2, <4>3 DEF Own, Before
      <4> QED BY <1>0, <1>2, <3>1, <3>2, <4>4, BeforePop
    <3>3. CASE q12[i + 1].gen # native.inst
      <4>1. Bundled(i)'
        BY <1>1, <1>2, <3>1, <3>3 DEF Bundled
      <4> QED BY <1>0, <1>2, <3>1, <3>3, <4>1, BeforePop
    <3> QED BY <3>2, <3>3
  <2>2. \A i, j \in DOMAIN q12' : i # j /\ q12'[i].op \in NativeOps /\ q12'[j].op \in NativeOps => q12'[i].gen # q12'[j].gen
    <3> SUFFICES ASSUME NEW i \in DOMAIN q12', NEW j \in DOMAIN q12', i # j, q12'[i].op \in NativeOps, q12'[j].op \in NativeOps
                 PROVE  q12'[i].gen # q12'[j].gen
      OBVIOUS
    <3>1. i + 1 # j + 1
      BY <1>2
    <3> QED BY <1>0, <1>2, <3>1 DEF Devices, Bundles
  <2>3. \A r \in retired : r.inst < native.inst
    BY <1>0 DEF Devices, Bundles
  <2> QED BY <1>1, <2>1, <2>2, <2>3 DEF Bundles
<1>5. Pending'
  BY <1>0, <1>1 DEF Devices, Pending, Live, Before11
<1>6. Surfaced'
  BY <1>0, <1>1, <1>2 DEF Devices, Surfaced
<1>7. Sorted'
  <2>1. ASSUME NEW i \in DOMAIN q12', NEW j \in DOMAIN q12', i < j
        PROVE  q12'[i].frame <= q12'[j].frame /\ (q12'[i].op = "present" => q12'[i].frame < q12'[j].frame)
    <3>1. i + 1 < j + 1
      BY <1>2, <2>1
    <3> QED BY <1>0, <1>2, <3>1 DEF Devices, Sorted
  <2>2. ASSUME NEW i \in DOMAIN q12' PROVE q12'[i].frame >= back'.frame
    <3>1. 1 < i + 1 /\ 1 \in DOMAIN q12 /\ q12[i + 1] \in Works /\ q12[1].frame = back.frame /\ back.frame \in Nat
      BY <1>0, <1>2, QueueFits, HeadFrame
    <3>2. q12[i + 1].frame \in Nat
      BY <3>1 DEF Works
    <3>3. q12[i + 1].frame >= back.frame /\ (q12[1].op = "present" => back.frame < q12[i + 1].frame)
      BY <1>0, <1>2, <3>1 DEF Devices, Sorted
    <3>4. back'.frame = (IF q12[1].op = "present" THEN back.frame + 1 ELSE back.frame)
      BY BackFrame
    <3> QED BY <1>2, <3>1, <3>2, <3>3, <3>4
  <2> QED BY <2>1, <2>2 DEF Sorted
<1>8. Predicted'
  <2> SUFFICES ASSUME NEW i \in DOMAIN q12'
               PROVE  /\ q12'[i].op = "copyOut" => ColorShows(i, q12[i].frame)'
                      /\ q12'[i].op = "nativePost" => CurrentShows(i, q12[i].frame)'
                      /\ q12'[i].op = "present" /\ q12'[i].neural => BackNeural(i)'
    BY DEF Predicted
  <2>1. PICK f : f = q12'[i].frame
    OBVIOUS
  <2>2. i \in Nat \ {0} /\ i <= Len(q12)
    BY <1>0, Popped
  <2>3. /\ q12'[i].op = "copyOut" => ColorShows(i + 1, f)
        /\ q12'[i].op = "nativePost" => CurrentShows(i + 1, f)
        /\ q12'[i].op = "present" /\ q12'[i].neural => BackNeural(i + 1)
    BY <1>0, <1>2, <2>1 DEF Devices, Predicted
  <2>4. /\ q12'[i].op = "copyOut" => ColorShows(i, f)'
        /\ q12'[i].op = "nativePost" => CurrentShows(i, f)'
        /\ q12'[i].op = "present" /\ q12'[i].neural => BackNeural(i)'
    BY <2>2, <2>3, ShowsPop, BackPop
  <2>5. q12'[i].op = "copyOut" => ColorShows(i, q12[i].frame)'
    BY <2>1, <2>4 DEF ColorShows
  <2>6. q12'[i].op = "nativePost" => CurrentShows(i, q12[i].frame)'
    BY <2>1, <2>4 DEF CurrentShows
  <2> QED BY <2>4, <2>5, <2>6
<1>9. Remembered'
  <2> SUFFICES ASSUME NEW i \in DOMAIN q12', q12'[i].op = "nativePre", q12'[i].history # 0
               PROVE  /\ image'.history = q12'[i].history /\ None({"nativePost"}, 1, i)'
                      /\ color'.gen = 0 \/ color'.gen > q12'[i].frame
    BY DEF Remembered
  <2>1. image.history = q12'[i].history /\ None({"nativePost"}, 1, i + 1) /\ (color.gen = 0 \/ color.gen > q12'[i].frame)
    BY <1>0, <1>2 DEF Devices, Remembered
  <2>2. i \in Nat \ {0} /\ i <= Len(q12)
    BY <1>0, Popped
  <2>3. q12[1].op # "nativePost" /\ None({"nativePost"}, 1, i)'
    BY <1>0, <2>1, <2>2, NoneFirst
  <2>4. image'.history = image.history
    BY <1>0, <2>3, PoppedImages
  <2> QED BY <1>1, <2>1, <2>3, <2>4
<1> QED BY <1>3, <1>4, <1>5, <1>6, <1>7, <1>8, <1>9 DEF Devices

LEMMA FactsPop ==
    ASSUME IInv, lapses = {}, GameQueue, NEW d \in Calls, Facts(d)
    PROVE Facts(d)'
<1>0. TypeInv /\ Kinds /\ Devices /\ q12 # <<>> /\ q12' = Tail(q12) /\ d.frame \in Nat
  BY DEF IInv, GameQueue, Calls
<1>1. UNCHANGED <<mode, q11, native, surface, copies, d11>> /\ color'.gen = color.gen /\ color'.desc = color.desc
  BY <1>0, PoppedImages DEF GameQueue
<1>2. \A i \in DOMAIN q12' : i \in Nat \ {0} /\ (i + 1) \in DOMAIN q12 /\ q12'[i] = q12[i + 1]
  BY <1>0, Popped
<1>3. Waiting(d)' /\ Earlier(d)' /\ NonePending(d)'
  BY <1>1 DEF Facts, Waiting, Earlier, Older11, NonePending
<1>4. Arrived(d)'
  <2>1. /\ \A ctx : Unused(ctx) => Unused(ctx)'
        /\ NativeUnused => NativeUnused'
        /\ NoneLive => NoneLive'
    BY <1>1, <1>2 DEF Unused, NativeUnused, NoneLive, Live
  <2> QED BY <1>0, <1>1, <2>1 DEF Facts, Arrived
<1>5. Last(d)'
  <2>1. ASSUME NEW ops, NEW f \in {"copy", "native"}, NEW v, Behind(ops, f, v) PROVE Behind(ops, f, v)'
    <3> SUFFICES ASSUME NEW i \in DOMAIN q12', q12'[i].op \in ops PROVE Before(i, f, v)'
      BY DEF Behind
    <3>1. Before(i + 1, f, v)
      BY <1>2, <2>1 DEF Behind
    <3> QED BY <1>0, <3>1, BeforePop
  <2>2. PICK u, v, n : u = copies.pre /\ v = native.value /\ n = d.frame
    OBVIOUS
  <2>3. /\ d.pc = "copiedIn" \/ (d.pc = "wait" /\ d.next = "capture") => Behind(CopyOps, "copy", u)'
        /\ d.pc = "nativeFinish" \/ (d.pc = "wait" /\ d.next = "nativeDone") => Behind(Ops, "native", v)'
    BY <2>1, <2>2 DEF Facts, Last
  <2>4. d.pc = "nativeEvaluate" => Begun(n)'
    BY <1>1, <1>2, <2>2 DEF Facts, Last, Begun
  <2> QED BY <1>1, <2>2, <2>3, <2>4 DEF Last, Behind, Before, Begun
<1>6. Having(d)'
  <2>1. Untouched(d)'
    BY <1>1, <1>2 DEF Facts, Having, Untouched
  <2> QED BY <1>1, <2>1 DEF Facts, Having
<1>7. Ranked(d)'
  <2>1. PICK n : n = Reach(d)
    OBVIOUS
  <2>2. n \in Nat
    BY <1>0, <2>1 DEF Facts, Having, Reach
  <2>3. Queue12(n)'
    BY <2>1, <2>2, QueuePop DEF Facts, Ranked
  <2>4. Older12(d.frame) => Older12(d.frame)'
    BY <1>2 DEF Older12
  <2> QED BY <2>1, <2>3, <2>4 DEF Facts, Ranked, Reach
<1>8. PICK p \in Nat \ {0} : p = Len(q12) /\ p <= Len(q12) /\ p + 1 = End /\ p = End'
  <2>1. Len(q12) \in Nat \ {0} /\ End = Len(q12) + 1 /\ End' = Len(q12)
    BY <1>0, Popped
  <2> QED BY <2>1
<1>9. Showing(d)'
  <2>1. PICK f : f = d.frame
    OBVIOUS
  <2>2. /\ ColorShows(End, f) => ColorShows(End, f)'
        /\ ColorNeural(End) => ColorNeural(End)'
        /\ CurrentShows(End, f) => CurrentShows(End, f)'
        /\ BackNeural(End) => BackNeural(End)'
    <3>1. /\ ColorShows(p + 1, f) => ColorShows(p, f)'
          /\ ColorNeural(p + 1) => ColorNeural(p)'
          /\ CurrentShows(p + 1, f) => CurrentShows(p, f)'
          /\ BackNeural(p + 1) => BackNeural(p)'
      BY <1>8, ShowsPop, BackPop
    <3>2. ColorShows(p, f)' => ColorShows(End, f)'
      BY <1>8 DEF ColorShows, None
    <3>3. ColorNeural(p)' => ColorNeural(End)'
      BY <1>8 DEF ColorNeural, None
    <3>4. CurrentShows(p, f)' => CurrentShows(End, f)'
      BY <1>8 DEF CurrentShows, None
    <3>5. BackNeural(p)' => BackNeural(End)'
      BY <1>8 DEF BackNeural, None
    <3> QED BY <1>8, <3>1, <3>2, <3>3, <3>4, <3>5
  <2>3. Evaluating => Evaluating'
    BY <1>1 DEF Evaluating
  <2>4. Showing(d)
    BY DEF Facts
  <2> QED BY <2>1, <2>2, <2>3, <2>4 DEF Showing
<1>10. Historic(d)'
  <2>1. PICK h, n : h = native.history /\ n = d.frame
    OBVIOUS
  <2>2. Kept(h) => Kept(h)'
    <3> SUFFICES ASSUME Kept(h) PROVE Kept(h)'
      OBVIOUS
    <3>1. q12[1].op # "nativePost" /\ None({"nativePost"}, 1, p)'
      BY <1>0, <1>8, NoneFirst DEF Kept
    <3>2. image'.history = h
      BY <1>0, <3>1, PoppedImages DEF Kept
    <3>3. None({"nativePost"}, 1, End)'
      BY <1>8, <3>1 DEF None
    <3> QED BY <3>2, <3>3 DEF Kept
  <2>3. Composed12(n) => Composed12(n)'
    <3> SUFFICES ASSUME Composed12(n) PROVE Composed12(n)'
      OBVIOUS
    <3>1. q12[Len(q12)].op = "nativePost" /\ q12[Len(q12)].frame = n
      BY <1>0 DEF Composed12
    <3>2. CASE Len(q12) = 1
      <4>1. image'.history = n
        BY <1>0, <3>1, <3>2, FirstFacts, PoppedImages
      <4>2. q12' = <<>>
        BY <1>0, <3>2, Popped
      <4> QED BY <4>1, <4>2 DEF Composed12
    <3>3. CASE Len(q12) # 1
      <4>1. Len(q12') = Len(q12) - 1 /\ Len(q12) \in Nat \ {0} /\ DOMAIN q12' = 1..(Len(q12) - 1)
        BY <1>0, Popped
      <4>2. Len(q12') \in DOMAIN q12' /\ Len(q12') + 1 = Len(q12)
        BY <3>3, <4>1
      <4>3. q12'[Len(q12')] = q12[Len(q12)] /\ q12' # <<>>
        BY <1>2, <4>2
      <4> QED BY <3>1, <4>3 DEF Composed12
    <3> QED BY <3>2, <3>3
  <2>4. Historic(d)
    BY DEF Facts
  <2> QED BY <1>1, <2>1, <2>2, <2>3, <2>4 DEF Historic, Kept, Composed12
<1> QED BY <1>3, <1>4, <1>5, <1>6, <1>7, <1>9, <1>10 DEF Facts

LEMMA GameQueueKeeps ==
    ASSUME IInv, GameQueue
    PROVE IInv'
<1>0. TypeInv /\ Values /\ Kinds /\ Recent(call.frame) /\ q12 # <<>> /\ q12' = Tail(q12)
  BY DEF IInv, GameQueue
<1>1. UNCHANGED <<mode, call, q11, lapses, native, host, retired, surface, copies, d11>>
  BY DEF GameQueue
<1>2. \A i \in DOMAIN q12' : i \in Nat \ {0} /\ (i + 1) \in DOMAIN q12 /\ q12'[i] = q12[i + 1]
  BY <1>0, Popped
<1>3. TypeInv'
  <2>1. q12' \in Seq(Works)
    BY <1>0, Popped
  <2> QED BY <1>0, <1>1, <2>1, PoppedFence, PoppedImages DEF TypeInv
<1>4. Values'
  <2>1. fence'.copy < copies.next /\ fence'.native <= native.last /\ fence'.d11 < d11.next
    <3>1. 1 \in DOMAIN q12
      BY <1>0, Popped
    <3> QED BY <1>0, <3>1, PoppedFence DEF Values
  <2>2. \A i \in DOMAIN q12' : /\ FenceOf(q12'[i].ctx) = "copy" => q12'[i].signal < copies.next
                               /\ FenceOf(q12'[i].ctx) = "native" => q12'[i].signal <= native.last
    BY <1>0, <1>2 DEF Values
  <2>3. \A k \in DOMAIN q11 : q11[k].signal < d11.next
    BY <1>0 DEF Values
  <2> QED BY <1>1, <2>1, <2>2, <2>3 DEF Values, FenceOf
<1>5. Kinds'
  BY <1>0, <1>1, <1>2 DEF Kinds
<1>6. Recent(call.frame)'
  BY <1>0, <1>1, <1>2, PoppedImages DEF Recent
<1>7. ASSUME lapses = {} PROVE Devices' /\ Facts(call)'
  <2>1. PICK d \in Calls : d = call
    BY CallFits
  <2>2. Facts(d)
    BY <1>7, <2>1 DEF IInv
  <2>3. Facts(d)' /\ Devices'
    BY <1>7, <2>2, FactsPop, DevicesPop
  <2>4. call' = d
    BY <1>1, <2>1
  <2> QED BY <2>3, <2>4, FactsOf
<1> QED BY <1>1, <1>3, <1>4, <1>5, <1>6, <1>7 DEF IInv

---------------------------------------------------------------------------
(* The queue of the separate device.                                       *)

\* Its commands are evaluations: the surface they compose is not queued to be replaced.
LEMMA RecoveryQueueKeeps ==
    ASSUME IInv, RecoveryQueue
    PROVE IInv'
<1> USE DEF nativeVars
<1>0. TypeInv /\ Values /\ Kinds /\ Recent(call.frame) /\ q11 # <<>> /\ q11' = Tail(q11) /\ q11 \in Seq(Works)
  BY DEF IInv, RecoveryQueue, TypeInv
<1>1. UNCHANGED <<mode, call, q12, back, lapses, native, image, host, retired, surface, copies, d11>>
  BY DEF RecoveryQueue
<1>2. /\ q11' \in Seq(Works) /\ Len(q11) \in Nat \ {0} /\ DOMAIN q11 = 1..Len(q11) /\ DOMAIN q11' = 1..(Len(q11) - 1)
      /\ Head(q11) = q11[1] /\ q11[1] \in Works /\ 1 \in DOMAIN q11
      /\ \A k \in DOMAIN q11' : k \in Nat \ {0} /\ (k + 1) \in DOMAIN q11 /\ q11'[k] = q11[k + 1]
      /\ \A k \in DOMAIN q11 : k = 1 \/ ((k - 1) \in DOMAIN q11' /\ q11'[k - 1] = q11[k])
  <2>1. /\ q11' \in Seq(Works) /\ Len(q11) \in Nat \ {0} /\ DOMAIN q11 = 1..Len(q11) /\ DOMAIN q11' = 1..(Len(q11) - 1)
        /\ Head(q11) = q11[1] /\ q11[1] \in Works /\ \A k \in 1..(Len(q11) - 1) : q11'[k] = q11[k + 1]
    BY <1>0, TailFits
  <2>2. \A k \in DOMAIN q11 : k = 1 \/ ((k - 1) \in DOMAIN q11' /\ q11'[k - 1] = q11[k])
    <3> SUFFICES ASSUME NEW k \in DOMAIN q11, k # 1 PROVE (k - 1) \in DOMAIN q11' /\ q11'[k - 1] = q11[k]
      OBVIOUS
    <3>1. (k - 1) \in 1..(Len(q11) - 1) /\ (k - 1) + 1 = k
      BY <2>1
    <3> QED BY <2>1, <3>1
  <2> QED BY <2>1, <2>2
<1>3. /\ fence' \in [copy : Nat, d11 : Nat, native : Nat] /\ fence'.copy = fence.copy /\ fence'.native = fence.native
      /\ fence'.d11 \in {fence.d11, q11[1].signal}
  <2>1. fence \in [copy : Nat, d11 : Nat, native : Nat] /\ q11[1].signal \in Nat
    BY <1>0, <1>2 DEF TypeInv, Works
  <2>2. fence' = fence \/ fence' = [fence EXCEPT !["d11"] = q11[1].signal]
    BY <1>2 DEF RecoveryQueue, Signalled
  <2> QED BY <2>1, <2>2
<1>4. /\ color' \in [gen : Nat, desc : Nat \X Nat, image : Images] /\ color'.gen = color.gen /\ color'.desc = color.desc
      /\ color'.image.frame = color.image.frame /\ (color.image.neural => color'.image.neural)
      /\ q11[1].neural /\ q11[1].gen = color.gen => color'.image.neural
  <2>1. color \in [gen : Nat, desc : Nat \X Nat, image : Images] /\ color.image \in Images
    BY <1>0 DEF TypeInv
  <2>2. color' = Composed(q11[1])
    BY <1>2 DEF RecoveryQueue
  <2>3. q11[1].op = "evaluate"
    BY <1>0, <1>2 DEF Kinds
  <2>4. CASE q11[1].neural /\ q11[1].gen = color.gen
    <3> DEFINE x == [color.image EXCEPT !.neural = TRUE]
    <3>1. x \in Images /\ x.frame = color.image.frame /\ x.neural = TRUE
      BY <2>1 DEF Images
    <3>2. color' = [color EXCEPT !.image = x]
      BY <2>2, <2>3, <2>4 DEF Composed
    <3> HIDE DEF x
    <3> QED BY <2>1, <3>1, <3>2
  <2>5. CASE ~(q11[1].neural /\ q11[1].gen = color.gen)
    BY <2>1, <2>2, <2>5 DEF Composed
  <2> QED BY <2>4, <2>5
<1>5. TypeInv'
  BY <1>0, <1>1, <1>2, <1>3, <1>4 DEF TypeInv
<1>6. Values'
  <2>1. q11[1].signal < d11.next /\ fence.d11 < d11.next
    BY <1>0, <1>2 DEF Values
  <2>2. fence'.d11 < d11.next
    BY <1>3, <2>1
  <2>3. \A k \in DOMAIN q11' : q11'[k].signal < d11.next
    BY <1>0, <1>2 DEF Values
  <2> QED BY <1>0, <1>1, <1>3, <2>2, <2>3 DEF Values, FenceOf
<1>7. Kinds'
  BY <1>0, <1>1, <1>2 DEF Kinds
<1>8. Recent(call.frame)'
  BY <1>0, <1>1, <1>2, <1>4 DEF Recent
<1>9. ASSUME lapses = {} PROVE Devices' /\ Facts(call)'
  <2>1. Devices /\ Facts(call)
    BY <1>9 DEF IInv
  <2>2. Allocators'
    BY <1>1, <1>3, <2>1 DEF Devices, Allocators, Before
  <2>3. Bundles'
    BY <1>1, <1>3, <2>1 DEF Devices, Bundles, Own, Bundled, Before
  <2>4. Pending'
    <3> SUFFICES ASSUME NEW k \in DOMAIN q11', Live(k)' PROVE fence'.d11 < d11.pending /\ \A j \in 1..(k - 1) : q11'[j].signal < d11.pending
      BY <1>1 DEF Pending, Before11
    <3>1. Live(k + 1)
      BY <1>1, <1>2, <1>4 DEF Live
    <3>2. fence.d11 < d11.pending /\ \A j \in 1..k : q11[j].signal < d11.pending
      <4>1. (k + 1) - 1 = k
        BY <1>2
      <4> QED BY <1>2, <2>1, <3>1, <4>1 DEF Devices, Pending, Before11
    <3>3. 1 \in 1..k /\ \A j \in 1..(k - 1) : j \in DOMAIN q11' /\ (j + 1) \in 1..k
      BY <1>2
    <3> QED BY <1>2, <1>3, <3>2, <3>3
  <2>5. Surfaced'
    BY <1>1, <1>2, <1>4, <2>1 DEF Devices, Surfaced
  <2>6. Sorted'
    BY <1>1, <2>1 DEF Devices, Sorted
  <2>7. /\ \A p, f : ColorShows(p, f) => ColorShows(p, f)'
        /\ \A p, f : CurrentShows(p, f) => CurrentShows(p, f)'
        /\ \A p : ColorNeural(p) => ColorNeural(p)'
        /\ \A p : BackNeural(p) => BackNeural(p)'
    <3>1. \A p, f : ColorShows(p, f) => ColorShows(p, f)'
      BY <1>1, <1>4 DEF ColorShows, None
    <3>2. \A p, f : CurrentShows(p, f) => CurrentShows(p, f)'
      BY <1>1 DEF CurrentShows, None
    <3>3. \A p : ColorNeural(p) => ColorNeural(p)'
      BY <1>1, <1>4 DEF ColorNeural, None
    <3>4. \A p : BackNeural(p) => BackNeural(p)'
      BY <1>1, <3>3 DEF BackNeural, None
    <3> QED BY <3>1, <3>2, <3>3, <3>4
  <2>8. Predicted'
    <3> SUFFICES ASSUME NEW i \in DOMAIN q12
                 PROVE  /\ q12'[i].op = "copyOut" => ColorShows(i, q12[i].frame)'
                        /\ q12'[i].op = "nativePost" => CurrentShows(i, q12[i].frame)'
                        /\ q12'[i].op = "present" /\ q12'[i].neural => BackNeural(i)'
      BY <1>1 DEF Predicted
    <3>1. PICK f : f = q12[i].frame
      OBVIOUS
    <3>2. /\ q12[i].op = "copyOut" => ColorShows(i, f)'
          /\ q12[i].op = "nativePost" => CurrentShows(i, f)'
          /\ q12[i].op = "present" /\ q12[i].neural => BackNeural(i)'
      BY <2>1, <2>7, <3>1 DEF Devices, Predicted
    <3> QED BY <1>1, <3>1, <3>2 DEF ColorShows, CurrentShows
  <2>9. Remembered'
    BY <1>1, <1>4, <2>1 DEF Devices, Remembered, None
  <2>10. PICK d \in Calls : d = call
    BY CallFits
  <2>11. Facts(d)
    BY <2>1, <2>10
  <2>12. Facts(d)'
    <3>1. Waiting(d)' /\ Earlier(d)' /\ NonePending(d)'
      BY <1>1, <1>2, <2>11 DEF Facts, Waiting, Earlier, Older11, NonePending
    <3>2. Arrived(d)'
      BY <1>1, <1>2, <1>4, <2>11 DEF Facts, Arrived, Unused, NativeUnused, NoneLive, Live
    <3>3. Last(d)'
      BY <1>1, <1>3, <2>11 DEF Facts, Last, Behind, Before, Begun
    <3>4. Having(d)' /\ Ranked(d)'
      BY <1>1, <1>4, <2>11 DEF Facts, Having, Untouched, Ranked, Queue12, Older12
    <3>5. Showing(d)'
      <4>1. PICK f, p : f = d.frame /\ p = End
        OBVIOUS
      <4>2. Evaluating => Evaluating' \/ ColorNeural(End)'
        <5> SUFFICES ASSUME NEW k \in DOMAIN q11, q11[k].gen = color.gen, q11[k].neural
                     PROVE  Evaluating' \/ ColorNeural(End)'
          BY DEF Evaluating
        <5>1. CASE k = 1
          <6>1. color'.image.neural
            BY <1>4, <5>1
          <6>2. \A i \in DOMAIN q12 : q12[i].op # "copyIn"
            BY <1>2, <2>1, <5>1 DEF Devices, Surfaced
          <6>3. \A h \in 1..(End - 1) : h \in DOMAIN q12
            BY <1>0, QueueFits DEF End
          <6> QED BY <1>1, <6>1, <6>2, <6>3 DEF ColorNeural, None, End
        <5>2. CASE k # 1
          BY <1>2, <1>4, <5>2 DEF Evaluating
        <5> QED BY <5>1, <5>2
      <4>3. /\ ColorShows(p, f) => ColorShows(p, f)'
            /\ CurrentShows(p, f) => CurrentShows(p, f)'
            /\ ColorNeural(p) => ColorNeural(p)'
            /\ BackNeural(p) => BackNeural(p)'
        BY <2>7
      <4>4. End' = p
        BY <1>1, <4>1 DEF End
      <4>5. /\ ColorShows(p, f)' => ColorShows(End, f)'
            /\ CurrentShows(p, f)' => CurrentShows(End, f)'
            /\ ColorNeural(p)' => ColorNeural(End)'
            /\ BackNeural(p)' => BackNeural(End)'
        <5>1. ColorShows(p, f)' => ColorShows(End, f)'
          BY <4>4 DEF ColorShows, None
        <5>2. CurrentShows(p, f)' => CurrentShows(End, f)'
          BY <4>4 DEF CurrentShows, None
        <5>3. ColorNeural(p)' => ColorNeural(End)'
          BY <4>4 DEF ColorNeural, None
        <5>4. BackNeural(p)' => BackNeural(End)'
          BY <4>4 DEF BackNeural, None
        <5> QED BY <5>1, <5>2, <5>3, <5>4
      <4>6. Showing(d)
        BY <2>11 DEF Facts
      <4> QED BY <4>1, <4>2, <4>3, <4>5, <4>6 DEF Showing
    <3>6. Historic(d)'
      BY <1>1, <1>4, <2>11 DEF Facts, Historic, Kept, None, End, Composed12
    <3> QED BY <3>1, <3>2, <3>3, <3>4, <3>5, <3>6 DEF Facts
  <2>13. call' = d
    BY <1>1, <2>10
  <2> QED BY <2>2, <2>3, <2>4, <2>5, <2>6, <2>8, <2>9, <2>12, <2>13, FactsOf DEF Devices
<1> QED BY <1>1, <1>5, <1>6, <1>7, <1>8, <1>9 DEF IInv

---------------------------------------------------------------------------
(* The specification.                                                      *)

\* Without a pipeline no call is in progress.
Idle == mode = "down" => call.pc = "idle"

LEMMA InitFits == Init => IInv /\ Idle
<1> SUFFICES ASSUME Init PROVE IInv /\ Idle
  OBVIOUS
<1>1. /\ mode = "down" /\ call = NoCall /\ q12 = <<>> /\ q11 = <<>> /\ lapses = {}
      /\ fence = [copy |-> 0, d11 |-> 0, native |-> 0] /\ back = [frame |-> 1, neural |-> FALSE]
      /\ native = NewNative(1, 0) /\ image = [current |-> 0, history |-> 0] /\ host = 0 /\ retired = {}
      /\ color = NoColor /\ surface = NoSurface
      /\ copies = [pre |-> 0, post |-> 0, guide |-> 0, next |-> 1] /\ d11 = [next |-> 1, pending |-> 0]
  BY DEF Init
<1>2. DOMAIN q12 = {} /\ DOMAIN q11 = {} /\ q12 \in Seq(Works) /\ q11 \in Seq(Works)
  BY <1>1
<1>3. call \in Calls /\ call.pc = "idle" /\ call.frame = 0 /\ call.togo = {} /\ call.guides = {} /\ call.ok = FALSE
  BY <1>1, NoCallFits
<1>4. TypeInv
  <2>1. native \in Natives
    BY <1>1 DEF NewNative, Natives
  <2>2. color \in [gen : Nat, desc : Nat \X Nat, image : Images]
    BY <1>1 DEF NoColor, NoImage, Images
  <2>3. surface \in [Kind -> Surfaces]
    BY <1>1 DEF NoSurface, Kind, Surfaces
  <2>4. back \in Images
    BY <1>1 DEF Images
  <2> QED BY <1>1, <1>2, <1>3, <2>1, <2>2, <2>3, <2>4 DEF TypeInv
<1>5. color.gen = 0 /\ (\A g \in Kind : surface[g].gen = 0 /\ surface[g].kind = "none") /\ native.last = 0 /\ native.history = 0
  BY <1>1 DEF NoColor, NoSurface, Kind, NewNative
<1>6. Values /\ Kinds /\ Recent(call.frame)
  BY <1>1, <1>2, <1>3, <1>5 DEF Values, Kinds, Recent
<1>7. Devices
  BY <1>1, <1>2, <1>5 DEF Devices, Allocators, Bundles, Pending, Surfaced, Sorted, Predicted, Remembered
<1>8. Facts(call)
  <2>1. Where(call) = "idle" /\ ~Coloring(call) /\ Presented(call) /\ Reach(call) = 0
    BY <1>3 DEF Where, Coloring, Resets, Presented, Reach
  <2>2. Waiting(call) /\ Earlier(call) /\ NonePending(call) /\ Arrived(call) /\ Last(call)
    BY <1>1, <1>2, <1>3, <2>1 DEF Waiting, Earlier, Older11, NonePending, Arrived, Last, Preparing, Guiding
  <2>3. Having(call)
    BY <1>2, <1>3, <2>1 DEF Having, Untouched, Preparing, Guiding
  <2>4. Ranked(call)
    BY <1>1, <1>2, <2>1 DEF Ranked, Queue12
  <2>5. Showing(call) /\ Historic(call)
    BY <1>3, <1>5, <2>1 DEF Showing, Historic, Guiding
  <2> QED BY <2>2, <2>3, <2>4, <2>5 DEF Facts
<1>9. Idle
  BY <1>3 DEF Idle
<1> QED BY <1>4, <1>6, <1>7, <1>8, <1>9 DEF IInv

\* Only initialize leaves the state without a pipeline, and only the destructor returns to it.
LEMMA IdleKeeps ==
    ASSUME IInv, Idle, [Next]_vars
    PROVE Idle'
<1>1. CASE UNCHANGED vars
  BY <1>1 DEF Idle, vars
<1>2. CASE mode = "down"
  <2>1. call.pc = "idle"
    BY <1>2 DEF Idle
  <2>2. ASSUME Initialize \/ GameQueue \/ RecoveryQueue PROVE call' = call
    BY <2>2 DEF Initialize, GameQueue, RecoveryQueue
  <2>3. ASSUME Present \/ PassOver \/ Route \/ EnsureOwnedColor \/ PreCopy \/ CopiedIn \/ Capture \/ OpenDirect \/ StageGuide
               \/ StageCopy \/ StageWait \/ GuideStaged \/ Evaluate \/ Evaluated \/ PostCopy \/ CopiedOut \/ Processed
               \/ NativeDone \/ Stop \/ ResetBegins \/ ResetNative \/ ResetCopies \/ ResetOwned \/ Destroy \/ Destroyed12
               \/ RetryNeural \/ Retried
        PROVE  FALSE
    BY <1>2, <2>1, <2>3 DEF Present, PassOver, Route, EnsureOwnedColor, PreCopy, CopiedIn, Capture, OpenDirect, StageGuide,
       StageCopy, StageWait, GuideStaged, Evaluate, Evaluated, PostCopy, CopiedOut, Processed, NativeDone, Stop, ResetBegins,
       ResetNative, ResetCopies, ResetOwned, Destroy, Destroyed12, RetryNeural, Retried
  <2>4. ASSUME Waits PROVE FALSE
    BY <2>1, <2>4 DEF Waits, Woken, Reached, Expired, Refused
  <2>5. ASSUME Native PROVE call' = call
    BY <2>1, <2>5 DEF Native, ReleaseHost, StartNative, NativeLate, NativeBegin, NativeEvaluate, NativePost, NativeFinish,
       NativeGone, HostCompletes, RetirementCompletes
  <2> QED BY <1>1, <2>1, <2>2, <2>3, <2>4, <2>5 DEF Next, Idle
<1>3. CASE mode # "down"
  <2>1. ASSUME Initialize PROVE Idle'
    BY <1>3, <2>1 DEF Initialize
  <2>2. ASSUME Destroyed12 PROVE Idle'
    <3>1. call' = [NoCall EXCEPT !.frame = call.frame]
      BY <2>2 DEF Destroyed12
    <3> QED BY <3>1 DEF Idle, NoCall
  <2>3. ASSUME Present \/ PassOver \/ Route \/ EnsureOwnedColor \/ PreCopy \/ CopiedIn \/ Capture \/ OpenDirect \/ StageGuide
               \/ StageCopy \/ StageWait \/ GuideStaged \/ Evaluate \/ Evaluated \/ PostCopy \/ CopiedOut \/ Processed
               \/ NativeDone \/ Stop \/ ResetBegins \/ ResetNative \/ ResetCopies \/ ResetOwned \/ Destroy
               \/ RetryNeural \/ Retried \/ GameQueue \/ RecoveryQueue
        PROVE  mode' = mode
    BY <2>3 DEF Present, PassOver, Route, EnsureOwnedColor, PreCopy, CopiedIn, Capture, OpenDirect, StageGuide,
       StageCopy, StageWait, GuideStaged, Evaluate, Evaluated, PostCopy, CopiedOut, Processed, NativeDone, Stop, ResetBegins,
       ResetNative, ResetCopies, ResetOwned, Destroy, RetryNeural, Retried, GameQueue, RecoveryQueue
  <2>4. ASSUME Waits PROVE mode' = mode
    BY <2>4 DEF Waits, Woken, Reached, Expired, Refused
  <2>5. ASSUME Native PROVE mode' = mode
    BY <2>5 DEF Native, ReleaseHost, StartNative, NativeLate, NativeBegin, NativeEvaluate, NativePost, NativeFinish,
       NativeGone, HostCompletes, RetirementCompletes
  <2> QED BY <1>1, <1>3, <2>1, <2>2, <2>3, <2>4, <2>5 DEF Next, Idle
<1> QED BY <1>2, <1>3

LEMMA NextKeeps ==
    ASSUME IInv, Idle, [Next]_vars
    PROVE IInv' /\ Idle'
<1>1. Idle'
  BY IdleKeeps
<1>2. CASE UNCHANGED vars
  <2>1. PICK d \in Calls : d = call
    BY CallFits DEF IInv
  <2>2. call' = d /\ call.frame <= d.frame /\ (lapses' = {} => lapses = {} /\ Facts(d))
    <3>1. call.frame \in Nat
      BY CallFits DEF IInv
    <3>2. lapses = {} => Facts(d)
      BY <2>1 DEF IInv
    <3> QED BY <1>2, <2>1, <3>1, <3>2 DEF vars
  <2>3. UNCHANGED <<mode, q12, q11, fence, back, nativeVars, owned>>
    BY <1>2 DEF vars
  <2>4. IInv'
    BY <2>2, <2>3, ThreadKeeps
  <2> QED BY <1>1, <2>4
<1>3. ASSUME Initialize \/ Present \/ PassOver \/ Route \/ EnsureOwnedColor \/ PreCopy \/ CopiedIn \/ Capture \/ OpenDirect
             \/ StageGuide \/ StageCopy \/ StageWait \/ GuideStaged
      PROVE IInv'
  BY <1>3, InitializeKeeps, PresentKeeps, PassOverKeeps, RouteKeeps, EnsureOwnedColorKeeps, PreCopyKeeps, CopiedInKeeps,
     CaptureKeeps, OpenDirectKeeps, StageGuideKeeps, StageCopyKeeps, StageWaitKeeps, GuideStagedKeeps
<1>4. ASSUME Evaluate PROVE IInv'
  <2>1. mode # "down"
    BY <1>4 DEF Idle, Evaluate
  <2> QED BY <1>4, <2>1, EvaluateKeeps
<1>5. ASSUME Evaluated \/ PostCopy \/ CopiedOut \/ Processed \/ NativeDone \/ Stop \/ ResetBegins \/ ResetNative \/ ResetCopies
             \/ ResetOwned \/ Destroy \/ Destroyed12 \/ RetryNeural \/ Retried \/ GameQueue \/ RecoveryQueue
      PROVE IInv'
  BY <1>5, EvaluatedKeeps, PostCopyKeeps, CopiedOutKeeps, ProcessedKeeps, NativeDoneKeeps, StopKeeps, ResetBeginsKeeps,
     ResetNativeKeeps, ResetCopiesKeeps, ResetOwnedKeeps, DestroyKeeps, Destroyed12Keeps, RetryNeuralKeeps, RetriedKeeps,
     GameQueueKeeps, RecoveryQueueKeeps
<1>6. ASSUME Waits PROVE IInv'
  BY <1>6, WokenKeeps, ReachedKeeps, ExpiredKeeps, RefusedKeeps DEF Waits
<1>7. ASSUME Native PROVE IInv'
  BY <1>7, ReleaseHostKeeps, StartNativeKeeps, NativeLateKeeps, NativeBeginKeeps, NativeEvaluateKeeps, NativePostKeeps,
     NativeFinishKeeps, NativeGoneKeeps, HostCompletesKeeps, RetirementCompletesKeeps DEF Native
<1> QED BY <1>1, <1>2, <1>3, <1>4, <1>5, <1>6, <1>7 DEF Next

\* The inductive invariant, on which the three properties rest
\* (D3D12On12Pipeline::process and what it calls, d3d12_on12.cpp:81-514).
THEOREM Invariance == Spec => [](IInv /\ Idle)
<1>1. Init => IInv /\ Idle
  BY InitFits
<1>2. IInv /\ Idle /\ [Next]_vars => (IInv /\ Idle)'
  BY NextKeeps
<1> QED BY <1>1, <1>2, PTL DEF Spec

\* What the queues say of what is in use is what NothingUsedTwice asks.
LEMMA NothingTwice == IInv => NothingUsedTwice
<1> SUFFICES ASSUME IInv, lapses = {} PROVE NothingUsedTwice
  BY DEF NothingUsedTwice
<1>1. Kinds /\ Allocators /\ Bundles /\ Surfaced
  BY DEF IInv, Devices
<1>2. ASSUME NEW i \in Queued({"copyIn", "copyOut", "copyGuide", "nativePre", "nativePost"}),
             NEW j \in Queued({"copyIn", "copyOut", "copyGuide", "nativePre", "nativePost"}),
             i # j, q12[i].ctx = q12[j].ctx
      PROVE  q12[i].ctx = "native" /\ q12[i].gen # q12[j].gen
  <2>1. i \in DOMAIN q12 /\ j \in DOMAIN q12 /\ q12[i].op \in CopyOps \cup NativeOps /\ q12[j].op \in CopyOps \cup NativeOps
    BY <1>2 DEF Queued, CopyOps, NativeOps
  <2>2. q12[i].ctx = CtxOf(q12[i].op) /\ q12[j].ctx = CtxOf(q12[j].op)
    BY <1>1, <2>1 DEF Kinds
  <2>3. q12[i].op \notin CopyOps
    BY <1>1, <1>2, <2>1 DEF Allocators
  <2>4. q12[i].op \in NativeOps /\ q12[i].ctx = "native"
    BY <2>1, <2>2, <2>3, ContextOf DEF NativeOps
  <2>5. q12[j].op \in NativeOps
    <3>1. q12[j].op \notin CopyOps
      BY <1>2, <2>2, <2>4, ContextOf DEF CopyOps
    <3> QED BY <2>1, <3>1
  <2> QED BY <1>1, <1>2, <2>1, <2>4, <2>5 DEF Bundles
<1>3. \A i \in Queued({"copyIn", "copyOut"}) : q12[i].gen = color.gen /\ \A k \in DOMAIN q11 : q11[k].gen # q12[i].gen
  BY <1>1 DEF Queued, Surfaced
<1>4. \A i \in Queued({"copyGuide"}) : \A g \in q12[i].guides :
        surface[g[1]].gen = g[2] /\ \A k \in DOMAIN q11 : g \notin q11[k].guides
  BY <1>1 DEF Queued, Surfaced
<1>5. ASSUME NEW i \in Queued({"nativePre"})
      PROVE  /\ q12[i].gen = native.inst => host \in {0, q12[i].frame}
             /\ \/ q12[i].gen = native.inst /\ native.hold
                \/ \E r \in retired : r.inst = q12[i].gen /\ r.hold
  <2>1. i \in DOMAIN q12 /\ q12[i].op = "nativePre" /\ q12[i].op \in NativeOps
    BY DEF Queued, NativeOps
  <2> QED BY <1>1, <2>1 DEF Bundles, Own, Bundled
<1> QED BY <1>2, <1>3, <1>4, <1>5 DEF NothingUsedTwice

\* No list is recorded on an allocator the GPU still reads, no surface is copied while D3D11
\* uses it, no snapshot is given up while the native pipeline reads it, no input is
\* overwritten that the external host uses (d3d12_on12.cpp:160-166, 222-333, 360;
\* d3d12_native_pipeline.cpp:88-149, 157-175).
THEOREM NothingIsUsedTwice == Spec => []NothingUsedTwice
<1>1. IInv => NothingUsedTwice
  BY NothingTwice
<1> QED BY <1>1, Invariance, PTL

LEMMA HeadShown ==
    ASSUME IInv
    PROVE [q12 # <<>> /\ q12' = Tail(q12) /\ lapses = {} => Shown(Head(q12))]_q12
<1> SUFFICES ASSUME q12 # <<>>, q12' = Tail(q12), lapses = {} PROVE Shown(Head(q12))
  OBVIOUS
<1>1. Head(q12) = q12[1]
  BY Popped DEF IInv
<1>2. q12[1].frame = back.frame
  BY HeadFrame
<1>3. q12[1].op = "present" /\ q12[1].neural => back.neural
  BY FirstFacts
<1> QED BY <1>1, <1>2, <1>3 DEF Shown

\* A Present shows its own frame, and its own neural image if it was reported as processed
\* (d3d12_on12.cpp:335-513, d3d12_native_pipeline.cpp:100-148).
THEOREM FramesAreTheirOwn == Spec => PresentsOwnFrame
<1>1. IInv => [q12 # <<>> /\ q12' = Tail(q12) /\ lapses = {} => Shown(Head(q12))]_q12
  BY HeadShown
<1> QED BY <1>1, Invariance, PTL DEF PresentsOwnFrame

LEMMA HeadFollows ==
    ASSUME IInv
    PROVE [q12 # <<>> /\ q12' = Tail(q12) /\ lapses = {} =>
             LET w == Head(q12)
             IN w.op = "nativePre" /\ w.history # 0 => image.history = w.history /\ color.gen \notin 1..w.frame]_q12
<1> SUFFICES ASSUME q12 # <<>>, q12' = Tail(q12), lapses = {}, Head(q12).op = "nativePre", Head(q12).history # 0
             PROVE  image.history = Head(q12).history /\ color.gen \notin 1..Head(q12).frame
  OBVIOUS
<1>1. Head(q12) = q12[1]
  BY Popped DEF IInv
<1>2. image.history = q12[1].history /\ (color.gen = 0 \/ color.gen > q12[1].frame)
  BY <1>1, FirstFacts
<1>3. color.gen \in Nat /\ q12[1].frame \in Nat
  BY HeadFrame DEF IInv, TypeInv
<1> QED BY <1>1, <1>2, <1>3

\* A native evaluation compares with the frame it was told of, and not across a Present of
\* the other path (d3d12_native_pipeline.cpp:102, 120, 142; d3d12_on12.cpp:359).
THEOREM HistoryFollows == Spec => NativeHistoryFollows
<1>1. IInv => [q12 # <<>> /\ q12' = Tail(q12) /\ lapses = {} =>
                LET w == Head(q12)
                IN w.op = "nativePre" /\ w.history # 0 => image.history = w.history /\ color.gen \notin 1..w.frame]_q12
  BY HeadFollows
<1> QED BY <1>1, Invariance, PTL DEF NativeHistoryFollows

=============================================================================
